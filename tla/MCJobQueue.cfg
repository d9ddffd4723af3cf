\* Safety of the queue: three processes, two row slots, a job type with a
\* handler and one without, every fault.
CONSTANTS
    Jobs = {j1, j2}
    Workers = {w1, w2, w3}
    Work = {report, legacy}
    Registered = {report}
    NoWork = NoWork
    NoJob = NoJob
    MaxAttempts = 3
    LockFor = 2
    Backoff = 1
    HandlerTimeout = 1
    RunMemory = 1
    Faults = {"crash", "queue", "slow"}
SPECIFICATION QueueSpec
SYMMETRY WorkersAndSlots
INVARIANTS
    TypeOK
    ClaimsMatchRows
    UniqueAttempt
    Exclusive
    NoSilentDrop
PROPERTY ReopenOnlyIfLate

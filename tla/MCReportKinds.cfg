\* Safety with every kind of job: an unsupported report, an
\* audit job and a job type nobody handles.
CONSTANTS
    Jobs = {j1, j2}
    Workers = {w1}
    Work = {r2, audit, legacy}
    Registered = {r2, audit}
    NoWork = NoWork
    NoJob = NoJob
    MaxAttempts = 2
    LockFor = 1
    Backoff = 1
    HandlerTimeout = 1
    RunMemory = 0
    Faults = {"crash", "queue", "store", "slow", "enqueue", "summary"}
    ProcessingLease = 1
    ReconcileAfter = 0
    LeaseMemory = 2
    Reports = {r2}
    Unsupported = {r2}
    Reconcilers = {p1}
SYMMETRY WorkersAndSlots
SPECIFICATION PipelineSpec
INVARIANT RowCoherent

\* A server with an embedded worker and a worker process, a job type without
\* a handler, one job row, every fault; fairness forbids symmetry.
CONSTANTS
    Jobs = {j1}
    Workers = {s1, w1}
    Servers = {s1}
    Enabled = {s1}
    Embedding = {s1}
    MaxOpen = 1
    Work = {report, legacy}
    Registered = {report}
    NoWork = NoWork
    NoJob = NoJob
    MaxAttempts = 2
    LockFor = 1
    Backoff = 1
    HandlerTimeout = 1
    RunMemory = 0
    Faults = {"crash", "queue", "slow"}
SPECIFICATION AppLiveSpec
INVARIANTS
    AppTypeOK
    CutOnlyIfTimedOut
    RepeatedOnlyIfForgotten
PROPERTIES
    ImplementsQueue
    Settles
    ShutdownEnds

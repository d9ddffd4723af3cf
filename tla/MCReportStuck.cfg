\* One worker, one report, the defaults in proportion; the only fault is a
\* summary that outlives the handler's timeout.
CONSTANTS
    Jobs = {j1}
    Workers = {w1}
    Work = {r1}
    Registered = {r1}
    NoWork = NoWork
    NoJob = NoJob
    MaxAttempts = 3
    LockFor = 3
    Backoff = 1
    HandlerTimeout = 1
    RunMemory = 0
    Faults = {"slow"}
    ProcessingLease = 3
    ReconcileAfter = 1
    LeaseMemory = 4
    Reports = {r1}
    Unsupported = {}
    Reconcilers = {p1}
SPECIFICATION PipelineLiveSpec
PROPERTY StaleProcessingReclaimed

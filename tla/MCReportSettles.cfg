\* Liveness of one worker whose summaries may fail as often as they like, with
\* the duplicates the reconciler adds: the attempt budget ends the retries.
CONSTANTS
    Jobs = {j1, j2}
    Workers = {w1}
    Work = {r1}
    Registered = {r1}
    NoWork = NoWork
    NoJob = NoJob
    MaxAttempts = 2
    LockFor = 1
    Backoff = 1
    HandlerTimeout = 1
    RunMemory = 0
    Faults = {"enqueue", "summary"}
    ProcessingLease = 1
    ReconcileAfter = 0
    LeaseMemory = 2
    Reports = {r1}
    Unsupported = {}
    Reconcilers = {p1}
SPECIFICATION PipelineLiveSpec
PROPERTY EveryReportSettles

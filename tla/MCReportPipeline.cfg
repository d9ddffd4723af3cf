\* Safety of the pipeline: one report, two workers, two job rows, one
\* reconciler; a crash leaves every state the faults "queue" and "enqueue" do.
CONSTANTS
    Jobs = {j1, j2}
    Workers = {w1, w2}
    Work = {r1}
    Registered = {r1}
    NoWork = NoWork
    NoJob = NoJob
    MaxAttempts = 2
    LockFor = 1
    Backoff = 1
    HandlerTimeout = 2
    RunMemory = 0
    Faults = {"crash", "store", "slow", "summary"}
    ProcessingLease = 2
    ReconcileAfter = 0
    LeaseMemory = 4
    Reports = {r1}
    Unsupported = {}
    Reconcilers = {p1}
SPECIFICATION PipelineSpec
SYMMETRY WorkersAndSlots
INVARIANTS
    PipelineTypeOK
    RowCoherent
    ExecutorHoldsLease
    ExclusiveExecution
PROPERTIES
    TerminalFrozen
    ImplementsLifecycle

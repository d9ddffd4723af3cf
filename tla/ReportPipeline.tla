--------------------------- MODULE ReportPipeline ---------------------------
(***************************************************************************)
(* Reports from creation to their final state: the service of              *)
(* internal/reports/service.go, its rows, the job queue that delivers      *)
(* reports.generate and the reconcile ticker, composed as app.go composes  *)
(* them.                                                                   *)
(*                                                                         *)
(*  - CreateReport inserts a row, then enqueues: two commits.              *)
(*  - Generate, the handler of reports.generate, makes up to four calls    *)
(*    under the job's context.  A call made after the context expired      *)
(*    fails without effect; with "store" among the faults a call can also  *)
(*    fail before it has an effect, or have its effect and lose the answer.*)
(*  - ReconcilePending lists the overdue pending rows, then enqueues each. *)
(***************************************************************************)
EXTENDS JobQueue, ReportStore

CONSTANTS
    Reports,        \* report ids; also the work items of reports.generate
    Unsupported,    \* those whose type supportedType rejects: rows written
                    \* by another version, for CreateReport refuses the type
    Reconcilers     \* processes running the reconcile ticker

ASSUME PipelineAssumption ==
    /\ Reports \subseteq Registered
    /\ Unsupported \subseteq Reports
    /\ LeaseMemory >= ProcessingLease + HandlerTimeout

VARIABLES
    reports,    \* reports.reports
    gen,        \* where each worker is in Generate
    creating,   \* reports whose CreateReport has yet to enqueue
    recon       \* reports a running ReconcilePending has yet to enqueue

pipelineVars == <<jobs, worker, reports, gen, creating, recon>>
frontVars == <<creating, recon>>

-----------------------------------------------------------------------------
(* Generate's program counter names the next call; at is the instant of    *)
(* the time.Now() that ClaimExecution is given.  "exhaust", "unsupported": *)
(* about to call MarkFailed with that reason.                              *)

Executing == {"summary", "complete", "retry", "exhaust", "unsupported"}
GenState == [pc: {"none", "get", "claim"} \cup Executing,
             at: (0 - HandlerTimeout)..0]
At(step) == [pc |-> step, at |-> 0]

\* The report a worker's job is about.
Target(w) == jobs[worker[w].job].work

\* A statement can be answered only while the handler's context is live, and
\* fail without effect once it is not, or when the store fails.
MayFail(w) == ~CtxLive(w) \/ "store" \in Faults
Apply(w, row) == CtxLive(w) /\ reports' = [reports EXCEPT ![Target(w)] = row]
GoTo(w, step) == gen' = [gen EXCEPT ![w] = At(step)]

\* An INSERT into platform.jobs is under way only while a slot is free: the
\* bound on rows makes callers wait, it does not make them fail.
Room == \E j \in Jobs : Free(j)

\* Generate returns to processOne.
Return(w, res) == HandlerReturns(w, res) /\ GoTo(w, "none")

PipelineInit ==
    /\ QueueInit
    /\ reports = [r \in Reports |->
           IF r \in Unsupported
           THEN [PendingReport EXCEPT !.updatedAt = 0 - ReconcileAfter - 1]
           ELSE NoReport]
    /\ gen = [w \in Workers |-> At("none")]
    /\ creating = {}
    /\ recon = [p \in Reconcilers |-> {}]

-----------------------------------------------------------------------------
(* CreateReport.                                                           *)

\* The INSERT commits and the service goes on to enqueue.
CreateInsert(r) ==
    /\ reports[r].status = "absent"
    /\ reports' = [reports EXCEPT ![r] = PendingReport]
    /\ creating' = creating \cup {r}
    /\ UNCHANGED <<queueVars, gen, recon>>

\* The INSERT commits but the service sees an error, or dies: no enqueue.
CreateInsertLost(r) ==
    /\ "store" \in Faults
    /\ reports[r].status = "absent"
    /\ reports' = [reports EXCEPT ![r] = PendingReport]
    /\ UNCHANGED <<queueVars, gen, frontVars>>

CreateEnqueue(r, j) ==
    /\ r \in creating
    /\ Enqueue(j, r)
    /\ creating' = creating \ {r}
    /\ UNCHANGED <<reports, gen, recon>>

\* Enqueue fails (or the process dies first): the row stays pending.
CreateEnqueueFails(r) ==
    /\ "enqueue" \in Faults
    /\ Room
    /\ r \in creating
    /\ creating' = creating \ {r}
    /\ UNCHANGED <<queueVars, reports, gen, recon>>

-----------------------------------------------------------------------------
(* ReconcilePending.                                                       *)

ReconcileList(p) ==
    LET list == {r \in Reports : Overdue(reports[r])} IN
    /\ recon[p] = {}
    /\ list # {}
    /\ recon' = [recon EXCEPT ![p] = list]
    /\ UNCHANGED <<queueVars, reports, gen, creating>>

ReconcileEnqueue(p, r, j) ==
    /\ r \in recon[p]
    /\ Enqueue(j, r)
    /\ recon' = [recon EXCEPT ![p] = @ \ {r}]
    /\ UNCHANGED <<reports, gen, creating>>

\* The loop logs a failed Enqueue and continues with the next report.
ReconcileEnqueueFails(p, r) ==
    /\ "enqueue" \in Faults
    /\ Room
    /\ r \in recon[p]
    /\ recon' = [recon EXCEPT ![p] = @ \ {r}]
    /\ UNCHANGED <<queueVars, reports, gen, creating>>

\* The process dies in the middle of the loop.
ReconcileCrash(p) ==
    /\ "crash" \in Faults
    /\ recon[p] # {}
    /\ recon' = [recon EXCEPT ![p] = {}]
    /\ UNCHANGED <<queueVars, reports, gen, creating>>

-----------------------------------------------------------------------------
(* Generate.                                                               *)

\* GetReportByID finds a pending or processing row.
GenGetOpen(w) ==
    /\ gen[w].pc = "get"
    /\ CtxLive(w)
    /\ reports[Target(w)].status \in {"pending", "processing"}
    /\ GoTo(w, "claim")
    /\ UNCHANGED <<queueVars, reports, frontVars>>

\* GetReportByID finds a final row, or none: nothing to do.
GenGetClosed(w) ==
    /\ gen[w].pc = "get"
    /\ CtxLive(w)
    /\ reports[Target(w)].status \notin {"pending", "processing"}
    /\ Return(w, "ok")
    /\ UNCHANGED <<reports, frontVars>>

GenGetFails(w) ==
    /\ gen[w].pc = "get"
    /\ MayFail(w)
    /\ Return(w, "err")
    /\ UNCHANGED <<reports, frontVars>>

\* Mutant: the report's type is not looked at after the claim.
GenClaimWinsUntyped(w) ==
    /\ gen[w].pc = "claim"
    /\ Claimable(reports[Target(w)], gen[w].at)
    /\ Apply(w, ClaimedReport(reports[Target(w)], gen[w].at))
    /\ GoTo(w, "summary")
    /\ UNCHANGED <<queueVars, frontVars>>

GenClaimWins(w) ==
    /\ gen[w].pc = "claim"
    /\ Claimable(reports[Target(w)], gen[w].at)
    /\ Apply(w, ClaimedReport(reports[Target(w)], gen[w].at))
    /\ GoTo(w, IF Target(w) \in Unsupported THEN "unsupported" ELSE "summary")
    /\ UNCHANGED <<queueVars, frontVars>>

\* sql.ErrNoRows: a fresh lease or a final row; the job counts as done.
GenClaimLoses(w) ==
    /\ gen[w].pc = "claim"
    /\ CtxLive(w)
    /\ ~Claimable(reports[Target(w)], gen[w].at)
    /\ Return(w, "ok")
    /\ UNCHANGED <<reports, frontVars>>

GenClaimFails(w) ==
    /\ gen[w].pc = "claim"
    /\ MayFail(w)
    /\ Return(w, "err")
    /\ UNCHANGED <<reports, frontVars>>

\* The claim is committed but its answer is lost.
GenClaimLost(w) ==
    /\ "store" \in Faults
    /\ gen[w].pc = "claim"
    /\ Claimable(reports[Target(w)], gen[w].at)
    /\ Apply(w, ClaimedReport(reports[Target(w)], gen[w].at))
    /\ Return(w, "err")
    /\ UNCHANGED frontVars

GenSummaryOk(w) ==
    /\ gen[w].pc = "summary"
    /\ CtxLive(w)
    /\ GoTo(w, "complete")
    /\ UNCHANGED <<queueVars, reports, frontVars>>

\* Mutant: handleRetryable does not ask for the attempt.
GenSummaryFailsForever(w) ==
    /\ gen[w].pc = "summary"
    /\ ~CtxLive(w) \/ "summary" \in Faults
    /\ GoTo(w, "retry")
    /\ UNCHANGED <<queueVars, reports, frontVars>>

\* handleRetryable: the last attempt gives up, an earlier one tries again.
GenSummaryFails(w) ==
    /\ gen[w].pc = "summary"
    /\ ~CtxLive(w) \/ "summary" \in Faults
    /\ GoTo(w, IF worker[w].attempt >= MaxAttempts THEN "exhaust" ELSE "retry")
    /\ UNCHANGED <<queueVars, reports, frontVars>>

\* MarkCompleted; ErrNoRows is nil to the caller as well.
GenComplete(w) ==
    /\ gen[w].pc = "complete"
    /\ Apply(w, MarkCompleted(reports[Target(w)]))
    /\ Return(w, "ok")
    /\ UNCHANGED frontVars

\* MarkCompleted fails: RetryableError, the row is left as it is.
GenCompleteFails(w) ==
    /\ gen[w].pc = "complete"
    /\ MayFail(w)
    /\ Return(w, "err")
    /\ UNCHANGED <<reports, frontVars>>

GenCompleteLost(w) ==
    /\ "store" \in Faults
    /\ gen[w].pc = "complete"
    /\ Apply(w, MarkCompleted(reports[Target(w)]))
    /\ Return(w, "err")
    /\ UNCHANGED frontVars

\* MarkPendingRetry; whatever it answers, Generate returns a RetryableError.
GenRetry(w) ==
    /\ gen[w].pc = "retry"
    /\ Apply(w, MarkPendingRetry(reports[Target(w)]))
    /\ Return(w, "err")
    /\ UNCHANGED frontVars

GenRetryFails(w) ==
    /\ gen[w].pc = "retry"
    /\ MayFail(w)
    /\ Return(w, "err")
    /\ UNCHANGED <<reports, frontVars>>

\* MarkFailed; its error is ignored and Generate returns nil.
GenMarkFailed(w) ==
    /\ gen[w].pc \in {"exhaust", "unsupported"}
    /\ Apply(w, MarkFailed(reports[Target(w)],
                           IF gen[w].pc = "exhaust" THEN "RETRY_EXHAUSTED"
                                                    ELSE "UNSUPPORTED_TYPE"))
    /\ Return(w, "ok")
    /\ UNCHANGED frontVars

GenMarkFailedFails(w) ==
    /\ gen[w].pc \in {"exhaust", "unsupported"}
    /\ MayFail(w)
    /\ Return(w, "ok")
    /\ UNCHANGED <<reports, frontVars>>

\* The other handlers app.go registers (the audit log), and a payload that
\* does not decode, return nil and touch no report.
OtherHandler(w) ==
    /\ worker[w].pc = "run"
    /\ Target(w) \notin Reports
    /\ Return(w, "ok")
    /\ UNCHANGED <<reports, frontVars>>

Generate(w) ==
    \/ GenGetOpen(w) \/ GenGetClosed(w) \/ GenGetFails(w)
    \/ GenClaimWins(w) \/ GenClaimLoses(w) \/ GenClaimFails(w)
    \/ GenClaimLost(w)
    \/ GenSummaryOk(w) \/ GenSummaryFails(w)
    \/ GenComplete(w) \/ GenCompleteFails(w) \/ GenCompleteLost(w)
    \/ GenRetry(w) \/ GenRetryFails(w)
    \/ GenMarkFailed(w) \/ GenMarkFailedFails(w)
    \/ OtherHandler(w)

-----------------------------------------------------------------------------
(* The queue's own steps.                                                  *)

\* Other producers: the todo-created event enqueues an audit job.
EnqueueOther(j, x) ==
    /\ x \notin Reports
    /\ Enqueue(j, x)
    /\ UNCHANGED <<reports, gen, frontVars>>

\* The claim commits and processOne calls the handler.
StartJob(w) ==
    /\ CommitClaim(w)
    /\ GoTo(w, IF Target(w) \in Reports THEN "get" ELSE "none")
    /\ UNCHANGED <<reports, frontVars>>

\* The steps of processOne before and after the handler.
QueueStep(w) ==
    /\ \/ \E j \in Jobs : SelectJob(w, j)
       \/ AbortClaim(w)
       \/ LoseClaim(w)
       \/ FinishOk(w)
       \/ FinishErr(w)
       \/ FinishUnknown(w)
       \/ FinishFails(w)
    /\ UNCHANGED <<reports, gen, frontVars>>

WorkerCrash(w) ==
    /\ Crash(w)
    /\ GoTo(w, "none")
    /\ UNCHANGED <<reports, frontVars>>

TimePasses ==
    /\ Tick
    /\ reports' = [r \in Reports |-> OlderReport(reports[r])]
    /\ gen' = [w \in Workers |->
           [gen[w] EXCEPT !.at = IF gen[w].pc = "claim"
                                 THEN Older(@, HandlerTimeout) ELSE @]]
    /\ UNCHANGED frontVars

PipelineNext ==
    \/ \E r \in Reports :
           \/ CreateInsert(r)
           \/ CreateInsertLost(r)
           \/ \E j \in Jobs : CreateEnqueue(r, j)
           \/ CreateEnqueueFails(r)
    \/ \E p \in Reconcilers :
           \/ ReconcileList(p)
           \/ \E r \in Reports, j \in Jobs : ReconcileEnqueue(p, r, j)
           \/ \E r \in Reports : ReconcileEnqueueFails(p, r)
           \/ ReconcileCrash(p)
    \/ \E j \in Jobs, x \in Work : EnqueueOther(j, x)
    \/ \E w \in Workers :
           StartJob(w) \/ QueueStep(w) \/ Generate(w) \/ WorkerCrash(w)
    \/ TimePasses

PipelineSpec == PipelineInit /\ [][PipelineNext]_pipelineVars

-----------------------------------------------------------------------------
(* Safety.                                                                 *)

\* The workers that hold r's execution lease and can still write to its row.
LiveExecutors(r) ==
    {w \in Workers : gen[w].pc \in Executing /\ CtxLive(w) /\ Target(w) = r}

\* Types of rows and of Generate; a worker is inside Generate exactly while
\* processOne runs the handler of a reports.generate job.
PipelineTypeOK ==
    /\ TypeOK
    /\ reports \in [Reports -> ReportRow]
    /\ gen \in [Workers -> GenState]
    /\ creating \subseteq Reports
    /\ recon \in [Reconcilers -> SUBSET Reports]
    /\ \A w \in Workers : gen[w].pc # "none" <=>
           worker[w].pc = "run" /\ Target(w) \in Reports

\* The columns of a report agree with its status, through every interleaving
\* of executions, retries and lost answers: a result only with completed, a
\* failure code only with failed and then the right one, the lease cleared on
\* pending, completed and failed.
RowCoherent ==
    \A r \in Reports :
        LET row == reports[r] IN
        /\ row.status # "processing" => row.processingStartedAt = NullLease
        /\ row.completed <=> row.status \in Terminal
        /\ row.result <=> row.status = "completed"
        /\ row.status \in Terminal \cup {"processing"} => row.started
        /\ row.failureCode # NoCode <=> row.status = "failed"
        /\ r \in Unsupported => row.status # "completed"
        /\ row.failureCode = "UNSUPPORTED_TYPE" => r \in Unsupported
        /\ row.failureCode = "RETRY_EXHAUSTED" => r \notin Unsupported

\* A final report stays as it is: duplicated deliveries, reconciliations and
\* late workers neither regenerate nor overwrite it.
TerminalFrozen ==
    [][\A r \in Reports : reports[r].status \in Terminal =>
           /\ reports'[r].status = reports[r].status
           /\ reports'[r].result = reports[r].result
           /\ reports'[r].failureCode = reports[r].failureCode]_pipelineVars

\* The lease does its work if it is no shorter than the handler's timeout:
\* whoever can still write a report's outcome holds its lease, taken since
\* its handler started ...
ExecutorHoldsLease ==
    HandlerTimeout <= ProcessingLease =>
        \A r \in Reports : \A w \in LiveExecutors(r) :
            /\ reports[r].status = "processing"
            /\ reports[r].processingStartedAt
                   >= worker[w].deadline - HandlerTimeout

\* ... and is alone, even where the queue has delivered the same job twice or
\* the reconciler has enqueued it again.
ExclusiveExecution ==
    HandlerTimeout <= ProcessingLease =>
        \A r \in Reports : \A v, w \in LiveExecutors(r) : v = w

\* The pipeline implements the lifecycle it documents.
Lifecycle == INSTANCE ReportLifecycle WITH
    status <- [r \in Reports |-> reports[r].status],
    executors <- [r \in Reports |-> LiveExecutors(r)]
ImplementsLifecycle == Lifecycle!LifecycleSpec

\* The comment on Generate and the documented lifecycle: when a retryable
\* failure ends Generate the report is back at pending, or failed if it was
\* the last attempt (docs/reports-validation.md, docs/adding-a-domain.md).
FailedAttemptRecorded ==
    [][\A w \in Workers : worker'[w].pc \in Outcomes =>
           /\ gen[w].pc = "retry" => reports'[Target(w)].status = "pending"
           /\ gen[w].pc = "exhaust" =>
                  reports'[Target(w)].status = "failed"]_pipelineVars

-----------------------------------------------------------------------------
(* Liveness.  Of the queue as in AppLifecycle: time passes, outcomes get   *)
(* recorded, a row's claims are not aborted for ever.  Calls made by       *)
(* Generate return; CreateReport and the reconcile ticker go on, and a     *)
(* failing Enqueue does not fail for ever.                                 *)

PipelineFairness ==
    /\ SF_pipelineVars(TimePasses)
    /\ \A w \in Workers :
           /\ WF_pipelineVars(Generate(w))
           /\ SF_pipelineVars(RecordOutcome(w) /\ QueueStep(w))
    /\ \A j \in Jobs :
           /\ SF_pipelineVars(\E w \in Workers : SelectJob(w, j) /\ QueueStep(w))
           /\ SF_pipelineVars(\E w \in Workers :
                                  worker[w].job = j /\ StartJob(w))
    /\ \A p \in Reconcilers :
           /\ WF_pipelineVars(ReconcileList(p))
           /\ \A r \in Reports :
                  SF_pipelineVars(\E j \in Jobs : ReconcileEnqueue(p, r, j))
    /\ \A r \in Reports :
           SF_pipelineVars(CreateEnqueueFails(r)
                               \/ \E j \in Jobs : CreateEnqueue(r, j))

PipelineLiveSpec == PipelineSpec /\ PipelineFairness

\* Every report that was accepted reaches a final state.
EveryReportSettles ==
    \A r \in Reports : reports[r].status \in {"pending", "processing"} ~>
                           reports[r].status \in Terminal

\* A report whose execution was lost is reclaimed once its lease is stale.
StaleProcessingReclaimed ==
    \A r \in Reports : reports[r].status = "processing" ~>
                           reports[r].status # "processing"
=============================================================================

------------------------ MODULE ReportPipelineProofs ------------------------
(***************************************************************************)
(* The reports pipeline for any number of reports, jobs, workers and       *)
(* reconcilers and every choice of the intervals.                          *)
(*                                                                         *)
(* Seen from the queue every step is one of QueueNext, so that all that    *)
(* JobQueueProofs shows of the queue holds here.  On top of it:            *)
(*  - GenInv: rows and Generate are well typed, the columns of a row agree *)
(*    with its status, and Generate knows on which side of supportedType   *)
(*    its report is, for that decides about the outcome it may write.      *)
(*  - LeaseInv: with a lease no shorter than the handler's timeout, who    *)
(*    can still write holds the lease and is alone.  It needs to know that *)
(*    a worker about to claim read its clock after its handler started.    *)
(***************************************************************************)
EXTENDS ReportPipeline, JobQueueProofs

\* RowCoherent, of one row.
CoherentRow(r, row) ==
    /\ row.status # "processing" => row.processingStartedAt = NullLease
    /\ row.completed <=> row.status \in Terminal
    /\ row.result <=> row.status = "completed"
    /\ row.status \in Terminal \cup {"processing"} => row.started
    /\ row.failureCode # NoCode <=> row.status = "failed"
    /\ r \in Unsupported => row.status # "completed"
    /\ row.failureCode = "UNSUPPORTED_TYPE" => r \in Unsupported
    /\ row.failureCode = "RETRY_EXHAUSTED" => r \notin Unsupported

\* A final row and what became of it.
FrozenRow(row, new) ==
    row.status \in Terminal => /\ new.status = row.status
                               /\ new.result = row.result
                               /\ new.failureCode = row.failureCode

\* After the claim Generate has looked at the type of its report.
TypeKnown ==
    \A w \in Workers :
        /\ gen[w].pc \in {"summary", "complete", "retry", "exhaust"} =>
               Target(w) \notin Unsupported
        /\ gen[w].pc = "unsupported" => Target(w) \in Unsupported

\* The now of a claim is no older than the handler that makes it.
ClaimIsRecent ==
    \A w \in Workers : gen[w].pc = "claim" /\ CtxLive(w) =>
        gen[w].at >= worker[w].deadline - HandlerTimeout

GenInv == ClaimInv /\ PipelineTypeOK /\ RowCoherent /\ TypeKnown

LeaseInv == ClaimIsRecent /\ ExecutorHoldsLease /\ ExclusiveExecution

-----------------------------------------------------------------------------
(* The statements on a row.                                                *)

\* ClaimReportExecution takes the lease, and never of a final report.
LEMMA ClaimedReportRow ==
    ASSUME NEW r \in Reports, NEW row \in ReportRow, CoherentRow(r, row),
           NEW at \in (0 - HandlerTimeout)..0, Claimable(row, at)
    PROVE  LET new == ClaimedReport(row, at) IN
           /\ new \in ReportRow
           /\ CoherentRow(r, new)
           /\ new.status = "processing"
           /\ new.processingStartedAt = at
           /\ row.status \in {"pending", "processing"}
<1> DEFINE new == ClaimedReport(row, at)
<1>1. /\ Clamp(at, LeaseMemory) = at
      /\ at \in NullLease..0
  BY StoreAssumption, PipelineAssumption, QueueAssumption DEF Clamp, NullLease
<1>2. Clamp(at, ReconcileAfter + 1) \in (0 - ReconcileAfter - 1)..0
  BY StoreAssumption, QueueAssumption DEF Clamp
<1>3. row.status \in {"pending", "processing"}
  BY DEF Claimable
<1>4. /\ new \in ReportRow
      /\ new.status = "processing" /\ new.processingStartedAt = at
      /\ new.started = TRUE /\ new.failureCode = NoCode
      /\ new.completed = row.completed /\ new.result = row.result
  BY <1>1, <1>2 DEF ClaimedReport, ReportRow, Statuses
<1>5. CoherentRow(r, new)
  BY <1>3, <1>4 DEF CoherentRow, Terminal, NoCode
<1> QED BY <1>3, <1>4, <1>5

LEMMA MarkCompletedRow ==
    ASSUME NEW r \in Reports \ Unsupported, NEW row \in ReportRow,
           CoherentRow(r, row)
    PROVE  LET new == MarkCompleted(row) IN
           /\ new \in ReportRow
           /\ CoherentRow(r, new)
           /\ FrozenRow(row, new)
           /\ row.status = "processing" => new.status = "completed"
<1> DEFINE new == MarkCompleted(row)
<1>1. CASE row.status # "processing"
  BY <1>1 DEF MarkCompleted, IfProcessing, FrozenRow
<1>2. CASE row.status = "processing"
  <2>1. NullLease \in NullLease..0 /\ 0 \in (0 - ReconcileAfter - 1)..0
    BY StoreAssumption DEF NullLease
  <2>2. /\ new \in ReportRow
        /\ new.status = "completed" /\ new.processingStartedAt = NullLease
        /\ new.completed = TRUE /\ new.result = TRUE
        /\ new.started = row.started /\ new.failureCode = NoCode
    BY <1>2, <2>1 DEF MarkCompleted, IfProcessing, ReportRow, Statuses, Terminal
  <2>3. CoherentRow(r, new)
    BY <1>2, <2>2 DEF CoherentRow, Terminal, NoCode
  <2> QED BY <1>2, <2>2, <2>3 DEF FrozenRow, Terminal
<1> QED BY <1>1, <1>2

LEMMA MarkPendingRetryRow ==
    ASSUME NEW r \in Reports, NEW row \in ReportRow, CoherentRow(r, row)
    PROVE  LET new == MarkPendingRetry(row) IN
           /\ new \in ReportRow
           /\ CoherentRow(r, new)
           /\ FrozenRow(row, new)
           /\ row.status = "processing" => new.status = "pending"
<1> DEFINE new == MarkPendingRetry(row)
<1>1. CASE row.status # "processing"
  BY <1>1 DEF MarkPendingRetry, IfProcessing, FrozenRow
<1>2. CASE row.status = "processing"
  <2>1. NullLease \in NullLease..0 /\ 0 \in (0 - ReconcileAfter - 1)..0
    BY StoreAssumption DEF NullLease
  <2>2. /\ new \in ReportRow
        /\ new.status = "pending" /\ new.processingStartedAt = NullLease
        /\ new.completed = row.completed /\ new.result = row.result
        /\ new.failureCode = NoCode
    BY <1>2, <2>1 DEF MarkPendingRetry, IfProcessing, ReportRow, Statuses
  <2>3. CoherentRow(r, new)
    BY <1>2, <2>2 DEF CoherentRow, Terminal, NoCode
  <2> QED BY <1>2, <2>2, <2>3 DEF FrozenRow, Terminal
<1> QED BY <1>1, <1>2

LEMMA MarkFailedRow ==
    ASSUME NEW r \in Reports, NEW row \in ReportRow, CoherentRow(r, row),
           NEW code,
           \/ code = "RETRY_EXHAUSTED" /\ r \notin Unsupported
           \/ code = "UNSUPPORTED_TYPE" /\ r \in Unsupported
    PROVE  LET new == MarkFailed(row, code) IN
           /\ new \in ReportRow
           /\ CoherentRow(r, new)
           /\ FrozenRow(row, new)
           /\ row.status = "processing" => new.status = "failed"
<1> DEFINE new == MarkFailed(row, code)
<1>1. CASE row.status # "processing"
  BY <1>1 DEF MarkFailed, IfProcessing, FrozenRow
<1>2. CASE row.status = "processing"
  <2>1. NullLease \in NullLease..0 /\ 0 \in (0 - ReconcileAfter - 1)..0
    BY StoreAssumption DEF NullLease
  <2>2. /\ new \in ReportRow
        /\ new.status = "failed" /\ new.processingStartedAt = NullLease
        /\ new.completed = TRUE /\ new.result = row.result
        /\ new.started = row.started /\ new.failureCode = code
    BY <1>2, <2>1
       DEF MarkFailed, IfProcessing, ReportRow, Statuses, Terminal, FailureCodes
  <2>3. CoherentRow(r, new)
    BY <1>2, <2>2 DEF CoherentRow, Terminal, NoCode
  <2> QED BY <1>2, <2>2, <2>3 DEF FrozenRow, Terminal
<1> QED BY <1>1, <1>2

\* A new row, by CreateReport.
LEMMA PendingReportRow ==
    ASSUME NEW r \in Reports
    PROVE  PendingReport \in ReportRow /\ CoherentRow(r, PendingReport)
<1>1. NullLease \in NullLease..0 /\ 0 \in (0 - ReconcileAfter - 1)..0
  BY StoreAssumption DEF NullLease
<1> QED
  BY <1>1 DEF PendingReport, NoReport, ReportRow, CoherentRow, Statuses,
              Terminal, NoCode

\* Time ages the two instants and nothing else.
LEMMA OlderReportRow ==
    ASSUME NEW r \in Reports, NEW row \in ReportRow, CoherentRow(r, row)
    PROVE  LET new == OlderReport(row) IN
           /\ new \in ReportRow
           /\ CoherentRow(r, new)
           /\ FrozenRow(row, new)
           /\ new.status = row.status
           /\ new.processingStartedAt = Older(row.processingStartedAt, LeaseMemory)
<1> DEFINE new == OlderReport(row)
<1>1. /\ Older(row.processingStartedAt, LeaseMemory) \in NullLease..0
      /\ Older(NullLease, LeaseMemory) = NullLease
  BY StoreAssumption DEF Older, NullLease, ReportRow
<1>2. Older(row.updatedAt, ReconcileAfter + 1) \in (0 - ReconcileAfter - 1)..0
  BY StoreAssumption DEF Older, ReportRow
<1>3. /\ new \in ReportRow
      /\ new.processingStartedAt = Older(row.processingStartedAt, LeaseMemory)
      /\ new.status = row.status /\ new.completed = row.completed
      /\ new.result = row.result /\ new.started = row.started
      /\ new.failureCode = row.failureCode
  BY <1>1, <1>2 DEF OlderReport, ReportRow
<1>4. CoherentRow(r, new)
  BY <1>1, <1>3 DEF CoherentRow
<1> QED BY <1>3, <1>4 DEF FrozenRow

-----------------------------------------------------------------------------
(* The queue inside the pipeline.                                          *)

\* Seen from platform.jobs the pipeline is a queue with its workers.
LEMMA PipelineQueueStep ==
    [PipelineNext]_pipelineVars => [QueueNext]_queueVars
<1> SUFFICES ASSUME [PipelineNext]_pipelineVars PROVE [QueueNext]_queueVars
  OBVIOUS
<1>1. ASSUME NEW j \in Jobs, NEW x \in Work, Enqueue(j, x) PROVE QueueNext
  BY <1>1 DEF QueueNext
<1>2. ASSUME NEW w \in Workers, WorkerStep(w) PROVE QueueNext
  BY <1>2 DEF QueueNext
<1>3. Reports \subseteq Work
  BY QueueAssumption, PipelineAssumption
<1>4. ASSUME NEW r \in Reports,
             \/ CreateInsert(r) \/ CreateInsertLost(r)
             \/ \E j \in Jobs : CreateEnqueue(r, j)
             \/ CreateEnqueueFails(r)
      PROVE  [QueueNext]_queueVars
  BY <1>1, <1>3, <1>4
     DEF CreateInsert, CreateInsertLost, CreateEnqueue, CreateEnqueueFails
<1>5. ASSUME NEW p \in Reconcilers,
             \/ ReconcileList(p)
             \/ \E r \in Reports, j \in Jobs : ReconcileEnqueue(p, r, j)
             \/ \E r \in Reports : ReconcileEnqueueFails(p, r)
             \/ ReconcileCrash(p)
      PROVE  [QueueNext]_queueVars
  BY <1>1, <1>3, <1>5
     DEF ReconcileList, ReconcileEnqueue, ReconcileEnqueueFails, ReconcileCrash
<1>6. ASSUME NEW j \in Jobs, NEW x \in Work, EnqueueOther(j, x)
      PROVE  [QueueNext]_queueVars
  BY <1>1, <1>6 DEF EnqueueOther
<1>7. ASSUME NEW w \in Workers, StartJob(w) \/ QueueStep(w) \/ WorkerCrash(w)
      PROVE  [QueueNext]_queueVars
  BY <1>2, <1>7 DEF StartJob, QueueStep, WorkerCrash, WorkerStep
<1>8. ASSUME NEW w \in Workers, Generate(w) PROVE [QueueNext]_queueVars
  <2>1. ASSUME NEW res \in {"ok", "err"}, Return(w, res) PROVE QueueNext
    BY <1>2, <2>1 DEF Return, WorkerStep
  <2> QED
    BY <1>8, <2>1
       DEF Generate, GenGetOpen, GenGetClosed, GenGetFails, GenClaimWins,
           GenClaimLoses, GenClaimFails, GenClaimLost, GenSummaryOk,
           GenSummaryFails, GenComplete, GenCompleteFails, GenCompleteLost,
           GenRetry, GenRetryFails, GenMarkFailed, GenMarkFailedFails,
           OtherHandler
<1>9. CASE TimePasses
  BY <1>9 DEF TimePasses, QueueNext
<1>10. CASE UNCHANGED pipelineVars
  BY <1>10 DEF pipelineVars, queueVars
<1> QED
  BY <1>4, <1>5, <1>6, <1>7, <1>8, <1>9, <1>10 DEF PipelineNext

\* Nobody changes what a job is about while a worker has to do with it.
LEMMA WorkStable ==
    ASSUME ClaimInv, [QueueNext]_queueVars,
           NEW w \in Workers, worker[w].job \in Jobs
    PROVE  jobs'[worker[w].job].work = jobs[worker[w].job].work
<1> DEFINE j == worker[w].job
<1>0. jobs \in [Jobs -> Row]
  BY DEF ClaimInv, TypeOK
<1>1. ASSUME NEW k \in Jobs, NEW x \in Work, Enqueue(k, x)
      PROVE  jobs'[j].work = jobs[j].work
  BY <1>0, <1>1, FreeSlot DEF Enqueue
<1>2. ASSUME NEW v \in Workers, CommitClaim(v) \/ LoseClaim(v)
      PROVE  jobs'[j].work = jobs[j].work
  <2>1. /\ worker[v].pc = "tx"
        /\ jobs' = [jobs EXCEPT ![worker[v].job] = ClaimedRow(@, worker[v].txAt)]
    BY <1>2 DEF CommitClaim, LoseClaim
  <2>2. ClaimedRow(jobs[worker[v].job], worker[v].txAt).work
            = jobs[worker[v].job].work
    BY <2>1, OpenClaim, ClaimedRowType
  <2> QED BY <1>0, <2>1, <2>2
<1>3. ASSUME NEW v \in Workers, NEW res \in {"ok", "err"}, HandlerReturns(v, res)
      PROVE  jobs'[j].work = jobs[j].work
  BY <1>0, <1>3 DEF HandlerReturns, Row
<1>4. ASSUME NEW v \in Workers, FinishOk(v) \/ FinishErr(v) \/ FinishUnknown(v)
      PROVE  jobs'[j].work = jobs[j].work
  <2>1. /\ FinishedRow(jobs[j]).work = jobs[j].work
        /\ FailedRow(jobs[j]).work = jobs[j].work
    BY <1>0, FinishedRowType, FailedRowType
  <2> QED BY <1>0, <1>4, <2>1 DEF FinishOk, FinishErr, FinishUnknown
<1>5. CASE Tick
  BY <1>5, AgedRow
<1>6. ASSUME NEW v \in Workers,
             \/ PollEmpty(v) \/ AbortClaim(v) \/ FinishFails(v) \/ Crash(v)
             \/ \E k \in Jobs : SelectJob(v, k)
      PROVE  jobs'[j].work = jobs[j].work
  BY <1>6 DEF PollEmpty, AbortClaim, FinishFails, Crash, SelectJob, queueVars
<1>7. CASE UNCHANGED queueVars
  BY <1>7 DEF queueVars
<1> QED
  BY <1>1, <1>2, <1>3, <1>4, <1>5, <1>6, <1>7 DEF QueueNext, WorkerStep

-----------------------------------------------------------------------------
(* What the step of a worker is to the reports: it writes nothing, takes a *)
(* lease, or resolves the report it executes.                              *)

OthersRest(w) ==
    \A v \in Workers \ {w} : worker'[v] = worker[v] /\ gen'[v] = gen[v]

MovesOnly(w) ==
    /\ reports' = reports
    /\ gen'[w].pc \in Executing =>
           gen[w].pc \in Executing /\ worker'[w] = worker[w]
    /\ gen'[w].pc = "claim" => gen'[w].at = 0

TakesLease(w) ==
    /\ gen[w].pc = "claim"
    /\ CtxLive(w)
    /\ Claimable(reports[Target(w)], gen[w].at)
    /\ reports' = [reports EXCEPT ![Target(w)] =
                       ClaimedReport(reports[Target(w)], gen[w].at)]
    /\ \/ gen'[w].pc = "none"
       \/ gen'[w].pc \in {"summary", "unsupported"} /\ worker'[w] = worker[w]

ResolvesReport(w) ==
    /\ gen[w].pc \in Executing
    /\ CtxLive(w)
    /\ gen'[w].pc = "none"
    /\ \E row \in ReportRow :
           /\ reports' = [reports EXCEPT ![Target(w)] = row]
           /\ FrozenRow(reports[Target(w)], row)
           /\ reports[Target(w)].status = "processing" =>
                  row.status \in {"pending", "completed", "failed"}

WorkerEffect(w) ==
    /\ OthersRest(w)
    /\ MovesOnly(w) \/ TakesLease(w) \/ ResolvesReport(w)

\* A worker inside Generate has a job, whose report is its target.
LEMMA InsideGenerate ==
    ASSUME GenInv, NEW w \in Workers, gen[w].pc # "none"
    PROVE  /\ worker[w].pc = "run"
           /\ worker[w].job \in Jobs
           /\ Target(w) \in Reports
           /\ reports[Target(w)] \in ReportRow
           /\ CoherentRow(Target(w), reports[Target(w)])
<1>1. worker[w].pc = "run" /\ Target(w) \in Reports
  BY DEF GenInv, PipelineTypeOK
<1>2. worker[w].job \in Jobs
  BY <1>1 DEF GenInv, ClaimInv, ClaimsMatchRows, Holding
<1>3. reports[Target(w)] \in ReportRow
  BY <1>1 DEF GenInv, PipelineTypeOK
<1>4. CoherentRow(Target(w), reports[Target(w)])
  BY <1>1 DEF GenInv, RowCoherent, CoherentRow
<1> QED BY <1>1, <1>2, <1>3, <1>4

\* The others keep their targets while one worker moves.
LEMMA OthersKeepTargets ==
    ASSUME GenInv, [QueueNext]_queueVars, NEW w \in Workers, OthersRest(w),
           NEW v \in Workers \ {w}, gen[v].pc # "none"
    PROVE  Target(v)' = Target(v)
<1>1. worker[v].job \in Jobs /\ worker'[v] = worker[v]
  BY InsideGenerate DEF OthersRest
<1>2. jobs'[worker[v].job].work = jobs[worker[v].job].work
  BY <1>1, WorkStable DEF GenInv
<1> QED BY <1>1, <1>2 DEF Target

\* So GenInv need only be looked at for the worker that moves.
LEMMA GenInvOfWorker ==
    ASSUME GenInv, [QueueNext]_queueVars, NEW w \in Workers, OthersRest(w),
           NEW new \in GenState, gen' = [gen EXCEPT ![w] = new],
           UNCHANGED frontVars,
           reports' \in [Reports -> ReportRow],
           \A r \in Reports : CoherentRow(r, reports'[r]),
           new.pc # "none" <=> worker'[w].pc = "run" /\ Target(w)' \in Reports,
           new.pc \in {"summary", "complete", "retry", "exhaust"} =>
               Target(w)' \notin Unsupported,
           new.pc = "unsupported" => Target(w)' \in Unsupported
    PROVE  GenInv'
<1>1. ClaimInv'
  BY ClaimInvStep DEF GenInv
<1>2. gen' \in [Workers -> GenState] /\ gen'[w] = new
  BY DEF GenInv, PipelineTypeOK
<1>3. ASSUME NEW v \in Workers \ {w}, gen[v].pc # "none"
      PROVE  /\ worker'[v].pc = "run" /\ Target(v)' = Target(v)
             /\ gen'[v].pc = gen[v].pc
  BY <1>3, InsideGenerate, OthersKeepTargets DEF OthersRest
<1>4. ASSUME NEW v \in Workers \ {w}, gen[v].pc = "none", worker'[v].pc = "run"
      PROVE  gen'[v].pc = "none" /\ Target(v)' \notin Reports
  <2>1. worker'[v] = worker[v] /\ gen'[v] = gen[v]
    BY DEF OthersRest
  <2>2. worker[v].job \in Jobs
    BY <1>4, <2>1 DEF GenInv, ClaimInv, ClaimsMatchRows, Holding
  <2>3. Target(v)' = Target(v)
    BY <2>1, <2>2, WorkStable DEF Target, GenInv
  <2> QED BY <1>4, <2>1, <2>3 DEF GenInv, PipelineTypeOK
<1>5. \A v \in Workers : gen'[v].pc # "none" <=>
          worker'[v].pc = "run" /\ Target(v)' \in Reports
  <2> SUFFICES ASSUME NEW v \in Workers
               PROVE  gen'[v].pc # "none" <=>
                          worker'[v].pc = "run" /\ Target(v)' \in Reports
    OBVIOUS
  <2>1. CASE v = w
    BY <1>2, <2>1
  <2>2. CASE v # w /\ gen[v].pc # "none"
    BY <1>3, <2>2, InsideGenerate
  <2>3. CASE v # w /\ gen[v].pc = "none"
    BY <1>4, <2>3 DEF OthersRest
  <2> QED BY <2>1, <2>2, <2>3
<1>6. PipelineTypeOK'
  BY <1>1, <1>2, <1>5 DEF PipelineTypeOK, ClaimInv, GenInv, frontVars
<1>7. RowCoherent'
  BY DEF RowCoherent, CoherentRow
<1>8. TypeKnown'
  BY <1>2, <1>3 DEF TypeKnown, GenInv, OthersRest
<1> QED BY <1>1, <1>6, <1>7, <1>8 DEF GenInv

\* Generate returns to processOne.
LEMMA Returned ==
    ASSUME GenInv, NEW w \in Workers, NEW res \in {"ok", "err"}, Return(w, res)
    PROVE  /\ OthersRest(w)
           /\ gen' = [gen EXCEPT ![w] = At("none")]
           /\ gen'[w].pc = "none"
           /\ worker'[w].pc # "run"
           /\ At("none") \in GenState
<1>1. worker \in [Workers -> WorkerState] /\ gen \in [Workers -> GenState]
  BY DEF GenInv, PipelineTypeOK, TypeOK
<1>2. /\ worker' = [worker EXCEPT ![w].pc = res, ![w].deadline = 0]
      /\ gen' = [gen EXCEPT ![w] = At("none")]
  BY DEF Return, HandlerReturns, GoTo
<1>3. worker'[w].pc = res
  BY <1>1, <1>2 DEF WorkerState
<1>4. OthersRest(w)
  BY <1>1, <1>2 DEF OthersRest
<1>5. gen'[w].pc = "none"
  BY <1>1, <1>2 DEF At
<1>6. At("none") \in GenState
  BY QueueAssumption DEF At, GenState
<1> QED BY <1>2, <1>3, <1>4, <1>5, <1>6

\* A statement changes one row.
LEMMA OneRowWritten ==
    ASSUME GenInv, NEW r \in Reports, NEW row \in ReportRow,
           CoherentRow(r, row), reports' = [reports EXCEPT ![r] = row]
    PROVE  /\ reports' \in [Reports -> ReportRow]
           /\ \A s \in Reports : CoherentRow(s, reports'[s])
<1>1. reports \in [Reports -> ReportRow]
  BY DEF GenInv, PipelineTypeOK
<1>2. \A s \in Reports : CoherentRow(s, reports[s])
  BY DEF GenInv, RowCoherent, CoherentRow
<1>3. \A s \in Reports : reports'[s] = IF s = r THEN row ELSE reports[s]
  BY <1>1
<1> QED BY <1>1, <1>2, <1>3

LEMMA NoRowWritten ==
    ASSUME GenInv, reports' = reports
    PROVE  /\ reports' \in [Reports -> ReportRow]
           /\ \A s \in Reports : CoherentRow(s, reports'[s])
BY DEF GenInv, PipelineTypeOK, RowCoherent, CoherentRow

\* A step of Generate keeps GenInv and is one of the three effects.
LEMMA GenerateEffect ==
    ASSUME GenInv, [QueueNext]_queueVars, NEW w \in Workers, Generate(w)
    PROVE  GenInv' /\ WorkerEffect(w)
<1> DEFINE t == Target(w)
<1>0. /\ worker \in [Workers -> WorkerState]
      /\ gen \in [Workers -> GenState]
  BY DEF GenInv, PipelineTypeOK, TypeOK
<1>1. CASE \/ GenGetClosed(w) \/ GenGetFails(w) \/ GenClaimLoses(w)
           \/ GenClaimFails(w) \/ GenCompleteFails(w) \/ GenRetryFails(w)
           \/ GenMarkFailedFails(w) \/ OtherHandler(w)
  <2>1. PICK res \in {"ok", "err"} : Return(w, res)
    BY <1>1 DEF GenGetClosed, GenGetFails, GenClaimLoses, GenClaimFails,
                GenCompleteFails, GenRetryFails, GenMarkFailedFails, OtherHandler
  <2>2. reports' = reports /\ UNCHANGED frontVars
    BY <1>1 DEF GenGetClosed, GenGetFails, GenClaimLoses, GenClaimFails,
                GenCompleteFails, GenRetryFails, GenMarkFailedFails, OtherHandler
  <2>3. /\ OthersRest(w)
        /\ gen' = [gen EXCEPT ![w] = At("none")] /\ gen'[w].pc = "none"
        /\ worker'[w].pc # "run" /\ At("none") \in GenState
    BY <2>1, Returned
  <2>4. At("none").pc = "none"
    BY DEF At
  <2>5. GenInv'
    BY <2>2, <2>3, <2>4, GenInvOfWorker, NoRowWritten
  <2>6. MovesOnly(w)
    BY <2>2, <2>3 DEF MovesOnly, Executing
  <2> QED BY <2>3, <2>5, <2>6 DEF WorkerEffect
<1>2. ASSUME NEW step \in {"claim", "complete", "retry", "exhaust"},
             \/ gen[w].pc = "get" /\ step = "claim"
             \/ gen[w].pc = "summary" /\ step # "claim",
             GoTo(w, step), UNCHANGED <<queueVars, reports, frontVars>>
      PROVE  GenInv' /\ WorkerEffect(w)
  <2>1. /\ gen' = [gen EXCEPT ![w] = At(step)] /\ gen'[w] = At(step)
        /\ At(step).pc = step /\ At(step).at = 0
    BY <1>0, <1>2 DEF GoTo, At
  <2>2. At(step) \in GenState
    BY QueueAssumption DEF At, GenState, Executing
  <2>3. OthersRest(w) /\ worker' = worker
    BY <1>0, <1>2, <2>1 DEF OthersRest, queueVars
  <2>4. Target(w)' = t
    BY <1>2 DEF Target, queueVars
  <2>5. worker[w].pc = "run" /\ t \in Reports
    BY <1>2, InsideGenerate
  <2>6. step # "claim" => t \notin Unsupported
    BY <1>2 DEF GenInv, TypeKnown
  <2>7. GenInv'
    BY <1>2, <2>1, <2>2, <2>3, <2>4, <2>5, <2>6, GenInvOfWorker, NoRowWritten
  <2>8. MovesOnly(w)
    BY <1>2, <2>1, <2>3 DEF MovesOnly, Executing
  <2> QED BY <2>3, <2>7, <2>8 DEF WorkerEffect
<1>3. CASE GenGetOpen(w) \/ GenSummaryOk(w) \/ GenSummaryFails(w)
  <2>1. CASE GenGetOpen(w)
    BY <1>2, <2>1 DEF GenGetOpen
  <2>2. CASE GenSummaryOk(w)
    BY <1>2, <2>2 DEF GenSummaryOk
  <2>3. CASE GenSummaryFails(w)
    BY <1>2, <2>3 DEF GenSummaryFails
  <2> QED BY <1>3, <2>1, <2>2, <2>3
<1>4. CASE GenClaimWins(w) \/ GenClaimLost(w)
  <2> DEFINE row == ClaimedReport(reports[t], gen[w].at)
  <2>1. /\ gen[w].pc = "claim" /\ CtxLive(w)
        /\ Claimable(reports[t], gen[w].at)
        /\ reports' = [reports EXCEPT ![t] = row]
        /\ UNCHANGED frontVars
    BY <1>4 DEF GenClaimWins, GenClaimLost, Apply
  <2>2. /\ t \in Reports /\ reports[t] \in ReportRow
        /\ CoherentRow(t, reports[t])
        /\ worker[w].pc = "run" /\ gen[w].at \in (0 - HandlerTimeout)..0
    BY <1>0, <2>1, InsideGenerate DEF GenState
  <2>3. row \in ReportRow /\ CoherentRow(t, row)
    BY <2>1, <2>2, ClaimedReportRow
  <2>4. /\ reports' \in [Reports -> ReportRow]
        /\ \A s \in Reports : CoherentRow(s, reports'[s])
    BY <2>1, <2>2, <2>3, OneRowWritten
  <2>5. CASE GenClaimWins(w)
    <3> DEFINE step == IF t \in Unsupported THEN "unsupported" ELSE "summary"
    <3>1. gen' = [gen EXCEPT ![w] = At(step)] /\ UNCHANGED queueVars
      BY <2>5 DEF GenClaimWins, GoTo
    <3>2. gen'[w] = At(step) /\ At(step).pc = step
      BY <1>0, <3>1 DEF At
    <3>3. At(step) \in GenState
      BY QueueAssumption DEF At, GenState, Executing
    <3>4. OthersRest(w) /\ worker' = worker /\ Target(w)' = t
      BY <1>0, <3>1 DEF OthersRest, queueVars, Target
    <3>5. GenInv'
      BY <2>1, <2>2, <2>4, <3>1, <3>2, <3>3, <3>4, GenInvOfWorker
    <3>6. TakesLease(w)
      BY <2>1, <3>2, <3>4 DEF TakesLease
    <3> QED BY <3>4, <3>5, <3>6 DEF WorkerEffect
  <2>6. CASE GenClaimLost(w)
    <3>1. /\ OthersRest(w)
          /\ gen' = [gen EXCEPT ![w] = At("none")] /\ gen'[w].pc = "none"
          /\ worker'[w].pc # "run" /\ At("none") \in GenState
      BY <2>6, Returned DEF GenClaimLost
    <3>2. At("none").pc = "none"
      BY DEF At
    <3>3. GenInv'
      BY <2>1, <2>4, <3>1, <3>2, GenInvOfWorker
    <3>4. TakesLease(w)
      BY <2>1, <3>1 DEF TakesLease
    <3> QED BY <3>1, <3>3, <3>4 DEF WorkerEffect
  <2> QED BY <1>4, <2>5, <2>6
<1>5. ASSUME gen[w].pc \in Executing, CtxLive(w),
             NEW row \in ReportRow, CoherentRow(t, row),
             reports' = [reports EXCEPT ![t] = row],
             FrozenRow(reports[t], row),
             reports[t].status = "processing" =>
                 row.status \in {"pending", "completed", "failed"},
             NEW res \in {"ok", "err"}, Return(w, res), UNCHANGED frontVars
      PROVE  GenInv' /\ WorkerEffect(w)
  <2>1. /\ OthersRest(w)
        /\ gen' = [gen EXCEPT ![w] = At("none")] /\ gen'[w].pc = "none"
        /\ worker'[w].pc # "run" /\ At("none") \in GenState
    BY <1>5, Returned
  <2>2. t \in Reports
    BY <1>5, InsideGenerate DEF Executing
  <2>3. At("none").pc = "none"
    BY DEF At
  <2>4. /\ reports' \in [Reports -> ReportRow]
        /\ \A s \in Reports : CoherentRow(s, reports'[s])
    BY <1>5, <2>2, OneRowWritten
  <2>5. GenInv'
    BY <1>5, <2>1, <2>3, <2>4, GenInvOfWorker
  <2>6. ResolvesReport(w)
    BY <1>5, <2>1 DEF ResolvesReport
  <2> QED BY <2>1, <2>5, <2>6 DEF WorkerEffect
<1>6. ASSUME gen[w].pc \in Executing
      PROVE  /\ t \in Reports /\ reports[t] \in ReportRow
             /\ CoherentRow(t, reports[t])
             /\ gen[w].pc # "unsupported" => t \in Reports \ Unsupported
             /\ gen[w].pc = "unsupported" => t \in Unsupported
  BY <1>6, InsideGenerate DEF Executing, GenInv, TypeKnown
<1>7. CASE GenComplete(w) \/ GenCompleteLost(w)
  <2>1. /\ gen[w].pc = "complete" /\ gen[w].pc \in Executing /\ CtxLive(w)
        /\ reports' = [reports EXCEPT ![t] = MarkCompleted(reports[t])]
        /\ UNCHANGED frontVars
        /\ \E res \in {"ok", "err"} : Return(w, res)
    BY <1>7 DEF GenComplete, GenCompleteLost, Apply, Executing
  <2> QED BY <1>5, <1>6, <2>1, MarkCompletedRow
<1>8. CASE GenRetry(w)
  <2>1. /\ gen[w].pc = "retry" /\ gen[w].pc \in Executing /\ CtxLive(w)
        /\ reports' = [reports EXCEPT ![t] = MarkPendingRetry(reports[t])]
        /\ UNCHANGED frontVars
        /\ Return(w, "err")
    BY <1>8 DEF GenRetry, Apply, Executing
  <2> QED BY <1>5, <1>6, <2>1, MarkPendingRetryRow
<1>9. CASE GenMarkFailed(w)
  <2> DEFINE code == IF gen[w].pc = "exhaust" THEN "RETRY_EXHAUSTED"
                                              ELSE "UNSUPPORTED_TYPE"
  <2>1. /\ gen[w].pc \in {"exhaust", "unsupported"}
        /\ gen[w].pc \in Executing /\ CtxLive(w)
        /\ reports' = [reports EXCEPT ![t] = MarkFailed(reports[t], code)]
        /\ UNCHANGED frontVars
        /\ Return(w, "ok")
    BY <1>9 DEF GenMarkFailed, Apply, Executing
  <2>2. \/ code = "RETRY_EXHAUSTED" /\ t \notin Unsupported
        \/ code = "UNSUPPORTED_TYPE" /\ t \in Unsupported
    BY <1>6, <2>1
  <2> HIDE DEF code
  <2> QED BY <1>5, <1>6, <2>1, <2>2, MarkFailedRow
<1> QED BY <1>1, <1>3, <1>4, <1>7, <1>8, <1>9 DEF Generate

\* So are the steps of processOne around the handler, and a crash.
LEMMA ProcessOneEffect ==
    ASSUME GenInv, [QueueNext]_queueVars, NEW w \in Workers,
           StartJob(w) \/ QueueStep(w) \/ WorkerCrash(w)
    PROVE  GenInv' /\ WorkerEffect(w)
<1>0. /\ worker \in [Workers -> WorkerState]
      /\ gen \in [Workers -> GenState]
      /\ At("none") \in GenState /\ At("get") \in GenState
      /\ At("none").pc = "none" /\ At("get").pc = "get"
  BY QueueAssumption DEF GenInv, PipelineTypeOK, TypeOK, At, GenState
<1>1. reports' = reports /\ UNCHANGED frontVars
  BY DEF StartJob, QueueStep, WorkerCrash
<1>2. CASE StartJob(w)
  <2> DEFINE t == Target(w)
             step == IF t \in Reports THEN "get" ELSE "none"
  <2>1. /\ worker[w].pc = "tx"
        /\ worker' = [worker EXCEPT
               ![w].pc = IF t \in Registered THEN "run" ELSE "unknown",
               ![w].txAt = 0,
               ![w].deadline = IF t \in Registered THEN HandlerTimeout ELSE 0]
        /\ gen' = [gen EXCEPT ![w] = At(step)]
    BY <1>2 DEF StartJob, CommitClaim, GoTo, Target
  <2>2. /\ worker'[w].job = worker[w].job
        /\ worker'[w].pc = IF t \in Registered THEN "run" ELSE "unknown"
        /\ OthersRest(w)
        /\ gen'[w] = At(step)
    BY <1>0, <2>1 DEF OthersRest, WorkerState
  <2>3. worker[w].job \in Jobs
    BY <2>1, OpenClaim DEF GenInv
  <2>4. Target(w)' = t
    BY <2>2, <2>3, WorkStable DEF Target, GenInv
  <2>5. t \in Reports => t \in Registered
    BY PipelineAssumption
  <2>6. At(step) \in GenState /\ At(step).pc = step
    BY <1>0
  <2>7. GenInv'
    <3>1. step # "none" <=> worker'[w].pc = "run" /\ Target(w)' \in Reports
      BY <2>2, <2>4, <2>5
    <3> QED BY <1>1, <2>1, <2>2, <2>6, <3>1, GenInvOfWorker, NoRowWritten
  <2>8. MovesOnly(w)
    BY <1>1, <2>2, <2>6 DEF MovesOnly, Executing
  <2> QED BY <2>2, <2>7, <2>8 DEF WorkerEffect
<1>3. CASE QueueStep(w)
  <2>1. /\ worker[w].pc # "run"
        /\ worker'[w].pc # "run"
        /\ \A v \in Workers \ {w} : worker'[v] = worker[v]
    BY <1>0, <1>3
       DEF QueueStep, SelectJob, AbortClaim, LoseClaim, FinishOk, FinishErr,
           FinishUnknown, FinishFails, Outcomes, Idle
  <2>2. gen' = gen /\ OthersRest(w)
    BY <1>3, <2>1 DEF QueueStep, OthersRest
  <2>3. gen[w].pc = "none" /\ gen[w] \in GenState
    BY <1>0, <2>1, InsideGenerate
  <2>4. gen' = [gen EXCEPT ![w] = gen[w]]
    BY <1>0, <2>2
  <2>5. GenInv'
    BY <1>1, <2>1, <2>2, <2>3, <2>4, GenInvOfWorker, NoRowWritten
  <2>6. MovesOnly(w)
    BY <1>1, <2>2, <2>3 DEF MovesOnly, Executing
  <2> QED BY <2>2, <2>5, <2>6 DEF WorkerEffect
<1>4. CASE WorkerCrash(w)
  <2>1. /\ worker' = [worker EXCEPT ![w] = Idle]
        /\ gen' = [gen EXCEPT ![w] = At("none")]
    BY <1>4 DEF WorkerCrash, Crash, GoTo
  <2>2. worker'[w].pc = "idle" /\ OthersRest(w) /\ gen'[w].pc = "none"
    BY <1>0, <2>1 DEF OthersRest, Idle
  <2>3. GenInv'
    BY <1>0, <1>1, <2>1, <2>2, GenInvOfWorker, NoRowWritten
  <2>4. MovesOnly(w)
    BY <1>1, <2>2 DEF MovesOnly, Executing
  <2> QED BY <2>2, <2>3, <2>4 DEF WorkerEffect
<1> QED BY <1>2, <1>3, <1>4

-----------------------------------------------------------------------------
(* The steps in which no worker takes part.                                *)

\* CreateReport, ReconcilePending and other producers: no worker moves, and a
\* report is written only to create it.
FrontEffect ==
    /\ worker' = worker
    /\ gen' = gen
    /\ \/ reports' = reports
       \/ \E r \in Reports : /\ reports[r].status = "absent"
                             /\ reports' = [reports EXCEPT ![r] = PendingReport]

FrontStep ==
    \/ \E r \in Reports :
           \/ CreateInsert(r) \/ CreateInsertLost(r)
           \/ \E j \in Jobs : CreateEnqueue(r, j)
           \/ CreateEnqueueFails(r)
    \/ \E p \in Reconcilers :
           \/ ReconcileList(p)
           \/ \E r \in Reports, j \in Jobs : ReconcileEnqueue(p, r, j)
           \/ \E r \in Reports : ReconcileEnqueueFails(p, r)
           \/ ReconcileCrash(p)
    \/ \E j \in Jobs, x \in Work : EnqueueOther(j, x)
    \/ UNCHANGED pipelineVars

\* The targets stay when no worker moves.
LEMMA AllKeepTargets ==
    ASSUME GenInv, [QueueNext]_queueVars, NEW v \in Workers,
           worker'[v].job = worker[v].job, worker[v].pc = "run"
    PROVE  Target(v)' = Target(v)
<1>1. worker[v].job \in Jobs
  BY DEF GenInv, ClaimInv, ClaimsMatchRows, Holding
<1>2. jobs'[worker[v].job].work = jobs[worker[v].job].work
  BY <1>1, WorkStable DEF GenInv
<1> QED BY <1>2 DEF Target

LEMMA FrontStepEffect ==
    ASSUME GenInv, [QueueNext]_queueVars, FrontStep
    PROVE  GenInv' /\ FrontEffect
<1>1. worker' = worker /\ gen' = gen
  BY DEF FrontStep, CreateInsert, CreateInsertLost, CreateEnqueue,
         CreateEnqueueFails, ReconcileList, ReconcileEnqueue,
         ReconcileEnqueueFails, ReconcileCrash, EnqueueOther, Enqueue,
         queueVars, pipelineVars
<1>2. \/ reports' = reports
      \/ \E r \in Reports : /\ reports[r].status = "absent"
                            /\ reports' = [reports EXCEPT ![r] = PendingReport]
  BY DEF FrontStep, CreateInsert, CreateInsertLost, CreateEnqueue,
         CreateEnqueueFails, ReconcileList, ReconcileEnqueue,
         ReconcileEnqueueFails, ReconcileCrash, EnqueueOther, pipelineVars
<1>3. creating' \subseteq Reports
  BY DEF FrontStep, CreateInsert, CreateInsertLost, CreateEnqueue,
         CreateEnqueueFails, ReconcileList, ReconcileEnqueue,
         ReconcileEnqueueFails, ReconcileCrash, EnqueueOther, pipelineVars,
         frontVars, GenInv, PipelineTypeOK
<1>4. recon' \in [Reconcilers -> SUBSET Reports]
  <2>1. recon \in [Reconcilers -> SUBSET Reports]
    BY DEF GenInv, PipelineTypeOK
  <2>2. recon' = recon \/ \E p \in Reconcilers, s \in SUBSET Reports :
            recon' = [recon EXCEPT ![p] = s]
    BY <2>1
       DEF FrontStep, CreateInsert, CreateInsertLost, CreateEnqueue,
           CreateEnqueueFails, ReconcileList, ReconcileEnqueue,
           ReconcileEnqueueFails, ReconcileCrash, EnqueueOther, pipelineVars,
           frontVars
  <2> QED BY <2>1, <2>2
<1>5. /\ reports' \in [Reports -> ReportRow]
      /\ \A s \in Reports : CoherentRow(s, reports'[s])
  BY <1>2, NoRowWritten, OneRowWritten, PendingReportRow
<1>6. ClaimInv'
  BY ClaimInvStep DEF GenInv
<1>7. \A v \in Workers : worker[v].pc = "run" => Target(v)' = Target(v)
  BY <1>1, AllKeepTargets
<1>8. PipelineTypeOK'
  BY <1>1, <1>3, <1>4, <1>5, <1>6, <1>7 DEF PipelineTypeOK, GenInv, ClaimInv
<1>9. RowCoherent'
  BY <1>5 DEF RowCoherent, CoherentRow
<1>10. TypeKnown'
  BY <1>1, <1>7, InsideGenerate DEF TypeKnown, GenInv
<1> QED BY <1>1, <1>2, <1>6, <1>8, <1>9, <1>10 DEF GenInv, FrontEffect

\* A tick moves no worker and leaves every report in its state.
TickEffect ==
    /\ \A w \in Workers :
           /\ gen'[w].pc = gen[w].pc
           /\ gen'[w].at = IF gen[w].pc = "claim"
                           THEN Older(gen[w].at, HandlerTimeout) ELSE gen[w].at
           /\ worker'[w].deadline = Older(worker[w].deadline, 0)
           /\ worker[w].pc = "run" => Target(w)' = Target(w)
    /\ \A r \in Reports :
           /\ FrozenRow(reports[r], reports'[r])
           /\ reports'[r].status = reports[r].status
           /\ reports'[r].processingStartedAt =
                  Older(reports[r].processingStartedAt, LeaseMemory)

LEMMA TimePassesEffect ==
    ASSUME GenInv, [QueueNext]_queueVars, TimePasses
    PROVE  GenInv' /\ TickEffect
<1>0. /\ worker \in [Workers -> WorkerState]
      /\ gen \in [Workers -> GenState]
      /\ reports \in [Reports -> ReportRow]
      /\ \A r \in Reports : CoherentRow(r, reports[r])
  BY DEF GenInv, PipelineTypeOK, TypeOK, RowCoherent, CoherentRow
<1>1. ASSUME NEW w \in Workers
      PROVE  /\ worker'[w].pc = worker[w].pc
             /\ worker'[w].job = worker[w].job
             /\ worker'[w].deadline = Older(worker[w].deadline, 0)
             /\ worker[w].pc = "run" => Target(w)' = Target(w)
  <2>1. worker'[w].pc = worker[w].pc /\ worker'[w].job = worker[w].job
    BY AgedWorker DEF TimePasses, GenInv
  <2>2. worker'[w].deadline = Older(worker[w].deadline, 0)
    BY <1>0 DEF TimePasses, Tick, WorkerState
  <2> QED BY <2>1, <2>2, AllKeepTargets
<1>2. ASSUME NEW w \in Workers
      PROVE  /\ gen'[w] \in GenState
             /\ gen'[w].pc = gen[w].pc
             /\ gen'[w].at = IF gen[w].pc = "claim"
                             THEN Older(gen[w].at, HandlerTimeout) ELSE gen[w].at
  <2>1. gen'[w] = [gen[w] EXCEPT !.at = IF gen[w].pc = "claim"
                        THEN Older(gen[w].at, HandlerTimeout) ELSE gen[w].at]
    BY DEF TimePasses
  <2>2. Older(gen[w].at, HandlerTimeout) \in (0 - HandlerTimeout)..0
    BY <1>0, QueueAssumption DEF GenState, Older
  <2> QED BY <1>0, <2>1, <2>2 DEF GenState
<1>3. gen' \in [Workers -> GenState]
  BY <1>2 DEF TimePasses
<1>4. ASSUME NEW r \in Reports
      PROVE  /\ reports'[r] \in ReportRow
             /\ CoherentRow(r, reports'[r])
             /\ FrozenRow(reports[r], reports'[r])
             /\ reports'[r].status = reports[r].status
             /\ reports'[r].processingStartedAt =
                    Older(reports[r].processingStartedAt, LeaseMemory)
  <2>1. reports'[r] = OlderReport(reports[r])
    BY DEF TimePasses
  <2> QED BY <1>0, <2>1, OlderReportRow
<1>5. reports' \in [Reports -> ReportRow]
  BY <1>4 DEF TimePasses
<1>6. ClaimInv'
  BY ClaimInvStep DEF GenInv
<1>7. \A w \in Workers : gen'[w].pc # "none" <=>
          worker'[w].pc = "run" /\ Target(w)' \in Reports
  BY <1>1, <1>2 DEF GenInv, PipelineTypeOK
<1>8. PipelineTypeOK'
  BY <1>3, <1>5, <1>6, <1>7
     DEF PipelineTypeOK, ClaimInv, GenInv, TimePasses, frontVars
<1>9. RowCoherent'
  BY <1>4 DEF RowCoherent, CoherentRow
<1>10. TypeKnown'
  BY <1>1, <1>2, InsideGenerate DEF TypeKnown, GenInv
<1> QED BY <1>1, <1>2, <1>4, <1>6, <1>8, <1>9, <1>10 DEF GenInv, TickEffect

-----------------------------------------------------------------------------
(* GenInv, and what follows from it.                                       *)

LEMMA GenInvInit == PipelineInit => GenInv
<1> SUFFICES ASSUME PipelineInit PROVE GenInv
  OBVIOUS
<1>1. ClaimInv
  BY ClaimInvInit DEF PipelineInit
<1>2. /\ worker = [w \in Workers |-> Idle]
      /\ gen = [w \in Workers |-> At("none")]
      /\ At("none") \in GenState /\ At("none").pc = "none"
  BY QueueAssumption DEF PipelineInit, QueueInit, At, GenState
<1>3. ASSUME NEW r \in Reports
      PROVE  reports[r] \in ReportRow /\ CoherentRow(r, reports[r])
  <2>1. /\ NullLease \in NullLease..0
        /\ {0, 0 - ReconcileAfter - 1} \subseteq (0 - ReconcileAfter - 1)..0
    BY StoreAssumption DEF NullLease
  <2>2. CASE r \notin Unsupported
    <3>1. reports[r] = NoReport
      BY <2>2 DEF PipelineInit
    <3> QED
      BY <2>1, <3>1 DEF NoReport, ReportRow, CoherentRow, Statuses, Terminal, NoCode
  <2>3. CASE r \in Unsupported
    <3>1. reports[r] = [PendingReport EXCEPT !.updatedAt = 0 - ReconcileAfter - 1]
      BY <2>3 DEF PipelineInit
    <3> QED
      BY <2>1, <3>1 DEF PendingReport, NoReport, ReportRow, CoherentRow,
                        Statuses, Terminal, NoCode
  <2> QED BY <2>2, <2>3
<1>4. reports \in [Reports -> ReportRow]
  BY <1>3 DEF PipelineInit
<1>5. PipelineTypeOK
  BY <1>1, <1>2, <1>4 DEF PipelineTypeOK, PipelineInit, ClaimInv, Idle
<1>6. RowCoherent
  BY <1>3 DEF RowCoherent, CoherentRow
<1>7. TypeKnown
  BY <1>2 DEF TypeKnown
<1> QED BY <1>1, <1>5, <1>6, <1>7 DEF GenInv

\* Every step keeps GenInv and is what its effect says.
LEMMA PipelineStep ==
    ASSUME GenInv, [PipelineNext]_pipelineVars
    PROVE  /\ GenInv'
           /\ FrontEffect \/ TickEffect \/ \E w \in Workers : WorkerEffect(w)
<1>0. [QueueNext]_queueVars
  BY PipelineQueueStep
<1>1. \/ FrontStep
      \/ \E w \in Workers :
             StartJob(w) \/ QueueStep(w) \/ Generate(w) \/ WorkerCrash(w)
      \/ TimePasses
  BY Zenon DEF PipelineNext, FrontStep
<1>2. CASE FrontStep
  BY <1>0, <1>2, FrontStepEffect
<1>3. ASSUME NEW w \in Workers,
             StartJob(w) \/ QueueStep(w) \/ Generate(w) \/ WorkerCrash(w)
      PROVE  GenInv' /\ WorkerEffect(w)
  BY <1>0, <1>3, GenerateEffect, ProcessOneEffect
<1>4. CASE TimePasses
  BY <1>0, <1>4, TimePassesEffect
<1> QED BY <1>1, <1>2, <1>3, <1>4

LEMMA GenInvStep == GenInv /\ [PipelineNext]_pipelineVars => GenInv'
BY PipelineStep

\* Rows, counters, instants and program counters stay within their types, and
\* a worker is inside Generate exactly while processOne runs its handler.
THEOREM PipelineTyped == PipelineSpec => []PipelineTypeOK
<1>1. GenInv => PipelineTypeOK
  BY DEF GenInv
<1> QED BY <1>1, GenInvInit, GenInvStep, PTL DEF PipelineSpec

\* The columns of every report agree with its status, whatever executions,
\* retries, lost answers and reconciliations interleave.
THEOREM ReportsCoherent == PipelineSpec => []RowCoherent
<1>1. GenInv => RowCoherent
  BY DEF GenInv
<1> QED BY <1>1, GenInvInit, GenInvStep, PTL DEF PipelineSpec

\* No step changes the state, the result or the failure code of a report that
\* is completed or failed.
THEOREM FinalReportsFrozen == PipelineSpec => TerminalFrozen
<1> DEFINE A == \A r \in Reports : reports[r].status \in Terminal =>
                    /\ reports'[r].status = reports[r].status
                    /\ reports'[r].result = reports[r].result
                    /\ reports'[r].failureCode = reports[r].failureCode
<1>1. ASSUME GenInv, [PipelineNext]_pipelineVars PROVE [A]_pipelineVars
  <2> SUFFICES ASSUME NEW r \in Reports PROVE FrozenRow(reports[r], reports'[r])
    BY DEF FrozenRow
  <2>0. reports \in [Reports -> ReportRow]
    BY <1>1 DEF GenInv, PipelineTypeOK
  <2>1. CASE FrontEffect
    BY <2>0, <2>1 DEF FrontEffect, FrozenRow, Terminal
  <2>2. CASE TickEffect
    BY <2>2 DEF TickEffect
  <2>3. ASSUME NEW w \in Workers, WorkerEffect(w)
        PROVE  FrozenRow(reports[r], reports'[r])
    <3>1. CASE MovesOnly(w)
      BY <3>1 DEF MovesOnly, FrozenRow
    <3>2. CASE TakesLease(w)
      <4>1. reports[Target(w)].status \notin Terminal
        BY <3>2 DEF TakesLease, Claimable, Terminal
      <4> QED BY <2>0, <3>2, <4>1 DEF TakesLease, FrozenRow
    <3>3. CASE ResolvesReport(w)
      BY <2>0, <3>3 DEF ResolvesReport, FrozenRow
    <3> QED BY <2>3, <3>1, <3>2, <3>3 DEF WorkerEffect
  <2> QED BY <1>1, <2>1, <2>2, <2>3, PipelineStep
<1> QED
  BY <1>1, GenInvInit, GenInvStep, PTL DEF PipelineSpec, TerminalFrozen

-----------------------------------------------------------------------------
(* The lease.                                                              *)

\* Front steps and ticks make nobody an executor.
LEMMA NoNewExecutor ==
    ASSUME GenInv, [QueueNext]_queueVars, FrontEffect \/ TickEffect,
           NEW r \in Reports, NEW w \in LiveExecutors(r)'
    PROVE  w \in LiveExecutors(r)
<1>1. w \in Workers /\ gen'[w].pc \in Executing /\ worker'[w].deadline > 0
  BY DEF LiveExecutors, CtxLive
<1>2. gen[w].pc = gen'[w].pc
  BY <1>1 DEF FrontEffect, TickEffect
<1>3. worker[w].pc = "run"
  BY <1>1, <1>2, InsideGenerate DEF Executing
<1>4. Target(w)' = Target(w)
  BY <1>1, <1>3, AllKeepTargets DEF FrontEffect, TickEffect
<1>5. worker[w].deadline > 0
  <2>1. worker[w].deadline \in Nat
    BY <1>1 DEF GenInv, PipelineTypeOK, TypeOK, WorkerState
  <2> QED BY <1>1, <2>1 DEF FrontEffect, TickEffect, Older
<1> QED BY <1>1, <1>2, <1>4, <1>5 DEF LiveExecutors, CtxLive

\* The step of a worker makes nobody an executor but itself, and only by
\* taking the lease.
LEMMA NewExecutorTakesLease ==
    ASSUME GenInv, [QueueNext]_queueVars, NEW w \in Workers, WorkerEffect(w),
           NEW r \in Reports, NEW v \in LiveExecutors(r)',
           v \notin LiveExecutors(r)
    PROVE  /\ v = w
           /\ TakesLease(w) /\ ~MovesOnly(w)
           /\ r = Target(w)
           /\ worker'[w] = worker[w]
<1>1. /\ v \in Workers /\ gen'[v].pc \in Executing
      /\ worker'[v].deadline > 0 /\ Target(v)' = r
  BY DEF LiveExecutors, CtxLive
<1>2. v = w
  <2> SUFFICES ASSUME v # w PROVE FALSE
    OBVIOUS
  <2>1. gen'[v] = gen[v] /\ worker'[v] = worker[v]
    BY <1>1 DEF WorkerEffect, OthersRest
  <2>2. Target(v)' = Target(v)
    BY <1>1, <2>1, OthersKeepTargets DEF WorkerEffect, Executing
  <2> QED BY <1>1, <2>1, <2>2 DEF LiveExecutors, CtxLive
<1>3. ~ResolvesReport(w)
  BY <1>1, <1>2 DEF ResolvesReport, Executing
<1>4. /\ worker'[w] = worker[w]
      /\ gen[w].pc # "none"
  BY <1>1, <1>2, <1>3 DEF WorkerEffect, MovesOnly, TakesLease, Executing
<1>5. Target(w)' = Target(w)
  BY <1>4, InsideGenerate, AllKeepTargets
<1>6. ~MovesOnly(w)
  BY <1>1, <1>2, <1>4, <1>5 DEF MovesOnly, LiveExecutors, CtxLive
<1> QED BY <1>1, <1>2, <1>3, <1>4, <1>5, <1>6 DEF WorkerEffect

\* A lease that can be taken is nobody's: the claim compares with now minus
\* the lease, and every executor's lease is younger than its deadline allows.
LEMMA LeaseIsFree ==
    ASSUME GenInv, LeaseInv, HandlerTimeout <= ProcessingLease,
           NEW w \in Workers, TakesLease(w)
    PROVE  LiveExecutors(Target(w)) = {}
<1> SUFFICES ASSUME NEW v \in LiveExecutors(Target(w)) PROVE FALSE
  OBVIOUS
<1> DEFINE row == reports[Target(w)]
<1>1. /\ gen[w].pc # "none" /\ Claimable(row, gen[w].at)
      /\ gen[w].at \in (0 - HandlerTimeout)..0
  BY DEF TakesLease, GenInv, PipelineTypeOK, GenState
<1>2. Target(w) \in Reports /\ row \in ReportRow
  BY <1>1, InsideGenerate
<1>3. v \in Workers /\ worker[v].deadline > 0 /\ worker[v].deadline \in Nat
  BY DEF LiveExecutors, CtxLive, GenInv, PipelineTypeOK, TypeOK, WorkerState
<1>4. /\ row.status = "processing"
      /\ row.processingStartedAt >= worker[v].deadline - HandlerTimeout
  BY <1>2 DEF LeaseInv, ExecutorHoldsLease
<1>5. row.processingStartedAt < gen[w].at - ProcessingLease
  BY <1>1, <1>4 DEF Claimable
<1> HIDE DEF row
<1>6. row.processingStartedAt \in Int
  BY <1>2, StoreAssumption DEF ReportRow, NullLease
<1> QED
  BY <1>1, <1>3, <1>4, <1>5, <1>6, QueueAssumption, StoreAssumption

LEMMA ClaimIsRecentStep ==
    ASSUME GenInv, GenInv', ClaimIsRecent, [PipelineNext]_pipelineVars
    PROVE  ClaimIsRecent'
<1> SUFFICES ASSUME NEW v \in Workers, gen'[v].pc = "claim",
                    worker'[v].deadline > 0
             PROVE  gen'[v].at >= worker'[v].deadline - HandlerTimeout
  BY DEF ClaimIsRecent, CtxLive
<1>0. /\ worker[v].deadline \in Nat /\ worker'[v].deadline \in 0..HandlerTimeout
      /\ gen[v].at \in (0 - HandlerTimeout)..0
  BY QueueAssumption DEF GenInv, PipelineTypeOK, TypeOK, WorkerState, GenState
<1>1. CASE FrontEffect
  BY <1>1 DEF FrontEffect, ClaimIsRecent, CtxLive
<1>2. CASE TickEffect
  <2>1. /\ gen[v].pc = "claim"
        /\ gen'[v].at = Older(gen[v].at, HandlerTimeout)
        /\ worker'[v].deadline = Older(worker[v].deadline, 0)
    BY <1>2 DEF TickEffect
  <2>2. worker[v].deadline > 1 /\ worker'[v].deadline = worker[v].deadline - 1
    BY <1>0, <2>1 DEF Older
  <2>3. gen[v].at >= worker[v].deadline - HandlerTimeout
    BY <1>0, <2>1, <2>2 DEF ClaimIsRecent, CtxLive
  <2> QED BY <1>0, <2>1, <2>2, <2>3, QueueAssumption DEF Older
<1>3. ASSUME NEW w \in Workers, WorkerEffect(w)
      PROVE  gen'[v].at >= worker'[v].deadline - HandlerTimeout
  <2>1. CASE v # w
    BY <1>3, <2>1 DEF WorkerEffect, OthersRest, ClaimIsRecent, CtxLive
  <2>2. CASE v = w
    <3>1. gen'[v].at = 0
      BY <1>3, <2>2 DEF WorkerEffect, MovesOnly, TakesLease, ResolvesReport
    <3> QED BY <1>0, <3>1, QueueAssumption
  <2> QED BY <2>1, <2>2
<1> QED BY <1>1, <1>2, <1>3, PipelineStep

LEMMA ExecutorHoldsLeaseStep ==
    ASSUME GenInv, GenInv', LeaseInv, [PipelineNext]_pipelineVars
    PROVE  ExecutorHoldsLease'
<1> SUFFICES ASSUME HandlerTimeout <= ProcessingLease,
                    NEW r \in Reports, NEW v \in LiveExecutors(r)'
             PROVE  /\ reports'[r].status = "processing"
                    /\ reports'[r].processingStartedAt
                           >= worker'[v].deadline - HandlerTimeout
  BY DEF ExecutorHoldsLease
<1> DEFINE Goal == /\ reports'[r].status = "processing"
                   /\ reports'[r].processingStartedAt
                          >= worker'[v].deadline - HandlerTimeout
<1>0. /\ [QueueNext]_queueVars
      /\ reports \in [Reports -> ReportRow]
      /\ v \in Workers /\ worker'[v].deadline > 0
      /\ worker[v].deadline \in 0..HandlerTimeout
      /\ reports[r].processingStartedAt \in NullLease..0
  BY PipelineQueueStep
     DEF GenInv, PipelineTypeOK, TypeOK, WorkerState, ReportRow,
         LiveExecutors, CtxLive
<1>1. v \in LiveExecutors(r) =>
          /\ reports[r].status = "processing"
          /\ reports[r].processingStartedAt >= worker[v].deadline - HandlerTimeout
  BY DEF LeaseInv, ExecutorHoldsLease
<1>2. CASE FrontEffect
  <2>1. v \in LiveExecutors(r)
    BY <1>0, <1>2, NoNewExecutor
  <2> QED BY <1>0, <1>1, <1>2, <2>1 DEF FrontEffect
<1>3. CASE TickEffect
  <2>1. v \in LiveExecutors(r)
    BY <1>0, <1>3, NoNewExecutor
  <2>2. /\ reports'[r].status = reports[r].status
        /\ reports'[r].processingStartedAt =
               Older(reports[r].processingStartedAt, LeaseMemory)
        /\ worker'[v].deadline = Older(worker[v].deadline, 0)
    BY <1>0, <1>3 DEF TickEffect
  <2>3. worker[v].deadline > 1 /\ worker'[v].deadline = worker[v].deadline - 1
    BY <1>0, <2>2, QueueAssumption DEF Older
  <2>4. reports[r].processingStartedAt > 0 - LeaseMemory
    BY <1>0, <1>1, <2>1, <2>3, QueueAssumption, StoreAssumption,
       PipelineAssumption DEF NullLease
  <2>5. reports'[r].processingStartedAt = reports[r].processingStartedAt - 1
    BY <2>2, <2>4 DEF Older
  <2> QED
    BY <1>0, <1>1, <2>1, <2>2, <2>3, <2>5, QueueAssumption, StoreAssumption
       DEF NullLease
<1>4. ASSUME NEW w \in Workers, WorkerEffect(w) PROVE Goal
  <2>1. CASE v \notin LiveExecutors(r)
    <3>1. /\ v = w /\ TakesLease(w) /\ r = Target(w) /\ worker'[w] = worker[w]
      BY <1>0, <1>4, <2>1, NewExecutorTakesLease
    <3>2. /\ gen[w].at \in (0 - HandlerTimeout)..0
          /\ Claimable(reports[r], gen[w].at)
          /\ reports'[r] = ClaimedReport(reports[r], gen[w].at)
      BY <1>0, <3>1 DEF TakesLease, GenInv, PipelineTypeOK, GenState
    <3>3. CoherentRow(r, reports[r]) /\ reports[r] \in ReportRow
      BY <1>0 DEF GenInv, RowCoherent, CoherentRow
    <3>4. /\ reports'[r].status = "processing"
          /\ reports'[r].processingStartedAt = gen[w].at
      BY <3>2, <3>3, ClaimedReportRow
    <3>5. gen[w].at >= worker[w].deadline - HandlerTimeout
      BY <3>1 DEF LeaseInv, ClaimIsRecent, TakesLease
    <3> QED BY <3>1, <3>4, <3>5
  <2>2. CASE v \in LiveExecutors(r) /\ v # w
    <3>1. worker'[v] = worker[v]
      BY <1>0, <1>4, <2>2 DEF WorkerEffect, OthersRest
    <3>2. reports'[r] = reports[r]
      <4>1. CASE MovesOnly(w)
        BY <4>1 DEF MovesOnly
      <4>2. CASE TakesLease(w)
        <5>1. r # Target(w)
          BY <2>2, <4>2, LeaseIsFree
        <5> QED BY <1>0, <4>2, <5>1 DEF TakesLease
      <4>3. CASE ResolvesReport(w)
        <5>1. w \in LiveExecutors(Target(w))
          BY <4>3 DEF ResolvesReport, LiveExecutors
        <5>2. r # Target(w)
          BY <2>2, <5>1 DEF LeaseInv, ExclusiveExecution
        <5> QED BY <1>0, <4>3, <5>2 DEF ResolvesReport
      <4> QED BY <1>4, <4>1, <4>2, <4>3 DEF WorkerEffect
    <3> QED BY <1>1, <2>2, <3>1, <3>2
  <2>3. CASE v \in LiveExecutors(r) /\ v = w
    <3>1. gen[w].pc \in Executing /\ gen'[w].pc \in Executing
      BY <2>3 DEF LiveExecutors
    <3>2. reports' = reports /\ worker'[w] = worker[w]
      BY <1>4, <3>1
         DEF WorkerEffect, MovesOnly, TakesLease, ResolvesReport, Executing
    <3> QED BY <1>1, <2>3, <3>2
  <2> QED BY <2>1, <2>2, <2>3
<1> QED BY <1>2, <1>3, <1>4, PipelineStep

LEMMA ExclusiveExecutionStep ==
    ASSUME GenInv, LeaseInv, [PipelineNext]_pipelineVars
    PROVE  ExclusiveExecution'
<1> SUFFICES ASSUME HandlerTimeout <= ProcessingLease, NEW r \in Reports,
                    NEW u \in LiveExecutors(r)', NEW v \in LiveExecutors(r)'
             PROVE  u = v
  BY DEF ExclusiveExecution
<1>0. [QueueNext]_queueVars
  BY PipelineQueueStep
<1>1. u \in LiveExecutors(r) /\ v \in LiveExecutors(r) => u = v
  BY DEF LeaseInv, ExclusiveExecution
<1>2. CASE FrontEffect \/ TickEffect
  BY <1>0, <1>1, <1>2, NoNewExecutor
<1>3. ASSUME NEW w \in Workers, WorkerEffect(w) PROVE u = v
  <2>1. CASE TakesLease(w) /\ r = Target(w)
    <3>1. LiveExecutors(r) = {}
      BY <2>1, LeaseIsFree
    <3> QED BY <1>0, <1>3, <3>1, NewExecutorTakesLease
  <2>2. CASE ~(TakesLease(w) /\ r = Target(w))
    BY <1>0, <1>1, <1>3, <2>2, NewExecutorTakesLease
  <2> QED BY <2>1, <2>2
<1> QED BY <1>2, <1>3, PipelineStep

LEMMA LeaseInvInit == PipelineInit => LeaseInv
<1> SUFFICES ASSUME PipelineInit PROVE LeaseInv
  OBVIOUS
<1>1. \A w \in Workers : gen[w].pc = "none"
  BY DEF PipelineInit, At
<1>2. \A r \in Reports : LiveExecutors(r) = {}
  BY <1>1 DEF LiveExecutors, Executing
<1> QED
  BY <1>1, <1>2
     DEF LeaseInv, ClaimIsRecent, ExecutorHoldsLease, ExclusiveExecution

LEMMA LeaseInvStep ==
    GenInv /\ GenInv' /\ LeaseInv /\ [PipelineNext]_pipelineVars => LeaseInv'
BY ClaimIsRecentStep, ExecutorHoldsLeaseStep, ExclusiveExecutionStep
   DEF LeaseInv

\* With a lease no shorter than the handler's timeout, whoever can still write
\* the outcome of a report holds its lease, taken since its handler started.
THEOREM LeaseHeld == PipelineSpec => []ExecutorHoldsLease
<1>1. LeaseInv => ExecutorHoldsLease
  BY DEF LeaseInv
<1> QED
  BY <1>1, GenInvInit, GenInvStep, LeaseInvInit, LeaseInvStep, PTL
     DEF PipelineSpec

\* Then at most one worker at a time can write the outcome of a report, also
\* where the queue delivered its job twice.
THEOREM OneExecutor == PipelineSpec => []ExclusiveExecution
<1>1. LeaseInv => ExclusiveExecution
  BY DEF LeaseInv
<1> QED
  BY <1>1, GenInvInit, GenInvStep, LeaseInvInit, LeaseInvStep, PTL
     DEF PipelineSpec

-----------------------------------------------------------------------------
(* The pipeline implements the lifecycle.  An executor of the abstract     *)
(* specification is a worker that can still write; a step is mapped by its *)
(* effect.                                                                 *)

StatusBar == [r \in Reports |-> reports[r].status]
ExecutorsBar == [r \in Reports |-> LiveExecutors(r)]

\* Executions end and nothing else happens.
LEMMA AbandonStep ==
    ASSUME \A r \in Reports : reports'[r].status = reports[r].status,
           \A r \in Reports : LiveExecutors(r)' \subseteq LiveExecutors(r)
    PROVE  Lifecycle!Abandon
<1>1. StatusBar' = StatusBar
  BY DEF StatusBar
<1>2. ExecutorsBar' \in [Reports -> SUBSET Workers]
  BY DEF ExecutorsBar, LiveExecutors
<1>3. \A r \in Reports : ExecutorsBar'[r] \subseteq ExecutorsBar[r]
  BY DEF ExecutorsBar
<1> QED BY <1>1, <1>2, <1>3 DEF Lifecycle!Abandon, StatusBar, ExecutorsBar

\* The executors that do not move go on executing.
LEMMA OthersGoOn ==
    ASSUME GenInv, [QueueNext]_queueVars, NEW w \in Workers, WorkerEffect(w),
           NEW r \in Reports, NEW v \in LiveExecutors(r) \ {w}
    PROVE  v \in LiveExecutors(r)'
<1>1. /\ v \in Workers \ {w} /\ gen[v].pc \in Executing /\ Target(v) = r
      /\ gen'[v] = gen[v] /\ worker'[v] = worker[v]
  BY DEF LiveExecutors, WorkerEffect, OthersRest
<1>2. Target(v)' = Target(v)
  BY <1>1, OthersKeepTargets DEF WorkerEffect, Executing
<1> QED BY <1>1, <1>2 DEF LiveExecutors, CtxLive

LEMMA LifecycleStep ==
    ASSUME HandlerTimeout <= ProcessingLease, GenInv, LeaseInv,
           [PipelineNext]_pipelineVars
    PROVE  Lifecycle!LifecycleNext
<1>0. /\ [QueueNext]_queueVars
      /\ reports \in [Reports -> ReportRow]
  BY PipelineQueueStep DEF GenInv, PipelineTypeOK
<1>1. CASE FrontEffect
  <2>1. \A r \in Reports : LiveExecutors(r)' = LiveExecutors(r)
    <3> SUFFICES ASSUME NEW r \in Reports, NEW w \in LiveExecutors(r)
                 PROVE  w \in LiveExecutors(r)'
      BY <1>0, <1>1, NoNewExecutor
    <3>1. w \in Workers /\ gen[w].pc \in Executing
      BY DEF LiveExecutors
    <3>2. Target(w)' = Target(w)
      BY <1>0, <1>1, <3>1, InsideGenerate, AllKeepTargets
         DEF FrontEffect, Executing
    <3> QED BY <1>1, <3>1, <3>2 DEF FrontEffect, LiveExecutors, CtxLive
  <2>2. CASE reports' = reports
    <3>1. Lifecycle!Abandon
      BY <2>1, <2>2, AbandonStep
    <3> QED BY <3>1 DEF Lifecycle!LifecycleNext
  <2>3. ASSUME NEW r \in Reports, reports[r].status = "absent",
               reports' = [reports EXCEPT ![r] = PendingReport]
        PROVE  Lifecycle!LifecycleNext
    <3>1. PendingReport.status = "pending"
      BY DEF PendingReport, NoReport
    <3>2. StatusBar' = [StatusBar EXCEPT ![r] = "pending"]
      BY <1>0, <2>3, <3>1 DEF StatusBar
    <3>3. ExecutorsBar' = ExecutorsBar
      BY <2>1 DEF ExecutorsBar
    <3>4. Lifecycle!Create(r)
      BY <2>3, <3>2, <3>3 DEF Lifecycle!Create, StatusBar, ExecutorsBar
    <3> QED BY <3>4 DEF Lifecycle!LifecycleNext
  <2> QED BY <1>1, <2>2, <2>3 DEF FrontEffect
<1>2. CASE TickEffect
  <2>1. Lifecycle!Abandon
    BY <1>0, <1>2, NoNewExecutor, AbandonStep DEF TickEffect
  <2> QED BY <2>1 DEF Lifecycle!LifecycleNext
<1>3. ASSUME NEW w \in Workers, WorkerEffect(w) PROVE Lifecycle!LifecycleNext
  <2>1. CASE MovesOnly(w)
    <3>1. Lifecycle!Abandon
      BY <1>0, <1>3, <2>1, NewExecutorTakesLease, AbandonStep DEF MovesOnly
    <3> QED BY <3>1 DEF Lifecycle!LifecycleNext
  <2>2. CASE TakesLease(w) /\ ~MovesOnly(w)
    <3>0. PICK r \in Reports : r = Target(w)
      BY <2>2, InsideGenerate DEF TakesLease
    <3> DEFINE at == gen[w].at
    <3>1. /\ gen[w].pc = "claim" /\ Claimable(reports[r], at)
          /\ at \in (0 - HandlerTimeout)..0
          /\ reports' = [reports EXCEPT ![r] = ClaimedReport(reports[r], at)]
      BY <2>2, <3>0 DEF TakesLease, GenInv, PipelineTypeOK, GenState
    <3>2. reports[r] \in ReportRow /\ CoherentRow(r, reports[r])
      BY <3>0, <3>1, InsideGenerate
    <3>3. /\ ClaimedReport(reports[r], at).status = "processing"
          /\ reports[r].status \in {"pending", "processing"}
      BY <3>1, <3>2, ClaimedReportRow
    <3>4. LiveExecutors(r) = {}
      BY <2>2, <3>0, LeaseIsFree
    <3>5. PICK owner \in {{}} \cup {{v} : v \in Workers} :
              owner = LiveExecutors(r)'
      <4>1. LiveExecutors(r)' \subseteq {w}
        BY <1>0, <1>3, <3>4, NewExecutorTakesLease
      <4> QED BY <4>1
    <3>6. \A s \in Reports \ {r} : LiveExecutors(s)' = LiveExecutors(s)
      <4> SUFFICES ASSUME NEW s \in Reports \ {r}
                   PROVE  LiveExecutors(s)' = LiveExecutors(s)
        OBVIOUS
      <4>1. LiveExecutors(s)' \subseteq LiveExecutors(s)
        BY <1>0, <1>3, <3>0, NewExecutorTakesLease
      <4>2. w \notin LiveExecutors(s)
        BY <3>1 DEF LiveExecutors, Executing
      <4> QED BY <1>0, <1>3, <4>1, <4>2, OthersGoOn
    <3> HIDE DEF at
    <3>7. StatusBar' = [StatusBar EXCEPT ![r] = "processing"]
      BY <1>0, <3>1, <3>2, <3>3 DEF StatusBar
    <3>8. ExecutorsBar' = [ExecutorsBar EXCEPT ![r] = owner]
      BY <3>5, <3>6 DEF ExecutorsBar
    <3>9. Lifecycle!Claim(r, owner)
      BY <3>3, <3>4, <3>7, <3>8
         DEF Lifecycle!Claim, StatusBar, ExecutorsBar
    <3> QED BY <3>9, Zenon DEF Lifecycle!LifecycleNext
  <2>3. CASE ResolvesReport(w)
    <3>0. PICK r \in Reports : r = Target(w)
      BY <2>3, InsideGenerate DEF ResolvesReport, Executing
    <3>1. PICK row \in ReportRow :
              /\ reports' = [reports EXCEPT ![r] = row]
              /\ reports[r].status = "processing" =>
                     row.status \in {"pending", "completed", "failed"}
      BY <2>3, <3>0 DEF ResolvesReport
    <3>2. w \in LiveExecutors(r)
      BY <2>3, <3>0 DEF ResolvesReport, LiveExecutors
    <3>3. reports[r].status = "processing" /\ LiveExecutors(r) = {w}
      BY <3>2 DEF LeaseInv, ExecutorHoldsLease, ExclusiveExecution
    <3>4. \A s \in Reports : w \notin LiveExecutors(s)'
      BY <2>3 DEF ResolvesReport, LiveExecutors, Executing
    <3>5. \A s \in Reports : LiveExecutors(s)' = LiveExecutors(s) \ {w}
      BY <1>0, <1>3, <3>4, NewExecutorTakesLease, OthersGoOn
    <3>6. \A s \in Reports \ {r} : w \notin LiveExecutors(s)
      BY <3>0 DEF LiveExecutors
    <3>7. StatusBar' = [StatusBar EXCEPT ![r] = row.status]
      BY <1>0, <3>1 DEF StatusBar
    <3>8. ExecutorsBar' = [ExecutorsBar EXCEPT ![r] = {}]
      <4>1. LiveExecutors(r)' = {}
        BY <3>3, <3>5
      <4>2. \A s \in Reports \ {r} : LiveExecutors(s)' = LiveExecutors(s)
        BY <3>5, <3>6
      <4> QED BY <4>1, <4>2 DEF ExecutorsBar
    <3>9. Lifecycle!Resolve(r, row.status)
      BY <3>3, <3>7, <3>8 DEF Lifecycle!Resolve, StatusBar, ExecutorsBar
    <3> QED BY <3>1, <3>3, <3>9 DEF Lifecycle!LifecycleNext
  <2> QED BY <1>3, <2>1, <2>2, <2>3 DEF WorkerEffect
<1> QED BY <1>1, <1>2, <1>3, PipelineStep

LEMMA LifecycleStart == PipelineInit => Lifecycle!LifecycleInit
<1> SUFFICES ASSUME PipelineInit PROVE Lifecycle!LifecycleInit
  OBVIOUS
<1>1. \A r \in Reports : reports[r].status \in {"absent", "pending"}
  BY DEF PipelineInit, NoReport, PendingReport
<1>2. StatusBar \in [Reports -> {"absent", "pending"}]
  BY <1>1 DEF StatusBar
<1>3. \A r \in Reports : LiveExecutors(r) = {}
  BY DEF PipelineInit, LiveExecutors, Executing, At
<1>4. ExecutorsBar = [r \in Reports |-> {}]
  BY <1>3 DEF ExecutorsBar
<1> QED BY <1>2, <1>4 DEF Lifecycle!LifecycleInit, StatusBar, ExecutorsBar

\* With a lease no shorter than the handler's timeout the pipeline implements
\* the documented lifecycle: a report is claimed only when nobody executes it,
\* and only its executor decides what becomes of it.
THEOREM PipelineImplementsLifecycle ==
    ASSUME HandlerTimeout <= ProcessingLease
    PROVE  PipelineSpec => ImplementsLifecycle
<1>1. GenInv /\ LeaseInv /\ [PipelineNext]_pipelineVars =>
          [Lifecycle!LifecycleNext]_(Lifecycle!lifecycleVars)
  BY LifecycleStep
<1> QED
  BY <1>1, GenInvInit, GenInvStep, LeaseInvInit, LeaseInvStep, LifecycleStart, PTL
     DEF PipelineSpec, ImplementsLifecycle, Lifecycle!LifecycleSpec
=============================================================================

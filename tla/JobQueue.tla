------------------------------ MODULE JobQueue ------------------------------
(***************************************************************************)
(* The Postgres-backed job queue of internal/platform/jobs/jobs.go: the    *)
(* table platform.jobs and any number of processes that each run           *)
(* Queue.Run, one goroutine that calls processOne again and again.         *)
(*                                                                         *)
(* processOne is three database interactions with gaps between them:       *)
(*   1. a transaction that SELECTs one due row FOR UPDATE SKIP LOCKED and  *)
(*      UPDATEs it (SelectJob ... CommitClaim), the row lock being held in *)
(*      between;                                                           *)
(*   2. the handler, under a context that expires after HandlerTimeout;    *)
(*   3. one UPDATE that records the outcome (FinishOk, FinishErr,          *)
(*      FinishUnknown), unconditional: WHERE id = $1 and nothing else.     *)
(* Between any two of them the process can crash, the database can refuse  *)
(* a statement, and time can pass without limit.                           *)
(*                                                                         *)
(* Rows are kept in a fixed set of slots.  The code never deletes a row,   *)
(* but a row that no statement can select again and that no worker holds   *)
(* is dead weight: Enqueue may reuse its slot for a new row (Free).        *)
(***************************************************************************)
EXTENDS RelativeTime

CONSTANTS
    Jobs,           \* slots of platform.jobs: bounds the rows alive at once
    Workers,        \* processes running Queue.Run
    Work,           \* (type, payload) pairs a job can carry
    Registered,     \* those whose type has a handler (Queue.Register)
    NoWork,         \* the content of a slot that holds no row
    NoJob,          \* the job of a worker that holds none
    MaxAttempts,    \* JOBS_MAX_ATTEMPTS, copied into max_attempts
    LockFor,        \* INTERVAL '5 minutes' of the claiming UPDATE
    Backoff,        \* INTERVAL '1 minute', multiplied by attempts on error
    HandlerTimeout, \* the 2 minutes of context.WithTimeout
    RunMemory,      \* how far back ORDER BY run_at tells instants apart
    Faults          \* which failures of the environment may happen

ASSUME QueueAssumption ==
    /\ Registered \subseteq Work
    /\ NoWork \notin Work
    /\ NoJob \notin Jobs
    /\ MaxAttempts \in Nat \ {0}
    /\ LockFor \in Nat
    /\ Backoff \in Nat
    /\ HandlerTimeout \in Nat \ {0}
    /\ RunMemory \in Nat

VARIABLES
    jobs,   \* platform.jobs, one row or no row per slot
    worker  \* what each Queue.Run goroutine is doing

queueVars == <<jobs, worker>>

-----------------------------------------------------------------------------
(* Rows.  completed_at is only ever compared with NULL: done says it is    *)
(* not NULL.  locked_until IS NULL and locked_until < NOW() are always     *)
(* asked together: -1 stands for both.  late and ran are history, written  *)
(* by no statement of the code: late, some worker still held the row when  *)
(* the lock it had taken ran out; ran, a handler returned nil for the row. *)

Row == [work: Work \cup {NoWork},
        runAt: (0 - RunMemory)..(Backoff * MaxAttempts),
        attempts: 0..MaxAttempts,
        lockedUntil: -1..LockFor,
        done: BOOLEAN, late: BOOLEAN, ran: BOOLEAN]

NoRow == [work |-> NoWork, runAt |-> 0, attempts |-> 0, lockedUntil |-> -1,
          done |-> TRUE, late |-> FALSE, ran |-> FALSE]

\* The row the INSERT of Queue.Enqueue creates; a zero runAt means now.
NewRow(x) == [work |-> x, runAt |-> 0, attempts |-> 0, lockedUntil |-> -1,
              done |-> FALSE, late |-> FALSE, ran |-> FALSE]

\* Mutant: the claim forgets attempts = attempts + 1.
ClaimedRowUncounted(row, txAt) ==
    [row EXCEPT !.lockedUntil = Clamp(txAt + LockFor, 1)]

\* The row after the claiming UPDATE of a transaction that began at txAt:
\* NOW() is the start of the transaction, not the instant of the UPDATE.
ClaimedRow(row, txAt) ==
    LET until == Clamp(txAt + LockFor, 1)
    IN  [row EXCEPT !.lockedUntil = until,
                    !.attempts = @ + 1,
                    !.late = @ \/ until < 0]

\* completed_at = NOW(), locked_until = NULL, last_error = NULL.
FinishedRow(row) == [row EXCEPT !.lockedUntil = -1, !.done = TRUE]

\* Mutant: every handler error completes the job.
FailedRowGivesUp(row) == [row EXCEPT !.lockedUntil = -1, !.done = TRUE]

\* The UPDATE after a handler error.  attempts is the row's value now, which
\* another worker may have raised; ELSE NULL re-opens a completed row.
FailedRow(row) ==
    [row EXCEPT !.lockedUntil = -1,
                !.runAt = Backoff * row.attempts,
                !.done = (row.attempts >= MaxAttempts)]

-----------------------------------------------------------------------------
(* Workers. "tx": inside the claiming transaction, holding the row lock.   *)
(* "run": claim committed, handler running.  "ok", "err", "unknown": the   *)
(* outcome is known, the UPDATE that records it is still to be sent.       *)

Outcomes == {"ok", "err", "unknown"}
Holding == {"run"} \cup Outcomes

\* attempt is AttemptInfo.Attempt; txAt the start of the transaction;
\* deadline the time left on the handler's context, 0 once it has expired.
WorkerState == [pc: {"idle", "tx"} \cup Holding, job: Jobs \cup {NoJob},
                attempt: 0..MaxAttempts, txAt: (0 - LockFor - 1)..0,
                deadline: 0..HandlerTimeout]

Idle == [pc |-> "idle", job |-> NoJob, attempt |-> 0, txAt |-> 0,
         deadline |-> 0]

RowLocked(j) == \E w \in Workers : worker[w].pc = "tx" /\ worker[w].job = j
Held(j) == \E w \in Workers : worker[w].pc \in Holding /\ worker[w].job = j

\* No statement will select the row again and nobody will update it.
Free(j) ==
    /\ jobs[j].done \/ jobs[j].attempts >= MaxAttempts
    /\ ~RowLocked(j) /\ ~Held(j)

\* Mutants of the WHERE clause: without attempts < max_attempts, with that
\* comparison off by one, without FOR UPDATE SKIP LOCKED, without locked_until.
EligibleAnyAttempt(j) ==
    /\ ~jobs[j].done /\ jobs[j].lockedUntil < 0 /\ jobs[j].runAt <= 0
    /\ ~RowLocked(j)
EligibleBeforeLast(j) == EligibleAnyAttempt(j) /\ jobs[j].attempts + 1 < MaxAttempts
EligibleNoSkip(j) ==
    /\ ~jobs[j].done /\ jobs[j].lockedUntil < 0 /\ jobs[j].runAt <= 0
    /\ jobs[j].attempts < MaxAttempts
EligibleLocked(j) ==
    /\ ~jobs[j].done /\ jobs[j].runAt <= 0
    /\ jobs[j].attempts < MaxAttempts
    /\ ~RowLocked(j)

\* The WHERE clause of the claiming SELECT, SKIP LOCKED included.
Eligible(j) ==
    /\ ~jobs[j].done
    /\ jobs[j].lockedUntil < 0
    /\ jobs[j].runAt <= 0
    /\ jobs[j].attempts < MaxAttempts
    /\ ~RowLocked(j)

\* Mutant: the handler's calls ignore the timeout.
CtxIgnored(w) == worker[w].pc = "run"

\* The handler's context has not expired.
CtxLive(w) == worker[w].deadline > 0

-----------------------------------------------------------------------------
QueueInit ==
    /\ jobs = [j \in Jobs |-> NoRow]
    /\ worker = [w \in Workers |-> Idle]

\* Queue.Enqueue: INSERT with attempts = 0 and run_at = now.
Enqueue(j, x) ==
    /\ Free(j)
    /\ jobs' = [jobs EXCEPT ![j] = NewRow(x)]
    /\ UNCHANGED worker

\* A tick of Run finds nothing: Scan returns sql.ErrNoRows, the transaction
\* is rolled back, the error is not even logged.
PollEmpty(w) ==
    /\ worker[w].pc = "idle"
    /\ ~ \E j \in Jobs : Eligible(j)
    /\ UNCHANGED queueVars

\* BEGIN and SELECT ... ORDER BY run_at FOR UPDATE SKIP LOCKED LIMIT 1.  A
\* pause between the two is not told apart from one after them: it only makes
\* NOW() older, which the pause before CommitClaim does as well.
SelectJob(w, j) ==
    /\ worker[w].pc = "idle"
    /\ Eligible(j)
    /\ \A k \in Jobs : Eligible(k) => jobs[j].runAt <= jobs[k].runAt
    /\ worker' = [worker EXCEPT ![w] =
           [pc |-> "tx", job |-> j, attempt |-> jobs[j].attempts + 1,
            txAt |-> 0, deadline |-> 0]]
    /\ UNCHANGED jobs

\* UPDATE and COMMIT; then the handler is looked up and, if there is one,
\* started under a context with the timeout.
CommitClaim(w) ==
    LET j == worker[w].job IN
    /\ worker[w].pc = "tx"
    /\ jobs' = [jobs EXCEPT ![j] = ClaimedRow(@, worker[w].txAt)]
    /\ worker' = [worker EXCEPT
           ![w].pc = IF jobs[j].work \in Registered THEN "run" ELSE "unknown",
           ![w].txAt = 0,
           ![w].deadline = IF jobs[j].work \in Registered
                           THEN HandlerTimeout ELSE 0]

\* UPDATE or COMMIT fails: deferred Rollback, processOne returns the error.
AbortClaim(w) ==
    /\ "queue" \in Faults
    /\ worker[w].pc = "tx"
    /\ worker' = [worker EXCEPT ![w] = Idle]
    /\ UNCHANGED jobs

\* COMMIT takes effect but its answer is lost: processOne returns the error
\* and the attempt is spent without a handler having run.
LoseClaim(w) ==
    /\ "queue" \in Faults
    /\ worker[w].pc = "tx"
    /\ jobs' = [jobs EXCEPT ![worker[w].job] = ClaimedRow(@, worker[w].txAt)]
    /\ worker' = [worker EXCEPT ![w] = Idle]

\* The handler returns nil (res = "ok") or an error (res = "err").
HandlerReturns(w, res) ==
    /\ worker[w].pc = "run"
    /\ worker' = [worker EXCEPT ![w].pc = res, ![w].deadline = 0]
    /\ jobs' = [jobs EXCEPT ![worker[w].job].ran = @ \/ (res = "ok")]

\* Mutant: a missing return, so that the error path runs as well.
FinishOkFallsThrough(w) ==
    /\ worker[w].pc = "ok"
    /\ ~RowLocked(worker[w].job)
    /\ jobs' = [jobs EXCEPT ![worker[w].job] = FinishedRow(@)]
    /\ worker' = [worker EXCEPT ![w].pc = "err"]

\* The UPDATE after a handler that returned nil.  Like the two that follow it
\* waits for a row lock another worker's claiming transaction holds.
FinishOk(w) ==
    /\ worker[w].pc = "ok"
    /\ ~RowLocked(worker[w].job)
    /\ jobs' = [jobs EXCEPT ![worker[w].job] = FinishedRow(@)]
    /\ worker' = [worker EXCEPT ![w] = Idle]

\* The UPDATE after a handler error: back off or, out of attempts, give up.
FinishErr(w) ==
    /\ worker[w].pc = "err"
    /\ ~RowLocked(worker[w].job)
    /\ jobs' = [jobs EXCEPT ![worker[w].job] = FailedRow(@)]
    /\ worker' = [worker EXCEPT ![w] = Idle]

\* The UPDATE for a type without a handler: completed with last_error set.
FinishUnknown(w) ==
    /\ worker[w].pc = "unknown"
    /\ ~RowLocked(worker[w].job)
    /\ jobs' = [jobs EXCEPT ![worker[w].job] = FinishedRow(@)]
    /\ worker' = [worker EXCEPT ![w] = Idle]

\* The recording UPDATE fails, or ctx was cancelled by Shutdown: the error
\* is dropped and the row keeps its lock.
FinishFails(w) ==
    /\ "queue" \in Faults
    /\ worker[w].pc \in Outcomes
    /\ worker' = [worker EXCEPT ![w] = Idle]
    /\ UNCHANGED jobs

\* The process dies and is started again; Postgres rolls its transaction back.
Crash(w) ==
    /\ "crash" \in Faults
    /\ worker[w].pc # "idle"
    /\ worker' = [worker EXCEPT ![w] = Idle]
    /\ UNCHANGED jobs

\* Without "slow" among the faults a handler is done before its deadline.
Prompt == \A w \in Workers : worker[w].pc = "run" => worker[w].deadline > 1

\* The clock advances by one unit.
Tick ==
    /\ Prompt \/ "slow" \in Faults
    /\ jobs' = [j \in Jobs |->
           [jobs[j] EXCEPT !.runAt = Older(@, RunMemory),
                           !.lockedUntil = Older(@, 1),
                           !.late = @ \/ (jobs[j].lockedUntil = 0 /\ Held(j))]]
    /\ worker' = [w \in Workers |->
           [worker[w] EXCEPT !.txAt = IF worker[w].pc = "tx"
                                      THEN Older(@, LockFor + 1) ELSE @,
                             !.deadline = Older(@, 0)]]

-----------------------------------------------------------------------------
WorkerStep(w) ==
    \/ PollEmpty(w)
    \/ \E j \in Jobs : SelectJob(w, j)
    \/ CommitClaim(w)
    \/ AbortClaim(w)
    \/ LoseClaim(w)
    \/ \E res \in {"ok", "err"} : HandlerReturns(w, res)
    \/ FinishOk(w)
    \/ FinishErr(w)
    \/ FinishUnknown(w)
    \/ FinishFails(w)
    \/ Crash(w)

QueueNext ==
    \/ \E j \in Jobs, x \in Work : Enqueue(j, x)
    \/ \E w \in Workers : WorkerStep(w)
    \/ Tick

QueueSpec == QueueInit /\ [][QueueNext]_queueVars

-----------------------------------------------------------------------------
(* Safety.                                                                 *)

\* Types, with the ranges that make the state finite: counters and instants
\* stay within what the constants allow whatever the workers do.
TypeOK ==
    /\ jobs \in [Jobs -> Row]
    /\ worker \in [Workers -> WorkerState]

\* What a worker believes about its row stays true of the row, whatever the
\* others do to it: the row of an open claim is still pending and one attempt
\* behind, the row of a running handler is a real row that has been claimed
\* at least as often as the handler was told.
ClaimsMatchRows ==
    \A w \in Workers :
        LET j == worker[w].job IN
        /\ worker[w].pc = "idle" => j = NoJob
        /\ worker[w].pc = "tx" =>
               /\ j \in Jobs
               /\ jobs[j].work # NoWork
               /\ ~jobs[j].done
               /\ worker[w].attempt = jobs[j].attempts + 1
        /\ worker[w].pc \in Holding =>
               /\ j \in Jobs
               /\ jobs[j].work # NoWork
               /\ worker[w].attempt \in 1..jobs[j].attempts

\* No attempt number of a row is ever given to two workers at once, however
\* late or duplicated their deliveries are (SKIP LOCKED and the increment).
UniqueAttempt ==
    \A v, w \in Workers :
        /\ v # w
        /\ worker[v].pc # "idle"
        /\ worker[w].pc # "idle"
        /\ worker[v].job = worker[w].job
        => worker[v].attempt # worker[w].attempt

\* Delivery is exclusive as long as nobody outlives a lock: while no worker
\* has held row j beyond the locked_until it took, at most one works on it,
\* its claim is the row's latest, the row is open and its lock in force.
Exclusive ==
    \A j \in Jobs : ~jobs[j].late =>
        \A w \in Workers : worker[w].pc \in Holding /\ worker[w].job = j =>
            /\ worker[w].attempt = jobs[j].attempts
            /\ ~jobs[j].done
            /\ jobs[j].lockedUntil >= 0
            /\ \A v \in Workers \ {w} : worker[v].job # j

\* A job is never dropped: a row is completed only after a handler returned
\* nil for it, after max_attempts claims, or because no handler is known.
NoSilentDrop ==
    \A j \in Jobs : jobs[j].done =>
        \/ jobs[j].ran
        \/ jobs[j].attempts = MaxAttempts
        \/ jobs[j].work \notin Registered

\* completed_at is set back to NULL only by a worker that outlived its lock
\* (the error UPDATE has no condition on the claim it belongs to).
ReopenOnlyIfLate ==
    [][\A j \in Jobs :
           jobs[j].done /\ ~jobs'[j].done =>
               jobs[j].late \/ jobs'[j] = NewRow(jobs'[j].work)]_queueVars

-----------------------------------------------------------------------------
(* Liveness.  It depends on the processes around the queue: AppLifecycle   *)
(* and ReportPipeline state the fairness.                                  *)

RecordOutcome(w) == FinishOk(w) \/ FinishErr(w) \/ FinishUnknown(w)

\* Every job that is open is at some later time completed or out of attempts,
\* with workers crashing, claims aborted and outcomes lost on the way.
Settles ==
    \A j \in Jobs : ~jobs[j].done ~>
        (jobs[j].done \/ jobs[j].attempts = MaxAttempts)
=============================================================================

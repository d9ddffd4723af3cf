--------------------------- MODULE JobQueueProofs ---------------------------
(***************************************************************************)
(* The safety of the job queue for every number of rows, workers and       *)
(* attempts and every choice of the intervals.                             *)
(*                                                                         *)
(* TypeOK is not inductive by itself: a claim raises attempts, and that it *)
(* stays within max_attempts rests on the claiming transaction still       *)
(* knowing the row (ClaimsMatchRows), which rests on no two transactions   *)
(* sharing one (UniqueAttempt).  ClaimInv is the three together, and that  *)
(* a slot without a row is never eligible (EmptySlots).                    *)
(***************************************************************************)
EXTENDS JobQueue, TLAPS

EmptySlots == \A j \in Jobs : jobs[j].work = NoWork => jobs[j].done

ClaimInv == TypeOK /\ ClaimsMatchRows /\ UniqueAttempt /\ EmptySlots

-----------------------------------------------------------------------------
(* The helpers on instants and rows.                                       *)

\* Ageing keeps an instant between the edge of memory and its old bound.
LEMMA OlderType ==
    ASSUME NEW m \in Nat, NEW hi \in Int, NEW t \in (0 - m)..hi
    PROVE  Older(t, m) \in (0 - m)..hi
BY DEF Older

\* The row after a claim is a row, if the claim was within the budget.
LEMMA ClaimedRowType ==
    ASSUME NEW row \in Row, NEW at \in (0 - LockFor - 1)..0,
           row.attempts < MaxAttempts
    PROVE  /\ ClaimedRow(row, at) \in Row
           /\ ClaimedRow(row, at).attempts = row.attempts + 1
           /\ ClaimedRow(row, at).work = row.work
           /\ ClaimedRow(row, at).done = row.done
           /\ ClaimedRow(row, at).ran = row.ran
           /\ ~ClaimedRow(row, at).late =>
                  ~row.late /\ ClaimedRow(row, at).lockedUntil >= 0
<1> DEFINE u == Clamp(at + LockFor, 1)
           l == row.late \/ u < 0
           new == [row EXCEPT !.lockedUntil = u, !.attempts = @ + 1, !.late = l]
<1>1. u \in -1..LockFor
  BY QueueAssumption DEF Clamp
<1>2. l \in BOOLEAN
  OBVIOUS
<1>3. ~l => ~row.late /\ u >= 0
  BY <1>1, QueueAssumption
<1>4. ClaimedRow(row, at) = new
  BY Zenon DEF ClaimedRow
<1>5. row.attempts + 1 \in 0..MaxAttempts
  BY QueueAssumption DEF Row
<1> HIDE DEF u, l
<1>6. /\ new \in Row
      /\ new.attempts = row.attempts + 1
      /\ new.work = row.work
      /\ new.done = row.done
      /\ new.ran = row.ran
      /\ new.late = l
      /\ new.lockedUntil = u
  BY <1>1, <1>2, <1>5 DEF Row
<1> QED BY <1>3, <1>4, <1>6

\* The row after either success UPDATE.
LEMMA FinishedRowType ==
    ASSUME NEW row \in Row
    PROVE  /\ FinishedRow(row) \in Row
           /\ FinishedRow(row).attempts = row.attempts
           /\ FinishedRow(row).work = row.work
           /\ FinishedRow(row).ran = row.ran
           /\ FinishedRow(row).late = row.late
<1> DEFINE d == TRUE
           new == [row EXCEPT !.lockedUntil = -1, !.done = d]
<1>1. d \in BOOLEAN /\ -1 \in -1..LockFor
  BY QueueAssumption
<1>2. FinishedRow(row) = new
  BY Zenon DEF FinishedRow
<1> HIDE DEF d
<1>3. /\ new \in Row
      /\ new.attempts = row.attempts
      /\ new.work = row.work
      /\ new.ran = row.ran
      /\ new.late = row.late
  BY <1>1 DEF Row
<1> QED BY <1>2, <1>3

\* The backoff after attempts errors is at most the one after the last.
LEMMA BackoffBound ==
    ASSUME NEW a \in 0..MaxAttempts
    PROVE  Backoff * a \in 0..(Backoff * MaxAttempts)
<1>1. Backoff \in Nat /\ MaxAttempts \in Nat /\ a \in Nat /\ MaxAttempts - a \in Nat
  BY QueueAssumption
<1>2. Backoff * a \in Nat /\ Backoff * (MaxAttempts - a) \in Nat
  BY <1>1
<1>3. Backoff * MaxAttempts = Backoff * a + Backoff * (MaxAttempts - a)
  BY <1>1
<1> QED BY <1>1, <1>2, <1>3

\* The row after an error UPDATE.
LEMMA FailedRowType ==
    ASSUME NEW row \in Row
    PROVE  /\ FailedRow(row) \in Row
           /\ FailedRow(row).attempts = row.attempts
           /\ FailedRow(row).work = row.work
           /\ FailedRow(row).ran = row.ran
           /\ FailedRow(row).late = row.late
           /\ FailedRow(row).done => row.attempts = MaxAttempts
<1>1. row.attempts \in 0..MaxAttempts
  BY DEF Row
<1>2. Backoff * row.attempts \in (0 - RunMemory)..(Backoff * MaxAttempts)
  BY <1>1, BackoffBound, QueueAssumption
<1> DEFINE d == row.attempts >= MaxAttempts
           b == Backoff * row.attempts
           new == [row EXCEPT !.lockedUntil = -1, !.runAt = b, !.done = d]
<1>3. d \in BOOLEAN /\ -1 \in -1..LockFor
  BY QueueAssumption
<1>4. d => row.attempts = MaxAttempts
  BY <1>1, QueueAssumption
<1>5. FailedRow(row) = new
  BY Zenon DEF FailedRow
<1> HIDE DEF d, b
<1>6. /\ new \in Row
      /\ new.attempts = row.attempts
      /\ new.work = row.work
      /\ new.ran = row.ran
      /\ new.late = row.late
      /\ new.done = d
  BY <1>2, <1>3 DEF Row, b
<1> QED BY <1>4, <1>5, <1>6

\* A fresh row is a row.
LEMMA NewRowType == \A x \in Work : NewRow(x) \in Row
<1>1. 0 \in (0 - RunMemory)..(Backoff * MaxAttempts)
  BY QueueAssumption, BackoffBound
<1> QED BY <1>1, QueueAssumption DEF NewRow, Row

-----------------------------------------------------------------------------
(* ClaimInv.                                                               *)

\* A worker that lets go leaves a good state behind.
LEMMA IdleType == Idle \in WorkerState
BY QueueAssumption DEF Idle, WorkerState

\* What claiming and returning do to a worker keeps it well typed.
LEMMA WorkerUpdate ==
    ASSUME NEW old \in WorkerState, NEW p \in Holding,
           NEW d \in 0..HandlerTimeout
    PROVE  /\ [old EXCEPT !.pc = p, !.deadline = d] \in WorkerState
           /\ [old EXCEPT !.pc = p, !.txAt = 0, !.deadline = d] \in WorkerState
<1>1. p \in {"idle", "tx"} \cup Holding
  OBVIOUS
<1>2. 0 \in (0 - LockFor - 1)..0
  BY QueueAssumption
<1> QED BY <1>1, <1>2 DEF WorkerState

\* The initial state: no rows, no claims.
LEMMA ClaimInvInit == QueueInit => ClaimInv
<1> SUFFICES ASSUME QueueInit PROVE ClaimInv
  OBVIOUS
<1>1. 0 \in (0 - RunMemory)..(Backoff * MaxAttempts)
  BY QueueAssumption, BackoffBound
<1>2. NoRow \in Row
  BY <1>1, QueueAssumption DEF NoRow, Row
<1>3. TypeOK
  BY <1>2, IdleType DEF QueueInit, TypeOK
<1>4. \A w \in Workers : worker[w].pc = "idle" /\ worker[w].job = NoJob
  BY DEF QueueInit, Idle
<1>5. ClaimsMatchRows
  BY <1>4 DEF ClaimsMatchRows, Holding, Outcomes
<1>6. UniqueAttempt
  BY <1>4 DEF UniqueAttempt
<1>7. EmptySlots
  BY DEF EmptySlots, QueueInit, NoRow
<1> QED BY <1>3, <1>5, <1>6, <1>7 DEF ClaimInv

\* Steps that only make a worker idle (AbortClaim, FinishFails, Crash).
LEMMA LetGo ==
    ASSUME ClaimInv, NEW w \in Workers,
           worker' = [worker EXCEPT ![w] = Idle], UNCHANGED jobs
    PROVE  ClaimInv'
<1>1. TypeOK'
  BY IdleType DEF ClaimInv, TypeOK
<1>2. /\ worker'[w].pc = "idle" /\ worker'[w].job = NoJob
      /\ \A v \in Workers \ {w} : worker'[v] = worker[v]
  BY DEF ClaimInv, TypeOK, Idle
<1>3. ClaimsMatchRows'
  BY <1>2 DEF ClaimInv, ClaimsMatchRows, Holding, Outcomes
<1>4. UniqueAttempt'
  BY <1>2 DEF ClaimInv, UniqueAttempt
<1> QED BY <1>1, <1>3, <1>4 DEF ClaimInv, EmptySlots

\* A worker's row is a row, and nobody shares an open claim.
LEMMA OpenClaim ==
    ASSUME ClaimInv, NEW w \in Workers, worker[w].pc = "tx"
    PROVE  /\ worker[w].job \in Jobs
           /\ jobs[worker[w].job] \in Row
           /\ jobs[worker[w].job].attempts < MaxAttempts
           /\ worker[w].txAt \in (0 - LockFor - 1)..0
           /\ \A v \in Workers \ {w} :
                  worker[v].pc = "tx" => worker[v].job # worker[w].job
<1>1. /\ worker[w].job \in Jobs
      /\ worker[w].attempt = jobs[worker[w].job].attempts + 1
  BY DEF ClaimInv, ClaimsMatchRows
<1>2. worker[w] \in WorkerState /\ jobs[worker[w].job] \in Row
  BY <1>1 DEF ClaimInv, TypeOK
<1>3. jobs[worker[w].job].attempts < MaxAttempts
  BY <1>1, <1>2, QueueAssumption DEF WorkerState, Row
<1>4. worker[w].txAt \in (0 - LockFor - 1)..0
  BY <1>2 DEF WorkerState
<1>5. ASSUME NEW v \in Workers \ {w}, worker[v].pc = "tx",
             worker[v].job = worker[w].job
      PROVE  FALSE
  <2>1. worker[v].attempt = jobs[worker[w].job].attempts + 1
    BY <1>5 DEF ClaimInv, ClaimsMatchRows
  <2> QED BY <1>1, <1>5, <2>1 DEF ClaimInv, UniqueAttempt
<1> QED BY <1>1, <1>2, <1>3, <1>4, <1>5

\* A committed claim keeps ClaimInv, whether its worker learns of it or not.
LEMMA Claimed ==
    ASSUME ClaimInv, NEW w \in Workers, worker[w].pc = "tx",
           jobs' = [jobs EXCEPT ![worker[w].job] =
                        ClaimedRow(@, worker[w].txAt)],
           NEW new \in WorkerState, worker' = [worker EXCEPT ![w] = new],
           \/ new = Idle
           \/ /\ new.pc \in {"run", "unknown"}
              /\ new.job = worker[w].job
              /\ new.attempt = worker[w].attempt
    PROVE  ClaimInv'
<1> DEFINE j == worker[w].job
           row == ClaimedRow(jobs[j], worker[w].txAt)
<1>1. /\ j \in Jobs
      /\ row \in Row
      /\ row.attempts = jobs[j].attempts + 1
      /\ row.work = jobs[j].work
      /\ \A v \in Workers \ {w} : worker[v].pc = "tx" => worker[v].job # j
  BY OpenClaim, ClaimedRowType
<1>2. /\ jobs[j].work # NoWork
      /\ worker[w].attempt = jobs[j].attempts + 1
      /\ jobs[j].attempts \in Nat
  BY <1>1 DEF ClaimInv, ClaimsMatchRows, TypeOK, Row
<1>3. TypeOK'
  BY <1>1 DEF ClaimInv, TypeOK
<1>4. /\ jobs'[j] = row
      /\ \A k \in Jobs \ {j} : jobs'[k] = jobs[k]
      /\ worker'[w] = new
      /\ \A v \in Workers \ {w} : worker'[v] = worker[v]
  BY <1>1 DEF ClaimInv, TypeOK
<1> HIDE DEF j, row
<1>5. ASSUME NEW v \in Workers, worker'[v].pc \in Holding
      PROVE  /\ worker'[v].job \in Jobs
             /\ jobs'[worker'[v].job].work # NoWork
             /\ worker'[v].attempt \in 1..jobs'[worker'[v].job].attempts
  <2>1. CASE v = w
    <3>1. worker'[v].job = j /\ worker'[v].attempt = worker[w].attempt
      BY <1>4, <1>5, <2>1 DEF Idle, Holding, Outcomes, j
    <3> QED BY <1>1, <1>2, <1>4, <3>1
  <2>2. CASE v # w
    <3>1. /\ worker[v].job \in Jobs
          /\ jobs[worker[v].job].work # NoWork
          /\ worker[v].attempt \in 1..jobs[worker[v].job].attempts
      BY <1>4, <1>5, <2>2 DEF ClaimInv, ClaimsMatchRows
    <3> QED BY <1>1, <1>2, <1>4, <2>2, <3>1
  <2> QED BY <2>1, <2>2
<1>6. ASSUME NEW v \in Workers, worker'[v].pc = "tx"
      PROVE  /\ v # w
             /\ worker'[v].job \in Jobs \ {j}
             /\ jobs'[worker'[v].job] = jobs[worker[v].job]
             /\ worker'[v] = worker[v]
  <2>1. v # w
    BY <1>4, <1>6 DEF Idle
  <2>2. worker[v].job \in Jobs
    BY <1>4, <1>6, <2>1 DEF ClaimInv, ClaimsMatchRows
  <2> QED BY <1>1, <1>4, <1>6, <2>1, <2>2
<1>7. ClaimsMatchRows'
  <2>1. \A v \in Workers : worker'[v].pc = "idle" => worker'[v].job = NoJob
    BY <1>4 DEF ClaimInv, ClaimsMatchRows, Idle
  <2>2. \A v \in Workers : worker'[v].pc = "tx" =>
            /\ worker'[v].job \in Jobs
            /\ jobs'[worker'[v].job].work # NoWork
            /\ ~jobs'[worker'[v].job].done
            /\ worker'[v].attempt = jobs'[worker'[v].job].attempts + 1
    BY <1>6 DEF ClaimInv, ClaimsMatchRows
  <2> QED BY <1>5, <2>1, <2>2 DEF ClaimsMatchRows
<1>8. UniqueAttempt'
  BY <1>4 DEF ClaimInv, UniqueAttempt, Idle, j
<1>9. EmptySlots'
  BY <1>1, <1>2, <1>4 DEF ClaimInv, EmptySlots
<1> QED BY <1>3, <1>7, <1>8, <1>9 DEF ClaimInv

\* A recorded outcome keeps ClaimInv: it changes neither attempts nor work,
\* and waits for an open claim of the row.
LEMMA Recorded ==
    ASSUME ClaimInv, NEW w \in Workers, worker[w].pc \in Outcomes,
           ~RowLocked(worker[w].job), NEW row \in Row,
           row.attempts = jobs[worker[w].job].attempts,
           row.work = jobs[worker[w].job].work,
           jobs' = [jobs EXCEPT ![worker[w].job] = row],
           worker' = [worker EXCEPT ![w] = Idle]
    PROVE  ClaimInv'
<1> DEFINE j == worker[w].job
<1>1. j \in Jobs /\ jobs[j].work # NoWork
  BY DEF ClaimInv, ClaimsMatchRows, Holding
<1>2. TypeOK'
  BY <1>1, IdleType DEF ClaimInv, TypeOK
<1>3. /\ jobs'[j] = row
      /\ \A k \in Jobs \ {j} : jobs'[k] = jobs[k]
      /\ worker'[w].pc = "idle" /\ worker'[w].job = NoJob
      /\ \A v \in Workers \ {w} : worker'[v] = worker[v]
  BY <1>1 DEF ClaimInv, TypeOK, Idle
<1>4. \A v \in Workers : worker[v].pc = "tx" => worker[v].job # j
  BY DEF RowLocked
<1> HIDE DEF j
<1>5. \A k \in Jobs : /\ jobs'[k].work = jobs[k].work
                      /\ jobs'[k].attempts = jobs[k].attempts
                      /\ k # j => jobs'[k] = jobs[k]
  BY <1>3 DEF j
<1>6. ClaimsMatchRows'
  <2> SUFFICES ASSUME NEW v \in Workers
               PROVE  /\ worker'[v].pc = "idle" => worker'[v].job = NoJob
                      /\ worker'[v].pc = "tx" =>
                            /\ worker'[v].job \in Jobs
                            /\ jobs'[worker'[v].job].work # NoWork
                            /\ ~jobs'[worker'[v].job].done
                            /\ worker'[v].attempt =
                                   jobs'[worker'[v].job].attempts + 1
                      /\ worker'[v].pc \in Holding =>
                            /\ worker'[v].job \in Jobs
                            /\ jobs'[worker'[v].job].work # NoWork
                            /\ worker'[v].attempt \in
                                   1..jobs'[worker'[v].job].attempts
    BY DEF ClaimsMatchRows
  <2>1. CASE v = w
    BY <1>3, <2>1 DEF Holding, Outcomes
  <2>2. CASE v # w
    BY <1>3, <1>4, <1>5, <2>2 DEF ClaimInv, ClaimsMatchRows
  <2> QED BY <2>1, <2>2
<1>7. UniqueAttempt'
  BY <1>3 DEF ClaimInv, UniqueAttempt
<1>8. EmptySlots'
  BY <1>1, <1>5 DEF ClaimInv, EmptySlots
<1> QED BY <1>2, <1>6, <1>7, <1>8 DEF ClaimInv

\* The clock changes a row's instants and nothing a claim depends on; the
\* lock does not come back, and running out while the row is held is noted.
LEMMA AgedRow ==
    ASSUME ClaimInv, Tick, NEW j \in Jobs
    PROVE  /\ jobs'[j] \in Row
           /\ jobs'[j].work = jobs[j].work
           /\ jobs'[j].attempts = jobs[j].attempts
           /\ jobs'[j].done = jobs[j].done
           /\ jobs'[j].ran = jobs[j].ran
           /\ ~jobs'[j].late =>
                  /\ ~jobs[j].late
                  /\ Held(j) /\ jobs[j].lockedUntil >= 0
                         => jobs'[j].lockedUntil >= 0
<1> DEFINE r == Older(jobs[j].runAt, RunMemory)
           u == Older(jobs[j].lockedUntil, 1)
           l == jobs[j].late \/ (jobs[j].lockedUntil = 0 /\ Held(j))
           new == [jobs[j] EXCEPT !.runAt = r, !.lockedUntil = u, !.late = l]
<1>1. jobs[j] \in Row
  BY DEF ClaimInv, TypeOK
<1>2. jobs'[j] = new
  BY Zenon DEF Tick
<1>3. r \in (0 - RunMemory)..(Backoff * MaxAttempts)
  <2>1. Backoff * MaxAttempts \in Int
    BY QueueAssumption
  <2>2. jobs[j].runAt \in (0 - RunMemory)..(Backoff * MaxAttempts)
    BY <1>1 DEF Row
  <2> QED BY <2>1, <2>2, OlderType, QueueAssumption
<1>4. jobs[j].lockedUntil \in -1..LockFor
  BY <1>1 DEF Row
<1>5. u \in -1..LockFor
  BY <1>4, QueueAssumption DEF Older
<1>6. l \in BOOLEAN
  OBVIOUS
<1>7. ~l => /\ ~jobs[j].late
            /\ Held(j) /\ jobs[j].lockedUntil >= 0 => u >= 0
  BY <1>4, QueueAssumption DEF Older
<1> HIDE DEF r, u, l
<1>8. /\ new \in Row
      /\ new.work = jobs[j].work
      /\ new.attempts = jobs[j].attempts
      /\ new.done = jobs[j].done
      /\ new.ran = jobs[j].ran
      /\ new.late = l
      /\ new.lockedUntil = u
  BY <1>1, <1>3, <1>5, <1>6 DEF Row
<1> QED BY <1>2, <1>7, <1>8

\* The clock changes a worker's instants only.
LEMMA AgedWorker ==
    ASSUME ClaimInv, Tick, NEW w \in Workers
    PROVE  /\ worker'[w] \in WorkerState
           /\ worker'[w].pc = worker[w].pc
           /\ worker'[w].job = worker[w].job
           /\ worker'[w].attempt = worker[w].attempt
<1> DEFINE t == IF worker[w].pc = "tx" THEN Older(worker[w].txAt, LockFor + 1)
                ELSE worker[w].txAt
           d == Older(worker[w].deadline, 0)
           new == [worker[w] EXCEPT !.txAt = t, !.deadline = d]
<1>1. worker[w] \in WorkerState
  BY DEF ClaimInv, TypeOK
<1>2. worker'[w] = new
  BY Zenon DEF Tick
<1>3. /\ worker[w].txAt \in (0 - LockFor - 1)..0
      /\ worker[w].deadline \in 0..HandlerTimeout
  BY <1>1 DEF WorkerState
<1>4. t \in (0 - LockFor - 1)..0
  BY <1>3, QueueAssumption DEF Older
<1>5. d \in 0..HandlerTimeout
  BY <1>3, QueueAssumption DEF Older
<1> HIDE DEF t, d
<1> QED BY <1>1, <1>2, <1>4, <1>5 DEF WorkerState

\* A slot that is free is no worker's job.
LEMMA FreeSlot ==
    ASSUME ClaimInv, NEW j \in Jobs, Free(j)
    PROVE  \A v \in Workers : worker[v].job # j
<1> SUFFICES ASSUME NEW v \in Workers, worker[v].job = j PROVE FALSE
  OBVIOUS
<1>1. worker[v].pc \in {"idle", "tx"} \cup Holding
  BY DEF ClaimInv, TypeOK, WorkerState
<1>2. worker[v].pc # "idle"
  BY QueueAssumption DEF ClaimInv, ClaimsMatchRows
<1> QED BY <1>1, <1>2 DEF Free, RowLocked, Held

\* Every step of the queue keeps ClaimInv.
LEMMA ClaimInvStep == ClaimInv /\ [QueueNext]_queueVars => ClaimInv'
<1> SUFFICES ASSUME ClaimInv, [QueueNext]_queueVars PROVE ClaimInv'
  OBVIOUS
<1>1. ASSUME NEW j \in Jobs, NEW x \in Work, Enqueue(j, x) PROVE ClaimInv'
  <2>1. \A v \in Workers : worker'[v] = worker[v] /\ worker'[v].job # j
    BY <1>1, FreeSlot DEF Enqueue
  <2>2. TypeOK'
    BY <1>1, NewRowType DEF Enqueue, ClaimInv, TypeOK
  <2>3. \A k \in Jobs : jobs'[k] = IF k = j THEN NewRow(x) ELSE jobs[k]
    BY <1>1 DEF Enqueue, ClaimInv, TypeOK
  <2>4. ClaimsMatchRows'
    BY <2>1, <2>3 DEF ClaimInv, ClaimsMatchRows
  <2>5. UniqueAttempt'
    BY <1>1 DEF Enqueue, ClaimInv, UniqueAttempt
  <2>6. NewRow(x).work # NoWork
    BY QueueAssumption DEF NewRow
  <2>7. EmptySlots'
    BY <2>3, <2>6 DEF ClaimInv, EmptySlots
  <2> QED BY <2>2, <2>4, <2>5, <2>7 DEF ClaimInv
<1>2. ASSUME NEW w \in Workers, NEW j \in Jobs, SelectJob(w, j)
      PROVE  ClaimInv'
  <2> DEFINE new == [pc |-> "tx", job |-> j, attempt |-> jobs[j].attempts + 1,
                     txAt |-> 0, deadline |-> 0]
  <2>1. /\ ~jobs[j].done /\ jobs[j].attempts < MaxAttempts
        /\ \A v \in Workers : worker[v].pc = "tx" => worker[v].job # j
    BY <1>2 DEF SelectJob, Eligible, RowLocked
  <2>2. jobs[j] \in Row /\ jobs[j].attempts \in 0..MaxAttempts
    BY DEF ClaimInv, TypeOK, Row
  <2>3. new \in WorkerState
    BY <2>1, <2>2, QueueAssumption DEF WorkerState
  <2>4. /\ jobs' = jobs
        /\ worker'[w] = new
        /\ \A v \in Workers \ {w} : worker'[v] = worker[v]
    BY <1>2 DEF SelectJob, ClaimInv, TypeOK
  <2>5. TypeOK'
    BY <1>2, <2>3 DEF SelectJob, ClaimInv, TypeOK
  <2>6. jobs[j].work # NoWork
    BY <2>1 DEF ClaimInv, EmptySlots
  <2>7. ClaimsMatchRows'
    BY <2>1, <2>4, <2>6 DEF ClaimInv, ClaimsMatchRows, Holding, Outcomes
  <2>8. \A v \in Workers \ {w} : worker[v].pc # "idle" /\ worker[v].job = j
            => worker[v].attempt # jobs[j].attempts + 1
    BY <2>1, <2>2 DEF ClaimInv, ClaimsMatchRows, TypeOK, WorkerState
  <2>9. UniqueAttempt'
    BY <2>4, <2>8 DEF ClaimInv, UniqueAttempt
  <2> QED BY <2>4, <2>5, <2>7, <2>9 DEF ClaimInv, EmptySlots
<1>3. ASSUME NEW w \in Workers, CommitClaim(w) PROVE ClaimInv'
  <2> DEFINE known == jobs[worker[w].job].work \in Registered
             new == [worker[w] EXCEPT
                         !.pc = IF known THEN "run" ELSE "unknown",
                         !.txAt = 0,
                         !.deadline = IF known THEN HandlerTimeout ELSE 0]
  <2>1. /\ worker[w] \in WorkerState
        /\ worker' = [worker EXCEPT ![w] = new]
    BY <1>3 DEF CommitClaim, ClaimInv, TypeOK
  <2>2. new \in WorkerState
    <3> DEFINE p == IF known THEN "run" ELSE "unknown"
               d == IF known THEN HandlerTimeout ELSE 0
    <3>1. p \in Holding
      BY DEF Holding, Outcomes
    <3>2. d \in 0..HandlerTimeout
      BY QueueAssumption
    <3> HIDE DEF p, d
    <3>3. [worker[w] EXCEPT !.pc = p, !.txAt = 0, !.deadline = d] \in WorkerState
      BY <2>1, <3>1, <3>2, WorkerUpdate
    <3> QED BY <3>3 DEF p, d
  <2>3. /\ new.pc \in {"run", "unknown"}
        /\ new.job = worker[w].job
        /\ new.attempt = worker[w].attempt
    BY <2>1 DEF WorkerState
  <2>4. /\ worker[w].pc = "tx"
        /\ jobs' = [jobs EXCEPT ![worker[w].job] =
                        ClaimedRow(@, worker[w].txAt)]
    BY <1>3 DEF CommitClaim
  <2> HIDE DEF new
  <2> QED BY <2>1, <2>2, <2>3, <2>4, Claimed
<1>4. ASSUME NEW w \in Workers, LoseClaim(w) PROVE ClaimInv'
  BY <1>4, Claimed, IdleType DEF LoseClaim
<1>5. ASSUME NEW w \in Workers, AbortClaim(w) \/ FinishFails(w) \/ Crash(w)
      PROVE  ClaimInv'
  BY <1>5, LetGo DEF AbortClaim, FinishFails, Crash
<1>6. ASSUME NEW w \in Workers, NEW res \in {"ok", "err"},
             HandlerReturns(w, res)
      PROVE  ClaimInv'
  <2> DEFINE j == worker[w].job
  <2>1. worker[w].pc = "run" /\ worker[w].pc \in Holding
    BY <1>6 DEF HandlerReturns, Holding
  <2>2. j \in Jobs /\ jobs[j] \in Row /\ worker[w] \in WorkerState
    BY <2>1 DEF ClaimInv, ClaimsMatchRows, TypeOK
  <2>3. /\ worker' = [worker EXCEPT ![w] =
                          [worker[w] EXCEPT !.pc = res, !.deadline = 0]]
        /\ jobs' = [jobs EXCEPT ![j] =
                        [jobs[j] EXCEPT !.ran = @ \/ (res = "ok")]]
    BY <1>6 DEF HandlerReturns, ClaimInv, TypeOK
  <2>4. [worker[w] EXCEPT !.pc = res, !.deadline = 0] \in WorkerState
    <3>1. res \in Holding
      BY DEF Holding, Outcomes
    <3>2. 0 \in 0..HandlerTimeout
      BY QueueAssumption
    <3> QED BY <2>2, <3>1, <3>2, WorkerUpdate
  <2>5. [jobs[j] EXCEPT !.ran = @ \/ (res = "ok")] \in Row
    <3> DEFINE b == jobs[j].ran \/ (res = "ok")
    <3>1. b \in BOOLEAN
      OBVIOUS
    <3> HIDE DEF b
    <3>2. [jobs[j] EXCEPT !.ran = b] \in Row
      BY <2>2, <3>1 DEF Row
    <3> QED BY <3>2 DEF b
  <2>6. TypeOK'
    BY <2>3, <2>4, <2>5 DEF ClaimInv, TypeOK
  <2>7. /\ \A k \in Jobs : /\ jobs'[k].work = jobs[k].work
                           /\ jobs'[k].attempts = jobs[k].attempts
                           /\ jobs'[k].done = jobs[k].done
        /\ worker'[w].pc = res
        /\ worker'[w].job = worker[w].job
        /\ worker'[w].attempt = worker[w].attempt
        /\ \A v \in Workers \ {w} : worker'[v] = worker[v]
    BY <2>2, <2>3 DEF ClaimInv, TypeOK, Row, WorkerState
  <2>8. ClaimsMatchRows'
    BY <2>1, <2>7 DEF ClaimInv, ClaimsMatchRows, Holding, Outcomes
  <2>9. UniqueAttempt'
    BY <2>1, <2>7 DEF ClaimInv, UniqueAttempt
  <2> QED BY <2>6, <2>7, <2>8, <2>9 DEF ClaimInv, EmptySlots
<1>7. ASSUME NEW w \in Workers, RecordOutcome(w) PROVE ClaimInv'
  <2>1. /\ worker[w].pc \in Outcomes
        /\ ~RowLocked(worker[w].job)
        /\ worker' = [worker EXCEPT ![w] = Idle]
        /\ \/ jobs' = [jobs EXCEPT ![worker[w].job] = FinishedRow(@)]
           \/ jobs' = [jobs EXCEPT ![worker[w].job] = FailedRow(@)]
    BY <1>7 DEF RecordOutcome, FinishOk, FinishErr, FinishUnknown, Outcomes
  <2>2. jobs[worker[w].job] \in Row
    BY <2>1 DEF ClaimInv, ClaimsMatchRows, TypeOK, Holding
  <2>3. CASE jobs' = [jobs EXCEPT ![worker[w].job] = FinishedRow(@)]
    BY <2>1, <2>2, <2>3, FinishedRowType, Recorded
  <2>4. CASE jobs' = [jobs EXCEPT ![worker[w].job] = FailedRow(@)]
    BY <2>1, <2>2, <2>4, FailedRowType, Recorded
  <2> QED BY <2>1, <2>3, <2>4
<1>8. CASE Tick
  <2>1. \A j \in Jobs :
            /\ jobs'[j] \in Row
            /\ jobs'[j].work = jobs[j].work
            /\ jobs'[j].attempts = jobs[j].attempts
            /\ jobs'[j].done = jobs[j].done
    BY <1>8, AgedRow DEF Tick, ClaimInv, TypeOK
  <2>2. \A w \in Workers :
            /\ worker'[w] \in WorkerState
            /\ worker'[w].pc = worker[w].pc
            /\ worker'[w].job = worker[w].job
            /\ worker'[w].attempt = worker[w].attempt
    BY <1>8, AgedWorker
  <2>3. TypeOK'
    BY <1>8, <2>1, <2>2 DEF Tick, TypeOK
  <2>4. ClaimsMatchRows'
    BY <2>1, <2>2 DEF ClaimInv, ClaimsMatchRows
  <2>5. UniqueAttempt'
    BY <2>2 DEF ClaimInv, UniqueAttempt
  <2> QED BY <2>1, <2>3, <2>4, <2>5 DEF ClaimInv, EmptySlots
<1>9. CASE UNCHANGED queueVars
  BY <1>9 DEF queueVars, ClaimInv, TypeOK, ClaimsMatchRows, UniqueAttempt,
              EmptySlots
<1> QED
  BY <1>1, <1>2, <1>3, <1>4, <1>5, <1>6, <1>7, <1>8, <1>9
     DEF QueueNext, WorkerStep, RecordOutcome, PollEmpty

LEMMA ClaimInvariant == QueueSpec => []ClaimInv
BY ClaimInvInit, ClaimInvStep, PTL DEF QueueSpec

\* Attempts, locks and instants stay within their ranges whatever the workers
\* do: processOne never claims a row more than max_attempts times.
THEOREM QueueTyped == QueueSpec => []TypeOK
<1>1. ClaimInv => TypeOK
  BY DEF ClaimInv
<1> QED BY ClaimInvariant, <1>1, PTL

\* What a worker of Queue.Run remembers of its row between the three
\* interactions of processOne stays true of it.
THEOREM ClaimsSafe == QueueSpec => []ClaimsMatchRows
<1>1. ClaimInv => ClaimsMatchRows
  BY DEF ClaimInv
<1> QED BY ClaimInvariant, <1>1, PTL

\* FOR UPDATE SKIP LOCKED and attempts = attempts + 1 give no attempt number
\* of a row to two workers at once.
THEOREM AttemptsUnique == QueueSpec => []UniqueAttempt
<1>1. ClaimInv => UniqueAttempt
  BY DEF ClaimInv
<1> QED BY ClaimInvariant, <1>1, PTL

-----------------------------------------------------------------------------
(* Exclusive delivery.                                                     *)

\* A claim that commits finds no worker on a row that is not late.
LEMMA ExclusiveClaim ==
    ASSUME ClaimInv, ClaimInv', Exclusive,
           NEW w \in Workers, worker[w].pc = "tx",
           jobs' = [jobs EXCEPT ![worker[w].job] =
                        ClaimedRow(@, worker[w].txAt)],
           \A v \in Workers \ {w} : worker'[v] = worker[v],
           worker'[w].pc # "idle" =>
               /\ worker'[w].job = worker[w].job
               /\ worker'[w].attempt = worker[w].attempt
    PROVE  Exclusive'
<1> DEFINE j == worker[w].job
<1>1. /\ j \in Jobs
      /\ jobs'[j].attempts = jobs[j].attempts + 1
      /\ jobs'[j].done = jobs[j].done
      /\ ~jobs'[j].late => ~jobs[j].late /\ jobs'[j].lockedUntil >= 0
      /\ \A v \in Workers \ {w} : worker[v].pc = "tx" => worker[v].job # j
      /\ \A k \in Jobs \ {j} : jobs'[k] = jobs[k]
  BY OpenClaim, ClaimedRowType DEF ClaimInv, TypeOK
<1>2. /\ ~jobs[j].done
      /\ worker[w].attempt = jobs[j].attempts + 1
  BY DEF ClaimInv, ClaimsMatchRows
<1>3. worker'[w].pc = "idle" => worker'[w].job = NoJob
  BY DEF ClaimInv, ClaimsMatchRows
<1> HIDE DEF j
<1>4. ASSUME NEW k \in Jobs, ~jobs'[k].late, NEW u \in Workers,
             worker'[u].pc \in Holding, worker'[u].job = k
      PROVE  /\ worker'[u].attempt = jobs'[k].attempts
             /\ ~jobs'[k].done
             /\ jobs'[k].lockedUntil >= 0
             /\ \A v \in Workers \ {u} : worker'[v].job # k
  <2>1. CASE k = j
    <3>1. \A v \in Workers \ {w} : worker[v].job # j
      <4> SUFFICES ASSUME NEW v \in Workers \ {w}, worker[v].job = j
                   PROVE  FALSE
        OBVIOUS
      <4>1. worker[v].pc \in Holding
        BY <1>1, QueueAssumption
           DEF ClaimInv, ClaimsMatchRows, TypeOK, WorkerState
      <4> QED BY <1>1, <1>4, <2>1, <4>1 DEF Exclusive, j
    <3>2. u = w
      BY <1>4, <2>1, <3>1
    <3> QED
      BY <1>1, <1>2, <1>4, <2>1, <3>1, <3>2 DEF Holding, Outcomes
  <2>2. CASE k # j
    <3>1. u # w
      BY <1>4, <2>2 DEF j, Holding, Outcomes
    <3>2. worker'[w].job # k
      BY <1>3, <2>2, QueueAssumption DEF j
    <3> QED BY <1>1, <1>4, <2>2, <3>1, <3>2 DEF Exclusive
  <2> QED BY <2>1, <2>2
<1> QED BY <1>4 DEF Exclusive

\* A worker that leaves its row, with or without recording an outcome, either
\* was alone there or leaves a row that is late.
LEMMA ExclusiveLeave ==
    ASSUME ClaimInv, Exclusive, NEW w \in Workers,
           worker' = [worker EXCEPT ![w] = Idle],
           \/ jobs' = jobs
           \/ /\ worker[w].pc \in Holding
              /\ \E row \in Row :
                     /\ row.late = jobs[worker[w].job].late
                     /\ jobs' = [jobs EXCEPT ![worker[w].job] = row]
    PROVE  Exclusive'
<1>1. /\ worker'[w].pc = "idle" /\ worker'[w].job = NoJob
      /\ \A v \in Workers \ {w} : worker'[v] = worker[v]
  BY DEF ClaimInv, TypeOK, Idle
<1>2. ASSUME NEW k \in Jobs, ~jobs'[k].late, NEW u \in Workers,
             worker'[u].pc \in Holding, worker'[u].job = k
      PROVE  jobs'[k] = jobs[k] /\ u # w /\ worker'[u] = worker[u]
  <2>1. u # w /\ worker'[u] = worker[u]
    BY <1>1, <1>2 DEF Holding, Outcomes
  <2>2. CASE jobs' = jobs
    BY <2>1, <2>2
  <2>3. CASE ~(jobs' = jobs)
    <3>1. PICK row \in Row :
              /\ row.late = jobs[worker[w].job].late
              /\ jobs' = [jobs EXCEPT ![worker[w].job] = row]
      BY <2>3
    <3>2. worker[w].pc \in Holding
      BY <2>3
    <3>3. k # worker[w].job
      <4> SUFFICES ASSUME k = worker[w].job PROVE FALSE
        OBVIOUS
      <4>1. ~jobs[k].late
        BY <1>2, <3>1 DEF ClaimInv, TypeOK
      <4> QED BY <1>2, <2>1, <3>2, <4>1 DEF Exclusive
    <3> QED BY <2>1, <3>1, <3>3 DEF ClaimInv, TypeOK
  <2> QED BY <2>2, <2>3
<1>3. ASSUME NEW k \in Jobs, ~jobs'[k].late, NEW u \in Workers,
             worker'[u].pc \in Holding, worker'[u].job = k
      PROVE  /\ worker'[u].attempt = jobs'[k].attempts
             /\ ~jobs'[k].done
             /\ jobs'[k].lockedUntil >= 0
             /\ \A v \in Workers \ {u} : worker'[v].job # k
  <2>1. jobs'[k] = jobs[k] /\ u # w /\ worker'[u] = worker[u]
    BY <1>2, <1>3
  <2>2. NoJob # k
    BY QueueAssumption
  <2> QED BY <1>1, <1>3, <2>1, <2>2 DEF Exclusive
<1> QED BY <1>3 DEF Exclusive

\* Every step keeps delivery exclusive.
LEMMA ExclusiveStep ==
    ClaimInv /\ ClaimInv' /\ Exclusive /\ [QueueNext]_queueVars => Exclusive'
<1> SUFFICES ASSUME ClaimInv, ClaimInv', Exclusive, [QueueNext]_queueVars
             PROVE  Exclusive'
  OBVIOUS
<1>1. ASSUME NEW j \in Jobs, NEW x \in Work, Enqueue(j, x) PROVE Exclusive'
  <2>1. \A v \in Workers : worker'[v] = worker[v] /\ worker[v].job # j
    BY <1>1, FreeSlot DEF Enqueue
  <2>2. \A k \in Jobs \ {j} : jobs'[k] = jobs[k]
    BY <1>1 DEF Enqueue, ClaimInv, TypeOK
  <2> QED BY <2>1, <2>2 DEF Exclusive
<1>2. ASSUME NEW w \in Workers, NEW j \in Jobs, SelectJob(w, j)
      PROVE  Exclusive'
  <2>1. /\ jobs' = jobs
        /\ worker'[w].pc = "tx" /\ worker'[w].job = j
        /\ \A v \in Workers \ {w} : worker'[v] = worker[v]
    BY <1>2 DEF SelectJob, ClaimInv, TypeOK
  <2>2. ~(jobs[j].lockedUntil >= 0)
    <3>1. jobs[j].lockedUntil \in Int
      BY QueueAssumption DEF ClaimInv, TypeOK, Row
    <3> QED BY <1>2, <3>1 DEF SelectJob, Eligible
  <2> QED BY <2>1, <2>2 DEF Exclusive, Holding, Outcomes
<1>3. ASSUME NEW w \in Workers, CommitClaim(w) PROVE Exclusive'
  <2>1. /\ worker'[w].job = worker[w].job
        /\ worker'[w].attempt = worker[w].attempt
        /\ \A v \in Workers \ {w} : worker'[v] = worker[v]
    BY <1>3 DEF CommitClaim, ClaimInv, TypeOK, WorkerState
  <2> QED BY <1>3, <2>1, ExclusiveClaim DEF CommitClaim
<1>4. ASSUME NEW w \in Workers, LoseClaim(w) PROVE Exclusive'
  <2>1. /\ worker'[w].pc = "idle"
        /\ \A v \in Workers \ {w} : worker'[v] = worker[v]
    BY <1>4 DEF LoseClaim, ClaimInv, TypeOK, Idle
  <2> QED BY <1>4, <2>1, ExclusiveClaim DEF LoseClaim
<1>5. ASSUME NEW w \in Workers, AbortClaim(w) \/ FinishFails(w) \/ Crash(w)
      PROVE  Exclusive'
  BY <1>5, ExclusiveLeave DEF AbortClaim, FinishFails, Crash
<1>6. ASSUME NEW w \in Workers, NEW res \in {"ok", "err"},
             HandlerReturns(w, res)
      PROVE  Exclusive'
  <2>1. /\ \A k \in Jobs : /\ jobs'[k].late = jobs[k].late
                           /\ jobs'[k].attempts = jobs[k].attempts
                           /\ jobs'[k].done = jobs[k].done
                           /\ jobs'[k].lockedUntil = jobs[k].lockedUntil
        /\ worker[w].pc \in Holding
        /\ \A v \in Workers : /\ worker'[v].job = worker[v].job
                              /\ worker'[v].attempt = worker[v].attempt
                              /\ v # w => worker'[v] = worker[v]
    BY <1>6 DEF HandlerReturns, ClaimInv, TypeOK, Row, WorkerState, Holding
  <2> QED BY <2>1 DEF Exclusive
<1>7. ASSUME NEW w \in Workers, RecordOutcome(w) PROVE Exclusive'
  <2>1. /\ worker[w].pc \in Holding
        /\ worker' = [worker EXCEPT ![w] = Idle]
        /\ \/ jobs' = [jobs EXCEPT ![worker[w].job] = FinishedRow(@)]
           \/ jobs' = [jobs EXCEPT ![worker[w].job] = FailedRow(@)]
    BY <1>7 DEF RecordOutcome, FinishOk, FinishErr, FinishUnknown, Holding,
                Outcomes
  <2>2. jobs[worker[w].job] \in Row
    BY <2>1 DEF ClaimInv, ClaimsMatchRows, TypeOK
  <2>3. \E row \in Row :
            /\ row.late = jobs[worker[w].job].late
            /\ jobs' = [jobs EXCEPT ![worker[w].job] = row]
    BY <2>1, <2>2, FinishedRowType, FailedRowType
  <2> QED BY <2>1, <2>3, ExclusiveLeave
<1>8. CASE Tick
  <2>1. \A j \in Jobs :
            /\ jobs'[j].attempts = jobs[j].attempts
            /\ jobs'[j].done = jobs[j].done
            /\ ~jobs'[j].late =>
                  /\ ~jobs[j].late
                  /\ Held(j) /\ jobs[j].lockedUntil >= 0
                         => jobs'[j].lockedUntil >= 0
    BY <1>8, AgedRow
  <2>2. \A w \in Workers : /\ worker'[w].pc = worker[w].pc
                           /\ worker'[w].job = worker[w].job
                           /\ worker'[w].attempt = worker[w].attempt
    BY <1>8, AgedWorker
  <2> QED BY <2>1, <2>2 DEF Exclusive, Held
<1>9. CASE UNCHANGED queueVars
  BY <1>9 DEF queueVars, Exclusive
<1> QED
  BY <1>1, <1>2, <1>3, <1>4, <1>5, <1>6, <1>7, <1>8, <1>9
     DEF QueueNext, WorkerStep, RecordOutcome, PollEmpty

\* While nobody outlives a lock, the queue delivers a row to one worker.
THEOREM DeliveryExclusive == QueueSpec => []Exclusive
<1>1. QueueInit => Exclusive
  BY DEF QueueInit, Exclusive, Idle, Holding, Outcomes
<1>2. QueueInit => ClaimInv
  BY ClaimInvInit
<1>3. ClaimInv /\ [QueueNext]_queueVars => ClaimInv'
  BY ClaimInvStep
<1>4. ClaimInv /\ ClaimInv' /\ Exclusive /\ [QueueNext]_queueVars => Exclusive'
  BY ExclusiveStep
<1> QED BY <1>1, <1>2, <1>3, <1>4, PTL DEF QueueSpec

\* completed_at goes back to NULL only by the hand of a late worker.
THEOREM ReopensOnlyIfLate == QueueSpec => ReopenOnlyIfLate
<1> DEFINE A == \A j \in Jobs : jobs[j].done /\ ~jobs'[j].done =>
                    jobs[j].late \/ jobs'[j] = NewRow(jobs'[j].work)
<1>1. ASSUME ClaimInv, Exclusive, [QueueNext]_queueVars PROVE [A]_queueVars
  <2> SUFFICES ASSUME NEW j \in Jobs, jobs[j].done, ~jobs'[j].done
               PROVE  jobs[j].late \/ jobs'[j] = NewRow(jobs'[j].work)
    OBVIOUS
  <2>1. ASSUME NEW k \in Jobs, NEW x \in Work, Enqueue(k, x)
        PROVE  jobs'[j] = NewRow(jobs'[j].work)
    <3>1. j = k /\ jobs'[j] = NewRow(x)
      BY <2>1 DEF Enqueue, ClaimInv, TypeOK
    <3> QED BY <3>1 DEF NewRow
  <2>2. ASSUME NEW w \in Workers, CommitClaim(w) \/ LoseClaim(w) PROVE FALSE
    <3>1. /\ worker[w].pc = "tx"
          /\ jobs' = [jobs EXCEPT ![worker[w].job] =
                          ClaimedRow(@, worker[w].txAt)]
      BY <2>2 DEF CommitClaim, LoseClaim
    <3>2. ~jobs[worker[w].job].done
      BY <1>1, <3>1 DEF ClaimInv, ClaimsMatchRows
    <3> QED BY <1>1, <3>1, <3>2 DEF ClaimInv, TypeOK
  <2>3. ASSUME NEW w \in Workers, NEW res \in {"ok", "err"},
               HandlerReturns(w, res)
        PROVE  FALSE
    <3>1. jobs'[j].done = jobs[j].done
      BY <1>1, <2>3 DEF HandlerReturns, ClaimInv, TypeOK, Row
    <3> QED BY <3>1
  <2>4. ASSUME NEW w \in Workers, RecordOutcome(w) PROVE jobs[j].late
    <3>1. /\ worker[w].pc \in Holding
          /\ \/ jobs' = [jobs EXCEPT ![worker[w].job] = FinishedRow(@)]
             \/ jobs' = [jobs EXCEPT ![worker[w].job] = FailedRow(@)]
      BY <2>4 DEF RecordOutcome, FinishOk, FinishErr, FinishUnknown, Holding,
                  Outcomes
    <3>2. j = worker[w].job
      BY <1>1, <3>1 DEF ClaimInv, TypeOK
    <3> QED BY <1>1, <3>1, <3>2 DEF Exclusive
  <2>5. ASSUME Tick PROVE FALSE
    BY <1>1, <2>5, AgedRow
  <2>6. jobs' # jobs
    OBVIOUS
  <2> QED
    BY <1>1, <2>1, <2>2, <2>3, <2>4, <2>5, <2>6
       DEF QueueNext, WorkerStep, RecordOutcome, PollEmpty, SelectJob,
           AbortClaim, FinishFails, Crash, queueVars
<1>2. QueueInit => ClaimInv /\ Exclusive
  BY ClaimInvInit DEF QueueInit, Exclusive, Idle, Holding, Outcomes
<1>3. ClaimInv /\ [QueueNext]_queueVars => ClaimInv'
  BY ClaimInvStep
<1>4. ClaimInv /\ ClaimInv' /\ Exclusive /\ [QueueNext]_queueVars => Exclusive'
  BY ExclusiveStep
<1> QED BY <1>1, <1>2, <1>3, <1>4, PTL DEF QueueSpec, ReopenOnlyIfLate

-----------------------------------------------------------------------------
(* No job is dropped.                                                      *)

\* An outcome still to be recorded is the one the row's history shows.
OutcomesJustified ==
    \A w \in Workers :
        /\ worker[w].pc = "ok" => jobs[worker[w].job].ran
        /\ worker[w].pc = "unknown" =>
               jobs[worker[w].job].work \notin Registered

\* Every step keeps NoSilentDrop, with OutcomesJustified.
LEMMA NoSilentDropStep ==
    /\ ClaimInv /\ NoSilentDrop /\ OutcomesJustified
    /\ [QueueNext]_queueVars
    => NoSilentDrop' /\ OutcomesJustified'
<1> SUFFICES ASSUME ClaimInv, NoSilentDrop, OutcomesJustified,
                    [QueueNext]_queueVars
             PROVE  NoSilentDrop' /\ OutcomesJustified'
  OBVIOUS
<1>0. \A v \in Workers : worker[v].pc \in Holding => worker[v].job \in Jobs
  BY DEF ClaimInv, ClaimsMatchRows
<1>1. ASSUME NEW j \in Jobs, NEW x \in Work, Enqueue(j, x)
      PROVE  NoSilentDrop' /\ OutcomesJustified'
  <2>1. \A v \in Workers : worker'[v] = worker[v] /\ worker[v].job # j
    BY <1>1, FreeSlot DEF Enqueue
  <2>2. \A k \in Jobs : jobs'[k] = IF k = j THEN NewRow(x) ELSE jobs[k]
    BY <1>1 DEF Enqueue, ClaimInv, TypeOK
  <2>3. ~NewRow(x).done
    BY DEF NewRow
  <2> QED
    BY <1>0, <2>1, <2>2, <2>3
       DEF NoSilentDrop, OutcomesJustified, Holding, Outcomes
<1>2. ASSUME NEW w \in Workers, CommitClaim(w) \/ LoseClaim(w)
      PROVE  NoSilentDrop' /\ OutcomesJustified'
  <2> DEFINE j == worker[w].job
  <2>1. /\ worker[w].pc = "tx"
        /\ jobs' = [jobs EXCEPT ![j] = ClaimedRow(@, worker[w].txAt)]
    BY <1>2 DEF CommitClaim, LoseClaim
  <2>2. /\ j \in Jobs
        /\ jobs'[j].work = jobs[j].work
        /\ jobs'[j].ran = jobs[j].ran
        /\ jobs'[j].done = jobs[j].done
        /\ ~jobs[j].done
        /\ \A k \in Jobs \ {j} : jobs'[k] = jobs[k]
    BY <2>1, OpenClaim, ClaimedRowType DEF ClaimInv, ClaimsMatchRows, TypeOK
  <2>3. /\ \A v \in Workers \ {w} : worker'[v] = worker[v]
        /\ \/ worker'[w].pc \in {"idle", "run"}
           \/ /\ worker'[w].pc = "unknown"
              /\ worker'[w].job = j
              /\ jobs[j].work \notin Registered
    BY <1>2 DEF CommitClaim, LoseClaim, ClaimInv, TypeOK, WorkerState, Idle
  <2> HIDE DEF j
  <2>4. NoSilentDrop'
    BY <2>2 DEF NoSilentDrop
  <2>5. OutcomesJustified'
    BY <1>0, <2>2, <2>3 DEF OutcomesJustified, Holding, Outcomes
  <2> QED BY <2>4, <2>5
<1>3. ASSUME NEW w \in Workers,
             \/ \E j \in Jobs : SelectJob(w, j)
             \/ AbortClaim(w) \/ FinishFails(w) \/ Crash(w)
      PROVE  NoSilentDrop' /\ OutcomesJustified'
  <2>1. /\ jobs' = jobs
        /\ worker'[w].pc \in {"idle", "tx"}
        /\ \A v \in Workers \ {w} : worker'[v] = worker[v]
    BY <1>3 DEF SelectJob, AbortClaim, FinishFails, Crash, ClaimInv, TypeOK,
                Idle
  <2> QED BY <2>1 DEF NoSilentDrop, OutcomesJustified
<1>4. ASSUME NEW w \in Workers, NEW res \in {"ok", "err"},
             HandlerReturns(w, res)
      PROVE  NoSilentDrop' /\ OutcomesJustified'
  <2> DEFINE j == worker[w].job
             b == jobs[j].ran \/ (res = "ok")
  <2>1. worker[w].pc = "run" /\ j \in Jobs
    BY <1>0, <1>4 DEF HandlerReturns, Holding
  <2>2. /\ jobs'[j].work = jobs[j].work
        /\ jobs'[j].done = jobs[j].done
        /\ jobs'[j].attempts = jobs[j].attempts
        /\ jobs'[j].ran = b
        /\ \A k \in Jobs \ {j} : jobs'[k] = jobs[k]
        /\ worker'[w].pc = res
        /\ worker'[w].job = j
        /\ \A v \in Workers \ {w} : worker'[v] = worker[v]
    <3>1. jobs' = [jobs EXCEPT ![j].ran = b]
      BY <1>4, Zenon DEF HandlerReturns
    <3> HIDE DEF b
    <3> QED
      BY <1>4, <2>1, <3>1 DEF HandlerReturns, ClaimInv, TypeOK, Row, WorkerState
  <2> HIDE DEF j
  <2>3. NoSilentDrop'
    BY <2>1, <2>2 DEF NoSilentDrop
  <2>4. /\ jobs[j].ran => jobs'[j].ran
        /\ res = "ok" => jobs'[j].ran
    BY <2>2
  <2> HIDE DEF b
  <2>5. ASSUME NEW v \in Workers, v # w
        PROVE  /\ worker'[v].pc = "ok" => jobs'[worker'[v].job].ran
               /\ worker'[v].pc = "unknown" =>
                      jobs'[worker'[v].job].work \notin Registered
    BY <1>0, <2>1, <2>2, <2>4, <2>5 DEF OutcomesJustified, Holding, Outcomes
  <2>6. OutcomesJustified'
    BY <2>2, <2>4, <2>5 DEF OutcomesJustified
  <2> QED BY <2>3, <2>6
<1>5. ASSUME NEW w \in Workers, RecordOutcome(w)
      PROVE  NoSilentDrop' /\ OutcomesJustified'
  <2> DEFINE j == worker[w].job
  <2>1. /\ worker[w].pc \in Outcomes
        /\ worker' = [worker EXCEPT ![w] = Idle]
        /\ \/ /\ worker[w].pc \in {"ok", "unknown"}
              /\ jobs' = [jobs EXCEPT ![j] = FinishedRow(@)]
           \/ jobs' = [jobs EXCEPT ![j] = FailedRow(@)]
    BY <1>5 DEF RecordOutcome, FinishOk, FinishErr, FinishUnknown, Outcomes
  <2>2. /\ j \in Jobs
        /\ jobs[j] \in Row
        /\ \A k \in Jobs \ {j} : jobs'[k] = jobs[k]
    BY <1>0, <2>1 DEF ClaimInv, TypeOK, Holding
  <2>3. /\ jobs'[j].work = jobs[j].work
        /\ jobs'[j].ran = jobs[j].ran
        /\ jobs'[j].attempts = jobs[j].attempts
        /\ \/ worker[w].pc \in {"ok", "unknown"}
           \/ jobs'[j].done => jobs'[j].attempts = MaxAttempts
    BY <2>1, <2>2, FinishedRowType, FailedRowType DEF ClaimInv, TypeOK
  <2>4. /\ worker'[w].pc = "idle"
        /\ \A v \in Workers \ {w} : worker'[v] = worker[v]
    BY <2>1 DEF ClaimInv, TypeOK, Idle
  <2>5. NoSilentDrop'
    BY <2>2, <2>3 DEF NoSilentDrop, OutcomesJustified
  <2> HIDE DEF j
  <2>6. OutcomesJustified'
    BY <1>0, <2>2, <2>3, <2>4 DEF OutcomesJustified, Holding, Outcomes
  <2> QED BY <2>5, <2>6
<1>6. CASE Tick
  <2>1. \A j \in Jobs : /\ jobs'[j].work = jobs[j].work
                        /\ jobs'[j].attempts = jobs[j].attempts
                        /\ jobs'[j].done = jobs[j].done
                        /\ jobs'[j].ran = jobs[j].ran
    BY <1>6, AgedRow
  <2>2. \A w \in Workers : /\ worker'[w].pc = worker[w].pc
                           /\ worker'[w].job = worker[w].job
    BY <1>6, AgedWorker
  <2> QED BY <1>0, <2>1, <2>2
             DEF NoSilentDrop, OutcomesJustified, Holding, Outcomes
<1>7. CASE UNCHANGED queueVars
  BY <1>7 DEF queueVars, NoSilentDrop, OutcomesJustified
<1> QED
  BY <1>1, <1>2, <1>3, <1>4, <1>5, <1>6, <1>7
     DEF QueueNext, WorkerStep, RecordOutcome, PollEmpty

\* A job is completed only for a reason: a handler that returned nil, the
\* last attempt, or a type nobody handles.
THEOREM NothingDropped == QueueSpec => []NoSilentDrop
<1>1. QueueInit => NoSilentDrop /\ OutcomesJustified
  BY QueueAssumption
     DEF QueueInit, NoSilentDrop, OutcomesJustified, NoRow, Idle
<1>2. QueueInit => ClaimInv
  BY ClaimInvInit
<1>3. ClaimInv /\ [QueueNext]_queueVars => ClaimInv'
  BY ClaimInvStep
<1>4. /\ ClaimInv /\ NoSilentDrop /\ OutcomesJustified
      /\ [QueueNext]_queueVars
      => NoSilentDrop' /\ OutcomesJustified'
  BY NoSilentDropStep
<1> QED BY <1>1, <1>2, <1>3, <1>4, PTL DEF QueueSpec
=============================================================================

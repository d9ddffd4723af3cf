------------------------- MODULE AppLifecycleProofs -------------------------
(***************************************************************************)
(* Starting and stopping processes, for any number of servers, workers,    *)
(* requests and jobs.                                                      *)
(*                                                                         *)
(* To the table a process that stops is one whose statements fail or which *)
(* crashes: every step is one of the queue's with the faults "queue" and   *)
(* "crash" (ImplementsQueue).  The argument needs AppInv: what ClaimInv    *)
(* and Exclusive say of the queue, that a worker which is idle remembers   *)
(* nothing, that a request can outlive Echo.Shutdown only by the timeout,  *)
(* and that work which is done is recorded, about to be, or lost.          *)
(***************************************************************************)
EXTENDS AppLifecycle, JobQueueProofs

\* Nothing is left of a job that is over.
IdleIsIdle == \A w \in Workers : worker[w].pc = "idle" => worker[w] = Idle

\* Only servers have requests, a process that is down has none, and those
\* that are left when Echo.Shutdown returns are there because it timed out.
RequestsEnd ==
    \A p \in Workers :
        /\ p \notin Servers \/ app[p].phase = "down" => app[p].open = 0
        /\ app[p].phase \in {"closing", "closed"} /\ app[p].open > 0 =>
               app[p].expired

\* Work that is done is completed in the table, or somebody is about to record
\* it, or it is known why not.
WorkAccounted ==
    /\ lost \subseteq Jobs
    /\ \A j \in Jobs : jobs[j].ran =>
           \/ jobs[j].late
           \/ j \in lost
           \/ jobs[j].done
           \/ \E w \in Workers : worker[w].pc = "ok" /\ worker[w].job = j

AppInv ==
    /\ ClaimInv /\ AppTypeOK /\ IdleIsIdle /\ RequestsEnd /\ CutOnlyIfTimedOut
    /\ Exclusive /\ WorkAccounted

-----------------------------------------------------------------------------
(* What the queue sees.                                                    *)

\* The process lets go of its job, by exit, crash or a failing statement.
Leaves(p) == worker' = [worker EXCEPT ![p] = Idle] /\ jobs' = jobs

\* Worker w goes on with its job and records what comes of it.
Progresses(w) ==
    \/ \E j \in Jobs : SelectJob(w, j)
    \/ CommitClaim(w) \/ LoseClaim(w)
    \/ \E res \in {"ok", "err"} : HandlerReturns(w, res)
    \/ RecordOutcome(w)

\* A step inserts a row, lets go of a job, goes on with one, or does nothing to
\* the queue; only the first two change what is lost.
LEMMA AppStepKinds ==
    ASSUME [AppNext]_appVars
    PROVE  \/ \E j \in Jobs, x \in Work : Enqueue(j, x) /\ lost' = lost \ {j}
           \/ \E p \in Workers : Leaves(p) /\ Forgets(p)
           \/ /\ lost' = lost
              /\ (\E w \in Workers : Progresses(w)) \/ Tick \/ UNCHANGED queueVars
<1>1. ASSUME NEW p \in Workers, Process(p)
      PROVE  \/ \E j \in Jobs, x \in Work : Enqueue(j, x) /\ lost' = lost \ {j}
             \/ Leaves(p) /\ Forgets(p)
             \/ lost' = lost /\ (Progresses(p) \/ UNCHANGED queueVars)
  <2>1. CASE \/ Start(p) \/ Signal(p) \/ CloseListener(p) \/ Expire(p)
             \/ EchoShutdown(p) \/ CloseDB(p) \/ Accept(p) \/ RequestEnds(p)
    BY <2>1 DEF Start, Signal, CloseListener, Expire, EchoShutdown, CloseDB, Accept,
                RequestEnds
  <2>2. CASE Exit(p) \/ Die(p)
    BY <2>2 DEF Exit, Die, Leaves
  <2>3. ASSUME NEW j \in Jobs, NEW x \in Work,
               RequestEnqueues(p, j, x) \/ Reconcile(p, j, x)
        PROVE  Enqueue(j, x) /\ lost' = lost \ {j}
    BY <2>3 DEF RequestEnqueues, Reconcile
  <2>4. CASE RunOpen(p)
    <3>1. CASE AbortClaim(p) /\ UNCHANGED lost
      BY <3>1 DEF AbortClaim, Leaves, Forgets
    <3>2. CASE FinishFails(p) /\ Forgets(p)
      BY <3>2 DEF FinishFails, Leaves
    <3> QED BY <2>4, <3>1, <3>2 DEF RunOpen, Progresses
  <2>5. CASE RunHandler(p)
    BY <2>5 DEF RunHandler, Progresses
  <2>6. CASE StopClaim(p)
    BY <2>6 DEF StopClaim, Progresses, Leaves, Forgets
  <2>7. CASE StopRecord(p)
    BY <2>7 DEF StopRecord, Progresses, Leaves
  <2> QED
    BY <1>1, <2>1, <2>2, <2>3, <2>4, <2>5, <2>6, <2>7, Zenon DEF Process
<1>2. CASE TimePasses
  BY <1>2 DEF TimePasses
<1>3. CASE UNCHANGED appVars
  BY <1>3 DEF appVars, queueVars
<1> QED BY <1>1, <1>2, <1>3 DEF AppNext

\* A step is one of the queue, or some process lets go of its job.
LEMMA AppQueueStep ==
    ASSUME [AppNext]_appVars
    PROVE  [QueueNext]_queueVars \/ \E p \in Workers : Leaves(p)
<1>1. ASSUME NEW w \in Workers, Progresses(w) PROVE QueueNext
  BY <1>1 DEF Progresses, QueueNext, WorkerStep, RecordOutcome
<1> QED BY <1>1, AppStepKinds DEF QueueNext

LEMMA AppClaimInv ==
    ASSUME ClaimInv, [AppNext]_appVars
    PROVE  ClaimInv'
BY AppQueueStep, ClaimInvStep, LetGo DEF Leaves

LEMMA AppExclusive ==
    ASSUME ClaimInv, Exclusive, [AppNext]_appVars
    PROVE  Exclusive'
BY AppQueueStep, AppClaimInv, ExclusiveStep, ExclusiveLeave DEF Leaves

\* Time does nothing to a worker that holds no job.
LEMMA TickIdle ==
    ASSUME TypeOK, Tick, NEW v \in Workers, worker[v] = Idle
    PROVE  worker'[v] = Idle
<1>1. worker[v] \in WorkerState /\ worker[v].pc # "tx" /\ worker[v].deadline = 0
  BY DEF TypeOK, Idle
<1>2. worker'[v] = [worker[v] EXCEPT !.txAt = worker[v].txAt,
                                     !.deadline = Older(worker[v].deadline, 0)]
  BY <1>1 DEF Tick
<1>3. Older(worker[v].deadline, 0) = worker[v].deadline
  BY <1>1 DEF Older
<1>4. worker'[v] = worker[v]
  BY <1>1, <1>2, <1>3 DEF WorkerState
<1> QED BY <1>4

\* An idle worker stays as it is, unless it selects a job.
LEMMA IdleIsIdleStep ==
    ASSUME ClaimInv, IdleIsIdle, [AppNext]_appVars
    PROVE  IdleIsIdle'
<1> SUFFICES ASSUME NEW v \in Workers, worker'[v].pc = "idle"
             PROVE  worker'[v] = Idle
  BY DEF IdleIsIdle
<1>0. worker \in [Workers -> WorkerState] /\ (worker[v].pc = "idle" => worker[v] = Idle)
  BY DEF ClaimInv, TypeOK, IdleIsIdle
<1>1. ASSUME NEW p \in Workers, Leaves(p) PROVE worker'[v] = Idle
  BY <1>0, <1>1 DEF Leaves
<1>2. ASSUME NEW w \in Workers, WorkerStep(w) PROVE worker'[v] = Idle
  <2>1. CASE v # w
    BY <1>0, <1>2, <2>1
       DEF WorkerStep, PollEmpty, SelectJob, CommitClaim, AbortClaim, LoseClaim,
           HandlerReturns, FinishOk, FinishErr, FinishUnknown, FinishFails,
           Crash, queueVars
  <2>2. CASE v = w
    <3>1. \/ worker' = [worker EXCEPT ![w] = Idle]
          \/ worker' = worker
          \/ worker'[w].pc # "idle"
      BY <1>0, <1>2
         DEF WorkerStep, PollEmpty, SelectJob, CommitClaim, AbortClaim,
             LoseClaim, HandlerReturns, FinishOk, FinishErr, FinishUnknown,
             FinishFails, Crash, queueVars, WorkerState
    <3> QED BY <1>0, <2>2, <3>1
  <2> QED BY <2>1, <2>2
<1>3. CASE Tick
  <2>1. worker'[v].pc = worker[v].pc
    BY <1>0, <1>3 DEF Tick, WorkerState
  <2> QED BY <1>0, <1>3, <2>1, TickIdle DEF ClaimInv
<1>4. CASE worker' = worker
  BY <1>0, <1>4
<1> QED
  BY <1>1, <1>2, <1>3, <1>4, AppQueueStep DEF QueueNext, Enqueue, queueVars
-----------------------------------------------------------------------------
(* The state of one process.                                               *)

\* What AppInv says of the state a of process p.
Sound(p, a) ==
    /\ a \in AppState
    /\ p \notin Servers \/ a.phase = "down" => a.open = 0
    /\ a.phase \in {"closing", "closed"} /\ a.open > 0 => a.expired
    /\ a.cut => a.expired

AllSound == app \in [Workers -> AppState] /\ \A p \in Workers : Sound(p, app[p])

LEMMA SoundIs ==
    AllSound <=> app \in [Workers -> AppState] /\ RequestsEnd /\ CutOnlyIfTimedOut
BY Zenon DEF AllSound, Sound, RequestsEnd, CutOnlyIfTimedOut

\* Every action of a process leaves it in such a state, the others as they are.
LEMMA ProcessSound ==
    ASSUME AllSound, NEW p \in Workers, Process(p)
    PROVE  \E a : Sound(p, a) /\ app' = [app EXCEPT ![p] = a]
<1>0. /\ Sound(p, app[p])
      /\ app \in [Workers -> AppState]
      /\ app[p] \in AppState
      /\ app[p].open \in Nat
      /\ MaxOpen \in Nat
  BY AppAssumption DEF AllSound, AppState
<1>1. CASE Start(p) \/ Die(p)
  <2>1. \/ app' = [app EXCEPT ![p] = Down]
        \/ app' = [app EXCEPT ![p] = [Down EXCEPT !.phase = "up"]]
    BY <1>1, Zenon DEF Start, Die
  <2>2. Down \in AppState /\ Down.open = 0 /\ ~Down.cut /\ Down.phase = "down"
    BY <1>0 DEF Down, AppState
  <2>3. Sound(p, Down)
    BY <2>2 DEF Sound
  <2>4. Sound(p, [Down EXCEPT !.phase = "up"])
    BY <2>2 DEF Sound, AppState
  <2> QED BY <2>1, <2>3, <2>4
<1>2. CASE Signal(p)
  <2>1. app' = [app EXCEPT ![p] = [app[p] EXCEPT !.phase = "cancelled"]]
    BY <1>2 DEF Signal
  <2>2. Sound(p, [app[p] EXCEPT !.phase = "cancelled"])
    BY <1>0, <1>2 DEF Sound, AppState, Signal
  <2> QED BY <2>1, <2>2
<1>11. CASE CloseListener(p)
  <2>1. app' = [app EXCEPT ![p] = [app[p] EXCEPT !.phase = "draining"]]
    BY <1>11 DEF CloseListener
  <2>2. Sound(p, [app[p] EXCEPT !.phase = "draining"])
    BY <1>0, <1>11 DEF Sound, AppState, CloseListener
  <2> QED BY <2>1, <2>2
<1>3. CASE Expire(p)
  <2>1. app' = [app EXCEPT ![p] = [app[p] EXCEPT !.expired = TRUE]]
    BY <1>3 DEF Expire
  <2>2. Sound(p, [app[p] EXCEPT !.expired = TRUE])
    BY <1>0, <1>3 DEF Sound, AppState, Expire
  <2> QED BY <2>1, <2>2
<1>4. CASE EchoShutdown(p)
  <2>1. app' = [app EXCEPT ![p] = [app[p] EXCEPT !.phase = "closing"]]
    BY <1>4 DEF EchoShutdown
  <2>2. Sound(p, [app[p] EXCEPT !.phase = "closing"])
    BY <1>0, <1>4 DEF Sound, AppState, EchoShutdown
  <2> QED BY <2>1, <2>2
<1>5. CASE CloseDB(p)
  <2>1. app' = [app EXCEPT ![p] = [app[p] EXCEPT !.phase = "closed"]]
    BY <1>5 DEF CloseDB
  <2>2. Sound(p, [app[p] EXCEPT !.phase = "closed"])
    BY <1>0, <1>5 DEF Sound, AppState, CloseDB
  <2> QED BY <2>1, <2>2
<1>6. CASE Exit(p)
  <2> DEFINE c == app[p].cut \/ app[p].open > 0
             a == [Down EXCEPT !.cut = c, !.expired = app[p].expired]
  <2>1. app' = [app EXCEPT ![p] = a]
    BY <1>6, Zenon DEF Exit
  <2>2. c \in BOOLEAN /\ (c => app[p].expired) /\ app[p].expired \in BOOLEAN
    BY <1>0, <1>6 DEF Exit, Sound, AppState
  <2> HIDE DEF c
  <2>3. Down \in AppState /\ Down.open = 0 /\ Down.phase = "down"
    BY <1>0 DEF Down, AppState
  <2>4. a \in AppState /\ a.phase = "down" /\ a.open = 0
        /\ a.expired = app[p].expired /\ a.cut = c
    BY <1>0, <2>2, <2>3 DEF AppState
  <2> HIDE DEF a
  <2>5. Sound(p, a)
    BY <2>2, <2>4 DEF Sound
  <2> QED BY <2>1, <2>5
<1>7. CASE Accept(p)
  <2>1. app' = [app EXCEPT ![p] = [app[p] EXCEPT !.open = app[p].open + 1]]
    BY <1>7 DEF Accept
  <2>2. Sound(p, [app[p] EXCEPT !.open = app[p].open + 1])
    BY <1>0, <1>7 DEF Sound, AppState, Accept
  <2> QED BY <2>1, <2>2
<1>8. ASSUME NEW j \in Jobs, NEW x \in Work, RequestEnqueues(p, j, x)
      PROVE  \E a : Sound(p, a) /\ app' = [app EXCEPT ![p] = a]
  <2>1. app' = [app EXCEPT ![p] = [app[p] EXCEPT !.open = app[p].open - 1]]
    BY <1>8 DEF RequestEnqueues
  <2>2. Sound(p, [app[p] EXCEPT !.open = app[p].open - 1])
    BY <1>0, <1>8 DEF Sound, AppState, RequestEnqueues
  <2> QED BY <2>1, <2>2
<1>9. CASE RequestEnds(p)
  <2> DEFINE c == app[p].cut \/ ~DBOpen(p)
             a == [app[p] EXCEPT !.open = app[p].open - 1, !.cut = c]
  <2>0. app' = [app EXCEPT ![p].open = app[p].open - 1, ![p].cut = c]
    BY <1>0, <1>9 DEF RequestEnds
  <2>1. app' = [app EXCEPT ![p] = a]
    BY <1>0, <2>0 DEF AppState
  <2>2. c \in BOOLEAN /\ (c => app[p].expired)
    BY <1>0, <1>9 DEF RequestEnds, DBOpen, Sound, AppState
  <2>3. app[p].open - 1 \in 0..MaxOpen
    BY <1>0, <1>9 DEF RequestEnds, AppState
  <2> HIDE DEF c
  <2>4. a \in AppState /\ a.open = app[p].open - 1 /\ a.phase = app[p].phase
        /\ a.expired = app[p].expired /\ a.cut = c
    BY <1>0, <2>2, <2>3 DEF AppState
  <2>5. p \in Servers /\ app[p].phase # "down"
    BY <1>0, <1>9 DEF Sound, RequestEnds
  <2>6. a.phase \in {"closing", "closed"} => a.expired
    BY <1>0, <1>9, <2>4 DEF Sound, RequestEnds
  <2> HIDE DEF a
  <2>7. Sound(p, a)
    BY <2>2, <2>4, <2>5, <2>6 DEF Sound
  <2> QED BY <2>1, <2>7
<1>10. CASE app' = app
  BY <1>0, <1>10
<1> QED
  BY <1>1, <1>2, <1>3, <1>4, <1>5, <1>6, <1>7, <1>8, <1>9, <1>10, <1>11
     DEF Process, Reconcile, RunOpen, RunHandler, StopClaim, StopRecord

LEMMA AllSoundStep ==
    ASSUME AllSound, [AppNext]_appVars
    PROVE  AllSound'
<1>1. ASSUME NEW p \in Workers, NEW a, Sound(p, a), app' = [app EXCEPT ![p] = a]
      PROVE  AllSound'
  BY <1>1 DEF AllSound, Sound
<1>2. CASE app' = app
  BY <1>2 DEF AllSound
<1> QED BY <1>1, <1>2, ProcessSound DEF AppNext, TimePasses, appVars

\* Only a process that is up and runs the queue takes a job.
NoStrayClaims ==
    \A p \in Workers : app[p].phase = "down" \/ ~Runs(p) => worker[p] = Idle

LEMMA NoStrayClaimsStep ==
    ASSUME ClaimInv, AllSound, NoStrayClaims, [AppNext]_appVars
    PROVE  NoStrayClaims'
<1> SUFFICES ASSUME NEW v \in Workers, app'[v].phase = "down" \/ ~Runs(v)
             PROVE  worker'[v] = Idle
  BY DEF NoStrayClaims, Runs
<1>0. /\ worker \in [Workers -> WorkerState]
      /\ app \in [Workers -> AppState]
      /\ app[v].phase = "down" \/ ~Runs(v) => worker[v] = Idle
      /\ TypeOK
  BY DEF ClaimInv, TypeOK, AllSound, NoStrayClaims
<1>1. ASSUME NEW p \in Workers, Process(p) PROVE worker'[v] = Idle
  <2>1. CASE \/ Signal(p) \/ CloseListener(p) \/ Expire(p) \/ EchoShutdown(p)
             \/ CloseDB(p) \/ Accept(p) \/ RequestEnds(p) \/ Start(p)
    <3>1. worker' = worker
      BY <2>1 DEF Signal, CloseListener, Expire, EchoShutdown, CloseDB, Accept,
                  RequestEnds, Start, queueVars
    <3>2. app'[v].phase = "down" => app[v].phase = "down"
      BY <1>0, <2>1 DEF Signal, CloseListener, Expire, EchoShutdown, CloseDB,
                        Accept, RequestEnds, Start, Down, AppState
    <3> QED BY <1>0, <3>1, <3>2
  <2>2. CASE Exit(p) \/ Die(p)
    <3>1. v # p => app'[v] = app[v] /\ worker'[v] = worker[v]
      BY <1>0, <2>2 DEF Exit, Die
    <3>2. worker'[p] = Idle
      BY <1>0, <2>2 DEF Exit, Die
    <3> QED BY <1>0, <3>1, <3>2
  <2>3. ASSUME NEW j \in Jobs, NEW x \in Work,
               RequestEnqueues(p, j, x) \/ Reconcile(p, j, x)
        PROVE  worker'[v] = Idle
    <3>1. worker' = worker /\ app'[v].phase = app[v].phase
      BY <1>0, <2>3 DEF RequestEnqueues, Reconcile, Enqueue, AppState
    <3> QED BY <1>0, <3>1
  <2>4. CASE RunOpen(p) \/ RunHandler(p) \/ StopClaim(p) \/ StopRecord(p)
    <3>1. app' = app
      BY <2>4 DEF RunOpen, RunHandler, StopClaim, StopRecord
    <3>2. worker[v] = Idle /\ worker[v].pc = "idle"
      BY <1>0, <3>1 DEF Idle
    <3>3. v # p
      BY <2>4, <1>0, <3>1, <3>2
         DEF RunOpen, RunHandler, StopClaim, StopRecord, CtxOpen, CommitClaim,
             HandlerReturns, RecordOutcome, FinishOk, FinishErr, FinishUnknown,
             Outcomes, Runs
    <3>4. worker'[v] = worker[v]
      BY <2>4, <3>3, <1>0
         DEF RunOpen, RunHandler, StopClaim, StopRecord, SelectJob, CommitClaim,
             AbortClaim, LoseClaim, HandlerReturns, RecordOutcome, FinishOk,
             FinishErr, FinishUnknown, FinishFails
    <3> QED BY <3>2, <3>4
  <2> QED BY <1>1, <2>1, <2>2, <2>3, <2>4 DEF Process
<1>2. CASE TimePasses
  BY <1>0, <1>2, TickIdle DEF TimePasses
<1>3. CASE UNCHANGED appVars
  BY <1>0, <1>3 DEF appVars
<1> QED BY <1>1, <1>2, <1>3 DEF AppNext

-----------------------------------------------------------------------------
(* What becomes of work that is done.                                      *)

LEMMA WorkAccountedStep ==
    ASSUME ClaimInv, Exclusive, WorkAccounted, [AppNext]_appVars
    PROVE  WorkAccounted'
<1>0. /\ jobs \in [Jobs -> Row]
      /\ worker \in [Workers -> WorkerState]
      /\ \A v \in Workers : worker[v].pc \in Holding \cup {"tx"} => worker[v].job \in Jobs
  BY DEF ClaimInv, TypeOK, ClaimsMatchRows
<1>1. ASSUME NEW j \in Jobs, NEW x \in Work, Enqueue(j, x), lost' = lost \ {j}
      PROVE  WorkAccounted'
  <2>1. worker' = worker /\ \A k \in Jobs \ {j} : jobs'[k] = jobs[k]
    BY <1>0, <1>1 DEF Enqueue
  <2>2. ~jobs'[j].ran
    BY <1>0, <1>1 DEF Enqueue, NewRow
  <2> QED BY <1>1, <2>1, <2>2 DEF WorkAccounted
<1>2. ASSUME NEW p \in Workers, Leaves(p), Forgets(p)
      PROVE  WorkAccounted'
  <2>1. /\ jobs' = jobs
        /\ \A v \in Workers \ {p} : worker'[v] = worker[v]
    BY <1>0, <1>2 DEF Leaves
  <2>2. CASE worker[p].pc = "ok"
    <3>1. lost' = lost \cup {worker[p].job} /\ worker[p].job \in Jobs
      BY <1>0, <1>2, <2>2 DEF Forgets, Holding, Outcomes
    <3> QED BY <2>1, <3>1 DEF WorkAccounted
  <2>3. CASE worker[p].pc # "ok"
    <3>1. lost' = lost
      BY <1>2, <2>3 DEF Forgets
    <3> QED BY <2>1, <2>3, <3>1 DEF WorkAccounted
  <2> QED BY <2>2, <2>3
<1>3. ASSUME NEW w \in Workers, Progresses(w), lost' = lost
      PROVE  WorkAccounted'
  <2>1. ASSUME NEW j \in Jobs, SelectJob(w, j) PROVE WorkAccounted'
    <3>1. /\ jobs' = jobs /\ worker[w].pc = "idle"
          /\ \A v \in Workers \ {w} : worker'[v] = worker[v]
      BY <1>0, <2>1 DEF SelectJob
    <3> QED BY <1>3, <3>1 DEF WorkAccounted
  <2>2. CASE CommitClaim(w) \/ LoseClaim(w)
    <3> DEFINE j == worker[w].job
    <3>1. /\ worker[w].pc = "tx" /\ j \in Jobs
          /\ jobs' = [jobs EXCEPT ![j] = ClaimedRow(@, worker[w].txAt)]
      BY <1>0, <2>2 DEF CommitClaim, LoseClaim
    <3>2. /\ jobs'[j].ran = jobs[j].ran
          /\ jobs'[j].done = jobs[j].done
          /\ ~jobs'[j].late => ~jobs[j].late
          /\ \A k \in Jobs \ {j} : jobs'[k] = jobs[k]
      BY <1>0, <3>1, OpenClaim, ClaimedRowType
    <3>3. \A v \in Workers \ {w} : worker'[v] = worker[v]
      BY <1>0, <2>2 DEF CommitClaim, LoseClaim
    <3> HIDE DEF j
    <3> QED BY <1>3, <3>1, <3>2, <3>3 DEF WorkAccounted
  <2>3. ASSUME NEW res \in {"ok", "err"}, HandlerReturns(w, res)
        PROVE  WorkAccounted'
    <3> DEFINE j == worker[w].job
               b == jobs[j].ran \/ (res = "ok")
    <3>1. worker[w].pc = "run" /\ j \in Jobs
      BY <1>0, <2>3 DEF HandlerReturns, Holding
    <3>2. /\ jobs'[j].late = jobs[j].late
          /\ jobs'[j].done = jobs[j].done
          /\ jobs'[j].ran = b
          /\ \A k \in Jobs \ {j} : jobs'[k] = jobs[k]
          /\ worker'[w].pc = res
          /\ worker'[w].job = j
          /\ \A v \in Workers \ {w} : worker'[v] = worker[v]
      <4>1. jobs' = [jobs EXCEPT ![j].ran = b]
        BY <2>3, Zenon DEF HandlerReturns
      <4> HIDE DEF b
      <4> QED BY <1>0, <2>3, <3>1, <4>1 DEF HandlerReturns, Row, WorkerState
    <3>3. jobs'[j].ran => jobs[j].ran \/ res = "ok"
      BY <3>2
    <3> HIDE DEF j, b
    <3> QED BY <1>3, <3>1, <3>2, <3>3 DEF WorkAccounted
  <2>4. CASE RecordOutcome(w)
    <3> DEFINE j == worker[w].job
    <3>1. /\ worker[w].pc \in Holding /\ j \in Jobs /\ jobs[j] \in Row
          /\ worker' = [worker EXCEPT ![w] = Idle]
          /\ \/ jobs' = [jobs EXCEPT ![j] = FinishedRow(@)]
             \/ worker[w].pc = "err" /\ jobs' = [jobs EXCEPT ![j] = FailedRow(@)]
      BY <1>0, <2>4 DEF RecordOutcome, FinishOk, FinishErr, FinishUnknown, Holding,
                        Outcomes
    <3>2. /\ \A k \in Jobs \ {j} : jobs'[k] = jobs[k]
          /\ \A v \in Workers \ {w} : worker'[v] = worker[v]
      BY <1>0, <3>1
    <3>3. jobs'[j].ran = jobs[j].ran /\ jobs'[j].late = jobs[j].late
      BY <1>0, <3>1 DEF FinishedRow, FailedRow, Row
    <3>4. CASE jobs' = [jobs EXCEPT ![j] = FinishedRow(@)]
      <4>1. jobs'[j].done
        BY <1>0, <3>1, <3>4 DEF FinishedRow, Row
      <4> HIDE DEF j
      <4>2. \A k \in Jobs \ {j}, v \in Workers :
                worker[v].pc = "ok" /\ worker[v].job = k => v # w
        BY DEF j
      <4> QED BY <1>3, <3>2, <4>1, <4>2 DEF WorkAccounted
    <3>5. CASE worker[w].pc = "err" /\ jobs' = [jobs EXCEPT ![j] = FailedRow(@)]
      <4>1. jobs[j].late \/ (~jobs[j].done /\ \A v \in Workers \ {w} : worker[v].job # j)
        BY <3>1 DEF Exclusive
      <4>2. jobs'[j].ran => jobs'[j].late \/ j \in lost
        BY <3>1, <3>3, <3>5, <4>1 DEF WorkAccounted
      <4> HIDE DEF j
      <4> QED BY <1>3, <3>2, <3>5, <4>2 DEF WorkAccounted
    <3> QED BY <3>1, <3>4, <3>5
  <2> QED BY <1>3, <2>1, <2>2, <2>3, <2>4 DEF Progresses
<1>4. ASSUME Tick, lost' = lost PROVE WorkAccounted'
  <2>1. \A j \in Jobs : /\ jobs'[j].ran = jobs[j].ran
                        /\ jobs'[j].done = jobs[j].done
                        /\ ~jobs'[j].late => ~jobs[j].late
    BY <1>4, AgedRow
  <2>2. \A w \in Workers : /\ worker'[w].pc = worker[w].pc
                           /\ worker'[w].job = worker[w].job
    BY <1>4, AgedWorker
  <2> QED BY <1>4, <2>1, <2>2 DEF WorkAccounted
<1>5. ASSUME UNCHANGED queueVars, lost' = lost PROVE WorkAccounted'
  BY <1>5 DEF queueVars, WorkAccounted
<1> QED BY <1>1, <1>2, <1>3, <1>4, <1>5, AppStepKinds

LEMMA AppInvParts ==
    AppInv <=> /\ ClaimInv /\ AllSound /\ IdleIsIdle /\ NoStrayClaims
               /\ Exclusive /\ WorkAccounted
BY SoundIs DEF AppInv, AppTypeOK, ClaimInv, NoStrayClaims, WorkAccounted

LEMMA AppInvInit == AppInit => AppInv
<1> SUFFICES ASSUME AppInit
             PROVE  /\ ClaimInv /\ AllSound /\ IdleIsIdle /\ NoStrayClaims
                    /\ Exclusive /\ WorkAccounted
  BY AppInvParts
<1>1. ClaimInv
  BY ClaimInvInit DEF AppInit
<1>2. AllSound
  <2>1. Down \in AppState /\ Down.open = 0 /\ ~Down.cut /\ Down.phase = "down"
    BY AppAssumption DEF Down, AppState
  <2>2. \A p \in Workers : Sound(p, Down)
    BY <2>1 DEF Sound
  <2> QED BY <2>1, <2>2 DEF AllSound, AppInit
<1>3. IdleIsIdle /\ NoStrayClaims
  BY DEF AppInit, QueueInit, IdleIsIdle, NoStrayClaims
<1>4. Exclusive
  BY DEF AppInit, QueueInit, Exclusive, Idle, Holding, Outcomes
<1>5. WorkAccounted
  BY DEF AppInit, QueueInit, WorkAccounted, NoRow
<1> QED BY <1>1, <1>2, <1>3, <1>4, <1>5

LEMMA AppInvStep == AppInv /\ [AppNext]_appVars => AppInv'
<1> SUFFICES ASSUME AppInv, [AppNext]_appVars PROVE AppInv'
  OBVIOUS
<1>1. /\ ClaimInv /\ AllSound /\ IdleIsIdle /\ NoStrayClaims
      /\ Exclusive /\ WorkAccounted
  BY AppInvParts
<1>2. ClaimInv' /\ AllSound' /\ IdleIsIdle' /\ NoStrayClaims'
  BY <1>1, AppClaimInv, AllSoundStep, IdleIsIdleStep, NoStrayClaimsStep
<1>3. Exclusive' /\ WorkAccounted'
  BY <1>1, AppExclusive, WorkAccountedStep
<1>4. AppInv' <=> (/\ ClaimInv /\ AllSound /\ IdleIsIdle /\ NoStrayClaims
                   /\ Exclusive /\ WorkAccounted)'
  BY AppInvParts, PTL
<1> QED BY <1>2, <1>3, <1>4

LEMMA AppInvariant == AppSpec => []AppInv
<1> QED BY AppInvInit, AppInvStep, PTL DEF AppSpec

\* Starting, stopping and killing processes (Start, Shutdown, the exits of
\* cmd/server and cmd/worker) keeps every process in a state of its phases,
\* and leaves no job with one that is down or runs no queue.
THEOREM ProcessesTyped == AppSpec => []AppTypeOK
<1>1. AppInv => AppTypeOK
  BY DEF AppInv
<1> QED BY AppInvariant, <1>1, PTL

\* A request is denied the database, or ended by the exit of main, only after
\* HTTP_SHUTDOWN_TIMEOUT: Shutdown closes the database after Echo.Shutdown.
THEOREM RequestsNotCut == AppSpec => []CutOnlyIfTimedOut
<1>1. AppInv => CutOnlyIfTimedOut
  BY DEF AppInv
<1> QED BY AppInvariant, <1>1, PTL

\* Across deployments Queue.Run hands out work that is done a second time only
\* because its outcome was lost with a process that was stopped or died or in
\* a statement that failed, or because a job was held beyond its lock.
THEOREM WorkRepeatedRightly == AppSpec => []RepeatedOnlyIfForgotten
<1>1. ASSUME AppInv PROVE RepeatedOnlyIfForgotten
  <2> SUFFICES ASSUME NEW p \in Workers, worker[p].pc \in {"tx", "run"},
                      jobs[worker[p].job].ran, ~jobs[worker[p].job].late
               PROVE  worker[p].job \in lost
    BY DEF RepeatedOnlyIfForgotten
  <2>1. worker[p].job \in Jobs /\ (worker[p].pc = "tx" => ~jobs[worker[p].job].done)
    BY <1>1 DEF AppInv, ClaimInv, ClaimsMatchRows, Holding
  <2>2. worker[p].pc = "run" => ~jobs[worker[p].job].done
    BY <1>1, <2>1 DEF AppInv, Exclusive, Holding
  <2>3. ASSUME NEW v \in Workers, worker[v].pc = "ok", worker[v].job = worker[p].job
        PROVE  FALSE
    BY <1>1, <2>1, <2>3 DEF AppInv, Exclusive, Holding, Outcomes
  <2> QED BY <1>1, <2>1, <2>2, <2>3 DEF AppInv, WorkAccounted
<1> QED BY AppInvariant, <1>1, PTL

-----------------------------------------------------------------------------
(* To the table a deployment is failed statements and crashes.             *)

\* The actions the two specifications share are the same actions.
LEMMA SameActions ==
    ASSUME NEW w \in Workers
    PROVE  /\ \A j \in Jobs : SelectJob(w, j) => Queue!SelectJob(w, j)
           /\ CommitClaim(w) => Queue!CommitClaim(w)
           /\ AbortClaim(w) => Queue!AbortClaim(w)
           /\ LoseClaim(w) => Queue!LoseClaim(w)
           /\ \A res \in {"ok", "err"} :
                  HandlerReturns(w, res) => Queue!HandlerReturns(w, res)
           /\ FinishOk(w) => Queue!FinishOk(w)
           /\ FinishErr(w) => Queue!FinishErr(w)
           /\ FinishUnknown(w) => Queue!FinishUnknown(w)
           /\ FinishFails(w) => Queue!FinishFails(w)
<1>1. \A j : Queue!RowLocked(j) <=> RowLocked(j)
  BY DEF Queue!RowLocked, RowLocked
<1>2. \A j : Queue!Eligible(j) <=> Eligible(j)
  BY <1>1 DEF Queue!Eligible, Eligible
<1>3. \A r, t : Queue!ClaimedRow(r, t) = ClaimedRow(r, t)
  BY Zenon DEF Queue!ClaimedRow, ClaimedRow, Queue!Clamp, Clamp
<1>4. \A r : Queue!FinishedRow(r) = FinishedRow(r) /\ Queue!FailedRow(r) = FailedRow(r)
  BY Zenon DEF Queue!FinishedRow, FinishedRow, Queue!FailedRow, FailedRow
<1>5. Queue!Idle = Idle /\ Queue!Outcomes = Outcomes
  BY Zenon DEF Queue!Idle, Idle, Queue!Outcomes, Outcomes
<1>6. \A j \in Jobs : SelectJob(w, j) => Queue!SelectJob(w, j)
  BY <1>2, Zenon DEF Queue!SelectJob, SelectJob
<1>7. CommitClaim(w) => Queue!CommitClaim(w)
  BY <1>3, Zenon DEF Queue!CommitClaim, CommitClaim
<1>8. AbortClaim(w) => Queue!AbortClaim(w)
  BY <1>5, Zenon DEF Queue!AbortClaim, AbortClaim
<1>9. LoseClaim(w) => Queue!LoseClaim(w)
  BY <1>3, <1>5, Zenon DEF Queue!LoseClaim, LoseClaim
<1>10. \A res \in {"ok", "err"} : HandlerReturns(w, res) => Queue!HandlerReturns(w, res)
  BY Zenon DEF Queue!HandlerReturns, HandlerReturns
<1>11. FinishOk(w) => Queue!FinishOk(w)
  BY <1>1, <1>4, <1>5, Zenon DEF Queue!FinishOk, FinishOk
<1>12. FinishErr(w) => Queue!FinishErr(w)
  BY <1>1, <1>4, <1>5, Zenon DEF Queue!FinishErr, FinishErr
<1>13. FinishUnknown(w) => Queue!FinishUnknown(w)
  BY <1>1, <1>4, <1>5, Zenon DEF Queue!FinishUnknown, FinishUnknown
<1>14. FinishFails(w) => Queue!FinishFails(w)
  BY <1>5, Zenon DEF Queue!FinishFails, FinishFails
<1> QED BY <1>6, <1>7, <1>8, <1>9, <1>10, <1>11, <1>12, <1>13, <1>14

\* A process that lets go of its job looks like one that crashed; one that
\* held none does not change the table at all.
LEMMA LeavingIsCrash ==
    ASSUME AppInv, NEW p \in Workers, Leaves(p)
    PROVE  Queue!Crash(p) \/ UNCHANGED queueVars
<1>0. worker \in [Workers -> WorkerState] /\ IdleIsIdle
  BY DEF AppInv, AppTypeOK, TypeOK
<1>1. CASE worker[p].pc = "idle"
  <2>1. worker[p] = Idle
    BY <1>0, <1>1 DEF IdleIsIdle
  <2>2. worker' = worker
    BY <1>0, <2>1 DEF Leaves
  <2> QED BY <2>2 DEF Leaves, queueVars
<1>2. CASE worker[p].pc # "idle"
  <2>1. Queue!Idle = Idle
    BY Zenon DEF Queue!Idle, Idle
  <2> QED BY <1>2, <2>1, Zenon DEF Leaves, Queue!Crash
<1> QED BY <1>1, <1>2

LEMMA AppStepIsQueueStep ==
    ASSUME AppInv, [AppNext]_appVars
    PROVE  [Queue!QueueNext]_queueVars
<1>1. \A w \in Workers : Leaves(w) => [Queue!QueueNext]_queueVars
  BY LeavingIsCrash DEF Queue!QueueNext, Queue!WorkerStep
<1>2. ASSUME NEW j \in Jobs, NEW x \in Work, Enqueue(j, x)
      PROVE  Queue!QueueNext
  <2>1. Queue!NewRow(x) = NewRow(x)
    BY Zenon DEF Queue!NewRow, NewRow
  <2>2. Queue!Free(j) <=> Free(j)
    BY DEF Queue!Free, Free, Queue!RowLocked, RowLocked, Queue!Held, Held,
           Queue!Holding, Holding, Queue!Outcomes, Outcomes
  <2>3. Queue!Enqueue(j, x)
    BY <1>2, <2>1, <2>2, Zenon DEF Queue!Enqueue, Enqueue
  <2> QED BY <2>3 DEF Queue!QueueNext
<1>3. ASSUME NEW w \in Workers, WorkerStep(w)
      PROVE  [Queue!QueueNext]_queueVars
  <2>1. CASE PollEmpty(w)
    BY <2>1 DEF PollEmpty
  <2>2. CASE Crash(w)
    BY <1>1, <2>2 DEF Crash, Leaves
  <2>3. CASE ~PollEmpty(w) /\ ~Crash(w)
    <3>1. Queue!WorkerStep(w)
      BY <1>3, <2>3, SameActions, Zenon DEF WorkerStep, Queue!WorkerStep
    <3> QED BY <3>1 DEF Queue!QueueNext
  <2> QED BY <2>1, <2>2, <2>3
<1>4. CASE Tick
  <2>1. Prompt \/ "slow" \in Faults =>
            Queue!Prompt \/ "slow" \in Faults \cup {"queue", "crash"}
    BY DEF Queue!Prompt, Prompt
  <2>2. Queue!Tick
    BY <1>4, <2>1 DEF Queue!Tick, Tick, Queue!Held, Held, Queue!Holding, Holding,
                      Queue!Outcomes, Outcomes, Queue!Older, Older
  <2> QED BY <2>2 DEF Queue!QueueNext
<1> QED
  BY <1>1, <1>2, <1>3, <1>4, AppQueueStep DEF QueueNext

\* Deploying is within what the queue is built for: every step of starting,
\* stopping and killing processes is a step of the queue with failed
\* statements and crashes, or none, so that what is proved of QueueSpec holds
\* across deployments.
THEOREM DeploymentIsQueue == AppSpec => ImplementsQueue
<1>1. AppInit => Queue!QueueInit
  BY Zenon DEF AppInit, QueueInit, Queue!QueueInit, NoRow, Queue!NoRow, Idle,
               Queue!Idle
<1>2. AppInv /\ [AppNext]_appVars => [Queue!QueueNext]_queueVars
  BY AppStepIsQueueStep
<1>3. AppInv /\ [AppNext]_appVars => [Queue!QueueNext]_(Queue!queueVars)
  BY <1>2 DEF queueVars, Queue!queueVars
<1> QED
  BY AppInvariant, <1>1, <1>3, PTL DEF AppSpec, ImplementsQueue, Queue!QueueSpec
=============================================================================

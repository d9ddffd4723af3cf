---------------------------- MODULE AppLifecycle ----------------------------
(***************************************************************************)
(* Starting and stopping the processes around the job queue: internal/app  *)
(* (Start, StartWorkerOnly, Shutdown), cmd/server and cmd/worker.          *)
(*                                                                         *)
(* A process has one Queue.Run goroutine at most, so the processes are the *)
(* Workers of JobQueue; some never run it.  A signal leads to Shutdown:    *)
(* cancel the context of worker and reconciler, close the listener, let    *)
(* Echo finish its requests until the timeout, close the database.  The    *)
(* goroutines are not waited for: with the context cancelled every         *)
(* statement they send fails, and main ends whatever they are doing        *)
(* (cmd/server) or when Run returns, whether or not Shutdown is through    *)
(* (cmd/worker).                                                           *)
(***************************************************************************)
EXTENDS JobQueue

CONSTANTS
    Servers,    \* processes of cmd/server; the others are cmd/worker
    Enabled,    \* servers with JOBS_ENABLED
    Embedding,  \* those of them with JOBS_EMBED_IN_SERVER
    MaxOpen     \* bounds the HTTP requests open at once in a server

ASSUME AppAssumption ==
    /\ Servers \subseteq Workers
    /\ Enabled \subseteq Servers
    /\ Embedding \subseteq Enabled
    /\ MaxOpen \in Nat

VARIABLES
    app,    \* the state of each process
    lost    \* history: jobs whose handler returned nil and nobody wrote it down

appVars == <<jobs, worker, app, lost>>

-----------------------------------------------------------------------------
(* phase: "cancelled", ctx is cancelled and the listener still open;       *)
(* "draining", Echo.Shutdown has closed it and waits; "closing",           *)
(* Echo.Shutdown has returned; "closed", DB.Close has.  open: HTTP         *)
(* requests being handled.  expired: shutdownCtx is.  cut is history: a    *)
(* request was denied the database or ended by the exit of main.           *)

AppState == [phase: {"down", "up", "cancelled", "draining", "closing", "closed"},
             open: 0..MaxOpen, expired: BOOLEAN, cut: BOOLEAN]
Down == [phase |-> "down", open |-> 0, expired |-> FALSE, cut |-> FALSE]

\* The processes that run Queue.Run, and those that run the reconcile loop;
\* cmd/worker sets both flags.
Runs(p) == p \in Embedding \/ p \notin Servers
Reconciles(p) == p \in Enabled \/ p \notin Servers

\* The context of Queue.Run and of the reconcile loop.
CtxOpen(p) == app[p].phase = "up"

\* The handle is good until DB.Close.
DBOpen(p) == app[p].phase \in {"up", "cancelled", "draining", "closing"}

AppInit ==
    /\ QueueInit
    /\ app = [p \in Workers |-> Down]
    /\ lost = {}

\* Process p lets go of its job without a record of the outcome.
Forgets(p) ==
    lost' = lost \cup (IF worker[p].pc = "ok" THEN {worker[p].job} ELSE {})

-----------------------------------------------------------------------------
(* main.                                                                   *)

\* config.Load, app.New, then Start or StartWorkerOnly.
Start(p) ==
    /\ app[p].phase = "down"
    /\ app' = [app EXCEPT ![p] = [Down EXCEPT !.phase = "up"]]
    /\ UNCHANGED <<queueVars, lost>>

\* The signal, and the context is cancelled: by Shutdown, or in cmd/worker by
\* NotifyContext.
Signal(p) ==
    /\ app[p].phase = "up"
    /\ app' = [app EXCEPT ![p].phase = "cancelled"]
    /\ UNCHANGED <<queueVars, lost>>

\* Shutdown comes to Echo.Shutdown, which begins by closing the listener.
CloseListener(p) ==
    /\ app[p].phase = "cancelled"
    /\ app' = [app EXCEPT ![p].phase = "draining"]
    /\ UNCHANGED <<queueVars, lost>>

\* HTTP_SHUTDOWN_TIMEOUT, which runs from the signal, is over; at once if it is
\* zero or negative.
Expire(p) ==
    /\ app[p].phase \in {"cancelled", "draining"}
    /\ ~app[p].expired
    /\ app' = [app EXCEPT ![p].expired = TRUE]
    /\ UNCHANGED <<queueVars, lost>>

\* Mutants: Echo.Shutdown is not waited for; it gets a context without
\* a timeout.
EchoShutdownAtOnce(p) ==
    /\ app[p].phase = "draining"
    /\ app' = [app EXCEPT ![p].phase = "closing"]
    /\ UNCHANGED <<queueVars, lost>>
EchoShutdownPatient(p) ==
    /\ app[p].phase = "draining"
    /\ app[p].open = 0
    /\ app' = [app EXCEPT ![p].phase = "closing"]
    /\ UNCHANGED <<queueVars, lost>>

\* Echo.Shutdown returns: no request is open, or shutdownCtx has expired and
\* the error is logged.
EchoShutdown(p) ==
    /\ app[p].phase = "draining"
    /\ app[p].open = 0 \/ app[p].expired
    /\ app' = [app EXCEPT ![p].phase = "closing"]
    /\ UNCHANGED <<queueVars, lost>>

CloseDB(p) ==
    /\ app[p].phase = "closing"
    /\ app' = [app EXCEPT ![p].phase = "closed"]
    /\ UNCHANGED <<queueVars, lost>>

\* main returns, and the process with it: the server's after Shutdown, the
\* worker's when Run has returned, Shutdown running in another goroutine.
\* Postgres rolls back a transaction that is still open.
Exit(p) ==
    /\ \/ p \in Servers /\ app[p].phase = "closed"
       \/ /\ p \notin Servers
          /\ app[p].phase \in {"cancelled", "draining", "closing", "closed"}
          /\ worker[p].pc = "idle"
    /\ app' = [app EXCEPT ![p] =
           [Down EXCEPT !.cut = app[p].cut \/ app[p].open > 0,
                        !.expired = app[p].expired]]
    /\ worker' = [worker EXCEPT ![p] = Idle]
    /\ Forgets(p)
    /\ UNCHANGED jobs

\* The process dies: a panic outside Echo's Recover, a second signal, the
\* Fatal after Echo.Start has failed.
Die(p) ==
    /\ "crash" \in Faults
    /\ app[p].phase # "down"
    /\ app' = [app EXCEPT ![p] = Down]
    /\ worker' = [worker EXCEPT ![p] = Idle]
    /\ Forgets(p)
    /\ UNCHANGED jobs

-----------------------------------------------------------------------------
(* HTTP requests, under contexts of their own that Shutdown does not       *)
(* cancel.                                                                 *)

\* A connection is taken until the listener is closed.
Accept(p) ==
    /\ p \in Servers
    /\ app[p].phase \in {"up", "cancelled"}
    /\ app[p].open < MaxOpen
    /\ app' = [app EXCEPT ![p].open = @ + 1]
    /\ UNCHANGED <<queueVars, lost>>

\* A handler enqueues a job and answers.
RequestEnqueues(p, j, x) ==
    /\ app[p].open > 0
    /\ DBOpen(p)
    /\ Enqueue(j, x)
    /\ app' = [app EXCEPT ![p].open = @ - 1]
    /\ lost' = lost \ {j}

\* A request that enqueues nothing, or one the closed database refuses.
RequestEnds(p) ==
    /\ app[p].open > 0
    /\ app' = [app EXCEPT ![p].open = @ - 1, ![p].cut = @ \/ ~DBOpen(p)]
    /\ UNCHANGED <<queueVars, lost>>

\* ReconcilePending enqueues a report again, for which there is a handler.
Reconcile(p, j, x) ==
    /\ Reconciles(p)
    /\ x \in Registered
    /\ CtxOpen(p)
    /\ Enqueue(j, x)
    /\ lost' = lost \ {j}
    /\ UNCHANGED app

-----------------------------------------------------------------------------
(* Queue.Run.                                                              *)

\* Statements are answered while the context is open.
RunOpen(p) ==
    /\ Runs(p)
    /\ CtxOpen(p)
    /\ \/ /\ \/ \E j \in Jobs : SelectJob(p, j)
             \/ CommitClaim(p)
             \/ AbortClaim(p)
             \/ LoseClaim(p)
             \/ RecordOutcome(p)
          /\ UNCHANGED lost
       \/ FinishFails(p) /\ Forgets(p)
    /\ UNCHANGED app

\* The handler returns; once the context is cancelled the calls of Generate
\* fail, but the audit handler makes none.
RunHandler(p) ==
    /\ \E res \in {"ok", "err"} : HandlerReturns(p, res)
    /\ UNCHANGED <<app, lost>>

\* The context is cancelled: BeginTx, UPDATE and COMMIT return its error and
\* the transaction is rolled back; but a COMMIT that was under way at the
\* signal may take effect, and then the handler starts, its context cancelled.
StopClaim(p) ==
    /\ ~CtxOpen(p)
    /\ \/ /\ worker[p].pc = "tx"
          /\ worker' = [worker EXCEPT ![p] = Idle]
          /\ UNCHANGED jobs
       \/ CommitClaim(p)
    /\ UNCHANGED <<app, lost>>

\* Mutant: a stopping worker releases its job.
StopRecordReleases(p) ==
    /\ ~CtxOpen(p)
    /\ worker[p].pc \in Outcomes
    /\ worker' = [worker EXCEPT ![p] = Idle]
    /\ jobs' = [jobs EXCEPT ![worker[p].job].lockedUntil = -1]
    /\ Forgets(p)
    /\ UNCHANGED app

\* The UPDATE that records the outcome fails and its error is dropped: the
\* row keeps its lock, and the attempt is spent.  Or it was under way at the
\* signal and takes effect.
StopRecord(p) ==
    /\ ~CtxOpen(p)
    /\ \/ /\ worker[p].pc \in Outcomes
          /\ worker' = [worker EXCEPT ![p] = Idle]
          /\ Forgets(p)
          /\ UNCHANGED jobs
       \/ RecordOutcome(p) /\ UNCHANGED lost
    /\ UNCHANGED app

TimePasses == Tick /\ UNCHANGED <<app, lost>>

Process(p) ==
    \/ Start(p) \/ Signal(p) \/ CloseListener(p) \/ Expire(p) \/ EchoShutdown(p)
    \/ CloseDB(p) \/ Exit(p) \/ Die(p)
    \/ Accept(p) \/ RequestEnds(p)
    \/ \E j \in Jobs, x \in Work :
           RequestEnqueues(p, j, x) \/ Reconcile(p, j, x)
    \/ RunOpen(p) \/ RunHandler(p) \/ StopClaim(p) \/ StopRecord(p)

AppNext == (\E p \in Workers : Process(p)) \/ TimePasses

AppSpec == AppInit /\ [][AppNext]_appVars

-----------------------------------------------------------------------------
(* Safety.                                                                 *)

\* Types; a process that is down or runs no queue holds no job.
AppTypeOK ==
    /\ TypeOK
    /\ app \in [Workers -> AppState]
    /\ lost \subseteq Jobs
    /\ \A p \in Workers :
           app[p].phase = "down" \/ ~Runs(p) => worker[p] = Idle

\* Shutdown is graceful towards HTTP requests: one is denied the database, or
\* ended by the exit, only after the shutdown timeout.
CutOnlyIfTimedOut ==
    \A p \in Workers : app[p].cut => app[p].expired

\* Work that is done is handed out a second time only for one of two reasons:
\* the process that did it was stopped, died or was refused by the database
\* after its handler had returned nil and before it had recorded that; or
\* somebody held the job beyond its lock.  Nothing else about deployments makes
\* Queue.Run repeat a job.
RepeatedOnlyIfForgotten ==
    \A p \in Workers :
        LET j == worker[p].job IN
        worker[p].pc \in {"tx", "run"} /\ jobs[j].ran =>
            jobs[j].late \/ j \in lost

\* Stopping and starting processes is within what the queue is built for: to
\* the table it looks like failed statements and crashes, so that everything
\* proved of QueueSpec holds across deployments.
Queue == INSTANCE JobQueue WITH Faults <- Faults \cup {"queue", "crash"}
ImplementsQueue == Queue!QueueSpec

-----------------------------------------------------------------------------
(* Liveness.  A supervisor starts what is down; timers fire; Echo, DB.Close*)
(* and main return when they can; HTTP handlers may hang.  Time passes; a  *)
(* job handler returns (those of app.go only wait on calls that obey the   *)
(* context); an UPDATE that waits for a row lock gets it; the claims of    *)
(* one row are not aborted or cut off for ever; ORDER BY run_at brings     *)
(* every eligible row to the front, for only finitely many are older.      *)

AppFairness ==
    /\ SF_appVars(TimePasses)
    /\ \A p \in Workers :
           /\ WF_appVars(Start(p))
           /\ WF_appVars(CloseListener(p))
           /\ WF_appVars(Expire(p))
           /\ WF_appVars(EchoShutdown(p))
           /\ WF_appVars(CloseDB(p))
           /\ WF_appVars(Exit(p))
           /\ WF_appVars(RunHandler(p))
           /\ WF_appVars(StopClaim(p))
           /\ WF_appVars(StopRecord(p))
           /\ SF_appVars(RecordOutcome(p) /\ RunOpen(p))
    /\ \A j \in Jobs :
           /\ SF_appVars(\E p \in Workers : SelectJob(p, j) /\ RunOpen(p))
           /\ SF_appVars(\E p \in Workers :
                             worker[p].job = j /\ CommitClaim(p) /\ RunOpen(p))

AppLiveSpec == AppSpec /\ AppFairness

\* A process that was told to stop does stop, even if a request hangs.
ShutdownEnds ==
    \A p \in Workers : app[p].phase = "cancelled" ~> app[p].phase = "down"
=============================================================================

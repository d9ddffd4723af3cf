-------------------------- MODULE ReportLifecycle --------------------------
(***************************************************************************)
(* What the reports domain promises (docs/reports-validation.md,           *)
(* "Lifecycle"), without queue, clock or leases: a report goes from        *)
(* pending to processing and from there back to pending or to one of two   *)
(* final states; a claim needs a report nobody is executing; only the      *)
(* worker that is executing a report decides what becomes of it.  The      *)
(* executing worker may be lost at any time, which frees the report for    *)
(* another claim.                                                          *)
(***************************************************************************)
CONSTANTS Reports, Workers

VARIABLES
    status,     \* the state of each report
    executors   \* the workers executing it: none or one

lifecycleVars == <<status, executors>>

LifecycleInit ==
    /\ status \in [Reports -> {"absent", "pending"}]
    /\ executors = [r \in Reports |-> {}]

Create(r) ==
    /\ status[r] = "absent"
    /\ status' = [status EXCEPT ![r] = "pending"]
    /\ UNCHANGED executors

\* The claimant gets the report, or dies before it learns of it.
Claim(r, owner) ==
    /\ status[r] \in {"pending", "processing"}
    /\ executors[r] = {}
    /\ status' = [status EXCEPT ![r] = "processing"]
    /\ executors' = [executors EXCEPT ![r] = owner]

\* The executing worker ends its execution; st is "pending" to try again.
Resolve(r, st) ==
    /\ status[r] = "processing"
    /\ executors[r] # {}
    /\ status' = [status EXCEPT ![r] = st]
    /\ executors' = [executors EXCEPT ![r] = {}]

\* Crash, expired context or an error: any executions end, undecided.
Abandon ==
    /\ executors' \in [Reports -> SUBSET Workers]
    /\ \A r \in Reports : executors'[r] \subseteq executors[r]
    /\ UNCHANGED status

LifecycleNext ==
    \/ \E r \in Reports :
           \/ Create(r)
           \/ \E owner \in {{}} \cup {{w} : w \in Workers} : Claim(r, owner)
           \/ \E st \in {"pending", "completed", "failed"} : Resolve(r, st)
    \/ Abandon

LifecycleSpec == LifecycleInit /\ [][LifecycleNext]_lifecycleVars
=============================================================================

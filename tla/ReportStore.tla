---------------------------- MODULE ReportStore ----------------------------
(***************************************************************************)
(* One row of reports.reports and the statements of                        *)
(* sql/queries/reports/reports.sql that internal/reports/postgres/store.go *)
(* runs on it.  Each statement is atomic; an UPDATE whose WHERE clause     *)
(* does not match returns sql.ErrNoRows and leaves the row as it is.       *)
(*                                                                         *)
(* report_id, owner, type and texts do not change once the row is there;   *)
(* of started_at, completed_at and result only "is it NULL" matters.       *)
(***************************************************************************)
EXTENDS RelativeTime

CONSTANTS
    ProcessingLease,    \* REPORTS_PROCESSING_LEASE
    ReconcileAfter,     \* REPORTS_RECONCILE_AFTER
    LeaseMemory         \* how far back processing_started_at is told apart

ASSUME StoreAssumption ==
    /\ ProcessingLease \in Nat \ {0}
    /\ ReconcileAfter \in Nat
    /\ LeaseMemory \in Nat
    /\ LeaseMemory > ProcessingLease

Terminal == {"completed", "failed"}
Statuses == {"absent", "pending", "processing"} \cup Terminal
FailureCodes == {"UNSUPPORTED_TYPE", "RETRY_EXHAUSTED"}
NoCode == "NULL"

\* processing_started_at IS NULL and processing_started_at < stale_before are
\* always asked together: the oldest instant stands for NULL.
NullLease == 0 - LeaseMemory

ReportRow ==
    [status: Statuses,
     processingStartedAt: NullLease..0,
     updatedAt: (0 - ReconcileAfter - 1)..0,
     started: BOOLEAN, completed: BOOLEAN, result: BOOLEAN,
     failureCode: FailureCodes \cup {NoCode}]

NoReport == [status |-> "absent", processingStartedAt |-> NullLease,
             updatedAt |-> 0, started |-> FALSE, completed |-> FALSE,
             result |-> FALSE, failureCode |-> NoCode]

\* CreateReport: INSERT of the row the service built.
PendingReport == [NoReport EXCEPT !.status = "pending"]

\* Mutants of that clause: processing rows without regard to their lease, any
\* row without a fresh lease.
ClaimableAnyTime(row, at) == row.status \in {"pending", "processing"}
ClaimableByLease(row, at) == row.processingStartedAt < at - ProcessingLease

\* The WHERE clause of ClaimReportExecution, for a caller whose now was read
\* at the instant at and whose stale_before is at - ProcessingLease.
Claimable(row, at) ==
    \/ row.status = "pending"
    \/ /\ row.status = "processing"
       /\ row.processingStartedAt < at - ProcessingLease

\* Mutant: processing_started_at = COALESCE(processing_started_at, now).
ClaimedReportKeepsLease(row, at) ==
    [row EXCEPT !.status = "processing",
                !.processingStartedAt =
                    IF row.status = "pending" THEN Clamp(at, LeaseMemory) ELSE @,
                !.started = TRUE]

\* ClaimExecution of a matching row.
ClaimedReport(row, at) ==
    [row EXCEPT !.status = "processing",
                !.processingStartedAt = Clamp(at, LeaseMemory),
                !.updatedAt = Clamp(at, ReconcileAfter + 1),
                !.started = TRUE,
                !.failureCode = NoCode]

\* UPDATE ... WHERE status = 'processing'.
IfProcessing(row, new) == IF row.status = "processing" THEN new ELSE row

\* Mutant: the retry keeps the lease.
MarkPendingRetryKeepsLease(row) ==
    IfProcessing(row, [row EXCEPT !.status = "pending", !.updatedAt = 0])

MarkPendingRetry(row) ==
    IfProcessing(row, [row EXCEPT !.status = "pending",
                                  !.processingStartedAt = NullLease,
                                  !.updatedAt = 0,
                                  !.failureCode = NoCode])

MarkCompleted(row) ==
    IfProcessing(row, [row EXCEPT !.status = "completed",
                                  !.result = TRUE,
                                  !.completed = TRUE,
                                  !.updatedAt = 0,
                                  !.processingStartedAt = NullLease,
                                  !.failureCode = NoCode])

MarkFailed(row, code) ==
    IfProcessing(row, [row EXCEPT !.status = "failed",
                                  !.failureCode = code,
                                  !.completed = TRUE,
                                  !.updatedAt = 0,
                                  !.processingStartedAt = NullLease])

\* Mutant: updated_at > updated_before.
OverdueInverted(row) ==
    row.status = "pending" /\ row.updatedAt > 0 - ReconcileAfter - 1

\* The WHERE clause of ListPendingReportsOlderThan, updated_before being
\* now - ReconcileAfter.
Overdue(row) == row.status = "pending" /\ row.updatedAt < 0 - ReconcileAfter

\* The row one time unit later.
OlderReport(row) ==
    [row EXCEPT !.processingStartedAt = Older(@, LeaseMemory),
                !.updatedAt = Older(@, ReconcileAfter + 1)]
=============================================================================

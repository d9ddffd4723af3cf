---------------------------- MODULE ReportPages ----------------------------
(***************************************************************************)
(* What users see of their reports: GetReport and ListReports of           *)
(* internal/reports/service.go behind internal/reports/api and             *)
(* internal/reports/web, and the page of a report, whose status fragment   *)
(* asks for itself again every two seconds while the report is not final   *)
(* (web/templates/fragments/reports/status.html).                          *)
(*                                                                         *)
(* The reports themselves live as ReportLifecycle says, which the pipeline *)
(* is shown to implement; here they move while a request for them is under *)
(* way, the database fails, and the browser's session changes hands.       *)
(* AUTH_DISABLED is false: otherwise all requests have one and the same    *)
(* principal, who owns every report.                                       *)
(***************************************************************************)
EXTENDS ReportLifecycle

CONSTANTS
    Users,      \* principals with a user id
    Nobody,     \* authn.Anonymous(), the principal without a user id
    Tabs,       \* tabs of one browser
    NoReport    \* what a tab shows that shows no report

ASSUME PagesAssumption ==
    /\ Nobody \notin Users
    /\ NoReport \notin Reports

VARIABLES
    owner,      \* owner_user_id of each report
    session,    \* whose session cookie the browser holds
    page,       \* the report each tab shows, and as what
    net,        \* the request each tab has under way
    disclosed   \* history: <<principal, report>> that were answered

pageVars == <<owner, session, page, net, disclosed>>
pagesVars == <<status, executors, owner, session, page, net, disclosed>>

-----------------------------------------------------------------------------
Final == {"completed", "failed"}
Open == {"pending", "processing"}

\* net[t] is quiet, asked (full: a page, else the status fragment alone; as:
\* the principal the middleware found) or answered (got: the status read,
\* "error" for any 4xx or 5xx).  page[t] has the report a tab shows and the
\* status it shows it in.
Quiet == [kind |-> "quiet"]
Blank == [report |-> NoReport, status |-> "absent"]

\* Mutant: no longer asked for once the worker has begun.
PollsPendingOnly(st) == st = "pending"

\* The fragment carries hx-get and hx-trigger.
Polls(st) == st \in Open

\* Mutant: assertOwner is not called.
MayReadAny(p, r) == p # Nobody

\* principal and assertOwner.
MayRead(p, r) == p # Nobody /\ owner[r] = p

-----------------------------------------------------------------------------
PagesInit ==
    /\ LifecycleInit
    /\ status = [r \in Reports |-> "absent"]
    /\ owner = [r \in Reports |-> Nobody]
    /\ session = Nobody
    /\ page = [t \in Tabs |-> Blank]
    /\ net = [t \in Tabs |-> Quiet]
    /\ disclosed = {}

\* CreateReport through API or form: refused without a principal; the row is
\* the principal's.
CreateReport(r) ==
    /\ session # Nobody
    /\ Create(r)
    /\ owner' = [owner EXCEPT ![r] = session]
    /\ UNCHANGED <<session, page, net, disclosed>>

\* Claims, outcomes and lost executions: what the pipeline does meanwhile.
Progress ==
    /\ \/ \E r \in Reports :
              \/ \E w \in {{}} \cup {{w} : w \in Workers} : Claim(r, w)
              \/ \E st \in {"pending", "completed", "failed"} : Resolve(r, st)
       \/ Abandon
    /\ UNCHANGED pageVars

\* GET /app/reports/:id: the user follows a link, also one that was passed on.
OpenPage(t, r) ==
    /\ net[t].kind = "quiet"
    /\ net' = [net EXCEPT ![t] =
           [kind |-> "asked", report |-> r, full |-> TRUE,
            as |-> session]]
    /\ UNCHANGED <<lifecycleVars, owner, session, page, disclosed>>

\* htmx: every 2s, GET /app/reports/:id/status; one request at a time.
Poll(t) ==
    /\ net[t].kind = "quiet"
    /\ page[t].report # NoReport
    /\ Polls(page[t].status)
    /\ net' = [net EXCEPT ![t] =
           [kind |-> "asked", report |-> page[t].report, full |-> FALSE,
            as |-> session]]
    /\ UNCHANGED <<lifecycleVars, owner, session, page, disclosed>>

Reply(t, got) ==
    net' = [net EXCEPT ![t] =
        [kind |-> "answered", report |-> net[t].report, full |-> net[t].full,
         got |-> got]]

\* GetReport: the row is there and belongs to the principal.
GetReport(t) ==
    LET q == net[t] IN
    /\ q.kind = "asked"
    /\ status[q.report] # "absent"
    /\ MayRead(q.as, q.report)
    /\ Reply(t, status[q.report])
    /\ disclosed' = disclosed \cup {<<q.as, q.report>>}
    /\ UNCHANGED <<lifecycleVars, owner, session, page>>

\* GetReport: 403 without principal or for another owner, 404 without a row.
GetReportRefused(t) ==
    LET q == net[t] IN
    /\ q.kind = "asked"
    /\ status[q.report] = "absent" \/ ~MayRead(q.as, q.report)
    /\ Reply(t, "error")
    /\ UNCHANGED <<lifecycleVars, owner, session, page, disclosed>>

\* The database fails.
GetReportFails(t) ==
    /\ net[t].kind = "asked"
    /\ Reply(t, "error")
    /\ UNCHANGED <<lifecycleVars, owner, session, page, disclosed>>

\* ListReports: ListReportsByOwner for the principal.
ListReports(p) ==
    /\ p # Nobody
    /\ disclosed' = disclosed \cup ({p} \X {r \in Reports : owner[r] = p})
    /\ UNCHANGED <<lifecycleVars, owner, session, page, net>>

\* The page replaces what the tab shows, an error page included; a fragment
\* replaces the fragment it came from, unless it is an error, which htmx does
\* not swap in.
Arrive(t) ==
    LET a == net[t] IN
    /\ a.kind = "answered"
    /\ net' = [net EXCEPT ![t] = Quiet]
    /\ page' = [page EXCEPT ![t] =
           IF a.got # "error" THEN [report |-> a.report, status |-> a.got]
           ELSE IF a.full THEN Blank ELSE @]
    /\ UNCHANGED <<lifecycleVars, owner, session, disclosed>>

\* The request or the answer is lost; htmx goes on at the next trigger.
Lose(t) ==
    /\ net[t].kind # "quiet"
    /\ net' = [net EXCEPT ![t] = Quiet]
    /\ UNCHANGED <<lifecycleVars, owner, session, page, disclosed>>

\* Login, logout or the end of a session; the tabs stay as they are.
ChangeSession(s) ==
    /\ session' = s
    /\ UNCHANGED <<lifecycleVars, owner, page, net, disclosed>>

Answer(t) == GetReport(t) \/ GetReportRefused(t) \/ GetReportFails(t)

PagesNext ==
    \/ \E r \in Reports : CreateReport(r)
    \/ Progress
    \/ \E t \in Tabs :
           \/ \E r \in Reports : OpenPage(t, r)
           \/ Poll(t)
           \/ Answer(t)
           \/ Arrive(t)
           \/ Lose(t)
    \/ ListReports(session)
    \/ \E s \in Users \cup {Nobody} : ChangeSession(s)

PagesSpec == PagesInit /\ [][PagesNext]_pagesVars

-----------------------------------------------------------------------------
(* Safety.                                                                 *)

\* Whatever links are followed and whoever signs in on the way, a principal
\* is told of its own reports only.
OnlyOwnReports ==
    \A d \in disclosed : owner[d[2]] = d[1]

\* A page that has stopped asking shows how the report ended, not a state it
\* was in while the answer was under way: it need not be reloaded.
StoppedPageIsTrue ==
    \A t \in Tabs :
        page[t].report # NoReport /\ ~Polls(page[t].status) =>
            page[t].status = status[page[t].report]
            /\ page[t].status \in Final

-----------------------------------------------------------------------------
(* Liveness.  The browser's timer fires, the server answers, and answers   *)
(* arrive unless they are lost; neither the database nor the network fails *)
(* for ever on the same tab.  Nothing is asked of the pipeline.            *)

PagesFairness ==
    \A t \in Tabs :
        /\ WF_pagesVars(Poll(t))
        /\ WF_pagesVars(Answer(t))
        /\ WF_pagesVars(Arrive(t) \/ Lose(t))
        /\ SF_pagesVars(GetReport(t))
        /\ SF_pagesVars(Arrive(t) /\ net[t].got # "error")

PagesLiveSpec == PagesSpec /\ PagesFairness

\* docs/architecture.md, "polling stops on terminal statuses": once the report
\* has ended, the page comes to say so, unless the user goes elsewhere with
\* the tab or with the session.
PageCatchesUp ==
    \A t \in Tabs, r \in Reports :
        (page[t].report = r /\ status[r] \in Final) ~>
            (\/ page[t].status \in Final
             \/ page[t].report # r
             \/ net[t].kind # "quiet" /\ net[t].full
             \/ session # owner[r])
=============================================================================

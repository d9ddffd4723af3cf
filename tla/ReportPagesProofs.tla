------------------------- MODULE ReportPagesProofs -------------------------
(***************************************************************************)
(* What ReportPages says of users and their reports, for any number of     *)
(* users, reports, tabs and workers.                                       *)
(*                                                                         *)
(* Both results rest on what never changes.  A row gets its owner when it  *)
(* is inserted and keeps it; before that it belongs to nobody, so that no  *)
(* list can have named it.  A final status is not left again, so that an   *)
(* answer or a page that carries one is true however old it is; a status   *)
(* that is not final may be stale, and is asked for again.                 *)
(***************************************************************************)
EXTENDS ReportPages, TLAPS

Known == Open \cup Final

Asked == [kind: {"asked"}, report: Reports, full: BOOLEAN,
          as: Users \cup {Nobody}]
Answered == [kind: {"answered"}, report: Reports, full: BOOLEAN,
             got: Known \cup {"error"}]
Shown == [report: Reports, status: Known] \cup {Blank}

\* Types of the rows, the session, the tabs and what they have under way.
PagesTypeOK ==
    /\ status \in [Reports -> Known \cup {"absent"}]
    /\ owner \in [Reports -> Users \cup {Nobody}]
    /\ session \in Users \cup {Nobody}
    /\ page \in [Tabs -> Shown]
    /\ net \in [Tabs -> {Quiet} \cup Asked \cup Answered]
    /\ disclosed \subseteq Users \X Reports

\* A report that is not there belongs to nobody.
AbsentIsNobodys == \A r \in Reports : status[r] = "absent" => owner[r] = Nobody

\* If st was read of report r at any time, it is final only if the report is.
StillTrue(r, st) == st \in Final => status[r] = st

PagesTrue ==
    \A t \in Tabs : page[t].report # NoReport =>
        StillTrue(page[t].report, page[t].status)
AnswersTrue ==
    \A t \in Tabs : net[t].kind = "answered" =>
        StillTrue(net[t].report, net[t].got)

PagesInv ==
    /\ PagesTypeOK
    /\ AbsentIsNobodys
    /\ OnlyOwnReports
    /\ PagesTrue
    /\ AnswersTrue

-----------------------------------------------------------------------------
LEMMA StatusesDiffer ==
    /\ "absent" \notin Known
    /\ "error" \notin Known
    /\ Known = Open \cup Final
    /\ \A st \in Known : Polls(st) <=> st \notin Final
  BY DEF Known, Open, Final, Polls

\* What a record of net may be, field by field.
LEMMA NetShape ==
    ASSUME NEW q \in {Quiet} \cup Asked \cup Answered
    PROVE  /\ q.kind \in {"quiet", "asked", "answered"}
           /\ q.kind = "quiet" <=> q = Quiet
           /\ q.kind = "asked" => /\ q \in Asked
                                  /\ q.report \in Reports
                                  /\ q.full \in BOOLEAN
                                  /\ q.as \in Users \cup {Nobody}
           /\ q.kind = "answered" => /\ q \in Answered
                                     /\ q.report \in Reports
                                     /\ q.full \in BOOLEAN
                                     /\ q.got \in Known \cup {"error"}
  <1>1. CASE q = Quiet
    BY <1>1 DEF Quiet
  <1>2. CASE q \in Asked
    BY <1>2 DEF Asked, Quiet
  <1>3. CASE q \in Answered
    BY <1>3 DEF Answered, Quiet
  <1> QED BY <1>1, <1>2, <1>3

LEMMA PageShape ==
    ASSUME NEW p \in Shown, p.report # NoReport
    PROVE  p.report \in Reports /\ p.status \in Known
  BY DEF Shown, Blank

-----------------------------------------------------------------------------
\* What a step does to the rows of the reports: statuses that are final stay,
\* rows are not deleted, and the owner of a row that is there stays.
RowsKept ==
    /\ status' \in [Reports -> Known \cup {"absent"}]
    /\ owner' \in [Reports -> Users \cup {Nobody}]
    /\ \A r \in Reports :
           /\ status[r] \in Final => status'[r] = status[r]
           /\ status[r] # "absent" => owner'[r] = owner[r]
           /\ status'[r] = "absent" => /\ status[r] = "absent"
                                       /\ owner'[r] = owner[r]

LEMMA CreateKeepsRows ==
    ASSUME PagesInv, NEW r \in Reports, CreateReport(r)
    PROVE  RowsKept
  <1>1. /\ status[r] = "absent"
        /\ status' = [status EXCEPT ![r] = "pending"]
        /\ owner' = [owner EXCEPT ![r] = session]
    BY DEF CreateReport, Create
  <1>2. /\ status \in [Reports -> Known \cup {"absent"}]
        /\ owner \in [Reports -> Users \cup {Nobody}]
        /\ session \in Users \cup {Nobody}
    BY DEF PagesInv, PagesTypeOK
  <1> QED BY <1>1, <1>2 DEF RowsKept, Known, Open, Final

LEMMA ProgressKeepsRows ==
    ASSUME PagesInv, Progress
    PROVE  RowsKept
  <1>1. /\ status \in [Reports -> Known \cup {"absent"}]
        /\ owner \in [Reports -> Users \cup {Nobody}]
    BY DEF PagesInv, PagesTypeOK
  <1>2. owner' = owner
    BY DEF Progress, pageVars
  <1>3. \/ status' = status
        \/ \E r \in Reports, st \in Known :
               /\ status[r] \in Open
               /\ status' = [status EXCEPT ![r] = st]
    <2>1. CASE Abandon
      BY <2>1 DEF Abandon
    <2>2. ASSUME NEW r \in Reports, NEW w, Claim(r, w)
          PROVE  /\ status[r] \in Open
                 /\ status' = [status EXCEPT ![r] = "processing"]
                 /\ "processing" \in Known
      BY <2>2 DEF Claim, Open, Known
    <2>3. ASSUME NEW r \in Reports, NEW st \in {"pending", "completed", "failed"},
                 Resolve(r, st)
          PROVE  /\ status[r] \in Open
                 /\ status' = [status EXCEPT ![r] = st]
                 /\ st \in Known
      BY <2>3 DEF Resolve, Open, Final, Known
    <2> QED BY <2>1, <2>2, <2>3 DEF Progress
  <1>4. CASE status' = status
    BY <1>1, <1>2, <1>4 DEF RowsKept
  <1>5. ASSUME NEW r \in Reports, NEW st \in Known, status[r] \in Open,
               status' = [status EXCEPT ![r] = st]
        PROVE  RowsKept
    BY <1>1, <1>2, <1>5 DEF RowsKept, Known, Open, Final
  <1> QED BY <1>3, <1>4, <1>5

-----------------------------------------------------------------------------
\* Steps of the reports alone.
LEMMA RowsStepSafe ==
    ASSUME PagesInv, RowsKept, UNCHANGED <<session, page, net, disclosed>>
    PROVE  PagesInv'
  <1>1. PagesTypeOK'
    BY DEF PagesInv, PagesTypeOK, RowsKept
  <1>2. AbsentIsNobodys'
    BY DEF PagesInv, AbsentIsNobodys, RowsKept
  <1>3. OnlyOwnReports'
    <2> SUFFICES ASSUME NEW d \in disclosed
                 PROVE  owner'[d[2]] = d[1]
      BY DEF OnlyOwnReports
    <2>1. d[1] \in Users /\ d[2] \in Reports /\ owner[d[2]] = d[1]
      BY DEF PagesInv, PagesTypeOK, OnlyOwnReports
    <2>2. status[d[2]] # "absent"
      BY <2>1, PagesAssumption DEF PagesInv, AbsentIsNobodys
    <2> QED BY <2>1, <2>2 DEF RowsKept
  <1>4. PagesTrue'
    <2> SUFFICES ASSUME NEW t \in Tabs, page[t].report # NoReport,
                        page[t].status \in Final
                 PROVE  status'[page[t].report] = page[t].status
      BY DEF PagesTrue, StillTrue
    <2>1. page[t].report \in Reports
      BY PageShape DEF PagesInv, PagesTypeOK
    <2>2. status[page[t].report] = page[t].status
      BY DEF PagesInv, PagesTrue, StillTrue
    <2> QED BY <2>1, <2>2 DEF RowsKept
  <1>5. AnswersTrue'
    <2> SUFFICES ASSUME NEW t \in Tabs, net[t].kind = "answered",
                        net[t].got \in Final
                 PROVE  status'[net[t].report] = net[t].got
      BY DEF AnswersTrue, StillTrue
    <2>1. net[t].report \in Reports
      BY NetShape DEF PagesInv, PagesTypeOK
    <2>2. status[net[t].report] = net[t].got
      BY DEF PagesInv, AnswersTrue, StillTrue
    <2> QED BY <2>1, <2>2 DEF RowsKept
  <1> QED BY <1>1, <1>2, <1>3, <1>4, <1>5 DEF PagesInv

\* Steps that put q in place of what tab t has under way.
LEMMA NetStepSafe ==
    ASSUME PagesInv, NEW t \in Tabs,
           NEW q \in {Quiet} \cup Asked \cup Answered,
           net' = [net EXCEPT ![t] = q],
           q.kind = "answered" => StillTrue(q.report, q.got),
           UNCHANGED <<status, owner, session, page, disclosed>>
    PROVE  PagesInv'
  <1>1. PagesTypeOK'
    BY DEF PagesInv, PagesTypeOK
  <1>2. AnswersTrue'
    <2> SUFFICES ASSUME NEW u \in Tabs, net'[u].kind = "answered"
                 PROVE  StillTrue(net'[u].report, net'[u].got)
      BY DEF AnswersTrue, StillTrue
    <2>1. net'[u] = IF u = t THEN q ELSE net[u]
      BY DEF PagesInv, PagesTypeOK
    <2> QED BY <2>1 DEF PagesInv, AnswersTrue
  <1>3. AbsentIsNobodys' /\ OnlyOwnReports' /\ PagesTrue'
    BY DEF PagesInv, AbsentIsNobodys, OnlyOwnReports, PagesTrue, StillTrue
  <1> QED BY <1>1, <1>2, <1>3 DEF PagesInv

LEMMA ReplyTyped ==
    ASSUME PagesInv, NEW t \in Tabs, net[t].kind = "asked",
           NEW got \in Known \cup {"error"}, Reply(t, got)
    PROVE  \E q \in Answered :
               /\ net' = [net EXCEPT ![t] = q]
               /\ q.report = net[t].report
               /\ q.got = got
  <1> DEFINE q == [kind |-> "answered", report |-> net[t].report,
                   full |-> net[t].full, got |-> got]
  <1>1. net[t].report \in Reports /\ net[t].full \in BOOLEAN
    BY NetShape DEF PagesInv, PagesTypeOK
  <1>2. q \in Answered
    BY <1>1 DEF Answered
  <1>3. net' = [net EXCEPT ![t] = q]
    BY DEF Reply
  <1>4. q.report = net[t].report /\ q.got = got
    OBVIOUS
  <1> QED BY <1>2, <1>3, <1>4

\* The principal is told of its own row: its status, or its name in the list.
LEMMA DisclosureSafe ==
    ASSUME PagesInv, NEW p \in Users, NEW S \in SUBSET Reports,
           \A r \in S : owner[r] = p,
           disclosed' = disclosed \cup ({p} \X S),
           UNCHANGED owner
    PROVE  OnlyOwnReports' /\ disclosed' \subseteq Users \X Reports
  <1>1. disclosed' \subseteq Users \X Reports
    BY DEF PagesInv, PagesTypeOK
  <1>2. ASSUME NEW d \in disclosed' PROVE owner[d[2]] = d[1]
    BY DEF PagesInv, OnlyOwnReports
  <1> QED BY <1>1, <1>2 DEF OnlyOwnReports

-----------------------------------------------------------------------------
LEMMA PagesInitInv == PagesInit => PagesInv
  <1> SUFFICES ASSUME PagesInit PROVE PagesInv
    OBVIOUS
  <1>1. /\ \A t \in Tabs : page[t] = Blank /\ net[t] = Quiet
        /\ \A r \in Reports : status[r] = "absent" /\ owner[r] = Nobody
        /\ disclosed = {}
    BY DEF PagesInit
  <1>2. PagesTypeOK
    BY DEF PagesInit, PagesTypeOK, Shown
  <1>3. AbsentIsNobodys /\ OnlyOwnReports
    BY <1>1 DEF AbsentIsNobodys, OnlyOwnReports
  <1>4. PagesTrue
    BY <1>1 DEF PagesTrue, Blank
  <1>5. AnswersTrue
    BY <1>1 DEF AnswersTrue, Quiet
  <1> QED BY <1>2, <1>3, <1>4, <1>5 DEF PagesInv

LEMMA GetReportSafe ==
    ASSUME PagesInv, NEW t \in Tabs, GetReport(t)
    PROVE  PagesInv'
  <1> DEFINE q == net[t]
  <1>1. /\ q.report \in Reports
        /\ q.as \in Users
        /\ owner[q.report] = q.as
    BY NetShape DEF GetReport, MayRead, PagesInv, PagesTypeOK
  <1>2. status[q.report] \in Known
    BY <1>1 DEF GetReport, PagesInv, PagesTypeOK
  <1>3. PICK a \in Answered : /\ net' = [net EXCEPT ![t] = a]
                              /\ a.report = q.report
                              /\ a.got = status[q.report]
    BY <1>2, ReplyTyped DEF GetReport
  <1>4. UNCHANGED <<status, owner, session, page>>
    BY DEF GetReport, lifecycleVars
  <1>5. OnlyOwnReports' /\ disclosed' \subseteq Users \X Reports
    <2>1. disclosed' = disclosed \cup ({q.as} \X {q.report})
      BY DEF GetReport
    <2>2. /\ {q.report} \in SUBSET Reports
          /\ \A r \in {q.report} : owner[r] = q.as
      BY <1>1
    <2> HIDE DEF q
    <2> QED BY <1>1, <1>4, <2>1, <2>2, DisclosureSafe
  <1>6. PagesTypeOK'
    BY <1>3, <1>4, <1>5 DEF PagesInv, PagesTypeOK
  <1>7. AnswersTrue'
    <2> SUFFICES ASSUME NEW u \in Tabs, net'[u].kind = "answered"
                 PROVE  StillTrue(net'[u].report, net'[u].got)
      BY <1>4 DEF AnswersTrue, StillTrue
    <2>1. net'[u] = IF u = t THEN a ELSE net[u]
      BY <1>3 DEF PagesInv, PagesTypeOK
    <2> QED BY <1>3, <2>1 DEF PagesInv, AnswersTrue, StillTrue
  <1>8. AbsentIsNobodys' /\ PagesTrue'
    BY <1>4 DEF PagesInv, AbsentIsNobodys, PagesTrue, StillTrue
  <1> QED BY <1>5, <1>6, <1>7, <1>8 DEF PagesInv

LEMMA ArriveSafe ==
    ASSUME PagesInv, NEW t \in Tabs, Arrive(t)
    PROVE  PagesInv'
  <1> DEFINE a == net[t]
             p == IF a.got # "error" THEN [report |-> a.report, status |-> a.got]
                  ELSE IF a.full THEN Blank ELSE page[t]
  <1>1. /\ a.report \in Reports
        /\ a.got \in Known \cup {"error"}
        /\ StillTrue(a.report, a.got)
    BY NetShape DEF Arrive, PagesInv, PagesTypeOK, AnswersTrue
  <1>2. p \in Shown
    BY <1>1 DEF Shown, PagesInv, PagesTypeOK
  <1>3. p.report # NoReport => StillTrue(p.report, p.status)
    <2>1. CASE a.got # "error"
      BY <1>1, <2>1
    <2>2. CASE a.got = "error"
      BY <2>2 DEF PagesInv, PagesTrue, Blank
    <2> QED BY <2>1, <2>2
  <1>4. /\ page' = [page EXCEPT ![t] = p]
        /\ net' = [net EXCEPT ![t] = Quiet]
        /\ UNCHANGED <<status, owner, session, disclosed>>
    BY DEF Arrive, lifecycleVars
  <1> HIDE DEF p, a
  <1>5. PagesTypeOK'
    BY <1>2, <1>4 DEF PagesInv, PagesTypeOK
  <1>6. PagesTrue'
    <2> SUFFICES ASSUME NEW u \in Tabs, page'[u].report # NoReport
                 PROVE  StillTrue(page'[u].report, page'[u].status)
      BY <1>4 DEF PagesTrue, StillTrue
    <2>1. page'[u] = IF u = t THEN p ELSE page[u]
      BY <1>4 DEF PagesInv, PagesTypeOK
    <2> QED BY <1>3, <2>1 DEF PagesInv, PagesTrue
  <1>7. AnswersTrue'
    <2> SUFFICES ASSUME NEW u \in Tabs, net'[u].kind = "answered"
                 PROVE  StillTrue(net'[u].report, net'[u].got)
      BY <1>4 DEF AnswersTrue, StillTrue
    <2>1. net'[u] = IF u = t THEN Quiet ELSE net[u]
      BY <1>4 DEF PagesInv, PagesTypeOK
    <2>2. u # t
      BY <2>1 DEF Quiet
    <2> QED BY <2>1, <2>2 DEF PagesInv, AnswersTrue
  <1>8. AbsentIsNobodys' /\ OnlyOwnReports'
    BY <1>4 DEF PagesInv, AbsentIsNobodys, OnlyOwnReports
  <1> QED BY <1>5, <1>6, <1>7, <1>8 DEF PagesInv

LEMMA PagesStepInv == PagesInv /\ [PagesNext]_pagesVars => PagesInv'
  <1> SUFFICES ASSUME PagesInv, [PagesNext]_pagesVars PROVE PagesInv'
    OBVIOUS
  <1>1. ASSUME NEW r \in Reports, CreateReport(r) PROVE PagesInv'
    BY <1>1, CreateKeepsRows, RowsStepSafe DEF CreateReport
  <1>2. CASE Progress
    BY <1>2, ProgressKeepsRows, RowsStepSafe DEF Progress, pageVars
  <1>3. ASSUME NEW t \in Tabs, NEW r \in Reports, OpenPage(t, r) PROVE PagesInv'
    <2> DEFINE q == [kind |-> "asked", report |-> r, full |-> TRUE,
                     as |-> session]
    <2>1. q \in Asked /\ q.kind # "answered"
      BY DEF Asked, PagesInv, PagesTypeOK
    <2>2. /\ net' = [net EXCEPT ![t] = q]
          /\ UNCHANGED <<status, owner, session, page, disclosed>>
      BY <1>3 DEF OpenPage, lifecycleVars
    <2> HIDE DEF q
    <2> QED BY <2>1, <2>2, NetStepSafe
  <1>4. ASSUME NEW t \in Tabs, Poll(t) PROVE PagesInv'
    <2> DEFINE q == [kind |-> "asked", report |-> page[t].report,
                     full |-> FALSE, as |-> session]
    <2>1. page[t].report \in Reports
      BY <1>4, PageShape DEF Poll, PagesInv, PagesTypeOK
    <2>2. q \in Asked /\ q.kind # "answered"
      BY <2>1 DEF Asked, PagesInv, PagesTypeOK
    <2>3. /\ net' = [net EXCEPT ![t] = q]
          /\ UNCHANGED <<status, owner, session, page, disclosed>>
      BY <1>4 DEF Poll, lifecycleVars
    <2> HIDE DEF q
    <2> QED BY <2>2, <2>3, NetStepSafe
  <1>5. ASSUME NEW t \in Tabs, Answer(t) PROVE PagesInv'
    <2>1. CASE GetReport(t)
      BY <2>1, GetReportSafe
    <2>2. CASE GetReportRefused(t) \/ GetReportFails(t)
      <3>1. /\ net[t].kind = "asked"
            /\ Reply(t, "error")
            /\ UNCHANGED <<status, owner, session, page, disclosed>>
        BY <2>2 DEF GetReportRefused, GetReportFails, lifecycleVars
      <3>2. PICK a \in Answered : /\ net' = [net EXCEPT ![t] = a]
                                  /\ a.got = "error"
        BY <3>1, ReplyTyped
      <3>3. StillTrue(a.report, a.got)
        BY <3>2 DEF StillTrue, Final
      <3> QED BY <3>1, <3>2, <3>3, NetStepSafe
    <2> QED BY <1>5, <2>1, <2>2 DEF Answer
  <1>6. ASSUME NEW t \in Tabs, Arrive(t) PROVE PagesInv'
    BY <1>6, ArriveSafe
  <1>7. ASSUME NEW t \in Tabs, Lose(t) PROVE PagesInv'
    <2>1. Quiet.kind # "answered"
      BY DEF Quiet
    <2>2. /\ net' = [net EXCEPT ![t] = Quiet]
          /\ UNCHANGED <<status, owner, session, page, disclosed>>
      BY <1>7 DEF Lose, lifecycleVars
    <2> QED BY <2>1, <2>2, NetStepSafe
  <1>8. CASE ListReports(session)
    <2>1. session \in Users
      BY <1>8 DEF ListReports, PagesInv, PagesTypeOK
    <2>2. UNCHANGED <<status, owner, session, page, net>>
      BY <1>8 DEF ListReports, lifecycleVars
    <2>3. OnlyOwnReports' /\ disclosed' \subseteq Users \X Reports
      <3> DEFINE S == {r \in Reports : owner[r] = session}
      <3>1. disclosed' = disclosed \cup ({session} \X S)
        BY <1>8 DEF ListReports
      <3>2. S \in SUBSET Reports /\ \A r \in S : owner[r] = session
        OBVIOUS
      <3> HIDE DEF S
      <3> QED BY <2>1, <2>2, <3>1, <3>2, DisclosureSafe
    <2>4. PagesTypeOK' /\ AbsentIsNobodys' /\ PagesTrue' /\ AnswersTrue'
      BY <2>2, <2>3 DEF PagesInv, PagesTypeOK, AbsentIsNobodys, PagesTrue,
                        AnswersTrue, StillTrue
    <2> QED BY <2>3, <2>4 DEF PagesInv
  <1>9. ASSUME NEW s \in Users \cup {Nobody}, ChangeSession(s) PROVE PagesInv'
    <2>1. session' = s /\ UNCHANGED <<status, owner, page, net, disclosed>>
      BY <1>9 DEF ChangeSession, lifecycleVars
    <2> QED BY <2>1 DEF PagesInv, PagesTypeOK, AbsentIsNobodys, OnlyOwnReports,
                        PagesTrue, AnswersTrue, StillTrue
  <1>10. CASE UNCHANGED pagesVars
    BY <1>10 DEF pagesVars, PagesInv, PagesTypeOK, AbsentIsNobodys,
                 OnlyOwnReports, PagesTrue, AnswersTrue, StillTrue
  <1> QED BY <1>1, <1>2, <1>3, <1>4, <1>5, <1>6, <1>7, <1>8, <1>9, <1>10
          DEF PagesNext

-----------------------------------------------------------------------------
LEMMA PagesInvariant == PagesSpec => []PagesInv
  BY PagesInitInv, PagesStepInv, PTL DEF PagesSpec

\* assertOwner and ListReportsByOwner, whatever links are followed and whoever
\* signs in while a request is under way: a principal is told of its own
\* reports only.
THEOREM OwnReportsOnly == PagesSpec => []OnlyOwnReports
  <1>1. PagesInv => OnlyOwnReports
    BY DEF PagesInv
  <1> QED BY <1>1, PagesInvariant, PTL

\* A report page whose fragment no longer asks for itself shows the status the
\* report has and keeps, however long its answer took to arrive.
THEOREM StoppedPagesTrue == PagesSpec => []StoppedPageIsTrue
  <1>1. PagesInv => StoppedPageIsTrue
    <2> SUFFICES ASSUME PagesInv, NEW t \in Tabs, page[t].report # NoReport,
                        ~Polls(page[t].status)
                 PROVE  /\ page[t].status = status[page[t].report]
                        /\ page[t].status \in Final
      BY DEF StoppedPageIsTrue
    <2>1. page[t].status \in Known
      BY PageShape DEF PagesInv, PagesTypeOK
    <2>2. page[t].status \in Final
      BY <2>1, StatusesDiffer
    <2> QED BY <2>2 DEF PagesInv, PagesTrue, StillTrue
  <1> QED BY <1>1, PagesInvariant, PTL
=============================================================================

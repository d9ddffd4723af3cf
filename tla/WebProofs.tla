----------------------------- MODULE WebProofs -----------------------------
(***************************************************************************)
(* The parts of the server that keep no table, proved: MCWeb's invariants  *)
(* for any number of tabs, tokens and messages and any environment.        *)
(*                                                                         *)
(* Each part has an inductive invariant of its own.  A step of WebNext is  *)
(* a step of one part and leaves the variables of the others alone, so the *)
(* invariants are preserved one by one.                                    *)
(***************************************************************************)
EXTENDS MCWeb, TLAPS

-----------------------------------------------------------------------------
(* Settings.                                                               *)

\* Only a process that reads its settings gets to run.
SettingsInv ==
    /\ RunningSettingsUsable
    /\ part = "settings" => env \in Env
    /\ main.state \in {"loading", "refused", "running"}

LEMMA OrDefaultInt ==
    ASSUME NEW raw \in RawNumber, NEW def \in Int
    PROVE  OrDefault(raw, def) \in Int
  BY SettingsAssumption DEF RawNumber, OrDefault

\* Whatever the environment says, what runs is positive.
LEMMA WiredUsable ==
    ASSUME NEW e \in Env
    PROVE  LET w == Wired(Load(e)) IN
           /\ w.maxAttempts \in Nat \ {0}
           /\ w.processingLease \in Nat \ {0}
           /\ w.reconcileAfter \in Nat \ {0}
           /\ w.pollEvery \in Nat \ {0}
           /\ w.reconcileEvery \in Nat \ {0}
  <1> DEFINE c == Load(e)
  <1>1. /\ e.JOBS_MAX_ATTEMPTS \in RawNumber
        /\ e.JOBS_POLL_INTERVAL \in RawNumber
        /\ e.REPORTS_PROCESSING_LEASE \in RawNumber
        /\ e.REPORTS_RECONCILE_AFTER \in RawNumber
        /\ e.REPORTS_RECONCILE_INTERVAL \in RawNumber
    BY DEF Env
  <1>2. /\ c.maxAttempts = OrDefault(e.JOBS_MAX_ATTEMPTS, 5)
        /\ c.pollInterval = OrDefault(e.JOBS_POLL_INTERVAL, 2)
        /\ c.processingLease = OrDefault(e.REPORTS_PROCESSING_LEASE, 300)
        /\ c.reconcileAfter = OrDefault(e.REPORTS_RECONCILE_AFTER, 60)
        /\ c.reconcileInterval = OrDefault(e.REPORTS_RECONCILE_INTERVAL, 30)
    BY DEF Load
  <1>3. /\ c.maxAttempts \in Int
        /\ c.pollInterval \in Int
        /\ c.processingLease \in Int
        /\ c.reconcileAfter \in Int
        /\ c.reconcileInterval \in Int
    BY <1>1, <1>2, OrDefaultInt
  <1> HIDE DEF c
  <1>4. /\ PositiveOr(c.maxAttempts, 5) \in Nat \ {0}
        /\ PositiveOr(c.processingLease, 300) \in Nat \ {0}
        /\ PositiveOr(c.reconcileAfter, 60) \in Nat \ {0}
        /\ PositiveOr(c.pollInterval, 2) \in Nat \ {0}
        /\ PositiveOr(c.reconcileInterval, 30) \in Nat \ {0}
    BY <1>3 DEF PositiveOr
  <1>5. /\ Wired(c).maxAttempts \in Nat \ {0}
        /\ Wired(c).processingLease \in Nat \ {0}
        /\ Wired(c).reconcileAfter \in Nat \ {0}
        /\ Wired(c).pollEvery \in Nat \ {0}
        /\ Wired(c).reconcileEvery \in Nat \ {0}
    BY <1>4 DEF Wired
  <1> QED BY <1>5 DEF c

LEMMA SettingsInitInv == WebInit => SettingsInv
  BY DEF WebInit, SettingsRest, SettingsInit, SettingsInv, RunningSettingsUsable

LEMMA SettingsStepInv == SettingsInv /\ [WebNext]_webVars => SettingsInv'
  <1> SUFFICES ASSUME SettingsInv, [WebNext]_webVars PROVE SettingsInv'
    OBVIOUS
  <1>1. CASE UNCHANGED <<part, settingsVars>>
    BY <1>1 DEF settingsVars, SettingsInv, RunningSettingsUsable
  <1>2. CASE Settings /\ Refuse
    BY <1>2 DEF Settings, Refuse, SettingsInv, RunningSettingsUsable
  <1>3. CASE Settings /\ Wire
    <2>1. env \in Env /\ env' = env /\ part' = part
      BY <1>3 DEF Settings, Wire, SettingsInv
    <2> DEFINE w == Wired(Load(env))
    <2>2. /\ w.maxAttempts \in Nat \ {0}
          /\ w.processingLease \in Nat \ {0}
          /\ w.reconcileAfter \in Nat \ {0}
          /\ w.pollEvery \in Nat \ {0}
          /\ w.reconcileEvery \in Nat \ {0}
      BY <2>1, WiredUsable
    <2>3. main' = [state |-> "running", with |-> w]
      BY <1>3 DEF Wire
    <2> HIDE DEF w
    <2> QED BY <2>1, <2>2, <2>3 DEF SettingsInv, RunningSettingsUsable
  <1> QED BY <1>1, <1>2, <1>3 DEF WebNext, webVars, Csrf, Flash, Responses,
                                  Settings, SettingsNext

\* Whatever the environment says about jobs and reports, a process that runs has
\* given the queue, the reports service and the two tickers the positive numbers
\* they need: attempts, lease, reconcile age and periods.
THEOREM RunningUsable == WebSpec => []RunningSettingsUsable
  <1>1. SettingsInv => RunningSettingsUsable
    BY DEF SettingsInv
  <1> QED BY <1>1, SettingsInitInv, SettingsStepInv, PTL DEF WebSpec

-----------------------------------------------------------------------------
(* Responses.                                                              *)

ResponseType == [status: R!Statuses, committed: BOOLEAN, body: SUBSET R!Pieces]

\* At most one piece is in the body, and none before the header is sent.
Clean(r) ==
    /\ r \in ResponseType
    /\ \A x, y \in r.body : x = y
    /\ ~r.committed => r.body = {}

\* What a bad end may have left on the wire.
Begun(r) == r.committed => r.status >= 400 \/ r.body = {"halfPage"}

\* On the way back through the chain: what failed is begun as a failure or as
\* half a page; or nothing is written yet, and either its error is still to come
\* before ErrorHandler, or ErrorHandler has tried in vain.
FailureInHand ==
    "failed" \in trouble =>
        /\ Begun(res)
        /\ ~res.committed => err # R!NoError \/ "errorPage" \in trouble

ResponsesInv ==
    /\ R!ResponsesTypeOK
    /\ Clean(res)
    /\ pc = "chain" => res = R!NewResponse /\ err = R!NoError /\ trouble = {}
    /\ pc \in {"log", "count", "respond"} => FailureInHand
    /\ err # R!NoError => "failed" \in trouble
    /\ FailureNotSuccess

LEMMA NewResponseClean == Clean(R!NewResponse) /\ ~R!NewResponse.committed
  BY DEF Clean, ResponseType, R!NewResponse, R!Statuses, R!Pieces

\* Every error has a status of its own, and none of them is a success.
LEMMA ErrorStatuses ==
    ASSUME NEW e \in R!Errors \cup {R!HTTPError(429)}
    PROVE  R!MapError(e) \in R!Statuses /\ R!MapError(e) >= 400
  <1>1. \/ \E code \in {404, 405, 413, 429} : e = R!HTTPError(code)
        \/ \E is \in {"ErrNotFound", "ErrValidation", "ErrBadRequest",
                      "ErrPermissionDenied", "ErrInternal", "ErrConflict",
                      "ErrUnauthorized", "other"} : e = R!Error(is)
    <2>1. ASSUME NEW route \in {"api", "app", "ops"}, e \in R!Failures(route)
          PROVE  \/ \E code \in {404, 405, 413} : e = R!HTTPError(code)
                 \/ \E is \in {"ErrNotFound", "ErrValidation", "ErrBadRequest",
                               "ErrPermissionDenied", "ErrInternal",
                               "ErrConflict", "ErrUnauthorized"} : e = R!Error(is)
      <3> DEFINE own == IF route = "ops" THEN {} ELSE
                     {"ErrNotFound", "ErrValidation", "ErrBadRequest",
                      "ErrPermissionDenied", "ErrInternal"} \cup
                     (IF route = "api" THEN {"ErrConflict", "ErrUnauthorized"}
                      ELSE {})
      <3>1. e \in {R!HTTPError(code) : code \in {404, 405, 413}} \cup
                 {R!Error(is) : is \in own}
        BY <2>1 DEF R!Failures
      <3>2. own \subseteq {"ErrNotFound", "ErrValidation", "ErrBadRequest",
                          "ErrPermissionDenied", "ErrInternal",
                          "ErrConflict", "ErrUnauthorized"}
        OBVIOUS
      <3> HIDE DEF own
      <3>3. CASE e \in {R!HTTPError(code) : code \in {404, 405, 413}}
        BY <3>3
      <3>4. CASE e \in {R!Error(is) : is \in own}
        BY <3>2, <3>4
      <3> QED BY <3>1, <3>3, <3>4
    <2>2. \/ \E route \in {"api", "app", "ops"} : e \in R!Failures(route)
          \/ e = R!Error("other")
          \/ e = R!HTTPError(429)
      <3>1. \/ e \in UNION {R!Failures(route) : route \in {"api", "app", "ops"}}
            \/ e = R!Error("other")
            \/ e = R!HTTPError(429)
        BY DEF R!Errors, R!Internal
      <3> QED BY <3>1
    <2> QED BY <2>1, <2>2
  <1>2. CASE \E code \in {404, 405, 413, 429} : e = R!HTTPError(code)
    BY <1>2 DEF R!HTTPError, R!MapError, R!Statuses
  <1>3. CASE \E is \in {"ErrNotFound", "ErrValidation", "ErrBadRequest",
                        "ErrPermissionDenied", "ErrInternal", "ErrConflict",
                        "ErrUnauthorized", "other"} : e = R!Error(is)
    BY <1>3 DEF R!Error, R!MapError, R!Statuses
  <1> QED BY <1>1, <1>2, <1>3

\* The first answer written is the only one, and has the status meant for it.
LEMMA WriteFirst ==
    ASSUME NEW r, Clean(r), ~r.committed,
           NEW status \in R!Statuses, NEW body \in SUBSET R!Pieces,
           \A x, y \in body : x = y
    PROVE  /\ Clean(R!Write(r, status, body))
           /\ R!Write(r, status, body).committed
           /\ R!Write(r, status, body).status = status
           /\ R!Write(r, status, body).body = body
  <1> DEFINE w == R!Write(r, status, body)
  <1>1. w = [status |-> status, committed |-> TRUE, body |-> body]
    BY DEF R!Write, Clean
  <1>2. w \in ResponseType
    BY <1>1 DEF ResponseType
  <1> QED BY <1>1, <1>2 DEF Clean

LEMMA RenderFirst ==
    ASSUME NEW r, Clean(r), ~r.committed,
           NEW status \in R!Statuses, NEW body \in SUBSET R!Pieces,
           \A x, y \in body : x = y,
           NEW o \in R!Render(r, status, body) \cup R!RenderLayout(r, status)
    PROVE  /\ o.ok \in BOOLEAN
           /\ Clean(o.res)
           /\ o.ok => o.res.committed
           /\ o.res.committed => o.res.status = status
           /\ ~o.ok /\ o.res.committed =>
                  \/ o.res.body = {"halfPage"}
                  \/ body = {"fragment"} /\ status # 200
  <1> DEFINE W(b) == R!Write(r, status, b)
         Fits(b) == /\ Clean(W(b)) /\ W(b).committed /\ W(b).status = status
                    /\ W(b).body = b
  <1>1. /\ Fits(body)
        /\ \A piece \in {"page", "halfPage", "fragment", "halfFragment"} :
               Fits({piece})
    <2>1. Fits(body)
      BY WriteFirst
    <2>2. ASSUME NEW piece \in {"page", "halfPage", "fragment", "halfFragment"}
          PROVE  Fits({piece})
      <3> DEFINE b == {piece}
      <3>1. b \in SUBSET R!Pieces /\ \A x, y \in b : x = y
        BY DEF R!Pieces
      <3> HIDE DEF b
      <3>2. Fits(b)
        BY <3>1, WriteFirst
      <3> QED BY <3>2 DEF b
    <2> QED BY <2>1, <2>2
  <1> HIDE DEF W
  <1>2. ASSUME NEW p \in R!RenderLayout(r, status)
        PROVE  /\ p.ok \in BOOLEAN
               /\ Clean(p.res)
               /\ p.ok => p.res.committed
               /\ p.res.committed => p.res.status = status
               /\ ~p.ok /\ p.res.committed => p.res.body = {"halfPage"}
    <2>1. \/ p = [ok |-> TRUE, res |-> W({"page"})]
          \/ p = [ok |-> FALSE, res |-> r]
          \/ p = [ok |-> FALSE, res |-> W({"halfPage"})]
      BY <1>2 DEF R!RenderLayout, W
    <2>2. CASE p = [ok |-> TRUE, res |-> W({"page"})]
      BY <1>1, <2>2
    <2>3. CASE p = [ok |-> FALSE, res |-> r]
      BY <2>3
    <2>4. CASE p = [ok |-> FALSE, res |-> W({"halfPage"})]
      BY <1>1, <2>4
    <2> QED BY <2>1, <2>2, <2>3, <2>4
  <1>3. ASSUME NEW p \in R!RenderFragment(r, status)
        PROVE  /\ p.ok \in BOOLEAN
               /\ Clean(p.res)
               /\ p.ok => p.res.committed
               /\ p.res.committed => p.res.status = status
               /\ ~p.ok /\ p.res.committed => status # 200
    <2>1. \/ p = [ok |-> TRUE, res |-> W({"fragment"})]
          \/ p = [ok |-> FALSE, res |-> r]
          \/ status # 200 /\ p = [ok |-> FALSE, res |-> W({"halfFragment"})]
      BY <1>3 DEF R!RenderFragment, W
    <2>2. CASE p = [ok |-> TRUE, res |-> W({"fragment"})]
      BY <1>1, <2>2
    <2>3. CASE p = [ok |-> FALSE, res |-> r]
      BY <2>3
    <2>4. CASE status # 200 /\ p = [ok |-> FALSE, res |-> W({"halfFragment"})]
      BY <1>1, <2>4
    <2> QED BY <2>1, <2>2, <2>3, <2>4
  <1>4. CASE o = [ok |-> TRUE, res |-> W(body)]
    BY <1>1, <1>4
  <1>5. \/ o \in R!RenderLayout(r, status)
        \/ body = {"fragment"} /\ o \in R!RenderFragment(r, status)
        \/ o = [ok |-> TRUE, res |-> W(body)]
    BY DEF R!Render, W
  <1> QED BY <1>2, <1>3, <1>4, <1>5

\* ErrorHandler on a response nobody has written to ...
LEMMA ErrorHandlerFirst ==
    ASSUME NEW r, Clean(r), ~r.committed,
           NEW e \in R!Errors \cup {R!HTTPError(429)},
           NEW o \in R!ErrorHandler(r, e)
    PROVE  /\ o.ok \in BOOLEAN
           /\ Clean(o.res)
           /\ o.ok => o.res.committed
           /\ o.res.committed => o.res.status >= 400
  <1> DEFINE st == R!MapError(e)
  <1>1. st \in R!Statuses /\ st >= 400
    BY ErrorStatuses
  <1> DEFINE json == {"json"}
             alert == {"alert"}
  <1>2. \/ o \in R!Render(r, st, json)
        \/ o \in R!Render(r, st, alert)
        \/ o \in R!RenderLayout(r, st)
    BY DEF R!ErrorHandler
  <1>3. /\ json \in SUBSET R!Pieces
        /\ alert \in SUBSET R!Pieces
        /\ \A x, y \in json : x = y
        /\ \A x, y \in alert : x = y
    BY DEF R!Pieces
  <1> HIDE DEF st, json, alert
  <1>4. /\ o.ok \in BOOLEAN
        /\ Clean(o.res)
        /\ o.ok => o.res.committed
        /\ o.res.committed => o.res.status = st
    <2>1. CASE o \in R!Render(r, st, json) \cup R!RenderLayout(r, st)
      BY <1>1, <1>3, <2>1, RenderFirst
    <2>2. CASE o \in R!Render(r, st, alert) \cup R!RenderLayout(r, st)
      BY <1>1, <1>3, <2>2, RenderFirst
    <2> QED BY <1>2, <2>1, <2>2
  <1> QED BY <1>1, <1>4

\* ... and on one that has begun.
LEMMA ErrorHandlerLate ==
    ASSUME NEW r, r.committed, NEW e, NEW o \in R!ErrorHandler(r, e)
    PROVE  o.ok = TRUE /\ o.res = r
  BY DEF R!ErrorHandler

\* Its three callers.
LEMMA AnswerErrorSafe ==
    ASSUME NEW r, Clean(r), Begun(r),
           NEW e \in R!Errors \cup {R!HTTPError(429)},
           R!AnswerError(r, e)
    PROVE  /\ Clean(res') /\ Begun(res')
           /\ trouble' \subseteq {"failed", "errorPage"}
           /\ ~res'.committed => "errorPage" \in trouble'
  <1>1. PICK o \in R!ErrorHandler(r, e) :
            /\ res' = o.res
            /\ trouble' = {"failed"} \cup (IF o.ok THEN {} ELSE {"errorPage"})
    BY DEF R!AnswerError
  <1>2. CASE r.committed
    <2>1. o.ok = TRUE /\ o.res = r
      BY <1>2, ErrorHandlerLate
    <2> QED BY <1>1, <1>2, <2>1
  <1>3. CASE ~r.committed
    <2>1. /\ o.ok \in BOOLEAN
          /\ Clean(o.res)
          /\ o.ok => o.res.committed
          /\ o.res.committed => o.res.status >= 400
      BY <1>3, ErrorHandlerFirst
    <2> QED BY <1>1, <2>1 DEF Begun
  <1> QED BY <1>2, <1>3

LEMMA ResponsesInitInv == WebInit => ResponsesInv
  <1> SUFFICES ASSUME WebInit PROVE ResponsesInv
    OBVIOUS
  <1>1. R!ResponsesInit
    BY DEF WebInit, ResponsesRest
  <1>2. R!ResponsesTypeOK
    <2>1. res \in ResponseType
      BY <1>1, NewResponseClean DEF R!ResponsesInit, Clean
    <2>2. record \in [logged: R!Statuses \cup {0}, counted: R!Statuses \cup {0}]
      BY <1>1 DEF R!ResponsesInit, R!NoRecord
    <2> QED BY <1>1, <2>1, <2>2
            DEF R!ResponsesInit, R!ResponsesTypeOK, ResponseType
  <1> QED BY <1>1, <1>2, NewResponseClean
          DEF R!ResponsesInit, ResponsesInv, FailureNotSuccess,
              R!FailureNotSuccess

\* What a handler makes of a response nobody has written to.
LEMMA AttemptsSafe ==
    ASSUME R!ResponsesTypeOK, Clean(res), ~res.committed, NEW o \in R!Attempts
    PROVE  /\ o.ok \in BOOLEAN
           /\ Clean(o.res)
           /\ ~o.ok => Begun(o.res)
  <1>1. PICK a \in R!Answers(req.route) : o \in R!Render(res, a[1], a[2])
    BY DEF R!Attempts
  <1>2. \/ a \in R!ApiAnswers
        \/ a \in R!AppAnswers
        \/ a \in R!OpsAnswers
    <2>1. req.route \in {"api", "app", "ops"}
      BY DEF R!ResponsesTypeOK, R!Request
    <2> QED BY <2>1 DEF R!Answers
  <1>3. /\ a[1] \in {200, 201, 202, 204, 303, 401, 422, 503}
        /\ \/ a[2] = {}
           \/ \E piece \in {"json", "page", "fragment", "text"} : a[2] = {piece}
        /\ a[2] = {"fragment"} => a[1] \in {200, 422}
    <2>1. CASE a \in R!ApiAnswers
      BY <2>1 DEF R!ApiAnswers
    <2>2. CASE a \in R!AppAnswers
      BY <2>2 DEF R!AppAnswers
    <2>3. CASE a \in R!OpsAnswers
      BY <2>3 DEF R!OpsAnswers
    <2> QED BY <1>2, <2>1, <2>2, <2>3
  <1>4. a[1] \in R!Statuses
    BY <1>3 DEF R!Statuses
  <1>5. a[2] \in SUBSET R!Pieces /\ \A x, y \in a[2] : x = y
    <2>1. CASE a[2] = {}
      BY <2>1
    <2>2. ASSUME NEW piece \in {"json", "page", "fragment", "text"},
                 a[2] = {piece}
          PROVE  a[2] \in SUBSET R!Pieces /\ \A x, y \in a[2] : x = y
      BY <2>2 DEF R!Pieces
    <2> QED BY <1>3, <2>1, <2>2
  <1>6. /\ o.ok \in BOOLEAN
        /\ Clean(o.res)
        /\ o.res.committed => o.res.status = a[1]
        /\ ~o.ok /\ o.res.committed =>
               \/ o.res.body = {"halfPage"}
               \/ a[2] = {"fragment"} /\ a[1] # 200
    <2> DEFINE status == a[1]
               body == a[2]
    <2>1. /\ status \in R!Statuses
          /\ body \in SUBSET R!Pieces /\ \A x, y \in body : x = y
          /\ o \in R!Render(res, status, body)
      BY <1>1, <1>4, <1>5
    <2> HIDE DEF status, body
    <2>2. /\ o.ok \in BOOLEAN
          /\ Clean(o.res)
          /\ o.res.committed => o.res.status = status
          /\ ~o.ok /\ o.res.committed =>
                 \/ o.res.body = {"halfPage"}
                 \/ body = {"fragment"} /\ status # 200
      BY <2>1, RenderFirst
    <2> QED BY <2>2 DEF status, body
  <1>7. CASE a[2] = {"fragment"} /\ a[1] # 200
    <2>1. a[1] >= 400
      BY <1>3, <1>7
    <2> QED BY <1>6, <2>1 DEF Begun
  <1>8. CASE ~(a[2] = {"fragment"} /\ a[1] # 200)
    BY <1>6, <1>8 DEF Begun
  <1> QED BY <1>7, <1>8

\* The request leaves the chain.
LEMMA ChainStepSafe ==
    ASSUME ResponsesInv, pc = "chain", pc' = "log",
           Clean(res'), FailureInHand',
           trouble' \subseteq {"failed", "errorPage"},
           err' \in R!Errors \cup {R!NoError},
           err' # R!NoError => "failed" \in trouble',
           UNCHANGED <<req, record>>
    PROVE  ResponsesInv'
  <1>1. R!ResponsesTypeOK'
    BY DEF ResponsesInv, R!ResponsesTypeOK, Clean, ResponseType
  <1> QED BY <1>1 DEF ResponsesInv, FailureNotSuccess, R!FailureNotSuccess

LEMMA ResponsesStepInv == ResponsesInv /\ [R!ResponsesNext]_responseVars => ResponsesInv'
  <1> SUFFICES ASSUME ResponsesInv, [R!ResponsesNext]_responseVars
               PROVE  ResponsesInv'
    OBVIOUS
  <1>1. R!ResponsesTypeOK /\ Clean(res)
    BY DEF ResponsesInv
  <1>2. pc = "chain" => ~res.committed /\ err = R!NoError
    BY NewResponseClean DEF ResponsesInv
  <1>3. CASE R!Accept
    <2>1. res' \in ResponseType /\ Clean(res')
      BY <1>3, NewResponseClean DEF R!Accept, Clean
    <2>2. record' \in [logged: R!Statuses \cup {0}, counted: R!Statuses \cup {0}]
      BY <1>3 DEF R!Accept, R!NoRecord
    <2>3. /\ pc' = "chain"
          /\ req' \in R!Request
          /\ res' = R!NewResponse
          /\ err' = R!NoError
          /\ trouble' = {}
      BY <1>3 DEF R!Accept, R!Go
    <2>4. R!ResponsesTypeOK'
      BY <2>1, <2>2, <2>3 DEF R!ResponsesTypeOK, ResponseType
    <2> QED BY <2>1, <2>3, <2>4
            DEF ResponsesInv, FailureNotSuccess, R!FailureNotSuccess
  <1>4. ASSUME NEW e \in R!Errors, R!Fail(e) PROVE ResponsesInv'
    <2>1. /\ pc = "chain" /\ pc' = "log"
          /\ err' = e
          /\ trouble' = {"failed"}
          /\ UNCHANGED <<req, res, record>>
      BY <1>4 DEF R!Fail, R!Go
    <2>2. err' # R!NoError
      BY <1>4, <2>1 DEF R!Fail, R!Failures, R!HTTPError, R!Error, R!NoError
    <2>3. FailureInHand'
      BY <1>2, <2>1, <2>2 DEF FailureInHand, Begun
    <2> QED BY <1>1, <2>1, <2>3, ChainStepSafe
  <1>5. CASE R!RateLimited
    <2>1. /\ R!AnswerError(res, R!HTTPError(429))
          /\ pc = "chain" /\ pc' = "log" /\ UNCHANGED <<req, err, record>>
      BY <1>5 DEF R!RateLimited, R!Go
    <2>2. /\ Clean(res') /\ Begun(res')
          /\ trouble' \subseteq {"failed", "errorPage"}
          /\ ~res'.committed => "errorPage" \in trouble'
      BY <1>1, <1>2, <2>1, AnswerErrorSafe DEF Begun
    <2>3. FailureInHand'
      BY <2>2 DEF FailureInHand, Begun
    <2> QED BY <1>1, <1>2, <2>1, <2>2, <2>3, ChainStepSafe
  <1>6. CASE R!Recover
    <2>1. PICK r \in {res} \cup {o.res : o \in {a \in R!Attempts : ~a.ok}} :
              R!AnswerError(r, R!Internal)
      BY <1>6 DEF R!Recover
    <2>2. pc = "chain" /\ pc' = "log" /\ UNCHANGED <<req, err, record>>
      BY <1>6 DEF R!Recover, R!Go
    <2>3. Clean(r) /\ Begun(r)
      <3>1. CASE r = res
        BY <1>1, <1>2, <2>2, <3>1 DEF Begun
      <3>2. ASSUME NEW o \in R!Attempts, ~o.ok, r = o.res
            PROVE  Clean(r) /\ Begun(r)
        BY <1>1, <1>2, <2>2, <3>2, AttemptsSafe
      <3> QED BY <2>1, <3>1, <3>2
    <2>4. R!Internal \in R!Errors
      BY DEF R!Errors
    <2>5. /\ Clean(res') /\ Begun(res')
          /\ trouble' \subseteq {"failed", "errorPage"}
          /\ ~res'.committed => "errorPage" \in trouble'
      BY <2>1, <2>3, <2>4, AnswerErrorSafe
    <2>6. FailureInHand'
      BY <2>5 DEF FailureInHand, Begun
    <2> QED BY <1>2, <2>2, <2>5, <2>6, ChainStepSafe
  <1>7. CASE R!CsrfRefused
    <2>1. /\ pc = "chain" /\ pc' = "log"
          /\ res' = R!Write(res, 403, {"json"})
          /\ UNCHANGED <<req, err, record, trouble>>
      BY <1>7 DEF R!CsrfRefused, R!Go
    <2>2. 403 \in R!Statuses /\ {"json"} \in SUBSET R!Pieces
      BY DEF R!Statuses, R!Pieces
    <2>3. Clean(res')
      BY <1>1, <1>2, <2>1, <2>2, WriteFirst
    <2>4. trouble' = {}
      BY <2>1 DEF ResponsesInv
    <2>5. FailureInHand'
      BY <2>4 DEF FailureInHand
    <2> QED BY <1>2, <2>1, <2>3, <2>4, <2>5, ChainStepSafe
  <1>8. CASE R!Handle
    <2>1. PICK o \in R!Attempts :
              /\ res' = o.res
              /\ err' = IF o.ok THEN R!NoError ELSE R!Internal
              /\ trouble' = IF o.ok THEN {} ELSE {"failed"}
      BY <1>8 DEF R!Handle
    <2>2. pc = "chain" /\ pc' = "log" /\ UNCHANGED <<req, record>>
      BY <1>8 DEF R!Handle, R!Go
    <2>3. /\ o.ok \in BOOLEAN
          /\ Clean(o.res)
          /\ ~o.ok => Begun(o.res)
      BY <1>1, <1>2, <2>2, AttemptsSafe
    <2>4. R!Internal # R!NoError /\ R!Internal \in R!Errors
      BY DEF R!Internal, R!NoError, R!Error, R!Errors
    <2>5. /\ err' \in R!Errors \cup {R!NoError}
          /\ trouble' \subseteq {"failed", "errorPage"}
          /\ err' # R!NoError => "failed" \in trouble'
          /\ FailureInHand'
      BY <2>1, <2>3, <2>4 DEF FailureInHand, Begun
    <2> QED BY <2>1, <2>2, <2>3, <2>5, ChainStepSafe
  <1>9. CASE R!Log \/ R!Count
    <2>1. /\ pc \in {"log", "count"} /\ pc' \in {"count", "respond"}
          /\ UNCHANGED <<req, res, err, trouble>>
      BY <1>9 DEF R!Log, R!Count, R!Go
    <2>2. res.status \in R!Statuses \ {0}
      BY <1>1 DEF R!ResponsesTypeOK, R!Statuses
    <2>3. record' \in [logged: R!Statuses \cup {0}, counted: R!Statuses \cup {0}]
      BY <1>1, <1>9, <2>2 DEF R!Log, R!Count, R!ResponsesTypeOK
    <2>4. R!ResponsesTypeOK'
      BY <1>1, <2>1, <2>3 DEF R!ResponsesTypeOK
    <2> QED BY <1>1, <2>1, <2>4
            DEF ResponsesInv, FailureInHand, Begun, FailureNotSuccess,
                R!FailureNotSuccess
  <1>10. CASE R!HandleError
    <2>1. /\ R!AnswerError(res, err)
          /\ pc = "respond" /\ pc' = "sent"
          /\ err \in R!Errors
          /\ err' = R!NoError
          /\ UNCHANGED <<req, record>>
      BY <1>1, <1>10 DEF R!HandleError, R!Go, R!ResponsesTypeOK
    <2>2. Begun(res)
      BY <1>10, <2>1 DEF ResponsesInv, R!HandleError, FailureInHand
    <2>3. /\ Clean(res') /\ Begun(res')
          /\ trouble' \subseteq {"failed", "errorPage"}
          /\ ~res'.committed => "errorPage" \in trouble'
      BY <1>1, <2>1, <2>2, AnswerErrorSafe
    <2>4. R!ResponsesTypeOK'
      BY <1>1, <2>1, <2>3 DEF R!ResponsesTypeOK, Clean, ResponseType
    <2>5. FailureNotSuccess'
      BY <2>3 DEF FailureNotSuccess, R!FailureNotSuccess, R!Status, Begun, Clean
    <2> QED BY <2>1, <2>3, <2>4, <2>5 DEF ResponsesInv
  <1>11. CASE R!NoErrorToHandle
    <2>1. /\ pc = "respond" /\ pc' = "sent" /\ err = R!NoError
          /\ UNCHANGED <<req, res, err, record, trouble>>
      BY <1>11 DEF R!NoErrorToHandle, R!Go
    <2>2. R!ResponsesTypeOK'
      BY <1>1, <2>1 DEF R!ResponsesTypeOK
    <2>3. FailureNotSuccess'
      BY <2>1 DEF ResponsesInv, FailureInHand, Begun, Clean,
                  FailureNotSuccess, R!FailureNotSuccess, R!Status
    <2> QED BY <1>1, <2>1, <2>2, <2>3 DEF ResponsesInv
  <1>12. CASE R!Sent
    BY <1>1, <1>12 DEF R!Sent, R!Go, R!ResponsesTypeOK, ResponsesInv,
                       FailureNotSuccess, R!FailureNotSuccess
  <1>13. CASE UNCHANGED responseVars
    <2>1. UNCHANGED <<pc, req, res, err, record, trouble>>
      BY <1>13 DEF responseVars
    <2>2. R!ResponsesTypeOK' /\ Clean(res') /\ FailureNotSuccess'
      BY <1>1, <2>1 DEF R!ResponsesTypeOK, ResponsesInv, FailureNotSuccess,
                        R!FailureNotSuccess, R!Status
    <2>3. FailureInHand => FailureInHand'
      BY <2>1 DEF FailureInHand, Begun
    <2> QED BY <2>1, <2>2, <2>3 DEF ResponsesInv
  <1> QED BY <1>3, <1>4, <1>5, <1>6, <1>7, <1>8, <1>9, <1>10, <1>11, <1>12, <1>13
          DEF R!ResponsesNext

\* What the steps of MCWeb are to this part.
LEMMA WebStepResponses == [WebNext]_webVars => [R!ResponsesNext]_responseVars
  BY DEF WebNext, webVars, Csrf, Flash, Responses, Settings

LEMMA ResponsesInvariant == WebSpec => []ResponsesInv
  BY ResponsesInitInv, ResponsesStepInv, WebStepResponses, PTL DEF WebSpec

\* Whatever ended a request badly - an error, the handler's own renderer, a
\* panic, the rate limiter - ErrorHandler, whichever of its three callers calls
\* it, has it answered as a failure, but for the two ways out: half a page behind
\* a header that renderLayout had already sent, and an error page that cannot be
\* rendered either, where nothing is written.
THEOREM FailuresAnswered == WebSpec => []FailureNotSuccess
  <1>1. ResponsesInv => FailureNotSuccess
    BY DEF ResponsesInv
  <1> QED BY <1>1, ResponsesInvariant, PTL

\* Handlers, renderers, CSRFMiddleware and ErrorHandler never write one answer
\* behind another.
THEOREM BodiesSingle == WebSpec => []OneBody
  <1>1. ResponsesInv => OneBody
    BY DEF ResponsesInv, Clean, OneBody, R!OneBody
  <1> QED BY <1>1, ResponsesInvariant, PTL

-----------------------------------------------------------------------------
(* CsrfForms.  For a tab with form p and m under way, while the cookie is  *)
(* j: a form that nobody made stale carries the cookie.                    *)

FormOK(p, j) == p.token # NoToken /\ ~p.replaced => p.token = j

\* A request carries the cookie, unless it has changed since; a safe one that
\* carries none comes from a tab whose form is stale already, if it has one;
\* an unsafe one is stale only if its form is.
RequestOK(q, p, j) ==
    /\ ~q.raced => q.cookie = j
    /\ q.op \in Safe /\ q.cookie = NoToken => p.token = NoToken \/ p.replaced
    /\ q.op \in Unsafe =>
           /\ q.form # NoToken
           /\ ~p.replaced => q.form = p.token /\ q.cookie = p.token

\* A page brings a form for the cookie that holds once it has arrived; other
\* answers leave a form that is not stale as it is, and the cookie too.
ResponseOK(m, p, j) ==
    /\ m.body = "page" /\ ~m.raced =>
           m.form = IF m.cookie # NoToken THEN m.cookie ELSE j
    /\ m.body = "fragment" =>
           m.cookie = NoToken /\ (~p.replaced => m.form = p.token)
    /\ m.body = "nothing" /\ m.cookie # NoToken =>
           p.token = NoToken \/ p.replaced
    /\ m.body = "refusal" => m.cookie = NoToken /\ p.replaced

TabOK(p, m, j) ==
    /\ FormOK(p, j)
    /\ m.kind = "request" => RequestOK(m, p, j)
    /\ m.kind = "response" => ResponseOK(m, p, j)

CsrfInv == CsrfTypeOK /\ \A t \in Tabs : TabOK(page[t], net[t], jar)

LEMMA MessageShape ==
    ASSUME NEW m \in Request \cup Response \cup {Quiet}
    PROVE  /\ m.kind \in {"quiet", "request", "response"}
           /\ m.kind = "quiet" => m = Quiet
           /\ m.kind = "request" => m \in Request
           /\ m.kind = "response" => m \in Response
  <1>1. CASE m \in Request
    BY <1>1 DEF Request
  <1>2. CASE m \in Response
    BY <1>2 DEF Response
  <1>3. CASE m = Quiet
    BY <1>3 DEF Quiet
  <1> QED BY <1>1, <1>2, <1>3

LEMMA QuietTab ==
    ASSUME NEW p, NEW j, FormOK(p, j)
    PROVE  TabOK(p, Quiet, j)
  BY DEF TabOK, Quiet

\* The history of a change of the cookie.
Race(m) == IF m.kind # "quiet" THEN [m EXCEPT !.raced = TRUE] ELSE m
Replace(p) == [p EXCEPT !.replaced = TRUE]

\* A tab that saw the cookie change: what it shows and what it has under way
\* are marked, and nothing is claimed of them.
LEMMA RacedTab ==
    ASSUME NEW p \in Page, NEW m \in Request \cup Response \cup {Quiet},
           NEW j, NEW k, TabOK(p, m, j)
    PROVE  /\ Replace(p) \in Page
           /\ Race(m) \in Request \cup Response \cup {Quiet}
           /\ TabOK(Replace(p), Race(m), k)
  <1>1. /\ Replace(p) \in Page
        /\ Replace(p).replaced
        /\ FormOK(Replace(p), k)
    BY DEF Page, Replace, FormOK
  <1>2. CASE m \in Request
    <2>1. /\ Race(m) \in Request
          /\ Race(m).kind = "request"
          /\ Race(m).raced
          /\ Race(m).op = m.op /\ Race(m).form = m.form
      BY <1>2 DEF Request, Race
    <2>2. RequestOK(m, p, j)
      BY <1>2 DEF TabOK, Request
    <2>3. RequestOK(Race(m), Replace(p), k)
      BY <1>1, <2>1, <2>2 DEF RequestOK
    <2> QED BY <1>1, <2>1, <2>3 DEF TabOK
  <1>3. CASE m \in Response
    <2>1. /\ Race(m) \in Response
          /\ Race(m).kind = "response"
          /\ Race(m).raced
          /\ Race(m).body = m.body /\ Race(m).cookie = m.cookie
      BY <1>3 DEF Response, Race
    <2>2. ResponseOK(m, p, j)
      BY <1>3 DEF TabOK, Response
    <2>3. ResponseOK(Race(m), Replace(p), k)
      BY <1>1, <2>1, <2>2 DEF ResponseOK
    <2> QED BY <1>1, <2>1, <2>3 DEF TabOK
  <1>4. CASE m = Quiet
    BY <1>1, <1>4, QuietTab DEF Race, Quiet
  <1> QED BY <1>2, <1>3, <1>4

LEMMA TokensNotNone ==
    /\ NoToken \notin Tokens
    /\ NoToken \in Token
    /\ Tokens \subseteq Token
  BY TokenAssumption DEF NoToken, Token

LEMMA AnswerFields ==
    ASSUME NEW q \in Request, NEW cookie \in Token, NEW form \in Token,
           NEW body \in {"page", "fragment", "nothing", "broken", "refusal"}
    PROVE  LET m == Answer(q, cookie, form, body) IN
           /\ m \in Response
           /\ m.kind = "response"
           /\ m.cookie = cookie
           /\ m.form = form
           /\ m.body = body
           /\ m.raced = q.raced
  <1> DEFINE m == Answer(q, cookie, form, body)
  <1>1. q.raced \in BOOLEAN
    BY DEF Request
  <1>2. m = [kind |-> "response", cookie |-> cookie, form |-> form,
             raced |-> q.raced, body |-> body]
    BY DEF Answer
  <1>3. m \in Response
    BY <1>1, <1>2 DEF Response
  <1>4. /\ m.kind = "response"
        /\ m.cookie = cookie
        /\ m.form = form
        /\ m.body = body
        /\ m.raced = q.raced
    BY <1>2
  <1> QED BY <1>3, <1>4

\* The middleware and the handlers answer a request that is as it should be
\* as they should.
LEMMA ServeSafe ==
    ASSUME NEW q \in Request, NEW p \in Page, NEW j \in Token,
           RequestOK(q, p, j), FormOK(p, j),
           NEW a \in Tokens, NEW b \in Tokens, NEW m \in Answers(q, a, b)
    PROVE  m \in Response /\ ResponseOK(m, p, j)
  <1>1. /\ q.op \in Safe \cup Unsafe
        /\ q.cookie \in Token
        /\ q.form \in Token
    BY DEF Request
  <1> DEFINE ensured == EnsureCSRFCookie(q, a)
             error == Answer(q, ensured, NoToken, "nothing")
  <1>2. /\ ensured \in Token
        /\ ensured # NoToken => p.token = NoToken \/ p.replaced
        /\ q.cookie # NoToken => ensured = NoToken
    BY TokensNotNone DEF EnsureCSRFCookie, RequestOK
  <1>3. a # NoToken /\ b # NoToken /\ a \in Token /\ b \in Token
        /\ NoToken \in Token
    BY TokensNotNone
  <1> HIDE DEF ensured
  <1>4. error \in Response /\ ResponseOK(error, p, j)
    <2>1. /\ error \in Response
          /\ error.body = "nothing"
          /\ error.cookie = ensured
      BY <1>2, <1>3, AnswerFields
    <2> HIDE DEF error
    <2> QED BY <1>2, <2>1 DEF ResponseOK
  <1>5. CASE m \in LoginAnswers(q, a, b)
    <2>1. m = Answer(q, b, b, "page") \/ m = Answer(q, b, NoToken, "broken")
      BY <1>3, <1>5 DEF LoginAnswers, LastSet
    <2>2. CASE m = Answer(q, b, b, "page")
      <3>1. /\ m \in Response
            /\ m.body = "page"
            /\ m.cookie = b
            /\ m.form = b
        BY <1>3, <2>2, AnswerFields
      <3> QED BY <1>3, <3>1 DEF ResponseOK
    <2>3. CASE m = Answer(q, b, NoToken, "broken")
      <3>1. m \in Response /\ m.body = "broken"
        BY <1>3, <2>3, AnswerFields
      <3> QED BY <3>1 DEF ResponseOK
    <2> QED BY <2>1, <2>2, <2>3
  <1>6. CASE q.op \in Safe /\ m \in ListAnswers(q, a, b)
    <2>1. CASE q.cookie = NoToken
      <3>1. m = Answer(q, b, b, "page") \/ m = Answer(q, b, NoToken, "nothing")
        BY <1>3, <1>6, <2>1 DEF ListAnswers, LastSet
      <3>2. CASE m = Answer(q, b, b, "page")
        <4>1. /\ m \in Response
              /\ m.body = "page"
              /\ m.cookie = b
              /\ m.form = b
          BY <1>3, <3>2, AnswerFields
        <4> QED BY <1>3, <4>1 DEF ResponseOK
      <3>3. CASE q.op \in Safe /\ m = Answer(q, b, NoToken, "nothing")
        <4>1. m \in Response /\ m.body = "nothing"
          BY <1>3, <3>3, AnswerFields
        <4>2. p.token = NoToken \/ p.replaced
          BY <2>1, <3>3 DEF RequestOK
        <4> QED BY <4>1, <4>2 DEF ResponseOK
      <3> QED BY <1>6, <3>1, <3>2, <3>3
    <2>2. CASE q.cookie # NoToken
      <3>1. \/ m = Answer(q, NoToken, q.cookie, "page")
            \/ m = Answer(q, NoToken, NoToken, "nothing")
        BY <1>2, <1>6, <2>2 DEF ListAnswers, LastSet, ensured
      <3>2. CASE m = Answer(q, NoToken, q.cookie, "page")
        <4>1. /\ m \in Response
              /\ m.body = "page"
              /\ m.cookie = NoToken
              /\ m.form = q.cookie
              /\ m.raced = q.raced
          BY <1>1, <1>3, <3>2, AnswerFields
        <4>2. ~q.raced => q.cookie = j
          BY DEF RequestOK
        <4> QED BY <4>1, <4>2 DEF ResponseOK
      <3>3. CASE m = Answer(q, NoToken, NoToken, "nothing")
        <4>1. m \in Response /\ m.body = "nothing" /\ m.cookie = NoToken
          BY <1>3, <3>3, AnswerFields
        <4> QED BY <4>1 DEF ResponseOK
      <3> QED BY <3>1, <3>2, <3>3
    <2> QED BY <2>1, <2>2
  <1>7. CASE q.op \in Unsafe /\ ~Valid(q) /\ m = Answer(q, NoToken, NoToken, "refusal")
    <2>1. p.replaced
      BY <1>7 DEF RequestOK, Valid
    <2>2. /\ m \in Response
          /\ m.body = "refusal"
          /\ m.cookie = NoToken
      BY <1>3, <1>7, AnswerFields
    <2> QED BY <2>1, <2>2 DEF ResponseOK
  <1>8. CASE q.op \in Unsafe /\ Valid(q) /\ m = Answer(q, NoToken, q.cookie, "fragment")
    <2>1. ~p.replaced => q.cookie = p.token
      BY <1>8 DEF RequestOK
    <2>2. /\ m \in Response
          /\ m.body = "fragment"
          /\ m.cookie = NoToken
          /\ m.form = q.cookie
      BY <1>1, <1>3, <1>8, AnswerFields
    <2> QED BY <2>1, <2>2 DEF ResponseOK
  <1>9. \/ m = error
        \/ m \in LoginAnswers(q, a, b)
        \/ q.op \in Safe /\ m \in ListAnswers(q, a, b)
        \/ q.op \in Unsafe /\ ~Valid(q) /\ m = Answer(q, NoToken, NoToken, "refusal")
        \/ q.op \in Unsafe /\ Valid(q) /\ m = Answer(q, NoToken, q.cookie, "fragment")
    BY <1>1 DEF Answers, Safe, Unsafe, ensured
  <1> QED BY <1>4, <1>5, <1>6, <1>7, <1>8, <1>9

\* The answer arrives at its tab.
ArrivedPage(p, m) ==
    IF m.body = "page" THEN [token |-> m.form, replaced |-> m.raced]
    ELSE IF m.body = "fragment" THEN [p EXCEPT !.token = m.form]
    ELSE IF m.body = "broken" THEN Replace(p)
    ELSE p
ArrivedJar(m, j) == IF m.cookie = NoToken THEN j ELSE m.cookie

LEMMA ArriveOK ==
    ASSUME NEW p \in Page, NEW m \in Response, NEW j \in Token,
           FormOK(p, j), ResponseOK(m, p, j)
    PROVE  /\ ArrivedPage(p, m) \in Page
           /\ ArrivedJar(m, j) \in Token
           /\ FormOK(ArrivedPage(p, m), ArrivedJar(m, j))
  <1>1. /\ m.cookie \in Token
        /\ m.form \in Token
        /\ m.raced \in BOOLEAN
        /\ m.body \in {"page", "fragment", "nothing", "broken", "refusal"}
    BY DEF Response
  <1>2. ArrivedJar(m, j) \in Token
    BY <1>1 DEF ArrivedJar
  <1>3. CASE m.body = "page"
    <2>1. ArrivedPage(p, m) = [token |-> m.form, replaced |-> m.raced]
      BY <1>3 DEF ArrivedPage
    <2>2. ArrivedPage(p, m) \in Page
      BY <1>1, <2>1 DEF Page
    <2>3. FormOK(ArrivedPage(p, m), ArrivedJar(m, j))
      BY <1>3, <2>1 DEF FormOK, ResponseOK, ArrivedJar
    <2> QED BY <1>2, <2>2, <2>3
  <1>4. CASE m.body = "fragment"
    <2>1. /\ ArrivedPage(p, m) \in Page
          /\ ArrivedPage(p, m).token = m.form
          /\ ArrivedPage(p, m).replaced = p.replaced
      BY <1>1, <1>4 DEF ArrivedPage, Page
    <2>2. FormOK(ArrivedPage(p, m), ArrivedJar(m, j))
      BY <1>4, <2>1 DEF FormOK, ResponseOK, ArrivedJar
    <2> QED BY <1>2, <2>1, <2>2
  <1>5. CASE m.body = "broken"
    <2>1. /\ ArrivedPage(p, m) = Replace(p)
          /\ Replace(p) \in Page
          /\ Replace(p).replaced
      BY <1>5 DEF ArrivedPage, Replace, Page
    <2> QED BY <1>2, <2>1 DEF FormOK
  <1>6. CASE m.body \in {"nothing", "refusal"}
    <2>1. ArrivedPage(p, m) = p
      BY <1>6 DEF ArrivedPage
    <2> QED BY <1>2, <1>6, <2>1 DEF FormOK, ResponseOK, ArrivedJar
  <1> QED BY <1>1, <1>3, <1>4, <1>5, <1>6

LEMMA CsrfInitInv == WebInit => CsrfInv
  <1> SUFFICES ASSUME WebInit PROVE CsrfInv
    OBVIOUS
  <1>1. CsrfInit
    BY DEF WebInit
  <1>2. NoPage \in Page /\ FormOK(NoPage, jar)
    BY TokensNotNone DEF NoPage, Page, FormOK
  <1>3. CsrfTypeOK
    BY <1>1, <1>2, TokensNotNone DEF CsrfInit, CsrfTypeOK
  <1>4. \A t \in Tabs : TabOK(page[t], net[t], jar)
    BY <1>1, <1>2, QuietTab DEF CsrfInit
  <1> QED BY <1>3, <1>4 DEF CsrfInv

\* Steps that put m in place of what tab t has under way.
LEMMA CsrfNetStep ==
    ASSUME CsrfInv, NEW t \in Tabs, NEW m \in Request \cup Response \cup {Quiet},
           net' = [net EXCEPT ![t] = m], TabOK(page[t], m, jar),
           UNCHANGED <<jar, page>>
    PROVE  CsrfInv'
  <1>1. CsrfTypeOK'
    BY DEF CsrfInv, CsrfTypeOK
  <1>2. ASSUME NEW u \in Tabs PROVE TabOK(page[u], net'[u], jar)
    BY DEF CsrfInv, CsrfTypeOK
  <1> QED BY <1>1, <1>2 DEF CsrfInv

LEMMA SendSafe ==
    ASSUME CsrfInv, NEW t \in Tabs, NEW op \in Safe \cup Unsafe, Send(t, op)
    PROVE  CsrfInv'
  <1> DEFINE p == page[t]
             form == IF op \in Unsafe THEN p.token ELSE NoToken
             q == [kind |-> "request", op |-> op, cookie |-> jar,
                   form |-> form, raced |-> FALSE]
  <1>1. p \in Page /\ FormOK(p, jar) /\ jar \in Token
    BY DEF CsrfInv, CsrfTypeOK, TabOK
  <1>2. /\ form \in Token
        /\ op \in Unsafe => form = p.token /\ form # NoToken
    BY <1>1, TokensNotNone DEF Page, Send
  <1>3. /\ net' = [net EXCEPT ![t] = q]
        /\ UNCHANGED <<jar, page>>
    BY DEF Send
  <1> HIDE DEF form
  <1>4. /\ q \in Request
        /\ q.kind = "request"
        /\ q.op = op
        /\ q.cookie = jar
        /\ q.form = form
        /\ q.raced = FALSE
    BY <1>1, <1>2 DEF Request
  <1> HIDE DEF q, p
  <1>5. RequestOK(q, p, jar)
    BY <1>1, <1>2, <1>4 DEF RequestOK, FormOK
  <1>6. TabOK(p, q, jar)
    BY <1>1, <1>4, <1>5 DEF TabOK
  <1> QED BY <1>3, <1>4, <1>6, CsrfNetStep DEF p

LEMMA DeliverSafe ==
    ASSUME CsrfInv, NEW t \in Tabs, Deliver(t)
    PROVE  CsrfInv'
  <1> DEFINE m == net[t]
             others == IF m.cookie \notin {NoToken, jar} THEN Tabs \ {t} ELSE {}
             k == ArrivedJar(m, jar)
  <1>1. /\ \A u \in Tabs : /\ page[u] \in Page
                           /\ net[u] \in Request \cup Response \cup {Quiet}
                           /\ TabOK(page[u], net[u], jar)
        /\ jar \in Token
    BY DEF CsrfInv, CsrfTypeOK
  <1>2. /\ m \in Response
        /\ FormOK(page[t], jar)
        /\ ResponseOK(m, page[t], jar)
    BY <1>1, MessageShape DEF Deliver, TabOK
  <1>3. /\ ArrivedPage(page[t], m) \in Page
        /\ k \in Token
        /\ FormOK(ArrivedPage(page[t], m), k)
    BY <1>1, <1>2, ArriveOK
  <1>4. jar' = k
    BY DEF Deliver, ArrivedJar
  <1>5. page' = [u \in Tabs |-> IF u = t THEN ArrivedPage(page[t], m)
                                ELSE IF u \in others THEN Replace(page[u])
                                ELSE page[u]]
    BY DEF Deliver, RacedPage, ArrivedPage, Replace
  <1>6. net' = [u \in Tabs |-> IF u = t THEN Quiet
                               ELSE IF u \in others THEN Race(net[u])
                               ELSE net[u]]
    BY DEF Deliver, RacedNet, Race
  <1>7. ASSUME NEW u \in Tabs
        PROVE  /\ page'[u] \in Page
               /\ net'[u] \in Request \cup Response \cup {Quiet}
               /\ TabOK(page'[u], net'[u], jar')
    <2>1. CASE u = t
      BY <1>3, <1>4, <1>5, <1>6, <2>1, QuietTab
    <2>2. CASE u # t /\ u \in others
      BY <1>1, <1>4, <1>5, <1>6, <2>2, RacedTab
    <2>3. CASE u # t /\ u \notin others
      <3>1. k = jar
        BY <2>3 DEF ArrivedJar
      <3> QED BY <1>1, <1>4, <1>5, <1>6, <2>3, <3>1
    <2> QED BY <2>1, <2>2, <2>3
  <1>8. CsrfTypeOK'
    BY <1>3, <1>4, <1>5, <1>6, <1>7 DEF CsrfTypeOK
  <1> QED BY <1>7, <1>8 DEF CsrfInv

LEMMA CsrfStepInv == CsrfInv /\ [CsrfNext]_csrfVars => CsrfInv'
  <1> SUFFICES ASSUME CsrfInv, [CsrfNext]_csrfVars PROVE CsrfInv'
    OBVIOUS
  <1>1. ASSUME NEW t \in Tabs, NEW op \in Safe \cup Unsafe, Send(t, op)
        PROVE  CsrfInv'
    BY <1>1, SendSafe
  <1>2. ASSUME NEW t \in Tabs, NEW a \in Tokens, NEW b \in Tokens, Serve(t, a, b)
        PROVE  CsrfInv'
    <2>1. PICK m \in Answers(net[t], a, b) : net' = [net EXCEPT ![t] = m]
      BY <1>2 DEF Serve
    <2>2. /\ net[t] \in Request
          /\ page[t] \in Page
          /\ jar \in Token
          /\ FormOK(page[t], jar)
          /\ RequestOK(net[t], page[t], jar)
      BY <1>2, MessageShape DEF Serve, CsrfInv, CsrfTypeOK, TabOK
    <2>3. m \in Response /\ ResponseOK(m, page[t], jar)
      BY <2>1, <2>2, ServeSafe
    <2>4. TabOK(page[t], m, jar)
      BY <2>2, <2>3 DEF TabOK, Response
    <2>5. UNCHANGED <<jar, page>>
      BY <1>2 DEF Serve
    <2> QED BY <2>1, <2>3, <2>4, <2>5, CsrfNetStep
  <1>3. ASSUME NEW t \in Tabs, Deliver(t) PROVE CsrfInv'
    BY <1>3, DeliverSafe
  <1>4. ASSUME NEW t \in Tabs, Lose(t) PROVE CsrfInv'
    <2>1. TabOK(page[t], Quiet, jar)
      BY QuietTab DEF CsrfInv, TabOK
    <2> QED BY <1>4, <2>1, CsrfNetStep DEF Lose
  <1>5. CASE ForgetCookie
    <2>1. /\ jar' = NoToken
          /\ page' = [u \in Tabs |-> Replace(page[u])]
          /\ net' = [u \in Tabs |-> Race(net[u])]
      BY <1>5 DEF ForgetCookie, RacedPage, RacedNet, Race, Replace
    <2>2. ASSUME NEW u \in Tabs
          PROVE  /\ page'[u] \in Page
                 /\ net'[u] \in Request \cup Response \cup {Quiet}
                 /\ TabOK(page'[u], net'[u], jar')
      BY <2>1, RacedTab DEF CsrfInv, CsrfTypeOK
    <2>3. CsrfTypeOK'
      BY <2>1, <2>2, TokensNotNone DEF CsrfTypeOK
    <2> QED BY <2>2, <2>3 DEF CsrfInv
  <1>6. CASE UNCHANGED csrfVars
    BY <1>6 DEF csrfVars, CsrfInv, CsrfTypeOK
  <1> QED BY <1>1, <1>2, <1>3, <1>4, <1>5, <1>6 DEF CsrfNext

LEMMA WebStepCsrf == [WebNext]_webVars => [CsrfNext]_csrfVars
  BY DEF WebNext, webVars, Csrf, Flash, Responses, Settings

LEMMA CsrfInvariant == WebSpec => []CsrfInv
  BY CsrfInitInv, CsrfStepInv, WebStepCsrf, PTL DEF WebSpec

\* CSRFMiddleware refuses a form only because another tab's answer, the user, or
\* a login form of the same tab that could not be rendered changed the cookie
\* after the form was asked for.
THEOREM FormsRefusedRightly == WebSpec => []RefusedOnlyIfReplaced
  <1>1. CsrfInv => RefusedOnlyIfReplaced
    BY DEF CsrfInv, TabOK, ResponseOK, RefusedOnlyIfReplaced
  <1> QED BY <1>1, CsrfInvariant, PTL

-----------------------------------------------------------------------------
(* Flash.  What a tab has under way, m, as the messages it may yet show or *)
(* put back into the cookie.                                               *)

CarriedBy(m) == IF m.kind = "quiet" THEN {} ELSE m.carried
AnsweredBy(m) ==
    IF m.kind # "response" THEN {} ELSE m.shown \cup m.taken \cup m.cookie
HeldBy(m) == CarriedBy(m) \cup AnsweredBy(m)

\* A page that shows messages clears the cookie; a cookie with messages is
\* set; an answer that sets the cookie has a place for every message that the
\* request carried.
FlashAnswerOK(m) ==
    m.kind = "response" =>
        /\ m.shown # {} => m.sets /\ m.cookie = {}
        /\ m.cookie # {} => m.sets
        /\ m.sets => m.carried \subseteq AnsweredBy(m)

\* A message that an answer adds is nowhere else.
AddedOK(t, n) ==
    n \in AnsweredBy(flashNet[t]) \ CarriedBy(flashNet[t]) =>
        /\ n \notin flashJar
        /\ \A u \in Tabs \ {t} : n \notin HeldBy(flashNet[u])

\* A message that is not shared is with one tab at most, and once it has been
\* shown it is nowhere.
SharedOK(n) ==
    ~note[n].shared =>
        /\ \A t, u \in Tabs :
               n \in HeldBy(flashNet[t]) /\ n \in HeldBy(flashNet[u]) => t = u
        /\ note[n].seen > 0 =>
               /\ n \notin flashJar
               /\ \A t \in Tabs : n \notin HeldBy(flashNet[t])
        /\ note[n].seen # 2

\* A message is in the cookie or in an answer until something becomes of it:
\* that a request carries it does not count, its answer may leave it out.
KeptOK(n) ==
    note[n].issued =>
        \/ n \in flashJar
        \/ \E t \in Tabs : n \in AnsweredBy(flashNet[t])
        \/ note[n].seen > 0 \/ note[n].hurt \/ note[n].taken

FlashInv ==
    /\ F!FlashTypeOK
    /\ \A t \in Tabs : FlashAnswerOK(flashNet[t])
    /\ \A t \in Tabs, n \in Notes : AddedOK(t, n)
    /\ \A n \in Notes : SharedOK(n)
    /\ \A n \in Notes : KeptOK(n)

LEMMA FlashMessageShape ==
    ASSUME NEW m \in F!Request \cup F!Response \cup {F!Quiet}
    PROVE  /\ m.kind \in {"quiet", "request", "response"}
           /\ m.kind = "request" => m \in F!Request
           /\ m.kind = "response" => m \in F!Response
           /\ HeldBy(m) \subseteq Notes
           /\ AnsweredBy(m) \subseteq HeldBy(m)
           /\ CarriedBy(m) \subseteq HeldBy(m)
  <1>1. CASE m \in F!Request
    BY <1>1 DEF F!Request, HeldBy, CarriedBy, AnsweredBy
  <1>2. CASE m \in F!Response
    BY <1>2 DEF F!Response, HeldBy, CarriedBy, AnsweredBy
  <1>3. CASE m = F!Quiet
    BY <1>3 DEF F!Quiet, HeldBy, CarriedBy, AnsweredBy
  <1> QED BY <1>1, <1>2, <1>3

LEMMA QuietHoldsNothing ==
    /\ CarriedBy(F!Quiet) = {}
    /\ AnsweredBy(F!Quiet) = {}
    /\ HeldBy(F!Quiet) = {}
    /\ FlashAnswerOK(F!Quiet)
  BY DEF F!Quiet, HeldBy, CarriedBy, AnsweredBy, FlashAnswerOK

LEMMA AliveMeansHeld ==
    ASSUME NEW n
    PROVE  n \in F!Alive <=> \/ n \in flashJar
                             \/ \E t \in Tabs : n \in HeldBy(flashNet[t])
  <1>1. \A t \in Tabs : F!Carried(t) \cup F!InAnswer(t) = HeldBy(flashNet[t])
    BY DEF F!Carried, F!InAnswer, HeldBy, CarriedBy, AnsweredBy
  <1> QED BY <1>1 DEF F!Alive

\* The history of a message, one mark at a time.
LEMMA NoteShared ==
    ASSUME NEW s \in F!NoteState, NEW b \in BOOLEAN,
           NEW x, x = [s EXCEPT !.shared = b]
    PROVE  /\ x \in F!NoteState
           /\ x.shared = b
           /\ x.issued = s.issued /\ x.seen = s.seen /\ x.hurt = s.hurt
           /\ x.taken = s.taken
  BY DEF F!NoteState

LEMMA NoteHurt ==
    ASSUME NEW s \in F!NoteState, NEW b \in BOOLEAN,
           NEW x, x = [s EXCEPT !.hurt = b]
    PROVE  /\ x \in F!NoteState
           /\ x.hurt = b
           /\ x.issued = s.issued /\ x.seen = s.seen /\ x.shared = s.shared
           /\ x.taken = s.taken
  BY DEF F!NoteState

LEMMA NewNoteFields ==
    /\ F!NewNote \in F!NoteState
    /\ F!NewNote.seen = 0
    /\ F!OldNote \in F!NoteState
    /\ F!OldNote.seen = 0
    /\ ~F!OldNote.issued
  <1>1. F!NewNote \in F!NoteState /\ F!NewNote.seen = 0
    BY DEF F!NewNote, F!NoteState
  <1>2. F!OldNote = [F!NewNote EXCEPT !.issued = FALSE]
    BY DEF F!OldNote
  <1>3. /\ F!OldNote \in F!NoteState
        /\ F!OldNote.seen = F!NewNote.seen
        /\ F!OldNote.issued = FALSE
    BY <1>1, <1>2 DEF F!NoteState
  <1> QED BY <1>1, <1>3

LEMMA FlashInitInv == WebInit => FlashInv
  <1> SUFFICES ASSUME WebInit PROVE FlashInv
    OBVIOUS
  <1>1. /\ flashJar = {}
        /\ flashNet = [t \in Tabs |-> F!Quiet]
        /\ note = [n \in Notes |-> F!OldNote]
    BY DEF WebInit, F!FlashInit
  <1>2. F!FlashTypeOK
    BY <1>1, NewNoteFields DEF F!FlashTypeOK
  <1>3. \A t \in Tabs : FlashAnswerOK(flashNet[t]) /\ HeldBy(flashNet[t]) = {}
                        /\ AnsweredBy(flashNet[t]) = {}
    BY <1>1, QuietHoldsNothing
  <1>4. \A n \in Notes : SharedOK(n) /\ KeptOK(n)
    BY <1>1, <1>3, NewNoteFields DEF SharedOK, KeptOK
  <1>5. \A t \in Tabs, n \in Notes : AddedOK(t, n)
    BY <1>3 DEF AddedOK
  <1> QED BY <1>2, <1>3, <1>4, <1>5 DEF FlashInv

-----------------------------------------------------------------------------
LEMMA FlashSendSafe ==
    ASSUME FlashInv, NEW t \in Tabs,
           NEW op \in {"page", "poll", "signin"} \cup F!Posts,
           NEW htmx \in BOOLEAN, F!Send(t, op, htmx)
    PROVE  FlashInv'
  <1> DEFINE q == [kind |-> "request", op |-> op, htmx |-> htmx,
                   carried |-> flashJar]
             Met(n) == n \in flashJar /\ \E u \in Tabs \ {t} : n \in F!Carried(u)
  <1>1. /\ flashJar \subseteq Notes
        /\ flashNet \in [Tabs -> F!Request \cup F!Response \cup {F!Quiet}]
        /\ note \in [Notes -> F!NoteState]
        /\ flashNet[t].kind = "quiet"
    BY DEF FlashInv, F!FlashTypeOK, F!Send
  <1>2. /\ q \in F!Request
        /\ CarriedBy(q) = flashJar
        /\ AnsweredBy(q) = {}
        /\ HeldBy(q) = flashJar
        /\ FlashAnswerOK(q)
    BY <1>1 DEF F!Request, CarriedBy, AnsweredBy, HeldBy, FlashAnswerOK
  <1>3. /\ flashNet' = [flashNet EXCEPT ![t] = q]
        /\ flashJar' = flashJar
        /\ note' = [n \in Notes |-> [note[n] EXCEPT !.shared = @ \/ Met(n)]]
    BY DEF F!Send, F!Share
  <1> HIDE DEF q
  <1>4. \A u \in Tabs : flashNet'[u] = IF u = t THEN q ELSE flashNet[u]
    BY <1>1, <1>3
  <1>5. AnsweredBy(flashNet[t]) = {}
    BY <1>1 DEF AnsweredBy
  <1>6. ASSUME NEW n \in Notes
        PROVE  /\ note'[n] \in F!NoteState
               /\ note'[n].shared <=> note[n].shared \/ Met(n)
               /\ note'[n].issued = note[n].issued
               /\ note'[n].seen = note[n].seen
               /\ note'[n].hurt = note[n].hurt
               /\ note'[n].taken = note[n].taken
    <2> DEFINE b == note[n].shared \/ Met(n)
    <2>1. b \in BOOLEAN /\ note[n] \in F!NoteState
      BY <1>1
    <2>2. note'[n] = [note[n] EXCEPT !.shared = b]
      BY <1>3
    <2>3. b <=> note[n].shared \/ Met(n)
      OBVIOUS
    <2> HIDE DEF b, Met
    <2>4. /\ note'[n] \in F!NoteState
          /\ note'[n].shared = b
          /\ note'[n].issued = note[n].issued
          /\ note'[n].seen = note[n].seen
          /\ note'[n].hurt = note[n].hurt
          /\ note'[n].taken = note[n].taken
      BY <2>1, <2>2, NoteShared
    <2> QED BY <2>3, <2>4
  <1>7. F!FlashTypeOK'
    <2>1. note' \in [Notes -> F!NoteState]
      BY <1>3, <1>6
    <2> QED BY <1>1, <1>2, <1>3, <2>1 DEF F!FlashTypeOK
  <1>8. \A u \in Tabs : FlashAnswerOK(flashNet'[u])
    BY <1>2, <1>4 DEF FlashInv
  <1>9. ASSUME NEW u \in Tabs, NEW n \in Notes PROVE AddedOK(u, n)'
    <2>1. CASE u = t
      BY <1>2, <1>4, <2>1 DEF AddedOK
    <2>2. CASE u # t
      BY <1>2, <1>3, <1>4, <2>2 DEF AddedOK, FlashInv
    <2> QED BY <2>1, <2>2
  <1>10. ASSUME NEW n \in Notes PROVE SharedOK(n)'
    <2> SUFFICES ASSUME ~note'[n].shared PROVE SharedOK(n)'
      BY DEF SharedOK
    <2>1. ~note[n].shared /\ ~Met(n) /\ SharedOK(n)
      BY <1>6 DEF FlashInv
    <2>2. ASSUME n \in flashJar, NEW u \in Tabs \ {t}
          PROVE  n \notin HeldBy(flashNet[u])
      <3>1. n \notin CarriedBy(flashNet[u])
        BY <2>1, <2>2 DEF F!Carried, CarriedBy
      <3>2. n \notin AnsweredBy(flashNet[u])
        BY <2>2, <3>1 DEF FlashInv, AddedOK
      <3> QED BY <3>1, <3>2 DEF HeldBy
    <2> HIDE DEF Met
    <2>3. ASSUME NEW u \in Tabs, NEW v \in Tabs,
                 n \in HeldBy(flashNet'[u]), n \in HeldBy(flashNet'[v])
          PROVE  u = v
      <3>1. CASE u = t /\ v = t
        BY <3>1
      <3>2. CASE u = t /\ v # t
        BY <1>2, <1>4, <2>2, <2>3, <3>2
      <3>3. CASE u # t /\ v = t
        BY <1>2, <1>4, <2>2, <2>3, <3>3
      <3>4. CASE u # t /\ v # t
        BY <1>4, <2>1, <2>3, <3>4 DEF SharedOK
      <3> QED BY <3>1, <3>2, <3>3, <3>4
    <2>4. ASSUME note'[n].seen > 0
          PROVE  /\ n \notin flashJar'
                 /\ \A u \in Tabs : n \notin HeldBy(flashNet'[u])
      BY <1>2, <1>3, <1>4, <1>6, <2>1, <2>4 DEF SharedOK
    <2>5. note'[n].seen # 2
      BY <1>6, <2>1 DEF SharedOK
    <2> QED BY <2>3, <2>4, <2>5 DEF SharedOK
  <1>11. ASSUME NEW n \in Notes PROVE KeptOK(n)'
    <2>1. KeptOK(n)
      BY DEF FlashInv
    <2>2. \A u \in Tabs : n \in AnsweredBy(flashNet[u]) =>
              n \in AnsweredBy(flashNet'[u])
      BY <1>4, <1>5
    <2> QED BY <1>3, <1>6, <2>1, <2>2 DEF KeptOK
  <1> QED BY <1>7, <1>8, <1>9, <1>10, <1>11 DEF FlashInv

-----------------------------------------------------------------------------
\* a answers q and adds the messages in new to those that q carried.
ServedOK(a, q, new) ==
    /\ a \in F!Response
    /\ FlashAnswerOK(a)
    /\ CarriedBy(a) = CarriedBy(q)
    /\ AnsweredBy(a) \subseteq CarriedBy(q) \cup new
    /\ new \subseteq AnsweredBy(a)

LEMMA PlainServed ==
    ASSUME NEW q \in F!Request
    PROVE  ServedOK(F!Answer(q), q, {})
  <1> DEFINE a == F!Answer(q)
  <1>1. q.carried \subseteq Notes /\ q.kind = "request"
    BY DEF F!Request
  <1>2. a = [kind |-> "response", carried |-> q.carried, sets |-> FALSE,
             cookie |-> {}, shown |-> {}, taken |-> {}]
    BY DEF F!Answer
  <1> HIDE DEF a
  <1>3. a \in F!Response
    BY <1>1, <1>2 DEF F!Response
  <1> QED BY <1>1, <1>2, <1>3
          DEF ServedOK, FlashAnswerOK, CarriedBy, AnsweredBy, a

LEMMA ConsumeServed ==
    ASSUME NEW q \in F!Request, NEW new \in SUBSET Notes,
           NEW a \in F!ConsumeFlash(q, q.carried \cup new)
    PROVE  ServedOK(a, q, new)
  <1> DEFINE flash == q.carried \cup new
  <1>1. q.carried \subseteq Notes /\ q.kind = "request" /\ flash \subseteq Notes
    BY DEF F!Request
  <1>2. \/ a = [kind |-> "response", carried |-> q.carried, sets |-> TRUE,
                cookie |-> {}, shown |-> {}, taken |-> flash]
        \/ a = [kind |-> "response", carried |-> q.carried, sets |-> TRUE,
                cookie |-> {}, shown |-> flash, taken |-> {}]
    BY DEF F!ConsumeFlash, F!Answer
  <1>3. a \in F!Response
    <2> HIDE DEF flash
    <2>1. CASE a = [kind |-> "response", carried |-> q.carried, sets |-> TRUE,
                    cookie |-> {}, shown |-> {}, taken |-> flash]
      BY <1>1, <2>1 DEF F!Response
    <2>2. CASE a = [kind |-> "response", carried |-> q.carried, sets |-> TRUE,
                    cookie |-> {}, shown |-> flash, taken |-> {}]
      BY <1>1, <2>2 DEF F!Response
    <2> QED BY <1>2, <2>1, <2>2
  <1>4. /\ a.kind = "response"
        /\ a.carried = q.carried
        /\ a.sets = TRUE
        /\ a.cookie = {}
        /\ a.shown \cup a.taken \cup a.cookie = flash
    <2> HIDE DEF flash
    <2> QED BY <1>2
  <1>5. AnsweredBy(a) = flash /\ CarriedBy(a) = q.carried /\ CarriedBy(q) = q.carried
    BY <1>1, <1>4 DEF AnsweredBy, CarriedBy
  <1>6. FlashAnswerOK(a)
    BY <1>4, <1>5 DEF FlashAnswerOK
  <1> QED BY <1>3, <1>5, <1>6 DEF ServedOK

LEMMA WithFlashServed ==
    ASSUME NEW q \in F!Request, NEW new \in SUBSET Notes
    PROVE  ServedOK(F!WithFlash(q, q.carried \cup new), q, new)
  <1> DEFINE flash == q.carried \cup new
             a == F!WithFlash(q, flash)
  <1>1. q.carried \subseteq Notes /\ q.kind = "request" /\ flash \subseteq Notes
    BY DEF F!Request
  <1>2. /\ F!Answer(q) \in F!Response
        /\ F!Answer(q).kind = "response"
        /\ F!Answer(q).carried = q.carried
        /\ F!Answer(q).shown = {}
        /\ F!Answer(q).taken = {}
    BY <1>1 DEF F!Answer, F!Response
  <1>3. a = [F!Answer(q) EXCEPT !.sets = TRUE, !.cookie = flash]
    BY DEF F!WithFlash
  <1>4. /\ a \in F!Response
        /\ a.kind = "response"
        /\ a.carried = q.carried
        /\ a.sets = TRUE
        /\ a.cookie = flash
        /\ a.shown = {}
        /\ a.taken = {}
    <2> HIDE DEF a, flash
    <2> QED BY <1>1, <1>2, <1>3 DEF F!Response
  <1> HIDE DEF a
  <1>5. AnsweredBy(a) = flash /\ CarriedBy(a) = q.carried /\ CarriedBy(q) = q.carried
    BY <1>1, <1>4 DEF AnsweredBy, CarriedBy
  <1>6. FlashAnswerOK(a)
    BY <1>4, <1>5 DEF FlashAnswerOK
  <1> QED BY <1>4, <1>5, <1>6 DEF ServedOK, a

LEMMA PlainAnswersServed ==
    ASSUME NEW q \in F!Request, NEW a \in F!PlainAnswers(q)
    PROVE  ServedOK(a, q, {})
  <1>1. \/ a = F!Answer(q)
        \/ a \in F!ConsumeFlash(q, q.carried)
    BY DEF F!PlainAnswers
  <1> DEFINE none == {}
  <1>2. q.carried \cup none = q.carried /\ none \in SUBSET Notes
    OBVIOUS
  <1> HIDE DEF none
  <1>3. CASE a \in F!ConsumeFlash(q, q.carried \cup none)
    <2>1. ServedOK(a, q, none)
      BY <1>2, <1>3, ConsumeServed
    <2> QED BY <2>1 DEF none
  <1> QED BY <1>1, <1>2, <1>3, PlainServed

LEMMA FlashAnswersServed ==
    ASSUME NEW q \in F!Request, NEW n \in Notes, NEW a \in F!FlashAnswers(q, n)
    PROVE  ServedOK(a, q, {n})
  <1>1. \/ a = F!WithFlash(q, q.carried \cup {n})
        \/ a \in F!ConsumeFlash(q, q.carried \cup {n})
    BY DEF F!FlashAnswers, F!SetFlash
  <1>2. {n} \in SUBSET Notes
    OBVIOUS
  <1> QED BY <1>1, <1>2, ConsumeServed, WithFlashServed

\* The server answers; the messages it adds are nowhere yet.
LEMMA FlashServeSafe ==
    ASSUME FlashInv, NEW t \in Tabs, flashNet[t].kind = "request",
           NEW new \in SUBSET Notes, NEW a, ServedOK(a, flashNet[t], new),
           \A n \in new : n \notin F!Alive,
           flashNet' = [flashNet EXCEPT ![t] = a], flashJar' = flashJar,
           note' = [n \in Notes |-> IF n \in new THEN F!NewNote ELSE note[n]]
    PROVE  FlashInv'
  <1>1. /\ flashJar \subseteq Notes
        /\ flashNet \in [Tabs -> F!Request \cup F!Response \cup {F!Quiet}]
        /\ note \in [Notes -> F!NoteState]
    BY DEF FlashInv, F!FlashTypeOK
  <1>2. \A u \in Tabs : flashNet'[u] = IF u = t THEN a ELSE flashNet[u]
    BY <1>1
  <1>3. /\ AnsweredBy(flashNet[t]) = {}
        /\ HeldBy(flashNet[t]) = CarriedBy(flashNet[t])
        /\ HeldBy(a) = HeldBy(flashNet[t]) \cup new
        /\ AnsweredBy(a) \ CarriedBy(a) \subseteq new
        /\ new \subseteq AnsweredBy(a)
    BY DEF ServedOK, HeldBy, AnsweredBy
  <1>4. ASSUME NEW n \in new
        PROVE  n \notin flashJar /\ \A u \in Tabs : n \notin HeldBy(flashNet[u])
    BY <1>4, AliveMeansHeld
  <1>5. F!FlashTypeOK'
    <2>1. a \in F!Response
      BY DEF ServedOK
    <2> QED BY <1>1, <2>1, NewNoteFields DEF F!FlashTypeOK
  <1>6. \A u \in Tabs : FlashAnswerOK(flashNet'[u])
    BY <1>2 DEF FlashInv, ServedOK
  <1>7. ASSUME NEW u \in Tabs, NEW n \in Notes PROVE AddedOK(u, n)'
    <2> SUFFICES ASSUME n \in AnsweredBy(flashNet'[u]) \ CarriedBy(flashNet'[u])
                 PROVE  /\ n \notin flashJar
                        /\ \A v \in Tabs \ {u} : n \notin HeldBy(flashNet'[v])
      BY DEF AddedOK
    <2>1. CASE u = t
      BY <1>2, <1>3, <1>4, <2>1
    <2>2. CASE u # t
      <3>1. n \in HeldBy(flashNet[u])
        BY <1>2, <2>2 DEF HeldBy
      <3>2. n \notin new
        BY <1>4, <3>1
      <3>3. AddedOK(u, n)
        BY DEF FlashInv
      <3> QED BY <1>2, <1>3, <2>2, <3>2, <3>3 DEF AddedOK
    <2> QED BY <2>1, <2>2
  <1>8. ASSUME NEW n \in Notes PROVE SharedOK(n)'
    <2>1. CASE n \in new
      <3>1. note'[n].seen = 0
        BY <2>1, NewNoteFields
      <3>2. \A u \in Tabs : n \in HeldBy(flashNet'[u]) => u = t
        BY <1>2, <1>4, <2>1
      <3> QED BY <3>1, <3>2 DEF SharedOK
    <2>2. CASE n \notin new
      <3>1. note'[n] = note[n] /\ SharedOK(n)
        BY <2>2 DEF FlashInv
      <3>2. \A u \in Tabs : n \in HeldBy(flashNet'[u]) <=> n \in HeldBy(flashNet[u])
        BY <1>2, <1>3, <2>2
      <3> QED BY <3>1, <3>2 DEF SharedOK
    <2> QED BY <2>1, <2>2
  <1>9. ASSUME NEW n \in Notes PROVE KeptOK(n)'
    <2>1. CASE n \in new
      BY <1>2, <1>3, <2>1 DEF KeptOK
    <2>2. CASE n \notin new
      <3>1. note'[n] = note[n] /\ KeptOK(n)
        BY <2>2 DEF FlashInv
      <3>2. \A u \in Tabs : n \in AnsweredBy(flashNet[u]) =>
                n \in AnsweredBy(flashNet'[u])
        BY <1>2, <1>3
      <3> QED BY <3>1, <3>2 DEF KeptOK
    <2> QED BY <2>1, <2>2
  <1> QED BY <1>5, <1>6, <1>7, <1>8, <1>9 DEF FlashInv

-----------------------------------------------------------------------------
LEMMA FlashDeliverSafe ==
    ASSUME FlashInv, NEW t \in Tabs, F!Deliver(t)
    PROVE  FlashInv'
  <1> DEFINE a == flashNet[t]
             Struck(n) == a.sets /\ n \in flashJar \ (a.carried \cup a.cookie)
  <1>1. /\ flashJar \subseteq Notes
        /\ flashNet \in [Tabs -> F!Request \cup F!Response \cup {F!Quiet}]
        /\ note \in [Notes -> F!NoteState]
    BY DEF FlashInv, F!FlashTypeOK
  <1>2. /\ a \in F!Response
        /\ a.kind = "response"
        /\ FlashAnswerOK(a)
    BY <1>1, FlashMessageShape DEF F!Deliver, FlashInv
  <1>3. /\ flashJar' = IF a.sets THEN a.cookie ELSE flashJar
        /\ flashNet' = [flashNet EXCEPT ![t] = F!Quiet]
        /\ note' = F!Delivered(a)
    BY DEF F!Deliver
  <1>4. /\ a.cookie \subseteq Notes
        /\ a.sets \in BOOLEAN
        /\ CarriedBy(a) = a.carried
        /\ AnsweredBy(a) = a.shown \cup a.taken \cup a.cookie
        /\ HeldBy(a) = a.carried \cup AnsweredBy(a)
    BY <1>2 DEF F!Response, CarriedBy, AnsweredBy, HeldBy
  <1>5. /\ a.shown # {} => flashJar' = {}
        /\ flashJar' \subseteq flashJar \cup AnsweredBy(a)
        /\ a.cookie \subseteq flashJar'
        /\ a.sets => a.carried \subseteq AnsweredBy(a)
    BY <1>2, <1>3, <1>4 DEF FlashAnswerOK
  <1>6. \A u \in Tabs : flashNet'[u] = IF u = t THEN F!Quiet ELSE flashNet[u]
    BY <1>1, <1>3
  <1>7. ASSUME NEW n \in Notes
        PROVE  /\ note'[n] \in F!NoteState
               /\ note'[n].issued = note[n].issued
               /\ note'[n].shared = note[n].shared
               /\ note'[n].seen = IF n \in a.shown /\ note[n].seen < 2
                                  THEN note[n].seen + 1 ELSE note[n].seen
               /\ note'[n].taken <=> note[n].taken \/ n \in a.taken
               /\ note'[n].hurt <=> note[n].hurt \/ Struck(n)
               /\ note[n].seen \in 0..2
    <2> DEFINE i == IF n \in a.shown /\ note[n].seen < 2
                    THEN note[n].seen + 1 ELSE note[n].seen
               b == note[n].taken \/ n \in a.taken
               c == note[n].hurt \/ Struck(n)
    <2>1. note[n] \in F!NoteState /\ note[n].seen \in 0..2
      BY <1>1 DEF F!NoteState
    <2>2. i \in 0..2
      BY <2>1
    <2>0. b \in BOOLEAN /\ c \in BOOLEAN
      OBVIOUS
    <2>3. /\ b <=> note[n].taken \/ n \in a.taken
          /\ c <=> note[n].hurt \/ Struck(n)
      OBVIOUS
    <2>4. note'[n] = [note[n] EXCEPT !.seen = i, !.taken = b, !.hurt = c]
      BY <1>3 DEF F!Delivered
    <2> HIDE DEF b, c, i, a, Struck
    <2>5. /\ note'[n] \in F!NoteState
          /\ note'[n].seen = i /\ note'[n].taken = b /\ note'[n].hurt = c
          /\ note'[n].issued = note[n].issued
          /\ note'[n].shared = note[n].shared
      BY <2>0, <2>1, <2>2, <2>4 DEF F!NoteState
    <2> QED BY <2>1, <2>3, <2>5 DEF i
  <1> HIDE DEF a
  <1>8. F!FlashTypeOK'
    <2>1. note' \in [Notes -> F!NoteState]
      BY <1>3, <1>7 DEF F!Delivered
    <2> QED BY <1>1, <1>3, <1>4, <2>1 DEF F!FlashTypeOK
  <1>9. \A u \in Tabs : FlashAnswerOK(flashNet'[u])
    BY <1>6, QuietHoldsNothing DEF FlashInv
  <1>10. \A u \in Tabs : /\ HeldBy(flashNet'[u]) \subseteq HeldBy(flashNet[u])
                         /\ u = t => HeldBy(flashNet'[u]) = {}
                         /\ u # t => flashNet'[u] = flashNet[u]
    BY <1>6, QuietHoldsNothing
  <1>11. ASSUME NEW u \in Tabs, NEW n \in Notes PROVE AddedOK(u, n)'
    <2> SUFFICES ASSUME n \in AnsweredBy(flashNet'[u]) \ CarriedBy(flashNet'[u])
                 PROVE  /\ n \notin flashJar'
                        /\ \A v \in Tabs \ {u} : n \notin HeldBy(flashNet'[v])
      BY DEF AddedOK
    <2>1. u # t
      BY <1>6, QuietHoldsNothing
    <2>2. /\ n \notin flashJar
          /\ \A v \in Tabs \ {u} : n \notin HeldBy(flashNet[v])
      BY <1>10, <2>1 DEF FlashInv, AddedOK
    <2>3. n \notin AnsweredBy(a)
      BY <1>4, <2>1, <2>2 DEF a
    <2> QED BY <1>5, <1>10, <2>2, <2>3
  <1>12. ASSUME NEW n \in Notes PROVE SharedOK(n)'
    <2> SUFFICES ASSUME ~note'[n].shared PROVE SharedOK(n)'
      BY DEF SharedOK
    <2>1. ~note[n].shared /\ SharedOK(n)
      BY <1>7 DEF FlashInv
    <2>2. ASSUME NEW u \in Tabs, NEW v \in Tabs,
                 n \in HeldBy(flashNet'[u]), n \in HeldBy(flashNet'[v])
          PROVE  u = v
      BY <1>10, <2>1, <2>2 DEF SharedOK
    <2>3. CASE n \in a.shown
      <3>1. n \in HeldBy(flashNet[t])
        BY <1>4, <2>3 DEF a
      <3>2. note[n].seen = 0
        BY <1>7, <2>1, <3>1 DEF SharedOK
      <3>3. note'[n].seen = 1
        BY <1>7, <2>3, <3>2
      <3>4. flashJar' = {}
        BY <1>5, <2>3
      <3>5. \A u \in Tabs : n \notin HeldBy(flashNet'[u])
        BY <1>10, <2>1, <3>1 DEF SharedOK
      <3> QED BY <3>3, <3>4, <3>5 DEF SharedOK
    <2>4. CASE n \notin a.shown
      <3>1. note'[n].seen = note[n].seen
        BY <1>7, <2>4
      <3>2. ASSUME note[n].seen > 0
            PROVE  /\ n \notin flashJar'
                   /\ \A u \in Tabs : n \notin HeldBy(flashNet'[u])
        <4>1. n \notin flashJar /\ \A u \in Tabs : n \notin HeldBy(flashNet[u])
          BY <2>1, <3>2 DEF SharedOK
        <4>2. n \notin AnsweredBy(a)
          BY <1>4, <4>1 DEF a
        <4> QED BY <1>5, <1>10, <4>1, <4>2
      <3> QED BY <2>1, <2>2, <3>1, <3>2 DEF SharedOK
    <2> QED BY <2>3, <2>4
  <1>13. ASSUME NEW n \in Notes PROVE KeptOK(n)'
    <2> SUFFICES ASSUME note'[n].issued, n \notin flashJar',
                        note'[n].seen = 0, ~note'[n].hurt, ~note'[n].taken
                 PROVE  \E u \in Tabs : n \in AnsweredBy(flashNet'[u])
      BY <1>7 DEF KeptOK, F!NoteState
    <2>1. /\ note[n].issued /\ note[n].seen = 0 /\ ~note[n].hurt
          /\ ~note[n].taken /\ ~Struck(n)
          /\ n \notin a.taken /\ n \notin a.shown
      BY <1>7
    <2>2. n \notin AnsweredBy(a)
      BY <1>4, <1>5, <2>1
    <2>3. n \notin flashJar
      <3>1. CASE a.sets
        BY <1>4, <1>5, <2>1, <2>2, <3>1 DEF Struck
      <3>2. CASE ~a.sets
        BY <1>3, <3>2
      <3> QED BY <3>1, <3>2
    <2>4. PICK u \in Tabs : n \in AnsweredBy(flashNet[u])
      BY <2>1, <2>3 DEF FlashInv, KeptOK
    <2>5. u # t
      BY <2>2, <2>4 DEF a
    <2> QED BY <1>6, <2>4, <2>5
  <1> QED BY <1>8, <1>9, <1>11, <1>12, <1>13 DEF FlashInv

\* Requests and answers are lost, cookies run out: nothing comes to be held,
\* and what is no longer anywhere is marked.
LEMMA FlashLossSafe ==
    ASSUME FlashInv,
           NEW m \in [Tabs -> F!Request \cup F!Response \cup {F!Quiet}],
           \A t \in Tabs : m[t] = flashNet[t] \/ m[t] = F!Quiet,
           NEW lost \in SUBSET Notes,
           flashNet' = m, flashJar' \subseteq flashJar,
           note' = [n \in Notes |-> [note[n] EXCEPT !.hurt = @ \/ n \in lost]],
           \A n \in Notes \ lost :
               /\ n \in flashJar => n \in flashJar'
               /\ (\E t \in Tabs : n \in AnsweredBy(flashNet[t])) =>
                      \/ n \in flashJar'
                      \/ \E t \in Tabs : n \in AnsweredBy(m[t])
    PROVE  FlashInv'
  <1>1. note \in [Notes -> F!NoteState] /\ flashJar \subseteq Notes
    BY DEF FlashInv, F!FlashTypeOK
  <1>2. ASSUME NEW n \in Notes
        PROVE  /\ note'[n] \in F!NoteState
               /\ note'[n].hurt <=> note[n].hurt \/ n \in lost
               /\ note'[n].issued = note[n].issued
               /\ note'[n].shared = note[n].shared
               /\ note'[n].seen = note[n].seen
               /\ note'[n].taken = note[n].taken
    <2> DEFINE b == note[n].hurt \/ n \in lost
    <2>0. b \in BOOLEAN
      OBVIOUS
    <2>1. b <=> note[n].hurt \/ n \in lost
      OBVIOUS
    <2>2. note'[n] = [note[n] EXCEPT !.hurt = b] /\ note[n] \in F!NoteState
      BY <1>1
    <2> HIDE DEF b
    <2>3. /\ note'[n] \in F!NoteState
          /\ note'[n].hurt = b
          /\ note'[n].issued = note[n].issued
          /\ note'[n].shared = note[n].shared
          /\ note'[n].seen = note[n].seen
          /\ note'[n].taken = note[n].taken
      BY <2>0, <2>2, NoteHurt
    <2> QED BY <2>1, <2>3
  <1>3. F!FlashTypeOK'
    <2>1. note' \in [Notes -> F!NoteState]
      BY <1>2
    <2> QED BY <1>1, <2>1 DEF F!FlashTypeOK
  <1>4. ASSUME NEW t \in Tabs
        PROVE  /\ FlashAnswerOK(m[t])
               /\ HeldBy(m[t]) \subseteq HeldBy(flashNet[t])
               /\ m[t] = flashNet[t] \/ AnsweredBy(m[t]) = {}
    BY QuietHoldsNothing DEF FlashInv
  <1>5. ASSUME NEW t \in Tabs, NEW n \in Notes PROVE AddedOK(t, n)'
    <2>1. AddedOK(t, n)
      BY DEF FlashInv
    <2> QED BY <1>4, <2>1 DEF AddedOK
  <1>6. ASSUME NEW n \in Notes PROVE SharedOK(n)'
    <2>1. SharedOK(n)
      BY DEF FlashInv
    <2> QED BY <1>2, <1>4, <2>1 DEF SharedOK
  <1>7. ASSUME NEW n \in Notes PROVE KeptOK(n)'
    <2>1. KeptOK(n)
      BY DEF FlashInv
    <2> QED BY <1>2, <2>1 DEF KeptOK
  <1> QED BY <1>3, <1>4, <1>5, <1>6, <1>7 DEF FlashInv

LEMMA FlashStepInv == FlashInv /\ [F!FlashNext]_flashVars => FlashInv'
  <1> SUFFICES ASSUME FlashInv, [F!FlashNext]_flashVars PROVE FlashInv'
    OBVIOUS
  <1>0. /\ flashJar \subseteq Notes
        /\ flashNet \in [Tabs -> F!Request \cup F!Response \cup {F!Quiet}]
        /\ note \in [Notes -> F!NoteState]
    BY DEF FlashInv, F!FlashTypeOK
  <1>1. ASSUME NEW t \in Tabs, NEW op \in {"page", "poll", "signin"} \cup F!Posts,
               NEW htmx \in BOOLEAN, F!Send(t, op, htmx)
        PROVE  FlashInv'
    BY <1>1, FlashSendSafe
  <1>2. ASSUME NEW t \in Tabs, F!Serve(t) PROVE FlashInv'
    <2>1. PICK a \in F!PlainAnswers(flashNet[t]) :
              flashNet' = [flashNet EXCEPT ![t] = a]
      BY <1>2 DEF F!Serve
    <2>2. /\ flashNet[t].kind = "request" /\ flashJar' = flashJar /\ note' = note
          /\ flashNet[t] \in F!Request
      BY <1>0, <1>2, FlashMessageShape DEF F!Serve
    <2>3. ServedOK(a, flashNet[t], {})
      BY <2>1, <2>2, PlainAnswersServed
    <2>4. note' = [n \in Notes |-> IF n \in {} THEN F!NewNote ELSE note[n]]
      BY <1>0, <2>2
    <2>5. {} \in SUBSET Notes /\ \A n \in {} : n \notin F!Alive
      OBVIOUS
    <2> QED BY <2>1, <2>2, <2>3, <2>4, <2>5, FlashServeSafe
  <1>3. ASSUME NEW t \in Tabs, NEW k \in Notes, F!ServeFlash(t, k)
        PROVE  FlashInv'
    <2>1. PICK a \in F!FlashAnswers(flashNet[t], k) :
              flashNet' = [flashNet EXCEPT ![t] = a]
      BY <1>3 DEF F!ServeFlash
    <2>2. /\ flashNet[t].kind = "request" /\ flashJar' = flashJar
          /\ note' = [note EXCEPT ![k] = F!NewNote]
          /\ k \notin F!Alive
          /\ flashNet[t] \in F!Request
      BY <1>0, <1>3, FlashMessageShape DEF F!ServeFlash
    <2>3. ServedOK(a, flashNet[t], {k})
      BY <2>1, <2>2, FlashAnswersServed
    <2>4. note' = [n \in Notes |-> IF n \in {k} THEN F!NewNote ELSE note[n]]
      BY <1>0, <2>2
    <2>5. {k} \in SUBSET Notes /\ \A n \in {k} : n \notin F!Alive
      BY <2>2
    <2> QED BY <2>1, <2>2, <2>3, <2>4, <2>5, FlashServeSafe
  <1>4. ASSUME NEW t \in Tabs, F!Deliver(t) PROVE FlashInv'
    BY <1>4, FlashDeliverSafe
  <1>5. ASSUME NEW t \in Tabs, F!Lose(t) PROVE FlashInv'
    <2> DEFINE m == [flashNet EXCEPT ![t] = F!Quiet]
               lost == AnsweredBy(flashNet[t]) \ flashJar
    <2>1. /\ flashNet' = m
          /\ flashJar' = flashJar
          /\ note' = [n \in Notes |-> [note[n] EXCEPT !.hurt = @ \/ n \in lost]]
      BY <1>5 DEF F!Lose, F!InAnswer, AnsweredBy
    <2>2. lost \in SUBSET Notes
      BY <1>0, FlashMessageShape
    <2>3. /\ m \in [Tabs -> F!Request \cup F!Response \cup {F!Quiet}]
          /\ \A u \in Tabs : m[u] = IF u = t THEN F!Quiet ELSE flashNet[u]
      BY <1>0
    <2>4. \A n \in Notes \ lost :
              (\E u \in Tabs : n \in AnsweredBy(flashNet[u])) =>
                  \/ n \in flashJar
                  \/ \E u \in Tabs : n \in AnsweredBy(m[u])
      BY <2>3
    <2> HIDE DEF m, lost
    <2> QED BY <2>1, <2>2, <2>3, <2>4, FlashLossSafe
  <1>6. CASE F!Expire
    <2>1. /\ flashNet' = flashNet
          /\ flashJar' = {}
          /\ note' = [n \in Notes |-> [note[n] EXCEPT !.hurt = @ \/ n \in flashJar]]
      BY <1>6 DEF F!Expire
    <2> QED BY <1>0, <2>1, FlashLossSafe
  <1>7. CASE UNCHANGED flashVars
    BY <1>7 DEF flashVars, FlashInv, F!FlashTypeOK, AddedOK, SharedOK, KeptOK
  <1> QED BY <1>1, <1>2, <1>3, <1>4, <1>5, <1>6, <1>7 DEF F!FlashNext

LEMMA WebStepFlash == [WebNext]_webVars => [F!FlashNext]_flashVars
  BY DEF WebNext, webVars, Csrf, Flash, Responses, Settings

LEMMA FlashInvariant == WebSpec => []FlashInv
  BY FlashInitInv, FlashStepInv, WebStepFlash, PTL DEF WebSpec

\* ConsumeFlash: a message is shown a second time only where two requests
\* under way at once both carried it.
THEOREM ShownOnceUnlessShared == WebSpec => []ShownTwiceOnlyIfShared
  <1>1. FlashInv => ShownTwiceOnlyIfShared
    BY DEF FlashInv, SharedOK, ShownTwiceOnlyIfShared, F!ShownTwiceOnlyIfShared
  <1> QED BY <1>1, FlashInvariant, PTL

\* SetFlash, ConsumeFlash and the handlers lose no message: until a page has
\* shown it, it is in the cookie or on its way, or a fragment, a page that could
\* not be rendered, the network, its age or an answer to an older request took
\* it.
THEOREM MessagesAccountedFor == WebSpec => []LostOnlyIfSwallowed
  <1>1. ASSUME FlashInv, NEW n \in Notes, note[n].issued
        PROVE  F!Accounted(n) \/ note[n].taken
    <2>1. KeptOK(n)
      BY <1>1 DEF FlashInv
    <2>2. n \in flashJar \/ (\E t \in Tabs : n \in AnsweredBy(flashNet[t])) =>
              n \in F!Alive
      BY AliveMeansHeld DEF HeldBy
    <2> QED BY <1>1, <2>1, <2>2 DEF KeptOK, F!Accounted
  <1>2. FlashInv => LostOnlyIfSwallowed
    BY <1>1 DEF LostOnlyIfSwallowed, F!LostOnlyIfSwallowed
  <1> QED BY <1>2, FlashInvariant, PTL

-----------------------------------------------------------------------------
\* The cookies, the forms, the messages and answers under way and the records
\* keep their types: no handler makes a malformed cookie or status.
THEOREM WebTyped == WebSpec => []WebTypeOK
  <1>1. CsrfInv /\ FlashInv /\ ResponsesInv => WebTypeOK
    BY DEF CsrfInv, FlashInv, ResponsesInv, WebTypeOK
  <1> QED BY <1>1, CsrfInvariant, FlashInvariant, ResponsesInvariant, PTL
=============================================================================

----------------------------- MODULE Responses -----------------------------
(***************************************************************************)
(* How a request is answered: the middleware chain of NewEcho in           *)
(* internal/platform/httpx/server.go, the renderers of render.go,          *)
(* ErrorHandler of errors.go, and what the middlewares of                  *)
(* internal/platform/logging and internal/platform/metrics record of it.   *)
(*                                                                         *)
(* Echo calls ErrorHandler when an error has come back through the whole   *)
(* chain, logging and metrics included; the rate limiter and Recover call  *)
(* it themselves, inside the chain.  What was written first stays: the     *)
(* status is sent with the first byte of the body.                         *)
(*                                                                         *)
(* Requests share nothing here; the model follows one after the other.     *)
(***************************************************************************)
EXTENDS Naturals

VARIABLES
    pc,         \* where the request is
    req,        \* what ErrorHandler looks at
    res,        \* c.Response()
    err,        \* what the chain is returning
    record,     \* the status that logging and metrics saw
    trouble     \* history: "failed", the request came to a bad end;
                \* "errorPage", so did ErrorHandler's answer to that

responseVars == <<pc, req, res, err, record, trouble>>

-----------------------------------------------------------------------------
(* route: c.Path() starts with /api, or is a page, or neither (ops).       *)
(* accept: no Accept header, application/json, anything else.              *)

Request == [route: {"api", "app", "ops"}, htmx: BOOLEAN,
            accept: {"none", "json", "other"}]

\* Echo's response after reset: 200, nothing written.
NewResponse == [status |-> 200, committed |-> FALSE, body |-> {}]

\* An error is one of Echo's, with its code, wraps a sentinel of errors.go, or
\* is any other (a renderer's, a panic).
Error(is) == [is |-> is, code |-> 0]
HTTPError(code) == [is |-> "HTTPError", code |-> code]
NoError == Error("nil")
Internal == Error("other")

\* Body limit, router and method apply to all routes; the rest is what the
\* services return.  The login page handles its own errors.
Failures(route) ==
    {HTTPError(code) : code \in {404, 405, 413}} \cup
    {Error(is) : is \in
        IF route = "ops" THEN {} ELSE
            {"ErrNotFound", "ErrValidation", "ErrBadRequest",
             "ErrPermissionDenied", "ErrInternal"} \cup
            (IF route = "api" THEN {"ErrConflict", "ErrUnauthorized"} ELSE {})}
Errors == (UNION {Failures(route) : route \in {"api", "app", "ops"}}) \cup {Internal}

Pieces == {"json", "page", "halfPage", "fragment", "halfFragment", "alert",
           "text"}
Statuses == {200, 201, 202, 204, 303, 400, 401, 403, 404, 405, 409, 413, 422,
             429, 500, 503}

\* What handlers write when they succeed: status and body.
ApiAnswers == ({200, 201, 202} \X {{"json"}}) \cup {<<204, {}>>}
AppAnswers == ({200, 401, 422} \X {{"page"}})
              \cup ({200, 422} \X {{"fragment"}}) \cup {<<303, {}>>}
OpsAnswers == ({200, 503} \X {{"json"}}) \cup {<<401, {}>>, <<200, {"text"}>>}
Answers(route) ==
    CASE route = "api" -> ApiAnswers
      [] route = "app" -> AppAnswers
      [] route = "ops" -> OpsAnswers

-----------------------------------------------------------------------------
(* Writing.  Each operator is the response r afterwards; what is already   *)
(* committed keeps its status.                                             *)

Write(r, status, body) ==
    [status |-> IF r.committed THEN r.status ELSE status,
     committed |-> TRUE, body |-> r.body \cup body]

\* Mutant: the header is written before the page is executed.
RenderLayoutEarly(r, status) ==
    {[ok |-> TRUE, res |-> Write(r, status, {"page"})],
     [ok |-> FALSE, res |-> Write(r, status, {})],
     [ok |-> FALSE, res |-> Write(r, status, {"halfPage"})]}

\* renderLayout: the page is executed into a buffer, then the header is
\* written, then the layout straight to the connection.  Either may fail.
RenderLayout(r, status) ==
    {[ok |-> TRUE, res |-> Write(r, status, {"page"})],
     [ok |-> FALSE, res |-> r],
     [ok |-> FALSE, res |-> Write(r, status, {"halfPage"})]}

\* RenderFragment executes into a buffer; RenderFragmentStatus, used for 422,
\* writes the header first.
RenderFragment(r, status) ==
    {[ok |-> TRUE, res |-> Write(r, status, {"fragment"})],
     [ok |-> FALSE, res |-> IF status = 200 THEN r
                            ELSE Write(r, status, {"halfFragment"})]}

Render(r, status, body) ==
    CASE body = {"page"} -> RenderLayout(r, status)
      [] body = {"fragment"} -> RenderFragment(r, status)
      [] OTHER -> {[ok |-> TRUE, res |-> Write(r, status, body)]}

\* Mutant: the switch has no default.
MapErrorNoDefault(e) ==
    CASE e.is = "HTTPError" -> e.code
      [] e.is = "ErrNotFound" -> 404
      [] e.is = "ErrValidation" -> 422
      [] e.is = "ErrBadRequest" -> 400
      [] e.is = "ErrConflict" -> 409
      [] e.is = "ErrUnauthorized" -> 401
      [] e.is = "ErrPermissionDenied" -> 403
      [] OTHER -> 0

\* MapError, and he.Code of Echo's errors.
MapError(e) ==
    CASE e.is = "HTTPError" -> e.code
      [] e.is = "ErrNotFound" -> 404
      [] e.is = "ErrValidation" -> 422
      [] e.is = "ErrBadRequest" -> 400
      [] e.is = "ErrConflict" -> 409
      [] e.is = "ErrUnauthorized" -> 401
      [] e.is = "ErrPermissionDenied" -> 403
      [] OTHER -> 500

WantsHTML(q) == q.htmx \/ (q.accept = "other" /\ q.route # "api")

\* Mutant: the test of Committed is missing.
ErrorHandlerAgain(r, e) ==
    IF ~WantsHTML(req) THEN Render(r, MapError(e), {"json"})
    ELSE IF req.htmx THEN Render(r, MapError(e), {"alert"})
    ELSE RenderLayout(r, MapError(e))

\* ErrorHandler: nothing once the answer has begun; else JSON, an alert for
\* htmx or an error page.  That the page cannot be rendered is ignored.
ErrorHandler(r, e) ==
    IF r.committed THEN {[ok |-> TRUE, res |-> r]}
    ELSE IF ~WantsHTML(req) THEN Render(r, MapError(e), {"json"})
    ELSE IF req.htmx THEN Render(r, MapError(e), {"alert"})
    ELSE RenderLayout(r, MapError(e))

-----------------------------------------------------------------------------
NoRecord == [logged |-> 0, counted |-> 0]

ResponsesInit ==
    /\ pc = "idle"
    /\ req \in Request
    /\ res = NewResponse
    /\ err = NoError
    /\ record = NoRecord
    /\ trouble = {}

Go(step) == pc' = step

\* An error is answered, and that an error page cannot be rendered is ignored.
AnswerError(r, e) ==
    \E o \in ErrorHandler(r, e) :
        /\ res' = o.res
        /\ trouble' = {"failed"} \cup (IF o.ok THEN {} ELSE {"errorPage"})

\* What a handler that has something to say may make of the response.
Attempts == UNION {Render(res, a[1], a[2]) : a \in Answers(req.route)}

\* ServeHTTP resets a pooled context; the request enters the chain.
Accept ==
    /\ pc = "idle"
    /\ Go("chain")
    /\ req' \in Request
    /\ res' = NewResponse
    /\ err' = NoError
    /\ record' = NoRecord
    /\ trouble' = {}

\* BodyLimit, the router's NotFoundHandler, and handlers: an error comes back
\* and nothing is written.
Fail(e) ==
    /\ pc = "chain"
    /\ e \in Failures(req.route)
    /\ err' = e
    /\ trouble' = {"failed"}
    /\ Go("log")
    /\ UNCHANGED <<req, res, record>>

\* RateLimiter: c.Error(ErrRateLimitExceeded), then nil.
RateLimited ==
    /\ pc = "chain"
    /\ AnswerError(res, HTTPError(429))
    /\ Go("log")
    /\ UNCHANGED <<req, err, record>>

\* CSRFMiddleware answers itself.
CsrfRefused ==
    /\ pc = "chain"
    /\ req.route = "app"
    /\ res' = Write(res, 403, {"json"})
    /\ Go("log")
    /\ UNCHANGED <<req, err, record, trouble>>

\* The handler answers, or returns the error of its renderer, which may have
\* begun to write.
Handle ==
    /\ pc = "chain"
    /\ \E o \in Attempts :
           /\ res' = o.res
           /\ err' = IF o.ok THEN NoError ELSE Internal
           /\ trouble' = IF o.ok THEN {} ELSE {"failed"}
    /\ Go("log")
    /\ UNCHANGED <<req, record>>

\* Mutant: Recover swallows the panic.
RecoverSwallows ==
    /\ pc = "chain"
    /\ trouble' = {"failed"}
    /\ Go("log")
    /\ UNCHANGED <<req, res, err, record>>

\* A handler panics, before it has written anything or where its renderer would
\* have failed: Recover calls c.Error.
Recover ==
    /\ pc = "chain"
    /\ \E r \in {res} \cup {o.res : o \in {a \in Attempts : ~a.ok}} :
           AnswerError(r, Internal)
    /\ Go("log")
    /\ UNCHANGED <<req, err, record>>

\* logging.Middleware after next(c).
Log ==
    /\ pc = "log"
    /\ record' = [record EXCEPT !.logged = res.status]
    /\ Go("count")
    /\ UNCHANGED <<req, res, err, trouble>>

\* metrics.Middleware after next(c).
Count ==
    /\ pc = "count"
    /\ record' = [record EXCEPT !.counted =
           IF res.status # 0 THEN res.status
           ELSE IF err # NoError THEN 500 ELSE 200]
    /\ Go("respond")
    /\ UNCHANGED <<req, res, err, trouble>>

\* ServeHTTP hands what came out of the chain to ErrorHandler.
HandleError ==
    /\ pc = "respond" /\ err # NoError
    /\ AnswerError(res, err)
    /\ err' = NoError
    /\ Go("sent")
    /\ UNCHANGED <<req, record>>

\* Nothing came out.
NoErrorToHandle ==
    /\ pc = "respond" /\ err = NoError
    /\ Go("sent")
    /\ UNCHANGED <<req, res, err, record, trouble>>

\* net/http sends the answer, with status 200 if nobody wrote one.
Sent ==
    /\ pc = "sent"
    /\ Go("idle")
    /\ UNCHANGED <<req, res, err, record, trouble>>

ResponsesNext ==
    \/ Accept
    \/ \E e \in Errors : Fail(e)
    \/ RateLimited \/ CsrfRefused \/ Handle \/ Recover
    \/ Log \/ Count
    \/ HandleError \/ NoErrorToHandle \/ Sent

ResponsesSpec == ResponsesInit /\ [][ResponsesNext]_responseVars

-----------------------------------------------------------------------------
(* Safety.                                                                 *)

\* Types of the request, the response and the records.
ResponsesTypeOK ==
    /\ pc \in {"idle", "chain", "log", "count", "respond", "sent"}
    /\ req \in Request
    /\ res \in [status: Statuses, committed: BOOLEAN, body: SUBSET Pieces]
    /\ err \in Errors \cup {NoError}
    /\ record \in [logged: Statuses \cup {0}, counted: Statuses \cup {0}]
    /\ trouble \subseteq {"failed", "errorPage"}

Status == IF res.committed THEN res.status ELSE 200

\* A request that came to a bad end - an error of a middleware, the router, a
\* handler or its renderer, a panic, the rate limiter - is answered with the
\* status of a failure, with two exceptions.  renderLayout writes the header
\* before the layout, so that a layout that fails or panics leaves half a page
\* behind the status of success (render.go:204).  And where nothing was written
\* and ErrorHandler cannot render its page either, net/http sends an empty 200.
FailureNotSuccess ==
    pc = "sent" /\ "failed" \in trouble =>
        \/ Status >= 400
        \/ res.body = {"halfPage"}
        \/ "errorPage" \in trouble /\ res.body = {}

\* The two callers of ErrorHandler, the handlers and the renderers never write
\* one answer behind another.
OneBody == \A x, y \in res.body : x = y

\* metrics.go counts by status_code: http_requests_total has, for every answer,
\* the status it was sent with.
CountedAsSent ==
    pc = "sent" => record.counted = Status
=============================================================================

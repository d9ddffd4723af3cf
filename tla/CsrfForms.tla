----------------------------- MODULE CsrfForms -----------------------------
(***************************************************************************)
(* The CSRF cookie: CSRFMiddleware of internal/auth/middleware.go and the  *)
(* handlers that put a token into the forms they render.  The server keeps *)
(* nothing: a form is accepted if the token in it equals the cookie that   *)
(* comes with it.  One browser, several tabs, one cookie; a response sets  *)
(* the cookie when it arrives, in whatever order the responses arrive.     *)
(*                                                                         *)
(* AUTH_DISABLED is false: otherwise the middleware passes every request.  *)
(***************************************************************************)
EXTENDS Naturals

CONSTANTS
    Tabs,       \* tabs of the browser, one request in flight each
    Tokens      \* numbers standing for 16 random bytes; 0 is no token

ASSUME TokenAssumption == Tokens \subseteq Nat \ {0}

VARIABLES
    jar,    \* the cookie csrf_token
    page,   \* the form each tab shows
    net     \* the request or response under way for each tab

csrfVars == <<jar, page, net>>

-----------------------------------------------------------------------------
NoToken == 0
Token == Tokens \cup {NoToken}

\* token: the hidden field, or data-csrf of the dialog.  replaced is history:
\* since the form was asked for, the cookie was changed by an answer to another
\* tab, by the user, or by a login form of this tab that could not be rendered.
Page == [token: Token, replaced: BOOLEAN]
NoPage == [token |-> NoToken, replaced |-> FALSE]

\* list: a page with a form; poll: the status fragment of a report; login: the
\* login form; submit: create, start or delete through htmx; signin: the login
\* form is sent.  cookie and form are what the request carries; raced is
\* history: the cookie changed since the request was sent.
Safe == {"list", "poll", "login"}
Unsafe == {"submit", "signin"}
Request == [kind: {"request"}, op: Safe \cup Unsafe, cookie: Token,
            form: Token, raced: BOOLEAN]

\* cookie: the last Set-Cookie, if any; form: the token in the body; body:
\* what the tab makes of it.
Response == [kind: {"response"}, cookie: Token, form: Token, raced: BOOLEAN,
             body: {"page", "fragment", "nothing", "broken", "refusal"}]
Quiet == [kind |-> "quiet"]

Field(m, f) == IF f \in DOMAIN m THEN {m[f]} ELSE {}
InUse == {jar} \cup {page[t].token : t \in Tabs} \cup
         UNION {Field(net[t], "cookie") \cup Field(net[t], "form") : t \in Tabs}

\* rand.Read: tokens are new.  Which of the unused numbers is taken does not
\* matter; a and b are the two that middleware and handler may draw.
Drawn(a, b) ==
    LET unused == Tokens \ InUse IN
    /\ a \in unused /\ b \in unused /\ a < b
    /\ \A x \in unused : x \in {a, b} \/ b < x

-----------------------------------------------------------------------------
(* The middleware and the handlers, as the response to request q.          *)

Answer(q, cookie, form, body) ==
    [kind |-> "response", cookie |-> cookie, form |-> form, raced |-> q.raced,
     body |-> body]

\* ensureCSRFCookie: a safe request without the cookie gets one, a.
EnsureCSRFCookie(q, a) ==
    IF q.op \in Safe /\ q.cookie = NoToken THEN a ELSE NoToken

\* Mutants: the middleware calls next before ensureCSRFCookie; the two values
\* run together in one header.
LastSetSwapped(first, second) == IF first # NoToken THEN first ELSE second
LastSetJoined(first, second) ==
    IF first # NoToken /\ second # NoToken THEN 10 * first + second
    ELSE first + second

\* Two Set-Cookie headers for one name: the browser keeps the second.
LastSet(first, second) == IF second # NoToken THEN second ELSE first

\* h.csrf of the page handlers: the request's cookie goes into the form; for
\* want of one a second token is drawn, set and shown.  Then the page may fail
\* to render.
ListAnswers(q, a, b) ==
    LET own == IF q.cookie = NoToken THEN b ELSE NoToken
        cookie == LastSet(EnsureCSRFCookie(q, a), own)
    IN  {Answer(q, cookie, IF q.cookie = NoToken THEN b ELSE q.cookie, "page"),
         Answer(q, cookie, NoToken, "nothing")}

\* LoginForm, and Login with wrong credentials: always a new token, whether or
\* not RenderAuth succeeds.
LoginAnswers(q, a, b) ==
    LET cookie == LastSet(EnsureCSRFCookie(q, a), b) IN
    {Answer(q, cookie, b, "page"), Answer(q, cookie, NoToken, "broken")}

\* Mutant: only the header is read, not the hidden field of a plain form.
ValidHeaderOnly(q) ==
    q.op = "submit" /\ q.cookie # NoToken /\ q.cookie = q.form

\* CSRFMiddleware on an unsafe method.
Valid(q) == q.cookie # NoToken /\ q.form # NoToken /\ q.cookie = q.form

\* The answers to q.  Any handler may fail before it has set a cookie; a login
\* that succeeds redirects, which leaves cookie and form alone as an error does.
Answers(q, a, b) ==
    LET error == Answer(q, EnsureCSRFCookie(q, a), NoToken, "nothing") IN
    CASE q.op = "list"  -> ListAnswers(q, a, b) \cup {error}
      [] q.op = "poll"  -> {error}
      [] q.op = "login" -> LoginAnswers(q, a, b) \cup {error}
      [] q.op \in Unsafe /\ ~Valid(q) ->
             {Answer(q, NoToken, NoToken, "refusal")}
      [] q.op = "submit" /\ Valid(q) ->
             {Answer(q, NoToken, q.cookie, "fragment"), error}
      [] q.op = "signin" /\ Valid(q) ->
             LoginAnswers(q, a, b) \cup {error}

-----------------------------------------------------------------------------
CsrfInit ==
    /\ jar = NoToken
    /\ page = [t \in Tabs |-> NoPage]
    /\ net = [t \in Tabs |-> Quiet]

\* A tab sends a request; forms are sent from a page that has one.  The
\* redirect after a login is the list that the tab asks for next.
Send(t, op) ==
    /\ net[t].kind = "quiet"
    /\ op \in Unsafe => page[t].token # NoToken
    /\ net' = [net EXCEPT ![t] =
           [kind |-> "request", op |-> op, cookie |-> jar,
            form |-> IF op \in Unsafe THEN page[t].token ELSE NoToken,
            raced |-> FALSE]]
    /\ UNCHANGED <<jar, page>>

Serve(t, a, b) ==
    /\ net[t].kind = "request"
    /\ Drawn(a, b)
    /\ \E m \in Answers(net[t], a, b) : net' = [net EXCEPT ![t] = m]
    /\ UNCHANGED <<jar, page>>

\* History: everybody in ts has seen the cookie change.
RacedNet(ts) ==
    [u \in Tabs |-> IF u \in ts /\ net[u].kind # "quiet"
                    THEN [net[u] EXCEPT !.raced = TRUE] ELSE net[u]]
RacedPage(ts) ==
    [u \in Tabs |-> IF u \in ts THEN [page[u] EXCEPT !.replaced = TRUE]
                    ELSE page[u]]

\* The answer arrives.  A fragment renews the token of the dialog; htmx does
\* not swap in a refusal or an error, and the form stays as it is.  Where an
\* error takes the place of a page, going back shows the form again.
Deliver(t) ==
    LET m == net[t]
        others == IF m.cookie \notin {NoToken, jar} THEN Tabs \ {t} ELSE {}
    IN
    /\ m.kind = "response"
    /\ jar' = IF m.cookie = NoToken THEN jar ELSE m.cookie
    /\ page' = [RacedPage(others) EXCEPT
           ![t] = IF m.body = "page"
                  THEN [token |-> m.form, replaced |-> m.raced]
                  ELSE IF m.body = "fragment" THEN [@ EXCEPT !.token = m.form]
                  ELSE IF m.body = "broken" THEN [@ EXCEPT !.replaced = TRUE]
                  ELSE @]
    /\ net' = [RacedNet(others) EXCEPT ![t] = Quiet]

\* The request or its answer is lost, or the user stops waiting.
Lose(t) ==
    /\ net[t].kind # "quiet"
    /\ net' = [net EXCEPT ![t] = Quiet]
    /\ UNCHANGED <<jar, page>>

\* The user deletes the cookies, or restarts the browser: it has no Expires.
ForgetCookie ==
    /\ jar # NoToken
    /\ jar' = NoToken
    /\ page' = RacedPage(Tabs)
    /\ net' = RacedNet(Tabs)

CsrfNext ==
    \/ \E t \in Tabs :
           \/ \E op \in Safe \cup Unsafe : Send(t, op)
           \/ \E a, b \in Tokens : Serve(t, a, b)
           \/ Deliver(t)
           \/ Lose(t)
    \/ ForgetCookie

CsrfSpec == CsrfInit /\ [][CsrfNext]_csrfVars

-----------------------------------------------------------------------------
(* Safety.                                                                 *)

\* Types of the cookie, of the forms and of the messages under way.
CsrfTypeOK ==
    /\ jar \in Token
    /\ page \in [Tabs -> Page]
    /\ net \in [Tabs -> Request \cup Response \cup {Quiet}]

\* A form is refused only because the cookie was changed after the form was
\* asked for: by another tab's answer, by the user, or by a login form of the
\* same tab that set it and then failed to render.  Neither the two tokens a
\* first visit draws nor the tab's own polls, submissions and other errors do
\* it, however the tab's request overlaps with those of other tabs.
RefusedOnlyIfReplaced ==
    \A t \in Tabs :
        net[t].kind = "response" /\ net[t].body = "refusal" =>
            page[t].replaced
=============================================================================

-------------------------------- MODULE Auth --------------------------------
(***************************************************************************)
(* Users, sessions, API tokens and the principal a request gets:           *)
(* internal/auth (service, middleware, api, web login) over its tables,    *)
(* with authentication enabled.                                            *)
(*                                                                         *)
(* Every request first goes through Middleware, which looks its credential *)
(* up in up to three statements, then reaches its handler.  Requests of    *)
(* one client and of several interleave between any two statements; a      *)
(* client learns of a session or a token only by the response.             *)
(*                                                                         *)
(* A user is named by the email, which is unique and never changes.  UUIDs *)
(* and tokens are drawn from finite sets, and drawn again where that can   *)
(* make no difference: no client or request mentions the identifier any    *)
(* more, and its row is deleted or, for tokens, which the code never       *)
(* deletes, has expired.                                                   *)
(***************************************************************************)
EXTENDS RelativeTime

CONSTANTS
    Emails,         \* the accounts
    Passwords,
    Clients,        \* browsers and API clients
    Knows,          \* the passwords each client can type
    SessionIds,
    TokenIds,
    Requests,       \* bounds the requests in flight
    Nothing,        \* no account, no password, no credential
    SessionTTL,     \* AUTH_SESSION_TTL, which config.go does not check
    TokenTTL,       \* AUTH_TOKEN_TTL, nor this
    StoreFails      \* whether statements may fail and answers be lost

ASSUME AuthAssumption ==
    /\ Knows \in [Clients -> SUBSET Passwords]
    /\ SessionTTL \in Int
    /\ TokenTTL \in Int
    /\ StoreFails \in BOOLEAN
    /\ Nothing \notin Emails \cup Passwords \cup SessionIds \cup TokenIds

VARIABLES
    users,      \* auth.users: the password of each registered account
    sessions,   \* auth.sessions
    tokens,     \* auth.api_tokens
    jar,        \* what each client holds: a session cookie, a token
    req         \* the requests in flight

authVars == <<users, sessions, tokens, jar, req>>

-----------------------------------------------------------------------------
(* A credential row: whose it is, when it expires (-1: in the past).  A    *)
(* negative lifetime issues credentials that have already expired.         *)

Max2(a, b) == IF a > b THEN a ELSE b
CredentialRow == [user: Emails \cup {Nothing},
                  expiresAt: -1..Max2(0, Max2(SessionTTL, TokenTTL))]
NoRow == [user |-> Nothing, expiresAt |-> -1]
NewCredential(u, ttl) == [user |-> u, expiresAt |-> Clamp(ttl, 1)]

\* Mutants: no expiry at all; expired an instant too early.
NeverExpired(row) == FALSE
ExpiredEarly(row) == row.expiresAt <= 0

\* time.Now().After(ExpiresAt).
Expired(row) == row.expiresAt < 0

Exists(row) == row.user # Nothing
Accepted(row) == Exists(row) /\ ~Expired(row)

\* What the properties mean by a live credential, whatever the code tests:
\* issued, not deleted, and its lifetime not yet over.
Live(row) == Exists(row) /\ row.expiresAt >= 0

(* A request.  pc names the next statement: "session", "bearer", "user"    *)
(* and "purge" belong to Middleware; "handle" is the handler's first;      *)
(* "create" and "token" are Login's and CreateBearerToken's INSERT; at     *)
(* "reply" the response is on its way.  live and failed are history: the   *)
(* credential was live when the request was sent; the store failed it.     *)

Kinds == {"use", "register", "login", "token", "logout"}
NeedsPassword == {"register", "login", "token"}

NoRequest == [pc |-> "none", client |-> Nothing, kind |-> "use",
              email |-> Nothing, password |-> Nothing, cookie |-> Nothing,
              token |-> Nothing, user |-> Nothing, new |-> Nothing,
              live |-> FALSE, failed |-> FALSE]

\* The row the request's credential names; the Authorization header wins.
Credential(r) ==
    IF r.token # Nothing THEN tokens[r.token]
    ELSE IF r.cookie # Nothing THEN sessions[r.cookie] ELSE NoRow

Set(q, r) == req' = [req EXCEPT ![q] = r]
Done(q) == Set(q, NoRequest)
At(q, step) == req[q].pc = step

\* The handler goes on: all it still uses is who asked for what, and the
\* identifier it has created.
Continue(q, step, id) ==
    Set(q, [NoRequest EXCEPT !.pc = step, !.client = req[q].client,
                             !.kind = req[q].kind, !.email = req[q].email,
                             !.new = id])

\* The lookup is over.  The handlers of register, login and token look at
\* nothing but what was typed, neither at the principal nor at the cookie.
Handle(r) ==
    IF r.kind \in NeedsPassword
    THEN [NoRequest EXCEPT !.pc = "handle", !.client = r.client,
                           !.kind = r.kind, !.email = r.email,
                           !.password = r.password]
    ELSE [r EXCEPT !.pc = "handle"]

\* The handler runs as u, or anonymously.
RunAs(q, u) == Set(q, Handle([req[q] EXCEPT !.user = u]))
RunAnonymous(q) == RunAs(q, Nothing)

\* Nobody can mention the identifier any more.
FreshSession(s) ==
    /\ ~Exists(sessions[s])
    /\ \A c \in Clients : jar[c].cookie # s
    /\ \A q \in Requests : req[q].cookie # s /\ req[q].new # s
FreshToken(t) ==
    /\ ~Live(tokens[t])
    /\ \A c \in Clients : jar[c].token # t
    /\ \A q \in Requests : req[q].token # t /\ req[q].new # t

\* INSERT INTO auth.users: email is UNIQUE.
CreateUser(u, p) == users[u] = Nothing /\ users' = [users EXCEPT ![u] = p]

\* DELETE FROM auth.sessions.
DeleteSession(s) == sessions' = [sessions EXCEPT ![s] = NoRow]

AuthInit ==
    /\ users = [u \in Emails |-> Nothing]
    /\ sessions = [s \in SessionIds |-> NoRow]
    /\ tokens = [t \in TokenIds |-> NoRow]
    /\ jar = [c \in Clients |-> [cookie |-> Nothing, token |-> Nothing]]
    /\ req = [q \in Requests |-> NoRequest]

-----------------------------------------------------------------------------
(* Sending, and Middleware.                                                *)

\* Client c sends a request; the cookie always goes along, the bearer header
\* if the client chooses to.
Send(q, c, kind, bearer, u, p) ==
    LET r == [NoRequest EXCEPT
                  !.client = c, !.kind = kind, !.email = u, !.password = p,
                  !.cookie = jar[c].cookie,
                  !.token = IF bearer THEN jar[c].token ELSE Nothing]
    IN
    /\ At(q, "none")
    /\ bearer => jar[c].token # Nothing
    /\ IF kind \in NeedsPassword THEN u \in Emails /\ p \in Knows[c]
                                 ELSE u = Nothing /\ p = Nothing
    /\ Set(q, [r EXCEPT
           !.live = Live(Credential(r)),
           !.pc = IF r.token # Nothing THEN "bearer"
                  ELSE IF r.cookie # Nothing THEN "session" ELSE "handle"])
    /\ UNCHANGED <<users, sessions, tokens, jar>>

\* GetSession or GetAPITokenByHash finds a row that has not expired.
LookupLive(q) ==
    /\ req[q].pc \in {"session", "bearer"}
    /\ Accepted(Credential(req[q]))
    /\ Set(q, [req[q] EXCEPT !.pc = "user", !.user = Credential(req[q]).user])
    /\ UNCHANGED <<users, sessions, tokens, jar>>

\* It finds none, or an expired token: anonymous.
LookupMisses(q) ==
    /\ \/ At(q, "session") /\ ~Exists(Credential(req[q]))
       \/ At(q, "bearer") /\ ~Accepted(Credential(req[q]))
    /\ RunAnonymous(q)
    /\ UNCHANGED <<users, sessions, tokens, jar>>

\* PrincipalFromSession finds an expired session: DeleteSession comes next.
LookupExpired(q) ==
    /\ At(q, "session")
    /\ Exists(Credential(req[q])) /\ Expired(Credential(req[q]))
    /\ Set(q, [req[q] EXCEPT !.pc = "purge"])
    /\ UNCHANGED <<users, sessions, tokens, jar>>

\* DeleteSession; its error is ignored.
Purge(q) ==
    /\ At(q, "purge")
    /\ \/ DeleteSession(req[q].cookie)
       \/ StoreFails /\ UNCHANGED sessions
    /\ RunAnonymous(q)
    /\ UNCHANGED <<users, tokens, jar>>

\* GetUserByID finds the account: the request has its principal.
LookupUser(q) ==
    /\ At(q, "user")
    /\ users[req[q].user] # Nothing
    /\ RunAs(q, req[q].user)
    /\ UNCHANGED <<users, sessions, tokens, jar>>

\* A statement of the lookup fails: the error is dropped, anonymous.
LookupFails(q) ==
    /\ StoreFails
    /\ req[q].pc \in {"session", "bearer", "user"}
    /\ Set(q, Handle([req[q] EXCEPT !.user = Nothing, !.failed = TRUE]))
    /\ UNCHANGED <<users, sessions, tokens, jar>>

-----------------------------------------------------------------------------
(* Handlers.                                                               *)

\* A protected operation runs with the request's principal and answers.
Use(q) ==
    /\ At(q, "handle") /\ req[q].kind = "use"
    /\ Done(q)
    /\ UNCHANGED <<users, sessions, tokens, jar>>

\* The second account of an email fails; any error is reported as a conflict,
\* an answer that was lost included.
Register(q) ==
    /\ At(q, "handle") /\ req[q].kind = "register"
    /\ \/ CreateUser(req[q].email, req[q].password)
       \/ /\ users[req[q].email] # Nothing \/ StoreFails
          /\ UNCHANGED users
    /\ Done(q)
    /\ UNCHANGED <<sessions, tokens, jar>>

\* Mutant: bcrypt's verdict is not looked at.
LoginMatchesUnchecked(q) ==
    /\ At(q, "handle") /\ req[q].kind \in {"login", "token"}
    /\ users[req[q].email] # Nothing
    /\ Continue(q, "create", Nothing)
    /\ UNCHANGED <<users, sessions, tokens, jar>>

\* Login: the account exists and bcrypt accepts the password.
LoginMatches(q) ==
    /\ At(q, "handle") /\ req[q].kind \in {"login", "token"}
    /\ users[req[q].email] = req[q].password
    /\ Continue(q, "create", Nothing)
    /\ UNCHANGED <<users, sessions, tokens, jar>>

\* Login: unknown account, wrong password, or the lookup fails.
LoginRefused(q) ==
    /\ At(q, "handle") /\ req[q].kind \in {"login", "token"}
    /\ users[req[q].email] # req[q].password \/ StoreFails
    /\ Done(q)
    /\ UNCHANGED <<users, sessions, tokens, jar>>

\* Login's CreateSession.  /token does it too, and tells nobody the session.
CreateSession(q, s) ==
    /\ At(q, "create")
    /\ FreshSession(s)
    /\ sessions' = [sessions EXCEPT ![s] = NewCredential(req[q].email, SessionTTL)]
    /\ \/ req[q].kind = "login" /\ Continue(q, "reply", s)
       \/ req[q].kind = "token" /\ Continue(q, "token", Nothing)
       \/ StoreFails /\ Done(q)
    /\ UNCHANGED <<users, tokens, jar>>

CreateBearerToken(q, t) ==
    /\ At(q, "token")
    /\ FreshToken(t)
    /\ tokens' = [tokens EXCEPT ![t] = NewCredential(req[q].email, TokenTTL)]
    /\ \/ Continue(q, "reply", t)
       \/ StoreFails /\ Done(q)
    /\ UNCHANGED <<users, sessions, jar>>

\* The INSERT of either fails.
CreateFails(q) ==
    /\ StoreFails
    /\ req[q].pc \in {"create", "token"}
    /\ Done(q)
    /\ UNCHANGED <<users, sessions, tokens, jar>>

\* Logout: the session of the request's cookie is deleted, whoever the
\* principal is; an error is ignored; the cookie is cleared in any case.
Logout(q) ==
    /\ At(q, "handle") /\ req[q].kind = "logout"
    /\ IF req[q].cookie = Nothing THEN UNCHANGED sessions
       ELSE \/ DeleteSession(req[q].cookie)
            \/ StoreFails /\ UNCHANGED sessions
    /\ Continue(q, "reply", Nothing)
    /\ UNCHANGED <<users, tokens, jar>>

\* Mutant: /token answers with a session cookie that holds the token.
ReplyTokenAsCookie(q) ==
    LET c == req[q].client IN
    /\ At(q, "reply")
    /\ jar' = [jar EXCEPT ![c].cookie = req[q].new]
    /\ Done(q)
    /\ UNCHANGED <<users, sessions, tokens>>

\* The response reaches the client: Set-Cookie, a cleared cookie or a token.
Reply(q) ==
    LET c == req[q].client IN
    /\ At(q, "reply")
    /\ jar' = CASE req[q].kind = "login"  -> [jar EXCEPT ![c].cookie = req[q].new]
                [] req[q].kind = "token"  -> [jar EXCEPT ![c].token = req[q].new]
                [] req[q].kind = "logout" -> [jar EXCEPT ![c].cookie = Nothing]
    /\ Done(q)
    /\ UNCHANGED <<users, sessions, tokens>>

ReplyLost(q) ==
    /\ At(q, "reply")
    /\ Done(q)
    /\ UNCHANGED <<users, sessions, tokens, jar>>

\* The client drops what it holds: the cookie's Expires, or a new browser.
Forget(c) ==
    /\ jar' = [jar EXCEPT ![c] = [cookie |-> Nothing, token |-> Nothing]]
    /\ UNCHANGED <<users, sessions, tokens, req>>

Tick ==
    /\ sessions' = [s \in SessionIds |->
           [sessions[s] EXCEPT !.expiresAt = Older(@, 1)]]
    /\ tokens' = [t \in TokenIds |->
           [tokens[t] EXCEPT !.expiresAt = Older(@, 1)]]
    /\ UNCHANGED <<users, jar, req>>

-----------------------------------------------------------------------------
Serve(q) ==
    \/ LookupLive(q) \/ LookupMisses(q) \/ LookupExpired(q) \/ Purge(q)
    \/ LookupUser(q) \/ LookupFails(q)
    \/ Use(q) \/ Register(q) \/ LoginMatches(q) \/ LoginRefused(q)
    \/ \E s \in SessionIds : CreateSession(q, s)
    \/ \E t \in TokenIds : CreateBearerToken(q, t)
    \/ CreateFails(q) \/ Logout(q) \/ Reply(q) \/ ReplyLost(q)

AuthNext ==
    \/ \E q \in Requests, c \in Clients, kind \in Kinds, bearer \in BOOLEAN,
          u \in Emails \cup {Nothing}, p \in Passwords \cup {Nothing} :
           Send(q, c, kind, bearer, u, p)
    \/ \E q \in Requests : Serve(q)
    \/ \E c \in Clients : Forget(c)
    \/ Tick

AuthSpec == AuthInit /\ [][AuthNext]_authVars

-----------------------------------------------------------------------------
(* Safety.                                                                 *)

\* Types of the tables, the clients' credentials and the requests.
AuthTypeOK ==
    /\ users \in [Emails -> Passwords \cup {Nothing}]
    /\ sessions \in [SessionIds -> CredentialRow]
    /\ tokens \in [TokenIds -> CredentialRow]
    /\ jar \in [Clients -> [cookie: SessionIds \cup {Nothing},
                            token: TokenIds \cup {Nothing}]]
    /\ \A q \in Requests : req[q].user \in Emails \cup {Nothing}

\* The principal a handler runs with is what Middleware made of the request.
Principal(q) == IF At(q, "handle") THEN req[q].user ELSE Nothing

\* A request is served as somebody only if its credential was live when it
\* was sent: a request sent after the logout or the expiry is anonymous,
\* however its lookup interleaves with purges, logouts and new logins.
PrincipalWasLive ==
    \A q \in Requests : Principal(q) # Nothing => req[q].live

\* A client is served as u only if it can type u's password: registration,
\* login, cookies, tokens and lookups together never mix up two accounts.
PrincipalKnowsPassword ==
    \A q \in Requests : Principal(q) # Nothing =>
        users[Principal(q)] \in Knows[req[q].client]

\* A credential that is still live when the handler starts was accepted,
\* unless the store failed: purging and expiry hit no live session.
LiveCredentialAccepted ==
    \A q \in Requests :
        At(q, "handle") /\ Live(Credential(req[q])) /\ ~req[q].failed =>
            Principal(q) = Credential(req[q]).user
=============================================================================

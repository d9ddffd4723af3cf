----------------------------- MODULE AuthProofs -----------------------------
(***************************************************************************)
(* Who a request is served as, for any accounts, clients, requests and     *)
(* identifiers and any lifetimes.                                          *)
(*                                                                         *)
(* The properties look at a request whose handler runs; what makes them    *)
(* inductive is what is known of it at each statement before that, and of  *)
(* every identifier a client holds or is about to be told (RequestOK,      *)
(* JarsOwn).  The core is that a row somebody can mention only fades: it   *)
(* expires or is deleted, but never changes hands or comes back to life,   *)
(* since Login and CreateBearerToken draw an identifier nobody mentions.   *)
(***************************************************************************)
EXTENDS Auth, TLAPS

ReqState ==
    [pc: {"none", "session", "bearer", "user", "purge", "handle", "create",
          "token", "reply"},
     client: Clients \cup {Nothing}, kind: Kinds,
     email: Emails \cup {Nothing}, password: Passwords \cup {Nothing},
     cookie: SessionIds \cup {Nothing}, token: TokenIds \cup {Nothing},
     user: Emails \cup {Nothing}, new: SessionIds \cup TokenIds \cup {Nothing},
     live: BOOLEAN, failed: BOOLEAN]

\* Credential, with the tables as arguments.
Names(r, ss, ts) ==
    IF r.token # Nothing THEN ts[r.token]
    ELSE IF r.cookie # Nothing THEN ss[r.cookie] ELSE NoRow

\* A client that holds the row's identifier can type its account's password.
Own(c, row, us) == Exists(row) => us[row.user] \in Knows[c]

Holds(c, cookie, token, us, ss, ts) ==
    /\ cookie # Nothing => Own(c, ss[cookie], us)
    /\ token # Nothing => Own(c, ts[token], us)

\* The shape of a request at each statement.
Shape(r) ==
    /\ r.pc # "none" => r.client \in Clients
    /\ r.pc \in {"session", "purge"} => r.cookie # Nothing /\ r.token = Nothing
    /\ r.pc = "bearer" => r.token # Nothing
    /\ r.pc = "user" => r.user # Nothing
    /\ r.user # Nothing => r.pc # "none"
    /\ /\ r.pc \in {"session", "bearer", "user", "purge", "handle"}
       /\ r.kind \in NeedsPassword
       => r.email \in Emails /\ r.password \in Knows[r.client]
    /\ r.pc \in {"create", "token"} => r.kind \in {"login", "token"}
    /\ r.pc = "token" => r.kind = "token"
    /\ r.pc = "reply" => r.kind \in {"login", "token", "logout"}

\* Who it may be served as.
Owner(r, us, ss, ts) ==
    /\ r.pc # "none" => Holds(r.client, r.cookie, r.token, us, ss, ts)
    /\ r.user # Nothing => us[r.user] \in Knows[r.client] /\ r.live
    /\ r.pc \in {"create", "token"} =>
           r.email \in Emails /\ us[r.email] \in Knows[r.client]
    /\ r.pc = "reply" /\ r.kind = "login" =>
           r.new \in SessionIds /\ Own(r.client, ss[r.new], us)
    /\ r.pc = "reply" /\ r.kind = "token" =>
           r.new \in TokenIds /\ Own(r.client, ts[r.new], us)

\* What the lookup has found so far is true of the credential while it lives.
Looked(r, row) ==
    Live(row) =>
        /\ r.pc \in {"session", "bearer"} => r.live
        /\ r.pc = "user" \/ (r.pc = "handle" /\ ~r.failed) => r.user = row.user
        /\ r.pc # "purge"

RequestOK(r, us, ss, ts) ==
    Shape(r) /\ Owner(r, us, ss, ts) /\ Looked(r, Names(r, ss, ts))

JarsOwn ==
    \A c \in Clients : Holds(c, jar[c].cookie, jar[c].token, users, sessions, tokens)

AuthInv ==
    /\ AuthTypeOK
    /\ req \in [Requests -> ReqState]
    /\ \A q \in Requests : RequestOK(req[q], users, sessions, tokens)
    /\ JarsOwn

-----------------------------------------------------------------------------
(* Rows fade.                                                              *)

\* The row may have expired or been deleted, nothing else.
Fades(old, new) ==
    /\ Exists(new) => new.user = old.user
    /\ Live(new) => Live(old)

\* Accounts are created and keep their password.
Grow(old, new) == \A u \in Emails : old[u] # Nothing => new[u] = old[u]

LEMMA OwnKept ==
    ASSUME NEW c \in Clients, NEW old \in CredentialRow, NEW new, Fades(old, new),
           NEW us, NEW vs, Grow(us, vs), Own(c, old, us)
    PROVE  Own(c, new, vs)
<1> SUFFICES ASSUME Exists(new) PROVE vs[new.user] \in Knows[c]
  BY DEF Own
<1>1. new.user = old.user /\ Exists(old)
  BY DEF Fades, Exists
<1>2. old.user \in Emails /\ us[old.user] \in Knows[c]
  BY <1>1 DEF Own, Exists, CredentialRow
<1>3. us[old.user] # Nothing
  BY <1>2, AuthAssumption
<1> QED BY <1>1, <1>2, <1>3 DEF Grow

\* A request stays as good as it was while the rows it mentions only fade.
LEMMA RequestKept ==
    ASSUME NEW r \in ReqState,
           NEW us \in [Emails -> Passwords \cup {Nothing}],
           NEW vs, Grow(us, vs),
           NEW ss \in [SessionIds -> CredentialRow], NEW ss2,
           NEW ts \in [TokenIds -> CredentialRow], NEW ts2,
           \A s \in SessionIds : s \in {r.cookie, r.new} => Fades(ss[s], ss2[s]),
           \A t \in TokenIds : t \in {r.token, r.new} => Fades(ts[t], ts2[t]),
           RequestOK(r, us, ss, ts)
    PROVE  RequestOK(r, vs, ss2, ts2)
<1>0. /\ r.cookie \in SessionIds \cup {Nothing}
      /\ r.token \in TokenIds \cup {Nothing}
      /\ r.user \in Emails \cup {Nothing}
      /\ \A c \in Clients : Nothing \notin Knows[c]
  BY AuthAssumption DEF ReqState
<1>1. Shape(r) /\ (r.pc # "none" => r.client \in Clients)
  BY DEF RequestOK, Shape
<1>2. ASSUME r.pc # "none"
      PROVE  Holds(r.client, r.cookie, r.token, vs, ss2, ts2)
  <2>1. Holds(r.client, r.cookie, r.token, us, ss, ts)
    BY <1>2 DEF RequestOK, Owner
  <2>2. ASSUME r.cookie # Nothing PROVE Own(r.client, ss2[r.cookie], vs)
    BY <1>0, <1>1, <1>2, <2>1, <2>2, OwnKept DEF Holds
  <2>3. ASSUME r.token # Nothing PROVE Own(r.client, ts2[r.token], vs)
    BY <1>0, <1>1, <1>2, <2>1, <2>3, OwnKept DEF Holds
  <2> QED BY <2>2, <2>3 DEF Holds
<1>3. ASSUME r.pc = "reply", r.kind = "login"
      PROVE  r.new \in SessionIds /\ Own(r.client, ss2[r.new], vs)
  BY <1>1, <1>3, OwnKept DEF RequestOK, Owner
<1>4. ASSUME r.pc = "reply", r.kind = "token"
      PROVE  r.new \in TokenIds /\ Own(r.client, ts2[r.new], vs)
  BY <1>1, <1>4, OwnKept DEF RequestOK, Owner
<1>5. ASSUME r.user # Nothing
      PROVE  vs[r.user] \in Knows[r.client] /\ r.live
  <2>1. us[r.user] \in Knows[r.client] /\ r.live
    BY <1>5 DEF RequestOK, Owner
  <2>2. us[r.user] # Nothing => vs[r.user] = us[r.user]
    BY <1>0, <1>5 DEF Grow
  <2>3. r.client \in Clients
    BY <1>1, <1>5 DEF Shape
  <2> QED BY <1>0, <2>1, <2>2, <2>3
<1>6. ASSUME r.pc \in {"create", "token"}
      PROVE  r.email \in Emails /\ vs[r.email] \in Knows[r.client]
  BY <1>0, <1>1, <1>6 DEF RequestOK, Owner, Grow
<1>7. Looked(r, Names(r, ss2, ts2))
  <2>1. Looked(r, Names(r, ss, ts))
    BY DEF RequestOK
  <2>2. Fades(Names(r, ss, ts), Names(r, ss2, ts2))
    <3>1. CASE r.token # Nothing
      BY <1>0, <3>1 DEF Names
    <3>2. CASE r.token = Nothing /\ r.cookie # Nothing
      BY <1>0, <3>2 DEF Names
    <3>3. CASE r.token = Nothing /\ r.cookie = Nothing
      BY <3>3 DEF Names, Fades
    <3> QED BY <3>1, <3>2, <3>3
  <2> QED BY <2>1, <2>2 DEF Looked, Fades, Live
<1> QED BY <1>1, <1>2, <1>3, <1>4, <1>5, <1>6, <1>7 DEF RequestOK, Owner

\* What is mentioned by a client, or by a request, only fades.
JarSafe(c) ==
    /\ \A s \in SessionIds : s = jar[c].cookie => Fades(sessions[s], sessions'[s])
    /\ \A t \in TokenIds : t = jar[c].token => Fades(tokens[t], tokens'[t])
ReqSafe(q) ==
    /\ \A s \in SessionIds :
           s \in {req[q].cookie, req[q].new} => Fades(sessions[s], sessions'[s])
    /\ \A t \in TokenIds :
           t \in {req[q].token, req[q].new} => Fades(tokens[t], tokens'[t])

TablesTyped ==
    /\ users \in [Emails -> Passwords \cup {Nothing}]
    /\ sessions \in [SessionIds -> CredentialRow]
    /\ tokens \in [TokenIds -> CredentialRow]

LEMMA InvKept ==
    ASSUME AuthInv, TablesTyped', Grow(users, users'), jar' = jar,
           \A c \in Clients : JarSafe(c),
           req' \in [Requests -> ReqState],
           \A q \in Requests :
               \/ req'[q] = req[q] /\ ReqSafe(q)
               \/ RequestOK(req'[q], users', sessions', tokens')
    PROVE  AuthInv'
<1>0. TablesTyped /\ req \in [Requests -> ReqState]
  BY DEF AuthInv, AuthTypeOK, TablesTyped
<1>1. ASSUME NEW q \in Requests
      PROVE  RequestOK(req'[q], users', sessions', tokens')
  <2>1. CASE req'[q] = req[q] /\ ReqSafe(q)
    <3>1. req[q] \in ReqState /\ RequestOK(req[q], users, sessions, tokens)
      BY <1>0 DEF AuthInv
    <3>2. RequestOK(req[q], users', sessions', tokens')
      BY <1>0, <2>1, <3>1, RequestKept DEF TablesTyped, ReqSafe
    <3> QED BY <2>1, <3>2
  <2> QED BY <2>1
<1>2. ASSUME NEW c \in Clients
      PROVE  Holds(c, jar[c].cookie, jar[c].token, users', sessions', tokens')
  <2>1. /\ Holds(c, jar[c].cookie, jar[c].token, users, sessions, tokens)
        /\ jar[c].cookie \in SessionIds \cup {Nothing}
        /\ jar[c].token \in TokenIds \cup {Nothing}
        /\ JarSafe(c)
    BY DEF AuthInv, JarsOwn, AuthTypeOK
  <2>2. ASSUME jar[c].cookie # Nothing
        PROVE  Own(c, sessions'[jar[c].cookie], users')
    BY <1>0, <2>1, <2>2, OwnKept DEF Holds, JarSafe, TablesTyped
  <2>3. ASSUME jar[c].token # Nothing
        PROVE  Own(c, tokens'[jar[c].token], users')
    BY <1>0, <2>1, <2>3, OwnKept DEF Holds, JarSafe, TablesTyped
  <2> QED BY <2>2, <2>3 DEF Holds
<1>3. AuthTypeOK'
  <2>1. \A q \in Requests : req'[q].user \in Emails \cup {Nothing}
    BY DEF ReqState
  <2> QED BY <2>1 DEF AuthInv, AuthTypeOK, TablesTyped
<1>4. JarsOwn'
  BY <1>2 DEF JarsOwn
<1> QED BY <1>1, <1>3, <1>4 DEF AuthInv

\* Most steps only advance one request.
LEMMA OnlyRequest ==
    ASSUME AuthInv, NEW q \in Requests, NEW r \in ReqState,
           RequestOK(r, users, sessions, tokens), Set(q, r),
           UNCHANGED <<users, sessions, tokens, jar>>
    PROVE  AuthInv'
<1>1. \A x : Fades(x, x)
  BY DEF Fades
<1>2. req \in [Requests -> ReqState] /\ TablesTyped
  BY DEF AuthInv, AuthTypeOK, TablesTyped
<1>3. TablesTyped' /\ Grow(users, users') /\ req' \in [Requests -> ReqState]
  BY <1>2 DEF TablesTyped, Grow, Set
<1>4. \A c \in Clients : JarSafe(c)
  BY <1>1 DEF JarSafe
<1>5. ASSUME NEW p \in Requests
      PROVE  \/ req'[p] = req[p] /\ ReqSafe(p)
             \/ RequestOK(req'[p], users', sessions', tokens')
  <2>1. ReqSafe(p)
    BY <1>1 DEF ReqSafe
  <2>2. p # q => req'[p] = req[p]
    BY <1>2 DEF Set
  <2>3. req'[q] = r
    BY <1>2 DEF Set
  <2> QED BY <2>1, <2>2, <2>3
<1> QED BY <1>3, <1>4, <1>5, InvKept

-----------------------------------------------------------------------------
(* The requests the steps produce.                                         *)

LEMMA NoRequestOK ==
    ASSUME NEW us, NEW ss, NEW ts
    PROVE  NoRequest \in ReqState /\ RequestOK(NoRequest, us, ss, ts)
<1>1. NoRequest \in ReqState
  BY DEF NoRequest, ReqState, Kinds
<1>2. NoRequest.pc = "none" /\ NoRequest.user = Nothing
  BY DEF NoRequest
<1> QED BY <1>1, <1>2 DEF RequestOK, Shape, Owner, Looked

\* The handler's own continuation mentions its client and what it created.
Going(r, step, id) ==
    [NoRequest EXCEPT !.pc = step, !.client = r.client, !.kind = r.kind,
                      !.email = r.email, !.new = id]

LEMMA GoingType ==
    ASSUME NEW r \in ReqState, NEW step \in {"create", "token", "reply"},
           NEW id \in SessionIds \cup TokenIds \cup {Nothing}
    PROVE  /\ Going(r, step, id) \in ReqState
           /\ Going(r, step, id).pc = step
           /\ Going(r, step, id).client = r.client
           /\ Going(r, step, id).kind = r.kind
           /\ Going(r, step, id).email = r.email
           /\ Going(r, step, id).new = id
           /\ Going(r, step, id).user = Nothing
           /\ Going(r, step, id).cookie = Nothing
           /\ Going(r, step, id).token = Nothing
<1>1. /\ r.client \in Clients \cup {Nothing}
      /\ r.kind \in Kinds
      /\ r.email \in Emails \cup {Nothing}
  BY DEF ReqState
<1>2. step \in {"none", "session", "bearer", "user", "purge", "handle", "create",
                "token", "reply"}
  OBVIOUS
<1>3. NoRequest \in ReqState
  BY DEF NoRequest, ReqState, Kinds
<1>4. NoRequest.user = Nothing /\ NoRequest.cookie = Nothing /\ NoRequest.token = Nothing
  BY DEF NoRequest
<1> DEFINE f == [NoRequest EXCEPT !.client = r.client, !.kind = r.kind,
                                  !.email = r.email, !.new = id]
<1>5. /\ f \in ReqState
      /\ f.client = r.client
      /\ f.kind = r.kind
      /\ f.email = r.email
      /\ f.new = id
      /\ f.user = Nothing
      /\ f.cookie = Nothing
      /\ f.token = Nothing
  BY <1>1, <1>3, <1>4 DEF ReqState
<1>6. Going(r, step, id) = [f EXCEPT !.pc = step]
  BY DEF Going
<1> HIDE DEF f
<1>7. [f EXCEPT !.pc = step] \in ReqState
  BY <1>2, <1>5 DEF ReqState
<1> QED BY <1>5, <1>6, <1>7 DEF ReqState

LEMMA GoingOK ==
    ASSUME NEW r \in ReqState, NEW step \in {"create", "token", "reply"},
           NEW id \in SessionIds \cup TokenIds \cup {Nothing},
           NEW us, NEW ss, NEW ts,
           r.client \in Clients,
           step = "reply" => r.kind \in {"login", "token", "logout"},
           step # "reply" => /\ r.kind \in {"login", "token"}
                             /\ r.email \in Emails
                             /\ us[r.email] \in Knows[r.client],
           step = "token" => r.kind = "token",
           step = "reply" /\ r.kind = "login" =>
               id \in SessionIds /\ Own(r.client, ss[id], us),
           step = "reply" /\ r.kind = "token" =>
               id \in TokenIds /\ Own(r.client, ts[id], us)
    PROVE  RequestOK(Going(r, step, id), us, ss, ts)
<1> DEFINE g == Going(r, step, id)
<1>1. /\ g.pc = step
      /\ g.client = r.client
      /\ g.kind = r.kind
      /\ g.email = r.email
      /\ g.new = id
      /\ g.user = Nothing
      /\ g.cookie = Nothing
      /\ g.token = Nothing
  BY GoingType
<1> HIDE DEF g
<1>2. Shape(g)
  BY <1>1 DEF Shape
<1>3. Owner(g, us, ss, ts)
  BY <1>1 DEF Owner, Holds
<1>4. Looked(g, Names(g, ss, ts))
  BY <1>1 DEF Looked
<1>5. RequestOK(g, us, ss, ts)
  BY <1>2, <1>3, <1>4 DEF RequestOK
<1> QED BY <1>5 DEF g

\* The handler starts: Handle forgets the credential where it is not used.
LEMMA HandleOK ==
    ASSUME NEW r \in ReqState, NEW us, NEW ss, NEW ts,
           r.client \in Clients,
           r.kind \in NeedsPassword =>
               r.email \in Emails /\ r.password \in Knows[r.client],
           Holds(r.client, r.cookie, r.token, us, ss, ts),
           r.user # Nothing => us[r.user] \in Knows[r.client] /\ r.live,
           Live(Names(r, ss, ts)) /\ ~r.failed => r.user = Names(r, ss, ts).user
    PROVE  Handle(r) \in ReqState /\ RequestOK(Handle(r), us, ss, ts)
<1>1. CASE r.kind \in NeedsPassword
  <2> DEFINE h == [NoRequest EXCEPT !.pc = "handle", !.client = r.client,
                                    !.kind = r.kind, !.email = r.email,
                                    !.password = r.password]
  <2>0. Handle(r) = h
    BY <1>1 DEF Handle
  <2>1. NoRequest \in ReqState
    BY DEF NoRequest, ReqState, Kinds
  <2>2. NoRequest.user = Nothing /\ NoRequest.cookie = Nothing /\ NoRequest.token = Nothing
    BY DEF NoRequest
  <2>3. /\ h \in ReqState
        /\ h.pc = "handle"
        /\ h.client = r.client
        /\ h.kind = r.kind
        /\ h.email = r.email
        /\ h.password = r.password
        /\ h.user = Nothing
        /\ h.cookie = Nothing
        /\ h.token = Nothing
    BY <2>1, <2>2 DEF ReqState
  <2> HIDE DEF h
  <2>4. Names(h, ss, ts) = NoRow /\ ~Live(NoRow)
    BY <2>3 DEF Names, NoRow, Live, Exists
  <2>5. RequestOK(h, us, ss, ts)
    BY <2>3, <2>4 DEF RequestOK, Shape, Owner, Looked, Holds
  <2> QED BY <2>0, <2>3, <2>5
<1>2. CASE r.kind \notin NeedsPassword
  <2> DEFINE h == [r EXCEPT !.pc = "handle"]
  <2>0. Handle(r) = h
    BY <1>2 DEF Handle
  <2>1. /\ h \in ReqState
        /\ h.pc = "handle"
        /\ h.client = r.client
        /\ h.kind = r.kind
        /\ h.user = r.user
        /\ h.cookie = r.cookie
        /\ h.token = r.token
        /\ h.live = r.live
        /\ h.failed = r.failed
    BY DEF ReqState
  <2> HIDE DEF h
  <2>2. Names(h, ss, ts) = Names(r, ss, ts)
    BY <2>1 DEF Names
  <2>3. Shape(h)
    BY <1>2, <2>1 DEF Shape
  <2>4. Owner(h, us, ss, ts)
    BY <2>1 DEF Owner
  <2>5. Looked(h, Names(h, ss, ts))
    BY <2>1, <2>2 DEF Looked
  <2> QED BY <2>0, <2>1, <2>3, <2>4, <2>5 DEF RequestOK
<1> QED BY <1>1, <1>2

-----------------------------------------------------------------------------
(* Sending, and Middleware.                                                *)

LEMMA RequestFacts ==
    ASSUME AuthInv, NEW q \in Requests
    PROVE  /\ req \in [Requests -> ReqState]
           /\ req[q] \in ReqState
           /\ RequestOK(req[q], users, sessions, tokens)
           /\ Credential(req[q]) = Names(req[q], sessions, tokens)
           /\ TablesTyped
BY DEF AuthInv, AuthTypeOK, TablesTyped, Credential, Names

LEMMA CredentialTyped ==
    ASSUME AuthInv, NEW r \in ReqState
    PROVE  /\ Credential(r) \in CredentialRow
           /\ Accepted(Credential(r)) <=> Live(Credential(r))
           /\ Expired(Credential(r)) => ~Live(Credential(r))
<1>1. NoRow \in CredentialRow
  BY AuthAssumption DEF NoRow, CredentialRow, Max2
<1>2. Credential(r) \in CredentialRow
  BY <1>1 DEF AuthInv, AuthTypeOK, Credential, ReqState
<1>3. Credential(r).expiresAt \in Int
  BY <1>2, AuthAssumption DEF CredentialRow, Max2
<1> QED BY <1>2, <1>3 DEF Accepted, Live, Expired, Exists

LEMMA DoneStep ==
    ASSUME AuthInv, NEW q \in Requests, Done(q),
           UNCHANGED <<users, sessions, tokens, jar>>
    PROVE  AuthInv'
BY NoRequestOK, OnlyRequest DEF Done

\* A request as the client writes it.
Sent(c, kind, u, p, k, t) ==
    [NoRequest EXCEPT !.client = c, !.kind = kind, !.email = u, !.password = p,
                      !.cookie = k, !.token = t]

LEMMA SentType ==
    ASSUME NEW c \in Clients, NEW kind \in Kinds, NEW u \in Emails \cup {Nothing},
           NEW p \in Passwords \cup {Nothing}, NEW k \in SessionIds \cup {Nothing},
           NEW t \in TokenIds \cup {Nothing}
    PROVE  LET r == Sent(c, kind, u, p, k, t) IN
           /\ r \in ReqState
           /\ r.client = c
           /\ r.kind = kind
           /\ r.email = u
           /\ r.password = p
           /\ r.cookie = k
           /\ r.token = t
           /\ r.user = Nothing
<1>1. NoRequest \in ReqState /\ NoRequest.user = Nothing
  BY DEF NoRequest, ReqState, Kinds
<1> DEFINE a == [NoRequest EXCEPT !.client = c, !.kind = kind, !.email = u]
           r == Sent(c, kind, u, p, k, t)
<1>2. /\ a \in ReqState
      /\ a.client = c /\ a.kind = kind /\ a.email = u /\ a.user = Nothing
  BY <1>1 DEF ReqState
<1> DEFINE b == [a EXCEPT !.password = p]
           d == [b EXCEPT !.cookie = k]
<1>3. r = [d EXCEPT !.token = t]
  BY DEF Sent
<1> HIDE DEF a, r
<1>4. b \in ReqState /\ d \in ReqState
  <2>1. b \in ReqState
    BY <1>2 DEF ReqState
  <2> HIDE DEF b
  <2> QED BY <2>1 DEF ReqState
<1>5. /\ r.client = c /\ r.kind = kind /\ r.email = u
      /\ r.password = p /\ r.cookie = k /\ r.token = t /\ r.user = Nothing
  BY <1>2, <1>3 DEF ReqState
<1> HIDE DEF d
<1>6. r \in ReqState
  BY <1>3, <1>4 DEF ReqState
<1> QED BY <1>5, <1>6 DEF r

LEMMA SendStep ==
    ASSUME AuthInv, NEW q \in Requests, NEW c \in Clients, NEW kind \in Kinds,
           NEW bearer \in BOOLEAN, NEW u \in Emails \cup {Nothing},
           NEW p \in Passwords \cup {Nothing}, Send(q, c, kind, bearer, u, p)
    PROVE  AuthInv'
<1> DEFINE k == jar[c].cookie
           t == IF bearer THEN jar[c].token ELSE Nothing
           r == [NoRequest EXCEPT !.client = c, !.kind = kind, !.email = u,
                                  !.password = p, !.cookie = k, !.token = t]
           l == Live(Credential(r))
           step == IF r.token # Nothing THEN "bearer"
                   ELSE IF r.cookie # Nothing THEN "session" ELSE "handle"
           n == [r EXCEPT !.live = l, !.pc = step]
<1>1. /\ k \in SessionIds \cup {Nothing}
      /\ t \in TokenIds \cup {Nothing}
      /\ l \in BOOLEAN
      /\ Holds(c, k, t, users, sessions, tokens)
  BY DEF AuthInv, AuthTypeOK, JarsOwn, Holds, Live, Exists
<1>2. kind \in NeedsPassword => u \in Emails /\ p \in Knows[c]
  BY DEF Send
<1>3. Set(q, n) /\ UNCHANGED <<users, sessions, tokens, jar>>
  BY Zenon DEF Send
<1>4. NoRequest \in ReqState /\ NoRequest.user = Nothing
  BY DEF NoRequest, ReqState, Kinds
<1> HIDE DEF k, t, l
<1>5. /\ r \in ReqState
      /\ r.client = c
      /\ r.kind = kind
      /\ r.email = u
      /\ r.password = p
      /\ r.cookie = k
      /\ r.token = t
      /\ r.user = Nothing
  <2>1. r = Sent(c, kind, u, p, k, t)
    BY DEF Sent
  <2> HIDE DEF r
  <2> QED BY <1>1, <2>1, SentType
<1>6. /\ step \in {"bearer", "session", "handle"}
      /\ step = "bearer" => t # Nothing
      /\ step = "session" => k # Nothing /\ t = Nothing
      /\ step = "handle" => k = Nothing /\ t = Nothing
  BY <1>5
<1>7. l = Live(Names(r, sessions, tokens))
  BY DEF l, Credential, Names
<1> HIDE DEF r, step
<1>8. /\ n \in ReqState
      /\ n.pc = step
      /\ n.live = l
      /\ n.client = c
      /\ n.kind = kind
      /\ n.email = u
      /\ n.password = p
      /\ n.cookie = k
      /\ n.token = t
      /\ n.user = Nothing
  <2>1. [r EXCEPT !.live = l] \in ReqState
    BY <1>1, <1>5 DEF ReqState
  <2>2. n = [[r EXCEPT !.live = l] EXCEPT !.pc = step]
    BY <1>5 DEF ReqState
  <2>3. n \in ReqState
    BY <1>6, <2>1, <2>2 DEF ReqState
  <2> QED BY <1>5, <2>3 DEF ReqState
<1> HIDE DEF n
<1>9. Names(n, sessions, tokens) = Names(r, sessions, tokens)
  BY <1>5, <1>8 DEF Names
<1>10. Shape(n)
  BY <1>2, <1>6, <1>8 DEF Shape
<1>11. Owner(n, users, sessions, tokens)
  BY <1>1, <1>6, <1>8 DEF Owner
<1>12. Looked(n, Names(n, sessions, tokens))
  <2>1. CASE step = "handle"
    <3>1. Names(n, sessions, tokens) = NoRow
      BY <1>6, <1>8, <2>1 DEF Names
    <3> QED BY <3>1 DEF Looked, Live, Exists, NoRow
  <2>2. CASE step # "handle"
    BY <1>6, <1>7, <1>8, <1>9, <2>2 DEF Looked
  <2> QED BY <2>1, <2>2
<1> QED BY <1>3, <1>8, <1>10, <1>11, <1>12, OnlyRequest DEF RequestOK

LEMMA LookupStep ==
    ASSUME AuthInv, NEW q \in Requests,
           \/ LookupLive(q) \/ LookupMisses(q) \/ LookupExpired(q)
           \/ LookupUser(q) \/ LookupFails(q)
    PROVE  AuthInv'
<1> DEFINE r == req[q]
           row == Credential(r)
<1>0. /\ r \in ReqState
      /\ RequestOK(r, users, sessions, tokens)
      /\ row = Names(r, sessions, tokens)
      /\ row \in CredentialRow
      /\ Accepted(row) <=> Live(row)
      /\ Expired(row) => ~Live(row)
  BY RequestFacts, CredentialTyped
<1>1. Shape(r) /\ Owner(r, users, sessions, tokens) /\ Looked(r, row)
  BY <1>0 DEF RequestOK
<1>2. CASE LookupLive(q)
  <2> DEFINE n == [r EXCEPT !.pc = "user", !.user = row.user]
  <2>1. r.pc \in {"session", "bearer"} /\ Live(row) /\ Set(q, n)
    BY <1>0, <1>2, Zenon DEF LookupLive
  <2>2. row.user \in Emails /\ row.user # Nothing
    BY <1>0, <2>1, AuthAssumption DEF Live, Exists, CredentialRow
  <2>3. Holds(r.client, r.cookie, r.token, users, sessions, tokens) /\ r.live
    BY <1>1, <2>1 DEF Owner, Looked
  <2>4. users[row.user] \in Knows[r.client]
    <3>1. r.token # Nothing \/ r.cookie # Nothing
      BY <1>1, <2>1 DEF Shape
    <3> QED BY <1>0, <2>1, <2>3, <3>1 DEF Holds, Own, Names, Live
  <2>5. /\ n \in ReqState
        /\ n.pc = "user"
        /\ n.user = row.user
        /\ n.client = r.client
        /\ n.kind = r.kind
        /\ n.email = r.email
        /\ n.password = r.password
        /\ n.cookie = r.cookie
        /\ n.token = r.token
        /\ n.live = r.live
    BY <1>0, <2>2 DEF ReqState
  <2> HIDE DEF n
  <2>6. Names(n, sessions, tokens) = row
    BY <1>0, <2>5 DEF Names
  <2>7. Shape(n)
    BY <1>1, <2>1, <2>2, <2>5 DEF Shape
  <2>8. Owner(n, users, sessions, tokens)
    BY <2>3, <2>4, <2>5 DEF Owner
  <2>9. Looked(n, row)
    BY <2>5 DEF Looked
  <2> QED
    BY <1>2, <2>1, <2>5, <2>6, <2>7, <2>8, <2>9, OnlyRequest
       DEF LookupLive, RequestOK
<1>3. ASSUME NEW n \in ReqState, Set(q, Handle(n)),
             UNCHANGED <<users, sessions, tokens, jar>>,
             r.pc \in {"session", "bearer", "user"},
             n.client = r.client, n.kind = r.kind, n.email = r.email,
             n.password = r.password, n.cookie = r.cookie, n.token = r.token,
             n.user # Nothing => users[n.user] \in Knows[n.client] /\ n.live,
             Live(row) /\ ~n.failed => n.user = row.user
      PROVE  AuthInv'
  <2>1. r.client \in Clients
    BY <1>1, <1>3 DEF Shape
  <2>2. Names(n, sessions, tokens) = row
    BY <1>0, <1>3 DEF Names
  <2>3. Holds(n.client, n.cookie, n.token, users, sessions, tokens)
    BY <1>1, <1>3 DEF Owner
  <2>4. n.kind \in NeedsPassword => n.email \in Emails /\ n.password \in Knows[n.client]
    BY <1>1, <1>3 DEF Shape
  <2>5. Handle(n) \in ReqState /\ RequestOK(Handle(n), users, sessions, tokens)
    BY <1>3, <2>1, <2>2, <2>3, <2>4, HandleOK
  <2> QED BY <1>3, <2>5, OnlyRequest
<1>4. CASE LookupMisses(q)
  <2> DEFINE n == [r EXCEPT !.user = Nothing]
  <2>1. /\ n \in ReqState
        /\ n.client = r.client /\ n.kind = r.kind /\ n.email = r.email
        /\ n.password = r.password /\ n.cookie = r.cookie /\ n.token = r.token
        /\ n.user = Nothing
    BY <1>0 DEF ReqState
  <2>2. Set(q, Handle(n)) /\ r.pc \in {"session", "bearer"} /\ ~Live(row)
    BY <1>0, <1>4 DEF LookupMisses, RunAnonymous, RunAs, At, Live
  <2> HIDE DEF n
  <2> QED BY <1>3, <1>4, <2>1, <2>2 DEF LookupMisses
<1>5. CASE LookupFails(q)
  <2> DEFINE n == [r EXCEPT !.user = Nothing, !.failed = TRUE]
  <2>1. /\ n \in ReqState
        /\ n.client = r.client /\ n.kind = r.kind /\ n.email = r.email
        /\ n.password = r.password /\ n.cookie = r.cookie /\ n.token = r.token
        /\ n.user = Nothing /\ n.failed
    BY <1>0 DEF ReqState
  <2>2. Set(q, Handle(n)) /\ r.pc \in {"session", "bearer", "user"}
    BY <1>5 DEF LookupFails
  <2> HIDE DEF n
  <2> QED BY <1>3, <1>5, <2>1, <2>2 DEF LookupFails
<1>6. CASE LookupUser(q)
  <2> DEFINE n == [r EXCEPT !.user = r.user]
  <2>1. n = r
    BY <1>0 DEF ReqState
  <2>2. Set(q, Handle(n)) /\ r.pc = "user"
    BY <1>6 DEF LookupUser, RunAs, At
  <2>3. /\ r.user # Nothing => users[r.user] \in Knows[r.client] /\ r.live
        /\ Live(row) => r.user = row.user
    BY <1>1, <2>2 DEF Owner, Looked
  <2> HIDE DEF n
  <2> QED BY <1>0, <1>3, <1>6, <2>1, <2>2, <2>3 DEF LookupUser
<1>7. CASE LookupExpired(q)
  <2> DEFINE n == [r EXCEPT !.pc = "purge"]
  <2>1. Set(q, n) /\ r.pc = "session" /\ ~Live(row)
    BY <1>0, <1>7 DEF LookupExpired, At
  <2>2. /\ n \in ReqState
        /\ n.pc = "purge"
        /\ n.client = r.client /\ n.kind = r.kind /\ n.email = r.email
        /\ n.password = r.password /\ n.cookie = r.cookie /\ n.token = r.token
        /\ n.user = r.user /\ n.live = r.live
    BY <1>0 DEF ReqState
  <2> HIDE DEF n
  <2>3. Names(n, sessions, tokens) = row
    BY <1>0, <2>2 DEF Names
  <2>4. Shape(n)
    BY <1>1, <2>1, <2>2 DEF Shape
  <2>5. Owner(n, users, sessions, tokens)
    BY <1>1, <2>1, <2>2 DEF Owner
  <2>6. Looked(n, row)
    BY <2>1 DEF Looked
  <2> QED
    BY <1>7, <2>1, <2>2, <2>3, <2>4, <2>5, <2>6, OnlyRequest
       DEF LookupExpired, RequestOK
<1> QED BY <1>2, <1>4, <1>5, <1>6, <1>7

-----------------------------------------------------------------------------
(* The handlers.                                                           *)

\* A step that changes one request and lets what the others mention fade.
LEMMA TablesStep ==
    ASSUME AuthInv, NEW q \in Requests, NEW r \in ReqState, Set(q, r),
           TablesTyped', Grow(users, users'), jar' = jar,
           \A c \in Clients : JarSafe(c),
           \A p \in Requests \ {q} : ReqSafe(p),
           RequestOK(r, users', sessions', tokens')
    PROVE  AuthInv'
<1>1. req \in [Requests -> ReqState]
  BY DEF AuthInv
<1>2. req' \in [Requests -> ReqState]
  BY <1>1 DEF Set
<1>3. ASSUME NEW p \in Requests
      PROVE  \/ req'[p] = req[p] /\ ReqSafe(p)
             \/ RequestOK(req'[p], users', sessions', tokens')
  <2>1. CASE p = q
    BY <1>1, <2>1 DEF Set
  <2>2. CASE p # q
    BY <1>1, <2>2 DEF Set
  <2> QED BY <2>1, <2>2
<1> QED BY <1>2, <1>3, InvKept

LEMMA FadesRefl == \A x : Fades(x, x) /\ Fades(x, NoRow)
BY DEF Fades, NoRow, Exists, Live

LEMMA NoRowTyped == NoRow \in CredentialRow
BY AuthAssumption DEF NoRow, CredentialRow, Max2

\* DELETE of the session of the request's cookie, or nothing.
LEMMA Deleted ==
    ASSUME AuthInv, NEW s \in SessionIds,
           DeleteSession(s) \/ UNCHANGED sessions, UNCHANGED <<users, tokens>>
    PROVE  /\ TablesTyped'
           /\ Grow(users, users')
           /\ \A c \in Clients : JarSafe(c)
           /\ \A p \in Requests : ReqSafe(p)
           /\ \A k \in SessionIds : Fades(sessions[k], sessions'[k])
<1>1. TablesTyped
  BY DEF AuthInv, AuthTypeOK, TablesTyped
<1>2. TablesTyped' /\ Grow(users, users')
  BY <1>1, NoRowTyped DEF TablesTyped, Grow, DeleteSession
<1>3. \A k \in SessionIds : sessions'[k] \in {sessions[k], NoRow}
  BY <1>1 DEF TablesTyped, DeleteSession
<1>4. \A k \in SessionIds : Fades(sessions[k], sessions'[k])
  BY <1>3, FadesRefl
<1>5. \A k \in TokenIds : Fades(tokens[k], tokens'[k])
  BY FadesRefl
<1> QED BY <1>2, <1>4, <1>5 DEF JarSafe, ReqSafe

LEMMA PurgeStep ==
    ASSUME AuthInv, NEW q \in Requests, Purge(q)
    PROVE  AuthInv'
<1> DEFINE r == req[q]
           n == [r EXCEPT !.user = Nothing]
<1>1. /\ r \in ReqState
      /\ RequestOK(r, users, sessions, tokens)
      /\ r.pc = "purge"
  BY RequestFacts DEF Purge, At
<1>2. /\ Shape(r)
      /\ r.client \in Clients
      /\ r.cookie \in SessionIds
      /\ r.token = Nothing
  BY <1>1 DEF RequestOK, Shape, ReqState
<1>3. /\ TablesTyped'
      /\ Grow(users, users')
      /\ \A c \in Clients : JarSafe(c)
      /\ \A p \in Requests : ReqSafe(p)
  BY <1>2, Deleted DEF Purge
<1>4. RequestOK(r, users', sessions', tokens')
  BY <1>1, <1>3, RequestFacts, RequestKept DEF TablesTyped, ReqSafe
<1>5. /\ n \in ReqState
      /\ n.client = r.client /\ n.kind = r.kind /\ n.email = r.email
      /\ n.password = r.password /\ n.cookie = r.cookie /\ n.token = r.token
      /\ n.user = Nothing
  BY <1>1 DEF ReqState
<1>6. Set(q, Handle(n)) /\ jar' = jar
  BY DEF Purge, RunAnonymous, RunAs
<1> HIDE DEF n
<1>7. /\ Holds(n.client, n.cookie, n.token, users', sessions', tokens')
      /\ ~Live(Names(n, sessions', tokens'))
      /\ n.kind \in NeedsPassword => n.email \in Emails /\ n.password \in Knows[n.client]
  <2>1. Names(n, sessions', tokens') = Names(r, sessions', tokens')
    BY <1>5 DEF Names
  <2> QED BY <1>1, <1>4, <1>5, <2>1 DEF RequestOK, Owner, Looked, Shape
<1>8. Handle(n) \in ReqState /\ RequestOK(Handle(n), users', sessions', tokens')
  BY <1>2, <1>5, <1>7, HandleOK
<1> QED BY <1>3, <1>6, <1>8, TablesStep

LEMMA RegisterStep ==
    ASSUME AuthInv, NEW q \in Requests, Register(q)
    PROVE  AuthInv'
<1> DEFINE r == req[q]
<1>1. r \in ReqState /\ Shape(r) /\ TablesTyped /\ r.pc = "handle" /\ r.kind = "register"
  BY RequestFacts DEF Register, At, RequestOK
<1>2. r.email \in Emails /\ r.client \in Clients /\ r.password \in Knows[r.client]
  BY <1>1 DEF Shape, NeedsPassword
<1>3. r.password \in Passwords
  BY <1>2, AuthAssumption
<1>4. TablesTyped' /\ Grow(users, users')
  BY <1>1, <1>2, <1>3 DEF Register, CreateUser, TablesTyped, Grow
<1>5. /\ \A c \in Clients : JarSafe(c)
      /\ \A p \in Requests : ReqSafe(p)
  BY FadesRefl DEF Register, JarSafe, ReqSafe
<1> QED BY <1>4, <1>5, NoRequestOK, TablesStep DEF Register, Done

LEMMA LoginStep ==
    ASSUME AuthInv, NEW q \in Requests, LoginMatches(q)
    PROVE  AuthInv'
<1> DEFINE r == req[q]
<1>1. /\ r \in ReqState /\ Shape(r)
      /\ r.pc = "handle" /\ r.kind \in {"login", "token"}
      /\ users[r.email] = r.password
      /\ Set(q, Going(r, "create", Nothing))
      /\ UNCHANGED <<users, sessions, tokens, jar>>
  BY RequestFacts DEF LoginMatches, At, RequestOK, Continue, Going
<1>2. r.email \in Emails /\ r.client \in Clients /\ users[r.email] \in Knows[r.client]
  BY <1>1 DEF Shape, NeedsPassword
<1>3. Going(r, "create", Nothing) \in ReqState
  BY <1>1, GoingType
<1>4. RequestOK(Going(r, "create", Nothing), users, sessions, tokens)
  BY <1>1, <1>2, GoingOK
<1> QED BY <1>1, <1>3, <1>4, OnlyRequest

LEMMA LogoutStep ==
    ASSUME AuthInv, NEW q \in Requests, Logout(q)
    PROVE  AuthInv'
<1> DEFINE r == req[q]
<1>1. /\ r \in ReqState /\ Shape(r)
      /\ r.pc = "handle" /\ r.kind = "logout"
      /\ Set(q, Going(r, "reply", Nothing))
      /\ UNCHANGED <<users, tokens, jar>>
  BY RequestFacts DEF Logout, At, RequestOK, Continue, Going
<1>2. r.client \in Clients /\ r.cookie \in SessionIds \cup {Nothing}
  BY <1>1 DEF Shape, ReqState
<1>3. /\ TablesTyped'
      /\ Grow(users, users')
      /\ \A c \in Clients : JarSafe(c)
      /\ \A p \in Requests : ReqSafe(p)
  <2>1. CASE r.cookie = Nothing
    <3>1. UNCHANGED <<users, sessions, tokens>>
      BY <1>1, <2>1 DEF Logout
    <3> QED BY <3>1, FadesRefl, RequestFacts DEF TablesTyped, Grow, JarSafe, ReqSafe
  <2>2. CASE r.cookie # Nothing
    <3>1. DeleteSession(r.cookie) \/ UNCHANGED sessions
      BY <2>2 DEF Logout
    <3> QED BY <1>1, <1>2, <2>2, <3>1, Deleted
  <2> QED BY <2>1, <2>2
<1>4. Going(r, "reply", Nothing) \in ReqState
  BY <1>1, GoingType
<1>5. RequestOK(Going(r, "reply", Nothing), users', sessions', tokens')
  BY <1>1, <1>2, GoingOK
<1> QED BY <1>1, <1>3, <1>4, <1>5, TablesStep

LEMMA NewCredentialTyped ==
    ASSUME NEW u \in Emails, NEW ttl \in {SessionTTL, TokenTTL}
    PROVE  /\ NewCredential(u, ttl) \in CredentialRow
           /\ NewCredential(u, ttl).user = u
<1>1. Clamp(ttl, 1) \in -1..Max2(0, Max2(SessionTTL, TokenTTL))
  BY AuthAssumption DEF Max2, Clamp
<1> QED BY <1>1 DEF NewCredential, CredentialRow

LEMMA CreateSessionStep ==
    ASSUME AuthInv, NEW q \in Requests, NEW s \in SessionIds, CreateSession(q, s)
    PROVE  AuthInv'
<1> DEFINE r == req[q]
           row == NewCredential(r.email, SessionTTL)
<1>1. /\ r \in ReqState /\ RequestOK(r, users, sessions, tokens) /\ TablesTyped
      /\ r.pc = "create"
      /\ sessions' = [sessions EXCEPT ![s] = row]
      /\ FreshSession(s)
      /\ UNCHANGED <<users, tokens, jar>>
  BY RequestFacts DEF CreateSession, At
<1>2. /\ r.client \in Clients
      /\ r.kind \in {"login", "token"}
      /\ r.email \in Emails
      /\ users[r.email] \in Knows[r.client]
  BY <1>1 DEF RequestOK, Shape, Owner
<1>3. row \in CredentialRow /\ row.user = r.email
  BY <1>2, NewCredentialTyped
<1> HIDE DEF row
<1>4. TablesTyped' /\ Grow(users, users')
  BY <1>1, <1>3 DEF TablesTyped, Grow
<1>5. \A k \in SessionIds : k # s => Fades(sessions[k], sessions'[k])
  BY <1>1, FadesRefl DEF TablesTyped
<1>6. \A t \in TokenIds : Fades(tokens[t], tokens'[t])
  BY <1>1, FadesRefl
<1>7. \A c \in Clients : JarSafe(c)
  BY <1>1, <1>5, <1>6 DEF JarSafe, FreshSession
<1>8. \A p \in Requests : ReqSafe(p)
  BY <1>1, <1>5, <1>6 DEF ReqSafe, FreshSession
<1>9. Own(r.client, sessions'[s], users')
  BY <1>1, <1>2, <1>3 DEF Own, TablesTyped
<1>10. CASE r.kind = "login" /\ Set(q, Going(r, "reply", s))
  <2>1. Going(r, "reply", s) \in ReqState
    BY <1>1, GoingType
  <2>2. RequestOK(Going(r, "reply", s), users', sessions', tokens')
    BY <1>1, <1>2, <1>9, <1>10, GoingOK
  <2> QED BY <1>1, <1>4, <1>7, <1>8, <1>10, <2>1, <2>2, TablesStep
<1>11. CASE r.kind = "token" /\ Set(q, Going(r, "token", Nothing))
  <2>1. Going(r, "token", Nothing) \in ReqState
    BY <1>1, GoingType
  <2>2. RequestOK(Going(r, "token", Nothing), users', sessions', tokens')
    BY <1>1, <1>2, <1>11, GoingOK
  <2> QED BY <1>1, <1>4, <1>7, <1>8, <1>11, <2>1, <2>2, TablesStep
<1>12. CASE Done(q)
  BY <1>1, <1>4, <1>7, <1>8, <1>12, NoRequestOK, TablesStep DEF Done
<1> QED BY <1>10, <1>11, <1>12 DEF CreateSession, Continue, Going

LEMMA CreateBearerTokenStep ==
    ASSUME AuthInv, NEW q \in Requests, NEW t \in TokenIds, CreateBearerToken(q, t)
    PROVE  AuthInv'
<1> DEFINE r == req[q]
           row == NewCredential(r.email, TokenTTL)
<1>1. /\ r \in ReqState /\ RequestOK(r, users, sessions, tokens) /\ TablesTyped
      /\ r.pc = "token"
      /\ tokens' = [tokens EXCEPT ![t] = row]
      /\ FreshToken(t)
      /\ UNCHANGED <<users, sessions, jar>>
  BY RequestFacts DEF CreateBearerToken, At
<1>2. /\ r.client \in Clients
      /\ r.kind = "token"
      /\ r.email \in Emails
      /\ users[r.email] \in Knows[r.client]
  BY <1>1 DEF RequestOK, Shape, Owner
<1>3. row \in CredentialRow /\ row.user = r.email
  BY <1>2, NewCredentialTyped
<1> HIDE DEF row
<1>4. TablesTyped' /\ Grow(users, users')
  BY <1>1, <1>3 DEF TablesTyped, Grow
<1>5. \A k \in TokenIds : k # t => Fades(tokens[k], tokens'[k])
  BY <1>1, FadesRefl DEF TablesTyped
<1>6. \A s \in SessionIds : Fades(sessions[s], sessions'[s])
  BY <1>1, FadesRefl
<1>7. \A c \in Clients : JarSafe(c)
  BY <1>1, <1>5, <1>6 DEF JarSafe, FreshToken
<1>8. \A p \in Requests : ReqSafe(p)
  BY <1>1, <1>5, <1>6 DEF ReqSafe, FreshToken
<1>9. Own(r.client, tokens'[t], users')
  BY <1>1, <1>2, <1>3 DEF Own, TablesTyped
<1>10. CASE Set(q, Going(r, "reply", t))
  <2>1. Going(r, "reply", t) \in ReqState
    BY <1>1, GoingType
  <2>2. RequestOK(Going(r, "reply", t), users', sessions', tokens')
    BY <1>1, <1>2, <1>9, <1>10, GoingOK
  <2> QED BY <1>1, <1>4, <1>7, <1>8, <1>10, <2>1, <2>2, TablesStep
<1>11. CASE Done(q)
  BY <1>1, <1>4, <1>7, <1>8, <1>11, NoRequestOK, TablesStep DEF Done
<1> QED BY <1>10, <1>11 DEF CreateBearerToken, Continue, Going

-----------------------------------------------------------------------------
(* What the client is told, and time.                                      *)

\* A client gets a jar it owns, and a request is over.
LEMMA JarStep ==
    ASSUME AuthInv, NEW c \in Clients,
           NEW k \in SessionIds \cup {Nothing}, NEW t \in TokenIds \cup {Nothing},
           Holds(c, k, t, users, sessions, tokens),
           jar' = [jar EXCEPT ![c] = [cookie |-> k, token |-> t]],
           UNCHANGED <<users, sessions, tokens>>,
           req' \in [Requests -> ReqState],
           \A q \in Requests : req'[q] \in {req[q], NoRequest}
    PROVE  AuthInv'
<1>1. jar \in [Clients -> [cookie: SessionIds \cup {Nothing},
                           token: TokenIds \cup {Nothing}]]
  BY DEF AuthInv, AuthTypeOK
<1>2. jar' \in [Clients -> [cookie: SessionIds \cup {Nothing},
                            token: TokenIds \cup {Nothing}]]
  BY <1>1
<1>3. JarsOwn'
  <2> SUFFICES ASSUME NEW d \in Clients
               PROVE  Holds(d, jar'[d].cookie, jar'[d].token, users, sessions, tokens)
    BY DEF JarsOwn
  <2>1. CASE d = c
    BY <1>1, <2>1
  <2>2. CASE d # c
    <3>1. jar'[d] = jar[d]
      BY <1>1, <2>2
    <3> QED BY <3>1 DEF AuthInv, JarsOwn
  <2> QED BY <2>1, <2>2
<1>4. \A q \in Requests : RequestOK(req'[q], users, sessions, tokens)
  BY NoRequestOK DEF AuthInv
<1>5. \A q \in Requests : req'[q].user \in Emails \cup {Nothing}
  BY DEF ReqState
<1> QED BY <1>2, <1>3, <1>4, <1>5 DEF AuthInv, AuthTypeOK

LEMMA ReplyStep ==
    ASSUME AuthInv, NEW q \in Requests, Reply(q)
    PROVE  AuthInv'
<1> DEFINE r == req[q]
           c == r.client
<1>1. /\ r \in ReqState /\ RequestOK(r, users, sessions, tokens)
      /\ r.pc = "reply"
      /\ req \in [Requests -> ReqState]
      /\ Set(q, NoRequest)
      /\ UNCHANGED <<users, sessions, tokens>>
  BY RequestFacts DEF Reply, At, Done
<1>2. /\ c \in Clients
      /\ r.kind \in {"login", "token", "logout"}
      /\ r.kind = "login" => r.new \in SessionIds /\ Own(c, sessions[r.new], users)
      /\ r.kind = "token" => r.new \in TokenIds /\ Own(c, tokens[r.new], users)
  BY <1>1 DEF RequestOK, Shape, Owner
<1>3. /\ req' \in [Requests -> ReqState]
      /\ \A p \in Requests : req'[p] \in {req[p], NoRequest}
  BY <1>1, NoRequestOK DEF Set
<1>4. /\ jar[c] = [cookie |-> jar[c].cookie, token |-> jar[c].token]
      /\ jar[c].cookie \in SessionIds \cup {Nothing}
      /\ jar[c].token \in TokenIds \cup {Nothing}
      /\ Holds(c, jar[c].cookie, jar[c].token, users, sessions, tokens)
      /\ jar \in [Clients -> [cookie: SessionIds \cup {Nothing},
                              token: TokenIds \cup {Nothing}]]
  BY <1>2 DEF AuthInv, AuthTypeOK, JarsOwn
<1>5. CASE r.kind = "login"
  <2>1. jar' = [jar EXCEPT ![c].cookie = r.new]
    BY <1>5 DEF Reply
  <2>2. jar' = [jar EXCEPT ![c] = [cookie |-> r.new, token |-> jar[c].token]]
    <3>1. [jar[c] EXCEPT !.cookie = r.new] = [cookie |-> r.new, token |-> jar[c].token]
      BY <1>4
    <3> QED BY <2>1, <3>1, Zenon
  <2>3. Holds(c, r.new, jar[c].token, users, sessions, tokens)
    BY <1>2, <1>4, <1>5 DEF Holds
  <2> QED BY <1>1, <1>2, <1>3, <1>4, <1>5, <2>2, <2>3, JarStep
<1>6. CASE r.kind = "token"
  <2>1. jar' = [jar EXCEPT ![c].token = r.new]
    BY <1>6 DEF Reply
  <2>2. jar' = [jar EXCEPT ![c] = [cookie |-> jar[c].cookie, token |-> r.new]]
    <3>1. [jar[c] EXCEPT !.token = r.new] = [cookie |-> jar[c].cookie, token |-> r.new]
      BY <1>4
    <3> QED BY <2>1, <3>1, Zenon
  <2>3. Holds(c, jar[c].cookie, r.new, users, sessions, tokens)
    BY <1>2, <1>4, <1>6 DEF Holds
  <2> QED BY <1>1, <1>2, <1>3, <1>4, <1>6, <2>2, <2>3, JarStep
<1>7. CASE r.kind = "logout"
  <2>1. jar' = [jar EXCEPT ![c].cookie = Nothing]
    BY <1>7 DEF Reply
  <2>2. jar' = [jar EXCEPT ![c] = [cookie |-> Nothing, token |-> jar[c].token]]
    <3>1. [jar[c] EXCEPT !.cookie = Nothing] = [cookie |-> Nothing, token |-> jar[c].token]
      BY <1>4
    <3> QED BY <2>1, <3>1, Zenon
  <2>3. Holds(c, Nothing, jar[c].token, users, sessions, tokens)
    BY <1>4 DEF Holds
  <2> QED BY <1>1, <1>2, <1>3, <1>4, <2>2, <2>3, JarStep
<1> QED BY <1>2, <1>5, <1>6, <1>7

LEMMA ForgetStep ==
    ASSUME AuthInv, NEW c \in Clients, Forget(c)
    PROVE  AuthInv'
<1>1. Holds(c, Nothing, Nothing, users, sessions, tokens)
  BY DEF Holds
<1>2. req' \in [Requests -> ReqState] /\ \A q \in Requests : req'[q] \in {req[q], NoRequest}
  BY DEF Forget, AuthInv
<1> QED BY <1>1, <1>2, JarStep DEF Forget

LEMMA AgedCredential ==
    ASSUME NEW row \in CredentialRow
    PROVE  /\ [row EXCEPT !.expiresAt = Older(row.expiresAt, 1)] \in CredentialRow
           /\ Fades(row, [row EXCEPT !.expiresAt = Older(row.expiresAt, 1)])
<1>1. /\ row.expiresAt \in -1..Max2(0, Max2(SessionTTL, TokenTTL))
      /\ Max2(0, Max2(SessionTTL, TokenTTL)) \in Nat
  BY AuthAssumption DEF CredentialRow, Max2
<1>2. /\ Older(row.expiresAt, 1) \in -1..Max2(0, Max2(SessionTTL, TokenTTL))
      /\ Older(row.expiresAt, 1) <= row.expiresAt
  BY <1>1 DEF Older
<1> QED BY <1>1, <1>2 DEF CredentialRow, Fades, Live, Exists

LEMMA TickStep ==
    ASSUME AuthInv, Tick
    PROVE  AuthInv'
<1>1. TablesTyped /\ req \in [Requests -> ReqState]
  BY DEF AuthInv, AuthTypeOK, TablesTyped
<1>2. \A s \in SessionIds :
          sessions'[s] = [sessions[s] EXCEPT !.expiresAt = Older(sessions[s].expiresAt, 1)]
  BY Zenon DEF Tick
<1>3. \A t \in TokenIds :
          tokens'[t] = [tokens[t] EXCEPT !.expiresAt = Older(tokens[t].expiresAt, 1)]
  BY Zenon DEF Tick
<1>4. \A s \in SessionIds :
          sessions'[s] \in CredentialRow /\ Fades(sessions[s], sessions'[s])
  BY <1>1, <1>2, AgedCredential DEF TablesTyped
<1>5. \A t \in TokenIds : tokens'[t] \in CredentialRow /\ Fades(tokens[t], tokens'[t])
  BY <1>1, <1>3, AgedCredential DEF TablesTyped
<1>6. /\ sessions' \in [SessionIds -> CredentialRow]
      /\ tokens' \in [TokenIds -> CredentialRow]
  <2>1. /\ sessions' = [s \in SessionIds |-> sessions'[s]]
        /\ tokens' = [t \in TokenIds |-> tokens'[t]]
    BY Zenon DEF Tick
  <2> QED BY <1>4, <1>5, <2>1
<1>7. TablesTyped' /\ Grow(users, users') /\ req' = req /\ jar' = jar
  BY <1>1, <1>6 DEF TablesTyped, Grow, Tick
<1>8. /\ \A c \in Clients : JarSafe(c)
      /\ \A q \in Requests : ReqSafe(q)
  BY <1>4, <1>5 DEF JarSafe, ReqSafe
<1> QED BY <1>1, <1>7, <1>8, InvKept

-----------------------------------------------------------------------------
(* The invariant.                                                          *)

LEMMA AuthInvInit == AuthInit => AuthInv
<1> SUFFICES ASSUME AuthInit PROVE AuthInv
  OBVIOUS
<1>1. TablesTyped /\ req \in [Requests -> ReqState]
  BY NoRowTyped, NoRequestOK DEF AuthInit, TablesTyped
<1>2. \A q \in Requests : RequestOK(req[q], users, sessions, tokens)
  BY NoRequestOK DEF AuthInit
<1>3. JarsOwn
  BY DEF AuthInit, JarsOwn, Holds
<1>4. AuthTypeOK
  BY <1>1 DEF AuthTypeOK, TablesTyped, AuthInit, NoRequest
<1> QED BY <1>1, <1>2, <1>3, <1>4 DEF AuthInv

LEMMA AuthInvStep == AuthInv /\ [AuthNext]_authVars => AuthInv'
<1> SUFFICES ASSUME AuthInv, [AuthNext]_authVars PROVE AuthInv'
  OBVIOUS
<1>1. ASSUME NEW q \in Requests, Serve(q) PROVE AuthInv'
  <2>1. CASE Use(q) \/ LoginRefused(q) \/ CreateFails(q) \/ ReplyLost(q)
    BY <2>1, DoneStep DEF Use, LoginRefused, CreateFails, ReplyLost
  <2>2. CASE \/ LookupLive(q) \/ LookupMisses(q) \/ LookupExpired(q)
             \/ LookupUser(q) \/ LookupFails(q)
    BY <2>2, LookupStep
  <2> QED
    BY <1>1, <2>1, <2>2, PurgeStep, RegisterStep, LoginStep, CreateSessionStep,
       CreateBearerTokenStep, LogoutStep, ReplyStep
       DEF Serve
<1>2. CASE UNCHANGED authVars
  BY <1>2 DEF authVars, AuthInv, AuthTypeOK, JarsOwn
<1> QED
  BY <1>1, <1>2, SendStep, ForgetStep, TickStep DEF AuthNext

LEMMA AuthInvariant == AuthSpec => []AuthInv
BY AuthInvInit, AuthInvStep, PTL DEF AuthSpec

\* The tables, cookies and tokens of internal/auth keep their types: a cookie
\* names a session and a token a token, whatever is answered or lost.
THEOREM AuthTyped == AuthSpec => []AuthTypeOK
<1>1. AuthInv => AuthTypeOK
  BY DEF AuthInv
<1> QED BY AuthInvariant, <1>1, PTL

\* Middleware serves a request as somebody only if its session or token was
\* live when it was sent, however lookups, purges, logouts and logins
\* interleave.
THEOREM PrincipalsWereLive == AuthSpec => []PrincipalWasLive
<1>1. AuthInv => PrincipalWasLive
  BY DEF AuthInv, RequestOK, Owner, PrincipalWasLive, Principal
<1> QED BY AuthInvariant, <1>1, PTL

\* A client is served as an account only if it can type its password: no
\* interleaving of Register, Login, CreateBearerToken and Logout mixes up two.
THEOREM PrincipalsKnowPassword == AuthSpec => []PrincipalKnowsPassword
<1>1. AuthInv => PrincipalKnowsPassword
  BY DEF AuthInv, RequestOK, Owner, PrincipalKnowsPassword, Principal
<1> QED BY AuthInvariant, <1>1, PTL

\* A credential that is live when the handler starts was accepted by
\* Middleware, unless the store failed.
THEOREM LiveCredentialsAccepted == AuthSpec => []LiveCredentialAccepted
<1>1. ASSUME AuthInv, NEW q \in Requests, At(q, "handle"),
             Live(Credential(req[q])), ~req[q].failed
      PROVE  Principal(q) = Credential(req[q]).user
  <2>1. Looked(req[q], Credential(req[q])) /\ req[q].pc = "handle"
    BY <1>1, RequestFacts DEF RequestOK, At
  <2> QED BY <1>1, <2>1 DEF Looked, Principal
<1>2. AuthInv => LiveCredentialAccepted
  BY <1>1 DEF LiveCredentialAccepted
<1> QED BY AuthInvariant, <1>2, PTL
=============================================================================

---------------------------- MODULE TodosProofs -----------------------------
(***************************************************************************)
(* The todos domain for any number of todos and of requests in flight.     *)
(*                                                                         *)
(* The properties speak of answers; the invariant says what is known       *)
(* before each statement of a handler.  A row only moves forward, from     *)
(* unused to live to gone, so what one request has seen of it stays true   *)
(* whatever the others do; the request that has inserted a row is the only *)
(* one that publishes it.                                                  *)
(***************************************************************************)
EXTENDS Todos, TLAPS

Steps == {"none", "insert", "publish", "update", "find", "get", "delete", "list",
          "answered", "shown"}
Answers == {"ok", "notfound", "error", "denied", "invalid"}
ReqState == [pc: Steps, kind: Kinds, from: Origins, id: Ids \cup {Nothing},
             at: Instants, answer: Answers, shown: SUBSET Ids]

\* What request r may rely on when the table is td.
RequestOK(r, td) ==
    /\ r.pc \in {"insert", "publish"} => r.kind = "create"
    /\ r.pc \in {"find", "delete"} => r.kind = "delete"
    /\ r.pc = "update" => r.kind = "update"
    /\ r.pc = "get" => r.kind = "get"
    /\ r.pc = "list" => r.answer # "notfound"
    /\ r.pc \in {"publish", "update", "find", "get", "delete"} =>
           r.id \in Ids /\ td[r.id].state # "unused"
    /\ r.pc = "update" /\ td[r.id].state = "live" => td[r.id].createdAt <= r.at
    /\ r.pc \in {"list", "answered", "shown"} =>
           /\ r.answer = "notfound" \/ (r.answer = "ok" /\ r.kind = "delete") =>
                  r.id \in Ids /\ td[r.id].state = "gone"
           /\ r.answer = "ok" /\ r.kind = "create" =>
                  r.id \in Ids /\ td[r.id].state # "unused"
    /\ r.pc = "shown" /\ r.answer = "ok" =>
           /\ r.kind = "create" => r.id \in r.shown \/ td[r.id].state = "gone"
           /\ r.kind = "delete" => r.id \notin r.shown

Publishes(q, t) == req[q].pc = "publish" /\ req[q].id = t
Pending(t) == \E q \in Requests : Publishes(q, t)

\* The row's audit: none before it exists, and one publisher at most.
AuditInv ==
    /\ AuditedOnce
    /\ \A t \in Ids : todos[t].state = "unused" => audits[t] = 0 /\ ~todos[t].lost
    /\ \A t \in Ids : Pending(t) => ~todos[t].lost /\ todos[t].state # "unused"
    /\ \A t \in Ids, p, q \in Requests : Publishes(p, t) /\ Publishes(q, t) => p = q

Typed ==
    /\ todos \in [Ids -> TodoRow]
    /\ audits \in [Ids -> 0..1]
    /\ req \in [Requests -> ReqState]

TodosInv ==
    /\ Typed
    /\ UpdatedNotBeforeCreated
    /\ \A q \in Requests : RequestOK(req[q], todos)
    /\ AuditInv

-----------------------------------------------------------------------------
(* Rows move forward.                                                      *)

Moves(old, new) ==
    /\ old.state # "unused" => new.state # "unused"
    /\ old.state = "gone" => new.state = "gone"
    /\ old.state = "live" /\ new.state = "live" => new.createdAt <= old.createdAt

LEMMA RequestKept ==
    ASSUME NEW r \in ReqState, NEW td \in [Ids -> TodoRow], NEW td2 \in [Ids -> TodoRow],
           \A t \in Ids : Moves(td[t], td2[t]), RequestOK(r, td)
    PROVE  RequestOK(r, td2)
<1>1. ASSUME r.pc \in {"publish", "update", "find", "get", "delete"}
      PROVE  r.id \in Ids /\ td[r.id].state # "unused" /\ td2[r.id].state # "unused"
  BY <1>1 DEF RequestOK, Moves
<1>2. ASSUME r.pc = "update", td2[r.id].state = "live"
      PROVE  td2[r.id].createdAt <= r.at
  <2>1. r.id \in Ids /\ td[r.id].state # "unused" /\ Moves(td[r.id], td2[r.id])
    BY <1>1, <1>2
  <2>2. td[r.id].state = "live"
    BY <1>2, <2>1 DEF Moves, TodoRow, States
  <2>3. td[r.id].createdAt <= r.at
    BY <1>2, <2>2 DEF RequestOK
  <2>4. td2[r.id].createdAt <= td[r.id].createdAt
    BY <1>2, <2>1, <2>2 DEF Moves
  <2>5. td2[r.id].createdAt \in Int /\ td[r.id].createdAt \in Int /\ r.at \in Int
    BY <2>1 DEF TodoRow, Instants, ReqState
  <2> QED BY <2>3, <2>4, <2>5
<1>3. ASSUME r.pc \in {"list", "answered", "shown"}
      PROVE  /\ r.answer = "notfound" \/ (r.answer = "ok" /\ r.kind = "delete") =>
                    r.id \in Ids /\ td2[r.id].state = "gone"
             /\ r.answer = "ok" /\ r.kind = "create" =>
                    r.id \in Ids /\ td2[r.id].state # "unused"
  BY <1>3 DEF RequestOK, Moves
<1>4. ASSUME r.pc = "shown", r.answer = "ok"
      PROVE  /\ r.kind = "create" => r.id \in r.shown \/ td2[r.id].state = "gone"
             /\ r.kind = "delete" => r.id \notin r.shown
  BY <1>4 DEF RequestOK, Moves
<1> QED BY <1>1, <1>2, <1>3, <1>4 DEF RequestOK

\* One request changes, the rows move forward.
LEMMA RequestsStep ==
    ASSUME TodosInv, NEW q \in Requests, NEW r \in ReqState, Set(q, r),
           todos' \in [Ids -> TodoRow],
           \A t \in Ids : Moves(todos[t], todos'[t]),
           RequestOK(r, todos')
    PROVE  /\ req' \in [Requests -> ReqState]
           /\ \A p \in Requests : RequestOK(req'[p], todos')
           /\ req'[q] = r
           /\ \A p \in Requests : p # q => req'[p] = req[p]
<1>1. req \in [Requests -> ReqState] /\ todos \in [Ids -> TodoRow]
  BY DEF TodosInv, Typed
<1>2. req' \in [Requests -> ReqState] /\ req'[q] = r
  BY <1>1 DEF Set
<1>3. \A p \in Requests : p # q => req'[p] = req[p]
  BY <1>1 DEF Set
<1>4. \A p \in Requests : RequestOK(req[p], todos')
  BY <1>1, RequestKept DEF TodosInv
<1> QED BY <1>2, <1>3, <1>4

-----------------------------------------------------------------------------
(* The end of a service call.                                              *)

LEMMA FinishedType ==
    ASSUME NEW r \in ReqState, NEW a \in Answers
    PROVE  /\ Finished(r, a) \in ReqState
           /\ Finished(r, a).answer = a
           /\ Finished(r, a).kind = r.kind
           /\ Finished(r, a).id = r.id
           /\ Finished(r, a).pc \in {"list", "answered"}
           /\ Finished(r, a).pc = "list" => r.kind = "create" \/ (r.kind = "delete" /\ a = "ok")
<1> DEFINE step == IF ListsAfter(r, a) THEN "list" ELSE "answered"
           b == [r EXCEPT !.answer = a, !.at = 0]
<1>1. /\ step \in {"list", "answered"}
      /\ step = "list" => r.kind = "create" \/ (r.kind = "delete" /\ a = "ok")
  BY DEF ListsAfter
<1>2. b \in ReqState /\ b.answer = a /\ b.kind = r.kind /\ b.id = r.id
  <2>1. 0 \in Instants
    BY DEF Instants
  <2> QED BY <2>1 DEF ReqState
<1>3. Finished(r, a) = [b EXCEPT !.pc = step]
  BY DEF Finished
<1> HIDE DEF step, b
<1>4. [b EXCEPT !.pc = step] \in ReqState
  BY <1>1, <1>2 DEF ReqState, Steps
<1> QED BY <1>1, <1>2, <1>3, <1>4 DEF ReqState

LEMMA FinishedOK ==
    ASSUME NEW r \in ReqState, NEW a \in Answers, NEW td,
           a = "notfound" => r.kind # "create",
           a = "notfound" \/ (a = "ok" /\ r.kind = "delete") =>
               r.id \in Ids /\ td[r.id].state = "gone",
           a = "ok" /\ r.kind = "create" => r.id \in Ids /\ td[r.id].state # "unused"
    PROVE  RequestOK(Finished(r, a), td)
<1> DEFINE f == Finished(r, a)
<1>1. /\ f.answer = a
      /\ f.kind = r.kind
      /\ f.id = r.id
      /\ f.pc \in {"list", "answered"}
      /\ f.pc = "list" => r.kind = "create" \/ (r.kind = "delete" /\ a = "ok")
  BY FinishedType
<1> HIDE DEF f
<1>2. RequestOK(f, td)
  BY <1>1 DEF RequestOK
<1> QED BY <1>2 DEF f

LEMMA NoRequestOK ==
    ASSUME NEW td
    PROVE  NoRequest \in ReqState /\ RequestOK(NoRequest, td) /\ NoRequest.pc = "none"
<1>1. NoRequest \in ReqState /\ NoRequest.pc = "none"
  BY DEF NoRequest, ReqState, Steps, Kinds, Origins, Instants, Answers
<1> QED BY <1>1 DEF RequestOK

-----------------------------------------------------------------------------
(* Audits.                                                                 *)

\* A step that publishes nothing, creates nothing and loses nothing.
LEMMA AuditKept ==
    ASSUME TodosInv, audits' = audits,
           \A t \in Ids : /\ todos'[t].lost = todos[t].lost
                          /\ todos'[t].state = "unused" <=> todos[t].state = "unused",
           \A p \in Requests, t \in Ids : Publishes(p, t)' <=> Publishes(p, t)
    PROVE  AuditInv'
<1>1. \A t \in Ids : Pending(t)' <=> Pending(t)
  BY DEF Pending
<1>2. AuditedOnce'
  <2> SUFFICES ASSUME NEW t \in Ids, todos'[t].state # "unused"
               PROVE  audits'[t] = IF todos'[t].lost \/ Pending(t)' THEN 0 ELSE 1
    BY DEF AuditedOnce, Pending, Publishes, At
  <2>1. audits[t] = IF todos[t].lost \/ Pending(t) THEN 0 ELSE 1
    BY DEF TodosInv, AuditInv, AuditedOnce, Pending, Publishes, At
  <2> QED BY <1>1, <2>1
<1>3. \A t \in Ids : todos'[t].state = "unused" => audits'[t] = 0 /\ ~todos'[t].lost
  BY DEF TodosInv, AuditInv
<1>4. \A t \in Ids : Pending(t)' => ~todos'[t].lost /\ todos'[t].state # "unused"
  BY <1>1 DEF TodosInv, AuditInv
<1>5. \A t \in Ids, p, q \in Requests : Publishes(p, t)' /\ Publishes(q, t)' => p = q
  BY DEF TodosInv, AuditInv
<1> QED BY <1>2, <1>3, <1>4, <1>5 DEF AuditInv

-----------------------------------------------------------------------------
(* Steps.                                                                  *)

LEMMA Facts ==
    ASSUME TodosInv, NEW q \in Requests
    PROVE  /\ req[q] \in ReqState
           /\ RequestOK(req[q], todos)
           /\ todos \in [Ids -> TodoRow]
           /\ \A t \in Ids : /\ todos[t] \in TodoRow
                             /\ todos[t].createdAt \in Int
                             /\ Moves(todos[t], todos[t])
BY DEF TodosInv, Typed, TodoRow, Instants, Moves

\* A request that publishes nothing goes on, the table as it was.
LEMMA OnlyRequest ==
    ASSUME TodosInv, NEW q \in Requests, NEW r \in ReqState, Set(q, r),
           UNCHANGED <<todos, audits>>, RequestOK(r, todos),
           req[q].pc # "publish", r.pc # "publish"
    PROVE  TodosInv'
<1>1. /\ req' \in [Requests -> ReqState]
      /\ \A p \in Requests : RequestOK(req'[p], todos')
      /\ req'[q] = r
      /\ \A p \in Requests : p # q => req'[p] = req[p]
  BY RequestsStep, Facts
<1>2. \A p \in Requests, t \in Ids : Publishes(p, t)' <=> Publishes(p, t)
  BY <1>1 DEF Publishes
<1>3. AuditInv'
  BY <1>2, AuditKept
<1>4. UpdatedNotBeforeCreated'
  BY DEF TodosInv, UpdatedNotBeforeCreated, LiveIds
<1>5. Typed'
  BY <1>1 DEF TodosInv, Typed
<1> QED BY <1>1, <1>3, <1>4, <1>5 DEF TodosInv

\* UPDATE or DELETE of a row by a request that publishes nothing.
LEMMA RowStep ==
    ASSUME TodosInv, NEW q \in Requests, NEW r \in ReqState, Set(q, r),
           NEW t \in Ids, NEW row \in TodoRow,
           todos' = [todos EXCEPT ![t] = row], UNCHANGED audits,
           Moves(todos[t], row), todos[t].state # "unused",
           row.lost = todos[t].lost,
           row.state = "live" => row.createdAt <= row.updatedAt,
           RequestOK(r, todos'),
           req[q].pc # "publish", r.pc # "publish"
    PROVE  TodosInv'
<1>0. todos \in [Ids -> TodoRow]
  BY DEF TodosInv, Typed
<1>1. /\ todos' \in [Ids -> TodoRow]
      /\ todos'[t] = row
      /\ \A u \in Ids : u # t => todos'[u] = todos[u]
  BY <1>0
<1>2. \A u \in Ids : Moves(todos[u], todos'[u])
  BY <1>1, Facts
<1>3. /\ req' \in [Requests -> ReqState]
      /\ \A p \in Requests : RequestOK(req'[p], todos')
      /\ req'[q] = r
      /\ \A p \in Requests : p # q => req'[p] = req[p]
  BY <1>1, <1>2, RequestsStep
<1>4. \A p \in Requests, u \in Ids : Publishes(p, u)' <=> Publishes(p, u)
  BY <1>3 DEF Publishes
<1>5. \A u \in Ids : /\ todos'[u].lost = todos[u].lost
                     /\ todos'[u].state = "unused" <=> todos[u].state = "unused"
  BY <1>1 DEF Moves
<1>6. AuditInv'
  BY <1>4, <1>5, AuditKept
<1>7. UpdatedNotBeforeCreated'
  BY <1>1 DEF TodosInv, UpdatedNotBeforeCreated, LiveIds
<1>8. Typed'
  BY <1>1, <1>3 DEF TodosInv, Typed
<1> QED BY <1>3, <1>6, <1>7, <1>8 DEF TodosInv

\* A request as it arrives.
Arrived(kind, from, id) == [NoRequest EXCEPT !.kind = kind, !.from = from, !.id = id]

LEMMA NewRequest ==
    ASSUME NEW kind \in Kinds, NEW from \in Origins, NEW id \in Ids \cup {Nothing}
    PROVE  LET r == Arrived(kind, from, id) IN
           /\ r \in ReqState
           /\ r.kind = kind
           /\ r.id = id
           /\ r.at = 0
           /\ r.answer = "ok"
<1>1. NoRequest \in ReqState /\ NoRequest.at = 0 /\ NoRequest.answer = "ok"
  BY NoRequestOK DEF NoRequest
<1> QED BY <1>1 DEF Arrived, ReqState

LEMMA BeginStep ==
    ASSUME TodosInv, NEW q \in Requests, NEW kind \in Kinds, NEW from \in Origins,
           NEW id \in Ids \cup {Nothing}, Begin(q, kind, from, id)
    PROVE  TodosInv'
<1> DEFINE r == Arrived(kind, from, id)
           n == [r EXCEPT !.pc = FirstStatement[kind]]
           step == FirstStatement[kind]
<1>1. /\ r \in ReqState
      /\ r.kind = kind
      /\ r.id = id
      /\ r.at = 0
      /\ r.answer = "ok"
  BY NewRequest
<1>2. Set(q, n) /\ UNCHANGED <<todos, audits>> /\ req[q].pc = "none"
  BY DEF Begin, At, Arrived
<1>3. /\ kind = "create" => step = "insert"
      /\ kind = "update" => step = "update"
      /\ kind = "delete" => step = "find"
      /\ kind = "get" => step = "get"
      /\ kind = "list" => step = "list"
  BY DEF FirstStatement
<1>4. kind \in {"create", "update", "delete", "get", "list"}
  BY DEF Kinds
<1>5. kind \notin {"create", "list"} => id \in Ids /\ todos[id].state # "unused"
  BY DEF Begin, Routed
<1> HIDE DEF r, step
<1>6. /\ n \in ReqState
      /\ n.pc = step
      /\ n.kind = kind
      /\ n.id = id
      /\ n.at = 0
      /\ n.answer = "ok"
  <2>1. n = [r EXCEPT !.pc = step]
    BY DEF step
  <2>2. step \in Steps
    BY <1>3, <1>4 DEF Steps
  <2> HIDE DEF n
  <2> QED BY <1>1, <2>1, <2>2 DEF ReqState
<1> HIDE DEF n
<1>7. n.pc \notin {"publish", "none", "delete", "answered", "shown"}
  BY <1>3, <1>4, <1>6
<1>8. RequestOK(n, todos)
  <2>1. id \in Ids => todos[id].createdAt <= 0
    BY Facts DEF TodoRow, Instants
  <2> QED BY <1>3, <1>4, <1>5, <1>6, <1>7, <2>1 DEF RequestOK
<1> QED BY <1>2, <1>6, <1>7, <1>8, OnlyRequest

LEMMA RefuseStep ==
    ASSUME TodosInv, NEW q \in Requests, NEW kind \in Kinds, NEW from \in Origins,
           NEW id \in Ids \cup {Nothing}, NEW why \in {"denied", "invalid"},
           Refuse(q, kind, from, id, why)
    PROVE  TodosInv'
<1> DEFINE r == Arrived(kind, from, id)
<1>1. r \in ReqState
  BY NewRequest
<1>2. Set(q, Finished(r, why)) /\ UNCHANGED <<todos, audits>> /\ req[q].pc = "none"
  BY DEF Refuse, At, Arrived
<1>3. why \in Answers /\ why # "ok" /\ why # "notfound"
  BY DEF Answers
<1> HIDE DEF r
<1> QED BY <1>1, <1>2, <1>3, FinishedType, FinishedOK, OnlyRequest

\* The service call ends without having changed the table.
LEMMA FinishStep ==
    ASSUME TodosInv, NEW q \in Requests, NEW a \in Answers, Finish(q, a),
           UNCHANGED <<todos, audits>>, req[q].pc # "publish",
           a = "notfound" => req[q].kind # "create",
           a = "notfound" \/ (a = "ok" /\ req[q].kind = "delete") =>
               req[q].id \in Ids /\ todos[req[q].id].state = "gone",
           a = "ok" => req[q].kind # "create"
    PROVE  TodosInv'
<1>1. Finished(req[q], a) \in ReqState /\ Finished(req[q], a).pc # "publish"
  BY Facts, FinishedType
<1>2. RequestOK(Finished(req[q], a), todos)
  BY Facts, FinishedOK
<1> QED BY <1>1, <1>2, OnlyRequest DEF Finish

LEMMA FindStep ==
    ASSUME TodosInv, NEW q \in Requests, FindTodoById(q)
    PROVE  TodosInv'
<1> DEFINE r == req[q]
<1>1. /\ r \in ReqState
      /\ r.pc \in {"get", "find"}
      /\ r.id \in Ids /\ todos[r.id].state # "unused"
      /\ r.kind \in {"get", "delete"}
      /\ r.pc = "get" => r.kind = "get"
      /\ r.pc = "find" => r.kind = "delete"
      /\ todos[r.id] \in TodoRow
      /\ UNCHANGED <<todos, audits>>
  BY Facts DEF FindTodoById, RequestOK
<1>2. CASE r.id \notin LiveIds
  <2>1. todos[r.id].state = "gone"
    BY <1>1, <1>2 DEF LiveIds, TodoRow, States
  <2>2. Finish(q, "notfound")
    BY <1>2 DEF FindTodoById
  <2> QED BY <1>1, <2>1, <2>2, FinishStep DEF Answers
<1>3. CASE r.id \in LiveIds /\ r.pc = "find"
  <2> DEFINE n == [r EXCEPT !.pc = "delete"]
  <2>1. Set(q, n)
    BY <1>3 DEF FindTodoById, At
  <2>2. n \in ReqState /\ n.pc = "delete" /\ n.kind = r.kind /\ n.id = r.id
    BY <1>1 DEF ReqState, Steps
  <2> HIDE DEF n
  <2>3. RequestOK(n, todos)
    BY <1>1, <1>3, <2>2 DEF RequestOK
  <2> QED BY <1>1, <2>1, <2>2, <2>3, OnlyRequest
<1>4. CASE r.id \in LiveIds /\ r.pc = "get"
  <2>1. Finish(q, "ok")
    BY <1>4 DEF FindTodoById, At
  <2> QED BY <1>1, <1>4, <2>1, FinishStep DEF Answers
<1> QED BY <1>1, <1>2, <1>3, <1>4

LEMMA ListStep ==
    ASSUME TodosInv, NEW q \in Requests, ListAllTodos(q) \/ ListFails(q)
    PROVE  TodosInv'
<1> DEFINE r == req[q]
<1>1. /\ r \in ReqState
      /\ r.pc = "list"
      /\ RequestOK(r, todos)
      /\ UNCHANGED <<todos, audits>>
      /\ \A t \in Ids : todos[t] \in TodoRow
  BY Facts DEF ListAllTodos, ListFails, At
<1>2. 0 \in Instants
  BY DEF Instants
<1>3. CASE ListAllTodos(q)
  <2> DEFINE n == [r EXCEPT !.pc = "shown", !.at = 0, !.shown = LiveIds]
  <2>1. Set(q, n)
    BY <1>3 DEF ListAllTodos
  <2>2. LiveIds \in SUBSET Ids
    BY DEF LiveIds
  <2>3. /\ n \in ReqState
        /\ n.pc = "shown" /\ n.kind = r.kind /\ n.id = r.id
        /\ n.answer = r.answer /\ n.shown = LiveIds
    BY <1>1, <1>2, <2>2 DEF ReqState, Steps
  <2> HIDE DEF n
  <2>4. \A t \in Ids : todos[t].state = "live" => t \in LiveIds
    BY DEF LiveIds
  <2>5. \A t \in Ids : todos[t].state = "gone" => t \notin LiveIds
    BY DEF LiveIds
  <2>6. RequestOK(n, todos)
    BY <1>1, <2>3, <2>4, <2>5 DEF RequestOK, TodoRow, States
  <2> QED BY <1>1, <2>1, <2>3, <2>6, OnlyRequest
<1>4. CASE ListFails(q)
  <2> DEFINE a == IF r.answer = "ok" THEN "error" ELSE r.answer
             n == [r EXCEPT !.pc = "answered", !.at = 0, !.answer = a]
  <2>1. Set(q, n)
    BY <1>4, Zenon DEF ListFails
  <2>2. a \in Answers /\ a # "ok" /\ a # "notfound"
    BY <1>1 DEF ReqState, Answers, RequestOK
  <2> HIDE DEF a
  <2>3. /\ n \in ReqState
        /\ n.pc = "answered" /\ n.kind = r.kind /\ n.id = r.id
        /\ n.answer = a
    BY <1>1, <1>2, <2>2 DEF ReqState, Steps
  <2> HIDE DEF n
  <2>4. RequestOK(n, todos)
    BY <2>2, <2>3 DEF RequestOK
  <2> QED BY <1>1, <2>1, <2>3, <2>4, OnlyRequest
<1> QED BY <1>3, <1>4

\* UPDATE: the clock was read after the row was created.
LEMMA UpdatedRow ==
    ASSUME TodosInv, NEW q \in Requests, req[q].pc = "update", req[q].id \in LiveIds
    PROVE  LET row == [todos[req[q].id] EXCEPT !.updatedAt = req[q].at] IN
           /\ req[q].id \in Ids
           /\ todos[req[q].id].state = "live"
           /\ row \in TodoRow
           /\ row.state = "live"
           /\ row.lost = todos[req[q].id].lost
           /\ row.createdAt <= row.updatedAt
           /\ Moves(todos[req[q].id], row)
<1> DEFINE id == req[q].id
           row == [todos[id] EXCEPT !.updatedAt = req[q].at]
<1>1. /\ id \in Ids /\ todos[id].state = "live" /\ todos[id] \in TodoRow
      /\ req[q] \in ReqState /\ RequestOK(req[q], todos)
      /\ todos[id].createdAt \in Int
  BY Facts DEF LiveIds
<1>2. todos[id].createdAt <= req[q].at
  BY <1>1 DEF RequestOK
<1>3. req[q].at \in Instants
  BY <1>1 DEF ReqState
<1>4. /\ row \in TodoRow
      /\ row.state = "live"
      /\ row.lost = todos[id].lost
      /\ row.createdAt = todos[id].createdAt
      /\ row.updatedAt = req[q].at
  BY <1>1, <1>3 DEF TodoRow
<1> HIDE DEF row
<1>5. Moves(todos[id], row) /\ row.createdAt <= row.updatedAt
  BY <1>1, <1>2, <1>4 DEF Moves
<1> QED BY <1>1, <1>4, <1>5 DEF row

LEMMA DeletedRow ==
    ASSUME NEW old \in TodoRow
    PROVE  /\ DeletedTodo(old) \in TodoRow
           /\ DeletedTodo(old).state = "gone"
           /\ DeletedTodo(old).lost = old.lost
           /\ Moves(old, DeletedTodo(old))
<1>1. Unused \in TodoRow
  BY DEF Unused, TodoRow, States, Instants
<1>2. old.lost \in BOOLEAN
  BY DEF TodoRow
<1>3. /\ DeletedTodo(old) \in TodoRow
      /\ DeletedTodo(old).state = "gone"
      /\ DeletedTodo(old).lost = old.lost
  BY <1>1, <1>2 DEF DeletedTodo, TodoRow, States
<1> QED BY <1>3 DEF Moves

\* A row is written and the service call ends.
LEMMA WriteStep ==
    ASSUME TodosInv, NEW q \in Requests, NEW a \in {"ok", "error"}, Finish(q, a),
           UNCHANGED audits,
           \/ /\ req[q].pc = "update" /\ req[q].id \in LiveIds
              /\ todos' = [todos EXCEPT ![req[q].id].updatedAt = req[q].at]
           \/ /\ req[q].pc = "delete"
              /\ todos' = [todos EXCEPT ![req[q].id] = DeletedTodo(@)]
    PROVE  TodosInv'
<1> DEFINE r == req[q]
           t == r.id
           n == Finished(r, a)
<1>1. /\ r \in ReqState /\ RequestOK(r, todos) /\ todos \in [Ids -> TodoRow]
      /\ r.pc \in {"update", "delete"}
      /\ t \in Ids /\ todos[t].state # "unused" /\ todos[t] \in TodoRow
      /\ r.pc = "update" => r.kind = "update"
      /\ r.pc = "delete" => r.kind = "delete"
  BY Facts DEF RequestOK
<1>2. a \in Answers /\ Set(q, n) /\ n \in ReqState /\ n.pc # "publish"
  BY <1>1, FinishedType DEF Answers, Finish
<1> HIDE DEF n
<1>3. CASE r.pc = "update"
  <2> DEFINE row == [todos[t] EXCEPT !.updatedAt = r.at]
  <2>1. todos' = [todos EXCEPT ![t] = row]
    BY <1>3
  <2>2. /\ row \in TodoRow
        /\ row.state = "live"
        /\ row.lost = todos[t].lost
        /\ row.createdAt <= row.updatedAt
        /\ Moves(todos[t], row)
    BY <1>3, UpdatedRow
  <2> HIDE DEF row
  <2>3. RequestOK(n, todos')
    BY <1>1, <1>2, <1>3, FinishedOK DEF n
  <2> QED BY <1>1, <1>2, <1>3, <2>1, <2>2, <2>3, RowStep
<1>4. CASE r.pc = "delete"
  <2> DEFINE row == DeletedTodo(todos[t])
  <2>1. todos' = [todos EXCEPT ![t] = row]
    BY <1>4
  <2>2. /\ row \in TodoRow
        /\ row.state = "gone"
        /\ row.lost = todos[t].lost
        /\ Moves(todos[t], row)
    BY <1>1, DeletedRow
  <2> HIDE DEF row
  <2>3. todos'[t].state = "gone"
    BY <1>1, <2>1, <2>2
  <2>4. RequestOK(n, todos')
    <3>1. r.kind = "delete" /\ a # "notfound"
      BY <1>1, <1>4
    <3>2. RequestOK(Finished(r, a), todos')
      BY <1>1, <1>2, <2>3, <3>1, FinishedOK
    <3> QED BY <3>2 DEF n
  <2> QED BY <1>1, <1>2, <1>4, <2>1, <2>2, <2>4, RowStep
<1> QED BY <1>1, <1>3, <1>4

\* The rows and requests of the INSERT, and of the answers to it.
LEMMA InsertedRow ==
    ASSUME TodosInv, NEW q \in Requests, NEW t \in Ids, todos[t].state = "unused",
           NEW row \in TodoRow, row.state = "live", row.createdAt = row.updatedAt,
           todos' = [todos EXCEPT ![t] = row],
           NEW r \in ReqState, Set(q, r), RequestOK(r, todos')
    PROVE  /\ todos' \in [Ids -> TodoRow] /\ todos'[t] = row
           /\ \A u \in Ids : u # t => todos'[u] = todos[u]
           /\ UpdatedNotBeforeCreated'
           /\ req' \in [Requests -> ReqState]
           /\ \A p \in Requests : RequestOK(req'[p], todos')
           /\ req'[q] = r
           /\ \A p \in Requests : p # q => req'[p] = req[p]
<1>1. /\ todos' \in [Ids -> TodoRow]
      /\ todos'[t] = row
      /\ \A u \in Ids : u # t => todos'[u] = todos[u]
  BY Facts
<1>2. \A u \in Ids : Moves(todos[u], todos'[u])
  <2>1. Moves(todos[t], row)
    BY DEF Moves
  <2> QED BY <1>1, <2>1, Facts
<1>3. UpdatedNotBeforeCreated'
  <2>1. row.createdAt <= row.updatedAt
    BY DEF TodoRow, Instants
  <2> QED BY <1>1, <2>1 DEF TodosInv, UpdatedNotBeforeCreated, LiveIds
<1> QED BY <1>1, <1>2, <1>3, RequestsStep

LEMMA NewTodoRow ==
    ASSUME NEW at \in Instants
    PROVE  /\ NewTodo(at) \in TodoRow
           /\ NewTodo(at).state = "live"
           /\ NewTodo(at).createdAt = NewTodo(at).updatedAt
           /\ ~NewTodo(at).lost
BY DEF NewTodo, TodoRow, States

LEMMA InsertStep ==
    ASSUME TodosInv, NEW q \in Requests, NEW t \in Ids, InsertTodo(q, t)
    PROVE  TodosInv'
<1> DEFINE r == req[q]
           row == NewTodo(r.at)
           n == [r EXCEPT !.pc = "publish", !.id = t, !.at = 0]
<1>1. /\ r \in ReqState /\ r.pc = "insert" /\ r.kind = "create"
      /\ todos[t].state = "unused"
      /\ todos' = [todos EXCEPT ![t] = row]
      /\ Set(q, n)
      /\ audits' = audits
  BY Facts DEF InsertTodo, At, RequestOK
<1>2. /\ row \in TodoRow /\ row.state = "live" /\ row.createdAt = row.updatedAt
      /\ ~row.lost
  BY <1>1, NewTodoRow DEF ReqState
<1>3. n \in ReqState /\ n.pc = "publish" /\ n.kind = "create" /\ n.id = t
  <2>1. 0 \in Instants
    BY DEF Instants
  <2> QED BY <1>1, <2>1 DEF ReqState, Steps
<1> HIDE DEF row, n
<1>4. RequestOK(n, todos')
  <2>1. todos'[t] = row
    BY <1>1, Facts
  <2> QED BY <1>2, <1>3, <2>1 DEF RequestOK
<1>5. /\ todos' \in [Ids -> TodoRow] /\ todos'[t] = row
      /\ \A u \in Ids : u # t => todos'[u] = todos[u]
      /\ UpdatedNotBeforeCreated'
      /\ req' \in [Requests -> ReqState]
      /\ \A p \in Requests : RequestOK(req'[p], todos')
      /\ req'[q] = n
      /\ \A p \in Requests : p # q => req'[p] = req[p]
  BY <1>1, <1>2, <1>3, <1>4, InsertedRow
<1>6. \A p \in Requests : ~Publishes(p, t)
  BY <1>1 DEF TodosInv, AuditInv, Pending
<1>7. \A p \in Requests, u \in Ids :
          Publishes(p, u)' <=> (p = q /\ u = t) \/ (p # q /\ Publishes(p, u))
  BY <1>3, <1>5 DEF Publishes
<1>8. ~ \E u \in Ids : Publishes(q, u)
  BY <1>1 DEF Publishes
<1>9. \A u \in Ids : Pending(u)' <=> u = t \/ Pending(u)
  BY <1>7, <1>8 DEF Pending
<1>10. AuditInv'
  <2>1. AuditedOnce'
    <3> SUFFICES ASSUME NEW u \in Ids, todos'[u].state # "unused"
                 PROVE  audits'[u] = IF todos'[u].lost \/ Pending(u)' THEN 0 ELSE 1
      BY DEF AuditedOnce, Pending, Publishes, At
    <3>1. CASE u = t
      BY <1>1, <1>9, <3>1 DEF TodosInv, AuditInv
    <3>2. CASE u # t
      <4>1. audits[u] = IF todos[u].lost \/ Pending(u) THEN 0 ELSE 1
        BY <1>5, <3>2 DEF TodosInv, AuditInv, AuditedOnce, Pending, Publishes, At
      <4> QED BY <1>1, <1>5, <1>9, <3>2, <4>1
    <3> QED BY <3>1, <3>2
  <2>2. \A u \in Ids : todos'[u].state = "unused" => audits'[u] = 0 /\ ~todos'[u].lost
    BY <1>1, <1>2, <1>5 DEF TodosInv, AuditInv
  <2>3. \A u \in Ids : Pending(u)' => ~todos'[u].lost /\ todos'[u].state # "unused"
    BY <1>2, <1>5, <1>9 DEF TodosInv, AuditInv
  <2>4. \A u \in Ids, p, o \in Requests : Publishes(p, u)' /\ Publishes(o, u)' => p = o
    BY <1>6, <1>7 DEF TodosInv, AuditInv
  <2> QED BY <2>1, <2>2, <2>3, <2>4 DEF AuditInv
<1> QED BY <1>1, <1>5, <1>10 DEF TodosInv, Typed

\* The INSERT takes effect, CreateTodo reports an error and publishes nothing.
LEMMA InsertLostStep ==
    ASSUME TodosInv, NEW q \in Requests, NEW t \in Ids, req[q].pc = "insert",
           todos[t].state = "unused",
           NEW row \in TodoRow, row.state = "live", row.createdAt = row.updatedAt,
           row.lost, todos' = [todos EXCEPT ![t] = row],
           Finish(q, "error"), UNCHANGED audits
    PROVE  TodosInv'
<1> DEFINE r == req[q]
           n == Finished(r, "error")
<1>1. r \in ReqState /\ "error" \in Answers
  BY Facts DEF Answers
<1>2. n \in ReqState /\ n.pc # "publish" /\ RequestOK(n, todos')
  BY <1>1, FinishedType, FinishedOK
<1>3. Set(q, n)
  BY DEF Finish
<1> HIDE DEF n
<1>4. /\ todos' \in [Ids -> TodoRow] /\ todos'[t] = row
      /\ \A u \in Ids : u # t => todos'[u] = todos[u]
      /\ UpdatedNotBeforeCreated'
      /\ req' \in [Requests -> ReqState]
      /\ \A p \in Requests : RequestOK(req'[p], todos')
      /\ req'[q] = n
      /\ \A p \in Requests : p # q => req'[p] = req[p]
  BY <1>2, <1>3, InsertedRow
<1>5. \A p \in Requests, u \in Ids : Publishes(p, u)' <=> Publishes(p, u)
  BY <1>2, <1>4 DEF Publishes
<1>6. \A u \in Ids : Pending(u)' <=> Pending(u)
  BY <1>5 DEF Pending
<1>7. ~Pending(t) /\ audits[t] = 0
  BY DEF TodosInv, AuditInv
<1>8. AuditInv'
  <2>1. AuditedOnce'
    <3> SUFFICES ASSUME NEW u \in Ids, todos'[u].state # "unused"
                 PROVE  audits'[u] = IF todos'[u].lost \/ Pending(u)' THEN 0 ELSE 1
      BY DEF AuditedOnce, Pending, Publishes, At
    <3>1. CASE u = t
      BY <1>4, <1>7, <3>1
    <3>2. CASE u # t
      <4>1. audits[u] = IF todos[u].lost \/ Pending(u) THEN 0 ELSE 1
        BY <1>4, <3>2 DEF TodosInv, AuditInv, AuditedOnce, Pending, Publishes, At
      <4> QED BY <1>4, <1>6, <3>2, <4>1
    <3> QED BY <3>1, <3>2
  <2>2. \A u \in Ids : todos'[u].state = "unused" => audits'[u] = 0 /\ ~todos'[u].lost
    BY <1>4 DEF TodosInv, AuditInv
  <2>3. \A u \in Ids : Pending(u)' => ~todos'[u].lost /\ todos'[u].state # "unused"
    BY <1>4, <1>6, <1>7 DEF TodosInv, AuditInv
  <2>4. \A u \in Ids, p, o \in Requests : Publishes(p, u)' /\ Publishes(o, u)' => p = o
    BY <1>5 DEF TodosInv, AuditInv
  <2> QED BY <2>1, <2>2, <2>3, <2>4 DEF AuditInv
<1> QED BY <1>4, <1>8 DEF TodosInv, Typed

\* The publisher of row t is done with it: the audit is there, or lost.
LEMMA PublishedStep ==
    ASSUME TodosInv, NEW q \in Requests, NEW t \in Ids, Publishes(q, t),
           NEW r \in ReqState, r.pc # "publish", Set(q, r),
           NEW row \in TodoRow, todos' = [todos EXCEPT ![t] = row],
           row.state = todos[t].state, row.createdAt = todos[t].createdAt,
           row.updatedAt = todos[t].updatedAt,
           audits' = [audits EXCEPT ![t] = IF row.lost THEN 0 ELSE 1],
           RequestOK(r, todos')
    PROVE  TodosInv'
<1>1. /\ todos' \in [Ids -> TodoRow]
      /\ todos'[t] = row
      /\ \A u \in Ids : u # t => todos'[u] = todos[u]
  BY Facts
<1>2. /\ audits' \in [Ids -> 0..1]
      /\ audits'[t] = IF row.lost THEN 0 ELSE 1
      /\ \A u \in Ids : u # t => audits'[u] = audits[u]
  BY DEF TodosInv, Typed
<1>3. \A u \in Ids : Moves(todos[u], todos'[u])
  <2>1. Moves(todos[t], row)
    BY Facts DEF Moves
  <2> QED BY <1>1, <2>1, Facts
<1>4. /\ req' \in [Requests -> ReqState]
      /\ \A p \in Requests : RequestOK(req'[p], todos')
      /\ req'[q] = r
      /\ \A p \in Requests : p # q => req'[p] = req[p]
  BY <1>1, <1>3, RequestsStep
<1>5. \A p \in Requests, u \in Ids : Publishes(p, u)' <=> p # q /\ Publishes(p, u)
  BY <1>4 DEF Publishes
<1>6. \A p \in Requests : Publishes(p, t) => p = q
  BY DEF TodosInv, AuditInv
<1>7. \A u \in Ids : u # t => ~Publishes(q, u)
  BY DEF Publishes
<1>8. \A u \in Ids : Pending(u)' <=> u # t /\ Pending(u)
  BY <1>5, <1>6, <1>7 DEF Pending
<1>9. todos[t].state # "unused"
  BY DEF TodosInv, AuditInv, Pending
<1>10. AuditInv'
  <2>1. AuditedOnce'
    <3> SUFFICES ASSUME NEW u \in Ids, todos'[u].state # "unused"
                 PROVE  audits'[u] = IF todos'[u].lost \/ Pending(u)' THEN 0 ELSE 1
      BY DEF AuditedOnce, Pending, Publishes, At
    <3>1. CASE u = t
      BY <1>1, <1>2, <1>8, <3>1
    <3>2. CASE u # t
      <4>1. audits[u] = IF todos[u].lost \/ Pending(u) THEN 0 ELSE 1
        BY <1>1, <3>2 DEF TodosInv, AuditInv, AuditedOnce, Pending, Publishes, At
      <4> QED BY <1>1, <1>2, <1>8, <3>2, <4>1
    <3> QED BY <3>1, <3>2
  <2>2. \A u \in Ids : todos'[u].state = "unused" => audits'[u] = 0 /\ ~todos'[u].lost
    BY <1>1, <1>2, <1>9 DEF TodosInv, AuditInv
  <2>3. \A u \in Ids : Pending(u)' => ~todos'[u].lost /\ todos'[u].state # "unused"
    BY <1>1, <1>8 DEF TodosInv, AuditInv
  <2>4. \A u \in Ids, p, o \in Requests : Publishes(p, u)' /\ Publishes(o, u)' => p = o
    BY <1>5 DEF TodosInv, AuditInv
  <2> QED BY <2>1, <2>2, <2>3, <2>4 DEF AuditInv
<1>11. UpdatedNotBeforeCreated'
  BY <1>1 DEF TodosInv, UpdatedNotBeforeCreated, LiveIds
<1> QED BY <1>1, <1>2, <1>4, <1>10, <1>11 DEF TodosInv, Typed

\* What is known when the event is to be published.
LEMMA AtPublish ==
    ASSUME TodosInv, NEW q \in Requests, At(q, "publish")
    PROVE  /\ req[q].id \in Ids
           /\ req[q].kind = "create"
           /\ Publishes(q, req[q].id)
           /\ todos[req[q].id].state # "unused"
           /\ ~todos[req[q].id].lost
           /\ audits[req[q].id] = 0
<1>1. /\ req[q].id \in Ids /\ req[q].kind = "create"
      /\ Publishes(q, req[q].id) /\ todos[req[q].id].state # "unused"
  BY Facts DEF At, RequestOK, Publishes
<1>2. Pending(req[q].id)
  BY <1>1 DEF Pending
<1>3. audits[req[q].id] = IF todos[req[q].id].lost \/ Pending(req[q].id) THEN 0 ELSE 1
  BY <1>1 DEF TodosInv, AuditInv, AuditedOnce, Pending, Publishes, At
<1> QED BY <1>1, <1>2, <1>3 DEF TodosInv, AuditInv

LEMMA PublishStep ==
    ASSUME TodosInv, NEW q \in Requests, Publish(q)
    PROVE  TodosInv'
<1> DEFINE t == req[q].id
           n == Finished(req[q], "ok")
<1>1. /\ t \in Ids /\ req[q].kind = "create" /\ Publishes(q, t)
      /\ todos[t].state # "unused" /\ ~todos[t].lost /\ audits[t] = 0
      /\ todos' = todos
      /\ audits' = [audits EXCEPT ![t] = audits[t] + 1]
      /\ Set(q, n)
  BY AtPublish DEF Publish, Finish
<1>2. todos' = [todos EXCEPT ![t] = todos[t]] /\ todos[t] \in TodoRow
  BY <1>1, Facts
<1>3. audits' = [audits EXCEPT ![t] = IF todos[t].lost THEN 0 ELSE 1]
  BY <1>1
<1>4. n \in ReqState /\ n.pc # "publish" /\ RequestOK(n, todos')
  BY <1>1, Facts, FinishedType, FinishedOK DEF Answers
<1> HIDE DEF n
<1> QED BY <1>1, <1>2, <1>3, <1>4, PublishedStep

LEMMA LostRow ==
    ASSUME NEW row \in TodoRow
    PROVE  LET new == [row EXCEPT !.lost = TRUE] IN
           /\ new \in TodoRow
           /\ new.lost
           /\ new.state = row.state
           /\ new.createdAt = row.createdAt
           /\ new.updatedAt = row.updatedAt
BY DEF TodoRow

\* Enqueue fails, or the server dies before it.
LEMMA PublishLostStep ==
    ASSUME TodosInv, NEW q \in Requests, At(q, "publish"),
           NEW r \in ReqState, r.pc # "publish", Set(q, r),
           todos' = [todos EXCEPT ![req[q].id].lost = TRUE], UNCHANGED audits,
           RequestOK(r, todos')
    PROVE  TodosInv'
<1> DEFINE t == req[q].id
           row == [todos[t] EXCEPT !.lost = TRUE]
<1>1. /\ t \in Ids /\ Publishes(q, t) /\ audits[t] = 0 /\ todos[t] \in TodoRow
  BY AtPublish, Facts
<1>2. todos' = [todos EXCEPT ![t] = row]
  OBVIOUS
<1>3. /\ row \in TodoRow /\ row.lost
      /\ row.state = todos[t].state
      /\ row.createdAt = todos[t].createdAt
      /\ row.updatedAt = todos[t].updatedAt
  BY <1>1, LostRow
<1>4. audits' = [audits EXCEPT ![t] = IF row.lost THEN 0 ELSE 1]
  BY <1>1, <1>3 DEF TodosInv, Typed
<1> HIDE DEF row
<1> QED BY <1>1, <1>2, <1>3, <1>4, PublishedStep

LEMMA PublishFailsStep ==
    ASSUME TodosInv, NEW q \in Requests, PublishFails(q)
    PROVE  TodosInv'
<1> DEFINE t == req[q].id
           n == Finished(req[q], "ok")
<1>1. /\ At(q, "publish") /\ Set(q, n) /\ UNCHANGED audits
      /\ todos' = [todos EXCEPT ![t].lost = TRUE]
  BY DEF PublishFails, Finish
<1>2. /\ t \in Ids /\ req[q].kind = "create"
      /\ todos[t].state # "unused" /\ todos[t] \in TodoRow
  BY <1>1, AtPublish, Facts
<1>3. todos'[t].state # "unused"
  BY <1>1, <1>2, Facts DEF TodoRow
<1>4. n \in ReqState /\ n.pc # "publish" /\ RequestOK(n, todos')
  BY <1>2, <1>3, Facts, FinishedType, FinishedOK DEF Answers
<1> HIDE DEF n
<1> QED BY <1>1, <1>4, PublishLostStep

LEMMA AbandonStep ==
    ASSUME TodosInv, NEW q \in Requests, Abandon(q)
    PROVE  TodosInv'
<1>1. Set(q, NoRequest) /\ UNCHANGED audits
  BY DEF Abandon
<1>2. CASE At(q, "publish")
  <2>1. todos' = [todos EXCEPT ![req[q].id].lost = TRUE]
    BY <1>2 DEF Abandon
  <2> QED BY <1>1, <1>2, <2>1, NoRequestOK, PublishLostStep
<1>3. CASE ~At(q, "publish")
  BY <1>1, <1>3, NoRequestOK, OnlyRequest DEF Abandon, At
<1> QED BY <1>2, <1>3

LEMMA AnswerLostStep ==
    ASSUME TodosInv, NEW q \in Requests, AnswerLost(q)
    PROVE  TodosInv'
<1>1. Finish(q, "error") /\ UNCHANGED audits
  BY DEF AnswerLost
<1>2. ASSUME NEW t \in Ids, At(q, "insert"), todos[t].state = "unused",
             todos' = [todos EXCEPT ![t] = [NewTodo(req[q].at) EXCEPT !.lost = TRUE]]
      PROVE  TodosInv'
  <2> DEFINE row == [NewTodo(req[q].at) EXCEPT !.lost = TRUE]
  <2>1. req[q].at \in Instants /\ req[q].pc = "insert"
    BY <1>2, Facts DEF ReqState, At
  <2>2. /\ row \in TodoRow /\ row.lost /\ row.state = "live"
        /\ row.createdAt = row.updatedAt
    BY <2>1, NewTodoRow, LostRow
  <2>3. todos' = [todos EXCEPT ![t] = row]
    BY <1>2, Zenon
  <2> HIDE DEF row
  <2> QED BY <1>1, <1>2, <2>1, <2>2, <2>3, InsertLostStep
<1>3. CASE \/ /\ req[q].pc = "update" /\ req[q].id \in LiveIds
              /\ todos' = [todos EXCEPT ![req[q].id].updatedAt = req[q].at]
           \/ /\ req[q].pc = "delete"
              /\ todos' = [todos EXCEPT ![req[q].id] = DeletedTodo(@)]
  BY <1>1, <1>3, WriteStep
<1> QED BY <1>2, <1>3, Zenon DEF AnswerLost, At

LEMMA UpdateStep ==
    ASSUME TodosInv, NEW q \in Requests, UpdateTodo(q)
    PROVE  TodosInv'
<1>1. /\ req[q].pc = "update" /\ req[q].kind = "update"
      /\ req[q].id \in Ids /\ todos[req[q].id].state # "unused"
      /\ todos[req[q].id] \in TodoRow
  BY Facts DEF UpdateTodo, At, RequestOK
<1>2. CASE req[q].id \in LiveIds
  BY <1>1, <1>2, WriteStep DEF UpdateTodo
<1>3. CASE req[q].id \notin LiveIds
  <2>1. todos[req[q].id].state = "gone"
    BY <1>1, <1>3 DEF LiveIds, TodoRow, States
  <2>2. Finish(q, "notfound") /\ UNCHANGED <<todos, audits>>
    BY <1>3 DEF UpdateTodo
  <2> QED BY <1>1, <2>1, <2>2, FinishStep DEF Answers
<1> QED BY <1>2, <1>3

-----------------------------------------------------------------------------
(* Time.                                                                   *)

LEMMA OlderInstant ==
    ASSUME NEW i \in Instants, NEW j \in Instants
    PROVE  /\ Older(i, 1) \in Instants
           /\ Older(i, 1) <= i
           /\ i <= j => Older(i, 1) <= Older(j, 1)
BY DEF Older, Instants

LEMMA TickStep ==
    ASSUME TodosInv, Tick
    PROVE  TodosInv'
<1>0. /\ todos \in [Ids -> TodoRow]
      /\ req \in [Requests -> ReqState]
      /\ \A q \in Requests : RequestOK(req[q], todos)
      /\ audits' = audits
  BY DEF TodosInv, Typed, Tick
<1>1. ASSUME NEW t \in Ids
      PROVE  /\ todos'[t] \in TodoRow
             /\ todos'[t].state = todos[t].state
             /\ todos'[t].lost = todos[t].lost
             /\ todos'[t].createdAt = Older(todos[t].createdAt, 1)
             /\ todos'[t].updatedAt = Older(todos[t].updatedAt, 1)
  <2> DEFINE c == Older(todos[t].createdAt, 1)
             u == Older(todos[t].updatedAt, 1)
  <2>1. todos'[t] = [todos[t] EXCEPT !.createdAt = c, !.updatedAt = u]
    BY Zenon DEF Tick
  <2>2. todos[t] \in TodoRow
    BY <1>0
  <2>3. todos[t].createdAt \in Instants /\ todos[t].updatedAt \in Instants
    BY <2>2 DEF TodoRow
  <2>4. c \in Instants /\ u \in Instants
    BY <2>3, OlderInstant
  <2> HIDE DEF c, u
  <2>5. /\ todos'[t] \in TodoRow
        /\ todos'[t].state = todos[t].state
        /\ todos'[t].lost = todos[t].lost
        /\ todos'[t].createdAt = c
        /\ todos'[t].updatedAt = u
    BY <2>1, <2>2, <2>4 DEF TodoRow
  <2> QED BY <2>5 DEF c, u
<1>2. todos' \in [Ids -> TodoRow]
  <2>1. todos' = [t \in Ids |-> todos'[t]]
    BY Zenon DEF Tick
  <2> QED BY <1>1, <2>1
<1>3. ASSUME NEW q \in Requests
      PROVE  /\ req'[q] \in ReqState
             /\ req'[q].pc = req[q].pc
             /\ req'[q].kind = req[q].kind
             /\ req'[q].id = req[q].id
             /\ req'[q].answer = req[q].answer
             /\ req'[q].shown = req[q].shown
             /\ req'[q].pc = "update" => req'[q].at = Older(req[q].at, 1)
  <2> DEFINE a == IF req[q].pc \in {"insert", "update"} THEN Older(req[q].at, 1)
                  ELSE req[q].at
  <2>1. req'[q] = [req[q] EXCEPT !.at = a]
    BY Zenon DEF Tick
  <2>2. req[q] \in ReqState /\ req[q].at \in Instants
    BY <1>0 DEF ReqState
  <2>3. a \in Instants /\ (req[q].pc = "update" => a = Older(req[q].at, 1))
    BY <2>2, OlderInstant
  <2> HIDE DEF a
  <2> QED BY <2>1, <2>2, <2>3 DEF ReqState
<1>4. req' \in [Requests -> ReqState]
  <2>1. req' = [q \in Requests |-> req'[q]]
    BY Zenon DEF Tick
  <2> QED BY <1>3, <2>1
<1>5. ASSUME NEW q \in Requests
      PROVE  RequestOK(req'[q], todos')
  <2>1. RequestOK(req[q], todos) /\ req[q] \in ReqState
    BY <1>0
  <2>2. ASSUME req[q].pc = "update", todos[req[q].id].state = "live"
        PROVE  Older(todos[req[q].id].createdAt, 1) <= Older(req[q].at, 1)
    <3>1. req[q].id \in Ids /\ todos[req[q].id].createdAt <= req[q].at
      BY <2>1, <2>2 DEF RequestOK
    <3>2. todos[req[q].id].createdAt \in Instants /\ req[q].at \in Instants
      BY <1>0, <2>1, <3>1 DEF TodoRow, ReqState
    <3> QED BY <3>1, <3>2, OlderInstant
  <2>3. \A t \in Ids : /\ todos'[t].state = todos[t].state
                       /\ todos'[t].createdAt = Older(todos[t].createdAt, 1)
    BY <1>1
  <2> QED BY <1>3, <2>1, <2>2, <2>3 DEF RequestOK
<1>6. UpdatedNotBeforeCreated'
  <2> SUFFICES ASSUME NEW t \in Ids, todos'[t].state = "live"
               PROVE  todos'[t].createdAt <= todos'[t].updatedAt
    BY DEF UpdatedNotBeforeCreated, LiveIds
  <2>1. todos[t].createdAt <= todos[t].updatedAt
    BY <1>1 DEF TodosInv, UpdatedNotBeforeCreated, LiveIds
  <2>2. todos[t].createdAt \in Instants /\ todos[t].updatedAt \in Instants
    BY <1>0 DEF TodoRow
  <2> QED BY <1>1, <2>1, <2>2, OlderInstant
<1>7. \A p \in Requests, t \in Ids : Publishes(p, t)' <=> Publishes(p, t)
  BY <1>3 DEF Publishes
<1>8. AuditInv'
  BY <1>0, <1>1, <1>7, AuditKept
<1>9. Typed'
  BY <1>0, <1>2, <1>4 DEF TodosInv, Typed
<1> QED BY <1>5, <1>6, <1>8, <1>9 DEF TodosInv

-----------------------------------------------------------------------------
(* The invariant.                                                          *)

LEMMA TodosInvInit == TodosInit => TodosInv
<1> SUFFICES ASSUME TodosInit PROVE TodosInv
  OBVIOUS
<1>1. /\ Unused \in TodoRow
      /\ Unused.state = "unused"
      /\ ~Unused.lost
  BY DEF Unused, TodoRow, States, Instants
<1>2. /\ \A t \in Ids : todos[t] = Unused /\ audits[t] = 0
      /\ \A q \in Requests : req[q] = NoRequest
  BY DEF TodosInit
<1>3. Typed
  BY <1>1, NoRequestOK DEF TodosInit, Typed
<1>4. UpdatedNotBeforeCreated
  BY <1>1, <1>2 DEF UpdatedNotBeforeCreated, LiveIds
<1>5. \A q \in Requests : RequestOK(req[q], todos)
  BY <1>2, NoRequestOK
<1>6. \A t \in Ids, q \in Requests : ~Publishes(q, t)
  BY <1>2, NoRequestOK DEF Publishes
<1>7. AuditInv
  BY <1>1, <1>2, <1>6 DEF AuditInv, AuditedOnce, Pending
<1> QED BY <1>3, <1>4, <1>5, <1>7 DEF TodosInv

LEMMA TodosInvStep == TodosInv /\ [TodosNext]_todosVars => TodosInv'
<1> SUFFICES ASSUME TodosInv, [TodosNext]_todosVars PROVE TodosInv'
  OBVIOUS
<1>1. ASSUME NEW q \in Requests, Serve(q) PROVE TodosInv'
  <2>1. CASE DeleteTodo(q)
    BY <2>1, WriteStep DEF DeleteTodo, At
  <2>2. CASE StatementFails(q)
    BY <2>2, FinishStep DEF StatementFails, Answers
  <2>3. CASE Respond(q)
    BY <2>3, NoRequestOK, OnlyRequest DEF Respond
  <2> QED
    BY <1>1, <2>1, <2>2, <2>3, InsertStep, PublishStep, PublishFailsStep,
       UpdateStep, FindStep, ListStep, AnswerLostStep, AbandonStep
       DEF Serve
<1>2. CASE UNCHANGED todosVars
  BY <1>2 DEF todosVars, TodosInv, Typed, UpdatedNotBeforeCreated, LiveIds,
              AuditInv, AuditedOnce, Pending, Publishes, At
<1> QED BY <1>1, <1>2, BeginStep, RefuseStep, TickStep DEF TodosNext

LEMMA TodosInvariant == TodosSpec => []TodosInv
BY TodosInvInit, TodosInvStep, PTL DEF TodosSpec

\* Rows, audit counts and requests keep their types: in particular the bus
\* gives no todo more than one audit job.
THEOREM TodosTyped == TodosSpec => []TodosTypeOK
<1>1. TodosInv => TodosTypeOK
  BY DEF TodosInv, Typed, TodosTypeOK, ReqState
<1> QED BY TodosInvariant, <1>1, PTL

\* CreateTodo and UpdateTodo read the clock before their statement, yet no row
\* is left with updated_at before created_at.
THEOREM UpdatesFollowCreation == TodosSpec => []UpdatedNotBeforeCreated
<1>1. TodosInv => UpdatedNotBeforeCreated
  BY DEF TodosInv
<1> QED BY TodosInvariant, <1>1, PTL

\* Bus.Publish and its subscriber enqueue the audit of a created todo once,
\* unless a fault prevented it.
THEOREM CreationsAuditedOnce == TodosSpec => []AuditedOnce
<1>1. TodosInv => AuditedOnce
  BY DEF TodosInv, AuditInv
<1> QED BY TodosInvariant, <1>1, PTL

\* A todo that UpdateTodo, FindTodoById or DeleteTodo reported as not found or
\* as deleted is gone.
THEOREM AnswersStayTrue == TodosSpec => []AnswersTrue
<1>1. TodosInv => AnswersTrue
  BY DEF TodosInv, RequestOK, AnswersTrue
<1> QED BY TodosInvariant, <1>1, PTL

\* The page of the web handlers shows the todo its request has created and not
\* the one it has deleted.
THEOREM PagesShowOwnWrites == TodosSpec => []PageShowsOwnWrite
<1>1. TodosInv => PageShowsOwnWrite
  BY DEF TodosInv, RequestOK, PageShowsOwnWrite, At
<1> QED BY TodosInvariant, <1>1, PTL

\* A deleted todo never comes back: UpdateTodo is an UPDATE and no INSERT, and
\* uuid.New draws no id again.
THEOREM DeletionsLast == TodosSpec => DeletedForGood
<1> DEFINE Stays == \A t \in Ids : todos[t].state = "gone" => todos'[t].state = "gone"
<1>1. ASSUME TodosInv, [TodosNext]_todosVars, NEW t \in Ids, todos[t].state = "gone"
      PROVE  todos'[t].state = "gone"
  <2>0. todos \in [Ids -> TodoRow]
    BY <1>1 DEF TodosInv, Typed
  <2>1. ASSUME NEW q \in Requests, Serve(q) PROVE todos'[t].state = "gone"
    <3>1. ASSUME NEW u \in Ids, InsertTodo(q, u) PROVE todos'[t].state = "gone"
      BY <1>1, <2>0, <3>1 DEF InsertTodo
    <3>2. CASE UpdateTodo(q) \/ PublishFails(q) \/ Abandon(q)
      BY <1>1, <2>0, <3>2 DEF UpdateTodo, PublishFails, Abandon, TodoRow
    <3>3. \A row : DeletedTodo(row).state = "gone"
      BY DEF DeletedTodo, Unused
    <3>4. CASE DeleteTodo(q)
      BY <1>1, <2>0, <3>3, <3>4 DEF DeleteTodo
    <3>5. CASE AnswerLost(q)
      <4>1. ASSUME NEW u \in Ids, NEW row, todos[u].state = "unused",
                   todos' = [todos EXCEPT ![u] = row]
            PROVE  todos'[t].state = "gone"
        BY <1>1, <2>0, <4>1
      <4>2. CASE todos' = [todos EXCEPT ![req[q].id].updatedAt = req[q].at]
        BY <1>1, <2>0, <4>2 DEF TodoRow
      <4>3. CASE todos' = [todos EXCEPT ![req[q].id] = DeletedTodo(@)]
        BY <1>1, <2>0, <3>3, <4>3
      <4> QED BY <3>5, <4>1, <4>2, <4>3, Zenon DEF AnswerLost
    <3>6. CASE todos' = todos
      BY <1>1, <3>6
    <3> QED
      BY <2>1, <3>1, <3>2, <3>4, <3>5, <3>6
         DEF Serve, Publish, FindTodoById, ListAllTodos, ListFails,
             StatementFails, Respond
  <2>2. CASE Tick
    BY <1>1, <2>0, <2>2 DEF Tick, TodoRow
  <2> QED
    BY <1>1, <2>1, <2>2 DEF TodosNext, Begin, Refuse, todosVars
<1>2. TodosInv /\ [TodosNext]_todosVars => [Stays]_todosVars
  BY <1>1
<1>3. TodosSpec => [][Stays]_todosVars
  BY TodosInvariant, <1>2, PTL DEF TodosSpec
<1> QED BY <1>3 DEF DeletedForGood
=============================================================================

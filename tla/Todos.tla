------------------------------- MODULE Todos --------------------------------
(***************************************************************************)
(* The todos domain: internal/todos (service, store, REST and web          *)
(* handlers) over todos.todos, and the event bus with its one subscriber,  *)
(* which enqueues an audit job for every created todo.                     *)
(*                                                                         *)
(* A handler makes one to three statements; the statements of the requests *)
(* in flight interleave.  Labels and the completed flag are left out: no   *)
(* decision of the code depends on them.  A client names only todos whose  *)
(* id it can have seen, that is, whose row has been inserted.              *)
(***************************************************************************)
EXTENDS RelativeTime

CONSTANTS
    Ids,            \* the UUIDs uuid.New will draw
    Requests,       \* bounds the requests in flight
    Nothing,        \* no id yet
    StoreFails      \* whether statements fail, answers get lost, servers die

ASSUME TodosAssumption == StoreFails \in BOOLEAN /\ Nothing \notin Ids

VARIABLES
    todos,      \* the rows of todos.todos, and what became of them
    audits,     \* how many audit jobs each todo has got
    req         \* the requests in flight

todosVars == <<todos, audits, req>>

-----------------------------------------------------------------------------
(* A row.  created_at and updated_at are compared with each other only:    *)
(* it is enough to tell the present from the past.  lost is history: the   *)
(* publication of the event, or its Enqueue, was prevented by a fault.     *)

Instants == -1..0
States == {"unused", "live", "gone"}
TodoRow == [state: States, createdAt: Instants, updatedAt: Instants,
            lost: BOOLEAN]
Unused == [state |-> "unused", createdAt |-> -1, updatedAt |-> -1,
           lost |-> FALSE]

\* Mutant: created_at by the database's clock, updated_at by the handler's.
NewTodoTwoClocks(at) == [state |-> "live", createdAt |-> 0,
                         updatedAt |-> at, lost |-> FALSE]

\* One clock reading is both created_at and updated_at.
NewTodo(at) == [state |-> "live", createdAt |-> at, updatedAt |-> at,
                lost |-> FALSE]

DeletedTodo(row) == [Unused EXCEPT !.state = "gone", !.lost = row.lost]

\* SELECT ... FROM todos.todos.
LiveIds == {t \in Ids : todos[t].state = "live"}

(* A request: pc is its next statement, from is who asks (a REST client, a *)
(* plain form, htmx), at the clock reading of the handler, answer what it  *)
(* is going to say, shown the todos on the page.                           *)

Kinds == {"create", "update", "delete", "get", "list"}
Origins == {"api", "form", "htmx"}
FirstStatement == [create |-> "insert", update |-> "update",
                   delete |-> "find", get |-> "get", list |-> "list"]

NoRequest == [pc |-> "none", kind |-> "list", from |-> "api", id |-> Nothing,
              at |-> 0, answer |-> "ok", shown |-> {}]

Set(q, r) == req' = [req EXCEPT ![q] = r]
At(q, step) == req[q].pc = step

\* Whether the handler goes on to list the todos for a page.
ListsAfter(r, answer) ==
    CASE r.kind = "create" -> IF answer = "ok" THEN r.from = "htmx"
                                               ELSE r.from # "api"
      [] r.kind = "delete" -> r.from # "api" /\ answer = "ok"
      [] OTHER -> FALSE

\* The service call is over with this answer.
Finished(r, answer) ==
    [r EXCEPT !.answer = answer, !.at = 0,
              !.pc = IF ListsAfter(r, answer) THEN "list" ELSE "answered"]
Finish(q, answer) == Set(q, Finished(req[q], answer))

TodosInit ==
    /\ todos = [t \in Ids |-> Unused]
    /\ audits = [t \in Ids |-> 0]
    /\ req = [q \in Requests |-> NoRequest]

-----------------------------------------------------------------------------
(* Requests arrive.                                                        *)

\* /app has no route for update and for a single todo; only create has no id.
Routed(kind, from, id) ==
    /\ from # "api" => kind \notin {"update", "get"}
    /\ IF kind \in {"create", "list"} THEN id = Nothing
       ELSE id \in Ids /\ todos[id].state # "unused"

Begin(q, kind, from, id) ==
    /\ At(q, "none")
    /\ Routed(kind, from, id)
    /\ Set(q, [NoRequest EXCEPT !.kind = kind, !.from = from, !.id = id,
                                !.pc = FirstStatement[kind]])
    /\ UNCHANGED <<todos, audits>>

\* authorize refuses, or the label or the id is not valid: no statement.
Refuse(q, kind, from, id, why) ==
    /\ At(q, "none")
    /\ Routed(kind, from, id)
    /\ kind = "list" => why = "denied"
    /\ Set(q, Finished([NoRequest EXCEPT !.kind = kind, !.from = from,
                                         !.id = id], why))
    /\ UNCHANGED <<todos, audits>>

-----------------------------------------------------------------------------
(* The statements.                                                         *)

\* Mutant: a handler that forgets to publish.
InsertUnpublished(q, t) ==
    /\ At(q, "insert")
    /\ todos[t].state = "unused"
    /\ todos' = [todos EXCEPT ![t] = NewTodo(req[q].at)]
    /\ Set(q, Finished([req[q] EXCEPT !.id = t], "ok"))
    /\ UNCHANGED audits

\* CreateTodo's INSERT; the event is published next.
InsertTodo(q, t) ==
    /\ At(q, "insert")
    /\ todos[t].state = "unused"
    /\ todos' = [todos EXCEPT ![t] = NewTodo(req[q].at)]
    /\ Set(q, [req[q] EXCEPT !.pc = "publish", !.id = t, !.at = 0])
    /\ UNCHANGED audits

\* Mutant: the bus calls a failing subscriber once more.
PublishRetried(q) ==
    /\ At(q, "publish")
    /\ \E n \in 1..2 : audits' = [audits EXCEPT ![req[q].id] = @ + n]
    /\ Finish(q, "ok")
    /\ UNCHANGED todos

\* Bus.Publish runs the subscriber, whose Enqueue works.  A lost answer is
\* an error that the bus logs: the same to everybody else.
Publish(q) ==
    /\ At(q, "publish")
    /\ audits' = [audits EXCEPT ![req[q].id] = @ + 1]
    /\ Finish(q, "ok")
    /\ UNCHANGED todos

\* Enqueue fails; the bus logs it, CreateTodo succeeds all the same.
PublishFails(q) ==
    /\ StoreFails
    /\ At(q, "publish")
    /\ todos' = [todos EXCEPT ![req[q].id].lost = TRUE]
    /\ Finish(q, "ok")
    /\ UNCHANGED audits

\* Mutant: INSERT ... ON CONFLICT (todo_id) DO UPDATE.
UpdateUpserts(q) ==
    /\ At(q, "update")
    /\ todos' = [todos EXCEPT ![req[q].id].state = "live",
                              ![req[q].id].updatedAt = req[q].at]
    /\ Finish(q, "ok")
    /\ UNCHANGED audits

\* UPDATE ... RETURNING: one row, or none and sql.ErrNoRows.
UpdateTodo(q) ==
    /\ At(q, "update")
    /\ IF req[q].id \in LiveIds
       THEN /\ todos' = [todos EXCEPT ![req[q].id].updatedAt = req[q].at]
            /\ Finish(q, "ok")
       ELSE UNCHANGED todos /\ Finish(q, "notfound")
    /\ UNCHANGED audits

\* FindTodoById, for itself and at the beginning of DeleteTodo.
FindTodoById(q) ==
    /\ req[q].pc \in {"get", "find"}
    /\ IF req[q].id \notin LiveIds THEN Finish(q, "notfound")
       ELSE IF At(q, "find") THEN Set(q, [req[q] EXCEPT !.pc = "delete"])
       ELSE Finish(q, "ok")
    /\ UNCHANGED <<todos, audits>>

\* Mutant: the page is listed before the row is deleted.
DeleteAfterListing(q) ==
    /\ At(q, "delete")
    /\ todos' = [todos EXCEPT ![req[q].id] = DeletedTodo(@)]
    /\ Set(q, [req[q] EXCEPT !.pc = "shown", !.shown = LiveIds])
    /\ UNCHANGED audits

\* DELETE, which does not look at how many rows it has found.
DeleteTodo(q) ==
    /\ At(q, "delete")
    /\ todos' = [todos EXCEPT ![req[q].id] = DeletedTodo(@)]
    /\ Finish(q, "ok")
    /\ UNCHANGED audits

\* ListAllTodos, for itself or for the page after a create or a delete.  The
\* anonymous get no list.
ListAllTodos(q) ==
    /\ At(q, "list")
    /\ req[q].answer # "denied"
    /\ Set(q, [req[q] EXCEPT !.pc = "shown", !.at = 0, !.shown = LiveIds])
    /\ UNCHANGED <<todos, audits>>

\* The list fails: that is the answer, unless the page is to report an error
\* already, which it then does above an empty list.
ListFails(q) ==
    /\ At(q, "list")
    /\ StoreFails \/ req[q].answer = "denied"
    /\ Set(q, [req[q] EXCEPT !.pc = "answered", !.at = 0,
                   !.answer = IF @ = "ok" THEN "error" ELSE @])
    /\ UNCHANGED <<todos, audits>>

\* Mutant: the error of the DELETE is ignored.
StatementFailsQuietly(q) ==
    /\ StoreFails
    /\ req[q].pc \in {"insert", "update", "find", "get", "delete"}
    /\ Finish(q, IF At(q, "delete") THEN "ok" ELSE "error")
    /\ UNCHANGED <<todos, audits>>

\* A statement fails without effect; so does every later one.
StatementFails(q) ==
    /\ StoreFails
    /\ req[q].pc \in {"insert", "update", "find", "get", "delete"}
    /\ Finish(q, "error")
    /\ UNCHANGED <<todos, audits>>

\* A writing statement takes effect and its answer is lost.
AnswerLost(q) ==
    LET id == req[q].id IN
    /\ StoreFails
    /\ \/ /\ At(q, "insert")
          /\ \E t \in Ids :
                /\ todos[t].state = "unused"
                /\ todos' = [todos EXCEPT
                       ![t] = [NewTodo(req[q].at) EXCEPT !.lost = TRUE]]
       \/ /\ At(q, "update") /\ id \in LiveIds
          /\ todos' = [todos EXCEPT ![id].updatedAt = req[q].at]
       \/ /\ At(q, "delete")
          /\ todos' = [todos EXCEPT ![id] = DeletedTodo(@)]
    /\ Finish(q, "error")
    /\ UNCHANGED audits

\* The response reaches the client.
Respond(q) ==
    /\ req[q].pc \in {"answered", "shown"}
    /\ Set(q, NoRequest)
    /\ UNCHANGED <<todos, audits>>

\* The server dies, or the client has gone and the context is cancelled:
\* whatever the handler had still to do is not done.
Abandon(q) ==
    /\ StoreFails
    /\ req[q].pc \notin {"none", "answered", "shown"}
    /\ todos' = IF At(q, "publish")
                THEN [todos EXCEPT ![req[q].id].lost = TRUE] ELSE todos
    /\ Set(q, NoRequest)
    /\ UNCHANGED audits

\* Time passes; the clock readings of rows and handlers get older.
Tick ==
    /\ todos' = [t \in Ids |->
           [todos[t] EXCEPT !.createdAt = Older(@, 1), !.updatedAt = Older(@, 1)]]
    /\ req' = [q \in Requests |->
           [req[q] EXCEPT !.at = IF req[q].pc \in {"insert", "update"}
                                 THEN Older(@, 1) ELSE @]]
    /\ UNCHANGED audits

-----------------------------------------------------------------------------
Serve(q) ==
    \/ \E t \in Ids : InsertTodo(q, t)
    \/ Publish(q) \/ PublishFails(q)
    \/ UpdateTodo(q) \/ FindTodoById(q) \/ DeleteTodo(q)
    \/ ListAllTodos(q) \/ ListFails(q)
    \/ StatementFails(q) \/ AnswerLost(q) \/ Respond(q) \/ Abandon(q)

TodosNext ==
    \/ \E q \in Requests, kind \in Kinds, from \in Origins,
          id \in Ids \cup {Nothing} :
           \/ Begin(q, kind, from, id)
           \/ \E why \in {"denied", "invalid"} : Refuse(q, kind, from, id, why)
    \/ \E q \in Requests : Serve(q)
    \/ Tick

TodosSpec == TodosInit /\ [][TodosNext]_todosVars

-----------------------------------------------------------------------------
(* Safety.                                                                 *)

\* Types of the rows, the counts and the requests.
TodosTypeOK ==
    /\ todos \in [Ids -> TodoRow]
    /\ audits \in [Ids -> 0..1]
    /\ \A q \in Requests : /\ req[q].id \in Ids \cup {Nothing}
                           /\ req[q].at \in Instants
                           /\ req[q].shown \subseteq Ids

\* CreateTodo reads the clock before its INSERT and UpdateTodo before its
\* UPDATE, both may be slow: still no row was updated before it was created.
UpdatedNotBeforeCreated ==
    \A t \in LiveIds : todos[t].createdAt <= todos[t].updatedAt

\* Every todo that was created has exactly one audit job, or is about to get
\* it, or a fault prevented it: the audit is never enqueued twice and never
\* forgotten while everything works.
AuditedOnce ==
    \A t \in Ids : todos[t].state # "unused" =>
        LET pending == \E q \in Requests : At(q, "publish") /\ req[q].id = t
        IN  audits[t] = IF todos[t].lost \/ pending THEN 0 ELSE 1

\* What an answer says stays true: a todo reported as deleted or as not found
\* is gone, however creates, updates and deletes of others interleave.
AnswersTrue ==
    \A q \in Requests :
        LET r == req[q] IN
        r.pc \in {"answered", "shown"}
            /\ (r.answer = "notfound" \/ (r.answer = "ok" /\ r.kind = "delete"))
            => todos[r.id].state = "gone"

\* The page a client gets shows its own write: the created todo (unless
\* somebody has deleted it meanwhile), and not the deleted one.
PageShowsOwnWrite ==
    \A q \in Requests :
        LET r == req[q] IN
        At(q, "shown") /\ r.answer = "ok" =>
            /\ r.kind = "create" => r.id \in r.shown \/ todos[r.id].state = "gone"
            /\ r.kind = "delete" => r.id \notin r.shown

\* A deleted todo never comes back: an update that meets the deletion does
\* not insert.
DeletedForGood ==
    [][\A t \in Ids : todos[t].state = "gone" => todos'[t].state = "gone"]_todosVars
=============================================================================

------------------------------- MODULE Flash -------------------------------
(***************************************************************************)
(* One-shot messages: internal/platform/httpx/flash.go and the page        *)
(* handlers that use it.  The messages of one browser are kept nowhere but *)
(* in its cookie flash_messages.  A request carries the cookie as it was   *)
(* when the request was sent; a response may replace or clear it when it   *)
(* arrives.  Several tabs share the cookie, and their answers overtake     *)
(* each other.                                                             *)
(*                                                                         *)
(* Each message is an identity (a note); what it says and the order of the *)
(* messages in the cookie do not matter.  What the handlers do to todos,   *)
(* reports, sessions and the CSRF cookie is the business of other modules. *)
(***************************************************************************)
EXTENDS Naturals

CONSTANTS
    Tabs,       \* tabs of the browser, one request in flight each
    Notes       \* identities of messages: bounds those alive at once

VARIABLES
    jar,        \* the messages in the browser's cookie
    net,        \* the request or response under way for each tab
    note        \* history: what became of each message

flashVars == <<jar, net, note>>

-----------------------------------------------------------------------------
(* Requests.  A page is a list, a report or the login form; a poll is the  *)
(* status fragment of a report.  Posts are sent by htmx or, where the page *)
(* has a plain form or the client is not a browser, without it.            *)

Posts == {"create", "start", "delete"}

Request == [kind: {"request"}, op: {"page", "poll", "signin"} \cup Posts,
            htmx: BOOLEAN, carried: SUBSET Notes]

\* sets, cookie: whether there is a Set-Cookie and what it makes of the jar.
\* shown: the messages in the body.  taken: messages ConsumeFlash returned to
\* a handler that renders a fragment, or a page that could not be rendered.
Response == [kind: {"response"}, carried: SUBSET Notes,
             sets: BOOLEAN, cookie: SUBSET Notes,
             shown: SUBSET Notes, taken: SUBSET Notes]

Quiet == [kind |-> "quiet"]

\* What is known of a message: seen, the pages that showed it, counted up to
\* two; shared, two requests under way carried it at once; hurt, the network,
\* its age or an answer to a request sent before it was set took it away;
\* taken, it was handed to a fragment or to a page that broke.
NoteState == [issued: BOOLEAN, seen: 0..2, shared: BOOLEAN, hurt: BOOLEAN,
              taken: BOOLEAN]
NewNote == [issued |-> TRUE, seen |-> 0, shared |-> FALSE, hurt |-> FALSE,
            taken |-> FALSE]
OldNote == [NewNote EXCEPT !.issued = FALSE]

Carried(t) == IF net[t].kind = "quiet" THEN {} ELSE net[t].carried
InAnswer(t) ==
    IF net[t].kind # "response" THEN {}
    ELSE net[t].shown \cup net[t].taken \cup net[t].cookie
Alive == jar \cup UNION {Carried(t) \cup InAnswer(t) : t \in Tabs}

-----------------------------------------------------------------------------
(* Handlers, as responses to a request q.  flash is the context's list:    *)
(* PeekFlash starts it with what the request carried.                      *)

Answer(q) == [kind |-> "response", carried |-> q.carried, sets |-> FALSE,
              cookie |-> {}, shown |-> {}, taken |-> {}]

\* Mutants: SetFlash forgets what PeekFlash returns; it stores that list as
\* if it were one message.
SetFlashOverwrites(flash, n) == {n}
SetFlashNests(flash, n) == {flash, n}

\* SetFlash: append to the context's list; the cookie becomes that list.
SetFlash(flash, n) == flash \cup {n}

\* Mutant: ConsumeFlash forgets clearFlash.
ConsumeFlashKeepsCookie(q, flash) ==
    {[Answer(q) EXCEPT !.taken = flash]} \cup
    (IF q.htmx THEN {} ELSE {[Answer(q) EXCEPT !.shown = flash]})

\* The answers after ConsumeFlash: the layout of a full page shows the messages,
\* a fragment has no place for them, nor has the error that takes the place of
\* a template that fails.  clearFlash comes last, so it also undoes the
\* Set-Cookie of a SetFlash of the same request.
ConsumeFlash(q, flash) ==
    {[Answer(q) EXCEPT !.sets = TRUE, !.taken = flash]} \cup
    (IF q.htmx THEN {} ELSE {[Answer(q) EXCEPT !.sets = TRUE, !.shown = flash]})

\* An answer after a SetFlash that nothing has undone: an error, or a redirect
\* to the page that the tab asks for next.
WithFlash(q, flash) == [Answer(q) EXCEPT !.sets = TRUE, !.cookie = flash]

\* The answers that set no message: an error page or a refusal (CSRF,
\* authorization, database), the status fragment and a failed login leave the
\* cookie alone; pages and lists consume it, and so does todos web Create,
\* which answers with the list or, if the form is invalid, with the page or
\* its body.
PlainAnswers(q) ==
    {Answer(q)} \cup
    (IF q.op \in {"page", "create"} THEN ConsumeFlash(q, q.carried) ELSE {})

\* The answers of handlers that set n.  delete and, under htmx, start go on to
\* List, which consumes, or fails with the header of SetFlash written.
FlashAnswers(q, n) ==
    LET flash == SetFlash(q.carried, n) IN
    CASE q.op = "signin" \/ (q.op \in {"create", "start"} /\ ~q.htmx) ->
             {WithFlash(q, flash)}
      [] q.op = "delete" \/ (q.op = "start" /\ q.htmx) ->
             ConsumeFlash(q, flash) \cup {WithFlash(q, flash)}
      [] OTHER -> {}

-----------------------------------------------------------------------------
FlashInit ==
    /\ jar = {}
    /\ net = [t \in Tabs |-> Quiet]
    /\ note = [n \in Notes |-> OldNote]

\* Messages two requests carry at once, once tab t sends what is in j.
Share(t, j) ==
    [n \in Notes |-> [note[n] EXCEPT !.shared = @ \/
         (n \in j /\ \E u \in Tabs \ {t} : n \in Carried(u))]]

\* A tab asks for something.  htmx sends polls; pages and the login form are
\* not its business.
Send(t, op, htmx) ==
    /\ net[t].kind = "quiet"
    /\ op \in {"page", "signin"} => ~htmx
    /\ op = "poll" => htmx
    /\ net' = [net EXCEPT ![t] =
           [kind |-> "request", op |-> op, htmx |-> htmx, carried |-> jar]]
    /\ note' = Share(t, jar)
    /\ UNCHANGED jar

\* The server handles the request and sets no message ...
Serve(t) ==
    /\ net[t].kind = "request"
    /\ \E a \in PlainAnswers(net[t]) : net' = [net EXCEPT ![t] = a]
    /\ UNCHANGED <<jar, note>>

\* ... or sets one, which is new.
ServeFlash(t, n) ==
    /\ net[t].kind = "request"
    /\ n \notin Alive
    /\ \E a \in FlashAnswers(net[t], n) : net' = [net EXCEPT ![t] = a]
    /\ note' = [note EXCEPT ![n] = NewNote]
    /\ UNCHANGED jar

\* What the arrival of answer a tells about the messages.
Delivered(a) ==
    [n \in Notes |-> [note[n] EXCEPT
         !.seen = IF n \in a.shown /\ @ < 2 THEN @ + 1 ELSE @,
         !.taken = @ \/ n \in a.taken,
         !.hurt = @ \/ (a.sets /\ n \in jar \ (a.carried \cup a.cookie))]]

\* The answer arrives: its cookie replaces the jar.
Deliver(t) ==
    LET a == net[t] IN
    /\ a.kind = "response"
    /\ jar' = IF a.sets THEN a.cookie ELSE jar
    /\ note' = Delivered(a)
    /\ net' = [net EXCEPT ![t] = Quiet]

\* The request or its answer is lost, or the user closed the tab.
Lose(t) ==
    /\ net[t].kind # "quiet"
    /\ note' = [n \in Notes |->
           [note[n] EXCEPT !.hurt = @ \/ n \in InAnswer(t) \ jar]]
    /\ net' = [net EXCEPT ![t] = Quiet]
    /\ UNCHANGED jar

\* MaxAge: 300; or the user deletes the cookies.
Expire ==
    /\ jar # {}
    /\ jar' = {}
    /\ note' = [n \in Notes |-> [note[n] EXCEPT !.hurt = @ \/ n \in jar]]
    /\ UNCHANGED net

FlashNext ==
    \/ \E t \in Tabs :
           \/ \E op \in {"page", "poll", "signin"} \cup Posts, htmx \in BOOLEAN :
                  Send(t, op, htmx)
           \/ Serve(t)
           \/ \E n \in Notes : ServeFlash(t, n)
           \/ Deliver(t)
           \/ Lose(t)
    \/ Expire

FlashSpec == FlashInit /\ [][FlashNext]_flashVars

-----------------------------------------------------------------------------
(* Safety.                                                                 *)

\* Types of the cookie, the messages under way and the history.
FlashTypeOK ==
    /\ jar \subseteq Notes
    /\ net \in [Tabs -> Request \cup Response \cup {Quiet}]
    /\ note \in [Notes -> NoteState]

\* One-shot: the cookie, cleared only when an answer arrives, shows a message
\* a second time only where two requests under way at once both carried it.
ShownTwiceOnlyIfShared ==
    \A n \in Notes : note[n].seen = 2 => note[n].shared

\* The message is on its way, was shown, or was taken from the user by the
\* network, by its age or by an answer to a request sent before it was set.
Accounted(n) == n \in Alive \/ note[n].seen > 0 \/ note[n].hurt

\* No handler forgets a message: SetFlash keeps those that are waiting, and
\* apart from what was consumed for a fragment, or for a page that then could
\* not be rendered, every message is accounted for.
LostOnlyIfSwallowed ==
    \A n \in Notes : note[n].issued => Accounted(n) \/ note[n].taken
=============================================================================

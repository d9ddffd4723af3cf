------------------------------- MODULE MCWeb --------------------------------
(***************************************************************************)
(* The parts of the server that keep no table: what it remembers of a      *)
(* browser in cookies (CsrfForms, Flash), how it answers (Responses) and   *)
(* how it reads its environment (Settings).  They have no variable in      *)
(* common, and every invariant is about the variables of one of them, so   *)
(* that a state of one part is safe whatever the others do: a behaviour    *)
(* moves one part, and the others stay where they began.                   *)
(***************************************************************************)
EXTENDS CsrfForms, Settings, TLC

CONSTANT Notes

VARIABLES
    part,                               \* the part that moves
    flashJar, flashNet, note,           \* Flash
    pc, req, res, err, record, trouble  \* Responses

F == INSTANCE Flash WITH jar <- flashJar, net <- flashNet
R == INSTANCE Responses

flashVars == <<flashJar, flashNet, note>>
responseVars == <<pc, req, res, err, record, trouble>>
webVars == <<part, csrfVars, flashVars, responseVars, settingsVars>>

\* Initial states of the parts with many, for when they do not move.
ResponsesRest ==
    R!ResponsesInit /\ req = [route |-> "ops", htmx |-> FALSE, accept |-> "none"]
SettingsRest ==
    /\ env = [v \in {"AUTH_DISABLED", "METRICS_PUBLIC", "JOBS_MAX_ATTEMPTS",
                     "JOBS_POLL_INTERVAL", "REPORTS_PROCESSING_LEASE",
                     "REPORTS_RECONCILE_AFTER", "REPORTS_RECONCILE_INTERVAL"}
                  |-> Unset]
             @@ [APP_ENV |-> "development", METRICS_BASIC_AUTH_USER |-> FALSE]
    /\ main = [state |-> "loading"]

WebInit ==
    /\ CsrfInit
    /\ F!FlashInit
    /\ \/ part \in {"csrf", "flash"} /\ ResponsesRest /\ SettingsRest
       \/ part = "responses" /\ R!ResponsesInit /\ SettingsRest
       \/ part = "settings" /\ ResponsesRest /\ SettingsInit

Csrf ==
    /\ part = "csrf"
    /\ CsrfNext
    /\ UNCHANGED <<part, flashVars, responseVars, settingsVars>>

Flash ==
    /\ part = "flash"
    /\ F!FlashNext
    /\ UNCHANGED <<part, csrfVars, responseVars, settingsVars>>

Responses ==
    /\ part = "responses"
    /\ R!ResponsesNext
    /\ UNCHANGED <<part, csrfVars, flashVars, settingsVars>>

Settings ==
    /\ part = "settings"
    /\ SettingsNext
    /\ UNCHANGED <<part, csrfVars, flashVars, responseVars>>

WebNext == Csrf \/ Flash \/ Responses \/ Settings

WebSpec == WebInit /\ [][WebNext]_webVars

AroundZero == -1..1
TabsAndNotes == Permutations(Tabs) \cup Permutations(Notes)

-----------------------------------------------------------------------------
(* The type invariants together, and the invariants of the parts that are  *)
(* not extended under the names they have there.                           *)

\* Types of the two cookies, the messages and answers under way, and the
\* records of what happened.
WebTypeOK == CsrfTypeOK /\ F!FlashTypeOK /\ R!ResponsesTypeOK

\* ConsumeFlash: a message is shown a second time only where two requests
\* under way at once both carried it.
ShownTwiceOnlyIfShared == F!ShownTwiceOnlyIfShared

\* SetFlash, ConsumeFlash and the handlers forget no message, apart from what
\* they consume for fragments and for pages that cannot be rendered.
LostOnlyIfSwallowed == F!LostOnlyIfSwallowed

\* Whatever ended a request badly - an error, its own renderer, a panic, the
\* rate limiter - it is answered as a failure, except with half a page, or with
\* nothing where ErrorHandler could not render its page either.
FailureNotSuccess == R!FailureNotSuccess

\* ErrorHandler, handlers and renderers never write one answer behind another.
OneBody == R!OneBody
=============================================================================

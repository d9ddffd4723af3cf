# A verification of the server: queue, reports, todos, sessions, pages, lifecycle

This directory holds TLA+ specifications of the server in the repository (a Go
application: Echo, sqlc, goose, Postgres), TLC models that check them on small
instances, and TLAPS proofs of their safety properties. The specifications
follow the Go and SQL source line by line where state changes; texts,
formatting and logging are left out.

## 1. The system

| Part | State it keeps | Operations | Talks to |
|---|---|---|---|
| Job queue `internal/platform/jobs` | table `platform.jobs`: type, payload, `run_at`, `attempts`, `max_attempts`, `locked_until`, `completed_at` | `Enqueue`, `Run`/`processOne`, `Register` | Postgres; the handlers of `app.go` |
| Reports `internal/reports` | table `reports.reports`: status, lease (`processing_started_at`), `updated_at`, result, failure code | `CreateReport`, `Generate` (job handler), `handleRetryable`, `ReconcilePending`; reads `GetReport`, `ListReports` | the queue (Enqueuer), todos (TodoSummaryReader) |
| Composition root `internal/app` | cancel function, the wiring | `New`, `Start`, `StartWorkerOnly`, `startReportsReconcile`, `Shutdown` | everything |
| Todos `internal/todos` | table `todos.todos` | create, update, delete, find, list, `Summary` | event bus |
| Event bus `internal/platform/events` | subscribers by event name | `Subscribe`, `Publish` (synchronous, errors logged) | audit job |
| Authentication `internal/auth`, `platform/authn`, `platform/authz` | users, sessions, API tokens, CSRF cookie | `Register`, `Login`, `Logout`, `PrincipalFromSession`, `PrincipalFromBearer`, two middlewares | every request |
| HTTP adapters `*/api`, `*/web` | none; the browser keeps the flash and CSRF cookies and the pages | request translation, pages, the polled status fragment | the services, `httpx` |
| HTTP platform `platform/httpx` | parsed templates | middleware chain, rendering, `ErrorHandler`, `SetFlash`/`ConsumeFlash` | every request |
| Configuration `platform/config` | the environment | `Load`, `Validate` | everyone |
| Logging, metrics | output, counters | two HTTP middlewares, `JobProcessed` | every request |
| Database access, migrations | pool | `Open`, `Ready` | the stores |

The hard part is the middle: several processes (`cmd/server` with
`JOBS_EMBED_IN_SERVER`, any number of `cmd/worker`) poll one table; each claim,
execution and recording is a separate database interaction; processes die and
answers get lost in between; two different clocks of patience are at work at
once (the queue's five-minute lock, the reports' lease) under a two-minute
handler timeout, and a reconciler adds duplicates on purpose. "Safe under
at-least-once job delivery" (`service.go:145`) is the claim to examine.

What makes each part correct:

* **queue** - no two workers hold the same attempt of a job; exclusive delivery
  while nobody outlives a lock; no job is completed without a reason; every job
  ends;
* **reports** - the columns agree with the status; final states are final; one
  executor at a time; the documented lifecycle; every report ends; a lost
  execution is reclaimed;
* **composition** - the two together: reports whose enqueue failed are repaired;
  duplicates do no harm;
* **authentication** - a request is served as somebody exactly when its
  credential is live, and never as an account whose password its client does not
  know;
* **todos and events** - answers and pages stay true while others write; what is
  deleted stays deleted; one audit job per created todo;
* **forms and messages** - a form is accepted unless the cookie was replaced
  behind its back; a message is shown, and once;
* **report pages** - a user is told of no other user's report; a page follows its
  report to the end and stops at the end only;
* **answers** - one answer per request, with the status of what happened, and the
  same status in the metrics;
* **start and stop** - a shutdown ends, is graceful up to its timeout, does
  nothing to the queue that the queue does not survive, and has work done twice
  only where its outcome was lost;
* **settings** - whatever the environment says about jobs and reports, attempts,
  lease, reconcile age and the periods of the tickers are usable.

## 2. Modules

| Module | Models | State |
|---|---|---|
| `RelativeTime` | instants as distances from NOW() | none |
| `JobQueue` | `jobs.go` and `platform.jobs` | `jobs` (rows), `worker` (each `processOne`) |
| `ReportStore` | the statements of `reports.sql` on one row | none (operators on a row) |
| `ReportLifecycle` | abstract: what the reports domain promises | `status`, `executors` |
| `ReportPipeline` | `reports/service.go` + store + queue + `app.go` wiring | `jobs`, `worker`, `reports`, `gen`, `creating`, `recon` |
| `Auth` | `auth/service.go`, `middleware.go`, the auth handlers and tables | `users`, `sessions`, `tokens`, `jar` (clients), `req` (requests in flight) |
| `Todos` | `todos/service.go`, its handlers and table, `events.Bus` | `todos` (rows), `audits` (jobs), `req` |
| `AppLifecycle` | `app.go` Start/Shutdown, `cmd/server`, `cmd/worker`, around `JobQueue` | `jobs`, `worker`, `app` (each process), `lost` (history) |
| `ReportPages` | report reads, the page and its polling, over `ReportLifecycle` | `status`, `executors`, `owner`, `session`, `page`, `net`, `disclosed` |
| `Flash` | `flash.go` and the handlers that use it, one browser | `jar`, `net`, `note` |
| `CsrfForms` | `CSRFMiddleware`, the tokens in the forms, one browser | `jar`, `page`, `net` |
| `Responses` | middleware chain, renderers, `ErrorHandler`, what logging and metrics record | `pc`, `req`, `res`, `err`, `record`, `trouble` |
| `Settings` | `config.go` and the second defaults of its users | `env`, `main` |
| `JobQueueProofs`, `ReportPipelineProofs`, `AppLifecycleProofs`, `AuthProofs`, `TodosProofs`, `ReportPagesProofs` | theorems about the modules they are named after | - |
| `WebProofs` | theorems about the four parts in `MCWeb` | - |
| `MCWeb` | `CsrfForms`, `Flash`, `Responses` and `Settings` in one TLC model | `part` and theirs |
| other `MC*` | symmetry sets and small constants for TLC | - |

`ReportPipeline` EXTENDS `JobQueue` and `ReportStore`: the actions of the queue
are conjoined with what the reports domain does in the same step. `AppLifecycle`
EXTENDS `JobQueue` the same way and is proved to implement it. `ReportPages`
EXTENDS `ReportLifecycle`, the abstract specification `ReportPipeline` is
proved to implement: the pages see whatever any such pipeline may do.

`MCWeb` puts the four parts that keep no table side by side. They have no
variable in common and each invariant speaks of one of them, so a state of one
part is safe whatever the others do; the model chooses the part that moves
(`part`) and leaves the others where they began, which visits the same states
of each part as the product of the four would.

### Time

Stored instants are kept relative to the present, so that `locked_until < NOW()`
is `lockedUntil < 0` and the clock action (`Tick`, `TimePasses`) makes every
instant one older. Instants older than any comparison can notice stop ageing
(`Older`); the clock itself is unbounded. One unit stands for a duration no
comparison resolves further; the intervals are constants (`LockFor`, `Backoff`,
`HandlerTimeout`, `ProcessingLease`, `ReconcileAfter`), so the proofs cover
every setting. Between any two steps any amount of time can pass.

Two idealisations: there is one clock, so that `time.Now()` of several processes
and NOW() of Postgres do not drift apart; and a context expires at an instant, so
that a statement of the reports store either takes effect before or not at all
(`Apply`), where in fact one under way at that instant may still do so.

### JobQueue and the code

| Action | `jobs.go` | |
|---|---|---|
| `Enqueue(j, x)` | 58-72 | INSERT |
| `PollEmpty(w)` | 83-123 | nothing due |
| `SelectJob(w, j)` | 96-123 | BEGIN, SELECT ... FOR UPDATE SKIP LOCKED: the row lock is taken |
| `CommitClaim(w)` | 125-151 | UPDATE, COMMIT, handler looked up, context made |
| `AbortClaim(w)`, `LoseClaim(w)` | 101-135 | rollback; COMMIT whose answer is lost |
| `HandlerReturns(w, res)` | 152 | nil or error |
| `FinishOk`, `FinishErr`, `FinishUnknown` | 137-168 | the recording UPDATE, unconditional |
| `FinishFails(w)` | 137-168 | that UPDATE fails, or ctx was cancelled |
| `Crash(w)` | - | the process dies and is restarted; also `Shutdown` |
| `Tick` | - | time |

A row is `[work, runAt, attempts, lockedUntil, done, late, ran]`. `late` and
`ran` are history that no statement writes: `late`, a worker held the row when
the lock it took ran out; `ran`, a handler returned nil for it. They let
`Exclusive`, `ReopenOnlyIfLate` and `NoSilentDrop` say *when* the queue may
misbehave. Rows live in a fixed set of slots; a row that no statement can select
and no worker holds may be overwritten by the next INSERT (`Free`), which keeps
the number of INSERTs unbounded.

NOW() of the claiming UPDATE is the start of its transaction: `txAt` records
how long ago that was, so a slow transaction takes a shorter lock, or one that
has run out already.

### ReportPipeline and the code

`gen[w]` is the next call `Generate` makes; every call is a step of its own,
with an outcome for each way it can go: it works; it fails without effect
(always once the handler's context expired, and with the fault `"store"` at any
time); it has its effect and the answer is lost. What the caller does in the
last two cases is in the same action. `MarkPendingRetry` and `MarkFailed` have no
third outcome because the code treats a lost answer as it treats an answer.
`creating` holds the reports between `CreateReport`'s INSERT and its `Enqueue`,
`recon[p]` the rest of the list a `ReconcilePending` is working through: it may
be stale by the time it is used. `updated_at` and `completed_at` are written as
the instant of the statement; the instant `Generate` read before
`ClaimExecution` is kept (`gen[w].at`), for the lease is judged by it.
`Unsupported` reports start as pending rows, as rows of another version would
be: `CreateReport` itself rejects such a type.

`ReportLifecycle` is the promise: `absent -> pending -> processing -> completed |
failed | pending`, one executor, and only the executor decides. The refinement
maps `executors[r]` to the workers between claim and outcome whose context is
still live; an executor whose context expired can no longer write, it has left.

### Auth and the code

`req[q].pc` names the next statement of a request. `Send` is the arrival and
`Middleware`'s choice of credential (the Authorization header wins over the
cookie, even when it is bad). `LookupLive`, `LookupMisses`, `LookupExpired`,
`Purge`, `LookupUser`, `LookupFails` are the steps of `PrincipalFromSession`
(`service.go:128-142`) and `PrincipalFromBearer` (158-172); their errors make
the request anonymous. Then the handler runs, with what it still uses of the
request (`Handle`: the credential endpoints read nothing but the body): `Use` (any protected operation),
`Register`, `LoginMatches`/`LoginRefused` followed by `CreateSession` and, for
`/token`, `CreateBearerToken`, or `Logout`. The effect of a response on the
client (`Reply`: a cookie set or cleared, a token) is a step of its own that
may be lost, so responses overtake each other. `jar[c]` is what client `c`
holds; `Knows[c]` the passwords it can type; nothing else reaches it.

Accounts are their emails (`UNIQUE`, never changed). Identifiers are drawn from
finite sets and may be drawn again once no client or request mentions them and
their row is deleted or, for tokens, whose rows the code never deletes, has
expired; so the number of logins is unbounded. The two lifetimes are any
integers: `config.go:134, 136` passes them on unchecked, and a negative one
issues credentials that have already expired. `live` and `failed` in a request are
history: its credential was live when it was sent; the store failed it. `Live`
is stated apart from the code's test `Expired`, so that the properties do not
inherit an error of that test. Only the configuration with authentication
enabled is modelled; disabled, `Middleware` gives everybody the same principal.

### Todos and the code

| Action | code |
|---|---|
| `Begin`, `Refuse` | routing, `authorize`, validation (`service.go:29-44, 61-71`) |
| `InsertTodo`, then `Publish` or `PublishFails` | `CreateTodo` 45-59, `Bus.Publish`, the subscriber of `app.go:91` |
| `UpdateTodo` | UPDATE ... RETURNING, 72-81 |
| `FindTodoById`, then `DeleteTodo` | 84-121 |
| `ListAllTodos`, `ListFails` | 123-132, and the page the web handlers make after a write |
| `StatementFails`, `AnswerLost`, `Abandon` | error returns; a lost answer; a server that dies |

A row's `state` tells ids never used, live and deleted rows apart; `lost` is
history, a fault kept the event from the queue. Ids are not reused, as UUIDs are
not, so an instance sees at most as many creates as it has ids. Clients name
only ids whose row has been inserted.

### AppLifecycle and the code

A process has at most one `Queue.Run`, so the processes are the workers of
`JobQueue`; `Servers` are `cmd/server` (and `main.go`, which does the same), the
others `cmd/worker`. `Signal` is the arrival of SIGTERM and the cancelling of
the context (`app.go:211`; in `cmd/worker`, `NotifyContext`). `CloseListener` is
the beginning of `Echo.Shutdown` (`app.go:214`): in between the server still
accepts requests while its worker has stopped. Then `Expire` (the shutdown
timeout, which runs from the signal), `EchoShutdown`, `CloseDB`, and `Exit` when
main returns, which for `cmd/worker` is when `Queue.Run` returns, wherever the
goroutine with `Shutdown` has got to. `Run` is not waited for: after the signal
its statements fail (`StopClaim`, `StopRecord`), except for one that was already
under way. Requests have contexts of their own; `open` counts them, `cut` is
history, one was denied the database or ended by the exit. `lost` is history
too: the jobs whose handler returned nil in a process that then stopped, died or
was refused by the database before it had recorded that. `Die` is every other
end of the process, a panic of a job handler included.

### ReportPages and the code

`OpenPage`/`Poll` send, `GetReport`, `GetReportRefused`, `GetReportFails` answer
(`service.go:111-131`), `Arrive` is what the browser does with the answer: a page
replaces what the tab shows; the fragment replaces the fragment it came from,
and htmx leaves it alone on an error, so the timer goes on. The principal of a
request is that of the session when it is sent; `ChangeSession` is any login,
logout or expiry while tabs stay open. `disclosed` is history.

### Flash, CsrfForms and the code

Both model one browser whose tabs share a cookie, with one request in flight per
tab; a response changes the cookie when it arrives. In `Flash` a message is an
identity; `PlainAnswers` and `FlashAnswers` are the handlers' possible answers
as functions of the request, a template that fails after `ConsumeFlash` among
them, and `note` is history (how often shown, whether two requests carried it at
once, what took it away). In `CsrfForms` a token is a number, drawn fresh;
`replaced` and `raced` are history: since the form, or the request, came about
the cookie was changed by somebody else or, for a form, by a login page of the
same tab that had set the cookie and then could not be rendered (`"broken"`). What htmx does with
an answer is that of version 2 with its defaults, which the repository vendors
and does not configure: bodies of 4xx and 5xx answers are not swapped in.

### Responses and the code

One request after the other, from the chain (`server.go:23-64`) to the wire.
`Fail` is every error that comes back through the chain, `RateLimited` and
`Recover` call `ErrorHandler` inside it, `CsrfRefused` answers itself, `Handle`
is a handler's own answer or the error of its renderer. Then `Log`, `Count`, and
`HandleError` in Echo's `ServeHTTP`. A renderer may fail before or after the
header went out (`render.go:192-239`), as the code's order of buffer, header and
layout allows, and a handler may panic at the same points (`Attempts`).
`trouble` is history: `"failed"`, the request came to a bad end, by whatever of
these; `"errorPage"`, `ErrorHandler`'s answer to that could not be rendered.

### Settings and the code

`Load` and `Validate` are functions of the environment; a variable is unset,
garbage, or a value. `Wired` is what queue, service and ticker get after their
own `<= 0` defaults. Settings that reach the program as they are, such as the
lifetimes of sessions and tokens, are not in `Env`.

### Faults

`Faults` chooses what the environment may do: `"crash"` (a process dies),
`"queue"` (a statement of `processOne` fails or its answer is lost), `"store"`
(the same for a statement of the reports store), `"enqueue"`, `"summary"` (the
todo summary fails), `"slow"` (a handler outlives its timeout).

## 3. Runs

| Run | cfg | Checks | Result |
|---|---|---|---|
| `queue_safety` | `MCJobQueue` | `TypeOK`, `ClaimsMatchRows`, `UniqueAttempt`, `Exclusive`, `NoSilentDrop`, `ReopenOnlyIfLate` | hold |
| `pipeline_safety` | `MCReportPipeline` | `PipelineTypeOK`, `RowCoherent`, `ExecutorHoldsLease`, `ExclusiveExecution`, `TerminalFrozen`, `ImplementsLifecycle` | hold |
| `pipeline_kinds` | `MCReportKinds` | `RowCoherent` with unsupported, audit and unknown jobs | hold |
| `pipeline_settles` | `MCReportSettles` | `EveryReportSettles`, enqueue and summaries failing | holds |
| `auth` | `MCAuth` | `AuthTypeOK`, `PrincipalWasLive`, `LiveCredentialAccepted`, `PrincipalKnowsPassword` | hold |
| `todos` | `MCTodos` | `TodosTypeOK`, `UpdatedNotBeforeCreated`, `AuditedOnce`, `AnswersTrue`, `PageShowsOwnWrite`, `DeletedForGood` | hold |
| `app_lifecycle` | `MCAppLifecycle` | `AppTypeOK`, `CutOnlyIfTimedOut`, `RepeatedOnlyIfForgotten`, `ImplementsQueue`, `Settles`, `ShutdownEnds` | hold |
| `report_pages` | `MCReportPages` | `OnlyOwnReports`, `StoppedPageIsTrue`, `PageCatchesUp` | hold |
| `web` | `MCWeb` | `WebTypeOK`, `RefusedOnlyIfReplaced`, `ShownTwiceOnlyIfShared`, `LostOnlyIfSwallowed`, `FailureNotSuccess`, `OneBody`, `RunningSettingsUsable` | hold |
| `stuck_processing` | `MCReportStuck` | `StaleProcessingReclaimed` | **violated** |
| `failed_attempt` | `MCReportFailures` | `FailedAttemptRecorded` | **violated** |
| `responses_metrics` | `MCResponsesMetrics` | `CountedAsSent` | **violated** |

**Bounds.** Queue: three workers and two row slots are enough for a late worker,
the worker that took its row over and a third that polls while both are busy;
three attempts give a first, a middle and a last one; `LockFor = 2` with
`HandlerTimeout = 1` lets a claim be early, at its edge and late. Pipeline: one
report (reports share nothing but the table and the workers), two jobs (the
original and a reconciled duplicate), two workers, one reconciler;
`HandlerTimeout = 2 = ProcessingLease` is the edge of the condition on the
lease, `LockFor = 1` lets the queue redeliver while the first handler still runs. `pipeline_settles` has
one worker and two slots, so that the original and a duplicate are both open
while attempts fail. The two violation runs of the pipeline use the defaults in proportion (lock 3,
backoff 1, timeout 1, lease 3, reconcile 1) and one worker. Symmetry is used on
workers and slots in safety runs only. `pipeline_safety` runs without the
faults `"queue"` and `"enqueue"`: for a report, a process that dies at the same
point leaves the same state behind, and the run stays short; `pipeline_kinds`
has all six. Auth: two requests in flight are enough for a lookup to race with
a logout, a purge, a login or another lookup; two accounts, two clients with a
password each, two sessions and a token that expire at the next tick after they
were issued (one issued later is live beside an expired one), and failing
statements. Sessions, requests and accounts are
interchangeable, and the clients are together with their passwords. Todos: two
todos and two requests, so that any two handlers interleave at any point on the
same row and on different ones. Lifecycle: a server with an embedded worker and
a worker process on one row, with two attempts and lock, backoff and
timeout of one unit; one open request per server, because requests meet the
shutdown independently of each other. Browsers: two tabs are enough for an
answer to overtake another; two messages for one to be lost behind the other;
seven tokens, because at most five are in use when two more are drawn. Pages:
two users, two reports and one tab; a second tab would meet the first only in
the session, which changes at any time. Responses has
no bound. Settings: -1, 0 and 1 stand for the numbers on both sides of the
tests, which compare with zero only.

**What the passing runs show.** Redelivery, duplicates and late workers do no
harm to a report: the conditional claim and the lease serialise executions as
long as `REPORTS_PROCESSING_LEASE` is at least the two-minute timeout, which
nothing validates (`ExclusiveExecution` and `ExecutorHoldsLease` say so in their
hypothesis). The queue alone guarantees less: a worker that outlives its lock
may reopen a completed job (`ReopenOnlyIfLate` is exact about when).

A session that was deleted or has expired when a request is sent is never its
principal, and a live one is never purged by the check-then-delete of
`PrincipalFromSession`, because ids are not reused while anybody holds them.
The second registration of an email changes nothing. For todos, both of two
concurrent deletes may be answered with success, which is true of the row; the
audit job is lost exactly when a fault hits between the INSERT and the Enqueue.

Across restarts (`ImplementsQueue`), a stopping process does to the table what a
crash or a failing statement does, so everything proved of the queue holds
through deployments; the price is a spent attempt and a row locked for five
minutes, and, where the handler had already succeeded, its work done again.
`RepeatedOnlyIfForgotten` says that this is the whole price: no interleaving of
starts, stops and deaths has finished work handed out again unless its outcome
was lost on the way or its lock outlived. A page that stops polling is right, and one that polls catches up,
because the answer to a poll carries the next timer and an error leaves the old
one in place. On a first visit middleware and handler both set a CSRF cookie;
the form agrees with the one that lasts. Another tab that opens the login form
makes the open forms of the first stale, which is the only way they become so,
apart from the user deleting cookies and a login page of the same tab that breaks
after it has set the cookie. A request that fails, in whatever way, is answered
as a success in two cases: `renderLayout` has sent the header and then the layout
fails or panics (`render.go:204-205`), so that `ErrorHandler` finds the response
committed and the client has half a page with status 200; and the error page
itself cannot be rendered (`errors.go:155` ignores that, and Go answers 200 with
an empty body). `FailureNotSuccess` admits these two and no other.

Messages are lost, apart from age and network, where they are consumed for
something that does not show them: `Delete` of todos and, under htmx, `Create` of
reports set a message and go on to `List`, which consumes it while rendering a
fragment that has no place for it (`todos/web/web.go:121`,
`reports/web/web.go:83`); and a page whose template fails has consumed what it
was to show. `LostOnlyIfSwallowed` admits exactly that.

**What the violations show.** The first two begin with an execution that
outlives the handler's context:

1. `failed_attempt` - `handleRetryable` calls `MarkPendingRetry`, or on the last
   attempt `MarkFailed`, with the same expired context (`service.go:204, 208`),
   and the call fails. The error of `MarkFailed` is dropped and the job completed;
   that of `MarkPendingRetry` comes back as one more retryable error (209).
   Either way `Generate` returns with the report still `processing`.
2. `stuck_processing` - the job's next attempt comes one minute later
   (`jobs.go:157`), finds the five-minute lease fresh, gets `sql.ErrNoRows`,
   and returns nil (`service.go:170-172`): the job is completed.
   `ReconcilePending` lists only `pending` rows, so the report is `processing`
   for ever although its lease is stale.
3. `responses_metrics` - `c.Response().Status` is 200 until something is written,
   and `ErrorHandler` runs after the middlewares: every request that ends by a
   returned error is counted and logged with status 200 (`metrics.go:67`,
   `logging.go:213`).

### Fairness

`AppFairness`, of the queue: time passes (strong, because `Tick` waits for prompt
handlers when `"slow"` is off); a handler returns, since those of `app.go` wait
only on calls that obey the context; a recording UPDATE that waits for a row
lock gets it; a row that is eligible again and again is selected, because `Run`
polls for ever and `ORDER BY run_at` puts only finitely many rows before it; its
claims are not aborted, or cut off by a restart, for ever. Nothing is assumed of
`Die`, `FinishFails`, `LoseClaim`: they may happen as often as the budget of
attempts lets them. Of the processes: a supervisor starts what is down, timers
fire, `Shutdown` goes from cancelling to `Echo.Shutdown`, and that, `DB.Close` and
main return when they can. Nothing is
assumed of HTTP handlers (they may hang) nor of `Signal` (it may come at any
time, for ever). `PipelineFairness` assumes the same of the queue, and that calls
of `Generate` return, that the reconcile ticker keeps listing, and that
`Enqueue` does not fail for ever.
`PagesFairness`: the browser's timer fires, the server answers, answers arrive or
are lost; neither the database nor the network fails for ever on the same tab
(strong fairness of `GetReport` and of the arrival of its answer). The pipeline
owes nothing, and a session may change at any time: `PageCatchesUp` excepts that.

`EveryReportSettles` is checked without `"slow"`, `"crash"` and `"store"`: with
any of them it is false for the reason `stuck_processing` shows. With two
workers *and* summaries that always fail, reconciled duplicates bring fresh
attempt budgets again and again; that combination is too large for a liveness
check here and is listed among the hazards.

## 4. Proofs

Every safety property that a passing run checks is also a theorem, for every
number of workers, rows, requests, tabs and users and every interval. The
assumptions are those the modules state of their constants (`QueueAssumption`,
`PipelineAssumption`, ...): counts and intervals are natural numbers (the lifetimes of sessions and tokens
any integers), the placeholders (`Nobody`, `NoReport`, ...) are not values. For
the attempts, the processing lease and the reconcile age, which come from the
environment, `RunningUsable` shows that what runs is positive as assumed; lock,
backoff and timeout are literals in `jobs.go`.

| Module | Theorem | States |
|---|---|---|
| `JobQueueProofs` | `QueueTyped` | `QueueSpec => []TypeOK` |
| | `ClaimsSafe` | `QueueSpec => []ClaimsMatchRows` |
| | `AttemptsUnique` | `QueueSpec => []UniqueAttempt` |
| | `DeliveryExclusive` | `QueueSpec => []Exclusive` |
| | `ReopensOnlyIfLate` | `QueueSpec => ReopenOnlyIfLate` |
| | `NothingDropped` | `QueueSpec => []NoSilentDrop` |
| `ReportPipelineProofs` | `PipelineTyped` | `PipelineSpec => []PipelineTypeOK` |
| | `ReportsCoherent` | `PipelineSpec => []RowCoherent` |
| | `FinalReportsFrozen` | `PipelineSpec => TerminalFrozen` |
| | `LeaseHeld` | `PipelineSpec => []ExecutorHoldsLease` |
| | `OneExecutor` | `PipelineSpec => []ExclusiveExecution` |
| | `PipelineImplementsLifecycle` | `PipelineSpec => ImplementsLifecycle`, if `HandlerTimeout <= ProcessingLease` |
| `AppLifecycleProofs` | `ProcessesTyped` | `AppSpec => []AppTypeOK` |
| | `RequestsNotCut` | `AppSpec => []CutOnlyIfTimedOut` |
| | `WorkRepeatedRightly` | `AppSpec => []RepeatedOnlyIfForgotten` |
| | `DeploymentIsQueue` | `AppSpec => ImplementsQueue` |
| `AuthProofs` | `AuthTyped` | `AuthSpec => []AuthTypeOK` |
| | `PrincipalsWereLive` | `AuthSpec => []PrincipalWasLive` |
| | `PrincipalsKnowPassword` | `AuthSpec => []PrincipalKnowsPassword` |
| | `LiveCredentialsAccepted` | `AuthSpec => []LiveCredentialAccepted` |
| `TodosProofs` | `TodosTyped` | `TodosSpec => []TodosTypeOK` |
| | `UpdatesFollowCreation` | `TodosSpec => []UpdatedNotBeforeCreated` |
| | `CreationsAuditedOnce` | `TodosSpec => []AuditedOnce` |
| | `AnswersStayTrue` | `TodosSpec => []AnswersTrue` |
| | `PagesShowOwnWrites` | `TodosSpec => []PageShowsOwnWrite` |
| | `DeletionsLast` | `TodosSpec => DeletedForGood` |
| `ReportPagesProofs` | `OwnReportsOnly` | `PagesSpec => []OnlyOwnReports` |
| | `StoppedPagesTrue` | `PagesSpec => []StoppedPageIsTrue` |
| `WebProofs` | `WebTyped` | `WebSpec => []WebTypeOK` |
| | `FormsRefusedRightly` | `WebSpec => []RefusedOnlyIfReplaced` |
| | `ShownOnceUnlessShared` | `WebSpec => []ShownTwiceOnlyIfShared` |
| | `MessagesAccountedFor` | `WebSpec => []LostOnlyIfSwallowed` |
| | `FailuresAnswered` | `WebSpec => []FailureNotSuccess` |
| | `BodiesSingle` | `WebSpec => []OneBody` |
| | `RunningUsable` | `WebSpec => []RunningSettingsUsable` |

Each rests on an inductive invariant, which TLC has also checked on the instance
of its run in section 3.

**Queue.** `TypeOK` is not inductive: `CommitClaim` writes `attempts + 1`, and
that this is within `MaxAttempts` is known only from the SELECT. `ClaimsMatchRows`
carries it over (an open claim is exactly one ahead of its row), and that nobody
changes the row in between needs `UniqueAttempt` (two open claims of one row
would have the same attempt) together with the recording UPDATEs waiting for the
row lock. `ClaimInv` adds `EmptySlots` (a slot without a row is never eligible)
and is inductive. `Exclusive` is inductive relative to `ClaimInv`: a row that is
not `late` has a lock in force while it is held, so it cannot be selected.
`ReopenOnlyIfLate` is a consequence of `Exclusive`: on a row that is not late
the worker that records an outcome holds an open row. `NoSilentDrop` needs
`OutcomesJustified`, that an outcome waiting to be recorded agrees with the
row's history.

**Pipeline.** Every step is one of the queue's for `jobs` and `worker`, so
`ClaimInv` is reused as it is. `GenInv` adds the types, `RowCoherent` and
`TypeKnown` (Generate knows on which side of `supportedType` its report is,
which decides the outcomes it may write); it gives `TerminalFrozen`, because
every UPDATE of `reports.sql` that writes an outcome asks for `processing` and
the claim asks for a row that is not final. The two properties of the lease
cannot be proved one without the other: a second claim is refused because the
first executor's lease is fresh, and the lease is the executor's because nobody
else could claim. `LeaseInv` joins them and `ClaimIsRecent`, that a worker about
to claim read its clock after its handler started. They carry the condition
`HandlerTimeout <= ProcessingLease` in their statements. The refinement needs it
as an assumption of the theorem: with a timeout of three units and a lease of
one, TLC finds two workers executing one report against the lifecycle. (A lease
one unit below the timeout is still safe in the model, because ages are whole
units and the comparison is strict; no claim is made of that edge.) The code does
not validate the setting; its defaults, five minutes and two, satisfy it.

**Processes.** `AppInv` is `ClaimInv`, the types, `IdleIsIdle` (an idle worker
remembers nothing), `RequestsEnd` (after `Echo.Shutdown` requests are open only
if it timed out), `CutOnlyIfTimedOut`, the queue's `Exclusive`, and
`WorkAccounted`: a row that has `ran` and is not `late` is completed, or its
outcome is still in the hands of the one worker that got it, or it is in `lost`.
`Exclusive` is needed because a second holder could otherwise record an error
over the first one's success. `RepeatedOnlyIfForgotten` follows, for a completed
row is not eligible and the worker with the outcome is past its handler.
`DeploymentIsQueue` maps the
steps of the processes to those of the queue with the faults `"queue"` and
`"crash"`, one by one; the theorems about `QueueSpec` thereby hold across
deployments.

**Authentication.** The properties look at a request whose handler runs.
`AuthInv` says what is known of a request at each statement before that, and of
every identifier a client holds or is about to be told (`JarsOwn`). The core is
that a row somebody can mention only fades: it expires or is deleted, but
never changes hands or comes back to life, because new identifiers are drawn
from those nobody mentions.

**Todos.** Rows only move forward, from unused to live to gone, so what a
request has seen stays true whatever the others do. `TodosInv` says so of every
request before each statement, and that the request which inserted a row is the
only one to publish it.

**Pages.** A row that is not there belongs to nobody, so no list can have named
it before its owner is set, and the owner never changes after that. A final
status read at any time is the status now; `PagesInv` says so of pages and of
answers under way. Of statuses that are not final nothing is claimed.

**Forms.** `CsrfInv`, tab by tab: a form that nobody made stale carries the
cookie; a request carries it unless it changed since; a safe request without a
cookie comes from a tab whose form, if it has one, is stale already, so the
token it gets harms none; an answer other than a page leaves a form that is not
stale as it is, or, a login page that broke, makes it stale. That tokens are fresh is not used.

**Messages.** `FlashInv`: a message an answer adds is nowhere else yet; one that
was not shared is with one tab at most and, once shown, nowhere; one that was
issued is in the cookie or in an answer until something becomes of it. Being
carried by a request does not count, for its answer may leave it out.

**Answers and settings.** `ResponsesInv`: nothing is in the body before the
header is sent, and on the way back through the chain a failure has begun to be
answered as one, or as half a page (`Begun`), or nothing is written and its error
is still to reach `ErrorHandler`, or `ErrorHandler` has tried in vain. The work is
in `AttemptsSafe`: of all renderers only `renderLayout` can fail behind a status
of success, since `RenderFragmentStatus`, which also writes the header first, is
used for 422 only. `SettingsInv` is about one step; the work is in `WiredUsable`.
In `MCWeb` a step of one part is a stutter of the others, so the four invariants
are preserved independently.

*Only model-checked:* liveness (`EveryReportSettles`, `Settles`, `ShutdownEnds`,
`PageCatchesUp`), because fairness and ENABLED are outside the prover's reach.
Nothing is proved of the three properties that TLC finds violated.

## 5. Not modelled, and the plan

Not modelled: log entries, job metrics, the loading of templates, static assets,
headers and CORS, the rate limiter's buckets (a library's), opening the pool and
migrations (they run once, before anything else, and fail or succeed as a
whole), settings that are passed on unchecked, and the in-memory stores of the
unit tests, which are not part of the program. Two hazards are
listed without a property, because nothing in the program or its documents
bounds what grows: the reconciler's duplicates while workers are down, and the
sessions that `/token` leaves behind. That the answer of a logout clears a cookie
which a login set meanwhile is not told apart from a browser dropping its cookie,
which the browser of `Auth` may do at any time; that htmx does not show the body
of a 422 answer (`todos/web/web.go:101`) is the client's behaviour, and `Flash`
does not follow what a page shows besides messages.

What is left:

1. corollaries that put the theorems together: what `QueueSpec` guarantees, said
   of `PipelineSpec` and of `AppSpec` in so many words; what `ReportLifecycle`
   guarantees by itself, carried over to the pipeline through the refinement;
2. safety halves of the liveness properties, such as the attempts a job has left.

------------------------------ MODULE Settings ------------------------------
(***************************************************************************)
(* From the environment to the numbers the other modules are about:        *)
(* internal/platform/config/config.go (Load, Validate), and the defaults   *)
(* that NewQueue, reports.NewService and startReportsReconcile put in      *)
(* place of values they cannot use.  Durations are in seconds.             *)
(*                                                                         *)
(* Left out: settings that are passed on as they are (addresses, names,    *)
(* origins, limits of libraries, log level, flags of jobs, and the         *)
(* lifetimes AUTH_SESSION_TTL and AUTH_TOKEN_TTL, which may be negative    *)
(* and of which Auth assumes no more than that).  PORT, DB_HOST and        *)
(* DB_NAME are never empty after getenv, so Validate does not look at them *)
(* here.                                                                   *)
(***************************************************************************)
EXTENDS Integers

CONSTANTS
    Unset,      \* the variable is not set, or empty
    Garbage,    \* it is set to something that does not parse
    Numbers     \* what a number or a duration may parse to

ASSUME SettingsAssumption ==
    /\ Numbers \subseteq Int
    /\ {Unset, Garbage} \cap Numbers = {}
    /\ {Unset, Garbage} \cap BOOLEAN = {}

VARIABLES
    env,    \* the environment
    main    \* what main has made of it

settingsVars == <<env, main>>

-----------------------------------------------------------------------------
RawBool == BOOLEAN \cup {Unset, Garbage}
RawNumber == Numbers \cup {Unset, Garbage}

Env == [APP_ENV: {"production", "development"},
        AUTH_DISABLED: RawBool,
        METRICS_PUBLIC: RawBool,
        METRICS_BASIC_AUTH_USER: BOOLEAN,
        JOBS_MAX_ATTEMPTS: RawNumber,
        JOBS_POLL_INTERVAL: RawNumber,
        REPORTS_PROCESSING_LEASE: RawNumber,
        REPORTS_RECONCILE_AFTER: RawNumber,
        REPORTS_RECONCILE_INTERVAL: RawNumber]

\* intEnv, floatEnv, boolEnv and durationEnv: what does not parse counts as
\* not set.
OrDefault(raw, def) == IF raw \in {Unset, Garbage} THEN def ELSE raw

\* Load up to Validate.  METRICS_BASIC_AUTH_USER is "is it set".
Load(e) ==
    [appEnv |-> e.APP_ENV,
     authDisabled |-> OrDefault(e.AUTH_DISABLED, TRUE),
     metricsPublic |-> OrDefault(e.METRICS_PUBLIC, FALSE)
                       \/ (e.METRICS_PUBLIC = Unset /\ e.APP_ENV # "production"),
     metricsUser |-> e.METRICS_BASIC_AUTH_USER,
     maxAttempts |-> OrDefault(e.JOBS_MAX_ATTEMPTS, 5),
     pollInterval |-> OrDefault(e.JOBS_POLL_INTERVAL, 2),
     processingLease |-> OrDefault(e.REPORTS_PROCESSING_LEASE, 300),
     reconcileAfter |-> OrDefault(e.REPORTS_RECONCILE_AFTER, 60),
     reconcileInterval |-> OrDefault(e.REPORTS_RECONCILE_INTERVAL, 30)]

Validate(c) ==
    c.appEnv = "production" =>
        /\ ~c.metricsPublic \/ c.metricsUser
        /\ ~c.authDisabled

\* Mutant: < 0 in place of <= 0.
PositiveOrZero(n, def) == IF n < 0 THEN def ELSE n

\* "if n <= 0" of NewQueue, NewService and startReportsReconcile.
PositiveOr(n, def) == IF n <= 0 THEN def ELSE n

\* What runs: the arguments of Queue, Service and time.NewTicker.
Wired(c) ==
    [auth |-> ~c.authDisabled,
     maxAttempts |-> PositiveOr(c.maxAttempts, 5),
     pollEvery |-> PositiveOr(c.pollInterval, 2),
     processingLease |-> PositiveOr(c.processingLease, 300),
     reconcileAfter |-> PositiveOr(c.reconcileAfter, 60),
     reconcileEvery |-> PositiveOr(c.reconcileInterval, 30)]

-----------------------------------------------------------------------------
SettingsInit ==
    /\ env \in Env
    /\ main = [state |-> "loading"]

\* config.Load returns an error: main prints it and exits.
Refuse ==
    /\ main.state = "loading"
    /\ ~Validate(Load(env))
    /\ main' = [state |-> "refused"]
    /\ UNCHANGED env

\* config.Load succeeds; app.New and Start build queue, service and ticker.
Wire ==
    /\ main.state = "loading"
    /\ Validate(Load(env))
    /\ main' = [state |-> "running", with |-> Wired(Load(env))]
    /\ UNCHANGED env

SettingsNext == Refuse \/ Wire

SettingsSpec == SettingsInit /\ [][SettingsNext]_settingsVars

-----------------------------------------------------------------------------
(* Safety.                                                                 *)

\* Whatever the environment says about jobs and reports: a job is attempted at
\* least once, the processing lease and the age at which reconcile takes up a
\* report are positive, as JobQueue and ReportStore assume, and
\* time.NewTicker, which panics on a period that is not positive, gets positive
\* ones.
RunningSettingsUsable ==
    main.state = "running" =>
        /\ main.with.maxAttempts \in Nat \ {0}
        /\ main.with.processingLease \in Nat \ {0}
        /\ main.with.reconcileAfter \in Nat \ {0}
        /\ main.with.pollEvery > 0
        /\ main.with.reconcileEvery > 0
=============================================================================

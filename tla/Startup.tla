------------------------------- MODULE Startup -------------------------------
(***************************************************************************)
(* The start of the server processes (run in cmd/server/main.go): the      *)
(* settings (internal/config), the database with its retries and the       *)
(* migrations every instance applies (internal/db), Redis, the scanner and *)
(* the listener; crashes and signals at any point, and restarts.  Several  *)
(* instances start on one database.                                        *)
(***************************************************************************)
EXTENDS Naturals, Sequences

CONSTANTS
    Instances,   \* server processes that share one database
    Attempts,    \* pings of db.Open before it gives up (10)
    Environments \* the settings a deployment may come with, see Settings

ASSUME AttemptsAssumption == Attempts \in Nat \ {0}

\* One setting for each way Load treats them (SCANNER_INTERVAL for the durations,
\* SCANNER_WORKERS for the numbers): "" is unset, "bad" does not parse or has no host, and
\* "zero" is a duration that is not positive.
Settings == {"SCANNER_INTERVAL", "SCANNER_WORKERS", "API_KEY", "DATABASE_URL", "SMTP_FROM",
             "CLOUDMAILIN_SMTP_URL", "SMTP_HOST", "REDIS_TLS_URL", "REDIS_URL"}

ASSUME EnvironmentsAssumption == Environments \subseteq [Settings -> {"", "good", "bad", "zero"}]

VARIABLES
    env,      \* the settings of the deployment
    dbUp,     \* PostgreSQL answers
    redisUp,  \* Redis answers
    schema,   \* the objects that exist in the database
    phase,    \* of an instance: where run is
    tries,    \* of an instance: pings that failed
    pos       \* of an instance: the part of the migrations it is at

world == <<env, dbUp, redisUp>>
vars  == <<world, schema, phase, tries, pos>>

Phases == {"exited", "load", "ping", "migrate", "create", "redis", "serving", "stopping"}

-----------------------------------------------------------------------------
(* Settings and migrations. *)

\* getenv, durationEnv and intEnv: an unset variable has a default.
Parses(setting) == env[setting] # "bad"

\* REDIS_TLS_URL comes before REDIS_URL, which is not looked at then; REDIS_ADDR is neither
\* parsed nor required.
RedisURL == IF env["REDIS_TLS_URL"] # "" THEN "REDIS_TLS_URL" ELSE "REDIS_URL"

\* The URL of a relay replaces its host.
Relay == IF env["CLOUDMAILIN_SMTP_URL"] # "" THEN "CLOUDMAILIN_SMTP_URL" ELSE "SMTP_HOST"

Loads ==
    /\ \A s \in {"API_KEY", "DATABASE_URL", "SMTP_FROM", Relay} : env[s] # ""
    /\ \A s \in {"SCANNER_INTERVAL", "SCANNER_WORKERS", RedisURL} : Parses(s)
    /\ Relay = "CLOUDMAILIN_SMTP_URL" => Parses(Relay)

Sql(makes, needs) == [sql |-> TRUE, makes |-> makes, needs |-> needs]
\* What execSQL skips: the blank after the last semicolon of a file, or a part that begins
\* with a comment, whatever follows the comment.
Skipped == [sql |-> FALSE, makes |-> "", needs |-> {}]

Migration1 ==
    << Sql("subscriptions", {}), Sql("idx_confirmed", {"subscriptions"}),
       Sql("idx_email", {"subscriptions"}), Skipped >>

Migration2 ==
    << Sql("notification_log", {"subscriptions"}), Sql("idx_log", {"notification_log"}), Skipped >>

\* Mutant: the files are not sorted.
Unsorted == Migration2 \o Migration1

\* Mutant: the index of the log is preceded by a comment.
Commented == Migration1 \o << Migration2[1], Skipped, Skipped >>

\* Migrate: the parts of the files, split at semicolons, in the order of the names.
Script == Migration1 \o Migration2

\* What repository.go and the migrations promise the queries.
Objects == {"subscriptions", "idx_confirmed", "idx_email", "notification_log", "idx_log"}

TypeOK ==
    /\ env \in Environments /\ dbUp \in BOOLEAN /\ redisUp \in BOOLEAN
    /\ schema \subseteq Objects
    /\ phase \in [Instances -> Phases]
    /\ tries \in [Instances -> 0..Attempts - 1]
    /\ pos \in [Instances -> 1..Len(Script) + 1]

Init ==
    /\ env \in Environments /\ dbUp \in BOOLEAN /\ redisUp \in BOOLEAN
    /\ schema = {}
    /\ phase = [i \in Instances |-> "exited"]
    /\ tries = [i \in Instances |-> 0]
    /\ pos = [i \in Instances |-> 1]

-----------------------------------------------------------------------------
(* run. *)

Goto(i, p) == phase' = [phase EXCEPT ![i] = p]

Exit(i) ==
    /\ Goto(i, "exited")
    /\ tries' = [tries EXCEPT ![i] = 0]
    /\ pos' = [pos EXCEPT ![i] = 1]

Load(i) ==
    /\ phase[i] = "load"
    /\ IF Loads THEN Goto(i, "ping") /\ UNCHANGED <<tries, pos>> ELSE Exit(i)
    /\ UNCHANGED <<world, schema>>

Ping(i) ==
    /\ phase[i] = "ping" /\ dbUp
    /\ Goto(i, "migrate")
    /\ tries' = [tries EXCEPT ![i] = 0]
    /\ UNCHANGED <<world, schema, pos>>

\* Mutant: one attempt too many.
OneTryMore(i) ==
    /\ phase[i] = "ping" /\ ~dbUp
    /\ IF tries[i] < Attempts
       THEN tries' = [tries EXCEPT ![i] = @ + 1] /\ UNCHANGED <<phase, pos>>
       ELSE Exit(i)
    /\ UNCHANGED <<world, schema>>

\* retry: after the last attempt run returns the error.
PingFails(i) ==
    /\ phase[i] = "ping" /\ ~dbUp
    /\ IF tries[i] + 1 < Attempts
       THEN tries' = [tries EXCEPT ![i] = @ + 1] /\ UNCHANGED <<phase, pos>>
       ELSE Exit(i)
    /\ UNCHANGED <<world, schema>>

Part(i) == Script[pos[i]]
Executing(i) == phase[i] = "migrate" /\ pos[i] <= Len(Script) /\ Part(i).sql

NextPart(i) ==
    /\ Goto(i, "migrate")
    /\ pos' = [pos EXCEPT ![i] = @ + 1]
    /\ UNCHANGED <<world, tries>>

SkipPart(i) ==
    /\ phase[i] = "migrate" /\ pos[i] <= Len(Script) /\ ~Part(i).sql
    /\ NextPart(i)
    /\ UNCHANGED schema

\* CREATE ... IF NOT EXISTS of something that exists.
ObjectExists(i) ==
    /\ Executing(i) /\ dbUp
    /\ Part(i).makes \in schema
    /\ NextPart(i)
    /\ UNCHANGED schema

\* The statement saw that the object is missing ...
BeginCreate(i) ==
    /\ Executing(i) /\ dbUp
    /\ Part(i).makes \notin schema /\ Part(i).needs \subseteq schema
    /\ Goto(i, "create")
    /\ UNCHANGED <<world, schema, tries, pos>>

\* ... and commits it, unless another instance was faster.
Create(i) ==
    /\ phase[i] = "create" /\ dbUp
    /\ Part(i).makes \notin schema
    /\ schema' = schema \cup {Part(i).makes}
    /\ NextPart(i)

\* The transaction of a statement whose session ended may have been committed.
Interrupted(i) == {schema} \cup (IF phase[i] = "create" THEN {schema \cup {Part(i).makes}} ELSE {})

Refused(i) ==
    \/ ~dbUp
    \/ phase[i] = "create" /\ Part(i).makes \in schema
    \/ phase[i] = "migrate" /\ Part(i).makes \notin schema /\ ~(Part(i).needs \subseteq schema)

\* The error ends Migrate, run and the process.  A lost race for an object is one: the
\* catalog refuses the duplicate.
StatementFails(i) ==
    /\ Executing(i) \/ phase[i] = "create"
    /\ Refused(i)
    /\ schema' \in Interrupted(i)
    /\ Exit(i)
    /\ UNCHANGED world

Migrated(i) ==
    /\ phase[i] = "migrate" /\ pos[i] > Len(Script)
    /\ Goto(i, "redis")
    /\ pos' = [pos EXCEPT ![i] = 1]
    /\ UNCHANGED <<world, schema, tries>>

\* NewRedis pings once; then the handlers are wired, the scanner starts and the server
\* listens.
NewRedis(i) ==
    /\ phase[i] = "redis"
    /\ IF redisUp THEN Goto(i, "serving") /\ UNCHANGED <<tries, pos>> ELSE Exit(i)
    /\ UNCHANGED <<world, schema>>

\* time.NewTicker panics in the goroutine of the scanner.
TickerPanics(i) ==
    /\ phase[i] = "serving" /\ env["SCANNER_INTERVAL"] = "zero"
    /\ Exit(i)
    /\ UNCHANGED <<world, schema>>

\* server.Shutdown returns, within 30 seconds.
ShutdownEnds(i) ==
    /\ phase[i] = "stopping"
    /\ Exit(i)
    /\ UNCHANGED <<world, schema>>

Step(i) ==
    \/ Load(i) \/ Ping(i) \/ PingFails(i)
    \/ SkipPart(i) \/ ObjectExists(i) \/ BeginCreate(i) \/ Create(i) \/ StatementFails(i) \/ Migrated(i)
    \/ NewRedis(i) \/ TickerPanics(i) \/ ShutdownEnds(i)

-----------------------------------------------------------------------------
(* The world around. *)

\* SIGTERM or SIGINT once signal.Notify was called.
Signal(i) ==
    /\ phase[i] = "serving"
    /\ Goto(i, "stopping")
    /\ UNCHANGED <<world, schema, tries, pos>>

\* A crash, a port that is taken (log.Fatalf), or a signal before signal.Notify.
Die(i) ==
    /\ phase[i] # "exited"
    /\ schema' \in Interrupted(i)
    /\ Exit(i)
    /\ UNCHANGED world

Restart(i) ==
    /\ phase[i] = "exited"
    /\ Goto(i, "load")
    /\ UNCHANGED <<world, schema, tries, pos>>

\* Databases come up after the server, go away and come back (docker-compose.yml:11 waits
\* for none of them).
Outage ==
    /\ dbUp' \in BOOLEAN /\ redisUp' \in BOOLEAN
    /\ <<dbUp, redisUp>>' # <<dbUp, redisUp>>
    /\ UNCHANGED <<env, schema, phase, tries, pos>>

Next ==
    \/ \E i \in Instances : Step(i) \/ Signal(i) \/ Die(i) \/ Restart(i)
    \/ Outage

Spec == Init /\ [][Next]_vars

\* Whoever runs the server starts it again; in the end no process ends but by a step of its
\* own, which may be a start that fails, and both stores stay.
FairSpec ==
    /\ Spec
    /\ \A i \in Instances : WF_vars(Step(i)) /\ WF_vars(Restart(i))
    /\ <>[][\A i \in Instances : ~Signal(i) /\ (Die(i) => Step(i))]_vars
    /\ <>[](dbUp /\ redisUp)

-----------------------------------------------------------------------------
(* Properties. *)

\* An instance that takes calls or scans finds every table and index, whichever instances
\* applied the migrations together, died in them or lost the race for a statement.
ServingReady ==
    \A i \in Instances : phase[i] \in {"redis", "serving", "stopping"} => Objects \subseteq schema

\* With settings that load and a positive interval every instance serves in the end: what a
\* failed start left of the migrations never keeps a later one from finishing.
ComesUp ==
    (Loads /\ env["SCANNER_INTERVAL"] # "zero") ~> [](\A i \in Instances : phase[i] = "serving")
=============================================================================

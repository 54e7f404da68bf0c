------------------------------- MODULE Startup -------------------------------
(***************************************************************************)
(* How a service starts, up to where Shutdown.tla begins: Run loads the    *)
(* configuration for the logger, fx.New loads it again and builds what the *)
(* service is made of, among it the pool, whose database has to answer one *)
(* of five pings, and Graceful's goroutine, which listens to signals some  *)
(* time after it was started.                                              *)
(*                                                                         *)
(* A setting is a member of a class: what counts is where it comes from    *)
(* and which checks tell its values apart.  PORT and ADDRESS stand for     *)
(* AGENT_HTTP_PORT, ORCHESTRATOR_GRPC_ADDRESS and their likes.             *)
(***************************************************************************)
EXTENDS Shutdown

CONSTANTS
    Environments,   \* the environments a process may be started in
    Files           \* the .env files there may be; an absent one sets nothing

VARIABLES
    boot,       \* where Run and fx.New are
    env,        \* the environment of the process
    file,       \* the .env file
    config,     \* what the process goes on with, once it is loaded
    attempt,    \* of NewPool's pings
    database,   \* what the database does
    listening   \* Graceful has called signal.Notify

bootVars == <<boot, env, file, config, attempt, database, listening>>

processVars == <<vars, bootVars>>

Unset == "unset"

NoConfig == [test |-> FALSE, dsn |-> "none"]

ProcessInit ==
    /\ Init
    /\ boot = "load"
    /\ env \in Environments
    /\ file \in Files
    /\ config = NoConfig
    /\ attempt = 1
    /\ database \in {"answers", "refuses", "hangs"}
    /\ listening = FALSE

-----------------------------------------------------------------------------
\* config.Load

Durations == {"GRACEFUL_TIMEOUT", "JWT_TOKEN_TTL", "GRPC_CLIENT_TIMEOUT", "TIME_ADDITION_MS"}

Default(k) ==
    CASE k = "APP_ENV" -> "development"
      [] k = "LOG_LEVEL" -> "info"
      [] k \in Durations \cup {"DB_POOL_MAX_CONNS"} -> "positive"
      [] OTHER -> "default"

\* The .env file is not read if the environment says "test".
FileRead == env["APP_ENV"] # "test"

\* The environment before the file before the default; a variable that is set
\* to nothing counts as not set, a line of the file does not.
Source(k) ==
    CASE env[k] # Unset              -> "env"
      [] env[k] = Unset /\ FileRead /\ file[k] # Unset -> "file"
      [] OTHER                       -> "default"

Value(k) ==
    CASE Source(k) = "env"  -> env[k]
      [] Source(k) = "file" -> file[k]
      [] OTHER              -> Default(k)

KeysOf ==
    CASE service = "agent" ->
           {"LOG_LEVEL", "GRACEFUL_TIMEOUT", "POSTGRES_DSN", "DB_POOL_MAX_CONNS", "PORT",
            "JWT_SECRET", "JWT_TOKEN_TTL", "ADDRESS", "GRPC_CLIENT_TIMEOUT", "APP_ENV"}
      [] service = "orchestrator" ->
           {"LOG_LEVEL", "GRACEFUL_TIMEOUT", "POSTGRES_DSN", "DB_POOL_MAX_CONNS", "PORT",
            "ADDRESS", "GRPC_CLIENT_TIMEOUT", "APP_ENV"}
      [] service = "worker" ->
           {"LOG_LEVEL", "GRACEFUL_TIMEOUT", "PORT", "TIME_ADDITION_MS", "APP_ENV"}

\* Unmarshal: a duration needs a unit, a number digits.
Parses == \A k \in KeysOf : Value(k) # "garbage"

\* Mutant: only the empty string is refused.
GivenSomehow(k) == Value(k) # "empty"

\* In a test the setting has to come from the environment.
Given(k) == Value(k) # "empty" /\ (env["APP_ENV"] = "test" => Source(k) = "env")

Weak == {"empty", "short"}

\* A short secret is let through if APP_ENV, from any source, is "test".
AgentAccepts ==
    /\ Value("PORT") # "empty"
    /\ Given("POSTGRES_DSN")
    /\ Value("JWT_SECRET") \in Weak => Value("APP_ENV") = "test"
    /\ Value("JWT_TOKEN_TTL") = "positive"
    /\ Given("ADDRESS")
    /\ Value("GRPC_CLIENT_TIMEOUT") = "positive"

OrchestratorAccepts ==
    /\ Given("PORT")
    /\ Given("POSTGRES_DSN")
    /\ Given("ADDRESS")
    /\ Value("GRPC_CLIENT_TIMEOUT") = "positive"
    /\ Value("GRACEFUL_TIMEOUT") = "positive"

WorkerAccepts ==
    /\ Value("PORT") # "empty"
    /\ Value("GRACEFUL_TIMEOUT") = "positive"

Loads ==
    /\ Parses
    /\ CASE service = "agent"        -> AgentAccepts
         [] service = "orchestrator" -> OrchestratorAccepts
         [] service = "worker"       -> WorkerAccepts

\* The agent's own check of the secret, after the second Load: the published
\* constant, or less than 32 characters.  NewManager repeats the latter.
SecretRefused == Value("JWT_SECRET") \in Weak \cup {"listed"}

-----------------------------------------------------------------------------
\* Run and fx.New

\* log.Fatal, or an error that fx.New keeps and fxApp.Start returns.
Abort(point) ==
    /\ Alive
    /\ boot = point
    /\ Exit("failed")
    /\ UNCHANGED <<service, signals, quit, fxDone, appCtx, graceful, timedOut,
                   server, stopCall, pool, bootVars>>

Proceed(point, next) ==
    /\ Alive
    /\ boot = point
    /\ boot' = next
    /\ UNCHANGED <<vars, env, file, database, listening>>

\* The first Load and logger.New.
LoadForLogger ==
    /\ Loads /\ Value("LOG_LEVEL") # "unknown"
    /\ Proceed("load", "provide")
    /\ UNCHANGED <<config, attempt>>

LoadFails == ~(Loads /\ Value("LOG_LEVEL") # "unknown") /\ Abort("load")

\* The second Load.  Nothing reads the two sources again, and the model
\* forgets them.
LoadForDI ==
    /\ Alive
    /\ boot = "provide"
    /\ Loads
    /\ service = "agent" => ~SecretRefused
    /\ HasPool => Value("POSTGRES_DSN") # "malformed"
    /\ config' = [test |-> env["APP_ENV"] = "test",
                  dsn  |-> IF HasPool THEN Source("POSTGRES_DSN") ELSE "none"]
    /\ env' = [k \in DOMAIN env |-> Unset]
    /\ file' = [k \in DOMAIN file |-> Unset]
    /\ boot' = IF HasPool THEN "ping" ELSE "listen"
    /\ UNCHANGED <<vars, attempt, database, listening>>

\* The secret, or pgxpool.ParseConfig.
ProvideFails ==
    /\ \/ service = "agent" /\ SecretRefused
       \/ HasPool /\ Value("POSTGRES_DSN") = "malformed"
    /\ Abort("provide")

PingAnswered ==
    /\ database = "answers"
    /\ Proceed("ping", "listen")
    /\ UNCHANGED <<config, attempt>>

MaxPingAttempts == 5

\* Mutant: a ping without a deadline.
PingRefused ==
    /\ database = "refuses"
    /\ Proceed("ping", "pause")
    /\ UNCHANGED <<config, attempt>>

\* The ping is refused, or its 5 s pass, which may be as the answer comes.
PingFails ==
    /\ Proceed("ping", "pause")
    /\ UNCHANGED <<config, attempt>>

\* As many seconds as there were attempts; appCtx cannot end here, since
\* nothing listens to signals yet.
PauseEnds ==
    /\ attempt < MaxPingAttempts
    /\ Proceed("pause", "ping")
    /\ attempt' = attempt + 1
    /\ UNCHANGED config

NoPool == attempt = MaxPingAttempts /\ Abort("pause")

\* The rest is built.  The clients of gRPC connect later; the orchestrator and
\* the worker open their port here; Graceful's goroutine is started.
Invoke ==
    /\ Proceed("listen", "invoked")
    /\ UNCHANGED <<config, attempt>>

\* The port is taken, or no client can be made of the other service's address.
InvokeFails == Abort("listen")

GracefulListens ==
    /\ Alive
    /\ boot = "invoked"
    /\ ~listening
    /\ listening' = TRUE
    /\ UNCHANGED <<vars, boot, env, file, config, attempt, database>>

\* Whatever Go and fx do not listen to kills the process, as it does before
\* Done() and signal.Notify are called.
SignalUnheard ==
    /\ Alive
    /\ ~listening
    /\ signals < MaxSignals
    /\ signals' = signals + 1
    /\ IF main = "waiting"
       THEN fxDone' = TRUE /\ UNCHANGED <<main, request>>
       ELSE Exit("failed") /\ UNCHANGED fxDone
    /\ UNCHANGED <<service, quit, appCtx, graceful, timedOut, server, stopCall,
                   pool, bootVars>>

\* The database comes up after the service.
DatabaseStarts ==
    /\ Alive
    /\ boot \in {"ping", "pause"}
    /\ database # "answers"
    /\ database' = "answers"
    /\ UNCHANGED <<vars, boot, env, file, config, attempt, listening>>

-----------------------------------------------------------------------------

Boot ==
    \/ LoadForLogger
    \/ LoadFails
    \/ LoadForDI
    \/ ProvideFails
    \/ PingAnswered
    \/ PingFails
    \/ PauseEnds
    \/ NoPool
    \/ Invoke
    \/ GracefulListens

Started(Step) == boot = "invoked" /\ Step /\ UNCHANGED bootVars

Served == Run \/ Graceful \/ ServerFails \/ \E r \in Requests : Handle(r)

ProcessNext ==
    \/ Boot
    \/ InvokeFails
    \/ Started(Served)
    \/ Started(listening /\ Signal)
    \/ SignalUnheard
    \/ DatabaseStarts

ProcessSpec ==
    /\ ProcessInit
    /\ [][ProcessNext]_processVars
    /\ WF_processVars(Boot)
    /\ WF_processVars(Started(Run))
    /\ WF_processVars(Started(Graceful))

-----------------------------------------------------------------------------

ProcessTypeOK ==
    /\ TypeOK
    /\ boot \in {"load", "provide", "ping", "pause", "listen", "invoked"}
    /\ config \in [test : BOOLEAN, dsn : {"none", "env", "file", "default"}]
    /\ attempt \in 1..MaxPingAttempts
    /\ database \in {"answers", "refuses", "hangs"}
    /\ listening \in BOOLEAN

\* A process starts or fails, even if the database accepts connections and
\* never answers on them.
StartEnds == <>(~Alive \/ boot = "invoked")

\* A service that needs a database serves only when that has answered, and a
\* test serves only one that it was given by its environment: no .env file and
\* no default lets it write into another.
ServesItsDatabase ==
    server # "new" /\ HasPool =>
        /\ database = "answers"
        /\ config.test => config.dsn = "env"
==============================================================================

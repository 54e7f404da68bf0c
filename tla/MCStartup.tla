------------------------------ MODULE MCStartup ------------------------------
(***************************************************************************)
(* Environments and .env files for Startup: nothing set, everything set,   *)
(* a test; and one setting that differs.                                   *)
(***************************************************************************)
EXTENDS Startup

Keys == {"LOG_LEVEL", "GRACEFUL_TIMEOUT", "POSTGRES_DSN", "DB_POOL_MAX_CONNS", "PORT",
         "JWT_SECRET", "JWT_TOKEN_TTL", "ADDRESS", "GRPC_CLIENT_TIMEOUT",
         "TIME_ADDITION_MS", "APP_ENV"}

Settings(k) ==
    CASE k = "APP_ENV"      -> {"production", "test"}
      [] k = "LOG_LEVEL"    -> {"debug", "unknown"}
      [] k = "POSTGRES_DSN" -> {"given", "malformed"}
      [] k = "JWT_SECRET"   -> {"given", "short", "listed"}
      [] k \in {"PORT", "ADDRESS"} -> {"given"}
      [] OTHER              -> {"positive", "zero", "garbage"}

\* A line "NAME=": no duration, the number 0, the level "info".
EmptyLine(k) ==
    CASE k \in Durations           -> "garbage"
      [] k = "DB_POOL_MAX_CONNS"   -> "zero"
      [] OTHER                     -> "empty"

Nothing == [k \in Keys |-> Unset]

Everything ==
    [k \in Keys |->
        CASE k = "APP_ENV"   -> "production"
          [] k = "LOG_LEVEL" -> "debug"
          [] k \in {"POSTGRES_DSN", "PORT", "ADDRESS", "JWT_SECRET"} -> "given"
          [] OTHER           -> "positive"]

Test == [Everything EXCEPT !["APP_ENV"] = "test"]

Changed(base, values(_)) ==
    UNION {{[b EXCEPT ![k] = v] : v \in values(k)} : b \in base, k \in Keys}

MCEnvironments ==
    LET values(k) == Settings(k) \cup {Unset}
    IN  Changed({Nothing, Everything, Test}, values)

MCFiles ==
    LET values(k) == Settings(k) \cup {Unset, EmptyLine(k)}
    IN  Changed({Nothing}, values)
==============================================================================

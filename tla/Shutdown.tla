------------------------------- MODULE Shutdown -------------------------------
(***************************************************************************)
(* How a service ends: SIGINT and SIGTERM are delivered to Graceful, which *)
(* stops the HTTP server and closes the pool, and to the fx application,   *)
(* on whose channel main waits.  main calls neither fxApp.Stop, so that no *)
(* OnStop hook runs, nor waits for Graceful.                               *)
(*                                                                         *)
(* A behaviour is the life of one process from the moment on that Graceful *)
(* listens.  It is over when Run has returned or has failed.               *)
(***************************************************************************)
EXTENDS Integers

CONSTANTS
    Services,       \* the programs that may run
    Requests,
    MaxSignals      \* bound on the signals the process gets

ASSUME MaxSignalsAssumption == MaxSignals \in Nat

ASSUME ServicesAssumption == Services \subseteq {"agent", "orchestrator", "worker"}

VARIABLES
    service,    \* the program this process runs
    main,       \* where Run is
    signals,    \* how many signals the process got
    quit,       \* how many of them Graceful's channel holds
    fxDone,     \* the channel of fxApp.Done() holds one
    appCtx,     \* the context of the application: "live" or "cancelled"
    graceful,   \* where Graceful is
    timedOut,   \* shutdownCtx has expired
    server,     \* the server of the process
    stopCall,   \* the goroutine that stops the HTTP server
    pool,       \* the pool of connections
    request     \* [Requests -> where its handler is]

vars == <<service, main, signals, quit, fxDone, appCtx, graceful, timedOut,
          server, stopCall, pool, request>>

AgentServers == {"http"}

\* The server is there, under a name that Graceful does not look up.
OrchestratorServers == {"grpc"}

\* The worker passes nil.
WorkerServers == {}

ServersToStop ==
    CASE service = "agent" -> AgentServers
      [] service = "orchestrator" -> OrchestratorServers
      [] service = "worker" -> WorkerServers

HasPool == service # "worker"

Alive == main \notin {"returned", "failed"}

Handling == {r \in Requests : request[r] \in {"working", "querying"}}

Querying == {r \in Requests : request[r] = "querying"}

Init ==
    /\ service \in Services
    /\ main = "starting"
    /\ signals = 0
    /\ quit = 0
    /\ fxDone = FALSE
    /\ appCtx = "live"
    /\ graceful = "waiting"
    /\ timedOut = FALSE
    /\ server = "new"
    /\ stopCall = "none"
    /\ pool = IF HasPool THEN "open" ELSE "closed"
    /\ request = [r \in Requests |-> "none"]

-----------------------------------------------------------------------------
\* Run

\* The process is over; the handlers that were running never answer.
Exit(how) ==
    /\ main' = how
    /\ request' = [r \in Requests |-> IF r \in Handling THEN "cut" ELSE request[r]]

\* OnStart.  A server that was shut down before it started returns at once.
ServerStarts ==
    /\ main = "starting"
    /\ server = "new"
    /\ server' = "serving"
    /\ UNCHANGED <<service, main, signals, quit, fxDone, appCtx, graceful,
                   timedOut, stopCall, pool, request>>

\* fxApp.Start(appCtx) has run the hooks; main is to wait for fxApp.Done().
StartReturns ==
    /\ main = "starting"
    /\ server # "new"
    /\ appCtx = "live"
    /\ main' = "waiting"
    /\ UNCHANGED <<service, signals, quit, fxDone, appCtx, graceful, timedOut,
                   server, stopCall, pool, request>>

\* fxApp.Start(appCtx) returns the error of its context: os.Exit(1).
StartFails ==
    /\ main = "starting"
    /\ appCtx = "cancelled"
    /\ Exit("failed")
    /\ UNCHANGED <<service, signals, quit, fxDone, appCtx, graceful, timedOut,
                   server, stopCall, pool>>

\* <-fxApp.Done()
MainReturns ==
    /\ main = "waiting"
    /\ fxDone
    /\ Exit("returned")
    /\ UNCHANGED <<service, signals, quit, fxDone, appCtx, graceful, timedOut,
                   server, stopCall, pool>>

\* ListenAndServe or Serve returns an error of its own: log.Fatal.
ServerFails ==
    /\ Alive
    /\ server = "serving"
    /\ Exit("failed")
    /\ UNCHANGED <<service, signals, quit, fxDone, appCtx, graceful, timedOut,
                   server, stopCall, pool>>

-----------------------------------------------------------------------------
\* Graceful

\* Mutant: the channel has no bound.
NotifiedAlways(q) == q + 1

\* signal.Notify on a channel of one element: a signal that finds it full is
\* dropped.
Notified(q) == IF q = 0 THEN 1 ELSE q

\* The operating system sends a signal; fx listens from Done() on.
Signal ==
    /\ Alive
    /\ signals < MaxSignals
    /\ signals' = signals + 1
    /\ quit' = Notified(quit)
    /\ fxDone' = (fxDone \/ main = "waiting")
    /\ UNCHANGED <<service, main, appCtx, graceful, timedOut, server, stopCall,
                   pool, request>>

\* Mutant: the signal is only logged.
SignalLogged ==
    /\ Alive
    /\ appCtx = "live"
    /\ quit > 0
    /\ quit' = quit - 1
    /\ UNCHANGED <<service, main, signals, fxDone, appCtx, graceful, timedOut,
                   server, stopCall, pool, request>>

\* case sig := <-quit; after it nobody reads the channel.
SignalCancels ==
    /\ Alive
    /\ appCtx = "live"
    /\ quit > 0
    /\ quit' = quit - 1
    /\ appCtx' = "cancelled"
    /\ UNCHANGED <<service, main, signals, fxDone, graceful, timedOut, server,
                   stopCall, pool, request>>

\* <-mainCtx.Done(); shutdownCtx starts to run, and the HTTP server, if there
\* is one, is stopped by a goroutine.
GracefulBegins ==
    /\ Alive
    /\ graceful = "waiting"
    /\ appCtx = "cancelled"
    /\ graceful' = "stopping"
    /\ stopCall' = IF "http" \in ServersToStop THEN "called" ELSE "none"
    /\ UNCHANGED <<service, main, signals, quit, fxDone, appCtx, timedOut,
                   server, pool, request>>

\* http.Server.Shutdown: no new requests.
ServerDrains ==
    /\ Alive
    /\ stopCall = "called"
    /\ stopCall' = "draining"
    /\ server' = "draining"
    /\ UNCHANGED <<service, main, signals, quit, fxDone, appCtx, graceful,
                   timedOut, pool, request>>

\* Shutdown returns when no connection is active, or with shutdownCtx's error.
StopReturns ==
    /\ Alive
    /\ stopCall = "draining"
    /\ Handling = {} \/ timedOut
    /\ stopCall' = "returned"
    /\ UNCHANGED <<service, main, signals, quit, fxDone, appCtx, graceful,
                   timedOut, server, pool, request>>

TimeoutPasses ==
    /\ Alive
    /\ graceful = "stopping"
    /\ ~timedOut
    /\ timedOut' = TRUE
    /\ UNCHANGED <<service, main, signals, quit, fxDone, appCtx, graceful,
                   server, stopCall, pool, request>>

\* Mutant: wg.Add is called by the goroutine, after wg.Wait.
AllServersStoppedAtOnce == TRUE

\* wg.Wait
AllServersStopped == stopCall \in {"none", "returned"}

\* Both cases of the select call dbPool.Close, if there is a pool.
GracefulCloses ==
    /\ Alive
    /\ graceful = "stopping"
    /\ AllServersStopped \/ timedOut
    /\ graceful' = "closing"
    /\ pool' = IF pool = "open" THEN "closing" ELSE pool
    /\ UNCHANGED <<service, main, signals, quit, fxDone, appCtx, timedOut,
                   server, stopCall, request>>

\* Close returns when every connection has been given back.
GracefulEnds ==
    /\ Alive
    /\ graceful = "closing"
    /\ Querying = {}
    /\ graceful' = "done"
    /\ pool' = "closed"
    /\ UNCHANGED <<service, main, signals, quit, fxDone, appCtx, timedOut,
                   server, stopCall, request>>

-----------------------------------------------------------------------------
\* Requests

Moves(r, from, to) ==
    /\ Alive
    /\ request[r] = from
    /\ request' = [request EXCEPT ![r] = to]
    /\ UNCHANGED <<service, main, signals, quit, fxDone, appCtx, graceful,
                   timedOut, server, stopCall, pool>>

Arrive(r) == server = "serving" /\ Moves(r, "none", "working")

\* The handler takes a connection of the pool, and gives it back.
Acquire(r) == pool = "open" /\ Moves(r, "working", "querying")

Release(r) == Moves(r, "querying", "working")

\* A pool that is being closed gives no connection; the handler answers 500.
AcquireFails(r) == HasPool /\ pool # "open" /\ Moves(r, "working", "failed")

Answer(r) == Moves(r, "working", "answered")

Handle(r) ==
    \/ Arrive(r)
    \/ Acquire(r)
    \/ Release(r)
    \/ AcquireFails(r)
    \/ Answer(r)

-----------------------------------------------------------------------------

Run == ServerStarts \/ StartReturns \/ StartFails \/ MainReturns

Graceful ==
    \/ SignalCancels
    \/ GracefulBegins
    \/ ServerDrains
    \/ StopReturns
    \/ TimeoutPasses
    \/ GracefulCloses
    \/ GracefulEnds

Next == Run \/ Graceful \/ Signal \/ ServerFails \/ \E r \in Requests : Handle(r)

\* The Go scheduler runs main and Graceful's goroutines, and timers fire.  How
\* long a handler takes is the affair of its client and of the database.
Spec == Init /\ [][Next]_vars /\ WF_vars(Run) /\ WF_vars(Graceful)

-----------------------------------------------------------------------------

TypeOK ==
    /\ service \in Services
    /\ main \in {"starting", "waiting", "returned", "failed"}
    /\ signals \in 0..MaxSignals
    /\ quit \in 0..1
    /\ fxDone \in BOOLEAN
    /\ appCtx \in {"live", "cancelled"}
    /\ graceful \in {"waiting", "stopping", "closing", "done"}
    /\ timedOut \in BOOLEAN
    /\ server \in {"new", "serving", "draining"}
    /\ stopCall \in {"none", "called", "draining", "returned"}
    /\ pool \in {"open", "closing", "closed"}
    /\ request \in [Requests ->
           {"none", "working", "querying", "answered", "failed", "cut"}]

\* Where Graceful stops the server, the pool outlives its handlers: it is taken
\* away from one that is running only when the timeout has passed.
PoolOutlivesHandlers ==
    [][pool = "open" /\ pool' # "open" /\ "http" \in ServersToStop
         => Handling = {} \/ timedOut]_vars

\* What is left of a service when Graceful has stopped what it stops: the agent
\* takes no new requests, and the pool is closed unless a handler keeps a
\* connection for ever.
StoppedByGraceful ==
    /\ appCtx = "cancelled"
    /\ "http" \in ServersToStop => server = "draining"
    /\ pool = "closed" \/ Querying # {}

\* No signal goes unnoticed, whenever it comes: the process ends, or Graceful
\* alone got the signal, before fx listened, and has stopped what it stops.  In
\* the orchestrator and the worker that is no server (SignalStopsService), and
\* in none of the three does it end the process.
SignalIsHeeded == signals > 0 ~> [](~Alive \/ StoppedByGraceful)

\* Every service has a GRACEFUL_TIMEOUT for its orderly end (README.md:304), and
\* Graceful logs that all servers are stopped when it closes the pool
\* (internal/pkg/shutdown/shutdown.go:69): after a signal a service takes no
\* more requests.
SignalStopsService == signals > 0 ~> ~Alive \/ server # "serving"

\* GRACEFUL_TIMEOUT is the time services get to end correctly: a request that
\* was accepted is cut off by a process that ends in order only when it has
\* passed.
CutOnlyAfterTimeout ==
    \A r \in Requests : main = "returned" /\ request[r] = "cut" => timedOut
==============================================================================

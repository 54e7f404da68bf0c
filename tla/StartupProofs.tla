---------------------------- MODULE StartupProofs ----------------------------
(***************************************************************************)
(* What ShutdownProofs shows of a process from the moment on that Graceful *)
(* listens holds of it from main on; and a service serves only the         *)
(* database that it should, for any environments, files and requests.      *)
(***************************************************************************)
EXTENDS Startup, ShutdownProofs

\* The steps Shutdown does not know: those before Invoke, which may end the
\* process, and the signals that nothing listens to.
Unknown ==
    /\ UNCHANGED <<service, graceful, timedOut, server, stopCall, pool>>
    /\ Handling' = {} \/ request' = request

\* Every step of a process is a step of Shutdown or leaves its servers, its
\* pool and Graceful alone.
LEMMA ProcessStep ==
    ASSUME [ProcessNext]_processVars
    PROVE  [Next]_vars \/ Unknown
<1>1. CASE Boot \/ DatabaseStarts
  <2>1. CASE LoadFails \/ ProvideFails \/ NoPool
    <3>1. Handling' = {}
      BY <2>1, ExitEndsHandlers DEF LoadFails, ProvideFails, NoPool, Abort
    <3> QED BY <2>1, <3>1 DEF LoadFails, ProvideFails, NoPool, Abort, Unknown
  <2>2. CASE ~(LoadFails \/ ProvideFails \/ NoPool)
    <3>1. UNCHANGED vars
      BY <1>1, <2>2 DEF Boot, LoadForLogger, LoadForDI, PingAnswered, PingFails,
         PauseEnds, Invoke, GracefulListens, DatabaseStarts, Proceed
    <3> QED BY <3>1
  <2> QED BY <2>1, <2>2
<1>2. CASE InvokeFails
  <2>1. Handling' = {}
    BY <1>2, ExitEndsHandlers DEF InvokeFails, Abort
  <2> QED BY <1>2, <2>1 DEF InvokeFails, Abort, Unknown
<1>3. CASE Started(Served)
  BY <1>3 DEF Started, Served, Next
<1>4. CASE Started(listening /\ Signal)
  BY <1>4 DEF Started, Next
<1>5. CASE SignalUnheard
  <2>1. Handling' = {} \/ request' = request
    BY <1>5, ExitEndsHandlers DEF SignalUnheard
  <2> QED BY <1>5, <2>1 DEF SignalUnheard, Unknown
<1>6. CASE UNCHANGED processVars
  BY <1>6 DEF processVars
<1> QED BY <1>1, <1>2, <1>3, <1>4, <1>5, <1>6 DEF ProcessNext

\* The unknown steps keep what Graceful has established.
LEMMA UnknownKeepsDrainInv ==
    ASSUME DrainInv, Unknown
    PROVE  DrainInv'
<1>1. Handling' = {} \/ Handling' = Handling
  BY DEF Unknown, Handling
<1> QED BY <1>1 DEF DrainInv, Unknown

\* A server that was stopped has no handler left or has run out of time, in
\* every process from its start on.
THEOREM ProcessDrainTheorem ==
    ProcessSpec => []DrainInv
<1>1. ProcessInit => DrainInv
  BY DrainInit DEF ProcessInit
<1>2. DrainInv /\ [ProcessNext]_processVars => DrainInv'
  BY ProcessStep, DrainStep, UnknownKeepsDrainInv
<1> QED BY <1>1, <1>2, PTL DEF ProcessSpec

\* Whatever happens while it starts, a process whose server Graceful stops
\* loses its pool when no handler runs, or when the timeout has passed.
THEOREM ProcessPoolTheorem ==
    ProcessSpec => PoolOutlivesHandlers
<1>1. ASSUME DrainInv, [ProcessNext]_processVars
      PROVE  [pool = "open" /\ pool' # "open" /\ "http" \in ServersToStop
                => Handling = {} \/ timedOut]_vars
  <2>1. CASE [Next]_vars
    BY <1>1, <2>1, PoolStep
  <2>2. CASE Unknown
    BY <2>2 DEF Unknown
  <2> QED BY <1>1, <2>1, <2>2, ProcessStep
<1>2. ProcessSpec => []DrainInv
  BY ProcessDrainTheorem
<1> QED BY <1>1, <1>2, PTL DEF ProcessSpec, PoolOutlivesHandlers

-----------------------------------------------------------------------------

\* What is known of the database and of the DSN at each point of Run.
DatabaseInv ==
    /\ service \in Services
    /\ boot \in {"load", "provide", "ping", "pause", "listen", "invoked"}
    /\ boot \notin {"load", "provide"} /\ HasPool =>
          (config.test => config.dsn = "env")
    /\ boot \in {"listen", "invoked"} /\ HasPool => database = "answers"
    /\ server # "new" => boot = "invoked"

\* Load refuses, in a test, a DSN that is not of the environment.
LEMMA LoadedDSN ==
    ASSUME service \in Services, HasPool, Loads, env["APP_ENV"] = "test"
    PROVE  Source("POSTGRES_DSN") = "env"
BY ServicesAssumption DEF HasPool, Loads, AgentAccepts, OrchestratorAccepts, Given

\* Every step of a process keeps DatabaseInv: what Load has checked is what the
\* pool is made with, and no way leads past the pings to a server.
LEMMA DatabaseStep ==
    ASSUME DatabaseInv, [ProcessNext]_processVars
    PROVE  DatabaseInv'
<1> USE DEF DatabaseInv
<1>1. CASE LoadForLogger
  BY <1>1 DEF LoadForLogger, Proceed, vars, HasPool
<1>2. CASE LoadForDI
  <2>1. /\ boot' \in {"ping", "listen"}
        /\ HasPool => boot' = "ping"
        /\ UNCHANGED <<service, server, database>>
        /\ server = "new"
    BY <1>2 DEF LoadForDI, vars
  <2>2. HasPool => (config'.test => config'.dsn = "env")
    BY <1>2, LoadedDSN DEF LoadForDI
  <2> QED BY <2>1, <2>2 DEF HasPool
<1>3. CASE PingAnswered
  BY <1>3 DEF PingAnswered, Proceed, vars, HasPool
<1>4. CASE PingFails
  BY <1>4 DEF PingFails, Proceed, vars, HasPool
<1>5. CASE PauseEnds
  BY <1>5 DEF PauseEnds, Proceed, vars, HasPool
<1>6. CASE Invoke
  BY <1>6 DEF Invoke, Proceed, vars, HasPool
<1>7. CASE GracefulListens
  BY <1>7 DEF GracefulListens, vars, HasPool
<1>8. CASE LoadFails \/ ProvideFails \/ NoPool \/ InvokeFails
  BY <1>8 DEF LoadFails, ProvideFails, NoPool, InvokeFails, Abort, bootVars, HasPool
<1>9. CASE Started(Served) \/ Started(listening /\ Signal)
  <2>1. service' = service
    BY <1>9 DEF Started, Served, Run, Graceful, ServerStarts, StartReturns,
       StartFails, MainReturns, ServerFails, Signal, SignalCancels, GracefulBegins,
       ServerDrains, StopReturns, TimeoutPasses, GracefulCloses, GracefulEnds,
       Handle, Arrive, Acquire, Release, AcquireFails, Answer, Moves
  <2> QED BY <1>9, <2>1 DEF Started, bootVars, HasPool
<1>10. CASE SignalUnheard
  BY <1>10 DEF SignalUnheard, bootVars, HasPool
<1>11. CASE DatabaseStarts
  BY <1>11 DEF DatabaseStarts, vars, HasPool
<1>12. CASE UNCHANGED processVars
  BY <1>12 DEF processVars, vars, bootVars, HasPool
<1> QED
  BY <1>1, <1>2, <1>3, <1>4, <1>5, <1>6, <1>7, <1>8, <1>9, <1>10, <1>11, <1>12
     DEF ProcessNext, Boot

\* A service serves only when its database has answered, and a test only with a
\* database that its environment names.
THEOREM DatabaseTheorem ==
    ProcessSpec => []ServesItsDatabase
<1>1. ProcessInit => DatabaseInv
  BY DEF ProcessInit, Init, DatabaseInv
<1>2. DatabaseInv /\ [ProcessNext]_processVars => DatabaseInv'
  BY DatabaseStep
<1>3. DatabaseInv => ServesItsDatabase
  BY DEF DatabaseInv, ServesItsDatabase
<1> QED BY <1>1, <1>2, <1>3, PTL DEF ProcessSpec

-----------------------------------------------------------------------------
\* Types

\* What ProcessTypeOK adds to TypeOK.
BootTypes ==
    /\ boot \in {"load", "provide", "ping", "pause", "listen", "invoked"}
    /\ config \in [test : BOOLEAN, dsn : {"none", "env", "file", "default"}]
    /\ attempt \in 1..MaxPingAttempts
    /\ database \in {"answers", "refuses", "hangs"}
    /\ listening \in BOOLEAN

\* Every step of a process keeps the types of what was there before Graceful
\* listens, and of the rest.
LEMMA ProcessTypeStep ==
    ASSUME TypeOK, BootTypes, [ProcessNext]_processVars
    PROVE  TypeOK' /\ BootTypes'
<1>0. Flags /\ request \in [Requests -> RequestPoints]
  BY TypeParts
<1>1. CASE UNCHANGED vars
  <2>1. TypeOK'
    BY <1>1 DEF vars, TypeOK
  <2>2. UNCHANGED main
    BY <1>1 DEF vars
  <2>3. CASE LoadForDI
    <3>1. config' \in [test : BOOLEAN, dsn : {"none", "env", "file", "default"}]
      BY <2>3 DEF LoadForDI, Source
    <3> QED BY <2>1, <2>3, <3>1 DEF LoadForDI, BootTypes
  <2>4. CASE PauseEnds
    <3>1. attempt + 1 \in 1..MaxPingAttempts
      BY <2>4 DEF PauseEnds, BootTypes, MaxPingAttempts
    <3> QED BY <2>1, <2>4, <3>1 DEF PauseEnds, Proceed, BootTypes
  <2>5. CASE LoadForLogger \/ PingAnswered \/ PingFails \/ Invoke
    BY <2>1, <2>5 DEF LoadForLogger, PingAnswered, PingFails, Invoke, Proceed, BootTypes
  <2>6. CASE GracefulListens \/ DatabaseStarts
    BY <2>1, <2>6 DEF GracefulListens, DatabaseStarts, BootTypes
  <2>7. CASE UNCHANGED bootVars
    BY <2>1, <2>7 DEF bootVars, BootTypes
  <2>8. CASE LoadFails \/ ProvideFails \/ NoPool \/ InvokeFails \/ SignalUnheard
    BY <2>7, <2>8 DEF LoadFails, ProvideFails, NoPool, InvokeFails, SignalUnheard,
       Abort, bootVars
  <2>9. CASE Started(Served) \/ Started(listening /\ Signal) \/ UNCHANGED processVars
    BY <2>7, <2>9 DEF Started, processVars
  <2> QED BY <2>3, <2>4, <2>5, <2>6, <2>8, <2>9 DEF ProcessNext, Boot
<1>2. CASE LoadFails \/ ProvideFails \/ NoPool \/ InvokeFails
  <2>1. /\ Exit("failed")
        /\ UNCHANGED <<service, signals, quit, fxDone, appCtx, graceful, timedOut,
                       server, stopCall, pool, bootVars>>
    BY <1>2 DEF LoadFails, ProvideFails, NoPool, InvokeFails, Abort
  <2>2. main' = "failed" /\ request' \in [Requests -> RequestPoints]
    BY <1>0, <2>1, ExitTypes
  <2> QED BY <2>1, <2>2 DEF TypeOK, bootVars, BootTypes, RequestPoints
<1>3. CASE SignalUnheard
  <2>1. signals' \in 0..MaxSignals /\ fxDone' \in BOOLEAN
    <3>1. signals' \in 0..MaxSignals
      BY <1>0, <1>3, MaxSignalsAssumption DEF SignalUnheard, Flags
    <3>2. fxDone' = TRUE \/ fxDone' = fxDone
      BY <1>3 DEF SignalUnheard
    <3> QED BY <1>0, <3>1, <3>2 DEF Flags
  <2>2. /\ main' \in {"waiting", "failed"} \/ main' = main
        /\ request' \in [Requests -> RequestPoints]
    BY <1>0, <1>3, ExitTypes DEF SignalUnheard
  <2>3. UNCHANGED <<service, quit, appCtx, graceful, timedOut, server, stopCall,
                    pool, bootVars>>
    BY <1>3 DEF SignalUnheard
  <2> QED BY <2>1, <2>2, <2>3 DEF TypeOK, bootVars, BootTypes, RequestPoints
<1>4. CASE Started(Served) \/ Started(listening /\ Signal)
  <2>1. Next /\ UNCHANGED bootVars
    BY <1>4 DEF Started, Served, Next
  <2> QED BY <2>1, TypeStep DEF bootVars, BootTypes
<1>5. CASE LoadForLogger \/ LoadForDI \/ PingAnswered \/ PingFails \/ PauseEnds \/ Invoke
           \/ GracefulListens \/ DatabaseStarts \/ UNCHANGED processVars
  <2>1. UNCHANGED vars
    BY <1>5 DEF LoadForLogger, LoadForDI, PingAnswered, PingFails, PauseEnds, Invoke,
       GracefulListens, DatabaseStarts, Proceed, processVars
  <2> QED BY <1>1, <2>1
<1> QED BY <1>2, <1>3, <1>4, <1>5 DEF ProcessNext, Boot

\* The types of a process, from main to its end: no ping after the fifth, and
\* no more signals in Graceful's channel than it holds.
THEOREM ProcessTypeTheorem ==
    ProcessSpec => []ProcessTypeOK
<1>1. ProcessInit => TypeOK /\ BootTypes
  <2> SUFFICES ASSUME ProcessInit PROVE TypeOK /\ BootTypes
    OBVIOUS
  <2>1. attempt \in 1..MaxPingAttempts
    BY DEF ProcessInit, MaxPingAttempts
  <2>2. config \in [test : BOOLEAN, dsn : {"none", "env", "file", "default"}]
    BY DEF ProcessInit, NoConfig
  <2> QED BY <2>1, <2>2, TypeInit DEF ProcessInit, BootTypes
<1>2. TypeOK /\ BootTypes /\ [ProcessNext]_processVars => TypeOK' /\ BootTypes'
  BY ProcessTypeStep
<1>3. TypeOK /\ BootTypes => ProcessTypeOK
  BY DEF ProcessTypeOK, BootTypes
<1> QED BY <1>1, <1>2, <1>3, PTL DEF ProcessSpec
==============================================================================

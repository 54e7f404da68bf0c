---------------------------- MODULE ShutdownProofs ----------------------------
(***************************************************************************)
(* That the pool of a service whose server Graceful stops outlives its     *)
(* handlers, for any requests and any number of signals.                   *)
(***************************************************************************)
EXTENDS Shutdown, TLAPS

\* What Graceful's goroutines have established before the pool is closed.
DrainInv ==
    /\ service \in Services
    /\ pool = "open" /\ service = "agent" => graceful \in {"waiting", "stopping"}
    /\ graceful = "stopping" /\ service = "agent" => stopCall # "none"
    /\ stopCall \in {"draining", "returned"} => server = "draining"
    /\ stopCall = "returned" => Handling = {} \/ timedOut

\* Of the three services only the agent registers a server as "http".
LEMMA OnlyTheAgent ==
    ASSUME service \in Services
    PROVE  "http" \in ServersToStop <=> service = "agent"
BY ServicesAssumption DEF ServersToStop, AgentServers, OrchestratorServers,
   WorkerServers

\* A process starts with nothing stopped.
LEMMA DrainInit ==
    ASSUME Init
    PROVE  DrainInv
BY DEF Init, DrainInv

\* A process that ends leaves no handler running.
LEMMA ExitEndsHandlers ==
    ASSUME NEW how, Exit(how)
    PROVE  Handling' = {}
BY DEF Exit, Handling

\* Every step keeps DrainInv.  The step that matters is the arrival of a
\* request: it needs a server that is serving, and so none arrives between
\* the return of Shutdown and the close of the pool.
LEMMA DrainStep ==
    ASSUME DrainInv, [Next]_vars
    PROVE  DrainInv'
<1> USE DEF DrainInv
<1>1. CASE ServerStarts
  BY <1>1 DEF ServerStarts, Handling
<1>2. CASE StartReturns
  BY <1>2 DEF StartReturns, Handling
<1>3. CASE StartFails \/ MainReturns \/ ServerFails
  <2>1. Handling' = {}
    BY <1>3, ExitEndsHandlers DEF StartFails, MainReturns, ServerFails
  <2> QED BY <1>3, <2>1 DEF StartFails, MainReturns, ServerFails
<1>4. CASE Signal
  BY <1>4 DEF Signal, Handling
<1>5. CASE SignalCancels
  BY <1>5 DEF SignalCancels, Handling
<1>6. CASE GracefulBegins
  BY <1>6, OnlyTheAgent DEF GracefulBegins, Handling
<1>7. CASE ServerDrains
  BY <1>7 DEF ServerDrains, Handling
<1>8. CASE StopReturns
  BY <1>8 DEF StopReturns, Handling
<1>9. CASE TimeoutPasses
  BY <1>9 DEF TimeoutPasses, Handling
<1>10. CASE GracefulCloses
  BY <1>10 DEF GracefulCloses, Handling
<1>11. CASE GracefulEnds
  BY <1>11 DEF GracefulEnds, Handling
<1>12. ASSUME NEW r \in Requests, Handle(r)
       PROVE  DrainInv'
  <2>1. UNCHANGED <<service, graceful, timedOut, server, stopCall, pool>>
    BY <1>12 DEF Handle, Arrive, Acquire, Release, AcquireFails, Answer, Moves
  <2>2. CASE Arrive(r)
    BY <2>1, <2>2 DEF Arrive
  <2>3. CASE ~Arrive(r)
    <3>1. r \in Handling
      BY <1>12, <2>3 DEF Handle, Acquire, Release, AcquireFails, Answer, Moves,
         Handling
    <3> QED BY <2>1, <3>1
  <2> QED BY <2>2, <2>3
<1>13. CASE UNCHANGED vars
  BY <1>13 DEF vars, Handling
<1> QED
  BY <1>1, <1>2, <1>3, <1>4, <1>5, <1>6, <1>7, <1>8, <1>9, <1>10, <1>11, <1>12,
     <1>13 DEF Next, Run, Graceful

\* DrainInv is inductive: whatever is cut off, drained or late, a server that
\* was stopped has no handler left or has run out of time.
THEOREM DrainTheorem ==
    Spec => []DrainInv
<1>1. Init => DrainInv
  BY DrainInit
<1>2. DrainInv /\ [Next]_vars => DrainInv'
  BY DrainStep
<1> QED BY <1>1, <1>2, PTL DEF Spec

\* No step from a state in which DrainInv holds takes the pool away from a
\* handler before its time.
LEMMA PoolStep ==
    ASSUME DrainInv, [Next]_vars, pool = "open", pool' # "open",
           "http" \in ServersToStop
    PROVE  Handling = {} \/ timedOut
<1>1. service = "agent"
  BY OnlyTheAgent DEF DrainInv
<1>2. CASE GracefulCloses
  BY <1>1, <1>2 DEF GracefulCloses, AllServersStopped, DrainInv
<1>3. CASE GracefulEnds
  BY <1>1, <1>3 DEF GracefulEnds, DrainInv
<1>4. CASE ~GracefulCloses /\ ~GracefulEnds
  <2>1. pool' = pool
    BY <1>4 DEF Next, Run, Graceful, vars, ServerStarts, StartReturns,
       StartFails, MainReturns, ServerFails, Signal, SignalCancels, GracefulBegins,
       ServerDrains, StopReturns, TimeoutPasses, Handle, Arrive, Acquire,
       Release, AcquireFails, Answer, Moves
  <2> QED BY <2>1
<1> QED BY <1>2, <1>3, <1>4

\* Graceful closes the pool of a service whose server it stops when no handler
\* runs, or when the timeout has passed.
THEOREM PoolTheorem ==
    Spec => PoolOutlivesHandlers
<1>1. ASSUME DrainInv, [Next]_vars
      PROVE  [pool = "open" /\ pool' # "open" /\ "http" \in ServersToStop
                => Handling = {} \/ timedOut]_vars
  BY <1>1, PoolStep
<1>2. Spec => []DrainInv
  BY DrainTheorem
<1> QED BY <1>1, <1>2, PTL DEF Spec, PoolOutlivesHandlers

-----------------------------------------------------------------------------
\* Types

\* What TypeOK says of everything but the requests.
Flags ==
    /\ service \in Services
    /\ main \in {"starting", "waiting", "returned", "failed"}
    /\ signals \in 0..MaxSignals
    /\ quit \in 0..1
    /\ fxDone \in BOOLEAN
    /\ appCtx \in {"live", "cancelled"}
    /\ graceful \in {"waiting", "stopping", "closing", "done"}
    /\ timedOut \in BOOLEAN
    /\ server \in {"new", "serving", "draining"}
    /\ stopCall \in {"none", "called", "draining", "returned"}
    /\ pool \in {"open", "closing", "closed"}

RequestPoints == {"none", "working", "querying", "answered", "failed", "cut"}

\* TypeOK, in its two parts.
LEMMA TypeParts == TypeOK <=> Flags /\ request \in [Requests -> RequestPoints]
BY DEF TypeOK, Flags, RequestPoints

\* A process that ends, how it ends and what becomes of its handlers.
LEMMA ExitTypes ==
    ASSUME request \in [Requests -> RequestPoints], NEW how, Exit(how)
    PROVE  main' = how /\ request' \in [Requests -> RequestPoints]
BY DEF Exit, RequestPoints

\* The types of a process that has just been started.
LEMMA TypeInit ==
    ASSUME Init
    PROVE  TypeOK
<1>1. signals \in 0..MaxSignals /\ quit \in 0..1
  BY MaxSignalsAssumption DEF Init
<1>2. request \in [Requests -> RequestPoints]
  BY DEF Init, RequestPoints
<1> QED BY <1>1, <1>2 DEF Init, TypeOK, RequestPoints

\* Every step keeps the types: a signal that finds the channel full is dropped.
LEMMA TypeStep ==
    ASSUME TypeOK, [Next]_vars
    PROVE  TypeOK'
<1>0. Flags /\ request \in [Requests -> RequestPoints]
  BY TypeParts
<1>1. CASE StartFails \/ MainReturns \/ ServerFails
  <2>1. main' \in {"returned", "failed"} /\ request' \in [Requests -> RequestPoints]
    BY <1>0, <1>1, ExitTypes DEF StartFails, MainReturns, ServerFails
  <2>2. Flags'
    BY <1>0, <1>1, <2>1 DEF StartFails, MainReturns, ServerFails, Flags
  <2> QED BY <2>1, <2>2, TypeParts DEF TypeOK, Flags, RequestPoints
<1>2. ASSUME NEW r \in Requests, Handle(r) PROVE TypeOK'
  BY <1>2 DEF TypeOK, Handle, Arrive, Acquire, Release, AcquireFails, Answer, Moves
<1>3. CASE Signal
  <2>1. signals + 1 \in 0..MaxSignals /\ Notified(quit) \in 0..1
    BY <1>0, <1>3, MaxSignalsAssumption DEF Signal, Flags, Notified
  <2> QED BY <1>0, <1>3, <2>1 DEF Signal, Flags, TypeOK, RequestPoints
<1>4. CASE SignalCancels
  <2>1. quit - 1 \in 0..1
    BY <1>0, <1>4 DEF SignalCancels, Flags
  <2> QED BY <1>0, <1>4, <2>1 DEF SignalCancels, Flags, TypeOK, RequestPoints
<1>5. CASE ServerStarts \/ StartReturns
  BY <1>5 DEF ServerStarts, StartReturns, TypeOK
<1>6. CASE GracefulBegins \/ ServerDrains \/ StopReturns \/ TimeoutPasses
  BY <1>6 DEF GracefulBegins, ServerDrains, StopReturns, TimeoutPasses, TypeOK
<1>7. CASE GracefulCloses \/ GracefulEnds
  BY <1>7 DEF GracefulCloses, GracefulEnds, TypeOK
<1>8. CASE UNCHANGED vars
  BY <1>8 DEF vars, TypeOK
<1> QED BY <1>1, <1>2, <1>3, <1>4, <1>5, <1>6, <1>7, <1>8 DEF Next, Run, Graceful
==============================================================================

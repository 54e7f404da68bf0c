------------------------------- MODULE Worker -------------------------------
(***************************************************************************)
(* The worker: the gRPC handler CalculateOperation and the service         *)
(* Calculate it calls, which works out the result first and then waits out *)
(* the configured delay, unless the caller's context ends before.          *)
(*                                                                         *)
(* Handlers run concurrently and share nothing; an operation id names the  *)
(* call.  Evaluator.tla composes this module with the code that calls it.  *)
(***************************************************************************)
EXTENDS Floats

CONSTANT Ids    \* operation ids

VARIABLES
    request,    \* [Ids -> what the call asks for]
    handler,    \* [Ids -> where the call's handler is]
    response,   \* [Ids -> what the handler returned]
    gone        \* the calls whose context has ended

workerVars == <<request, handler, response, gone>>

NoRequest == [symbol |-> "", a |-> Zero, b |-> Zero]

NoResponse == [code |-> "none", result |-> Zero]

\* Mutant: the errors of Calculate are not told apart from internal ones.
RefusalAsInternal == [code |-> "Internal", result |-> Zero]

\* codes.InvalidArgument; gRPC drops the response that goes with an error.
Refusal == [code |-> "InvalidArgument", result |-> Zero]

\* codes.DeadlineExceeded, for a cancelled and for an expired context alike.
Cancellation == [code |-> "DeadlineExceeded", result |-> Zero]

WorkerInit ==
    /\ request = [i \in Ids |-> NoRequest]
    /\ handler = [i \in Ids |-> "none"]
    /\ response = [i \in Ids |-> NoResponse]
    /\ gone = {}

-----------------------------------------------------------------------------
\* Calculate

Symbols == {"+", "-", "*", "/", "^", "neg"}

\* ErrUnknownOperator.
Known(symbol) == symbol \in Symbols

\* Mutant: no test of the divisor.
DividesByZeroUntested(symbol, b) == FALSE

\* ErrDivisionByZero.
DividesByZero(symbol, b) == symbol = "/" /\ b = Zero

Computed(symbol, a, b) ==
    CASE symbol = "+"   -> Sum2(a, b)
      [] symbol = "-"   -> Difference(a, b)
      [] symbol = "*"   -> Product2(a, b)
      [] symbol = "/"   -> Quotient(a, b)
      [] symbol = "^"   -> Power(a, b)
      [] symbol = "neg" -> Negated(a)

-----------------------------------------------------------------------------
\* CalculateOperation

Respond(i, r) ==
    /\ handler' = [handler EXCEPT ![i] = "done"]
    /\ response' = [response EXCEPT ![i] = r]

\* The symbol is empty or unknown, or the divisor is zero: InvalidArgument, at
\* once, even for a caller that has gone.
Refuse(i) ==
    /\ handler[i] = "received"
    /\ \/ ~Known(request[i].symbol)
       \/ DividesByZero(request[i].symbol, request[i].b)
    /\ Respond(i, Refusal)
    /\ UNCHANGED <<request, gone>>

Calculate(i) ==
    /\ handler[i] = "received"
    /\ Known(request[i].symbol)
    /\ ~DividesByZero(request[i].symbol, request[i].b)
    /\ handler' = [handler EXCEPT ![i] = "delay"]
    /\ UNCHANGED <<request, response, gone>>

\* case <-time.After(delay)
DelayEnds(i) ==
    /\ handler[i] = "delay"
    /\ LET q == request[i]
       IN  Respond(i, [code |-> "OK", result |-> Computed(q.symbol, q.a, q.b)])
    /\ UNCHANGED <<request, gone>>

\* case <-ctx.Done()
Cancelled(i) ==
    /\ handler[i] = "delay"
    /\ i \in gone
    /\ Respond(i, Cancellation)
    /\ UNCHANGED <<request, gone>>

WorkerStep(i) == Refuse(i) \/ Calculate(i) \/ DelayEnds(i) \/ Cancelled(i)

-----------------------------------------------------------------------------
\* The caller

Receive(i, q) ==
    /\ handler[i] = "none"
    /\ request' = [request EXCEPT ![i] = q]
    /\ handler' = [handler EXCEPT ![i] = "received"]
    /\ UNCHANGED <<response, gone>>

Leave(i) ==
    /\ handler[i] # "none"
    /\ i \notin gone
    /\ gone' = gone \cup {i}
    /\ UNCHANGED <<request, handler, response>>

Requests == [symbol : Symbols \cup {"", "%"}, a : Float, b : Float]

-----------------------------------------------------------------------------

Codes == {"none", "OK", "InvalidArgument", "DeadlineExceeded"}

WorkerTypeOK ==
    /\ request \in [Ids -> Requests]
    /\ handler \in [Ids -> {"none", "received", "delay", "done"}]
    /\ response \in [Ids -> [code : Codes, result : Float]]
    /\ gone \subseteq Ids

\* Finite numbers make NaN in one way only, by a negative number to a power
\* that is not whole: a zero divisor, of either sign and of every dividend, is
\* refused before 0/0 can be, and no overflow on the way to a power meets a
\* zero.  The orchestrator tests the root value and no other for NaN.
NaNOnlyOfRoots ==
    \A i \in Ids :
        LET q == request[i] IN
        {q.a, q.b} \subseteq Finites /\ response[i].result = NaN
            => q.symbol = "^" /\ SignOf(q.a) < 0 /\ ~Whole(q.b)
==============================================================================

---------------------------- MODULE ServiceProofs ----------------------------
(***************************************************************************)
(* Proofs about Service: with the evaluator and the worker in its place,   *)
(* the way of a submission is one of Orchestrator, so that every safety    *)
(* theorem of OrchestratorProofs is one of the two servers together.       *)
(*                                                                         *)
(* The invariant of the composition says which of the two owns a state:    *)
(* before the goroutine calls Evaluate nothing has been asked, while it    *)
(* waits EvaluatorProofs's invariant holds of its AST, and after a crash no *)
(* call of Evaluate is left.                                               *)
(***************************************************************************)
EXTENDS Service, OrchestratorProofs

EP == INSTANCE EvaluatorProofs WITH
    pc     <- node,
    Trees  <- {AstOf[e] : e \in DOMAIN AstOf},
    Faults <- EvalFaults

\* No call of Evaluate has been made.
Unbegun ==
    /\ EP!WorkerInit
    /\ ctxEnded = FALSE
    /\ node = [n \in Ids |-> "idle"]
    /\ ret = [n \in Ids |-> EP!NotYet]
    /\ errChan = [n \in Ids |-> <<>>]

\* No call of Evaluate is left.
NobodyEvaluates == \A n \in Ids : node[n] = "idle"

\* The goroutine has been given, or will be, the AST of its expression.
HasTree(t) == tree = AstOf[req[t].expr]

\* What the evaluation is like at each point of the submission's code.
StageInv(t) ==
    /\ pc[t] \in {"idle", "insert", "closed", "start", "fail_start"} => Unbegun
    /\ pc[t] \in {"insert", "start", "fail_start", "eval", "save_error", "save_result"}
         => HasTree(t)
    /\ pc[t] \in {"eval", "save_error", "save_result"} => EP!EvaluatorInv

\* Until the goroutine has ended, deadlines pass and connections fail by the
\* faults of an evaluation.
FaultInv(t) ==
    pc[t] \notin {"done", "dead"} /\ (ctxEnded \/ gone # {}) => EvalFaults # {}

\* Only an operation that was asked of the worker can be given up.
GoneInv ==
    /\ handler \in [Ids -> {"none", "received", "delay", "done"}]
    /\ \A n \in gone : n \in Ids /\ handler[n] # "none"

EvaluationInv ==
    /\ GoneInv
    /\ NobodyEvaluates \/ EP!EvaluatorInv
    /\ \A t \in Tasks : StageInv(t) /\ FaultInv(t)
-----------------------------------------------------------------------------
\* The evaluator's theorems here: E is the module EP is about.

\* The floats of the two instances.
LEMMA SameFloats ==
    \A s, a, b : E!Computed(s, a, b) = EP!Computed(s, a, b)
<1> USE DEF E!Finite, EP!Finite, E!PInf, EP!PInf, E!NInf, EP!NInf, E!NaN, EP!NaN,
            E!Zero, EP!Zero, E!One, EP!One
<1>1. /\ \A n : E!Rounded(n) = EP!Rounded(n)
      /\ \A n : E!Abs(n) = EP!Abs(n)
      /\ \A n : E!Infinity(n) = EP!Infinity(n)
      /\ \A x : E!SignOf(x) = EP!SignOf(x)
      /\ \A x : E!Negated(x) = EP!Negated(x)
      /\ \A x : E!Infinite(x) = EP!Infinite(x)
      /\ \A x : E!Whole(x) = EP!Whole(x)
      /\ \A x : E!Odd(x) = EP!Odd(x)
      /\ \A x : E!Sqrt(x) = EP!Sqrt(x)
  BY DEF E!Rounded, EP!Rounded, E!Abs, EP!Abs, E!Infinity, EP!Infinity, E!SignOf,
     EP!SignOf, E!Negated, EP!Negated, E!Infinite, EP!Infinite, E!Whole,
     EP!Whole, E!Odd, EP!Odd, E!Sqrt, EP!Sqrt
<1>2. \A a, b : E!Sum2(a, b) = EP!Sum2(a, b)
  BY <1>1 DEF E!Sum2, EP!Sum2
<1>3. \A a, b : E!Difference(a, b) = EP!Difference(a, b)
  BY <1>1, <1>2 DEF E!Difference, EP!Difference
<1>4. \A a, b : E!Product2(a, b) = EP!Product2(a, b)
  BY <1>1 DEF E!Product2, EP!Product2
<1>5. \A a, b : E!Quotient(a, b) = EP!Quotient(a, b)
  BY <1>1 DEF E!Quotient, EP!Quotient
<1>6. \A x : E!Small(x) = EP!Small(x)
  BY <1>1 DEF E!Small, EP!Small
<1>7. \A x, k : E!Raised(x, k) = EP!Raised(x, k)
  BY DEF E!Raised, EP!Raised, E!Product2, EP!Product2, E!Infinite, EP!Infinite,
     E!Infinity, EP!Infinity, E!SignOf, EP!SignOf, E!Abs, EP!Abs, E!Rounded,
     EP!Rounded
<1>8. \A x, k : E!RaisedToHalves(x, k) = EP!RaisedToHalves(x, k)
  BY <1>1, <1>4, <1>7 DEF E!RaisedToHalves, EP!RaisedToHalves
<1>9. \A a, b : E!PowerOfFinites(a, b) = EP!PowerOfFinites(a, b)
  BY <1>1, <1>5, <1>6, <1>8 DEF E!PowerOfFinites, EP!PowerOfFinites
<1>10. \A a, b : E!Power(a, b) = EP!Power(a, b)
  BY <1>1, <1>6, <1>9 DEF E!Power, EP!Power
<1> QED
  BY <1>1, <1>2, <1>3, <1>4, <1>5, <1>10 DEF E!Computed, EP!Computed

\* What an AST means is the same in both.
LEMMA SameMeaning ==
    ASSUME NEW tr
    PROVE  E!MeaningOf(tr) = EP!MeaningOf(tr)
<1>1. \A s, a, b : E!Meant(s, a, b) = EP!Meant(s, a, b)
  BY SameFloats DEF E!Meant, EP!Meant, E!Value, EP!Value, E!Error, EP!Error,
     E!Zero, EP!Zero, E!Finite, EP!Finite
<1>2. \A m, n : E!MeaningStep(tr, m, n) = EP!MeaningStep(tr, m, n)
  BY <1>1 DEF E!MeaningStep, EP!MeaningStep, E!Value, EP!Value, E!Error,
     EP!Error, E!NotYet, EP!NotYet, E!Zero, EP!Zero, E!Finite, EP!Finite
<1>3. \A m : m = [n \in Ids |-> E!MeaningStep(tr, m, n)]
               <=> m = [n \in Ids |-> EP!MeaningStep(tr, m, n)]
  BY <1>2
<1> QED
  BY <1>3, Zenon DEF E!MeaningOf, EP!MeaningOf

\* The evaluator's steps of the two instances.
LEMMA SameSteps ==
    ASSUME NEW n
    PROVE  /\ E!EvaluateStep(n) <=> EP!EvaluateStep(n)
           /\ E!ConnectionFails(n) <=> EP!ConnectionFails(n)
           /\ E!DeadlineReachesWorker(n) <=> EP!DeadlineReachesWorker(n)
           /\ E!ContextEnds <=> EP!ContextEnds
<1> USE DEF E!Zero, EP!Zero, E!Finite, EP!Finite, E!Value, EP!Value, E!Error,
            EP!Error, E!workerVars, EP!workerVars, E!evalVars, EP!evalVars,
            E!Return, EP!Return, E!Returned, EP!Returned, E!Failed, EP!Failed,
            E!Parents, EP!Parents, E!Operands, EP!Operands, E!OperandsIn,
            EP!OperandsIn, E!Joined, EP!Joined, E!FirstError, EP!FirstError,
            E!RequestOf, EP!RequestOf, E!Receive, EP!Receive, E!Leave, EP!Leave
<1> QED
  BY DEF E!EvaluateStep, EP!EvaluateStep, E!FindContextEnded,
         EP!FindContextEnded, E!EvaluateLeaf, EP!EvaluateLeaf, E!RefuseNode,
         EP!RefuseNode, E!EvaluateOperands, EP!EvaluateOperands,
         E!ReturnOperandError, EP!ReturnOperandError, E!RefuseUnary,
         EP!RefuseUnary, E!CallWorker, EP!CallWorker, E!ReceiveAnswer,
         EP!ReceiveAnswer, E!OperationTimesOut, EP!OperationTimesOut,
         E!ConnectionFails, EP!ConnectionFails, E!DeadlineReachesWorker,
         EP!DeadlineReachesWorker, E!ContextEnds, EP!ContextEnds

\* The worker's steps of the two instances.
LEMMA SameWorker ==
    ASSUME NEW n
    PROVE  E!WorkerActs(n) <=> EP!WorkerActs(n)
<1>1. \A s, b : E!DividesByZero(s, b) = EP!DividesByZero(s, b)
  BY DEF E!DividesByZero, EP!DividesByZero, E!Zero, EP!Zero, E!Finite, EP!Finite
<1>2. E!DelayEnds(n) <=> EP!DelayEnds(n)
  BY SameFloats DEF E!DelayEnds, EP!DelayEnds, E!Respond, EP!Respond
<1> QED
  BY <1>1, <1>2 DEF E!WorkerActs, EP!WorkerActs, E!WorkerStep, EP!WorkerStep,
     E!evalVars, EP!evalVars, E!Refuse, EP!Refuse, E!Calculate, EP!Calculate,
     E!Cancelled, EP!Cancelled, E!Respond, EP!Respond, E!Refusal, EP!Refusal,
     E!Cancellation, EP!Cancellation, E!Known, EP!Known, E!Symbols, EP!Symbols,
     E!Zero, EP!Zero, E!Finite, EP!Finite

\* A node's result, in the two instances.
LEMMA SameResult ==
    /\ E!Returned(Root) <=> EP!Returned(Root)
    /\ E!Failed(Root) <=> EP!Failed(Root)
BY DEF E!Returned, EP!Returned, E!Failed, EP!Failed

\* What Evaluator assumes of its constants.
LEMMA InstanceAssumptions ==
    /\ EP!HugeAssumption
    /\ EP!IdsAssumption
    /\ EP!TreesAssumption
    /\ EP!EvaluatorFaultsAssumption
<1>1. \A tr : E!IsTree(tr) <=> EP!IsTree(tr)
  BY DEF E!IsTree, EP!IsTree, E!Kinds, EP!Kinds, E!BinarySymbols,
         EP!BinarySymbols, E!OperandsIn, EP!OperandsIn, E!Float, EP!Float,
         E!Finites, EP!Finites, E!Finite, EP!Finite, E!PInf, EP!PInf,
         E!NInf, EP!NInf, E!NaN, EP!NaN
<1>2. EP!TreesAssumption
  BY <1>1, AstAssumption
<1>3. EP!HugeAssumption
  BY HugeAssumption
<1>4. EP!EvaluatorFaultsAssumption
  BY AstAssumption DEF E!FaultKinds, EP!FaultKinds
<1>5. EP!IdsAssumption
  BY AstAssumption DEF IsFiniteSet, EP!IsFiniteSet, Cardinality, EP!Cardinality
<1> QED
  BY <1>2, <1>3, <1>4, <1>5

\* The evaluator's invariant begins with the root's call ...
LEMMA EvaluationBegins == EP!Init => EP!EvaluatorInv
BY EP!InitInv, InstanceAssumptions

\* ... in the next state as in this one ...
LEMMA EvaluationBeginsNow == EP!Init' => EP!EvaluatorInv'
BY EvaluationBegins, PTL

\* ... and is kept by whatever happens while the goroutine waits.
LEMMA EvaluationGoesOn ==
    ASSUME EP!EvaluatorInv,
           \/ \E n \in Ids : EvaluateNode(n) \/ WorkerOrNetwork(n)
           \/ E!ContextEnds
    PROVE  EP!EvaluatorInv'
<1>1. ASSUME NEW n \in Ids, EvaluateNode(n) \/ WorkerOrNetwork(n) PROVE EP!Next
  BY <1>1, SameSteps, SameWorker DEF EvaluateNode, WorkerOrNetwork, EP!Next
<1>2. ASSUME E!ContextEnds PROVE EP!Next
  BY <1>2, SameSteps DEF EP!Next
<1>3. EP!Next
  BY <1>1, <1>2
<1> QED
  BY <1>3, EP!NextInv, InstanceAssumptions

\* It says nothing of the submission.
LEMMA EvaluationStays ==
    ASSUME EP!EvaluatorInv, UNCHANGED <<evaluation, tree>>
    PROVE  EP!EvaluatorInv'
<1>1. UNCHANGED EP!vars
  BY DEF evaluation, EP!vars, EP!workerVars, EP!evalVars
<1> QED
  BY <1>1, EP!NextInv, InstanceAssumptions
-----------------------------------------------------------------------------
\* What the goroutine is given

\* The expression of a submission that got past the handler compiles.
LEMMA TreeOfRequest ==
    ASSUME Inv, NEW t \in Tasks, pc[t] \notin {"idle", "closed"}
    PROVE  /\ req[t].expr \in DOMAIN AstOf
           /\ Denote[req[t].expr] = Outcome(E!MeaningOf(AstOf[req[t].expr])[Root])
<1>1. req[t].expr \in Exprs /\ Compiles(req[t].expr)
  BY DEF Inv, Typed, RequestInv
<1> QED
  BY <1>1, DenoteIsMeaning

\* A float64 that is stored is a number exactly when it is finite.
LEMMA StoredFloat ==
    ASSUME NEW v \in EP!Float
    PROVE  /\ Storable(Stored(v)) => Stored(v) \in Numbers
           /\ ~Storable(Stored(v)) => Stored(v) \in NonFinite
           /\ Stored(v) # "EvalError"
<1>1. CASE v \in Finites
  <2>1. Stored(v) \in Numbers
    BY <1>1, AstAssumption
  <2> QED
    BY <2>1, NumbersAssumption DEF Storable
<1>2. CASE v \notin Finites
  <2>1. v \in {EP!PInf, EP!NInf, EP!NaN}
    BY <1>2 DEF EP!Float, EP!Finites, EP!Finite, Finites, Finite
  <2>2. Stored(v) \in NonFinite
    BY <2>1 DEF EP!PInf, EP!NInf, EP!NaN, Stored, NonFinite
  <2> QED
    BY <2>2 DEF Storable, NonFinite
<1> QED
  BY <1>1, <1>2

\* What the root returns is the value of the submission's expression, or an
\* error that the expression, a deadline or a connection is to blame for.
LEMMA RootReturns ==
    ASSUME Inv, NEW t \in Tasks, pc[t] = "eval", StageInv(t), E!Returned(Root)
    PROVE  LET d == Denote[req[t].expr]
               v == Stored(ret[Root].value)
           IN /\ ~E!Failed(Root) =>
                   /\ d = v /\ v # "EvalError"
                   /\ Storable(v) => v \in Numbers
                   /\ ~Storable(v) => v \in NonFinite
              /\ E!Failed(Root) => d = "EvalError" \/ ctxEnded \/ gone # {}
<1> DEFINE d == Denote[req[t].expr]
           o == ret[Root]
<1>1. EP!EvaluatorInv /\ tree = AstOf[req[t].expr]
  BY DEF StageInv, HasTree
<1>2. d = Outcome(EP!Meaning[Root])
  BY <1>1, TreeOfRequest, SameMeaning DEF EP!Meaning
<1>3. Root \in Ids
  BY AstAssumption
<1>4. o \in EP!Outcomes /\ EP!Justified(Root, o)
  BY <1>1, <1>3, SameResult DEF EP!EvaluatorInv, EP!Typed
<1>5. ASSUME ~E!Failed(Root)
      PROVE  /\ d = Stored(o.value) /\ Stored(o.value) # "EvalError"
             /\ Storable(Stored(o.value)) => Stored(o.value) \in Numbers
             /\ ~Storable(Stored(o.value)) => Stored(o.value) \in NonFinite
  <2>1. o.error = "none"
    BY <1>5 DEF E!Failed
  <2>2. o = EP!Meaning[Root]
    BY <1>4, <2>1 DEF EP!Justified
  <2>3. d = Stored(o.value)
    BY <1>2, <2>1, <2>2 DEF Outcome
  <2>4. o.value \in EP!Float
    BY <1>4 DEF EP!Outcomes
  <2> QED
    BY <2>3, <2>4, StoredFloat
<1>6. ASSUME E!Failed(Root)
      PROVE  d = "EvalError" \/ ctxEnded \/ gone # {}
  <2>1. o.error # "none"
    BY <1>6 DEF E!Failed
  <2>2. EP!Meaning[Root].error # "none" \/ ctxEnded \/ gone # {}
    BY <1>4, <2>1 DEF EP!Outcomes, EP!Justified
  <2> QED
    BY <1>2, <2>2 DEF Outcome
<1> QED
  BY <1>5, <1>6

-----------------------------------------------------------------------------
\* The refinement

\* Nothing has happened and nothing is on its way.
LEMMA ServiceBegins == ServiceInit => Init /\ EvaluationInv
<1> SUFFICES ASSUME ServiceInit PROVE Init /\ EvaluationInv
  OBVIOUS
<1>1. Unbegun
  BY DEF ServiceInit, Unbegun, E!WorkerInit, EP!WorkerInit, E!NoRequest,
         EP!NoRequest, E!NoResponse, EP!NoResponse, E!Zero, EP!Zero, E!Finite,
         EP!Finite, E!NotYet, EP!NotYet
<1>2. Init /\ gone = {} /\ ctxEnded = FALSE /\ handler = [n \in Ids |-> "none"]
  BY DEF ServiceInit, E!WorkerInit
<1>3. \A t \in Tasks : pc[t] = "idle"
  BY <1>2 DEF Init
<1> QED
  BY <1>1, <1>2, <1>3
     DEF EvaluationInv, GoneInv, StageInv, FaultInv, Unbegun, NobodyEvaluates

\* The value that is sent to the table is the one Orchestrator sends.
LEMMA SaveResultRefines ==
    ASSUME Inv, NEW t \in Tasks, StageInv(t), SaveResult(t)
    PROVE  EvaluationSucceeds(t)
<1>1. pc[t] = "eval" /\ E!Returned(Root) /\ ~E!Failed(Root)
  BY DEF SaveResult
<1>2. /\ Denote[req[t].expr] = Stored(ret[Root].value)
      /\ Denote[req[t].expr] # "EvalError"
  BY <1>1, RootReturns
<1> QED
  BY <1>2 DEF SaveResult, EvaluationSucceeds, evaluation

\* So is the error, for a reason that Orchestrator knows.
LEMMA SaveErrorRefines ==
    ASSUME Inv, NEW t \in Tasks, StageInv(t), FaultInv(t), SaveError(t)
    PROVE  EvaluationFails(t)
<1> DEFINE d == Denote[req[t].expr]
           v == Stored(ret[Root].value)
<1>1. pc[t] = "eval" /\ E!Returned(Root)
  BY DEF SaveError
<1>2. E!Failed(Root) => d = "EvalError" \/ "eval" \in Faults
  BY <1>1, RootReturns, DenoteIsMeaning DEF FaultInv
<1>3. ~E!Failed(Root) => d = v /\ d # "EvalError"
  BY <1>1, RootReturns
<1> HIDE DEF d
<1>4. /\ Goto(t, "save_error")
      /\ \/ E!Failed(Root) /\ wire' = wire \cup {Stmt(t, "error", "not evaluated")}
         \/ /\ ~E!Failed(Root) /\ ~Storable(v)
            /\ wire' = wire \cup {Stmt(t, "error", "not finite")}
      /\ UNCHANGED <<up, req, call, row, replies>>
  BY DEF SaveError
<1>5. \/ /\ d = "EvalError" \/ "eval" \in Faults
         /\ wire' = wire \cup {Stmt(t, "error", "not evaluated")}
      \/ /\ d # "EvalError" /\ ~Storable(d)
         /\ wire' = wire \cup {Stmt(t, "error", "not finite")}
  BY <1>2, <1>3, <1>4
<1> QED
  BY <1>1, <1>4, <1>5 DEF EvaluationFails, d

\* Every step of the two servers is one of Orchestrator or a stutter.
LEMMA StepRefines ==
    ASSUME Inv, EvaluationInv, [ServiceNext]_serviceVars
    PROVE  [Next]_vars
<1>1. ASSUME NEW t \in Tasks, CompileAndCreate(t) PROVE Next
  BY <1>1 DEF CompileAndCreate, Next, Submit
<1>2. ASSUME NEW t \in Tasks, Goroutine(t) PROVE Next
  <2>1. ASSUME SaveResult(t) PROVE Next
    BY <2>1, SaveResultRefines DEF EvaluationInv, Next, Evaluate
  <2>2. ASSUME SaveError(t) PROVE Next
    BY <2>2, SaveErrorRefines DEF EvaluationInv, Next, Evaluate
  <2> QED
    BY <1>2, <2>1, <2>2 DEF Goroutine, Statements, BeginEvaluation, Next, Evaluate
<1>3. ASSUME \E t \in Tasks : MinutePasses(t) PROVE UNCHANGED vars
  BY <1>3 DEF MinutePasses
<1>4. ASSUME \E n \in Ids : EvaluateNode(n) \/ WorkerOrNetwork(n)
      PROVE  UNCHANGED vars
  BY <1>4 DEF EvaluateNode, WorkerOrNetwork
<1>5. ASSUME Elsewhere \/ Table \/ CrashWhileEvaluating PROVE Next
  BY <1>5 DEF Elsewhere, Table, CrashWhileEvaluating, Next, Submit
<1> QED
  BY <1>1, <1>2, <1>3, <1>4, <1>5 DEF ServiceNext, serviceVars, vars
-----------------------------------------------------------------------------
\* The invariant of the composition

\* Nothing of an evaluation happens before its first call.
LEMMA UnbegunWaits ==
    ASSUME Unbegun, NEW n \in Ids
    PROVE  ~EvaluateNode(n) /\ ~WorkerOrNetwork(n)
<1>1. node[n] = "idle" /\ handler[n] = "none"
  BY DEF Unbegun, EP!WorkerInit
<1>2. ~E!EvaluateStep(n)
  BY <1>1 DEF E!EvaluateStep, E!FindContextEnded, E!EvaluateLeaf, E!RefuseNode,
     E!EvaluateOperands, E!ReturnOperandError, E!RefuseUnary, E!CallWorker,
     E!ReceiveAnswer, E!OperationTimesOut
<1>3. ~E!WorkerActs(n) /\ ~E!ConnectionFails(n) /\ ~E!DeadlineReachesWorker(n)
  BY <1>1 DEF E!WorkerActs, E!WorkerStep, E!Refuse, E!Calculate, E!DelayEnds,
     E!Cancelled, E!ConnectionFails, E!DeadlineReachesWorker
<1> QED
  BY <1>2, <1>3 DEF EvaluateNode, WorkerOrNetwork

\* Where no call is left, only the worker still moves.
LEMMA OnlyTheWorkerMoves ==
    ASSUME NobodyEvaluates, NEW n \in Ids, EvaluateNode(n) \/ WorkerOrNetwork(n)
    PROVE  E!WorkerActs(n)
<1>1. node[n] = "idle"
  BY DEF NobodyEvaluates
<1>2. ~E!EvaluateStep(n)
  BY <1>1 DEF E!EvaluateStep, E!FindContextEnded, E!EvaluateLeaf, E!RefuseNode,
     E!EvaluateOperands, E!ReturnOperandError, E!RefuseUnary, E!CallWorker,
     E!ReceiveAnswer, E!OperationTimesOut
<1>3. ~E!ConnectionFails(n) /\ ~E!DeadlineReachesWorker(n)
  BY <1>1 DEF E!ConnectionFails, E!DeadlineReachesWorker
<1> QED
  BY <1>2, <1>3 DEF EvaluateNode, WorkerOrNetwork

\* What a step of the evaluation does to the worker's handlers and to their
\* contexts.
LEMMA HandlersMove ==
    ASSUME NEW n \in Ids, EvaluateNode(n) \/ WorkerOrNetwork(n)
    PROVE  /\ UNCHANGED <<tree, ctxEnded>>
           /\ \/ handler' = handler
              \/ \E h \in {"received", "delay", "done"} :
                    handler' = [handler EXCEPT ![n] = h]
           /\ \/ gone' = gone
              \/ /\ gone' = gone \cup {n} /\ handler' = handler
                 /\ node[n] = "call"
                 /\ ctxEnded \/ EvalFaults # {}
<1>1. CASE E!EvaluateStep(n)
  <2>1. CASE \/ E!FindContextEnded(n) \/ E!EvaluateLeaf(n) \/ E!RefuseNode(n)
             \/ E!EvaluateOperands(n) \/ E!ReturnOperandError(n)
             \/ E!RefuseUnary(n) \/ E!ReceiveAnswer(n)
    BY <2>1 DEF E!FindContextEnded, E!EvaluateLeaf, E!RefuseNode,
       E!EvaluateOperands, E!ReturnOperandError, E!RefuseUnary,
       E!ReceiveAnswer, E!workerVars
  <2>2. CASE E!CallWorker(n)
    BY <2>2 DEF E!CallWorker, E!Receive
  <2>3. CASE E!OperationTimesOut(n)
    BY <2>3 DEF E!OperationTimesOut
  <2> QED
    BY <1>1, <2>1, <2>2, <2>3 DEF E!EvaluateStep
<1>2. CASE E!WorkerActs(n)
  BY <1>2 DEF E!WorkerActs, E!WorkerStep, E!Refuse, E!Calculate, E!DelayEnds,
     E!Cancelled, E!Respond, E!evalVars
<1>3. CASE E!ConnectionFails(n)
  BY <1>3 DEF E!ConnectionFails
<1>4. CASE E!DeadlineReachesWorker(n)
  BY <1>4 DEF E!DeadlineReachesWorker, E!Leave, E!evalVars
<1> QED
  BY <1>1, <1>2, <1>3, <1>4 DEF EvaluateNode, WorkerOrNetwork

\* The moves of a submission that leave the evaluation alone.
Moves == {<<"idle", "closed">>, <<"insert", "closed">>, <<"insert", "start">>,
          <<"start", "fail_start">>, <<"eval", "save_error">>,
          <<"eval", "save_result">>, <<"fail_start", "done">>,
          <<"save_error", "done">>, <<"save_result", "done">>}

\* A step of the submission that does not touch the evaluation.
LEMMA SubmissionKeeps ==
    ASSUME EvaluationInv, NEW t \in Tasks, UNCHANGED <<evaluation, tree>>,
           pc'[t] = pc[t] \/ <<pc[t], pc'[t]>> \in Moves,
           req'[t] = req[t] \/ pc'[t] = "closed"
    PROVE  EvaluationInv'
<1>1. \A s \in Tasks : s = t
  BY OneSubmission
<1>2. UNCHANGED <<request, handler, response, gone, ctxEnded, node, ret, errChan>>
  BY DEF evaluation
<1>3. (Unbegun => Unbegun') /\ (NobodyEvaluates => NobodyEvaluates') /\ GoneInv'
  BY <1>2 DEF EvaluationInv, Unbegun, EP!WorkerInit, NobodyEvaluates, GoneInv
<1>4. EP!EvaluatorInv => EP!EvaluatorInv'
  BY EvaluationStays
<1>5. StageInv(t)' /\ FaultInv(t)'
  BY <1>2, <1>3, <1>4 DEF EvaluationInv, StageInv, FaultInv, HasTree, Moves
<1> QED
  BY <1>1, <1>3, <1>4, <1>5 DEF EvaluationInv
\* The INSERT is sent: the tree is that of the expression.
LEMMA CreateKeeps ==
    ASSUME EvaluationInv, Typed, NEW t \in Tasks, CompileAndCreate(t)
    PROVE  EvaluationInv'
<1>1. PICK u \in Users, e \in Exprs : CreateTask(t, u, e) /\ tree' = AstOf[e]
  BY DEF CompileAndCreate
<1>2. /\ pc[t] = "idle" /\ pc'[t] = "insert" /\ req'[t].expr = e
      /\ UNCHANGED <<request, handler, response, gone, ctxEnded, node, ret, errChan>>
  BY <1>1 DEF CompileAndCreate, CreateTask, Goto, evaluation, Typed, TypeOK
<1>3. Unbegun /\ Unbegun'
  BY <1>2 DEF EvaluationInv, StageInv, Unbegun, EP!WorkerInit
<1>4. GoneInv' /\ NobodyEvaluates'
  BY <1>2, <1>3 DEF EvaluationInv, GoneInv, NobodyEvaluates, Unbegun
<1>5. StageInv(t)' /\ FaultInv(t)'
  BY <1>1, <1>2, <1>3 DEF EvaluationInv, StageInv, FaultInv, HasTree
<1> QED
  BY <1>4, <1>5, OneSubmission DEF EvaluationInv

\* Evaluate is called for the root: the evaluation is in its initial state.
LEMMA BeginKeeps ==
    ASSUME EvaluationInv, Inv, NEW t \in Tasks, BeginEvaluation(t)
    PROVE  EvaluationInv'
<1>1. /\ pc[t] = "start" /\ pc'[t] = "eval" /\ req' = req
      /\ node' = [node EXCEPT ![Root] = "called"]
      /\ UNCHANGED <<request, handler, response, gone, ctxEnded, ret, errChan, tree>>
  BY DEF BeginEvaluation, StartEvaluation, Goto, Inv, Typed, TypeOK
<1>2. Unbegun /\ tree = AstOf[req[t].expr] /\ req[t].expr \in DOMAIN AstOf
  BY <1>1, TreeOfRequest DEF EvaluationInv, StageInv, HasTree
<1>3. EP!Init'
  BY <1>1, <1>2 DEF Unbegun, EP!Init, EP!WorkerInit
<1>4. EP!EvaluatorInv'
  BY <1>3, EvaluationBeginsNow
<1>5. GoneInv' /\ StageInv(t)' /\ FaultInv(t)'
  BY <1>1, <1>2, <1>4 DEF EvaluationInv, GoneInv, StageInv, FaultInv, HasTree
<1> QED
  BY <1>4, <1>5, OneSubmission DEF EvaluationInv

\* The minute passes while the goroutine waits.
LEMMA MinutePassesKeeps ==
    ASSUME EvaluationInv, NEW t \in Tasks, MinutePasses(t)
    PROVE  EvaluationInv'
<1>1. /\ pc[t] = "eval" /\ UNCHANGED <<pc, req>>
      /\ UNCHANGED <<request, handler, response, gone, tree>>
      /\ "minute" \in EvalFaults
  BY DEF MinutePasses, E!ContextEnds, E!workerVars, vars
<1>2. EP!EvaluatorInv'
  BY <1>1, EvaluationGoesOn DEF MinutePasses, EvaluationInv, StageInv
<1>3. GoneInv' /\ StageInv(t)' /\ FaultInv(t)'
  BY <1>1, <1>2 DEF EvaluationInv, GoneInv, StageInv, FaultInv, HasTree
<1> QED
  BY <1>2, <1>3, OneSubmission DEF EvaluationInv

\* Evaluate, the worker or the network does something.
LEMMA EvaluationKeeps ==
    ASSUME EvaluationInv, NEW n \in Ids, EvaluateNode(n) \/ WorkerOrNetwork(n)
    PROVE  EvaluationInv'
<1>1. UNCHANGED <<pc, req>>
  BY DEF EvaluateNode, WorkerOrNetwork, vars
<1>2. ~Unbegun
  BY UnbegunWaits
<1>3. NobodyEvaluates => UNCHANGED <<node, gone>>
  BY OnlyTheWorkerMoves DEF E!WorkerActs, E!WorkerStep, E!Refuse, E!Calculate,
     E!DelayEnds, E!Cancelled, E!evalVars
<1>4. EP!EvaluatorInv => EP!EvaluatorInv'
  BY EvaluationGoesOn
<1>5. NobodyEvaluates' \/ EP!EvaluatorInv'
  BY <1>3, <1>4 DEF EvaluationInv, NobodyEvaluates
<1>6. GoneInv'
  <2>1. handler' \in [Ids -> {"none", "received", "delay", "done"}]
    BY HandlersMove DEF EvaluationInv, GoneInv
  <2>2. \A m \in Ids : handler[m] # "none" => handler'[m] # "none"
    BY HandlersMove DEF EvaluationInv, GoneInv
  <2>3. gone' = gone \/ (gone' = gone \cup {n} /\ handler[n] # "none")
    <3>1. node[n] = "call" => ~NobodyEvaluates
      BY DEF NobodyEvaluates
    <3>2. node[n] = "call" => handler[n] # "none"
      BY <3>1 DEF EvaluationInv, EP!EvaluatorInv, EP!OrderOfOperations
    <3> QED
      BY <3>2, HandlersMove
  <2> QED
    BY <2>1, <2>2, <2>3 DEF EvaluationInv, GoneInv
<1>7. \A t \in Tasks : StageInv(t)' /\ FaultInv(t)'
  BY <1>1, <1>2, <1>4, HandlersMove DEF EvaluationInv, StageInv, FaultInv, HasTree
<1> QED
  BY <1>5, <1>6, <1>7 DEF EvaluationInv

\* The process dies: no call of Evaluate survives it, and the worker's
\* operations are given up.
LEMMA CrashKeeps ==
    ASSUME EvaluationInv, Typed, CrashWhileEvaluating
    PROVE  EvaluationInv'
<1>1. /\ node' = [n \in Ids |-> "idle"]
      /\ gone' = {n \in Ids : handler[n] # "none"}
      /\ UNCHANGED <<request, handler, response, ctxEnded, ret, errChan, tree, req>>
      /\ pc' = [t \in Tasks |->
                  IF pc[t] = "insert" \/ pc[t] \in Running THEN "dead" ELSE pc[t]]
  BY DEF CrashWhileEvaluating, Crash
<1>2. Unbegun => Unbegun'
  BY <1>1 DEF Unbegun, EP!WorkerInit
<1>3. GoneInv' /\ NobodyEvaluates'
  BY <1>1 DEF EvaluationInv, GoneInv, NobodyEvaluates
<1>4. ASSUME NEW t \in Tasks PROVE StageInv(t)' /\ FaultInv(t)'
  <2>1. \/ pc'[t] = "dead"
        \/ pc'[t] = pc[t] /\ pc[t] \notin Running \cup {"insert"}
    BY <1>1
  <2>2. pc[t] \in {"idle", "closed"} => Unbegun
    BY DEF EvaluationInv, StageInv
  <2>3. StageInv(t)'
    BY <1>1, <1>2, <2>1, <2>2 DEF StageInv, Running
  <2>4. Unbegun => gone' = {} /\ ctxEnded' = FALSE
    BY <1>1 DEF Unbegun, EP!WorkerInit
  <2>5. FaultInv(t)'
    <3>1. CASE pc'[t] \in {"done", "dead"}
      BY <3>1 DEF FaultInv
    <3>2. CASE pc[t] \in {"idle", "closed"}
      BY <2>2, <2>4, <3>2 DEF FaultInv
    <3>3. pc[t] \in {"idle", "closed"} \/ pc'[t] \in {"done", "dead"}
      BY <2>1 DEF Typed, TypeOK, Running, PCs
    <3> QED
      BY <3>1, <3>2, <3>3
  <2> QED
    BY <2>3, <2>5
<1> QED
  BY <1>3, <1>4 DEF EvaluationInv
\* Every step of the two servers keeps the invariant.
LEMMA EvaluationStep ==
    ASSUME Inv, EvaluationInv, [ServiceNext]_serviceVars
    PROVE  EvaluationInv'
<1>1. ASSUME NEW t \in Tasks, CompileAndCreate(t) PROVE EvaluationInv'
  BY <1>1, CreateKeeps DEF Inv
<1>2. ASSUME NEW t \in Tasks, Goroutine(t) PROVE EvaluationInv'
  <2>1. pc \in [Tasks -> PCs]
    BY DEF Inv, Typed, TypeOK
  <2>2. ASSUME Statements(t) PROVE EvaluationInv'
    <3>1. <<pc[t], pc'[t]>> \in Moves /\ req' = req
      BY <2>1, <2>2 DEF Statements, Handle, CreateTaskFails, SpawnEvaluation,
         StartFails, Finish, LastWriteFails, Goto, Moves
    <3> QED
      BY <2>2, <3>1, SubmissionKeeps DEF Statements
  <2>3. ASSUME SaveResult(t) \/ SaveError(t) PROVE EvaluationInv'
    <3>1. <<pc[t], pc'[t]>> \in Moves /\ req' = req
      BY <2>1, <2>3 DEF SaveResult, SaveError, Goto, Moves
    <3>2. UNCHANGED <<evaluation, tree>>
      BY <2>3 DEF SaveResult, SaveError
    <3> QED
      BY <3>1, <3>2, SubmissionKeeps
  <2> QED
    BY <1>2, <2>2, <2>3, BeginKeeps DEF Goroutine
<1>3. ASSUME NEW t \in Tasks, MinutePasses(t) PROVE EvaluationInv'
  BY <1>3, MinutePassesKeeps
<1>4. ASSUME NEW n \in Ids, EvaluateNode(n) \/ WorkerOrNetwork(n)
      PROVE  EvaluationInv'
  BY <1>4, EvaluationKeeps
<1>5. ASSUME NEW t \in Tasks,
             \/ CallerGivesUp(t)
             \/ \E u \in Users, e \in Exprs : RejectExpression(t, u, e)
             \/ LastWriteFails(t),
             UNCHANGED <<evaluation, tree>>
      PROVE  EvaluationInv'
  <2>1. \/ pc'[t] = pc[t] /\ req' = req
        \/ <<pc[t], pc'[t]>> \in Moves /\ pc'[t] = "closed"
        \/ <<pc[t], pc'[t]>> \in Moves /\ req' = req
    BY <1>5 DEF CallerGivesUp, RejectExpression, LastWriteFails, Goto, Moves,
       Inv, Typed, TypeOK
  <2> QED
    BY <1>5, <2>1, SubmissionKeeps
<1>6. ASSUME UNCHANGED <<pc, req, evaluation, tree>> PROVE EvaluationInv'
  <2>1. CASE Tasks = {}
    <3>1. UNCHANGED <<handler, gone, node>>
      BY <1>6 DEF evaluation
    <3>2. GoneInv' /\ (NobodyEvaluates => NobodyEvaluates')
      BY <3>1 DEF EvaluationInv, GoneInv, NobodyEvaluates
    <3>3. EP!EvaluatorInv => EP!EvaluatorInv'
      BY <1>6, EvaluationStays
    <3> QED
      BY <2>1, <3>2, <3>3 DEF EvaluationInv
  <2>2. CASE Tasks # {}
    <3>1. PICK t \in Tasks : TRUE
      BY <2>2
    <3> QED
      BY <1>6, SubmissionKeeps
  <2> QED
    BY <2>1, <2>2
<1>7. ASSUME (Restart \/ Database) /\ UNCHANGED <<evaluation, tree>>
      PROVE  EvaluationInv'
  BY <1>6, <1>7 DEF Restart, Database, Execute, Lose
<1>8. ASSUME CrashWhileEvaluating PROVE EvaluationInv'
  BY <1>8, CrashKeeps DEF Inv
<1>9. ASSUME UNCHANGED serviceVars PROVE EvaluationInv'
  BY <1>6, <1>9 DEF serviceVars, vars
<1>10. ASSUME Elsewhere PROVE EvaluationInv'
  BY <1>5, <1>7, <1>10 DEF Elsewhere
<1> QED
  BY <1>1, <1>2, <1>3, <1>4, <1>7, <1>8, <1>9, <1>10 DEF ServiceNext, Table

\* Both invariants together.
LEMMA ServiceStep ==
    ASSUME Inv, EvaluationInv, [ServiceNext]_serviceVars
    PROVE  [Next]_vars /\ Inv' /\ EvaluationInv'
<1>1. [Next]_vars
  BY StepRefines
<1>2. Inv'
  BY <1>1, TypeStep, RestStep DEF Inv, Rest
<1> QED
  BY <1>1, <1>2, EvaluationStep

\* The safety part of the specification.
LEMMA ServiceSafety == ServiceSpec => ServiceInit /\ [][ServiceNext]_serviceVars
BY PTL DEF ServiceSpec

\* The invariant of the composition, whatever fails: who owns the evaluation at
\* each point of the goroutine's code, and what it may be given by it.
THEOREM ServiceInvariance == ServiceSpec => [](Inv /\ EvaluationInv)
<1>1. ServiceInit => Inv /\ EvaluationInv
  BY ServiceBegins, InvInit
<1>2. Inv /\ EvaluationInv /\ [ServiceNext]_serviceVars => (Inv /\ EvaluationInv)'
  BY ServiceStep
<1> QED
  BY <1>1, <1>2, ServiceSafety, PTL

\* The evaluator and the worker do what Orchestrator says of one step, whatever
\* fails: the goroutine is given the value its expression denotes, or an error
\* that the expression or a fault explains, and nothing else.
THEOREM RefinementTheorem == ServiceSpec => Spec
<1>1. ServiceInit => Init
  BY ServiceBegins
<1>2. Inv /\ EvaluationInv /\ [ServiceNext]_serviceVars => [Next]_vars
  BY ServiceStep
<1> QED
  BY <1>1, <1>2, ServiceSafety, ServiceInvariance, PTL DEF Spec

\* From the AST to the column: the result of a completed task is the value its
\* expression means, computed node by node by the worker.
THEOREM StoredValueTheorem == ServiceSpec => []ResultIsValue
BY RefinementTheorem, ValueTheorem, PTL

\* When nothing is late, the two servers together implement TaskLifecycle.
THEOREM ServiceLifecycleTheorem ==
    ASSUME "late" \notin Faults
    PROVE  ServiceSpec => ImplementsLifecycle
BY RefinementTheorem, LifecycleTheorem, PTL

-----------------------------------------------------------------------------
\* Failures, while the database answers

\* The expression, a deadline or a connection is to blame.
Caused(t) ==
    Denote[req[t].expr] \notin Numbers \/ ctxEnded \/ gone # {}

\* So it is of every failed task, and of every error on its way to the table.
CauseInv ==
    /\ \A t \in Tasks : row[t].status = "failed" => Caused(t)
    /\ \A s \in wire : s.op = "error" => Caused(s.task)

\* Every statement on the wire is waited for, or of a submission that nothing
\* works at any more; a last statement that was answered has settled its row,
\* and so has the goroutine's end.
SteadyInv ==
    /\ \A s \in wire :
         pc[s.task] \in {"closed", "dead"} \/ s.op = AwaitedOp(pc[s.task])
    /\ \A r \in replies :
         r.op \in {"result", "error"} => row[r.task].status \in Final
    /\ \A t \in Tasks : pc[t] = "done" => row[t].status \in Final

\* What has ended a context stays, a crash included.
LEMMA CausesLast ==
    ASSUME EvaluationInv, [ServiceNext]_serviceVars
    PROVE  /\ ctxEnded => ctxEnded'
           /\ gone # {} => gone' # {}
<1>1. ASSUME UNCHANGED evaluation PROVE UNCHANGED <<ctxEnded, gone>>
  BY <1>1 DEF evaluation
<1>2. ASSUME NEW n \in Ids, EvaluateNode(n) \/ WorkerOrNetwork(n)
      PROVE  UNCHANGED ctxEnded /\ gone \subseteq gone'
  BY <1>2, HandlersMove
<1>3. ASSUME NEW t \in Tasks, MinutePasses(t)
      PROVE  ctxEnded' = TRUE /\ gone' = gone
  BY <1>3 DEF MinutePasses, E!ContextEnds, E!workerVars
<1>4. ASSUME CrashWhileEvaluating
      PROVE  UNCHANGED ctxEnded /\ gone \subseteq gone'
  BY <1>4 DEF CrashWhileEvaluating, EvaluationInv, GoneInv
<1>5. ASSUME NEW t \in Tasks, CompileAndCreate(t) \/ Goroutine(t)
      PROVE  UNCHANGED <<ctxEnded, gone>>
  BY <1>1, <1>5 DEF CompileAndCreate, Goroutine, Statements, BeginEvaluation,
     SaveResult, SaveError
<1>6. ASSUME Elsewhere \/ Table \/ UNCHANGED serviceVars
      PROVE  UNCHANGED <<ctxEnded, gone>>
  BY <1>1, <1>6 DEF Elsewhere, Table, serviceVars
<1>7. \/ ctxEnded' = ctxEnded /\ gone \subseteq gone'
      \/ ctxEnded' = TRUE /\ gone' = gone
  BY <1>2, <1>3, <1>4, <1>5, <1>6 DEF ServiceNext
<1> QED
  BY <1>7
\* Only a submission that begins gets a user and an expression.
LEMMA RequestLasts ==
    ASSUME Typed, [Next]_vars, NEW t \in Tasks, pc[t] # "idle"
    PROVE  req'[t] = req[t]
BY DEF Typed, TypeOK, Next, Submit, Handle, Evaluate, Database, vars,
   RejectExpression, CreateTask, CallerGivesUp, CreateTaskFails,
   SpawnEvaluation, StartFails, StartEvaluation, EvaluationSucceeds,
   EvaluationFails, Finish, LastWriteFails, Execute, Lose, Crash, Restart

\* UpdateTaskStatus finds its row.
LEMMA StartSucceeds ==
    ASSUME "db" \notin Faults, Inv, NEW t \in Tasks
    PROVE  ~StartFails(t)
<1>1. \A r \in replies : r.rows = 1
  BY DEF Inv, ReplyInv
<1>2. ~Answered(t, 0)
  <2> DEFINE r == [task |-> t, op |-> AwaitedOp(pc[t]), rows |-> 0]
  <2>1. r.rows = 0
    OBVIOUS
  <2> HIDE DEF r
  <2>2. r \notin replies
    BY <1>1, <2>1
  <2> QED
    BY <2>2 DEF Answered, r
<1> QED
  BY <1>2 DEF StartFails

\* An error on its way to the table was there before or has just been sent
\* because of what Evaluate returned.
LEMMA ErrorsSent ==
    ASSUME "db" \notin Faults, Inv, [ServiceNext]_serviceVars,
           NEW s \in wire', s.op = "error"
    PROVE  s \in wire \/ \E t \in Tasks : s.task = t /\ SaveError(t)
<1> SUFFICES ASSUME s \notin wire
             PROVE  \E t \in Tasks : s.task = t /\ SaveError(t)
  OBVIOUS
<1>1. ASSUME NEW t \in Tasks, CompileAndCreate(t) PROVE FALSE
  BY <1>1 DEF CompileAndCreate, CreateTask, Stmt
<1>2. ASSUME NEW t \in Tasks, Goroutine(t), ~SaveError(t) PROVE FALSE
  BY <1>2, StartSucceeds DEF Goroutine, Statements, Handle, CreateTaskFails,
     SpawnEvaluation, Finish, LastWriteFails, BeginEvaluation, StartEvaluation,
     SaveResult, Stmt, WireWithout
<1>3. ASSUME NEW t \in Tasks, SaveError(t) PROVE s.task = t
  <2>1. PICK m : wire' = wire \cup {[task |-> t, op |-> "error", arg |-> m]}
    BY <1>3 DEF SaveError, Stmt
  <2>2. s = [task |-> t, op |-> "error", arg |-> m]
    BY <2>1
  <2> QED
    BY <2>2
<1>4. ASSUME \/ \E t \in Tasks : MinutePasses(t)
             \/ \E n \in Ids : EvaluateNode(n) \/ WorkerOrNetwork(n)
      PROVE  FALSE
  BY <1>4 DEF MinutePasses, EvaluateNode, WorkerOrNetwork, vars
<1>5. ASSUME Elsewhere \/ Table \/ CrashWhileEvaluating \/ UNCHANGED serviceVars
      PROVE  FALSE
  BY <1>5 DEF Elsewhere, CallerGivesUp, RejectExpression, LastWriteFails,
     Restart, Table, Database, Execute, Lose, CrashWhileEvaluating, Crash, serviceVars, vars
<1> QED
  BY <1>1, <1>2, <1>3, <1>4, <1>5 DEF ServiceNext

\* What Evaluate returned is to blame on the expression or on a fault.
LEMMA SaveErrorCaused ==
    ASSUME Inv, EvaluationInv, NEW t \in Tasks, SaveError(t)
    PROVE  Caused(t)
<1>1. pc[t] = "eval" /\ E!Returned(Root)
  BY DEF SaveError
<1>2. E!Failed(Root) \/ ~Storable(Stored(ret[Root].value))
  BY DEF SaveError
<1>3. \/ Denote[req[t].expr] \in NonFinite \cup {"EvalError"}
      \/ ctxEnded \/ gone # {}
  BY <1>1, <1>2, RootReturns DEF EvaluationInv
<1> QED
  BY <1>3, NumbersAssumption DEF Caused

\* Every step keeps what is known of failures.
LEMMA CauseStep ==
    ASSUME "db" \notin Faults, Inv, EvaluationInv, CauseInv,
           [ServiceNext]_serviceVars
    PROVE  CauseInv'
<1>1. [Next]_vars
  BY StepRefines
<1>2. ASSUME NEW t \in Tasks, pc[t] # "idle", Caused(t) PROVE Caused(t)'
  BY <1>1, <1>2, RequestLasts, CausesLast DEF Caused, Inv
<1>3. \A s \in wire : s.task \in Tasks /\ pc[s.task] # "idle"
  BY DEF Inv, WireInv, MayBeSent, Typed, TypeOK, Statement
<1>4. ASSUME NEW t \in Tasks, row'[t].status = "failed" PROVE Caused(t)'
  <2>1. CASE row'[t] = row[t]
    <3>1. pc[t] # "idle"
      BY <1>4, <2>1 DEF Inv, PointInv, Exists
    <3> QED
      BY <1>2, <1>4, <2>1, <3>1 DEF CauseInv
  <2>2. CASE row'[t] # row[t]
    <3>1. PICK s \in wire : Execute(s)
      BY <1>1, <2>2, OnlyExecute
    <3>2. s.task = t /\ row'[t] = Apply(s, row[t])
      BY <2>2, <3>1 DEF Execute, Inv, Typed, TypeOK
    <3>3. s.op = "error"
      BY <1>4, <3>1, <3>2 DEF Apply, Inv, Typed, TypeOK, Statement, Row
    <3> QED
      BY <1>2, <1>3, <3>2, <3>3 DEF CauseInv
  <2> QED
    BY <2>1, <2>2
<1>5. ASSUME NEW s \in wire', s.op = "error" PROVE Caused(s.task)'
  <2>1. CASE s \in wire
    BY <1>2, <1>3, <1>5, <2>1 DEF CauseInv
  <2>2. ASSUME NEW t \in Tasks, s.task = t, SaveError(t) PROVE Caused(s.task)'
    BY <1>2, <2>2, SaveErrorCaused DEF SaveError
  <2> QED
    BY <1>5, <2>1, <2>2, ErrorsSent
<1> QED
  BY <1>4, <1>5 DEF CauseInv

\* A task whose expression has a finite value fails only for the time or the
\* connection of an operation, as long as the database answers, whoever gives
\* up and whenever the process dies.
THEOREM FailureTheorem ==
    ASSUME "db" \notin Faults
    PROVE  ServiceSpec => []FailureHasCause
<1>1. ServiceInit => CauseInv
  BY DEF ServiceInit, Init, NoRow, CauseInv
<1>2. Inv /\ EvaluationInv /\ CauseInv /\ [ServiceNext]_serviceVars => CauseInv'
  BY CauseStep
<1>3. Inv /\ CauseInv => FailureHasCause
  BY DEF Inv, RowInv, Exists, CauseInv, Caused, FailureHasCause
<1> QED
  BY <1>1, <1>2, <1>3, ServiceInvariance, ServiceSafety, PTL
\* Every step keeps what is known of a goroutine that has ended.
LEMMA SteadyStep ==
    ASSUME "db" \notin Faults, Inv, Inv', SteadyInv, [Next]_vars
    PROVE  SteadyInv'
<1> USE DEF Inv, Typed, TypeOK, WireInv, ReplyInv, OneEach, SteadyInv, AwaitedOp,
            MayBeSent, Goto, Stmt, Statement, Reply, WireWithout,
            RepliesWithout, Exists, Answered, Final
<1>1. ASSUME NEW t \in Tasks, NEW u \in Users, NEW e \in Exprs,
             RejectExpression(t, u, e)
      PROVE  SteadyInv'
  BY <1>1 DEF RejectExpression
<1>2. ASSUME NEW t \in Tasks, NEW u \in Users, NEW e \in Exprs,
             CreateTask(t, u, e)
      PROVE  SteadyInv'
  BY <1>2 DEF CreateTask
<1>3. ASSUME NEW t \in Tasks, CallerGivesUp(t)
      PROVE  SteadyInv'
  BY <1>3 DEF CallerGivesUp
<1>4. ASSUME NEW t \in Tasks, CreateTaskFails(t)
      PROVE  SteadyInv'
  BY <1>4 DEF CreateTaskFails
<1>5. ASSUME NEW t \in Tasks, SpawnEvaluation(t)
      PROVE  SteadyInv'
  BY <1>5 DEF SpawnEvaluation
<1>6. ASSUME NEW t \in Tasks, StartFails(t)
      PROVE  SteadyInv'
  BY <1>6, StartSucceeds
<1>7. ASSUME NEW t \in Tasks, StartEvaluation(t)
      PROVE  SteadyInv'
  BY <1>7 DEF StartEvaluation
<1>8. ASSUME NEW t \in Tasks, EvaluationSucceeds(t)
      PROVE  SteadyInv'
  BY <1>8 DEF EvaluationSucceeds
<1>9. ASSUME NEW t \in Tasks, EvaluationFails(t)
      PROVE  SteadyInv'
  <2>1. /\ pc[t] = "eval"
        /\ pc' = [pc EXCEPT ![t] = "save_error"]
        /\ UNCHANGED <<up, req, call, row, replies>>
    BY <1>9 DEF EvaluationFails
  <2>2. PICK m : wire' = wire \cup {[task |-> t, op |-> "error", arg |-> m]}
    BY <1>9 DEF EvaluationFails
  <2> QED
    BY <2>1, <2>2
<1>10. ASSUME NEW t \in Tasks, Finish(t)
      PROVE  SteadyInv'
  BY <1>10 DEF Finish
<1>11. ASSUME NEW s \in wire, Execute(s)
      PROVE  SteadyInv'
  BY <1>11 DEF Execute, Finds, Apply
<1>12. ASSUME NEW s \in wire, Lose(s)
      PROVE  SteadyInv'
  BY <1>12 DEF Lose
<1>13. CASE Crash
  BY <1>13 DEF Crash
<1>14. CASE Restart
  BY <1>14 DEF Restart
<1>15. CASE UNCHANGED vars
  BY <1>15 DEF vars
<1>16. ASSUME NEW t \in Tasks PROVE ~LastWriteFails(t)
  BY DEF LastWriteFails
<1> QED
  BY <1>1, <1>2, <1>3, <1>4, <1>5, <1>6, <1>7, <1>8, <1>9, <1>10, <1>11,
     <1>12, <1>13, <1>14, <1>15, <1>16
     DEF Next, Submit, Handle, Evaluate, Database

\* A goroutine that has ended has settled its task, as long as the database
\* answers: whatever the worker, the caller and the process did meanwhile.
THEOREM DoneTheorem ==
    ASSUME "db" \notin Faults
    PROVE  ServiceSpec => []DoneIsSettled
<1>1. ServiceInit => SteadyInv
  BY DEF ServiceInit, Init, SteadyInv
<1>2. Inv /\ Inv' /\ EvaluationInv /\ SteadyInv /\ [ServiceNext]_serviceVars
        => SteadyInv'
  BY StepRefines, SteadyStep
<1>3. SteadyInv => DoneIsSettled
  BY DEF SteadyInv, DoneIsSettled
<1> QED
  BY <1>1, <1>2, <1>3, ServiceInvariance, ServiceSafety, PTL
==============================================================================

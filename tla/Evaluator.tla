------------------------------ MODULE Evaluator ------------------------------
(***************************************************************************)
(* ExpressionEvaluator.Evaluate: one call per node of the AST.  The call of *)
(* a binary node runs its operands in two goroutines, waits for both, looks *)
(* at the channel of their errors and then asks the worker.  callWorker     *)
(* bounds every request by 5 s and by what is left of the evaluation's one  *)
(* minute; an answer that comes later is thrown away.                       *)
(*                                                                         *)
(* A node is evaluated once, so it names its call of Evaluate, its channels *)
(* and its operation id: the worker's calls (Worker.tla) are the nodes.     *)
(***************************************************************************)
EXTENDS Worker, Sequences, FiniteSets

CONSTANTS
    Root,       \* the root node
    Trees,      \* the expressions: functions from the nodes Ids
    Faults      \* what the environment may do: see FaultKinds

(***************************************************************************)
(* "minute":  evalCtx ends before the evaluation does;                     *)
(* "five":    5 s pass before the worker answers;                          *)
(* "network": a request or its answer is lost, and the client knows.       *)
(***************************************************************************)
FaultKinds == {"minute", "five", "network"}

ASSUME EvaluatorFaultsAssumption == Faults \subseteq FaultKinds

\* The nodes whose values a node of tr is made of.
OperandsIn(tr, n) ==
    CASE tr[n].kind = "Binary" -> {tr[n].left, tr[n].right}
      [] tr[n].kind = "Unary"  -> {tr[n].left}
      [] OTHER                 -> {}

Kinds == {"Literal", "Other", "Unary", "Binary", "None"}

\* The operators of BinaryNode; "%" stands for all that the worker does not know.
BinarySymbols == {"+", "-", "*", "/", "^", "**", "%"}

\* A tree, as expr's parser makes it: no node is an operand twice, and every
\* operand has a larger number than its node.
IsTree(tr) ==
    \A n \in Ids :
        /\ tr[n].kind \in Kinds
        /\ tr[n].kind = "Literal" => tr[n].value \in Float
        /\ tr[n].kind = "Binary" =>
              tr[n].symbol \in BinarySymbols /\ tr[n].left # tr[n].right
        /\ \A m \in OperandsIn(tr, n) : m \in Ids /\ m > n /\ m # Root
        /\ \A q \in Ids \ {n} : OperandsIn(tr, n) \cap OperandsIn(tr, q) = {}

\* A node is known by a number, its address in the code.
ASSUME IdsAssumption ==
    IsFiniteSet(Ids) /\ Ids \subseteq 1..Cardinality(Ids) /\ Root \in Ids

ASSUME TreesAssumption == \A tr \in Trees : IsTree(tr)

VARIABLES
    tree,       \* the AST that is evaluated
    ctxEnded,   \* evalCtx is done
    pc,         \* [Ids -> where the node's call of Evaluate is]
    ret,        \* [Ids -> what it returned]
    errChan     \* [Ids -> the errors of the operands, in their order]

evalVars == <<tree, ctxEnded, pc, ret, errChan>>

vars == <<workerVars, evalVars>>

\* What Evaluate returns: a value, or an error, with the node it comes from.
Value(v) == [error |-> "none", value |-> v]
Error(kind) == [error |-> kind, value |-> Zero]
NotYet == [error |-> "not yet", value |-> Zero]

Operands(n) == OperandsIn(tree, n)

Returned(n) == pc[n] = "returned"

Failed(n) == Returned(n) /\ ret[n].error # "none"

\* The binary node whose goroutine evaluates n, if there is one.
Parents(n) == {p \in Ids : tree[p].kind = "Binary" /\ n \in Operands(p)}

\* n's call of Evaluate returns; a goroutine that got an error puts it into
\* its parent's channel before it ends.
Return(n, outcome) ==
    /\ pc' = [pc EXCEPT ![n] = "returned"]
    /\ ret' = [ret EXCEPT ![n] = outcome]
    /\ errChan' = [p \in Ids |->
                     IF p \in Parents(n) /\ outcome.error # "none"
                     THEN Append(errChan[p], outcome) ELSE errChan[p]]

Init ==
    /\ WorkerInit
    /\ tree \in Trees
    /\ ctxEnded = FALSE
    /\ pc = [n \in Ids |-> IF n = Root THEN "called" ELSE "idle"]
    /\ ret = [n \in Ids |-> NotYet]
    /\ errChan = [n \in Ids |-> <<>>]

-----------------------------------------------------------------------------
\* Evaluate

\* case <-ctx.Done(), before anything else.
FindContextEnded(n) ==
    /\ pc[n] = "called"
    /\ ctxEnded
    /\ Return(n, Error("cancelled"))
    /\ UNCHANGED <<workerVars, tree, ctxEnded>>

\* IntegerNode and FloatNode.
EvaluateLeaf(n) ==
    /\ pc[n] = "called"
    /\ ~ctxEnded
    /\ tree[n].kind = "Literal"
    /\ Return(n, Value(tree[n].value))
    /\ UNCHANGED <<workerVars, tree, ctxEnded>>

\* CallNode, BoolNode, and every other kind of node.
RefuseNode(n) ==
    /\ pc[n] = "called"
    /\ ~ctxEnded
    /\ tree[n].kind = "Other"
    /\ Return(n, Error("unsupported"))
    /\ UNCHANGED <<workerVars, tree, ctxEnded>>

\* UnaryNode calls Evaluate itself; BinaryNode spawns a goroutine for each of
\* its operands.
EvaluateOperands(n) ==
    /\ pc[n] = "called"
    /\ ~ctxEnded
    /\ tree[n].kind \in {"Unary", "Binary"}
    /\ pc' = [m \in Ids |->
                IF m = n THEN "operands"
                ELSE IF m \in Operands(n) THEN "called" ELSE pc[m]]
    /\ UNCHANGED <<workerVars, tree, ctxEnded, ret, errChan>>

\* Mutant: no wg.Wait(), the first error is enough.
JoinedByError(n) == (\A m \in Operands(n) : Returned(m)) \/ errChan[n] # <<>>

\* wg.Wait(), or the return of a unary node's operand.
Joined(n) == \A m \in Operands(n) : Returned(m)

\* The error that came first, whichever operand it came from.
FirstError(n) ==
    IF tree[n].kind = "Binary" THEN Head(errChan[n]) ELSE ret[tree[n].left]

ReturnOperandError(n) ==
    /\ pc[n] = "operands"
    /\ Joined(n)
    /\ \E m \in Operands(n) : Failed(m)
    /\ Return(n, FirstError(n))
    /\ UNCHANGED <<workerVars, tree, ctxEnded>>

\* A unary operator other than "-" is found out only now.
RefuseUnary(n) ==
    /\ pc[n] = "operands"
    /\ tree[n].kind = "Unary"
    /\ tree[n].symbol # "-"
    /\ Joined(n)
    /\ \A m \in Operands(n) : ~Failed(m)
    /\ Return(n, Error("unsupported"))
    /\ UNCHANGED <<workerVars, tree, ctxEnded>>

\* Mutant: the operands are swapped.
SwappedRequest(n) ==
    IF tree[n].kind = "Unary"
    THEN [symbol |-> "neg", a |-> ret[tree[n].left].value, b |-> Zero]
    ELSE [symbol |-> IF tree[n].symbol = "**" THEN "^" ELSE tree[n].symbol,
          a |-> ret[tree[n].right].value, b |-> ret[tree[n].left].value]

\* Mutant: "**" is not translated.
UntranslatedRequest(n) ==
    IF tree[n].kind = "Unary"
    THEN [symbol |-> "neg", a |-> ret[tree[n].left].value, b |-> Zero]
    ELSE [symbol |-> tree[n].symbol,
          a |-> ret[tree[n].left].value, b |-> ret[tree[n].right].value]

\* What is asked of the worker: "**" is its "^", a unary "-" its "neg".
RequestOf(n) ==
    IF tree[n].kind = "Unary"
    THEN [symbol |-> "neg", a |-> ret[tree[n].left].value, b |-> Zero]
    ELSE [symbol |-> IF tree[n].symbol = "**" THEN "^" ELSE tree[n].symbol,
          a |-> ret[tree[n].left].value, b |-> ret[tree[n].right].value]

\* No operand failed: callWorker sends the operation to the worker.
CallWorker(n) ==
    /\ pc[n] = "operands"
    /\ tree[n].kind = "Binary" \/ tree[n].symbol = "-"
    /\ Joined(n)
    /\ \A m \in Operands(n) : ~Failed(m)
    /\ pc' = [pc EXCEPT ![n] = "call"]
    /\ Receive(n, RequestOf(n))
    /\ UNCHANGED <<tree, ctxEnded, ret, errChan>>

-----------------------------------------------------------------------------
\* callWorker

\* Mutant: a result of 0, which protobuf leaves out, is taken for no answer.
ReceiveAnswerLosingZero(n) ==
    /\ pc[n] = "call"
    /\ handler[n] = "done"
    /\ Return(n, CASE response[n].code = "OK" /\ response[n].result # Zero
                        -> Value(response[n].result)
                   [] response[n].code = "OK" -> Error("unavailable")
                   [] response[n].code = "InvalidArgument" -> Error("refused")
                   [] response[n].code = "DeadlineExceeded" -> Error("timeout"))
    /\ UNCHANGED <<workerVars, tree, ctxEnded>>

\* The worker's answer arrives in time.
ReceiveAnswer(n) ==
    /\ pc[n] = "call"
    /\ handler[n] = "done"
    /\ Return(n, CASE response[n].code = "OK" -> Value(response[n].result)
                   [] response[n].code = "InvalidArgument" -> Error("refused")
                   [] response[n].code = "DeadlineExceeded" -> Error("timeout"))
    /\ UNCHANGED <<workerVars, tree, ctxEnded>>

\* Mutant: the request is sent under context.Background().
OperationNeverTimesOut(n) == FALSE

\* opCtx ends, by its own 5 s or with evalCtx: ErrEvaluationTimeout.  gRPC
\* tells the worker, which may be done already.
OperationTimesOut(n) ==
    /\ pc[n] = "call"
    /\ "five" \in Faults \/ ctxEnded
    /\ Return(n, Error("timeout"))
    /\ gone' = gone \cup {n}
    /\ UNCHANGED <<request, handler, response, tree, ctxEnded>>

\* The deadline travels with the request and may pass at the worker first.
DeadlineReachesWorker(n) ==
    /\ pc[n] = "call"
    /\ "five" \in Faults \/ ctxEnded
    /\ Leave(n)
    /\ UNCHANGED evalVars

\* The connection to the worker fails: Unavailable, and the worker's context
\* ends as well.
ConnectionFails(n) ==
    /\ "network" \in Faults
    /\ pc[n] = "call"
    /\ Return(n, Error("unavailable"))
    /\ gone' = gone \cup {n}
    /\ UNCHANGED <<request, handler, response, tree, ctxEnded>>

\* One minute has passed since startEvaluation began.
ContextEnds ==
    /\ "minute" \in Faults
    /\ ~ctxEnded
    /\ ~Returned(Root)
    /\ ctxEnded' = TRUE
    /\ UNCHANGED <<workerVars, tree, pc, ret, errChan>>

-----------------------------------------------------------------------------

EvaluateStep(n) ==
    \/ FindContextEnded(n)
    \/ EvaluateLeaf(n)
    \/ RefuseNode(n)
    \/ EvaluateOperands(n)
    \/ ReturnOperandError(n)
    \/ RefuseUnary(n)
    \/ CallWorker(n)
    \/ ReceiveAnswer(n)
    \/ OperationTimesOut(n)

WorkerActs(n) == WorkerStep(n) /\ UNCHANGED evalVars

Next ==
    \/ \E n \in Ids :
         \/ EvaluateStep(n)
         \/ WorkerActs(n)
         \/ ConnectionFails(n)
         \/ DeadlineReachesWorker(n)
    \/ ContextEnds

Spec == Init /\ [][Next]_vars

\* Goroutines are scheduled and deadlines pass; the worker is not trusted.
ClientFairness == \A n \in Ids : WF_vars(EvaluateStep(n))

ClientFairSpec == Spec /\ ClientFairness

-----------------------------------------------------------------------------
\* What an expression means, by induction on its AST.

\* The value of an operation, or the error it fails with.
Meant(symbol, a, b) ==
    IF symbol \notin {"+", "-", "*", "/", "^", "**", "neg"} \/ (symbol = "/" /\ b = Zero)
    THEN Error("refused")
    ELSE Value(Computed(IF symbol = "**" THEN "^" ELSE symbol, a, b))

\* The meaning of a node, given that of its operands.
MeaningStep(tr, m, n) ==
    CASE tr[n].kind = "Literal" -> Value(tr[n].value)
      [] tr[n].kind = "Other"   -> Error("unsupported")
      [] tr[n].kind = "Unary"   ->
            LET x == m[tr[n].left] IN
            IF x.error # "none" THEN x
            ELSE IF tr[n].symbol # "-" THEN Error("unsupported")
            ELSE Meant("neg", x.value, Zero)
      [] tr[n].kind = "Binary"  ->
            LET x == m[tr[n].left]
                y == m[tr[n].right]
            IN  IF x.error # "none" THEN x
                ELSE IF y.error # "none" THEN y
                ELSE Meant(tr[n].symbol, x.value, y.value)
      [] OTHER -> NotYet

MeaningOf(tr) ==
    LET m[n \in Ids] == MeaningStep(tr, m, n) IN m

Meaning == MeaningOf(tree)

EvaluatorTypeOK ==
    /\ WorkerTypeOK
    /\ tree \in Trees
    /\ ctxEnded \in BOOLEAN
    /\ pc \in [Ids -> {"idle", "called", "operands", "call", "returned"}]
    /\ ret \in [Ids -> [error : {"none", "not yet", "cancelled", "unsupported",
                                "refused", "timeout", "unavailable"},
                       value : Float]]
    /\ \A n \in Ids : Len(errChan[n]) <= 2

\* A value that Evaluate returns is the meaning of its node, in whatever order
\* the operands, the answers and the deadlines came.
ValueIsMeaning ==
    \A n \in Ids : Returned(n) /\ ~Failed(n) => ret[n] = Meaning[n]

\* An expression without a meaning never gets a value, and what it fails with
\* is the fault of an operand that has none, or of a deadline or a connection
\* that ended.
ErrorHasCause ==
    \A n \in Ids :
        Failed(n) =>
            CASE ret[n].error = "cancelled"                   -> ctxEnded
              [] ret[n].error \in {"timeout", "unavailable"} -> gone # {}
              [] OTHER -> Meaning[n].error # "none"

\* When a call of Evaluate returns, nothing it started is running but what it
\* told the worker to give up.
NothingLeftRunning ==
    \A n \in Ids :
        Returned(n) =>
            /\ \A m \in Operands(n) : pc[m] \in {"idle", "returned"}
            /\ handler[n] \in {"none", "done"} \/ n \in gone

\* Evaluate returns, even if the worker never answers.
EvaluateReturns == <>Returned(Root)
==============================================================================

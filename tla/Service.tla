------------------------------- MODULE Service -------------------------------
(***************************************************************************)
(* The whole way of one submission: Orchestrator.tla with the evaluator and *)
(* the worker of Evaluator.tla in place of its one step from "eval" to the *)
(* last statement.  SubmitExpression hands the AST to the goroutine, the   *)
(* goroutine calls Evaluate with it under evalCtx and stores what the root *)
(* returns; a crash takes the calls of Evaluate with it and ends the       *)
(* contexts of the operations the worker is at.                            *)
(***************************************************************************)
EXTENDS Orchestrator, Floats, Sequences, FiniteSets, TLC

CONSTANTS
    Ids,            \* the nodes of an AST
    Root,
    AstOf,          \* the AST of each expression that compiles
    EvalFaults      \* Evaluator's faults; Faults has "eval" if this has any

VARIABLES
    request, handler, response, gone,       \* the worker's calls
    tree, ctxEnded, node, ret, errChan      \* the calls of Evaluate

E == INSTANCE Evaluator WITH
    pc     <- node,
    Trees  <- {AstOf[e] : e \in DOMAIN AstOf},
    Faults <- EvalFaults

evaluation == <<request, handler, response, gone, ctxEnded, node, ret, errChan>>

serviceVars == <<vars, evaluation, tree>>

\* A float64 as a result column, in halves, or what its check calls it.
Stored(v) == IF v.class = "finite" THEN ToString(v.num) \o "/2" ELSE v.class

Outcome(o) == IF o.error = "none" THEN Stored(o.value) ELSE "EvalError"

\* expr.Compile makes a tree of every expression that compiles, and a finite
\* float64 is a number the result column takes.
ASSUME AstAssumption ==
    /\ IsFiniteSet(Ids) /\ Ids \subseteq 1..Cardinality(Ids) /\ Root \in Ids
    /\ \A e \in DOMAIN AstOf : E!IsTree(AstOf[e])
    /\ \A v \in Finites : Stored(v) \in Numbers
    /\ EvalFaults \subseteq E!FaultKinds

\* The evaluation that is modelled is that of one submission: goroutines share
\* no evaluation, and Orchestrator has any number of them.
ASSUME OneSubmission == \A s, t \in Tasks : s = t

\* What Orchestrator takes an expression for is what its AST means.
ASSUME DenoteIsMeaning ==
    /\ DOMAIN AstOf = {e \in Exprs : Compiles(e)}
    /\ \A e \in DOMAIN AstOf : Denote[e] = Outcome(E!MeaningOf(AstOf[e])[Root])
    /\ EvalFaults # {} => "eval" \in Faults

ServiceInit ==
    /\ Init
    /\ E!WorkerInit
    /\ tree = <<>>
    /\ ctxEnded = FALSE
    /\ node = [n \in Ids |-> "idle"]
    /\ ret = [n \in Ids |-> E!NotYet]
    /\ errChan = [n \in Ids |-> <<>>]

-----------------------------------------------------------------------------

\* program.Node() is what the goroutine will be called with.
CompileAndCreate(t) ==
    /\ \E u \in Users, e \in Exprs : CreateTask(t, u, e) /\ tree' = AstOf[e]
    /\ UNCHANGED evaluation

\* UpdateTaskStatus returned: Evaluate is called for the root.
BeginEvaluation(t) ==
    /\ StartEvaluation(t)
    /\ node' = [node EXCEPT ![Root] = "called"]
    /\ UNCHANGED <<request, handler, response, gone, ctxEnded, ret, errChan, tree>>

\* evalCtx lasts as long as the goroutine.
MinutePasses(t) ==
    /\ pc[t] = "eval"
    /\ E!ContextEnds
    /\ UNCHANGED vars

EvaluateNode(n) == E!EvaluateStep(n) /\ UNCHANGED vars

WorkerOrNetwork(n) ==
    /\ E!WorkerActs(n) \/ E!ConnectionFails(n) \/ E!DeadlineReachesWorker(n)
    /\ UNCHANGED vars

\* Mutant: the goroutine does not wait for the root.
SaveAnyResult(t) ==
    /\ pc[t] = "eval"
    /\ \E n \in Ids : E!Returned(n) /\ ~E!Failed(n)
    /\ LET n == CHOOSE m \in Ids : E!Returned(m) /\ ~E!Failed(m)
           v == Stored(ret[n].value)
       IN  /\ Storable(v)
           /\ wire' = wire \cup {Stmt(t, "result", v)}
    /\ Goto(t, "save_result")
    /\ UNCHANGED <<up, req, call, row, replies, evaluation, tree>>

\* Evaluate returned a value that is finite.
SaveResult(t) ==
    LET v == Stored(ret[Root].value) IN
    /\ pc[t] = "eval"
    /\ E!Returned(Root) /\ ~E!Failed(Root)
    /\ Storable(v)
    /\ Goto(t, "save_result")
    /\ wire' = wire \cup {Stmt(t, "result", v)}
    /\ UNCHANGED <<up, req, call, row, replies, evaluation, tree>>

\* Mutant: an error of the evaluation is only logged.
SaveNoError(t) ==
    /\ pc[t] = "eval"
    /\ E!Returned(Root)
    /\ E!Failed(Root) \/ ~Storable(Stored(ret[Root].value))
    /\ Goto(t, "done")
    /\ UNCHANGED <<up, req, call, row, wire, replies, evaluation, tree>>

\* Evaluate returned an error, or a value that is not.
SaveError(t) ==
    /\ pc[t] = "eval"
    /\ E!Returned(Root)
    /\ \/ /\ E!Failed(Root)
          /\ wire' = wire \cup {Stmt(t, "error", "not evaluated")}
       \/ /\ ~E!Failed(Root) /\ ~Storable(Stored(ret[Root].value))
          /\ wire' = wire \cup {Stmt(t, "error", "not finite")}
    /\ Goto(t, "save_error")
    /\ UNCHANGED <<up, req, call, row, replies, evaluation, tree>>

\* The connection to the worker ends with the process, and with it the
\* contexts of the worker's handlers.
CrashWhileEvaluating ==
    /\ Crash
    /\ node' = [n \in Ids |-> "idle"]
    /\ gone' = {n \in Ids : handler[n] # "none"}
    /\ UNCHANGED <<request, handler, response, ctxEnded, ret, errChan, tree>>

-----------------------------------------------------------------------------

Statements(t) ==
    /\ \/ Handle(t) \/ StartFails(t) \/ Finish(t)
       \/ HasDeadline(pc[t]) /\ LastWriteFails(t)
    /\ UNCHANGED <<evaluation, tree>>

Goroutine(t) ==
    \/ Statements(t)
    \/ BeginEvaluation(t)
    \/ SaveResult(t)
    \/ SaveError(t)

\* What nothing forces to happen, the last statement's loss at any point
\* among it.
Elsewhere ==
    /\ \/ \E t \in Tasks :
            \/ CallerGivesUp(t)
            \/ \E u \in Users, e \in Exprs : RejectExpression(t, u, e)
            \/ LastWriteFails(t)
       \/ Restart
    /\ UNCHANGED <<evaluation, tree>>

Table == Database /\ UNCHANGED <<evaluation, tree>>

ServiceNext ==
    \/ \E t \in Tasks : CompileAndCreate(t) \/ Goroutine(t) \/ MinutePasses(t)
    \/ \E n \in Ids : EvaluateNode(n) \/ WorkerOrNetwork(n)
    \/ Elsewhere
    \/ Table
    \/ CrashWhileEvaluating

\* As in Orchestrator and Evaluator: the worker is not trusted to answer.
ServiceSpec ==
    /\ ServiceInit
    /\ [][ServiceNext]_serviceVars
    /\ \A t \in Tasks : WF_serviceVars(Goroutine(t))
    /\ \A n \in Ids : WF_serviceVars(EvaluateNode(n))
    /\ WF_serviceVars(Table)
    /\ WF_serviceVars(Elsewhere /\ Restart)

-----------------------------------------------------------------------------

\* The evaluator and the worker do what Orchestrator says of one step: the
\* goroutine is given the value of its expression or an error, and in the end
\* one of them, whatever the worker does.
ImplementsOrchestrator == FairSpec

\* A goroutine that has ended has settled its task: none leaves the row
\* pending or processing behind, as long as the database answers.
DoneIsSettled ==
    \A t \in Tasks : pc[t] = "done" => row[t].status \in Final

\* A task whose expression has a finite value fails only for the time or the
\* connection of an operation, and never because its caller gave up.
FailureHasCause ==
    \A t \in Tasks :
        row[t].status = "failed" =>
            \/ Denote[row[t].expr] \notin Numbers
            \/ ctxEnded
            \/ gone # {}

\* Settled with the value of the expression, or with a reason that fits it.
CorrectlySettled(t) ==
    LET v == Denote[row[t].expr] IN
    \/ row[t].status = "completed" /\ row[t].result = v /\ v \in Numbers
    \/ row[t].status = "failed" /\ row[t].error = "not evaluated"
    \/ row[t].status = "failed" /\ row[t].error = "not finite" /\ v \in NonFinite

\* From the answer of SubmitExpression to the last UPDATE: an accepted
\* expression gets its value or an error of its own (README.md:106), even from
\* a worker that hangs, unless the process dies.
AnswerIsCorrect ==
    \A t \in Tasks : call[t] = "accepted" ~> CorrectlySettled(t) \/ pc[t] = "dead"
==============================================================================

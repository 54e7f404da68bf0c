---------------------------- MODULE Orchestrator ----------------------------
(***************************************************************************)
(* The orchestrator's life of a task: the gRPC handler SubmitExpression    *)
(* that inserts a row and spawns a goroutine, the goroutine startEvaluation *)
(* that moves the row from pending to processing and to its final status,  *)
(* and the tasks table they share with nothing but single SQL statements.  *)
(*                                                                         *)
(* A statement is SENT (it enters wire), EXECUTED by the database (it      *)
(* changes a row and a reply enters replies) and its reply RECEIVED, in    *)
(* three steps.  The caller may give it up between any two of them, because *)
(* its context ended or its connection broke, and then cannot know whether *)
(* the row was changed.  Statements of different connections are executed  *)
(* in any order.                                                           *)
(*                                                                         *)
(* A submission and the row it may create share one name, t \in Tasks: the *)
(* id is generated by the INSERT.  A retried submission is another t.      *)
(***************************************************************************)
CONSTANTS
    Tasks,      \* submissions
    Users,      \* authenticated users
    Exprs,      \* expressions
    Numbers,    \* the finite float64 values
    Denote,     \* what expr.Compile and Evaluate make of each expression
    Faults,     \* what the environment may do: see FaultKinds
    Null        \* SQL NULL, a Go nil

NonFinite == {"PInf", "NInf", "NaN"}

(***************************************************************************)
(* "caller": the caller's deadline passes while it waits for the reply;    *)
(* "db":     a statement is lost, or its connection breaks, or its context *)
(*           ends before the reply;                                        *)
(* "late":   a statement that was given up may still be executed;          *)
(* "eval":   Evaluate returns an error the expression is not to blame for  *)
(*           (worker unreachable, 5 s or 1 min deadline);                  *)
(* "crash":  the orchestrator process dies, and may be started again.      *)
(***************************************************************************)
FaultKinds == {"caller", "db", "late", "eval", "crash"}

ASSUME FaultsAssumption == Faults \subseteq FaultKinds

\* An expression denotes a number, a non-finite float, an arithmetic error
\* (division by zero, unsupported node), or nothing: it does not compile.
ASSUME DenoteAssumption ==
    Denote \in [Exprs -> Numbers \cup NonFinite \cup {"EvalError", "Malformed"}]

ASSUME NumbersAssumption ==
    /\ Numbers \cap (NonFinite \cup {"EvalError", "Malformed"}) = {}
    /\ Null \notin Numbers \cup Users \cup Exprs

VARIABLES
    up,         \* the orchestrator process is running
    req,        \* [Tasks -> the user and the expression of the submission]
    call,       \* [Tasks -> what the caller of SubmitExpression knows]
    pc,         \* [Tasks -> where the handler, then the goroutine, is]
    row,        \* [Tasks -> the row of the tasks table]
    wire,       \* statements sent and not executed
    replies     \* replies of the database not yet received

vars == <<up, req, call, pc, row, wire, replies>>

-----------------------------------------------------------------------------
\* The tasks table

Final == {"completed", "failed"}

Statuses == {"pending", "processing"} \cup Final

\* error_message, by its origin: UpdateTaskStatus failed, Evaluate failed, or
\* the value was not finite.
Messages == {"not started", "not evaluated", "not finite"}

ASSUME NullAssumption == Null \notin Messages

Row == [user   : Users \cup {Null},
        expr   : Exprs \cup {Null},
        status : Statuses \cup {"absent"},
        result : Numbers \cup {Null},
        error  : Messages \cup {Null}]

NoRow == [user |-> Null, expr |-> Null, status |-> "absent",
          result |-> Null, error |-> Null]

Exists(t) == row[t].status # "absent"

\* The statements of pgxTaskRepository: the INSERT and the three UPDATEs.
Ops == {"insert", "processing", "result", "error"}

Statement ==
         [task : Tasks, op : {"insert", "processing"}, arg : {Null}]
    \cup [task : Tasks, op : {"result"}, arg : Numbers]
    \cup [task : Tasks, op : {"error"}, arg : Messages]

Reply == [task : Tasks, op : Ops, rows : {0, 1}]

\* Mutant: SetTaskResult stores the result and forgets the status.
ApplyKeepingStatus(s, r) ==
    CASE s.op = "insert"     -> [user |-> req[s.task].user,
                                 expr |-> req[s.task].expr,
                                 status |-> "pending",
                                 result |-> Null, error |-> Null]
      [] s.op = "processing" -> [r EXCEPT !.status = "processing"]
      [] s.op = "result"     -> [r EXCEPT !.result = s.arg, !.error = Null]
      [] s.op = "error"      -> [r EXCEPT !.status = "failed",
                                          !.result = Null, !.error = s.arg]

\* No UPDATE looks at the status it overwrites, and UpdateTaskStatus leaves
\* result and error_message as they are.
Apply(s, r) ==
    CASE s.op = "insert"     -> [user |-> req[s.task].user,
                                 expr |-> req[s.task].expr,
                                 status |-> "pending",
                                 result |-> Null, error |-> Null]
      [] s.op = "processing" -> [r EXCEPT !.status = "processing"]
      [] s.op = "result"     -> [r EXCEPT !.status = "completed",
                                          !.result = s.arg, !.error = Null]
      [] s.op = "error"      -> [r EXCEPT !.status = "failed",
                                          !.result = Null, !.error = s.arg]

\* An UPDATE ... WHERE id = t that finds no row changes nothing.
Finds(s) == s.op = "insert" \/ Exists(s.task)

-----------------------------------------------------------------------------
\* The program: where each submission's code is, and what it waits for there.

\* The statement the code waits for at a program point, if it waits for one.
AwaitedOp(point) ==
    CASE point = "insert"                       -> "insert"
      [] point = "start"                        -> "processing"
      [] point \in {"fail_start", "save_error"} -> "error"
      [] point = "save_result"                  -> "result"
      [] OTHER                                  -> "none"

\* In the goroutine startEvaluation, before its last statement has returned.
Running == {"start", "fail_start", "eval", "save_error", "save_result"}

PCs == {"idle", "insert", "closed", "done", "dead"} \cup Running

\* Mutant: SetTaskResult, too, is sent under context.Background().
HasDeadlineUnlessSaving(point) == point \notin {"fail_start", "save_result"}

\* All but one statement are sent under a context with a deadline: the
\* handler's, evalCtx, or a fresh one of 5 s.  SetTaskError of a task that
\* could not be started runs under context.Background().
HasDeadline(point) == point # "fail_start"

Answered(t, n) ==
    [task |-> t, op |-> AwaitedOp(pc[t]), rows |-> n] \in replies

\* Mutant: the context is not passed to Exec, so giving up cancels nothing.
WireUncancelled(t) == wire

\* What is left on the wire and of the replies when t's caller stops waiting.
WireWithout(t) ==
    IF "late" \in Faults THEN wire ELSE {s \in wire : s.task # t}

RepliesWithout(t) == {r \in replies : r.task # t}

Goto(t, point) == pc' = [pc EXCEPT ![t] = point]

Stmt(t, op, arg) == [task |-> t, op |-> op, arg |-> arg]

Init ==
    /\ up = TRUE
    /\ req = [t \in Tasks |-> [user |-> Null, expr |-> Null]]
    /\ call = [t \in Tasks |-> "none"]
    /\ pc = [t \in Tasks |-> "idle"]
    /\ row = [t \in Tasks |-> NoRow]
    /\ wire = {}
    /\ replies = {}

-----------------------------------------------------------------------------
\* SubmitExpression

\* expr.Compile (and the checks of the two ids and of the empty string).
Compiles(e) == Denote[e] # "Malformed"

\* Mutant: the row is created before the expression is compiled, the order of
\* docs/05_оркестратор.md:69-70.
RejectAfterCreating(t, u, e) ==
    /\ up
    /\ pc[t] = "idle"
    /\ ~Compiles(e)
    /\ req' = [req EXCEPT ![t] = [user |-> u, expr |-> e]]
    /\ call' = [call EXCEPT ![t] = "rejected"]
    /\ Goto(t, "closed")
    /\ wire' = wire \cup {Stmt(t, "insert", Null)}
    /\ UNCHANGED <<up, row, replies>>

RejectExpression(t, u, e) ==
    /\ up
    /\ pc[t] = "idle"
    /\ ~Compiles(e)
    /\ req' = [req EXCEPT ![t] = [user |-> u, expr |-> e]]
    /\ call' = [call EXCEPT ![t] = "rejected"]
    /\ Goto(t, "closed")
    /\ UNCHANGED <<up, row, wire, replies>>

\* CreateTask sends its INSERT.
CreateTask(t, u, e) ==
    /\ up
    /\ pc[t] = "idle"
    /\ Compiles(e)
    /\ req' = [req EXCEPT ![t] = [user |-> u, expr |-> e]]
    /\ call' = [call EXCEPT ![t] = "waiting"]
    /\ Goto(t, "insert")
    /\ wire' = wire \cup {Stmt(t, "insert", Null)}
    /\ UNCHANGED <<up, row, replies>>

\* The caller's deadline passes, or its connection breaks: the handler's
\* context is cancelled.
CallerGivesUp(t) ==
    /\ "caller" \in Faults
    /\ call[t] = "waiting"
    /\ call' = [call EXCEPT ![t] = "failed"]
    /\ UNCHANGED <<up, req, pc, row, wire, replies>>

\* CreateTask returns an error: the handler answers Internal and returns.
CreateTaskFails(t) ==
    /\ pc[t] = "insert"
    /\ call[t] = "failed" \/ "db" \in Faults
    /\ call' = [call EXCEPT ![t] = "failed"]
    /\ Goto(t, "closed")
    /\ wire' = WireWithout(t)
    /\ replies' = RepliesWithout(t)
    /\ UNCHANGED <<up, req, row>>

\* Mutant: the goroutine is spawned without waiting for the INSERT.
SpawnUnanswered(t) ==
    /\ pc[t] = "insert"
    /\ call' = [call EXCEPT ![t] = IF @ = "waiting" THEN "accepted" ELSE @]
    /\ Goto(t, "start")
    /\ wire' = wire \cup {Stmt(t, "processing", Null)}
    /\ replies' = RepliesWithout(t)
    /\ UNCHANGED <<up, req, row>>

\* CreateTask returns the id: the goroutine is spawned, whether or not anyone
\* waits for the answer, and its first act is to send UpdateTaskStatus.  The
\* answer, which is given at the same time, reads nothing that act writes.
SpawnEvaluation(t) ==
    /\ pc[t] = "insert"
    /\ Answered(t, 1)
    /\ call' = [call EXCEPT ![t] = IF @ = "waiting" THEN "accepted" ELSE @]
    /\ Goto(t, "start")
    /\ wire' = wire \cup {Stmt(t, "processing", Null)}
    /\ replies' = RepliesWithout(t)
    /\ UNCHANGED <<up, req, row>>

-----------------------------------------------------------------------------
\* startEvaluation

\* Mutant: no return after SetTaskError, the evaluation goes on.
StartFailsWithoutReturn(t) ==
    /\ pc[t] = "start"
    /\ Answered(t, 0) \/ "db" \in Faults
    /\ Goto(t, "eval")
    /\ wire' = WireWithout(t) \cup {Stmt(t, "error", "not started")}
    /\ replies' = RepliesWithout(t)
    /\ UNCHANGED <<up, req, call, row>>

\* Mutant: the error of UpdateTaskStatus is ignored.
StartFailsIgnored(t) ==
    /\ pc[t] = "start"
    /\ Answered(t, 0) \/ "db" \in Faults
    /\ Goto(t, "eval")
    /\ wire' = WireWithout(t)
    /\ replies' = RepliesWithout(t)
    /\ UNCHANGED <<up, req, call, row>>

\* UpdateTaskStatus returned an error (evalCtx ended, connection broken, no
\* such row): SetTaskError is sent under context.Background().
StartFails(t) ==
    /\ pc[t] = "start"
    /\ Answered(t, 0) \/ "db" \in Faults
    /\ Goto(t, "fail_start")
    /\ wire' = WireWithout(t) \cup {Stmt(t, "error", "not started")}
    /\ replies' = RepliesWithout(t)
    /\ UNCHANGED <<up, req, call, row>>

\* Mutant: the evaluation does not wait for UpdateTaskStatus.
StartUnanswered(t) ==
    /\ pc[t] = "start"
    /\ Goto(t, "eval")
    /\ replies' = RepliesWithout(t)
    /\ UNCHANGED <<up, req, call, row, wire>>

StartEvaluation(t) ==
    /\ pc[t] = "start"
    /\ Answered(t, 1)
    /\ Goto(t, "eval")
    /\ replies' = RepliesWithout(t)
    /\ UNCHANGED <<up, req, call, row, wire>>

\* Mutant: no check.
StorableAlways(v) == TRUE

\* The check of the root value: math.IsInf(result, 0) || math.IsNaN(result).
Storable(v) == v \notin NonFinite

\* Mutant: goroutines share the variable that holds the AST.
EvaluationOfAnother(t) ==
    /\ pc[t] = "eval"
    /\ \E q \in Tasks :
         LET v == Denote[req[q].expr] IN
         /\ pc[q] \in Running
         /\ v # "EvalError"
         /\ Storable(v)
         /\ Goto(t, "save_result")
         /\ wire' = wire \cup {Stmt(t, "result", v)}
    /\ UNCHANGED <<up, req, call, row, replies>>

\* Evaluate returned a value that can be stored: SetTaskResult is sent.
EvaluationSucceeds(t) ==
    LET v == Denote[req[t].expr] IN
    /\ pc[t] = "eval"
    /\ v # "EvalError"
    /\ Storable(v)
    /\ Goto(t, "save_result")
    /\ wire' = wire \cup {Stmt(t, "result", v)}
    /\ UNCHANGED <<up, req, call, row, replies>>

\* Evaluate returned an error, or a value that is not finite: SetTaskError is
\* sent.
EvaluationFails(t) ==
    LET v == Denote[req[t].expr] IN
    /\ pc[t] = "eval"
    /\ Goto(t, "save_error")
    /\ \/ /\ v = "EvalError" \/ "eval" \in Faults
          /\ wire' = wire \cup {Stmt(t, "error", "not evaluated")}
       \/ /\ v # "EvalError" /\ ~Storable(v)
          /\ wire' = wire \cup {Stmt(t, "error", "not finite")}
    /\ UNCHANGED <<up, req, call, row, replies>>

\* The last statement of the goroutine returned; its error is only logged.
Finish(t) ==
    /\ pc[t] \in {"fail_start", "save_error", "save_result"}
    /\ Answered(t, 0) \/ Answered(t, 1)
    /\ Goto(t, "done")
    /\ replies' = RepliesWithout(t)
    /\ UNCHANGED <<up, req, call, row, wire>>

\* The last statement's context ended or its connection broke; the error is
\* only logged, and the task is left as it is.
LastWriteFails(t) ==
    /\ "db" \in Faults
    /\ pc[t] \in {"fail_start", "save_error", "save_result"}
    /\ Goto(t, "done")
    /\ wire' = WireWithout(t)
    /\ replies' = RepliesWithout(t)
    /\ UNCHANGED <<up, req, call, row>>

-----------------------------------------------------------------------------
\* The database

Execute(s) ==
    /\ s \in wire
    /\ wire' = wire \ {s}
    /\ row' = IF Finds(s) THEN [row EXCEPT ![s.task] = Apply(s, @)] ELSE row
    /\ replies' =
         IF AwaitedOp(pc[s.task]) = s.op
         THEN replies \cup {[task |-> s.task, op |-> s.op,
                             rows |-> IF Finds(s) THEN 1 ELSE 0]}
         ELSE replies    \* nobody waits for it any more
    /\ UNCHANGED <<up, req, call, pc>>

\* A statement is lost, with the connection or the server that held it.
Lose(s) ==
    /\ "db" \in Faults
    /\ s \in wire
    /\ wire' = wire \ {s}
    /\ UNCHANGED <<up, req, call, pc, row, replies>>

-----------------------------------------------------------------------------
\* The process

\* Every handler and goroutine is lost; fx runs no OnStop hook and nothing
\* waits for them on a signal either.  Only the table survives.
Crash ==
    /\ "crash" \in Faults
    /\ up
    /\ up' = FALSE
    /\ pc' = [t \in Tasks |->
                IF pc[t] = "insert" \/ pc[t] \in Running THEN "dead" ELSE pc[t]]
    /\ call' = [t \in Tasks |->
                  IF call[t] = "waiting" THEN "failed" ELSE call[t]]
    /\ wire' = IF "late" \in Faults THEN wire ELSE {}
    /\ replies' = {}
    /\ UNCHANGED <<req, row>>

\* NewPool and the servers start; no code looks for unfinished tasks.
Restart ==
    /\ ~up
    /\ up' = TRUE
    /\ UNCHANGED <<req, call, pc, row, wire, replies>>

-----------------------------------------------------------------------------

Submit(t) ==
    \E u \in Users, e \in Exprs : RejectExpression(t, u, e) \/ CreateTask(t, u, e)

\* What the code itself does for t, its caller and its faults left aside.
Handle(t) == CreateTaskFails(t) \/ SpawnEvaluation(t)

Evaluate(t) ==
    \/ StartFails(t)
    \/ StartEvaluation(t)
    \/ EvaluationSucceeds(t)
    \/ EvaluationFails(t)
    \/ Finish(t)
    \/ HasDeadline(pc[t]) /\ LastWriteFails(t)

Database == \E s \in wire : Execute(s) \/ Lose(s)

Next ==
    \/ \E t \in Tasks :
         \/ Submit(t)
         \/ CallerGivesUp(t)
         \/ Handle(t)
         \/ Evaluate(t)
         \/ LastWriteFails(t)
    \/ Database
    \/ Crash
    \/ Restart

Spec == Init /\ [][Next]_vars

(***************************************************************************)
(* Goroutines are scheduled, a context with a deadline ends, and the       *)
(* database executes what reaches it.  A process that died is started      *)
(* again.  Nothing forces a submission, a fault, or the end of a statement *)
(* sent under context.Background().                                        *)
(***************************************************************************)
Fairness ==
    /\ \A t \in Tasks : WF_vars(Handle(t)) /\ WF_vars(Evaluate(t))
    /\ WF_vars(Database)
    /\ WF_vars(Restart)

FairSpec == Spec /\ Fairness

-----------------------------------------------------------------------------
\* Types

TypeOK ==
    /\ up \in BOOLEAN
    /\ req \in [Tasks -> [user : Users \cup {Null}, expr : Exprs \cup {Null}]]
    /\ call \in [Tasks -> {"none", "waiting", "accepted", "rejected", "failed"}]
    /\ pc \in [Tasks -> PCs]
    /\ row \in [Tasks -> Row]
    /\ wire \subseteq Statement
    /\ replies \subseteq Reply

-----------------------------------------------------------------------------
\* Safety, whatever fails

\* A task has a result exactly when it is completed: neither a late statement,
\* nor a crash between the statements of a goroutine, nor the unguarded
\* UPDATEs of task_postgres.go separate the two.
ResultIffCompleted ==
    \A t \in Tasks : row[t].status = "completed" <=> row[t].result # Null

\* The result of a completed task is the value of the expression its row
\* holds: the goroutine works on the AST its handler compiled while the row
\* was written by another statement, and never stores a value that is not
\* finite.
ResultIsValue ==
    \A t \in Tasks :
        row[t].status = "completed" =>
            /\ row[t].expr # Null
            /\ row[t].result = Denote[row[t].expr]
            /\ row[t].result \in Numbers

\* No UPDATE reaches the database before the row it is for: RowsAffected() is
\* never 0 and the goroutine never meets ErrTaskNotFound.
UpdatesFindTheirRow ==
    \A s \in wire : s.op # "insert" => Exists(s.task)

\* What SubmitExpression answered is true of the table, then and later: an id
\* stands for a row with the user and expression of that very call, and
\* InvalidArgument for none, not even one still to come.
AnswersAreTrue ==
    \A t \in Tasks :
        /\ call[t] = "accepted" =>
              /\ Exists(t)
              /\ row[t].user = req[t].user
              /\ row[t].expr = req[t].expr
        /\ call[t] = "rejected" =>
              /\ ~Exists(t)
              /\ \A s \in wire : s.task # t

\* A completed task stays as it is: no statement that was given up earlier
\* can still change its row.
CompletedIsFinal ==
    [][\A t \in Tasks : row[t].status = "completed" => row'[t] = row[t]]_vars

-----------------------------------------------------------------------------
\* Safety, when no statement is executed after it was given up

\* error_message is set exactly when the task has failed
\* (proto/orchestrator.proto:40).
ErrorIffFailed ==
    \A t \in Tasks : row[t].status = "failed" <=> row[t].error # Null

\* A settled task stays as it is.
SettledIsFinal ==
    [][\A t \in Tasks : row[t].status \in Final => row'[t] = row[t]]_vars

\* The table moves as the lifecycle of TaskLifecycle.tla.
Lifecycle == INSTANCE TaskLifecycle WITH
    NoAnswer <- Null,
    phase    <- [t \in Tasks |-> row[t].status],
    answer   <- [t \in Tasks |-> row[t].result]

ImplementsLifecycle == Lifecycle!Spec

-----------------------------------------------------------------------------
\* Liveness

\* Every goroutine ends, or dies with its process, or is stuck in the one
\* statement that has no deadline.
GoroutinesEnd ==
    \A t \in Tasks :
        pc[t] \in Running ~> pc[t] \in {"done", "dead", "fail_start"}

\* A task whose id the user was given is settled in the end: "the result can
\* be asked for later" (README.md:85).
AcceptedSettles ==
    \A t \in Tasks : call[t] = "accepted" ~> row[t].status \in Final

\* Every row is settled in the end, whether or not anyone was told its id.
EveryRowSettles == Lifecycle!EverySettles
==============================================================================

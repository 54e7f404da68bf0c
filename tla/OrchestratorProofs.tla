------------------------- MODULE OrchestratorProofs -------------------------
(***************************************************************************)
(* Proofs about Orchestrator, for every set of submissions, users and      *)
(* expressions, and every set of faults unless a theorem says otherwise.   *)
(*                                                                         *)
(* The invariants the runs check are not inductive: they speak of rows, and *)
(* a row is only as good as the statements that may still reach it.  The   *)
(* inductive invariant bounds, for each program point, the statements of   *)
(* the submission that can be on the wire.                                 *)
(***************************************************************************)
EXTENDS Orchestrator, TLAPS

\* The statements of a submission that can be on the wire when its code is at
\* a point: those it waits for, and those it gave up before.
MayBeSent(point) ==
    CASE point = "idle"        -> {}
      [] point = "insert"      -> {"insert"}
      [] point = "closed"      -> {"insert"}
      [] point = "start"       -> {"processing"}
      [] point = "fail_start"  -> {"processing", "error"}
      [] point = "eval"        -> {}
      [] point = "save_error"  -> {"error"}
      [] point = "save_result" -> {"result"}
      [] point = "done"        -> {"processing", "error", "result"}
      [] point = "dead"        -> Ops

\* A submission's user and expression are known from its first step on, and
\* only an expression that compiles gets past the handler.
RequestInv(t) ==
    /\ pc[t] # "idle" => req[t].user \in Users /\ req[t].expr \in Exprs
    /\ pc[t] \notin {"idle", "closed"} => Compiles(req[t].expr)

\* The caller's knowledge fits the program point.
CallInv(t) ==
    /\ call[t] = "none" <=> pc[t] = "idle"
    /\ call[t] = "waiting" => pc[t] = "insert"
    /\ call[t] = "rejected" => pc[t] = "closed"
    /\ call[t] = "accepted" => Exists(t)

\* Where the goroutine runs the row exists; before the last statement it has
\* no result.
PointInv(t) ==
    /\ pc[t] \in Running \cup {"done"} => Exists(t)
    /\ pc[t] \notin {"save_result", "done", "dead"} => row[t].result = Null
    /\ pc[t] = "idle" => ~Exists(t)
    /\ call[t] = "rejected" => ~Exists(t)

\* A row belongs to its submission, and its result to its expression.
RowInv(t) ==
    /\ row[t].status = "completed" <=> row[t].result # Null
    /\ Exists(t) => row[t].user = req[t].user /\ row[t].expr = req[t].expr
    /\ row[t].result # Null => row[t].result = Denote[req[t].expr]

\* A statement on the wire is one its submission can have sent, on a row whose
\* result is still open.
WireInv(s) ==
    /\ s.op \in MayBeSent(pc[s.task])
    /\ call[s.task] # "rejected"
    /\ row[s.task].result = Null
    /\ s.op = "insert" <=> ~Exists(s.task)
    /\ s.op = "result" => s.arg = Denote[req[s.task].expr]

\* No statement is on the wire twice, and SetTaskResult only alone.
OneEach ==
    \A s, q \in wire :
        s.task = q.task /\ (s.op = q.op \/ s.op = "result") => q = s

\* A reply is awaited, and is of a statement that is no longer on the wire.
ReplyInv(r) ==
    /\ r.op = AwaitedOp(pc[r.task])
    /\ r.rows = 1
    /\ Exists(r.task)
    /\ \A s \in wire : s.task = r.task => s.op # r.op

Typed == TypeOK /\ \A t \in Tasks : RequestInv(t)

Inv ==
    /\ Typed
    /\ \A t \in Tasks : CallInv(t) /\ PointInv(t) /\ RowInv(t)
    /\ \A s \in wire : WireInv(s)
    /\ OneEach
    /\ \A r \in replies : ReplyInv(r)
-----------------------------------------------------------------------------

USE FaultsAssumption, DenoteAssumption, NumbersAssumption, NullAssumption

\* The initial state has the types.
LEMMA TypeInit == Init => Typed
  BY DEF Init, Typed, RequestInv, TypeOK, PCs, Row, NoRow

\* A step of any action keeps the types, and requests that name their user and
\* expression.
LEMMA TypeStep == Typed /\ [Next]_vars => Typed'
<1> SUFFICES ASSUME Typed, [Next]_vars PROVE Typed'
  OBVIOUS
<1> USE DEF Typed, RequestInv, TypeOK, PCs, Running, Goto, Stmt, Statement, Ops, WireWithout,
            RepliesWithout
<1>1. ASSUME NEW t \in Tasks, NEW u \in Users, NEW e \in Exprs,
             RejectExpression(t, u, e)
      PROVE  Typed'
  BY <1>1 DEF RejectExpression
<1>2. ASSUME NEW t \in Tasks, NEW u \in Users, NEW e \in Exprs,
             CreateTask(t, u, e)
      PROVE  Typed'
  BY <1>2 DEF CreateTask, Compiles
<1>3. ASSUME NEW t \in Tasks, CallerGivesUp(t) PROVE Typed'
  BY <1>3 DEF CallerGivesUp
<1>4. ASSUME NEW t \in Tasks, CreateTaskFails(t) PROVE Typed'
  BY <1>4 DEF CreateTaskFails
<1>5. ASSUME NEW t \in Tasks, SpawnEvaluation(t) PROVE Typed'
  BY <1>5 DEF SpawnEvaluation
<1>6. ASSUME NEW t \in Tasks, StartFails(t) PROVE Typed'
  <2>1. \A q \in Tasks : RequestInv(q)'
    BY <1>6 DEF StartFails
  <2>2. Stmt(t, "error", "not started") \in Statement
    BY DEF Messages
  <2> QED
    BY <1>6, <2>1, <2>2 DEF StartFails
<1>7. ASSUME NEW t \in Tasks, StartEvaluation(t) PROVE Typed'
  BY <1>7 DEF StartEvaluation
<1>8. ASSUME NEW t \in Tasks, EvaluationSucceeds(t) PROVE Typed'
  BY <1>8 DEF EvaluationSucceeds, Storable, Compiles
<1>9. ASSUME NEW t \in Tasks, EvaluationFails(t) PROVE Typed'
  <2>1. /\ Stmt(t, "error", "not evaluated") \in Statement
        /\ Stmt(t, "error", "not finite") \in Statement
    BY DEF Messages
  <2>2. \/ wire' = wire \cup {Stmt(t, "error", "not evaluated")}
        \/ wire' = wire \cup {Stmt(t, "error", "not finite")}
    BY <1>9 DEF EvaluationFails
  <2>3. TypeOK'
    BY <1>9, <2>1, <2>2 DEF EvaluationFails
  <2>4. \A q \in Tasks : RequestInv(q)'
    BY <1>9 DEF EvaluationFails
  <2> QED
    BY <2>3, <2>4
<1>10. ASSUME NEW t \in Tasks, Finish(t) PROVE Typed'
  BY <1>10 DEF Finish
<1>11. ASSUME NEW t \in Tasks, LastWriteFails(t) PROVE Typed'
  BY <1>11 DEF LastWriteFails
<1>12. ASSUME NEW s \in wire, Execute(s) PROVE Typed'
  <2> USE <1>12 DEF Execute
  <2>1. s \in Statement
    OBVIOUS
  <2>2. Apply(s, row[s.task]) \in Row
    <3>1. row[s.task] \in Row /\ s.task \in Tasks
      BY <2>1
    <3>2. CASE s.op = "insert"
      BY <3>1, <3>2 DEF Apply, Row, Statuses
    <3>3. CASE s.op = "processing"
      BY <3>1, <3>3 DEF Apply, Row, Statuses
    <3>4. CASE s.op = "result"
      <4>1. s.arg \in Numbers
        BY <2>1, <3>4
      <4> QED
        BY <3>1, <3>4, <4>1 DEF Apply, Row, Statuses, Final
    <3>5. CASE s.op = "error"
      <4>1. s.arg \in Messages
        BY <2>1, <3>5
      <4> QED
        BY <3>1, <3>5, <4>1 DEF Apply, Row, Statuses, Final
    <3> QED
      BY <2>1, <3>2, <3>3, <3>4, <3>5
  <2>3. row' \in [Tasks -> Row]
    BY <2>1, <2>2
  <2>4. replies' \subseteq Reply
    BY <2>1 DEF Reply
  <2> QED
    BY <2>1, <2>3, <2>4
<1>13. ASSUME NEW s \in wire, Lose(s) PROVE Typed'
  BY <1>13 DEF Lose
<1>14. CASE Crash
  BY <1>14 DEF Crash
<1>15. CASE Restart
  BY <1>15 DEF Restart
<1>16. CASE UNCHANGED vars
  BY <1>16 DEF vars
<1> QED
  BY <1>1, <1>2, <1>3, <1>4, <1>5, <1>6, <1>7, <1>8, <1>9, <1>10, <1>11,
     <1>12, <1>13, <1>14, <1>15, <1>16
     DEF Next, Submit, Handle, Evaluate, Database

\* Type correctness: every variable keeps its type, whatever fails.
THEOREM TypeCorrect == Spec => []TypeOK
<1>1. Typed => TypeOK
  BY DEF Typed
<1> QED
  BY TypeInit, TypeStep, <1>1, PTL DEF Spec

-----------------------------------------------------------------------------

\* Nothing is submitted, sent or answered in the initial state.
LEMMA InvInit == Init => Inv
  BY TypeInit DEF Init, Inv, CallInv, PointInv, RowInv, OneEach, Exists, NoRow,
                  Running

\* The inductive invariant but for its types.
Rest ==
    /\ \A t \in Tasks : CallInv(t) /\ PointInv(t) /\ RowInv(t)
    /\ \A s \in wire : WireInv(s)
    /\ OneEach
    /\ \A r \in replies : ReplyInv(r)

\* Every step keeps what Inv says beyond the types.
LEMMA RestStep == Inv /\ Typed' /\ [Next]_vars => Rest'
<1> SUFFICES ASSUME Inv, Typed', [Next]_vars PROVE Rest'
  OBVIOUS
<1> USE DEF Inv, Typed, RequestInv, TypeOK, Rest, CallInv, PointInv, RowInv,
            WireInv, OneEach, ReplyInv, MayBeSent, AwaitedOp, PCs, Running,
            Ops, Goto, Stmt, Statement, Reply, WireWithout, RepliesWithout,
            Exists, Answered
<1>1. ASSUME NEW t \in Tasks, NEW u \in Users, NEW e \in Exprs,
             RejectExpression(t, u, e)
      PROVE  Rest'
  BY <1>1 DEF RejectExpression
<1>2. ASSUME NEW t \in Tasks, NEW u \in Users, NEW e \in Exprs,
             CreateTask(t, u, e)
      PROVE  Rest'
  BY <1>2 DEF CreateTask
<1>3. ASSUME NEW t \in Tasks, CallerGivesUp(t)
      PROVE  Rest'
  BY <1>3 DEF CallerGivesUp
<1>4. ASSUME NEW t \in Tasks, CreateTaskFails(t)
      PROVE  Rest'
  BY <1>4 DEF CreateTaskFails
<1>5. ASSUME NEW t \in Tasks, SpawnEvaluation(t)
      PROVE  Rest'
  BY <1>5 DEF SpawnEvaluation
<1>6. ASSUME NEW t \in Tasks, StartFails(t)
      PROVE  Rest'
  <2>1. /\ pc[t] = "start"
        /\ pc' = [pc EXCEPT ![t] = "fail_start"]
        /\ UNCHANGED <<up, req, call, row>>
    BY <1>6 DEF StartFails
  <2>2. PICK m : wire' \subseteq wire \cup {[task |-> t, op |-> "error", arg |-> m]}
    BY <1>6 DEF StartFails
  <2>3. replies' = {r \in replies : r.task # t}
    BY <1>6 DEF StartFails
  <2>4. \A q \in Tasks : CallInv(q)' /\ PointInv(q)' /\ RowInv(q)'
    BY <2>1
  <2>5. (\A q \in wire' : WireInv(q)') /\ OneEach'
    BY <2>1, <2>2
  <2>6. \A r \in replies' : ReplyInv(r)'
    BY <2>1, <2>2, <2>3
  <2> QED
    BY <2>4, <2>5, <2>6
<1>7. ASSUME NEW t \in Tasks, StartEvaluation(t)
      PROVE  Rest'
  BY <1>7 DEF StartEvaluation
<1>8. ASSUME NEW t \in Tasks, EvaluationSucceeds(t)
      PROVE  Rest'
  BY <1>8 DEF EvaluationSucceeds
<1>9. ASSUME NEW t \in Tasks, EvaluationFails(t)
      PROVE  Rest'
  <2>1. /\ pc[t] = "eval"
        /\ pc' = [pc EXCEPT ![t] = "save_error"]
        /\ UNCHANGED <<up, req, call, row, replies>>
    BY <1>9 DEF EvaluationFails
  <2>2. PICK m : wire' = wire \cup {[task |-> t, op |-> "error", arg |-> m]}
    BY <1>9 DEF EvaluationFails
  <2> QED
    BY <2>1, <2>2
<1>10. ASSUME NEW t \in Tasks, Finish(t)
      PROVE  Rest'
  BY <1>10 DEF Finish
<1>11. ASSUME NEW t \in Tasks, LastWriteFails(t)
      PROVE  Rest'
  BY <1>11 DEF LastWriteFails
<1>12. ASSUME NEW s \in wire, Execute(s)
      PROVE  Rest'
  <2>1. \A q \in Tasks : CallInv(q)' /\ PointInv(q)' /\ RowInv(q)'
    BY <1>12 DEF Execute, Finds, Apply, NoRow
  <2>2. \A q \in wire' : WireInv(q)'
    BY <1>12 DEF Execute, Finds, Apply, NoRow
  <2>3. OneEach'
    BY <1>12 DEF Execute, Finds, Apply, NoRow
  <2>4. \A r \in replies' : ReplyInv(r)'
    BY <1>12 DEF Execute, Finds, Apply, NoRow
  <2> QED
    BY <2>1, <2>2, <2>3, <2>4
<1>13. ASSUME NEW s \in wire, Lose(s)
      PROVE  Rest'
  BY <1>13 DEF Lose
<1>14. CASE Crash
  BY <1>14 DEF Crash
<1>15. CASE Restart
  BY <1>15 DEF Restart
<1>16. CASE UNCHANGED vars
  BY <1>16 DEF vars
<1> QED
  BY <1>1, <1>2, <1>3, <1>4, <1>5, <1>6, <1>7, <1>8, <1>9, <1>10, <1>11,
     <1>12, <1>13, <1>14, <1>15, <1>16
     DEF Next, Submit, Handle, Evaluate, Database

\* The inductive invariant, whatever fails.
THEOREM Invariance == Spec => []Inv
<1>1. Inv /\ [Next]_vars => Inv'
  BY TypeStep, RestStep DEF Inv, Rest
<1> QED
  BY InvInit, <1>1, PTL DEF Spec

\* A task has a result exactly when it is completed.
THEOREM ResultTheorem == Spec => []ResultIffCompleted
<1>1. Inv => ResultIffCompleted
  BY DEF Inv, Typed, TypeOK, Row, RowInv, ResultIffCompleted
<1> QED
  BY Invariance, <1>1, PTL

\* The result of a completed task is the value of the expression its row holds.
THEOREM ValueTheorem == Spec => []ResultIsValue
<1>1. Inv => ResultIsValue
  BY DEF Inv, Typed, TypeOK, Row, RowInv, RequestInv, CallInv, PointInv, Exists,
         ResultIsValue
<1> QED
  BY Invariance, <1>1, PTL

\* No UPDATE overtakes the INSERT of its row.
THEOREM UpdateTheorem == Spec => []UpdatesFindTheirRow
<1>1. Inv => UpdatesFindTheirRow
  BY DEF Inv, WireInv, UpdatesFindTheirRow
<1> QED
  BY Invariance, <1>1, PTL

\* What SubmitExpression answered is true of the table.
THEOREM AnswerTheorem == Spec => []AnswersAreTrue
<1>1. Inv => AnswersAreTrue
  BY DEF Inv, Typed, TypeOK, Statement, CallInv, PointInv, RowInv, WireInv,
         AnswersAreTrue
<1> QED
  BY Invariance, <1>1, PTL

\* No statement, late or not, changes the row of a completed task.
THEOREM CompletedTheorem == Spec => CompletedIsFinal
<1>1. Inv /\ [Next]_vars =>
        [\A t \in Tasks : row[t].status = "completed" => row'[t] = row[t]]_vars
  <2> SUFFICES ASSUME Inv, [Next]_vars, NEW t \in Tasks,
                      row[t].status = "completed"
               PROVE  row'[t] = row[t]
    OBVIOUS
  <2>1. CASE row' = row
    BY <2>1
  <2>2. ASSUME NEW s \in wire, Execute(s) PROVE row'[t] = row[t]
    <3>1. row[t].result # Null /\ row[s.task].result = Null
      BY DEF Inv, RowInv, WireInv
    <3> QED
      BY <2>2, <3>1 DEF Execute, Inv, Typed, TypeOK
  <2> QED
    BY <2>1, <2>2 DEF Next, Submit, Handle, Evaluate, Database, vars,
       RejectExpression, CreateTask, CallerGivesUp, CreateTaskFails,
       SpawnEvaluation, StartFails, StartEvaluation, EvaluationSucceeds,
       EvaluationFails, Finish, LastWriteFails, Lose, Crash, Restart
<1> QED
  BY Invariance, <1>1, PTL DEF CompletedIsFinal, Spec

-----------------------------------------------------------------------------
(***************************************************************************)
(* When a statement that was given up is never executed, the wire holds    *)
(* what the code waits for and nothing else, and the status of a row is    *)
(* known from it.                                                          *)
(***************************************************************************)

StatusInv(t) ==
    /\ row[t].status = "failed" <=> row[t].error # Null
    /\ pc[t] = "start" => row[t].status \in {"pending", "processing"}
    /\ pc[t] = "eval" => row[t].status = "processing"

AwaitedInv(s) ==
    /\ s.op = AwaitedOp(pc[s.task])
    /\ s.op = "processing" => row[s.task].status = "pending"
    /\ s.op = "result" => row[s.task].status = "processing"
    /\ s.op = "error" => row[s.task].status \in {"pending", "processing"}

AnsweredInv(r) ==
    /\ r.op = "insert" => row[r.task].status = "pending"
    /\ r.op = "processing" => row[r.task].status = "processing"

QuietInv ==
    /\ \A t \in Tasks : StatusInv(t)
    /\ \A s \in wire : AwaitedInv(s)
    /\ \A r \in replies : AnsweredInv(r)

\* The initial state, for the invariant of the case that nothing is late.
LEMMA QuietInit == Init => QuietInv
  BY DEF Init, QuietInv, StatusInv, NoRow

\* Every step keeps it: with "late" gone, a statement on the wire is always
\* the one its submission waits for.
LEMMA QuietStep ==
    ASSUME "late" \notin Faults
    PROVE  Inv /\ QuietInv /\ [Next]_vars => QuietInv'
<1> SUFFICES ASSUME Inv, QuietInv, [Next]_vars PROVE QuietInv'
  OBVIOUS
<1> USE DEF Inv, Typed, TypeOK, WireInv, ReplyInv, OneEach, QuietInv, StatusInv,
            AwaitedInv, AnsweredInv, AwaitedOp, MayBeSent, Goto, Stmt, Statement,
            Reply, WireWithout, RepliesWithout, Exists, Answered
<1>1. ASSUME NEW t \in Tasks, NEW u \in Users, NEW e \in Exprs,
             RejectExpression(t, u, e)
      PROVE  QuietInv'
  BY <1>1 DEF RejectExpression
<1>2. ASSUME NEW t \in Tasks, NEW u \in Users, NEW e \in Exprs,
             CreateTask(t, u, e)
      PROVE  QuietInv'
  BY <1>2 DEF CreateTask
<1>3. ASSUME NEW t \in Tasks, CallerGivesUp(t)
      PROVE  QuietInv'
  BY <1>3 DEF CallerGivesUp
<1>4. ASSUME NEW t \in Tasks, CreateTaskFails(t)
      PROVE  QuietInv'
  BY <1>4 DEF CreateTaskFails
<1>5. ASSUME NEW t \in Tasks, SpawnEvaluation(t)
      PROVE  QuietInv'
  BY <1>5 DEF SpawnEvaluation
<1>6. ASSUME NEW t \in Tasks, StartFails(t)
      PROVE  QuietInv'
  <2>1. /\ pc[t] = "start"
        /\ pc' = [pc EXCEPT ![t] = "fail_start"]
        /\ UNCHANGED <<up, req, call, row>>
    BY <1>6 DEF StartFails
  <2>2. PICK m : wire' = {s \in wire : s.task # t}
                           \cup {[task |-> t, op |-> "error", arg |-> m]}
    BY <1>6 DEF StartFails
  <2>3. replies' = {r \in replies : r.task # t}
    BY <1>6 DEF StartFails
  <2> QED
    BY <2>1, <2>2, <2>3
<1>7. ASSUME NEW t \in Tasks, StartEvaluation(t)
      PROVE  QuietInv'
  BY <1>7 DEF StartEvaluation
<1>8. ASSUME NEW t \in Tasks, EvaluationSucceeds(t)
      PROVE  QuietInv'
  BY <1>8 DEF EvaluationSucceeds
<1>9. ASSUME NEW t \in Tasks, EvaluationFails(t)
      PROVE  QuietInv'
  <2>1. /\ pc[t] = "eval"
        /\ pc' = [pc EXCEPT ![t] = "save_error"]
        /\ UNCHANGED <<up, req, call, row, replies>>
    BY <1>9 DEF EvaluationFails
  <2>2. PICK m : wire' = wire \cup {[task |-> t, op |-> "error", arg |-> m]}
    BY <1>9 DEF EvaluationFails
  <2> QED
    BY <2>1, <2>2
<1>10. ASSUME NEW t \in Tasks, Finish(t)
      PROVE  QuietInv'
  BY <1>10 DEF Finish
<1>11. ASSUME NEW t \in Tasks, LastWriteFails(t)
      PROVE  QuietInv'
  BY <1>11 DEF LastWriteFails
<1>12. ASSUME NEW s \in wire, Execute(s)
      PROVE  QuietInv'
  BY <1>12 DEF Execute, Finds, Apply
<1>13. ASSUME NEW s \in wire, Lose(s)
      PROVE  QuietInv'
  BY <1>13 DEF Lose
<1>14. CASE Crash
  BY <1>14 DEF Crash
<1>15. CASE Restart
  BY <1>15 DEF Restart
<1>16. CASE UNCHANGED vars
  BY <1>16 DEF vars
<1> QED
  BY <1>1, <1>2, <1>3, <1>4, <1>5, <1>6, <1>7, <1>8, <1>9, <1>10, <1>11,
     <1>12, <1>13, <1>14, <1>15, <1>16
     DEF Next, Submit, Handle, Evaluate, Database

\* The inductive invariant of the case that nothing is late.
LEMMA QuietInvariance ==
    ASSUME "late" \notin Faults
    PROVE  Spec => [](Inv /\ QuietInv)
  BY Invariance, QuietInit, QuietStep, PTL DEF Spec

\* error_message is set exactly when the task has failed.
THEOREM ErrorTheorem ==
    ASSUME "late" \notin Faults
    PROVE  Spec => []ErrorIffFailed
<1>1. QuietInv => ErrorIffFailed
  BY DEF QuietInv, StatusInv, ErrorIffFailed
<1> QED
  BY QuietInvariance, <1>1, PTL

\* What a statement can do to a row, when nothing is late: one step of the
\* lifecycle.
LEMMA ExecuteStep ==
    ASSUME Inv, QuietInv, NEW s \in wire, Execute(s)
    PROVE  LET t == s.task
               r == row[t]
               n == Apply(s, r)
           IN /\ t \in Tasks
              /\ row' = [row EXCEPT ![t] = n]
              /\ \/ r.status = "absent" /\ n.status = "pending"
                    /\ n.result = r.result
                 \/ r.status = "pending" /\ n.status = "processing"
                    /\ n.result = r.result
                 \/ r.status = "processing" /\ n.status = "completed"
                    /\ n.result \in Numbers
                 \/ r.status \in {"pending", "processing"} /\ n.status = "failed"
                    /\ n.result = r.result
<1> USE DEF Inv, Typed, TypeOK, QuietInv, AwaitedInv, WireInv, Exists, Statement
<1>1. s.task \in Tasks /\ row[s.task] \in Row /\ row[s.task].result = Null
  OBVIOUS
<1>2. row' = [row EXCEPT ![s.task] = Apply(s, row[s.task])]
  BY DEF Execute, Finds
<1>3. CASE s.op = "insert"
  BY <1>1, <1>2, <1>3 DEF Apply
<1>4. CASE s.op = "processing"
  BY <1>1, <1>2, <1>4 DEF Apply, Row
<1>5. CASE s.op = "result"
  BY <1>1, <1>2, <1>5 DEF Apply, Row
<1>6. CASE s.op = "error"
  BY <1>1, <1>2, <1>6 DEF Apply, Row
<1> QED
  BY <1>3, <1>4, <1>5, <1>6

\* Only the database changes a row.
LEMMA OnlyExecute ==
    ASSUME [Next]_vars
    PROVE  row' = row \/ \E s \in wire : Execute(s)
  BY DEF Next, Submit, Handle, Evaluate, Database, vars,
     RejectExpression, CreateTask, CallerGivesUp, CreateTaskFails,
     SpawnEvaluation, StartFails, StartEvaluation, EvaluationSucceeds,
     EvaluationFails, Finish, LastWriteFails, Lose, Crash, Restart

\* A settled task stays as it is.
THEOREM SettledTheorem ==
    ASSUME "late" \notin Faults
    PROVE  Spec => SettledIsFinal
<1>1. Inv /\ QuietInv /\ [Next]_vars =>
        [\A t \in Tasks : row[t].status \in Final => row'[t] = row[t]]_vars
  <2> SUFFICES ASSUME Inv, QuietInv, [Next]_vars, NEW t \in Tasks,
                      row[t].status \in Final
               PROVE  row'[t] = row[t]
    OBVIOUS
  <2>1. ASSUME NEW s \in wire, Execute(s) PROVE row'[t] = row[t]
    BY <2>1, ExecuteStep DEF Final, Inv, Typed, TypeOK
  <2> QED
    BY <2>1, OnlyExecute
<1> QED
  BY QuietInvariance, <1>1, PTL DEF SettledIsFinal, Spec

\* The table implements the lifecycle of TaskLifecycle.tla.
THEOREM LifecycleTheorem ==
    ASSUME "late" \notin Faults
    PROVE  Spec => ImplementsLifecycle
<1> USE DEF Lifecycle!Init, Lifecycle!Next, Lifecycle!lifecycleVars
<1>1. Init => Lifecycle!Init
  BY DEF Init, NoRow
<1>2. Inv /\ QuietInv /\ [Next]_vars => [Lifecycle!Next]_(Lifecycle!lifecycleVars)
  <2> SUFFICES ASSUME Inv, QuietInv, [Next]_vars
               PROVE  [Lifecycle!Next]_(Lifecycle!lifecycleVars)
    OBVIOUS
  <2>1. CASE row' = row
    BY <2>1
  <2>2. ASSUME NEW s \in wire, Execute(s) PROVE Lifecycle!Next
    <3> DEFINE t == s.task
               n == Apply(s, row[t])
    <3>1. /\ t \in Tasks
          /\ row \in [Tasks -> Row]
          /\ row' = [row EXCEPT ![t] = n]
      BY <2>2, ExecuteStep DEF Inv, Typed, TypeOK
    <3>2. /\ [q \in Tasks |-> row'[q].status]
               = [[q \in Tasks |-> row[q].status] EXCEPT ![t] = n.status]
          /\ [q \in Tasks |-> row'[q].result]
               = [[q \in Tasks |-> row[q].result] EXCEPT ![t] = n.result]
      BY <3>1
    <3>3. n.result = row[t].result =>
            [q \in Tasks |-> row'[q].result] = [q \in Tasks |-> row[q].result]
      BY <3>1, <3>2
    <3>4. \/ /\ row[t].status = "absent" /\ n.status = "pending"
             /\ n.result = row[t].result
          \/ /\ row[t].status = "pending" /\ n.status = "processing"
             /\ n.result = row[t].result
          \/ /\ row[t].status = "processing" /\ n.status = "completed"
             /\ n.result \in Numbers
          \/ /\ row[t].status \in {"pending", "processing"}
             /\ n.status = "failed" /\ n.result = row[t].result
      BY <2>2, ExecuteStep
    <3> HIDE DEF n
    <3> USE <3>1, <3>2 DEF Lifecycle!Move
    <3>5. CASE /\ row[t].status = "absent" /\ n.status = "pending"
               /\ n.result = row[t].result
      BY <3>3, <3>5 DEF Lifecycle!Register
    <3>6. CASE /\ row[t].status = "pending" /\ n.status = "processing"
               /\ n.result = row[t].result
      BY <3>3, <3>6 DEF Lifecycle!TakeUp
    <3>7. CASE /\ row[t].status = "processing" /\ n.status = "completed"
               /\ n.result \in Numbers
      <4>1. [q \in Tasks |-> row[q].status][t] = "processing"
        BY <3>7
      <4>2. [q \in Tasks |-> row'[q].status]
              = [[q \in Tasks |-> row[q].status] EXCEPT ![t] = "completed"]
        BY <3>7
      <4> HIDE <3>1, <3>2
      <4>3. \E v \in Numbers : Lifecycle!Complete(t, v)
        BY <3>2, <3>7, <4>1, <4>2 DEF Lifecycle!Complete
      <4> QED
        BY <3>1, <4>3
    <3>8. CASE /\ row[t].status \in {"pending", "processing"}
               /\ n.status = "failed" /\ n.result = row[t].result
      BY <3>3, <3>8 DEF Lifecycle!Fail
    <3> QED
      BY <3>4, <3>5, <3>6, <3>7, <3>8
  <2> QED
    BY <2>1, <2>2, OnlyExecute
<1> QED
  BY QuietInvariance, <1>1, <1>2, PTL
     DEF ImplementsLifecycle, Lifecycle!Spec, Spec
==============================================================================

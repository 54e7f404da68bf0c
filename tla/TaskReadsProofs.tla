--------------------------- MODULE TaskReadsProofs ---------------------------
(***************************************************************************)
(* That users are shown the truth about their tasks, whatever fails, and,  *)
(* when no statement is late, never see one go back: for any users, any    *)
(* tasks and any number of reads.                                          *)
(*                                                                         *)
(* The first rests on Orchestrator's invariant (an answer is taken from a  *)
(* sound table) and on rows that stay (an answer remains true under way);  *)
(* the second on the order of what is known, under way and in the table.   *)
(***************************************************************************)
EXTENDS TaskReads, OrchestratorProofs

USE DefaultAssumption

DetailsAnswers ==
    [code : {"OK"}, status : Statuses, expr : Exprs, result : Numbers,
     error : Messages \cup {Null}]

ListAnswers == [code : {"OK"}, status : [Tasks -> Statuses \cup {"absent"}]]

Reads ==
    [op : {"none", "details", "list"}, task : Tasks \cup {Null},
     answer : {Unasked, NotFound} \cup DetailsAnswers \cup ListAnswers]

Details ==
    [status : Statuses \cup {"unseen", "not found"}, expr : Exprs \cup {Null},
     result : Numbers \cup {Null}, error : Messages \cup {Null}]

ReadTyped ==
    /\ reading \in [Users -> Reads]
    /\ details \in [Users -> [Tasks -> Details]]
    /\ list \in [Users -> [Tasks -> Statuses \cup {"absent"}]]

\* An answer with a task's details is of the user's own task; 0 stands for
\* NULL in it unless the task is completed.
TrueDetails(u, t, a) ==
    /\ a \in DetailsAnswers
    /\ req[t].user = u
    /\ a.expr = req[t].expr
    /\ a.status = "completed" => a.result = Denote[a.expr]

\* A list has only tasks of its user.
TrueList(u, s) ==
    \A t \in Tasks : s[t] # "absent" => Exists(t) /\ req[t].user = u

\* A request asks for a row that is there, and its answer is true.
ReadingInv(u) ==
    LET r == reading[u] IN
    /\ r.op = "none" => r.answer = Unasked
    /\ r.op = "details" =>
         /\ r.task \in Tasks
         /\ Exists(r.task)
         /\ \/ r.answer = Unasked
            \/ r.answer = NotFound /\ req[r.task].user # u
            \/ TrueDetails(u, r.task, r.answer)
    /\ r.op = "list" =>
         \/ r.answer = Unasked
         \/ r.answer \in ListAnswers /\ TrueList(u, r.answer.status)

\* What was shown of a task stays true of it.
SeenInv(u, t) ==
    LET d == details[u][t] IN
    /\ d.status = "not found" => Exists(t) /\ req[t].user # u
    /\ d.status \in Statuses =>
         Exists(t) /\ req[t].user = u /\ d.expr = req[t].expr
    /\ d.result # Null <=> d.status = "completed"
    /\ d.result # Null => d.result = Denote[d.expr]
    /\ d.error # Null => d.status = "failed"

ReadInv ==
    /\ ReadTyped
    /\ \A u \in Users : ReadingInv(u) /\ TrueList(u, list[u])
    /\ \A u \in Users, t \in Tasks : SeenInv(u, t)

-----------------------------------------------------------------------------

\* A read leaves the variables of Orchestrator alone.
LEMMA ReadsOnlyRead ==
    ASSUME [ReadNext]_allVars
    PROVE  [Next]_vars
BY DEF ReadNext, TaskStep, Read, AskDetails, AskList, Select, ReceiveDetails,
   ReceiveList, ReadFails, allVars

\* A row that is there stays, and so does the submission it came from.
LEMMA RowsStay ==
    ASSUME Inv, [Next]_vars, NEW t \in Tasks, Exists(t)
    PROVE  Exists(t)' /\ req'[t] = req[t]
<1> USE DEF Inv, Typed, TypeOK
<1>1. req'[t] = req[t]
  <2>1. ASSUME NEW q \in Tasks, pc[q] = "idle" PROVE q # t
    BY <2>1 DEF PointInv
  <2>2. ASSUME NEW q \in Tasks, Submit(q) PROVE req'[t] = req[t]
    BY <2>1, <2>2 DEF Submit, RejectExpression, CreateTask
  <2> QED
    BY <2>2 DEF Next, Handle, Evaluate, Database, vars, CallerGivesUp,
       CreateTaskFails, SpawnEvaluation, StartFails, StartEvaluation,
       EvaluationSucceeds, EvaluationFails, Finish, LastWriteFails, Execute,
       Lose, Crash, Restart
<1>2. Exists(t)'
  <2>1. CASE row' = row
    BY <2>1 DEF Exists
  <2>2. ASSUME NEW s \in wire, Execute(s) PROVE Exists(t)'
    <3>1. s \in Statement /\ row[t] \in Row
      OBVIOUS
    <3>2. s.task = t => row'[t].status = Apply(s, row[t]).status \/ row'[t] = row[t]
      BY <2>2 DEF Execute
    <3>3. s.task # t => row'[t] = row[t]
      BY <2>2, <3>1 DEF Execute, Statement
    <3>4. Apply(s, row[t]).status # "absent"
      BY <3>1 DEF Apply, Statement, Row
    <3> QED
      BY <3>2, <3>3, <3>4 DEF Exists
  <2> QED
    BY <2>1, <2>2, OnlyExecute
<1> QED
  BY <1>1, <1>2

\* What DetailsAnswer makes of a row.
LEMMA DetailsAnswerIsTrue ==
    ASSUME Inv, NEW u \in Users, NEW t \in Tasks, Exists(t)
    PROVE  \/ DetailsAnswer(u, t) = NotFound /\ req[t].user # u
           \/ TrueDetails(u, t, DetailsAnswer(u, t)) /\ Visible(u, t)
              /\ DetailsAnswer(u, t).status = row[t].status
<1>1. /\ row[t] \in Row /\ row[t].status \in Statuses
      /\ row[t].user = req[t].user /\ row[t].expr = req[t].expr
      /\ req[t].expr \in Exprs
      /\ row[t].status = "completed" =>
           row[t].result # Null /\ row[t].result = Denote[req[t].expr]
  BY DEF Inv, Typed, TypeOK, RequestInv, RowInv, PointInv, Row, Exists
<1>2. CASE ~Visible(u, t)
  BY <1>1, <1>2 DEF Visible, DetailsAnswer
<1>3. CASE Visible(u, t)
  BY <1>1, <1>3 DEF Visible, DetailsAnswer, TrueDetails, DetailsAnswers, Row
<1> QED BY <1>2, <1>3

\* What ListAnswer makes of the table.
LEMMA ListAnswerIsTrue ==
    ASSUME Inv, NEW u \in Users
    PROVE  /\ ListAnswer(u) \in ListAnswers
           /\ TrueList(u, ListAnswer(u).status)
           /\ \A t \in Tasks : ListAnswer(u).status[t] =
                IF Visible(u, t) THEN row[t].status ELSE "absent"
<1>1. \A t \in Tasks : /\ row[t].status \in Statuses \cup {"absent"}
                       /\ Exists(t) => row[t].user = req[t].user
  BY DEF Inv, Typed, TypeOK, RowInv, Row
<1> QED BY <1>1 DEF ListAnswer, ListAnswers, TrueList, Visible

-----------------------------------------------------------------------------

\* Nothing is read in the initial state.
LEMMA ReadInvInit ==
    ASSUME ReadInit
    PROVE  Inv /\ ReadInv
<1>1. Inv
  BY InvInit DEF ReadInit
<1>2. Idle \in Reads
  BY DEF Idle, Reads
<1>3. Unseen \in Details
  BY DEF Unseen, Details
<1>4. ReadTyped
  BY <1>2, <1>3 DEF ReadInit, ReadTyped
<1>5. ASSUME NEW u \in Users PROVE ReadingInv(u) /\ TrueList(u, list[u])
  BY DEF ReadInit, ReadingInv, TrueList, Idle
<1>6. ASSUME NEW u \in Users, NEW t \in Tasks PROVE SeenInv(u, t)
  BY DEF ReadInit, SeenInv, Unseen, Statuses, Final
<1> QED BY <1>1, <1>4, <1>5, <1>6 DEF ReadInv

\* What was true of a row and its submission stays true while both stay.
LEMMA TruthStays ==
    ASSUME NEW u \in Users, NEW t \in Tasks,
           Exists(t) => Exists(t)' /\ req'[t] = req[t]
    PROVE  /\ Exists(t) => Exists(t)'
           /\ \A a : Exists(t) /\ TrueDetails(u, t, a) => TrueDetails(u, t, a)'
           /\ SeenInv(u, t) /\ details'[u][t] = details[u][t] => SeenInv(u, t)'
BY DEF TrueDetails, SeenInv

\* A step of the service changes no answer and no truth.
LEMMA TaskStepKeeps ==
    ASSUME Inv, ReadInv, [Next]_vars, UNCHANGED <<details, list>>,
           reading' = reading \/ reading' = [u \in Users |-> Idle]
    PROVE  ReadInv'
<1>1. \A t \in Tasks : Exists(t) => Exists(t)' /\ req'[t] = req[t]
  BY RowsStay
<1>2. ASSUME NEW u \in Users, NEW s, TrueList(u, s) PROVE TrueList(u, s)'
  BY <1>1, <1>2 DEF TrueList
<1>3. ReadTyped'
  BY DEF ReadInv, ReadTyped, Reads, Idle
<1>4. ASSUME NEW u \in Users PROVE ReadingInv(u)'
  <2>1. CASE reading' = [v \in Users |-> Idle]
    BY <2>1 DEF ReadingInv, Idle
  <2>2. CASE reading' = reading
    <3>1. ReadingInv(u)
      BY DEF ReadInv
    <3>2. CASE reading[u].op = "details"
      <4>1. PICK t \in Tasks : t = reading[u].task /\ Exists(t)
        BY <3>1, <3>2 DEF ReadingInv
      <4>2. Exists(t)' /\ req'[t] = req[t]
        BY <4>1, <1>1
      <4>3. \A a : TrueDetails(u, t, a) => TrueDetails(u, t, a)'
        BY <4>2 DEF TrueDetails
      <4>4. reading'[u].task = t
        BY <2>2, <4>1
      <4> QED BY <2>2, <3>1, <3>2, <4>1, <4>2, <4>3, <4>4 DEF ReadingInv
    <3>3. CASE reading[u].op # "details"
      BY <1>2, <2>2, <3>1, <3>3 DEF ReadingInv
    <3> QED BY <3>2, <3>3
  <2> QED BY <2>1, <2>2
<1>5. ASSUME NEW u \in Users PROVE TrueList(u, list[u])'
  BY <1>2 DEF ReadInv
<1>6. ASSUME NEW u \in Users, NEW t \in Tasks PROVE SeenInv(u, t)'
  BY <1>1, TruthStays DEF ReadInv
<1> QED BY <1>3, <1>4, <1>5, <1>6 DEF ReadInv

\* A step of one user's read concerns nothing but that read and what it shows.
LEMMA OneReads ==
    ASSUME ReadInv, NEW u \in Users, UNCHANGED vars,
           NEW r \in Reads, reading' = [reading EXCEPT ![u] = r],
           NEW l, list' = [list EXCEPT ![u] = l],
           l \in [Tasks -> Statuses \cup {"absent"}], TrueList(u, l),
           details' \in [Users -> [Tasks -> Details]],
           \A v \in Users \ {u} : details'[v] = details[v],
           \A t \in Tasks : SeenInv(u, t)',
           ReadingInv(u)'
    PROVE  ReadInv'
<1>1. UNCHANGED <<req, row>>
  BY DEF vars
<1>2. ReadTyped'
  BY DEF ReadInv, ReadTyped
<1>3. ASSUME NEW v \in Users PROVE ReadingInv(v)' /\ TrueList(v, list[v])'
  <2>1. TrueList(v, list'[v])
    BY DEF ReadInv, ReadTyped
  <2>2. TrueList(v, list[v])'
    BY <1>1, <2>1 DEF TrueList, Exists
  <2>3. CASE v # u
    <3>1. reading'[v] = reading[v] /\ ReadingInv(v)
      BY <2>3 DEF ReadInv, ReadTyped
    <3> QED BY <1>1, <2>2, <3>1 DEF ReadingInv, TrueDetails, TrueList, Exists
  <2> QED BY <2>2, <2>3
<1>4. ASSUME NEW v \in Users, NEW t \in Tasks PROVE SeenInv(v, t)'
  <2>1. CASE v # u
    <3>1. details'[v] = details[v] /\ SeenInv(v, t)
      BY <2>1 DEF ReadInv
    <3> QED BY <1>1, <3>1 DEF SeenInv, Exists
  <2> QED BY <2>1
<1> QED BY <1>2, <1>3, <1>4 DEF ReadInv

\* The same for a step that shows nothing.
LEMMA OneReadsOn ==
    ASSUME ReadInv, NEW u \in Users, UNCHANGED <<vars, details, list>>,
           NEW r \in Reads, reading' = [reading EXCEPT ![u] = r],
           ReadingInv(u)'
    PROVE  ReadInv'
<1>1. UNCHANGED <<req, row>>
  BY DEF vars
<1>2. list' = [list EXCEPT ![u] = list[u]] /\ TrueList(u, list[u])
      /\ list[u] \in [Tasks -> Statuses \cup {"absent"}]
  BY DEF ReadInv, ReadTyped
<1>3. details' \in [Users -> [Tasks -> Details]]
  BY DEF ReadInv, ReadTyped
<1>4. \A t \in Tasks : SeenInv(u, t)'
  BY <1>1 DEF ReadInv, SeenInv, Exists
<1> QED BY <1>2, <1>3, <1>4, OneReads

-----------------------------------------------------------------------------
\* The reads

\* A user who knows an id asks for a row that is there.
LEMMA AskKeeps ==
    ASSUME Inv, ReadInv, NEW u \in Users,
           AskList(u) \/ \E t \in Tasks : AskDetails(u, t)
    PROVE  ReadInv'
<1>1. reading \in [Users -> Reads] /\ reading[u] = Idle
  BY DEF ReadInv, ReadTyped, AskList, AskDetails
<1>2. CASE AskList(u)
  <2> DEFINE r == [Idle EXCEPT !.op = "list"]
  <2>1. r \in Reads /\ r.op = "list" /\ r.answer = Unasked
    BY DEF Idle, Reads
  <2>2. reading' = [reading EXCEPT ![u] = r] /\ UNCHANGED <<vars, details, list>>
    BY <1>1, <1>2 DEF AskList
  <2> HIDE DEF r
  <2>3. ReadingInv(u)'
    BY <1>1, <2>1, <2>2 DEF ReadingInv
  <2> QED BY <2>1, <2>2, <2>3, OneReadsOn
<1>3. ASSUME NEW t \in Tasks, AskDetails(u, t) PROVE ReadInv'
  <2> DEFINE r == [op |-> "details", task |-> t, answer |-> Unasked]
  <2>1. r \in Reads /\ r.op = "details" /\ r.task = t /\ r.answer = Unasked
    BY DEF Reads
  <2>2. reading' = [reading EXCEPT ![u] = r] /\ UNCHANGED <<vars, details, list>>
    BY <1>3 DEF AskDetails
  <2>3. Exists(t)
    BY <1>3 DEF AskDetails, KnowsId, Inv, CallInv, ReadInv, TrueList
  <2> HIDE DEF r
  <2>4. reading'[u] = r /\ Exists(t)'
    BY <1>1, <2>2, <2>3 DEF vars, Exists
  <2>5. ReadingInv(u)'
    BY <2>1, <2>4 DEF ReadingInv
  <2> QED BY <2>1, <2>2, <2>5, OneReadsOn
<1> QED BY <1>2, <1>3

\* The SELECT's answer is true at the moment it is executed.
LEMMA SelectKeeps ==
    ASSUME Inv, ReadInv, NEW u \in Users, Select(u)
    PROVE  ReadInv'
<1>1. reading[u] \in Reads /\ ReadingInv(u) /\ reading \in [Users -> Reads]
  BY DEF ReadInv, ReadTyped
<1>2. CASE reading[u].op = "details"
  <2> DEFINE t == reading[u].task
             a == DetailsAnswer(u, t)
             r == [reading[u] EXCEPT !.answer = a]
  <2>1. t \in Tasks /\ Exists(t)
    BY <1>1, <1>2 DEF ReadingInv
  <2>2. (a = NotFound /\ req[t].user # u) \/ TrueDetails(u, t, a)
    BY <2>1, DetailsAnswerIsTrue
  <2>3. a \in {NotFound} \cup DetailsAnswers
    BY <2>2 DEF TrueDetails
  <2>4. reading' = [reading EXCEPT ![u] = r] /\ UNCHANGED <<vars, details, list>>
    BY <1>1, <1>2 DEF Select
  <2> HIDE DEF a
  <2>5. r \in Reads /\ r.op = "details" /\ r.task = t /\ r.answer = a
    BY <1>1, <1>2, <2>3 DEF Reads
  <2>6. PICK q \in Tasks : q = t
    BY <2>1
  <2>7. reading'[u].op = "details" /\ reading'[u].task = q /\ reading'[u].answer = a
    BY <1>1, <2>4, <2>5, <2>6
  <2>8. Exists(q)' /\ req' = req
    BY <2>1, <2>4, <2>6 DEF vars, Exists
  <2>9. PICK b : b = a
    OBVIOUS
  <2>10. (b = NotFound /\ req'[q].user # u) \/ TrueDetails(u, q, b)'
    BY <2>2, <2>6, <2>8, <2>9 DEF TrueDetails
  <2>11. ReadingInv(u)'
    BY <2>6, <2>7, <2>8, <2>9, <2>10 DEF ReadingInv
  <2> QED BY <2>4, <2>5, <2>11, OneReadsOn
<1>3. CASE reading[u].op = "list"
  <2> DEFINE a == ListAnswer(u)
             r == [reading[u] EXCEPT !.answer = a]
  <2>1. a \in ListAnswers /\ TrueList(u, a.status)
    BY ListAnswerIsTrue
  <2>2. reading' = [reading EXCEPT ![u] = r] /\ UNCHANGED <<vars, details, list>>
    BY <1>1, <1>3 DEF Select
  <2> HIDE DEF a
  <2>3. r \in Reads /\ r.op = "list" /\ r.answer = a
    BY <1>1, <1>3, <2>1 DEF Reads
  <2>4. reading'[u].op = "list" /\ reading'[u].answer = a
    BY <1>1, <2>2, <2>3
  <2>5. PICK b : b = a
    OBVIOUS
  <2>6. TrueList(u, b.status)'
    BY <2>1, <2>2, <2>5 DEF TrueList, Exists, vars
  <2>7. ReadingInv(u)'
    BY <2>1, <2>4, <2>5, <2>6 DEF ReadingInv
  <2> QED BY <2>2, <2>3, <2>7, OneReadsOn
<1> QED BY <1>1, <1>2, <1>3 DEF Reads, Select

\* A request that has ended leaves its user idle.
LEMMA IdleAgain ==
    ASSUME NEW u \in Users, reading'[u] = Idle
    PROVE  Idle \in Reads /\ ReadingInv(u)'
BY DEF Idle, Reads, ReadingInv

\* Shown hides what stands for NULL.
LEMMA ShownOfTrue ==
    ASSUME NEW u \in Users, NEW t \in Tasks, NEW a, TrueDetails(u, t, a)
    PROVE  LET d == Shown(a) IN
           /\ d \in Details
           /\ d.status = a.status /\ d.status \in Statuses
           /\ d.expr = req[t].expr
           /\ d.result # Null <=> d.status = "completed"
           /\ d.result # Null => d.result = Denote[d.expr]
           /\ d.error # Null => d.status = "failed"
<1> DEFINE d == Shown(a)
<1>1. /\ a.status \in Statuses /\ a.expr \in Exprs /\ a.result \in Numbers
      /\ a.error \in Messages \cup {Null} /\ a.expr = req[t].expr
      /\ a.status = "completed" => a.result = Denote[a.expr]
  BY DEF TrueDetails, DetailsAnswers
<1>2. Null \notin Numbers
  BY NumbersAssumption
<1>3. /\ d.status = a.status /\ d.expr = a.expr
      /\ d.result = IF a.status = "completed" THEN a.result ELSE Null
      /\ d.error = IF a.status = "failed" THEN a.error ELSE Null
      /\ d = [status |-> d.status, expr |-> d.expr, result |-> d.result,
              error |-> d.error]
  BY DEF Shown
<1> HIDE DEF d
<1>4. d \in Details
  BY <1>1, <1>3 DEF Details
<1> QED BY <1>1, <1>2, <1>3, <1>4 DEF d

\* The user's page of a task.
LEMMA ReceiveDetailsKeeps ==
    ASSUME ReadInv, NEW u \in Users, ReceiveDetails(u)
    PROVE  ReadInv'
<1> DEFINE a == reading[u].answer
<1>1. /\ reading \in [Users -> Reads]
      /\ details \in [Users -> [Tasks -> Details]]
      /\ list[u] \in [Tasks -> Statuses \cup {"absent"}]
      /\ list' = [list EXCEPT ![u] = list[u]]
      /\ TrueList(u, list[u])
  BY DEF ReadInv, ReadTyped, ReceiveDetails
<1>2. PICK t \in Tasks :
        /\ t = reading[u].task
        /\ Exists(t)
        /\ (a = NotFound /\ req[t].user # u) \/ TrueDetails(u, t, a)
  BY DEF ReceiveDetails, ReadInv, ReadingInv
<1>3. PICK d : d = IF a = NotFound THEN [Unseen EXCEPT !.status = "not found"]
                   ELSE Shown(a)
  OBVIOUS
<1>4. /\ details' = [details EXCEPT ![u][t] = d]
      /\ reading' = [reading EXCEPT ![u] = Idle]
      /\ UNCHANGED vars
  BY <1>2, <1>3 DEF ReceiveDetails
<1>5. /\ d \in Details
      /\ d.status = "not found" => req[t].user # u
      /\ d.status \in Statuses => req[t].user = u /\ d.expr = req[t].expr
      /\ d.result # Null <=> d.status = "completed"
      /\ d.result # Null => d.result = Denote[d.expr]
      /\ d.error # Null => d.status = "failed"
  <2>1. CASE a = NotFound
    <3>1. d = [status |-> "not found", expr |-> Null, result |-> Null, error |-> Null]
      BY <1>3, <2>1 DEF Unseen
    <3>2. d \in Details
      BY <3>1 DEF Details
    <3>3. ~TrueDetails(u, t, a)
      BY <2>1 DEF TrueDetails, DetailsAnswers, NotFound
    <3> QED BY <1>2, <3>1, <3>2, <3>3 DEF Statuses, Final
  <2>2. CASE a # NotFound
    <3>1. d = Shown(a) /\ TrueDetails(u, t, a)
      BY <1>2, <1>3, <2>2
    <3>2. req[t].user = u
      BY <3>1 DEF TrueDetails
    <3>3. "not found" \notin Statuses
      BY DEF Statuses, Final
    <3>4. /\ d \in Details
          /\ d.status = a.status /\ d.status \in Statuses
          /\ d.expr = req[t].expr
          /\ d.result # Null <=> d.status = "completed"
          /\ d.result # Null => d.result = Denote[d.expr]
          /\ d.error # Null => d.status = "failed"
      BY <3>1, ShownOfTrue
    <3> QED BY <3>2, <3>3, <3>4
  <2> QED BY <2>1, <2>2
<1>6. /\ details' \in [Users -> [Tasks -> Details]]
      /\ \A v \in Users \ {u} : details'[v] = details[v]
      /\ details'[u][t] = d
      /\ \A q \in Tasks \ {t} : details'[u][q] = details[u][q]
  BY <1>1, <1>4, <1>5
<1>7. UNCHANGED <<req, row>>
  BY <1>4 DEF vars
<1>8. ASSUME NEW q \in Tasks PROVE SeenInv(u, q)'
  <2>1. CASE q = t
    BY <1>2, <1>5, <1>6, <1>7, <2>1 DEF SeenInv, Exists
  <2>2. CASE q # t
    <3>1. details'[u][q] = details[u][q] /\ SeenInv(u, q)
      BY <1>6, <2>2 DEF ReadInv
    <3> QED BY <1>7, <3>1 DEF SeenInv, Exists
  <2> QED BY <2>1, <2>2
<1>9. reading'[u] = Idle
  BY <1>1, <1>4
<1> QED BY <1>1, <1>4, <1>6, <1>8, <1>9, IdleAgain, OneReads

\* The user's list of tasks.
LEMMA ReceiveListKeeps ==
    ASSUME ReadInv, NEW u \in Users, ReceiveList(u)
    PROVE  ReadInv'
<1>1. /\ reading \in [Users -> Reads]
      /\ details \in [Users -> [Tasks -> Details]]
  BY DEF ReadInv, ReadTyped
<1>2. PICK l : l = reading[u].answer.status
  OBVIOUS
<1>3. l \in [Tasks -> Statuses \cup {"absent"}] /\ TrueList(u, l)
  BY <1>2 DEF ReceiveList, ReadInv, ReadingInv, ListAnswers
<1>4. /\ list' = [list EXCEPT ![u] = l]
      /\ reading' = [reading EXCEPT ![u] = Idle]
      /\ UNCHANGED <<vars, details>>
  BY <1>2 DEF ReceiveList
<1>5. \A q \in Tasks : SeenInv(u, q)'
  BY <1>4 DEF ReadInv, SeenInv, Exists, vars
<1>6. reading'[u] = Idle
  BY <1>1, <1>4
<1>7. details' \in [Users -> [Tasks -> Details]]
      /\ \A v \in Users \ {u} : details'[v] = details[v]
  BY <1>1, <1>4
<1> QED BY <1>3, <1>4, <1>5, <1>6, <1>7, IdleAgain, OneReads

\* A read that failed shows nothing.
LEMMA ReadFailsKeeps ==
    ASSUME ReadInv, NEW u \in Users, ReadFails(u)
    PROVE  ReadInv'
<1>1. reading' = [reading EXCEPT ![u] = Idle] /\ UNCHANGED <<vars, details, list>>
  BY DEF ReadFails
<1>2. reading'[u] = Idle
  BY <1>1 DEF ReadInv, ReadTyped
<1> QED BY <1>1, <1>2, IdleAgain, OneReadsOn

\* The inductive step.
LEMMA ReadStep ==
    ASSUME Inv, ReadInv, [ReadNext]_allVars
    PROVE  Inv' /\ ReadInv'
<1>1. [Next]_vars
  BY ReadsOnlyRead
<1>2. Inv'
  BY <1>1, TypeStep, RestStep DEF Inv, Rest
<1>3. CASE TaskStep \/ UNCHANGED allVars
  <2>1. UNCHANGED <<details, list>>
    BY <1>3 DEF TaskStep, allVars, readVars
  <2>2. reading' = reading \/ reading' = [u \in Users |-> Idle]
    BY <1>3 DEF TaskStep, allVars, readVars
  <2> QED BY <1>1, <1>2, <2>1, <2>2, TaskStepKeeps
<1>4. ASSUME NEW u \in Users, Read(u) PROVE ReadInv'
  BY <1>4, AskKeeps, SelectKeeps, ReceiveDetailsKeeps, ReceiveListKeeps,
     ReadFailsKeeps DEF Read
<1> QED BY <1>2, <1>3, <1>4 DEF ReadNext

\* Whatever fails, the table is sound and nothing false is read from it.
THEOREM ReadInvariance == ReadSpec => [](Inv /\ ReadInv)
BY ReadInvInit, ReadStep, PTL DEF ReadSpec

\* Types.
THEOREM ReadTypeCorrect == ReadSpec => []ReadTypeOK
<1>1. Inv /\ ReadInv => ReadTypeOK
  <2> SUFFICES ASSUME Inv, ReadInv PROVE ReadTypeOK
    OBVIOUS
  <2>1. TypeOK /\ ReadTyped
    BY DEF Inv, Typed, ReadInv
  <2>2. ASSUME NEW r \in Reads
        PROVE  /\ r.op \in {"none", "details", "list"}
               /\ r.task \in Tasks \cup {Null}
               /\ r.answer.code \in {"none", "OK", "NotFound"}
    BY DEF Reads, Unasked, NotFound, DetailsAnswers, ListAnswers
  <2> QED BY <2>1, <2>2 DEF ReadTypeOK, ReadTyped, Details
<1> QED BY <1>1, ReadInvariance, PTL

\* What a user is shown of a task is its own submission and its value, never
\* the 0 that stands for NULL on the wire.
THEOREM ShownTheorem == ReadSpec => []ShownIsTrue
<1>1. Inv /\ ReadInv => ShownIsTrue
  <2> SUFFICES ASSUME ReadInv, NEW u \in Users, NEW t \in Tasks
               PROVE  LET d == details[u][t] IN
                      /\ d.status \in Statuses \/ list[u][t] # "absent"
                           => req[t].user = u
                      /\ d.status \in Statuses => d.expr = req[t].expr
                      /\ d.result # Null <=> d.status = "completed"
                      /\ d.result # Null => d.result = Denote[d.expr]
                      /\ d.error # Null => d.status = "failed"
    BY DEF ShownIsTrue
  <2>1. SeenInv(u, t) /\ TrueList(u, list[u])
    BY DEF ReadInv
  <2> QED BY <2>1 DEF SeenInv, TrueList
<1> QED BY <1>1, ReadInvariance, PTL

\* No user is told that a task of its own is not there.
THEOREM FoundTheorem == ReadSpec => []OwnTaskIsFound
<1>1. Inv /\ ReadInv => OwnTaskIsFound
  <2> SUFFICES ASSUME ReadInv, NEW u \in Users, NEW t \in Tasks
               PROVE  /\ details[u][t].status = "not found" => req[t].user # u
                      /\ reading[u].op = "details" /\ reading[u].answer = NotFound
                           => req[reading[u].task].user # u
    BY DEF OwnTaskIsFound
  <2>1. ReadingInv(u) /\ SeenInv(u, t)
    BY DEF ReadInv
  <2>2. NotFound # Unasked /\ NotFound \notin DetailsAnswers
    BY DEF NotFound, Unasked, DetailsAnswers
  <2> QED BY <2>1, <2>2 DEF ReadingInv, SeenInv, TrueDetails
<1> QED BY <1>1, ReadInvariance, PTL

-----------------------------------------------------------------------------
(***************************************************************************)
(* Monotonic reads, when nothing is late.  What a user knows of a task may *)
(* be followed by what the answer in flight tells of it, and both by what  *)
(* a SELECT would tell now.                                                *)
(***************************************************************************)

\* "not found" on the page of a task says what "absent" says in the list.
Told(status) == IF status = "not found" THEN "absent" ELSE status

Known(u, t) == {list[u][t], Told(details[u][t].status)}

InFlight(u, t) ==
    LET r == reading[u] IN
    IF r.answer = Unasked \/ (r.op = "details" /\ r.task # t) THEN {}
    ELSE IF r.op = "list" THEN {r.answer.status[t]}
    ELSE IF r.answer = NotFound THEN {"absent"} ELSE {r.answer.status}

Now(u, t) == IF Visible(u, t) THEN row[t].status ELSE "absent"

Order(u, t) ==
    /\ \A o \in Known(u, t) \cup InFlight(u, t) : MayFollow(o, Now(u, t))
    /\ \A o \in Known(u, t), n \in InFlight(u, t) : MayFollow(o, n)

OrderInv == \A u \in Users, t \in Tasks : Order(u, t)

\* What may follow what may follow a status may follow it.
LEMMA MayFollowTransitive ==
    ASSUME NEW a, NEW b, NEW c, MayFollow(a, b), MayFollow(b, c)
    PROVE  MayFollow(a, c)
<1>1. CASE a \in Final
  BY <1>1 DEF MayFollow, Final
<1>2. CASE a = "processing"
  BY <1>2 DEF MayFollow, Final
<1>3. CASE a = "pending"
  BY <1>3 DEF MayFollow, Final, Statuses
<1>4. CASE a \notin Final \cup {"processing", "pending"}
  BY <1>4 DEF MayFollow
<1> QED BY <1>1, <1>2, <1>3, <1>4

\* A row moves forward only, and stays with its user.
LEMMA NowMoves ==
    ASSUME Inv, QuietInv, [Next]_vars, NEW u \in Users, NEW t \in Tasks
    PROVE  MayFollow(Now(u, t), Now(u, t)')
<1>1. CASE ~Visible(u, t)
  BY <1>1 DEF Now, MayFollow, Final
<1>2. CASE Visible(u, t)
  <2>1. Inv' /\ Exists(t) /\ row[t].status \in Statuses
    BY <1>2, TypeStep, RestStep DEF Inv, Rest, Visible, Exists, Typed, TypeOK, Row
  <2>2. Exists(t)' /\ req'[t] = req[t]
    BY <2>1, RowsStay
  <2>3. row[t].user = req[t].user /\ row'[t].user = req'[t].user
    BY <2>1, <2>2 DEF Inv, RowInv
  <2>4. Visible(u, t)'
    BY <1>2, <2>2, <2>3 DEF Visible
  <2>5. ASSUME NEW s \in wire, Execute(s)
        PROVE  MayFollow(row[t].status, row'[t].status)
    <3>1. CASE s.task = t
      BY <2>1, <2>5, <3>1, ExecuteStep
         DEF MayFollow, Final, Statuses, Exists, Inv, Typed, TypeOK
    <3>2. CASE s.task # t
      BY <2>1, <2>5, <3>2, ExecuteStep
         DEF MayFollow, Final, Statuses, Inv, Typed, TypeOK
    <3> QED BY <3>1, <3>2
  <2>6. MayFollow(row[t].status, row'[t].status)
    BY <2>1, <2>5, OnlyExecute DEF MayFollow, Final, Statuses
  <2> QED BY <1>2, <2>4, <2>6 DEF Now
<1> QED BY <1>1, <1>2

\* An answer that is taken from the table, and a user who takes over what an
\* answer tells, keep the order.
LEMMA OrderStays ==
    ASSUME NEW u \in Users, NEW t \in Tasks, Order(u, t),
           MayFollow(Now(u, t), Now(u, t)'),
           \/ /\ Known(u, t)' = Known(u, t)
              /\ InFlight(u, t)' \subseteq InFlight(u, t) \cup {Now(u, t)}
           \/ /\ Known(u, t)' \subseteq Known(u, t) \cup InFlight(u, t)
              /\ InFlight(u, t)' = {}
    PROVE  Order(u, t)'
<1>1. \A o \in Known(u, t) \cup InFlight(u, t) \cup {Now(u, t)} :
         MayFollow(o, Now(u, t)')
  BY MayFollowTransitive DEF Order
<1>2. \A o \in (Known(u, t) \cup InFlight(u, t))' : MayFollow(o, Now(u, t)')
  BY <1>1
<1>3. \A o \in Known(u, t)', n \in InFlight(u, t)' : MayFollow(o, n)
  BY DEF Order
<1> QED BY <1>2, <1>3 DEF Order

\* A step of one user's read, as the order sees it.
LEMMA ReadInOrder ==
    ASSUME ReadInv, NEW u \in Users, Read(u), NEW t \in Tasks
    PROVE  \/ /\ Known(u, t)' = Known(u, t)
              /\ InFlight(u, t)' \subseteq InFlight(u, t) \cup {Now(u, t)}
           \/ /\ Known(u, t)' \subseteq Known(u, t) \cup InFlight(u, t)
              /\ InFlight(u, t)' = {}
<1>1. /\ reading \in [Users -> Reads] /\ reading[u] \in Reads
      /\ details \in [Users -> [Tasks -> Details]]
      /\ list \in [Users -> [Tasks -> Statuses \cup {"absent"}]]
      /\ ReadingInv(u)
  BY DEF ReadInv, ReadTyped
<1>2. CASE AskList(u) \/ \E q \in Tasks : AskDetails(u, q)
  <2>1. reading'[u].answer = Unasked /\ UNCHANGED <<details, list>>
    BY <1>1, <1>2 DEF AskList, AskDetails, Idle
  <2> QED BY <2>1 DEF Known, InFlight
<1>3. CASE Select(u)
  <2>1. /\ reading'[u].op = reading[u].op /\ reading'[u].task = reading[u].task
        /\ reading'[u].answer = IF reading[u].op = "details"
                                THEN DetailsAnswer(u, reading[u].task)
                                ELSE ListAnswer(u)
        /\ UNCHANGED <<details, list>>
    BY <1>1, <1>3 DEF Select, Reads
  <2>2. CASE reading[u].op = "details" /\ reading[u].task = t
    <3>1. reading'[u].answer = IF Visible(u, t) THEN DetailsAnswer(u, t) ELSE NotFound
      BY <2>1, <2>2 DEF DetailsAnswer
    <3>2. Visible(u, t) => /\ DetailsAnswer(u, t).status = row[t].status
                           /\ DetailsAnswer(u, t).code = "OK"
      BY DEF DetailsAnswer
    <3>3. InFlight(u, t)' \subseteq {Now(u, t)}
      BY <2>1, <2>2, <3>1, <3>2 DEF InFlight, Now, NotFound, Unasked
    <3> QED BY <2>1, <3>3 DEF Known
  <2>3. CASE reading[u].op = "details" /\ reading[u].task # t
    BY <2>1, <2>3 DEF Known, InFlight
  <2>4. CASE reading[u].op = "list"
    <3>1. ListAnswer(u).status[t] = Now(u, t)
      BY DEF ListAnswer, Now
    <3> QED BY <2>1, <2>4, <3>1 DEF Known, InFlight
  <2> QED BY <1>1, <1>3, <2>2, <2>3, <2>4 DEF Select, Reads
<1>4. CASE ReceiveDetails(u)
  <2>1. /\ reading[u].op = "details" /\ reading[u].answer # Unasked
        /\ reading'[u].answer = Unasked /\ UNCHANGED list
    BY <1>1, <1>4 DEF ReceiveDetails, Idle
  <2>2. CASE reading[u].task = t
    <3>1. details'[u][t] = IF reading[u].answer = NotFound
                           THEN [Unseen EXCEPT !.status = "not found"]
                           ELSE Shown(reading[u].answer)
      BY <1>1, <1>4, <2>2 DEF ReceiveDetails
    <3>2. CASE reading[u].answer = NotFound
      BY <2>1, <2>2, <3>1, <3>2 DEF Known, InFlight, Told, Unseen
    <3>3. CASE reading[u].answer # NotFound
      <4>1. reading[u].answer.status \in Statuses
        BY <1>1, <2>1, <3>3 DEF ReadingInv, TrueDetails, DetailsAnswers
      <4>2. details'[u][t].status = reading[u].answer.status
        BY <3>1, <3>3 DEF Shown
      <4> QED BY <2>1, <2>2, <3>3, <4>1, <4>2
              DEF Known, InFlight, Told, Statuses, Final
    <3> QED BY <3>2, <3>3
  <2>3. CASE reading[u].task # t
    <3>1. details'[u][t] = details[u][t]
      BY <1>1, <1>4, <2>3 DEF ReceiveDetails
    <3> QED BY <2>1, <3>1 DEF Known, InFlight
  <2> QED BY <2>2, <2>3
<1>5. CASE ReceiveList(u)
  <2>1. /\ reading[u].op = "list" /\ reading[u].answer # Unasked
        /\ list'[u][t] = reading[u].answer.status[t]
        /\ reading'[u].answer = Unasked /\ UNCHANGED details
    BY <1>1, <1>5 DEF ReceiveList, Idle
  <2> QED BY <2>1 DEF Known, InFlight
<1>6. CASE ReadFails(u)
  <2>1. reading'[u].answer = Unasked /\ UNCHANGED <<details, list>>
    BY <1>1, <1>6 DEF ReadFails, Idle
  <2> QED BY <2>1 DEF Known, InFlight
<1> QED BY <1>2, <1>3, <1>4, <1>5, <1>6 DEF Read

\* The order is kept by every step.
LEMMA OrderStep ==
    ASSUME Inv, QuietInv, ReadInv, OrderInv, [ReadNext]_allVars
    PROVE  OrderInv'
<1> SUFFICES ASSUME NEW v \in Users, NEW t \in Tasks PROVE Order(v, t)'
  BY DEF OrderInv
<1>1. [Next]_vars
  BY ReadsOnlyRead
<1>2. Order(v, t) /\ MayFollow(Now(v, t), Now(v, t)')
  BY <1>1, NowMoves DEF OrderInv
<1>3. CASE TaskStep \/ UNCHANGED allVars
  <2>1. /\ UNCHANGED <<details, list>>
        /\ reading' = reading \/ reading' = [u \in Users |-> Idle]
    BY <1>3 DEF TaskStep, allVars, readVars
  <2>2. reading'[v] = reading[v] \/ reading'[v].answer = Unasked
    BY <2>1 DEF Idle
  <2>3. Known(v, t)' = Known(v, t)
    BY <2>1 DEF Known
  <2>4. InFlight(v, t)' \subseteq InFlight(v, t)
    BY <2>2 DEF InFlight
  <2> QED BY <1>2, <2>3, <2>4, OrderStays
<1>4. ASSUME NEW u \in Users, Read(u) PROVE Order(v, t)'
  <2>1. CASE u = v
    BY <1>2, <1>4, <2>1, ReadInOrder, OrderStays
  <2>2. CASE u # v
    <3>1. /\ reading'[v] = reading[v] /\ details'[v] = details[v]
          /\ list'[v] = list[v]
      BY <1>4, <2>2 DEF ReadInv, ReadTyped, Read, AskDetails, AskList, Select,
                        ReceiveDetails, ReceiveList, ReadFails
    <3>2. Known(v, t)' = Known(v, t) /\ InFlight(v, t)' = InFlight(v, t)
      BY <3>1 DEF Known, InFlight
    <3> QED BY <1>2, <3>2, OrderStays
  <2> QED BY <2>1, <2>2
<1> QED BY <1>3, <1>4 DEF ReadNext

\* Nothing is known at first, so nothing is out of order.
LEMMA OrderInit == ReadInit => OrderInv
<1> SUFFICES ASSUME ReadInit, NEW u \in Users, NEW t \in Tasks PROVE Order(u, t)
  BY DEF OrderInv
<1>1. Known(u, t) = {"absent", "unseen"} /\ InFlight(u, t) = {}
  BY DEF ReadInit, Known, InFlight, Told, Unseen, Idle
<1>2. \A n : MayFollow("absent", n) /\ MayFollow("unseen", n)
  BY DEF MayFollow, Final
<1> QED BY <1>1, <1>2 DEF Order

\* No user sees a task go back, in whichever of the two reads.
THEOREM NeverBackTheorem ==
    ASSUME "late" \notin Faults
    PROVE  ReadSpec => TasksNeverGoBack
<1> DEFINE All == Inv /\ QuietInv /\ ReadInv /\ OrderInv
<1>1. ReadInit => All
  BY ReadInvInit, QuietInit, OrderInit DEF ReadInit
<1>2. All /\ [ReadNext]_allVars => All'
  BY ReadsOnlyRead, ReadStep, QuietStep, OrderStep
<1>3. ASSUME All, [ReadNext]_allVars, NEW u \in Users, NEW t \in Tasks
      PROVE  /\ ReceiveList(u) =>
                  /\ MayFollow(list[u][t], list'[u][t])
                  /\ MayFollow(details[u][t].status, list'[u][t])
             /\ ReceiveDetails(u) /\ reading[u].task = t =>
                  /\ MayFollow(list[u][t], details'[u][t].status)
                  /\ MayFollow(details[u][t].status, details'[u][t].status)
  <2>1. /\ Order(u, t) /\ ReadingInv(u)
        /\ details \in [Users -> [Tasks -> Details]]
        /\ list \in [Users -> [Tasks -> Statuses \cup {"absent"}]]
    BY <1>3 DEF OrderInv, ReadInv, ReadTyped
  <2>2. \A s, n : MayFollow(Told(s), n) => MayFollow(s, n)
    BY DEF MayFollow, Told, Final
  <2>3. \A s : MayFollow(s, "absent") => MayFollow(s, "not found")
    BY DEF MayFollow, Final, Statuses
  <2>4. \A n \in InFlight(u, t) : /\ MayFollow(list[u][t], n)
                                  /\ MayFollow(details[u][t].status, n)
    BY <2>1, <2>2 DEF Order, Known
  <2>5. CASE ReceiveList(u)
    <3>1. list'[u][t] \in InFlight(u, t) /\ reading[u].op = "list"
      BY <2>1, <2>5 DEF ReceiveList, InFlight
    <3> QED BY <2>4, <3>1 DEF ReceiveDetails
  <2>6. CASE ReceiveDetails(u) /\ reading[u].task = t
    <3>1. /\ reading[u].op = "details" /\ reading[u].answer # Unasked
          /\ details'[u][t] = IF reading[u].answer = NotFound
                              THEN [Unseen EXCEPT !.status = "not found"]
                              ELSE Shown(reading[u].answer)
      BY <2>1, <2>6 DEF ReceiveDetails
    <3>2. CASE reading[u].answer = NotFound
      <4>1. "absent" \in InFlight(u, t) /\ details'[u][t].status = "not found"
        BY <2>6, <3>1, <3>2 DEF InFlight, Unseen
      <4> QED BY <2>3, <2>4, <3>1, <4>1 DEF ReceiveList
    <3>3. CASE reading[u].answer # NotFound
      <4>1. details'[u][t].status \in InFlight(u, t)
        BY <2>6, <3>1, <3>3 DEF InFlight, Shown
      <4> QED BY <2>4, <3>1, <4>1 DEF ReceiveList
    <3> QED BY <3>2, <3>3
  <2> QED BY <2>5, <2>6
<1> HIDE DEF All
<1>4. All /\ [ReadNext]_allVars =>
        [\A u \in Users, t \in Tasks :
          /\ ReceiveList(u) =>
                /\ MayFollow(list[u][t], list'[u][t])
                /\ MayFollow(details[u][t].status, list'[u][t])
          /\ ReceiveDetails(u) /\ reading[u].task = t =>
                /\ MayFollow(list[u][t], details'[u][t].status)
                /\ MayFollow(details[u][t].status, details'[u][t].status)]_allVars
  BY <1>3
<1> QED
  BY <1>1, <1>2, <1>4, PTL DEF ReadSpec, TasksNeverGoBack
==============================================================================

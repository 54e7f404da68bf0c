------------------------------ MODULE TaskReads ------------------------------
(***************************************************************************)
(* What users see of their tasks: GetTaskDetails and ListUserTasks of the  *)
(* orchestrator, each one SELECT, and the agent's GetTaskDetails and       *)
(* GetUserTasks, which turn the answers into JSON, next to the handlers    *)
(* and goroutines of Orchestrator that change the rows meanwhile.          *)
(*                                                                         *)
(* A user waits for the answer to one request before it sends the next.    *)
(***************************************************************************)
EXTENDS Orchestrator

CONSTANT Default    \* 0, the value of a protobuf double that was not set

ASSUME DefaultAssumption == Default \in Numbers

VARIABLES
    reading,    \* [Users -> the request in flight, and its answer]
    details,    \* [Users -> [Tasks -> the last TaskDetails of a task]]
    list        \* [Users -> [Tasks -> its status in the last list]]

readVars == <<reading, details, list>>

allVars == <<vars, readVars>>

Unasked == [code |-> "none"]
NotFound == [code |-> "NotFound"]

Idle == [op |-> "none", task |-> Null, answer |-> Unasked]

Unseen == [status |-> "unseen", expr |-> Null, result |-> Null, error |-> Null]

ReadInit ==
    /\ Init
    /\ reading = [u \in Users |-> Idle]
    /\ details = [u \in Users |-> [t \in Tasks |-> Unseen]]
    /\ list = [u \in Users |-> [t \in Tasks |-> "absent"]]

-----------------------------------------------------------------------------
\* The orchestrator

\* A task of somebody else is as good as none.
Visible(u, t) == Exists(t) /\ row[t].user = u

\* TaskDetailsResponse: a result that is NULL is sent as 0, an error_message
\* that is NULL as the empty string.
DetailsAnswer(u, t) ==
    IF Visible(u, t)
    THEN [code   |-> "OK",
          status |-> row[t].status,
          expr   |-> row[t].expr,
          result |-> IF row[t].result = Null THEN Default ELSE row[t].result,
          error  |-> row[t].error]
    ELSE NotFound

\* UserTasksResponse, without the order of the tasks.
ListAnswer(u) ==
    [code   |-> "OK",
     status |-> [t \in Tasks |-> IF Visible(u, t) THEN row[t].status ELSE "absent"]]

-----------------------------------------------------------------------------
\* The agent

\* Mutant: the result is shown of every task that has not failed.
ShownUnlessFailed(answer) ==
    [status |-> answer.status,
     expr   |-> answer.expr,
     result |-> IF answer.status # "failed" THEN answer.result ELSE Null,
     error  |-> IF answer.status = "failed" THEN answer.error ELSE Null]

\* The result is shown of a completed task only, the error of a failed one.
Shown(answer) ==
    [status |-> answer.status,
     expr   |-> answer.expr,
     result |-> IF answer.status = "completed" THEN answer.result ELSE Null,
     error  |-> IF answer.status = "failed" THEN answer.error ELSE Null]

-----------------------------------------------------------------------------
\* Requests

\* A user knows the id of a task of its own from SubmitExpression's answer or
\* from the list, and may have got the id of somebody else's.
KnowsId(u, t) ==
    \/ call[t] = "accepted"
    \/ list[u][t] # "absent"

AskDetails(u, t) ==
    /\ up
    /\ reading[u] = Idle
    /\ KnowsId(u, t)
    /\ reading' = [reading EXCEPT ![u] = [op |-> "details", task |-> t,
                                          answer |-> Unasked]]
    /\ UNCHANGED <<vars, details, list>>

AskList(u) ==
    /\ up
    /\ reading[u] = Idle
    /\ reading' = [reading EXCEPT ![u].op = "list"]
    /\ UNCHANGED <<vars, details, list>>

\* The SELECT of the request is executed and the orchestrator answers.
Select(u) ==
    /\ reading[u].op # "none"
    /\ reading[u].answer = Unasked
    /\ reading' = [reading EXCEPT ![u].answer =
                     IF reading[u].op = "details"
                     THEN DetailsAnswer(u, reading[u].task) ELSE ListAnswer(u)]
    /\ UNCHANGED <<vars, details, list>>

ReceiveDetails(u) ==
    LET r == reading[u] IN
    /\ r.op = "details"
    /\ r.answer # Unasked
    /\ details' = [details EXCEPT ![u][r.task] =
                     IF r.answer = NotFound THEN [Unseen EXCEPT !.status = "not found"]
                     ELSE Shown(r.answer)]
    /\ reading' = [reading EXCEPT ![u] = Idle]
    /\ UNCHANGED <<vars, list>>

ReceiveList(u) ==
    /\ reading[u].op = "list"
    /\ reading[u].answer # Unasked
    /\ list' = [list EXCEPT ![u] = reading[u].answer.status]
    /\ reading' = [reading EXCEPT ![u] = Idle]
    /\ UNCHANGED <<vars, details>>

\* The SELECT fails, or the agent's deadline passes: the user gets an error
\* and keeps what it has.
ReadFails(u) ==
    /\ {"db", "caller"} \cap Faults # {}
    /\ reading[u] # Idle
    /\ reading' = [reading EXCEPT ![u] = Idle]
    /\ UNCHANGED <<vars, details, list>>

\* A step of Orchestrator; requests do not survive their process.
TaskStep ==
    /\ Next
    /\ reading' = IF up' = up THEN reading ELSE [u \in Users |-> Idle]
    /\ UNCHANGED <<details, list>>

Read(u) ==
    \/ \E t \in Tasks : AskDetails(u, t)
    \/ AskList(u)
    \/ Select(u)
    \/ ReceiveDetails(u)
    \/ ReceiveList(u)
    \/ ReadFails(u)

ReadNext == TaskStep \/ \E u \in Users : Read(u)

ReadSpec == ReadInit /\ [][ReadNext]_allVars

-----------------------------------------------------------------------------

ReadTypeOK ==
    /\ TypeOK
    /\ \A u \in Users :
         /\ reading[u].op \in {"none", "details", "list"}
         /\ reading[u].task \in Tasks \cup {Null}
         /\ reading[u].answer.code \in {"none", "OK", "NotFound"}
    /\ details \in [Users -> [Tasks -> [
                      status : Statuses \cup {"unseen", "not found"},
                      expr   : Exprs \cup {Null},
                      result : Numbers \cup {Null},
                      error  : Messages \cup {Null}]]]
    /\ list \in [Users -> [Tasks -> Statuses \cup {"absent"}]]

\* What a user is shown of a task is the user's own submission, with a result
\* that is the value of its expression and an error only if it failed.  The 0
\* that stands for NULL on the wire is never shown.
ShownIsTrue ==
    \A u \in Users, t \in Tasks :
        LET d == details[u][t] IN
        /\ d.status \in Statuses \/ list[u][t] # "absent" => req[t].user = u
        /\ d.status \in Statuses => d.expr = req[t].expr
        /\ d.result # Null <=> d.status = "completed"
        /\ d.result # Null => d.result = Denote[d.expr]
        /\ d.error # Null => d.status = "failed"

\* A user whose submission was accepted is never told that there is no such
\* task, not even by the first request after the id was handed out, or by a
\* new process.
OwnTaskIsFound ==
    \A u \in Users, t \in Tasks :
        /\ details[u][t].status = "not found" => req[t].user # u
        /\ reading[u].op = "details" /\ reading[u].answer = NotFound
              => req[reading[u].task].user # u

\* What a later look at a task may show.
MayFollow(old, new) ==
    CASE old \in Final     -> new = old
      [] old = "processing" -> new \in {"processing"} \cup Final
      [] old = "pending"    -> new \in Statuses
      [] OTHER              -> TRUE

\* A user never sees a task go back, whichever of the two requests it was seen
\* with before and is seen with now.
TasksNeverGoBack ==
    [][\A u \in Users, t \in Tasks :
          /\ ReceiveList(u) =>
                /\ MayFollow(list[u][t], list'[u][t])
                /\ MayFollow(details[u][t].status, list'[u][t])
          /\ ReceiveDetails(u) /\ reading[u].task = t =>
                /\ MayFollow(list[u][t], details'[u][t].status)
                /\ MayFollow(details[u][t].status, details'[u][t].status)]_allVars
==============================================================================

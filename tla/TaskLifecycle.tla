---------------------------- MODULE TaskLifecycle ----------------------------
(***************************************************************************)
(* What the service promises about a submitted expression, with nothing   *)
(* said of goroutines, SQL statements or failures: a task is registered,  *)
(* is taken up, and then either completes with a number or fails.  The    *)
(* statuses are those of the tasks table (migrations/000001_init.sql) and *)
(* of internal/orchestrator/repository/task_postgres.go; "absent" stands  *)
(* for a task that has no row.                                            *)
(*                                                                         *)
(* Orchestrator implements this module, with phase and answer read off    *)
(* the table.                                                              *)
(***************************************************************************)
CONSTANTS
    Tasks,      \* submissions, each with the row it may create
    Numbers,    \* the finite float64 values
    NoAnswer    \* the answer of a task that has not completed

VARIABLES
    phase,      \* [Tasks -> Phases]
    answer      \* [Tasks -> Numbers \cup {NoAnswer}]

lifecycleVars == <<phase, answer>>

Settled == {"completed", "failed"}

Phases == {"absent", "pending", "processing"} \cup Settled

Init ==
    /\ phase = [t \in Tasks |-> "absent"]
    /\ answer = [t \in Tasks |-> NoAnswer]

Move(t, from, to) ==
    /\ phase[t] \in from
    /\ phase' = [phase EXCEPT ![t] = to]

Register(t) ==
    /\ Move(t, {"absent"}, "pending")
    /\ UNCHANGED answer

TakeUp(t) ==
    /\ Move(t, {"pending"}, "processing")
    /\ UNCHANGED answer

Complete(t, v) ==
    /\ Move(t, {"processing"}, "completed")
    /\ answer' = [answer EXCEPT ![t] = v]

\* A task fails while it is being evaluated, or before its evaluation starts.
Fail(t) ==
    /\ Move(t, {"pending", "processing"}, "failed")
    /\ UNCHANGED answer

Next ==
    \E t \in Tasks :
        \/ Register(t)
        \/ TakeUp(t)
        \/ \E v \in Numbers : Complete(t, v)
        \/ Fail(t)

Spec == Init /\ [][Next]_lifecycleVars

\* Every registered task is settled in the end: "the result can be asked for
\* later" (README.md:85).
EverySettles == \A t \in Tasks : phase[t] = "pending" ~> phase[t] \in Settled
==============================================================================

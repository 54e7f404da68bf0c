--------------------------- MODULE MCOrchestrator ---------------------------
(***************************************************************************)
(* Instances of Orchestrator for TLC: one expression of each kind that the *)
(* handler and the goroutine tell apart.                                   *)
(***************************************************************************)
EXTENDS Orchestrator, TLC

MCNumbers == {"2", "9"}

\* 10**400 overflows math.Pow to +Inf; true is a node Evaluate refuses.
MCDenote == [e \in {"1+1", "3*3", "10**400", "true", "1+"} |->
                CASE e = "1+1"     -> "2"
                  [] e = "3*3"     -> "9"
                  [] e = "10**400" -> "PInf"
                  [] e = "true"    -> "EvalError"
                  [] e = "1+"      -> "Malformed"]

MCExprs == DOMAIN MCDenote

AllFaults == FaultKinds

\* The database either executes a statement before its caller gives it up, or
\* never does.
NothingLate == FaultKinds \ {"late"}

CrashOnly == {"crash"}

LateStatements == {"db", "late"}

CallerOnly == {"caller"}

TaskSymmetry == Permutations(Tasks)
==============================================================================

----------------------------- MODULE MCTaskReads -----------------------------
(***************************************************************************)
(* Instances of TaskReads for TLC: an expression whose value is the default *)
(* of a protobuf double, one with another value, and two that fail.        *)
(***************************************************************************)
EXTENDS TaskReads, TLC

MCNumbers == {"0", "2"}

MCDenote == [e \in {"1-1", "1+1", "10**400", "true"} |->
                CASE e = "1-1" -> "0"
                  [] e = "1+1" -> "2"
                  [] e = "10**400" -> "PInf"
                  [] e = "true" -> "EvalError"]

MCExprs == DOMAIN MCDenote

NothingLate == FaultKinds \ {"late"}

MCSymmetry == Permutations(Users) \cup Permutations(Tasks)
==============================================================================

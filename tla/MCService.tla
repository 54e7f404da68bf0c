------------------------------ MODULE MCService ------------------------------
(***************************************************************************)
(* Instances of Service for TLC: an expression of every outcome, those of  *)
(* MCEvaluator that differ for the goroutine among them, and 0 as a value. *)
(***************************************************************************)
EXTENDS Service, Ast

MCNumbers == {Stored(Finite(n)) : n \in -Huge..Huge}

\* expr folds operations on constants: the names are those of the trees that
\* reach the evaluator, whatever was typed.
MCAstOf ==
    [e \in {"(1-3)*(4-2)", "1/0+-f()", "1/3**3", "2**3-Inf", "3-3", "3**3"} |->
        CASE e = "(1-3)*(4-2)" -> ProductOfDifferences
          [] e = "1/0+-f()"    -> BothOperandsFail
          [] e = "1/3**3"      -> HiddenOverflow
          [] e = "2**3-Inf"    -> InfMinusInf
          [] e = "3-3"         -> Nodes(<<Bin("-", 2, 3), Num(3), Num(3)>>)
          [] e = "3**3"        -> Nodes(<<Bin("**", 2, 3), Num(3), Num(3)>>)]

MCDenote ==
    [e \in DOMAIN MCAstOf \cup {"1+"} |->
        CASE e = "(1-3)*(4-2)" -> "-8/2"
          [] e = "1/0+-f()"    -> "EvalError"
          [] e = "1/3**3"      -> "0/2"
          [] e = "2**3-Inf"    -> "NaN"
          [] e = "3-3"         -> "0/2"
          [] e = "3**3"        -> "PInf"
          [] e = "1+"          -> "Malformed"]

MCExprs == DOMAIN MCDenote

\* The database answers; callers, workers and the process do not last.
SteadyDatabase == {"caller", "eval", "crash"}

EveryEvalFault == {"minute", "five", "network"}
==============================================================================

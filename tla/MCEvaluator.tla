----------------------------- MODULE MCEvaluator -----------------------------
(***************************************************************************)
(* Expressions for Evaluator: every kind of node, operations that do not   *)
(* commute, two operands that can both fail, and infinities that are made, *)
(* folded into the AST by expr.Compile, hidden or turned into NaN on the   *)
(* way to the root.  Numbers larger than 4 overflow.                       *)
(***************************************************************************)
EXTENDS Evaluator, Ast

\* One operation on every pair of small floats, also those that only a
\* constant folded by expr.Compile or an earlier operation can be.
OneOperation ==
         {Nodes(<<Bin(op, 2, 3), Lit(a), Lit(b)>>) :
            op \in BinarySymbols, a \in Float, b \in Float}
    \cup {Nodes(<<Un("-", 2), Lit(a)>>) : a \in Float}

MCTrees == DeepTrees \cup OneOperation
==============================================================================

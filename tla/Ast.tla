-------------------------------- MODULE Ast --------------------------------
(***************************************************************************)
(* Instances of the ASTs that expr.Compile makes, for TLC: a node is named *)
(* by its place in a sequence, the root is 1.                              *)
(***************************************************************************)
EXTENDS Floats, Sequences

NodeIds == 1..7

Node(kind, symbol, left, right, value) ==
    [kind |-> kind, symbol |-> symbol, left |-> left, right |-> right,
     value |-> value]

Lit(v)        == Node("Literal", "", 0, 0, v)
Num(k)        == Lit(Finite(2 * k))
Un(op, m)     == Node("Unary", op, m, 0, Zero)
Bin(op, l, r) == Node("Binary", op, l, r, Zero)
Func          == Node("Other", "", 0, 0, Zero)

Nodes(s) ==
    [n \in NodeIds |-> IF n <= Len(s) THEN s[n] ELSE Node("None", "", 0, 0, Zero)]

\* (1 - 3) * (4 - 2)
ProductOfDifferences ==
    Nodes(<<Bin("*", 2, 3), Bin("-", 4, 5), Bin("-", 6, 7),
            Num(1), Num(3), Num(4), Num(2)>>)

\* 1 / 0 + -f()
BothOperandsFail ==
    Nodes(<<Bin("+", 2, 3), Bin("/", 4, 5), Un("-", 6), Num(1), Num(0), Func>>)

\* 1 / 3 ** 3: the overflow is hidden from the root
HiddenOverflow ==
    Nodes(<<Bin("/", 2, 3), Num(1), Bin("**", 4, 5), Num(3), Num(3)>>)

\* 2 ** 3 - Inf
InfMinusInf ==
    Nodes(<<Bin("-", 2, 3), Bin("**", 4, 5), Lit(PInf), Num(2), Num(3)>>)

\* not (1 + 2), and 4 % (-2)
Negation == Nodes(<<Un("not", 2), Bin("+", 3, 4), Num(1), Num(2)>>)
Modulo   == Nodes(<<Bin("%", 2, 3), Num(4), Un("-", 4), Num(2)>>)

DeepTrees ==
    {ProductOfDifferences, BothOperandsFail, HiddenOverflow, InfMinusInf,
     Negation, Modulo}
=============================================================================

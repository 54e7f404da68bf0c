------------------------------- MODULE Floats -------------------------------
(***************************************************************************)
(* A small float64.  The representable numbers are the whole and the half  *)
(* numbers up to a largest one; every result is rounded to one of them     *)
(* (toward zero, so that it may underflow to 0), a larger one overflows to *)
(* an infinity, and the special cases are those of IEEE 754 and of Go's    *)
(* math.Pow.  The sign of zero is left out: b == 0.0 holds of both zeros.   *)
(***************************************************************************)
EXTENDS Integers

CONSTANT Huge   \* the largest finite number, in halves

ASSUME HugeAssumption == Huge \in Nat /\ Huge >= 4

\* n halves.
Finite(n) == [class |-> "finite", num |-> n]
PInf      == [class |-> "PInf", num |-> 0]
NInf      == [class |-> "NInf", num |-> 0]
NaN       == [class |-> "NaN", num |-> 0]

Finites == {Finite(n) : n \in -Huge..Huge}
Float   == Finites \cup {PInf, NInf, NaN}

Zero == Finite(0)
One  == Finite(2)

Rounded(n) ==
    IF n > Huge THEN PInf ELSE IF n < -Huge THEN NInf ELSE Finite(n)

SignOf(x) ==
    CASE x = PInf -> 1
      [] x = NInf -> -1
      [] OTHER    -> IF x.num > 0 THEN 1 ELSE IF x.num < 0 THEN -1 ELSE 0

Infinite(x) == x \in {PInf, NInf}

Infinity(sign) == IF sign > 0 THEN PInf ELSE NInf

Negated(x) ==
    CASE x = PInf -> NInf
      [] x = NInf -> PInf
      [] x = NaN  -> NaN
      [] OTHER    -> Finite(-x.num)

Sum2(a, b) ==
    IF NaN \in {a, b}    THEN NaN
    ELSE IF Infinite(a)  THEN IF b = Negated(a) THEN NaN ELSE a
    ELSE IF Infinite(b)  THEN b
    ELSE Rounded(a.num + b.num)

Difference(a, b) == Sum2(a, Negated(b))

Abs(n) == IF n < 0 THEN -n ELSE n

Product2(a, b) ==
    IF NaN \in {a, b} THEN NaN
    ELSE IF Infinite(a) \/ Infinite(b)
    THEN IF Zero \in {a, b} THEN NaN ELSE Infinity(SignOf(a) * SignOf(b))
    ELSE Rounded(SignOf(a) * SignOf(b) * ((Abs(a.num) * Abs(b.num)) \div 2))

\* a / b as Go computes it, also for b = 0.
Quotient(a, b) ==
    IF NaN \in {a, b}               THEN NaN
    ELSE IF Infinite(b)             THEN IF Infinite(a) THEN NaN ELSE Zero
    ELSE IF a = Zero /\ b = Zero    THEN NaN
    ELSE IF Infinite(a) \/ b = Zero THEN Infinity(SignOf(a) * (IF SignOf(b) < 0 THEN -1 ELSE 1))
    ELSE Rounded(SignOf(a) * SignOf(b) * ((2 * Abs(a.num)) \div Abs(b.num)))

Whole(x) == x.num % 2 = 0

Odd(x) == x.class = "finite" /\ x.num % 4 = 2

\* |x| < 1
Small(x) == x.class = "finite" /\ Abs(x.num) < One.num

\* x^k for a finite x and a natural k.
Raised(x, k) ==
    LET pow[i \in 0..k] == IF i = 0 THEN One ELSE Product2(pow[i - 1], x)
    IN  pow[k]

\* math.Sqrt of a positive finite x.
Sqrt(x) ==
    Finite(CHOOSE r \in 1..Huge :
             r * r <= 2 * x.num /\ 2 * x.num < (r + 1) * (r + 1))

\* x to the power of k halves.
RaisedToHalves(x, k) ==
    Product2(Raised(x, k \div 2), IF k % 2 = 0 THEN One ELSE Sqrt(x))

\* math.Pow of finite numbers, a not zero: NaN for the root of a negative one.
PowerOfFinites(a, b) ==
    IF SignOf(a) < 0 /\ ~Whole(b) THEN NaN
    ELSE IF SignOf(b) > 0         THEN RaisedToHalves(a, b.num)
    ELSE IF Small(a)              THEN RaisedToHalves(Quotient(One, a), -b.num)
    ELSE Quotient(One, RaisedToHalves(a, -b.num))

\* math.Pow, whose special cases come in the order its documentation lists.
Power(a, b) ==
    IF b = Zero \/ a = One      THEN One
    ELSE IF NaN \in {a, b}      THEN NaN
    ELSE IF a = Zero            THEN IF SignOf(b) < 0 THEN PInf ELSE Zero
    ELSE IF a = Negated(One) /\ Infinite(b) THEN One
    ELSE IF Infinite(b)         THEN IF Small(a) <=> b = PInf THEN Zero ELSE PInf
    ELSE IF Infinite(a) /\ SignOf(b) < 0 THEN Zero
    ELSE IF Infinite(a)         THEN IF a = NInf /\ Odd(b) THEN NInf ELSE PInf
    ELSE PowerOfFinites(a, b)
==============================================================================

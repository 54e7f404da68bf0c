---------------------------- MODULE EvaluatorProofs ----------------------------
(***************************************************************************)
(* That Evaluate returns the meaning of its expression or an error that has *)
(* a cause, and leaves nothing running: for any trees, any faults and      *)
(* every order of operands, answers and deadlines, whatever is the largest *)
(* number.                                                                 *)
(***************************************************************************)
EXTENDS Evaluator, TLAPS, FiniteSetTheorems, SequenceTheorems, WellFoundedInduction

\* A non-empty set of natural numbers has a least element.
LEMMA LeastNumber ==
    ASSUME NEW T, T \subseteq Nat, T # {}
    PROVE  \E x \in T : \A y \in T : x <= y
<1> DEFINE R == OpToRel(<, Nat)
<1>1. IsWellFoundedOn(R, Nat)
  BY NatLessThanWellFounded
<1>2. \E x \in T : \A y \in T : ~(<<y, x>> \in R)
  BY <1>1, WFMin
<1>3. \A x \in T, y \in T : <<y, x>> \notin R => x <= y
  BY DEF OpToRel
<1> QED BY <1>2, <1>3

-----------------------------------------------------------------------------
\* Floats

\* The classes tell the infinities and NaN from the finite numbers.
LEMMA FloatClasses ==
    /\ \A x \in Float : \/ x = PInf \/ x = NInf \/ x = NaN
                        \/ x.num \in -Huge..Huge /\ x = Finite(x.num)
    /\ \A n : Finite(n).num = n /\ Finite(n) \notin {PInf, NInf, NaN}
    /\ \A n \in -Huge..Huge : Finite(n) \in Float
    /\ {PInf, NInf, NaN} \subseteq Float /\ Zero \in Float /\ One \in Float
    /\ PInf # NaN /\ NInf # NaN
BY HugeAssumption DEF Float, Finites, Finite, PInf, NInf, NaN, Zero, One

\* Whatever is computed is rounded to a float, and never to NaN.
LEMMA RoundedType ==
    ASSUME NEW n \in Int
    PROVE  Rounded(n) \in Float /\ Rounded(n) # NaN
BY FloatClasses, HugeAssumption DEF Rounded

\* A float is an infinity, NaN, or a finite number and then equal to one.
LEMMA FiniteOperand ==
    ASSUME NEW x \in Float, ~Infinite(x), x # NaN
    PROVE  x.num \in -Huge..Huge /\ x.num \in Int /\ x = Finite(x.num)
BY FloatClasses, HugeAssumption DEF Infinite

\* The sign of a float.
LEMMA SignType ==
    ASSUME NEW x \in Float, x # NaN
    PROVE  SignOf(x) \in {-1, 0, 1}
BY FiniteOperand DEF SignOf, Infinite

\* An infinity.
LEMMA InfinityType ==
    ASSUME NEW sign
    PROVE  Infinity(sign) \in Float /\ Infinity(sign) # NaN
BY FloatClasses DEF Infinity

\* The negation of a float, which has no other NaN than that of NaN.
LEMMA NegatedType ==
    ASSUME NEW x \in Float
    PROVE  Negated(x) \in Float /\ (x # NaN => Negated(x) # NaN)
<1>1. CASE Infinite(x) \/ x = NaN
  BY <1>1, FloatClasses DEF Infinite, Negated
<1>2. CASE ~Infinite(x) /\ x # NaN
  <2>1. x.num \in -Huge..Huge
    BY <1>2, FiniteOperand
  <2>2. -x.num \in -Huge..Huge
    BY <2>1, HugeAssumption
  <2>3. Negated(x) = Finite(-x.num)
    BY <1>2 DEF Negated, Infinite
  <2> QED BY <2>2, <2>3, FloatClasses
<1> QED BY <1>1, <1>2

\* Sums of floats; of finite ones they are not NaN.
LEMMA SumType ==
    ASSUME NEW a \in Float, NEW b \in Float
    PROVE  /\ Sum2(a, b) \in Float
           /\ {a, b} \subseteq Finites => Sum2(a, b) # NaN
<1>1. CASE Infinite(a) \/ Infinite(b) \/ a = NaN \/ b = NaN
  <2>1. Sum2(a, b) \in {a, b, NaN}
    BY <1>1 DEF Sum2
  <2>2. a \notin Finites \/ b \notin Finites
    BY <1>1, FloatClasses DEF Infinite, Finites
  <2> QED BY <2>1, <2>2, FloatClasses
<1>2. CASE ~(Infinite(a) \/ Infinite(b) \/ a = NaN \/ b = NaN)
  <2>1. Sum2(a, b) = Rounded(a.num + b.num)
    BY <1>2 DEF Sum2
  <2>2. a.num + b.num \in Int
    BY <1>2, FiniteOperand
  <2> QED BY <2>1, <2>2, RoundedType
<1> QED BY <1>1, <1>2

\* The same of differences.
LEMMA DifferenceType ==
    ASSUME NEW a \in Float, NEW b \in Float
    PROVE  /\ Difference(a, b) \in Float
           /\ {a, b} \subseteq Finites => Difference(a, b) # NaN
<1>1. Difference(a, b) \in Float
  BY NegatedType, SumType DEF Difference
<1>2. b \in Finites => Negated(b) \in Finites
  <2> SUFFICES ASSUME NEW n \in -Huge..Huge, b = Finite(n) PROVE Negated(b) \in Finites
    BY DEF Finites
  <2>1. Negated(b) = Finite(-n)
    BY FloatClasses DEF Negated
  <2>2. -n \in -Huge..Huge
    BY HugeAssumption
  <2> QED BY <2>1, <2>2 DEF Finites
<1> QED BY <1>1, <1>2, NegatedType, SumType DEF Difference

\* A product of signs is a sign, and it does not make a number larger.
LEMMA SignedType ==
    ASSUME NEW s \in {-1, 0, 1}, NEW t \in {-1, 0, 1}, NEW n \in Nat
    PROVE  /\ s * t \in {-1, 0, 1}
           /\ Rounded(s * t * n) \in Float /\ Rounded(s * t * n) # NaN
<1>1. s * t \in {-1, 0, 1}
  OBVIOUS
<1> DEFINE u == s * t
<1>2. u \in {-1, 0, 1}
  BY <1>1
<1> HIDE DEF u
<1>3. u * n \in Int
  BY <1>2
<1> QED BY <1>2, <1>3, RoundedType DEF u

\* Products of floats; of finite numbers, or of an infinity and a number that
\* is not zero, they are not NaN.
LEMMA ProductType ==
    ASSUME NEW a \in Float, NEW b \in Float
    PROVE  /\ Product2(a, b) \in Float
           /\ {a, b} \subseteq Finites => Product2(a, b) # NaN
           /\ a # NaN /\ b # NaN /\ b # Zero /\ (a # Zero \/ ~Infinite(b))
                => Product2(a, b) # NaN
<1>1. CASE Infinite(a) \/ Infinite(b) \/ a = NaN \/ b = NaN
  <2>1. Product2(a, b) \in Float
    BY <1>1, InfinityType, FloatClasses DEF Product2
  <2>2. a \notin Finites \/ b \notin Finites
    BY <1>1, FloatClasses DEF Infinite, Finites
  <2>3. a # NaN /\ b # NaN /\ b # Zero /\ (a # Zero \/ ~Infinite(b))
          => Product2(a, b) # NaN
    BY <1>1, InfinityType, FloatClasses DEF Product2, Infinite, Zero
  <2> QED BY <2>1, <2>2, <2>3
<1>2. CASE ~(Infinite(a) \/ Infinite(b) \/ a = NaN \/ b = NaN)
  <2> DEFINE n == (Abs(a.num) * Abs(b.num)) \div 2
  <2>1. Product2(a, b) = Rounded(SignOf(a) * SignOf(b) * n)
    BY <1>2 DEF Product2
  <2>2. Abs(a.num) \in Nat /\ Abs(b.num) \in Nat
    BY <1>2, FiniteOperand DEF Abs
  <2>3. \A x \in Nat, y \in Nat : x * y \in Nat
    OBVIOUS
  <2>4. n \in Nat
    BY <2>2, <2>3
  <2>5. SignOf(a) \in {-1, 0, 1} /\ SignOf(b) \in {-1, 0, 1}
    BY <1>2, SignType
  <2> HIDE DEF n
  <2> QED BY <2>1, <2>4, <2>5, SignedType
<1> QED BY <1>1, <1>2

\* Quotients of floats, which are not NaN unless both are zero, infinite or
\* one is NaN.
LEMMA QuotientType ==
    ASSUME NEW a \in Float, NEW b \in Float
    PROVE  /\ Quotient(a, b) \in Float
           /\ {a, b} \subseteq Finites /\ b # Zero => Quotient(a, b) # NaN
           /\ a = One /\ b # NaN => Quotient(a, b) # NaN
<1>1. CASE Infinite(a) \/ Infinite(b) \/ a = NaN \/ b = NaN
  <2>1. Quotient(a, b) \in Float
    BY <1>1, InfinityType, FloatClasses DEF Quotient
  <2>2. a \notin Finites \/ b \notin Finites
    BY <1>1, FloatClasses DEF Infinite, Finites
  <2>3. a = One /\ b # NaN => Quotient(a, b) # NaN
    BY <1>1, FloatClasses DEF Quotient, Infinite, One, Zero
  <2> QED BY <2>1, <2>2, <2>3
<1>2. CASE ~(Infinite(a) \/ Infinite(b) \/ a = NaN \/ b = NaN) /\ b = Zero
  <2>1. Quotient(a, b) \in Float
    BY <1>2, InfinityType, FloatClasses DEF Quotient
  <2>2. One # Zero
    BY DEF One, Zero, Finite
  <2>3. a = One => Quotient(a, b) # NaN
    BY <1>2, <2>2, InfinityType DEF Quotient
  <2> QED BY <1>2, <2>1, <2>3
<1>3. CASE ~(Infinite(a) \/ Infinite(b) \/ a = NaN \/ b = NaN) /\ b # Zero
  <2> DEFINE n == (2 * Abs(a.num)) \div Abs(b.num)
  <2>1. a.num \in Int /\ b.num \in Int /\ b.num # 0
    BY <1>3, FiniteOperand DEF Zero
  <2>2. Abs(a.num) \in Nat /\ Abs(b.num) \in Nat \ {0}
    BY <2>1 DEF Abs
  <2>3. \A x \in Nat, y \in Nat \ {0} : (2 * x) \div y \in Nat
    OBVIOUS
  <2>4. n \in Nat
    BY <2>2, <2>3
  <2>5. SignOf(a) \in {-1, 0, 1} /\ SignOf(b) \in {-1, 0, 1}
    BY <1>3, SignType
  <2>6. Quotient(a, b) = Rounded(SignOf(a) * SignOf(b) * n)
    BY <1>3 DEF Quotient
  <2> HIDE DEF n
  <2> QED BY <2>4, <2>5, <2>6, SignedType
<1> QED BY <1>1, <1>2, <1>3

\* The table of powers that Raised is defined by exists, and holds floats.
LEMMA PowersTable ==
    ASSUME NEW x \in Float, NEW k \in Nat
    PROVE  \E g \in [0..k -> Float] :
             g = [i \in 0..k |-> IF i = 0 THEN One ELSE Product2(g[i - 1], x)]
<1> DEFINE Step(g, i) == IF i = 0 THEN One ELSE Product2(g[i - 1], x)
           Upto(j) == \E g \in [0..k -> Float] :
                        \A i \in 0..k : i <= j => g[i] = Step(g, i)
           T == {j \in Nat : ~Upto(j)}
<1>1. ASSUME T # {} PROVE FALSE
  <2>1. PICK j \in T : \A i \in T : j <= i
    BY <1>1, LeastNumber
  <2>2. CASE j = 0
    <3>1. [i \in 0..k |-> One] \in [0..k -> Float]
      BY FloatClasses
    <3>2. Upto(0)
      <4> DEFINE g == [i \in 0..k |-> One]
      <4>1. \A i \in 0..k : i <= 0 => g[i] = Step(g, i)
        OBVIOUS
      <4> QED BY <3>1, <4>1
    <3> QED BY <2>1, <2>2, <3>2
  <2>3. CASE j # 0
    <3>0. j \in Nat /\ j - 1 \in Nat /\ ~(j <= j - 1)
      BY <2>1, <2>3
    <3>1. j - 1 \notin T
      <4> HIDE DEF T
      <4> QED BY <2>1, <3>0
    <3>2. PICK g \in [0..k -> Float] : \A i \in 0..k : i <= j - 1 => g[i] = Step(g, i)
      BY <3>0, <3>1
    <3>3. CASE j \notin 0..k
      <4>1. \A i \in 0..k : i <= j => i <= j - 1
        BY <3>3, <2>1
      <4>2. Upto(j)
        BY <3>2, <4>1
      <4> QED BY <2>1, <4>2
    <3>4. CASE j \in 0..k
      <4> DEFINE h == [g EXCEPT ![j] = Product2(g[j - 1], x)]
      <4>1. j - 1 \in 0..k
        BY <2>3, <3>4
      <4>2. Product2(g[j - 1], x) \in Float
        BY <4>1, ProductType
      <4>3. h \in [0..k -> Float] /\ h[j] = Product2(g[j - 1], x)
            /\ \A i \in 0..k : i # j => h[i] = g[i]
        BY <3>4, <4>2
      <4> HIDE DEF h
      <4>4. ASSUME NEW i \in 0..k, i <= j PROVE h[i] = Step(h, i)
        <5>1. CASE i = j
          <6>1. h[j - 1] = g[j - 1]
            BY <4>1, <4>3
          <6> QED BY <2>3, <4>3, <5>1, <6>1
        <5>2. CASE i # j
          <6>1. h[i] = g[i] /\ i <= j - 1
            BY <4>3, <4>4, <5>2, <3>4
          <6>2. i # 0 => i - 1 \in 0..k /\ i - 1 # j
            BY <6>1, <3>4
          <6>3. i # 0 => h[i - 1] = g[i - 1]
            BY <4>3, <6>2
          <6> QED BY <3>2, <6>1, <6>3
        <5> QED BY <5>1, <5>2
      <4>5. Upto(j)
        BY <4>3, <4>4
      <4> QED BY <2>1, <4>5
    <3> QED BY <3>3, <3>4
  <2> QED BY <2>2, <2>3
<1>2. Upto(k)
  BY <1>1
<1>3. PICK g \in [0..k -> Float] : \A i \in 0..k : i <= k => g[i] = Step(g, i)
  BY <1>2
<1>4. g = [i \in 0..k |-> Step(g, i)]
  BY <1>3
<1> QED BY <1>4

\* So does every table that satisfies its equation; and none of the powers of
\* a number that is not zero is NaN.
LEMMA PowersAreFloats ==
    ASSUME NEW x \in Float, NEW k \in Nat, NEW g,
           g = [i \in 0..k |-> IF i = 0 THEN One ELSE Product2(g[i - 1], x)]
    PROVE  g[k] \in Float /\ (x \in Finites /\ x # Zero => g[k] # NaN)
<1> DEFINE Good(v) == v \in Float /\ (x \in Finites /\ x # Zero => v # NaN)
           T == {i \in 0..k : ~Good(g[i])}
<1>1. ASSUME T # {} PROVE FALSE
  <2>0. T \subseteq Nat
    OBVIOUS
  <2>1. PICK j \in T : \A i \in T : j <= i
    <3> HIDE DEF T
    <3> QED BY <1>1, <2>0, LeastNumber
  <2>2. g[j] = IF j = 0 THEN One ELSE Product2(g[j - 1], x)
    BY <2>1
  <2>3. Good(One)
    BY FloatClasses DEF One
  <2>4. j # 0
    BY <2>1, <2>2, <2>3
  <2>5. j - 1 \in 0..k /\ j - 1 \notin T
    BY <2>1, <2>4
  <2>6. Good(g[j - 1])
    BY <2>5
  <2>7. x \in Finites => x # NaN /\ ~Infinite(x)
    BY FloatClasses DEF Finites, Infinite
  <2>8. Good(Product2(g[j - 1], x))
    BY <2>6, <2>7, ProductType
  <2> QED BY <2>1, <2>2, <2>4, <2>8
<1>2. k \in 0..k
  OBVIOUS
<1> QED BY <1>1, <1>2

\* Powers with a natural exponent are floats, and not NaN if the base is
\* finite and not zero.
LEMMA RaisedType ==
    ASSUME NEW x \in Float, NEW k \in Nat
    PROVE  Raised(x, k) \in Float /\ (x \in Finites /\ x # Zero => Raised(x, k) # NaN)
<1> DEFINE IsTable(g) == g = [i \in 0..k |->
                                IF i = 0 THEN One ELSE Product2(g[i - 1], x)]
           pow == CHOOSE g : IsTable(g)
<1>1. \E g : IsTable(g)
  BY PowersTable
<1>2. IsTable(pow)
  BY <1>1
<1>3. Raised(x, k) = pow[k]
  BY DEF Raised
<1> HIDE DEF pow
<1> QED BY <1>2, <1>3, PowersAreFloats

\* Every positive number has a root, and it is not zero.
LEMMA SqrtType ==
    ASSUME NEW x \in Finites, x.num > 0
    PROVE  Sqrt(x) \in Finites /\ Sqrt(x) # Zero
<1> DEFINE m == 2 * x.num
           T == {q \in Nat : m < (q + 1) * (q + 1)}
           IsRoot(r) == r * r <= m /\ m < (r + 1) * (r + 1)
<1>1. x.num \in 1..Huge /\ Huge \in Nat /\ Huge >= 2
  BY FloatClasses, HugeAssumption DEF Finites
<1>2. m \in Nat /\ m >= 2 /\ m <= 2 * Huge
  BY <1>1
<1> HIDE DEF m
<1>3. m \in T
  <2>1. (m + 1) * (m + 1) = m * m + 2 * m + 1 /\ m * m >= 0
    BY <1>2
  <2> QED BY <1>2, <2>1
<1>4. PICK q \in T : \A p \in T : q <= p
  <2>1. T \subseteq Nat /\ T # {}
    BY <1>3
  <2> HIDE DEF T
  <2> QED BY <2>1, LeastNumber
<1>5. q \in Nat /\ m < (q + 1) * (q + 1)
  BY <1>4
<1>6. q >= 1
  BY <1>2, <1>5
<1>7. q * q <= m
  <2>1. q - 1 \in Nat /\ ~(q <= q - 1)
    BY <1>5, <1>6
  <2>2. q - 1 \notin T
    <3> HIDE DEF T
    <3> QED BY <1>4, <2>1
  <2>3. ~(m < ((q - 1) + 1) * ((q - 1) + 1))
    BY <2>1, <2>2
  <2>4. (q - 1) + 1 = q
    BY <1>5
  <2>5. ~(m < q * q)
    BY <2>3, <2>4
  <2>6. q * q \in Nat
    BY <1>5
  <2> QED BY <1>2, <2>5, <2>6
<1>8. q <= Huge
  <2> SUFFICES ASSUME q >= Huge + 1 PROVE FALSE
    BY <1>1, <1>5
  <2>1. q * q >= q * (Huge + 1)
    BY <1>1, <1>5
  <2>2. q * (Huge + 1) = q * Huge + q /\ q * Huge >= q * 2
    BY <1>1, <1>5
  <2>3. q * q \in Nat /\ q * Huge \in Nat
    BY <1>1, <1>5
  <2> QED BY <1>1, <1>2, <1>5, <1>7, <2>1, <2>2, <2>3
<1>9. \E r \in 1..Huge : IsRoot(r)
  BY <1>1, <1>5, <1>6, <1>7, <1>8
<1> DEFINE root == CHOOSE r \in 1..Huge : IsRoot(r)
<1>10. root \in 1..Huge
  BY <1>9
<1>11. Sqrt(x) = Finite(root)
  BY DEF Sqrt, m
<1> HIDE DEF root
<1> QED BY <1>1, <1>10, <1>11, FloatClasses DEF Finites, Zero

\* A power in halves is a float; and it is not NaN if the base is finite and
\* not zero, and positive where a root is taken.
LEMMA HalvesType ==
    ASSUME NEW x \in Float, NEW k \in Nat, x \in Finites, x # Zero,
           x.num > 0 \/ k % 2 = 0
    PROVE  RaisedToHalves(x, k) \in Float /\ RaisedToHalves(x, k) # NaN
<1> DEFINE r == IF k % 2 = 0 THEN One ELSE Sqrt(x)
           p == Raised(x, k \div 2)
<1>1. k \div 2 \in Nat
  OBVIOUS
<1>2. p \in Float /\ p # NaN
  BY <1>1, RaisedType
<1>3. One \in Finites /\ One # Zero
  BY HugeAssumption DEF One, Zero, Finite, Finites
<1>4. r \in Finites /\ r # Zero
  BY <1>3, SqrtType
<1> HIDE DEF r, p
<1>5. r \in Float /\ r # NaN /\ ~Infinite(r)
  BY <1>4, FloatClasses DEF Float, Finites, Infinite
<1>6. Product2(p, r) \in Float /\ Product2(p, r) # NaN
  BY <1>2, <1>4, <1>5, ProductType
<1>7. RaisedToHalves(x, k) = Product2(p, r)
  BY DEF RaisedToHalves, p, r
<1> QED BY <1>6, <1>7

\* The reciprocal of a number less than 1 is finite.
LEMMA ReciprocalType ==
    ASSUME NEW a \in Finites, a # Zero, Small(a)
    PROVE  /\ Quotient(One, a) \in Finites
           /\ Quotient(One, a) # Zero
           /\ a.num > 0 => Quotient(One, a).num > 0
<1>1. a.num \in Int /\ a = Finite(a.num) /\ a.num # 0
  BY FloatClasses, HugeAssumption DEF Finites, Zero
<1>2. a.num \in {-1, 1}
  BY <1>1 DEF Small, Abs, One, Finite
<1>3. One.num = 2 /\ One # NaN /\ ~Infinite(One) /\ SignOf(One) = 1
  BY DEF One, Finite, NaN, Infinite, PInf, NInf, SignOf
<1>4. a # NaN /\ ~Infinite(a) /\ SignOf(a) = a.num
  BY <1>1, <1>2, FloatClasses DEF Infinite, SignOf
<1>5. Quotient(One, a) = Rounded(SignOf(One) * SignOf(a) * ((2 * Abs(2)) \div Abs(a.num)))
  BY <1>3, <1>4 DEF Quotient
<1>6. SignOf(One) * SignOf(a) * ((2 * Abs(2)) \div Abs(a.num)) = 4 * a.num
  BY <1>2, <1>3, <1>4 DEF Abs
<1>7. Rounded(4 * a.num) = Finite(4 * a.num)
  BY <1>2, HugeAssumption DEF Rounded
<1>8. 4 * a.num \in -Huge..Huge /\ 4 * a.num # 0 /\ Finite(4 * a.num).num = 4 * a.num
  BY <1>2, HugeAssumption DEF Finite
<1> QED BY <1>5, <1>6, <1>7, <1>8 DEF Finites, Zero, Finite

\* math.Pow of two floats is one, and it is NaN of finite ones only where it
\* would be the root of a negative number.
LEMMA PowerType ==
    ASSUME NEW a \in Float, NEW b \in Float
    PROVE  /\ Power(a, b) \in Float
           /\ {a, b} \subseteq Finites /\ Power(a, b) = NaN
                => SignOf(a) < 0 /\ ~Whole(b)
<1> DEFINE special == \/ b = Zero \/ a = One \/ a = NaN \/ b = NaN \/ a = Zero
                      \/ Infinite(b) \/ Infinite(a)
           root == SignOf(a) < 0 /\ ~Whole(b)
<1>0. /\ \A x \in Float : (x \in Finites <=> x # NaN /\ ~Infinite(x))
      /\ {Zero, One, PInf, NInf, NaN} \subseteq Float
      /\ NaN \notin {Zero, One, PInf, NInf}
  BY FloatClasses DEF Infinite, Finites, Float, Zero, One
<1>1. CASE special
  <2>1. Power(a, b) \in {Zero, One, PInf, NInf, NaN}
    BY <1>1 DEF Power, Infinite
  <2>2. {a, b} \subseteq Finites => Power(a, b) \in {Zero, One, PInf}
    BY <1>0, <1>1 DEF Power
  <2> QED BY <1>0, <2>1, <2>2
<1>2. ~special => Power(a, b) = PowerOfFinites(a, b)
  BY DEF Power
<1>4. CASE ~special /\ root
  BY <1>0, <1>2, <1>4 DEF PowerOfFinites
<1>3. CASE ~special /\ ~root
  <2>1. /\ a \in Finites /\ a # Zero /\ a.num \in Int /\ a.num # 0
        /\ b \in Finites /\ b.num \in Int /\ b.num # 0
    BY <1>0, <1>3, FiniteOperand DEF Zero, Finite
  <2>2. /\ SignOf(b) > 0 <=> b.num > 0
        /\ SignOf(a) < 0 <=> a.num < 0
    BY <1>3, <2>1 DEF SignOf, Infinite
  <2>3. a.num > 0 \/ b.num % 2 = 0
    BY <1>3, <2>1, <2>2 DEF Whole
  <2>4. b.num % 2 = 0 => (-b.num) % 2 = 0
    BY <2>1
  <2>5. CASE SignOf(b) > 0
    <3>1. Power(a, b) = RaisedToHalves(a, b.num)
      BY <1>2, <1>3, <2>5 DEF PowerOfFinites
    <3> QED BY <2>1, <2>2, <2>3, <2>5, <3>1, HalvesType
  <2>6. CASE ~(SignOf(b) > 0) /\ Small(a)
    <3> DEFINE c == Quotient(One, a)
    <3>1. Power(a, b) = RaisedToHalves(c, -b.num)
      BY <1>2, <1>3, <2>6 DEF PowerOfFinites
    <3>2. c \in Finites /\ c # Zero /\ (a.num > 0 => c.num > 0)
      BY <2>1, <2>6, ReciprocalType
    <3> HIDE DEF c
    <3>3. c \in Float /\ -b.num \in Nat
      BY <2>1, <2>2, <2>6, <3>2 DEF Float
    <3> QED BY <2>3, <2>4, <3>1, <3>2, <3>3, HalvesType
  <2>7. CASE ~(SignOf(b) > 0) /\ ~Small(a)
    <3> DEFINE c == RaisedToHalves(a, -b.num)
    <3>1. Power(a, b) = Quotient(One, c)
      BY <1>2, <1>3, <2>7 DEF PowerOfFinites
    <3>2. -b.num \in Nat
      BY <2>1, <2>2, <2>7
    <3>3. c \in Float /\ c # NaN
      BY <2>1, <2>3, <2>4, <3>2, HalvesType
    <3> HIDE DEF c
    <3> QED BY <1>0, <3>1, <3>3, QuotientType
  <2> QED BY <2>5, <2>6, <2>7
<1> QED BY <1>1, <1>3, <1>4

\* Calculate answers a request that it does not refuse with a float, and makes
\* NaN of finite numbers only where that is the root of a negative one.
LEMMA ComputedType ==
    ASSUME NEW symbol \in Symbols, NEW a \in Float, NEW b \in Float
    PROVE  /\ Computed(symbol, a, b) \in Float
           /\ /\ ~DividesByZero(symbol, b)
              /\ {a, b} \subseteq Finites
              /\ Computed(symbol, a, b) = NaN
              => symbol = "^" /\ SignOf(a) < 0 /\ ~Whole(b)
<1>1. CASE symbol = "+"
  BY <1>1, SumType DEF Computed
<1>2. CASE symbol = "-"
  BY <1>2, DifferenceType DEF Computed
<1>3. CASE symbol = "*"
  BY <1>3, ProductType DEF Computed
<1>4. CASE symbol = "/"
  BY <1>4, QuotientType DEF Computed, DividesByZero
<1>5. CASE symbol = "^"
  BY <1>5, PowerType DEF Computed
<1>6. CASE symbol = "neg"
  <2>1. a \in Finites => a # NaN
    BY FloatClasses DEF Finites
  <2> QED BY <1>6, <2>1, NegatedType DEF Computed
<1> QED BY <1>1, <1>2, <1>3, <1>4, <1>5, <1>6 DEF Symbols
-----------------------------------------------------------------------------
\* Meaning

\* A node's meaning looks at that of its operands only.
LEMMA MeaningLocal ==
    ASSUME NEW tr, NEW g, NEW h, NEW n,
           \A m \in OperandsIn(tr, n) : g[m] = h[m]
    PROVE  MeaningStep(tr, g, n) = MeaningStep(tr, h, n)
<1>1. CASE tr[n].kind = "Unary"
  BY <1>1 DEF OperandsIn, MeaningStep
<1>2. CASE tr[n].kind = "Binary"
  BY <1>2 DEF OperandsIn, MeaningStep
<1>3. CASE tr[n].kind \notin {"Unary", "Binary"}
  BY <1>3 DEF MeaningStep
<1> QED BY <1>1, <1>2, <1>3

\* Every node of a tree has a meaning, made from the leaves to the root.
LEMMA MeaningExists ==
    ASSUME NEW tr, IsTree(tr)
    PROVE  \E g : g = [n \in Ids |-> MeaningStep(tr, g, n)]
<1> DEFINE N == Cardinality(Ids)
           From(j) == \E g : \A n \in Ids : n > N - j => g[n] = MeaningStep(tr, g, n)
           T == {j \in Nat : ~From(j)}
<1>0. N \in Nat /\ \A n \in Ids : n \in 1..N
  BY IdsAssumption, FS_CardinalityType
<1> HIDE DEF N
<1>1. ASSUME T # {} PROVE FALSE
  <2>0. T \subseteq Nat
    OBVIOUS
  <2>1. PICK j \in T : \A i \in T : j <= i
    <3> HIDE DEF T
    <3> QED BY <1>1, <2>0, LeastNumber
  <2>2. From(0)
    BY <1>0
  <2>3. j \in Nat /\ j # 0 /\ j - 1 \in Nat /\ ~(j <= j - 1)
    <3>1. j \in Nat /\ ~From(j)
      BY <2>1
    <3> HIDE DEF From
    <3> QED BY <2>2, <3>1
  <2>4. j - 1 \notin T
    <3> HIDE DEF T
    <3> QED BY <2>1, <2>3
  <2>5. PICK g : \A n \in Ids : n > N - (j - 1) => g[n] = MeaningStep(tr, g, n)
    BY <2>3, <2>4
  <2> DEFINE k == N - (j - 1)
             h == [n \in Ids |-> IF n = k THEN MeaningStep(tr, g, n) ELSE g[n]]
  <2>6. k \in Int /\ \A n \in Ids : n > N - j <=> n = k \/ n > k
    BY <1>0, <2>3
  <2> HIDE DEF k
  <2>7. ASSUME NEW n \in Ids, n > N - j PROVE h[n] = MeaningStep(tr, h, n)
    <3>1. h[n] = MeaningStep(tr, g, n)
      <4>1. n > k => g[n] = MeaningStep(tr, g, n)
        BY <2>5 DEF k
      <4>2. n = k \/ n > k
        BY <2>6, <2>7
      <4> QED BY <4>1, <4>2
    <3>2. ASSUME NEW m \in OperandsIn(tr, n) PROVE g[m] = h[m]
      <4>1. m \in Ids /\ m > n
        BY DEF IsTree
      <4>2. m # k
        BY <1>0, <2>6, <2>7, <4>1
      <4> QED BY <4>1, <4>2
    <3> HIDE DEF h
    <3> QED BY <3>1, <3>2, MeaningLocal
  <2>8. From(j)
    <3> HIDE DEF h
    <3> QED BY <2>7
  <2> QED BY <2>1, <2>8
<1>2. From(N)
  BY <1>0, <1>1
<1>3. PICK g : \A n \in Ids : n > N - N => g[n] = MeaningStep(tr, g, n)
  BY <1>2
<1> DEFINE h == [n \in Ids |-> g[n]]
<1>4. ASSUME NEW n \in Ids PROVE h[n] = MeaningStep(tr, h, n)
  <2>1. h[n] = MeaningStep(tr, g, n)
    BY <1>0, <1>3
  <2>2. \A m \in OperandsIn(tr, n) : g[m] = h[m]
    BY DEF IsTree
  <2> HIDE DEF h
  <2> QED BY <2>1, <2>2, MeaningLocal
<1>5. h = [n \in Ids |-> MeaningStep(tr, h, n)]
  <2>1. h = [n \in Ids |-> h[n]]
    OBVIOUS
  <2> HIDE DEF h
  <2> QED BY <1>4, <2>1
<1> HIDE DEF h
<1> QED BY <1>5

\* So the meaning of a tree is what its equation says.
LEMMA MeaningEquation ==
    ASSUME NEW tr, IsTree(tr), NEW n \in Ids
    PROVE  MeaningOf(tr)[n] = MeaningStep(tr, MeaningOf(tr), n)
<1> DEFINE Solves(g) == g = [k \in Ids |-> MeaningStep(tr, g, k)]
           m == CHOOSE g : Solves(g)
<1>1. \E g : Solves(g)
  BY MeaningExists
<1>2. Solves(m)
  BY <1>1
<1>3. MeaningOf(tr) = m
  BY DEF MeaningOf
<1> HIDE DEF m
<1> QED BY <1>2, <1>3

-----------------------------------------------------------------------------
\* The invariant

Outcomes == [error : {"none", "not yet", "cancelled", "unsupported", "refused",
                      "timeout", "unavailable"},
             value : Float]

Places == {"idle", "called", "operands", "call", "returned"}

\* What EvaluatorTypeOK says, but for the lengths of the channels.
Typed ==
    /\ WorkerTypeOK
    /\ tree \in Trees
    /\ ctxEnded \in BOOLEAN
    /\ pc \in [Ids -> Places]
    /\ ret \in [Ids -> Outcomes]
    /\ DOMAIN errChan = Ids

\* A node's operands are not begun before it asks for them, have all returned
\* when it goes on, and are not left running when it returns.
OrderOfCalls(n) ==
    /\ pc[n] \in {"idle", "called"} => \A m \in Operands(n) : pc[m] = "idle"
    /\ pc[n] = "operands" => tree[n].kind \in {"Unary", "Binary"}
    /\ Returned(n) => \A m \in Operands(n) : pc[m] \in {"idle", "returned"}

\* All operands of n have a value.
Ready(n) ==
    /\ tree[n].kind = "Binary" \/ (tree[n].kind = "Unary" /\ tree[n].symbol = "-")
    /\ \A m \in Operands(n) : Returned(m) /\ ~Failed(m)

\* What the worker has answered fits what it was asked.
Answered(i) ==
    LET q == request[i]
        served == Known(q.symbol) /\ ~DividesByZero(q.symbol, q.b)
    IN  /\ handler[i] = "delay" => served
        /\ handler[i] # "done" => response[i] = NoResponse
        /\ handler[i] = "done" =>
             \/ response[i] = Refusal /\ ~served
             \/ response[i] = Cancellation /\ i \in gone
             \/ /\ response[i] = [code |-> "OK", result |-> Computed(q.symbol, q.a, q.b)]
                /\ served

\* The worker works at a node from the moment on that its call waits, and is
\* given up when that has returned.
OrderOfOperations(n) ==
    /\ pc[n] \in {"idle", "called", "operands"} => handler[n] = "none"
    /\ pc[n] = "call" => handler[n] # "none"
    /\ handler[n] = "none" => request[n] = NoRequest
    /\ handler[n] # "none" => Ready(n) /\ request[n] = RequestOf(n)
    /\ Returned(n) => handler[n] \in {"none", "done"} \/ n \in gone

\* A binary node's channel holds the errors of its operands, in either order.
ChannelHolds(n) ==
    LET l == tree[n].left
        r == tree[n].right
    IN  IF tree[n].kind # "Binary" THEN errChan[n] = <<>>
        ELSE /\ ~Failed(l) /\ ~Failed(r) => errChan[n] = <<>>
             /\ Failed(l) /\ ~Failed(r) => errChan[n] = <<ret[l]>>
             /\ ~Failed(l) /\ Failed(r) => errChan[n] = <<ret[r]>>
             /\ Failed(l) /\ Failed(r) =>
                  errChan[n] = <<ret[l], ret[r]>> \/ errChan[n] = <<ret[r], ret[l]>>

\* What a call may return for n.
Justified(n, o) ==
    /\ o.error # "not yet"
    /\ o.error = "none" => o = Meaning[n]
    /\ o.error = "cancelled" => ctxEnded
    /\ o.error \in {"timeout", "unavailable"} => gone # {}
    /\ o.error \in {"unsupported", "refused"} => Meaning[n].error # "none"

EvaluatorInv ==
    /\ Typed
    /\ \A n \in Ids :
         /\ OrderOfCalls(n)
         /\ Answered(n)
         /\ OrderOfOperations(n)
         /\ ChannelHolds(n)
         /\ Returned(n) => Justified(n, ret[n])
-----------------------------------------------------------------------------
\* Steps

\* An operand has one node, has a larger number, and is not the root.
LEMMA Family ==
    ASSUME Typed, NEW n \in Ids, NEW m \in Operands(n)
    PROVE  /\ m \in Ids /\ m # n /\ m # Root
           /\ n \notin Operands(m)
           /\ \A q \in Ids : m \in Operands(q) => q = n
<1>1. IsTree(tree)
  BY TreesAssumption DEF Typed
<1>2. n \in Int
  BY IdsAssumption, FS_CardinalityType
<1>3. m \in Ids /\ m > n /\ m # Root
  BY <1>1 DEF IsTree, Operands
<1>4. m \in Int
  BY <1>3, IdsAssumption, FS_CardinalityType
<1>5. n \notin Operands(m)
  <2>1. n \in Operands(m) => n > m
    BY <1>1, <1>3 DEF IsTree, Operands
  <2> QED BY <1>2, <1>3, <1>4, <2>1
<1>6. \A q \in Ids : m \in Operands(q) => q = n
  BY <1>1 DEF IsTree, Operands
<1> QED BY <1>2, <1>3, <1>4, <1>5, <1>6

\* The operands of a binary and of a unary node.
LEMMA OperandsOf ==
    ASSUME NEW n
    PROVE  /\ tree[n].kind = "Binary" => Operands(n) = {tree[n].left, tree[n].right}
           /\ tree[n].kind = "Unary" => Operands(n) = {tree[n].left}
           /\ tree[n].kind \notin {"Binary", "Unary"} => Operands(n) = {}
BY DEF Operands, OperandsIn

\* A node that is ready asks the worker the same, as long as its operands keep
\* what they have returned.
LEMMA RequestKept ==
    ASSUME NEW n, Ready(n), tree' = tree,
           \A m \in Operands(n) : ret'[m] = ret[m] /\ pc'[m] = pc[m]
    PROVE  Ready(n)' /\ RequestOf(n)' = RequestOf(n)
<1>1. Operands(n)' = Operands(n)
  BY DEF Operands
<1>2. Ready(n)'
  BY <1>1 DEF Ready, Returned, Failed
<1>3. RequestOf(n)' = RequestOf(n)
  <2>1. CASE tree[n].kind = "Unary"
    BY <2>1, OperandsOf DEF RequestOf
  <2>2. CASE tree[n].kind # "Unary"
    BY <2>2, OperandsOf DEF RequestOf, Ready
  <2> QED BY <2>1, <2>2
<1> QED BY <1>2, <1>3

\* The channel with one error, and with two.
LEMMA Appended ==
    ASSUME NEW x, NEW y
    PROVE  Append(<<>>, y) = <<y>> /\ Append(<<x>>, y) = <<x, y>>
<1>1. <<x>> \in Seq({x, y})
  OBVIOUS
<1>2. /\ Append(<<x>>, y) \in Seq({x, y}) /\ Len(Append(<<x>>, y)) = 2
      /\ Append(<<x>>, y)[1] = x /\ Append(<<x>>, y)[2] = y
  BY <1>1, AppendProperties
<1>3. <<x, y>> \in Seq({x, y}) /\ Len(<<x, y>>) = 2
  OBVIOUS
<1>4. \A i \in 1..2 : Append(<<x>>, y)[i] = <<x, y>>[i]
  BY <1>2
<1>5. Append(<<x>>, y) = <<x, y>>
  BY <1>2, <1>3, <1>4, SeqEqual
<1> QED BY <1>5

\* A call of Evaluate returns.
LEMMA ReturnStep ==
    ASSUME EvaluatorInv, NEW n \in Ids, NEW o \in Outcomes,
           pc[n] \in {"called", "operands", "call"},
           Return(n, o),
           UNCHANGED <<tree, ctxEnded, request, handler, response>>,
           gone' \in {gone, gone \cup {n}},
           \A m \in Operands(n) : pc[m] \in {"idle", "returned"},
           handler[n] \in {"none", "done"} \/ n \in gone',
           Justified(n, o)'
    PROVE  EvaluatorInv'
<1>0. Typed
  BY DEF EvaluatorInv
<1>1. /\ pc' \in [Ids -> Places] /\ pc'[n] = "returned"
      /\ ret' \in [Ids -> Outcomes] /\ ret'[n] = o
      /\ ~Returned(n) /\ pc[n] # "idle"
      /\ \A m \in Ids : m # n => pc'[m] = pc[m] /\ ret'[m] = ret[m]
  BY <1>0 DEF Return, Typed, Places, Returned
<1>2. \A m : Operands(m)' = Operands(m)
  BY DEF Operands
<1>3. /\ \A m \in Ids : m # n => (Returned(m)' <=> Returned(m)) /\ (Failed(m)' <=> Failed(m))
      /\ Returned(n)' /\ ~Failed(n)
      /\ Failed(n)' <=> o.error # "none"
  BY <1>1 DEF Returned, Failed
<1>4. Typed'
  BY <1>0, <1>1 DEF Typed, WorkerTypeOK, Return
<1>5. ASSUME NEW q \in Ids PROVE OrderOfCalls(q)'
  <2>1. OrderOfCalls(q)
    BY DEF EvaluatorInv
  <2>2. \A m \in Operands(q) : m \in Ids
    BY <1>0, Family
  <2>3. q = n => n \notin Operands(q)
    BY <1>0, Family
  <2>4. CASE q = n
    BY <1>1, <1>2, <2>2, <2>3, <2>4 DEF OrderOfCalls, Returned
  <2>5. CASE q # n
    BY <1>1, <1>2, <2>1, <2>2, <2>5 DEF OrderOfCalls, Returned
  <2> QED BY <2>4, <2>5
<1>6. ASSUME NEW q \in Ids PROVE Answered(q)'
  BY DEF EvaluatorInv, Answered
<1>7. ASSUME NEW q \in Ids PROVE OrderOfOperations(q)'
  <2>1. OrderOfOperations(q)
    BY DEF EvaluatorInv
  <2>2. handler[q] # "none" => Ready(q)' /\ RequestOf(q)' = RequestOf(q)
    <3> SUFFICES ASSUME handler[q] # "none"
                 PROVE  Ready(q)' /\ RequestOf(q)' = RequestOf(q)
      OBVIOUS
    <3>1. Ready(q)
      BY <2>1 DEF OrderOfOperations
    <3>2. \A m \in Operands(q) : m # n /\ m \in Ids
      BY <1>0, <1>1, <3>1, Family DEF Ready
    <3> QED BY <1>1, <3>1, <3>2, RequestKept
  <2>3. CASE q = n
    BY <1>1, <2>1, <2>2, <2>3 DEF OrderOfOperations, Returned
  <2>4. CASE q # n
    BY <1>1, <2>1, <2>2, <2>4 DEF OrderOfOperations, Returned
  <2> QED BY <2>3, <2>4
<1>8. ASSUME NEW q \in Ids PROVE ChannelHolds(q)'
  <2> DEFINE l == tree[q].left
             r == tree[q].right
  <2>1. ChannelHolds(q)
    BY DEF EvaluatorInv
  <2>2. /\ tree[q].kind # "Binary" => q \notin Parents(n)
        /\ tree[q].kind = "Binary" => (q \in Parents(n) <=> n \in {l, r})
    BY <1>0, Family, OperandsOf DEF Parents
  <2>3. errChan'[q] = IF q \in Parents(n) /\ o.error # "none"
                      THEN Append(errChan[q], o) ELSE errChan[q]
    BY DEF Return
  <2>4. CASE tree[q].kind # "Binary"
    BY <2>1, <2>2, <2>3, <2>4 DEF ChannelHolds
  <2>5. CASE tree[q].kind = "Binary"
    <3>1. l \in Ids /\ r \in Ids /\ l # r
      <4>1. l \in Operands(q) /\ r \in Operands(q)
        BY <2>5, OperandsOf
      <4>2. IsTree(tree)
        BY <1>0, TreesAssumption DEF Typed
      <4> QED BY <1>0, <2>5, <4>1, <4>2, Family DEF IsTree
    <3>2. CASE n \notin {l, r} \/ o.error = "none"
      <4>1. errChan'[q] = errChan[q]
        BY <2>2, <2>3, <2>5, <3>2
      <4>2. /\ Failed(l)' <=> Failed(l)
            /\ Failed(r)' <=> Failed(r)
        BY <1>3, <3>1, <3>2
      <4>3. /\ Failed(l) => ret'[l] = ret[l]
            /\ Failed(r) => ret'[r] = ret[r]
        BY <1>1, <1>3, <3>1
      <4> QED BY <2>1, <2>5, <4>1, <4>2, <4>3, Appended DEF ChannelHolds
    <3>3. CASE n = l /\ o.error # "none"
      <4>1. errChan'[q] = Append(errChan[q], o)
        BY <2>2, <2>3, <2>5, <3>3
      <4>2. Failed(l)' /\ ~Failed(l) /\ ret'[l] = o /\ ret'[r] = ret[r]
            /\ (Failed(r)' <=> Failed(r))
        BY <1>1, <1>3, <3>1, <3>3
      <4>3. CASE Failed(r)
        <5>1. errChan[q] = <<ret[r]>>
          BY <2>1, <2>5, <4>2, <4>3 DEF ChannelHolds
        <5>2. errChan'[q] = <<ret'[r], ret'[l]>>
          BY <4>1, <4>2, <5>1, Appended
        <5> QED BY <2>5, <4>2, <4>3, <5>2 DEF ChannelHolds
      <4>4. CASE ~Failed(r)
        <5>1. errChan'[q] = <<ret'[l]>>
          BY <2>1, <2>5, <4>1, <4>2, <4>4, Appended DEF ChannelHolds
        <5> QED BY <2>5, <4>2, <4>4, <5>1 DEF ChannelHolds
      <4> QED BY <4>3, <4>4
    <3>4. CASE n = r /\ o.error # "none"
      <4>1. errChan'[q] = Append(errChan[q], o)
        BY <2>2, <2>3, <2>5, <3>4
      <4>2. Failed(r)' /\ ~Failed(r) /\ ret'[r] = o /\ ret'[l] = ret[l]
            /\ (Failed(l)' <=> Failed(l))
        BY <1>1, <1>3, <3>1, <3>4
      <4>3. CASE Failed(l)
        <5>1. errChan[q] = <<ret[l]>>
          BY <2>1, <2>5, <4>2, <4>3 DEF ChannelHolds
        <5>2. errChan'[q] = <<ret'[l], ret'[r]>>
          BY <4>1, <4>2, <5>1, Appended
        <5> QED BY <2>5, <4>2, <4>3, <5>2 DEF ChannelHolds
      <4>4. CASE ~Failed(l)
        <5>1. errChan'[q] = <<ret'[r]>>
          BY <2>1, <2>5, <4>1, <4>2, <4>4, Appended DEF ChannelHolds
        <5> QED BY <2>5, <4>2, <4>4, <5>1 DEF ChannelHolds
      <4> QED BY <4>3, <4>4
    <3> QED BY <3>2, <3>3, <3>4
  <2> QED BY <2>4, <2>5
<1>9. ASSUME NEW q \in Ids, Returned(q)' PROVE Justified(q, ret[q])'
  <2>1. CASE q = n
    BY <1>1, <2>1 DEF Justified
  <2>2. CASE q # n
    <3>1. Justified(q, ret[q]) /\ ret'[q] = ret[q]
      BY <1>1, <1>3, <1>9, <2>2 DEF EvaluatorInv
    <3>2. Meaning' = Meaning /\ (gone # {} => gone' # {})
      BY DEF Meaning
    <3>3. ctxEnded => ctxEnded'
      OBVIOUS
    <3> QED BY <3>1, <3>2, <3>3 DEF Justified
  <2> QED BY <2>1, <2>2
<1> QED BY <1>4, <1>5, <1>6, <1>7, <1>8, <1>9 DEF EvaluatorInv
\* A step that changes neither the calls of Evaluate nor the requests.
LEMMA HandlerStep ==
    ASSUME EvaluatorInv, WorkerTypeOK',
           UNCHANGED <<request, tree, ctxEnded, pc, ret, errChan>>,
           \A i \in gone : i \in gone',
           \A i \in Ids : /\ handler[i] = "none" <=> handler'[i] = "none"
                          /\ handler[i] = "done" => handler'[i] = "done",
           \A i \in Ids : Answered(i)'
    PROVE  EvaluatorInv'
<1>0. Typed'
  BY DEF EvaluatorInv, Typed
<1>1. \A n : Operands(n)' = Operands(n) /\ (Returned(n)' <=> Returned(n))
             /\ (Failed(n)' <=> Failed(n)) /\ RequestOf(n)' = RequestOf(n)
  BY DEF Operands, Returned, Failed, RequestOf
<1>2. \A n : Ready(n)' <=> Ready(n)
  BY <1>1 DEF Ready
<1>3. Meaning' = Meaning /\ (gone # {} => gone' # {}) /\ (ctxEnded => ctxEnded')
  BY DEF Meaning
<1>4. ASSUME NEW n \in Ids PROVE OrderOfCalls(n)' /\ ChannelHolds(n)'
  <2>1. OrderOfCalls(n) /\ ChannelHolds(n)
    BY DEF EvaluatorInv
  <2>2. OrderOfCalls(n)'
    BY <1>1, <2>1 DEF OrderOfCalls
  <2>3. ChannelHolds(n)'
    BY <1>1, <2>1 DEF ChannelHolds
  <2> QED BY <2>2, <2>3
<1>5. ASSUME NEW n \in Ids PROVE OrderOfOperations(n)'
  <2>1. OrderOfOperations(n)
    BY DEF EvaluatorInv
  <2> QED BY <1>1, <1>2, <2>1 DEF OrderOfOperations
<1>6. ASSUME NEW n \in Ids, Returned(n)' PROVE Justified(n, ret[n])'
  <2>1. Justified(n, ret[n])
    BY <1>1, <1>6 DEF EvaluatorInv
  <2> QED BY <1>3, <2>1 DEF Justified
<1> QED BY <1>0, <1>4, <1>5, <1>6 DEF EvaluatorInv

\* The worker refuses, begins, ends or gives up a calculation.
LEMMA WorkerKeeps ==
    ASSUME EvaluatorInv, NEW i \in Ids, WorkerActs(i)
    PROVE  EvaluatorInv'
<1> DEFINE q == request[i]
           result == [code |-> "OK", result |-> Computed(q.symbol, q.a, q.b)]
<1>0. /\ request \in [Ids -> Requests]
      /\ handler \in [Ids -> {"none", "received", "delay", "done"}]
      /\ response \in [Ids -> [code : Codes, result : Float]]
      /\ gone \subseteq Ids
      /\ q \in Requests
  BY DEF EvaluatorInv, Typed, WorkerTypeOK
<1>1. Answered(i)
  BY DEF EvaluatorInv
<1>2. UNCHANGED <<request, gone, tree, ctxEnded, pc, ret, errChan>>
  BY DEF WorkerActs, WorkerStep, Refuse, Calculate, DelayEnds, Cancelled, evalVars
<1>3. Refusal \in [code : Codes, result : Float] /\ Cancellation \in [code : Codes, result : Float]
  BY FloatClasses DEF Refusal, Cancellation, Codes
<1>4. ASSUME NEW h \in {"delay", "done"}, NEW r \in [code : Codes, result : Float],
             handler' = [handler EXCEPT ![i] = h],
             response' = [response EXCEPT ![i] = r],
             handler[i] \in {"received", "delay"},
             Answered(i)'
      PROVE  EvaluatorInv'
  <2>1. WorkerTypeOK'
    BY <1>0, <1>2, <1>4 DEF WorkerTypeOK
  <2>2. \A j \in Ids : j # i => handler'[j] = handler[j] /\ response'[j] = response[j]
    BY <1>0, <1>4
  <2>3. handler'[i] = h
    BY <1>0, <1>4
  <2>4. \A j \in Ids : Answered(j)'
    <3> TAKE j \in Ids
    <3>1. Answered(j)
      BY DEF EvaluatorInv
    <3>2. CASE j # i
      BY <1>2, <2>2, <3>1, <3>2 DEF Answered
    <3> QED BY <1>4, <3>2
  <2> QED BY <1>2, <1>4, <2>1, <2>2, <2>3, <2>4, HandlerStep
<1>5. CASE Refuse(i)
  <2>1. /\ handler' = [handler EXCEPT ![i] = "done"]
        /\ response' = [response EXCEPT ![i] = Refusal]
        /\ handler[i] = "received"
    BY <1>5 DEF Refuse, Respond
  <2>2. Answered(i)'
    BY <1>0, <1>2, <1>5, <2>1 DEF Answered, Refuse
  <2> QED BY <1>3, <1>4, <2>1, <2>2
<1>6. CASE Calculate(i)
  <2>1. /\ handler' = [handler EXCEPT ![i] = "delay"]
        /\ response' = response
        /\ response[i] = NoResponse
        /\ handler[i] = "received"
    BY <1>1, <1>6 DEF Calculate, Answered
  <2>2. Answered(i)'
    BY <1>0, <1>2, <1>6, <2>1 DEF Answered, Calculate
  <2>3. response' = [response EXCEPT ![i] = NoResponse]
        /\ NoResponse \in [code : Codes, result : Float]
    BY <1>0, <2>1
  <2> QED BY <1>4, <2>1, <2>2, <2>3
<1>7. CASE DelayEnds(i)
  <2>1. /\ handler' = [handler EXCEPT ![i] = "done"]
        /\ response' = [response EXCEPT ![i] = result]
        /\ handler[i] = "delay"
    BY <1>7 DEF DelayEnds, Respond
  <2>2. Known(q.symbol) /\ ~DividesByZero(q.symbol, q.b)
    BY <1>1, <2>1 DEF Answered
  <2>3. result.result \in Float
    BY <1>0, <2>2, ComputedType DEF Known, Requests
  <2>4. result \in [code : Codes, result : Float]
    BY <2>3 DEF Codes
  <2>5. Answered(i)'
    BY <1>0, <1>2, <2>1, <2>2 DEF Answered
  <2> QED BY <1>4, <2>1, <2>4, <2>5
<1>8. CASE Cancelled(i)
  <2>1. /\ handler' = [handler EXCEPT ![i] = "done"]
        /\ response' = [response EXCEPT ![i] = Cancellation]
        /\ handler[i] = "delay"
        /\ i \in gone
    BY <1>8 DEF Cancelled, Respond
  <2>2. Answered(i)'
    BY <1>0, <1>2, <2>1 DEF Answered
  <2> QED BY <1>3, <1>4, <2>1, <2>2
<1> QED BY <1>5, <1>6, <1>7, <1>8 DEF WorkerActs, WorkerStep

\* The deadline of an operation reaches the worker.
LEMMA DeadlineKeeps ==
    ASSUME EvaluatorInv, NEW n \in Ids, DeadlineReachesWorker(n)
    PROVE  EvaluatorInv'
<1>1. /\ gone' = gone \cup {n}
      /\ UNCHANGED <<request, handler, response, tree, ctxEnded, pc, ret, errChan>>
  BY DEF DeadlineReachesWorker, Leave, evalVars
<1>2. WorkerTypeOK'
  BY <1>1 DEF EvaluatorInv, Typed, WorkerTypeOK
<1>3. \A i \in Ids : Answered(i)'
  BY <1>1 DEF EvaluatorInv, Answered
<1> QED BY <1>1, <1>2, <1>3, HandlerStep

\* The minute of an evaluation is over.
LEMMA MinuteKeeps ==
    ASSUME EvaluatorInv, ContextEnds
    PROVE  EvaluatorInv'
<1>1. ctxEnded' = TRUE /\ UNCHANGED <<request, handler, response, gone, tree, pc, ret, errChan>>
  BY DEF ContextEnds, workerVars
<1>2. Typed'
  BY <1>1 DEF EvaluatorInv, Typed, WorkerTypeOK
<1>3. \A n : /\ Operands(n)' = Operands(n) /\ (Returned(n)' <=> Returned(n))
             /\ (Failed(n)' <=> Failed(n)) /\ RequestOf(n)' = RequestOf(n)
  BY <1>1 DEF Operands, Returned, Failed, RequestOf
<1>4. \A n : Ready(n)' <=> Ready(n)
  BY <1>1, <1>3 DEF Ready
<1>5. Meaning' = Meaning
  BY <1>1 DEF Meaning
<1>6. ASSUME NEW n \in Ids
      PROVE  OrderOfCalls(n)' /\ Answered(n)' /\ OrderOfOperations(n)' /\ ChannelHolds(n)'
  <2>1. OrderOfCalls(n) /\ Answered(n) /\ OrderOfOperations(n) /\ ChannelHolds(n)
    BY DEF EvaluatorInv
  <2>2. OrderOfCalls(n)'
    BY <1>1, <1>3, <2>1 DEF OrderOfCalls
  <2>3. Answered(n)'
    BY <1>1, <2>1 DEF Answered
  <2>4. OrderOfOperations(n)'
    BY <1>1, <1>3, <1>4, <2>1 DEF OrderOfOperations
  <2>5. ChannelHolds(n)'
    BY <1>1, <1>3, <2>1 DEF ChannelHolds
  <2> QED BY <2>2, <2>3, <2>4, <2>5
<1>7. ASSUME NEW n \in Ids, Returned(n)' PROVE Justified(n, ret[n])'
  <2>1. Justified(n, ret[n])
    BY <1>3, <1>7 DEF EvaluatorInv
  <2> QED BY <1>1, <1>5, <2>1 DEF Justified
<1> QED BY <1>2, <1>6, <1>7 DEF EvaluatorInv
\* A unary or binary node begins its operands.
LEMMA OperandsKeep ==
    ASSUME EvaluatorInv, NEW n \in Ids, EvaluateOperands(n)
    PROVE  EvaluatorInv'
<1>0. Typed
  BY DEF EvaluatorInv
<1>1. /\ UNCHANGED <<request, handler, response, gone, tree, ctxEnded, ret, errChan>>
      /\ pc[n] = "called"
      /\ tree[n].kind \in {"Unary", "Binary"}
      /\ \A m \in Ids : pc'[m] = IF m = n THEN "operands"
                                 ELSE IF m \in Operands(n) THEN "called" ELSE pc[m]
      /\ pc' = [m \in Ids |-> pc'[m]]
  BY DEF EvaluateOperands, workerVars
<1>2. \A m \in Operands(n) : m \in Ids /\ m # n /\ pc[m] = "idle"
  <2>1. OrderOfCalls(n)
    BY DEF EvaluatorInv
  <2> QED BY <1>0, <1>1, <2>1, Family DEF OrderOfCalls
<1>3. pc' \in [Ids -> Places]
  <2>1. \A m \in Ids : pc'[m] \in Places
    BY <1>0, <1>1 DEF Typed, Places
  <2> QED BY <1>1, <2>1
<1>4. Typed'
  BY <1>0, <1>1, <1>3 DEF Typed, WorkerTypeOK
<1>5. \A m : Operands(m)' = Operands(m) /\ RequestOf(m)' = RequestOf(m)
  BY <1>1 DEF Operands, RequestOf
<1>6. \A m \in Ids : /\ Returned(m)' <=> Returned(m)
                     /\ Failed(m)' <=> Failed(m)
  BY <1>1, <1>2 DEF Returned, Failed
<1>7. Meaning' = Meaning
  BY <1>1 DEF Meaning
<1>8. ASSUME NEW q \in Ids PROVE OrderOfCalls(q)'
  <2>1. OrderOfCalls(q)
    BY DEF EvaluatorInv
  <2>2. \A m \in Operands(q) : m \in Ids /\ m # q /\ (m \in Operands(n) => q = n)
    BY <1>0, Family
  <2>3. CASE q = n
    BY <1>1, <2>3 DEF OrderOfCalls, Returned
  <2>4. CASE q # n /\ pc'[q] \in {"idle", "called"}
    <3>1. pc[q] \in {"idle", "called"}
      BY <1>1, <1>2, <2>4
    <3>2. \A m \in Operands(q) : pc[m] = "idle"
      BY <2>1, <3>1 DEF OrderOfCalls
    <3>3. \A m \in Operands(q) : pc'[m] = "idle"
      BY <1>1, <2>2, <2>4, <3>2
    <3> QED BY <1>5, <2>4, <3>3 DEF OrderOfCalls, Returned
  <2>5. CASE q # n /\ pc'[q] \notin {"idle", "called"}
    <3>1. pc'[q] = pc[q]
      BY <1>1, <2>5
    <3>2. \A m \in Operands(q) : pc[m] \in {"idle", "returned"} => pc'[m] = pc[m]
      BY <1>1, <2>2, <2>5
    <3> QED BY <1>1, <1>5, <2>1, <2>5, <3>1, <3>2 DEF OrderOfCalls, Returned
  <2> QED BY <2>3, <2>4, <2>5
<1>9. ASSUME NEW q \in Ids PROVE Answered(q)'
  <2>1. Answered(q)
    BY DEF EvaluatorInv
  <2> QED BY <1>1, <2>1 DEF Answered
<1>10. ASSUME NEW q \in Ids PROVE OrderOfOperations(q)'
  <2>1. OrderOfOperations(q)
    BY DEF EvaluatorInv
  <2>2. Ready(q) => Ready(q)'
    <3>1. \A m \in Operands(q) : m \in Ids
      BY <1>0, Family
    <3> QED BY <1>1, <1>5, <1>6, <3>1 DEF Ready
  <2>3. /\ pc'[q] \in {"idle", "called", "operands"} => pc[q] \in {"idle", "called", "operands"}
        /\ pc'[q] = "call" => pc[q] = "call"
    BY <1>1, <1>2
  <2> QED BY <1>1, <1>5, <1>6, <2>1, <2>2, <2>3 DEF OrderOfOperations
<1>11. ASSUME NEW q \in Ids PROVE ChannelHolds(q)'
  <2>1. ChannelHolds(q)
    BY DEF EvaluatorInv
  <2>2. CASE tree[q].kind # "Binary"
    BY <1>1, <2>1, <2>2 DEF ChannelHolds
  <2>3. CASE tree[q].kind = "Binary"
    <3>1. tree[q].left \in Ids /\ tree[q].right \in Ids
      BY <1>0, <2>3, OperandsOf, Family
    <3> QED BY <1>1, <1>6, <2>1, <2>3, <3>1 DEF ChannelHolds
  <2> QED BY <2>2, <2>3
<1>12. ASSUME NEW q \in Ids, Returned(q)' PROVE Justified(q, ret[q])'
  <2>1. Justified(q, ret[q])
    BY <1>6, <1>12 DEF EvaluatorInv
  <2> QED BY <1>1, <1>7, <2>1 DEF Justified
<1> QED BY <1>4, <1>8, <1>9, <1>10, <1>11, <1>12 DEF EvaluatorInv

\* What a ready node asks is a request the worker can be sent.
LEMMA RequestType ==
    ASSUME Typed, NEW n \in Ids, Ready(n)
    PROVE  RequestOf(n) \in Requests
<1>1. IsTree(tree)
  BY TreesAssumption DEF Typed
<1>2. \A m \in Operands(n) : ret[m].value \in Float
  BY Family DEF Typed, Outcomes
<1>3. CASE tree[n].kind = "Unary"
  BY <1>2, <1>3, OperandsOf, FloatClasses DEF RequestOf, Requests, Symbols
<1>4. CASE tree[n].kind = "Binary"
  <2>1. ret[tree[n].left].value \in Float /\ ret[tree[n].right].value \in Float
    BY <1>2, <1>4, OperandsOf
  <2>2. tree[n].symbol \in BinarySymbols
    BY <1>1, <1>4 DEF IsTree
  <2> QED BY <1>4, <2>1, <2>2 DEF RequestOf, Requests, Symbols, BinarySymbols
<1> QED BY <1>3, <1>4 DEF Ready

\* A node whose operands have values asks the worker.
LEMMA CallKeeps ==
    ASSUME EvaluatorInv, NEW n \in Ids, CallWorker(n)
    PROVE  EvaluatorInv'
<1>0. Typed
  BY DEF EvaluatorInv
<1>1. /\ UNCHANGED <<response, gone, tree, ctxEnded, ret, errChan>>
      /\ pc[n] = "operands" /\ handler[n] = "none"
      /\ pc' = [pc EXCEPT ![n] = "call"]
      /\ request' = [request EXCEPT ![n] = RequestOf(n)]
      /\ handler' = [handler EXCEPT ![n] = "received"]
  BY DEF CallWorker, Receive
<1>2. Ready(n)
  <2>1. tree[n].kind \in {"Unary", "Binary"}
    BY <1>1 DEF EvaluatorInv, OrderOfCalls
  <2>2. \A m \in Operands(n) : Returned(m) /\ ~Failed(m)
    BY DEF CallWorker, Joined
  <2> QED BY <2>1, <2>2 DEF CallWorker, Ready
<1>3. /\ pc \in [Ids -> Places]
      /\ request \in [Ids -> Requests]
      /\ handler \in [Ids -> {"none", "received", "delay", "done"}]
  BY <1>0 DEF Typed, WorkerTypeOK
<1>4. Typed'
  <2>1. pc' \in [Ids -> Places] /\ handler' \in [Ids -> {"none", "received", "delay", "done"}]
    BY <1>1, <1>3 DEF Places
  <2>2. request' \in [Ids -> Requests]
    BY <1>0, <1>1, <1>2, <1>3, RequestType
  <2> QED BY <1>0, <1>1, <2>1, <2>2 DEF Typed, WorkerTypeOK
<1>5. \A m : Operands(m)' = Operands(m) /\ RequestOf(m)' = RequestOf(m)
  BY <1>1 DEF Operands, RequestOf
<1>6. \A m \in Ids : /\ m # n => pc'[m] = pc[m] /\ handler'[m] = handler[m]
                                 /\ request'[m] = request[m]
                     /\ Returned(m)' <=> Returned(m)
                     /\ Failed(m)' <=> Failed(m)
  BY <1>1, <1>3 DEF Returned, Failed
<1>7. pc'[n] = "call" /\ handler'[n] = "received" /\ request'[n] = RequestOf(n)
  BY <1>1, <1>3
<1>8. Meaning' = Meaning
  BY <1>1 DEF Meaning
<1>9. \A q \in Ids : \A m \in Operands(q) : m \in Ids
  BY <1>0, Family
<1>10. ASSUME NEW q \in Ids PROVE OrderOfCalls(q)'
  <2>1. OrderOfCalls(q)
    BY DEF EvaluatorInv
  <2>2. \A m \in Operands(q) : pc[m] \in {"idle", "returned"} => pc'[m] = pc[m]
    BY <1>1, <1>6, <1>9
  <2>3. pc'[q] = pc[q] \/ pc'[q] = "call"
    BY <1>6, <1>7
  <2> QED BY <1>1, <1>5, <2>1, <2>2, <2>3 DEF OrderOfCalls, Returned
<1>11. ASSUME NEW q \in Ids PROVE Answered(q)'
  <2>1. Answered(q) /\ Answered(n)
    BY DEF EvaluatorInv
  <2>2. CASE q = n
    BY <1>1, <1>7, <2>1, <2>2 DEF Answered
  <2>3. CASE q # n
    BY <1>1, <1>6, <2>1, <2>3 DEF Answered
  <2> QED BY <2>2, <2>3
<1>12. ASSUME NEW q \in Ids PROVE OrderOfOperations(q)'
  <2>1. OrderOfOperations(q)
    BY DEF EvaluatorInv
  <2>2. Ready(q) => Ready(q)'
    BY <1>1, <1>5, <1>6, <1>9 DEF Ready
  <2>3. CASE q = n
    BY <1>2, <1>5, <1>7, <2>2, <2>3 DEF OrderOfOperations, Returned
  <2>4. CASE q # n
    BY <1>1, <1>5, <1>6, <2>1, <2>2, <2>4 DEF OrderOfOperations
  <2> QED BY <2>3, <2>4
<1>13. ASSUME NEW q \in Ids PROVE ChannelHolds(q)'
  <2>1. ChannelHolds(q)
    BY DEF EvaluatorInv
  <2>2. CASE tree[q].kind # "Binary"
    BY <1>1, <2>1, <2>2 DEF ChannelHolds
  <2>3. CASE tree[q].kind = "Binary"
    <3>1. tree[q].left \in Ids /\ tree[q].right \in Ids
      BY <1>9, <2>3, OperandsOf
    <3> QED BY <1>1, <1>6, <2>1, <2>3, <3>1 DEF ChannelHolds
  <2> QED BY <2>2, <2>3
<1>14. ASSUME NEW q \in Ids, Returned(q)' PROVE Justified(q, ret[q])'
  <2>1. Justified(q, ret[q])
    BY <1>6, <1>14 DEF EvaluatorInv
  <2> QED BY <1>1, <1>8, <2>1 DEF Justified
<1> QED BY <1>4, <1>10, <1>11, <1>12, <1>13, <1>14 DEF EvaluatorInv
\* The meaning of a node of the tree that is evaluated, from its operands'.
LEMMA MeaningNow ==
    ASSUME Typed, NEW n \in Ids
    PROVE  Meaning[n] = MeaningStep(tree, Meaning, n)
BY TreesAssumption, MeaningEquation DEF Typed, Meaning

\* What a call may return does not depend on where the others are.
LEMMA JustifiedKept ==
    ASSUME NEW n, NEW o, Justified(n, o), UNCHANGED <<tree, ctxEnded>>,
           gone # {} => gone' # {}
    PROVE  Justified(n, o)'
<1>1. Meaning' = Meaning /\ (ctxEnded => ctxEnded')
  BY DEF Meaning
<1> QED BY <1>1 DEF Justified

\* The outcomes there are.
LEMMA OutcomeTypes ==
    /\ \A kind \in {"cancelled", "unsupported", "refused", "timeout", "unavailable"} :
         Error(kind) \in Outcomes
    /\ \A v \in Float : Value(v) \in Outcomes
BY FloatClasses DEF Error, Value, Outcomes

\* The returns of a call before it has asked for its operands.
LEMMA EarlyReturns ==
    ASSUME EvaluatorInv, NEW n \in Ids,
           FindContextEnded(n) \/ EvaluateLeaf(n) \/ RefuseNode(n)
    PROVE  EvaluatorInv'
<1>0. Typed
  BY DEF EvaluatorInv
<1>1. /\ pc[n] = "called"
      /\ UNCHANGED <<request, handler, response, gone, tree, ctxEnded>>
  BY DEF FindContextEnded, EvaluateLeaf, RefuseNode, workerVars
<1>2. /\ \A m \in Operands(n) : pc[m] = "idle"
      /\ handler[n] = "none"
  BY <1>1 DEF EvaluatorInv, OrderOfCalls, OrderOfOperations
<1>3. ASSUME NEW o \in Outcomes, Return(n, o), Justified(n, o) PROVE EvaluatorInv'
  <2>1. Justified(n, o)'
    BY <1>1, <1>3, JustifiedKept
  <2> QED BY <1>1, <1>2, <1>3, <2>1, ReturnStep
<1>4. CASE FindContextEnded(n)
  <2>1. Return(n, Error("cancelled")) /\ ctxEnded
    BY <1>4 DEF FindContextEnded
  <2>2. Justified(n, Error("cancelled"))
    BY <2>1 DEF Justified, Error
  <2> QED BY <1>3, <2>1, <2>2, OutcomeTypes
<1>5. CASE EvaluateLeaf(n)
  <2>1. Return(n, Value(tree[n].value)) /\ tree[n].kind = "Literal"
    BY <1>5 DEF EvaluateLeaf
  <2>2. tree[n].value \in Float
    BY <1>0, <2>1, TreesAssumption DEF Typed, IsTree
  <2>3. Meaning[n] = Value(tree[n].value)
    BY <1>0, <2>1, MeaningNow DEF MeaningStep
  <2>4. Justified(n, Value(tree[n].value))
    BY <2>3 DEF Justified, Value
  <2> QED BY <1>3, <2>1, <2>2, <2>4, OutcomeTypes
<1>6. CASE RefuseNode(n)
  <2>1. Return(n, Error("unsupported")) /\ tree[n].kind = "Other"
    BY <1>6 DEF RefuseNode
  <2>2. Meaning[n] = Error("unsupported")
    BY <1>0, <2>1, MeaningNow DEF MeaningStep
  <2>3. Justified(n, Error("unsupported"))
    BY <2>2 DEF Justified, Error
  <2> QED BY <1>3, <2>1, <2>3, OutcomeTypes
<1> QED BY <1>4, <1>5, <1>6

\* An operand's error is an error of the node.
LEMMA ErrorRises ==
    ASSUME EvaluatorInv, NEW n \in Ids, NEW m \in Operands(n), Failed(m)
    PROVE  ret[m] \in Outcomes /\ Justified(n, ret[m])
<1>0. Typed
  BY DEF EvaluatorInv
<1>1. m \in Ids /\ Returned(m) /\ ret[m].error # "none"
  BY <1>0, Family DEF Failed
<1>2. Justified(m, ret[m]) /\ ret[m] \in Outcomes
  BY <1>0, <1>1 DEF EvaluatorInv, Typed
<1>3. Meaning[m].error # "none" => Meaning[n].error # "none"
  <2>1. Meaning[n] = MeaningStep(tree, Meaning, n)
    BY <1>0, MeaningNow
  <2>2. CASE tree[n].kind = "Unary"
    BY <2>1, <2>2, OperandsOf DEF MeaningStep
  <2>3. CASE tree[n].kind = "Binary"
    BY <2>1, <2>3, OperandsOf DEF MeaningStep
  <2> QED BY <2>2, <2>3, OperandsOf
<1> QED BY <1>1, <1>2, <1>3 DEF Justified

\* The returns of a call whose operands have returned.
LEMMA LateReturns ==
    ASSUME EvaluatorInv, NEW n \in Ids, ReturnOperandError(n) \/ RefuseUnary(n)
    PROVE  EvaluatorInv'
<1>0. Typed
  BY DEF EvaluatorInv
<1>1. /\ pc[n] = "operands"
      /\ \A m \in Operands(n) : Returned(m)
      /\ UNCHANGED <<request, handler, response, gone, tree, ctxEnded>>
  BY DEF ReturnOperandError, RefuseUnary, Joined, workerVars
<1>2. /\ handler[n] = "none"
      /\ tree[n].kind \in {"Unary", "Binary"}
      /\ ChannelHolds(n)
  BY <1>1 DEF EvaluatorInv, OrderOfCalls, OrderOfOperations
<1>3. ASSUME NEW o \in Outcomes, Return(n, o), Justified(n, o) PROVE EvaluatorInv'
  <2>1. Justified(n, o)'
    BY <1>1, <1>3, JustifiedKept
  <2> QED BY <1>1, <1>2, <1>3, <2>1, ReturnStep DEF Returned
<1>4. CASE ReturnOperandError(n)
  <2>1. Return(n, FirstError(n)) /\ \E m \in Operands(n) : Failed(m)
    BY <1>4 DEF ReturnOperandError
  <2>2. \E m \in Operands(n) : Failed(m) /\ FirstError(n) = ret[m]
    <3>1. CASE tree[n].kind = "Unary"
      BY <2>1, <3>1, OperandsOf DEF FirstError
    <3>2. CASE tree[n].kind = "Binary"
      <4> DEFINE l == tree[n].left
                 r == tree[n].right
      <4>1. Operands(n) = {l, r} /\ FirstError(n) = Head(errChan[n])
        BY <3>2, OperandsOf DEF FirstError
      <4>2. \/ Failed(l) /\ Head(errChan[n]) = ret[l]
            \/ Failed(r) /\ Head(errChan[n]) = ret[r]
        BY <1>2, <2>1, <3>2, <4>1 DEF ChannelHolds
      <4> QED BY <4>1, <4>2
    <3> QED BY <1>2, <3>1, <3>2
  <2>3. PICK m \in Operands(n) : Failed(m) /\ FirstError(n) = ret[m]
    BY <2>2
  <2>4. FirstError(n) \in Outcomes /\ Justified(n, FirstError(n))
    BY <2>3, ErrorRises
  <2> QED BY <1>3, <2>1, <2>4
<1>5. CASE RefuseUnary(n)
  <2>1. /\ Return(n, Error("unsupported"))
        /\ tree[n].kind = "Unary" /\ tree[n].symbol # "-"
        /\ \A m \in Operands(n) : ~Failed(m)
    BY <1>5 DEF RefuseUnary
  <2>2. Meaning[n].error # "none"
    BY <1>0, <2>1, MeaningNow DEF MeaningStep, Error
  <2>3. Justified(n, Error("unsupported"))
    BY <2>2 DEF Justified, Error
  <2> QED BY <1>3, <2>1, <2>3, OutcomeTypes
<1> QED BY <1>4, <1>5

\* What a node means whose operands have values: the operation it asks for, or
\* the worker's refusal of it.
LEMMA ReadyMeaning ==
    ASSUME EvaluatorInv, NEW n \in Ids, Ready(n)
    PROVE  LET q == RequestOf(n)
           IN  Meaning[n] = IF Known(q.symbol) /\ ~DividesByZero(q.symbol, q.b)
                            THEN Value(Computed(q.symbol, q.a, q.b))
                            ELSE Error("refused")
<1>0. Typed
  BY DEF EvaluatorInv
<1>1. Meaning[n] = MeaningStep(tree, Meaning, n)
  BY <1>0, MeaningNow
<1>2. \A m \in Operands(n) : Meaning[m] = ret[m] /\ ret[m].error = "none"
  <2>1. \A m \in Operands(n) : m \in Ids /\ Returned(m) /\ ~Failed(m)
    BY <1>0, Family DEF Ready
  <2> QED BY <2>1 DEF EvaluatorInv, Justified, Failed
<1>3. CASE tree[n].kind = "Unary"
  <2> DEFINE x == ret[tree[n].left]
  <2>1. RequestOf(n) = [symbol |-> "neg", a |-> x.value, b |-> Zero]
    BY <1>3 DEF RequestOf
  <2>2. Meaning[n] = Meant("neg", x.value, Zero)
    BY <1>1, <1>2, <1>3, OperandsOf DEF MeaningStep, Ready
  <2> QED BY <2>1, <2>2 DEF Meant, Known, Symbols, DividesByZero
<1>4. CASE tree[n].kind = "Binary"
  <2> DEFINE x == ret[tree[n].left]
             y == ret[tree[n].right]
             s == tree[n].symbol
  <2>1. RequestOf(n) = [symbol |-> IF s = "**" THEN "^" ELSE s, a |-> x.value, b |-> y.value]
    BY <1>4 DEF RequestOf
  <2>2. Meaning[n] = Meant(s, x.value, y.value)
    BY <1>1, <1>2, <1>4, OperandsOf DEF MeaningStep
  <2>3. s \in BinarySymbols
    BY <1>0, <1>4, TreesAssumption DEF Typed, IsTree
  <2> HIDE DEF s, x, y
  <2> QED BY <2>1, <2>2, <2>3 DEF Meant, Known, Symbols, DividesByZero, BinarySymbols
<1> QED BY <1>3, <1>4 DEF Ready

\* The returns of a call that has asked the worker.
LEMMA CallReturns ==
    ASSUME EvaluatorInv, NEW n \in Ids,
           ReceiveAnswer(n) \/ OperationTimesOut(n) \/ ConnectionFails(n)
    PROVE  EvaluatorInv'
<1>0. Typed
  BY DEF EvaluatorInv
<1>1. /\ pc[n] = "call"
      /\ UNCHANGED <<request, handler, response, tree, ctxEnded>>
  BY DEF ReceiveAnswer, OperationTimesOut, ConnectionFails, workerVars
<1>2. Ready(n) /\ request[n] = RequestOf(n) /\ Answered(n)
  BY <1>1 DEF EvaluatorInv, OrderOfOperations
<1>3. \A m \in Operands(n) : pc[m] = "returned"
  BY <1>2 DEF Ready, Returned
<1>4. CASE OperationTimesOut(n) \/ ConnectionFails(n)
  <2>1. gone' = gone \cup {n}
    BY <1>4 DEF OperationTimesOut, ConnectionFails
  <2>2. ASSUME NEW kind \in {"timeout", "unavailable"}, Return(n, Error(kind))
        PROVE  EvaluatorInv'
    <3>1. Justified(n, Error(kind))'
      BY <2>1 DEF Justified, Error
    <3> QED BY <1>1, <1>3, <2>1, <2>2, <3>1, OutcomeTypes, ReturnStep
  <2> QED BY <1>4, <2>2 DEF OperationTimesOut, ConnectionFails
<1>5. CASE ReceiveAnswer(n)
  <2> DEFINE q == RequestOf(n)
             r == response[n]
             served == Known(q.symbol) /\ ~DividesByZero(q.symbol, q.b)
             o == CASE r.code = "OK" -> Value(r.result)
                    [] r.code = "InvalidArgument" -> Error("refused")
                    [] r.code = "DeadlineExceeded" -> Error("timeout")
  <2>1. handler[n] = "done" /\ Return(n, o) /\ gone' = gone
    BY <1>5 DEF ReceiveAnswer, workerVars
  <2>2. \/ r = Refusal /\ ~served
        \/ r = Cancellation /\ n \in gone
        \/ r = [code |-> "OK", result |-> Computed(q.symbol, q.a, q.b)] /\ served
    BY <1>2, <2>1 DEF Answered
  <2>3. Meaning[n] = IF served THEN Value(Computed(q.symbol, q.a, q.b))
                     ELSE Error("refused")
    BY <1>2, ReadyMeaning
  <2>4. r.result \in Float
    BY <1>0 DEF Typed, WorkerTypeOK
  <2> HIDE DEF served
  <2>5. o \in Outcomes /\ Justified(n, o)
    <3>1. CASE r = Refusal /\ ~served
      <4>1. o = Error("refused")
        BY <3>1 DEF Refusal
      <4>2. Meaning[n].error # "none" /\ Error("refused").error = "refused"
        BY <2>3, <3>1 DEF Error
      <4> QED BY <4>1, <4>2, OutcomeTypes DEF Justified
    <3>2. CASE r = Cancellation /\ n \in gone
      <4>1. o = Error("timeout")
        BY <3>2 DEF Cancellation
      <4>2. gone # {} /\ Error("timeout").error = "timeout"
        BY <3>2 DEF Error
      <4> QED BY <4>1, <4>2, OutcomeTypes DEF Justified
    <3>3. CASE r = [code |-> "OK", result |-> Computed(q.symbol, q.a, q.b)] /\ served
      <4>1. o = Value(r.result) /\ r.result = Computed(q.symbol, q.a, q.b)
        BY <3>3
      <4>2. Meaning[n] = o
        BY <2>3, <3>3, <4>1
      <4>3. Value(r.result).error = "none"
        BY DEF Value
      <4> QED BY <2>4, <4>1, <4>2, <4>3, OutcomeTypes DEF Justified
    <3> QED BY <2>2, <3>1, <3>2, <3>3
  <2> HIDE DEF o
  <2>6. PICK p \in Outcomes : p = o
    BY <2>5
  <2>7. Return(n, p) /\ Justified(n, p)
    BY <2>1, <2>5, <2>6
  <2>8. Justified(n, p)'
    BY <1>1, <2>1, <2>7, JustifiedKept
  <2> QED BY <1>1, <1>3, <2>1, <2>7, <2>8, ReturnStep
<1> QED BY <1>4, <1>5
\* Nothing is asked and only the root is called.
LEMMA InitInv == Init => EvaluatorInv
<1> SUFFICES ASSUME Init PROVE EvaluatorInv
  OBVIOUS
<1>1. Typed
  <2>1. NoRequest \in Requests /\ NoResponse \in [code : Codes, result : Float]
    BY FloatClasses DEF NoRequest, NoResponse, Requests, Codes
  <2>2. WorkerTypeOK
    BY <2>1 DEF Init, WorkerInit, WorkerTypeOK
  <2>3. NotYet \in Outcomes
    BY FloatClasses DEF NotYet, Outcomes
  <2> QED BY <2>2, <2>3 DEF Init, Typed, Places
<1>2. \A n \in Ids : ~Returned(n) /\ ~Failed(n) /\ pc[n] \in {"idle", "called"}
  BY DEF Init, Returned, Failed
<1>3. ASSUME NEW n \in Ids
      PROVE  /\ OrderOfCalls(n) /\ Answered(n) /\ OrderOfOperations(n)
             /\ ChannelHolds(n)
  <2>1. \A m \in Operands(n) : m \in Ids /\ m # Root
    BY <1>1, Family
  <2>2. OrderOfCalls(n)
    BY <1>2, <2>1 DEF Init, OrderOfCalls, Returned
  <2>3. Answered(n) /\ OrderOfOperations(n)
    BY <1>2 DEF Init, WorkerInit, Answered, OrderOfOperations, Returned
  <2>4. ChannelHolds(n)
    <3>1. CASE tree[n].kind # "Binary"
      BY <3>1 DEF Init, ChannelHolds
    <3>2. CASE tree[n].kind = "Binary"
      <4>1. tree[n].left \in Ids /\ tree[n].right \in Ids
        BY <2>1, <3>2, OperandsOf
      <4> QED BY <1>2, <3>2, <4>1 DEF Init, ChannelHolds
    <3> QED BY <3>1, <3>2
  <2> QED BY <2>2, <2>3, <2>4
<1> QED BY <1>1, <1>2, <1>3 DEF EvaluatorInv

\* Every step keeps the invariant.
LEMMA NextInv == EvaluatorInv /\ [Next]_vars => EvaluatorInv'
<1> SUFFICES ASSUME EvaluatorInv, [Next]_vars PROVE EvaluatorInv'
  OBVIOUS
<1>1. ASSUME NEW n \in Ids, EvaluateStep(n) PROVE EvaluatorInv'
  BY <1>1, EarlyReturns, OperandsKeep, LateReturns, CallKeeps, CallReturns
     DEF EvaluateStep
<1>2. ASSUME NEW n \in Ids, WorkerActs(n) \/ ConnectionFails(n) \/ DeadlineReachesWorker(n)
      PROVE  EvaluatorInv'
  BY <1>2, WorkerKeeps, CallReturns, DeadlineKeeps
<1>3. CASE ContextEnds
  BY <1>3, MinuteKeeps
<1>4. CASE UNCHANGED vars
  <2>1. UNCHANGED <<request, handler, response, gone, tree, ctxEnded, pc, ret, errChan>>
    BY <1>4 DEF vars, workerVars, evalVars
  <2>2. WorkerTypeOK' /\ \A i \in Ids : Answered(i)'
    BY <2>1 DEF EvaluatorInv, Typed, WorkerTypeOK, Answered
  <2> QED BY <2>1, <2>2, HandlerStep
<1> QED BY <1>1, <1>2, <1>3, <1>4 DEF Next

\* The invariant of an evaluation.
THEOREM EvaluatorInvariance == Spec => []EvaluatorInv
BY InitInv, NextInv, PTL DEF Spec

-----------------------------------------------------------------------------
\* What follows from the invariant

\* The types, among them that of every float that is computed, and that no
\* channel of errors holds more than the two it was made for.
THEOREM EvaluatorTypeTheorem == Spec => []EvaluatorTypeOK
<1>1. ASSUME EvaluatorInv PROVE EvaluatorTypeOK
  <2>1. \A n \in Ids : Len(errChan[n]) <= 2
    <3> TAKE n \in Ids
    <3> DEFINE l == tree[n].left
               r == tree[n].right
    <3>1. ChannelHolds(n)
      BY <1>1 DEF EvaluatorInv
    <3>2. \/ errChan[n] = <<>>
          \/ errChan[n] \in {<<ret[l]>>, <<ret[r]>>}
          \/ errChan[n] \in {<<ret[l], ret[r]>>, <<ret[r], ret[l]>>}
      BY <3>1 DEF ChannelHolds
    <3>3. \A x, y : Len(<<x>>) = 1 /\ Len(<<x, y>>) = 2
      OBVIOUS
    <3>4. Len(<<>>) = 0
      OBVIOUS
    <3>5. \E k \in 0..2 : Len(errChan[n]) = k
      BY <3>2, <3>3, <3>4
    <3>6. \A k \in 0..2 : k <= 2
      OBVIOUS
    <3> QED BY <3>5, <3>6
  <2> QED BY <1>1, <2>1 DEF EvaluatorInv, Typed, EvaluatorTypeOK, Places, Outcomes
<1> QED BY <1>1, EvaluatorInvariance, PTL

\* A value that Evaluate returns is the meaning of its node.
THEOREM ValueTheorem == Spec => []ValueIsMeaning
<1>1. EvaluatorInv => ValueIsMeaning
  BY DEF EvaluatorInv, ValueIsMeaning, Failed, Justified
<1> QED BY <1>1, EvaluatorInvariance, PTL

\* An error has a cause: the expression has no meaning, the minute is over, or
\* an operation was given up.
THEOREM CauseTheorem == Spec => []ErrorHasCause
<1>1. ASSUME EvaluatorInv PROVE ErrorHasCause
  <2> SUFFICES ASSUME NEW n \in Ids, Failed(n)
               PROVE  CASE ret[n].error = "cancelled"                   -> ctxEnded
                        [] ret[n].error \in {"timeout", "unavailable"} -> gone # {}
                        [] OTHER -> Meaning[n].error # "none"
    BY DEF ErrorHasCause
  <2>1. Justified(n, ret[n]) /\ ret[n].error # "none"
    BY <1>1 DEF EvaluatorInv, Failed
  <2>2. ret[n].error \in {"cancelled", "unsupported", "refused", "timeout", "unavailable"}
    BY <1>1, <2>1 DEF EvaluatorInv, Typed, Outcomes, Justified
  <2> QED BY <2>1, <2>2 DEF Justified
<1> QED BY <1>1, EvaluatorInvariance, PTL

\* Finite numbers make NaN only as the root of a negative one, in whatever
\* expression.
THEOREM NaNTheorem == Spec => []NaNOnlyOfRoots
<1>1. ASSUME EvaluatorInv PROVE NaNOnlyOfRoots
  <2> SUFFICES ASSUME NEW i \in Ids,
                      {request[i].a, request[i].b} \subseteq Finites,
                      response[i].result = NaN
               PROVE  /\ request[i].symbol = "^" /\ SignOf(request[i].a) < 0
                      /\ ~Whole(request[i].b)
    BY DEF NaNOnlyOfRoots
  <2> DEFINE q == request[i]
  <2>1. Zero # NaN
    BY FloatClasses DEF Zero
  <2>2. Answered(i) /\ q \in Requests
    BY <1>1 DEF EvaluatorInv, Typed, WorkerTypeOK
  <2>3. response[i] \notin {NoResponse, Refusal, Cancellation}
    BY <2>1 DEF NoResponse, Refusal, Cancellation
  <2>4. /\ response[i].result = Computed(q.symbol, q.a, q.b)
        /\ Known(q.symbol) /\ ~DividesByZero(q.symbol, q.b)
    BY <2>2, <2>3 DEF Answered
  <2>5. q.a \in Float /\ q.b \in Float /\ q.symbol \in Symbols
    BY <2>2, <2>4 DEF Requests, Known
  <2> QED BY <2>4, <2>5, ComputedType
<1> QED BY <1>1, EvaluatorInvariance, PTL

\* A call that returns leaves no operand and no operation running.
THEOREM NothingLeftTheorem == Spec => []NothingLeftRunning
<1>1. EvaluatorInv => NothingLeftRunning
  BY DEF EvaluatorInv, NothingLeftRunning, OrderOfCalls, OrderOfOperations
<1> QED BY <1>1, EvaluatorInvariance, PTL
==============================================================================

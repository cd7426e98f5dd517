---------------------------- MODULE NumberLemmas ----------------------------
(* Facts about integers that the proofs about the components share. *)
EXTENDS Integers, WellFoundedInduction, TLAPS

-----------------------------------------------------------------------------
(* Least and greatest elements, and induction up to a bound.  The latter is *)
(* stated for a set T of numbers: those that have the property in question. *)

\* A set of natural numbers that is not empty has a least one ...
LEMMA Least ==
    ASSUME NEW T \in SUBSET Nat, T # {}
    PROVE  \E n \in T : \A m \in T : n <= m
<1>1. PICK n \in T : \A m \in T : <<m, n>> \notin OpToRel(<, Nat)
    BY NatLessThanWellFounded, WFMin
<1>2. \A m \in T : ~(m < n)
    BY <1>1 DEF OpToRel
<1> QED BY <1>2

\* ... and one of integers that is bounded has a greatest.
LEMMA Greatest ==
    ASSUME NEW bound \in Int, NEW T \in SUBSET Int, T # {},
           \A n \in T : n <= bound
    PROVE  \E n \in T : \A m \in T : m <= n
<1> DEFINE gaps == {bound - n : n \in T}
<1>1. gaps \in SUBSET Nat /\ gaps # {}
    <2>1. \A n \in T : bound - n \in Nat
        OBVIOUS
    <2>2. PICK n \in T : TRUE
        OBVIOUS
    <2>3. bound - n \in gaps
        OBVIOUS
    <2> QED BY <2>1, <2>3
<1>2. PICK k \in gaps : \A g \in gaps : k <= g
    <2> HIDE DEF gaps
    <2> QED BY <1>1, Least
<1>3. PICK n \in T : k = bound - n
    OBVIOUS
<1>4. \A m \in T : bound - n <= bound - m
    BY <1>2, <1>3
<1> QED BY <1>4

\* What holds of 0, and of n if it holds of n - 1, holds of the bound.
LEMMA UpTo ==
    ASSUME NEW T, NEW N \in Nat, 0 \in T, \A n \in 1..N : n - 1 \in T => n \in T
    PROVE  N \in T
<1> SUFFICES ASSUME N \notin T PROVE FALSE
    OBVIOUS
<1>1. PICK n \in (0..N) \ T : \A m \in (0..N) \ T : n <= m
    <2>1. (0..N) \ T \in SUBSET Nat /\ (0..N) \ T # {}
        OBVIOUS
    <2> QED BY <2>1, Least
<1>2. n # 0 /\ n \in 1..N
    BY <1>1
<1>3. n - 1 \in T
    BY <1>1, <1>2
<1> QED BY <1>1, <1>2, <1>3

-----------------------------------------------------------------------------
(* Products and quotients.                                                 *)

\* Multiplying by a positive number keeps an order, ...
LEMMA TimesLess ==
    ASSUME NEW a \in Int, NEW b \in Int, NEW p \in Nat \ {0}, a < b
    PROVE  p * a < p * b
OBVIOUS

\* ... and by a natural number the weak one.
LEMMA TimesLeq ==
    ASSUME NEW a \in Int, NEW b \in Int, NEW p \in Nat, a <= b
    PROVE  p * a <= p * b
OBVIOUS

\* A multiple divides exactly.
LEMMA DivExact ==
    ASSUME NEW p \in Nat \ {0}, NEW q \in Int
    PROVE  (q * p) \div p = q
OBVIOUS

\* A quotient is at most q if the dividend is at most q times the divisor.
LEMMA DivLeq ==
    ASSUME NEW x \in Int, NEW p \in Nat \ {0}, NEW q \in Int, x <= p * q
    PROVE  x \div p <= q
<1> DEFINE d == x \div p
<1>1. d \in Int /\ x % p \in 0..(p-1) /\ x = p * d + (x % p)
    OBVIOUS
<1>2. p * d <= x
    <2> HIDE DEF d
    <2> QED BY <1>1
<1>3. ~(d > q)
    <2> HIDE DEF d
    <2>1. d > q => p * q < p * d
        BY <1>1, TimesLess
    <2> QED BY <1>1, <1>2, <2>1
<1> QED BY <1>1, <1>3

\* What has the smaller square is smaller, the larger one being no negative.
LEMMA RootLeq ==
    ASSUME NEW x \in Int, NEW y \in Nat, x * x <= y * y
    PROVE  x <= y
<1> SUFFICES ASSUME x > y PROVE FALSE
    OBVIOUS
<1>1. y * y <= x * y
    OBVIOUS
<1>2. x * y < x * x
    BY TimesLess
<1> QED BY <1>1, <1>2

\* The product of two squares is the square of the product.
LEMMA SquareOfProduct ==
    ASSUME NEW m \in Int, NEW n \in Int
    PROVE  (m*m) * (n*n) = (m*n) * (m*n)
OBVIOUS

\* The inequality of Cauchy and Schwarz in the plane: what is missing is the
\* square of the determinant.
LEMMA CauchySchwarz ==
    ASSUME NEW a \in Int, NEW b \in Int, NEW c \in Int, NEW d \in Int
    PROVE  (a*c + b*d) * (a*c + b*d) <= (a*a + b*b) * (c*c + d*d)
<1>1. (a*a + b*b) * (c*c + d*d) - (a*c + b*d) * (a*c + b*d)
         = (a*d - b*c) * (a*d - b*c)
    OBVIOUS
<1>2. \A z \in Int : z * z >= 0
    OBVIOUS
<1>3. (a*d - b*c) * (a*d - b*c) >= 0
    BY <1>2
<1> QED BY <1>1, <1>3
=============================================================================

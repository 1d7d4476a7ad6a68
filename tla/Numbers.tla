------------------------------ MODULE Numbers ------------------------------
(***************************************************************************)
(* Facts of arithmetic the proofs need: least elements, division with any  *)
(* divisor, and powers of two, which the library only speaks of as numbers *)
(* of subsets.                                                             *)
(***************************************************************************)
EXTENDS Integers, FiniteSetTheorems, FunctionTheorems, WellFoundedInduction, TLAPS

(* A set of numbers has a least element. *)
LEMMA Least ==
  ASSUME NEW T \in SUBSET Nat, T # {}
  PROVE  \E x \in T : \A y \in T : x <= y
  <1> DEFINE R == {p \in Nat \X Nat : p[1] < p[2]}
  <1>1. IsWellFoundedOn(R, Nat)
    BY NatLessThanWellFounded DEF OpToRel
  <1>2. PICK x \in T : \A y \in T : ~ (<<y, x>> \in R)
    <2> HIDE DEF R
    <2> QED
      BY <1>1, WFMin
  <1>3. \A y \in T : ~(y < x)
    <2> TAKE y \in T
    <2>1. <<y, x>> \in Nat \X Nat
      OBVIOUS
    <2>2. y < x => <<y, x>> \in R
      BY <2>1
    <2> QED
      BY <1>2, <2>2
  <1> QED
    BY <1>3

(* A set of numbers with 0 and the successor of each of its elements has them all. *)
LEMMA Induct ==
  ASSUME NEW T \in SUBSET Nat, 0 \in T, \A n \in T : n + 1 \in T
  PROVE  T = Nat
  <1> SUFFICES ASSUME Nat \ T # {} PROVE FALSE
    OBVIOUS
  <1>1. PICK x \in Nat \ T : \A y \in Nat \ T : x <= y
    BY Least
  <1>2. x - 1 \in Nat /\ x - 1 \in T
    BY <1>1
  <1> QED
    BY <1>1, <1>2

-----------------------------------------------------------------------------
(* Division. *)

LEMMA DivMod ==
  ASSUME NEW a \in Int, NEW b \in Nat \ {0}
  PROVE  /\ a \div b \in Int
         /\ a % b \in 0..(b - 1)
         /\ a = b * (a \div b) + (a % b)
  OBVIOUS

LEMMA DivModNat ==
  ASSUME NEW a \in Nat, NEW b \in Nat \ {0}
  PROVE  /\ a \div b \in Nat
         /\ a % b \in 0..(b - 1)
         /\ a = b * (a \div b) + (a % b)
  OBVIOUS

LEMMA SmallMod ==
  ASSUME NEW b \in Nat \ {0}, NEW a \in 0..(b - 1)
  PROVE  a % b = a /\ a \div b = 0
  OBVIOUS

(* Quotient and remainder are unique. *)
LEMMA DivModUnique ==
  ASSUME NEW a \in Int, NEW b \in Nat \ {0}, NEW q \in Int, NEW r \in 0..(b - 1),
         a = b * q + r
  PROVE  a \div b = q /\ a % b = r
  <1> DEFINE p == a \div b
             s == a % b
  <1>1. p \in Int /\ s \in 0..(b - 1) /\ a = b * p + s
    BY DivMod
  <1> HIDE DEF p, s
  <1>2. b * (p - q) = r - s
    BY <1>1
  <1>3. p - q = 0
    <2> DEFINE d == p - q
    <2>1. d \in Int /\ b * d = r - s
      BY <1>1, <1>2
    <2> HIDE DEF d
    <2>2. CASE d >= 1
      <3>1. b * d >= b
        BY <2>1, <2>2
      <3> QED
        BY <1>1, <2>1, <3>1
    <2>3. CASE d <= -1
      <3>1. b * d <= -b
        BY <2>1, <2>3
      <3> QED
        BY <1>1, <2>1, <3>1
    <2> QED
      BY <2>1, <2>2, <2>3 DEF d
  <1>4. p = q /\ s = r
    BY <1>1, <1>3
  <1> QED
    BY <1>4 DEF p, s

(* Whole multiples of the divisor leave the remainder. *)
LEMMA ModShift ==
  ASSUME NEW a \in Int, NEW b \in Nat \ {0}, NEW k \in Int
  PROVE  (a + b * k) % b = a % b /\ (a + b * k) \div b = (a \div b) + k
  <1> DEFINE q == a \div b
             r == a % b
  <1>1. q \in Int /\ r \in 0..(b - 1) /\ a = b * q + r
    BY DivMod
  <1> HIDE DEF q, r
  <1>2. a + b * k = b * (q + k) + r
    BY <1>1
  <1>3. (a + b * k) \div b = q + k /\ (a + b * k) % b = r
    <2>1. a + b * k \in Int /\ q + k \in Int
      BY <1>1
    <2> QED
      BY <1>1, <1>2, <2>1, DivModUnique
  <1> QED
    BY <1>3 DEF q, r

-----------------------------------------------------------------------------
(* Powers of two. *)

LEMMA PowerType ==
  ASSUME NEW n \in Nat
  PROVE  2^n \in Nat \ {0}
  <1>1. IsFiniteSet(1..n) /\ Cardinality(1..n) = n
    BY FS_Interval
  <1>2. IsFiniteSet(SUBSET (1..n)) /\ Cardinality(SUBSET (1..n)) = 2^n
    BY <1>1, FS_SUBSET
  <1>3. 2^n \in Nat
    BY <1>2, FS_CardinalityType
  <1>4. 2^n # 0
    <2>1. SUBSET (1..n) # {}
      OBVIOUS
    <2> QED
      BY <1>2, <2>1, FS_EmptySet
  <1> QED
    BY <1>3, <1>4

(* A subset of two sets that share nothing is a subset of each. *)
LEMMA PowerSum ==
  ASSUME NEW m \in Nat, NEW n \in Nat
  PROVE  2^(m + n) = 2^m * 2^n
  <1> DEFINE M == 1..m
             N == (m + 1)..(m + n)
             P == (SUBSET M) \X (SUBSET N)
             F == [p \in P |-> p[1] \cup p[2]]
  <1>1. /\ IsFiniteSet(M) /\ Cardinality(M) = m
        /\ IsFiniteSet(N) /\ Cardinality(N) = n
        /\ IsFiniteSet(M \cup N) /\ Cardinality(M \cup N) = m + n
    <2>1. M \cup N = 1..(m + n)
      OBVIOUS
    <2>2. m + 1 \in Int /\ m + n \in Int /\ (m + 1 > m + n => n = 0)
      OBVIOUS
    <2>3. IsFiniteSet(N) /\ Cardinality(N) = n
      BY <2>2, FS_Interval
    <2>4. IsFiniteSet(1..(m + n)) /\ Cardinality(1..(m + n)) = m + n
      <3>1. m + n \in Int /\ ~(1 > m + n /\ m + n # 0) /\ m + n - 1 + 1 = m + n
        OBVIOUS
      <3> QED
        BY <3>1, FS_Interval
    <2>5. IsFiniteSet(M) /\ Cardinality(M) = m
      BY FS_Interval
    <2> QED
      BY <2>1, <2>3, <2>4, <2>5
  <1>2. M \cap N = {}
    OBVIOUS
  <1> HIDE DEF M, N
  <1>3. /\ IsFiniteSet(SUBSET M) /\ Cardinality(SUBSET M) = 2^m
        /\ IsFiniteSet(SUBSET N) /\ Cardinality(SUBSET N) = 2^n
        /\ IsFiniteSet(SUBSET (M \cup N)) /\ Cardinality(SUBSET (M \cup N)) = 2^(m + n)
    BY <1>1, FS_SUBSET
  <1>4. IsFiniteSet(P) /\ Cardinality(P) = 2^m * 2^n
    BY <1>3, FS_Product, ZenonT(30)
  <1>5. F \in Bijection(P, SUBSET (M \cup N))
    <2>1. \A p \in P : F[p] \in SUBSET (M \cup N)
      OBVIOUS
    <2>2. \A p, q \in P : F[p] = F[q] => p = q
      <3> SUFFICES ASSUME NEW p \in P, NEW q \in P, p[1] \cup p[2] = q[1] \cup q[2]
                   PROVE  p = q
        OBVIOUS
      <3>1. p[1] = (p[1] \cup p[2]) \cap M /\ q[1] = (q[1] \cup q[2]) \cap M
        BY <1>2
      <3>2. p[2] = (p[1] \cup p[2]) \cap N /\ q[2] = (q[1] \cup q[2]) \cap N
        BY <1>2
      <3> QED
        BY <3>1, <3>2
    <2>3. \A T \in SUBSET (M \cup N) : \E p \in P : F[p] = T
      <3> TAKE T \in SUBSET (M \cup N)
      <3>1. <<T \cap M, T \cap N>> \in P /\ (T \cap M) \cup (T \cap N) = T
        OBVIOUS
      <3> QED
        BY <3>1
    <2>4. F \in [P -> SUBSET (M \cup N)]
      BY <2>1
    <2> HIDE DEF P, F
    <2> QED
      BY <2>2, <2>3, <2>4, Fun_IsBij
  <1>6. ExistsBijection(P, SUBSET (M \cup N))
    BY <1>5 DEF ExistsBijection
  <1>7. Cardinality(SUBSET (M \cup N)) = Cardinality(P)
    <2> HIDE DEF P
    <2> QED
      BY <1>4, <1>6, FS_Bijection
  <1> QED
    BY <1>3, <1>4, <1>7

LEMMA PowerNext ==
  ASSUME NEW n \in Nat
  PROVE  2^(n + 1) = 2 * 2^n
  <1>1. 2^1 = 2
    OBVIOUS
  <1>2. 2^(n + 1) = 2^n * 2^1 /\ 2^n \in Nat
    BY PowerSum, PowerType
  <1> QED
    BY <1>1, <1>2

(* A power divides the greater ones. *)
LEMMA PowerDivides ==
  ASSUME NEW m \in Nat, NEW n \in Nat, m <= n
  PROVE  /\ n - m \in Nat
         /\ 2^(n - m) \in Nat \ {0}
         /\ 2^n = 2^m * 2^(n - m)
         /\ 2^m <= 2^n
  <1>1. n - m \in Nat /\ m + (n - m) = n
    OBVIOUS
  <1>2. 2^(n - m) \in Nat \ {0} /\ 2^m \in Nat \ {0} /\ 2^n = 2^m * 2^(n - m)
    BY <1>1, PowerSum, PowerType
  <1>3. \A a, b \in Nat \ {0} : a <= a * b
    OBVIOUS
  <1> QED
    BY <1>1, <1>2, <1>3

LEMMA PowerGrows ==
  ASSUME NEW m \in Nat, NEW n \in Nat, m < n
  PROVE  2^m < 2^n
  <1>1. 2^(m + 1) = 2 * 2^m /\ 2^m \in Nat \ {0}
    BY PowerNext, PowerType
  <1>2. 2^(m + 1) <= 2^n
    BY PowerDivides
  <1> QED
    BY <1>1, <1>2, PowerType

LEMMA PowerBig == \A n \in Nat : n < 2^n
  <1> DEFINE T == {n \in Nat : n < 2^n}
  <1>1. 0 \in T
    <2>1. 2^0 = 1
      OBVIOUS
    <2> QED
      BY <2>1
  <1>2. ASSUME NEW n \in T
        PROVE  n + 1 \in T
    <2>1. 2^(n + 1) = 2 * 2^n /\ 2^n \in Nat /\ n < 2^n /\ n \in Nat
      BY PowerNext, PowerType
    <2> QED
      BY <2>1
  <1>3. T = Nat
    BY <1>1, <1>2, Induct
  <1> QED
    BY <1>3
=============================================================================

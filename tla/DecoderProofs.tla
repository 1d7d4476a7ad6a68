--------------------------- MODULE DecoderProofs ---------------------------
(***************************************************************************)
(* decode sorts every ARM word into its class, pushes whole trees, stops   *)
(* where its assertions are meant to and at no other word, and the trees   *)
(* it builds have the values of the instructions, for all words and all    *)
(* register contents.                                                      *)
(***************************************************************************)
EXTENDS Decoder, Numbers, SequenceTheorems

Mask == INSTANCE ArmAslProofs WITH LenBits <- 6

-----------------------------------------------------------------------------
(* The number a bit set stands for.                                           *)

(* The fold of Number over the subsets of S, each by its chosen element.       *)
Summed(S, f) ==
    f = [s \in SUBSET S |-> IF s = {} THEN 0
                            ELSE LET x == CHOOSE x \in s : TRUE IN 2^x + f[s \ {x}]]

Sum(S) == CHOOSE f : Summed(S, f)

LEMMA NumberIsSum ==
  ASSUME NEW T
  PROVE  Number(T) = Sum(T)[T]
  BY DEF Number, MapThenSumSet, MapThenFoldSet, Sum, Summed

LEMMA SumExists ==
  ASSUME NEW T \in SUBSET Nat, IsFiniteSet(T)
  PROVE  Sum(T) \in [SUBSET T -> Nat] /\ Summed(T, Sum(T))
  <1> DEFINE Upto(n) == {s \in SUBSET T : Cardinality(s) <= n}
             Pick(s) == CHOOSE x \in s : TRUE
             Good(n, f) ==
                 /\ f \in [Upto(n) -> Nat]
                 /\ \A s \in Upto(n) : f[s] = IF s = {} THEN 0 ELSE 2^Pick(s) + f[s \ {Pick(s)}]
             G == {n \in Nat : \E f : Good(n, f)}
  <1>1. \A s \in SUBSET T : IsFiniteSet(s) /\ Cardinality(s) \in Nat
    BY FS_Subset, FS_CardinalityType
  <1>2. \A s \in SUBSET T : s # {} =>
           /\ Pick(s) \in s /\ 2^Pick(s) \in Nat
           /\ s \ {Pick(s)} \in SUBSET T /\ Cardinality(s \ {Pick(s)}) = Cardinality(s) - 1
    <2> TAKE s \in SUBSET T
    <2> HAVE s # {}
    <2>1. Pick(s) \in s
      OBVIOUS
    <2> HIDE DEF Pick
    <2> QED
      BY <1>1, <2>1, PowerType, FS_RemoveElement
  <1>3. \A s \in SUBSET T : Cardinality(s) <= 0 => s = {}
    BY <1>1, FS_EmptySet
  <1>4. 0 \in G
    <2>1. Upto(0) = {{}}
      <3>1. Cardinality({}) <= 0
        BY FS_EmptySet
      <3> QED
        BY <1>3, <3>1
    <2>2. Good(0, [s \in Upto(0) |-> 0])
      BY <2>1
    <2> HIDE DEF Good
    <2> QED
      BY <2>2
  <1> HIDE DEF Pick
  <1>5. ASSUME NEW n \in G
        PROVE  n + 1 \in G
    <2>1. PICK f : Good(n, f)
      OBVIOUS
    <2> DEFINE g == [s \in Upto(n + 1) |-> IF s = {} THEN 0 ELSE 2^Pick(s) + f[s \ {Pick(s)}]]
    <2>2. \A s \in Upto(n + 1) : s # {} => s \ {Pick(s)} \in Upto(n)
      BY <1>1, <1>2
    <2>3. \A s \in Upto(n) : s \in Upto(n + 1) /\ g[s] = f[s]
      BY <1>1, <2>1
    <2>4. g \in [Upto(n + 1) -> Nat]
      BY <1>2, <2>1, <2>2
    <2>5. \A s \in Upto(n + 1) :
             g[s] = IF s = {} THEN 0 ELSE 2^Pick(s) + g[s \ {Pick(s)}]
      BY <2>2, <2>3
    <2>6. Good(n + 1, g)
      BY <2>4, <2>5
    <2> HIDE DEF Good, g
    <2> QED
      BY <2>6
  <1>6. G = Nat
    <2> HIDE DEF Good
    <2> QED
      BY <1>4, <1>5, Induct
  <1>7. PICK f : Good(Cardinality(T), f)
    <2> HIDE DEF Good
    <2> QED
      BY <1>1, <1>6
  <1>8. Upto(Cardinality(T)) = SUBSET T
    BY FS_Subset
  <1>9. Summed(T, f)
    BY <1>7, <1>8 DEF Summed, Pick
  <1>10. Summed(T, Sum(T))
    <2> HIDE DEF Good, Upto, G
    <2> QED
      BY <1>9 DEF Sum
  <1>11. ASSUME NEW h, Summed(T, h)
         PROVE  h \in [SUBSET T -> Nat]
    <2>1. h = [s \in SUBSET T |-> IF s = {} THEN 0 ELSE 2^Pick(s) + h[s \ {Pick(s)}]]
      BY <1>11 DEF Summed, Pick
    <2> DEFINE H == {n \in Nat : \A s \in Upto(n) : h[s] \in Nat}
    <2>2. 0 \in H
      BY <1>3, <2>1
    <2>3. ASSUME NEW n \in H
          PROVE  n + 1 \in H
      <3>1. ASSUME NEW s \in Upto(n + 1)
            PROVE  h[s] \in Nat
        <4>1. s \in SUBSET T /\ h[s] = IF s = {} THEN 0 ELSE 2^Pick(s) + h[s \ {Pick(s)}]
          BY <2>1
        <4>2. CASE s # {}
          <5>1. s \ {Pick(s)} \in Upto(n) /\ 2^Pick(s) \in Nat
            BY <1>1, <1>2, <4>1, <4>2
          <5>2. h[s \ {Pick(s)}] \in Nat
            BY <2>3, <5>1
          <5> QED
            BY <4>1, <4>2, <5>1, <5>2
        <4> QED
          BY <4>1, <4>2
      <3> QED
        BY <3>1
    <2>4. H = Nat
      <3> HIDE DEF H
      <3>1. H \subseteq Nat
        BY DEF H
      <3> QED
        BY <2>2, <2>3, <3>1, Induct
    <2>5. \A s \in SUBSET T : h[s] \in Nat
      <3> TAKE s \in SUBSET T
      <3>1. Cardinality(s) \in H /\ s \in Upto(Cardinality(s))
        BY <1>1, <2>4
      <3> QED
        BY <3>1
    <2> QED
      BY <2>1, <2>5
  <1> QED
    BY <1>10, <1>11

(* The number of a set is that of its chosen element and of the rest. *)
LEMMA NumberChosen ==
  ASSUME NEW T \in SUBSET Nat, IsFiniteSet(T)
  PROVE  /\ Number(T) \in Nat
         /\ T = {} => Number(T) = 0
         /\ T # {} => \E x \in T : Number(T) = 2^x + Number(T \ {x})
  <1> DEFINE Pick(s) == CHOOSE x \in s : TRUE
  <1>1. \A S \in SUBSET Nat : IsFiniteSet(S) =>
           /\ Sum(S) \in [SUBSET S -> Nat]
           /\ \A s \in SUBSET S :
                 Sum(S)[s] = IF s = {} THEN 0 ELSE 2^Pick(s) + Sum(S)[s \ {Pick(s)}]
    <2> TAKE S \in SUBSET Nat
    <2> HAVE IsFiniteSet(S)
    <2>1. Sum(S) \in [SUBSET S -> Nat] /\ Summed(S, Sum(S))
      BY SumExists
    <2> DEFINE f == Sum(S)
    <2>2. f = [s \in SUBSET S |-> IF s = {} THEN 0 ELSE 2^Pick(s) + f[s \ {Pick(s)}]]
      BY <2>1 DEF Summed
    <2> HIDE DEF f, Pick
    <2>3. \A s \in SUBSET S : f[s] = IF s = {} THEN 0 ELSE 2^Pick(s) + f[s \ {Pick(s)}]
      BY <2>2
    <2> QED
      BY <2>1, <2>3 DEF f
  <1>2. \A s : s # {} => Pick(s) \in s
    OBVIOUS
  <1> HIDE DEF Pick
  (* The folds over two sets agree on the subsets of both. *)
  <1>3. ASSUME NEW S \in SUBSET T
        PROVE  Sum(T)[S] = Sum(S)[S]
    <2> DEFINE H == {n \in Nat : \A s \in SUBSET S :
                        Cardinality(s) <= n => Sum(T)[s] = Sum(S)[s]}
    <2>1. IsFiniteSet(S) /\ S \in SUBSET Nat
      BY FS_Subset
    <2>2. \A s \in SUBSET S : s \in SUBSET T /\ IsFiniteSet(s) /\ Cardinality(s) \in Nat
      BY <2>1, FS_Subset, FS_CardinalityType
    <2>3. /\ \A s \in SUBSET S :
                Sum(S)[s] = IF s = {} THEN 0 ELSE 2^Pick(s) + Sum(S)[s \ {Pick(s)}]
          /\ \A s \in SUBSET S :
                Sum(T)[s] = IF s = {} THEN 0 ELSE 2^Pick(s) + Sum(T)[s \ {Pick(s)}]
      BY <1>1, <2>1, <2>2
    <2>4. 0 \in H
      <3>1. \A s \in SUBSET S : Cardinality(s) <= 0 => s = {}
        BY <2>2, FS_EmptySet
      <3> QED
        BY <2>3, <3>1
    <2>5. ASSUME NEW n \in H
          PROVE  n + 1 \in H
      <3>1. ASSUME NEW s \in SUBSET S, Cardinality(s) <= n + 1
            PROVE  Sum(T)[s] = Sum(S)[s]
        <4>1. CASE s = {}
          BY <2>3, <4>1
        <4>2. CASE s # {}
          <5>1. Pick(s) \in s
            BY <1>2, <4>2
          <5>2. s \ {Pick(s)} \in SUBSET S /\ Cardinality(s \ {Pick(s)}) = Cardinality(s) - 1
            BY <2>2, <5>1, FS_RemoveElement
          <5>3. Cardinality(s \ {Pick(s)}) <= n
            BY <2>2, <3>1, <5>2
          <5>4. Sum(T)[s \ {Pick(s)}] = Sum(S)[s \ {Pick(s)}]
            BY <5>2, <5>3
          <5>5. Sum(S)[s] = 2^Pick(s) + Sum(S)[s \ {Pick(s)}]
            BY <2>3, <4>2
          <5>6. Sum(T)[s] = 2^Pick(s) + Sum(T)[s \ {Pick(s)}]
            BY <2>3, <4>2
          <5> QED
            BY <5>4, <5>5, <5>6
        <4> QED
          BY <4>1, <4>2
      <3> QED
        BY <3>1
    <2>6. H = Nat
      <3>1. H \subseteq Nat
        OBVIOUS
      <3> HIDE DEF H
      <3> QED
        BY <2>4, <2>5, <3>1, Induct
    <2>7. Cardinality(S) \in H
      BY <2>2, <2>6
    <2> QED
      BY <2>2, <2>7
  <1>4. Number(T) = IF T = {} THEN 0 ELSE 2^Pick(T) + Sum(T)[T \ {Pick(T)}]
    BY <1>1, NumberIsSum
  <1>5. T # {} => Sum(T)[T \ {Pick(T)}] = Number(T \ {Pick(T)})
    BY <1>3, NumberIsSum
  <1>6. Number(T) \in Nat
    BY <1>1, NumberIsSum
  <1> QED
    BY <1>2, <1>4, <1>5, <1>6

(* It is that of any element and of the rest. *)
LEMMA NumberStep ==
  ASSUME NEW T \in SUBSET Nat, IsFiniteSet(T), NEW y \in T
  PROVE  Number(T) = 2^y + Number(T \ {y})
  <1> DEFINE H == {n \in Nat : \A S \in SUBSET T : \A z \in S :
                      Cardinality(S) <= n => Number(S) = 2^z + Number(S \ {z})}
  <1>1. \A S \in SUBSET T : S \in SUBSET Nat /\ IsFiniteSet(S) /\ Cardinality(S) \in Nat
    BY FS_Subset, FS_CardinalityType
  <1>2. 0 \in H
    <2>1. \A S \in SUBSET T : Cardinality(S) <= 0 => S = {}
      BY <1>1, FS_EmptySet
    <2> QED
      BY <2>1
  <1>3. ASSUME NEW n \in H
        PROVE  n + 1 \in H
    <2>1. ASSUME NEW S \in SUBSET T, NEW z \in S, Cardinality(S) <= n + 1
          PROVE  Number(S) = 2^z + Number(S \ {z})
      <3>1. PICK x \in S : Number(S) = 2^x + Number(S \ {x})
        BY <1>1, NumberChosen
      <3>2. CASE x # z
        <4>1. \A u \in S : /\ S \ {u} \in SUBSET T /\ Cardinality(S \ {u}) <= n
                           /\ 2^u \in Nat
          <5> TAKE u \in S
          <5>1. Cardinality(S \ {u}) = Cardinality(S) - 1
            BY <1>1, FS_RemoveElement
          <5> QED
            BY <1>1, <2>1, <5>1, PowerType
        <4>2. Number(S \ {x}) = 2^z + Number((S \ {x}) \ {z})
          <5>1. z \in S \ {x}
            BY <3>2
          <5> QED
            BY <4>1, <5>1
        <4>3. Number(S \ {z}) = 2^x + Number((S \ {z}) \ {x})
          <5>1. x \in S \ {z}
            BY <3>2
          <5> QED
            BY <4>1, <5>1
        <4>4. (S \ {z}) \ {x} = (S \ {x}) \ {z}
          OBVIOUS
        <4>5. Number((S \ {x}) \ {z}) \in Nat
          <5>1. (S \ {x}) \ {z} \in SUBSET T
            OBVIOUS
          <5> QED
            BY <1>1, <5>1, NumberChosen
        <4> HIDE DEF H
        <4> QED
          BY <3>1, <4>1, <4>2, <4>3, <4>4, <4>5, SMTT(30)
      <3> QED
        BY <3>1, <3>2
    <2> QED
      BY <2>1
  <1>4. H = Nat
    <2>1. H \subseteq Nat
      OBVIOUS
    <2> HIDE DEF H
    <2> QED
      BY <1>2, <1>3, <2>1, Induct
  <1>5. Cardinality(T) \in H
    BY <1>1, <1>4
  <1> QED
    BY <1>1, <1>5

(* A set of k bits stands for a number below 2^k. *)
LEMMA NumberBound ==
  ASSUME NEW k \in Nat, NEW T \in SUBSET (0..(k - 1))
  PROVE  Number(T) \in 0..(2^k - 1)
  <1> DEFINE H == {n \in Nat : \A S \in SUBSET (0..(n - 1)) : Number(S) \in 0..(2^n - 1)}
  <1>1. \A n \in Nat : \A S \in SUBSET (0..(n - 1)) : S \in SUBSET Nat /\ IsFiniteSet(S)
    <2> TAKE n \in Nat
    <2> TAKE S \in SUBSET (0..(n - 1))
    <2>1. IsFiniteSet(0..(n - 1)) /\ 0..(n - 1) \subseteq Nat
      BY FS_Interval
    <2>2. IsFiniteSet(S)
      BY <2>1, FS_Subset
    <2> QED
      BY <2>1, <2>2
  <1>2. 0 \in H
    <2>1. \A S \in SUBSET (0..(0 - 1)) : S = {}
      OBVIOUS
    <2>2. Number({}) = 0
      BY NumberChosen, FS_EmptySet
    <2>3. 0 \in 0..(2^0 - 1)
      OBVIOUS
    <2>4. ASSUME NEW S \in SUBSET (0..(0 - 1))
          PROVE  Number(S) \in 0..(2^0 - 1)
      <3>1. S = {}
        BY <2>1
      <3> QED
        BY <2>2, <2>3, <3>1
    <2> QED
      BY <2>4
  <1>3. ASSUME NEW n \in H
        PROVE  n + 1 \in H
    <2>1. 2^(n + 1) = 2 * 2^n /\ 2^n \in Nat \ {0}
      BY PowerNext, PowerType
    <2>2. ASSUME NEW S \in SUBSET (0..((n + 1) - 1))
          PROVE  Number(S) \in 0..(2^(n + 1) - 1)
      <3>1. S \ {n} \in SUBSET (0..(n - 1)) /\ n + 1 \in Nat
        OBVIOUS
      <3>2. Number(S \ {n}) \in 0..(2^n - 1)
        BY <3>1
      <3>3. n \in S => Number(S) = 2^n + Number(S \ {n})
        BY <1>1, <3>1, NumberStep
      <3>4. n \notin S => S \ {n} = S
        OBVIOUS
      <3> DEFINE p == 2^n
                 q == 2^(n + 1)
      <3>5. q = 2 * p /\ p \in Nat \ {0} /\ Number(S \ {n}) \in 0..(p - 1)
        BY <2>1, <3>2
      <3>6. Number(S) = p + Number(S \ {n}) \/ Number(S) = Number(S \ {n})
        BY <3>3, <3>4
      <3> HIDE DEF H, p, q
      <3>7. Number(S) \in 0..(q - 1)
        BY <3>5, <3>6
      <3> QED
        BY <3>7 DEF q
    <2> QED
      BY <2>2
  <1>4. H = Nat
    <2>1. H \subseteq Nat
      OBVIOUS
    <2> HIDE DEF H
    <2> QED
      BY <1>2, <1>3, <2>1, Induct
  <1> QED
    BY <1>4

LEMMA SmallPowers == 2^0 = 1 /\ 2^1 = 2 /\ 2^2 = 4 /\ 2^3 = 8 /\ 2^5 = 32 /\ 2^6 = 64
  <1>1. 2^0 = 1 /\ 2^1 = 2
    OBVIOUS
  <1>2. \A n \in Nat : 2^(n + 1) = 2 * 2^n
    BY PowerNext
  <1>3. 2^(1 + 1) = 4 /\ 2^(2 + 1) = 2 * 2^2 /\ 2^(3 + 1) = 2 * 2^3 /\ 2^(4 + 1) = 2 * 2^4
        /\ 2^(5 + 1) = 2 * 2^5
    BY <1>1, <1>2
  <1>4. 1 + 1 = 2 /\ 2 + 1 = 3 /\ 3 + 1 = 4 /\ 4 + 1 = 5 /\ 5 + 1 = 6
    OBVIOUS
  <1> QED
    BY <1>1, <1>3, <1>4

LEMMA NumberEmpty == Number({}) = 0
  BY NumberChosen, FS_EmptySet

LEMMA NumberOne ==
  ASSUME NEW b \in Nat
  PROVE  Number({b}) = 2^b
  <1>1. IsFiniteSet({b}) /\ {b} \ {b} = {} /\ {b} \in SUBSET Nat
    BY FS_Singleton
  <1>2. Number({b}) = 2^b + Number({b} \ {b})
    BY <1>1, NumberStep
  <1>3. 2^b \in Nat
    BY PowerType
  <1> QED
    BY <1>1, <1>2, <1>3, NumberEmpty

LEMMA NumberTwo ==
  ASSUME NEW a \in Nat, NEW b \in Nat, a # b
  PROVE  Number({a, b}) = 2^a + 2^b
  <1>1. IsFiniteSet({a, b}) /\ {a, b} \ {a} = {b} /\ {a, b} \in SUBSET Nat
    <2>1. IsFiniteSet({b}) /\ {a, b} = {b} \cup {a}
      BY FS_Singleton
    <2>2. IsFiniteSet({b} \cup {a})
      BY <2>1, FS_AddElement
    <2> QED
      BY <2>1, <2>2
  <1>2. Number({a, b}) = 2^a + Number({a, b} \ {a})
    BY <1>1, NumberStep
  <1> QED
    BY <1>1, <1>2, NumberOne

LEMMA Twelve == Number({3, 2}) = 12
  <1>1. Number({3, 2}) = 2^3 + 2^2
    <2>1. 3 \in Nat /\ 2 \in Nat /\ 3 # 2
      OBVIOUS
    <2> QED
      BY <2>1, NumberTwo, Zenon
  <1> QED
    BY <1>1, SmallPowers

(* A field of two bits. *)
LEMMA NumberTwoBits ==
  ASSUME NEW T \in SUBSET (0..1)
  PROVE  Number(T) = (IF 0 \in T THEN 1 ELSE 0) + (IF 1 \in T THEN 2 ELSE 0)
  <1>1. T = {} \/ T = {0} \/ T = {1} \/ T = {0, 1}
    <2>1. 0..1 = {0, 1}
      OBVIOUS
    <2> QED
      BY <2>1
  <1>2. Number({0}) = 1 /\ Number({1}) = 2 /\ Number({0, 1}) = 3
    <2>1. Number({0}) = 2^0 /\ Number({1}) = 2^1
      BY NumberOne
    <2>2. Number({0, 1}) = 2^0 + 2^1
      <3>1. 0 \in Nat /\ 1 \in Nat /\ 0 # 1
        OBVIOUS
      <3> QED
        BY <3>1, NumberTwo, Zenon
    <2> QED
      BY <2>1, <2>2, SmallPowers
  <1>3. /\ T = {} => 0 \notin T /\ 1 \notin T
        /\ T = {0} => 0 \in T /\ 1 \notin T
        /\ T = {1} => 0 \notin T /\ 1 \in T
        /\ T = {0, 1} => 0 \in T /\ 1 \in T
    OBVIOUS
  <1>4. CASE T = {}
    BY <1>3, <1>4, NumberEmpty
  <1>5. CASE T = {0}
    BY <1>2, <1>3, <1>5
  <1>6. CASE T = {1}
    BY <1>2, <1>3, <1>6
  <1>7. CASE T = {0, 1}
    BY <1>2, <1>3, <1>7
  <1> QED
    BY <1>1, <1>4, <1>5, <1>6, <1>7

-----------------------------------------------------------------------------
(* Fields of a word. *)

LEMMA RegionBit ==
  ASSUME NEW w \in SUBSET WordBits, NEW lo \in Nat, NEW hi \in Nat
  PROVE  /\ Region(w, lo, hi) \in SUBSET (0..(hi - lo))
         /\ \A b \in Int : b \in Region(w, lo, hi) <=> b + lo \in w /\ b >= 0 /\ b + lo <= hi
  <1>1. \A c \in w : c \in Int
    BY DEF WordBits
  <1>2. Region(w, lo, hi) \in SUBSET (0..(hi - lo))
    BY <1>1 DEF Region
  <1>3. ASSUME NEW b \in Int, b \in Region(w, lo, hi)
        PROVE  b + lo \in w /\ b >= 0 /\ b + lo <= hi
    <2>1. PICK c \in w \cap (lo..hi) : b = c - lo
      BY <1>3 DEF Region
    <2>2. b + lo = c
      BY <1>1, <2>1
    <2> QED
      BY <1>1, <2>1, <2>2
  <1>4. ASSUME NEW b \in Int, b + lo \in w, b >= 0, b + lo <= hi
        PROVE  b \in Region(w, lo, hi)
    <2>1. b + lo \in w \cap (lo..hi) /\ b = (b + lo) - lo
      BY <1>4
    <2> QED
      BY <2>1 DEF Region
  <1> QED
    BY <1>2, <1>3, <1>4

LEMMA FieldNumbers ==
  ASSUME NEW w \in SUBSET WordBits
  PROVE  /\ Rd(w) \in 0..31 /\ Rn(w) \in 0..31 /\ Rm(w) \in 0..31
         /\ Number(Region(w, 21, 24)) \in 0..15
         /\ Number(Region(w, 10, 15)) \in 0..63 /\ Number(Region(w, 16, 21)) \in 0..63
         /\ ShiftField(w) = (IF 22 \in w THEN 1 ELSE 0) + (IF 23 \in w THEN 2 ELSE 0)
         /\ OpField(w) = (IF 29 \in w THEN 1 ELSE 0) + (IF 30 \in w THEN 2 ELSE 0)
  <1>1. /\ Region(w, 0, 4) \in SUBSET (0..(5 - 1))
        /\ Region(w, 5, 9) \in SUBSET (0..(5 - 1))
        /\ Region(w, 16, 20) \in SUBSET (0..(5 - 1))
        /\ Region(w, 21, 24) \in SUBSET (0..(4 - 1))
        /\ Region(w, 10, 15) \in SUBSET (0..(6 - 1))
        /\ Region(w, 16, 21) \in SUBSET (0..(6 - 1))
    <2>1. 4 - 0 = 5 - 1 /\ 9 - 5 = 5 - 1 /\ 20 - 16 = 5 - 1 /\ 24 - 21 = 4 - 1
          /\ 15 - 10 = 6 - 1 /\ 21 - 16 = 6 - 1
      OBVIOUS
    <2> QED
      BY <2>1, RegionBit, ZenonT(30)
  <1>2. 2^5 - 1 = 31 /\ 2^4 - 1 = 15 /\ 2^6 - 1 = 63
    <2>1. 2^(3 + 1) = 2 * 2^3 /\ 3 + 1 = 4
      BY PowerNext
    <2> QED
      BY <2>1, SmallPowers
  <1>3. Rd(w) \in 0..31 /\ Rn(w) \in 0..31 /\ Rm(w) \in 0..31
    BY <1>1, <1>2, NumberBound DEF Rd, Rn, Rm
  <1>4. /\ Number(Region(w, 21, 24)) \in 0..15
        /\ Number(Region(w, 10, 15)) \in 0..63 /\ Number(Region(w, 16, 21)) \in 0..63
    BY <1>1, <1>2, NumberBound
  <1>5. ShiftField(w) = (IF 22 \in w THEN 1 ELSE 0) + (IF 23 \in w THEN 2 ELSE 0)
    <2>1. /\ Region(w, 22, 23) \in SUBSET (0..1)
          /\ 0 \in Region(w, 22, 23) <=> 22 \in w
          /\ 1 \in Region(w, 22, 23) <=> 23 \in w
      <3>1. 23 - 22 = 1 /\ 0 + 22 = 22 /\ 1 + 22 = 23
        OBVIOUS
      <3> QED
        BY <3>1, RegionBit
    <2> QED
      BY <2>1, NumberTwoBits DEF ShiftField
  <1>6. OpField(w) = (IF 29 \in w THEN 1 ELSE 0) + (IF 30 \in w THEN 2 ELSE 0)
    <2>1. /\ Region(w, 29, 30) \in SUBSET (0..1)
          /\ 0 \in Region(w, 29, 30) <=> 29 \in w
          /\ 1 \in Region(w, 29, 30) <=> 30 \in w
      <3>1. 30 - 29 = 1 /\ 0 + 29 = 29 /\ 1 + 29 = 30
        OBVIOUS
      <3> QED
        BY <3>1, RegionBit
    <2> QED
      BY <2>1, NumberTwoBits DEF OpField
  <1> QED
    BY <1>3, <1>4, <1>5, <1>6

-----------------------------------------------------------------------------
(* The tables. *)

LEMMA TopHitsAre ==
  ASSUME NEW w \in SUBSET WordBits
  PROVE  /\ TopHits(w) \subseteq 1..6
         /\ 1 \in TopHits(w) <=> 28 \in w /\ 27 \notin w /\ 26 \notin w
         /\ 2 \in TopHits(w) <=> 28 \in w /\ 27 \notin w /\ 26 \in w
         /\ 3 \in TopHits(w) <=> 27 \in w /\ 25 \notin w
         /\ 4 \in TopHits(w) <=> 27 \in w /\ 26 \notin w /\ 25 \in w
         /\ 5 \in TopHits(w) <=> 28 \notin w /\ 27 \in w /\ 26 \in w /\ 25 \in w
         /\ 6 \in TopHits(w) <=> 28 \in w /\ 27 \in w /\ 26 \in w /\ 25 \in w
  <1> DEFINE op == Region(w, 25, 29)
  <1>1. /\ 0 \in op <=> 25 \in w
        /\ 1 \in op <=> 26 \in w
        /\ 2 \in op <=> 27 \in w
        /\ 3 \in op <=> 28 \in w
    <2>1. \A b \in Int : b \in op <=> b + 25 \in w /\ b >= 0 /\ b + 25 <= 29
      BY RegionBit
    <2> QED
      BY <2>1
  <1> HIDE DEF op
  <1>2. /\ op \cap {3, 2, 1} = {3} <=> 3 \in op /\ 2 \notin op /\ 1 \notin op
        /\ op \cap {3, 2, 1} = {3, 1} <=> 3 \in op /\ 2 \notin op /\ 1 \in op
        /\ op \cap {2, 0} = {2} <=> 2 \in op /\ 0 \notin op
        /\ op \cap {2, 1, 0} = {2, 0} <=> 2 \in op /\ 1 \notin op /\ 0 \in op
        /\ op \cap {3, 2, 1, 0} = {2, 1, 0} <=> 3 \notin op /\ 2 \in op /\ 1 \in op /\ 0 \in op
        /\ op \cap {3, 2, 1, 0} = {3, 2, 1, 0} <=> 3 \in op /\ 2 \in op /\ 1 \in op /\ 0 \in op
    OBVIOUS
  <1>3. TopHits(w) = Hits(op, top_instr_pagetable)
    BY DEF TopHits, op
  <1>4. /\ DOMAIN top_instr_pagetable = 1..6
        /\ top_instr_pagetable[1] = Entry({3, 2, 1},    {3},          "DATA_IMM")
        /\ top_instr_pagetable[2] = Entry({3, 2, 1},    {3, 1},       "BRANCH")
        /\ top_instr_pagetable[3] = Entry({2, 0},       {2},          "LD_STR")
        /\ top_instr_pagetable[4] = Entry({2, 1, 0},    {2, 0},       "DATA_REG")
        /\ top_instr_pagetable[5] = Entry({3, 2, 1, 0}, {2, 1, 0},    "DATA_SIMD")
        /\ top_instr_pagetable[6] = Entry({3, 2, 1, 0}, {3, 2, 1, 0}, "DATA_SIMD")
    BY DEF top_instr_pagetable
  <1> QED
    BY <1>1, <1>2, <1>3, <1>4 DEF Hits, Entry

LEMMA DataImmHitsAre ==
  ASSUME NEW w \in SUBSET WordBits
  PROVE  /\ DataImmHits(w) \subseteq 1..6
         /\ 1 \in DataImmHits(w) <=> 25 \notin w /\ 24 \notin w
         /\ 2 \in DataImmHits(w) <=> 25 \notin w /\ 24 \in w
         /\ 3 \in DataImmHits(w) <=> 25 \in w /\ 24 \notin w /\ 23 \notin w
         /\ 4 \in DataImmHits(w) <=> 25 \in w /\ 24 \notin w /\ 23 \in w
         /\ 5 \in DataImmHits(w) <=> 25 \in w /\ 24 \in w /\ 23 \notin w
         /\ 6 \in DataImmHits(w) <=> 25 \in w /\ 24 \in w /\ 23 \in w
  <1> DEFINE op == Region(w, 23, 25)
  <1>1. /\ 0 \in op <=> 23 \in w
        /\ 1 \in op <=> 24 \in w
        /\ 2 \in op <=> 25 \in w
    <2>1. \A b \in Int : b \in op <=> b + 23 \in w /\ b >= 0 /\ b + 23 <= 25
      BY RegionBit
    <2> QED
      BY <2>1
  <1> HIDE DEF op
  <1>2. /\ op \cap {2, 1} = {} <=> 2 \notin op /\ 1 \notin op
        /\ op \cap {2, 1} = {1} <=> 2 \notin op /\ 1 \in op
        /\ op \cap {2, 1, 0} = {2} <=> 2 \in op /\ 1 \notin op /\ 0 \notin op
        /\ op \cap {2, 1, 0} = {2, 0} <=> 2 \in op /\ 1 \notin op /\ 0 \in op
        /\ op \cap {2, 1, 0} = {2, 1} <=> 2 \in op /\ 1 \in op /\ 0 \notin op
        /\ op \cap {2, 1, 0} = {2, 1, 0} <=> 2 \in op /\ 1 \in op /\ 0 \in op
    OBVIOUS
  <1>3. DataImmHits(w) = Hits(op, data_imm_pagetable)
    BY DEF DataImmHits, op
  <1>4. /\ DOMAIN data_imm_pagetable = 1..6
        /\ data_imm_pagetable[1] = Entry({2, 1},    {},        "PC_REL_ADDR")
        /\ data_imm_pagetable[2] = Entry({2, 1},    {1},       "ADDSUB_IMM")
        /\ data_imm_pagetable[3] = Entry({2, 1, 0}, {2},       "LOGICAL_IMM")
        /\ data_imm_pagetable[4] = Entry({2, 1, 0}, {2, 0},    "MOV_WIDE")
        /\ data_imm_pagetable[5] = Entry({2, 1, 0}, {2, 1},    "BITFIELD")
        /\ data_imm_pagetable[6] = Entry({2, 1, 0}, {2, 1, 0}, "EXTRACT")
    BY DEF data_imm_pagetable
  <1> QED
    BY <1>1, <1>2, <1>3, <1>4 DEF Hits, Entry

LEMMA BranchHitsAre ==
  ASSUME NEW w \in SUBSET WordBits
  PROVE  /\ BranchHits(w) \subseteq 1..7
         /\ 1 \in BranchHits(w) <=> 31 \notin w /\ 30 \in w /\ 29 \notin w /\ 25 \notin w
         /\ 2 \in BranchHits(w) <=> /\ 31 \in w /\ 30 \in w /\ 29 \notin w
                                    /\ 25 \notin w /\ 24 \notin w
         /\ 3 \in BranchHits(w) <=> /\ 31 \in w /\ 30 \in w /\ 29 \notin w
                                    /\ 25 \notin w /\ 24 \in w /\ 23 \notin w /\ 22 \notin w
         /\ 4 \in BranchHits(w) <=> 31 \in w /\ 30 \in w /\ 29 \notin w /\ 25 \in w
         /\ 5 \in BranchHits(w) <=> 30 \notin w /\ 29 \notin w
         /\ 6 \in BranchHits(w) <=> 30 \notin w /\ 29 \in w /\ 25 \notin w
         /\ 7 \in BranchHits(w) <=> 30 \notin w /\ 29 \in w /\ 25 \in w
  <1> DEFINE op0 == Region(w, 29, 31)
             op1 == Region(w, 22, 25)
  <1>1. /\ 0 \in op0 <=> 29 \in w
        /\ 1 \in op0 <=> 30 \in w
        /\ 2 \in op0 <=> 31 \in w
        /\ 0 \in op1 <=> 22 \in w
        /\ 1 \in op1 <=> 23 \in w
        /\ 2 \in op1 <=> 24 \in w
        /\ 3 \in op1 <=> 25 \in w
    <2>1. \A b \in Int : b \in op0 <=> b + 29 \in w /\ b >= 0 /\ b + 29 <= 31
      BY RegionBit
    <2>2. \A b \in Int : b \in op1 <=> b + 22 \in w /\ b >= 0 /\ b + 22 <= 25
      BY RegionBit
    <2> QED
      BY <2>1, <2>2
  <1> HIDE DEF op0, op1
  <1>2. /\ op0 \cap {2, 1, 0} = {1} <=> 2 \notin op0 /\ 1 \in op0 /\ 0 \notin op0
        /\ op0 \cap {2, 1, 0} = {2, 1} <=> 2 \in op0 /\ 1 \in op0 /\ 0 \notin op0
        /\ op0 \cap {1, 0} = {} <=> 1 \notin op0 /\ 0 \notin op0
        /\ op0 \cap {1, 0} = {0} <=> 1 \notin op0 /\ 0 \in op0
        /\ op1 \cap {3} = {} <=> 3 \notin op1
        /\ op1 \cap {3} = {3} <=> 3 \in op1
        /\ op1 \cap {3, 2} = {} <=> 3 \notin op1 /\ 2 \notin op1
        /\ op1 \cap {3, 2, 1, 0} = {2} <=> 3 \notin op1 /\ 2 \in op1 /\ 1 \notin op1 /\ 0 \notin op1
        /\ op1 \cap {} = {}
    OBVIOUS
  <1>3. BranchHits(w) = DoubleHits(op0, op1, branch_pagetable)
    BY DEF BranchHits, op0, op1
  <1>4. /\ DOMAIN branch_pagetable = 1..7
        /\ branch_pagetable[1] = DoubleEntry({2, 1, 0}, {1},    {3},          {},  "CONDITIONAL")
        /\ branch_pagetable[2] = DoubleEntry({2, 1, 0}, {2, 1}, {3, 2},       {},  "EXCEPTION")
        /\ branch_pagetable[3] = DoubleEntry({2, 1, 0}, {2, 1}, {3, 2, 1, 0}, {2}, "SYSTEM")
        /\ branch_pagetable[4]
              = DoubleEntry({2, 1, 0}, {2, 1}, {3}, {3}, "UNCONDITIONAL_REG")
        /\ branch_pagetable[5] = DoubleEntry({1, 0}, {}, {}, {}, "UNCONDITIONAL_IMM")
        /\ branch_pagetable[6] = DoubleEntry({1, 0}, {0}, {3}, {}, "COMPARE")
        /\ branch_pagetable[7] = DoubleEntry({1, 0}, {0}, {3}, {3}, "TEST")
    BY DEF branch_pagetable
  <1> QED
    BY <1>1, <1>2, <1>3, <1>4 DEF DoubleHits, DoubleEntry

(* Where at most one entry matches, the first is that one. *)
LEMMA OnlyHit ==
  ASSUME NEW hits \in SUBSET Nat, \A j, k \in hits : j = k
  PROVE  /\ \A k \in hits : Min(hits) = k
         /\ Cardinality(hits) <= 1
  <1>1. CASE hits = {}
    BY <1>1, FS_EmptySet
  <1>2. ASSUME NEW k \in hits
        PROVE  Min(hits) = k /\ Cardinality(hits) <= 1
    <2>1. hits = {k} /\ k \in Nat
      OBVIOUS
    <2>2. Cardinality({k}) = 1
      BY FS_Singleton
    <2>3. Min(hits) \in hits
      <3>1. \E x \in hits : \A y \in hits : x <= y
        BY <2>1
      <3> QED
        BY <3>1 DEF Min
    <2> QED
      BY <2>1, <2>2, <2>3
  <1> QED
    BY <1>1, <1>2

LEMMA HitsAreOne ==
  ASSUME NEW w \in SUBSET WordBits, NEW hits \in {TopHits(w), DataImmHits(w), BranchHits(w)}
  PROVE  /\ hits \in SUBSET Nat
         /\ \A j, k \in hits : j = k
  <1>1. CASE hits = TopHits(w)
    BY <1>1, TopHitsAre
  <1>2. CASE hits = DataImmHits(w)
    BY <1>2, DataImmHitsAre
  <1>3. CASE hits = BranchHits(w)
    BY <1>3, BranchHitsAre
  <1> QED
    BY <1>1, <1>2, <1>3

LEMMA TopGroup ==
  ASSUME NEW w \in SUBSET WordBits
  PROVE  /\ instr_get_group(w) \in L1_page
         /\ instr_get_group(w) = "DATA_IMM" <=> 28 \in w /\ 27 \notin w /\ 26 \notin w
         /\ instr_get_group(w) = "BRANCH" <=> 28 \in w /\ 27 \notin w /\ 26 \in w
         /\ instr_get_group(w) = "DATA_REG" <=> 27 \in w /\ 26 \notin w /\ 25 \in w
  <1> DEFINE hits == TopHits(w)
             g == instr_get_group(w)
  <1>1. /\ hits = {} => g = "UNALLOCATED"
        /\ \A k \in hits : g = top_instr_pagetable[k].group
    <2>1. \A k \in hits : Min(hits) = k
      BY HitsAreOne, OnlyHit
    <2> QED
      BY <2>1 DEF instr_get_group, FirstGroup
  <1>2. /\ top_instr_pagetable[1].group = "DATA_IMM" /\ top_instr_pagetable[2].group = "BRANCH"
        /\ top_instr_pagetable[3].group = "LD_STR" /\ top_instr_pagetable[4].group = "DATA_REG"
        /\ top_instr_pagetable[5].group = "DATA_SIMD"
        /\ top_instr_pagetable[6].group = "DATA_SIMD"
    BY DEF top_instr_pagetable, Entry
  <1>3. hits \subseteq 1..6 /\ \A j, k \in hits : j = k
    BY TopHitsAre, HitsAreOne
  <1> HIDE DEF hits, g
  <1>4. \/ hits = {} /\ g = "UNALLOCATED"
        \/ 1 \in hits /\ g = "DATA_IMM"
        \/ 2 \in hits /\ g = "BRANCH"
        \/ 3 \in hits /\ g = "LD_STR"
        \/ 4 \in hits /\ g = "DATA_REG"
        \/ (5 \in hits \/ 6 \in hits) /\ g = "DATA_SIMD"
    <2>1. ASSUME NEW k \in hits
          PROVE  k = 1 \/ k = 2 \/ k = 3 \/ k = 4 \/ k = 5 \/ k = 6
      BY <1>3
    <2> QED
      BY <1>1, <1>2, <2>1
  <1>5. /\ g \in L1_page
        /\ g = "DATA_IMM" <=> 1 \in hits
        /\ g = "BRANCH" <=> 2 \in hits
        /\ g = "DATA_REG" <=> 4 \in hits
    BY <1>3, <1>4 DEF L1_page
  <1> QED
    BY <1>5, TopHitsAre DEF hits, g

LEMMA DataImmGroup ==
  ASSUME NEW w \in SUBSET WordBits
  PROVE  /\ data_imm_get_group(w) \in L2_data_imm_page
         /\ data_imm_get_group(w) = "ADDSUB_IMM" <=> 25 \notin w /\ 24 \in w
         /\ data_imm_get_group(w) = "LOGICAL_IMM" <=> 25 \in w /\ 24 \notin w /\ 23 \notin w
  <1> DEFINE hits == DataImmHits(w)
             g == data_imm_get_group(w)
  <1>1. /\ hits = {} => g = "UNALLOCATED"
        /\ \A k \in hits : g = data_imm_pagetable[k].group
    <2>1. \A k \in hits : Min(hits) = k
      BY HitsAreOne, OnlyHit
    <2> QED
      BY <2>1 DEF data_imm_get_group, FirstGroup
  <1>2. /\ data_imm_pagetable[1].group = "PC_REL_ADDR"
        /\ data_imm_pagetable[2].group = "ADDSUB_IMM"
        /\ data_imm_pagetable[3].group = "LOGICAL_IMM"
        /\ data_imm_pagetable[4].group = "MOV_WIDE"
        /\ data_imm_pagetable[5].group = "BITFIELD"
        /\ data_imm_pagetable[6].group = "EXTRACT"
    BY DEF data_imm_pagetable, Entry
  <1>3. hits \subseteq 1..6 /\ \A j, k \in hits : j = k
    BY DataImmHitsAre, HitsAreOne
  <1> HIDE DEF hits, g
  <1>4. \/ hits = {} /\ g = "UNALLOCATED"
        \/ 1 \in hits /\ g = "PC_REL_ADDR"
        \/ 2 \in hits /\ g = "ADDSUB_IMM"
        \/ 3 \in hits /\ g = "LOGICAL_IMM"
        \/ 4 \in hits /\ g = "MOV_WIDE"
        \/ 5 \in hits /\ g = "BITFIELD"
        \/ 6 \in hits /\ g = "EXTRACT"
    <2>1. ASSUME NEW k \in hits
          PROVE  k = 1 \/ k = 2 \/ k = 3 \/ k = 4 \/ k = 5 \/ k = 6
      BY <1>3
    <2> QED
      BY <1>1, <1>2, <2>1
  <1>5. /\ g \in L2_data_imm_page
        /\ g = "ADDSUB_IMM" <=> 2 \in hits
        /\ g = "LOGICAL_IMM" <=> 3 \in hits
    BY <1>3, <1>4 DEF L2_data_imm_page
  <1> QED
    BY <1>5, DataImmHitsAre DEF hits, g

LEMMA BranchGroup ==
  ASSUME NEW w \in SUBSET WordBits
  PROVE  /\ branch_get_group(w) \in L2_branch_page
         /\ branch_get_group(w) = "UNCONDITIONAL_REG" <=>
               31 \in w /\ 30 \in w /\ 29 \notin w /\ 25 \in w
         /\ branch_get_group(w) = "UNCONDITIONAL_IMM" <=> 30 \notin w /\ 29 \notin w
  <1> DEFINE hits == BranchHits(w)
             g == branch_get_group(w)
  <1>1. /\ hits = {} => g = "UNALLOCATED"
        /\ \A k \in hits : g = branch_pagetable[k].group
    <2>1. \A k \in hits : Min(hits) = k
      BY HitsAreOne, OnlyHit
    <2> QED
      BY <2>1 DEF branch_get_group, FirstGroup
  <1>2. /\ branch_pagetable[1].group = "CONDITIONAL"
        /\ branch_pagetable[2].group = "EXCEPTION"
        /\ branch_pagetable[3].group = "SYSTEM"
        /\ branch_pagetable[4].group = "UNCONDITIONAL_REG"
        /\ branch_pagetable[5].group = "UNCONDITIONAL_IMM"
        /\ branch_pagetable[6].group = "COMPARE"
        /\ branch_pagetable[7].group = "TEST"
    BY DEF branch_pagetable, DoubleEntry
  <1>3. hits \subseteq 1..7 /\ \A j, k \in hits : j = k
    BY BranchHitsAre, HitsAreOne
  <1> HIDE DEF hits, g
  <1>4. \/ hits = {} /\ g = "UNALLOCATED"
        \/ 1 \in hits /\ g = "CONDITIONAL"
        \/ 2 \in hits /\ g = "EXCEPTION"
        \/ 3 \in hits /\ g = "SYSTEM"
        \/ 4 \in hits /\ g = "UNCONDITIONAL_REG"
        \/ 5 \in hits /\ g = "UNCONDITIONAL_IMM"
        \/ 6 \in hits /\ g = "COMPARE"
        \/ 7 \in hits /\ g = "TEST"
    <2>1. ASSUME NEW k \in hits
          PROVE  k = 1 \/ k = 2 \/ k = 3 \/ k = 4 \/ k = 5 \/ k = 6 \/ k = 7
      BY <1>3
    <2> QED
      BY <1>1, <1>2, <2>1
  <1>5. /\ g \in L2_branch_page
        /\ g = "UNCONDITIONAL_REG" <=> 4 \in hits
        /\ g = "UNCONDITIONAL_IMM" <=> 5 \in hits
    BY <1>3, <1>4 DEF L2_branch_page
  <1> QED
    BY <1>5, BranchHitsAre DEF hits, g

LEMMA DataRegGroup ==
  ASSUME NEW w \in SUBSET WordBits
  PROVE  /\ data_reg_get_group(w) \in L2_data_reg_page
         /\ data_reg_get_group(w) = "LOGICAL_SHIFT" <=> 28 \notin w /\ 24 \notin w
         /\ data_reg_get_group(w) = "ADDSUB_SHIFT" <=> 28 \notin w /\ 24 \in w /\ 21 \notin w
  <1> DEFINE op2 == Region(w, 21, 24)
  <1>1. /\ 0 \in op2 <=> 21 \in w
        /\ 3 \in op2 <=> 24 \in w
    <2>1. \A b \in Int : b \in op2 <=> b + 21 \in w /\ b >= 0 /\ b + 21 <= 24
      BY RegionBit
    <2> QED
      BY <2>1
  <1> HIDE DEF op2
  <1>2. data_reg_get_group(w) =
          CASE 28 \notin w /\ 3 \notin op2              -> "LOGICAL_SHIFT"
            [] 28 \notin w /\ 3 \in op2 /\ 0 \notin op2 -> "ADDSUB_SHIFT"
            [] 28 \notin w /\ 3 \in op2 /\ 0 \in op2    -> "ADDSUB_EXTEND"
            [] 28 \in w /\ op2 = {}                     -> "ADDSUB_CARRY"
            [] 28 \in w /\ op2 = {1} /\ 11 \in w        -> "COND_COMP_IMM"
            [] 28 \in w /\ op2 = {1} /\ 11 \notin w     -> "COND_COMP_REG"
            [] 28 \in w /\ op2 = {2}                    -> "COND_SEL"
            [] 28 \in w /\ op2 = {2, 1} /\ 30 \notin w  -> "2_SOURCES"
            [] 28 \in w /\ op2 = {2, 1} /\ 30 \in w     -> "1_SOURCE"
            [] 28 \in w /\ 3 \in op2                    -> "3_SOURCES"
            [] OTHER                                    -> "UNALLOCATED"
    BY DEF data_reg_get_group, op2
  <1> HIDE DEF data_reg_get_group
  <1> QED
    BY <1>1, <1>2 DEF L2_data_reg_page

-----------------------------------------------------------------------------
(* The classes of A64. *)

(* The fixed bits of the implemented classes, one by one. *)
Fixed(w, c) ==
    \/ c = BranchImm /\ 30 \notin w /\ 29 \notin w /\ 28 \in w /\ 27 \notin w /\ 26 \in w
    \/ c = BranchReg /\ 31 \in w /\ 30 \in w /\ 29 \notin w
                     /\ 28 \in w /\ 27 \notin w /\ 26 \in w /\ 25 \in w
    \/ c = AddSubImm /\ 28 \in w /\ 27 \notin w /\ 26 \notin w /\ 25 \notin w /\ 24 \in w
    \/ c = LogicalImm /\ 28 \in w /\ 27 \notin w /\ 26 \notin w
                      /\ 25 \in w /\ 24 \notin w /\ 23 \notin w
    \/ c = LogicalShift /\ 28 \notin w /\ 27 \in w /\ 26 \notin w /\ 25 \in w /\ 24 \notin w
    \/ c = AddSubShift /\ 28 \notin w /\ 27 \in w /\ 26 \notin w /\ 25 \in w /\ 24 \in w
                       /\ 21 \notin w

(* The names of the classes differ. *)
LEMMA ClassNames ==
  /\ \A c, d \in Implemented : c = d <=> c[1] = d[1] /\ c[2] = d[2]
  /\ BranchImm # BranchReg /\ BranchImm # AddSubImm /\ BranchImm # LogicalImm
  /\ BranchImm # LogicalShift /\ BranchImm # AddSubShift
  /\ BranchReg # AddSubImm /\ BranchReg # LogicalImm /\ BranchReg # LogicalShift
  /\ BranchReg # AddSubShift
  /\ AddSubImm # LogicalImm /\ AddSubImm # LogicalShift /\ AddSubImm # AddSubShift
  /\ LogicalImm # LogicalShift /\ LogicalImm # AddSubShift /\ LogicalShift # AddSubShift
  /\ <<"OTHER">> \notin Implemented
  BY DEF Implemented, BranchImm, BranchReg, AddSubImm, LogicalImm, LogicalShift, AddSubShift

LEMMA GroupIsFixed ==
  ASSUME NEW w \in SUBSET WordBits, NEW c \in Implemented
  PROVE  Group(w) = c <=> Fixed(w, c)
  <1> DEFINE top == instr_get_group(w)
             sub == CASE top = "BRANCH" -> branch_get_group(w)
                      [] top = "DATA_IMM" -> data_imm_get_group(w)
                      [] top = "DATA_REG" -> data_reg_get_group(w)
                      [] OTHER -> "ALL"
  <1>1. Group(w) = <<top, sub>>
    BY DEF Group
  <1>2. /\ top = "BRANCH" => sub = branch_get_group(w)
        /\ top = "DATA_IMM" => sub = data_imm_get_group(w)
        /\ top = "DATA_REG" => sub = data_reg_get_group(w)
    OBVIOUS
  <1>3. /\ top = "DATA_IMM" <=> 28 \in w /\ 27 \notin w /\ 26 \notin w
        /\ top = "BRANCH" <=> 28 \in w /\ 27 \notin w /\ 26 \in w
        /\ top = "DATA_REG" <=> 27 \in w /\ 26 \notin w /\ 25 \in w
    BY TopGroup
  <1> HIDE DEF top, sub
  <1>4. CASE c = BranchImm
    <2>1. Fixed(w, c) <=> 30 \notin w /\ 29 \notin w /\ 28 \in w /\ 27 \notin w /\ 26 \in w
      BY <1>4, ClassNames DEF Fixed
    <2> QED
      BY <1>1, <1>2, <1>3, <1>4, <2>1, BranchGroup DEF BranchImm
  <1>5. CASE c = BranchReg
    <2>1. Fixed(w, c) <=> /\ 31 \in w /\ 30 \in w /\ 29 \notin w
                          /\ 28 \in w /\ 27 \notin w /\ 26 \in w /\ 25 \in w
      BY <1>5, ClassNames DEF Fixed
    <2> QED
      BY <1>1, <1>2, <1>3, <1>5, <2>1, BranchGroup DEF BranchReg
  <1>6. CASE c = AddSubImm
    <2>1. Fixed(w, c) <=> /\ 28 \in w /\ 27 \notin w /\ 26 \notin w
                          /\ 25 \notin w /\ 24 \in w
      BY <1>6, ClassNames DEF Fixed
    <2> QED
      BY <1>1, <1>2, <1>3, <1>6, <2>1, DataImmGroup DEF AddSubImm
  <1>7. CASE c = LogicalImm
    <2>1. Fixed(w, c) <=> /\ 28 \in w /\ 27 \notin w /\ 26 \notin w
                          /\ 25 \in w /\ 24 \notin w /\ 23 \notin w
      BY <1>7, ClassNames DEF Fixed
    <2> QED
      BY <1>1, <1>2, <1>3, <1>7, <2>1, DataImmGroup DEF LogicalImm
  <1>8. CASE c = LogicalShift
    <2>1. Fixed(w, c) <=> /\ 28 \notin w /\ 27 \in w /\ 26 \notin w /\ 25 \in w
                          /\ 24 \notin w
      BY <1>8, ClassNames DEF Fixed
    <2> QED
      BY <1>1, <1>2, <1>3, <1>8, <2>1, DataRegGroup DEF LogicalShift
  <1>9. CASE c = AddSubShift
    <2>1. Fixed(w, c) <=> /\ 28 \notin w /\ 27 \in w /\ 26 \notin w /\ 25 \in w
                          /\ 24 \in w /\ 21 \notin w
      BY <1>9, ClassNames DEF Fixed
    <2> QED
      BY <1>1, <1>2, <1>3, <1>9, <2>1, DataRegGroup DEF AddSubShift
  <1> QED
    BY <1>4, <1>5, <1>6, <1>7, <1>8, <1>9 DEF Implemented

(* The bit patterns of Class. *)
LEMMA ClassPatterns ==
  ASSUME NEW w \in SUBSET WordBits
  PROVE  /\ Region(w, 26, 30) = {2, 0} <=> Fixed(w, BranchImm)
         /\ Region(w, 25, 31) = {6, 5, 3, 1, 0} <=> Fixed(w, BranchReg)
         /\ Region(w, 24, 28) = {4, 0} <=> Fixed(w, AddSubImm)
         /\ Region(w, 23, 28) = {5, 2} <=> Fixed(w, LogicalImm)
         /\ Region(w, 24, 28) = {3, 1} <=> Fixed(w, LogicalShift)
         /\ Region(w, 24, 28) = {3, 1, 0} /\ 21 \notin w <=> Fixed(w, AddSubShift)
  <1>1. Region(w, 26, 30) = {2, 0} <=> Fixed(w, BranchImm)
    <2> DEFINE f == Region(w, 26, 30)
    <2>1. /\ f \in SUBSET (0..4)
          /\ \A b \in Int : b \in f <=> b + 26 \in w /\ b >= 0 /\ b + 26 <= 30
      <3>1. 30 - 26 = 4
        OBVIOUS
      <3> QED
        BY <3>1, RegionBit
    <2>2. /\ 0 \in f <=> 26 \in w
          /\ 1 \in f <=> 27 \in w
          /\ 2 \in f <=> 28 \in w
          /\ 3 \in f <=> 29 \in w
          /\ 4 \in f <=> 30 \in w
      BY <2>1
    <2>3. \A b \in f : b = 0 \/ b = 1 \/ b = 2 \/ b = 3 \/ b = 4
      BY <2>1
    <2> HIDE DEF f
    <2>4. f = {2, 0} <=>
             0 \in f /\ 1 \notin f /\ 2 \in f /\ 3 \notin f /\ 4 \notin f
      BY <2>3
    <2>5. Fixed(w, BranchImm) <=>
             30 \notin w /\ 29 \notin w /\ 28 \in w /\ 27 \notin w /\ 26 \in w
      BY ClassNames DEF Fixed
    <2> QED
      BY <2>2, <2>4, <2>5 DEF f
  <1>2. Region(w, 25, 31) = {6, 5, 3, 1, 0} <=> Fixed(w, BranchReg)
    <2> DEFINE f == Region(w, 25, 31)
    <2>1. /\ f \in SUBSET (0..6)
          /\ \A b \in Int : b \in f <=> b + 25 \in w /\ b >= 0 /\ b + 25 <= 31
      <3>1. 31 - 25 = 6
        OBVIOUS
      <3> QED
        BY <3>1, RegionBit
    <2>2. /\ 0 \in f <=> 25 \in w
          /\ 1 \in f <=> 26 \in w
          /\ 2 \in f <=> 27 \in w
          /\ 3 \in f <=> 28 \in w
          /\ 4 \in f <=> 29 \in w
          /\ 5 \in f <=> 30 \in w
          /\ 6 \in f <=> 31 \in w
      BY <2>1
    <2>3. \A b \in f : b = 0 \/ b = 1 \/ b = 2 \/ b = 3 \/ b = 4 \/ b = 5 \/ b = 6
      BY <2>1
    <2> HIDE DEF f
    <2>4. f = {6, 5, 3, 1, 0} <=>
             0 \in f /\ 1 \in f /\ 2 \notin f /\ 3 \in f /\ 4 \notin f /\ 5 \in f /\ 6 \in f
      BY <2>3
    <2>5. Fixed(w, BranchReg) <=>
             31 \in w /\ 30 \in w /\ 29 \notin w /\ 28 \in w /\ 27 \notin w /\ 26 \in w /\ 25 \in w
      BY ClassNames DEF Fixed
    <2> QED
      BY <2>2, <2>4, <2>5 DEF f
  <1>3. Region(w, 24, 28) = {4, 0} <=> Fixed(w, AddSubImm)
    <2> DEFINE f == Region(w, 24, 28)
    <2>1. /\ f \in SUBSET (0..4)
          /\ \A b \in Int : b \in f <=> b + 24 \in w /\ b >= 0 /\ b + 24 <= 28
      <3>1. 28 - 24 = 4
        OBVIOUS
      <3> QED
        BY <3>1, RegionBit
    <2>2. /\ 0 \in f <=> 24 \in w
          /\ 1 \in f <=> 25 \in w
          /\ 2 \in f <=> 26 \in w
          /\ 3 \in f <=> 27 \in w
          /\ 4 \in f <=> 28 \in w
      BY <2>1
    <2>3. \A b \in f : b = 0 \/ b = 1 \/ b = 2 \/ b = 3 \/ b = 4
      BY <2>1
    <2> HIDE DEF f
    <2>4. f = {4, 0} <=>
             0 \in f /\ 1 \notin f /\ 2 \notin f /\ 3 \notin f /\ 4 \in f
      BY <2>3
    <2>5. Fixed(w, AddSubImm) <=>
             28 \in w /\ 27 \notin w /\ 26 \notin w /\ 25 \notin w /\ 24 \in w
      BY ClassNames DEF Fixed
    <2> QED
      BY <2>2, <2>4, <2>5 DEF f
  <1>4. Region(w, 23, 28) = {5, 2} <=> Fixed(w, LogicalImm)
    <2> DEFINE f == Region(w, 23, 28)
    <2>1. /\ f \in SUBSET (0..5)
          /\ \A b \in Int : b \in f <=> b + 23 \in w /\ b >= 0 /\ b + 23 <= 28
      <3>1. 28 - 23 = 5
        OBVIOUS
      <3> QED
        BY <3>1, RegionBit
    <2>2. /\ 0 \in f <=> 23 \in w
          /\ 1 \in f <=> 24 \in w
          /\ 2 \in f <=> 25 \in w
          /\ 3 \in f <=> 26 \in w
          /\ 4 \in f <=> 27 \in w
          /\ 5 \in f <=> 28 \in w
      BY <2>1
    <2>3. \A b \in f : b = 0 \/ b = 1 \/ b = 2 \/ b = 3 \/ b = 4 \/ b = 5
      BY <2>1
    <2> HIDE DEF f
    <2>4. f = {5, 2} <=>
             0 \notin f /\ 1 \notin f /\ 2 \in f /\ 3 \notin f /\ 4 \notin f /\ 5 \in f
      BY <2>3
    <2>5. Fixed(w, LogicalImm) <=>
             28 \in w /\ 27 \notin w /\ 26 \notin w /\ 25 \in w /\ 24 \notin w /\ 23 \notin w
      BY ClassNames DEF Fixed
    <2> QED
      BY <2>2, <2>4, <2>5 DEF f
  <1>5. Region(w, 24, 28) = {3, 1} <=> Fixed(w, LogicalShift)
    <2> DEFINE f == Region(w, 24, 28)
    <2>1. /\ f \in SUBSET (0..4)
          /\ \A b \in Int : b \in f <=> b + 24 \in w /\ b >= 0 /\ b + 24 <= 28
      <3>1. 28 - 24 = 4
        OBVIOUS
      <3> QED
        BY <3>1, RegionBit
    <2>2. /\ 0 \in f <=> 24 \in w
          /\ 1 \in f <=> 25 \in w
          /\ 2 \in f <=> 26 \in w
          /\ 3 \in f <=> 27 \in w
          /\ 4 \in f <=> 28 \in w
      BY <2>1
    <2>3. \A b \in f : b = 0 \/ b = 1 \/ b = 2 \/ b = 3 \/ b = 4
      BY <2>1
    <2> HIDE DEF f
    <2>4. f = {3, 1} <=>
             0 \notin f /\ 1 \in f /\ 2 \notin f /\ 3 \in f /\ 4 \notin f
      BY <2>3
    <2>5. Fixed(w, LogicalShift) <=>
             28 \notin w /\ 27 \in w /\ 26 \notin w /\ 25 \in w /\ 24 \notin w
      BY ClassNames DEF Fixed
    <2> QED
      BY <2>2, <2>4, <2>5 DEF f
  <1>6. Region(w, 24, 28) = {3, 1, 0} /\ 21 \notin w <=> Fixed(w, AddSubShift)
    <2> DEFINE f == Region(w, 24, 28)
    <2>1. /\ f \in SUBSET (0..4)
          /\ \A b \in Int : b \in f <=> b + 24 \in w /\ b >= 0 /\ b + 24 <= 28
      <3>1. 28 - 24 = 4
        OBVIOUS
      <3> QED
        BY <3>1, RegionBit
    <2>2. /\ 0 \in f <=> 24 \in w
          /\ 1 \in f <=> 25 \in w
          /\ 2 \in f <=> 26 \in w
          /\ 3 \in f <=> 27 \in w
          /\ 4 \in f <=> 28 \in w
      BY <2>1
    <2>3. \A b \in f : b = 0 \/ b = 1 \/ b = 2 \/ b = 3 \/ b = 4
      BY <2>1
    <2> HIDE DEF f
    <2>4. f = {3, 1, 0} <=>
             0 \in f /\ 1 \in f /\ 2 \notin f /\ 3 \in f /\ 4 \notin f
      BY <2>3
    <2>5. Fixed(w, AddSubShift) <=>
             28 \notin w /\ 27 \in w /\ 26 \notin w /\ 25 \in w /\ 24 \in w /\ 21 \notin w
      BY ClassNames DEF Fixed
    <2> QED
      BY <2>2, <2>4, <2>5 DEF f
  <1> QED
    BY <1>1, <1>2, <1>3, <1>4, <1>5, <1>6

LEMMA ClassIsFixed ==
  ASSUME NEW w \in SUBSET WordBits
  PROVE  /\ \A c \in Implemented : Class(w) = c <=> Fixed(w, c)
         /\ Class(w) \notin Implemented => Class(w) = <<"OTHER">>
  <1>1. \A c, d \in Implemented : Fixed(w, c) /\ Fixed(w, d) => c = d
    BY DEF Fixed
  <1>2. \/ \E c \in Implemented : Fixed(w, c) /\ Class(w) = c
        \/ (\A c \in Implemented : ~Fixed(w, c)) /\ Class(w) = <<"OTHER">>
    <2>1. Class(w) =
            CASE Fixed(w, BranchImm)    -> BranchImm
              [] Fixed(w, BranchReg)    -> BranchReg
              [] Fixed(w, AddSubImm)    -> AddSubImm
              [] Fixed(w, LogicalImm)   -> LogicalImm
              [] Fixed(w, LogicalShift) -> LogicalShift
              [] Fixed(w, AddSubShift)  -> AddSubShift
              [] OTHER                  -> <<"OTHER">>
      BY ClassPatterns DEF Class
    <2> QED
      BY <1>1, <2>1 DEF Implemented
  <1> QED
    BY <1>1, <1>2, ClassNames

LEMMA GroupIsClass ==
  ASSUME NEW w \in SUBSET WordBits
  PROVE  /\ \A c \in Implemented : Group(w) = c <=> Class(w) = c
         /\ Group(w) = Class(w) \/ {Group(w), Class(w)} \cap Implemented = {}
  <1>1. \A c \in Implemented : Group(w) = c <=> Class(w) = c
    BY GroupIsFixed, ClassIsFixed
  <1> QED
    BY <1>1

-----------------------------------------------------------------------------
(* DecodeBitMasks, as decode runs it and as ArmAslProofs speaks of it. *)

LEMMA SameMask ==
  /\ \A N, s, r : Asl!Start(N, s, r) <=> Mask!Start(N, s, r)
  /\ Asl!TypeOK <=> Mask!TypeOK
  /\ Asl!Reserved <=> Mask!Reserved
  /\ Asl!Mask(Asl!R) = Mask!Mask(Mask!R)
  BY DEF Asl!Start, Mask!Start, Asl!TypeOK, Mask!TypeOK, Asl!Reserved, Mask!Reserved,
         Asl!Mask, Mask!Mask, Asl!R, Mask!R, Asl!S, Mask!S, Asl!ElemSize, Mask!ElemSize,
         Asl!Bits, Mask!Bits, Asl!Width, Mask!Width

LEMMA SameSteps == Asl!Next <=> Mask!Next
  <1>1. /\ Asl!ScanDown <=> Mask!ScanDown
        /\ Asl!ScanFound <=> Mask!ScanFound
    BY DEF Asl!ScanDown, Mask!ScanDown, Asl!ScanFound, Mask!ScanFound, Asl!BitSeen,
           Mask!BitSeen, Asl!Scanned, Mask!Scanned, Asl!Encodable, Mask!Encodable,
           Asl!Bits, Mask!Bits, Asl!Width, Mask!Width, Asl!args, Mask!args
  <1>2. Asl!Rotate <=> Mask!Rotate
    BY DEF Asl!Rotate, Mask!Rotate, Asl!RotatedOnce, Mask!RotatedOnce, Asl!ShiftLeft,
           Mask!ShiftLeft, Asl!ShiftRight1, Mask!ShiftRight1, Asl!R, Mask!R, Asl!ElemSize,
           Mask!ElemSize, Asl!Bits, Mask!Bits, Asl!Width, Mask!Width, Asl!args, Mask!args
  <1>3. Asl!Repeat <=> Mask!Repeat
    BY DEF Asl!Repeat, Mask!Repeat, Asl!ShiftLeft, Mask!ShiftLeft, Asl!Bits, Mask!Bits,
           Asl!Width, Mask!Width, Asl!args, Mask!args
  <1> QED
    BY <1>1, <1>2, <1>3 DEF Asl!Next, Mask!Next

LEMMA MaskInvStep == Mask!MaskInv /\ (Asl!Next \/ UNCHANGED mask) => Mask!MaskInv'
  <1>1. Mask!MaskInv /\ Mask!Next => Mask!MaskInv'
    BY Mask!ScanDownKeeps, Mask!ScanFoundKeeps, Mask!RotateKeeps, Mask!RepeatKeeps,
       DecoderAssumption DEF Mask!Next
  <1>2. Mask!MaskInv /\ UNCHANGED mask => Mask!MaskInv'
    <2>1. UNCHANGED mask => UNCHANGED Mask!vars
      BY DEF mask, Mask!vars, Mask!args
    <2> QED
      BY <2>1, Mask!MaskStutter, DecoderAssumption
  <1> QED
    BY <1>1, <1>2, SameSteps

(* The words decode is given. *)
LEMMA MaskInvInit == Init => Mask!MaskInv
  <1> SUFFICES ASSUME Init PROVE Mask!MaskInv
    OBVIOUS
  <1> DEFINE s == Number(Region(word, 10, 15))
             r == Number(Region(word, 16, 21))
  <1>1. word \in SUBSET WordBits
    BY DecoderAssumption DEF Init
  <1>2. s \in 0..63 /\ r \in 0..63
    BY <1>1, FieldNumbers
  <1>3. Mask!Start(22 \in word, s, r)
    BY SameMask DEF Init
  <1> HIDE DEF s, r
  <1>4. Mask!Init
    <2>1. 0..63 = 0..(Mask!Width - 1)
      BY SmallPowers DEF Mask!Width
    <2>2. (22 \in word) \in BOOLEAN
      OBVIOUS
    <2>3. \E N \in BOOLEAN : Mask!Start(N, s, r)
      BY <1>3, <2>2, Zenon
    <2> QED
      BY <1>2, <2>1, <2>3 DEF Mask!Init
  <1> QED
    BY <1>4, Mask!MaskInit, DecoderAssumption

-----------------------------------------------------------------------------
(* The inductive invariant: what is decided at each point of decode, and the  *)
(* instruction each decode_... function leaves, as a tree over the second     *)
(* operand it made.                                                           *)

Tree(second, op, set_flags, touched) ==
    LET both == Binary(second.pool, Register(Rn(word)), op, second.expr)
    IN  pool = both.pool /\ instr = MathInstr(word, set_flags, touched, both.expr)

NothingYet == pool = <<>> /\ instr = ZeroInstr

NoMask == ~Is64(word) /\ 22 \in word

Working ==
    /\ status \in {"call", "mask"} => NothingYet
    /\ status = "mask" => word # {} /\ Class(word) = LogicalImm /\ ~NoMask

Stopped ==
    status = "abort" =>
        /\ NothingYet
        /\ \/ word = {}
           \/ Class(word) = LogicalImm /\ (NoMask \/ pc = "abort")
           \/ Class(word) \in {LogicalShift, AddSubShift} /\ ShiftTooLong

Branched == pool = <<>> /\ instr.var = "branch" /\ IsInstr(instr)

LogicalTree(second) ==
    Tree(second, bitwise_op_table[OpField(word) + 1], OpField(word) = 3, OpField(word) = 3)

Answered ==
    status = "done" =>
        /\ word # {}
        /\ Class(word) \in {BranchImm, BranchReg} => Branched
        /\ Class(word) = AddSubImm => Tree(Imm12(word), AddOrSub(word), 29 \in word, FALSE)
        /\ Class(word) = LogicalImm =>
              /\ pc = "done" /\ ~NoMask
              /\ LogicalTree(Value(Imm(ImmVal)))
        /\ Class(word) = LogicalShift => ~ShiftTooLong /\ LogicalTree(Negated(word))
        /\ Class(word) = AddSubShift =>
              /\ ~ShiftTooLong
              /\ Tree(Shifted(word), AddOrSub(word), 29 \in word, 29 \in word)
        /\ Class(word) \notin Implemented => NothingYet

Sorted ==
    /\ word \in SUBSET WordBits
    /\ status \in {"call", "mask", "done", "abort"}
    /\ Working
    /\ Stopped
    /\ Answered

DecodeInv == Sorted /\ Mask!MaskInv

LEMMA SortedInit == Init => Sorted
  BY DecoderAssumption
     DEF Init, Sorted, Working, Stopped, Answered, NothingYet

(* A word in one of the implemented groups is in that class only. *)
LEMMA CalledClass ==
  ASSUME NEW c \in Implemented, word \in SUBSET WordBits, Called(c)
  PROVE  word # {} /\ Class(word) = c /\ status = "call"
  BY GroupIsClass DEF Called

LEMMA ZeroKeeps ==
  ASSUME Sorted, RejectZero
  PROVE  Sorted'
  BY DEF RejectZero, Enter, Sorted, Working, Stopped, Answered, NothingYet

LEMMA BranchImmKeeps ==
  ASSUME Sorted, DecodeBranchImm
  PROVE  Sorted'
  <1>1. BranchImm \in Implemented
    BY DEF Implemented
  <1>2. word # {} /\ Class(word) = BranchImm
    BY <1>1, CalledClass DEF DecodeBranchImm, Sorted
  <1>3. /\ status' = "done" /\ word' = word /\ pool' = <<>>
        /\ instr' = BranchInstr(31 \in word, IF 31 \in word THEN "CALL" ELSE "JUMP",
                                Imm(Region(word, 0, 25)))
    BY DEF DecodeBranchImm, Return
  <1>4. Region(word, 0, 25) \subseteq 0..25
    <2>1. 25 - 0 = 25
      OBVIOUS
    <2> QED
      BY <2>1, RegionBit DEF Sorted
  <1>5. Branched'
    BY <1>3, <1>4 DEF Branched, IsInstr, BranchInstr, Imm
  <1> QED
    BY <1>2, <1>3, <1>5, ClassNames, <1>1 DEF Sorted, Working, Stopped, Answered

LEMMA BranchRegKeeps ==
  ASSUME Sorted, DecodeBranchReg
  PROVE  Sorted'
  <1>1. BranchReg \in Implemented
    BY DEF Implemented
  <1>2. word # {} /\ Class(word) = BranchReg
    BY <1>1, CalledClass DEF DecodeBranchReg, Sorted
  <1> DEFINE opc == Number(Region(word, 21, 24))
             hint == CASE opc = 0 -> "JUMP" [] opc = 2 -> "RETURN" [] OTHER -> "CALL"
             dest == Reg(IF opc \in {4, 5} THEN 0 ELSE Rn(word))
  <1>3. /\ status' = "done" /\ word' = word /\ pool' = <<>>
        /\ instr' = BranchInstr(opc = 1, hint, dest)
    BY DEF DecodeBranchReg, Return
  <1>4. hint \in {"CALL", "RETURN", "JUMP"}
    BY FieldNumbers DEF Sorted
  <1>5. dest.kind = "reg" /\ dest.val \in 0..31
    BY FieldNumbers DEF Sorted, Reg
  <1> HIDE DEF opc, hint, dest
  <1>6. Branched'
    BY <1>3, <1>4, <1>5 DEF Branched, IsInstr, BranchInstr
  <1> QED
    BY <1>1, <1>2, <1>3, <1>6, ClassNames DEF Sorted, Working, Stopped, Answered

LEMMA AddSubImmKeeps ==
  ASSUME Sorted, DecodeAddSubImm
  PROVE  Sorted'
  <1>1. AddSubImm \in Implemented
    BY DEF Implemented
  <1>2. word # {} /\ Class(word) = AddSubImm
    BY <1>1, CalledClass DEF DecodeAddSubImm, Sorted
  <1>3. status' = "done" /\ word' = word
    BY DEF DecodeAddSubImm, Return
  <1>4. Tree(Imm12(word), AddOrSub(word), 29 \in word, FALSE)'
    BY DEF DecodeAddSubImm, Return, Tree
  <1> QED
    BY <1>1, <1>2, <1>3, <1>4, ClassNames DEF Sorted, Working, Stopped, Answered

LEMMA LogicalImmKeeps ==
  ASSUME Sorted, DecodeLogicalImm
  PROVE  Sorted'
  <1>1. LogicalImm \in Implemented
    BY DEF Implemented
  <1>2. word # {} /\ Class(word) = LogicalImm /\ status = "call"
    BY <1>1, CalledClass DEF DecodeLogicalImm, Sorted
  <1>3. /\ status' = IF NoMask THEN "abort" ELSE "mask"
        /\ UNCHANGED <<word, pool, instr, mask>>
    BY DEF DecodeLogicalImm, Enter, NoMask
  <1>4. NoMask' = NoMask /\ NothingYet'
    BY <1>2, <1>3 DEF NoMask, NothingYet, Sorted, Working
  <1> QED
    BY <1>1, <1>2, <1>3, <1>4, ClassNames DEF Sorted, Working, Stopped, Answered

LEMMA RunKeeps ==
  ASSUME Sorted, RunDecodeBitMasks
  PROVE  Sorted'
  <1>1. status = "mask" /\ UNCHANGED <<word, pool, instr, status>>
    BY DEF RunDecodeBitMasks
  <1> QED
    BY <1>1 DEF Sorted, Working, Stopped, Answered, NothingYet, NoMask

LEMMA ReturnedKeeps ==
  ASSUME Sorted, MaskReturned
  PROVE  Sorted'
  <1>1. LogicalImm \in Implemented
    BY DEF Implemented
  <1>2. word # {} /\ Class(word) = LogicalImm /\ ~NoMask /\ pc = "done"
    BY DEF MaskReturned, Sorted, Working
  <1>3. status' = "done" /\ UNCHANGED <<word, mask>>
    BY DEF MaskReturned, Return
  <1>4. ImmVal' = ImmVal /\ pc' = "done" /\ ~NoMask'
    BY <1>2, <1>3 DEF ImmVal, mask, NoMask
  <1>5. LogicalTree(Value(Imm(ImmVal)))'
    <2>1. /\ Value(Imm(ImmVal)).pool = <<>>
          /\ Value(Imm(ImmVal)).expr = Imm(ImmVal)
      BY DEF Value
    <2> DEFINE both == Binary(<<>>, Register(Rn(word)), bitwise_op_table[OpField(word) + 1],
                              Imm(ImmVal))
               flags == OpField(word) = 3
    <2>2. pool' = both.pool /\ instr' = MathInstr(word, flags, flags, both.expr)
      BY DEF MaskReturned, Return
    <2>3. (word' = word) /\ Value(Imm(ImmVal))' = Value(Imm(ImmVal))
      BY <1>3, <1>4 DEF ImmVal, Value
    <2> QED
      BY <2>1, <2>2, <2>3 DEF LogicalTree, Tree
  <1> QED
    BY <1>1, <1>2, <1>3, <1>4, <1>5, ClassNames DEF Sorted, Working, Stopped, Answered

LEMMA RejectedKeeps ==
  ASSUME Sorted, MaskRejected
  PROVE  Sorted'
  <1>1. word # {} /\ Class(word) = LogicalImm /\ NothingYet /\ pc = "abort"
    BY DEF MaskRejected, Sorted, Working
  <1>2. status' = "abort" /\ UNCHANGED <<word, pool, instr, mask>>
    BY DEF MaskRejected, Enter
  <1>3. NothingYet' /\ pc' = "abort"
    BY <1>1, <1>2 DEF NothingYet, mask
  <1> QED
    BY <1>1, <1>2, <1>3 DEF Sorted, Working, Stopped, Answered

LEMMA LogicalShiftKeeps ==
  ASSUME Sorted, DecodeLogicalShift
  PROVE  Sorted'
  <1>1. LogicalShift \in Implemented
    BY DEF Implemented
  <1>2. word # {} /\ Class(word) = LogicalShift /\ status = "call" /\ NothingYet
    BY <1>1, CalledClass DEF DecodeLogicalShift, Sorted, Working
  <1>3. CASE ShiftTooLong
    <2>1. status' = "abort" /\ UNCHANGED <<word, pool, instr, mask>>
      BY <1>3 DEF DecodeLogicalShift, Enter
    <2>2. NothingYet' /\ ShiftTooLong'
      BY <1>2, <1>3, <2>1 DEF NothingYet, ShiftTooLong
    <2> QED
      BY <1>2, <2>1, <2>2 DEF Sorted, Working, Stopped, Answered
  <1>4. CASE ~ShiftTooLong
    <2>1. status' = "done" /\ word' = word
      BY <1>4 DEF DecodeLogicalShift, Return
    <2>2. LogicalTree(Negated(word))' /\ ~ShiftTooLong'
      BY <1>4 DEF DecodeLogicalShift, Return, LogicalTree, Tree, ShiftTooLong
    <2> QED
      BY <1>1, <1>2, <2>1, <2>2, ClassNames DEF Sorted, Working, Stopped, Answered
  <1> QED
    BY <1>3, <1>4

LEMMA AddSubShiftKeeps ==
  ASSUME Sorted, DecodeAddSubShift
  PROVE  Sorted'
  <1>1. AddSubShift \in Implemented
    BY DEF Implemented
  <1>2. word # {} /\ Class(word) = AddSubShift /\ status = "call" /\ NothingYet
    BY <1>1, CalledClass DEF DecodeAddSubShift, Sorted, Working
  <1>3. CASE ShiftTooLong
    <2>1. status' = "abort" /\ UNCHANGED <<word, pool, instr, mask>>
      BY <1>3 DEF DecodeAddSubShift, Enter
    <2>2. NothingYet' /\ ShiftTooLong'
      BY <1>2, <1>3, <2>1 DEF NothingYet, ShiftTooLong
    <2> QED
      BY <1>2, <2>1, <2>2 DEF Sorted, Working, Stopped, Answered
  <1>4. CASE ~ShiftTooLong
    <2>1. status' = "done" /\ word' = word
      BY <1>4 DEF DecodeAddSubShift, Return
    <2>2. Tree(Shifted(word), AddOrSub(word), 29 \in word, 29 \in word)' /\ ~ShiftTooLong'
      BY <1>4 DEF DecodeAddSubShift, Return, Tree, ShiftTooLong
    <2> QED
      BY <1>1, <1>2, <2>1, <2>2, ClassNames DEF Sorted, Working, Stopped, Answered
  <1> QED
    BY <1>3, <1>4

LEMMA UnimplementedKeeps ==
  ASSUME Sorted, DecodeUnimplemented
  PROVE  Sorted'
  <1>1. word # {} /\ Class(word) \notin Implemented
    BY GroupIsClass DEF DecodeUnimplemented, Sorted
  <1>2. status' = "done" /\ word' = word /\ NothingYet'
    BY DEF DecodeUnimplemented, Return, NothingYet
  <1> QED
    BY <1>1, <1>2 DEF Sorted, Working, Stopped, Answered, Implemented

LEMMA SortedStutter ==
  ASSUME Sorted, UNCHANGED vars
  PROVE  Sorted'
  BY DEF vars, mask, Sorted, Working, Stopped, Answered, NothingYet, NoMask, ShiftTooLong,
         Branched, IsInstr, IsExpr, LogicalTree, Tree, ImmVal

(* The inductive invariant of decode: what has been decided about the word at  *)
(* every step, the call of DecodeBitMasks included.                           *)
THEOREM DecodeInvariant == Spec => []DecodeInv
  <1>1. Init => DecodeInv
    BY SortedInit, MaskInvInit DEF DecodeInv
  <1>2. Sorted /\ [Next]_vars => Sorted'
    BY ZeroKeeps, BranchImmKeeps, BranchRegKeeps, AddSubImmKeeps, LogicalImmKeeps, RunKeeps,
       ReturnedKeeps, RejectedKeeps, LogicalShiftKeeps, AddSubShiftKeeps, UnimplementedKeeps,
       SortedStutter DEF Next
  <1>3. [Next]_vars => Asl!Next \/ UNCHANGED mask
    BY DEF Next, RejectZero, DecodeBranchImm, DecodeBranchReg, DecodeAddSubImm,
           DecodeLogicalImm, RunDecodeBitMasks, MaskReturned, MaskRejected,
           DecodeLogicalShift, DecodeAddSubShift, DecodeUnimplemented, Return, Enter, vars
  <1>4. DecodeInv /\ [Next]_vars => DecodeInv'
    BY <1>2, <1>3, MaskInvStep DEF DecodeInv
  <1> QED
    BY <1>1, <1>4, PTL DEF Spec

-----------------------------------------------------------------------------
(* GroupsRight: every ARM word reaches the decode_... function of its class,  *)
(* whatever the order of the tables' entries, and no word another's.          *)
THEOREM WordsReachTheirClass == Spec => []GroupsRight
  <1>1. DecodeInv => GroupsRight
    <2> SUFFICES ASSUME DecodeInv PROVE GroupsRight
      OBVIOUS
    <2>1. word \in SUBSET WordBits
      BY DEF DecodeInv, Sorted
    <2>2. ASSUME NEW hits \in {TopHits(word), DataImmHits(word), BranchHits(word)}
          PROVE  Cardinality(hits) <= 1
      <3>1. hits \in SUBSET Nat /\ \A j, k \in hits : j = k
        BY <2>1, HitsAreOne
      <3> QED
        BY <3>1, OnlyHit
    <2> QED
      BY <2>1, <2>2, GroupIsClass DEF GroupsRight
  <1> QED
    BY <1>1, DecodeInvariant, PTL

LEMMA ShiftBits ==
  ASSUME word \in SUBSET WordBits
  PROVE  /\ ShiftLen(word) \in SUBSET (0..5)
         /\ 5 \in ShiftLen(word) <=> 15 \in word
  <1>1. 15 - 10 = 5 /\ 5 + 10 = 15
    OBVIOUS
  <1> QED
    BY <1>1, RegionBit DEF ShiftLen

(* StopsWhenReserved: the assertions of decode and of DecodeBitMasks stop no   *)
(* word but the reserved ones, and every one of those but the additions whose *)
(* shift has type 0b11: the assertion against these never fails.              *)
THEOREM StopsExactlyReserved == Spec => []StopsWhenReserved
  <1>1. DecodeInv => StopsWhenReserved
    <2> SUFFICES ASSUME DecodeInv PROVE StopsWhenReserved
      OBVIOUS
    <2>1. word \in SUBSET WordBits /\ Mask!TypeOK
      BY DEF DecodeInv, Sorted, Mask!MaskInv
    <2>2. pc = "abort" => Asl!Reserved
      <3>1. pc = "abort" => Mask!Reserved
        <4> SUFFICES ASSUME pc = "abort" PROVE Mask!Reserved
          OBVIOUS
        <4>1. /\ ~Mask!Encodable(i)
              /\ IF i \in Mask!Bits THEN i \in Mask!Scanned /\ \A b \in Mask!Scanned : b <= i
                 ELSE Mask!Scanned = {}
          BY DEF DecodeInv, Mask!MaskInv, Mask!Stopped
        <4> QED
          BY <2>1, <4>1, Mask!StoppedIsReserved, DecoderAssumption
      <3> QED
        BY <3>1, SameMask
    <2>3. pc = "done" => ~Asl!Reserved
      <3>1. pc = "done" => ~Mask!Reserved
        BY <2>1, Mask!FoundIsNotReserved, DecoderAssumption DEF DecodeInv, Mask!MaskInv
      <3> QED
        BY <3>1, SameMask
    <2>4. status = "abort" => Reserved
      BY <2>1, <2>2, ShiftBits
         DEF DecodeInv, Sorted, Stopped, NoMask, ShiftTooLong, Reserved, LongShift
    <2>5. status = "done" => word # {} /\ ~LongShift
      BY <2>1, ShiftBits, ClassNames
         DEF DecodeInv, Sorted, Answered, ShiftTooLong, LongShift
    <2>6. status = "done" /\ Class(word) = LogicalImm =>
             ~Asl!Reserved /\ ~(~Is64(word) /\ 22 \in word)
      BY <2>3, ClassNames DEF DecodeInv, Sorted, Answered, NoMask
    <2> QED
      BY <2>4, <2>5, <2>6 DEF StopsWhenReserved, Reserved
  <1> QED
    BY <1>1, DecodeInvariant, PTL

-----------------------------------------------------------------------------
(* The trees: one, two or three binary expressions, each over the one before. *)

Flat(a, b, op) == pool = <<a, b>> /\ instr.expr = Node(op, 0, 1)

OneDeep(x, y, o, a, op) ==
    pool = <<x, y, a, Node(o, 0, 1)>> /\ instr.expr = Node(op, 2, 3)

TwoDeep(x, y, o, z, p, a, op) ==
    pool = <<x, y, Node(o, 0, 1), z, a, Node(p, 2, 3)>> /\ instr.expr = Node(op, 4, 5)

LEMMA Pushes ==
  /\ \A a, b : <<>> \o <<a, b>> = <<a, b>> /\ Len(<<a, b>>) = 2
  /\ \A a, b, c, d : <<a, b>> \o <<c, d>> = <<a, b, c, d>> /\ Len(<<a, b, c, d>>) = 4
  /\ \A a, b, c, d, e, f :
        /\ <<a, b, c, d>> \o <<e, f>> = <<a, b, c, d, e, f>>
        /\ Len(<<a, b, c, d, e, f>>) = 6
  /\ Len(<<>>) = 0
  <1>1. ASSUME NEW a, NEW b
        PROVE  <<>> \o <<a, b>> = <<a, b>> /\ Len(<<a, b>>) = 2
    OBVIOUS
  <1>2. ASSUME NEW a, NEW b, NEW c, NEW d
        PROVE  Len(<<a, b, c, d>>) = 4
    OBVIOUS
  <1>3. ASSUME NEW a, NEW b, NEW c, NEW d
        PROVE  <<a, b>> \o <<c, d>> = <<a, b, c, d>>
    <2> DEFINE T == {a, b, c, d}
               s == <<a, b>>
               t == <<c, d>>
               u == <<a, b, c, d>>
    <2>1. s \in Seq(T) /\ t \in Seq(T) /\ Len(s) = 2 /\ Len(t) = 2
      OBVIOUS
    <2>2. s[1] = a /\ s[2] = b /\ t[1] = c /\ t[2] = d
      OBVIOUS
    <2>3. u \in Seq(T) /\ Len(u) = 4 /\ u[1] = a /\ u[2] = b /\ u[3] = c /\ u[4] = d
      OBVIOUS
    <2> HIDE DEF T, s, t, u
    <2>4. /\ s \o t \in Seq(T) /\ Len(s \o t) = 4
          /\ \A k \in 1..4 : (s \o t)[k] = IF k <= 2 THEN s[k] ELSE t[k - 2]
      <3>1. /\ s \o t \in Seq(T) /\ Len(s \o t) = Len(s) + Len(t)
            /\ \A k \in 1..(Len(s) + Len(t)) :
                  (s \o t)[k] = IF k <= Len(s) THEN s[k] ELSE t[k - Len(s)]
        BY <2>1, ConcatProperties, Zenon
      <3> DEFINE st == s \o t
      <3>2. Len(s) + Len(t) = 4
        BY <2>1
      <3> HIDE DEF st
      <3> QED
        BY <2>1, <3>1, <3>2 DEF st
    <2>5. \A k \in 1..4 : (s \o t)[k] = u[k]
      <3>1. 3 - 2 = 1 /\ 4 - 2 = 2
        OBVIOUS
      <3>2. \A k \in 1..4 : k = 1 \/ k = 2 \/ k = 3 \/ k = 4
        OBVIOUS
      <3> QED
        BY <2>2, <2>3, <2>4, <3>1, <3>2
    <2>6. s \o t = u
      BY <2>3, <2>4, <2>5, SeqEqual
    <2> QED
      BY <2>6 DEF s, t, u
  <1>4. ASSUME NEW a, NEW b, NEW c, NEW d, NEW e, NEW f
        PROVE  <<a, b, c, d>> \o <<e, f>> = <<a, b, c, d, e, f>>
    <2> DEFINE T == {a, b, c, d, e, f}
               s == <<a, b, c, d>>
               t == <<e, f>>
               u == <<a, b, c, d, e, f>>
    <2>1. s \in Seq(T) /\ t \in Seq(T) /\ Len(s) = 4 /\ Len(t) = 2
      OBVIOUS
    <2>2. s[1] = a /\ s[2] = b /\ s[3] = c /\ s[4] = d /\ t[1] = e /\ t[2] = f
      OBVIOUS
    <2>3. /\ u \in Seq(T) /\ Len(u) = 6
          /\ u[1] = a /\ u[2] = b /\ u[3] = c /\ u[4] = d /\ u[5] = e /\ u[6] = f
      OBVIOUS
    <2> HIDE DEF T, s, t, u
    <2>4. /\ s \o t \in Seq(T) /\ Len(s \o t) = 6
          /\ \A k \in 1..6 : (s \o t)[k] = IF k <= 4 THEN s[k] ELSE t[k - 4]
      <3>1. /\ s \o t \in Seq(T) /\ Len(s \o t) = Len(s) + Len(t)
            /\ \A k \in 1..(Len(s) + Len(t)) :
                  (s \o t)[k] = IF k <= Len(s) THEN s[k] ELSE t[k - Len(s)]
        BY <2>1, ConcatProperties, Zenon
      <3> DEFINE st == s \o t
      <3>2. Len(s) + Len(t) = 6
        BY <2>1
      <3> HIDE DEF st
      <3> QED
        BY <2>1, <3>1, <3>2 DEF st
    <2>5. \A k \in 1..6 : (s \o t)[k] = u[k]
      <3>1. 5 - 4 = 1 /\ 6 - 4 = 2
        OBVIOUS
      <3>2. \A k \in 1..6 : k = 1 \/ k = 2 \/ k = 3 \/ k = 4 \/ k = 5 \/ k = 6
        OBVIOUS
      <3> DEFINE st == s \o t
      <3>3. \A k \in 1..6 : st[k] = IF k <= 4 THEN s[k] ELSE t[k - 4]
        BY <2>4
      <3> HIDE DEF st
      <3>4. /\ st[1] = s[1] /\ st[2] = s[2] /\ st[3] = s[3] /\ st[4] = s[4]
            /\ st[5] = t[1] /\ st[6] = t[2]
        BY <3>1, <3>3
      <3>5. \A k \in 1..6 : st[k] = u[k]
        BY <2>2, <2>3, <3>2, <3>4
      <3> QED
        BY <3>5 DEF st
    <2>6. s \o t = u
      BY <2>3, <2>4, <2>5, SeqEqual
    <2> QED
      BY <2>6 DEF s, t, u
  <1>5. ASSUME NEW a, NEW b, NEW c, NEW d, NEW e, NEW f
        PROVE  Len(<<a, b, c, d, e, f>>) = 6
    OBVIOUS
  <1> QED
    BY <1>1, <1>2, <1>3, <1>4, <1>5

LEMMA ShiftedIs ==
  ASSUME NEW w
  PROVE  /\ ShiftLen(w) = {} =>
               Shifted(w).pool = <<>> /\ Shifted(w).expr = Register(Rm(w))
         /\ ShiftLen(w) # {} =>
               /\ Shifted(w).pool = <<Register(Rm(w)), Imm(ShiftLen(w))>>
               /\ Shifted(w).expr = Node(shift_type_table[ShiftField(w) + 1], 0, 1)
  BY Pushes DEF Shifted, Value, Binary

LEMMA NegatedIs ==
  ASSUME NEW w
  PROVE  /\ 21 \notin w => Negated(w) = Shifted(w)
         /\ 21 \in w /\ ShiftLen(w) = {} =>
               /\ Negated(w).pool = <<Register(Rm(w)), Blank>>
               /\ Negated(w).expr = Node("NEG", 0, 1)
         /\ 21 \in w /\ ShiftLen(w) # {} =>
               /\ Negated(w).pool =
                     <<Register(Rm(w)), Imm(ShiftLen(w)),
                       Node(shift_type_table[ShiftField(w) + 1], 0, 1), Blank>>
               /\ Negated(w).expr = Node("NEG", 2, 3)
  <1> DEFINE s == Shifted(w)
  <1>1. Negated(w) = IF 21 \in w THEN Binary(s.pool, s.expr, "NEG", Blank) ELSE s
    BY DEF Negated
  <1>2. Binary(s.pool, s.expr, "NEG", Blank) =
           [pool |-> s.pool \o <<s.expr, Blank>>,
            expr |-> Node("NEG", Len(s.pool), Len(s.pool) + 1)]
    BY DEF Binary
  <1>3. ShiftLen(w) = {} => s.pool = <<>> /\ s.expr = Register(Rm(w))
    BY ShiftedIs
  <1> DEFINE rm == Register(Rm(w))
             imm == Imm(ShiftLen(w))
             shift == Node(shift_type_table[ShiftField(w) + 1], 0, 1)
  <1>4. ShiftLen(w) # {} => s.pool = <<rm, imm>> /\ s.expr = shift
    BY ShiftedIs
  <1> HIDE DEF s, rm, imm, shift
  <1>5. <<rm, imm>> \o <<shift, Blank>> = <<rm, imm, shift, Blank>> /\ Len(<<rm, imm>>) = 2
    BY Pushes
  <1>6. <<>> \o <<Register(Rm(w)), Blank>> = <<Register(Rm(w)), Blank>> /\ Len(<<>>) = 0
    BY Pushes
  <1>7. 21 \notin w => Negated(w) = Shifted(w)
    BY <1>1 DEF s
  <1>8. ASSUME 21 \in w, ShiftLen(w) = {}
        PROVE  /\ Negated(w).pool = <<Register(Rm(w)), Blank>>
               /\ Negated(w).expr = Node("NEG", 0, 1)
    BY <1>1, <1>2, <1>3, <1>6, <1>8
  <1>9. ASSUME 21 \in w, ShiftLen(w) # {}
        PROVE  /\ Negated(w).pool = <<rm, imm, shift, Blank>>
               /\ Negated(w).expr = Node("NEG", 2, 3)
    <2> DEFINE q == <<rm, imm>>
               r == <<rm, imm, shift, Blank>>
    <2>1. Binary(s.pool, s.expr, "NEG", Blank) =
             [pool |-> q \o <<shift, Blank>>, expr |-> Node("NEG", Len(q), Len(q) + 1)]
      BY <1>2, <1>4, <1>9
    <2>2. q \o <<shift, Blank>> = r /\ Len(q) = 2 /\ 2 + 1 = 3
      BY <1>5
    <2> HIDE DEF q, r
    <2>3. Binary(s.pool, s.expr, "NEG", Blank) = [pool |-> r, expr |-> Node("NEG", 2, 3)]
      BY <2>1, <2>2
    <2> QED
      BY <1>1, <1>9, <2>3 DEF r
  <1> QED
    BY <1>7, <1>8, <1>9 DEF rm, imm, shift

LEMMA Imm12Is ==
  ASSUME NEW w
  PROVE  IF Region(w, 22, 23) = {0}
         THEN /\ Imm12(w).pool = <<Imm(Region(w, 10, 21)), Imm({3, 2})>>
              /\ Imm12(w).expr = Node("LSL", 0, 1)
         ELSE Imm12(w).pool = <<>> /\ Imm12(w).expr = Imm(Region(w, 10, 21))
  BY Pushes DEF Imm12, Binary, Value

LEMMA TreeIs ==
  ASSUME NEW second, NEW op, NEW f, NEW t, Tree(second, op, f, t)
  PROVE  /\ second.pool = <<>> => Flat(Register(Rn(word)), second.expr, op)
         /\ \A x, y, o : second.pool = <<x, y>> /\ second.expr = Node(o, 0, 1) =>
               OneDeep(x, y, o, Register(Rn(word)), op)
         /\ \A x, y, o, z, p :
               second.pool = <<x, y, Node(o, 0, 1), z>> /\ second.expr = Node(p, 2, 3) =>
                  TwoDeep(x, y, o, z, p, Register(Rn(word)), op)
  <1> DEFINE rn == Register(Rn(word))
             k == Len(second.pool)
  <1>1. pool = second.pool \o <<rn, second.expr>> /\ instr.expr = Node(op, k, k + 1)
    BY DEF Tree, Binary, MathInstr
  <1> HIDE DEF rn
  <1>2. ASSUME second.pool = <<>>
        PROVE  Flat(rn, second.expr, op)
    <2>1. <<>> \o <<rn, second.expr>> = <<rn, second.expr>> /\ k = 0
      BY <1>2, Pushes
    <2> QED
      BY <1>1, <1>2, <2>1 DEF Flat
  <1>3. ASSUME NEW x, NEW y, NEW o, second.pool = <<x, y>>, second.expr = Node(o, 0, 1)
        PROVE  OneDeep(x, y, o, rn, op)
    <2>1. <<x, y>> \o <<rn, Node(o, 0, 1)>> = <<x, y, rn, Node(o, 0, 1)>> /\ k = 2
      BY <1>3, Pushes
    <2> QED
      BY <1>1, <1>3, <2>1 DEF OneDeep
  <1>4. ASSUME NEW x, NEW y, NEW o, NEW z, NEW p,
               second.pool = <<x, y, Node(o, 0, 1), z>>, second.expr = Node(p, 2, 3)
        PROVE  TwoDeep(x, y, o, z, p, rn, op)
    <2> DEFINE n == Node(o, 0, 1)
               m == Node(p, 2, 3)
    <2> HIDE DEF n, m
    <2>1. <<x, y, n, z>> \o <<rn, m>> = <<x, y, n, z, rn, m>> /\ Len(<<x, y, n, z>>) = 4
      BY Pushes
    <2> DEFINE q == <<x, y, n, z>>
    <2>2. second.pool = q /\ second.expr = m
      BY <1>4 DEF n, m
    <2>3. q \o <<rn, m>> = <<x, y, n, z, rn, m>> /\ Len(q) = 4 /\ 4 + 1 = 5
      BY <2>1
    <2> HIDE DEF q
    <2>4. pool = q \o <<rn, m>> /\ k = 4
      BY <1>1, <2>2, <2>3
    <2> QED
      BY <1>1, <2>3, <2>4 DEF TwoDeep, n, m
  <1> QED
    BY <1>2, <1>3, <1>4 DEF rn

(* The trees of the four implemented groups that compute. *)
LogicalOp == bitwise_op_table[OpField(word) + 1]
ShiftOp == shift_type_table[ShiftField(word) + 1]

LEMMA LogicalShiftTree ==
  ASSUME DecodeInv, status = "done", Class(word) = LogicalShift
  PROVE  LET rn == Register(Rn(word))
             rm == Register(Rm(word))
             imm == Imm(ShiftLen(word))
         IN  /\ ShiftLen(word) = {} /\ 21 \notin word => Flat(rn, rm, LogicalOp)
             /\ ShiftLen(word) # {} /\ 21 \notin word => OneDeep(rm, imm, ShiftOp, rn, LogicalOp)
             /\ ShiftLen(word) = {} /\ 21 \in word => OneDeep(rm, Blank, "NEG", rn, LogicalOp)
             /\ ShiftLen(word) # {} /\ 21 \in word =>
                   TwoDeep(rm, imm, ShiftOp, Blank, "NEG", rn, LogicalOp)
  <1>1. LogicalTree(Negated(word))
    BY DEF DecodeInv, Sorted, Answered
  <1> QED
    BY <1>1, TreeIs, ShiftedIs, NegatedIs DEF LogicalTree, LogicalOp, ShiftOp

LEMMA LogicalImmTree ==
  ASSUME DecodeInv, status = "done", Class(word) = LogicalImm
  PROVE  Flat(Register(Rn(word)), Imm(ImmVal), LogicalOp)
  <1>1. LogicalTree(Value(Imm(ImmVal)))
    BY DEF DecodeInv, Sorted, Answered
  <1> QED
    BY <1>1, TreeIs DEF LogicalTree, LogicalOp, Value

LEMMA AddSubShiftTree ==
  ASSUME DecodeInv, status = "done", Class(word) = AddSubShift
  PROVE  LET rn == Register(Rn(word))
             rm == Register(Rm(word))
         IN  /\ ShiftLen(word) = {} => Flat(rn, rm, AddOrSub(word))
             /\ ShiftLen(word) # {} =>
                   OneDeep(rm, Imm(ShiftLen(word)), ShiftOp, rn, AddOrSub(word))
  <1>1. Tree(Shifted(word), AddOrSub(word), 29 \in word, 29 \in word)
    BY DEF DecodeInv, Sorted, Answered
  <1> QED
    BY <1>1, TreeIs, ShiftedIs DEF ShiftOp

LEMMA AddSubImmTree ==
  ASSUME DecodeInv, status = "done", Class(word) = AddSubImm
  PROVE  LET rn == Register(Rn(word))
             imm == Imm(Region(word, 10, 21))
         IN  IF Region(word, 22, 23) = {0}
             THEN OneDeep(imm, Imm({3, 2}), "LSL", rn, AddOrSub(word))
             ELSE Flat(rn, imm, AddOrSub(word))
  <1>1. Tree(Imm12(word), AddOrSub(word), 29 \in word, FALSE)
    BY DEF DecodeInv, Sorted, Answered
  <1> QED
    BY <1>1, TreeIs, Imm12Is

(* The objects of the trees. *)
LEMMA FlatAt ==
  ASSUME NEW a, NEW b, NEW op, Flat(a, b, op)
  PROVE  Len(pool) = 2 /\ At(0) = a /\ At(1) = b /\ At(2) = Node(op, 0, 1)
  BY DEF Flat, At

LEMMA OneDeepAt ==
  ASSUME NEW x, NEW y, NEW o, NEW a, NEW op, OneDeep(x, y, o, a, op)
  PROVE  /\ Len(pool) = 4
         /\ At(0) = x /\ At(1) = y /\ At(2) = a /\ At(3) = Node(o, 0, 1)
         /\ At(4) = Node(op, 2, 3)
  <1> DEFINE n == Node(o, 0, 1)
  <1>1. pool = <<x, y, a, n>> /\ instr.expr = Node(op, 2, 3)
    BY DEF OneDeep
  <1> HIDE DEF n
  <1>2. Len(pool) = 4 /\ pool[1] = x /\ pool[2] = y /\ pool[3] = a /\ pool[4] = n
    BY <1>1
  <1>3. 0 + 1 = 1 /\ 1 + 1 = 2 /\ 2 + 1 = 3 /\ 3 + 1 = 4 /\ 0 # 4 /\ 1 # 4 /\ 2 # 4 /\ 3 # 4
    OBVIOUS
  <1> QED
    BY <1>1, <1>2, <1>3 DEF At, n

LEMMA TwoDeepAt ==
  ASSUME NEW x, NEW y, NEW o, NEW z, NEW p, NEW a, NEW op, TwoDeep(x, y, o, z, p, a, op)
  PROVE  /\ Len(pool) = 6
         /\ At(0) = x /\ At(1) = y /\ At(2) = Node(o, 0, 1) /\ At(3) = z /\ At(4) = a
         /\ At(5) = Node(p, 2, 3) /\ At(6) = Node(op, 4, 5)
  <1> DEFINE n == Node(o, 0, 1)
             m == Node(p, 2, 3)
  <1>1. pool = <<x, y, n, z, a, m>> /\ instr.expr = Node(op, 4, 5)
    BY DEF TwoDeep
  <1> HIDE DEF n, m
  <1>2. /\ Len(pool) = 6 /\ pool[1] = x /\ pool[2] = y /\ pool[3] = n /\ pool[4] = z
        /\ pool[5] = a /\ pool[6] = m
    BY <1>1
  <1>3. /\ 0 + 1 = 1 /\ 1 + 1 = 2 /\ 2 + 1 = 3 /\ 3 + 1 = 4 /\ 4 + 1 = 5 /\ 5 + 1 = 6
        /\ 0 # 6 /\ 1 # 6 /\ 2 # 6 /\ 3 # 6 /\ 4 # 6 /\ 5 # 6
    OBVIOUS
  <1> QED
    BY <1>1, <1>2, <1>3 DEF At, n, m

(* An object without children. *)
Leaf(e) == e.kind # "node" \/ e = Blank

LEMMA Leaves ==
  /\ \A r : Leaf(Register(r))
  /\ \A bits : Leaf(Imm(bits))
  /\ Leaf(Blank)
  /\ \A op, l, r : r # 0 => ~Leaf(Node(op, l, r))
  BY DEF Leaf, Register, Imm, Reg, Node, Blank

LEMMA ChildrenAre ==
  ASSUME NEW n
  PROVE  /\ Leaf(At(n)) => Children(n) = {}
         /\ ~Leaf(At(n)) => Children(n) = {At(n).left, At(n).right}
  BY DEF Children, Leaf

(* Every object has the one parent f[h], above it. *)
Complete ==
    /\ Len(pool) \in {0, 2, 4, 6}
    /\ \A n \in 0..Len(pool) : \A h \in Children(n) : h < n
    /\ \A h \in 0..(Len(pool) - 1) :
          Cardinality({n \in 0..Len(pool) : h \in Children(n)}) = 1

LEMMA OneParent ==
  ASSUME NEW f, Len(pool) \in {0, 2, 4, 6},
         \A n \in 0..Len(pool) : \A h \in Children(n) : h < n,
         \A h \in 0..(Len(pool) - 1) :
            f[h] \in 0..Len(pool) /\ \A n \in 0..Len(pool) : h \in Children(n) <=> n = f[h]
  PROVE  Complete
  <1>1. ASSUME NEW h \in 0..(Len(pool) - 1)
        PROVE  Cardinality({n \in 0..Len(pool) : h \in Children(n)}) = 1
    <2>1. {n \in 0..Len(pool) : h \in Children(n)} = {f[h]}
      OBVIOUS
    <2> QED
      BY <2>1, FS_Singleton
  <1> QED
    BY <1>1 DEF Complete

LEMMA FlatComplete ==
  ASSUME NEW a, NEW b, NEW op, Flat(a, b, op), Leaf(a), Leaf(b)
  PROVE  Complete
  <1>1. Len(pool) = 2 /\ At(0) = a /\ At(1) = b /\ At(2) = Node(op, 0, 1)
    BY FlatAt
  <1>2. Children(0) = {} /\ Children(1) = {}
    BY <1>1, ChildrenAre
  <1>3. Children(2) = {0, 1}
    BY <1>1, ChildrenAre, Leaves DEF Node
  <1> DEFINE f == [h \in 0..1 |-> 2]
  <1>4. 0..Len(pool) = {0, 1, 2} /\ 0..(Len(pool) - 1) = {0, 1}
    BY <1>1
  <1>5. \A n \in 0..Len(pool) : \A h \in Children(n) : h < n
    BY <1>2, <1>3, <1>4
  <1>6. \A h \in 0..(Len(pool) - 1) :
           f[h] \in 0..Len(pool) /\ \A n \in 0..Len(pool) : h \in Children(n) <=> n = f[h]
    BY <1>2, <1>3, <1>4
  <1> HIDE DEF f
  <1> QED
    BY <1>1, <1>5, <1>6, OneParent

LEMMA OneDeepComplete ==
  ASSUME NEW x, NEW y, NEW o, NEW a, NEW op, OneDeep(x, y, o, a, op),
         Leaf(x), Leaf(y), Leaf(a)
  PROVE  Complete
  <1>1. /\ Len(pool) = 4
        /\ At(0) = x /\ At(1) = y /\ At(2) = a /\ At(3) = Node(o, 0, 1)
        /\ At(4) = Node(op, 2, 3)
    BY OneDeepAt
  <1>2. Children(0) = {} /\ Children(1) = {} /\ Children(2) = {}
    BY <1>1, ChildrenAre
  <1>3. Children(3) = {0, 1} /\ Children(4) = {2, 3}
    BY <1>1, ChildrenAre, Leaves DEF Node
  <1> DEFINE f == [h \in 0..3 |-> IF h \in {0, 1} THEN 3 ELSE 4]
  <1>4. 0..Len(pool) = {0, 1, 2, 3, 4} /\ 0..(Len(pool) - 1) = {0, 1, 2, 3}
    BY <1>1
  <1>5. \A n \in 0..Len(pool) : \A h \in Children(n) : h < n
    BY <1>2, <1>3, <1>4
  <1>6. f[0] = 3 /\ f[1] = 3 /\ f[2] = 4 /\ f[3] = 4
    OBVIOUS
  <1> HIDE DEF f
  <1>7. \A h \in 0..(Len(pool) - 1) :
           f[h] \in 0..Len(pool) /\ \A n \in 0..Len(pool) : h \in Children(n) <=> n = f[h]
    BY <1>2, <1>3, <1>4, <1>6
  <1> QED
    BY <1>1, <1>5, <1>7, OneParent

LEMMA TwoDeepComplete ==
  ASSUME NEW x, NEW y, NEW o, NEW z, NEW p, NEW a, NEW op, TwoDeep(x, y, o, z, p, a, op),
         Leaf(x), Leaf(y), Leaf(z), Leaf(a)
  PROVE  Complete
  <1>1. /\ Len(pool) = 6
        /\ At(0) = x /\ At(1) = y /\ At(2) = Node(o, 0, 1) /\ At(3) = z /\ At(4) = a
        /\ At(5) = Node(p, 2, 3) /\ At(6) = Node(op, 4, 5)
    BY TwoDeepAt
  <1>2. Children(0) = {} /\ Children(1) = {} /\ Children(3) = {} /\ Children(4) = {}
    BY <1>1, ChildrenAre
  <1>3. Children(2) = {0, 1} /\ Children(5) = {2, 3} /\ Children(6) = {4, 5}
    BY <1>1, ChildrenAre, Leaves DEF Node
  <1> DEFINE f == [h \in 0..5 |-> IF h \in {0, 1} THEN 2 ELSE IF h \in {2, 3} THEN 5 ELSE 6]
  <1>4. 0..Len(pool) = {0, 1, 2, 3, 4, 5, 6} /\ 0..(Len(pool) - 1) = {0, 1, 2, 3, 4, 5}
    BY <1>1
  <1>5. \A n \in 0..Len(pool) : \A h \in Children(n) : h < n
    BY <1>2, <1>3, <1>4
  <1>6. f[0] = 2 /\ f[1] = 2 /\ f[2] = 5 /\ f[3] = 5 /\ f[4] = 6 /\ f[5] = 6
    OBVIOUS
  <1> HIDE DEF f
  <1>7. \A h \in 0..(Len(pool) - 1) :
           f[h] \in 0..Len(pool) /\ \A n \in 0..Len(pool) : h \in Children(n) <=> n = f[h]
    BY <1>2, <1>3, <1>4, <1>6, SMTT(30)
  <1> QED
    BY <1>1, <1>5, <1>7, OneParent

(* TreeComplete: every expression decode pushes is in the instruction's tree, *)
(* once, and was pushed before the expression above it.                       *)
THEOREM TreesAreComplete == Spec => []TreeComplete
  <1>1. DecodeInv => TreeComplete
    <2> SUFFICES ASSUME DecodeInv, status = "done", instr.var = "math"
                 PROVE  Complete
      BY DEF TreeComplete, Complete
    <2>1. CASE Class(word) = LogicalShift
      BY <2>1, LogicalShiftTree, FlatComplete, OneDeepComplete, TwoDeepComplete, Leaves
    <2>2. CASE Class(word) = LogicalImm
      BY <2>2, LogicalImmTree, FlatComplete, Leaves
    <2>3. CASE Class(word) = AddSubShift
      BY <2>3, AddSubShiftTree, FlatComplete, OneDeepComplete, Leaves
    <2>4. CASE Class(word) = AddSubImm
      BY <2>4, AddSubImmTree, FlatComplete, OneDeepComplete, Leaves
    <2>5. CASE Class(word) \in {BranchImm, BranchReg}
      BY <2>5 DEF DecodeInv, Sorted, Answered, Branched
    <2>6. CASE Class(word) \notin Implemented
      <3>1. pool = <<>> /\ instr.expr = Blank
        BY <2>6 DEF DecodeInv, Sorted, Answered, NothingYet, ZeroInstr, MathInstr
      <3>2. Len(pool) = 0 /\ At(0) = Blank
        BY <3>1 DEF At
      <3>3. Children(0) = {}
        BY <3>2, ChildrenAre, Leaves
      <3>4. 0..Len(pool) = {0} /\ 0..(Len(pool) - 1) = {}
        BY <3>2
      <3> QED
        BY <3>2, <3>3, <3>4 DEF Complete
    <2> QED
      BY <2>1, <2>2, <2>3, <2>4, <2>5, <2>6 DEF Implemented
  <1> QED
    BY <1>1, DecodeInvariant, PTL

-----------------------------------------------------------------------------
(* Types. *)

LEMMA Expressions ==
  ASSUME word \in SUBSET WordBits
  PROVE  /\ IsExpr(Register(Rn(word))) /\ IsExpr(Register(Rm(word)))
         /\ IsExpr(Imm(ImmVal)) /\ IsExpr(Imm({3, 2})) /\ IsExpr(Imm(ShiftLen(word)))
         /\ IsExpr(Imm(Region(word, 10, 21)))
         /\ \A op \in Ops : \A l, r \in 0..5 : IsExpr(Node(op, l, r))
         /\ IsExpr(Blank)
  <1>1. ASSUME NEW r \in 0..31
        PROVE  IsExpr(Register(r))
    <2>1. CASE r = 31
      <3>1. Register(r) = [kind |-> "imm", val |-> {}]
        BY <2>1 DEF Register, REGISTER_ZERO, Imm
      <3> QED
        BY <3>1 DEF IsExpr
    <2>2. CASE r # 31
      <3>1. Register(r) = [kind |-> "reg", val |-> r] /\ r \in 0..30
        BY <2>2 DEF Register, REGISTER_ZERO, Reg
      <3> QED
        BY <3>1 DEF IsExpr
    <2> QED
      BY <2>1, <2>2
  <1>2. /\ IsExpr(Imm(ImmVal)) /\ IsExpr(Imm({3, 2})) /\ IsExpr(Imm(ShiftLen(word)))
        /\ IsExpr(Imm(Region(word, 10, 21)))
    BY DEF IsExpr, Imm
  <1>3. \A op \in Ops : \A l, r \in 0..5 : IsExpr(Node(op, l, r))
    BY DEF IsExpr, Node
  <1>4. IsExpr(Blank)
    <2>1. "ADD" \in Ops /\ 0 \in 0..5
      BY DEF Ops
    <2> QED
      BY <1>3, <2>1 DEF Blank
  <1> QED
    BY <1>1, <1>2, <1>3, <1>4, FieldNumbers

LEMMA OpsUsed ==
  ASSUME word \in SUBSET WordBits
  PROVE  /\ ShiftOp \in Ops /\ LogicalOp \in Ops /\ AddOrSub(word) \in Ops
         /\ "NEG" \in Ops /\ "LSL" \in Ops
  <1>1. ShiftField(word) \in {0, 1, 2, 3} /\ OpField(word) \in {0, 1, 2, 3}
    BY FieldNumbers
  <1> QED
    BY <1>1 DEF ShiftOp, LogicalOp, shift_type_table, bitwise_op_table, AddOrSub, Ops

TypedTree ==
    /\ \A n \in DOMAIN pool : IsExpr(pool[n])
    /\ Len(pool) <= 6
    /\ IsExpr(instr.expr)

LEMMA FlatTyped ==
  ASSUME NEW a, NEW b, NEW op \in Ops, word \in SUBSET WordBits, Flat(a, b, op),
         IsExpr(a), IsExpr(b)
  PROVE  TypedTree
  <1>1. IsExpr(instr.expr)
    BY Expressions DEF Flat
  <1>2. pool = <<a, b>>
    BY DEF Flat
  <1>3. DOMAIN pool = 1..2 /\ Len(pool) = 2 /\ pool[1] = a /\ pool[2] = b
    BY <1>2
  <1> QED
    BY <1>1, <1>3 DEF TypedTree

LEMMA OneDeepTyped ==
  ASSUME NEW x, NEW y, NEW o \in Ops, NEW a, NEW op \in Ops, word \in SUBSET WordBits,
         OneDeep(x, y, o, a, op), IsExpr(x), IsExpr(y), IsExpr(a)
  PROVE  TypedTree
  <1> DEFINE n == Node(o, 0, 1)
  <1>1. IsExpr(instr.expr) /\ IsExpr(n)
    BY Expressions DEF OneDeep
  <1>2. pool = <<x, y, a, n>>
    BY DEF OneDeep
  <1> HIDE DEF n
  <1>3. /\ DOMAIN pool = 1..4 /\ Len(pool) = 4
        /\ pool[1] = x /\ pool[2] = y /\ pool[3] = a /\ pool[4] = n
    BY <1>2
  <1> QED
    BY <1>1, <1>3 DEF TypedTree

LEMMA TwoDeepTyped ==
  ASSUME NEW x, NEW y, NEW o \in Ops, NEW z, NEW p \in Ops, NEW a, NEW op \in Ops,
         word \in SUBSET WordBits, TwoDeep(x, y, o, z, p, a, op),
         IsExpr(x), IsExpr(y), IsExpr(z), IsExpr(a)
  PROVE  TypedTree
  <1> DEFINE n == Node(o, 0, 1)
             m == Node(p, 2, 3)
  <1>1. IsExpr(instr.expr) /\ IsExpr(n) /\ IsExpr(m)
    BY Expressions DEF TwoDeep
  <1>2. pool = <<x, y, n, z, a, m>>
    BY DEF TwoDeep
  <1> HIDE DEF n, m
  <1>3. /\ DOMAIN pool = 1..6 /\ Len(pool) = 6 /\ pool[1] = x /\ pool[2] = y
        /\ pool[3] = n /\ pool[4] = z /\ pool[5] = a /\ pool[6] = m
    BY <1>2
  <1> QED
    BY <1>1, <1>3 DEF TypedTree

LEMMA MathTyped ==
  ASSUME word \in SUBSET WordBits, NEW second, NEW op, NEW f \in BOOLEAN, NEW t \in BOOLEAN,
         Tree(second, op, f, t), TypedTree
  PROVE  IsInstr(instr)
  <1> DEFINE e == instr.expr
  <1>1. instr = MathInstr(word, f, t, e)
    BY DEF Tree, MathInstr
  <1>2. Rd(word) \in 0..31 /\ IsExpr(e)
    BY FieldNumbers DEF TypedTree
  <1>3. Is64(word) \in BOOLEAN
    BY DEF Is64
  <1> HIDE DEF e
  <1> QED
    BY <1>1, <1>2, <1>3 DEF IsInstr, MathInstr

(* TypeOK of Decoder: at most six expressions are pushed, each of a kind, an  *)
(* operation and operands the IML has, and every group is one of its page.    *)
THEOREM TypeCorrect == Spec => []TypeOK
  <1>1. DecodeInv => TypeOK
    <2> SUFFICES ASSUME DecodeInv PROVE TypeOK
      OBVIOUS
    <2>1. word \in SUBSET WordBits /\ status \in {"call", "mask", "done", "abort"}
      BY DEF DecodeInv, Sorted
    <2>2. Asl!TypeOK
      BY SameMask DEF DecodeInv, Mask!MaskInv
    <2>3. /\ instr_get_group(word) \in L1_page
          /\ data_imm_get_group(word) \in L2_data_imm_page
          /\ branch_get_group(word) \in L2_branch_page
          /\ data_reg_get_group(word) \in L2_data_reg_page
      BY <2>1, TopGroup, DataImmGroup, BranchGroup, DataRegGroup
    <2> DEFINE Typed == TypedTree /\ IsInstr(instr)
    <2>4. ASSUME NothingYet PROVE Typed
      <3>1. pool = <<>> /\ instr = MathInstr({}, FALSE, FALSE, Blank)
        BY <2>4 DEF NothingYet, ZeroInstr
      <3>2. DOMAIN pool = {} /\ Len(pool) = 0 /\ instr.expr = Blank
        BY <3>1 DEF MathInstr
      <3>3. Rd({}) \in 0..31 /\ Is64({}) \in BOOLEAN
        BY FieldNumbers DEF Is64
      <3> QED
        BY <2>1, <3>1, <3>2, <3>3, Expressions DEF TypedTree, IsInstr, MathInstr
    <2>5. ASSUME status # "done"
          PROVE  Typed
      BY <2>1, <2>4, <2>5 DEF DecodeInv, Sorted, Working, Stopped
    <2>6. ASSUME status = "done" /\ Class(word) = LogicalShift
          PROVE  Typed
      <3>1. TypedTree
        BY <2>1, <2>6, LogicalShiftTree, FlatTyped, OneDeepTyped, TwoDeepTyped, Expressions,
           OpsUsed
      <3>2. LogicalTree(Negated(word))
        BY <2>6 DEF DecodeInv, Sorted, Answered
      <3> QED
        BY <2>1, <3>1, <3>2, MathTyped DEF LogicalTree
    <2>7. ASSUME status = "done" /\ Class(word) = LogicalImm
          PROVE  Typed
      <3>1. TypedTree
        BY <2>1, <2>7, LogicalImmTree, FlatTyped, Expressions, OpsUsed
      <3>2. LogicalTree(Value(Imm(ImmVal)))
        BY <2>7 DEF DecodeInv, Sorted, Answered
      <3> QED
        BY <2>1, <3>1, <3>2, MathTyped DEF LogicalTree
    <2>8. ASSUME status = "done" /\ Class(word) = AddSubShift
          PROVE  Typed
      <3>1. TypedTree
        BY <2>1, <2>8, AddSubShiftTree, FlatTyped, OneDeepTyped, Expressions, OpsUsed
      <3>2. Tree(Shifted(word), AddOrSub(word), 29 \in word, 29 \in word)
        BY <2>8 DEF DecodeInv, Sorted, Answered
      <3>3. (29 \in word) \in BOOLEAN /\ FALSE \in BOOLEAN
        OBVIOUS
      <3> QED
        BY <2>1, <3>1, <3>2, <3>3, MathTyped, Zenon
    <2>9. ASSUME status = "done" /\ Class(word) = AddSubImm
          PROVE  Typed
      <3>1. TypedTree
        BY <2>1, <2>9, AddSubImmTree, FlatTyped, OneDeepTyped, Expressions, OpsUsed
      <3>2. Tree(Imm12(word), AddOrSub(word), 29 \in word, FALSE)
        BY <2>9 DEF DecodeInv, Sorted, Answered
      <3>3. (29 \in word) \in BOOLEAN /\ FALSE \in BOOLEAN
        OBVIOUS
      <3> QED
        BY <2>1, <3>1, <3>2, <3>3, MathTyped, Zenon
    <2>10. ASSUME status = "done" /\ Class(word) \notin Implemented
          PROVE  Typed
      BY <2>4, <2>10 DEF DecodeInv, Sorted, Answered
    <2>11. CASE status = "done" /\ Class(word) \in {BranchImm, BranchReg}
      <3>1. pool = <<>> /\ IsInstr(instr)
        BY <2>11 DEF DecodeInv, Sorted, Answered, Branched
      <3>2. DOMAIN pool = {} /\ Len(pool) = 0
        BY <3>1
      <3> QED
        BY <2>1, <2>2, <2>3, <3>1, <3>2 DEF TypeOK
    <2>12. Typed => TypeOK
      BY <2>1, <2>2, <2>3 DEF TypeOK, TypedTree
    <2> QED
      BY <2>5, <2>6, <2>7, <2>8, <2>9, <2>10, <2>11, <2>12 DEF Implemented
  <1> QED
    BY <1>1, DecodeInvariant, PTL

-----------------------------------------------------------------------------
(* The value of a tree.  ValueAt is a recursive function; it has a value      *)
(* because an expression is pushed after those below it.                      *)

ValueFrom(f, n, regs, W) ==
    LET e == At(n)
    IN  CASE e.kind = "imm" -> e.val \cap (0..(W - 1))
          [] e.kind = "reg" -> regs.r[e.val] \cap (0..(W - 1))
          [] OTHER -> Apply(e.op, f[e.left], IF e.op = "NEG" THEN {} ELSE f[e.right], W)

Valued(f, regs, W) == f = [n \in 0..Len(pool) |-> ValueFrom(f, n, regs, W)]

Val(regs, W) == CHOOSE f : Valued(f, regs, W)

LEMMA ValueIsVal ==
  ASSUME NEW m, NEW regs, NEW W
  PROVE  ValueAt(m, regs, W) = Val(regs, W)[m]
  BY DEF ValueAt, Val, Valued, ValueFrom

Ordered ==
    /\ Len(pool) \in Nat
    /\ \A n \in 0..Len(pool) :
          /\ At(n).kind \in {"imm", "reg", "node"}
          /\ At(n).kind = "node" => At(n).left \in 0..(n - 1) /\ At(n).right \in 0..(n - 1)

LEMMA ValueIsLocal ==
  ASSUME Ordered, NEW n \in 0..Len(pool), NEW f, NEW g, NEW regs, NEW W,
         \A k \in 0..(n - 1) : f[k] = g[k]
  PROVE  ValueFrom(f, n, regs, W) = ValueFrom(g, n, regs, W)
  <1> DEFINE e == At(n)
  <1>1. e.kind \in {"imm", "reg", "node"}
    BY DEF Ordered
  <1>2. e.kind = "node" => f[e.left] = g[e.left] /\ f[e.right] = g[e.right]
    BY DEF Ordered
  <1> HIDE DEF e
  <1> QED
    BY <1>1, <1>2 DEF ValueFrom, e

LEMMA ValExists ==
  ASSUME Ordered, NEW regs, NEW W
  PROVE  Valued(Val(regs, W), regs, W)
  <1> DEFINE Good(n, f) == f = [k \in 0..n |-> ValueFrom(f, k, regs, W)]
             G == {n \in Nat : n <= Len(pool) => \E f : Good(n, f)}
  <1>1. Len(pool) \in Nat
    BY DEF Ordered
  <1>2. 0 \in G
    <2> DEFINE f == [k \in 0..0 |-> ValueFrom(<<>>, k, regs, W)]
    <2>1. \A k \in 0..0 : ValueFrom(f, k, regs, W) = ValueFrom(<<>>, k, regs, W)
      <3> HIDE DEF f
      <3> TAKE k \in 0..0
      <3>1. k \in 0..Len(pool) /\ \A c \in 0..(k - 1) : f[c] = <<>>[c]
        BY <1>1
      <3> QED
        BY <3>1, ValueIsLocal
    <2>2. Good(0, f)
      BY <2>1
    <2> HIDE DEF Good, f
    <2> QED
      BY <2>2
  <1>3. ASSUME NEW n \in G
        PROVE  n + 1 \in G
    <2> SUFFICES ASSUME n + 1 <= Len(pool)
                 PROVE  \E f : Good(n + 1, f)
      OBVIOUS
    <2>1. PICK f : Good(n, f)
      BY <1>1
    <2> DEFINE g == [k \in 0..(n + 1) |-> ValueFrom(f, k, regs, W)]
    <2>2. \A k \in 0..n : g[k] = f[k]
      BY <2>1
    <2>3. \A k \in 0..(n + 1) : ValueFrom(g, k, regs, W) = ValueFrom(f, k, regs, W)
      <3> HIDE DEF g
      <3> TAKE k \in 0..(n + 1)
      <3>1. k \in 0..Len(pool) /\ \A c \in 0..(k - 1) : g[c] = f[c]
        BY <1>1, <2>2
      <3> QED
        BY <3>1, ValueIsLocal
    <2>4. Good(n + 1, g)
      BY <2>3
    <2> HIDE DEF Good, g
    <2> QED
      BY <2>4
  <1>4. G = Nat
    <2>1. G \subseteq Nat
      OBVIOUS
    <2> HIDE DEF G
    <2> QED
      BY <1>2, <1>3, <2>1, Induct
  <1>5. \E f : Valued(f, regs, W)
    <2>1. \E f : Good(Len(pool), f)
      BY <1>1, <1>4
    <2> QED
      BY <2>1 DEF Valued
  <1> QED
    BY <1>5 DEF Val

LEMMA ValueOf ==
  ASSUME Ordered, NEW n \in 0..Len(pool), NEW regs, NEW W
  PROVE  /\ At(n).kind = "imm" => ValueAt(n, regs, W) = At(n).val \cap (0..(W - 1))
         /\ At(n).kind = "reg" => ValueAt(n, regs, W) = regs.r[At(n).val] \cap (0..(W - 1))
         /\ At(n).kind = "node" =>
               ValueAt(n, regs, W) =
                  Apply(At(n).op, ValueAt(At(n).left, regs, W),
                        IF At(n).op = "NEG" THEN {} ELSE ValueAt(At(n).right, regs, W), W)
  <1> DEFINE v == Val(regs, W)
             e == At(n)
  <1>1. v = [k \in 0..Len(pool) |-> ValueFrom(v, k, regs, W)]
    BY ValExists DEF Valued
  <1>2. \A m : ValueAt(m, regs, W) = v[m]
    BY ValueIsVal
  <1> HIDE DEF v
  <1>3. ValueAt(n, regs, W) = ValueFrom(v, n, regs, W)
    BY <1>1, <1>2
  <1>4. ValueFrom(v, n, regs, W) =
           CASE e.kind = "imm" -> e.val \cap (0..(W - 1))
             [] e.kind = "reg" -> regs.r[e.val] \cap (0..(W - 1))
             [] OTHER -> Apply(e.op, v[e.left], IF e.op = "NEG" THEN {} ELSE v[e.right], W)
    BY DEF ValueFrom
  <1>5. /\ ValueAt(e.left, regs, W) = v[e.left]
        /\ ValueAt(e.right, regs, W) = v[e.right]
    BY <1>2
  <1> HIDE DEF e
  <1> QED
    BY <1>3, <1>4, <1>5 DEF e

(* The values of the three shapes. *)
IsLeaf(e) == e.kind \in {"imm", "reg"}

LeafValue(e, regs, W) ==
    IF e.kind = "imm" THEN e.val \cap (0..(W - 1)) ELSE regs.r[e.val] \cap (0..(W - 1))

LEMMA LeafIs ==
  ASSUME NEW regs, NEW W
  PROVE  /\ \A r : /\ IsLeaf(Register(r))
                   /\ LeafValue(Register(r), regs, W) = RegValue(regs, r) \cap (0..(W - 1))
         /\ \A bits : IsLeaf(Imm(bits)) /\ LeafValue(Imm(bits), regs, W) = bits \cap (0..(W - 1))
  <1>1. ASSUME NEW r
        PROVE  /\ IsLeaf(Register(r))
               /\ LeafValue(Register(r), regs, W) = RegValue(regs, r) \cap (0..(W - 1))
    <2>1. CASE r = 31
      BY <2>1 DEF Register, REGISTER_ZERO, RegValue, IsLeaf, LeafValue, Imm
    <2>2. CASE r # 31
      BY <2>2 DEF Register, REGISTER_ZERO, RegValue, IsLeaf, LeafValue, Reg
    <2> QED
      BY <2>1, <2>2
  <1>2. \A bits : IsLeaf(Imm(bits)) /\ LeafValue(Imm(bits), regs, W) = bits \cap (0..(W - 1))
    BY DEF IsLeaf, LeafValue, Imm
  <1> QED
    BY <1>1, <1>2

LEMMA LeafAt ==
  ASSUME Ordered, NEW n \in 0..Len(pool), IsLeaf(At(n)), NEW regs, NEW W
  PROVE  ValueAt(n, regs, W) = LeafValue(At(n), regs, W)
  BY ValueOf DEF IsLeaf, LeafValue

LEMMA NodeAt ==
  ASSUME Ordered, NEW n \in 0..Len(pool), NEW op, NEW l, NEW r, At(n) = Node(op, l, r),
         NEW regs, NEW W
  PROVE  ValueAt(n, regs, W) =
            Apply(op, ValueAt(l, regs, W),
                  IF op = "NEG" THEN {} ELSE ValueAt(r, regs, W), W)
  <1>1. At(n).kind = "node" /\ At(n).op = op /\ At(n).left = l /\ At(n).right = r
    BY DEF Node
  <1> QED
    BY <1>1, ValueOf

LEMMA FlatValue ==
  ASSUME NEW a, NEW b, NEW op, Flat(a, b, op), op # "NEG", IsLeaf(a), IsLeaf(b),
         NEW regs, NEW W
  PROVE  /\ instr.expr.left = 0 /\ instr.expr.right = 1 /\ Len(pool) = 2
         /\ ValueAt(0, regs, W) = LeafValue(a, regs, W)
         /\ ValueAt(1, regs, W) = LeafValue(b, regs, W)
         /\ ValueAt(2, regs, W) = Apply(op, ValueAt(0, regs, W), ValueAt(1, regs, W), W)
  <1>1. Len(pool) = 2 /\ At(0) = a /\ At(1) = b /\ At(2) = Node(op, 0, 1)
    BY FlatAt
  <1>2. 0..Len(pool) = {0, 1, 2}
    BY <1>1
  <1>3. Ordered
    BY <1>1, <1>2 DEF Ordered, IsLeaf, Node
  <1>4. instr.expr.left = 0 /\ instr.expr.right = 1
    BY DEF Flat, Node
  <1> QED
    BY <1>1, <1>2, <1>3, <1>4, LeafAt, NodeAt

LEMMA OneDeepValue ==
  ASSUME NEW x, NEW y, NEW o, NEW a, NEW op, OneDeep(x, y, o, a, op), op # "NEG",
         IsLeaf(x), IsLeaf(y) \/ (y = Blank /\ o = "NEG"), IsLeaf(a), NEW regs, NEW W
  PROVE  /\ instr.expr.left = 2 /\ instr.expr.right = 3 /\ Len(pool) = 4
         /\ ValueAt(2, regs, W) = LeafValue(a, regs, W)
         /\ ValueAt(3, regs, W) = Apply(o, LeafValue(x, regs, W),
                                        IF o = "NEG" THEN {} ELSE LeafValue(y, regs, W), W)
         /\ ValueAt(4, regs, W) = Apply(op, ValueAt(2, regs, W), ValueAt(3, regs, W), W)
  <1>1. /\ Len(pool) = 4
        /\ At(0) = x /\ At(1) = y /\ At(2) = a /\ At(3) = Node(o, 0, 1)
        /\ At(4) = Node(op, 2, 3)
    BY OneDeepAt
  <1>2. 0..Len(pool) = {0, 1, 2, 3, 4}
    BY <1>1
  <1>3. Ordered
    <2>1. /\ At(1).kind \in {"imm", "reg", "node"}
          /\ At(1).kind = "node" => At(1).left \in 0..(1 - 1) /\ At(1).right \in 0..(1 - 1)
      BY <1>1 DEF IsLeaf, Blank, Node
    <2>2. \A n \in {0, 2, 3, 4} :
             /\ At(n).kind \in {"imm", "reg", "node"}
             /\ At(n).kind = "node" => At(n).left \in 0..(n - 1) /\ At(n).right \in 0..(n - 1)
      BY <1>1 DEF IsLeaf, Node
    <2>3. \A n \in 0..Len(pool) : n \in {0, 2, 3, 4} \/ n = 1
      BY <1>2
    <2> QED
      BY <1>1, <2>1, <2>2, <2>3 DEF Ordered
  <1>4. instr.expr.left = 2 /\ instr.expr.right = 3
    BY DEF OneDeep, Node
  <1>5. /\ ValueAt(0, regs, W) = LeafValue(x, regs, W)
        /\ ValueAt(2, regs, W) = LeafValue(a, regs, W)
        /\ IsLeaf(y) => ValueAt(1, regs, W) = LeafValue(y, regs, W)
    BY <1>1, <1>2, <1>3, LeafAt
  <1>6. ValueAt(3, regs, W) = Apply(o, ValueAt(0, regs, W),
                                    IF o = "NEG" THEN {} ELSE ValueAt(1, regs, W), W)
    BY <1>1, <1>2, <1>3, NodeAt
  <1>7. ValueAt(4, regs, W) = Apply(op, ValueAt(2, regs, W), ValueAt(3, regs, W), W)
    BY <1>1, <1>2, <1>3, NodeAt
  <1> QED
    BY <1>1, <1>4, <1>5, <1>6, <1>7

LEMMA TwoDeepValue ==
  ASSUME NEW x, NEW y, NEW o, NEW a, NEW op, TwoDeep(x, y, o, Blank, "NEG", a, op),
         op # "NEG", o # "NEG", IsLeaf(x), IsLeaf(y), IsLeaf(a), NEW regs, NEW W
  PROVE  /\ Len(pool) = 6
         /\ ValueAt(6, regs, W) =
               Apply(op, LeafValue(a, regs, W),
                     Apply("NEG", Apply(o, LeafValue(x, regs, W), LeafValue(y, regs, W), W),
                           {}, W), W)
  <1>1. /\ Len(pool) = 6
        /\ At(0) = x /\ At(1) = y /\ At(2) = Node(o, 0, 1) /\ At(3) = Blank /\ At(4) = a
        /\ At(5) = Node("NEG", 2, 3) /\ At(6) = Node(op, 4, 5)
    BY TwoDeepAt
  <1>2. 0..Len(pool) = {0, 1, 2, 3, 4, 5, 6}
    BY <1>1
  <1>3. Ordered
    <2>1. \A n \in {0, 1, 4} : At(n).kind \in {"imm", "reg"}
      BY <1>1 DEF IsLeaf
    <2>2. \A n \in {2, 3, 5, 6} :
             /\ At(n).kind = "node"
             /\ At(n).left \in 0..(n - 1) /\ At(n).right \in 0..(n - 1)
      BY <1>1 DEF Blank, Node
    <2>3. \A n \in 0..Len(pool) : n \in {0, 1, 4} \/ n \in {2, 3, 5, 6}
      BY <1>2
    <2> QED
      BY <1>1, <2>1, <2>2, <2>3 DEF Ordered
  <1>4. /\ ValueAt(0, regs, W) = LeafValue(x, regs, W)
        /\ ValueAt(1, regs, W) = LeafValue(y, regs, W)
        /\ ValueAt(4, regs, W) = LeafValue(a, regs, W)
    BY <1>1, <1>2, <1>3, LeafAt
  <1>5. ValueAt(2, regs, W) = Apply(o, ValueAt(0, regs, W), ValueAt(1, regs, W), W)
    BY <1>1, <1>2, <1>3, NodeAt
  <1>6. ValueAt(5, regs, W) = Apply("NEG", ValueAt(2, regs, W), {}, W)
    BY <1>1, <1>2, <1>3, NodeAt
  <1>7. ValueAt(6, regs, W) = Apply(op, ValueAt(4, regs, W), ValueAt(5, regs, W), W)
    BY <1>1, <1>2, <1>3, NodeAt
  <1> QED
    BY <1>1, <1>4, <1>5, <1>6, <1>7

-----------------------------------------------------------------------------
(* What the operations do to one bit. *)

LEMMA Turned ==
  ASSUME NEW W \in Nat \ {0}, NEW n \in 0..(W - 1), NEW b \in 0..(W - 1)
  PROVE  /\ (b - n) % W = IF n <= b THEN b - n ELSE (b - n) + W
         /\ (b + n) % W = IF b + n < W THEN b + n ELSE (b + n) - W
  <1>1. ASSUME n <= b PROVE (b - n) % W = b - n
    <2>1. b - n \in 0..(W - 1)
      BY <1>1
    <2> QED
      BY <2>1, SmallMod
  <1>2. ASSUME ~(n <= b) PROVE (b - n) % W = (b - n) + W
    <2>1. b - n \in Int /\ -1 \in Int /\ (b - n) + W \in 0..(W - 1)
          /\ b - n = W * (-1) + ((b - n) + W)
      BY <1>2
    <2> QED
      BY <2>1, DivModUnique
  <1>3. ASSUME b + n < W PROVE (b + n) % W = b + n
    <2>1. b + n \in 0..(W - 1)
      BY <1>3
    <2> QED
      BY <2>1, SmallMod
  <1>4. ASSUME ~(b + n < W) PROVE (b + n) % W = (b + n) - W
    <2>1. b + n \in Int /\ 1 \in Int /\ (b + n) - W \in 0..(W - 1)
          /\ b + n = W * 1 + ((b + n) - W)
      BY <1>4
    <2> QED
      BY <2>1, DivModUnique
  <1> QED
    BY <1>1, <1>2, <1>3, <1>4

LEMMA ShiftedBitIs ==
  ASSUME word \in SUBSET WordBits, NEW x, NEW b, NEW W
  PROVE  LET n == Number(ShiftLen(word))
         IN  /\ ShiftedBit(x, b, W) \in BOOLEAN
             /\ ShiftField(word) = 0 => (ShiftedBit(x, b, W) <=> b - n \in x)
             /\ ShiftField(word) = 1 => (ShiftedBit(x, b, W) <=> b + n < W /\ b + n \in x)
             /\ ShiftField(word) = 2 =>
                   (ShiftedBit(x, b, W) <=> (IF b + n < W THEN b + n ELSE W - 1) \in x)
             /\ ShiftField(word) = 3 => (ShiftedBit(x, b, W) <=> (b + n) % W \in x)
  <1> DEFINE n == Number(ShiftLen(word))
             p0 == b - n \in x
             p1 == b + n < W /\ b + n \in x
             p2 == (IF b + n < W THEN b + n ELSE W - 1) \in x
             p3 == (b + n) % W \in x
             s == ShiftField(word)
  <1>1. ShiftedBit(x, b, W) = CASE s = 0 -> p0 [] s = 1 -> p1 [] s = 2 -> p2 [] s = 3 -> p3
    BY Zenon DEF ShiftedBit
  <1>2. p0 \in BOOLEAN /\ p1 \in BOOLEAN /\ p2 \in BOOLEAN /\ p3 \in BOOLEAN
    OBVIOUS
  <1>3. s \in {0, 1, 2, 3}
    BY FieldNumbers
  <1> HIDE DEF p0, p1, p2, p3, s
  <1>4. /\ s = 0 => ShiftedBit(x, b, W) = p0
        /\ s = 1 => ShiftedBit(x, b, W) = p1
        /\ s = 2 => ShiftedBit(x, b, W) = p2
        /\ s = 3 => ShiftedBit(x, b, W) = p3
    BY <1>1
  <1>5. ShiftedBit(x, b, W) \in BOOLEAN
    BY <1>2, <1>3, <1>4
  <1> QED
    BY <1>2, <1>4, <1>5 DEF p0, p1, p2, p3, s

LEMMA ShiftValue ==
  ASSUME word \in SUBSET WordBits, NEW W \in Nat \ {0}, NEW x \in SUBSET Nat, NEW y,
         Number(y) = Number(ShiftLen(word)), Number(y) \in 0..(W - 1)
  PROVE  Apply(ShiftOp, x \cap (0..(W - 1)), y, W) =
            {b \in 0..(W - 1) : ShiftedBit(x, b, W)}
  <1> DEFINE n == Number(y)
             B == 0..(W - 1)
             z == x \cap B
             high == {b - n : b \in z} \cap Nat
  <1>1. n \in 0..(W - 1) /\ n = Number(ShiftLen(word))
    OBVIOUS
  <1>2. ShiftField(word) \in {0, 1, 2, 3}
    BY FieldNumbers
  <1>3. /\ Apply("LSL", z, y, W) = {b + n : b \in z} \cap B
        /\ Apply("LSR", z, y, W) = high
        /\ Apply("ASR", z, y, W) = high \cup (IF W - 1 \in z THEN (W - n)..(W - 1) ELSE {})
        /\ Apply("ROR", z, y, W) = {(b - n) % W : b \in z}
    BY DEF Apply
  <1>4. ASSUME NEW b
        PROVE  /\ ShiftField(word) = 0 => (ShiftedBit(x, b, W) <=> b - n \in x)
               /\ ShiftField(word) = 1 => (ShiftedBit(x, b, W) <=> b + n < W /\ b + n \in x)
               /\ ShiftField(word) = 2 =>
                     (ShiftedBit(x, b, W) <=> (IF b + n < W THEN b + n ELSE W - 1) \in x)
               /\ ShiftField(word) = 3 => (ShiftedBit(x, b, W) <=> (b + n) % W \in x)
    BY <1>1, ShiftedBitIs
  <1> HIDE DEF n, high
  <1>5. CASE ShiftField(word) = 0
    <2>1. ShiftOp = "LSL"
      BY <1>5 DEF ShiftOp, shift_type_table
    <2>2. {b + n : b \in z} \cap B = {b \in B : b - n \in x}
      <3>1. \A b \in B : b - n \in x => b - n \in z /\ b = (b - n) + n
        BY <1>1
      <3>2. \A b \in z : (b + n) - n = b
        BY <1>1
      <3> QED
        BY <1>1, <3>1, <3>2
    <2> QED
      BY <1>3, <1>4, <1>5, <2>1, <2>2
  <1>6. \A b \in Nat : b \in high <=> b + n \in x /\ b + n < W
    <2>1. ASSUME NEW b \in Nat, b \in high
          PROVE  b + n \in x /\ b + n < W
      <3>1. PICK c \in z : b = c - n
        BY <2>1 DEF high
      <3>2. b + n = c /\ c \in x /\ c < W
        BY <1>1, <3>1
      <3> QED
        BY <3>2
    <2>2. ASSUME NEW b \in Nat, b + n \in x, b + n < W
          PROVE  b \in high
      <3>1. b + n \in z /\ b = (b + n) - n
        BY <1>1, <2>2
      <3> QED
        BY <3>1 DEF high
    <2> QED
      BY <2>1, <2>2
  <1>7. CASE ShiftField(word) = 1
    <2>1. ShiftOp = "LSR"
      BY <1>7 DEF ShiftOp, shift_type_table
    <2>2. high \subseteq Nat
      BY DEF high
    <2>3. high = {b \in B : b + n < W /\ b + n \in x}
      <3>1. \A b \in B : b \in Nat
        OBVIOUS
      <3>2. \A b \in high : b \in B
        BY <1>1, <1>6, <2>2
      <3> HIDE DEF B, z
      <3> QED
        BY <1>6, <2>2, <3>1, <3>2
    <2> QED
      BY <1>3, <1>4, <1>7, <2>1, <2>3
  <1>8. CASE ShiftField(word) = 2
    <2>1. ShiftOp = "ASR"
      BY <1>8 DEF ShiftOp, shift_type_table
    <2>2. high \subseteq Nat
      BY DEF high
    <2>3. high \cup (IF W - 1 \in z THEN (W - n)..(W - 1) ELSE {}) =
             {b \in B : (IF b + n < W THEN b + n ELSE W - 1) \in x}
      <3>1. \A b \in high : b \in B
        BY <1>1, <1>6, <2>2
      <3>2. \A b \in B : b + n < W =>
               (b \in high <=> b + n \in x) /\ b \notin (W - n)..(W - 1)
        BY <1>1, <1>6
      <3>3. \A b \in B : ~(b + n < W) => b \notin high /\ b \in (W - n)..(W - 1)
        BY <1>1, <1>6
      <3>4. W - 1 \in z <=> W - 1 \in x
        OBVIOUS
      <3>5. (W - n)..(W - 1) \subseteq B
        BY <1>1
      <3> HIDE DEF z, B
      <3> QED
        BY <3>1, <3>2, <3>3, <3>4, <3>5
    <2> QED
      BY <1>3, <1>4, <1>8, <2>1, <2>3
  <1>9. CASE ShiftField(word) = 3
    <2>1. ShiftOp = "ROR"
      BY <1>9 DEF ShiftOp, shift_type_table
    <2>2. {(b - n) % W : b \in z} = {b \in B : (b + n) % W \in x}
      <3>1. ASSUME NEW b \in z
            PROVE  (b - n) % W \in B /\ (((b - n) % W) + n) % W = b
        <4> DEFINE c == (b - n) % W
        <4>1. c = (IF n <= b THEN b - n ELSE (b - n) + W) /\ c \in B
          BY <1>1, Turned
        <4> HIDE DEF c
        <4>2. (c + n) % W = IF c + n < W THEN c + n ELSE (c + n) - W
          BY <1>1, <4>1, Turned
        <4>3. (c + n) % W = b
          BY <1>1, <4>1, <4>2
        <4> QED
          BY <4>1, <4>3 DEF c
      <3>2. ASSUME NEW b \in B
            PROVE  (b + n) % W \in B /\ b = (((b + n) % W) - n) % W
        <4> DEFINE c == (b + n) % W
        <4>1. c = (IF b + n < W THEN b + n ELSE (b + n) - W) /\ c \in B
          BY <1>1, Turned
        <4> HIDE DEF c
        <4>2. (c - n) % W = IF n <= c THEN c - n ELSE (c - n) + W
          BY <1>1, <4>1, Turned
        <4>3. (c - n) % W = b
          BY <1>1, <4>1, <4>2
        <4> QED
          BY <4>1, <4>3 DEF c
      <3>3. ASSUME NEW c \in {(b - n) % W : b \in z}
            PROVE  c \in B /\ (c + n) % W \in x
        BY <3>1
      <3>4. ASSUME NEW b \in B, (b + n) % W \in x
            PROVE  b \in {(c - n) % W : c \in z}
        BY <3>2, <3>4
      <3> QED
        BY <3>3, <3>4
    <2> QED
      BY <1>3, <1>4, <1>9, <2>1, <2>2
  <1> QED
    BY <1>2, <1>5, <1>7, <1>8, <1>9

LEMMA LogicalBitIs ==
  ASSUME NEW p \in BOOLEAN, NEW q \in BOOLEAN
  PROVE  /\ OpField(word) \in {0, 3} => (LogicalBit(p, q) <=> p /\ q)
         /\ OpField(word) = 1 => (LogicalBit(p, q) <=> p \/ q)
         /\ OpField(word) = 2 => (LogicalBit(p, q) <=> ~(p <=> q))
  <1> DEFINE p0 == p /\ q
             p1 == p \/ q
             p2 == p # q
             s == OpField(word)
  <1>1. LogicalBit(p, q) = CASE s \in {0, 3} -> p0 [] s = 1 -> p1 [] s = 2 -> p2
    BY Zenon DEF LogicalBit
  <1>2. p0 \in BOOLEAN /\ p1 \in BOOLEAN /\ p2 \in BOOLEAN /\ (p2 <=> ~(p <=> q))
    OBVIOUS
  <1> HIDE DEF p0, p1, p2, s
  <1>3. /\ s \in {0, 3} => LogicalBit(p, q) = p0
        /\ s = 1 => LogicalBit(p, q) = p1
        /\ s = 2 => LogicalBit(p, q) = p2
    BY <1>1
  <1> QED
    BY <1>2, <1>3 DEF p0, p1, s

(* y is the set of the positions where f holds. *)
LEMMA LogicalValue ==
  ASSUME word \in SUBSET WordBits, NEW W \in Nat \ {0}, NEW x, NEW y \in SUBSET (0..(W - 1)),
         NEW f \in [0..(W - 1) -> BOOLEAN], \A b \in 0..(W - 1) : b \in y <=> f[b]
  PROVE  Apply(LogicalOp, x \cap (0..(W - 1)), y, W) =
            {b \in 0..(W - 1) : LogicalBit(b \in x, f[b])}
  <1> DEFINE B == 0..(W - 1)
             v == x \cap B
  <1>1. OpField(word) \in {0, 1, 2, 3}
    BY FieldNumbers, SMTT(30)
  <1>2. /\ OpField(word) \in {0, 3} => LogicalOp = "AND"
        /\ OpField(word) = 1 => LogicalOp = "OR"
        /\ OpField(word) = 2 => LogicalOp = "XOR"
    BY DEF LogicalOp, bitwise_op_table
  <1>3. /\ Apply("AND", v, y, W) = v \cap y
        /\ Apply("OR", v, y, W) = v \cup y
        /\ Apply("XOR", v, y, W) = (v \cup y) \ (v \cap y)
    BY DEF Apply
  <1>4. ASSUME NEW b \in B
        PROVE  /\ OpField(word) \in {0, 3} =>
                     (LogicalBit(b \in x, f[b]) <=> b \in x /\ f[b])
               /\ OpField(word) = 1 => (LogicalBit(b \in x, f[b]) <=> b \in x \/ f[b])
               /\ OpField(word) = 2 => (LogicalBit(b \in x, f[b]) <=> ~(b \in x <=> f[b]))
    <2>1. (b \in x) \in BOOLEAN /\ f[b] \in BOOLEAN
      OBVIOUS
    <2> QED
      BY <2>1, LogicalBitIs, Zenon
  <1> QED
    BY <1>1, <1>2, <1>3, <1>4

-----------------------------------------------------------------------------
(* The instructions. *)

LEMMA RegistersAre ==
  ASSUME NEW regs \in RegFiles, NEW r \in 0..31
  PROVE  RegValue(regs, r) \in SUBSET (0..63)
  <1>1. regs \in cpu_ctx
    BY DecoderAssumption
  <1>2. regs.r \in [0..30 -> SUBSET (0..63)]
    BY <1>1 DEF cpu_ctx
  <1>3. CASE r = 31
    BY <1>3 DEF RegValue
  <1>4. CASE r # 31
    BY <1>2, <1>4 DEF RegValue
  <1> QED
    BY <1>3, <1>4

LEMMA RegWidthIs == RegWidth \in {32, 64} /\ (Is64(word) <=> RegWidth = 64)
  BY DEF RegWidth

LEMMA ShiftFits ==
  ASSUME word \in SUBSET WordBits, ~ShiftTooLong
  PROVE  /\ ShiftLen(word) \cap (0..(RegWidth - 1)) = ShiftLen(word)
         /\ Number(ShiftLen(word)) \in 0..(RegWidth - 1)
  <1>1. ShiftLen(word) \in SUBSET (0..5) /\ Number(ShiftLen(word)) \in 0..63
    BY ShiftBits, FieldNumbers DEF ShiftLen
  <1>2. CASE Is64(word)
    BY <1>1, <1>2, RegWidthIs
  <1>3. CASE ~Is64(word)
    <2>1. 5 \notin ShiftLen(word) /\ RegWidth = 32
      BY <1>3, RegWidthIs DEF ShiftTooLong
    <2>2. ShiftLen(word) \in SUBSET (0..(5 - 1))
      BY <1>1, <2>1
    <2>3. Number(ShiftLen(word)) \in 0..(2^5 - 1)
      BY <2>2, NumberBound
    <2>4. Number(ShiftLen(word)) \in 0..31
      BY <2>3, SmallPowers
    <2> QED
      BY <2>1, <2>2, <2>4
  <1> QED
    BY <1>2, <1>3

(* The second operand before its negation. *)
SecondValue(x) ==
    IF ShiftLen(word) = {} THEN x \cap (0..(RegWidth - 1))
    ELSE Apply(ShiftOp, x \cap (0..(RegWidth - 1)),
               ShiftLen(word) \cap (0..(RegWidth - 1)), RegWidth)

LEMMA SecondIsShifted ==
  ASSUME word \in SUBSET WordBits, ~ShiftTooLong, NEW x \in SUBSET (0..63)
  PROVE  SecondValue(x) = {b \in 0..(RegWidth - 1) : ShiftedBit(x, b, RegWidth)}
  <1>1. RegWidth \in Nat \ {0} /\ x \in SUBSET Nat
    BY RegWidthIs
  <1>2. CASE ShiftLen(word) # {}
    <2> DEFINE y == ShiftLen(word)
    <2>1. y \cap (0..(RegWidth - 1)) = y /\ Number(y) \in 0..(RegWidth - 1)
      BY ShiftFits
    <2>2. Apply(ShiftOp, x \cap (0..(RegWidth - 1)), y, RegWidth) =
             {b \in 0..(RegWidth - 1) : ShiftedBit(x, b, RegWidth)}
      BY <1>1, <2>1, ShiftValue
    <2>3. SecondValue(x) = Apply(ShiftOp, x \cap (0..(RegWidth - 1)),
                                 y \cap (0..(RegWidth - 1)), RegWidth)
      BY <1>2 DEF SecondValue
    <2> QED
      BY <2>1, <2>2, <2>3
  <1>3. CASE ShiftLen(word) = {}
    <2>1. Number(ShiftLen(word)) = 0
      BY <1>3, NumberEmpty
    <2>2. ShiftField(word) \in {0, 1, 2, 3}
      BY FieldNumbers
    <2>3. ASSUME NEW b \in 0..(RegWidth - 1)
          PROVE  ShiftedBit(x, b, RegWidth) <=> b \in x
      <3>1. b - 0 = b /\ b + 0 = b /\ b + 0 < RegWidth
        BY <1>1
      <3>2. (b + 0) % RegWidth = b
        BY <1>1, <3>1, SmallMod
      <3> QED
        BY <2>1, <2>2, <3>1, <3>2, ShiftedBitIs
    <2>4. SecondValue(x) = x \cap (0..(RegWidth - 1))
      BY <1>3 DEF SecondValue
    <2> QED
      BY <2>3, <2>4
  <1> QED
    BY <1>2, <1>3

LEMMA LogicalShiftRight ==
  ASSUME DecodeInv, Decoded(LogicalShift), NEW regs \in RegFiles
  PROVE  LET n == RegValue(regs, Rn(word))
             m == RegValue(regs, Rm(word))
         IN  Result(regs, RegWidth) =
                {b \in 0..(RegWidth - 1) :
                    LogicalBit(b \in n, ShiftedBit(m, b, RegWidth) # (21 \in word))}
  <1> DEFINE W == RegWidth
             B == 0..(W - 1)
             n == RegValue(regs, Rn(word))
             m == RegValue(regs, Rm(word))
             f == [b \in B |-> ShiftedBit(m, b, W) # (21 \in word)]
             v == SecondValue(m)
             y == IF 21 \in word THEN B \ v ELSE v
  <1>1. word \in SUBSET WordBits /\ status = "done" /\ Class(word) = LogicalShift
    BY DEF Decoded, DecodeInv, Sorted
  <1>2. ~ShiftTooLong
    BY <1>1 DEF DecodeInv, Sorted, Answered
  <1>3. W \in Nat \ {0} /\ m \in SUBSET (0..63)
    BY <1>1, RegWidthIs, FieldNumbers, RegistersAre
  <1>4. v = {b \in B : ShiftedBit(m, b, W)}
    BY <1>1, <1>2, <1>3, SecondIsShifted
  <1>5. \A b \in B : ShiftedBit(m, b, W) \in BOOLEAN
    BY <1>1, ShiftedBitIs
  <1>6. f \in [B -> BOOLEAN]
    OBVIOUS
  <1>7. ASSUME NEW b \in B
        PROVE  b \in y <=> f[b]
    <2>1. f[b] = (ShiftedBit(m, b, W) # (21 \in word))
      OBVIOUS
    <2>2. (21 \in word) \in BOOLEAN /\ ShiftedBit(m, b, W) \in BOOLEAN
      BY <1>5
    <2>3. (ShiftedBit(m, b, W) # (21 \in word)) <=> ~(ShiftedBit(m, b, W) <=> 21 \in word)
      BY <2>2, Zenon
    <2>4. f[b] <=> ~(ShiftedBit(m, b, W) <=> 21 \in word)
      BY <2>1, <2>3, Zenon
    <2>5. b \in y <=> ~(ShiftedBit(m, b, W) <=> 21 \in word)
      <3>1. b \in v <=> ShiftedBit(m, b, W)
        BY <1>4
      <3> HIDE DEF v
      <3> QED
        BY <3>1
    <2> QED
      BY <2>4, <2>5, Zenon
  <1>8. LogicalOp # "NEG" /\ ShiftOp # "NEG"
    <2>1. OpField(word) \in {0, 1, 2, 3} /\ ShiftField(word) \in {0, 1, 2, 3}
      BY <1>1, FieldNumbers
    <2> QED
      BY <2>1 DEF LogicalOp, ShiftOp, bitwise_op_table, shift_type_table
  <1>9. Result(regs, W) = Apply(LogicalOp, n \cap B, y, W)
    <2> DEFINE rn == Register(Rn(word))
               rm == Register(Rm(word))
               imm == Imm(ShiftLen(word))
    <2>1. /\ IsLeaf(rn) /\ IsLeaf(rm) /\ IsLeaf(imm)
          /\ LeafValue(rn, regs, W) = n \cap B
          /\ LeafValue(rm, regs, W) = m \cap B
          /\ LeafValue(imm, regs, W) = ShiftLen(word) \cap B
      BY LeafIs, ZenonT(30)
    <2>2. \A u : Apply("NEG", u, {}, W) = B \ u
      BY DEF Apply
    <2>3. /\ ShiftLen(word) = {} /\ 21 \notin word => Flat(rn, rm, LogicalOp)
          /\ ShiftLen(word) # {} /\ 21 \notin word => OneDeep(rm, imm, ShiftOp, rn, LogicalOp)
          /\ ShiftLen(word) = {} /\ 21 \in word => OneDeep(rm, Blank, "NEG", rn, LogicalOp)
          /\ ShiftLen(word) # {} /\ 21 \in word =>
                TwoDeep(rm, imm, ShiftOp, Blank, "NEG", rn, LogicalOp)
      BY <1>1, LogicalShiftTree
    <2> HIDE DEF rn, rm, imm
    <2>4. /\ ShiftLen(word) = {} => v = m \cap B
          /\ ShiftLen(word) # {} => v = Apply(ShiftOp, m \cap B, ShiftLen(word) \cap B, W)
      BY DEF SecondValue
    <2> HIDE DEF v, W, n, m, f
    <2>5. CASE ShiftLen(word) = {} /\ 21 \notin word
      <3>1. /\ Len(pool) = 2
            /\ ValueAt(0, regs, W) = n \cap B
            /\ ValueAt(1, regs, W) = m \cap B
            /\ ValueAt(2, regs, W) = Apply(LogicalOp, ValueAt(0, regs, W), ValueAt(1, regs, W), W)
        BY <1>8, <2>1, <2>3, <2>5, FlatValue
      <3>2. y = m \cap B
        BY <2>4, <2>5
      <3> HIDE DEF y
      <3> QED
        BY <3>1, <3>2 DEF Result
    <2>6. CASE ShiftLen(word) # {} /\ 21 \notin word
      <3>1. /\ Len(pool) = 4
            /\ ValueAt(2, regs, W) = LeafValue(rn, regs, W)
            /\ ValueAt(3, regs, W) = Apply(ShiftOp, LeafValue(rm, regs, W),
                   IF ShiftOp = "NEG" THEN {} ELSE LeafValue(imm, regs, W), W)
            /\ ValueAt(4, regs, W) = Apply(LogicalOp, ValueAt(2, regs, W), ValueAt(3, regs, W), W)
        <4>1. OneDeep(rm, imm, ShiftOp, rn, LogicalOp)
          BY <2>3, <2>6
        <4>2. IsLeaf(rn) /\ IsLeaf(rm) /\ IsLeaf(imm)
          BY <2>1
        <4> QED
          BY <1>8, <4>1, <4>2, OneDeepValue
      <3>2. y = Apply(ShiftOp, m \cap B, ShiftLen(word) \cap B, W)
        BY <2>4, <2>6
      <3> HIDE DEF y
      <3> QED
        BY <1>8, <2>1, <3>1, <3>2 DEF Result
    <2>7. CASE ShiftLen(word) = {} /\ 21 \in word
      <3>1. /\ Len(pool) = 4
            /\ ValueAt(2, regs, W) = LeafValue(rn, regs, W)
            /\ ValueAt(3, regs, W) = Apply("NEG", LeafValue(rm, regs, W), {}, W)
            /\ ValueAt(4, regs, W) = Apply(LogicalOp, ValueAt(2, regs, W), ValueAt(3, regs, W), W)
        BY <1>8, <2>1, <2>3, <2>7, OneDeepValue
      <3>2. y = B \ (m \cap B)
        BY <2>4, <2>7
      <3> HIDE DEF y
      <3> QED
        BY <2>1, <2>2, <3>1, <3>2 DEF Result
    <2>8. CASE ShiftLen(word) # {} /\ 21 \in word
      <3> DEFINE u == Apply(ShiftOp, m \cap B, ShiftLen(word) \cap B, W)
      <3>1. /\ Len(pool) = 6
            /\ ValueAt(6, regs, W) = Apply(LogicalOp, n \cap B, Apply("NEG", u, {}, W), W)
        <4>1. TwoDeep(rm, imm, ShiftOp, Blank, "NEG", rn, LogicalOp)
          BY <2>3, <2>8
        <4>2. IsLeaf(rn) /\ IsLeaf(rm) /\ IsLeaf(imm)
          BY <2>1
        <4>3. /\ Len(pool) = 6
              /\ ValueAt(6, regs, W) =
                    Apply(LogicalOp, LeafValue(rn, regs, W),
                          Apply("NEG", Apply(ShiftOp, LeafValue(rm, regs, W),
                                             LeafValue(imm, regs, W), W), {}, W), W)
          BY <1>8, <4>1, <4>2, TwoDeepValue
        <4> QED
          BY <2>1, <4>3
      <3>2. y = B \ u
        BY <2>4, <2>8
      <3> HIDE DEF y, u
      <3> QED
        BY <2>2, <3>1, <3>2 DEF Result
    <2> QED
      BY <2>5, <2>6, <2>7, <2>8
  <1>10. y \in SUBSET B
    BY <1>4
  <1>11. Apply(LogicalOp, n \cap B, y, W) = {b \in B : LogicalBit(b \in n, f[b])}
    <2> HIDE DEF W, n, f, y
    <2> QED
      BY <1>1, <1>3, <1>6, <1>7, <1>10, LogicalValue
  <1>12. \A b \in B : f[b] = (ShiftedBit(m, b, W) # (21 \in word))
    OBVIOUS
  <1>13. {b \in B : LogicalBit(b \in n, f[b])} =
            {b \in B : LogicalBit(b \in n, ShiftedBit(m, b, W) # (21 \in word))}
    <2> HIDE DEF f, B, W, n, m
    <2> QED
      BY <1>12, Zenon
  <1> QED
    BY <1>9, <1>11, <1>13

LEMMA OpsAreBinary ==
  ASSUME word \in SUBSET WordBits
  PROVE  LogicalOp # "NEG" /\ ShiftOp # "NEG" /\ AddOrSub(word) # "NEG"
  <1>1. OpField(word) \in {0, 1, 2, 3} /\ ShiftField(word) \in {0, 1, 2, 3}
    BY FieldNumbers
  <1> QED
    BY <1>1 DEF LogicalOp, ShiftOp, bitwise_op_table, shift_type_table, AddOrSub

LEMMA LogicalImmRight ==
  ASSUME DecodeInv, Decoded(LogicalImm), NEW regs \in RegFiles
  PROVE  Result(regs, 32) = LogicalImmValue(regs, 32)
  <1> DEFINE B == 0..(32 - 1)
             n == RegValue(regs, Rn(word))
             wanted == Asl!Mask(Asl!R)
             f == [b \in B |-> b \in wanted]
             rn == Register(Rn(word))
             imm == Imm(ImmVal)
  <1>1. word \in SUBSET WordBits /\ status = "done" /\ Class(word) = LogicalImm
    BY DEF Decoded, DecodeInv, Sorted
  <1>2. pattern = wanted
    <2>1. pc = "done" /\ Mask!MaskInv
      BY <1>1 DEF DecodeInv, Sorted, Answered
    <2>2. /\ turns = Mask!R /\ size = Mask!Width
          /\ pattern \cap 0..(size - 1) = Mask!Mask(turns) \cap 0..(size - 1)
      BY <2>1 DEF Mask!MaskInv, Mask!Turning
    <2>3. /\ pattern \subseteq 0..(Mask!Width - 1)
          /\ Mask!Mask(Mask!R) \subseteq 0..(Mask!Width - 1)
      BY <2>1 DEF Mask!MaskInv, Mask!TypeOK, Mask!Mask, Mask!Bits
    <2>4. pattern = Mask!Mask(Mask!R)
      BY <2>2, <2>3
    <2> QED
      BY <2>4, SameMask
  <1>3. Flat(rn, imm, LogicalOp)
    BY <1>1, LogicalImmTree
  <1>4. /\ IsLeaf(rn) /\ LeafValue(rn, regs, 32) = n \cap B
        /\ IsLeaf(imm) /\ LeafValue(imm, regs, 32) = ImmVal \cap B
    <2> DEFINE W == 32
    <2>1. B = 0..(W - 1)
      OBVIOUS
    <2> HIDE DEF W, B, n
    <2>2. /\ IsLeaf(Register(Rn(word)))
          /\ LeafValue(Register(Rn(word)), regs, W) = RegValue(regs, Rn(word)) \cap (0..(W - 1))
      BY LeafIs
    <2>3. /\ IsLeaf(Imm(ImmVal))
          /\ LeafValue(Imm(ImmVal), regs, W) = ImmVal \cap (0..(W - 1))
      BY LeafIs
    <2> QED
      BY <2>1, <2>2, <2>3 DEF W, n
  <1>5. LogicalOp # "NEG"
    BY <1>1, OpsAreBinary
  <1>6. B = WordBits
    BY DEF WordBits
  <1>7. ImmVal \cap B = wanted \cap B
    BY <1>2, <1>6 DEF ImmVal
  <1> HIDE DEF rn, imm, n, wanted
  <1>8. Result(regs, 32) = Apply(LogicalOp, n \cap B, wanted \cap B, 32)
    <2>1. /\ Len(pool) = 2
          /\ ValueAt(0, regs, 32) = LeafValue(rn, regs, 32)
          /\ ValueAt(1, regs, 32) = LeafValue(imm, regs, 32)
          /\ ValueAt(2, regs, 32) =
                Apply(LogicalOp, ValueAt(0, regs, 32), ValueAt(1, regs, 32), 32)
      BY <1>3, <1>4, <1>5, FlatValue
    <2> QED
      BY <1>4, <1>7, <2>1 DEF Result
  <1>9. wanted \cap B \in SUBSET B /\ f \in [B -> BOOLEAN]
    OBVIOUS
  <1>10. \A b \in B : b \in wanted \cap B <=> f[b]
    OBVIOUS
  <1>11. \A b \in B : f[b] = (b \in wanted)
    OBVIOUS
  <1> HIDE DEF f
  <1>12. Apply(LogicalOp, n \cap B, wanted \cap B, 32) = {b \in B : LogicalBit(b \in n, f[b])}
    <2> DEFINE W == 32
               y == wanted \cap B
    <2>1. W \in Nat \ {0} /\ B = 0..(W - 1)
      OBVIOUS
    <2>2. y \in SUBSET B /\ \A b \in B : b \in y <=> f[b]
      BY <1>9, <1>10
    <2> HIDE DEF W, B, y
    <2>3. /\ y \in SUBSET (0..(W - 1)) /\ f \in [0..(W - 1) -> BOOLEAN]
          /\ \A b \in 0..(W - 1) : b \in y <=> f[b]
      BY <1>9, <2>1, <2>2
    <2>4. Apply(LogicalOp, n \cap (0..(W - 1)), y, W) =
             {b \in 0..(W - 1) : LogicalBit(b \in n, f[b])}
      BY <1>1, <2>1, <2>3, LogicalValue
    <2>5. Apply(LogicalOp, n \cap B, y, W) = {b \in B : LogicalBit(b \in n, f[b])}
      BY <2>1, <2>4
    <2> QED
      BY <2>5 DEF W, y
  <1> HIDE DEF B
  <1>13. {b \in B : LogicalBit(b \in n, f[b])} = {b \in B : LogicalBit(b \in n, b \in wanted)}
    BY <1>11, Zenon
  <1> QED
    BY <1>8, <1>12, <1>13 DEF LogicalImmValue, B, n, wanted

(* LogicalRight: the trees decoded for the logical instructions have, for all *)
(* register contents, the values that A64 gives them -- on shifted registers  *)
(* at full width, on immediates in the low 32 bits.                           *)
THEOREM LogicalTreesAreRight == Spec => []LogicalRight
  <1>1. DecodeInv => LogicalRight
    <2> SUFFICES ASSUME DecodeInv PROVE LogicalRight
      OBVIOUS
    <2>1. ASSUME Decoded(LogicalShift), NEW regs \in RegFiles
          PROVE  LET n == RegValue(regs, Rn(word))
                     m == RegValue(regs, Rm(word))
                 IN  Result(regs, RegWidth) =
                        {b \in 0..(RegWidth - 1) :
                            LogicalBit(b \in n, ShiftedBit(m, b, RegWidth) # (21 \in word))}
      BY <2>1, LogicalShiftRight
    <2>2. ASSUME Decoded(LogicalImm), NEW regs \in RegFiles
          PROVE  Result(regs, 32) = LogicalImmValue(regs, 32)
      BY <2>2, LogicalImmRight
    <2> QED
      BY <2>1, <2>2, Zenon DEF LogicalRight
  <1> QED
    BY <1>1, DecodeInvariant, PTL

LEMMA AddSubShiftRight ==
  ASSUME DecodeInv, Decoded(AddSubShift), NEW regs \in RegFiles
  PROVE  LET n == RegValue(regs, Rn(word))
             m == RegValue(regs, Rm(word))
             Bits == 0..(RegWidth - 1)
         IN  /\ ValueAt(instr.expr.left, regs, RegWidth) = n \cap Bits
             /\ ValueAt(instr.expr.right, regs, RegWidth) =
                   {b \in Bits : ShiftedBit(m, b, RegWidth)}
  <1> DEFINE W == RegWidth
             B == 0..(W - 1)
             n == RegValue(regs, Rn(word))
             m == RegValue(regs, Rm(word))
             rn == Register(Rn(word))
             rm == Register(Rm(word))
             imm == Imm(ShiftLen(word))
             op == AddOrSub(word)
             v == SecondValue(m)
  <1>1. word \in SUBSET WordBits /\ status = "done" /\ Class(word) = AddSubShift
    BY DEF Decoded, DecodeInv, Sorted
  <1>2. ~ShiftTooLong
    BY <1>1 DEF DecodeInv, Sorted, Answered
  <1>3. m \in SUBSET (0..63)
    BY <1>1, FieldNumbers, RegistersAre
  <1>4. v = {b \in B : ShiftedBit(m, b, W)}
    BY <1>1, <1>2, <1>3, SecondIsShifted
  <1>5. /\ ShiftLen(word) = {} => Flat(rn, rm, op)
        /\ ShiftLen(word) # {} => OneDeep(rm, imm, ShiftOp, rn, op)
    BY <1>1, AddSubShiftTree
  <1>6. op # "NEG" /\ ShiftOp # "NEG"
    BY <1>1, OpsAreBinary
  <1>7. /\ IsLeaf(rn) /\ IsLeaf(rm) /\ IsLeaf(imm)
        /\ LeafValue(rn, regs, W) = n \cap B
        /\ LeafValue(rm, regs, W) = m \cap B
        /\ LeafValue(imm, regs, W) = ShiftLen(word) \cap B
    BY LeafIs, ZenonT(30)
  <1>8. /\ ShiftLen(word) = {} => v = m \cap B
        /\ ShiftLen(word) # {} => v = Apply(ShiftOp, m \cap B, ShiftLen(word) \cap B, W)
    BY DEF SecondValue
  <1> HIDE DEF rn, rm, imm, op, n, m, v, W
  <1>9. CASE ShiftLen(word) = {}
    <2>1. Flat(rn, rm, op)
      BY <1>5, <1>9
    <2>2. /\ instr.expr.left = 0 /\ instr.expr.right = 1
          /\ ValueAt(0, regs, W) = LeafValue(rn, regs, W)
          /\ ValueAt(1, regs, W) = LeafValue(rm, regs, W)
      BY <1>6, <1>7, <2>1, FlatValue
    <2> QED
      BY <1>4, <1>7, <1>8, <1>9, <2>2 DEF W, n, m
  <1>10. CASE ShiftLen(word) # {}
    <2>1. OneDeep(rm, imm, ShiftOp, rn, op)
      BY <1>5, <1>10
    <2>2. /\ instr.expr.left = 2 /\ instr.expr.right = 3
          /\ ValueAt(2, regs, W) = LeafValue(rn, regs, W)
          /\ ValueAt(3, regs, W) = Apply(ShiftOp, LeafValue(rm, regs, W),
                IF ShiftOp = "NEG" THEN {} ELSE LeafValue(imm, regs, W), W)
      <3>1. IsLeaf(rn) /\ IsLeaf(rm) /\ IsLeaf(imm)
        BY <1>7
      <3> QED
        BY <1>6, <2>1, <3>1, OneDeepValue
    <2>3. ValueAt(3, regs, W) = v
      BY <1>6, <1>7, <1>8, <1>10, <2>2
    <2> QED
      BY <1>4, <1>7, <2>2, <2>3 DEF W, n, m
  <1> QED
    BY <1>9, <1>10

LEMMA AddSubImmRight ==
  ASSUME DecodeInv, Decoded(AddSubImm), ShiftField(word) <= 1, NEW regs \in RegFiles
  PROVE  LET Bits == 0..(RegWidth - 1)
         IN  /\ ValueAt(instr.expr.left, regs, RegWidth) = RegValue(regs, Rn(word)) \cap Bits
             /\ ValueAt(instr.expr.right, regs, RegWidth) =
                   {b \in Bits : b - 12 * ShiftField(word) \in Region(word, 10, 21)}
  <1> DEFINE W == RegWidth
             B == 0..(W - 1)
             n == RegValue(regs, Rn(word))
             bits == Region(word, 10, 21)
             rn == Register(Rn(word))
             imm == Imm(bits)
             twelve == Imm({3, 2})
             op == AddOrSub(word)
             k == ShiftField(word)
  <1>1. word \in SUBSET WordBits /\ status = "done" /\ Class(word) = AddSubImm
    BY DEF Decoded, DecodeInv, Sorted
  <1>2. W \in {32, 64}
    BY RegWidthIs
  <1>3. bits \in SUBSET (0..11)
    <2>1. 21 - 10 = 11
      OBVIOUS
    <2> QED
      BY <1>1, <2>1, RegionBit
  <1>4. k \in {0, 1} /\ (k = 1 <=> Region(word, 22, 23) = {0})
    <2>1. k = (IF 22 \in word THEN 1 ELSE 0) + (IF 23 \in word THEN 2 ELSE 0)
      BY <1>1, FieldNumbers
    <2>2. 23 \notin word /\ k \in {0, 1} /\ (k = 1 <=> 22 \in word)
      BY <2>1
    <2>3. /\ Region(word, 22, 23) \in SUBSET (0..1)
          /\ 0 \in Region(word, 22, 23) <=> 22 \in word
          /\ 1 \in Region(word, 22, 23) <=> 23 \in word
      <3>1. 23 - 22 = 1 /\ 0 + 22 = 22 /\ 1 + 22 = 23
        OBVIOUS
      <3> QED
        BY <1>1, <3>1, RegionBit
    <2>4. \A b \in 0..1 : b = 0 \/ b = 1
      OBVIOUS
    <2> QED
      BY <2>2, <2>3, <2>4
  <1>5. op # "NEG"
    BY <1>1, OpsAreBinary
  <1>6. /\ IsLeaf(rn) /\ IsLeaf(imm) /\ IsLeaf(twelve)
        /\ LeafValue(rn, regs, W) = n \cap B
        /\ LeafValue(imm, regs, W) = bits \cap B
        /\ LeafValue(twelve, regs, W) = {3, 2} \cap B
    BY LeafIs, ZenonT(30)
  <1>7. {3, 2} \cap B = {3, 2}
    BY <1>2
  <1>8. /\ k = 1 => OneDeep(imm, twelve, "LSL", rn, op)
        /\ k = 0 => Flat(rn, imm, op)
    BY <1>1, <1>4, AddSubImmTree
  <1> HIDE DEF W, n, bits, rn, imm, twelve, op, k
  <1>9. CASE k = 0
    <2>1. /\ instr.expr.left = 0 /\ instr.expr.right = 1
          /\ ValueAt(0, regs, W) = LeafValue(rn, regs, W)
          /\ ValueAt(1, regs, W) = LeafValue(imm, regs, W)
      BY <1>5, <1>6, <1>8, <1>9, FlatValue
    <2>2. bits \cap B = {b \in B : b - 12 * k \in bits}
      <3>1. \A b \in B : b - 12 * k = b
        BY <1>2, <1>9
      <3> QED
        BY <3>1
    <2> QED
      BY <1>6, <2>1, <2>2 DEF W, n, bits, k
  <1>10. CASE k = 1
    <2>1. /\ instr.expr.left = 2 /\ instr.expr.right = 3
          /\ ValueAt(2, regs, W) = LeafValue(rn, regs, W)
          /\ ValueAt(3, regs, W) = Apply("LSL", LeafValue(imm, regs, W),
                                         LeafValue(twelve, regs, W), W)
      <3>1. OneDeep(imm, twelve, "LSL", rn, op)
        BY <1>8, <1>10
      <3>2. IsLeaf(rn) /\ IsLeaf(imm) /\ IsLeaf(twelve)
        BY <1>6
      <3> DEFINE lsl == "LSL"
      <3>3. lsl # "NEG"
        OBVIOUS
      <3>4. OneDeep(imm, twelve, lsl, rn, op)
        BY <3>1
      <3> HIDE DEF lsl
      <3>5. /\ instr.expr.left = 2 /\ instr.expr.right = 3
            /\ ValueAt(2, regs, W) = LeafValue(rn, regs, W)
            /\ ValueAt(3, regs, W) = Apply(lsl, LeafValue(imm, regs, W),
                  IF lsl = "NEG" THEN {} ELSE LeafValue(twelve, regs, W), W)
        BY <1>5, <3>2, <3>4, OneDeepValue
      <3> QED
        BY <3>3, <3>5 DEF lsl
    <2>2. Apply("LSL", bits \cap B, {3, 2}, W) = {b + 12 : b \in bits \cap B} \cap B
      BY Twelve DEF Apply
    <2>3. {b + 12 : b \in bits \cap B} \cap B = {b \in B : b - 12 * k \in bits}
      <3>1. \A b \in B : b - 12 * k = b - 12
        BY <1>2, <1>10
      <3>2. \A b \in bits : b \in B /\ (b + 12) - 12 = b
        BY <1>2, <1>3
      <3>3. \A b \in B : b - 12 \in bits => b - 12 \in B /\ b = (b - 12) + 12
        BY <1>2, <3>2
      <3> HIDE DEF B
      <3> QED
        BY <3>1, <3>2, <3>3
    <2> QED
      BY <1>6, <1>7, <2>1, <2>2, <2>3 DEF W, n, bits, k
  <1> QED
    BY <1>4, <1>9, <1>10

(* AddSubOperandsRight: the operands decoded for additions and subtractions  *)
(* have, for all register contents, the values that A64 gives them, wherever *)
(* the word is allocated and 31 is not the stack pointer.                    *)
THEOREM AddSubOperandsAreRight == Spec => []AddSubOperandsRight
  <1>1. ASSUME DecodeInv, NEW regs \in RegFiles,
               \/ Decoded(AddSubShift) /\ ShiftField(word) # 3
               \/ Decoded(AddSubImm) /\ ShiftField(word) <= 1 /\ Rn(word) # 31
        PROVE  LET n == RegValue(regs, Rn(word))
                   m == RegValue(regs, Rm(word))
                   Bits == 0..(RegWidth - 1)
               IN  /\ ValueAt(instr.expr.left, regs, RegWidth) = n \cap Bits
                   /\ ValueAt(instr.expr.right, regs, RegWidth) =
                         IF Class(word) = AddSubShift
                         THEN {b \in Bits : ShiftedBit(m, b, RegWidth)}
                         ELSE {b \in Bits : b - 12 * ShiftField(word) \in Region(word, 10, 21)}
    <2>1. CASE Decoded(AddSubShift)
      <3>1. Class(word) = AddSubShift
        BY <2>1 DEF Decoded
      <3> QED
        BY <1>1, <2>1, <3>1, AddSubShiftRight, Zenon
    <2>2. CASE Decoded(AddSubImm) /\ ShiftField(word) <= 1
      <3>1. Class(word) # AddSubShift
        BY <2>2, ClassNames DEF Decoded
      <3> QED
        BY <1>1, <2>2, <3>1, AddSubImmRight, Zenon
    <2> QED
      BY <1>1, <2>1, <2>2
  <1>2. DecodeInv => AddSubOperandsRight
    BY <1>1, Zenon DEF AddSubOperandsRight
  <1> QED
    BY <1>2, DecodeInvariant, PTL
=============================================================================

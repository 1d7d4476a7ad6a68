---------------------------- MODULE ArmAslProofs ----------------------------
(***************************************************************************)
(* DecodeBitMasks computes the mask its arguments encode and rejects those *)
(* that encode none, for every width 2^LenBits of the mask and every index *)
(* HighestBitSet can count with, ROR's stray ones and undefined shifts     *)
(* included.                                                               *)
(***************************************************************************)
EXTENDS ArmAsl, Numbers

-----------------------------------------------------------------------------
(* The bits of a number. *)

LEMMA WidthFacts ==
  /\ LenBits \in Nat \ {0}
  /\ Width \in Nat \ {0}
  /\ LenBits < Width
  /\ IndexMod \in Nat \ {0} /\ Width < IndexMod
  BY ArmAslAssumption, PowerType, PowerBig DEF Width

(* One more bit in the remainder is one less in the quotient. *)
LEMMA NextBit ==
  ASSUME NEW m \in Nat, NEW n \in Nat
  PROVE  /\ m \div 2^n = 2 * (m \div 2^(n + 1)) + ((m \div 2^n) % 2)
         /\ m % 2^(n + 1) = (m % 2^n) + 2^n * ((m \div 2^n) % 2)
  <1> DEFINE p == 2^n
             q == m \div p
             r == m % p
             h == q \div 2
             b == q % 2
  <1>1. p \in Nat \ {0} /\ 2^(n + 1) = 2 * p
    BY PowerType, PowerNext
  <1> HIDE DEF p
  <1>2. q \in Nat /\ r \in 0..(p - 1) /\ m = p * q + r
    BY <1>1, DivModNat
  <1> HIDE DEF q, r
  <1>3. h \in Nat /\ b \in {0, 1} /\ q = 2 * h + b
    BY <1>2
  <1> HIDE DEF h, b
  <1>4. m = (2 * p) * h + (p * b + r)
    <2>1. p * (2 * h + b) = (2 * p) * h + p * b
      BY <1>1, <1>3
    <2> QED
      BY <1>1, <1>2, <1>3, <2>1
  <1>5. p * b + r \in 0..(2 * p - 1) /\ 2 * p \in Nat \ {0}
    BY <1>1, <1>2, <1>3
  <1>6. m \div (2 * p) = h /\ m % (2 * p) = p * b + r
    BY <1>3, <1>4, <1>5, DivModUnique
  <1> QED
    <2>1. p * b \in Int
      BY <1>1, <1>3
    <2>2. p * b + r = r + p * b
      BY <1>2, <2>1
    <2> QED
      BY <1>1, <1>3, <1>6, <2>2 DEF p, q, r, h, b

(* A number whose bits from n on are all ones. *)
LEMMA OnesAbove ==
  ASSUME NEW L \in Nat, NEW m \in 0..(2^L - 1), NEW n \in 0..L,
         \A b \in n..(L - 1) : (m \div 2^b) % 2 # 0
  PROVE  m = 2^L - 2^n + (m % 2^n)
  <1>1. m \in Nat /\ 2^L \in Nat \ {0}
    BY PowerType
  <1> DEFINE T == {k \in Nat : k <= L - n => m \div 2^(L - k) = 2^k - 1}
  <1>2. 0 \in T
    <2>1. 2^0 = 1 /\ L - 0 = L
      OBVIOUS
    <2>2. m \div 2^L = 0
      BY <1>1, SmallMod
    <2> QED
      BY <2>1, <2>2
  <1>3. ASSUME NEW k \in T
        PROVE  k + 1 \in T
    <2> SUFFICES ASSUME k + 1 <= L - n
                 PROVE  m \div 2^(L - (k + 1)) = 2^(k + 1) - 1
      OBVIOUS
    <2> DEFINE j == L - (k + 1)
    <2>1. j \in Nat /\ j + 1 = L - k /\ k \in Nat /\ k <= L - n /\ j \in n..(L - 1)
      OBVIOUS
    <2>2. m \div 2^(j + 1) = 2^k - 1
      BY <2>1
    <2> HIDE DEF j
    <2>3. m \div 2^j = 2 * (m \div 2^(j + 1)) + ((m \div 2^j) % 2)
      BY <1>1, <2>1, NextBit
    <2>4. (m \div 2^j) % 2 = 1
      <3>1. m \div 2^j \in Nat
        BY <1>1, <2>1, PowerType, DivModNat
      <3>2. (m \div 2^j) % 2 # 0
        BY <2>1
      <3> QED
        BY <3>1, <3>2
    <2>5. 2^(k + 1) = 2 * 2^k /\ 2^k \in Nat
      BY <2>1, PowerNext, PowerType
    <2> QED
      BY <2>2, <2>3, <2>4, <2>5 DEF j
  <1>4. T = Nat
    BY <1>2, <1>3, Induct
  <1>5. L - n \in T /\ L - (L - n) = n
    <2>1. L - n \in Nat /\ L - (L - n) = n
      OBVIOUS
    <2> HIDE DEF T
    <2> QED
      BY <1>4, <2>1
  <1>6. m \div 2^n = 2^(L - n) - 1
    BY <1>5
  <1>7. 2^L = 2^n * 2^(L - n) /\ 2^n \in Nat \ {0} /\ 2^(L - n) \in Nat
    BY PowerDivides, PowerType
  <1>8. m = 2^n * (m \div 2^n) + (m % 2^n) /\ m % 2^n \in Nat
    <2> DEFINE p == 2^n
    <2>1. p \in Nat \ {0}
      BY <1>7
    <2> HIDE DEF p
    <2>2. m = p * (m \div p) + (m % p) /\ m % p \in 0..(p - 1)
      BY <1>1, <2>1, DivModNat
    <2> QED
      BY <2>1, <2>2 DEF p
  <1>9. \A x, y \in Nat : x * (y - 1) = x * y - x
    OBVIOUS
  <1>10. 2^n * (2^(L - n) - 1) = 2^L - 2^n
    BY <1>7, <1>9
  <1> QED
    BY <1>6, <1>8, <1>10

-----------------------------------------------------------------------------
(* What the highest bit of Scanned says of imms. *)

LEMMA ScannedBits == Scanned \subseteq 0..LenBits /\ 0..LenBits \subseteq Bits
  BY WidthFacts DEF Scanned, Bits

LEMMA NoneScanned ==
  ASSUME imms \in 0..(Width - 1), Scanned = {}
  PROVE  ~immN /\ imms = Width - 1
  <1>1. ~immN
    BY DEF Scanned
  <1>2. \A b \in 0..(LenBits - 1) : (imms \div 2^b) % 2 # 0
    BY DEF Scanned
  <1>3. imms = Width - 2^0 + (imms % 2^0)
    <2>1. LenBits \in Nat /\ 0 \in 0..LenBits /\ imms \in 0..(2^LenBits - 1)
      BY WidthFacts DEF Width
    <2> QED
      BY <1>2, <2>1, OnesAbove DEF Width
  <1>4. 2^0 = 1 /\ imms % 1 = 0
    OBVIOUS
  <1> QED
    BY <1>1, <1>3, <1>4, WidthFacts

LEMMA HighestScanned ==
  ASSUME imms \in 0..(Width - 1), immN \in BOOLEAN,
         NEW n \in Scanned, \A b \in Scanned : b <= n
  PROVE  \/ n = LenBits /\ immN
         \/ n \in 0..(LenBits - 1) /\ ~immN /\ imms = Width - 2 * 2^n + (imms % 2^n)
  <1>1. n \in 0..LenBits
    BY ScannedBits
  <1>2. immN => n = LenBits
    BY <1>1, WidthFacts DEF Scanned
  <1>3. ASSUME ~immN
        PROVE  n \in 0..(LenBits - 1) /\ imms = Width - 2 * 2^n + (imms % 2^n)
    <2>1. n \in 0..(LenBits - 1) /\ (imms \div 2^n) % 2 = 0
      BY <1>3 DEF Scanned
    <2>2. \A b \in (n + 1)..(LenBits - 1) : (imms \div 2^b) % 2 # 0
      BY <2>1, WidthFacts DEF Scanned
    <2>3. imms = Width - 2^(n + 1) + (imms % 2^(n + 1))
      BY <2>1, <2>2, WidthFacts, OnesAbove DEF Width
    <2>4. imms % 2^(n + 1) = imms % 2^n
      <3>1. imms % 2^(n + 1) = (imms % 2^n) + 2^n * 0
        <4>1. imms \in Nat /\ n \in Nat
          BY <2>1, WidthFacts
        <4> QED
          BY <2>1, <4>1, NextBit
      <3>2. imms % 2^n \in Nat /\ 2^n \in Nat
        BY <2>1, WidthFacts, PowerType, DivModNat
      <3> QED
        BY <3>1, <3>2
    <2>5. 2^(n + 1) = 2 * 2^n
      BY <2>1, PowerNext
    <2> QED
      BY <2>1, <2>3, <2>4, <2>5
  <1> QED
    BY <1>2, <1>3
-----------------------------------------------------------------------------
(* What a rotation and a doubling do to the mask. *)

Element == len \in 1..LenBits /\ imms \in 0..(Width - 1) /\ immr \in 0..(Width - 1)

ElementRight ==
    /\ ElemSize \in Nat \ {0} /\ ElemSize <= Width
    /\ S \in 0..(ElemSize - 1) /\ R \in 0..(ElemSize - 1)

LEMMA ElementFacts == Element => ElementRight
  <1> SUFFICES ASSUME Element PROVE ElementRight
    OBVIOUS
  <1>1. ElemSize \in Nat \ {0} /\ ElemSize <= Width
    BY WidthFacts, PowerType, PowerDivides DEF Element, ElemSize, Width
  <1> QED
    BY <1>1, WidthFacts, DivModNat DEF Element, S, R, ElementRight

LEMMA ElementIs ==
  ASSUME Element
  PROVE  /\ ElemSize \in Nat \ {0} /\ ElemSize <= Width
         /\ S \in 0..(ElemSize - 1) /\ R \in 0..(ElemSize - 1)
  BY ElementFacts DEF ElementRight

(* Before the first rotation the element holds S + 1 ones at its bottom. *)
FirstMaskRight ==
    /\ 0..S \subseteq Mask(0)
    /\ (0..S) \cap 0..(ElemSize - 1) = Mask(0) \cap 0..(ElemSize - 1)

LEMMA FirstMask == Element => FirstMaskRight
  <1> SUFFICES ASSUME Element PROVE FirstMaskRight
    OBVIOUS
  <1>1. \A b \in 0..(ElemSize - 1) : (b + 0) % ElemSize = b /\ b \in Bits
    <2> TAKE b \in 0..(ElemSize - 1)
    <2>1. b + 0 = b /\ b \in Bits
      BY ElementIs, WidthFacts DEF Bits
    <2> QED
      BY <2>1, ElementIs, SmallMod
  <1>2. 0..S \subseteq 0..(ElemSize - 1)
    BY ElementIs
  <1>3. 0..S \subseteq Mask(0)
    BY <1>1, <1>2, ElementIs DEF Mask
  <1>4. \A b \in Mask(0) \cap 0..(ElemSize - 1) : b \in 0..S
    BY <1>1, ElementIs DEF Mask
  <1> QED
    BY <1>2, <1>3, <1>4 DEF FirstMaskRight

(* A round of ROR turns the element by one position, and the ones it leaves  *)
(* above the element are ones of the turned mask.                            *)
LEMMA RotationKeepsMask ==
  ASSUME Element, NEW x \in SUBSET Bits, NEW t \in Nat,
         x \subseteq Mask(t),
         x \cap 0..(ElemSize - 1) = Mask(t) \cap 0..(ElemSize - 1)
  PROVE  /\ RotatedOnce(x, ElemSize) \subseteq Mask(t + 1)
         /\ RotatedOnce(x, ElemSize) \cap 0..(ElemSize - 1)
              = Mask(t + 1) \cap 0..(ElemSize - 1)
  <1> DEFINE y == RotatedOnce(x, ElemSize)
  <1>1. \A c \in Int : (c + ElemSize) % ElemSize = c % ElemSize
    <2> TAKE c \in Int
    <2>1. c + ElemSize * 1 = c + ElemSize
      BY ElementIs
    <2> QED
      BY <2>1, ElementIs, ModShift
  <1>2. \A b \in y : b \in Bits /\ (b + (t + 1)) % ElemSize <= S
    <2> TAKE b \in y
    <2>1. b \in Bits
      BY DEF RotatedOnce, ShiftLeft, ShiftRight1
    <2>2. PICK c \in x : b = c + (ElemSize - 1) \/ b = c - 1
      BY DEF RotatedOnce, ShiftLeft, ShiftRight1
    <2>3. c \in Int /\ (c + t) % ElemSize <= S
      BY DEF Mask, Bits
    <2>4. b + (t + 1) = (c + t) + ElemSize \/ b + (t + 1) = c + t
      BY <2>2, <2>3, ElementIs
    <2> QED
      BY <1>1, <2>1, <2>3, <2>4
  <1>3. ASSUME NEW b \in Mask(t + 1) \cap 0..(ElemSize - 1)
        PROVE  b \in y
    <2>1. b \in Bits /\ b \in 0..(ElemSize - 1) /\ (b + (t + 1)) % ElemSize <= S
      BY DEF Mask
    <2>2. CASE b = ElemSize - 1
      <3>1. 0 \in Bits /\ 0 \in 0..(ElemSize - 1) /\ b + (t + 1) = (0 + t) + ElemSize
        BY <2>2, ElementIs, WidthFacts DEF Bits
      <3>2. (0 + t) % ElemSize <= S
        BY <1>1, <2>1, <3>1
      <3>3. 0 \in x
        BY <3>1, <3>2 DEF Mask
      <3>4. b = 0 + (ElemSize - 1)
        BY <2>2, ElementIs
      <3> QED
        BY <2>1, <3>3, <3>4 DEF RotatedOnce, ShiftLeft
    <2>3. CASE b # ElemSize - 1
      <3>1. b + 1 \in Bits /\ b + 1 \in 0..(ElemSize - 1) /\ b + (t + 1) = (b + 1) + t
        BY <2>1, <2>3, ElementIs, WidthFacts DEF Bits
      <3>2. b + 1 \in x
        BY <2>1, <3>1 DEF Mask
      <3>3. b = (b + 1) - 1
        BY <2>1
      <3> QED
        BY <2>1, <3>2, <3>3 DEF RotatedOnce, ShiftRight1
    <2> QED
      BY <2>2, <2>3
  <1> HIDE DEF y
  <1>4. y \subseteq Mask(t + 1)
    BY <1>2 DEF Mask
  <1>5. y \cap 0..(ElemSize - 1) = Mask(t + 1) \cap 0..(ElemSize - 1)
    BY <1>3, <1>4
  <1> QED
    BY <1>4, <1>5 DEF y

(* A doubling of the size copies whole elements. *)
LEMMA DoublingKeepsMask ==
  ASSUME Element, NEW x \in SUBSET Bits, NEW t \in Nat, NEW k \in Nat \ {0},
         NEW z, z = ElemSize * k, 2 * z <= Width,
         x \subseteq Mask(t), x \cap 0..(z - 1) = Mask(t) \cap 0..(z - 1)
  PROVE  /\ x \cup ShiftLeft(x, z) \subseteq Mask(t)
         /\ (x \cup ShiftLeft(x, z)) \cap 0..(2 * z - 1) = Mask(t) \cap 0..(2 * z - 1)
  <1> DEFINE y == x \cup ShiftLeft(x, z)
  <1>0. z \in Nat \ {0}
    BY ElementIs
  <1>1. \A c \in Int : (c + z) % ElemSize = c % ElemSize
    <2> TAKE c \in Int
    <2>1. ElemSize \in Nat \ {0} /\ k \in Int
      BY ElementIs
    <2>2. (c + ElemSize * k) % ElemSize = c % ElemSize
      BY <2>1, ModShift
    <2> QED
      BY <2>2
  <1>2. \A b \in y : b \in Bits /\ (b + t) % ElemSize <= S
    <2> TAKE b \in y
    <2>1. CASE b \in x
      BY <2>1 DEF Mask
    <2>2. CASE b \in ShiftLeft(x, z)
      <3>1. PICK c \in x : b = c + z /\ b \in Bits
        BY <2>2 DEF ShiftLeft
      <3>2. c \in Int /\ (c + t) % ElemSize <= S
        BY DEF Mask, Bits
      <3>3. b + t = (c + t) + z
        BY <1>0, <3>1, <3>2
      <3> QED
        BY <1>1, <3>1, <3>2, <3>3
    <2> QED
      BY <2>1, <2>2
  <1>3. ASSUME NEW b \in Mask(t) \cap 0..(2 * z - 1)
        PROVE  b \in y
    <2>1. b \in Bits /\ b \in 0..(2 * z - 1) /\ (b + t) % ElemSize <= S
      BY DEF Mask
    <2>2. CASE b < z
      <3>1. b \in 0..(z - 1)
        BY <1>0, <2>1, <2>2
      <3> QED
        BY <3>1
    <2>3. CASE ~(b < z)
      <3>1. b - z \in Bits /\ b - z \in 0..(z - 1) /\ b + t = ((b - z) + t) + z
            /\ b = (b - z) + z
        BY <1>0, <2>1, <2>3, WidthFacts DEF Bits
      <3>2. ((b - z) + t) % ElemSize <= S
        <4>1. (b - z) + t \in Int
          BY <1>0, <2>1
        <4> QED
          BY <1>1, <2>1, <3>1, <4>1
      <3>3. b - z \in x
        BY <3>1, <3>2 DEF Mask
      <3> QED
        BY <2>1, <3>1, <3>3 DEF ShiftLeft
    <2> QED
      BY <2>2, <2>3
  <1> HIDE DEF y
  <1>4. y \subseteq Mask(t)
    BY <1>2 DEF Mask
  <1>5. y \cap 0..(2 * z - 1) = Mask(t) \cap 0..(2 * z - 1)
    BY <1>3, <1>4
  <1> QED
    BY <1>4, <1>5 DEF y

-----------------------------------------------------------------------------
(* The inductive invariant. *)

(* HighestBitSet's index is never below a one it has yet to find, and it is   *)
(* past the width only for a pattern without one.                            *)
Searching ==
    pc = "scan" =>
        /\ IF i \in Bits THEN \A b \in Scanned : b <= i ELSE Scanned = {}
        /\ turns = 0

(* What the assertions stop. *)
Stopped ==
    pc = "abort" =>
        /\ ~Encodable(i)
        /\ IF i \in Bits THEN i \in Scanned /\ \A b \in Scanned : b <= i ELSE Scanned = {}

(* What they let through. *)
Found ==
    pc \in {"rotate", "repeat", "done"} =>
        /\ len \in 1..LenBits
        /\ len \in Scanned /\ \A b \in Scanned : b <= len
        /\ S # ElemSize - 1

(* The rounds of ROR, the doublings of the size, and the mask after each. *)
Turning ==
    pc \in {"rotate", "repeat", "done"} =>
        /\ pc = "rotate" => turns <= R /\ size = ElemSize
        /\ pc # "rotate" => turns = R
        /\ pc = "done" => size = Width
        /\ \E n \in len..LenBits : size = 2^n
        /\ pattern \subseteq Mask(turns)
        /\ pattern \cap 0..(size - 1) = Mask(turns) \cap 0..(size - 1)

MaskInv == TypeOK /\ Searching /\ Stopped /\ Found /\ Turning

LEMMA MaskInit == Init => MaskInv
  <1> SUFFICES ASSUME Init PROVE MaskInv
    OBVIOUS
  <1>1. /\ immN \in BOOLEAN /\ imms \in 0..(Width - 1) /\ immr \in 0..(Width - 1)
        /\ i = Width - 1 /\ len = 0 /\ turns = 0 /\ size = 1 /\ pattern = {} /\ pc = "scan"
    BY DEF Init, Start
  <1>2. TypeOK
    <2>1. size \in {2^n : n \in 0..LenBits}
      <3>1. 1 = 2^0 /\ 0 \in 0..LenBits
        BY WidthFacts
      <3> QED
        BY <1>1, <3>1
    <2>2. i \in 0..(IndexMod - 1) /\ len \in 0..LenBits /\ turns \in 0..(Width - 1)
      BY <1>1, WidthFacts
    <2> QED
      BY <1>1, <2>1, <2>2 DEF TypeOK
  <1>3. Searching
    BY <1>1, ScannedBits, WidthFacts DEF Searching, Bits
  <1> QED
    BY <1>1, <1>2, <1>3 DEF MaskInv, Stopped, Found, Turning

LEMMA ScanDownKeeps ==
  ASSUME MaskInv, ScanDown
  PROVE  MaskInv'
  <1>1. /\ pc = "scan" /\ pc' = "scan" /\ FALSE \in BitSeen /\ i' = (i - 1) % IndexMod
        /\ UNCHANGED <<args, len, turns, size, pattern>>
    BY DEF ScanDown
  <1>2. TypeOK'
    <2>1. i - 1 \in Int
      BY DEF MaskInv, TypeOK
    <2>2. i' \in 0..(IndexMod - 1)
      BY <1>1, <2>1, WidthFacts, DivMod
    <2> QED
      BY <1>1, <2>2 DEF MaskInv, TypeOK, args, Bits, Width
  <1>3. Scanned' = Scanned /\ Bits' = Bits
    BY <1>1 DEF Scanned, args, Bits, Width
  <1>4. i \in 0..(IndexMod - 1)
    BY DEF MaskInv, TypeOK
  <1>6. turns' = 0
    BY <1>1 DEF MaskInv, Searching
  <1>5. Searching'
    <2>1. CASE i \in Bits /\ i # 0
      <3>1. i \notin Scanned
        BY <1>1, <2>1 DEF BitSeen
      <3>2. i - 1 \in 0..(IndexMod - 1) /\ i - 1 \in Bits
        BY <1>4, <2>1, WidthFacts DEF Bits
      <3>3. i' = i - 1
        BY <1>1, <3>2, WidthFacts, SmallMod
      <3>4. \A b \in Scanned : b <= i - 1
        <4>1. \A b \in Scanned : b <= i /\ b # i /\ b \in Nat
          BY <1>1, <2>1, <3>1, ScannedBits DEF MaskInv, Searching
        <4> QED
          BY <1>4, <4>1
      <3> QED
        BY <1>3, <1>6, <3>2, <3>3, <3>4 DEF Searching
    <2>2. CASE i = 0
      <3>1. 0 \in Bits
        BY WidthFacts DEF Bits
      <3>2. Scanned = {}
        <4>1. 0 \notin Scanned
          BY <1>1, <2>2, <3>1 DEF BitSeen
        <4>2. \A b \in Scanned : b <= 0 /\ b \in Nat
          BY <1>1, <2>2, <3>1, ScannedBits DEF MaskInv, Searching
        <4> QED
          BY <4>1, <4>2
      <3> QED
        BY <1>3, <1>6, <3>2 DEF Searching
    <2>3. CASE i \notin Bits
      BY <1>1, <1>3, <1>6, <2>3 DEF MaskInv, Searching
    <2> QED
      BY <2>1, <2>2, <2>3
  <1> QED
    BY <1>1, <1>2, <1>5 DEF MaskInv, Stopped, Found, Turning

LEMMA ScanFoundKeeps ==
  ASSUME MaskInv, ScanFound
  PROVE  MaskInv'
  <1>1. /\ pc = "scan" /\ TRUE \in BitSeen
        /\ UNCHANGED <<args, i, turns>>
    BY DEF ScanFound
  <1>2. IF i \in Bits THEN i \in Scanned /\ \A b \in Scanned : b <= i ELSE Scanned = {}
    BY <1>1 DEF MaskInv, Searching, BitSeen
  <1>3. Scanned' = Scanned /\ Bits' = Bits
    BY <1>1 DEF Scanned, args, Bits, Width
  <1>4. CASE ~Encodable(i)
    <2>1. pc' = "abort" /\ UNCHANGED <<len, size, pattern>>
      BY <1>4 DEF ScanFound
    <2>2. TypeOK'
      BY <1>1, <2>1 DEF MaskInv, TypeOK, args, Bits, Width
    <2>3. Stopped'
      <3>1. Encodable(i)' = Encodable(i)
        BY <1>1 DEF Encodable, args
      <3> QED
        BY <1>1, <1>2, <1>3, <1>4, <3>1 DEF Stopped
    <2> QED
      BY <2>1, <2>2, <2>3 DEF MaskInv, Searching, Found, Turning
  <1>5. CASE Encodable(i)
    <2>1. len' = i /\ size' = 2^i /\ pattern' = 0..(imms % 2^i) /\ pc' = "rotate"
      BY <1>5 DEF ScanFound
    <2>2. i \in 1..LenBits /\ imms % 2^i # 2^i - 1
      BY <1>5 DEF Encodable
    <2>3. i \in Scanned /\ \A b \in Scanned : b <= i
      BY <1>2, <2>2, ScannedBits, WidthFacts
    <2>4. Element'
      BY <1>1, <2>1, <2>2 DEF MaskInv, TypeOK, Element, args, Width
    <2>5. turns = 0
      BY <1>1 DEF MaskInv, Searching
    <2>6. ElemSize' = 2^i /\ S' = imms % 2^i
      BY <1>1, <2>1 DEF ElemSize, S, args
    <2>7. (Element => FirstMaskRight)'
      BY FirstMask, PTL
    <2>8. FirstMaskRight'
      BY <2>4, <2>7
    <2>9. (Element => ElementRight)'
      BY ElementFacts, PTL
    <2>10. ElementRight'
      BY <2>4, <2>9
    <2>11. pattern' = 0..S' /\ size' = ElemSize' /\ turns' = 0
      BY <1>1, <2>1, <2>5, <2>6
    <2>12. Turning'
      <3>1. (\E n \in len..LenBits : size = 2^n)'
        BY <2>1, <2>2, WidthFacts
      <3>2. (pattern \subseteq Mask(turns))'
        <4>1. Mask(turns)' = Mask(0)'
          BY <2>11 DEF Mask
        <4> QED
          BY <2>8, <2>11, <4>1 DEF FirstMaskRight
      <3>3. (pattern \cap 0..(size - 1) = Mask(turns) \cap 0..(size - 1))'
        <4>1. Mask(turns)' = Mask(0)'
          BY <2>11 DEF Mask
        <4> QED
          BY <2>8, <2>11, <4>1 DEF FirstMaskRight
      <3>4. (turns <= R)'
        BY <2>10, <2>11 DEF ElementRight
      <3> QED
        BY <2>1, <2>11, <3>1, <3>2, <3>3, <3>4 DEF Turning
    <2>13. Found'
      BY <1>3, <2>1, <2>2, <2>3, <2>6 DEF Found
    <2>14. TypeOK'
      <3>1. size' \in {2^n : n \in 0..LenBits}
        BY <2>1, <2>2, WidthFacts
      <3>2. pattern' \subseteq Bits'
        BY <2>8, <2>11 DEF FirstMaskRight, Mask
      <3>3. len' \in 0..LenBits
        BY <2>1, <2>2, WidthFacts
      <3> QED
        BY <1>1, <2>1, <3>1, <3>2, <3>3 DEF MaskInv, TypeOK, args, Width
    <2> QED
      BY <2>1, <2>12, <2>13, <2>14 DEF MaskInv, Searching, Stopped
  <1> QED
    BY <1>4, <1>5

(* The mask, once len is set, is a matter of the arguments. *)
LEMMA MaskStays ==
  ASSUME UNCHANGED <<args, i, len>>
  PROVE  /\ ElemSize' = ElemSize /\ S' = S /\ R' = R /\ Width' = Width /\ Bits' = Bits
         /\ Scanned' = Scanned
         /\ \A t, u : t = u => Mask(t)' = Mask(u)
  BY DEF args, ElemSize, S, R, Width, Bits, Scanned, Mask

LEMMA RotateKeeps ==
  ASSUME MaskInv, Rotate
  PROVE  MaskInv'
  <1>1. pc = "rotate" /\ UNCHANGED <<args, i, len, size>>
    BY DEF Rotate
  <1>2. /\ TypeOK /\ Found /\ Turning
        /\ turns <= R /\ size = ElemSize
        /\ pattern \subseteq Mask(turns)
        /\ pattern \cap 0..(size - 1) = Mask(turns) \cap 0..(size - 1)
    BY <1>1 DEF MaskInv, Turning
  <1>3. Element
    BY <1>1, <1>2 DEF Element, Found, TypeOK
  <1>4. /\ ElemSize' = ElemSize /\ S' = S /\ R' = R /\ Width' = Width /\ Bits' = Bits
        /\ Scanned' = Scanned
        /\ \A t, u : t = u => Mask(t)' = Mask(u)
    BY <1>1, MaskStays
  <1>5. Searching' /\ Stopped' /\ pc' \in {"rotate", "repeat"}
    BY <1>1 DEF Rotate, Searching, Stopped
  <1>6. Found'
    BY <1>1, <1>2, <1>4 DEF Found
  <1>7. CASE turns < R
    <2>1. pattern' = RotatedOnce(pattern, ElemSize) /\ turns' = turns + 1 /\ pc' = pc
      BY <1>2, <1>7 DEF Rotate
    <2>2. turns \in Nat /\ pattern \in SUBSET Bits
      BY <1>2 DEF TypeOK
    <2>3. /\ pattern' \subseteq Mask(turns + 1)
          /\ pattern' \cap 0..(ElemSize - 1) = Mask(turns + 1) \cap 0..(ElemSize - 1)
      BY <1>2, <1>3, <2>1, <2>2, RotationKeepsMask
    <2>4. Mask(turns)' = Mask(turns + 1)
      <3>1. \A t : t = turns' => Mask(t)' = Mask(turns)'
        BY DEF Mask
      <3>2. \A t : t = turns + 1 => Mask(t)' = Mask(turns + 1)
        BY <1>4
      <3> QED
        BY <2>1, <3>1, <3>2
    <2>5. turns + 1 \in 0..(Width - 1) /\ turns + 1 <= R
      BY <1>3, <1>7, <2>2, ElementIs, WidthFacts
    <2>6. TypeOK'
      <3>1. pattern' \subseteq Bits
        BY <2>3 DEF Mask
      <3> QED
        BY <1>1, <1>2, <1>4, <1>5, <2>1, <2>5, <3>1 DEF TypeOK, args
    <2>7. Turning'
      BY <1>1, <1>2, <1>4, <2>1, <2>3, <2>4, <2>5 DEF Turning
    <2> QED
      BY <1>5, <1>6, <2>6, <2>7 DEF MaskInv
  <1>8. CASE ~(turns < R)
    <2>1. pc' = "repeat" /\ pattern' = pattern /\ turns' = turns
      BY <1>2, <1>8 DEF Rotate
    <2>2. turns = R
      BY <1>2, <1>3, <1>8, ElementIs DEF TypeOK
    <2>3. Mask(turns)' = Mask(turns)
      BY <1>4, <2>1
    <2>4. TypeOK'
      BY <1>1, <1>2, <1>4, <2>1 DEF TypeOK, args
    <2>5. Turning'
      BY <1>1, <1>2, <1>4, <2>1, <2>2, <2>3 DEF Turning
    <2> QED
      BY <1>5, <1>6, <2>4, <2>5 DEF MaskInv
  <1> QED
    BY <1>7, <1>8

LEMMA RepeatKeeps ==
  ASSUME MaskInv, Repeat
  PROVE  MaskInv'
  <1>1. pc = "repeat" /\ UNCHANGED <<args, i, len, turns>>
    BY DEF Repeat
  <1>2. /\ TypeOK /\ Found /\ Turning
        /\ turns = R
        /\ pattern \subseteq Mask(turns)
        /\ pattern \cap 0..(size - 1) = Mask(turns) \cap 0..(size - 1)
    BY <1>1 DEF MaskInv, Turning
  <1>3. Element
    BY <1>1, <1>2 DEF Element, Found, TypeOK
  <1>4. /\ ElemSize' = ElemSize /\ S' = S /\ R' = R /\ Width' = Width /\ Bits' = Bits
        /\ Scanned' = Scanned
        /\ \A t, u : t = u => Mask(t)' = Mask(u)
    BY <1>1, MaskStays
  <1>5. Searching' /\ Stopped' /\ pc' \in {"repeat", "done"}
    BY <1>1 DEF Repeat, Searching, Stopped
  <1>6. Found'
    BY <1>1, <1>2, <1>4 DEF Found
  <1>7. Mask(turns)' = Mask(turns)
    BY <1>1, <1>4
  <1>8. PICK n \in len..LenBits : size = 2^n
    BY <1>1, <1>2 DEF Turning
  <1>9. CASE size # Width
    <2>1. /\ pattern' = pattern \cup ShiftLeft(pattern, size)
          /\ size' = 2 * size /\ pc' = pc
      BY <1>9 DEF Repeat
    <2>2. turns \in Nat /\ pattern \in SUBSET Bits /\ len \in 1..LenBits
      BY <1>2, <1>3 DEF TypeOK, Element
    <2>3. n \in Nat /\ n + 1 \in len..LenBits /\ n \in 0..LenBits
      BY <1>8, <1>9, <2>2, WidthFacts DEF Width
    <2>4. 2 * size = 2^(n + 1) /\ 2 * size <= Width /\ 2^(n + 1) \in Nat
      BY <1>8, <2>3, WidthFacts, PowerNext, PowerDivides, PowerType DEF Width
    <2>5. size = ElemSize * 2^(n - len) /\ 2^(n - len) \in Nat \ {0}
      <3>1. len \in Nat /\ n \in Nat /\ len <= n
        BY <1>8, <2>2, <2>3
      <3> QED
        BY <1>8, <3>1, PowerDivides DEF ElemSize
    <2>6. /\ pattern' \subseteq Mask(turns)
          /\ pattern' \cap 0..(2 * size - 1) = Mask(turns) \cap 0..(2 * size - 1)
      BY <1>2, <1>3, <2>1, <2>2, <2>4, <2>5, DoublingKeepsMask
    <2>7. (\E q \in len..LenBits : size = 2^q)'
      BY <1>1, <2>1, <2>3, <2>4
    <2>8. TypeOK'
      <3>1. pattern' \subseteq Bits
        BY <2>6 DEF Mask
      <3>2. size' \in {2^q : q \in 0..LenBits}
        <4>1. n + 1 \in 0..LenBits
          BY <2>2, <2>3
        <4> QED
          BY <2>1, <2>4, <4>1
      <3> QED
        BY <1>1, <1>2, <1>4, <1>5, <3>1, <3>2 DEF TypeOK, args
    <2>9. Turning'
      BY <1>1, <1>2, <1>4, <1>7, <2>1, <2>6, <2>7 DEF Turning
    <2> QED
      BY <1>5, <1>6, <2>8, <2>9 DEF MaskInv
  <1>10. CASE size = Width
    <2>1. pc' = "done" /\ pattern' = pattern /\ size' = size
      BY <1>10 DEF Repeat
    <2>2. (\E q \in len..LenBits : size = 2^q)'
      BY <1>1, <1>8, <2>1
    <2>3. TypeOK'
      BY <1>1, <1>2, <1>4, <2>1 DEF TypeOK, args
    <2>4. Turning'
      BY <1>1, <1>2, <1>4, <1>7, <1>10, <2>1, <2>2 DEF Turning
    <2> QED
      BY <1>5, <1>6, <2>3, <2>4 DEF MaskInv
  <1> QED
    BY <1>9, <1>10

LEMMA MaskStutter ==
  ASSUME MaskInv, UNCHANGED vars
  PROVE  MaskInv'
  <1>1. UNCHANGED <<args, i, len, turns, size, pattern, pc>>
    BY DEF vars
  <1>2. /\ ElemSize' = ElemSize /\ S' = S /\ R' = R /\ Width' = Width /\ Bits' = Bits
        /\ Scanned' = Scanned
        /\ \A t, u : t = u => Mask(t)' = Mask(u)
    BY <1>1, MaskStays
  <1>3. Mask(turns)' = Mask(turns) /\ Encodable(i)' = Encodable(i)
    BY <1>1, <1>2 DEF Encodable, args
  <1> QED
    BY <1>1, <1>2, <1>3 DEF MaskInv, TypeOK, Searching, Stopped, Found, Turning, args

(* The inductive invariant of DecodeBitMasks: what the scan, ROR and the      *)
(* doublings have established at every round.                                 *)
THEOREM MaskInvariant == Spec => []MaskInv
  <1>1. MaskInv /\ [Next]_vars => MaskInv'
    BY ScanDownKeeps, ScanFoundKeeps, RotateKeeps, RepeatKeeps, MaskStutter DEF Next
  <1> QED
    BY <1>1, MaskInit, PTL DEF Spec

-----------------------------------------------------------------------------
(* TypeOK: every variable of DecodeBitMasks stays in its range. *)
THEOREM TypeCorrect == Spec => []TypeOK
  <1>1. MaskInv => TypeOK
    BY DEF MaskInv
  <1> QED
    BY <1>1, MaskInvariant, PTL

(* MaskIsRight: DecodeBitMasks returns the mask that N:imms:immr encodes.  Its *)
(* last doubling has made the pattern exact up to the width.                  *)
THEOREM MaskReturned == Spec => []MaskIsRight
  <1>1. MaskInv => MaskIsRight
    <2> SUFFICES ASSUME MaskInv, pc = "done" PROVE pattern = Mask(R)
      BY DEF MaskIsRight
    <2>1. /\ turns = R /\ size = Width
          /\ pattern \cap 0..(size - 1) = Mask(turns) \cap 0..(size - 1)
      BY DEF MaskInv, Turning
    <2>2. pattern \subseteq 0..(Width - 1) /\ Mask(R) \subseteq 0..(Width - 1)
      BY DEF MaskInv, TypeOK, Mask, Bits
    <2> QED
      BY <2>1, <2>2
  <1> QED
    BY <1>1, MaskInvariant, PTL

(* StrayBitsAgree: the ones that ROR leaves above the element are ones of the *)
(* mask at every round and every doubling, and the element is exact.          *)
THEOREM StrayOnesAreRight == Spec => []StrayBitsAgree
  <1>1. MaskInv => StrayBitsAgree
    BY DEF MaskInv, Turning, StrayBitsAgree
  <1> QED
    BY <1>1, MaskInvariant, PTL

(* What is stopped encodes no element, or an element of ones only. *)
LEMMA StoppedIsReserved ==
  ASSUME TypeOK, ~Encodable(i),
         IF i \in Bits THEN i \in Scanned /\ \A b \in Scanned : b <= i ELSE Scanned = {}
  PROVE  Reserved
  <1>1. imms \in 0..(Width - 1) /\ immN \in BOOLEAN /\ imms \in Nat
    BY WidthFacts DEF TypeOK
  <1>2. CASE i \notin Bits
    BY <1>1, <1>2, NoneScanned DEF Reserved
  <1>3. CASE i \in Bits
    <2>1. i \in Scanned /\ \A b \in Scanned : b <= i
      BY <1>3
    <2>2. CASE i = LenBits /\ immN
      <3>1. i \in 1..LenBits /\ 2^i = Width
        BY <2>2, WidthFacts DEF Width
      <3>2. imms % Width = Width - 1
        BY <3>1 DEF Encodable
      <3>3. imms % Width = imms
        BY <1>1, WidthFacts, SmallMod
      <3> QED
        BY <3>2, <3>3 DEF Reserved
    <2>3. CASE i \in 0..(LenBits - 1) /\ ~immN /\ imms = Width - 2 * 2^i + (imms % 2^i)
      <3>1. i \in Nat /\ 2^i \in Nat \ {0}
        BY <2>3, PowerType
      <3>2. imms % 2^i = 2^i - 1
        <4>1. CASE i = 0
          <5>1. 2^i = 1 /\ imms % 1 = 0
            BY <1>1, <4>1
          <5> QED
            BY <5>1
        <4>2. CASE i # 0
          <5>1. i \in 1..LenBits
            BY <2>3, <4>2, WidthFacts
          <5> QED
            BY <5>1 DEF Encodable
        <4> QED
          BY <4>1, <4>2
      <3>3. imms = (Width - 1) - 2^i
        BY <2>3, <3>1, <3>2, WidthFacts
      <3> QED
        BY <2>3, <3>3 DEF Reserved
    <2> QED
      BY <1>1, <2>1, <2>2, <2>3, HighestScanned
  <1> QED
    BY <1>2, <1>3

(* No power of two lies between two that follow each other. *)
LEMMA NoPowerBetween ==
  ASSUME NEW m \in Nat, NEW n \in Nat, 2^n < 2^m
  PROVE  2 * 2^n <= 2^m
  <1>1. 2^m \in Nat /\ 2^n \in Nat /\ 2^(n + 1) = 2 * 2^n
    BY PowerType, PowerNext
  <1>2. CASE m <= n
    BY <1>1, <1>2, PowerDivides
  <1>3. CASE n + 1 <= m
    <2>1. n + 1 \in Nat
      OBVIOUS
    <2> QED
      BY <1>1, <1>3, <2>1, PowerDivides
  <1> QED
    BY <1>2, <1>3

(* An element with a one and a zero is not reserved. *)
LEMMA FoundIsNotReserved ==
  ASSUME TypeOK, Found, pc = "done"
  PROVE  ~Reserved
  <1>1. imms \in 0..(Width - 1) /\ immN \in BOOLEAN /\ imms \in Nat
    BY WidthFacts DEF TypeOK
  <1>2. /\ len \in 1..LenBits
        /\ len \in Scanned /\ \A b \in Scanned : b <= len
        /\ imms % 2^len # 2^len - 1
    BY DEF Found, S, ElemSize
  <1>3. CASE len = LenBits /\ immN
    <2>1. imms % Width = imms
      BY <1>1, WidthFacts, SmallMod
    <2> QED
      BY <1>2, <1>3, <2>1 DEF Reserved, Width
  <1>4. CASE len \in 0..(LenBits - 1) /\ ~immN /\ imms = Width - 2 * 2^len + (imms % 2^len)
    <2> DEFINE p == 2^len
               r == imms % p
    <2>1. p \in Nat \ {0} /\ len \in Nat
      BY <1>2, PowerType
    <2>2. imms = Width - 2 * p + r /\ r # p - 1
      BY <1>2, <1>4
    <2>3. \A n \in Nat : p < 2^n => 2 * p <= 2^n
      BY <2>1, NoPowerBetween
    <2> HIDE DEF p
    <2>4. r \in 0..(p - 1)
      BY <1>1, <2>1, DivModNat
    <2> HIDE DEF r
    <2>5. imms # Width - 1
      BY <2>1, <2>2, <2>4, WidthFacts
    <2>6. ASSUME NEW n \in 0..(LenBits - 1), imms = (Width - 1) - 2^n
          PROVE  FALSE
      <3>1. n \in Nat /\ 2^n \in Nat
        BY PowerType
      <3>2. 2^n = 2 * p - 1 - r
        BY <2>1, <2>2, <2>4, <2>6, <3>1, WidthFacts
      <3>3. p < 2^n /\ 2^n < 2 * p
        BY <2>1, <2>2, <2>4, <3>1, <3>2
      <3> QED
        BY <2>1, <2>3, <3>1, <3>3
    <2> QED
      BY <2>5, <2>6 DEF Reserved
  <1> QED
    BY <1>1, <1>2, <1>3, <1>4, HighestScanned

(* StopsWhenReserved: the assertions of DecodeBitMasks stop every reserved    *)
(* encoding, and no other.                                                    *)
THEOREM StopsExactlyReserved == Spec => []StopsWhenReserved
  <1>1. MaskInv => StopsWhenReserved
    BY StoppedIsReserved, FoundIsNotReserved DEF MaskInv, Stopped, StopsWhenReserved
  <1> QED
    BY <1>1, MaskInvariant, PTL

=============================================================================

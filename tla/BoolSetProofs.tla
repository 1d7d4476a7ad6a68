--------------------------- MODULE BoolSetProofs ---------------------------
(***************************************************************************)
(* The bit set for every width of a byte and every size: where its writes  *)
(* end up, and which positions they move.  What set_range gets wrong, the  *)
(* extent of a range, is left open by all of these.                        *)
(***************************************************************************)
EXTENDS BoolSet, Numbers

(* Equal quotients and remainders are those of one number. *)
LEMMA DivModInjective ==
  ASSUME NEW a \in Nat, NEW c \in Nat, NEW b \in Nat \ {0},
         a \div b = c \div b, a % b = c % b
  PROVE  a = c
  <1>1. a = b * (a \div b) + (a % b) /\ c = b * (c \div b) + (c % b)
    BY DivModNat
  <1>2. b * (a \div b) = b * (c \div b)
    OBVIOUS
  <1> QED
    BY <1>1, <1>2

LEMMA RoundUpFacts ==
  ASSUME NEW n \in Nat
  PROVE  /\ n \div ByteBits \in Nat
         /\ n % ByteBits \in 0..(ByteBits - 1)
         /\ RoundUp(n) \in Nat
         /\ RoundUp(n) = (n \div ByteBits) + (IF n % ByteBits # 0 THEN 1 ELSE 0)
  BY BoolSetAssumption, DivModNat DEF RoundUp

LEMMA PositionFacts ==
  ASSUME bit_count \in BitCounts, NEW p \in Positions
  PROVE  /\ p \in Nat
         /\ byte_size \in Nat
         /\ p \div ByteBits \in 0..(byte_size - 1)
         /\ BitPos(p) \in Bits
  <1>1. p \in Nat /\ bit_count \in Nat /\ p < bit_count /\ ByteBits \in Nat \ {0}
    BY BoolSetAssumption DEF Positions
  <1> DEFINE i == p \div ByteBits
             r == p % ByteBits
             q == bit_count \div ByteBits
             s == bit_count % ByteBits
  <1>2. /\ i \in Nat /\ r \in 0..(ByteBits - 1) /\ p = ByteBits * i + r
        /\ q \in Nat /\ s \in 0..(ByteBits - 1) /\ bit_count = ByteBits * q + s
    BY <1>1, DivModNat
  <1>3. byte_size = q + (IF s # 0 THEN 1 ELSE 0)
    BY DEF byte_size, RoundUp
  <1>4. BitPos(p) = ByteBits - 1 - r
    BY <1>1, <1>2 DEF BitPos
  <1> HIDE DEF i, r, q, s
  <1>5. i <= q /\ (s = 0 => i < q)
    <2>1. ByteBits * i <= ByteBits * q + s
      <3>1. ByteBits * i \in Int /\ ByteBits * q \in Int
        BY <1>1, <1>2
      <3> QED
        BY <1>1, <1>2, <3>1
    <2>2. CASE i >= q + 1
      <3>1. ByteBits * i >= ByteBits * (q + 1)
        BY <1>1, <1>2, <2>2
      <3>2. ByteBits * (q + 1) = ByteBits * q + ByteBits
        BY <1>1, <1>2
      <3>3. ByteBits * q \in Int /\ ByteBits * i \in Int
        BY <1>1, <1>2
      <3> QED
        BY <1>1, <1>2, <2>1, <3>1, <3>2, <3>3
    <2>3. CASE i = q /\ s = 0
      BY <1>1, <1>2, <2>3
    <2> QED
      BY <1>1, <1>2, <2>2, <2>3
  <1> QED
    BY <1>1, <1>2, <1>3, <1>4, <1>5 DEF Bits, i

LEMMA SetInByteType ==
  ASSUME NEW byte \in SUBSET Bits, NEW k \in Nat, NEW value \in BOOLEAN
  PROVE  /\ SetInByte(byte, k, value) \in SUBSET Bits
         /\ value => byte \subseteq SetInByte(byte, k, value)
         /\ ~value => SetInByte(byte, k, value) \subseteq byte
  <1>1. LowBits(ByteBits - k) \subseteq Bits
    BY BoolSetAssumption DEF LowBits, Bits
  <1> QED
    BY <1>1 DEF SetInByte

(* What a range writes: bytes, and only in the direction of value. *)
LEMMA RangeBytesFacts ==
  ASSUME TypeOK, NEW p \in Positions, NEW n \in RangeSizes, NEW value \in BOOLEAN
  PROVE  /\ RangeBytes(p, n, value) \in [DOMAIN buf -> SUBSET Bits]
         /\ \A i \in DOMAIN buf : IF value THEN buf[i] \subseteq RangeBytes(p, n, value)[i]
                                           ELSE RangeBytes(p, n, value)[i] \subseteq buf[i]
  <1> DEFINE first == p \div ByteBits
             full == n \div ByteBits
             Head(i) == IF i = first /\ p % ByteBits > 0
                        THEN SetInByte(buf[i], p % ByteBits, value) ELSE buf[i]
             Body(i) == IF i \in (first + 1)..(first + full)
                        THEN (IF value THEN Bits ELSE {}) ELSE Head(i)
             Tail(i) == IF i = full /\ n % ByteBits # 0
                        THEN SetInByte(Body(i), n % ByteBits, value) ELSE Body(i)
  <1>1. RangeBytes(p, n, value) = [i \in DOMAIN buf |-> Tail(i)]
    BY DEF RangeBytes
  <1>2. p % ByteBits \in Nat /\ n % ByteBits \in Nat
    <2>1. p \in Nat /\ n \in Nat
      BY BoolSetAssumption DEF TypeOK, Positions, RangeSizes
    <2> QED
      BY <2>1, BoolSetAssumption, RoundUpFacts
  <1>3. ASSUME NEW i \in DOMAIN buf
        PROVE  /\ Tail(i) \in SUBSET Bits
               /\ IF value THEN buf[i] \subseteq Tail(i) ELSE Tail(i) \subseteq buf[i]
    <2>1. buf[i] \in SUBSET Bits
      BY DEF TypeOK
    <2>2. /\ Head(i) \in SUBSET Bits
          /\ IF value THEN buf[i] \subseteq Head(i) ELSE Head(i) \subseteq buf[i]
      BY <1>2, <2>1, SetInByteType
    <2> HIDE DEF Head
    <2>3. /\ Body(i) \in SUBSET Bits
          /\ IF value THEN buf[i] \subseteq Body(i) ELSE Body(i) \subseteq buf[i]
      BY <2>1, <2>2
    <2> HIDE DEF Body
    <2> QED
      BY <1>2, <2>3, SetInByteType
  <1> HIDE DEF Tail
  <1> QED
    BY <1>1, <1>3

LEMMA TypeInit == Init => TypeOK
  <1> SUFFICES ASSUME Init PROVE TypeOK
    OBVIOUS
  <1>1. buf \in [0..(byte_size - 1) -> SUBSET Bits]
    BY DEF Init
  <1> QED
    BY <1>1 DEF Init, TypeOK

LEMMA TypeStep == TypeOK /\ [Next]_vars => TypeOK'
  <1> SUFFICES ASSUME TypeOK, [Next]_vars PROVE TypeOK'
    OBVIOUS
  <1>1. UNCHANGED bit_count /\ byte_size' = byte_size
    BY DEF Next, vars, SetBit, SetRange, SetAll, Destroy, byte_size
  <1>2. ASSUME NEW p \in Positions, NEW value \in BOOLEAN, SetBit(p, value)
        PROVE  TypeOK'
    <2>1. BitPos(p) \in Bits
      BY PositionFacts DEF TypeOK
    <2> QED
      BY <1>1, <1>2, <2>1 DEF SetBit, TypeOK
  <1>3. ASSUME NEW p \in Positions, NEW n \in RangeSizes, NEW value \in BOOLEAN,
               SetRange(p, n, value)
        PROVE  TypeOK'
    <2>1. buf' = buf \/ buf' = RangeBytes(p, n, value)
      BY <1>3 DEF SetRange
    <2>2. status' \in {"ok", "fault"}
      BY <1>3 DEF SetRange
    <2>3. buf' \in [0..(byte_size - 1) -> SUBSET Bits]
      BY <2>1, RangeBytesFacts DEF TypeOK
    <2> QED
      BY <1>1, <2>2, <2>3 DEF TypeOK
  <1>4. ASSUME NEW value \in BOOLEAN, SetAll(value)
        PROVE  TypeOK'
    <2>1. buf' \in [0..(byte_size - 1) -> SUBSET Bits]
      BY <1>4 DEF SetAll, TypeOK
    <2> QED
      BY <1>1, <1>4, <2>1 DEF SetAll, TypeOK
  <1>5. CASE Destroy
    BY <1>1, <1>5 DEF Destroy, TypeOK
  <1>6. CASE UNCHANGED vars
    BY <1>1, <1>6 DEF vars, TypeOK
  <1> QED
    BY <1>2, <1>3, <1>4, <1>5, <1>6 DEF Next

(* The types of the bit set's state (boolset.hxx). *)
THEOREM TypeCorrect == Spec => []TypeOK
  BY TypeInit, TypeStep, PTL DEF Spec

(* Setting a bit to 1 makes its position a member, and setting it to either value *)
(* changes no other, whatever the byte and bit a position is stored at          *)
(* (boolset.cxx:28-38): no two positions of a set share one.  Nothing is said   *)
(* of the bit's own position when it is asked to be 0.                         *)
THEOREM BitsAreIndependent == Spec => SetBitExact
  <1>1. ASSUME TypeOK, NEW p \in Positions, NEW value \in BOOLEAN, SetBit(p, value)
        PROVE  (value => p \in Members') /\ Members' \ {p} = Members \ {p}
    <2>1. Positions' = Positions
      BY <1>1 DEF SetBit, Positions
    <2>2. p \div ByteBits \in DOMAIN buf
      BY <1>1, PositionFacts DEF TypeOK
    <2>3. \A i \in DOMAIN buf : buf'[i] = IF i = p \div ByteBits THEN buf[i] \cup {BitPos(p)}
                                                                 ELSE buf[i]
      BY <1>1, <2>2 DEF SetBit
    <2>4. ASSUME NEW q \in Positions
          PROVE  GetBit(q)' <=> (GetBit(q) \/ q = p)
      <3>1. q \div ByteBits \in DOMAIN buf /\ q \in Nat /\ p \in Nat
        BY <1>1, PositionFacts DEF TypeOK
      <3>2. GetBit(q)' <=> BitPos(q) \in buf'[q \div ByteBits]
        BY DEF GetBit
      <3>3. q \div ByteBits = p \div ByteBits /\ BitPos(q) = BitPos(p) => q = p
        <4>1. ASSUME q \div ByteBits = p \div ByteBits, BitPos(q) = BitPos(p)
              PROVE  q = p
          <5>1. q % ByteBits = p % ByteBits
            <6>1. q % ByteBits \in Int /\ p % ByteBits \in Int /\ ByteBits \in Int
              BY <3>1, BoolSetAssumption, RoundUpFacts
            <6> QED
              BY <4>1, <6>1 DEF BitPos
          <5> QED
            BY <3>1, <4>1, <5>1, BoolSetAssumption, DivModInjective
        <4> QED
          BY <4>1
      <3> QED
        BY <2>3, <3>1, <3>2, <3>3 DEF GetBit
    <2>5. Members' = Members \cup {p}
      BY <2>1, <2>4 DEF Members
    <2> QED
      BY <2>5
  <1>2. TypeOK /\ [Next]_vars =>
           [\A p \in Positions, value \in BOOLEAN :
               SetBit(p, value) =>
                  /\ value => p \in Members'
                  /\ Members' \ {p} = Members \ {p}]_vars
    BY <1>1
  <1> QED
    BY <1>2, TypeCorrect, PTL DEF Spec, SetBitExact

(* A range set to 1 clears nothing and one set to 0 sets nothing, though set_range *)
(* gets the extent of the range wrong (boolset.cxx:61-93).                       *)
THEOREM RangesGoOneWay == Spec => RangeOneWay
  <1>1. ASSUME TypeOK, NEW p \in Positions, NEW n \in RangeSizes, NEW value \in BOOLEAN,
               SetRange(p, n, value)
        PROVE  IF value THEN Members \subseteq Members' ELSE Members' \subseteq Members
    <2>1. Positions' = Positions
      BY <1>1 DEF SetRange, Positions
    <2>2. \A i \in DOMAIN buf : IF value THEN buf[i] \subseteq buf'[i] ELSE buf'[i] \subseteq buf[i]
      <3>1. buf' = buf \/ buf' = RangeBytes(p, n, value)
        BY <1>1 DEF SetRange
      <3> QED
        BY <1>1, <3>1, RangeBytesFacts
    <2>3. \A q \in Positions : q \div ByteBits \in DOMAIN buf
      BY <1>1, PositionFacts DEF TypeOK
    <2> QED
      BY <2>1, <2>2, <2>3 DEF Members, GetBit
  <1>2. TypeOK /\ [Next]_vars =>
           [\A p \in Positions, n \in RangeSizes, value \in BOOLEAN :
               SetRange(p, n, value) =>
                  IF value THEN Members \subseteq Members' ELSE Members' \subseteq Members]_vars
    BY <1>1
  <1> QED
    BY <1>2, TypeCorrect, PTL DEF Spec, RangeOneWay

(* A range that ends before byte EndMod never writes past the buffer: the two    *)
(* checks of set_range are enough as long as end_pos, a u8, holds the byte it   *)
(* ends in (boolset.cxx:67-78).                                                *)
THEOREM CheckedRangesStayInside == Spec => RangeInBounds
  <1>1. ASSUME TypeOK, NEW p \in Positions, NEW n \in RangeSizes, NEW value \in BOOLEAN,
               SetRange(p, n, value), TrueEnd(p, n) < EndMod
        PROVE  status' = "ok"
    <2>1. CASE Refused(p, n)
      BY <1>1, <2>1 DEF SetRange
    <2>2. CASE ~Refused(p, n)
      <3> DEFINE first == p \div ByteBits
                 full == n \div ByteBits
      <3>1. first \in Nat /\ full \in Nat /\ byte_size \in Nat /\ n \in Nat
        <4>1. n \in Nat
          BY <1>1, BoolSetAssumption DEF TypeOK, RangeSizes
        <4> QED
          BY <1>1, <4>1, PositionFacts, RoundUpFacts DEF TypeOK
      <3>2. /\ TrueEnd(p, n) = first + full + (IF n % ByteBits # 0 THEN 1 ELSE 0)
            /\ TrueEnd(p, n) \in Nat
        <4>1. TrueEnd(p, n) = first + RoundUp(n)
          BY DEF TrueEnd
        <4> HIDE DEF first
        <4> QED
          BY <3>1, <4>1, RoundUpFacts
      <3>3. TrueEnd(p, n) < byte_size
        <4>1. TrueEnd(p, n) % EndMod = TrueEnd(p, n)
          BY <1>1, <3>2, SmallMod, BoolSetAssumption
        <4>2. ~(TrueEnd(p, n) >= byte_size)
          BY <2>2, <4>1 DEF Refused
        <4> QED
          BY <3>1, <3>2, <4>2
      <3>4. /\ ~(full > 0 /\ first + full >= byte_size)
            /\ ~(n % ByteBits # 0 /\ full >= byte_size)
        <4> HIDE DEF first, full
        <4> QED
          BY <3>1, <3>2, <3>3
      <3> QED
        BY <1>1, <2>2, <3>4 DEF SetRange
    <2> QED
      BY <2>1, <2>2
  <1>2. TypeOK /\ [Next]_vars =>
           [\A p \in Positions, n \in RangeSizes, value \in BOOLEAN :
               (SetRange(p, n, value) /\ TrueEnd(p, n) < EndMod) => status' = "ok"]_vars
    BY <1>1
  <1> QED
    BY <1>2, TypeCorrect, PTL DEF Spec, RangeInBounds
=============================================================================

------------------------------ MODULE BoolSet ------------------------------
(***************************************************************************)
(* src/src/boolset.cxx: a bit set over a heap buffer of bytes, most        *)
(* significant bit first.  A byte is the set of its bits that are 1,       *)
(* numbered from the least significant one as the bit macros number them.  *)
(*                                                                         *)
(* The calloc of the constructor has succeeded here; ImlGen.tla has the    *)
(* case where it has not.  A write past the buffer ends the run as         *)
(* "fault".  Operators named Bug... are the mutated forms of the operator  *)
(* that follows them; no specification uses them.                          *)
(***************************************************************************)
EXTENDS Integers

CONSTANTS
    ByteBits,     \* bits in a byte: 8
    EndMod,       \* values of the u8 end_pos in set_range: 256
    BitCounts     \* arguments the constructor is called with

ASSUME BoolSetAssumption ==
    /\ ByteBits \in Nat \ {0}
    /\ EndMod \in Nat \ {0}
    /\ BitCounts \subseteq Nat \ {0}

VARIABLES
    bit_count,    \* bits asked for
    buf,          \* the bytes
    status        \* "ok", "fault", or "freed" once destroyed

vars == <<bit_count, buf, status>>

RoundUp(bits) == (bits \div ByteBits) + (IF bits % ByteBits # 0 THEN 1 ELSE 0)

byte_size == RoundUp(bit_count)

Bits == 0..(ByteBits - 1)
Positions == 0..(bit_count - 1)

(* MAX_VAL_FOR_SIZE(n): the n low bits. *)
LowBits(n) == 0..(n - 1)

-----------------------------------------------------------------------------
Init ==
    /\ bit_count \in BitCounts
    /\ buf = [i \in 0..(byte_size - 1) |-> {}]
    /\ status = "ok"

BitPos(p) == (ByteBits - 1) - (p % ByteBits)

GetBit(p) == BitPos(p) \in buf[p \div ByteBits]

BugSetBit(p, value) ==
    /\ status = "ok"
    /\ buf' = [buf EXCEPT ![p \div ByteBits] = {BitPos(p)}]
    /\ UNCHANGED <<bit_count, status>>

(* value is not looked at: the bit is set either way. *)
SetBit(p, value) ==
    /\ status = "ok"
    /\ buf' = [buf EXCEPT ![p \div ByteBits] = @ \cup {BitPos(p)}]
    /\ UNCHANGED <<bit_count, status>>

BugWholeMask(byte, from_msb, value) ==
    IF value THEN byte \cup 0..ByteBits ELSE byte \ 0..ByteBits

BugAssigns(byte, from_msb, value) ==
    IF value THEN LowBits(ByteBits - from_msb)
             ELSE Bits \ LowBits(ByteBits - from_msb)

(* set_in_byte: the bits from from_msb down to the least significant one. *)
SetInByte(byte, from_msb, value) ==
    IF value THEN byte \cup LowBits(ByteBits - from_msb)
             ELSE byte \ LowBits(ByteBits - from_msb)

TrueEnd(p, n) == (p \div ByteBits) + RoundUp(n)

(* The bounds check compares the end after it has been stored in a u8. *)
BugNoEndCheck(p, n) == p \div ByteBits >= byte_size

Refused(p, n) ==
    \/ p \div ByteBits >= byte_size
    \/ TrueEnd(p, n) % EndMod >= byte_size

(* The bytes set_range leaves behind: the rest of the first byte if pos is     *)
(* inside it, as many whole bytes after it as n has, and for the bits left    *)
(* over the byte at n / 8 from the start of the buffer.                       *)
RangeBytes(p, n, value) ==
    LET first == p \div ByteBits
        full == n \div ByteBits
        head == [i \in DOMAIN buf |->
                    IF i = first /\ p % ByteBits > 0
                    THEN SetInByte(buf[i], p % ByteBits, value) ELSE buf[i]]
        body == [i \in DOMAIN buf |->
                    IF i \in (first + 1)..(first + full)
                    THEN (IF value THEN Bits ELSE {}) ELSE head[i]]
    IN  [i \in DOMAIN buf |->
            IF i = full /\ n % ByteBits # 0
            THEN SetInByte(body[i], n % ByteBits, value) ELSE body[i]]

SetRange(p, n, value) ==
    /\ status = "ok"
    /\ IF Refused(p, n) THEN UNCHANGED <<buf, status>>
       ELSE LET full == n \div ByteBits
                pastEnd == \/ full > 0 /\ (p \div ByteBits) + full >= byte_size
                           \/ n % ByteBits # 0 /\ full >= byte_size
            IN  IF pastEnd
                THEN status' = "fault" /\ UNCHANGED buf
                ELSE buf' = RangeBytes(p, n, value) /\ UNCHANGED status
    /\ UNCHANGED bit_count

SetAll(value) ==
    /\ status = "ok"
    /\ buf' = [i \in DOMAIN buf |-> IF value THEN Bits ELSE {}]
    /\ UNCHANGED <<bit_count, status>>

(* ~boolset: the buffer is freed. *)
Destroy ==
    /\ status = "ok"
    /\ status' = "freed"
    /\ UNCHANGED <<bit_count, buf>>

(* Range sizes up to one byte past the set: enough to be refused. *)
RangeSizes == 0..(bit_count + ByteBits)

Next ==
    \/ \E p \in Positions, value \in BOOLEAN : SetBit(p, value)
    \/ \E p \in Positions, n \in RangeSizes, value \in BOOLEAN : SetRange(p, n, value)
    \/ \E value \in BOOLEAN : SetAll(value)
    \/ Destroy

Spec == Init /\ [][Next]_vars
-----------------------------------------------------------------------------
TypeOK ==
    /\ bit_count \in BitCounts
    /\ buf \in [0..(byte_size - 1) -> SUBSET Bits]
    /\ status \in {"ok", "fault", "freed"}

(* The set as get_bit shows it. *)
Members == {p \in Positions : GetBit(p)}

(* Setting a bit to 1 makes its position a member, and setting it to anything    *)
(* changes no other position, whatever the byte layout.  What set_bit does to  *)
(* its own position when asked for 0 is left open here: it sets it as well.    *)
SetBitExact ==
    [][\A p \in Positions, value \in BOOLEAN :
          SetBit(p, value) =>
              /\ value => p \in Members'
              /\ Members' \ {p} = Members \ {p}]_vars

(* Wrong as the extent of set_range is, it never moves a bit against value. *)
RangeOneWay ==
    [][\A p \in Positions, n \in RangeSizes, value \in BOOLEAN :
          SetRange(p, n, value) =>
              IF value THEN Members \subseteq Members' ELSE Members' \subseteq Members]_vars

(* The bounds checks of set_range keep it inside the buffer as long as the     *)
(* byte position of the end fits the u8 it is stored in.                      *)
RangeInBounds ==
    [][\A p \in Positions, n \in RangeSizes, value \in BOOLEAN :
          (SetRange(p, n, value) /\ TrueEnd(p, n) < EndMod) => status' = "ok"]_vars
=============================================================================

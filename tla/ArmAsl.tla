------------------------------ MODULE ArmAsl ------------------------------
(***************************************************************************)
(* src/src/arm_asl.c: DecodeBitMasks with its helpers HighestBitSet and    *)
(* ROR, loop step by loop step.  It expands the 13 bits N:imms:immr of a   *)
(* logical immediate to the mask they stand for: an element of 2^len bits  *)
(* with S + 1 ones, rotated right R times and repeated up to the width.    *)
(*                                                                         *)
(* A u64 is the set of the positions of its one bits.  The 6-bit fields    *)
(* are numbers, as the code takes remainders of them.                      *)
(*                                                                         *)
(* Operators named Bug... are the mutated forms of the operator that       *)
(* follows them; no specification uses them.                               *)
(***************************************************************************)
EXTENDS Integers

CONSTANTS
    LenBits,     \* 6: bits of imms and immr
    IndexMod     \* 256: values of the u8 index of HighestBitSet

ASSUME ArmAslAssumption ==
    /\ LenBits \in Nat \ {0}
    /\ IndexMod \in Nat
    /\ IndexMod > 2^LenBits

VARIABLES
    immN, imms, immr,   \* the arguments
    i,                  \* index of HighestBitSet
    len,                \* its result
    turns,              \* rotations done by ROR
    size,               \* u8 size
    pattern,            \* u64 pattern
    pc                  \* "scan", "rotate", "repeat", "done" or "abort"

args == <<immN, imms, immr>>
vars == <<args, i, len, turns, size, pattern, pc>>

Width == 2^LenBits
Bits == 0..(Width - 1)

(* The argument of HighestBitSet: N above the complement of imms. *)
Scanned == {b \in 0..(LenBits - 1) : (imms \div 2^b) % 2 = 0} \cup
           (IF immN THEN {LenBits} ELSE {})

ElemSize == 2^len

(* imms & (size - 1) and immr & (size - 1), before size grows. *)
S == imms % ElemSize
R == immr % ElemSize

BugShiftWraps(x, n) == {b + n : b \in x}

ShiftLeft(x, n) == {b + n : b \in x} \cap Bits

ShiftRight1(x) == {b - 1 : b \in x} \cap Bits

BugTurnWholeWidth(x, bit_size) == ShiftLeft(x, Width - 1) \cup ShiftRight1(x)

(* One round of ROR's loop.  Nothing clears the bits that the shift to the     *)
(* left leaves above the element.                                             *)
RotatedOnce(x, bit_size) == ShiftLeft(x, bit_size - 1) \cup ShiftRight1(x)

-----------------------------------------------------------------------------
(* A call of DecodeBitMasks with these arguments. *)
Start(N, s, r) ==
    /\ immN = N
    /\ imms = s
    /\ immr = r
    /\ i = Width - 1
    /\ len = 0
    /\ turns = 0
    /\ size = 1
    /\ pattern = {}
    /\ pc = "scan"

Init == \E N \in BOOLEAN, s, r \in 0..(Width - 1) : Start(N, s, r)

(* x >> i for an i past the width is undefined: either bit may be read. *)
BitSeen == IF i \in Bits THEN {i \in Scanned} ELSE BOOLEAN

(* i-- on a u8; the loop condition i >= 0 is always true. *)
ScanDown ==
    /\ pc = "scan"
    /\ FALSE \in BitSeen
    /\ i' = (i - 1) % IndexMod
    /\ UNCHANGED <<args, len, turns, size, pattern, pc>>

BugElementFull(n) == n \in 1..LenBits

(* The assertions on len (also negative as an s8 when i is past 127) and on S. *)
Encodable(n) == n \in 1..LenBits /\ imms % 2^n # 2^n - 1

(* HighestBitSet returns; the assertions; S + 1 ones. *)
ScanFound ==
    /\ pc = "scan"
    /\ TRUE \in BitSeen
    /\ IF Encodable(i)
       THEN /\ len' = i
            /\ size' = 2^i
            /\ pattern' = 0..(imms % 2^i)
            /\ pc' = "rotate"
       ELSE /\ pc' = "abort"
            /\ UNCHANGED <<len, size, pattern>>
    /\ UNCHANGED <<args, i, turns>>

BugOneTurnMore ==
    /\ pc = "rotate"
    /\ IF turns <= R
       THEN pattern' = RotatedOnce(pattern, size) /\ turns' = turns + 1 /\ UNCHANGED pc
       ELSE pc' = "repeat" /\ UNCHANGED <<pattern, turns>>
    /\ UNCHANGED <<args, i, len, size>>

Rotate ==
    /\ pc = "rotate"
    /\ IF turns < R
       THEN pattern' = RotatedOnce(pattern, size) /\ turns' = turns + 1 /\ UNCHANGED pc
       ELSE pc' = "repeat" /\ UNCHANGED <<pattern, turns>>
    /\ UNCHANGED <<args, i, len, size>>

BugSizeNotDoubled ==
    /\ pc = "repeat"
    /\ IF size # Width
       THEN pattern' = pattern \cup ShiftLeft(pattern, size) /\ UNCHANGED <<size, pc>>
       ELSE pc' = "done" /\ UNCHANGED <<pattern, size>>
    /\ UNCHANGED <<args, i, len, turns>>

(* while (size != 64) *)
Repeat ==
    /\ pc = "repeat"
    /\ IF size # Width
       THEN /\ pattern' = pattern \cup ShiftLeft(pattern, size)
            /\ size' = 2 * size
            /\ UNCHANGED pc
       ELSE pc' = "done" /\ UNCHANGED <<pattern, size>>
    /\ UNCHANGED <<args, i, len, turns>>

Next == ScanDown \/ ScanFound \/ Rotate \/ Repeat

(* A pure computation: it takes its next step. *)
Spec == Init /\ [][Next]_vars /\ WF_vars(Next)
-----------------------------------------------------------------------------
TypeOK ==
    /\ immN \in BOOLEAN
    /\ imms \in 0..(Width - 1) /\ immr \in 0..(Width - 1)
    /\ i \in 0..(IndexMod - 1)
    /\ len \in 0..LenBits
    /\ turns \in 0..(Width - 1)
    /\ size \in {2^n : n \in 0..LenBits}
    /\ pattern \subseteq Bits
    /\ pc \in {"scan", "rotate", "repeat", "done", "abort"}

(* The mask after t rotations, straight from what the encoding means: position *)
(* b has a one when the position it came from, t further up in its element,   *)
(* is one of the S + 1 lowest.                                                *)
Mask(t) == {b \in Bits : (b + t) % ElemSize <= S}

(* DecodeBitMasks returns the mask that N:imms:immr encodes. *)
MaskIsRight == pc = "done" => pattern = Mask(R)

(* ROR rotates a 64-bit value although the element may be narrower, and clears *)
(* nothing: the ones it leaves above the element are ones of the final mask,  *)
(* and the element itself is exact, at every round and every doubling.        *)
StrayBitsAgree ==
    pc \in {"rotate", "repeat"} =>
        /\ pattern \subseteq Mask(turns)
        /\ pattern \cap 0..(size - 1) = Mask(turns) \cap 0..(size - 1)

(* The reserved encodings, read off the bits: imms all ones, and for N = 0 all *)
(* ones but one zero, which leaves an element of 2^n bits no zero (n > 0) or   *)
(* an element of a single bit (n = 0).                                        *)
Reserved ==
    \/ imms = Width - 1
    \/ ~immN /\ \E n \in 0..(LenBits - 1) : imms = (Width - 1) - 2^n

(* No mask comes out of a reserved encoding, and no assertion rejects another. *)
StopsWhenReserved ==
    /\ pc = "abort" => Reserved
    /\ pc = "done" => ~Reserved

(* Unless HighestBitSet is asked for a bit of 0, the loops end. *)
Terminates == Scanned # {} => <>(pc \in {"done", "abort"})

(* "Pattern length must be at least 1!", the assertion on HighestBitSet's -1   *)
(* (arm_asl.c): a pattern without a length is caught.                         *)
EmptyPatternCaught == Scanned = {} => <>(pc = "abort")
=============================================================================

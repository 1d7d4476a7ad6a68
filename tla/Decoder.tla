------------------------------ MODULE Decoder ------------------------------
(***************************************************************************)
(* src/src/imlgen/decode.cxx with the expression constructors of iml.cxx:  *)
(* what decode makes of one ARM word, an instruction and the expressions   *)
(* it pushes to the IML pool.  The word is sorted by ArmEncoding; the mask *)
(* of a logical immediate is computed by ArmAsl, loop round by loop round. *)
(*                                                                         *)
(* The pool is the sequence of the expressions this word pushed, and a     *)
(* handle is an index into it counted from 0.  Immediates are bit sets,    *)
(* registers numbers.                                                      *)
(*                                                                         *)
(* Operators named Bug... are the mutated forms of the operator that       *)
(* follows them; no specification uses them.                               *)
(***************************************************************************)
EXTENDS ArmEncoding, Sequences

CONSTANTS
    Words,        \* the ARM words decode is given
    RegFiles,     \* registers the decoded expressions are evaluated for
    IndexMod      \* 256, see ArmAsl

(* The guest's registers, each a u64 or two. *)
cpu_ctx ==
    LET u64 == SUBSET (0..63)
        pair == u64 \X u64
    IN  [sp : u64, pc : u64, r : [0..30 -> u64],
         v : [0..30 -> pair], fpcr : pair, fpsr : pair]

ASSUME DecoderAssumption ==
    /\ Words \subseteq SUBSET WordBits
    /\ RegFiles \subseteq cpu_ctx
    /\ IndexMod \in Nat /\ IndexMod > 2^6

VARIABLES
    word,        \* u32 instr
    pool,        \* expressions in the IML pool
    instr,       \* instr of the decode_result
    status,      \* "call", "mask" (in DecodeBitMasks), "done" or "abort"
    immN, imms, immr, i, len, turns, size, pattern, pc   \* of DecodeBitMasks

Asl == INSTANCE ArmAsl WITH LenBits <- 6

mask == <<immN, imms, immr, i, len, turns, size, pattern, pc>>
vars == <<word, pool, instr, status, mask>>

-----------------------------------------------------------------------------
(* Fields. *)
Is64(w) == 31 \in w
Rd(w) == Number(Region(w, 0, 4))
Rn(w) == Number(Region(w, 5, 9))
Rm(w) == Number(Region(w, 16, 20))
ShiftLen(w) == Region(w, 10, 15)

(* The two-bit fields that index the tables of iml.hxx. *)
ShiftField(w) == Number(Region(w, 22, 23))
OpField(w) == Number(Region(w, 29, 30))

REGISTER_ZERO == 31

shift_type_table == <<"LSL", "LSR", "ASR", "ROR">>

bitwise_op_table == <<"AND", "OR", "XOR", "AND">>

(* Expressions.  In C only values carry a valid tag (the constructor of binary   *)
(* ones leaves is_value unwritten); kind is a ghost.                           *)
Imm(bits) == [kind |-> "imm", val |-> bits]
Reg(r) == [kind |-> "reg", val |-> r]
Node(op, l, r) == [kind |-> "node", op |-> op, left |-> l, right |-> r]

(* A zeroed expression: operation 0, both handles 0. *)
Blank == Node("ADD", 0, 0)

BugZeroKept(r) == Reg(r)

(* expression(OPERAND_REGISTER, r): the zero register reads as a constant 0. *)
Register(r) == IF r = REGISTER_ZERO THEN Imm({}) ELSE Reg(r)

BugOneHandle(p, l, op, r) ==
    [pool |-> p \o <<l, r>>, expr |-> Node(op, Len(p), Len(p))]

(* expression(pool, l, op, r) appends both sides, the left one first, and       *)
(* returns a node that is itself not in the pool.                             *)
Binary(p, l, op, r) ==
    [pool |-> p \o <<l, r>>, expr |-> Node(op, Len(p), Len(p) + 1)]

(* A value: nothing pushed. *)
Value(e) == [pool |-> <<>>, expr |-> e]

(* The second operand of the shifted-register instructions. *)
Shifted(w) ==
    IF ShiftLen(w) = {} THEN Value(Register(Rm(w)))
    ELSE Binary(<<>>, Register(Rm(w)), shift_type_table[ShiftField(w) + 1], Imm(ShiftLen(w)))

BugNegatedInside(w) ==
    LET negated == IF 21 \in w THEN Binary(<<>>, Register(Rm(w)), "NEG", Blank)
                   ELSE Value(Register(Rm(w)))
    IN  IF ShiftLen(w) = {} THEN negated
        ELSE Binary(negated.pool, negated.expr, shift_type_table[ShiftField(w) + 1],
                    Imm(ShiftLen(w)))

(* Negation goes round the shift; its right side is blank. *)
Negated(w) ==
    LET shifted == Shifted(w)
    IN  IF 21 \in w THEN Binary(shifted.pool, shifted.expr, "NEG", Blank) ELSE shifted

BugShiftIgnored(w) == Value(Imm(Region(w, 10, 21)))

(* The immediate of an addition, which only shift 0b01 wraps. *)
Imm12(w) ==
    LET imm == Imm(Region(w, 10, 21))
    IN  IF Region(w, 22, 23) = {0} THEN Binary(<<>>, imm, "LSL", Imm({3, 2})) ELSE Value(imm)

(* As the code has it: bit 30 adds. *)
AddOrSub(w) == IF 30 \in w THEN "ADD" ELSE "SUB"

(* Instructions.  touched stands for the four touched_..._flag bits. *)
MathInstr(w, set_flags, touched, e) ==
    [var |-> "math", dest_register |-> Rd(w), set_flags |-> set_flags,
     touched |-> touched, is_64bit |-> Is64(w), expr |-> e]

BranchInstr(link, hint, dest) ==
    [var |-> "branch", link |-> link, hint |-> hint, dest |-> dest]

(* decode_result{}: every byte 0, which reads as a mathematical instruction. *)
ZeroInstr == MathInstr({}, FALSE, FALSE, Blank)

(* The group decode and the decode_... it calls switch to. *)
Group(w) ==
    LET top == instr_get_group(w)
    IN  <<top, CASE top = "BRANCH" -> branch_get_group(w)
                 [] top = "DATA_IMM" -> data_imm_get_group(w)
                 [] top = "DATA_REG" -> data_reg_get_group(w)
                 [] OTHER -> "ALL">>

BranchImm == <<"BRANCH", "UNCONDITIONAL_IMM">>
BranchReg == <<"BRANCH", "UNCONDITIONAL_REG">>
AddSubImm == <<"DATA_IMM", "ADDSUB_IMM">>
LogicalImm == <<"DATA_IMM", "LOGICAL_IMM">>
LogicalShift == <<"DATA_REG", "LOGICAL_SHIFT">>
AddSubShift == <<"DATA_REG", "ADDSUB_SHIFT">>
Implemented == {BranchImm, BranchReg, AddSubImm, LogicalImm, LogicalShift, AddSubShift}
-----------------------------------------------------------------------------
(* The arguments of DecodeBitMasks are in place from the start; it only runs for *)
(* a logical immediate.                                                       *)
Init ==
    /\ word \in Words
    /\ pool = <<>>
    /\ instr = ZeroInstr
    /\ status = "call"
    /\ Asl!Start(22 \in word, Number(Region(word, 10, 15)), Number(Region(word, 16, 21)))

Called(group) == status = "call" /\ word # {} /\ Group(word) = group

Return(p, result) ==
    /\ pool' = p
    /\ instr' = result
    /\ status' = "done"
    /\ UNCHANGED <<word, mask>>

Enter(s) == status' = s /\ UNCHANGED <<word, pool, instr, mask>>

(* assert(instr != 0) *)
RejectZero == status = "call" /\ word = {} /\ Enter("abort")

(* decode_branch_unconditional to an offset: bit 31 links. *)
DecodeBranchImm ==
    /\ Called(BranchImm)
    /\ Return(<<>>, BranchInstr(31 \in word, IF 31 \in word THEN "CALL" ELSE "JUMP",
                                Imm(Region(word, 0, 25))))

(* The same to a register.  Exception returns and debug exits leave the zeroed   *)
(* destination; they and the unknown opc leave hint 0, a call.                 *)
DecodeBranchReg ==
    /\ Called(BranchReg)
    /\ LET opc == Number(Region(word, 21, 24))
       IN  Return(<<>>,
                  BranchInstr(opc = 1,
                              CASE opc = 0 -> "JUMP" [] opc = 2 -> "RETURN" [] OTHER -> "CALL",
                              Reg(IF opc \in {4, 5} THEN 0 ELSE Rn(word))))

(* decode_addsub_imm; no touched flag is set. *)
DecodeAddSubImm ==
    /\ Called(AddSubImm)
    /\ LET imm == Imm12(word)
           both == Binary(imm.pool, Register(Rn(word)), AddOrSub(word), imm.expr)
       IN  Return(both.pool, MathInstr(word, 29 \in word, FALSE, both.expr))

BugNUnchecked == Called(LogicalImm) /\ Enter("mask")

(* decode_logical_imm up to its call of DecodeBitMasks: assert(N == 0) *)
DecodeLogicalImm ==
    /\ Called(LogicalImm)
    /\ Enter(IF ~Is64(word) /\ 22 \in word THEN "abort" ELSE "mask")

RunDecodeBitMasks ==
    /\ status = "mask"
    /\ Asl!Next
    /\ UNCHANGED <<word, pool, instr, status>>

(* Its u64 result goes into a u32. *)
ImmVal == pattern \cap WordBits

MaskReturned ==
    /\ status = "mask"
    /\ pc = "done"
    /\ LET both == Binary(<<>>, Register(Rn(word)), bitwise_op_table[OpField(word) + 1],
                          Imm(ImmVal))
           flags == OpField(word) = 3
       IN  Return(both.pool, MathInstr(word, flags, flags, both.expr))

MaskRejected == status = "mask" /\ pc = "abort" /\ Enter("abort")

(* The assertion on a shift of a 32-bit register by 32 or more. *)
ShiftTooLong == ~Is64(word) /\ 5 \in ShiftLen(word)

(* decode_data_reg_logical_shift *)
DecodeLogicalShift ==
    /\ Called(LogicalShift)
    /\ IF ShiftTooLong THEN Enter("abort")
       ELSE LET second == Negated(word)
                both == Binary(second.pool, Register(Rn(word)),
                               bitwise_op_table[OpField(word) + 1], second.expr)
                flags == OpField(word) = 3
            IN  Return(both.pool, MathInstr(word, flags, flags, both.expr))

(* decode_data_reg_addsub_shift.  Its assertion on the shift type compares an     *)
(* operation with 0b11, a division, and never fails.                           *)
DecodeAddSubShift ==
    /\ Called(AddSubShift)
    /\ IF ShiftTooLong THEN Enter("abort")
       ELSE LET second == Shifted(word)
                both == Binary(second.pool, Register(Rn(word)), AddOrSub(word), second.expr)
                flags == 29 \in word
            IN  Return(both.pool, MathInstr(word, flags, flags, both.expr))

(* Everything else: move wide, loads and stores, SIMD, the other groups. *)
DecodeUnimplemented ==
    /\ status = "call"
    /\ word # {}
    /\ Group(word) \notin Implemented
    /\ Return(<<>>, ZeroInstr)

Next ==
    \/ RejectZero
    \/ DecodeBranchImm \/ DecodeBranchReg
    \/ DecodeAddSubImm
    \/ DecodeLogicalImm \/ RunDecodeBitMasks \/ MaskReturned \/ MaskRejected
    \/ DecodeLogicalShift \/ DecodeAddSubShift
    \/ DecodeUnimplemented

Spec == Init /\ [][Next]_vars
-----------------------------------------------------------------------------
(* The operations decode uses, of math_op. *)
Ops == {"ADD", "SUB", "LSL", "LSR", "ASR", "ROR", "AND", "OR", "XOR", "NEG"}

IsExpr(e) ==
    CASE e.kind = "imm"  -> e.val \in {ImmVal, {}, {3, 2}, ShiftLen(word), Region(word, 10, 21)}
      [] e.kind = "reg"  -> e.val \in 0..30
      [] e.kind = "node" -> e.op \in Ops /\ e.left \in 0..5 /\ e.right \in 0..5

IsInstr(result) ==
    CASE result.var = "math" ->
            /\ result.dest_register \in 0..31
            /\ {result.set_flags, result.touched, result.is_64bit} \subseteq BOOLEAN
            /\ IsExpr(result.expr)
      [] result.var = "branch" ->
            /\ result.link \in BOOLEAN
            /\ result.hint \in {"CALL", "RETURN", "JUMP"}
            /\ \/ result.dest.kind = "imm" /\ result.dest.val \subseteq 0..25
               \/ result.dest.kind = "reg" /\ result.dest.val \in 0..31

TypeOK ==
    /\ word \subseteq WordBits
    /\ \A n \in DOMAIN pool : IsExpr(pool[n])
    /\ Len(pool) <= 6
    /\ IsInstr(instr)
    /\ status \in {"call", "mask", "done", "abort"}
    /\ Asl!TypeOK
    /\ status = "call" =>
          /\ instr_get_group(word) \in L1_page
          /\ data_imm_get_group(word) \in L2_data_imm_page
          /\ branch_get_group(word) \in L2_branch_page
          /\ data_reg_get_group(word) \in L2_data_reg_page

(* What the A64 encoding says of the same words: the fixed bits of each class. *)
Class(w) ==
    CASE Region(w, 26, 30) = {2, 0}                   -> BranchImm
      [] Region(w, 25, 31) = {6, 5, 3, 1, 0}          -> BranchReg
      [] Region(w, 24, 28) = {4, 0}                   -> AddSubImm
      [] Region(w, 23, 28) = {5, 2}                   -> LogicalImm
      [] Region(w, 24, 28) = {3, 1}                   -> LogicalShift
      [] Region(w, 24, 28) = {3, 1, 0} /\ 21 \notin w -> AddSubShift
      [] OTHER                                        -> <<"OTHER">>

(* A word reaches the decode_... function of its class, and no other word does. *)
(* In each table at most one entry matches, so their order is of no matter.    *)
GroupsRight ==
    status = "call" =>
        /\ Group(word) = Class(word) \/ {Group(word), Class(word)} \cap Implemented = {}
        /\ \A hits \in {TopHits(word), DataImmHits(word), BranchHits(word)} :
              Cardinality(hits) <= 1

(* The objects of the tree: those in the pool and, last, the root. *)
At(n) == IF n = Len(pool) THEN instr.expr ELSE pool[n + 1]
Children(n) ==
    IF At(n).kind = "node" /\ At(n) # Blank THEN {At(n).left, At(n).right} ELSE {}

(* Each expression pushed is in the tree of the instruction, once, and was      *)
(* pushed before the expression above it: two for each of at most three binary *)
(* ones, the sequence of pushes ImlGen counts on.                             *)
TreeComplete ==
    status = "done" /\ instr.var = "math" =>
        /\ Len(pool) \in {0, 2, 4, 6}
        /\ \A n \in 0..Len(pool) : \A h \in Children(n) : h < n
        /\ \A h \in 0..(Len(pool) - 1) :
              Cardinality({n \in 0..Len(pool) : h \in Children(n)}) = 1

(* The meaning of expressions on values of W bits (iml.hxx). *)
Apply(op, x, y, W) ==
    LET n == Number(y)
        high == {b - n : b \in x} \cap Nat
    IN  CASE op = "AND" -> x \cap y
          [] op = "OR"  -> x \cup y
          [] op = "XOR" -> (x \cup y) \ (x \cap y)
          [] op = "NEG" -> (0..(W - 1)) \ x
          [] op = "LSL" -> {b + n : b \in x} \cap (0..(W - 1))
          [] op = "LSR" -> high
          [] op = "ASR" -> high \cup (IF W - 1 \in x THEN (W - n)..(W - 1) ELSE {})
          [] op = "ROR" -> {(b - n) % W : b \in x}

ValueAt(m, regs, W) ==
    LET val[n \in 0..Len(pool)] ==
            LET e == At(n)
            IN  CASE e.kind = "imm" -> e.val \cap (0..(W - 1))
                  [] e.kind = "reg" -> regs.r[e.val] \cap (0..(W - 1))
                  [] OTHER -> Apply(e.op, val[e.left],
                                    IF e.op = "NEG" THEN {} ELSE val[e.right], W)
    IN  val[m]

Result(regs, W) == ValueAt(Len(pool), regs, W)

(* Bit by bit, what the A64 instruction does. *)
RegValue(regs, r) == IF r = 31 THEN {} ELSE regs.r[r]

ShiftedBit(m, b, W) ==
    LET n == Number(ShiftLen(word))
    IN  CASE ShiftField(word) = 0 -> b - n \in m
          [] ShiftField(word) = 1 -> b + n < W /\ b + n \in m
          [] ShiftField(word) = 2 -> (IF b + n < W THEN b + n ELSE W - 1) \in m
          [] ShiftField(word) = 3 -> (b + n) % W \in m

LogicalBit(x, y) ==
    CASE OpField(word) \in {0, 3} -> x /\ y
      [] OpField(word) = 1        -> x \/ y
      [] OpField(word) = 2        -> x # y

RegWidth == IF Is64(word) THEN 64 ELSE 32

Decoded(group) == status = "done" /\ Class(word) = group

LogicalImmValue(regs, W) ==
    LET n == RegValue(regs, Rn(word))
    IN  {b \in 0..(W - 1) : LogicalBit(b \in n, b \in Asl!Mask(Asl!R))}

(* The tree decoded for AND, ORR, EOR, ANDS, BIC, ORN, EON and BICS has the      *)
(* value the A64 instruction computes: on shifted registers at full width, on  *)
(* immediates in the low 32 bits.                                             *)
LogicalRight ==
    /\ Decoded(LogicalShift) =>
          \A regs \in RegFiles :
              LET n == RegValue(regs, Rn(word))
                  m == RegValue(regs, Rm(word))
              IN  Result(regs, RegWidth) =
                      {b \in 0..(RegWidth - 1) :
                          LogicalBit(b \in n, ShiftedBit(m, b, RegWidth) # (21 \in word))}
    /\ Decoded(LogicalImm) =>
          \A regs \in RegFiles : Result(regs, 32) = LogicalImmValue(regs, 32)

(* The operands decoded for ADD, SUB, ADDS and SUBS have the values the A64      *)
(* instruction uses, wherever the word is allocated and 31 is not the stack    *)
(* pointer.                                                                   *)
AddSubOperandsRight ==
    \/ Decoded(AddSubShift) /\ ShiftField(word) # 3
    \/ Decoded(AddSubImm) /\ ShiftField(word) <= 1 /\ Rn(word) # 31
    => \A regs \in RegFiles :
          LET n == RegValue(regs, Rn(word))
              m == RegValue(regs, Rm(word))
              Bits == 0..(RegWidth - 1)
          IN  /\ ValueAt(instr.expr.left, regs, RegWidth) = n \cap Bits
              /\ ValueAt(instr.expr.right, regs, RegWidth) =
                    IF Class(word) = AddSubShift
                    THEN {b \in Bits : ShiftedBit(m, b, RegWidth)}
                    ELSE {b \in Bits : b - 12 * ShiftField(word) \in Region(word, 10, 21)}

(* The words the assertions are there for: 0, a 64-bit mask for a 32-bit         *)
(* register or one that encodes nothing, a shift past the register, and for    *)
(* an addition a shift of type 0b11.                                          *)
LongShift == Class(word) \in {LogicalShift, AddSubShift} /\ ~Is64(word) /\ 15 \in word

InvalidShift == Class(word) = AddSubShift /\ ShiftField(word) = 3

Reserved ==
    \/ word = {}
    \/ Class(word) = LogicalImm /\ (Asl!Reserved \/ (~Is64(word) /\ 22 \in word))
    \/ LongShift
    \/ InvalidShift

(* decode stops at no other word, and passes over none of these but the last    *)
(* kind: "Invalid shift type!" (decode.cxx) is an assertion about the entry of  *)
(* shift_type_table, which is an operation, where it means the field itself.   *)
(* So an addition with shift type 3 may be decoded, as the rotation it cannot  *)
(* encode, unless it also shifts too far.                                     *)
StopsWhenReserved ==
    /\ status = "abort" => Reserved
    /\ status = "done" /\ Reserved => InvalidShift /\ ~LongShift

(* test/base.s: and x1, x2, #0xFFFFFFFFFFFFFFFE, "Largest possible bitmask     *)
(* value, to test the decoder" -- a 64-bit mask is decoded at its full width.  *)
MaskAtFullWidth ==
    Decoded(LogicalImm) /\ Is64(word) =>
        \A regs \in RegFiles : Result(regs, 64) = LogicalImmValue(regs, 64)

(* test/base.s and test/square.s: add and sub.  Bit 30 is clear in an ADD.       *)
AddsWhenAdd ==
    Decoded(AddSubImm) \/ Decoded(AddSubShift) =>
        instr.expr.op = IF 30 \in word THEN "SUB" ELSE "ADD"
=============================================================================

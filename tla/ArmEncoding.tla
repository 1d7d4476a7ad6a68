---------------------------- MODULE ArmEncoding ----------------------------
(***************************************************************************)
(* src/src/imlgen/arm_encoding.c and .h, with the field macros of          *)
(* bitmanip.h: the tables that sort ARM words into groups.                 *)
(*                                                                         *)
(* A word is the set of the positions of its one bits, and so is a mask or *)
(* a pattern of a table; 0b1010 reads {3, 1}.                              *)
(*                                                                         *)
(* Operators named Bug... are the mutated forms of the operator that       *)
(* follows them; no specification uses them.                               *)
(***************************************************************************)
EXTENDS Integers, FiniteSetsExt

WordBits == 0..31

(* GET_BIT_REGION: bits lo to hi, moved down to bit 0. *)
Region(w, lo, hi) == {b - lo : b \in w \cap (lo..hi)}

(* The number a bit set stands for. *)
Number(bits) == MapThenSumSet(LAMBDA b : 2^b, bits)

(* arm_page_entry; an arm_double_page_entry checks two values. *)
Entry(mask, pattern, group) == [mask |-> mask, pattern |-> pattern, group |-> group]

DoubleEntry(mask1, pattern1, mask2, pattern2, group) ==
    [mask1 |-> mask1, pattern1 |-> pattern1,
     mask2 |-> mask2, pattern2 |-> pattern2, group |-> group]

(* The groups. *)
L1_page == {"UNALLOCATED", "DATA_IMM", "BRANCH", "LD_STR", "DATA_REG", "DATA_SIMD"}

L2_data_imm_page ==
    {"UNALLOCATED", "PC_REL_ADDR", "ADDSUB_IMM", "LOGICAL_IMM", "MOV_WIDE", "BITFIELD",
     "EXTRACT"}

L2_branch_page ==
    {"CONDITIONAL", "EXCEPTION", "SYSTEM", "UNCONDITIONAL_REG", "UNCONDITIONAL_IMM",
     "COMPARE", "TEST", "UNALLOCATED"}

L2_data_reg_page ==
    {"3_SOURCES", "2_SOURCES", "1_SOURCE", "LOGICAL_SHIFT", "ADDSUB_SHIFT",
     "ADDSUB_EXTEND", "ADDSUB_CARRY", "COND_COMP_REG", "COND_COMP_IMM", "COND_SEL",
     "UNALLOCATED"}

top_instr_pagetable == <<
    Entry({3, 2, 1},    {3},          "DATA_IMM"),
    Entry({3, 2, 1},    {3, 1},       "BRANCH"),
    Entry({2, 0},       {2},          "LD_STR"),
    Entry({2, 1, 0},    {2, 0},       "DATA_REG"),
    Entry({3, 2, 1, 0}, {2, 1, 0},    "DATA_SIMD"),
    Entry({3, 2, 1, 0}, {3, 2, 1, 0}, "DATA_SIMD") >>

BugAddSubAny == <<
    Entry({2, 1},    {},        "PC_REL_ADDR"),
    Entry({1},       {1},       "ADDSUB_IMM"),
    Entry({2, 1, 0}, {2},       "LOGICAL_IMM"),
    Entry({2, 1, 0}, {2, 0},    "MOV_WIDE"),
    Entry({2, 1, 0}, {2, 1},    "BITFIELD"),
    Entry({2, 1, 0}, {2, 1, 0}, "EXTRACT") >>

data_imm_pagetable == <<
    Entry({2, 1},    {},        "PC_REL_ADDR"),
    Entry({2, 1},    {1},       "ADDSUB_IMM"),
    Entry({2, 1, 0}, {2},       "LOGICAL_IMM"),
    Entry({2, 1, 0}, {2, 0},    "MOV_WIDE"),
    Entry({2, 1, 0}, {2, 1},    "BITFIELD"),
    Entry({2, 1, 0}, {2, 1, 0}, "EXTRACT") >>

branch_pagetable == <<
    DoubleEntry({2, 1, 0}, {1},    {3},          {},  "CONDITIONAL"),
    DoubleEntry({2, 1, 0}, {2, 1}, {3, 2},       {},  "EXCEPTION"),
    DoubleEntry({2, 1, 0}, {2, 1}, {3, 2, 1, 0}, {2}, "SYSTEM"),
    DoubleEntry({2, 1, 0}, {2, 1}, {3},          {3}, "UNCONDITIONAL_REG"),
    DoubleEntry({1, 0},    {},     {},           {},  "UNCONDITIONAL_IMM"),
    DoubleEntry({1, 0},    {0},    {3},          {},  "COMPARE"),
    DoubleEntry({1, 0},    {0},    {3},          {3}, "TEST") >>

(* The entries that match, and the group of the first of them. *)
Hits(op0, table) ==
    {k \in DOMAIN table : op0 \cap table[k].mask = table[k].pattern}

DoubleHits(op0, op1, table) ==
    {k \in DOMAIN table : /\ op0 \cap table[k].mask1 = table[k].pattern1
                          /\ op1 \cap table[k].mask2 = table[k].pattern2}

FirstGroup(hits, table) ==
    IF hits = {} THEN "UNALLOCATED" ELSE table[Min(hits)].group

(* Five bits are read and the masks look at four: bit 29 never matters. *)
TopHits(w) == Hits(Region(w, 25, 29), top_instr_pagetable)
DataImmHits(w) == Hits(Region(w, 23, 25), data_imm_pagetable)
BranchHits(w) == DoubleHits(Region(w, 29, 31), Region(w, 22, 25), branch_pagetable)

instr_get_group(w) == FirstGroup(TopHits(w), top_instr_pagetable)
data_imm_get_group(w) == FirstGroup(DataImmHits(w), data_imm_pagetable)
branch_get_group(w) == FirstGroup(BranchHits(w), branch_pagetable)

(* Without bit 28 (op1 = 0) the tests on op2 (bits 21 to 24) are exhaustive; with *)
(* it, they name some of the sixteen values.                                  *)
data_reg_get_group(w) ==
    LET op2 == Region(w, 21, 24)
    IN  CASE 28 \notin w /\ 3 \notin op2              -> "LOGICAL_SHIFT"
          [] 28 \notin w /\ 3 \in op2 /\ 0 \notin op2 -> "ADDSUB_SHIFT"
          [] 28 \notin w /\ 3 \in op2 /\ 0 \in op2    -> "ADDSUB_EXTEND"
          [] 28 \in w /\ op2 = {}                     -> "ADDSUB_CARRY"
          [] 28 \in w /\ op2 = {1} /\ 11 \in w        -> "COND_COMP_IMM"
          [] 28 \in w /\ op2 = {1} /\ 11 \notin w     -> "COND_COMP_REG"
          [] 28 \in w /\ op2 = {2}                    -> "COND_SEL"
          [] 28 \in w /\ op2 = {2, 1} /\ 30 \notin w  -> "2_SOURCES"
          [] 28 \in w /\ op2 = {2, 1} /\ 30 \in w     -> "1_SOURCE"
          [] 28 \in w /\ 3 \in op2                    -> "3_SOURCES"
          [] OTHER                                    -> "UNALLOCATED"
=============================================================================

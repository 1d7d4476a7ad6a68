------------------------------ MODULE RegAlloc ------------------------------
(***************************************************************************)
(* src/src/regalloc.c: which x86 register stands for which ARM register.   *)
(* The table taken_gp and the flag full are the whole state of the code;   *)
(* given, answer and wasReset are ghosts that remember what callers were   *)
(* told.                                                                   *)
(*                                                                         *)
(* Operators named Bug... are the mutated forms of the operator that       *)
(* follows them; no specification uses them.                               *)
(***************************************************************************)
EXTENDS Integers, FiniteSets

CONSTANTS
    X86_GP_COUNT,   \* slots reg_alloc scans; the table has two more
    RSP, RBP,       \* indices of the two registers reserved at start
    ArmRegs         \* register numbers callers pass (5 bits, and REGISTER_PC)

ASSUME RegAllocAssumption ==
    /\ X86_GP_COUNT \in Nat
    /\ RSP \in 0..(X86_GP_COUNT - 1)
    /\ RBP \in 0..(X86_GP_COUNT - 1)
    /\ RSP # RBP
    /\ ArmRegs \subseteq 0..32

VARIABLES
    taken_gp,   \* x86 register |-> 1 + the ARM register it is claimed for, or 0
    full,       \* every later call answers -1
    given,      \* ghost: ARM register |-> the x86 register callers were given
    answer,     \* result of the last reg_alloc
    wasReset    \* ghost: reg_reset has been called

vars == <<taken_gp, full, given, answer, wasReset>>

Slots == 0..(X86_GP_COUNT + 1)
Scanned == 0..(X86_GP_COUNT - 1)
Spill == -1
Reserved == 255     \* 0xFF, the initial mark of RSP and RBP
FramePointer == 29
StackPointer == 31

Nobody == [r \in {} |-> Spill]

BugInitUnreserved ==
    /\ taken_gp = [i \in Slots |-> 0]
    /\ full = FALSE
    /\ given = Nobody
    /\ answer = Spill
    /\ wasReset = FALSE

Init ==
    /\ taken_gp = [i \in Slots |-> IF i \in {RSP, RBP} THEN Reserved ELSE 0]
    /\ full = FALSE
    /\ given = Nobody
    /\ answer = Spill
    /\ wasReset = FALSE

(* The scan for id ends at slot i: it is id's, or it is free. *)
StopsAt(i, id) == taken_gp[i] \in {id, 0}

BugAnyStop(id, i) == StopsAt(i, id)

BugLastStop(id, i) == StopsAt(i, id) /\ \A j \in (i + 1)..(X86_GP_COUNT - 1) : ~StopsAt(j, id)

FirstStop(id, i) == StopsAt(i, id) /\ \A j \in 0..(i - 1) : ~StopsAt(j, id)

BugAnswersId(r, i) ==
    /\ answer' = r + 1
    /\ taken_gp' = [taken_gp EXCEPT ![i] = r + 1]
    /\ given' = [s \in DOMAIN given \cup {r} |-> IF s = r THEN i ELSE given[s]]
    /\ UNCHANGED <<full, wasReset>>

BugClaimNotStored(r, i) ==
    /\ answer' = i
    /\ given' = [s \in DOMAIN given \cup {r} |-> IF s = r THEN i ELSE given[s]]
    /\ UNCHANGED <<taken_gp, full, wasReset>>

(* Slot i is (or becomes) r's, and the caller is told so. *)
AnswerSlot(r, i) ==
    /\ answer' = i
    /\ taken_gp' = [taken_gp EXCEPT ![i] = r + 1]
    /\ given' = [s \in DOMAIN given \cup {r} |-> IF s = r THEN i ELSE given[s]]
    /\ UNCHANGED <<full, wasReset>>

(* No slot: mark the fixed register of X29 or SP, and give up for good. *)
AnswerSpill(r) ==
    /\ taken_gp' = CASE r = FramePointer -> [taken_gp EXCEPT ![RBP] = r + 1]
                     [] r = StackPointer -> [taken_gp EXCEPT ![RSP] = r + 1]
                     [] OTHER -> taken_gp
    /\ full' = TRUE
    /\ answer' = Spill
    /\ UNCHANGED <<given, wasReset>>

(* reg_alloc while there may be a slot for r. *)
RegAlloc(r) ==
    /\ ~full
    /\ \/ \E i \in Scanned : FirstStop(r + 1, i) /\ AnswerSlot(r, i)
       \/ /\ \A i \in Scanned : ~StopsAt(i, r + 1)
          /\ AnswerSpill(r)

(* Early exit: -1 for every register, also for one that has a slot. *)
RegAllocFull ==
    /\ full
    /\ answer' = Spill
    /\ UNCHANGED <<taken_gp, full, given, wasReset>>

BugResetKeepsFull ==
    /\ taken_gp' = [i \in Slots |-> 0]
    /\ given' = Nobody
    /\ wasReset' = TRUE
    /\ UNCHANGED <<full, answer>>

(* memset of the whole table: the two reserved marks go too. *)
RegReset ==
    /\ taken_gp' = [i \in Slots |-> 0]
    /\ full' = FALSE
    /\ given' = Nobody
    /\ wasReset' = TRUE
    /\ UNCHANGED answer

Next ==
    \/ \E r \in ArmRegs : RegAlloc(r) \/ RegAllocFull
    \/ RegReset

Spec == Init /\ [][Next]_vars
-----------------------------------------------------------------------------
TypeOK ==
    /\ taken_gp \in [Slots -> 0..255]
    /\ full \in BOOLEAN
    /\ DOMAIN given \subseteq ArmRegs
    /\ given \in [DOMAIN given -> Scanned]
    /\ answer \in Scanned \cup {Spill}
    /\ wasReset \in BOOLEAN

(* The table is all reg_alloc knows, and callers keep using what they were    *)
(* told: until it gives up, slot i carries r's mark exactly when the callers  *)
(* were told that i is r's, so that no two ARM registers share a register.    *)
TableMatchesAnswers ==
    ~full =>
        /\ \A r \in DOMAIN given : taken_gp[given[r]] = r + 1
        /\ \A i \in Slots :
              taken_gp[i] \notin {0, Reserved} =>
                  \E r \in DOMAIN given : given[r] = i /\ taken_gp[i] = r + 1

(* The claimed slots have no gap: that the scan may stop at the first free    *)
(* slot without missing a later claim depends on it.                          *)
NoGaps ==
    ~full => \A i, j \in Scanned :
        (i < j /\ taken_gp[i] = 0) => taken_gp[j] \in {0, Reserved}

(* "RSP & RBP are specially reserved for their ARM counterparts" (the comment  *)
(* on taken_gp): who is given RSP is SP, and who is given RBP is X29.          *)
ReservedForCounterparts ==
    \A r \in DOMAIN given :
        /\ given[r] = RSP => r = StackPointer
        /\ given[r] = RBP => r = FramePointer

(* Until the first reg_reset no other ARM register is given either, in any      *)
(* order of requests and also when SP or X29 has put its own mark in place of   *)
(* the reserved one.  (That the counterparts are given them is another matter: *)
(* they get ordinary slots.)                                                  *)
ReservedUntilReset == ~wasReset => ReservedForCounterparts

(* reg_alloc gives up only when it has handed out every slot it scans. *)
GivesUpWhenUsed ==
    full => \A i \in Scanned :
        \/ \E r \in DOMAIN given : given[r] = i
        \/ ~wasReset /\ i \in {RSP, RBP}

(* The allocator implements RegMap. *)
Map == INSTANCE RegMap WITH X86Regs <- Scanned, map <- given, spilling <- full

MapSpec == Map!Spec
=============================================================================

------------------------------- MODULE RegMap -------------------------------
(***************************************************************************)
(* What regalloc.h promises a translator, with no table in sight: an ARM   *)
(* register gets an x86 register of its own and gets the same one each     *)
(* time it asks, until the registers run out.  From then on the answer is  *)
(* to spill, whoever asks, until everything is reset.                      *)
(***************************************************************************)
EXTENDS Integers

CONSTANTS ArmRegs, X86Regs, Spill   \* Spill: the answer that is no register

VARIABLES
    map,        \* ARM register |-> its x86 register
    spilling,   \* the registers have run out
    answer      \* result of the last call

Init ==
    /\ map = [r \in {} |-> Spill]
    /\ spilling = FALSE
    /\ answer = Spill

Lookup(r) ==
    /\ ~spilling
    /\ r \in DOMAIN map
    /\ answer' = map[r]
    /\ UNCHANGED <<map, spilling>>

Assign(r, x) ==
    /\ ~spilling
    /\ r \notin DOMAIN map
    /\ \A s \in DOMAIN map : map[s] # x
    /\ map' = [s \in DOMAIN map \cup {r} |-> IF s = r THEN x ELSE map[s]]
    /\ answer' = x
    /\ UNCHANGED spilling

RunOut(r) ==
    /\ r \in DOMAIN map => spilling
    /\ spilling' = TRUE
    /\ answer' = Spill
    /\ UNCHANGED map

Reset ==
    /\ map' = [r \in {} |-> Spill]
    /\ spilling' = FALSE
    /\ UNCHANGED answer

Next ==
    \/ \E r \in ArmRegs :
          Lookup(r) \/ RunOut(r) \/ \E x \in X86Regs : Assign(r, x)
    \/ Reset

Spec == Init /\ [][Next]_<<map, spilling, answer>>
=============================================================================

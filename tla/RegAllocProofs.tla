--------------------------- MODULE RegAllocProofs ---------------------------
(***************************************************************************)
(* The register allocator keeps its promises for every number of slots,    *)
(* every pair of reserved registers and every set of ARM registers.        *)
(***************************************************************************)
EXTENDS RegAlloc, TLAPS

(* No two ARM registers share an x86 register. *)
Injective ==
    \A r, s \in DOMAIN given : given[r] = given[s] => r = s

(* Only the two reserved registers ever carry the reserved mark, and both     *)
(* carry it until the table is wiped or the allocator gives up.               *)
MarksOK ==
    ~full =>
        /\ \A i \in Slots : taken_gp[i] = Reserved => ~wasReset /\ i \in {RSP, RBP}
        /\ ~wasReset => taken_gp[RSP] = Reserved /\ taken_gp[RBP] = Reserved

IInv ==
    /\ TypeOK
    /\ TableMatchesAnswers
    /\ NoGaps
    /\ ReservedUntilReset
    /\ GivesUpWhenUsed
    /\ Injective
    /\ MarksOK

LEMMA SlotFacts ==
    /\ Scanned \subseteq Slots
    /\ RSP \in Scanned /\ RBP \in Scanned
    /\ \A r \in ArmRegs : r + 1 \in 1..33
  BY RegAllocAssumption DEF Scanned, Slots

LEMMA InitInv == Init => IInv
  <1> SUFFICES ASSUME Init PROVE IInv
    OBVIOUS
  <1>1. DOMAIN given = {}
    BY DEF Init, Nobody
  <1>2. \A i \in Slots : taken_gp[i] = IF i \in {RSP, RBP} THEN Reserved ELSE 0
    BY DEF Init
  <1>3. TypeOK
    <2>1. given \in [DOMAIN given -> Scanned] /\ taken_gp \in [Slots -> 0..255]
      BY DEF Init, Nobody, Reserved
    <2>. QED
      BY <1>1, <2>1 DEF Init, TypeOK
  <1>4. TableMatchesAnswers /\ NoGaps
    BY <1>1, <1>2, SlotFacts DEF TableMatchesAnswers, NoGaps
  <1>5. ReservedUntilReset /\ GivesUpWhenUsed /\ Injective
    BY <1>1 DEF Init, ReservedUntilReset, ReservedForCounterparts, GivesUpWhenUsed, Injective
  <1>6. MarksOK
    BY <1>2, SlotFacts DEF Init, MarksOK, Reserved
  <1>. QED
    BY <1>3, <1>4, <1>5, <1>6 DEF IInv

LEMMA ResetInv == IInv /\ RegReset => IInv'
  <1> SUFFICES ASSUME IInv, RegReset PROVE IInv'
    OBVIOUS
  <1>1. /\ taken_gp' = [i \in Slots |-> 0]
        /\ full' = FALSE /\ given' = Nobody /\ wasReset' = TRUE
        /\ answer' \in Scanned \cup {Spill}
    BY DEF RegReset, IInv, TypeOK
  <1>2. DOMAIN given' = {}
    BY <1>1 DEF Nobody
  <1>3. TypeOK'
    <2>1. given' \in [DOMAIN given' -> Scanned] /\ taken_gp' \in [Slots -> 0..255]
      BY <1>1 DEF Nobody
    <2>. QED
      BY <1>1, <1>2, <2>1 DEF TypeOK
  <1>4. TableMatchesAnswers' /\ NoGaps'
    BY <1>1, <1>2, SlotFacts DEF TableMatchesAnswers, NoGaps
  <1>5. ReservedUntilReset' /\ GivesUpWhenUsed' /\ Injective'
    BY <1>1, <1>2 DEF ReservedUntilReset, GivesUpWhenUsed, Injective
  <1>6. MarksOK'
    BY <1>1 DEF MarksOK, Reserved
  <1>. QED
    BY <1>3, <1>4, <1>5, <1>6 DEF IInv

(* Where the scan for r stops: at r's own slot if callers were given one, and  *)
(* otherwise at a free slot.                                                   *)
LEMMA ScanFindsOwnSlot ==
    ASSUME IInv, ~full, NEW r \in ArmRegs, NEW i \in Scanned, FirstStop(r + 1, i)
    PROVE  /\ r \in DOMAIN given => given[r] = i
           /\ r \notin DOMAIN given => taken_gp[i] = 0
  <1>1. CASE r \in DOMAIN given
    <2> DEFINE j == given[r]
    <2>1. j \in Scanned /\ taken_gp[j] = r + 1
      BY <1>1 DEF IInv, TypeOK, TableMatchesAnswers
    <2>2. ~(j < i)
      BY <2>1 DEF FirstStop, StopsAt, Scanned
    <2>3. ASSUME i < j PROVE FALSE
      <3>1. CASE taken_gp[i] = 0
        BY <3>1, <2>1, <2>3, SlotFacts DEF IInv, NoGaps, Reserved
      <3>2. CASE taken_gp[i] = r + 1
        <4>1. PICK s \in DOMAIN given : given[s] = i /\ taken_gp[i] = s + 1
          BY <3>2, SlotFacts DEF IInv, TableMatchesAnswers, Reserved
        <4>2. s \in ArmRegs
          BY <4>1 DEF IInv, TypeOK
        <4>3. s = r
          BY <3>2, <4>1, <4>2, RegAllocAssumption
        <4>. QED
          BY <4>1, <4>3, <2>1, <2>3 DEF Scanned
      <3>. QED
        BY <3>1, <3>2 DEF FirstStop, StopsAt
    <2>. QED
      BY <1>1, <2>1, <2>2, <2>3 DEF Scanned
  <1>2. CASE r \notin DOMAIN given
    <2>1. ASSUME taken_gp[i] = r + 1 PROVE FALSE
      <3>1. PICK s \in DOMAIN given : given[s] = i /\ taken_gp[i] = s + 1
        BY <2>1, SlotFacts DEF IInv, TableMatchesAnswers, Reserved
      <3>2. s \in ArmRegs
        BY <3>1 DEF IInv, TypeOK
      <3>. QED
        BY <2>1, <3>1, <3>2, <1>2, RegAllocAssumption
    <2>. QED
      BY <1>2, <2>1 DEF FirstStop, StopsAt
  <1>. QED
    BY <1>1, <1>2

LEMMA AnswerSlotInv ==
    ASSUME IInv, ~full, NEW r \in ArmRegs, NEW i \in Scanned,
           FirstStop(r + 1, i), AnswerSlot(r, i)
    PROVE  IInv'
  <1>1. /\ answer' = i
        /\ taken_gp' = [taken_gp EXCEPT ![i] = r + 1]
        /\ given' = [s \in DOMAIN given \cup {r} |-> IF s = r THEN i ELSE given[s]]
        /\ full' = full /\ wasReset' = wasReset
    BY DEF AnswerSlot
  <1>2. /\ r \in DOMAIN given => given[r] = i
        /\ r \notin DOMAIN given => taken_gp[i] = 0
    BY ScanFindsOwnSlot
  <1>3. /\ taken_gp \in [Slots -> 0..255]
        /\ \A s \in DOMAIN given : s \in ArmRegs /\ given[s] \in Scanned
        /\ i \in Slots
        /\ r + 1 \in 1..33
    BY SlotFacts DEF IInv, TypeOK
  <1>4. /\ \A s \in DOMAIN given : taken_gp[given[s]] = s + 1
        /\ \A j \in Slots : taken_gp[j] \notin {0, Reserved} =>
              \E s \in DOMAIN given : given[s] = j /\ taken_gp[j] = s + 1
    BY DEF IInv, TableMatchesAnswers
  <1>5. \A s \in DOMAIN given : s # r => given[s] # i
    <2> SUFFICES ASSUME NEW s \in DOMAIN given, s # r, given[s] = i PROVE FALSE
      OBVIOUS
    <2>1. taken_gp[i] = s + 1
      BY <1>4
    <2>2. s + 1 # 0 /\ s + 1 # r + 1
      <3>1. s \in 0..32 /\ r \in 0..32
        BY <1>3, RegAllocAssumption
      <3>. QED
        BY <3>1
    <2>. QED
      BY <2>1, <2>2, <1>2, <1>4
  <1>6. taken_gp[i] \in {0, r + 1}
    BY DEF FirstStop, StopsAt
  <1>7. /\ DOMAIN given' = DOMAIN given \cup {r}
        /\ given'[r] = i
        /\ \A s \in DOMAIN given : s # r => given'[s] = given[s]
    BY <1>1
  <1>8. /\ taken_gp'[i] = r + 1
        /\ \A j \in Slots : j # i => taken_gp'[j] = taken_gp[j]
    BY <1>1, <1>3
  <1>9. TypeOK'
    <2>1. taken_gp' \in [Slots -> 0..255]
      BY <1>1, <1>3
    <2>2. given' \in [DOMAIN given' -> Scanned]
      BY <1>1, <1>3
    <2>. QED
      BY <2>1, <2>2, <1>1, <1>3, <1>7 DEF IInv, TypeOK
  <1>10. TableMatchesAnswers'
    <2>1. \A s \in DOMAIN given' : taken_gp'[given'[s]] = s + 1
      BY <1>3, <1>4, <1>5, <1>7, <1>8, SlotFacts
    <2>2. ASSUME NEW j \in Slots, taken_gp'[j] \notin {0, Reserved}
          PROVE  \E s \in DOMAIN given' : given'[s] = j /\ taken_gp'[j] = s + 1
      <3>1. CASE j = i
        BY <3>1, <1>7, <1>8
      <3>2. CASE j # i
        <4>1. PICK s \in DOMAIN given : given[s] = j /\ taken_gp[j] = s + 1
          BY <2>2, <3>2, <1>4, <1>8
        <4>2. s # r
          BY <4>1, <3>2, <1>2
        <4>. QED
          BY <4>1, <4>2, <3>2, <1>7, <1>8
      <3>. QED
        BY <3>1, <3>2
    <2>. QED
      BY <2>1, <2>2 DEF TableMatchesAnswers
  <1>11. NoGaps'
    <2> SUFFICES ASSUME NEW j \in Scanned, NEW k \in Scanned, j < k, taken_gp'[j] = 0
                 PROVE  taken_gp'[k] \in {0, Reserved}
      BY DEF NoGaps
    <2>1. j # i /\ taken_gp[j] = 0
      BY <1>3, <1>8, SlotFacts
    <2>2. k # i
      <3>1. ASSUME k = i PROVE FALSE
        <4>1. j \in 0..(i - 1)
          BY <3>1 DEF Scanned
        <4>. QED
          BY <4>1, <2>1 DEF FirstStop, StopsAt
      <3>. QED
        BY <3>1
    <2>3. taken_gp[k] \in {0, Reserved}
      BY <2>1 DEF IInv, NoGaps
    <2>. QED
      BY <2>2, <2>3, <1>8, SlotFacts
  <1>12. ReservedUntilReset'
    <2>1. ASSUME ~wasReset PROVE i \notin {RSP, RBP}
      BY <2>1, <1>6, <1>3 DEF IInv, MarksOK, Reserved
    <2>. QED
      BY <2>1, <1>1, <1>7 DEF IInv, ReservedUntilReset, ReservedForCounterparts
  <1>13. GivesUpWhenUsed'
    BY <1>1 DEF GivesUpWhenUsed
  <1>14. Injective'
    BY <1>5, <1>7 DEF IInv, Injective
  <1>15. MarksOK'
    <2>1. r + 1 # Reserved
      BY <1>3 DEF Reserved
    <2>2. \A j \in Slots : taken_gp'[j] = Reserved => taken_gp[j] = Reserved
      BY <2>1, <1>8
    <2>3. ~wasReset => i # RSP /\ i # RBP
      BY <1>6, <1>3 DEF IInv, MarksOK, Reserved
    <2>. QED
      BY <2>2, <2>3, <1>1, <1>8, SlotFacts DEF IInv, MarksOK
  <1>. QED
    BY <1>9, <1>10, <1>11, <1>12, <1>13, <1>14, <1>15 DEF IInv

LEMMA AnswerSpillInv ==
    ASSUME IInv, ~full, NEW r \in ArmRegs,
           \A i \in Scanned : ~StopsAt(i, r + 1),
           AnswerSpill(r)
    PROVE  IInv'
  <1>1. /\ full' = TRUE /\ answer' = Spill
        /\ given' = given /\ wasReset' = wasReset
    BY DEF AnswerSpill
  <1>2. TypeOK'
    <2>1. r + 1 \in 0..255
      BY SlotFacts
    <2>2. taken_gp' \in [Slots -> 0..255]
      BY <2>1 DEF AnswerSpill, IInv, TypeOK
    <2>. QED
      BY <1>1, <2>2 DEF IInv, TypeOK
  <1>3. TableMatchesAnswers' /\ NoGaps' /\ MarksOK'
    BY <1>1 DEF TableMatchesAnswers, NoGaps, MarksOK
  <1>4. ReservedUntilReset' /\ Injective'
    BY <1>1 DEF IInv, ReservedUntilReset, ReservedForCounterparts, Injective
  <1>5. GivesUpWhenUsed'
    <2> SUFFICES ASSUME NEW i \in Scanned
                 PROVE  (\E s \in DOMAIN given : given[s] = i)
                           \/ (~wasReset /\ i \in {RSP, RBP})
      BY <1>1 DEF GivesUpWhenUsed
    <2>1. taken_gp[i] # 0 /\ i \in Slots
      BY SlotFacts DEF StopsAt
    <2>2. CASE taken_gp[i] = Reserved
      BY <2>1, <2>2 DEF IInv, MarksOK
    <2>3. CASE taken_gp[i] # Reserved
      BY <2>1, <2>3 DEF IInv, TableMatchesAnswers
    <2>. QED
      BY <2>2, <2>3
  <1>. QED
    BY <1>2, <1>3, <1>4, <1>5 DEF IInv

LEMMA NextInv == IInv /\ [Next]_vars => IInv'
  <1> SUFFICES ASSUME IInv, [Next]_vars PROVE IInv'
    OBVIOUS
  <1>1. ASSUME NEW r \in ArmRegs, RegAlloc(r) PROVE IInv'
    BY <1>1, AnswerSlotInv, AnswerSpillInv DEF RegAlloc
  <1>2. ASSUME NEW r \in ArmRegs, RegAllocFull PROVE IInv'
    BY <1>2 DEF RegAllocFull, IInv, TypeOK, TableMatchesAnswers, NoGaps, ReservedUntilReset,
                ReservedForCounterparts, GivesUpWhenUsed, Injective, MarksOK
  <1>3. CASE RegReset
    BY <1>3, ResetInv
  <1>4. CASE UNCHANGED vars
    BY <1>4 DEF vars, IInv, TypeOK, TableMatchesAnswers, NoGaps, ReservedUntilReset,
                ReservedForCounterparts, GivesUpWhenUsed, Injective, MarksOK
  <1>. QED
    BY <1>1, <1>2, <1>3, <1>4 DEF Next

LEMMA Invariance == Spec => []IInv
  BY InitInv, NextInv, PTL DEF Spec

(* The table and what callers were told stay well formed. *)
THEOREM TypeCorrect == Spec => []TypeOK
  <1>1. IInv => TypeOK
    BY DEF IInv
  <1>. QED
    BY <1>1, Invariance, PTL

(* The table agrees with the answers given, so no two ARM registers ever      *)
(* share an x86 register.                                                     *)
THEOREM TableIsRight == Spec => [](TableMatchesAnswers /\ Injective)
  <1>1. IInv => TableMatchesAnswers /\ Injective
    BY DEF IInv
  <1>. QED
    BY <1>1, Invariance, PTL

(* Claims fill the scanned slots from the bottom. *)
THEOREM FilledFromBottom == Spec => []NoGaps
  <1>1. IInv => NoGaps
    BY DEF IInv
  <1>. QED
    BY <1>1, Invariance, PTL

(* Before the first reg_reset RSP is given to no register but SP, and RBP to none *)
(* but X29 (regalloc.c:15-16).                                                *)
THEOREM ReservedAtFirst == Spec => []ReservedUntilReset
  <1>1. IInv => ReservedUntilReset
    BY DEF IInv
  <1>. QED
    BY <1>1, Invariance, PTL

(* When reg_alloc answers -1 for good, all it scans is given out. *)
THEOREM NotEarly == Spec => []GivesUpWhenUsed
  <1>1. IInv => GivesUpWhenUsed
    BY DEF IInv
  <1>. QED
    BY <1>1, Invariance, PTL

-----------------------------------------------------------------------------
LEMMA StepRefines == IInv /\ [Next]_vars => [Map!Next]_<<given, full, answer>>
  <1> SUFFICES ASSUME IInv, [Next]_vars
               PROVE  Map!Next \/ UNCHANGED <<given, full, answer>>
    OBVIOUS
  <1>1. ASSUME NEW r \in ArmRegs, RegAlloc(r) PROVE Map!Next
    <2>1. ~full
      BY <1>1 DEF RegAlloc
    <2>2. ASSUME NEW i \in Scanned, FirstStop(r + 1, i), AnswerSlot(r, i)
          PROVE  Map!Lookup(r) \/ Map!Assign(r, i)
      <3>1. /\ r \in DOMAIN given => given[r] = i
            /\ r \notin DOMAIN given => taken_gp[i] = 0
        BY <2>1, <2>2, ScanFindsOwnSlot
      <3>2. /\ answer' = i /\ full' = full
            /\ given' = [s \in DOMAIN given \cup {r} |-> IF s = r THEN i ELSE given[s]]
        BY <2>2 DEF AnswerSlot
      <3>3. CASE r \in DOMAIN given
        <4>1. given' = given
          BY <3>1, <3>2, <3>3 DEF IInv, TypeOK
        <4>. QED
          BY <2>1, <3>1, <3>2, <3>3, <4>1 DEF Map!Lookup
      <3>4. CASE r \notin DOMAIN given
        <4>1. \A s \in DOMAIN given : given[s] # i
          <5>1. \A s \in DOMAIN given : taken_gp[given[s]] = s + 1 /\ s + 1 # 0
            BY <2>1, SlotFacts DEF IInv, TypeOK, TableMatchesAnswers
          <5>. QED
            BY <5>1, <3>1, <3>4
        <4>. QED
          BY <2>1, <3>2, <3>4, <4>1 DEF Map!Assign
      <3>. QED
        BY <3>3, <3>4
    <2>3. ASSUME \A i \in Scanned : ~StopsAt(i, r + 1), AnswerSpill(r)
          PROVE  Map!RunOut(r)
      <3>1. r \notin DOMAIN given
        BY <2>1, <2>3 DEF IInv, TypeOK, TableMatchesAnswers, StopsAt
      <3>. QED
        BY <2>3, <3>1 DEF AnswerSpill, Map!RunOut
    <2>. QED
      BY <1>1, <2>2, <2>3 DEF RegAlloc, Map!Next
  <1>2. ASSUME NEW r \in ArmRegs, RegAllocFull PROVE Map!Next
    <2>1. Map!RunOut(r)
      BY <1>2 DEF RegAllocFull, Map!RunOut
    <2>. QED
      BY <2>1 DEF Map!Next
  <1>3. CASE RegReset
    BY <1>3 DEF RegReset, Nobody, Map!Next, Map!Reset
  <1>4. CASE UNCHANGED vars
    BY <1>4 DEF vars
  <1>. QED
    BY <1>1, <1>2, <1>3, <1>4 DEF Next

(* The allocator implements the register map of regalloc.h. *)
THEOREM AllocatorIsMap == Spec => MapSpec
  <1>1. Init => Map!Init
    BY DEF Init, Nobody, Map!Init
  <1>. QED
    BY <1>1, StepRefines, Invariance, PTL DEF Spec, MapSpec, Map!Spec
=============================================================================

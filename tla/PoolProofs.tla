----------------------------- MODULE PoolProofs -----------------------------
(***************************************************************************)
(* The pool is right for every pool_size_t, every initial size and every   *)
(* push: its invariants are inductive together, and it implements the      *)
(* handle store.                                                           *)
(***************************************************************************)
EXTENDS Pool, TLAPS

(* What the named invariants need besides each other: the used part of the *)
(* buffer lies inside the heap block, which is the whole of what           *)
(* alloc_size says unless the calloc of pool_open failed, and the data of  *)
(* every push fits its reservation.                                        *)
BlockOK ==
    /\ pos <= cap
    /\ cap = alloc_size \/ cap = 0
    /\ \A h \in DOMAIN stored : stored[h].len <= stored[h].size

IInv ==
    /\ TypeOK
    /\ BlockOK
    /\ HandlesStable
    /\ ReservationsTile
    /\ FreeCellsZero
    /\ OverrunOnlyPastLimit

-----------------------------------------------------------------------------
(* Arithmetic of pool_size_t. *)
LEMMA ModIsSize ==
    ASSUME NEW x \in Nat
    PROVE  /\ x % SizeMod \in 0..(SizeMod - 1)
           /\ x < SizeMod => x % SizeMod = x
  BY PoolAssumption

LEMMA ReservationSize ==
    ASSUME NEW n \in DataSizes, NEW given \in AllocSizes, LegalRequest(n, given)
    PROVE  /\ Reservation(n, given) \in 1..(SizeMod - 1)
           /\ Reservation(n, given) \in Requests
           /\ n \in 1..Reservation(n, given)
  BY PoolAssumption DEF LegalRequest, Reservation, Requests

(* A new size is a pool_size_t; below the limit it has room for everything *)
(* already in the pool and for the request.                                *)
LEMMA GrownSize ==
    ASSUME NEW a \in 1..(SizeMod - 1),
           alloc_size \in 0..(SizeMod - 1),
           NEW newsize \in GrownSizes(a)
    PROVE  /\ newsize \in 0..(SizeMod - 1)
           /\ BelowLimit(a) => newsize >= alloc_size + a
  <1> DEFINE sum == (alloc_size + a) % SizeMod
  <1>1. alloc_size + a \in Nat
    OBVIOUS
  <1>2. sum \in 0..(SizeMod - 1)
    BY <1>1, ModIsSize
  <1>3. sum + sum \div 2 \in Nat
    BY <1>2, PoolAssumption
  <1>4. newsize \in 0..(SizeMod - 1)
    BY <1>3, PoolAssumption DEF GrownSizes
  <1>5. ASSUME BelowLimit(a) PROVE newsize >= alloc_size + a
    <2>1. alloc_size + a < SizeMod
      BY <1>5, PoolAssumption DEF BelowLimit
    <2>2. sum = alloc_size + a
      BY <2>1, <1>1, ModIsSize
    <2>3. /\ sum + sum \div 2 < SizeMod
          /\ sum + sum \div 2 >= sum
      BY <2>2, <1>5, <1>2, PoolAssumption DEF BelowLimit
    <2>4. newsize = sum + sum \div 2
      BY <2>3 DEF GrownSizes
    <2>. QED
      BY <2>2, <2>3, <2>4
  <1>. QED
    BY <1>4, <1>5
-----------------------------------------------------------------------------
(* The common end of every successful push.  The block b it stores into --   *)
(* the old one, or the grown copy -- has the old contents below pos and      *)
(* zeros from there on.                                                      *)
LEMMA StoreKeepsInvariant ==
    ASSUME IInv, status = "ok",
           NEW size \in 0..(SizeMod - 1),
           NEW b \in [0..(size - 1) -> Data \cup {Zero}],
           \A i \in 0..(size - 1) : b[i] = IF i < pos THEN buf[i] ELSE Zero,
           NEW a \in 1..(SizeMod - 1), NEW n \in 1..a, NEW d \in Data,
           pos + a <= size,
           StoreAtPos(b, size, size, d, n, a)
    PROVE  IInv'
  <1>1. /\ alloc_size' = size
        /\ cap' = size
        /\ buf' = [i \in 0..(size - 1) |-> IF pos <= i /\ i < pos + n THEN d ELSE b[i]]
        /\ pos' = pos + a
        /\ stored' = [h \in DOMAIN stored \cup {pos} |->
                          IF h = pos THEN [size |-> a, len |-> n, val |-> d]
                                     ELSE stored[h]]
        /\ status' = "ok"
    <2>1. pos + a < SizeMod /\ pos + a \in Nat
      BY PoolAssumption DEF IInv, TypeOK
    <2>2. (pos + a) % SizeMod = pos + a
      BY <2>1, ModIsSize
    <2>. QED
      BY <2>2 DEF StoreAtPos, WriteCells
  <1>2. pos \in Nat /\ pos \in 0..(SizeMod - 1)
    BY PoolAssumption DEF IInv, TypeOK
  <1>3. \A h \in DOMAIN stored : /\ h \in Nat
                                 /\ stored[h].size \in 1..(SizeMod - 1)
                                 /\ stored[h].len \in 1..(SizeMod - 1)
                                 /\ stored[h].val \in Data
                                 /\ h + stored[h].size <= pos
                                 /\ h < pos
    <2>1. ASSUME NEW h \in DOMAIN stored
          PROVE  /\ h \in Nat
                 /\ stored[h] \in [size : 1..(SizeMod - 1), len : 1..(SizeMod - 1), val : Data]
      BY DEF IInv, TypeOK
    <2>2. ASSUME NEW h \in DOMAIN stored PROVE h + stored[h].size <= pos
      BY DEF IInv, ReservationsTile
    <2>3. ASSUME NEW h \in DOMAIN stored
          PROVE  /\ stored[h].size \in 1..(SizeMod - 1)
                 /\ stored[h].len \in 1..(SizeMod - 1)
                 /\ stored[h].val \in Data
      BY <2>1
    <2>. QED
      BY <1>2, <2>1, <2>2, <2>3, PoolAssumption
  <1>4. /\ DOMAIN stored' = DOMAIN stored \cup {pos}
        /\ pos \notin DOMAIN stored
        /\ stored'[pos] = [size |-> a, len |-> n, val |-> d]
        /\ \A h \in DOMAIN stored : stored'[h] = stored[h]
    BY <1>1, <1>3
  <1>5. \A h \in DOMAIN stored : Cells(h)' = Cells(h) /\ \A i \in Cells(h) : i < pos
    <2>1. ASSUME NEW h \in DOMAIN stored PROVE Cells(h)' = Cells(h)
      BY <1>4 DEF Cells
    <2>2. ASSUME NEW h \in DOMAIN stored, NEW i \in Cells(h) PROVE i < pos
      <3>1. stored[h].size \in Nat /\ h \in Nat /\ h + stored[h].size <= pos
        BY <1>3, PoolAssumption
      <3>2. i \in h..(h + stored[h].size - 1)
        BY DEF Cells
      <3>. QED
        BY <3>1, <3>2, <1>2
    <2>. QED
      BY <2>1, <2>2
  <1>6. ASSUME NEW h \in DOMAIN stored', h = pos
        PROVE  Cells(h)' = pos..(pos + a - 1)
    BY <1>4, <1>6 DEF Cells
  <1>7. TypeOK'
    <2>1. buf' \in [0..(cap' - 1) -> Data \cup {Zero}]
      BY <1>1
    <2>2. DOMAIN stored' \subseteq 0..(SizeMod - 1)
      BY <1>2, <1>4 DEF IInv, TypeOK
    <2>3. ASSUME NEW h \in DOMAIN stored'
          PROVE  stored'[h] \in [size : 1..(SizeMod - 1), len : 1..(SizeMod - 1), val : Data]
      <3>1. CASE h = pos
        BY <3>1, <1>4, PoolAssumption
      <3>2. CASE h # pos
        BY <3>2, <1>4 DEF IInv, TypeOK
      <3>. QED
        BY <3>1, <3>2
    <2>4. pos' \in 0..(SizeMod - 1)
      BY <1>1, <1>2, PoolAssumption
    <2>. QED
      BY <1>1, <2>1, <2>2, <2>3, <2>4 DEF TypeOK
  <1>8. BlockOK'
    <2>1. \A h \in DOMAIN stored' : stored'[h].len <= stored'[h].size
      BY <1>4 DEF IInv, BlockOK
    <2>. QED
      BY <1>1, <2>1 DEF BlockOK
  <1>9. HandlesStable'
    <2>1. ASSUME NEW h \in DOMAIN stored, NEW i \in Cells(h)
          PROVE  /\ i \in DOMAIN buf'
                 /\ buf'[i] = IF i < h + stored'[h].len THEN stored'[h].val ELSE Zero
      <3>1. i \in Nat /\ i < pos
        BY <1>3, <1>5 DEF Cells
      <3>2. i \in 0..(size - 1) /\ b[i] = buf[i]
        BY <1>2, <3>1
      <3>3. buf'[i] = buf[i]
        BY <1>1, <1>2, <3>1, <3>2
      <3>. QED
        BY <1>1, <1>4, <3>2, <3>3 DEF IInv, HandlesStable
    <2>2. ASSUME NEW i \in pos..(pos + a - 1)
          PROVE  /\ i \in DOMAIN buf'
                 /\ buf'[i] = IF i < pos + n THEN d ELSE Zero
      BY <1>1, <1>2
    <2>3. ASSUME NEW h \in DOMAIN stored', NEW i \in Cells(h)'
          PROVE  /\ i \in DOMAIN buf'
                 /\ buf'[i] = IF i < h + stored'[h].len THEN stored'[h].val ELSE Zero
      <3>1. CASE h = pos
        <4>1. i \in pos..(pos + a - 1)
          BY <3>1, <2>3, <1>6
        <4>2. stored'[h].len = n /\ stored'[h].val = d
          BY <3>1, <1>4
        <4>. QED
          BY <3>1, <4>1, <4>2, <2>2
      <3>2. CASE h # pos
        BY <3>2, <2>1, <1>4, <1>5
      <3>. QED
        BY <3>1, <3>2
    <2>. QED
      BY <2>3 DEF HandlesStable
  <1>10. ReservationsTile'
    <2>1. ASSUME NEW i \in 0..(pos' - 1) PROVE \E h \in DOMAIN stored' : i \in Cells(h)'
      <3>1. CASE i < pos
        BY <3>1, <1>2, <1>4, <1>5 DEF IInv, ReservationsTile
      <3>2. CASE i >= pos
        <4>1. PICK h \in DOMAIN stored' : h = pos
          BY <1>4
        <4>2. i \in Cells(h)'
          BY <3>2, <4>1, <1>1, <1>2, <1>6
        <4>. QED
          BY <4>2
      <3>. QED
        BY <3>1, <3>2, <1>2
    <2>2. ASSUME NEW h \in DOMAIN stored'
          PROVE  h + stored'[h].size <= pos'
      BY <1>1, <1>2, <1>3, <1>4
    <2>3. ASSUME NEW h \in DOMAIN stored', NEW k \in DOMAIN stored', k # h
          PROVE  Cells(h)' \cap Cells(k)' = {}
      <3>1. CASE h \in DOMAIN stored /\ k \in DOMAIN stored
        BY <3>1, <2>3, <1>5 DEF IInv, ReservationsTile
      <3>2. CASE h = pos /\ k \in DOMAIN stored
        BY <3>2, <1>2, <1>5, <1>6
      <3>3. CASE k = pos /\ h \in DOMAIN stored
        BY <3>3, <1>2, <1>5, <1>6
      <3>. QED
        BY <3>1, <3>2, <3>3, <2>3, <1>4
    <2>. QED
      BY <2>1, <2>2, <2>3 DEF ReservationsTile
  <1>11. FreeCellsZero'
    BY <1>1, <1>2 DEF FreeCellsZero
  <1>12. OverrunOnlyPastLimit'
    BY <1>1 DEF OverrunOnlyPastLimit
  <1>. QED
    BY <1>7, <1>8, <1>9, <1>10, <1>11, <1>12 DEF IInv
-----------------------------------------------------------------------------
LEMMA InitInv == Init => IInv
  BY PoolAssumption
  DEF Init, IInv, TypeOK, BlockOK, HandlesStable, ReservationsTile, FreeCellsZero,
      OverrunOnlyPastLimit, NoHandles, ZeroBlock

(* An emptied pool (pool_open, pool_close, pool_drain): no handles, nothing *)
(* but zeros.                                                               *)
LEMMA EmptiedKeepsInvariant ==
    ASSUME IInv,
           pos' = 0, stored' = NoHandles, status' = "ok",
           NEW size \in 0..(SizeMod - 1), cap' = size, buf' = ZeroBlock(size),
           alloc_size' \in 0..(SizeMod - 1),
           cap' = alloc_size' \/ cap' = 0
    PROVE  IInv'
  <1>1. DOMAIN stored' = {}
    BY DEF NoHandles
  <1>2. TypeOK'
    <2>1. buf' \in [0..(cap' - 1) -> Data \cup {Zero}]
      BY DEF ZeroBlock
    <2>. QED
      BY <1>1, <2>1, PoolAssumption DEF TypeOK
  <1>3. BlockOK'
    BY <1>1, PoolAssumption DEF BlockOK
  <1>4. HandlesStable'
    BY <1>1 DEF HandlesStable
  <1>5. ReservationsTile'
    BY <1>1 DEF ReservationsTile
  <1>6. FreeCellsZero'
    BY DEF FreeCellsZero, ZeroBlock
  <1>7. OverrunOnlyPastLimit'
    BY DEF OverrunOnlyPastLimit
  <1>. QED
    BY <1>2, <1>3, <1>4, <1>5, <1>6, <1>7 DEF IInv

(* Execution ending in an undefined or aborted state leaves the memory the   *)
(* model tracks as it was.                                                   *)
LEMMA StoppedKeepsInvariant ==
    ASSUME IInv, UNCHANGED <<alloc_size, pos, cap, buf, stored>>,
           status' \in {"ok", "abort", "overrun"},
           OverrunOnlyPastLimit'
    PROVE  IInv'
  <1>1. TypeOK'
    BY DEF IInv, TypeOK
  <1>2. BlockOK'
    BY DEF IInv, BlockOK
  <1>3. HandlesStable' /\ ReservationsTile' /\ FreeCellsZero'
    BY DEF IInv, HandlesStable, ReservationsTile, FreeCellsZero, Cells
  <1>. QED
    BY <1>1, <1>2, <1>3 DEF IInv

LEMMA OpenInv == ASSUME IInv, NEW n \in InitSizes, Open(n) PROVE IInv'
  <1>1. n \in 0..(SizeMod - 1) /\ 0 \in 0..(SizeMod - 1)
    BY PoolAssumption
  <1>2. PICK size \in {0, n} : cap' = size /\ buf' = ZeroBlock(size)
    BY DEF Open
  <1>3. /\ pos' = 0 /\ stored' = NoHandles /\ status' = "ok"
        /\ alloc_size' = n
    BY DEF Open
  <1>. QED
    BY <1>1, <1>2, <1>3, EmptiedKeepsInvariant

LEMMA CloseInv == ASSUME IInv, Close PROVE IInv'
  <1>1. 0 \in 0..(SizeMod - 1)
    BY PoolAssumption
  <1>2. /\ pos' = 0 /\ stored' = NoHandles /\ status' = "ok"
        /\ cap' = 0 /\ buf' = ZeroBlock(0) /\ alloc_size' = 0
    BY DEF Close
  <1>. QED
    BY <1>1, <1>2, EmptiedKeepsInvariant

LEMMA DrainInv == ASSUME IInv, Drain PROVE IInv'
  <1>1. CASE alloc_size <= cap
    <2>1. cap \in 0..(SizeMod - 1) /\ alloc_size \in 0..(SizeMod - 1)
      BY DEF IInv, TypeOK
    <2>2. /\ pos' = 0 /\ stored' = NoHandles /\ status' = "ok"
          /\ cap' = cap /\ buf' = ZeroBlock(cap) /\ alloc_size' = alloc_size
      BY <1>1 DEF Drain
    <2>3. cap = alloc_size \/ cap = 0
      BY DEF IInv, BlockOK
    <2>. QED
      BY <2>1, <2>2, <2>3, EmptiedKeepsInvariant
  <1>2. CASE ~(alloc_size <= cap)
    <2>1. /\ status' = "overrun"
          /\ UNCHANGED <<alloc_size, pos, cap, buf, stored>>
      BY <1>2 DEF Drain
    <2>2. cap # alloc_size
      BY <1>2 DEF IInv, TypeOK
    <2>3. OverrunOnlyPastLimit'
      BY <2>1, <2>2 DEF OverrunOnlyPastLimit
    <2>. QED
      BY <2>1, <2>3, StoppedKeepsInvariant
  <1>. QED
    BY <1>1, <1>2

LEMMA PushInPlaceInv ==
    ASSUME IInv,
           NEW d \in Data, NEW a \in 1..(SizeMod - 1), NEW n \in 1..a, a \in Requests,
           PushInPlace(d, n, a)
    PROVE  IInv'
  <1>1. /\ alloc_size \in 0..(SizeMod - 1) /\ pos \in 0..(SizeMod - 1)
        /\ cap \in 0..(SizeMod - 1)
        /\ buf \in [0..(cap - 1) -> Data \cup {Zero}]
        /\ pos <= cap
        /\ cap = alloc_size \/ cap = 0
    BY DEF IInv, TypeOK, BlockOK
  <1>2. CASE pos + a <= cap
    <2>1. cap = alloc_size
      BY <1>1, <1>2
    <2>2. \A i \in 0..(cap - 1) : buf[i] = IF i < pos THEN buf[i] ELSE Zero
      BY <1>1 DEF IInv, FreeCellsZero
    <2>3. status = "ok" /\ StoreAtPos(buf, cap, cap, d, n, a)
      BY <2>1 DEF PushInPlace
    <2>. QED
      BY <1>1, <1>2, <2>2, <2>3, StoreKeepsInvariant
  <1>3. CASE ~(pos + a <= cap)
    <2>1. /\ status' = "overrun"
          /\ UNCHANGED <<alloc_size, pos, cap, buf, stored>>
      BY <1>3 DEF PushInPlace, StoreAtPos
    <2>2. ASSUME cap = alloc_size, BelowLimit(a) PROVE FALSE
      <3>1. pos + a \in Nat /\ pos + a < SizeMod
        BY <1>1, <2>2, PoolAssumption DEF BelowLimit
      <3>2. alloc_size > pos + a
        BY <3>1, ModIsSize DEF PushInPlace, CanHold
      <3>. QED
        BY <3>2, <1>1, <1>3, <2>2
    <2>3. OverrunOnlyPastLimit'
      BY <2>1, <2>2 DEF OverrunOnlyPastLimit, BelowLimit
    <2>. QED
      BY <2>1, <2>3, StoppedKeepsInvariant
  <1>. QED
    BY <1>2, <1>3

(* The copy into a grown block. *)
LEMMA MovedKeepsContents ==
    ASSUME IInv, NEW newsize \in 0..(SizeMod - 1),
           newsize > alloc_size, alloc_size <= cap
    PROVE  /\ Moved(newsize) \in [0..(newsize - 1) -> Data \cup {Zero}]
           /\ \A i \in 0..(newsize - 1) :
                 Moved(newsize)[i] = IF i < pos THEN buf[i] ELSE Zero
  <1>1. /\ alloc_size \in Nat /\ pos \in Nat /\ cap \in Nat
        /\ buf \in [0..(cap - 1) -> Data \cup {Zero}]
        /\ pos <= cap
        /\ cap = alloc_size
    BY PoolAssumption DEF IInv, TypeOK, BlockOK
  <1>2. \A i \in 0..(newsize - 1) :
           /\ Moved(newsize)[i] = IF i < alloc_size THEN buf[i] ELSE Zero
           /\ i < alloc_size => i \in 0..(cap - 1)
    BY <1>1 DEF Moved
  <1>3. \A i \in 0..(cap - 1) : /\ buf[i] \in Data \cup {Zero}
                                /\ i >= pos => buf[i] = Zero
    BY <1>1 DEF IInv, FreeCellsZero
  <1>4. \A i \in 0..(newsize - 1) :
           /\ Moved(newsize)[i] \in Data \cup {Zero}
           /\ Moved(newsize)[i] = IF i < pos THEN buf[i] ELSE Zero
    BY <1>1, <1>2, <1>3
  <1>. QED
    BY <1>4 DEF Moved

LEMMA PushGrowsInv ==
    ASSUME IInv,
           NEW d \in Data, NEW a \in 1..(SizeMod - 1), NEW n \in 1..a, a \in Requests,
           PushGrows(d, n, a)
    PROVE  IInv'
  <1>1. /\ alloc_size \in 0..(SizeMod - 1) /\ pos \in 0..(SizeMod - 1)
        /\ cap \in 0..(SizeMod - 1)
        /\ buf \in [0..(cap - 1) -> Data \cup {Zero}]
        /\ pos <= cap
        /\ cap = alloc_size \/ cap = 0
    BY DEF IInv, TypeOK, BlockOK
  <1>2. PICK newsize \in GrownSizes(a) :
            /\ newsize > alloc_size
            /\ IF alloc_size <= cap
               THEN StoreAtPos(Moved(newsize), newsize, newsize, d, n, a)
               ELSE /\ status' = "overrun"
                    /\ UNCHANGED <<alloc_size, pos, cap, buf, stored>>
    BY DEF PushGrows
  <1>3. /\ newsize \in 0..(SizeMod - 1)
        /\ BelowLimit(a) => newsize >= alloc_size + a
    BY <1>1, GrownSize
  <1>4. status = "ok"
    BY DEF PushGrows
  <1>5. CASE alloc_size <= cap /\ pos + a <= newsize
    <2>1. /\ Moved(newsize) \in [0..(newsize - 1) -> Data \cup {Zero}]
          /\ \A i \in 0..(newsize - 1) :
                Moved(newsize)[i] = IF i < pos THEN buf[i] ELSE Zero
      BY <1>2, <1>3, <1>5, MovedKeepsContents
    <2>2. StoreAtPos(Moved(newsize), newsize, newsize, d, n, a)
      BY <1>2, <1>5
    <2>. QED
      BY <1>3, <1>4, <1>5, <2>1, <2>2, StoreKeepsInvariant
  <1>6. CASE ~(alloc_size <= cap /\ pos + a <= newsize)
    <2>1. /\ status' = "overrun"
          /\ UNCHANGED <<alloc_size, pos, cap, buf, stored>>
      BY <1>2, <1>6 DEF StoreAtPos
    <2>2. ASSUME cap = alloc_size, BelowLimit(a) PROVE FALSE
      BY <1>1, <1>3, <1>6, <2>2
    <2>3. OverrunOnlyPastLimit'
      BY <2>1, <2>2 DEF OverrunOnlyPastLimit, BelowLimit
    <2>. QED
      BY <2>1, <2>3, StoppedKeepsInvariant
  <1>. QED
    BY <1>5, <1>6

LEMMA PushAbortsInv ==
    ASSUME IInv, NEW a \in 1..(SizeMod - 1), a \in Requests, PushAborts(a)
    PROVE  IInv'
  <1>1. /\ status' = "abort"
        /\ UNCHANGED <<alloc_size, pos, cap, buf, stored>>
    BY DEF PushAborts
  <1>2. alloc_size \in 0..(SizeMod - 1)
    BY DEF IInv, TypeOK
  <1>3. PICK newsize \in GrownSizes(a) : newsize <= alloc_size
    BY DEF PushAborts
  <1>4. ~BelowLimit(a)
    BY <1>2, <1>3, GrownSize
  <1>5. OverrunOnlyPastLimit'
    BY <1>1, <1>4 DEF OverrunOnlyPastLimit, BelowLimit
  <1>. QED
    BY <1>1, <1>5, StoppedKeepsInvariant

(* A client writes inside the reservation it owns, and the tiling keeps the *)
(* other reservations and the free space out of its way.                    *)
LEMMA ClientWriteInv ==
    ASSUME IInv, NEW h \in DOMAIN stored, NEW d \in Data, ClientWrite(h, d)
    PROVE  IInv'
  <1>1. /\ buf' = [i \in DOMAIN buf |->
                      IF h <= i /\ i < h + stored[h].len THEN d ELSE buf[i]]
        /\ stored' = [stored EXCEPT ![h].val = d]
        /\ alloc_size' = alloc_size /\ pos' = pos /\ cap' = cap
        /\ status' = "ok"
    BY DEF ClientWrite, WriteCells
  <1>2. \A k \in DOMAIN stored :
           /\ k \in Nat
           /\ stored[k] \in [size : 1..(SizeMod - 1), len : 1..(SizeMod - 1), val : Data]
           /\ stored[k].len <= stored[k].size
           /\ k + stored[k].size <= pos
    BY DEF IInv, TypeOK, BlockOK, ReservationsTile
  <1>3. \A k \in DOMAIN stored : stored[k].size \in Nat /\ stored[k].len \in Nat
    BY <1>2, PoolAssumption
  <1>4. /\ DOMAIN stored' = DOMAIN stored
        /\ \A k \in DOMAIN stored : k # h => stored'[k] = stored[k]
        /\ stored'[h] = [stored[h] EXCEPT !.val = d]
    BY <1>1
  <1>5. \A k \in DOMAIN stored : /\ stored'[k].size = stored[k].size
                                 /\ stored'[k].len = stored[k].len
    BY <1>4, <1>2
  <1>6. /\ buf \in [0..(cap - 1) -> Data \cup {Zero}]
        /\ pos \in Nat /\ cap \in Nat /\ pos <= cap
    BY PoolAssumption DEF IInv, TypeOK, BlockOK
  <1>7. \A k \in DOMAIN stored : Cells(k)' = Cells(k)
    BY <1>5, <1>4 DEF Cells
  <1>8. TypeOK'
    <2>1. buf' \in [0..(cap' - 1) -> Data \cup {Zero}]
      BY <1>1, <1>6
    <2>2. \A k \in DOMAIN stored' :
             stored'[k] \in [size : 1..(SizeMod - 1), len : 1..(SizeMod - 1), val : Data]
      BY <1>2, <1>4
    <2>. QED
      BY <1>1, <1>4, <2>1, <2>2 DEF IInv, TypeOK
  <1>9. BlockOK'
    BY <1>1, <1>4, <1>5 DEF IInv, BlockOK
  <1>10. HandlesStable'
    <2>1. ASSUME NEW k \in DOMAIN stored, NEW i \in Cells(k)
          PROVE  /\ i \in DOMAIN buf'
                 /\ buf'[i] = IF i < k + stored'[k].len THEN stored'[k].val ELSE Zero
      <3>1. /\ i \in DOMAIN buf
            /\ buf[i] = IF i < k + stored[k].len THEN stored[k].val ELSE Zero
        BY DEF IInv, HandlesStable
      <3>2. /\ i \in k..(k + stored[k].size - 1)
            /\ i \in Nat
        BY <1>2, <1>3 DEF Cells
      <3>3. CASE k = h
        <4>1. stored'[k].val = d
          BY <3>3, <1>4, <1>2
        <4>2. stored'[k].len = stored[k].len /\ h <= i
          BY <3>2, <3>3, <1>2, <1>3, <1>5
        <4>3. buf'[i] = IF i < h + stored[h].len THEN d ELSE buf[i]
          BY <3>1, <4>2, <1>1
        <4>. QED
          BY <3>1, <3>3, <4>1, <4>2, <4>3, <1>1
      <3>4. CASE k # h
        <4>1. i \notin Cells(h)
          BY <3>4 DEF IInv, ReservationsTile
        <4>2. ~(h <= i /\ i < h + stored[h].len)
          BY <4>1, <3>2, <1>2, <1>3 DEF Cells
        <4>3. buf'[i] = buf[i]
          BY <4>2, <3>1, <1>1
        <4>. QED
          BY <4>3, <3>1, <3>4, <1>1, <1>4
      <3>. QED
        BY <3>3, <3>4
    <2>. QED
      BY <2>1, <1>4, <1>7 DEF HandlesStable
  <1>11. ReservationsTile'
    BY <1>1, <1>4, <1>5, <1>7 DEF IInv, ReservationsTile
  <1>12. FreeCellsZero'
    <2>1. h + stored[h].len <= pos /\ h + stored[h].len \in Nat
      BY <1>2, <1>3, <1>6
    <2>. QED
      BY <2>1, <1>1, <1>6 DEF IInv, FreeCellsZero
  <1>13. OverrunOnlyPastLimit'
    BY <1>1 DEF OverrunOnlyPastLimit
  <1>. QED
    BY <1>8, <1>9, <1>10, <1>11, <1>12, <1>13 DEF IInv

LEMMA NextInv == IInv /\ [Next]_vars => IInv'
  <1> SUFFICES ASSUME IInv, [Next]_vars PROVE IInv'
    OBVIOUS
  <1>1. ASSUME NEW n \in InitSizes, Open(n) PROVE IInv'
    BY <1>1, OpenInv
  <1>2. CASE Close
    BY <1>2, CloseInv
  <1>3. ASSUME NEW d \in Data, NEW n \in DataSizes, NEW given \in AllocSizes,
               LegalRequest(n, given), Push(d, n, given)
        PROVE  IInv'
    <2> DEFINE a == Reservation(n, given)
    <2>1. a \in 1..(SizeMod - 1) /\ a \in Requests /\ n \in 1..a
      BY <1>3, ReservationSize
    <2>2. CASE PushInPlace(d, n, a)
      BY <2>1, <2>2, PushInPlaceInv
    <2>3. CASE PushGrows(d, n, a)
      BY <2>1, <2>3, PushGrowsInv
    <2>4. CASE PushFails(a)
      <3>1. UNCHANGED vars
        BY <2>4 DEF PushFails
      <3>. QED
        BY <3>1 DEF IInv, TypeOK, BlockOK, HandlesStable, ReservationsTile, FreeCellsZero,
                    OverrunOnlyPastLimit, BelowLimit, Cells, vars
    <2>5. CASE PushAborts(a)
      BY <2>1, <2>5, PushAbortsInv
    <2>. QED
      BY <1>3, <2>2, <2>3, <2>4, <2>5 DEF Push
  <1>4. ASSUME NEW h \in DOMAIN stored, NEW d \in Data, ClientWrite(h, d) PROVE IInv'
    BY <1>4, ClientWriteInv
  <1>5. CASE Drain
    BY <1>5, DrainInv
  <1>6. CASE UNCHANGED vars
    BY <1>6 DEF IInv, TypeOK, BlockOK, HandlesStable, ReservationsTile, FreeCellsZero,
                OverrunOnlyPastLimit, BelowLimit, Cells, vars
  <1>. QED
    BY <1>1, <1>2, <1>3, <1>4, <1>5, <1>6 DEF Next

LEMMA Invariance == Spec => []IInv
  BY InitInv, NextInv, PTL DEF Spec

(* The pool_t struct, its block and every handle stay well formed. *)
THEOREM TypeCorrect == Spec => []TypeOK
  <1>1. IInv => TypeOK
    BY DEF IInv
  <1>. QED
    BY <1>1, Invariance, PTL

(* Whatever is pushed, grown, drained or written, each handle refers to the *)
(* bytes last stored under it (pool.h: handles stay valid on resize).       *)
THEOREM HandlesStay == Spec => []HandlesStable
  <1>1. IInv => HandlesStable
    BY DEF IInv
  <1>. QED
    BY <1>1, Invariance, PTL

(* Reservations never overlap and leave no gap. *)
THEOREM NoOverlap == Spec => []ReservationsTile
  <1>1. IInv => ReservationsTile
    BY DEF IInv
  <1>. QED
    BY <1>1, Invariance, PTL

(* The unused part of the buffer is zero, also after growth and drain. *)
THEOREM FreeSpaceZeroed == Spec => []FreeCellsZero
  <1>1. IInv => FreeCellsZero
    BY DEF IInv
  <1>. QED
    BY <1>1, Invariance, PTL

(* pool_push never leaves its heap block, nor fails its assertion, while the *)
(* pool and the requests stay below two thirds of the range of pool_size_t   *)
(* and pool_open got its memory.                                             *)
THEOREM NoOverrun == Spec => []OverrunOnlyPastLimit
  <1>1. IInv => OverrunOnlyPastLimit
    BY DEF IInv
  <1>. QED
    BY <1>1, Invariance, PTL

(* pool_empty answers "no handle is outstanding". *)
THEOREM EmptyIsNoHandles == Spec => []EmptyIffNoHandles
  <1>1. IInv => EmptyIffNoHandles
    <2> SUFFICES ASSUME IInv PROVE EmptyIffNoHandles
      OBVIOUS
    <2>1. /\ pos \in Nat /\ cap \in Nat /\ pos <= cap
          /\ cap = alloc_size \/ cap = 0
      BY PoolAssumption DEF IInv, TypeOK, BlockOK
    <2>2. PoolEmpty <=> pos = 0
      BY <2>1 DEF PoolEmpty
    <2>3. ASSUME pos = 0, NEW h \in DOMAIN stored PROVE FALSE
      <3>1. h \in Nat /\ stored[h].size \in 1..(SizeMod - 1)
        BY DEF IInv, TypeOK
      <3>2. h + stored[h].size <= 0
        BY <2>3 DEF IInv, ReservationsTile
      <3>. QED
        BY <3>1, <3>2, PoolAssumption
    <2>4. ASSUME pos # 0 PROVE DOMAIN stored # {}
      <3>1. 0 \in 0..(pos - 1)
        BY <2>1, <2>4
      <3>. QED
        BY <3>1 DEF IInv, ReservationsTile
    <2>. QED
      BY <2>2, <2>3, <2>4 DEF EmptyIffNoHandles
  <1>. QED
    BY <1>1, Invariance, PTL

-----------------------------------------------------------------------------
(* The refinement.  A push that stores is a Put of a fresh handle: every     *)
(* older handle reads as before, also out of a block that has just moved.    *)
LEMMA StoreIsPut ==
    ASSUME IInv,
           NEW size \in 0..(SizeMod - 1),
           NEW b \in [0..(size - 1) -> Data \cup {Zero}],
           \A i \in 0..(size - 1) : b[i] = IF i < pos THEN buf[i] ELSE Zero,
           NEW a \in 1..(SizeMod - 1), NEW n \in 1..a, NEW d \in Data,
           pos + a <= size,
           StoreAtPos(b, size, size, d, n, a)
    PROVE  Store!Next
  <1>1. /\ pos \in Nat
        /\ buf' = [i \in 0..(size - 1) |-> IF pos <= i /\ i < pos + n THEN d ELSE b[i]]
        /\ stored' = [h \in DOMAIN stored \cup {pos} |->
                          IF h = pos THEN [size |-> a, len |-> n, val |-> d]
                                     ELSE stored[h]]
    BY PoolAssumption DEF IInv, TypeOK, StoreAtPos, WriteCells
  <1>2. \A h \in DOMAIN stored : /\ h \in Nat
                                 /\ stored[h].size \in 1..(SizeMod - 1)
                                 /\ h + stored[h].size <= pos
    BY DEF IInv, TypeOK, ReservationsTile
  <1>3. pos \notin DOMAIN stored
    BY <1>1, <1>2
  <1>4. ASSUME NEW h \in DOMAIN stored PROVE Contents(h)' = Contents(h)
    <2>1. stored'[h].size = stored[h].size
      BY <1>1, <1>3
    <2>2. ASSUME NEW i \in 0..(stored[h].size - 1) PROVE buf'[h + i] = buf[h + i]
      <3>1. /\ h + i \in 0..(size - 1)
            /\ h + i < pos
        BY <1>1, <1>2, PoolAssumption, SMTT(30)
      <3>. QED
        BY <3>1, <1>1
    <2>. QED
      BY <2>1, <2>2 DEF Contents
  <1> DEFINE new == [h \in DOMAIN stored |-> Contents(h)]
  <1>5. /\ DOMAIN new = DOMAIN stored
        /\ DOMAIN new' = DOMAIN stored \cup {pos}
        /\ \A h \in DOMAIN stored : new'[h] = new[h]
    BY <1>1, <1>4
  <1>6. PICK p : p = pos
    OBVIOUS
  <1>7. Store!Put(p)
    BY <1>3, <1>5, <1>6 DEF Store!Put, Store!SameExcept
  <1>8. p \in DOMAIN new'
    BY <1>5, <1>6
  <1>. QED
    BY <1>7, <1>8 DEF Store!Next

LEMMA ClientWriteIsUpdate ==
    ASSUME IInv, NEW h \in DOMAIN stored, NEW d \in Data, ClientWrite(h, d)
    PROVE  Store!Next
  <1>1. /\ buf' = [i \in DOMAIN buf |->
                      IF h <= i /\ i < h + stored[h].len THEN d ELSE buf[i]]
        /\ stored' = [stored EXCEPT ![h].val = d]
    BY DEF ClientWrite, WriteCells
  <1>2. \A k \in DOMAIN stored :
           /\ k \in Nat
           /\ stored[k] \in [size : 1..(SizeMod - 1), len : 1..(SizeMod - 1), val : Data]
           /\ stored[k].len <= stored[k].size
    BY DEF IInv, TypeOK, BlockOK
  <1>3. \A k \in DOMAIN stored : stored[k].size \in Nat /\ stored[k].len \in Nat
    BY <1>2, PoolAssumption
  <1>4. /\ DOMAIN stored' = DOMAIN stored
        /\ \A k \in DOMAIN stored : stored'[k].size = stored[k].size
    BY <1>1, <1>2
  <1>5. ASSUME NEW k \in DOMAIN stored, k # h PROVE Contents(k)' = Contents(k)
    <2>1. ASSUME NEW i \in 0..(stored[k].size - 1) PROVE buf'[k + i] = buf[k + i]
      <3>1. k + i \in Cells(k)
        BY <1>2, <1>3 DEF Cells
      <3>2. k + i \in DOMAIN buf /\ k + i \notin Cells(h)
        BY <1>5, <3>1 DEF IInv, HandlesStable, ReservationsTile
      <3>3. ~(h <= k + i /\ k + i < h + stored[h].len)
        BY <3>2, <1>2, <1>3 DEF Cells
      <3>. QED
        BY <3>2, <3>3, <1>1
    <2>. QED
      BY <2>1, <1>4 DEF Contents
  <1>6. DOMAIN Contents(h)' = DOMAIN Contents(h)
    BY <1>4 DEF Contents
  <1> DEFINE new == [k \in DOMAIN stored |-> Contents(k)]
  <1>7. /\ DOMAIN new' = DOMAIN new /\ DOMAIN new = DOMAIN stored
        /\ DOMAIN new'[h] = DOMAIN new[h]
        /\ \A k \in DOMAIN stored : k # h => new'[k] = new[k]
    BY <1>4, <1>5, <1>6
  <1>8. Store!Update(h)
    BY <1>7 DEF Store!Update, Store!SameExcept
  <1>. QED
    BY <1>7, <1>8 DEF Store!Next

LEMMA EmptiedIsClear ==
    ASSUME stored' = NoHandles PROVE Store!Next
  BY DEF NoHandles, Store!Next, Store!Clear

(* Neither the program stopping nor a push that fails changes any handle. *)
LEMMA StoppedIsStutter ==
    ASSUME UNCHANGED <<buf, stored>>
    PROVE  UNCHANGED [h \in DOMAIN stored |-> Contents(h)]
  BY DEF Contents

LEMMA StepRefines == IInv /\ [Next]_vars => [Store!Next]_([h \in DOMAIN stored |-> Contents(h)])
  <1> DEFINE store == [h \in DOMAIN stored |-> Contents(h)]
  <1> SUFFICES ASSUME IInv, [Next]_vars PROVE Store!Next \/ UNCHANGED store
    OBVIOUS
  <1>1. ASSUME NEW n \in InitSizes, Open(n) PROVE Store!Next
    BY <1>1, EmptiedIsClear DEF Open
  <1>2. CASE Close
    BY <1>2, EmptiedIsClear DEF Close
  <1>3. ASSUME NEW d \in Data, NEW n \in DataSizes, NEW given \in AllocSizes,
               LegalRequest(n, given), Push(d, n, given)
        PROVE  Store!Next \/ UNCHANGED store
    <2> DEFINE a == Reservation(n, given)
    <2>1. a \in 1..(SizeMod - 1) /\ a \in Requests /\ n \in 1..a
      BY <1>3, ReservationSize
    <2>2. CASE PushInPlace(d, n, a)
      <3>1. CASE pos + a <= cap
        <4>1. /\ cap \in 0..(SizeMod - 1) /\ cap = alloc_size
              /\ buf \in [0..(cap - 1) -> Data \cup {Zero}]
          BY <2>1, <3>1, PoolAssumption DEF IInv, TypeOK, BlockOK
        <4>2. \A i \in 0..(cap - 1) : buf[i] = IF i < pos THEN buf[i] ELSE Zero
          BY <4>1, PoolAssumption DEF IInv, TypeOK, FreeCellsZero
        <4>3. StoreAtPos(buf, cap, cap, d, n, a)
          BY <2>2, <4>1 DEF PushInPlace
        <4>. QED
          BY <2>1, <3>1, <4>1, <4>2, <4>3, StoreIsPut
      <3>2. CASE ~(pos + a <= cap)
        BY <2>2, <3>2, StoppedIsStutter DEF PushInPlace, StoreAtPos
      <3>. QED
        BY <3>1, <3>2
    <2>3. CASE PushGrows(d, n, a)
      <3>1. PICK newsize \in GrownSizes(a) :
                /\ newsize > alloc_size
                /\ IF alloc_size <= cap
                   THEN StoreAtPos(Moved(newsize), newsize, newsize, d, n, a)
                   ELSE /\ status' = "overrun"
                        /\ UNCHANGED <<alloc_size, pos, cap, buf, stored>>
        BY <2>3 DEF PushGrows
      <3>2. CASE alloc_size <= cap /\ pos + a <= newsize
        <4>1. newsize \in 0..(SizeMod - 1)
          BY <2>1, GrownSize DEF IInv, TypeOK
        <4>2. /\ Moved(newsize) \in [0..(newsize - 1) -> Data \cup {Zero}]
              /\ \A i \in 0..(newsize - 1) :
                    Moved(newsize)[i] = IF i < pos THEN buf[i] ELSE Zero
          BY <3>1, <3>2, <4>1, MovedKeepsContents
        <4>3. StoreAtPos(Moved(newsize), newsize, newsize, d, n, a)
          BY <3>1, <3>2
        <4>. QED
          BY <2>1, <3>2, <4>1, <4>2, <4>3, StoreIsPut
      <3>3. CASE ~(alloc_size <= cap /\ pos + a <= newsize)
        BY <3>1, <3>3, StoppedIsStutter DEF StoreAtPos
      <3>. QED
        BY <3>2, <3>3
    <2>4. CASE PushFails(a)
      BY <2>4, StoppedIsStutter DEF PushFails, vars
    <2>5. CASE PushAborts(a)
      BY <2>5, StoppedIsStutter DEF PushAborts
    <2>. QED
      BY <1>3, <2>2, <2>3, <2>4, <2>5 DEF Push
  <1>4. ASSUME NEW h \in DOMAIN stored, NEW d \in Data, ClientWrite(h, d) PROVE Store!Next
    BY <1>4, ClientWriteIsUpdate
  <1>5. CASE Drain
    BY <1>5, EmptiedIsClear, StoppedIsStutter DEF Drain
  <1>6. CASE UNCHANGED vars
    BY <1>6, StoppedIsStutter DEF vars
  <1>. QED
    BY <1>1, <1>2, <1>3, <1>4, <1>5, <1>6 DEF Next

(* The pool implements the handle store: growth, the memcpy and the free of  *)
(* the old block are invisible through handles.                              *)
THEOREM PoolIsStore == Spec => StoreSpec
  <1>1. Init => Store!Init
    BY DEF Init, NoHandles, Store!Init
  <1>. QED
    BY <1>1, StepRefines, Invariance, PTL DEF Spec, StoreSpec, Store!Spec
=============================================================================

-------------------------------- MODULE Pool --------------------------------
(***************************************************************************)
(* src/src/pool.c, src/src/pool.h: the automatically expanding memory pool *)
(* that holds every piece of IML.  The pool_t struct is modelled field by  *)
(* field together with the heap block its data pointer refers to, down to  *)
(* single cells, with the u32 arithmetic of pool_size_t.                   *)
(*                                                                         *)
(* Assertions are on (CMakeLists.txt sets no build type).  A push whose    *)
(* reservation does not fit the heap block (its client was promised that   *)
(* room and may fill it), and a memcpy or memset through the NULL pointer  *)
(* of a failed pool_open, end the run in status "overrun": from there on   *)
(* the C program has no defined behaviour.                                 *)
(*                                                                         *)
(* Operators named Bug... are the mutated forms of the operator that       *)
(* follows them; no specification uses them.                               *)
(***************************************************************************)
EXTENDS Integers

CONSTANTS
    Data,        \* what clients store; one push fills its bytes with one value
    Zero,        \* the cell value calloc and memset(0) leave
    SizeMod,     \* 2^32, one more than the largest pool_size_t
    InitSizes,   \* sizes pool_open is called with
    DataSizes,   \* data_size arguments of pool_push (sizeof of a struct: never 0)
    AllocSizes   \* alloc_size arguments of pool_push, 0 for "same as data_size"

ASSUME PoolAssumption ==
    /\ Zero \notin Data
    /\ SizeMod \in Nat \ {0}
    /\ InitSizes \subseteq 0..(SizeMod - 1)
    /\ DataSizes \subseteq 1..(SizeMod - 1)
    /\ AllocSizes \subseteq 0..(SizeMod - 1)

VARIABLES
    alloc_size,  \* pool_t.alloc_size
    pos,         \* pool_t.pos
    cap,         \* true size of the block at pool_t.data, 0 when data is NULL
    buf,         \* contents of that block
    stored,      \* ghost: handle |-> what the client stored there and still owns
    status       \* "ok", "abort" (failed assertion) or "overrun"

vars == <<alloc_size, pos, cap, buf, stored, status>>

NoHandles == [h \in {} |-> h]

(* calloc(1, n): n zeroed cells. *)
ZeroBlock(n) == [i \in 0..(n - 1) |-> Zero]

-----------------------------------------------------------------------------
(* pool_can_hold, with its wrapping u32 sum. *)
CanHold(size) == alloc_size > (pos + size) % SizeMod

PoolEmpty == pos = 0 \/ alloc_size = 0 \/ cap = 0

(* The alloc_size parameter after its default has been applied. *)
Reservation(n, a) == IF a = 0 THEN n ELSE a

(* The contract of pool_push: the data fits the space asked for it. *)
LegalRequest(n, a) == a = 0 \/ n <= a

BugGrowthNotTruncated(a) == {(alloc_size + a) + (alloc_size + a) \div 2}

BugGrowthForgetsRequest(a) == {(alloc_size + alloc_size \div 2) % SizeMod}

(* (alloc_size + a) * 1.5 as a pool_size_t.  Converting a double that is  *)
(* too large for u32 is undefined: any value may come out.                *)
GrownSizes(a) ==
    LET sum  == (alloc_size + a) % SizeMod
        half == sum + sum \div 2
    IN  IF half < SizeMod THEN {half} ELSE 0..(SizeMod - 1)

BugMoveDropsLastCell(newsize) ==
    [i \in 0..(newsize - 1) |-> IF i < pos - 1 THEN buf[i] ELSE Zero]

BugMoveKeepsNothing(newsize) == [i \in 0..(newsize - 1) |-> Zero]

(* The new block after memcpy(newbuf, data, alloc_size). *)
Moved(newsize) == [i \in 0..(newsize - 1) |-> IF i < alloc_size THEN buf[i] ELSE Zero]

WriteCells(b, at, n, d) ==
    [i \in DOMAIN b |-> IF at <= i /\ i < at + n THEN d ELSE b[i]]

(* The reservation is forgotten: pos advances by the bytes copied.           *)
BugAdvanceByData(b, size, newalloc, d, n, a) ==
    /\ pos + a <= size
    /\ alloc_size' = newalloc
    /\ cap' = size
    /\ buf' = WriteCells(b, pos, n, d)
    /\ pos' = pos + n
    /\ stored' = [h \in DOMAIN stored \cup {pos} |->
                     IF h = pos THEN [size |-> a, len |-> n, val |-> d]
                                ELSE stored[h]]
    /\ UNCHANGED status

(* The last lines of pool_push, with pool_t.data a block b of `size` cells:  *)
(* copy the data in, return the old pos, advance pos by the reservation.     *)
StoreAtPos(b, size, newalloc, d, n, a) ==
    IF pos + a <= size
    THEN /\ alloc_size' = newalloc
         /\ cap' = size
         /\ buf' = WriteCells(b, pos, n, d)
         /\ pos' = (pos + a) % SizeMod
         /\ stored' = [h \in DOMAIN stored \cup {pos} |->
                          IF h = pos THEN [size |-> a, len |-> n, val |-> d]
                                     ELSE stored[h]]
         /\ UNCHANGED status
    ELSE /\ status' = "overrun"
         /\ UNCHANGED <<alloc_size, pos, cap, buf, stored>>

-----------------------------------------------------------------------------
Init ==
    /\ alloc_size = 0
    /\ pos = 0
    /\ cap = 0
    /\ buf = ZeroBlock(0)
    /\ stored = NoHandles
    /\ status = "ok"

(* pool_open into a pool_t that owns no buffer.  The calloc may fail; the    *)
(* struct is filled in the same way when it does.                            *)
Open(n) ==
    /\ status = "ok" /\ alloc_size = 0
    /\ alloc_size' = n
    /\ pos' = 0
    /\ \E size \in {0, n} : cap' = size /\ buf' = ZeroBlock(size)
    /\ stored' = NoHandles
    /\ UNCHANGED status

Close ==
    /\ status = "ok"
    /\ alloc_size' = 0
    /\ pos' = 0
    /\ cap' = 0
    /\ buf' = ZeroBlock(0)
    /\ stored' = NoHandles
    /\ UNCHANGED status

(* pool_push when pool_can_hold says there is room. *)
PushInPlace(d, n, a) ==
    /\ status = "ok"
    /\ CanHold(a)
    /\ StoreAtPos(buf, cap, alloc_size, d, n, a)

(* pool_push when there is none: a new block, the old contents, the data.    *)
(* With a NULL data pointer the memcpy out of the old block is the overrun.  *)
PushGrows(d, n, a) ==
    /\ status = "ok"
    /\ ~CanHold(a)
    /\ \E newsize \in GrownSizes(a) :
          /\ newsize > alloc_size
          /\ IF alloc_size <= cap
             THEN StoreAtPos(Moved(newsize), newsize, newsize, d, n, a)
             ELSE /\ status' = "overrun"
                  /\ UNCHANGED <<alloc_size, pos, cap, buf, stored>>

(* calloc of the new block fails: the client gets POOL_INVALID_HANDLE and the  *)
(* pool is as it was.                                                         *)
PushFails(a) ==
    /\ status = "ok"
    /\ ~CanHold(a)
    /\ \E newsize \in GrownSizes(a) : newsize > alloc_size
    /\ UNCHANGED vars

(* assert(newsize > pool->alloc_size) fails. *)
PushAborts(a) ==
    /\ status = "ok"
    /\ ~CanHold(a)
    /\ \E newsize \in GrownSizes(a) : newsize <= alloc_size
    /\ status' = "abort"
    /\ UNCHANGED <<alloc_size, pos, cap, buf, stored>>

(* A client stores through the pointer pool_getdata(pool, h) has just given. *)
ClientWrite(h, d) ==
    /\ status = "ok"
    /\ buf' = WriteCells(buf, h, stored[h].len, d)
    /\ stored' = [stored EXCEPT ![h].val = d]
    /\ UNCHANGED <<alloc_size, pos, cap, status>>

BugDrainKeepsPos ==
    /\ status = "ok"
    /\ buf' = ZeroBlock(cap)
    /\ stored' = NoHandles
    /\ UNCHANGED <<alloc_size, cap, pos, status>>

BugDrainKeepsBytes ==
    /\ status = "ok"
    /\ pos' = 0
    /\ stored' = NoHandles
    /\ UNCHANGED <<alloc_size, cap, buf, status>>

(* memset(data, 0, alloc_size) and back to the start, the buffer is kept. *)
Drain ==
    /\ status = "ok"
    /\ IF alloc_size <= cap
       THEN /\ buf' = ZeroBlock(cap)
            /\ pos' = 0
            /\ stored' = NoHandles
            /\ UNCHANGED <<alloc_size, cap, status>>
       ELSE /\ status' = "overrun"
            /\ UNCHANGED <<alloc_size, pos, cap, buf, stored>>

Push(d, n, given) ==
    LET a == Reservation(n, given)
    IN  \/ PushInPlace(d, n, a)
        \/ PushGrows(d, n, a)
        \/ PushFails(a)
        \/ PushAborts(a)

Next ==
    \/ \E n \in InitSizes : Open(n)
    \/ Close
    \/ \E d \in Data, n \in DataSizes, given \in AllocSizes :
          LegalRequest(n, given) /\ Push(d, n, given)
    \/ \E h \in DOMAIN stored, d \in Data : ClientWrite(h, d)
    \/ Drain

Spec == Init /\ [][Next]_vars
-----------------------------------------------------------------------------
TypeOK ==
    /\ alloc_size \in 0..(SizeMod - 1)
    /\ pos \in 0..(SizeMod - 1)
    /\ cap \in 0..(SizeMod - 1)
    /\ buf \in [0..(cap - 1) -> Data \cup {Zero}]
    /\ DOMAIN stored \subseteq 0..(SizeMod - 1)
    /\ \A h \in DOMAIN stored :
          stored[h] \in [size : 1..(SizeMod - 1), len : 1..(SizeMod - 1), val : Data]
    /\ status \in {"ok", "abort", "overrun"}

(* The cells a handle owns. *)
Cells(h) == h..(h + stored[h].size - 1)

(* "A stable opaque handle to data in the pool. Stays valid when the pool    *)
(* resizes" (pool.h): whatever has been pushed, grown or written since, the  *)
(* bytes behind every handle are the ones last stored there, and the part of *)
(* the reservation not yet written reads as zero.                            *)
HandlesStable ==
    \A h \in DOMAIN stored : \A i \in Cells(h) :
        /\ i \in DOMAIN buf
        /\ buf[i] = IF i < h + stored[h].len THEN stored[h].val ELSE Zero

(* The reservations tile the used part of the buffer: each cell below pos    *)
(* belongs to exactly one handle, none above it to any, so no two handles    *)
(* ever share bytes and the pool loses none.                                 *)
ReservationsTile ==
    /\ \A i \in 0..(pos - 1) : \E h \in DOMAIN stored : i \in Cells(h)
    /\ \A h \in DOMAIN stored :
          /\ h + stored[h].size <= pos
          /\ \A k \in DOMAIN stored : k # h => Cells(h) \cap Cells(k) = {}

(* Everything at or above pos is zero: pool_open, growth and pool_drain      *)
(* ("fill buffer with 0") all leave it so, which is what a client that asks  *)
(* for more room than it has data relies on.                                 *)
FreeCellsZero == \A i \in DOMAIN buf : i >= pos => buf[i] = Zero

(* A request is below the limit when even the grown size fits pool_size_t. *)
BelowLimit(a) == 3 * (alloc_size + a) < 2 * SizeMod

Requests == DataSizes \cup (AllocSizes \ {0})

(* The u32 sums of pool_can_hold and pool_push may wrap.  As long as the     *)
(* pool and the request stay below two thirds of 4 GiB they do not matter:   *)
(* the only way to leave the heap block is then a pool whose pool_open got   *)
(* no memory (alloc_size says n, data is NULL), and the assertion never      *)
(* stops the program.                                                        *)
OverrunOnlyPastLimit ==
    /\ status = "overrun" => cap # alloc_size \/ \E a \in Requests : ~BelowLimit(a)
    /\ status = "abort" => \E a \in Requests : ~BelowLimit(a)

(* pool_empty is true exactly when no handle is outstanding. *)
EmptyIffNoHandles == PoolEmpty <=> DOMAIN stored = {}

(* The pool implements the handle store: each handle's contents are read     *)
(* back from the buffer, at the address pool_getdata computes.               *)
Contents(h) == [i \in 0..(stored[h].size - 1) |-> buf[h + i]]

Store == INSTANCE HandleStore WITH store <- [h \in DOMAIN stored |-> Contents(h)]

StoreSpec == Store!Spec
=============================================================================

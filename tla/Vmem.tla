-------------------------------- MODULE Vmem --------------------------------
(***************************************************************************)
(* src/src/os/vmem.c and .h: the allocator of the emulated user space, with *)
(* the process memory it takes from malloc and mmap.                       *)
(*                                                                         *)
(* Addresses and sizes count half pages, so that a page has room for two   *)
(* small blocks of the heap, and an address is on a page boundary when it  *)
(* is even.  malloc and mmap may return any place that is free, one used   *)
(* before included, or fail.                                               *)
(*                                                                         *)
(* Operators named Bug... are the mutated forms of the operator that       *)
(* follows them; no specification uses them.                               *)
(***************************************************************************)
EXTENDS Integers, FiniteSetsExt

CONSTANTS
    Slots,      \* records in buffers (1024)
    Lowest,     \* the lowest address with memory; nothing is mapped below it
    Units       \* half pages of address space, those below Lowest included

ASSUME VmemAssumption ==
    /\ Slots \in Nat \ {0}
    /\ Lowest \in Nat \ {0} /\ Lowest % 2 = 0
    /\ Units \in Nat

VARIABLES
    buffers,    \* allocation buffers[1024]
    next_buf,
    blocks,     \* malloc's live blocks
    mapped,     \* half pages that mmap mapped
    held,       \* ghost: the allocations nobody has released yet
    health,     \* "ok", or what went wrong: see Damage
    excuses     \* ghost: the circumstances vmem_free does not cope with

memory == <<blocks, mapped>>
vmem == <<buffers, next_buf, memory, held, health, excuses>>

MEM_R == "r"
MEM_RW == "rw"
MEM_RWX == "rwx"
Permissions == {MEM_R, MEM_RW, MEM_RWX}

NULL == 0
MAP_FAILED == -1

Space == Lowest..(Units - 1)
Span(at, size) == at..(at + size - 1)

(* The pages that hold these half pages. *)
Pages(units) == {u \in Space : \E v \in units : u \div 2 = v \div 2}

Area(b) == Span(b.at, b.size)
HeapUnits == UNION {Area(b) : b \in blocks}

Block(at, size) == [at |-> at, size |-> size]

(* malloc stays clear of mapped pages, mmap of every page in use.  malloc gives   *)
(* something for size 0, too; mmap fails.                                     *)
HeapSize(size) == IF size = 0 THEN 1 ELSE size

MallocResults(size) ==
    {NULL} \cup
    {at \in Space : /\ Span(at, HeapSize(size)) \subseteq Space
                    /\ Span(at, HeapSize(size)) \cap (HeapUnits \cup mapped) = {}}

MmapResults(size) ==
    {MAP_FAILED} \cup
    {at \in Space : /\ size > 0
                    /\ at % 2 = 0
                    /\ Span(at, size) \subseteq Space
                    /\ Pages(Span(at, size)) \cap (HeapUnits \cup mapped) = {}}

Hold(owner, ptr, size, how) ==
    held' = IF ptr \in {NULL, MAP_FAILED} THEN held
            ELSE held \cup {[owner |-> owner, ptr |-> ptr, size |-> size, how |-> how]}

FromHeap(perm) == perm \in {MEM_R, MEM_RW}

Results(size, perm) == IF FromHeap(perm) THEN MallocResults(size) ELSE MmapResults(size)

InitVmem ==
    /\ buffers = [n \in 0..(Slots - 1) |-> [ptr |-> NULL, size |-> 0, perm |-> MEM_R]]
    /\ next_buf = 0
    /\ blocks = {}
    /\ mapped = {}
    /\ held = {}
    /\ health = "ok"
    /\ excuses = {}

(* The writes go past the table when it is full. *)
Overrun ==
    /\ next_buf = Slots
    /\ health' = "overrun"
    /\ excuses' = excuses \cup {"full"}
    /\ UNCHANGED <<buffers, next_buf, memory, held>>

(* vmem_alloc, the result of malloc or mmap being ptr.  A failed allocation uses *)
(* up a record all the same.                                                  *)
vmem_alloc(owner, size, perm, ptr) ==
    /\ next_buf < Slots
    /\ ptr \in Results(size, perm)
    /\ buffers' = [buffers EXCEPT ![next_buf] = [ptr |-> ptr, size |-> size, perm |-> perm]]
    /\ next_buf' = next_buf + 1
    /\ IF ptr \in {NULL, MAP_FAILED} THEN UNCHANGED memory
       ELSE IF FromHeap(perm)
            THEN blocks' = blocks \cup {Block(ptr, HeapSize(size))} /\ UNCHANGED mapped
            ELSE mapped' = mapped \cup Pages(Span(ptr, size)) /\ UNCHANGED blocks
    /\ Hold(owner, ptr, size, perm)
    /\ UNCHANGED <<health, excuses>>

(* vmem_map leaves no record. *)
vmem_map(owner, size, ptr) ==
    /\ ptr \in MmapResults(size)
    /\ mapped' = IF ptr = MAP_FAILED THEN mapped ELSE mapped \cup Pages(Span(ptr, size))
    /\ Hold(owner, ptr, size, "view")
    /\ UNCHANGED <<buffers, next_buf, blocks, health, excuses>>

(* munmap refuses an address that is not on a page boundary and a range that     *)
(* ends beyond the address space.  NULL is on a page boundary.                *)
Unmapped(ptr, size) ==
    IF ptr % 2 = 0 /\ ptr + size <= Units THEN Pages(Span(ptr, size)) ELSE {}

vmem_unmap(h) ==
    /\ h \in held
    /\ h.how = "view"
    /\ mapped' = mapped \ Unmapped(h.ptr, h.size)
    /\ held' = held \ {h}
    /\ UNCHANGED <<buffers, next_buf, blocks, health, excuses>>

(* alloc_by_ptr: the first record with this address, live or not. *)
alloc_by_ptr(ptr) ==
    LET found == {n \in DOMAIN buffers : buffers[n].ptr = ptr}
    IN  IF found = {} THEN {} ELSE {Min(found)}

BugAlwaysFrees(record) == TRUE

Frees(record) == record.perm # MEM_RWX

(* vmem_free(ptr) of memory vmem_alloc returned (h), or of NULL: free unless the *)
(* record says RWX, and munmap always, with the size of the record.            *)
Release(ptr, record, h) ==
    LET freed == {b \in blocks : b.at = ptr /\ Frees(record)}
        gone == Unmapped(ptr, record.size)
        rest == blocks \ freed
    IN  /\ health' = CASE Frees(record) /\ ptr # NULL /\ freed = {} -> "bad free"
                       [] \E b \in rest : Area(b) \cap gone # {} -> "heap unmapped"
                       [] OTHER -> "ok"
        /\ blocks' = rest
        /\ mapped' = mapped \ gone
        /\ held' = held \ h
        (* the circumstances, judged before the call *)
        /\ excuses' = excuses \cup
               {e \in {"stale record", "page boundary", "failed record"} :
                   CASE e = "stale record" ->
                           \E a \in h : record # [ptr |-> ptr, size |-> a.size, perm |-> a.how]
                     [] e = "page boundary" ->
                           \E a \in h : FromHeap(a.how) /\ ptr % 2 = 0
                     [] e = "failed record" -> ptr = NULL /\ gone # {}}
        /\ UNCHANGED <<buffers, next_buf>>

vmem_free(ptr, h) ==
    LET found == alloc_by_ptr(ptr)
    IN  \/ \E n \in found : Release(ptr, buffers[n], h)
        \/ /\ found = {}               \* buf->perm of a NULL buf
           /\ health' = "fault"
           /\ excuses' = excuses \cup (IF next_buf = Slots THEN {"full"} ELSE {})
           /\ UNCHANGED <<buffers, next_buf, memory, held>>
-----------------------------------------------------------------------------
TypeOKVmem ==
    /\ buffers \in [0..(Slots - 1) ->
           [ptr : Space \cup {NULL, MAP_FAILED}, size : Nat, perm : Permissions]]
    /\ next_buf \in 0..Slots
    /\ \A b \in blocks : b.at \in Space /\ Area(b) \subseteq Space
    /\ mapped \subseteq Space
    /\ \A h \in held : h.ptr \in Space /\ h.how \in Permissions \cup {"view"}
    /\ health \in {"ok", "overrun", "bad free", "heap unmapped", "fault"}
    /\ excuses \subseteq {"full", "stale record", "page boundary", "failed record"}

HeldHeap == {h \in held : FromHeap(h.how)}

(* Until a stale record of a reused address, a heap block on a page boundary, a  *)
(* full table or, for NULL, the record of a failed allocation so large that it *)
(* reaches memory gets in its way, vmem_free releases what it is given and     *)
(* nothing else: the memory in use is what has been handed out and not been    *)
(* released.                                                                  *)
MemoryIsHeld ==
    excuses = {} =>
        /\ health = "ok"
        /\ blocks = {Block(h.ptr, HeapSize(h.size)) : h \in HeldHeap}
        /\ mapped = UNION {Pages(Span(h.ptr, h.size)) : h \in held \ HeldHeap}
=============================================================================

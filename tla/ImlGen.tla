------------------------------- MODULE ImlGen -------------------------------
(***************************************************************************)
(* src/src/imlgen/iml.cxx: imlgen and imlgen_recurse, with what decode.cxx *)
(* and the expression constructors push on the way.  Each ARM word becomes *)
(* zero or more expression objects and one instruction object in the IML   *)
(* pool; the recursion runs to the end of the ARM buffer first and links   *)
(* the instructions on the way back, last word first.                      *)
(*                                                                         *)
(* The pool is used through what Pool.tla shows of it: a handle is the     *)
(* value of pos at the push, and the object behind it stays put.  So `mem` *)
(* maps handles to objects, and only the u32 arithmetic that decides when  *)
(* the buffer is reallocated, may fail to be, or no longer can, is kept.   *)
(*                                                                         *)
(* Operators named Bug... are the mutated forms of the operator that       *)
(* follows them; no specification uses them.                               *)
(***************************************************************************)
EXTENDS Integers, Sequences, FiniteSets

CONSTANTS
    ExprSize,      \* sizeof(expression)
    InstrSize,     \* sizeof(instruction)
    SizeMod,       \* 2^32, one more than the largest pool_size_t
    Sizes,         \* sizes in bytes of the ARM buffers imlgen is given
    MaxNesting     \* most binary expressions the decoder nests in one word

(* Of the u32 sizes the last three are left out: there pos + 4 wraps to 0 and   *)
(* the recursion would start again, with 2^30 calls suspended.                *)
ASSUME ImlGenAssumption ==
    /\ SizeMod \in Nat
    /\ ExprSize \in 1..(SizeMod - 1)
    /\ InstrSize \in 1..(SizeMod - 1)
    /\ Sizes \subseteq 1..(SizeMod - 4)
    /\ MaxNesting \in Nat

VARIABLES
    size,        \* arm_pool.alloc_size
    code,        \* what decode makes of each word, see Kinds
    mem,         \* objects in the IML pool: handle |-> object
    pos,         \* iml_pool.pos
    alloc_size,  \* iml_pool.alloc_size
    null,        \* iml_pool.data is NULL though alloc_size is not 0
    bits,        \* decoded_instrs.buf could be allocated
    decoded,     \* the bits set in decoded_instrs
    stack,       \* Hdecoded of each suspended imlgen_recurse, outermost first
    pc,          \* where the running imlgen_recurse is
    word,        \* its pos / 4
    todo,        \* binary expressions its decode has still to construct
    cur,         \* the expression under construction
    left,        \* result of the left pool_push of that expression
    ret,         \* handle returned by the last imlgen_recurse that ended
    status,      \* "running", "done", "abort" (assertion), "fault" or "hung"
    oom,         \* ghost: some allocation has failed
    overread     \* ghost: some read went past the end of its buffer

pool == <<mem, pos, alloc_size>>
call == <<stack, pc, word, todo, cur, left, ret>>
input == <<size, code, null, bits>>
vars == <<input, pool, call, decoded, status, oom, overread>>

(* What decode makes of a word.  Rejected words fail an assertion (a zero     *)
(* word, an undefined shift or mask).  Endless ones are logical immediates    *)
(* with N = 0 and imms = 63, for which HighestBitSet(0) counts its u8 index   *)
(* down past 0 for ever and shifts by more than the width of its operand:     *)
(* undefined, in practice a loop without end or the assertion that follows.   *)
(* Plain words give an instruction with no expression (branches, and          *)
(* everything not implemented); a word of kind n > 0 gives n nested binary    *)
(* expressions, e.g. 3 for Rn op NOT(Rm LSL i).                               *)
Endless == -2
Rejected == -1
Plain == 0
Kinds == Endless..MaxNesting

(* program.entry_point, left as imlgen initializes it. *)
entry_point == 0

(* POOL_INVALID_HANDLE; below every handle here, as it is above every one in C. *)
Invalid == -1

(* The recursion visits pos = 0, 4, 8, ... below the size: a trailing partial *)
(* word is visited too.                                                       *)
NumWords(bytes) == (bytes + 3) \div 4

(* imlgen's num_instrs, which does not count it. *)
NumInstrs == size \div 4

(* Objects.  Expressions carry no usable tag in C (only leaves write is_value); *)
(* kind, and the word an object was made for, are ghosts.                      *)
Leaf(w) == [kind |-> "leaf", word |-> w]
Node(w, l, r) == [kind |-> "node", word |-> w, left |-> l, right |-> r]
Instr(w, e, n) == [kind |-> "instr", word |-> w, expr |-> e, next |-> n]

(* The expression of a value-initialized decode_result: all bytes zero. *)
Blank(w) == Node(w, 0, 0)

-----------------------------------------------------------------------------
(* pool_push(&prog->iml_pool, object, n, 0), see Pool.tla, with the handle h   *)
(* for its result.                                                            *)
CanHold(n) == alloc_size > (pos + n) % SizeMod

(* (alloc_size + n) * 1.5 as a u32: any value when the product is too large.   *)
GrownSizes(n) ==
    LET sum  == (alloc_size + n) % SizeMod
        half == sum + sum \div 2
    IN  IF half < SizeMod THEN {half} ELSE 0..(SizeMod - 1)

(* The sizes the buffer may have when the object is copied into it. *)
Room(n) == IF CanHold(n) THEN {alloc_size} ELSE {g \in GrownSizes(n) : g > alloc_size}

BugPosNotAdvanced(o, n, h) ==
    /\ h = pos
    /\ mem' = [k \in DOMAIN mem \cup {h} |-> IF k = h THEN o ELSE mem[k]]
    /\ UNCHANGED <<pos, alloc_size, oom>>

Stored(o, n, h) ==
    /\ \E newsize \in Room(n) : pos + n <= newsize /\ alloc_size' = newsize
    /\ h = pos
    /\ mem' = [k \in DOMAIN mem \cup {h} |-> IF k = h THEN o ELSE mem[k]]
    /\ pos' = pos + n
    /\ UNCHANGED oom

(* The calloc of a larger buffer fails. *)
NotStored(n, h) ==
    /\ ~CanHold(n) /\ Room(n) # {}
    /\ h = Invalid
    /\ oom' = TRUE
    /\ UNCHANGED pool

Push(o, n, h) == (~null /\ Stored(o, n, h)) \/ NotStored(n, h)

Handles == {pos, Invalid}

-----------------------------------------------------------------------------
(* num_instrs * sizeof(instruction), a size_t, as the u32 pool_open takes. *)
FirstSize == (NumInstrs * InstrSize) % SizeMod

(* imlgen: the pool and the bit set are allocated, imlgen_recurse is called   *)
(* with pos 0.  calloc may fail for either, and the results are not checked.  *)
Init ==
    /\ size \in Sizes
    /\ code \in [0..(NumWords(size) - 1) -> Kinds]
    /\ mem = [h \in {} |-> h]
    /\ pos = 0
    /\ alloc_size = FirstSize
    /\ null \in {FALSE, alloc_size > 0}
    /\ bits \in BOOLEAN
    /\ decoded = {}
    /\ stack = << >>
    /\ pc = "decode"
    /\ word = 0
    /\ todo = 0
    /\ cur = Leaf(0)
    /\ left = Invalid
    /\ ret = Invalid
    /\ status = "running"
    /\ oom = (null \/ (~bits /\ NumInstrs > 0))
    /\ overread = FALSE

BugBitBytesRoundDown == NumInstrs \div 8

BitBytes == (NumInstrs + 7) \div 8

(* Reading or setting a bit through a NULL buf is a fault, reading one past   *)
(* the end an overread.                                                       *)
PastBits(w) == w \div 8 >= BitBytes

Fault ==
    /\ status' = "fault"
    /\ UNCHANGED <<input, pool, call, decoded, oom, overread>>

(* decode(prog, *arm_instr).  A read that reaches past the buffer gives any    *)
(* word at all: code has an arbitrary kind there.                             *)
DecodeWord ==
    /\ status = "running" /\ pc = "decode"
    /\ overread' = (overread \/ 4 * word + 4 > size)
    /\ IF code[word] \in {Rejected, Endless}
       THEN /\ status' \in IF code[word] = Rejected THEN {"abort"} ELSE {"abort", "hung"}
            /\ UNCHANGED <<pc, todo, cur>>
       ELSE /\ pc' = IF code[word] = Plain THEN "push" ELSE "left"
            /\ todo' = code[word]
            /\ cur' = IF code[word] = Plain THEN Blank(word) ELSE Leaf(word)
            /\ UNCHANGED status
    /\ UNCHANGED <<input, pool, decoded, stack, word, left, ret, oom>>

BugLeftForgotten ==
    /\ status = "running" /\ pc = "left"
    /\ \E h \in Handles :
          Push(IF todo = 1 THEN Leaf(word) ELSE cur, ExprSize, h)
    /\ pc' = "right"
    /\ UNCHANGED <<input, decoded, stack, word, todo, cur, left, ret, status, overread>>

(* The expression constructor pushes its left operand, then its right one.    *)
(* Around Rm or the immediate the operand is on the left (its shift amount or *)
(* a blank on the right); the outermost expression has Rn on the left.        *)
PushLeft ==
    /\ status = "running" /\ pc = "left"
    /\ \E h \in Handles :
          /\ Push(IF todo = 1 THEN Leaf(word) ELSE cur, ExprSize, h)
          /\ left' = h
    /\ pc' = "right"
    /\ UNCHANGED <<input, decoded, stack, word, todo, cur, ret, status, overread>>

BugRightIsAlwaysLeaf ==
    /\ status = "running" /\ pc = "right"
    /\ \E h \in Handles :
          /\ Push(Leaf(word), ExprSize, h)
          /\ cur' = Node(word, left, h)
    /\ todo' = todo - 1
    /\ pc' = IF todo = 1 THEN "push" ELSE "left"
    /\ UNCHANGED <<input, decoded, stack, word, left, ret, status, overread>>

PushRight ==
    /\ status = "running" /\ pc = "right"
    /\ \E h \in Handles :
          /\ Push(IF todo = 1 THEN cur ELSE Leaf(word), ExprSize, h)
          /\ cur' = Node(word, left, h)
    /\ todo' = todo - 1
    /\ pc' = IF todo = 1 THEN "push" ELSE "left"
    /\ UNCHANGED <<input, decoded, stack, word, left, ret, status, overread>>

(* pos + 4 < prog->arm_pool.alloc_size *)
MoreCode == 4 * word + 4 < size

BugMarkedEarly ==
    /\ status = "running" /\ pc = "push"
    /\ \E h \in Handles :
          /\ Push(Instr(word, cur, 0), InstrSize, h)
          /\ IF MoreCode
             THEN /\ stack' = Append(stack, h)
                  /\ word' = word + 1
                  /\ pc' = "decode"
                  /\ decoded' = decoded \cup {word}
                  /\ UNCHANGED ret
             ELSE /\ ret' = h
                  /\ pc' = "end"
                  /\ UNCHANGED <<stack, word, decoded>>
    /\ UNCHANGED <<input, todo, cur, left, status, overread>>

(* The instruction is pushed with next = 0; then the rest of the code comes    *)
(* first, unless this word is the last.                                       *)
PushInstr ==
    /\ status = "running" /\ pc = "push"
    /\ \E h \in Handles :
          /\ Push(Instr(word, cur, 0), InstrSize, h)
          /\ IF MoreCode
             THEN /\ stack' = Append(stack, h)
                  /\ word' = word + 1
                  /\ pc' = "decode"
                  /\ UNCHANGED ret
             ELSE /\ ret' = h
                  /\ pc' = "end"
                  /\ UNCHANGED <<stack, word>>
    /\ UNCHANGED <<input, decoded, todo, cur, left, status, overread>>

(* Any of these pushes copies through NULL if the pool could not be opened, and *)
(* past the end of the buffer if its size has not kept up with pos.           *)
Pushing == pc \in {"left", "right", "push"}
Needed == IF pc = "push" THEN InstrSize ELSE ExprSize

PushStrays ==
    /\ status = "running" /\ Pushing
    /\ \E newsize \in Room(Needed) : null \/ pos + Needed > newsize
    /\ Fault

(* assert(newsize > pool->alloc_size) fails. *)
PushAborts ==
    /\ status = "running" /\ Pushing
    /\ ~CanHold(Needed)
    /\ \E g \in GrownSizes(Needed) : g <= alloc_size
    /\ status' = "abort"
    /\ UNCHANGED <<input, pool, call, decoded, oom, overread>>

(* The last word's call: next is written as 0 again, its bit only read.       *)
EndOfBuffer ==
    /\ status = "running" /\ pc = "end"
    /\ IF ret = Invalid \/ ~bits
       THEN Fault
       ELSE /\ overread' = (overread \/ PastBits(word))
            /\ pc' = "return"
            /\ UNCHANGED <<input, pool, decoded, stack, word, todo, cur, left, ret, status, oom>>

(* next is written through the pointer of the push: lost once the pool moved.   *)
BugLinkThroughOldPointer ==
    /\ status = "running" /\ pc = "return" /\ stack # << >>
    /\ LET caller == Len(stack) - 1
           h == stack[Len(stack)]
       IN  /\ h # Invalid /\ bits
           /\ decoded' = decoded \cup {caller}
           /\ mem' = IF alloc_size = FirstSize THEN [mem EXCEPT ![h].next = ret] ELSE mem
           /\ ret' = h
           /\ stack' = SubSeq(stack, 1, Len(stack) - 1)
           /\ word' = caller
           /\ UNCHANGED <<input, pos, alloc_size, pc, todo, cur, left, status, oom, overread>>

BugSameCallerAgain ==
    /\ status = "running" /\ pc = "return" /\ stack # << >>
    /\ decoded' = decoded \cup {Len(stack) - 1}
    /\ mem' = [mem EXCEPT ![stack[Len(stack)]].next = ret]
    /\ ret' = stack[Len(stack)]
    /\ UNCHANGED <<input, pos, alloc_size, pc, stack, word, todo, cur, left, status, oom, overread>>

(* Back in a caller: mark its word, write next through a pointer looked up     *)
(* only now, return its own handle.                                           *)
LinkNext ==
    /\ status = "running" /\ pc = "return" /\ stack # << >>
    /\ LET caller == Len(stack) - 1
           h == stack[Len(stack)]
       IN  IF h = Invalid \/ ~bits
           THEN Fault
           ELSE /\ decoded' = decoded \cup {caller}
                /\ mem' = [mem EXCEPT ![h].next = ret]
                /\ overread' = (overread \/ PastBits(caller))
                /\ ret' = h
                /\ stack' = SubSeq(stack, 1, Len(stack) - 1)
                /\ word' = caller
                /\ UNCHANGED <<input, pos, alloc_size, pc, todo, cur, left, status, oom>>

(* imlgen ignores the handle of the first word and returns the program.       *)
Finish ==
    /\ status = "running" /\ pc = "return" /\ stack = << >>
    /\ status' = "done"
    /\ UNCHANGED <<input, pool, call, decoded, oom, overread>>

Next ==
    \/ DecodeWord
    \/ PushLeft
    \/ PushRight
    \/ PushInstr
    \/ PushStrays
    \/ PushAborts
    \/ EndOfBuffer
    \/ LinkNext
    \/ Finish

(* One thread runs, and nothing in it waits. *)
Spec == Init /\ [][Next]_vars /\ WF_vars(Next)
-----------------------------------------------------------------------------
Words == 0..(NumWords(size) - 1)

Exprs == [kind : {"leaf"}, word : Words] \cup
         [kind : {"node"}, word : Words, left : Nat \cup {Invalid}, right : Nat \cup {Invalid}]

Instrs == [kind : {"instr"}, word : Words, expr : Exprs, next : Nat \cup {Invalid}]

TypeOK ==
    /\ size \in Sizes
    /\ code \in [Words -> Kinds]
    /\ DOMAIN mem \subseteq 0..(pos - 1)
    /\ \A h \in DOMAIN mem : mem[h] \in Exprs \cup Instrs
    /\ pos \in 0..(SizeMod - 1) /\ alloc_size \in 0..(SizeMod - 1)
    /\ null \in BOOLEAN /\ bits \in BOOLEAN
    /\ decoded \subseteq Words
    /\ stack \in Seq(Nat \cup {Invalid})
    /\ pc \in {"decode", "left", "right", "push", "end", "return"}
    /\ word \in Words
    /\ todo \in Kinds
    /\ cur \in Exprs
    /\ left \in Nat \cup {Invalid} /\ ret \in Nat \cup {Invalid}
    /\ status \in {"running", "done", "abort", "fault", "hung"}
    /\ oom \in BOOLEAN /\ overread \in BOOLEAN

(* The handles of the instructions made for word w, and of all expressions. *)
InstrOf(w) == {h \in DOMAIN mem : mem[h].kind = "instr" /\ mem[h].word = w}
ExprHandles == {h \in DOMAIN mem : mem[h].kind # "instr"}

(* The sub-expressions the object at h refers to. *)
ExprAt(h) == IF mem[h].kind = "instr" THEN mem[h].expr ELSE mem[h]
Children(h) ==
    IF ExprAt(h).kind = "node" /\ code[mem[h].word] # Plain
    THEN {ExprAt(h).left, ExprAt(h).right} ELSE {}

(* "we use a recursive expression tree" (iml.hxx): the handles kept in         *)
(* expressions, taken before the next pushes move the buffer, make trees.     *)
(* Children were pushed for the same word and before their parent, a node has *)
(* two, and no expression has two parents.                                    *)
TreesSound ==
    ~oom => \A h \in DOMAIN mem :
        /\ Cardinality(Children(h)) \in {0, 2}
        /\ \A c \in Children(h) :
              c \in ExprHandles /\ c < h /\ mem[c].word = mem[h].word
        /\ \A k \in DOMAIN mem \ {h} : Children(h) \cap Children(k) = {}

(* While the recursion unwinds, the instructions of the words already returned *)
(* from form a complete list, in program order and ending in 0, that starts   *)
(* at the handle just returned.                                               *)
ListingSuffix ==
    (~oom /\ pc = "return") =>
        /\ ret \in InstrOf(Len(stack))
        /\ \A w \in Len(stack)..(NumWords(size) - 1) :
              /\ Cardinality(InstrOf(w)) = 1
              /\ \A h \in InstrOf(w) :
                    IF w + 1 \in Words THEN mem[h].next \in InstrOf(w + 1)
                                       ELSE mem[h].next = 0

(* decoded_instrs, "branch destinations that have already been decoded"        *)
(* (iml.hxx): a word is only marked once its IML exists and goes on to that   *)
(* of the next word, so that a branch to it could be resolved.                *)
MarkedAreLinked ==
    ~oom => \A w \in decoded : \E h \in InstrOf(w) : mem[h].next \in InstrOf(w + 1)

(* The next push needs a larger buffer, and one half larger than that has a     *)
(* size that is no u32.                                                       *)
Outgrown ==
    /\ Pushing
    /\ alloc_size <= pos + Needed
    /\ (alloc_size + Needed) + (alloc_size + Needed) \div 2 >= SizeMod

(* Until the pool outgrows pool_size_t, imlgen never faults without a failed    *)
(* allocation, and it stops at words decode stops at and at no other; and     *)
(* unless the size is not a multiple of 4 it reads nothing outside the ARM    *)
(* buffer and the bit set.                                                    *)
FaultsExplained ==
    /\ status = "fault" => oom \/ size % 4 # 0 \/ Outgrown
    /\ status \in {"abort", "hung"} =>
          (pc = "decode" /\ code[word] \in {Rejected, Endless}) \/ Outgrown
    /\ overread => size % 4 # 0

(* The recursion ends, or stops the program, for every buffer that has no      *)
(* Endless word.                                                              *)
Terminates ==
    (\A w \in Words : code[w] # Endless) => <>(status \in {"done", "abort", "fault"})

(* The IML as a reader gets it: follow next from the first instruction, and   *)
(* in each instruction the expression tree, whose height says how many binary *)
(* expressions were nested.                                                  *)
Chain == LET at[w \in Words] == IF w = 0 THEN ret ELSE mem[at[w - 1]].next IN at

Height ==
    LET Higher(a, b) == IF a < b THEN b ELSE a
        up[h \in DOMAIN mem] ==
            IF Children(h) = {} THEN 0
            ELSE 1 + Higher(up[ExprAt(h).left], up[ExprAt(h).right])
    IN  up

Listing == [w \in Words |-> Height[Chain[w]]]

Translated ==
    INSTANCE Translation
    WITH Accepted <- Plain..MaxNesting,
         out <- IF status = "done" /\ ~oom THEN Listing ELSE [w \in {} |-> 0]

(* imlgen implements Translation. *)
TranslationSpec == Translated!Spec

(* The IML objects are only ever added, or changed one at a time: imlgen uses *)
(* the pool as the handle store that Pool.tla implements.                     *)
Objects == INSTANCE HandleStore WITH store <- mem

ObjectsSpec == Objects!Spec

(* "The first instruction" (the comment on program.entry_point). *)
EntryPointIsFirst == (status = "done" /\ ~oom) => entry_point \in InstrOf(0)
=============================================================================

---------------------------- MODULE ImlGenProofs ----------------------------
(***************************************************************************)
(* imlgen faults only for a reason, and what it leaves in the pool are     *)
(* trees, a listing, and a translation, for every buffer, every nesting of *)
(* expressions and every outcome of the allocations.                       *)
(***************************************************************************)
EXTENDS ImlGen, Numbers, SequenceTheorems

-----------------------------------------------------------------------------
(* Sizes and words. *)

LEMMA SizeFacts ==
  ASSUME size \in Sizes
  PROVE  /\ size \in Nat \ {0}
         /\ NumWords(size) \in Nat \ {0}
         /\ NumInstrs \in Nat
         /\ NumInstrs = 0 => size % 4 # 0
         /\ size % 4 = 0 => NumInstrs = NumWords(size) /\ size = 4 * NumWords(size)
  BY ImlGenAssumption DEF NumWords, NumInstrs

LEMMA WordFacts ==
  ASSUME size \in Sizes, NEW w \in Words
  PROVE  /\ w \in Nat
         /\ 4 * w + 4 < size <=> w + 1 \in Words
         /\ ~ (4 * w + 4 < size) <=> w = NumWords(size) - 1
         /\ size % 4 = 0 => 4 * w + 4 <= size /\ ~PastBits(w)
  <1>1. /\ w \in Nat /\ w < NumWords(size) /\ NumWords(size) \in Nat
        /\ size \in Nat \ {0}
    BY SizeFacts DEF Words
  <1>2. 4 * w + 4 < size <=> w + 1 < NumWords(size)
    BY <1>1 DEF NumWords
  <1>3. size % 4 = 0 => 4 * w + 4 <= size
    BY <1>1 DEF NumWords
  <1>4. size % 4 = 0 => ~PastBits(w)
    <2> SUFFICES ASSUME size % 4 = 0 PROVE ~PastBits(w)
      OBVIOUS
    <2>1. w < NumInstrs /\ NumInstrs \in Nat
      BY <1>1, SizeFacts
    <2> QED
      BY <2>1, <1>1 DEF PastBits, BitBytes
  <1> QED
    BY <1>1, <1>2, <1>3, <1>4 DEF Words

(* The stack without its top. *)
LEMMA AllButLast ==
  ASSUME NEW S, NEW s \in Seq(S), s # << >>
  PROVE  /\ Len(s) \in Nat \ {0}
         /\ Len(SubSeq(s, 1, Len(s) - 1)) = Len(s) - 1
         /\ \A k \in 1..Len(SubSeq(s, 1, Len(s) - 1)) :
               SubSeq(s, 1, Len(s) - 1)[k] = s[k] /\ k \in 1..Len(s)
  <1>1. Len(s) \in Nat \ {0}
    OBVIOUS
  <1> DEFINE n == Len(s) - 1
  <1>2. n \in Nat /\ \A k \in 1..n : s[k] \in S /\ k \in 1..Len(s)
    BY <1>1
  <1>3. /\ Len(SubSeq(s, 1, n)) = IF 1 <= n THEN n - 1 + 1 ELSE 0
        /\ \A k \in 1..(n - 1 + 1) : SubSeq(s, 1, n)[k] = s[1 + k - 1]
    <2> HIDE DEF n
    <2> QED
      BY <1>2, SubSeqProperties
  <1>4. n - 1 + 1 = n /\ (1 > n => n = 0) /\ \A k \in 1..n : 1 + k - 1 = k
    <2> HIDE DEF n
    <2> QED
      BY <1>2
  <1>5. Len(SubSeq(s, 1, n)) = n
    <2> HIDE DEF n
    <2> QED
      BY <1>2, <1>3, <1>4
  <1> QED
    BY <1>1, <1>2, <1>3, <1>4, <1>5

(* Objects. *)
AnyHandle == Nat \cup {Invalid}

LEMMA LeafType == \A w \in Words : Leaf(w) \in Exprs
  BY DEF Leaf, Exprs

LEMMA NodeType == \A w \in Words, l, r \in AnyHandle : Node(w, l, r) \in Exprs
  BY DEF Node, Exprs, AnyHandle

LEMMA InstrType == \A w \in Words, e \in Exprs, n \in AnyHandle : Instr(w, e, n) \in Instrs
  BY DEF Instr, Instrs, AnyHandle

LEMMA ExprFacts ==
  ASSUME NEW e \in Exprs
  PROVE  /\ e.kind \in {"leaf", "node"}
         /\ e.word \in Words
         /\ e.kind = "node" => e.left \in AnyHandle /\ e.right \in AnyHandle
  BY DEF Exprs, AnyHandle

LEMMA InstrFacts ==
  ASSUME NEW e \in Instrs, NEW n \in AnyHandle
  PROVE  /\ e.kind = "instr"
         /\ e.word \in Words
         /\ e.expr \in Exprs
         /\ e.next \in AnyHandle
         /\ [e EXCEPT !.next = n] = Instr(e.word, e.expr, n)
  BY DEF Instrs, AnyHandle, Instr

(* What a push does: the object gets a handle nothing has, or there is none. *)
Pushed(o, n, h) ==
    /\ h = pos
    /\ DOMAIN mem' = DOMAIN mem \cup {h}
    /\ mem'[h] = o
    /\ \A k \in DOMAIN mem : mem'[k] = mem[k] /\ k \in Nat /\ k < h
    /\ pos' = pos + n
    /\ alloc_size' \in 0..(SizeMod - 1)
    /\ pos' <= alloc_size'
    /\ oom' = oom

Missed(h) == h = Invalid /\ oom' = TRUE /\ UNCHANGED <<mem, pos, alloc_size>>

(* The sizes the buffer may grow to are u32 sizes. *)
LEMMA RoomType ==
  ASSUME TypeOK, NEW n \in {ExprSize, InstrSize}
  PROVE  Room(n) \subseteq 0..(SizeMod - 1)
  <1>1. /\ SizeMod \in Nat \ {0} /\ n \in Nat /\ alloc_size \in 0..(SizeMod - 1)
    BY ImlGenAssumption DEF TypeOK
  <1> DEFINE sum == (alloc_size + n) % SizeMod
  <1>2. sum \in Nat
    BY <1>1, DivModNat
  <1>3. sum \div 2 \in Nat
    BY <1>2, DivModNat
  <1>4. GrownSizes(n) = IF sum + sum \div 2 < SizeMod THEN {sum + sum \div 2}
                        ELSE 0..(SizeMod - 1)
    BY DEF GrownSizes
  <1>5. GrownSizes(n) \subseteq 0..(SizeMod - 1)
    <2> HIDE DEF sum
    <2>1. sum + sum \div 2 \in Nat
      BY <1>2, <1>3
    <2> QED
      BY <1>1, <1>4, <2>1
  <1> QED
    BY <1>1, <1>5 DEF Room

LEMMA PushFacts ==
  ASSUME TypeOK,
         NEW o, NEW n \in {ExprSize, InstrSize}, NEW h,
         Push(o, n, h)
  PROVE  Pushed(o, n, h) \/ Missed(h)
  <1>1. CASE Stored(o, n, h)
    <2>1. alloc_size' \in 0..(SizeMod - 1) /\ pos + n <= alloc_size'
      BY <1>1, RoomType DEF Stored
    <2>2. \A k \in DOMAIN mem : k \in Nat /\ k < pos
      BY DEF TypeOK
    <2>3. mem' = [k \in DOMAIN mem \cup {pos} |-> IF k = pos THEN o ELSE mem[k]]
      BY <1>1 DEF Stored
    <2>4. /\ DOMAIN mem' = DOMAIN mem \cup {pos}
          /\ mem'[pos] = o
          /\ \A k \in DOMAIN mem : mem'[k] = mem[k] /\ k < pos
      BY <2>2, <2>3
    <2> QED
      BY <1>1, <2>1, <2>2, <2>4 DEF Stored, Pushed
  <1>2. CASE NotStored(n, h)
    BY <1>2 DEF NotStored, Missed, pool
  <1> QED
    BY <1>1, <1>2 DEF Push

(* The types survive a push, whatever comes of it. *)
LEMMA PushTypes ==
  ASSUME TypeOK, UNCHANGED input,
         NEW o \in Exprs \cup Instrs, NEW n \in {ExprSize, InstrSize}, NEW h,
         Push(o, n, h)
  PROVE  /\ h \in AnyHandle
         /\ DOMAIN mem' \subseteq 0..(pos' - 1)
         /\ \A k \in DOMAIN mem' : mem'[k] \in Exprs' \cup Instrs'
         /\ pos' \in 0..(SizeMod - 1) /\ alloc_size' \in 0..(SizeMod - 1)
         /\ oom' \in BOOLEAN
  <1>0. pos \in Nat /\ n \in Nat \ {0} /\ SizeMod \in Nat
    BY ImlGenAssumption DEF TypeOK
  <1>1. Exprs' = Exprs /\ Instrs' = Instrs
    BY DEF Exprs, Instrs, Words, input
  <1>2. CASE Missed(h)
    BY <1>1, <1>2 DEF Missed, TypeOK, AnyHandle
  <1>3. CASE Pushed(o, n, h)
    <2>1. DOMAIN mem' \subseteq 0..(pos' - 1)
      BY <1>0, <1>3 DEF TypeOK, Pushed
    <2>2. \A k \in DOMAIN mem' : mem'[k] \in Exprs' \cup Instrs'
      BY <1>1, <1>3 DEF TypeOK, Pushed
    <2>3. pos' \in 0..(SizeMod - 1)
      BY <1>0, <1>3 DEF Pushed
    <2> QED
      BY <1>0, <1>3, <2>1, <2>2, <2>3 DEF AnyHandle, TypeOK, Pushed
  <1> QED
    BY <1>2, <1>3, PushFacts

-----------------------------------------------------------------------------
(* The recursion: each suspended call keeps its place in the program, and the  *)
(* handles that were returned are those of instructions.                      *)
CallInv ==
    /\ Len(stack) = word
    /\ \A k \in 1..Len(stack) : stack[k] # Invalid => stack[k] \in InstrOf(k - 1)
    /\ pc \in {"left", "right", "push"} => cur.word = word /\ code[word] \in Plain..MaxNesting
    /\ pc \in {"left", "right"} => todo \in 1..code[word]
    /\ pc = "push" => todo = 0
    /\ pc \in {"end", "return"} /\ ret # Invalid => ret \in InstrOf(word)
    /\ pc = "end" => word = NumWords(size) - 1
    /\ pc = "return" => ret # Invalid
    /\ \A h \in DOMAIN mem : code[mem[h].word] \in Plain..MaxNesting

(* The pool ends within its buffer; a failed push gives an instruction no       *)
(* handle, and only then is there none.                                       *)
FaultInv ==
    /\ pos <= alloc_size
    /\ null => oom
    /\ ~bits => oom \/ NumInstrs = 0
    /\ ~oom => \A k \in 1..Len(stack) : stack[k] # Invalid
    /\ ~oom /\ pc \in {"end", "return"} => ret # Invalid
    /\ FaultsExplained

(* What LinkNext does to the pool: the instruction of the caller gets a next. *)
Linked(h) ==
    /\ h \in InstrOf(Len(stack) - 1)
    /\ mem[h] \in Instrs
    /\ DOMAIN mem' = DOMAIN mem
    /\ \A k \in DOMAIN mem \ {h} : mem'[k] = mem[k]
    /\ mem'[h] = Instr(mem[h].word, mem[h].expr, ret)

LEMMA LinkFacts ==
  ASSUME TypeOK, CallInv, stack # << >>, NEW h, h = stack[Len(stack)], h # Invalid,
         mem' = [mem EXCEPT ![h].next = ret]
  PROVE  Linked(h)
  <1>1. Len(stack) \in 1..Len(stack)
    BY DEF TypeOK
  <1>2. h \in InstrOf(Len(stack) - 1)
    BY <1>1 DEF CallInv
  <1>3. h \in DOMAIN mem /\ mem[h] \in Instrs
    BY <1>2, ExprFacts DEF InstrOf, TypeOK
  <1>4. ret \in AnyHandle
    BY DEF TypeOK, AnyHandle
  <1>5. mem'[h] = Instr(mem[h].word, mem[h].expr, ret)
    BY <1>3, <1>4, InstrFacts
  <1> QED
    BY <1>2, <1>3, <1>5 DEF Linked

LEMMA TypeInit == Init => TypeOK
  <1> SUFFICES ASSUME Init PROVE TypeOK
    OBVIOUS
  <1>1. size \in Sizes
    BY DEF Init
  <1>2. 0 \in Words
    BY <1>1, SizeFacts DEF Words
  <1>3. Leaf(0) \in Exprs
    BY <1>2, LeafType
  <1>4. /\ DOMAIN mem = {} /\ stack \in Seq(Nat \cup {Invalid})
        /\ code \in [Words -> Kinds]
    BY DEF Init, Words
  <1>5. alloc_size \in 0..(SizeMod - 1) /\ 0 \in 0..(SizeMod - 1)
    <2>1. NumInstrs * InstrSize \in Nat /\ SizeMod \in Nat \ {0}
      BY <1>1, SizeFacts, ImlGenAssumption
    <2>2. (NumInstrs * InstrSize) % SizeMod \in 0..(SizeMod - 1)
      BY <2>1, DivModNat
    <2> QED
      BY <2>1, <2>2 DEF Init, FirstSize
  <1>6. 0 \in Kinds
    BY ImlGenAssumption DEF Kinds, Endless
  <1>7. null \in BOOLEAN /\ bits \in BOOLEAN /\ oom \in BOOLEAN
    <2>1. null \in {FALSE, alloc_size > 0} /\ bits \in BOOLEAN
      BY DEF Init
    <2>2. null \in BOOLEAN
      <3>1. (alloc_size > 0) \in BOOLEAN
        OBVIOUS
      <3> QED
        BY <2>1, <3>1, Zenon
    <2>3. oom = (null \/ (~bits /\ NumInstrs > 0))
      BY DEF Init
    <2>4. oom \in BOOLEAN
      BY <2>3, Zenon
    <2> QED
      BY <2>1, <2>2, <2>4
  <1> QED
    BY <1>1, <1>2, <1>3, <1>4, <1>5, <1>6, <1>7 DEF Init, TypeOK

(* What the actions share: nobody changes the program. *)
LEMMA InputFixed ==
  ASSUME UNCHANGED input
  PROVE  /\ Words' = Words /\ Exprs' = Exprs /\ Instrs' = Instrs
         /\ size' = size /\ code' = code /\ null' = null /\ bits' = bits
         /\ NumInstrs' = NumInstrs
  BY DEF Words, Exprs, Instrs, input, NumInstrs

LEMMA TypeStep == TypeOK /\ CallInv /\ [Next]_vars => TypeOK'
  <1> SUFFICES ASSUME TypeOK, CallInv, [Next]_vars
               PROVE  TypeOK'
    OBVIOUS
  <1>w. word \in Words /\ size \in Sizes /\ code \in [Words -> Kinds]
    BY DEF TypeOK
  <1>k. Kinds = Endless..MaxNesting /\ Endless = -2 /\ Plain = 0 /\ MaxNesting \in Nat
    BY ImlGenAssumption DEF Kinds, Endless, Plain
  <1>1. CASE DecodeWord
    <2>1. Blank(word) \in Exprs /\ Leaf(word) \in Exprs
      BY <1>w, LeafType, NodeType DEF Blank, AnyHandle
    <2>2. code[word] \in Kinds
      BY <1>w
    <2>3. overread' \in BOOLEAN
      BY <1>1 DEF DecodeWord, TypeOK
    <2> QED
      BY <1>1, <2>1, <2>2, <2>3, InputFixed DEF DecodeWord, TypeOK, pool
  <1>2. CASE PushLeft
    <2>1. PICK h : Push(IF todo = 1 THEN Leaf(word) ELSE cur, ExprSize, h) /\ left' = h
      BY <1>2 DEF PushLeft
    <2>2. (IF todo = 1 THEN Leaf(word) ELSE cur) \in Exprs \cup Instrs
      BY <1>w, LeafType DEF TypeOK
    <2>3. UNCHANGED input
      BY <1>2 DEF PushLeft
    <2> QED
      BY <1>2, <2>1, <2>2, <2>3, PushTypes, InputFixed DEF PushLeft, TypeOK, AnyHandle
  <1>3. CASE PushRight
    <2>1. PICK h : Push(IF todo = 1 THEN cur ELSE Leaf(word), ExprSize, h)
                   /\ cur' = Node(word, left, h)
      BY <1>3 DEF PushRight
    <2>2. (IF todo = 1 THEN cur ELSE Leaf(word)) \in Exprs \cup Instrs
      BY <1>w, LeafType DEF TypeOK
    <2>3. UNCHANGED input
      BY <1>3 DEF PushRight
    <2>4. h \in AnyHandle /\ left \in AnyHandle
      BY <2>1, <2>2, <2>3, PushTypes DEF TypeOK, AnyHandle
    <2>5. cur' \in Exprs
      BY <1>w, <2>1, <2>4, NodeType
    <2>6. todo' \in Kinds
      BY <1>3, <1>k, <1>w DEF PushRight, CallInv
    <2> QED
      BY <1>3, <2>1, <2>2, <2>3, <2>5, <2>6, PushTypes, InputFixed DEF PushRight, TypeOK
  <1>4. CASE PushInstr
    <2>1. PICK h : /\ Push(Instr(word, cur, 0), InstrSize, h)
                   /\ IF MoreCode THEN /\ stack' = Append(stack, h)
                                       /\ word' = word + 1
                                       /\ pc' = "decode"
                                       /\ UNCHANGED ret
                      ELSE ret' = h /\ pc' = "end" /\ UNCHANGED <<stack, word>>
      BY <1>4 DEF PushInstr
    <2>2. Instr(word, cur, 0) \in Exprs \cup Instrs
      BY <1>w, InstrType DEF TypeOK, AnyHandle
    <2>3. UNCHANGED input
      BY <1>4 DEF PushInstr
    <2>4. h \in AnyHandle
      BY <2>1, <2>2, <2>3, PushTypes
    <2>5. word' \in Words
      BY <1>w, <2>1, WordFacts DEF MoreCode
    <2>6. stack' \in Seq(Nat \cup {Invalid}) /\ ret' \in Nat \cup {Invalid}
      <3>1. h \in Nat \cup {Invalid}
        BY <2>4 DEF AnyHandle
      <3>2. stack \in Seq(Nat \cup {Invalid}) /\ ret \in Nat \cup {Invalid}
        BY DEF TypeOK
      <3> DEFINE H == Nat \cup {Invalid}
      <3>3. h \in H /\ stack \in Seq(H) /\ ret \in H
        BY <3>1, <3>2
      <3> HIDE DEF H
      <3>4. Append(stack, h) \in Seq(H)
        BY <3>3
      <3>5. stack' \in Seq(H) /\ ret' \in H
        BY <2>1, <3>3, <3>4
      <3> QED
        BY <3>5 DEF H
    <2> QED
      BY <1>4, <2>1, <2>2, <2>3, <2>5, <2>6, PushTypes, InputFixed DEF PushInstr, TypeOK
  <1>5. CASE Fault
    BY <1>5, InputFixed DEF Fault, TypeOK, pool, call
  <1>6. CASE EndOfBuffer
    <2>1. overread' \in BOOLEAN \/ Fault
      BY <1>6 DEF EndOfBuffer, TypeOK
    <2> QED
      BY <1>5, <1>6, <2>1, InputFixed DEF EndOfBuffer, TypeOK, pool
  <1>7. CASE LinkNext
    <2> DEFINE h == stack[Len(stack)]
    <2>1. CASE h = Invalid \/ ~bits
      BY <1>5, <1>7, <2>1 DEF LinkNext
    <2>2. CASE ~(h = Invalid \/ ~bits)
      <3>1. /\ stack # << >>
            /\ decoded' = decoded \cup {Len(stack) - 1}
            /\ mem' = [mem EXCEPT ![h].next = ret]
            /\ overread' = (overread \/ PastBits(Len(stack) - 1))
            /\ ret' = h
            /\ stack' = SubSeq(stack, 1, Len(stack) - 1)
            /\ word' = Len(stack) - 1
            /\ UNCHANGED <<input, pos, alloc_size, pc, todo, cur, left, status, oom>>
        BY <1>7, <2>2 DEF LinkNext
      <3>2. Linked(h)
        BY <2>2, <3>1, LinkFacts
      <3>3. Len(stack) - 1 \in Words
        <4>1. Len(stack) \in Nat \ {0}
          BY <3>1 DEF TypeOK
        <4> QED
          BY <4>1, <1>w, SizeFacts DEF CallInv, Words
      <3>4. h \in Nat \cup {Invalid} /\ stack' \in Seq(Nat \cup {Invalid})
        BY <3>1 DEF TypeOK
      <3>5. \A k \in DOMAIN mem' : mem'[k] \in Exprs \cup Instrs
        <4>1. mem'[h] \in Instrs
          <5>1. ret \in AnyHandle
            BY DEF TypeOK, AnyHandle
          <5>2. mem[h].word \in Words /\ mem[h].expr \in Exprs
            BY <3>2, <5>1, InstrFacts DEF Linked
          <5> QED
            BY <3>2, <5>1, <5>2, InstrType DEF Linked
        <4> QED
          BY <3>2, <4>1 DEF Linked, TypeOK
      <3>6. overread' \in BOOLEAN
        BY <3>1 DEF TypeOK
      <3> QED
        BY <3>1, <3>2, <3>3, <3>4, <3>5, <3>6, InputFixed DEF TypeOK, Linked
    <2> QED
      BY <2>1, <2>2
  <1>8. CASE Finish
    BY <1>8, InputFixed DEF Finish, TypeOK, pool, call
  <1>9. CASE UNCHANGED vars
    BY <1>9, InputFixed DEF vars, TypeOK, pool, call
  <1>10. CASE PushAborts
    BY <1>10, InputFixed DEF PushAborts, TypeOK, pool, call
  <1> QED
    BY <1>1, <1>2, <1>3, <1>4, <1>5, <1>6, <1>7, <1>8, <1>9, <1>10 DEF Next, PushStrays

-----------------------------------------------------------------------------
(* Which words have instructions. *)

LEMMA PushedInstrs ==
  ASSUME TypeOK, NEW o, NEW n, NEW h, Pushed(o, n, h)
  PROVE  \A w : InstrOf(w)' = IF o.kind = "instr" /\ o.word = w
                              THEN InstrOf(w) \cup {h} ELSE InstrOf(w)
  <1> TAKE w
  <1>1. \A k : k \in InstrOf(w)' <=>
                  \/ k \in DOMAIN mem /\ mem[k].kind = "instr" /\ mem[k].word = w
                  \/ k = h /\ o.kind = "instr" /\ o.word = w
    BY DEF Pushed, InstrOf
  <1> QED
    BY <1>1 DEF InstrOf

LEMMA LinkedInstrs ==
  ASSUME NEW h, Linked(h)
  PROVE  \A w : InstrOf(w)' = InstrOf(w)
  BY DEF Linked, InstrOf, Instr

LEMMA SameInstrs ==
  ASSUME UNCHANGED mem
  PROVE  \A w : InstrOf(w)' = InstrOf(w)
  BY DEF InstrOf

(* Pushing an expression gives no word an instruction. *)
LEMMA ExprPushInstrs ==
  ASSUME TypeOK, NEW o \in Exprs, NEW h, Push(o, ExprSize, h)
  PROVE  \A w : InstrOf(w)' = InstrOf(w)
  <1>1. o.kind # "instr"
    BY ExprFacts
  <1> QED
    BY <1>1, PushFacts, PushedInstrs, SameInstrs DEF Missed

(* A push of something made from an accepted word. *)
LEMMA PushCode ==
  ASSUME TypeOK, CallInv, UNCHANGED input,
         NEW o, NEW n \in {ExprSize, InstrSize}, NEW h, Push(o, n, h),
         code[o.word] \in Plain..MaxNesting
  PROVE  \A k \in DOMAIN mem' : code'[mem'[k].word] \in Plain..MaxNesting
  <1>1. CASE Pushed(o, n, h)
    BY <1>1, InputFixed DEF Pushed, CallInv
  <1>2. CASE Missed(h)
    BY <1>2, InputFixed DEF Missed, CallInv
  <1> QED
    BY <1>1, <1>2, PushFacts

LEMMA CallInit == Init => CallInv
  <1> SUFFICES ASSUME Init PROVE CallInv
    OBVIOUS
  <1>1. Len(stack) = 0 /\ DOMAIN mem = {} /\ word = 0 /\ pc = "decode"
    BY DEF Init
  <1> QED
    BY <1>1 DEF CallInv

LEMMA CallStep == TypeOK /\ CallInv /\ [Next]_vars => CallInv'
  <1> SUFFICES ASSUME TypeOK, CallInv, [Next]_vars
               PROVE  CallInv'
    OBVIOUS
  <1>w. /\ word \in Words /\ word \in Int /\ size \in Sizes /\ code \in [Words -> Kinds]
        /\ stack \in Seq(AnyHandle) /\ todo \in Int
    BY ImlGenAssumption DEF TypeOK, AnyHandle, Words, Kinds, Endless
  <1>k. /\ Kinds = Endless..MaxNesting /\ Endless = -2 /\ Rejected = -1 /\ Plain = 0
        /\ MaxNesting \in Nat
    BY ImlGenAssumption DEF Kinds, Endless, Plain, Rejected
  <1>l. Leaf(word).word = word /\ Blank(word).word = word
        /\ \A l, r : Node(word, l, r).word = word
    BY DEF Leaf, Blank, Node
  <1>1. CASE DecodeWord
    <2>1. UNCHANGED input /\ UNCHANGED mem /\ UNCHANGED <<stack, word, ret>>
      BY <1>1 DEF DecodeWord, pool
    <2>2. CASE code[word] \in {Rejected, Endless}
      BY <1>1, <2>1, <2>2, InputFixed, SameInstrs DEF DecodeWord, CallInv
    <2>3. CASE code[word] \notin {Rejected, Endless}
      <3>1. code[word] \in Plain..MaxNesting
        BY <1>w, <1>k, <2>3
      <3>2. code[word] # Plain => code[word] \in 1..code[word]
        BY <3>1, <1>k
      <3>3. /\ pc' = IF code[word] = Plain THEN "push" ELSE "left"
            /\ todo' = code[word]
            /\ cur' = IF code[word] = Plain THEN Blank(word) ELSE Leaf(word)
        BY <1>1, <2>3 DEF DecodeWord
      <3> QED
        BY <1>k, <1>l, <2>1, <3>1, <3>2, <3>3, InputFixed, SameInstrs DEF CallInv
    <2> QED
      BY <2>2, <2>3
  <1>2. CASE PushLeft
    <2> DEFINE o == IF todo = 1 THEN Leaf(word) ELSE cur
    <2>1. PICK h : Push(o, ExprSize, h)
      BY <1>2 DEF PushLeft
    <2>2. /\ pc = "left" /\ pc' = "right"
          /\ UNCHANGED <<input, stack, word, todo, cur, ret>>
      BY <1>2 DEF PushLeft
    <2>3. o \in Exprs
      BY <1>w, LeafType DEF TypeOK
    <2>4. \A w : InstrOf(w)' = InstrOf(w)
      BY <2>1, <2>3, ExprPushInstrs
    <2>5. o.word = word /\ code[word] \in Plain..MaxNesting
      BY <1>l, <2>2 DEF CallInv
    <2>6. \A k \in DOMAIN mem' : code'[mem'[k].word] \in Plain..MaxNesting
      BY <2>1, <2>2, <2>5, PushCode
    <2> QED
      BY <2>2, <2>4, <2>6, InputFixed DEF CallInv
  <1>3. CASE PushRight
    <2> DEFINE o == IF todo = 1 THEN cur ELSE Leaf(word)
    <2>1. PICK h : Push(o, ExprSize, h) /\ cur' = Node(word, left, h)
      BY <1>3 DEF PushRight
    <2>2. /\ pc = "right" /\ pc' = IF todo = 1 THEN "push" ELSE "left"
          /\ todo' = todo - 1
          /\ UNCHANGED <<input, stack, word, ret>>
      BY <1>3 DEF PushRight
    <2>3. o \in Exprs
      BY <1>w, LeafType DEF TypeOK
    <2>4. \A w : InstrOf(w)' = InstrOf(w)
      BY <2>1, <2>3, ExprPushInstrs
    <2>5. o.word = word /\ code[word] \in Plain..MaxNesting /\ todo \in 1..code[word]
      BY <1>l, <2>2 DEF CallInv
    <2>6. \A k \in DOMAIN mem' : code'[mem'[k].word] \in Plain..MaxNesting
      BY <2>1, <2>2, <2>5, PushCode
    <2>7. todo' = 0 \/ (todo # 1 /\ todo' \in 1..code[word])
      BY <1>k, <2>2, <2>5
    <2> QED
      BY <1>l, <2>1, <2>2, <2>4, <2>5, <2>6, <2>7, InputFixed DEF CallInv
  <1>4. CASE PushInstr
    <2> DEFINE o == Instr(word, cur, 0)
    <2>1. PICK h : /\ Push(o, InstrSize, h)
                   /\ IF MoreCode THEN /\ stack' = Append(stack, h)
                                       /\ word' = word + 1
                                       /\ pc' = "decode"
                                       /\ UNCHANGED ret
                      ELSE ret' = h /\ pc' = "end" /\ UNCHANGED <<stack, word>>
      BY <1>4 DEF PushInstr
    <2>2. UNCHANGED input /\ pc = "push"
      BY <1>4 DEF PushInstr
    <2>3. /\ o.kind = "instr" /\ o.word = word /\ code[word] \in Plain..MaxNesting
          /\ o \in Exprs \cup Instrs
      BY <1>w, <2>2, InstrType DEF CallInv, Instr, TypeOK, AnyHandle
    <2>4. \A k \in DOMAIN mem' : code'[mem'[k].word] \in Plain..MaxNesting
      BY <2>1, <2>2, <2>3, PushCode
    <2>5. h \in AnyHandle
      BY <2>1, <2>2, <2>3, PushTypes
    <2>5a. Pushed(o, InstrSize, h) \/ Missed(h)
      BY <2>1, PushFacts
    <2>6. \A w : InstrOf(w) \subseteq InstrOf(w)'
      BY <2>5a, PushedInstrs, SameInstrs DEF Missed
    <2>7. \A w : w = word /\ h # Invalid => h \in InstrOf(w)'
      BY <2>3, <2>5a, PushedInstrs DEF Missed
    <2>8. CASE MoreCode
      <3>1. /\ Len(stack') = Len(stack) + 1
            /\ \A k \in 1..Len(stack) : stack'[k] = stack[k]
            /\ stack'[Len(stack) + 1] = h
        BY <1>w, <2>1, <2>5, <2>8
      <3>2. \A k \in 1..Len(stack') : stack'[k] # Invalid => stack'[k] \in InstrOf(k - 1)'
        <4> TAKE k \in 1..Len(stack')
        <4>1. CASE k \in 1..Len(stack)
          BY <2>6, <3>1, <4>1 DEF CallInv
        <4>2. CASE k = Len(stack) + 1
          <5>1. k - 1 = word
            BY <1>w, <4>2 DEF CallInv
          <5> QED
            BY <2>7, <3>1, <4>2, <5>1
        <4> QED
          BY <1>w, <3>1, <4>1, <4>2
      <3> QED
        BY <1>w, <2>1, <2>4, <2>8, <3>1, <3>2 DEF CallInv
    <2>9. CASE ~MoreCode
      <3>1. word = NumWords(size) - 1
        BY <1>w, <2>9, WordFacts DEF MoreCode
      <3>2. NumWords(size)' = NumWords(size)
        BY <2>2 DEF input, NumWords
      <3> QED
        BY <2>1, <2>4, <2>6, <2>7, <2>9, <3>1, <3>2 DEF CallInv
    <2> QED
      BY <2>8, <2>9
  <1>5. CASE Fault
    BY <1>5, InputFixed, SameInstrs DEF Fault, CallInv, pool, call
  <1>6. CASE EndOfBuffer
    BY <1>5, <1>6, InputFixed, SameInstrs DEF EndOfBuffer, CallInv, pool
  <1>7. CASE LinkNext
    <2> DEFINE h == stack[Len(stack)]
    <2>1. CASE h = Invalid \/ ~bits
      BY <1>5, <1>7, <2>1 DEF LinkNext
    <2>2. CASE ~(h = Invalid \/ ~bits)
      <3>1. /\ stack # << >> /\ pc = "return"
            /\ mem' = [mem EXCEPT ![h].next = ret]
            /\ ret' = h
            /\ stack' = SubSeq(stack, 1, Len(stack) - 1)
            /\ word' = Len(stack) - 1
            /\ UNCHANGED <<input, pc, todo, cur>>
        BY <1>7, <2>2 DEF LinkNext
      <3>2. Linked(h)
        BY <2>2, <3>1, LinkFacts
      <3>3. \A w : InstrOf(w)' = InstrOf(w)
        BY <3>2, LinkedInstrs
      <3>4. /\ Len(stack) \in Nat \ {0} /\ Len(stack') = Len(stack) - 1
            /\ \A k \in 1..Len(stack') : stack'[k] = stack[k] /\ k \in 1..Len(stack)
        BY <1>w, <3>1, AllButLast
      <3>5. \A k \in DOMAIN mem' : k \in DOMAIN mem /\ mem'[k].word = mem[k].word
        BY <3>2 DEF Linked, Instr
      <3> QED
        BY <2>2, <3>1, <3>2, <3>3, <3>4, <3>5, InputFixed DEF CallInv, Linked
    <2> QED
      BY <2>1, <2>2
  <1>8. CASE Finish
    BY <1>8, InputFixed, SameInstrs DEF Finish, CallInv, pool, call
  <1>9. CASE UNCHANGED vars
    BY <1>9, InputFixed, SameInstrs DEF vars, CallInv, pool, call
  <1>10. CASE PushAborts
    BY <1>10, InputFixed, SameInstrs DEF PushAborts, CallInv, pool, call
  <1> QED
    BY <1>1, <1>2, <1>3, <1>4, <1>5, <1>6, <1>7, <1>8, <1>9, <1>10 DEF Next, PushStrays

-----------------------------------------------------------------------------
(* Faults. *)

LEMMA FaultInit == Init => FaultInv
  <1> SUFFICES ASSUME Init PROVE FaultInv
    OBVIOUS
  <1>1. /\ Len(stack) = 0 /\ pc = "decode" /\ status = "running" /\ overread = FALSE
        /\ oom = (null \/ (~bits /\ NumInstrs > 0))
        /\ NumInstrs \in Nat
    BY SizeFacts DEF Init
  <1>2. NumInstrs # 0 => NumInstrs > 0
    BY <1>1
  <1>3. (null => oom) /\ (~bits => oom \/ NumInstrs = 0)
    BY <1>1, <1>2, Zenon
  <1>4. pos <= alloc_size
    <2>1. pos = 0 /\ alloc_size \in 0..(SizeMod - 1)
      BY TypeInit DEF Init, TypeOK
    <2> QED
      BY <2>1
  <1> QED
    BY <1>1, <1>3, <1>4 DEF FaultInv, FaultsExplained

(* A push that leaves oom as it is has given a handle. *)
LEMMA PushOom ==
  ASSUME TypeOK, pos <= alloc_size,
         NEW o, NEW n \in {ExprSize, InstrSize}, NEW h, Push(o, n, h)
  PROVE  (oom => oom') /\ (~oom' => h # Invalid) /\ pos' <= alloc_size'
  <1>1. pos # Invalid
    BY DEF TypeOK, Invalid
  <1> QED
    BY <1>1, PushFacts DEF Pushed, Missed

(* Before the pool outgrows a u32, the buffer a push copies into has room for   *)
(* the object, and any growth is one.                                         *)
LEMMA NeededType ==
  ASSUME TypeOK
  PROVE  /\ Needed \in {ExprSize, InstrSize}
         /\ Needed \in 1..(SizeMod - 1)
         /\ pos + Needed \in Nat
  BY ImlGenAssumption DEF TypeOK, Needed

LEMMA RoomEnough ==
  ASSUME TypeOK, pos <= alloc_size, Pushing, ~Outgrown
  PROVE  /\ CanHold(Needed) => pos + Needed <= alloc_size
         /\ \A g \in GrownSizes(Needed) :
               ~CanHold(Needed) => g > alloc_size /\ pos + Needed <= g /\ g \in Int
  <1> DEFINE n == Needed
             need == alloc_size + n
  <1>1. /\ SizeMod \in Nat \ {0} /\ n \in Nat \ {0}
        /\ pos \in Nat /\ alloc_size \in 0..(SizeMod - 1)
    BY ImlGenAssumption, NeededType DEF TypeOK
  <1>2. ~Outgrown => alloc_size > pos + n \/ need + need \div 2 < SizeMod
    <2>1. need \div 2 \in Nat
      BY <1>1, DivModNat
    <2> QED
      BY <1>1, <2>1 DEF Outgrown
  <1>3. GrownSizes(n) = IF (need % SizeMod) + (need % SizeMod) \div 2 < SizeMod
                        THEN {(need % SizeMod) + (need % SizeMod) \div 2}
                        ELSE 0..(SizeMod - 1)
    BY DEF GrownSizes
  <1>4. CanHold(n) <=> alloc_size > (pos + n) % SizeMod
    BY DEF CanHold
  <1> HIDE DEF n
  <1>5. CASE alloc_size > pos + n
    <2>1. (pos + n) % SizeMod = pos + n
      BY <1>1, <1>5, SmallMod
    <2> QED
      BY <1>1, <1>4, <1>5, <2>1 DEF n
  <1>6. CASE need + need \div 2 < SizeMod
    <2>1. need \div 2 \in Nat /\ need \in Nat /\ pos + n \in Nat
      BY <1>1, DivModNat
    <2>2. need \in 0..(SizeMod - 1) /\ pos + n \in 0..(SizeMod - 1)
      BY <1>1, <1>6, <2>1
    <2>3. need % SizeMod = need /\ (pos + n) % SizeMod = pos + n
      BY <1>1, <2>2, SmallMod
    <2>4. GrownSizes(n) = {need + need \div 2}
      BY <1>3, <1>6, <2>3
    <2>5. need + need \div 2 > alloc_size /\ pos + n <= need + need \div 2
      BY <1>1, <2>1
    <2> QED
      BY <1>1, <1>4, <2>1, <2>3, <2>4, <2>5 DEF n
  <1> QED
    BY <1>2, <1>5, <1>6

(* The actions that touch neither the stack nor what could have gone wrong. *)
LEMMA FaultQuiet ==
  ASSUME FaultInv, UNCHANGED <<input, stack, status, overread>>, oom => oom',
         pos' <= alloc_size', status = "running",
         pc' \in {"end", "return"} => pc \in {"end", "return"} /\ ret' = ret
  PROVE  FaultInv'
  BY InputFixed DEF FaultInv, FaultsExplained, input

LEMMA FaultStep == TypeOK /\ CallInv /\ FaultInv /\ [Next]_vars => FaultInv'
  <1> SUFFICES ASSUME TypeOK, CallInv, FaultInv, [Next]_vars
               PROVE  FaultInv'
    OBVIOUS
  <1>w. word \in Words /\ size \in Sizes /\ stack \in Seq(AnyHandle)
    BY DEF TypeOK, AnyHandle
  <1>1. CASE DecodeWord
    <2>1. overread' => overread \/ size % 4 # 0
      <3>1. overread' = (overread \/ 4 * word + 4 > size)
        BY <1>1 DEF DecodeWord
      <3>2. size % 4 = 0 => ~(4 * word + 4 > size)
        BY <1>w, SizeFacts, WordFacts DEF Words
      <3> QED
        BY <3>1, <3>2
    <2>2. /\ UNCHANGED <<input, stack, oom, pos, alloc_size, word>>
          /\ pc' \notin {"end", "return"}
          /\ status' # "fault"
      BY <1>1 DEF DecodeWord, pool
    <2>3. status' \in {"abort", "hung"} => pc' = "decode" /\ code[word] \in {Rejected, Endless}
      BY <1>1 DEF DecodeWord
    <2> QED
      BY <2>1, <2>2, <2>3, InputFixed DEF FaultInv, FaultsExplained, input
  <1>2. CASE PushLeft
    <2>1. (oom => oom') /\ pos' <= alloc_size'
      BY <1>2, PushOom DEF PushLeft, FaultInv
    <2> QED
      BY <1>2, <2>1, FaultQuiet DEF PushLeft
  <1>3. CASE PushRight
    <2>1. (oom => oom') /\ pos' <= alloc_size'
      BY <1>3, PushOom DEF PushRight, FaultInv
    <2> QED
      BY <1>3, <2>1, FaultQuiet DEF PushRight
  <1>4. CASE PushInstr
    <2>1. PICK h : /\ Push(Instr(word, cur, 0), InstrSize, h)
                   /\ IF MoreCode THEN /\ stack' = Append(stack, h)
                                       /\ word' = word + 1
                                       /\ pc' = "decode"
                                       /\ UNCHANGED ret
                      ELSE ret' = h /\ pc' = "end" /\ UNCHANGED <<stack, word>>
      BY <1>4 DEF PushInstr
    <2>2. UNCHANGED <<input, status, overread>> /\ status = "running"
      BY <1>4 DEF PushInstr
    <2>3. (oom => oom') /\ (~oom' => h # Invalid) /\ pos' <= alloc_size'
      BY <2>1, PushOom DEF FaultInv
    <2>4. CASE MoreCode
      <3>1. h \in AnyHandle
        BY <1>w, <2>1, <2>2, InstrType, PushTypes DEF TypeOK, AnyHandle
      <3>2. \A k \in 1..Len(stack') : \/ k \in 1..Len(stack) /\ stack'[k] = stack[k]
                                      \/ stack'[k] = h
        BY <1>w, <2>1, <2>4, <3>1
      <3> QED
        BY <2>1, <2>2, <2>3, <2>4, <3>2, InputFixed DEF FaultInv, FaultsExplained, input
    <2>5. CASE ~MoreCode
      BY <2>1, <2>2, <2>3, <2>5, InputFixed DEF FaultInv, FaultsExplained, input
    <2> QED
      BY <2>4, <2>5
  <1>5. ASSUME Fault, status = "running", oom \/ size % 4 # 0 \/ Outgrown
        PROVE  FaultInv'
    BY <1>5, InputFixed DEF Fault, FaultInv, FaultsExplained, Outgrown, Pushing, Needed,
                            input, call, pool
  <1>6. ~bits => oom \/ size % 4 # 0
    BY <1>w, SizeFacts DEF FaultInv
  <1>7. CASE PushStrays
    <2>1. oom \/ Outgrown
      <3>1. PICK newsize \in Room(Needed) : null \/ pos + Needed > newsize
        BY <1>7 DEF PushStrays
      <3>2. Outgrown \/ pos + Needed <= newsize
        BY <1>7, <3>1, RoomEnough DEF PushStrays, Room, FaultInv
      <3>3. pos + Needed \in Int /\ newsize \in Int
        BY <3>1, RoomType, NeededType
      <3> QED
        BY <3>1, <3>2, <3>3 DEF FaultInv
    <2> QED
      BY <1>5, <1>7, <2>1 DEF PushStrays
  <1>12. CASE PushAborts
    <2>1. Outgrown
      <3>1. PICK g \in GrownSizes(Needed) : g <= alloc_size
        BY <1>12 DEF PushAborts
      <3>2. Outgrown \/ (g > alloc_size /\ g \in Int)
        BY <1>12, <3>1, RoomEnough DEF PushAborts, FaultInv
      <3>3. alloc_size \in Int
        BY DEF TypeOK
      <3> QED
        BY <3>1, <3>2, <3>3
    <2> QED
      BY <1>12, <2>1, InputFixed DEF PushAborts, FaultInv, FaultsExplained, Outgrown, Pushing,
                                     Needed, input, call, pool
  <1>8. CASE EndOfBuffer
    <2>1. CASE ret = Invalid \/ ~bits
      <3>1. oom \/ size % 4 # 0
        BY <1>6, <1>8, <2>1 DEF EndOfBuffer, FaultInv
      <3> QED
        BY <1>5, <1>8, <2>1, <3>1 DEF EndOfBuffer
    <2>2. CASE ~(ret = Invalid \/ ~bits)
      <3>1. overread' => overread \/ size % 4 # 0
        BY <1>w, <1>8, <2>2, WordFacts DEF EndOfBuffer
      <3>2. UNCHANGED <<input, stack, ret, status, oom, pos, alloc_size>> /\ status = "running"
        BY <1>8, <2>2 DEF EndOfBuffer, pool
      <3> QED
        BY <1>8, <3>1, <3>2, InputFixed DEF EndOfBuffer, FaultInv, FaultsExplained, input
    <2> QED
      BY <2>1, <2>2
  <1>9. CASE LinkNext
    <2> DEFINE h == stack[Len(stack)]
    <2>0. /\ stack # << >> /\ Len(stack) \in 1..Len(stack) /\ Len(stack) - 1 \in Words
      <3>1. stack # << >>
        BY <1>9 DEF LinkNext
      <3>2. Len(stack) \in Nat \ {0}
        BY <1>w, <3>1
      <3> QED
        BY <1>w, <3>1, <3>2, SizeFacts DEF CallInv, Words
    <2>1. CASE h = Invalid \/ ~bits
      <3>1. oom \/ size % 4 # 0
        BY <1>6, <2>0, <2>1 DEF FaultInv
      <3> QED
        BY <1>5, <1>9, <2>1, <3>1 DEF LinkNext
    <2>2. CASE ~(h = Invalid \/ ~bits)
      <3>1. /\ overread' = (overread \/ PastBits(Len(stack) - 1))
            /\ ret' = h
            /\ stack' = SubSeq(stack, 1, Len(stack) - 1)
            /\ UNCHANGED <<input, pc, status, oom, pos, alloc_size>> /\ status = "running"
        BY <1>9, <2>2 DEF LinkNext
      <3>2. \A k \in 1..Len(stack') : stack'[k] = stack[k] /\ k \in 1..Len(stack)
        BY <1>w, <2>0, <3>1, AllButLast
      <3>3. overread' => overread \/ size % 4 # 0
        BY <1>w, <2>0, <3>1, WordFacts
      <3> QED
        BY <2>2, <3>1, <3>2, <3>3, InputFixed DEF FaultInv, FaultsExplained, input
    <2> QED
      BY <2>1, <2>2
  <1>10. CASE Finish
    BY <1>10, InputFixed DEF Finish, FaultInv, FaultsExplained, call, pool, input
  <1>11. CASE UNCHANGED vars
    BY <1>11, InputFixed DEF vars, FaultInv, FaultsExplained, Outgrown, Pushing, Needed,
                             call, pool, input
  <1> QED
    BY <1>1, <1>2, <1>3, <1>4, <1>7, <1>8, <1>9, <1>10, <1>11, <1>12 DEF Next

LEMMA Always == Spec => [](TypeOK /\ CallInv /\ FaultInv)
  BY TypeInit, TypeStep, CallInit, CallStep, FaultInit, FaultStep, PTL DEF Spec

(* The types of imlgen's state (iml.cxx, iml.hxx). *)
THEOREM TypeCorrect == Spec => []TypeOK
  BY Always, PTL

(* imlgen faults only after an allocation has failed, for a size that is no     *)
(* multiple of 4, or when the pool outgrows pool_size_t; it stops only there   *)
(* or at a word decode stops at; and it reads past the ARM buffer or the bit   *)
(* set only for a size that is no multiple of 4 (iml.cxx:12-44, pool.c:34-62). *)
THEOREM OnlyExplainedFaults == Spec => []FaultsExplained
  <1>1. FaultInv => FaultsExplained
    BY DEF FaultInv
  <1> QED
    BY <1>1, Always, PTL

-----------------------------------------------------------------------------
(* Trees. *)

(* What the expression e of word w refers to. *)
Kids(e, w) == IF e.kind = "node" /\ code[w] # Plain THEN {e.left, e.right} ELSE {}

(* S may be the children of an expression of word w: none or two, all of them   *)
(* expressions of the same word.                                              *)
Siblings(S, w) ==
    /\ S = {} \/ \E a, b \in S : a # b /\ S = {a, b}
    /\ \A c \in S : c \in ExprHandles /\ mem[c].word = w

(* Nothing in the pool refers to any of S. *)
Free(S) == \A k \in DOMAIN mem : Children(k) \cap S = {}

Forest ==
    \A h \in DOMAIN mem :
        /\ Siblings(Children(h), mem[h].word)
        /\ \A c \in Children(h) : c < h
        /\ \A k \in DOMAIN mem \ {h} : Children(h) \cap Children(k) = {}

(* cur is an expression that has not been pushed. *)
Growing == pc \in {"left", "push"} \/ (pc = "right" /\ todo = 1)

(* The children of the expression under construction have no parent yet, unless  *)
(* that expression was just pushed; nor has the left operand just pushed.      *)
TreeInv ==
    ~oom => /\ Forest
            /\ Growing => Siblings(Kids(cur, word), word) /\ Free(Kids(cur, word))
            /\ pc = "right" =>
                  /\ left \in ExprHandles /\ mem[left].word = word
                  /\ Free({left})
                  /\ todo = 1 => left \notin Kids(cur, word)

(* An object of a kind the constructors push, and what it refers to. *)
KidsOf(o) == Kids(IF o.kind = "instr" THEN o.expr ELSE o, o.word)

LEMMA KidsPushed ==
  ASSUME TypeOK, UNCHANGED input, NEW o, NEW n, NEW h, Pushed(o, n, h)
  PROVE  /\ \A k \in DOMAIN mem : Children(k)' = Children(k)
         /\ Children(h)' = KidsOf(o)
  <1>1. \A k \in DOMAIN mem : mem'[k] = mem[k]
    BY DEF Pushed
  <1>2. mem'[h] = o
    BY DEF Pushed
  <1> QED
    BY <1>1, <1>2, InputFixed DEF Children, ExprAt, KidsOf, Kids

(* A push of an expression or instruction whose operands nothing refers to yet. *)
LEMMA TreePush ==
  ASSUME TypeOK, UNCHANGED input, Forest,
         NEW o, NEW n, NEW h, Pushed(o, n, h),
         Siblings(KidsOf(o), o.word), Free(KidsOf(o))
  PROVE  /\ Forest'
         /\ Free({h})'
         /\ \A T, w : Siblings(T, w) => h \notin T /\ Siblings(T, w)'
         /\ \A T : T \cap KidsOf(o) = {} /\ h \notin T /\ Free(T) => Free(T)'
  <1> DEFINE S == KidsOf(o)
  <1>1. /\ \A k \in DOMAIN mem : Children(k)' = Children(k)
        /\ Children(h)' = S
    BY KidsPushed
  <1>2. /\ DOMAIN mem' = DOMAIN mem \cup {h}
        /\ \A k \in DOMAIN mem : mem'[k] = mem[k] /\ k \in Nat /\ k < h
        /\ h \notin DOMAIN mem
        /\ mem'[h] = o
    BY DEF Pushed
  <1>3. ASSUME NEW T, NEW w, Siblings(T, w)
        PROVE  T \subseteq DOMAIN mem /\ h \notin T /\ Siblings(T, w)'
    <2>1. T \subseteq DOMAIN mem
      BY <1>3 DEF Siblings, ExprHandles
    <2>2. \A c \in T : c \in ExprHandles' /\ mem'[c].word = w
      BY <1>2, <1>3, <2>1 DEF Siblings, ExprHandles
    <2> QED
      BY <1>2, <1>3, <2>1, <2>2 DEF Siblings
  <1>4. S \subseteq DOMAIN mem
    BY <1>3
  <1>5. \A k \in DOMAIN mem : Children(k) \subseteq DOMAIN mem
    BY <1>3 DEF Forest
  <1>6. Forest'
    <2>1. ASSUME NEW x \in DOMAIN mem
          PROVE  /\ Siblings(Children(x), mem[x].word)'
                 /\ \A c \in Children(x)' : c < x
                 /\ \A k \in DOMAIN mem' \ {x} : Children(x)' \cap Children(k)' = {}
      <3>1. Siblings(Children(x), mem[x].word) /\ \A c \in Children(x) : c < x
        BY DEF Forest
      <3>2. \A T, w : T = Children(x) /\ w = mem[x].word => Siblings(T, w)'
        BY <1>3, <3>1
      <3>3. \A k \in DOMAIN mem \ {x} : Children(x) \cap Children(k) = {}
        BY DEF Forest
      <3>4. Children(x) \cap S = {}
        BY DEF Free
      <3>5. Siblings(Children(x), mem[x].word)'
        BY <1>1, <1>2, <3>2 DEF Siblings
      <3> QED
        BY <1>1, <1>2, <3>1, <3>3, <3>4, <3>5
    <2>2. /\ Siblings(Children(h), mem[h].word)'
          /\ \A c \in Children(h)' : c < h
          /\ \A k \in DOMAIN mem' \ {h} : Children(h)' \cap Children(k)' = {}
      <3>1. \A T, w : T = S /\ w = o.word => Siblings(T, w)'
        BY <1>3
      <3>2. \A k \in DOMAIN mem : S \cap Children(k) = {}
        BY DEF Free
      <3>3. Siblings(Children(h), mem[h].word)'
        BY <1>1, <1>2, <3>1 DEF Siblings
      <3> QED
        BY <1>1, <1>2, <1>4, <3>2, <3>3
    <2> QED
      BY <1>2, <2>1, <2>2 DEF Forest, Siblings
  <1>7. Free({h})'
    BY <1>1, <1>2, <1>4, <1>5 DEF Free
  <1>8. \A T : T \cap S = {} /\ h \notin T /\ Free(T) => Free(T)'
    BY <1>1, <1>2 DEF Free
  <1> QED
    BY <1>3, <1>6, <1>7, <1>8

LEMMA TreeInit == Init => TreeInv
  <1> SUFFICES ASSUME Init PROVE TreeInv
    OBVIOUS
  <1>1. DOMAIN mem = {} /\ pc = "decode"
    BY DEF Init
  <1> QED
    BY <1>1 DEF TreeInv, Forest, Growing

LEMMA TreeStep == TypeOK /\ CallInv /\ TreeInv /\ [Next]_vars => TreeInv'
  <1> SUFFICES ASSUME TypeOK, CallInv, TreeInv, [Next]_vars, ~oom'
               PROVE  TreeInv'
    BY DEF TreeInv
  <1>w. /\ word \in Words /\ cur \in Exprs /\ todo \in Int
        /\ pc \in {"decode", "left", "right", "push", "end", "return"}
    BY ImlGenAssumption DEF TypeOK, Kinds, Endless
  <1>s. ASSUME UNCHANGED <<input, mem, cur, word, todo, left>>, ~oom,
               Growing' => Growing, pc' = "right" => pc = "right"
        PROVE  TreeInv'
    <2>1. \A k : Children(k)' = Children(k)
      BY <1>s, InputFixed DEF Children, ExprAt
    <2>2. Forest'
      BY <1>s, <2>1 DEF TreeInv, Forest, Siblings, ExprHandles
    <2>3. Kids(cur, word)' = Kids(cur, word)
      BY <1>s, InputFixed DEF Kids
    <2>4. Growing' => (Siblings(Kids(cur, word), word) /\ Free(Kids(cur, word)))'
      BY <1>s, <2>1, <2>3 DEF TreeInv, Siblings, Free, ExprHandles
    <2>5. pc' = "right" => (Free({left}) /\ left \in ExprHandles /\ mem[left].word = word)'
      BY <1>s, <2>1 DEF TreeInv, Free, ExprHandles
    <2> QED
      BY <1>s, <2>2, <2>3, <2>4, <2>5 DEF TreeInv
  <1>1. CASE DecodeWord
    <2>1. ~oom /\ UNCHANGED <<input, mem, word, left>>
      BY <1>1 DEF DecodeWord, pool
    <2>2. CASE code[word] \in {Rejected, Endless}
      BY <1>1, <1>s, <2>1, <2>2 DEF DecodeWord, Growing
    <2>3. CASE code[word] \notin {Rejected, Endless}
      <3>1. /\ pc' = IF code[word] = Plain THEN "push" ELSE "left"
            /\ cur' = IF code[word] = Plain THEN Blank(word) ELSE Leaf(word)
        BY <1>1, <2>3 DEF DecodeWord
      <3>2. Kids(cur, word)' = {}
        BY <2>1, <3>1, InputFixed DEF Kids, Leaf
      <3>3. (Siblings(Kids(cur, word), word) /\ Free(Kids(cur, word)))'
        BY <3>2 DEF Siblings, Free
      <3>4. \A k : Children(k)' = Children(k)
        BY <2>1, InputFixed DEF Children, ExprAt
      <3>5. Forest'
        BY <2>1, <3>4 DEF TreeInv, Forest, Siblings, ExprHandles
      <3> QED
        BY <3>1, <3>3, <3>5 DEF TreeInv
    <2> QED
      BY <2>2, <2>3
  <1>2. CASE PushLeft
    <2> DEFINE o == IF todo = 1 THEN Leaf(word) ELSE cur
    <2>1. PICK h : Push(o, ExprSize, h) /\ left' = h
      BY <1>2 DEF PushLeft
    <2>2. pc = "left" /\ pc' = "right" /\ UNCHANGED <<input, word, todo, cur>>
      BY <1>2 DEF PushLeft
    <2>3. Pushed(o, ExprSize, h) /\ ~oom
      BY <2>1, PushFacts DEF Pushed, Missed
    <2>4. /\ o.word = word /\ o.kind # "instr"
          /\ KidsOf(o) = IF todo = 1 THEN {} ELSE Kids(cur, word)
      BY <1>w, <2>2, ExprFacts DEF KidsOf, Kids, Leaf, CallInv
    <2>5. /\ Siblings(Kids(cur, word), word) /\ Free(Kids(cur, word)) /\ Forest
      BY <2>2, <2>3 DEF TreeInv, Growing
    <2>6. Siblings(KidsOf(o), o.word) /\ Free(KidsOf(o))
      BY <2>4, <2>5 DEF Siblings, Free
    <2>7. /\ Forest' /\ Free({h})'
          /\ \A T, w : Siblings(T, w) => h \notin T /\ Siblings(T, w)'
          /\ \A T : T \cap KidsOf(o) = {} /\ h \notin T /\ Free(T) => Free(T)'
      BY <2>2, <2>3, <2>5, <2>6, TreePush
    <2>8. h \in ExprHandles' /\ mem'[h].word = word
      BY <2>3, <2>4 DEF ExprHandles, Pushed
    <2>9. Kids(cur, word)' = Kids(cur, word)
      BY <2>2, InputFixed DEF Kids
    <2>10. \A T, w : T = Kids(cur, word) /\ w = word /\ todo = 1
                        => h \notin T /\ Siblings(T, w)' /\ Free(T)'
      BY <2>4, <2>5, <2>7
    <2>11. todo = 1 => /\ (Siblings(Kids(cur, word), word) /\ Free(Kids(cur, word)))'
                       /\ h \notin Kids(cur, word)
      BY <2>2, <2>9, <2>10 DEF Siblings, Free
    <2>12. Free({left})'
      BY <2>1, <2>7 DEF Free
    <2> QED
      BY <2>1, <2>2, <2>7, <2>8, <2>9, <2>11, <2>12 DEF TreeInv, Growing
  <1>3. CASE PushRight
    <2> DEFINE o == IF todo = 1 THEN cur ELSE Leaf(word)
    <2>1. PICK h : Push(o, ExprSize, h) /\ cur' = Node(word, left, h)
      BY <1>3 DEF PushRight
    <2>2. /\ pc = "right" /\ pc' = IF todo = 1 THEN "push" ELSE "left"
          /\ UNCHANGED <<input, word>>
      BY <1>3 DEF PushRight
    <2>3. Pushed(o, ExprSize, h) /\ ~oom
      BY <2>1, PushFacts DEF Pushed, Missed
    <2>4. /\ o.word = word /\ o.kind # "instr"
          /\ KidsOf(o) = IF todo = 1 THEN Kids(cur, word) ELSE {}
      BY <1>w, <2>2, ExprFacts DEF KidsOf, Kids, Leaf, CallInv
    <2>5. /\ todo = 1 => /\ Siblings(Kids(cur, word), word) /\ Free(Kids(cur, word))
                         /\ left \notin Kids(cur, word)
          /\ left \in ExprHandles /\ mem[left].word = word /\ Free({left}) /\ Forest
      BY <2>2, <2>3 DEF TreeInv, Growing
    <2>6. Siblings(KidsOf(o), o.word) /\ Free(KidsOf(o)) /\ left \notin KidsOf(o)
      BY <2>4, <2>5 DEF Siblings, Free
    <2>7. /\ Forest' /\ Free({h})'
          /\ \A T : T \cap KidsOf(o) = {} /\ h \notin T /\ Free(T) => Free(T)'
      BY <2>2, <2>3, <2>5, <2>6, TreePush
    <2>8. h \in ExprHandles' /\ mem'[h].word = word
      BY <2>3, <2>4 DEF ExprHandles, Pushed
    <2>9. left # h /\ left \in ExprHandles' /\ mem'[left].word = word
      BY <2>3, <2>5 DEF ExprHandles, Pushed
    <2>10. Free({left})'
      <3>1. \A T : T = {left} => Free(T)'
        BY <2>5, <2>6, <2>7, <2>9
      <3> QED
        BY <3>1, <1>3 DEF Free, PushRight
    <2>11. Kids(cur, word)' \in {{}, {left, h}}
      BY <2>1, <2>2, InputFixed DEF Kids, Node
    <2>12. (Siblings(Kids(cur, word), word))'
      BY <2>2, <2>8, <2>9, <2>11 DEF Siblings
    <2>13. (Free(Kids(cur, word)))'
      <3>1. UNCHANGED left
        BY <1>3 DEF PushRight
      <3> QED
        BY <2>7, <2>10, <2>11, <3>1 DEF Free
    <2> QED
      BY <2>2, <2>7, <2>12, <2>13 DEF TreeInv, Growing
  <1>4. CASE PushInstr
    <2> DEFINE o == Instr(word, cur, 0)
    <2>1. PICK h : Push(o, InstrSize, h)
      BY <1>4 DEF PushInstr
    <2>2. pc = "push" /\ pc' \in {"decode", "end"} /\ UNCHANGED input
      BY <1>4 DEF PushInstr
    <2>3. Pushed(o, InstrSize, h) /\ ~oom
      BY <2>1, PushFacts DEF Pushed, Missed
    <2>4. o.word = word /\ KidsOf(o) = Kids(cur, word)
      BY DEF KidsOf, Kids, Instr
    <2>5. Siblings(KidsOf(o), o.word) /\ Free(KidsOf(o)) /\ Forest
      BY <2>2, <2>3, <2>4 DEF TreeInv, Growing
    <2>6. Forest'
      BY <2>2, <2>3, <2>5, TreePush
    <2> QED
      BY <2>2, <2>6 DEF TreeInv, Growing
  <1>5. CASE Fault
    BY <1>5, <1>s DEF Fault, pool, call, Growing
  <1>6. CASE EndOfBuffer
    <2>1. CASE ret = Invalid \/ ~bits
      BY <1>5, <1>6, <2>1 DEF EndOfBuffer
    <2>2. CASE ~(ret = Invalid \/ ~bits)
      BY <1>6, <1>s, <2>2 DEF EndOfBuffer, pool, Growing
    <2> QED
      BY <2>1, <2>2
  <1>7. CASE LinkNext
    <2> DEFINE h == stack[Len(stack)]
    <2>1. CASE h = Invalid \/ ~bits
      BY <1>5, <1>7, <2>1 DEF LinkNext
    <2>2. CASE ~(h = Invalid \/ ~bits)
      <3>1. /\ stack # << >> /\ pc = "return"
            /\ mem' = [mem EXCEPT ![h].next = ret]
            /\ UNCHANGED <<input, pc, oom>>
        BY <1>7, <2>2 DEF LinkNext
      <3>2. Linked(h)
        BY <2>2, <3>1, LinkFacts
      <3>3. ASSUME NEW k \in DOMAIN mem
            PROVE  /\ Children(k)' = Children(k)
                   /\ mem'[k].kind = mem[k].kind
                   /\ mem'[k].word = mem[k].word
        <4>1. CASE k = h
          <5>1. /\ mem[h].kind = "instr" /\ mem'[h].kind = "instr"
                /\ mem'[h].word = mem[h].word /\ mem'[h].expr = mem[h].expr
            BY <3>2 DEF Linked, Instr, Instrs
          <5> QED
            BY <3>1, <4>1, <5>1, InputFixed DEF Children, ExprAt
        <4>2. CASE k # h
          BY <3>1, <3>2, <4>2, InputFixed DEF Linked, Children, ExprAt
        <4> QED
          BY <4>1, <4>2
      <3>4. DOMAIN mem' = DOMAIN mem
        BY <3>2 DEF Linked
      <3>5. ExprHandles' = ExprHandles
        BY <3>3, <3>4 DEF ExprHandles
      <3>6. \A k \in DOMAIN mem : Children(k) \subseteq DOMAIN mem
        BY <3>1 DEF TreeInv, Forest, Siblings, ExprHandles
      <3>7. Forest'
        BY <3>1, <3>3, <3>4, <3>5, <3>6 DEF TreeInv, Forest, Siblings
      <3> QED
        BY <3>1, <3>7 DEF TreeInv, Growing
    <2> QED
      BY <2>1, <2>2
  <1>8. CASE Finish
    BY <1>8, <1>s DEF Finish, pool, call, Growing
  <1>9. CASE UNCHANGED vars
    BY <1>9, <1>s DEF vars, pool, call, Growing
  <1>10. CASE PushAborts
    BY <1>10, <1>s DEF PushAborts, pool, call, Growing
  <1> QED
    BY <1>1, <1>2, <1>3, <1>4, <1>5, <1>6, <1>7, <1>8, <1>9, <1>10 DEF Next, PushStrays

(* Expressions and instructions refer to trees (iml.hxx, iml.cxx:62-87): the     *)
(* handles taken by the constructor, before later pushes move the buffer, are  *)
(* those of two expressions of the same word that nothing else refers to.      *)
THEOREM ExpressionsAreTrees == Spec => []TreesSound
  <1>1. ASSUME TypeOK, TreeInv
        PROVE  TreesSound
    <2> SUFFICES ASSUME ~oom, NEW h \in DOMAIN mem
                 PROVE  /\ Cardinality(Children(h)) \in {0, 2}
                        /\ \A c \in Children(h) :
                              c \in ExprHandles /\ c < h /\ mem[c].word = mem[h].word
                        /\ \A k \in DOMAIN mem \ {h} : Children(h) \cap Children(k) = {}
      BY DEF TreesSound
    <2>1. Siblings(Children(h), mem[h].word)
      BY <1>1 DEF TreeInv, Forest
    <2>2. Children(h) = {} => Cardinality(Children(h)) = 0
      BY FS_EmptySet
    <2>3. ASSUME \E a, b \in Children(h) : a # b /\ Children(h) = {a, b}
          PROVE  Cardinality(Children(h)) = 2
      <3>1. PICK a, b \in Children(h) : a # b /\ Children(h) = {a, b}
        BY <2>3
      <3>2. IsFiniteSet({a}) /\ Cardinality({a}) = 1
        BY FS_Singleton
      <3>3. {a} \cup {b} = Children(h) /\ b \notin {a}
        BY <3>1
      <3>4. Cardinality({a} \cup {b}) = 2
        BY <3>2, <3>3, FS_AddElement
      <3> QED
        BY <3>3, <3>4
    <2>4. Cardinality(Children(h)) \in {0, 2}
      BY <2>1, <2>2, <2>3 DEF Siblings
    <2>5. \A c \in Children(h) : c \in ExprHandles /\ mem[c].word = mem[h].word
      BY <2>1 DEF Siblings
    <2>6. /\ \A c \in Children(h) : c < h
          /\ \A k \in DOMAIN mem \ {h} : Children(h) \cap Children(k) = {}
      BY <1>1 DEF TreeInv, Forest
    <2> QED
      BY <2>4, <2>5, <2>6
  <1>2. Spec => [](TypeOK /\ CallInv /\ TreeInv)
    BY TypeInit, TypeStep, CallInit, CallStep, TreeInit, TreeStep, PTL DEF Spec
  <1> QED
    BY <1>1, <1>2, PTL

-----------------------------------------------------------------------------
(* The listing. *)

(* The instruction at h goes on to that of the word after w, or ends the list. *)
GoesOn(h, w) == IF w + 1 \in Words THEN mem[h].next \in InstrOf(w + 1)
                                   ELSE mem[h].next = 0

(* Suspended calls have one instruction each, words not reached have none, and  *)
(* on the way back the words returned from are linked; only those are marked. *)
ListInv ==
    ~oom => /\ \A w \in Words : w < word => InstrOf(w) = {stack[w + 1]}
            /\ pc \notin {"end", "return"} =>
                  /\ \A w \in Words : w >= word => InstrOf(w) = {}
                  /\ decoded = {}
            /\ pc \in {"end", "return"} => InstrOf(word) = {ret}
            /\ pc = "end" => mem[ret].next = 0 /\ decoded = {}
            /\ pc = "return" =>
                  \A w \in Words : w >= word =>
                     \E h \in InstrOf(w) : InstrOf(w) = {h} /\ GoesOn(h, w)
            /\ \A w \in decoded : w >= word /\ w + 1 \in Words

LEMMA ListInit == Init => ListInv
  <1> SUFFICES ASSUME Init PROVE ListInv
    OBVIOUS
  <1>1. DOMAIN mem = {} /\ pc = "decode" /\ word = 0 /\ decoded = {} /\ size \in Sizes
    BY DEF Init
  <1>2. \A w \in Words : ~(w < 0)
    <2> TAKE w \in Words
    <2>1. w \in Nat
      BY <1>1, WordFacts
    <2> QED
      BY <2>1
  <1> QED
    BY <1>1, <1>2 DEF ListInv, InstrOf

LEMMA ListStep == TypeOK /\ CallInv /\ FaultInv /\ ListInv /\ [Next]_vars => ListInv'
  <1> SUFFICES ASSUME TypeOK, CallInv, FaultInv, ListInv, [Next]_vars, ~oom'
               PROVE  ListInv'
    BY DEF ListInv
  <1>w. /\ word \in Words /\ size \in Sizes /\ stack \in Seq(AnyHandle)
        /\ word = Len(stack) /\ word \in Nat
        /\ pc \in {"decode", "left", "right", "push", "end", "return"}
    BY WordFacts DEF TypeOK, AnyHandle, CallInv
  <1>s. ASSUME UNCHANGED <<input, mem, stack, word, ret, pc, decoded>>, ~oom
        PROVE  ListInv'
    BY <1>s, InputFixed, SameInstrs DEF ListInv, GoesOn
  (* Decoding and building the expression of a word. *)
  <1>e. ASSUME UNCHANGED <<input, stack, word, decoded>>, ~oom,
               pc \notin {"end", "return"}, pc' \notin {"end", "return"},
               \A w : InstrOf(w)' = InstrOf(w)
        PROVE  ListInv'
    BY <1>e, InputFixed DEF ListInv
  <1>1. CASE DecodeWord
    BY <1>1, <1>e, SameInstrs DEF DecodeWord, pool
  <1>2. CASE PushLeft
    <2> DEFINE o == IF todo = 1 THEN Leaf(word) ELSE cur
    <2>1. PICK h : Push(o, ExprSize, h)
      BY <1>2 DEF PushLeft
    <2>2. o \in Exprs
      BY <1>w, LeafType DEF TypeOK
    <2>3. \A w : InstrOf(w)' = InstrOf(w)
      BY <2>1, <2>2, ExprPushInstrs
    <2>4. ~oom
      BY <2>1, PushFacts DEF Pushed, Missed
    <2> QED
      BY <1>2, <1>e, <2>3, <2>4 DEF PushLeft
  <1>3. CASE PushRight
    <2> DEFINE o == IF todo = 1 THEN cur ELSE Leaf(word)
    <2>1. PICK h : Push(o, ExprSize, h)
      BY <1>3 DEF PushRight
    <2>2. o \in Exprs
      BY <1>w, LeafType DEF TypeOK
    <2>3. \A w : InstrOf(w)' = InstrOf(w)
      BY <2>1, <2>2, ExprPushInstrs
    <2>4. ~oom
      BY <2>1, PushFacts DEF Pushed, Missed
    <2> QED
      BY <1>3, <1>e, <2>3, <2>4 DEF PushRight
  <1>4. CASE PushInstr
    <2> DEFINE o == Instr(word, cur, 0)
    <2>1. PICK h : /\ Push(o, InstrSize, h)
                   /\ IF MoreCode THEN /\ stack' = Append(stack, h)
                                       /\ word' = word + 1
                                       /\ pc' = "decode"
                                       /\ UNCHANGED ret
                      ELSE ret' = h /\ pc' = "end" /\ UNCHANGED <<stack, word>>
      BY <1>4 DEF PushInstr
    <2>2. pc = "push" /\ UNCHANGED <<input, decoded>>
      BY <1>4 DEF PushInstr
    <2>3. Pushed(o, InstrSize, h) /\ ~oom
      BY <2>1, PushFacts DEF Pushed, Missed
    <2>4. \A w : InstrOf(w)' = IF w = word THEN InstrOf(w) \cup {h} ELSE InstrOf(w)
      BY <2>3, PushedInstrs DEF Instr
    <2>5. /\ \A w \in Words : w < word => InstrOf(w) = {stack[w + 1]}
          /\ \A w \in Words : w >= word => InstrOf(w) = {}
          /\ decoded = {}
      BY <2>2, <2>3 DEF ListInv
    <2>6. \A w : w = word => InstrOf(w)' = {h}
      BY <1>w, <2>4, <2>5
    <2>7. \A w \in Words : w \in Nat
      BY <1>w, WordFacts
    <2>8. CASE MoreCode
      <3>1. h \in AnyHandle
        BY <2>1, <2>8, <2>3 DEF Pushed, TypeOK, AnyHandle
      <3>2. /\ stack'[word + 1] = h
            /\ \A w \in Words : w < word => stack'[w + 1] = stack[w + 1]
        BY <1>w, <2>1, <2>7, <2>8, <3>1
      <3>3. \A w \in Words : w < word' => InstrOf(w)' = {stack'[w + 1]}
        BY <1>w, <2>1, <2>4, <2>5, <2>6, <2>7, <2>8, <3>2
      <3>4. \A w \in Words : w >= word' => InstrOf(w)' = {}
        BY <1>w, <2>1, <2>4, <2>5, <2>7, <2>8
      <3> QED
        BY <2>1, <2>2, <2>5, <2>8, <3>3, <3>4, InputFixed DEF ListInv
    <2>9. CASE ~MoreCode
      <3>1. \A w \in Words : w < word => InstrOf(w)' = {stack'[w + 1]}
        BY <1>w, <2>1, <2>4, <2>5, <2>7, <2>9
      <3>2. mem'[h].next = 0
        BY <2>3 DEF Pushed, Instr
      <3>3. InstrOf(word)' = {h}
        BY <2>1, <2>6, <2>9 DEF InstrOf
      <3> QED
        BY <2>1, <2>2, <2>5, <2>9, <3>1, <3>2, <3>3, InputFixed DEF ListInv
    <2> QED
      BY <2>8, <2>9
  <1>5. CASE Fault
    BY <1>5, <1>s DEF Fault, pool, call
  <1>6. CASE EndOfBuffer
    <2>1. CASE ret = Invalid \/ ~bits
      BY <1>5, <1>6, <2>1 DEF EndOfBuffer
    <2>2. CASE ~(ret = Invalid \/ ~bits)
      <3>1. /\ UNCHANGED <<input, mem, stack, word, ret, decoded, oom>>
            /\ pc = "end" /\ pc' = "return"
        BY <1>6, <2>2 DEF EndOfBuffer, pool
      <3>2. InstrOf(word) = {ret} /\ mem[ret].next = 0 /\ decoded = {}
        BY <3>1 DEF ListInv
      <3>3. word = NumWords(size) - 1
        BY <3>1 DEF CallInv
      <3>4. \A w \in Words : w >= word => w = word /\ w + 1 \notin Words
        BY <1>w, <3>3, SizeFacts DEF Words
      <3>5. \A w \in Words : w >= word => InstrOf(w) = {ret} /\ GoesOn(ret, w)
        BY <3>2, <3>4 DEF GoesOn
      <3>6. \A w \in Words : w >= word =>
               \E h \in InstrOf(w)' :
                  /\ InstrOf(w)' = {h}
                  /\ IF w + 1 \in Words THEN mem'[h].next \in InstrOf(w + 1)'
                                        ELSE mem'[h].next = 0
        BY <3>1, <3>5, SameInstrs DEF GoesOn
      <3> QED
        BY <3>1, <3>2, <3>6, SameInstrs, InputFixed DEF ListInv, GoesOn
    <2> QED
      BY <2>1, <2>2
  <1>7. CASE LinkNext
    <2> DEFINE h == stack[Len(stack)]
               caller == Len(stack) - 1
    <2>1. CASE h = Invalid \/ ~bits
      BY <1>5, <1>7, <2>1 DEF LinkNext
    <2>2. CASE ~(h = Invalid \/ ~bits)
      <3>1. /\ stack # << >> /\ pc = "return"
            /\ decoded' = decoded \cup {caller}
            /\ mem' = [mem EXCEPT ![h].next = ret]
            /\ ret' = h
            /\ stack' = SubSeq(stack, 1, Len(stack) - 1)
            /\ word' = caller
            /\ UNCHANGED <<input, pc, oom>>
        BY <1>7, <2>2 DEF LinkNext
      <3>2. Linked(h)
        BY <2>2, <3>1, LinkFacts
      <3>3. \A w : InstrOf(w)' = InstrOf(w)
        BY <3>2, LinkedInstrs
      <3>4. \A k \in 1..Len(stack') : stack'[k] = stack[k] /\ k \in 1..Len(stack)
        BY <1>w, <3>1, AllButLast
      <3>4a. Len(stack) \in Nat \ {0} /\ Len(stack') = caller
        BY <1>w, <3>1, AllButLast
      <3>5. /\ \A w \in Words : w < word => InstrOf(w) = {stack[w + 1]}
            /\ InstrOf(word) = {ret}
            /\ \A w \in Words : w >= word =>
                  \E k \in InstrOf(w) : InstrOf(w) = {k} /\ GoesOn(k, w)
            /\ \A w \in decoded : w >= word /\ w + 1 \in Words
        BY <3>1 DEF ListInv
      <3>6. /\ caller \in Words /\ caller + 1 = word /\ caller < word /\ caller \in Nat
            /\ \A w \in Words : w \in Nat /\ (w >= caller <=> w = caller \/ w >= word)
        BY <1>w, <3>4a, SizeFacts, WordFacts DEF Words
      <3>7. \A w \in Words : w < caller => InstrOf(w)' = {stack'[w + 1]}
        <4> SUFFICES ASSUME NEW w \in Words, w < caller
                     PROVE  InstrOf(w)' = {stack'[w + 1]}
          OBVIOUS
        <4>1. w + 1 \in 1..caller /\ w < word
          BY <3>6
        <4>2. stack'[w + 1] = stack[w + 1]
          BY <3>4, <3>4a, <4>1
        <4> QED
          BY <3>3, <3>5, <4>1, <4>2
      <3>8. InstrOf(caller) = {h}
        BY <3>5, <3>6
      <3>9. /\ mem'[h].next = ret
            /\ \A k \in DOMAIN mem : mem[k].word # caller => mem'[k] = mem[k]
        BY <3>2 DEF Linked, Instr, InstrOf
      <3>10. ASSUME NEW w \in Words, w >= caller
             PROVE  \E k \in InstrOf(w)' :
                       /\ InstrOf(w)' = {k}
                       /\ IF w + 1 \in Words THEN mem'[k].next \in InstrOf(w + 1)'
                                             ELSE mem'[k].next = 0
        <4>1. CASE w = caller
          BY <1>w, <3>3, <3>5, <3>6, <3>8, <3>9, <4>1
        <4>2. CASE w >= word
          <5>1. PICK k : InstrOf(w) = {k} /\ GoesOn(k, w)
            BY <3>5, <4>2
          <5>2. w # caller
            BY <1>w, <3>6, <4>2
          <5>3. mem'[k] = mem[k]
            BY <3>9, <5>1, <5>2 DEF InstrOf
          <5> QED
            BY <3>3, <5>1, <5>3 DEF GoesOn
        <4> QED
          BY <3>6, <3>10, <4>1, <4>2
      <3>11. InstrOf(word)' = {ret'}
        BY <3>1, <3>3, <3>8 DEF InstrOf
      <3>12. \A w \in decoded' : w >= word' /\ w + 1 \in Words
        <4>1. \A w \in decoded : w \in Words
          BY DEF TypeOK
        <4> QED
          BY <1>w, <3>1, <3>5, <3>6, <4>1
      <3> QED
        BY <3>1, <3>7, <3>10, <3>11, <3>12, InputFixed DEF ListInv, GoesOn
    <2> QED
      BY <2>1, <2>2
  <1>8. CASE Finish
    BY <1>8, <1>s DEF Finish, pool, call
  <1>9. CASE UNCHANGED vars
    BY <1>9, <1>s DEF vars, pool, call
  <1>10. CASE PushAborts
    BY <1>10, <1>s DEF PushAborts, pool, call
  <1> QED
    BY <1>1, <1>2, <1>3, <1>4, <1>5, <1>6, <1>7, <1>8, <1>9, <1>10 DEF Next, PushStrays

LEMMA AlwaysListed == Spec => [](TypeOK /\ CallInv /\ ListInv)
  BY TypeInit, TypeStep, CallInit, CallStep, FaultInit, FaultStep, ListInit, ListStep, PTL
     DEF Spec

(* While imlgen_recurse unwinds, the instructions from the one it returns on are *)
(* the words of the rest of the program, each once and in order, and the list   *)
(* ends in 0 (iml.cxx:24-43).                                                 *)
THEOREM ListedInOrder == Spec => []ListingSuffix
  <1>1. ASSUME TypeOK, CallInv, ListInv
        PROVE  ListingSuffix
    <2> SUFFICES ASSUME ~oom, pc = "return"
                 PROVE  /\ ret \in InstrOf(Len(stack))
                        /\ \A w \in Len(stack)..(NumWords(size) - 1) :
                              /\ Cardinality(InstrOf(w)) = 1
                              /\ \A h \in InstrOf(w) :
                                    IF w + 1 \in Words THEN mem[h].next \in InstrOf(w + 1)
                                                       ELSE mem[h].next = 0
      BY DEF ListingSuffix
    <2>1. Len(stack) = word /\ word \in Words /\ size \in Sizes
      BY <1>1 DEF CallInv, TypeOK
    <2>2. ret \in InstrOf(Len(stack))
      BY <1>1, <2>1 DEF ListInv
    <2>3. ASSUME NEW w \in Len(stack)..(NumWords(size) - 1)
          PROVE  /\ Cardinality(InstrOf(w)) = 1
                 /\ \A h \in InstrOf(w) : GoesOn(h, w)
      <3>1. w \in Words /\ w >= word
        BY <2>1, <2>3, SizeFacts, WordFacts DEF Words
      <3>2. PICK h : InstrOf(w) = {h} /\ GoesOn(h, w)
        BY <1>1, <3>1 DEF ListInv
      <3>3. Cardinality({h}) = 1
        BY FS_Singleton
      <3> QED
        BY <3>2, <3>3
    <2> QED
      BY <2>2, <2>3 DEF GoesOn
  <1> QED
    BY <1>1, AlwaysListed, PTL

(* A bit of decoded_instrs is set only for a word whose instruction exists and    *)
(* goes on to that of the next word, so a branch to it can be resolved         *)
(* (iml.hxx, iml.cxx:35-43).                                                   *)
THEOREM MarksAreResolvable == Spec => []MarkedAreLinked
  <1>1. ASSUME TypeOK, CallInv, ListInv
        PROVE  MarkedAreLinked
    <2> SUFFICES ASSUME ~oom, NEW w \in decoded
                 PROVE  \E h \in InstrOf(w) : mem[h].next \in InstrOf(w + 1)
      BY DEF MarkedAreLinked
    <2>1. w \in Words /\ w >= word /\ w + 1 \in Words
      BY <1>1 DEF ListInv, TypeOK
    <2>2. pc \in {"end", "return"} /\ pc # "end"
      BY <1>1 DEF ListInv
    <2>3. PICK h \in InstrOf(w) : GoesOn(h, w)
      BY <1>1, <2>1, <2>2 DEF ListInv
    <2> QED
      BY <2>1, <2>3 DEF GoesOn
  <1> QED
    BY <1>1, AlwaysListed, PTL

(* imlgen adds objects to the pool and changes one at a time (iml.cxx): what it   *)
(* does to the pool is what HandleStore promises its clients, which Pool is     *)
(* shown to implement.                                                        *)
THEOREM UsesTheHandleStore == Spec => ObjectsSpec
  <1>1. Init => Objects!Init
    BY DEF Init, Objects!Init
  <1>2. TypeOK /\ CallInv /\ [Next]_vars => [Objects!Next]_mem
    <2> SUFFICES ASSUME TypeOK, CallInv, [Next]_vars
                 PROVE  [Objects!Next]_mem
      OBVIOUS
    <2>1. ASSUME NEW o, NEW n \in {ExprSize, InstrSize}, NEW h, Push(o, n, h)
          PROVE  [Objects!Next]_mem
      <3>1. CASE Pushed(o, n, h)
        <4>1. h \notin DOMAIN mem /\ h \in DOMAIN mem'
          BY <3>1 DEF Pushed
        <4>2. Objects!Put(h)
          BY <3>1, <4>1 DEF Pushed, Objects!Put, Objects!SameExcept
        <4> QED
          BY <4>1, <4>2 DEF Objects!Next
      <3>2. CASE Missed(h)
        BY <3>2 DEF Missed
      <3> QED
        BY <2>1, <3>1, <3>2, PushFacts
    <2>2. CASE PushLeft
      BY <2>1, <2>2 DEF PushLeft
    <2>3. CASE PushRight
      BY <2>1, <2>3 DEF PushRight
    <2>4. CASE PushInstr
      BY <2>1, <2>4 DEF PushInstr
    <2>5. CASE LinkNext
      <3> DEFINE h == stack[Len(stack)]
      <3>1. CASE h = Invalid \/ ~bits
        BY <2>5, <3>1 DEF LinkNext, Fault, pool
      <3>2. CASE ~(h = Invalid \/ ~bits)
        <4>1. stack # << >> /\ mem' = [mem EXCEPT ![h].next = ret]
          BY <2>5, <3>2 DEF LinkNext
        <4>2. Linked(h)
          BY <3>2, <4>1, LinkFacts
        <4>3. h \in DOMAIN mem /\ DOMAIN mem'[h] = DOMAIN mem[h]
          BY <4>2 DEF Linked, InstrOf, Instr, Instrs
        <4>4. Objects!Update(h)
          BY <4>2, <4>3 DEF Linked, Objects!Update, Objects!SameExcept
        <4> QED
          BY <4>3, <4>4 DEF Objects!Next
      <3> QED
        BY <3>1, <3>2
    <2>6. ASSUME \/ DecodeWord \/ PushStrays \/ PushAborts \/ EndOfBuffer \/ Finish
                 \/ UNCHANGED vars
          PROVE  UNCHANGED mem
      BY <2>6 DEF DecodeWord, PushStrays, PushAborts, EndOfBuffer, Finish, Fault, vars, pool
    <2> QED
      BY <2>2, <2>3, <2>4, <2>5, <2>6 DEF Next
  <1>3. Spec => [](TypeOK /\ CallInv)
    BY AlwaysListed, PTL
  <1> QED
    BY <1>1, <1>2, <1>3, PTL DEF Spec, ObjectsSpec, Objects!Spec

-----------------------------------------------------------------------------
(* Heights.  Height and Chain are functions defined by recursion over data: what *)
(* they return follows from the fact that a set of numbers has a least element. *)

Larger(a, b) == IF a < b THEN b ELSE a

(* The height of the expression e of word w when f gives that of what it refers to. *)
OfKids(f, e, w) == IF Kids(e, w) = {} THEN 0 ELSE 1 + Larger(f[e.left], f[e.right])

(* The equation that defines Height. *)
Heights(f) == f = [h \in DOMAIN mem |-> OfKids(f, ExprAt(h), mem[h].word)]

(* f measures the trees: an instruction has the height of its word's nesting, and   *)
(* the expression under construction what has been nested of it.                *)
Measures(f) ==
    /\ f \in [DOMAIN mem -> Nat]
    /\ Heights(f)
    /\ \A h \in DOMAIN mem : mem[h].kind = "instr" => f[h] = code[mem[h].word]
    /\ Growing => OfKids(f, cur, word) = code[word] - todo
    /\ pc = "right" => f[left] = IF todo = 1 THEN 0 ELSE code[word] - todo

HeightInv == ~oom => \E f : Measures(f)

(* imlgen is only done when it has unwound. *)
Unwound == status = "done" => pc = "return" /\ stack = << >>

LEMMA HeightInit == Init => HeightInv /\ Unwound
  <1> SUFFICES ASSUME Init PROVE HeightInv /\ Unwound
    OBVIOUS
  <1>1. DOMAIN mem = {} /\ pc = "decode" /\ status = "running"
    BY DEF Init
  <1> DEFINE f == [h \in {} |-> 0]
  <1>2. f \in [DOMAIN mem -> Nat] /\ Heights(f)
    BY <1>1 DEF Heights
  <1> QED
    BY <1>1, <1>2 DEF HeightInv, Measures, Unwound, Growing

(* What is pushed gets the height of what it refers to; the rest keep theirs. *)
LEMMA HeightPush ==
  ASSUME TypeOK, UNCHANGED input, Forest,
         NEW o, NEW n, NEW h, Pushed(o, n, h), Siblings(KidsOf(o), o.word),
         NEW f, Measures(f)
  PROVE  \E g : /\ g \in [DOMAIN mem' -> Nat]
                /\ Heights(g)'
                /\ \A k \in DOMAIN mem : g[k] = f[k]
                /\ g[h] = OfKids(f, IF o.kind = "instr" THEN o.expr ELSE o, o.word)
  <1> DEFINE e == IF o.kind = "instr" THEN o.expr ELSE o
             g == [k \in DOMAIN mem \cup {h} |->
                      IF k = h THEN OfKids(f, e, o.word) ELSE f[k]]
  <1>1. /\ DOMAIN mem' = DOMAIN mem \cup {h} /\ h \notin DOMAIN mem
        /\ mem'[h] = o
        /\ \A k \in DOMAIN mem : mem'[k] = mem[k]
    BY DEF Pushed
  <1>2. f \in [DOMAIN mem -> Nat] /\ Heights(f)
    BY DEF Measures
  <1>3. ASSUME NEW d, NEW w, Siblings(Kids(d, w), w)
        PROVE  OfKids(g, d, w) = OfKids(f, d, w) /\ OfKids(f, d, w) \in Nat
    <2>1. CASE Kids(d, w) = {}
      BY <2>1 DEF OfKids
    <2>2. CASE Kids(d, w) # {}
      <3>1. d.left \in DOMAIN mem /\ d.right \in DOMAIN mem
        BY <1>3, <2>2 DEF Kids, Siblings, ExprHandles
      <3>2. g[d.left] = f[d.left] /\ g[d.right] = f[d.right]
        BY <1>1, <3>1
      <3>3. f[d.left] \in Nat /\ f[d.right] \in Nat
        BY <1>2, <3>1
      <3> QED
        <4> HIDE DEF g
        <4> QED
          BY <2>2, <3>2, <3>3 DEF OfKids, Larger
    <2> QED
      BY <2>1, <2>2
  <1>4. OfKids(f, e, o.word) \in Nat /\ OfKids(g, e, o.word) = OfKids(f, e, o.word)
    BY <1>3 DEF KidsOf
  <1>5. g \in [DOMAIN mem' -> Nat]
    BY <1>1, <1>2, <1>4
  <1>6. \A k \in DOMAIN mem : g[k] = OfKids(g, ExprAt(k), mem[k].word)
    <2> TAKE k \in DOMAIN mem
    <2>1. Kids(ExprAt(k), mem[k].word) = Children(k)
      BY DEF Kids, Children
    <2>2. Siblings(Kids(ExprAt(k), mem[k].word), mem[k].word)
      BY <2>1 DEF Forest
    <2>3. g[k] = f[k]
      BY <1>1
    <2>4. f[k] = OfKids(f, ExprAt(k), mem[k].word)
      BY <1>2 DEF Heights
    <2> QED
      BY <1>3, <2>2, <2>3, <2>4
  <1>7. \A k \in DOMAIN mem' : g[k] = OfKids(g, ExprAt(k)', mem'[k].word)
    <2>1. \A k \in DOMAIN mem : ExprAt(k)' = ExprAt(k)
      BY <1>1 DEF ExprAt
    <2>2. ExprAt(h)' = e
      BY <1>1 DEF ExprAt
    <2>3. g[h] = OfKids(g, e, o.word)
      BY <1>4
    <2> HIDE DEF g, e
    <2> QED
      BY <1>1, <1>6, <2>1, <2>2, <2>3
  <1> QED
    <2>1. \A k \in DOMAIN mem : g[k] = f[k]
      BY <1>1
    <2>2. g[h] = OfKids(f, e, o.word)
      OBVIOUS
    <2> HIDE DEF g
    <2>3. ASSUME NEW F, F = g
          PROVE  Heights(F)'
      <3>1. F = [k \in DOMAIN mem' |-> F[k]]
        BY <1>5, <2>3
      <3>2. \A k \in DOMAIN mem' : F[k] = OfKids(F, ExprAt(k)', mem'[k].word)
        BY <1>7, <2>3
      <3>3. \A k \in DOMAIN mem' : F[k] = OfKids(F, ExprAt(k), mem[k].word)'
        BY <3>2, InputFixed DEF OfKids, Kids
      <3> QED
        BY <3>1, <3>3 DEF Heights
    <2> QED
      BY <1>5, <2>1, <2>2, <2>3

(* The heights of cur and left after the steps that build an expression. *)
LEMMA HeightStep ==
  TypeOK /\ CallInv /\ TreeInv /\ HeightInv /\ [Next]_vars => HeightInv'
  <1> SUFFICES ASSUME TypeOK, CallInv, TreeInv, HeightInv, [Next]_vars, ~oom'
               PROVE  \E g : Measures(g)'
    BY DEF HeightInv
  <1>w. /\ word \in Words /\ cur \in Exprs /\ todo \in Int
        /\ code \in [Words -> Kinds] /\ code[word] \in Int
        /\ Plain = 0 /\ MaxNesting \in Nat
        /\ pc \in {"decode", "left", "right", "push", "end", "return"}
    BY ImlGenAssumption DEF TypeOK, Kinds, Endless, Plain
  <1>s. ASSUME UNCHANGED <<input, mem, cur, word, todo, left>>, ~oom,
               Growing' => Growing, pc' = "right" => pc = "right"
        PROVE  \E g : Measures(g)'
    <2>1. PICK f : Measures(f)
      BY <1>s DEF HeightInv
    <2>2. \A F, e, w : OfKids(F, e, w)' = OfKids(F, e, w)
      BY <1>s, InputFixed DEF OfKids, Kids
    <2>3. \A k : ExprAt(k)' = ExprAt(k)
      BY <1>s DEF ExprAt
    <2>4. Heights(f)'
      BY <1>s, <2>1, <2>3, InputFixed DEF Measures, Heights, OfKids, Kids
    <2>5. OfKids(f, cur, word)' = OfKids(f, cur, word)
      BY <1>s, InputFixed DEF OfKids, Kids
    <2>6. Measures(f)'
      BY <1>s, <2>1, <2>4, <2>5, InputFixed DEF Measures
    <2> QED
      BY <2>6
  <1>1. CASE DecodeWord
    <2>1. ~oom /\ UNCHANGED <<input, mem, word, left>>
      BY <1>1 DEF DecodeWord, pool
    <2>2. CASE code[word] \in {Rejected, Endless}
      BY <1>1, <1>s, <2>1, <2>2 DEF DecodeWord, Growing
    <2>3. CASE code[word] \notin {Rejected, Endless}
      <3>1. /\ pc' = IF code[word] = Plain THEN "push" ELSE "left"
            /\ cur' = IF code[word] = Plain THEN Blank(word) ELSE Leaf(word)
            /\ todo' = code[word]
        BY <1>1, <2>3 DEF DecodeWord
      <3>2. PICK f : Measures(f)
        BY <2>1 DEF HeightInv
      <3>3. Kids(cur, word)' = {}
        BY <2>1, <3>1, InputFixed DEF Kids, Leaf
      <3>4. OfKids(f, cur, word)' = 0
        BY <3>3 DEF OfKids
      <3>5. code[word] - code[word] = 0
        BY <1>w
      <3>6. Heights(f)'
        BY <2>1, <3>2, InputFixed, ZenonT(30) DEF Measures, Heights, OfKids, Kids, ExprAt
      <3>7. Measures(f)'
        BY <2>1, <3>1, <3>2, <3>4, <3>5, <3>6, InputFixed DEF Measures
      <3> QED
        BY <3>7
    <2> QED
      BY <2>2, <2>3
  <1>2. CASE PushLeft
    <2> DEFINE o == IF todo = 1 THEN Leaf(word) ELSE cur
    <2>1. PICK h : Push(o, ExprSize, h) /\ left' = h
      BY <1>2 DEF PushLeft
    <2>2. pc = "left" /\ pc' = "right" /\ UNCHANGED <<input, word, todo, cur>>
      BY <1>2 DEF PushLeft
    <2>3. Pushed(o, ExprSize, h) /\ ~oom
      BY <2>1, PushFacts DEF Pushed, Missed
    <2>4. /\ o.word = word /\ o.kind # "instr"
          /\ KidsOf(o) = IF todo = 1 THEN {} ELSE Kids(cur, word)
      BY <1>w, <2>2, ExprFacts DEF KidsOf, Kids, Leaf, CallInv
    <2>5. Siblings(Kids(cur, word), word) /\ Forest
      BY <2>2, <2>3 DEF TreeInv, Growing
    <2>6. Siblings(KidsOf(o), o.word)
      BY <2>4, <2>5 DEF Siblings
    <2>7. PICK f : Measures(f)
      BY <2>3 DEF HeightInv
    <2>8. PICK g : /\ g \in [DOMAIN mem' -> Nat]
                   /\ Heights(g)'
                   /\ \A k \in DOMAIN mem : g[k] = f[k]
                   /\ g[h] = OfKids(f, o, word)
      BY <2>2, <2>3, <2>4, <2>5, <2>6, <2>7, HeightPush
    <2>9. \A k \in DOMAIN mem' : mem'[k].kind = "instr" => g[k] = code'[mem'[k].word]
      BY <2>2, <2>3, <2>4, <2>7, <2>8, InputFixed DEF Pushed, Measures
    <2>10. OfKids(f, cur, word) = code[word] - todo
      BY <2>2, <2>7 DEF Measures, Growing
    <2>11. g[h] = IF todo = 1 THEN 0 ELSE code[word] - todo
      BY <2>8, <2>10 DEF OfKids, Kids, Leaf
    <2>12. OfKids(g, cur, word)' = OfKids(f, cur, word)
      <3>1. Kids(cur, word) = {} \/ (cur.left \in DOMAIN mem /\ cur.right \in DOMAIN mem)
        BY <2>5 DEF Siblings, Kids, ExprHandles
      <3> QED
        BY <2>2, <2>8, <3>1, InputFixed DEF OfKids, Kids
    <2>13. Measures(g)'
      BY <2>1, <2>2, <2>8, <2>9, <2>10, <2>11, <2>12, InputFixed DEF Measures
    <2> QED
      BY <2>13
  <1>3. CASE PushRight
    <2> DEFINE o == IF todo = 1 THEN cur ELSE Leaf(word)
    <2>1. PICK h : Push(o, ExprSize, h) /\ cur' = Node(word, left, h)
      BY <1>3 DEF PushRight
    <2>2. /\ pc = "right" /\ pc' = IF todo = 1 THEN "push" ELSE "left"
          /\ todo' = todo - 1
          /\ UNCHANGED <<input, word, left>>
      BY <1>3 DEF PushRight
    <2>3. Pushed(o, ExprSize, h) /\ ~oom
      BY <2>1, PushFacts DEF Pushed, Missed
    <2>4. /\ o.word = word /\ o.kind # "instr"
          /\ KidsOf(o) = IF todo = 1 THEN Kids(cur, word) ELSE {}
      BY <1>w, <2>2, ExprFacts DEF KidsOf, Kids, Leaf, CallInv
    <2>5. /\ todo = 1 => Siblings(Kids(cur, word), word)
          /\ left \in DOMAIN mem /\ Forest
      BY <2>2, <2>3 DEF TreeInv, Growing, ExprHandles
    <2>6. Siblings(KidsOf(o), o.word)
      BY <2>4, <2>5 DEF Siblings
    <2>7. PICK f : Measures(f)
      BY <2>3 DEF HeightInv
    <2>8. PICK g : /\ g \in [DOMAIN mem' -> Nat]
                   /\ Heights(g)'
                   /\ \A k \in DOMAIN mem : g[k] = f[k]
                   /\ g[h] = OfKids(f, o, word)
      BY <2>2, <2>3, <2>4, <2>5, <2>6, <2>7, HeightPush
    <2>9. \A k \in DOMAIN mem' : mem'[k].kind = "instr" => g[k] = code'[mem'[k].word]
      BY <2>2, <2>3, <2>4, <2>7, <2>8, InputFixed DEF Pushed, Measures
    <2>10. /\ todo = 1 => OfKids(f, cur, word) = code[word] - todo
           /\ f[left] = IF todo = 1 THEN 0 ELSE code[word] - todo
      BY <2>2, <2>7 DEF Measures, Growing
    <2>11. g[h] = IF todo = 1 THEN code[word] - 1 ELSE 0
      BY <2>8, <2>10 DEF OfKids, Kids, Leaf
    <2>12. g[left] = IF todo = 1 THEN 0 ELSE code[word] - todo
      BY <2>5, <2>8, <2>10
    <2>13. todo \in 1..code[word] /\ code[word] # Plain
      BY <1>w, <2>2 DEF CallInv
    <2>14. OfKids(g, cur, word)' = 1 + Larger(g[left], g[h])
      <3>1. Kids(cur, word)' = {left, h}
        BY <2>1, <2>2, <2>13, InputFixed DEF Kids, Node
      <3> QED
        BY <2>1, <3>1 DEF OfKids, Node
    <2>15. OfKids(g, cur, word)' = code[word] - (todo - 1)
      BY <1>w, <2>11, <2>12, <2>13, <2>14 DEF Larger
    <2>16. Measures(g)'
      BY <2>2, <2>8, <2>9, <2>15, InputFixed DEF Measures, Growing
    <2> QED
      BY <2>16
  <1>4. CASE PushInstr
    <2> DEFINE o == Instr(word, cur, 0)
    <2>1. PICK h : Push(o, InstrSize, h)
      BY <1>4 DEF PushInstr
    <2>2. pc = "push" /\ pc' \in {"decode", "end"} /\ UNCHANGED input
      BY <1>4 DEF PushInstr
    <2>3. Pushed(o, InstrSize, h) /\ ~oom
      BY <2>1, PushFacts DEF Pushed, Missed
    <2>4. /\ o.word = word /\ o.kind = "instr" /\ o.expr = cur
          /\ KidsOf(o) = Kids(cur, word)
      BY DEF KidsOf, Kids, Instr
    <2>5. Siblings(KidsOf(o), o.word) /\ Forest
      BY <2>2, <2>3, <2>4 DEF TreeInv, Growing
    <2>6. PICK f : Measures(f)
      BY <2>3 DEF HeightInv
    <2>7. PICK g : /\ g \in [DOMAIN mem' -> Nat]
                   /\ Heights(g)'
                   /\ \A k \in DOMAIN mem : g[k] = f[k]
                   /\ g[h] = OfKids(f, cur, word)
      BY <2>2, <2>3, <2>4, <2>5, <2>6, HeightPush
    <2>8. g[h] = code[word]
      <3>1. todo = 0
        BY <2>2 DEF CallInv
      <3> QED
        BY <1>w, <2>2, <2>6, <2>7, <3>1 DEF Measures, Growing
    <2>9. \A k \in DOMAIN mem' : mem'[k].kind = "instr" => g[k] = code'[mem'[k].word]
      BY <2>2, <2>3, <2>4, <2>6, <2>7, <2>8, InputFixed DEF Pushed, Measures
    <2>10. Measures(g)'
      BY <2>2, <2>7, <2>9 DEF Measures, Growing
    <2> QED
      BY <2>10
  <1>5. CASE Fault
    BY <1>5, <1>s DEF Fault, pool, call, Growing
  <1>6. CASE EndOfBuffer
    <2>1. CASE ret = Invalid \/ ~bits
      BY <1>5, <1>6, <2>1 DEF EndOfBuffer
    <2>2. CASE ~(ret = Invalid \/ ~bits)
      BY <1>6, <1>s, <2>2 DEF EndOfBuffer, pool, Growing
    <2> QED
      BY <2>1, <2>2
  <1>7. CASE LinkNext
    <2> DEFINE h == stack[Len(stack)]
    <2>1. CASE h = Invalid \/ ~bits
      BY <1>5, <1>7, <2>1 DEF LinkNext
    <2>2. CASE ~(h = Invalid \/ ~bits)
      <3>1. /\ stack # << >> /\ pc = "return"
            /\ mem' = [mem EXCEPT ![h].next = ret]
            /\ UNCHANGED <<input, pc, oom>>
        BY <1>7, <2>2 DEF LinkNext
      <3>2. Linked(h)
        BY <2>2, <3>1, LinkFacts
      <3>3. PICK f : Measures(f)
        BY <3>1 DEF HeightInv
      <3>4. DOMAIN mem' = DOMAIN mem
        BY <3>2 DEF Linked
      <3>5. ASSUME NEW k \in DOMAIN mem
            PROVE  /\ ExprAt(k)' = ExprAt(k)
                   /\ mem'[k].kind = mem[k].kind
                   /\ mem'[k].word = mem[k].word
        <4>1. CASE k = h
          <5>1. /\ mem[h].kind = "instr" /\ mem'[h].kind = "instr"
                /\ mem'[h].word = mem[h].word /\ mem'[h].expr = mem[h].expr
            BY <3>2 DEF Linked, Instr, Instrs
          <5> QED
            BY <4>1, <5>1 DEF ExprAt
        <4>2. CASE k # h
          BY <3>2, <4>2 DEF Linked, ExprAt
        <4> QED
          BY <4>1, <4>2
      <3>6. Heights(f)'
        <4>1. \A k \in DOMAIN mem : f[k] = OfKids(f, ExprAt(k), mem[k].word)
          BY <3>3 DEF Measures, Heights
        <4>2. \A k \in DOMAIN mem : f[k] = OfKids(f, ExprAt(k), mem[k].word)'
          BY <3>1, <3>5, <4>1, InputFixed DEF OfKids, Kids
        <4> QED
          BY <3>3, <3>4, <4>2 DEF Measures, Heights
      <3>7. Measures(f)'
        BY <3>1, <3>3, <3>4, <3>5, <3>6, InputFixed DEF Measures, Growing
      <3> QED
        BY <3>7
    <2> QED
      BY <2>1, <2>2
  <1>8. CASE Finish
    BY <1>8, <1>s DEF Finish, pool, call, Growing
  <1>9. CASE UNCHANGED vars
    BY <1>9, <1>s DEF vars, pool, call, Growing
  <1>10. CASE PushAborts
    BY <1>10, <1>s DEF PushAborts, pool, call, Growing
  <1> QED
    BY <1>1, <1>2, <1>3, <1>4, <1>5, <1>6, <1>7, <1>8, <1>9, <1>10 DEF Next, PushStrays

LEMMA UnwoundStep == Unwound /\ [Next]_vars => Unwound'
  BY DEF Unwound, Next, vars, call, DecodeWord, PushLeft, PushRight, PushInstr, PushStrays,
         PushAborts, EndOfBuffer, LinkNext, Finish, Fault

(* In a forest the equation of Height has at most one solution, so f is Height. *)
LEMMA HeightIs ==
  ASSUME TypeOK, Forest, NEW f, Heights(f)
  PROVE  Height = f
  <1> DEFINE P(g) == g = [h \in DOMAIN mem |->
                            IF Children(h) = {} THEN 0
                            ELSE 1 + Larger(g[ExprAt(h).left], g[ExprAt(h).right])]
  <1>1. \A g : P(g) <=> Heights(g)
    BY DEF Heights, OfKids, Kids, Children
  <1>2. Heights(Height)
    <2>1. Height = CHOOSE g : P(g)
      BY DEF Height, Larger
    <2>2. P(CHOOSE g : P(g))
      <3>1. P(f)
        BY <1>1
      <3> HIDE DEF P
      <3> QED
        BY <3>1
    <2> QED
      BY <1>1, <2>1, <2>2
  <1> HIDE DEF P
  <1>3. \A h \in DOMAIN mem : Height[h] = f[h]
    <2> DEFINE T == {h \in DOMAIN mem : Height[h] # f[h]}
    <2> SUFFICES ASSUME T # {}
                 PROVE  FALSE
      OBVIOUS
    <2>1. T \in SUBSET Nat
      BY DEF TypeOK
    <2>2. PICK h \in T : \A k \in T : h <= k
      BY <2>1, Least
    <2>3. ASSUME NEW c \in Children(h)
          PROVE  Height[c] = f[c]
      <3>1. c \in DOMAIN mem /\ c < h
        BY <2>3 DEF Forest, Siblings, ExprHandles
      <3>2. c \in Nat /\ h \in Nat
        BY <2>1, <3>1 DEF TypeOK
      <3> QED
        BY <2>2, <3>1, <3>2
    <2>4. \A g : Heights(g) => g[h] = IF Children(h) = {} THEN 0
                                    ELSE 1 + Larger(g[ExprAt(h).left], g[ExprAt(h).right])
      BY DEF Heights, OfKids, Kids, Children
    <2>5. Children(h) # {} => ExprAt(h).left \in Children(h) /\ ExprAt(h).right \in Children(h)
      BY DEF Children
    <2>6. Height[h] = f[h]
      <3>1. CASE Children(h) = {}
        BY <1>2, <2>4, <3>1
      <3>2. CASE Children(h) # {}
        <4>1. /\ Height[ExprAt(h).left] = f[ExprAt(h).left]
              /\ Height[ExprAt(h).right] = f[ExprAt(h).right]
          BY <2>3, <2>5, <3>2
        <4> QED
          BY <1>2, <2>4, <3>2, <4>1
      <3> QED
        BY <3>1, <3>2
    <2> QED
      BY <2>6
  <1> QED
    BY <1>2, <1>3 DEF Heights

(* When imlgen is done, Chain takes the instructions of the words in their order. *)
LEMMA ChainIs ==
  ASSUME TypeOK, CallInv, ListInv, Unwound, status = "done", ~oom
  PROVE  \A w \in Words : Chain[w] \in InstrOf(w)
  <1>1. pc = "return" /\ word = 0 /\ size \in Sizes
    BY DEF Unwound, CallInv, TypeOK
  <1>2. /\ InstrOf(0) = {ret}
        /\ \A w \in Words : \E h \in InstrOf(w) : InstrOf(w) = {h} /\ GoesOn(h, w)
    <2>1. \A w \in Words : w >= 0
      BY <1>1, WordFacts
    <2> QED
      BY <1>1, <2>1 DEF ListInv
  <1>3. \A w \in Words : /\ w \in Nat
                         /\ w # 0 => w - 1 \in Words /\ w - 1 \in Nat /\ w - 1 + 1 = w
    BY <1>1, SizeFacts DEF Words
  <1> DEFINE P(g) == g = [w \in Words |-> IF w = 0 THEN ret ELSE mem[g[w - 1]].next]
             F == [w \in Words |-> CHOOSE h : h \in InstrOf(w)]
  <1>4. \A w \in Words : InstrOf(w) = {F[w]}
    <2> TAKE w \in Words
    <2>1. PICK h : InstrOf(w) = {h}
      BY <1>2
    <2> QED
      BY <2>1
  <1>5. \A w \in Words : \A h : w # 0 /\ h \in InstrOf(w - 1) => mem[h].next \in InstrOf(w)
    BY <1>2, <1>3 DEF GoesOn
  <1>6. P(F)
    <2>1. \A w \in Words : F[w] = IF w = 0 THEN ret ELSE mem[F[w - 1]].next
      <3> TAKE w \in Words
      <3>1. CASE w = 0
        BY <1>2, <1>4, <3>1
      <3>2. CASE w # 0
        BY <1>3, <1>4, <1>5, <3>2
      <3> QED
        BY <3>1, <3>2
    <2> QED
      BY <2>1
  <1>7. P(Chain)
    <2>1. Chain = CHOOSE g : P(g)
      BY DEF Chain
    <2> HIDE DEF P
    <2> QED
      BY <1>6, <2>1
  <1>8. \A w \in Words : Chain[w] = IF w = 0 THEN ret ELSE mem[Chain[w - 1]].next
    <2> HIDE DEF F
    <2> QED
      BY <1>7
  <1> HIDE DEF P, F
  <1> DEFINE T == {w \in Words : Chain[w] \notin InstrOf(w)}
  <1> SUFFICES ASSUME T # {}
               PROVE  FALSE
    OBVIOUS
  <1>9. T \in SUBSET Nat
    BY <1>3
  <1>10. PICK w \in T : \A v \in T : w <= v
    BY <1>9, Least
  <1>11. w # 0
    BY <1>2, <1>8
  <1>12. w - 1 \in Words /\ w - 1 \notin T
    BY <1>3, <1>10, <1>11
  <1> QED
    BY <1>5, <1>8, <1>11, <1>12

(* What a reader of the IML gets from a run that has ended. *)
Translates == (status = "done" /\ ~oom) => /\ Listing = code
                                          /\ \A w \in DOMAIN code : code[w] \in Plain..MaxNesting

LEMMA ListingIsCode ==
  TypeOK /\ CallInv /\ TreeInv /\ ListInv /\ HeightInv /\ Unwound => Translates
  <1> SUFFICES ASSUME TypeOK, CallInv, TreeInv, ListInv, HeightInv, Unwound,
                      status = "done", ~oom
               PROVE  Listing = code /\ \A w \in DOMAIN code : code[w] \in Plain..MaxNesting
    BY DEF Translates
  <1>1. PICK f : Measures(f)
    BY DEF HeightInv
  <1>2. Height = f
    BY <1>1, HeightIs DEF TreeInv, Measures
  <1>3. ASSUME NEW w \in Words
        PROVE  Height[Chain[w]] = code[w] /\ code[w] \in Plain..MaxNesting
    <2>1. Chain[w] \in InstrOf(w)
      BY ChainIs
    <2> QED
      BY <1>1, <1>2, <2>1 DEF InstrOf, Measures, CallInv
  <1>4. code \in [Words -> Kinds]
    BY DEF TypeOK
  <1> QED
    BY <1>3, <1>4 DEF Listing

(* imlgen implements Translation (iml.cxx:12-60): a run that ends, without a     *)
(* failed allocation, ends with the listing of the whole program, each word     *)
(* with the tree the decoder made of it, for every program and any nesting.    *)
THEOREM ImlgenTranslates == Spec => TranslationSpec
  <1>1. Init => Translated!Init
    BY DEF Init, Translated!Init
  <1>2. Spec => [](TypeOK /\ CallInv /\ TreeInv /\ ListInv /\ HeightInv /\ Unwound)
    BY TypeInit, TypeStep, CallInit, CallStep, FaultInit, FaultStep, TreeInit, TreeStep,
       ListInit, ListStep, HeightInit, HeightStep, UnwoundStep, PTL DEF Spec
  <1>3. Spec => []Translates
    BY <1>2, ListingIsCode, PTL
  <1> DEFINE out == IF status = "done" /\ ~oom THEN Listing ELSE [w \in {} |-> 0]
  <1>4. Translates /\ Translates' /\ [Next]_vars => [Translated!Finish]_<<code, out>>
    <2> SUFFICES ASSUME Translates, Translates', [Next]_vars
                 PROVE  [Translated!Finish]_<<code, out>>
      OBVIOUS
    <2>1. UNCHANGED code
      BY DEF Next, vars, input, DecodeWord, PushLeft, PushRight, PushInstr, PushStrays,
             PushAborts, EndOfBuffer, LinkNext, Finish, Fault
    <2>2. CASE status = "done"
      <3>1. UNCHANGED <<status, oom>>
        BY <2>2 DEF Next, vars, pool, DecodeWord, PushLeft, PushRight, PushInstr,
                    PushStrays, PushAborts, EndOfBuffer, LinkNext, Finish
      <3>2. UNCHANGED out
        BY <2>1, <2>2, <3>1 DEF Translates
      <3> QED
        BY <2>1, <3>2
    <2>3. CASE status # "done" /\ (status' # "done" \/ oom')
      BY <2>1, <2>3
    <2>4. CASE status # "done" /\ status' = "done" /\ ~oom'
      <3>1. out = [w \in {} |-> 0]
        BY <2>4
      <3>2. out' = code /\ \A w \in DOMAIN code : code[w] \in Plain..MaxNesting
        BY <2>1, <2>4 DEF Translates
      <3> QED
        BY <2>1, <3>1, <3>2 DEF Translated!Finish
    <2> QED
      BY <2>2, <2>3, <2>4
  <1> QED
    BY <1>1, <1>2, <1>3, <1>4, PTL DEF Spec, TranslationSpec, Translated!Spec
=============================================================================

# Koshka: TLA+ models, model checking and proofs

Koshka is a work-in-progress recompiler from ARMv8-A to x86-64. `koshka <file>`
loads raw ARM code or the executable section of an ELF file, decodes it word by
word and builds an intermediate representation (IML): instructions with
expression trees, kept in one growing memory pool and linked by handles. A
register allocator for the x86 side is written and not called yet; the stages
"shatter" and "codegen" exist only in the readme.

Everything runs on one thread, and nothing is persisted. What is hard here is
the bookkeeping of state that outlives a call: handles that have to survive
reallocation, expressions built inside out, a list linked on the way back from
a recursion, a table whose meaning depends on what callers were told before,
sums in 32 bits, allocations whose failure is noticed late or never, records
that outlive what they record, and bit fields whose reserved values must not get
through.

This directory holds TLA+ modules that model that bookkeeping, the TLC
configurations that check them, and TLAPS proofs for arbitrary constants.

## 1. Inventory

| Component | State | Operations | Hard behaviour | Correct when |
|---|---|---|---|---|
| Memory pool (`pool.c/.h`) | `data`, `alloc_size`, `pos` of each `pool_t` | open, close, push, getdata, drain, empty | reallocation under live handles; u32 sums; calloc failing in open (unnoticed) and in push (reported) | a handle refers to the same bytes for its whole life; reservations never overlap; free space is zero |
| IML generator (`imlgen/iml.cxx/.hxx`) | the `program`: IML pool, ARM pool, `decoded_instrs`, `entry_point`; the C stack of `imlgen_recurse` | `imlgen`, `imlgen_recurse`, the two `expression` constructors | handles held across pushes and across the recursion; linking on the way back; partial last word; every allocation failing | the finished list has the IML of each word in program order, with intact trees; it ends |
| ARM decoder (`imlgen/decode.cxx`) | none of its own; pushes expressions into the pool | `decode` and one function per encoding class | bit fields, reserved encodings, values that do not fit, expressions wrapped in each other | the IML means what the word means, or the word is rejected |
| Encoding tables (`imlgen/arm_encoding.c/.h`) | constant tables | lookup by masked bits | first match wins, masks narrower than the field | each word finds its class, whatever the order of the entries |
| ASL functions (`arm_asl.c`, `bitmanip.h`) | none | `HighestBitSet`, `ROR`, `DecodeBitMasks` | a u8 loop counter that is always >= 0; shifts by the width | the mask of the ARM manual, and an end for every input |
| Bit set (`boolset.cxx`) | byte buffer and its size | get, set, set range, set all, destroy | bit order in bytes, a u8 end position, partial bytes | exactly the asked positions change |
| Register allocator (`regalloc.c`) | static `taken_gp` and `full` | `reg_alloc`, `reg_reset` | the table is all it knows of what callers were told; running out, resetting | a register once given stays given, to one ARM register only |
| Virtual memory (`os/vmem.c`) | table of 1024 allocation records, `next_buf` | alloc, free, map, unmap | stale records of reused addresses, no bound, failed allocations recorded | memory in use is memory handed out and not released |
| NRO loader (`os/nro.c`), ELF loader (`elf.c`) | a `FILE`, buffers | `nro_load`, `file_is_elf`, `load_elf` | early returns, unchecked reads, one of several allocations failing | what is opened is closed, the section returned is the first with code, sizes are those of the buffers |
| Entry program (`main.cxx`) | locals | chooses a loader, calls `imlgen` | s64 size passed as u32; a failed check taken for an answer | `imlgen` gets the code of the file and no more |
| Guest register file (`armv8.h`) | type definitions | none | | |
| ELF structures (`lib/elf_structure.h`) | vendored declarations | none | | |

How they interact: `main` calls a loader and passes the buffer to `imlgen`.
`imlgen` opens the IML pool and the bit set, and `imlgen_recurse` calls
`decode`, which looks the word up in the encoding tables and constructs
expressions; the constructors and `imlgen_recurse` itself push into the pool,
and hand handles to each other by value. `decode` calls `DecodeBitMasks` for
logical immediates. `nro_load` uses the virtual memory helpers; nobody frees
what it allocates.

`PROJECT.json` lists each hazard at its line, and the properties aimed at it.

## 2. Modules

| Module | Models | Role |
|---|---|---|
| `HandleStore` | `pool.h`'s promise | abstract: a map from fresh handles to contents |
| `Pool` | `pool.c` | detailed; implements `HandleStore` |
| `PoolProofs` | | proofs about `Pool` |
| `Translation` | what `imlgen` is for | abstract: a listing appears in one step, or never |
| `ImlGen` | `iml.cxx`, and what `decode.cxx` pushes | detailed; implements `Translation`, and uses its objects as a `HandleStore` |
| `RegMap` | `regalloc.h`'s promise | abstract: a partial injective map and a flag |
| `RegAlloc` | `regalloc.c` | detailed; implements `RegMap` |
| `RegAllocProofs` | | proofs about `RegAlloc` |
| `BoolSet` | `boolset.cxx` | detailed |
| `ArmAsl` | `arm_asl.c` | detailed, against a reference mask |
| `ArmEncoding` | `arm_encoding.c/.h`, the field macros of `bitmanip.h` | tables and lookups, as operators |
| `Decoder` | `decode.cxx`, the `expression` constructors | detailed; composes `ArmEncoding` and `ArmAsl`, against the A64 meaning of the words |
| `Vmem` | `os/vmem.c`, over malloc and mmap | detailed; its operations are actions of `Loader` |
| `Loader` | `main.cxx`, `elf.c`, `os/nro.c` | detailed; extends `Vmem` |
| `LoaderProofs` | | proofs about `Loader` and `Vmem` |
| `ImlGenProofs`, `BoolSetProofs`, `ArmAslProofs` | | proofs about the module each is named after |
| `DecoderProofs` | | proofs about `Decoder` and `ArmEncoding`, over those about `ArmAsl` |
| `Numbers` | | arithmetic the proofs share: least elements, division, powers of two |
| `MCPool`, `MCImlGen`, `MCRegAlloc`, `MCBoolSet`, `MCArmAsl`, `MCDecoder`, `MCLoader` | | instances for TLC |

In every detailed module an action is one call (Pool, RegAlloc, BoolSet) or one
stretch of a call between two pushes (ImlGen), one round of a loop (ArmAsl), one
decode function (Decoder) or one stretch between two fallible calls (Loader).
Operators whose names start with
`Bug` are mutated forms of the definition that follows them. No specification
uses them; they exist to show that each property can fail, and they are listed
under "mutants" in `PROJECT.json`.

### Pool

`alloc_size` and `pos` are the struct's fields. `cap` and `buf` are the heap
block behind `data`, cell by cell; `cap` is 0 when `data` is NULL, which
`pool_open` leaves together with a nonzero `alloc_size` when calloc fails.
`stored` is a ghost: what each client stored under its handle, and how much room
it asked for. `pool_push` has four outcomes, one action each: there is room, the
buffer grows, calloc fails (`POOL_INVALID_HANDLE`), the assertion on the new
size fails. `ClientWrite` is a client writing through `pool_getdata`. All sums
are modulo `SizeMod` (2^32 in C). The new size is a double converted back to
u32; when it does not fit, C leaves the result undefined and the model lets it
be any value. A push whose reservation leaves the block, or a copy through NULL,
sets `status` to "overrun" and nothing follows.

`pool_close` also runs on a pool that was never opened; `pool_open` only on one
that owns no buffer, as opening an open pool would leak it. A reservation
smaller than the data breaks the contract of `pool_push` and is not modelled.

### ImlGen

`stack` holds the handles of the suspended `imlgen_recurse` calls, `pc` and
`word` are those of the running one. `code` says what the decoder makes of each
word; it is chosen freely in `Init` and never changes. A word can be plain (an
instruction without expressions), of kind n > 0 (n nested binary expressions,
each pushed by the constructor as a left and a right operand), rejected (an
assertion in the decoder), or endless (see below). `mem` maps handles to
objects; an object's handle is the value of `pos` at its push, so the layout is
that of the code. The growth arithmetic is kept whole, in u32 (`SizeMod`) and with
the same undefined conversion as in `Pool`: it decides when a push may fail
(`NotStored`), when the assertion on the new size stops the program
(`PushAborts`) and when the object goes past the end of the buffer
(`PushStrays`, which is also the copy through NULL). `FirstSize` is the product
`iml.cxx:51` hands to `pool_open`, a size_t cut to u32. Operand values are left
out. `oom` and `overread` are ghosts.

`FaultsExplained` names the circumstances of every fault, abort and overread.
`Outgrown` is the one the arithmetic adds: the push needs a larger buffer, and
one half larger has a size that does not fit u32.

Endless words are logical immediates with N = 0 and imms = 63. For them
`DecodeBitMasks` calls `HighestBitSet(0)`, whose loop `for (u8 i = 63; i >= 0;
i--)` has a condition that is always true (`arm_asl.c:8`). The counter wraps and
the shift is wider than its operand, which is undefined; the model has both
outcomes the build can produce, the assertion that follows and no end at all.

### RegAlloc

`taken_gp` and `full` are the static variables. `given` and `wasReset` are
ghosts: the answers callers hold, and whether `reg_reset` was ever called. The
table stores the ARM register plus one, 0 for free, and 0xFF in the two reserved
slots until the first `reg_reset`. `ReservedForCounterparts` is the comment of the
table, in full: RSP goes to none but SP, RBP to none but X29.

### BoolSet

`buf` has one set per byte: its bits that are 1, numbered from the least
significant, as the bit macros number them. Positions count from the most
significant bit, and `BitPos` converts. Writing past the buffer sets `status` to
"fault", the destructor to "freed". Callers of `set_bit` stay inside the set here;
`ImlGen` has the calls that do not, and the failed calloc. `set_bit` takes either
value and ignores it, as the code does; `SetBitExact` says what is true of it,
that setting sets and that no other position changes, and nothing about what a
call with false leaves at its own position.

### ArmAsl

A u64 is the set of its one bits. `pc` walks through the three loops of
`DecodeBitMasks`: "scan" is HighestBitSet counting its u8 index `i` down,
"rotate" is ROR, "repeat" the doubling. Reading a bit past the width is
undefined and may give either value. The reference `Mask(t)` says directly which
positions have a one after t rotations.

### ArmEncoding and Decoder

A word is the set of the positions of its one bits, and so are the masks and
patterns of the tables, which are laid out as in the C file. The lookups are
operators. Each `decode_...` function that builds an instruction is an action of
`Decoder`; the classes the code only logs are `DecodeUnimplemented`, which
returns the zeroed `decode_result`, and a zeroed result reads as an addition of
handles 0 and 0 to register 0. `decode_logical_imm` takes several steps:
`DecodeLogicalImm` up to its call, the actions of `ArmAsl` (an INSTANCE over the
same variables) for the call, `MaskReturned` or `MaskRejected`.

`pool` has only the expressions this word pushed, with handles counted from 0;
what the pool makes of handles is `Pool`'s matter. `TreeComplete` is the link to
`ImlGen`, which assumes that a word pushes nothing or nested pairs of operands,
at most three. The operation and the operands of an expression are kept; `kind`
is a ghost, as the code does not write the tag of binary expressions.

Two references stand beside the code: `Class`, the fixed bits of the A64
encoding classes, against the table walk; and `LogicalRight` and
`AddSubOperandsRight`, which evaluate the decoded tree over register files and
compare it with the A64 instruction stated bit by bit. A64 itself is not in the
repository; the source names it as its reference in each function.

`Reserved` is the words the code's assertions are there to stop, the additions
with shift type 0b11 among them (`InvalidShift`, for `decode.cxx:277`).
`StopsWhenReserved` says that no other word is stopped, and that of these none gets
through but an addition with an invalid shift type that does not shift too far as
well (`LongShift`). It would hold, too, if that assertion worked.

What these properties leave out is known to be wrong and not said to be right
anywhere: register 31 as stack pointer in an immediate addition (`decode.cxx:123`
reads it as 0), the tree of an addition with a reserved shift type (the immediate
form has no assertion for its own), masks above bit 31 and the sense of bit 30
(the two violation runs).

### Vmem and Loader

Addresses count half pages, so that a heap block may or may not start on a page
boundary, which is what makes `munmap` act on it. `blocks` and `mapped` are the
process's memory; malloc and mmap may return any place that is free, including
one just released, or fail. `held` is a ghost: what callers got and have not given
back. `health` leaves "ok" when something goes wrong, and `excuses` collects
the four circumstances `vmem_free` does not cope with, judged before the call:
the first record with the address is not the one of this allocation, a heap
block is on a page boundary, the table is full, or NULL is freed and the first
record with that address is of a failed allocation large enough to reach memory.
NULL is address 0 and on a page boundary, so that `munmap(NULL, n)` unmaps what
lies below n; memory starts at `Lowest`, as a process has none at 0. What else
lies in that range in a real process, its own text for one, is outside the
model. `MemoryIsHeld` says that without these circumstances memory in use is
exactly memory held. That is weaker than what one would ask of an allocator, and
as much as is true of this one.

`Loader` has two kinds of caller. "main" follows `main.cxx` once; "other" is a
program that uses the headers in any order, for as long as it likes, which is how
records get reused and files add up. Files are records of what the code
looks at, and of what it does not look at though its reads depend on it: the class,
the encoding and the number of sections. The header is read as a little-endian
one whatever its encoding is, so `MachineRead` is the machine's number backwards for the
other; no number elf_structure.h knows is that of AArch64 backwards, which is
proved (`NoMachineMirrors`) and is why a big-endian file is never taken. `HeadersRead` is the table `load_elf`
walks: the file's own, an empty one if the file has so many sections
(`SHN_LORESERVE`) that the header's count is 0, and anything at all (`misread`) for a
32-bit file, which is read through the 64-bit layout. `CodeRight` claims the first
code section, and that the end of the table means there is none, for the files
that can be read; for the others it claims only that sizes are consistent. `file_is_elf` never closes its file, so `open` grows until `OpenMax`;
from then on every fopen fails, which is modelled, and `file_is_elf` answers
false for an ELF file, which `main` then loads as raw code. `lost` counts the one
path of `nro_load` that leaves its file open. `fread` may return less than
asked for and nobody looks; `whole` on sections and buffers records it.

## 3. Runs

| Run | Checks | Shows |
|---|---|---|
| `pool` | `TypeOK`, `HandlesStable`, `ReservationsTile`, `FreeCellsZero`, `OverrunOnlyPastLimit`, `EmptyIffNoHandles`, `StoreSpec` | the pool keeps its promises through growth, drains, failed allocations and wrapping sums |
| `imlgen` | `TypeOK`, `TreesSound`, `ListingSuffix`, `MarkedAreLinked`, `FaultsExplained`, `TranslationSpec`, `ObjectsSpec`, `Terminates` | the IML is well formed at every moment of the recursion, reads back as the program, and the recursion ends |
| `regalloc` | `TypeOK`, `TableMatchesAnswers`, `NoGaps`, `ReservedUntilReset`, `GivesUpWhenUsed`, `MapSpec` | the table agrees with what callers were told, whatever the order of calls and resets |
| `boolset` | `TypeOK`, `SetBitExact`, `RangeOneWay`, `RangeInBounds` | setting a bit sets it and no call on one bit changes another; ranges stay in the buffer while their end fits a u8 |
| `armasl` | `TypeOK`, `MaskIsRight`, `StrayBitsAgree`, `StopsWhenReserved`, `Terminates` | `DecodeBitMasks` returns the mask its fields encode, rejects exactly the reserved encodings, and ends unless it scans 0 |
| `decoder` | `TypeOK`, `GroupsRight`, `TreeComplete`, `LogicalRight`, `AddSubOperandsRight`, `StopsWhenReserved` | each word reaches the function of its class, pushes one complete tree, logical instructions and the operands of additions mean what A64 says, only reserved words are stopped, and all of them but the additions with shift type 0b11 |
| `loader` | `TypeOK`, `MemoryIsHeld`, `FilesAccounted`, `CodeRight` | what memory and files are in use is accounted for through any failures and any order of calls, and `imlgen` gets the right code with a size that is no larger than the buffer |
| `imlgen_entry` | `EntryPointIsFirst`, violated | `entry_point` stays 0; handle 0 is an expression when the first word has one |
| `regalloc_reserved` | `ReservedForCounterparts`, violated | after `reg_reset` RSP and RBP are given out like any other |
| `armasl_empty` | `EmptyPatternCaught`, violated | `HighestBitSet(0)` need not return, so the assertion on its result never runs |
| `decoder_mask` | `MaskAtFullWidth`, violated | a 64-bit mask loses its upper half in a u32 |
| `decoder_addsub` | `AddsWhenAdd`, violated | additions are decoded as subtractions and the reverse |

The last five are disagreements between the code and its own comments and test
programs, quoted in `PROJECT.json` under "findings". The passing runs describe
what does hold nevertheless: `ReservedUntilReset` is the comment of the register
allocator's table until the first reset, `LogicalRight` covers the low half of
the masks.

Six smaller disagreements have no run of their own; the models contain the
behaviour, and a passing property says what is left:

- a trailing partial word is decoded as well, from bytes past the buffer
  (`iml.cxx:23`); `FaultsExplained` says when a read leaves the buffer;
- `reg_alloc` answers -1 while R14 and R15 are open, as 14 counts registers and
  bounds an index (`regalloc.c:29`, against `regalloc.h:32-33`);
  `GivesUpWhenUsed` is about the slots it does scan;
- `set_range` sets other positions than the ones asked for (`boolset.cxx:91`);
  `RangeOneWay` says that it never moves a bit against its value;
- `set_bit` never looks at its value (`boolset.cxx:34`, against "apply the new
  value" two lines above), so it cannot clear a bit; `SetBitExact` claims nothing
  of clearing but that other positions stay;
- SP and X29 get the next free slot like any other register, against "Mapped to
  SP/R31" and "Mapped to X29" (`regalloc.h:16-17`) and "reserved for their ARM
  counterparts" (`regalloc.c:15-16`); when no slot is open, RSP or RBP is marked as
  theirs, but the answer is -1 all the same. `ReservedForCounterparts` says that
  nobody else gets these two, not that their counterparts do;
- the assertion "Invalid shift type!" (`decode.cxx:277`) never fires on one, as it
  compares an operation of the IML with the field's value; `StopsWhenReserved`
  names the words that get through.

Bounds, and why they are enough:

- `pool`: `SizeMod` 16, opens of 0 and 4 cells, data of 2 and 3 cells,
  reservations of 0 (same as data) and 5. The pool starts empty or small, grows
  two or three times, meets the exact fit, wraps both sums, and comes to sizes
  whose product with 1.5 does not fit. Two data values tell handles apart; they
  are interchangeable, so they are a symmetry set.
- `imlgen`: buffers of 3, 4, 8, 10 and 12 bytes (below a word, one to three
  words, with and without a partial last word), up to three nested expressions
  per word, which is the most `decode.cxx` builds (Rn op NOT(Rm LSL i)). Three
  words give a first, a middle and a last call. `ExprSize` 1, `InstrSize` 2 and
  `SizeMod` 24: the initial pool, one instruction per word, is too small once a
  word has expressions, as in the code; it grows up to three times; and the
  longest programs come to where the product with 1.5 no longer fits, so that
  the limit of u32 is met both by programs that still end and by programs
  that abort or stray.
- `regalloc`: four scanned slots of six, two reserved, five ARM registers with
  X29 and SP among them. The slots run out before and after a reset, and every
  slot is in turn free, claimed and last.
- `boolset`: bytes of two bits, sets of 1, 4 and 7 bits, and three values for
  `end_pos`, so that positions get past it. Every byte has a first and a last
  bit, and the largest set has a first, inner and last byte.

- `armasl`: the real width, every one of the 8192 arguments. This run is
  exhaustive.

- `decoder`: bits 21 to 31, on which all dispatch depends but for bit 11 (and
  bit 10 to 15 and 22 of a mask), in all 2048 combinations; Rm a register or 31,
  shift lengths and `imms` at 0, 3, 33, 62 and 63 (below, at and past 32, bit 11
  clear and set, the endless scan), Rn a register or 31, Rd 0. About 41,000
  words; `armasl` has the remaining masks. Two register files, without symmetry and
  with ones in the top bits, tell shifts, rotations and negations apart.
- `loader`: three records, six half pages of memory (a page with two blocks, room for
  reuse, a mapping of more than one page) above a page without any, so that of the
  two sizes of allocations, one and three half pages, the larger reaches memory
  from address 0; two mappings by `vmem_map` at once (`MaxViews`), which leave no
  record; two open files, u32 of 16 and s64 of 31 values, so that sizes lie below a
  word, below, at and above the range of u32, and above that of s64;
  `SHN_LORESERVE` is 3 and one file has as many sections; every machine number of
  elf_structure.h comes in either encoding, every section type with the flag for
  code and every flag alone; two files are 32-bit. A table of three
  records is filled, and every record reused, within four calls.

Deadlock is checked for `regalloc`, where a call is always possible. The programs
of `imlgen`, `armasl`, `decoder` and `loader` end, and `pool` and `boolset` stop at a
status that has no defined continuation.

Fairness: `ImlGen` and `ArmAsl` assume weak fairness of their next-state
relations: one thread runs and nothing in it waits. The others model calls a client may
stop making, and have safety properties only. `Terminates` leaves out programs
with an endless word; `MCImlGen` still explores them.

## 4. Proofs

TLAPS proves the following for all values of the constants that satisfy the
assumptions of the module. TLC checked each inductive invariant on the run's
instance before it was proved.

**Pool** (`PoolAssumption`: sizes are below `SizeMod`, data sizes are not 0,
the zero byte is not a client value). `TypeCorrect`, `HandlesStay`, `NoOverlap`,
`FreeSpaceZeroed`, `NoOverrun` and `EmptyIsNoHandles` are the six invariants of
the run; `PoolIsStore` is the refinement of `HandleStore`. None of the
invariants is inductive alone. `IInv` adds `BlockOK`: `pos` is at most `cap`,
`cap` is `alloc_size` or 0, and no client's data is longer than its
reservation. Then `HandlesStable` needs the tiling (a push at `pos` touches no older
reservation), the tiling needs `BlockOK`, and the zero tail of a new reservation
needs `FreeCellsZero`. The step proof has one part per action. The refinement
maps an opened, drained or closed pool to the empty store, and shows that a push
adds exactly one handle while a move to another block is invisible.

**ImlGen** (`ImlGenAssumption`: objects are not empty and their sizes fit u32;
any set of buffer sizes in u32 but 0, at which an assertion stops `imlgen`, and
the last three, for which `pos + 4` wraps; any depth of nesting). Five invariants and two refinements.
- `CallInv` describes the recursion: as many calls are suspended as words have been
  read, what each of them holds is an instruction of its word, and `code` allowed
  what the running one is building. Types and linking rest on it.
- `OnlyExplainedFaults` adds `FaultInv`: the handle a call returns is missing only
  after a failed allocation, so `LinkNext` writes into an instruction unless
  one failed; and `pos` has not passed the end of the buffer, so that the sums of
  a push that is not `Outgrown` do not wrap.
- `ExpressionsAreTrees` adds `TreeInv`. The trees finished so far are disjoint, and
  in addition the children of the expression in `cur`, which is not in the pool yet,
  have no parent; otherwise the push of `cur` could give them a second one. Between
  the pushes of a left and a right operand this splits into cases for `left`.
- `ListedInOrder` and `MarksAreResolvable` add `ListInv`: a word before the running one
  has one instruction, held by its suspended call, words after it have none on
  the way in, and on the way back each goes on to the next.
- `UsesTheHandleStore` is the refinement of `HandleStore`: each push adds one
  object and each link changes one.
- `ImlgenTranslates` is the refinement of `Translation`. `Listing` reads the
  finished pool with two recursive functions. TLA+ defines such a function
  by CHOOSE, so what it returns has to be proved to exist: `HeightInv` carries
  along a function that satisfies the equation of `Height` and has the values of
  `code` at instructions, each push extends it, and two functions that satisfy
  the equation are equal because children are older than parents and a set of
  handles on which they differed would have a least element.

**ArmAsl** (`ArmAslAssumption`: masks of 2^LenBits bits, an index that counts past
the width). `MaskReturned`, `StrayOnesAreRight`, `StopsExactlyReserved` and
`TypeCorrect` are the invariants of the run, here for every width. `MaskInv`
follows the three loops: the scan has not passed a one it looks for; after t
rounds of ROR the pattern is right in its element and never has a one that the
mask rotated t times has not (`Turning`); a doubling moves the exact part up.
Stray ones are harmless for the second half of that invariant alone, which
is why it is part of it.

**Decoder** (`DecoderAssumption`: words have 32 bits, register files are register
files, the index counts past 64). All six invariants of the run, for all 2^32
words and all register contents, where the run has about 41,000 words and two
register files. `DecodeInv` says what is known of the word at each step, with
`MaskInv` of `ArmAsl` while `DecodeBitMasks` runs. `Answered`, its main part, states
for each class the tree that the function of this class leaves.
- `WordsReachTheirClass`: the tables are walked symbolically; the bits that the
  masks select decide the class.
- `TreesAreComplete` and `TypeCorrect` follow from the shape of the three trees a word
  can have (flat, one operand nested, two nested).
- `LogicalTreesAreRight` and `AddSubOperandsAreRight`: `ValueAt` is recursive as well,
  and exists by the same argument. `Apply` is then taken bit by bit; a shift by
  the number in a field is a move of bit positions, for which `Number`, a fold over
  the bits of the field, is bounded and split by digits.

**RegAlloc** (`RegAllocAssumption`: the two reserved slots differ and are
scanned, ARM register numbers are at most 32). `TypeCorrect`, `TableIsRight`,
`FilledFromBottom`, `ReservedAtFirst` and `NotEarly` are the invariants of the
run, `AllocatorIsMap` the refinement of `RegMap`. The point of the argument is
that the scan, which stops at a free slot, finds an existing claim: by `NoGaps`
no claim lies above a free slot, and by `TableMatchesAnswers` marks and answers
correspond one to one, so `reg_alloc` can neither give a register a second slot
nor a slot to a second register. Both hold only until the table is full, which
is why they are conditional; after that no slot is given until the reset.

**BoolSet** (`BoolSetAssumption`: bytes and sets are not empty). `TypeCorrect` and
the three action properties. `BitsAreIndependent` rests on position and (byte,
bit) determining each other; `CheckedRangesStayInside` on the two checks of
`set_range` bounding the last byte it touches if its number fits `end_pos`.

**Loader** (`LoaderAssumption`: the files given are files, allocation sizes are
numbers, a u32 is not wider than an s64; `VmemAssumption`: the table and the
address space are not empty, and memory starts on a page boundary above 0). All four invariants of the run, for every set of
files, any number of sections, records and addresses, and every limit.
`NoFileForgotten` and `RightCode` are `FilesAccounted` and `CodeRight`. Neither says
anything of the steps in between, so neither is inductive.
`FilesInv` adds how many files each function has open at each of its steps;
`CallerInv` and `RawInv` which steps each caller reaches, and that a raw load of
an ELF file happens only when `file_is_elf` could not open it, which no
step changes afterwards; `BufferInv` that the sections passed over in the table
read had no code, so that the one found is its first, and its end means there is
none. `FileFacts` ties the table read to the file's own.
`OnlyHeldMemoryInUse` is `MemoryIsHeld`. `VmemInv` adds that what is held does not
overlap (a heap block has its bytes to itself, a mapping its pages), that each
allocation still held has a record with its address, and that records past
`next_buf` have no address, so that only NULL finds one; what freeing NULL unmaps, if
anything, is the fourth excuse. It is
kept by the four operations of `vmem.h` in any order (`VmemStep`), and
`LoaderUsesVmem` shows that the loaders do nothing else to memory. The absence of
excuses is used exactly where a release would otherwise take the wrong record
or a neighbour's page.

Two things make proofs possible that one would expect to be out of reach.
Induction over numbers is used in the form "a nonempty set of numbers has a
least element" (`Least` and `Induct` in `Numbers`, from the library's
theorem that < is well founded), which quantifies over sets where the library's own
induction rule has an operator as a parameter. Powers of two are
defined recursively in the standard modules and opaque to the provers; `Numbers`
gets their arithmetic from the library's theorem on the number of subsets.

Only model-checked:

- `Terminates` of `ImlGen` and `ArmAsl`: liveness under fairness, which the prover
  used here does not cover;
- the five violated properties, for which there is nothing to prove;
- that some run reaches a state at all (for that there are the mutants, the
  violated properties and TLC's coverage).

## 5. Not modelled

- Of the decoder: what a later stage would do with an instruction, as none
  exists. `decode_movw` logs and returns nothing, so it is part of
  `DecodeUnimplemented`. `ld_str_get_group` is declared and not defined.
- The contents of files: bytes of code, and header fields nothing depends on
  (`e_type`, `e_shentsize`; `mod0_offset` and the `MOD0` magic are
  read by `nro_load` and used for nothing). Offsets are sought without looking
  at the result; a wrong one shows as a section that is not `whole`.
- The Windows branches of `vmem.c`.
- Depth of the C stack in `imlgen_recurse`, a limit of the host.
- Most of `lib/elf_structure.h`: 4491 lines of vendored declarations, of which
  the program uses three structs' worth and a handful of constants. They are more
  than two thirds of the repository's lines.
- The guest registers of `armv8.h` as state: nothing runs guest code yet. They
  are the values (`RegFiles`) for which decoded expressions are evaluated, and of
  these only r0 to r30 occur in an expression.
- Copies of a bit set, which has a destructor and no copy constructor
  (`boolset.hxx:14-15`): `imlgen` returns its program by value, and the one copy
  that could be made is left out by every usual build.
- The assembly test inputs, the build; "shatter" and "codegen" are not written.

## 6. Plan

Done: all components with code are modelled, and each invariant, action property
and refinement of a passing run is proved. To come:

1. What the proofs could say beyond the runs' properties: that the classes of
   words `decode` only logs are exactly those of the tables without a function,
   and the widths of the register and immediate fields.
2. Proofs that compose: `Pool` under `ImlGen`'s calls, so that `ObjectsSpec` and
   `StoreSpec` meet in one statement about bytes.
3. Shorter proofs where `DecoderProofs` treats like classes one by one.

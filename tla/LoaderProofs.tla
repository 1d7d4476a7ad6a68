---------------------------- MODULE LoaderProofs ----------------------------
(***************************************************************************)
(* The loaders account for the files they open and give imlgen the right   *)
(* code, and memory in use is memory handed out, for all files, table and  *)
(* address space sizes and integer widths.                                 *)
(***************************************************************************)
EXTENDS Loader, Numbers

-----------------------------------------------------------------------------
(* Files. *)

(* Who has a file open, at every step and not only between calls. *)
FilesInv ==
    /\ open \in [Openers -> Int]
    /\ lost \in Int
    /\ open["load_elf"] = IF pc = "elf_loop" THEN 1 ELSE 0
    /\ open["nro_load"] = lost + (IF pc \in {"nro_text", "nro_dest"} THEN 1 ELSE 0)

LEMMA FilesInit == Init => FilesInv
  <1> SUFFICES ASSUME Init PROVE FilesInv
    OBVIOUS
  <1>1. pc \in {"main", "idle"}
    BY DEF Init
  <1> QED
    BY <1>1 DEF Init, FilesInv, Openers

(* The steps that open and close nothing and are in no loader. *)
LEMMA FilesStepOutside ==
  ASSUME FilesInv,
         UNCHANGED <<open, lost>>,
         pc \notin {"elf_loop", "nro_text", "nro_dest"},
         pc' \notin {"elf_loop", "nro_text", "nro_dest"}
  PROVE  FilesInv'
  BY DEF FilesInv

LEMMA FilesStep == FilesInv /\ [Next]_vars => FilesInv'
  <1> SUFFICES ASSUME FilesInv, [Next]_vars
               PROVE  FilesInv'
    OBVIOUS
  <1> USE DEF At, Goto, Return
  <1>1. CASE CallLoader
    BY <1>1, FilesStepOutside DEF CallLoader
  <1>2. CASE CallAlloc \/ CallFree \/ CallMap \/ CallUnmap
    BY <1>2 DEF CallAlloc, CallFree, CallMap, CallUnmap, loader, FilesInv
  <1>3. CASE Main
    BY <1>3, FilesStepOutside DEF Main
  <1>4. CASE NroOpen
    BY <1>4 DEF NroOpen, Opened, FilesInv, Openers
  <1>5. CASE NroText
    BY <1>5 DEF NroText, FilesInv
  <1>6. CASE NroDest
    BY <1>6 DEF NroDest, fclose, FilesInv, Openers
  <1>7. CASE FileIsElf
    BY <1>7 DEF FileIsElf, Opened, FilesInv, Openers
  <1>8. CASE ElfOpen
    BY <1>8 DEF ElfOpen, Opened, FilesInv, Openers
  <1>9. CASE ElfSection \/ ElfNoCode
    BY <1>9 DEF ElfSection, ElfNoCode, fclose, FilesInv, Openers
  <1>10. CASE ElfDone
    BY <1>10, FilesStepOutside DEF ElfDone
  <1>11. CASE RawLoad \/ Imlgen
    BY <1>11, FilesStepOutside DEF RawLoad, Imlgen
  <1>12. CASE UNCHANGED vars
    BY <1>12 DEF vars, loader, FilesInv
  <1> QED
    BY <1>1, <1>2, <1>3, <1>4, <1>5, <1>6, <1>7, <1>8, <1>9, <1>10, <1>11, <1>12 DEF Next

(* Between calls nothing load_elf opened is open, and of what nro_load opened    *)
(* only the files of the calls that found no room for .text (elf.c, nro.c).    *)
THEOREM NoFileForgotten == Spec => []FilesAccounted
  <1>1. FilesInv => FilesAccounted
    BY DEF FilesInv, FilesAccounted, Ended
  <1> QED
    BY <1>1, FilesInit, FilesStep, PTL DEF Spec
-----------------------------------------------------------------------------
(* Code. *)

(* The other caller never sees main's steps, and main is never idle. *)
CallerInv ==
    /\ file \in File
    /\ caller \in {"main", "other"}
    /\ caller = "main" => pc # "idle"
    /\ caller = "other" => pc \notin {"main", "raw", "imlgen"} \cup Ended

(* main has opened nothing before it asks whether the file is ELF, and takes an  *)
(* ELF file for raw code only if that could not be opened.                    *)
RawInv ==
    /\ caller = "main" /\ pc \in {"main", "file_is_elf"} => open["file_is_elf"] = 0
    /\ pc = "raw" /\ file.elf => open["file_is_elf"] = 0

(* Section n + 1 is the first of load_elf's file that it does not skip. *)
FirstCode(n) ==
    /\ Accepted(file)
    /\ n \in Nat /\ n < Len(HeadersRead(file))
    /\ IsCode(HeadersRead(file)[n + 1])
    /\ \A k \in 1..n : ~IsCode(HeadersRead(file)[k])

(* Where there may be a buffer, and where it came from. *)
BufferInv ==
    /\ arm_buf = NoBuffer \/ pc \in {"elf_done", "imlgen"} \cup Ended
    /\ pc = "elf_loop" =>
          /\ Accepted(file)
          /\ i \in Nat /\ i <= Len(HeadersRead(file))
          /\ \A k \in 1..i : ~IsCode(HeadersRead(file)[k])
    /\ arm_buf # NoBuffer =>
          /\ arm_buf.size \in Nat \ {0}
          /\ \/ arm_buf.from = NoSection /\ pc # "elf_done"
                /\ (file.elf => open["file_is_elf"] = 0)
             \/ /\ FirstCode(arm_buf.from)
                /\ arm_buf.size = HeadersRead(file)[arm_buf.from + 1].sh_size
    /\ pc = "imlgen" => arm_buf # NoBuffer
    /\ pc = "abort" => arm_buf # NoBuffer /\ Argument(arm_buf.size) = 0

CodeInv == CallerInv /\ RawInv /\ BufferInv

(* imlgen's u32 is never more than the size, and 0 only from 2^32 on. *)
LEMMA ArgumentFacts ==
  ASSUME NEW s \in Nat
  PROVE  /\ Argument(s) \in Nat
         /\ Argument(s) <= s
         /\ Argument(s) = 0 /\ s > 0 => s >= U32
  BY LoaderAssumption DEF Argument

(* The comparison of load_elf on s64 in terms of the u64 it was made from. *)
LEMMA CodeSize ==
  ASSUME NEW s \in Elf64_Shdr
  PROVE  IsCode(s) <=> /\ s.sh_type = SHT_PROGBITS
                       /\ SHF_EXECINSTR \in s.sh_flags
                       /\ s.sh_size \in 4..S64Max
  BY LoaderAssumption DEF IsCode, Signed, Elf64_Shdr, Elf64_Xword

(* The table load_elf walks is a sequence of headers, the file's own when it can *)
(* be read.                                                                   *)
LEMMA FileFacts ==
  ASSUME NEW f \in File
  PROVE  /\ HeadersRead(f) \in Seq(Elf64_Shdr)
         /\ Len(HeadersRead(f)) \in Nat
         /\ \A n \in 1..Len(HeadersRead(f)) : HeadersRead(f)[n] \in Elf64_Shdr
         /\ Readable(f) => HeadersRead(f) = f.sections
         /\ f.size \in Nat
  <1>1. /\ f.sections \in Seq(Elf64_Shdr) /\ f.misread \in Seq(Elf64_Shdr)
        /\ f.size \in Nat
    BY LoaderAssumption DEF File, MisreadTables
  <1>2. Readable(f) => HeadersRead(f) = f.sections
    BY DEF HeadersRead
  <1>3. <<>> \in Seq(Elf64_Shdr)
    OBVIOUS
  <1>4. HeadersRead(f) \in Seq(Elf64_Shdr)
    BY <1>1, <1>3, Zenon DEF HeadersRead
  <1> QED
    BY <1>1, <1>2, <1>4

LEMMA NoFileIsFile == NoFile \in File
  BY LoaderAssumption DEF NoFile, RawFile, File, MisreadTables, Machines, EM_NUM, ReservedMachines,
     Classes, Encodings

(* Read backwards, no machine's number is that of AArch64: load_elf takes no     *)
(* big-endian file for one of its own.                                        *)
LEMMA NoMachineMirrors ==
  ASSUME NEW f \in File, Accepted(f)
  PROVE  f.elf /\ f.data = ELFDATA2LSB /\ f.e_machine = EM_AARCH64
  <1>1. f.e_machine \in Machines
    BY DEF File
  <1>2. Swapped(f.e_machine) # EM_AARCH64
    <2>1. ASSUME NEW m \in Nat, Swapped(m) = 183
          PROVE  m = 46848
      <3> DEFINE q == m \div 256
                 r == m % 256
      <3>1. q \in Nat /\ r \in 0..255 /\ m = 256 * q + r
        BY DivModNat
      <3>2. r * 256 + q = 183
        BY <2>1 DEF Swapped
      <3> HIDE DEF q, r
      <3> QED
        BY <3>1, <3>2
    <2>2. 46848 \notin Machines /\ \A m \in Machines : m \in Nat
      BY DEF Machines, EM_NUM, UnofficialMachines
    <2> QED
      BY <1>1, <2>1, <2>2 DEF EM_AARCH64
  <1> QED
    BY <1>2 DEF Accepted, MachineRead

LEMMA CodeInit == Init => CodeInv
  <1> SUFFICES ASSUME Init PROVE CodeInv
    OBVIOUS
  <1>1. CallerInv
    BY NoFileIsFile, LoaderAssumption DEF Init, CallerInv, Ended
  <1>2. RawInv
    BY DEF Init, RawInv, Openers
  <1>3. BufferInv
    BY DEF Init, BufferInv
  <1> QED
    BY <1>1, <1>2, <1>3 DEF CodeInv

LEMMA CallerStep == CodeInv /\ [Next]_vars => CallerInv'
  <1> SUFFICES ASSUME CodeInv, [Next]_vars
               PROVE  CallerInv'
    OBVIOUS
  <1> USE DEF At, Goto, Return, Ended
  <1>1. CASE CallLoader
    BY <1>1, LoaderAssumption DEF CodeInv, CallerInv, CallLoader
  <1>2. CASE CallAlloc \/ CallFree \/ CallMap \/ CallUnmap \/ UNCHANGED vars
    BY <1>2 DEF CallAlloc, CallFree, CallMap, CallUnmap, vars, loader, CodeInv, CallerInv
  <1>3. CASE Main \/ RawLoad \/ Imlgen
    BY <1>3 DEF Main, RawLoad, Imlgen, CodeInv, CallerInv
  <1>4. CASE NroOpen \/ NroText \/ NroDest
    BY <1>4, NoFileIsFile DEF NroOpen, NroText, NroDest, CodeInv, CallerInv
  <1>5. CASE FileIsElf
    BY <1>5, NoFileIsFile DEF FileIsElf, CodeInv, CallerInv
  <1>6. CASE ElfOpen \/ ElfSection \/ ElfNoCode
    BY <1>6 DEF ElfOpen, ElfSection, ElfNoCode, CodeInv, CallerInv
  <1>7. CASE ElfDone
    BY <1>7, NoFileIsFile DEF ElfDone, CodeInv, CallerInv
  <1> QED
    BY <1>1, <1>2, <1>3, <1>4, <1>5, <1>6, <1>7 DEF Next

LEMMA RawStep == FilesInv /\ CodeInv /\ [Next]_vars => RawInv'
  <1> SUFFICES ASSUME FilesInv, CodeInv, [Next]_vars
               PROVE  RawInv'
    OBVIOUS
  <1> USE DEF At, Goto, Return, Ended
  <1>1. CASE CallLoader
    BY <1>1 DEF CodeInv, CallerInv, RawInv, CallLoader
  <1>2. CASE CallAlloc \/ CallFree \/ CallMap \/ CallUnmap \/ UNCHANGED vars
    BY <1>2 DEF CallAlloc, CallFree, CallMap, CallUnmap, vars, loader, CodeInv, RawInv
  <1>3. CASE Main \/ RawLoad \/ Imlgen
    BY <1>3 DEF Main, RawLoad, Imlgen, CodeInv, CallerInv, RawInv
  <1>4. CASE NroOpen \/ NroText \/ NroDest
    BY <1>4 DEF NroOpen, NroText, NroDest, CodeInv, RawInv
  <1>5. CASE FileIsElf
    BY <1>5 DEF FileIsElf, CodeInv, RawInv
  <1>6. CASE ElfOpen \/ ElfSection \/ ElfNoCode \/ ElfDone
    BY <1>6 DEF ElfOpen, ElfSection, ElfNoCode, ElfDone, CodeInv, RawInv
  <1> QED
    BY <1>1, <1>2, <1>3, <1>4, <1>5, <1>6 DEF Next

LEMMA BufferStep == FilesInv /\ CodeInv /\ [Next]_vars => BufferInv'
  <1> SUFFICES ASSUME FilesInv, CodeInv, [Next]_vars
               PROVE  BufferInv'
    OBVIOUS
  <1> USE DEF At, Goto, Return, Ended
  <1>0. file \in File
    BY DEF CodeInv, CallerInv
  <1>1. CASE CallLoader
    BY <1>1 DEF CodeInv, BufferInv, CallLoader
  <1>2. CASE CallAlloc \/ CallFree \/ CallMap \/ CallUnmap \/ UNCHANGED vars
    BY <1>2 DEF CallAlloc, CallFree, CallMap, CallUnmap, vars, loader, CodeInv, BufferInv, FirstCode
  <1>3. CASE Main
    BY <1>3 DEF Main, CodeInv, BufferInv
  <1>4. CASE NroOpen \/ NroText \/ NroDest
    BY <1>4 DEF NroOpen, NroText, NroDest, CodeInv, BufferInv
  <1>5. CASE FileIsElf
    BY <1>5 DEF FileIsElf, CodeInv, BufferInv
  <1>6. CASE ElfOpen
    BY <1>0, <1>6, FileFacts DEF ElfOpen, BufferInv
  <1>7. CASE ElfSection
    <2> DEFINE s == HeadersRead(file)[i + 1]
    <2>1. /\ pc = "elf_loop" /\ i \in Nat /\ i < Len(HeadersRead(file)) /\ file' = file
          /\ Accepted(file)
          /\ arm_buf = NoBuffer
          /\ \A k \in 1..i : ~IsCode(HeadersRead(file)[k])
      BY <1>7 DEF ElfSection, CodeInv, BufferInv
    <2>2. s \in Elf64_Shdr
      BY <1>0, <2>1, FileFacts
    <2>3. CASE ~IsCode(s)
      <3>1. pc' = "elf_loop" /\ i' = i + 1 /\ arm_buf' = NoBuffer
        BY <1>7, <2>1, <2>3 DEF ElfSection
      <3>2. i' \in Nat /\ i' <= Len(HeadersRead(file))
        BY <1>0, <2>1, <3>1, FileFacts
      <3>3. \A k \in 1..i' : ~IsCode(HeadersRead(file)[k])
        BY <2>1, <2>3, <3>1
      <3> QED
        BY <2>1, <3>1, <3>2, <3>3 DEF BufferInv
    <2>4. CASE IsCode(s) /\ arm_buf' = NoBuffer
      <3>1. pc' = "elf_done"
        BY <1>7, <2>4 DEF ElfSection
      <3> QED
        BY <2>4, <3>1 DEF BufferInv
    <2>5. CASE IsCode(s) /\ arm_buf' = Buffer(i, s.sh_size, s.whole)
      <3>1. s.sh_size \in Nat \ {0}
        BY <2>2, <2>5, CodeSize, LoaderAssumption
      <3>2. FirstCode(i)'
        BY <1>7, <2>1, <2>5 DEF ElfSection, FirstCode
      <3>3. pc' = "elf_done" /\ arm_buf'.size = s.sh_size /\ arm_buf'.from = i /\ i' = i
        BY <1>7, <2>5 DEF ElfSection, Buffer
      <3> QED
        BY <2>1, <3>1, <3>2, <3>3 DEF BufferInv
    <2> QED
      BY <1>7, <2>1, <2>3, <2>4, <2>5 DEF ElfSection
  <1>8. CASE ElfNoCode
    BY <1>8 DEF ElfNoCode, CodeInv, BufferInv
  <1>9. CASE ElfDone
    BY <1>9 DEF ElfDone, CodeInv, BufferInv, FirstCode
  <1>10. CASE RawLoad
    <2>1. arm_buf = NoBuffer /\ open' = open /\ file' = file /\ pc = "raw"
      BY <1>10 DEF RawLoad, CodeInv, BufferInv
    <2>2. CASE pc' = "failure" /\ arm_buf' = arm_buf
      BY <2>1, <2>2 DEF BufferInv
    <2>3. CASE pc' = "imlgen" /\ arm_buf' = Buffer(NoSection, file.size, TRUE) /\ file.size >= 1
      <3>1. arm_buf'.size \in Nat \ {0} /\ arm_buf'.from = NoSection
        BY <1>0, <2>3, FileFacts DEF Buffer
      <3>2. arm_buf' # NoBuffer
        BY <3>1 DEF NoBuffer, Buffer
      <3>3. file'.elf => open'["file_is_elf"] = 0
        BY <2>1 DEF CodeInv, RawInv
      <3> QED
        BY <2>3, <3>1, <3>2, <3>3 DEF BufferInv
    <2> QED
      BY <1>10, <2>2, <2>3 DEF RawLoad
  <1>11. CASE Imlgen
    <2>1. arm_buf' = arm_buf /\ file' = file /\ open' = open /\ arm_buf # NoBuffer
          /\ arm_buf.size \in Nat \ {0} /\ pc = "imlgen" /\ pc' \in {"success", "abort"}
      BY <1>11 DEF Imlgen, CodeInv, BufferInv
    <2>2. pc' = "abort" => Argument(arm_buf.size) = 0
      BY <1>11, <2>1, ArgumentFacts DEF Imlgen
    <2> QED
      BY <2>1, <2>2 DEF CodeInv, BufferInv, FirstCode
  <1> QED
    BY <1>1, <1>2, <1>3, <1>4, <1>5, <1>6, <1>7, <1>8, <1>9, <1>10, <1>11 DEF Next

LEMMA CodeImplied == CodeInv => CodeRight
  <1> SUFFICES ASSUME CodeInv PROVE CodeRight
    OBVIOUS
  <1>0. file \in File
    BY DEF CodeInv, CallerInv
  <1>1. ASSUME Readable(file)
        PROVE  /\ HeadersRead(file) = file.sections
               /\ DOMAIN file.sections = 1..Len(HeadersRead(file))
               /\ \A n \in DOMAIN file.sections :
                     n \in CodeSections <=> IsCode(HeadersRead(file)[n])
    <2>1. /\ HeadersRead(file) = file.sections
          /\ HeadersRead(file) \in Seq(Elf64_Shdr)
          /\ \A n \in 1..Len(HeadersRead(file)) : HeadersRead(file)[n] \in Elf64_Shdr
      BY <1>0, <1>1, FileFacts
    <2> QED
      BY <2>1, CodeSize DEF CodeSections
  <1>2. ASSUME pc = "elf_done", arm_buf # NoBuffer
        PROVE  LET n == arm_buf.from + 1
               IN  /\ ForAArch64
                   /\ Readable(file) =>
                         /\ n \in CodeSections /\ (\A c \in CodeSections : n <= c)
                         /\ arm_buf.size = file.sections[n].sh_size
    <2>1. FirstCode(arm_buf.from) /\ arm_buf.size = HeadersRead(file)[arm_buf.from + 1].sh_size
      BY <1>2 DEF CodeInv, BufferInv
    <2>2. ASSUME Readable(file)
          PROVE  /\ arm_buf.from + 1 \in CodeSections
                 /\ \A c \in CodeSections : arm_buf.from + 1 <= c
      <3>1. arm_buf.from + 1 \in CodeSections
        BY <1>0, <1>1, <2>1, <2>2, FileFacts DEF FirstCode
      <3>2. \A c \in CodeSections : c \in DOMAIN file.sections
        BY DEF CodeSections
      <3> QED
        BY <1>0, <1>1, <2>1, <2>2, <3>1, <3>2, FileFacts DEF FirstCode
    <2>3. ForAArch64
      BY <1>0, <2>1, NoMachineMirrors DEF FirstCode, ForAArch64
    <2> QED
      BY <1>1, <2>1, <2>2, <2>3
  <1>3. ASSUME pc = "elf_loop", i = Len(HeadersRead(file)), Readable(file)
        PROVE  CodeSections = {}
    <2>1. \A k \in 1..Len(HeadersRead(file)) : ~IsCode(HeadersRead(file)[k])
      BY <1>3 DEF CodeInv, BufferInv
    <2>2. CodeSections \subseteq DOMAIN file.sections
      BY DEF CodeSections
    <2> QED
      BY <1>1, <1>3, <2>1, <2>2
  <1>4. ASSUME pc \in {"imlgen", "success"}, arm_buf # NoBuffer
        PROVE  /\ Argument(arm_buf.size) <= arm_buf.size
               /\ file.elf /\ arm_buf.from = NoSection => open["file_is_elf"] = 0
    BY <1>4, ArgumentFacts DEF CodeInv, BufferInv, FirstCode, NoSection
  <1>5. ASSUME pc = "abort" PROVE arm_buf.size >= U32
    BY <1>5, ArgumentFacts DEF CodeInv, BufferInv
  <1> QED
    BY <1>2, <1>3, <1>4, <1>5 DEF CodeRight

(* load_elf finds the first code section and imlgen gets no more than there is,  *)
(* for every file and every width (main.cxx, elf.c).                          *)
THEOREM RightCode == Spec => []CodeRight
  <1>1. Init => FilesInv /\ CodeInv
    BY FilesInit, CodeInit
  <1>2. FilesInv /\ CodeInv /\ [Next]_vars => FilesInv' /\ CodeInv'
    BY FilesStep, CallerStep, RawStep, BufferStep DEF CodeInv
  <1>3. FilesInv /\ CodeInv => CodeRight
    BY CodeImplied
  <1> QED
    BY <1>1, <1>2, <1>3, PTL DEF Spec
-----------------------------------------------------------------------------
(* Memory. *)

(* What an allocation keeps to itself: its bytes, or its pages. *)
Room(h) ==
    IF FromHeap(h.how) THEN Span(h.ptr, HeapSize(h.size)) ELSE Pages(Span(h.ptr, h.size))

Holding(h) ==
    /\ h.ptr \in Space /\ h.size \in Nat
    /\ h.how \in Permissions \cup {"view"}
    /\ h.ptr \in Room(h) /\ Room(h) \subseteq Space
    /\ ~FromHeap(h.how) => h.ptr % 2 = 0 /\ h.ptr + h.size <= Units

(* What is held shares nothing, and is what is in use. *)
HeldInv ==
    excuses = {} =>
        /\ health = "ok"
        /\ \A g, h \in held : g # h => Room(g) \cap Room(h) = {}
        /\ blocks = {Block(h.ptr, HeapSize(h.size)) : h \in HeldHeap}
        /\ mapped = UNION {Room(h) : h \in held \ HeldHeap}

(* The table finds what is held, and NULL as long as it has room. *)
TableInv ==
    /\ next_buf \in 0..Slots
    /\ \A h \in held : h.how # "view" => \E n \in 0..(next_buf - 1) : buffers[n].ptr = h.ptr
    /\ \A n \in next_buf..(Slots - 1) : buffers[n].ptr = NULL

VmemInv == TypeOKVmem /\ TableInv /\ HeldInv /\ \A h \in held : Holding(h)

(* The calls of vmem.h. *)
VmemNext ==
    \/ Overrun
    \/ \E owner \in {"caller", "nro_load"}, size \in Nat, perm \in Permissions, ptr \in Int :
          vmem_alloc(owner, size, perm, ptr)
    \/ \E size \in Nat, ptr \in Int : vmem_map("caller", size, ptr)
    \/ \E h \in held : vmem_unmap(h)
    \/ \E h \in held : h.how # "view" /\ vmem_free(h.ptr, {h})
    \/ vmem_free(NULL, {})

LEMMA VmemInit == InitVmem => VmemInv
  <1> SUFFICES ASSUME InitVmem PROVE VmemInv
    OBVIOUS
  <1>1. TypeOKVmem
    BY VmemAssumption DEF InitVmem, TypeOKVmem, Permissions
  <1>2. TableInv
    BY VmemAssumption DEF InitVmem, TableInv
  <1>3. HeldInv
    BY DEF InitVmem, HeldInv, HeldHeap
  <1> QED
    BY <1>1, <1>2, <1>3 DEF InitVmem, VmemInv

(* A place that malloc or mmap gives is free and in the address space. *)
LEMMA MallocRoom ==
  ASSUME NEW size \in Nat, NEW ptr \in MallocResults(size), ptr # NULL
  PROVE  /\ ptr \in Space /\ ptr \in Span(ptr, HeapSize(size))
         /\ Span(ptr, HeapSize(size)) \subseteq Space
         /\ Span(ptr, HeapSize(size)) \cap (HeapUnits \cup mapped) = {}
  <1>1. HeapSize(size) \in Nat \ {0}
    BY DEF HeapSize
  <1> QED
    BY <1>1 DEF MallocResults, Span, Space

LEMMA MmapRoom ==
  ASSUME NEW size \in Nat, NEW ptr \in MmapResults(size), ptr # MAP_FAILED
  PROVE  /\ ptr \in Space /\ ptr \in Pages(Span(ptr, size)) /\ ptr % 2 = 0
         /\ ptr + size <= Units
         /\ Pages(Span(ptr, size)) \subseteq Space
         /\ Pages(Span(ptr, size)) \cap (HeapUnits \cup mapped) = {}
  <1>1. /\ ptr \in Space /\ size > 0 /\ ptr % 2 = 0 /\ Span(ptr, size) \subseteq Space
        /\ Pages(Span(ptr, size)) \cap (HeapUnits \cup mapped) = {}
    BY DEF MmapResults
  <1>2. ptr \in Span(ptr, size) /\ ptr + size - 1 \in Span(ptr, size)
    BY <1>1, VmemAssumption DEF Span, Space
  <1>3. ptr + size <= Units
    <2>1. ptr + size - 1 \in Space
      BY <1>1, <1>2
    <2> QED
      BY <1>1, <2>1, VmemAssumption DEF Space
  <1> QED
    BY <1>1, <1>2, <1>3 DEF Pages

(* What is in use is what the holders keep. *)
LEMMA HeldRooms ==
  ASSUME VmemInv, excuses = {}
  PROVE  HeapUnits \cup mapped = UNION {Room(h) : h \in held}
  <1>1. /\ blocks = {Block(h.ptr, HeapSize(h.size)) : h \in HeldHeap}
        /\ mapped = UNION {Room(h) : h \in held \ HeldHeap}
    BY DEF VmemInv, HeldInv
  <1>2. \A h \in HeldHeap : Area(Block(h.ptr, HeapSize(h.size))) = Room(h)
    BY DEF HeldHeap, Area, Block, Room
  <1>3. HeapUnits = UNION {Room(h) : h \in HeldHeap}
    BY <1>1, <1>2 DEF HeapUnits
  <1> QED
    BY <1>1, <1>3 DEF HeldHeap

(* One more holder, of a place that was free. *)
LEMMA HoldKeeps ==
  ASSUME VmemInv, excuses = {}, excuses' = excuses, health' = health,
         NEW e, Room(e) \cap (HeapUnits \cup mapped) = {},
         held' = held \cup {e},
         blocks' = IF FromHeap(e.how) THEN blocks \cup {Block(e.ptr, HeapSize(e.size))}
                   ELSE blocks,
         mapped' = IF FromHeap(e.how) THEN mapped ELSE mapped \cup Room(e)
  PROVE  HeldInv'
  <1>1. \A h \in held : Room(e) \cap Room(h) = {}
    BY HeldRooms
  <1>2. /\ health = "ok"
        /\ \A g, h \in held : g # h => Room(g) \cap Room(h) = {}
        /\ blocks = {Block(h.ptr, HeapSize(h.size)) : h \in HeldHeap}
        /\ mapped = UNION {Room(h) : h \in held \ HeldHeap}
    BY DEF VmemInv, HeldInv
  <1>3. \A g, h \in held' : g # h => Room(g) \cap Room(h) = {}
    BY <1>1, <1>2
  <1>4. CASE FromHeap(e.how)
    <2>1. HeldHeap' = HeldHeap \cup {e} /\ (held \ HeldHeap)' = held \ HeldHeap
      BY <1>4 DEF HeldHeap
    <2> QED
      BY <1>2, <1>3, <1>4, <2>1 DEF HeldInv
  <1>5. CASE ~FromHeap(e.how)
    <2>1. HeldHeap' = HeldHeap /\ (held \ HeldHeap)' = (held \ HeldHeap) \cup {e}
      BY <1>5 DEF HeldHeap
    <2> QED
      BY <1>2, <1>3, <1>5, <2>1 DEF HeldInv
  <1> QED
    BY <1>4, <1>5

(* One holder less, who gives back all of its room. *)
LEMMA DropKeeps ==
  ASSUME VmemInv, excuses = {}, excuses' = excuses, health' = "ok",
         NEW e \in held,
         held' = held \ {e},
         blocks' = IF FromHeap(e.how) THEN blocks \ {Block(e.ptr, HeapSize(e.size))}
                   ELSE blocks,
         mapped' = IF FromHeap(e.how) THEN mapped ELSE mapped \ Room(e)
  PROVE  HeldInv'
  <1>1. /\ \A g, h \in held : g # h => Room(g) \cap Room(h) = {}
        /\ \A h \in held : h.ptr \in Room(h)
        /\ blocks = {Block(h.ptr, HeapSize(h.size)) : h \in HeldHeap}
        /\ mapped = UNION {Room(h) : h \in held \ HeldHeap}
    BY DEF VmemInv, HeldInv, Holding
  <1>2. CASE FromHeap(e.how)
    <2>1. HeldHeap' = HeldHeap \ {e} /\ (held \ HeldHeap)' = held \ HeldHeap
      BY <1>2 DEF HeldHeap
    <2>2. \A h \in HeldHeap \ {e} : Block(h.ptr, HeapSize(h.size)) # Block(e.ptr, HeapSize(e.size))
      <3> SUFFICES ASSUME NEW h \in HeldHeap \ {e}
                   PROVE  h.ptr # e.ptr
        BY DEF Block
      <3>1. h \in held /\ h # e
        BY DEF HeldHeap
      <3> QED
        BY <1>1, <3>1
    <2>3. blocks' = {Block(h.ptr, HeapSize(h.size)) : h \in HeldHeap \ {e}}
      BY <1>1, <1>2, <2>2
    <2> QED
      BY <1>1, <1>2, <2>1, <2>3 DEF HeldInv
  <1>3. CASE ~FromHeap(e.how)
    <2>1. HeldHeap' = HeldHeap /\ (held \ HeldHeap)' = (held \ HeldHeap) \ {e}
      BY <1>3 DEF HeldHeap
    <2>2. \A h \in (held \ HeldHeap) \ {e} : Room(h) \cap Room(e) = {}
      BY <1>1
    <2>3. mapped' = UNION {Room(h) : h \in (held \ HeldHeap) \ {e}}
      BY <1>1, <1>3, <2>2
    <2> QED
      BY <1>1, <1>3, <2>1, <2>3 DEF HeldInv
  <1> QED
    BY <1>2, <1>3

LEMMA AllocKeeps ==
  ASSUME VmemInv, NEW owner, NEW size \in Nat, NEW perm \in Permissions, NEW ptr,
         vmem_alloc(owner, size, perm, ptr)
  PROVE  VmemInv'
  <1> DEFINE e == [owner |-> owner, ptr |-> ptr, size |-> size, how |-> perm]
  <1>1. /\ next_buf < Slots
        /\ ptr \in Results(size, perm)
        /\ buffers' = [buffers EXCEPT ![next_buf] = [ptr |-> ptr, size |-> size, perm |-> perm]]
        /\ next_buf' = next_buf + 1
        /\ UNCHANGED <<health, excuses>>
    BY DEF vmem_alloc
  <1>2. TypeOKVmem /\ TableInv /\ HeldInv /\ \A h \in held : Holding(h)
    BY DEF VmemInv
  <1>3. /\ next_buf \in 0..(Slots - 1) /\ next_buf' \in 0..Slots
        /\ \A n \in 0..(Slots - 1) : n # next_buf => buffers'[n] = buffers[n]
        /\ buffers'[next_buf].ptr = ptr
    <2>1. next_buf \in 0..(Slots - 1) /\ next_buf' \in 0..Slots
      BY <1>1, <1>2, VmemAssumption DEF TableInv
    <2>2. DOMAIN buffers = 0..(Slots - 1)
      BY <1>2 DEF TypeOKVmem
    <2> QED
      BY <1>1, <2>1, <2>2
  <1>4. ptr \in Space \cup {NULL, MAP_FAILED}
    BY <1>1 DEF Results, MallocResults, MmapResults
  <1>5. /\ buffers' \in [0..(Slots - 1) ->
               [ptr : Space \cup {NULL, MAP_FAILED}, size : Nat, perm : Permissions]]
    BY <1>1, <1>2, <1>3, <1>4 DEF TypeOKVmem
  <1>6. \A n \in next_buf'..(Slots - 1) : buffers'[n].ptr = NULL
    BY <1>1, <1>2, <1>3 DEF TableInv
  <1>7. \A n \in 0..(next_buf - 1) : n \in 0..(next_buf' - 1) /\ buffers'[n] = buffers[n]
    BY <1>1, <1>3, VmemAssumption
  <1>8. CASE ptr \in {NULL, MAP_FAILED}
    <2>1. held' = held /\ blocks' = blocks /\ mapped' = mapped
      BY <1>8 DEF vmem_alloc, memory, Hold
    <2>2. TableInv'
      <3>1. \A h \in held' : h.how # "view" => \E n \in 0..(next_buf' - 1) : buffers'[n].ptr = h.ptr
        BY <1>2, <1>7, <2>1 DEF TableInv
      <3> QED
        BY <1>3, <1>6, <3>1 DEF TableInv
    <2>3. TypeOKVmem'
      BY <1>1, <1>2, <1>3, <1>5, <2>1 DEF TypeOKVmem
    <2>4. HeldInv'
      BY <1>1, <1>2, <2>1 DEF HeldInv, HeldHeap
    <2> QED
      BY <1>2, <2>1, <2>2, <2>3, <2>4 DEF VmemInv
  <1>9. CASE ptr \notin {NULL, MAP_FAILED}
    <2>1. /\ held' = held \cup {e}
          /\ blocks' = IF FromHeap(perm) THEN blocks \cup {Block(ptr, HeapSize(size))} ELSE blocks
          /\ mapped' = IF FromHeap(perm) THEN mapped ELSE mapped \cup Pages(Span(ptr, size))
      BY <1>9 DEF vmem_alloc, Hold
    <2>2. Holding(e) /\ Room(e) \cap (HeapUnits \cup mapped) = {}
      <3>1. CASE FromHeap(perm)
        <4>1. ptr \in MallocResults(size) /\ ptr # NULL
          BY <1>1, <1>9, <3>1 DEF Results
        <4> QED
          BY <3>1, <4>1, MallocRoom DEF Holding, Room
      <3>2. CASE ~FromHeap(perm)
        <4>1. ptr \in MmapResults(size) /\ ptr # MAP_FAILED
          BY <1>1, <1>9, <3>2 DEF Results
        <4> QED
          BY <3>2, <4>1, MmapRoom DEF Holding, Room
      <3> QED
        BY <3>1, <3>2
    <2>3. TableInv'
      <3>1. \A h \in held : h.how # "view" => \E n \in 0..(next_buf' - 1) : buffers'[n].ptr = h.ptr
        BY <1>2, <1>7 DEF TableInv
      <3>2. next_buf \in 0..(next_buf' - 1) /\ buffers'[next_buf].ptr = e.ptr
        BY <1>1, <1>3
      <3> QED
        BY <1>3, <1>6, <2>1, <3>1, <3>2 DEF TableInv
    <2>4. TypeOKVmem'
      <3>1. /\ \A b \in blocks' : b.at \in Space /\ Area(b) \subseteq Space
            /\ mapped' \subseteq Space
        <4>1. FromHeap(perm) => Area(Block(ptr, HeapSize(size))) = Room(e)
          BY DEF Area, Block, Room
        <4>2. ~FromHeap(perm) => Pages(Span(ptr, size)) = Room(e)
          BY DEF Room
        <4>3. ptr \in Space /\ Room(e) \subseteq Space
          BY <2>2 DEF Holding
        <4>4. Block(ptr, HeapSize(size)).at = ptr
          BY DEF Block
        <4>5. mapped \subseteq Space /\ \A b \in blocks : b.at \in Space /\ Area(b) \subseteq Space
          BY <1>2 DEF TypeOKVmem
        <4> HIDE DEF e
        <4> QED
          BY <2>1, <4>1, <4>2, <4>3, <4>4, <4>5
      <3> QED
        BY <1>1, <1>2, <1>3, <1>5, <2>1, <2>2, <3>1 DEF TypeOKVmem, Holding
    <2>5. HeldInv'
      <3>1. CASE excuses # {}
        BY <1>1, <3>1 DEF HeldInv
      <3>2. CASE excuses = {}
        <4>1. ~FromHeap(perm) => Pages(Span(ptr, size)) = Room(e)
          BY DEF Room
        <4>2. /\ blocks' = IF FromHeap(e.how)
                           THEN blocks \cup {Block(e.ptr, HeapSize(e.size))} ELSE blocks
              /\ mapped' = IF FromHeap(e.how) THEN mapped ELSE mapped \cup Room(e)
          BY <2>1, <4>1
        <4> HIDE DEF e
        <4> QED
          BY <1>1, <2>1, <2>2, <3>2, <4>2, HoldKeeps
      <3> QED
        BY <3>1, <3>2
    <2> QED
      BY <1>2, <2>1, <2>2, <2>3, <2>4, <2>5 DEF VmemInv
  <1> QED
    BY <1>8, <1>9

LEMMA MapKeeps ==
  ASSUME VmemInv, NEW size \in Nat, NEW ptr, vmem_map("caller", size, ptr)
  PROVE  VmemInv'
  <1> DEFINE e == [owner |-> "caller", ptr |-> ptr, size |-> size, how |-> "view"]
  <1>1. /\ ptr \in MmapResults(size)
        /\ UNCHANGED <<buffers, next_buf, blocks, health, excuses>>
    BY DEF vmem_map
  <1>2. TypeOKVmem /\ TableInv /\ HeldInv /\ \A h \in held : Holding(h)
    BY DEF VmemInv
  <1>3. CASE ptr \in {NULL, MAP_FAILED}
    <2>1. held' = held /\ mapped' = mapped
      <3>1. NULL \notin Space /\ MAP_FAILED # NULL
        BY VmemAssumption DEF NULL, MAP_FAILED, Space
      <3>2. ptr = MAP_FAILED
        BY <1>1, <1>3, <3>1 DEF MmapResults
      <3> QED
        BY <1>3, <3>2 DEF vmem_map, Hold
    <2> QED
      BY <1>1, <1>2, <2>1 DEF VmemInv, TypeOKVmem, TableInv, HeldInv, HeldHeap
  <1>4. CASE ptr \notin {NULL, MAP_FAILED}
    <2>1. ~FromHeap(e.how) /\ e.how \in Permissions \cup {"view"}
      BY DEF FromHeap, MEM_R, MEM_RW
    <2>2. Room(e) = Pages(Span(ptr, size))
      BY <2>1 DEF Room
    <2>3. held' = held \cup {e} /\ mapped' = mapped \cup Room(e)
      BY <1>4, <2>2 DEF vmem_map, Hold
    <2>4. Holding(e) /\ Room(e) \cap (HeapUnits \cup mapped) = {}
      BY <1>1, <1>4, <2>1, <2>2, MmapRoom DEF Holding
    <2>5. e.how = "view" /\ e.ptr \in Space /\ Room(e) \subseteq Space
      BY <2>4 DEF Holding
    <2> HIDE DEF e
    <2>6. HeldInv'
      <3>1. excuses = {} => HeldInv'
        BY <1>1, <2>1, <2>3, <2>4, HoldKeeps
      <3> QED
        BY <1>1, <3>1 DEF HeldInv
    <2>7. TableInv'
      BY <1>1, <1>2, <2>3, <2>5 DEF TableInv
    <2>8. TypeOKVmem'
      BY <1>1, <1>2, <2>1, <2>3, <2>5 DEF TypeOKVmem
    <2> QED
      BY <1>2, <2>3, <2>4, <2>6, <2>7, <2>8 DEF VmemInv
  <1> QED
    BY <1>3, <1>4

(* The pages munmap takes from a holder of pages are its room. *)
LEMMA UnmapRoom ==
  ASSUME NEW h, Holding(h), ~FromHeap(h.how)
  PROVE  Unmapped(h.ptr, h.size) = Room(h)
  BY DEF Holding, Unmapped, Room

LEMMA UnmapKeeps ==
  ASSUME VmemInv, NEW h \in held, vmem_unmap(h)
  PROVE  VmemInv'
  <1>1. /\ h.how = "view"
        /\ mapped' = mapped \ Unmapped(h.ptr, h.size)
        /\ held' = held \ {h}
        /\ UNCHANGED <<buffers, next_buf, blocks, health, excuses>>
    BY DEF vmem_unmap
  <1>2. TypeOKVmem /\ TableInv /\ HeldInv /\ \A g \in held : Holding(g)
    BY DEF VmemInv
  <1>3. ~FromHeap(h.how)
    BY <1>1 DEF FromHeap, MEM_R, MEM_RW
  <1>4. mapped' = mapped \ Room(h)
    BY <1>1, <1>2, <1>3, UnmapRoom
  <1>5. HeldInv'
    <2>1. excuses = {} => health' = "ok"
      BY <1>1, <1>2 DEF HeldInv
    <2>2. excuses = {} => HeldInv'
      BY <1>1, <1>3, <1>4, <2>1, DropKeeps
    <2> QED
      BY <1>1, <2>2 DEF HeldInv
  <1>6. TypeOKVmem' /\ TableInv'
    BY <1>1, <1>2 DEF TypeOKVmem, TableInv
  <1> QED
    BY <1>1, <1>2, <1>5, <1>6 DEF VmemInv

(* free and munmap give back the room of what is held, unless there is an       *)
(* excuse.                                                                    *)
LEMMA ReleaseKeeps ==
  ASSUME VmemInv, NEW h \in held, h.how # "view", NEW record,
         Release(h.ptr, record, {h}), excuses' = {}
  PROVE  HeldInv'
  <1> DEFINE freed == {b \in blocks : b.at = h.ptr /\ Frees(record)}
             gone == Unmapped(h.ptr, record.size)
             rest == blocks \ freed
  <1>1. /\ health' = CASE Frees(record) /\ h.ptr # NULL /\ freed = {} -> "bad free"
                       [] \E b \in rest : Area(b) \cap gone # {} -> "heap unmapped"
                       [] OTHER -> "ok"
        /\ blocks' = rest /\ mapped' = mapped \ gone /\ held' = held \ {h}
        /\ UNCHANGED <<buffers, next_buf>>
    BY DEF Release
  <1>2. excuses = {}
    BY DEF Release
  <1>3. record = [ptr |-> h.ptr, size |-> h.size, perm |-> h.how]
    <2>1. "stale record" \notin excuses'
      OBVIOUS
    <2>2. ~(\E a \in {h} : record # [ptr |-> h.ptr, size |-> a.size, perm |-> a.how])
      BY <2>1 DEF Release
    <2> QED
      BY <2>2
  <1>4. ~(FromHeap(h.how) /\ h.ptr % 2 = 0)
    <2>1. "page boundary" \notin excuses'
      OBVIOUS
    <2>2. ~(\E a \in {h} : FromHeap(a.how) /\ h.ptr % 2 = 0)
      BY <2>1 DEF Release
    <2> QED
      BY <2>2
  <1>5. /\ \A a, b \in held : a # b => Room(a) \cap Room(b) = {}
        /\ \A g \in held : Holding(g)
        /\ blocks = {Block(g.ptr, HeapSize(g.size)) : g \in HeldHeap}
    BY <1>2 DEF VmemInv, HeldInv
  <1>6. CASE FromHeap(h.how)
    <2>1. Frees(record)
      BY <1>3, <1>6 DEF Frees, FromHeap, MEM_R, MEM_RW, MEM_RWX
    <2>2. gone = {}
      BY <1>4, <1>6 DEF Unmapped
    <2>3. freed = {Block(h.ptr, HeapSize(h.size))}
      <3>1. h \in HeldHeap
        BY <1>6 DEF HeldHeap
      <3>2. Block(h.ptr, HeapSize(h.size)) \in freed
        BY <1>5, <2>1, <3>1 DEF Block
      <3>3. ASSUME NEW b \in freed
            PROVE  b = Block(h.ptr, HeapSize(h.size))
        <4>1. PICK g \in HeldHeap : b = Block(g.ptr, HeapSize(g.size))
          BY <1>5
        <4>2. g.ptr = h.ptr /\ g \in held
          BY <4>1 DEF Block, HeldHeap
        <4>3. g.ptr \in Room(g) /\ h.ptr \in Room(h)
          BY <1>5, <4>2 DEF Holding
        <4>4. g = h
          BY <1>5, <4>2, <4>3
        <4> QED
          BY <4>1, <4>4
      <3> HIDE DEF freed
      <3> QED
        BY <3>2, <3>3
    <2>4. health' = "ok"
      BY <1>1, <2>2, <2>3
    <2>5. mapped' = mapped /\ blocks' = blocks \ {Block(h.ptr, HeapSize(h.size))}
      BY <1>1, <2>2, <2>3
    <2> HIDE DEF freed, gone, rest
    <2> QED
      BY <1>1, <1>2, <1>6, <2>4, <2>5, DropKeeps
  <1>7. CASE ~FromHeap(h.how)
    <2>1. ~Frees(record)
      <3>1. h.how = MEM_RWX
        BY <1>5, <1>7 DEF Holding, FromHeap, Permissions
      <3> QED
        BY <1>3, <3>1 DEF Frees
    <2>2. gone = Room(h)
      BY <1>3, <1>5, <1>7, UnmapRoom
    <2>3. freed = {} /\ rest = blocks
      BY <2>1
    <2>4. \A b \in blocks : Area(b) \cap Room(h) = {}
      <3> SUFFICES ASSUME NEW g \in HeldHeap
                   PROVE  Area(Block(g.ptr, HeapSize(g.size))) \cap Room(h) = {}
        BY <1>5
      <3>1. g \in held /\ g # h
        BY <1>7 DEF HeldHeap
      <3>2. Area(Block(g.ptr, HeapSize(g.size))) = Room(g)
        BY DEF HeldHeap, Area, Block, Room
      <3> QED
        BY <1>5, <3>1, <3>2
    <2>5. health' = "ok"
      BY <1>1, <2>1, <2>2, <2>3, <2>4
    <2>6. mapped' = mapped \ Room(h) /\ blocks' = blocks
      BY <1>1, <2>2, <2>3
    <2> HIDE DEF freed, gone, rest
    <2> QED
      BY <1>1, <1>2, <1>7, <2>5, <2>6, DropKeeps
  <1> QED
    BY <1>6, <1>7

(* free(NULL) gives nothing back, and neither does munmap of NULL unless the    *)
(* record found for NULL is of a failed allocation that reaches memory.       *)
LEMMA ReleaseNull ==
  ASSUME VmemInv, NEW record, Release(NULL, record, {}), excuses' = {}
  PROVE  blocks' = blocks /\ mapped' = mapped /\ held' = held /\ health' = "ok"
  <1>1. NULL \notin Space
    BY VmemAssumption DEF NULL, Space
  <1>2. \A b \in blocks : b.at # NULL
    BY <1>1 DEF VmemInv, TypeOKVmem
  <1>3. {b \in blocks : b.at = NULL /\ Frees(record)} = {}
    BY <1>1, <1>2
  <1>4. Unmapped(NULL, record.size) = {}
    <2>1. "failed record" \notin excuses'
      OBVIOUS
    <2> QED
      BY <2>1 DEF Release
  <1> QED
    BY <1>3, <1>4 DEF Release

LEMMA FreeKeeps ==
  ASSUME VmemInv,
         \/ \E h \in held : h.how # "view" /\ vmem_free(h.ptr, {h})
         \/ vmem_free(NULL, {})
  PROVE  VmemInv'
  <1>1. PICK ptr, h : vmem_free(ptr, h) /\
                      \/ \E a \in held : h = {a} /\ ptr = a.ptr /\ a.how # "view"
                      \/ h = {} /\ ptr = NULL
    OBVIOUS
  <1>2. TypeOKVmem /\ TableInv /\ HeldInv /\ \A a \in held : Holding(a)
    BY DEF VmemInv
  <1>3. CASE alloc_by_ptr(ptr) = {}
    <2>1. /\ health' = "fault"
          /\ excuses' = excuses \cup (IF next_buf = Slots THEN {"full"} ELSE {})
          /\ UNCHANGED <<buffers, next_buf, memory, held>>
      BY <1>1, <1>3 DEF vmem_free
    <2>2. \A n \in 0..(Slots - 1) : buffers[n].ptr # ptr
      BY <1>2, <1>3 DEF alloc_by_ptr, TypeOKVmem
    <2>3. next_buf = Slots
      <3>1. ~(\E a \in held : ptr = a.ptr /\ a.how # "view")
        <4> SUFFICES ASSUME NEW a \in held, ptr = a.ptr, a.how # "view"
                     PROVE  FALSE
          OBVIOUS
        <4>1. PICK n \in 0..(next_buf - 1) : buffers[n].ptr = a.ptr
          BY <1>2 DEF TableInv
        <4>2. n \in 0..(Slots - 1)
          BY <1>2, VmemAssumption DEF TableInv
        <4> QED
          BY <2>2, <4>1, <4>2
      <3>2. ptr = NULL
        BY <1>1, <3>1
      <3>3. next_buf # Slots => next_buf \in next_buf..(Slots - 1) /\ next_buf \in 0..(Slots - 1)
        BY <1>2, VmemAssumption DEF TableInv
      <3> QED
        BY <1>2, <2>2, <3>2, <3>3 DEF TableInv
    <2> QED
      BY <1>2, <2>1, <2>3 DEF VmemInv, TypeOKVmem, TableInv, HeldInv, memory
  <1>4. CASE alloc_by_ptr(ptr) # {}
    <2>1. PICK record : Release(ptr, record, h)
      BY <1>1, <1>4 DEF vmem_free
    <2>2. /\ blocks' \subseteq blocks /\ mapped' \subseteq mapped /\ held' \subseteq held
          /\ health' \in {"bad free", "heap unmapped", "ok"}
          /\ excuses \subseteq excuses'
          /\ excuses' \subseteq excuses \cup {"stale record", "page boundary", "failed record"}
          /\ UNCHANGED <<buffers, next_buf>>
      BY <2>1 DEF Release
    <2>3. TypeOKVmem' /\ TableInv' /\ \A a \in held' : Holding(a)
      BY <1>2, <2>2 DEF TypeOKVmem, TableInv
    <2>4. HeldInv'
      <3>1. CASE excuses' # {}
        BY <3>1 DEF HeldInv
      <3>2. CASE excuses' = {} /\ h # {}
        BY <1>1, <2>1, <3>2, ReleaseKeeps
      <3>3. CASE excuses' = {} /\ h = {}
        <4>1. blocks' = blocks /\ mapped' = mapped /\ held' = held /\ health' = "ok"
          BY <1>1, <2>1, <3>3, ReleaseNull
        <4>2. excuses = {}
          BY <2>2, <3>3
        <4> QED
          BY <1>2, <4>1, <4>2 DEF HeldInv, HeldHeap
      <3> QED
        BY <3>1, <3>2, <3>3
    <2> QED
      BY <2>3, <2>4 DEF VmemInv
  <1> QED
    BY <1>3, <1>4

LEMMA VmemStep == VmemInv /\ (VmemNext \/ UNCHANGED vmem) => VmemInv'
  <1>1. VmemInv /\ Overrun => VmemInv'
    BY DEF Overrun, VmemInv, TypeOKVmem, TableInv, HeldInv, memory
  <1>2. VmemInv /\ UNCHANGED vmem => VmemInv'
    BY DEF vmem, VmemInv, TypeOKVmem, TableInv, HeldInv, HeldHeap, memory
  <1> QED
    BY <1>1, <1>2, AllocKeeps, MapKeeps, UnmapKeeps, FreeKeeps DEF VmemNext

(* The loaders and the other caller use the memory through these calls alone. *)
LEMMA LoaderUsesVmem == CodeInv /\ [Next]_vars => VmemNext \/ UNCHANGED vmem
  <1> SUFFICES ASSUME CodeInv, [Next]_vars
               PROVE  VmemNext \/ UNCHANGED vmem
    OBVIOUS
  <1>1. file.textsize \in Nat /\ (file.textsize * 3) \div 2 \in Nat
    BY LoaderAssumption DEF CodeInv, CallerInv, File, MisreadTables
  <1>2. MEM_RW \in Permissions /\ MEM_RWX \in Permissions
    BY DEF Permissions
  <1>3. \A size \in AllocSizes : size \in Nat
    BY LoaderAssumption
  <1>12. \A size : MallocResults(size) \subseteq Int /\ MmapResults(size) \subseteq Int
    BY VmemAssumption DEF MallocResults, MmapResults, NULL, MAP_FAILED, Space
  <1>13. \A size, perm : Results(size, perm) \subseteq Int
    BY <1>12 DEF Results
  <1>4. CASE CallAlloc
    BY <1>2, <1>3, <1>4, <1>13 DEF CallAlloc, VmemNext
  <1>5. CASE CallFree \/ CallUnmap
    BY <1>5 DEF CallFree, CallUnmap, VmemNext
  <1>6. CASE CallMap
    BY <1>3, <1>6, <1>12 DEF CallMap, VmemNext
  <1>7. CASE NroText
    BY <1>1, <1>2, <1>7, <1>12 DEF NroText, VmemNext
  <1>8. CASE NroDest
    BY <1>1, <1>2, <1>8, <1>12 DEF NroDest, VmemNext
  <1>9. CASE Main \/ NroOpen \/ FileIsElf \/ RawLoad \/ Imlgen \/ CallLoader
    BY <1>9 DEF Main, NroOpen, FileIsElf, RawLoad, Imlgen, CallLoader
  <1>10. CASE ElfOpen \/ ElfSection \/ ElfNoCode \/ ElfDone
    BY <1>10 DEF ElfOpen, ElfSection, ElfNoCode, ElfDone
  <1>11. CASE UNCHANGED vars
    BY <1>11 DEF vars
  <1> QED
    BY <1>4, <1>5, <1>6, <1>7, <1>8, <1>9, <1>10, <1>11 DEF Next

(* The inductive invariant of vmem.c, under every order of calls main and other *)
(* users of the headers make.                                                 *)
THEOREM MemoryInvariant == Spec => []VmemInv
  <1>1. Init => VmemInv
    BY VmemInit DEF Init
  <1>2. Init => FilesInv /\ CodeInv
    BY FilesInit, CodeInit
  <1>3. FilesInv /\ CodeInv /\ [Next]_vars => FilesInv' /\ CodeInv'
    BY FilesStep, CallerStep, RawStep, BufferStep DEF CodeInv
  <1>4. CodeInv /\ VmemInv /\ [Next]_vars => VmemInv'
    BY LoaderUsesVmem, VmemStep
  <1> QED
    BY <1>1, <1>2, <1>3, <1>4, PTL DEF Spec

(* MemoryIsHeld: unless a stale record, a block on a page boundary, a full table *)
(* or, for NULL, the record of a failed allocation that reaches memory is in    *)
(* its way, vmem_free gives back what it is given and nothing else, for any     *)
(* number of records, views and pages (vmem.c).                               *)
THEOREM OnlyHeldMemoryInUse == Spec => []MemoryIsHeld
  <1>1. VmemInv => MemoryIsHeld
    <2> SUFFICES ASSUME VmemInv, excuses = {}
                 PROVE  /\ health = "ok"
                        /\ blocks = {Block(h.ptr, HeapSize(h.size)) : h \in HeldHeap}
                        /\ mapped = UNION {Pages(Span(h.ptr, h.size)) : h \in held \ HeldHeap}
      BY DEF MemoryIsHeld
    <2>1. \A h \in held \ HeldHeap : Room(h) = Pages(Span(h.ptr, h.size))
      BY DEF HeldHeap, Room
    <2> QED
      BY <2>1 DEF VmemInv, HeldInv
  <1> QED
    BY <1>1, MemoryInvariant, PTL
-----------------------------------------------------------------------------
(* Types. *)

(* load_elf's index is used by load_elf alone, and no more files are open than  *)
(* can be.                                                                    *)
RangeInv ==
    /\ pc \in Steps \cup Ended
    /\ i \in 0..Len(HeadersRead(file))
    /\ pc \notin {"elf_loop", "elf_done"} => i = 0
    /\ open \in [Openers -> Nat] /\ OpenCount <= OpenMax
    /\ lost \in Nat

LEMMA RangeInit == Init => RangeInv
  <1> SUFFICES ASSUME Init PROVE RangeInv
    OBVIOUS
  <1>1. file \in File
    BY CodeInit DEF CodeInv, CallerInv
  <1>2. Len(HeadersRead(file)) \in Nat
    BY <1>1, FileFacts
  <1>3. OpenMax \in Nat
    BY LoaderAssumption
  <1> QED
    BY <1>2, <1>3 DEF Init, RangeInv, Steps, OpenCount, Openers

(* Opening takes what CanOpen found free; closing closes what is open. *)
LEMMA OpenCounts ==
  ASSUME NEW f \in Openers, open \in [Openers -> Nat], OpenCount <= OpenMax,
         \/ CanOpen /\ Opened(f)
         \/ open[f] > 0 /\ fclose(f)
  PROVE  open' \in [Openers -> Nat] /\ OpenCount' <= OpenMax
  <1>1. OpenMax \in Nat
    BY LoaderAssumption
  <1>2. CASE f = "file_is_elf"
    BY <1>1, <1>2 DEF Opened, fclose, OpenCount, CanOpen, Openers
  <1>3. CASE f = "load_elf"
    BY <1>1, <1>3 DEF Opened, fclose, OpenCount, CanOpen, Openers
  <1>4. CASE f = "nro_load"
    BY <1>1, <1>4 DEF Opened, fclose, OpenCount, CanOpen, Openers
  <1> QED
    BY <1>2, <1>3, <1>4 DEF Openers

LEMMA RangeStep == FilesInv /\ CodeInv /\ RangeInv /\ [Next]_vars => RangeInv'
  <1> SUFFICES ASSUME FilesInv, CodeInv, RangeInv, [Next]_vars
               PROVE  RangeInv'
    OBVIOUS
  <1> USE DEF At, Goto, Return, Ended, Steps
  <1>0. Len(HeadersRead(file)) \in Nat /\ Len(HeadersRead(file))' \in Nat
    <2>1. file \in File /\ file' \in File
      BY CallerStep DEF CodeInv, CallerInv
    <2>2. \A f \in File : Len(HeadersRead(f)) \in Nat
      BY FileFacts
    <2>3. Len(HeadersRead(file))' = Len(HeadersRead(file'))
      BY DEF HeadersRead
    <2> QED
      BY <2>1, <2>2, <2>3
  <1>1. open \in [Openers -> Nat] /\ OpenCount <= OpenMax /\ lost \in Nat /\ i \in Nat
    BY <1>0 DEF RangeInv
  <1>2. CASE CallLoader \/ Main \/ RawLoad \/ Imlgen
    <2>1. /\ i = 0 /\ i' = 0 /\ open' = open /\ lost' = lost
          /\ pc' \in Steps \cup Ended /\ pc' \notin {"elf_loop", "elf_done"}
      BY <1>2 DEF CallLoader, Main, RawLoad, Imlgen, RangeInv
    <2> QED
      BY <1>0, <1>1, <2>1 DEF RangeInv, OpenCount
  <1>3. CASE CallAlloc \/ CallFree \/ CallMap \/ CallUnmap \/ UNCHANGED vars
    BY <1>0, <1>3 DEF CallAlloc, CallFree, CallMap, CallUnmap, vars, loader, RangeInv, OpenCount,
       HeadersRead, Readable
  <1>4. CASE NroOpen
    <2>1. open' \in [Openers -> Nat] /\ OpenCount' <= OpenMax
      BY <1>1, <1>4, OpenCounts DEF NroOpen, Openers, OpenCount
    <2> QED
      BY <1>0, <1>4, <2>1 DEF NroOpen, RangeInv
  <1>5. CASE NroText
    BY <1>0, <1>5 DEF NroText, RangeInv, OpenCount
  <1>6. CASE NroDest
    <2>1. open' \in [Openers -> Nat] /\ OpenCount' <= OpenMax
      <3>1. open["nro_load"] > 0
        BY <1>1, <1>6 DEF NroDest, FilesInv
      <3> QED
        BY <1>1, <1>6, <3>1, OpenCounts DEF NroDest, Openers, OpenCount
    <2> QED
      BY <1>0, <1>6, <2>1 DEF NroDest, RangeInv
  <1>7. CASE FileIsElf
    <2>1. open' \in [Openers -> Nat] /\ OpenCount' <= OpenMax
      BY <1>1, <1>7, OpenCounts DEF FileIsElf, Openers, OpenCount
    <2> QED
      BY <1>0, <1>7, <2>1 DEF FileIsElf, RangeInv
  <1>8. CASE ElfOpen
    <2>1. open' \in [Openers -> Nat] /\ OpenCount' <= OpenMax
      BY <1>1, <1>8, OpenCounts DEF ElfOpen, Openers, OpenCount
    <2> QED
      BY <1>0, <1>8, <2>1 DEF ElfOpen, RangeInv
  <1>9. CASE ElfSection \/ ElfNoCode
    <2>1. open["load_elf"] > 0
      BY <1>9 DEF ElfSection, ElfNoCode, FilesInv
    <2>2. open' \in [Openers -> Nat] /\ OpenCount' <= OpenMax
      BY <1>1, <1>9, <2>1, OpenCounts DEF ElfSection, ElfNoCode, Openers, OpenCount
    <2>3. file' = file /\ lost' = lost /\ pc' \in {"elf_loop", "elf_done"}
      BY <1>9 DEF ElfSection, ElfNoCode
    <2>4. i' \in 0..Len(HeadersRead(file))
      BY <1>0, <1>1, <1>9 DEF ElfSection, ElfNoCode, RangeInv
    <2>5. Len(HeadersRead(file))' = Len(HeadersRead(file))
      BY <2>3 DEF HeadersRead, Readable
    <2> QED
      BY <1>1, <2>2, <2>3, <2>4, <2>5 DEF RangeInv
  <1>10. CASE ElfDone
    BY <1>0, <1>10 DEF ElfDone, RangeInv, OpenCount
  <1> QED
    BY <1>2, <1>3, <1>4, <1>5, <1>6, <1>7, <1>8, <1>9, <1>10 DEF Next

(* TypeOK: main, the loaders and vmem.c keep their state in its ranges. *)
THEOREM TypeCorrect == Spec => []TypeOK
  <1>1. Init => FilesInv /\ CodeInv /\ RangeInv
    BY FilesInit, CodeInit, RangeInit
  <1>2. FilesInv /\ CodeInv /\ RangeInv /\ [Next]_vars => FilesInv' /\ CodeInv' /\ RangeInv'
    BY FilesStep, CallerStep, RawStep, BufferStep, RangeStep DEF CodeInv
  <1>3. FilesInv /\ CodeInv /\ RangeInv /\ VmemInv => TypeOK
    <2> SUFFICES ASSUME FilesInv, CodeInv, RangeInv, VmemInv
                 PROVE  TypeOK
      OBVIOUS
    <2>1. Len(HeadersRead(file)) \in Nat /\ OpenMax \in Nat
      BY FileFacts, LoaderAssumption DEF CodeInv, CallerInv
    <2>2. open \in [Openers -> 0..OpenMax] /\ lost \in 0..OpenMax
      BY <2>1 DEF RangeInv, FilesInv, OpenCount, Openers
    <2>3. /\ arm_buf.from \in {NoSection} \cup 0..Len(HeadersRead(file))
          /\ arm_buf.size \in Nat
      BY <2>1 DEF CodeInv, BufferInv, FirstCode, NoBuffer, Buffer
    <2> QED
      BY <2>2, <2>3 DEF TypeOK, VmemInv, CodeInv, CallerInv, RangeInv
  <1> QED
    BY <1>1, <1>2, <1>3, MemoryInvariant, PTL DEF Spec
=============================================================================

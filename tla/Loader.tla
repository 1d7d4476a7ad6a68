------------------------------- MODULE Loader -------------------------------
(***************************************************************************)
(* src/src/main.cxx, elf.c and os/nro.c: from a path to the ARM code that  *)
(* imlgen is given.  The caller is main, which makes its calls once and    *)
(* ends, or a program that calls what elf.h, nro.h and vmem.h declare, in  *)
(* any order and for as long as it likes.                                  *)
(*                                                                         *)
(* A file is what the code reads of it; see File.  fopen, malloc and mmap  *)
(* may fail at any time, and fopen does when OpenMax files are open.       *)
(*                                                                         *)
(* Operators named Bug... are the mutated forms of the operator that       *)
(* follows them; no specification uses them.                               *)
(***************************************************************************)
EXTENDS Vmem, Sequences

CONSTANTS
    Files,      \* the files the path given to main may lead to
    OtherFiles, \* those the other caller loads
    AllocSizes, \* sizes the caller asks vmem_alloc and vmem_map for
    MaxViews,   \* bound: views the caller has mapped at once
    OpenMax,    \* FOPEN_MAX
    U32,        \* values of a u32
    S64Max,     \* largest s64
    SHN_LORESERVE   \* 0xff00: from so many sections on, e_shnum is 0

VARIABLES
    caller,     \* "main" or "other"
    file,       \* the file the path leads to
    open,       \* FILEs open, by the function that opened them
    pc,         \* the next step
    i,          \* section of load_elf
    arm_buf,    \* the code buffer, or NoBuffer
    lost        \* ghost: allocation failures that made nro_load return early

loader == <<caller, file, open, pc, i, arm_buf, lost>>
vars == <<vmem, loader>>

Openers == {"file_is_elf", "load_elf", "nro_load"}

(* elf_structure.h, as far as it decides what load_elf reads.  A file is of a    *)
(* class and an encoding, which load_elf does not look at.                     *)
ELFCLASS32 == "class 32"
ELFCLASS64 == "class 64"
Classes == {ELFCLASS32, ELFCLASS64}

ELFDATA2LSB == "little endian"
ELFDATA2MSB == "big endian"
Encodings == {ELFDATA2LSB, ELFDATA2MSB}

(* The numbers e_machine may have: those given out below EM_NUM, and the one the *)
(* header knows of that nobody gave out.                                      *)
EM_AARCH64 == 183
EM_NUM == 259

ReservedMachines ==
    11..14 \cup {16} \cup 24..35 \cup 121..130 \cup 145..159 \cup {182, 184}
    \cup 206..209 \cup 225..242 \cup 244..246 \cup 248..251 \cup 253..257

UnofficialMachines == {36902}
Machines == (0..(EM_NUM - 1) \ ReservedMachines) \cup UnofficialMachines

(* sh_type: those below SHT_NUM, and one for each of the ranges that belong to    *)
(* the system, the processor and the application.                             *)
SHT_PROGBITS == 1
SHT_NOBITS == 8
SHT_OS == -1
SHT_PROC == -2
SHT_USER == -3

SectionTypes == 0..11 \cup 14..19 \cup {SHT_OS, SHT_PROC, SHT_USER}

(* sh_flags is the set of its bits that are 1, numbered from the least           *)
(* significant; the last two ranges are SHF_MASKOS and SHF_MASKPROC.           *)
SHF_EXECINSTR == 2
SectionFlags == 0..2 \cup 4..11 \cup 20..27 \cup 28..31

Elf64_Xword == 0..(2 * S64Max + 1)

(* whole: the bytes of the section are all in the file. *)
Elf64_Shdr ==
    [sh_type : SectionTypes, sh_flags : SUBSET SectionFlags, sh_size : Elf64_Xword,
     whole : BOOLEAN]

Section(type, flags, size) ==
    [sh_type |-> type, sh_flags |-> flags, sh_size |-> size, whole |-> TRUE]

(* What reading a table of Elf32_Shdr through the 64-bit layout may give: any     *)
(* headers at all.                                                            *)
MisreadTables == Seq(Elf64_Shdr)

(* The file: whether its path ends in .nro, whether it starts with ELFMAG, its   *)
(* ELF header and sections, the section headers found in it when it is read    *)
(* through the 64-bit layout and is not of that layout, its size, and what an  *)
(* nro_hdr read from it gives for text_seg.size.                              *)
File ==
    [nro : BOOLEAN, elf : BOOLEAN, class : Classes, data : Encodings, e_machine : Machines,
     sections : Seq(Elf64_Shdr), misread : MisreadTables,
     size : 0..S64Max, textsize : 0..(U32 - 1)]

RawFile(size) ==
    [nro |-> FALSE, elf |-> FALSE, class |-> ELFCLASS64, data |-> ELFDATA2LSB,
     e_machine |-> 0, sections |-> <<>>, misread |-> <<>>,
     size |-> size, textsize |-> 0]
ElfFile(machine, sections) ==
    [RawFile(8) EXCEPT !.elf = TRUE, !.e_machine = machine, !.sections = sections]
NroFile(textsize) == [RawFile(8) EXCEPT !.nro = TRUE, !.textsize = textsize]

NoFile == RawFile(0)

(* The header is read as a little-endian one, whatever its encoding is; e_machine *)
(* is in the same place in both layouts.                                      *)
Swapped(half) == (half % 256) * 256 + half \div 256

MachineRead(f) == IF f.data = ELFDATA2LSB THEN f.e_machine ELSE Swapped(f.e_machine)

(* load_elf's two tests. *)
Accepted(f) == f.elf /\ MachineRead(f) = EM_AARCH64

(* The layouts of Elf32_Ehdr and Elf64_Ehdr part at e_entry.  A table of         *)
(* SHN_LORESERVE entries or more has its length in its first entry, and         *)
(* e_shnum is 0.                                                              *)
Readable(f) == f.class = ELFCLASS64 /\ Len(f.sections) < SHN_LORESERVE

HeadersRead(f) ==
    IF Readable(f) THEN f.sections
    ELSE IF f.class = ELFCLASS64 THEN <<>> ELSE f.misread

ASSUME LoaderAssumption ==
    /\ Files \cup OtherFiles \subseteq File
    /\ AllocSizes \subseteq Nat
    /\ MaxViews \in Nat
    /\ OpenMax \in Nat
    /\ U32 \in Nat \ {0}
    /\ S64Max \in Nat
    /\ U32 <= S64Max
    /\ SHN_LORESERVE \in Nat

(* A code buffer: the section it was read from, and whether all of it could be. *)
NoSection == -1
Buffer(from, size, whole) == [from |-> from, size |-> size, whole |-> whole]
NoBuffer == Buffer(NoSection, 0, FALSE)

(* const s64 size = sh_size *)
Signed(u) == IF u > S64Max THEN u - 2 * (S64Max + 1) ELSE u

BugAnySize(s) == s.sh_type = SHT_PROGBITS /\ SHF_EXECINSTR \in s.sh_flags

(* The sections load_elf does not skip. *)
IsCode(s) ==
    /\ s.sh_type = SHT_PROGBITS
    /\ SHF_EXECINSTR \in s.sh_flags
    /\ Signed(s.sh_size) >= 4

OpenCount == open["file_is_elf"] + open["load_elf"] + open["nro_load"]

CanOpen == OpenCount < OpenMax
Opened(f) == open' = [open EXCEPT ![f] = @ + 1]
fclose(f) == open' = [open EXCEPT ![f] = @ - 1]
-----------------------------------------------------------------------------
Init ==
    /\ InitVmem
    /\ caller \in {"main", "other"}
    /\ file \in IF caller = "main" THEN Files ELSE {NoFile}
    /\ open = [f \in Openers |-> 0]
    /\ pc = IF caller = "main" THEN "main" ELSE "idle"
    /\ i = 0
    /\ arm_buf = NoBuffer
    /\ lost = 0

At(p) == pc = p /\ health = "ok"
Goto(p) == pc' = p /\ UNCHANGED file

(* A call returns; main goes on at p. *)
Return(p) ==
    /\ pc' = IF caller = "main" THEN p ELSE "idle"
    /\ file' = IF caller = "main" THEN file ELSE NoFile

(* The other caller: any declared function, on any file. *)
CallLoader ==
    /\ At("idle")
    /\ pc' \in {"file_is_elf", "load_elf", "nro_load"}
    /\ file' \in OtherFiles
    /\ UNCHANGED <<vmem, caller, open, i, arm_buf, lost>>

CallAlloc ==
    /\ At("idle")
    /\ \/ Overrun
       \/ \E size \in AllocSizes, perm \in {MEM_RW, MEM_RWX} :
             \E ptr \in Results(size, perm) : vmem_alloc("caller", size, perm, ptr)
    /\ UNCHANGED loader

CallFree ==
    /\ At("idle")
    /\ \/ \E h \in held : h.owner = "caller" /\ h.how # "view" /\ vmem_free(h.ptr, {h})
       \/ vmem_free(NULL, {})
    /\ UNCHANGED loader

CallMap ==
    /\ At("idle")
    /\ Cardinality({h \in held : h.how = "view"}) < MaxViews
    /\ \E size \in AllocSizes : \E ptr \in MmapResults(size) : vmem_map("caller", size, ptr)
    /\ UNCHANGED loader

CallUnmap ==
    /\ At("idle")
    /\ \E h \in held : vmem_unmap(h)
    /\ UNCHANGED loader

(* main: no argument, an .nro file, or another. *)
Main ==
    /\ At("main")
    /\ Goto("failure") \/ Goto(IF file.nro THEN "nro_load" ELSE "file_is_elf")
    /\ UNCHANGED <<vmem, caller, open, i, arm_buf, lost>>

(* nro_load: the header is read, unchecked. *)
NroOpen ==
    /\ At("nro_load")
    /\ \/ Return("success") /\ UNCHANGED open
       \/ CanOpen /\ Opened("nro_load") /\ Goto("nro_text")
    /\ UNCHANGED <<vmem, caller, i, arm_buf, lost>>

(* Room for .text; without it the file stays open. *)
NroText ==
    /\ At("nro_text")
    /\ \/ Overrun /\ UNCHANGED <<pc, file, lost>>
       \/ \E ptr \in MallocResults(file.textsize) :
             /\ vmem_alloc("nro_load", file.textsize, MEM_RW, ptr)
             /\ IF ptr = NULL THEN Return("success") /\ lost' = lost + 1
                ELSE Goto("nro_dest") /\ UNCHANGED lost
    /\ UNCHANGED <<caller, open, i, arm_buf>>

BugDestNotClosed ==
    /\ At("nro_dest")
    /\ \/ Overrun /\ UNCHANGED <<pc, file, open>>
       \/ \E ptr \in MmapResults((file.textsize * 3) \div 2) :
             /\ vmem_alloc("nro_load", (file.textsize * 3) \div 2, MEM_RWX, ptr)
             /\ IF ptr = MAP_FAILED THEN UNCHANGED open ELSE fclose("nro_load")
             /\ Return("success")
    /\ UNCHANGED <<caller, i, arm_buf, lost>>

(* Room for 1.5 times .text, whether or not there is any; neither is kept. *)
NroDest ==
    /\ At("nro_dest")
    /\ \/ Overrun /\ UNCHANGED <<pc, file, open>>
       \/ \E ptr \in MmapResults((file.textsize * 3) \div 2) :
             /\ vmem_alloc("nro_load", (file.textsize * 3) \div 2, MEM_RWX, ptr)
             /\ fclose("nro_load")
             /\ Return("success")
    /\ UNCHANGED <<caller, i, arm_buf, lost>>

BugClosesNothing ==
    /\ At("file_is_elf")
    /\ \/ Return("raw") /\ fclose("file_is_elf")
       \/ CanOpen /\ UNCHANGED open /\ Return(IF file.elf THEN "load_elf" ELSE "raw")
    /\ UNCHANGED <<vmem, caller, i, arm_buf, lost>>

(* file_is_elf never closes the file. *)
FileIsElf ==
    /\ At("file_is_elf")
    /\ \/ Return("raw") /\ UNCHANGED open
       \/ CanOpen /\ Opened("file_is_elf") /\ Return(IF file.elf THEN "load_elf" ELSE "raw")
    /\ UNCHANGED <<vmem, caller, i, arm_buf, lost>>

(* load_elf up to its loop. *)
ElfOpen ==
    /\ At("load_elf")
    /\ i' = 0
    /\ arm_buf' = NoBuffer
    /\ \/ Goto("elf_done") /\ UNCHANGED open
       \/ /\ CanOpen
          /\ IF Accepted(file)
             THEN Opened("load_elf") /\ Goto("elf_loop")
             ELSE Goto("elf_done") /\ UNCHANGED open      \* opened and closed
    /\ UNCHANGED <<vmem, caller, lost>>

(* A section: skipped, or read into a buffer, if malloc gives one; how much of   *)
(* it could be read is not looked at.                                         *)
ElfSection ==
    /\ At("elf_loop")
    /\ i < Len(HeadersRead(file))
    /\ LET s == HeadersRead(file)[i + 1]
       IN  IF IsCode(s)
           THEN /\ arm_buf' \in {NoBuffer, Buffer(i, s.sh_size, s.whole)}
                /\ fclose("load_elf")
                /\ Goto("elf_done")
                /\ UNCHANGED i
           ELSE i' = i + 1 /\ UNCHANGED <<open, pc, file, arm_buf>>
    /\ UNCHANGED <<vmem, caller, lost>>

ElfNoCode ==
    /\ At("elf_loop")
    /\ i = Len(HeadersRead(file))
    /\ fclose("load_elf")
    /\ Goto("elf_done")
    /\ UNCHANGED <<vmem, caller, i, arm_buf, lost>>

(* load_elf has returned. *)
ElfDone ==
    /\ At("elf_done")
    /\ Return(IF arm_buf = NoBuffer THEN "failure" ELSE "imlgen")
    /\ arm_buf' = IF caller = "main" THEN arm_buf ELSE NoBuffer
    /\ i' = 0
    /\ UNCHANGED <<vmem, caller, open, lost>>

(* file_size and file_load of a file that is taken for ARM code as it is. *)
RawLoad ==
    /\ At("raw")
    /\ \/ Goto("failure") /\ UNCHANGED arm_buf
       \/ /\ file.size >= 1
          /\ arm_buf' = Buffer(NoSection, file.size, TRUE)
          /\ Goto("imlgen")
    /\ UNCHANGED <<vmem, caller, open, i, lost>>

(* The s64 size becomes the u32 argument of imlgen. *)
Argument(size) == size % U32

(* imlgen(arm_buf, size), which rejects a size of 0; see ImlGen. *)
Imlgen ==
    /\ At("imlgen")
    /\ Goto(IF Argument(arm_buf.size) > 0 THEN "success" ELSE "abort")
    /\ UNCHANGED <<vmem, caller, open, i, arm_buf, lost>>

Next ==
    \/ CallLoader \/ CallAlloc \/ CallFree \/ CallMap \/ CallUnmap
    \/ Main
    \/ NroOpen \/ NroText \/ NroDest
    \/ FileIsElf
    \/ ElfOpen \/ ElfSection \/ ElfNoCode \/ ElfDone
    \/ RawLoad \/ Imlgen

Spec == Init /\ [][Next]_vars
-----------------------------------------------------------------------------
Ended == {"success", "failure", "abort"}
Steps == {"main", "nro_load", "nro_text", "nro_dest", "file_is_elf", "load_elf",
          "elf_loop", "elf_done", "raw", "imlgen", "idle"}

TypeOK ==
    /\ TypeOKVmem
    /\ caller \in {"main", "other"}
    /\ file \in File
    /\ open \in [Openers -> 0..OpenMax] /\ OpenCount <= OpenMax
    /\ pc \in Steps \cup Ended
    /\ i \in 0..Len(HeadersRead(file))
    /\ arm_buf.from \in {NoSection} \cup 0..Len(HeadersRead(file)) /\ arm_buf.size \in Nat
    /\ lost \in 0..OpenMax

(* Between calls, load_elf has closed what it opened on each of its paths, and   *)
(* nro_load on all but the one on which there is no room for .text; whatever   *)
(* else is open was left so by file_is_elf.                                   *)
FilesAccounted ==
    pc \in {"idle"} \cup Ended =>
        open["load_elf"] = 0 /\ open["nro_load"] = lost

ForAArch64 == file.elf /\ file.data = ELFDATA2LSB /\ file.e_machine = EM_AARCH64

CodeSections ==
    {n \in DOMAIN file.sections :
        /\ file.sections[n].sh_type = SHT_PROGBITS
        /\ SHF_EXECINSTR \in file.sections[n].sh_flags
        /\ file.sections[n].sh_size \in 4..S64Max}

(* load_elf returns the first section that holds code of at least one word, of a *)
(* little-endian file for AArch64 though it never looks at the encoding, and    *)
(* comes to the end of the table only when there is none, unless the file is    *)
(* 32-bit or has too many sections.                                           *)
(* main gives imlgen that section, or the whole of a file that is not ELF (or  *)
(* that file_is_elf could not open), and never claims more than the buffer     *)
(* has; only a code size that is a multiple of 2^32 is taken for none.         *)
CodeRight ==
    /\ pc = "elf_done" /\ arm_buf # NoBuffer =>
          LET n == arm_buf.from + 1
          IN  /\ ForAArch64
              /\ Readable(file) =>
                    /\ n \in CodeSections /\ (\A c \in CodeSections : n <= c)
                    /\ arm_buf.size = file.sections[n].sh_size
    /\ pc = "elf_loop" /\ i = Len(HeadersRead(file)) /\ Readable(file) => CodeSections = {}
    /\ pc \in {"imlgen", "success"} /\ arm_buf # NoBuffer =>
          /\ Argument(arm_buf.size) <= arm_buf.size
          /\ file.elf /\ arm_buf.from = NoSection => open["file_is_elf"] = 0
    /\ pc = "abort" => arm_buf.size >= U32
=============================================================================

------------------------------ MODULE MCLoader ------------------------------
(* Sizes on both sides of a word and of a u32 (here 16 values) and past an s64  *)
(* (here 31); code behind data, small code and truncated code; every machine   *)
(* in either encoding; every section type and every flag alone.               *)
EXTENDS Loader

Text(size) == Section(SHT_PROGBITS, {SHF_EXECINSTR}, size)
Truncated == [Text(8) EXCEPT !.whole = FALSE]
Data == Section(SHT_PROGBITS, SectionFlags \ {SHF_EXECINSTR}, 8)
Bss == Section(SHT_NOBITS, SectionFlags, 8)

MCFiles ==
    {RawFile(n) : n \in {0, 1, 8, 16, 20}}
    \cup {NroFile(n) : n \in {0, 1, 2}}
    \cup {ElfFile(EM_AARCH64, <<>>), ElfFile(EM_AARCH64, <<Data, Text(8), Data>>)}
    \cup {[ElfFile(m, <<Text(8)>>) EXCEPT !.data = d] : m \in Machines, d \in Encodings}
    \cup {ElfFile(EM_AARCH64, <<Section(t, {SHF_EXECINSTR}, 8)>>) : t \in SectionTypes}
    \cup {ElfFile(EM_AARCH64, <<Section(SHT_PROGBITS, {f}, 8)>>) : f \in SectionFlags}
    \cup {[ElfFile(EM_AARCH64, <<Text(8)>>) EXCEPT !.class = ELFCLASS32, !.misread = m] :
             m \in {<<>>, <<Data, Text(20)>>}}
    \cup {ElfFile(EM_AARCH64, <<a, b>>) :
             a \in {Text(3), Text(8), Text(40), Data, Bss},
             b \in {Text(4), Text(16), Text(20), Truncated, Data}}

(* One file for all that the other caller may ask of it. *)
MCOtherFiles == {[ElfFile(EM_AARCH64, <<Data, Text(8)>>) EXCEPT !.textsize = 1]}
=============================================================================

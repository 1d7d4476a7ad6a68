----------------------------- MODULE MCDecoder -----------------------------
(* Bits 21 to 31, which select the function, in every combination; operand     *)
(* fields at their boundaries.                                               *)
EXTENDS Decoder

BitSet(n, width) == {b \in 0..(width - 1) : (n \div 2^b) % 2 = 1}
Field(n, lo) == {b + lo : b \in BitSet(n, 6)}

Registers == {3, 31}
Shifts == {0, 3, 33, 62, 63}

MCWords ==
    {{}} \cup
    {high \cup Field(m, 16) \cup Field(s, 10) \cup Field(n, 5) :
        high \in SUBSET (21..31), m \in Registers, s \in Shifts, n \in {2, 31}}

Context(r) ==
    [sp |-> {4}, pc |-> {}, r |-> r,
     v |-> [n \in 0..30 |-> <<{}, {}>>], fpcr |-> <<{}, {}>>, fpsr |-> <<{}, {}>>]

(* With ones at the top and at bit 31, and no symmetry. *)
MCRegFiles ==
    {Context([r \in 0..30 |-> {(b * b + r * b) % 64 : b \in 0..31} \cup {31 + 32 * (r % 2)}]),
     Context([r \in 0..30 |-> {(5 * b + r) % 64 : b \in 0..12} \cup {31, 63}])}
=============================================================================

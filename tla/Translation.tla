---------------------------- MODULE Translation ----------------------------
(***************************************************************************)
(* What imlgen is for, without pool, handles or recursion: from a buffer   *)
(* of ARM words it makes, in one piece, a listing that has the IML of each *)
(* word in program order -- or nothing.                                    *)
(***************************************************************************)
EXTENDS Integers

CONSTANT Accepted     \* what the decoder can make of a word it does not refuse

VARIABLES
    code,             \* word index |-> what the decoder makes of the word
    out               \* the listing, empty until there is one

Init == out = [w \in {} |-> 0]

Finish ==
    /\ out = [w \in {} |-> 0]
    /\ \A w \in DOMAIN code : code[w] \in Accepted
    /\ out' = code
    /\ UNCHANGED code

Spec == Init /\ [][Finish]_<<code, out>>
=============================================================================

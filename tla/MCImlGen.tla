------------------------------ MODULE MCImlGen ------------------------------
(* Buffers of one to three words, also with a trailing partial word, and every *)
(* sequence of kinds of words in them.                                        *)
EXTENDS ImlGen, TLC
=============================================================================

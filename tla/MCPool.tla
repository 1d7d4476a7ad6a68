------------------------------- MODULE MCPool -------------------------------
(* A small pool for TLC: pool_size_t has SizeMod values instead of 2^32, so  *)
(* the run goes through growth, exact fits and the wrap of the u32 sums.     *)
EXTENDS Pool, TLC

Symmetry == Permutations(Data)
=============================================================================

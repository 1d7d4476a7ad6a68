----------------------------- MODULE MCRegAlloc -----------------------------
(* Four scanned slots, two of them reserved at first, and five ARM registers, *)
(* X29 and SP among them: the slots run out before and after a reset.         *)
EXTENDS RegAlloc
=============================================================================

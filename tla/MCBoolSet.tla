----------------------------- MODULE MCBoolSet -----------------------------
(* Bytes of two bits and sets of one, two and four bytes, two of them with a   *)
(* partial last byte.  end_pos has three values, fewer than the largest set has  *)
(* bytes, so that ranges get past the bounds check.                              *)
EXTENDS BoolSet
=============================================================================

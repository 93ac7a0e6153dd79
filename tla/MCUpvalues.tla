----------------------------- MODULE MCUpvalues -----------------------------
(***************************************************************************)
(* Addresses of upvalues are interchangeable, and so are the values.       *)
(***************************************************************************)
EXTENDS Upvalues, TLC

Interchangeable == Permutations(Upvs) \cup Permutations(Vals)
=============================================================================

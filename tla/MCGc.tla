-------------------------------- MODULE MCGc --------------------------------
(***************************************************************************)
(* Addresses are interchangeable, and so are the contents of strings.      *)
(***************************************************************************)
EXTENDS Gc, TLC

Interchangeable == Permutations(Objects) \cup Permutations(Chars)
=============================================================================

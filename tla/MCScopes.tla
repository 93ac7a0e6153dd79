------------------------------ MODULE MCScopes ------------------------------
(***************************************************************************)
(* Two names, so that declarations hide each other, and functions nested   *)
(* deep enough that an upvalue leads through one that does not use it.     *)
(***************************************************************************)
EXTENDS Scopes

Renamings == Permutations(Names)
=============================================================================

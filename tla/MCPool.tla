------------------------------- MODULE MCPool -------------------------------
(* Small pools for Pool.  Threads are interchangeable.                     *)
EXTENDS Pool, TLC

MCSymmetry == Permutations(Threads)
=============================================================================

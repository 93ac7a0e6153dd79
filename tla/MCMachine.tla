----------------------------- MODULE MCMachine -----------------------------
(* A short stack and few frames, so that both run full.                    *)
EXTENDS Machine

CONSTANTS o1, o2

Interchangeable == Permutations(Instances)
============================================================================

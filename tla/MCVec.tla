------------------------------- MODULE MCVec -------------------------------
(***************************************************************************)
(* Two vectors and the array of constants over parts of three sizes, small *)
(* enough that parts fill up, are given back and are made again, that a    *)
(* part's last block is used, and that growth asks for more than there is. *)
(***************************************************************************)
EXTENDS Vec

CONSTANTS v1, v2, a, b, c

MCPartCount == <<<<1, 3>>, <<2, 3>>, <<3, 2>>>>
Interchangeable == Permutations({v1, v2}) \cup Permutations({a, b})
=============================================================================

----------------------------- MODULE MCHashMap -----------------------------
(***************************************************************************)
(* Four keys, three of which share a home in the small array and two in    *)
(* the grown one: chains with tombstones at their head, middle and end,    *)
(* wrap-around, and a resize that separates keys that collided.  The first *)
(* array has 4 slots (8 in the code), so that the table grows.             *)
(***************************************************************************)
EXTENDS HashMap, TLC

CONSTANTS k1, k2, k3, k4

MCKeys == {k1, k2, k3, k4}
MCVals == {NullVal, TrueVal}
MCHash == (k1 :> 3) @@ (k2 :> 7) @@ (k3 :> 3) @@ (k4 :> 0)
=============================================================================

----------------------------- MODULE ObjectPool -----------------------------
(***************************************************************************)
(* What a client of the pool relies on: two stacks of free objects, those  *)
(* never handed out and those given back, and the objects each thread      *)
(* holds.  An allocation takes the top of one stack and a release puts an  *)
(* object on top of the other, each in one step whatever other threads do. *)
(* Pool is shown to implement this module.                                 *)
(***************************************************************************)
EXTENDS Integers, Sequences

CONSTANTS
  Threads,
  Capacity  \* the objects are 1..Capacity

VARIABLES
  fresh,    \* the stack of objects never handed out
  freed,    \* the stack of objects given back
  held      \* thread -> objects it has not given back

vars == <<fresh, freed, held>>

Init ==
  /\ fresh = [i \in 1..Capacity |-> Capacity + 1 - i]
  /\ freed = <<>>
  /\ held = [t \in Threads |-> {}]

Take(t, n) == held' = [held EXCEPT ![t] = @ \cup {n}]

AllocFreed(t) ==
  /\ freed # <<>> /\ freed' = Tail(freed)
  /\ Take(t, Head(freed))
  /\ UNCHANGED fresh

AllocFresh(t) ==
  /\ fresh # <<>> /\ fresh' = Tail(fresh)
  /\ Take(t, Head(fresh))
  /\ UNCHANGED freed

Free(t, n) ==
  /\ n \in held[t]
  /\ held' = [held EXCEPT ![t] = @ \ {n}]
  /\ freed' = <<n>> \o freed
  /\ UNCHANGED fresh

Next ==
  \E t \in Threads :
    AllocFreed(t) \/ AllocFresh(t) \/ \E n \in 1..Capacity : Free(t, n)

Spec == Init /\ [][Next]_vars
=============================================================================

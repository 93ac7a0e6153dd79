----------------------------- MODULE Dictionary -----------------------------
(***************************************************************************)
(* What the interpreter relies on a HashMap for: a partial function from   *)
(* interned strings to values, and the answer each operation gives.        *)
(* Nothing here mentions slots, probing, tombstones or resizing; HashMap   *)
(* is shown to implement this module.                                      *)
(***************************************************************************)
CONSTANTS
  Keys,     \* the interned String objects used as keys
  Vals,     \* the values a client stores
  NullVal,  \* what a lookup of an absent key answers
  NoKey     \* what a failed search for a key answers

VARIABLES
  dict,     \* the mapping
  ret       \* <<operation, its answer>>, of the last operation to return

vars == <<dict, ret>>

Init ==
  /\ dict = [k \in {} |-> NullVal]
  /\ ret = <<"init", NullVal>>

Set(k, v) ==
  /\ dict' = [j \in DOMAIN dict \cup {k} |-> IF j = k THEN v ELSE dict[j]]
  /\ ret' = <<"set", k \notin DOMAIN dict>>

Remove(k) ==
  /\ dict' = [j \in DOMAIN dict \ {k} |-> dict[j]]
  /\ ret' = <<"remove", k \in DOMAIN dict>>

Get(k) ==
  /\ ret' = <<"get", IF k \in DOMAIN dict THEN dict[k] ELSE NullVal>>
  /\ UNCHANGED dict

ContainsKey(k) ==
  /\ ret' = <<"contains_key", k \in DOMAIN dict>>
  /\ UNCHANGED dict

FindKey(k) ==
  /\ ret' = <<"find_key", IF k \in DOMAIN dict THEN k ELSE NoKey>>
  /\ UNCHANGED dict

GetEntry(k) ==
  /\ ret' = <<"get_entry", k \in DOMAIN dict>>
  /\ UNCHANGED dict

EveryKey ==
  /\ ret' = <<"keys", DOMAIN dict>>
  /\ UNCHANGED dict

EveryValue ==
  /\ ret' = <<"values", {dict[k] : k \in DOMAIN dict}>>
  /\ UNCHANGED dict

Next ==
  \/ \E k \in Keys, v \in Vals : Set(k, v)
  \/ \E k \in Keys : Remove(k) \/ Get(k) \/ ContainsKey(k) \/ FindKey(k) \/ GetEntry(k)
  \/ EveryKey
  \/ EveryValue

Spec == Init /\ [][Next]_vars
=============================================================================

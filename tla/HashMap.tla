------------------------------ MODULE HashMap ------------------------------
(***************************************************************************)
(* The open-addressing hash table (src/src/hashmap.c) behind the globals,  *)
(* the methods and fields of objects, the type registry and the table of   *)
(* interned strings.  A removed entry becomes a tombstone that keeps its   *)
(* place in the count, and a table grows before an insertion that could    *)
(* bring it over its load factor.                                          *)
(*                                                                         *)
(* hashmap_set and hashmap_get_entry are a call, the loop of               *)
(* adjust_capacity one old slot at a time, and a last step that touches    *)
(* the entry and returns; every other operation is one step.               *)
(***************************************************************************)
EXTENDS Integers, FiniteSets

CONSTANTS
  Keys,         \* interned String objects: equal strings are the same object
  Vals,         \* values a client stores; NullVal and TrueVal among them or not
  NullVal,      \* macro_val_null
  TrueVal,      \* macro_val_from_bool(true)
  NoKey,        \* a NULL key
  Hash,         \* String.hash
  MinCapacity,  \* the capacity of a table's first array (8 in memory.h)
  MaxCapacity   \* bound: no table grows beyond it

ASSUME KeysAssumption     == NoKey \notin Keys
ASSUME ValsAssumption     == NullVal # TrueVal
ASSUME HashAssumption     == Hash \in [Keys -> Nat]
ASSUME CapacityAssumption == /\ MinCapacity \in Nat /\ MinCapacity >= 2
                             /\ MaxCapacity \in Nat

VARIABLES
  entries,    \* HashMap.entries, a function on 0..capacity-1
  capacity,   \* HashMap.capacity
  count,      \* HashMap.count
  pc,         \* "idle", "copy" (in adjust_capacity) or "entry" (about to find it)
  call,       \* the arguments of the set or get_entry under way
  fresh,      \* adjust_capacity's new_entries
  i,          \* adjust_capacity's i
  ret         \* <<operation, its answer>>, of the last operation to return

vars == <<entries, capacity, count, pc, call, fresh, i, ret>>

Entry == [key : Keys \cup {NoKey}, value : Vals \cup {NullVal, TrueVal}]
EmptyEntry == [key |-> NoKey, value |-> NullVal]
Tombstone == [key |-> NoKey, value |-> TrueVal]

is_empty_entry(e) == e.key = NoKey /\ e.value = NullVal
IsTombstone(e) == e.key = NoKey /\ e.value # NullVal

Calls == [op : {"set"}, key : Keys, value : Vals] \cup [op : {"get_entry"}, key : Keys]
NoCall == [op |-> "none"]

-----------------------------------------------------------------------------
(* Probing.  A capacity is a power of two in the code, where the mask      *)
(* hash & (capacity - 1) is this remainder.                                *)

Home(k, cap) == Hash[k] % cap

\* How many steps of index = (index + 1) & (capacity - 1) lead from h to p.
Dist(h, p, cap) == IF h <= p THEN p - h ELSE p + cap - h

\* The member of S that a probe starting at h comes to first.
FirstFrom(h, S, cap) == CHOOSE p \in S : \A q \in S : Dist(h, p, cap) <= Dist(h, q, cap)

\* The slots at which the loop of find_entry returns, and the one it returns at.
Stops(es, k) == {p \in DOMAIN es : es[p].key = k \/ is_empty_entry(es[p])}
StopOf(es, cap, k) == FirstFrom(Home(k, cap), Stops(es, k), cap)

\* The tombstones the loop has passed by then.
Passed(es, cap, k) ==
  {p \in DOMAIN es : /\ IsTombstone(es[p])
                     /\ Dist(Home(k, cap), p, cap)
                          < Dist(Home(k, cap), StopOf(es, cap, k), cap)}

\* Mutant: the first tombstone is taken at once, wherever the key may be.
EagerFindEntry(es, cap, k) ==
  IF Passed(es, cap, k) = {} THEN StopOf(es, cap, k)
  ELSE FirstFrom(Home(k, cap), Passed(es, cap, k), cap)

find_entry(es, cap, k) ==
  IF es[StopOf(es, cap, k)].key = k \/ Passed(es, cap, k) = {}
    THEN StopOf(es, cap, k)
    ELSE FirstFrom(Home(k, cap), Passed(es, cap, k), cap)

\* Mutant: a table may fill up.
LateNeedsRoom == count + 1 > capacity

\* count + 1 > capacity * 0.75, in integers.
NeedsRoom == 4 * (count + 1) > 3 * capacity

GrowCapacity(cap) == IF cap < MinCapacity THEN MinCapacity ELSE 2 * cap

Live(es) == {p \in DOMAIN es : es[p].key # NoKey}
NonEmpty(es) == {p \in DOMAIN es : ~is_empty_entry(es[p])}

-----------------------------------------------------------------------------
Init ==
  /\ entries = [p \in {} |-> EmptyEntry]
  /\ fresh = [p \in {} |-> EmptyEntry]
  /\ capacity = 0 /\ count = 0 /\ i = 0
  /\ pc = "idle"
  /\ call = NoCall
  /\ ret = <<"init", NullVal>>

\* hashmap_set and hashmap_get_entry up to the growth they may start with;
\* adjust_capacity allocates and clears the new array and resets the count.
Call(c) ==
  /\ pc = "idle"
  /\ call' = c
  /\ IF NeedsRoom
       THEN /\ GrowCapacity(capacity) <= MaxCapacity
            /\ fresh' = [p \in 0..(GrowCapacity(capacity) - 1) |-> EmptyEntry]
            /\ count' = 0 /\ i' = 0 /\ pc' = "copy"
       ELSE /\ pc' = "entry"
            /\ UNCHANGED <<fresh, count, i>>
  /\ UNCHANGED <<entries, capacity, ret>>

\* One iteration of the copying loop: a live entry moves, a tombstone is dropped.
CopyEntry ==
  /\ pc = "copy" /\ i < capacity
  /\ IF entries[i].key # NoKey
       THEN /\ fresh' = [fresh EXCEPT
                           ![find_entry(fresh, GrowCapacity(capacity), entries[i].key)]
                             = entries[i]]
            /\ count' = count + 1
       ELSE UNCHANGED <<fresh, count>>
  /\ i' = i + 1
  /\ UNCHANGED <<entries, capacity, pc, call, ret>>

\* Mutant: the table keeps its old capacity.
SwapOnlyEntries ==
  /\ pc = "copy" /\ i = capacity
  /\ entries' = fresh
  /\ fresh' = [p \in {} |-> EmptyEntry]
  /\ i' = 0 /\ pc' = "entry"
  /\ UNCHANGED <<capacity, count, call, ret>>

\* The old array is freed and the new one takes its place.
SwapEntries ==
  /\ pc = "copy" /\ i = capacity
  /\ entries' = fresh /\ capacity' = GrowCapacity(capacity)
  /\ fresh' = [p \in {} |-> EmptyEntry]
  /\ i' = 0 /\ pc' = "entry"
  /\ UNCHANGED <<count, call, ret>>

hashmap_set ==
  /\ pc = "entry" /\ call.op = "set"
  /\ LET e == find_entry(entries, capacity, call.key)
     IN  /\ count' = IF is_empty_entry(entries[e]) THEN count + 1 ELSE count
         /\ entries' = [entries EXCEPT ![e] = [key |-> call.key, value |-> call.value]]
         /\ ret' = <<"set", entries[e].key = NoKey>>
  /\ pc' = "idle" /\ call' = NoCall
  /\ UNCHANGED <<capacity, fresh, i>>

hashmap_get_entry ==
  /\ pc = "entry" /\ call.op = "get_entry"
  /\ ret' = <<"get_entry", entries[find_entry(entries, capacity, call.key)].key # NoKey>>
  /\ pc' = "idle" /\ call' = NoCall
  /\ UNCHANGED <<entries, capacity, count, fresh, i>>

\* Mutants: a removal empties the slot, or takes the entry off the count.
RemoveWithoutTombstone(k) ==
  /\ pc = "idle"
  /\ IF count = 0 \/ entries[find_entry(entries, capacity, k)].key = NoKey
       THEN /\ ret' = <<"remove", FALSE>>
            /\ UNCHANGED entries
       ELSE /\ entries' = [entries EXCEPT ![find_entry(entries, capacity, k)] = EmptyEntry]
            /\ ret' = <<"remove", TRUE>>
  /\ UNCHANGED <<capacity, count, pc, call, fresh, i>>

RemoveAndDiscount(k) ==
  /\ pc = "idle"
  /\ IF count = 0 \/ entries[find_entry(entries, capacity, k)].key = NoKey
       THEN /\ ret' = <<"remove", FALSE>>
            /\ UNCHANGED <<entries, count>>
       ELSE /\ entries' = [entries EXCEPT ![find_entry(entries, capacity, k)] = Tombstone]
            /\ count' = count - 1
            /\ ret' = <<"remove", TRUE>>
  /\ UNCHANGED <<capacity, pc, call, fresh, i>>

\* The value at k's slot is replaced by a tombstone; the count stays.
hashmap_remove(k) ==
  /\ pc = "idle"
  /\ IF count = 0 \/ entries[find_entry(entries, capacity, k)].key = NoKey
       THEN /\ ret' = <<"remove", FALSE>>
            /\ UNCHANGED entries
       ELSE /\ entries' = [entries EXCEPT ![find_entry(entries, capacity, k)] = Tombstone]
            /\ ret' = <<"remove", TRUE>>
  /\ UNCHANGED <<capacity, count, pc, call, fresh, i>>

\* The operations that only look; each starts with the test of an empty count.
Look(op, answer) ==
  /\ pc = "idle"
  /\ ret' = <<op, answer>>
  /\ UNCHANGED <<entries, capacity, count, pc, call, fresh, i>>

Found(k) == count # 0 /\ entries[find_entry(entries, capacity, k)].key # NoKey

hashmap_get(k) ==
  Look("get", IF Found(k) THEN entries[find_entry(entries, capacity, k)].value ELSE NullVal)

hashmap_contains_key(k) == Look("contains_key", Found(k))

\* The search by content walks on over tombstones until an empty slot or an
\* equal string; strings are interned, so an equal string is k itself.
hashmap_find_key(k) ==
  Look("find_key",
       IF count # 0 /\ entries[StopOf(entries, capacity, k)].key = k THEN k ELSE NoKey)

\* The slots visited before as many entries as the count have been collected.
Collected == {p \in Live(entries) : Cardinality({q \in Live(entries) : q < p}) < count}

hashmap_keys == Look("keys", {entries[p].key : p \in Collected})
hashmap_values == Look("values", {entries[p].value : p \in Collected})

Next ==
  \/ \E c \in Calls : Call(c)
  \/ CopyEntry
  \/ SwapEntries
  \/ hashmap_set
  \/ hashmap_get_entry
  \/ \E k \in Keys : \/ hashmap_remove(k)
                     \/ hashmap_get(k)
                     \/ hashmap_contains_key(k)
                     \/ hashmap_find_key(k)
  \/ hashmap_keys
  \/ hashmap_values

Spec == Init /\ [][Next]_vars

-----------------------------------------------------------------------------
TableOf(cap) == [0..(cap - 1) -> Entry]

\* Types: an array is a function on its capacity, and only a growing table has two.
TypeOK ==
  /\ capacity \in Nat /\ entries \in TableOf(capacity)
  /\ count \in Nat /\ i \in 0..capacity
  /\ pc \in {"idle", "copy", "entry"}
  /\ call \in IF pc = "idle" THEN {NoCall} ELSE Calls
  /\ fresh \in IF pc = "copy" THEN TableOf(GrowCapacity(capacity)) ELSE TableOf(0)
  /\ pc = "entry" => capacity > 0

\* A table holds a key in one slot, and a probe for it comes to no empty slot
\* before that one: tombstones keep the chain of a removed neighbour together,
\* and a resized table is probed with its own mask.
WellProbed(es, cap) ==
  \A p \in Live(es) :
    /\ \A q \in Live(es) : es[q].key = es[p].key => q = p
    /\ \A q \in DOMAIN es :
         Dist(Home(es[p].key, cap), q, cap) < Dist(Home(es[p].key, cap), p, cap)
           => ~is_empty_entry(es[q])

Reachable ==
  /\ WellProbed(entries, capacity)
  /\ pc = "copy" => WellProbed(fresh, GrowCapacity(capacity))

\* The loops of find_entry and hashmap_find_key end ("dead loop?: no!"): the
\* load factor leaves an empty slot in every array that is probed, tombstones
\* counted, the array adjust_capacity is filling included.
EmptySlotRemains ==
  /\ count > 0 \/ pc = "entry" => capacity > 0 /\ NonEmpty(entries) # DOMAIN entries
  /\ pc = "copy" => NonEmpty(fresh) # DOMAIN fresh

\* The live slots of the old array the copying loop has passed.
Copied == {q \in Live(entries) : q < i}

\* count is what the load factor is tested against: the live entries and the
\* tombstones of the array, and in adjust_capacity the entries copied so far.
CountIsOccupancy ==
  IF pc = "copy"
    THEN /\ count = Cardinality(Copied)
         /\ count = Cardinality(NonEmpty(fresh))
    ELSE count = Cardinality(NonEmpty(entries))

\* What makes the three above inductive: the load of the array, tombstones
\* counted, with room for the insertion that is due ...
LoadInv ==
  /\ capacity = 0 \/ capacity >= MinCapacity
  /\ 4 * Cardinality(NonEmpty(entries)) <= 3 * capacity
  /\ pc = "entry" => 4 * (count + 1) <= 3 * capacity

\* ... and the new array holding the live entries copied so far, nothing else.
CopyInv ==
  pc = "copy" => /\ NonEmpty(fresh) = Live(fresh)
                 /\ {fresh[p] : p \in Live(fresh)} = {entries[p] : p \in Copied}

IInv == TypeOK /\ Reachable /\ CountIsOccupancy /\ LoadInv /\ CopyInv

\* The map the entries stand for, and what the operations answer about it.
DictOf(es) ==
  [k \in {es[p].key : p \in Live(es)} |-> es[CHOOSE p \in Live(es) : es[p].key = k].value]
dict == DictOf(entries)

\* Through any sequence of insertions, removals and resizings the table answers
\* as a partial function from keys to values does.
D == INSTANCE Dictionary
ImplementsDictionary == D!Spec
=============================================================================

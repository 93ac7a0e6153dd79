-------------------------- MODULE ContainerProofs --------------------------
(***************************************************************************)
(* The two containers of the runtime, which every other part stores into.  *)
(* For any keys, hashes and capacities the hash table keeps its types, its *)
(* probe sequences reach every key and always end, the count is the        *)
(* occupancy, and the table implements Dictionary.  For any sizes of       *)
(* blocks, any objects and any elements a vector's pointers stay in a      *)
(* block of its own, no block leaks or is handed out twice, and the        *)
(* vectors implement Lists, whatever blocks they move through.             *)
(***************************************************************************)
EXTENDS HashMap, Vec, FiniteSetTheorems, SequenceTheorems, TLAPS

(***************************************************************************)
(* The hash table                                                          *)
(***************************************************************************)

\* A non-empty set of naturals has a least member: strict inclusion is well-founded
\* on the finite sets 0..n-1.
LEMMA LeastMember ==
  ASSUME NEW S \in SUBSET Nat, S # {}
  PROVE  \E m \in S : \A n \in S : m <= n
<1> DEFINE T == {0..(n - 1) : n \in S}
<1>1. \A n \in S : 0..(n - 1) \in SUBSET Nat /\ IsFiniteSet(0..(n - 1))
  BY FS_Interval
<1>2. T # {} /\ T \subseteq FiniteSubsetsOf(Nat)
  BY <1>1 DEF FiniteSubsetsOf
<1>3. PICK U \in T : \A V \in T : ~ (<<V, U>> \in StrictSubsetOrdering(Nat))
  <2> HIDE DEF T
  <2> QED BY <1>2, FS_StrictSubsetOrderingWellFounded, WFMin
<1>4. PICK m \in S : U = 0..(m - 1)
  OBVIOUS
<1>5. ASSUME NEW n \in S, n < m PROVE FALSE
  <2>1. 0..(n - 1) \subseteq 0..(m - 1) /\ n \in (0..(m - 1)) \ (0..(n - 1))
    BY <1>5
  <2>2. <<0..(n - 1), U>> \in StrictSubsetOrdering(Nat)
    BY <2>1, <1>4 DEF StrictSubsetOrdering
  <2> QED BY <2>2, <1>3
<1> QED BY <1>5

-----------------------------------------------------------------------------
(* Arithmetic of probing.                                                  *)

\* The slot a key hashes to is in the table.
LEMMA HomeType ==
  ASSUME NEW k \in Keys, NEW cap \in Nat \ {0}
  PROVE  Home(k, cap) \in 0..(cap - 1)
BY HashAssumption DEF Home

\* Different slots are at different distances from a home slot.
LEMMA DistFacts ==
  ASSUME NEW cap \in Nat \ {0}, NEW h \in 0..(cap - 1),
         NEW p \in 0..(cap - 1), NEW q \in 0..(cap - 1)
  PROVE  /\ Dist(h, p, cap) \in 0..(cap - 1)
         /\ Dist(h, p, cap) = Dist(h, q, cap) => p = q
BY DEF Dist

\* FirstFrom picks a member, and none is nearer.
LEMMA FirstFromFacts ==
  ASSUME NEW cap \in Nat \ {0}, NEW h \in 0..(cap - 1),
         NEW S \in SUBSET (0..(cap - 1)), S # {}
  PROVE  /\ FirstFrom(h, S, cap) \in S
         /\ \A q \in S : Dist(h, FirstFrom(h, S, cap), cap) <= Dist(h, q, cap)
<1> DEFINE M == {Dist(h, q, cap) : q \in S}
<1>1. M \in SUBSET Nat /\ M # {}
  <2>1. \A q \in S : Dist(h, q, cap) \in Nat
    BY DistFacts
  <2> QED BY <2>1
<1>2. PICK m \in M : \A n \in M : m <= n
  <2> HIDE DEF M
  <2> QED BY <1>1, LeastMember
<1>3. \E p \in S : \A q \in S : Dist(h, p, cap) <= Dist(h, q, cap)
  BY <1>2
<1> QED BY <1>3 DEF FirstFrom

-----------------------------------------------------------------------------
(* What find_entry returns.                                                *)

\* In a table with room a probe for a key stops, with no empty slot and no slot
\* of that key before, and it stops at the key's slot if there is one.
LEMMA StopFacts ==
  ASSUME NEW cap \in Nat \ {0}, NEW es \in TableOf(cap), NEW k \in Keys,
         WellProbed(es, cap), NonEmpty(es) # DOMAIN es
  PROVE  LET s == StopOf(es, cap, k)
             h == Home(k, cap)
         IN  /\ s \in 0..(cap - 1)
             /\ es[s].key \in {k, NoKey}
             /\ (\E p \in 0..(cap - 1) : es[p].key = k) => es[s].key = k
             /\ \A q \in 0..(cap - 1) : Dist(h, q, cap) < Dist(h, s, cap) => ~is_empty_entry(es[q])
<1> DEFINE h == Home(k, cap)
           N == 0..(cap - 1)
           s == StopOf(es, cap, k)
<1>1. h \in N
  BY HomeType
<1>2. DOMAIN es = N /\ \A p \in N : es[p] \in Entry
  BY DEF TableOf
<1>3. Stops(es, k) # {} /\ Stops(es, k) \in SUBSET N
  BY <1>2 DEF Stops, NonEmpty
<1>4. /\ s \in Stops(es, k)
      /\ \A q \in Stops(es, k) : Dist(h, s, cap) <= Dist(h, q, cap)
  <2> HIDE DEF h
  <2>1. s = FirstFrom(h, Stops(es, k), cap)
    BY DEF StopOf, h
  <2> QED BY <1>1, <1>3, <2>1, FirstFromFacts
<1>5. s \in N
  BY <1>3, <1>4
<1>6. \A q \in N : Dist(h, q, cap) \in Nat
  BY <1>1, DistFacts
<1>7. \A q \in N : Dist(h, q, cap) < Dist(h, s, cap) => es[q].key # k /\ ~is_empty_entry(es[q])
  <2> HIDE DEF h, s
  <2> QED BY <1>2, <1>4, <1>5, <1>6 DEF Stops
<1>8. ASSUME NEW p \in N, es[p].key = k PROVE es[s].key = k
  <2>1. p \in Live(es)
    BY <1>8, <1>2, KeysAssumption DEF Live
  <2>2. \A q \in N : Dist(h, q, cap) < Dist(h, p, cap) => ~is_empty_entry(es[q])
    BY <2>1, <1>2, <1>8 DEF WellProbed
  <2>3. p \in Stops(es, k)
    BY <1>2, <1>8 DEF Stops
  <2>4. CASE Dist(h, s, cap) < Dist(h, p, cap)
    BY <2>4, <2>2, <1>4, <1>5 DEF Stops
  <2>5. CASE Dist(h, s, cap) = Dist(h, p, cap)
    <3> HIDE DEF h, s
    <3>1. s = p
      BY <2>5, <1>1, <1>5, DistFacts
    <3> QED BY <3>1, <1>8
  <2>6. Dist(h, s, cap) <= Dist(h, p, cap)
    BY <2>3, <1>4
  <2> HIDE DEF h, s
  <2> QED BY <2>4, <2>5, <2>6, <1>5, <1>6
<1>9. es[s].key \in {k, NoKey}
  BY <1>4 DEF Stops, is_empty_entry
<1> HIDE DEF h, s
<1> QED BY <1>5, <1>7, <1>8, <1>9 DEF h, s

\* In a table with room, the loop ends, at the key's slot if it has one, and
\* otherwise at a free slot with no empty slot before it.
LEMMA FindEntryFacts ==
  ASSUME NEW cap \in Nat \ {0}, NEW es \in TableOf(cap), NEW k \in Keys,
         WellProbed(es, cap), NonEmpty(es) # DOMAIN es
  PROVE  LET e == find_entry(es, cap, k)
             h == Home(k, cap)
         IN  /\ e \in 0..(cap - 1)
             /\ es[e].key \in {k, NoKey}
             /\ (\E p \in 0..(cap - 1) : es[p].key = k) => es[e].key = k
             /\ es[e].key = NoKey =>
                  \A q \in 0..(cap - 1) : Dist(h, q, cap) < Dist(h, e, cap) => ~is_empty_entry(es[q])
<1> DEFINE h == Home(k, cap)
           N == 0..(cap - 1)
           s == StopOf(es, cap, k)
           T == Passed(es, cap, k)
           e == find_entry(es, cap, k)
<1>1. h \in N
  BY HomeType
<1>2. DOMAIN es = N
  BY DEF TableOf
<1>3. /\ s \in N /\ es[s].key \in {k, NoKey}
      /\ (\E p \in N : es[p].key = k) => es[s].key = k
      /\ \A q \in N : Dist(h, q, cap) < Dist(h, s, cap) => ~is_empty_entry(es[q])
  BY StopFacts
<1>4. \A q \in N : Dist(h, q, cap) \in Nat
  BY <1>1, DistFacts
<1>5. CASE es[s].key = k \/ T = {}
  <2>1. e = s
    BY <1>5 DEF find_entry
  <2> HIDE DEF h, s, e
  <2> QED BY <2>1, <1>3 DEF h, e
<1>6. CASE es[s].key # k /\ T # {}
  <2>1. e = FirstFrom(h, T, cap)
    BY <1>6 DEF find_entry
  <2>2. T \in SUBSET N
    BY <1>2 DEF Passed
  <2>3. e \in T
    <3> HIDE DEF h, T, e
    <3> QED BY <1>1, <1>6, <2>1, <2>2, FirstFromFacts
  <2>4. e \in N /\ es[e].key = NoKey /\ Dist(h, e, cap) < Dist(h, s, cap)
    BY <2>2, <2>3 DEF Passed, IsTombstone
  <2> HIDE DEF h, s, e
  <2>5. \A q \in N : Dist(h, q, cap) < Dist(h, e, cap) => ~is_empty_entry(es[q])
    BY <2>4, <1>3, <1>4
  <2> QED BY <2>4, <2>5, <1>3, <1>6 DEF h, e
<1> QED BY <1>5, <1>6

\* Writing the key into the slot find_entry returned keeps every chain.
LEMMA InsertKeepsProbing ==
  ASSUME NEW cap \in Nat \ {0}, NEW es \in TableOf(cap), NEW x \in Entry, x.key \in Keys,
         WellProbed(es, cap), NonEmpty(es) # DOMAIN es,
         NEW e, e = find_entry(es, cap, x.key)
  PROVE  LET es2 == [es EXCEPT ![e] = x]
         IN  /\ es2 \in TableOf(cap)
             /\ WellProbed(es2, cap)
             /\ Live(es2) = Live(es) \cup {e}
             /\ NonEmpty(es2) = NonEmpty(es) \cup {e}
<1> DEFINE es2 == [es EXCEPT ![e] = x]
           k == x.key
           h == Home(k, cap)
           N == 0..(cap - 1)
<1>1. /\ e \in N
      /\ es[e].key \in {k, NoKey}
      /\ (\E p \in N : es[p].key = k) => es[e].key = k
      /\ es[e].key = NoKey =>
           \A q \in N : Dist(h, q, cap) < Dist(h, e, cap) => ~is_empty_entry(es[q])
  BY FindEntryFacts
<1>2. /\ DOMAIN es = N /\ DOMAIN es2 = N
      /\ \A p \in N : es2[p] = IF p = e THEN x ELSE es[p]
      /\ k # NoKey
  BY KeysAssumption DEF TableOf
<1>3. es2 \in TableOf(cap)
  BY <1>1, <1>2 DEF TableOf
<1>4. /\ Live(es2) = Live(es) \cup {e}
      /\ NonEmpty(es2) = NonEmpty(es) \cup {e}
  BY <1>1, <1>2 DEF Live, NonEmpty, is_empty_entry
<1>5. ASSUME NEW p \in Live(es2), NEW q \in Live(es2), es2[q].key = es2[p].key
      PROVE  q = p
  <2>1. p \in N /\ q \in N
    BY <1>2, <1>5 DEF Live
  <2>2. CASE p # e /\ q # e
    BY <2>1, <2>2, <1>2, <1>4, <1>5 DEF WellProbed
  <2>3. \A r \in N : r # e => es[r].key # k
    <3> SUFFICES ASSUME NEW r \in N, r # e, es[r].key = k PROVE FALSE
      OBVIOUS
    <3>1. es[e].key = k
      BY <1>1
    <3>2. r \in Live(es) /\ e \in Live(es)
      BY <3>1, <1>1, <1>2 DEF Live
    <3> QED BY <3>1, <3>2 DEF WellProbed
  <2> HIDE DEF es2, k
  <2> QED BY <2>1, <2>2, <2>3, <1>2, <1>5 DEF k
<1>6. ASSUME NEW p \in Live(es2), NEW q \in N,
             Dist(Home(es2[p].key, cap), q, cap) < Dist(Home(es2[p].key, cap), p, cap)
      PROVE  ~is_empty_entry(es2[q])
  <2>1. q = e => ~is_empty_entry(es2[q])
    BY <1>2 DEF is_empty_entry
  <2>2. CASE q # e /\ p # e
    <3>1. p \in N /\ p \in Live(es) /\ es2[p] = es[p] /\ es2[q] = es[q]
      BY <2>2, <1>2, <1>4 DEF Live
    <3> QED BY <3>1, <1>2, <1>6 DEF WellProbed
  <2>3. CASE q # e /\ p = e
    <3>1. es2[p].key = k /\ es2[q] = es[q]
      BY <2>3, <1>1, <1>2
    <3>2. Dist(h, q, cap) < Dist(h, e, cap)
      BY <3>1, <2>3, <1>6
    <3>3. CASE es[e].key = NoKey
      BY <3>1, <3>2, <3>3, <1>1
    <3>4. CASE es[e].key = k
      <4>1. e \in Live(es)
        BY <3>4, <1>1, <1>2 DEF Live
      <4> QED BY <4>1, <3>1, <3>2, <3>4, <1>2 DEF WellProbed
    <3> QED BY <3>3, <3>4, <1>1
  <2> QED BY <2>1, <2>2, <2>3
<1>7. WellProbed(es2, cap)
  BY <1>2, <1>5, <1>6 DEF WellProbed
<1> QED BY <1>3, <1>4, <1>7

\* A tombstone in the key's slot keeps every chain, and is counted like the key.
LEMMA RemoveKeepsProbing ==
  ASSUME NEW cap \in Nat \ {0}, NEW es \in TableOf(cap), WellProbed(es, cap),
         NEW e \in Live(es)
  PROVE  LET es2 == [es EXCEPT ![e] = Tombstone]
         IN  /\ es2 \in TableOf(cap)
             /\ WellProbed(es2, cap)
             /\ Live(es2) = Live(es) \ {e}
             /\ NonEmpty(es2) = NonEmpty(es)
<1> DEFINE es2 == [es EXCEPT ![e] = Tombstone]
           N == 0..(cap - 1)
<1>1. /\ DOMAIN es = N /\ DOMAIN es2 = N /\ e \in N
      /\ \A p \in N : es2[p] = IF p = e THEN Tombstone ELSE es[p]
  BY DEF TableOf, Live
<1>2. Tombstone \in Entry /\ ~is_empty_entry(Tombstone) /\ Tombstone.key = NoKey
  BY ValsAssumption DEF Tombstone, Entry, is_empty_entry
<1>3. es2 \in TableOf(cap)
  BY <1>1, <1>2 DEF TableOf
<1>4. /\ Live(es2) = Live(es) \ {e}
      /\ NonEmpty(es2) = NonEmpty(es)
  <2>1. ~is_empty_entry(es[e])
    BY DEF Live, is_empty_entry
  <2> QED BY <2>1, <1>1, <1>2 DEF Live, NonEmpty
<1>5. WellProbed(es2, cap)
  <2>1. \A p \in Live(es2) : p \in Live(es) /\ es2[p] = es[p]
    BY <1>1, <1>4 DEF Live
  <2>2. \A q \in N : ~is_empty_entry(es[q]) => ~is_empty_entry(es2[q])
    BY <1>1, <1>2
  <2> HIDE DEF es2, N
  <2> QED BY <2>1, <2>2, <1>1 DEF WellProbed
<1> QED BY <1>3, <1>4, <1>5

\* An array of empty entries has nothing to probe for.
LEMMA EmptyTableFacts ==
  ASSUME NEW cap \in Nat
  PROVE  LET es == [p \in 0..(cap - 1) |-> EmptyEntry]
         IN  es \in TableOf(cap) /\ WellProbed(es, cap) /\ Live(es) = {} /\ NonEmpty(es) = {}
BY DEF TableOf, EmptyEntry, Entry, WellProbed, Live, NonEmpty, is_empty_entry

\* The slots in use are finitely many, and all slots are when the table is full.
LEMMA OccupancyFacts ==
  ASSUME NEW cap \in Nat, NEW es \in TableOf(cap)
  PROVE  /\ IsFiniteSet(NonEmpty(es)) /\ IsFiniteSet(Live(es))
         /\ Cardinality(NonEmpty(es)) \in Nat /\ Cardinality(Live(es)) \in Nat
         /\ Live(es) \subseteq NonEmpty(es)
         /\ Cardinality(Live(es)) <= Cardinality(NonEmpty(es))
         /\ Cardinality(NonEmpty(es)) <= cap
         /\ Cardinality(DOMAIN es) = cap
<1>1. /\ DOMAIN es = 0..(cap - 1)
      /\ IsFiniteSet(0..(cap - 1)) /\ Cardinality(0..(cap - 1)) = cap
  BY FS_Interval DEF TableOf
<1>2. /\ NonEmpty(es) \in SUBSET (0..(cap - 1))
      /\ Live(es) \in SUBSET NonEmpty(es)
  BY <1>1 DEF NonEmpty, Live, is_empty_entry
<1>3. IsFiniteSet(NonEmpty(es)) /\ Cardinality(NonEmpty(es)) <= cap
  BY <1>1, <1>2, FS_Subset
<1>4. IsFiniteSet(Live(es)) /\ Cardinality(Live(es)) <= Cardinality(NonEmpty(es))
  BY <1>2, <1>3, FS_Subset
<1> QED BY <1>1, <1>2, <1>3, <1>4, FS_CardinalityType

\* A grown table is larger than the one before, and never smaller than the least.
LEMMA GrowFacts ==
  ASSUME NEW cap \in Nat, cap = 0 \/ cap >= MinCapacity
  PROVE  /\ GrowCapacity(cap) \in Nat /\ GrowCapacity(cap) > cap
         /\ GrowCapacity(cap) >= MinCapacity
         /\ \A n \in Nat : 4 * n <= 3 * cap => 4 * (n + 1) <= 3 * GrowCapacity(cap)
BY CapacityAssumption DEF GrowCapacity

-----------------------------------------------------------------------------
(* The inductive invariant.                                                *)

\* The invariant leaves an empty slot in each array that is probed.
LEMMA RoomInBothArrays == IInv => EmptySlotRemains
<1> SUFFICES ASSUME IInv PROVE EmptySlotRemains
  OBVIOUS
<1>1. /\ capacity \in Nat /\ entries \in TableOf(capacity) /\ count \in Nat
      /\ pc = "copy" => fresh \in TableOf(GrowCapacity(capacity))
  BY DEF IInv, TypeOK
<1>2. IsFiniteSet(Copied) /\ Cardinality(Copied) <= Cardinality(NonEmpty(entries))
  <2>1. Copied \in SUBSET NonEmpty(entries)
    BY <1>1, OccupancyFacts DEF Copied
  <2> QED BY <2>1, <1>1, OccupancyFacts, FS_Subset
<1>3. ASSUME count > 0 \/ pc = "entry"
      PROVE  capacity > 0 /\ NonEmpty(entries) # DOMAIN entries
  <2>1. capacity > 0
    <3>1. CASE pc = "copy"
      BY <3>1, <1>1, <1>2, <1>3, OccupancyFacts, FS_CardinalityType DEF IInv, CountIsOccupancy
    <3>2. CASE pc # "copy"
      BY <3>2, <1>1, <1>3, OccupancyFacts DEF IInv, CountIsOccupancy, TypeOK
    <3> QED BY <3>1, <3>2
  <2>2. Cardinality(NonEmpty(entries)) < capacity
    BY <2>1, <1>1, OccupancyFacts DEF IInv, LoadInv
  <2> QED BY <2>1, <2>2, <1>1, OccupancyFacts
<1>4. ASSUME pc = "copy" PROVE NonEmpty(fresh) # DOMAIN fresh
  <2>1. Cardinality(NonEmpty(fresh)) <= Cardinality(NonEmpty(entries))
    BY <1>2, <1>4 DEF IInv, CountIsOccupancy
  <2>2. Cardinality(NonEmpty(entries)) <= capacity
    BY <1>1, OccupancyFacts
  <2>3. GrowCapacity(capacity) \in Nat /\ GrowCapacity(capacity) > capacity
    BY <1>1, GrowFacts DEF IInv, LoadInv
  <2> QED BY <2>1, <2>2, <2>3, <1>1, <1>4, OccupancyFacts
<1> QED BY <1>3, <1>4 DEF EmptySlotRemains

\* The initial state satisfies the invariant.
LEMMA InitIInv == Init => IInv
<1> SUFFICES ASSUME Init PROVE IInv
  OBVIOUS
<1>1. /\ entries = [p \in 0..(0 - 1) |-> EmptyEntry] /\ fresh = entries
      /\ capacity = 0 /\ count = 0 /\ i = 0 /\ pc = "idle" /\ call = NoCall
  BY DEF Init
<1>2. /\ entries \in TableOf(0) /\ WellProbed(entries, 0)
      /\ Live(entries) = {} /\ NonEmpty(entries) = {}
  BY <1>1, EmptyTableFacts
<1>3. Cardinality({}) = 0
  BY FS_EmptySet
<1>4. TypeOK
  BY <1>1, <1>2 DEF TypeOK
<1>5. Reachable /\ CopyInv
  BY <1>1, <1>2 DEF Reachable, CopyInv
<1>6. Cardinality(NonEmpty(entries)) = 0
  BY <1>2, <1>3
<1>7. CountIsOccupancy
  BY <1>1, <1>6 DEF CountIsOccupancy
<1>8. LoadInv
  BY <1>1, <1>6 DEF LoadInv
<1> QED BY <1>4, <1>5, <1>7, <1>8 DEF IInv

\* The beginning of an insertion, with or without a growth, keeps the invariant.
LEMMA CallKeepsIInv == ASSUME IInv, NEW c \in Calls, Call(c) PROVE IInv'
<1>1. /\ pc = "idle" /\ call' = c
      /\ entries' = entries /\ capacity' = capacity
      /\ capacity \in Nat /\ entries \in TableOf(capacity) /\ count \in Nat
      /\ i \in 0..capacity /\ fresh \in TableOf(0)
      /\ capacity = 0 \/ capacity >= MinCapacity
      /\ WellProbed(entries, capacity)
      /\ count = Cardinality(NonEmpty(entries))
      /\ 4 * Cardinality(NonEmpty(entries)) <= 3 * capacity
  BY DEF Call, IInv, TypeOK, Reachable, CountIsOccupancy, LoadInv
<1>2. CASE NeedsRoom
  <2>1. /\ fresh' = [p \in 0..(GrowCapacity(capacity) - 1) |-> EmptyEntry]
        /\ count' = 0 /\ i' = 0 /\ pc' = "copy"
    BY <1>2 DEF Call
  <2>2. GrowCapacity(capacity) \in Nat
    BY <1>1, GrowFacts
  <2>3. /\ fresh' \in TableOf(GrowCapacity(capacity))
        /\ WellProbed(fresh', GrowCapacity(capacity))
        /\ Live(fresh') = {} /\ NonEmpty(fresh') = {}
    BY <2>1, <2>2, EmptyTableFacts
  <2>4. Copied' = {}
    BY <1>1, <2>1 DEF Copied, Live, TableOf
  <2>5. Cardinality({}) = 0
    BY FS_EmptySet
  <2>6. TypeOK'
    BY <1>1, <2>1, <2>3 DEF TypeOK
  <2>7. Reachable' /\ CopyInv'
    BY <1>1, <2>1, <2>3, <2>4 DEF Reachable, CopyInv
  <2>8. CountIsOccupancy'
    BY <2>1, <2>3, <2>4, <2>5 DEF CountIsOccupancy
  <2>9. LoadInv'
    BY <1>1, <2>1 DEF LoadInv
  <2> QED BY <2>6, <2>7, <2>8, <2>9 DEF IInv
<1>3. CASE ~NeedsRoom
  <2>1. pc' = "entry" /\ fresh' = fresh /\ count' = count /\ i' = i
    BY <1>3 DEF Call
  <2>2. 4 * (count + 1) <= 3 * capacity
    BY <1>1, <1>3 DEF NeedsRoom
  <2>3. TypeOK'
    BY <1>1, <2>1, <2>2 DEF TypeOK
  <2>4. Reachable' /\ CopyInv' /\ CountIsOccupancy' /\ LoadInv'
    BY <1>1, <2>1, <2>2 DEF Reachable, CopyInv, CountIsOccupancy, LoadInv
  <2> QED BY <2>3, <2>4 DEF IInv
<1> QED BY <1>2, <1>3

\* Copying an entry to the grown array keeps the invariant.
LEMMA CopyEntryKeepsIInv == ASSUME IInv, CopyEntry PROVE IInv'
<1> DEFINE cap == GrowCapacity(capacity)
           x == entries[i]
           e == find_entry(fresh, cap, x.key)
<1>1. /\ pc = "copy" /\ pc' = "copy" /\ i < capacity /\ i' = i + 1
      /\ entries' = entries /\ capacity' = capacity /\ call' = call /\ call \in Calls
      /\ capacity \in Nat /\ entries \in TableOf(capacity) /\ count \in Nat
      /\ i \in 0..capacity /\ fresh \in TableOf(cap)
      /\ WellProbed(entries, capacity) /\ WellProbed(fresh, cap)
      /\ count = Cardinality(Copied) /\ count = Cardinality(NonEmpty(fresh))
      /\ NonEmpty(fresh) = Live(fresh)
      /\ {fresh[p] : p \in Live(fresh)} = {entries[p] : p \in Copied}
      /\ capacity = 0 \/ capacity >= MinCapacity
      /\ 4 * Cardinality(NonEmpty(entries)) <= 3 * capacity
  BY DEF CopyEntry, IInv, TypeOK, Reachable, CountIsOccupancy, LoadInv, CopyInv
<1>2. cap \in Nat \ {0} /\ NonEmpty(fresh) # DOMAIN fresh
  <2>1. cap \in Nat /\ cap > capacity
    BY <1>1, GrowFacts
  <2>2. EmptySlotRemains
    BY RoomInBothArrays
  <2> QED BY <2>1, <2>2, <1>1 DEF EmptySlotRemains
<1>3. i \in 0..(capacity - 1) /\ DOMAIN entries = 0..(capacity - 1) /\ x \in Entry
  BY <1>1 DEF TableOf
<1>4. CASE x.key # NoKey
  <2>1. /\ fresh' = [fresh EXCEPT ![e] = x] /\ count' = count + 1
    BY <1>4 DEF CopyEntry
  <2>2. x.key \in Keys
    BY <1>3, <1>4 DEF Entry
  <2>3. /\ fresh' \in TableOf(cap) /\ WellProbed(fresh', cap)
        /\ Live(fresh') = Live(fresh) \cup {e}
        /\ NonEmpty(fresh') = NonEmpty(fresh) \cup {e}
    <3>1. e = find_entry(fresh, cap, x.key)
      OBVIOUS
    <3>0. /\ fresh \in TableOf(cap) /\ WellProbed(fresh, cap)
          /\ cap \in Nat \ {0} /\ NonEmpty(fresh) # DOMAIN fresh
          /\ x \in Entry /\ x.key \in Keys
      BY <1>1, <1>2, <1>3, <2>2
    <3> HIDE DEF cap, x, e
    <3>2. [fresh EXCEPT ![e] = x] \in TableOf(cap)
      BY <3>0, <3>1, InsertKeepsProbing
    <3>3. WellProbed([fresh EXCEPT ![e] = x], cap)
      BY <3>0, <3>1, InsertKeepsProbing
    <3>4. Live([fresh EXCEPT ![e] = x]) = Live(fresh) \cup {e}
      BY <3>0, <3>1, InsertKeepsProbing
    <3>5. NonEmpty([fresh EXCEPT ![e] = x]) = NonEmpty(fresh) \cup {e}
      BY <3>0, <3>1, InsertKeepsProbing
    <3> QED BY <2>1, <3>2, <3>3, <3>4, <3>5
  <2>4. i \in Live(entries) /\ i \notin Copied /\ Copied' = Copied \cup {i}
    <3>1. i \in Live(entries)
      BY <1>3, <1>4 DEF Live
    <3> QED BY <3>1, <1>1, <1>3 DEF Copied, Live
  <2>5. e \in 0..(cap - 1) /\ e \notin Live(fresh)
    <3>1. /\ e \in 0..(cap - 1) /\ fresh[e].key \in {x.key, NoKey}
      <4> HIDE DEF cap, x
      <4> QED BY <1>1, <1>2, <2>2, FindEntryFacts
    <3>2. \A p \in Live(fresh) : fresh[p].key # x.key
      <4> SUFFICES ASSUME NEW p \in Live(fresh), fresh[p].key = x.key PROVE FALSE
        OBVIOUS
      <4>1. PICK q \in Copied : fresh[p] = entries[q]
        BY <1>1
      <4>2. q \in Live(entries) /\ entries[q].key = entries[i].key
        BY <4>1 DEF Copied
      <4> QED BY <4>1, <4>2, <2>4, <1>1 DEF WellProbed
    <3> QED BY <3>1, <3>2 DEF Live
  <2>6. /\ Cardinality(Copied') = count + 1
        /\ Cardinality(NonEmpty(fresh')) = count + 1
    <3>1. IsFiniteSet(Copied) /\ IsFiniteSet(NonEmpty(fresh))
      <4>1. Copied \in SUBSET Live(entries)
        BY DEF Copied
      <4> HIDE DEF cap
      <4> QED BY <4>1, <1>1, <1>2, OccupancyFacts, FS_Subset
    <3> HIDE DEF e
    <3>2. Cardinality(Copied \cup {i}) = Cardinality(Copied) + 1
      BY <3>1, <2>4, FS_AddElement
    <3>3. Cardinality(NonEmpty(fresh) \cup {e}) = Cardinality(NonEmpty(fresh)) + 1
      BY <3>1, <1>1, <2>5, FS_AddElement
    <3> QED BY <3>2, <3>3, <1>1, <2>3, <2>4
  <2>7. {fresh'[p] : p \in Live(fresh')} = {entries[p] : p \in Copied'}
    <3>1. \A p \in Live(fresh) : fresh'[p] = fresh[p]
      BY <2>1, <2>5 DEF Live
    <3>2. fresh'[e] = x
      BY <2>1, <2>5, <1>1 DEF TableOf
    <3> HIDE DEF e
    <3>3. {fresh'[p] : p \in Live(fresh')} = {fresh[p] : p \in Live(fresh)} \cup {x}
      BY <3>1, <3>2, <2>3
    <3> QED BY <3>3, <1>1, <2>4
  <2>8. TypeOK'
    BY <1>1, <2>1, <2>3 DEF TypeOK
  <2>9. Reachable' /\ CountIsOccupancy' /\ LoadInv'
    BY <1>1, <2>1, <2>3, <2>6 DEF Reachable, CountIsOccupancy, LoadInv
  <2>10. CopyInv'
    BY <1>1, <2>3, <2>7 DEF CopyInv
  <2> QED BY <2>8, <2>9, <2>10 DEF IInv
<1>5. CASE x.key = NoKey
  <2>1. fresh' = fresh /\ count' = count
    BY <1>5 DEF CopyEntry
  <2>2. Copied' = Copied
    <3>1. i \notin Live(entries)
      BY <1>5 DEF Live
    <3> QED BY <3>1, <1>1, <1>3 DEF Copied, Live
  <2>3. TypeOK'
    BY <1>1, <2>1 DEF TypeOK
  <2>4. Reachable' /\ CountIsOccupancy' /\ LoadInv' /\ CopyInv'
    BY <1>1, <2>1, <2>2 DEF Reachable, CountIsOccupancy, LoadInv, CopyInv
  <2> QED BY <2>3, <2>4 DEF IInv
<1> QED BY <1>4, <1>5

\* The grown array takes the place of the old one, and everything is found in it.
LEMMA SwapEntriesKeepsIInv == ASSUME IInv, SwapEntries PROVE IInv'
<1> DEFINE cap == GrowCapacity(capacity)
<1>1. /\ pc = "copy" /\ pc' = "entry" /\ i = capacity /\ i' = 0
      /\ entries' = fresh /\ capacity' = cap /\ call' = call /\ call \in Calls
      /\ fresh' = [p \in {} |-> EmptyEntry] /\ count' = count
      /\ capacity \in Nat /\ entries \in TableOf(capacity) /\ count \in Nat
      /\ fresh \in TableOf(cap) /\ WellProbed(fresh, cap)
      /\ count = Cardinality(Copied) /\ count = Cardinality(NonEmpty(fresh))
      /\ capacity = 0 \/ capacity >= MinCapacity
      /\ 4 * Cardinality(NonEmpty(entries)) <= 3 * capacity
  BY DEF SwapEntries, IInv, TypeOK, Reachable, CountIsOccupancy, LoadInv
<1>2. cap \in Nat /\ cap >= MinCapacity /\ cap > 0
  BY <1>1, GrowFacts
<1>3. fresh' \in TableOf(0)
  BY <1>1 DEF TableOf
<1>4. 4 * (count + 1) <= 3 * cap
  <2>1. Copied \in SUBSET NonEmpty(entries)
    BY <1>1, OccupancyFacts DEF Copied
  <2>2. count <= Cardinality(NonEmpty(entries))
    <3>1. IsFiniteSet(NonEmpty(entries))
      BY <1>1, OccupancyFacts
    <3> QED BY <2>1, <3>1, <1>1, FS_Subset
  <2>3. Cardinality(NonEmpty(entries)) \in Nat
    BY <1>1, OccupancyFacts
  <2>4. 4 * count <= 3 * capacity
    BY <2>2, <2>3, <1>1
  <2> QED BY <2>4, <1>1, GrowFacts
<1>5. TypeOK'
  BY <1>1, <1>2, <1>3 DEF TypeOK
<1>6. Reachable' /\ CountIsOccupancy' /\ CopyInv'
  BY <1>1 DEF Reachable, CountIsOccupancy, CopyInv
<1>7. LoadInv'
  <2>1. 4 * Cardinality(NonEmpty(fresh)) <= 3 * cap
    BY <1>1, <1>2, <1>4
  <2> HIDE DEF cap
  <2> QED BY <2>1, <1>1, <1>2, <1>4 DEF LoadInv
<1> QED BY <1>5, <1>6, <1>7 DEF IInv

\* What an operation may assume of the array when it is about to probe it.
LEMMA ProbingFacts ==
  ASSUME IInv, pc = "entry" \/ (pc = "idle" /\ count # 0)
  PROVE  /\ capacity \in Nat \ {0} /\ entries \in TableOf(capacity)
         /\ WellProbed(entries, capacity) /\ NonEmpty(entries) # DOMAIN entries
<1>1. EmptySlotRemains
  BY RoomInBothArrays
<1>2. count \in Nat /\ capacity \in Nat
  BY DEF IInv, TypeOK
<1> QED BY <1>1, <1>2 DEF IInv, TypeOK, Reachable, EmptySlotRemains

\* Storing the entry keeps the invariant.
LEMMA SetKeepsIInv == ASSUME IInv, hashmap_set PROVE IInv'
<1> DEFINE e == find_entry(entries, capacity, call.key)
           x == [key |-> call.key, value |-> call.value]
<1>1. /\ pc = "entry" /\ pc' = "idle" /\ call' = NoCall /\ capacity' = capacity
      /\ fresh' = fresh /\ i' = i /\ entries' = [entries EXCEPT ![e] = x]
      /\ count' = IF is_empty_entry(entries[e]) THEN count + 1 ELSE count
      /\ call.key \in Keys /\ x \in Entry /\ count \in Nat /\ i \in 0..capacity
      /\ fresh \in TableOf(0)
      /\ capacity = 0 \/ capacity >= MinCapacity
      /\ 4 * (count + 1) <= 3 * capacity
      /\ count = Cardinality(NonEmpty(entries))
  BY DEF hashmap_set, IInv, TypeOK, LoadInv, CountIsOccupancy, Calls, Entry
<1>2. /\ capacity \in Nat \ {0} /\ entries \in TableOf(capacity)
      /\ WellProbed(entries, capacity) /\ NonEmpty(entries) # DOMAIN entries
  BY <1>1, ProbingFacts
<1>3. /\ entries' \in TableOf(capacity)
      /\ WellProbed(entries', capacity)
      /\ NonEmpty(entries') = NonEmpty(entries) \cup {e}
  <2>1. x.key = call.key
    OBVIOUS
  <2>2. e = find_entry(entries, capacity, x.key)
    OBVIOUS
  <2>0. x \in Entry /\ x.key \in Keys
    BY <1>1
  <2> HIDE DEF e, x
  <2>3. [entries EXCEPT ![e] = x] \in TableOf(capacity)
    BY <1>2, <2>0, <2>2, InsertKeepsProbing
  <2>4. WellProbed([entries EXCEPT ![e] = x], capacity)
    BY <1>2, <2>0, <2>2, InsertKeepsProbing
  <2>5. NonEmpty([entries EXCEPT ![e] = x]) = NonEmpty(entries) \cup {e}
    BY <1>2, <2>0, <2>2, InsertKeepsProbing
  <2> QED BY <1>1, <2>3, <2>4, <2>5
<1>4. e \in 0..(capacity - 1)
  BY <1>1, <1>2, FindEntryFacts
<1>5. count' = Cardinality(NonEmpty(entries'))
  <2>1. is_empty_entry(entries[e]) <=> e \notin NonEmpty(entries)
    BY <1>2, <1>4 DEF NonEmpty, TableOf
  <2>2. IsFiniteSet(NonEmpty(entries))
    BY <1>2, OccupancyFacts
  <2>3. Cardinality(NonEmpty(entries) \cup {e}) =
          IF e \in NonEmpty(entries) THEN count ELSE count + 1
    BY <2>2, <1>1, FS_AddElement
  <2> HIDE DEF e
  <2> QED BY <2>1, <2>3, <1>1, <1>3
<1>6. count' \in Nat /\ 4 * count' <= 3 * capacity
  <2> HIDE DEF e
  <2> QED BY <1>1, <1>2
<1> HIDE DEF e, x
<1>7. TypeOK'
  BY <1>1, <1>2, <1>3, <1>6 DEF TypeOK
<1>8. Reachable' /\ CountIsOccupancy' /\ CopyInv'
  BY <1>1, <1>3, <1>5 DEF Reachable, CountIsOccupancy, CopyInv
<1>9. LoadInv'
  BY <1>1, <1>5, <1>6 DEF LoadInv
<1> QED BY <1>7, <1>8, <1>9 DEF IInv

\* A lookup by the prepared call keeps the invariant.
LEMMA GetEntryKeepsIInv == ASSUME IInv, hashmap_get_entry PROVE IInv'
<1>1. /\ pc = "entry" /\ pc' = "idle" /\ call' = NoCall /\ capacity' = capacity
      /\ fresh' = fresh /\ i' = i /\ entries' = entries /\ count' = count
  BY DEF hashmap_get_entry
<1>2. Copied' = Copied
  BY <1>1 DEF Copied
<1>3. TypeOK'
  BY <1>1 DEF IInv, TypeOK
<1> QED BY <1>1, <1>2, <1>3 DEF IInv, Reachable, CountIsOccupancy, LoadInv, CopyInv

\* A removal leaves a tombstone, over which the other keys are still found.
LEMMA RemoveKeepsIInv == ASSUME IInv, NEW k \in Keys, hashmap_remove(k) PROVE IInv'
<1> DEFINE e == find_entry(entries, capacity, k)
<1>1. /\ pc = "idle" /\ pc' = pc /\ call' = call /\ capacity' = capacity
      /\ fresh' = fresh /\ i' = i /\ count' = count
  BY DEF hashmap_remove
<1>2. CASE entries' = entries
  <2>1. Copied' = Copied
    BY <1>1, <1>2 DEF Copied
  <2>2. TypeOK'
    BY <1>1, <1>2 DEF IInv, TypeOK
  <2> QED BY <1>1, <1>2, <2>1, <2>2 DEF IInv, Reachable, CountIsOccupancy, LoadInv, CopyInv
<1>3. CASE entries' # entries
  <2>1. count # 0 /\ entries[e].key # NoKey /\ entries' = [entries EXCEPT ![e] = Tombstone]
    BY <1>3 DEF hashmap_remove
  <2>2. /\ capacity \in Nat \ {0} /\ entries \in TableOf(capacity)
        /\ WellProbed(entries, capacity) /\ NonEmpty(entries) # DOMAIN entries
    BY <1>1, <2>1, ProbingFacts
  <2>3. e \in Live(entries)
    <3>1. e \in 0..(capacity - 1)
      BY <2>2, FindEntryFacts
    <3> QED BY <3>1, <2>1, <2>2 DEF Live, TableOf
  <2> HIDE DEF e
  <2>4. entries' \in TableOf(capacity)
    BY <2>1, <2>2, <2>3, RemoveKeepsProbing
  <2>5. WellProbed(entries', capacity)
    BY <2>1, <2>2, <2>3, RemoveKeepsProbing
  <2>6. NonEmpty(entries') = NonEmpty(entries)
    BY <2>1, <2>2, <2>3, RemoveKeepsProbing
  <2>7. TypeOK'
    BY <1>1, <2>4 DEF IInv, TypeOK
  <2> QED BY <1>1, <2>5, <2>6, <2>7
          DEF IInv, Reachable, CountIsOccupancy, LoadInv, CopyInv
<1> QED BY <1>2, <1>3

\* Everything but the array, the count and the growth under way is unchanged.
LEMMA LookKeepsIInv ==
  ASSUME IInv, UNCHANGED <<entries, capacity, count, pc, call, fresh, i>> PROVE IInv'
<1>1. Copied' = Copied
  BY DEF Copied
<1>2. TypeOK'
  BY DEF IInv, TypeOK
<1> QED BY <1>1, <1>2 DEF IInv, Reachable, CountIsOccupancy, LoadInv, CopyInv

\* Every step keeps the invariant.
LEMMA NextKeepsIInv == IInv /\ [Next]_vars => IInv'
<1> SUFFICES ASSUME IInv, [Next]_vars PROVE IInv'
  OBVIOUS
<1>1. ASSUME NEW c \in Calls, Call(c) PROVE IInv'
  BY <1>1, CallKeepsIInv
<1>2. CASE CopyEntry
  BY <1>2, CopyEntryKeepsIInv
<1>3. CASE SwapEntries
  BY <1>3, SwapEntriesKeepsIInv
<1>4. CASE hashmap_set
  BY <1>4, SetKeepsIInv
<1>5. CASE hashmap_get_entry
  BY <1>5, GetEntryKeepsIInv
<1>6. ASSUME NEW k \in Keys, hashmap_remove(k) PROVE IInv'
  BY <1>6, RemoveKeepsIInv
<1>7. ASSUME NEW k \in Keys, hashmap_get(k) \/ hashmap_contains_key(k) \/ hashmap_find_key(k)
      PROVE  IInv'
  BY <1>7, LookKeepsIInv DEF hashmap_get, hashmap_contains_key, hashmap_find_key, Look
<1>8. CASE hashmap_keys \/ hashmap_values
  BY <1>8, LookKeepsIInv DEF hashmap_keys, hashmap_values, Look
<1>9. CASE UNCHANGED vars
  BY <1>9, LookKeepsIInv DEF vars
<1> QED BY <1>1, <1>2, <1>3, <1>4, <1>5, <1>6, <1>7, <1>8, <1>9 DEF Next

\* The array has its types, every key it holds is found by probing from its
\* home, there is always an empty slot to end a probe, and the count is the
\* number of occupied slots, tombstones included.
THEOREM TableIsSound ==
  Spec => [](TypeOK /\ Reachable /\ EmptySlotRemains /\ CountIsOccupancy)
<1>1. IInv => TypeOK /\ Reachable /\ EmptySlotRemains /\ CountIsOccupancy
  BY RoomInBothArrays DEF IInv
<1> QED BY <1>1, InitIInv, NextKeepsIInv, PTL DEF Spec

-----------------------------------------------------------------------------
(* The table implements the dictionary.                                    *)

\* The mapping a table stands for: its domain, and its value at a live slot.
LEMMA DictFacts ==
  ASSUME NEW cap \in Nat, NEW es \in TableOf(cap), WellProbed(es, cap)
  PROVE  /\ \A k : k \in DOMAIN DictOf(es) <=> \E p \in Live(es) : es[p].key = k
         /\ \A p \in Live(es) : DictOf(es)[es[p].key] = es[p].value
<1>1. ASSUME NEW p \in Live(es)
      PROVE  DictOf(es)[es[p].key] = es[p].value
  <2>1. (CHOOSE q \in Live(es) : es[q].key = es[p].key) = p
    BY DEF WellProbed
  <2> QED BY <2>1 DEF DictOf
<1>2. DOMAIN DictOf(es) = {es[p].key : p \in Live(es)}
  BY DEF DictOf
<1>3. \A k : k \in {es[p].key : p \in Live(es)} <=> \E p \in Live(es) : es[p].key = k
  OBVIOUS
<1> QED BY <1>1, <1>2, <1>3

\* Two tables that hold the same entries stand for the same mapping.
LEMMA SameEntriesSameDict ==
  ASSUME NEW c1 \in Nat, NEW t1 \in TableOf(c1), WellProbed(t1, c1),
         NEW c2 \in Nat, NEW t2 \in TableOf(c2), WellProbed(t2, c2),
         {t1[p] : p \in Live(t1)} = {t2[p] : p \in Live(t2)}
  PROVE  DictOf(t1) = DictOf(t2)
<1>1. \A k : k \in DOMAIN DictOf(t1) <=> k \in DOMAIN DictOf(t2)
  <2>1. \A p \in Live(t1) : \E q \in Live(t2) : t1[p] = t2[q]
    OBVIOUS
  <2>2. \A q \in Live(t2) : \E p \in Live(t1) : t1[p] = t2[q]
    OBVIOUS
  <2>3. /\ \A k : k \in DOMAIN DictOf(t1) <=> \E p \in Live(t1) : t1[p].key = k
        /\ \A k : k \in DOMAIN DictOf(t2) <=> \E p \in Live(t2) : t2[p].key = k
    BY DictFacts
  <2> QED BY <2>1, <2>2, <2>3
<1>2. ASSUME NEW k \in DOMAIN DictOf(t1)
      PROVE  DictOf(t1)[k] = DictOf(t2)[k]
  <2>1. PICK p \in Live(t1) : k = t1[p].key
    BY DictFacts
  <2>2. PICK q \in Live(t2) : t2[q] = t1[p]
    OBVIOUS
  <2>3. DictOf(t1)[t1[p].key] = t1[p].value
    BY DictFacts
  <2>4. DictOf(t2)[t2[q].key] = t2[q].value
    BY DictFacts
  <2> QED BY <2>1, <2>2, <2>3, <2>4
<1>3. DOMAIN DictOf(t1) = DOMAIN DictOf(t2)
  BY <1>1
<1> QED BY <1>2, <1>3 DEF DictOf

\* A key is in the mapping exactly if the probe for it returns a slot in use.
LEMMA LookupFacts ==
  ASSUME NEW cap \in Nat \ {0}, NEW es \in TableOf(cap), NEW k \in Keys,
         WellProbed(es, cap), NonEmpty(es) # DOMAIN es
  PROVE  LET e == find_entry(es, cap, k)
         IN  /\ e \in 0..(cap - 1)
             /\ es[e].key # NoKey <=> k \in DOMAIN DictOf(es)
             /\ es[e].key # NoKey => es[e].key = k /\ e \in Live(es) /\ DictOf(es)[k] = es[e].value
             /\ es[StopOf(es, cap, k)].key = k <=> k \in DOMAIN DictOf(es)
<1> DEFINE e == find_entry(es, cap, k)
           s == StopOf(es, cap, k)
           N == 0..(cap - 1)
<1>1. /\ e \in N /\ es[e].key \in {k, NoKey}
      /\ (\E p \in N : es[p].key = k) => es[e].key = k
  BY FindEntryFacts
<1>2. s \in N /\ ((\E p \in N : es[p].key = k) => es[s].key = k)
  BY StopFacts
<1> HIDE DEF e, s
<1>3. k # NoKey /\ DOMAIN es = N
  BY KeysAssumption DEF TableOf
<1>4. k \in DOMAIN DictOf(es) <=> \E p \in N : es[p].key = k
  <2>1. k \in DOMAIN DictOf(es) <=> \E p \in Live(es) : es[p].key = k
    BY DictFacts
  <2> QED BY <2>1, <1>3 DEF Live
<1>5. es[e].key # NoKey => es[e].key = k /\ e \in Live(es) /\ DictOf(es)[k] = es[e].value
  <2> SUFFICES ASSUME es[e].key # NoKey
               PROVE  es[e].key = k /\ e \in Live(es) /\ DictOf(es)[k] = es[e].value
    OBVIOUS
  <2>1. es[e].key = k /\ e \in Live(es)
    BY <1>1, <1>3 DEF Live
  <2> QED BY <2>1, DictFacts
<1> QED BY <1>1, <1>2, <1>3, <1>4, <1>5 DEF e, s

\* What Found and the emptiness test of the lookups say of the mapping.
LEMMA FoundFacts ==
  ASSUME IInv, pc = "idle", NEW k \in Keys
  PROVE  /\ Found(k) <=> k \in DOMAIN dict
         /\ Found(k) => dict[k] = entries[find_entry(entries, capacity, k)].value
         /\ (count # 0 /\ entries[StopOf(entries, capacity, k)].key = k) <=> k \in DOMAIN dict
<1>1. CASE count = 0
  <2>1. /\ capacity \in Nat /\ entries \in TableOf(capacity) /\ WellProbed(entries, capacity)
        /\ Cardinality(NonEmpty(entries)) = 0
    BY <1>1 DEF IInv, TypeOK, Reachable, CountIsOccupancy
  <2>2. Live(entries) = {}
    BY <2>1, OccupancyFacts, FS_EmptySet
  <2>3. k \notin DOMAIN dict
    BY <2>1, <2>2, DictFacts DEF dict
  <2> QED BY <2>3, <1>1 DEF Found
<1>2. CASE count # 0
  <2>1. /\ capacity \in Nat \ {0} /\ entries \in TableOf(capacity)
        /\ WellProbed(entries, capacity) /\ NonEmpty(entries) # DOMAIN entries
    BY <1>2, ProbingFacts
  <2> QED BY <1>2, <2>1, LookupFacts DEF Found, dict
<1> QED BY <1>1, <1>2

\* keys and values stop when they have collected as many entries as the count,
\* which no table reaches early: every live slot is collected.
LEMMA EverySlotCollected == ASSUME IInv, pc = "idle" PROVE Collected = Live(entries)
<1> SUFFICES ASSUME NEW p \in Live(entries)
             PROVE  Cardinality({q \in Live(entries) : q < p}) < count
  BY DEF Collected
<1> DEFINE B == {q \in Live(entries) : q < p}
<1>1. /\ capacity \in Nat /\ entries \in TableOf(capacity)
      /\ count = Cardinality(NonEmpty(entries))
  BY DEF IInv, TypeOK, CountIsOccupancy
<1>2. /\ IsFiniteSet(Live(entries)) /\ Cardinality(Live(entries)) \in Nat
      /\ Cardinality(Live(entries)) <= count /\ count \in Nat
  BY <1>1, OccupancyFacts
<1>3. p \in Nat
  BY <1>1 DEF Live, TableOf
<1>4. B \in SUBSET Live(entries) /\ p \notin B
  BY <1>3
<1> HIDE DEF B
<1>5. /\ IsFiniteSet(B) /\ Cardinality(B) <= Cardinality(Live(entries))
      /\ Cardinality(B) = Cardinality(Live(entries)) => B = Live(entries)
  BY <1>2, <1>4, FS_Subset
<1>6. Cardinality(B) \in Nat /\ Cardinality(B) # Cardinality(Live(entries))
  BY <1>4, <1>5, FS_CardinalityType
<1> QED BY <1>2, <1>5, <1>6 DEF B

\* The grown array holds the same map as the old one.
LEMMA SwapKeepsDict == ASSUME IInv, SwapEntries PROVE dict' = dict
<1>1. /\ pc = "copy" /\ i = capacity /\ entries' = fresh
      /\ capacity \in Nat /\ entries \in TableOf(capacity) /\ WellProbed(entries, capacity)
      /\ fresh \in TableOf(GrowCapacity(capacity)) /\ WellProbed(fresh, GrowCapacity(capacity))
      /\ {fresh[p] : p \in Live(fresh)} = {entries[p] : p \in Copied}
      /\ GrowCapacity(capacity) \in Nat
  BY GrowFacts DEF SwapEntries, IInv, TypeOK, Reachable, CopyInv, LoadInv
<1>2. Copied = Live(entries)
  BY <1>1 DEF Copied, Live, TableOf
<1>3. DictOf(fresh) = DictOf(entries)
  BY <1>1, <1>2, SameEntriesSameDict
<1> QED BY <1>1, <1>3 DEF dict

\* Storing a key's entry changes the mapping at that key and nowhere else.
LEMMA SetSetsDict ==
  ASSUME IInv, hashmap_set PROVE D!Set(call.key, call.value)
<1> DEFINE k == call.key
           v == call.value
           x == [key |-> k, value |-> v]
           e == find_entry(entries, capacity, k)
<1>1. /\ pc = "entry" /\ entries' = [entries EXCEPT ![e] = x]
      /\ ret' = <<"set", entries[e].key = NoKey>>
      /\ k \in Keys /\ v \in Vals /\ capacity' = capacity
  BY DEF hashmap_set, IInv, TypeOK, Calls
<1>2. /\ capacity \in Nat \ {0} /\ entries \in TableOf(capacity)
      /\ WellProbed(entries, capacity) /\ NonEmpty(entries) # DOMAIN entries
  BY <1>1, ProbingFacts
<1>3. IInv'
  BY SetKeepsIInv
<1>4. /\ entries' \in TableOf(capacity) /\ WellProbed(entries', capacity)
      /\ capacity \in Nat
  BY <1>1, <1>2, <1>3 DEF IInv, TypeOK, Reachable
<1>5. /\ e \in 0..(capacity - 1) /\ entries[e].key \in {k, NoKey}
      /\ entries[e].key # NoKey <=> k \in DOMAIN dict
      /\ (\E p \in 0..(capacity - 1) : entries[p].key = k) => entries[e].key = k
  <2>1. /\ e \in 0..(capacity - 1) /\ entries[e].key \in {k, NoKey}
        /\ (\E p \in 0..(capacity - 1) : entries[p].key = k) => entries[e].key = k
    BY <1>1, <1>2, FindEntryFacts
  <2>2. entries[e].key # NoKey <=> k \in DOMAIN DictOf(entries)
    BY <1>1, <1>2, LookupFacts
  <2> QED BY <2>1, <2>2 DEF dict
<1> HIDE DEF e
<1>6. /\ DOMAIN entries = 0..(capacity - 1) /\ DOMAIN entries' = 0..(capacity - 1)
      /\ entries'[e] = x /\ x.key = k /\ x.value = v
      /\ \A p \in 0..(capacity - 1) : p # e => entries'[p] = entries[p]
      /\ k # NoKey
  BY <1>1, <1>2, <1>5, KeysAssumption DEF TableOf
<1> HIDE DEF x, k, v
<1>7. Live(entries') = Live(entries) \cup {e}
  BY <1>5, <1>6 DEF Live
<1>8. /\ \A j : j \in DOMAIN dict <=> \E p \in Live(entries) : entries[p].key = j
      /\ \A p \in Live(entries) : dict[entries[p].key] = entries[p].value
  BY <1>2, DictFacts DEF dict
<1>9. /\ \A j : j \in DOMAIN dict' <=> \E p \in Live(entries') : entries'[p].key = j
      /\ \A p \in Live(entries') : dict'[entries'[p].key] = entries'[p].value
  BY <1>4, DictFacts DEF dict
<1>10. \A p \in Live(entries) : p \in 0..(capacity - 1)
  BY <1>6 DEF Live
<1>11. \A j : j \in DOMAIN dict' <=> j \in DOMAIN dict \cup {k}
  <2>1. ASSUME NEW j, j \in DOMAIN dict' PROVE j \in DOMAIN dict \cup {k}
    BY <2>1, <1>6, <1>7, <1>8, <1>9, <1>10
  <2>2. k \in DOMAIN dict'
    BY <1>6, <1>7, <1>9
  <2>3. ASSUME NEW j, j \in DOMAIN dict PROVE j \in DOMAIN dict'
    <3>1. PICK p \in Live(entries) : entries[p].key = j
      BY <2>3, <1>8
    <3>2. CASE p = e
      BY <3>1, <3>2, <2>2, <1>5, <1>6 DEF Live
    <3>3. CASE p # e
      BY <3>1, <3>3, <1>6, <1>7, <1>9, <1>10
    <3> QED BY <3>2, <3>3
  <2> QED BY <2>1, <2>2, <2>3
<1>12. ASSUME NEW j \in DOMAIN dict'
       PROVE  dict'[j] = IF j = k THEN v ELSE dict[j]
  <2>1. CASE j = k
    BY <2>1, <1>6, <1>7, <1>9
  <2>2. CASE j # k
    <3>1. PICK p \in Live(entries') : entries'[p].key = j
      BY <1>9
    <3>2. p # e /\ p \in Live(entries) /\ entries'[p] = entries[p]
      BY <2>2, <3>1, <1>6, <1>7, <1>10
    <3> QED BY <2>2, <3>1, <3>2, <1>8, <1>9
  <2> QED BY <2>1, <2>2
<1>13. DOMAIN dict' = DOMAIN dict \cup {k} /\ dict' = [j \in DOMAIN dict' |-> dict'[j]]
  <2>1. dict' = [j \in DOMAIN dict' |-> dict'[j]]
    BY DEF dict, DictOf
  <2> HIDE DEF dict
  <2> QED BY <1>11, <2>1
<1>14. dict' = [j \in DOMAIN dict \cup {k} |-> IF j = k THEN v ELSE dict[j]]
  BY <1>12, <1>13
<1>15. ret' = <<"set", k \notin DOMAIN dict>>
  BY <1>1, <1>5
<1> QED BY <1>14, <1>15 DEF D!Set, k, v

\* A tombstone in a key's slot takes the key out of the mapping, and no other.
LEMMA RemoveRemoves ==
  ASSUME IInv, NEW k \in Keys, hashmap_remove(k) PROVE D!Remove(k)
<1> DEFINE e == find_entry(entries, capacity, k)
<1>1. pc = "idle" /\ capacity' = capacity
  BY DEF hashmap_remove
<1>2. Found(k) <=> k \in DOMAIN dict
  BY <1>1, FoundFacts
<1>3. CASE ~Found(k)
  <2>1. ret' = <<"remove", FALSE>> /\ entries' = entries
    BY <1>3 DEF hashmap_remove, Found
  <2>2. dict' = dict /\ k \notin DOMAIN dict
    BY <2>1, <1>2, <1>3 DEF dict
  <2>3. dict = [j \in DOMAIN dict |-> dict[j]]
    BY DEF dict, DictOf
  <2>4. DOMAIN dict \ {k} = DOMAIN dict
    BY <2>2
  <2>5. dict' = [j \in DOMAIN dict \ {k} |-> dict[j]]
    BY <2>2, <2>3, <2>4
  <2>6. ret' = <<"remove", k \in DOMAIN dict>>
    <3>1. (k \in DOMAIN dict) = FALSE
      BY <2>2
    <3> HIDE DEF dict
    <3> QED BY <2>1, <3>1
  <2> QED BY <2>5, <2>6 DEF D!Remove
<1>4. CASE Found(k)
  <2>1. /\ ret' = <<"remove", TRUE>> /\ entries' = [entries EXCEPT ![e] = Tombstone]
        /\ count # 0 /\ entries[e].key # NoKey
    BY <1>4 DEF hashmap_remove, Found
  <2>2. /\ capacity \in Nat \ {0} /\ entries \in TableOf(capacity)
        /\ WellProbed(entries, capacity) /\ NonEmpty(entries) # DOMAIN entries
    BY <1>1, <2>1, ProbingFacts
  <2>3. entries[e].key = k /\ e \in Live(entries)
    BY <2>1, <2>2, LookupFacts
  <2> HIDE DEF e
  <2>4. entries' \in TableOf(capacity) /\ WellProbed(entries', capacity)
    <3>1. IInv'
      BY RemoveKeepsIInv
    <3> QED BY <1>1, <3>1 DEF IInv, TypeOK, Reachable
  <2>5. Live(entries') = Live(entries) \ {e}
    BY <2>1, <2>2, <2>3, RemoveKeepsProbing
  <2>6. \A p \in Live(entries') : entries'[p] = entries[p]
    BY <2>1, <2>2, <2>5 DEF Live, TableOf
  <2>7. /\ \A j : j \in DOMAIN dict <=> \E p \in Live(entries) : entries[p].key = j
        /\ \A p \in Live(entries) : dict[entries[p].key] = entries[p].value
    BY <2>2, DictFacts DEF dict
  <2>8. /\ \A j : j \in DOMAIN dict' <=> \E p \in Live(entries') : entries'[p].key = j
        /\ \A p \in Live(entries') : dict'[entries'[p].key] = entries'[p].value
    BY <2>2, <2>4, DictFacts DEF dict
  <2>9. \A p \in Live(entries) : entries[p].key = k => p = e
    BY <2>2, <2>3 DEF WellProbed
  <2>10. \A j : j \in DOMAIN dict' <=> j \in DOMAIN dict \ {k}
    BY <2>3, <2>5, <2>6, <2>7, <2>8, <2>9
  <2>11. \A j \in DOMAIN dict' : dict'[j] = dict[j]
    BY <2>5, <2>6, <2>7, <2>8
  <2>12. dict' = [j \in DOMAIN dict' |-> dict'[j]]
    BY DEF dict, DictOf
  <2>13. k \in DOMAIN dict
    BY <1>2, <1>4
  <2> HIDE DEF dict
  <2>14. DOMAIN dict' = DOMAIN dict \ {k}
    BY <2>10
  <2>15. dict' = [j \in DOMAIN dict \ {k} |-> dict[j]]
    BY <2>11, <2>12, <2>14
  <2> QED BY <2>1, <2>13, <2>15 DEF D!Remove
<1> QED BY <1>3, <1>4

\* A lookup answers as the dictionary does.
LEMMA GetEntryAnswers ==
  ASSUME IInv, hashmap_get_entry PROVE D!GetEntry(call.key) /\ call.key \in Keys
<1>1. /\ pc = "entry" /\ call.key \in Keys /\ dict' = dict
      /\ ret' = <<"get_entry", entries[find_entry(entries, capacity, call.key)].key # NoKey>>
  BY DEF hashmap_get_entry, IInv, TypeOK, Calls, dict
<1>2. /\ capacity \in Nat \ {0} /\ entries \in TableOf(capacity)
      /\ WellProbed(entries, capacity) /\ NonEmpty(entries) # DOMAIN entries
  BY <1>1, ProbingFacts
<1>3. entries[find_entry(entries, capacity, call.key)].key # NoKey <=> call.key \in DOMAIN dict
  BY <1>1, <1>2, LookupFacts DEF dict
<1> QED BY <1>1, <1>3 DEF D!GetEntry

\* What keys and values collect is the domain and the range of the mapping.
LEMMA CollectedFacts ==
  ASSUME IInv, pc = "idle"
  PROVE  /\ {entries[p].key : p \in Collected} = DOMAIN dict
         /\ {entries[p].value : p \in Collected} = {dict[k] : k \in DOMAIN dict}
<1>1. Collected = Live(entries)
  BY EverySlotCollected
<1>2. /\ \A j : j \in DOMAIN dict <=> \E p \in Live(entries) : entries[p].key = j
      /\ \A p \in Live(entries) : dict[entries[p].key] = entries[p].value
  BY DictFacts DEF dict, IInv, TypeOK, Reachable
<1> HIDE DEF dict
<1>3. {entries[p].key : p \in Live(entries)} = DOMAIN dict
  BY <1>2
<1>4. {entries[p].value : p \in Live(entries)} = {dict[k] : k \in DOMAIN dict}
  BY <1>2
<1> QED BY <1>1, <1>3, <1>4

\* The initial table is the empty dictionary.
LEMMA InitRefines == Init => D!Init
<1> SUFFICES ASSUME Init PROVE D!Init
  OBVIOUS
<1>1. Live(entries) = {} /\ ret = <<"init", NullVal>>
  BY DEF Init, Live
<1>2. dict = [k \in {} |-> NullVal]
  BY <1>1 DEF dict, DictOf
<1> QED BY <1>1, <1>2 DEF D!Init

\* Every step of the table is a step of the dictionary or a stutter.
LEMMA NextRefines == IInv /\ [Next]_vars => [D!Next]_(D!vars)
<1> SUFFICES ASSUME IInv, [Next]_vars PROVE [D!Next]_(D!vars)
  OBVIOUS
<1>1. ASSUME dict' = dict, ret' = ret PROVE [D!Next]_(D!vars)
  BY <1>1 DEF D!vars
<1>2. ASSUME NEW c \in Calls, Call(c) PROVE [D!Next]_(D!vars)
  BY <1>1, <1>2 DEF Call, dict
<1>3. CASE CopyEntry
  BY <1>1, <1>3 DEF CopyEntry, dict
<1>4. CASE SwapEntries
  <2>1. dict' = dict /\ ret' = ret
    BY <1>4, SwapKeepsDict DEF SwapEntries
  <2> QED BY <2>1, <1>1
<1>5. CASE hashmap_set
  <2>1. call.key \in Keys /\ call.value \in Vals
    BY <1>5 DEF hashmap_set, IInv, TypeOK, Calls
  <2> QED BY <2>1, <1>5, SetSetsDict DEF D!Next
<1>6. CASE hashmap_get_entry
  BY <1>6, GetEntryAnswers DEF D!Next
<1>7. ASSUME NEW k \in Keys, hashmap_remove(k) PROVE D!Next
  BY <1>7, RemoveRemoves DEF D!Next
<1>8. ASSUME NEW k \in Keys, hashmap_get(k) \/ hashmap_contains_key(k) \/ hashmap_find_key(k)
      PROVE  D!Next
  <2>1. pc = "idle" /\ dict' = dict
    BY <1>8 DEF hashmap_get, hashmap_contains_key, hashmap_find_key, Look, dict
  <2>2. /\ Found(k) <=> k \in DOMAIN dict
        /\ Found(k) => dict[k] = entries[find_entry(entries, capacity, k)].value
        /\ (count # 0 /\ entries[StopOf(entries, capacity, k)].key = k) <=> k \in DOMAIN dict
    BY <2>1, FoundFacts
  <2> HIDE DEF dict
  <2>3. CASE hashmap_get(k)
    BY <2>1, <2>2, <2>3 DEF hashmap_get, Look, D!Next, D!Get
  <2>4. CASE hashmap_contains_key(k)
    <3>1. ret' = <<"contains_key", Found(k)>>
      BY <2>4 DEF hashmap_contains_key, Look
    <3>2. Found(k) = (k \in DOMAIN dict)
      BY <2>2 DEF Found
    <3> QED BY <2>1, <3>1, <3>2 DEF D!Next, D!ContainsKey
  <2>5. CASE hashmap_find_key(k)
    BY <2>1, <2>2, <2>5 DEF hashmap_find_key, Look, D!Next, D!FindKey
  <2> QED BY <1>8, <2>3, <2>4, <2>5
<1>9. CASE hashmap_keys
  <2>1. pc = "idle" /\ dict' = dict /\ ret' = <<"keys", {entries[p].key : p \in Collected}>>
    BY <1>9 DEF hashmap_keys, Look, dict
  <2> QED BY <2>1, CollectedFacts DEF D!Next, D!EveryKey
<1>10. CASE hashmap_values
  <2>1. pc = "idle" /\ dict' = dict /\ ret' = <<"values", {entries[p].value : p \in Collected}>>
    BY <1>10 DEF hashmap_values, Look, dict
  <2> QED BY <2>1, CollectedFacts DEF D!Next, D!EveryValue
<1>11. CASE UNCHANGED vars
  BY <1>1, <1>11 DEF vars, dict
<1> QED BY <1>2, <1>3, <1>4, <1>5, <1>6, <1>7, <1>8, <1>9, <1>10, <1>11 DEF Next

\* Whatever the keys hash to, and through any sequence of insertions, removals
\* and resizings, the table's contents and answers are those of a partial
\* function from keys to values.
THEOREM HashMapImplementsDictionary == Spec => ImplementsDictionary
<1> QED BY InitIInv, NextKeepsIInv, InitRefines, NextRefines, PTL
        DEF Spec, ImplementsDictionary, D!Spec

\* A probe always ends: find_entry and hashmap_find_key meet an empty slot in
\* every array they search, while it grows, too.
THEOREM ProbesEnd == Spec => []EmptySlotRemains
<1> QED BY TableIsSound, PTL

\* Either array has an entry for every slot of its capacity, and the call that
\* copies one into the other stays inside both.
THEOREM TableIsTyped == Spec => []TypeOK
<1> QED BY TableIsSound, PTL

\* count is what the load is computed from: the keys and the tombstones.
THEOREM CountIsTrue == Spec => []CountIsOccupancy
<1> QED BY TableIsSound, PTL

(***************************************************************************)
(* The vectors, over the allocator                                         *)
(***************************************************************************)
-----------------------------------------------------------------------------
(* The parts of a heap.                                                    *)

\* The least member of a set of naturals.
LEMMA MinFacts ==
  ASSUME NEW S \in SUBSET Nat, S # {}
  PROVE  Min(S) \in S /\ \A n \in S : Min(S) <= n
BY LeastMember DEF Min

\* The values a cell may hold.
Values == Elements \cup Literals \cup {Junk}

\* A part of the heap.
Parts == [id : PartSize \X Nat, size : PartSize, total : Nat, used : Nat, free_link : Seq(Nat)]

\* The blocks of a part that are used.
Used(h, part) == {ix \in BlocksOf(part.size) : <<part.id, ix>> \in DOMAIN h.memory}

\* The list of free blocks and the count of a part agree with the blocks that are used.
PartFits(h, part) ==
  /\ part.id[1] = part.size /\ part.total = PART_COUNT[part.size][2]
  /\ IsInjective(part.free_link)
  /\ ToSet(part.free_link) = BlocksOf(part.size) \ Used(h, part)
  /\ part.used = Cardinality(Used(h, part))

\* Each used block is in a part, and has the cells of its size.
BlockFits(h, b) ==
  /\ \E p \in DOMAIN h.parts : h.parts[p].id = b[1]
  /\ b[2] \in BlocksOf(b[1][1])
  /\ h.memory[b] \in Seq(Values) /\ Len(h.memory[b]) = PART_COUNT[b[1][1]][1]

\* The parts are in order, and each has an identity of its own.
PartsInOrder(parts) ==
  \A p, q \in DOMAIN parts : p < q => parts[p].size <= parts[q].size /\ parts[p].id # parts[q].id

\* A heap in the middle of an allocation: a part may have no used block yet.
Fits(h) ==
  /\ h \in [parts : Seq(Parts), memory : {h.memory}, panicked : BOOLEAN]
  /\ h.memory = [b \in DOMAIN h.memory |-> h.memory[b]] /\ DOMAIN h.memory \subseteq Blocks
  /\ \A p \in DOMAIN h.parts : PartFits(h, h.parts[p])
  /\ \A b \in DOMAIN h.memory : BlockFits(h, b)
  /\ PartsInOrder(h.parts)

\* A heap between two operations.
Sound(h) == Fits(h) /\ \A p \in DOMAIN h.parts : h.parts[p].used > 0

\* The sizes of parts.
LEMMA SizeFacts ==
  ASSUME NEW size \in PartSize
  PROVE  /\ size \in Nat \ {0} /\ PART_COUNT[size][1] \in Nat \ {0} /\ PART_COUNT[size][2] \in Nat \ {0}
         /\ BlocksOf(size) \subseteq Nat /\ IsFiniteSet(BlocksOf(size))
<1>1. size \in Nat \ {0} /\ PART_COUNT[size] \in (Nat \ {0}) \X (Nat \ {0})
  BY SizesGrow DEF PartSize
<1>2. PART_COUNT[size][1] \in Nat \ {0} /\ PART_COUNT[size][2] \in Nat \ {0}
  BY <1>1
<1>3. IsFiniteSet(1..PART_COUNT[size][2])
  BY <1>2, FS_Interval
<1> QED BY <1>1, <1>2, <1>3 DEF BlocksOf

\* A sound heap has what PartsAreSound asks for.
LEMMA SoundParts ==
  ASSUME NEW h, Sound(h)
  PROVE  PartsAreSound(h)
BY DEF Sound, Fits, PartFits, BlockFits, PartsInOrder, PartsAreSound, Used

\* The first of the places in a sequence that pass a test, or 0.
LEMMA FirstPlace ==
  ASSUME NEW n \in Nat, NEW I \in SUBSET (1..n)
  PROVE  LET p == IF I # {} THEN Min(I) ELSE 0
         IN  /\ p = 0 => I = {}
             /\ p # 0 => p \in I /\ \A ix \in I : p <= ix
<1>1. CASE I = {}
  BY <1>1
<1>2. CASE I # {}
  BY <1>2, MinFacts
<1> QED BY <1>1, <1>2

-----------------------------------------------------------------------------
(* Sequences with an element added or taken out.                           *)

\* Sequences put together.
LEMMA ConcatFacts ==
  ASSUME NEW S, NEW s \in Seq(S), NEW t \in Seq(S)
  PROVE  /\ s \o t \in Seq(S)
         /\ Len(s \o t) = Len(s) + Len(t)
         /\ \A q \in 1..Len(s) : (s \o t)[q] = s[q]
         /\ \A q \in 1..Len(t) : (s \o t)[Len(s) + q] = t[q]
OBVIOUS

\* An element put into a sequence, and one taken out.
LEMMA InsertFacts ==
  ASSUME NEW S, NEW s \in Seq(S), NEW ix \in 1..(Len(s) + 1), NEW e \in S
  PROVE  LET t == InsertAt(s, ix, e)
         IN  /\ t \in Seq(S) /\ Len(t) = Len(s) + 1
             /\ t[ix] = e
             /\ \A k \in 1..(ix - 1) : t[k] = s[k]
             /\ \A k \in ix..Len(s) : t[k + 1] = s[k]
<1>1. PICK n \in Nat : n = Len(s)
  OBVIOUS
<1> DEFINE a == SubSeq(s, 1, ix - 1)
           b == SubSeq(s, ix, n)
           c == <<e>>
<1>2. a \in Seq(S) /\ Len(a) = ix - 1 /\ \A k \in 1..(ix - 1) : a[k] = s[k]
  BY <1>1
<1>3. b \in Seq(S) /\ Len(b) = n - ix + 1 /\ \A k \in 1..(n - ix + 1) : b[k] = s[ix + k - 1]
  BY <1>1
<1>4. c \in Seq(S) /\ Len(c) = 1 /\ c[1] = e
  OBVIOUS
<1> HIDE DEF a, b, c
<1>5. a \o c \in Seq(S) /\ Len(a \o c) = ix /\ (a \o c)[ix] = e /\ \A k \in 1..(ix - 1) : (a \o c)[k] = a[k]
  <2>1. /\ a \o c \in Seq(S) /\ Len(a \o c) = Len(a) + Len(c)
        /\ \A k \in 1..Len(a) : (a \o c)[k] = a[k]
        /\ \A k \in 1..Len(c) : (a \o c)[Len(a) + k] = c[k]
    <3>1. a \in Seq(S) /\ c \in Seq(S)
      BY <1>2, <1>4
    <3> QED BY <3>1, ConcatFacts
  <2>2. (a \o c)[Len(a) + 1] = e /\ Len(a) + 1 = ix
    BY <2>1, <1>2, <1>4
  <2> QED BY <2>1, <2>2, <1>2, <1>4
<1> DEFINE d == a \o c
           t == d \o b
<1> HIDE DEF d
<1>6. t \in Seq(S) /\ Len(t) = n + 1 /\ t[ix] = e /\ \A k \in 1..(ix - 1) : t[k] = s[k]
  BY <1>1, <1>2, <1>3, <1>5, ConcatFacts DEF d
<1>7. ASSUME NEW k \in ix..n PROVE t[k + 1] = s[k]
  <2>1. k + 1 - ix \in 1..(n - ix + 1) /\ k + 1 = ix + (k + 1 - ix) /\ ix + (k + 1 - ix) - 1 = k
    BY <1>1
  <2>2. t[ix + (k + 1 - ix)] = b[k + 1 - ix]
    BY <2>1, <1>3, <1>5, ConcatFacts DEF d
  <2>3. b[k + 1 - ix] = s[ix + (k + 1 - ix) - 1]
    BY <2>1, <1>3
  <2> QED BY <2>1, <2>2, <2>3
<1> QED BY <1>1, <1>6, <1>7 DEF InsertAt, d, t, a, b, c

\* What remove and its loop leave of a sequence.
LEMMA RemoveFacts ==
  ASSUME NEW S, NEW s \in Seq(S), NEW ix \in 1..Len(s)
  PROVE  LET t == RemoveAt(s, ix)
         IN  /\ t \in Seq(S) /\ Len(t) = Len(s) - 1
             /\ \A k \in 1..(ix - 1) : t[k] = s[k]
             /\ \A k \in ix..(Len(s) - 1) : t[k] = s[k + 1]
<1>1. PICK n \in Nat : n = Len(s)
  OBVIOUS
<1> DEFINE a == SubSeq(s, 1, ix - 1)
           b == SubSeq(s, ix + 1, n)
<1>2. a \in Seq(S) /\ Len(a) = ix - 1 /\ \A k \in 1..(ix - 1) : a[k] = s[k]
  BY <1>1
<1>3. b \in Seq(S) /\ Len(b) = n - ix /\ \A k \in 1..(n - ix) : b[k] = s[ix + k]
  BY <1>1
<1> HIDE DEF a, b
<1> DEFINE t == a \o b
<1>4. t \in Seq(S) /\ Len(t) = n - 1 /\ \A k \in 1..(ix - 1) : t[k] = s[k]
  <2>1. /\ t \in Seq(S) /\ Len(t) = Len(a) + Len(b)
        /\ \A k \in 1..Len(a) : t[k] = a[k]
    <3>1. a \in Seq(S) /\ b \in Seq(S)
      BY <1>2, <1>3
    <3> QED BY <3>1, ConcatFacts
  <2>2. Len(t) = n - 1
    BY <2>1, <1>1, <1>2, <1>3
  <2>3. \A k \in 1..(ix - 1) : t[k] = s[k]
    BY <2>1, <1>2
  <2> QED BY <2>1, <2>2, <2>3
<1>5. ASSUME NEW k \in ix..(n - 1) PROVE t[k] = s[k + 1]
  <2>1. k - (ix - 1) \in 1..(n - ix) /\ k = (ix - 1) + (k - (ix - 1)) /\ ix + (k - (ix - 1)) = k + 1
    BY <1>1
  <2>2. t[(ix - 1) + (k - (ix - 1))] = b[k - (ix - 1)]
    BY <2>1, <1>2, <1>3, ConcatFacts
  <2>3. b[k - (ix - 1)] = s[ix + (k - (ix - 1))]
    BY <2>1, <1>3
  <2> QED BY <2>1, <2>2, <2>3
<1> QED BY <1>1, <1>4, <1>5 DEF RemoveAt, t, a, b

\* There is always a new identity, and a new part has it.
LEMMA NewPart ==
  ASSUME NEW h, Fits(h), NEW size \in PartSize
  PROVE  LET part == new_part(h, size)
         IN  /\ part \in Parts /\ part.size = size /\ part.free_link # <<>> /\ PartFits(h, part)
             /\ \A p \in DOMAIN h.parts : h.parts[p].id # part.id
<1>1. PICK n \in Nat : n = Len(h.parts) /\ DOMAIN h.parts = 1..n
  BY DEF Fits
<1> DEFINE taken == {h.parts[p].id : p \in 1..n}
           ids == {<<size, k>> : k \in 1..(n + 1)}
           new == {k \in 1..(n + 1) : <<size, k>> \notin taken}
<1>2. new # {}
  <2> SUFFICES ASSUME new = {} PROVE FALSE
    OBVIOUS
  <2>1. \A k \in 1..(n + 1) : \E p \in 1..n : h.parts[p].id = <<size, k>>
    OBVIOUS
  <2> DEFINE f == [k \in 1..(n + 1) |-> CHOOSE p \in 1..n : h.parts[p].id = <<size, k>>]
  <2>2. f \in [1..(n + 1) -> 1..n] /\ \A k \in 1..(n + 1) : h.parts[f[k]].id = <<size, k>>
    BY <2>1
  <2> HIDE DEF f
  <2>3. IsFiniteSet(1..(n + 1)) /\ IsFiniteSet(1..n)
          /\ Cardinality(1..(n + 1)) = n + 1 /\ Cardinality(1..n) = n
    BY FS_Interval
  <2> DEFINE S == 1..(n + 1)
             T == 1..n
  <2> HIDE DEF S, T
  <2>4. \E x, y \in S : x # y /\ f[x] = f[y]
    <3>1. IsFiniteSet(S) /\ IsFiniteSet(T) /\ Cardinality(T) < Cardinality(S) /\ f \in [S -> T]
      BY <2>2, <2>3 DEF S, T
    <3> QED BY <3>1, FS_PigeonHole
  <2>5. PICK x \in S, y \in S : x # y /\ f[x] = f[y]
    BY <2>4
  <2>6. h.parts[f[x]].id = <<size, x>> /\ h.parts[f[y]].id = <<size, y>>
    BY <2>2 DEF S
  <2>7. <<size, x>> = <<size, y>>
    BY <2>5, <2>6
  <2> QED BY <2>5, <2>7
<1>3. new \in SUBSET Nat
  OBVIOUS
<1> DEFINE k == Min(new)
           id == <<size, k>>
<1>4. k \in new
  <2> HIDE DEF new
  <2> QED BY <1>2, <1>3, MinFacts
<1>5. FreshId(h, size) = id
  <2>1. new = {x \in 1..Len(h.parts) + 1 : \A p \in DOMAIN h.parts : h.parts[p].id # <<size, x>>}
    BY <1>1
  <2> QED BY <2>1 DEF FreshId
<1> HIDE DEF k
<1>6. k \in Nat /\ id \in PartSize \X Nat /\ \A p \in DOMAIN h.parts : h.parts[p].id # id
  BY <1>1, <1>4
<1> HIDE DEF new, id
<1>6a. id[1] = size
  BY DEF id
<1>7. id[1] = size /\ \A ix \in BlocksOf(size) : <<id, ix>> \notin DOMAIN h.memory
  BY <1>6, <1>6a DEF Fits, BlockFits
<1> DEFINE part == new_part(h, size)
           free == [ix \in BlocksOf(size) |-> ix]
<1>8. PICK m \in Nat \ {0} : m = PART_COUNT[size][2]
  BY SizeFacts
<1>9. free \in Seq(Nat) /\ free # <<>> /\ IsInjective(free) /\ ToSet(free) = BlocksOf(size)
  <2>1. Len(free) = m /\ free \in [1..m -> Nat]
    BY <1>8 DEF BlocksOf
  <2>2. free \in Seq(Nat)
    BY <2>1
  <2>3. free # <<>>
    BY <2>1, <1>8
  <2>4. IsInjective(free) /\ ToSet(free) = BlocksOf(size)
    BY DEF IsInjective, ToSet
  <2> QED BY <2>2, <2>3, <2>4
<1> HIDE DEF free
<1>10. part = [id |-> id, size |-> size, total |-> m, used |-> 0, free_link |-> free]
  BY <1>5, <1>8 DEF new_part, free
<1>11. Used(h, part) = {}
  BY <1>7, <1>10 DEF Used
<1> HIDE DEF part
<1>12. PartFits(h, part)
  <2>1. /\ part.id = id /\ part.size = size /\ part.total = m /\ part.used = 0
        /\ part.free_link = free
    BY <1>10
  <2>2. Cardinality(Used(h, part)) = 0
    BY <1>11, FS_EmptySet
  <2> QED BY <2>1, <2>2, <1>7, <1>8, <1>9, <1>11 DEF PartFits
<1>13. part \in Parts /\ part.size = size /\ part.free_link # <<>> /\ part.id = id
  BY <1>6, <1>8, <1>9, <1>10 DEF Parts
<1> QED BY <1>6, <1>12, <1>13 DEF part

-----------------------------------------------------------------------------
(* A part is made.                                                         *)

\* What a heap has that fits: its fields have their types.
LEMMA FitsTypes ==
  ASSUME NEW h, Fits(h)
  PROVE  /\ h.parts \in Seq(Parts) /\ h.panicked \in BOOLEAN
         /\ h \in [parts : Seq(Parts), memory : {h.memory}, panicked : BOOLEAN]
BY DEF Fits

\* A heap stays as it is if its parts are in another list.
LEMMA OtherParts ==
  ASSUME NEW h, Fits(h), NEW parts \in Seq(Parts), PartsInOrder(parts),
         \A p \in DOMAIN parts : PartFits(h, parts[p]),
         \A b \in DOMAIN h.memory : \E q \in DOMAIN parts : parts[q].id = b[1]
  PROVE  Fits([h EXCEPT !.parts = parts])
<1> DEFINE g == [h EXCEPT !.parts = parts]
<1>1. g.parts = parts /\ g.memory = h.memory /\ g.panicked = h.panicked
        /\ g \in [parts : Seq(Parts), memory : {g.memory}, panicked : BOOLEAN]
  BY DEF Fits
<1> HIDE DEF g
<1>2. \A part : Used(g, part) = Used(h, part)
  BY <1>1 DEF Used
<1>3. \A p \in DOMAIN g.parts : PartFits(g, g.parts[p])
  BY <1>1, <1>2 DEF PartFits
<1>4. \A b \in DOMAIN g.memory : BlockFits(g, b)
  BY <1>1 DEF Fits, BlockFits
<1> QED BY <1>1, <1>3, <1>4 DEF Fits, g

\* A part is put before the first that is bigger.
LEMMA PartAdded ==
  ASSUME NEW h, Fits(h), NEW part \in Parts, PartFits(h, part),
         \A p \in DOMAIN h.parts : h.parts[p].id # part.id
  PROVE  LET g == add_part(h, part)
         IN  /\ Fits(g) /\ g.memory = h.memory /\ g.panicked = h.panicked
             /\ \E q \in DOMAIN g.parts : g.parts[q] = part
             /\ \A q \in DOMAIN g.parts :
                  g.parts[q] = part \/ \E p \in DOMAIN h.parts : g.parts[q] = h.parts[p]
<1>1. PICK n \in Nat : n = Len(h.parts) /\ DOMAIN h.parts = 1..n /\ h.parts \in Seq(Parts)
  BY FitsTypes
<1> DEFINE I == {ix \in 1..n : part.size < h.parts[ix].size}
           p == IF I # {} THEN Min(I) ELSE 0
           at == IF p = 0 THEN n + 1 ELSE p
           parts == IF p = 0 THEN Append(h.parts, part) ELSE InsertAt(h.parts, p, part)
<1>2. add_part(h, part) = [h EXCEPT !.parts = parts]
  BY <1>1 DEF add_part, SelectInSeq
<1>2a. part.size \in Nat /\ \A ix \in 1..n : h.parts[ix].size \in Nat
  <2>1. part \in Parts /\ \A ix \in 1..n : h.parts[ix] \in Parts
    BY <1>1
  <2> QED BY <2>1, SizeFacts DEF Parts
<1>3. /\ p = 0 => I = {}
      /\ p # 0 => p \in I /\ \A ix \in I : p <= ix
  <2>1. I \in SUBSET (1..n)
    OBVIOUS
  <2> HIDE DEF I
  <2> QED BY <2>1, FirstPlace
<1> HIDE DEF p
<1>4. at \in 1..(n + 1) /\ \A ix \in 1..n : part.size < h.parts[ix].size => at <= ix
  <2>1. CASE p = 0
    BY <2>1, <1>3
  <2>2. CASE p # 0
    <3>1. p \in 1..n /\ at = p
      BY <2>2, <1>3
    <3> QED BY <3>1, <2>2, <1>3
  <2> QED BY <2>1, <2>2
<1>5. \A ix \in at..n : part.size < h.parts[ix].size
  <2> SUFFICES ASSUME NEW ix \in at..n PROVE part.size < h.parts[ix].size
    OBVIOUS
  <2>1. p # 0 /\ at = p /\ p \in 1..n /\ part.size < h.parts[p].size
    BY <1>3
  <2>2. h.parts[p].size <= h.parts[ix].size
    <3>1. p = ix \/ p < ix
      BY <2>1, <1>4
    <3> QED BY <3>1, <2>1, <1>1, <1>2a, <1>4 DEF Fits, PartsInOrder
  <2> QED BY <2>1, <2>2, <1>2a
<1>6. /\ parts \in Seq(Parts) /\ Len(parts) = n + 1 /\ parts[at] = part
      /\ \A k \in 1..(at - 1) : parts[k] = h.parts[k]
      /\ \A k \in at..n : parts[k + 1] = h.parts[k]
  <2>1. CASE p = 0
    BY <2>1, <1>1
  <2>2. CASE p # 0
    <3>1. p \in 1..(Len(h.parts) + 1)
      BY <2>2, <1>1, <1>4
    <3> QED BY <2>2, <3>1, <1>1, InsertFacts
  <2> QED BY <2>1, <2>2
<1> HIDE DEF at, parts
<1>7. \A q \in 1..(n + 1) :
        \/ q < at /\ q \in 1..n /\ parts[q] = h.parts[q]
        \/ q = at /\ parts[q] = part
        \/ q > at /\ q - 1 \in at..n /\ parts[q] = h.parts[q - 1]
  <2> SUFFICES ASSUME NEW q \in 1..(n + 1), q > at PROVE q - 1 \in at..n /\ parts[q] = h.parts[q - 1]
    BY <1>4, <1>6
  <2>1. q - 1 \in at..n /\ q = (q - 1) + 1
    BY <1>4
  <2> QED BY <2>1, <1>6
<1>8. \A ix, j \in 1..n : ix < j => h.parts[ix].size <= h.parts[j].size /\ h.parts[ix].id # h.parts[j].id
  BY <1>1 DEF Fits, PartsInOrder
<1>9. \A ix \in 1..n : ix < at => h.parts[ix].size <= part.size
  <2> SUFFICES ASSUME NEW ix \in 1..n, ix < at, part.size < h.parts[ix].size PROVE FALSE
    BY <1>2a
  <2> QED BY <1>4
<1>10. PartsInOrder(parts)
  <2> SUFFICES ASSUME NEW x \in 1..(n + 1), NEW y \in 1..(n + 1), x < y
               PROVE  parts[x].size <= parts[y].size /\ parts[x].id # parts[y].id
    BY <1>6 DEF PartsInOrder
  <2>1. CASE y < at
    BY <2>1, <1>7, <1>8, <1>4
  <2>2. CASE y = at
    <3>1. x \in 1..n /\ parts[x] = h.parts[x] /\ parts[y] = part
      BY <2>2, <1>7, <1>4
    <3> QED BY <3>1, <2>2, <1>1, <1>9
  <2>3. CASE y > at
    <3>1. y - 1 \in at..n /\ y - 1 \in 1..n /\ parts[y] = h.parts[y - 1]
      BY <2>3, <1>7, <1>4
    <3>2. CASE x < at
      <4>1. x \in 1..n /\ x < y - 1 /\ parts[x] = h.parts[x]
        BY <3>2, <3>1, <1>7, <1>4
      <4> QED BY <4>1, <3>1, <1>8
    <3>3. CASE x = at
      <4>1. part.size < h.parts[y - 1].size /\ h.parts[y - 1].id # part.id
        BY <3>1, <1>1, <1>5
      <4> QED BY <4>1, <3>1, <3>3, <1>6, <1>2a
    <3>4. CASE x > at
      <4>1. x - 1 \in 1..n /\ x - 1 < y - 1 /\ parts[x] = h.parts[x - 1]
        BY <3>4, <3>1, <1>7, <1>4
      <4> QED BY <4>1, <3>1, <1>8
    <3> QED BY <3>2, <3>3, <3>4, <1>4
  <2> QED BY <2>1, <2>2, <2>3, <1>4
<1>11. \A k \in 1..n : \E q \in 1..(n + 1) : parts[q] = h.parts[k]
  <2> SUFFICES ASSUME NEW k \in 1..n PROVE \E q \in 1..(n + 1) : parts[q] = h.parts[k]
    OBVIOUS
  <2>1. CASE k < at
    BY <2>1, <1>4, <1>6
  <2>2. CASE k >= at
    <3>1. k \in at..n /\ k + 1 \in 1..(n + 1)
      BY <2>2, <1>4
    <3> QED BY <3>1, <1>6
  <2> QED BY <2>1, <2>2, <1>4
<1>12. DOMAIN parts = 1..(n + 1) /\ \A q \in 1..(n + 1) : parts[q] = part \/ \E k \in 1..n : parts[q] = h.parts[k]
  BY <1>4, <1>6, <1>7
<1> DEFINE g == [h EXCEPT !.parts = parts]
<1>13. Fits(g)
  <2>1. \A q \in DOMAIN parts : PartFits(h, parts[q])
    BY <1>12, <1>1 DEF Fits
  <2>2. \A b \in DOMAIN h.memory : \E q \in DOMAIN parts : parts[q].id = b[1]
    BY <1>1, <1>11, <1>12 DEF Fits, BlockFits
  <2> QED BY <2>1, <2>2, <1>6, <1>10, OtherParts
<1>14. g.parts = parts /\ g.memory = h.memory /\ g.panicked = h.panicked
  BY FitsTypes
<1>15. add_part(h, part) = g
  BY <1>2 DEF parts
<1> HIDE DEF g
<1>16. \E q \in DOMAIN g.parts : g.parts[q] = part
  BY <1>4, <1>6, <1>12, <1>14
<1>17. \A q \in DOMAIN g.parts : g.parts[q] = part \/ \E k \in DOMAIN h.parts : g.parts[q] = h.parts[k]
  BY <1>1, <1>12, <1>14
<1> QED BY <1>13, <1>14, <1>15, <1>16, <1>17

-----------------------------------------------------------------------------
(* A block is taken.                                                       *)

\* The free blocks without the first, and with one more.
LEMMA FreeTail ==
  ASSUME NEW s \in Seq(Nat), s # <<>>, IsInjective(s)
  PROVE  /\ Head(s) \in ToSet(s) /\ Tail(s) \in Seq(Nat) /\ IsInjective(Tail(s))
         /\ ToSet(Tail(s)) = ToSet(s) \ {Head(s)}
<1>1. PICK n \in Nat \ {0} : n = Len(s) /\ DOMAIN s = 1..n
  OBVIOUS
<1> DEFINE t == Tail(s)
<1>2. t \in Seq(Nat) /\ DOMAIN t = 1..(n - 1) /\ Head(s) = s[1] /\ \A k \in 1..(n - 1) : t[k] = s[k + 1]
  BY <1>1
<1> HIDE DEF t
<1>3. ASSUME NEW a \in 1..(n - 1), NEW b \in 0..(n - 1), s[a + 1] = s[b + 1] PROVE a = b
  <2>1. a + 1 \in DOMAIN s /\ b + 1 \in DOMAIN s
    BY <1>1
  <2>2. a + 1 = b + 1
    BY <2>1, <1>3 DEF IsInjective
  <2> QED BY <2>2
<1>4. IsInjective(t)
  <2> SUFFICES ASSUME NEW a \in 1..(n - 1), NEW b \in 1..(n - 1), t[a] = t[b] PROVE a = b
    BY <1>2 DEF IsInjective
  <2>1. s[a + 1] = s[b + 1] /\ b \in 0..(n - 1)
    BY <1>2
  <2> QED BY <2>1, <1>3
<1>5. ASSUME NEW k \in 1..(n - 1) PROVE t[k] \in ToSet(s) \ {Head(s)}
  <2>1. k + 1 \in DOMAIN s /\ t[k] = s[k + 1]
    BY <1>1, <1>2
  <2>2. s[k + 1] # s[0 + 1]
    <3>1. 0 \in 0..(n - 1) /\ k # 0
      BY <1>1
    <3> QED BY <3>1, <1>3
  <2> QED BY <2>1, <2>2, <1>2 DEF ToSet
<1>6. ASSUME NEW x \in ToSet(s), x # Head(s) PROVE x \in ToSet(t)
  <2>1. PICK k \in 1..n : s[k] = x
    BY <1>1, <1>6 DEF ToSet
  <2>2. k - 1 \in 1..(n - 1) /\ k = (k - 1) + 1
    BY <2>1, <1>1, <1>2, <1>6
  <2>3. t[k - 1] = x
    BY <2>1, <2>2, <1>2
  <2> QED BY <2>2, <2>3, <1>2 DEF ToSet
<1>7. Head(s) \in ToSet(s)
  <2>1. 1 \in DOMAIN s
    BY <1>1
  <2> QED BY <2>1, <1>2 DEF ToSet
<1>8. ToSet(t) = ToSet(s) \ {Head(s)}
  <2>1. \A x \in ToSet(t) : \E k \in 1..(n - 1) : x = t[k]
    BY <1>2 DEF ToSet
  <2> QED BY <2>1, <1>5, <1>6
<1> QED BY <1>2, <1>4, <1>7, <1>8 DEF t

\* The block that is taken was free, and is used once its part says so.
LEMMA BlockTaken ==
  ASSUME NEW h, Fits(h), NEW p \in DOMAIN h.parts, h.parts[p].free_link # <<>>,
         \A q \in DOMAIN h.parts : q # p => h.parts[q].used > 0
  PROVE  LET r == TakeBlock(h, p)
             Busy == DOMAIN h.memory
         IN  /\ Sound(r.heap) /\ r.heap.panicked = h.panicked
             /\ r.at \in Blocks /\ r.at \notin Busy
             /\ DOMAIN r.heap.memory = Busy \cup {r.at}
             /\ \A b \in Busy : r.heap.memory[b] = h.memory[b]
             /\ Len(r.heap.memory[r.at]) = PART_COUNT[h.parts[p].size][1]
<1> DEFINE part == h.parts[p]
           ix == Head(part.free_link)
           at == <<part.id, ix>>
           cells == [k \in 1..PART_COUNT[part.size][1] |-> Junk]
           Busy == DOMAIN h.memory
           memory == [b \in Busy \cup {at} |-> IF b = at THEN cells ELSE h.memory[b]]
           taken == [part EXCEPT !.free_link = Tail(part.free_link), !.used = part.used + 1]
           g == TakeBlock(h, p).heap
<1>1. PICK n \in Nat : n = Len(h.parts) /\ DOMAIN h.parts = 1..n /\ h.parts \in Seq(Parts)
  BY FitsTypes
<1>0. h \in [parts : Seq(Parts), memory : {h.memory}, panicked : BOOLEAN]
  BY DEF Fits
<1>2. part \in Parts /\ PartFits(h, part) /\ part.free_link \in Seq(Nat) /\ part.used \in Nat
  <2>1. part \in Parts
    BY <1>1
  <2> QED BY <2>1 DEF Fits, Parts
<1>3. TakeBlock(h, p).at = at /\ g.memory = memory /\ g.panicked = h.panicked
  <2>1. TakeBlock(h, p).at = at
    BY DEF TakeBlock
  <2>2. g.panicked = h.panicked
    BY <1>0 DEF TakeBlock
  <2>3. g.memory = memory
    BY <1>0 DEF TakeBlock
  <2> QED BY <2>1, <2>2, <2>3
<1>4. g.parts = [h.parts EXCEPT ![p] = taken]
  <2> DEFINE x == [part EXCEPT !.free_link = Tail(part.free_link)]
             y == [h EXCEPT !.parts[p].free_link = Tail(@)]
             z == [y EXCEPT !.parts[p].used = @ + 1]
  <2>1. y.parts = [h.parts EXCEPT ![p] = x] /\ y \in [parts : {y.parts}, memory : {h.memory}, panicked : BOOLEAN]
    BY <1>0
  <2>2. DOMAIN y.parts = 1..n /\ y.parts[p] = x
    BY <1>1, <2>1
  <2>3. g = [z EXCEPT !.memory = memory]
    BY DEF TakeBlock
  <2> HIDE DEF y
  <2>4. z.parts = [y.parts EXCEPT ![p] = [x EXCEPT !.used = @ + 1]]
    BY <2>1, <2>2
  <2>5. g.parts = z.parts
    BY <2>3, <2>1
  <2>6. z.parts = [h.parts EXCEPT ![p] = taken]
    BY <2>4, <2>1, <1>2 DEF Parts
  <2> QED BY <2>5, <2>6
<1>5. taken \in Parts /\ taken.id = part.id /\ taken.size = part.size /\ taken.total = part.total
        /\ taken.free_link = Tail(part.free_link) /\ taken.used = part.used + 1
  <2>1. Tail(part.free_link) \in Seq(Nat)
    BY <1>2
  <2>2. taken \in Parts
    <3>1. part.used + 1 \in Nat
      BY <1>2
    <3> QED BY <2>1, <3>1, <1>2 DEF Parts
  <2>3. taken.id = part.id /\ taken.size = part.size /\ taken.total = part.total
    BY <1>2 DEF Parts
  <2>4. taken.free_link = Tail(part.free_link) /\ taken.used = part.used + 1
    BY <1>2 DEF Parts
  <2> QED BY <2>2, <2>3, <2>4
<1>6. /\ ix \in ToSet(part.free_link) /\ IsInjective(Tail(part.free_link))
      /\ ToSet(Tail(part.free_link)) = ToSet(part.free_link) \ {ix}
  BY <1>2, FreeTail DEF PartFits
<1> HIDE DEF taken, g, ix, memory
<1>7. ix \in BlocksOf(part.size) /\ at \notin Busy /\ ix \in Nat
  BY <1>2, <1>6, SizeFacts DEF PartFits, Used, Parts
<1>8. at \in Blocks /\ at[1] = part.id /\ at[2] = ix /\ part.id[1] = part.size
  BY <1>2, <1>7 DEF Blocks, Parts, PartFits
<1> HIDE DEF at
<1>9. DOMAIN g.memory = Busy \cup {at} /\ g.memory[at] = cells /\ \A b \in Busy : g.memory[b] = h.memory[b]
  BY <1>3, <1>7 DEF memory
<1>10. g.memory = [b \in DOMAIN g.memory |-> g.memory[b]]
  BY <1>3 DEF memory
<1>11. g.parts \in Seq(Parts) /\ DOMAIN g.parts = 1..n /\ g.parts[p] = taken
         /\ \A q \in 1..n : q # p => g.parts[q] = h.parts[q]
  BY <1>1, <1>4, <1>5
<1>12. g \in [parts : Seq(Parts), memory : {g.memory}, panicked : BOOLEAN]
  <2>1. g \in [parts : {g.parts}, memory : {g.memory}, panicked : BOOLEAN]
    BY <1>0 DEF g, TakeBlock
  <2> QED BY <2>1, <1>11
<1>13. PartFits(g, taken)
  <2>1. Used(g, taken) = Used(h, part) \cup {ix}
    BY <1>5, <1>7, <1>8, <1>9 DEF Used, at
  <2>2. ix \notin Used(h, part) /\ IsFiniteSet(Used(h, part))
    BY <1>2, <1>7, SizeFacts, FS_Subset DEF Used, at, Parts
  <2>3. Cardinality(Used(g, taken)) = Cardinality(Used(h, part)) + 1
    BY <2>1, <2>2, FS_AddElement
  <2> QED BY <2>1, <2>3, <1>2, <1>5, <1>6, <1>7 DEF PartFits
<1>14. ASSUME NEW q \in 1..n, q # p PROVE PartFits(g, h.parts[q])
  <2>1. h.parts[q].id # part.id
    BY <1>1, <1>14 DEF Fits, PartsInOrder
  <2>2. Used(g, h.parts[q]) = Used(h, h.parts[q])
    BY <2>1, <1>9 DEF Used, at
  <2> QED BY <2>2, <1>1 DEF Fits, PartFits
<1>15. PartsInOrder(g.parts)
  BY <1>1, <1>5, <1>11 DEF Fits, PartsInOrder
<1>16. ASSUME NEW b \in Busy PROVE BlockFits(g, b)
  <2>1. BlockFits(h, b)
    BY DEF Fits
  <2>2. \A q \in DOMAIN h.parts : g.parts[q].id = h.parts[q].id
    BY <1>1, <1>5, <1>11
  <2> QED BY <2>1, <2>2, <1>1, <1>9, <1>11 DEF BlockFits
<1>17. BlockFits(g, at) /\ Len(cells) = PART_COUNT[part.size][1]
  <2>1. part.size \in PartSize
    BY <1>2 DEF Parts
  <2>2. cells \in Seq(Values) /\ Len(cells) = PART_COUNT[part.size][1]
    BY <2>1, SizeFacts DEF Values
  <2> QED BY <2>2, <1>1, <1>5, <1>7, <1>8, <1>9, <1>11 DEF BlockFits
<1>18. Fits(g)
  BY <1>8, <1>9, <1>10, <1>11, <1>12, <1>13, <1>14, <1>15, <1>16, <1>17 DEF Fits
<1>19. \A q \in 1..n : g.parts[q].used > 0
  <2>1. g.parts[p].used > 0
    BY <1>2, <1>5, <1>11
  <2> QED BY <2>1, <1>1, <1>11
<1>20. Sound(g)
  BY <1>11, <1>18, <1>19 DEF Sound
<1> QED BY <1>3, <1>7, <1>8, <1>9, <1>17, <1>20 DEF g

-----------------------------------------------------------------------------
(* Allocation.                                                             *)

\* The part that is chosen has a free block of the size, and there is none if 0 is.
LEMMA AvailableFacts ==
  ASSUME NEW h, h.parts \in Seq(Parts), NEW size
  PROVE  LET p == Available(h, size)
             Free(q) == h.parts[q].size = size /\ h.parts[q].free_link # <<>>
         IN  /\ p = 0 => \A q \in DOMAIN h.parts : ~Free(q)
             /\ p # 0 => p \in DOMAIN h.parts /\ Free(p)
<1>1. PICK n \in Nat : n = Len(h.parts) /\ DOMAIN h.parts = 1..n
  OBVIOUS
<1> DEFINE I == {q \in 1..n : h.parts[q].size = size /\ h.parts[q].free_link # <<>>}
           p == IF I # {} THEN Min(I) ELSE 0
<1>2. Available(h, size) = p
  BY <1>1 DEF Available, SelectInSeq
<1>3. /\ p = 0 => I = {}
      /\ p # 0 => p \in I
  <2>1. I \in SUBSET (1..n)
    OBVIOUS
  <2> HIDE DEF I
  <2> QED BY <2>1, FirstPlace
<1> HIDE DEF p
<1> QED BY <1>1, <1>2, <1>3

\* A block that was not used is used, with room for what was asked, and nothing else
\* changes; or the process panics.
Gains(h, r, size) ==
  /\ Sound(r.heap) /\ r.heap.panicked = h.panicked
  /\ r.at \in Blocks \ DOMAIN h.memory
  /\ DOMAIN r.heap.memory = DOMAIN h.memory \cup {r.at}
  /\ \A b \in DOMAIN h.memory : r.heap.memory[b] = h.memory[b]
  /\ Len(r.heap.memory[r.at]) \in Nat /\ Len(r.heap.memory[r.at]) >= size

\* An allocation that does not panic answers a fresh block with room for it.
LEMMA AllocationGains ==
  ASSUME NEW h, Sound(h), NEW size \in Nat \ {0}
  PROVE  LET r == allocate_memory(h, size)
         IN  r.heap.panicked \/ Gains(h, r, size)
<1> DEFINE fitting == {s \in PartSize : size <= PART_COUNT[s][1]}
           r == allocate_memory(h, size)
<1>1. Fits(h) /\ h.parts \in Seq(Parts) /\ \A p \in DOMAIN h.parts : h.parts[p].used > 0
  BY FitsTypes DEF Sound
<1>2. CASE fitting = {}
  <2>1. r = [at |-> NULL, heap |-> panic(h)]
    BY <1>2 DEF allocate_memory
  <2>2. panic(h).panicked
    BY <1>1 DEF panic, Fits
  <2> QED BY <2>1, <2>2
<1>3. CASE fitting # {}
  <2> DEFINE part_size == Min(fitting)
             part == new_part(h, part_size)
             room == IF Available(h, part_size) # 0 THEN h ELSE add_part(h, part)
             p == Available(room, part_size)
  <2>1. r = TakeBlock(room, p)
    BY <1>3 DEF allocate_memory
  <2>2. part_size \in PartSize /\ size <= PART_COUNT[part_size][1]
    <3>1. part_size \in fitting
      <4>1. fitting \in SUBSET Nat
        BY SizeFacts
      <4> HIDE DEF fitting
      <4> QED BY <4>1, <1>3, MinFacts
    <3> QED BY <3>1
  <2> HIDE DEF part_size
  <2>3. /\ Fits(room) /\ room.memory = h.memory /\ room.panicked = h.panicked
        /\ p \in DOMAIN room.parts /\ room.parts[p].size = part_size /\ room.parts[p].free_link # <<>>
        /\ \A q \in DOMAIN room.parts : q # p => room.parts[q].used > 0
    <3>1. CASE Available(h, part_size) # 0
      BY <3>1, <1>1, AvailableFacts
    <3>2. CASE Available(h, part_size) = 0
      <4>1. /\ part \in Parts /\ part.size = part_size /\ part.free_link # <<>> /\ PartFits(h, part)
            /\ \A q \in DOMAIN h.parts : h.parts[q].id # part.id
        BY <1>1, <2>2, NewPart
      <4> HIDE DEF part
      <4>2. room = add_part(h, part)
        BY <3>2
      <4> HIDE DEF room
      <4>3. /\ Fits(room) /\ room.memory = h.memory /\ room.panicked = h.panicked
            /\ \E q \in DOMAIN room.parts : room.parts[q] = part
            /\ \A q \in DOMAIN room.parts :
                 room.parts[q] = part \/ \E k \in DOMAIN h.parts : room.parts[q] = h.parts[k]
        BY <4>1, <4>2, <1>1, PartAdded
      <4>4. room.parts \in Seq(Parts)
        BY <4>3, FitsTypes
      <4>5. p \in DOMAIN room.parts /\ room.parts[p].size = part_size /\ room.parts[p].free_link # <<>>
        BY <4>1, <4>3, <4>4, AvailableFacts
      <4> HIDE DEF p
      <4>6. \A k \in DOMAIN h.parts : ~ (h.parts[k].size = part_size /\ h.parts[k].free_link # <<>>)
        BY <3>2, <1>1, AvailableFacts
      <4>7. room.parts[p] = part
        BY <4>3, <4>5, <4>6
      <4>8. ASSUME NEW q \in DOMAIN room.parts, q # p PROVE room.parts[q].used > 0
        <5>1. room.parts[q].id # room.parts[p].id
          <6>1. p < q \/ q < p
            BY <4>4, <4>5, <4>8
          <6> QED BY <6>1, <4>3, <4>5 DEF Fits, PartsInOrder
        <5>2. PICK k \in DOMAIN h.parts : room.parts[q] = h.parts[k]
          BY <5>1, <4>3, <4>7
        <5> QED BY <5>2, <1>1
      <4> QED BY <4>3, <4>5, <4>8
    <3> QED BY <3>1, <3>2
  <2> HIDE DEF room, p
  <2>4. /\ Sound(r.heap) /\ r.heap.panicked = room.panicked
        /\ r.at \in Blocks /\ r.at \notin DOMAIN room.memory
        /\ DOMAIN r.heap.memory = DOMAIN room.memory \cup {r.at}
        /\ \A b \in DOMAIN room.memory : r.heap.memory[b] = room.memory[b]
        /\ Len(r.heap.memory[r.at]) = PART_COUNT[room.parts[p].size][1]
    BY <2>1, <2>3, BlockTaken
  <2> HIDE DEF r
  <2>5. PART_COUNT[part_size][1] \in Nat
    BY <2>2, SizeFacts
  <2> QED BY <2>2, <2>3, <2>4, <2>5 DEF Gains, r
<1> QED BY <1>2, <1>3

-----------------------------------------------------------------------------
(* A block is given back.                                                  *)

\* A list of free blocks with one more block at its head.
LEMMA FreeCons ==
  ASSUME NEW s \in Seq(Nat), IsInjective(s), NEW ix \in Nat, ix \notin ToSet(s)
  PROVE  LET t == <<ix>> \o s
         IN  t \in Seq(Nat) /\ IsInjective(t) /\ ToSet(t) = ToSet(s) \cup {ix}
<1>1. PICK n \in Nat : n = Len(s) /\ DOMAIN s = 1..n
  OBVIOUS
<1> DEFINE q == <<ix>>
           t == q \o s
<1>2. q \in Seq(Nat) /\ Len(q) = 1 /\ q[1] = ix
  OBVIOUS
<1> HIDE DEF q
<1>3. /\ t \in Seq(Nat) /\ Len(t) = Len(q) + Len(s)
      /\ \A k \in 1..Len(q) : t[k] = q[k]
      /\ \A k \in 1..Len(s) : t[Len(q) + k] = s[k]
  <2>1. q \in Seq(Nat) /\ s \in Seq(Nat)
    BY <1>2
  <2> QED BY <2>1, ConcatFacts
<1> HIDE DEF t
<1>4. DOMAIN t = 1..(n + 1) /\ t[1] = ix /\ \A k \in 1..n : t[k + 1] = s[k]
  <2>1. Len(t) = n + 1 /\ t[1] = ix
    BY <1>1, <1>2, <1>3
  <2>2. \A k \in 1..n : 1 + k = k + 1
    BY <1>1
  <2> QED BY <2>1, <2>2, <1>1, <1>2, <1>3
<1>5. \A k \in 2..(n + 1) : k - 1 \in 1..n /\ k = (k - 1) + 1 /\ t[k] = s[k - 1] /\ t[k] \in ToSet(s)
  <2> SUFFICES ASSUME NEW k \in 2..(n + 1)
               PROVE  k - 1 \in 1..n /\ k = (k - 1) + 1 /\ t[k] = s[k - 1] /\ t[k] \in ToSet(s)
    OBVIOUS
  <2>1. k - 1 \in 1..n /\ k = (k - 1) + 1
    BY <1>1
  <2>2. t[k] = s[k - 1]
    BY <2>1, <1>4
  <2> QED BY <2>1, <2>2, <1>1 DEF ToSet
<1>6. IsInjective(t)
  <2> SUFFICES ASSUME NEW a \in 1..(n + 1), NEW b \in 1..(n + 1), t[a] = t[b] PROVE a = b
    BY <1>4 DEF IsInjective
  <2>1. CASE a = 1 \/ b = 1
    BY <2>1, <1>1, <1>4, <1>5
  <2>2. CASE a # 1 /\ b # 1
    <3>1. a \in 2..(n + 1) /\ b \in 2..(n + 1)
      BY <2>2
    <3>2. a - 1 \in DOMAIN s /\ b - 1 \in DOMAIN s /\ s[a - 1] = s[b - 1]
      BY <3>1, <1>1, <1>5, <2>2
    <3>3. a - 1 = b - 1
      BY <3>2 DEF IsInjective
    <3> QED BY <3>3
  <2> QED BY <2>1, <2>2
<1>7. ToSet(t) = ToSet(s) \cup {ix}
  <2>1. \A x \in ToSet(t) : x \in ToSet(s) \cup {ix}
    <3> SUFFICES ASSUME NEW k \in 1..(n + 1) PROVE t[k] \in ToSet(s) \cup {ix}
      BY <1>4 DEF ToSet
    <3>1. k = 1 \/ k \in 2..(n + 1)
      OBVIOUS
    <3> QED BY <3>1, <1>4, <1>5
  <2>2. \A k \in 1..n : s[k] \in ToSet(t)
    <3> SUFFICES ASSUME NEW k \in 1..n PROVE s[k] \in ToSet(t)
      OBVIOUS
    <3>1. k + 1 \in DOMAIN t
      BY <1>4
    <3> QED BY <3>1, <1>4 DEF ToSet
  <2>3. ix \in ToSet(t)
    <3>1. 1 \in DOMAIN t
      BY <1>1, <1>4
    <3> QED BY <3>1, <1>4 DEF ToSet
  <2> QED BY <2>1, <2>2, <2>3, <1>1 DEF ToSet
<1> QED BY <1>3, <1>6, <1>7 DEF t, q

\* The header of a block leads to its part, if it was set.
LEMMA PartOfBlock ==
  ASSUME NEW h, Fits(h), NEW b \in DOMAIN h.memory
  PROVE  LET p == PartOf(h, b)
         IN  p = NULL \/ (p \in DOMAIN h.parts /\ h.parts[p].id = b[1])
<1>1. PICK n \in Nat : n = Len(h.parts) /\ DOMAIN h.parts = 1..n
  BY FitsTypes
<1> DEFINE I == {q \in 1..n : h.parts[q].id = b[1]}
           p == IF I # {} THEN Min(I) ELSE 0
<1>2. SelectInSeq(h.parts, LAMBDA part : part.id = b[1]) = p
  BY <1>1 DEF SelectInSeq
<1>3. I # {} /\ I \in SUBSET (1..n)
  BY <1>1 DEF Fits, BlockFits
<1>4. p \in I
  <2> HIDE DEF I
  <2> QED BY <1>3, MinFacts
<1> HIDE DEF p
<1>5. PartOf(h, b) = NULL \/ PartOf(h, b) = p
  BY <1>2 DEF PartOf
<1>6. p \in 1..n /\ h.parts[p].id = b[1]
  BY <1>4
<1> HIDE DEF I
<1> QED BY <1>1, <1>5, <1>6

\* A part none of whose blocks is used can be taken out.
LEMMA PartRemoved ==
  ASSUME NEW h, Fits(h), NEW p \in DOMAIN h.parts, h.parts[p].used = 0,
         \A q \in DOMAIN h.parts : q # p => h.parts[q].used > 0
  PROVE  LET g == remove_part(h, p)
         IN  Sound(g) /\ g.memory = h.memory /\ g.panicked = h.panicked
<1>1. PICK n \in Nat : n = Len(h.parts) /\ DOMAIN h.parts = 1..n /\ h.parts \in Seq(Parts)
  BY FitsTypes
<1> DEFINE parts == RemoveAt(h.parts, p)
           g == [h EXCEPT !.parts = parts]
<1>2. /\ parts \in Seq(Parts) /\ Len(parts) = n - 1
      /\ \A k \in 1..(p - 1) : parts[k] = h.parts[k]
      /\ \A k \in p..(n - 1) : parts[k] = h.parts[k + 1]
  <2>1. h.parts \in Seq(Parts) /\ p \in 1..Len(h.parts)
    BY <1>1
  <2>2. /\ parts \in Seq(Parts) /\ Len(parts) = Len(h.parts) - 1
        /\ \A k \in 1..(p - 1) : parts[k] = h.parts[k]
        /\ \A k \in p..(Len(h.parts) - 1) : parts[k] = h.parts[k + 1]
    BY <2>1, RemoveFacts, ZenonT(30)
  <2> HIDE DEF parts
  <2> QED BY <2>2, <1>1
<1> HIDE DEF parts
<1> DEFINE Old(k) == IF k < p THEN k ELSE k + 1
<1>3. \A k \in 1..(n - 1) : Old(k) \in 1..n /\ Old(k) # p /\ parts[k] = h.parts[Old(k)]
  <2> SUFFICES ASSUME NEW k \in 1..(n - 1)
               PROVE  Old(k) \in 1..n /\ Old(k) # p /\ parts[k] = h.parts[Old(k)]
    OBVIOUS
  <2>1. CASE k < p
    <3>1. k \in 1..(p - 1) /\ Old(k) = k
      BY <2>1, <1>1
    <3> QED BY <3>1, <1>1, <1>2
  <2>2. CASE ~ (k < p)
    <3>1. k \in p..(n - 1) /\ Old(k) = k + 1
      BY <2>2, <1>1
    <3> QED BY <3>1, <1>1, <1>2
  <2> QED BY <2>1, <2>2
<1>4. \A k, m \in 1..(n - 1) : k < m => Old(k) < Old(m)
  BY <1>1
<1>5. ASSUME NEW q \in 1..n, q # p PROVE \E k \in 1..(n - 1) : parts[k] = h.parts[q]
  <2>1. CASE q < p
    BY <2>1, <1>1, <1>2
  <2>2. CASE q > p
    <3>1. q - 1 \in p..(n - 1) /\ (q - 1) + 1 = q /\ q - 1 \in 1..(n - 1)
      BY <2>2, <1>1
    <3> QED BY <3>1, <1>2
  <2> QED BY <2>1, <2>2, <1>1, <1>5
<1> HIDE DEF Old
<1>6. DOMAIN parts = 1..(n - 1)
  BY <1>1, <1>2
<1>7. PartsInOrder(parts)
  BY <1>1, <1>3, <1>4, <1>6 DEF PartsInOrder, Fits
<1>8. ASSUME NEW k \in 1..(n - 1) PROVE PartFits(h, parts[k]) /\ parts[k].used > 0
  BY <1>1, <1>3 DEF Fits
<1>9. ASSUME NEW b \in DOMAIN h.memory PROVE \E k \in 1..(n - 1) : parts[k].id = b[1]
  <2>1. PICK q \in 1..n : h.parts[q].id = b[1]
    BY <1>1 DEF Fits, BlockFits
  <2>2. q # p
    <3> SUFFICES ASSUME q = p PROVE FALSE
      OBVIOUS
    <3> DEFINE part == h.parts[p]
    <3>1. PartFits(h, part) /\ part \in Parts /\ b \in Blocks /\ b[2] \in BlocksOf(b[1][1])
      BY <1>1 DEF Fits, BlockFits
    <3>2. b = <<part.id, b[2]>> /\ b[1][1] = part.size
      BY <3>1, <2>1 DEF Blocks, PartFits
    <3>3. b[2] \in Used(h, part)
      BY <3>1, <3>2 DEF Used
    <3>4. IsFiniteSet(Used(h, part)) /\ Cardinality(Used(h, part)) = 0
      BY <3>1, SizeFacts, FS_Subset DEF Used, PartFits, Parts
    <3> QED BY <3>3, <3>4, FS_EmptySet
  <2> QED BY <2>1, <2>2, <1>5
<1>10. Fits(g)
  BY <1>2, <1>6, <1>7, <1>8, <1>9, OtherParts
<1>11. g.parts = parts /\ g.memory = h.memory /\ g.panicked = h.panicked
  BY FitsTypes
<1>12. remove_part(h, p) = g
  BY DEF remove_part, parts
<1> HIDE DEF g
<1> QED BY <1>6, <1>8, <1>10, <1>11, <1>12 DEF Sound

-----------------------------------------------------------------------------
(* Release.                                                                *)

\* A block is given back: nothing else changes, or the process panics.
Loses(h, r, b) ==
  /\ Sound(r) /\ r.panicked = h.panicked
  /\ DOMAIN r.memory = DOMAIN h.memory \ {b}
  /\ \A c \in DOMAIN h.memory \ {b} : r.memory[c] = h.memory[c]

\* A release that does not panic takes the block out, and no other.
LEMMA FreeLoses ==
  ASSUME NEW h, Sound(h), NEW b \in DOMAIN h.memory
  PROVE  LET r == free_memory(h, b)
         IN  r.panicked \/ Loses(h, r, b)
<1> DEFINE Busy == DOMAIN h.memory
           r == free_memory(h, b)
           p == PartOf(h, b)
           part == h.parts[p]
           memory == [c \in Busy \ {b} |-> h.memory[c]]
           freed == [h EXCEPT !.parts[p].used = @ - 1, !.parts[p].free_link = <<b[2]>> \o @,
                              !.memory = [c \in DOMAIN @ \ {b} |-> @[c]]]
           left == [part EXCEPT !.used = part.used - 1, !.free_link = <<b[2]>> \o part.free_link]
<1>0. h \in [parts : Seq(Parts), memory : {h.memory}, panicked : BOOLEAN] /\ Fits(h)
        /\ \A q \in DOMAIN h.parts : h.parts[q].used > 0
  BY DEF Fits, Sound
<1>1. PICK n \in Nat : n = Len(h.parts) /\ DOMAIN h.parts = 1..n /\ h.parts \in Seq(Parts)
  BY <1>0
<1>2. b \in Blocks /\ b # NULL
  BY <1>0, NullIsNoBlock DEF Fits
<1>3. CASE p = NULL
  <2>1. r = panic(h)
    BY <1>2, <1>3 DEF free_memory
  <2> QED BY <2>1, <1>0 DEF panic
<1>4. CASE p # NULL
  <2>1. p \in 1..n /\ part.id = b[1]
    BY <1>0, <1>1, <1>4, PartOfBlock
  <2>2. r = IF IsUnused(freed.parts[p]) THEN remove_part(freed, p) ELSE freed
    BY <1>2, <1>4 DEF free_memory
  <2> HIDE DEF p, r
  <2>3. part \in Parts /\ PartFits(h, part) /\ part.free_link \in Seq(Nat) /\ part.used \in Nat
          /\ part.used > 0
    <3>1. part \in Parts
      BY <1>1, <2>1
    <3> QED BY <3>1, <1>0, <1>1, <2>1 DEF Fits, Parts
  <2>4. /\ freed.memory = memory /\ freed.panicked = h.panicked
        /\ freed \in [parts : {freed.parts}, memory : {freed.memory}, panicked : BOOLEAN]
    <3>1. freed.memory = memory
      BY <1>0
    <3>2. freed.panicked = h.panicked
      BY <1>0
    <3>3. freed \in [parts : {freed.parts}, memory : {freed.memory}, panicked : BOOLEAN]
      BY <1>0
    <3> QED BY <3>1, <3>2, <3>3
  <2>5. freed.parts = [h.parts EXCEPT ![p] = left]
    <3> DEFINE x == [part EXCEPT !.used = part.used - 1]
               y == [h EXCEPT !.parts[p].used = @ - 1]
               z == [y EXCEPT !.parts[p].free_link = <<b[2]>> \o @]
    <3>1. y.parts = [h.parts EXCEPT ![p] = x] /\ y \in [parts : {y.parts}, memory : {h.memory}, panicked : BOOLEAN]
      BY <1>0
    <3>2. DOMAIN y.parts = 1..n /\ y.parts[p] = x
      BY <1>1, <2>1, <3>1
    <3>3. freed = [z EXCEPT !.memory = [c \in DOMAIN @ \ {b} |-> @[c]]]
      BY ZenonT(40)
    <3> HIDE DEF y, freed
    <3>4. z.parts = [y.parts EXCEPT ![p] = [x EXCEPT !.free_link = <<b[2]>> \o @]]
      BY <3>1, <3>2
    <3>5. freed.parts = z.parts
      BY <3>3, <3>1
    <3>6. z.parts = [h.parts EXCEPT ![p] = left]
      BY <3>4, <3>1, <2>3 DEF Parts
    <3> QED BY <3>5, <3>6
  <2>6. /\ b = <<part.id, b[2]>> /\ b[1][1] = part.size /\ b[2] \in BlocksOf(part.size) /\ b[2] \in Nat
        /\ b[2] \in Used(h, part) /\ b[2] \notin ToSet(part.free_link)
    <3>1. b[2] \in BlocksOf(b[1][1])
      BY <1>0 DEF Fits, BlockFits
    <3>2. b = <<part.id, b[2]>> /\ b[1][1] = part.size /\ b[2] \in Nat
      BY <1>2, <2>1, <2>3 DEF Blocks, PartFits
    <3>3. b[2] \in Used(h, part)
      BY <3>1, <3>2 DEF Used
    <3> QED BY <3>1, <3>2, <3>3, <2>3 DEF PartFits
  <2>7. LET t == <<b[2]>> \o part.free_link
        IN  t \in Seq(Nat) /\ IsInjective(t) /\ ToSet(t) = ToSet(part.free_link) \cup {b[2]}
    BY <2>3, <2>6, FreeCons DEF PartFits
  <2> DEFINE t == <<b[2]>> \o part.free_link
  <2> HIDE DEF t
  <2>8. left \in Parts /\ left.id = part.id /\ left.size = part.size /\ left.total = part.total
          /\ left.free_link = t /\ left.used = part.used - 1
    <3>1. part.used - 1 \in Nat /\ t \in Seq(Nat)
      BY <2>3, <2>7 DEF t
    <3>2. left = [part EXCEPT !.used = part.used - 1, !.free_link = t]
      BY DEF t
    <3> HIDE DEF left
    <3>3. left \in Parts
      BY <3>1, <3>2, <2>3 DEF Parts
    <3>4. left.id = part.id /\ left.size = part.size /\ left.total = part.total
      BY <3>2, <2>3 DEF Parts
    <3>5. left.free_link = t /\ left.used = part.used - 1
      BY <3>2, <2>3 DEF Parts
    <3> QED BY <3>3, <3>4, <3>5
  <2> HIDE DEF left, freed
  <2>9. DOMAIN freed.memory = Busy \ {b} /\ \A c \in Busy \ {b} : freed.memory[c] = h.memory[c]
    BY <2>4
  <2>10. freed.memory = [c \in DOMAIN freed.memory |-> freed.memory[c]]
    BY <2>4
  <2>11. freed.parts \in Seq(Parts) /\ DOMAIN freed.parts = 1..n /\ freed.parts[p] = left
           /\ \A q \in 1..n : q # p => freed.parts[q] = h.parts[q]
    BY <1>1, <2>1, <2>5, <2>8
  <2>12. freed \in [parts : Seq(Parts), memory : {freed.memory}, panicked : BOOLEAN]
    BY <2>4, <2>11
  <2>13. PartFits(freed, left)
    <3>1. Used(freed, left) = Used(h, part) \ {b[2]}
      BY <2>6, <2>8, <2>9 DEF Used
    <3>2. IsFiniteSet(Used(h, part))
      BY <2>3, SizeFacts, FS_Subset DEF Used, Parts
    <3>3. Cardinality(Used(freed, left)) = Cardinality(Used(h, part)) - 1
      <4>1. Cardinality(Used(h, part) \ {b[2]}) = Cardinality(Used(h, part)) - 1
        <5> DEFINE S == Used(h, part)
                   e == b[2]
        <5>1. IsFiniteSet(S) /\ e \in S
          BY <3>2, <2>6
        <5> HIDE DEF S, e
        <5>2. Cardinality(S \ {e}) = Cardinality(S) - 1
          BY <5>1, FS_RemoveElement
        <5> QED BY <5>2 DEF S, e
      <4> QED BY <4>1, <3>1
    <3>4. ToSet(t) = BlocksOf(left.size) \ Used(freed, left)
      BY <3>1, <2>3, <2>6, <2>7, <2>8 DEF PartFits, t
    <3> QED BY <3>3, <3>4, <2>3, <2>7, <2>8 DEF PartFits, t
  <2>14. ASSUME NEW q \in 1..n, q # p PROVE PartFits(freed, h.parts[q])
    <3>1. h.parts[q].id # part.id
      BY <1>0, <1>1, <2>1, <2>14 DEF Fits, PartsInOrder
    <3>2. Used(freed, h.parts[q]) = Used(h, h.parts[q])
      BY <3>1, <2>6, <2>9 DEF Used
    <3> QED BY <3>2, <1>0, <1>1 DEF Fits, PartFits
  <2>15. PartsInOrder(freed.parts)
    BY <1>0, <1>1, <2>8, <2>11 DEF Fits, PartsInOrder
  <2>16. ASSUME NEW c \in Busy \ {b} PROVE BlockFits(freed, c)
    <3>1. BlockFits(h, c)
      BY <1>0 DEF Fits
    <3>2. \A q \in DOMAIN h.parts : freed.parts[q].id = h.parts[q].id
      BY <1>1, <2>8, <2>11
    <3> QED BY <3>1, <3>2, <1>1, <2>9, <2>11 DEF BlockFits
  <2>17. Fits(freed)
    <3>1. DOMAIN freed.memory \subseteq Blocks
      BY <2>9, <1>0 DEF Fits
    <3>2. \A q \in DOMAIN freed.parts : PartFits(freed, freed.parts[q])
      BY <2>11, <2>13, <2>14
    <3>3. \A c \in DOMAIN freed.memory : BlockFits(freed, c)
      BY <2>9, <2>16
    <3> QED BY <3>1, <3>2, <3>3, <2>10, <2>12, <2>15 DEF Fits
  <2>18. \A q \in DOMAIN freed.parts : q # p => freed.parts[q].used > 0
    BY <1>0, <1>1, <2>11
  <2>19. CASE left.used = 0
    <3>1. r = remove_part(freed, p)
      BY <2>2, <2>11, <2>19 DEF IsUnused
    <3>2. Sound(r) /\ r.memory = freed.memory /\ r.panicked = freed.panicked
      BY <3>1, <2>1, <2>11, <2>17, <2>18, <2>19, PartRemoved
    <3> QED BY <3>2, <2>4, <2>9 DEF Loses, r
  <2>20. CASE left.used # 0
    <3>1. r = freed
      BY <2>2, <2>11, <2>20 DEF IsUnused
    <3>2. left.used > 0
      BY <2>20, <2>8, <2>3
    <3>3. Sound(freed)
      BY <3>2, <2>11, <2>17, <2>18 DEF Sound
    <3> QED BY <3>1, <3>3, <2>4, <2>9 DEF Loses, r
  <2> QED BY <2>19, <2>20
<1> QED BY <1>3, <1>4

-----------------------------------------------------------------------------
(* Copying.                                                                *)

\* What is written over a part of a sequence.
LEMMA PutFacts ==
  ASSUME NEW S, NEW s \in Seq(S), NEW new \in Seq(S), NEW at \in Nat \ {0},
         at + Len(new) <= Len(s) + 1
  PROVE  LET t == Put(s, at, new)
         IN  /\ t \in Seq(S) /\ Len(t) = Len(s)
             /\ \A k \in 1..Len(s) :
                  /\ k < at => t[k] = s[k]
                  /\ (k >= at /\ k < at + Len(new)) => t[k] = new[k - at + 1]
                  /\ k >= at + Len(new) => t[k] = s[k]
<1>1. PICK n \in Nat : n = Len(s)
  OBVIOUS
<1>2. PICK m \in Nat : m = Len(new)
  OBVIOUS
<1> DEFINE a == SubSeq(s, 1, at - 1)
           c == SubSeq(s, at + m, n)
           d == a \o new
           t == d \o c
<1>3. a \in Seq(S) /\ Len(a) = at - 1 /\ \A k \in 1..(at - 1) : a[k] = s[k]
  BY <1>1, <1>2
<1>4. c \in Seq(S) /\ Len(c) = n - (at + m) + 1 /\ \A k \in 1..(n - (at + m) + 1) : c[k] = s[at + m + k - 1]
  BY <1>1, <1>2
<1> HIDE DEF a, c
<1>5. /\ d \in Seq(S) /\ Len(d) = (at - 1) + m
      /\ \A k \in 1..(at - 1) : d[k] = s[k]
      /\ \A k \in 1..m : d[(at - 1) + k] = new[k]
  <2>1. /\ d \in Seq(S) /\ Len(d) = Len(a) + Len(new)
        /\ \A k \in 1..Len(a) : d[k] = a[k]
        /\ \A k \in 1..Len(new) : d[Len(a) + k] = new[k]
    <3>1. a \in Seq(S) /\ new \in Seq(S)
      BY <1>3
    <3> QED BY <3>1, ConcatFacts
  <2> QED BY <2>1, <1>2, <1>3
<1> HIDE DEF d
<1>6. /\ t \in Seq(S) /\ Len(t) = n
      /\ \A k \in 1..((at - 1) + m) : t[k] = d[k]
      /\ \A k \in 1..(n - (at + m) + 1) : t[(at - 1) + m + k] = c[k]
  <2>1. /\ t \in Seq(S) /\ Len(t) = Len(d) + Len(c)
        /\ \A k \in 1..Len(d) : t[k] = d[k]
        /\ \A k \in 1..Len(c) : t[Len(d) + k] = c[k]
    <3>1. d \in Seq(S) /\ c \in Seq(S)
      BY <1>4, <1>5
    <3> QED BY <3>1, ConcatFacts
  <2>2. Len(d) + Len(c) = n
    BY <1>1, <1>2, <1>4, <1>5
  <2> QED BY <2>1, <2>2, <1>4, <1>5
<1>7. Put(s, at, new) = t
  BY <1>1, <1>2 DEF Put, a, c, d
<1> HIDE DEF t
<1>8. ASSUME NEW k \in 1..n, k < at PROVE t[k] = s[k]
  <2>1. k \in 1..(at - 1) /\ k \in 1..((at - 1) + m)
    BY <1>8
  <2> QED BY <2>1, <1>5, <1>6
<1>9. ASSUME NEW k \in 1..n, k >= at, k < at + m PROVE t[k] = new[k - at + 1]
  <2>1. k - at + 1 \in 1..m /\ k = (at - 1) + (k - at + 1) /\ k \in 1..((at - 1) + m)
    BY <1>9
  <2>2. d[(at - 1) + (k - at + 1)] = new[k - at + 1]
    BY <2>1, <1>5
  <2> QED BY <2>1, <2>2, <1>6
<1>10. ASSUME NEW k \in 1..n, k >= at + m PROVE t[k] = s[k]
  <2> DEFINE j == k - (at + m) + 1
  <2>1. j \in 1..(n - (at + m) + 1) /\ k = (at - 1) + m + j /\ at + m + j - 1 = k
    BY <1>10
  <2> HIDE DEF j
  <2>2. t[(at - 1) + m + j] = c[j] /\ c[j] = s[at + m + j - 1]
    BY <2>1, <1>4, <1>6
  <2> QED BY <2>1, <2>2
<1> QED BY <1>1, <1>2, <1>6, <1>7, <1>8, <1>9, <1>10

\* g is h with new written into the block to from the cell at on.
Overwritten(h, to, at, new, g) ==
  /\ Sound(g) /\ g.panicked = h.panicked /\ DOMAIN g.memory = DOMAIN h.memory
  /\ \A c \in DOMAIN h.memory \ {to} : g.memory[c] = h.memory[c]
  /\ g.memory[to] = Put(h.memory[to], at, new)

\* Values written into a used block: the heap stays sound, and no other block changes.
LEMMA CopyFacts ==
  ASSUME NEW h, Sound(h), NEW to \in DOMAIN h.memory, NEW new \in Seq(Values), NEW at \in Nat \ {0},
         at + Len(new) <= Len(h.memory[to]) + 1
  PROVE  Overwritten(h, to, at, new, memcpy(h, to, at, new))
<1> DEFINE g == memcpy(h, to, at, new)
           cells == Put(h.memory[to], at, new)
<1>1. /\ h \in [parts : Seq(Parts), memory : {h.memory}, panicked : BOOLEAN] /\ Fits(h)
      /\ h.memory = [b \in DOMAIN h.memory |-> h.memory[b]]
      /\ h.memory[to] \in Seq(Values)
  BY DEF Sound, Fits, BlockFits
<1>2. cells \in Seq(Values) /\ Len(cells) = Len(h.memory[to])
  BY <1>1, PutFacts
<1> HIDE DEF cells
<1>3. g = [h EXCEPT !.memory[to] = cells]
  BY DEF memcpy, cells
<1> HIDE DEF g
<1>4. /\ g.memory = [h.memory EXCEPT ![to] = cells]
      /\ g.parts = h.parts /\ g.panicked = h.panicked
      /\ g \in [parts : Seq(Parts), memory : {g.memory}, panicked : BOOLEAN]
  BY <1>1, <1>3
<1>5. /\ DOMAIN g.memory = DOMAIN h.memory /\ g.memory[to] = cells
      /\ \A c \in DOMAIN h.memory \ {to} : g.memory[c] = h.memory[c]
      /\ g.memory = [b \in DOMAIN g.memory |-> g.memory[b]]
  <2>1. DOMAIN g.memory = DOMAIN h.memory
    BY <1>4
  <2>2. g.memory[to] = cells /\ \A c \in DOMAIN h.memory \ {to} : g.memory[c] = h.memory[c]
    BY <1>4
  <2>3. g.memory = [b \in DOMAIN g.memory |-> g.memory[b]]
    BY <1>4
  <2> QED BY <2>1, <2>2, <2>3
<1>6. \A part : Used(g, part) = Used(h, part)
  BY <1>5 DEF Used
<1>7. \A p \in DOMAIN g.parts : PartFits(g, g.parts[p])
  <2> SUFFICES ASSUME NEW p \in DOMAIN g.parts PROVE PartFits(g, g.parts[p])
    OBVIOUS
  <2>1. g.parts[p] = h.parts[p] /\ PartFits(h, h.parts[p])
    BY <1>1, <1>4 DEF Fits
  <2> QED BY <2>1, <1>6 DEF PartFits
<1>8. \A b \in DOMAIN g.memory : BlockFits(g, b)
  <2> SUFFICES ASSUME NEW b \in DOMAIN h.memory PROVE BlockFits(g, b)
    BY <1>5
  <2>1. BlockFits(h, b)
    BY <1>1 DEF Fits
  <2>2. g.memory[b] \in Seq(Values) /\ Len(g.memory[b]) = Len(h.memory[b])
    <3>1. CASE b = to
      BY <3>1, <1>2, <1>5
    <3>2. CASE b # to
      BY <3>2, <2>1, <1>5 DEF BlockFits
    <3> QED BY <3>1, <3>2
  <2> QED BY <2>1, <2>2, <1>4 DEF BlockFits
<1>9. Sound(g)
  BY <1>1, <1>4, <1>5, <1>7, <1>8 DEF Sound, Fits
<1> QED BY <1>4, <1>5, <1>9 DEF g, cells, Overwritten

-----------------------------------------------------------------------------
(* Growing.                                                                *)

\* grow_capacity always answers more than it was given.
LEMMA GrowsCapacity ==
  ASSUME NEW c \in Nat
  PROVE  grow_capacity(c) \in Nat \ {0} /\ grow_capacity(c) > c
BY CapacityGrows DEF grow_capacity

\* f is a run of the loop of vec_resize, n times round.
IsGrowth(f, cap, min, n) ==
  f = [k \in 0..n |-> IF k = 0 THEN grow_capacity(cap)
                      ELSE IF f[k - 1] < min THEN grow_capacity(f[k - 1]) ELSE f[k - 1]]

\* The loop can go round any number of times: otherwise there is a least number it cannot.
LEMMA GrowthsExist ==
  ASSUME NEW cap, NEW min, NEW n \in Nat
  PROVE  \E f : IsGrowth(f, cap, min, n)
<1> DEFINE S == {m \in Nat : ~ \E f : IsGrowth(f, cap, min, m)}
<1> SUFFICES ASSUME n \in S PROVE FALSE
  OBVIOUS
<1>1. PICK m \in S : \A o \in S : m <= o
  <2>1. S \in SUBSET Nat /\ S # {}
    OBVIOUS
  <2> HIDE DEF S
  <2> QED BY <2>1, LeastMember
<1>2. m # 0
  <2> DEFINE f == [k \in 0..0 |-> grow_capacity(cap)]
  <2>1. IsGrowth(f, cap, min, 0)
    BY DEF IsGrowth
  <2> QED BY <2>1
<1>3. PICK f : IsGrowth(f, cap, min, m - 1)
  <2>1. m - 1 \in Nat /\ m - 1 \notin S
    BY <1>1, <1>2
  <2> QED BY <2>1
<1> DEFINE g == [k \in 0..m |-> IF k < m THEN f[k]
                               ELSE IF f[m - 1] < min THEN grow_capacity(f[m - 1]) ELSE f[m - 1]]
<1>4. IsGrowth(g, cap, min, m)
  <2>1. \A k \in 0..(m - 1) :
          f[k] = IF k = 0 THEN grow_capacity(cap)
                 ELSE IF f[k - 1] < min THEN grow_capacity(f[k - 1]) ELSE f[k - 1]
    BY <1>3, Zenon DEF IsGrowth
  <2>2. ASSUME NEW k \in 0..m
        PROVE  g[k] = IF k = 0 THEN grow_capacity(cap)
                      ELSE IF g[k - 1] < min THEN grow_capacity(g[k - 1]) ELSE g[k - 1]
    BY <2>1, <1>2
  <2>3. g = [k \in 0..m |-> g[k]]
    OBVIOUS
  <2> HIDE DEF g
  <2>4. g = [k \in 0..m |-> IF k = 0 THEN grow_capacity(cap)
                            ELSE IF g[k - 1] < min THEN grow_capacity(g[k - 1]) ELSE g[k - 1]]
    BY <2>2, <2>3
  <2> QED BY <2>4 DEF IsGrowth
<1> HIDE DEF g
<1> QED BY <1>1, <1>4

\* Each round of the loop adds at least one, so it ends with what was asked for.
LEMMA GrownEnough ==
  ASSUME NEW cap \in Nat, NEW min \in Nat
  PROVE  NewCapacity(cap, min) \in Nat \ {0} /\ NewCapacity(cap, min) >= min
<1> DEFINE grown[n \in 0..min] ==
             IF n = 0 THEN grow_capacity(cap)
             ELSE IF grown[n - 1] < min THEN grow_capacity(grown[n - 1]) ELSE grown[n - 1]
<1>1. NewCapacity(cap, min) = grown[min]
  BY DEF NewCapacity
<1>2. PICK f : IsGrowth(f, cap, min, min)
  BY GrowthsExist
<1>3. IsGrowth(grown, cap, min, min)
  BY <1>2 DEF IsGrowth
<1> HIDE DEF grown
<1>4. \A k \in 0..min :
        grown[k] = IF k = 0 THEN grow_capacity(cap)
                   ELSE IF grown[k - 1] < min THEN grow_capacity(grown[k - 1]) ELSE grown[k - 1]
  BY <1>3, Zenon DEF IsGrowth
<1> DEFINE Good(k) == grown[k] \in Nat \ {0} /\ (grown[k] >= min \/ grown[k] >= k + 1)
           S == {k \in 0..min : ~Good(k)}
<1>5. S = {}
  <2> SUFFICES ASSUME S # {} PROVE FALSE
    OBVIOUS
  <2>1. PICK m \in S : \A o \in S : m <= o
    <3>1. S \in SUBSET Nat
      OBVIOUS
    <3> HIDE DEF S
    <3> QED BY <3>1, LeastMember
  <2>2. CASE m = 0
    <3>1. grown[0] = grow_capacity(cap)
      BY <1>4
    <3> QED BY <3>1, <2>1, <2>2, GrowsCapacity
  <2>3. CASE m # 0
    <3>1. m \in 0..min /\ m - 1 \in 0..min /\ Good(m - 1)
      BY <2>1, <2>3
    <3>2. grown[m] = IF grown[m - 1] < min THEN grow_capacity(grown[m - 1]) ELSE grown[m - 1]
      BY <3>1, <2>3, <1>4
    <3>3. grow_capacity(grown[m - 1]) \in Nat \ {0} /\ grow_capacity(grown[m - 1]) > grown[m - 1]
      BY <3>1, GrowsCapacity
    <3>4. Good(m)
      BY <3>1, <3>2, <3>3
    <3> QED BY <3>4, <2>1
  <2> QED BY <2>2, <2>3
<1>6. Good(min)
  BY <1>5
<1> QED BY <1>1, <1>6

-----------------------------------------------------------------------------
(* Making room in a vector.                                                *)

\* The pointers of a Vec stay in a used block, and its elements are written cells of it.
VecFits(h, vec) ==
  /\ vec \in Vectors
  /\ IF vec.start = NULL THEN vec = Empty
     ELSE /\ vec.start \in DOMAIN h.memory
          /\ vec.finish <= vec.end /\ vec.end >= 1 /\ vec.end <= Len(h.memory[vec.start])
          /\ \A ix \in 1..vec.finish : h.memory[vec.start][ix] \in Elements

\* The block an object holds.
StartOf(object) == IF object = NULL THEN NULL ELSE object.start

\* The outcome of a function on an object that did not panic: the Vec it leaves fits, and
\* the blocks of all others are as they were.
Became(h, object, r) ==
  LET kept == DOMAIN h.memory \ {StartOf(object)}
  IN  /\ Sound(r.heap) /\ ~r.heap.panicked
      /\ VecFits(r.heap, r.vec)
      /\ DOMAIN r.heap.memory = kept \cup ({r.vec.start} \ {NULL})
      /\ r.vec.start \notin kept
      /\ \A c \in kept : r.heap.memory[c] = h.memory[c]

\* The elements of a Vec.
LEMMA CellsFacts ==
  ASSUME NEW h, Sound(h), NEW vec, VecFits(h, vec)
  PROVE  /\ Cells(h, vec) \in Seq(Elements) /\ Cells(h, vec) \in Seq(Values)
         /\ Len(Cells(h, vec)) = vec.finish
         /\ \A ix \in 1..vec.finish : Cells(h, vec)[ix] = h.memory[vec.start][ix]
         /\ vec_len(vec) = vec.finish /\ vec.finish \in Nat /\ vec.end \in Nat
         /\ vec_capacity(vec) = vec.end /\ vec.finish <= vec.end
         /\ StartOf(vec) = vec.start /\ vec # NULL
         /\ vec.start \in Blocks \cup {NULL}
         /\ vec.start # NULL => h.memory[vec.start] \in Seq(Values)
<1>1. vec \in Vectors /\ vec # NULL /\ StartOf(vec) = vec.start
        /\ vec.finish \in Nat /\ vec.end \in Nat /\ vec.start \in Blocks \cup {NULL}
  BY NullIsNoObject DEF VecFits, Vectors, StartOf
<1>2. CASE vec.start = NULL
  <2>1. vec.finish = 0 /\ vec.end = 0 /\ Cells(h, vec) = <<>>
    BY <1>2 DEF VecFits, Empty, Cells
  <2>2. vec_len(vec) = 0 /\ vec_capacity(vec) = 0
    BY <1>2 DEF vec_len, vec_capacity
  <2> QED BY <1>1, <1>2, <2>1, <2>2
<1>3. CASE vec.start # NULL
  <2>1. /\ vec.start \in DOMAIN h.memory
        /\ vec.finish <= vec.end /\ vec.end <= Len(h.memory[vec.start])
        /\ \A ix \in 1..vec.finish : h.memory[vec.start][ix] \in Elements
    BY <1>3 DEF VecFits
  <2>2. h.memory[vec.start] \in Seq(Values)
    BY <2>1 DEF Sound, Fits, BlockFits
  <2> DEFINE s == h.memory[vec.start]
             n == vec.finish
  <2>3. s \in Seq(Values) /\ n \in Nat /\ n <= Len(s) /\ \A ix \in 1..n : s[ix] \in Elements
    BY <2>1, <2>2, <1>1
  <2> HIDE DEF s, n
  <2>4. SubSeq(s, 1, n) \in Seq(Elements) /\ SubSeq(s, 1, n) \in Seq(Values) /\ Len(SubSeq(s, 1, n)) = n
          /\ \A ix \in 1..n : SubSeq(s, 1, n)[ix] = s[ix]
    BY <2>3
  <2>5. Cells(h, vec) = SubSeq(s, 1, n) /\ vec_len(vec) = n /\ vec_capacity(vec) = vec.end
    BY <1>3 DEF Cells, vec_len, vec_capacity, s, n
  <2> QED BY <1>1, <2>1, <2>3, <2>4, <2>5 DEF s, n
<1> QED BY <1>2, <1>3

\* A function that does nothing.
LEMMA StayBecomes ==
  ASSUME NEW h, Sound(h), ~h.panicked, NEW vec, VecFits(h, vec)
  PROVE  Became(h, vec, [heap |-> h, vec |-> vec])
<1>1. StartOf(vec) = vec.start
  BY CellsFacts
<1>2. vec.start # NULL => vec.start \in DOMAIN h.memory
  BY DEF VecFits
<1>3. NULL \notin DOMAIN h.memory
  BY NullIsNoBlock DEF Sound, Fits
<1> QED BY <1>1, <1>2, <1>3 DEF Became

\* Room is made: the elements are where they were or in a block of their own, and there is
\* the capacity that was asked for.
LEMMA ReservedBecomes ==
  ASSUME NEW h, Sound(h), ~h.panicked, NEW vec, VecFits(h, vec), NEW size \in Nat
  PROVE  LET r == Reserved(h, vec, size)
         IN  \/ r.heap.panicked
             \/ /\ Became(h, vec, r) /\ Cells(r.heap, r.vec) = Cells(h, vec)
                /\ r.vec.finish = vec.finish /\ r.vec.end >= size
<1> DEFINE list == Cells(h, vec)
<1>1. /\ list \in Seq(Elements) /\ list \in Seq(Values) /\ Len(list) = vec.finish
      /\ vec_len(vec) = vec.finish /\ vec.finish \in Nat /\ vec.end \in Nat
      /\ vec_capacity(vec) = vec.end /\ vec.finish <= vec.end /\ StartOf(vec) = vec.start
      /\ \A ix \in 1..vec.finish : list[ix] \in Elements
  BY CellsFacts
<1>2. NULL \notin DOMAIN h.memory /\ DOMAIN h.memory \subseteq Blocks
  BY NullIsNoBlock DEF Sound, Fits
<1>3. CASE size <= vec.end
  <2>1. Reserved(h, vec, size) = [heap |-> h, vec |-> vec]
    BY <1>1, <1>3 DEF Reserved
  <2> QED BY <2>1, <1>3, StayBecomes
<1>4. CASE size > vec.end
  <2> DEFINE r == Reserved(h, vec, size)
             cap == NewCapacity(vec_capacity(vec), size)
             taken == allocate_memory(h, cap)
             g == memcpy(taken.heap, taken.at, 1, list)
             f == free_memory(g, vec.start)
             moved == IF vec.start = NULL THEN taken.heap ELSE f
  <2>1. cap \in Nat \ {0} /\ cap >= size
    BY <1>1, GrownEnough
  <2>2. r = [heap |-> IF taken.heap.panicked THEN taken.heap ELSE moved,
             vec |-> [start |-> taken.at, finish |-> vec.finish, end |-> cap]]
    BY <1>1, <1>4 DEF Reserved, vec_resize
  <2> HIDE DEF cap, r, list
  <2>3. taken.heap.panicked \/ Gains(h, taken, cap)
    BY <2>1, AllocationGains
  <2> HIDE DEF taken
  <2>4. CASE taken.heap.panicked
    BY <2>2, <2>4 DEF r
  <2>5. CASE ~taken.heap.panicked
    <3>1. /\ Sound(taken.heap) /\ taken.at \in Blocks /\ taken.at \notin DOMAIN h.memory /\ taken.at # NULL
          /\ DOMAIN taken.heap.memory = DOMAIN h.memory \cup {taken.at}
          /\ \A b \in DOMAIN h.memory : taken.heap.memory[b] = h.memory[b]
          /\ Len(taken.heap.memory[taken.at]) \in Nat /\ Len(taken.heap.memory[taken.at]) >= cap
          /\ taken.heap.memory[taken.at] \in Seq(Values)
      <4>1. Gains(h, taken, cap)
        BY <2>3, <2>5
      <4>2. taken.at \in DOMAIN taken.heap.memory /\ Sound(taken.heap)
        BY <4>1 DEF Gains
      <4>3. taken.heap.memory[taken.at] \in Seq(Values)
        BY <4>2 DEF Sound, Fits, BlockFits
      <4> QED BY <4>1, <4>3, NullIsNoBlock DEF Gains
    <3>2. r.heap = moved /\ r.vec = [start |-> taken.at, finish |-> vec.finish, end |-> cap]
      BY <2>2, <2>5
    <3>3. r.vec \in Vectors /\ r.vec.start = taken.at /\ r.vec.finish = vec.finish /\ r.vec.end = cap
      BY <3>1, <3>2, <2>1, <1>1 DEF Vectors
    <3>4. CASE vec.start = NULL
      <4>1. r.heap = taken.heap /\ vec.finish = 0 /\ list = <<>>
        BY <3>2, <3>4 DEF VecFits, Empty, Cells, list
      <4>2. VecFits(r.heap, r.vec)
        BY <3>1, <3>3, <4>1, <2>1 DEF VecFits
      <4>3. Became(h, vec, r)
        BY <4>1, <4>2, <3>1, <3>3, <2>5, <1>1, <1>2, <3>4 DEF Became
      <4>4. Cells(r.heap, r.vec) = <<>>
        BY <4>1, <3>1, <3>3 DEF Cells
      <4> QED BY <4>1, <4>3, <4>4, <3>3, <2>1, <1>4, <1>1 DEF r, list
    <3>5. CASE vec.start # NULL
      <4>1. vec.start \in DOMAIN h.memory /\ vec.start # taken.at
        BY <3>5, <3>1 DEF VecFits
      <4>2. 1 + Len(list) <= Len(taken.heap.memory[taken.at]) + 1
        BY <3>1, <2>1, <1>1, <1>4 DEF list
      <4>3. /\ Sound(g) /\ g.panicked = taken.heap.panicked /\ DOMAIN g.memory = DOMAIN taken.heap.memory
            /\ \A c \in DOMAIN taken.heap.memory \ {taken.at} : g.memory[c] = taken.heap.memory[c]
            /\ g.memory[taken.at] = Put(taken.heap.memory[taken.at], 1, list)
        <5>1. list \in Seq(Values) /\ taken.at \in DOMAIN taken.heap.memory /\ 1 \in Nat \ {0}
          BY <1>1, <3>1 DEF list
        <5> QED BY <5>1, <3>1, <4>2, CopyFacts DEF Overwritten
      <4> HIDE DEF g
      <4>4. f.panicked \/ Loses(g, f, vec.start)
        BY <4>1, <4>3, <3>1, FreeLoses
      <4> HIDE DEF f
      <4>5. CASE f.panicked
        BY <4>5, <3>2, <3>5 DEF r
      <4>6. CASE ~f.panicked
        <5>1. /\ Sound(f) /\ DOMAIN f.memory = DOMAIN g.memory \ {vec.start}
              /\ \A c \in DOMAIN g.memory \ {vec.start} : f.memory[c] = g.memory[c]
          BY <4>4, <4>6 DEF Loses
        <5>2. r.heap = f
          BY <3>2, <3>5
        <5>3. f.memory[taken.at] = Put(taken.heap.memory[taken.at], 1, list)
          BY <5>1, <4>1, <4>3, <3>1
        <5>4. /\ Put(taken.heap.memory[taken.at], 1, list) \in Seq(Values)
              /\ Len(Put(taken.heap.memory[taken.at], 1, list)) = Len(taken.heap.memory[taken.at])
              /\ \A k \in 1..vec.finish : Put(taken.heap.memory[taken.at], 1, list)[k] = list[k]
          <6> DEFINE s == taken.heap.memory[taken.at]
                     t == Put(s, 1, list)
          <6>1. s \in Seq(Values) /\ list \in Seq(Values) /\ 1 \in Nat \ {0} /\ 1 + Len(list) <= Len(s) + 1
            BY <1>1, <3>1, <4>2 DEF list
          <6> HIDE DEF s
          <6>2. /\ t \in Seq(Values) /\ Len(t) = Len(s)
                /\ \A k \in 1..Len(s) : k >= 1 /\ k < 1 + Len(list) => t[k] = list[k - 1 + 1]
            BY <6>1, PutFacts
          <6>3. \A k \in 1..vec.finish : k \in 1..Len(s) /\ k < 1 + Len(list) /\ k - 1 + 1 = k
            BY <6>1, <1>1 DEF list
          <6> QED BY <6>2, <6>3 DEF s
        <5>5. \A k \in 1..vec.finish : f.memory[taken.at][k] = list[k] /\ list[k] \in Elements
          BY <5>3, <5>4, <1>1 DEF list
        <5>6. VecFits(f, r.vec)
          BY <5>1, <5>3, <5>4, <5>5, <4>1, <4>3, <3>1, <3>3, <2>1, <1>1, <1>4 DEF VecFits
        <5>7. DOMAIN f.memory = (DOMAIN h.memory \ {vec.start}) \cup {taken.at}
          BY <5>1, <4>1, <4>3, <3>1
        <5>8. \A c \in DOMAIN h.memory \ {vec.start} : f.memory[c] = h.memory[c]
          BY <5>1, <4>3, <3>1
        <5>9. Became(h, vec, r)
          BY <5>1, <5>2, <5>6, <5>7, <5>8, <3>1, <3>3, <4>6, <1>1 DEF Became
        <5>10. Cells(f, r.vec) = list
          <6> DEFINE c == Cells(f, r.vec)
          <6>1. c \in Seq(Elements) /\ Len(c) = vec.finish
                  /\ \A k \in 1..vec.finish : c[k] = f.memory[taken.at][k]
            BY <5>1, <5>6, <3>3, CellsFacts
          <6> HIDE DEF c
          <6>2. list \in Seq(Elements) /\ Len(list) = vec.finish
            BY <1>1 DEF list
          <6>3. \A k \in 1..Len(c) : c[k] = list[k]
            BY <6>1, <5>5
          <6>4. c = list
            BY <6>1, <6>2, <6>3, SeqEqual
          <6> QED BY <6>4 DEF c
        <5> QED BY <5>2, <5>9, <5>10, <3>3, <2>1, <1>1, <1>4 DEF r, list
      <4> QED BY <4>5, <4>6
    <3> QED BY <3>4, <3>5
  <2> QED BY <2>4, <2>5
<1> QED BY <1>1, <1>3, <1>4

-----------------------------------------------------------------------------
(* Writing into the room.                                                  *)

\* What a list is after new elements were written over or behind those of an old one.
Overwrites(list, old, new, at, finish) ==
  /\ list \in Seq(Elements) /\ Len(list) = finish
  /\ \A k \in 1..finish :
       /\ k < at => list[k] = old[k]
       /\ (k >= at /\ k < at + Len(new)) => list[k] = new[k - at + 1]
       /\ k >= at + Len(new) => list[k] = old[k]

\* r is what is left of a Vec, once new elements are written and its end is set.
Writes(room, new, at, finish, r) ==
  /\ new \in Seq(Elements) /\ at \in Nat \ {0} /\ finish \in Nat
  /\ room.vec.start # NULL /\ at <= room.vec.finish + 1 /\ finish <= room.vec.end
  /\ at + Len(new) <= finish + 1
  /\ finish <= room.vec.finish \/ finish + 1 = at + Len(new)
  /\ r.heap = memcpy(room.heap, room.vec.start, at, new) /\ r.vec \in Vectors
  /\ r.vec.start = room.vec.start /\ r.vec.finish = finish /\ r.vec.end = room.vec.end

\* Elements are written over or behind those a Vec has: it stands for the sequence with the
\* new elements in their place.
LEMMA WriteBecomes ==
  ASSUME NEW h, NEW object, NEW room, NEW new, NEW at, NEW finish, NEW r,
         Became(h, object, room), Writes(room, new, at, finish, r)
  PROVE  /\ Became(h, object, r)
         /\ Overwrites(Cells(r.heap, r.vec), Cells(room.heap, room.vec), new, at, finish)
<1>0. /\ new \in Seq(Elements) /\ at \in Nat \ {0} /\ finish \in Nat
      /\ room.vec.start # NULL /\ at <= room.vec.finish + 1 /\ finish <= room.vec.end
      /\ at + Len(new) <= finish + 1
      /\ finish <= room.vec.finish \/ finish + 1 = at + Len(new)
      /\ r.heap = memcpy(room.heap, room.vec.start, at, new) /\ r.vec \in Vectors
      /\ r.vec.start = room.vec.start /\ r.vec.finish = finish /\ r.vec.end = room.vec.end
  BY DEF Writes
<1> DEFINE a == room.vec.start
           s == room.heap.memory[a]
           g == memcpy(room.heap, a, at, new)
           t == Put(s, at, new)
           vec == r.vec
           old == Cells(room.heap, room.vec)
           list == Cells(g, vec)
           n == Len(new)
<1>1. /\ Sound(room.heap) /\ ~room.heap.panicked /\ VecFits(room.heap, room.vec)
      /\ room.vec \in Vectors
  BY DEF Became, VecFits
<1>2. /\ a \in DOMAIN room.heap.memory /\ room.vec.end <= Len(s) /\ room.vec.end >= 1
      /\ room.vec.finish \in Nat /\ room.vec.end \in Nat /\ s \in Seq(Values)
      /\ \A ix \in 1..room.vec.finish : s[ix] \in Elements
  BY <1>0, <1>1, CellsFacts DEF VecFits
<1>3. n \in Nat /\ new \in Seq(Values) /\ \A ix \in 1..n : new[ix] \in Elements
  <2>1. Elements \subseteq Values
    BY DEF Values
  <2> QED BY <2>1, <1>0
<1>4. \A ix \in 1..room.vec.finish : old[ix] = s[ix]
  BY <1>1, CellsFacts
<1>5. vec \in Vectors /\ vec.start = a /\ vec.finish = finish /\ vec.end = room.vec.end
  BY <1>0
<1> HIDE DEF old, n
<1>6. at + n <= Len(s) + 1 /\ Len(s) \in Nat
  <2> HIDE DEF s
  <2>1. Len(s) \in Nat
    BY <1>2
  <2>2. at + n <= finish + 1
    BY <1>0 DEF n
  <2> QED BY <2>1, <2>2, <1>0, <1>2, <1>3
<1> HIDE DEF s, a
<1>7. /\ Sound(g) /\ g.panicked = room.heap.panicked /\ DOMAIN g.memory = DOMAIN room.heap.memory
      /\ \A c \in DOMAIN room.heap.memory \ {a} : g.memory[c] = room.heap.memory[c]
      /\ g.memory[a] = t
  BY <1>0, <1>1, <1>2, <1>3, <1>6, CopyFacts DEF s, n, Overwritten
<1>8. /\ t \in Seq(Values) /\ Len(t) = Len(s)
      /\ \A k \in 1..Len(s) :
           /\ k < at => t[k] = s[k]
           /\ (k >= at /\ k < at + n) => t[k] = new[k - at + 1]
           /\ k >= at + n => t[k] = s[k]
  BY <1>0, <1>2, <1>3, <1>6, PutFacts DEF n
<1> HIDE DEF g, t, vec
<1>9. ASSUME NEW k \in 1..finish
      PROVE  /\ k < at => t[k] = old[k]
             /\ (k >= at /\ k < at + n) => t[k] = new[k - at + 1]
             /\ k >= at + n => t[k] = old[k]
             /\ t[k] \in Elements
  <2>1. k \in 1..Len(s)
    BY <1>0, <1>2, <1>6
  <2>2. CASE k < at
    <3>1. k \in 1..room.vec.finish /\ ~ (k >= at + n)
      BY <2>2, <1>0, <1>2, <1>3
    <3> QED BY <2>1, <2>2, <3>1, <1>2, <1>4, <1>8
  <2>3. CASE k >= at /\ k < at + n
    <3>1. k - at + 1 \in 1..n /\ ~ (k < at) /\ ~ (k >= at + n)
      BY <2>3, <1>0, <1>3
    <3> QED BY <2>1, <2>3, <3>1, <1>3, <1>8
  <2>4. CASE k >= at + n
    <3>1. k \in 1..room.vec.finish /\ ~ (k < at)
      BY <2>4, <1>0, <1>2, <1>3 DEF n
    <3> QED BY <2>1, <2>4, <3>1, <1>2, <1>3, <1>4, <1>8
  <2> QED BY <2>2, <2>3, <2>4, <1>0, <1>3
<1>10. VecFits(g, vec)
  <2>1. vec.start # NULL /\ vec.start \in DOMAIN g.memory
    BY <1>0, <1>2, <1>5, <1>7 DEF a
  <2>2. vec.finish <= vec.end /\ vec.end >= 1 /\ vec.end <= Len(g.memory[vec.start])
    BY <1>0, <1>2, <1>5, <1>7, <1>8
  <2>3. \A ix \in 1..vec.finish : g.memory[vec.start][ix] \in Elements
    BY <1>5, <1>7, <1>9
  <2> QED BY <2>1, <2>2, <2>3, <1>5 DEF VecFits
<1>11. Became(h, object, r)
  <2>1. r.heap = g /\ r.vec = vec
    BY <1>0 DEF g, vec, a
  <2> DEFINE kept == DOMAIN h.memory \ {StartOf(object)}
  <2>2. /\ DOMAIN room.heap.memory = kept \cup ({a} \ {NULL}) /\ a \notin kept
        /\ \A c \in kept : room.heap.memory[c] = h.memory[c]
    BY DEF Became, a
  <2>3. DOMAIN g.memory = kept \cup ({a} \ {NULL}) /\ \A c \in kept : g.memory[c] = h.memory[c]
    BY <2>2, <1>7
  <2> QED BY <2>1, <2>2, <2>3, <1>1, <1>5, <1>7, <1>10 DEF Became
<1>12. list \in Seq(Elements) /\ Len(list) = finish /\ \A k \in 1..finish : list[k] = t[k]
  BY <1>5, <1>7, <1>10, CellsFacts
<1> HIDE DEF list
<1>13. \A k \in 1..finish :
         /\ k < at => list[k] = old[k]
         /\ (k >= at /\ k < at + n) => list[k] = new[k - at + 1]
         /\ k >= at + n => list[k] = old[k]
  BY <1>9, <1>12
<1>14. r.heap = g
  BY <1>0 DEF g, a
<1> QED BY <1>11, <1>12, <1>13, <1>14 DEF Overwrites, list, vec, old, n

\* r is what is left of a Vec, once elements are added where room was made.
Fills(room, new, at, added, r) ==
  /\ new \in Seq(Elements) /\ at \in Nat \ {0} /\ added \in Nat \ {0}
  /\ room.vec.finish \in Nat /\ room.vec.end >= room.vec.finish + added
  /\ at <= room.vec.finish + 1 /\ at + Len(new) = room.vec.finish + added + 1
  /\ r = Filled(room, at, new, added)

\* The rest of a function that adds, once room is made.
LEMMA FilledBecomes ==
  ASSUME NEW h, NEW object, NEW room, NEW new, NEW at, NEW added, NEW r,
         Became(h, object, room), Fills(room, new, at, added, r)
  PROVE  /\ Became(h, object, r)
         /\ Overwrites(Cells(r.heap, r.vec), Cells(room.heap, room.vec), new, at,
                       room.vec.finish + added)
<1> DEFINE finish == room.vec.finish + added
<1>1. finish \in Nat \ {0} /\ ~room.heap.panicked /\ room.vec.end >= finish
        /\ at + Len(new) = finish + 1
  BY DEF Became, Fills
<1>2. room.vec \in Vectors /\ room.vec.start # NULL /\ room.vec.end \in Nat
  <2>1. VecFits(room.heap, room.vec)
    BY DEF Became
  <2>2. room.vec.start # NULL
    <3> SUFFICES ASSUME room.vec.start = NULL PROVE FALSE
      OBVIOUS
    <3>1. room.vec.end = 0
      BY <2>1 DEF VecFits, Empty
    <3> QED BY <3>1, <1>1
  <2> QED BY <2>1, <2>2 DEF VecFits, Vectors
<1>3. r.vec = [room.vec EXCEPT !.finish = finish]
  BY <1>2 DEF Fills, Filled, Vectors
<1>4. r.heap = memcpy(room.heap, room.vec.start, at, new)
  BY <1>1 DEF Fills, Filled
<1> HIDE DEF finish
<1>5. r.vec \in Vectors /\ r.vec.start = room.vec.start /\ r.vec.finish = finish /\ r.vec.end = room.vec.end
  BY <1>1, <1>2, <1>3 DEF Vectors
<1>6. new \in Seq(Elements) /\ at \in Nat \ {0} /\ at <= room.vec.finish + 1
  BY DEF Fills
<1>7. Writes(room, new, at, finish, r)
  <2>1. at + Len(new) <= finish + 1 /\ finish + 1 = at + Len(new) /\ finish <= room.vec.end
    BY <1>1, <1>2
  <2> QED BY <2>1, <1>1, <1>2, <1>4, <1>5, <1>6 DEF Writes
<1>8. /\ Became(h, object, r)
      /\ Overwrites(Cells(r.heap, r.vec), Cells(room.heap, room.vec), new, at, finish)
  BY <1>7, WriteBecomes
<1> QED BY <1>8 DEF finish

\* Without room it has panicked.
LEMMA FilledPanics ==
  ASSUME NEW room, room.heap.panicked, NEW at, NEW new, NEW added
  PROVE  Filled(room, at, new, added).heap.panicked
BY DEF Filled

-----------------------------------------------------------------------------
(* push and insert.                                                        *)

\* A function turned an object into a Vec that stands for the sequence, or it panicked.
Turned(h, object, r, list) ==
  r.heap.panicked \/ (Became(h, object, r) /\ Cells(r.heap, r.vec) = list)

\* Pushing an element turns a vector into the sequence with it at the end.
LEMMA PushTurns ==
  ASSUME NEW h, Sound(h), ~h.panicked, NEW vec, VecFits(h, vec), NEW e \in Elements
  PROVE  Turned(h, vec, vec_push(h, vec, e), Append(Cells(h, vec), e))
<1> DEFINE old == Cells(h, vec)
           room == Reserved(h, vec, vec.finish + 1)
           r == Filled(room, vec.finish + 1, <<e>>, 1)
           list == Cells(r.heap, r.vec)
<1>1. old \in Seq(Elements) /\ Len(old) = vec.finish /\ vec_len(vec) = vec.finish /\ vec.finish \in Nat
  BY CellsFacts
<1>2. vec_push(h, vec, e) = r
  BY <1>1 DEF vec_push
<1>3. \/ room.heap.panicked
      \/ /\ Became(h, vec, room) /\ Cells(room.heap, room.vec) = old
         /\ room.vec.finish = vec.finish /\ room.vec.end >= vec.finish + 1 /\ room.vec.end \in Nat
  <2>1. \/ room.heap.panicked
        \/ /\ Became(h, vec, room) /\ Cells(room.heap, room.vec) = old
           /\ room.vec.finish = vec.finish /\ room.vec.end >= vec.finish + 1
    BY <1>1, ReservedBecomes
  <2>2. Became(h, vec, room) => room.vec.end \in Nat
    BY DEF Became, VecFits, Vectors
  <2> QED BY <2>1, <2>2
<1> HIDE DEF room, old
<1> DEFINE new == <<e>>
<1>4. new \in Seq(Elements) /\ Len(new) = 1 /\ new[1] = e
  OBVIOUS
<1> HIDE DEF new, r
<1>5. CASE room.heap.panicked
  <2>1. r.heap.panicked
    BY <1>5, FilledPanics DEF r
  <2> QED BY <2>1, <1>2 DEF Turned
<1>6. CASE ~room.heap.panicked
  <2> DEFINE f == vec.finish + 1
  <2>1. Became(h, vec, room) /\ room.vec.finish + 1 = f /\ f \in Nat /\ vec.finish \in Nat
    BY <1>1, <1>3, <1>6
  <2>2. Fills(room, new, f, 1, r)
    <3>1. f \in Nat \ {0} /\ 1 \in Nat \ {0} /\ room.vec.finish \in Nat /\ room.vec.end >= room.vec.finish + 1
            /\ f <= room.vec.finish + 1 /\ f + Len(new) = room.vec.finish + 1 + 1
      BY <1>1, <1>3, <1>4, <1>6
    <3>2. r = Filled(room, f, new, 1)
      BY DEF r, new
    <3> QED BY <3>1, <3>2, <1>4 DEF Fills
  <2>3. f \in 1..f /\ f - f + 1 = 1 /\ \A k \in 1..vec.finish : k \in 1..f /\ k < f
    BY <2>1
  <2> HIDE DEF f, list
  <2>4. /\ Became(h, vec, r)
        /\ list \in Seq(Elements) /\ Len(list) = f
        /\ \A k \in 1..f :
             /\ k < f => list[k] = Cells(room.heap, room.vec)[k]
             /\ k >= f => list[k] = new[k - f + 1]
    <3>1. Became(h, vec, r) /\ Overwrites(list, Cells(room.heap, room.vec), new, f, f)
      BY <2>1, <2>2, FilledBecomes DEF list
    <3>2. \A k \in 1..f : k < f + Len(new)
      BY <2>1, <1>4
    <3> QED BY <3>1, <3>2 DEF Overwrites
  <2>5. (\A k \in 1..vec.finish : list[k] = old[k]) /\ list[f] = e
    <3>1. \A k \in 1..vec.finish : list[k] = old[k]
      BY <2>3, <2>4, <1>3, <1>6
    <3>2. f >= f
      BY <2>1
    <3>3. list[f] = new[1]
      BY <3>2, <2>3, <2>4
    <3> QED BY <3>1, <3>3, <1>4
  <2>6. list = Append(old, e)
    <3> DEFINE a == Append(old, e)
    <3>1. a \in Seq(Elements) /\ Len(a) = f /\ (\A k \in 1..vec.finish : a[k] = old[k]) /\ a[f] = e
      BY <1>1 DEF f
    <3> HIDE DEF a
    <3>2. \A k \in 1..f : list[k] = a[k]
      <4> SUFFICES ASSUME NEW k \in 1..f PROVE list[k] = a[k]
        OBVIOUS
      <4>1. k \in 1..vec.finish \/ k = f
        BY <1>1 DEF f
      <4> QED BY <4>1, <2>5, <3>1
    <3>3. list = a
      BY <2>4, <3>1, <3>2, SeqEqual
    <3> QED BY <3>3 DEF a
  <2> QED BY <2>4, <2>6, <1>2 DEF Turned, list, old
<1> QED BY <1>5, <1>6

\* The element is moved up with those behind it, from the last to the first.
LEMMA InsertTurns ==
  ASSUME NEW h, Sound(h), ~h.panicked, NEW vec, VecFits(h, vec), NEW e \in Elements,
         NEW ix \in 0..vec.finish
  PROVE  Turned(h, vec, vec_insert(h, vec, ix, e), InsertAt(Cells(h, vec), ix + 1, e))
<1> DEFINE old == Cells(h, vec)
           n == vec.finish
           new == <<e>> \o SubSeq(old, ix + 1, n)
           room == Reserved(h, vec, n + 1)
           r == Filled(room, ix + 1, new, 1)
           list == Cells(r.heap, r.vec)
<1>1. old \in Seq(Elements) /\ Len(old) = n /\ vec_len(vec) = n /\ n \in Nat /\ ix \in Nat /\ ix <= n
  BY CellsFacts
<1>2. vec_insert(h, vec, ix, e) = r
  BY <1>1 DEF vec_insert
<1>3. \/ room.heap.panicked
      \/ /\ Became(h, vec, room) /\ Cells(room.heap, room.vec) = old
         /\ room.vec.finish = n /\ room.vec.end >= n + 1 /\ room.vec.end \in Nat
  <2>1. \/ room.heap.panicked
        \/ /\ Became(h, vec, room) /\ Cells(room.heap, room.vec) = old
           /\ room.vec.finish = n /\ room.vec.end >= n + 1
    BY <1>1, ReservedBecomes
  <2>2. Became(h, vec, room) => room.vec.end \in Nat
    BY DEF Became, VecFits, Vectors
  <2> QED BY <2>1, <2>2
<1> HIDE DEF room, old, n
<1>4. /\ new \in Seq(Elements) /\ Len(new) = n - ix + 1 /\ new[1] = e
      /\ \A k \in 1..(n - ix) : new[1 + k] = old[ix + k]
  <2> DEFINE a == <<e>>
             b == SubSeq(old, ix + 1, n)
  <2>1. a \in Seq(Elements) /\ Len(a) = 1 /\ a[1] = e
    OBVIOUS
  <2>2. b \in Seq(Elements) /\ Len(b) = n - ix /\ \A k \in 1..(n - ix) : b[k] = old[ix + k]
    <3>1. b \in Seq(Elements) /\ Len(b) = n - ix
      BY <1>1
    <3>2. \A k \in 1..(n - ix) : b[k] = old[ix + 1 + k - 1] /\ ix + 1 + k - 1 = ix + k
      BY <1>1
    <3> QED BY <3>1, <3>2
  <2> HIDE DEF a, b
  <2>3. /\ a \o b \in Seq(Elements) /\ Len(a \o b) = Len(a) + Len(b)
        /\ \A q \in 1..Len(a) : (a \o b)[q] = a[q]
        /\ \A q \in 1..Len(b) : (a \o b)[Len(a) + q] = b[q]
    <3>1. a \in Seq(Elements) /\ b \in Seq(Elements)
      BY <2>1, <2>2
    <3> QED BY <3>1, ConcatFacts
  <2>4. new = a \o b
    BY DEF a, b
  <2> HIDE DEF new
  <2> QED BY <2>1, <2>2, <2>3, <2>4, <1>1
<1> HIDE DEF new
<1> HIDE DEF r
<1>5. CASE room.heap.panicked
  <2>1. r.heap.panicked
    BY <1>5, FilledPanics DEF r
  <2> QED BY <2>1, <1>2 DEF Turned
<1>6. CASE ~room.heap.panicked
  <2> DEFINE f == n + 1
             at == ix + 1
  <2>21. Became(h, vec, room) /\ room.vec.finish + 1 = f /\ f \in Nat
    BY <1>1, <1>3, <1>6
  <2>22. Fills(room, new, at, 1, r)
    <3>1. at \in Nat \ {0} /\ 1 \in Nat \ {0} /\ room.vec.finish \in Nat /\ room.vec.end >= room.vec.finish + 1
            /\ at <= room.vec.finish + 1 /\ at + Len(new) = room.vec.finish + 1 + 1
      BY <1>1, <1>3, <1>4, <1>6
    <3>2. r = Filled(room, at, new, 1)
      BY DEF r
    <3> HIDE DEF at
    <3> QED BY <3>1, <3>2, <1>4 DEF Fills
  <2>23. /\ Became(h, vec, r)
         /\ list \in Seq(Elements) /\ Len(list) = f
         /\ \A k \in 1..f :
              /\ k < at => list[k] = Cells(room.heap, room.vec)[k]
              /\ k >= at => list[k] = new[k - at + 1]
    <3>2. \A k \in 1..f : k < at + Len(new)
      BY <1>1, <1>4
    <3> HIDE DEF at, f
    <3>1. Became(h, vec, r) /\ Overwrites(list, Cells(room.heap, room.vec), new, at, f)
      BY <2>21, <2>22, FilledBecomes DEF list
    <3> QED BY <3>1, <3>2 DEF Overwrites
  <2> HIDE DEF f, at
  <2>24. \A k \in 1..(n + 1) :
             /\ k < ix + 1 => list[k] = old[k]
             /\ k >= ix + 1 => list[k] = new[k - (ix + 1) + 1]
    BY <2>23, <1>3, <1>6 DEF f, at
  <2> DEFINE t == InsertAt(old, ix + 1, e)
  <2>1. /\ t \in Seq(Elements) /\ Len(t) = n + 1 /\ t[ix + 1] = e
        /\ \A k \in 1..((ix + 1) - 1) : t[k] = old[k]
        /\ \A k \in (ix + 1)..n : t[k + 1] = old[k]
    <3>1. ix + 1 \in 1..(Len(old) + 1)
      BY <1>1
    <3>2. old \in Seq(Elements)
      BY <1>1
    <3> DEFINE x == ix + 1
    <3>3. x \in 1..(Len(old) + 1) /\ Len(old) = n
      BY <3>1, <1>1
    <3> HIDE DEF x
    <3>4. /\ InsertAt(old, x, e) \in Seq(Elements) /\ Len(InsertAt(old, x, e)) = Len(old) + 1
          /\ InsertAt(old, x, e)[x] = e
          /\ \A k \in 1..(x - 1) : InsertAt(old, x, e)[k] = old[k]
          /\ \A k \in x..Len(old) : InsertAt(old, x, e)[k + 1] = old[k]
      <4>1. old \in Seq(Elements) /\ x \in 1..(Len(old) + 1) /\ e \in Elements
        BY <3>2, <3>3
      <4> QED BY <4>1, InsertFacts
    <3> QED BY <3>3, <3>4 DEF x
  <2> HIDE DEF t, list
  <2>2. ASSUME NEW k \in 1..(n + 1) PROVE list[k] = t[k]
    <3>1. CASE k < ix + 1
      <4>1. k \in 1..((ix + 1) - 1)
        BY <3>1, <1>1
      <4> QED BY <4>1, <3>1, <2>1, <2>24
    <3>2. CASE k = ix + 1
      <4>1. k - (ix + 1) + 1 = 1 /\ k >= ix + 1
        BY <3>2, <1>1
      <4>2. list[k] = new[1]
        BY <4>1, <2>24
      <4> QED BY <4>2, <3>2, <2>1, <1>4
    <3>3. CASE k > ix + 1
      <4> DEFINE j == k - (ix + 1)
      <4>1. /\ j \in 1..(n - ix) /\ k - (ix + 1) + 1 = 1 + j /\ k >= ix + 1
            /\ ix + j \in (ix + 1)..n /\ ix + j + 1 = k
        BY <3>3, <1>1
      <4> HIDE DEF j
      <4>2. list[k] = new[1 + j]
        BY <4>1, <2>24
      <4>3. t[ix + j + 1] = old[ix + j]
        BY <4>1, <2>1
      <4> QED BY <4>1, <4>2, <4>3, <1>4
    <3> QED BY <3>1, <3>2, <3>3, <1>1
  <2>3. list = t
    <3>1. list \in Seq(Elements) /\ Len(list) = n + 1
      BY <2>23 DEF f
    <3> QED BY <3>1, <2>1, <2>2, SeqEqual
  <2> QED BY <2>3, <1>2, <2>23 DEF Turned, list, t, old
<1> QED BY <1>5, <1>6

-----------------------------------------------------------------------------
(* remove, set and reverse.                                                *)

\* A Vec whose end moves down keeps the first of its elements.
LEMMA ShorterTurns ==
  ASSUME NEW h, Sound(h), ~h.panicked, NEW vec, VecFits(h, vec), NEW n \in 0..vec.finish
  PROVE  LET r == [heap |-> h, vec |-> [vec EXCEPT !.finish = n]]
         IN  Turned(h, vec, r, SubSeq(Cells(h, vec), 1, n)) /\ r.vec \in Vectors
<1> DEFINE old == Cells(h, vec)
           v == [vec EXCEPT !.finish = n]
           r == [heap |-> h, vec |-> v]
           list == Cells(h, v)
<1>1. /\ old \in Seq(Elements) /\ Len(old) = vec.finish /\ vec.finish \in Nat /\ n \in Nat /\ n <= vec.finish
      /\ vec.end \in Nat /\ StartOf(vec) = vec.start
      /\ \A ix \in 1..vec.finish : old[ix] = h.memory[vec.start][ix]
  BY CellsFacts
<1>2. v \in Vectors /\ v.start = vec.start /\ v.finish = n /\ v.end = vec.end
  <2>1. vec \in Vectors
    BY DEF VecFits
  <2> QED BY <2>1, <1>1 DEF Vectors
<1>3. vec.start = NULL => v = Empty
  <2> SUFFICES ASSUME vec.start = NULL PROVE v = Empty
    OBVIOUS
  <2>1. vec = Empty /\ vec.finish = 0
    BY DEF VecFits, Empty
  <2>2. n = 0
    BY <1>1, <2>1
  <2> QED BY <2>1, <2>2 DEF Empty
<1> HIDE DEF v
<1>4. VecFits(h, v)
  BY <1>1, <1>2, <1>3 DEF VecFits
<1>5. Became(h, vec, [heap |-> h, vec |-> v])
  <2>1. Became(h, v, [heap |-> h, vec |-> v])
    BY <1>4, StayBecomes
  <2>2. StartOf(v) = vec.start
    BY <1>2, <1>4, CellsFacts
  <2> QED BY <2>1, <2>2, <1>1 DEF Became
<1>6. /\ list \in Seq(Elements) /\ Len(list) = n
      /\ \A ix \in 1..n : list[ix] = h.memory[vec.start][ix]
  BY <1>2, <1>4, CellsFacts
<1> HIDE DEF list, old
<1>7. list = SubSeq(old, 1, n)
  <2> DEFINE t == SubSeq(old, 1, n)
  <2>1. t \in Seq(Elements) /\ Len(t) = n /\ \A ix \in 1..n : t[ix] = old[ix]
    BY <1>1
  <2> HIDE DEF t
  <2>2. \A ix \in 1..n : list[ix] = t[ix]
    BY <2>1, <1>1, <1>6
  <2>3. list = t
    BY <2>1, <2>2, <1>6, SeqEqual
  <2> QED BY <2>3 DEF t
<1> QED BY <1>2, <1>5, <1>7 DEF Turned, list, old, v

\* The elements behind the removed one are moved down.
LEMMA RemoveTurns ==
  ASSUME NEW h, Sound(h), ~h.panicked, NEW vec, VecFits(h, vec), NEW ix \in 0..(vec.finish - 1)
  PROVE  Turned(h, vec, vec_remove(h, vec, ix), RemoveAt(Cells(h, vec), ix + 1))
<1> DEFINE old == Cells(h, vec)
           n == vec.finish
           new == SubSeq(old, ix + 2, n)
           r == vec_remove(h, vec, ix)
           list == Cells(r.heap, r.vec)
           room == [heap |-> h, vec |-> vec]
           at == ix + 1
           f == n - 1
<1>1. /\ old \in Seq(Elements) /\ Len(old) = n /\ vec_len(vec) = n /\ n \in Nat /\ ix \in Nat /\ ix <= n - 1
      /\ vec.end \in Nat /\ n <= vec.end
  BY CellsFacts
<1>2. vec \in Vectors /\ vec.start # NULL
  <2>1. vec.start # NULL
    BY <1>1 DEF VecFits, Empty
  <2> QED BY <2>1 DEF VecFits
<1> HIDE DEF old
<1>3. /\ new \in Seq(Elements) /\ Len(new) = n - 1 - ix
      /\ \A k \in 1..(n - 1 - ix) : new[k] = old[ix + 1 + k]
  <2>1. new \in Seq(Elements) /\ Len(new) = n - 1 - ix
    BY <1>1
  <2>2. \A k \in 1..(n - 1 - ix) : new[k] = old[ix + 2 + k - 1] /\ ix + 2 + k - 1 = ix + 1 + k
    BY <1>1
  <2> QED BY <2>1, <2>2
<1>4. /\ r.heap = memcpy(h, vec.start, at, new) /\ r.vec \in Vectors
      /\ r.vec.start = vec.start /\ r.vec.finish = f /\ r.vec.end = vec.end
  <2>1. r.heap = memcpy(h, vec.start, at, new)
    BY <1>1 DEF vec_remove, old
  <2>2. r.vec = [vec EXCEPT !.finish = n - 1]
    BY DEF vec_remove
  <2>3. n - 1 \in Nat
    BY <1>1
  <2> HIDE DEF r
  <2> QED BY <2>1, <2>2, <2>3, <1>2 DEF Vectors
<1> HIDE DEF r, new
<1>5. Became(h, vec, r) /\ Overwrites(list, old, new, at, f)
  <2>1. Writes(room, new, at, f, r)
    <3>1. /\ at \in Nat \ {0} /\ f \in Nat /\ at <= n + 1 /\ f <= vec.end /\ at + Len(new) <= f + 1
          /\ f <= n
      BY <1>1, <1>3
    <3> HIDE DEF at, f
    <3> QED BY <3>1, <1>2, <1>3, <1>4 DEF Writes
  <2>2. Became(h, vec, room) /\ room.heap = h /\ room.vec = vec
    BY StayBecomes
  <2> HIDE DEF room, at, f
  <2>3. Became(h, vec, r) /\ Overwrites(list, Cells(room.heap, room.vec), new, at, f)
    BY <2>1, <2>2, WriteBecomes
  <2> QED BY <2>2, <2>3 DEF old
<1> HIDE DEF list
<1>6. list = RemoveAt(old, ix + 1)
  <2> DEFINE t == RemoveAt(old, at)
  <2>1. /\ t \in Seq(Elements) /\ Len(t) = Len(old) - 1
        /\ \A k \in 1..(at - 1) : t[k] = old[k]
        /\ \A k \in at..(Len(old) - 1) : t[k] = old[k + 1]
    <3>1. old \in Seq(Elements) /\ at \in 1..Len(old)
      BY <1>1
    <3> HIDE DEF at
    <3> QED BY <3>1, RemoveFacts
  <2> HIDE DEF t
  <2>2. /\ list \in Seq(Elements) /\ Len(list) = n - 1
        /\ \A k \in 1..(n - 1) :
             /\ k < ix + 1 => list[k] = old[k]
             /\ (k >= ix + 1 /\ k < ix + 1 + Len(new)) => list[k] = new[k - (ix + 1) + 1]
    BY <1>5 DEF Overwrites
  <2>3. ASSUME NEW k \in 1..(n - 1) PROVE list[k] = t[k]
    <3>1. CASE k < ix + 1
      <4>1. k \in 1..(at - 1)
        BY <3>1, <1>1
      <4> QED BY <4>1, <3>1, <2>1, <2>2
    <3>2. CASE k >= ix + 1
      <4> DEFINE j == k - (ix + 1) + 1
      <4>1. /\ j \in 1..(n - 1 - ix) /\ ix + 1 + j = k + 1 /\ k < ix + 1 + Len(new)
            /\ k \in at..(Len(old) - 1)
        BY <3>2, <1>1, <1>3
      <4>2. list[k] = new[j]
        BY <3>2, <4>1, <2>2
      <4> HIDE DEF j
      <4>3. new[j] = old[ix + 1 + j]
        BY <4>1, <1>3
      <4>4. t[k] = old[k + 1]
        BY <4>1, <2>1
      <4> QED BY <4>1, <4>2, <4>3, <4>4
    <3> QED BY <3>1, <3>2, <1>1
  <2>4. list = t
    <3>1. Len(t) = Len(list)
      BY <2>1, <2>2, <1>1
    <3> QED BY <3>1, <2>1, <2>2, <2>3, SeqEqual
  <2> QED BY <2>4 DEF t
<1> QED BY <1>5, <1>6 DEF Turned, list, r, old

\* One element is replaced.
LEMMA SetTurns ==
  ASSUME NEW h, Sound(h), ~h.panicked, NEW vec, VecFits(h, vec), NEW ix \in 0..(vec.finish - 1),
         NEW e \in Elements
  PROVE  Turned(h, vec, [heap |-> memcpy(h, vec.start, ix + 1, <<e>>), vec |-> vec],
                [Cells(h, vec) EXCEPT ![ix + 1] = e])
<1> DEFINE old == Cells(h, vec)
           n == vec.finish
           new == <<e>>
           at == ix + 1
           r == [heap |-> memcpy(h, vec.start, at, new), vec |-> vec]
           list == Cells(r.heap, r.vec)
           room == [heap |-> h, vec |-> vec]
<1>1. /\ old \in Seq(Elements) /\ Len(old) = n /\ n \in Nat /\ ix \in Nat /\ ix <= n - 1
      /\ vec.end \in Nat /\ n <= vec.end
  BY CellsFacts
<1>2. vec \in Vectors /\ vec.start # NULL
  <2>1. vec.start # NULL
    BY <1>1 DEF VecFits, Empty
  <2> QED BY <2>1 DEF VecFits
<1>3. new \in Seq(Elements) /\ Len(new) = 1 /\ new[1] = e
  OBVIOUS
<1> HIDE DEF old, new
<1>4. r.heap = memcpy(h, vec.start, at, new) /\ r.vec = vec
  OBVIOUS
<1> HIDE DEF r
<1>5. Became(h, vec, r) /\ Overwrites(list, old, new, at, n)
  <2>1. Writes(room, new, at, n, r)
    <3>1. /\ at \in Nat \ {0} /\ n \in Nat /\ at <= n + 1 /\ n <= vec.end /\ at + Len(new) <= n + 1
          /\ n <= n
      BY <1>1, <1>3
    <3> HIDE DEF at
    <3> QED BY <3>1, <1>2, <1>3, <1>4 DEF Writes
  <2>2. Became(h, vec, room) /\ room.heap = h /\ room.vec = vec
    BY StayBecomes
  <2> HIDE DEF room, at
  <2>3. Became(h, vec, r) /\ Overwrites(list, Cells(room.heap, room.vec), new, at, n)
    BY <2>1, <2>2, WriteBecomes
  <2> QED BY <2>2, <2>3 DEF old
<1> HIDE DEF list
<1>6. list = [old EXCEPT ![at] = e]
  <2> DEFINE t == [old EXCEPT ![at] = e]
  <2>1. /\ t \in Seq(Elements) /\ Len(t) = n /\ t[at] = e /\ at \in 1..n
        /\ \A k \in 1..n : k # at => t[k] = old[k]
    BY <1>1
  <2> HIDE DEF t
  <2>2. /\ list \in Seq(Elements) /\ Len(list) = n
        /\ \A k \in 1..n :
             /\ k < at => list[k] = old[k]
             /\ (k >= at /\ k < at + Len(new)) => list[k] = new[k - at + 1]
             /\ k >= at + Len(new) => list[k] = old[k]
    BY <1>5 DEF Overwrites
  <2>3. ASSUME NEW k \in 1..n PROVE list[k] = t[k]
    <3>1. CASE k = at
      <4>1. k - at + 1 = 1 /\ k >= at /\ k < at + Len(new)
        BY <3>1, <1>1, <1>3
      <4>2. list[k] = new[1]
        BY <4>1, <2>2
      <4> QED BY <4>2, <3>1, <1>3, <2>1
    <3>2. CASE k # at
      <4>1. k < at \/ k >= at + Len(new)
        BY <3>2, <1>1, <1>3
      <4> QED BY <4>1, <3>2, <2>1, <2>2
    <3> QED BY <3>1, <3>2
  <2>4. list = t
    BY <2>1, <2>2, <2>3, SeqEqual
  <2> QED BY <2>4 DEF t
<1> QED BY <1>5, <1>6 DEF Turned, list, r, old, new

\* The elements are written over in the opposite order.
LEMMA ReverseTurns ==
  ASSUME NEW h, Sound(h), ~h.panicked, NEW vec, VecFits(h, vec)
  PROVE  Turned(h, vec, [heap |-> vec_reverse(h, vec), vec |-> vec], Reverse(Cells(h, vec)))
<1> DEFINE old == Cells(h, vec)
           n == vec.finish
           new == Reverse(old)
           r == [heap |-> vec_reverse(h, vec), vec |-> vec]
           list == Cells(r.heap, r.vec)
           room == [heap |-> h, vec |-> vec]
<1>1. /\ old \in Seq(Elements) /\ Len(old) = n /\ n \in Nat
      /\ vec.end \in Nat /\ n <= vec.end /\ vec \in Vectors
  BY CellsFacts DEF VecFits
<1>2. new \in Seq(Elements) /\ Len(new) = n
  <2>1. \A k \in 1..n : (n - k) + 1 \in 1..n
    BY <1>1
  <2>2. \A k \in 1..n : old[(n - k) + 1] \in Elements
    BY <2>1, <1>1
  <2>3. new = [k \in 1..n |-> old[(n - k) + 1]]
    BY <1>1 DEF Reverse
  <2> HIDE DEF new, old
  <2>4. new \in [1..n -> Elements]
    BY <2>2, <2>3
  <2>5. new \in Seq(Elements)
    BY <2>4, <1>1
  <2>6. Len(new) = n
    BY <2>4, <2>5, <1>1
  <2> QED BY <2>5, <2>6
<1>3. CASE vec.start = NULL
  <2>1. r = [heap |-> h, vec |-> vec] /\ old = <<>>
    BY <1>3 DEF vec_reverse, Cells
  <2>2. new = <<>>
    <3>1. n = 0
      BY <1>3 DEF VecFits, Empty
    <3> QED BY <3>1, <1>2
  <2>3. Turned(h, vec, [heap |-> h, vec |-> vec], old)
    BY StayBecomes DEF Turned
  <2> QED BY <2>1, <2>2, <2>3
<1>4. CASE vec.start # NULL
  <2> HIDE DEF old
  <2>1. r.heap = memcpy(h, vec.start, 1, new) /\ r.vec = vec
    BY <1>4 DEF vec_reverse, old
  <2> HIDE DEF r, new
  <2>2. Became(h, vec, r) /\ Overwrites(list, old, new, 1, n)
    <3>1. Writes(room, new, 1, n, r)
      <4>1. /\ 1 \in Nat \ {0} /\ n \in Nat /\ 1 <= n + 1 /\ n <= vec.end /\ 1 + Len(new) <= n + 1
            /\ n <= n
        BY <1>1, <1>2
      <4> QED BY <4>1, <1>1, <1>2, <1>4, <2>1 DEF Writes
    <3>2. Became(h, vec, room) /\ room.heap = h /\ room.vec = vec
      BY StayBecomes
    <3> HIDE DEF room
    <3>3. Became(h, vec, r) /\ Overwrites(list, Cells(room.heap, room.vec), new, 1, n)
      BY <3>1, <3>2, WriteBecomes
    <3> QED BY <3>2, <3>3 DEF old
  <2> HIDE DEF list
  <2>3. list = new
    <3>1. list \in Seq(Elements) /\ Len(list) = n
            /\ \A k \in 1..n : (k >= 1 /\ k < 1 + Len(new)) => list[k] = new[k - 1 + 1]
      BY <2>2 DEF Overwrites
    <3>2. \A k \in 1..n : list[k] = new[k]
      <4>1. \A k \in 1..n : k >= 1 /\ k < 1 + Len(new) /\ k - 1 + 1 = k
        BY <1>1, <1>2
      <4> QED BY <3>1, <4>1
    <3> QED BY <3>1, <3>2, <1>2, SeqEqual
  <2> QED BY <2>2, <2>3 DEF Turned, list, r, old, new
<1> QED BY <1>3, <1>4

-----------------------------------------------------------------------------
(* extend.                                                                 *)

\* One function after another.
LEMMA ThenBecomes ==
  ASSUME NEW h, NEW object, NEW r, Became(h, object, r), NEW q, Became(r.heap, r.vec, q)
  PROVE  Became(h, object, q)
<1> DEFINE kept == DOMAIN h.memory \ {StartOf(object)}
<1>1. /\ Sound(r.heap) /\ VecFits(r.heap, r.vec)
      /\ DOMAIN r.heap.memory = kept \cup ({r.vec.start} \ {NULL}) /\ r.vec.start \notin kept
      /\ \A c \in kept : r.heap.memory[c] = h.memory[c]
  BY DEF Became
<1>2. StartOf(r.vec) = r.vec.start
  BY <1>1, CellsFacts
<1> HIDE DEF kept
<1>3. DOMAIN r.heap.memory \ {r.vec.start} = kept
  BY <1>1
<1>4. /\ Sound(q.heap) /\ ~q.heap.panicked /\ VecFits(q.heap, q.vec)
      /\ DOMAIN q.heap.memory = kept \cup ({q.vec.start} \ {NULL}) /\ q.vec.start \notin kept
      /\ \A c \in kept : q.heap.memory[c] = r.heap.memory[c]
  BY <1>2, <1>3 DEF Became
<1> QED BY <1>1, <1>4 DEF Became, kept

\* A Vec that a function leaves alone.
LEMMA OtherKept ==
  ASSUME NEW h, Sound(h), NEW object, NEW r, Became(h, object, r), NEW other, VecFits(h, other),
         other.start = NULL \/ other.start # StartOf(object)
  PROVE  /\ VecFits(r.heap, other) /\ Cells(r.heap, other) = Cells(h, other)
         /\ other.start # NULL => r.heap.memory[other.start] = h.memory[other.start]
<1>1. CASE other.start = NULL
  <2>1. VecFits(r.heap, other)
    BY <1>1 DEF VecFits
  <2>2. Cells(r.heap, other) = Cells(h, other)
    BY <1>1 DEF Cells
  <2> QED BY <2>1, <2>2, <1>1
<1>2. CASE other.start # NULL
  <2>1. other.start \in DOMAIN h.memory \ {StartOf(object)}
    BY <1>2 DEF VecFits
  <2>2. other.start \in DOMAIN r.heap.memory /\ r.heap.memory[other.start] = h.memory[other.start]
    BY <2>1 DEF Became
  <2>3. VecFits(r.heap, other)
    BY <1>2, <2>2 DEF VecFits
  <2>4. Cells(r.heap, other) = Cells(h, other)
    BY <2>2 DEF Cells
  <2> QED BY <2>2, <2>3, <2>4
<1> QED BY <1>1, <1>2

\* The elements of another Vec, or of the Vec itself, are put behind those it has.
LEMMA ExtendTurns ==
  ASSUME NEW h, Sound(h), ~h.panicked, NEW vec, VecFits(h, vec), NEW other, VecFits(h, other),
         NEW same \in BOOLEAN, same => other = vec,
         ~same => other.start = NULL \/ other.start # vec.start
  PROVE  LET r == vec_extend(h, vec, other, same)
         IN  /\ Turned(h, vec, r, Cells(h, vec) \o Cells(h, other))
             /\ vec.end >= vec.finish + other.finish => ~r.heap.panicked
<1> DEFINE old == Cells(h, vec)
           n == vec.finish
           more == Cells(h, other)
           m == other.finish
           room == Reserved(h, vec, n + m)
           source == IF same THEN room.vec ELSE other
           new == SubSeq(room.heap.memory[source.start], 1, m)
           at == n + 1
           r == Filled(room, at, new, m)
           list == Cells(r.heap, r.vec)
<1>1. /\ old \in Seq(Elements) /\ Len(old) = n /\ vec_len(vec) = n /\ n \in Nat /\ StartOf(vec) = vec.start
      /\ more \in Seq(Elements) /\ Len(more) = m /\ vec_len(other) = m /\ m \in Nat
  BY CellsFacts
<1>2. CASE m = 0
  <2>1. vec_extend(h, vec, other, same) = [heap |-> h, vec |-> vec]
    BY <1>2 DEF vec_extend, vec_is_empty
  <2>2. Turned(h, vec, [heap |-> h, vec |-> vec], old) /\ ~h.panicked
    BY StayBecomes DEF Turned
  <2>3. old \o more = old
    <3> HIDE DEF old, more
    <3>1. more = <<>>
      BY <1>1, <1>2
    <3>2. old \o <<>> = old
      BY <1>1
    <3> QED BY <3>1, <3>2
  <2> QED BY <2>1, <2>2, <2>3
<1>3. CASE m # 0
  <2>1. vec_extend(h, vec, other, same) = r
    BY <1>1, <1>3 DEF vec_extend, vec_is_empty
  <2>2. \/ room.heap.panicked
        \/ /\ Became(h, vec, room) /\ Cells(room.heap, room.vec) = old
           /\ room.vec.finish = n /\ room.vec.end >= n + m /\ room.vec.end \in Nat
    <3>1. \/ room.heap.panicked
          \/ /\ Became(h, vec, room) /\ Cells(room.heap, room.vec) = old
             /\ room.vec.finish = n /\ room.vec.end >= n + m
      BY <1>1, ReservedBecomes
    <3>2. Became(h, vec, room) => room.vec.end \in Nat
      BY DEF Became, VecFits, Vectors
    <3> QED BY <3>1, <3>2
  <2> HIDE DEF room, r, new
  <2>3. CASE room.heap.panicked
    <3>1. r.heap.panicked
      BY <2>3, FilledPanics DEF r
    <3>2. ~ (vec.end >= n + m)
      <4> SUFFICES ASSUME vec.end >= n + m PROVE FALSE
        OBVIOUS
      <4>1. vec_capacity(vec) = vec.end /\ vec.end \in Nat
        BY CellsFacts
      <4>2. room.heap = h
        BY <4>1, <1>1 DEF room, Reserved
      <4> QED BY <4>2, <2>3
    <3> QED BY <3>1, <3>2, <2>1 DEF Turned
  <2>4. CASE ~room.heap.panicked
    <3> HIDE DEF old, more
    <3>1. Sound(room.heap) /\ VecFits(room.heap, room.vec)
      BY <2>2, <2>4 DEF Became
    <3>2. VecFits(room.heap, source) /\ source.finish = m /\ Cells(room.heap, source) = more
      <4>1. CASE same
        <5>1. other = vec /\ source = room.vec /\ m = n /\ more = old
          BY <4>1 DEF old, more
        <5> QED BY <5>1, <3>1, <2>2, <2>4
      <4>2. CASE ~same
        <5>1. source = other
          BY <4>2
        <5>2. other.start = NULL \/ other.start # StartOf(vec)
          BY <4>2, <1>1
        <5>3. VecFits(room.heap, other) /\ Cells(room.heap, other) = Cells(h, other)
          BY <5>2, <2>2, <2>4, OtherKept
        <5> QED BY <5>1, <5>3 DEF more
      <4> QED BY <4>1, <4>2
    <3> HIDE DEF source
    <3>3. source.start # NULL
      <4> SUFFICES ASSUME source.start = NULL PROVE FALSE
        OBVIOUS
      <4>1. source.finish = 0
        BY <3>2 DEF VecFits, Empty
      <4> QED BY <4>1, <3>2, <1>3
    <3>4. new = more
      BY <3>2, <3>3 DEF Cells, new
    <3>5. Fills(room, more, at, m, r)
      <4>1. /\ at \in Nat \ {0} /\ m \in Nat \ {0} /\ room.vec.finish \in Nat /\ room.vec.end >= room.vec.finish + m
            /\ at <= room.vec.finish + 1 /\ at + Len(more) = room.vec.finish + m + 1
        BY <1>1, <1>3, <2>2, <2>4
      <4>2. r = Filled(room, at, more, m)
        BY <3>4 DEF r
      <4> HIDE DEF at
      <4> QED BY <4>1, <4>2, <1>1 DEF Fills
    <3>6. Became(h, vec, room) /\ room.vec.finish = n
      BY <2>2, <2>4
    <3> HIDE DEF list, at
    <3>7. Became(h, vec, r) /\ Overwrites(list, Cells(room.heap, room.vec), more, at, room.vec.finish + m)
      BY <3>5, <3>6, FilledBecomes DEF list
    <3>8. /\ list \in Seq(Elements) /\ Len(list) = n + m
          /\ \A k \in 1..(n + m) :
               /\ k < n + 1 => list[k] = old[k]
               /\ (k >= n + 1 /\ k < n + 1 + m) => list[k] = more[k - (n + 1) + 1]
      BY <3>6, <3>7, <2>2, <2>4, <1>1 DEF Overwrites, at
    <3>9. list = old \o more
      <4> DEFINE t == old \o more
      <4>1. old \in Seq(Elements) /\ more \in Seq(Elements)
        BY <1>1
      <4>2. /\ t \in Seq(Elements) /\ Len(t) = Len(old) + Len(more)
            /\ \A k \in 1..Len(old) : t[k] = old[k]
            /\ \A k \in 1..Len(more) : t[Len(old) + k] = more[k]
        BY <4>1, ConcatFacts
      <4> HIDE DEF t
      <4>3. ASSUME NEW k \in 1..(n + m) PROVE list[k] = t[k]
        <5>1. CASE k < n + 1
          <6>1. k \in 1..Len(old)
            BY <5>1, <1>1
          <6> QED BY <6>1, <5>1, <4>2, <3>8
        <5>2. CASE k >= n + 1
          <6> DEFINE j == k - (n + 1) + 1
          <6>1. j \in 1..m /\ n + j = k /\ k < n + 1 + m
            BY <5>2, <1>1
          <6>2. list[k] = more[j]
            BY <6>1, <5>2, <3>8
          <6> HIDE DEF j
          <6>3. t[n + j] = more[j]
            BY <6>1, <4>2, <1>1
          <6> QED BY <6>1, <6>2, <6>3
        <5> QED BY <5>1, <5>2, <1>1
      <4>4. list = t
        <5>1. Len(t) = Len(list) /\ Len(list) = n + m
          BY <4>2, <3>8, <1>1
        <5> QED BY <5>1, <4>2, <4>3, <3>8, SeqEqual
      <4> QED BY <4>4 DEF t
    <3>10. ~r.heap.panicked
      BY <3>7 DEF Became
    <3> QED BY <3>7, <3>9, <3>10, <2>1 DEF Turned, list, old, more
  <2> QED BY <2>3, <2>4
<1> QED BY <1>2, <1>3

-----------------------------------------------------------------------------
(* New vectors.                                                            *)

\* A new Vec has its capacity and no elements.
LEMMA NewBecomes ==
  ASSUME NEW h, Sound(h), ~h.panicked, NEW cap \in Nat
  PROVE  LET r == new_vec_with_capacity(h, cap)
         IN  \/ r.heap.panicked
             \/ /\ Became(h, NULL, r) /\ Cells(r.heap, r.vec) = <<>>
                /\ r.vec.finish = 0 /\ r.vec.end = cap
                /\ cap > 0 => r.vec.start # NULL
<1> DEFINE r == new_vec_with_capacity(h, cap)
           taken == allocate_memory(h, cap)
<1>1. NULL \notin DOMAIN h.memory /\ DOMAIN h.memory \subseteq Blocks /\ StartOf(NULL) = NULL
  BY NullIsNoBlock DEF Sound, Fits, StartOf
<1>2. CASE cap = 0
  <2>1. r = [heap |-> h, vec |-> Empty]
    <3>1. taken.heap = h
      <4> DEFINE fitting == {s \in PartSize : cap <= PART_COUNT[s][1]}
      <4>1. 1 \in PartSize
        BY SizesGrow DEF PartSize
      <4>2. 1 \in fitting
        <5>1. PART_COUNT[1][1] \in Nat
          BY <4>1, SizeFacts
        <5> QED BY <4>1, <5>1, <1>2
      <4>3. fitting # {}
        BY <4>2
      <4> QED BY <4>3, <1>2 DEF allocate_memory
    <3>2. ~ (cap > 0)
      BY <1>2
    <3> HIDE DEF taken
    <3> QED BY <3>1, <3>2 DEF new_vec_with_capacity, taken
  <2>2. VecFits(h, Empty) /\ Cells(h, Empty) = <<>> /\ Empty.start = NULL /\ Empty.finish = 0 /\ Empty.end = 0
    BY DEF VecFits, Empty, Cells, Vectors
  <2>3. Became(h, NULL, [heap |-> h, vec |-> Empty])
    BY <1>1, <2>2 DEF Became
  <2> QED BY <2>1, <2>2, <2>3, <1>2
<1>3. CASE cap > 0
  <2>1. r = [heap |-> taken.heap, vec |-> [start |-> taken.at, finish |-> 0, end |-> cap]]
    BY <1>3 DEF new_vec_with_capacity
  <2>2. taken.heap.panicked \/ Gains(h, taken, cap)
    BY <1>3, AllocationGains
  <2> HIDE DEF taken, r
  <2>3. CASE taken.heap.panicked
    BY <2>1, <2>3 DEF r
  <2>4. CASE ~taken.heap.panicked
    <3>1. Gains(h, taken, cap)
      BY <2>2, <2>4
    <3>2. /\ r.heap = taken.heap /\ r.vec \in Vectors /\ r.vec.start = taken.at /\ r.vec.start # NULL
          /\ r.vec.finish = 0 /\ r.vec.end = cap
      BY <2>1, <3>1, NullIsNoBlock DEF Gains, Vectors
    <3>3. VecFits(r.heap, r.vec)
      BY <3>1, <3>2, <1>3 DEF VecFits, Gains
    <3>4. Became(h, NULL, r)
      BY <3>1, <3>2, <3>3, <2>4, <1>1 DEF Became, Gains
    <3>5. Cells(r.heap, r.vec) = <<>>
      <4>1. Cells(r.heap, r.vec) \in Seq(Elements) /\ Len(Cells(r.heap, r.vec)) = 0
        BY <3>1, <3>2, <3>3, CellsFacts DEF Gains
      <4> QED BY <4>1
    <3> QED BY <3>2, <3>4, <3>5 DEF r
  <2> QED BY <2>3, <2>4
<1> QED BY <1>2, <1>3

\* The elements of a literal fill the new array.
LEMMA LiteralTurns ==
  ASSUME NEW h, Sound(h), ~h.panicked, NEW elements \in Seq(Elements)
  PROVE  LET new == new_vec_with_capacity(h, Len(elements))
             r == [heap |-> IF elements = <<>> \/ new.heap.panicked THEN new.heap
                            ELSE memcpy(new.heap, new.vec.start, 1, elements),
                   vec |-> [new.vec EXCEPT !.finish = Len(elements)]]
         IN  Turned(h, NULL, r, elements)
<1> DEFINE new == new_vec_with_capacity(h, Len(elements))
           vec == [new.vec EXCEPT !.finish = Len(elements)]
           r == [heap |-> IF elements = <<>> \/ new.heap.panicked THEN new.heap
                          ELSE memcpy(new.heap, new.vec.start, 1, elements),
                 vec |-> vec]
           n == Len(elements)
<1>1. n \in Nat
  OBVIOUS
<1>2. \/ new.heap.panicked
      \/ /\ Became(h, NULL, new) /\ Cells(new.heap, new.vec) = <<>>
         /\ new.vec.finish = 0 /\ new.vec.end = n
         /\ n > 0 => new.vec.start # NULL
  BY <1>1, NewBecomes
<1> HIDE DEF new
<1>3. CASE new.heap.panicked
  <2> HIDE DEF vec
  <2>1. r.heap = new.heap
    BY <1>3
  <2> HIDE DEF r
  <2>2. Turned(h, NULL, r, elements)
    BY <2>1, <1>3 DEF Turned
  <2> QED BY <2>2 DEF r, vec, new
<1>4. CASE ~new.heap.panicked
  <2>1. /\ Became(h, NULL, new) /\ Cells(new.heap, new.vec) = <<>>
        /\ new.vec.finish = 0 /\ new.vec.end = n
    BY <1>2, <1>4
  <2>2. n > 0 => new.vec.start # NULL
    BY <1>2, <1>4
  <2>3. new.vec \in Vectors
    BY <2>1 DEF Became, VecFits
  <2>4. vec \in Vectors /\ vec.start = new.vec.start /\ vec.finish = n /\ vec.end = n
    BY <2>1, <2>3, <1>1 DEF Vectors
  <2>5. n = 0 => vec = new.vec
    BY <2>1, <2>3 DEF Vectors
  <2> HIDE DEF vec
  <2>6. CASE elements = <<>>
    <3>1. r = [heap |-> new.heap, vec |-> new.vec]
      BY <2>5, <2>6
    <3>2. Became(h, NULL, [heap |-> new.heap, vec |-> new.vec])
      BY <2>1 DEF Became
    <3> HIDE DEF r
    <3>3. Turned(h, NULL, r, elements)
      BY <3>1, <3>2, <2>1, <2>6 DEF Turned
    <3> QED BY <3>3 DEF r, vec, new
  <2>7. CASE elements # <<>>
    <3>1. r.heap = memcpy(new.heap, new.vec.start, 1, elements) /\ r.vec = vec
      BY <2>7, <1>4
    <3> HIDE DEF r
    <3>2. Writes(new, elements, 1, n, r)
      <4>1. n > 0 /\ 1 \in Nat \ {0} /\ 1 <= 0 + 1 /\ n <= n /\ 1 + n <= n + 1 /\ n + 1 = 1 + n
        BY <2>7, <1>1
      <4> QED BY <4>1, <3>1, <2>1, <2>2, <2>4, <1>1 DEF Writes
    <3> DEFINE list == Cells(r.heap, r.vec)
    <3>3. Became(h, NULL, r) /\ Overwrites(list, Cells(new.heap, new.vec), elements, 1, n)
      BY <3>2, <2>1, WriteBecomes
    <3> HIDE DEF list
    <3>4. /\ list \in Seq(Elements) /\ Len(list) = n
          /\ \A k \in 1..n : (k >= 1 /\ k < 1 + n) => list[k] = elements[k - 1 + 1]
      BY <3>3 DEF Overwrites
    <3>5. \A k \in 1..n : list[k] = elements[k]
      <4>1. \A k \in 1..n : k >= 1 /\ k < 1 + n /\ k - 1 + 1 = k
        BY <1>1
      <4> QED BY <3>4, <4>1
    <3>6. list = elements
      BY <3>4, <3>5, SeqEqual
    <3>7. Turned(h, NULL, r, elements)
      BY <3>3, <3>6 DEF Turned, list
    <3> QED BY <3>7 DEF r, vec, new
  <2> QED BY <2>6, <2>7
<1> QED BY <1>3, <1>4

\* The sum of two has room for both from the start.
LEMMA AddTurns ==
  ASSUME NEW h, Sound(h), ~h.panicked, NEW v, VecFits(h, v), NEW w, VecFits(h, w)
  PROVE  LET new == new_vec_with_capacity(h, vec_len(v) + vec_len(w))
             left == vec_extend(new.heap, new.vec, v, FALSE)
             r == IF new.heap.panicked THEN new ELSE vec_extend(left.heap, left.vec, w, FALSE)
         IN  Turned(h, NULL, r, Cells(h, v) \o Cells(h, w))
<1> DEFINE new == new_vec_with_capacity(h, vec_len(v) + vec_len(w))
           left == vec_extend(new.heap, new.vec, v, FALSE)
           both == vec_extend(left.heap, left.vec, w, FALSE)
           r == IF new.heap.panicked THEN new ELSE both
<1>1. /\ vec_len(v) = v.finish /\ v.finish \in Nat /\ Cells(h, v) \in Seq(Elements)
      /\ vec_len(w) = w.finish /\ w.finish \in Nat
  BY CellsFacts
<1>2. \/ new.heap.panicked
      \/ /\ Became(h, NULL, new) /\ Cells(new.heap, new.vec) = <<>>
         /\ new.vec.finish = 0 /\ new.vec.end = v.finish + w.finish
  <2>1. v.finish + w.finish \in Nat
    BY <1>1
  <2> QED BY <2>1, <1>1, NewBecomes
<1>3. /\ StartOf(NULL) = NULL
      /\ v.start # NULL => v.start \in DOMAIN h.memory
      /\ w.start # NULL => w.start \in DOMAIN h.memory
  BY DEF StartOf, VecFits
<1> HIDE DEF new
<1>4. CASE new.heap.panicked
  <2>1. r = new
    BY <1>4
  <2> HIDE DEF r
  <2>2. Turned(h, NULL, r, Cells(h, v) \o Cells(h, w))
    BY <2>1, <1>4 DEF Turned
  <2> QED BY <2>2 DEF r, both, left, new
<1>5. CASE ~new.heap.panicked
  <2>1. /\ Became(h, NULL, new) /\ Cells(new.heap, new.vec) = <<>>
        /\ new.vec.finish = 0 /\ new.vec.end = v.finish + w.finish
        /\ Sound(new.heap) /\ VecFits(new.heap, new.vec)
    BY <1>2, <1>5 DEF Became
  <2>2. VecFits(new.heap, v) /\ Cells(new.heap, v) = Cells(h, v)
    <3>1. v.start = NULL \/ v.start # StartOf(NULL)
      BY <1>3
    <3> QED BY <3>1, <2>1, OtherKept
  <2>3. v.start = NULL \/ v.start # new.vec.start
    BY <2>1, <1>3 DEF Became
  <2>4. /\ Turned(new.heap, new.vec, left, <<>> \o Cells(h, v))
        /\ new.vec.end >= new.vec.finish + v.finish => ~left.heap.panicked
    <3>1. FALSE \in BOOLEAN
      OBVIOUS
    <3>2. LET e == vec_extend(new.heap, new.vec, v, FALSE)
          IN  /\ Turned(new.heap, new.vec, e, Cells(new.heap, new.vec) \o Cells(new.heap, v))
              /\ new.vec.end >= new.vec.finish + v.finish => ~e.heap.panicked
      BY <3>1, <2>1, <2>2, <2>3, <1>5, ExtendTurns
    <3> QED BY <3>2, <2>1, <2>2
  <2>5. ~left.heap.panicked
    <3>1. new.vec.end >= new.vec.finish + v.finish
      <4> HIDE DEF left
      <4> QED BY <2>1, <1>1
    <3> QED BY <3>1, <2>4
  <2> HIDE DEF left
  <2>6. Became(new.heap, new.vec, left) /\ Cells(left.heap, left.vec) = Cells(h, v)
    <3>1. <<>> \o Cells(h, v) = Cells(h, v)
      BY <1>1
    <3> QED BY <3>1, <2>4, <2>5 DEF Turned
  <2>7. Became(h, NULL, left) /\ Sound(left.heap) /\ VecFits(left.heap, left.vec)
    <3>1. Became(h, NULL, left)
      BY <2>1, <2>6, ThenBecomes
    <3> QED BY <3>1 DEF Became
  <2>8. VecFits(left.heap, w) /\ Cells(left.heap, w) = Cells(h, w)
    <3>1. w.start = NULL \/ w.start # StartOf(NULL)
      BY <1>3
    <3> QED BY <3>1, <2>7, OtherKept
  <2>9. w.start = NULL \/ w.start # left.vec.start
    BY <2>7, <1>3 DEF Became
  <2>10. Turned(left.heap, left.vec, both, Cells(h, v) \o Cells(h, w))
    <3>1. FALSE \in BOOLEAN
      OBVIOUS
    <3>2. Turned(left.heap, left.vec, vec_extend(left.heap, left.vec, w, FALSE),
                 Cells(left.heap, left.vec) \o Cells(left.heap, w))
      BY <3>1, <2>5, <2>7, <2>8, <2>9, ExtendTurns
    <3> QED BY <3>2, <2>6, <2>8
  <2> HIDE DEF both
  <2>11. Turned(h, NULL, both, Cells(h, v) \o Cells(h, w))
    <3>1. CASE both.heap.panicked
      BY <3>1 DEF Turned
    <3>2. CASE ~both.heap.panicked
      <4>1. Became(left.heap, left.vec, both) /\ Cells(both.heap, both.vec) = Cells(h, v) \o Cells(h, w)
        BY <3>2, <2>10 DEF Turned
      <4>2. Became(h, NULL, both)
        BY <4>1, <2>7, ThenBecomes
      <4> QED BY <4>1, <4>2 DEF Turned
    <3> QED BY <3>1, <3>2
  <2>12. r = both
    BY <1>5
  <2> HIDE DEF r
  <2>13. Turned(h, NULL, r, Cells(h, v) \o Cells(h, w))
    BY <2>11, <2>12
  <2> QED BY <2>13 DEF r, both, left, new
<1> QED BY <1>4, <1>5

-----------------------------------------------------------------------------
(* The inductive invariant.                                                *)

\* The array of constants keeps every value written to it.
ConstantsFit(h, c) ==
  \/ c = NoConstants
  \/ /\ c \in [values : Blocks, count : Nat, capacity : Nat]
     /\ c.values \in DOMAIN h.memory
     /\ c.count <= c.capacity /\ c.capacity >= 1 /\ c.capacity <= Len(h.memory[c.values])
     /\ \A ix \in 1..c.count : h.memory[c.values][ix] \in Literals

\* Who holds the blocks of a heap: each Vec object its own, and the chunk the one of its
\* constants.
Held(h, vs, c) ==
  /\ Sound(h)
  /\ vs \in [Vecs -> Vectors \cup {NULL}]
  /\ \A v \in Vecs : vs[v] # NULL => VecFits(h, vs[v])
  /\ ConstantsFit(h, c)
  /\ DOMAIN h.memory = ({StartOf(vs[v]) : v \in Vecs} \cup {c.values}) \ {NULL}
  /\ \A v, w \in Vecs : v # w /\ StartOf(vs[v]) # NULL => StartOf(vs[v]) # StartOf(vs[w])
  /\ \A v \in Vecs : StartOf(vs[v]) # NULL => StartOf(vs[v]) # c.values

\* The inductive invariant.
VecInv == Held(heap, vecs, constants)

\* What the Vec objects stand for.
ListsOf(h, vs) == [v \in Vecs |-> IF vs[v] = NULL THEN NULL ELSE Cells(h, vs[v])]

-----------------------------------------------------------------------------
(* A vector is replaced.                                                   *)

\* An object becomes another: only the block it held and the one it holds now change hands.
Replaced(h, object, g, new) ==
  LET kept == DOMAIN h.memory \ {StartOf(object)}
  IN  /\ Sound(g) /\ ~g.panicked
      /\ new \in Vectors \cup {NULL}
      /\ new # NULL => VecFits(g, new)
      /\ DOMAIN g.memory = kept \cup ({StartOf(new)} \ {NULL})
      /\ StartOf(new) \notin kept
      /\ \A b \in kept : g.memory[b] = h.memory[b]

\* A vector may become what a function of vec.c made of it.
LEMMA BecameReplaces ==
  ASSUME NEW h, NEW object, NEW r, Became(h, object, r)
  PROVE  Replaced(h, object, r.heap, r.vec)
<1>1. VecFits(r.heap, r.vec) /\ r.vec \in Vectors /\ Sound(r.heap)
  BY DEF Became, VecFits
<1>2. StartOf(r.vec) = r.vec.start
  BY <1>1, CellsFacts
<1> QED BY <1>1, <1>2 DEF Became, Replaced

\* The constants, if their block is left alone.
LEMMA ConstantsKept ==
  ASSUME NEW h, NEW g, NEW c, ConstantsFit(h, c),
         c.values # NULL => c.values \in DOMAIN g.memory /\ g.memory[c.values] = h.memory[c.values]
  PROVE  ConstantsFit(g, c)
<1>1. CASE c = NoConstants
  BY <1>1 DEF ConstantsFit
<1>2. CASE c # NoConstants
  <2>1. c.values # NULL
    BY <1>2, NullIsNoBlock DEF ConstantsFit
  <2> QED BY <2>1, <1>2 DEF ConstantsFit
<1> QED BY <1>1, <1>2

\* Every block stays held once, and only the list of the object changes.
LEMMA HeldAfter ==
  ASSUME NEW h, NEW vs, NEW c, Held(h, vs, c), NEW v \in Vecs, NEW g, NEW new,
         Replaced(h, vs[v], g, new), NEW us, us \in [Vecs -> Vectors \cup {NULL}],
         us[v] = new, \A w \in Vecs : w # v => us[w] = vs[w]
  PROVE  /\ Held(g, us, c)
         /\ ListsOf(g, us) =
              [w \in Vecs |-> IF w # v THEN ListsOf(h, vs)[w]
                             ELSE IF new = NULL THEN NULL ELSE Cells(g, new)]
<1> DEFINE Busy == DOMAIN h.memory
           kept == Busy \ {StartOf(vs[v])}
<1>1. /\ Sound(h) /\ vs \in [Vecs -> Vectors \cup {NULL}]
      /\ \A w \in Vecs : vs[w] # NULL => VecFits(h, vs[w])
      /\ ConstantsFit(h, c)
      /\ Busy = ({StartOf(vs[w]) : w \in Vecs} \cup {c.values}) \ {NULL}
      /\ \A w, u \in Vecs : w # u /\ StartOf(vs[w]) # NULL => StartOf(vs[w]) # StartOf(vs[u])
      /\ \A w \in Vecs : StartOf(vs[w]) # NULL => StartOf(vs[w]) # c.values
  BY DEF Held
<1>2. new # NULL => VecFits(g, new)
  BY DEF Replaced
<1>3. /\ Sound(g) /\ ~g.panicked /\ new \in Vectors \cup {NULL}
      /\ DOMAIN g.memory = kept \cup ({StartOf(new)} \ {NULL})
      /\ StartOf(new) \notin kept
      /\ \A b \in kept : g.memory[b] = h.memory[b]
  BY DEF Replaced
<1>4. us \in [Vecs -> Vectors \cup {NULL}] /\ us[v] = new /\ \A w \in Vecs : w # v => us[w] = vs[w]
  OBVIOUS
<1>5. ASSUME NEW w \in Vecs, w # v, StartOf(vs[w]) # NULL
      PROVE  StartOf(vs[w]) \in kept
  BY <1>1, <1>5
<1>6. c.values # NULL => c.values \in kept
  BY <1>1
<1> HIDE DEF kept, Busy
<1>7. ASSUME NEW w \in Vecs, w # v, vs[w] # NULL
      PROVE  VecFits(g, vs[w]) /\ Cells(g, vs[w]) = Cells(h, vs[w])
  <2>1. VecFits(h, vs[w]) /\ StartOf(vs[w]) = vs[w].start
    BY <1>1, <1>7 DEF StartOf
  <2>2. vs[w].start # NULL => vs[w].start \in DOMAIN g.memory /\ g.memory[vs[w].start] = h.memory[vs[w].start]
    BY <2>1, <1>3, <1>5, <1>7
  <2>3. VecFits(g, vs[w])
    BY <2>1, <2>2 DEF VecFits
  <2>4. Cells(g, vs[w]) = Cells(h, vs[w])
    BY <2>2 DEF Cells
  <2> QED BY <2>3, <2>4
<1>8. \A w \in Vecs : us[w] # NULL => VecFits(g, us[w])
  BY <1>2, <1>4, <1>7
<1>9. ConstantsFit(g, c)
  <2>1. c.values # NULL => c.values \in DOMAIN g.memory /\ g.memory[c.values] = h.memory[c.values]
    BY <1>3, <1>6
  <2> QED BY <2>1, <1>1, ConstantsKept
<1>10. DOMAIN g.memory = ({StartOf(us[w]) : w \in Vecs} \cup {c.values}) \ {NULL}
  <2>1. kept \subseteq ({StartOf(us[w]) : w \in Vecs} \cup {c.values}) \ {NULL}
    <3> SUFFICES ASSUME NEW b \in kept
                 PROVE  b # NULL /\ (b = c.values \/ \E w \in Vecs : b = StartOf(us[w]))
      OBVIOUS
    <3>1. b # NULL /\ (b = c.values \/ \E w \in Vecs : b = StartOf(vs[w])) /\ b # StartOf(vs[v])
      BY <1>1 DEF kept, Busy
    <3> QED BY <3>1, <1>4
  <2>2. \A w \in Vecs : StartOf(us[w]) # NULL => StartOf(us[w]) \in DOMAIN g.memory
    <3> SUFFICES ASSUME NEW w \in Vecs, StartOf(us[w]) # NULL
                 PROVE  StartOf(us[w]) \in DOMAIN g.memory
      OBVIOUS
    <3>1. CASE w = v
      BY <3>1, <1>3, <1>4
    <3>2. CASE w # v
      BY <3>2, <1>3, <1>4, <1>5
    <3> QED BY <3>1, <3>2
  <2>3. StartOf(new) \in {StartOf(us[w]) : w \in Vecs}
    BY <1>4
  <2> QED BY <2>1, <2>2, <2>3, <1>3, <1>6
<1>11. ASSUME NEW w \in Vecs, NEW u \in Vecs, w # u, StartOf(us[w]) # NULL
       PROVE  StartOf(us[w]) # StartOf(us[u])
  <2>1. CASE w = v
    <3>1. us[w] = new /\ us[u] = vs[u] /\ u # v
      BY <2>1, <1>4, <1>11
    <3>2. CASE StartOf(vs[u]) = NULL
      BY <3>1, <3>2, <1>11
    <3>3. CASE StartOf(vs[u]) # NULL
      BY <3>1, <3>3, <1>3, <1>5
    <3> QED BY <3>2, <3>3
  <2>2. CASE u = v
    <3>1. us[u] = new /\ us[w] = vs[w] /\ w # v
      BY <2>2, <1>4, <1>11
    <3> QED BY <3>1, <1>3, <1>5, <1>11
  <2>3. CASE w # v /\ u # v
    BY <2>3, <1>1, <1>4, <1>11
  <2> QED BY <2>1, <2>2, <2>3
<1>12. \A w \in Vecs : StartOf(us[w]) # NULL => StartOf(us[w]) # c.values
  <2> SUFFICES ASSUME NEW w \in Vecs, StartOf(us[w]) # NULL PROVE StartOf(us[w]) # c.values
    OBVIOUS
  <2>1. CASE w = v
    BY <2>1, <1>3, <1>4, <1>6
  <2>2. CASE w # v
    BY <2>2, <1>1, <1>4
  <2> QED BY <2>1, <2>2
<1>13. Held(g, us, c)
  BY <1>3, <1>4, <1>8, <1>9, <1>10, <1>11, <1>12 DEF Held
<1>14. ListsOf(g, us) = [w \in Vecs |-> IF w # v THEN ListsOf(h, vs)[w]
                                       ELSE IF new = NULL THEN NULL ELSE Cells(g, new)]
  <2> DEFINE x == IF new = NULL THEN NULL ELSE Cells(g, new)
             l == ListsOf(h, vs)
  <2>1. l = [w \in Vecs |-> IF vs[w] = NULL THEN NULL ELSE Cells(h, vs[w])]
    BY DEF ListsOf
  <2>2. ASSUME NEW w \in Vecs
        PROVE  (IF us[w] = NULL THEN NULL ELSE Cells(g, us[w])) = IF w # v THEN l[w] ELSE x
    BY <2>1, <1>4, <1>7
  <2> HIDE DEF x, l
  <2>3. ListsOf(g, us) = [w \in Vecs |-> IF w # v THEN l[w] ELSE x]
    BY <2>2 DEF ListsOf
  <2> QED BY <2>3 DEF x, l
<1> QED BY <1>13, <1>14

-----------------------------------------------------------------------------
(* The shape of a step.                                                    *)

\* A block is given back with the object that held it.
LEMMA FreeReplaces ==
  ASSUME NEW h, Sound(h), ~h.panicked, NEW vec, VecFits(h, vec)
  PROVE  LET g == free_memory(h, vec.start)
         IN  g.panicked \/ Replaced(h, vec, g, NULL)
<1> DEFINE g == free_memory(h, vec.start)
<1>1. StartOf(vec) = vec.start /\ StartOf(NULL) = NULL /\ NULL \notin DOMAIN h.memory
  BY CellsFacts, NullIsNoBlock DEF StartOf, Sound, Fits
<1>2. CASE vec.start = NULL
  <2>1. g = h
    BY <1>2 DEF free_memory
  <2> QED BY <2>1, <1>1, <1>2 DEF Replaced
<1>3. CASE vec.start # NULL
  <2>1. vec.start \in DOMAIN h.memory
    BY <1>3 DEF VecFits
  <2>2. g.panicked \/ Loses(h, g, vec.start)
    BY <2>1, FreeLoses
  <2> HIDE DEF g
  <2>3. Loses(h, g, vec.start) => g.panicked \/ Replaced(h, vec, g, NULL)
    BY <1>1 DEF Loses, Replaced
  <2> QED BY <2>2, <2>3 DEF g
<1> QED BY <1>2, <1>3

\* The end of the process: nothing is held.
LEMMA NothingHeld == Held(panic(new_allocator), [v \in Vecs |-> NULL], NoConstants)
<1> DEFINE h == panic(new_allocator)
           vs == [v \in Vecs |-> NULL]
<1>1. h.parts = <<>> /\ h.memory = [b \in {} |-> <<>>] /\ h.panicked = TRUE
        /\ h \in [parts : {<<>>}, memory : {h.memory}, panicked : BOOLEAN]
  BY DEF panic, new_allocator
<1> HIDE DEF h
<1>2. <<>> \in Seq(Parts) /\ DOMAIN <<>> = {} /\ DOMAIN h.memory = {}
  BY <1>1
<1>3. Sound(h)
  <2>1. h \in [parts : Seq(Parts), memory : {h.memory}, panicked : BOOLEAN]
    BY <1>1, <1>2
  <2>2. h.memory = [b \in DOMAIN h.memory |-> h.memory[b]]
    BY <1>1
  <2> QED BY <1>1, <1>2, <2>1, <2>2 DEF Sound, Fits, PartsInOrder
<1>4. \A v \in Vecs : vs[v] = NULL /\ StartOf(vs[v]) = NULL
  BY DEF StartOf
<1>5. NoConstants.values = NULL
  BY DEF NoConstants
<1>6. DOMAIN h.memory = ({StartOf(vs[v]) : v \in Vecs} \cup {NoConstants.values}) \ {NULL}
  BY <1>2, <1>4, <1>5
<1>7. vs \in [Vecs -> Vectors \cup {NULL}]
  OBVIOUS
<1> HIDE DEF vs
<1> QED BY <1>3, <1>4, <1>5, <1>6, <1>7 DEF Held, ConstantsFit, h, vs

\* So it is at the start.
LEMMA VecStart == VecInit => VecInv
<1> SUFFICES ASSUME VecInit PROVE VecInv
  OBVIOUS
<1> DEFINE h == new_allocator
           vs == [v \in Vecs |-> NULL]
<1>1. heap = h /\ vecs = vs /\ constants = NoConstants
  BY DEF VecInit
<1>2. h.parts = <<>> /\ h.memory = [b \in {} |-> <<>>] /\ h.panicked = FALSE
        /\ h \in [parts : {<<>>}, memory : {h.memory}, panicked : BOOLEAN]
  BY DEF new_allocator
<1> HIDE DEF h
<1>3. <<>> \in Seq(Parts) /\ DOMAIN <<>> = {} /\ DOMAIN h.memory = {}
  BY <1>2
<1>4. Sound(h)
  <2>1. h \in [parts : Seq(Parts), memory : {h.memory}, panicked : BOOLEAN]
    BY <1>2, <1>3
  <2>2. h.memory = [b \in DOMAIN h.memory |-> h.memory[b]]
    BY <1>2
  <2> QED BY <1>2, <1>3, <2>1, <2>2 DEF Sound, Fits, PartsInOrder
<1>5. \A v \in Vecs : vs[v] = NULL /\ StartOf(vs[v]) = NULL
  BY DEF StartOf
<1>6. NoConstants.values = NULL
  BY DEF NoConstants
<1>7. DOMAIN h.memory = ({StartOf(vs[v]) : v \in Vecs} \cup {NoConstants.values}) \ {NULL}
  BY <1>3, <1>5, <1>6
<1>8. vs \in [Vecs -> Vectors \cup {NULL}]
  OBVIOUS
<1> HIDE DEF vs
<1> QED BY <1>1, <1>4, <1>5, <1>6, <1>7, <1>8 DEF Held, ConstantsFit, VecInv

\* The list of an object.
LEMMA ListFacts ==
  ASSUME VecInv, NEW v \in Vecs
  PROVE  /\ lists = ListsOf(heap, vecs) /\ DOMAIN lists = Vecs
         /\ vecs[v] = NULL => lists[v] = NULL
         /\ vecs[v] # NULL => /\ lists[v] = Cells(heap, vecs[v]) /\ lists[v] # NULL
                              /\ lists[v] \in Seq(Elements) /\ Len(lists[v]) = vecs[v].finish
                              /\ VecFits(heap, vecs[v]) /\ vec_len(vecs[v]) = vecs[v].finish
                              /\ vecs[v].finish \in Nat
                              /\ \A ix \in 1..vecs[v].finish :
                                   lists[v][ix] = heap.memory[vecs[v].start][ix]
         /\ Sound(heap) /\ vecs \in [Vecs -> Vectors \cup {NULL}] /\ heap.panicked \in BOOLEAN
<1>1. lists = ListsOf(heap, vecs)
  BY DEF lists, ListsOf
<1>2. lists = [w \in Vecs |-> IF vecs[w] = NULL THEN NULL ELSE Cells(heap, vecs[w])]
  BY DEF lists
<1>3. Sound(heap) /\ vecs \in [Vecs -> Vectors \cup {NULL}] /\ heap.panicked \in BOOLEAN
  BY FitsTypes DEF VecInv, Held, Sound
<1> HIDE DEF lists
<1>4. ASSUME vecs[v] # NULL
      PROVE  /\ lists[v] = Cells(heap, vecs[v]) /\ lists[v] # NULL
             /\ lists[v] \in Seq(Elements) /\ Len(lists[v]) = vecs[v].finish
             /\ VecFits(heap, vecs[v]) /\ vec_len(vecs[v]) = vecs[v].finish
             /\ vecs[v].finish \in Nat
             /\ \A ix \in 1..vecs[v].finish : lists[v][ix] = heap.memory[vecs[v].start][ix]
  <2>1. VecFits(heap, vecs[v]) /\ lists[v] = Cells(heap, vecs[v])
    BY <1>2, <1>4 DEF VecInv, Held
  <2>2. /\ Cells(heap, vecs[v]) \in Seq(Elements) /\ Len(Cells(heap, vecs[v])) = vecs[v].finish
        /\ vec_len(vecs[v]) = vecs[v].finish /\ vecs[v].finish \in Nat
        /\ \A ix \in 1..vecs[v].finish : Cells(heap, vecs[v])[ix] = heap.memory[vecs[v].start][ix]
    BY <2>1, <1>3, CellsFacts
  <2> QED BY <2>1, <2>2, NullIsNoObject
<1>5. DOMAIN lists = Vecs /\ (vecs[v] = NULL => lists[v] = NULL)
  BY <1>2
<1> QED BY <1>1, <1>3, <1>4, <1>5

\* A panic ends the process.
LEMMA PanicsEnd ==
  ASSUME VecInv, ~heap.panicked, Panics
  PROVE  VecInv' /\ L!End
<1>1. VecInv'
  BY NothingHeld DEF Panics, VecInv
<1>2. heap'.panicked = TRUE /\ vecs' = [v \in Vecs |-> NULL] /\ answer' = <<"null">>
  BY DEF Panics, panic, new_allocator
<1>3. lists' = [v \in Vecs |-> NULL]
  BY <1>2 DEF lists
<1> QED BY <1>1, <1>2, <1>3 DEF L!End

\* What a function left is stored.
LEMMA StoreSteps ==
  ASSUME VecInv, ~heap.panicked, NEW v \in Vecs, NEW r, Store(v, r),
         r.heap.panicked \/ Replaced(heap, vecs[v], r.heap, r.vec)
  PROVE  /\ VecInv'
         /\ \/ L!End
            \/ /\ L!Change(v, IF r.vec = NULL THEN NULL ELSE Cells(r.heap, r.vec))
               /\ L!Answers(<<"null">>)
<1>1. CASE r.heap.panicked
  <2>1. Panics
    BY <1>1 DEF Store
  <2> QED BY <2>1, PanicsEnd
<1>2. CASE ~r.heap.panicked
  <2>1. /\ heap' = r.heap /\ vecs' = [vecs EXCEPT ![v] = r.vec] /\ answer' = <<"null">>
        /\ constants' = constants
    BY <1>2 DEF Store
  <2>2. Replaced(heap, vecs[v], r.heap, r.vec)
    BY <1>2
  <2> DEFINE x == IF r.vec = NULL THEN NULL ELSE Cells(r.heap, r.vec)
  <2>3. /\ vecs' \in [Vecs -> Vectors \cup {NULL}] /\ vecs'[v] = r.vec
        /\ \A w \in Vecs : w # v => vecs'[w] = vecs[w]
    BY <2>1, <2>2, ListFacts DEF Replaced
  <2>4. /\ Held(heap', vecs', constants')
        /\ ListsOf(heap', vecs') = [w \in Vecs |-> IF w # v THEN ListsOf(heap, vecs)[w] ELSE x]
    <3>1. Held(heap, vecs, constants) /\ Replaced(heap, vecs[v], r.heap, r.vec)
      BY <2>2 DEF VecInv
    <3> DEFINE us == vecs'
    <3> HIDE DEF us
    <3>2. us \in [Vecs -> Vectors \cup {NULL}] /\ us[v] = r.vec /\ \A w \in Vecs : w # v => us[w] = vecs[w]
      BY <2>3 DEF us
    <3>3. /\ Held(r.heap, us, constants)
          /\ ListsOf(r.heap, us) = [w \in Vecs |-> IF w # v THEN ListsOf(heap, vecs)[w] ELSE x]
      BY <3>1, <3>2, HeldAfter
    <3> QED BY <3>3, <2>1 DEF us
  <2> HIDE DEF x
  <2>5. VecInv'
    BY <2>4 DEF VecInv
  <2>6. lists' = [lists EXCEPT ![v] = x]
    <3>1. lists' = ListsOf(heap', vecs')
      BY DEF lists, ListsOf
    <3>2. lists = ListsOf(heap, vecs) /\ DOMAIN lists = Vecs /\ lists = [w \in Vecs |-> lists[w]]
      BY ListFacts DEF ListsOf
    <3> HIDE DEF lists
    <3> QED BY <3>1, <3>2, <2>4
  <2>7. heap'.panicked = heap.panicked
    <3>1. Sound(r.heap) /\ r.heap.panicked \in BOOLEAN /\ heap.panicked \in BOOLEAN
      BY <2>2, FitsTypes, ListFacts DEF Replaced, Sound
    <3> QED BY <3>1, <2>1, <1>2
  <2> QED BY <2>1, <2>5, <2>6, <2>7 DEF L!Change, L!Answers, x
<1> QED BY <1>1, <1>2

\* A function that turned an object into a Vec.
LEMMA TurnedSteps ==
  ASSUME VecInv, ~heap.panicked, NEW v \in Vecs, NEW r, NEW list, Store(v, r),
         Turned(heap, vecs[v], r, list)
  PROVE  VecInv' /\ (L!End \/ (L!Change(v, list) /\ L!Answers(<<"null">>)))
<1>1. CASE r.heap.panicked
  <2>1. Panics
    BY <1>1 DEF Store
  <2> QED BY <2>1, PanicsEnd
<1>2. CASE ~r.heap.panicked
  <2>1. Became(heap, vecs[v], r) /\ Cells(r.heap, r.vec) = list
    BY <1>2 DEF Turned
  <2>2. Replaced(heap, vecs[v], r.heap, r.vec)
    BY <2>1, BecameReplaces
  <2>3. r.vec # NULL
    BY <2>1, NullIsNoObject DEF Became, VecFits
  <2>4. /\ VecInv'
        /\ \/ L!End
           \/ /\ L!Change(v, IF r.vec = NULL THEN NULL ELSE Cells(r.heap, r.vec))
              /\ L!Answers(<<"null">>)
    BY <2>2, StoreSteps
  <2> QED BY <2>1, <2>3, <2>4
<1> QED BY <1>1, <1>2

-----------------------------------------------------------------------------
(* The steps, one lemma for each action.                                   *)

\* The script's methods answer null.
LEMMA NewVecSteps ==
  ASSUME VecInv, NEW v \in Vecs, native_vec_new(v)
  PROVE  VecInv' /\ (L!End \/ L!New(v, <<>>))
<1>1. ~heap.panicked /\ vecs[v] = NULL /\ Sound(heap) /\ lists[v] = NULL
  BY ListFacts DEF native_vec_new
<1> DEFINE r == [heap |-> heap, vec |-> Empty]
<1>2. Store(v, r)
  BY DEF native_vec_new
<1>3. Turned(heap, vecs[v], r, <<>>)
  <2>1. VecFits(heap, Empty) /\ Cells(heap, Empty) = <<>> /\ StartOf(Empty) = NULL /\ StartOf(NULL) = NULL
    <3>1. VecFits(heap, Empty) /\ Cells(heap, Empty) = <<>>
      BY DEF VecFits, Empty, Cells, Vectors
    <3> QED BY <3>1 DEF StartOf, Empty
  <2>2. Became(heap, Empty, r)
    BY <2>1, <1>1, StayBecomes
  <2>3. Became(heap, NULL, r)
    BY <2>1, <2>2 DEF Became
  <2> QED BY <2>1, <2>3, <1>1 DEF Turned
<1> HIDE DEF r
<1>4. VecInv' /\ (L!End \/ (L!Change(v, <<>>) /\ L!Answers(<<"null">>)))
  BY <1>1, <1>2, <1>3, TurnedSteps
<1> QED BY <1>1, <1>4 DEF L!New

\* A literal is a new list of its elements.
LEMMA LiteralSteps ==
  ASSUME VecInv, NEW v \in Vecs, NEW elements \in Seq(Elements), op_vector_new(v, elements)
  PROVE  VecInv' /\ (L!End \/ L!New(v, elements))
<1> DEFINE new == new_vec_with_capacity(heap, Len(elements))
           r == [heap |-> IF elements = <<>> \/ new.heap.panicked THEN new.heap
                          ELSE memcpy(new.heap, new.vec.start, 1, elements),
                 vec |-> [new.vec EXCEPT !.finish = Len(elements)]]
<1>1. ~heap.panicked /\ vecs[v] = NULL /\ Sound(heap) /\ lists[v] = NULL
  BY ListFacts DEF op_vector_new
<1>2. Store(v, r)
  BY DEF op_vector_new
<1>3. Turned(heap, vecs[v], r, elements)
  <2>1. Turned(heap, NULL, r, elements)
    BY <1>1, LiteralTurns
  <2> HIDE DEF r
  <2> QED BY <2>1, <1>1
<1> HIDE DEF r
<1>4. VecInv' /\ (L!End \/ (L!Change(v, elements) /\ L!Answers(<<"null">>)))
  BY <1>1, <1>2, <1>3, TurnedSteps
<1> QED BY <1>1, <1>4 DEF L!New

\* The sum of two vectors is a new list, their concatenation.
LEMMA AddSteps ==
  ASSUME VecInv, NEW u \in Vecs, NEW v \in Vecs, NEW w \in Vecs, vec_add(u, v, w)
  PROVE  VecInv' /\ (L!End \/ L!Sum(u, v, w))
<1> DEFINE new == new_vec_with_capacity(heap, vec_len(vecs[v]) + vec_len(vecs[w]))
           left == vec_extend(new.heap, new.vec, vecs[v], FALSE)
           r == IF new.heap.panicked THEN new ELSE vec_extend(left.heap, left.vec, vecs[w], FALSE)
<1>1. /\ ~heap.panicked /\ vecs[u] = NULL /\ Sound(heap) /\ lists[u] = NULL
      /\ vecs[v] # NULL /\ vecs[w] # NULL
  BY ListFacts DEF vec_add, Exists
<1>2. /\ VecFits(heap, vecs[v]) /\ lists[v] = Cells(heap, vecs[v]) /\ lists[v] # NULL
      /\ VecFits(heap, vecs[w]) /\ lists[w] = Cells(heap, vecs[w]) /\ lists[w] # NULL
  BY <1>1, ListFacts
<1>3. Store(u, r)
  BY DEF vec_add
<1>4. Turned(heap, vecs[u], r, lists[v] \o lists[w])
  <2>1. Turned(heap, NULL, r, Cells(heap, vecs[v]) \o Cells(heap, vecs[w]))
    BY <1>1, <1>2, AddTurns
  <2> HIDE DEF r
  <2> QED BY <2>1, <1>1, <1>2
<1> HIDE DEF r
<1>5. VecInv' /\ (L!End \/ (L!Change(u, lists[v] \o lists[w]) /\ L!Answers(<<"null">>)))
  BY <1>1, <1>3, <1>4, TurnedSteps
<1> QED BY <1>1, <1>2, <1>5 DEF L!Sum, L!New, L!Exists

\* The sweep releases the list.
LEMMA FreeSteps ==
  ASSUME VecInv, NEW v \in Vecs, free_vec(v)
  PROVE  VecInv' /\ (L!End \/ L!Release(v))
<1> DEFINE freed == free_memory(heap, vecs[v].start)
           r == [heap |-> freed, vec |-> NULL]
<1>1. /\ ~heap.panicked /\ vecs[v] # NULL
  BY DEF free_vec, Exists
<1>2. VecFits(heap, vecs[v]) /\ lists[v] # NULL /\ Sound(heap)
  BY <1>1, ListFacts
<1>3. Store(v, r)
  BY DEF free_vec
<1>4. freed.panicked \/ Replaced(heap, vecs[v], freed, NULL)
  BY <1>1, <1>2, FreeReplaces
<1>5. r.heap = freed /\ r.vec = NULL
  OBVIOUS
<1> HIDE DEF r, freed
<1>6. VecInv' /\ (L!End \/ (L!Change(v, NULL) /\ L!Answers(<<"null">>)))
  <2>1. /\ VecInv'
        /\ \/ L!End
           \/ /\ L!Change(v, IF r.vec = NULL THEN NULL ELSE Cells(r.heap, r.vec))
              /\ L!Answers(<<"null">>)
    BY <1>1, <1>3, <1>4, <1>5, StoreSteps
  <2> QED BY <2>1, <1>5
<1> QED BY <1>1, <1>2, <1>6 DEF L!Release, L!Exists

\* push appends to the list.
LEMMA PushSteps ==
  ASSUME VecInv, NEW v \in Vecs, NEW e \in Elements, native_vec_push(v, e)
  PROVE  VecInv' /\ (L!End \/ L!Push(v, e))
<1> DEFINE r == vec_push(heap, vecs[v], e)
<1>1. ~heap.panicked /\ vecs[v] # NULL /\ Store(v, r)
  BY DEF native_vec_push, Exists
<1>2. VecFits(heap, vecs[v]) /\ lists[v] = Cells(heap, vecs[v]) /\ lists[v] # NULL /\ Sound(heap)
  BY <1>1, ListFacts
<1>3. Turned(heap, vecs[v], r, Append(lists[v], e))
  BY <1>1, <1>2, PushTurns
<1> HIDE DEF r
<1>4. VecInv' /\ (L!End \/ (L!Change(v, Append(lists[v], e)) /\ L!Answers(<<"null">>)))
  BY <1>1, <1>3, TurnedSteps
<1> QED BY <1>1, <1>2, <1>4 DEF L!Push, L!Exists

\* insert inserts into the list, or refuses an index outside it.
LEMMA InsertSteps ==
  ASSUME VecInv, NEW v \in Vecs, NEW ix \in Int, NEW e \in Elements, native_vec_insert(v, ix, e)
  PROVE  VecInv' /\ (L!End \/ L!Insert(v, ix, e) \/ L!Refuse)
<1> DEFINE r == vec_insert(heap, vecs[v], ix, e)
<1>1. ~heap.panicked /\ vecs[v] # NULL
  BY DEF native_vec_insert, Exists
<1>2. /\ VecFits(heap, vecs[v]) /\ lists[v] = Cells(heap, vecs[v]) /\ lists[v] # NULL /\ Sound(heap)
      /\ Len(lists[v]) = vecs[v].finish /\ vec_len(vecs[v]) = vecs[v].finish /\ vecs[v].finish \in Nat
  BY <1>1, ListFacts
<1>3. CASE Indexed(v, ix, 1)
  <2>1. ix \in 0..vecs[v].finish /\ Store(v, r)
    BY <1>2, <1>3 DEF Indexed, native_vec_insert
  <2>2. Turned(heap, vecs[v], r, InsertAt(lists[v], ix + 1, e))
    BY <2>1, <1>1, <1>2, InsertTurns
  <2> HIDE DEF r
  <2>3. VecInv' /\ (L!End \/ (L!Change(v, InsertAt(lists[v], ix + 1, e)) /\ L!Answers(<<"null">>)))
    BY <2>1, <2>2, <1>1, TurnedSteps
  <2>4. ix \in 0..Len(lists[v])
    BY <2>1, <1>2
  <2>5. L!InsertAt(lists[v], ix + 1, e) = InsertAt(lists[v], ix + 1, e)
    BY DEF L!InsertAt, InsertAt
  <2> QED BY <2>3, <2>4, <2>5, <1>1, <1>2 DEF L!Insert, L!Exists
<1>4. CASE ~Indexed(v, ix, 1)
  <2>1. answer' = <<"error">> /\ UNCHANGED <<heap, vecs, constants>>
    BY <1>4 DEF native_vec_insert, Refuses, Tell
  <2> QED BY <2>1, <1>1 DEF VecInv, L!Refuse, L!Answers, lists
<1> QED BY <1>3, <1>4

\* An operation that only answers leaves everything as it is.
LEMMA TellSteps ==
  ASSUME VecInv, ~heap.panicked, NEW a, Tell(a)
  PROVE  VecInv' /\ L!Answers(a) /\ lists' = lists /\ heap' = heap
BY DEF VecInv, Tell, L!Answers, lists

\* remove deletes from the list, or refuses.
LEMMA RemoveSteps ==
  ASSUME VecInv, NEW v \in Vecs, NEW ix \in Int, native_vec_remove(v, ix)
  PROVE  VecInv' /\ (L!End \/ L!Delete(v, ix) \/ L!Refuse)
<1> DEFINE r == vec_remove(heap, vecs[v], ix)
<1>1. ~heap.panicked /\ vecs[v] # NULL
  BY DEF native_vec_remove, Exists
<1>2. /\ VecFits(heap, vecs[v]) /\ lists[v] = Cells(heap, vecs[v]) /\ lists[v] # NULL /\ Sound(heap)
      /\ Len(lists[v]) = vecs[v].finish /\ vec_len(vecs[v]) = vecs[v].finish /\ vecs[v].finish \in Nat
  BY <1>1, ListFacts
<1>3. CASE Indexed(v, ix, 0)
  <2>1. ix \in 0..(vecs[v].finish - 1) /\ Store(v, r)
    BY <1>2, <1>3 DEF Indexed, native_vec_remove
  <2>2. Turned(heap, vecs[v], r, RemoveAt(lists[v], ix + 1))
    BY <2>1, <1>1, <1>2, RemoveTurns
  <2> HIDE DEF r
  <2>3. VecInv' /\ (L!End \/ (L!Change(v, RemoveAt(lists[v], ix + 1)) /\ L!Answers(<<"null">>)))
    BY <2>1, <2>2, <1>1, TurnedSteps
  <2>4. L!Within(v, ix)
    BY <2>1, <1>2 DEF L!Within
  <2>5. L!RemoveAt(lists[v], ix + 1) = RemoveAt(lists[v], ix + 1)
    BY DEF L!RemoveAt, RemoveAt
  <2> QED BY <2>3, <2>4, <2>5, <1>1, <1>2 DEF L!Delete, L!Exists
<1>4. CASE ~Indexed(v, ix, 0)
  <2>1. Tell(<<"error">>)
    BY <1>4 DEF native_vec_remove, Refuses
  <2> QED BY <2>1, <1>1, TellSteps DEF L!Refuse
<1> QED BY <1>3, <1>4

\* set replaces an element of the list, or refuses.
LEMMA SetSteps ==
  ASSUME VecInv, NEW v \in Vecs, NEW ix \in Int, NEW e \in Elements, native_vec_set(v, ix, e)
  PROVE  VecInv' /\ (L!End \/ L!Set(v, ix, e) \/ L!Refuse)
<1> DEFINE r == [heap |-> memcpy(heap, vecs[v].start, ix + 1, <<e>>), vec |-> vecs[v]]
<1>1. ~heap.panicked /\ vecs[v] # NULL
  BY DEF native_vec_set, Exists
<1>2. /\ VecFits(heap, vecs[v]) /\ lists[v] = Cells(heap, vecs[v]) /\ lists[v] # NULL /\ Sound(heap)
      /\ Len(lists[v]) = vecs[v].finish /\ vec_len(vecs[v]) = vecs[v].finish /\ vecs[v].finish \in Nat
  BY <1>1, ListFacts
<1>3. CASE Indexed(v, ix, 0)
  <2>1. ix \in 0..(vecs[v].finish - 1) /\ Store(v, r)
    BY <1>2, <1>3 DEF Indexed, native_vec_set
  <2>2. Turned(heap, vecs[v], r, [lists[v] EXCEPT ![ix + 1] = e])
    BY <2>1, <1>1, <1>2, SetTurns
  <2> HIDE DEF r
  <2>3. VecInv' /\ (L!End \/ (L!Change(v, [lists[v] EXCEPT ![ix + 1] = e]) /\ L!Answers(<<"null">>)))
    BY <2>1, <2>2, <1>1, TurnedSteps
  <2>4. L!Within(v, ix)
    BY <2>1, <1>2 DEF L!Within
  <2> QED BY <2>3, <2>4, <1>1, <1>2 DEF L!Set, L!Exists
<1>4. CASE ~Indexed(v, ix, 0)
  <2>1. Tell(<<"error">>)
    BY <1>4 DEF native_vec_set, Refuses
  <2> QED BY <2>1, <1>1, TellSteps DEF L!Refuse
<1> QED BY <1>3, <1>4

\* get answers the element of the list, or refuses.
LEMMA GetSteps ==
  ASSUME VecInv, NEW v \in Vecs, NEW ix \in Int, native_vec_get(v, ix)
  PROVE  VecInv' /\ (L!Get(v, ix) \/ L!Refuse)
<1>1. ~heap.panicked /\ vecs[v] # NULL
  BY DEF native_vec_get, Exists
<1>2. /\ lists[v] # NULL
      /\ Len(lists[v]) = vecs[v].finish /\ vec_len(vecs[v]) = vecs[v].finish /\ vecs[v].finish \in Nat
      /\ \A k \in 1..vecs[v].finish : lists[v][k] = heap.memory[vecs[v].start][k]
  BY <1>1, ListFacts
<1>3. CASE Indexed(v, ix, 0)
  <2>1. ix + 1 \in 1..vecs[v].finish /\ ix \in 0..(Len(lists[v]) - 1)
    BY <1>2, <1>3 DEF Indexed
  <2>2. Tell(<<"value", lists[v][ix + 1]>>)
    BY <2>1, <1>2, <1>3 DEF native_vec_get
  <2>3. VecInv' /\ L!Answers(<<"value", lists[v][ix + 1]>>) /\ lists' = lists
    BY <2>2, <1>1, TellSteps
  <2> QED BY <2>1, <2>3, <1>1, <1>2 DEF L!Get, L!Exists, L!Within
<1>4. CASE ~Indexed(v, ix, 0)
  <2>1. Tell(<<"error">>)
    BY <1>4 DEF native_vec_get, Refuses
  <2> QED BY <2>1, <1>1, TellSteps DEF L!Refuse
<1> QED BY <1>3, <1>4

\* extend concatenates the lists.
LEMMA ExtendSteps ==
  ASSUME VecInv, NEW v \in Vecs, NEW w \in Vecs, native_vec_extend(v, w)
  PROVE  VecInv' /\ (L!End \/ L!Extend(v, w))
<1> DEFINE r == vec_extend(heap, vecs[v], vecs[w], v = w)
<1>1. ~heap.panicked /\ vecs[v] # NULL /\ vecs[w] # NULL /\ Store(v, r)
  BY DEF native_vec_extend, Exists
<1>2. /\ VecFits(heap, vecs[v]) /\ lists[v] = Cells(heap, vecs[v]) /\ lists[v] # NULL /\ Sound(heap)
      /\ VecFits(heap, vecs[w]) /\ lists[w] = Cells(heap, vecs[w]) /\ lists[w] # NULL
  BY <1>1, ListFacts
<1>3. v # w => vecs[w].start = NULL \/ vecs[w].start # vecs[v].start
  BY <1>1 DEF VecInv, Held, StartOf
<1>4. Turned(heap, vecs[v], r, lists[v] \o lists[w])
  <2> DEFINE same == v = w
  <2>1. same \in BOOLEAN /\ (same => vecs[w] = vecs[v])
          /\ (~same => vecs[w].start = NULL \/ vecs[w].start # vecs[v].start)
    BY <1>3
  <2> HIDE DEF same
  <2>2. Turned(heap, vecs[v], vec_extend(heap, vecs[v], vecs[w], same),
               Cells(heap, vecs[v]) \o Cells(heap, vecs[w]))
    BY <2>1, <1>1, <1>2, ExtendTurns
  <2> QED BY <2>2, <1>2 DEF same
<1> HIDE DEF r
<1>5. VecInv' /\ (L!End \/ (L!Change(v, lists[v] \o lists[w]) /\ L!Answers(<<"null">>)))
  BY <1>1, <1>4, TurnedSteps
<1> QED BY <1>1, <1>2, <1>5 DEF L!Extend, L!Exists

\* reverse turns the list round.
LEMMA ReverseSteps ==
  ASSUME VecInv, NEW v \in Vecs, native_vec_reverse(v)
  PROVE  VecInv' /\ (L!End \/ L!Mirror(v))
<1> DEFINE r == [heap |-> vec_reverse(heap, vecs[v]), vec |-> vecs[v]]
<1>1. ~heap.panicked /\ vecs[v] # NULL /\ Store(v, r)
  BY DEF native_vec_reverse, Exists
<1>2. VecFits(heap, vecs[v]) /\ lists[v] = Cells(heap, vecs[v]) /\ lists[v] # NULL /\ Sound(heap)
  BY <1>1, ListFacts
<1>3. Turned(heap, vecs[v], r, Reverse(lists[v]))
  BY <1>1, <1>2, ReverseTurns
<1> HIDE DEF r
<1>4. VecInv' /\ (L!End \/ (L!Change(v, Reverse(lists[v])) /\ L!Answers(<<"null">>)))
  BY <1>1, <1>3, TurnedSteps
<1>5. L!Reverse(lists[v]) = Reverse(lists[v])
  BY DEF L!Reverse, Reverse
<1> QED BY <1>1, <1>2, <1>4, <1>5 DEF L!Mirror, L!Exists

\* clear leaves the empty list.
LEMMA ClearSteps ==
  ASSUME VecInv, NEW v \in Vecs, native_vec_clear(v)
  PROVE  VecInv' /\ (L!End \/ L!Clear(v))
<1> DEFINE r == [heap |-> heap, vec |-> [vecs[v] EXCEPT !.finish = 0]]
<1>1. ~heap.panicked /\ vecs[v] # NULL /\ Store(v, r)
  BY DEF native_vec_clear, Exists
<1>2. /\ VecFits(heap, vecs[v]) /\ lists[v] = Cells(heap, vecs[v]) /\ lists[v] # NULL /\ Sound(heap)
      /\ lists[v] \in Seq(Elements) /\ vecs[v].finish \in Nat
  BY <1>1, ListFacts
<1>3. Turned(heap, vecs[v], r, <<>>)
  <2>1. 0 \in 0..vecs[v].finish
    BY <1>2
  <2>2. Turned(heap, vecs[v], r, SubSeq(lists[v], 1, 0))
    BY <2>1, <1>1, <1>2, ShorterTurns
  <2>3. SubSeq(lists[v], 1, 0) = <<>>
    BY <1>2
  <2> QED BY <2>2, <2>3
<1> HIDE DEF r
<1>4. VecInv' /\ (L!End \/ (L!Change(v, <<>>) /\ L!Answers(<<"null">>)))
  BY <1>1, <1>3, TurnedSteps
<1> QED BY <1>1, <1>2, <1>4 DEF L!Clear, L!Exists

\* first answers the head of the list, or the process ends.
LEMMA FirstSteps ==
  ASSUME VecInv, NEW v \in Vecs, native_vec_first(v)
  PROVE  VecInv' /\ (L!End \/ L!First(v))
<1>1. ~heap.panicked /\ vecs[v] # NULL
  BY DEF native_vec_first, Exists
<1>2. /\ lists[v] # NULL /\ lists[v] \in Seq(Elements)
      /\ Len(lists[v]) = vecs[v].finish /\ vecs[v].finish \in Nat
      /\ \A k \in 1..vecs[v].finish : lists[v][k] = heap.memory[vecs[v].start][k]
  BY <1>1, ListFacts
<1>3. CASE vecs[v].finish = 0
  <2>1. Panics
    BY <1>3 DEF native_vec_first, vec_is_empty
  <2> QED BY <2>1, <1>1, PanicsEnd
<1>4. CASE vecs[v].finish # 0
  <2>1. 1 \in 1..vecs[v].finish /\ lists[v] # <<>> /\ Head(lists[v]) = lists[v][1]
    BY <1>2, <1>4
  <2>2. Tell(<<"value", Head(lists[v])>>)
    BY <2>1, <1>2, <1>4 DEF native_vec_first, vec_is_empty
  <2>3. VecInv' /\ L!Answers(<<"value", Head(lists[v])>>) /\ lists' = lists
    BY <2>2, <1>1, TellSteps
  <2> QED BY <2>1, <2>3, <1>1, <1>2 DEF L!First, L!Exists
<1> QED BY <1>3, <1>4

\* last answers the last element, or the process ends.
LEMMA LastSteps ==
  ASSUME VecInv, NEW v \in Vecs, native_vec_last(v)
  PROVE  VecInv' /\ (L!End \/ L!LastOf(v))
<1>1. ~heap.panicked /\ vecs[v] # NULL
  BY DEF native_vec_last, Exists
<1>2. /\ lists[v] # NULL /\ lists[v] \in Seq(Elements)
      /\ Len(lists[v]) = vecs[v].finish /\ vecs[v].finish \in Nat
      /\ \A k \in 1..vecs[v].finish : lists[v][k] = heap.memory[vecs[v].start][k]
  BY <1>1, ListFacts
<1>3. CASE vecs[v].finish = 0
  <2>1. Panics
    BY <1>3 DEF native_vec_last, vec_is_empty
  <2> QED BY <2>1, <1>1, PanicsEnd
<1>4. CASE vecs[v].finish # 0
  <2>1. vecs[v].finish \in 1..vecs[v].finish /\ lists[v] # <<>> /\ L!Last(lists[v]) = lists[v][vecs[v].finish]
    BY <1>2, <1>4 DEF L!Last
  <2>2. Tell(<<"value", L!Last(lists[v])>>)
    BY <2>1, <1>2, <1>4 DEF native_vec_last, vec_is_empty
  <2>3. VecInv' /\ L!Answers(<<"value", L!Last(lists[v])>>) /\ lists' = lists
    BY <2>2, <1>1, TellSteps
  <2> QED BY <2>1, <2>3, <1>1, <1>2 DEF L!LastOf, L!Exists
<1> QED BY <1>3, <1>4

\* pop takes the last element off and answers it, or the process ends.
LEMMA PopSteps ==
  ASSUME VecInv, NEW v \in Vecs, native_vec_pop(v)
  PROVE  VecInv' /\ (L!End \/ L!Pop(v))
<1>1. ~heap.panicked /\ vecs[v] # NULL
  BY DEF native_vec_pop, Exists
<1>2. /\ lists[v] # NULL /\ lists[v] \in Seq(Elements) /\ lists[v] = Cells(heap, vecs[v])
      /\ Len(lists[v]) = vecs[v].finish /\ vecs[v].finish \in Nat
      /\ \A k \in 1..vecs[v].finish : lists[v][k] = heap.memory[vecs[v].start][k]
      /\ Sound(heap) /\ VecFits(heap, vecs[v]) /\ vecs \in [Vecs -> Vectors \cup {NULL}]
      /\ lists = ListsOf(heap, vecs) /\ DOMAIN lists = Vecs
  BY <1>1, ListFacts
<1>3. CASE vecs[v].finish = 0
  <2>1. Panics
    BY <1>3 DEF native_vec_pop, vec_is_empty
  <2> QED BY <2>1, <1>1, PanicsEnd
<1>4. CASE vecs[v].finish # 0
  <2> DEFINE n == vecs[v].finish
             new == [vecs[v] EXCEPT !.finish = n - 1]
  <2>1. n \in 1..n /\ n - 1 \in 0..n /\ lists[v] # <<>> /\ L!Last(lists[v]) = lists[v][n]
          /\ L!Front(lists[v]) = SubSeq(lists[v], 1, n - 1)
    BY <1>2, <1>4 DEF L!Last, L!Front
  <2>2. /\ answer' = <<"value", heap.memory[vecs[v].start][n]>>
        /\ vecs' = [vecs EXCEPT ![v].finish = n - 1] /\ heap' = heap /\ constants' = constants
    BY <1>4 DEF native_vec_pop, vec_is_empty
  <2>3. answer' = <<"value", L!Last(lists[v])>>
    BY <2>1, <2>2, <1>2
  <2>4. Turned(heap, vecs[v], [heap |-> heap, vec |-> new], SubSeq(lists[v], 1, n - 1)) /\ new \in Vectors
    BY <2>1, <1>1, <1>2, ShorterTurns
  <2>5. vecs'[v] = new /\ \A w \in Vecs : w # v => vecs'[w] = vecs[w]
    BY <2>2, <1>2
  <2>6. vecs' \in [Vecs -> Vectors \cup {NULL}]
    BY <2>2, <2>4, <1>2
  <2> HIDE DEF new, n
  <2>7. Became(heap, vecs[v], [heap |-> heap, vec |-> new]) /\ Cells(heap, new) = SubSeq(lists[v], 1, n - 1)
    BY <2>4, <1>1 DEF Turned
  <2>8. Replaced(heap, vecs[v], heap, new) /\ new # NULL
    <3> DEFINE r == [heap |-> heap, vec |-> new]
    <3>1. r.heap = heap /\ r.vec = new /\ Became(heap, vecs[v], r)
      BY <2>7
    <3> HIDE DEF r
    <3>2. Replaced(heap, vecs[v], r.heap, r.vec)
      BY <3>1, BecameReplaces
    <3> QED BY <3>1, <3>2, <2>4, NullIsNoObject
  <2>9. /\ Held(heap, vecs', constants)
        /\ ListsOf(heap, vecs') =
             [w \in Vecs |-> IF w # v THEN ListsOf(heap, vecs)[w]
                            ELSE IF new = NULL THEN NULL ELSE Cells(heap, new)]
    <3> DEFINE us == vecs'
    <3> HIDE DEF us
    <3>1. us \in [Vecs -> Vectors \cup {NULL}] /\ us[v] = new /\ \A w \in Vecs : w # v => us[w] = vecs[w]
      BY <2>5, <2>6 DEF us
    <3>2. Held(heap, vecs, constants)
      BY DEF VecInv
    <3>3. /\ Held(heap, us, constants)
          /\ ListsOf(heap, us) =
               [w \in Vecs |-> IF w # v THEN ListsOf(heap, vecs)[w]
                              ELSE IF new = NULL THEN NULL ELSE Cells(heap, new)]
      BY <3>1, <3>2, <2>8, HeldAfter
    <3> QED BY <3>3 DEF us
  <2>10. VecInv'
    BY <2>2, <2>9 DEF VecInv
  <2>11. L!Change(v, L!Front(lists[v]))
    <3>1. lists' = ListsOf(heap', vecs')
      BY DEF lists, ListsOf
    <3>2. lists = [w \in Vecs |-> lists[w]]
      BY DEF lists
    <3> DEFINE x == SubSeq(lists[v], 1, n - 1)
               c == Cells(heap, new)
    <3> HIDE DEF lists, x, c
    <3>3. c = x /\ L!Front(lists[v]) = x
      BY <2>1, <2>7 DEF x, n, c
    <3>4. ListsOf(heap, vecs') = [w \in Vecs |-> IF w # v THEN lists[w] ELSE x]
      BY <2>8, <2>9, <3>3, <1>2 DEF c
    <3>5. lists' = [w \in Vecs |-> IF w # v THEN lists[w] ELSE x]
      BY <3>1, <3>4, <2>2
    <3>6. lists' = [lists EXCEPT ![v] = x]
      BY <3>2, <3>5
    <3> QED BY <3>3, <3>6 DEF L!Change
  <2> QED BY <2>1, <2>2, <2>3, <2>10, <2>11, <1>1, <1>2 DEF L!Pop, L!Exists, L!Answers
<1> QED BY <1>3, <1>4

-----------------------------------------------------------------------------
(* The array of constants.                                                 *)

\* Values written over the first cells of a block, or over one of them.
LEMMA PutFirst ==
  ASSUME NEW S, NEW s \in Seq(S), NEW new \in Seq(S), Len(new) <= Len(s)
  PROVE  /\ Len(Put(s, 1, new)) = Len(s)
         /\ \A k \in 1..Len(new) : Put(s, 1, new)[k] = new[k]
<1> DEFINE t == Put(s, 1, new)
<1>1. 1 \in Nat \ {0} /\ 1 + Len(new) <= Len(s) + 1 /\ Len(new) \in Nat /\ Len(s) \in Nat
  OBVIOUS
<1>2. /\ t \in Seq(S) /\ Len(t) = Len(s)
      /\ \A k \in 1..Len(s) :
           /\ k < 1 => t[k] = s[k]
           /\ (k >= 1 /\ k < 1 + Len(new)) => t[k] = new[k - 1 + 1]
           /\ k >= 1 + Len(new) => t[k] = s[k]
  BY <1>1, PutFacts
<1> HIDE DEF t
<1>3. ASSUME NEW k \in 1..Len(new) PROVE t[k] = new[k]
  <2>1. k \in 1..Len(s) /\ k >= 1 /\ k < 1 + Len(new) /\ k - 1 + 1 = k
    BY <1>1
  <2> QED BY <2>1, <1>2
<1> QED BY <1>2, <1>3 DEF t

\* A value written over one cell of a block.
LEMMA PutOne ==
  ASSUME NEW S, NEW s \in Seq(S), NEW e \in S, NEW at \in Nat \ {0}, at <= Len(s)
  PROVE  /\ Len(Put(s, at, <<e>>)) = Len(s) /\ Put(s, at, <<e>>)[at] = e
         /\ \A k \in 1..(at - 1) : Put(s, at, <<e>>)[k] = s[k]
<1> DEFINE new == <<e>>
           t == Put(s, at, new)
<1>1. new \in Seq(S) /\ Len(new) = 1 /\ new[1] = e
  OBVIOUS
<1> HIDE DEF new
<1>2. at + Len(new) <= Len(s) + 1 /\ Len(s) \in Nat
  BY <1>1
<1>3. /\ t \in Seq(S) /\ Len(t) = Len(s)
      /\ \A k \in 1..Len(s) :
           /\ k < at => t[k] = s[k]
           /\ (k >= at /\ k < at + Len(new)) => t[k] = new[k - at + 1]
           /\ k >= at + Len(new) => t[k] = s[k]
  BY <1>1, <1>2, PutFacts, ZenonT(30)
<1> HIDE DEF t
<1>4. t[at] = e
  <2>1. at \in 1..Len(s) /\ at >= at /\ at < at + Len(new) /\ at - at + 1 = 1
    BY <1>1, <1>2
  <2> QED BY <2>1, <1>1, <1>3
<1>5. ASSUME NEW k \in 1..(at - 1) PROVE t[k] = s[k]
  <2>1. k \in 1..Len(s) /\ k < at
    BY <1>2
  <2> QED BY <2>1, <1>3
<1> QED BY <1>3, <1>4, <1>5 DEF t, new

\* A heap in which one cell is written.
Wrote(h, to, at, e, g) == Overwritten(h, to, at, <<e>>, g)

\* Writing one cell of a block of a sound heap.
LEMMA CopyOne ==
  ASSUME NEW h, Sound(h), NEW to \in DOMAIN h.memory, NEW e \in Values, NEW at \in Nat \ {0},
         at <= Len(h.memory[to])
  PROVE  Wrote(h, to, at, e, memcpy(h, to, at, <<e>>))
<1> DEFINE new == <<e>>
<1>1. new \in Seq(Values) /\ Len(new) = 1
  OBVIOUS
<1>2. h.memory[to] \in Seq(Values)
  BY DEF Sound, Fits, BlockFits
<1> HIDE DEF new
<1> DEFINE s == h.memory[to]
           g == memcpy(h, to, at, new)
<1>3. s \in Seq(Values) /\ at + Len(new) <= Len(s) + 1 /\ Len(s) \in Nat
  <2> HIDE DEF s
  <2> QED BY <1>1, <1>2 DEF s
<1> HIDE DEF s
<1>4. at + Len(new) <= Len(h.memory[to]) + 1
  BY <1>3 DEF s
<1>5. Overwritten(h, to, at, new, g)
  BY <1>1, <1>4, CopyFacts
<1> HIDE DEF g
<1> QED BY <1>5 DEF g, new, Wrote

\* r is what block became when it was given size cells.
Moves(h, block, size, r) ==
  /\ Sound(r.heap) /\ r.at \in Blocks \ DOMAIN h.memory
  /\ DOMAIN r.heap.memory = (DOMAIN h.memory \ {block}) \cup {r.at}
  /\ \A b \in DOMAIN h.memory \ {block} : r.heap.memory[b] = h.memory[b]
  /\ Len(r.heap.memory[r.at]) >= size
  /\ block # NULL =>
       \A k \in 1..Len(h.memory[block]) :
         k <= size => r.heap.memory[r.at][k] = h.memory[block][k]

\* An array is moved to a block that has room, and its values with it.
LEMMA ReallocateMoves ==
  ASSUME NEW h, Sound(h), ~h.panicked, NEW block, block = NULL \/ block \in DOMAIN h.memory,
         NEW size \in Nat \ {0}
  PROVE  LET r == reallocate_memory(h, block, size) IN r.heap.panicked \/ Moves(h, block, size, r)
<1> DEFINE r == reallocate_memory(h, block, size)
           taken == allocate_memory(h, size)
           old == h.memory[block]
           n == Min({Len(old), size})
           moving == SubSeq(old, 1, n)
           g == memcpy(taken.heap, taken.at, 1, moving)
           f == free_memory(g, block)
<1>1. taken.heap.panicked \/ Gains(h, taken, size)
  BY AllocationGains
<1>2. taken.at \in {taken.at} /\ NULL \notin DOMAIN h.memory
  BY NullIsNoBlock DEF Sound, Fits
<1>3. CASE block = NULL \/ taken.heap.panicked
  <2>1. r = taken
    BY <1>3 DEF reallocate_memory
  <2> HIDE DEF r, taken
  <2>2. CASE taken.heap.panicked
    BY <2>1, <2>2 DEF r
  <2>3. CASE ~taken.heap.panicked
    <3>1. block = NULL /\ Gains(h, taken, size)
      BY <2>3, <1>1, <1>3
    <3> QED BY <2>1, <3>1, <1>2 DEF Gains, Moves, r
  <2> QED BY <2>2, <2>3
<1>4. CASE block # NULL /\ ~taken.heap.panicked
  <2>1. r.at = taken.at /\ r.heap = f
    <3>1. allocate_memory(h, size) = [at |-> taken.at, heap |-> taken.heap]
      BY <1>1, <1>4 DEF allocate_memory, TakeBlock
    <3> QED BY <3>1, <1>4 DEF reallocate_memory
  <2> HIDE DEF r, taken
  <2>2. /\ Sound(taken.heap) /\ taken.at \in Blocks /\ taken.at \notin DOMAIN h.memory
        /\ DOMAIN taken.heap.memory = DOMAIN h.memory \cup {taken.at}
        /\ \A b \in DOMAIN h.memory : taken.heap.memory[b] = h.memory[b]
        /\ Len(taken.heap.memory[taken.at]) \in Nat /\ Len(taken.heap.memory[taken.at]) >= size
    BY <1>1, <1>4 DEF Gains
  <2>3. block \in DOMAIN h.memory /\ block # taken.at
    BY <2>2, <1>4
  <2>4. taken.heap.memory[taken.at] \in Seq(Values) /\ old \in Seq(Values)
    BY <2>2, <2>3 DEF Sound, Fits, BlockFits
  <2> DEFINE s == taken.heap.memory[taken.at]
  <2> HIDE DEF s, old
  <2>5. n \in Nat /\ n <= Len(old) /\ n <= size /\ \A k \in 1..Len(old) : k <= size => k <= n
    <3>1. Len(old) \in Nat
      BY <2>4
    <3>2. {Len(old), size} \in SUBSET Nat /\ {Len(old), size} # {}
      BY <3>1
    <3>3. n \in {Len(old), size} /\ \A m \in {Len(old), size} : n <= m
      BY <3>2, MinFacts
    <3> HIDE DEF n
    <3> QED BY <3>1, <3>3
  <2> HIDE DEF n
  <2>6. moving \in Seq(Values) /\ Len(moving) = n /\ \A k \in 1..n : moving[k] = old[k]
    BY <2>4, <2>5
  <2> HIDE DEF moving
  <2>7. s \in Seq(Values) /\ 1 + Len(moving) <= Len(s) + 1 /\ Len(s) \in Nat /\ Len(s) >= size
    BY <2>2, <2>4, <2>5, <2>6 DEF s
  <2>8. /\ Sound(g) /\ DOMAIN g.memory = DOMAIN taken.heap.memory
        /\ \A c \in DOMAIN taken.heap.memory \ {taken.at} : g.memory[c] = taken.heap.memory[c]
        /\ g.memory[taken.at] = Put(s, 1, moving)
    <3>1. taken.at \in DOMAIN taken.heap.memory /\ 1 \in Nat \ {0}
      BY <2>2
    <3> QED BY <3>1, <2>2, <2>6, <2>7, CopyFacts DEF s, Overwritten
  <2> DEFINE t == Put(s, 1, moving)
  <2>9. Len(t) = Len(s) /\ \A k \in 1..n : t[k] = old[k]
    <3>1. Len(moving) <= Len(s)
      BY <2>7, <2>6, <2>5
    <3>2. Len(t) = Len(s) /\ \A k \in 1..Len(moving) : t[k] = moving[k]
      BY <3>1, <2>6, <2>7, PutFirst
    <3> HIDE DEF t
    <3> QED BY <3>2, <2>6
  <2> HIDE DEF t, g
  <2>10. f.panicked \/ Loses(g, f, block)
    BY <2>2, <2>3, <2>8, FreeLoses
  <2> HIDE DEF f
  <2>11. CASE f.panicked
    BY <2>1, <2>11 DEF r
  <2>12. CASE ~f.panicked
    <3>1. /\ Sound(f) /\ DOMAIN f.memory = DOMAIN g.memory \ {block}
          /\ \A c \in DOMAIN g.memory \ {block} : f.memory[c] = g.memory[c]
      BY <2>10, <2>12 DEF Loses
    <3>2. DOMAIN f.memory = (DOMAIN h.memory \ {block}) \cup {taken.at}
      BY <3>1, <2>2, <2>3, <2>8
    <3>3. \A b \in DOMAIN h.memory \ {block} : f.memory[b] = h.memory[b]
      BY <3>1, <2>2, <2>8
    <3>4. f.memory[taken.at] = t
      BY <3>1, <2>2, <2>3, <2>8 DEF t
    <3>5. Len(f.memory[taken.at]) >= size
      BY <3>4, <2>7, <2>9
    <3>6. \A k \in 1..Len(old) : k <= size => f.memory[taken.at][k] = old[k]
      <4>1. \A k \in 1..Len(old) : k <= size => k \in 1..n
        BY <2>4, <2>5
      <4> QED BY <4>1, <3>4, <2>9
    <3> QED BY <3>1, <3>2, <3>3, <3>5, <3>6, <2>1, <2>2 DEF Moves, r, old
  <2> QED BY <2>11, <2>12
<1> QED BY <1>3, <1>4

\* The array of constants moves, and no Vec is the worse for it.
LEMMA HeldConstants ==
  ASSUME NEW h, NEW vs, NEW c, Held(h, vs, c), NEW g, Sound(g), NEW d, ConstantsFit(g, d),
         d.values # NULL, DOMAIN g.memory = (DOMAIN h.memory \ {c.values}) \cup {d.values},
         d.values \notin DOMAIN h.memory \ {c.values},
         \A b \in DOMAIN h.memory \ {c.values} : g.memory[b] = h.memory[b]
  PROVE  Held(g, vs, d) /\ ListsOf(g, vs) = ListsOf(h, vs)
<1> DEFINE kept == DOMAIN h.memory \ {c.values}
<1>1. /\ vs \in [Vecs -> Vectors \cup {NULL}]
      /\ \A w \in Vecs : vs[w] # NULL => VecFits(h, vs[w])
      /\ DOMAIN h.memory = ({StartOf(vs[w]) : w \in Vecs} \cup {c.values}) \ {NULL}
      /\ \A w, u \in Vecs : w # u /\ StartOf(vs[w]) # NULL => StartOf(vs[w]) # StartOf(vs[u])
      /\ \A w \in Vecs : StartOf(vs[w]) # NULL => StartOf(vs[w]) # c.values
  BY DEF Held
<1>2. kept = {StartOf(vs[w]) : w \in Vecs} \ {NULL}
  BY <1>1
<1>3. /\ DOMAIN g.memory = kept \cup {d.values} /\ d.values \notin kept
      /\ \A b \in kept : g.memory[b] = h.memory[b]
  OBVIOUS
<1> HIDE DEF kept
<1>4. ASSUME NEW w \in Vecs, vs[w] # NULL
      PROVE  VecFits(g, vs[w]) /\ Cells(g, vs[w]) = Cells(h, vs[w])
  <2>1. VecFits(h, vs[w]) /\ StartOf(vs[w]) = vs[w].start
    BY <1>1, <1>4 DEF StartOf
  <2>2. vs[w].start # NULL => vs[w].start \in DOMAIN g.memory /\ g.memory[vs[w].start] = h.memory[vs[w].start]
    BY <2>1, <1>2, <1>3
  <2>3. VecFits(g, vs[w])
    BY <2>1, <2>2 DEF VecFits
  <2>4. Cells(g, vs[w]) = Cells(h, vs[w])
    BY <2>2 DEF Cells
  <2> QED BY <2>3, <2>4
<1>5. DOMAIN g.memory = ({StartOf(vs[w]) : w \in Vecs} \cup {d.values}) \ {NULL}
  BY <1>2, <1>3
<1>6. \A w \in Vecs : StartOf(vs[w]) # NULL => StartOf(vs[w]) # d.values
  BY <1>2, <1>3
<1>7. Held(g, vs, d)
  BY <1>1, <1>4, <1>5, <1>6 DEF Held
<1>8. ListsOf(g, vs) = ListsOf(h, vs)
  BY <1>4 DEF ListsOf
<1> QED BY <1>7, <1>8

\* A constant is written: no Vec notices, unless the process panics.
LEMMA ConstantSteps ==
  ASSUME VecInv, NEW value \in Literals, write_value_array(value)
  PROVE  VecInv' /\ (L!End \/ UNCHANGED <<lists, answer, heap.panicked>>)
<1> DEFINE c == constants
           n == c.count
           full == c.capacity < n + 1
           cap == IF full THEN grow_capacity(c.capacity) ELSE c.capacity
           taken == IF full THEN reallocate_memory(heap, c.values, cap)
                    ELSE [heap |-> heap, at |-> c.values]
           kept == DOMAIN heap.memory \ {c.values}
<1>1. /\ ~heap.panicked
      /\ IF taken.heap.panicked THEN Panics
         ELSE /\ heap' = memcpy(taken.heap, taken.at, n + 1, <<value>>)
              /\ constants' = [values |-> taken.at, count |-> n + 1, capacity |-> cap]
              /\ UNCHANGED <<vecs, answer>>
  BY DEF write_value_array
<1>2. /\ Sound(heap) /\ ConstantsFit(heap, c) /\ heap.panicked \in BOOLEAN /\ lists = ListsOf(heap, vecs)
      /\ Held(heap, vecs, c)
  BY FitsTypes DEF VecInv, Held, lists, ListsOf, Sound
<1>3. n \in Nat /\ c.capacity \in Nat /\ n <= c.capacity
  BY <1>2 DEF ConstantsFit, NoConstants
<1>4. c.values # NULL =>
        /\ c.values \in DOMAIN heap.memory /\ c.capacity >= 1
        /\ heap.memory[c.values] \in Seq(Values)
        /\ c.capacity <= Len(heap.memory[c.values])
        /\ \A ix \in 1..n : heap.memory[c.values][ix] \in Literals
  <2>1. CASE c = NoConstants
    BY <2>1 DEF NoConstants
  <2>2. CASE c # NoConstants
    BY <2>2, <1>2 DEF ConstantsFit, Sound, Fits, BlockFits
  <2> QED BY <2>1, <2>2
<1>5. c.values = NULL => n = 0 /\ c.capacity = 0
  <2>1. CASE c = NoConstants
    BY <2>1 DEF NoConstants
  <2>2. CASE c # NoConstants
    BY <2>2, <1>2, NullIsNoBlock DEF ConstantsFit
  <2> QED BY <2>1, <2>2
<1> HIDE DEF c, n, full
<1>6. cap \in Nat \ {0} /\ cap >= n + 1
  <2>1. CASE full
    <3>1. grow_capacity(c.capacity) \in Nat \ {0} /\ grow_capacity(c.capacity) > c.capacity
      BY <1>3, GrowsCapacity
    <3> QED BY <2>1, <3>1, <1>3
  <2>2. CASE ~full
    BY <2>2, <1>3 DEF full
  <2> QED BY <2>1, <2>2
<1>7. CASE taken.heap.panicked
  <2>1. Panics
    BY <1>1, <1>7
  <2> QED BY <2>1, <1>1, PanicsEnd
<1>8. CASE ~taken.heap.panicked
  <2> DEFINE g == taken.heap
             at == taken.at
             s == g.memory[at]
  <2>1. /\ Sound(g) /\ at \in Blocks /\ at \in DOMAIN g.memory /\ at \notin kept
        /\ DOMAIN g.memory = kept \cup {at} /\ \A b \in kept : g.memory[b] = heap.memory[b]
        /\ cap <= Len(s) /\ \A ix \in 1..n : s[ix] \in Literals
    <3>1. CASE full
      <4>1. taken = reallocate_memory(heap, c.values, cap)
        BY <3>1
      <4> HIDE DEF taken, cap
      <4>2. c.values = NULL \/ c.values \in DOMAIN heap.memory
        BY <1>4
      <4>3. /\ Sound(g) /\ at \in Blocks \ DOMAIN heap.memory
            /\ DOMAIN g.memory = kept \cup {at} /\ \A b \in kept : g.memory[b] = heap.memory[b]
            /\ Len(g.memory[at]) >= cap
            /\ c.values # NULL =>
                 \A k \in 1..Len(heap.memory[c.values]) :
                   k <= cap => g.memory[at][k] = heap.memory[c.values][k]
        <5> DEFINE r == reallocate_memory(heap, c.values, cap)
        <5>1. Sound(heap) /\ ~heap.panicked /\ cap \in Nat \ {0}
          BY <1>1, <1>2, <1>6
        <5>2. r.heap.panicked \/ Moves(heap, c.values, cap, r)
          BY <5>1, <4>2, ReallocateMoves
        <5> HIDE DEF r
        <5> QED BY <5>2, <4>1, <1>8 DEF r, Moves, kept
      <4>4. ASSUME NEW ix \in 1..n PROVE s[ix] \in Literals
        <5>1. c.values # NULL
          BY <1>3, <1>5
        <5>2. ix \in 1..Len(heap.memory[c.values]) /\ ix <= cap
          BY <5>1, <1>3, <1>4, <1>6
        <5> QED BY <5>1, <5>2, <4>3, <1>4
      <4>5. Len(s) \in Nat
        BY <4>3 DEF Sound, Fits, BlockFits
      <4> QED BY <4>3, <4>4, <4>5, <1>6
    <3>2. CASE ~full
      <4>1. g = heap /\ at = c.values /\ cap = c.capacity
        BY <3>2
      <4>2. c.values # NULL
        BY <3>2, <1>3, <1>5 DEF full
      <4>3. c.values \in Blocks
        BY <4>2, <1>2, <1>4 DEF Sound, Fits
      <4> HIDE DEF g, at, cap
      <4> QED BY <4>1, <4>2, <4>3, <1>2, <1>4
    <3> QED BY <3>1, <3>2
  <2>2. heap' = memcpy(g, at, n + 1, <<value>>) /\ vecs' = vecs /\ answer' = answer
          /\ constants' = [values |-> at, count |-> n + 1, capacity |-> cap]
    BY <1>1, <1>8
  <2>3. g.panicked = FALSE
    <3> HIDE DEF g
    <3>1. g.panicked \in BOOLEAN
      BY <2>1, FitsTypes DEF Sound
    <3> QED BY <3>1, <1>8 DEF g
  <2> HIDE DEF taken, g, at, kept, cap
  <2>4. s \in Seq(Values)
    BY <2>1 DEF Sound, Fits, BlockFits
  <2> DEFINE new == <<value>>
             t == Put(s, n + 1, new)
  <2>5. new \in Seq(Values) /\ Len(new) = 1 /\ new[1] = value /\ value \in Values
    BY DEF Values
  <2> HIDE DEF new, s
  <2>6. n + 1 \in Nat \ {0} /\ (n + 1) + Len(new) <= Len(s) + 1
    BY <2>1, <2>4, <2>5, <1>3, <1>6
  <2> DEFINE m == n + 1
             f == memcpy(g, at, m, new)
  <2>7. m \in Nat \ {0} /\ m + Len(new) <= Len(s) + 1 /\ m = n + 1 /\ m <= Len(s) /\ Len(s) \in Nat
    BY <2>4, <2>5, <2>6
  <2> HIDE DEF m
  <2>8. /\ Sound(f) /\ f.panicked = g.panicked /\ DOMAIN f.memory = DOMAIN g.memory
        /\ \A b \in DOMAIN g.memory \ {at} : f.memory[b] = g.memory[b]
        /\ f.memory[at] = Put(s, m, new)
    <3>1. Sound(g) /\ at \in DOMAIN g.memory /\ value \in Values /\ m <= Len(g.memory[at])
      BY <2>1, <2>5, <2>7 DEF s
    <3>2. f = memcpy(g, at, m, <<value>>)
      BY DEF new
    <3> HIDE DEF f
    <3>3. Wrote(g, at, m, value, f)
      BY <3>1, <3>2, <2>7, CopyOne
    <3> QED BY <3>3 DEF s, new, Wrote, Overwritten
  <2>9. heap' = f
    BY <2>2, <2>7 DEF new
  <2> HIDE DEF f
  <2> DEFINE u == Put(s, m, new)
  <2>10. Len(u) = Len(s) /\ \A ix \in 1..m : u[ix] \in Literals
    <3>1. Len(u) = Len(s) /\ u[m] = value /\ \A k \in 1..(m - 1) : u[k] = s[k]
      <4>1. u = Put(s, m, <<value>>)
        BY DEF new
      <4> HIDE DEF u
      <4> QED BY <4>1, <2>4, <2>5, <2>7, PutOne
    <3> HIDE DEF u
    <3>2. ASSUME NEW ix \in 1..m PROVE u[ix] \in Literals
      <4>1. CASE ix < m
        <5>1. ix \in 1..n /\ ix \in 1..(m - 1)
          BY <4>1, <2>7, <1>3
        <5> QED BY <5>1, <3>1, <2>1
      <4>2. CASE ix = m
        BY <4>2, <3>1
      <4> QED BY <4>1, <4>2, <2>7
    <3> QED BY <3>1, <3>2
  <2> HIDE DEF u
  <2> DEFINE d == [values |-> at, count |-> n + 1, capacity |-> cap]
  <2>11. d.values = at /\ d.count = m /\ d.capacity = cap /\ d \in [values : Blocks, count : Nat, capacity : Nat]
    BY <2>1, <2>7, <1>6
  <2>12. constants' = d
    BY <2>2
  <2> HIDE DEF d
  <2>13. ConstantsFit(f, d)
    <3>1. f.memory[at] = u
      BY <2>8 DEF u
    <3>2. d.count <= d.capacity /\ d.capacity >= 1
      BY <2>7, <2>11, <1>6
    <3>3. d.capacity <= Len(f.memory[d.values])
      BY <3>1, <2>1, <2>10, <2>11
    <3>4. \A ix \in 1..d.count : f.memory[d.values][ix] \in Literals
      BY <3>1, <2>10, <2>11
    <3>5. d.values \in DOMAIN f.memory
      BY <2>1, <2>8, <2>11
    <3> QED BY <3>2, <3>3, <3>4, <3>5, <2>11 DEF ConstantsFit
  <2>14. Held(f, vecs, d) /\ ListsOf(f, vecs) = ListsOf(heap, vecs)
    <3>1. d.values # NULL
      BY <2>1, <2>11, NullIsNoBlock
    <3>2. /\ DOMAIN f.memory = (DOMAIN heap.memory \ {c.values}) \cup {d.values}
          /\ d.values \notin DOMAIN heap.memory \ {c.values}
          /\ \A b \in DOMAIN heap.memory \ {c.values} : f.memory[b] = heap.memory[b]
      BY <2>1, <2>8, <2>11 DEF kept
    <3> QED BY <3>1, <3>2, <2>8, <2>13, <1>2, HeldConstants
  <2>15. VecInv'
    BY <2>2, <2>9, <2>12, <2>14 DEF VecInv
  <2>16. lists' = lists
    <3>1. lists' = ListsOf(heap', vecs')
      BY DEF lists, ListsOf
    <3> QED BY <3>1, <2>2, <2>9, <2>14, <1>2
  <2>17. heap'.panicked = heap.panicked
    BY <2>3, <2>8, <2>9, <1>1, <1>2
  <2> QED BY <2>2, <2>15, <2>16, <2>17
<1> QED BY <1>7, <1>8

-----------------------------------------------------------------------------
(* The theorems of the vectors.                                            *)

\* Asking for the length, comparing two vectors, and a wrong argument.
LEMMA LengthSteps ==
  ASSUME VecInv, NEW v \in Vecs, native_vec_length(v)
  PROVE  VecInv' /\ L!Length(v)
<1>1. ~heap.panicked /\ vecs[v] # NULL /\ Tell(<<"len", vec_len(vecs[v])>>)
  BY DEF native_vec_length, Exists
<1>2. lists[v] # NULL /\ Len(lists[v]) = vec_len(vecs[v])
  BY <1>1, ListFacts
<1>3. VecInv' /\ L!Answers(<<"len", Len(lists[v])>>) /\ lists' = lists
  BY <1>1, <1>2, TellSteps
<1> QED BY <1>1, <1>2, <1>3 DEF L!Length, L!Exists

\* Comparing two vectors is comparing their sequences.
LEMMA EqualSteps ==
  ASSUME VecInv, NEW v \in Vecs, NEW w \in Vecs, vec_equal(v, w)
  PROVE  VecInv' /\ L!Equal(v, w)
<1>1. ~heap.panicked /\ vecs[v] # NULL /\ vecs[w] # NULL
  BY DEF vec_equal, Exists
<1>2. /\ lists[v] # NULL /\ lists[v] = Cells(heap, vecs[v])
      /\ lists[w] # NULL /\ lists[w] = Cells(heap, vecs[w])
  BY <1>1, ListFacts
<1>3. (v = w \/ Cells(heap, vecs[v]) = Cells(heap, vecs[w])) = (lists[v] = lists[w])
  BY <1>2
<1>4. Tell(<<"equal", lists[v] = lists[w]>>)
  BY <1>3 DEF vec_equal
<1>5. VecInv' /\ L!Answers(<<"equal", lists[v] = lists[w]>>) /\ lists' = lists
  BY <1>1, <1>4, TellSteps
<1> QED BY <1>1, <1>2, <1>5 DEF L!Equal, L!Exists

\* A wrong argument is refused.
LEMMA WrongSteps ==
  ASSUME VecInv, NEW v \in Vecs, WrongArguments(v)
  PROVE  VecInv' /\ L!Refuse
<1>1. ~heap.panicked /\ Tell(<<"error">>)
  BY DEF WrongArguments, Exists, Refuses
<1>2. VecInv' /\ L!Answers(<<"error">>) /\ lists' = lists
  BY <1>1, TellSteps
<1> QED BY <1>1, <1>2 DEF L!Refuse

\* What a step of the vectors may be for the sequences: one of theirs, or nothing.
ListStep == L!Next \/ UNCHANGED L!vars

\* The steps on one list that is there, on one that is not, and the others.
LEMMA OnOneList ==
  ASSUME NEW v \in Vecs, ~heap.panicked, lists[v] # NULL,
         \/ L!First(v) \/ L!LastOf(v) \/ L!Length(v) \/ L!Pop(v) \/ L!Clear(v) \/ L!Mirror(v)
         \/ L!Release(v)
         \/ \E w \in Vecs : L!Equal(v, w) \/ L!Extend(v, w)
         \/ \E e \in Elements : L!Push(v, e)
         \/ \E ix \in 0..Len(lists[v]) :
              \/ L!Get(v, ix) \/ L!Delete(v, ix)
              \/ \E e \in Elements : L!Set(v, ix, e) \/ L!Insert(v, ix, e)
  PROVE  ListStep
<1>1. L!Exists(v)
  BY DEF L!Exists
<1> QED BY <1>1 DEF L!Next, ListStep

\* A step that creates a list is a step of Lists.
LEMMA OnNewList ==
  ASSUME NEW v \in Vecs,
         \/ \E list \in BoundedSeq(Elements, LiteralMax) : L!New(v, list)
         \/ \E w, u \in Vecs : L!Sum(v, w, u)
  PROVE  ListStep
<1>1. ~L!Exists(v)
  BY DEF L!Exists, L!New, L!Sum
<1>2. L!BoundedSeq(Elements, LiteralMax) = BoundedSeq(Elements, LiteralMax)
  BY DEF L!BoundedSeq, L!SeqOf, BoundedSeq, SeqOf
<1> QED BY <1>1, <1>2 DEF L!Next, ListStep

\* The literals are sequences, the empty one among them.
LEMMA LiteralFacts ==
  /\ <<>> \in BoundedSeq(Elements, LiteralMax)
  /\ BoundedSeq(Elements, LiteralMax) \subseteq Seq(Elements)
<1>1. <<>> \in [1..0 -> Elements] /\ 0 \in 0..LiteralMax
  BY LiteralsAreBounded
<1>2. <<>> \in BoundedSeq(Elements, LiteralMax)
  BY <1>1 DEF BoundedSeq, SeqOf
<1>3. ASSUME NEW s \in BoundedSeq(Elements, LiteralMax) PROVE s \in Seq(Elements)
  <2>1. PICK n \in 0..LiteralMax : s \in [1..n -> Elements]
    BY DEF BoundedSeq, SeqOf
  <2> QED BY <2>1, LiteralsAreBounded
<1> QED BY <1>2, <1>3

\* Each step of the vectors keeps the invariant, and is a step of the sequences.
LEMMA VecSteps ==
  ASSUME VecInv, [VecNext]_vecVars
  PROVE  VecInv' /\ ListStep
<1>1. CASE UNCHANGED vecVars
  BY <1>1 DEF vecVars, VecInv, ListStep, L!vars, lists
<1>2. CASE \E value \in Literals : write_value_array(value)
  <2>1. PICK value \in Literals : write_value_array(value)
    BY <1>2
  <2>2. VecInv' /\ (L!End \/ UNCHANGED <<lists, answer, heap.panicked>>)
    BY <2>1, ConstantSteps
  <2> QED BY <2>2 DEF ListStep, L!Next, L!vars
<1>3. CASE heap.panicked /\ UNCHANGED vecVars
  BY <1>1, <1>3
<1>4. ASSUME NEW v \in Vecs,
             \/ native_vec_new(v)
             \/ \E elements \in BoundedSeq(Elements, LiteralMax) : op_vector_new(v, elements)
             \/ \E w, u \in Vecs : vec_add(v, w, u)
      PROVE  VecInv' /\ ListStep
  <2>1. CASE native_vec_new(v)
    <3>1. VecInv' /\ (L!End \/ L!New(v, <<>>))
      BY <2>1, NewVecSteps
    <3>2. L!End => ListStep
      BY DEF L!Next, ListStep
    <3> QED BY <3>1, <3>2, LiteralFacts, OnNewList
  <2>2. ASSUME NEW elements \in BoundedSeq(Elements, LiteralMax), op_vector_new(v, elements)
        PROVE  VecInv' /\ ListStep
    <3>1. VecInv' /\ (L!End \/ L!New(v, elements))
      BY <2>2, LiteralFacts, LiteralSteps
    <3>2. L!End => ListStep
      BY DEF L!Next, ListStep
    <3> QED BY <3>1, <3>2, OnNewList
  <2>3. ASSUME NEW w \in Vecs, NEW u \in Vecs, vec_add(v, w, u)
        PROVE  VecInv' /\ ListStep
    <3>1. VecInv' /\ (L!End \/ L!Sum(v, w, u))
      BY <2>3, AddSteps
    <3>2. L!End => ListStep
      BY DEF L!Next, ListStep
    <3> QED BY <3>1, <3>2, OnNewList
  <2> QED BY <1>4, <2>1, <2>2, <2>3
<1>5. ASSUME NEW v \in Vecs, Exists(v),
             \/ free_vec(v) \/ native_vec_pop(v) \/ native_vec_first(v) \/ native_vec_last(v)
             \/ native_vec_length(v) \/ native_vec_clear(v) \/ native_vec_reverse(v)
             \/ WrongArguments(v)
             \/ \E e \in Elements : native_vec_push(v, e)
             \/ \E w \in Vecs : native_vec_extend(v, w) \/ vec_equal(v, w)
      PROVE  VecInv' /\ ListStep
  <2>1. ~heap.panicked /\ lists[v] # NULL
    BY <1>5, ListFacts DEF Exists
  <2>2. L!End \/ L!Refuse => ListStep
    BY DEF L!Next, ListStep
  <2>3. CASE free_vec(v)
    <3>1. VecInv' /\ (L!End \/ L!Release(v))
      BY <2>3, FreeSteps
    <3> QED BY <3>1, <2>1, <2>2, OnOneList
  <2>4. CASE native_vec_pop(v)
    <3>1. VecInv' /\ (L!End \/ L!Pop(v))
      BY <2>4, PopSteps
    <3> QED BY <3>1, <2>1, <2>2, OnOneList
  <2>5. CASE native_vec_first(v)
    <3>1. VecInv' /\ (L!End \/ L!First(v))
      BY <2>5, FirstSteps
    <3> QED BY <3>1, <2>1, <2>2, OnOneList
  <2>6. CASE native_vec_last(v)
    <3>1. VecInv' /\ (L!End \/ L!LastOf(v))
      BY <2>6, LastSteps
    <3> QED BY <3>1, <2>1, <2>2, OnOneList
  <2>7. CASE native_vec_length(v)
    <3>1. VecInv' /\ L!Length(v)
      BY <2>7, LengthSteps
    <3> QED BY <3>1, <2>1, OnOneList
  <2>8. CASE native_vec_clear(v)
    <3>1. VecInv' /\ (L!End \/ L!Clear(v))
      BY <2>8, ClearSteps
    <3> QED BY <3>1, <2>1, <2>2, OnOneList
  <2>9. CASE native_vec_reverse(v)
    <3>1. VecInv' /\ (L!End \/ L!Mirror(v))
      BY <2>9, ReverseSteps
    <3> QED BY <3>1, <2>1, <2>2, OnOneList
  <2>10. CASE WrongArguments(v)
    BY <2>2, <2>10, WrongSteps
  <2>11. ASSUME NEW e \in Elements, native_vec_push(v, e)
         PROVE  VecInv' /\ ListStep
    <3>1. VecInv' /\ (L!End \/ L!Push(v, e))
      BY <2>11, PushSteps
    <3> QED BY <3>1, <2>1, <2>2, OnOneList
  <2>12. ASSUME NEW w \in Vecs, native_vec_extend(v, w)
         PROVE  VecInv' /\ ListStep
    <3>1. VecInv' /\ (L!End \/ L!Extend(v, w))
      BY <2>12, ExtendSteps
    <3> QED BY <3>1, <2>1, <2>2, OnOneList
  <2>13. ASSUME NEW w \in Vecs, vec_equal(v, w)
         PROVE  VecInv' /\ ListStep
    <3>1. VecInv' /\ L!Equal(v, w)
      BY <2>13, EqualSteps
    <3> QED BY <3>1, <2>1, OnOneList
  <2> QED BY <1>5, <2>3, <2>4, <2>5, <2>6, <2>7, <2>8, <2>9, <2>10, <2>11, <2>12, <2>13
<1>6. ASSUME NEW v \in Vecs, Exists(v), NEW ix \in -1..(vec_len(vecs[v]) + 1),
             \/ native_vec_get(v, ix) \/ native_vec_remove(v, ix)
             \/ \E e \in Elements : native_vec_set(v, ix, e) \/ native_vec_insert(v, ix, e)
      PROVE  VecInv' /\ ListStep
  <2>1. /\ ~heap.panicked /\ lists[v] # NULL /\ Len(lists[v]) \in Nat /\ vec_len(vecs[v]) \in Nat
        /\ ix \in Int
    <3>1. ~heap.panicked /\ lists[v] # NULL /\ Len(lists[v]) \in Nat /\ vec_len(vecs[v]) \in Nat
      BY <1>6, ListFacts DEF Exists
    <3> QED BY <3>1
  <2>2. L!End \/ L!Refuse => ListStep
    BY DEF L!Next, ListStep
  <2>3. L!Within(v, ix) => ix \in 0..Len(lists[v])
    BY <2>1 DEF L!Within
  <2>4. CASE native_vec_get(v, ix)
    <3>1. VecInv' /\ (L!Get(v, ix) \/ L!Refuse)
      BY <2>1, <2>4, GetSteps
    <3>2. L!Get(v, ix) => ix \in 0..Len(lists[v])
      BY <2>3 DEF L!Get
    <3> QED BY <3>1, <3>2, <2>1, <2>2, OnOneList
  <2>5. CASE native_vec_remove(v, ix)
    <3>1. VecInv' /\ (L!End \/ L!Delete(v, ix) \/ L!Refuse)
      BY <2>1, <2>5, RemoveSteps
    <3>2. L!Delete(v, ix) => ix \in 0..Len(lists[v])
      BY <2>3 DEF L!Delete
    <3> QED BY <3>1, <3>2, <2>1, <2>2, OnOneList
  <2>6. ASSUME NEW e \in Elements, native_vec_set(v, ix, e)
        PROVE  VecInv' /\ ListStep
    <3>1. VecInv' /\ (L!End \/ L!Set(v, ix, e) \/ L!Refuse)
      BY <2>1, <2>6, SetSteps
    <3>2. L!Set(v, ix, e) => ix \in 0..Len(lists[v])
      BY <2>3 DEF L!Set
    <3> QED BY <3>1, <3>2, <2>1, <2>2, OnOneList
  <2>7. ASSUME NEW e \in Elements, native_vec_insert(v, ix, e)
        PROVE  VecInv' /\ ListStep
    <3>1. VecInv' /\ (L!End \/ L!Insert(v, ix, e) \/ L!Refuse)
      BY <2>1, <2>7, InsertSteps
    <3>2. L!Insert(v, ix, e) => ix \in 0..Len(lists[v])
      BY DEF L!Insert
    <3> QED BY <3>1, <3>2, <2>1, <2>2, OnOneList
  <2> QED BY <1>6, <2>4, <2>5, <2>6, <2>7
<1>7. ASSUME NEW v \in Vecs,
             \/ free_vec(v) \/ native_vec_pop(v) \/ native_vec_first(v) \/ native_vec_last(v)
             \/ native_vec_length(v) \/ native_vec_clear(v) \/ native_vec_reverse(v)
             \/ WrongArguments(v)
             \/ \E e \in Elements : native_vec_push(v, e)
             \/ \E w \in Vecs : native_vec_extend(v, w) \/ vec_equal(v, w)
      PROVE  Exists(v)
  BY <1>7 DEF free_vec, native_vec_pop, native_vec_first, native_vec_last, native_vec_length,
              native_vec_clear, native_vec_reverse, WrongArguments, native_vec_push,
              native_vec_extend, vec_equal
<1>8. CASE VecNext
  BY <1>2, <1>3, <1>4, <1>5, <1>6, <1>7, <1>8 DEF VecNext
<1> QED BY <1>1, <1>8


\* The invariant holds in every state the vectors reach.
LEMMA VecInvariant == VecSpec => []VecInv
<1>1. VecInv /\ [VecNext]_vecVars => VecInv'
  BY VecSteps
<1> QED BY <1>1, VecStart, PTL DEF VecSpec

\* What the invariant says of the pointers and the elements.
LEMMA VecTypes == VecInv => VecTypeOK
<1> SUFFICES ASSUME VecInv PROVE VecTypeOK
  OBVIOUS
<1>1. /\ Sound(heap) /\ ConstantsFit(heap, constants)
      /\ \A v \in Vecs : vecs[v] # NULL => VecFits(heap, vecs[v])
  BY DEF VecInv, Held
<1>2. ASSUME NEW v \in Vecs, vecs[v] # NULL, vecs[v].start # NULL
      PROVE  LET vec == vecs[v]
             IN  /\ vec.start \in DOMAIN heap.memory
                 /\ vec.finish \in 0..vec.end /\ vec.end \in 1..Len(heap.memory[vec.start])
                 /\ ToSet(Cells(heap, vec)) \subseteq Elements
  <2> DEFINE vec == vecs[v]
             s == heap.memory[vec.start]
  <2>1. /\ vec \in Vectors /\ vec.start \in DOMAIN heap.memory
        /\ vec.finish <= vec.end /\ vec.end >= 1 /\ vec.end <= Len(s)
        /\ \A ix \in 1..vec.finish : s[ix] \in Elements
    BY <1>1, <1>2 DEF VecFits
  <2>2. s \in Seq(Values)
    BY <1>1, <2>1 DEF Sound, Fits, BlockFits
  <2>3. vec.finish \in Nat /\ vec.end \in Nat
    BY <2>1 DEF Vectors
  <2>4. Cells(heap, vec) \in Seq(Elements)
    BY <1>1, <1>2, CellsFacts
  <2>5. ToSet(Cells(heap, vec)) \subseteq Elements
    <3> DEFINE c == Cells(heap, vec)
    <3> HIDE DEF c
    <3> QED BY <2>4 DEF ToSet, c
  <2> HIDE DEF s
  <2>6. vec.finish \in 0..vec.end /\ vec.end \in 1..Len(s)
    BY <2>1, <2>2, <2>3
  <2> QED BY <2>1, <2>5, <2>6 DEF s
<1>3. ASSUME NEW v \in Vecs, vecs[v] # NULL, vecs[v].start = NULL PROVE vecs[v] = Empty
  BY <1>1, <1>3 DEF VecFits
<1>4. /\ constants.count \in 0..constants.capacity
      /\ constants.values # NULL =>
           \A ix \in 1..constants.count : heap.memory[constants.values][ix] \in Literals
  <2>1. CASE constants = NoConstants
    BY <2>1 DEF NoConstants
  <2>2. CASE constants # NoConstants
    BY <1>1, <2>2 DEF ConstantsFit
  <2> QED BY <2>1, <2>2
<1> QED BY <1>2, <1>3, <1>4 DEF VecTypeOK

\* What the invariant says of the blocks.
LEMMA VecBlocks == VecInv => BlocksAreHeldOnce
<1> SUFFICES ASSUME VecInv PROVE BlocksAreHeldOnce
  OBVIOUS
<1>1. /\ Sound(heap)
      /\ DOMAIN heap.memory = ({StartOf(vecs[v]) : v \in Vecs} \cup {constants.values}) \ {NULL}
      /\ \A v, w \in Vecs : v # w /\ StartOf(vecs[v]) # NULL => StartOf(vecs[v]) # StartOf(vecs[w])
      /\ \A v \in Vecs : StartOf(vecs[v]) # NULL => StartOf(vecs[v]) # constants.values
  BY DEF VecInv, Held
<1>2. PartsAreSound(heap)
  BY <1>1, SoundParts
<1>3. DOMAIN heap.memory = Holders \ {NULL}
  <2>1. \A b : b # NULL => (b \in {StartOf(vecs[v]) : v \in Vecs}
                            <=> b \in {vecs[v].start : v \in {v \in Vecs : vecs[v] # NULL}})
    BY DEF StartOf
  <2> QED BY <1>1, <2>1 DEF Holders
<1>4. \A v, w \in {v \in Vecs : vecs[v] # NULL} :
        v # w /\ vecs[v].start # NULL =>
          vecs[v].start # vecs[w].start /\ vecs[v].start # constants.values
  BY <1>1 DEF StartOf
<1> QED BY <1>2, <1>3, <1>4 DEF BlocksAreHeldOnce

\* A vector's elements are written cells of a used block of its capacity, and the
\* array of constants keeps its values (vec.c's pointers, write_value_array).
THEOREM VecTypeCorrect == VecSpec => []VecTypeOK
BY VecInvariant, VecTypes, PTL

\* Each used block has one holder, and the counts and lists of the parts agree
\* with them (allocate_memory, free_memory and reallocate_memory under vec.c).
THEOREM VecBlocksHeldOnce == VecSpec => []BlocksAreHeldOnce
BY VecInvariant, VecBlocks, PTL

\* The methods of a vector are those of a sequence of its own (type/src/vec.c over
\* vec.c and allocator.c), whatever else the heap is used for.
THEOREM VecImplementsLists == VecSpec => ImplementsLists
<1>1. VecInit => L!Init
  BY DEF VecInit, L!Init, lists, new_allocator
<1>2. VecInv /\ [VecNext]_vecVars => [L!Next]_(L!vars)
  BY VecSteps DEF ListStep
<1> QED BY <1>1, <1>2, VecInvariant, PTL DEF VecSpec, ImplementsLists, L!Spec
=============================================================================

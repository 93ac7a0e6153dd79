---------------------------- MODULE MemoryProofs ----------------------------
(***************************************************************************)
(* The memory of the runtime: where objects come from, and how they are    *)
(* found to be garbage.  For any number of threads, any capacity and any   *)
(* interleaving, the pool keeps each object in one place and implements    *)
(* ObjectPool, as long as the batches have one node and are taken while no *)
(* other call runs, or the clients take and release single objects.  For   *)
(* every set of addresses, of string contents and every stack depth, a     *)
(* collection frees exactly what it does not trace, and equal strings      *)
(* stay one object.                                                        *)
(***************************************************************************)
EXTENDS Pool, Gc, FiniteSetTheorems, SequenceTheorems, TLAPS

(***************************************************************************)
(* The pool                                                                *)
(***************************************************************************)

\* A non-empty set of naturals has a least member: strict inclusion is well-founded
\* on the finite sets 0..n-1.
LEMMA LeastMember ==
  ASSUME NEW S \in SUBSET Nat, S # {}
  PROVE  \E m \in S : \A n \in S : m <= n
<1> DEFINE T == {0..(n - 1) : n \in S}
<1>1. \A n \in S : 0..(n - 1) \in SUBSET Nat /\ IsFiniteSet(0..(n - 1))
  BY FS_Interval
<1>2. T # {} /\ T \subseteq FiniteSubsetsOf(Nat)
  BY <1>1 DEF FiniteSubsetsOf
<1>3. PICK U \in T : \A V \in T : ~ (<<V, U>> \in StrictSubsetOrdering(Nat))
  <2> HIDE DEF T
  <2> QED BY <1>2, FS_StrictSubsetOrderingWellFounded, WFMin
<1>4. PICK m \in S : U = 0..(m - 1)
  OBVIOUS
<1>5. ASSUME NEW n \in S, n < m PROVE FALSE
  <2>1. 0..(n - 1) \subseteq 0..(m - 1) /\ n \in (0..(m - 1)) \ (0..(n - 1))
    BY <1>5
  <2>2. <<0..(n - 1), U>> \in StrictSubsetOrdering(Nat)
    BY <2>1, <1>4 DEF StrictSubsetOrdering
  <2> QED BY <2>2, <1>3
<1> QED BY <1>5

-----------------------------------------------------------------------------
(* The inductive invariant.                                                *)

\* No element twice.
Distinct(s) == \A i, j \in 1..Len(s) : s[i] = s[j] => i = j

\* The list that starts at p, under the links nx.
IsList(nx, p, s) ==
  /\ s \in Seq(Nodes) /\ Distinct(s)
  /\ p = IF s = <<>> THEN NULL ELSE s[1]
  /\ \A k \in 1..Len(s) : nx[s[k]] = IF k = Len(s) THEN NULL ELSE s[k + 1]

\* Each head is the start of a list: neither is cut, nor closed on itself.
ListsInv ==
  /\ IsList(next, head["head"].ptr, Fresh)
  /\ IsList(next, head["free_list"].ptr, Freed)

\* Each node is in one list, or with one thread, which has it in one place.
Listed == Members(Fresh) \cup Members(Freed)
OwnersInv ==
  /\ Members(Fresh) \cap Members(Freed) = {}
  /\ \A t \in Threads :
       /\ Holds(t) \cap Listed = {}
       /\ \A u \in Threads : t # u => Holds(t) \cap Holds(u) = {}
       /\ held[t] \cap Members(cache[t]) = {}
       /\ held[t] \cap Members(run[t].objs) = {}
       /\ Members(cache[t]) \cap Members(run[t].objs) = {}
       /\ Distinct(cache[t]) /\ Distinct(run[t].objs)
  /\ \A n \in Nodes : n \in Listed \/ \E t \in Threads : n \in Holds(t)

\* A head a thread has read: the versions only grow, and a version is never used
\* twice, so an equal version means the same top.
IsBehind(old, top) == old.ver <= top.ver /\ (old.ver = top.ver => old = top)

\* A call that takes nodes.  What it will put in place of the top is the link of
\* that top, if the head has not moved since; a batch runs alone, and never asks
\* an empty list again with chunks of an earlier attempt at hand.
TakesInv(r) ==
  /\ r.op \in {"alloc", "alloc_batch"} /\ r.objs = <<>>
  /\ r.count >= 1 /\ (r.op = "alloc" => r.count = 1)
  /\ r.pc = "load" /\ r.op = "alloc" => r.chunks = <<>>
  /\ r.pc = "load" /\ r.chunks # <<>> => head[r.target].ptr # NULL
  /\ r.pc = "load_head" => r.chunks = <<>>
  /\ r.pc \in {"walk", "cas"} => IsBehind(r.old, head[r.target])
  /\ r.pc \in {"walk", "cas"} /\ r.op = "alloc_batch" => r.old.ptr # NULL /\ r.old = head[r.target]
  /\ r.pc = "cas" => /\ r.old.ptr # NULL /\ r.chunks = <<r.old.ptr>>
                     /\ head[r.target] = r.old => r.new = next[r.old.ptr]
  /\ r.pc = "count" => Len(r.chunks) \in IF r.op = "alloc" THEN {1} ELSE {0, 1}

\* A call that gives nodes back, one at a time: the one it is at, which no list
\* has yet, is linked to the top it has read.
GivesInv(r) ==
  /\ r.op \in {"free", "free_batch", "flush", "destroy"}
  /\ r.op = "free" \/ BatchSize = 1
  /\ r.op = "free" => r.pc # "link" /\ (r.pc = "count_free" => r.objs = <<>>) /\ Len(r.objs) <= 1
  /\ r.pc # "count_free" => r.objs # <<>>
  /\ r.pc \in {"load_free", "store", "cas_free"} => r.chunks = <<r.objs[1]>>
  /\ r.pc \in {"store", "cas_free"} => IsBehind(r.old, head["free_list"])
  /\ r.pc = "cas_free" => next[r.objs[1]] = r.old.ptr
  /\ r.pc = "count_free" => Len(r.chunks) = 1

\* What holds of a thread's call at each of its accesses.
CallInv(r) ==
  /\ r.pc = "idle" => r.objs = <<>>
  /\ r.pc \in {"load", "load_head", "walk", "cas", "count"} => TakesInv(r)
  /\ r.pc \in {"link", "load_free", "store", "cas_free", "count_free"} => GivesInv(r)
  /\ r.pc = "check" => r.op = "destroy" /\ r.objs = <<>>

RunInv == \A t \in Threads : CallInv(run[t]) /\ (cache[t] # <<>> => BatchSize = 1)

\* The calls that run alone do, and the pool is open or closing while one runs.
AloneInv ==
  /\ \A t \in Busy : run[t].op \in Calls \cup {"destroy"}
  /\ \A t \in Busy : run[t].op \in Alone \cup {"destroy"} => Busy = {t}
  /\ \A t \in Busy : run[t].op = "destroy" <=> pool = "closing"
  /\ pool \in {"destroyed", "aborted"} => Busy = {}

\* Threads between a compare-and-swap and the count of its node: the counters and
\* the lengths of the lists agree up to them.
Taken == {t \in Threads : run[t].pc = "count" /\ run[t].chunks # <<>>}
Given == {t \in Threads : run[t].pc = "count_free"}
CountInv ==
  /\ IsFiniteSet(Busy)
  /\ Len(Fresh) + Len(Freed) + alloc_cnt + Cardinality(Taken)
       = Capacity + free_cnt + Cardinality(Given)

\* The type of a call.
RunRecords ==
  [pc : {"idle", "load", "load_head", "walk", "cas", "count", "link", "load_free", "store",
         "cas_free", "count_free", "check"},
   op : {"none", "alloc", "free", "alloc_batch", "free_batch", "flush", "destroy"},
   target : {"head", "free_list"}, old : Pointer, new : Nodes \cup {NULL},
   chunks : Seq(Nodes), objs : Seq(Nodes), count : 0..Capacity]

\* The clients of the theorems below: they take and release single objects, or
\* batches of one node, which are taken while no other call runs.  A longer batch
\* loses nodes: the wrong end of it becomes the top (src/src/pool.c:253).
SingleNodes ==
  /\ "alloc_batch" \in Calls => "alloc_batch" \in Alone
  /\ BatchSize = 1 \/ Calls \subseteq {"alloc", "free"}

IInv == TypeOK /\ ListsInv /\ OwnersInv /\ RunInv /\ AloneInv /\ CountInv /\ AbortIffLeak

-----------------------------------------------------------------------------
(* The chains.                                                             *)

\* Follow, Reach and Chain of any links.
FollowOf(nx, p) ==
  LET node[k \in 0..Capacity] ==
        IF k = 0 THEN p ELSE IF node[k - 1] = NULL THEN NULL ELSE nx[node[k - 1]]
  IN  node
ReachOf(nx, p) == Cardinality({k \in 0..(Capacity - 1) : FollowOf(nx, p)[k] # NULL})
ChainOf(nx, p, n) == [k \in 1..Least(n, ReachOf(nx, p)) |-> FollowOf(nx, p)[k - 1]]

\* The first n + 1 nodes from p on, as the recursion gives them.
IsWalk(f, nx, p, n) ==
  f = [k \in 0..n |-> IF k = 0 THEN p ELSE IF f[k - 1] = NULL THEN NULL ELSE nx[f[k - 1]]]

\* A walk of any length exists: otherwise there is a least length that has none.
LEMMA WalksExist ==
  ASSUME NEW nx, NEW p, NEW n \in Nat
  PROVE  \E f : IsWalk(f, nx, p, n)
<1> DEFINE S == {m \in Nat : ~ \E f : IsWalk(f, nx, p, m)}
<1> SUFFICES ASSUME n \in S PROVE FALSE
  OBVIOUS
<1>1. PICK m \in S : \A o \in S : m <= o
  <2>1. S \in SUBSET Nat /\ S # {}
    OBVIOUS
  <2> HIDE DEF S
  <2> QED BY <2>1, LeastMember
<1>2. m # 0
  <2> DEFINE f == [k \in 0..0 |-> p]
  <2>1. IsWalk(f, nx, p, 0)
    BY DEF IsWalk
  <2> QED BY <2>1
<1>3. PICK f : IsWalk(f, nx, p, m - 1)
  <2>1. m - 1 \in Nat /\ m - 1 \notin S
    BY <1>1, <1>2
  <2> QED BY <2>1
<1> DEFINE g == [k \in 0..m |-> IF k < m THEN f[k]
                               ELSE IF f[m - 1] = NULL THEN NULL ELSE nx[f[m - 1]]]
<1>4. IsWalk(g, nx, p, m)
  <2>1. \A k \in 0..(m - 1) :
          f[k] = IF k = 0 THEN p ELSE IF f[k - 1] = NULL THEN NULL ELSE nx[f[k - 1]]
    BY <1>3, Zenon DEF IsWalk
  <2>2. ASSUME NEW k \in 0..m
        PROVE  g[k] = IF k = 0 THEN p ELSE IF g[k - 1] = NULL THEN NULL ELSE nx[g[k - 1]]
    BY <2>1, <1>2
  <2>3. g = [k \in 0..m |-> g[k]]
    OBVIOUS
  <2> HIDE DEF g
  <2>4. g = [k \in 0..m |-> IF k = 0 THEN p ELSE IF g[k - 1] = NULL THEN NULL ELSE nx[g[k - 1]]]
    BY <2>2, <2>3
  <2> QED BY <2>4 DEF IsWalk
<1> HIDE DEF g
<1> QED BY <1>1, <1>4

\* So FollowOf is a function that satisfies its recursion.
LEMMA FollowFacts ==
  ASSUME NEW nx, NEW p
  PROVE  \A k \in 0..Capacity :
           FollowOf(nx, p)[k] = IF k = 0 THEN p
                                ELSE IF FollowOf(nx, p)[k - 1] = NULL THEN NULL
                                ELSE nx[FollowOf(nx, p)[k - 1]]
<1>1. PICK f : IsWalk(f, nx, p, Capacity)
  BY WalksExist, CapacityAssumption
<1>2. IsWalk(FollowOf(nx, p), nx, p, Capacity)
  BY <1>1 DEF FollowOf, IsWalk
<1> DEFINE g == FollowOf(nx, p)
<1>3. g = [k \in 0..Capacity |-> IF k = 0 THEN p ELSE IF g[k - 1] = NULL THEN NULL ELSE nx[g[k - 1]]]
  BY <1>2 DEF IsWalk
<1> HIDE DEF g
<1>4. \A k \in 0..Capacity :
        g[k] = IF k = 0 THEN p ELSE IF g[k - 1] = NULL THEN NULL ELSE nx[g[k - 1]]
  BY <1>3, Zenon
<1> QED BY <1>4 DEF g

\* Sequences without repetition have as many members as elements.
LEMMA DistinctFacts ==
  ASSUME NEW s \in Seq(Nodes)
  PROVE  /\ Members(s) \subseteq Nodes
         /\ IsFiniteSet(Members(s)) /\ Cardinality(Members(s)) \in Nat
         /\ Distinct(s) <=> Cardinality(Members(s)) = Len(s)
         /\ Distinct(s) => Len(s) <= Capacity
<1>1. Members(s) \subseteq Nodes /\ s \in Surjection(1..Len(s), Members(s))
  BY DEF Members, Surjection
<1>2. IsFiniteSet(1..Len(s)) /\ Cardinality(1..Len(s)) = Len(s)
  <2>1. Len(s) \in Nat
    OBVIOUS
  <2>2. Cardinality(1..Len(s)) = IF 1 > Len(s) THEN 0 ELSE Len(s) - 1 + 1
    BY <2>1, FS_Interval
  <2> QED BY <2>1, <2>2, FS_Interval
<1>3. /\ IsFiniteSet(Members(s)) /\ Cardinality(Members(s)) \in Nat
      /\ s \in Injection(1..Len(s), Members(s)) <=> Cardinality(Members(s)) = Len(s)
  BY <1>1, <1>2, FS_Surjection, FS_CardinalityType
<1>4. s \in Injection(1..Len(s), Members(s)) <=> Distinct(s)
  <2>1. s \in [1..Len(s) -> Members(s)]
    BY <1>1 DEF Surjection
  <2> QED BY <2>1 DEF Injection, IsInjective, Distinct
<1>5. Cardinality(Members(s)) <= Capacity
  <2>1. IsFiniteSet(Nodes) /\ Cardinality(Nodes) = Capacity
    BY FS_Interval, CapacityAssumption DEF Nodes
  <2> QED BY <2>1, <1>1, FS_Subset
<1> QED BY <1>1, <1>3, <1>4, <1>5

LEMMA OneMember ==
  ASSUME NEW n
  PROVE  Members(<<n>>) = {n} /\ Len(<<n>>) = 1 /\ <<n>> # <<>>
BY DEF Members

\* Following the links of a list lists it.
LEMMA ListIsChain ==
  ASSUME NEW nx, NEW p, NEW s, IsList(nx, p, s)
  PROVE  ChainOf(nx, p, Capacity) = s
<1> DEFINE f == FollowOf(nx, p)
           at(k) == IF k < Len(s) THEN s[k + 1] ELSE NULL
           S == {k \in 0..Capacity : f[k] # at(k)}
<1>1. /\ s \in Seq(Nodes) /\ Len(s) <= Capacity /\ Len(s) \in Nat
      /\ \A k \in 0..(Len(s) - 1) : s[k + 1] \in Nodes /\ s[k + 1] # NULL
  BY DistinctFacts, CapacityAssumption DEF IsList, Nodes, NULL
<1>2. \A k \in 0..Capacity : f[k] = IF k = 0 THEN p ELSE IF f[k - 1] = NULL THEN NULL ELSE nx[f[k - 1]]
  BY FollowFacts
<1> HIDE DEF f
<1>3. at(0) = p
  BY <1>1 DEF IsList
<1>4. \A k \in 1..Capacity : at(k) = IF at(k - 1) = NULL THEN NULL ELSE nx[at(k - 1)]
  <2> SUFFICES ASSUME NEW k \in 1..Capacity
               PROVE  at(k) = IF at(k - 1) = NULL THEN NULL ELSE nx[at(k - 1)]
    OBVIOUS
  <2>1. CASE k - 1 >= Len(s)
    BY <2>1, <1>1, CapacityAssumption
  <2>2. CASE k - 1 < Len(s)
    <3>1. k \in 1..Len(s)
      BY <2>2, <1>1, CapacityAssumption
    <3>2. nx[s[k]] = IF k = Len(s) THEN NULL ELSE s[k + 1]
      BY <3>1 DEF IsList
    <3>3. at(k - 1) = s[k] /\ s[k] # NULL
      BY <3>1, <1>1
    <3> QED BY <3>1, <3>2, <3>3, <1>1
  <2> QED BY <2>1, <2>2, <1>1, CapacityAssumption
<1>5. S = {}
  <2> SUFFICES ASSUME S # {} PROVE FALSE
    OBVIOUS
  <2>1. PICK m \in S : \A o \in S : m <= o
    <3>1. S \in SUBSET Nat
      BY CapacityAssumption
    <3> HIDE DEF S
    <3> QED BY <3>1, LeastMember
  <2>2. m # 0
    BY <1>2, <1>3, CapacityAssumption
  <2>3. f[m - 1] = at(m - 1) /\ m \in 1..Capacity
    BY <2>1, <2>2, CapacityAssumption
  <2> HIDE DEF at
  <2>4. f[m] = at(m)
    BY <2>2, <2>3, <1>2, <1>4, CapacityAssumption
  <2> QED BY <2>4
<1>6. \A k \in 0..Capacity : f[k] = at(k)
  BY <1>5
<1>7. {k \in 0..(Capacity - 1) : f[k] # NULL} = 0..(Len(s) - 1)
  <2>1. \A k \in 0..(Capacity - 1) : f[k] # NULL <=> k < Len(s)
    BY <1>6, <1>1, CapacityAssumption
  <2> QED BY <2>1, <1>1, CapacityAssumption
<1>8. ReachOf(nx, p) = Len(s)
  <2>1. Cardinality(0..(Len(s) - 1)) = IF 0 > Len(s) - 1 THEN 0 ELSE Len(s) - 1 - 0 + 1
    BY <1>1, FS_Interval
  <2>2. ReachOf(nx, p) = Cardinality(0..(Len(s) - 1))
    BY <1>7 DEF ReachOf, f
  <2> QED BY <2>1, <2>2, <1>1
<1>9. Least(Capacity, ReachOf(nx, p)) = Len(s)
  BY <1>8, <1>1, CapacityAssumption DEF Least
<1>10. \A k \in 1..Len(s) : f[k - 1] = s[k]
  BY <1>6, <1>1, CapacityAssumption
<1>11. ChainOf(nx, p, Capacity) = [k \in 1..Len(s) |-> s[k]]
  BY <1>9, <1>10 DEF ChainOf, f
<1>12. s = [k \in 1..Len(s) |-> s[k]]
  BY <1>1
<1> QED BY <1>11, <1>12

\* The first node of a chain is where it starts, and its link comes next.
LEMMA FirstOfChain ==
  ASSUME NEW nx, NEW p \in Nodes
  PROVE  ChainOf(nx, p, 1) = <<p>> /\ FollowOf(nx, p)[1] = nx[p]
<1> DEFINE f == FollowOf(nx, p)
           S == {k \in 0..(Capacity - 1) : f[k] # NULL}
<1>1. f[0] = p /\ p # NULL /\ f[1] = nx[p]
  BY FollowFacts, CapacityAssumption DEF Nodes, NULL
<1> HIDE DEF f
<1>2. IsFiniteSet(S) /\ S # {}
  <2>1. 0 \in S
    BY <1>1, CapacityAssumption
  <2>2. IsFiniteSet(0..(Capacity - 1))
    BY FS_Interval, CapacityAssumption
  <2> QED BY <2>1, <2>2, FS_Subset
<1>3. ReachOf(nx, p) \in Nat /\ ReachOf(nx, p) # 0
  <2> HIDE DEF S
  <2>1. Cardinality(S) \in Nat /\ Cardinality(S) # 0
    BY <1>2, FS_CardinalityType, FS_EmptySet
  <2> QED BY <2>1 DEF ReachOf, f, S
<1>4. Least(1, ReachOf(nx, p)) = 1
  BY <1>3 DEF Least
<1>5. ChainOf(nx, p, 1) = [k \in 1..1 |-> f[k - 1]]
  BY <1>4 DEF ChainOf, f
<1>6. ChainOf(nx, p, 1) = <<p>>
  BY <1>5, <1>1
<1> QED BY <1>6, <1>1 DEF f

-----------------------------------------------------------------------------
(* Lists.                                                                  *)

\* A list starts at its first node, and at NULL when it has none.
LEMMA ListStart ==
  ASSUME NEW nx, NEW p, NEW s, IsList(nx, p, s)
  PROVE  /\ s = <<>> <=> p = NULL
         /\ p # NULL => p \in Members(s) /\ p = s[1]
         /\ Members(s) \subseteq Nodes
<1>1. s \in Seq(Nodes) /\ \A k \in 1..Len(s) : s[k] \in Nodes /\ s[k] # NULL
  BY CapacityAssumption DEF IsList, Nodes, NULL
<1>2. Members(s) \subseteq Nodes
  BY <1>1 DEF Members
<1>3. CASE s = <<>>
  BY <1>2, <1>3 DEF IsList
<1>4. CASE s # <<>>
  <2>1. 1 \in 1..Len(s) /\ p = s[1]
    BY <1>1, <1>4 DEF IsList
  <2>2. p \in Members(s)
    BY <1>1, <2>1 DEF Members
  <2> QED BY <1>1, <1>2, <1>4, <2>1, <2>2
<1> QED BY <1>3, <1>4

\* What is linked elsewhere does not change a list.
LEMMA ListStays ==
  ASSUME NEW nx, NEW ny, NEW p, NEW s, IsList(nx, p, s), \A n \in Members(s) : ny[n] = nx[n]
  PROVE  IsList(ny, p, s)
BY DEF IsList, Members

\* A sequence without its first element.
LEMMA TailFacts ==
  ASSUME NEW s \in Seq(Nodes), s # <<>>, Distinct(s)
  PROVE  /\ Tail(s) \in Seq(Nodes) /\ Distinct(Tail(s)) /\ Len(Tail(s)) = Len(s) - 1
         /\ \A k \in 1..Len(Tail(s)) : Tail(s)[k] = s[k + 1]
         /\ Members(Tail(s)) = Members(s) \ {s[1]} /\ s[1] \in Members(s)
         /\ Len(s) \in Nat \ {0}
<1> DEFINE q == Tail(s)
<1>1. Len(s) \in Nat \ {0}
  OBVIOUS
<1>2. q \in Seq(Nodes) /\ Len(q) = Len(s) - 1 /\ \A k \in 1..Len(q) : q[k] = s[k + 1]
  BY <1>1, HeadTailProperties
<1> HIDE DEF q
<1>3. Distinct(q)
  BY <1>1, <1>2 DEF Distinct
<1>4. Members(q) = Members(s) \ {s[1]}
  <2>1. \A n \in Members(q) : n \in Members(s) /\ n # s[1]
    BY <1>1, <1>2 DEF Members, Distinct
  <2>2. ASSUME NEW n \in Members(s), n # s[1] PROVE n \in Members(q)
    <3>1. PICK k \in 1..Len(s) : n = s[k]
      BY <1>1 DEF Members
    <3>2. k - 1 \in 1..Len(q) /\ q[k - 1] = n
      BY <3>1, <2>2, <1>1, <1>2
    <3> QED BY <3>2, <1>2 DEF Members
  <2> QED BY <2>1, <2>2
<1>5. s[1] \in Members(s)
  BY <1>1 DEF Members
<1> QED BY <1>1, <1>2, <1>3, <1>4, <1>5 DEF q

\* Without its first node a list starts at that node's link.
LEMMA ListTail ==
  ASSUME NEW nx, NEW p, NEW s, IsList(nx, p, s), s # <<>>
  PROVE  /\ IsList(nx, nx[p], Tail(s))
         /\ Members(Tail(s)) = Members(s) \ {p} /\ p = s[1] /\ p = Head(s) /\ p \in Members(s)
         /\ Len(Tail(s)) = Len(s) - 1
<1> DEFINE q == Tail(s)
<1>1. s \in Seq(Nodes) /\ Distinct(s) /\ p = s[1] /\ p = Head(s)
  BY DEF IsList
<1>2. /\ q \in Seq(Nodes) /\ Distinct(q) /\ Len(q) = Len(s) - 1 /\ Len(s) \in Nat \ {0}
      /\ \A k \in 1..Len(q) : q[k] = s[k + 1]
      /\ Members(q) = Members(s) \ {p} /\ p \in Members(s)
  BY <1>1, TailFacts
<1> HIDE DEF q
<1>3. nx[p] = IF q = <<>> THEN NULL ELSE q[1]
  BY <1>1, <1>2 DEF IsList
<1>4. \A k \in 1..Len(q) : nx[q[k]] = IF k = Len(q) THEN NULL ELSE q[k + 1]
  BY <1>1, <1>2 DEF IsList
<1>5. IsList(nx, nx[p], q)
  BY <1>2, <1>3, <1>4 DEF IsList
<1> QED BY <1>1, <1>2, <1>5 DEF q

\* A node linked to the first of a list makes a longer one.
LEMMA ListCons ==
  ASSUME NEW nx, NEW p, NEW s, IsList(nx, p, s),
         NEW n \in Nodes, n \notin Members(s), nx[n] = p
  PROVE  /\ IsList(nx, n, <<n>> \o s)
         /\ Members(<<n>> \o s) = Members(s) \cup {n}
         /\ Len(<<n>> \o s) = Len(s) + 1
<1> DEFINE q == <<n>> \o s
<1>1. s \in Seq(Nodes) /\ Len(s) \in Nat /\ <<n>> \in Seq(Nodes)
  BY DEF IsList
<1>2. /\ q \in Seq(Nodes) /\ Len(q) = Len(s) + 1 /\ q # <<>>
      /\ \A k \in 1..Len(q) : q[k] = IF k = 1 THEN n ELSE s[k - 1]
  BY <1>1, ConcatProperties
<1> HIDE DEF q
<1>3. Distinct(q)
  <2>1. \A k \in 1..Len(s) : s[k] # n
    BY <1>1 DEF Members
  <2>2. \A i, j \in 1..Len(s) : s[i] = s[j] => i = j
    BY DEF IsList, Distinct
  <2> SUFFICES ASSUME NEW i \in 1..Len(q), NEW j \in 1..Len(q), q[i] = q[j], i # j
               PROVE  FALSE
    BY DEF Distinct
  <2>3. CASE i = 1 \/ j = 1
    BY <1>1, <1>2, <2>1, <2>3
  <2>4. CASE i # 1 /\ j # 1
    <3>1. i - 1 \in 1..Len(s) /\ j - 1 \in 1..Len(s) /\ s[i - 1] = s[j - 1]
      BY <1>1, <1>2, <2>4
    <3> QED BY <2>2, <3>1
  <2> QED BY <2>3, <2>4
<1>4. \A k \in 1..Len(q) : nx[q[k]] = IF k = Len(q) THEN NULL ELSE q[k + 1]
  <2> SUFFICES ASSUME NEW k \in 1..Len(q)
               PROVE  nx[q[k]] = IF k = Len(q) THEN NULL ELSE q[k + 1]
    OBVIOUS
  <2>1. CASE k = 1
    BY <2>1, <1>1, <1>2 DEF IsList
  <2>2. CASE k # 1
    <3>1. k - 1 \in 1..Len(s) /\ q[k] = s[k - 1]
      BY <2>2, <1>1, <1>2
    <3>2. nx[s[k - 1]] = IF k - 1 = Len(s) THEN NULL ELSE s[k - 1 + 1]
      BY <3>1 DEF IsList
    <3> QED BY <3>1, <3>2, <1>1, <1>2
  <2> QED BY <2>1, <2>2
<1>5. Members(q) = Members(s) \cup {n}
  <2>1. \A m \in Members(q) : m \in Members(s) \cup {n}
    BY <1>1, <1>2 DEF Members
  <2>2. ASSUME NEW m \in Members(s) PROVE m \in Members(q)
    <3>1. PICK k \in 1..Len(s) : m = s[k]
      BY <1>1 DEF Members
    <3>2. k + 1 \in 1..Len(q) /\ q[k + 1] = m
      BY <3>1, <1>1, <1>2
    <3> QED BY <3>2, <1>2 DEF Members
  <2>3. n \in Members(q)
    BY <1>1, <1>2 DEF Members
  <2> QED BY <2>1, <2>2, <2>3
<1> QED BY <1>2, <1>3, <1>4, <1>5 DEF IsList, q

\* The lists of a state, by the functions of its links.
LEMMA ListsAreChains ==
  /\ Fresh = ChainOf(next, head["head"].ptr, Capacity)
  /\ Freed = ChainOf(next, head["free_list"].ptr, Capacity)
  /\ Fresh' = ChainOf(next', head'["head"].ptr, Capacity)
  /\ Freed' = ChainOf(next', head'["free_list"].ptr, Capacity)
BY DEF Fresh, Freed, Chain, Reach, Follow, ChainOf, ReachOf, FollowOf

\* What lists the nodes of the next state are its lists.
LEMMA ListsAfter ==
  ASSUME NEW fresh, IsList(next', head'["head"].ptr, fresh),
         NEW freed, IsList(next', head'["free_list"].ptr, freed)
  PROVE  Fresh' = fresh /\ Freed' = freed /\ ListsInv'
<1>1. Fresh' = fresh /\ Freed' = freed
  BY ListIsChain, ListsAreChains
<1> QED BY <1>1 DEF ListsInv, IsList

-----------------------------------------------------------------------------
(* Steps that move no node in or out of a list.                            *)

LEMMA TypeParts ==
  TypeOK <=>
    /\ next \in [Nodes -> Nodes \cup {NULL}]
    /\ head \in [{"head", "free_list"} -> Pointer]
    /\ alloc_cnt \in Nat /\ free_cnt \in Nat
    /\ held \in [Threads -> SUBSET Nodes]
    /\ cache \in [Threads -> Seq(Nodes)] /\ \A t \in Threads : Len(cache[t]) <= CacheSize
    /\ run \in [Threads -> RunRecords]
    /\ pool \in {"open", "closing", "destroyed", "aborted"}
BY DEF TypeOK, RunRecords

\* What ObjectPool sees is unchanged.
SamePlaces == UNCHANGED <<Fresh, Freed>> /\ \A u \in Threads : Holds(u)' = Holds(u)

\* A thread whose call has counted what it took or gave, or counts nothing.
Counted(r) == ~ (r.pc = "count" /\ r.chunks # <<>>) /\ r.pc # "count_free"

\* Thread t turns to record r.
BusyAfter(t, r) == IF r.pc = "idle" THEN Busy \ {t} ELSE Busy \cup {t}
LEMMA BusyStep ==
  ASSUME TypeOK, NEW t \in Threads, NEW r, run' = [run EXCEPT ![t] = r]
  PROVE  /\ Busy' = BusyAfter(t, r)
         /\ IsFiniteSet(Busy) => IsFiniteSet(Busy')
<1>1. run \in [Threads -> RunRecords]
  BY TypeParts
<1>2. Busy' = BusyAfter(t, r)
  BY <1>1 DEF Busy, BusyAfter
<1> QED BY <1>2, FS_AddElement, FS_RemoveElement DEF BusyAfter

\* Where the links and the heads are unchanged, what the invariant says of the
\* other calls is, too.
LEMMA RunSame ==
  ASSUME IInv, NEW t \in Threads, NEW c, NEW r, UNCHANGED <<next, head>>,
         cache' = [cache EXCEPT ![t] = c], run' = [run EXCEPT ![t] = r],
         c # <<>> => BatchSize = 1, CallInv(r)
  PROVE  RunInv'
<1>1. /\ cache'[t] = c /\ run'[t] = r
      /\ \A u \in Threads : u # t => cache'[u] = cache[u] /\ run'[u] = run[u]
  BY DEF IInv, TypeOK
<1> QED BY <1>1 DEF IInv, RunInv, CallInv, TakesInv, GivesInv

\* A thread holds, keeps in its cache and gives back what it did, in other parts,
\* and has linked no other nodes: every node stays in its place.
LEMMA PlacesKeep ==
  ASSUME IInv, NEW t \in Threads,
         NEW h \in SUBSET Nodes, NEW c \in Seq(Nodes), NEW r \in RunRecords,
         UNCHANGED head, \A n \in Nodes : n \notin Holds(t) => next'[n] = next[n],
         held' = [held EXCEPT ![t] = h], cache' = [cache EXCEPT ![t] = c],
         run' = [run EXCEPT ![t] = r],
         h \cup Members(c) \cup Members(r.objs) = Holds(t),
         h \cap Members(c) = {}, h \cap Members(r.objs) = {}, Members(c) \cap Members(r.objs) = {},
         Distinct(c), Distinct(r.objs)
  PROVE  ListsInv' /\ OwnersInv' /\ SamePlaces
<1>1. TypeOK
  BY DEF IInv
<1>3. Fresh' = Fresh /\ Freed' = Freed /\ ListsInv'
  <2>1. Holds(t) \cap Listed = {} /\ ListsInv
    BY DEF IInv, OwnersInv
  <2>2. Listed \subseteq Nodes
    BY <2>1, ListStart DEF ListsInv, Listed
  <2>3. \A n \in Listed : next'[n] = next[n]
    BY <2>1, <2>2
  <2>4. /\ IsList(next', head'["head"].ptr, Fresh)
        /\ IsList(next', head'["free_list"].ptr, Freed)
    BY <2>1, <2>3, ListStays DEF ListsInv, Listed
  <2> QED BY <2>4, ListsAfter
<1>4. /\ held'[t] = h /\ cache'[t] = c /\ run'[t] = r
      /\ \A u \in Threads : u # t => held'[u] = held[u] /\ cache'[u] = cache[u] /\ run'[u] = run[u]
  BY <1>1 DEF TypeOK
<1>5. \A u \in Threads : Holds(u)' = Holds(u)
  BY <1>4 DEF Holds
<1>6. OwnersInv'
  <2>1. OwnersInv
    BY DEF IInv
  <2>2. Listed' = Listed /\ Fresh' = Fresh /\ Freed' = Freed
    BY <1>3 DEF Listed
  <2>3. ASSUME NEW u \in Threads
        PROVE  /\ (held[u] \cap Members(cache[u]))' = {}
               /\ (held[u] \cap Members(run[u].objs))' = {}
               /\ (Members(cache[u]) \cap Members(run[u].objs))' = {}
               /\ Distinct(cache[u])' /\ Distinct(run[u].objs)'
    <3>1. CASE u = t
      BY <1>4, <3>1
    <3>2. CASE u # t
      <4>1. held'[u] = held[u] /\ cache'[u] = cache[u] /\ run'[u] = run[u]
        BY <1>4, <3>2
      <4> QED BY <4>1, <2>1 DEF OwnersInv
    <3> QED BY <3>1, <3>2
  <2>4. ASSUME NEW u \in Threads
        PROVE  /\ (Holds(u) \cap Listed)' = {}
               /\ \A v \in Threads : u # v => (Holds(u) \cap Holds(v))' = {}
    BY <1>5, <2>1, <2>2 DEF OwnersInv
  <2>5. ASSUME NEW m \in Nodes PROVE m \in Listed' \/ \E u \in Threads : m \in Holds(u)'
    BY <1>5, <2>1, <2>2 DEF OwnersInv
  <2> QED BY <2>1, <2>2, <2>3, <2>4, <2>5 DEF OwnersInv
<1> QED BY <1>3, <1>5, <1>6 DEF SamePlaces

\* So does the invariant, when nothing is counted.
LEMMA MovesKeep ==
  ASSUME IInv, AloneInv', RunInv', NEW t \in Threads,
         NEW h \in SUBSET Nodes, NEW c \in Seq(Nodes), NEW r \in RunRecords,
         UNCHANGED <<head, alloc_cnt, free_cnt>>, pool' \in {"open", "closing"},
         next' \in [Nodes -> Nodes \cup {NULL}],
         \A n \in Nodes : n \notin Holds(t) => next'[n] = next[n],
         held' = [held EXCEPT ![t] = h], cache' = [cache EXCEPT ![t] = c],
         run' = [run EXCEPT ![t] = r], Len(c) <= CacheSize,
         h \cup Members(c) \cup Members(r.objs) = Holds(t),
         h \cap Members(c) = {}, h \cap Members(r.objs) = {}, Members(c) \cap Members(r.objs) = {},
         Distinct(c), Distinct(r.objs),
         Counted(run[t]), Counted(r)
  PROVE  IInv' /\ SamePlaces
<1>1. TypeOK /\ CountInv
  BY DEF IInv
<1>2. TypeOK'
  BY <1>1 DEF TypeOK, RunRecords
<1>3. ListsInv' /\ OwnersInv' /\ SamePlaces
  BY PlacesKeep
<1>4. CountInv'
  <2>1. run'[t] = r /\ \A u \in Threads : u # t => run'[u] = run[u]
    BY <1>1 DEF TypeOK
  <2>2. Taken' = Taken /\ Given' = Given
    BY <2>1 DEF Taken, Given, Counted
  <2>3. IsFiniteSet(Busy')
    BY <1>1, BusyStep DEF CountInv
  <2> QED BY <1>1, <1>3, <2>2, <2>3 DEF CountInv, SamePlaces
<1>5. AbortIffLeak'
  BY DEF AbortIffLeak
<1> QED BY <1>2, <1>3, <1>4, <1>5 DEF IInv

\* A call that goes on, or returns, leaves alone what runs alone.
LEMMA AloneGoesOn ==
  ASSUME IInv, NEW t \in Threads, NEW r, run' = [run EXCEPT ![t] = r], UNCHANGED pool,
         run[t].pc # "idle", r.pc = "idle" \/ r.op = run[t].op
  PROVE  AloneInv' /\ pool' \in {"open", "closing"}
<1>1. run \in [Threads -> RunRecords] /\ pool \in {"open", "closing", "destroyed", "aborted"}
  BY TypeParts DEF IInv
<1>2. t \in Busy /\ AloneInv
  BY DEF Busy, IInv
<1>3. pool' \in {"open", "closing"}
  BY <1>1, <1>2 DEF AloneInv
<1>4. Busy' \subseteq Busy /\ \A u \in Busy' : run'[u].op = run[u].op
  BY <1>1, <1>2 DEF Busy
<1>5. ASSUME NEW u \in Busy', Busy = {u} PROVE Busy' = {u}
  BY <1>4, <1>5
<1> QED BY <1>2, <1>3, <1>4, <1>5 DEF AloneInv

LEMMA GoesOnKeeps ==
  ASSUME IInv, NEW t \in Threads, NEW r \in RunRecords, Go(t, r),
         UNCHANGED <<next, head, alloc_cnt, free_cnt, held, cache, pool>>,
         run[t].pc # "idle", r.pc = "idle" \/ r.op = run[t].op,
         r.objs = run[t].objs, CallInv(r), Counted(run[t]), Counted(r)
  PROVE  IInv' /\ SamePlaces
<1>1. TypeOK /\ held \in [Threads -> SUBSET Nodes] /\ cache \in [Threads -> Seq(Nodes)]
  BY DEF IInv, TypeOK
<1>2. held' = [held EXCEPT ![t] = held[t]] /\ cache' = [cache EXCEPT ![t] = cache[t]]
  BY <1>1
<1>3. /\ held[t] \in SUBSET Nodes /\ cache[t] \in Seq(Nodes) /\ Len(cache[t]) <= CacheSize
      /\ cache[t] # <<>> => BatchSize = 1
  BY DEF IInv, TypeOK, RunInv
<1>4. /\ held[t] \cap Members(cache[t]) = {} /\ held[t] \cap Members(r.objs) = {}
      /\ Members(cache[t]) \cap Members(r.objs) = {} /\ Distinct(cache[t]) /\ Distinct(r.objs)
  BY DEF IInv, OwnersInv
<1>5. held[t] \cup Members(cache[t]) \cup Members(r.objs) = Holds(t)
  BY DEF Holds
<1>6. AloneInv' /\ pool' \in {"open", "closing"} /\ run' = [run EXCEPT ![t] = r]
  BY AloneGoesOn DEF Go
<1>7. RunInv'
  BY <1>2, <1>3, <1>6, RunSame
<1>8. next' \in [Nodes -> Nodes \cup {NULL}]
  BY DEF IInv, TypeOK
<1> QED BY <1>2, <1>3, <1>4, <1>5, <1>6, <1>7, <1>8, MovesKeep

\* A thread's call, and what the invariant says of it.
LEMMA CallFacts ==
  ASSUME IInv, NEW t \in Threads
  PROVE  /\ run[t] \in RunRecords /\ CallInv(run[t])
         /\ \A list \in {"head", "free_list"} : head[list] \in Pointer
         /\ next \in [Nodes -> Nodes \cup {NULL}]
         /\ held[t] \in SUBSET Nodes /\ cache[t] \in Seq(Nodes)
BY DEF IInv, RunInv, TypeOK, RunRecords

LEMMA IdleRecord ==
  /\ Idle \in RunRecords /\ CallInv(Idle) /\ Counted(Idle)
  /\ Idle.pc = "idle" /\ Idle.objs = <<>>
BY CapacityAssumption DEF Idle, RunRecords, Pointer, NULL, CallInv, Counted, Nodes

LEMMA LoadKeeps == ASSUME IInv, SingleNodes, NEW t \in Threads, load(t) PROVE IInv' /\ SamePlaces
<1> DEFINE r == run[t]
           q == [r EXCEPT !.old = head[r.target],
                          !.pc = IF head[r.target].ptr = NULL THEN "load_head" ELSE "walk"]
<1>1. r \in RunRecords /\ CallInv(r) /\ r.pc = "load" /\ head[r.target] \in Pointer
  BY CallFacts DEF load, RunRecords
<1>2. q \in RunRecords /\ q.op = r.op /\ q.objs = r.objs /\ q.chunks = r.chunks
      /\ q.old = head[r.target] /\ q.count = r.count /\ q.target = r.target
      /\ q.pc = IF head[r.target].ptr = NULL THEN "load_head" ELSE "walk"
  BY <1>1 DEF RunRecords
<1>3. Go(t, q) /\ UNCHANGED <<next, head, alloc_cnt, free_cnt, held, cache, pool>>
  BY DEF load
<1> HIDE DEF r, q
<1>4. TakesInv(r)
  BY <1>1 DEF CallInv
<1>5. TakesInv(q)
  BY <1>1, <1>2, <1>4 DEF TakesInv, IsBehind, Pointer
<1>6. CallInv(q) /\ Counted(q) /\ Counted(r)
  BY <1>1, <1>2, <1>5 DEF CallInv, Counted
<1> QED BY <1>1, <1>2, <1>3, <1>6, GoesOnKeeps DEF r

LEMMA LoadHeadKeeps ==
  ASSUME IInv, SingleNodes, NEW t \in Threads, load_head(t) PROVE IInv' /\ SamePlaces
<1> DEFINE r == run[t]
           stale == r.op = "alloc_batch" /\ head["head"].ptr = NULL
           q == [r EXCEPT !.target = "head", !.old = head["head"],
                          !.pc = IF stale THEN "count" ELSE "walk"]
<1>1. r \in RunRecords /\ CallInv(r) /\ r.pc = "load_head" /\ head["head"] \in Pointer
  BY CallFacts DEF load_head, RunRecords
<1>2. /\ q \in RunRecords /\ q.op = r.op /\ q.objs = r.objs /\ q.chunks = r.chunks
      /\ q.old = head["head"] /\ q.count = r.count /\ q.target = "head"
      /\ q.pc = IF stale THEN "count" ELSE "walk"
  BY <1>1 DEF RunRecords
<1>3. TakesInv(r) /\ r.chunks = <<>>
  BY <1>1 DEF CallInv, TakesInv
<1>4. held' = held
  <2>1. held \in [Threads -> SUBSET Nodes] /\ Members(r.chunks) = {}
    BY <1>3 DEF IInv, TypeOK, Members
  <2>2. held' = [held EXCEPT ![t] = IF stale THEN held[t] \cup Members(r.chunks) ELSE held[t]]
    BY DEF load_head
  <2> QED BY <2>1, <2>2
<1>5. Go(t, q) /\ UNCHANGED <<next, head, alloc_cnt, free_cnt, held, cache, pool>>
  BY <1>4 DEF load_head
<1> HIDE DEF r, q
<1>6. TakesInv(q)
  BY <1>1, <1>2, <1>3 DEF TakesInv, IsBehind, Pointer
<1>7. CallInv(q) /\ Counted(q) /\ Counted(r)
  BY <1>1, <1>2, <1>3, <1>6 DEF CallInv, Counted
<1> QED BY <1>1, <1>2, <1>5, <1>7, GoesOnKeeps DEF r

\* A batch has one node, unless only single objects are taken and released.
LEMMA BatchFacts ==
  ASSUME IInv, SingleNodes, NEW t \in Threads, run[t].pc # "idle"
  PROVE  /\ BatchSize = 1 \/ run[t].op \in {"alloc", "free", "destroy"}
         /\ run[t].op = "alloc_batch" => Busy = {t}
<1>1. t \in Busy /\ AloneInv
  BY DEF Busy, IInv
<1>2. run[t].op \in Calls \cup {"destroy"}
  BY <1>1 DEF AloneInv
<1> QED BY <1>1, <1>2 DEF AloneInv, SingleNodes

LEMMA WalkKeeps == ASSUME IInv, SingleNodes, NEW t \in Threads, walk(t) PROVE IInv' /\ SamePlaces
<1> DEFINE r == run[t]
<1>1. r \in RunRecords /\ CallInv(r) /\ r.pc = "walk" /\ head[r.target] \in Pointer
  BY CallFacts DEF walk, RunRecords
<1>2. TakesInv(r) /\ Counted(r)
  BY <1>1 DEF CallInv, Counted
<1>3. CASE r.old.ptr = NULL
  <2>1. Go(t, Idle) /\ UNCHANGED <<next, head, alloc_cnt, free_cnt, held, cache, pool>>
    BY <1>3 DEF walk, Returns, Go
  <2>2. Idle.objs = r.objs
    BY <1>2, IdleRecord DEF TakesInv
  <2> QED BY <1>1, <1>2, <2>1, <2>2, IdleRecord, GoesOnKeeps
<1>4. CASE r.old.ptr # NULL
  <2> DEFINE p == r.old.ptr
             q == [r EXCEPT !.chunks = <<p>>, !.pc = "cas", !.new = next[p]]
  <2>1. p \in Nodes /\ next[p] \in Nodes \cup {NULL}
    BY <1>1, <1>4, CallFacts DEF RunRecords, Pointer
  <2>2. Least(BatchSize, r.count) = 1
    BY <1>1, <1>2, BatchFacts, SizesAssumption DEF Least, TakesInv, RunRecords
  <2>3. Chain(p, 1) = <<p>> /\ Follow(p)[1] = next[p]
    <3>1. Chain(p, 1) = ChainOf(next, p, 1) /\ Follow(p) = FollowOf(next, p)
      BY DEF Chain, Reach, Follow, ChainOf, ReachOf, FollowOf
    <3> QED BY <2>1, <3>1, FirstOfChain
  <2>4. Len(<<p>>) = 1 /\ <<p>> \in Seq(Nodes)
    BY <2>1
  <2>5. Go(t, q) /\ UNCHANGED <<next, head, alloc_cnt, free_cnt, held, cache, pool>>
    BY <1>4, <2>2, <2>3, <2>4 DEF walk
  <2>6. /\ q \in RunRecords /\ q.op = r.op /\ q.objs = r.objs /\ q.chunks = <<p>> /\ q.old = r.old
        /\ q.count = r.count /\ q.target = r.target /\ q.pc = "cas" /\ q.new = next[p]
    BY <1>1, <2>1, <2>4 DEF RunRecords
  <2> HIDE DEF q
  <2>7. TakesInv(q)
    BY <1>1, <1>2, <1>4, <2>6 DEF TakesInv
  <2>8. CallInv(q) /\ Counted(q)
    BY <2>6, <2>7 DEF CallInv, Counted
  <2> QED BY <1>1, <1>2, <2>5, <2>6, <2>8, GoesOnKeeps
<1> QED BY <1>3, <1>4

\* A compare-and-swap that fails, of itself or because the head has moved on.
CasFails(t) ==
  /\ run[t].pc = "cas"
  /\ Go(t, IF run[t].op = "alloc" THEN [run[t] EXCEPT !.pc = "walk", !.old = head[run[t].target]]
                                  ELSE [run[t] EXCEPT !.pc = "load"])
  /\ UNCHANGED <<next, head, alloc_cnt, free_cnt, held, cache, pool>>

LEMMA CasFailsKeeps ==
  ASSUME IInv, SingleNodes, NEW t \in Threads, CasFails(t) PROVE IInv' /\ SamePlaces
<1> DEFINE r == run[t]
           q == IF r.op = "alloc" THEN [r EXCEPT !.pc = "walk", !.old = head[r.target]]
                                  ELSE [r EXCEPT !.pc = "load"]
<1>1. r \in RunRecords /\ CallInv(r) /\ r.pc = "cas" /\ head[r.target] \in Pointer
  BY CallFacts DEF CasFails, RunRecords
<1>2. TakesInv(r) /\ Counted(r)
  BY <1>1 DEF CallInv, Counted
<1>3. Go(t, q) /\ UNCHANGED <<next, head, alloc_cnt, free_cnt, held, cache, pool>>
  BY DEF CasFails
<1>4. /\ q \in RunRecords /\ q.op = r.op /\ q.objs = r.objs /\ q.chunks = r.chunks
      /\ q.count = r.count /\ q.target = r.target
      /\ q.pc = IF r.op = "alloc" THEN "walk" ELSE "load"
      /\ q.old = IF r.op = "alloc" THEN head[r.target] ELSE r.old
  BY <1>1 DEF RunRecords
<1> HIDE DEF r, q
<1>5. TakesInv(q)
  BY <1>1, <1>2, <1>4 DEF TakesInv, IsBehind, Pointer
<1>6. CallInv(q) /\ Counted(q)
  BY <1>4, <1>5 DEF CallInv, Counted
<1> QED BY <1>1, <1>2, <1>3, <1>4, <1>6, GoesOnKeeps DEF r

\* The first element of a sequence, and what is left without it.
LEMMA FirstFacts ==
  ASSUME NEW S, NEW s \in Seq(S), s # <<>>
  PROVE  /\ Len(s) \in Nat \ {0} /\ s[1] \in S /\ Least(1, Len(s)) = 1
         /\ SubSeq(s, 1, 1) = <<s[1]>> /\ SubSeq(s, 2, Len(s)) = Tail(s)
<1>1. Len(s) \in Nat \ {0} /\ s[1] \in S
  OBVIOUS
<1>2. Least(1, Len(s)) = 1
  <2>1. \A n \in Nat \ {0} : Least(1, n) = 1
    BY DEF Least
  <2> QED BY <1>1, <2>1
<1>3. SubSeq(s, 1, 1) = <<s[1]>>
  <2>1. /\ SubSeq(s, 1, 1) \in Seq(S) /\ Len(SubSeq(s, 1, 1)) = 1
        /\ SubSeq(s, 1, 1)[1] = s[1]
    BY <1>1, SubSeqProperties
  <2>2. <<s[1]>> \in Seq(S) /\ Len(<<s[1]>>) = 1 /\ <<s[1]>>[1] = s[1]
    BY <1>1
  <2>3. \A i \in 1..Len(SubSeq(s, 1, 1)) : SubSeq(s, 1, 1)[i] = <<s[1]>>[i]
    BY <2>1, <2>2
  <2> QED BY <2>1, <2>2, <2>3, SeqEqual
<1> QED BY <1>1, <1>2, <1>3, TailIsSubSeq

\* A batch of one node needs no link inside.
LEMMA LinkKeeps == ASSUME IInv, SingleNodes, NEW t \in Threads, link(t) PROVE IInv' /\ SamePlaces
<1> DEFINE r == run[t]
           x == r.objs[1]
           q == [r EXCEPT !.chunks = <<x>>, !.pc = "load_free"]
<1>1. r \in RunRecords /\ CallInv(r) /\ r.pc = "link" /\ next \in [Nodes -> Nodes \cup {NULL}]
  BY CallFacts DEF link
<1>2. GivesInv(r) /\ Counted(r) /\ BatchSize = 1 /\ r.objs # <<>>
  BY <1>1 DEF CallInv, Counted, GivesInv
<1>3. r.objs \in Seq(Nodes)
  BY <1>1 DEF RunRecords
<1>4. x \in Nodes /\ Least(BatchSize, Len(r.objs)) = 1
  BY <1>2, <1>3, FirstFacts
<1>5. SubSeq(r.objs, 1, 1) = <<x>>
  BY <1>2, <1>3, FirstFacts
<1>6. Members(Tail(<<x>>)) = {}
  BY <1>4 DEF Members
<1>7. next' = next
  <2>1. next' = [n \in Nodes |-> IF n \in {} THEN NULL ELSE next[n]]
    BY <1>4, <1>5, <1>6 DEF link
  <2> QED BY <1>1, <2>1
<1>8. Go(t, q) /\ UNCHANGED <<next, head, alloc_cnt, free_cnt, held, cache, pool>>
  BY <1>4, <1>5, <1>7 DEF link
<1>9. <<x>> \in Seq(Nodes)
  BY <1>4
<1>10. /\ q \in RunRecords /\ q.op = r.op /\ q.objs = r.objs /\ q.chunks = <<q.objs[1]>>
       /\ q.pc = "load_free"
  BY <1>1, <1>9 DEF RunRecords
<1> HIDE DEF q
<1>11. CallInv(q) /\ Counted(q)
  BY <1>1, <1>2, <1>10 DEF CallInv, Counted, GivesInv
<1> QED BY <1>1, <1>2, <1>8, <1>10, <1>11, GoesOnKeeps

LEMMA LoadFreeKeeps == ASSUME IInv, NEW t \in Threads, load_free(t) PROVE IInv' /\ SamePlaces
<1> DEFINE r == run[t]
           q == [r EXCEPT !.old = head["free_list"], !.pc = "store"]
<1>1. r \in RunRecords /\ CallInv(r) /\ r.pc = "load_free" /\ head["free_list"] \in Pointer
  BY CallFacts DEF load_free
<1>2. GivesInv(r) /\ Counted(r)
  BY <1>1 DEF CallInv, Counted
<1>3. Go(t, q) /\ UNCHANGED <<next, head, alloc_cnt, free_cnt, held, cache, pool>>
  BY DEF load_free
<1>4. /\ q \in RunRecords /\ q.op = r.op /\ q.objs = r.objs /\ q.chunks = r.chunks
      /\ q.old = head["free_list"] /\ q.pc = "store"
  BY <1>1 DEF RunRecords
<1> HIDE DEF q
<1>5. CallInv(q) /\ Counted(q)
  BY <1>1, <1>2, <1>4 DEF CallInv, Counted, GivesInv, IsBehind, Pointer
<1> QED BY <1>1, <1>2, <1>3, <1>4, <1>5, GoesOnKeeps

CasFreeFails(t) ==
  /\ run[t].pc = "cas_free" /\ Go(t, [run[t] EXCEPT !.pc = "load_free"])
  /\ UNCHANGED <<next, head, alloc_cnt, free_cnt, held, cache, pool>>

LEMMA CasFreeFailsKeeps ==
  ASSUME IInv, NEW t \in Threads, CasFreeFails(t) PROVE IInv' /\ SamePlaces
<1> DEFINE r == run[t]
           q == [r EXCEPT !.pc = "load_free"]
<1>1. r \in RunRecords /\ CallInv(r) /\ r.pc = "cas_free"
  BY CallFacts DEF CasFreeFails
<1>2. GivesInv(r) /\ Counted(r)
  BY <1>1 DEF CallInv, Counted
<1>3. Go(t, q) /\ UNCHANGED <<next, head, alloc_cnt, free_cnt, held, cache, pool>>
  BY DEF CasFreeFails
<1>4. /\ q \in RunRecords /\ q.op = r.op /\ q.objs = r.objs /\ q.chunks = r.chunks
      /\ q.pc = "load_free"
  BY <1>1 DEF RunRecords
<1> HIDE DEF q
<1>5. CallInv(q) /\ Counted(q)
  BY <1>1, <1>2, <1>4 DEF CallInv, Counted, GivesInv
<1> QED BY <1>1, <1>2, <1>3, <1>4, <1>5, GoesOnKeeps

\* A batch that found both lists empty starts over.
LEMMA CountNothingKeeps ==
  ASSUME IInv, NEW t \in Threads, count(t), run[t].chunks = <<>> PROVE IInv' /\ SamePlaces
<1> DEFINE r == run[t]
           q == [r EXCEPT !.pc = "load", !.count = r.count, !.chunks = <<>>]
<1>1. r \in RunRecords /\ CallInv(r) /\ r.pc = "count" /\ alloc_cnt \in Nat
  BY CallFacts DEF count, IInv, TypeOK
<1>2. TakesInv(r) /\ Counted(r)
  BY <1>1 DEF CallInv, Counted
<1>3. r.count \in Nat /\ r.count >= 1
  BY <1>1, <1>2, CapacityAssumption DEF RunRecords, TakesInv
<1>4. Len(r.chunks) = 0
  OBVIOUS
<1>5. Go(t, q) /\ UNCHANGED <<next, head, alloc_cnt, free_cnt, held, cache, pool>>
  <2>1. r.count - Len(r.chunks) = r.count /\ r.count # 0 /\ alloc_cnt + Len(r.chunks) = alloc_cnt
    BY <1>1, <1>3, <1>4
  <2> QED BY <2>1 DEF count
<1>6. /\ q \in RunRecords /\ q.op = r.op /\ q.objs = r.objs /\ q.chunks = <<>>
      /\ q.pc = "load" /\ q.count = r.count
  BY <1>1 DEF RunRecords
<1> HIDE DEF q
<1>7. CallInv(q) /\ Counted(q)
  BY <1>1, <1>2, <1>6 DEF CallInv, Counted, TakesInv
<1> QED BY <1>1, <1>2, <1>5, <1>6, <1>7, GoesOnKeeps

-----------------------------------------------------------------------------
(* Steps that change a list, or the links.                                 *)

\* The head of a list is in it.
LEMMA HeadIsListed ==
  ASSUME IInv, NEW list \in {"head", "free_list"}, head[list].ptr # NULL
  PROVE  head[list].ptr \in Listed /\ head[list].ptr \in Nodes
BY ListStart DEF IInv, ListsInv, Listed

\* What the invariant says of a call, whatever another thread does: to its own
\* nodes' links, and to a head with another version.
LEMMA OthersKeep ==
  ASSUME IInv, SingleNodes, NEW t \in Threads, run[t].pc # "idle",
         NEW u \in Threads, u # t, run'[u] = run[u],
         \A list \in {"head", "free_list"} :
           head'[list] = head[list] \/ head'[list].ver = head[list].ver + 1,
         \A n \in Nodes : n \notin Holds(t) => next'[n] = next[n]
  PROVE  CallInv(run[u])'
<1> DEFINE r == run[u]
<1>1. /\ r \in RunRecords /\ CallInv(r)
      /\ \A list \in {"head", "free_list"} : head[list] \in Pointer
  BY CallFacts
<1>2. r.pc # "idle" => r.op # "alloc_batch"
  BY BatchFacts DEF Busy
<1>3. ASSUME NEW list \in {"head", "free_list"}, IsBehind(r.old, head[list])
      PROVE  /\ IsBehind(r.old, head'[list])
             /\ head'[list] = r.old => head[list] = r.old
  <2>1. r.old.ver \in Nat /\ head[list].ver \in Nat
    BY <1>1 DEF RunRecords, Pointer
  <2>2. CASE head'[list] = head[list]
    BY <1>3, <2>2
  <2>3. CASE head'[list].ver = head[list].ver + 1
    BY <1>3, <2>1, <2>3 DEF IsBehind
  <2> QED BY <2>2, <2>3
<1>4. ASSUME TakesInv(r), r.pc \in {"load", "load_head", "walk", "cas", "count"}
      PROVE  TakesInv(run[u])'
  <2>1. r.target \in {"head", "free_list"} /\ r.op = "alloc"
    BY <1>1, <1>2, <1>4 DEF RunRecords, TakesInv
  <2>2. r.pc \in {"walk", "cas"} => IsBehind(r.old, head'[r.target])
    BY <1>3, <1>4, <2>1 DEF TakesInv
  <2>3. ASSUME r.pc = "cas", head'[r.target] = r.old PROVE r.new = next'[r.old.ptr]
    <3>1. head[r.target] = r.old /\ r.new = next[r.old.ptr] /\ r.old.ptr # NULL
      BY <1>3, <1>4, <2>1, <2>3 DEF TakesInv
    <3>2. r.old.ptr \in Nodes /\ r.old.ptr \in Listed
      BY <2>1, <3>1, HeadIsListed
    <3>3. r.old.ptr \notin Holds(t)
      BY <3>2 DEF IInv, OwnersInv
    <3> QED BY <3>1, <3>2, <3>3
  <2> QED BY <1>4, <2>1, <2>2, <2>3 DEF TakesInv
<1>5. ASSUME GivesInv(r), r.pc \in {"link", "load_free", "store", "cas_free", "count_free"}
      PROVE  GivesInv(run[u])'
  <2>1. r.pc \in {"store", "cas_free"} => IsBehind(r.old, head'["free_list"])
    BY <1>3, <1>5 DEF GivesInv
  <2>2. ASSUME r.pc = "cas_free" PROVE next'[r.objs[1]] = r.old.ptr
    <3>1. r.objs \in Seq(Nodes) /\ r.objs # <<>> /\ next[r.objs[1]] = r.old.ptr
      BY <1>1, <1>5, <2>2 DEF GivesInv, RunRecords
    <3>2. r.objs[1] \in Nodes /\ r.objs[1] \in Members(r.objs)
      BY <3>1, FirstFacts DEF Members
    <3>3. r.objs[1] \notin Holds(t)
      BY <3>2 DEF IInv, OwnersInv, Holds
    <3> QED BY <3>1, <3>2, <3>3
  <2> QED BY <1>5, <2>1, <2>2 DEF GivesInv
<1> QED BY <1>1, <1>4, <1>5 DEF CallInv

\* The link to the old top is stored in a node that is in no list yet.
LEMMA StoreKeeps == ASSUME IInv, SingleNodes, NEW t \in Threads, store(t) PROVE IInv' /\ SamePlaces
<1> DEFINE r == run[t]
           x == r.objs[1]
           q == [r EXCEPT !.pc = "cas_free"]
<1>1. r \in RunRecords /\ CallInv(r) /\ r.pc = "store" /\ next \in [Nodes -> Nodes \cup {NULL}]
  BY CallFacts DEF store
<1>2. GivesInv(r) /\ Counted(r) /\ r.chunks = <<x>> /\ r.objs # <<>>
  BY <1>1 DEF CallInv, Counted, GivesInv
<1>3. r.objs \in Seq(Nodes) /\ r.old.ptr \in Nodes \cup {NULL}
  BY <1>1 DEF RunRecords, Pointer
<1>4. x \in Nodes /\ x \in Members(r.objs)
  BY <1>2, <1>3, FirstFacts DEF Members
<1>5. next' = [next EXCEPT ![x] = r.old.ptr]
  BY <1>2 DEF store
<1>6. /\ run' = [run EXCEPT ![t] = q]
      /\ UNCHANGED <<head, alloc_cnt, free_cnt, held, cache, pool>>
  BY DEF store, Go
<1>7. /\ q \in RunRecords /\ q.op = r.op /\ q.objs = r.objs /\ q.chunks = r.chunks
      /\ q.pc = "cas_free" /\ q.old = r.old
  BY <1>1 DEF RunRecords
<1> HIDE DEF q
<1>8. /\ next' \in [Nodes -> Nodes \cup {NULL}] /\ next'[x] = r.old.ptr
      /\ \A n \in Nodes : n \notin Holds(t) => next'[n] = next[n]
  BY <1>1, <1>3, <1>4, <1>5 DEF Holds
<1>9. run'[t] = q /\ \A u \in Threads : u # t => run'[u] = run[u]
  BY <1>6 DEF IInv, TypeOK
<1>10. CallInv(run[t])'
  BY <1>1, <1>2, <1>6, <1>7, <1>8, <1>9 DEF CallInv, GivesInv
<1>11. RunInv'
  <2>1. \A u \in Threads : u # t => CallInv(run[u])'
    BY <1>1, <1>6, <1>8, <1>9, OthersKeep
  <2>2. \A u \in Threads : cache'[u] # <<>> => BatchSize = 1
    BY <1>6 DEF IInv, RunInv
  <2> QED BY <1>10, <2>1, <2>2 DEF RunInv
<1>12. AloneInv' /\ pool' \in {"open", "closing"}
  BY <1>1, <1>6, <1>7, AloneGoesOn
<1>13. /\ held \in [Threads -> SUBSET Nodes] /\ cache \in [Threads -> Seq(Nodes)]
       /\ Len(cache[t]) <= CacheSize
  BY DEF IInv, TypeOK
<1>14. held' = [held EXCEPT ![t] = held[t]] /\ cache' = [cache EXCEPT ![t] = cache[t]]
  BY <1>6, <1>13
<1>15. /\ held[t] \cap Members(cache[t]) = {} /\ held[t] \cap Members(q.objs) = {}
       /\ Members(cache[t]) \cap Members(q.objs) = {} /\ Distinct(cache[t]) /\ Distinct(q.objs)
       /\ held[t] \cup Members(cache[t]) \cup Members(q.objs) = Holds(t)
  BY <1>7 DEF IInv, OwnersInv, Holds
<1>16. Counted(q)
  BY <1>7 DEF Counted
<1> QED BY <1>2, <1>6, <1>7, <1>8, <1>11, <1>12, <1>13, <1>14, <1>15, <1>16, MovesKeep

\* The compare-and-swap of an allocation succeeds.
CasTakes(t) ==
  /\ run[t].pc = "cas"
  /\ Swings(run[t].target, run[t].old, run[t].new)
  /\ held' = [held EXCEPT ![t] = @ \cup Members(run[t].chunks)]
  /\ Go(t, [run[t] EXCEPT !.pc = "count"])
  /\ UNCHANGED <<next, alloc_cnt, free_cnt, cache, pool>>

\* It takes the top of a list, which is still where the thread found it.
LEMMA TakesTop ==
  ASSUME IInv, NEW t \in Threads, CasTakes(t)
  PROVE  LET n == run[t].old.ptr
         IN  /\ ListsInv' /\ n \in Listed /\ n \in Nodes /\ Listed' = Listed \ {n}
             /\ \/ Fresh # <<>> /\ n = Head(Fresh) /\ Fresh' = Tail(Fresh) /\ Freed' = Freed
                \/ Freed # <<>> /\ n = Head(Freed) /\ Freed' = Tail(Freed) /\ Fresh' = Fresh
             /\ Members(Fresh)' \cap Members(Freed)' = {}
             /\ Len(Fresh)' + Len(Freed)' = Len(Fresh) + Len(Freed) - 1
<1> DEFINE r == run[t]
           n == r.old.ptr
<1>1. r \in RunRecords /\ CallInv(r) /\ r.pc = "cas" /\ head \in [{"head", "free_list"} -> Pointer]
  BY CallFacts DEF CasTakes, IInv, TypeOK
<1>2. TakesInv(r) /\ r.target \in {"head", "free_list"}
  BY <1>1 DEF CallInv, RunRecords
<1>3. /\ head[r.target] = r.old /\ UNCHANGED next
      /\ head' = [head EXCEPT ![r.target] = [ptr |-> r.new, ver |-> r.old.ver + 1]]
  BY DEF CasTakes, Swings
<1>4. n # NULL /\ r.new = next[n] /\ head[r.target].ptr = n
  BY <1>1, <1>2, <1>3 DEF TakesInv
<1>5. /\ IsList(next, head["head"].ptr, Fresh) /\ IsList(next, head["free_list"].ptr, Freed)
      /\ Members(Fresh) \cap Members(Freed) = {}
  BY DEF IInv, ListsInv, OwnersInv
<1>6. n \in Listed /\ n \in Nodes
  BY <1>2, <1>4, HeadIsListed
<1>7. Len(Fresh) \in Nat /\ Len(Freed) \in Nat
  BY <1>5 DEF IsList
<1> HIDE DEF r, n
<1>8. CASE r.target = "head"
  <2>1. head'["head"].ptr = next[n] /\ head'["free_list"] = head["free_list"]
    BY <1>1, <1>3, <1>4, <1>8
  <2>2. Fresh # <<>>
    BY <1>4, <1>5, <1>8, ListStart
  <2>3. /\ IsList(next, next[n], Tail(Fresh)) /\ n = Head(Fresh) /\ n \in Members(Fresh)
        /\ Members(Tail(Fresh)) = Members(Fresh) \ {n} /\ Len(Tail(Fresh)) = Len(Fresh) - 1
    BY <1>4, <1>5, <1>8, <2>2, ListTail
  <2>4. IsList(next', head'["head"].ptr, Tail(Fresh)) /\ IsList(next', head'["free_list"].ptr, Freed)
    BY <1>3, <1>5, <2>1, <2>3
  <2>5. Fresh' = Tail(Fresh) /\ Freed' = Freed /\ ListsInv'
    BY <2>4, ListsAfter
  <2>6. Listed' = Listed \ {n} /\ Members(Fresh)' \cap Members(Freed)' = {}
    BY <1>5, <2>3, <2>5 DEF Listed
  <2>7. Len(Fresh)' + Len(Freed)' = Len(Fresh) + Len(Freed) - 1
    BY <1>7, <2>3, <2>5
  <2> QED BY <1>6, <2>2, <2>3, <2>5, <2>6, <2>7 DEF n, r
<1>9. CASE r.target = "free_list"
  <2>1. head'["free_list"].ptr = next[n] /\ head'["head"] = head["head"]
    BY <1>1, <1>3, <1>4, <1>9
  <2>2. Freed # <<>>
    BY <1>4, <1>5, <1>9, ListStart
  <2>3. /\ IsList(next, next[n], Tail(Freed)) /\ n = Head(Freed) /\ n \in Members(Freed)
        /\ Members(Tail(Freed)) = Members(Freed) \ {n} /\ Len(Tail(Freed)) = Len(Freed) - 1
    BY <1>4, <1>5, <1>9, <2>2, ListTail
  <2>4. IsList(next', head'["head"].ptr, Fresh) /\ IsList(next', head'["free_list"].ptr, Tail(Freed))
    BY <1>3, <1>5, <2>1, <2>3
  <2>5. Freed' = Tail(Freed) /\ Fresh' = Fresh /\ ListsInv'
    BY <2>4, ListsAfter
  <2>6. Listed' = Listed \ {n} /\ Members(Fresh)' \cap Members(Freed)' = {}
    BY <1>5, <2>3, <2>5 DEF Listed
  <2>7. Len(Fresh)' + Len(Freed)' = Len(Fresh) + Len(Freed) - 1
    BY <1>7, <2>3, <2>5
  <2> QED BY <1>6, <2>2, <2>3, <2>5, <2>6, <2>7 DEF n, r
<1> QED BY <1>2, <1>8, <1>9

\* How a thread that has not counted yet, or has now, changes their number.
CountedNow(b) == IF b THEN 1 ELSE 0
IsTaken(r) == r.pc = "count" /\ r.chunks # <<>>
IsGiven(r) == r.pc = "count_free"
LEMMA PendingStep ==
  ASSUME IInv, NEW t \in Threads, NEW r, run' = [run EXCEPT ![t] = r]
  PROVE  /\ Cardinality(Taken) \in Nat /\ Cardinality(Given) \in Nat /\ IsFiniteSet(Busy')
         /\ Cardinality(Taken') = Cardinality(Taken) + CountedNow(IsTaken(r)) - CountedNow(IsTaken(run[t]))
         /\ Cardinality(Given') = Cardinality(Given) + CountedNow(IsGiven(r)) - CountedNow(IsGiven(run[t]))
<1>1. /\ TypeOK /\ IsFiniteSet(Busy) /\ run \in [Threads -> RunRecords]
  BY TypeParts DEF IInv, CountInv
<1>2. run'[t] = r /\ \A u \in Threads : u # t => run'[u] = run[u]
  BY <1>1
<1>3. IsFiniteSet(Taken) /\ IsFiniteSet(Given)
  <2>1. Taken \subseteq Busy /\ Given \subseteq Busy
    BY DEF Taken, Given, Busy
  <2> QED BY <1>1, <2>1, FS_Subset
<1>4. Cardinality(Taken) \in Nat /\ Cardinality(Given) \in Nat /\ IsFiniteSet(Busy')
  BY <1>1, <1>3, FS_CardinalityType, BusyStep
<1>5. /\ t \in Taken <=> IsTaken(run[t])
      /\ Taken' = IF IsTaken(r) THEN Taken \cup {t} ELSE Taken \ {t}
  BY <1>2 DEF Taken, IsTaken
<1>6. /\ t \in Given <=> IsGiven(run[t])
      /\ Given' = IF IsGiven(r) THEN Given \cup {t} ELSE Given \ {t}
  BY <1>2 DEF Given, IsGiven
<1>7. ASSUME NEW S, IsFiniteSet(S), NEW b, b \in BOOLEAN
      PROVE  LET T == IF b THEN S \cup {t} ELSE S \ {t}
             IN  Cardinality(T) = Cardinality(S) + CountedNow(b) - CountedNow(t \in S)
  <2>1. /\ Cardinality(S \cup {t}) = IF t \in S THEN Cardinality(S) ELSE Cardinality(S) + 1
        /\ Cardinality(S \ {t}) = IF t \in S THEN Cardinality(S) - 1 ELSE Cardinality(S)
        /\ Cardinality(S) \in Nat
    BY <1>7, FS_AddElement, FS_RemoveElement, FS_CardinalityType
  <2> QED BY <1>7, <2>1 DEF CountedNow
<1>8. IsTaken(r) \in BOOLEAN /\ IsGiven(r) \in BOOLEAN
  BY DEF IsTaken, IsGiven
<1>9. /\ Cardinality(Taken') = Cardinality(Taken) + CountedNow(IsTaken(r)) - CountedNow(t \in Taken)
      /\ Cardinality(Given') = Cardinality(Given) + CountedNow(IsGiven(r)) - CountedNow(t \in Given)
  BY <1>3, <1>5, <1>6, <1>7, <1>8
<1>10. /\ CountedNow(t \in Taken) = CountedNow(IsTaken(run[t]))
       /\ CountedNow(t \in Given) = CountedNow(IsGiven(run[t]))
  BY <1>5, <1>6 DEF CountedNow
<1> QED BY <1>4, <1>9, <1>10

LEMMA CasTakesKeeps ==
  ASSUME IInv, SingleNodes, NEW t \in Threads, CasTakes(t)
  PROVE  IInv' /\ \A u \in Threads : Holds(u)' = IF u = t THEN Holds(t) \cup {run[t].old.ptr}
                                                ELSE Holds(u)
<1> DEFINE r == run[t]
           n == r.old.ptr
           q == [r EXCEPT !.pc = "count"]
<1>1. /\ r \in RunRecords /\ CallInv(r) /\ r.pc = "cas" /\ TypeOK
      /\ head \in [{"head", "free_list"} -> Pointer] /\ held \in [Threads -> SUBSET Nodes]
      /\ next \in [Nodes -> Nodes \cup {NULL}]
  BY CallFacts DEF CasTakes, IInv, TypeOK
<1>2. TakesInv(r) /\ r.target \in {"head", "free_list"}
  BY <1>1 DEF CallInv, RunRecords
<1>3. /\ r.chunks = <<n>> /\ Members(r.chunks) = {n} /\ r.objs = <<>> /\ r.chunks # <<>>
      /\ Len(r.chunks) = 1
  BY <1>1, <1>2, OneMember DEF TakesInv
<1>4. /\ head[r.target] = r.old
      /\ head' = [head EXCEPT ![r.target] = [ptr |-> r.new, ver |-> r.old.ver + 1]]
      /\ held' = [held EXCEPT ![t] = held[t] \cup {n}] /\ run' = [run EXCEPT ![t] = q]
      /\ UNCHANGED <<next, alloc_cnt, free_cnt, cache, pool>>
  BY <1>3 DEF CasTakes, Swings, Go
<1>5. /\ q \in RunRecords /\ q.op = r.op /\ q.objs = <<>> /\ q.chunks = r.chunks
      /\ q.pc = "count" /\ q.count = r.count
  BY <1>1, <1>3 DEF RunRecords
<1>6. /\ ListsInv' /\ n \in Listed /\ n \in Nodes /\ Listed' = Listed \ {n}
      /\ Members(Fresh)' \cap Members(Freed)' = {}
      /\ Len(Fresh)' + Len(Freed)' = Len(Fresh) + Len(Freed) - 1
  BY TakesTop
<1> HIDE DEF r, n, q
<1>7. /\ held'[t] = held[t] \cup {n} /\ run'[t] = q
      /\ \A u \in Threads : u # t => held'[u] = held[u] /\ run'[u] = run[u]
  BY <1>1, <1>4, TypeParts
<1>8. \A u \in Threads : Holds(u)' = IF u = t THEN Holds(t) \cup {n} ELSE Holds(u)
  BY <1>3, <1>4, <1>5, <1>7 DEF Holds, r
<1>9. TypeOK'
  <2>1. [ptr |-> r.new, ver |-> r.old.ver + 1] \in Pointer
    BY <1>1 DEF Pointer, RunRecords
  <2>2. head' \in [{"head", "free_list"} -> Pointer]
    BY <1>1, <1>2, <1>4, <2>1
  <2>3. held' \in [Threads -> SUBSET Nodes] /\ run' \in [Threads -> RunRecords]
    BY <1>1, <1>4, <1>5, <1>6, TypeParts
  <2> QED BY <1>1, <1>4, <2>2, <2>3 DEF TypeOK, RunRecords
<1>10. OwnersInv'
  <2>1. OwnersInv
    BY DEF IInv
  <2>2. \A u \in Threads : n \notin Holds(u)
    BY <1>6, <2>1 DEF OwnersInv
  <2>3. ASSUME NEW u \in Threads
        PROVE  /\ (held[u] \cap Members(cache[u]))' = {}
               /\ (held[u] \cap Members(run[u].objs))' = {}
               /\ (Members(cache[u]) \cap Members(run[u].objs))' = {}
               /\ Distinct(cache[u])' /\ Distinct(run[u].objs)'
    <3>1. CASE u = t
      BY <1>3, <1>4, <1>5, <1>7, <2>1, <2>2, <3>1 DEF OwnersInv, Holds, r
    <3>2. CASE u # t
      BY <1>4, <1>7, <2>1, <3>2 DEF OwnersInv
    <3> QED BY <3>1, <3>2
  <2>4. ASSUME NEW u \in Threads PROVE (Holds(u) \cap Listed)' = {}
    BY <1>6, <1>8, <2>1 DEF OwnersInv
  <2>5. ASSUME NEW u \in Threads, NEW v \in Threads, u # v PROVE (Holds(u) \cap Holds(v))' = {}
    BY <1>8, <2>1, <2>2, <2>5 DEF OwnersInv
  <2>6. ASSUME NEW m \in Nodes PROVE m \in Listed' \/ \E u \in Threads : m \in Holds(u)'
    BY <1>6, <1>8, <2>1 DEF OwnersInv
  <2> QED BY <1>6, <2>3, <2>4, <2>5, <2>6 DEF OwnersInv
<1>11. RunInv'
  <2>1. ASSUME NEW list \in {"head", "free_list"}
        PROVE  head'[list] = head[list] \/ head'[list].ver = head[list].ver + 1
    BY <1>1, <1>2, <1>4
  <2>2. \A u \in Threads : u # t => CallInv(run[u])'
    BY <1>1, <1>4, <1>7, <2>1, OthersKeep DEF r
  <2>3. CallInv(run[t])'
    BY <1>2, <1>3, <1>5, <1>7 DEF CallInv, TakesInv
  <2>4. \A u \in Threads : cache'[u] # <<>> => BatchSize = 1
    BY <1>4 DEF IInv, RunInv
  <2> QED BY <2>2, <2>3, <2>4 DEF RunInv
<1>12. AloneInv' /\ pool' \in {"open", "closing"}
  BY <1>1, <1>4, <1>5, AloneGoesOn DEF r
<1>13. CountInv'
  <2>1. Cardinality(Taken') = Cardinality(Taken) + 1 /\ Cardinality(Given') = Cardinality(Given)
    <3>1. /\ CountedNow(IsTaken(q)) = 1 /\ CountedNow(IsTaken(r)) = 0
          /\ CountedNow(IsGiven(q)) = 0 /\ CountedNow(IsGiven(r)) = 0
      BY <1>1, <1>3, <1>5 DEF CountedNow, IsTaken, IsGiven
    <3>2. /\ Cardinality(Taken) \in Nat /\ Cardinality(Given) \in Nat
          /\ Cardinality(Taken') = Cardinality(Taken) + CountedNow(IsTaken(q)) - CountedNow(IsTaken(r))
          /\ Cardinality(Given') = Cardinality(Given) + CountedNow(IsGiven(q)) - CountedNow(IsGiven(r))
      BY <1>4, PendingStep DEF r
    <3> QED BY <3>1, <3>2
  <2>2. /\ Len(Fresh) \in Nat /\ Len(Freed) \in Nat /\ alloc_cnt \in Nat
        /\ Cardinality(Taken) \in Nat /\ Cardinality(Given) \in Nat /\ IsFiniteSet(Busy')
    <3>1. /\ Fresh \in Seq(Nodes) /\ Freed \in Seq(Nodes) /\ alloc_cnt \in Nat
      BY DEF IInv, ListsInv, IsList, TypeOK
    <3>2. Len(Fresh) \in Nat /\ Len(Freed) \in Nat
      BY <3>1, LenProperties
    <3>3. Cardinality(Taken) \in Nat /\ Cardinality(Given) \in Nat /\ IsFiniteSet(Busy')
      BY <1>4, PendingStep
    <3> QED BY <3>1, <3>2, <3>3
  <2>3. Len(Fresh) + Len(Freed) + alloc_cnt + Cardinality(Taken)
          = Capacity + free_cnt + Cardinality(Given)
    BY DEF IInv, CountInv
  <2> QED BY <1>4, <1>6, <2>1, <2>2, <2>3 DEF CountInv
<1>14. AbortIffLeak'
  BY <1>12 DEF AbortIffLeak
<1> QED BY <1>6, <1>8, <1>9, <1>10, <1>11, <1>12, <1>13, <1>14 DEF IInv, n, r

\* The compare-and-swap of a release succeeds.
CasGives(t) ==
  /\ run[t].pc = "cas_free"
  /\ Swings("free_list", run[t].old, run[t].chunks[1])
  /\ Go(t, [run[t] EXCEPT !.pc = "count_free", !.objs = SubSeq(@, Len(run[t].chunks) + 1, Len(@))])
  /\ UNCHANGED <<next, alloc_cnt, free_cnt, held, cache, pool>>

\* It puts the node it is at on top of the free list.
LEMMA GivesTop ==
  ASSUME IInv, NEW t \in Threads, CasGives(t)
  PROVE  LET n == run[t].objs[1]
         IN  /\ ListsInv' /\ n \in Members(run[t].objs) /\ n \in Nodes /\ n \notin Listed
             /\ run[t].objs \in Seq(Nodes) /\ run[t].objs # <<>> /\ run[t].chunks = <<n>>
             /\ Listed' = Listed \cup {n}
             /\ Freed' = <<n>> \o Freed /\ Fresh' = Fresh
             /\ Members(Fresh)' \cap Members(Freed)' = {}
             /\ Len(Freed)' = Len(Freed) + 1
<1> DEFINE r == run[t]
           n == r.objs[1]
<1>1. r \in RunRecords /\ CallInv(r) /\ r.pc = "cas_free" /\ head \in [{"head", "free_list"} -> Pointer]
  BY CallFacts DEF CasGives, IInv, TypeOK
<1>2. GivesInv(r) /\ r.objs # <<>> /\ r.chunks = <<n>> /\ next[n] = r.old.ptr
  BY <1>1 DEF CallInv, GivesInv
<1>3. r.objs \in Seq(Nodes)
  BY <1>1 DEF RunRecords
<1>4. n \in Nodes /\ n \in Members(r.objs)
  BY <1>2, <1>3, FirstFacts DEF Members
<1>5. /\ head["free_list"] = r.old /\ UNCHANGED next
      /\ head' = [head EXCEPT !["free_list"] = [ptr |-> n, ver |-> r.old.ver + 1]]
  BY <1>2 DEF CasGives, Swings
<1>6. /\ IsList(next, head["head"].ptr, Fresh) /\ IsList(next, head["free_list"].ptr, Freed)
      /\ Members(Fresh) \cap Members(Freed) = {}
  BY DEF IInv, ListsInv, OwnersInv
<1>7. n \notin Listed
  BY <1>4 DEF IInv, OwnersInv, Holds
<1> HIDE DEF r, n
<1>8. /\ IsList(next, n, <<n>> \o Freed) /\ Members(<<n>> \o Freed) = Members(Freed) \cup {n}
      /\ Len(<<n>> \o Freed) = Len(Freed) + 1
  <2>1. n \notin Members(Freed) /\ next[n] = head["free_list"].ptr
    BY <1>2, <1>5, <1>7 DEF Listed
  <2> QED BY <1>4, <1>6, <2>1, ListCons
<1>9. head'["free_list"].ptr = n /\ head'["head"] = head["head"]
  BY <1>1, <1>5
<1>10. IsList(next', head'["head"].ptr, Fresh) /\ IsList(next', head'["free_list"].ptr, <<n>> \o Freed)
  BY <1>5, <1>6, <1>8, <1>9
<1>11. Fresh' = Fresh /\ Freed' = <<n>> \o Freed /\ ListsInv'
  BY <1>10, ListsAfter
<1>12. Listed' = Listed \cup {n} /\ Members(Fresh)' \cap Members(Freed)' = {}
  BY <1>6, <1>7, <1>8, <1>11 DEF Listed
<1> QED BY <1>2, <1>3, <1>4, <1>7, <1>8, <1>11, <1>12 DEF n, r

LEMMA CasGivesKeeps ==
  ASSUME IInv, SingleNodes, NEW t \in Threads, CasGives(t)
  PROVE  /\ IInv'
         /\ run[t].objs[1] \in Holds(t)
         /\ \A u \in Threads : Holds(u)' = IF u = t THEN Holds(t) \ {run[t].objs[1]} ELSE Holds(u)
<1> DEFINE r == run[t]
           n == r.objs[1]
           q == [r EXCEPT !.pc = "count_free", !.objs = Tail(r.objs)]
<1>1. /\ r \in RunRecords /\ CallInv(r) /\ r.pc = "cas_free" /\ TypeOK
      /\ head \in [{"head", "free_list"} -> Pointer]
      /\ next \in [Nodes -> Nodes \cup {NULL}]
  BY CallFacts DEF CasGives, IInv, TypeOK
<1>2. GivesInv(r)
  BY <1>1 DEF CallInv
<1>3. /\ ListsInv' /\ n \in Members(r.objs) /\ n \in Nodes /\ n \notin Listed
      /\ r.objs \in Seq(Nodes) /\ r.objs # <<>> /\ r.chunks = <<n>> /\ Listed' = Listed \cup {n}
      /\ Fresh' = Fresh /\ Members(Fresh)' \cap Members(Freed)' = {}
      /\ Len(Freed)' = Len(Freed) + 1
  BY GivesTop
<1>4. Distinct(r.objs) /\ Len(r.chunks) = 1
  BY <1>3, OneMember DEF IInv, OwnersInv
<1>5. /\ Tail(r.objs) \in Seq(Nodes) /\ Distinct(Tail(r.objs))
      /\ Members(Tail(r.objs)) = Members(r.objs) \ {n}
      /\ SubSeq(r.objs, 2, Len(r.objs)) = Tail(r.objs)
      /\ Len(r.objs) \in Nat \ {0} /\ Len(Tail(r.objs)) = Len(r.objs) - 1
  BY <1>3, <1>4, TailFacts, FirstFacts
<1>6. /\ head["free_list"] = r.old
      /\ head' = [head EXCEPT !["free_list"] = [ptr |-> n, ver |-> r.old.ver + 1]]
      /\ run' = [run EXCEPT ![t] = q]
      /\ UNCHANGED <<next, alloc_cnt, free_cnt, held, cache, pool>>
  <2>1. [r EXCEPT !.pc = "count_free", !.objs = SubSeq(@, Len(r.chunks) + 1, Len(@))] = q
    <3>1. Len(r.chunks) + 1 = 2
      BY <1>4
    <3>2. SubSeq(r.objs, Len(r.chunks) + 1, Len(r.objs)) = Tail(r.objs)
      BY <1>5, <3>1
    <3> QED BY <1>1, <3>2 DEF RunRecords
  <2>2. r.chunks[1] = n
    BY <1>3
  <2> HIDE DEF q
  <2> QED BY <2>1, <2>2 DEF CasGives, Swings, Go
<1>7. /\ q \in RunRecords /\ q.op = r.op /\ q.objs = Tail(r.objs) /\ q.chunks = r.chunks
      /\ q.pc = "count_free"
  BY <1>1, <1>5 DEF RunRecords
<1> HIDE DEF r, n, q
<1>8. run'[t] = q /\ \A u \in Threads : u # t => run'[u] = run[u]
  BY <1>1, <1>6, TypeParts
<1>9. /\ held[t] \cap Members(cache[t]) = {} /\ held[t] \cap Members(r.objs) = {}
      /\ Members(cache[t]) \cap Members(r.objs) = {} /\ Distinct(cache[t])
  BY DEF IInv, OwnersInv, r
<1>10. n \in Holds(t) /\ \A u \in Threads : Holds(u)' = IF u = t THEN Holds(t) \ {n} ELSE Holds(u)
  BY <1>3, <1>5, <1>6, <1>7, <1>8, <1>9 DEF Holds, r
<1>11. TypeOK'
  <2>1. [ptr |-> n, ver |-> r.old.ver + 1] \in Pointer
    BY <1>1, <1>3 DEF Pointer, RunRecords
  <2>2. head' \in [{"head", "free_list"} -> Pointer]
    BY <1>1, <1>6, <2>1
  <2>3. run' \in [Threads -> RunRecords]
    BY <1>1, <1>6, <1>7, TypeParts
  <2> QED BY <1>1, <1>6, <2>2, <2>3 DEF TypeOK, RunRecords
<1>12. OwnersInv'
  <2>1. OwnersInv
    BY DEF IInv
  <2>2. \A u \in Threads : u # t => n \notin Holds(u)
    BY <1>10, <2>1 DEF OwnersInv
  <2>3. ASSUME NEW u \in Threads
        PROVE  /\ (held[u] \cap Members(cache[u]))' = {}
               /\ (held[u] \cap Members(run[u].objs))' = {}
               /\ (Members(cache[u]) \cap Members(run[u].objs))' = {}
               /\ Distinct(cache[u])' /\ Distinct(run[u].objs)'
    <3>1. CASE u = t
      BY <1>5, <1>6, <1>7, <1>8, <1>9, <3>1
    <3>2. CASE u # t
      BY <1>6, <1>8, <2>1, <3>2 DEF OwnersInv
    <3> QED BY <3>1, <3>2
  <2>4. ASSUME NEW u \in Threads PROVE (Holds(u) \cap Listed)' = {}
    BY <1>3, <1>10, <2>1, <2>2 DEF OwnersInv
  <2>5. ASSUME NEW u \in Threads, NEW v \in Threads, u # v PROVE (Holds(u) \cap Holds(v))' = {}
    BY <1>10, <2>1, <2>5 DEF OwnersInv
  <2>6. ASSUME NEW m \in Nodes PROVE m \in Listed' \/ \E u \in Threads : m \in Holds(u)'
    BY <1>3, <1>10, <2>1 DEF OwnersInv
  <2> QED BY <1>3, <2>3, <2>4, <2>5, <2>6 DEF OwnersInv
<1>13. RunInv'
  <2>1. ASSUME NEW list \in {"head", "free_list"}
        PROVE  head'[list] = head[list] \/ head'[list].ver = head[list].ver + 1
    BY <1>1, <1>6
  <2>2. \A u \in Threads : u # t => CallInv(run[u])'
    BY <1>1, <1>6, <1>8, <2>1, OthersKeep DEF r
  <2>3. CallInv(run[t])'
    <3>1. r.op = "free" => Tail(r.objs) = <<>>
      <4>1. r.op = "free" => Len(r.objs) <= 1
        BY <1>2 DEF GivesInv
      <4> DEFINE k == Len(r.objs)
                 m == Len(Tail(r.objs))
      <4>2. k \in Nat \ {0} /\ m = k - 1 /\ (r.op = "free" => k <= 1)
        BY <1>5, <4>1
      <4> HIDE DEF k, m
      <4>3. r.op = "free" => m = 0
        BY <4>2
      <4> QED BY <1>5, <4>3, EmptySeq DEF m
    <3>2. Len(<<>>) = 0
      OBVIOUS
    <3>3. GivesInv(run[t])'
      <4> DEFINE o == q.objs
      <4>1. /\ r.op = "free" => o = <<>> /\ Len(o) <= 1
            /\ r.op \in {"free", "free_batch", "flush", "destroy"}
            /\ r.op = "free" \/ BatchSize = 1
        BY <1>2, <1>7, <3>1, <3>2 DEF GivesInv
      <4>2. run'[t].objs = o /\ run'[t].op = r.op /\ run'[t].pc = "count_free" /\ Len(run'[t].chunks) = 1
        BY <1>4, <1>7, <1>8
      <4> HIDE DEF o
      <4> QED BY <4>1, <4>2 DEF GivesInv
    <3> QED BY <1>7, <1>8, <3>3 DEF CallInv
  <2>4. \A u \in Threads : cache'[u] # <<>> => BatchSize = 1
    BY <1>6 DEF IInv, RunInv
  <2> QED BY <2>2, <2>3, <2>4 DEF RunInv
<1>14. AloneInv' /\ pool' \in {"open", "closing"}
  BY <1>1, <1>6, <1>7, AloneGoesOn DEF r
<1>15. CountInv'
  <2>1. Cardinality(Taken') = Cardinality(Taken) /\ Cardinality(Given') = Cardinality(Given) + 1
    <3>1. /\ CountedNow(IsTaken(q)) = 0 /\ CountedNow(IsTaken(r)) = 0
          /\ CountedNow(IsGiven(q)) = 1 /\ CountedNow(IsGiven(r)) = 0
      BY <1>1, <1>7 DEF CountedNow, IsTaken, IsGiven
    <3>2. /\ Cardinality(Taken) \in Nat /\ Cardinality(Given) \in Nat
          /\ Cardinality(Taken') = Cardinality(Taken) + CountedNow(IsTaken(q)) - CountedNow(IsTaken(r))
          /\ Cardinality(Given') = Cardinality(Given) + CountedNow(IsGiven(q)) - CountedNow(IsGiven(r))
      BY <1>6, PendingStep DEF r
    <3> QED BY <3>1, <3>2
  <2>2. /\ Len(Fresh) \in Nat /\ Len(Freed) \in Nat
        /\ Cardinality(Taken) \in Nat /\ Cardinality(Given) \in Nat /\ IsFiniteSet(Busy')
        /\ alloc_cnt \in Nat /\ free_cnt \in Nat
    <3>1. /\ Fresh \in Seq(Nodes) /\ Freed \in Seq(Nodes) /\ alloc_cnt \in Nat /\ free_cnt \in Nat
      BY DEF IInv, ListsInv, IsList, TypeOK
    <3>2. Len(Fresh) \in Nat /\ Len(Freed) \in Nat
      BY <3>1, LenProperties
    <3>3. Cardinality(Taken) \in Nat /\ Cardinality(Given) \in Nat /\ IsFiniteSet(Busy')
      BY <1>6, PendingStep
    <3> QED BY <3>1, <3>2, <3>3
  <2>3. Len(Fresh) + Len(Freed) + alloc_cnt + Cardinality(Taken)
          = Capacity + free_cnt + Cardinality(Given)
    BY DEF IInv, CountInv
  <2>4. /\ Len(Fresh)' = Len(Fresh) /\ Len(Freed)' = Len(Freed) + 1
        /\ alloc_cnt' = alloc_cnt /\ free_cnt' = free_cnt
    BY <1>3, <1>6
  <2> QED BY <2>1, <2>2, <2>3, <2>4, CapacityAssumption DEF CountInv
<1>16. AbortIffLeak'
  BY <1>14 DEF AbortIffLeak
<1> QED BY <1>3, <1>10, <1>11, <1>12, <1>13, <1>14, <1>15, <1>16 DEF IInv, n, r

-----------------------------------------------------------------------------
(* Counting, and the leak check.                                           *)

\* The thread counts the node it took or gave, if there is one.
LEMMA CountsKeep ==
  ASSUME IInv, AloneInv', AbortIffLeak', NEW t \in Threads, NEW r \in RunRecords, Go(t, r),
         UNCHANGED <<next, head, held, cache>>, r.objs = run[t].objs,
         CallInv(r), Counted(r),
         alloc_cnt' = alloc_cnt + CountedNow(IsTaken(run[t])),
         free_cnt' = free_cnt + CountedNow(IsGiven(run[t])),
         pool' \in {"open", "closing", "destroyed", "aborted"}
  PROVE  IInv' /\ SamePlaces
<1>1. TypeOK /\ CountInv /\ run' = [run EXCEPT ![t] = r]
  BY DEF IInv, Go
<1>2. TypeOK'
  <2>1. alloc_cnt' \in Nat /\ free_cnt' \in Nat
    BY <1>1 DEF TypeOK, CountedNow
  <2>2. run' \in [Threads -> RunRecords]
    BY <1>1, TypeParts
  <2> QED BY <1>1, <2>1, <2>2 DEF TypeOK, RunRecords
<1>3. /\ held \in [Threads -> SUBSET Nodes] /\ cache \in [Threads -> Seq(Nodes)]
      /\ cache[t] # <<>> => BatchSize = 1
  BY DEF IInv, TypeOK, RunInv
<1>4. held' = [held EXCEPT ![t] = held[t]] /\ cache' = [cache EXCEPT ![t] = cache[t]]
  BY <1>3
<1>5. /\ held[t] \cap Members(cache[t]) = {} /\ held[t] \cap Members(r.objs) = {}
      /\ Members(cache[t]) \cap Members(r.objs) = {} /\ Distinct(cache[t]) /\ Distinct(r.objs)
      /\ held[t] \cup Members(cache[t]) \cup Members(r.objs) = Holds(t)
  BY DEF IInv, OwnersInv, Holds
<1>6. ListsInv' /\ OwnersInv' /\ SamePlaces
  BY <1>1, <1>3, <1>4, <1>5, PlacesKeep
<1>7. RunInv'
  BY <1>1, <1>3, <1>4, RunSame
<1>8. CountInv'
  <2> DEFINE b == IsTaken(run[t])
             g == IsGiven(run[t])
  <2>1. /\ Cardinality(Taken) \in Nat /\ Cardinality(Given) \in Nat /\ IsFiniteSet(Busy')
        /\ Cardinality(Taken') = Cardinality(Taken) - CountedNow(b)
        /\ Cardinality(Given') = Cardinality(Given) - CountedNow(g)
    <3>1. CountedNow(IsTaken(r)) = 0 /\ CountedNow(IsGiven(r)) = 0
      BY DEF CountedNow, IsTaken, IsGiven, Counted
    <3>2. CountedNow(b) \in Nat /\ CountedNow(g) \in Nat
      BY DEF CountedNow
    <3>3. /\ Cardinality(Taken) \in Nat /\ Cardinality(Given) \in Nat /\ IsFiniteSet(Busy')
          /\ Cardinality(Taken') = Cardinality(Taken) + CountedNow(IsTaken(r)) - CountedNow(b)
          /\ Cardinality(Given') = Cardinality(Given) + CountedNow(IsGiven(r)) - CountedNow(g)
      BY <1>1, PendingStep
    <3> HIDE DEF b, g
    <3> QED BY <3>1, <3>2, <3>3
  <2>2. Fresh' = Fresh /\ Freed' = Freed
    BY <1>6 DEF SamePlaces
  <2>3. Len(Fresh) \in Nat /\ Len(Freed) \in Nat /\ alloc_cnt \in Nat /\ free_cnt \in Nat
    <3>1. /\ Fresh \in Seq(Nodes) /\ Freed \in Seq(Nodes) /\ alloc_cnt \in Nat /\ free_cnt \in Nat
      BY DEF IInv, ListsInv, IsList, TypeOK
    <3> QED BY <3>1, LenProperties
  <2>4. /\ Len(Fresh) + Len(Freed) + alloc_cnt + Cardinality(Taken)
             = Capacity + free_cnt + Cardinality(Given)
        /\ CountedNow(b) \in Nat /\ CountedNow(g) \in Nat
        /\ alloc_cnt' = alloc_cnt + CountedNow(b) /\ free_cnt' = free_cnt + CountedNow(g)
    BY <1>1 DEF CountInv, CountedNow
  <2> HIDE DEF b, g
  <2> QED BY <2>1, <2>2, <2>3, <2>4, CapacityAssumption DEF CountInv
<1> QED BY <1>2, <1>6, <1>7, <1>8 DEF IInv

LEMMA CountKeeps ==
  ASSUME IInv, SingleNodes, NEW t \in Threads, count(t) PROVE IInv' /\ SamePlaces
<1> DEFINE r == run[t]
           left == r.count - 1
<1>1. r \in RunRecords /\ CallInv(r) /\ r.pc = "count"
  BY CallFacts DEF count
<1>2. TakesInv(r)
  BY <1>1 DEF CallInv
<1>3. CASE r.chunks = <<>>
  BY <1>3, CountNothingKeeps
<1>4. CASE r.chunks # <<>>
  <2>1. r.chunks \in Seq(Nodes) /\ r.count \in 0..Capacity
    BY <1>1 DEF RunRecords
  <2>2. Len(r.chunks) = 1
    <3>1. Len(r.chunks) # 0
      BY <1>4, <2>1
    <3>2. Len(r.chunks) \in {0, 1}
      BY <1>1, <1>2 DEF TakesInv
    <3> QED BY <3>1, <3>2
  <2>3. left \in 0..Capacity /\ (r.op = "alloc" => left = 0)
    BY <1>2, <2>1, CapacityAssumption DEF TakesInv
  <2> DEFINE q == IF left = 0 THEN Idle
                  ELSE [r EXCEPT !.pc = "load", !.count = left, !.chunks = <<>>]
  <2>4. /\ Go(t, q) /\ alloc_cnt' = alloc_cnt + 1
        /\ UNCHANGED <<next, head, free_cnt, held, cache, pool>>
    BY <2>2 DEF count, Returns, Go
  <2>5. /\ q \in RunRecords /\ (q.pc = "idle" \/ q.op = r.op) /\ q.objs = r.objs
        /\ CallInv(q) /\ Counted(q)
    <3>1. r.objs = <<>> /\ r.op \in {"alloc", "alloc_batch"}
      BY <1>2 DEF TakesInv
    <3>2. CASE left = 0
      BY <3>1, <3>2, IdleRecord
    <3>3. CASE left # 0
      <4> DEFINE o == [r EXCEPT !.pc = "load", !.count = left, !.chunks = <<>>]
      <4>1. /\ o \in RunRecords /\ o.pc = "load" /\ o.op = r.op /\ o.objs = <<>> /\ o.count = left
            /\ o.chunks = <<>>
        BY <1>1, <2>3, <3>1 DEF RunRecords
      <4>2. left >= 1
        <5> HIDE DEF left
        <5> QED BY <2>3, <3>3, CapacityAssumption
      <4> HIDE DEF o, left
      <4>3. TakesInv(o) /\ Counted(o)
        BY <2>3, <3>1, <3>3, <4>1, <4>2 DEF TakesInv, Counted
      <4>4. CallInv(o)
        BY <4>1, <4>3 DEF CallInv
      <4> QED BY <3>1, <3>3, <4>1, <4>3, <4>4 DEF o
    <3> QED BY <3>2, <3>3
  <2> HIDE DEF q
  <2>6. AloneInv' /\ pool' \in {"open", "closing"}
    BY <1>1, <2>4, <2>5, AloneGoesOn DEF Go
  <2>7. AbortIffLeak'
    BY <2>6 DEF AbortIffLeak
  <2>8. /\ CountedNow(IsTaken(r)) = 1
        /\ CountedNow(IsGiven(r)) = 0 /\ free_cnt \in Nat
    BY <1>1, <1>4 DEF CountedNow, IsTaken, IsGiven, IInv, TypeOK
  <2>9. free_cnt' = free_cnt + CountedNow(IsGiven(r))
    BY <2>4, <2>8
  <2> HIDE DEF r
  <2> QED BY <2>4, <2>5, <2>6, <2>7, <2>8, <2>9, CountsKeep DEF r
<1> QED BY <1>3, <1>4

LEMMA CountFreeKeeps == ASSUME IInv, NEW t \in Threads, count_free(t) PROVE IInv' /\ SamePlaces
<1> DEFINE r == run[t]
           q == IF r.objs # <<>> THEN [r EXCEPT !.pc = "link"]
                ELSE IF r.op = "destroy" THEN [r EXCEPT !.pc = "check"] ELSE Idle
<1>1. r \in RunRecords /\ CallInv(r) /\ r.pc = "count_free"
  BY CallFacts DEF count_free
<1>2. GivesInv(r) /\ Len(r.chunks) = 1
  BY <1>1 DEF CallInv, GivesInv
<1>3. /\ Go(t, q) /\ free_cnt' = free_cnt + 1
      /\ UNCHANGED <<next, head, alloc_cnt, held, cache, pool>>
  BY <1>2 DEF count_free, Returns, Go
<1>4. /\ q \in RunRecords /\ (q.pc = "idle" \/ q.op = r.op) /\ q.objs = r.objs
      /\ CallInv(q) /\ Counted(q)
  <2>1. CASE r.objs # <<>>
    <3> DEFINE o == [r EXCEPT !.pc = "link"]
    <3>1. o \in RunRecords /\ o.pc = "link" /\ o.op = r.op /\ o.objs = r.objs
      BY <1>1 DEF RunRecords
    <3> HIDE DEF o
    <3>2. GivesInv(o)
      BY <1>1, <1>2, <2>1, <3>1 DEF GivesInv
    <3>3. CallInv(o) /\ Counted(o)
      BY <3>1, <3>2 DEF CallInv, Counted
    <3> QED BY <2>1, <3>1, <3>3 DEF o
  <2>2. CASE r.objs = <<>> /\ r.op = "destroy"
    <3> DEFINE o == [r EXCEPT !.pc = "check"]
    <3>1. o \in RunRecords /\ o.pc = "check" /\ o.op = r.op /\ o.objs = r.objs
      BY <1>1 DEF RunRecords
    <3> HIDE DEF o
    <3>2. CallInv(o) /\ Counted(o)
      BY <2>2, <3>1 DEF CallInv, Counted
    <3> QED BY <2>2, <3>1, <3>2 DEF o
  <2>3. CASE r.objs = <<>> /\ r.op # "destroy"
    BY <2>3, IdleRecord
  <2> QED BY <2>1, <2>2, <2>3
<1> HIDE DEF q
<1>5. AloneInv' /\ pool' \in {"open", "closing"}
  BY <1>1, <1>3, <1>4, AloneGoesOn DEF Go
<1>6. AbortIffLeak'
  BY <1>5 DEF AbortIffLeak
<1>7. /\ CountedNow(IsTaken(r)) = 0
      /\ CountedNow(IsGiven(r)) = 1 /\ alloc_cnt \in Nat
  BY <1>1 DEF CountedNow, IsTaken, IsGiven, IInv, TypeOK
<1>8. alloc_cnt' = alloc_cnt + CountedNow(IsTaken(r))
  BY <1>3, <1>7
<1> HIDE DEF r
<1> QED BY <1>3, <1>4, <1>5, <1>6, <1>7, <1>8, CountsKeep DEF r

\* When no call is under way but the one that destroys the pool, the counts are
\* equal just when no thread has a node.
LEMMA LeakExact ==
  ASSUME IInv, NEW t \in Threads, run[t].pc = "check"
  PROVE  /\ alloc_cnt = free_cnt => \A u \in Threads : Holds(u) = {}
         /\ alloc_cnt # free_cnt => \E u \in Threads : Holds(u) # {}
         /\ Busy = {t}
<1>1. run[t].op = "destroy" /\ t \in Busy /\ AloneInv
  BY CallFacts DEF CallInv, Busy, IInv
<1>2. Busy = {t}
  BY <1>1 DEF AloneInv
<1>3. Taken = {} /\ Given = {}
  <2>1. Taken \subseteq Busy /\ Given \subseteq Busy /\ t \notin Taken /\ t \notin Given
    BY DEF Taken, Given, Busy
  <2> QED BY <1>2, <2>1
<1>4. /\ Fresh \in Seq(Nodes) /\ Freed \in Seq(Nodes) /\ Distinct(Fresh) /\ Distinct(Freed)
      /\ Members(Fresh) \cap Members(Freed) = {}
      /\ alloc_cnt \in Nat /\ free_cnt \in Nat
  BY DEF IInv, ListsInv, IsList, OwnersInv, TypeOK
<1>5. /\ Members(Fresh) \subseteq Nodes /\ IsFiniteSet(Members(Fresh))
      /\ Members(Freed) \subseteq Nodes /\ IsFiniteSet(Members(Freed))
      /\ Cardinality(Members(Fresh)) = Len(Fresh) /\ Cardinality(Members(Freed)) = Len(Freed)
      /\ Cardinality(Members(Fresh)) \in Nat /\ Cardinality(Members(Freed)) \in Nat
  BY <1>4, DistinctFacts
<1>6. /\ Listed \subseteq Nodes /\ IsFiniteSet(Listed)
      /\ Cardinality(Listed) = Cardinality(Members(Fresh)) + Cardinality(Members(Freed))
  <2>1. Cardinality({}) = 0
    BY FS_EmptySet
  <2>2. /\ IsFiniteSet(Listed)
        /\ Cardinality(Listed) = Cardinality(Members(Fresh)) + Cardinality(Members(Freed))
                                 - Cardinality(Members(Fresh) \cap Members(Freed))
    BY <1>5, FS_Union DEF Listed
  <2>3. Cardinality(Members(Fresh) \cap Members(Freed)) = 0
    BY <1>4, <2>1
  <2>4. Listed \subseteq Nodes
    BY <1>5 DEF Listed
  <2> QED BY <1>5, <2>2, <2>3, <2>4
<1>7. Cardinality(Listed) + alloc_cnt = Capacity + free_cnt
  <2>1. Cardinality({}) = 0
    BY FS_EmptySet
  <2>2. Len(Fresh) + Len(Freed) + alloc_cnt + 0 = Capacity + free_cnt + 0
    BY <1>3, <2>1 DEF IInv, CountInv
  <2>3. Cardinality(Members(Fresh)) + Cardinality(Members(Freed)) + alloc_cnt + 0 = Capacity + free_cnt + 0
    BY <1>5, <2>2
  <2> QED BY <1>4, <1>5, <1>6, <2>3, CapacityAssumption
<1>8. IsFiniteSet(Nodes) /\ Cardinality(Nodes) = Capacity
  BY FS_Interval, CapacityAssumption DEF Nodes
<1>9. Cardinality(Listed) = Capacity <=> Listed = Nodes
  BY <1>6, <1>8, FS_Subset
<1>10. \A u \in Threads : Holds(u) \subseteq Nodes /\ Holds(u) \cap Listed = {}
  <2> TAKE u \in Threads
  <2>1. held[u] \subseteq Nodes /\ cache[u] \in Seq(Nodes) /\ run[u].objs \in Seq(Nodes)
    BY CallFacts DEF RunRecords
  <2>2. Members(cache[u]) \subseteq Nodes /\ Members(run[u].objs) \subseteq Nodes
    BY <2>1, DistinctFacts
  <2> QED BY <2>1, <2>2 DEF Holds, IInv, OwnersInv
<1>11. \A n \in Nodes : n \in Listed \/ \E u \in Threads : n \in Holds(u)
  BY DEF IInv, OwnersInv
<1>12. ASSUME alloc_cnt = free_cnt PROVE \A u \in Threads : Holds(u) = {}
  <2>1. Cardinality(Listed) = Capacity
    <3> DEFINE c == Cardinality(Listed)
    <3>1. c \in Nat /\ c + alloc_cnt = Capacity + free_cnt
      BY <1>6, <1>7, FS_CardinalityType
    <3> HIDE DEF c
    <3>2. c = Capacity
      BY <1>4, <1>12, <3>1, CapacityAssumption
    <3> QED BY <3>2 DEF c
  <2> QED BY <1>9, <1>10, <2>1
<1>13. ASSUME alloc_cnt # free_cnt PROVE \E u \in Threads : Holds(u) # {}
  <2>1. Cardinality(Listed) # Capacity
    <3> SUFFICES ASSUME Cardinality(Listed) = Capacity PROVE FALSE
      OBVIOUS
    <3>1. Capacity + alloc_cnt = Capacity + free_cnt
      BY <1>7
    <3> QED BY <1>4, <1>13, <3>1, CapacityAssumption
  <2> QED BY <1>6, <1>9, <1>11, <2>1
<1> QED BY <1>2, <1>12, <1>13

LEMMA CheckKeeps == ASSUME IInv, NEW t \in Threads, check(t) PROVE IInv' /\ SamePlaces
<1> DEFINE r == run[t]
<1>1. r \in RunRecords /\ CallInv(r) /\ r.pc = "check" /\ r.objs = <<>>
  BY CallFacts DEF check, CallInv
<1>2. /\ Go(t, Idle) /\ UNCHANGED <<next, head, alloc_cnt, free_cnt, held, cache>>
      /\ pool' = IF alloc_cnt = free_cnt THEN "destroyed" ELSE "aborted"
  BY DEF check, Returns, Go
<1>3. Busy' = {}
  <2>1. Busy = {t}
    BY <1>1, LeakExact
  <2>2. Busy' = Busy \ {t}
    BY <1>2, BusyStep, IdleRecord DEF IInv, Go, BusyAfter
  <2> QED BY <2>1, <2>2
<1>4. AloneInv'
  BY <1>3 DEF AloneInv
<1>5. AbortIffLeak'
  <2>1. \A u \in Threads : Holds(u)' = Holds(u)
    <3>1. run'[t] = Idle /\ \A u \in Threads : u # t => run'[u] = run[u]
      BY <1>2 DEF Go, IInv, TypeOK
    <3> QED BY <1>1, <1>2, <3>1, IdleRecord DEF Holds
  <2>2. CASE alloc_cnt = free_cnt
    <3>1. pool' = "destroyed" /\ \A u \in Threads : Holds(u)' = {}
      BY <1>1, <1>2, <2>1, <2>2, LeakExact
    <3> QED BY <3>1 DEF AbortIffLeak
  <2>3. CASE alloc_cnt # free_cnt
    <3>1. pool' = "aborted" /\ \E u \in Threads : Holds(u)' # {}
      BY <1>1, <1>2, <2>1, <2>3, LeakExact
    <3> QED BY <3>1 DEF AbortIffLeak
  <2> QED BY <2>2, <2>3
<1>6. /\ CountedNow(IsTaken(r)) = 0 /\ CountedNow(IsGiven(r)) = 0
      /\ alloc_cnt \in Nat /\ free_cnt \in Nat
  BY <1>1 DEF CountedNow, IsTaken, IsGiven, IInv, TypeOK
<1>7. /\ alloc_cnt' = alloc_cnt + CountedNow(IsTaken(r))
      /\ free_cnt' = free_cnt + CountedNow(IsGiven(r))
  BY <1>2, <1>6
<1>8. pool' \in {"open", "closing", "destroyed", "aborted"} /\ Idle.objs = r.objs
  BY <1>1, <1>2, IdleRecord
<1> HIDE DEF r
<1> QED BY <1>2, <1>4, <1>5, <1>7, <1>8, IdleRecord, CountsKeep DEF r

-----------------------------------------------------------------------------
(* The calls.                                                              *)

\* A sequence without repetition, cut in two.
LEMMA SplitFacts ==
  ASSUME NEW s \in Seq(Nodes), Distinct(s), NEW k \in 0..Len(s)
  PROVE  LET a == SubSeq(s, 1, k)
             b == SubSeq(s, k + 1, Len(s))
         IN  /\ a \in Seq(Nodes) /\ Distinct(a) /\ Len(a) = k
             /\ b \in Seq(Nodes) /\ Distinct(b)
             /\ Members(a) \cup Members(b) = Members(s) /\ Members(a) \cap Members(b) = {}
             /\ Members(b) = {s[i] : i \in (k + 1)..Len(s)}
<1> DEFINE a == SubSeq(s, 1, k)
           b == SubSeq(s, k + 1, Len(s))
           n == Len(s)
<1>1. n \in Nat /\ k \in 0..n /\ s \in [1..n -> Nodes] /\ \A i, j \in 1..n : s[i] = s[j] => i = j
  BY DEF Distinct
<1>2. /\ a \in Seq(Nodes) /\ Len(a) = k /\ \A i \in 1..k : a[i] = s[i]
  <2>1. /\ 1 \in 1..(n + 1) /\ k \in (1 - 1)..n
    BY <1>1
  <2>2. /\ a \in Seq(Nodes) /\ Len(a) = IF 1 <= k THEN k - 1 + 1 ELSE 0
        /\ \A i \in 1..(k - 1 + 1) : a[i] = s[1 + i - 1]
    BY <1>1, SubSeqProperties
  <2> QED BY <1>1, <2>2
<1>3. /\ b \in Seq(Nodes) /\ Len(b) = n - k /\ \A i \in 1..(n - k) : b[i] = s[k + i]
  <2>1. /\ b \in Seq(Nodes) /\ Len(b) = IF k + 1 <= n THEN n - (k + 1) + 1 ELSE 0
        /\ \A i \in 1..(n - (k + 1) + 1) : b[i] = s[(k + 1) + i - 1]
    BY <1>1, SubSeqProperties
  <2> QED BY <1>1, <2>1
<1> HIDE DEF a, b, n
<1>4. Distinct(a) /\ Distinct(b)
  <2>1. Distinct(a)
    <3>1. ASSUME NEW i \in 1..k, NEW j \in 1..k, a[i] = a[j] PROVE i = j
      <4>1. i \in 1..n /\ j \in 1..n
        BY <1>1
      <4>2. s[i] = s[j]
        BY <1>2, <3>1
      <4> QED BY <1>1, <4>1, <4>2
    <3> QED BY <1>2, <3>1 DEF Distinct
  <2>2. Distinct(b)
    <3>1. ASSUME NEW i \in 1..n - k, NEW j \in 1..n - k, b[i] = b[j] PROVE i = j
      <4>1. i \in Int /\ j \in Int /\ k + i \in 1..n /\ k + j \in 1..n
        BY <1>1
      <4>2. s[k + i] = s[k + j]
        BY <1>3, <3>1
      <4>3. k + i = k + j
        BY <1>1, <4>1, <4>2
      <4> QED BY <1>1, <4>1, <4>3
    <3> QED BY <1>3, <3>1 DEF Distinct
  <2> QED BY <2>1, <2>2
<1>5. Members(a) = {s[i] : i \in 1..k}
  <2>1. DOMAIN a = 1..k
    BY <1>2
  <2> QED BY <1>2, <2>1 DEF Members
<1>6. Members(b) = {s[i] : i \in (k + 1)..n}
  <2>1. DOMAIN b = 1..(n - k)
    BY <1>3
  <2>2. ASSUME NEW m \in Members(b) PROVE m \in {s[i] : i \in (k + 1)..n}
    <3>1. PICK i \in 1..(n - k) : m = s[k + i]
      BY <1>3, <2>1 DEF Members
    <3>2. k + i \in (k + 1)..n
      BY <1>1
    <3> QED BY <3>1, <3>2
  <2>3. ASSUME NEW i \in (k + 1)..n PROVE s[i] \in Members(b)
    <3>1. i - k \in 1..(n - k) /\ k + (i - k) = i
      BY <1>1
    <3> QED BY <1>3, <2>1, <3>1 DEF Members
  <2> QED BY <2>2, <2>3
<1>7. Members(s) = {s[i] : i \in 1..n}
  BY <1>1 DEF Members
<1>8. 1..n = (1..k) \cup ((k + 1)..n) /\ (1..k) \cap ((k + 1)..n) = {}
  BY <1>1
<1>9. Members(a) \cup Members(b) = Members(s)
  BY <1>5, <1>6, <1>7, <1>8
<1>10. Members(a) \cap Members(b) = {}
  <2> SUFFICES ASSUME NEW i \in 1..k, NEW j \in (k + 1)..n, s[i] = s[j] PROVE FALSE
    BY <1>5, <1>6
  <2>1. i \in 1..n /\ j \in 1..n /\ i # j
    BY <1>1
  <2> QED BY <1>1, <2>1
<1> QED BY <1>2, <1>3, <1>4, <1>6, <1>9, <1>10 DEF a, b, n

\* Two sequences without repetition that share nothing, one after the other.
LEMMA JoinFacts ==
  ASSUME NEW a \in Seq(Nodes), NEW b \in Seq(Nodes), Distinct(a), Distinct(b),
         Members(a) \cap Members(b) = {}
  PROVE  /\ a \o b \in Seq(Nodes) /\ Distinct(a \o b) /\ Len(a \o b) = Len(a) + Len(b)
         /\ Members(a \o b) = Members(a) \cup Members(b)
<1> DEFINE s == a \o b
           m == Len(a)
           n == Len(b)
<1>1. /\ m \in Nat /\ n \in Nat /\ DOMAIN a = 1..m /\ DOMAIN b = 1..n
      /\ s \in Seq(Nodes) /\ Len(s) = m + n /\ DOMAIN s = 1..(m + n)
      /\ \A i \in 1..(m + n) : s[i] = IF i <= m THEN a[i] ELSE b[i - m]
  <2>1. a \o b \in Seq(Nodes) /\ Len(a \o b) = Len(a) + Len(b)
    BY ConcatProperties
  <2>2. \A i \in 1..(Len(a) + Len(b)) : (a \o b)[i] = IF i <= Len(a) THEN a[i] ELSE b[i - Len(a)]
    BY ConcatProperties
  <2>3. Len(a) \in Nat /\ Len(b) \in Nat
    OBVIOUS
  <2> QED BY <2>1, <2>2, <2>3
<1> HIDE DEF s, m, n
<1>2. ASSUME NEW i \in 1..m, NEW j \in 1..n PROVE a[i] # b[j]
  BY <1>1 DEF Members
<1>3. /\ \A i, j \in 1..m : a[i] = a[j] => i = j
      /\ \A i, j \in 1..n : b[i] = b[j] => i = j
  BY DEF Distinct, m, n
<1>4. ASSUME NEW i \in 1..(m + n), NEW j \in 1..(m + n), s[i] = s[j] PROVE i = j
  <2>1. CASE i <= m /\ j <= m
    BY <1>1, <1>3, <1>4, <2>1
  <2>2. CASE i <= m /\ j > m
    <3>1. i \in 1..m /\ j - m \in 1..n /\ s[i] = a[i] /\ s[j] = b[j - m]
      BY <1>1, <2>2
    <3> QED BY <1>2, <1>4, <3>1
  <2>3. CASE i > m /\ j <= m
    <3>1. j \in 1..m /\ i - m \in 1..n /\ s[j] = a[j] /\ s[i] = b[i - m]
      BY <1>1, <2>3
    <3> QED BY <1>2, <1>4, <3>1
  <2>4. CASE i > m /\ j > m
    <3>1. i - m \in 1..n /\ j - m \in 1..n /\ s[i] = b[i - m] /\ s[j] = b[j - m]
      BY <1>1, <2>4
    <3>2. i - m = j - m
      BY <1>3, <1>4, <3>1
    <3> QED BY <1>1, <3>2
  <2> QED BY <1>1, <2>1, <2>2, <2>3, <2>4
<1>5. Members(s) = Members(a) \cup Members(b)
  <2>1. ASSUME NEW i \in 1..(m + n) PROVE s[i] \in Members(a) \cup Members(b)
    <3>1. CASE i <= m
      <4>1. i \in DOMAIN a /\ s[i] = a[i]
        BY <1>1, <3>1
      <4> QED BY <4>1 DEF Members
    <3>2. CASE i > m
      <4>1. i - m \in DOMAIN b /\ s[i] = b[i - m]
        BY <1>1, <3>2
      <4> QED BY <4>1 DEF Members
    <3> QED BY <1>1, <3>1, <3>2
  <2>2. ASSUME NEW i \in 1..m PROVE a[i] \in Members(s)
    <3>1. i \in 1..(m + n) /\ s[i] = a[i]
      BY <1>1
    <3> QED BY <1>1, <3>1 DEF Members
  <2>3. ASSUME NEW i \in 1..n PROVE b[i] \in Members(s)
    <3>1. m + i \in 1..(m + n) /\ s[m + i] = b[i]
      BY <1>1
    <3> QED BY <1>1, <3>1 DEF Members
  <2>4. /\ Members(s) = {s[i] : i \in 1..(m + n)} /\ Members(a) = {a[i] : i \in 1..m}
        /\ Members(b) = {b[i] : i \in 1..n}
    BY <1>1 DEF Members
  <2> QED BY <2>1, <2>2, <2>3, <2>4
<1>6. Distinct(s)
  BY <1>1, <1>4 DEF Distinct
<1> QED BY <1>1, <1>5, <1>6 DEF s, m, n

\* A call that begins leaves alone what runs alone.
LEMMA AloneBegins ==
  ASSUME IInv, NEW t \in Threads, NEW r, Begin(t, r)
  PROVE  AloneInv' /\ pool' \in {"open", "closing"} /\ run[t].pc = "idle" /\ r.op \in Calls
<1>1. /\ TypeOK /\ AloneInv /\ pool = "open" /\ UNCHANGED pool /\ run' = [run EXCEPT ![t] = r]
      /\ run[t].pc = "idle" /\ r.op \in Calls /\ (r.op \in Alone => Busy = {})
      /\ \A u \in Busy : run[u].op \notin Alone
  BY DEF IInv, Begin
<1>2. r.op # "destroy" /\ \A u \in Busy : run[u].op \in Calls /\ run[u].op # "destroy"
  BY <1>1, CallsAssumption DEF AloneInv
<1>3. run'[t] = r /\ \A u \in Threads : u # t => run'[u] = run[u]
  BY <1>1, TypeParts
<1>4. t \notin Busy /\ Busy \subseteq Threads
  BY <1>1 DEF Busy
<1>5. Busy' = BusyAfter(t, r)
  BY <1>1, BusyStep
<1>6. CASE r.pc = "idle"
  <2>1. Busy' = Busy
    BY <1>4, <1>5, <1>6 DEF BusyAfter
  <2> QED BY <1>1, <1>2, <1>3, <1>4, <2>1 DEF AloneInv
<1>7. CASE r.pc # "idle"
  <2>1. Busy' = Busy \cup {t}
    BY <1>5, <1>7 DEF BusyAfter
  <2>2. \A u \in Busy : run'[u].op = run[u].op
    BY <1>3, <1>4
  <2> QED BY <1>1, <1>2, <1>3, <2>1, <2>2 DEF AloneInv
<1> QED BY <1>1, <1>6, <1>7

\* It moves no node in or out of a list.
LEMMA BeginKeeps ==
  ASSUME IInv, NEW t \in Threads, NEW r \in RunRecords, Begin(t, r),
         NEW h \in SUBSET Nodes, NEW c \in Seq(Nodes),
         held' = [held EXCEPT ![t] = h], cache' = [cache EXCEPT ![t] = c], Len(c) <= CacheSize,
         h \cup Members(c) \cup Members(r.objs) = held[t] \cup Members(cache[t]),
         h \cap Members(c) = {}, h \cap Members(r.objs) = {}, Members(c) \cap Members(r.objs) = {},
         Distinct(c), Distinct(r.objs), c # <<>> => BatchSize = 1, CallInv(r), Counted(r)
  PROVE  IInv' /\ SamePlaces
<1>1. AloneInv' /\ pool' \in {"open", "closing"} /\ run[t].pc = "idle"
  BY AloneBegins
<1>2. run' = [run EXCEPT ![t] = r] /\ UNCHANGED <<next, head, alloc_cnt, free_cnt>>
  BY DEF Begin
<1>3. Counted(run[t]) /\ run[t].objs = <<>>
  BY <1>1, CallFacts DEF CallInv, Counted
<1>4. h \cup Members(c) \cup Members(r.objs) = Holds(t)
  BY <1>3 DEF Holds, Members
<1>5. RunInv'
  BY <1>2, RunSame
<1>6. next' \in [Nodes -> Nodes \cup {NULL}]
  BY <1>2 DEF IInv, TypeOK
<1> QED BY <1>1, <1>2, <1>3, <1>4, <1>5, <1>6, MovesKeep

\* What a thread holds and keeps in its cache when it begins a call.
LEMMA OwnFacts ==
  ASSUME IInv, NEW t \in Threads
  PROVE  /\ held \in [Threads -> SUBSET Nodes] /\ cache \in [Threads -> Seq(Nodes)]
         /\ held[t] \subseteq Nodes /\ cache[t] \in Seq(Nodes)
         /\ Len(cache[t]) \in Nat /\ Len(cache[t]) <= CacheSize
         /\ held[t] \cap Members(cache[t]) = {} /\ Distinct(cache[t])
         /\ cache[t] # <<>> => BatchSize = 1
<1>1. /\ held \in [Threads -> SUBSET Nodes] /\ cache \in [Threads -> Seq(Nodes)]
      /\ Len(cache[t]) <= CacheSize
  BY DEF IInv, TypeOK
<1>2. held[t] \subseteq Nodes /\ cache[t] \in Seq(Nodes)
  BY <1>1
<1>3. Len(cache[t]) \in Nat
  BY <1>2, LenProperties
<1>4. /\ held[t] \cap Members(cache[t]) = {} /\ Distinct(cache[t])
      /\ cache[t] # <<>> => BatchSize = 1
  BY DEF IInv, OwnersInv, RunInv
<1> QED BY <1>1, <1>2, <1>3, <1>4

LEMMA NoMembers == Members(<<>>) = {} /\ Distinct(<<>>) /\ Len(<<>>) = 0
BY DEF Members, Distinct

LEMMA AllocKeeps == ASSUME IInv, NEW t \in Threads, pool_alloc(t) PROVE IInv' /\ SamePlaces
<1> DEFINE r == [Idle EXCEPT !.op = "alloc", !.pc = "load", !.count = 1]
<1>1. /\ r \in RunRecords /\ r.pc = "load" /\ r.op = "alloc" /\ r.objs = <<>> /\ r.chunks = <<>>
      /\ r.count = 1
  <2>1. 1 \in 0..Capacity
    BY CapacityAssumption
  <2> QED BY <2>1, IdleRecord DEF Idle, RunRecords
<1>2. Begin(t, r) /\ UNCHANGED <<held, cache>>
  BY DEF pool_alloc
<1> HIDE DEF r
<1>3. CallInv(r) /\ Counted(r)
  BY <1>1 DEF CallInv, TakesInv, Counted
<1>4. held' = [held EXCEPT ![t] = held[t]] /\ cache' = [cache EXCEPT ![t] = cache[t]]
  BY <1>2, OwnFacts
<1>5. /\ Members(r.objs) = {} /\ Distinct(r.objs)
      /\ held[t] \cap Members(r.objs) = {} /\ Members(cache[t]) \cap Members(r.objs) = {}
      /\ held[t] \cup Members(cache[t]) \cup Members(r.objs) = held[t] \cup Members(cache[t])
  BY <1>1, NoMembers
<1>6. held[t] \in SUBSET Nodes
  BY OwnFacts
<1> QED BY <1>1, <1>2, <1>3, <1>4, <1>5, <1>6, OwnFacts, BeginKeeps

LEMMA FreeKeeps ==
  ASSUME IInv, NEW t \in Threads, NEW n \in held[t], pool_free(t, n) PROVE IInv' /\ SamePlaces
<1> DEFINE r == [Idle EXCEPT !.op = "free", !.pc = "load_free", !.objs = <<n>>, !.chunks = <<n>>]
           h == held[t] \ {n}
<1>1. n \in Nodes /\ <<n>> \in Seq(Nodes)
  BY OwnFacts
<1>2. /\ r \in RunRecords /\ r.pc = "load_free" /\ r.op = "free" /\ r.objs = <<n>>
      /\ r.chunks = <<n>>
  BY <1>1, IdleRecord DEF Idle, RunRecords
<1>3. Begin(t, r) /\ held' = [held EXCEPT ![t] = h] /\ cache' = [cache EXCEPT ![t] = cache[t]]
  BY OwnFacts DEF pool_free
<1> HIDE DEF r
<1>4. Members(r.objs) = {n} /\ Distinct(r.objs) /\ Len(r.objs) = 1 /\ r.objs # <<>> /\ r.objs[1] = n
  BY <1>2, OneMember DEF Distinct
<1>5. CallInv(r) /\ Counted(r)
  BY <1>2, <1>4 DEF CallInv, GivesInv, Counted
<1>6. /\ h \in SUBSET Nodes /\ h \cap Members(cache[t]) = {} /\ h \cap Members(r.objs) = {}
      /\ Members(cache[t]) \cap Members(r.objs) = {}
      /\ h \cup Members(cache[t]) \cup Members(r.objs) = held[t] \cup Members(cache[t])
  BY <1>4, OwnFacts
<1> QED BY <1>2, <1>3, <1>4, <1>5, <1>6, OwnFacts, BeginKeeps

LEMMA FlushKeeps == ASSUME IInv, NEW t \in Threads, pool_flush_cache(t) PROVE IInv' /\ SamePlaces
<1> DEFINE r == [Idle EXCEPT !.op = "flush", !.pc = "link", !.objs = cache[t]]
<1>1. /\ r \in RunRecords /\ r.pc = "link" /\ r.op = "flush" /\ r.objs = cache[t]
  BY OwnFacts, IdleRecord DEF Idle, RunRecords
<1>2. /\ Begin(t, r) /\ cache[t] # <<>> /\ cache' = [cache EXCEPT ![t] = <<>>]
      /\ held' = [held EXCEPT ![t] = held[t]]
  BY OwnFacts DEF pool_flush_cache
<1> HIDE DEF r
<1>3. BatchSize = 1
  BY <1>2, OwnFacts
<1>4. CallInv(r) /\ Counted(r)
  BY <1>1, <1>2, <1>3 DEF CallInv, GivesInv, Counted
<1>5. <<>> \in Seq(Nodes) /\ Len(<<>>) <= CacheSize
  BY NoMembers, SizesAssumption
<1> QED BY <1>1, <1>2, <1>4, <1>5, OwnFacts, NoMembers, BeginKeeps

LEMMA AllocBatchKeeps ==
  ASSUME IInv, SingleNodes, NEW t \in Threads, NEW n \in Nodes, pool_alloc_batch(t, n)
  PROVE  IInv' /\ SamePlaces
<1> DEFINE len == Len(cache[t])
           cached == Least(n, len)
           kept == len - cached
           c == SubSeq(cache[t], 1, kept)
           given == {cache[t][k] : k \in (kept + 1)..len}
           h == held[t] \cup given
           r == IF cached = n THEN [Idle EXCEPT !.op = "alloc_batch"]
                ELSE [Idle EXCEPT !.op = "alloc_batch", !.pc = "load", !.count = n - cached]
<1>1. /\ len \in Nat /\ kept \in 0..len /\ n \in 1..Capacity
      /\ cached # n => n - cached \in 1..Capacity
  <2>1. len \in Nat /\ n \in 1..Capacity
    BY OwnFacts DEF Nodes
  <2> HIDE DEF len
  <2> QED BY <2>1, CapacityAssumption DEF Least
<1>2. /\ Begin(t, r) /\ held' = [held EXCEPT ![t] = h] /\ cache' = [cache EXCEPT ![t] = c]
  BY DEF pool_alloc_batch
<1>3. "alloc_batch" \in Calls
  BY <1>2 DEF Begin, Idle
<1>4. BatchSize = 1
  BY <1>3 DEF SingleNodes
<1>5. /\ c \in Seq(Nodes) /\ Distinct(c) /\ Len(c) = kept
      /\ Members(c) \cup given = Members(cache[t]) /\ Members(c) \cap given = {}
  <2>1. cache[t] \in Seq(Nodes) /\ Distinct(cache[t]) /\ kept \in 0..Len(cache[t])
    BY <1>1, OwnFacts
  <2> HIDE DEF kept
  <2> QED BY <2>1, SplitFacts
<1>6. Len(c) <= CacheSize
  <2>1. len <= CacheSize
    BY OwnFacts
  <2> HIDE DEF kept, len, c
  <2> QED BY <1>1, <1>5, <2>1, SizesAssumption
<1>7. /\ r \in RunRecords /\ r.op = "alloc_batch" /\ r.objs = <<>> /\ r.chunks = <<>>
      /\ IF cached = n THEN r.pc = "idle" ELSE r.pc = "load" /\ r.count >= 1
  <2>1. CASE cached = n
    BY <2>1, IdleRecord DEF Idle, RunRecords
  <2>2. CASE cached # n
    <3> HIDE DEF cached
    <3>1. n - cached \in 0..Capacity /\ n - cached >= 1
      BY <1>1, <2>2, CapacityAssumption
    <3> QED BY <2>2, <3>1, IdleRecord DEF Idle, RunRecords
  <2> QED BY <2>1, <2>2
<1> HIDE DEF r, c, given, cached, kept, len
<1>8. CallInv(r) /\ Counted(r)
  BY <1>7 DEF CallInv, TakesInv, Counted
<1>9. /\ h \in SUBSET Nodes /\ h \cap Members(c) = {}
      /\ Members(r.objs) = {} /\ Distinct(r.objs)
      /\ h \cap Members(r.objs) = {} /\ Members(c) \cap Members(r.objs) = {}
      /\ h \cup Members(c) \cup Members(r.objs) = held[t] \cup Members(cache[t])
  <2>1. Members(cache[t]) \subseteq Nodes
    BY OwnFacts, DistinctFacts
  <2> QED BY <1>5, <1>7, <2>1, OwnFacts, NoMembers
<1> QED BY <1>2, <1>4, <1>5, <1>6, <1>7, <1>8, <1>9, BeginKeeps

\* A listing of what a thread holds names each object once.
LEMMA ListingFacts ==
  ASSUME NEW S \in SUBSET Nodes, NEW s \in Listings(S)
  PROVE  s \in Seq(Nodes) /\ Distinct(s)
<1>1. PICK k \in 1..Cardinality(S) : s \in [1..k -> S]
  BY DEF Listings
<1>2. IsFiniteSet(S)
  <2>1. IsFiniteSet(Nodes)
    BY FS_Interval, CapacityAssumption DEF Nodes
  <2> QED BY <2>1, FS_Subset
<1>3. k \in Nat
  BY <1>1, <1>2, FS_CardinalityType
<1>4. s \in Seq(Nodes) /\ Cardinality(Members(s)) = Len(s)
  <2>1. s \in [1..k -> Nodes]
    BY <1>1
  <2> QED BY <1>3, <2>1 DEF Listings
<1> QED BY <1>4, DistinctFacts

LEMMA FreeBatchKeeps ==
  ASSUME IInv, SingleNodes, NEW t \in Threads, NEW s \in Listings(held[t]), pool_free_batch(t, s)
  PROVE  IInv' /\ SamePlaces
<1> DEFINE len == Len(s)
           used == Len(cache[t])
           cached == Least(len, CacheSize - used)
           rest == SubSeq(s, cached + 1, len)
           first == SubSeq(s, 1, cached)
           c == cache[t] \o first
           h == held[t] \ Members(s)
           r == IF rest = <<>> THEN [Idle EXCEPT !.op = "free_batch"]
                ELSE [Idle EXCEPT !.op = "free_batch", !.pc = "link", !.objs = rest]
<1>1. s \in Seq(Nodes) /\ Distinct(s) /\ len \in Nat
  <2>1. s \in Seq(Nodes) /\ Distinct(s)
    BY OwnFacts, ListingFacts
  <2> QED BY <2>1, LenProperties
<1>2. /\ Members(s) \subseteq held[t]
      /\ Begin(t, r) /\ held' = [held EXCEPT ![t] = h] /\ cache' = [cache EXCEPT ![t] = c]
  BY DEF pool_free_batch
<1>3. BatchSize = 1
  <2>1. "free_batch" \in Calls
    BY <1>2 DEF Begin, Idle
  <2> QED BY <2>1 DEF SingleNodes
<1>4. cached \in 0..len /\ used + cached <= CacheSize /\ used \in Nat
  <2>1. used \in Nat /\ used <= CacheSize
    BY OwnFacts
  <2> HIDE DEF len, used
  <2> QED BY <1>1, <2>1, SizesAssumption DEF Least
<1>5. /\ first \in Seq(Nodes) /\ Distinct(first) /\ Len(first) = cached
      /\ rest \in Seq(Nodes) /\ Distinct(rest)
      /\ Members(first) \cup Members(rest) = Members(s) /\ Members(first) \cap Members(rest) = {}
  <2> HIDE DEF cached
  <2> QED BY <1>1, <1>4, SplitFacts
<1> HIDE DEF first, rest, cached
<1>6. /\ c \in Seq(Nodes) /\ Distinct(c) /\ Len(c) = used + Len(first)
      /\ Members(c) = Members(cache[t]) \cup Members(first)
  BY <1>2, <1>5, OwnFacts, JoinFacts
<1>7. /\ r \in RunRecords /\ r.op = "free_batch"
      /\ IF rest = <<>> THEN r.pc = "idle" ELSE r.pc = "link"
      /\ r.objs = rest
  BY <1>5, IdleRecord DEF Idle, RunRecords
<1> HIDE DEF r, c
<1>8. CallInv(r) /\ Counted(r)
  BY <1>3, <1>7 DEF CallInv, GivesInv, Counted
<1>9. /\ h \in SUBSET Nodes /\ h \cap Members(c) = {} /\ h \cap Members(r.objs) = {}
      /\ Members(c) \cap Members(r.objs) = {}
      /\ h \cup Members(c) \cup Members(r.objs) = held[t] \cup Members(cache[t])
  BY <1>2, <1>5, <1>6, <1>7, OwnFacts
<1>10. Len(c) <= CacheSize /\ Distinct(r.objs)
  BY <1>4, <1>5, <1>6, <1>7
<1> QED BY <1>2, <1>3, <1>6, <1>7, <1>8, <1>9, <1>10, BeginKeeps

LEMMA DestroyKeeps == ASSUME IInv, NEW t \in Threads, pool_destroy(t) PROVE IInv' /\ SamePlaces
<1> DEFINE r == [Idle EXCEPT !.op = "destroy", !.pc = IF cache[t] = <<>> THEN "check" ELSE "link",
                             !.objs = cache[t]]
<1>1. /\ r \in RunRecords /\ r.op = "destroy" /\ r.objs = cache[t]
      /\ r.pc = IF cache[t] = <<>> THEN "check" ELSE "link"
  BY OwnFacts, IdleRecord DEF Idle, RunRecords
<1>2. /\ pool = "open" /\ Busy = {} /\ pool' = "closing" /\ run' = [run EXCEPT ![t] = r]
      /\ cache' = [cache EXCEPT ![t] = <<>>] /\ held' = [held EXCEPT ![t] = held[t]]
      /\ UNCHANGED <<next, head, alloc_cnt, free_cnt>>
  BY OwnFacts DEF pool_destroy
<1> HIDE DEF r
<1>3. Busy' = {t} /\ run'[t] = r
  <2>1. Busy' = BusyAfter(t, r) /\ r.pc # "idle"
    BY <1>1, <1>2, BusyStep DEF IInv
  <2> QED BY <1>2, <2>1 DEF BusyAfter, IInv, TypeOK
<1>4. AloneInv'
  BY <1>1, <1>2, <1>3 DEF AloneInv
<1>5. CallInv(r) /\ Counted(r)
  BY <1>1, OwnFacts DEF CallInv, GivesInv, Counted
<1>6. RunInv'
  BY <1>2, <1>5, RunSame
<1>7. run[t].objs = <<>> /\ Counted(run[t])
  <2>1. run[t].pc = "idle"
    BY <1>2 DEF Busy
  <2> QED BY <2>1, CallFacts DEF CallInv, Counted
<1>8. /\ held[t] \in SUBSET Nodes /\ <<>> \in Seq(Nodes) /\ Len(<<>>) <= CacheSize
      /\ held[t] \cup Members(<<>>) \cup Members(r.objs) = Holds(t)
      /\ held[t] \cap Members(<<>>) = {} /\ held[t] \cap Members(r.objs) = {}
      /\ Members(<<>>) \cap Members(r.objs) = {} /\ Distinct(<<>>) /\ Distinct(r.objs)
  BY <1>1, <1>7, OwnFacts, NoMembers, SizesAssumption DEF Holds
<1>9. next' \in [Nodes -> Nodes \cup {NULL}] /\ pool' \in {"open", "closing"}
  BY <1>2 DEF IInv, TypeOK
<1> QED BY <1>1, <1>2, <1>4, <1>5, <1>6, <1>7, <1>8, <1>9, MovesKeep

-----------------------------------------------------------------------------
(* The specification.                                                      *)

\* pool_create links the nodes from the last to the first.
LEMMA InitLists ==
  ASSUME Init
  PROVE  /\ Fresh = [i \in 1..Capacity |-> Capacity + 1 - i] /\ Freed = <<>> /\ ListsInv
<1> DEFINE s == [i \in 1..Capacity |-> Capacity + 1 - i]
<1>1. /\ next = [n \in Nodes |-> n - 1]
      /\ head["head"] = [ptr |-> Capacity, ver |-> 0]
      /\ head["free_list"] = [ptr |-> NULL, ver |-> 0]
      /\ alloc_cnt = 0 /\ free_cnt = 0 /\ held = [t \in Threads |-> {}]
      /\ cache = [t \in Threads |-> <<>>] /\ run = [t \in Threads |-> Idle] /\ pool = "open"
  BY DEF Init
<1>2. IsList(next, Capacity, s)
  <2>1. s \in Seq(Nodes) /\ Len(s) = Capacity /\ \A k \in 1..Capacity : s[k] = Capacity + 1 - k
    <3>1. s \in [1..Capacity -> Nodes]
      BY CapacityAssumption DEF Nodes
    <3> QED BY <3>1, CapacityAssumption
  <2> HIDE DEF s
  <2>2. Distinct(s)
    BY <2>1, CapacityAssumption DEF Distinct
  <2>3. Capacity = IF s = <<>> THEN NULL ELSE s[1]
    BY <2>1, CapacityAssumption
  <2>4. ASSUME NEW k \in 1..Capacity
        PROVE  next[s[k]] = IF k = Capacity THEN NULL ELSE s[k + 1]
    <3>1. s[k] = Capacity + 1 - k
      BY <2>1
    <3> DEFINE m == Capacity + 1 - k
    <3>2. next[s[k]] = m - 1
      <4>1. m \in Nodes
        BY CapacityAssumption DEF Nodes
      <4>2. \A o \in Nodes : next[o] = o - 1
        BY <1>1
      <4>3. s[k] = m
        BY <3>1
      <4> HIDE DEF m
      <4> QED BY <4>1, <4>2, <4>3
    <3>3. k # Capacity => k + 1 \in 1..Capacity /\ s[k + 1] = Capacity + 1 - (k + 1)
      BY <2>1, CapacityAssumption
    <3> QED BY <3>2, <3>3, CapacityAssumption DEF NULL
  <2> QED BY <2>1, <2>2, <2>3, <2>4 DEF IsList
<1>3. IsList(next, NULL, <<>>)
  BY NoMembers DEF IsList
<1>4. Fresh = s /\ Freed = <<>>
  BY <1>1, <1>2, <1>3, ListIsChain, ListsAreChains
<1>5. ListsInv
  BY <1>1, <1>2, <1>3, <1>4 DEF ListsInv
<1> QED BY <1>4, <1>5

LEMMA InitIInv == Init => IInv
<1> SUFFICES ASSUME Init PROVE IInv
  OBVIOUS
<1> DEFINE s == [i \in 1..Capacity |-> Capacity + 1 - i]
<1>1. /\ next = [n \in Nodes |-> n - 1]
      /\ head["head"] = [ptr |-> Capacity, ver |-> 0]
      /\ head["free_list"] = [ptr |-> NULL, ver |-> 0]
      /\ alloc_cnt = 0 /\ free_cnt = 0 /\ held = [t \in Threads |-> {}]
      /\ cache = [t \in Threads |-> <<>>] /\ run = [t \in Threads |-> Idle] /\ pool = "open"
  BY DEF Init
<1>4. Fresh = s /\ Freed = <<>>
  BY InitLists
<1>5. ListsInv
  BY InitLists
<1>6. Len(Fresh) = Capacity /\ Members(Fresh) = Nodes
  <2>1. Len(s) = Capacity
    BY CapacityAssumption
  <2>2. Members(s) = Nodes
    <3>1. DOMAIN s = 1..Capacity
      OBVIOUS
    <3>2. \A n \in Nodes : Capacity + 1 - n \in 1..Capacity /\ s[Capacity + 1 - n] = n
      BY CapacityAssumption DEF Nodes
    <3>3. \A k \in 1..Capacity : s[k] \in Nodes
      BY CapacityAssumption DEF Nodes
    <3> HIDE DEF s
    <3> QED BY <3>1, <3>2, <3>3 DEF Members
  <2> QED BY <1>4, <2>1, <2>2
<1>7. TypeOK
  <2>1. next \in [Nodes -> Nodes \cup {NULL}]
    BY <1>1, CapacityAssumption DEF Nodes, NULL
  <2>2. head \in [{"head", "free_list"} -> Pointer]
    BY CapacityAssumption DEF Init, Pointer, Nodes, NULL
  <2>3. /\ held \in [Threads -> SUBSET Nodes] /\ cache \in [Threads -> Seq(Nodes)]
        /\ \A t \in Threads : Len(cache[t]) <= CacheSize
    BY <1>1, NoMembers, SizesAssumption
  <2>4. run \in [Threads -> RunRecords]
    BY <1>1, IdleRecord
  <2> QED BY <1>1, <2>1, <2>2, <2>3, <2>4, TypeParts
<1>8. \A t \in Threads : /\ run[t] = Idle /\ cache[t] = <<>> /\ held[t] = {} /\ Holds(t) = {}
                         /\ run[t].pc = "idle" /\ run[t].objs = <<>>
  BY <1>1, IdleRecord, NoMembers DEF Holds
<1>9. OwnersInv
  BY <1>4, <1>6, <1>8, NoMembers DEF OwnersInv, Listed
<1>10. RunInv
  BY <1>8, IdleRecord DEF RunInv
<1>11. Busy = {} /\ Taken = {} /\ Given = {}
  BY <1>8 DEF Busy, Taken, Given
<1>12. AloneInv
  BY <1>1, <1>11 DEF AloneInv
<1>13. CountInv
  <2>1. IsFiniteSet({}) /\ Cardinality({}) = 0 /\ Len(<<>>) = 0
    BY FS_EmptySet
  <2> QED BY <1>1, <1>4, <1>6, <1>11, <2>1, CapacityAssumption DEF CountInv
<1>14. AbortIffLeak
  BY <1>1 DEF AbortIffLeak
<1> QED BY <1>5, <1>7, <1>9, <1>10, <1>12, <1>13, <1>14 DEF IInv

\* Every step keeps the invariant, and what ObjectPool sees changes only at a
\* compare-and-swap that succeeds.
LEMMA StepFacts ==
  ASSUME IInv, SingleNodes, Next
  PROVE  IInv' /\ (SamePlaces \/ \E t \in Threads : CasTakes(t) \/ CasGives(t))
<1>1. PICK t \in Threads : Call(t) \/ Step(t)
  BY DEF Next
<1>2. CASE Call(t)
  BY <1>2, AllocKeeps, FreeKeeps, AllocBatchKeeps, FreeBatchKeeps, FlushKeeps, DestroyKeeps DEF Call
<1>3. CASE cas(t)
  <2>1. CasTakes(t) \/ CasFails(t)
    BY <1>3 DEF cas, CasTakes, CasFails
  <2> QED BY <2>1, CasTakesKeeps, CasFailsKeeps
<1>4. CASE cas_free(t)
  <2>1. CasGives(t) \/ CasFreeFails(t)
    BY <1>4 DEF cas_free, CasGives, CasFreeFails
  <2> QED BY <2>1, CasGivesKeeps, CasFreeFailsKeeps
<1>5. CASE load(t) \/ load_head(t) \/ walk(t) \/ count(t) \/ link(t)
  BY <1>5, LoadKeeps, LoadHeadKeeps, WalkKeeps, CountKeeps, LinkKeeps
<1>6. CASE load_free(t) \/ store(t) \/ count_free(t) \/ check(t)
  BY <1>6, LoadFreeKeeps, StoreKeeps, CountFreeKeeps, CheckKeeps
<1> QED BY <1>1, <1>2, <1>3, <1>4, <1>5, <1>6 DEF Step

LEMMA StutterKeeps == ASSUME IInv, UNCHANGED vars PROVE IInv' /\ SamePlaces
<1>1. /\ Fresh' = Fresh /\ Freed' = Freed
      /\ \A t \in Threads : Holds(t)' = Holds(t) /\ CallInv(run[t])' = CallInv(run[t])
  <2>1. Fresh' = Fresh /\ Freed' = Freed
    BY ListsAreChains DEF vars
  <2>2. ASSUME NEW t \in Threads PROVE Holds(t)' = Holds(t)
    BY DEF vars, Holds
  <2>3. ASSUME NEW t \in Threads PROVE CallInv(run[t])' = CallInv(run[t])
    BY DEF vars, CallInv, TakesInv, GivesInv
  <2> QED BY <2>1, <2>2, <2>3
<1>2. TypeOK' /\ ListsInv' /\ OwnersInv'
  BY <1>1 DEF vars, IInv, TypeOK, ListsInv, OwnersInv, Listed
<1>3. RunInv' /\ AloneInv'
  BY <1>1 DEF vars, IInv, RunInv, AloneInv, Busy
<1>4. CountInv'
  <2>1. Busy' = Busy /\ Taken' = Taken /\ Given' = Given
    BY DEF vars, Busy, Taken, Given
  <2> QED BY <1>1, <2>1 DEF vars, IInv, CountInv
<1>5. AbortIffLeak'
  BY <1>1 DEF vars, IInv, AbortIffLeak
<1> QED BY <1>1, <1>2, <1>3, <1>4, <1>5 DEF IInv, SamePlaces

\* The inductive invariant holds in every behaviour of the pool whose batches
\* have one node and are taken while no other call runs, or that knows single
\* objects only.
THEOREM PoolInvariant == ASSUME SingleNodes PROVE Spec => []IInv
<1>1. IInv /\ [Next]_vars => IInv'
  BY StepFacts, StutterKeeps
<1> QED BY <1>1, InitIInv, PTL DEF Spec

\* The variables keep their types.
THEOREM PoolIsTyped == ASSUME SingleNodes PROVE Spec => []TypeOK
<1>1. IInv => TypeOK
  BY DEF IInv
<1> QED BY <1>1, PoolInvariant, PTL

\* No interleaving loses an object, or shows it twice: each is at one place of
\* one of the lists, or with one thread, which holds it, caches it or gives it back.
THEOREM NodesAreOnce == ASSUME SingleNodes PROVE Spec => []EachNodeOnce
<1>1. ASSUME IInv, NEW n \in Nodes PROVE Cardinality(Places(n)) = 1
  <2> DEFINE fresh == {k \in DOMAIN Fresh : Fresh[k] = n}
             freed == {k \in DOMAIN Freed : Freed[k] = n}
             mine == {u \in Threads : n \in held[u]}
             kept == {u \in Threads : n \in Members(cache[u])}
             given == {u \in Threads : n \in Members(run[u].objs)}
  <2>1. Places(n) = {<<"fresh", k>> : k \in fresh} \cup {<<"freed", k>> : k \in freed}
                    \cup {<<"held", u>> : u \in mine} \cup {<<"cache", u>> : u \in kept}
                    \cup {<<"objs", u>> : u \in given}
    BY DEF Places
  <2>2. OwnersInv /\ Fresh \in Seq(Nodes) /\ Freed \in Seq(Nodes) /\ Distinct(Fresh) /\ Distinct(Freed)
    BY <1>1 DEF IInv, ListsInv, IsList
  <2>3. /\ n \in Members(Fresh) <=> fresh # {}
        /\ n \in Members(Freed) <=> freed # {}
        /\ \A j, k \in fresh : j = k
        /\ \A j, k \in freed : j = k
    BY <2>2 DEF Members, Distinct
  <2>4. \A u \in Threads : n \in Holds(u) <=> u \in mine \/ u \in kept \/ u \in given
    BY DEF Holds
  <2> HIDE DEF fresh, freed, mine, kept, given
  <2>5. CASE n \in Listed
    <3>1. mine = {} /\ kept = {} /\ given = {}
      <4>1. \A u \in Threads : n \notin Holds(u)
        BY <2>2, <2>5 DEF OwnersInv
      <4> QED BY <2>4, <4>1 DEF mine, kept, given
    <3>2. CASE n \in Members(Fresh)
      <4>1. PICK k : fresh = {k}
        BY <2>3, <3>2
      <4>2. freed = {}
        BY <2>2, <2>3, <3>2 DEF OwnersInv
      <4>3. Places(n) = {<<"fresh", k>>}
        BY <2>1, <3>1, <4>1, <4>2
      <4> QED BY <4>3, FS_Singleton
    <3>3. CASE n \in Members(Freed)
      <4>1. PICK k : freed = {k}
        BY <2>3, <3>3
      <4>2. fresh = {}
        BY <2>2, <2>3, <3>3 DEF OwnersInv
      <4>3. Places(n) = {<<"freed", k>>}
        BY <2>1, <3>1, <4>1, <4>2
      <4> QED BY <4>3, FS_Singleton
    <3> QED BY <2>5, <3>2, <3>3 DEF Listed
  <2>6. CASE n \notin Listed
    <3>1. fresh = {} /\ freed = {}
      BY <2>3, <2>6 DEF Listed
    <3>2. PICK u \in Threads : n \in Holds(u)
      BY <2>2, <2>6 DEF OwnersInv
    <3>3. \A v \in Threads : v # u => n \notin Holds(v)
      BY <2>2, <3>2 DEF OwnersInv
    <3>4. mine \subseteq {u} /\ kept \subseteq {u} /\ given \subseteq {u}
      BY <2>4, <3>3 DEF mine, kept, given
    <3>5. /\ ~ (u \in mine /\ u \in kept) /\ ~ (u \in mine /\ u \in given)
          /\ ~ (u \in kept /\ u \in given)
      BY <2>2 DEF OwnersInv, mine, kept, given
    <3>6. \E place : Places(n) = {place}
      <4>1. CASE u \in mine
        <5>1. mine = {u} /\ kept = {} /\ given = {}
          BY <3>4, <3>5, <4>1
        <5>2. Places(n) = {<<"held", u>>}
          BY <2>1, <3>1, <5>1
        <5> QED BY <5>2
      <4>2. CASE u \in kept
        <5>1. mine = {} /\ kept = {u} /\ given = {}
          BY <3>4, <3>5, <4>2
        <5>2. Places(n) = {<<"cache", u>>}
          BY <2>1, <3>1, <5>1
        <5> QED BY <5>2
      <4>3. CASE u \in given
        <5>1. mine = {} /\ kept = {} /\ given = {u}
          BY <3>4, <3>5, <4>3
        <5>2. Places(n) = {<<"objs", u>>}
          BY <2>1, <3>1, <5>1
        <5> QED BY <5>2
      <4> QED BY <2>4, <3>2, <4>1, <4>2, <4>3
    <3> QED BY <3>6, FS_Singleton
  <2> QED BY <2>5, <2>6
<1>2. IInv => EachNodeOnce
  BY <1>1 DEF EachNodeOnce
<1> QED BY <1>2, PoolInvariant, PTL

\* pool_destroy frees the pool only when every object is back, and aborts only
\* when one is not: its two counters never disagree with the lists.
THEOREM LeakCheckIsExact == ASSUME SingleNodes PROVE Spec => []AbortIffLeak
<1>1. IInv => AbortIffLeak
  BY DEF IInv
<1> QED BY <1>1, PoolInvariant, PTL

\* Each allocation and each release takes effect at its compare-and-swap, as one
\* step of the pool its clients see: it takes the top of a list, or puts a node
\* on top of the free list, whatever the other threads do.
THEOREM PoolIsObjectPool == ASSUME SingleNodes PROVE Spec => ImplementsObjectPool
<1> DEFINE all == [t \in Threads |-> Holds(t)]
<1>1. Init => Abstract!Init
  <2> SUFFICES ASSUME Init PROVE Abstract!Init
    OBVIOUS
  <2>1. /\ head["head"].ptr = Capacity /\ head["free_list"].ptr = NULL
        /\ \A t \in Threads : Holds(t) = {}
    BY IdleRecord, NoMembers DEF Init, Holds
  <2>2. Fresh = [i \in 1..Capacity |-> Capacity + 1 - i] /\ Freed = <<>>
    BY InitLists
  <2> QED BY <2>1, <2>2 DEF Abstract!Init
<1>2. ASSUME IInv, SamePlaces PROVE UNCHANGED Abstract!vars
  <2>1. all' = all
    BY <1>2 DEF SamePlaces
  <2> QED BY <1>2, <2>1 DEF SamePlaces, Abstract!vars
<1>3. ASSUME IInv, NEW t \in Threads, CasTakes(t) PROVE Abstract!Next
  <2> DEFINE n == run[t].old.ptr
  <2>1. \A u \in Threads : Holds(u)' = IF u = t THEN Holds(t) \cup {n} ELSE Holds(u)
    BY <1>3, CasTakesKeeps
  <2>2. \/ Fresh # <<>> /\ n = Head(Fresh) /\ Fresh' = Tail(Fresh) /\ Freed' = Freed
        \/ Freed # <<>> /\ n = Head(Freed) /\ Freed' = Tail(Freed) /\ Fresh' = Fresh
    BY <1>3, TakesTop
  <2> HIDE DEF n
  <2>3. all' = [all EXCEPT ![t] = all[t] \cup {n}]
    BY <2>1
  <2>4. Abstract!AllocFresh(t) \/ Abstract!AllocFreed(t)
    BY <2>2, <2>3 DEF Abstract!AllocFresh, Abstract!AllocFreed, Abstract!Take
  <2> QED BY <2>4 DEF Abstract!Next
<1>4. ASSUME IInv, NEW t \in Threads, CasGives(t) PROVE Abstract!Next
  <2> DEFINE n == run[t].objs[1]
  <2>1. /\ n \in Holds(t)
        /\ \A u \in Threads : Holds(u)' = IF u = t THEN Holds(t) \ {n} ELSE Holds(u)
    BY <1>4, CasGivesKeeps
  <2>2. Freed' = <<n>> \o Freed /\ Fresh' = Fresh /\ n \in Nodes
    BY <1>4, GivesTop
  <2> HIDE DEF n
  <2>3. all' = [all EXCEPT ![t] = all[t] \ {n}] /\ n \in all[t]
    BY <2>1
  <2>4. Abstract!Free(t, n)
    BY <2>2, <2>3 DEF Abstract!Free
  <2> QED BY <2>2, <2>4 DEF Abstract!Next, Nodes
<1>5. IInv /\ [Next]_vars => [Abstract!Next]_(Abstract!vars)
  BY <1>2, <1>3, <1>4, StepFacts, StutterKeeps
<1> QED BY <1>1, <1>5, PoolInvariant, PTL DEF Spec, ImplementsObjectPool, Abstract!Spec

(***************************************************************************)
(* The collector.  The mutator's steps keep the types and StringInv, the   *)
(* collector's steps MarkInv; GcIInv is inductive and implies every        *)
(* property of the run.                                                    *)
(***************************************************************************)

-----------------------------------------------------------------------------
(* Reachability.                                                           *)

\* What is reachable contains the roots, is closed under tracing, and lies
\* within every closed set that contains the roots.
LEMMA TracedFacts ==
  ASSUME HeapTypeOK
  PROVE  /\ Roots \subseteq Traced
         /\ Traced \subseteq Objects
         /\ \A o \in Traced \cap DOMAIN heap : heap[o].refs \subseteq Traced
         /\ \A S \in SUBSET Objects : Roots \subseteq S /\ Closed(S) => Traced \subseteq S
<1>1. Roots \subseteq Objects
  BY DEF HeapTypeOK, Roots, Slots
<1>2. \A o \in DOMAIN heap : heap[o] \in Object
  BY DEF HeapTypeOK
<1>3. \A o \in DOMAIN heap : heap[o].refs \subseteq Objects
  BY <1>2 DEF Object
<1>4. Roots \subseteq Traced /\ Traced \subseteq Objects
  BY <1>1 DEF Traced, ReachableFrom
<1>5. ASSUME NEW o \in Traced \cap DOMAIN heap
      PROVE  heap[o].refs \subseteq Traced
  <2> SUFFICES ASSUME NEW r \in heap[o].refs, NEW S \in SUBSET Objects,
                      Roots \subseteq S, Closed(S)
               PROVE  r \in S
    BY <1>3 DEF Traced, ReachableFrom
  <2> QED
    BY <1>5 DEF Traced, ReachableFrom, Closed
<1>6. ASSUME NEW S \in SUBSET Objects, Roots \subseteq S, Closed(S)
      PROVE  Traced \subseteq S
  BY <1>6 DEF Traced, ReachableFrom
<1> QED
  BY <1>4, <1>5, <1>6

\* The collector's steps do not change what is reachable while the heap stays.
LEMMA TracedStays ==
  ASSUME UNCHANGED <<heap, vm>>
  PROVE  Traced' = Traced /\ Roots' = Roots
BY DEF vm, Traced, ReachableFrom, Closed, Roots, Slots

-----------------------------------------------------------------------------
(* The stack, the heap and the operations.                                 *)

\* A push within the limit and a drop leave a stack of the model.
LEMMA StackFacts ==
  ASSUME HeapTypeOK
  PROVE  /\ \A o \in Objects : Len(stack) < StackMax =>
              Append(stack, o) \in Seq(Objects) /\ Len(Append(stack, o)) <= StackMax
         /\ \A n \in 0..Len(stack) : Dropped(n) \in Seq(Objects)
         /\ \A n \in 0..Len(stack) : Len(Dropped(n)) = Len(stack) - n
         /\ \A n \in 0..(Len(stack) - 1) : Top(n) \in Objects
BY StackAssumption DEF HeapTypeOK, Dropped, Top

\* The value on top can be popped where there is one.
LEMMA PopFacts ==
  ASSUME HeapTypeOK, Len(stack) >= 1
  PROVE  /\ Top(0) \in Objects
         /\ Dropped(1) \in Seq(Objects) /\ Len(Dropped(1)) = Len(stack) - 1
<1>1. Len(stack) \in Nat
  BY DEF HeapTypeOK
<1>2. 0 \in 0..(Len(stack) - 1) /\ 1 \in 0..Len(stack)
  BY <1>1
<1> QED
  BY <1>2, StackFacts

\* A fresh object is an object, before and after the fields its constructor sets.
LEMMA BlankFacts ==
  /\ \A t \in {"string", "struct", "vec", "closure", "upvalue"} :
       Blank(t) \in Object /\ Blank(t).type = t
  /\ \A c \in Chars : /\ [Blank("string") EXCEPT !.chars = c] \in Object
                      /\ [Blank("string") EXCEPT !.chars = c].type = "string"
                      /\ [Blank("string") EXCEPT !.chars = c].chars = c
  /\ \A S \in SUBSET Objects :
       /\ [Blank("closure") EXCEPT !.refs = S] \in Object
       /\ [Blank("closure") EXCEPT !.refs = S].type = "closure"
BY DEF Blank, Object

\* A store into a field of an object leaves its type and contents alone.
LEMMA RefFacts ==
  ASSUME heap \in [DOMAIN heap -> Object], NEW o \in DOMAIN heap, NEW r \in Objects,
         NEW h, h = [heap EXCEPT ![o].refs = @ \cup {r}]
  PROVE  /\ h \in [DOMAIN heap -> Object]
         /\ \A p \in DOMAIN heap : h[p].type = heap[p].type /\ h[p].chars = heap[p].chars
<1> DEFINE x == [heap[o] EXCEPT !.refs = @ \cup {r}]
<1>1. x \in Object /\ x.type = heap[o].type /\ x.chars = heap[o].chars
  BY DEF Object
<1>2. h = [heap EXCEPT ![o] = x]
  OBVIOUS
<1> QED
  BY <1>1, <1>2

\* So do other references in the place of all.
LEMMA OtherRefFacts ==
  ASSUME heap \in [DOMAIN heap -> Object], NEW o \in DOMAIN heap, NEW refs \in SUBSET Objects,
         NEW h, h = [heap EXCEPT ![o].refs = refs]
  PROVE  /\ h \in [DOMAIN heap -> Object]
         /\ \A p \in DOMAIN heap : h[p].type = heap[p].type /\ h[p].chars = heap[p].chars
<1> DEFINE x == [heap[o] EXCEPT !.refs = refs]
<1>1. x \in Object /\ x.type = heap[o].type /\ x.chars = heap[o].chars
  BY DEF Object
<1>2. h = [heap EXCEPT ![o] = x]
  OBVIOUS
<1> QED
  BY <1>1, <1>2

\* Setting the names of a struct changes nothing else about it.
LEMMA NameFacts ==
  ASSUME NEW h, h \in [DOMAIN h -> Object], NEW o \in DOMAIN h, NEW r \in Objects,
         NEW g, g = [h EXCEPT ![o].names = r]
  PROVE  /\ g \in [DOMAIN h -> Object]
         /\ \A p \in DOMAIN h : g[p].type = h[p].type /\ g[p].chars = h[p].chars
<1>1. \A p \in DOMAIN h : h[p] \in Object
  OBVIOUS
<1>2. [h[o] EXCEPT !.names = r] \in Object
  BY <1>1 DEF Object
<1> QED
  BY <1>1, <1>2 DEF Object

\* What an operation in progress holds is an object or a contents.
LEMMA OpFacts ==
  ASSUME op \in Ops
  PROVE  /\ op.at \in {"new_string", "concat"} => op.chars \in Chars
         /\ op.at \in {"intern", "concat_intern"} => op.self \in Objects
         /\ op.at = "new_struct" => op.args \in 0..StackMax
         /\ op.at = "names" => op.self \in Objects /\ op.args \in 0..StackMax
         /\ op.at = "set_field" =>
              /\ op.self \in Objects /\ op.args \in 1..StackMax /\ op.value \in Objects
              /\ op \in [at : {"set_field"}, self : Objects, args : 1..StackMax, value : Objects]
         /\ op.at \in {"new_closure", "new_upvalue"} =>
              /\ op.slot \in 1..StackMax
              /\ op \in [at : {"new_closure", "new_upvalue"}, slot : 1..StackMax]
BY DEF Ops, NoOp

\* Each stage of an operation is one of the stages.
LEMMA OpsMembers ==
  /\ NoOp \in Ops /\ NoOp.at = "idle"
  /\ \A c \in Chars : /\ [at |-> "new_string", chars |-> c] \in Ops
                      /\ [at |-> "concat", chars |-> c] \in Ops
  /\ \A o \in Objects : /\ [at |-> "intern", self |-> o] \in Ops
                        /\ [at |-> "concat_intern", self |-> o] \in Ops
  /\ \A n \in 0..StackMax : [at |-> "new_struct", args |-> n] \in Ops
  /\ \A o \in Objects, n \in 0..StackMax :
       [at |-> "names", self |-> o, args |-> n] \in Ops
  /\ \A o, v \in Objects, n \in 1..StackMax :
       [at |-> "set_field", self |-> o, args |-> n, value |-> v] \in Ops
  /\ \A s \in 1..StackMax : [at |-> "new_closure", slot |-> s] \in Ops
  /\ [at |-> "member"] \in Ops /\ [at |-> "member_set"] \in Ops
  /\ [at |-> "property"] \in Ops /\ [at |-> "define_global"] \in Ops
BY DEF Ops, NoOp

-----------------------------------------------------------------------------
(* The mutator.  A collection is off before and after each of its steps,   *)
(* so that MarkInv' holds for want of one.                                 *)

\* What most steps of the mutator have in common: the strings that were
\* allocated stay as they were, and no other is allocated or entered.
LEMMA OtherObjects ==
  ASSUME GcIInv, phase = "off", phase' = "off", UNCHANGED strings,
         \A o \in DOMAIN heap : /\ o \in DOMAIN heap'
                                /\ heap'[o].type = heap[o].type
                                /\ heap'[o].chars = heap[o].chars,
         \A o \in DOMAIN heap' \ DOMAIN heap : heap'[o].type # "string",
         op.at \notin {"intern", "concat_intern"},
         op'.at \notin {"intern", "concat_intern", "new_string"}
  PROVE  MarkInv' /\ StringInv'
BY DEF GcIInv, MarkInv, StringInv, Pending, Doomed

\* Starting an operation that holds nothing of its own keeps the invariant.
LEMMA BeginKeepsIInv ==
  ASSUME GcIInv, NEW n \in Ops, BeginOp(n), n.at \notin {"intern", "concat_intern", "new_string"},
         StackInv'
  PROVE  GcIInv'
<1> USE DEF BeginOp, Proceed
<1>1. HeapTypeOK'
  BY DEF GcIInv, HeapTypeOK
<1>2. op.at = "idle"
  BY OpsMembers
<1>3. MarkInv' /\ StringInv'
  BY <1>2, OtherObjects
<1> QED
  BY <1>1, <1>3 DEF GcIInv

\* The first steps of the operations keep the invariant.
LEMMA StartsKeepIInv ==
  ASSUME GcIInv, Starts
  PROVE  GcIInv'
<1> USE OpsMembers
<1>0. HeapTypeOK /\ Len(stack) \in 0..StackMax
  BY StackAssumption DEF GcIInv, HeapTypeOK
<1>1. ASSUME NEW c \in Chars, native_string(c)
      PROVE  GcIInv'
  <2>1. op.at = "idle"
    BY <1>1 DEF native_string, BeginOp
  <2>2. CASE InternedAs(c) = {}
    <3> DEFINE n == [at |-> "new_string", chars |-> c]
    <3>1. BeginOp(n) /\ n \in Ops /\ Len(stack) < StackMax
      BY <1>1, <2>2 DEF native_string
    <3>2. HeapTypeOK'
      BY <3>1 DEF GcIInv, HeapTypeOK, BeginOp, Proceed
    <3>3. phase' = "off" /\ op' = n /\ UNCHANGED <<heap, strings, stack>>
      BY <3>1 DEF BeginOp, Proceed
    <3>4. \A s \in strings : heap[s].chars # c
      BY <2>2 DEF InternedAs
    <3>5. MarkInv' /\ StringInv'
      BY <2>1, <3>1, <3>3, <3>4 DEF GcIInv, MarkInv, StringInv, Pending, Doomed, BeginOp
    <3>6. StackInv'
      BY <3>1, <3>3 DEF StackInv
    <3> QED
      BY <3>2, <3>5, <3>6 DEF GcIInv
  <2>3. CASE InternedAs(c) # {}
    <3>1. PICK s \in InternedAs(c) :
            /\ stack' = Append(stack, s) /\ phase = "off" /\ Len(stack) < StackMax
            /\ Proceed(NoOp) /\ UNCHANGED <<heap, objects, strings, tombstone, globals, open>>
      BY <1>1, <2>3 DEF native_string
    <3>2. s \in Objects
      BY DEF GcIInv, HeapTypeOK, InternedAs
    <3>3. HeapTypeOK'
      BY <3>1, <3>2, StackFacts DEF GcIInv, HeapTypeOK, Proceed
    <3>4. MarkInv' /\ StringInv'
      BY <2>1, <3>1, OtherObjects DEF Proceed
    <3>5. StackInv'
      BY <3>1 DEF StackInv, Proceed
    <3> QED
      BY <3>3, <3>4, <3>5 DEF GcIInv
  <2> QED
    BY <2>2, <2>3
<1>2. ASSUME NEW c \in Chars, string_add(c)
      PROVE  GcIInv'
  <2> DEFINE n == [at |-> "concat", chars |-> c]
  <2>1. BeginOp(n) /\ Len(stack) >= 2
    BY <1>2 DEF string_add
  <2>2. StackInv'
    BY <2>1 DEF BeginOp, Proceed, StackInv
  <2> QED
    BY <2>1, <2>2, BeginKeepsIInv
<1>3. ASSUME NEW s \in 1..StackMax, op_closure(s)
      PROVE  GcIInv'
  <2> DEFINE n == [at |-> "new_closure", slot |-> s]
  <2>1. BeginOp(n) /\ Len(stack) < StackMax
    BY <1>3 DEF op_closure
  <2>2. StackInv'
    BY <2>1 DEF BeginOp, Proceed, StackInv
  <2> QED
    BY <2>1, <2>2, BeginKeepsIInv
<1>4. CASE op_struct \/ call_struct
  <2>1. PICK k \in 0..StackMax :
          /\ BeginOp([at |-> "new_struct", args |-> k])
          /\ IF k = 0 THEN Len(stack) < StackMax ELSE Len(stack) > k
    <3>1. CASE op_struct
      BY <3>1, StackAssumption DEF op_struct
    <3>2. CASE call_struct
      <4>1. PICK k \in 1..(Len(stack) - 1) : BeginOp([at |-> "new_struct", args |-> k])
        BY <3>2 DEF call_struct
      <4>2. k \in 0..StackMax /\ k # 0 /\ Len(stack) > k
        BY <1>0, StackAssumption
      <4> QED
        BY <4>1, <4>2
    <3> QED
      BY <1>4, <3>1, <3>2
  <2>2. StackInv'
    BY <2>1 DEF BeginOp, Proceed, StackInv
  <2> QED
    BY <2>1, <2>2, BeginKeepsIInv
<1>5. CASE define_member
  <2>1. BeginOp([at |-> "member"]) /\ Len(stack) >= 2
    BY <1>5 DEF define_member
  <2>2. StackInv'
    BY <2>1 DEF BeginOp, Proceed, StackInv
  <2> QED
    BY <2>1, <2>2, BeginKeepsIInv
<1>6. CASE op_define_global
  <2>1. BeginOp([at |-> "define_global"]) /\ Len(stack) >= 1
    BY <1>6 DEF op_define_global
  <2>2. StackInv'
    BY <2>1 DEF BeginOp, Proceed, StackInv
  <2> QED
    BY <2>1, <2>2, BeginKeepsIInv
<1>7. CASE op_set_property
  <2>1. BeginOp([at |-> "property"]) /\ Len(stack) >= 2
    BY <1>7 DEF op_set_property
  <2>2. StackInv'
    BY <2>1 DEF BeginOp, Proceed, StackInv
  <2> QED
    BY <2>1, <2>2, BeginKeepsIInv
<1> QED
  BY <1>1, <1>2, <1>3, <1>4, <1>5, <1>6, <1>7 DEF Starts

\* An object enters the heap at an address that is free and not listed.
LEMMA AllocateKeepsTypes ==
  ASSUME HeapTypeOK, phase = "off", NEW h, h \in [DOMAIN heap -> Object],
         NEW o \in Objects, o \notin DOMAIN heap, NEW x \in Object,
         heap' = With(h, o, x), objects' = objects \cup {o}
  PROVE  /\ DOMAIN heap' \subseteq objects' /\ objects' \subseteq Objects
         /\ heap' \in [DOMAIN heap' -> Object]
         /\ DOMAIN heap' = DOMAIN heap \cup {o} /\ heap'[o] = x
         /\ \A p \in DOMAIN heap : heap'[p] = h[p]
<1>1. DOMAIN h = DOMAIN heap
  OBVIOUS
<1>2. DOMAIN heap' = DOMAIN heap \cup {o} /\ heap'[o] = x
  BY <1>1 DEF With
<1>3. \A p \in DOMAIN heap : heap'[p] = h[p]
  BY <1>1 DEF With
<1>4. heap' \in [DOMAIN heap' -> Object]
  BY <1>1 DEF With
<1> QED
  BY <1>2, <1>3, <1>4 DEF HeapTypeOK

\* The steps that allocate, and so may start a collection, keep the invariant.
LEMMA AllocatesKeepIInv ==
  ASSUME GcIInv, Allocates
  PROVE  GcIInv'
<1> USE OpsMembers DEF Proceed, At
<1>0. HeapTypeOK /\ op \in Ops /\ heap \in [DOMAIN heap -> Object] /\ Len(stack) \in 0..StackMax
  BY StackAssumption DEF GcIInv, HeapTypeOK
<1>a. PICK o \in Objects :
        \/ new_string(o) \/ concat_string(o) \/ new_struct(o) \/ new_struct_names(o)
        \/ new_closure(o) \/ new_upvalue(o)
  BY DEF Allocates
<1>b. phase = "off" /\ phase' = "off" /\ UNCHANGED <<phase, marked, gray, todo>> /\ ran' = FALSE
  BY <1>a DEF new_string, concat_string, new_struct, new_struct_names, new_closure, new_upvalue
<1>c. MarkInv'
  BY <1>b DEF MarkInv
<1>d. strings \subseteq DOMAIN heap
  BY <1>b DEF GcIInv, StringInv
<1>1. CASE new_string(o)
  <2> DEFINE x == [Blank("string") EXCEPT !.chars = op.chars]
  <2>1. op.at = "new_string" /\ op.chars \in Chars
    BY <1>1, <1>0, OpFacts DEF new_string
  <2>2. x \in Object /\ x.type = "string" /\ x.chars = op.chars
    BY <2>1, BlankFacts
  <2> HIDE DEF x
  <2>3. /\ o \notin DOMAIN heap /\ heap' = With(heap, o, x) /\ objects' = objects \cup {o}
        /\ stack' = Append(stack, o) /\ op' = [at |-> "intern", self |-> o]
        /\ UNCHANGED <<strings, tombstone, globals, open>>
    BY <1>1 DEF new_string, allocate_object, x
  <2>4. Len(stack) < StackMax
    BY <2>1 DEF GcIInv, StackInv
  <2>5. HeapTypeOK'
    BY <1>0, <1>b, <2>2, <2>3, <2>4, AllocateKeepsTypes, StackFacts DEF HeapTypeOK
  <2>6. /\ DOMAIN heap' = DOMAIN heap \cup {o} /\ heap'[o] = x
        /\ \A p \in DOMAIN heap : heap'[p] = heap[p]
    BY <1>0, <1>b, <2>2, <2>3, AllocateKeepsTypes
  <2>7. StringInv'
    BY <1>b, <1>d, <2>1, <2>2, <2>3, <2>6 DEF GcIInv, StringInv, Pending, Doomed
  <2>8. StackInv'
    BY <2>3 DEF StackInv
  <2> QED
    BY <1>c, <2>5, <2>7, <2>8 DEF GcIInv
<1>2. CASE concat_string(o)
  <2>1. op.at = "concat" /\ op.chars \in Chars /\ Len(stack) >= 2
    BY <1>2, <1>0, OpFacts DEF concat_string, GcIInv, StackInv
  <2>2. CASE InternedAs(op.chars) = {}
    <3> DEFINE x == [Blank("string") EXCEPT !.chars = op.chars]
    <3>2. x \in Object /\ x.type = "string" /\ x.chars = op.chars
      BY <2>1, BlankFacts
    <3>3. \A s \in strings : heap[s].chars # x.chars
      BY <2>2, <3>2 DEF InternedAs
    <3> HIDE DEF x
    <3>4. /\ o \notin DOMAIN heap /\ heap' = With(heap, o, x) /\ objects' = objects \cup {o}
          /\ op' = [at |-> "concat_intern", self |-> o]
          /\ UNCHANGED <<stack, strings, tombstone, globals, open>>
      BY <1>2, <2>2 DEF concat_string, allocate_object, x
    <3>5. HeapTypeOK'
      BY <1>0, <1>b, <3>2, <3>4, AllocateKeepsTypes DEF HeapTypeOK
    <3>6. /\ DOMAIN heap' = DOMAIN heap \cup {o} /\ heap'[o] = x
          /\ \A p \in DOMAIN heap : heap'[p] = heap[p]
      BY <1>0, <1>b, <3>2, <3>4, AllocateKeepsTypes
    <3>7. StringInv'
      BY <1>b, <1>d, <2>1, <3>2, <3>3, <3>4, <3>6 DEF GcIInv, StringInv, Pending, Doomed
    <3>8. StackInv'
      BY <2>1, <3>4 DEF StackInv
    <3> QED
      BY <1>c, <3>5, <3>7, <3>8 DEF GcIInv
  <2>3. CASE InternedAs(op.chars) # {}
    <3>1. PICK s \in InternedAs(op.chars) :
            /\ objects' = objects \cup {o} /\ Concatenated(s) /\ op' = NoOp
            /\ UNCHANGED <<heap, strings, tombstone, globals, open>>
      BY <1>2, <2>3 DEF concat_string
    <3>2. s \in Objects
      BY <1>0 DEF HeapTypeOK, InternedAs
    <3>3. Dropped(2) \in Seq(Objects) /\ Len(Dropped(2)) = Len(stack) - 2
      BY <1>0, <2>1, StackFacts
    <3>4. stack' \in Seq(Objects) /\ Len(stack') = Len(stack) - 1
      BY <1>0, <3>1, <3>2, <3>3 DEF Concatenated
    <3>a. Len(stack') <= StackMax
      BY <1>0, <2>1, <3>4, StackAssumption
    <3>b. objects' \subseteq Objects /\ DOMAIN heap' \subseteq objects'
      BY <1>0, <3>1 DEF HeapTypeOK
    <3>5. HeapTypeOK'
      BY <1>0, <1>b, <3>1, <3>4, <3>a, <3>b DEF HeapTypeOK
    <3>6. MarkInv' /\ StringInv'
      BY <1>b, <2>1, <3>1, OtherObjects
    <3>7. StackInv'
      BY <3>1 DEF StackInv
    <3> QED
      BY <3>5, <3>6, <3>7 DEF GcIInv
  <2> QED
    BY <2>2, <2>3
<1>3. CASE new_struct(o)
  <2>1. op.at = "new_struct" /\ op.args \in 0..StackMax
    BY <1>3, <1>0, OpFacts DEF new_struct
  <2>2. /\ o \notin DOMAIN heap /\ heap' = With(heap, o, Blank("struct"))
        /\ objects' = objects \cup {o}
        /\ op' = [at |-> "names", self |-> o, args |-> op.args]
        /\ UNCHANGED <<strings, tombstone, stack, globals, open>>
    BY <1>3 DEF new_struct, allocate_object
  <2>3. /\ DOMAIN heap' \subseteq objects' /\ objects' \subseteq Objects
        /\ heap' \in [DOMAIN heap' -> Object]
        /\ DOMAIN heap' = DOMAIN heap \cup {o} /\ heap'[o] = Blank("struct")
        /\ \A p \in DOMAIN heap : heap'[p] = heap[p]
    BY <1>0, <1>b, <2>2, AllocateKeepsTypes, BlankFacts
  <2>4. HeapTypeOK'
    BY <1>0, <1>b, <2>1, <2>2, <2>3 DEF HeapTypeOK
  <2>5. StringInv'
    BY <1>b, <2>1, <2>2, <2>3, OtherObjects, BlankFacts
  <2>6. StackInv'
    BY <2>1, <2>2 DEF GcIInv, StackInv
  <2> QED
    BY <1>c, <2>4, <2>5, <2>6 DEF GcIInv
<1>4. CASE new_struct_names(o)
  <2> DEFINE h == [heap EXCEPT ![op.self].names = o]
  <2>1. /\ op.at = "names" /\ op.self \in DOMAIN heap /\ op.self \in Objects
        /\ op.args \in 0..StackMax
    BY <1>4, <1>0, OpFacts DEF new_struct_names, Alive
  <2>2. /\ h \in [DOMAIN heap -> Object]
        /\ \A p \in DOMAIN heap : h[p].type = heap[p].type /\ h[p].chars = heap[p].chars
    <3>1. h = [heap EXCEPT ![op.self].names = o]
      OBVIOUS
    <3> HIDE DEF h
    <3> QED
      BY <1>0, <2>1, <3>1, NameFacts
  <2> HIDE DEF h
  <2>3. /\ o \notin DOMAIN heap /\ heap' = With(h, o, Blank("vec"))
        /\ objects' = objects \cup {o}
        /\ UNCHANGED <<strings, tombstone, globals, open>>
    BY <1>4 DEF new_struct_names, h
  <2>4. /\ DOMAIN heap' \subseteq objects' /\ objects' \subseteq Objects
        /\ heap' \in [DOMAIN heap' -> Object]
        /\ DOMAIN heap' = DOMAIN heap \cup {o} /\ heap'[o] = Blank("vec")
        /\ \A p \in DOMAIN heap : heap'[p] = h[p]
    <3>1. Blank("vec") \in Object
      BY BlankFacts
    <3>2. HeapTypeOK /\ phase = "off" /\ h \in [DOMAIN heap -> Object] /\ o \in Objects
          /\ o \notin DOMAIN heap /\ heap' = With(h, o, Blank("vec"))
          /\ objects' = objects \cup {o}
      BY <1>0, <1>b, <2>2, <2>3
    <3> QED
      BY <3>1, <3>2, AllocateKeepsTypes, Zenon
  <2>5. CASE op.args = 0
    <3>1. stack' = Append(stack, op.self) /\ op' = NoOp /\ Len(stack) < StackMax
      BY <1>4, <2>1, <2>5 DEF new_struct_names, GcIInv, StackInv
    <3>2. HeapTypeOK'
      BY <1>0, <1>b, <2>1, <2>3, <2>4, <3>1, StackFacts DEF HeapTypeOK
    <3>3. StringInv'
      BY <1>b, <2>1, <2>2, <2>3, <2>4, <3>1, OtherObjects, BlankFacts
    <3> QED
      BY <1>c, <3>1, <3>2, <3>3 DEF GcIInv, StackInv
  <2>6. CASE op.args # 0
    <3>0. op.args \in 1..StackMax /\ Len(stack) > op.args
      BY <2>1, <2>6, StackAssumption DEF GcIInv, StackInv
    <3>1. /\ stack' = Dropped(1)
          /\ op' = [at |-> "set_field", self |-> op.self, args |-> op.args, value |-> Top(0)]
      BY <1>4, <2>6 DEF new_struct_names
    <3>d. Len(stack) >= 1
      <4>1. \A k, n \in Nat : k >= 1 /\ n > k => n >= 1
        OBVIOUS
      <4>2. op.args \in Nat /\ Len(stack) \in Nat /\ op.args >= 1 /\ Len(stack) > op.args
        BY <1>0, <3>0, StackAssumption
      <4> QED
        BY ONLY <4>1, <4>2
    <3>a. Top(0) \in Objects
      BY <1>0, <3>d, PopFacts
    <3>2. op' \in Ops /\ op'.at = "set_field" /\ op'.args = op.args
      BY <2>1, <3>0, <3>1, <3>a
    <3>b. stack' \in Seq(Objects) /\ Len(stack') = Len(stack) - 1
      BY <1>0, <3>1, <3>d, PopFacts
    <3>c. Len(stack') <= StackMax
      BY <1>0, <3>b, StackAssumption
    <3>3. HeapTypeOK'
      BY <1>0, <1>b, <2>3, <2>4, <3>2, <3>b, <3>c DEF HeapTypeOK
    <3>4. StringInv'
      BY <1>b, <2>1, <2>2, <2>3, <2>4, <3>2, OtherObjects, BlankFacts
    <3>5. StackInv'
      BY <1>0, <3>0, <3>2, <3>b DEF StackInv
    <3> QED
      BY <1>c, <3>3, <3>4, <3>5 DEF GcIInv
  <2> QED
    BY <2>5, <2>6
<1>5. CASE new_closure(o)
  <2> DEFINE found == {open[s] : s \in {op.slot} \cap DOMAIN open}
             x == [Blank("closure") EXCEPT !.refs = found]
  <2>1. /\ op.at = "new_closure" /\ op.slot \in 1..StackMax
        /\ op \in [at : {"new_closure", "new_upvalue"}, slot : 1..StackMax]
    BY <1>5, <1>0, OpFacts DEF new_closure
  <2>2. found \subseteq Objects
    BY <1>0 DEF HeapTypeOK
  <2>3. x \in Object /\ x.type = "closure"
    BY <2>2, BlankFacts
  <2>4. /\ o \notin DOMAIN heap /\ heap' = With(heap, o, x)
        /\ objects' = objects \cup {o} /\ stack' = Append(stack, o)
        /\ op' \in {[op EXCEPT !.at = "new_upvalue"], NoOp}
        /\ UNCHANGED <<strings, tombstone, globals, open>>
    BY <1>5 DEF new_closure, allocate_object
  <2> HIDE DEF x
  <2>5. /\ DOMAIN heap' \subseteq objects' /\ objects' \subseteq Objects
        /\ heap' \in [DOMAIN heap' -> Object]
        /\ DOMAIN heap' = DOMAIN heap \cup {o} /\ heap'[o] = x
        /\ \A p \in DOMAIN heap : heap'[p] = heap[p]
    BY <1>0, <1>b, <2>3, <2>4, AllocateKeepsTypes
  <2>6. op'.at \in {"new_upvalue", "idle"} /\ op' \in Ops
    BY <2>1, <2>4 DEF Ops
  <2>7. Len(stack) < StackMax
    BY <2>1 DEF GcIInv, StackInv
  <2>8. HeapTypeOK'
    BY <1>0, <1>b, <2>4, <2>5, <2>6, <2>7, StackFacts DEF HeapTypeOK
  <2>9. StringInv'
    BY <1>b, <2>1, <2>3, <2>4, <2>5, <2>6, OtherObjects
  <2>10. Len(stack') = Len(stack) + 1
    BY <1>0, <2>4 DEF HeapTypeOK
  <2>11. StackInv'
    BY <1>0, <2>6, <2>10 DEF StackInv
  <2> QED
    BY <1>c, <2>8, <2>9, <2>11 DEF GcIInv
<1>6. CASE new_upvalue(o)
  <2> DEFINE h == [heap EXCEPT ![Top(0)].refs = @ \cup {o}]
  <2>1. op.at = "new_upvalue" /\ op.slot \in 1..StackMax /\ Top(0) \in DOMAIN heap
    BY <1>6, <1>0, OpFacts DEF new_upvalue, Alive
  <2>2. /\ h \in [DOMAIN heap -> Object]
        /\ \A p \in DOMAIN heap : h[p].type = heap[p].type /\ h[p].chars = heap[p].chars
    <3>1. PICK t \in DOMAIN heap : t = Top(0)
      BY <2>1
    <3>2. h = [heap EXCEPT ![t].refs = @ \cup {o}]
      BY <3>1
    <3> HIDE DEF h
    <3>3. h \in [DOMAIN heap -> Object]
      BY <1>0, <3>2, RefFacts
    <3>4. \A p \in DOMAIN heap : h[p].type = heap[p].type /\ h[p].chars = heap[p].chars
      BY <1>0, <3>2, RefFacts
    <3> QED
      BY <3>3, <3>4
  <2>3. /\ o \notin DOMAIN heap /\ heap' = With(h, o, Blank("upvalue"))
        /\ objects' = objects \cup {o} /\ open' = With(open, op.slot, o) /\ op' = NoOp
        /\ UNCHANGED <<strings, tombstone, stack, globals>>
    BY <1>6 DEF new_upvalue
  <2> HIDE DEF h
  <2>4. /\ DOMAIN heap' \subseteq objects' /\ objects' \subseteq Objects
        /\ heap' \in [DOMAIN heap' -> Object]
        /\ DOMAIN heap' = DOMAIN heap \cup {o} /\ heap'[o] = Blank("upvalue")
        /\ \A p \in DOMAIN heap : heap'[p] = h[p]
    <3>1. Blank("upvalue") \in Object
      BY BlankFacts
    <3>2. HeapTypeOK /\ phase = "off" /\ h \in [DOMAIN heap -> Object] /\ o \in Objects
          /\ o \notin DOMAIN heap /\ heap' = With(h, o, Blank("upvalue"))
          /\ objects' = objects \cup {o}
      BY <1>0, <1>b, <2>2, <2>3
    <3> QED
      BY <3>1, <3>2, AllocateKeepsTypes, Zenon
  <2>5. DOMAIN open' \subseteq 1..StackMax /\ open' \in [DOMAIN open' -> Objects]
    BY <1>0, <2>1, <2>3 DEF HeapTypeOK, With
  <2>6. HeapTypeOK'
    BY <1>0, <1>b, <2>3, <2>4, <2>5 DEF HeapTypeOK
  <2>7. StringInv'
    BY <1>b, <2>1, <2>2, <2>3, <2>4, OtherObjects, BlankFacts
  <2> QED
    BY <1>c, <2>3, <2>6, <2>7 DEF GcIInv, StackInv
<1> QED
  BY <1>a, <1>1, <1>2, <1>3, <1>4, <1>5, <1>6

\* The steps that store a reference keep the invariant.
LEMMA StoresKeepIInv ==
  ASSUME GcIInv, Stores
  PROVE  GcIInv'
<1> USE OpsMembers DEF Proceed, At
<1>0. HeapTypeOK /\ op \in Ops /\ heap \in [DOMAIN heap -> Object] /\ Len(stack) \in 0..StackMax
  BY StackAssumption DEF GcIInv, HeapTypeOK
<1>b. phase = "off" /\ phase' = "off" /\ UNCHANGED <<phase, marked, gray, todo>> /\ ran' \in BOOLEAN
  BY <1>0 DEF Stores, new_string_intern, concat_string_intern, set_field, define_member_name,
     define_member_set, set_property, define_global_set, op_get_local, op_get_global,
     op_get_property, op_pop, reset_stack, gc, HeapTypeOK
<1>c. MarkInv'
  BY <1>b DEF MarkInv
<1>1. CASE new_string_intern \/ concat_string_intern
  <2>1. /\ op.at \in {"intern", "concat_intern"} /\ op.self \in DOMAIN heap /\ op.self \in Objects
        /\ strings' = strings \cup {op.self} /\ tombstone' \in BOOLEAN /\ op' = NoOp
        /\ UNCHANGED <<heap, objects, globals, open>>
    BY <1>0, <1>1, OpFacts DEF new_string_intern, concat_string_intern, Intern, Alive, HeapTypeOK
  <2>2. stack' \in Seq(Objects) /\ Len(stack') <= StackMax
    <3>1. CASE new_string_intern
      BY <1>0, <3>1 DEF new_string_intern, HeapTypeOK
    <3>2. CASE concat_string_intern
      <4>1. Len(stack) >= 2
        BY <3>2 DEF concat_string_intern, GcIInv, StackInv
      <4>2. Dropped(2) \in Seq(Objects) /\ Len(Dropped(2)) = Len(stack) - 2
        BY <1>0, <4>1, StackFacts
      <4>3. stack' = Append(Dropped(2), op.self)
        BY <3>2 DEF concat_string_intern, Concatenated
      <4> QED
        BY <1>0, <2>1, <4>1, <4>2, <4>3, StackAssumption
    <3> QED
      BY <1>1, <3>1, <3>2
  <2>3. HeapTypeOK'
    BY <1>0, <1>b, <2>1, <2>2 DEF HeapTypeOK
  <2>4. heap[op.self].type = "string"
    BY <2>1 DEF GcIInv, StringInv
  <2>5. StringInv'
    BY <1>b, <2>1, <2>4 DEF GcIInv, StringInv, Pending, Doomed
  <2> QED
    BY <1>c, <2>1, <2>3, <2>5 DEF GcIInv, StackInv
<1>2. CASE set_field
  <2>1. /\ op.at = "set_field" /\ op.self \in DOMAIN heap /\ op.self \in Objects
        /\ op.args \in 1..StackMax /\ Len(stack) >= op.args /\ op.value \in Objects
        /\ op \in [at : {"set_field"}, self : Objects, args : 1..StackMax, value : Objects]
    BY <1>0, <1>2, OpFacts DEF set_field, Alive, GcIInv, StackInv
  <2>2. /\ Top(0) \in Objects
        /\ Dropped(1) \in Seq(Objects) /\ Len(Dropped(1)) = Len(stack) - 1
    <3>1. \A k, n \in Nat : k >= 1 /\ n >= k => n >= 1
      OBVIOUS
    <3>2. op.args \in Nat /\ Len(stack) \in Nat /\ op.args >= 1 /\ Len(stack) >= op.args
      BY <1>0, <2>1, StackAssumption
    <3>3. Len(stack) >= 1
      BY ONLY <3>1, <3>2
    <3> QED
      BY <1>0, <3>3, PopFacts
  <2>3. /\ heap' = [heap EXCEPT ![op.self].refs = @ \cup {op.value}]
        /\ UNCHANGED <<objects, strings, tombstone, globals, open>>
    BY <1>2 DEF set_field
  <2>4. heap' \in [DOMAIN heap -> Object]
    BY <1>0, <2>1, <2>3, RefFacts
  <2>5. \A p \in DOMAIN heap : heap'[p].type = heap[p].type /\ heap'[p].chars = heap[p].chars
    BY <1>0, <2>1, <2>3, RefFacts
  <2>6. DOMAIN heap' = DOMAIN heap
    BY <2>4
  <2>7. CASE op.args = 1
    <3>1. stack' = Append(Dropped(1), op.self) /\ op' = NoOp
      BY <1>2, <2>7 DEF set_field
    <3>3. stack' \in Seq(Objects) /\ Len(stack') <= StackMax
      BY <1>0, <2>1, <2>2, <3>1, StackAssumption
    <3>4. HeapTypeOK'
      BY <1>0, <1>b, <2>3, <2>4, <2>6, <3>1, <3>3 DEF HeapTypeOK
    <3>5. StringInv'
      BY <1>b, <2>1, <2>3, <2>5, <2>6, <3>1, OtherObjects
    <3> QED
      BY <1>c, <3>1, <3>4, <3>5 DEF GcIInv, StackInv
  <2>8. CASE op.args # 1
    <3>1. stack' = Dropped(1) /\ op' = [op EXCEPT !.args = op.args - 1, !.value = Top(0)]
      BY <1>2, <2>8 DEF set_field
    <3>2. op.args - 1 \in 1..StackMax
      BY <2>1, <2>8, StackAssumption
    <3>a. op' = [at |-> "set_field", self |-> op.self, args |-> op.args - 1, value |-> Top(0)]
      BY <2>1, <3>1
    <3>3. op'.at = "set_field" /\ op'.args = op.args - 1 /\ op' \in Ops
      BY <2>1, <2>2, <3>2, <3>a
    <3>4. Len(stack') <= StackMax
      BY <1>0, <2>1, <2>2, <3>1, StackAssumption
    <3>5. HeapTypeOK'
      BY <1>0, <1>b, <2>2, <2>3, <2>4, <2>6, <3>1, <3>3, <3>4 DEF HeapTypeOK
    <3>6. StringInv'
      BY <1>b, <2>1, <2>3, <2>5, <2>6, <3>3, OtherObjects
    <3>7. StackInv'
      BY <1>0, <2>1, <2>2, <2>8, <3>1, <3>3, StackAssumption DEF StackInv
    <3> QED
      BY <1>c, <3>5, <3>6, <3>7 DEF GcIInv
  <2> QED
    BY <2>7, <2>8
<1>6. CASE define_member_name
  <2>1. /\ op.at = "member" /\ Len(stack) >= 2 /\ op' = [at |-> "member_set"]
        /\ UNCHANGED <<heap, objects, strings, tombstone, stack, globals, open>>
    BY <1>6 DEF define_member_name, GcIInv, StackInv
  <2>2. op' \in Ops
    BY <2>1
  <2>3. HeapTypeOK'
    BY <1>0, <1>b, <2>1, <2>2 DEF HeapTypeOK
  <2>4. StringInv'
    BY <1>b, <2>1, OtherObjects
  <2>5. StackInv'
    BY <2>1 DEF StackInv
  <2> QED
    BY <1>c, <2>3, <2>4, <2>5 DEF GcIInv
<1>3. CASE define_member_set
  <2>1. op.at = "member_set" /\ Len(stack) >= 2 /\ Top(1) \in DOMAIN heap
    BY <1>3 DEF define_member_set, Alive, GcIInv, StackInv
  <2>2. Top(0) \in Objects
    BY <1>0, <2>1, StackFacts
  <2>3. /\ heap' = [heap EXCEPT ![Top(1)].refs = @ \cup {Top(0)}]
        /\ stack' = Dropped(1) /\ op' = NoOp
        /\ UNCHANGED <<objects, strings, tombstone, globals, open>>
    BY <1>3 DEF define_member_set
  <2>4. heap' \in [DOMAIN heap -> Object]
    BY <1>0, <2>1, <2>2, <2>3, RefFacts
  <2>5. \A p \in DOMAIN heap : heap'[p].type = heap[p].type /\ heap'[p].chars = heap[p].chars
    BY <1>0, <2>1, <2>2, <2>3, RefFacts
  <2>6. DOMAIN heap' = DOMAIN heap
    BY <2>4
  <2>7. stack' \in Seq(Objects) /\ Len(stack') = Len(stack) - 1
    BY <1>0, <2>1, <2>3, StackFacts
  <2>8. Len(stack') <= StackMax
    BY <1>0, <2>1, <2>7, StackAssumption
  <2>9. HeapTypeOK'
    BY <1>0, <1>b, <2>3, <2>4, <2>6, <2>7, <2>8 DEF HeapTypeOK
  <2>10. StringInv'
    BY <1>b, <2>1, <2>3, <2>5, <2>6, OtherObjects
  <2> QED
    BY <1>c, <2>3, <2>9, <2>10 DEF GcIInv, StackInv
<1>7. CASE set_property
  <2>1. op.at = "property" /\ Len(stack) >= 2 /\ Top(1) \in DOMAIN heap
    BY <1>7 DEF set_property, Alive, GcIInv, StackInv
  <2>2. Top(0) \in Objects
    BY <1>0, <2>1, StackFacts
  <2>3. /\ \E old \in heap[Top(1)].refs :
             heap' = [heap EXCEPT ![Top(1)].refs = (@ \ {old}) \cup {Top(0)}]
        /\ stack' = Append(Dropped(2), Top(0)) /\ op' = NoOp
        /\ UNCHANGED <<objects, strings, tombstone, globals, open>>
    BY <1>7 DEF set_property
  <2>4. /\ heap' \in [DOMAIN heap -> Object]
        /\ \A p \in DOMAIN heap : heap'[p].type = heap[p].type /\ heap'[p].chars = heap[p].chars
    <3>1. PICK old \in heap[Top(1)].refs : heap' = [heap EXCEPT ![Top(1)].refs = (@ \ {old}) \cup {Top(0)}]
      BY <2>3
    <3> DEFINE o == Top(1)
               refs == (heap[o].refs \ {old}) \cup {Top(0)}
    <3>2. o \in DOMAIN heap /\ refs \in SUBSET Objects
      BY <1>0, <2>1, <2>2 DEF Object
    <3>3. heap' = [heap EXCEPT ![o].refs = refs]
      BY <3>1
    <3> HIDE DEF o, refs
    <3>4. heap \in [DOMAIN heap -> Object]
      BY <1>0
    <3>5. \A h : h = [heap EXCEPT ![o].refs = refs] =>
            /\ h \in [DOMAIN heap -> Object]
            /\ \A p \in DOMAIN heap : h[p].type = heap[p].type /\ h[p].chars = heap[p].chars
      BY ONLY <3>2, <3>4, OtherRefFacts
    <3> QED BY ONLY <3>3, <3>5
  <2>5. DOMAIN heap' = DOMAIN heap
    BY <2>4
  <2>6. Dropped(2) \in Seq(Objects) /\ Len(Dropped(2)) = Len(stack) - 2
    BY <1>0, <2>1, StackFacts
  <2>7. stack' \in Seq(Objects) /\ Len(stack') <= StackMax
    BY <1>0, <2>1, <2>2, <2>3, <2>6, StackAssumption
  <2>8. HeapTypeOK'
    BY <1>0, <1>b, <2>3, <2>4, <2>5, <2>7 DEF HeapTypeOK
  <2>9. StringInv'
    BY <1>b, <2>1, <2>3, <2>4, <2>5, OtherObjects
  <2> QED
    BY <1>c, <2>3, <2>8, <2>9 DEF GcIInv, StackInv
<1>4. CASE define_global_set
  <2>1. op.at = "define_global" /\ Len(stack) >= 1
    BY <1>4 DEF define_global_set, GcIInv, StackInv
  <2>2. Top(0) \in Objects
    BY <1>0, <2>1, StackFacts
  <2>3. /\ globals' \subseteq Objects /\ stack' = Dropped(1) /\ op' = NoOp
        /\ UNCHANGED <<heap, objects, strings, tombstone, open>>
    BY <1>0, <1>4, <2>2 DEF define_global_set, HeapTypeOK
  <2>4. stack' \in Seq(Objects) /\ Len(stack') = Len(stack) - 1
    BY <1>0, <2>1, <2>3, StackFacts
  <2>5. Len(stack') <= StackMax
    BY <1>0, <2>1, <2>4, StackAssumption
  <2>6. HeapTypeOK'
    BY <1>0, <1>b, <2>3, <2>4, <2>5 DEF HeapTypeOK
  <2>7. StringInv'
    BY <1>b, <2>1, <2>3, OtherObjects
  <2> QED
    BY <1>c, <2>3, <2>6, <2>7 DEF GcIInv, StackInv
<1>5. CASE \/ op_pop \/ reset_stack \/ \E k \in 1..StackMax : op_get_local(k)
           \/ \E o \in Objects : op_get_global(o) \/ op_get_property(o)
  <2>1. op = NoOp /\ op' = NoOp /\ UNCHANGED <<heap, objects, strings, tombstone, globals>>
    BY <1>5 DEF op_pop, reset_stack, op_get_local, op_get_global, op_get_property
  <2>2. stack' \in Seq(Objects) /\ Len(stack') <= StackMax
    <3>1. CASE op_pop
      <4>1. Len(stack) >= 1 /\ stack' = Dropped(1)
        BY <3>1 DEF op_pop
      <4>2. stack' \in Seq(Objects) /\ Len(stack') = Len(stack) - 1
        BY <1>0, <4>1, StackFacts
      <4> QED
        BY <1>0, <4>1, <4>2, StackAssumption
    <3>2. CASE reset_stack
      BY <3>2, StackAssumption DEF reset_stack
    <3>3. ASSUME NEW k \in 1..StackMax, op_get_local(k)
          PROVE  stack' \in Seq(Objects) /\ Len(stack') <= StackMax
      <4>1. /\ Len(stack) < StackMax /\ k \in DOMAIN stack
            /\ stack' = Append(stack, stack[k])
        BY <3>3 DEF op_get_local
      <4>2. stack[k] \in Objects
        BY <1>0, <4>1 DEF HeapTypeOK
      <4> QED
        BY <1>0, <4>1, <4>2, StackFacts
    <3>4. ASSUME NEW o \in Objects, op_get_global(o)
          PROVE  stack' \in Seq(Objects) /\ Len(stack') <= StackMax
      <4>1. Len(stack) < StackMax /\ stack' = Append(stack, o)
        BY <3>4 DEF op_get_global
      <4> QED
        BY <1>0, <4>1, StackFacts
    <3>5. ASSUME NEW o \in Objects, op_get_property(o)
          PROVE  stack' \in Seq(Objects) /\ Len(stack') <= StackMax
      <4>1. Len(stack) >= 1 /\ stack' = Append(Dropped(1), o)
        BY <3>5 DEF op_get_property
      <4>2. Dropped(1) \in Seq(Objects) /\ Len(Dropped(1)) = Len(stack) - 1
        BY <1>0, <4>1, PopFacts
      <4> QED
        BY <1>0, <4>1, <4>2, StackAssumption
    <3> QED
      BY <1>5, <3>1, <3>2, <3>3, <3>4, <3>5
  <2>3. DOMAIN open' \subseteq 1..StackMax /\ open' \in [DOMAIN open' -> Objects]
    BY <1>0, <1>5 DEF op_pop, reset_stack, op_get_local, op_get_global, op_get_property, HeapTypeOK
  <2>4. HeapTypeOK'
    BY <1>0, <1>b, <2>1, <2>2, <2>3 DEF HeapTypeOK
  <2>5. StringInv'
    BY <1>b, <2>1, OtherObjects
  <2> QED
    BY <1>c, <2>1, <2>4, <2>5 DEF GcIInv, StackInv
<1> QED
  BY <1>1, <1>2, <1>3, <1>4, <1>5, <1>6, <1>7 DEF Stores

-----------------------------------------------------------------------------
(* The collector.  The mutator stands still, so the roots and what they    *)
(* lead to stay; the colours of the objects are what its steps change.     *)

\* What stays while the collector neither frees an object nor enters a string.
LEMMA CollectorTypes ==
  ASSUME HeapTypeOK, UNCHANGED <<heap, objects, vm>>, strings' \subseteq strings,
         tombstone' \in BOOLEAN, ran' \in BOOLEAN,
         phase' \in {"trace", "weak", "sweep"}, phase' # "trace" => gray' = {}
  PROVE  HeapTypeOK'
BY DEF HeapTypeOK, vm

\* The part about the stack depends on what the machine holds, and on nothing else.
LEMMA StackInvStays ==
  ASSUME GcIInv, UNCHANGED vm
  PROVE  StackInv'
BY DEF GcIInv, StackInv, vm

\* Marking the roots makes every root gray, which begins the tricolour invariant.
LEMMA MarkRootsKeepsIInv ==
  ASSUME GcIInv, mark_roots
  PROVE  GcIInv'
<1>1. HeapTypeOK /\ phase = "off"
  BY DEF GcIInv, mark_roots
<1>2. HeapTypeOK'
  BY <1>1, CollectorTypes DEF mark_roots, HeapTypeOK
<1>3. StackInv'
  BY StackInvStays DEF mark_roots
<1>4. Traced' = Traced /\ Roots' = Roots /\ Roots \subseteq Traced
  BY <1>1, TracedStays, TracedFacts DEF mark_roots
<1>5. MarkInv'
  BY <1>4 DEF mark_roots, MarkInv, Black, Alive
<1>6. StringInv'
  BY <1>1 DEF GcIInv, StringInv, mark_roots, vm, Pending, Doomed
<1> QED
  BY <1>2, <1>3, <1>5, <1>6 DEF GcIInv

\* Blackening an object marks what it refers to, so no black object refers to a
\* white one.
LEMMA BlackenKeepsIInv ==
  ASSUME GcIInv, NEW o \in Objects, blacken_object(o)
  PROVE  GcIInv'
<1>1. HeapTypeOK /\ phase = "trace" /\ phase' = "trace"
  BY DEF GcIInv, blacken_object
<1>2. HeapTypeOK'
  BY <1>1, CollectorTypes DEF blacken_object, HeapTypeOK
<1>3. StackInv'
  BY StackInvStays DEF blacken_object
<1>4. Traced' = Traced /\ Roots' = Roots
  BY TracedStays DEF blacken_object
<1>5. /\ Roots \subseteq marked /\ gray \subseteq marked
      /\ \A p \in marked \ gray : heap[p].refs \subseteq marked
      /\ marked \subseteq DOMAIN heap \cap Traced
  BY <1>1 DEF GcIInv, MarkInv, Black
<1>6. /\ o \in gray /\ heap[o].refs \subseteq DOMAIN heap /\ heap' = heap
      /\ marked' = marked \cup heap[o].refs
      /\ gray' = (gray \ {o}) \cup (heap[o].refs \ marked)
  BY DEF blacken_object, Alive
<1>7. heap[o].refs \subseteq Traced
  BY <1>1, <1>5, <1>6, TracedFacts
<1>8. \A p \in marked' \ gray' : p \in (marked \ gray) \cup {o}
  BY <1>5, <1>6
<1>9. \A p \in marked' \ gray' : heap'[p].refs \subseteq marked'
  BY <1>5, <1>6, <1>8
<1>10. MarkInv'
  BY <1>1, <1>4, <1>5, <1>6, <1>7, <1>9 DEF MarkInv, Black
<1>11. StringInv'
  BY <1>1 DEF GcIInv, StringInv, blacken_object, vm, Pending, Doomed
<1> QED
  BY <1>2, <1>3, <1>10, <1>11 DEF GcIInv

\* When nothing is gray any more, every reachable object is marked.
LEMMA TracedKeepsIInv ==
  ASSUME GcIInv, traced
  PROVE  GcIInv'
<1>1. HeapTypeOK /\ phase = "trace" /\ phase' = "weak" /\ gray = {}
  BY DEF GcIInv, traced
<1>2. HeapTypeOK'
  BY <1>1, CollectorTypes DEF traced, HeapTypeOK
<1>3. StackInv'
  BY StackInvStays DEF traced
<1>4. Traced' = Traced /\ Roots' = Roots
  BY TracedStays DEF traced
<1>5. MarkInv'
  BY <1>1, <1>4 DEF GcIInv, MarkInv, Black, traced
<1>6. StringInv'
  BY <1>1 DEF GcIInv, StringInv, traced, vm, Pending, Doomed
<1> QED
  BY <1>2, <1>3, <1>5, <1>6 DEF GcIInv

\* The sweep starts with every marked object still to be visited.
LEMMA RemoveWhiteKeepsIInv ==
  ASSUME GcIInv, hashmap_remove_white
  PROVE  GcIInv'
<1>1. /\ HeapTypeOK /\ phase = "weak" /\ phase' = "sweep" /\ gray = {} /\ gray' = {}
      /\ todo' = objects /\ strings' = strings \cap marked /\ marked' = marked
      /\ UNCHANGED <<heap, objects, vm>>
  BY DEF GcIInv, hashmap_remove_white, HeapTypeOK
<1>2. HeapTypeOK'
  BY <1>1, CollectorTypes DEF hashmap_remove_white, HeapTypeOK
<1>3. StackInv'
  BY <1>1, StackInvStays
<1>4. Traced' = Traced /\ Roots' = Roots
  BY <1>1, TracedStays
<1>5. marked \subseteq DOMAIN heap /\ DOMAIN heap \subseteq objects
  BY <1>1 DEF GcIInv, MarkInv, Black, HeapTypeOK
<1>6. Black' = marked /\ Black = marked
  BY <1>1, <1>5 DEF Black
<1>7. MarkInv'
  BY <1>1, <1>4, <1>5, <1>6 DEF GcIInv, MarkInv
<1>8. \A p \in DOMAIN heap : p \in objects
  BY <1>5
<1>9. StringInv'
  BY <1>1, <1>6, <1>8 DEF GcIInv, StringInv, vm, Pending, Doomed
<1> QED
  BY <1>2, <1>3, <1>7, <1>9 DEF GcIInv

\* The black objects at the sweep are the traced ones, and no step of it changes
\* which they are.
LEMMA BlackIsTraced ==
  ASSUME GcIInv, phase \in {"weak", "sweep"}
  PROVE  Black = Traced
<1>1. HeapTypeOK /\ gray = {}
  BY DEF GcIInv, HeapTypeOK
<1>2. Roots \subseteq Black /\ Closed(Black) /\ Black \subseteq Traced
  BY <1>1 DEF GcIInv, MarkInv, Closed
<1>3. Black \subseteq Objects
  BY <1>1, <1>2, TracedFacts
<1> QED
  BY <1>1, <1>2, <1>3, TracedFacts

\* What one step of the sweep changes: it frees a white object or takes the mark
\* off a black one.
LEMMA SweepFacts ==
  ASSUME GcIInv, NEW o \in Objects, sweep(o)
  PROVE  /\ phase = "sweep" /\ phase' = "sweep" /\ o \in todo /\ todo' = todo \ {o}
         /\ o \in DOMAIN heap /\ UNCHANGED <<strings, tombstone, vm, gray, ran>>
         /\ o \in marked => /\ marked' = marked \ {o}
                            /\ UNCHANGED <<heap, objects>>
         /\ o \notin marked => /\ o \notin Black /\ marked' = marked
                               /\ DOMAIN heap' = DOMAIN heap \ {o}
                               /\ heap' \in [DOMAIN heap' -> Object]
                               /\ \A p \in DOMAIN heap' : heap'[p] = heap[p]
                               /\ objects' = objects \ {o}
         /\ Black' = Black
<1>1. /\ phase = "sweep" /\ phase' = "sweep" /\ o \in todo /\ todo' = todo \ {o}
      /\ o \in DOMAIN heap /\ UNCHANGED <<strings, tombstone, vm, gray, ran>>
  BY DEF sweep, Alive
<1>2. heap \in [DOMAIN heap -> Object] /\ marked \subseteq todo /\ todo \subseteq objects
  BY <1>1 DEF GcIInv, HeapTypeOK, MarkInv
<1>3. CASE o \in marked
  <2>1. marked' = marked \ {o} /\ UNCHANGED <<heap, objects>>
    BY <1>3 DEF sweep
  <2>2. Black' = Black
    BY <1>1, <1>2, <1>3, <2>1 DEF Black
  <2> QED
    BY <1>1, <1>3, <2>1, <2>2
<1>4. CASE o \notin marked
  <2>1. heap' = Without(heap, o) /\ objects' = objects \ {o} /\ marked' = marked
    BY <1>4 DEF sweep
  <2>2. /\ DOMAIN heap' = DOMAIN heap \ {o} /\ heap' \in [DOMAIN heap' -> Object]
        /\ \A p \in DOMAIN heap' : heap'[p] = heap[p]
    BY <1>2, <2>1 DEF Without
  <2>3. o \notin Black
    BY <1>1, <1>4 DEF Black
  <2>4. Black' = Black
    BY <1>1, <1>4, <2>1, <2>2 DEF Black
  <2> QED
    BY <1>1, <1>4, <2>1, <2>2, <2>3, <2>4
<1> QED
  BY <1>3, <1>4

\* Freeing what is not traced leaves what is traced as it was.
LEMMA SweepKeepsTraced ==
  ASSUME GcIInv, NEW o \in Objects, sweep(o), HeapTypeOK'
  PROVE  Traced' = Traced /\ Roots' = Roots
<1>1. /\ HeapTypeOK /\ Black = Traced /\ Black' = Black
      /\ DOMAIN heap' \subseteq DOMAIN heap
      /\ Black \subseteq DOMAIN heap'
      /\ \A p \in DOMAIN heap' : heap'[p] = heap[p]
  BY BlackIsTraced, SweepFacts DEF GcIInv, MarkInv
<1>2. Roots' = Roots
  BY SweepFacts DEF vm, Roots, Slots
<1>3. Traced' \subseteq Traced
  <2>1. Roots \subseteq Traced /\ Traced \subseteq Objects
    BY <1>1, TracedFacts
  <2>2. \A p \in Traced : p \in DOMAIN heap' /\ heap'[p].refs \subseteq Traced
    BY <1>1, TracedFacts
  <2>3. \A S \in SUBSET Objects : Roots' \subseteq S /\ Closed(S)' => Traced' \subseteq S
    BY DEF Traced, ReachableFrom
  <2>4. \A S \in SUBSET Objects : Roots' \subseteq S /\
          (\A p \in S \cap DOMAIN heap' : heap'[p].refs \subseteq S) => Traced' \subseteq S
    BY <2>3 DEF Closed
  <2> QED
    BY <1>2, <2>1, <2>2, <2>4
<1>4. Traced \subseteq Traced'
  <2>1. SUFFICES ASSUME NEW S \in SUBSET Objects, Roots' \subseteq S,
                        \A p \in S \cap DOMAIN heap' : heap'[p].refs \subseteq S
                 PROVE  Traced \subseteq S
    <3>1. Traced \subseteq Objects
      BY <1>1, TracedFacts
    <3> QED
      BY <3>1 DEF Traced, ReachableFrom, Closed
  <2> DEFINE T == S \cap Traced
  <2>2. T \in SUBSET Objects /\ Roots \subseteq T
    BY <1>1, <1>2, <2>1, TracedFacts
  <2>3. Closed(T)
    BY <1>1, <2>1, TracedFacts DEF Closed
  <2>4. Traced \subseteq T
    BY <1>1, <2>2, <2>3, TracedFacts
  <2> QED
    BY <2>4
<1> QED
  BY <1>2, <1>3, <1>4

\* A step of the sweep keeps the invariant.
LEMMA SweepKeepsIInv ==
  ASSUME GcIInv, NEW o \in Objects, sweep(o)
  PROVE  GcIInv'
<1>1. HeapTypeOK'
  BY SweepFacts DEF GcIInv, HeapTypeOK, vm
<1>2. StackInv'
  BY StackInvStays, SweepFacts
<1>3. Traced' = Traced /\ Roots' = Roots
  BY <1>1, SweepKeepsTraced
<1>4. Black' = Black
  BY SweepFacts
<1>5. \A p \in DOMAIN heap' : p \in DOMAIN heap /\ heap'[p] = heap[p]
  BY SweepFacts
<1>6. Black \subseteq DOMAIN heap'
  BY SweepFacts DEF GcIInv, MarkInv
<1>7. MarkInv'
  <2>1. phase = "sweep" /\ gray' = gray /\ gray = {}
    BY SweepFacts DEF GcIInv, HeapTypeOK
  <2>2. /\ Roots \subseteq Black /\ Black \subseteq Traced
        /\ \A p \in Black : heap[p].refs \subseteq Black
        /\ marked \subseteq todo /\ todo \subseteq objects
    BY <2>1 DEF GcIInv, MarkInv
  <2>3. marked' \subseteq todo' /\ todo' \subseteq objects'
    <3>1. todo' = todo \ {o}
      BY SweepFacts
    <3>2. CASE o \in marked
      <4>1. marked' = marked \ {o} /\ objects' = objects
        BY <3>2, SweepFacts
      <4> QED
        BY <2>2, <3>1, <4>1
    <3>3. CASE o \notin marked
      <4>1. marked' = marked /\ objects' = objects \ {o}
        BY <3>3, SweepFacts
      <4> QED
        BY <2>2, <3>1, <3>3, <4>1
    <3> QED
      BY <3>2, <3>3
  <2>4. \A p \in Black : heap'[p].refs \subseteq Black
    BY <1>5, <1>6, <2>2
  <2> QED
    BY <1>3, <1>4, <1>6, <2>1, <2>2, <2>3, <2>4 DEF MarkInv
<1>8. StringInv'
  <2>1. op' = op /\ strings' = strings /\ phase = "sweep" /\ phase' = "sweep"
    BY SweepFacts DEF vm
  <2>2. strings \subseteq Black
    BY <2>1 DEF GcIInv, StringInv
  <2>3. \A s \in strings : s \in DOMAIN heap' /\ heap'[s] = heap[s]
    BY <1>5, <1>6, <2>2
  <2>4. \A p \in DOMAIN heap' : Doomed(p) => Doomed(p)'
    <3> SUFFICES ASSUME NEW p \in DOMAIN heap', Doomed(p)
                 PROVE  Doomed(p)'
      OBVIOUS
    <3>1. p # o
      BY SweepFacts DEF Doomed
    <3> QED
      BY <2>1, <3>1, SweepFacts DEF Doomed
  <2>5. \A p \in DOMAIN heap' :
          heap'[p].type = "string" => p \in strings \/ Pending(p) \/ Doomed(p)'
    BY <1>5, <2>4 DEF GcIInv, StringInv
  <2> QED
    BY <1>4, <1>5, <2>1, <2>2, <2>3, <2>5 DEF GcIInv, StringInv, Pending
<1> QED
  BY <1>1, <1>2, <1>7, <1>8 DEF GcIInv

\* The end of a collection keeps the invariant and leaves only what was traced.
LEMMA SweptKeepsIInv ==
  ASSUME GcIInv, swept
  PROVE  GcIInv' /\ DOMAIN heap \subseteq Traced
<1>1. /\ HeapTypeOK /\ phase = "sweep" /\ phase' = "off" /\ todo = {} /\ todo' = {}
      /\ UNCHANGED <<heap, objects, strings, tombstone, vm, marked, gray, ran>>
  BY DEF GcIInv, swept
<1>2. marked = {}
  BY <1>1 DEF GcIInv, MarkInv
<1>3. HeapTypeOK'
  BY <1>1, <1>2 DEF HeapTypeOK, vm
<1>4. StackInv'
  BY <1>1, StackInvStays
<1>5. Black = DOMAIN heap
  BY <1>1, <1>2 DEF Black
<1>6. StringInv'
  BY <1>1, <1>5 DEF GcIInv, StringInv, Pending, Doomed, vm
<1>7. MarkInv'
  BY <1>1 DEF MarkInv
<1> QED
  BY <1>1, <1>3, <1>4, <1>5, <1>6, <1>7, BlackIsTraced DEF GcIInv

-----------------------------------------------------------------------------
(* The theorems.                                                           *)

\* The initial state satisfies the invariant.
LEMMA InitGcIInv == GcInit => GcIInv
<1> SUFFICES ASSUME GcInit PROVE GcIInv
  OBVIOUS
<1>1. HeapTypeOK
  <2>1. heap = [o \in {} |-> Blank("vec")] /\ open = [s \in {} |-> NoObj]
    BY DEF GcInit
  <2>2. DOMAIN heap = {} /\ heap \in [DOMAIN heap -> Object]
    BY <2>1
  <2>3. DOMAIN open = {} /\ open \in [DOMAIN open -> Objects]
    BY <2>1
  <2>4. stack \in Seq(Objects) /\ Len(stack) = 0
    BY DEF GcInit
  <2> QED
    <3>1. /\ objects = {} /\ globals = {} /\ strings = {} /\ gray = {}
          /\ phase = "off" /\ marked = {} /\ todo = {}
      BY DEF GcInit
    <3>2. tombstone \in BOOLEAN /\ ran \in BOOLEAN /\ op \in Ops
      BY OpsMembers DEF GcInit
    <3>3. Len(stack) <= StackMax
      BY <2>4, StackAssumption
    <3>4. DOMAIN heap \subseteq objects /\ DOMAIN open \subseteq 1..StackMax
      BY <2>2, <2>3
    <3> QED
      BY <2>2, <2>3, <2>4, <3>1, <3>2, <3>3, <3>4 DEF HeapTypeOK
<1>2. StackInv /\ MarkInv /\ StringInv
  BY OpsMembers DEF GcInit, StackInv, MarkInv, StringInv
<1> QED
  BY <1>1, <1>2 DEF GcIInv

\* Every step keeps the invariant.
LEMMA NextKeepsGcIInv == GcIInv /\ [GcNext]_gcVars => GcIInv'
<1> SUFFICES ASSUME GcIInv, [GcNext]_gcVars PROVE GcIInv'
  OBVIOUS
<1>1. CASE Starts
  BY <1>1, StartsKeepIInv
<1>2. CASE Allocates
  BY <1>2, AllocatesKeepIInv
<1>3. CASE Stores
  BY <1>3, StoresKeepIInv
<1>4. CASE Collects
  BY <1>4, MarkRootsKeepsIInv, BlackenKeepsIInv, TracedKeepsIInv, RemoveWhiteKeepsIInv,
     SweepKeepsIInv, SweptKeepsIInv DEF Collects
<1>5. CASE UNCHANGED gcVars
  <2>1. UNCHANGED <<heap, objects, strings, tombstone, stack, globals, open, op, phase,
                    marked, gray, todo, ran>>
    BY <1>5 DEF gcVars, vm, gc
  <2>2. Traced' = Traced /\ Roots' = Roots
    BY <2>1, TracedStays DEF vm
  <2>3. HeapTypeOK' /\ StackInv'
    BY <2>1 DEF GcIInv, HeapTypeOK, StackInv
  <2>4. MarkInv' /\ StringInv'
    BY <2>1, <2>2 DEF GcIInv, MarkInv, StringInv, Black, Pending, Doomed
  <2> QED
    BY <2>3, <2>4 DEF GcIInv
<1> QED
  BY <1>1, <1>2, <1>3, <1>4, <1>5 DEF GcNext

\* Two strings that can be reached are in the table, or one of them is about to
\* enter it, after a search that did not find its contents there.
LEMMA IInvMakesStringsOne == GcIInv => StringsAllocated /\ EqualStringsAreOne
<1> SUFFICES ASSUME GcIInv PROVE StringsAllocated /\ EqualStringsAreOne
  OBVIOUS
<1>1. StringsAllocated
  BY DEF GcIInv, StringInv, StringsAllocated
<1>2. ASSUME NEW o \in Traced \cap DOMAIN heap
      PROVE  ~Doomed(o)
  BY BlackIsTraced DEF Doomed, Black
<1>3. strings \subseteq DOMAIN heap
  BY DEF GcIInv, StringInv, MarkInv
<1>4. EqualStringsAreOne
  <2> SUFFICES ASSUME NEW a \in Traced \cap DOMAIN heap, NEW b \in Traced \cap DOMAIN heap,
                      heap[a].type = "string", heap[b].type = "string",
                      heap[a].chars = heap[b].chars
               PROVE  a = b
    BY DEF EqualStringsAreOne
  <2>1. (a \in strings \/ Pending(a)) /\ (b \in strings \/ Pending(b))
    BY <1>2 DEF GcIInv, StringInv
  <2>2. CASE a \in strings /\ b \in strings
    BY <2>2 DEF GcIInv, StringInv
  <2>3. CASE Pending(a) \/ Pending(b)
    BY <2>1, <2>3 DEF GcIInv, StringInv, Pending
  <2> QED
    BY <2>1, <2>2, <2>3
<1> QED
  BY <1>1, <1>4

\* The interning of strings survives every collection: the table's keys are
\* allocated, and equal strings are one object, as string_equal takes for
\* granted.
THEOREM StringsStayInterned == GcSpec => [](HeapTypeOK /\ StringsAllocated /\ EqualStringsAreOne)
<1>1. GcIInv => HeapTypeOK /\ StringsAllocated /\ EqualStringsAreOne
  BY IInvMakesStringsOne DEF GcIInv
<1> QED
  BY <1>1, InitGcIInv, NextKeepsGcIInv, PTL DEF GcSpec

\* A step that frees an object is a step of the sweep, at an object that is not
\* black; concat_string's early free is of an object that never was on the heap.
LEMMA OnlySweepFrees ==
  ASSUME GcIInv, [GcNext]_gcVars, NEW o \in DOMAIN heap \ DOMAIN heap'
  PROVE  o \notin Traced
<1>1. HeapTypeOK
  BY DEF GcIInv
<1>2. CASE \E p \in Objects : sweep(p)
  <2>1. PICK p \in Objects : sweep(p)
    BY <1>2
  <2>2. p \notin Black /\ o = p /\ phase = "sweep"
    BY <2>1, SweepFacts
  <2> QED
    BY <2>2, BlackIsTraced
<1>3. CASE Starts \/ UNCHANGED gcVars
  BY <1>3 DEF Starts, native_string, string_add, op_closure, op_struct, call_struct,
     define_member, op_set_property, op_define_global, BeginOp, gcVars
<1>4. CASE Allocates
  BY <1>4 DEF Allocates, new_string, concat_string, new_struct, new_struct_names, new_closure,
     new_upvalue, allocate_object, With
<1>5. CASE Stores
  BY <1>5 DEF Stores, new_string_intern, concat_string_intern, set_field, define_member_name,
     define_member_set, set_property, define_global_set, op_get_local, op_get_global, op_get_property,
     op_pop, reset_stack
<1>6. CASE Collects /\ ~\E p \in Objects : sweep(p)
  BY <1>6 DEF Collects, mark_roots, traced, hashmap_remove_white, swept, blacken_object
<1> QED
  BY <1>2, <1>3, <1>4, <1>5, <1>6 DEF GcNext

\* Mark and sweep is exact about what it traces: what is freed was not traced, and
\* a collection ends with nothing else allocated.  So of what the stack, the globals
\* and the list of open upvalues lead the program to, it frees only what is never
\* marked itself: the vector of names of a struct, or an open upvalue, that no
\* marked field refers to.
THEOREM CollectionIsExact == GcSpec => FreedEarlyIsUnmarked /\ NothingFloats
<1>1. GcIInv /\ [GcNext]_gcVars
        => [\A o \in DOMAIN heap \ DOMAIN heap' : o \in Live => o \in Unmarked \ Traced]_gcVars
  <2> SUFFICES ASSUME GcIInv, [GcNext]_gcVars, NEW o \in DOMAIN heap \ DOMAIN heap', o \in Live
               PROVE  o \in Unmarked \ Traced
    OBVIOUS
  <2>1. o \notin Traced
    BY OnlySweepFrees
  <2> QED
    BY <2>1 DEF Live
<1>2. GcIInv /\ [GcNext]_gcVars
        => [phase = "sweep" /\ phase' = "off" => DOMAIN heap \subseteq Traced]_gcVars
  <2> SUFFICES ASSUME GcIInv, [GcNext]_gcVars, phase = "sweep", phase' = "off"
               PROVE  DOMAIN heap \subseteq Traced
    OBVIOUS
  <2>1. swept
    BY DEF GcNext, Starts, Allocates, Stores, Collects, native_string, string_add, op_closure,
       op_struct, call_struct, define_member, op_set_property, op_define_global, BeginOp, At,
       new_string,
       concat_string, new_struct, new_struct_names, new_closure, new_upvalue,
       new_string_intern, concat_string_intern, set_field, define_member_name,
       define_member_set, set_property, define_global_set, op_get_local, op_get_global,
       op_get_property, op_pop, reset_stack, mark_roots, traced, hashmap_remove_white, blacken_object, sweep, gcVars, gc
  <2> QED
    BY <2>1, SweptKeepsIInv
<1> QED
  BY <1>1, <1>2, InitGcIInv, NextKeepsGcIInv, PTL DEF GcSpec, FreedEarlyIsUnmarked, NothingFloats

\* Between collections the table of strings refers to no freed string:
\* hashmap_remove_white has forgotten what sweep frees.
THEOREM TableOutlivesCollection == GcSpec => []StringsAllocated
<1> QED BY StringsStayInterned, PTL

\* The heap holds objects that vm->objects lists, and the collector's own sets are
\* empty whenever none of its phases needs them.
THEOREM HeapIsTyped == GcSpec => []HeapTypeOK
<1> QED BY StringsStayInterned, PTL

\* A collection leaves no garbage behind: what was not traced is freed.
THEOREM GarbageIsFreed == GcSpec => NothingFloats
<1> QED BY CollectionIsExact, PTL
=============================================================================

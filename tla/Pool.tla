-------------------------------- MODULE Pool --------------------------------
(***************************************************************************)
(* The lock-free object pool (src/src/pool.c): two singly linked stacks    *)
(* whose heads carry a version, single and batched operations on them, and *)
(* a cache per thread in front of the batched ones.                        *)
(*                                                                         *)
(* A thread runs one call at a time, one access to shared memory per step: *)
(* "pc" names the access that comes next.  The stores that link a batch    *)
(* and the loads that walk one are single steps: the compare-and-swap that *)
(* follows them fails if another thread has changed the list meanwhile.    *)
(* Memory is sequentially consistent here.                                 *)
(***************************************************************************)
EXTENDS Integers, Sequences, FiniteSets

CONSTANTS
  Threads,
  Capacity,    \* the nodes are 1..Capacity, in the order of their addresses
  BatchSize,   \* BATCH_SIZE (64)
  CacheSize,   \* CACHE_SIZE (128)
  Calls,       \* the functions the clients call
  Alone,       \* those of them that run while no other call is under way
  CallsMax     \* bound on the calls that allocate or release

ASSUME CapacityAssumption == Capacity \in Nat \ {0}
ASSUME SizesAssumption == BatchSize \in Nat \ {0} /\ CacheSize \in Nat /\ CallsMax \in Nat
ASSUME CallsAssumption ==
  Calls \subseteq {"alloc", "free", "alloc_batch", "free_batch", "flush"} /\ Alone \subseteq Calls

VARIABLES
  next,        \* Node.next
  head,        \* Pool.head and Pool.free_list: [ptr, ver]
  alloc_cnt, free_cnt,
  held,        \* the objects a thread's client has been given
  cache,       \* thead_cache
  run,         \* the call a thread is executing: its next access and its locals
  pool         \* "open", "closing" (pool_destroy was called), "destroyed", "aborted"

vars == <<next, head, alloc_cnt, free_cnt, held, cache, run, pool>>

Nodes == 1..Capacity
NULL == 0
Pointer == [ptr : Nodes \cup {NULL}, ver : Nat]
Least(m, n) == IF m < n THEN m ELSE n
Members(s) == {s[k] : k \in DOMAIN s}

\* new: new_head.ptr; objs: what is left to release; count: how many are left to
\* allocate.
Idle == [pc |-> "idle", op |-> "none", target |-> "free_list", old |-> [ptr |-> NULL, ver |-> 0],
         new |-> NULL, chunks |-> <<>>, objs |-> <<>>, count |-> 0]

\* The nodes from p on, and the node reached after n of them.
Follow(p) ==
  LET node[k \in 0..Capacity] ==
        IF k = 0 THEN p ELSE IF node[k - 1] = NULL THEN NULL ELSE next[node[k - 1]]
  IN  node
Reach(p) == Cardinality({k \in 0..(Capacity - 1) : Follow(p)[k] # NULL})
Chain(p, n) == [k \in 1..Least(n, Reach(p)) |-> Follow(p)[k - 1]]

-----------------------------------------------------------------------------
(* The calls.                                                              *)

Busy == {t \in Threads : run[t].pc # "idle"}

Begin(t, call) ==
  /\ pool = "open" /\ run[t].pc = "idle" /\ call.op \in Calls
  /\ alloc_cnt + free_cnt + Cardinality(Busy) < CallsMax
  /\ call.op \in Alone => Busy = {}
  /\ \A u \in Busy : run[u].op \notin Alone
  /\ run' = [run EXCEPT ![t] = call]
  /\ UNCHANGED <<next, head, alloc_cnt, free_cnt, pool>>

Returns(t) == run' = [run EXCEPT ![t] = Idle]

pool_alloc(t) ==
  /\ Begin(t, [Idle EXCEPT !.op = "alloc", !.pc = "load", !.count = 1])
  /\ UNCHANGED <<held, cache>>

pool_free(t, n) ==
  /\ n \in held[t]
  /\ Begin(t, [Idle EXCEPT !.op = "free", !.pc = "load_free", !.objs = <<n>>, !.chunks = <<n>>])
  /\ held' = [held EXCEPT ![t] = @ \ {n}]
  /\ UNCHANGED cache

\* The end of the cache serves first; batch_alloc_internal returns no more than
\* is left, so that nothing is ever in excess.
pool_alloc_batch(t, n) ==
  LET cached == Least(n, Len(cache[t]))
      kept == Len(cache[t]) - cached
  IN  /\ Begin(t, IF cached = n THEN [Idle EXCEPT !.op = "alloc_batch"]
                  ELSE [Idle EXCEPT !.op = "alloc_batch", !.pc = "load", !.count = n - cached])
      /\ held' = [held EXCEPT ![t] = @ \cup {cache[t][k] : k \in (kept + 1)..Len(cache[t])}]
      /\ cache' = [cache EXCEPT ![t] = SubSeq(@, 1, kept)]

\* Mutant: A cache without a limit.
CacheWithoutLimit(t, s) ==
  /\ Members(s) \subseteq held[t]
  /\ Begin(t, [Idle EXCEPT !.op = "free_batch"])
  /\ held' = [held EXCEPT ![t] = @ \ Members(s)]
  /\ cache' = [cache EXCEPT ![t] = @ \o s]

\* The cache takes what it has room for, the free list the rest.
pool_free_batch(t, s) ==
  LET cached == Least(Len(s), CacheSize - Len(cache[t]))
      rest == SubSeq(s, cached + 1, Len(s))
  IN  /\ Members(s) \subseteq held[t]
      /\ Begin(t, IF rest = <<>> THEN [Idle EXCEPT !.op = "free_batch"]
                  ELSE [Idle EXCEPT !.op = "free_batch", !.pc = "link", !.objs = rest])
      /\ held' = [held EXCEPT ![t] = @ \ Members(s)]
      /\ cache' = [cache EXCEPT ![t] = @ \o SubSeq(s, 1, cached)]

pool_flush_cache(t) ==
  /\ cache[t] # <<>>
  /\ Begin(t, [Idle EXCEPT !.op = "flush", !.pc = "link", !.objs = cache[t]])
  /\ cache' = [cache EXCEPT ![t] = <<>>]
  /\ UNCHANGED held

\* A client destroys the pool when no call is under way; the pool flushes the
\* cache of that thread.
pool_destroy(t) ==
  /\ pool = "open" /\ Busy = {}
  /\ pool' = "closing"
  /\ run' = [run EXCEPT ![t] = [Idle EXCEPT !.op = "destroy",
                                            !.pc = IF cache[t] = <<>> THEN "check" ELSE "link",
                                            !.objs = cache[t]]]
  /\ cache' = [cache EXCEPT ![t] = <<>>]
  /\ UNCHANGED <<next, head, alloc_cnt, free_cnt, held>>

\* All objects must have come back ("Pool leak detected!").
check(t) ==
  /\ run[t].pc = "check"
  /\ pool' = IF alloc_cnt = free_cnt THEN "destroyed" ELSE "aborted"
  /\ Returns(t)
  /\ UNCHANGED <<next, head, alloc_cnt, free_cnt, held, cache>>

-----------------------------------------------------------------------------
(* Taking nodes: the loops of pool_alloc and batch_alloc_internal.         *)

Go(t, r) == run' = [run EXCEPT ![t] = r]

load(t) ==
  LET r == run[t]
  IN  /\ r.pc = "load"
      /\ Go(t, [r EXCEPT !.old = head[r.target],
                         !.pc = IF head[r.target].ptr = NULL THEN "load_head" ELSE "walk"])
      /\ UNCHANGED <<next, head, alloc_cnt, free_cnt, held, cache, pool>>

\* The free list was empty: the fresh nodes are next.  The loop over a batch ends
\* when there are none, with the chunks of its last attempt.
load_head(t) ==
  LET r == run[t]
      stale == r.op = "alloc_batch" /\ head["head"].ptr = NULL
  IN  /\ r.pc = "load_head"
      /\ Go(t, [r EXCEPT !.target = "head", !.old = head["head"],
                         !.pc = IF stale THEN "count" ELSE "walk"])
      /\ held' = [held EXCEPT ![t] = IF stale THEN @ \cup Members(r.chunks) ELSE @]
      /\ UNCHANGED <<next, head, alloc_cnt, free_cnt, cache, pool>>

\* pool_alloc returns NULL, or reads what follows the node it is after.
walk(t) ==
  LET r == run[t]
      chunks == Chain(r.old.ptr, Least(BatchSize, r.count))
  IN  /\ r.pc = "walk"
      /\ IF r.old.ptr = NULL
           THEN Returns(t)
           ELSE Go(t, [r EXCEPT !.chunks = chunks, !.pc = "cas",
                                !.new = Follow(r.old.ptr)[Len(chunks)]])
      /\ UNCHANGED <<next, head, alloc_cnt, free_cnt, held, cache, pool>>

\* Mutant: A head without a version.
SwingsByPointer(list, old, ptr) ==
  head[list].ptr = old.ptr /\ head' = [head EXCEPT ![list] = [ptr |-> ptr, ver |-> @.ver]]

\* The compare-and-swap of a head and its version.
Swings(list, old, ptr) ==
  head[list] = old /\ head' = [head EXCEPT ![list] = [ptr |-> ptr, ver |-> old.ver + 1]]

\* A weak compare-and-swap may fail of itself.  pool_alloc goes on with the value
\* it found, and with the list it began with; a batch starts over.
cas(t) ==
  LET r == run[t]
  IN  /\ r.pc = "cas"
      /\ \/ /\ Swings(r.target, r.old, r.new)
            /\ held' = [held EXCEPT ![t] = @ \cup Members(r.chunks)]
            /\ Go(t, [r EXCEPT !.pc = "count"])
         \/ /\ Go(t, IF r.op = "alloc" THEN [r EXCEPT !.pc = "walk", !.old = head[r.target]]
                                       ELSE [r EXCEPT !.pc = "load"])
            /\ UNCHANGED <<head, held>>
      /\ UNCHANGED <<next, alloc_cnt, free_cnt, cache, pool>>

\* Mutant: What was asked for is counted, not what was obtained.
CountRequest(t) ==
  LET r == run[t]
      left == r.count - Len(r.chunks)
  IN  /\ r.pc = "count"
      /\ alloc_cnt' = alloc_cnt + r.count
      /\ IF left = 0 THEN Returns(t)
                     ELSE Go(t, [r EXCEPT !.pc = "load", !.count = left, !.chunks = <<>>])
      /\ UNCHANGED <<next, head, free_cnt, held, cache, pool>>

count(t) ==
  LET r == run[t]
      left == r.count - Len(r.chunks)
  IN  /\ r.pc = "count"
      /\ alloc_cnt' = alloc_cnt + Len(r.chunks)
      /\ IF left = 0 THEN Returns(t)
                     ELSE Go(t, [r EXCEPT !.pc = "load", !.count = left, !.chunks = <<>>])
      /\ UNCHANGED <<next, head, free_cnt, held, cache, pool>>

-----------------------------------------------------------------------------
(* Giving nodes back: the loops of pool_free and pool_free_batch_internal. *)

\* Each node of a batch is linked to the one before it.
link(t) ==
  LET r == run[t]
      chunks == SubSeq(r.objs, 1, Least(BatchSize, Len(r.objs)))
      before == [n \in Members(Tail(chunks)) |->
                   CHOOSE m \in Nodes : \E i \in 2..Len(chunks) : n = chunks[i] /\ m = chunks[i - 1]]
  IN  /\ r.pc = "link"
      /\ next' = [n \in Nodes |-> IF n \in DOMAIN before THEN before[n] ELSE next[n]]
      /\ Go(t, [r EXCEPT !.chunks = chunks, !.pc = "load_free"])
      /\ UNCHANGED <<head, alloc_cnt, free_cnt, held, cache, pool>>

load_free(t) ==
  /\ run[t].pc = "load_free"
  /\ Go(t, [run[t] EXCEPT !.old = head["free_list"], !.pc = "store"])
  /\ UNCHANGED <<next, head, alloc_cnt, free_cnt, held, cache, pool>>

\* The last node of the batch is linked to the list, and the first becomes its
\* top: they are the same node when one is released.
store(t) ==
  LET r == run[t]
  IN  /\ r.pc = "store"
      /\ next' = [next EXCEPT ![r.chunks[Len(r.chunks)]] = r.old.ptr]
      /\ Go(t, [r EXCEPT !.pc = "cas_free"])
      /\ UNCHANGED <<head, alloc_cnt, free_cnt, held, cache, pool>>

\* Mutant: A retry that does not link the batch to the new top.
RetryUnlinked(t) ==
  LET r == run[t]
  IN  /\ r.pc = "cas_free"
      /\ \/ /\ Swings("free_list", r.old, r.chunks[1])
            /\ Go(t, [r EXCEPT !.pc = "count_free",
                               !.objs = SubSeq(@, Len(r.chunks) + 1, Len(@))])
         \/ /\ Go(t, [r EXCEPT !.old = head["free_list"]])
            /\ UNCHANGED head
      /\ UNCHANGED <<next, alloc_cnt, free_cnt, held, cache, pool>>

cas_free(t) ==
  LET r == run[t]
  IN  /\ r.pc = "cas_free"
      /\ \/ /\ Swings("free_list", r.old, r.chunks[1])
            /\ Go(t, [r EXCEPT !.pc = "count_free",
                               !.objs = SubSeq(@, Len(r.chunks) + 1, Len(@))])
         \/ /\ Go(t, [r EXCEPT !.pc = "load_free"])
            /\ UNCHANGED head
      /\ UNCHANGED <<next, alloc_cnt, free_cnt, held, cache, pool>>

count_free(t) ==
  LET r == run[t]
  IN  /\ r.pc = "count_free"
      /\ free_cnt' = free_cnt + Len(r.chunks)
      /\ IF r.objs # <<>> THEN Go(t, [r EXCEPT !.pc = "link"])
         ELSE IF r.op = "destroy" THEN Go(t, [r EXCEPT !.pc = "check"])
         ELSE Returns(t)
      /\ UNCHANGED <<next, head, alloc_cnt, held, cache, pool>>

-----------------------------------------------------------------------------
(* pool_create links the nodes by address: the last is the first handed out. *)

Init ==
  /\ next = [n \in Nodes |-> n - 1]
  /\ head = [list \in {"head", "free_list"} |->
               [ptr |-> IF list = "head" THEN Capacity ELSE NULL, ver |-> 0]]
  /\ alloc_cnt = 0 /\ free_cnt = 0
  /\ held = [t \in Threads |-> {}]
  /\ cache = [t \in Threads |-> <<>>]
  /\ run = [t \in Threads |-> Idle]
  /\ pool = "open"

Listings(S) ==
  {s \in UNION {[1..k -> S] : k \in 1..Cardinality(S)} : Cardinality(Members(s)) = Len(s)}

Call(t) ==
  \/ pool_alloc(t)
  \/ \E n \in held[t] : pool_free(t, n)
  \/ \E n \in Nodes : pool_alloc_batch(t, n)
  \/ \E s \in Listings(held[t]) : pool_free_batch(t, s)
  \/ pool_flush_cache(t)
  \/ pool_destroy(t)

Step(t) ==
  \/ load(t) \/ load_head(t) \/ walk(t) \/ cas(t) \/ count(t)
  \/ link(t) \/ load_free(t) \/ store(t) \/ cas_free(t) \/ count_free(t)
  \/ check(t)

Next == \E t \in Threads : Call(t) \/ Step(t)

Spec == Init /\ [][Next]_vars

-----------------------------------------------------------------------------
(* Properties.                                                             *)

Fresh == Chain(head["head"].ptr, Capacity)
Freed == Chain(head["free_list"].ptr, Capacity)
Holds(t) == held[t] \cup Members(cache[t]) \cup Members(run[t].objs)

\* The variables have their types.
TypeOK ==
  /\ next \in [Nodes -> Nodes \cup {NULL}]
  /\ head \in [{"head", "free_list"} -> Pointer]
  /\ alloc_cnt \in Nat /\ free_cnt \in Nat
  /\ held \in [Threads -> SUBSET Nodes]
  /\ cache \in [Threads -> Seq(Nodes)] /\ \A t \in Threads : Len(cache[t]) <= CacheSize
  /\ run \in [Threads ->
       [pc : {"idle", "load", "load_head", "walk", "cas", "count", "link", "load_free", "store",
              "cas_free", "count_free", "check"},
        op : {"none", "alloc", "free", "alloc_batch", "free_batch", "flush", "destroy"},
        target : {"head", "free_list"}, old : Pointer, new : Nodes \cup {NULL},
        chunks : Seq(Nodes), objs : Seq(Nodes), count : 0..Capacity]]
  /\ pool \in {"open", "closing", "destroyed", "aborted"}

\* Whatever the interleaving of the loops, each object is in exactly one place:
\* once in one of the two lists, or with one thread, which either holds it, keeps
\* it in its cache or is giving it back.  Neither list is ever cut or closed on
\* itself by a thread that acted on an old head.
Places(n) ==
       {<<"fresh", k>> : k \in {i \in DOMAIN Fresh : Fresh[i] = n}}
  \cup {<<"freed", k>> : k \in {i \in DOMAIN Freed : Freed[i] = n}}
  \cup {<<"held", t>> : t \in {u \in Threads : n \in held[u]}}
  \cup {<<"cache", t>> : t \in {u \in Threads : n \in Members(cache[u])}}
  \cup {<<"objs", t>> : t \in {u \in Threads : n \in Members(run[u].objs)}}
EachNodeOnce == \A n \in Nodes : Cardinality(Places(n)) = 1

\* The leak check of pool_destroy is exact: the pool is freed only when every
\* object is back in it, and the program aborts only when one is not.
AbortIffLeak ==
  LET out == UNION {Holds(t) : t \in Threads}
  IN  (pool = "destroyed" => out = {}) /\ (pool = "aborted" => out # {})

\* The loops take effect at their compare-and-swap, as if they were alone.
Abstract == INSTANCE ObjectPool WITH
  fresh <- Fresh, freed <- Freed, held <- [t \in Threads |-> Holds(t)]
ImplementsObjectPool == Abstract!Spec
=============================================================================

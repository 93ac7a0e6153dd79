----------------------------- MODULE Allocator -----------------------------
(***************************************************************************)
(* The allocator of allocator.c: parts, each an array of blocks of one     *)
(* size, kept in a list from small to big; an allocation takes a free      *)
(* block of the first part of its size, and a part none of whose blocks is *)
(* used is given back.  Every operator takes a heap and answers the heap   *)
(* it leaves; a panic ends the process and leaves the heap as it is.       *)
(*                                                                         *)
(* A block is <<part, index>>.  Sizes are counted in Values, the unit of   *)
(* every client modelled here.  The blocks in the domain of memory are     *)
(* those with is_used set.                                                 *)
(***************************************************************************)
EXTENDS Integers, Sequences, SequencesExt, FiniteSetsExt

CONSTANTS
  PART_COUNT,   \* for each size of part, <<values in a block, blocks in a part>>
  NULL,         \* the null pointer
  Junk          \* what a cell holds that was never written

ASSUME SizesGrow ==
  /\ PART_COUNT \in Seq((Nat \ {0}) \X (Nat \ {0})) /\ PART_COUNT # <<>>
  /\ \A i, j \in DOMAIN PART_COUNT : i < j => PART_COUNT[i][1] < PART_COUNT[j][1]

PartSize == DOMAIN PART_COUNT

Blocks == (PartSize \X Nat) \X Nat

ASSUME NullIsNoBlock == NULL \notin Nat \cup Blocks

new_allocator == [parts |-> <<>>, memory |-> [b \in {} |-> <<>>], panicked |-> FALSE]

panic(heap) == [heap EXCEPT !.panicked = TRUE]

BlocksOf(size) == 1..PART_COUNT[size][2]

(* The part that a block belongs to, as its header says.  new_part links   *)
(* the blocks and sets the part of each but the last, whose header keeps   *)
(* what malloc left there; fresh memory of the system reads as NULL.       *)
PartOf(heap, block) ==
  LET p == SelectInSeq(heap.parts, LAMBDA part : part.id = block[1])
  IN  IF block[2] = heap.parts[p].total THEN NULL ELSE p

(* malloc answers any address that is not in use: the least number that no *)
(* part of this size has stands for all                                    *)
FreshId(heap, size) ==
  <<size, Min({n \in 1..Len(heap.parts) + 1 :
                 \A p \in DOMAIN heap.parts : heap.parts[p].id # <<size, n>>})>>

new_part(heap, size) ==
  [id |-> FreshId(heap, size), size |-> size, total |-> PART_COUNT[size][2], used |-> 0,
   free_link |-> [i \in BlocksOf(size) |-> i]]

add_part(heap, part) ==
  LET p == SelectInSeq(heap.parts, LAMBDA current : part.size < current.size)
  IN  [heap EXCEPT !.parts =
         IF p = 0 THEN Append(@, part) ELSE InsertAt(@, p, part)]

remove_part(heap, p) == [heap EXCEPT !.parts = RemoveAt(@, p)]

(* The first part of the list with a free block of this size, or 0         *)
Available(heap, size) ==
  SelectInSeq(heap.parts, LAMBDA part : part.size = size /\ part.free_link # <<>>)

(* Take the first free block of part p                                     *)
TakeBlock(heap, p) ==
  LET block == <<heap.parts[p].id, Head(heap.parts[p].free_link)>>
      cells == [i \in 1..PART_COUNT[heap.parts[p].size][1] |-> Junk]
  IN  [at |-> block,
       heap |-> [heap EXCEPT !.parts[p].free_link = Tail(@), !.parts[p].used = @ + 1,
                             !.memory = [b \in DOMAIN @ \cup {block} |->
                                           IF b = block THEN cells ELSE @[b]]]]

allocate_memory(heap, size) ==
  LET fitting == {s \in PartSize : size <= PART_COUNT[s][1]}
  IN  CASE size = 0       -> [at |-> NULL, heap |-> heap]
        [] fitting = {}   -> [at |-> NULL, heap |-> panic(heap)]
        [] OTHER          ->
             LET part_size == Min(fitting)
                 room == IF Available(heap, part_size) # 0 THEN heap
                         ELSE add_part(heap, new_part(heap, part_size))
             IN  TakeBlock(room, Available(room, part_size))

\* Mutant: a part is given back while one of its blocks is still used.
IsUnusedButOne(part) == part.used <= 1

IsUnused(part) == part.used = 0

free_memory(heap, block) ==
  LET p == PartOf(heap, block)
      freed == [heap EXCEPT !.parts[p].used = @ - 1, !.parts[p].free_link = <<block[2]>> \o @,
                            !.memory = [b \in DOMAIN @ \ {block} |-> @[b]]]
  IN  CASE block = NULL -> heap
        [] block # NULL /\ (p = NULL \/ block \notin DOMAIN heap.memory) -> panic(heap)
        [] OTHER -> IF IsUnused(freed.parts[p]) THEN remove_part(freed, p) ELSE freed

(* Write new values into a block's cells from the given one on             *)
Put(cells, at, new) == SubSeq(cells, 1, at - 1) \o new \o SubSeq(cells, at + Len(new), Len(cells))

memcpy(heap, to, at, cells) == [heap EXCEPT !.memory[to] = Put(@, at, cells)]

reallocate_memory(heap, block, new_size) ==
  IF new_size = 0 THEN [at |-> NULL, heap |-> free_memory(heap, block)]
  ELSE LET taken == allocate_memory(heap, new_size)
           old == heap.memory[block]
       IN  IF block = NULL \/ taken.heap.panicked THEN taken
           ELSE [taken EXCEPT !.heap =
                   free_memory(memcpy(@, taken.at, 1, SubSeq(old, 1, Min({Len(old), new_size}))), block)]

(***************************************************************************)
(* What makes a heap sound                                                 *)
(***************************************************************************)
PartsAreSound(heap) ==
  /\ \A p \in DOMAIN heap.parts :
       LET part == heap.parts[p]
           used == {i \in BlocksOf(part.size) : <<part.id, i>> \in DOMAIN heap.memory}
       IN  /\ IsInjective(part.free_link)
           /\ BlocksOf(part.size) \ used = ToSet(part.free_link)
           /\ part.used = Cardinality(used)
           /\ part.used > 0
  /\ \A block \in DOMAIN heap.memory :
       \E p \in DOMAIN heap.parts : heap.parts[p].id = block[1]
  /\ \A p, q \in DOMAIN heap.parts :
       p < q => /\ heap.parts[p].size <= heap.parts[q].size
                /\ heap.parts[p].id # heap.parts[q].id
=============================================================================

-------------------------------- MODULE Vec --------------------------------
(***************************************************************************)
(* The vectors of a script (vec.c) over the allocator (allocator.c, chosen *)
(* by debug_enable_allocator), beside the growing array of constants of a  *)
(* chunk (value.c).  A Vec is three pointers into one block; each action   *)
(* is a method of the script's Vec type (type/src/vec.c) with the function *)
(* of vec.c it calls, an instruction, or the release by the sweep.         *)
(***************************************************************************)
EXTENDS Allocator

CONSTANTS
  Vecs,         \* the Vec objects
  Elements,     \* the values a script stores
  CapacityMin,  \* the first capacity, 8 in the code
  LiteralMax,   \* bound: the most elements of a vector literal
  Literals,     \* the constants of the chunk
  ConstantsMax  \* bound: how many of them

ASSUME CapacityGrows == CapacityMin \in Nat \ {0}
ASSUME LiteralsAreBounded == LiteralMax \in Nat

VARIABLES
  heap,      \* the allocator's
  vecs,      \* for each Vec object, its pointers as offsets into the block start, or NULL
  constants, \* the chunk's array of values
  answer     \* what the last operation answered

vecVars == <<heap, vecs, constants, answer>>

grow_capacity(capacity) == IF capacity < CapacityMin THEN CapacityMin ELSE capacity * 2

Vectors == [start : Blocks \cup {NULL}, finish : Nat, end : Nat]
Empty == [start |-> NULL, finish |-> 0, end |-> 0]

ASSUME NullIsNoObject == NULL \notin Vectors \cup Seq(Elements)

vec_len(vec) == IF vec.start = NULL THEN 0 ELSE vec.finish
vec_capacity(vec) == IF vec.start = NULL THEN 0 ELSE vec.end
vec_is_empty(vec) == vec.finish = 0
Cells(h, vec) == IF vec.start = NULL THEN <<>> ELSE SubSeq(h.memory[vec.start], 1, vec.finish)

NoConstants == [values |-> NULL, count |-> 0, capacity |-> 0]

VecInit ==
  /\ heap = new_allocator
  /\ vecs = [v \in Vecs |-> NULL]
  /\ constants = NoConstants
  /\ answer = <<"null">>

(***************************************************************************)
(* The functions of vec.c, which answer the heap and the Vec they leave    *)
(***************************************************************************)
new_vec_with_capacity(h, capacity) ==
  LET taken == allocate_memory(h, capacity)
  IN  [heap |-> taken.heap,
       vec |-> IF capacity > 0 THEN [start |-> taken.at, finish |-> 0, end |-> capacity] ELSE Empty]

(* The loop of vec_resize: grown at least once, then until it suffices     *)
NewCapacity(capacity, min_capacity) ==
  LET grown[n \in 0..min_capacity] ==
        IF n = 0 THEN grow_capacity(capacity)
        ELSE IF grown[n - 1] < min_capacity THEN grow_capacity(grown[n - 1]) ELSE grown[n - 1]
  IN  grown[min_capacity]

vec_resize(h, vec, min_capacity) ==
  LET capacity == NewCapacity(vec_capacity(vec), min_capacity)
      taken == allocate_memory(h, capacity)
      moved == IF vec.start = NULL THEN taken.heap
               ELSE free_memory(memcpy(taken.heap, taken.at, 1, Cells(h, vec)), vec.start)
  IN  [heap |-> IF taken.heap.panicked THEN taken.heap ELSE moved,
       vec |-> [start |-> taken.at, finish |-> vec_len(vec), end |-> capacity]]

\* Mutant: the array is grown one element late.
ReservedLate(h, vec, size) ==
  IF size > vec_capacity(vec) + 1 THEN vec_resize(h, vec, size) ELSE [heap |-> h, vec |-> vec]

(* Every function that adds first makes room where there is none           *)
Reserved(h, vec, size) ==
  IF size > vec_capacity(vec) THEN vec_resize(h, vec, size) ELSE [heap |-> h, vec |-> vec]

(* The rest of a function once room is made, if that did not panic         *)
Filled(room, at, cells, added) ==
  [heap |-> IF room.heap.panicked THEN room.heap ELSE memcpy(room.heap, room.vec.start, at, cells),
   vec |-> [room.vec EXCEPT !.finish = @ + added]]

vec_push(h, vec, element) ==
  Filled(Reserved(h, vec, vec_len(vec) + 1), vec_len(vec) + 1, <<element>>, 1)

\* Mutant: the elements are moved up from the first to the last.
InsertUpwards(h, vec, index, element) ==
  Filled(Reserved(h, vec, vec_len(vec) + 1), index + 1,
         <<element>> \o [i \in 1..vec_len(vec) - index |-> Cells(h, vec)[index + 1]], 1)

vec_insert(h, vec, index, element) ==
  Filled(Reserved(h, vec, vec_len(vec) + 1), index + 1,
         <<element>> \o SubSeq(Cells(h, vec), index + 1, vec_len(vec)), 1)

vec_remove(h, vec, index) ==
  [heap |-> memcpy(h, vec.start, index + 1, SubSeq(Cells(h, vec), index + 2, vec_len(vec))),
   vec |-> [vec EXCEPT !.finish = @ - 1]]

(* other may be vec itself: its length is taken before vec is resized, and *)
(* its elements are read from the block it then has                        *)
vec_extend(h, vec, other, same) ==
  LET room == Reserved(h, vec, vec_len(vec) + vec_len(other))
      source == IF same THEN room.vec ELSE other
      elements == SubSeq(room.heap.memory[source.start], 1, vec_len(other))
  IN  IF vec_is_empty(other) THEN [heap |-> h, vec |-> vec]
      ELSE Filled(room, vec_len(vec) + 1, elements, vec_len(other))

vec_reverse(h, vec) ==
  IF vec.start = NULL THEN h ELSE memcpy(h, vec.start, 1, Reverse(Cells(h, vec)))

(***************************************************************************)
(* The actions.  A panic aborts the process in the middle of the           *)
(* operation, and nothing of it is left.                                   *)
(***************************************************************************)
Exists(v) == ~heap.panicked /\ vecs[v] # NULL

Panics ==
  /\ heap' = panic(new_allocator)
  /\ vecs' = [v \in Vecs |-> NULL]
  /\ constants' = NoConstants
  /\ answer' = <<"null">>

(* v becomes what the function left, unless it panicked; the script's      *)
(* methods that change a vector answer null                                *)
Store(v, result) ==
  IF result.heap.panicked THEN Panics
  ELSE /\ heap' = result.heap
       /\ vecs' = [vecs EXCEPT ![v] = result.vec]
       /\ answer' = <<"null">>
       /\ UNCHANGED constants

Tell(value) == answer' = value /\ UNCHANGED <<heap, vecs, constants>>

native_vec_new(v) ==
  ~heap.panicked /\ vecs[v] = NULL /\ Store(v, [heap |-> heap, vec |-> Empty])

(* The elements of a literal fill the new array from the last to the first *)
op_vector_new(v, elements) ==
  LET new == new_vec_with_capacity(heap, Len(elements))
  IN  /\ ~heap.panicked /\ vecs[v] = NULL
      /\ Store(v, [heap |-> IF elements = <<>> \/ new.heap.panicked THEN new.heap
                            ELSE memcpy(new.heap, new.vec.start, 1, elements),
                   vec |-> [new.vec EXCEPT !.finish = Len(elements)]])

(* The operator + on two vectors                                           *)
vec_add(u, v, w) ==
  LET new == new_vec_with_capacity(heap, vec_len(vecs[v]) + vec_len(vecs[w]))
      left == vec_extend(new.heap, new.vec, vecs[v], FALSE)
  IN  /\ Exists(v) /\ Exists(w) /\ vecs[u] = NULL
      /\ Store(u, IF new.heap.panicked THEN new
                  ELSE vec_extend(left.heap, left.vec, vecs[w], FALSE))

(* The sweep, once the script has no reference left                        *)
free_vec(v) ==
  LET freed == free_memory(heap, vecs[v].start)
  IN  Exists(v) /\ Store(v, [heap |-> freed, vec |-> NULL])

native_vec_push(v, element) == Exists(v) /\ Store(v, vec_push(heap, vecs[v], element))

native_vec_pop(v) ==
  LET finish == vecs[v].finish
  IN  /\ Exists(v)
      /\ IF vec_is_empty(vecs[v]) THEN Panics
         ELSE /\ answer' = <<"value", heap.memory[vecs[v].start][finish]>>
              /\ vecs' = [vecs EXCEPT ![v].finish = finish - 1]
              /\ UNCHANGED <<heap, constants>>

native_vec_first(v) ==
  /\ Exists(v)
  /\ IF vec_is_empty(vecs[v]) THEN Panics ELSE Tell(<<"value", heap.memory[vecs[v].start][1]>>)

native_vec_last(v) ==
  /\ Exists(v)
  /\ IF vec_is_empty(vecs[v]) THEN Panics
     ELSE Tell(<<"value", heap.memory[vecs[v].start][vecs[v].finish]>>)

(* Methods with an index answer null after runtime_error when it is out of *)
(* range                                                                   *)
Refuses == Tell(<<"error">>)

Indexed(v, index, most) == index >= 0 /\ index < vec_len(vecs[v]) + most

native_vec_get(v, index) ==
  /\ Exists(v)
  /\ IF Indexed(v, index, 0) THEN Tell(<<"value", heap.memory[vecs[v].start][index + 1]>>) ELSE Refuses

native_vec_set(v, index, element) ==
  /\ Exists(v)
  /\ IF ~Indexed(v, index, 0) THEN Refuses
     ELSE Store(v, [heap |-> memcpy(heap, vecs[v].start, index + 1, <<element>>),
                    vec |-> vecs[v]])

native_vec_insert(v, index, element) ==
  /\ Exists(v)
  /\ IF Indexed(v, index, 1) THEN Store(v, vec_insert(heap, vecs[v], index, element))
     ELSE Refuses

native_vec_remove(v, index) ==
  /\ Exists(v)
  /\ IF Indexed(v, index, 0) THEN Store(v, vec_remove(heap, vecs[v], index)) ELSE Refuses

native_vec_extend(v, w) ==
  Exists(v) /\ Exists(w) /\ Store(v, vec_extend(heap, vecs[v], vecs[w], v = w))

native_vec_clear(v) ==
  Exists(v) /\ Store(v, [heap |-> heap, vec |-> [vecs[v] EXCEPT !.finish = 0]])

native_vec_reverse(v) ==
  Exists(v) /\ Store(v, [heap |-> vec_reverse(heap, vecs[v]), vec |-> vecs[v]])

native_vec_length(v) == Exists(v) /\ Tell(<<"len", vec_len(vecs[v])>>)

vec_equal(v, w) ==
  Exists(v) /\ Exists(w) /\ Tell(<<"equal", v = w \/ Cells(heap, vecs[v]) = Cells(heap, vecs[w])>>)

(* A method given the wrong number or type of arguments                    *)
WrongArguments(v) == Exists(v) /\ Refuses

(* The constants of the chunk share the heap and grow by reallocate        *)
write_value_array(value) ==
  LET full == constants.capacity < constants.count + 1
      capacity == IF full THEN grow_capacity(constants.capacity) ELSE constants.capacity
      taken == IF full THEN reallocate_memory(heap, constants.values, capacity)
               ELSE [heap |-> heap, at |-> constants.values]
  IN  /\ ~heap.panicked /\ constants.count < ConstantsMax
      /\ IF taken.heap.panicked THEN Panics
         ELSE /\ heap' = memcpy(taken.heap, taken.at, constants.count + 1, <<value>>)
              /\ constants' = [values |-> taken.at, count |-> constants.count + 1,
                               capacity |-> capacity]
              /\ UNCHANGED <<vecs, answer>>

VecNext ==
  \/ \E v \in Vecs :
       \/ native_vec_new(v)
       \/ \E elements \in BoundedSeq(Elements, LiteralMax) : op_vector_new(v, elements)
       \/ \E w, u \in Vecs : vec_add(v, w, u)
       \/ free_vec(v) \/ native_vec_pop(v) \/ native_vec_first(v) \/ native_vec_last(v)
       \/ native_vec_length(v) \/ native_vec_clear(v) \/ native_vec_reverse(v)
       \/ WrongArguments(v)
       \/ \E e \in Elements : native_vec_push(v, e)
       \/ \E w \in Vecs : native_vec_extend(v, w) \/ vec_equal(v, w)
       \/ /\ Exists(v)
          /\ \E index \in -1..vec_len(vecs[v]) + 1 :
               \/ native_vec_get(v, index) \/ native_vec_remove(v, index)
               \/ \E e \in Elements : native_vec_set(v, index, e) \/ native_vec_insert(v, index, e)
  \/ \E value \in Literals : write_value_array(value)
  \/ heap.panicked /\ UNCHANGED vecVars

VecSpec == VecInit /\ [][VecNext]_vecVars

(***************************************************************************)
(* Properties                                                              *)
(***************************************************************************)
Holders == {vecs[v].start : v \in {v \in Vecs : vecs[v] # NULL}} \cup {constants.values}

(* A vector's elements are written cells of a used block of its capacity,  *)
(* and the array of constants keeps every value written to it.             *)
VecTypeOK ==
  /\ \A v \in Vecs : vecs[v] = NULL \/
       LET vec == vecs[v]
       IN  IF vec.start = NULL THEN vec = Empty
           ELSE /\ vec.start \in DOMAIN heap.memory
                /\ vec.finish \in 0..vec.end /\ vec.end \in 1..Len(heap.memory[vec.start])
                /\ ToSet(Cells(heap, vec)) \subseteq Elements
  /\ constants.count \in 0..constants.capacity
  /\ constants.values # NULL =>
       \A i \in 1..constants.count : heap.memory[constants.values][i] \in Literals

(* Each used block has one holder, and each part's count and list of free  *)
(* blocks agree with the blocks that are used: nothing leaks, no block is  *)
(* handed out twice, and no part is given back under a vector.             *)
BlocksAreHeldOnce ==
  /\ PartsAreSound(heap)
  /\ DOMAIN heap.memory = Holders \ {NULL}
  /\ \A v, w \in {v \in Vecs : vecs[v] # NULL} :
       v # w /\ vecs[v].start # NULL =>
         vecs[v].start # vecs[w].start /\ vecs[v].start # constants.values

(* The sequences the vectors stand for, and the end of the process         *)
lists == [v \in Vecs |-> IF vecs[v] = NULL THEN NULL ELSE Cells(heap, vecs[v])]

(* Vectors are the sequences a script takes them for, whatever blocks they *)
(* move through and whatever else the heap is used for.                    *)
L == INSTANCE Lists WITH NoList <- NULL, ended <- heap.panicked
ImplementsLists == L!Spec
=============================================================================

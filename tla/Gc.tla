-------------------------------- MODULE Gc --------------------------------
(***************************************************************************)
(* The mark-sweep collector (src/src/gc.c) under the operations of the     *)
(* virtual machine that allocate: interned strings, concatenation,         *)
(* structs, closures and their upvalues, globals.                          *)
(*                                                                         *)
(* A collection runs inside reallocate, so it can run at every allocation  *)
(* of an operation and nowhere else.  An operation is therefore a chain of *)
(* steps, one per allocation: "op" says at which one the operation has     *)
(* arrived and which object it holds in a C local, unknown to the          *)
(* collector.  A collection is mark_roots, trace_references one object at  *)
(* a time, hashmap_remove_white, and sweep one object at a time.           *)
(*                                                                         *)
(* A step that would read freed memory has no defined outcome: it is not   *)
(* enabled, and the execution is not followed further.  Neither is a       *)
(* collection over a string table with a tombstone, whose key              *)
(* hashmap_remove_white dereferences, nor an allocation at an address that *)
(* vm->objects still lists.                                                *)
(***************************************************************************)
EXTENDS Integers, Sequences, FiniteSets

CONSTANTS
  Objects,    \* addresses
  NoObj,      \* NULL
  Chars,      \* contents of strings
  NoChars,    \* of an object that is no string
  StackMax,   \* bound on the depth of the stack
  GlobalsMax, \* bound on the number of globals
  MembersMax  \* bound on the members of a struct

ASSUME ObjectsAssumption == NoObj \notin Objects
ASSUME CharsAssumption   == NoChars \notin Chars
ASSUME StackAssumption   == StackMax \in Nat
ASSUME BoundsAssumption  == GlobalsMax \in Nat /\ MembersMax \in Nat

VARIABLES
  heap,       \* allocated memory: address -> object
  objects,    \* vm->objects, the list the sweep walks
  stack,      \* vm->stack, the slots that hold objects
  globals,    \* the values of vm->globals
  strings,    \* the keys of vm->strings
  tombstone,  \* vm->strings holds a tombstone
  open,       \* vm->open_upv_ptr's list: stack slot -> upvalue
  op,         \* the operation under way, at its next allocation
  phase,      \* "off", "trace", "weak" or "sweep"
  marked,     \* the objects with is_marked set
  gray,       \* gc.gray_stack
  todo,       \* the part of vm->objects the sweep has not visited
  ran         \* a collection has run in the present call of reallocate

vm == <<stack, globals, open, op>>
gc == <<phase, marked, gray, todo, ran>>
gcVars == <<heap, objects, strings, tombstone, vm, gc>>

\* refs: what blacken_object marks.  names: the vector of a struct's member
\* names, whose elements mark_vec reads but which is not marked itself.
Object == [type  : {"string", "struct", "vec", "closure", "upvalue"},
           chars : Chars \cup {NoChars},
           refs  : SUBSET Objects,
           names : Objects \cup {NoObj}]

NoOp == [at |-> "idle"]
Ops ==
  {NoOp}
  \cup [at : {"new_string", "concat"}, chars : Chars]
  \cup [at : {"intern", "concat_intern"}, self : Objects]
  \cup [at : {"new_struct"}, args : 0..StackMax]
  \cup [at : {"names"}, self : Objects, args : 0..StackMax]
  \cup [at : {"set_field"}, self : Objects, args : 1..StackMax, value : Objects]
  \cup [at : {"new_closure", "new_upvalue"}, slot : 1..StackMax]
  \cup [at : {"member", "member_set", "property", "define_global"}]

Alive(S) == S \subseteq DOMAIN heap
\* What is read as an object of this type is one: memory that was freed, and memory
\* that was freed and given to another object, is not.
IsA(o, type) == o \in DOMAIN heap /\ heap[o].type = type
NamesAlive(o) == IsA(o, "struct") /\ IsA(heap[o].names, "vec")
UpvaluesAlive(from) == \A s \in DOMAIN open : s >= from => IsA(open[s], "upvalue")
Top(n) == stack[Len(stack) - n]                       \* peek(n)
Dropped(n) == SubSeq(stack, 1, Len(stack) - n)
Slots == {stack[s] : s \in DOMAIN stack}

-----------------------------------------------------------------------------
(* Allocation.                                                             *)

Blank(t) == [type |-> t, chars |-> NoChars, refs |-> {}, names |-> NoObj]
With(h, o, x) == [p \in DOMAIN h \cup {o} |-> IF p = o THEN x ELSE h[p]]
Without(h, o) == [p \in DOMAIN h \ {o} |-> h[p]]

\* allocate_object, after the collection that may precede it.
allocate_object(o, x) ==
  /\ phase = "off" /\ o \notin DOMAIN heap \cup objects
  /\ heap' = With(heap, o, x)
  /\ objects' = objects \cup {o}

\* The operation goes on to its next allocation, or returns.
Proceed(coming) == op' = coming /\ ran' = FALSE /\ UNCHANGED <<phase, marked, gray, todo>>

\* A running operation starts, up to its first allocation.
BeginOp(coming) ==
  /\ phase = "off" /\ op = NoOp
  /\ Proceed(coming)
  /\ UNCHANGED <<heap, objects, strings, tombstone, stack, globals, open>>

At(label) == phase = "off" /\ op.at = label

\* hashmap_set into vm->strings: an insertion may take the place of a tombstone,
\* and drops them all if the table grows.
Intern(o) ==
  /\ strings' = strings \cup {o}
  /\ \E t \in {FALSE, tombstone} : tombstone' = t

InternedAs(c) == {s \in strings : heap[s].chars = c}

-----------------------------------------------------------------------------
(* The operations.                                                         *)

\* A native function that returns new_string(c): an interned string is shared.
native_string(c) ==
  /\ Len(stack) < StackMax /\ Alive(strings)
  /\ IF InternedAs(c) = {}
       THEN BeginOp([at |-> "new_string", chars |-> c])
       ELSE /\ phase = "off" /\ op = NoOp
            /\ \E s \in InternedAs(c) : stack' = Append(stack, s)
            /\ Proceed(NoOp)
            /\ UNCHANGED <<heap, objects, strings, tombstone, globals, open>>

\* The string is pushed while the table of strings may grow ...
new_string(o) ==
  /\ At("new_string")
  /\ allocate_object(o, [Blank("string") EXCEPT !.chars = op.chars])
  /\ stack' = Append(stack, o)
  /\ Proceed([at |-> "intern", self |-> o])
  /\ UNCHANGED <<strings, tombstone, globals, open>>

\* ... and popped again: it stays, as the result of the native function.
new_string_intern ==
  /\ At("intern") /\ Alive(strings \cup {op.self})
  /\ Intern(op.self)
  /\ Proceed(NoOp)
  /\ UNCHANGED <<heap, objects, stack, globals, open>>

string_add(c) ==
  /\ Len(stack) >= 2 /\ IsA(Top(0), "string") /\ IsA(Top(1), "string")
  /\ BeginOp([at |-> "concat", chars |-> c])

\* The result takes the left operand's slot.
Concatenated(s) == stack' = Append(Dropped(2), s)

\* The result is allocated before it is looked up: if its contents are interned
\* already it is freed on the spot, though vm->objects lists it.
concat_string(o) ==
  /\ At("concat") /\ Alive(strings)
  /\ IF InternedAs(op.chars) = {}
       THEN /\ allocate_object(o, [Blank("string") EXCEPT !.chars = op.chars])
            /\ Proceed([at |-> "concat_intern", self |-> o])
            /\ UNCHANGED stack
       ELSE /\ o \notin DOMAIN heap \cup objects
            /\ objects' = objects \cup {o}
            /\ \E s \in InternedAs(op.chars) : Concatenated(s)
            /\ Proceed(NoOp)
            /\ UNCHANGED heap
  /\ UNCHANGED <<strings, tombstone, globals, open>>

concat_string_intern ==
  /\ At("concat_intern") /\ Alive(strings \cup {op.self})
  /\ Intern(op.self)
  /\ Concatenated(op.self)
  /\ Proceed(NoOp)
  /\ UNCHANGED <<heap, objects, globals, open>>

\* op_struct, and call_value on a struct with args arguments.
op_struct == Len(stack) < StackMax /\ BeginOp([at |-> "new_struct", args |-> 0])

call_struct ==
  \E n \in 1..(Len(stack) - 1) :
    /\ IsA(Top(n), "struct")
    /\ Cardinality(heap[Top(n)].refs) = n
    /\ BeginOp([at |-> "new_struct", args |-> n])

new_struct(o) ==
  /\ At("new_struct")
  /\ allocate_object(o, Blank("struct"))
  /\ Proceed([at |-> "names", self |-> o, args |-> op.args])
  /\ UNCHANGED <<strings, tombstone, stack, globals, open>>

\* The vector of names, while the struct is only in a C local.  op_struct pushes
\* the struct; call_value reads the last name of the struct it was called on, and
\* pops the last argument, before the first field of the new one is set.
new_struct_names(o) ==
  /\ At("names") /\ Alive({op.self})
  /\ phase = "off" /\ o \notin DOMAIN heap \cup objects
  /\ heap' = With([heap EXCEPT ![op.self].names = o], o, Blank("vec"))
  /\ objects' = objects \cup {o}
  /\ IF op.args = 0
       THEN stack' = Append(stack, op.self) /\ Proceed(NoOp)
       ELSE /\ NamesAlive(Top(op.args))
            /\ stack' = Dropped(1)
            /\ Proceed([at |-> "set_field", self |-> op.self, args |-> op.args,
                        value |-> Top(0)])
  /\ UNCHANGED <<strings, tombstone, globals, open>>

\* The popped argument is stored, and the next name read and argument popped; the
\* last one brings the instance into the place of the struct that was called.
set_field ==
  /\ At("set_field") /\ Alive({op.self})
  /\ heap' = [heap EXCEPT ![op.self].refs = @ \cup {op.value}]
  /\ IF op.args = 1
       THEN stack' = Append(Dropped(1), op.self) /\ Proceed(NoOp)
       ELSE /\ NamesAlive(Top(op.args - 1))
            /\ stack' = Dropped(1)
            /\ Proceed([op EXCEPT !.args = @ - 1, !.value = Top(0)])
  /\ UNCHANGED <<objects, strings, tombstone, globals, open>>

\* define_member: the top of the stack becomes a field of the struct under it.
\* Its name is pushed to the struct's vector of names, which may grow, ...
define_member ==
  /\ Len(stack) >= 2 /\ NamesAlive(Top(1))
  /\ Cardinality(heap[Top(1)].refs) < MembersMax
  /\ BeginOp([at |-> "member"])

define_member_name ==
  /\ At("member") /\ NamesAlive(Top(1))
  /\ Proceed([at |-> "member_set"])
  /\ UNCHANGED <<heap, objects, strings, tombstone, stack, globals, open>>

\* ... and then the table of fields may.
define_member_set ==
  /\ At("member_set") /\ Alive({Top(1)})
  /\ heap' = [heap EXCEPT ![Top(1)].refs = @ \cup {Top(0)}]
  /\ stack' = Dropped(1)
  /\ Proceed(NoOp)
  /\ UNCHANGED <<objects, strings, tombstone, globals, open>>

\* An assignment to a field that the struct has: the table of fields may grow
\* before the key is found, with holder and value on the stack; the value stays.
op_set_property ==
  /\ Len(stack) >= 2 /\ IsA(Top(1), "struct") /\ heap[Top(1)].refs # {}
  /\ BeginOp([at |-> "property"])

set_property ==
  /\ At("property") /\ Alive({Top(1)})
  /\ \E old \in heap[Top(1)].refs :
       heap' = [heap EXCEPT ![Top(1)].refs = (@ \ {old}) \cup {Top(0)}]
  /\ stack' = Append(Dropped(2), Top(0))
  /\ Proceed(NoOp)
  /\ UNCHANGED <<objects, strings, tombstone, globals, open>>

\* op_closure with one captured local.
op_closure(s) ==
  /\ Len(stack) < StackMax /\ s \in DOMAIN stack
  /\ BeginOp([at |-> "new_closure", slot |-> s])

\* The closure is pushed before capture_upvalue looks for an open upvalue.
new_closure(o) ==
  /\ At("new_closure") /\ UpvaluesAlive(op.slot)
  /\ LET found == {open[s] : s \in {op.slot} \cap DOMAIN open}
     IN  /\ allocate_object(o, [Blank("closure") EXCEPT !.refs = found])
         /\ Proceed(IF found = {} THEN [op EXCEPT !.at = "new_upvalue"] ELSE NoOp)
  /\ stack' = Append(stack, o)
  /\ UNCHANGED <<strings, tombstone, globals, open>>

new_upvalue(o) ==
  /\ At("new_upvalue") /\ Alive({Top(0)})
  /\ phase = "off" /\ o \notin DOMAIN heap \cup objects
  /\ heap' = With([heap EXCEPT ![Top(0)].refs = @ \cup {o}], o, Blank("upvalue"))
  /\ objects' = objects \cup {o}
  /\ open' = With(open, op.slot, o)
  /\ Proceed(NoOp)
  /\ UNCHANGED <<strings, tombstone, stack, globals>>

op_define_global == Len(stack) >= 1 /\ BeginOp([at |-> "define_global"])

\* A name is defined, or defined again in the place of an earlier value.
define_global_set ==
  /\ At("define_global")
  /\ \E old \in globals \cup {NoObj} : globals' = (globals \ {old}) \cup {Top(0)}
  /\ Cardinality(globals') <= GlobalsMax
  /\ stack' = Dropped(1)
  /\ Proceed(NoOp)
  /\ UNCHANGED <<heap, objects, strings, tombstone, open>>

\* A value is read again, from the stack, a global, or a field in place of its holder.
op_get_local(s) ==
  /\ phase = "off" /\ op = NoOp /\ Len(stack) < StackMax /\ s \in DOMAIN stack
  /\ stack' = Append(stack, stack[s])
  /\ UNCHANGED <<heap, objects, strings, tombstone, globals, open, op, gc>>

op_get_global(o) ==
  /\ phase = "off" /\ op = NoOp /\ Len(stack) < StackMax /\ o \in globals
  /\ stack' = Append(stack, o)
  /\ UNCHANGED <<heap, objects, strings, tombstone, globals, open, op, gc>>

op_get_property(o) ==
  /\ phase = "off" /\ op = NoOp /\ Len(stack) >= 1
  /\ IsA(Top(0), "struct") /\ o \in heap[Top(0)].refs
  /\ stack' = Append(Dropped(1), o)
  /\ UNCHANGED <<heap, objects, strings, tombstone, globals, open, op, gc>>

op_pop ==
  /\ phase = "off" /\ op = NoOp /\ Len(stack) >= 1
  /\ stack' = Dropped(1)
  /\ UNCHANGED <<heap, objects, strings, tombstone, globals, open, op, gc>>

\* runtime_error ends with the stack and the list of open upvalues empty.
reset_stack ==
  /\ phase = "off" /\ op = NoOp
  /\ stack' = <<>> /\ open' = [s \in {} |-> NoObj]
  /\ UNCHANGED <<heap, objects, strings, tombstone, globals, op, gc>>

-----------------------------------------------------------------------------
(* The collector.                                                          *)

Roots == Slots \cup globals

\* Mutant: the globals are no roots.
MarkStackOnly ==
  /\ phase = "off" /\ op # NoOp /\ ~ran
  /\ Alive(Roots) /\ UpvaluesAlive(1)
  /\ marked' = Slots /\ gray' = Slots
  /\ phase' = "trace" /\ ran' = TRUE
  /\ UNCHANGED <<heap, objects, strings, tombstone, vm, todo>>

\* collect_garbage, from reallocate.  An open upvalue's location is taken for an
\* object: where that read does no harm, nothing more is marked by it.
mark_roots ==
  /\ phase = "off" /\ op # NoOp /\ ~ran
  /\ Alive(Roots) /\ UpvaluesAlive(1)
  /\ marked' = Roots /\ gray' = Roots
  /\ phase' = "trace" /\ ran' = TRUE
  /\ UNCHANGED <<heap, objects, strings, tombstone, vm, todo>>

\* blacken_object: every reference it traces is marked, once.
blacken_object(o) ==
  /\ phase = "trace" /\ o \in gray
  /\ Alive(heap[o].refs) /\ (heap[o].names # NoObj => NamesAlive(o))
  /\ marked' = marked \cup heap[o].refs
  /\ gray' = (gray \ {o}) \cup (heap[o].refs \ marked)
  /\ UNCHANGED <<heap, objects, strings, tombstone, vm, phase, todo, ran>>

traced ==
  /\ phase = "trace" /\ gray = {}
  /\ phase' = "weak"
  /\ UNCHANGED <<heap, objects, strings, tombstone, vm, marked, gray, todo, ran>>

\* Mutants: the table of strings keeps them all, or forgets them all.
KeepStrings ==
  /\ phase = "weak" /\ ~tombstone /\ Alive(strings)
  /\ phase' = "sweep" /\ todo' = objects
  /\ UNCHANGED <<heap, objects, strings, tombstone, vm, marked, gray, ran>>

ForgetStrings ==
  /\ phase = "weak" /\ ~tombstone /\ Alive(strings)
  /\ strings' = {}
  /\ tombstone' = (strings # {})
  /\ phase' = "sweep" /\ todo' = objects
  /\ UNCHANGED <<heap, objects, vm, marked, gray, ran>>

\* The table of strings forgets the strings about to be freed.
hashmap_remove_white ==
  /\ phase = "weak" /\ ~tombstone /\ Alive(strings)
  /\ strings' = strings \cap marked
  /\ tombstone' = (strings \ marked # {})
  /\ phase' = "sweep" /\ todo' = objects
  /\ UNCHANGED <<heap, objects, vm, marked, gray, ran>>

\* Mutant: a survivor keeps its mark.
SweepKeepingMarks(o) ==
  /\ phase = "sweep" /\ o \in todo /\ Alive({o})
  /\ todo' = todo \ {o}
  /\ IF o \in marked
       THEN UNCHANGED <<heap, objects>>
       ELSE heap' = Without(heap, o) /\ objects' = objects \ {o}
  /\ UNCHANGED <<strings, tombstone, vm, phase, marked, gray, ran>>

sweep(o) ==
  /\ phase = "sweep" /\ o \in todo /\ Alive({o})
  /\ todo' = todo \ {o}
  /\ IF o \in marked
       THEN marked' = marked \ {o} /\ UNCHANGED <<heap, objects>>
       ELSE /\ heap' = Without(heap, o) /\ objects' = objects \ {o}
            /\ UNCHANGED marked
  /\ UNCHANGED <<strings, tombstone, vm, phase, gray, ran>>

\* Mutant: the loop ends at the last node of the list, without visiting it.
SweptButLast ==
  /\ phase = "sweep" /\ Cardinality(todo) <= 1
  /\ phase' = "off" /\ todo' = {}
  /\ UNCHANGED <<heap, objects, strings, tombstone, vm, marked, gray, ran>>

swept ==
  /\ phase = "sweep" /\ todo = {}
  /\ phase' = "off"
  /\ UNCHANGED <<heap, objects, strings, tombstone, vm, marked, gray, todo, ran>>

-----------------------------------------------------------------------------
GcInit ==
  /\ heap = [o \in {} |-> Blank("vec")] /\ objects = {}
  /\ stack = <<>> /\ globals = {} /\ open = [s \in {} |-> NoObj] /\ op = NoOp
  /\ strings = {} /\ tombstone = FALSE
  /\ phase = "off" /\ marked = {} /\ gray = {} /\ todo = {} /\ ran = FALSE

Starts ==
  \/ \E c \in Chars : native_string(c) \/ string_add(c)
  \/ \E s \in 1..StackMax : op_closure(s)
  \/ op_struct \/ call_struct \/ define_member \/ op_set_property \/ op_define_global

Allocates ==
  \E o \in Objects :
    \/ new_string(o) \/ concat_string(o) \/ new_struct(o) \/ new_struct_names(o)
    \/ new_closure(o) \/ new_upvalue(o)

Stores ==
  \/ new_string_intern \/ concat_string_intern \/ set_field
  \/ define_member_name \/ define_member_set \/ set_property \/ define_global_set
  \/ op_pop \/ reset_stack \/ \E s \in 1..StackMax : op_get_local(s)
  \/ \E o \in Objects : op_get_global(o) \/ op_get_property(o)

Collects ==
  \/ mark_roots \/ traced \/ hashmap_remove_white \/ swept
  \/ \E o \in Objects : blacken_object(o) \/ sweep(o)

GcNext == Starts \/ Allocates \/ Stores \/ Collects

GcSpec == GcInit /\ [][GcNext]_gcVars

-----------------------------------------------------------------------------
\* Types: objects live at their addresses, and only a collection has marks.
HeapTypeOK ==
  /\ DOMAIN heap \subseteq objects /\ objects \subseteq Objects
  /\ heap \in [DOMAIN heap -> Object]
  /\ stack \in Seq(Objects) /\ Len(stack) <= StackMax
  /\ globals \subseteq Objects /\ strings \subseteq Objects
  /\ tombstone \in BOOLEAN /\ ran \in BOOLEAN
  /\ DOMAIN open \subseteq 1..StackMax /\ open \in [DOMAIN open -> Objects]
  /\ op \in Ops
  /\ phase \in {"off", "trace", "weak", "sweep"}
  /\ phase = "off" => marked = {} /\ todo = {}
  /\ phase # "trace" => gray = {}

\* What the fields that blacken_object marks lead to from a set of objects.
Closed(S) == \A o \in S \cap DOMAIN heap : heap[o].refs \subseteq S
ReachableFrom(R) ==
  {o \in Objects : \A S \in SUBSET Objects : R \subseteq S /\ Closed(S) => o \in S}
Traced == ReachableFrom(Roots)

\* What the program reads and the collector never marks: the vectors of names of
\* the structs (define_member, call_value), of which blacken_object marks only the
\* elements, and the upvalues of the open list (capture_upvalue).
Unmarked ==
  {heap[o].names : o \in Traced \cap DOMAIN heap} \cup {open[s] : s \in DOMAIN open}
Live == Traced \cup Unmarked

\* A collection does free objects that the stack, the globals and the list of open
\* upvalues lead the program to, but only these: the vector of names of a struct,
\* or an open upvalue, that no marked field refers to.  All others survive, whatever
\* was allocated, linked and dropped since the last collection, and whatever
\* operation the collection interrupts.  (What is held in a C local alone may be
\* freed too: HeldSurvives.)
FreedEarlyIsUnmarked ==
  [][\A o \in DOMAIN heap \ DOMAIN heap' : o \in Live => o \in Unmarked \ Traced]_gcVars

\* A collection leaves nothing behind that it did not trace: marks of an earlier
\* one would keep dead objects.
NothingFloats ==
  [][phase = "sweep" /\ phase' = "off" => DOMAIN heap \subseteq Traced]_gcVars

\* The table of interned strings holds them weakly: between collections its
\* keys are allocated.
StringsAllocated == phase = "off" => strings \subseteq DOMAIN heap

\* string_equal compares pointers: two strings that the stack or a global leads to
\* and that have the same contents are one object.
EqualStringsAreOne ==
  \A a, b \in {o \in DOMAIN heap : heap[o].type = "string"} :
    heap[a].chars = heap[b].chars /\ a # b => ~ {a, b} \subseteq Traced

\* Why a sweep frees nothing that was traced, and everything else: the
\* objects whose references have all been marked.  A visited object that is
\* still allocated had a mark, and gave it back.
Black ==
  IF phase = "sweep" THEN (DOMAIN heap \ todo) \cup marked ELSE marked \ gray

MarkInv ==
  phase # "off" =>
    /\ Roots \subseteq Black \cup gray /\ gray \subseteq marked
    /\ \A o \in Black : heap[o].refs \subseteq Black \cup gray
    /\ Black \cup gray \subseteq DOMAIN heap \cap Traced
    /\ phase = "sweep" => marked \subseteq todo /\ todo \subseteq objects

\* Why equal strings are one: a string is in the table from its allocation to
\* the collection that frees it, but for the one about to be entered.
Pending(o) == op.at \in {"intern", "concat_intern"} /\ op.self = o
Doomed(o) == phase = "sweep" /\ o \in todo \ marked

StringInv ==
  /\ strings \subseteq IF phase = "sweep" THEN Black ELSE DOMAIN heap
  /\ \A s \in strings : heap[s].type = "string"
  /\ \A s, t \in strings : heap[s].chars = heap[t].chars => s = t
  /\ \A o \in DOMAIN heap :
       heap[o].type = "string" => o \in strings \/ Pending(o) \/ Doomed(o)
  /\ op.at \in {"intern", "concat_intern"} /\ op.self \in DOMAIN heap =>
       /\ heap[op.self].type = "string"
       /\ \A s \in strings : heap[s].chars # heap[op.self].chars
  /\ op.at = "new_string" => \A s \in strings : heap[s].chars # op.chars

\* What an operation has checked of the stack by the time it allocates.
StackInv ==
  /\ op.at \in {"new_string", "new_closure"} => Len(stack) < StackMax
  /\ op.at \in {"concat", "concat_intern", "member", "member_set", "property"} => Len(stack) >= 2
  /\ op.at \in {"new_struct", "names"} =>
       IF op.args = 0 THEN Len(stack) < StackMax ELSE Len(stack) > op.args
  /\ op.at = "set_field" => Len(stack) >= op.args
  /\ op.at \in {"new_upvalue", "define_global"} => Len(stack) >= 1

GcIInv == HeapTypeOK /\ StackInv /\ MarkInv /\ StringInv

\* "used stack push and pop, because gc need to know": what an operation holds
\* only in C locals is not freed under it.
HeldSurvives == {op[f] : f \in {"self", "value"} \cap DOMAIN op} \subseteq DOMAIN heap
=============================================================================

------------------------------ MODULE Upvalues ------------------------------
(***************************************************************************)
(* Captured variables (src/src/upvalue.c) under the instructions of the    *)
(* virtual machine that move the stack: pushes and pops, closures, calls,  *)
(* the end of a block, returns and runtime errors.                         *)
(*                                                                         *)
(* An upvalue points to the stack slot of the variable it captured until   *)
(* close_upvalues moves the value into the upvalue and points it there.    *)
(* The walks over the list of upvalues compare addresses, and a closed     *)
(* upvalue, which stays in the list, is compared by its address on the     *)
(* heap: whether the heap lies above the virtual machine's stack is up to  *)
(* the platform (the machine is a local variable of repl.c).               *)
(*                                                                         *)
(* No upvalue is collected here; what the collector does to them is in Gc. *)
(***************************************************************************)
EXTENDS Integers, Sequences, FiniteSets

CONSTANTS
  Upvs,       \* addresses of upvalues
  NoUpv,      \* of a function that captures nothing
  Vals,       \* values
  NoVal,      \* macro_val_null
  StackMax,   \* bound on the stack (constant_stack_max)
  FramesMax   \* frames_stack_max

ASSUME UpvsAssumption == NoUpv \notin Upvs
ASSUME ValsAssumption == NoVal \notin Vals
ASSUME StackAssumption == StackMax \in Nat /\ FramesMax \in Nat

VARIABLES
  stack,      \* vm->stack: every slot, those above the top included
  top,        \* how many slots are in use
  frames,     \* vm->frames: slot 0 of the call, and what its closure captured
  open,       \* vm->open_upv_ptr's list
  location,   \* Upvalue.location: a slot, or Closed for the upvalue's own field
  closed,     \* Upvalue.closed
  captured,   \* <<slot, upvalue>> of the captured variables still in scope
  heapAbove   \* the heap has the higher addresses

vars == <<stack, top, frames, open, location, closed, captured, heapAbove>>

Closed == 0
Slots == 1..StackMax
Frame == frames[Len(frames)]
Allocated == DOMAIN location
Value(u) == IF location[u] = Closed THEN closed[u] ELSE stack[location[u]]

-----------------------------------------------------------------------------
(* upvalue.c                                                               *)

\* upv->location > a
Above(u, a) == IF location[u] = Closed THEN heapAbove ELSE location[u] > a

\* Where a walk over the list stops: at the first upvalue that is not above a.
Stop(a) ==
  CHOOSE p \in 1..(Len(open) + 1) :
    /\ p <= Len(open) => ~Above(open[p], a)
    /\ \A q \in 1..(p - 1) : Above(open[q], a)

Passed(a) == {open[p] : p \in 1..(Stop(a) - 1)}

\* Mutants: an upvalue is closed without being pointed to its own field, or over
\* whatever is on top of the stack.
CloseWithoutMoving(a) ==
  /\ closed' = [u \in Allocated |-> IF u \in Passed(a) THEN Value(u) ELSE closed[u]]
  /\ UNCHANGED location

CloseOverTop(a) ==
  /\ closed' = [u \in Allocated |-> IF u \in Passed(a) THEN stack[top] ELSE closed[u]]
  /\ location' = [u \in Allocated |-> IF u \in Passed(a) THEN Closed ELSE location[u]]

\* Each upvalue passed takes the value it points to and points to itself; one
\* that is closed already does so again.
close_upvalues(a) ==
  /\ closed' = [u \in Allocated |-> IF u \in Passed(a) THEN Value(u) ELSE closed[u]]
  /\ location' = [u \in Allocated |-> IF u \in Passed(a) THEN Closed ELSE location[u]]

InsertAt(s, p, x) == SubSeq(s, 1, p - 1) \o <<x>> \o SubSeq(s, p, Len(s))

\* A new upvalue for slot s, at position p of the list.
new_upvalue(s, p) ==
  \E u \in Upvs \ Allocated :
    /\ open' = InsertAt(open, p, u)
    /\ location' = [x \in Allocated \cup {u} |-> IF x = u THEN s ELSE location[x]]
    /\ closed' = [x \in Allocated \cup {u} |-> IF x = u THEN NoVal ELSE closed[x]]
    /\ captured' = captured \cup {<<s, u>>}

\* Mutants: a new upvalue goes to the head of the list, or is made every time.
CaptureAtHead(s) ==
  IF Stop(s) <= Len(open) /\ location[open[Stop(s)]] = s
    THEN /\ captured' = captured \cup {<<s, open[Stop(s)]>>}
         /\ UNCHANGED <<open, location, closed>>
    ELSE new_upvalue(s, 1)

CaptureAnew(s) == new_upvalue(s, Stop(s))

\* The upvalue the walk stops at if it points to s, else a new one before it.
capture_upvalue(s) ==
  IF Stop(s) <= Len(open) /\ location[open[Stop(s)]] = s
    THEN /\ captured' = captured \cup {<<s, open[Stop(s)]>>}
         /\ UNCHANGED <<open, location, closed>>
    ELSE new_upvalue(s, Stop(s))

-----------------------------------------------------------------------------
(* vm.c                                                                    *)

OutOfScope(S) == {c \in captured : c[1] \notin S}
IsCaptured(s) == \E c \in captured : c[1] = s

push(v) ==
  /\ frames # <<>> /\ top < StackMax
  /\ stack' = [stack EXCEPT ![top + 1] = v] /\ top' = top + 1
  /\ UNCHANGED <<frames, open, location, closed, captured, heapAbove>>

\* A temporary, or a local no function captures (end_scope's other branch).
op_pop ==
  /\ frames # <<>> /\ top > Frame.slots /\ ~IsCaptured(top)
  /\ top' = top - 1
  /\ UNCHANGED <<stack, frames, open, location, closed, captured, heapAbove>>

op_set_local(s) ==
  /\ frames # <<>> /\ s \in (Frame.slots + 1)..(top - 1)
  /\ stack' = [stack EXCEPT ![s] = stack[top]]
  /\ UNCHANGED <<top, frames, open, location, closed, captured, heapAbove>>

op_set_upvalue ==
  /\ frames # <<>> /\ Frame.upv # NoUpv
  /\ IF location[Frame.upv] = Closed
       THEN closed' = [closed EXCEPT ![Frame.upv] = stack[top]] /\ UNCHANGED stack
       ELSE stack' = [stack EXCEPT ![location[Frame.upv]] = stack[top]] /\ UNCHANGED closed
  /\ UNCHANGED <<top, frames, open, location, captured, heapAbove>>

\* The closure is pushed first: a local function may capture itself.  Slot 0 has
\* a name, self, in a method only.  A closure that copies an upvalue of the
\* enclosing one is the push of a value.
op_closure(s, v) ==
  /\ frames # <<>> /\ top < StackMax /\ s \in Frame.slots..(top + 1)
  /\ s = Frame.slots => Len(frames) > 1
  /\ stack' = [stack EXCEPT ![top + 1] = v] /\ top' = top + 1
  /\ capture_upvalue(s)
  /\ UNCHANGED <<frames, heapAbove>>

\* The end of a block, for a local that some function captures.
op_close_upvalue ==
  /\ frames # <<>> /\ top > Frame.slots
  /\ close_upvalues(top)
  /\ top' = top - 1
  /\ captured' = OutOfScope({top})
  /\ UNCHANGED <<stack, frames, open, heapAbove>>

\* interpret: the closure of a script is pushed and called.
interpret(v) ==
  /\ frames = <<>> /\ top < StackMax /\ FramesMax > 0
  /\ stack' = [stack EXCEPT ![top + 1] = v] /\ top' = top + 1
  /\ frames' = <<[slots |-> top + 1, upv |-> NoUpv]>>
  /\ UNCHANGED <<open, location, closed, captured, heapAbove>>

\* Mutant: the frames may run over.
CallUnchecked(n, u) ==
  /\ frames # <<>>
  /\ top - n > Frame.slots /\ \A s \in (top - n)..top : ~IsCaptured(s)
  /\ frames' = Append(frames, [slots |-> top - n, upv |-> u])
  /\ UNCHANGED <<stack, top, open, location, closed, captured, heapAbove>>

\* A closure under n arguments, all of them temporaries, is called.
call(n, u) ==
  /\ frames # <<>> /\ Len(frames) < FramesMax
  /\ top - n > Frame.slots /\ \A s \in (top - n)..top : ~IsCaptured(s)
  /\ frames' = Append(frames, [slots |-> top - n, upv |-> u])
  /\ UNCHANGED <<stack, top, open, location, closed, captured, heapAbove>>

\* Mutant: a return closes what the caller's frame captured, not the callee's.
ReturnClosingCaller ==
  /\ frames # <<>> /\ top >= Frame.slots
  /\ close_upvalues(IF Len(frames) = 1 THEN 0 ELSE frames[Len(frames) - 1].slots)
  /\ frames' = SubSeq(frames, 1, Len(frames) - 1)
  /\ IF Len(frames) = 1
       THEN top' = top - 1 /\ UNCHANGED stack
       ELSE top' = Frame.slots /\ stack' = [stack EXCEPT ![Frame.slots] = stack[top]]
  /\ captured' = OutOfScope(Frame.slots..StackMax)
  /\ UNCHANGED <<open, heapAbove>>

\* The result is popped, then takes the place of the called closure.
op_return ==
  /\ frames # <<>> /\ top >= Frame.slots
  /\ close_upvalues(Frame.slots)
  /\ frames' = SubSeq(frames, 1, Len(frames) - 1)
  /\ IF Len(frames) = 1
       THEN top' = top - 1 /\ UNCHANGED stack
       ELSE top' = Frame.slots /\ stack' = [stack EXCEPT ![Frame.slots] = stack[top]]
  /\ captured' = OutOfScope(Frame.slots..StackMax)
  /\ UNCHANGED <<open, heapAbove>>

\* runtime_error: reset_stack.
runtime_error ==
  /\ frames # <<>>
  /\ top' = 0 /\ frames' = <<>> /\ open' = <<>> /\ captured' = {}
  /\ UNCHANGED <<stack, location, closed, heapAbove>>

-----------------------------------------------------------------------------
Init ==
  /\ stack = [s \in Slots |-> NoVal] /\ top = 0 /\ frames = <<>>
  /\ open = <<>> /\ captured = {}
  /\ location = [u \in {} |-> Closed] /\ closed = [u \in {} |-> NoVal]
  /\ heapAbove \in BOOLEAN

Next ==
  \/ \E v \in Vals : push(v) \/ interpret(v)
  \/ op_pop \/ op_set_upvalue \/ op_close_upvalue \/ op_return \/ runtime_error
  \/ \E s \in Slots : op_set_local(s) \/ \E v \in Vals : op_closure(s, v)
  \/ \E n \in 0..StackMax, u \in Allocated \cup {NoUpv} : call(n, u)

Spec == Init /\ [][Next]_vars

-----------------------------------------------------------------------------
\* Types: the frames lie in the stack one above the other.
TypeOK ==
  /\ stack \in [Slots -> Vals \cup {NoVal}] /\ top \in 0..StackMax
  /\ frames \in Seq([slots : Slots, upv : Allocated \cup {NoUpv}])
  /\ Len(frames) <= FramesMax
  /\ \A f, g \in DOMAIN frames : f < g => frames[f].slots < frames[g].slots
  /\ frames # <<>> => Frame.slots <= top
  /\ Allocated \subseteq Upvs /\ open \in Seq(Allocated)
  /\ location \in [Allocated -> Slots \cup {Closed}]
  /\ closed \in [Allocated -> Vals \cup {NoVal}]
  /\ captured \in SUBSET (Slots \X Allocated)
  /\ heapAbove \in BOOLEAN

\* While a captured variable is in scope, whatever is called and returns in the
\* meantime, its upvalue points to its slot: closure and owner share it.
InScopeIsOpen == \A c \in captured : location[c[2]] = c[1]

\* The positions of the list that a walk can come to: all of them, or those
\* before the first closed upvalue if the heap lies below the stack.
Visible == {p \in DOMAIN open : \A q \in 1..p : Above(open[q], 0)}

\* The order capture_upvalue and close_upvalues rely on to stop early.
VisibleIsSorted ==
  \A p, q \in Visible :
    /\ p < q /\ location[open[p]] # Closed /\ location[open[q]] # Closed
    => location[open[p]] > location[open[q]]

\* Functions that capture the same variable share one upvalue, where the heap
\* lies above the stack.
SharedAbove ==
  heapAbove => \A c, d \in captured : c[1] = d[1] => c[2] = d[2]

\* What makes the above inductive: a captured variable is in the stack, and its
\* upvalue in the list.
CapturedInv ==
  \A c \in captured : c[1] <= top /\ \E p \in DOMAIN open : open[p] = c[2]

IInv == TypeOK /\ InScopeIsOpen /\ VisibleIsSorted /\ SharedAbove /\ CapturedInv

\* A closed upvalue never points to the stack again, and its value changes only
\* when a function that captured it assigns to it: not by closing it twice.
ClosedIsPrivate ==
  [][\A u \in Allocated : location[u] = Closed =>
       /\ location'[u] = Closed
       /\ closed'[u] # closed[u] => op_set_upvalue /\ Frame.upv = u]_vars

\* What a return does to the variables of its function.  A captured local outlives
\* it: where the heap lies above the stack, its upvalue is closed over its last
\* value.  A captured slot 0, the self of a method, does not: the walk stops short
\* of it, its upvalue still points to the slot, and the slot takes the result.
ReturnClosesAllButSelf ==
  [][op_return =>
       \A c \in captured :
         /\ heapAbove /\ c[1] > Frame.slots =>
              location'[c[2]] = Closed /\ closed'[c[2]] = Value(c[2])
         /\ c[1] = Frame.slots /\ Len(frames) > 1 =>
              location'[c[2]] = c[1] /\ stack'[c[1]] = stack[top]]_vars
=============================================================================

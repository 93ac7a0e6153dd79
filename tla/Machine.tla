------------------------------ MODULE Machine ------------------------------
(***************************************************************************)
(* The virtual machine of src/src/vm.c: interpret and the loop run, as gcc  *)
(* compiles it (computed goto), with one action per group of instructions   *)
(* that treat the stack alike.                                              *)
(*                                                                         *)
(* The code that runs is any that the parser could have emitted: what is    *)
(* known of it is the height of the stack it counts on.  Each action states *)
(* twice what it does: Compiled takes the cells the parser counts, from     *)
(* where it emits the instruction; the rest is what the handler does.  What *)
(* a table of names answers is chosen freely, so is the code of a closure.  *)
(*                                                                         *)
(* The handler of an error resets the stack, and the loop goes on: it       *)
(* ignores what handlers return.  A state is "lost" where the code reads    *)
(* memory that is no value of the wanted kind; it is not followed further.  *)
(***************************************************************************)
EXTENDS Operators, Sequences, SequencesExt

CONSTANTS FramesMax,      \* frames_stack_max
          StackMax,       \* constant_stack_max
          ArgsMax,        \* bound on the arguments of a call
          FollowMax,      \* bound on the instructions followed behind an error
          Kinds,          \* the kinds of values the code can push
          Instances, nobody,
          Strays          \* the forms of AllStrays that the code has

AllKinds == Numbers \cup {"bool", "none", "null", "string", "closure", "native", "class", "struct",
                          "enum", "enum_instance", "vec", "data"}

\* What leaves the stack or its cells other than the parser counts on:
AllStrays ==
  {"layers",      \* a call x::f(...) where x is neither a class nor an enum
   "patterns",    \* an enum pattern that binds fewer or more values than the member
                  \* stores, or that binds some and meets another member
   "upvalues"}    \* an assignment to a captured variable whose block has ended: its
                  \* upvalue is open still (op_close_upvalue), its slot another's

ASSUME FramesAssumption == FramesMax \in Nat \ {0}
ASSUME StackAssumption == StackMax \in Nat \ {0}
ASSUME BoundsAssumption == ArgsMax \in Nat /\ FollowMax \in Nat
ASSUME StraysAssumption == Strays \subseteq AllStrays
ASSUME KindsAssumption == Kinds \subseteq AllKinds /\ nobody \notin Instances

VARIABLES stack,        \* self->stack up to stack_top
          frames,       \* self->frames
          frame_count,
          fp,           \* the local variable frame of run; 0: not running
          phase,        \* "idle", "run", "aborted" or "lost"
          failed,       \* ghost: a runtime error has been reported
          followed      \* the instructions that have run since

vars == <<stack, frames, frame_count, fp, phase, failed, followed>>

Value(k) == [kind |-> k, of |-> nobody]
Instance(o) == [kind |-> "instance", of |-> o]
Bound(o) == [kind |-> "bound", of |-> o]

Values == {Value(k) : k \in Kinds} \cup {Instance(o) : o \in Instances} \cup {Bound(o) : o \in Instances}

\* slots, the height the code counts on, with slot 0 (ghost), the kind of the
\* function, and the receiver its caller gave it (ghost).
Frame(slots, height, fn, self) == [slots |-> slots, height |-> height, fn |-> fn, self |-> self]
Blank == Frame(0, 0, "none", nobody)
NoFrames == [i \in 1..FramesMax |-> Blank]

Init ==
  /\ stack = <<>> /\ frames = NoFrames /\ frame_count = 0 /\ fp = 0
  /\ phase = "idle" /\ failed = FALSE /\ followed = 0

-----------------------------------------------------------------------------
(* Building blocks                                                         *)

HeightMax == StackMax + 1

\* The code pops n cells and pushes m: slot 0 is never one of them.
Compiled(n, m) ==
  /\ phase = "run"
  /\ frames[fp].height > n
  /\ frames[fp].height - n + m <= HeightMax

Counted(n, m) == [frames EXCEPT ![fp].height = @ - n + m]

peek(distance) == stack[Len(stack) - distance]
Below(n) == SubSeq(stack, 1, Len(stack) - n)
Slot(i) == frames[fp].slots + i

\* The process ends, or goes on with no outcome to follow.
Stop(p) ==
  /\ phase' = p
  /\ stack' = <<>> /\ frames' = NoFrames /\ frame_count' = 0 /\ fp' = 0
  /\ UNCHANGED failed

\* n cells are wanted and there are fewer: pop panics, and the test of peek,
\* one cell late, lets a read of the cell below the stack through.
Starved(n) ==
  /\ Len(stack) < n
  /\ \E p \in {"aborted", "lost"} : Stop(p)

\* push panics on a full stack.
SetStack(s) ==
  IF Len(s) > StackMax THEN Stop("aborted")
  ELSE /\ stack' = s
       /\ UNCHANGED <<frame_count, fp, phase, failed>>

\* The handler pops n cells and pushes the values vs.
Handle(n, vs) == Len(stack) >= n /\ SetStack(Below(n) \o vs)

runtime_error ==
  /\ stack' = <<>> /\ frame_count' = 0
  /\ failed' = TRUE
  /\ UNCHANGED <<fp, phase>>

\* An error in the handler of a call: the loop then takes &frames[-1].
call_error == Stop("lost")

Outcome(n, r) ==
  CASE r = "error" -> runtime_error
    [] r = "trap"  -> Stop("aborted")
    [] r = "lost"  -> Stop("lost")
    [] OTHER       -> Handle(n, <<Value(r)>>)

\* Frames of code that runs are counted on, unless the step stopped it.
Follow(n, m) == frames' = IF phase' = "run" THEN Counted(n, m) ELSE NoFrames

-----------------------------------------------------------------------------
(* Instructions without a call                                             *)

\* Instructions that need no operand: op_constant, op_none, op_closure, ...
op_push ==
  /\ Compiled(0, 1)
  /\ \E v \in Values : Handle(0, <<v>>)
  /\ Follow(0, 1)

\* op_get_global and op_get_type: a name may be unknown.
op_get_global ==
  /\ Compiled(0, 1)
  /\ runtime_error \/ \E v \in Values : Handle(0, <<v>>)
  /\ Follow(0, 1)

\* op_set_global, whose operand stays.
op_set_global ==
  /\ Compiled(1, 1)
  /\ Starved(1) \/ (Len(stack) >= 1 /\ (runtime_error \/ SetStack(stack)))
  /\ Follow(1, 1)

\* A null in a local is taken for an undefined variable.
op_get_local ==
  /\ Compiled(0, 1)
  /\ \E i \in 0..(frames[fp].height - 1) :
       IF Slot(i) > Len(stack) THEN Stop("lost")
       ELSE IF stack[Slot(i)].kind = "null" THEN runtime_error
       ELSE Handle(0, <<stack[Slot(i)]>>)
  /\ Follow(0, 1)

\* Slot 0 has no name that could be assigned.
op_set_local ==
  /\ Compiled(1, 1)
  /\ \E i \in 1..(frames[fp].height - 2) :
       \/ Starved(1)
       \/ Len(stack) >= 1 /\ Slot(i) > Len(stack) /\ Stop("lost")
       \/ Len(stack) >= Slot(i) /\ SetStack([stack EXCEPT ![Slot(i)] = peek(0)])
  /\ Follow(1, 1)

\* A closed upvalue, or an open one of a local of a frame below.  self has no name
\* that could be assigned, so the slot is not a slot 0 while the variable is in scope.
op_set_upvalue ==
  /\ Compiled(1, 1)
  /\ \/ Starved(1)
     \/ /\ Len(stack) >= 1
        /\ \/ SetStack(stack)
           \/ \E i \in 1..(Len(stack) - 1) :
                /\ \/ i < frames[fp].slots /\ \A f \in 1..frame_count : frames[f].slots # i
                   \/ "upvalues" \in Strays
                /\ SetStack([stack EXCEPT ![i] = peek(0)])
  /\ Follow(1, 1)

\* op_pop, op_close_upvalue, op_print and op_define_global.
op_pop ==
  /\ Compiled(1, 0)
  /\ Starved(1) \/ Handle(1, <<>>)
  /\ Follow(1, 0)

op_binary ==
  /\ Compiled(2, 1)
  /\ \/ Starved(2)
     \/ /\ Len(stack) >= 2
        /\ \E op \in Binary : \E r \in read_binary(op, peek(1).kind, peek(0).kind) : Outcome(2, r)
  /\ Follow(2, 1)

op_unary ==
  /\ Compiled(1, 1)
  /\ \/ Starved(1)
     \/ /\ Len(stack) >= 1
        /\ \E r \in negate(peek(0).kind) \cup not_(peek(0).kind) \cup bw_not(peek(0).kind) : Outcome(1, r)
  /\ Follow(1, 1)

\* Only a bool is a condition; the error of is_falsey is not returned.
op_jump_if_false ==
  /\ Compiled(1, 1)
  /\ \/ Starved(1)
     \/ Len(stack) >= 1 /\ IF peek(0).kind = "bool" THEN SetStack(stack) ELSE runtime_error
  /\ Follow(1, 1)

op_jump_if_neq ==
  /\ Compiled(2, 1)
  /\ Starved(2) \/ Handle(2, <<peek(1)>>)
  /\ Follow(2, 1)

\* op_method, op_member: into the class or struct below.
op_define_member ==
  /\ Compiled(2, 1)
  /\ Starved(2) \/ (Len(stack) >= 2 /\ Handle(1, <<>>))
  /\ Follow(2, 1)

\* Stored values and their number, into the enum below them.
op_enum_define_member ==
  \E n \in 0..ArgsMax :
    /\ Compiled(n + 2, 1)
    /\ Starved(n + 2) \/ (Len(stack) >= n + 2 /\ Handle(n + 1, <<>>))
    /\ Follow(n + 2, 1)

\* op_inherit, op_struct_inherit: from the class or struct below.
op_inherit ==
  /\ Compiled(2, 1)
  /\ \/ Starved(2)
     \/ /\ Len(stack) >= 2
        /\ \E k \in {"class", "struct"} : IF peek(1).kind = k THEN Handle(1, <<>>) ELSE runtime_error
  /\ Follow(2, 1)

\* The parser counts the values the pattern binds, behind the jump too.  The handler
\* pushes all that the member stores, if it is the one, and none otherwise.
op_enum_member_match ==
  \E binds \in 0..ArgsMax, stores \in 0..ArgsMax :
    /\ stores = binds \/ "patterns" \in Strays
    /\ Compiled(3, 1 + binds)
    /\ \/ Starved(3)
       \/ /\ Len(stack) >= 3
          /\ IF peek(2).kind = "enum_instance" /\ peek(1).kind = "enum"
               THEN \E v \in Values : Handle(3, <<peek(2)>> \o [i \in 1..stores |-> v])
               ELSE Stop("lost")
    /\ Follow(3, 1 + binds)

op_enum_member_bind ==
  /\ Compiled(1, 1)
  /\ \E i \in 1..(frames[fp].height - 2) :
       \/ Starved(1)
       \/ Len(stack) >= 1 /\ Slot(i) > Len(stack) /\ Stop("lost")
       \/ Len(stack) >= Slot(i) /\ SetStack([stack EXCEPT ![Slot(i)] = peek(0)])
  /\ Follow(1, 1)

-----------------------------------------------------------------------------
(* Properties of objects                                                   *)

\* bind_method: a method of the class, bound to the value on top.  Receivers
\* other than instances, and natives taken for closures, are not followed.
bind_method(n) ==
  \/ runtime_error
  \/ IF peek(n - 1).kind = "instance" THEN Handle(n, <<Bound(peek(n - 1).of)>>) ELSE Stop("lost")

op_get_property ==
  /\ Compiled(1, 1)
  /\ \/ Starved(1)
     \/ /\ Len(stack) >= 1
        /\ CASE peek(0).kind = "instance" -> (\E v \in Values : Handle(1, <<v>>)) \/ bind_method(1)
             [] peek(0).kind = "vec"      -> \E r \in {"data", "error", "lost"} : Outcome(1, r)
             [] peek(0).kind = "struct"   -> (\E v \in Values : Handle(1, <<v>>)) \/ runtime_error
             [] OTHER                     -> runtime_error
  /\ Follow(1, 1)

op_set_property ==
  /\ Compiled(2, 1)
  /\ \/ Starved(2)
     \/ /\ Len(stack) >= 2
        /\ \/ peek(1).kind \in {"instance", "vec", "struct"} /\ Handle(2, <<peek(0)>>)
           \/ peek(1).kind \notin {"instance", "vec"} /\ runtime_error
  /\ Follow(2, 1)

\* The superclass is popped unseen.
op_get_super ==
  /\ Compiled(2, 1)
  /\ \/ Starved(2)
     \/ Len(stack) >= 2 /\ IF peek(0).kind = "class" THEN bind_method(2) ELSE Stop("lost")
  /\ Follow(2, 1)

\* A member of an enum, a method of a class, or the type of that name.
op_get_layer_property ==
  /\ Compiled(1, 1)
  /\ \/ Starved(1)
     \/ /\ Len(stack) >= 1
        /\ \E r \in (CASE peek(0).kind = "enum" -> {"enum_instance", "error"}
                       [] peek(0).kind = "class" -> {"closure", "native", "error"}
                       [] peek(0).kind \in Numbers \cup {"bool", "none", "null"} -> {"class", "error"}
                       [] OTHER -> {"error"}) : Outcome(1, r)
  /\ Follow(1, 1)

op_vector_new ==
  \E n \in 0..ArgsMax :
    /\ Compiled(n, 1)
    /\ Starved(n) \/ Handle(n, <<Value("vec")>>)
    /\ Follow(n, 1)

\* The test of the vector reads the class of what is no instance, and lets
\* other instances through; a vector that Vec() made has no elements to find.
Element(vec, index, n, Answers) ==
  CASE vec.kind \notin {"vec", "instance"} -> Stop("lost")
    [] vec.kind = "instance" -> IF index.kind = "i32" THEN Stop("lost") ELSE runtime_error
    [] vec.kind = "vec"      -> \/ runtime_error
                                \/ /\ index.kind = "i32"
                                   /\ Stop("lost") \/ \E v \in Answers : Handle(n, <<v>>)

op_vector_get ==
  /\ Compiled(2, 1)
  /\ Starved(2) \/ (Len(stack) >= 2 /\ Element(peek(1), peek(0), 2, Values))
  /\ Follow(2, 1)

op_vector_set ==
  /\ Compiled(3, 1)
  /\ Starved(3) \/ (Len(stack) >= 3 /\ Element(peek(2), peek(1), 3, {peek(0)}))
  /\ Follow(3, 1)

-----------------------------------------------------------------------------
(* Calls and returns                                                       *)

\* Mutant: the array of frames has no limit.
CallUnlimited(fs, s, argc, fns, self) ==
  \E fn \in fns :
    /\ frames' = [i \in 1..FramesMax |->
                    CASE i <= frame_count     -> fs[i]
                      [] i = frame_count + 1  -> Frame(Len(s) - argc, argc + 1, fn, self)
                      [] i > frame_count + 1  -> Blank]
    /\ stack' = s /\ frame_count' = frame_count + 1 /\ fp' = frame_count + 1
    /\ UNCHANGED <<phase, failed>>

\* A frame over the arguments and the cell below them.  The arity may not fit.
call(fs, s, argc, fns, self) ==
  \/ call_error
  \/ \E fn \in fns :
       /\ frame_count < FramesMax
       /\ frames' = [i \in 1..FramesMax |->
                       CASE i <= frame_count     -> fs[i]
                         [] i = frame_count + 1  -> Frame(Len(s) - argc, argc + 1, fn, self)
                         [] i > frame_count + 1  -> Blank]
       /\ stack' = s /\ frame_count' = frame_count + 1 /\ fp' = frame_count + 1
       /\ UNCHANGED <<phase, failed>>

\* A call without a frame is over; the loop takes the frame on top again.
Finish(fs, s) ==
  IF frame_count = 0 THEN Stop("lost")
  ELSE SetStack(s) /\ frames' = IF phase' = "run" THEN fs ELSE NoFrames

\* A native whose error has reset the stack writes its result below it.
call_native(fs, s, argc) ==
  \/ \E v \in Values \cup {Value("null")} : Finish(fs, SubSeq(s, 1, Len(s) - argc - 1) \o <<v>>)
  \/ \E p \in {"aborted", "lost"} : Stop(p)

With(s, argc, v) == [s EXCEPT ![Len(s) - argc] = v]

\* Mutant: the bound method is called without its receiver.
BoundWithoutReceiver(fs, s, bound, argc) == call(fs, s, argc, {"fn", "init"}, bound.of)

call_bound(fs, s, bound, argc) ==
  call(fs, With(s, argc, Instance(bound.of)), argc, {"fn", "init"}, bound.of)

\* A class with an initializer, and one without, which takes no arguments.
call_class(fs, s, argc) ==
  \E o \in Instances \cup {nobody} :
    LET new == IF o = nobody THEN Value("vec") ELSE Instance(o)
    IN  \/ o # nobody /\ call(fs, With(s, argc, new), argc, {"init"}, o)
        \/ argc = 0 /\ Finish(fs, With(s, argc, new))
        \/ argc # 0 /\ call_error

call_value(fs, s, callee, argc) ==
  CASE callee.kind = "closure" -> call(fs, s, argc, {"fn", "init"}, nobody)
    [] callee.kind = "bound"   -> call_bound(fs, s, callee, argc)
    [] callee.kind = "class"   -> call_class(fs, s, argc)
    [] callee.kind = "native"  -> call_native(fs, s, argc)
    [] callee.kind = "struct"  -> \/ Finish(fs, SubSeq(s, 1, Len(s) - argc - 1) \o <<Value("struct")>>)
                                  \/ call_error
    [] OTHER                   -> call_error

op_call ==
  \E argc \in 0..ArgsMax :
    /\ Compiled(argc + 1, 1)
    /\ \/ Starved(argc + 1)
       \/ /\ Len(stack) >= argc + 1
          /\ call_value(Counted(argc + 1, 1), stack, peek(argc), argc)

\* A field before a method; a field's value takes the receiver's cell.
op_invoke ==
  \E argc \in 0..ArgsMax :
    /\ Compiled(argc + 1, 1)
    /\ \/ Starved(argc + 1)
       \/ /\ Len(stack) >= argc + 1
          /\ LET fs == Counted(argc + 1, 1)
             IN  CASE peek(argc).kind = "instance" ->
                        \/ \E v \in Values : call_value(fs, With(stack, argc, v), v, argc)
                        \/ call(fs, stack, argc, {"fn", "init"}, peek(argc).of)
                   [] peek(argc).kind = "vec" -> call_native(fs, stack, argc) \/ call_error
                   [] OTHER -> call_error

Receiver(v) == IF v.kind = "instance" THEN v.of ELSE nobody

op_super_invoke ==
  \E argc \in 0..ArgsMax :
    /\ Compiled(argc + 2, 1)
    /\ \/ Starved(argc + 2)
       \/ /\ Len(stack) >= argc + 2
          /\ IF peek(0).kind = "class"
               THEN call(Counted(argc + 2, 1), Below(1), argc, {"fn", "init"}, Receiver(peek(argc + 1)))
               ELSE Stop("lost")

\* A static method takes the cell of its class and gets no receiver.  What is
\* neither a class nor an enum is left alone, and so are the arguments.
op_layer_property_call ==
  \E argc \in 0..ArgsMax :
    /\ Compiled(argc + 1, 1)
    /\ \/ Starved(argc + 1)
       \/ /\ Len(stack) >= argc + 1
          /\ LET fs == Counted(argc + 1, 1)
             IN  CASE peek(argc).kind = "class" ->
                        \/ \E m \in {Value("closure"), Value("native")} :
                             call_value(fs, With(stack, argc, m), m, argc)
                        \/ call_error
                   [] peek(argc).kind = "enum" ->
                        \/ Finish(fs, Below(argc + 1) \o <<Value("enum_instance")>>)
                        \/ Stop("lost")
                   [] OTHER -> (argc = 0 \/ "layers" \in Strays) /\ Finish(fs, stack)

\* Mutant: an initializer answers what is on top.
AnswerOnTop == peek(0)

\* Of an initializer, emit_return loads slot 0 first.
emit_return == IF frames[fp].fn = "init" THEN stack[Slot(0)] ELSE peek(0)

\* Mutant: the callee's cells stay below its answer.
CallerKeepingCells == Append(Below(1), emit_return)

\* The stack of the caller, with the answer; the script has no caller.
CallerStack == Append(SubSeq(stack, 1, frames[fp].slots - 1), emit_return)

returned ==
  /\ frame_count > 0 /\ Slot(0) <= Len(stack)
  /\ \/ /\ frames[fp].fn = "init" /\ Len(stack) = StackMax
        /\ Stop("aborted")
     \/ /\ frames[fp].fn = "init" => Len(stack) < StackMax
        /\ stack' = IF frame_count > 1 THEN CallerStack
                    ELSE IF frames[fp].fn = "init" THEN stack ELSE Below(1)
        /\ frames' = [frames EXCEPT ![frame_count] = Blank]
        /\ frame_count' = frame_count - 1 /\ fp' = frame_count - 1
        /\ phase' = IF frame_count = 1 THEN "idle" ELSE "run"
        /\ UNCHANGED failed

op_return ==
  /\ phase = "run"
  /\ \/ Starved(1)
     \/ Len(stack) >= 1 /\ (frame_count = 0 \/ Slot(0) > Len(stack)) /\ Stop("lost")
     \/ Len(stack) >= 1 /\ returned

\* The next source: a line of the console or a file.
interpret ==
  /\ phase = "idle"
  /\ IF Len(stack) = StackMax THEN Stop("aborted")
     ELSE /\ stack' = Append(stack, Value("closure"))
          /\ frames' = [frames EXCEPT ![1] = Frame(Len(stack) + 1, 1, "script", nobody)]
          /\ frame_count' = 1 /\ fp' = 1 /\ phase' = "run"
          /\ UNCHANGED failed
  /\ UNCHANGED followed

Stopped ==
  /\ phase \in {"aborted", "lost"} \/ followed = FollowMax
  /\ UNCHANGED vars

instruction ==
  \/ op_push \/ op_get_global \/ op_set_global \/ op_get_local \/ op_set_local \/ op_set_upvalue
  \/ op_pop \/ op_binary \/ op_unary \/ op_jump_if_false \/ op_jump_if_neq
  \/ op_define_member \/ op_enum_define_member \/ op_inherit \/ op_enum_member_match \/ op_enum_member_bind
  \/ op_get_property \/ op_set_property \/ op_get_super \/ op_get_layer_property
  \/ op_vector_new \/ op_vector_get \/ op_vector_set
  \/ op_call \/ op_invoke \/ op_super_invoke \/ op_layer_property_call \/ op_return

run ==
  /\ followed < FollowMax
  /\ instruction
  /\ followed' = IF failed' THEN followed + 1 ELSE 0

Next == interpret \/ run \/ Stopped

Spec == Init /\ [][Next]_vars

-----------------------------------------------------------------------------
(* Properties                                                              *)

\* The state has the shape of vm.h: the stack and the frames keep to their
\* arrays (push, call), and a machine that does not run has no frame.
TypeOK ==
  /\ stack \in Seq([kind : AllKinds \cup {"instance", "bound"}, of : Instances \cup {nobody}])
  /\ Len(stack) <= StackMax
  /\ frames \in [1..FramesMax -> [slots : 0..StackMax, height : 0..HeightMax,
                                  fn : {"none", "script", "fn", "init"},
                                  self : Instances \cup {nobody}]]
  /\ frame_count \in 0..FramesMax /\ fp \in 0..FramesMax
  /\ phase \in {"idle", "run", "aborted", "lost"} /\ failed \in BOOLEAN /\ followed \in 0..FollowMax
  /\ phase # "run" <=> fp = 0

\* Without the forms "layers" and "patterns", the stack has the height the compiled
\* code counts on, in every frame: each handler takes and leaves what the parser
\* reckons with, a call sets slots so that the arguments are the callee's first
\* locals, and a return puts its answer in the cell where the caller expects the
\* value of the call.  With one of those forms it does not.
HeightIsCompiled == phase = "run" /\ ~ failed =>
  /\ fp = frame_count
  /\ Len(stack) = frames[fp].slots + frames[fp].height - 1
  /\ \A f \in 2..frame_count : frames[f].slots = frames[f - 1].slots + frames[f - 1].height - 1

\* self, which the compiler finds in slot 0, is the receiver of the call in
\* every method on the stack of frames: by invoke, call_value of a bound
\* method or a class, and super, and while the method and its callees run, unless
\* an assignment goes through an upvalue that was left open (Strays).
ReceiverIsSelf == phase = "run" /\ ~ failed =>
  \A f \in 1..frame_count :
    frames[f].self # nobody => stack[frames[f].slots] = Instance(frames[f].self)

\* An initializer answers the instance it was called for, whatever its code
\* leaves on the stack (emit_return): the value of a call of a class is it.  An
\* assignment through an upvalue left open (Strays) can put another value into
\* slot 0, and so can a stack that is not as high as the code counts on.
InitializersAnswerInstance ==
  [][ /\ phase = "run" /\ ~ failed /\ frame_count > 1
      /\ frames[fp].fn = "init" /\ frames[fp].self # nobody
      /\ phase' = "run" /\ frame_count' = frame_count - 1
      => Last(stack') = Instance(frames[fp].self) ]_vars

\* repl.c:188: after a runtime error the process does not answer that all went
\* well (interpret_ok, on which run_file ends with status 0).
ErrorIsAnswered == phase = "idle" => ~ failed
=============================================================================

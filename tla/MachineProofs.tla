---------------------------- MODULE MachineProofs ----------------------------
(***************************************************************************)
(* For any depth of the stack and of calls, any kinds of values and any    *)
(* code the parser may emit for a text without the forms of AllStrays: the *)
(* stack has the height the compiler counted on in every frame, self is    *)
(* the receiver, and an initializer answers it.                            *)
(***************************************************************************)
EXTENDS Machine, TLAPS

Cells == [kind : AllKinds \cup {"instance", "bound"}, of : Instances \cup {nobody}]

FrameRecords == [slots : 0..StackMax, height : 0..HeightMax, fn : {"none", "script", "fn", "init"},
                 self : Instances \cup {nobody}]

-----------------------------------------------------------------------------
(* The invariant.                                                          *)

\* Frames begin at cells of the stack, each above the one of its caller; an
\* error may leave frame_count at 0 and the loop's own frame in place.
FramesInv == phase = "run" =>
  /\ fp = frame_count \/ (failed /\ frame_count = 0)
  /\ frames[fp].slots >= 1
  /\ \A f \in 1..frame_count : frames[f].slots >= 1
  /\ ~ failed => \A f \in 1..frame_count, g \in 1..frame_count :
                   f < g => frames[f].slots < frames[g].slots

IInv == TypeOK /\ FramesInv /\ HeightIsCompiled /\ ReceiverIsSelf

-----------------------------------------------------------------------------
(* What an instruction without a call does to the stack.                   *)

\* n cells were popped and m pushed, in whatever order, and no cell below them
\* changed but locals.
Exchanged(n, m) ==
  /\ Len(stack) >= n
  /\ stack' \in Seq(Cells) /\ Len(stack') <= StackMax
  /\ Len(stack') = Len(stack) - n + m
  /\ UNCHANGED <<frame_count, fp, phase, failed>>
  /\ ~ failed => \A i \in 1..(Len(stack) - n) :
       stack'[i] = stack[i] \/ \A f \in 1..frame_count : frames[f].slots # i

\* The process ends, or is followed no further.
Stops == \E p \in {"aborted", "lost"} : Stop(p)

\* What an instruction without a call does to the stack.
Stepped(n, m) == Stops \/ runtime_error \/ Exchanged(n, m)

\* An action of this form.
Steps(n, m) == n \in Nat /\ m \in Nat /\ Compiled(n, m) /\ Stepped(n, m) /\ Follow(n, m)

-----------------------------------------------------------------------------
(* Values and sequences.                                                   *)

\* What the code can push can be on the stack.
LEMMA ValuesAreCells == Values \subseteq Cells
BY KindsAssumption DEF Values, Cells, Value, Instance, Bound

\* A sequence put behind another.
LEMMA ConcatFacts ==
  ASSUME NEW S, NEW s \in Seq(S), NEW t \in Seq(S)
  PROVE  /\ s \o t \in Seq(S)
         /\ Len(s \o t) = Len(s) + Len(t)
         /\ \A q \in 1..Len(s) : (s \o t)[q] = s[q]
OBVIOUS

\* The cells below the top n.
LEMMA BelowFacts ==
  ASSUME stack \in Seq(Cells), NEW n \in 0..Len(stack)
  PROVE  /\ Below(n) \in Seq(Cells)
         /\ Len(Below(n)) = Len(stack) - n
         /\ \A q \in 1..(Len(stack) - n) : Below(n)[q] = stack[q]
BY DEF Below

\* A cell from the top.
LEMMA PeekFacts ==
  ASSUME stack \in Seq(Cells), NEW d \in Nat, d < Len(stack)
  PROVE  peek(d) \in Cells
BY DEF peek

\* A full stack ends the process; otherwise the new stack is there.
LEMMA SetStackSteps ==
  ASSUME stack \in Seq(Cells), NEW n \in 0..Len(stack), NEW m \in Nat,
         NEW s \in Seq(Cells), Len(s) = Len(stack) - n + m, SetStack(s),
         ~ failed => \A i \in 1..(Len(stack) - n) :
           s[i] = stack[i] \/ \A f \in 1..frame_count : frames[f].slots # i
  PROVE  Stepped(n, m)
<1>1. CASE Len(s) > StackMax
  BY <1>1 DEF SetStack, Stepped, Stops
<1>2. CASE ~ Len(s) > StackMax
  <2>1. Len(s) <= StackMax
    BY <1>2, StackAssumption
  <2> QED BY <1>2, <2>1 DEF SetStack, Stepped, Exchanged
<1> QED BY <1>1, <1>2

\* A handler that pops k cells and pushes vs, of the n it may touch.
LEMMA HandleSteps ==
  ASSUME stack \in Seq(Cells), NEW n \in Nat, NEW m \in Nat, NEW k \in 0..n,
         n <= Len(stack), NEW vs \in Seq(Cells), Len(vs) - k = m - n, Handle(k, vs)
  PROVE  Stepped(n, m)
<1>1. /\ Below(k) \in Seq(Cells)
      /\ Len(Below(k)) = Len(stack) - k
      /\ \A q \in 1..(Len(stack) - k) : Below(k)[q] = stack[q]
  BY BelowFacts
<1>2. /\ Below(k) \o vs \in Seq(Cells)
      /\ Len(Below(k) \o vs) = Len(Below(k)) + Len(vs)
      /\ \A q \in 1..Len(Below(k)) : (Below(k) \o vs)[q] = Below(k)[q]
  BY <1>1, ConcatFacts
<1> DEFINE s == Below(k) \o vs
<1>3. Len(stack) \in Nat /\ Len(vs) \in Nat /\ n \in 0..Len(stack)
  OBVIOUS
<1>3a. s \in Seq(Cells)
  BY <1>2
<1>3b. Len(s) = Len(stack) - n + m
  <2>1. \A a, b, c \in Int : b - k = m - n /\ a - k = c => c + b = a - n + m
    BY k \in Int, m \in Int, n \in Int
  <2>2. (Len(stack) - k) + Len(vs) = Len(stack) - n + m
    BY <1>3, <2>1
  <2> QED BY <1>1, <1>2, <2>2, Zenon
<1>4. \A i \in 1..(Len(stack) - n) : s[i] = stack[i]
  BY <1>1, <1>2
<1>5. SetStack(s)
  BY DEF Handle
<1> HIDE DEF s
<1> QED BY <1>3, <1>3a, <1>3b, <1>4, <1>5, SetStackSteps

\* Too few cells end the process.
LEMMA StarvedSteps ==
  ASSUME NEW n, NEW m, NEW k, Starved(k)
  PROVE  Stepped(n, m)
BY DEF Starved, Stepped, Stops

\* One cell for the top n, and what is left of them.
LEMMA PutOneSteps ==
  ASSUME stack \in Seq(Cells), NEW n \in Nat, n <= Len(stack), NEW v \in Cells, Handle(n, <<v>>)
  PROVE  Stepped(n, 1)
<1>1. <<v>> \in Seq(Cells) /\ Len(<<v>>) = 1
  OBVIOUS
<1>2. Len(<<v>>) - n = 1 - n /\ n \in 0..n /\ 1 \in Nat
  BY <1>1
<1> QED BY <1>1, <1>2, HandleSteps

\* The top k of the n cells are popped.
LEMMA DropSteps ==
  ASSUME stack \in Seq(Cells), NEW n \in Nat, n <= Len(stack), NEW k \in 0..n, Handle(k, <<>>)
  PROVE  Stepped(n, n - k)
<1>1. <<>> \in Seq(Cells) /\ Len(<<>>) = 0
  OBVIOUS
<1>2. Len(<<>>) - k = (n - k) - n /\ n - k \in Nat
  BY <1>1
<1> QED BY <1>1, <1>2, HandleSteps

\* The stack is left as it is.
LEMMA KeepSteps ==
  ASSUME stack \in Seq(Cells), NEW n \in Nat, n <= Len(stack), SetStack(stack)
  PROVE  Stepped(n, n)
<1>1. n \in 0..Len(stack) /\ Len(stack) = Len(stack) - n + n
  OBVIOUS
<1> QED BY <1>1, SetStackSteps

-----------------------------------------------------------------------------
(* What operators answer.                                                  *)

\* What an operator can answer.
Outcomes == AllKinds \cup {"error", "trap", "lost"}

\* An operator answers a kind, or one of three outcomes.
LEMMA BinaryOutcomes ==
  ASSUME NEW op \in Binary, NEW l, NEW r
  PROVE  read_binary(op, l, r) \subseteq Outcomes
<1>1. ASSUME NEW k \in Numbers PROVE binary_number(op, k) \subseteq Outcomes
  BY DEF binary_number, Binary, Equalities, Orders, Bits, Numbers, Outcomes, AllKinds
<1>2. ASSUME l \in Numbers, r \in Numbers PROVE numeric_type_promotion(l, r) \in Numbers
  BY <1>2 DEF numeric_type_promotion
<1>3. string_operator(op, r) \subseteq Outcomes
  BY DEF string_operator, Outcomes, AllKinds
<1>4. vec_operator(op, l, r) \subseteq Outcomes
  BY DEF vec_operator, Outcomes, AllKinds
<1>5. {"bool"} \subseteq Outcomes /\ {"error"} \subseteq Outcomes
  BY DEF Outcomes, AllKinds
<1>6. CASE l \in Numbers
  <2>1. PICK k \in Numbers : k = IF r \in Numbers THEN numeric_type_promotion(l, r) ELSE l
    BY <1>2, <1>6
  <2>2. read_binary(op, l, r) = binary_number(op, k)
    BY <1>6, <2>1 DEF read_binary, Numbers
  <2> QED BY <1>1, <2>2
<1>7. CASE l \notin Numbers
  BY <1>3, <1>4, <1>5, <1>7 DEF read_binary, Numbers
<1> QED BY <1>6, <1>7

\* So do the three operators with one operand.
LEMMA UnaryOutcomes ==
  ASSUME NEW k
  PROVE  negate(k) \cup not_(k) \cup bw_not(k) \subseteq Outcomes
BY DEF negate, not_, bw_not, Numbers, Outcomes, AllKinds

\* An outcome is a cell, an error or the end.
LEMMA OutcomeSteps ==
  ASSUME stack \in Seq(Cells), NEW n \in Nat, n <= Len(stack), NEW r \in Outcomes, Outcome(n, r)
  PROVE  Stepped(n, 1)
<1>1. CASE r \in {"error", "trap", "lost"}
  BY <1>1 DEF Outcome, Stepped, Stops
<1>2. CASE r \notin {"error", "trap", "lost"}
  <2>1. Value(r) \in Cells
    BY <1>2 DEF Outcomes, Value, Cells
  <2>2. Handle(n, <<Value(r)>>)
    BY <1>2 DEF Outcome
  <2> QED BY <2>1, <2>2, PutOneSteps
<1> QED BY <1>1, <1>2

\* bind_method takes n cells and leaves the bound method.
LEMMA BindSteps ==
  ASSUME stack \in Seq(Cells), NEW n \in Nat \ {0}, n <= Len(stack), bind_method(n)
  PROVE  Stepped(n, 1)
<1>1. peek(n - 1) \in Cells
  BY PeekFacts
<1>2. Bound(peek(n - 1).of) \in Cells
  BY <1>1 DEF Bound, Cells
<1>3. CASE Handle(n, <<Bound(peek(n - 1).of)>>)
  BY <1>2, <1>3, PutOneSteps
<1>4. CASE runtime_error \/ Stop("lost")
  BY <1>4 DEF Stepped, Stops
<1> QED BY <1>3, <1>4 DEF bind_method

\* An element of a vector, or an error or the end.
LEMMA ElementSteps ==
  ASSUME stack \in Seq(Cells), NEW n \in Nat, n <= Len(stack), NEW vec, NEW index,
         NEW Answers \in SUBSET Cells, Element(vec, index, n, Answers)
  PROVE  Stepped(n, 1)
<1>1. \/ Stop("lost") \/ runtime_error
      \/ \E v \in Answers : Handle(n, <<v>>)
  BY DEF Element
<1>2. CASE \E v \in Answers : Handle(n, <<v>>)
  BY <1>2, PutOneSteps
<1>3. CASE Stop("lost") \/ runtime_error
  BY <1>3 DEF Stepped, Stops
<1> QED BY <1>1, <1>2, <1>3
-----------------------------------------------------------------------------
(* Instructions without a call.                                            *)

\* The slots of the frames on the stack are below the locals of the top one.
LEMMA LocalIsNoSlot ==
  ASSUME TypeOK, FramesInv, phase = "run", ~ failed, NEW i \in Nat \ {0}, NEW f \in 1..frame_count
  PROVE  frames[f].slots # Slot(i)
<1>1. fp = frame_count
  BY DEF FramesInv
<1>2. frame_count \in 1..FramesMax /\ f \in 1..FramesMax
  BY FramesAssumption DEF TypeOK
<1>3. frames[fp].slots \in Nat /\ frames[f].slots \in Nat
  BY <1>1, <1>2, StackAssumption DEF TypeOK
<1>4. f = fp \/ frames[f].slots < frames[fp].slots
  BY <1>1, <1>2 DEF FramesInv
<1> QED BY <1>3, <1>4 DEF Slot

\* A cell that is the slot of no frame takes the value on top.
LEMMA AssignSteps ==
  ASSUME TypeOK, NEW i \in Nat \ {0}, i <= Len(stack),
         ~ failed => \A f \in 1..frame_count : frames[f].slots # i,
         SetStack([stack EXCEPT ![i] = peek(0)])
  PROVE  Stepped(1, 1)
<1>1. stack \in Seq(Cells)
  BY DEF TypeOK, Cells
<1>2. Len(stack) \in Nat /\ 0 < Len(stack) /\ i \in 1..Len(stack)
  BY <1>1
<1>3. peek(0) \in Cells
  BY <1>1, <1>2, PeekFacts
<1> DEFINE s == [stack EXCEPT ![i] = peek(0)]
<1>4. s \in Seq(Cells) /\ Len(s) = Len(stack)
  BY <1>1, <1>2, <1>3
<1>5. \A q \in 1..Len(stack) : q # i => s[q] = stack[q]
  BY <1>1
<1>6. SetStack(s)
  OBVIOUS
<1> HIDE DEF s
<1>7. 1 \in 0..Len(stack) /\ 1 \in Nat /\ Len(s) = Len(stack) - 1 + 1
  BY <1>2, <1>4
<1>8. ~ failed => \A q \in 1..(Len(stack) - 1) :
                    s[q] = stack[q] \/ \A f \in 1..frame_count : frames[f].slots # q
  BY <1>2, <1>5
<1> QED BY <1>1, <1>4, <1>6, <1>7, <1>8, SetStackSteps

\* op_set_local and op_enum_member_bind.
LEMMA LocalSteps ==
  ASSUME TypeOK, FramesInv, Compiled(1, 1), NEW i \in 1..(frames[fp].height - 2),
         \/ Starved(1)
         \/ Len(stack) >= 1 /\ Slot(i) > Len(stack) /\ Stop("lost")
         \/ Len(stack) >= Slot(i) /\ SetStack([stack EXCEPT ![Slot(i)] = peek(0)])
  PROVE  Stepped(1, 1)
<1>1. fp \in 1..FramesMax /\ phase = "run"
  BY FramesAssumption DEF TypeOK, Compiled
<1>2. frames[fp].slots \in Nat /\ frames[fp].height \in Nat
  BY <1>1, StackAssumption DEF TypeOK, HeightMax
<1>3. i \in Nat \ {0} /\ Slot(i) \in Nat \ {0}
  BY <1>2 DEF Slot
<1>4. CASE Starved(1)
  BY <1>4, StarvedSteps
<1>5. CASE Stop("lost")
  BY <1>5 DEF Stepped, Stops
<1>6. CASE Len(stack) >= Slot(i) /\ SetStack([stack EXCEPT ![Slot(i)] = peek(0)])
  <2>1. ~ failed => \A f \in 1..frame_count : frames[f].slots # Slot(i)
    BY <1>1, <1>3, LocalIsNoSlot
  <2>2. Slot(i) <= Len(stack)
    BY <1>3, <1>6 DEF TypeOK
  <2> QED BY <1>3, <1>6, <2>1, <2>2, AssignSteps
<1> QED BY <1>4, <1>5, <1>6

\* The instructions of Machine that call nothing.
simple ==
  \/ op_push \/ op_get_global \/ op_set_global \/ op_get_local \/ op_set_local \/ op_set_upvalue
  \/ op_pop \/ op_binary \/ op_unary \/ op_jump_if_false \/ op_jump_if_neq
  \/ op_define_member \/ op_enum_define_member \/ op_inherit \/ op_enum_member_match \/ op_enum_member_bind
  \/ op_get_property \/ op_set_property \/ op_get_super \/ op_get_layer_property
  \/ op_vector_new \/ op_vector_get \/ op_vector_set

\* Each of these instructions takes and leaves what the code counts on.
LEMMA SimpleSteps ==
  ASSUME TypeOK, FramesInv, Strays = {}, simple
  PROVE  \E n, m \in Nat : Steps(n, m)
<1> USE DEF Steps
<1>a. stack \in Seq(Cells) /\ Len(stack) \in Nat
  BY DEF TypeOK, Cells
<1>b. phase = "run" => fp \in 1..FramesMax /\ frames[fp].slots \in Nat /\ frames[fp].height \in Nat
  BY StackAssumption DEF TypeOK, HeightMax
<1>c. runtime_error \/ (\E p \in {"aborted", "lost"} : Stop(p)) => \A n, m \in Nat : Stepped(n, m)
  BY DEF Stepped, Stops
<1>d. \A n, k, m \in Nat : Starved(k) => Stepped(n, m)
  BY StarvedSteps
<1>e. \A n \in Nat, v \in Values : n <= Len(stack) /\ Handle(n, <<v>>) => Stepped(n, 1)
  BY <1>a, ValuesAreCells, PutOneSteps
<1>f. \A n \in Nat : n <= Len(stack) /\ SetStack(stack) => Stepped(n, n)
  BY <1>a, KeepSteps
<1>1. CASE op_push
  <2>1. Stepped(0, 1)
    BY <1>1, <1>a, <1>e DEF op_push
  <2> QED BY <1>1, <2>1 DEF op_push
<1>2. CASE op_get_global
  <2>1. (\E v \in Values : Handle(0, <<v>>)) => Stepped(0, 1)
    BY <1>a, <1>e
  <2>2. runtime_error => Stepped(0, 1)
    BY <1>c
  <2>3. Stepped(0, 1)
    BY <1>2, <2>1, <2>2 DEF op_get_global
  <2> QED BY <1>2, <2>3 DEF op_get_global
<1>3. CASE op_set_global
  <2>1. Stepped(1, 1)
    BY <1>3, <1>a, <1>c, <1>d, <1>f DEF op_set_global
  <2> QED BY <1>3, <2>1 DEF op_set_global
<1>4. CASE op_get_local
  <2>1. PICK i \in 0..(frames[fp].height - 1) :
          IF Slot(i) > Len(stack) THEN Stop("lost")
          ELSE IF stack[Slot(i)].kind = "null" THEN runtime_error
          ELSE Handle(0, <<stack[Slot(i)]>>)
    BY <1>4 DEF op_get_local
  <2>2. Slot(i) \in Nat \ {0}
    BY <1>4, <1>b DEF Slot, FramesInv, op_get_local, Compiled
  <2>3. ASSUME ~ Slot(i) > Len(stack), stack[Slot(i)].kind # "null" PROVE Stepped(0, 1)
    <3>1. stack[Slot(i)] \in Cells
      BY <1>a, <2>2, <2>3
    <3> QED BY <1>a, <2>1, <2>3, <3>1, PutOneSteps
  <2>4. ASSUME Slot(i) > Len(stack) \/ stack[Slot(i)].kind = "null" PROVE Stepped(0, 1)
    BY <1>c, <2>1, <2>4
  <2>5. Stepped(0, 1)
    BY <2>3, <2>4
  <2> QED BY <1>4, <2>5 DEF op_get_local
<1>5. CASE op_set_local
  <2>1. Stepped(1, 1)
    BY <1>5, LocalSteps DEF op_set_local
  <2> QED BY <1>5, <2>1 DEF op_set_local
<1>6. CASE op_set_upvalue
  <2>1. ASSUME NEW i \in 1..(Len(stack) - 1),
               \A f \in 1..frame_count : frames[f].slots # i,
               SetStack([stack EXCEPT ![i] = peek(0)])
        PROVE  Stepped(1, 1)
    <3>1. i \in Nat \ {0} /\ i <= Len(stack)
      BY <1>a
    <3> QED BY <2>1, <3>1, AssignSteps
  <2>2. ASSUME Starved(1) \/ (Len(stack) >= 1 /\ SetStack(stack)) PROVE Stepped(1, 1)
    BY <1>a, <1>d, <1>f, <2>2
  <2>3. Stepped(1, 1)
    BY <1>6, <2>1, <2>2 DEF op_set_upvalue
  <2> QED BY <1>6, <2>3 DEF op_set_upvalue
<1>7. CASE op_pop
  <2>1. ASSUME Handle(1, <<>>) PROVE Stepped(1, 1 - 1)
    <3>1. 1 <= Len(stack) /\ 1 \in 0..1
      BY <1>a, <2>1 DEF Handle
    <3> QED BY <1>a, <2>1, <3>1, DropSteps
  <2>2. Stepped(1, 0)
    BY <1>7, <1>d, <2>1 DEF op_pop
  <2> QED BY <1>7, <2>2 DEF op_pop
<1>8. CASE op_binary
  <2>1. ASSUME Len(stack) >= 2, NEW op \in Binary,
               NEW r \in read_binary(op, peek(1).kind, peek(0).kind), Outcome(2, r)
        PROVE  Stepped(2, 1)
    <3>1. r \in Outcomes
      BY BinaryOutcomes
    <3> QED BY <1>a, <2>1, <3>1, OutcomeSteps
  <2>2. Stepped(2, 1)
    BY <1>8, <1>d, <2>1 DEF op_binary
  <2> QED BY <1>8, <2>2 DEF op_binary
<1>9. CASE op_unary
  <2>1. ASSUME Len(stack) >= 1, NEW r \in negate(peek(0).kind) \cup not_(peek(0).kind) \cup bw_not(peek(0).kind),
               Outcome(1, r)
        PROVE  Stepped(1, 1)
    <3>1. r \in Outcomes
      BY UnaryOutcomes
    <3> QED BY <1>a, <2>1, <3>1, OutcomeSteps
  <2>2. Stepped(1, 1)
    BY <1>9, <1>d, <2>1 DEF op_unary
  <2> QED BY <1>9, <2>2 DEF op_unary
<1>10. CASE op_jump_if_false
  <2>1. Stepped(1, 1)
    BY <1>10, <1>a, <1>c, <1>d, <1>f DEF op_jump_if_false
  <2> QED BY <1>10, <2>1 DEF op_jump_if_false
<1>11. CASE op_jump_if_neq
  <2>1. ASSUME Handle(2, <<peek(1)>>) PROVE Stepped(2, 1)
    <3>1. 2 <= Len(stack)
      BY <1>a, <2>1 DEF Handle
    <3>2. peek(1) \in Cells
      BY <1>a, <3>1, PeekFacts
    <3> QED BY <1>a, <2>1, <3>1, <3>2, PutOneSteps
  <2>2. Stepped(2, 1)
    BY <1>11, <1>d, <2>1 DEF op_jump_if_neq
  <2> QED BY <1>11, <2>2 DEF op_jump_if_neq
<1>12. CASE op_define_member
  <2>1. ASSUME Handle(1, <<>>), Len(stack) >= 2 PROVE Stepped(2, 2 - 1)
    <3>1. 2 <= Len(stack) /\ 1 \in 0..2
      BY <1>a, <2>1
    <3> QED BY <1>a, <2>1, <3>1, DropSteps
  <2>2. Stepped(2, 1)
    BY <1>12, <1>d, <2>1 DEF op_define_member
  <2> QED BY <1>12, <2>2 DEF op_define_member
<1>13. CASE op_enum_define_member
  <2>1. PICK n \in 0..ArgsMax :
          /\ Compiled(n + 2, 1)
          /\ Starved(n + 2) \/ (Len(stack) >= n + 2 /\ Handle(n + 1, <<>>))
          /\ Follow(n + 2, 1)
    BY <1>13 DEF op_enum_define_member
  <2>2. n + 2 \in Nat /\ n + 1 \in 0..(n + 2) /\ (n + 2) - (n + 1) = 1
    BY BoundsAssumption
  <2>3. ASSUME Len(stack) >= n + 2, Handle(n + 1, <<>>) PROVE Stepped(n + 2, (n + 2) - (n + 1))
    <3>1. n + 2 <= Len(stack)
      BY <1>a, <2>2, <2>3
    <3> QED BY <1>a, <2>2, <2>3, <3>1, DropSteps
  <2>4. Stepped(n + 2, 1)
    BY <1>d, <2>1, <2>2, <2>3
  <2> QED BY <2>1, <2>2, <2>4
<1>14. CASE op_inherit
  <2>1. ASSUME Handle(1, <<>>), Len(stack) >= 2 PROVE Stepped(2, 2 - 1)
    <3>1. 2 <= Len(stack) /\ 1 \in 0..2
      BY <1>a, <2>1
    <3> QED BY <1>a, <2>1, <3>1, DropSteps
  <2>2. runtime_error => Stepped(2, 1)
    BY <1>c
  <2>3. Stepped(2, 1)
    BY <1>14, <1>d, <2>1, <2>2 DEF op_inherit
  <2> QED BY <1>14, <2>3 DEF op_inherit
<1>15. CASE op_enum_member_match
  <2>1. PICK n \in 0..ArgsMax :                  \* binds, and stores as well
          /\ Compiled(3, 1 + n)
          /\ \/ Starved(3)
             \/ /\ Len(stack) >= 3
                /\ IF peek(2).kind = "enum_instance" /\ peek(1).kind = "enum"
                     THEN \E v \in Values : Handle(3, <<peek(2)>> \o [i \in 1..n |-> v])
                     ELSE Stop("lost")
          /\ Follow(3, 1 + n)
    BY <1>15 DEF op_enum_member_match
  <2>2. n \in Nat /\ 1 + n \in Nat
    BY BoundsAssumption
  <2>3. ASSUME Len(stack) >= 3, NEW v \in Values, Handle(3, <<peek(2)>> \o [i \in 1..n |-> v])
        PROVE  Stepped(3, 1 + n)
    <3>1. peek(2) \in Cells /\ v \in Cells
      BY <1>a, <2>3, PeekFacts, ValuesAreCells
    <3> DEFINE vs == <<peek(2)>> \o [i \in 1..n |-> v]
    <3>2. <<peek(2)>> \in Seq(Cells) /\ Len(<<peek(2)>>) = 1
      BY <3>1
    <3>3. [i \in 1..n |-> v] \in Seq(Cells) /\ Len([i \in 1..n |-> v]) = n
      BY <2>2, <3>1
    <3>4. vs \in Seq(Cells) /\ Len(vs) = 1 + n
      BY <3>2, <3>3
    <3>5. Handle(3, vs)
      BY <2>3
    <3> HIDE DEF vs
    <3>6. Len(vs) - 3 = (1 + n) - 3 /\ 3 \in 0..3 /\ 3 \in Nat /\ 3 <= Len(stack)
      BY <1>a, <2>3, <3>4
    <3> QED BY <1>a, <2>2, <3>4, <3>5, <3>6, HandleSteps
  <2>4. Stop("lost") => Stepped(3, 1 + n)
    BY <1>c, <2>2
  <2>5. Stepped(3, 1 + n)
    BY <1>d, <2>1, <2>2, <2>3, <2>4
  <2> QED BY <2>1, <2>2, <2>5
<1>16. CASE op_enum_member_bind
  <2>1. Stepped(1, 1)
    BY <1>16, LocalSteps DEF op_enum_member_bind
  <2> QED BY <1>16, <2>1 DEF op_enum_member_bind
<1>17. CASE op_get_property
  <2>1. ASSUME Len(stack) >= 1, NEW r \in {"data", "error", "lost"}, Outcome(1, r) PROVE Stepped(1, 1)
    <3>1. r \in Outcomes
      BY DEF Outcomes, AllKinds
    <3> QED BY <1>a, <2>1, <3>1, OutcomeSteps
  <2>2. Len(stack) >= 1 /\ bind_method(1) => Stepped(1, 1)
    BY <1>a, BindSteps
  <2>3. Len(stack) >= 1 /\ (\E v \in Values : Handle(1, <<v>>)) => Stepped(1, 1)
    BY <1>a, <1>e
  <2>4. runtime_error => Stepped(1, 1)
    BY <1>c
  <2>5. Stepped(1, 1)
    BY <1>17, <1>d, <2>1, <2>2, <2>3, <2>4 DEF op_get_property
  <2> QED BY <1>17, <2>5 DEF op_get_property
<1>18. CASE op_set_property
  <2>1. ASSUME Len(stack) >= 2, Handle(2, <<peek(0)>>) PROVE Stepped(2, 1)
    <3>1. peek(0) \in Cells
      BY <1>a, <2>1, PeekFacts
    <3> QED BY <1>a, <2>1, <3>1, PutOneSteps
  <2>2. runtime_error => Stepped(2, 1)
    BY <1>c
  <2>3. Stepped(2, 1)
    BY <1>18, <1>d, <2>1, <2>2 DEF op_set_property
  <2> QED BY <1>18, <2>3 DEF op_set_property
<1>19. CASE op_get_super
  <2>1. Len(stack) >= 2 /\ bind_method(2) => Stepped(2, 1)
    BY <1>a, BindSteps
  <2>2. Stop("lost") => Stepped(2, 1)
    BY <1>c
  <2>3. Stepped(2, 1)
    BY <1>19, <1>d, <2>1, <2>2 DEF op_get_super
  <2> QED BY <1>19, <2>3 DEF op_get_super
<1>20. CASE op_get_layer_property
  <2>1. ASSUME Len(stack) >= 1,
               NEW r \in {"enum_instance", "closure", "native", "class", "error"}, Outcome(1, r)
        PROVE  Stepped(1, 1)
    <3>1. r \in Outcomes
      BY DEF Outcomes, AllKinds
    <3> QED BY <1>a, <2>1, <3>1, OutcomeSteps
  <2>2. Stepped(1, 1)
    BY <1>20, <1>d, <2>1 DEF op_get_layer_property
  <2> QED BY <1>20, <2>2 DEF op_get_layer_property
<1>21. CASE op_vector_new
  <2>1. PICK n \in 0..ArgsMax :
          Compiled(n, 1) /\ (Starved(n) \/ Handle(n, <<Value("vec")>>)) /\ Follow(n, 1)
    BY <1>21 DEF op_vector_new
  <2>2. n \in Nat
    BY BoundsAssumption
  <2>3. ASSUME Handle(n, <<Value("vec")>>) PROVE Stepped(n, 1)
    <3>1. Value("vec") \in Cells /\ n <= Len(stack)
      BY <1>a, <2>2, <2>3 DEF Value, Cells, AllKinds, Handle
    <3> QED BY <1>a, <2>2, <2>3, <3>1, PutOneSteps
  <2>4. Stepped(n, 1)
    BY <1>d, <2>1, <2>2, <2>3
  <2> QED BY <2>1, <2>2, <2>4
<1>22. CASE op_vector_get
  <2>1. Len(stack) >= 2 /\ Element(peek(1), peek(0), 2, Values) => Stepped(2, 1)
    BY <1>a, ValuesAreCells, ElementSteps
  <2>2. Stepped(2, 1)
    BY <1>22, <1>d, <2>1 DEF op_vector_get
  <2> QED BY <1>22, <2>2 DEF op_vector_get
<1>23. CASE op_vector_set
  <2>1. ASSUME Len(stack) >= 3, Element(peek(2), peek(1), 3, {peek(0)}) PROVE Stepped(3, 1)
    <3>1. {peek(0)} \in SUBSET Cells
      BY <1>a, <2>1, PeekFacts
    <3> QED BY <1>a, <2>1, <3>1, ElementSteps
  <2>2. Stepped(3, 1)
    BY <1>23, <1>d, <2>1 DEF op_vector_set
  <2> QED BY <1>23, <2>2 DEF op_vector_set
<1> QED
  BY <1>1, <1>2, <1>3, <1>4, <1>5, <1>6, <1>7, <1>8, <1>9, <1>10, <1>11, <1>12, <1>13, <1>14, <1>15,
     <1>16, <1>17, <1>18, <1>19, <1>20, <1>21, <1>22, <1>23 DEF simple
-----------------------------------------------------------------------------
(* Calls.                                                                  *)

\* The value called, or the receiver, with argc arguments is taken, and a
\* frame is over the arguments and the cell below them.
Entered(n, argc) ==
  /\ n \in Nat /\ argc \in Nat /\ n >= argc + 1 /\ Compiled(n, 1)
  /\ n <= Len(stack) /\ frame_count < FramesMax
  /\ \E fn \in {"fn", "init"}, self \in Instances \cup {nobody} :
       /\ stack' \in Seq(Cells) /\ Len(stack') = Len(stack) - n + argc + 1
       /\ \A i \in 1..(Len(stack) - n) : stack'[i] = stack[i]
       /\ self # nobody => stack'[Len(stack') - argc] = Instance(self)
       /\ frames' = [i \in 1..FramesMax |->
                       CASE i <= frame_count     -> Counted(n, 1)[i]
                         [] i = frame_count + 1  -> Frame(Len(stack') - argc, argc + 1, fn, self)
                         [] i > frame_count + 1  -> Blank]
       /\ frame_count' = frame_count + 1 /\ fp' = frame_count + 1
       /\ UNCHANGED <<phase, failed>>

\* Every outcome of the instructions that call.
Called == \E n, m \in Nat : Steps(n, m) \/ Entered(n, m)

\* The end of the process is an outcome of any instruction.
LEMMA StopSteps ==
  ASSUME NEW n \in Nat, NEW m \in Nat, Compiled(n, m), NEW p \in {"aborted", "lost"}, Stop(p)
  PROVE  Steps(n, m)
BY DEF Steps, Stepped, Stops, Stop, Follow

\* The operands of a call: the arguments and the cell below them.
Operands(s, argc) ==
  /\ argc \in Nat /\ argc + 1 <= Len(stack) /\ Compiled(argc + 1, 1)
  /\ s \in Seq(Cells) /\ Len(s) = Len(stack)
  /\ \A i \in 1..(Len(stack) - (argc + 1)) : s[i] = stack[i]

\* A call without a frame leaves its answer for its operands.
LEMMA FinishSteps ==
  ASSUME TypeOK, NEW n \in Nat, n <= Len(stack), Compiled(n, 1), NEW s \in Seq(Cells),
         Len(s) = Len(stack) - n + 1, \A i \in 1..(Len(stack) - n) : s[i] = stack[i],
         Finish(Counted(n, 1), s)
  PROVE  Steps(n, 1)
<1>1. CASE frame_count = 0
  <2>1. Stop("lost")
    BY <1>1 DEF Finish
  <2> QED BY <2>1, StopSteps
<1>2. CASE frame_count # 0
  <2>1. SetStack(s) /\ Follow(n, 1)
    BY <1>2 DEF Finish, Follow
  <2>2. stack \in Seq(Cells) /\ n \in 0..Len(stack) /\ 1 \in Nat
    BY DEF TypeOK, Cells
  <2>3. Stepped(n, 1)
    BY <2>1, <2>2, SetStackSteps
  <2> QED BY <2>1, <2>3 DEF Steps
<1> QED BY <1>1, <1>2

\* call makes a frame whose slot 0 is the cell below the arguments.
LEMMA CallEnters ==
  ASSUME NEW n \in Nat, NEW argc \in Nat, n >= argc + 1, Compiled(n, 1), n <= Len(stack),
         NEW s \in Seq(Cells), Len(s) = Len(stack) - n + argc + 1,
         \A i \in 1..(Len(stack) - n) : s[i] = stack[i],
         NEW self \in Instances \cup {nobody}, self # nobody => s[Len(s) - argc] = Instance(self),
         NEW fns \in SUBSET {"fn", "init"}, call(Counted(n, 1), s, argc, fns, self)
  PROVE  Called
<1>1. CASE call_error
  BY <1>1, StopSteps DEF call_error, Called
<1>2. CASE ~ call_error
  <2>1. PICK fn \in fns :
          /\ frame_count < FramesMax
          /\ frames' = [i \in 1..FramesMax |->
                          CASE i <= frame_count     -> Counted(n, 1)[i]
                            [] i = frame_count + 1  -> Frame(Len(s) - argc, argc + 1, fn, self)
                            [] i > frame_count + 1  -> Blank]
          /\ stack' = s /\ frame_count' = frame_count + 1 /\ fp' = frame_count + 1
          /\ UNCHANGED <<phase, failed>>
    BY <1>2, Zenon DEF call
  <2>2. frames' = [i \in 1..FramesMax |->
                     CASE i <= frame_count     -> Counted(n, 1)[i]
                       [] i = frame_count + 1  -> Frame(Len(stack') - argc, argc + 1, fn, self)
                       [] i > frame_count + 1  -> Blank]
    <3>1. Len(stack') - argc = Len(s) - argc
      BY <2>1
    <3> QED BY <2>1, <3>1
  <2>3. /\ stack' \in Seq(Cells) /\ Len(stack') = Len(stack) - n + argc + 1
        /\ \A i \in 1..(Len(stack) - n) : stack'[i] = stack[i]
        /\ self # nobody => stack'[Len(stack') - argc] = Instance(self)
    <3>1. stack' = s
      BY <2>1
    <3> QED BY <3>1
  <2>4. fn \in {"fn", "init"}
    OBVIOUS
  <2>5. Entered(n, argc)
    BY <2>1, <2>2, <2>3, <2>4, Zenon DEF Entered
  <2> QED BY <2>5 DEF Called
<1> QED BY <1>1, <1>2

\* With the cell of the callee overwritten.
LEMMA WithFacts ==
  ASSUME NEW s, NEW argc, Operands(s, argc), NEW v \in Cells
  PROVE  Operands(With(s, argc, v), argc) /\ With(s, argc, v)[Len(With(s, argc, v)) - argc] = v
<1>1. Len(s) - argc \in 1..Len(s) /\ s \in Seq(Cells) /\ Len(s) = Len(stack) /\ argc \in Nat
  BY DEF Operands
<1>2. With(s, argc, v) \in Seq(Cells) /\ Len(With(s, argc, v)) = Len(s)
  BY <1>1 DEF With
<1>3. With(s, argc, v)[Len(s) - argc] = v
  BY <1>1 DEF With
<1>4. \A i \in 1..(Len(stack) - (argc + 1)) : With(s, argc, v)[i] = s[i]
  BY <1>1 DEF With
<1>5. Operands(With(s, argc, v), argc)
  BY <1>1, <1>2, <1>4 DEF Operands
<1> QED BY <1>2, <1>3, <1>5

\* With the answer in the place of the operands.
LEMMA AnswerFacts ==
  ASSUME TypeOK, NEW s, NEW argc, Operands(s, argc), NEW v \in Cells,
         Finish(Counted(argc + 1, 1), SubSeq(s, 1, Len(s) - argc - 1) \o <<v>>)
  PROVE  Called
<1> DEFINE t == SubSeq(s, 1, Len(s) - argc - 1)
<1>1. /\ argc \in Nat /\ argc + 1 \in Nat /\ argc + 1 <= Len(stack) /\ Compiled(argc + 1, 1)
      /\ s \in Seq(Cells) /\ Len(s) = Len(stack)
  BY DEF Operands
<1>2. /\ t \in Seq(Cells) /\ Len(t) = Len(stack) - (argc + 1)
      /\ \A i \in 1..(Len(stack) - (argc + 1)) : t[i] = s[i]
  BY <1>1
<1>3. <<v>> \in Seq(Cells) /\ Len(<<v>>) = 1
  OBVIOUS
<1> HIDE DEF t
<1>4. /\ t \o <<v>> \in Seq(Cells) /\ Len(t \o <<v>>) = Len(t) + Len(<<v>>)
      /\ \A i \in 1..Len(t) : (t \o <<v>>)[i] = t[i]
  BY <1>2, <1>3, ConcatFacts
<1> DEFINE u == t \o <<v>>
<1>5. \A i \in 1..(Len(stack) - (argc + 1)) : u[i] = stack[i]
  BY <1>2, <1>4 DEF Operands
<1>6. u \in Seq(Cells) /\ Len(u) = Len(stack) - (argc + 1) + 1
  BY <1>2, <1>3, <1>4
<1>7. Finish(Counted(argc + 1, 1), u)
  BY DEF t
<1> HIDE DEF u
<1>8. Steps(argc + 1, 1)
  BY <1>1, <1>5, <1>6, <1>7, FinishSteps
<1> QED BY <1>1, <1>8 DEF Called

\* A call of what is below the arguments.
LEMMA OperandsCall ==
  ASSUME TypeOK, NEW s, NEW argc, Operands(s, argc), NEW fns \in SUBSET {"fn", "init"},
         NEW self \in Instances \cup {nobody}, self # nobody => s[Len(s) - argc] = Instance(self),
         call(Counted(argc + 1, 1), s, argc, fns, self)
  PROVE  Called
<1>1. /\ argc \in Nat /\ argc + 1 \in Nat /\ argc + 1 >= argc + 1 /\ argc + 1 <= Len(stack)
      /\ Compiled(argc + 1, 1) /\ s \in Seq(Cells) /\ Len(s) = Len(stack) - (argc + 1) + argc + 1
      /\ \A i \in 1..(Len(stack) - (argc + 1)) : s[i] = stack[i]
  BY DEF Operands
<1> QED BY <1>1, CallEnters

\* call_value of a native.
LEMMA NativeCalls ==
  ASSUME TypeOK, NEW s, NEW argc, Operands(s, argc), call_native(Counted(argc + 1, 1), s, argc)
  PROVE  Called
<1>1. Value("null") \in Cells
  BY DEF Value, Cells, AllKinds
<1>2. CASE \E v \in Values \cup {Value("null")} :
             Finish(Counted(argc + 1, 1), SubSeq(s, 1, Len(s) - argc - 1) \o <<v>>)
  BY <1>1, <1>2, ValuesAreCells, AnswerFacts
<1>3. CASE \E p \in {"aborted", "lost"} : Stop(p)
  <2>1. argc + 1 \in Nat /\ 1 \in Nat /\ Compiled(argc + 1, 1)
    BY DEF Operands
  <2>2. Steps(argc + 1, 1)
    BY <1>3, <2>1, StopSteps
  <2> QED BY <2>1, <2>2 DEF Called
<1> QED BY <1>2, <1>3 DEF call_native

\* call_value of a class: the instance takes the cell of the class.
LEMMA ClassCalls ==
  ASSUME TypeOK, NEW s, NEW argc, Operands(s, argc), call_class(Counted(argc + 1, 1), s, argc)
  PROVE  Called
<1>1. PICK o \in Instances \cup {nobody} :
        LET new == IF o = nobody THEN Value("vec") ELSE Instance(o)
        IN  \/ o # nobody /\ call(Counted(argc + 1, 1), With(s, argc, new), argc, {"init"}, o)
            \/ argc = 0 /\ Finish(Counted(argc + 1, 1), With(s, argc, new))
            \/ argc # 0 /\ call_error
  BY DEF call_class
<1> DEFINE new == IF o = nobody THEN Value("vec") ELSE Instance(o)
<1>2. new \in Cells
  BY DEF Value, Instance, Cells, AllKinds
<1>3. Operands(With(s, argc, new), argc) /\ With(s, argc, new)[Len(With(s, argc, new)) - argc] = new
  BY <1>2, WithFacts
<1>4. o # nobody => new = Instance(o)
  OBVIOUS
<1>5. \/ o # nobody /\ call(Counted(argc + 1, 1), With(s, argc, new), argc, {"init"}, o)
      \/ argc = 0 /\ Finish(Counted(argc + 1, 1), With(s, argc, new))
      \/ argc # 0 /\ call_error
  BY <1>1
<1> HIDE DEF new
<1>6. CASE o # nobody /\ call(Counted(argc + 1, 1), With(s, argc, new), argc, {"init"}, o)
  <2>1. o # nobody => With(s, argc, new)[Len(With(s, argc, new)) - argc] = Instance(o)
    BY <1>3, <1>4
  <2>2. {"init"} \in SUBSET {"fn", "init"}
    OBVIOUS
  <2> QED BY <1>3, <1>6, <2>1, <2>2, OperandsCall
<1>7. CASE argc = 0 /\ Finish(Counted(argc + 1, 1), With(s, argc, new))
  <2>1. /\ argc + 1 \in Nat /\ argc + 1 <= Len(stack) /\ Compiled(argc + 1, 1)
        /\ With(s, argc, new) \in Seq(Cells)
        /\ Len(With(s, argc, new)) = Len(stack) - (argc + 1) + 1
        /\ \A i \in 1..(Len(stack) - (argc + 1)) : With(s, argc, new)[i] = stack[i]
    BY <1>3, <1>7 DEF Operands
  <2>2. Steps(argc + 1, 1)
    BY <1>7, <2>1, FinishSteps
  <2> QED BY <2>1, <2>2 DEF Called
<1>8. CASE call_error
  BY <1>8, StopSteps DEF call_error, Operands, Called
<1> QED BY <1>5, <1>6, <1>7, <1>8

\* call_value, whatever is called.
LEMMA ValueCalls ==
  ASSUME TypeOK, NEW s, NEW argc, Operands(s, argc), NEW callee \in Cells,
         call_value(Counted(argc + 1, 1), s, callee, argc)
  PROVE  Called
<1> DEFINE fs == Counted(argc + 1, 1)
<1> HIDE DEF fs
<1>1. \/ call(fs, s, argc, {"fn", "init"}, nobody)
      \/ call_bound(fs, s, callee, argc)
      \/ call_class(fs, s, argc)
      \/ call_native(fs, s, argc)
      \/ Finish(fs, SubSeq(s, 1, Len(s) - argc - 1) \o <<Value("struct")>>)
      \/ call_error
  BY DEF call_value, fs
<1>2. {"fn", "init"} \in SUBSET {"fn", "init"}
  OBVIOUS
<1>3. CASE call(fs, s, argc, {"fn", "init"}, nobody)
  BY <1>2, <1>3, OperandsCall DEF fs
<1>4. CASE call_bound(fs, s, callee, argc)
  <2>1. callee.of \in Instances \cup {nobody} /\ Instance(callee.of) \in Cells
    BY DEF Cells, Instance
  <2>2. /\ Operands(With(s, argc, Instance(callee.of)), argc)
        /\ With(s, argc, Instance(callee.of))[Len(With(s, argc, Instance(callee.of))) - argc]
             = Instance(callee.of)
    BY <2>1, WithFacts
  <2> QED BY <1>2, <1>4, <2>1, <2>2, OperandsCall DEF call_bound, fs
<1>5. CASE call_class(fs, s, argc)
  BY <1>5, ClassCalls DEF fs
<1>6. CASE call_native(fs, s, argc)
  BY <1>6, NativeCalls DEF fs
<1>7. CASE Finish(fs, SubSeq(s, 1, Len(s) - argc - 1) \o <<Value("struct")>>)
  <2>1. Value("struct") \in Cells
    BY DEF Value, Cells, AllKinds
  <2> QED BY <1>7, <2>1, AnswerFacts DEF fs
<1>8. CASE call_error
  BY <1>8, StopSteps DEF call_error, Operands, Called
<1> QED BY <1>1, <1>3, <1>4, <1>5, <1>6, <1>7, <1>8
\* The instructions that call.
calls == op_call \/ op_invoke \/ op_super_invoke \/ op_layer_property_call

\* The four instructions that call.
LEMMA CallSteps ==
  ASSUME TypeOK, Strays = {}, calls
  PROVE  Called
<1>a. stack \in Seq(Cells) /\ Len(stack) \in Nat
  BY DEF TypeOK, Cells
<1>b. ASSUME NEW argc \in 0..ArgsMax, Compiled(argc + 1, 1), Len(stack) >= argc + 1
      PROVE  Operands(stack, argc) /\ peek(argc) \in Cells
  <2>1. argc \in Nat /\ argc < Len(stack) /\ argc + 1 <= Len(stack)
    BY <1>a, <1>b, BoundsAssumption
  <2>2. peek(argc) \in Cells
    BY <1>a, <2>1, PeekFacts
  <2> QED BY <1>a, <1>b, <2>1, <2>2 DEF Operands
<1>c. ASSUME NEW n \in Nat, Compiled(n, 1), NEW k, Starved(k) PROVE Called
  <2>1. PICK p \in {"aborted", "lost"} : Stop(p)
    BY <1>c DEF Starved
  <2>2. 1 \in Nat
    OBVIOUS
  <2>3. Steps(n, 1)
    BY <1>c, <2>1, <2>2, StopSteps
  <2> QED BY <2>2, <2>3 DEF Called
<1>d. ASSUME NEW n \in Nat, Compiled(n, 1), Stop("lost") PROVE Called
  <2>1. Steps(n, 1)
    BY <1>d, StopSteps
  <2> QED BY <2>1 DEF Called
<1>1. CASE op_call
  <2>1. PICK argc \in 0..ArgsMax :
          /\ Compiled(argc + 1, 1)
          /\ \/ Starved(argc + 1)
             \/ /\ Len(stack) >= argc + 1
                /\ call_value(Counted(argc + 1, 1), stack, peek(argc), argc)
    BY <1>1 DEF op_call
  <2>2. argc + 1 \in Nat
    BY BoundsAssumption
  <2>3. CASE Starved(argc + 1)
    BY <1>c, <2>1, <2>2, <2>3
  <2>4. CASE Len(stack) >= argc + 1 /\ call_value(Counted(argc + 1, 1), stack, peek(argc), argc)
    <3>1. Operands(stack, argc) /\ peek(argc) \in Cells
      BY <1>b, <2>1, <2>4
    <3> QED BY <2>4, <3>1, ValueCalls
  <2> QED BY <2>1, <2>3, <2>4
<1>2. CASE op_invoke
  <2> DEFINE fs(argc) == Counted(argc + 1, 1)
  <2> HIDE DEF fs
  <2>1. PICK argc \in 0..ArgsMax :
          /\ Compiled(argc + 1, 1)
          /\ \/ Starved(argc + 1)
             \/ /\ Len(stack) >= argc + 1
                /\ \/ \E v \in Values : call_value(fs(argc), With(stack, argc, v), v, argc)
                   \/ peek(argc).kind = "instance"
                      /\ call(fs(argc), stack, argc, {"fn", "init"}, peek(argc).of)
                   \/ call_native(fs(argc), stack, argc)
                   \/ call_error
    BY <1>2 DEF op_invoke, fs
  <2>2. argc + 1 \in Nat
    BY BoundsAssumption
  <2>3. CASE Starved(argc + 1)
    BY <1>c, <2>1, <2>2, <2>3
  <2>4. CASE Len(stack) >= argc + 1
    <3>1. Operands(stack, argc) /\ peek(argc) \in Cells
      BY <1>b, <2>1, <2>4
    <3>2. ASSUME NEW v \in Values, call_value(fs(argc), With(stack, argc, v), v, argc) PROVE Called
      <4>1. v \in Cells
        BY ValuesAreCells
      <4>2. Operands(With(stack, argc, v), argc)
        BY <3>1, <4>1, WithFacts
      <4> QED BY <3>2, <4>1, <4>2, ValueCalls DEF fs
    <3>3. ASSUME peek(argc).kind = "instance",
                 call(fs(argc), stack, argc, {"fn", "init"}, peek(argc).of)
          PROVE  Called
      <4>1. peek(argc).of \in Instances \cup {nobody} /\ peek(argc) = Instance(peek(argc).of)
        BY <3>1, <3>3 DEF Cells, Instance
      <4>2. stack[Len(stack) - argc] = Instance(peek(argc).of) /\ {"fn", "init"} \in SUBSET {"fn", "init"}
        BY <4>1 DEF peek
      <4> QED BY <3>1, <3>3, <4>1, <4>2, OperandsCall DEF fs
    <3>4. ASSUME call_native(fs(argc), stack, argc) PROVE Called
      BY <3>1, <3>4, NativeCalls DEF fs
    <3>5. ASSUME call_error PROVE Called
      BY <1>d, <2>1, <2>2, <3>5 DEF call_error
    <3> QED BY <2>1, <2>3, <3>2, <3>3, <3>4, <3>5
  <2> QED BY <2>1, <2>3, <2>4
<1>3. CASE op_super_invoke
  <2>1. PICK argc \in 0..ArgsMax :
          /\ Compiled(argc + 2, 1)
          /\ \/ Starved(argc + 2)
             \/ /\ Len(stack) >= argc + 2
                /\ IF peek(0).kind = "class"
                     THEN call(Counted(argc + 2, 1), Below(1), argc, {"fn", "init"},
                               Receiver(peek(argc + 1)))
                     ELSE Stop("lost")
    BY <1>3 DEF op_super_invoke
  <2>2. argc \in Nat /\ argc + 2 \in Nat
    BY BoundsAssumption
  <2>3. CASE Starved(argc + 2)
    BY <1>c, <2>1, <2>2, <2>3
  <2>4. CASE Stop("lost")
    BY <1>d, <2>1, <2>2, <2>4
  <2>5. CASE Len(stack) >= argc + 2
             /\ call(Counted(argc + 2, 1), Below(1), argc, {"fn", "init"}, Receiver(peek(argc + 1)))
    <3>1. argc + 1 \in Nat /\ argc + 1 < Len(stack) /\ 1 \in 0..Len(stack)
      BY <1>a, <2>2, <2>5
    <3>2. peek(argc + 1) \in Cells
      BY <1>a, <3>1, PeekFacts
    <3>3. /\ Below(1) \in Seq(Cells) /\ Len(Below(1)) = Len(stack) - 1
          /\ \A q \in 1..(Len(stack) - 1) : Below(1)[q] = stack[q]
      BY <1>a, <3>1, BelowFacts
    <3> DEFINE self == Receiver(peek(argc + 1))
    <3>4. self \in Instances \cup {nobody}
      BY <3>2 DEF Receiver, Cells
    <3>5. self # nobody => peek(argc + 1) = Instance(self)
      BY <3>2 DEF Receiver, Cells, Instance
    <3> HIDE DEF self
    <3>6. Len(Below(1)) - argc = Len(stack) - (argc + 1)
          /\ Len(stack) - (argc + 1) \in 1..(Len(stack) - 1)
      BY <1>a, <2>2, <3>1, <3>3
    <3>7. Below(1)[Len(Below(1)) - argc] = peek(argc + 1)
      BY <3>3, <3>6 DEF peek
    <3>8. Len(Below(1)) = Len(stack) - (argc + 2) + argc + 1 /\ argc + 2 >= argc + 1
          /\ argc + 2 <= Len(stack)
      BY <1>a, <2>2, <2>5, <3>3
    <3>9. \A q \in 1..(Len(stack) - (argc + 2)) : Below(1)[q] = stack[q]
      BY <1>a, <2>2, <3>3
    <3>10. call(Counted(argc + 2, 1), Below(1), argc, {"fn", "init"}, self)
      BY <2>5 DEF self
    <3>11. self # nobody => Below(1)[Len(Below(1)) - argc] = Instance(self)
      BY <3>5, <3>7
    <3>12. {"fn", "init"} \in SUBSET {"fn", "init"}
      OBVIOUS
    <3> QED BY <2>1, <2>2, <3>3, <3>4, <3>8, <3>9, <3>10, <3>11, <3>12, CallEnters
  <2> QED BY <2>1, <2>3, <2>4, <2>5
<1>4. CASE op_layer_property_call
  <2> DEFINE fs(argc) == Counted(argc + 1, 1)
  <2> HIDE DEF fs
  <2>1. PICK argc \in 0..ArgsMax :
          /\ Compiled(argc + 1, 1)
          /\ \/ Starved(argc + 1)
             \/ /\ Len(stack) >= argc + 1
                /\ \/ \E m \in {Value("closure"), Value("native")} :
                        call_value(fs(argc), With(stack, argc, m), m, argc)
                   \/ call_error
                   \/ Finish(fs(argc), Below(argc + 1) \o <<Value("enum_instance")>>)
                   \/ Stop("lost")
                   \/ argc = 0 /\ Finish(fs(argc), stack)
    BY <1>4 DEF op_layer_property_call, fs
  <2>2. argc + 1 \in Nat
    BY BoundsAssumption
  <2>3. CASE Starved(argc + 1)
    BY <1>c, <2>1, <2>2, <2>3
  <2>4. CASE Len(stack) >= argc + 1
    <3>1. Operands(stack, argc)
      BY <1>b, <2>1, <2>4
    <3>2. ASSUME NEW m \in {Value("closure"), Value("native")},
                 call_value(fs(argc), With(stack, argc, m), m, argc)
          PROVE  Called
      <4>1. m \in Cells
        BY DEF Value, Cells, AllKinds
      <4>2. Operands(With(stack, argc, m), argc)
        BY <3>1, <4>1, WithFacts
      <4> QED BY <3>2, <4>1, <4>2, ValueCalls DEF fs
    <3>3. ASSUME call_error \/ Stop("lost") PROVE Called
      BY <1>d, <2>1, <2>2, <3>3 DEF call_error
    <3>4. ASSUME Finish(fs(argc), Below(argc + 1) \o <<Value("enum_instance")>>) PROVE Called
      <4>1. Value("enum_instance") \in Cells
        BY DEF Value, Cells, AllKinds
      <4>2. Below(argc + 1) = SubSeq(stack, 1, Len(stack) - argc - 1)
        BY <1>a DEF Below
      <4>3. Finish(Counted(argc + 1, 1), SubSeq(stack, 1, Len(stack) - argc - 1) \o <<Value("enum_instance")>>)
        BY <3>4, <4>2 DEF fs
      <4> QED BY <3>1, <4>1, <4>3, AnswerFacts
    <3>5. ASSUME argc = 0, Finish(fs(argc), stack) PROVE Called
      <4>1. Len(stack) = Len(stack) - (argc + 1) + 1 /\ argc + 1 <= Len(stack)
        BY <1>a, <2>2, <2>4, <3>5
      <4>2. Finish(Counted(argc + 1, 1), stack)
        BY <3>5 DEF fs
      <4>3. Steps(argc + 1, 1)
        BY <1>a, <2>1, <2>2, <4>1, <4>2, FinishSteps
      <4> QED BY <2>2, <4>3 DEF Called
    <3> QED BY <2>1, <2>3, <3>2, <3>3, <3>4, <3>5
  <2> QED BY <2>1, <2>3, <2>4
<1> QED BY <1>1, <1>2, <1>3, <1>4 DEF calls
-----------------------------------------------------------------------------
(* The invariant is kept.                                                  *)

\* The frame that runs, and the frames as the compiler counts on them next.
LEMMA CountedFacts ==
  ASSUME TypeOK, NEW n \in Nat, NEW m \in Nat, Compiled(n, m)
  PROVE  /\ fp \in 1..FramesMax
         /\ frames[fp].slots \in 0..StackMax
         /\ frames[fp].height \in 0..HeightMax /\ frames[fp].height > n
         /\ Counted(n, m) \in [1..FramesMax -> FrameRecords]
         /\ Counted(n, m)[fp].height = frames[fp].height - n + m
         /\ \A f \in 1..FramesMax : /\ Counted(n, m)[f].slots = frames[f].slots
                                    /\ Counted(n, m)[f].self = frames[f].self
                                    /\ f # fp => Counted(n, m)[f].height = frames[f].height
<1>1. fp \in 1..FramesMax /\ frames \in [1..FramesMax -> FrameRecords]
  BY FramesAssumption DEF TypeOK, Compiled, FrameRecords
<1>2. HeightMax \in Nat
  BY StackAssumption DEF HeightMax
<1>3. frames[fp].slots \in 0..StackMax /\ frames[fp].height \in 0..HeightMax
  BY <1>1 DEF FrameRecords
<1>4. frames[fp].height > n /\ frames[fp].height - n + m \in 0..HeightMax
  BY <1>2, <1>3 DEF Compiled
<1>6. Counted(n, m) \in [1..FramesMax -> FrameRecords]
  BY <1>1, <1>4 DEF Counted, FrameRecords
<1>7. Counted(n, m)[fp].height = frames[fp].height - n + m
  BY <1>1 DEF Counted, FrameRecords
<1> DEFINE c == Counted(n, m)
<1>8. c \in [1..FramesMax -> FrameRecords] /\ c[fp].height = frames[fp].height - n + m
  BY <1>6, <1>7
<1>9. ASSUME NEW f \in 1..FramesMax
      PROVE  /\ c[f].slots = frames[f].slots
             /\ c[f].self = frames[f].self
             /\ f # fp => c[f].height = frames[f].height
  BY <1>1 DEF Counted, FrameRecords
<1> HIDE DEF c
<1>10. \A f \in 1..FramesMax : /\ c[f].slots = frames[f].slots
                               /\ c[f].self = frames[f].self
                               /\ f # fp => c[f].height = frames[f].height
  BY <1>9
<1>11. frames[fp].height > n
  BY <1>4
<1>12. /\ fp \in 1..FramesMax
       /\ frames[fp].slots \in 0..StackMax
       /\ frames[fp].height \in 0..HeightMax /\ frames[fp].height > n
       /\ c \in [1..FramesMax -> FrameRecords]
       /\ c[fp].height = frames[fp].height - n + m
  BY <1>1, <1>3, <1>8, <1>11
<1> QED BY <1>10, <1>12 DEF c

\* The end of the process.
LEMMA StopKeeps ==
  ASSUME TypeOK, NEW p \in {"aborted", "lost"}, Stop(p), followed' \in 0..FollowMax
  PROVE  IInv'
<1>1. frames' \in [1..FramesMax -> FrameRecords] /\ stack' \in Seq(Cells) /\ Len(stack') = 0
  BY FramesAssumption, StackAssumption DEF Stop, NoFrames, Blank, Frame, FrameRecords, HeightMax
<1>2. phase' = p /\ frame_count' = 0 /\ fp' = 0 /\ failed' = failed
  BY DEF Stop
<1>3. TypeOK'
  BY <1>1, <1>2, FramesAssumption, StackAssumption DEF TypeOK, Cells, FrameRecords
<1>4. phase' # "run"
  BY <1>2
<1> QED BY <1>3, <1>4 DEF IInv, FramesInv, HeightIsCompiled, ReceiverIsSelf

\* An error resets the stack and leaves the loop's frame in place.
LEMMA ErrorKeeps ==
  ASSUME IInv, NEW n \in Nat, NEW m \in Nat, Compiled(n, m), runtime_error, Follow(n, m),
         followed' \in 0..FollowMax
  PROVE  IInv'
<1>1. /\ stack' = <<>> /\ frame_count' = 0 /\ failed' = TRUE /\ fp' = fp /\ phase' = phase
      /\ phase = "run" /\ frames' = Counted(n, m)
  BY DEF runtime_error, Follow, Compiled
<1>2. fp \in 1..FramesMax /\ Counted(n, m) \in [1..FramesMax -> FrameRecords]
      /\ Counted(n, m)[fp].slots = frames[fp].slots
  BY CountedFacts DEF IInv
<1>3. TypeOK'
  <2>1. stack' \in Seq(Cells) /\ Len(stack') <= StackMax /\ frame_count' \in 0..FramesMax
    BY <1>1, FramesAssumption, StackAssumption
  <2>2. frames' \in [1..FramesMax -> FrameRecords]
    BY <1>1, <1>2
  <2> QED BY <1>1, <2>1, <2>2 DEF IInv, TypeOK, Cells, FrameRecords
<1>4. FramesInv'
  BY <1>1, <1>2 DEF IInv, FramesInv
<1> QED BY <1>1, <1>3, <1>4 DEF IInv, HeightIsCompiled, ReceiverIsSelf

\* An exchange of cells moves the height as far as the code counts on.
LEMMA ExchangeKeeps ==
  ASSUME IInv, NEW n \in Nat, NEW m \in Nat, Compiled(n, m), Exchanged(n, m), Follow(n, m),
         followed' \in 0..FollowMax
  PROVE  IInv'
<1>1. /\ frame_count' = frame_count /\ failed' = failed /\ fp' = fp /\ phase' = phase
      /\ phase = "run" /\ frames' = Counted(n, m)
      /\ stack' \in Seq(Cells) /\ Len(stack') <= StackMax /\ Len(stack') = Len(stack) - n + m
      /\ Len(stack) >= n
  BY DEF Exchanged, Follow, Compiled
<1>2. /\ fp \in 1..FramesMax
      /\ frames[fp].slots \in Nat
      /\ frames[fp].height \in Nat /\ frames[fp].height > n
      /\ Counted(n, m) \in [1..FramesMax -> FrameRecords]
      /\ Counted(n, m)[fp].height = frames[fp].height - n + m
      /\ \A f \in 1..FramesMax : /\ Counted(n, m)[f].slots = frames[f].slots
                                 /\ Counted(n, m)[f].self = frames[f].self
                                 /\ f # fp => Counted(n, m)[f].height = frames[f].height
  BY CountedFacts, StackAssumption DEF IInv, HeightMax
<1>3. frame_count \in 0..FramesMax /\ \A f \in 1..frame_count : f \in 1..FramesMax
  BY FramesAssumption DEF IInv, TypeOK
<1>4. TypeOK'
  BY <1>1, <1>2 DEF IInv, TypeOK, Cells, FrameRecords
<1>5. FramesInv'
  BY <1>1, <1>2, <1>3 DEF IInv, FramesInv
<1>6. HeightIsCompiled'
  <2>1. SUFFICES ASSUME ~ failed PROVE /\ fp = frame_count
                     /\ Len(stack') = frames'[fp].slots + frames'[fp].height - 1
                     /\ \A f \in 2..frame_count : frames'[f].slots = frames'[f - 1].slots + frames'[f - 1].height - 1
    BY <1>1 DEF HeightIsCompiled
  <2>2. /\ fp = frame_count
        /\ Len(stack) = frames[fp].slots + frames[fp].height - 1
        /\ \A f \in 2..frame_count : frames[f].slots = frames[f - 1].slots + frames[f - 1].height - 1
    BY <1>1, <2>1 DEF IInv, HeightIsCompiled
  <2>3. Len(stack') = frames'[fp].slots + frames'[fp].height - 1
    <3>1. frames'[fp].slots = frames[fp].slots /\ frames'[fp].height = frames[fp].height - n + m
      BY <1>1, <1>2
    <3>2. \A a, b, c, d \in Int : a = b + c - 1 => a - n + m = b + (c - n + m) - 1
      BY n \in Int, m \in Int
    <3>3. Len(stack) \in Int /\ frames[fp].slots \in Int /\ frames[fp].height \in Int
      BY <1>2, <2>2
    <3>4. Len(stack) - n + m = frames[fp].slots + (frames[fp].height - n + m) - 1
      BY <2>2, <3>2, <3>3
    <3> QED BY <1>1, <3>1, <3>4
  <2>4. ASSUME NEW f \in 2..frame_count
        PROVE  frames'[f].slots = frames'[f - 1].slots + frames'[f - 1].height - 1
    <3>1. f \in 1..FramesMax /\ f - 1 \in 1..FramesMax /\ f - 1 # fp
      BY <1>3, <2>2
    <3> QED BY <1>1, <1>2, <2>2, <3>1
  <2> QED BY <2>2, <2>3, <2>4
<1>7. ReceiverIsSelf'
  <2>1. SUFFICES ASSUME ~ failed, NEW f \in 1..frame_count, frames[f].self # nobody
                 PROVE  stack'[frames[f].slots] = Instance(frames[f].self)
    BY <1>1, <1>2, <1>3 DEF ReceiverIsSelf
  <2>2. stack[frames[f].slots] = Instance(frames[f].self)
    BY <1>1, <2>1 DEF IInv, ReceiverIsSelf
  <2>3. fp = frame_count /\ Len(stack) = frames[fp].slots + frames[fp].height - 1
    BY <1>1, <2>1 DEF IInv, HeightIsCompiled
  <2>4. f \in 1..FramesMax /\ frames[f].slots \in Nat /\ frames[f].slots >= 1
    <3>1. f \in 1..FramesMax
      BY <1>3
    <3>2. frames[f].slots \in 0..StackMax
      BY <3>1 DEF IInv, TypeOK
    <3>3. frames[f].slots >= 1
      BY <1>1 DEF IInv, FramesInv
    <3> QED BY <3>1, <3>2, <3>3, StackAssumption
  <2>5. f = fp \/ frames[f].slots < frames[fp].slots
    BY <1>1, <1>3, <2>1, <2>3 DEF IInv, FramesInv
  <2>6. frames[f].slots \in 1..(Len(stack) - n)
    <3>1. frames[f].slots <= frames[fp].slots
      BY <1>2, <2>4, <2>5
    <3>2. \A a, b, c, d \in Nat : a >= 1 /\ a <= b /\ c > n /\ d = b + c - 1 => a \in 1..(d - n)
      OBVIOUS
    <3>3. Len(stack) \in Nat
      BY DEF IInv, TypeOK
    <3> QED BY <1>2, <2>3, <2>4, <3>1, <3>2, <3>3
  <2> QED BY <2>1, <2>2, <2>6 DEF Exchanged
<1> QED BY <1>4, <1>5, <1>6, <1>7 DEF IInv

\* Any instruction without a call.
LEMMA StepsKeep ==
  ASSUME IInv, NEW n \in Nat, NEW m \in Nat, Steps(n, m), followed' \in 0..FollowMax
  PROVE  IInv'
<1>1. CASE Stops
  BY <1>1, StopKeeps DEF Stops, IInv
<1>2. CASE runtime_error
  BY <1>2, ErrorKeeps DEF Steps
<1>3. CASE Exchanged(n, m)
  BY <1>3, ExchangeKeeps DEF Steps
<1> QED BY <1>1, <1>2, <1>3 DEF Steps, Stepped

\* A frame on top of the others.
LEMMA EnteredKeeps ==
  ASSUME IInv, NEW n \in Nat, NEW argc \in Nat, Entered(n, argc), followed' \in 0..FollowMax
  PROVE  IInv'
<1> DEFINE new(fn, self) == Frame(Len(stack') - argc, argc + 1, fn, self)
<1>1. PICK fn \in {"fn", "init"}, self \in Instances \cup {nobody} :
       /\ stack' \in Seq(Cells) /\ Len(stack') = Len(stack) - n + argc + 1
       /\ \A i \in 1..(Len(stack) - n) : stack'[i] = stack[i]
       /\ self # nobody => stack'[Len(stack') - argc] = Instance(self)
       /\ frames' = [i \in 1..FramesMax |->
                       CASE i <= frame_count     -> Counted(n, 1)[i]
                         [] i = frame_count + 1  -> new(fn, self)
                         [] i > frame_count + 1  -> Blank]
       /\ frame_count' = frame_count + 1 /\ fp' = frame_count + 1
       /\ UNCHANGED <<phase, failed>>
  BY DEF Entered
<1>2. n >= argc + 1 /\ Compiled(n, 1) /\ n <= Len(stack) /\ frame_count < FramesMax /\ phase = "run"
  BY DEF Entered, Compiled
<1>3. /\ fp \in 1..FramesMax
      /\ frames[fp].slots \in Nat
      /\ frames[fp].height \in Nat /\ frames[fp].height > n
      /\ Counted(n, 1) \in [1..FramesMax -> FrameRecords]
      /\ Counted(n, 1)[fp].height = frames[fp].height - n + 1
      /\ \A f \in 1..FramesMax : /\ Counted(n, 1)[f].slots = frames[f].slots
                                 /\ Counted(n, 1)[f].self = frames[f].self
                                 /\ f # fp => Counted(n, 1)[f].height = frames[f].height
  BY <1>2, CountedFacts, StackAssumption DEF IInv, HeightMax
<1>4. frame_count \in Nat /\ frame_count + 1 \in 1..FramesMax /\ Len(stack) \in Nat /\ Len(stack) <= StackMax
      /\ FramesMax \in Nat
  BY <1>2, FramesAssumption DEF IInv, TypeOK
<1>5. Len(stack') \in Nat /\ Len(stack') <= StackMax /\ Len(stack') - argc \in 1..StackMax
      /\ argc + 1 \in 0..HeightMax
  BY <1>1, <1>2, <1>4, StackAssumption DEF HeightMax
<1>6. new(fn, self) \in FrameRecords /\ Blank \in FrameRecords
  BY <1>5, StackAssumption DEF Frame, FrameRecords, Blank, HeightMax
<1>7. frames' \in [1..FramesMax -> FrameRecords]
  <2>1. ASSUME NEW i \in 1..FramesMax
        PROVE  (CASE i <= frame_count     -> Counted(n, 1)[i]
                  [] i = frame_count + 1  -> new(fn, self)
                  [] i > frame_count + 1  -> Blank) \in FrameRecords
    <3>1. Counted(n, 1)[i] \in FrameRecords
      BY <1>3
    <3>2. i <= frame_count \/ i = frame_count + 1 \/ i > frame_count + 1
      BY <1>4
    <3> HIDE DEF new
    <3> QED BY <1>4, <1>6, <3>1, <3>2
  <2> HIDE DEF new
  <2> QED BY <1>1, <2>1
<1>8. frames'[frame_count + 1] = new(fn, self)
  BY <1>1, <1>4
<1>9. \A f \in 1..frame_count : f \in 1..FramesMax /\ frames'[f] = Counted(n, 1)[f]
  <2>1. SUFFICES ASSUME NEW f \in 1..frame_count
                 PROVE  f \in 1..FramesMax /\ frames'[f] = Counted(n, 1)[f]
    OBVIOUS
  <2>2. f \in 1..FramesMax /\ f <= frame_count /\ f # frame_count + 1 /\ ~ f > frame_count + 1
    BY <1>4
  <2> HIDE DEF new
  <2> QED BY <1>1, <2>2
<1>10. new(fn, self).slots = Len(stack') - argc /\ new(fn, self).height = argc + 1
       /\ new(fn, self).self = self
  BY DEF Frame
<1> HIDE DEF new
<1>11. frame_count' = frame_count + 1 /\ fp' = frame_count + 1 /\ phase' = "run" /\ failed' = failed
       /\ \A f \in 1..frame_count' : f = frame_count + 1 \/ f \in 1..frame_count
  BY <1>1, <1>2, <1>4
<1>12. TypeOK'
  <2>1. stack' \in Seq(Cells) /\ frame_count' \in 0..FramesMax /\ fp' \in 0..FramesMax /\ fp' # 0
    BY <1>1, <1>4
  <2> QED BY <1>5, <1>7, <1>11, <2>1 DEF IInv, TypeOK, Cells, FrameRecords
<1>13. ~ failed => /\ fp = frame_count
                   /\ Len(stack) = frames[fp].slots + frames[fp].height - 1
                   /\ frames[fp].slots < Len(stack') - argc
                   /\ frames[fp].slots <= Len(stack) - n
  <2>1. SUFFICES ASSUME ~ failed PROVE /\ fp = frame_count
                   /\ Len(stack) = frames[fp].slots + frames[fp].height - 1
                   /\ frames[fp].slots < Len(stack') - argc
                   /\ frames[fp].slots <= Len(stack) - n
    OBVIOUS
  <2>2. fp = frame_count /\ Len(stack) = frames[fp].slots + frames[fp].height - 1
    BY <1>2, <2>1 DEF IInv, HeightIsCompiled
  <2>3. \A a, b, c, d, e \in Nat : a = b + c - 1 /\ c > n /\ n >= argc + 1 /\ d = a - n + argc + 1
                                  => b < d - argc /\ b <= a - n
    OBVIOUS
  <2> QED BY <1>1, <1>2, <1>3, <1>4, <1>5, <2>2, <2>3
<1>14. ~ failed => \A f \in 1..frame_count : frames[f].slots \in Nat /\ frames[f].slots <= frames[fp].slots
  <2>1. SUFFICES ASSUME ~ failed, NEW f \in 1..frame_count
                 PROVE  frames[f].slots \in Nat /\ frames[f].slots <= frames[fp].slots
    OBVIOUS
  <2>2. f \in 1..FramesMax /\ frames[f].slots \in Nat /\ frame_count \in 1..frame_count
    <3>1. f \in 1..FramesMax /\ frame_count \in 1..frame_count
      BY <1>4
    <3>2. frames[f].slots \in 0..StackMax
      BY <3>1 DEF IInv, TypeOK
    <3> QED BY <3>1, <3>2, StackAssumption
  <2>3. f = fp \/ frames[f].slots < frames[fp].slots
    BY <1>2, <1>4, <1>13, <2>1, <2>2 DEF IInv, FramesInv
  <2> QED BY <1>3, <2>2, <2>3
<1>15. FramesInv'
  <2>1. \A f \in 1..frame_count : frames'[f].slots = frames[f].slots /\ frames[f].slots >= 1
    BY <1>2, <1>3, <1>9 DEF IInv, FramesInv
  <2>2. \A f \in 1..frame_count' : frames'[f].slots >= 1
    BY <1>5, <1>8, <1>10, <1>11, <2>1
  <2>3. ASSUME ~ failed, NEW f \in 1..frame_count', NEW g \in 1..frame_count', f < g
        PROVE  frames'[f].slots < frames'[g].slots
    <3>1. f \in 1..frame_count
      BY <1>4, <1>11, <2>3
    <3>2. CASE g = frame_count + 1
      <4>1. frames[f].slots \in Nat /\ frames[f].slots <= frames[fp].slots
        BY <1>14, <2>3, <3>1
      <4>2. frames'[g].slots = Len(stack') - argc /\ frames'[f].slots = frames[f].slots
        BY <1>8, <1>10, <2>1, <3>1, <3>2
      <4>3. frames[fp].slots < Len(stack') - argc /\ Len(stack') - argc \in Nat
        BY <1>5, <1>13, <2>3
      <4> QED BY <1>3, <4>1, <4>2, <4>3
    <3>3. CASE g \in 1..frame_count
      BY <1>2, <2>1, <2>3, <3>1, <3>3 DEF IInv, FramesInv
    <3> QED BY <1>11, <3>2, <3>3
  <2>4. frames'[fp'].slots >= 1
    BY <1>4, <1>11, <2>2
  <2> QED BY <1>11, <2>2, <2>3, <2>4 DEF FramesInv
<1>16. HeightIsCompiled'
  <2>1. Len(stack') = frames'[fp'].slots + frames'[fp'].height - 1
    BY <1>5, <1>8, <1>10, <1>11
  <2>2. ASSUME ~ failed, NEW f \in 2..frame_count'
        PROVE  frames'[f].slots = frames'[f - 1].slots + frames'[f - 1].height - 1
    <3>1. f - 1 \in 1..frame_count /\ f - 1 \in 1..FramesMax
      <4>1. f \in 2..(frame_count + 1)
        BY <1>1, <2>2
      <4> QED BY <1>4, <4>1
    <3>2. CASE f = frame_count + 1
      <4>1. f - 1 = fp
        BY <1>4, <1>13, <2>2, <3>2
      <4>2. frames'[f - 1].slots = frames[fp].slots /\ frames'[f - 1].height = frames[fp].height - n + 1
        BY <1>3, <1>9, <3>1, <4>1
      <4>3. frames'[f].slots = Len(stack') - argc
        BY <1>8, <1>10, <3>2
      <4>4. \A a, b, c, d \in Nat : a = b + c - 1 /\ d = a - n + argc + 1
                                  => d - argc = b + (c - n + 1) - 1
        OBVIOUS
      <4>5. Len(stack) = frames[fp].slots + frames[fp].height - 1
        BY <1>13, <2>2
      <4>6. Len(stack') - argc = frames[fp].slots + (frames[fp].height - n + 1) - 1
        <5>1. Len(stack') = Len(stack) - n + argc + 1
          BY <1>1
        <5>2. /\ Len(stack) \in Nat /\ Len(stack') \in Nat
              /\ frames[fp].slots \in Nat /\ frames[fp].height \in Nat
          BY <1>3, <1>4, <1>5
        <5>3. PICK a, b, c, d \in Nat : /\ a = Len(stack) /\ d = Len(stack')
                                       /\ b = frames[fp].slots /\ c = frames[fp].height
          BY <5>2
        <5>4. a = b + c - 1 /\ d = a - n + argc + 1
          BY <4>5, <5>1, <5>3
        <5>5. d - argc = b + (c - n + 1) - 1
          BY <4>4, <5>4
        <5> QED BY <5>3, <5>5
      <4> QED BY <4>2, <4>3, <4>6
    <3>3. CASE f \in 1..frame_count
      <4>1. f \in 1..FramesMax /\ f \in 2..frame_count /\ f - 1 # fp
        <5>1. fp = frame_count /\ f \in 2..frame_count'
          BY <1>13, <2>2
        <5>2. f \in 2..frame_count /\ f <= frame_count
          BY <1>4, <1>11, <3>3, <5>1
        <5> QED BY <1>4, <5>1, <5>2
      <4>2. frames[f].slots = frames[f - 1].slots + frames[f - 1].height - 1
        BY <1>2, <2>2, <4>1 DEF IInv, HeightIsCompiled
      <4> QED BY <1>3, <1>9, <3>1, <3>3, <4>1, <4>2
    <3> QED BY <1>4, <1>11, <3>2, <3>3
  <2> QED BY <1>11, <2>1, <2>2 DEF HeightIsCompiled
<1>17. ReceiverIsSelf'
  <2>1. SUFFICES ASSUME ~ failed, NEW f \in 1..frame_count', frames'[f].self # nobody
                 PROVE  stack'[frames'[f].slots] = Instance(frames'[f].self)
    BY <1>11 DEF ReceiverIsSelf
  <2>2. CASE f = frame_count + 1
    BY <1>1, <1>8, <1>10, <2>1, <2>2
  <2>3. CASE f \in 1..frame_count
    <3>1. frames'[f].slots = frames[f].slots /\ frames'[f].self = frames[f].self
      BY <1>3, <1>9, <2>3
    <3>2. stack[frames[f].slots] = Instance(frames[f].self)
      BY <1>2, <2>1, <2>3, <3>1 DEF IInv, ReceiverIsSelf
    <3>3. frames[f].slots \in 1..(Len(stack) - n)
      <4>1. frames[f].slots >= 1
        BY <1>2, <2>3 DEF IInv, FramesInv
      <4>2. /\ frames[f].slots \in Nat /\ frames[f].slots <= frames[fp].slots
            /\ frames[fp].slots <= Len(stack) - n
        BY <1>13, <1>14, <2>1, <2>3
      <4> QED BY <1>3, <1>4, <4>1, <4>2
    <3> QED BY <1>1, <3>1, <3>2, <3>3
  <2> QED BY <1>11, <2>2, <2>3
<1> QED BY <1>12, <1>15, <1>16, <1>17 DEF IInv
\* Any instruction that calls.
LEMMA CalledKeeps ==
  ASSUME IInv, Called, followed' \in 0..FollowMax
  PROVE  IInv'
BY StepsKeep, EnteredKeeps DEF Called

\* A frame less, and its answer where the caller expects it.
LEMMA ReturnedKeeps ==
  ASSUME IInv, phase = "run", Len(stack) >= 1, returned, followed' \in 0..FollowMax
  PROVE  IInv'
<1>1. frame_count > 0 /\ Slot(0) <= Len(stack)
  BY DEF returned
<1>2. frame_count \in 1..FramesMax /\ FramesMax \in Nat /\ StackMax \in Nat
      /\ stack \in Seq(Cells) /\ Len(stack) \in 1..StackMax /\ frames \in [1..FramesMax -> FrameRecords]
  BY <1>1, FramesAssumption, StackAssumption DEF IInv, TypeOK, Cells, FrameRecords
<1>3. fp = frame_count
  BY <1>1 DEF IInv, FramesInv
<1>4. frames[fp].slots \in 1..Len(stack)
  <2>1. frames[fp].slots \in 0..StackMax /\ frames[fp].slots >= 1
    BY <1>2, <1>3 DEF FrameRecords, IInv, FramesInv
  <2>2. frames[fp].slots + 0 <= Len(stack)
    BY <1>1 DEF Slot
  <2> QED BY <1>2, <2>1, <2>2
<1>5. CASE Stop("aborted")
  BY <1>5, StopKeeps DEF IInv
<1>6. CASE ~ Stop("aborted")
  <2>1. /\ frames[fp].fn = "init" => Len(stack) < StackMax
        /\ stack' = IF frame_count > 1 THEN CallerStack
                    ELSE IF frames[fp].fn = "init" THEN stack ELSE Below(1)
        /\ frames' = [frames EXCEPT ![frame_count] = Blank]
        /\ frame_count' = frame_count - 1 /\ fp' = frame_count - 1
        /\ phase' = IF frame_count = 1 THEN "idle" ELSE "run"
        /\ failed' = failed
    BY <1>6 DEF returned
  <2>2. Blank \in FrameRecords
    BY <1>2 DEF Blank, Frame, FrameRecords, HeightMax
  <2>3. frames' \in [1..FramesMax -> FrameRecords] /\ \A f \in 1..(frame_count - 1) : frames'[f] = frames[f]
    BY <1>2, <2>1, <2>2
  <2>4. frame_count' \in 0..FramesMax /\ fp' \in 0..FramesMax /\ (phase' # "run" <=> fp' = 0)
    BY <1>2, <2>1
  <2>5. CASE frame_count = 1
    <3>1. stack' \in Seq(Cells) /\ Len(stack') <= StackMax
      <4>1. CASE stack' = stack
        BY <1>2, <4>1
      <4>2. CASE stack' = Below(1)
        <5>1. 1 \in 0..Len(stack)
          BY <1>2
        <5>2. Below(1) \in Seq(Cells) /\ Len(Below(1)) = Len(stack) - 1
          BY <1>2, <5>1, BelowFacts
        <5> QED BY <1>2, <4>2, <5>2
      <4> QED BY <2>1, <2>5, <4>1, <4>2
    <3>2. TypeOK'
      BY <2>1, <2>3, <2>4, <2>5, <3>1 DEF IInv, TypeOK, Cells, FrameRecords
    <3>3. phase' # "run"
      BY <2>1, <2>5
    <3> QED BY <3>2, <3>3 DEF IInv, FramesInv, HeightIsCompiled, ReceiverIsSelf
  <2>6. CASE frame_count > 1
    <3> DEFINE k == frame_count - 1
    <3>1. k \in 1..FramesMax /\ k < frame_count /\ k \in 1..frame_count /\ frame_count' = k /\ fp' = k
          /\ phase' = "run"
      BY <1>2, <2>1, <2>6
    <3>2. emit_return \in Cells
      <4>1. peek(0) \in Cells
        BY <1>2, PeekFacts
      <4>2. stack[Slot(0)] \in Cells
        BY <1>2, <1>4 DEF Slot
      <4> QED BY <4>1, <4>2 DEF emit_return
    <3>3. /\ stack' \in Seq(Cells) /\ Len(stack') = frames[fp].slots
          /\ \A i \in 1..(frames[fp].slots - 1) : stack'[i] = stack[i]
      <4>1. stack' = Append(SubSeq(stack, 1, frames[fp].slots - 1), emit_return)
        BY <2>1, <2>6 DEF CallerStack
      <4> DEFINE s == SubSeq(stack, 1, frames[fp].slots - 1)
      <4>2. /\ s \in Seq(Cells) /\ Len(s) = frames[fp].slots - 1
            /\ \A i \in 1..(frames[fp].slots - 1) : s[i] = stack[i]
        BY <1>2, <1>4
      <4> HIDE DEF k, s
      <4>3. stack' = Append(s, emit_return)
        BY <4>1 DEF s
      <4>4. stack' \in Seq(Cells) /\ Len(stack') = Len(s) + 1 /\ \A i \in 1..Len(s) : stack'[i] = s[i]
        BY <3>2, <4>2, <4>3
      <4> QED BY <1>4, <4>2, <4>4
    <3>4. TypeOK'
      BY <1>2, <1>4, <2>1, <2>3, <2>4, <3>1, <3>3 DEF IInv, TypeOK, Cells, FrameRecords
    <3>5. \A f \in 1..k : f \in 1..frame_count /\ f < frame_count /\ frames'[f] = frames[f]
      BY <1>2, <2>3
    <3> HIDE DEF k
    <3>6. FramesInv'
      BY <2>1, <3>1, <3>5 DEF IInv, FramesInv
    <3>7. ~ failed => /\ \A f \in 2..frame_count :
                           frames[f].slots = frames[f - 1].slots + frames[f - 1].height - 1
      BY DEF IInv, HeightIsCompiled
    <3>8. HeightIsCompiled'
      <4>1. SUFFICES ASSUME ~ failed
                     PROVE  /\ Len(stack') = frames'[k].slots + frames'[k].height - 1
                            /\ \A f \in 2..k : frames'[f].slots = frames'[f - 1].slots + frames'[f - 1].height - 1
        BY <2>1, <3>1 DEF HeightIsCompiled
      <4>2. frame_count \in 2..frame_count /\ k = frame_count - 1
        BY <1>2, <2>6 DEF k
      <4>3. frames[fp].slots = frames[k].slots + frames[k].height - 1
        BY <1>3, <3>7, <4>1, <4>2
      <4>4. Len(stack') = frames'[k].slots + frames'[k].height - 1
        BY <3>1, <3>3, <3>5, <4>3
      <4>5. ASSUME NEW f \in 2..k
            PROVE  frames'[f].slots = frames'[f - 1].slots + frames'[f - 1].height - 1
        <5>1. f \in 1..k /\ f - 1 \in 1..k /\ f \in 2..frame_count
          BY <1>2, <3>1
        <5> QED BY <3>5, <3>7, <4>1, <5>1
      <4> QED BY <4>4, <4>5
    <3>9. ReceiverIsSelf'
      <4>1. SUFFICES ASSUME ~ failed, NEW f \in 1..k, frames[f].self # nobody
                     PROVE  stack'[frames[f].slots] = Instance(frames[f].self)
        BY <2>1, <3>1, <3>5 DEF ReceiverIsSelf
      <4>2. stack[frames[f].slots] = Instance(frames[f].self)
        BY <3>5, <4>1 DEF IInv, ReceiverIsSelf
      <4>3. frames[f].slots < frames[fp].slots /\ frames[f].slots >= 1
        BY <1>2, <1>3, <3>5, <4>1 DEF IInv, FramesInv
      <4>4. frames[f].slots \in 0..StackMax
        BY <1>2, <3>1, <3>5 DEF FrameRecords
      <4> QED BY <1>2, <1>4, <3>3, <4>2, <4>3, <4>4
    <3> QED BY <3>4, <3>6, <3>8, <3>9 DEF IInv
  <2> QED BY <1>2, <2>5, <2>6
<1> QED BY <1>5, <1>6

\* The script's frame is over the cell interpret pushes.
LEMMA InterpretKeeps ==
  ASSUME IInv, interpret
  PROVE  IInv'
<1>1. followed' \in 0..FollowMax /\ phase = "idle"
  BY DEF interpret, IInv, TypeOK
<1>2. CASE Stop("aborted")
  BY <1>1, <1>2, StopKeeps DEF IInv
<1>3. CASE ~ Stop("aborted")
  <2>1. /\ Len(stack) # StackMax
        /\ stack' = Append(stack, Value("closure"))
        /\ frames' = [frames EXCEPT ![1] = Frame(Len(stack) + 1, 1, "script", nobody)]
        /\ frame_count' = 1 /\ fp' = 1 /\ phase' = "run" /\ failed' = failed
    BY <1>3 DEF interpret
  <2>2. /\ stack \in Seq(Cells) /\ frames \in [1..FramesMax -> FrameRecords]
        /\ Len(stack) \in Nat /\ Len(stack) < StackMax /\ StackMax \in Nat /\ 1 \in 1..FramesMax
    BY <2>1, FramesAssumption, StackAssumption DEF IInv, TypeOK, Cells, FrameRecords
  <2>3. Value("closure") \in Cells
    BY DEF Value, Cells, AllKinds
  <2>4. stack' \in Seq(Cells) /\ Len(stack') = Len(stack) + 1
    BY <2>1, <2>2, <2>3
  <2>5. Frame(Len(stack) + 1, 1, "script", nobody) \in FrameRecords
    BY <2>2 DEF Frame, FrameRecords, HeightMax
  <2>6. /\ frames' \in [1..FramesMax -> FrameRecords]
        /\ frames'[1] = Frame(Len(stack) + 1, 1, "script", nobody)
    BY <2>1, <2>2, <2>5
  <2>7. /\ frames'[1].slots = Len(stack) + 1 /\ frames'[1].height = 1 /\ frames'[1].self = nobody
    BY <2>6 DEF Frame
  <2>8. TypeOK'
    BY <1>1, <2>1, <2>2, <2>4, <2>6 DEF IInv, TypeOK, Cells, FrameRecords
  <2>9. FramesInv'
    BY <2>1, <2>2, <2>7 DEF FramesInv
  <2>10. HeightIsCompiled' /\ ReceiverIsSelf'
    BY <2>1, <2>2, <2>4, <2>7 DEF HeightIsCompiled, ReceiverIsSelf
  <2> QED BY <2>8, <2>9, <2>10 DEF IInv
<1> QED BY <1>2, <1>3

\* One pass of the loop.
LEMMA RunKeeps ==
  ASSUME IInv, Strays = {}, run
  PROVE  IInv'
<1>1. followed' \in 0..FollowMax
  BY BoundsAssumption DEF run, IInv, TypeOK
<1>2. CASE simple
  BY <1>1, <1>2, SimpleSteps, StepsKeep DEF IInv
<1>3. CASE calls
  BY <1>1, <1>3, CallSteps, CalledKeeps DEF IInv
<1>4. CASE op_return
  <2>1. CASE \E p \in {"aborted", "lost"} : Stop(p)
    BY <1>1, <2>1, StopKeeps DEF IInv
  <2>2. CASE phase = "run" /\ Len(stack) >= 1 /\ returned
    BY <1>1, <2>2, ReturnedKeeps
  <2> QED BY <1>4, <2>1, <2>2 DEF op_return, Starved
<1> QED BY <1>2, <1>3, <1>4 DEF run, instruction, simple, calls

-----------------------------------------------------------------------------
(* The theorems.                                                           *)

\* A machine that was just made.
LEMMA Initially == Init => IInv
<1> SUFFICES ASSUME Init PROVE IInv
  OBVIOUS
<1>1. frames \in [1..FramesMax -> FrameRecords]
  BY FramesAssumption, StackAssumption DEF Init, NoFrames, Blank, Frame, FrameRecords, HeightMax
<1>2. stack \in Seq(Cells) /\ Len(stack) <= StackMax
  BY StackAssumption DEF Init
<1>3. frame_count \in 0..FramesMax /\ fp \in 0..FramesMax /\ followed \in 0..FollowMax
  BY FramesAssumption, BoundsAssumption DEF Init
<1>4. failed \in BOOLEAN /\ phase \in {"idle", "run", "aborted", "lost"} /\ (phase # "run" <=> fp = 0)
  BY DEF Init
<1>5. TypeOK
  BY <1>1, <1>2, <1>3, <1>4 DEF TypeOK, Cells, FrameRecords
<1> QED BY <1>5 DEF Init, IInv, FramesInv, HeightIsCompiled, ReceiverIsSelf

\* Every step of the machine.
LEMMA NextKeeps ==
  ASSUME Strays = {}, IInv, [Next]_vars
  PROVE  IInv'
<1>1. CASE UNCHANGED vars
  BY <1>1 DEF vars, IInv, TypeOK, FramesInv, HeightIsCompiled, ReceiverIsSelf
<1>2. CASE interpret
  BY <1>2, InterpretKeeps
<1>3. CASE run
  BY <1>3, RunKeeps
<1> QED BY <1>1, <1>2, <1>3 DEF Next, Stopped

\* In every state of every run: the shape of the state, the height of the
\* stack in every frame, and the receivers, whatever code the parser emits but
\* the forms of AllStrays: calls x::f(...) of what is neither a class nor an enum,
\* enum patterns that do not bind what is stored, and assignments through an
\* upvalue that a block's end has left open.
THEOREM MachineInvariant == Strays = {} /\ Spec => []IInv
<1> SUFFICES ASSUME Strays = {} PROVE Spec => []IInv
  OBVIOUS
<1>1. IInv /\ [Next]_vars => IInv'
  BY NextKeeps
<1> QED BY Initially, <1>1, PTL DEF Spec

\* The stack and the frames keep to their arrays (push, call).
THEOREM TypeCorrect == Strays = {} /\ Spec => []TypeOK
<1>1. IInv => TypeOK
  BY DEF IInv
<1> QED BY MachineInvariant, <1>1, PTL

\* Every handler takes and leaves what the parser counts on, a call sets slots
\* right, and a return puts the answer where the caller expects it (run), in code
\* without stray layers, patterns or upvalues.
THEOREM HeightsAgree == Strays = {} /\ Spec => []HeightIsCompiled
<1>1. IInv => HeightIsCompiled
  BY DEF IInv
<1> QED BY MachineInvariant, <1>1, PTL

\* Slot 0 of every method on the stack of frames is its receiver (invoke,
\* call_value, super_invoke), as long as the method and its callees run and no
\* assignment goes through an upvalue left open (Strays).
THEOREM ReceiversStay == Strays = {} /\ Spec => []ReceiverIsSelf
<1>1. IInv => ReceiverIsSelf
  BY DEF IInv
<1> QED BY MachineInvariant, <1>1, PTL

\* A step to a frame less, other than an error or the end, is a return.
LEMMA OnlyReturnsLeave ==
  ASSUME IInv, Strays = {}, Next, phase = "run", frame_count > 1,
         phase' = "run", frame_count' = frame_count - 1
  PROVE  returned
<1>1. frame_count \in Nat
  BY DEF IInv, TypeOK
<1>2. ~ Stops
  BY DEF Stops, Stop
<1>3. ASSUME NEW n \in Nat, NEW m \in Nat, Steps(n, m) PROVE FALSE
  BY <1>1, <1>2, <1>3 DEF Steps, Stepped, runtime_error, Exchanged
<1>4. ASSUME NEW n \in Nat, NEW m \in Nat, Entered(n, m) PROVE FALSE
  BY <1>1, <1>4 DEF Entered
<1>5. CASE interpret
  BY <1>5 DEF interpret
<1>6. CASE Stopped
  BY <1>1, <1>6 DEF Stopped, vars
<1>7. CASE run
  <2>1. CASE simple
    BY <1>3, <2>1, SimpleSteps DEF IInv
  <2>2. CASE calls
    BY <1>3, <1>4, <2>2, CallSteps DEF IInv, Called
  <2>3. CASE op_return
    BY <1>2, <2>3 DEF op_return, Starved, Stops
  <2> QED BY <1>7, <2>1, <2>2, <2>3 DEF run, instruction, simple, calls
<1> QED BY <1>5, <1>6, <1>7 DEF Next

\* What a call of a class answers is the instance it has made, whatever its
\* initializer leaves on the stack (emit_return, handle_op_return), as long as no
\* stray assignment reaches its slot 0.
THEOREM InitializersAnswer == Strays = {} /\ Spec => InitializersAnswerInstance
<1> DEFINE A == /\ phase = "run" /\ ~ failed /\ frame_count > 1
                /\ frames[fp].fn = "init" /\ frames[fp].self # nobody
                /\ phase' = "run" /\ frame_count' = frame_count - 1
                => Last(stack') = Instance(frames[fp].self)
<1> SUFFICES ASSUME Strays = {} PROVE Spec => InitializersAnswerInstance
  OBVIOUS
<1>1. IInv /\ [Next]_vars => [A]_vars
  <2> SUFFICES ASSUME IInv, Next, phase = "run", ~ failed, frame_count > 1,
                      frames[fp].fn = "init", frames[fp].self # nobody,
                      phase' = "run", frame_count' = frame_count - 1
               PROVE  Last(stack') = Instance(frames[fp].self)
    OBVIOUS
  <2>1. returned
    BY OnlyReturnsLeave
  <2>2. stack' = CallerStack /\ Slot(0) <= Len(stack) /\ frame_count \in 1..FramesMax /\ fp = frame_count
    <3>1. frame_count \in 1..FramesMax
      BY FramesAssumption DEF IInv, TypeOK
    <3>2. ~ Stop("aborted")
      BY DEF Stop
    <3>3. fp = frame_count
      BY <3>1 DEF IInv, FramesInv
    <3> QED BY <2>1, <3>1, <3>2, <3>3 DEF returned
  <2>3. frames[fp].slots \in 0..StackMax /\ stack \in Seq(Cells)
    BY <2>2 DEF IInv, TypeOK, Cells
  <2>4. emit_return = stack[frames[fp].slots]
    BY <2>3, StackAssumption DEF emit_return, Slot
  <2>5. emit_return = Instance(frames[fp].self)
    BY <2>2, <2>4 DEF IInv, ReceiverIsSelf
  <2>6. frames[fp].slots >= 1 /\ frames[fp].slots <= Len(stack)
    BY <2>2, <2>3, StackAssumption DEF IInv, FramesInv, Slot
  <2> DEFINE s == SubSeq(stack, 1, frames[fp].slots - 1)
  <2>7. s \in Seq(Cells)
    BY <2>3, <2>6
  <2>8. stack' = Append(s, emit_return)
    BY <2>2 DEF CallerStack
  <2> HIDE DEF s
  <2>9. emit_return \in Cells
    BY <2>3, <2>4, <2>6
  <2>10. Len(stack') = Len(s) + 1 /\ stack'[Len(s) + 1] = emit_return
    BY <2>7, <2>8, <2>9
  <2> QED BY <2>5, <2>10 DEF Last
<1>2. Spec => []IInv
  BY MachineInvariant
<1>3. Spec => [][A]_vars
  BY <1>1, <1>2, PTL DEF Spec
<1> QED BY <1>3 DEF InitializersAnswerInstance
=============================================================================

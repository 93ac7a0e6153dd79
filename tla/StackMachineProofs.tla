------------------------- MODULE StackMachineProofs -------------------------
(***************************************************************************)
(* For any text in any of the forms: the code emitted for it never lets    *)
(* the machine leave the chunk, and what the compiler and the machine keep *)
(* has the form the source declares.                                       *)
(***************************************************************************)
EXTENDS StackMachine, FiniteSetTheorems, SequenceTheorems, TLAPS

\* A non-empty set of naturals has a least member: strict inclusion is well-founded
\* on the finite sets 0..n-1.
LEMMA LeastMember ==
  ASSUME NEW S \in SUBSET Nat, S # {}
  PROVE  \E m \in S : \A n \in S : m <= n
<1> DEFINE T == {0..(n - 1) : n \in S}
<1>1. \A n \in S : 0..(n - 1) \in SUBSET Nat /\ IsFiniteSet(0..(n - 1))
  BY FS_Interval
<1>2. T # {} /\ T \subseteq FiniteSubsetsOf(Nat)
  BY <1>1 DEF FiniteSubsetsOf
<1>3. PICK U \in T : \A V \in T : ~ (<<V, U>> \in StrictSubsetOrdering(Nat))
  <2> HIDE DEF T
  <2> QED BY <1>2, FS_StrictSubsetOrderingWellFounded, WFMin
<1>4. PICK m \in S : U = 0..(m - 1)
  OBVIOUS
<1>5. ASSUME NEW n \in S, n < m PROVE FALSE
  <2>1. 0..(n - 1) \subseteq 0..(m - 1) /\ n \in (0..(m - 1)) \ (0..(n - 1))
    BY <1>5
  <2>2. <<0..(n - 1), U>> \in StrictSubsetOrdering(Nat)
    BY <2>1, <1>4 DEF StrictSubsetOrdering
  <2> QED BY <2>2, <1>3
<1> QED BY <1>5

-----------------------------------------------------------------------------
(* The invariant.                                                          *)

Instructions == [op : Ops, arg : Nat, var : Nat, def : Nat]

Locals == [name : Names \cup {""}, depth : Int, id : Nat]

Loops == [start : Nat, end : Nat, depth : Nat]

Entries == [at : Places, first : Nat, before : Nat, start : Nat, exit : Nat, ends : SUBSET Nat]

Backward == {"loop", "continue"}

Forward == {"jump", "jump_if_false", "jump_if_neq", "break", "enum_member_match"}

\* If the instruction i at k jumps back, it does so within the code.
LandsBack(i, k) == i.op \in Backward => i.arg \in 1..k

Lands(c) == \A k \in DOMAIN c : LandsBack(c[k], k)

Sound(c) == c \in Seq(Instructions) /\ Lands(c)

\* The jumps that go beyond the instruction that comes next, as a placeholder does.
Unpatched(c) == {k \in DOMAIN c : c[k].op \in Forward /\ k + c[k].arg > Len(c)}

\* The code d continues the code c: patching changes no instruction's kind.
Continues(c, d) == Len(c) <= Len(d) /\ \A k \in DOMAIN c : d[k].op = c[k].op

Emits(c, d) == Sound(d) /\ Continues(c, d)

\* The place of a jump to be patched, or none.
Patchable(c, jump) == jump \in 0..Len(c) /\ (jump # 0 => c[jump].op \notin Backward)

LoopsFit(l, c) ==
  /\ l \in Seq(Loops)
  /\ \A k \in DOMAIN l : l[k].start \in 1..(Len(c) + 1) /\ Patchable(c, l[k].end)

Fits(entry, c) ==
  /\ entry \in Entries
  /\ Patchable(c, entry.exit)
  /\ entry.at \in {"end_while", "end_for"} => entry.start \in 1..(Len(c) + 1)
  /\ entry.at \in {"arms", "end_match"} =>
       /\ entry.start \in 2..Len(c)
       /\ Patchable(c, entry.start)
       /\ \A jump \in entry.ends : Patchable(c, jump)

\* The end of an arm returns to its match.
EndsArm(entry) == entry.at \in {"end_arm", "end_default"}

WorkFits(w, c) ==
  /\ w \in Seq(Entries)
  /\ \A k \in DOMAIN w : Fits(w[k], c)
  /\ \A k \in DOMAIN w : EndsArm(w[k]) => k < Len(w) /\ w[k + 1].at = "arms"

CompileInv ==
  phase = "compile" =>
    /\ Sound(code)
    /\ locals \in Seq(Locals)
    /\ scope_depth \in Int
    /\ declared \in Nat
    /\ LoopsFit(loops, code)
    /\ WorkFits(work, code)
    /\ pc = 1

\* Only the last instruction has nothing behind it, and each jump lands.
Sealed(c) ==
  /\ c \in Seq(Instructions)
  /\ Len(c) > 0
  /\ c[Len(c)].op = "return"
  /\ Lands(c)
  /\ \A k \in DOMAIN c : c[k].op \in Forward => k + c[k].arg < Len(c)

RunInv == phase = "run" => Sealed(code) /\ pc \in DOMAIN code

FormInv == CompileInv /\ RunInv

-----------------------------------------------------------------------------
(* The code.                                                               *)

\* Sound code continues itself.
LEMMA EmitsItself ==
  ASSUME NEW c, Sound(c)
  PROVE  Emits(c, c)
BY DEF Emits, Sound, Continues

\* Continuing code twice continues it.
LEMMA EmitsOn ==
  ASSUME NEW c \in Seq(Instructions), NEW d, NEW e, Emits(c, d), Emits(d, e)
  PROVE  Emits(c, e)
BY DEF Emits, Sound, Continues

\* An instruction at the end lands within the code, if a backward jump does not go
\* before the first.
LEMMA Appending ==
  ASSUME NEW c, Sound(c), NEW i \in Instructions,
         i.op \in Backward => i.arg \in 1..(Len(c) + 1)
  PROVE  /\ Emits(c, Append(c, i))
         /\ Len(Append(c, i)) = Len(c) + 1
         /\ Append(c, i)[Len(c) + 1] = i
<1> DEFINE d == Append(c, i)
<1>1. /\ d \in Seq(Instructions)
      /\ Len(d) = Len(c) + 1
      /\ d[Len(c) + 1] = i
      /\ \A k \in DOMAIN c : d[k] = c[k]
  BY DEF Sound
<1>2. DOMAIN d = DOMAIN c \cup {Len(c) + 1}
  BY <1>1 DEF Sound
<1>3. Lands(d)
  <2> SUFFICES ASSUME NEW k \in DOMAIN d
               PROVE  LandsBack(d[k], k)
    BY <1>1 DEF Lands
  <2> HIDE DEF d
  <2>1. CASE k \in DOMAIN c
    <3>1. d[k] = c[k] /\ k \in Nat /\ Len(c) \in Nat
      BY <2>1, <1>1 DEF Sound
    <3>2. LandsBack(c[k], k)
      BY <2>1 DEF Sound, Lands
    <3> QED BY <3>1, <3>2, <1>1 DEF LandsBack
  <2>2. CASE k = Len(c) + 1
    <3>1. d[k] = i /\ Len(d) = k /\ k \in Nat
      BY <2>2, <1>1 DEF Sound
    <3> QED BY <3>1, <2>2 DEF LandsBack
  <2> QED BY <2>1, <2>2, <1>2
<1> QED BY <1>1, <1>3 DEF Emits, Sound, Continues

\* emit_byte keeps code sound.
LEMMA EmittingByte ==
  ASSUME NEW c, Sound(c), NEW op \in Ops \ Backward
  PROVE  /\ Emits(c, emit_byte(c, op))
         /\ Len(emit_byte(c, op)) = Len(c) + 1
         /\ emit_byte(c, op)[Len(c) + 1] = Instruction(op, 0, 0, 0)
<1> DEFINE i == Instruction(op, 0, 0, 0)
<1>1. i \in Instructions /\ i.op = op /\ i.arg = 0
  BY DEF Instruction, Instructions
<1> HIDE DEF i
<1> QED BY <1>1, Appending DEF emit_byte, i

\* A jump is patchable as soon as it is emitted.
LEMMA EmittingJump ==
  ASSUME NEW c, Sound(c), NEW op \in Ops \ Backward
  PROVE  /\ Emits(c, emit_jump(c, op))
         /\ Len(emit_jump(c, op)) = Len(c) + 1
         /\ Patchable(emit_jump(c, op), Len(c) + 1)
<1> DEFINE i == Instruction(op, Placeholder, 0, 0)
<1>1. i \in Instructions /\ i.op = op
  BY DEF Instruction, Instructions, Placeholder
<1>2. Len(c) \in Nat
  BY DEF Sound
<1>3. emit_jump(c, op) = Append(c, i)
  BY DEF emit_jump
<1> HIDE DEF i
<1>4. /\ Emits(c, Append(c, i))
      /\ Len(Append(c, i)) = Len(c) + 1
      /\ Append(c, i)[Len(c) + 1] = i
  BY <1>1, Appending
<1> QED BY <1>1, <1>2, <1>3, <1>4 DEF Patchable

\* The place of a jump stays the place of a jump while code is emitted.
LEMMA PatchableLater ==
  ASSUME NEW c \in Seq(Instructions), NEW d \in Seq(Instructions), Continues(c, d),
         NEW jump, Patchable(c, jump)
  PROVE  Patchable(d, jump)
BY DEF Patchable, Continues

\* A change of one field that is not the kind of the instruction.
LEMMA PatchingJump ==
  ASSUME NEW c, Sound(c), NEW jump, Patchable(c, jump)
  PROVE  /\ Emits(c, patch_jump(c, jump))
         /\ Len(patch_jump(c, jump)) = Len(c)
         /\ \A k \in DOMAIN c : k # jump => patch_jump(c, jump)[k] = c[k]
<1> DEFINE d == patch_jump(c, jump)
<1>1. c \in Seq(Instructions) /\ Len(c) \in Nat /\ DOMAIN c = 1..Len(c)
  BY DEF Sound
<1>2. /\ DOMAIN d = DOMAIN c
      /\ \A k \in DOMAIN c : d[k] = IF k = jump THEN [c[k] EXCEPT !.arg = Len(c) - jump] ELSE c[k]
  BY <1>1 DEF patch_jump
<1>3. jump \in DOMAIN c => Len(c) - jump \in Nat
  BY <1>1
<1>4. \A k \in DOMAIN c : /\ d[k] \in Instructions
                          /\ d[k].op = c[k].op
                          /\ d[k].arg = IF k = jump THEN Len(c) - jump ELSE c[k].arg
  <2> TAKE k \in DOMAIN c
  <2>1. c[k] \in Instructions
    BY <1>1
  <2> QED BY <2>1, <1>2, <1>3 DEF Instructions
<1>5. d \in Seq(Instructions) /\ Len(d) = Len(c)
  <2>1. d \in [1..Len(c) -> Instructions]
    <3>1. d = [k \in DOMAIN c |-> d[k]]
      BY <1>2 DEF patch_jump
    <3> HIDE DEF d
    <3> QED BY <3>1, <1>1, <1>4
  <2> HIDE DEF d
  <2> QED BY <2>1, <1>1
<1>6. Lands(d)
  <2> SUFFICES ASSUME NEW k \in DOMAIN c
               PROVE  LandsBack(d[k], k)
    BY <1>1, <1>2, <1>5 DEF Lands
  <2>1. CASE k = jump
    <3>1. d[k].op = c[k].op /\ jump # 0
      BY <2>1, <1>1, <1>4
    <3> HIDE DEF d
    <3> QED BY <2>1, <3>1 DEF Patchable, LandsBack
  <2>2. CASE k # jump
    <3>1. d[k].op = c[k].op /\ d[k].arg = c[k].arg /\ k \in Nat
      BY <2>2, <1>1, <1>4
    <3>2. LandsBack(c[k], k)
      BY DEF Sound, Lands
    <3> HIDE DEF d
    <3> QED BY <3>1, <3>2, <1>1 DEF LandsBack
  <2> QED BY <2>1, <2>2
<1>7. Continues(c, d)
  BY <1>1, <1>4, <1>5 DEF Continues
<1> QED BY <1>2, <1>5, <1>6, <1>7 DEF Emits, Sound

\* The jumps of a set, all patched to here, land here.
LEMMA PatchingAll ==
  ASSUME NEW c, Sound(c), NEW jumps, \A jump \in jumps : Patchable(c, jump)
  PROVE  Emits(c, PatchAll(c, jumps))
<1> DEFINE d == PatchAll(c, jumps)
<1>1. c \in Seq(Instructions) /\ Len(c) \in Nat /\ DOMAIN c = 1..Len(c)
  BY DEF Sound
<1>2. d = [k \in 1..Len(c) |-> IF k \in jumps THEN patch_jump(c, k)[k] ELSE c[k]]
  BY <1>1 DEF PatchAll
<1> HIDE DEF d
<1>3. ASSUME NEW k \in 1..Len(c)
      PROVE  /\ d[k] \in Instructions
             /\ d[k].op = c[k].op
             /\ LandsBack(d[k], k)
  <2>1. CASE k \in jumps
    <3>1. Emits(c, patch_jump(c, k)) /\ Len(patch_jump(c, k)) = Len(c)
      BY <2>1, PatchingJump
    <3>2. d[k] = patch_jump(c, k)[k]
      BY <2>1, <1>2
    <3> DEFINE e == patch_jump(c, k)
    <3>3. /\ e \in Seq(Instructions) /\ Len(e) = Len(c) /\ k \in DOMAIN e
          /\ e[k].op = c[k].op
          /\ Lands(e)
      BY <3>1, <1>1 DEF Emits, Sound, Continues
    <3> HIDE DEF e
    <3>4. LandsBack(e[k], k)
      BY <3>3 DEF Lands
    <3> QED BY <3>2, <3>3, <3>4 DEF e
  <2>2. CASE k \notin jumps
    <3>1. d[k] = c[k]
      BY <2>2, <1>2
    <3> QED BY <3>1, <1>1 DEF Sound, Lands
  <2> QED BY <2>1, <2>2
<1>4. d \in [1..Len(c) -> Instructions]
  BY <1>2, <1>3
<1>5. d \in Seq(Instructions) /\ Len(d) = Len(c) /\ DOMAIN d = 1..Len(c)
  BY <1>1, <1>4
<1> QED BY <1>1, <1>3, <1>5 DEF Emits, Sound, Lands, LandsBack, Continues, d

\* A jump back to a place that exists lands on an instruction.
LEMMA EmittingLoop ==
  ASSUME NEW c, Sound(c), NEW op \in Backward, NEW start \in 1..(Len(c) + 1)
  PROVE  /\ Emits(c, emit_loop(c, op, start))
         /\ Len(emit_loop(c, op, start)) = Len(c) + 1
<1> DEFINE i == Instruction(op, Len(c) + 2 - start, 0, 0)
<1>1. Len(c) \in Nat
  BY DEF Sound
<1>2. i \in Instructions /\ i.op \in Backward \ Forward /\ i.arg \in 1..(Len(c) + 1)
  <2>1. op \in Ops
    BY DEF Backward, Ops
  <2> QED BY <1>1, <2>1 DEF Instruction, Instructions, Backward, Forward
<1> HIDE DEF i
<1> QED BY <1>2, Appending DEF emit_loop, i

\* The pops of a scope keep code sound.
LEMMA EmittingPops ==
  ASSUME NEW c, Sound(c), NEW n \in Nat
  PROVE  Emits(c, EmitPops(c, n))
<1> DEFINE i == Instruction("pop", 0, 0, 0)
           p == [k \in 1..n |-> i]
           d == c \o p
<1>1. i \in Instructions /\ i.op = "pop" /\ i.arg = 0
  BY DEF Instruction, Instructions, Ops
<1>2. p \in Seq(Instructions) /\ Len(p) = n
  BY <1>1
<1>3. c \in Seq(Instructions) /\ Len(c) \in Nat
  BY DEF Sound
<1>4. /\ d \in Seq(Instructions)
      /\ Len(d) = Len(c) + n
      /\ \A k \in 1..Len(c) : d[k] = c[k]
      /\ \A k \in (Len(c) + 1)..(Len(c) + n) : d[k] = p[k - Len(c)]
  <2> HIDE DEF p
  <2> QED BY <1>2, <1>3
<1>5. \A k \in (Len(c) + 1)..(Len(c) + n) : d[k] = i
  BY <1>3, <1>4
<1> HIDE DEF i, p, d
<1>6. Lands(d)
  <2> SUFFICES ASSUME NEW k \in 1..(Len(c) + n)
               PROVE  LandsBack(d[k], k)
    BY <1>3, <1>4 DEF Lands
  <2>1. CASE k \in 1..Len(c)
    <3>1. LandsBack(c[k], k)
      BY <2>1, <1>3 DEF Sound, Lands
    <3> QED BY <3>1, <2>1, <1>3, <1>4 DEF LandsBack
  <2>2. CASE k \in (Len(c) + 1)..(Len(c) + n)
    BY <2>2, <1>1, <1>3, <1>4, <1>5 DEF Backward, Forward, LandsBack
  <2> QED BY <2>1, <2>2, <1>3
<1>7. Continues(c, d)
  BY <1>3, <1>4 DEF Continues
<1> QED BY <1>4, <1>6, <1>7 DEF Emits, Sound, EmitPops, d, p, i

\* The ghosts do not matter.
LEMMA DefiningGhost ==
  ASSUME NEW c, Sound(c), Len(c) > 0, NEW id \in Nat
  PROVE  /\ Emits(c, Defining(c, id))
         /\ Len(Defining(c, id)) = Len(c)
<1> DEFINE d == Defining(c, id)
<1>1. c \in Seq(Instructions) /\ Len(c) \in Nat /\ DOMAIN c = 1..Len(c)
  BY DEF Sound
<1>2. /\ DOMAIN d = DOMAIN c
      /\ d = [k \in DOMAIN c |-> d[k]]
      /\ \A k \in DOMAIN c : d[k] = IF k = Len(c) THEN [c[k] EXCEPT !.def = id] ELSE c[k]
  BY <1>1 DEF Defining
<1>3. \A k \in DOMAIN c : d[k] \in Instructions /\ d[k].op = c[k].op /\ d[k].arg = c[k].arg
  <2> TAKE k \in DOMAIN c
  <2>1. c[k] \in Instructions
    BY <1>1
  <2> QED BY <2>1, <1>2 DEF Instructions
<1> HIDE DEF d
<1>4. d \in [1..Len(c) -> Instructions]
  BY <1>1, <1>2, <1>3
<1>5. d \in Seq(Instructions) /\ Len(d) = Len(c)
  BY <1>1, <1>4
<1> QED BY <1>1, <1>3, <1>5 DEF Emits, Sound, Lands, LandsBack, Continues, d

-----------------------------------------------------------------------------
(* Expressions.                                                            *)

\* An operand is one instruction more.
LEMMA EmittingOperand ==
  ASSUME NEW c, Sound(c)
  PROVE  Emits(c, Operand(c)) /\ Len(Operand(c)) = Len(c) + 1
<1>1. "push" \in Ops \ Backward
  BY DEF Ops, Backward
<1> QED BY <1>1, EmittingByte DEF Operand

\* A pop is one instruction more.
LEMMA EmittingPop ==
  ASSUME NEW c, Sound(c)
  PROVE  Emits(c, emit_byte(c, "pop")) /\ Len(emit_byte(c, "pop")) = Len(c) + 1
<1>1. "pop" \in Ops \ Backward
  BY DEF Ops, Backward
<1> QED BY <1>1, EmittingByte

\* The jumps to be patched are instructions, and none of them goes back.
LEMMA ForwardOps ==
  {"jump", "jump_if_false", "jump_if_neq", "break", "match", "enum_member_match"} \subseteq Ops \ Backward
BY DEF Ops, Backward

\* The condition's jump is the instruction before the last.
LEMMA EmittingCondition ==
  ASSUME NEW c, Sound(c)
  PROVE  /\ Emits(c, Condition(c))
         /\ Len(Condition(c)) = Len(c) + 2
         /\ Patchable(Condition(c), Len(c) + 1)
<1> DEFINE test == emit_jump(c, "jump_if_false")
<1>1. Emits(c, test) /\ Len(test) = Len(c) + 1 /\ Patchable(test, Len(c) + 1)
  BY EmittingJump, ForwardOps
<1>2. Sound(test) /\ test \in Seq(Instructions) /\ c \in Seq(Instructions) /\ Len(c) \in Nat
  BY <1>1 DEF Emits, Sound
<1> HIDE DEF test
<1> DEFINE d == emit_byte(test, "pop")
<1>3. Emits(test, d) /\ Len(d) = Len(test) + 1
  BY <1>2, EmittingPop
<1> HIDE DEF d
<1>4. Emits(c, d)
  BY <1>1, <1>2, <1>3, EmitsOn
<1>5. Patchable(d, Len(c) + 1)
  BY <1>1, <1>2, <1>3, PatchableLater DEF Emits, Sound
<1> QED BY <1>1, <1>2, <1>3, <1>4, <1>5 DEF Condition, test, d

\* The last part of each branching form: an operand, over which the jump goes.
LEMMA JoiningBranch ==
  ASSUME NEW c, Sound(c), NEW jump, Patchable(c, jump)
  PROVE  Emits(c, patch_jump(Operand(c), jump))
<1> DEFINE d == Operand(c)
<1>1. Emits(c, d) /\ Sound(d) /\ c \in Seq(Instructions) /\ d \in Seq(Instructions)
  BY EmittingOperand DEF Emits, Sound
<1> HIDE DEF d
<1>2. Patchable(d, jump)
  BY <1>1, PatchableLater DEF Emits
<1>3. Emits(d, patch_jump(d, jump))
  BY <1>1, <1>2, PatchingJump
<1> QED BY <1>1, <1>3, EmitsOn DEF d

\* A jump over the other branch, whose condition is popped there.
LEMMA Branching2 ==
  ASSUME NEW c, Sound(c), NEW test, Patchable(c, test)
  PROVE  LET jump == emit_jump(c, "jump")
             else == emit_byte(patch_jump(jump, test), "pop")
         IN  /\ Emits(c, else)
             /\ Len(jump) = Len(c) + 1
             /\ Patchable(else, Len(c) + 1)
<1> DEFINE jump == emit_jump(c, "jump")
           patched == patch_jump(jump, test)
           else == emit_byte(patched, "pop")
<1>1. Emits(c, jump) /\ Len(jump) = Len(c) + 1 /\ Patchable(jump, Len(c) + 1)
  BY EmittingJump, ForwardOps
<1>2. Sound(jump) /\ jump \in Seq(Instructions) /\ c \in Seq(Instructions) /\ Len(c) \in Nat
  BY <1>1 DEF Emits, Sound
<1> HIDE DEF jump
<1>3. Patchable(jump, test)
  BY <1>1, <1>2, PatchableLater DEF Emits
<1>4. Emits(jump, patched) /\ Len(patched) = Len(jump)
  BY <1>2, <1>3, PatchingJump
<1> HIDE DEF patched
<1>5. Emits(patched, else) /\ Len(else) = Len(patched) + 1
  BY <1>4, EmittingPop DEF Emits
<1> HIDE DEF else
<1>6. patched \in Seq(Instructions) /\ else \in Seq(Instructions)
  BY <1>4, <1>5 DEF Emits, Sound
<1>7. Emits(jump, else)
  BY <1>2, <1>4, <1>5, EmitsOn
<1>8. Emits(c, else)
  BY <1>1, <1>2, <1>7, EmitsOn
<1>9. Patchable(else, Len(c) + 1)
  BY <1>1, <1>2, <1>6, <1>7, PatchableLater DEF Emits
<1> QED BY <1>1, <1>8, <1>9 DEF else, patched, jump

\* Each form of expression that jumps keeps code sound.
LEMMA EmittingBranch ==
  ASSUME NEW c, Sound(c), NEW e \in Branching(c)
  PROVE  Emits(c, e)
<1> DEFINE o == Operand(c)
           test == emit_jump(o, "jump_if_false")
<1>1. c \in Seq(Instructions)
  BY DEF Sound
<1>2. Emits(c, o) /\ Sound(o) /\ o \in Seq(Instructions) /\ Len(o) \in Nat
  BY EmittingOperand DEF Emits, Sound
<1>3. e \in {parse_and(c), parse_or(c), parse_ternary(c)}
  BY DEF Branching
<1> HIDE DEF o
<1>4. Emits(o, test) /\ Len(test) = Len(o) + 1 /\ Patchable(test, Len(o) + 1)
  BY <1>2, EmittingJump, ForwardOps
<1> HIDE DEF test
<1>5. Sound(test) /\ Emits(c, test) /\ test \in Seq(Instructions)
  BY <1>1, <1>2, <1>4, EmitsOn DEF Emits, Sound
<1> DEFINE then == emit_byte(test, "pop")
<1>6. Emits(test, then) /\ Sound(then) /\ then \in Seq(Instructions)
  BY <1>5, EmittingPop DEF Emits, Sound
<1> HIDE DEF then
<1>7. Emits(c, then)
  BY <1>1, <1>5, <1>6, EmitsOn
<1>8. Patchable(then, Len(test))
  BY <1>4, <1>5, <1>6, PatchableLater DEF Emits
<1>9. CASE e = parse_and(c)
  <2>1. Emits(then, e)
    BY <1>6, <1>8, <1>9, JoiningBranch DEF parse_and, then, test, o
  <2> QED BY <1>1, <1>7, <2>1, EmitsOn
<1>10. CASE e = parse_or(c)
  <2> DEFINE jump == emit_jump(test, "jump")
             else == emit_byte(patch_jump(jump, Len(test)), "pop")
  <2>1. Emits(test, else) /\ Len(jump) = Len(test) + 1 /\ Patchable(else, Len(test) + 1)
    BY <1>4, <1>5, Branching2
  <2>2. Sound(else) /\ else \in Seq(Instructions)
    BY <2>1 DEF Emits, Sound
  <2>3. e = patch_jump(Operand(else), Len(jump))
    BY <1>10 DEF parse_or, test, o
  <2> HIDE DEF jump, else
  <2>4. Emits(else, e)
    BY <2>1, <2>2, <2>3, JoiningBranch
  <2>5. Emits(test, e)
    BY <1>5, <2>1, <2>4, EmitsOn
  <2> QED BY <1>1, <1>5, <2>5, EmitsOn
<1>11. CASE e = parse_ternary(c)
  <2> DEFINE value == Operand(then)
  <2>1. Emits(then, value) /\ Sound(value) /\ value \in Seq(Instructions)
    BY <1>6, EmittingOperand DEF Emits, Sound
  <2> HIDE DEF value
  <2>2. Patchable(value, Len(test))
    BY <1>6, <1>8, <2>1, PatchableLater DEF Emits
  <2> DEFINE jump == emit_jump(value, "jump")
             else == emit_byte(patch_jump(jump, Len(test)), "pop")
  <2>3. Emits(value, else) /\ Len(jump) = Len(value) + 1 /\ Patchable(else, Len(value) + 1)
    BY <2>1, <2>2, Branching2
  <2>4. Sound(else) /\ else \in Seq(Instructions)
    BY <2>3 DEF Emits, Sound
  <2>5. e = patch_jump(Operand(else), Len(jump))
    BY <1>11 DEF parse_ternary, value, then, test, o
  <2> HIDE DEF jump, else
  <2>6. Emits(else, e)
    BY <2>3, <2>4, <2>5, JoiningBranch
  <2>7. Emits(value, e)
    BY <2>1, <2>3, <2>6, EmitsOn
  <2>8. Emits(then, e)
    BY <1>6, <2>1, <2>7, EmitsOn
  <2> QED BY <1>1, <1>7, <2>8, EmitsOn
<1> QED BY <1>3, <1>9, <1>10, <1>11

\* The slot of a local is one of the slots.
LEMMA ResolvedLocal ==
  ASSUME locals \in Seq(Locals), NEW x, IsLocal(x)
  PROVE  resolve_local(x) \in DOMAIN locals
<1> DEFINE n == Len(locals)
           S == {n - k : k \in SlotsOf(x)}
<1>1. n \in Nat /\ DOMAIN locals = 1..n /\ SlotsOf(x) \subseteq 1..n /\ SlotsOf(x) # {}
  BY DEF SlotsOf, IsLocal
<1>2. S \in SUBSET Nat /\ S # {}
  BY <1>1
<1>3. PICK m \in S : \A i \in S : m <= i
  <2> HIDE DEF S
  <2> QED BY <1>2, LeastMember
<1>4. PICK k \in SlotsOf(x) : m = n - k
  OBVIOUS
<1>5. \A i \in SlotsOf(x) : i <= k
  <2> TAKE i \in SlotsOf(x)
  <2>1. n - k <= n - i
    BY <1>3, <1>4
  <2> QED BY <2>1, <1>1
<1> QED BY <1>1, <1>5 DEF resolve_local

\* An access to a variable is one instruction more.
LEMMA EmittingAccess ==
  ASSUME locals \in Seq(Locals), NEW c, Sound(c), NEW x,
         NEW local \in {"get_local", "set_local"}, NEW global \in {"push", "set_global"}
  PROVE  Emits(c, Access(c, x, local, global)) /\ Len(Access(c, x, local, global)) = Len(c) + 1
<1>1. CASE IsLocal(x)
  <2> DEFINE i == Instruction(local, resolve_local(x), locals[resolve_local(x)].id, 0)
  <2>1. resolve_local(x) \in Nat /\ locals[resolve_local(x)] \in Locals
    BY <1>1, ResolvedLocal
  <2>2. i \in Instructions /\ i.op \notin Backward \cup Forward
    BY <2>1 DEF Instruction, Instructions, Ops, Backward, Forward, Locals
  <2>3. Access(c, x, local, global) = Append(c, i)
    BY <1>1 DEF Access
  <2> HIDE DEF i
  <2> QED BY <2>2, <2>3, Appending
<1>2. CASE ~IsLocal(x)
  <2>1. global \in Ops \ Backward
    BY DEF Ops, Backward
  <2> QED BY <1>2, <2>1, EmittingByte DEF Access
<1> QED BY <1>1, <1>2

\* Each expression keeps code sound.
LEMMA EmittingExpression ==
  ASSUME locals \in Seq(Locals), NEW c, Sound(c), NEW e \in Expressions(c)
  PROVE  Emits(c, e)
<1> DEFINE o == Operand(c)
<1>1. Emits(c, o) /\ Sound(o) /\ c \in Seq(Instructions)
  BY EmittingOperand DEF Emits, Sound
<1>2. CASE e = o
  BY <1>1, <1>2
<1>3. CASE \E x \in Names : e = Access(c, x, "get_local", "push")
  BY <1>3, EmittingAccess
<1>4. CASE \E x \in Names : e = Access(o, x, "set_local", "set_global")
  <2> HIDE DEF o
  <2>1. Emits(o, e)
    BY <1>1, <1>4, EmittingAccess
  <2> QED BY <1>1, <2>1, EmitsOn
<1> QED BY <1>2, <1>3, <1>4 DEF Expressions

-----------------------------------------------------------------------------
(* The loops and the stack of the parser.                                  *)

\* The loops around a place still fit when code is added.
LEMMA LoopsKept ==
  ASSUME NEW c, NEW d, Sound(c), Emits(c, d), NEW l, LoopsFit(l, c)
  PROVE  LoopsFit(l, d)
<1>1. c \in Seq(Instructions) /\ d \in Seq(Instructions) /\ Continues(c, d)
  BY DEF Emits, Sound
<1> SUFFICES ASSUME NEW k \in DOMAIN l
             PROVE  l[k].start \in 1..(Len(d) + 1) /\ Patchable(d, l[k].end)
  BY DEF LoopsFit
<1>2. l[k].start \in 1..(Len(c) + 1) /\ Patchable(c, l[k].end)
  BY DEF LoopsFit
<1>3. Patchable(d, l[k].end)
  BY <1>1, <1>2, PatchableLater
<1> QED BY <1>1, <1>2, <1>3 DEF Continues

\* An entry of the parser still fits when code is added.
LEMMA FitsLater ==
  ASSUME NEW c, NEW d, Sound(c), Emits(c, d), NEW entry, Fits(entry, c)
  PROVE  Fits(entry, d)
<1>1. c \in Seq(Instructions) /\ d \in Seq(Instructions) /\ Continues(c, d)
  BY DEF Emits, Sound
<1>2. \A jump : Patchable(c, jump) => Patchable(d, jump)
  BY <1>1, PatchableLater
<1>3. Len(c) \in Nat /\ Len(d) \in Nat /\ Len(c) <= Len(d)
  BY <1>1 DEF Continues
<1> QED BY <1>2, <1>3 DEF Fits

\* The work of the parser still fits when code is added.
LEMMA WorkKept ==
  ASSUME NEW c, NEW d, Sound(c), Emits(c, d), NEW w, WorkFits(w, c)
  PROVE  WorkFits(w, d)
BY FitsLater DEF WorkFits

\* Without its top the work fits, and below the end of an arm is its match.
LEMMA WorkTail ==
  ASSUME NEW c, NEW w, WorkFits(w, c), w # <<>>
  PROVE  /\ WorkFits(Tail(w), c)
         /\ Fits(Head(w), c)
         /\ EndsArm(Head(w)) => Tail(w) # <<>> /\ Head(Tail(w)).at = "arms"
<1>1. /\ w \in Seq(Entries) /\ Len(w) \in Nat /\ Len(w) >= 1
      /\ DOMAIN w = 1..Len(w)
      /\ Head(w) = w[1]
  BY DEF WorkFits
<1> DEFINE t == Tail(w)
<1>2. /\ t \in Seq(Entries)
      /\ Len(t) = Len(w) - 1
      /\ DOMAIN t = 1..(Len(w) - 1)
      /\ \A k \in DOMAIN t : t[k] = w[k + 1]
  BY <1>1
<1> HIDE DEF t
<1>3. \A k \in DOMAIN t : Fits(t[k], c)
  BY <1>1, <1>2 DEF WorkFits
<1>4. \A k \in DOMAIN t : EndsArm(t[k]) => k < Len(t) /\ t[k + 1].at = "arms"
  <2> SUFFICES ASSUME NEW k \in DOMAIN t, EndsArm(t[k])
               PROVE  k < Len(t) /\ t[k + 1].at = "arms"
    OBVIOUS
  <2>1. k + 1 \in DOMAIN w /\ t[k] = w[k + 1]
    BY <1>1, <1>2
  <2>2. k + 1 < Len(w) /\ w[k + 2].at = "arms"
    BY <2>1 DEF WorkFits
  <2> QED BY <2>1, <2>2, <1>1, <1>2
<1>5. Fits(Head(w), c)
  BY <1>1 DEF WorkFits
<1>6. ASSUME EndsArm(Head(w)) PROVE t # <<>> /\ Head(t).at = "arms"
  <2>1. 1 < Len(w) /\ w[2].at = "arms"
    BY <1>1, <1>6 DEF WorkFits
  <2>2. Len(t) >= 1 /\ t[1] = w[2]
    BY <1>1, <1>2, <2>1
  <2> QED BY <1>2, <2>1, <2>2
<1> QED BY <1>2, <1>3, <1>4, <1>5, <1>6 DEF WorkFits, t

\* With one more entry the work fits.
LEMMA WorkCons ==
  ASSUME NEW c, NEW w, WorkFits(w, c), NEW entry, Fits(entry, c),
         EndsArm(entry) => w # <<>> /\ Head(w).at = "arms"
  PROVE  WorkFits(<<entry>> \o w, c)
<1> DEFINE v == <<entry>> \o w
<1>1. w \in Seq(Entries) /\ Len(w) \in Nat /\ DOMAIN w = 1..Len(w) /\ entry \in Entries
  BY DEF WorkFits, Fits
<1>2. /\ v \in Seq(Entries)
      /\ Len(v) = Len(w) + 1
      /\ DOMAIN v = 1..(Len(w) + 1)
      /\ v[1] = entry
      /\ \A k \in 1..Len(w) : v[k + 1] = w[k]
  BY <1>1
<1> HIDE DEF v
<1>3. ASSUME NEW k \in DOMAIN v
      PROVE  Fits(v[k], c) /\ (EndsArm(v[k]) => k < Len(v) /\ v[k + 1].at = "arms")
  <2>1. CASE k = 1
    <3>1. ASSUME EndsArm(entry) PROVE 1 < Len(v) /\ v[2].at = "arms"
      <4>1. Len(w) >= 1 /\ w[1].at = "arms"
        BY <3>1, <1>1
      <4> QED BY <4>1, <1>1, <1>2
    <3> QED BY <2>1, <3>1, <1>2
  <2>2. CASE k # 1
    <3>1. k - 1 \in DOMAIN w /\ v[k] = w[k - 1]
      <4>1. k - 1 \in 1..Len(w) /\ k = (k - 1) + 1
        BY <2>2, <1>1, <1>2
      <4> QED BY <4>1, <1>1, <1>2
    <3>2. Fits(w[k - 1], c) /\ (EndsArm(w[k - 1]) => k - 1 < Len(w) /\ w[k].at = "arms")
      BY <3>1, <1>1 DEF WorkFits
    <3>3. k < Len(v) => v[k + 1] = w[k]
      BY <1>1, <1>2
    <3> QED BY <3>1, <3>2, <3>3, <1>1, <1>2
  <2> QED BY <2>1, <2>2
<1> QED BY <1>2, <1>3 DEF WorkFits, v

\* Sequences put together.
LEMMA ConcatFacts ==
  ASSUME NEW S, NEW s \in Seq(S), NEW t \in Seq(S)
  PROVE  /\ s \o t \in Seq(S)
         /\ Len(s \o t) = Len(s) + Len(t)
         /\ \A q \in 1..Len(s) : (s \o t)[q] = s[q]
         /\ \A q \in 1..Len(t) : (s \o t)[Len(s) + q] = t[q]
OBVIOUS

\* One entry before another is two entries.
LEMMA ConsTwice ==
  ASSUME NEW a \in Entries, NEW b \in Entries, NEW w \in Seq(Entries)
  PROVE  <<a>> \o (<<b>> \o w) = <<a, b>> \o w
<1> DEFINE p == <<a, b>>
           q == <<b>>
           r == <<a>>
<1>1. p \in Seq(Entries) /\ Len(p) = 2 /\ p[1] = a /\ p[2] = b
  OBVIOUS
<1>2. q \in Seq(Entries) /\ Len(q) = 1 /\ q[1] = b
  OBVIOUS
<1>3. r \in Seq(Entries) /\ Len(r) = 1 /\ r[1] = a
  OBVIOUS
<1> HIDE DEF p, q, r
<1>4. /\ q \o w \in Seq(Entries) /\ Len(q \o w) = Len(w) + 1
      /\ (q \o w)[1] = b
      /\ \A k \in 1..Len(w) : (q \o w)[k + 1] = w[k]
  <2>1. /\ q \o w \in Seq(Entries)
        /\ Len(q \o w) = Len(q) + Len(w)
        /\ \A k \in 1..Len(q) : (q \o w)[k] = q[k]
        /\ \A k \in 1..Len(w) : (q \o w)[Len(q) + k] = w[k]
    BY <1>2, ConcatFacts
  <2> QED BY <1>2, <2>1
<1> DEFINE x == q \o w
           y == r \o x
           z == p \o w
<1> HIDE DEF x
<1>5. /\ y \in Seq(Entries)
      /\ Len(y) = Len(r) + Len(x)
      /\ \A k \in 1..Len(r) : y[k] = r[k]
      /\ \A k \in 1..Len(x) : y[Len(r) + k] = x[k]
  BY <1>3, <1>4, ConcatFacts DEF x
<1>6. /\ z \in Seq(Entries)
      /\ Len(z) = Len(p) + Len(w)
      /\ \A k \in 1..Len(p) : z[k] = p[k]
      /\ \A k \in 1..Len(w) : z[Len(p) + k] = w[k]
  <2>1. p \in Seq(Entries) /\ w \in Seq(Entries)
    BY <1>1
  <2> QED BY <2>1, ConcatFacts
<1> HIDE DEF y, z
<1>7. Len(w) \in Nat /\ Len(y) = Len(z) /\ Len(z) = Len(w) + 2
  BY <1>1, <1>3, <1>4, <1>5, <1>6 DEF x
<1>8. ASSUME NEW k \in 1..Len(z) PROVE y[k] = z[k]
  <2>1. CASE k = 1
    BY <2>1, <1>1, <1>3, <1>5, <1>6
  <2>2. CASE k = 2
    <3>1. z[2] = b
      BY <1>1, <1>6
    <3>2. x[1] = b /\ 1 \in 1..Len(x)
      BY <1>4, <1>7 DEF x
    <3>3. y[2] = b
      BY <3>2, <1>5, <1>3
    <3> QED BY <3>1, <3>3, <2>2
  <2>3. CASE k > 2
    <3> DEFINE i == k - 2
    <3>1. i \in 1..Len(w) /\ k = 2 + i /\ i + 1 \in 1..Len(x) /\ k = 1 + (i + 1)
      BY <1>7, <2>3, <1>4 DEF x
    <3> HIDE DEF i
    <3>2. z[k] = w[i]
      BY <3>1, <1>1, <1>6
    <3>3. y[k] = x[i + 1]
      BY <3>1, <1>3, <1>5
    <3>4. x[i + 1] = w[i]
      BY <3>1, <1>4 DEF x
    <3> QED BY <3>2, <3>3, <3>4
  <2> QED BY <2>1, <2>2, <2>3, <1>7
<1>9. y = z
  BY <1>5, <1>6, <1>7, <1>8, SeqEqual
<1> QED BY <1>9 DEF x, y, z, p, q, r

\* Two entries put before the others.
LEMMA WorkPush ==
  ASSUME NEW c, NEW w, WorkFits(w, c), NEW a, NEW b, Fits(a, c), Fits(b, c),
         ~ EndsArm(a), EndsArm(b) => w # <<>> /\ Head(w).at = "arms"
  PROVE  WorkFits(<<a, b>> \o w, c)
<1>1. WorkFits(<<b>> \o w, c)
  BY WorkCons
<1>2. WorkFits(<<a>> \o (<<b>> \o w), c)
  BY <1>1, WorkCons
<1>3. w \in Seq(Entries) /\ a \in Entries /\ b \in Entries
  BY DEF WorkFits, Fits
<1>4. \A x, y \in Entries : \A s \in Seq(Entries) : <<x>> \o (<<y>> \o s) = <<x, y>> \o s
  BY ConsTwice
<1>5. <<a>> \o (<<b>> \o w) = <<a, b>> \o w
  BY <1>3, <1>4, Zenon
<1> QED BY <1>2, <1>5

\* What is left after a statement.
LEMMA RestFits ==
  ASSUME NEW c, WorkFits(work, c), work # <<>>
  PROVE  WorkFits(Rest, c)
BY WorkTail DEF Rest

\* The depth of the stack is a natural number.
LEMMA DepthType ==
  ASSUME locals \in Seq(Locals), work \in Seq(Entries)
  PROVE  Matches \in Nat /\ Depth \in Nat
<1> DEFINE S == {k \in DOMAIN work : work[k].at = "arms"}
<1>1. DOMAIN work = 1..Len(work) /\ Len(work) \in Nat
  OBVIOUS
<1>2. IsFiniteSet(1..Len(work))
  BY <1>1, FS_Interval
<1>3. IsFiniteSet(S)
  BY <1>1, <1>2, FS_Subset
<1>4. Cardinality(S) \in Nat
  BY <1>3, FS_CardinalityType
<1>5. Matches \in Nat
  BY <1>4 DEF Matches
<1> QED BY <1>5 DEF Depth

\* How many locals a scope leaves.
LEMMA LeavingType ==
  ASSUME locals \in Seq(Locals)
  PROVE  Leaving \in 0..Len(locals)
<1> DEFINE S == {k \in DOMAIN locals : locals[k].depth >= scope_depth}
<1>1. DOMAIN locals = 1..Len(locals) /\ Len(locals) \in Nat
  OBVIOUS
<1>2. IsFiniteSet(1..Len(locals)) /\ Cardinality(1..Len(locals)) = Len(locals)
  BY <1>1, FS_Interval
<1>3. IsFiniteSet(S) /\ Cardinality(S) <= Len(locals)
  BY <1>1, <1>2, FS_Subset
<1>4. Cardinality(S) \in Nat
  BY <1>3, FS_CardinalityType
<1> QED BY <1>1, <1>3, <1>4 DEF Leaving

\* Entries with nothing to patch.
Plain == Places \ {"end_while", "end_for", "arms", "end_match"}

\* An entry with nothing to patch fits any code.
LEMMA EntryFits ==
  ASSUME NEW c, Sound(c), NEW at \in Plain
  PROVE  Fits(Entry(at), c) /\ Entry(at).at = at
<1>1. Len(c) \in Nat
  BY DEF Sound
<1> QED BY <1>1 DEF Plain, Entry, Entries, Fits, Patchable

\* An entry whose first instruction and depth are set.
LEMMA FirstEdit ==
  ASSUME NEW r \in Entries, NEW n \in Nat, NEW m \in Nat
  PROVE  LET e == [r EXCEPT !.first = n, !.before = m]
         IN  /\ e \in Entries /\ e.at = r.at /\ e.start = r.start
             /\ e.exit = r.exit /\ e.ends = r.ends
BY DEF Entries

\* The entry of a compound statement, when it begins.
LEMMA CompoundType ==
  ASSUME locals \in Seq(Locals), work \in Seq(Entries), Sound(code), NEW at \in Places
  PROVE  /\ Compound(at) \in Entries
         /\ Compound(at).at = at
         /\ Compound(at).start = 0
         /\ Compound(at).exit = 0
         /\ Compound(at).ends = {}
<1>1. Len(code) \in Nat /\ Depth \in Nat
  BY DepthType DEF Sound
<1>3. /\ Entry(at) \in Entries
      /\ Entry(at).at = at
      /\ Entry(at).start = 0
      /\ Entry(at).exit = 0
      /\ Entry(at).ends = {}
  BY DEF Entry, Entries
<1>4. Here(code) \in Nat
  BY <1>1 DEF Here
<1> DEFINE r == Entry(at)
           n == Here(code)
           m == Depth
           e == [r EXCEPT !.first = n, !.before = m]
<1>5. r \in Entries /\ n \in Nat /\ m \in Nat
  BY <1>1, <1>3, <1>4
<1>6. r.at = at /\ r.start = 0 /\ r.exit = 0 /\ r.ends = {}
  BY <1>3
<1>7. Compound(at) = e
  BY DEF Compound
<1> HIDE DEF r, n, m
<1>8. e \in Entries /\ e.at = r.at /\ e.start = r.start /\ e.exit = r.exit /\ e.ends = r.ends
  BY ZenonT(30), <1>5, FirstEdit
<1> QED BY <1>6, <1>7, <1>8

-----------------------------------------------------------------------------
(* The ends of scopes and loops.                                           *)

\* What is left of a range when a part of it leaves.
LEMMA DifferencesInRange ==
  \A a \in Nat : \A b \in 0..a : \E n \in 0..a : n = a - b
OBVIOUS

\* The end of a scope keeps code sound and locals locals.
LEMMA EndingScope ==
  ASSUME locals \in Seq(Locals), scope_depth \in Int, NEW c, Sound(c), end_scope(c)
  PROVE  Emits(c, code') /\ locals' \in Seq(Locals) /\ scope_depth' \in Int
<1>1. Len(locals) \in Nat /\ Leaving \in 0..Len(locals)
  BY LeavingType
<1>2. Emits(c, code')
  BY <1>1, EmittingPops DEF end_scope
<1>3. scope_depth' \in Int
  BY DEF end_scope
<1>4. locals' = SubSeq(locals, 1, Len(locals) - Leaving)
  BY DEF end_scope
<1>5. PICK n \in 0..Len(locals) : n = Len(locals) - Leaving
  BY <1>1, DifferencesInRange, Zenon
<1>6. SubSeq(locals, 1, n) \in Seq(Locals)
  BY <1>1, SubSeqProperties
<1> QED BY <1>2, <1>3, <1>4, <1>5, <1>6

\* The end of a loop patches its break, or the compiler crashes without one.
LEMMA EndingLoop ==
  ASSUME phase = "compile", NEW c, Sound(c), LoopsFit(loops, c), end_loop(c)
  PROVE  \/ phase' = "crashed"
         \/ phase' = "compile" /\ Emits(c, code') /\ LoopsFit(loops', code')
<1>1. CASE loops = <<>>
  BY <1>1 DEF end_loop
<1>2. CASE loops # <<>>
  <2>1. /\ loops \in Seq(Loops) /\ Len(loops) \in Nat /\ Len(loops) >= 1
        /\ DOMAIN loops = 1..Len(loops)
        /\ Head(loops) = loops[1]
    BY <1>2 DEF LoopsFit
  <2>2. Patchable(c, Head(loops).end)
    BY <2>1 DEF LoopsFit
  <2>3. Emits(c, patch_jump(c, Head(loops).end)) /\ Emits(c, c)
    BY <2>2, PatchingJump, EmitsItself
  <2>4. phase' = "compile" /\ loops' = Tail(loops)
        /\ code' = IF Head(loops).end # 0 THEN patch_jump(c, Head(loops).end) ELSE c
    BY <1>2 DEF end_loop
  <2>5. Emits(c, code')
    BY <2>3, <2>4
  <2>6. LoopsFit(Tail(loops), c)
    <3> DEFINE t == Tail(loops)
    <3>1. t \in Seq(Loops) /\ DOMAIN t = 1..(Len(loops) - 1) /\ \A k \in DOMAIN t : t[k] = loops[k + 1]
      BY <2>1
    <3> HIDE DEF t
    <3>2. \A k \in DOMAIN t : k + 1 \in DOMAIN loops
      BY <2>1, <3>1
    <3>3. LoopsFit(t, c)
      BY <3>1, <3>2 DEF LoopsFit
    <3> QED BY <3>3 DEF t
  <2>7. LoopsFit(Tail(loops), code')
    BY <2>5, <2>6, LoopsKept
  <2> QED BY <2>4, <2>5, <2>7
<1> QED BY <1>1, <1>2

\* A loop that begins at a place of the code fits it.
LEMMA BeginningLoop ==
  ASSUME NEW c, Sound(c), LoopsFit(loops, c), NEW start \in 1..(Len(c) + 1), NEW depth \in Nat,
         begin_loop(start, depth)
  PROVE  LoopsFit(loops', c)
<1> DEFINE l == [start |-> start, end |-> 0, depth |-> depth]
<1>1. Len(c) \in Nat
  BY DEF Sound
<1>2. l \in Loops /\ l.start \in 1..(Len(c) + 1) /\ Patchable(c, l.end)
  BY <1>1 DEF Loops, Patchable
<1>3. loops \in Seq(Loops) /\ Len(loops) \in Nat /\ DOMAIN loops = 1..Len(loops)
  BY DEF LoopsFit
<1> HIDE DEF l
<1> DEFINE m == <<l>> \o loops
<1>4. /\ m \in Seq(Loops)
      /\ Len(m) = Len(loops) + 1
      /\ DOMAIN m = 1..(Len(loops) + 1)
      /\ m[1] = l
      /\ \A k \in 1..Len(loops) : m[k + 1] = loops[k]
  BY <1>2, <1>3
<1> HIDE DEF m
<1>5. ASSUME NEW k \in DOMAIN m PROVE m[k].start \in 1..(Len(c) + 1) /\ Patchable(c, m[k].end)
  <2>1. CASE k = 1
    BY <2>1, <1>2, <1>4
  <2>2. CASE k # 1
    <3>1. k - 1 \in 1..Len(loops) /\ k = (k - 1) + 1
      BY <2>2, <1>3, <1>4
    <3>2. m[k] = loops[k - 1]
      BY <3>1, <1>4
    <3> QED BY <3>1, <3>2, <1>3 DEF LoopsFit
  <2> QED BY <2>1, <2>2
<1>6. loops' = m
  BY DEF begin_loop, m, l
<1> QED BY <1>4, <1>5, <1>6 DEF LoopsFit

\* The end of the body jumps back and patches the exit.
LEMMA Repeating ==
  ASSUME NEW c, Sound(c), NEW entry, Fits(entry, c), entry.at \in {"end_while", "end_for"}
  PROVE  Emits(c, Repeat(c, entry))
<1> DEFINE again == emit_loop(c, "loop", entry.start)
           exit == patch_jump(again, entry.exit)
<1>1. entry.start \in 1..(Len(c) + 1) /\ Patchable(c, entry.exit) /\ "loop" \in Backward
  BY DEF Fits, Backward
<1>2. c \in Seq(Instructions)
  BY DEF Sound
<1>3. Emits(c, again) /\ Sound(again) /\ again \in Seq(Instructions)
  BY <1>1, EmittingLoop DEF Emits, Sound
<1> HIDE DEF again
<1>4. Patchable(again, entry.exit)
  BY <1>1, <1>2, <1>3, PatchableLater DEF Emits
<1>5. Emits(again, exit) /\ Sound(exit) /\ exit \in Seq(Instructions)
  BY <1>3, <1>4, PatchingJump DEF Emits, Sound
<1> HIDE DEF exit
<1>6. Emits(exit, emit_byte(exit, "pop"))
  BY <1>5, EmittingPop
<1>7. Emits(c, exit)
  BY <1>2, <1>3, <1>5, EmitsOn
<1>8. Emits(c, emit_byte(exit, "pop"))
  BY <1>2, <1>6, <1>7, EmitsOn
<1> QED BY <1>3, <1>8 DEF Repeat, again, exit

-----------------------------------------------------------------------------
(* Steps of the compiler.                                                  *)

\* What the invariant says while the text is compiled.
Compiling ==
  /\ phase = "compile"
  /\ Sound(code)
  /\ code \in Seq(Instructions)
  /\ Len(code) \in Nat
  /\ locals \in Seq(Locals)
  /\ scope_depth \in Int
  /\ declared \in Nat
  /\ loops \in Seq(Loops)
  /\ LoopsFit(loops, code)
  /\ work \in Seq(Entries)
  /\ WorkFits(work, code)
  /\ pc = 1

\* What the invariant gives while the text is compiled.
LEMMA CompilingFacts ==
  ASSUME CompileInv, phase = "compile"
  PROVE  Compiling
BY DEF CompileInv, Compiling, Sound, LoopsFit, WorkFits

\* What an action that goes on compiling has to show.
LEMMA GoesOn ==
  ASSUME phase' = "compile", pc' = 1, Sound(code'), locals' \in Seq(Locals), scope_depth' \in Int,
         declared' \in Nat, LoopsFit(loops', code'), WorkFits(work', code')
  PROVE  FormInv'
BY DEF FormInv, CompileInv, RunInv

\* The same for one that leaves the locals and the loops alone.
LEMMA GoesOnAfter ==
  ASSUME Compiling, phase' = "compile", pc' = pc, Emits(code, code'),
         UNCHANGED <<locals, scope_depth, loops, declared>>, WorkFits(work', code')
  PROVE  FormInv'
<1>1. LoopsFit(loops, code')
  BY LoopsKept DEF Compiling
<1>2. Sound(code')
  BY DEF Emits
<1> QED BY <1>1, <1>2, GoesOn DEF Compiling

\* An entry whose loop start is set.
LEMMA StartEdit ==
  ASSUME NEW r \in Entries, NEW s \in Nat
  PROVE  LET e == [r EXCEPT !.start = s]
         IN  /\ e \in Entries /\ e.start = s /\ e.at = r.at
             /\ e.exit = r.exit /\ e.ends = r.ends
BY DEF Entries

\* Entries with some fields changed.
LEMMA EntryEdits ==
  ASSUME NEW r \in Entries, NEW s \in Nat, NEW x \in Nat
  PROVE  /\ LET e == [r EXCEPT !.exit = x]
            IN  /\ e \in Entries /\ e.exit = x /\ e.at = r.at
                /\ e.start = r.start /\ e.ends = r.ends
         /\ LET e == [r EXCEPT !.start = s]
            IN  /\ e \in Entries /\ e.start = s /\ e.at = r.at
                /\ e.exit = r.exit /\ e.ends = r.ends
         /\ LET e == [r EXCEPT !.start = s, !.exit = x]
            IN  /\ e \in Entries /\ e.start = s /\ e.exit = x
                /\ e.at = r.at /\ e.ends = r.ends
BY DEF Entries

\* The entry for the end of a compound statement that has an exit to patch.
LEMMA ExitFits ==
  ASSUME Compiling, NEW c, Sound(c), NEW at \in Plain, NEW exit, Patchable(c, exit)
  PROVE  /\ Fits([Compound(at) EXCEPT !.exit = exit], c)
         /\ [Compound(at) EXCEPT !.exit = exit].at = at
<1> DEFINE r == Compound(at)
<1>1. r \in Entries /\ r.at = at /\ r.start = 0 /\ r.ends = {}
  BY CompoundType DEF Compiling, Plain
<1>2. exit \in Nat /\ Len(c) \in Nat
  BY DEF Patchable, Sound
<1> HIDE DEF r
<1> DEFINE e == [r EXCEPT !.exit = exit]
<1>3. e \in Entries /\ e.exit = exit /\ e.at = r.at
  BY <1>1, <1>2, EntryEdits
<1> HIDE DEF e
<1>4. Fits(e, c) /\ e.at = at
  BY <1>1, <1>3 DEF Fits, Plain
<1> QED BY <1>4 DEF e, r

\* The entry of a compound statement with nothing to patch fits any code.
LEMMA CompoundFits ==
  ASSUME Compiling, NEW c, Sound(c), NEW at \in Plain
  PROVE  Fits(Compound(at), c) /\ Compound(at).at = at
<1>1. Compound(at) \in Entries /\ Compound(at).at = at /\ Compound(at).exit = 0
  BY CompoundType DEF Compiling, Plain
<1>2. Len(c) \in Nat
  BY DEF Sound
<1> QED BY <1>1, <1>2 DEF Fits, Plain, Patchable

\* A body follows, and then the end of the statement.
LEMMA BodyFollows ==
  ASSUME Compiling, NEW c, Emits(code, c), work # <<>>, NEW at \in Plain, ~ EndsArm(Entry(at)),
         NEW entry, Fits(entry, c), ~ EndsArm(entry)
  PROVE  WorkFits(<<Entry(at), entry>> \o Rest, c)
<1>1. WorkFits(Rest, c)
  <2>1. WorkFits(Rest, code)
    BY RestFits DEF Compiling
  <2> QED BY <2>1, WorkKept DEF Compiling
<1>2. Fits(Entry(at), c)
  BY EntryFits DEF Emits
<1> QED BY <1>1, <1>2, WorkPush

\* A single statement follows, and then the end of the one around it.
LEMMA StatementFollows ==
  ASSUME Compiling, NEW c, Emits(code, c), work # <<>>, NEW entry, Fits(entry, c), ~ EndsArm(entry)
  PROVE  WorkFits(<<Entry("statement"), entry>> \o Rest, c)
<1>1. "statement" \in Plain
  BY DEF Plain, Places
<1>2. ~ EndsArm(Entry("statement"))
  BY DEF EndsArm, Entry
<1> QED BY <1>1, <1>2, BodyFollows

\* A statement is complete and the list or the statement around it goes on.
LEMMA StatementDone ==
  ASSUME Compiling, NEW c, Emits(code, c), work # <<>>
  PROVE  WorkFits(Rest, c)
<1>1. WorkFits(Rest, code)
  BY RestFits DEF Compiling
<1> QED BY <1>1, WorkKept DEF Compiling

\* An end is reached.
LEMMA EndReached ==
  ASSUME Compiling, NEW c, Emits(code, c), work # <<>>
  PROVE  WorkFits(Tail(work), c) /\ Fits(Top, code) /\ Fits(Top, c)
<1>1. WorkFits(Tail(work), code) /\ Fits(Top, code)
  BY WorkTail DEF Compiling, Top
<1>2. WorkFits(Tail(work), c)
  BY <1>1, WorkKept DEF Compiling
<1>3. Fits(Top, c)
  BY <1>1, FitsLater DEF Compiling
<1> QED BY <1>1, <1>2, <1>3

\* No code at all keeps code sound.
LEMMA Nothing ==
  ASSUME Compiling
  PROVE  Emits(code, code)
BY EmitsItself DEF Compiling

\* These instructions do not go back.
LEMMA OpsKnown ==
  {"push", "pop", "define_global", "return", "break", "jump", "match"} \subseteq Ops \ Backward
BY DEF Ops, Backward

-----------------------------------------------------------------------------
(* Each action of the compiler.                                            *)

\* An expression statement keeps the invariant.
LEMMA Expression ==
  ASSUME Compiling, expr_statement, pc' = pc
  PROVE  FormInv'
<1>1. PICK e : Emits(code, e) /\ code' = emit_byte(e, "pop")
  <2>1. CASE code' = emit_byte(Operand(code), "pop")
    BY <2>1, EmittingOperand DEF Compiling
  <2>2. CASE \E e \in Expressions(code) : code' = emit_byte(e, "pop")
    BY <2>2, EmittingExpression DEF Compiling
  <2>3. CASE \E e \in Branching(code) : code' = emit_byte(e, "pop")
    BY <2>3, EmittingBranch DEF Compiling
  <2> QED BY <2>1, <2>2, <2>3 DEF expr_statement
<1>2. Emits(e, code')
  BY <1>1, EmittingPop DEF Emits
<1>3. Emits(code, code')
  BY <1>1, <1>2, EmitsOn DEF Compiling
<1>4. work # <<>> /\ work' = Rest
  BY DEF expr_statement, Begin
<1>5. WorkFits(Rest, code)
  BY <1>4, RestFits DEF Compiling
<1>6. WorkFits(work', code')
  BY <1>3, <1>4, <1>5, WorkKept DEF Compiling
<1>7. phase' = "compile" /\ UNCHANGED <<locals, scope_depth, loops, declared>>
  BY DEF expr_statement, Compiling
<1> QED BY <1>3, <1>6, <1>7, GoesOnAfter

\* A variable declaration keeps the invariant.
LEMMA Declaration ==
  ASSUME Compiling, var_declaration, pc' = pc
  PROVE  FormInv'
<1> DEFINE o == Operand(code)
<1>1. Emits(code, o) /\ Sound(o) /\ Len(o) > 0
  BY EmittingOperand DEF Compiling, Emits, Sound
<1>2. phase' = "compile" /\ scope_depth' = scope_depth /\ loops' = loops /\ work' = Rest /\ work # <<>>
  BY DEF var_declaration, Begin, Compiling
<1>3. /\ Emits(code, code')
      /\ locals' \in Seq(Locals)
      /\ declared' \in Nat
  <2>1. CASE code' = emit_byte(o, "define_global") /\ UNCHANGED <<locals, declared>>
    <3> HIDE DEF o
    <3>1. Emits(o, code')
      BY <1>1, <2>1, EmittingByte, OpsKnown
    <3>2. Emits(code, code')
      BY <1>1, <3>1, EmitsOn DEF Compiling
    <3> QED BY <3>2, <2>1 DEF Compiling
  <2>2. CASE \E x \in Names : /\ declared' = declared + 1
                              /\ code' = Defining(o, declared')
                              /\ locals' = add_local(x, declared')
    <3> HIDE DEF o
    <3>1. PICK x \in Names : locals' = add_local(x, declared')
      BY <2>2
    <3>2. declared' \in Nat
      BY <2>2 DEF Compiling
    <3>3. Emits(o, code')
      BY <1>1, <2>2, <3>2, DefiningGhost
    <3>4. Emits(code, code')
      BY <1>1, <3>3, EmitsOn DEF Compiling
    <3>5. [name |-> x, depth |-> scope_depth, id |-> declared'] \in Locals
      BY <3>2 DEF Compiling, Locals
    <3>6. locals' \in Seq(Locals)
      BY <3>1, <3>5, AppendProperties DEF add_local, Compiling
    <3> QED BY <3>2, <3>4, <3>6
  <2> QED BY <2>1, <2>2 DEF var_declaration
<1>4. LoopsFit(loops', code')
  BY <1>2, <1>3, LoopsKept DEF Compiling
<1>5. WorkFits(work', code')
  BY <1>2, <1>3, StatementDone
<1> QED BY <1>2, <1>3, <1>4, <1>5, GoesOn DEF Compiling, Emits

\* The place of the jump is remembered as one to patch.
LEMMA Break ==
  ASSUME Compiling, break_statement, pc' = pc
  PROVE  FormInv'
<1>1. /\ phase' = "compile" /\ work' = Rest /\ work # <<>> /\ loops # <<>>
      /\ UNCHANGED <<locals, scope_depth, declared>>
  BY DEF break_statement, Begin, Compiling
<1>2. CASE UNCHANGED <<code, loops>>
  <2>1. Emits(code, code')
    BY <1>2, Nothing
  <2>2. WorkFits(work', code')
    BY <1>1, <2>1, StatementDone
  <2> QED BY <1>1, <1>2, <2>1, <2>2, GoesOnAfter
<1>3. CASE code' = emit_jump(code, "break") /\ loops' = [loops EXCEPT ![1].end = Len(code')]
  <2>1. Emits(code, code') /\ Len(code') = Len(code) + 1 /\ Patchable(code', Len(code) + 1)
    BY <1>3, EmittingJump, OpsKnown DEF Compiling
  <2>2. LoopsFit(loops, code')
    BY <2>1, LoopsKept DEF Compiling
  <2> DEFINE n == Len(code')
             m == [loops EXCEPT ![1].end = n]
  <2>3. n \in Nat /\ Patchable(code', n) /\ loops' = m
    BY <1>3, <2>1 DEF Compiling
  <2>4. /\ loops \in Seq(Loops) /\ DOMAIN loops = 1..Len(loops) /\ Len(loops) \in Nat
        /\ 1 \in DOMAIN loops
    BY <1>1 DEF Compiling
  <2> HIDE DEF n
  <2>5. /\ DOMAIN m = 1..Len(loops)
        /\ m = [k \in DOMAIN loops |-> m[k]]
        /\ m[1] = [loops[1] EXCEPT !.end = n]
        /\ \A k \in DOMAIN loops : k # 1 => m[k] = loops[k]
    BY <2>4
  <2>6. loops[1] \in Loops
    BY <2>4
  <2>7. m[1] \in Loops /\ m[1].start = loops[1].start /\ m[1].end = n
    BY <2>3, <2>5, <2>6 DEF Loops
  <2> HIDE DEF m
  <2>8. \A k \in DOMAIN m : m[k] \in Loops
    BY <2>4, <2>5, <2>7
  <2>9. m \in Seq(Loops)
    BY <2>4, <2>5, <2>8
  <2>10. \A k \in DOMAIN m : m[k].start \in 1..(Len(code') + 1) /\ Patchable(code', m[k].end)
    BY <2>2, <2>3, <2>4, <2>5, <2>7 DEF LoopsFit
  <2>11. LoopsFit(loops', code')
    BY <2>3, <2>9, <2>10 DEF LoopsFit
  <2>12. WorkFits(work', code')
    BY <1>1, <2>1, StatementDone
  <2> QED BY <1>1, <2>1, <2>11, <2>12, GoesOn DEF Compiling, Emits
<1> QED BY <1>2, <1>3 DEF break_statement

\* A continue jumps back to a place in the code.
LEMMA Continue ==
  ASSUME Compiling, continue_statement, pc' = pc
  PROVE  FormInv'
<1>1. /\ phase' = "compile" /\ work' = Rest /\ work # <<>> /\ loops # <<>>
      /\ UNCHANGED <<locals, scope_depth, loops, declared>>
      /\ code' = emit_loop(code, "continue", Head(loops).start)
  BY DEF continue_statement, Begin, Compiling
<1>2. Head(loops).start \in 1..(Len(code) + 1)
  <2>1. 1 \in DOMAIN loops /\ Head(loops) = loops[1]
    BY <1>1 DEF Compiling
  <2> QED BY <2>1 DEF Compiling, LoopsFit
<1>3. Emits(code, code')
  <2>1. "continue" \in Backward
    BY DEF Backward
  <2> QED BY <1>1, <1>2, <2>1, EmittingLoop DEF Compiling
<1>4. WorkFits(work', code')
  BY <1>1, <1>3, StatementDone
<1> QED BY <1>1, <1>3, <1>4, GoesOnAfter

\* A return keeps the invariant.
LEMMA Return ==
  ASSUME Compiling, return_statement, pc' = pc
  PROVE  FormInv'
<1>1. /\ phase' = "compile" /\ work' = Rest /\ work # <<>>
      /\ UNCHANGED <<locals, scope_depth, loops, declared>>
  BY DEF return_statement, Begin, Compiling
<1>2. PICK e \in {code, Operand(code)} : code' = emit_byte(e, "return")
  BY DEF return_statement
<1>3. Emits(code, e) /\ Sound(e)
  BY Nothing, EmittingOperand DEF Compiling, Emits
<1>4. Emits(e, code')
  BY <1>2, <1>3, EmittingByte, OpsKnown
<1>5. Emits(code, code')
  BY <1>3, <1>4, EmitsOn DEF Compiling
<1>6. WorkFits(work', code')
  BY <1>1, <1>5, StatementDone
<1> QED BY <1>1, <1>5, <1>6, GoesOnAfter

\* The beginning of a block keeps the invariant.
LEMMA Block ==
  ASSUME Compiling, block_statement, pc' = pc
  PROVE  FormInv'
<1>1. /\ phase' = "compile" /\ work # <<>>
      /\ UNCHANGED <<code, locals, loops, declared>>
      /\ scope_depth' = scope_depth + 1
      /\ work' = <<Entry("declarations"), Compound("end_block")>> \o Rest
  BY DEF block_statement, Begin, begin_scope, Compiling
<1>2. "declarations" \in Plain /\ "end_block" \in Plain
  BY DEF Plain, Places
<1>3. Fits(Compound("end_block"), code) /\ Compound("end_block").at = "end_block"
  BY <1>2, CompoundFits DEF Compiling
<1>4. ~ EndsArm(Compound("end_block")) /\ ~ EndsArm(Entry("declarations"))
  BY <1>3 DEF EndsArm, Entry
<1>5. WorkFits(work', code)
  BY <1>1, <1>2, <1>3, <1>4, Nothing, BodyFollows
<1> QED BY <1>1, <1>5, GoesOn DEF Compiling

\* The block of an arm keeps the invariant.
LEMMA ArmBlock ==
  ASSUME Compiling, arm_block, pc' = pc
  PROVE  FormInv'
<1>1. /\ phase' = "compile" /\ work # <<>>
      /\ UNCHANGED <<code, locals, scope_depth, loops, declared>>
      /\ work' = <<Entry("declarations")>> \o Rest
  BY DEF arm_block, Begin, Compiling
<1>2. "declarations" \in Plain
  BY DEF Plain, Places
<1>3. Fits(Entry("declarations"), code) /\ ~ EndsArm(Entry("declarations"))
  BY <1>2, EntryFits DEF Compiling, EndsArm
<1>4. WorkFits(Rest, code)
  BY <1>1, RestFits DEF Compiling
<1>5. WorkFits(work', code)
  BY <1>1, <1>3, <1>4, WorkCons
<1> QED BY <1>1, <1>5, GoesOn DEF Compiling

\* The end of a list of declarations keeps the invariant.
LEMMA EndOfDeclarations ==
  ASSUME Compiling, end_declarations, pc' = pc
  PROVE  FormInv'
<1>1. /\ phase' = "compile" /\ work # <<>>
      /\ UNCHANGED <<code, locals, scope_depth, loops, declared>>
      /\ work' = Tail(work)
  BY DEF end_declarations, Resume, Compiling
<1>2. WorkFits(work', code)
  BY <1>1, Nothing, EndReached
<1> QED BY <1>1, <1>2, GoesOn DEF Compiling

\* The end of a block keeps the invariant.
LEMMA EndOfBlock ==
  ASSUME Compiling, end_block, pc' = pc
  PROVE  FormInv'
<1>1. /\ phase' = "compile" /\ work # <<>> /\ UNCHANGED <<loops, declared>>
      /\ end_scope(code) /\ work' = Tail(work)
  BY DEF end_block, Resume, Compiling
<1>2. Emits(code, code') /\ locals' \in Seq(Locals) /\ scope_depth' \in Int
  BY <1>1, EndingScope DEF Compiling
<1>3. WorkFits(work', code')
  BY <1>1, <1>2, EndReached
<1>4. LoopsFit(loops', code')
  BY <1>1, <1>2, LoopsKept DEF Compiling
<1> QED BY <1>1, <1>2, <1>3, <1>4, GoesOn DEF Compiling, Emits

\* The condition of an if leaves one jump to patch.
LEMMA If ==
  ASSUME Compiling, if_statement, pc' = pc
  PROVE  FormInv'
<1> DEFINE o == Operand(code)
           entry == [Compound("end_then") EXCEPT !.exit = Len(code') - 1]
<1>1. /\ phase' = "compile" /\ work # <<>>
      /\ UNCHANGED <<locals, scope_depth, loops, declared>>
      /\ code' = Condition(o)
      /\ work' = <<Entry("statement"), entry>> \o Rest
  BY DEF if_statement, Begin, Compiling
<1>2. Emits(code, o) /\ Sound(o) /\ Len(o) \in Nat
  BY EmittingOperand DEF Compiling, Emits, Sound
<1> HIDE DEF o
<1>3. Emits(o, code') /\ Len(code') = Len(o) + 2 /\ Patchable(code', Len(o) + 1)
  BY <1>1, <1>2, EmittingCondition
<1>4. Emits(code, code') /\ Sound(code')
  BY <1>2, <1>3, EmitsOn DEF Compiling, Emits
<1>5. Patchable(code', Len(code') - 1)
  BY <1>2, <1>3
<1>6. "end_then" \in Plain
  BY DEF Plain, Places
<1>7. Fits(entry, code') /\ entry.at = "end_then"
  BY <1>4, <1>5, <1>6, ExitFits
<1> HIDE DEF entry
<1>8. WorkFits(work', code')
  BY <1>1, <1>4, <1>7, StatementFollows DEF EndsArm
<1> QED BY <1>1, <1>4, <1>8, GoesOnAfter

\* The end of the first branch patches the condition's jump and leaves one of its
\* own.
LEMMA Then ==
  ASSUME Compiling, end_then, pc' = pc
  PROVE  FormInv'
<1> DEFINE jump == emit_jump(code, "jump")
           patched == emit_byte(patch_jump(jump, Top.exit), "pop")
           n == Len(jump)
           rest == [Top EXCEPT !.at = "end_if", !.exit = n]
<1>1. /\ phase' = "compile" /\ work # <<>>
      /\ UNCHANGED <<locals, scope_depth, loops, declared>>
      /\ code' = patched
      /\ \/ work' = <<Entry("statement"), rest>> \o Tail(work)
         \/ work' = <<rest>> \o Tail(work)
  BY DEF end_then, Resume, Compiling
<1>2. Fits(Top, code) /\ Patchable(code, Top.exit) /\ Top \in Entries /\ Top.at = "end_then"
  BY <1>1, Nothing, EndReached DEF Fits, end_then, Resume
<1>3. Emits(code, patched) /\ n = Len(code) + 1 /\ Patchable(patched, Len(code) + 1)
  BY <1>2, Branching2 DEF Compiling
<1> HIDE DEF patched
<1>4. Emits(code, code') /\ Patchable(code', n) /\ n \in Nat /\ Sound(code')
  BY <1>1, <1>3 DEF Compiling, Emits
<1>5. WorkFits(Tail(work), code') /\ Fits(Top, code')
  BY <1>1, <1>4, EndReached
<1> HIDE DEF n
<1>6. rest \in Entries /\ rest.exit = n /\ rest.at = "end_if"
  <2> DEFINE r == Top
  <2>1. r \in Entries /\ n \in Nat
    BY <1>2, <1>4
  <2> HIDE DEF r
  <2>2. "end_if" \in Places
    BY DEF Places
  <2>3. LET e == [r EXCEPT !.at = "end_if", !.exit = n]
        IN  e \in Entries /\ e.exit = n /\ e.at = "end_if"
    BY <2>1, <2>2 DEF Entries
  <2> QED BY <2>3 DEF r
<1> HIDE DEF rest
<1>7. Fits(rest, code') /\ ~ EndsArm(rest)
  BY <1>4, <1>6 DEF Fits, EndsArm
<1>8. WorkFits(<<rest>> \o Tail(work), code')
  BY <1>5, <1>7, WorkCons
<1>9. WorkFits(<<Entry("statement"), rest>> \o Tail(work), code')
  <2>1. "statement" \in Plain /\ ~ EndsArm(Entry("statement"))
    BY DEF Plain, Places, EndsArm, Entry
  <2>2. Fits(Entry("statement"), code')
    BY <1>4, <2>1, EntryFits
  <2> QED BY <1>5, <1>7, <2>1, <2>2, WorkPush
<1>10. WorkFits(work', code')
  BY <1>1, <1>8, <1>9
<1> QED BY <1>1, <1>4, <1>10, GoesOnAfter

\* The end of an if patches the last jump.
LEMMA EndOfIf ==
  ASSUME Compiling, end_if, pc' = pc
  PROVE  FormInv'
<1>1. /\ phase' = "compile" /\ work # <<>>
      /\ UNCHANGED <<locals, scope_depth, loops, declared>>
      /\ code' = patch_jump(code, Top.exit) /\ work' = Tail(work)
  BY DEF end_if, Resume, Compiling
<1>2. Patchable(code, Top.exit)
  BY <1>1, Nothing, EndReached DEF Fits
<1>3. Emits(code, code')
  BY <1>1, <1>2, PatchingJump DEF Compiling
<1>4. WorkFits(work', code')
  BY <1>1, <1>3, EndReached
<1> QED BY <1>1, <1>3, <1>4, GoesOnAfter

\* The entry of a while or a for, with a place to go back to and an exit to patch.
LEMMA LoopEntryFits ==
  ASSUME NEW c, Sound(c), NEW r \in Entries, r.at \in {"end_while", "end_for"},
         NEW start \in 1..(Len(c) + 1), NEW exit, Patchable(c, exit)
  PROVE  /\ Fits([r EXCEPT !.start = start, !.exit = exit], c)
         /\ [r EXCEPT !.start = start, !.exit = exit].at = r.at
<1>1. Len(c) \in Nat /\ exit \in Nat /\ start \in Nat
  BY DEF Sound, Patchable
<1> DEFINE e == [r EXCEPT !.start = start, !.exit = exit]
<1>2. e \in Entries
  BY <1>1 DEF Entries
<1>3. e.start = start /\ e.exit = exit /\ e.at = r.at
  BY <1>1 DEF Entries
<1> HIDE DEF e
<1>4. Fits(e, c)
  BY <1>2, <1>3 DEF Fits
<1> QED BY <1>3, <1>4 DEF e

\* The beginning of a while keeps the invariant.
LEMMA While ==
  ASSUME Compiling, while_statement, pc' = pc
  PROVE  FormInv'
<1> DEFINE o == Operand(code)
           r == Compound("end_while")
           exit == Len(code') - 1
           entry == [r EXCEPT !.start = Here(code), !.exit = exit]
<1>1. /\ phase' = "compile" /\ work # <<>>
      /\ UNCHANGED <<locals, scope_depth, declared>>
      /\ code' = Condition(o)
      /\ begin_loop(Here(code), Depth)
      /\ work' = <<Entry("statement"), entry>> \o Rest
  BY DEF while_statement, Begin, Compiling
<1>2. Emits(code, o) /\ Sound(o) /\ Len(o) = Len(code) + 1
  BY EmittingOperand DEF Compiling, Emits
<1> HIDE DEF o
<1>3. Emits(o, code') /\ Len(code') = Len(o) + 2 /\ Patchable(code', Len(o) + 1)
  BY <1>1, <1>2, EmittingCondition
<1>4. Emits(code, code') /\ Sound(code')
  BY <1>2, <1>3, EmitsOn DEF Compiling, Emits
<1>5. Patchable(code', exit) /\ Here(code) \in 1..(Len(code) + 1) /\ Here(code) \in 1..(Len(code') + 1)
  BY <1>2, <1>3 DEF Compiling, Here
<1> HIDE DEF exit
<1>6. r \in Entries /\ r.at = "end_while"
  BY CompoundType DEF Compiling, Places
<1> HIDE DEF r
<1>7. Fits(entry, code') /\ entry.at = "end_while"
  <2>1. PICK start : start = Here(code)
    OBVIOUS
  <2>2. PICK c : c = code'
    OBVIOUS
  <2>3. PICK x : x = exit
    OBVIOUS
  <2>4. Sound(c) /\ start \in 1..(Len(c) + 1) /\ Patchable(c, x) /\ r.at \in {"end_while", "end_for"}
    BY <1>4, <1>5, <1>6, <2>1, <2>2, <2>3
  <2>5. Fits([r EXCEPT !.start = start, !.exit = x], c)
    BY <1>6, <2>4, LoopEntryFits
  <2>6. [r EXCEPT !.start = start, !.exit = x].at = r.at
    BY <1>6 DEF Entries
  <2> QED BY <1>6, <2>1, <2>2, <2>3, <2>5, <2>6
<1> HIDE DEF entry
<1>8. WorkFits(work', code')
  BY <1>1, <1>4, <1>7, StatementFollows DEF EndsArm
<1>9. LoopsFit(loops', code)
  BY <1>1, <1>5, DepthType, BeginningLoop DEF Compiling
<1>10. LoopsFit(loops', code')
  BY <1>4, <1>9, LoopsKept DEF Compiling
<1> QED BY <1>1, <1>4, <1>8, <1>10, GoesOn DEF Compiling

\* The beginning of a loop without condition keeps the invariant.
LEMMA LoopStatement ==
  ASSUME Compiling, loop_statement, pc' = pc
  PROVE  FormInv'
<1> DEFINE r == Compound("end_while")
           entry == [r EXCEPT !.start = Here(code)]
<1>1. /\ phase' = "compile" /\ work # <<>>
      /\ UNCHANGED <<code, locals, scope_depth, declared>>
      /\ begin_loop(Here(code), Depth)
      /\ work' = <<Entry("statement"), entry>> \o Rest
  BY DEF loop_statement, Begin, Compiling
<1>2. Here(code) \in 1..(Len(code) + 1) /\ Here(code) \in Nat
  BY DEF Compiling, Here
<1>3. r \in Entries /\ r.at = "end_while" /\ r.exit = 0
  BY CompoundType DEF Compiling, Places
<1> HIDE DEF r
<1>4. entry \in Entries /\ entry.start = Here(code) /\ entry.at = "end_while" /\ entry.exit = 0
  BY <1>2, <1>3, EntryEdits
<1> HIDE DEF entry
<1>5. Fits(entry, code)
  BY <1>2, <1>4 DEF Fits, Patchable, Compiling
<1>6. WorkFits(work', code)
  BY <1>1, <1>4, <1>5, Nothing, StatementFollows DEF EndsArm
<1>7. LoopsFit(loops', code)
  BY <1>1, <1>2, DepthType, BeginningLoop DEF Compiling
<1> QED BY <1>1, <1>6, <1>7, GoesOn DEF Compiling

\* end_while and end_for.
LEMMA EndOfLoop ==
  ASSUME Compiling, end_while \/ end_for, pc' = pc
  PROVE  FormInv'
<1> DEFINE c == Repeat(code, Top)
<1>1. /\ work # <<>> /\ Top.at \in {"end_while", "end_for"}
      /\ UNCHANGED <<locals, scope_depth, declared>>
      /\ end_loop(c) /\ work' = Tail(work)
  BY DEF end_while, end_for, Resume
<1>2. Emits(code, c)
  <2>1. Fits(Top, code)
    BY <1>1, Nothing, EndReached
  <2> QED BY <1>1, <2>1, Repeating DEF Compiling
<1> HIDE DEF c
<1>3. LoopsFit(loops, c) /\ Sound(c)
  BY <1>2, LoopsKept DEF Compiling, Emits
<1>4. CASE phase' = "crashed"
  BY <1>4 DEF FormInv, CompileInv, RunInv
<1>5. CASE phase' = "compile" /\ Emits(c, code') /\ LoopsFit(loops', code')
  <2>1. Emits(code, code')
    BY <1>2, <1>5, EmitsOn DEF Compiling
  <2>2. WorkFits(work', code')
    BY <1>1, <2>1, EndReached
  <2> QED BY <1>1, <1>5, <2>1, <2>2, GoesOn DEF Compiling, Emits
<1> QED BY <1>1, <1>3, <1>4, <1>5, EndingLoop DEF Compiling

\* The entry of a for.
LEMMA ForEntryFits ==
  ASSUME NEW c, Sound(c), NEW f \in Nat, NEW b \in Nat, NEW start \in 1..(Len(c) + 1),
         NEW x, Patchable(c, x)
  PROVE  Fits([Entry("end_for") EXCEPT !.first = f, !.before = b, !.start = start, !.exit = x], c)
<1> DEFINE r == Entry("end_for")
           e == [r EXCEPT !.first = f, !.before = b, !.start = start, !.exit = x]
<1>1. Len(c) \in Nat /\ x \in Nat /\ start \in Nat
  BY DEF Sound, Patchable
<1>2. r \in Entries /\ r.at = "end_for"
  BY DEF Entry, Entries, Places
<1> HIDE DEF r
<1>3. e \in Entries
  BY <1>1, <1>2 DEF Entries
<1>4. e.start = start /\ e.exit = x /\ e.at = r.at
  BY <1>1, <1>2 DEF Entries
<1> HIDE DEF e
<1>5. Fits(e, c)
  BY <1>2, <1>3, <1>4 DEF Fits
<1> QED BY <1>5 DEF e, r

\* The increment, which comes before the body, and the jump over it.
LEMMA EmittingIncrement ==
  ASSUME NEW c, Sound(c), NEW start \in 1..(Len(c) + 1)
  PROVE  LET jump == emit_jump(c, "jump")
             next == emit_loop(emit_byte(Operand(jump), "pop"), "loop", start)
         IN  Emits(c, patch_jump(next, Len(jump))) /\ Len(jump) = Len(c) + 1 /\ Emits(c, jump)
<1> DEFINE jump == emit_jump(c, "jump")
           o == Operand(jump)
           popped == emit_byte(o, "pop")
           next == emit_loop(popped, "loop", start)
<1>1. Emits(c, jump) /\ Len(jump) = Len(c) + 1 /\ Patchable(jump, Len(c) + 1)
  BY EmittingJump, OpsKnown
<1>2. Sound(jump) /\ jump \in Seq(Instructions) /\ c \in Seq(Instructions) /\ Len(c) \in Nat
  BY <1>1 DEF Emits, Sound
<1> HIDE DEF jump
<1>3. Emits(jump, o) /\ Sound(o) /\ Len(o) = Len(jump) + 1
  BY <1>2, EmittingOperand DEF Emits
<1> HIDE DEF o
<1>4. Emits(o, popped) /\ Sound(popped) /\ Len(popped) = Len(o) + 1
  BY <1>3, EmittingPop DEF Emits
<1> HIDE DEF popped
<1>5. start \in 1..(Len(popped) + 1) /\ "loop" \in Backward
  BY <1>1, <1>2, <1>3, <1>4 DEF Backward
<1>6. Emits(popped, next) /\ Sound(next) /\ next \in Seq(Instructions)
  BY <1>4, <1>5, EmittingLoop DEF Emits, Sound
<1> HIDE DEF next
<1>7. Emits(jump, popped)
  BY <1>2, <1>3, <1>4, EmitsOn
<1>8. Emits(jump, next)
  BY <1>2, <1>6, <1>7, EmitsOn
<1>9. Patchable(next, Len(jump))
  BY <1>1, <1>2, <1>6, <1>8, PatchableLater DEF Emits
<1>10. Emits(next, patch_jump(next, Len(jump)))
  BY <1>6, <1>9, PatchingJump
<1>11. Emits(jump, patch_jump(next, Len(jump)))
  BY <1>2, <1>8, <1>10, EmitsOn
<1>12. Emits(c, patch_jump(next, Len(jump)))
  BY <1>1, <1>2, <1>11, EmitsOn
<1> QED BY <1>1, <1>12 DEF next, popped, o, jump

\* The beginning of a for keeps the invariant, with and without its parts.
LEMMA For ==
  ASSUME Compiling, for_statement, pc' = pc
  PROVE  FormInv'
<1>1. phase' = "compile" /\ work # <<>> /\ scope_depth' = scope_depth + 1
  BY DEF for_statement, Begin, begin_scope, Compiling
<1>2. PICK var \in Names \cup {"none"}, condition \in BOOLEAN, increment \in BOOLEAN :
       LET init  == IF var = "none" THEN code ELSE Defining(Operand(code), declared')
           test  == IF condition THEN Condition(Operand(init)) ELSE init
           jump  == emit_jump(test, "jump")
           next  == emit_loop(emit_byte(Operand(jump), "pop"), "loop", Here(init))
           entry == [Entry("end_for") EXCEPT
                       !.first = Here(init),
                       !.before = Len(locals') + Matches,
                       !.start = IF increment THEN Here(jump) ELSE Here(init),
                       !.exit  = IF condition THEN Len(init) + 2 ELSE 0]
       IN  /\ var # "none" => Matches = 0 \/ "arm_locals" \in Forms
           /\ declared' = IF var = "none" THEN declared ELSE declared + 1
           /\ locals' = IF var = "none" THEN locals
                        ELSE Append(locals, [name |-> var, depth |-> scope_depth', id |-> declared'])
           /\ \/ /\ increment
                 /\ code' = patch_jump(next, Len(jump))
                 /\ begin_loop(Here(jump), entry.before)
                 /\ Mark("increment", [entry EXCEPT !.first = Here(jump)],
                         emit_byte(Operand(jump), "pop"), 0)
              \/ /\ ~increment
                 /\ "no_increment" \in Forms
                 /\ code' = test
                 /\ UNCHANGED <<loops, marks>>
           /\ work' = <<Entry("statement"), entry>> \o (<<Compound("end_block")>> \o Rest)
  BY Zenon DEF for_statement
<1> DEFINE init  == IF var = "none" THEN code ELSE Defining(Operand(code), declared')
           test  == IF condition THEN Condition(Operand(init)) ELSE init
           jump  == emit_jump(test, "jump")
           next  == emit_loop(emit_byte(Operand(jump), "pop"), "loop", Here(init))
           f == Here(init)
           b == Len(locals') + Matches
           start == IF increment THEN Here(jump) ELSE Here(init)
           exit == IF condition THEN Len(init) + 2 ELSE 0
           entry == [Entry("end_for") EXCEPT !.first = f, !.before = b, !.start = start, !.exit = exit]
<1>3. /\ declared' = IF var = "none" THEN declared ELSE declared + 1
      /\ locals' = IF var = "none" THEN locals
                   ELSE Append(locals, [name |-> var, depth |-> scope_depth', id |-> declared'])
  BY <1>2
<1>4. \/ increment /\ code' = patch_jump(next, Len(jump)) /\ begin_loop(Here(jump), entry.before)
      \/ ~increment /\ code' = test /\ UNCHANGED loops
  BY <1>2
<1>5. work' = <<Entry("statement"), entry>> \o (<<Compound("end_block")>> \o Rest)
  BY <1>2
<1>6. declared' \in Nat
  BY <1>3 DEF Compiling
<1>7. locals' \in Seq(Locals)
  <2>1. CASE var = "none"
    BY <2>1, <1>3 DEF Compiling
  <2>2. CASE var # "none"
    <3>1. PICK d : d = scope_depth'
      OBVIOUS
    <3>2. PICK id : id = declared'
      OBVIOUS
    <3>3. d \in Int /\ id \in Nat /\ var \in Names
      BY <2>2, <1>1, <1>6, <3>1, <3>2 DEF Compiling
    <3>4. [name |-> var, depth |-> d, id |-> id] \in Locals
      BY <3>3 DEF Locals
    <3>5. locals' = Append(locals, [name |-> var, depth |-> d, id |-> id])
      BY <2>2, <1>3, <3>1, <3>2
    <3> QED BY <3>4, <3>5, AppendProperties DEF Compiling
  <2> QED BY <2>1, <2>2
<1>8. Emits(code, init)
  <2>1. CASE var = "none"
    BY <2>1, Nothing
  <2>2. CASE var # "none"
    <3> DEFINE o == Operand(code)
    <3>1. Emits(code, o) /\ Sound(o) /\ Len(o) > 0
      BY EmittingOperand DEF Compiling, Emits, Sound
    <3> HIDE DEF o
    <3>2. Emits(o, Defining(o, declared'))
      BY <1>6, <3>1, DefiningGhost
    <3>3. Emits(code, Defining(o, declared'))
      BY <3>1, <3>2, EmitsOn DEF Compiling
    <3> QED BY <2>2, <3>3 DEF o
  <2> QED BY <2>1, <2>2
<1>9. Sound(init) /\ init \in Seq(Instructions) /\ Len(init) \in Nat
  BY <1>8 DEF Emits, Sound
<1> HIDE DEF init
<1>10. Emits(init, test) /\ Patchable(test, exit) /\ Len(init) <= Len(test)
  <2>1. CASE condition
    <3> DEFINE o == Operand(init)
    <3>1. Emits(init, o) /\ Sound(o) /\ Len(o) = Len(init) + 1
      BY <1>9, EmittingOperand DEF Emits
    <3> HIDE DEF o
    <3> DEFINE d == Condition(o)
    <3>2. Emits(o, d) /\ Len(d) = Len(o) + 2 /\ Patchable(d, Len(o) + 1)
      BY <3>1, EmittingCondition
    <3>3. test = d /\ exit = Len(init) + 2
      BY <2>1 DEF o
    <3> HIDE DEF d, test, exit
    <3>4. Emits(init, d)
      BY <1>9, <3>1, <3>2, EmitsOn
    <3>5. Len(o) + 1 = Len(init) + 2
      BY <1>9, <3>1
    <3> QED BY <1>9, <3>1, <3>2, <3>3, <3>4, <3>5
  <2>2. CASE ~condition
    <3>1. test = init /\ exit = 0
      BY <2>2
    <3> HIDE DEF test, exit
    <3> QED BY <1>9, <3>1, EmitsItself DEF Patchable
  <2> QED BY <2>1, <2>2
<1>11. exit \in Nat /\ f \in Nat /\ f \in 1..(Len(test) + 1) /\ f = Here(init)
  <2>1. Len(test) \in Nat
    BY <1>10 DEF Emits, Sound
  <2> HIDE DEF test
  <2> QED BY <1>9, <1>10, <2>1 DEF Here
<1>12. Sound(test) /\ test \in Seq(Instructions) /\ Len(test) \in Nat /\ Emits(code, test)
  <2> HIDE DEF test
  <2>1. Emits(code, test)
    BY <1>8, <1>10, EmitsOn DEF Compiling
  <2> QED BY <2>1 DEF Emits, Sound
<1>13. b \in Nat
  BY <1>7, DepthType DEF Compiling
<1> HIDE DEF test, exit, f, b
<1>14. /\ Emits(test, code')
       /\ start \in 1..(Len(code') + 1)
       /\ increment => start = Len(test) + 2 /\ begin_loop(start, entry.before)
       /\ ~increment => UNCHANGED loops
  <2>1. CASE increment
    <3>1. Emits(test, code') /\ Len(jump) = Len(test) + 1 /\ Emits(test, jump)
      <4>1. /\ Emits(test, patch_jump(emit_loop(emit_byte(Operand(jump), "pop"), "loop", f), Len(jump)))
            /\ Len(jump) = Len(test) + 1
            /\ Emits(test, jump)
        BY <1>11, <1>12, EmittingIncrement
      <4> QED BY <4>1, <2>1, <1>4, <1>11
    <3>2. start = Len(jump) + 1 /\ start = Here(jump)
      BY <2>1 DEF Here
    <3>3. Len(code') \in Nat /\ Len(jump) <= Len(code')
      <4>1. code' = patch_jump(next, Len(jump))
        BY <2>1, <1>4
      <4> DEFINE o == Operand(jump)
                 p == emit_byte(o, "pop")
      <4>2. Emits(jump, o) /\ Len(o) = Len(jump) + 1
        BY <3>1, EmittingOperand DEF Emits
      <4> HIDE DEF o
      <4>3. Emits(o, p) /\ Len(p) = Len(o) + 1
        BY <4>2, EmittingPop DEF Emits
      <4>4. Len(next) = Len(p) + 1
        <5> HIDE DEF jump
        <5>1. f \in 1..(Len(p) + 1) /\ "loop" \in Backward /\ Sound(p)
          BY <1>11, <1>12, <3>1, <4>2, <4>3 DEF Backward, Emits
        <5>2. next = emit_loop(p, "loop", f)
          BY <1>11 DEF o
        <5> HIDE DEF p, next
        <5> QED BY <5>1, <5>2, EmittingLoop
      <4>5. code' \in Seq(Instructions)
        BY <3>1 DEF Emits, Sound
      <4>6. DOMAIN code' = DOMAIN next
        BY <4>1 DEF patch_jump
      <4>7. Len(code') = Len(next)
        <5>1. next = Append(p, Instruction("loop", Len(p) + 2 - f, 0, 0)) /\ Len(next) \in Nat
          BY <4>3, <4>4, <1>11 DEF emit_loop, o, Emits, Sound
        <5>2. DOMAIN next = 1..Len(next)
          BY <5>1, <4>3 DEF Emits, Sound
        <5> QED BY <4>5, <4>6, <5>1, <5>2
      <4> QED BY <4>2, <4>3, <4>4, <4>5, <4>7, <1>12, <3>1
    <3> HIDE DEF jump
    <3>4. start \in 1..(Len(code') + 1)
      BY <3>1, <3>2, <3>3, <1>12
    <3> QED BY <2>1, <3>1, <3>2, <3>4, <1>4, <1>12
  <2>2. CASE ~increment
    <3>1. start = f /\ code' = test
      BY <2>2, <1>4, <1>11
    <3> QED BY <2>2, <3>1, <1>4, <1>11, <1>12, EmitsItself
  <2> QED BY <2>1, <2>2
<1>15. Emits(code, code') /\ Sound(code') /\ Len(code') \in Nat
  <2>1. Emits(code, code')
    BY <1>12, <1>14, EmitsOn DEF Compiling
  <2> QED BY <2>1 DEF Emits, Sound
<1>16. Patchable(code', exit)
  BY <1>10, <1>12, <1>14, PatchableLater DEF Emits, Sound
<1> HIDE DEF start
<1>17. Fits(entry, code') /\ entry.at = "end_for" /\ entry.before = b
  <2>1. PICK c : c = code'
    OBVIOUS
  <2>2. Sound(c) /\ start \in 1..(Len(c) + 1) /\ Patchable(c, exit)
    BY <1>14, <1>15, <1>16, <2>1
  <2>3. Fits(entry, c)
    BY <1>11, <1>13, <2>2, ForEntryFits
  <2>4. entry.at = "end_for"
    BY DEF Entry
  <2>5. entry.before = b
    BY DEF Entry
  <2> QED BY <2>1, <2>3, <2>4, <2>5
<1> HIDE DEF entry
<1>18. LoopsFit(loops', code')
  <2>1. LoopsFit(loops, code')
    BY <1>15, LoopsKept DEF Compiling
  <2>2. CASE increment
    BY <2>1, <2>2, <1>13, <1>14, <1>15, <1>17, BeginningLoop
  <2> QED BY <2>1, <2>2, <1>14
<1>19. WorkFits(work', code')
  <2>1. WorkFits(Rest, code')
    BY <1>1, <1>15, StatementDone
  <2>2. "end_block" \in Plain /\ "statement" \in Plain
    BY DEF Plain, Places
  <2>3. Fits(Compound("end_block"), code') /\ Compound("end_block").at = "end_block"
    BY <1>15, <2>2, CompoundFits
  <2>4. WorkFits(<<Compound("end_block")>> \o Rest, code')
    BY <2>1, <2>3, WorkCons DEF EndsArm
  <2>5. Fits(Entry("statement"), code') /\ Entry("statement").at = "statement"
    BY <1>15, <2>2, EntryFits
  <2> QED BY <1>5, <1>17, <2>4, <2>5, WorkPush DEF EndsArm
<1> QED BY <1>1, <1>6, <1>7, <1>15, <1>18, <1>19, GoesOn DEF Compiling

\* The beginning of a match keeps the invariant, and its value is before its test.
LEMMA Match ==
  ASSUME Compiling, match_statement, pc' = pc
  PROVE  FormInv'
<1> DEFINE o == Operand(code)
           d == Defining(o, declared')
           n == Len(code')
           r == Compound("arms")
           entry == [r EXCEPT !.start = n]
<1>1. /\ phase' = "compile" /\ work # <<>>
      /\ UNCHANGED <<locals, loops>>
      /\ scope_depth' = scope_depth + 1
      /\ declared' = declared + 1
      /\ code' = emit_jump(d, "match")
      /\ work' = <<entry>> \o Rest
  BY DEF match_statement, Begin, begin_scope, Compiling
<1>2. Emits(code, o) /\ Sound(o) /\ Len(o) = Len(code) + 1
  BY EmittingOperand DEF Compiling, Emits
<1> HIDE DEF o
<1>3. Emits(o, d) /\ Sound(d) /\ Len(d) = Len(o)
  <2>1. declared' \in Nat /\ Len(o) > 0
    BY <1>1, <1>2 DEF Compiling
  <2>2. Emits(o, d) /\ Len(d) = Len(o)
    BY <1>2, <2>1, DefiningGhost
  <2> QED BY <2>2 DEF Emits
<1> HIDE DEF d
<1>4. Emits(d, code') /\ Len(code') = Len(d) + 1 /\ Patchable(code', Len(d) + 1)
  BY <1>1, <1>3, EmittingJump, OpsKnown
<1>5. Emits(o, code')
  BY <1>2, <1>3, <1>4, EmitsOn DEF Sound
<1>6. Emits(code, code') /\ Sound(code')
  BY <1>2, <1>5, EmitsOn DEF Compiling, Emits
<1>7. n \in 2..Len(code') /\ Patchable(code', n) /\ n \in Nat /\ Patchable(code', 0)
  BY <1>2, <1>3, <1>4 DEF Compiling, Patchable
<1> HIDE DEF n
<1>8. r \in Entries /\ r.at = "arms" /\ r.exit = 0 /\ r.ends = {}
  BY CompoundType DEF Compiling, Places
<1> HIDE DEF r
<1>9. entry \in Entries /\ entry.start = n /\ entry.at = "arms" /\ entry.exit = 0 /\ entry.ends = {}
  BY <1>7, <1>8, StartEdit, Zenon
<1> HIDE DEF entry
<1>10. Fits(entry, code') /\ ~ EndsArm(entry)
  BY <1>7, <1>9 DEF Fits, EndsArm
<1>11. WorkFits(Rest, code')
  BY <1>1, <1>6, StatementDone
<1>12. WorkFits(work', code')
  BY <1>1, <1>10, <1>11, WorkCons
<1>13. LoopsFit(loops', code')
  BY <1>1, <1>6, LoopsKept DEF Compiling
<1> QED BY <1>1, <1>6, <1>12, <1>13, GoesOn DEF Compiling

\* Nor does the other ghost.
LEMMA ComparingGhost ==
  ASSUME NEW c, Sound(c), Len(c) > 0, NEW id \in Nat
  PROVE  /\ Emits(c, [c EXCEPT ![Len(c)].var = id])
         /\ Len([c EXCEPT ![Len(c)].var = id]) = Len(c)
<1> DEFINE d == [c EXCEPT ![Len(c)].var = id]
<1>1. c \in Seq(Instructions) /\ Len(c) \in Nat /\ DOMAIN c = 1..Len(c)
  BY DEF Sound
<1>2. /\ DOMAIN d = DOMAIN c
      /\ d = [k \in DOMAIN c |-> d[k]]
      /\ \A k \in DOMAIN c : d[k] = IF k = Len(c) THEN [c[k] EXCEPT !.var = id] ELSE c[k]
  BY <1>1
<1>3. \A k \in DOMAIN c : d[k] \in Instructions /\ d[k].op = c[k].op /\ d[k].arg = c[k].arg
  <2> TAKE k \in DOMAIN c
  <2>1. c[k] \in Instructions
    BY <1>1
  <2> QED BY <2>1, <1>2 DEF Instructions
<1> HIDE DEF d
<1>4. d \in [1..Len(c) -> Instructions]
  BY <1>1, <1>2, <1>3
<1>5. d \in Seq(Instructions) /\ Len(d) = Len(c)
  BY <1>1, <1>4
<1> QED BY <1>1, <1>3, <1>5 DEF Emits, Sound, Lands, LandsBack, Continues, d

\* The test of an arm is its last instruction.
LEMMA EmittingPattern ==
  ASSUME Compiling, work # <<>>, Top.at = "arms", NEW enum \in BOOLEAN
  PROVE  Emits(code, Pattern(enum)) /\ Patchable(Pattern(enum), Len(Pattern(enum)))
<1> DEFINE value == Operand(code)
           pair == Operand(value)
           o == IF enum THEN pair ELSE value
           op == IF enum THEN "enum_member_match" ELSE "jump_if_neq"
           test == emit_jump(o, op)
           id == Matched(Top)
           d == [test EXCEPT ![Len(test)].var = id]
<1>1. Emits(code, value) /\ Sound(value)
  BY EmittingOperand DEF Compiling, Emits
<1> HIDE DEF value
<1>2. Emits(value, pair)
  BY <1>1, EmittingOperand
<1> HIDE DEF pair
<1>3. Emits(code, pair)
  BY <1>1, <1>2, EmitsOn DEF Compiling
<1>4. Emits(code, o) /\ Sound(o) /\ Len(o) \in Nat
  BY <1>1, <1>3 DEF Emits, Sound
<1>5. op \in Ops \ Backward
  BY ForwardOps
<1> HIDE DEF o, op
<1>6. Emits(o, test) /\ Len(test) = Len(o) + 1 /\ Patchable(test, Len(o) + 1) /\ Sound(test)
  BY <1>4, <1>5, EmittingJump DEF Emits
<1> HIDE DEF test
<1>7. id \in Nat
  <2>1. Fits(Top, code)
    BY Nothing, EndReached
  <2>2. Top.start - 1 \in 1..Len(code)
    BY <2>1 DEF Fits, Compiling
  <2>3. code[Top.start - 1] \in Instructions
    BY <2>2 DEF Compiling
  <2> QED BY <2>3 DEF Matched, Instructions
<1> HIDE DEF id
<1>8. Emits(test, d) /\ Len(d) = Len(test)
  <2>1. Len(test) > 0
    BY <1>4, <1>6
  <2>2. Emits(test, d)
    BY <1>6, <1>7, <2>1, ComparingGhost
  <2>3. Len(d) = Len(test)
    BY <1>6, <1>7, <2>1, ComparingGhost
  <2> QED BY <2>2, <2>3
<1> HIDE DEF d
<1>9. Emits(o, d)
  BY <1>4, <1>6, <1>8, EmitsOn DEF Sound
<1>10. Emits(code, d)
  BY <1>4, <1>9, EmitsOn DEF Compiling
<1>11. Patchable(d, Len(d))
  BY <1>6, <1>8, PatchableLater DEF Emits, Sound
<1> QED BY <1>10, <1>11 DEF Pattern, d, id, test, op, o, pair, value

\* An arm follows, and then its end, which returns to the match.
LEMMA ArmFollows ==
  ASSUME Compiling, work # <<>>, Top.at = "arms", NEW c, Emits(code, c),
         NEW exit, Patchable(c, exit)
  PROVE  /\ WorkFits(<<Entry("arm"), [Entry("end_arm") EXCEPT !.exit = exit]>> \o work, c)
         /\ WorkFits(<<Entry("arm"), Entry("end_default")>> \o work, c)
<1> DEFINE r == Entry("end_arm")
           entry == [r EXCEPT !.exit = exit]
<1>1. WorkFits(work, c) /\ Head(work).at = "arms" /\ Sound(c)
  BY WorkKept DEF Compiling, Top, Emits
<1>2. "arm" \in Plain /\ "end_arm" \in Plain /\ "end_default" \in Plain
  BY DEF Plain, Places
<1>3. Fits(Entry("arm"), c) /\ Fits(Entry("end_default"), c) /\ ~ EndsArm(Entry("arm"))
  BY <1>1, <1>2, EntryFits DEF EndsArm
<1>4. r \in Entries /\ r.at = "end_arm" /\ exit \in Nat
  <2>1. r \in Entries /\ r.at = "end_arm"
    BY DEF Entry, Entries, Places
  <2> QED BY <2>1, <1>1 DEF Patchable, Sound
<1> HIDE DEF r
<1>5. entry \in Entries /\ entry.exit = exit /\ entry.at = "end_arm"
  BY <1>4, EntryEdits
<1> HIDE DEF entry
<1>6. Fits(entry, c)
  BY <1>5 DEF Fits
<1>7. WorkFits(<<Entry("arm"), entry>> \o work, c)
  BY <1>1, <1>3, <1>6, WorkPush
<1>8. WorkFits(<<Entry("arm"), Entry("end_default")>> \o work, c)
  BY <1>1, <1>3, WorkPush
<1> QED BY <1>7, <1>8 DEF entry, r

\* An arm without a binding keeps the invariant.
LEMMA Member ==
  ASSUME Compiling, match_member, pc' = pc
  PROVE  FormInv'
<1>1. /\ phase' = "compile" /\ work # <<>> /\ Top.at = "arms"
      /\ UNCHANGED <<locals, loops, declared>>
      /\ scope_depth' = scope_depth + 1
  BY DEF match_member, Resume, begin_scope
<1>2. PICK enum \in BOOLEAN :
        /\ code' = Pattern(enum)
        /\ work' = <<Entry("arm"), [Entry("end_arm") EXCEPT !.exit = Len(code')]>> \o work
  BY DEF match_member
<1>3. Emits(code, code') /\ Patchable(code', Len(code'))
  BY <1>1, <1>2, EmittingPattern
<1>4. WorkFits(work', code')
  BY <1>1, <1>2, <1>3, ArmFollows
<1>5. LoopsFit(loops', code')
  BY <1>1, <1>3, LoopsKept DEF Compiling
<1> QED BY <1>1, <1>3, <1>4, <1>5, GoesOn DEF Compiling, Emits

\* An arm with a binding keeps the invariant.
LEMMA MemberBind ==
  ASSUME Compiling, match_member_bind, pc' = pc
  PROVE  FormInv'
<1> DEFINE test == Pattern(TRUE)
           n == Len(test)
           d == Defining(test, declared')
           i == Instruction("enum_member_bind", Len(locals'), 0, declared')
<1>1. /\ phase' = "compile" /\ work # <<>> /\ Top.at = "arms"
      /\ loops' = loops
      /\ scope_depth' = scope_depth + 1
      /\ declared' = declared + 1
  BY DEF match_member_bind, Resume, begin_scope
<1>2. PICK x \in Names :
        /\ locals' = Append(locals, [name |-> x, depth |-> scope_depth', id |-> declared'])
        /\ code' = Append(d, i)
        /\ work' = <<Entry("arm"), [Entry("end_arm") EXCEPT !.exit = n]>> \o work
  BY DEF match_member_bind, Defining
<1>3. declared' \in Nat /\ scope_depth' \in Int
  BY <1>1 DEF Compiling
<1>4. locals' \in Seq(Locals)
  <2>1. PICK depth \in Int : depth = scope_depth'
    BY <1>3
  <2>2. PICK id \in Nat : id = declared'
    BY <1>3
  <2>3. [name |-> x, depth |-> depth, id |-> id] \in Locals
    BY DEF Locals
  <2>4. locals' = Append(locals, [name |-> x, depth |-> depth, id |-> id])
    BY <1>2, <2>1, <2>2
  <2> QED BY <2>3, <2>4, AppendProperties DEF Compiling
<1>5. Emits(code, test) /\ Patchable(test, n)
  BY <1>1, EmittingPattern
<1>6. Sound(test) /\ test \in Seq(Instructions) /\ n > 0
  <2>1. Sound(test) /\ test \in Seq(Instructions)
    BY <1>5 DEF Emits, Sound
  <2>2. Len(code) > 0
    BY <1>1, Nothing, EndReached DEF Fits, Compiling
  <2> HIDE DEF test
  <2> QED BY <1>5, <2>1, <2>2 DEF Emits, Continues, Compiling
<1> HIDE DEF test, n
<1>7. Emits(test, d) /\ Sound(d)
  BY <1>3, <1>6, DefiningGhost DEF n, Emits
<1>8. i \in Instructions /\ i.op \notin Backward \cup Forward
  <2>1. Len(locals') \in Nat
    BY <1>4
  <2> QED BY <1>3, <2>1 DEF Instruction, Instructions, Ops, Backward, Forward
<1> HIDE DEF d, i
<1>9. Emits(d, code')
  BY <1>2, <1>7, <1>8, Appending
<1>10. Emits(test, code')
  BY <1>6, <1>7, <1>9, EmitsOn
<1>11. Emits(code, code') /\ Sound(code')
  BY <1>5, <1>10, EmitsOn DEF Compiling, Emits
<1>12. Patchable(code', n)
  BY <1>5, <1>6, <1>10, PatchableLater DEF Emits, Sound
<1>13. WorkFits(work', code')
  BY <1>1, <1>2, <1>11, <1>12, ArmFollows
<1>14. LoopsFit(loops', code')
  BY <1>1, <1>11, LoopsKept DEF Compiling
<1> QED BY <1>1, <1>3, <1>4, <1>11, <1>13, <1>14, GoesOn DEF Compiling

\* The default arm keeps the invariant.
LEMMA Default ==
  ASSUME Compiling, match_default, pc' = pc
  PROVE  FormInv'
<1>1. /\ phase' = "compile" /\ work # <<>> /\ Top.at = "arms"
      /\ UNCHANGED <<code, locals, loops, declared>>
      /\ scope_depth' = scope_depth + 1
      /\ work' = <<Entry("arm"), Entry("end_default")>> \o work
  BY DEF match_default, Resume, begin_scope
<1>2. Patchable(code, 0)
  BY DEF Patchable, Compiling
<1>3. WorkFits(work', code)
  BY <1>1, <1>2, Nothing, ArmFollows
<1> QED BY <1>1, <1>3, GoesOn DEF Compiling

\* The two entries on the top.
LEMMA TwoEntries ==
  ASSUME NEW w \in Seq(Entries), Len(w) >= 2
  PROVE  /\ w[2] = Head(Tail(w))
         /\ SubSeq(w, 3, Len(w)) = Tail(Tail(w))
<1>1. Len(w) \in Nat
  OBVIOUS
<1>2. PICK n \in Nat : n = Len(w)
  BY <1>1
<1> DEFINE t == Tail(w)
<1>3. t \in Seq(Entries) /\ Len(t) = n - 1 /\ \A k \in 1..(n - 1) : t[k] = w[k + 1]
  BY <1>2
<1> HIDE DEF t
<1>4. Head(t) = w[2]
  BY <1>2, <1>3
<1> DEFINE u == Tail(t)
<1>5. u \in Seq(Entries) /\ Len(u) = n - 2 /\ \A k \in 1..(n - 2) : u[k] = t[k + 1]
  BY <1>2, <1>3
<1> HIDE DEF u
<1> DEFINE v == SubSeq(w, 3, n)
<1>6. v \in Seq(Entries) /\ Len(v) = n - 2 /\ \A k \in 1..(n - 2) : v[k] = w[k + 2]
  BY <1>2
<1> HIDE DEF v
<1>7. \A k \in 1..(n - 2) : u[k] = v[k]
  <2> TAKE k \in 1..(n - 2)
  <2>1. k + 1 \in 1..(n - 1) /\ (k + 1) + 1 = k + 2
    BY <1>2
  <2>2. t[k + 1] = w[(k + 1) + 1]
    BY <1>3, <2>1
  <2> QED BY <1>5, <1>6, <2>1, <2>2
<1>8. u = v
  BY <1>5, <1>6, <1>7, SeqEqual
<1> QED BY <1>2, <1>4, <1>8 DEF u, v, t

\* The jump of an arm to the end is added to those of its match.
LEMMA EndOfArm ==
  ASSUME Compiling, end_arm, pc' = pc
  PROVE  FormInv'
<1> DEFINE jump == emit_jump(code, "jump")
           n == Len(jump)
           c == IF Top.at = "end_arm" THEN patch_jump(jump, Top.exit) ELSE jump
           below == Head(Tail(work))
           at == IF Top.at = "end_arm" THEN "arms" ELSE "end_match"
           entry == [below EXCEPT !.at = at, !.ends = below.ends \cup {n}]
<1>1. /\ phase' = "compile" /\ work # <<>> /\ EndsArm(Top)
      /\ UNCHANGED <<loops, declared>>
      /\ end_scope(c)
      /\ work' = <<[work[2] EXCEPT !.at = IF Top.at = "end_arm" THEN @ ELSE "end_match",
                                   !.ends = @ \cup {n}]>>
                 \o SubSeq(work, 3, Len(work))
  BY DEF end_arm, Resume, EndsArm, Compiling
<1>2. /\ WorkFits(Tail(work), code) /\ Fits(Top, code)
      /\ Tail(work) # <<>> /\ below.at = "arms"
  BY <1>1, WorkTail DEF Compiling, Top
<1>3. Fits(below, code) /\ WorkFits(Tail(Tail(work)), code)
  BY <1>2, WorkTail
<1>4. work[2] = below /\ SubSeq(work, 3, Len(work)) = Tail(Tail(work))
  <2>1. Len(work) >= 2
    BY <1>1, <1>2 DEF Compiling
  <2> QED BY <2>1, TwoEntries DEF Compiling
<1>5. Emits(code, jump) /\ n = Len(code) + 1 /\ Patchable(jump, n)
  BY EmittingJump, OpsKnown DEF Compiling
<1>6. Sound(jump) /\ jump \in Seq(Instructions)
  BY <1>5 DEF Emits, Sound
<1> HIDE DEF jump
<1>7. Emits(jump, c)
  <2>1. Patchable(jump, Top.exit)
    BY <1>2, <1>5, <1>6, PatchableLater DEF Compiling, Fits, Emits
  <2> QED BY <1>6, <2>1, PatchingJump, EmitsItself
<1>8. Sound(c) /\ c \in Seq(Instructions)
  BY <1>7 DEF Emits, Sound
<1> HIDE DEF c
<1>9. Emits(c, code') /\ locals' \in Seq(Locals) /\ scope_depth' \in Int
  BY <1>1, <1>8, EndingScope DEF Compiling
<1>10. Emits(jump, code')
  BY <1>6, <1>7, <1>9, EmitsOn
<1>11. Emits(code, code') /\ Sound(code')
  BY <1>5, <1>10, EmitsOn DEF Compiling, Emits
<1>12. Patchable(code', n) /\ n \in Nat
  <2>1. Patchable(code', n)
    BY <1>5, <1>6, <1>10, PatchableLater DEF Emits, Sound
  <2> QED BY <2>1, <1>5 DEF Compiling
<1> HIDE DEF n, below
<1>13. work' = <<entry>> \o Tail(Tail(work))
  <2>1. below.at = "arms" => at = IF Top.at = "end_arm" THEN below.at ELSE "end_match"
    OBVIOUS
  <2> HIDE DEF at
  <2> QED BY <1>1, <1>2, <1>4, <2>1
<1>14. Fits(below, code') /\ WorkFits(Tail(Tail(work)), code')
  BY <1>3, <1>11, FitsLater, WorkKept DEF Compiling
<1>15. at \in {"arms", "end_match"}
  OBVIOUS
<1> HIDE DEF at
<1>16. entry \in Entries
  BY <1>12, <1>14, <1>15 DEF Fits, Entries, Places
<1>17. /\ entry.at = at /\ entry.ends = below.ends \cup {n}
       /\ entry.exit = below.exit /\ entry.start = below.start
  BY <1>14 DEF Fits, Entries
<1> HIDE DEF entry
<1>18. Fits(entry, code') /\ ~ EndsArm(entry)
  BY <1>2, <1>12, <1>14, <1>15, <1>16, <1>17 DEF Fits, EndsArm
<1>19. WorkFits(work', code')
  BY <1>13, <1>14, <1>18, WorkCons
<1>20. LoopsFit(loops', code')
  BY <1>1, <1>11, LoopsKept DEF Compiling
<1> QED BY <1>1, <1>9, <1>11, <1>19, <1>20, GoesOn DEF Compiling

\* The end of a match patches the jumps of all its arms.
LEMMA EndOfMatch ==
  ASSUME Compiling, end_match, pc' = pc
  PROVE  FormInv'
<1> DEFINE jump == IF Top.at = "arms" THEN emit_jump(code, "jump") ELSE code
           last == IF Top.at = "arms" THEN {Len(jump)} ELSE {}
           ends == Top.ends \cup last \cup {Top.start}
           patched == PatchAll(jump, ends)
           c == emit_byte(patched, "pop")
<1>1. /\ phase' = "compile" /\ work # <<>> /\ Top.at \in {"arms", "end_match"}
      /\ UNCHANGED <<loops, declared>>
      /\ end_scope(c)
      /\ work' = Tail(work)
  BY DEF end_match, Resume, Compiling
<1>2. Fits(Top, code)
  BY <1>1, Nothing, EndReached
<1>3. Emits(code, jump) /\ \A k \in last : Patchable(jump, k)
  <2>1. CASE Top.at = "arms"
    <3>1. /\ Emits(code, emit_jump(code, "jump"))
          /\ Len(emit_jump(code, "jump")) = Len(code) + 1
          /\ Patchable(emit_jump(code, "jump"), Len(code) + 1)
      BY EmittingJump, OpsKnown DEF Compiling
    <3>2. jump = emit_jump(code, "jump") /\ last = {Len(jump)}
      BY <2>1
    <3> HIDE DEF jump, last
    <3> QED BY <3>1, <3>2
  <2>2. CASE Top.at # "arms"
    BY <2>2, Nothing
  <2> QED BY <2>1, <2>2
<1>4. Sound(jump) /\ jump \in Seq(Instructions)
  BY <1>3 DEF Emits, Sound
<1> HIDE DEF jump, last
<1>5. \A k \in ends : Patchable(jump, k)
  <2>1. \A k : Patchable(code, k) => Patchable(jump, k)
    BY <1>3, <1>4, PatchableLater DEF Compiling, Emits
  <2> QED BY <1>1, <1>2, <1>3, <2>1 DEF Fits
<1> HIDE DEF ends
<1>6. Emits(jump, patched) /\ Sound(patched)
  BY <1>4, <1>5, PatchingAll DEF Emits
<1> HIDE DEF patched
<1>7. Emits(patched, c) /\ Sound(c)
  BY <1>6, EmittingPop DEF Emits
<1> HIDE DEF c
<1>8. Emits(c, code') /\ locals' \in Seq(Locals) /\ scope_depth' \in Int
  BY <1>1, <1>7, EndingScope DEF Compiling
<1>9. Emits(patched, code')
  BY <1>6, <1>7, <1>8, EmitsOn DEF Sound
<1>10. Emits(jump, code')
  BY <1>4, <1>6, <1>9, EmitsOn
<1>11. Emits(code, code') /\ Sound(code')
  BY <1>3, <1>10, EmitsOn DEF Compiling, Emits
<1>12. WorkFits(work', code')
  BY <1>1, <1>11, EndReached
<1>13. LoopsFit(loops', code')
  BY <1>1, <1>11, LoopsKept DEF Compiling
<1> QED BY <1>1, <1>8, <1>11, <1>12, <1>13, GoesOn DEF Compiling

\* The return emitted last seals the chunk, if no jump waits to be patched.
LEMMA EndOfCompile ==
  ASSUME Compiling, end_compile, Unpatched(code) = {}, pc' = pc
  PROVE  FormInv'
<1> DEFINE d == emit_byte(code, "return")
           n == Len(code)
<1>1. phase' = "run" /\ code' = d /\ pc' = 1
  BY DEF end_compile, Compiling
<1>2. /\ n \in Nat /\ DOMAIN code = 1..n /\ Lands(code) /\ code \in Seq(Instructions)
      /\ \A k \in 1..n : code[k].op \in Forward => ~ (k + code[k].arg > n)
  BY DEF Compiling, Sound, Unpatched
<1>3. Emits(code, d) /\ Len(d) = n + 1 /\ d[n + 1] = Instruction("return", 0, 0, 0)
  BY EmittingByte, OpsKnown DEF Compiling
<1>4. d \in Seq(Instructions) /\ DOMAIN d = 1..(n + 1) /\ Lands(d)
  BY <1>2, <1>3 DEF Emits, Sound
<1>5. \A k \in 1..n : d[k] = code[k]
  BY <1>2 DEF emit_byte
<1>6. d[n + 1].op = "return"
  BY <1>3 DEF Instruction
<1> HIDE DEF d, n
<1>7. ASSUME NEW k \in 1..(n + 1), d[k].op \in Forward
      PROVE  k + d[k].arg < n + 1
  <2>1. k # n + 1
    BY <1>6, <1>7 DEF Forward
  <2>2. k \in 1..n
    BY <2>1, <1>2
  <2>3. d[k] = code[k] /\ code[k] \in Instructions
    BY <2>2, <1>2, <1>5
  <2>4. code[k].arg \in Nat /\ ~ (k + code[k].arg > n)
    BY <2>2, <2>3, <1>2, <1>7 DEF Instructions
  <2> QED BY <2>2, <2>3, <2>4, <1>2
<1>8. Sealed(d) /\ 1 \in DOMAIN d
  BY <1>2, <1>3, <1>4, <1>6, <1>7 DEF Sealed
<1> QED BY <1>1, <1>8 DEF FormInv, CompileInv, RunInv

-----------------------------------------------------------------------------
(* The form of the code is kept.                                           *)

\* The initial state satisfies the invariant.
LEMMA Beginning ==
  Init => FormInv
<1> SUFFICES ASSUME Init PROVE FormInv
  OBVIOUS
<1>1. /\ phase = "compile" /\ code = <<>> /\ loops = <<>> /\ pc = 1
      /\ work = <<Entry("declarations")>>
      /\ scope_depth \in Int /\ declared \in Nat
  BY DEF Init, InitCompile
<1>2. locals \in Seq(Locals)
  <2>1. Callee \in Locals
    BY DEF Callee, Locals
  <2>2. CASE locals = <<Callee>>
    BY <2>1, <2>2
  <2>3. CASE \E x \in Names : locals = <<Callee, [name |-> x, depth |-> 1, id |-> 1]>>
    <3>1. PICK x \in Names : locals = <<Callee, [name |-> x, depth |-> 1, id |-> 1]>>
      BY <2>3
    <3>2. \A d \in Int, i \in Nat : [name |-> x, depth |-> d, id |-> i] \in Locals
      BY DEF Locals
    <3> QED BY <2>1, <3>1, <3>2
  <2> QED BY <2>2, <2>3 DEF Init, InitCompile
<1>3. Sound(code) /\ LoopsFit(loops, code)
  BY <1>1 DEF Sound, Lands, LoopsFit
<1>4. WorkFits(work, code)
  <2>1. "declarations" \in Plain
    BY DEF Plain, Places
  <2>2. Fits(Entry("declarations"), code) /\ ~ EndsArm(Entry("declarations"))
    BY <1>3, <2>1, EntryFits DEF EndsArm
  <2> DEFINE e == Entry("declarations")
  <2>3. e \in Entries
    BY <2>2 DEF Fits
  <2> HIDE DEF e
  <2>4. <<e>> \in Seq(Entries) /\ DOMAIN <<e>> = {1} /\ <<e>>[1] = e
    BY <2>3
  <2>5. WorkFits(<<e>>, code)
    BY <2>2, <2>4 DEF WorkFits, e
  <2> QED BY <1>1, <2>5 DEF e
<1> QED BY <1>1, <1>2, <1>3, <1>4 DEF FormInv, CompileInv, RunInv

\* Every step of the compiler keeps the invariant.
LEMMA CompileStep ==
  ASSUME FormInv, end_compile => Unpatched(code) = {}, Compile, UNCHANGED <<stack, pc>>
  PROVE  FormInv'
<1>1. phase = "compile"
  BY DEF Compile, Begin, Resume, expr_statement, var_declaration, return_statement,
    break_statement, continue_statement, block_statement, arm_block, end_declarations, end_block,
    if_statement, end_then, end_if, while_statement, end_while, loop_statement, for_statement,
    end_for, match_statement, match_member, match_member_bind, match_default, end_arm, end_match,
    end_compile
<1>2. Compiling /\ pc' = pc
  BY <1>1, CompilingFacts DEF FormInv
<1> QED BY <1>2, Expression, Declaration, Return, Break, Continue, Block, ArmBlock,
    EndOfDeclarations, EndOfBlock, If, Then, EndOfIf, While, LoopStatement, For, EndOfLoop, Match,
    Member, MemberBind, Default, EndOfArm, EndOfMatch, EndOfCompile DEF Compile

\* Where control may go from an instruction of sealed code.
LEMMA NextPlaces ==
  ASSUME Sealed(code), pc \in DOMAIN code
  PROVE  /\ Fetched.op # "return" => pc + 1 \in DOMAIN code
         /\ Fetched.op \in Forward => pc + 1 + Fetched.arg \in DOMAIN code
         /\ Fetched.op \in Backward => pc + 1 - Fetched.arg \in DOMAIN code
<1>1. DOMAIN code = 1..Len(code) /\ Len(code) \in Nat /\ code[Len(code)].op = "return"
  BY DEF Sealed
<1>2. /\ LandsBack(Fetched, pc) /\ Fetched \in Instructions
      /\ Fetched.op \in Forward => pc + Fetched.arg < Len(code)
  BY DEF Sealed, Lands, Fetched
<1>3. Fetched.arg \in Nat
  BY <1>2 DEF Instructions
<1>4. ASSUME Fetched.op # "return" PROVE pc + 1 \in DOMAIN code
  <2>1. pc # Len(code)
    BY <1>1, <1>4 DEF Fetched
  <2> QED BY <1>1, <2>1
<1> QED BY <1>1, <1>2, <1>3, <1>4 DEF LandsBack

\* Every step of the machine keeps the invariant.
LEMMA RunStep ==
  ASSUME FormInv, Run
  PROVE  FormInv'
<1>1. phase = "run"
  BY DEF Run, At, panic, op_push, op_get_local, op_set_local, op_pop, op_jump_if_false, op_jump,
    op_loop, op_match, op_jump_if_neq, op_enum_member_match, op_enum_member_bind, op_return
<1>2. Sealed(code) /\ pc \in DOMAIN code
  BY <1>1 DEF FormInv, RunInv
<1>3. CASE phase' \in {"panicked", "returned"}
  BY <1>3 DEF FormInv, CompileInv, RunInv
<1>4. ASSUME phase' = phase, code' = code, pc' \in DOMAIN code
      PROVE  FormInv'
  BY <1>1, <1>2, <1>4 DEF FormInv, CompileInv, RunInv
<1>5. CASE panic \/ op_return
  BY <1>3, <1>5 DEF panic, op_return
<1>6. CASE op_push \/ op_get_local \/ op_set_local \/ op_pop \/ op_match \/ op_enum_member_bind
  <2>1. Fetched.op # "return" /\ pc' = pc + 1 /\ phase' = phase /\ code' = code
    BY <1>6 DEF op_push, op_get_local, op_set_local, op_pop, op_match, op_enum_member_bind,
      At, Fetched, Next1, compileVars
  <2> QED BY <1>2, <1>4, <2>1, NextPlaces
<1>7. CASE op_jump_if_false \/ op_jump \/ op_jump_if_neq \/ op_enum_member_match
  <2>1. /\ Fetched.op \in Forward /\ Fetched.op # "return" /\ phase' = phase /\ code' = code
        /\ pc' \in {pc + 1, pc + 1 + Fetched.arg}
    BY <1>7 DEF op_jump_if_false, op_jump, op_jump_if_neq, op_enum_member_match,
      At, Fetched, Next1, JumpForward, Forward, compileVars
  <2> QED BY <1>2, <1>4, <2>1, NextPlaces
<1>8. CASE op_loop
  <2>1. Fetched.op \in Backward /\ pc' = pc + 1 - Fetched.arg /\ phase' = phase /\ code' = code
    BY <1>8 DEF op_loop, At, Fetched, JumpBack, Backward, compileVars
  <2> QED BY <1>2, <1>4, <2>1, NextPlaces
<1> QED BY <1>5, <1>6, <1>7, <1>8 DEF Run

-----------------------------------------------------------------------------
(* Lists whose head changes.                                              *)

\* Something before a sequence.
LEMMA ConsFacts ==
  ASSUME NEW S, NEW e \in S, NEW w \in Seq(S)
  PROVE  LET v == <<e>> \o w
         IN  /\ v \in Seq(S) /\ v # <<>> /\ Len(v) = Len(w) + 1 /\ DOMAIN v = 1..(Len(w) + 1)
             /\ v[1] = e /\ \A k \in 1..Len(w) : v[k + 1] = w[k]
             /\ Head(v) = e /\ Tail(v) = w
<1> DEFINE q == <<e>>
           v == q \o w
<1>1. q \in Seq(S) /\ Len(q) = 1 /\ q[1] = e
  OBVIOUS
<1>2. PICK n \in Nat : n = Len(w) /\ DOMAIN w = 1..n
  OBVIOUS
<1>3. /\ v \in Seq(S) /\ Len(v) = Len(q) + Len(w)
      /\ \A k \in 1..Len(q) : v[k] = q[k]
      /\ \A k \in 1..Len(w) : v[Len(q) + k] = w[k]
  <2> HIDE DEF q
  <2> QED BY <1>1, ConcatFacts
<1> HIDE DEF q, v
<1>4. Len(v) = n + 1 /\ v[1] = e /\ \A k \in 1..n : v[k + 1] = w[k]
  BY <1>1, <1>2, <1>3
<1>5. v # <<>> /\ DOMAIN v = 1..(n + 1) /\ Head(v) = e
  BY <1>2, <1>3, <1>4
<1> DEFINE t == Tail(v)
<1>6. t \in Seq(S) /\ Len(t) = n /\ \A k \in 1..n : t[k] = v[k + 1]
  BY <1>2, <1>3, <1>4, <1>5
<1> HIDE DEF t
<1>7. t = w
  BY <1>2, <1>4, <1>6, SeqEqual
<1> QED BY <1>2, <1>3, <1>4, <1>5, <1>7 DEF t, v, q

\* How many members of a sequence pass a test, and how many of its tail do.
LEMMA CountTail ==
  ASSUME NEW w \in Seq(Entries), w # <<>>, NEW A
  PROVE  LET n == Cardinality({k \in DOMAIN w : w[k].at \in A})
             m == Cardinality({k \in DOMAIN Tail(w) : Tail(w)[k].at \in A})
         IN  n \in Nat /\ m \in Nat /\ n = IF Head(w).at \in A THEN m + 1 ELSE m
<1>1. PICK n \in Nat : n = Len(w) /\ n >= 1 /\ DOMAIN w = 1..n /\ Head(w) = w[1]
  OBVIOUS
<1> DEFINE v == Tail(w)
<1>2. Len(v) = n - 1 /\ DOMAIN v = 1..(n - 1) /\ \A k \in 1..(n - 1) : v[k] = w[k + 1]
  BY <1>1
<1> HIDE DEF v
<1> DEFINE S == {k \in DOMAIN w : w[k].at \in A}
           T == {k \in DOMAIN v : v[k].at \in A}
           U == S \ {1}
           f == [k \in T |-> k + 1]
<1>3. IsFiniteSet(S) /\ IsFiniteSet(T)
  <2>1. IsFiniteSet(1..n) /\ IsFiniteSet(1..(n - 1))
    BY <1>1, FS_Interval
  <2> QED BY <2>1, <1>1, <1>2, FS_Subset
<1>4. f \in Bijection(T, U)
  <2>1. \A k \in T : k + 1 \in U
    <3> TAKE k \in T
    <3> DEFINE j == k + 1
    <3>1. j \in 1..n /\ j # 1 /\ v[k] = w[j]
      BY <1>1, <1>2
    <3> HIDE DEF j
    <3>2. j \in U
      BY <3>1, <1>1
    <3> QED BY <3>2 DEF j
  <2>2. \A j \in U : \E k \in T : j = k + 1
    <3> TAKE j \in U
    <3> DEFINE k == j - 1
    <3>1. k \in 1..(n - 1) /\ k + 1 = j
      BY <1>1
    <3> HIDE DEF k
    <3>2. v[k] = w[j]
      BY <3>1, <1>2
    <3>3. k \in T
      BY <3>1, <3>2, <1>2
    <3> QED BY <3>1, <3>3
  <2>3. T \subseteq Nat
    BY <1>2
  <2> HIDE DEF T, U
  <2>4. f \in [T -> U] /\ \A k \in T : f[k] = k + 1
    BY <2>1
  <2>5. \A j, k \in T : f[j] = f[k] => j = k
    BY <2>3, <2>4
  <2>6. \A j \in U : \E k \in T : f[k] = j
    BY <2>2, <2>4
  <2> QED BY <2>4, <2>5, <2>6 DEF Bijection, Injection, Surjection, IsInjective
<1>5. IsFiniteSet(U) /\ Cardinality(U) = Cardinality(T)
  <2>1. ExistsBijection(T, U)
    BY <1>4 DEF ExistsBijection
  <2>2. IsFiniteSet(U)
    BY <1>3, FS_Subset
  <2> QED BY <2>1, <2>2, <1>3, FS_Bijection, FS_SameCardinalityBij
<1>6. Cardinality(S) \in Nat /\ Cardinality(T) \in Nat
  BY <1>3, FS_CardinalityType
<1>7. 1 \in S <=> Head(w).at \in A
  BY <1>1
<1>8. CASE 1 \in S
  <2>1. Cardinality(U) = Cardinality(S) - 1
    BY <1>3, <1>8, FS_RemoveElement
  <2>2. Head(w).at \in A
    BY <1>7, <1>8
  <2> HIDE DEF S, T, U
  <2>3. Cardinality(S) = Cardinality(T) + 1
    BY <2>1, <1>5, <1>6
  <2> QED BY <2>2, <2>3, <1>6 DEF S, T, v
<1>9. CASE 1 \notin S
  <2>1. U = S
    BY <1>9
  <2> QED BY <2>1, <1>5, <1>6, <1>7, <1>9 DEF v
<1> QED BY <1>8, <1>9

-----------------------------------------------------------------------------
(* The form of the state, for every form of statement.                     *)

\* The entries whose scope ends when they are done.
Scoping == {"end_block", "arms", "end_match", "end_arm", "end_default"}

Scopes(w) == Cardinality({k \in DOMAIN w : w[k].at \in Scoping})

Marked == [kind : Kinds, first : Nat, end : Nat, before : Nat, after : Nat]

\* Each scope that is open will be ended by an entry.
Typed ==
  /\ TypeOK
  /\ phase = "compile" => scope_depth - Scopes(work) \in Nat

\* How many scopes are open below the top entry.
LEMMA ScopesTail ==
  ASSUME NEW w \in Seq(Entries), w # <<>>
  PROVE  /\ Scopes(w) \in Nat /\ Scopes(Tail(w)) \in Nat /\ Tail(w) \in Seq(Entries)
         /\ Head(w).at \in Scoping => Scopes(w) = Scopes(Tail(w)) + 1
         /\ Head(w).at \notin Scoping => Scopes(w) = Scopes(Tail(w))
<1> DEFINE n == Cardinality({k \in DOMAIN w : w[k].at \in Scoping})
           m == Cardinality({k \in DOMAIN Tail(w) : Tail(w)[k].at \in Scoping})
<1>1. n \in Nat /\ m \in Nat /\ n = IF Head(w).at \in Scoping THEN m + 1 ELSE m
  BY CountTail
<1>2. n = Scopes(w) /\ m = Scopes(Tail(w))
  BY DEF Scopes
<1>3. Tail(w) \in Seq(Entries)
  OBVIOUS
<1> HIDE DEF n, m
<1> QED BY <1>1, <1>2, <1>3

\* The scopes to be ended are counted by a natural number.
LEMMA ScopesType ==
  ASSUME NEW w \in Seq(Entries)
  PROVE  Scopes(w) \in Nat
<1>1. CASE w # <<>>
  BY <1>1, ScopesTail
<1>2. CASE w = <<>>
  <2>1. {k \in DOMAIN w : w[k].at \in Scoping} = {}
    BY <1>2
  <2>2. Scopes(w) = Cardinality({})
    BY <2>1 DEF Scopes
  <2> QED BY <2>2, FS_EmptySet
<1> QED BY <1>1, <1>2

\* Something of any kind before a sequence.
LEMMA ConsAny ==
  ASSUME NEW w \in Seq(Entries), NEW e
  PROVE  LET v == <<e>> \o w
         IN  v # <<>> /\ Head(v) = e /\ Tail(v) = w /\ v[1] = e /\ 1 \in DOMAIN v
<1> DEFINE T == Entries \cup {e}
           n == Len(w)
<1>1. w \in Seq(T)
  <2>1. n \in Nat /\ DOMAIN w = 1..n /\ \A k \in 1..n : w[k] \in Entries
    OBVIOUS
  <2>2. w \in [1..n -> T]
    BY <2>1
  <2> HIDE DEF T
  <2> QED BY <2>1, <2>2
<1>2. e \in T
  OBVIOUS
<1> HIDE DEF T
<1> QED BY <1>1, <1>2, ConsFacts

\* What is put on the work is an entry, if the work is one of entries.
LEMMA ScopesCons ==
  ASSUME NEW w \in Seq(Entries), NEW e, <<e>> \o w \in Seq(Entries)
  PROVE  /\ e \in Entries
         /\ e.at \in Scoping => Scopes(<<e>> \o w) = Scopes(w) + 1
         /\ e.at \notin Scoping => Scopes(<<e>> \o w) = Scopes(w)
<1> DEFINE v == <<e>> \o w
<1>1. v # <<>> /\ Head(v) = e /\ Tail(v) = w /\ v[1] = e /\ 1 \in DOMAIN v
  BY ConsAny
<1>2. v \in Seq(Entries)
  OBVIOUS
<1> HIDE DEF v
<1>3. e \in Entries
  BY <1>1, <1>2
<1>4. /\ Head(v).at \in Scoping => Scopes(v) = Scopes(Tail(v)) + 1
      /\ Head(v).at \notin Scoping => Scopes(v) = Scopes(Tail(v))
  BY <1>1, <1>2, ScopesTail
<1> QED BY <1>1, <1>3, <1>4 DEF v

\* The same for two.
LEMMA ScopesTwice ==
  ASSUME NEW w \in Seq(Entries), NEW e, NEW f, <<e, f>> \o w \in Seq(Entries), e.at \notin Scoping
  PROVE  /\ e \in Entries /\ f \in Entries
         /\ f.at \in Scoping => Scopes(<<e, f>> \o w) = Scopes(w) + 1
         /\ f.at \notin Scoping => Scopes(<<e, f>> \o w) = Scopes(w)
<1> DEFINE v == <<e, f>> \o w
           p == <<e, f>>
           T == Entries \cup {e, f}
           n == Len(w)
<1>1. w \in Seq(T)
  <2>1. n \in Nat /\ DOMAIN w = 1..n /\ \A k \in 1..n : w[k] \in Entries
    OBVIOUS
  <2>2. w \in [1..n -> T]
    BY <2>1
  <2> HIDE DEF T
  <2> QED BY <2>1, <2>2
<1>2. p \in Seq(T) /\ Len(p) = 2 /\ p[1] = e /\ p[2] = f
  OBVIOUS
<1>3. v \in Seq(Entries) /\ v = p \o w
  OBVIOUS
<1> HIDE DEF T, p, v
<1>4. /\ Len(v) = 2 + Len(w) /\ v[1] = e /\ v[2] = f /\ Len(w) \in Nat
  <2>1. p \in Seq(T) /\ w \in Seq(T)
    BY <1>1, <1>2
  <2>2. /\ Len(p \o w) = Len(p) + Len(w)
        /\ \A k \in 1..Len(p) : (p \o w)[k] = p[k]
    BY <2>1, ConcatFacts
  <2> QED BY <2>2, <1>2, <1>3
<1>5. e \in Entries /\ f \in Entries
  <2>1. 1 \in DOMAIN v /\ 2 \in DOMAIN v
    BY <1>3, <1>4
  <2> QED BY <2>1, <1>3, <1>4
<1> DEFINE u == <<f>> \o w
<1>6. u \in Seq(Entries)
  BY <1>5, ConsFacts
<1>7. v = <<e>> \o u
  BY <1>3, <1>5, ConsTwice DEF p
<1> HIDE DEF u
<1>8. Scopes(v) = Scopes(u)
  BY <1>3, <1>6, <1>7, ScopesCons
<1>9. /\ f.at \in Scoping => Scopes(u) = Scopes(w) + 1
      /\ f.at \notin Scoping => Scopes(u) = Scopes(w)
  BY <1>6, ScopesCons DEF u
<1> QED BY <1>5, <1>8, <1>9 DEF v

\* A statement opens no scope.
LEMMA ScopesOfRest ==
  ASSUME Compiling, work # <<>>, Top.at \in OrArm
  PROVE  Rest \in Seq(Entries) /\ Scopes(Rest) = Scopes(work) /\ Scopes(work) \in Nat
<1>1. work \in Seq(Entries) /\ Top.at \notin Scoping
  BY DEF Compiling, OrArm, Anywhere, Scoping
<1>2. /\ Scopes(work) \in Nat /\ Tail(work) \in Seq(Entries) /\ Scopes(work) = Scopes(Tail(work))
  BY <1>1, ScopesTail DEF Top
<1> QED BY <1>1, <1>2 DEF Rest

\* Places and distances recorded in an entry leave it what it is.
LEMMA KeepsPlace ==
  ASSUME NEW at, NEW f, NEW b, NEW s, NEW x
  PROVE  /\ Entry(at).at = at
         /\ Compound(at).at = at
         /\ [Compound(at) EXCEPT !.start = s].at = at
         /\ [Compound(at) EXCEPT !.exit = x].at = at
         /\ [Compound(at) EXCEPT !.start = s, !.exit = x].at = at
         /\ [Entry(at) EXCEPT !.exit = x].at = at
         /\ [Entry(at) EXCEPT !.first = f, !.before = b, !.start = s, !.exit = x].at = at
BY DEF Compound, Entry

\* A difference is the same after as many are added on both sides.
LEMMA Shifted ==
  ASSUME NEW d \in Int, NEW n \in Int, NEW k \in Int
  PROVE  d + k - (n + k) = d - n
OBVIOUS

\* What is marked has the form of a mark.
LEMMA Marking ==
  ASSUME NEW kind \in Kinds, NEW e, e.first \in Nat, e.before \in Nat, NEW c, Len(c) \in Nat,
         NEW more \in {0, 1}, marks \subseteq Marked, Mark(kind, e, c, more)
  PROVE  marks' \subseteq Marked
<1> DEFINE n == Len(c)
           b == e.before
           f == e.first
           m == [kind |-> kind, first |-> f, end |-> n + 1, before |-> b, after |-> b + more]
<1>1. marks' = marks \cup {m}
  BY DEF Mark, Here
<1>2. n \in Nat /\ b \in Nat /\ f \in Nat
  OBVIOUS
<1> HIDE DEF n, b, f
<1>3. m \in Marked
  BY <1>2 DEF Marked
<1> QED BY <1>1, <1>3

\* What a for statement leaves to do, the local it declares, and what it marks.
LEMMA ForForm ==
  ASSUME Compiling, for_statement, marks \subseteq Marked
  PROVE  /\ \E e : /\ work' = <<Entry("statement"), e>> \o (<<Compound("end_block")>> \o Rest)
                   /\ e.at = "end_for"
         /\ \/ locals' = locals
            \/ \E x, id : locals' = Append(locals, [name |-> x, depth |-> scope_depth', id |-> id])
         /\ locals' \in Seq(Locals) => marks' \subseteq Marked
<1>2. PICK var \in Names \cup {"none"}, condition \in BOOLEAN, increment \in BOOLEAN :
       LET init  == IF var = "none" THEN code ELSE Defining(Operand(code), declared')
           test  == IF condition THEN Condition(Operand(init)) ELSE init
           jump  == emit_jump(test, "jump")
           next  == emit_loop(emit_byte(Operand(jump), "pop"), "loop", Here(init))
           entry == [Entry("end_for") EXCEPT
                       !.first = Here(init),
                       !.before = Len(locals') + Matches,
                       !.start = IF increment THEN Here(jump) ELSE Here(init),
                       !.exit  = IF condition THEN Len(init) + 2 ELSE 0]
       IN  /\ var # "none" => Matches = 0 \/ "arm_locals" \in Forms
           /\ declared' = IF var = "none" THEN declared ELSE declared + 1
           /\ locals' = IF var = "none" THEN locals
                        ELSE Append(locals, [name |-> var, depth |-> scope_depth', id |-> declared'])
           /\ \/ /\ increment
                 /\ code' = patch_jump(next, Len(jump))
                 /\ begin_loop(Here(jump), entry.before)
                 /\ Mark("increment", [entry EXCEPT !.first = Here(jump)],
                         emit_byte(Operand(jump), "pop"), 0)
              \/ /\ ~increment
                 /\ "no_increment" \in Forms
                 /\ code' = test
                 /\ UNCHANGED <<loops, marks>>
           /\ work' = <<Entry("statement"), entry>> \o (<<Compound("end_block")>> \o Rest)
  BY Zenon DEF for_statement
<1> DEFINE init  == IF var = "none" THEN code ELSE Defining(Operand(code), declared')
           test  == IF condition THEN Condition(Operand(init)) ELSE init
           jump  == emit_jump(test, "jump")
           f == Here(init)
           b == Len(locals') + Matches
           start == IF increment THEN Here(jump) ELSE Here(init)
           exit == IF condition THEN Len(init) + 2 ELSE 0
           entry == [Entry("end_for") EXCEPT !.first = f, !.before = b, !.start = start, !.exit = exit]
           r == [entry EXCEPT !.first = Here(jump)]
           c == emit_byte(Operand(jump), "pop")
<1>3. /\ declared' = IF var = "none" THEN declared ELSE declared + 1
      /\ locals' = IF var = "none" THEN locals
                   ELSE Append(locals, [name |-> var, depth |-> scope_depth', id |-> declared'])
  BY <1>2
<1>4. \/ Mark("increment", r, c, 0)
      \/ marks' = marks
  BY <1>2
<1>5. work' = <<Entry("statement"), entry>> \o (<<Compound("end_block")>> \o Rest)
  BY <1>2
<1>6. entry.at = "end_for"
  BY KeepsPlace
<1>7. r.first = Here(jump) /\ r.before = b
  BY DEF Entry
<1>8. declared' \in Nat
  BY <1>3 DEF Compiling
<1>9. Sound(init)
  <2>1. CASE var = "none"
    BY <2>1 DEF Compiling
  <2>2. CASE var # "none"
    <3> DEFINE o == Operand(code)
    <3>1. Sound(o) /\ Len(o) > 0
      BY EmittingOperand DEF Compiling, Emits, Sound
    <3> HIDE DEF o
    <3>2. Sound(Defining(o, declared'))
      BY <1>8, <3>1, DefiningGhost DEF Emits
    <3> QED BY <2>2, <3>2 DEF o
  <2> QED BY <2>1, <2>2
<1> HIDE DEF init
<1>10. Sound(test)
  <2>1. CASE condition
    <3>1. Sound(Condition(Operand(init)))
      BY <1>9, EmittingOperand, EmittingCondition DEF Emits
    <3> QED BY <2>1, <3>1
  <2> QED BY <2>1, <1>9
<1> HIDE DEF test
<1>11. Sound(jump)
  BY <1>10, EmittingJump, ForwardOps DEF Emits
<1> HIDE DEF jump
<1>12. Here(jump) \in Nat /\ Len(c) \in Nat
  <2>1. Sound(c)
    BY <1>11, EmittingOperand, EmittingPop DEF Emits
  <2> HIDE DEF c
  <2> QED BY <2>1, <1>11 DEF Sound, Here
<1>13. ASSUME locals' \in Seq(Locals) PROVE marks' \subseteq Marked
  <2>1. b \in Nat
    BY <1>13, DepthType DEF Compiling
  <2>2. "increment" \in Kinds
    BY DEF Kinds
  <2> HIDE DEF b, r, c
  <2> QED BY <1>4, <1>7, <1>12, <2>1, <2>2, Marking
<1>14. \/ locals' = locals
       \/ \E x, id : locals' = Append(locals, [name |-> x, depth |-> scope_depth', id |-> id])
  BY <1>3
<1> HIDE DEF entry, r, c
<1> QED BY <1>5, <1>6, <1>13, <1>14

\* Each scope a step begins or ends is that of an entry it adds or removes.
LEMMA ScopesStep ==
  ASSUME Compiling, Compile, work' \in Seq(Entries), ~ end_compile, marks \subseteq Marked
  PROVE  scope_depth' - Scopes(work') = scope_depth - Scopes(work)

<1>1. work \in Seq(Entries) /\ scope_depth \in Int
  BY DEF Compiling
<1>2. CASE expr_statement \/ var_declaration \/ return_statement \/ break_statement \/ continue_statement
  <2>1. work # <<>> /\ Top.at \in OrArm /\ work' = Rest /\ scope_depth' = scope_depth
    BY <1>2 DEF expr_statement, var_declaration, return_statement, break_statement,
      continue_statement, Begin, OrArm, Anywhere
  <2> QED BY <2>1, ScopesOfRest
<1>3. CASE end_declarations \/ end_if \/ end_while \/ end_for
  <2>1. /\ work # <<>> /\ Top.at \in {"declarations", "end_if", "end_while", "end_for"}
        /\ work' = Tail(work) /\ scope_depth' = scope_depth
    BY <1>3 DEF end_declarations, end_if, end_while, end_for, Resume
  <2>2. Top.at \notin Scoping
    BY <2>1 DEF Scoping
  <2> QED BY <2>1, <2>2, <1>1, ScopesTail DEF Top
<1>4. CASE end_block \/ end_match
  <2>1. /\ work # <<>> /\ Top.at \in {"end_block", "arms", "end_match"}
        /\ work' = Tail(work) /\ scope_depth' = scope_depth - 1
    BY <1>4 DEF end_block, end_match, end_scope, Resume
  <2>2. Top.at \in Scoping
    BY <2>1 DEF Scoping
  <2>3. Scopes(work) \in Nat /\ Scopes(work') \in Nat /\ Scopes(work) = Scopes(work') + 1
    BY <2>1, <2>2, <1>1, ScopesTail DEF Top
  <2> QED BY <2>1, <2>3, <1>1
<1>5. CASE block_statement \/ if_statement \/ while_statement \/ loop_statement
  <2>1. work # <<>> /\ Top.at \in OrArm
    BY <1>5 DEF block_statement, if_statement, while_statement, loop_statement, Begin, OrArm, Anywhere
  <2>2. Rest \in Seq(Entries) /\ Scopes(Rest) = Scopes(work) /\ Scopes(work) \in Nat
    BY <2>1, ScopesOfRest
  <2>3. CASE block_statement
    <3>1. work' = <<Entry("declarations"), Compound("end_block")>> \o Rest /\ scope_depth' = scope_depth + 1
      BY <2>3 DEF block_statement, begin_scope
    <3>2. Entry("declarations").at \notin Scoping /\ Compound("end_block").at \in Scoping
      BY DEF Entry, Compound, Scoping
    <3>3. Scopes(work') = Scopes(Rest) + 1
      BY <3>1, <3>2, <2>2, ScopesTwice
    <3> DEFINE n == Scopes(work')
               m == Scopes(work)
               k == scope_depth'
    <3>4. n = m + 1 /\ m \in Nat /\ k = scope_depth + 1
      BY <3>1, <3>3, <2>2
    <3> HIDE DEF n, m, k
    <3>5. k - n = scope_depth - m
      BY <3>4, <1>1
    <3> QED BY <3>5 DEF n, m, k
  <2>4. CASE ~ block_statement
    <3>1. \E e : work' = <<Entry("statement"), e>> \o Rest /\ e.at \in {"end_then", "end_while"}
      <4>1. CASE if_statement
        <5> DEFINE e == [Compound("end_then") EXCEPT !.exit = Len(code') - 1]
        <5>1. e.at = "end_then"
          BY KeepsPlace
        <5>2. work' = <<Entry("statement"), e>> \o Rest
          BY <4>1 DEF if_statement
        <5> HIDE DEF e
        <5> QED BY <5>1, <5>2
      <4>2. CASE while_statement
        <5> DEFINE e == [Compound("end_while") EXCEPT !.start = Here(code), !.exit = Len(code') - 1]
        <5>1. e.at = "end_while"
          BY KeepsPlace
        <5>2. work' = <<Entry("statement"), e>> \o Rest
          BY <4>2 DEF while_statement
        <5> HIDE DEF e
        <5> QED BY <5>1, <5>2
      <4>3. CASE loop_statement
        <5> DEFINE e == [Compound("end_while") EXCEPT !.start = Here(code)]
        <5>1. e.at = "end_while"
          BY KeepsPlace
        <5>2. work' = <<Entry("statement"), e>> \o Rest
          BY <4>3 DEF loop_statement
        <5> HIDE DEF e
        <5> QED BY <5>1, <5>2
      <4> QED BY <4>1, <4>2, <4>3, <2>4, <1>5
    <3>2. PICK e : work' = <<Entry("statement"), e>> \o Rest /\ e.at \in {"end_then", "end_while"}
      BY <3>1
    <3>3. Entry("statement").at \notin Scoping /\ e.at \notin Scoping
      BY <3>2 DEF Entry, Scoping
    <3>4. Scopes(work') = Scopes(Rest)
      BY <3>2, <3>3, <2>2, ScopesTwice
    <3>5. scope_depth' = scope_depth
      BY <2>4, <1>5 DEF if_statement, while_statement, loop_statement
    <3> QED BY <3>4, <3>5, <2>2
  <2> QED BY <2>3, <2>4
<1>6. CASE arm_block
  <2>1. work # <<>> /\ Top.at \in OrArm /\ scope_depth' = scope_depth /\ work' = <<Entry("declarations")>> \o Rest
    BY <1>6 DEF arm_block, Begin, OrArm
  <2>2. Rest \in Seq(Entries) /\ Scopes(Rest) = Scopes(work)
    BY <2>1, ScopesOfRest
  <2>3. Entry("declarations").at \notin Scoping
    BY DEF Entry, Scoping
  <2>4. Scopes(work') = Scopes(Rest)
    BY <2>1, <2>2, <2>3, ScopesCons
  <2> QED BY <2>1, <2>2, <2>4
<1>7. CASE end_then
  <2> DEFINE e == [Top EXCEPT !.at = "end_if", !.exit = Len(emit_jump(code, "jump"))]
  <2>1. /\ work # <<>> /\ Top.at = "end_then" /\ scope_depth' = scope_depth
        /\ \/ work' = <<Entry("statement"), e>> \o Tail(work)
           \/ work' = <<e>> \o Tail(work)
    BY <1>7 DEF end_then, Resume
  <2>2. Tail(work) \in Seq(Entries) /\ Scopes(work) = Scopes(Tail(work))
    <3>1. Top.at \notin Scoping
      BY <2>1 DEF Scoping
    <3> QED BY <2>1, <3>1, <1>1, ScopesTail DEF Top
  <2>3. Top \in Entries
    BY <2>1, <1>1 DEF Top
  <2>4. e.at = "end_if"
    BY <2>3 DEF Entries
  <2>5. e.at \notin Scoping /\ Entry("statement").at \notin Scoping
    BY <2>4 DEF Entry, Scoping
  <2> HIDE DEF e
  <2>6. Scopes(work') = Scopes(Tail(work))
    <3>1. CASE work' = <<Entry("statement"), e>> \o Tail(work)
      BY <3>1, <2>2, <2>5, ScopesTwice
    <3>2. CASE work' = <<e>> \o Tail(work)
      BY <3>2, <2>2, <2>5, ScopesCons
    <3> QED BY <3>1, <3>2, <2>1
  <2> QED BY <2>1, <2>2, <2>6
<1>8. CASE for_statement
  <2>1. work # <<>> /\ Top.at \in OrArm /\ scope_depth' = scope_depth + 1
    BY <1>8 DEF for_statement, Begin, OrArm, begin_scope
  <2>2. \E e : /\ work' = <<Entry("statement"), e>> \o (<<Compound("end_block")>> \o Rest)
               /\ e.at = "end_for"
    BY <1>8, ForForm
  <2>3. PICK e : /\ work' = <<Entry("statement"), e>> \o (<<Compound("end_block")>> \o Rest)
                 /\ e.at = "end_for"
    BY <2>2
  <2>4. Rest \in Seq(Entries) /\ Scopes(Rest) = Scopes(work) /\ Scopes(work) \in Nat
    BY <2>1, ScopesOfRest
  <2> DEFINE b == Compound("end_block")
             w == <<b>> \o Rest
  <2>5. b \in Entries /\ b.at \in Scoping
    <3>1. "end_block" \in Places
      BY DEF Places
    <3> QED BY <3>1, CompoundType DEF Compiling, Scoping
  <2> HIDE DEF b
  <2>6. w \in Seq(Entries)
    BY <2>4, <2>5, ConsFacts
  <2>7. Scopes(w) = Scopes(Rest) + 1
    BY <2>4, <2>5, <2>6, ScopesCons
  <2> HIDE DEF w
  <2>8. Scopes(work') = Scopes(w)
    <3>1. work' = <<Entry("statement"), e>> \o w
      BY <2>3 DEF w, b
    <3>2. Entry("statement").at \notin Scoping /\ e.at \notin Scoping
      BY <2>3 DEF Entry, Scoping
    <3> QED BY <3>1, <3>2, <2>6, ScopesTwice
  <2> DEFINE n == Scopes(work')
             m == Scopes(work)
             k == scope_depth'
  <2>9. n = m + 1 /\ m \in Nat /\ k = scope_depth + 1
    BY <2>1, <2>4, <2>7, <2>8
  <2> HIDE DEF n, m, k
  <2>10. k - n = scope_depth - m
    BY <2>9, <1>1
  <2> QED BY <2>10 DEF n, m, k
<1>9. CASE match_statement
  <2>1. work # <<>> /\ Top.at \in OrArm /\ scope_depth' = scope_depth + 1
    BY <1>9 DEF match_statement, Begin, begin_scope
  <2> DEFINE e == [Compound("arms") EXCEPT !.start = Len(code')]
  <2>2. work' = <<e>> \o Rest /\ e.at \in Scoping
    <3>1. e.at = "arms"
      BY KeepsPlace
    <3>2. work' = <<e>> \o Rest
      BY <1>9 DEF match_statement
    <3> HIDE DEF e
    <3> QED BY <3>1, <3>2 DEF Scoping
  <2>3. Rest \in Seq(Entries) /\ Scopes(Rest) = Scopes(work) /\ Scopes(work) \in Nat
    BY <2>1, ScopesOfRest
  <2> HIDE DEF e
  <2>4. Scopes(work') = Scopes(Rest) + 1
    BY <2>2, <2>3, ScopesCons
  <2> DEFINE n == Scopes(work')
             m == Scopes(work)
             k == scope_depth'
  <2>5. n = m + 1 /\ m \in Nat /\ k = scope_depth + 1
    BY <2>1, <2>3, <2>4
  <2> HIDE DEF n, m, k
  <2>6. k - n = scope_depth - m
    BY <2>5, <1>1
  <2> QED BY <2>6 DEF n, m, k
<1>10. CASE match_member \/ match_member_bind \/ match_default
  <2>1. scope_depth' = scope_depth + 1 /\ work # <<>>
    BY <1>10 DEF match_member, match_member_bind, match_default, begin_scope, Resume
  <2>2. \E e : work' = <<Entry("arm"), e>> \o work /\ e.at \in {"end_arm", "end_default"}
    <3>1. \/ work' = <<Entry("arm"), Entry("end_default")>> \o work
          \/ \E x : work' = <<Entry("arm"), [Entry("end_arm") EXCEPT !.exit = x]>> \o work
      BY <1>10 DEF match_member, match_member_bind, match_default
    <3>2. CASE work' = <<Entry("arm"), Entry("end_default")>> \o work
      <4> DEFINE e == Entry("end_default")
      <4>1. e.at = "end_default" /\ work' = <<Entry("arm"), e>> \o work
        BY <3>2, KeepsPlace
      <4> HIDE DEF e
      <4> QED BY <4>1
    <3>3. ASSUME NEW x, work' = <<Entry("arm"), [Entry("end_arm") EXCEPT !.exit = x]>> \o work
          PROVE  \E e : work' = <<Entry("arm"), e>> \o work /\ e.at \in {"end_arm", "end_default"}
      <4> DEFINE e == [Entry("end_arm") EXCEPT !.exit = x]
      <4>1. e.at = "end_arm"
        BY KeepsPlace
      <4>2. work' = <<Entry("arm"), e>> \o work
        BY <3>3
      <4> HIDE DEF e
      <4> QED BY <4>1, <4>2
    <3> QED BY <3>1, <3>2, <3>3
  <2>3. PICK e : work' = <<Entry("arm"), e>> \o work /\ e.at \in {"end_arm", "end_default"}
    BY <2>2
  <2>4. Entry("arm").at \notin Scoping /\ e.at \in Scoping
    BY <2>3 DEF Entry, Scoping
  <2>5. Scopes(work') = Scopes(work) + 1
    BY <2>3, <2>4, <1>1, ScopesTwice
  <2>6. Scopes(work) \in Nat
    BY <2>1, <1>1, ScopesTail
  <2> QED BY <2>1, <2>5, <2>6, <1>1
<1>11. CASE end_arm
  <2> DEFINE v == Tail(work)
             w == Tail(v)
             r == Head(v)
             e == [r EXCEPT !.at = IF Top.at = "end_arm" THEN r.at ELSE "end_match",
                            !.ends = r.ends \cup {Len(emit_jump(code, "jump"))}]
  <2>1. /\ work # <<>> /\ EndsArm(Top) /\ scope_depth' = scope_depth - 1
        /\ work' = <<[work[2] EXCEPT !.at = IF Top.at = "end_arm" THEN @ ELSE "end_match",
                                     !.ends = @ \cup {Len(emit_jump(code, "jump"))}]>>
                   \o SubSeq(work, 3, Len(work))
    BY <1>11 DEF end_arm, Resume, EndsArm, end_scope
  <2>2. v # <<>> /\ r.at = "arms" /\ v \in Seq(Entries)
    <3>1. WorkFits(work, code) /\ EndsArm(Head(work)) /\ work # <<>>
      BY <2>1 DEF Compiling, Top
    <3>2. WorkFits(Tail(work), code) /\ Tail(work) # <<>> /\ Head(Tail(work)).at = "arms"
      BY <3>1, WorkTail
    <3> QED BY <3>2 DEF WorkFits
  <2>3. work[2] = r /\ SubSeq(work, 3, Len(work)) = w
    <3>1. Len(work) >= 2
      BY <2>1, <2>2, <1>1
    <3> QED BY <3>1, <1>1, TwoEntries
  <2>4. work' = <<e>> \o w
    BY <2>1, <2>3
  <2>5. e.at \in Scoping
    <3>1. r \in Entries
      BY <2>2
    <3> HIDE DEF r
    <3>2. e.at \in {"arms", "end_match"}
      BY <3>1, <2>2 DEF Entries
    <3> QED BY <3>2 DEF Scoping
  <2>6. Scopes(work) \in Nat /\ Scopes(work) = Scopes(v) + 1 /\ Scopes(v) \in Nat
    <3>1. Top.at \in Scoping
      BY <2>1 DEF EndsArm, Scoping
    <3> QED BY <3>1, <2>1, <1>1, ScopesTail DEF Top
  <2>7. Scopes(v) = Scopes(w) + 1 /\ w \in Seq(Entries)
    <3>1. r.at \in Scoping
      BY <2>2 DEF Scoping
    <3> HIDE DEF v
    <3> QED BY <3>1, <2>2, ScopesTail
  <2> HIDE DEF e, w, v
  <2>8. Scopes(work') = Scopes(w) + 1
    BY <2>4, <2>5, <2>7, ScopesCons
  <2> QED BY <2>1, <2>6, <2>7, <2>8, <1>1
<1> QED BY <1>2, <1>3, <1>4, <1>5, <1>6, <1>7, <1>8, <1>9, <1>10, <1>11 DEF Compile

\* What the compiler marks has the form of a mark.
LEMMA MarksTyped ==
  ASSUME Compiling, Compile, marks \subseteq Marked, Len(code') \in Nat, locals' \in Seq(Locals)
  PROVE  marks' \subseteq Marked
<1>1. ASSUME NEW at \in Places PROVE Compound(at).first \in Nat /\ Compound(at).before \in Nat
  <2>1. Compound(at) \in Entries
    BY CompoundType DEF Compiling
  <2> QED BY <2>1 DEF Entries
<1>2. ASSUME work # <<>> PROVE Top.first \in Nat /\ Top.before \in Nat
  <2>1. Top \in Entries
    BY <1>2 DEF Compiling, Top
  <2> QED BY <2>1 DEF Entries
<1>3. CASE expr_statement \/ break_statement \/ continue_statement \/ return_statement
  <2>1. PICK kind \in {"expression", "break", "continue", "return"} : Mark(kind, Compound(kind), code', 0)
    BY <1>3 DEF expr_statement, break_statement, continue_statement, return_statement
  <2>2. kind \in Kinds /\ kind \in Places
    BY DEF Kinds, Places
  <2> QED BY <1>1, <2>1, <2>2, Marking
<1>4. CASE var_declaration
  <2>1. PICK more \in {0, 1} : Mark("var", Compound("var"), code', more)
    BY <1>4 DEF var_declaration
  <2>2. "var" \in Kinds /\ "var" \in Places
    BY DEF Kinds, Places
  <2> QED BY <1>1, <2>1, <2>2, Marking
<1>5. CASE end_block \/ end_if \/ end_while \/ end_for \/ end_match
  <2>1. work # <<>>
    BY <1>5 DEF end_block, end_if, end_while, end_for, end_match, Resume
  <2>2. PICK kind \in {"block", "if", "while", "for", "match"} : Mark(kind, Top, code', 0)
    BY <1>5 DEF end_block, end_if, end_while, end_for, end_match
  <2>3. kind \in Kinds
    BY DEF Kinds
  <2> QED BY <1>2, <2>1, <2>2, <2>3, Marking
<1>6. CASE for_statement
  BY <1>6, ForForm
<1>7. CASE \/ block_statement \/ arm_block \/ end_declarations \/ if_statement \/ end_then
           \/ while_statement \/ loop_statement \/ match_statement \/ match_member
           \/ match_member_bind \/ match_default \/ end_arm \/ end_compile
  <2>1. marks' = marks
    BY <1>7 DEF block_statement, arm_block, end_declarations, if_statement, end_then,
      while_statement, loop_statement, match_statement, match_member, match_member_bind,
      match_default, end_arm, end_compile
  <2> QED BY <2>1
<1> QED BY <1>3, <1>4, <1>5, <1>6, <1>7 DEF Compile

\* The statements left are never fewer than none.
LEMMA BudgetTyped ==
  ASSUME Compiling, Compile, budget \in Nat
  PROVE  budget' \in Nat
<1>1. ASSUME budget # 0 PROVE budget - 1 \in Nat
  BY <1>1
<1>2. CASE expr_statement
  BY <1>2 DEF expr_statement, Spend
<1>3. CASE \/ var_declaration \/ return_statement \/ break_statement \/ continue_statement
           \/ block_statement \/ arm_block \/ if_statement \/ while_statement \/ loop_statement
           \/ for_statement \/ match_statement
  <2>1. budget # 0 /\ budget' = budget - 1
    BY <1>3 DEF var_declaration, return_statement, break_statement, continue_statement,
      block_statement, arm_block, if_statement, while_statement, loop_statement, for_statement,
      match_statement, Begin, Spend
  <2> QED BY <1>1, <2>1
<1>4. CASE match_member \/ match_member_bind
  <2>1. budget > 0 /\ budget' = budget - 1
    BY <1>4 DEF match_member, match_member_bind, Spend
  <2> QED BY <2>1
<1>5. CASE \/ end_declarations \/ end_block \/ end_then \/ end_if \/ end_while \/ end_for
           \/ match_default \/ end_arm \/ end_match \/ end_compile
  BY <1>5 DEF end_declarations, end_block, end_then, end_if, end_while, end_for, match_default,
    end_arm, end_match, end_compile
<1> QED BY <1>2, <1>3, <1>4, <1>5 DEF Compile

Nested(l) == \A k \in DOMAIN l : l[k].depth \in Nat

\* One more local at a depth that is a natural number.
LEMMA NestedAppend ==
  ASSUME NEW l \in Seq(Locals), Nested(l), NEW x, NEW d \in Nat, NEW id
  PROVE  Nested(Append(l, [name |-> x, depth |-> d, id |-> id]))
<1> DEFINE e == [name |-> x, depth |-> d, id |-> id]
           v == Append(l, e)
           n == Len(l)
<1>1. n \in Nat /\ DOMAIN l = 1..n
  OBVIOUS
<1>2. DOMAIN v = 1..(n + 1) /\ v[n + 1] = e /\ \A k \in 1..n : v[k] = l[k]
  <2> DEFINE T == Locals \cup {e}
  <2>1. l \in Seq(T)
    <3>1. \A k \in 1..n : l[k] \in Locals
      BY <1>1
    <3>2. l \in [1..n -> T]
      BY <1>1, <3>1
    <3> HIDE DEF T
    <3> QED BY <1>1, <3>2
  <2>2. e \in T
    OBVIOUS
  <2> HIDE DEF e, T
  <2> QED BY <1>1, <2>1, <2>2
<1>3. e.depth = d
  OBVIOUS
<1> HIDE DEF e, v, n
<1>4. ASSUME NEW k \in DOMAIN v PROVE v[k].depth \in Nat
  <2>1. CASE k = n + 1
    BY <2>1, <1>2, <1>3
  <2>2. CASE k # n + 1
    <3>1. k \in 1..n
      BY <2>2, <1>1, <1>2
    <3> QED BY <3>1, <1>1, <1>2 DEF Nested
  <2> QED BY <2>1, <2>2
<1> QED BY <1>4 DEF Nested, v, e

\* The locals lie in scopes that are open.
LEMMA DepthsTyped ==
  ASSUME Compiling, Compile, Nested(locals), scope_depth \in Nat, scope_depth' \in Nat,
         marks \subseteq Marked
  PROVE  Nested(locals')
<1> DEFINE Added(d) == \E x, id : locals' = Append(locals, [name |-> x, depth |-> d, id |-> id])
<1>1. ASSUME NEW d \in Nat, Added(d) PROVE Nested(locals')
  <2>1. PICK x, id : locals' = Append(locals, [name |-> x, depth |-> d, id |-> id])
    BY <1>1
  <2> QED BY <2>1, NestedAppend DEF Compiling
<1>2. CASE var_declaration
  <2>1. locals' = locals \/ Added(scope_depth)
    BY <1>2 DEF var_declaration, add_local
  <2> QED BY <1>1, <2>1
<1>3. CASE for_statement
  <2>1. locals' = locals \/ Added(scope_depth')
    BY <1>3, ForForm
  <2> QED BY <1>1, <2>1
<1>4. CASE match_member_bind
  <2>1. Added(scope_depth')
    BY <1>4 DEF match_member_bind
  <2> QED BY <1>1, <2>1
<1>5. CASE end_block \/ end_arm \/ end_match
  <2>1. locals' = SubSeq(locals, 1, Len(locals) - Leaving)
    BY <1>5 DEF end_block, end_arm, end_match, end_scope
  <2>2. locals \in Seq(Locals) /\ Len(locals) \in Nat /\ Leaving \in 0..Len(locals)
    BY LeavingType DEF Compiling
  <2>3. PICK n \in 0..Len(locals) : n = Len(locals) - Leaving
    BY <2>2, DifferencesInRange, Zenon
  <2> DEFINE v == SubSeq(locals, 1, n)
  <2>4. DOMAIN v = 1..n /\ \A k \in 1..n : v[k] = locals[k]
    BY <2>2
  <2>5. 1..n \subseteq DOMAIN locals
    BY <2>2
  <2>6. locals' = v
    BY <2>1, <2>3
  <2> HIDE DEF v
  <2> QED BY <2>4, <2>5, <2>6 DEF Nested
<1>6. CASE end_compile
  <2>1. locals' = <<>>
    BY <1>6 DEF end_compile
  <2>2. Nested(<<>>)
    BY DEF Nested
  <2> QED BY <2>1, <2>2
<1>7. CASE \/ expr_statement \/ return_statement \/ break_statement \/ continue_statement
           \/ block_statement \/ arm_block \/ end_declarations \/ if_statement \/ end_then \/ end_if
           \/ while_statement \/ end_while \/ loop_statement \/ end_for \/ match_statement
           \/ match_member \/ match_default
  <2>1. locals' = locals
    BY <1>7 DEF expr_statement, return_statement, break_statement, continue_statement,
      block_statement, arm_block, end_declarations, if_statement, end_then, end_if,
      while_statement, end_while, loop_statement, end_for, match_statement, match_member,
      match_default
  <2> QED BY <2>1
<1> QED BY <1>2, <1>3, <1>4, <1>5, <1>6, <1>7 DEF Compile

\* Locals whose depths are natural numbers have the form the source declares.
LEMMA NestedLocals ==
  ASSUME NEW l
  PROVE  l \in Seq([name : Names \cup {""}, depth : Nat, id : Nat]) <=> l \in Seq(Locals) /\ Nested(l)
<1> DEFINE N == [name : Names \cup {""}, depth : Nat, id : Nat]
<1>1. ASSUME NEW e PROVE e \in N <=> e \in Locals /\ e.depth \in Nat
  <2>1. ASSUME e \in N PROVE e \in Locals /\ e.depth \in Nat
    <3>0. e \in [name : Names \cup {""}, depth : Nat, id : Nat]
      BY <2>1
    <3>1. e = [name |-> e.name, depth |-> e.depth, id |-> e.id]
      BY <3>0
    <3>2. e.name \in Names \cup {""} /\ e.id \in Nat /\ e.depth \in Nat
      BY <3>0
    <3>3. e.depth \in Int
      <4>1. \A d \in Nat : d \in Int
        OBVIOUS
      <4> QED BY <3>2, <4>1, Zenon
    <3> QED BY <3>1, <3>2, <3>3 DEF Locals
  <2>2. ASSUME e \in Locals, e.depth \in Nat PROVE e \in N
    <3>1. e = [name |-> e.name, depth |-> e.depth, id |-> e.id]
      BY <2>2 DEF Locals
    <3>2. e.name \in Names \cup {""} /\ e.id \in Nat
      BY <2>2 DEF Locals
    <3> QED BY <2>2, <3>1, <3>2
  <2> HIDE DEF N
  <2> QED BY <2>1, <2>2
<1> HIDE DEF N
<1>2. ASSUME l \in Seq(N) PROVE l \in Seq(Locals) /\ Nested(l)
  <2>1. /\ DOMAIN l = 1..Len(l) /\ Len(l) \in Nat /\ l \in [1..Len(l) -> N]
    BY <1>2
  <2>2. l \in [1..Len(l) -> Locals]
    BY <1>1, <2>1
  <2>3. Nested(l)
    BY <1>1, <2>1 DEF Nested
  <2> QED BY <2>1, <2>2, <2>3
<1>3. ASSUME l \in Seq(Locals), Nested(l) PROVE l \in Seq(N)
  <2>1. /\ DOMAIN l = 1..Len(l) /\ Len(l) \in Nat /\ l \in [1..Len(l) -> Locals]
    BY <1>3
  <2>2. l \in [1..Len(l) -> N]
    BY <1>1, <1>3, <2>1 DEF Nested
  <2> QED BY <2>1, <2>2
<1> QED BY <1>2, <1>3 DEF N

\* The form of the state is that of each of its parts.
LEMMA TypeParts ==
  TypeOK <=>
    /\ phase \in {"compile", "crashed", "run", "panicked", "returned"}
    /\ fn_type \in {"script", "fn"}
    /\ code \in Seq(Instructions)
    /\ locals \in Seq(Locals) /\ Nested(locals)
    /\ scope_depth \in Nat
    /\ loops \in Seq(Loops)
    /\ work \in Seq(Entries)
    /\ budget \in Nat
    /\ declared \in Nat
    /\ marks \subseteq Marked
    /\ stack \in Seq(Nat)
    /\ pc \in Nat
BY NestedLocals DEF TypeOK, Instructions, Loops, Entries, Marked

\* A step of the compiler goes on, crashes, or ends with the code.
LEMMA CompilePhases ==
  ASSUME Compiling, Compile
  PROVE  /\ phase' = "compile" \/ end_compile
            \/ /\ phase' = "crashed" /\ work # <<>> /\ work' = Tail(work)
               /\ UNCHANGED <<code, locals, scope_depth, loops, declared>>
               /\ Top.at \in {"end_while", "end_for"}
         /\ fn_type' = fn_type
<1>1. phase = "compile"
  BY DEF Compiling
<1>2. CASE end_while \/ end_for
  <2>1. /\ work # <<>> /\ work' = Tail(work) /\ UNCHANGED <<locals, scope_depth, declared, fn_type>>
        /\ Top.at \in {"end_while", "end_for"} /\ end_loop(Repeat(code, Top))
    BY <1>2 DEF end_while, end_for, Resume
  <2>2. phase' = "compile" \/ (phase' = "crashed" /\ UNCHANGED <<code, loops>>)
    <3> DEFINE c == Repeat(code, Top)
    <3>1. end_loop(c)
      BY <2>1
    <3> HIDE DEF c
    <3>2. CASE loops = <<>>
      BY <3>1, <3>2 DEF end_loop
    <3>3. CASE loops # <<>>
      BY <1>1, <3>1, <3>3 DEF end_loop
    <3> QED BY <3>2, <3>3
  <2> QED BY <2>1, <2>2
<1>3. CASE end_compile
  BY <1>3 DEF end_compile
<1>4. CASE \/ expr_statement \/ var_declaration \/ return_statement \/ break_statement \/ continue_statement
           \/ block_statement \/ arm_block \/ end_declarations \/ end_block
           \/ if_statement \/ end_then \/ end_if \/ while_statement \/ loop_statement
           \/ for_statement \/ match_statement \/ match_member \/ match_member_bind
           \/ match_default \/ end_arm \/ end_match
  <2>1. phase' = phase /\ fn_type' = fn_type
    BY <1>4 DEF expr_statement, var_declaration, return_statement, break_statement,
      continue_statement, block_statement, arm_block, end_declarations, end_block, if_statement,
      end_then, end_if, while_statement, loop_statement, for_statement, match_statement,
      match_member, match_member_bind, match_default, end_arm, end_match
  <2> QED BY <1>1, <2>1
<1> QED BY <1>2, <1>3, <1>4 DEF Compile

\* A step of the compiler keeps the form of the state.
LEMMA CompileTyped ==
  ASSUME FormInv, end_compile => Unpatched(code) = {}, Typed, Compile, UNCHANGED <<stack, pc>>
  PROVE  Typed'
<1>1. FormInv' /\ phase = "compile"
  BY CompileStep DEF Compile, Begin, Resume, expr_statement, var_declaration, return_statement,
    break_statement, continue_statement, block_statement, arm_block, end_declarations, end_block,
    if_statement, end_then, end_if, while_statement, end_while, loop_statement, for_statement,
    end_for, match_statement, match_member, match_member_bind, match_default, end_arm, end_match,
    end_compile
<1>2. Compiling
  BY <1>1, CompilingFacts DEF FormInv
<1>3. /\ scope_depth \in Nat /\ Nested(locals) /\ budget \in Nat /\ marks \subseteq Marked
      /\ stack \in Seq(Nat) /\ fn_type \in {"script", "fn"} /\ declared \in Nat
  BY TypeParts DEF Typed
<1>4. scope_depth - Scopes(work) \in Nat
  BY <1>1 DEF Typed
<1>5. budget' \in Nat
  BY <1>2, <1>3, BudgetTyped
<1>6. /\ code' \in Seq(Instructions) /\ Len(code') \in Nat
      /\ locals' \in Seq(Locals) /\ scope_depth' \in Int /\ declared' \in Nat
      /\ loops' \in Seq(Loops) /\ work' \in Seq(Entries) /\ pc' \in Nat
      /\ phase' \in {"compile", "crashed", "run"} /\ fn_type' \in {"script", "fn"}
  <2>1. pc' \in Nat /\ fn_type' \in {"script", "fn"}
    BY <1>2, <1>3, CompilePhases DEF Compiling
  <2>2. CASE phase' = "compile"
    BY <1>1, <2>1, <2>2 DEF FormInv, CompileInv, Sound, LoopsFit, WorkFits
  <2>3. CASE phase' = "crashed" /\ UNCHANGED <<code, locals, scope_depth, loops, declared>>
             /\ work # <<>> /\ work' = Tail(work)
    <3>1. Tail(work) \in Seq(Entries)
      BY <2>3, <1>2 DEF Compiling
    <3> QED BY <2>1, <2>3, <3>1, <1>2 DEF Compiling
  <2>4. CASE end_compile
    <3>1. /\ phase' = "run" /\ locals' = <<>> /\ scope_depth' = 0 /\ declared' = 0
          /\ loops' = loops /\ work' = work
      BY <2>4 DEF end_compile
    <3>2. Sealed(code')
      BY <1>1, <3>1 DEF FormInv, RunInv
    <3>3. code' \in Seq(Instructions) /\ Len(code') \in Nat
      BY <3>2 DEF Sealed
    <3>4. locals' \in Seq(Locals)
      BY <3>1
    <3> QED BY <2>1, <3>1, <3>3, <3>4, <1>2 DEF Compiling
  <2> QED BY <1>2, <2>2, <2>3, <2>4, CompilePhases
<1>7. marks' \subseteq Marked
  BY <1>2, <1>3, <1>6, MarksTyped
<1>8. phase' = "compile" => scope_depth' - Scopes(work') \in Nat
  <2>1. ~ end_compile => scope_depth' - Scopes(work') = scope_depth - Scopes(work)
    BY <1>2, <1>3, <1>6, ScopesStep
  <2>2. end_compile => phase' = "run"
    BY DEF end_compile
  <2> QED BY <1>4, <2>1, <2>2
<1>9. scope_depth' \in Nat
  <2>1. CASE phase' = "compile"
    <3> DEFINE n == Scopes(work')
               k == scope_depth'
    <3>1. n \in Nat
      BY <1>6, ScopesType
    <3>2. k - n \in Nat /\ k \in Int
      BY <2>1, <1>6, <1>8
    <3> HIDE DEF n, k
    <3>3. k \in Nat
      BY <3>1, <3>2
    <3> QED BY <3>3 DEF k
  <2>2. CASE end_compile
    BY <2>2 DEF end_compile
  <2> QED BY <2>1, <2>2, <1>2, <1>3, CompilePhases
<1>10. Nested(locals')
  BY <1>2, <1>3, <1>9, DepthsTyped
<1>11. TypeOK'
  <2>1. stack' \in Seq(Nat)
    BY <1>3
  <2>2. locals' \in Seq([name : Names \cup {""}, depth : Nat, id : Nat])
    BY <1>6, <1>10, NestedLocals
  <2> QED BY <1>5, <1>6, <1>7, <1>9, <2>1, <2>2 DEF TypeOK, Instructions, Loops, Entries, Marked
<1> QED BY <1>8, <1>11 DEF Typed

\* The stack holds variables after each instruction.
LEMMA RunTyped ==
  ASSUME FormInv, Typed, Run
  PROVE  Typed'
<1>1. phase = "run" /\ FormInv'
  BY RunStep DEF Run, At, panic, op_push, op_get_local, op_set_local, op_pop, op_jump_if_false, op_jump,
    op_loop, op_match, op_jump_if_neq, op_enum_member_match, op_enum_member_bind, op_return
<1>2. stack \in Seq(Nat) /\ Len(stack) \in Nat /\ pc \in Nat
  BY TypeParts DEF Typed
<1>3. Fetched.def \in Nat
  <2>1. Fetched \in Instructions
    BY <1>1 DEF FormInv, RunInv, Sealed, Fetched
  <2> QED BY <2>1 DEF Instructions
<1>4. ASSUME NEW n \in 0..Len(stack) PROVE Popped(n) \in Seq(Nat)
  <2>1. Len(stack) - n \in 0..Len(stack)
    BY <1>2
  <2> DEFINE k == Len(stack) - n
  <2>2. k \in 0..Len(stack)
    BY <2>1
  <2> HIDE DEF k
  <2>3. SubSeq(stack, 1, k) \in Seq(Nat)
    BY <1>2, <2>2, SubSeqProperties
  <2> QED BY <2>3 DEF Popped, k
<1>5. UNCHANGED <<fn_type, code, locals, scope_depth, loops, work, budget, declared, marks>>
  BY DEF Run, panic, op_push, op_get_local, op_set_local, op_pop, op_jump_if_false, op_jump,
    op_loop, op_match, op_jump_if_neq, op_enum_member_match, op_enum_member_bind, op_return,
    compileVars
<1>6. stack' \in Seq(Nat)
  <2>1. CASE panic \/ op_set_local \/ op_jump_if_false \/ op_jump \/ op_loop \/ op_match \/ op_return
    <3>1. stack' = stack
      BY <2>1 DEF panic, op_set_local, op_jump_if_false, op_jump, op_loop, op_match, op_return
    <3> QED BY <1>2, <3>1
  <2>2. CASE op_push \/ op_get_local
    <3>1. stack' = Append(stack, Fetched.def)
      BY <2>2 DEF op_push, op_get_local
    <3> QED BY <1>2, <1>3, <3>1, AppendProperties
  <2>3. CASE op_pop \/ op_jump_if_neq
    <3>1. stack' = Popped(1) /\ Len(stack) >= 1
      BY <2>3, <1>2 DEF op_pop, op_jump_if_neq, Holds
    <3>2. 1 \in 0..Len(stack)
      BY <1>2, <3>1
    <3> QED BY <1>4, <3>1, <3>2
  <2>4. CASE op_enum_member_match
    <3>1. (stack' = Popped(2) \/ stack' = Append(Popped(2), 0)) /\ Len(stack) >= 3
      BY <2>4 DEF op_enum_member_match, Holds
    <3>2. 2 \in 0..Len(stack)
      BY <1>2, <3>1
    <3>3. Popped(2) \in Seq(Nat)
      BY <1>4, <3>2
    <3> DEFINE p == Popped(2)
    <3> HIDE DEF p
    <3>4. Append(p, 0) \in Seq(Nat)
      BY <3>3 DEF p
    <3> QED BY <3>1, <3>3, <3>4 DEF p
  <2>5. CASE op_enum_member_bind
    <3> DEFINE a == Fetched.arg
               v == Fetched.def
    <3>1. stack' = [stack EXCEPT ![a] = v] /\ v \in Nat
      BY <2>5, <1>3 DEF op_enum_member_bind
    <3> HIDE DEF a, v
    <3>2. stack \in [1..Len(stack) -> Nat]
      BY <1>2
    <3>3. [stack EXCEPT ![a] = v] \in [1..Len(stack) -> Nat]
      BY <3>1, <3>2
    <3> QED BY <1>2, <3>1, <3>3
  <2> QED BY <2>1, <2>2, <2>3, <2>4, <2>5 DEF Run
<1>7. pc' \in Nat /\ phase' \in {"run", "panicked", "returned"}
  <2>1. CASE panic \/ op_return
    BY <2>1, <1>2 DEF panic, op_return
  <2>2. CASE ~ (panic \/ op_return)
    <3>1. phase' = "run"
      BY <2>2, <1>1 DEF Run, op_push, op_get_local, op_set_local, op_pop, op_jump_if_false, op_jump,
        op_loop, op_match, op_jump_if_neq, op_enum_member_match, op_enum_member_bind, compileVars
    <3>2. pc' \in DOMAIN code' /\ code' \in Seq(Instructions)
      BY <1>1, <3>1 DEF FormInv, RunInv, Sealed
    <3>3. pc' \in Nat
      <4>1. DOMAIN code' = 1..Len(code') /\ Len(code') \in Nat
        BY <3>2
      <4> QED BY <3>2, <4>1
    <3> QED BY <3>1, <3>3
  <2> QED BY <2>1, <2>2
<1>8. TypeOK'
  BY <1>5, <1>6, <1>7 DEF TypeOK, Typed
<1> QED BY <1>7, <1>8 DEF Typed

\* The state has the form the source declares when compilation begins.
LEMMA BeginningTyped ==
  Init => Typed
<1> SUFFICES ASSUME Init PROVE Typed
  OBVIOUS
<1>1. FormInv /\ phase = "compile" /\ Compiling
  BY Beginning, CompilingFacts DEF Init, InitCompile, FormInv
<1>2. /\ code = <<>> /\ loops = <<>> /\ budget = StatementsMax /\ marks = {}
      /\ work = <<Entry("declarations")>> /\ pc = 1
  BY DEF Init, InitCompile
<1>3. scope_depth \in Nat /\ fn_type \in {"script", "fn"}
  BY DEF Init, InitCompile
<1>4. Nested(locals)
  <2>1. locals = <<Callee>> \/ \E x \in Names : locals = <<Callee, [name |-> x, depth |-> 1, id |-> 1]>>
    BY DEF Init, InitCompile
  <2>2. CASE locals = <<Callee>>
    <3>1. DOMAIN locals = {1} /\ locals[1] = Callee
      BY <2>2
    <3>2. Callee.depth = 0
      BY DEF Callee
    <3> QED BY <3>1, <3>2 DEF Nested
  <2>3. ASSUME NEW x \in Names, locals = <<Callee, [name |-> x, depth |-> 1, id |-> 1]>>
        PROVE  Nested(locals)
    <3> DEFINE e == [name |-> x, depth |-> 1, id |-> 1]
    <3>1. locals = <<Callee, e>> /\ e.depth = 1 /\ Callee.depth = 0
      BY <2>3 DEF Callee
    <3> HIDE DEF e
    <3>2. DOMAIN locals = {1, 2} /\ locals[1] = Callee /\ locals[2] = e
      BY <3>1
    <3> QED BY <3>1, <3>2 DEF Nested
  <2> QED BY <2>1, <2>2, <2>3
<1>5. stack \in Seq(Nat)
  <2>1. stack = [k \in DOMAIN locals |-> locals[k].id] /\ locals \in Seq(Locals)
    BY <1>1 DEF Init, Compiling
  <2>2. \A k \in DOMAIN locals : locals[k].id \in Nat
    <3>1. \A k \in DOMAIN locals : locals[k] \in Locals
      BY <2>1
    <3> QED BY <3>1 DEF Locals
  <2>3. stack \in [1..Len(locals) -> Nat] /\ Len(locals) \in Nat
    BY <2>1, <2>2
  <2> QED BY <2>3
<1>6. Scopes(work) = 0
  <2>1. DOMAIN work = {1} /\ work[1].at = "declarations"
    BY <1>2 DEF Entry
  <2>2. {k \in DOMAIN work : work[k].at \in Scoping} = {}
    BY <2>1 DEF Scoping
  <2>3. Scopes(work) = Cardinality({})
    BY <2>2 DEF Scopes
  <2> QED BY <2>3, FS_EmptySet
<1>7. TypeOK
  <2>1. code \in Seq(Instructions) /\ locals \in Seq(Locals) /\ loops \in Seq(Loops)
        /\ work \in Seq(Entries) /\ declared \in Nat
    BY <1>1 DEF Compiling
  <2>2. budget \in Nat /\ marks \subseteq Marked /\ pc \in Nat
    BY <1>2, StatementsAreBounded
  <2> QED BY <1>1, <1>3, <1>4, <1>5, <2>1, <2>2, TypeParts
<1>8. scope_depth - Scopes(work) \in Nat
  BY <1>3, <1>6
<1> QED BY <1>7, <1>8 DEF Typed

-----------------------------------------------------------------------------
(* The jumps that wait to be patched.                                      *)

\* The entries that patch the jump in `exit` when they are reached.
Exiting == {"end_then", "end_if", "end_while", "end_for", "end_arm"}

\* The jumps an entry will patch.
Awaited(entry) ==
  IF entry.at \in Exiting THEN {entry.exit}
  ELSE IF entry.at \in {"arms", "end_match"} THEN entry.ends ELSE {}

AwaitedBy(w) == UNION {Awaited(w[k]) : k \in DOMAIN w}

\* The first break of each loop.
Breaks(l) == {l[k].end : k \in DOMAIN l}

\* The entries that end a loop, and how many there are.
Looping == {"end_while", "end_for"}

LoopEnds(w) == Cardinality({k \in DOMAIN w : w[k].at \in Looping})

\* Each jump that waits is patched by an entry or at the end of a loop, and each loop
\* is ended by an entry.
JumpsInv ==
  phase = "compile" =>
    /\ Unpatched(code) \subseteq AwaitedBy(work) \cup Breaks(loops)
    /\ Len(loops) <= LoopEnds(work)

IInv == FormInv /\ JumpsInv

\* The jumps of this code that wait are all in S.
Waits(c, S) == c \in Seq(Instructions) /\ Unpatched(c) \subseteq S

\* Code added or patched: where it is the same as before nothing more waits.
LEMMA WaitsOn ==
  ASSUME NEW c, NEW S, Waits(c, S), NEW d \in Seq(Instructions), NEW T, Len(c) <= Len(d),
         \A k \in DOMAIN c : k \notin T => d[k].op = c[k].op /\ d[k].arg = c[k].arg,
         \A k \in DOMAIN d : (k \in T \/ k > Len(c)) =>
           (d[k].op \in Forward => k + d[k].arg <= Len(d))
  PROVE  Waits(d, S \ T)
<1>1. c \in Seq(Instructions) /\ Len(c) \in Nat /\ DOMAIN c = 1..Len(c)
  BY DEF Waits
<1>2. Len(d) \in Nat /\ DOMAIN d = 1..Len(d)
  OBVIOUS
<1>3. ASSUME NEW k \in DOMAIN d, d[k].op \in Forward, k + d[k].arg > Len(d)
      PROVE  k \in S \ T
  <2>1. d[k] \in Instructions /\ k \in Nat
    BY <1>2
  <2>2. d[k].arg \in Nat
    BY <2>1 DEF Instructions
  <2>3. ~ (k + d[k].arg <= Len(d))
    BY <1>2, <1>3, <2>1, <2>2
  <2>4. k \notin T /\ ~ (k > Len(c))
    BY <1>3, <2>3
  <2>5. k \in DOMAIN c
    BY <1>1, <1>2, <2>4
  <2>6. d[k].op = c[k].op /\ d[k].arg = c[k].arg
    BY <2>4, <2>5
  <2>7. k + c[k].arg > Len(c)
    BY <1>1, <1>2, <1>3, <2>1, <2>2, <2>6
  <2>8. k \in Unpatched(c)
    BY <1>3, <2>5, <2>6, <2>7 DEF Unpatched
  <2> QED BY <2>4, <2>8 DEF Waits
<1> QED BY <1>3 DEF Waits, Unpatched

\* An instruction that is no jump, or that jumps to the one that comes next.
LEMMA WaitsAppend ==
  ASSUME NEW c, NEW S, Waits(c, S), NEW i \in Instructions, i.op \notin Forward \/ i.arg = 0
  PROVE  Waits(Append(c, i), S) /\ Len(Append(c, i)) = Len(c) + 1
<1> DEFINE d == Append(c, i)
<1>1. c \in Seq(Instructions) /\ Len(c) \in Nat
  BY DEF Waits
<1>2. /\ d \in Seq(Instructions) /\ Len(d) = Len(c) + 1 /\ DOMAIN d = 1..(Len(c) + 1)
      /\ d[Len(c) + 1] = i /\ \A k \in DOMAIN c : d[k] = c[k]
  BY <1>1
<1> HIDE DEF d
<1>3. ASSUME NEW k \in DOMAIN d, k \in {} \/ k > Len(c), d[k].op \in Forward
      PROVE  k + d[k].arg <= Len(d)
  <2>1. k = Len(c) + 1
    BY <1>1, <1>2, <1>3
  <2>2. d[k].arg = 0
    BY <1>2, <1>3, <2>1
  <2> QED BY <1>1, <1>2, <2>1, <2>2
<1>4. Waits(d, S \ {})
  <2>1. Len(c) <= Len(d)
    BY <1>1, <1>2
  <2>2. \A k \in DOMAIN c : k \notin {} => d[k].op = c[k].op /\ d[k].arg = c[k].arg
    BY <1>2
  <2> QED BY <1>2, <1>3, <2>1, <2>2, WaitsOn
<1> QED BY <1>2, <1>4 DEF Waits, d

\* emit_byte leaves no jump to wait.
LEMMA WaitsByte ==
  ASSUME NEW c, NEW S, Waits(c, S), NEW op \in Ops
  PROVE  Waits(emit_byte(c, op), S) /\ Len(emit_byte(c, op)) = Len(c) + 1
<1> DEFINE i == Instruction(op, 0, 0, 0)
<1>1. i \in Instructions /\ i.arg = 0
  BY DEF Instruction, Instructions
<1> HIDE DEF i
<1> QED BY <1>1, WaitsAppend DEF emit_byte, i

\* An operand or a pop leaves none.
LEMMA WaitsOperand ==
  ASSUME NEW c, NEW S, Waits(c, S)
  PROVE  /\ Waits(Operand(c), S) /\ Len(Operand(c)) = Len(c) + 1
         /\ Waits(emit_byte(c, "pop"), S) /\ Len(emit_byte(c, "pop")) = Len(c) + 1
<1>1. "push" \in Ops /\ "pop" \in Ops
  BY DEF Ops
<1> QED BY <1>1, WaitsByte DEF Operand

\* A jump waits from when it is emitted.  A match does not jump.
LEMMA WaitsJump ==
  ASSUME NEW c, NEW S, Waits(c, S), NEW op \in Ops
  PROVE  /\ Waits(emit_jump(c, op), S \cup {Len(c) + 1})
         /\ op \notin Forward => Waits(emit_jump(c, op), S)
         /\ Len(emit_jump(c, op)) = Len(c) + 1
<1> DEFINE i == Instruction(op, Placeholder, 0, 0)
           d == Append(c, i)
<1>1. i \in Instructions /\ i.op = op
  BY DEF Instruction, Instructions, Placeholder
<1>2. c \in Seq(Instructions) /\ Len(c) \in Nat /\ DOMAIN c = 1..Len(c)
  BY DEF Waits
<1> HIDE DEF i
<1>3. /\ d \in Seq(Instructions) /\ Len(d) = Len(c) + 1 /\ DOMAIN d = 1..(Len(c) + 1)
      /\ d[Len(c) + 1] = i /\ \A k \in DOMAIN c : d[k] = c[k]
  BY <1>1, <1>2
<1>4. op \notin Forward => Waits(d, S)
  BY <1>1, WaitsAppend
<1> HIDE DEF d
<1>5. ASSUME NEW k \in Unpatched(d) PROVE k \in S \cup {Len(c) + 1}
  <2>1. k \in 1..(Len(c) + 1) /\ d[k].op \in Forward /\ k + d[k].arg > Len(c) + 1
    BY <1>3 DEF Unpatched
  <2>2. CASE k # Len(c) + 1
    <3>1. k \in DOMAIN c /\ d[k] = c[k] /\ c[k] \in Instructions
      BY <1>2, <1>3, <2>1, <2>2
    <3>2. c[k].arg \in Nat
      BY <3>1 DEF Instructions
    <3>3. k + c[k].arg > Len(c)
      BY <1>2, <2>1, <3>1, <3>2
    <3> QED BY <2>1, <3>1, <3>3 DEF Unpatched, Waits
  <2> QED BY <2>2
<1> QED BY <1>3, <1>4, <1>5 DEF Waits, emit_jump, d, i

\* A jump back does not wait.
LEMMA WaitsLoop ==
  ASSUME NEW c, NEW S, Waits(c, S), NEW op \in Backward, NEW start \in 1..(Len(c) + 1)
  PROVE  Waits(emit_loop(c, op, start), S) /\ Len(emit_loop(c, op, start)) = Len(c) + 1
<1> DEFINE i == Instruction(op, Len(c) + 2 - start, 0, 0)
<1>1. Len(c) \in Nat
  BY DEF Waits
<1>2. i \in Instructions /\ i.op \notin Forward
  <2>1. op \in Ops \ Forward
    BY DEF Backward, Forward, Ops
  <2>2. Len(c) + 2 - start \in Nat
    BY <1>1
  <2> QED BY <2>1, <2>2 DEF Instruction, Instructions
<1> HIDE DEF i
<1> QED BY <1>2, WaitsAppend DEF emit_loop, i

\* A jump that is patched waits no longer.
LEMMA WaitsPatch ==
  ASSUME NEW c, NEW S, Waits(c, S), NEW jump \in 0..Len(c)
  PROVE  Waits(patch_jump(c, jump), S \ {jump}) /\ Len(patch_jump(c, jump)) = Len(c)
<1> DEFINE d == patch_jump(c, jump)
<1>1. c \in Seq(Instructions) /\ Len(c) \in Nat /\ DOMAIN c = 1..Len(c) /\ Len(c) - jump \in Nat
  BY DEF Waits
<1>2. /\ DOMAIN d = DOMAIN c /\ d = [k \in DOMAIN c |-> d[k]]
      /\ \A k \in DOMAIN c : d[k] = IF k = jump THEN [c[k] EXCEPT !.arg = Len(c) - jump] ELSE c[k]
  BY <1>1 DEF patch_jump
<1>3. \A k \in DOMAIN c : d[k] \in Instructions /\ (k = jump => d[k].arg = Len(c) - jump)
  <2> TAKE k \in DOMAIN c
  <2>1. c[k] \in Instructions
    BY <1>1
  <2> QED BY <2>1, <1>1, <1>2 DEF Instructions
<1> HIDE DEF d
<1>4. d \in [1..Len(c) -> Instructions]
  BY <1>1, <1>2, <1>3
<1>5. d \in Seq(Instructions) /\ Len(d) = Len(c)
  BY <1>1, <1>4
<1>6. ASSUME NEW k \in DOMAIN d, k \in {jump} \/ k > Len(c), d[k].op \in Forward
      PROVE  k + d[k].arg <= Len(d)
  <2>1. k = jump /\ d[k].arg = Len(c) - jump
    BY <1>1, <1>2, <1>3, <1>6
  <2> QED BY <2>1, <1>1, <1>5
<1>7. \A k \in DOMAIN c : k \notin {jump} => d[k].op = c[k].op /\ d[k].arg = c[k].arg
  BY <1>2
<1>8. Len(c) <= Len(d)
  BY <1>1, <1>5
<1>9. Waits(d, S \ {jump})
  BY <1>5, <1>6, <1>7, <1>8, WaitsOn
<1> QED BY <1>5, <1>9 DEF d

\* Nor do the jumps of a set.
LEMMA WaitsPatchAll ==
  ASSUME NEW c, NEW S, Waits(c, S), NEW jumps
  PROVE  Waits(PatchAll(c, jumps), S \ jumps) /\ Len(PatchAll(c, jumps)) = Len(c)
<1> DEFINE d == PatchAll(c, jumps)
<1>1. c \in Seq(Instructions) /\ Len(c) \in Nat /\ DOMAIN c = 1..Len(c)
  BY DEF Waits
<1>2. d = [k \in 1..Len(c) |-> IF k \in jumps THEN patch_jump(c, k)[k] ELSE c[k]]
  BY <1>1 DEF PatchAll
<1>3. \A k \in 1..Len(c) : patch_jump(c, k)[k] = [c[k] EXCEPT !.arg = Len(c) - k]
  BY <1>1 DEF patch_jump
<1> HIDE DEF d
<1>4. \A k \in 1..Len(c) : d[k] \in Instructions /\ (k \in jumps => d[k].arg = Len(c) - k)
  <2> TAKE k \in 1..Len(c)
  <2>1. c[k] \in Instructions /\ Len(c) - k \in Nat
    BY <1>1
  <2> QED BY <2>1, <1>2, <1>3 DEF Instructions
<1>5. d \in [1..Len(c) -> Instructions]
  BY <1>2, <1>4
<1>6. d \in Seq(Instructions) /\ Len(d) = Len(c) /\ DOMAIN d = 1..Len(c)
  BY <1>1, <1>5
<1>7. ASSUME NEW k \in DOMAIN d, k \in jumps \/ k > Len(c), d[k].op \in Forward
      PROVE  k + d[k].arg <= Len(d)
  <2>1. k \in 1..Len(c) /\ d[k].arg = Len(c) - k
    BY <1>1, <1>4, <1>6, <1>7
  <2> QED BY <2>1, <1>1, <1>6
<1>8. \A k \in DOMAIN c : k \notin jumps => d[k].op = c[k].op /\ d[k].arg = c[k].arg
  BY <1>1, <1>2
<1>9. Len(c) <= Len(d)
  BY <1>1, <1>6
<1>10. Waits(d, S \ jumps)
  BY <1>6, <1>7, <1>8, <1>9, WaitsOn
<1> QED BY <1>6, <1>10 DEF d

\* The pops of a scope leave no jump to wait.
LEMMA WaitsPops ==
  ASSUME NEW c, NEW S, Waits(c, S), NEW n \in Nat
  PROVE  Waits(EmitPops(c, n), S)
<1> DEFINE i == Instruction("pop", 0, 0, 0)
           p == [k \in 1..n |-> i]
           d == c \o p
<1>1. i \in Instructions /\ i.arg = 0
  BY DEF Instruction, Instructions, Ops
<1>2. p \in Seq(Instructions) /\ Len(p) = n /\ \A k \in 1..n : p[k] = i
  BY <1>1
<1>3. c \in Seq(Instructions) /\ Len(c) \in Nat /\ DOMAIN c = 1..Len(c)
  BY DEF Waits
<1>4. /\ d \in Seq(Instructions)
      /\ Len(d) = Len(c) + n
      /\ \A k \in 1..Len(c) : d[k] = c[k]
      /\ \A k \in (Len(c) + 1)..(Len(c) + n) : d[k] = p[k - Len(c)]
  <2> HIDE DEF p
  <2> QED BY <1>2, <1>3
<1>5. \A k \in (Len(c) + 1)..(Len(c) + n) : d[k] = i
  BY <1>2, <1>3, <1>4
<1> HIDE DEF i, p, d
<1>6. ASSUME NEW k \in DOMAIN d, k \in {} \/ k > Len(c), d[k].op \in Forward
      PROVE  k + d[k].arg <= Len(d)
  <2>1. k \in (Len(c) + 1)..(Len(c) + n)
    BY <1>3, <1>4, <1>6
  <2>2. d[k].arg = 0 /\ k \in Nat /\ k <= Len(c) + n
    BY <2>1, <1>1, <1>3, <1>5
  <2> QED BY <2>2, <1>4
<1>7. Len(c) <= Len(d) /\ \A k \in DOMAIN c : k \notin {} => d[k].op = c[k].op /\ d[k].arg = c[k].arg
  BY <1>3, <1>4
<1>8. Waits(d, S \ {})
  BY <1>4, <1>6, <1>7, WaitsOn
<1> QED BY <1>8 DEF Waits, EmitPops, d, p, i

\* The ghosts do not matter.
LEMMA WaitsGhost ==
  ASSUME NEW c, NEW S, Waits(c, S), Len(c) > 0, NEW id \in Nat
  PROVE  /\ Waits(Defining(c, id), S) /\ Len(Defining(c, id)) = Len(c)
         /\ Waits([c EXCEPT ![Len(c)].var = id], S)
         /\ Len([c EXCEPT ![Len(c)].var = id]) = Len(c)
<1>1. c \in Seq(Instructions) /\ Len(c) \in Nat /\ DOMAIN c = 1..Len(c)
  BY DEF Waits
<1>2. ASSUME NEW d, d = [k \in DOMAIN c |-> d[k]],
             \A k \in DOMAIN c : /\ d[k] \in Instructions
                                 /\ d[k].op = c[k].op /\ d[k].arg = c[k].arg
      PROVE  Waits(d, S) /\ Len(d) = Len(c)
  <2>1. d \in [1..Len(c) -> Instructions]
    BY <1>1, <1>2
  <2>2. d \in Seq(Instructions) /\ DOMAIN d = 1..Len(c)
    BY ONLY <2>1, <1>1
  <2>3. Len(d) = Len(c)
    BY ONLY <2>2, <1>1
  <2>4. \A k \in DOMAIN d : ~ (k \in {} \/ k > Len(c))
    BY <2>2, <1>1
  <2>5. Len(c) <= Len(d)
    BY <2>3, <1>1
  <2>6. \A k \in DOMAIN c : k \notin {} => d[k].op = c[k].op /\ d[k].arg = c[k].arg
    BY <1>2
  <2>7. Waits(d, S \ {})
    BY <2>2, <2>4, <2>5, <2>6, WaitsOn
  <2> QED BY <2>3, <2>7 DEF Waits
<1> DEFINE d == Defining(c, id)
           e == [c EXCEPT ![Len(c)].var = id]
<1>3. d = [k \in DOMAIN c |-> d[k]] /\ e = [k \in DOMAIN c |-> e[k]]
  BY <1>1 DEF Defining
<1>4. \A k \in DOMAIN c :
        /\ d[k] = IF k = Len(c) THEN [c[k] EXCEPT !.def = id] ELSE c[k]
        /\ e[k] = IF k = Len(c) THEN [c[k] EXCEPT !.var = id] ELSE c[k]
  BY <1>1 DEF Defining
<1>5. \A k \in DOMAIN c : /\ d[k] \in Instructions /\ d[k].op = c[k].op /\ d[k].arg = c[k].arg
                          /\ e[k] \in Instructions /\ e[k].op = c[k].op /\ e[k].arg = c[k].arg
  <2> TAKE k \in DOMAIN c
  <2>1. c[k] \in Instructions
    BY <1>1
  <2> QED BY <2>1, <1>4 DEF Instructions
<1> HIDE DEF d, e
<1>6. Waits(d, S) /\ Len(d) = Len(c)
  BY <1>2, <1>3, <1>5
<1>7. Waits(e, S) /\ Len(e) = Len(c)
  BY <1>2, <1>3, <1>5
<1> QED BY <1>6, <1>7 DEF d, e

\* The jump of a condition is the instruction before the last.
LEMMA WaitsCondition ==
  ASSUME NEW c, NEW S, Waits(c, S)
  PROVE  /\ Waits(Condition(Operand(c)), S \cup {Len(c) + 2})
         /\ Len(Condition(Operand(c))) = Len(c) + 3
<1> DEFINE o == Operand(c)
           test == emit_jump(o, "jump_if_false")
           T == S \cup {Len(o) + 1}
<1>1. Len(c) \in Nat /\ "jump_if_false" \in Ops
  BY DEF Waits, Ops
<1>2. Waits(o, S) /\ Len(o) = Len(c) + 1
  BY WaitsOperand
<1> HIDE DEF o
<1>3. Waits(test, T) /\ Len(test) = Len(o) + 1
  BY <1>1, <1>2, WaitsJump
<1> HIDE DEF test, T
<1>4. Waits(emit_byte(test, "pop"), T) /\ Len(emit_byte(test, "pop")) = Len(test) + 1
  BY <1>3, WaitsOperand
<1>5. T = S \cup {Len(c) + 2} /\ Len(test) + 1 = Len(c) + 3
  BY <1>1, <1>2, <1>3 DEF T
<1> QED BY <1>4, <1>5 DEF Condition, test, o

\* The jumps of an expression are patched within it.
LEMMA WaitsBranch ==
  ASSUME NEW c, NEW S, Waits(c, S), NEW e \in Branching(c)
  PROVE  Waits(e, S)
<1> DEFINE o == Operand(c)
           n == Len(c)
           test == emit_jump(o, "jump_if_false")
<1>1. n \in Nat /\ "jump_if_false" \in Ops /\ "jump" \in Ops
  BY DEF Waits, Ops
<1>2. Waits(o, S) /\ Len(o) = n + 1
  BY WaitsOperand
<1> HIDE DEF o, n
<1>3. Waits(test, S \cup {n + 2}) /\ Len(test) = n + 2
  <2>1. Waits(test, S \cup {Len(o) + 1}) /\ Len(test) = Len(o) + 1
    BY <1>1, <1>2, WaitsJump
  <2>2. Len(o) + 1 = n + 2
    BY <1>1, <1>2
  <2> QED BY <2>1, <2>2
<1> HIDE DEF test
<1>4. ASSUME NEW d, Waits(d, S \cup {n + 2}), Len(d) >= n + 2
      PROVE  LET jump == emit_jump(d, "jump")
                 else == emit_byte(patch_jump(jump, n + 2), "pop")
             IN  Waits(patch_jump(Operand(else), Len(jump)), S)
  <2> DEFINE jump == emit_jump(d, "jump")
             patched == patch_jump(jump, n + 2)
             else == emit_byte(patched, "pop")
             value == Operand(else)
             m == Len(d) + 1
             T == (S \cup {n + 2}) \cup {m}
             U == T \ {n + 2}
  <2>1. Len(d) \in Nat /\ m \in Nat
    BY <1>4 DEF Waits
  <2>2. Waits(jump, T) /\ Len(jump) = m
    BY <1>1, <1>4, WaitsJump
  <2> HIDE DEF jump, m
  <2>3. n + 2 \in 0..Len(jump)
    BY <1>1, <1>4, <2>1, <2>2 DEF m
  <2>4. Waits(patched, U) /\ Len(patched) = m
    <3> HIDE DEF T
    <3> QED BY <2>2, <2>3, WaitsPatch
  <2> HIDE DEF patched, U, T
  <2>5. Waits(else, U) /\ Len(else) = m + 1
    BY <2>4, WaitsOperand
  <2> HIDE DEF else
  <2>6. Waits(value, U) /\ Len(value) = m + 2
    <3>1. Waits(value, U) /\ Len(value) = Len(else) + 1
      BY <2>5, WaitsOperand
    <3> QED BY <3>1, <2>1, <2>5
  <2> HIDE DEF value
  <2>7. m \in 0..Len(value)
    BY <2>1, <2>6
  <2>8. Waits(patch_jump(value, m), U \ {m})
    BY <2>6, <2>7, WaitsPatch
  <2>9. U \ {m} \subseteq S
    BY DEF U, T
  <2>10. Waits(patch_jump(value, m), S)
    BY <2>8, <2>9 DEF Waits
  <2> QED BY <2>2, <2>10 DEF value, else, patched, jump
<1> DEFINE then == emit_byte(test, "pop")
           value == Operand(then)
<1>5. Waits(then, S \cup {n + 2}) /\ Len(then) = n + 3
  <2>1. Waits(then, S \cup {n + 2}) /\ Len(then) = Len(test) + 1
    BY <1>3, WaitsOperand
  <2> QED BY <2>1, <1>1, <1>3
<1> HIDE DEF then
<1>6. Waits(value, S \cup {n + 2}) /\ Len(value) = n + 4
  <2>1. Waits(value, S \cup {n + 2}) /\ Len(value) = Len(then) + 1
    BY <1>5, WaitsOperand
  <2> QED BY <2>1, <1>1, <1>5
<1> HIDE DEF value
<1>7. CASE e = parse_and(c)
  <2>1. n + 2 \in 0..Len(value)
    BY <1>1, <1>6
  <2>2. Waits(patch_jump(value, n + 2), (S \cup {n + 2}) \ {n + 2})
    BY <1>6, <2>1, WaitsPatch
  <2>3. Waits(patch_jump(value, n + 2), S)
    BY <2>2 DEF Waits
  <2> QED BY <1>3, <1>7, <2>3 DEF parse_and, value, then, test, o
<1>8. CASE e = parse_or(c)
  <2>1. Len(test) >= n + 2
    BY <1>1, <1>3
  <2>2. LET jump == emit_jump(test, "jump")
            else == emit_byte(patch_jump(jump, n + 2), "pop")
        IN  Waits(patch_jump(Operand(else), Len(jump)), S)
    BY <1>3, <1>4, <2>1
  <2> QED BY <1>3, <1>8, <2>2 DEF parse_or, test, o
<1>9. CASE e = parse_ternary(c)
  <2>1. Len(value) >= n + 2
    BY <1>1, <1>6
  <2>2. LET jump == emit_jump(value, "jump")
            else == emit_byte(patch_jump(jump, n + 2), "pop")
        IN  Waits(patch_jump(Operand(else), Len(jump)), S)
    BY <1>4, <1>6, <2>1
  <2> QED BY <1>3, <1>9, <2>2 DEF parse_ternary, value, then, test, o
<1> QED BY <1>7, <1>8, <1>9 DEF Branching

\* Nor does an access to a variable leave one to wait.
LEMMA WaitsAccess ==
  ASSUME locals \in Seq(Locals), NEW c, NEW S, Waits(c, S), NEW x,
         NEW local \in {"get_local", "set_local"}, NEW global \in {"push", "set_global"}
  PROVE  Waits(Access(c, x, local, global), S)
<1>1. CASE IsLocal(x)
  <2> DEFINE i == Instruction(local, resolve_local(x), locals[resolve_local(x)].id, 0)
  <2>1. resolve_local(x) \in Nat /\ locals[resolve_local(x)] \in Locals
    BY <1>1, ResolvedLocal
  <2>2. i \in Instructions /\ i.op \notin Forward
    BY <2>1 DEF Instruction, Instructions, Ops, Forward, Locals
  <2>3. Access(c, x, local, global) = Append(c, i)
    BY <1>1 DEF Access
  <2> HIDE DEF i
  <2> QED BY <2>2, <2>3, WaitsAppend
<1>2. CASE ~IsLocal(x)
  <2>1. global \in Ops
    BY DEF Ops
  <2> QED BY <1>2, <2>1, WaitsByte DEF Access
<1> QED BY <1>1, <1>2

\* The expressions a text may have leave none.
LEMMA WaitsExpression ==
  ASSUME locals \in Seq(Locals), NEW c, NEW S, Waits(c, S), NEW e \in Expressions(c)
  PROVE  Waits(e, S)
<1> DEFINE o == Operand(c)
<1>1. Waits(o, S)
  BY WaitsOperand
<1>2. CASE e = o
  BY <1>1, <1>2
<1>3. CASE \E x \in Names : e = Access(c, x, "get_local", "push")
  BY <1>3, WaitsAccess
<1>4. CASE \E x \in Names : e = Access(o, x, "set_local", "set_global")
  <2> HIDE DEF o
  <2> QED BY <1>1, <1>4, WaitsAccess
<1> QED BY <1>2, <1>3, <1>4 DEF Expressions

\* The test of an arm waits at its place, the last one.
LEMMA WaitsPattern ==
  ASSUME NEW S, Waits(code, S), NEW enum \in BOOLEAN, Matched(Top) \in Nat
  PROVE  Waits(Pattern(enum), S \cup {Len(Pattern(enum))}) /\ Len(Pattern(enum)) \in Nat \ {0}
<1> DEFINE value == Operand(code)
           pair == Operand(value)
           o == IF enum THEN pair ELSE value
           op == IF enum THEN "enum_member_match" ELSE "jump_if_neq"
           test == emit_jump(o, op)
           T == S \cup {Len(o) + 1}
           d == [test EXCEPT ![Len(test)].var = Matched(Top)]
<1>1. Waits(value, S)
  BY WaitsOperand
<1> HIDE DEF value
<1>2. Waits(pair, S)
  BY <1>1, WaitsOperand
<1> HIDE DEF pair
<1>3. Waits(o, S) /\ op \in Ops
  BY <1>1, <1>2 DEF Ops
<1> HIDE DEF o, op
<1>4. Len(o) \in Nat
  BY <1>3 DEF Waits
<1>5. Waits(test, T) /\ Len(test) = Len(o) + 1
  BY <1>3, WaitsJump
<1> HIDE DEF test, T
<1>6. Len(test) > 0
  BY <1>4, <1>5
<1>7. Waits(d, T) /\ Len(d) = Len(test)
  BY <1>5, <1>6, WaitsGhost
<1> HIDE DEF d
<1>8. T = S \cup {Len(d)} /\ Len(d) \in Nat \ {0}
  BY <1>4, <1>5, <1>7 DEF T
<1>9. Pattern(enum) = d
  BY DEF Pattern, d, test, op, o, pair, value
<1> QED BY <1>7, <1>8, <1>9

\* The exit of a loop is patched behind the jump back.
LEMMA WaitsRepeat ==
  ASSUME NEW c, NEW S, Waits(c, S), NEW entry, entry.exit \in 0..Len(c), entry.start \in 1..(Len(c) + 1)
  PROVE  /\ Waits(Repeat(c, entry), S \ {entry.exit})
         /\ Len(Repeat(c, entry)) >= Len(c)
<1> DEFINE again == emit_loop(c, "loop", entry.start)
           exit == patch_jump(again, entry.exit)
<1>1. "loop" \in Backward /\ Len(c) \in Nat
  BY DEF Backward, Waits
<1>2. Waits(again, S) /\ Len(again) = Len(c) + 1
  BY <1>1, WaitsLoop
<1> HIDE DEF again
<1>3. entry.exit \in 0..Len(again)
  BY <1>1, <1>2
<1>4. Waits(exit, S \ {entry.exit}) /\ Len(exit) = Len(again)
  BY <1>2, <1>3, WaitsPatch
<1> HIDE DEF exit
<1>5. Waits(emit_byte(exit, "pop"), S \ {entry.exit}) /\ Len(emit_byte(exit, "pop")) = Len(exit) + 1
  BY <1>4, WaitsOperand
<1>6. CASE entry.exit = 0
  <2>1. 0 \notin Unpatched(again)
    BY <1>2 DEF Waits, Unpatched
  <2>2. Waits(again, S \ {0})
    BY <1>2, <2>1 DEF Waits
  <2>3. Repeat(c, entry) = again
    BY <1>6 DEF Repeat, again
  <2> QED BY <1>1, <1>2, <1>6, <2>2, <2>3
<1>7. CASE entry.exit # 0
  <2>1. Repeat(c, entry) = emit_byte(exit, "pop")
    BY <1>7 DEF Repeat, exit, again
  <2>2. Len(exit) + 1 >= Len(c)
    BY <1>1, <1>2, <1>4
  <2> QED BY <1>5, <2>1, <2>2
<1> QED BY <1>6, <1>7

\* What the top entry awaits, and what the others do.
LEMMA AwaitedTail ==
  ASSUME NEW w \in Seq(Entries), w # <<>>
  PROVE  /\ AwaitedBy(w) = Awaited(Head(w)) \cup AwaitedBy(Tail(w))
         /\ LoopEnds(w) \in Nat /\ LoopEnds(Tail(w)) \in Nat
         /\ Head(w).at \in Looping => LoopEnds(w) = LoopEnds(Tail(w)) + 1
         /\ Head(w).at \notin Looping => LoopEnds(w) = LoopEnds(Tail(w))
<1>1. PICK n \in Nat : n = Len(w) /\ n >= 1 /\ DOMAIN w = 1..n /\ Head(w) = w[1]
  OBVIOUS
<1> DEFINE v == Tail(w)
<1>2. DOMAIN v = 1..(n - 1) /\ \A k \in 1..(n - 1) : v[k] = w[k + 1]
  BY <1>1
<1> HIDE DEF v
<1>3. AwaitedBy(w) \subseteq Awaited(Head(w)) \cup AwaitedBy(v)
  <2> SUFFICES ASSUME NEW k \in DOMAIN w, NEW j \in Awaited(w[k])
               PROVE  j \in Awaited(Head(w)) \cup AwaitedBy(v)
    BY DEF AwaitedBy
  <2>1. CASE k # 1
    <3> DEFINE i == k - 1
    <3>1. i \in DOMAIN v /\ i \in 1..(n - 1) /\ i + 1 = k
      BY <1>1, <1>2, <2>1
    <3> HIDE DEF i
    <3>2. v[i] = w[k]
      BY <1>2, <3>1
    <3> QED BY <3>1, <3>2 DEF AwaitedBy
  <2> QED BY <1>1, <2>1
<1>4. AwaitedBy(v) \subseteq AwaitedBy(w)
  <2> SUFFICES ASSUME NEW k \in DOMAIN v, NEW j \in Awaited(v[k])
               PROVE  j \in AwaitedBy(w)
    BY DEF AwaitedBy
  <2>1. k + 1 \in DOMAIN w /\ v[k] = w[k + 1]
    BY <1>1, <1>2
  <2> QED BY <2>1 DEF AwaitedBy
<1>5. Awaited(Head(w)) \subseteq AwaitedBy(w)
  BY <1>1 DEF AwaitedBy
<1> DEFINE m == Cardinality({k \in DOMAIN w : w[k].at \in Looping})
           l == Cardinality({k \in DOMAIN Tail(w) : Tail(w)[k].at \in Looping})
<1>6. m \in Nat /\ l \in Nat /\ m = IF Head(w).at \in Looping THEN l + 1 ELSE l
  BY CountTail
<1>7. m = LoopEnds(w) /\ l = LoopEnds(v)
  BY DEF LoopEnds, v
<1> HIDE DEF m, l
<1> QED BY <1>3, <1>4, <1>5, <1>6, <1>7 DEF v

\* An entry put on the work.
LEMMA AwaitedCons ==
  ASSUME NEW w \in Seq(Entries), NEW e, <<e>> \o w \in Seq(Entries)
  PROVE  /\ e \in Entries
         /\ AwaitedBy(<<e>> \o w) = Awaited(e) \cup AwaitedBy(w)
         /\ LoopEnds(w) \in Nat
         /\ e.at \in Looping => LoopEnds(<<e>> \o w) = LoopEnds(w) + 1
         /\ e.at \notin Looping => LoopEnds(<<e>> \o w) = LoopEnds(w)
<1> DEFINE v == <<e>> \o w
<1>1. v # <<>> /\ Head(v) = e /\ Tail(v) = w /\ v[1] = e /\ 1 \in DOMAIN v
  BY ConsAny
<1>2. v \in Seq(Entries)
  OBVIOUS
<1> HIDE DEF v
<1>3. e \in Entries
  BY <1>1, <1>2
<1>4. /\ AwaitedBy(v) = Awaited(Head(v)) \cup AwaitedBy(Tail(v))
      /\ LoopEnds(v) \in Nat /\ LoopEnds(Tail(v)) \in Nat
      /\ Head(v).at \in Looping => LoopEnds(v) = LoopEnds(Tail(v)) + 1
      /\ Head(v).at \notin Looping => LoopEnds(v) = LoopEnds(Tail(v))
  BY <1>1, <1>2, AwaitedTail
<1> QED BY <1>1, <1>3, <1>4 DEF v

\* Where a statement, an arm or a list of declarations is to follow, nothing waits.
LEMMA AwaitedTwice ==
  ASSUME NEW w \in Seq(Entries), NEW at \in {"declarations", "statement", "arm"}, NEW f,
         <<Entry(at), f>> \o w \in Seq(Entries)
  PROVE  /\ f \in Entries
         /\ AwaitedBy(<<Entry(at), f>> \o w) = Awaited(f) \cup AwaitedBy(w)
         /\ LoopEnds(w) \in Nat
         /\ f.at \in Looping => LoopEnds(<<Entry(at), f>> \o w) = LoopEnds(w) + 1
         /\ f.at \notin Looping => LoopEnds(<<Entry(at), f>> \o w) = LoopEnds(w)
<1> DEFINE e == Entry(at)
           u == <<f>> \o w
           v == <<e, f>> \o w
<1>1. e.at = at
  BY KeepsPlace
<1>2. v \in Seq(Entries)
  OBVIOUS
<1>3. e.at \notin Scoping /\ Awaited(e) = {} /\ e.at \notin Looping
  BY <1>1 DEF Scoping, Awaited, Exiting, Looping
<1> HIDE DEF e
<1>4. e \in Entries /\ f \in Entries
  BY <1>2, <1>3, ScopesTwice
<1>5. u \in Seq(Entries)
  BY <1>4, ConsFacts
<1>6. <<e>> \o u = v
  BY <1>4, ConsTwice
<1>7. /\ AwaitedBy(u) = Awaited(f) \cup AwaitedBy(w)
      /\ LoopEnds(w) \in Nat
      /\ f.at \in Looping => LoopEnds(u) = LoopEnds(w) + 1
      /\ f.at \notin Looping => LoopEnds(u) = LoopEnds(w)
  BY <1>5, AwaitedCons
<1> HIDE DEF u, v
<1>8. /\ AwaitedBy(<<e>> \o u) = Awaited(e) \cup AwaitedBy(u)
      /\ LoopEnds(<<e>> \o u) = LoopEnds(u)
  <2>1. <<e>> \o u \in Seq(Entries)
    BY <1>2, <1>6
  <2> QED BY <1>3, <1>5, <2>1, AwaitedCons
<1> QED BY <1>3, <1>4, <1>6, <1>7, <1>8 DEF v, e

\* The statement that is next is no entry that awaits something.
LEMMA AwaitedRest ==
  ASSUME Compiling, work # <<>>, Top.at \in OrArm
  PROVE  /\ Rest \in Seq(Entries) /\ AwaitedBy(Rest) = AwaitedBy(work)
         /\ LoopEnds(Rest) = LoopEnds(work) /\ LoopEnds(work) \in Nat
<1>1. work \in Seq(Entries) /\ Awaited(Top) = {} /\ Top.at \notin Looping
  BY DEF Compiling, OrArm, Anywhere, Looping, Awaited, Exiting
<1>2. /\ AwaitedBy(work) = Awaited(Top) \cup AwaitedBy(Tail(work))
      /\ LoopEnds(work) \in Nat /\ LoopEnds(work) = LoopEnds(Tail(work))
  BY <1>1, AwaitedTail DEF Top
<1>3. Tail(work) \in Seq(Entries)
  BY <1>1
<1> QED BY <1>1, <1>2, <1>3 DEF Rest

\* The breaks of the innermost loop and those of the others.
LEMMA BreaksTail ==
  ASSUME NEW l \in Seq(Loops), l # <<>>
  PROVE  /\ Breaks(l) = {Head(l).end} \cup Breaks(Tail(l))
         /\ Len(l) \in Nat /\ Len(Tail(l)) = Len(l) - 1 /\ Tail(l) \in Seq(Loops)
         /\ Head(l) = l[1] /\ 1 \in DOMAIN l
<1>1. PICK n \in Nat : n = Len(l) /\ n >= 1 /\ DOMAIN l = 1..n /\ Head(l) = l[1]
  OBVIOUS
<1> DEFINE v == Tail(l)
<1>2. /\ DOMAIN v = 1..(n - 1) /\ \A k \in 1..(n - 1) : v[k] = l[k + 1]
      /\ Len(v) = n - 1 /\ v \in Seq(Loops)
  BY <1>1
<1> HIDE DEF v
<1>3. Breaks(l) \subseteq {Head(l).end} \cup Breaks(v)
  <2> SUFFICES ASSUME NEW k \in DOMAIN l, k # 1
               PROVE  l[k].end \in Breaks(v)
    BY <1>1 DEF Breaks
  <2> DEFINE i == k - 1
  <2>1. i \in DOMAIN v /\ i \in 1..(n - 1) /\ i + 1 = k
    BY <1>1, <1>2
  <2> HIDE DEF i
  <2>2. v[i] = l[k]
    BY <1>2, <2>1
  <2> QED BY <2>1, <2>2 DEF Breaks
<1>4. Breaks(v) \subseteq Breaks(l)
  <2> SUFFICES ASSUME NEW k \in DOMAIN v
               PROVE  v[k].end \in Breaks(l)
    BY DEF Breaks
  <2>1. k + 1 \in DOMAIN l /\ v[k] = l[k + 1]
    BY <1>1, <1>2
  <2> QED BY <2>1 DEF Breaks
<1>5. Head(l).end \in Breaks(l)
  BY <1>1 DEF Breaks
<1> QED BY <1>1, <1>2, <1>3, <1>4, <1>5 DEF v

\* A loop has no break when it begins.
LEMMA BreaksBegin ==
  ASSUME loops \in Seq(Loops), NEW start \in Nat, NEW depth \in Nat, begin_loop(start, depth)
  PROVE  Breaks(loops) \subseteq Breaks(loops') /\ Len(loops') = Len(loops) + 1 /\ Len(loops) \in Nat
<1> DEFINE l == [start |-> start, end |-> 0, depth |-> depth]
           v == <<l>> \o loops
<1>1. l \in Loops
  BY DEF Loops
<1>2. loops' = v
  BY DEF begin_loop
<1> HIDE DEF l
<1>3. v \in Seq(Loops) /\ v # <<>> /\ Tail(v) = loops /\ Len(v) = Len(loops) + 1
  BY <1>1, ConsFacts
<1> HIDE DEF v
<1>4. Breaks(v) = {Head(v).end} \cup Breaks(Tail(v))
  BY <1>3, BreaksTail
<1>5. Len(loops) \in Nat
  OBVIOUS
<1> QED BY <1>2, <1>3, <1>4, <1>5

\* The end of a loop patches its break.
LEMMA WaitsLoopEnd ==
  ASSUME Compiling, NEW c, NEW S, Waits(c, S), Len(c) >= Len(code), end_loop(c), phase' = "compile"
  PROVE  /\ loops # <<>> /\ loops' = Tail(loops)
         /\ Waits(code', S \ {Head(loops).end})
<1>1. loops # <<>>
  BY DEF end_loop
<1>2. /\ loops' = Tail(loops)
      /\ code' = IF Head(loops).end # 0 THEN patch_jump(c, Head(loops).end) ELSE c
  BY <1>1 DEF end_loop
<1>3. Head(loops).end \in 0..Len(code)
  <2>1. Head(loops) = loops[1] /\ 1 \in DOMAIN loops
    BY <1>1, BreaksTail DEF Compiling
  <2> QED BY <2>1 DEF Compiling, LoopsFit, Patchable
<1>4. Head(loops).end \in 0..Len(c)
  <2>1. Len(c) \in Nat /\ Len(code) \in Nat
    BY DEF Waits, Compiling
  <2> QED BY <1>3, <2>1
<1>5. CASE Head(loops).end # 0
  <2>1. Waits(patch_jump(c, Head(loops).end), S \ {Head(loops).end})
    BY <1>4, WaitsPatch
  <2> QED BY <1>1, <1>2, <1>5, <2>1
<1>6. CASE Head(loops).end = 0
  <2>1. 0 \notin Unpatched(c)
    BY DEF Waits, Unpatched
  <2>2. Waits(c, S \ {0})
    BY <2>1 DEF Waits
  <2> QED BY <1>1, <1>2, <1>6, <2>2
<1> QED BY <1>5, <1>6

\* The end of a scope leaves no jump to wait.
LEMMA WaitsScopeEnd ==
  ASSUME Compiling, NEW c, NEW S, Waits(c, S), end_scope(c)
  PROVE  Waits(code', S)
<1>1. Len(locals) \in Nat /\ Leaving \in 0..Len(locals)
  BY LeavingType DEF Compiling
<1>2. Leaving \in Nat
  BY <1>1
<1> QED BY <1>2, WaitsPops DEF end_scope

\* What a step has to show.
LEMMA JumpsKept ==
  ASSUME NEW S, Waits(code', S), S \subseteq (AwaitedBy(work') \cup Breaks(loops')) \cup {0},
         Len(loops') <= LoopEnds(work')
  PROVE  JumpsInv'
<1>1. 0 \notin Unpatched(code')
  BY DEF Waits, Unpatched
<1> QED BY <1>1 DEF JumpsInv, Waits

\* The jumps that wait, and what the invariant says of them in a state.
Waiting == AwaitedBy(work) \cup Breaks(loops)

Jumping == Compiling /\ Waits(code, Waiting) /\ Len(loops) <= LoopEnds(work)

\* A statement without a body patches what it jumps over, but for a break.
LEMMA SimpleJumps ==
  ASSUME Jumping, expr_statement \/ var_declaration \/ return_statement \/ continue_statement
  PROVE  JumpsInv'
<1>1. /\ work # <<>> /\ Top.at \in OrArm /\ work' = Rest /\ loops' = loops
  BY DEF expr_statement, var_declaration, return_statement, continue_statement, Begin, OrArm, Anywhere
<1>2. AwaitedBy(work') = AwaitedBy(work) /\ LoopEnds(work') = LoopEnds(work)
  BY <1>1, AwaitedRest DEF Jumping
<1> DEFINE S == Waiting
<1>3. Waits(code, S) /\ locals \in Seq(Locals)
  BY DEF Jumping, Compiling
<1>4. Waits(Operand(code), S) /\ Len(Operand(code)) = Len(code) + 1 /\ Len(code) \in Nat
  BY <1>3, WaitsOperand DEF Jumping, Compiling
<1> HIDE DEF S
<1>5. CASE expr_statement
  <2>1. PICK e : code' = emit_byte(e, "pop") /\ (e = Operand(code) \/ e \in Expressions(code) \/ e \in Branching(code))
    BY <1>5 DEF expr_statement
  <2>2. Waits(e, S)
    BY <2>1, <1>3, <1>4, WaitsExpression, WaitsBranch
  <2>3. Waits(code', S)
    BY <2>1, <2>2, WaitsOperand
  <2> QED BY <2>3, <1>1, <1>2, JumpsKept DEF Jumping, S, Waiting
<1>6. CASE var_declaration
  <2>1. \/ code' = emit_byte(Operand(code), "define_global")
        \/ declared' = declared + 1 /\ code' = Defining(Operand(code), declared')
    BY <1>6 DEF var_declaration
  <2>2. CASE code' = emit_byte(Operand(code), "define_global")
    <3>1. "define_global" \in Ops
      BY DEF Ops
    <3>2. Waits(code', S)
      BY <2>2, <3>1, <1>4, WaitsByte
    <3> QED BY <3>2, <1>1, <1>2, JumpsKept DEF Jumping, S, Waiting
  <2>3. CASE declared' = declared + 1 /\ code' = Defining(Operand(code), declared')
    <3>1. declared' \in Nat
      BY <2>3 DEF Jumping, Compiling
    <3>2. Len(Operand(code)) > 0
      BY <1>4
    <3>3. Waits(Defining(Operand(code), declared'), S)
      BY <1>4, <3>1, <3>2, WaitsGhost
    <3>4. Waits(code', S)
      BY <2>3, <3>3
    <3> QED BY <3>4, <1>1, <1>2, JumpsKept DEF Jumping, S, Waiting
  <2> QED BY <2>1, <2>2, <2>3
<1>7. CASE return_statement
  <2>1. PICK e \in {code, Operand(code)} : code' = emit_byte(e, "return")
    BY <1>7 DEF return_statement
  <2>2. "return" \in Ops
    BY DEF Ops
  <2>3. Waits(code', S)
    BY <2>1, <2>2, <1>3, <1>4, WaitsByte
  <2> QED BY <2>3, <1>1, <1>2, JumpsKept DEF Jumping, S, Waiting
<1>8. CASE continue_statement
  <2>1. loops # <<>> /\ code' = emit_loop(code, "continue", Head(loops).start)
    BY <1>8 DEF continue_statement
  <2>2. Head(loops) = loops[1] /\ 1 \in DOMAIN loops
    BY <2>1, BreaksTail DEF Jumping, Compiling
  <2>3. Head(loops).start \in 1..(Len(code) + 1) /\ "continue" \in Backward
    BY <2>2 DEF Jumping, Compiling, LoopsFit, Backward
  <2>4. Waits(code', S)
    BY <2>1, <2>3, <1>3, WaitsLoop
  <2> QED BY <2>4, <1>1, <1>2, JumpsKept DEF Jumping, S, Waiting
<1> QED BY <1>5, <1>6, <1>7, <1>8

\* The first break of a loop waits in Loop.end.
LEMMA BreakJumps ==
  ASSUME Jumping, break_statement
  PROVE  JumpsInv'
<1>1. work # <<>> /\ Top.at \in OrArm /\ work' = Rest /\ loops # <<>>
  BY DEF break_statement, Begin, OrArm
<1>2. AwaitedBy(work') = AwaitedBy(work) /\ LoopEnds(work') = LoopEnds(work)
  BY <1>1, AwaitedRest DEF Jumping
<1>3. CASE UNCHANGED <<code, loops>>
  BY <1>2, <1>3, JumpsKept DEF Jumping, Waiting
<1>4. CASE /\ Head(loops).end = 0
           /\ code' = emit_jump(code, "break")
           /\ loops' = [loops EXCEPT ![1].end = Len(code')]
  <2> DEFINE n == Len(code) + 1
  <2>1. "break" \in Ops
    BY DEF Ops
  <2>2. Waits(code', Waiting \cup {n}) /\ Len(code') = n
    BY <1>4, <2>1, WaitsJump DEF Jumping
  <2>3. /\ loops \in Seq(Loops) /\ Len(loops) \in Nat /\ DOMAIN loops = 1..Len(loops)
        /\ Head(loops) = loops[1] /\ 1 \in DOMAIN loops
    BY <1>1, BreaksTail DEF Jumping, Compiling
  <2> HIDE DEF n
  <2>4. /\ DOMAIN loops' = DOMAIN loops /\ Len(loops') = Len(loops)
        /\ \A k \in DOMAIN loops : loops'[k] = IF k = 1 THEN [loops[k] EXCEPT !.end = n] ELSE loops[k]
    BY <1>4, <2>2, <2>3
  <2>5. loops'[1].end = n
    <3>1. loops[1] \in Loops
      BY <2>3
    <3> QED BY <2>3, <2>4, <3>1 DEF Loops
  <2>6. n \in Breaks(loops')
    BY <2>3, <2>4, <2>5 DEF Breaks
  <2>7. ASSUME NEW k \in DOMAIN loops PROVE loops[k].end \in Breaks(loops') \cup {0}
    <3>1. CASE k = 1
      BY <3>1, <1>4, <2>3
    <3>2. CASE k # 1
      <4>1. loops'[k] = loops[k] /\ k \in DOMAIN loops'
        BY <2>4, <3>2
      <4> QED BY <4>1 DEF Breaks
    <3> QED BY <3>1, <3>2
  <2>8. Breaks(loops) \subseteq Breaks(loops') \cup {0}
    BY <2>7 DEF Breaks
  <2>9. Waiting \cup {n} \subseteq (AwaitedBy(work') \cup Breaks(loops')) \cup {0}
    BY <1>2, <2>6, <2>8 DEF Waiting
  <2>10. Len(loops') <= LoopEnds(work')
    BY <1>2, <2>4 DEF Jumping
  <2> QED BY <2>2, <2>9, <2>10, JumpsKept
<1> QED BY <1>3, <1>4 DEF break_statement

\* Blocks, and the entries that are reached without anything to patch.
LEMMA BlockJumps ==
  ASSUME Jumping, work' \in Seq(Entries), block_statement \/ arm_block \/ end_declarations \/ end_block \/ match_default
  PROVE  JumpsInv'
<1>1. Waits(code, Waiting) /\ loops' = loops /\ work # <<>> /\ work \in Seq(Entries)
  BY DEF Jumping, Compiling, block_statement, arm_block, end_declarations, end_block, match_default,
    Begin, Resume
<1>2. CASE block_statement
  <2>1. /\ Top.at \in OrArm /\ code' = code
        /\ work' = <<Entry("declarations"), Compound("end_block")>> \o Rest
    BY <1>2 DEF block_statement, Begin, OrArm
  <2>2. Rest \in Seq(Entries) /\ AwaitedBy(Rest) = AwaitedBy(work) /\ LoopEnds(Rest) = LoopEnds(work)
    BY <2>1, <1>1, AwaitedRest DEF Jumping
  <2> DEFINE f == Compound("end_block")
  <2>3. f.at = "end_block"
    BY KeepsPlace
  <2>4. f.at \notin Looping /\ Awaited(f) = {}
    BY <2>3 DEF Looping, Awaited, Exiting
  <2> HIDE DEF f
  <2>5. work' = <<Entry("declarations"), f>> \o Rest
    BY <2>1 DEF f
  <2>6. AwaitedBy(work') = Awaited(f) \cup AwaitedBy(Rest) /\ LoopEnds(work') = LoopEnds(Rest)
    BY <2>2, <2>4, <2>5, AwaitedTwice
  <2>7. AwaitedBy(work') = AwaitedBy(work) /\ LoopEnds(work') = LoopEnds(work)
    BY ONLY <2>2, <2>4, <2>6
  <2> QED BY <1>1, <2>1, <2>7, JumpsKept DEF Jumping, Waiting
<1>3. CASE arm_block
  <2>1. Top.at \in OrArm /\ code' = code /\ work' = <<Entry("declarations")>> \o Rest
    BY <1>3 DEF arm_block, Begin, OrArm
  <2>2. Rest \in Seq(Entries) /\ AwaitedBy(Rest) = AwaitedBy(work) /\ LoopEnds(Rest) = LoopEnds(work)
    BY <2>1, <1>1, AwaitedRest DEF Jumping
  <2> DEFINE f == Entry("declarations")
  <2>3. f.at = "declarations"
    BY KeepsPlace
  <2>4. f.at \notin Looping /\ Awaited(f) = {}
    BY <2>3 DEF Looping, Awaited, Exiting
  <2> HIDE DEF f
  <2>5. work' = <<f>> \o Rest
    BY <2>1 DEF f
  <2>6. AwaitedBy(work') = Awaited(f) \cup AwaitedBy(Rest) /\ LoopEnds(work') = LoopEnds(Rest)
    BY <2>2, <2>4, <2>5, AwaitedCons
  <2>7. AwaitedBy(work') = AwaitedBy(work) /\ LoopEnds(work') = LoopEnds(work)
    BY ONLY <2>2, <2>4, <2>6
  <2> QED BY <1>1, <2>1, <2>7, JumpsKept DEF Jumping, Waiting
<1>4. CASE end_declarations \/ end_block
  <2>1. Top.at \in {"declarations", "end_block"} /\ work' = Tail(work)
    BY <1>4 DEF end_declarations, end_block, Resume
  <2>2. Awaited(Top) = {} /\ Top.at \notin Looping
    BY <2>1 DEF Awaited, Exiting, Looping
  <2>3. AwaitedBy(work') = AwaitedBy(work) /\ LoopEnds(work') = LoopEnds(work)
    BY <1>1, <2>1, <2>2, AwaitedTail DEF Top
  <2>4. Waits(code', Waiting)
    <3>1. CASE end_declarations
      BY <3>1, <1>1 DEF end_declarations
    <3>2. CASE end_block
      BY <3>2, <1>1, WaitsScopeEnd DEF end_block, Jumping
    <3> QED BY <3>1, <3>2, <1>4
  <2> QED BY <1>1, <2>3, <2>4, JumpsKept DEF Jumping, Waiting
<1>5. CASE match_default
  <2>1. code' = code /\ work' = <<Entry("arm"), Entry("end_default")>> \o work
    BY <1>5 DEF match_default
  <2> DEFINE f == Entry("end_default")
  <2>2. f.at = "end_default"
    BY KeepsPlace
  <2>3. f.at \notin Looping /\ Awaited(f) = {}
    BY <2>2 DEF Looping, Awaited, Exiting
  <2> HIDE DEF f
  <2>4. work' = <<Entry("arm"), f>> \o work
    BY <2>1 DEF f
  <2>5. AwaitedBy(work') = Awaited(f) \cup AwaitedBy(work) /\ LoopEnds(work') = LoopEnds(work)
    BY <1>1, <2>3, <2>4, AwaitedTwice
  <2>6. AwaitedBy(work') = AwaitedBy(work) /\ LoopEnds(work') = LoopEnds(work)
    BY ONLY <2>3, <2>5
  <2> QED BY <1>1, <2>1, <2>6, JumpsKept DEF Jumping, Waiting
<1> QED BY <1>2, <1>3, <1>4, <1>5

\* An if, and a loop with a condition, wait in the entry that ends them.
LEMMA ConditionJumps ==
  ASSUME Jumping, work' \in Seq(Entries), if_statement \/ while_statement \/ loop_statement
  PROVE  JumpsInv'
<1> DEFINE n == Len(code) + 2
<1>1. work # <<>> /\ Top.at \in OrArm /\ Waits(code, Waiting) /\ Len(code) \in Nat
  BY DEF Jumping, Compiling, if_statement, while_statement, loop_statement, Begin, OrArm, Anywhere
<1>2. /\ Rest \in Seq(Entries) /\ AwaitedBy(Rest) = AwaitedBy(work) /\ LoopEnds(Rest) = LoopEnds(work)
      /\ LoopEnds(work) \in Nat
  BY <1>1, AwaitedRest DEF Jumping
<1>3. Waits(Condition(Operand(code)), Waiting \cup {n}) /\ Len(Condition(Operand(code))) = Len(code) + 3
  BY <1>1, WaitsCondition
<1> HIDE DEF n
<1>4. CASE if_statement
  <2> DEFINE x == Len(code') - 1
             f == [Compound("end_then") EXCEPT !.exit = x]
  <2>1. /\ code' = Condition(Operand(code)) /\ loops' = loops
        /\ work' = <<Entry("statement"), f>> \o Rest
    BY <1>4 DEF if_statement
  <2>2. x = n
    BY <1>1, <1>3, <2>1 DEF n
  <2> HIDE DEF x
  <2>3. f.at = "end_then"
    BY KeepsPlace
  <2>4. f.exit = x
    BY DEF Compound, Entry
  <2>5. f.at \notin Looping /\ Awaited(f) = {n}
    BY <2>2, <2>3, <2>4 DEF Looping, Awaited, Exiting
  <2> HIDE DEF f
  <2>6. AwaitedBy(work') = {n} \cup AwaitedBy(work) /\ LoopEnds(work') = LoopEnds(work)
    BY <1>2, <2>1, <2>5, AwaitedTwice
  <2> QED BY <1>3, <2>1, <2>6, JumpsKept DEF Jumping, Waiting
<1>5. CASE while_statement
  <2> DEFINE x == Len(code') - 1
             h == Here(code)
             f == [Compound("end_while") EXCEPT !.start = h, !.exit = x]
  <2>1. /\ code' = Condition(Operand(code)) /\ begin_loop(h, Depth)
        /\ work' = <<Entry("statement"), f>> \o Rest
    BY <1>5 DEF while_statement
  <2>2. x = n /\ h \in Nat
    BY <1>1, <1>3, <2>1 DEF n, Here
  <2> HIDE DEF x, h
  <2>3. f.at = "end_while"
    BY KeepsPlace
  <2>4. f.exit = x
    BY DEF Compound, Entry
  <2>5. f.at \in Looping /\ Awaited(f) = {n}
    BY <2>2, <2>3, <2>4 DEF Looping, Awaited, Exiting
  <2> HIDE DEF f
  <2>6. AwaitedBy(work') = {n} \cup AwaitedBy(work) /\ LoopEnds(work') = LoopEnds(work) + 1
    BY <1>2, <2>1, <2>5, AwaitedTwice
  <2>7. Breaks(loops) \subseteq Breaks(loops') /\ Len(loops') = Len(loops) + 1 /\ Len(loops) \in Nat
    BY <2>1, <2>2, BreaksBegin, DepthType DEF Jumping, Compiling
  <2>8. Len(loops') <= LoopEnds(work')
    BY <1>2, <2>6, <2>7 DEF Jumping
  <2> QED BY <1>3, <2>1, <2>6, <2>7, <2>8, JumpsKept DEF Waiting
<1>6. CASE loop_statement
  <2> DEFINE h == Here(code)
             f == [Compound("end_while") EXCEPT !.start = h]
  <2>1. code' = code /\ begin_loop(h, Depth) /\ work' = <<Entry("statement"), f>> \o Rest
    BY <1>6 DEF loop_statement
  <2>2. h \in Nat
    BY <1>1 DEF Here
  <2> HIDE DEF h
  <2>3. f.at = "end_while"
    BY KeepsPlace
  <2>4. f.at \in Looping
    BY <2>3 DEF Looping
  <2> HIDE DEF f
  <2>5. AwaitedBy(work) \subseteq AwaitedBy(work') /\ LoopEnds(work') = LoopEnds(work) + 1
    BY <1>2, <2>1, <2>4, AwaitedTwice
  <2>6. Breaks(loops) \subseteq Breaks(loops') /\ Len(loops') = Len(loops) + 1 /\ Len(loops) \in Nat
    BY <2>1, <2>2, BreaksBegin, DepthType DEF Jumping, Compiling
  <2>7. Len(loops') <= LoopEnds(work')
    BY <1>2, <2>5, <2>6 DEF Jumping
  <2> QED BY <1>1, <2>1, <2>5, <2>6, <2>7, JumpsKept DEF Waiting
<1> QED BY <1>4, <1>5, <1>6

\* The end of a branch patches its jump and may begin another, and the end of a loop
\* patches its exit and its break.
LEMMA EndJumps ==
  ASSUME Jumping, work' \in Seq(Entries), phase' = "compile",
         end_then \/ end_if \/ end_while \/ end_for
  PROVE  JumpsInv'
<1>1. /\ work # <<>> /\ Top.at \in {"end_then", "end_if", "end_while", "end_for"}
      /\ Waits(code, Waiting) /\ Len(code) \in Nat /\ work \in Seq(Entries)
  BY DEF Jumping, Compiling, end_then, end_if, end_while, end_for, Resume
<1>2. Awaited(Top) = {Top.exit} /\ Top \in Entries /\ Tail(work) \in Seq(Entries)
  BY <1>1 DEF Awaited, Exiting, Top
<1>3. /\ AwaitedBy(work) = {Top.exit} \cup AwaitedBy(Tail(work))
      /\ LoopEnds(work) \in Nat /\ LoopEnds(Tail(work)) \in Nat
      /\ Top.at \in Looping => LoopEnds(work) = LoopEnds(Tail(work)) + 1
      /\ Top.at \notin Looping => LoopEnds(work) = LoopEnds(Tail(work))
  BY <1>1, <1>2, AwaitedTail DEF Top
<1>4. /\ Top.exit \in 0..Len(code)
      /\ Top.at \in {"end_while", "end_for"} => Top.start \in 1..(Len(code) + 1)
  <2>1. Fits(Top, code)
    BY <1>1, WorkTail DEF Jumping, Compiling, Top
  <2> QED BY <2>1 DEF Fits, Patchable
<1>5. CASE end_then
  <2> DEFINE jump == emit_jump(code, "jump")
             n == Len(jump)
             patched == patch_jump(jump, Top.exit)
             f == [Top EXCEPT !.at = "end_if", !.exit = n]
             S == Waiting \cup {Len(code) + 1}
  <2>1. /\ code' = emit_byte(patched, "pop") /\ loops' = loops
        /\ \/ work' = <<Entry("statement"), f>> \o Tail(work)
           \/ work' = <<f>> \o Tail(work)
    BY <1>5 DEF end_then
  <2>2. "jump" \in Ops
    BY DEF Ops
  <2>3. Waits(jump, S) /\ n = Len(code) + 1
    BY <1>1, <2>2, WaitsJump
  <2> HIDE DEF jump, S
  <2>4. Top.exit \in 0..Len(jump)
    BY <1>1, <1>4, <2>3
  <2>5. Waits(patched, S \ {Top.exit})
    BY <2>3, <2>4, WaitsPatch
  <2> HIDE DEF patched
  <2>6. Waits(code', S \ {Top.exit})
    BY <2>1, <2>5, WaitsOperand
  <2> HIDE DEF n
  <2>7. f.at = "end_if" /\ f.exit = n
    BY <1>2 DEF Entries
  <2>8. f.at \notin Looping /\ Awaited(f) = {n} /\ Top.at \notin Looping
    <3>1. Top.at = "end_then"
      BY <1>5 DEF end_then, Resume
    <3> QED BY <2>7, <3>1 DEF Looping, Awaited, Exiting
  <2> HIDE DEF f
  <2>9. AwaitedBy(work') = {n} \cup AwaitedBy(Tail(work)) /\ LoopEnds(work') = LoopEnds(Tail(work))
    <3>1. CASE work' = <<Entry("statement"), f>> \o Tail(work)
      BY <3>1, <1>2, <2>8, AwaitedTwice
    <3>2. CASE work' = <<f>> \o Tail(work)
      BY <3>2, <1>2, <2>8, AwaitedCons
    <3> QED BY <2>1, <3>1, <3>2
  <2>10. S \ {Top.exit} \subseteq AwaitedBy(work') \cup Breaks(loops')
    BY <1>3, <2>1, <2>3, <2>9 DEF S, Waiting
  <2>11. Len(loops') <= LoopEnds(work')
    BY <1>3, <2>1, <2>8, <2>9 DEF Jumping
  <2> QED BY <2>6, <2>10, <2>11, JumpsKept
<1>6. CASE end_if
  <2>1. code' = patch_jump(code, Top.exit) /\ loops' = loops /\ work' = Tail(work) /\ Top.at = "end_if"
    BY <1>6 DEF end_if, Resume
  <2>2. Waits(code', Waiting \ {Top.exit})
    BY <1>1, <1>4, <2>1, WaitsPatch
  <2>3. Len(loops') <= LoopEnds(work')
    BY <1>3, <2>1 DEF Jumping, Looping
  <2>4. Waiting \ {Top.exit} \subseteq AwaitedBy(work') \cup Breaks(loops')
    BY <1>3, <2>1 DEF Waiting
  <2> QED BY <2>2, <2>3, <2>4, JumpsKept
<1>7. CASE end_while \/ end_for
  <2> DEFINE c == Repeat(code, Top)
             S == Waiting \ {Top.exit}
  <2>1. end_loop(c) /\ work' = Tail(work) /\ Top.at \in {"end_while", "end_for"}
    BY <1>7 DEF end_while, end_for, Resume
  <2>2. Waits(c, S) /\ Len(c) >= Len(code)
    BY <1>1, <1>4, <2>1, WaitsRepeat
  <2> HIDE DEF c, S
  <2>3. loops # <<>> /\ loops' = Tail(loops) /\ Waits(code', S \ {Head(loops).end})
    BY <2>1, <2>2, WaitsLoopEnd DEF Jumping
  <2>4. Breaks(loops) = {Head(loops).end} \cup Breaks(loops') /\ Len(loops') = Len(loops) - 1 /\ Len(loops) \in Nat
    BY <2>3, BreaksTail DEF Jumping, Compiling
  <2>5. S \ {Head(loops).end} \subseteq AwaitedBy(work') \cup Breaks(loops')
    BY <1>3, <2>1, <2>4 DEF S, Waiting
  <2>6. LoopEnds(work) = LoopEnds(work') + 1
    BY <1>3, <2>1 DEF Looping
  <2>7. Len(loops') <= LoopEnds(work')
    BY <1>3, <2>1, <2>4, <2>6 DEF Jumping
  <2> QED BY <2>3, <2>5, <2>7, JumpsKept
<1> QED BY <1>5, <1>6, <1>7

\* The jump over the increment of a for is patched where it is emitted.
LEMMA ForJumps ==
  ASSUME Jumping, work' \in Seq(Entries), locals' \in Seq(Locals), for_statement
  PROVE  JumpsInv'
<1>1. /\ work # <<>> /\ Top.at \in OrArm /\ Waits(code, Waiting) /\ Len(code) \in Nat
  BY DEF Jumping, Compiling, for_statement, Begin, OrArm
<1>2. PICK var \in Names \cup {"none"}, condition \in BOOLEAN, increment \in BOOLEAN :
       LET init  == IF var = "none" THEN code ELSE Defining(Operand(code), declared')
           test  == IF condition THEN Condition(Operand(init)) ELSE init
           jump  == emit_jump(test, "jump")
           next  == emit_loop(emit_byte(Operand(jump), "pop"), "loop", Here(init))
           entry == [Entry("end_for") EXCEPT
                       !.first = Here(init),
                       !.before = Len(locals') + Matches,
                       !.start = IF increment THEN Here(jump) ELSE Here(init),
                       !.exit  = IF condition THEN Len(init) + 2 ELSE 0]
       IN  /\ var # "none" => Matches = 0 \/ "arm_locals" \in Forms
           /\ declared' = IF var = "none" THEN declared ELSE declared + 1
           /\ locals' = IF var = "none" THEN locals
                        ELSE Append(locals, [name |-> var, depth |-> scope_depth', id |-> declared'])
           /\ \/ /\ increment
                 /\ code' = patch_jump(next, Len(jump))
                 /\ begin_loop(Here(jump), entry.before)
                 /\ Mark("increment", [entry EXCEPT !.first = Here(jump)],
                         emit_byte(Operand(jump), "pop"), 0)
              \/ /\ ~increment
                 /\ "no_increment" \in Forms
                 /\ code' = test
                 /\ UNCHANGED <<loops, marks>>
           /\ work' = <<Entry("statement"), entry>> \o (<<Compound("end_block")>> \o Rest)
  BY Zenon DEF for_statement
<1> DEFINE init  == IF var = "none" THEN code ELSE Defining(Operand(code), declared')
           test  == IF condition THEN Condition(Operand(init)) ELSE init
           jump  == emit_jump(test, "jump")
           body == emit_byte(Operand(jump), "pop")
           next  == emit_loop(body, "loop", Here(init))
           h == Here(init)
           b == Len(locals') + Matches
           start == IF increment THEN Here(jump) ELSE h
           exit == IF condition THEN Len(init) + 2 ELSE 0
           entry == [Entry("end_for") EXCEPT !.first = h, !.before = b, !.start = start, !.exit = exit]
           S == Waiting
           T == S \cup {exit}
<1>3. declared' = IF var = "none" THEN declared ELSE declared + 1
  BY <1>2
<1>4. \/ code' = patch_jump(next, Len(jump)) /\ begin_loop(Here(jump), entry.before)
      \/ code' = test /\ loops' = loops
  BY <1>2
<1>5. work' = <<Entry("statement"), entry>> \o (<<Compound("end_block")>> \o Rest)
  BY <1>2
<1>6. entry.at = "end_for" /\ entry.exit = exit /\ entry.before = b
  <2>1. entry.at = "end_for"
    BY KeepsPlace
  <2>2. entry.exit = exit /\ entry.before = b
    BY DEF Entry
  <2> QED BY <2>1, <2>2
<1>7. entry.at \in Looping /\ Awaited(entry) = {exit}
  BY <1>6 DEF Looping, Awaited, Exiting
<1> HIDE DEF entry
<1>8. b \in Nat
  BY DepthType DEF Jumping, Compiling
<1> HIDE DEF b
<1>9. Waits(init, S) /\ Len(init) \in Nat
  <2>1. CASE var = "none"
    BY <1>1, <2>1
  <2>2. CASE var # "none"
    <3> DEFINE o == Operand(code)
    <3>1. Waits(o, S) /\ Len(o) = Len(code) + 1
      BY <1>1, WaitsOperand
    <3> HIDE DEF o
    <3>2. Len(o) > 0 /\ declared' \in Nat
      BY <1>1, <1>3, <2>2, <3>1 DEF Jumping, Compiling
    <3> HIDE DEF S
    <3>3. Waits(Defining(o, declared'), S) /\ Len(Defining(o, declared')) = Len(o)
      BY <3>1, <3>2, WaitsGhost
    <3>4. init = Defining(o, declared')
      BY <2>2 DEF o
    <3> HIDE DEF init
    <3> QED BY <1>1, <3>1, <3>3, <3>4
  <2> QED BY <2>1, <2>2
<1> HIDE DEF init
<1>10. Waits(test, T) /\ Len(test) \in Nat /\ Len(test) >= Len(init)
  <2>1. CASE condition
    <3>1. Waits(Condition(Operand(init)), S \cup {Len(init) + 2}) /\ Len(Condition(Operand(init))) = Len(init) + 3
      BY <1>9, WaitsCondition
    <3>2. exit = Len(init) + 2 /\ test = Condition(Operand(init))
      BY <2>1
    <3> HIDE DEF exit, test, S
    <3> QED BY <1>9, <3>1, <3>2
  <2>2. CASE ~ condition
    <3>1. test = init
      BY <2>2
    <3> HIDE DEF test
    <3> QED BY <1>9, <3>1 DEF Waits
  <2> QED BY <2>1, <2>2
<1> HIDE DEF test, T
<1>11. T \subseteq S \cup {exit} /\ exit \in {exit}
  BY DEF T
<1> DEFINE n == Len(test) + 1
<1>12. Waits(jump, T \cup {n}) /\ Len(jump) = n
  <2>1. "jump" \in Ops
    BY DEF Ops
  <2> QED BY <2>1, <1>10, WaitsJump
<1>13. n \in Nat /\ Here(jump) \in Nat
  BY <1>10, <1>12 DEF Here
<1> HIDE DEF n, S, exit
<1>14. Waits(patch_jump(next, Len(jump)), T)
  <2> HIDE DEF jump
  <2>1. Waits(Operand(jump), T \cup {n}) /\ Len(Operand(jump)) = n + 1
    BY <1>12, WaitsOperand
  <2>2. Waits(body, T \cup {n}) /\ Len(body) = n + 2
    <3>1. Waits(body, T \cup {n}) /\ Len(body) = Len(Operand(jump)) + 1
      BY <2>1, WaitsOperand
    <3> QED BY <3>1, <2>1, <1>13
  <2> HIDE DEF body
  <2>3. h \in 1..(Len(body) + 1) /\ "loop" \in Backward
    BY <2>2, <1>9, <1>10, <1>13 DEF Here, Backward, n
  <2> HIDE DEF h
  <2>4. Waits(emit_loop(body, "loop", h), T \cup {n}) /\ Len(emit_loop(body, "loop", h)) = n + 3
    <3>1. Waits(emit_loop(body, "loop", h), T \cup {n}) /\ Len(emit_loop(body, "loop", h)) = Len(body) + 1
      BY <2>2, <2>3, WaitsLoop
    <3> QED BY <3>1, <2>2, <1>13
  <2>5. next = emit_loop(body, "loop", h)
    BY DEF h
  <2> HIDE DEF next
  <2>6. n \in 0..Len(next) /\ Waits(next, T \cup {n})
    BY <2>4, <2>5, <1>13
  <2>7. Waits(patch_jump(next, n), (T \cup {n}) \ {n})
    BY <2>6, WaitsPatch
  <2> QED BY <2>7, <1>12 DEF Waits
<1> HIDE DEF next
<1>15. /\ Rest \in Seq(Entries) /\ AwaitedBy(Rest) = AwaitedBy(work) /\ LoopEnds(Rest) = LoopEnds(work)
       /\ LoopEnds(work) \in Nat
  BY <1>1, AwaitedRest DEF Jumping
<1> DEFINE f == Compound("end_block")
           w == <<f>> \o Rest
<1>16. f \in Entries /\ f.at \notin Looping
  <2>1. "end_block" \in Places
    BY DEF Places
  <2>2. f \in Entries /\ f.at = "end_block"
    BY <2>1, CompoundType DEF Jumping, Compiling
  <2> QED BY <2>2 DEF Looping
<1> HIDE DEF f
<1>17. w \in Seq(Entries)
  BY <1>15, <1>16, ConsFacts
<1>18. AwaitedBy(work) \subseteq AwaitedBy(w) /\ LoopEnds(w) = LoopEnds(work)
  BY <1>15, <1>16, <1>17, AwaitedCons
<1> HIDE DEF w
<1>19. AwaitedBy(work') = {exit} \cup AwaitedBy(w) /\ LoopEnds(work') = LoopEnds(w) + 1
  <2>1. work' = <<Entry("statement"), entry>> \o w
    BY <1>5 DEF w, f
  <2> QED BY <2>1, <1>7, <1>17, AwaitedTwice
<1>20. Breaks(loops) \subseteq Breaks(loops') /\ Len(loops') <= LoopEnds(work') /\ Waits(code', T)
  <2>1. CASE code' = patch_jump(next, Len(jump)) /\ begin_loop(Here(jump), entry.before)
    <3> HIDE DEF jump
    <3>1. Breaks(loops) \subseteq Breaks(loops') /\ Len(loops') = Len(loops) + 1 /\ Len(loops) \in Nat
      BY <2>1, <1>6, <1>8, <1>13, BreaksBegin DEF Jumping, Compiling
    <3>2. Len(loops') <= LoopEnds(work')
      BY <3>1, <1>15, <1>18, <1>19 DEF Jumping
    <3> QED BY <2>1, <3>1, <3>2, <1>14
  <2>2. CASE code' = test /\ loops' = loops
    <3>1. Len(loops) \in Nat
      BY DEF Jumping, Compiling
    <3>2. Len(loops') <= LoopEnds(work')
      BY <3>1, <2>2, <1>15, <1>18, <1>19 DEF Jumping
    <3> QED BY <2>2, <3>2, <1>10
  <2> QED BY <1>4, <2>1, <2>2
<1>21. T \subseteq (AwaitedBy(work') \cup Breaks(loops')) \cup {0}
  BY <1>11, <1>18, <1>19, <1>20 DEF S, Waiting
<1> QED BY <1>20, <1>21, JumpsKept

\* The value a match is about is one the compiler has declared.
LEMMA MatchedType ==
  ASSUME Compiling, work # <<>>, Top.at = "arms"
  PROVE  Matched(Top) \in Nat
<1>1. Fits(Top, code)
  BY Nothing, EndReached
<1>2. Top.start - 1 \in 1..Len(code)
  BY <1>1 DEF Fits, Compiling
<1>3. code[Top.start - 1] \in Instructions
  BY <1>2 DEF Compiling
<1> QED BY <1>3 DEF Matched, Instructions

\* The test of an arm waits in the entry that ends the arm.
LEMMA ArmJumps ==
  ASSUME Jumping, work' \in Seq(Entries), match_statement \/ match_member \/ match_member_bind
  PROVE  JumpsInv'
<1>1. /\ work # <<>> /\ Waits(code, Waiting) /\ Len(code) \in Nat /\ loops' = loops
      /\ work \in Seq(Entries)
  BY DEF Jumping, Compiling, match_statement, match_member, match_member_bind, Begin, Resume
<1>2. CASE match_statement
  <2> DEFINE o == Operand(code)
             d == Defining(o, declared')
             f == [Compound("arms") EXCEPT !.start = Len(code')]
  <2>1. /\ Top.at \in OrArm /\ declared' = declared + 1 /\ code' = emit_jump(d, "match")
        /\ work' = <<f>> \o Rest
    BY <1>2 DEF match_statement, Begin
  <2>2. Waits(o, Waiting) /\ Len(o) = Len(code) + 1
    BY <1>1, WaitsOperand
  <2> HIDE DEF o
  <2>3. declared' \in Nat /\ Len(o) > 0
    BY <1>1, <2>1, <2>2 DEF Jumping, Compiling
  <2>4. Waits(d, Waiting)
    BY <2>2, <2>3, WaitsGhost
  <2> HIDE DEF d
  <2>5. "match" \in Ops /\ "match" \notin Forward
    BY DEF Ops, Forward
  <2>6. Waits(code', Waiting)
    BY <2>1, <2>4, <2>5, WaitsJump
  <2>7. f.at = "arms"
    BY KeepsPlace
  <2>8. f.at \notin Looping
    BY <2>7 DEF Looping
  <2> HIDE DEF f
  <2>9. Rest \in Seq(Entries) /\ AwaitedBy(Rest) = AwaitedBy(work) /\ LoopEnds(Rest) = LoopEnds(work)
    BY <1>1, <2>1, AwaitedRest DEF Jumping
  <2>10. AwaitedBy(work) \subseteq AwaitedBy(work') /\ LoopEnds(work') = LoopEnds(work)
    BY <2>1, <2>8, <2>9, AwaitedCons
  <2> QED BY <1>1, <2>6, <2>10, JumpsKept DEF Jumping, Waiting
<1>3. ASSUME Top.at = "arms", NEW n, Waits(code', Waiting \cup {n}),
             work' = <<Entry("arm"), [Entry("end_arm") EXCEPT !.exit = n]>> \o work
      PROVE  JumpsInv'
  <2> DEFINE f == [Entry("end_arm") EXCEPT !.exit = n]
  <2>1. f.at = "end_arm"
    BY KeepsPlace
  <2>2. f.exit = n
    BY DEF Entry
  <2>3. f.at \notin Looping /\ Awaited(f) = {n}
    BY <2>1, <2>2 DEF Looping, Awaited, Exiting
  <2>4. work' = <<Entry("arm"), f>> \o work
    BY <1>3
  <2> HIDE DEF f
  <2>5. AwaitedBy(work') = {n} \cup AwaitedBy(work) /\ LoopEnds(work') = LoopEnds(work)
    BY <1>1, <2>3, <2>4, AwaitedTwice
  <2> QED BY <1>1, <1>3, <2>5, JumpsKept DEF Jumping, Waiting
<1>4. CASE match_member
  <2>1. Top.at = "arms"
    BY <1>4 DEF match_member, Resume
  <2>2. PICK enum \in BOOLEAN :
          /\ code' = Pattern(enum)
          /\ work' = <<Entry("arm"), [Entry("end_arm") EXCEPT !.exit = Len(code')]>> \o work
    BY <1>4 DEF match_member
  <2>3. Matched(Top) \in Nat
    BY <1>1, <2>1, MatchedType DEF Jumping
  <2>4. Waits(code', Waiting \cup {Len(code')})
    BY <1>1, <2>2, <2>3, WaitsPattern
  <2> QED BY <1>3, <2>1, <2>2, <2>4
<1>5. CASE match_member_bind
  <2> DEFINE test == Pattern(TRUE)
             n == Len(test)
             d == Defining(test, declared')
             i == Instruction("enum_member_bind", Len(locals'), 0, declared')
  <2>1. Top.at = "arms" /\ declared' = declared + 1
    BY <1>5 DEF match_member_bind, Resume
  <2>2. PICK x \in Names :
          /\ locals' = Append(locals, [name |-> x, depth |-> scope_depth', id |-> declared'])
          /\ code' = Append(d, i)
          /\ work' = <<Entry("arm"), [Entry("end_arm") EXCEPT !.exit = n]>> \o work
    BY <1>5 DEF match_member_bind, Defining
  <2>3. Matched(Top) \in Nat
    BY <1>1, <2>1, MatchedType DEF Jumping
  <2>4. Waits(test, Waiting \cup {n}) /\ n \in Nat \ {0}
    BY <1>1, <2>3, WaitsPattern
  <2>5. declared' \in Nat /\ Len(locals') \in Nat
    <3>1. Len(locals') = Len(locals) + 1 /\ Len(locals) \in Nat
      BY <2>2 DEF Jumping, Compiling
    <3> QED BY <3>1, <2>1 DEF Jumping, Compiling
  <2> HIDE DEF test
  <2>6. n > 0
    BY <2>4
  <2>7. Waits(d, Waiting \cup {n})
    <3> DEFINE T == Waiting \cup {n}
    <3>1. Waits(test, T) /\ Len(test) > 0
      BY <2>4, <2>6
    <3> HIDE DEF T
    <3>2. Waits(Defining(test, declared'), T)
      BY <3>1, <2>5, WaitsGhost
    <3> QED BY <3>2 DEF T
  <2>8. i \in Instructions /\ i.op \notin Forward
    BY <2>5 DEF Instruction, Instructions, Ops, Forward
  <2> HIDE DEF d, i, n
  <2>9. Waits(Append(d, i), Waiting \cup {n})
    BY <2>7, <2>8, WaitsAppend
  <2> QED BY <1>3, <2>1, <2>2, <2>9
<1> QED BY <1>2, <1>4, <1>5

\* The end of an arm patches its test, and its jump waits for the end of the match.
LEMMA ArmEndJumps ==
  ASSUME Jumping, work' \in Seq(Entries), end_arm
  PROVE  JumpsInv'
<1> DEFINE v == Tail(work)
           w == Tail(v)
           r == Head(v)
           jump == emit_jump(code, "jump")
           n == Len(jump)
           T == Waiting \cup {n}
           c == IF Top.at = "end_arm" THEN patch_jump(jump, Top.exit) ELSE jump
           e == [r EXCEPT !.at = IF Top.at = "end_arm" THEN r.at ELSE "end_match",
                          !.ends = r.ends \cup {n}]
<1>1. /\ work # <<>> /\ EndsArm(Top) /\ loops' = loops /\ end_scope(c)
      /\ work' = <<[work[2] EXCEPT !.at = IF Top.at = "end_arm" THEN @ ELSE "end_match",
                                   !.ends = @ \cup {n}]>>
                 \o SubSeq(work, 3, Len(work))
  BY DEF end_arm, Resume, EndsArm
<1>2. work \in Seq(Entries) /\ WorkFits(work, code) /\ Waits(code, Waiting) /\ Len(code) \in Nat
  BY DEF Jumping, Compiling
<1>3. v # <<>> /\ r.at = "arms" /\ v \in Seq(Entries) /\ Fits(Top, code)
  <2>1. EndsArm(Head(work))
    BY <1>1 DEF Top
  <2>2. WorkFits(Tail(work), code) /\ Tail(work) # <<>> /\ Head(Tail(work)).at = "arms" /\ Fits(Top, code)
    BY <1>1, <1>2, <2>1, WorkTail DEF Top
  <2> QED BY <2>2 DEF WorkFits
<1>4. work[2] = r /\ SubSeq(work, 3, Len(work)) = w
  <2>1. Len(work) >= 2
    BY <1>1, <1>2, <1>3
  <2> QED BY <2>1, <1>2, TwoEntries
<1>5. work' = <<e>> \o w
  BY <1>1, <1>4
<1>6. r \in Entries
  BY <1>3
<1>7. AwaitedBy(work) = Awaited(Top) \cup AwaitedBy(v) /\ LoopEnds(work) = LoopEnds(v)
  <2>1. Top.at \notin Looping
    BY <1>1 DEF EndsArm, Looping
  <2> QED BY <2>1, <1>1, <1>2, AwaitedTail DEF Top
<1>8. AwaitedBy(v) = r.ends \cup AwaitedBy(w) /\ LoopEnds(v) = LoopEnds(w) /\ w \in Seq(Entries)
  <2>1. r.at \notin Looping /\ Awaited(r) = r.ends
    BY <1>3 DEF Looping, Awaited, Exiting
  <2> HIDE DEF v
  <2>2. AwaitedBy(v) = Awaited(Head(v)) \cup AwaitedBy(Tail(v)) /\ LoopEnds(v) = LoopEnds(Tail(v))
    BY <2>1, <1>3, AwaitedTail
  <2>3. Tail(v) \in Seq(Entries)
    BY <1>3
  <2> QED BY <2>1, <2>2, <2>3
<1> HIDE DEF r, v
<1>9. e.at \in {"arms", "end_match"} /\ e.ends = r.ends \cup {n}
  BY <1>3, <1>6 DEF Entries
<1>10. e.at \notin Looping /\ Awaited(e) = r.ends \cup {n}
  BY <1>9 DEF Looping, Awaited, Exiting
<1> HIDE DEF e, w
<1>11. AwaitedBy(work') = (r.ends \cup {n}) \cup AwaitedBy(w) /\ LoopEnds(work') = LoopEnds(w)
  BY <1>5, <1>8, <1>10, AwaitedCons
<1>12. Waits(jump, T) /\ n = Len(code) + 1
  <2>1. "jump" \in Ops
    BY DEF Ops
  <2> QED BY <1>2, <2>1, WaitsJump
<1> HIDE DEF jump, T
<1>13. Waits(c, T \ Awaited(Top))
  <2>1. CASE Top.at = "end_arm"
    <3>1. Top.exit \in 0..Len(jump)
      BY <1>2, <1>3, <1>12 DEF Fits, Patchable
    <3>2. Waits(patch_jump(jump, Top.exit), T \ {Top.exit})
      BY <1>12, <3>1, WaitsPatch
    <3>3. Awaited(Top) = {Top.exit}
      BY <2>1 DEF Awaited, Exiting
    <3> QED BY <2>1, <3>2, <3>3
  <2>2. CASE Top.at = "end_default"
    <3>1. Awaited(Top) = {}
      BY <2>2 DEF Awaited, Exiting
    <3>2. c = jump
      BY <2>2
    <3> HIDE DEF c
    <3> QED BY <1>12, <3>1, <3>2 DEF Waits
  <2> QED BY <2>1, <2>2, <1>1 DEF EndsArm
<1> HIDE DEF c
<1>14. Waits(code', T \ Awaited(Top))
  BY <1>1, <1>13, WaitsScopeEnd DEF Jumping
<1>15. T \ Awaited(Top) \subseteq AwaitedBy(work') \cup Breaks(loops')
  BY <1>1, <1>7, <1>8, <1>11 DEF T, Waiting
<1>16. Len(loops') <= LoopEnds(work')
  BY <1>1, <1>7, <1>8, <1>11 DEF Jumping
<1> QED BY <1>14, <1>15, <1>16, JumpsKept

\* The end of a match patches the jumps of its arms.
LEMMA MatchEndJumps ==
  ASSUME Jumping, end_match
  PROVE  JumpsInv'
<1> DEFINE jump == IF Top.at = "arms" THEN emit_jump(code, "jump") ELSE code
           n == Len(jump)
           last == IF Top.at = "arms" THEN {n} ELSE {}
           J == (Top.ends \cup last) \cup {Top.start}
           patched == PatchAll(jump, J)
           T == Waiting \cup last
<1>1. /\ work # <<>> /\ Top.at \in {"arms", "end_match"} /\ loops' = loops /\ work' = Tail(work)
      /\ end_scope(emit_byte(patched, "pop"))
  BY DEF end_match, Resume
<1>2. work \in Seq(Entries) /\ Waits(code, Waiting)
  BY DEF Jumping, Compiling
<1>3. AwaitedBy(work) = Top.ends \cup AwaitedBy(work') /\ LoopEnds(work') = LoopEnds(work)
  <2>1. Top.at \notin Looping /\ Awaited(Top) = Top.ends
    BY <1>1 DEF Looping, Awaited, Exiting
  <2> QED BY <2>1, <1>1, <1>2, AwaitedTail DEF Top
<1>4. Waits(jump, T)
  <2>1. CASE Top.at = "arms"
    <3>1. "jump" \in Ops
      BY DEF Ops
    <3>2. Waits(emit_jump(code, "jump"), Waiting \cup {Len(code) + 1}) /\ Len(emit_jump(code, "jump")) = Len(code) + 1
      BY <3>1, <1>2, WaitsJump
    <3> QED BY <2>1, <3>2
  <2>2. CASE Top.at # "arms"
    BY <2>2, <1>2 DEF Waits
  <2> QED BY <2>1, <2>2
<1> HIDE DEF jump, T
<1>5. Waits(patched, T \ J)
  BY <1>4, WaitsPatchAll
<1> HIDE DEF patched
<1>6. Waits(emit_byte(patched, "pop"), T \ J)
  BY <1>5, WaitsOperand
<1>7. Waits(code', T \ J)
  BY <1>1, <1>6, WaitsScopeEnd DEF Jumping
<1>8. T \ J \subseteq AwaitedBy(work') \cup Breaks(loops')
  BY <1>1, <1>3 DEF T, Waiting
<1>9. Len(loops') <= LoopEnds(work')
  BY <1>1, <1>3 DEF Jumping
<1> QED BY <1>7, <1>8, <1>9, JumpsKept

\* When the text ends, no jump waits: no entry is left, and no loop.
LEMMA NothingWaits ==
  ASSUME Jumping, work = <<>>
  PROVE  Unpatched(code) = {}
<1>1. AwaitedBy(work) = {}
  BY DEF AwaitedBy
<1>2. LoopEnds(work) = 0
  <2>1. {k \in DOMAIN work : work[k].at \in Looping} = {}
    OBVIOUS
  <2> QED BY <2>1, FS_EmptySet DEF LoopEnds
<1>3. loops = <<>>
  BY <1>2 DEF Jumping, Compiling
<1>4. Breaks(loops) = {}
  BY <1>3 DEF Breaks
<1> QED BY <1>1, <1>4 DEF Jumping, Waits, Waiting

-----------------------------------------------------------------------------
(* The invariant holds.                                                    *)

\* The initial state satisfies the invariant.
LEMMA BeginningJumps ==
  Init => IInv
<1> SUFFICES ASSUME Init PROVE IInv
  OBVIOUS
<1>1. FormInv
  BY Beginning
<1>2. phase = "compile" /\ code = <<>> /\ loops = <<>> /\ work = <<Entry("declarations")>>
  BY DEF Init, InitCompile
<1>3. Unpatched(code) = {}
  BY <1>2 DEF Unpatched
<1>4. Len(loops) = 0 /\ LoopEnds(work) \in Nat
  <2>1. work \in Seq(Entries) /\ work # <<>>
    BY <1>1, <1>2 DEF FormInv, CompileInv, WorkFits
  <2> QED BY <1>2, <2>1, AwaitedTail
<1> QED BY <1>1, <1>3, <1>4 DEF IInv, JumpsInv

\* In code that is compiled, the two parts of the invariant.
LEMMA JumpingFacts ==
  ASSUME IInv, phase = "compile"
  PROVE  Jumping /\ (end_compile => Unpatched(code) = {})
<1>1. Compiling
  BY CompilingFacts DEF IInv, FormInv
<1>2. Jumping
  BY <1>1 DEF IInv, JumpsInv, Jumping, Waits, Waiting, Compiling
<1> QED BY <1>2, NothingWaits DEF end_compile

\* Every step of the compiler keeps the invariant.
LEMMA CompileKeeps ==
  ASSUME IInv, phase = "compile", Compile, UNCHANGED <<stack, pc>>
  PROVE  IInv'
<1>1. Jumping /\ (end_compile => Unpatched(code) = {})
  BY JumpingFacts
<1>2. FormInv'
  BY <1>1, CompileStep DEF IInv
<1>3. CASE phase' # "compile"
  BY <1>2, <1>3 DEF IInv, JumpsInv
<1>4. CASE phase' = "compile"
  <2>1. work' \in Seq(Entries) /\ locals' \in Seq(Locals)
    BY <1>2, <1>4 DEF FormInv, CompileInv, WorkFits
  <2>2. ~ end_compile
    BY <1>4 DEF end_compile
  <2>3. JumpsInv'
    BY <1>1, <1>4, <2>1, <2>2, SimpleJumps, BreakJumps, BlockJumps, ConditionJumps, EndJumps,
      ForJumps, ArmJumps, ArmEndJumps, MatchEndJumps DEF Compile
  <2> QED BY <1>2, <2>3 DEF IInv
<1> QED BY <1>3, <1>4

\* The compiler runs while the text is compiled, and the machine after it.
LEMMA Phases ==
  (Compile => phase = "compile") /\ (Run => phase = "run" /\ phase' # "compile")
<1>1. Compile => phase = "compile"
  BY DEF Compile, Begin, Resume, expr_statement, var_declaration, return_statement,
    break_statement, continue_statement, block_statement, arm_block, end_declarations, end_block,
    if_statement, end_then, end_if, while_statement, end_while, loop_statement, for_statement,
    end_for, match_statement, match_member, match_member_bind, match_default, end_arm, end_match,
    end_compile
<1>2. Run => phase = "run" /\ phase' # "compile"
  BY DEF Run, At, panic, op_push, op_get_local, op_set_local, op_pop, op_jump_if_false, op_jump,
    op_loop, op_match, op_jump_if_neq, op_enum_member_match, op_enum_member_bind, op_return, compileVars
<1> QED BY <1>1, <1>2

\* Every step keeps the invariant.
LEMMA Step ==
  IInv /\ [Next]_vars => IInv'
<1> SUFFICES ASSUME IInv, [Next]_vars PROVE IInv'
  OBVIOUS
<1>1. CASE UNCHANGED vars
  BY <1>1 DEF IInv, FormInv, CompileInv, RunInv, JumpsInv, vars, compileVars
<1>2. CASE Compile /\ UNCHANGED <<stack, pc>>
  <2>1. phase = "compile"
    BY <1>2, Phases
  <2> QED BY <1>2, <2>1, CompileKeeps
<1>3. CASE Run
  <2>1. FormInv' /\ phase' # "compile"
    BY <1>3, RunStep, Phases DEF IInv
  <2> QED BY <2>1 DEF IInv, JumpsInv
<1> QED BY <1>1, <1>2, <1>3 DEF Next

\* Whatever the text, and however its conditions come out, the machine stays within
\* the chunk: every jump was patched before the text ended, by the statement that
\* emitted it or at the end of the loop it breaks, and control never runs past the
\* return that ends the chunk.
THEOREM ControlStaysInCode ==
  Spec => []StaysInCode
<1>1. IInv => StaysInCode
  BY DEF IInv, FormInv, RunInv, StaysInCode
<1> QED BY <1>1, BeginningJumps, Step, PTL DEF Spec

\* Every step keeps the form of the state.
LEMMA TypedStep ==
  IInv /\ Typed /\ [Next]_vars => Typed'
<1> SUFFICES ASSUME IInv, Typed, [Next]_vars PROVE Typed'
  OBVIOUS
<1>1. CASE UNCHANGED vars
  BY <1>1 DEF Typed, TypeOK, Scopes, vars, compileVars
<1>2. CASE Compile /\ UNCHANGED <<stack, pc>>
  <2>1. phase = "compile"
    BY <1>2, Phases
  <2>2. end_compile => Unpatched(code) = {}
    BY <2>1, JumpingFacts
  <2> QED BY <1>2, <2>2, CompileTyped DEF IInv
<1>3. CASE Run
  BY <1>3, RunTyped DEF IInv
<1> QED BY <1>1, <1>2, <1>3 DEF Next

\* The chunk, the compiler and the machine keep the form the source declares, for
\* any text in any of the forms: in particular scope_depth, an int, never goes below
\* 0 in end_scope, because each scope that parser.c begins is ended once, by the
\* function that began it, even where the compiler ends the loop of another function.
THEOREM StatementsAreTyped ==
  Spec => []TypeOK
<1>1. Typed => TypeOK
  BY DEF Typed
<1> QED BY <1>1, BeginningJumps, Step, BeginningTyped, TypedStep, PTL DEF Spec
=============================================================================

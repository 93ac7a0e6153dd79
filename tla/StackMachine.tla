---------------------------- MODULE StackMachine ----------------------------
(***************************************************************************)
(* The code Codegen emits, run by the handlers of src/src/vm.c in one      *)
(* CallFrame, whose slots are the bottom of the stack.                     *)
(* What a stack cell holds is abstracted to the variable that lives in it, *)
(* 0 for none.  A condition or a comparison may have either result.        *)
(***************************************************************************)
EXTENDS Codegen

CONSTANTS
  StackMax        \* constant_stack_max: the cells of the stack

ASSUME StackIsBounded == StackMax \in Nat

VARIABLES
  stack,          \* the cells from slots to stack_top
  pc              \* ip, as an index into the code

vars == <<compileVars, stack, pc>>

-----------------------------------------------------------------------------
\* The machine is at an instruction of one of these kinds.
At(ops) == phase = "run" /\ code[pc].op \in ops

Fetched == code[pc]

Next1 == pc' = pc + 1

JumpForward == pc' = pc + 1 + Fetched.arg

JumpBack == pc' = pc + 1 - Fetched.arg

\* The stack without its topmost n cells.
Popped(n) == SubSeq(stack, 1, Len(stack) - n)

Holds(n) == Len(stack) >= n

HasRoom == Len(stack) < StackMax

\* A push to a full stack and a pop from an empty one.  In a function, a pop below
\* its slots would take the caller's values and is counted as a pop from an empty
\* stack.
panic ==
  /\ phase = "run"
  /\ \/ Fetched.op \in {"push", "get_local"} /\ ~ HasRoom
     \/ Fetched.op \in {"pop", "define_global", "return"} /\ ~ Holds(1)
     \/ Fetched.op = "jump_if_neq" /\ ~ Holds(2)
     \/ Fetched.op = "enum_member_match" /\ ~ Holds(3)
  /\ phase' = "panicked"
  /\ UNCHANGED <<fn_type, code, locals, scope_depth, loops, work, budget, declared, marks, stack, pc>>

\* Constants, globals, and every expression that leaves one value.
op_push ==
  /\ At({"push"})
  /\ HasRoom
  /\ stack' = Append(stack, Fetched.def)
  /\ Next1
  /\ UNCHANGED compileVars

op_get_local ==
  /\ At({"get_local"})
  /\ HasRoom
  /\ stack' = Append(stack, Fetched.def)
  /\ Next1
  /\ UNCHANGED compileVars

\* The variable that lives in the slot does not change.
op_set_local ==
  /\ At({"set_local", "set_global"})
  /\ Next1
  /\ UNCHANGED <<compileVars, stack>>

\* op_pop and op_close_upvalue, and op_define_global.
op_pop ==
  /\ At({"pop", "define_global"})
  /\ Holds(1)
  /\ stack' = Popped(1)
  /\ Next1
  /\ UNCHANGED compileVars

op_jump_if_false ==
  /\ At({"jump_if_false"})
  /\ JumpForward \/ Next1
  /\ UNCHANGED <<compileVars, stack>>

op_jump ==
  /\ At({"jump", "break"})
  /\ JumpForward
  /\ UNCHANGED <<compileVars, stack>>

op_loop ==
  /\ At({"loop", "continue"})
  /\ JumpBack
  /\ UNCHANGED <<compileVars, stack>>

op_match ==
  /\ At({"match"})
  /\ Next1
  /\ UNCHANGED <<compileVars, stack>>

\* The matched value is popped and pushed again.
op_jump_if_neq ==
  /\ At({"jump_if_neq"})
  /\ Holds(2)
  /\ stack' = Popped(1)
  /\ JumpForward \/ Next1
  /\ UNCHANGED compileVars

\* A member that matches pushes the value it stores, whether or not the pattern has
\* a name for it; a pattern with a name is taken to be for a member that stores one.
op_enum_member_match ==
  /\ At({"enum_member_match"})
  /\ Holds(3)
  /\ \/ /\ stack' = Popped(2)
        /\ JumpForward
     \/ \E stores \in BOOLEAN :
          /\ Fetched.def # 0 => stores
          /\ stores => Fetched.def # 0 \/ "unbound" \in Forms
          /\ stack' = IF stores THEN Append(Popped(2), 0) ELSE Popped(2)
          /\ Next1
  /\ UNCHANGED compileVars

\* Copies the value to the slot of the variable.
op_enum_member_bind ==
  /\ At({"enum_member_bind"})
  /\ stack' = [stack EXCEPT ![Fetched.arg] = Fetched.def]
  /\ Next1
  /\ UNCHANGED compileVars

\* The result is popped; the stack below the frame is the caller's again.
op_return ==
  /\ At({"return"})
  /\ Holds(1)
  /\ phase' = "returned"
  /\ UNCHANGED <<fn_type, code, locals, scope_depth, loops, work, budget, declared, marks, stack, pc>>

-----------------------------------------------------------------------------
\* The frame of a call: the callee and the argument are its first slots.
Init ==
  /\ InitCompile
  /\ stack = [k \in DOMAIN locals |-> locals[k].id]
  /\ pc = 1

Run ==
  \/ panic \/ op_push \/ op_get_local \/ op_set_local \/ op_pop
  \/ op_jump_if_false \/ op_jump \/ op_loop \/ op_match
  \/ op_jump_if_neq \/ op_enum_member_match \/ op_enum_member_bind \/ op_return

Next ==
  \/ Compile /\ UNCHANGED <<stack, pc>>
  \/ Run

Spec == Init /\ [][Next]_vars

-----------------------------------------------------------------------------
(* Properties.                                                             *)

Ops ==
  {"push", "pop", "define_global", "get_local", "set_local", "set_global", "jump",
   "jump_if_false", "jump_if_neq", "loop", "break", "continue", "match",
   "enum_member_match", "enum_member_bind", "return"}

\* What the entries of the parser's stack stand for, and the statements marked.
Places ==
  {"declarations", "statement", "arm", "arms", "end_block", "end_then", "end_if", "end_while",
   "end_for", "end_arm", "end_default", "end_match", "expression", "var", "break", "continue",
   "return"}

Kinds ==
  {"expression", "var", "break", "continue", "return", "block", "if", "while", "for", "increment",
   "match"}

\* The chunk, the compiler and the machine have the form the source declares, and
\* every distance is one that an unsigned operand holds.
TypeOK ==
  /\ phase \in {"compile", "crashed", "run", "panicked", "returned"}
  /\ fn_type \in {"script", "fn"}
  /\ code \in Seq([op : Ops, arg : Nat, var : Nat, def : Nat])
  /\ locals \in Seq([name : Names \cup {""}, depth : Nat, id : Nat])
  /\ scope_depth \in Nat
  /\ loops \in Seq([start : Nat, end : Nat, depth : Nat])
  /\ work \in Seq([at : Places, first : Nat, before : Nat, start : Nat, exit : Nat, ends : SUBSET Nat])
  /\ budget \in Nat
  /\ declared \in Nat
  /\ marks \subseteq [kind : Kinds, first : Nat, end : Nat, before : Nat, after : Nat]
  /\ stack \in Seq(Nat)
  /\ pc \in Nat

\* The forms of statement whose code is balanced, and room for what they push: each
\* statement declares a local or opens a match, and no expression needs more than
\* two cells.
FormsBalance ==
  /\ Forms \cap {"unwinding", "no_increment", "arm_locals", "bindings", "unbound"} = {}
  /\ StatementsMax + 3 <= StackMax

\* Every statement leaves the stack as deep as it found it, on every path and in
\* every iteration, but for the local it declares; neither the compiler nor the
\* machine panics.  The slots of locals are right only because of this.
Balanced ==
  /\ phase \notin {"crashed", "panicked"}
  /\ phase = "run" =>
       \A m \in marks : /\ pc = m.first => Len(stack) = m.before
                        /\ pc = m.end => Len(stack) = m.after

\* An access to a local finds in its slot the variable that the name means at this
\* place of the text, and a pattern is compared with the value of its match.
SlotsAreRight ==
  phase = "run" =>
    /\ Fetched.op \in {"get_local", "set_local"} =>
         Fetched.arg \in DOMAIN stack /\ stack[Fetched.arg] = Fetched.var
    /\ Fetched.op = "jump_if_neq" => stack[Len(stack) - 1] = Fetched.var
    /\ Fetched.op = "enum_member_match" => stack[Len(stack) - 2] = Fetched.var

Inside(m, i) == m.first <= i /\ i < m.end

\* The loops a place of the code is in, and the innermost of them: of two that begin
\* at one place, the one that ends first.
LoopsAround(i) == {m \in marks : m.kind \in {"while", "for"} /\ Inside(m, i)}

Innermost(i) ==
  CHOOSE m \in LoopsAround(i) : \A n \in LoopsAround(i) : n.first <= m.first /\ m.end <= n.end

\* The machine stays within the chunk: a jump, patched or not, lands on one of its
\* instructions, and control never runs past the last one.
StaysInCode == phase = "run" => pc \in DOMAIN code

\* Where the next iteration of a loop begins: at its increment, if it has one.
Iterates(m, i) ==
  LET increments == {n \in marks : n.kind = "increment" /\ Innermost(n.first) = m}
  IN  IF increments = {} THEN i = m.first ELSE \E n \in increments : i = n.first

\* The machine is where such a statement of the text begins.
IsAt(kind) == \E m \in marks : m.kind = kind /\ m.first = pc

\* A statement is entered at its beginning and left at its end, except by break,
\* which goes to the end of the innermost loop (parser.c:1055), and by continue,
\* which goes to its next iteration.  A second break of a loop does not (the form
\* "later_break").
Structured ==
  [][phase = "run" =>
       /\ \A m \in marks :
            /\ Inside(m, pc) /\ ~ Inside(m, pc') => pc' = m.end \/ IsAt("break") \/ IsAt("continue")
            /\ ~ Inside(m, pc) /\ Inside(m, pc') => pc' = m.first
       /\ IsAt("break") => pc' = Innermost(pc).end
       /\ IsAt("continue") => Iterates(Innermost(pc), pc')]_pc
=============================================================================

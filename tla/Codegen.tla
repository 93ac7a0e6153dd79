------------------------------- MODULE Codegen -------------------------------
(***************************************************************************)
(* Code generation for statements: src/src/parser.c with the scopes and    *)
(* loops of src/src/compiler.c.                                            *)
(*                                                                         *)
(* The parser is a recursive descent that emits code on the way.  Its C    *)
(* stack is `work`: each entry is what a parse function does after the     *)
(* statement it has called returns, with the locals of that function.  The *)
(* source text is not given: at each point any statement the grammar       *)
(* allows may be next, up to StatementsMax.  Only texts without a compile  *)
(* error are considered, because the others are not run.                   *)
(*                                                                         *)
(* An instruction with its operands is one element of `code`.  An          *)
(* expression is an operand, or two with a jump around one of them; each   *)
(* operand leaves one value.                                               *)
(***************************************************************************)
EXTENDS Integers, Sequences, FiniteSets

CONSTANTS
  Names,          \* the identifiers of the text
  Forms,          \* the forms of statement it uses, a subset of AllForms
  StatementsMax   \* a bound on the statements, arms and bodies of a text

AllForms ==
  {"block", "if", "while", "loop", "for", "break", "continue", "match", "return",
   \* The forms for which the code emitted is not balanced or not structured:
   "later_break",     \* a loop with more than one break
   "unwinding",       \* a break or continue below locals or matches of its loop
   "no_increment",    \* a for without an increment
   "arm_locals",      \* a local declared inside a match
   "bindings",        \* an enum pattern that binds the value of its member
   "unbound"}         \* an enum pattern that leaves it without a name

ASSUME FormsAreKnown == Forms \subseteq AllForms
\* "" is the callee's name, and "none" stands for no variable.
ASSUME NamesAreIdentifiers == Names \subseteq STRING \ {"", "none"}
ASSUME StatementsAreBounded == StatementsMax \in Nat

VARIABLES
  phase,          \* compiling, running, or ended
  fn_type,        \* Compiler.fn_type, for the code of a script or of a function
  code,           \* the chunk
  locals,         \* Compiler.locals
  scope_depth,    \* Compiler.scope_depth
  loops,          \* Compiler.loop and the loops it encloses, innermost first
  work,           \* what the active parse functions have left to do
  budget,         \* how many statements the text may still have
  declared,       \* (ghost) how many variables and matched values there were
  marks           \* (ghost) the statements parsed: their code and stack depths

compileVars ==
  <<phase, fn_type, code, locals, scope_depth, loops, work, budget, declared, marks>>

-----------------------------------------------------------------------------
(* Instructions.  `arg` is a slot or a distance.  `var` and `def` are      *)
(* ghosts: the variable the instruction has to find in its slot, and the   *)
(* one whose value it pushes; 0 is none.                                   *)

Instruction(op, arg, var, def) == [op |-> op, arg |-> arg, var |-> var, def |-> def]

\* The index of the instruction that comes next, `chunk->count`.
Here(c) == Len(c) + 1

emit_byte(c, op) == Append(c, Instruction(op, 0, 0, 0))

\* The operand a jump has until patch_jump is called: 0xff, 0xff.
Placeholder == 65535

\* The jump is at Len of the result.
emit_jump(c, op) == Append(c, Instruction(op, Placeholder, 0, 0))

\* Mutant: the distance with the wrong sign.
PatchNegated(c, jump) == [c EXCEPT ![jump].arg = jump - Len(c)]

\* The jump goes to the instruction that comes next.
patch_jump(c, jump) == [c EXCEPT ![jump].arg = Len(c) - jump]

\* Mutant: the distance is measured before the instruction is emitted.
LoopFromOpcode(c, op, start) == Append(c, Instruction(op, Len(c) + 1 - start, 0, 0))

\* emit_loop and emit_continue.
emit_loop(c, op, start) == Append(c, Instruction(op, Len(c) + 2 - start, 0, 0))

\* The jumps of a set, all patched to here.
PatchAll(c, jumps) == [k \in DOMAIN c |-> IF k \in jumps THEN patch_jump(c, k)[k] ELSE c[k]]

\* The pops of end_scope: one for each local of the scope it leaves.
EmitPops(c, n) == c \o [k \in 1..n |-> Instruction("pop", 0, 0, 0)]

-----------------------------------------------------------------------------
(* Variables.                                                              *)

\* The slots of Compiler.locals with this name; the walk takes the last one.
SlotsOf(x) == {k \in DOMAIN locals : locals[k].name = x}

IsLocal(x) == SlotsOf(x) # {}

resolve_local(x) == CHOOSE k \in SlotsOf(x) : \A i \in SlotsOf(x) : i <= k

\* The access to a variable, where `local` says which instruction it is for a
\* local one.  Globals are looked up by name and touch no slot.
Access(c, x, local, global) ==
  IF IsLocal(x)
  THEN Append(c, Instruction(local, resolve_local(x), locals[resolve_local(x)].id, 0))
  ELSE emit_byte(c, global)

\* The ghost `def` of the instruction emitted last.
Defining(c, id) == [c EXCEPT ![Len(c)].def = id]

\* declare_variable: no other local of the scope has the name.
MayDeclare(x) == \A k \in SlotsOf(x) : locals[k].depth # scope_depth

\* add_local and mark_initialized.
add_local(x, id) == Append(locals, [name |-> x, depth |-> scope_depth, id |-> id])

\* How many locals end_scope pops when it returns to an outer depth.
Leaving == Cardinality({k \in DOMAIN locals : locals[k].depth >= scope_depth})

-----------------------------------------------------------------------------
(* Expressions: parse_expression on each form that jumps or has an effect  *)
(* on a slot.                                                              *)

Operand(c) == emit_byte(c, "push")

parse_and(c) ==
  LET test == emit_jump(Operand(c), "jump_if_false")
  IN  patch_jump(Operand(emit_byte(test, "pop")), Len(test))

parse_or(c) ==
  LET test == emit_jump(Operand(c), "jump_if_false")
      jump == emit_jump(test, "jump")
  IN  patch_jump(Operand(emit_byte(patch_jump(jump, Len(test)), "pop")), Len(jump))

parse_ternary(c) ==
  LET test == emit_jump(Operand(c), "jump_if_false")
      jump == emit_jump(Operand(emit_byte(test, "pop")), "jump")
  IN  patch_jump(Operand(emit_byte(patch_jump(jump, Len(test)), "pop")), Len(jump))

\* The expressions a text may have here, each of which leaves one value.  Those
\* with a jump count as two statements.
Expressions(c) ==
  {Operand(c)} \cup {Access(c, x, "get_local", "push") : x \in Names}
               \cup {Access(Operand(c), x, "set_local", "set_global") : x \in Names}

Branching(c) == {parse_and(c), parse_or(c), parse_ternary(c)}

\* The jump over what depends on the condition just evaluated.
Condition(c) == emit_byte(emit_jump(c, "jump_if_false"), "pop")

-----------------------------------------------------------------------------
(* The stack of the parser.                                                *)

Entry(at) == [at |-> at, first |-> 0, before |-> 0, start |-> 0, exit |-> 0, ends |-> {}]

Top == Head(work)

\* A match keeps its value on the stack until its end, and no local stands for it.
Matches == Cardinality({k \in DOMAIN work : work[k].at = "arms"})

\* How deep the stack is here, if every statement is balanced.
Depth == Len(locals) + Matches

\* The entry for the end of a compound statement that begins here.
Compound(at) == [Entry(at) EXCEPT !.first = Here(code), !.before = Depth]

\* What is left after the next statement: a list of declarations goes on, a
\* single statement is done.
Rest == IF Top.at = "declarations" THEN work ELSE Tail(work)

\* A statement begins.  Where one has to follow, the bound allows an expression.
Begin(places, form) ==
  /\ phase = "compile"
  /\ work # <<>>
  /\ Top.at \in places
  /\ budget = 0 => form = "expression" /\ Top.at # "declarations"

Spend(n) == budget' = budget - n

Anywhere == {"declarations", "statement"}

\* After an arrow, match tests for return, match, loop, "{" and expressions only.
OrArm == Anywhere \cup {"arm"}

Resume(at) == phase = "compile" /\ work # <<>> /\ Top.at = at

\* The statement that `entry` began is complete, with the code c.  A declaration
\* of a local leaves one value more than it found.
Mark(kind, entry, c, more) ==
  marks' = marks \cup {[kind |-> kind, first |-> entry.first, end |-> Here(c),
                        before |-> entry.before, after |-> entry.before + more]}

-----------------------------------------------------------------------------
(* Statements without a body.                                              *)

expr_statement ==
  /\ Begin(OrArm, "expression")
  /\ \/ budget = 0 /\ code' = emit_byte(Operand(code), "pop") /\ UNCHANGED budget
     \/ budget > 0 /\ \E e \in Expressions(code) : code' = emit_byte(e, "pop") /\ Spend(1)
     \/ budget > 1 /\ \E e \in Branching(code) : code' = emit_byte(e, "pop") /\ Spend(2)
  /\ work' = Rest
  /\ Mark("expression", Compound("expression"), code', 0)
  /\ UNCHANGED <<phase, fn_type, locals, scope_depth, loops, declared>>

\* In the global scope the variable is defined by name.
var_declaration ==
  /\ Begin({"declarations"}, "var")
  /\ Spend(1)
  /\ \E x \in Names :
       \/ /\ scope_depth = 0
          /\ code' = emit_byte(Operand(code), "define_global")
          /\ Mark("var", Compound("var"), code', 0)
          /\ UNCHANGED <<locals, declared>>
       \/ /\ scope_depth > 0
          /\ MayDeclare(x)
          /\ Matches = 0 \/ "arm_locals" \in Forms
          /\ declared' = declared + 1
          /\ code' = Defining(Operand(code), declared')
          /\ locals' = add_local(x, declared')
          /\ Mark("var", Compound("var"), code', 1)
  /\ work' = Rest
  /\ UNCHANGED <<phase, fn_type, scope_depth, loops>>

\* Only the first break of a loop emits a jump: its place is kept in Loop.end.
break_statement ==
  /\ "break" \in Forms
  /\ Begin(Anywhere, "break")
  /\ Spend(1)
  /\ loops # <<>>
  /\ Depth = Head(loops).depth \/ "unwinding" \in Forms
  /\ \/ /\ Head(loops).end = 0
        /\ code' = emit_jump(code, "break")
        /\ loops' = [loops EXCEPT ![1].end = Len(code')]
     \/ /\ Head(loops).end # 0
        /\ "later_break" \in Forms
        /\ UNCHANGED <<code, loops>>
  /\ work' = Rest
  /\ Mark("break", Compound("break"), code', 0)
  /\ UNCHANGED <<phase, fn_type, locals, scope_depth, declared>>

continue_statement ==
  /\ "continue" \in Forms
  /\ Begin(Anywhere, "continue")
  /\ Spend(1)
  /\ loops # <<>>
  /\ Depth = Head(loops).depth \/ "unwinding" \in Forms
  /\ code' = emit_loop(code, "continue", Head(loops).start)
  /\ work' = Rest
  /\ Mark("continue", Compound("continue"), code', 0)
  /\ UNCHANGED <<phase, fn_type, locals, scope_depth, loops, declared>>

\* A return without an expression emits op_return alone.
return_statement ==
  /\ "return" \in Forms
  /\ Begin(OrArm, "return")
  /\ Spend(1)
  /\ fn_type = "fn"
  /\ \E e \in {code, Operand(code)} : code' = emit_byte(e, "return")
  /\ work' = Rest
  /\ Mark("return", Compound("return"), code', 0)
  /\ UNCHANGED <<phase, fn_type, locals, scope_depth, loops, declared>>

-----------------------------------------------------------------------------
(* Blocks and scopes.                                                      *)

begin_scope == scope_depth' = scope_depth + 1

\* Mutant: the locals of the scope stay on the stack.
EndScopeWithoutPops(c) ==
  /\ scope_depth' = scope_depth - 1
  /\ code' = c
  /\ locals' = SubSeq(locals, 1, Len(locals) - Leaving)

\* Returns to the enclosing scope after the code c.
end_scope(c) ==
  /\ scope_depth' = scope_depth - 1
  /\ code' = EmitPops(c, Leaving)
  /\ locals' = SubSeq(locals, 1, Len(locals) - Leaving)

block_statement ==
  /\ "block" \in Forms
  /\ Begin(Anywhere, "block")
  /\ Spend(1)
  /\ begin_scope
  /\ work' = <<Entry("declarations"), Compound("end_block")>> \o Rest
  /\ UNCHANGED <<phase, fn_type, code, locals, loops, declared, marks>>

\* The block of an arm has the scope of the arm.
arm_block ==
  /\ "block" \in Forms
  /\ Begin({"arm"}, "block")
  /\ Spend(1)
  /\ work' = <<Entry("declarations")>> \o Rest
  /\ UNCHANGED <<phase, fn_type, code, locals, scope_depth, loops, declared, marks>>

\* The right brace, and the end of the text where parse_tokens calls.
end_declarations ==
  /\ Resume("declarations")
  /\ work' = Tail(work)
  /\ UNCHANGED <<phase, fn_type, code, locals, scope_depth, loops, budget, declared, marks>>

end_block ==
  /\ Resume("end_block")
  /\ end_scope(code)
  /\ work' = Tail(work)
  /\ Mark("block", Top, code', 0)
  /\ UNCHANGED <<phase, fn_type, loops, budget, declared>>

-----------------------------------------------------------------------------
(* Conditions.                                                             *)

if_statement ==
  /\ "if" \in Forms
  /\ Begin(Anywhere, "if")
  /\ Spend(1)
  /\ code' = Condition(Operand(code))
  /\ work' = <<Entry("statement"), [Compound("end_then") EXCEPT !.exit = Len(code') - 1]>> \o Rest
  /\ UNCHANGED <<phase, fn_type, locals, scope_depth, loops, declared, marks>>

\* With an else the second statement follows, without one nothing does.
end_then ==
  /\ Resume("end_then")
  /\ LET jump == emit_jump(code, "jump")
         then == emit_byte(patch_jump(jump, Top.exit), "pop")
         else == [Top EXCEPT !.at = "end_if", !.exit = Len(jump)]
     IN  /\ code' = then
         /\ \/ work' = <<Entry("statement"), else>> \o Tail(work)
            \/ work' = <<else>> \o Tail(work)
  /\ UNCHANGED <<phase, fn_type, locals, scope_depth, loops, budget, declared, marks>>

end_if ==
  /\ Resume("end_if")
  /\ code' = patch_jump(code, Top.exit)
  /\ work' = Tail(work)
  /\ Mark("if", Top, code', 0)
  /\ UNCHANGED <<phase, fn_type, locals, scope_depth, loops, budget, declared>>

-----------------------------------------------------------------------------
(* Loops.  `depth` and `from` (ghosts) are how deep the stack is where the *)
(* loop begins, and where the statement does.                              *)

begin_loop(start, depth) ==
  loops' = <<[start |-> start, end |-> 0, depth |-> depth]>> \o loops

\* Mutant: the break of the loop is not patched.
EndLoopUnpatched(c) ==
  /\ loops # <<>>
  /\ code' = c
  /\ loops' = Tail(loops)
  /\ UNCHANGED phase

\* `vm->compiler->loop` is used whether or not the statement has entered one.
\* A null pointer ends the compiler.
end_loop(c) ==
  \/ /\ loops = <<>>
     /\ phase' = "crashed"
     /\ UNCHANGED <<code, loops>>
  \/ /\ loops # <<>>
     /\ code' = IF Head(loops).end # 0 THEN patch_jump(c, Head(loops).end) ELSE c
     /\ loops' = Tail(loops)
     /\ UNCHANGED phase

while_statement ==
  /\ "while" \in Forms
  /\ Begin(Anywhere, "while")
  /\ Spend(1)
  /\ code' = Condition(Operand(code))
  /\ begin_loop(Here(code), Depth)
  /\ work' = <<Entry("statement"),
               [Compound("end_while") EXCEPT !.start = Here(code), !.exit = Len(code') - 1]>> \o Rest
  /\ UNCHANGED <<phase, fn_type, locals, scope_depth, declared, marks>>

\* Mutant: the condition is popped only where it holds.
RepeatWithoutPop(c, entry) ==
  LET again == emit_loop(c, "loop", entry.start)
  IN  IF entry.exit = 0 THEN again ELSE patch_jump(again, entry.exit)

\* The code after the body: the jump back, and the exit that pops the condition.
Repeat(c, entry) ==
  LET again == emit_loop(c, "loop", entry.start)
  IN  IF entry.exit = 0 THEN again ELSE emit_byte(patch_jump(again, entry.exit), "pop")

end_while ==
  /\ Resume("end_while")
  /\ end_loop(Repeat(code, Top))
  /\ work' = Tail(work)
  /\ Mark("while", Top, code', 0)
  /\ UNCHANGED <<fn_type, locals, scope_depth, budget, declared>>

loop_statement ==
  /\ "loop" \in Forms
  /\ Begin(OrArm, "loop")
  /\ Spend(1)
  /\ begin_loop(Here(code), Depth)
  /\ work' = <<Entry("statement"), [Compound("end_while") EXCEPT !.start = Here(code)]>> \o Rest
  /\ UNCHANGED <<phase, fn_type, code, locals, scope_depth, declared, marks>>

\* `for`, with or without a variable, a condition and an increment; an expression
\* instead of the variable is like an expression statement before the loop.  The
\* code of the increment comes before the body, with a jump over it; continue goes
\* there.
for_statement ==
  /\ "for" \in Forms
  /\ Begin(Anywhere, "for")
  /\ Spend(1)
  /\ begin_scope
  /\ \E var \in Names \cup {"none"}, condition \in BOOLEAN, increment \in BOOLEAN :
       LET init  == IF var = "none" THEN code ELSE Defining(Operand(code), declared')
           test  == IF condition THEN Condition(Operand(init)) ELSE init
           jump  == emit_jump(test, "jump")
           next  == emit_loop(emit_byte(Operand(jump), "pop"), "loop", Here(init))
           entry == [Entry("end_for") EXCEPT
                       !.first = Here(init),
                       !.before = Len(locals') + Matches,
                       !.start = IF increment THEN Here(jump) ELSE Here(init),
                       !.exit  = IF condition THEN Len(init) + 2 ELSE 0]
       IN  /\ var # "none" => Matches = 0 \/ "arm_locals" \in Forms
           /\ declared' = IF var = "none" THEN declared ELSE declared + 1
           /\ locals' = IF var = "none" THEN locals
                        ELSE Append(locals, [name |-> var, depth |-> scope_depth', id |-> declared'])
           /\ \/ /\ increment
                 /\ code' = patch_jump(next, Len(jump))
                 /\ begin_loop(Here(jump), entry.before)
                 /\ Mark("increment", [entry EXCEPT !.first = Here(jump)],
                         emit_byte(Operand(jump), "pop"), 0)
              \/ /\ ~increment
                 /\ "no_increment" \in Forms
                 /\ code' = test
                 /\ UNCHANGED <<loops, marks>>
           /\ work' = <<Entry("statement"), entry>> \o (<<Compound("end_block")>> \o Rest)
  /\ UNCHANGED <<phase, fn_type>>

\* The scope of the variable ends in the next step.
end_for ==
  /\ Resume("end_for")
  /\ end_loop(Repeat(code, Top))
  /\ work' = Tail(work)
  /\ Mark("for", Top, code', 0)
  /\ UNCHANGED <<fn_type, locals, scope_depth, budget, declared>>

-----------------------------------------------------------------------------
(* Matches.  An entry "arms" has the place of op_match in `start` and the  *)
(* jumps of the arms to the end in `ends`.                                 *)

match_statement ==
  /\ "match" \in Forms
  /\ Begin(OrArm, "match")
  /\ Spend(1)
  /\ begin_scope
  /\ declared' = declared + 1
  /\ code' = emit_jump(Defining(Operand(code), declared'), "match")
  /\ work' = <<[Compound("arms") EXCEPT !.start = Len(code')]>> \o Rest
  /\ UNCHANGED <<phase, fn_type, locals, loops, marks>>

\* The variable of the value a match is about.
Matched(entry) == code[entry.start - 1].def

\* The test of an arm pops the pattern and compares the value below it.  An enum
\* pattern is two values.
Pattern(enum) ==
  LET test == emit_jump(IF enum THEN Operand(Operand(code)) ELSE Operand(code),
                        IF enum THEN "enum_member_match" ELSE "jump_if_neq")
  IN  [test EXCEPT ![Len(test)].var = Matched(Top)]

match_member ==
  /\ Resume("arms")
  /\ budget > 0
  /\ Spend(1)
  /\ begin_scope
  /\ \E enum \in BOOLEAN :
       /\ code' = Pattern(enum)
       /\ work' = <<Entry("arm"), [Entry("end_arm") EXCEPT !.exit = Len(code')]>> \o work
  /\ UNCHANGED <<phase, fn_type, locals, loops, declared, marks>>

\* A pattern Enum::Member(x): the value of the member is pushed when it matches,
\* and copied to the slot of x.
match_member_bind ==
  /\ "bindings" \in Forms
  /\ Resume("arms")
  /\ budget > 0
  /\ Spend(1)
  /\ begin_scope
  /\ declared' = declared + 1
  /\ \E x \in Names :
       /\ locals' = Append(locals, [name |-> x, depth |-> scope_depth', id |-> declared'])
       /\ LET test == Pattern(TRUE)
          IN  /\ code' = Append([test EXCEPT ![Len(test)].def = declared'],
                                Instruction("enum_member_bind", Len(locals'), 0, declared'))
              /\ work' = <<Entry("arm"), [Entry("end_arm") EXCEPT !.exit = Len(test)]>> \o work
  /\ UNCHANGED <<phase, fn_type, loops, marks>>

match_default ==
  /\ Resume("arms")
  /\ begin_scope
  /\ work' = <<Entry("arm"), Entry("end_default")>> \o work
  /\ UNCHANGED <<phase, fn_type, code, locals, loops, budget, declared, marks>>

\* The jump to the end comes before the pops of the arm's scope.
end_arm ==
  /\ Resume("end_arm") \/ Resume("end_default")
  /\ LET jump == emit_jump(code, "jump")
     IN  /\ end_scope(IF Top.at = "end_arm" THEN patch_jump(jump, Top.exit) ELSE jump)
         /\ work' = <<[work[2] EXCEPT !.at = IF Top.at = "end_arm" THEN @ ELSE "end_match",
                                      !.ends = @ \cup {Len(jump)}]>>
                    \o SubSeq(work, 3, Len(work))
  /\ UNCHANGED <<phase, fn_type, loops, budget, declared, marks>>

\* Without a default one more jump goes to the end.  The value is popped there.
end_match ==
  /\ Resume("arms") \/ Resume("end_match")
  /\ LET jump == IF Top.at = "arms" THEN emit_jump(code, "jump") ELSE code
         last == IF Top.at = "arms" THEN {Len(jump)} ELSE {}
     IN  end_scope(emit_byte(PatchAll(jump, Top.ends \cup last \cup {Top.start}), "pop"))
  /\ work' = Tail(work)
  /\ Mark("match", Top, code', 0)
  /\ UNCHANGED <<phase, fn_type, loops, budget, declared>>

-----------------------------------------------------------------------------
(* A text.                                                                 *)

\* A function has one parameter or none; slot 0 is the callee.
Callee == [name |-> "", depth |-> 0, id |-> 0]

InitCompile ==
  /\ phase = "compile"
  /\ code = <<>>
  /\ loops = <<>>
  /\ work = <<Entry("declarations")>>
  /\ budget = StatementsMax
  /\ marks = {}
  /\ \/ fn_type = "script" /\ scope_depth = 0 /\ declared = 0 /\ locals = <<Callee>>
     \/ fn_type = "fn" /\ scope_depth = 1 /\ declared = 0 /\ locals = <<Callee>>
     \/ /\ fn_type = "fn" /\ scope_depth = 1 /\ declared = 1
        /\ \E x \in Names : locals = <<Callee, [name |-> x, depth |-> 1, id |-> 1]>>

\* emit_return, and the end of the compiler with what it knew.
end_compile ==
  /\ phase = "compile"
  /\ work = <<>>
  /\ code' = emit_byte(code, "return")
  /\ phase' = "run"
  /\ locals' = <<>>
  /\ scope_depth' = 0
  /\ budget' = 0
  /\ declared' = 0
  /\ UNCHANGED <<fn_type, loops, work, marks>>

Compile ==
  \/ expr_statement \/ var_declaration \/ return_statement
  \/ break_statement \/ continue_statement
  \/ block_statement \/ arm_block \/ end_declarations \/ end_block
  \/ if_statement \/ end_then \/ end_if
  \/ while_statement \/ end_while \/ loop_statement \/ for_statement \/ end_for
  \/ match_statement \/ match_member \/ match_member_bind \/ match_default \/ end_arm \/ end_match
  \/ end_compile
=============================================================================

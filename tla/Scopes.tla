------------------------------- MODULE Scopes -------------------------------
(***************************************************************************)
(* How the single pass of parser.c finds what a name stands for: the chain *)
(* of compilers, one for each function being compiled, their locals and    *)
(* upvalues, and the chain of class compilers.  An action is what the      *)
(* parser does between two recursive calls of itself; work is its call     *)
(* stack.  The text is any sequence of the forms below; statements and     *)
(* expressions show here only by the scopes they open and the names they   *)
(* read, and the code they emit is the subject of Codegen.                 *)
(*                                                                         *)
(* Three forms are left out of the text, since the slots of the locals     *)
(* after them are wrong, or the super: a class or struct as a member of a  *)
(* class that has a superclass or stands in a local scope, a class with a  *)
(* superclass inside another such class, and a struct with a super struct. *)
(*                                                                         *)
(* scopes and captures follow the text and not the compilers: the          *)
(* declarations each lexical scope holds, and those that a function inside *)
(* reads.  stack is what the code emitted so far has pushed.               *)
(***************************************************************************)
EXTENDS Integers, Sequences, FiniteSets, SequencesExt

CONSTANTS
  Names,            \* the identifiers of the text
  LocalsMax,        \* uint8_count: locals of one function, slot 0 included
  UpvaluesMax,      \* upvalue_index_count: upvalues of one function
  IndexRange,       \* an upvalue's index has 7 bits: 128
  ArgumentsMax,     \* argument_count_max
  DeclarationsMax,  \* bound: declarations in the text
  NestingMax        \* bound: constructs open at once

ASSUME LimitsArePositive == {LocalsMax, UpvaluesMax, IndexRange} \subseteq Nat \ {0}
ASSUME NamesAreIdentifiers == Names \cap {"", "self", "super"} = {}

VARIABLES
  compilers,   \* from the script's to vm->compiler, each enclosed by the one before
  classes,     \* has_superclass of each class being compiled
  work,        \* the constructs the parser is in
  outcome,     \* compile(): "compiling", "failed" or "compiled"
  scopes,      \* for each open lexical scope, its function and its names
  captures,    \* declarations that an inner function reads
  declared     \* declarations so far

scopesVars == <<compilers, classes, work, outcome, scopes, captures, declared>>

Fresh == <<"declaration", declared + 1>>
Global == <<"global", 0>>
Temporary == <<"temporary", 0>>

Curr == Len(compilers)
Compiler == compilers[Curr]

init_compiler(fn_type, k) ==
  [fn_type |-> fn_type,
   locals |-> <<[name |-> IF fn_type = "method" THEN "self" ELSE "", depth |-> 0,
                 is_captured |-> FALSE, id |-> <<"callee", k>>]>>,
   scope_depth |-> 0, upvalues |-> <<>>, arity |-> 0, stack |-> <<<<"callee", k>>>>]

ScopesInit ==
  /\ compilers = <<init_compiler("script", 1)>>
  /\ classes = <<>> /\ work = <<>> /\ outcome = "compiling"
  /\ scopes = <<>> /\ captures = {} /\ declared = 0

(***************************************************************************)
(* Locals                                                                  *)
(***************************************************************************)
\* Mutant: the first local of a name is found, not the last.
ResolveFirst(compiler, name) ==
  SelectInSeq(compiler.locals, LAMBDA local : local.name = name)

(* The last local of this name, or 0                                       *)
resolve_local(compiler, name) ==
  SelectLastInSeq(compiler.locals, LAMBDA local : local.name = name)

(* The locals of the innermost scope, those not yet initialized included   *)
InScope(compiler) ==
  {i \in DOMAIN compiler.locals :
     \A j \in i..Len(compiler.locals) :
       compiler.locals[j].depth = -1 \/ compiler.locals[j].depth >= compiler.scope_depth}

add_local(compiler, name, id) ==
  [compiler EXCEPT !.locals =
     Append(@, [name |-> name, depth |-> -1, is_captured |-> FALSE, id |-> id])]

declare_variable(compiler, name, id) ==
  IF compiler.scope_depth = 0 THEN compiler ELSE add_local(compiler, name, id)

(* parse_error in declare_variable or add_local                            *)
Undeclarable(compiler, name) ==
  /\ compiler.scope_depth > 0
  /\ \/ \E i \in InScope(compiler) : compiler.locals[i].name = name
     \/ Len(compiler.locals) = LocalsMax

mark_initialized(compiler) ==
  IF compiler.scope_depth = 0 THEN compiler
  ELSE [compiler EXCEPT !.locals[Len(compiler.locals)].depth = compiler.scope_depth]

(* The value on top becomes the local, or op_define_global takes it        *)
define_variable(compiler) ==
  IF compiler.scope_depth = 0 THEN compiler
  ELSE [mark_initialized(compiler) EXCEPT !.stack = Append(@, Last(compiler.locals).id)]

(* compile_begin_scope, and compile_end_scope with the locals in place     *)
Deeper(compiler) == [compiler EXCEPT !.scope_depth = @ + 1]
Shallower(compiler) == [compiler EXCEPT !.scope_depth = @ - 1]

\* Mutant: a local captured by a function is left on the stack.
PoppedUncaptured(locals) == Len(SelectSeq(locals, LAMBDA local : ~local.is_captured))

(* op_pop or op_close_upvalue, one for each                                *)
Popped(locals) == Len(locals)

end_scope(compiler) ==
  LET kept == SelectLastInSeq(compiler.locals, LAMBDA local : local.depth < compiler.scope_depth)
      left == SubSeq(compiler.locals, kept + 1, Len(compiler.locals))
  IN  [Shallower(compiler) EXCEPT !.locals = SubSeq(@, 1, kept),
                                  !.stack = SubSeq(@, 1, Len(@) - Popped(left))]

(***************************************************************************)
(* Upvalues, in a chain of compilers                                       *)
(***************************************************************************)
new_upvalue_info(index, is_local) ==
  [index |-> 1 + ((index - 1) % IndexRange), is_local |-> is_local]

\* Mutant: an index alone tells two upvalues apart.
SameIndex(upvalue, info) == upvalue.index = info.index

SameUpvalue(upvalue, info) == upvalue = info

(* The compiler with the upvalue, and its index; 0 where none is left      *)
add_upvalue(compiler, info) ==
  LET at == SelectInSeq(compiler.upvalues, LAMBDA upvalue : SameUpvalue(upvalue, info))
  IN  CASE Len(compiler.upvalues) = UpvaluesMax -> [compiler |-> compiler, index |-> 0]
        [] Len(compiler.upvalues) < UpvaluesMax /\ at # 0 -> [compiler |-> compiler, index |-> at]
        [] OTHER -> [compiler |-> [compiler EXCEPT !.upvalues = Append(@, info)],
                     index |-> Len(compiler.upvalues) + 1]

(* The innermost compiler that has a local of this name, or 0              *)
Owner(chain, name) == SelectLastInSeq(chain, LAMBDA compiler : resolve_local(compiler, name) # 0)

\* Mutant: only the local of the next enclosing function is marked.
MarkedIfNear(chain, owner, local) ==
  [chain EXCEPT ![owner].locals[local].is_captured = @ \/ owner = Len(chain) - 1]

Marked(chain, owner, local) == [chain EXCEPT ![owner].locals[local].is_captured = TRUE]

(* The chain in which each function between the owner and the reader has   *)
(* its upvalue and the local is marked, and the reader's index             *)
resolve_upvalue(chain, name) ==
  LET owner == Owner(chain, name)
      local == resolve_local(chain[owner], name)
      reached[k \in owner..Len(chain)] ==
        IF k = owner THEN [chain |-> Marked(chain, owner, local), index |-> local]
        ELSE LET info == new_upvalue_info(reached[k - 1].index, k = owner + 1)
                 added == add_upvalue(chain[k], info)
             IN  [chain |-> [reached[k - 1].chain EXCEPT ![k] = added.compiler],
                  index |-> added.index]
  IN  reached[Len(chain)]

(* parse_named_variable: what its search changes, and when it reports      *)
Searched(chain, name) ==
  IF Owner(chain, name) \in {0, Len(chain)} THEN chain ELSE resolve_upvalue(chain, name).chain

Unreadable(chain, name) ==
  LET owner == Owner(chain, name)
  IN  /\ owner # 0
      /\ \/ chain[owner].locals[resolve_local(chain[owner], name)].depth = -1
         \/ \E k \in owner + 1..Len(chain) : Len(chain[k].upvalues) = UpvaluesMax

(***************************************************************************)
(* The text's own view                                                     *)
(***************************************************************************)
Scope(k, names) == [fn |-> k, names |-> names]
EmptyScope == [n \in {} |-> Global]

Bind(name, id) ==
  [scopes EXCEPT ![Len(scopes)].names =
     [n \in DOMAIN @ \cup {name} |-> IF n = name THEN id ELSE @[n]]]

(* The innermost scope that declares the name, or 0                        *)
Home(name) == SelectLastInSeq(scopes, LAMBDA scope : name \in DOMAIN scope.names)

Lexical(name) == IF Home(name) = 0 THEN Global ELSE scopes[Home(name)].names[name]

(* The declarations of outer functions among those the names stand for     *)
Captured(names) ==
  {Lexical(n) : n \in {m \in names : Home(m) # 0 /\ scopes[Home(m)].fn # Curr}}

CloseScope ==
  /\ scopes' = Front(scopes)
  /\ captures' = captures \ Range(Last(scopes).names)

(***************************************************************************)
(* The actions                                                             *)
(***************************************************************************)
Declarations == {"script", "block", "fn", "method", "lambda"}
Readers == Declarations \cup {"var", "enum"}

In(forms) ==
  /\ outcome = "compiling"
  /\ IF work = <<>> THEN "script" \in forms ELSE Last(work) \in forms

Enter(forms) == work' = work \o forms /\ Len(work') <= NestingMax
Leave == work' = Front(work)
Become(compiler) == compilers' = [compilers EXCEPT ![Curr] = compiler]

(* The parser goes on only to report further errors: compile answers NULL  *)
(* and nothing of the code is run                                          *)
parse_error ==
  /\ outcome' = "failed"
  /\ UNCHANGED <<compilers, classes, work, scopes, captures, declared>>

(* The next declaration has this name, in the innermost scope of the text  *)
Declares(name) ==
  /\ declared < DeclarationsMax /\ declared' = declared + 1
  /\ scopes' = IF Compiler.scope_depth = 0 THEN scopes ELSE Bind(name, Fresh)

begin_block ==
  /\ In(Declarations) /\ Enter(<<"block">>) /\ Become(Deeper(Compiler))
  /\ scopes' = Append(scopes, Scope(Curr, EmptyScope))
  /\ UNCHANGED <<classes, outcome, captures, declared>>

end_block ==
  /\ In({"block"}) /\ Leave /\ Become(end_scope(Compiler)) /\ CloseScope
  /\ UNCHANGED <<classes, outcome, declared>>

(* A name in an expression; super.m reads self, then the local super       *)
Reads(names) ==
  /\ captures' = captures \cup Captured(names)
  /\ UNCHANGED <<classes, work, outcome, scopes, declared>>

parse_identifier(name) ==
  /\ In(Readers)
  /\ IF Unreadable(compilers, name) THEN parse_error
     ELSE compilers' = Searched(compilers, name) /\ Reads({name})

parse_self ==
  /\ In(Readers)
  /\ IF classes = <<>> \/ Unreadable(compilers, "self") THEN parse_error
     ELSE compilers' = Searched(compilers, "self") /\ Reads({"self"})

parse_super ==
  LET chain == Searched(compilers, "self")
  IN  /\ In(Readers)
      /\ IF classes = <<>> \/ ~Last(classes) \/ Unreadable(compilers, "self")
              \/ Unreadable(chain, "super")
           THEN parse_error
           ELSE compilers' = Searched(chain, "super") /\ Reads({"self", "super"})

(* var name = ...: the initializer is read before the name is defined      *)
begin_var(name) ==
  /\ In(Declarations)
  /\ IF Undeclarable(Compiler, name) THEN parse_error
     ELSE /\ Enter(<<"var">>) /\ Declares(name)
          /\ Become(declare_variable(Compiler, name, Fresh))
          /\ UNCHANGED <<classes, outcome, captures>>

end_var ==
  /\ In({"var"}) /\ Leave /\ Become(define_variable(Compiler))
  /\ UNCHANGED <<classes, outcome, scopes, captures, declared>>

(* A function's own compiler and scope, with the enclosing chain as given  *)
curr_into_sub_compiler(chain, fn_type) ==
  compilers' = Append(chain, Deeper(init_compiler(fn_type, Curr + 1)))

SubScope(outer, fn_type) ==
  scopes' = Append(outer, Scope(Curr + 1, IF fn_type = "method"
                                            THEN [n \in {"self"} |-> <<"callee", Curr + 1>>]
                                            ELSE EmptyScope))

begin_fn(name) ==
  LET named == mark_initialized(declare_variable(Compiler, name, Fresh))
  IN  /\ In(Declarations)
      /\ IF Undeclarable(Compiler, name) THEN parse_error
         ELSE /\ Enter(<<"fn", "params">>)
              /\ declared < DeclarationsMax /\ declared' = declared + 1
              /\ curr_into_sub_compiler([compilers EXCEPT ![Curr] = named], "fn")
              /\ SubScope(IF Compiler.scope_depth = 0 THEN scopes ELSE Bind(name, Fresh), "fn")
              /\ UNCHANGED <<classes, outcome, captures>>

(* A lambda may stand wherever a name may be read                          *)
begin_unnamed(fn_type) ==
  /\ In(IF fn_type = "method" THEN {"class"} ELSE Readers \ {"enum"})
  /\ Enter(<<fn_type, "params">>)
  /\ curr_into_sub_compiler(compilers, fn_type) /\ SubScope(scopes, fn_type)
  /\ UNCHANGED <<classes, outcome, captures, declared>>

parameter(name) ==
  /\ In({"params"})
  /\ IF Compiler.arity = ArgumentsMax \/ Undeclarable(Compiler, name) THEN parse_error
     ELSE /\ Become([define_variable(declare_variable(Compiler, name, Fresh)) EXCEPT !.arity = @ + 1])
          /\ Declares(name)
          /\ UNCHANGED <<classes, work, outcome, captures>>

begin_body ==
  /\ In({"params"}) /\ Leave
  /\ UNCHANGED <<compilers, classes, outcome, scopes, captures, declared>>

(* The closure is the value of a new local, of a method or of a lambda     *)
curr_from_sub_compiler ==
  /\ In({"fn", "method", "lambda"}) /\ Leave
  /\ compilers' = IF Last(work) = "fn"
                    THEN [Front(compilers) EXCEPT ![Curr - 1] = define_variable(@)]
                    ELSE Front(compilers)
  /\ CloseScope
  /\ UNCHANGED <<classes, outcome, declared>>

(* Where a class, or a struct, may be declared                             *)
MayDeclareType ==
  \/ In(Declarations)
  \/ In({"class"}) /\ Compiler.scope_depth = 0

(* The name is defined at once, with the empty type as its value           *)
TypeDeclared(name) == define_variable(declare_variable(Compiler, name, Fresh))

WithTemporary(compiler) == [compiler EXCEPT !.stack = Append(@, Temporary)]
WithoutTemporary(compiler) == [compiler EXCEPT !.stack = Front(@)]

class_declaration(name) ==
  /\ MayDeclareType
  /\ IF Undeclarable(Compiler, name) THEN parse_error
     ELSE /\ Enter(<<"class">>) /\ Declares(name)
          /\ Become(WithTemporary(TypeDeclared(name)))
          /\ classes' = Append(classes, FALSE)
          /\ UNCHANGED <<outcome, captures>>

(* class name : super.  The superclass stays on the stack as a local; the  *)
(* class on top of it takes the methods                                    *)
subclass_declaration(name, super) ==
  LET typed == [compilers EXCEPT ![Curr] = TypeDeclared(name)]
      super_id == <<"declaration", declared + 2>>
      named == IF Compiler.scope_depth = 0 THEN scopes ELSE Bind(name, Fresh)
      chain == Searched(typed, super)
      scoped == define_variable(add_local(Deeper(chain[Curr]), "super", super_id))
  IN  /\ In(Declarations) /\ Home("super") = 0
      /\ IF \/ Undeclarable(Compiler, name) \/ name = super \/ Unreadable(typed, super)
            \/ Len(typed[Curr].locals) = LocalsMax
           THEN parse_error
           ELSE /\ Enter(<<"class">>)
                /\ declared + 1 < DeclarationsMax /\ declared' = declared + 2
                /\ compilers' = [chain EXCEPT ![Curr] = WithTemporary(scoped)]
                /\ classes' = Append(classes, TRUE)
                /\ captures' = captures \cup Captured({super})
                /\ scopes' = Append(named, Scope(Curr, [n \in {"super"} |-> super_id]))
                /\ UNCHANGED outcome

(* The scope of super ends without end_scope: the local stays, and the     *)
(* superclass with it, until a block that encloses the class ends          *)
end_class ==
  /\ In({"class"}) /\ Leave /\ classes' = Front(classes)
  /\ IF Last(classes)
       THEN Become(Shallower(WithoutTemporary(Compiler))) /\ scopes' = Front(scopes)
       ELSE Become(WithoutTemporary(Compiler)) /\ UNCHANGED scopes
  /\ UNCHANGED <<outcome, captures, declared>>

struct_declaration(name) ==
  /\ MayDeclareType
  /\ IF Undeclarable(Compiler, name) THEN parse_error
     ELSE /\ Declares(name) /\ Become(TypeDeclared(name))
          /\ UNCHANGED <<classes, work, outcome, captures>>

enum_declaration(name) ==
  /\ In(Declarations)
  /\ IF Undeclarable(Compiler, name) THEN parse_error
     ELSE /\ Enter(<<"enum">>) /\ Declares(name)
          /\ Become(WithTemporary(TypeDeclared(name)))
          /\ UNCHANGED <<classes, outcome, captures>>

end_enum ==
  /\ In({"enum"}) /\ Leave /\ Become(WithoutTemporary(Compiler))
  /\ UNCHANGED <<classes, outcome, scopes, captures, declared>>

parse_tokens ==
  /\ In({"script"}) /\ work = <<>> /\ outcome' = "compiled"
  /\ UNCHANGED <<compilers, classes, work, scopes, captures, declared>>

ScopesNext ==
  \/ begin_block \/ end_block \/ parse_self \/ parse_super \/ end_var \/ begin_body
  \/ curr_from_sub_compiler \/ end_class \/ end_enum \/ parse_tokens
  \/ \E fn_type \in {"method", "lambda"} : begin_unnamed(fn_type)
  \/ \E name \in Names :
       \/ parse_identifier(name) \/ begin_var(name) \/ begin_fn(name) \/ parameter(name)
       \/ class_declaration(name) \/ struct_declaration(name) \/ enum_declaration(name)
       \/ \E super \in Names : subclass_declaration(name, super)
  \/ outcome # "compiling" /\ UNCHANGED scopesVars

ScopesSpec == ScopesInit /\ [][ScopesNext]_scopesVars

(***************************************************************************)
(* Properties                                                              *)
(***************************************************************************)
(* The local that an upvalue leads to, through the functions in between    *)
Source(chain, index) ==
  LET at[k \in 1..Len(chain)] ==   \* the index in compiler k on the way
        IF k = Len(chain) THEN [upvalue |-> TRUE, index |-> index]
        ELSE IF ~at[k + 1].upvalue THEN at[k + 1]
        ELSE LET info == chain[k + 1].upvalues[at[k + 1].index]
             IN  [upvalue |-> ~info.is_local, index |-> info.index, owner |-> k]
  IN  chain[at[1].owner].locals[at[1].index].id

(* What the compiler makes of a name                                       *)
Resolved(name) ==
  LET owner == Owner(compilers, name)
      found == resolve_upvalue(compilers, name)
  IN  CASE owner = 0    -> Global
        [] owner = Curr -> Compiler.locals[resolve_local(Compiler, name)].id
        [] OTHER        -> Source(found.chain, found.index)

(* The names that may be read here                                         *)
Readable ==
  {n \in Names \cup (IF classes = <<>> THEN {} ELSE {"self"})
              \cup (IF classes # <<>> /\ Last(classes) THEN {"super"} ELSE {}) :
     ~Unreadable(compilers, n)}

(* Wherever the text may read a name, the compiler finds the innermost     *)
(* declaration of it, through however many functions.                      *)
NamesResolveLexically == \A n \in Readable : Resolved(n) = Lexical(n)

(* The classes and enums of the innermost function whose body is open      *)
OpenTypes ==
  LET bodies == SelectLastInSeq(work, LAMBDA form : form \in {"fn", "method", "lambda"})
  IN  Cardinality({i \in bodies + 1..Len(work) : work[i] \in {"class", "enum"}})

(* The value of each local is where the code will look for it, whatever    *)
(* types, functions and blocks were declared around it.                    *)
SlotsHoldLocals ==
  \A k \in DOMAIN compilers :
    LET compiler == compilers[k]
    IN  /\ \A i \in DOMAIN compiler.locals :
             IF i <= Len(compiler.stack) THEN compiler.stack[i] = compiler.locals[i].id
             ELSE i = Len(compiler.locals) /\ (k < Curr \/ compiler.locals[i].depth = -1)
        /\ k = Curr => Len(compiler.stack) <= Len(compiler.locals) + OpenTypes

(* A local is closed at the end of its scope if and only if a function     *)
(* inside reads it, and no function keeps two upvalues of one variable.    *)
SharedAreClosed ==
  \A k \in DOMAIN compilers :
    /\ \A i \in DOMAIN compilers[k].locals :
         compilers[k].locals[i].is_captured <=> compilers[k].locals[i].id \in captures
    /\ IsInjective(compilers[k].upvalues)
=============================================================================

# A verification of the Joker compiler and virtual machine

Joker is a small dynamic language: a C program scans a source text, compiles it
in one pass to bytecode and runs it on a stack machine with closures, classes,
structs, enums, pattern matching and a mark-sweep collector. This directory
models its runtime in TLA+: the modules are translated from the C sources, TLC
checks them on small instances, and TLAPS proves their main properties for all
values of the constants.

## The system

| Component | State | Operations | Interacts with |
|---|---|---|---|
| Scanner, token list (`scanner.c`, `token.c`) | source cursor, line, linked tokens | scan a token, skip blanks and comments, append, hand over to the VM's list | parser |
| Parser, code generation (`parser.c`) | current token, error flags, panic mode | one function per syntax rule, emit and patch jumps, scopes | compiler state, chunk |
| Compiler state (`compiler.c`, `class_compiler.c`) | chain of compilers: locals, upvalues, loop, scope depth | begin/end loop and scope, resolve local and upvalue | parser, GC roots |
| Chunk (`chunk.c`) | code, run-length lines, constants | write byte, write constant, line of an offset | parser, VM |
| Virtual machine (`vm.c`) | value stack, frames, globals, types, open upvalues | one handler per instruction, `call_value`, `invoke`, `runtime_error` | all runtime parts |
| Upvalues, closures (`upvalue.c`, `closure.c`) | list of upvalues, each pointing to a slot or to itself | capture, close | VM stack, GC |
| Garbage collector (`gc.c`, `memory.c`, `object.c`) | list of objects, marks, gray stack, byte counts | mark roots, trace, forget white strings, sweep | runs inside `reallocate`, at any allocation |
| Interned strings (`string.c`) | `vm->strings` | new, concatenate | hash table, GC |
| Hash table (`hashmap.c`) | entries, capacity, count | set, get, remove, entry, keys, resize | globals, fields, methods, types, strings |
| Vec, runtime objects (`vec.c`, `struct_.c`, `class.c`, `enum.c`, ...) | fields and elements | constructors, push, get | GC |
| Type registry (`type_register.c`, `type.c`) | `vm->types` | register, find | VM, GC |
| Allocator (`allocator.c`) | parts of equal blocks, free lists | allocate, reallocate, free | optional backend of `reallocate` |
| Object pool (`pool.c`) | two lock-free lists, a cache per thread, counters | single and batched alloc and free, flush, destroy | its tests only |
| Entry, REPL, console (`repl.c`, `console.c`) | | read, interpret, exit status | VM |
| Values and operators (`vm.c`, `value.h`) | | coercion, arithmetic, comparison | VM |
| Natives, debug output | | clock, printing | VM |

The language runtime is sequential, but not simple: a collection interrupts an
operation at every allocation, and what an operation holds in a C local is
unknown to it; a return in one function closes variables captured in another;
a table is probed while it is being resized. The pool is concurrent, with weak
memory primitives and no lock. `PROJECT.json` lists these hazards at their lines.

What makes each part correct:

- hash table: it answers as a map, every probe ends, its counts are true;
- collector: it frees what it does not trace, and traces what the program reads but
  for the names of structs and open upvalues (a defect, see Findings); equal
  strings stay one object;
- upvalues: a captured variable is one variable for all who share it, as long
  as it is in scope and after (but for a captured `self`, see Findings);
- pool: an object is in one place; a destroyed pool has all its objects;
- code generation: the code of a statement leaves the stack as deep as it found
  it on every path, and a jump lands on an instruction;
- virtual machine: the stack has the height the compiled code counts on, in every
  frame; `self` is the receiver; an error ends the execution with its result;
- scanner: tokens are the longest ones, nothing of the text is lost, lines are
  true, and the scan ends;
- scopes: a name means its innermost declaration, through any number of
  functions, and a local that is shared is closed;
- vectors and allocator: each vector is the sequence its own operations made,
  and each block has one holder.

## Modules

| Module | What it is |
|---|---|
| `Dictionary` | abstract: a partial function and the answers of the table's operations |
| `HashMap` | `hashmap.c`; implements `Dictionary` |
| `ContainerProofs` | the table: its invariants and its refinement; the vectors: theirs |
| `Gc` | `gc.c` under the allocating operations of `string.c`, `struct_.c`, `closure.c`, `upvalue.c`, `vm.c` |
| `Upvalues` | `upvalue.c` under the instructions that move the stack |
| `UpvaluesProofs` | sharing in scope, what a return closes and what it does not |
| `ObjectPool` | abstract: two stacks of free objects, atomic alloc and free |
| `Pool` | `pool.c`, one access to shared memory per step; implements `ObjectPool` |
| `MemoryProofs` | the pool: its invariants and its refinement, for any number of threads; the collector: what a collection frees and what it keeps, interning |
| `Codegen` | the statements of `parser.c` and the code they emit, with the scopes and loops of `compiler.c` |
| `StackMachine` | that code, run by the handlers of `vm.c` in one frame |
| `StackMachineProofs` | control stays in the code and the state in its form, for every text |
| `BalanceProofs` | balance and slots, for the forms that are balanced |
| `Scanner` | `scanner.c`, the loop of `scan_tokens` with every class of token |
| `Scopes` | the chain of compilers and class compilers: declarations and the resolution of names |
| `ScopesFrames` | what a step of the parser does to the chain of compilers, for any program: lemmas |
| `FrontEndProofs` | slots and closing of locals, for every program; the scanner: nothing of a source is lost, tokens are the longest, and lines are right, for every source |
| `Operators` | the kinds the operators of `vm.c` answer for operands of given kinds |
| `Machine` | `interpret` and the loop `run` of `vm.c`: every instruction, calls, frames, errors |
| `MachineProofs` | heights, receivers and initializers, for any code the parser may emit |
| `Allocator` | `allocator.c`, as operators from a heap to a heap |
| `Lists` | abstract: vectors are sequences |
| `Vec` | `vec.c`, the methods of the script's Vec and the array of constants, over `Allocator`; implements `Lists` |
| `MC*` | instances for TLC |

Definitions that model a C function have its name. A comment starting with
"Mutant" marks a definition that a plausible bug would produce; it is used by
no specification and serves to show that the property named with it in
`PROJECT.json` can fail.

### HashMap

`entries`, `capacity` and `count` are the fields of the struct. `hashmap_set`
and `hashmap_get_entry` may resize: they are a call (`Call`), one step per slot
that `adjust_capacity` copies (`CopyEntry`), the exchange of the arrays
(`SwapEntries`) and the final insertion or lookup. A probe is not a loop of
steps but its result: `StopOf` is the first slot from the home position at
which the loop returns, `Passed` the tombstones it saw. The mask is written as
a remainder; the two agree for powers of two, and nothing else is assumed of
the minimal capacity but that it is at least 2. Keys are interned strings and
are compared by identity; `hashmap_find_key` compares by content, which for
interned strings is the same.

The refinement maps the table to the function its live entries stand for. A
resize is a stutter, an operation takes effect in the step that returns.

### Gc

`heap` is what is allocated and `objects` the list the sweep walks; they differ
only where the program itself frees a listed object (`concat_string`). A
collection runs inside `reallocate`. An operation is therefore split at its
allocations and nowhere else: `op` says which allocation comes next and what
the operation holds in a C local (`self`). A collection may run before each
one, in its own four phases; there is no byte count, so it may run or not.
`open` is the list of open upvalues as a function from slots. Assignment to a
property (`op_set_property`, `set_property`) replaces a field, and `op_get_local`, `op_get_global` and
`op_get_property` read a value again, so structs can refer to each other in cycles. A call of a struct
pops each argument before the table of fields may grow (`vm.c:581`): it is then in
`op.value`, off the stack. `define_member` has two allocations, of the name and of the
field.

A struct's vector of names is an object of its own (`names`). `blacken_object` reads its
elements and does not mark the vector itself, as the code (`gc.c:203`). `Traced` is what
marking leads to from the stack and the globals; `Unmarked` is what the program
reads beyond that, the vectors of names of traced structs and the upvalues of the open
list. `FreedEarlyIsUnmarked` says that of all this a collection frees only objects of
`Unmarked`: the defect is not assumed away, and nothing else shares it.
`NothingFloats` says that what was not traced is freed.

Reading freed memory has no defined outcome, nor has reading it as an upvalue or a vector when
it has been given to an object of another type (`IsA`). A step that would do so is not
enabled, and the properties say what holds up to there. What only a C local holds is
not in `Traced`; the violation `gc_held` shows that it is freed.

### Upvalues

`stack` keeps the values above `top`, as the memory does. `open` is the list
from `open_upv_ptr`; a closed upvalue stays in it, because `close_upvalues` does
not unlink what it closes. Its location is then an address on the heap, which
the walks compare with addresses on the stack: `heapAbove` says how that
comparison comes out, and both cases are explored. `captured` is a history
variable: the captured variables that are still in scope, with the upvalue each
capture returned. `ReturnClosesAllButSelf` says both what a return does for captured locals and what
it fails to do for slot 0: `close_upvalues` compares strictly, so the upvalue of a captured `self`
stays open and its slot takes the result. The compiler's scopes appear as guards: a temporary or a local
nobody captured is popped, a captured one is closed at the end of its block,
and the arguments of a call are temporaries.

A runtime error ends the execution here, as it does in the loop that tests the
results of the handlers.

### Pool

Each thread runs one call at a time; `pc` names the access to shared memory that
comes next, and `run[t]` holds the locals of the C function. `pool_alloc` and
`batch_alloc_internal` share `load`, `load_head`, `walk`, `cas`, `count`;
`pool_free` and `pool_free_batch_internal` share `link`, `load_free`, `store`,
`cas_free`, `count_free`. Where the two functions differ (which list is tried
after a failure, what happens when both are empty) the step tests the call.
A weak compare-and-swap may fail for no reason. The relaxed loads of a walk are
one step: a compare-and-swap that succeeds proves the list unchanged since the
head was loaded. Memory is sequentially consistent.

### Codegen and StackMachine

The parser emits code while it descends, so its C stack is state: an entry of
`work` is what a parse function does after the statement it has called returns,
with the locals it needs then (`exit`, `start`, `ends` are places to patch or to
go back to). A jump has the distance 65535 (`Placeholder`) from `emit_jump` until
`patch_jump` gives it its own, so that one nobody patches leaves the code. `Rest` is what remains after a statement: a list of declarations
goes on, a single statement is done. The text is not given; at each point any
statement the grammar allows may come, up to `StatementsMax`, and at the end any
outcome of its conditions. Each text is compiled and then run.

An instruction with its operands is one element of `code`, and a distance counts
elements. The operand of a jump is part of it, as in the source where both
directions are measured from behind the operand. Expressions are abstracted to
operands that leave one value, with the three that jump (`and`, `or`, `?:`) and
the accesses to variables in full.

A stack cell holds the identity of the variable that lives in it (0 for a
temporary). Ghosts say what the text means: `var` and `def` of an instruction
(the variable it must find, the one it begins), and `marks`, the extent of each
statement in the code with the depth of the stack before and after it. The
locals and the depth of the compiler never read them.

`Forms` says which forms of statement a text may have. Six of them make code
that is not balanced or not structured, and are left out of the run `codegen`:

| Form | What the code does | What fails with it |
|---|---|---|
| `later_break` | a second `break` of a loop emits nothing (`parser.c:1068`) | `Structured` |
| `unwinding` | `break` and `continue` leave the locals and matched values of the body on the stack (`parser.c:1085`) | `Balanced` |
| `no_increment` | `for` without an increment never enters `begin_loop`, yet ends a loop (`parser.c:1347`): the enclosing one, or none, which is a read of NULL | `Balanced` |
| `arm_locals` | the value of a match is on the stack and no local counts it, so a local declared inside has the wrong slot | `Balanced`, `SlotsAreRight` |
| `bindings` | an enum pattern that binds: the value is popped by the arm's scope, behind the jump out of the arm (`parser.c:1251`) | `Balanced`, `SlotsAreRight` |
| `unbound` | an enum pattern without bindings, over a member that stores a value: the handler pushes what the member stores (`vm.c:2682`), the parser counts what the pattern binds (`parser.c:1194`) | `Balanced`, `SlotsAreRight` |

A member stores at most one value here, and a pattern that binds is taken to be for a
member that stores one; `Machine` has the other numbers (`patterns`). `patch_jump` reports an
error for a distance above 65535, which no text of the model reaches.

### Scanner

A source is a sequence of characters and one step is one iteration of the loop
that skips blanks or the scanning of one token. The loops inside a token are not
steps but their result (`Until`), since nothing can come between their
iterations. A token is its kind, the place and length of its lexeme, and its line;
which symbol or keyword it is follows from the lexeme. The scanner ends the
process for a number with a point and no digit behind it (`exited`) and
for a comment that is not closed (`panicked`).

`LongestMatch` compares with a grammar written beside it, as a set of texts for
each kind; of two integer literals the i64 is the one whose value is above `INT32_MAX`, whatever
its length (leading zeros are allowed). One word class is granted to the code: what begins with `fn` is taken
for the keyword `fn` whatever follows (`scanner.c:387`). Blanks at the end of the
text give a second `eof`, and `TypeOK` counts it.

### Scopes

The pass of the parser is the sequence of what it does between recursive calls of
itself, and `work` is its C stack: blocks, functions, methods, lambdas, classes,
structs and enums, each with what happens at its end. Statements and expressions
show only by the scopes they open and the names they read, so this module and
`Codegen` divide the parser between them. `compilers` is the chain from the
script's compiler to `vm->compiler`; its `stack` says what the emitted code has
pushed so far in that function.

The reference is kept beside it: `scopes` is the lexical nesting in the text with
the declaration each name has there, and `Lexical` reads only that. `Resolved`
is what `resolve_local`, `resolve_upvalue` and `add_upvalue` answer, followed
through the upvalues of all functions in between down to a local.

Three forms are not in the text, because of what the code does with them; they
are named in the module: members of a class that are classes or structs, a class
with a superclass inside another one, and a struct with a super struct, whose
super value stays on the stack (`parser.c:697`). A class with a superclass at the end
of whose scope `super` is left on the stack (`compile_end_scope`, `parser.c:788`) is in it.

### Machine

The code is not given: it is any code the parser could have emitted, and what is
known of it is the height of the stack it counts on, `height` of a frame. Every
action says twice what an instruction does: `Compiled(n, m)`, from where the
parser emits it, and the handler's own pops and pushes. `HeightIsCompiled` says
that they agree, and with it that `slots` is right in every frame. A value is its
kind, with the receiver for instances and bound methods. What a table answers, and what a
closure's code is, are chosen freely.

The loop is the one gcc builds (computed goto), which does not look at what handlers
return: after `runtime_error` has reset the stack it goes on. Such runs are
followed for `FollowMax` instructions; the machine invariants but `TypeOK` are stated up to
the first error. `lost` stands for reading memory that holds no value of the kind
that is wanted, where there is nothing to follow.

`Strays` says which of three forms (`AllStrays`) the code has that break what the parser
counts on. The runs and theorems take it as empty; with any one of them TLC finds the property
named here violated.

| Form | What the code does | What fails with it |
|---|---|---|
| `layers` | `x::f(...)` with an `x` that is neither a class nor an enum leaves its arguments on the stack | `HeightIsCompiled` |
| `patterns` | an enum pattern binds fewer or more values than the member stores, or is for another member: the parser counts its bindings (`parser.c:1194`), the handler pushes what is stored (`vm.c:2682`) | `HeightIsCompiled` |
| `upvalues` | an assignment to a captured variable whose block has ended: `op_close_upvalue` left its upvalue open (`vm.c:2516`), and the slot can be slot 0 of a later call | `ReceiverIsSelf`, `InitializersAnswerInstance` |

`Operators` keeps what `read_binary` and `coerce_types` look at: the kind of the
left operand chooses the handler, and the right one is often not looked at.

### Vec, Allocator

An operator of `Allocator` takes a heap and answers the heap it leaves; `Vec`
has the state. A size is counted in values. `malloc` answers any part address
not in use. The header of a part's last block is never set (`allocator.c:47`): it is
taken to read as NULL, on which `free_memory` panics, and `Lists` allows the process to
end. `vec_resize` and the operations that move elements are modelled cell by cell,
since a wrong order there is the hazard; two vectors share parts with each other
and with the chunk's constants. `NULL` is assumed to be no block and no vector
(`NullIsNoBlock`, `NullIsNoObject`): a null pointer is never an address `malloc` answers.

## Runs

| Run | Bounds | States | What it shows |
|---|---|---|---|
| `hashmap` | 4 keys with colliding hashes, 2 values of which one is the null an empty slot holds, capacities 4 and 8 | 275,442 | the invariants and `Dictionary` |
| `gc` | 4 addresses, 2 contents, stack of 3, 1 global, 1 member | 2.5 million | what a collection frees and keeps; interning |
| `gc_held` | the same | violation | a struct freed inside `new_struct` |
| `upvalues` | 3 upvalues, 2 values, 5 slots, 2 frames, both address orders | 2.0 million | sharing, and what a return closes |
| `pool` | 2 threads, 3 objects, 9 allocations and releases, cache of 1, batches of 1 | 470,695 | one place per object; `ObjectPool`; exact leak check |
| `codegen` | 1 name, 4 statements, the forms whose code is balanced | 4.4 million | balance, slots, structured control flow |
| `codegen_all` | 1 name, 3 statements, all forms | 290,318 | control stays in the code, jumps are patched |
| `scanner` | all texts of 4 characters over 10 classes, and of 5 over four alphabets of 4, or the digits 0 and 1 | 120,211 | longest match, nothing lost, lines, the end |
| `machine` | 3 frames, stack of 5, calls of 1 argument, 4 instructions behind an error, 2 instances | 1,288,860 | heights, receivers, initializers |
| `machine_error` | the same | violation | an error that nobody answers |
| `vec` | 2 vectors, 2 elements, literals of 3, 2 constants, parts of 1, 2 and 3 values | 99,012 | the sequences of `Lists`; one holder per block |
| `scopes` | 2 names, 3 declarations, nesting of 5, 4 locals, 2 upvalues | 677,855 | names, slots, closing |

Why the bounds are enough: four keys in tables of 4 and 8 slots give
chains across the end of the array, tombstones inside chains, a table whose
load is all tombstones, and a resize in each of these. Four addresses hold two structs in a cycle (by assignment to a property) with their vectors of
names, or one that refers to itself next to garbage and an operation in progress (with two
members, 8.6 million states, TLC finds the same); with two contents a new
string is equal to one there is, or is not. Five slots and two frames
hold a captured local of the caller, one of the callee, and a reused slot. Nine
calls are more than the eight an ABA on the free list needs (two objects
released, then taken and released again under a third call).

Ten classes of characters in texts of four meet every pair of look-aheads; five of
one alphabet are enough for a comment with a newline in it and a token behind, a word
that continues a keyword, a string over two lines, and every three-character
symbol with one that follows. Three frames are a method that calls one that
returns into a third; a stack of 5 is full before the frames are, and the frames before
the stack, depending on the calls. Capacities that double from 1 to 4 exceed the
greatest block (3 values), so that an allocation fails; parts of two and three blocks fill up and are
given back while others stay; literals of three elements give a vector with
room in which an element is inserted before two that differ. Three declarations
and a nesting of 5 give a variable read through two functions that do not declare it, a parameter hiding
a local, and a class with a superclass in a block; 4 locals and 2 upvalues are few
enough that the limits of the compiler are met.

Four statements are enough for a `break` under an `if` in a loop in another
statement, or for a shadowed local in a nested block; a body, an arm and an
expression that jumps count as statements, and where the bound is reached a
plain expression statement still fills the place the grammar requires. One name
gives every shadowing between scopes.

The passing run of the pool keeps a batched allocation apart from other calls
(`Alone`), because of what `batch_alloc_internal` does after a failure (below), and releases batches
of one node: `pool_free_batch_internal` makes the wrong end of a batch the new
head (`pool.c:253`), and a batch of two loses a node. Within these limits every
action and both caches are exercised.

Deadlock checking is off where the program really stops: an exhausted bound on
calls, a full instance of the heap, a destroyed pool, a program that has
returned.

Fairness is assumed in one place: `Scanner` has `WF_vars(Next)`, since `scan_tokens` is
a sequential loop that nothing outside can hold up, and `ScanningEnds` follows. No
other module has a liveness property: the runtime is driven by the program it runs, which may stop at any
point, and none of the checked components retries on its own but the pool, whose
loops are lock-free, not wait-free.

## Findings

Two runs contradict what the repository says; `PROJECT.json` quotes it.

1. `gc_held`: `new_struct` allocates its vector of names while the struct is rooted
   nowhere, and a collection in that allocation frees it.
2. `machine_error`: the computed-goto loop drops the result of every handler but
   `op_return`. After an error it goes on with an empty stack, a call can make a new first
   frame, and `interpret` then answers `interpret_ok`, on which `run_file` ends with
   status 0.

Other defects met while modelling are not checked by runs of their own. The models
state them where they exclude them:

- `mark_roots` marks the slot an open upvalue points to and not the upvalue
  (`gc.c:84`), and the registered types are no roots.
- `blacken_object` marks the elements of a struct's vector of names and not the vector
  (`gc.c:203`): the first collection frees it, and `define_member` (`vm.c:426`) and a call of
  the struct (`vm.c:580`) read it later.
- `call_value` on a struct pops an argument before `hashmap_set` allocates (`vm.c:581`): a
  collection there does not see it.
- `hashmap_remove_white` reads the key of a tombstone, which is NULL (`gc.c:260`).
- `concat_string` frees a string that the list of objects still holds (`string.c:145`).
- `close_upvalues` leaves closed upvalues in the list; where the heap has lower
  addresses than the stack, they hide open ones, and a variable is captured twice.
- `op_close_upvalue` passes the slot itself to a strict comparison: the upvalue of
  the local it pops stays open. An assignment through it writes to a slot that has another
  owner by then, slot 0 of a later call included, whose `self` it replaces.
- `op_return` calls `close_upvalues(frame->slots)` (`vm.c:2528`) with the same strict comparison
  (`upvalue.c:116`): the upvalue of a `self` that a lambda captured stays open, and the
  result is written to its slot (`vm.c:2540`).
- An enum member that matches pushes every value it stores (`vm.c:2679`), whether or not
  the pattern binds it (`parser.c:1194`): what is not bound stays on the stack.
- Of the breaks of a loop, only the first emits a jump (`parser.c:1068`), and the other
  forms of the table above.
- `batch_alloc_internal` returns the nodes of a failed attempt when it then finds both
  lists empty (`pool.c:151`); `pool_free_batch_internal` makes the wrong end of a batch the head.
- The 7 bits of an upvalue's index and 256 locals do not agree (`upvalue.c:13`).
- `struct A : B` leaves B on the stack; `x::f(a)` with a value `x` leaves `a`.
- Words that begin with `fn` are taken for the keyword.

## Proofs

All proofs are checked by TLAPS from the named assumptions of the modules; they
hold for any number of keys, objects, slots, threads of execution and any hash.

- `TableIsSound`: `Spec => [](TypeOK /\ Reachable /\ EmptySlotRemains /\ CountIsOccupancy)`.
  None of these is inductive alone. Room for an empty slot follows from the load
  (`LoadInv`) only if `count` is the occupancy; that `count` stays the occupancy
  through a resize needs the new array to hold exactly the entries copied so far
  (`CopyInv`), and that an entry is placed in a free slot of it needs probing to
  end there. `IInv` is the conjunction.
- `HashMapImplementsDictionary`: with `IInv`, each step of the table is a step
  of `Dictionary` or leaves its variables unchanged. The work is in the
  insertion: the slot `find_entry` returns holds the key if any slot does.
- `StringsStayInterned`, `CollectionIsExact` (`FreedEarlyIsUnmarked` and `NothingFloats`). What a collection
  frees of what the program reads is never traced, and what it leaves is. `MarkInv` is the tri-colour
  invariant: nothing black refers to white while the trace runs, and black and
  gray are reachable; at the sweep what has a mark is what is live, and a visited
  survivor stays black. `StringInv` keeps each allocated string in the table
  until the sweep that frees it, but for the one about to be entered. `StackInv`
  remembers what an operation has checked before it allocated.
- `CapturedVariablesAreShared`, `ReturnsCloseLocals`. The invariant adds that a
  captured variable is within the stack and its upvalue in the list
  (`CapturedInv`), so that a walk comes to it, sorted as the list is as far as
  walks can see (`VisibleIsSorted`). Both orders of addresses are covered.

- `ControlStaysInCode`, for every text, every form of statement and any outcome
  of the conditions. That the code is sound while it grows says that a jump which
  was patched goes to at most the next instruction (`Sound`). What the parser remembers must name jumps and
  places of the code: its entries (`Fits`), the loops (`LoopsFit`), and the end of
  an arm has its match below it (`WorkFits`). One that was not patched goes 65535 instructions
  ahead, and that the machine meets none needs `JumpsInv`: each unpatched jump is awaited by an
  entry of `work` or as the `end` of a loop, and each loop by an entry that will end it. When `work` is
  empty, no jump is left, and the final return seals the code. `IInv` is `FormInv /\ JumpsInv`.
- `StatementsAreBalanced` and `AccessesFindTheirVariables`: `Spec => []Balanced` and
  `Spec => []SlotsAreRight` under `FormsBalance`, which excludes the five forms of statement
  with which `Balanced` fails (the table under Codegen) and asks for
  `StatementsMax + 3 <= StackMax`, room for what a text of that length can push. They hold for any
  text in the other forms (`later_break` is one of these), any names and any outcome of the conditions; `MCStackMachine` makes TLC
  evaluate that the instance of the run `codegen` meets the hypothesis.

  Neither property is inductive: whether a stack is as deep as it should be depends on how control
  came there. The invariant says there is an account, `Accounts(d, x)`, of the text so far: `d[k]` is what the
  stack holds at instruction k, whichever way control comes, and `d[Len(code) + 1]` where the next one will be;
  `x[k]` is the setting (locals, stack, loops, scope) the parser returns to with entry k of its work.
  `Flows` says that d agrees along every edge of the code, patched jumps (those that land in the code) and loops included, and that
  no instruction finds the stack too short or too full or the wrong variable in its slot (`Ready`). Jumps still to be
  patched are in `Open`, and each entry knows what the stack will be where its jumps arrive (`Held`):
  the exit of a loop comes out with its condition on the stack, an arm with the matched value.
  An emission adds to d (`Coded`, `Keeps`), a patch closes a jump whose stack is that of the place
  it is patched to, and each statement is shown to end in the setting the entry
  below expects. Blocks need that the locals of a scope are exactly those behind the setting in which it began
  (`ScopeEnds`), statements that each spends enough of the budget to bound the stack. When the compiler
  ends, d accounts for all of the code (`Follows`), and the machine only has to follow it: `stack = d[pc]`.
- `StatementsAreTyped`: `Spec => []TypeOK`, for every form of statement, unbalanced ones and a compiler
  that crashes included. Only one conjunct needs an invariant of its own: that `scope_depth`
  stays a natural number, because the scopes still open are at least the entries of the work that will end one
  (`Typed`), which each step is shown to keep (`ScopesStep`).

- `MachineInvariant`, and from it `TypeCorrect`, `HeightsAgree`, `ReceiversStay` and
  `InitializersAnswer`: for every depth of the stack and of calls, every number of
  arguments and every set of kinds, under `Strays = {}`: for code without the three forms of the table
  under Machine, with which the properties are false. The proof has two halves.
  What an instruction does is brought to one of three forms: the end or an error,
  an exchange of n cells for m in which no cell under a frame's slot changes
  (`Exchanged`), or a frame over the arguments (`Entered`). Then each form, and the return, is shown
  to keep the invariant. `FramesInv` is what the properties lack to be inductive:
  slots grow from frame to frame, so that an assignment to a local of the top frame,
  or what a call overwrites, is the receiver of none below.
- `PoolInvariant`, and from it `NodesAreOnce`, `LeakCheckIsExact`, `PoolIsTyped` and the
  refinement `PoolIsObjectPool`: for any number of threads, any capacity, cache and bound on calls, and every
  interleaving. The clients are those of `SingleNodes`: they allocate and release single
  objects (batches may then have any size), or use batches of one node and run batched allocations alone; for other clients the
  results are false, as the notes above say. The chain that a head starts is a recursive
  function of the links; `ListIsChain` shows, with the least-number principle, that any
  sequence which the links connect is that chain, so that the proof can reason about
  sequences: a successful compare-and-swap takes the head of one (`TakesTop`) or puts a
  node on top (`GivesTop`). What makes it sound is in `TakesInv` and `GivesInv`: a thread that has read a head
  with the version it still has knows its top and the link behind it, because a listed
  node is never linked anew and a version never comes back (`IsBehind`). All
  other steps keep every node in its place (`SamePlaces`) and are stutters of `ObjectPool`.
  The counters lag behind the lists by the threads between the swap and the count
  (`CountInv`), so that they are exact when no call is under way.
- `TableIsTyped`, `HeapIsTyped` and `UpvaluesAreTyped`: the types of the table, the heap and
  the upvalues, which the invariants above contain.
- `ProbesEnd`, `CountIsTrue`, `TableOutlivesCollection`, `GarbageIsFreed`,
  `WalksMayStop` and `OneUpvalueEach` state the parts of these results by themselves.
- `ClosedStaysPrivate`: closing an upvalue again gives it its own value, and a new upvalue
  has another address, so only `op_set_upvalue` is left to change a closed one.
- `ScannerInvariant`, and from it `TextIsNotLeft`, `LinesAreCounted` and `NothingIsLost`,
  for sources of any length over any characters. Each iteration is first shown to read a blank
  (`ReadsBlank`), to read a token (`ReadsToken`) or to end the process (`ScanEnds`): `UntilFacts`
  says where the loops stop, and what is not NUL is in the text. Then the three forms keep the
  invariant: the line is that of the text before `current` (`Placed`), and blanks lie between the last token
  and `current` (`Gaps`), which the properties, looking at finished lists, do not say. That a token has at least
  one character, but for two at the end, bounds the list (`TokensCounted`).
- `TokensAreLongest`, with the same invariant: `AllLongest` says of the unfinished list what `LongestMatch`
  says of the finished one. The character a text begins with leaves one form of the grammar (`KindFacts`,
  since letters, digits, quotes and symbols are apart: `FirstsAreApart`), so that each branch of `scan_token` is
  compared with one form. A loop stops at a character of another class (`RunFacts`),
  which every longer text contains, and none of that form may (`WordIsLongest`, `IntegerIsLongest`, `FloatIsLongest`); a longer
  text than a string has a quote inside (`StringIsLongest`), an open one has none at its end (`OpenString`); for the
  symbols, the forms of two and three characters are gone through (`SymbolIsLongest`). The value of a literal is not
  looked into: that `Value` reads decimal digits is a fold, and for the runs. Assumed are what `is_alpha`,
  `is_digit` and the trie say of the characters: letters and digits are apart from each other and from the
  symbols, keywords are made of letters, and `fn` is one.

- `VecInvariant`, and from it `VecTypeCorrect`, `VecBlocksHeldOnce` and the refinement
  `VecImplementsLists`: for any table of block sizes, any number of vectors and constants, any
  elements, and literals of any length. Neither property is inductive. The invariant `VecInv` says
  who holds each block (`Held`), of a heap that is `Sound`: every part keeps the number and the list of its free blocks in step with the
  blocks in use (`PartFits`), every used block belongs to a part and has the cells of its class
  (`BlockFits`), and the parts stand in the order of their sizes under names of their own. A vector's elements lie in its block
  below its capacity, and the capacity within the block (`VecFits`), likewise the array
  of constants (`ConstantsFit`). TLC has checked `VecInv` on the instance of the run `vec`.

  The argument goes up through the code. An allocation adds one block and nothing else (`Gains`), a release takes
  one out (`Loses`), a copy changes the cells of one (`CopyFacts`); a part is given back only when
  no block of it is used. That a growing capacity suffices (`GrownEnough`) follows for the loop of
  `vec_resize` with the least-number principle. Each function of `vec.c` is then shown to turn its vector into
  one that stands for the sequence it should, or to panic (`Turned`), whether or not the array moved, the vector
  extended by itself included. A vector that was turned leaves all others as they were (`BecameReplaces`), so each action is the step of `Lists`
  of its name, or the end of the process; what `write_value_array` does is no step of `Lists` at all.

- `LocalsStayInTheirSlots` (`SlotsHoldLocals`), `CapturedAreClosed` (`SharedAreClosed`) and
  `NamesMeanTheirDeclarations`: for any program in the forms of `Scopes`, any names, any depth of nesting and any limits; the
  only assumptions are that the limits are positive and that no name is a keyword. The first two hold
  even where the index of an upvalue wraps. Neither property is inductive: whether a slot is right when a scope
  ends depends on which scopes, functions and types were begun before it. The invariant `ScopesIInv` says that
  there is an account of the parser's C stack, `Working`: `x[p]` are the settings in which the construct
  `work[p]` began (how many functions, classes, scopes and types were open), and `at[k]` is the place in
  `work` where function k stands. From it follows one frame for each compiler (`FramesOf`): the lexical scopes it spans, the types on its stack, and
  whether its last local waits for a value. `Sound` then relates the two sides the run compares:

  - `Core`: the frames lie one inside the other (`Chained`); the locals of a function are those of its open scopes, in their order,
    each bound there under its own name (`Framed`), no two the same variable (`Apart`); and a mark
    is set if and only if the variable is read from a function further in (`MarkedAsRead`).
  - `Supers`: at most one superclass is open, and no local named `super` comes after its own. A subclass leaves
    that local in its slot when it ends, so the name alone would not tell which one is meant.
  - `AllStacked`: the stack of a function is its locals that have values, then the types under construction (`Stacked`).

  The hard step is a name that is read. `resolve_local`, `resolve_upvalue` and `add_upvalue` walk the compilers, while the
  property speaks of the text. `ReachedFacts` follows the walk outward from the function that has the local and
  shows that it marks that local and no other; `LexicalFacts` that the local it stops at is the
  variable the text means, and `SearchCore` that the mark and the reading therefore agree. Each construct
  is then shown to begin and to end as the account expects (`SoundBegin`, `SoundEnd` and their forms for functions), and each
  action to be one of these, or a declaration in place. The first group is in `ScopesFrames`, the
  actions and the theorems in `FrontEndProofs`.

  `NamesMeanTheirDeclarations` is `[](IndexesFit => NamesResolveLexically)`. The 7 bits of an index (`IndexRange`) are
  fewer than the locals a function may have (`LocalsMax`), so that without a condition the property is
  false (`upvalue.c:13`); `IndexesFit` says of a state that no function has more than 128 locals or 127
  upvalues. It needs no invariant beyond `Sound`: the search leaves on its way a chain of
  upvalues (`SearchPasses`), and following them back (`WayIsSource`, `OneSource`) ends at the local it began with. With
  `IndexRange` above every slot, as in the run, the condition always holds; TLC has also checked the theorem's formula with an
  `IndexRange` of 2, where indexes do wrap.

Only model-checked: that the machine enters and leaves statements only where it
should (`Structured`). Out of the prover's
reach are liveness under fairness and induction over recursive definitions; the
probe and the walks are stated by the slot they stop at, without recursion, for
this reason.

## Not modelled

- The type registry: a table filled once at start and only read.
- The table of lines of a chunk, and `OP_CONSTANT_LONG`: the array of constants is in `Vec`.
- `list_extend_token`, which joins the tokens of a line to the machine's list.
- Recovery of the parser after an error, and its loops over enum bodies, labels and class
  members, which do not test for the end of the file and do not end there.
- The loop of compilers without computed goto, which does look at the results of handlers
  but has no case for `op_mod`.
- `hashmap_equal` and `hashmap_add_all` (repeated insertion), and releasing a whole table.
- Classes, enums, pairs and bound methods in `Gc`: the same marking code, with no new kind of
  reference. Reads of freed memory are not followed anywhere.
- Numbers: `Operators` keeps kinds, errors and traps. A read of an i32 as another kind is `lost`.
- Terminal and file input and output, natives that ask the host, debug printing.

Open questions for a next step: `Structured`, for which the account would have to know the statement
each jump belongs to; the forms of text that `Scopes` leaves out.

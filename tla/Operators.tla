----------------------------- MODULE Operators -----------------------------
(***************************************************************************)
(* What the operators of src/src/vm.c answer: the kinds a result can have   *)
(* for operands of given kinds.  Three outcomes are not kinds: "error" is a *)
(* runtime error, "trap" an exception of the processor, and "lost" a read   *)
(* through an operand of the wrong kind.                                    *)
(***************************************************************************)
EXTENDS Naturals

Numbers    == {"i32", "i64", "f32", "f64"}
Equalities == {"EQ", "NEQ"}
Orders     == {"LT", "LTE", "GT", "GTE"}
Bits       == {"SHL", "SHR", "BIT_AND", "BIT_OR", "BIT_XOR"}
Binary     == {"ADD", "SUB", "MUL", "DIV", "MOD"} \cup Equalities \cup Orders \cup Bits

\* Both operands take the wider of their kinds, floats over integers.
numeric_type_promotion(l, r) ==
  LET Rank == [i32 |-> 1, i64 |-> 2, f32 |-> 3, f64 |-> 4]
  IN  IF Rank[l] < Rank[r] THEN r ELSE l

\* Only i32 is checked for overflow; a quotient of two integers traps where
\* the least one is divided by -1; f32 has no remainder.
binary_number(op, k) ==
  LET integer == k \in {"i32", "i64"}
  IN  CASE op \in Equalities \cup Orders -> {"bool"}
        [] op \in Bits                   -> IF integer THEN {k} ELSE {"error"}
        [] op \in {"ADD", "SUB", "MUL"}  -> IF k = "i32" THEN {k, "error"} ELSE {k}
        [] op = "DIV"                    -> {k, "error"} \cup (IF integer THEN {"trap"} ELSE {})
        [] op = "MOD"                    -> CASE integer   -> {k, "error", "trap"}
                                              [] k = "f64" -> {k}
                                              [] k = "f32" -> {"error"}

string_operator(op, r) ==
  CASE op \in Equalities -> IF r = "string" THEN {"bool"} ELSE {"error"}
    [] op = "ADD"        -> IF r = "string" THEN {"string", "error"} ELSE {"lost"}
    [] OTHER             -> {"error"}

\* A sum is a bare vector, not an instance; an instance of Vec that a call of
\* the class made has no vector.
vec_operator(op, l, r) ==
  IF op \notin Equalities \cup {"ADD"} THEN {"error"}
  ELSE IF l # "vec" \/ r # "vec" THEN {"lost"}
  ELSE {IF op = "ADD" THEN "data" ELSE "bool", "lost"}

\* read_binary after coerce_types.  The kind of the right operand is looked at
\* for two numbers, for none and by the handlers of strings only.
read_binary(op, l, r) ==
  CASE l \in Numbers         -> binary_number(op, IF r \in Numbers
                                                    THEN numeric_type_promotion(l, r) ELSE l)
    [] l \in {"bool", "none"} -> IF op \in Equalities THEN {"bool"} ELSE {"error"}
    [] l = "string"          -> string_operator(op, r)
    [] l \in {"vec", "data"} -> vec_operator(op, l, r)
    [] OTHER                 -> {"error"}

negate(k) == IF k \in Numbers THEN {k} ELSE {"error"}
not_(k)   == IF k = "bool" THEN {k} ELSE {"error"}
bw_not(k) == IF k \in {"i32", "i64"} THEN {k} ELSE {"error"}
=============================================================================

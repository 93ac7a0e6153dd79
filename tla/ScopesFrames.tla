---------------------------- MODULE ScopesFrames ----------------------------
(***************************************************************************)
(* What holds of the compilers while a program is parsed: the functions    *)
(* that are open lie one inside the other, each with the locals of its     *)
(* open scopes in the slots of its stack. Lemma by lemma, that each kind   *)
(* of step the parser takes keeps it. FrontEndProofs shows that every      *)
(* action of Scopes is such a step.                                        *)
(***************************************************************************)
EXTENDS Scopes, FiniteSetTheorems, SequenceTheorems, TLAPS

-----------------------------------------------------------------------------
(* What the parser keeps.                                                  *)

Fns == {"fn", "method", "lambda"}

Ids == {"declaration", "callee"} \X Nat

LocalNames == Names \cup {"", "self", "super"}

Locals == [name : LocalNames, depth : Nat \cup {-1}, is_captured : BOOLEAN, id : Ids]

UpvalueInfos == [index : Nat \ {0}, is_local : BOOLEAN]

Compilers ==
  [fn_type : {"script"} \cup Fns, locals : Seq(Locals), scope_depth : Nat,
   upvalues : Seq(UpvalueInfos), arity : Nat, stack : Seq(Ids \cup {Temporary})]

Namings == UNION {[D -> Ids] : D \in SUBSET (Names \cup {"self", "super"})}

LexicalScopes == [fn : Nat, names : Namings]

-----------------------------------------------------------------------------
(* The frame of a compiler: its lexical scopes are those after base up to   *)
(* top; temps types are open on its stack; wait tells that its last local   *)
(* has no value yet, and is not yet initialized ("var") or is ("fn").       *)
Frames == [base : Nat, top : Nat, temps : Nat, wait : {"no", "var", "fn"}]

\* The lexical scope a local was declared in, if it is open.
Level(c, i, fr) ==
  IF i = 1 THEN fr.base + 1
  ELSE IF c.locals[i].depth = -1 THEN fr.top ELSE fr.base + c.locals[i].depth

IsBound(sc, c, i, fr) ==
  LET h == Level(c, i, fr)
      n == c.locals[i].name
  IN  h <= fr.top /\ n \in DOMAIN sc[h].names /\ sc[h].names[n] = c.locals[i].id

LocalFits(c, i, fr, dc) ==
  /\ c.locals[i].name \in Names \cup {"super"}
  /\ \E m \in 1..dc : c.locals[i].id = <<"declaration", m>>
  /\ (c.locals[i].depth = -1) <=> (i = Len(c.locals) /\ fr.wait = "var")
  /\ c.locals[i].depth # 0

\* Slot 1 is the function, or self; the others are declarations.
Slots(c, k, fr, dc) ==
  /\ fr.base + c.scope_depth = fr.top
  /\ Len(c.locals) >= 1
  /\ c.locals[1].name \in {"", "self"} /\ c.locals[1].depth = 0
  /\ k = 1 => c.locals[1].name = ""
  /\ c.locals[1].id = <<"callee", k>>
  /\ \A i \in DOMAIN c.locals : i > 1 => LocalFits(c, i, fr, dc)
  /\ fr.wait # "no" => c.scope_depth > 0 /\ Len(c.locals) >= 2

\* The locals of open scopes lie in the order of their scopes.
Nested(sc, c, fr) ==
  \A i, j \in DOMAIN c.locals :
    i < j /\ IsBound(sc, c, i, fr) => Level(c, i, fr) <= Level(c, j, fr)

\* Every name of an open scope has its local,
Covered(sc, c, fr) ==
  \A h \in fr.base + 1..fr.top : \A n \in DOMAIN sc[h].names :
    \E i \in DOMAIN c.locals : c.locals[i].name = n /\ Level(c, i, fr) = h /\ IsBound(sc, c, i, fr)

\* and every local is of an open scope, but for slot 1 and the superclasses left behind.
Known(sc, c, fr) ==
  \A i \in DOMAIN c.locals : c.locals[i].name \in {"", "super"} \/ IsBound(sc, c, i, fr)

Framed(sc, c, k, fr, dc) ==
  Slots(c, k, fr, dc) /\ Nested(sc, c, fr) /\ Covered(sc, c, fr) /\ Known(sc, c, fr)

\* The frames are those of the compilers, one inside the other.
Chained(sc, cs, f) ==
  /\ Len(f) = Len(cs) /\ Len(cs) >= 1
  /\ f[1].base = 0 /\ f[Len(cs)].top = Len(sc)
  /\ \A k \in DOMAIN cs : f[k].base <= f[k].top
  /\ \A k \in DOMAIN cs : k > 1 => f[k].base = f[k - 1].top /\ f[k].base < f[k].top
  /\ \A k, l \in DOMAIN cs : k < l => f[k].top <= f[l].base
  /\ \A h \in DOMAIN sc : sc[h].fn \in DOMAIN cs
  /\ \A h \in DOMAIN sc : \A k \in DOMAIN cs : sc[h].fn = k <=> h \in f[k].base + 1..f[k].top

\* No two locals are the same variable.
Apart(cs) ==
  \A k, l \in DOMAIN cs : \A i \in DOMAIN cs[k].locals, j \in DOMAIN cs[l].locals :
    cs[k].locals[i].id = cs[l].locals[j].id => k = l /\ i = j

\* A local is marked if and only if a function reads it.
MarkedAsRead(cs, cp, dc) ==
  /\ \A id \in cp : \/ \E k \in DOMAIN cs : id = <<"callee", k>> /\ cs[k].locals[1].name # ""
                    \/ \E m \in 1..dc : id = <<"declaration", m>>
  /\ \A k \in DOMAIN cs : \A i \in DOMAIN cs[k].locals :
       cs[k].locals[i].is_captured <=> cs[k].locals[i].id \in cp

HasSuper(sc, h) == "super" \in DOMAIN sc[h].names

\* At most one superclass is open, and no local named super comes after its own.
Supers(cs, cl, sc) ==
  /\ \A h \in DOMAIN sc : HasSuper(sc, h) => DOMAIN sc[h].names = {"super"}
  /\ \A g, h \in DOMAIN sc : HasSuper(sc, g) /\ HasSuper(sc, h) => g = h
  /\ \A a, b \in DOMAIN cl : cl[a] /\ cl[b] => a = b
  /\ (\E a \in DOMAIN cl : cl[a]) <=> (\E h \in DOMAIN sc : HasSuper(sc, h))
  /\ \A h \in DOMAIN sc : HasSuper(sc, h) =>
       \A k \in DOMAIN cs : \A j \in DOMAIN cs[k].locals :
         cs[k].locals[j].name = "super" /\ k >= sc[h].fn =>
           /\ k = sc[h].fn
           /\ \A i \in DOMAIN cs[k].locals : cs[k].locals[i].id = sc[h].names["super"] => j <= i

UpvaluesFit(cs) ==
  \A k \in DOMAIN cs : IsInjective(cs[k].upvalues) /\ Len(cs[k].upvalues) <= UpvaluesMax

-----------------------------------------------------------------------------
(* The stack.                                                              *)

Filled(c, fr) == IF fr.wait = "no" THEN Len(c.locals) ELSE Len(c.locals) - 1

Stacked(c, fr) ==
  /\ fr.wait # "no" => fr.temps = 0
  /\ c.stack = [i \in 1..Filled(c, fr) + fr.temps |->
                  IF i <= Filled(c, fr) THEN c.locals[i].id ELSE Temporary]

-----------------------------------------------------------------------------
(* The constructs the parser is in.                                        *)

Settings == [fns : Nat, classes : Nat, base : Nat, top : Nat, temps : Nat]

Outermost == [fns |-> 1, classes |-> 0, base |-> 0, top |-> 0, temps |-> 0]

Follows(form, s, t, cl) ==
  CASE form = "block"  -> t = [s EXCEPT !.top = @ + 1]
    [] form \in Fns    -> t = [s EXCEPT !.fns = @ + 1, !.base = s.top, !.top = @ + 1, !.temps = 0]
    [] form = "class"  -> t = [s EXCEPT !.classes = @ + 1, !.temps = @ + 1,
                                        !.top = IF cl[t.classes] THEN @ + 1 ELSE @]
    [] form = "enum"   -> t = [s EXCEPT !.temps = @ + 1]
    [] OTHER           -> t = s

Forms == {"block", "var", "params", "class", "enum"} \cup Fns

WaitOf(wk, p, s) ==
  IF s.top = s.base THEN "no"
  ELSE IF p > 1 /\ wk[p - 1] = "var" THEN "var"
  ELSE IF p <= Len(wk) /\ wk[p] = "fn" THEN "fn" ELSE "no"

FramesOf(wk, x, at) ==
  [k \in DOMAIN at |-> [base |-> x[at[k]].base, top |-> x[at[k]].top, temps |-> x[at[k]].temps,
                        wait |-> WaitOf(wk, at[k], x[at[k]])]]

\* How many types the code has on its stack where a construct begins.
TypesBefore(wk, p) ==
  Cardinality({i \in 1..p - 1 : wk[i] \in {"class", "enum"} /\ \A j \in i..p - 1 : wk[j] \notin Fns})

\* Each construct begins with the settings that the one around it leaves it.
Trail(wk, cl, x) ==
  /\ Len(x) = Len(wk) + 1 /\ x[1] = Outermost
  /\ \A p \in 1..Len(wk) : Follows(wk[p], x[p], x[p + 1], cl)
  /\ \A p, q \in DOMAIN x : p <= q => x[p].top <= x[q].top /\ x[p].classes <= x[q].classes
  /\ \A p \in DOMAIN x : x[p].fns >= 1 /\ x[p].base <= x[p].top /\ (x[p].fns > 1 => x[p].base < x[p].top)

Ending(x, cl, n, sc) ==
  x[Len(x)].fns = n /\ x[Len(x)].classes = Len(cl) /\ x[Len(x)].top = Len(sc)

\* Each function stands where the next one began in it, and the last where the parser is.
Stands(wk, x, at, n) ==
  /\ n >= 1 /\ Len(at) = n /\ at[n] = Len(x)
  /\ \A k \in 1..n - 1 : at[k] \in 1..Len(wk) /\ wk[at[k]] \in Fns
  /\ \A k \in 1..n : x[at[k]].fns = k
  /\ \A k \in 1..n : \A p \in DOMAIN x : p > at[k] => x[p].fns > k

\* What may stand in what.
Ordered(wk, x) ==
  \A p \in 1..Len(wk) :
    /\ wk[p] \notin {"class", "enum"} => x[p + 1].temps = 0
    /\ wk[p] = "var" /\ p < Len(wk) => wk[p + 1] = "lambda"
    /\ wk[p] = "params" => p > 1 /\ wk[p - 1] \in Fns

\* Which of the constructs opened the scope of a superclass.
Superseded(wk, cl, x, sc) ==
  \A p \in 1..Len(wk) :
    /\ wk[p] \in Fns \cup {"block"} => ~HasSuper(sc, x[p + 1].top)
    /\ wk[p] = "class" /\ cl[x[p + 1].classes] => HasSuper(sc, x[p + 1].top)

Counted(wk, x) == \A p \in DOMAIN x : x[p].temps = TypesBefore(wk, p)

Working(wk, cl, x, at, n, sc) ==
  /\ wk \in Seq(Forms) /\ cl \in Seq(BOOLEAN) /\ x \in Seq(Settings) /\ at \in Seq(Nat)
  /\ Trail(wk, cl, x) /\ Ending(x, cl, n, sc) /\ Stands(wk, x, at, n)
  /\ Ordered(wk, x) /\ Superseded(wk, cl, x, sc) /\ Counted(wk, x)

-----------------------------------------------------------------------------
(* Numbers and sequences.                                                  *)

\* A non-empty set of naturals has a least member: strict inclusion is well-founded on
\* the finite sets 0..n-1.
LEMMA LeastMember ==
  ASSUME NEW S \in SUBSET Nat, S # {}
  PROVE  \E m \in S : \A n \in S : m <= n
<1> DEFINE R == StrictSubsetOrdering(Nat)
           F == FiniteSubsetsOf(Nat)
           T == {0..(n - 1) : n \in S}
<1>1. IsWellFoundedOn(R, F)
  BY FS_StrictSubsetOrderingWellFounded
<1>2. T \subseteq F
  <2>1. \A n \in S : 0..(n - 1) \in SUBSET Nat /\ IsFiniteSet(0..(n - 1))
    BY FS_Interval
  <2> QED BY <2>1 DEF FiniteSubsetsOf
<1>3. T # {}
  OBVIOUS
<1>4. PICK U \in T : \A V \in T : ~ (<<V, U>> \in R)
  <2> HIDE DEF R, F, T
  <2> QED BY <1>1, <1>2, <1>3, WFMin
<1>5. PICK m \in S : U = 0..(m - 1)
  OBVIOUS
<1>6. ASSUME NEW n \in S, n < m PROVE FALSE
  <2>1. 0..(n - 1) \subseteq 0..(m - 1) /\ n \in (0..(m - 1)) \ (0..(n - 1))
    BY <1>6
  <2>2. <<0..(n - 1), U>> \in R
    BY <2>1, <1>5 DEF StrictSubsetOrdering
  <2> QED BY <2>2, <1>4
<1> QED BY <1>6

-----------------------------------------------------------------------------
(* The last element of a sequence that passes a test.                      *)

\* The greatest member that Max chooses.
LEMMA MaxFacts ==
  ASSUME NEW n \in Nat, NEW S \in SUBSET (1..n), S # {}
  PROVE  Max(S) \in S /\ \A i \in S : i <= Max(S)
<1> DEFINE T == {n - i : i \in S}
<1>1. PICK m \in T : \A o \in T : m <= o
  <2>1. \A i \in S : n - i \in Nat
    OBVIOUS
  <2>2. T \in SUBSET Nat /\ T # {}
    BY <2>1
  <2> HIDE DEF T
  <2> QED BY <2>2, LeastMember
<1>2. PICK j \in S : m = n - j
  OBVIOUS
<1>3. \A i \in S : i <= j
  <2> SUFFICES ASSUME NEW i \in S PROVE i <= j
    OBVIOUS
  <2>1. n - i \in T
    OBVIOUS
  <2>2. m <= n - i
    BY <1>1, <2>1
  <2> QED BY <1>2, <2>2
<1>4. \A i \in S : j >= i
  BY <1>3
<1> QED BY <1>2, <1>4 DEF Max

\* The local a name resolves to.
LEMMA ResolveFacts ==
  ASSUME NEW c, c.locals \in Seq(Locals), NEW name
  PROVE  LET r == resolve_local(c, name)
         IN  /\ r \in 0..Len(c.locals)
             /\ r # 0 => c.locals[r].name = name
             /\ \A j \in DOMAIN c.locals : c.locals[j].name = name => r # 0 /\ j <= r
<1> DEFINE I == {i \in 1..Len(c.locals) : c.locals[i].name = name}
<1>1. resolve_local(c, name) = IF I # {} THEN Max(I) ELSE 0
  BY DEF resolve_local, SelectLastInSeq
<1>2. Len(c.locals) \in Nat /\ DOMAIN c.locals = 1..Len(c.locals) /\ I \in SUBSET (1..Len(c.locals))
  OBVIOUS
<1>3. CASE I = {}
  BY <1>1, <1>2, <1>3
<1>4. CASE I # {}
  <2>1. Max(I) \in I /\ \A i \in I : i <= Max(I)
    <3> HIDE DEF I
    <3> QED BY <1>2, <1>4, MaxFacts
  <2> QED BY <2>1, <1>1, <1>2, <1>4
<1> QED BY <1>3, <1>4

\* The compiler that owns a name.
LEMMA OwnerFacts ==
  ASSUME NEW cs \in Seq(Compilers), NEW name
  PROVE  LET o == Owner(cs, name)
         IN  /\ o \in 0..Len(cs)
             /\ o # 0 => resolve_local(cs[o], name) # 0
             /\ \A k \in DOMAIN cs : resolve_local(cs[k], name) # 0 => o # 0 /\ k <= o
<1> DEFINE I == {i \in 1..Len(cs) : resolve_local(cs[i], name) # 0}
<1>1. Owner(cs, name) = IF I # {} THEN Max(I) ELSE 0
  BY DEF Owner, SelectLastInSeq
<1>2. Len(cs) \in Nat /\ DOMAIN cs = 1..Len(cs) /\ I \in SUBSET (1..Len(cs))
  OBVIOUS
<1>3. CASE I = {}
  BY <1>1, <1>2, <1>3
<1>4. CASE I # {}
  <2>1. Max(I) \in I /\ \A i \in I : i <= Max(I)
    <3> HIDE DEF I
    <3> QED BY <1>2, <1>4, MaxFacts
  <2> QED BY <2>1, <1>1, <1>2, <1>4
<1> QED BY <1>3, <1>4

\* The innermost scope of these that declares a name.
HomeOf(sc, name) == SelectLastInSeq(sc, LAMBDA scope : name \in DOMAIN scope.names)

LexicalIn(sc, name) == IF HomeOf(sc, name) = 0 THEN Global ELSE sc[HomeOf(sc, name)].names[name]

\* The scope a name is at home in is the innermost open one that has it.
LEMMA HomeFacts ==
  ASSUME NEW sc, Len(sc) \in Nat, DOMAIN sc = 1..Len(sc), NEW name
  PROVE  LET h == HomeOf(sc, name)
         IN  /\ h \in 0..Len(sc)
             /\ h # 0 => name \in DOMAIN sc[h].names
             /\ \A g \in DOMAIN sc : name \in DOMAIN sc[g].names => h # 0 /\ g <= h
<1> DEFINE I == {i \in 1..Len(sc) : name \in DOMAIN sc[i].names}
<1>1. HomeOf(sc, name) = IF I # {} THEN Max(I) ELSE 0
  BY DEF HomeOf, SelectLastInSeq
<1>2. I \in SUBSET (1..Len(sc))
  OBVIOUS
<1>3. CASE I = {}
  BY <1>1, <1>2, <1>3
<1>4. CASE I # {}
  <2>1. Max(I) \in I /\ \A i \in I : i <= Max(I)
    <3> HIDE DEF I
    <3> QED BY <1>2, <1>4, MaxFacts
  <2> QED BY <2>1, <1>1, <1>2, <1>4
<1> QED BY <1>3, <1>4

\* The local that end_scope keeps last.
KeptOf(c) == SelectLastInSeq(c.locals, LAMBDA local : local.depth < c.scope_depth)

\* The last local that end_scope keeps: it and no later one is shallower than the scope.
LEMMA KeptFacts ==
  ASSUME NEW c \in Compilers, Len(c.locals) >= 1, c.locals[1].depth = 0, c.scope_depth > 0
  PROVE  /\ KeptOf(c) \in DOMAIN c.locals
         /\ c.locals[KeptOf(c)].depth < c.scope_depth
         /\ \A j \in DOMAIN c.locals : j > KeptOf(c) => c.locals[j].depth >= c.scope_depth
<1> DEFINE I == {i \in 1..Len(c.locals) : c.locals[i].depth < c.scope_depth}
<1>1. KeptOf(c) = IF I # {} THEN Max(I) ELSE 0
  BY DEF KeptOf, SelectLastInSeq
<1>2. Len(c.locals) \in Nat /\ DOMAIN c.locals = 1..Len(c.locals) /\ I \in SUBSET (1..Len(c.locals))
  BY DEF Compilers
<1>3. 1 \in I
  BY <1>2
<1>4. Max(I) \in I /\ \A i \in I : i <= Max(I)
  <2> HIDE DEF I
  <2> QED BY <1>2, <1>3, MaxFacts
<1>5. c.locals \in Seq(Locals) /\ c.scope_depth \in Nat
  BY DEF Compilers
<1>6. \A i \in DOMAIN c.locals : c.locals[i] \in Locals
  BY <1>5
<1>7. \A i \in DOMAIN c.locals : c.locals[i].depth \in Int
  BY <1>6 DEF Locals
<1>8. KeptOf(c) \in I /\ \A i \in I : i <= KeptOf(c)
  <2> HIDE DEF I
  <2> QED BY <1>1, <1>3, <1>4
<1>9. \A j \in DOMAIN c.locals : j > KeptOf(c) => c.locals[j].depth >= c.scope_depth
  <2> SUFFICES ASSUME NEW j \in DOMAIN c.locals, j > KeptOf(c), ~(c.locals[j].depth >= c.scope_depth)
               PROVE FALSE
    OBVIOUS
  <2>1. j \in I
    BY <1>2, <1>5, <1>7
  <2> HIDE DEF I
  <2>2. j <= KeptOf(c)
    BY <2>1, <1>8
  <2>3. j \in 1..Len(c.locals)
    BY <1>2
  <2>4. KeptOf(c) \in 1..Len(c.locals)
    BY <1>8, <1>2, Zenon
  <2> QED BY <2>2, <2>3, <2>4, <1>5
<1> QED BY <1>2, <1>8, <1>9

-----------------------------------------------------------------------------
(* The frame of one compiler.                                              *)

\* What the type of a compiler says of its parts.
LEMMA CompilerFacts ==
  ASSUME NEW c \in Compilers
  PROVE  /\ c.locals \in Seq(Locals) /\ Len(c.locals) \in Nat /\ DOMAIN c.locals = 1..Len(c.locals)
         /\ c.scope_depth \in Nat /\ c.upvalues \in Seq(UpvalueInfos)
         /\ \A i \in DOMAIN c.locals :
              /\ c.locals[i] \in Locals /\ c.locals[i].name \in LocalNames
              /\ c.locals[i].depth \in Nat \cup {-1} /\ c.locals[i].depth \in Int
              /\ c.locals[i].is_captured \in BOOLEAN /\ c.locals[i].id \in Ids
<1>1. c.locals \in Seq(Locals) /\ c.scope_depth \in Nat /\ c.upvalues \in Seq(UpvalueInfos)
  BY DEF Compilers
<1>2. \A i \in DOMAIN c.locals : c.locals[i] \in Locals
  BY <1>1
<1>3. \A i \in DOMAIN c.locals :
        /\ c.locals[i].name \in LocalNames
        /\ c.locals[i].depth \in Nat \cup {-1} /\ c.locals[i].depth \in Int
        /\ c.locals[i].is_captured \in BOOLEAN /\ c.locals[i].id \in Ids
  BY <1>2 DEF Locals
<1> QED BY <1>1, <1>2, <1>3

\* The same locals, but for what is captured.
LocalsAgree(c, d) ==
  /\ d.scope_depth = c.scope_depth /\ Len(d.locals) = Len(c.locals)
  /\ \A i \in DOMAIN c.locals :
       /\ d.locals[i].name = c.locals[i].name /\ d.locals[i].depth = c.locals[i].depth
       /\ d.locals[i].id = c.locals[i].id

\* What the slots of a framed compiler are: slot 1 the function's, the others declarations.
LEMMA SlotFacts ==
  ASSUME NEW c \in Compilers, NEW k, NEW fr \in Frames, NEW dc \in Nat, Slots(c, k, fr, dc)
  PROVE  /\ fr.base \in Nat /\ fr.top \in Nat /\ fr.base + c.scope_depth = fr.top /\ fr.base <= fr.top
         /\ Len(c.locals) >= 1 /\ 1 \in DOMAIN c.locals /\ c.locals[1].depth = 0
         /\ c.locals[1].id = <<"callee", k>> /\ c.locals[1].name \in {"", "self"}
         /\ k = 1 => c.locals[1].name = ""
         /\ \A i \in DOMAIN c.locals : i # 1 => i > 1 /\ LocalFits(c, i, fr, dc)
         /\ fr.wait = "var" \/ fr.wait = "fn" => c.scope_depth > 0 /\ Len(c.locals) >= 2
<1>1. fr.base \in Nat /\ fr.top \in Nat /\ c.scope_depth \in Nat /\ Len(c.locals) \in Nat
      /\ DOMAIN c.locals = 1..Len(c.locals)
  BY CompilerFacts DEF Frames
<1>2. fr.base + c.scope_depth = fr.top /\ Len(c.locals) >= 1
  BY DEF Slots
<1>3. 1 \in DOMAIN c.locals /\ fr.base <= fr.top /\ \A i \in DOMAIN c.locals : i # 1 => i > 1
  BY <1>1, <1>2
<1>4. \A i \in DOMAIN c.locals : i # 1 => LocalFits(c, i, fr, dc)
  BY <1>3 DEF Slots
<1>5. fr.wait = "var" \/ fr.wait = "fn" => c.scope_depth > 0 /\ Len(c.locals) >= 2
  BY DEF Slots
<1>6. /\ c.locals[1].depth = 0 /\ c.locals[1].id = <<"callee", k>> /\ c.locals[1].name \in {"", "self"}
      /\ k = 1 => c.locals[1].name = ""
  BY DEF Slots
<1> QED BY <1>1, <1>2, <1>3, <1>4, <1>5, <1>6

\* Every local was declared in a scope of its own function.
LEMMA LevelFacts ==
  ASSUME NEW c \in Compilers, NEW k, NEW fr \in Frames, NEW dc \in Nat, Slots(c, k, fr, dc)
  PROVE  \A i \in DOMAIN c.locals :
           /\ Level(c, i, fr) \in Nat /\ Level(c, i, fr) >= fr.base + 1
<1> SUFFICES ASSUME NEW i \in DOMAIN c.locals
             PROVE  Level(c, i, fr) \in Nat /\ Level(c, i, fr) >= fr.base + 1
  OBVIOUS
<1>1. fr.base \in Nat /\ fr.top \in Nat /\ c.scope_depth \in Nat /\ fr.base + c.scope_depth = fr.top
  BY CompilerFacts DEF Frames, Slots
<1>2. i \in 1..Len(c.locals) /\ c.locals[i].depth \in Nat \cup {-1}
  BY CompilerFacts
<1>3. CASE i = 1
  BY <1>3, <1>1 DEF Level
<1>4. CASE i # 1 /\ c.locals[i].depth = -1
  <2>1. i > 1 /\ i \in DOMAIN c.locals
    BY <1>2, <1>4
  <2>2. LocalFits(c, i, fr, dc)
    BY <2>1 DEF Slots
  <2>3. c.scope_depth > 0
    BY <2>2, <1>4 DEF Slots, LocalFits
  <2> QED BY <2>3, <1>1, <1>4 DEF Level
<1>5. CASE i # 1 /\ c.locals[i].depth # -1
  <2>1. i > 1 /\ i \in DOMAIN c.locals
    BY <1>2, <1>5
  <2>2. LocalFits(c, i, fr, dc)
    BY <2>1 DEF Slots
  <2>3. c.locals[i].depth # 0
    BY <2>2 DEF LocalFits
  <2> QED BY <2>3, <1>1, <1>2, <1>5 DEF Level
<1> QED BY <1>3, <1>4, <1>5

\* A frame is fit for any change that keeps its names, their levels and its scopes.
LEMMA FramedLevels ==
  ASSUME NEW c \in Compilers, NEW d \in Compilers, NEW k,
         NEW sc, NEW sc2, NEW fr \in Frames, NEW fr2 \in Frames, NEW dc \in Nat, NEW dc2 \in Nat,
         Framed(sc, c, k, fr, dc), Slots(d, k, fr2, dc2),
         fr2.base = fr.base, fr2.top = fr.top, DOMAIN d.locals = DOMAIN c.locals,
         \A i \in DOMAIN c.locals :
           /\ d.locals[i].name = c.locals[i].name /\ d.locals[i].id = c.locals[i].id
           /\ Level(d, i, fr2) = Level(c, i, fr),
         \A h \in fr.base + 1..fr.top : sc2[h].names = sc[h].names
  PROVE  Framed(sc2, d, k, fr2, dc2)
<1>2. Slots(c, k, fr, dc)
  BY DEF Framed
<1>3. fr.base \in Nat /\ fr.top \in Nat
  BY DEF Frames
<1>4. \A i \in DOMAIN c.locals : IsBound(sc2, d, i, fr2) <=> IsBound(sc, c, i, fr)
  <2> SUFFICES ASSUME NEW i \in DOMAIN c.locals
               PROVE  IsBound(sc2, d, i, fr2) <=> IsBound(sc, c, i, fr)
    OBVIOUS
  <2>1. Level(c, i, fr) <= fr.top => Level(c, i, fr) \in fr.base + 1..fr.top
    BY <1>2, <1>3, LevelFacts
  <2> QED BY <2>1 DEF IsBound
<1>6. Nested(sc2, d, fr2)
  BY <1>4 DEF Framed, Nested
<1>7. Covered(sc2, d, fr2)
  <2> SUFFICES ASSUME NEW h \in fr.base + 1..fr.top, NEW n \in DOMAIN sc2[h].names
               PROVE  \E i \in DOMAIN d.locals :
                        d.locals[i].name = n /\ Level(d, i, fr2) = h /\ IsBound(sc2, d, i, fr2)
    BY DEF Covered
  <2>1. PICK i \in DOMAIN c.locals :
               c.locals[i].name = n /\ Level(c, i, fr) = h /\ IsBound(sc, c, i, fr)
    BY DEF Framed, Covered
  <2> QED BY <2>1, <1>4
<1>8. Known(sc2, d, fr2)
  BY <1>4 DEF Framed, Known
<1> QED BY <1>6, <1>7, <1>8 DEF Framed

\* So it is for any change that keeps its locals and its scopes.
LEMMA FramedAgain ==
  ASSUME NEW c \in Compilers, NEW d \in Compilers, LocalsAgree(c, d), NEW k,
         NEW sc, NEW sc2, NEW fr \in Frames, NEW fr2 \in Frames, NEW dc \in Nat, NEW dc2 \in Nat, dc <= dc2,
         Framed(sc, c, k, fr, dc),
         fr2.base = fr.base, fr2.top = fr.top, fr2.wait = "var" <=> fr.wait = "var",
         fr2.wait # "no" => c.scope_depth > 0 /\ Len(c.locals) >= 2,
         \A h \in fr.base + 1..fr.top : sc2[h].names = sc[h].names
  PROVE  Framed(sc2, d, k, fr2, dc2)
<1>1. DOMAIN c.locals = 1..Len(c.locals) /\ DOMAIN d.locals = DOMAIN c.locals /\ Len(c.locals) \in Nat
  BY CompilerFacts DEF LocalsAgree
<1>2. Slots(c, k, fr, dc)
  BY DEF Framed
<1>3. \A i \in DOMAIN c.locals : Level(d, i, fr2) = Level(c, i, fr)
  BY DEF Level, LocalsAgree
<1>5. Slots(d, k, fr2, dc2)
  <2>1. ASSUME NEW i \in DOMAIN c.locals, i > 1
        PROVE  LocalFits(d, i, fr2, dc2)
    <3>1. LocalFits(c, i, fr, dc)
      BY <2>1, <1>2 DEF Slots
    <3>2. PICK m \in 1..dc : c.locals[i].id = <<"declaration", m>>
      BY <3>1 DEF LocalFits
    <3>3. m \in 1..dc2
      OBVIOUS
    <3> QED BY <3>1, <3>2, <3>3 DEF LocalFits, LocalsAgree
  <2>2. 1 \in DOMAIN c.locals
    BY <1>2, SlotFacts
  <2> QED BY <2>1, <2>2, <1>1, <1>2 DEF Slots, LocalsAgree
<1> QED BY <1>1, <1>3, <1>5, FramedLevels DEF LocalsAgree

\* An empty scope is opened.
LEMMA FramedOpen ==
  ASSUME NEW c \in Compilers, NEW d \in Compilers, NEW k, NEW sc, NEW sc2,
         NEW fr \in Frames, NEW fr2 \in Frames, NEW dc \in Nat, Framed(sc, c, k, fr, dc),
         d.locals = c.locals, d.scope_depth = c.scope_depth + 1,
         fr2.base = fr.base, fr2.top = fr.top + 1, fr.wait = "no", fr2.wait = "no",
         \A h \in fr.base + 1..fr.top : sc2[h].names = sc[h].names,
         DOMAIN sc2[fr.top + 1].names = {}
  PROVE  Framed(sc2, d, k, fr2, dc)
<1>1. DOMAIN c.locals = 1..Len(c.locals) /\ DOMAIN d.locals = DOMAIN c.locals /\ Len(c.locals) \in Nat
  BY CompilerFacts
<1>2. Slots(c, k, fr, dc)
  BY DEF Framed
<1>3. fr.base \in Nat /\ fr.top \in Nat /\ c.scope_depth \in Nat /\ fr.base <= fr.top
      /\ fr.base + c.scope_depth = fr.top
  BY <1>2, SlotFacts, CompilerFacts
<1>4. \A i \in DOMAIN c.locals : Level(d, i, fr2) = Level(c, i, fr)
  <2>1. \A i \in DOMAIN c.locals : i # 1 => c.locals[i].depth # -1
    <3>1. \A i \in DOMAIN c.locals : i # 1 => i > 1
      BY <1>1
    <3> QED BY <3>1, <1>2 DEF Slots, LocalFits
  <2> QED BY <2>1 DEF Level
<1>5. \A i \in DOMAIN c.locals : IsBound(sc2, d, i, fr2) <=> IsBound(sc, c, i, fr)
  <2> SUFFICES ASSUME NEW i \in DOMAIN c.locals
               PROVE  IsBound(sc2, d, i, fr2) <=> IsBound(sc, c, i, fr)
    OBVIOUS
  <2> DEFINE h == Level(c, i, fr)
  <2>1. h \in Nat /\ h >= fr.base + 1 /\ Level(d, i, fr2) = h
    BY <1>2, <1>4, LevelFacts
  <2>2. h <= fr.top => h \in fr.base + 1..fr.top
    BY <2>1, <1>3
  <2>3. h <= fr2.top /\ ~(h <= fr.top) => h = fr.top + 1
    BY <2>1, <1>3
  <2>4. h <= fr.top => h <= fr2.top
    BY <2>1, <1>3
  <2>5. h = fr.top + 1 => ~IsBound(sc2, d, i, fr2)
    BY <2>1 DEF IsBound
  <2>6. IsBound(sc2, d, i, fr2) <=> h <= fr2.top /\ c.locals[i].name \in DOMAIN sc2[h].names
                                    /\ sc2[h].names[c.locals[i].name] = c.locals[i].id
    BY <2>1 DEF IsBound
  <2>7. IsBound(sc, c, i, fr) <=> h <= fr.top /\ c.locals[i].name \in DOMAIN sc[h].names
                                    /\ sc[h].names[c.locals[i].name] = c.locals[i].id
    BY DEF IsBound
  <2> HIDE DEF h
  <2> QED BY <2>2, <2>3, <2>4, <2>5, <2>6, <2>7
<1>6. Slots(d, k, fr2, dc)
  <2>1. \A i \in DOMAIN c.locals : i > 1 => LocalFits(d, i, fr2, dc)
    BY <1>2 DEF Slots, LocalFits
  <2>2. fr2.base + d.scope_depth = fr2.top
    BY <1>3
  <2> QED BY <2>1, <2>2, <1>2 DEF Slots
<1>7. Nested(sc2, d, fr2)
  BY <1>1, <1>4, <1>5 DEF Framed, Nested
<1>8. Covered(sc2, d, fr2)
  <2> SUFFICES ASSUME NEW h \in fr2.base + 1..fr2.top, NEW n \in DOMAIN sc2[h].names
               PROVE  \E i \in DOMAIN d.locals :
                        d.locals[i].name = n /\ Level(d, i, fr2) = h /\ IsBound(sc2, d, i, fr2)
    BY DEF Covered
  <2>1. h # fr.top + 1
    OBVIOUS
  <2>2. h \in fr.base + 1..fr.top /\ n \in DOMAIN sc[h].names
    BY <2>1, <1>3
  <2>3. PICK i \in DOMAIN c.locals :
               c.locals[i].name = n /\ Level(c, i, fr) = h /\ IsBound(sc, c, i, fr)
    BY <2>2 DEF Framed, Covered
  <2> QED BY <2>3, <1>1, <1>4, <1>5
<1>9. Known(sc2, d, fr2)
  BY <1>1, <1>5 DEF Framed, Known
<1> QED BY <1>6, <1>7, <1>8, <1>9 DEF Framed

\* Where no variable waits for its value, every local after slot 1 has its depth.
LEMMA NoneWaiting ==
  ASSUME NEW c \in Compilers, NEW k, NEW fr \in Frames, NEW dc \in Nat, Slots(c, k, fr, dc), fr.wait # "var"
  PROVE  \A i \in DOMAIN c.locals : i # 1 =>
           c.locals[i].depth \in Nat \ {0} /\ Level(c, i, fr) = fr.base + c.locals[i].depth
<1> SUFFICES ASSUME NEW i \in DOMAIN c.locals, i # 1
             PROVE  c.locals[i].depth \in Nat \ {0} /\ Level(c, i, fr) = fr.base + c.locals[i].depth
  OBVIOUS
<1>3. LocalFits(c, i, fr, dc)
  BY SlotFacts
<1>1. c.locals[i].depth # -1 /\ c.locals[i].depth # 0
  BY <1>3 DEF LocalFits
<1>2. c.locals[i].depth \in Nat \cup {-1}
  BY CompilerFacts
<1> QED BY <1>1, <1>2 DEF Level

\* The last declared local gets its value.
LEMMA FramedInitialize ==
  ASSUME NEW c \in Compilers, NEW d \in Compilers, NEW k, NEW sc,
         NEW fr \in Frames, NEW fr2 \in Frames, NEW dc \in Nat, Framed(sc, c, k, fr, dc),
         fr.wait = "var", fr2.wait = "no", fr2.base = fr.base, fr2.top = fr.top,
         d.scope_depth = c.scope_depth, Len(d.locals) = Len(c.locals),
         \A i \in DOMAIN c.locals :
           /\ d.locals[i].name = c.locals[i].name /\ d.locals[i].id = c.locals[i].id
           /\ d.locals[i].depth = IF i = Len(c.locals) THEN c.scope_depth ELSE c.locals[i].depth
  PROVE  Framed(sc, d, k, fr2, dc)
<1>1. DOMAIN c.locals = 1..Len(c.locals) /\ DOMAIN d.locals = DOMAIN c.locals /\ Len(c.locals) \in Nat
  BY CompilerFacts
<1>2. Slots(c, k, fr, dc)
  BY DEF Framed
<1>3. c.scope_depth > 0 /\ Len(c.locals) >= 2 /\ c.scope_depth \in Nat /\ fr.base + c.scope_depth = fr.top
  BY <1>2, SlotFacts, CompilerFacts
<1>4. \A i \in DOMAIN c.locals : i # 1 => LocalFits(c, i, fr, dc) /\ LocalFits(d, i, fr2, dc)
  <2> SUFFICES ASSUME NEW i \in DOMAIN c.locals, i # 1
               PROVE  LocalFits(c, i, fr, dc) /\ LocalFits(d, i, fr2, dc)
    OBVIOUS
  <2>1. LocalFits(c, i, fr, dc)
    BY <1>2, SlotFacts
  <2>2. d.locals[i].depth # -1 /\ d.locals[i].depth # 0
    BY <2>1, <1>3 DEF LocalFits
  <2> QED BY <2>1, <2>2 DEF LocalFits
<1>5. \A i \in DOMAIN c.locals : Level(d, i, fr2) = Level(c, i, fr)
  <2> SUFFICES ASSUME NEW i \in DOMAIN c.locals PROVE Level(d, i, fr2) = Level(c, i, fr)
    OBVIOUS
  <2>1. CASE i = 1
    BY <2>1 DEF Level
  <2>2. CASE i # 1
    <3>1. (c.locals[i].depth = -1) <=> (i = Len(c.locals))
      BY <1>4, <2>2 DEF LocalFits
    <3>2. d.locals[i].depth # -1
      BY <1>4, <2>2 DEF LocalFits
    <3> QED BY <3>1, <3>2, <2>2, <1>3 DEF Level
  <2> QED BY <2>1, <2>2
<1>6. Slots(d, k, fr2, dc)
  <2>1. \A i \in DOMAIN d.locals : i > 1 => LocalFits(d, i, fr2, dc)
    BY <1>1, <1>4
  <2>2. d.locals[1].name = c.locals[1].name /\ d.locals[1].id = c.locals[1].id
        /\ d.locals[1].depth = c.locals[1].depth /\ Len(d.locals) >= 1
    BY <1>1, <1>3
  <2> QED BY <2>1, <2>2, <1>2 DEF Slots
<1> QED BY <1>1, <1>2, <1>5, <1>6, FramedLevels

\* The locals after the kept are those of the innermost scope, and are gone.
Cut(c, d, kept) ==
  /\ d.scope_depth = c.scope_depth - 1 /\ Len(d.locals) = kept
  /\ \A i \in 1..kept : d.locals[i] = c.locals[i]
  /\ c.locals[kept].depth < c.scope_depth
  /\ \A j \in DOMAIN c.locals : j > kept => c.locals[j].depth >= c.scope_depth

SameNames(sc, sc2, lo, hi) == \A h \in lo..hi : sc2[h].names = sc[h].names

\* No scope of the frame names the function's own slot.
Nameless(sc, fr) == \A h \in fr.base + 1..fr.top : "" \notin DOMAIN sc[h].names

\* The innermost scope is closed, and its locals are gone.
LEMMA FramedClose ==
  ASSUME NEW c \in Compilers, NEW d \in Compilers, NEW k, NEW sc, NEW sc2, NEW kept, kept \in DOMAIN c.locals,
         NEW fr \in Frames, NEW fr2 \in Frames, NEW dc \in Nat, Framed(sc, c, k, fr, dc),
         fr.wait = "no", fr2.wait = "no", fr2.base = fr.base, fr2.top = fr.top - 1,
         c.scope_depth > 0, k = 1 \/ fr2.top > fr.base,
         Cut(c, d, kept), SameNames(sc, sc2, fr.base + 1, fr.top - 1), Nameless(sc, fr)
  PROVE  Framed(sc2, d, k, fr2, dc)
<1>1. DOMAIN c.locals = 1..Len(c.locals) /\ DOMAIN d.locals = 1..kept /\ Len(c.locals) \in Nat
      /\ kept \in Nat /\ kept <= Len(c.locals) /\ kept >= 1
  <2>1. DOMAIN c.locals = 1..Len(c.locals) /\ Len(c.locals) \in Nat
    BY CompilerFacts
  <2>2. DOMAIN d.locals = 1..Len(d.locals)
    BY CompilerFacts
  <2> QED BY <2>1, <2>2 DEF Cut
<1>2. Slots(c, k, fr, dc)
  BY DEF Framed
<1>3. /\ fr.base \in Nat /\ fr.top \in Nat /\ c.scope_depth \in Nat /\ fr.base + c.scope_depth = fr.top
      /\ fr.base < fr.top
  <2>1. fr.base \in Nat /\ fr.top \in Nat /\ fr.base + c.scope_depth = fr.top
    BY <1>2, SlotFacts, Zenon
  <2>2. c.scope_depth \in Nat
    BY CompilerFacts
  <2> QED BY <2>1, <2>2
<1>4. \A i \in 1..kept : i \in DOMAIN c.locals /\ Level(d, i, fr2) = Level(c, i, fr)
      /\ Level(c, i, fr) \in Nat /\ Level(c, i, fr) >= fr.base + 1
  <2>1. \A i \in 1..kept : i \in DOMAIN c.locals
    BY <1>1
  <2>2. \A i \in 1..kept : i # 1 => c.locals[i].depth # -1
    <3>1. \A i \in 1..kept : i # 1 => LocalFits(c, i, fr, dc)
      BY <2>1, <1>2, SlotFacts
    <3> QED BY <3>1 DEF LocalFits
  <2>3. \A i \in 1..kept : Level(d, i, fr2) = Level(c, i, fr)
    BY <2>2 DEF Level, Cut
  <2> QED BY <2>1, <2>3, <1>2, LevelFacts
<1>5. \A i \in 1..kept : IsBound(sc, c, i, fr) => Level(c, i, fr) < fr.top
  <2> SUFFICES ASSUME NEW i \in 1..kept, IsBound(sc, c, i, fr) PROVE Level(c, i, fr) < fr.top
    OBVIOUS
  <2>1. CASE i = 1
    <3>1. Level(c, i, fr) = fr.base + 1 /\ c.locals[1].name \in DOMAIN sc[fr.base + 1].names
      BY <2>1 DEF IsBound, Level
    <3>2. fr.base + 1 \in fr.base + 1..fr.top
      BY <1>3
    <3>3. c.locals[1].name # ""
      BY <3>1, <3>2 DEF Nameless
    <3>4. k # 1
      BY <3>3, <1>2, SlotFacts
    <3> QED BY <3>1, <3>4, <1>3
  <2>2. CASE i # 1
    <3>1. kept # 1 /\ Level(c, kept, fr) < fr.top
      <4>1. kept # 1
        BY <2>2, <1>1
      <4>2. Level(c, kept, fr) = fr.base + c.locals[kept].depth /\ c.locals[kept].depth \in Nat
        BY <4>1, <1>2, NoneWaiting
      <4> QED BY <4>1, <4>2, <1>3 DEF Cut
    <3>2. i < kept => Level(c, i, fr) <= Level(c, kept, fr)
      BY <1>4 DEF Framed, Nested
    <3>3. Level(c, i, fr) \in Nat /\ Level(c, kept, fr) \in Nat
      BY <1>1, <1>4
    <3> QED BY <3>1, <3>2, <3>3, <1>1, <1>3
  <2> QED BY <2>1, <2>2
<1>6. \A i \in 1..kept : IsBound(sc2, d, i, fr2) <=> IsBound(sc, c, i, fr)
  <2> SUFFICES ASSUME NEW i \in 1..kept
               PROVE  IsBound(sc2, d, i, fr2) <=> IsBound(sc, c, i, fr)
    OBVIOUS
  <2> DEFINE h == Level(c, i, fr)
             n == c.locals[i].name
  <2>1. h \in Nat /\ h >= fr.base + 1
    BY <1>4
  <2>2. IsBound(sc2, d, i, fr2) <=> h <= fr.top - 1 /\ n \in DOMAIN sc2[h].names
                                    /\ sc2[h].names[n] = c.locals[i].id
    BY <1>4 DEF IsBound, Cut
  <2>3. IsBound(sc, c, i, fr) <=> h <= fr.top /\ n \in DOMAIN sc[h].names
                                    /\ sc[h].names[n] = c.locals[i].id
    BY DEF IsBound
  <2>4. h <= fr.top - 1 => h \in fr.base + 1..fr.top - 1 /\ h <= fr.top
    BY <2>1, <1>3
  <2>5. h < fr.top => h <= fr.top - 1
    BY <2>1, <1>3
  <2>6. IsBound(sc, c, i, fr) => h <= fr.top - 1
    BY <2>5, <1>5
  <2> HIDE DEF h, n
  <2> QED BY <2>2, <2>3, <2>4, <2>6 DEF SameNames
<1>7. Slots(d, k, fr2, dc)
  <2>1. ASSUME NEW i \in DOMAIN d.locals, i > 1 PROVE LocalFits(d, i, fr2, dc)
    <3>0. i \in DOMAIN c.locals /\ i # 1 /\ i \in 1..kept
      BY <2>1, <1>1
    <3>1. LocalFits(c, i, fr, dc) /\ d.locals[i] = c.locals[i]
      BY <3>0, <1>2, SlotFacts DEF Cut
    <3> QED BY <3>1 DEF LocalFits
  <2>2. d.locals[1] = c.locals[1] /\ fr2.base + d.scope_depth = fr2.top
    BY <1>1, <1>3 DEF Cut
  <2> QED BY <2>1, <2>2, <1>1, <1>2 DEF Slots, Cut
<1>8. Nested(sc2, d, fr2)
  BY <1>1, <1>4, <1>6 DEF Framed, Nested, Cut
<1>9. Covered(sc2, d, fr2)
  <2> SUFFICES ASSUME NEW h \in fr2.base + 1..fr2.top, NEW n \in DOMAIN sc2[h].names
               PROVE  \E i \in DOMAIN d.locals :
                        d.locals[i].name = n /\ Level(d, i, fr2) = h /\ IsBound(sc2, d, i, fr2)
    BY DEF Covered
  <2>1. h \in fr.base + 1..fr.top /\ n \in DOMAIN sc[h].names /\ h < fr.top
    BY <1>3 DEF SameNames
  <2>2. PICK i \in DOMAIN c.locals :
               c.locals[i].name = n /\ Level(c, i, fr) = h /\ IsBound(sc, c, i, fr)
    BY <2>1 DEF Framed, Covered
  <2>3. i <= kept
    <3> SUFFICES ASSUME i > kept PROVE FALSE
      BY <1>1
    <3>1. i # 1 /\ c.locals[i].depth >= c.scope_depth
      BY <1>1 DEF Cut
    <3>2. h = fr.base + c.locals[i].depth /\ c.locals[i].depth \in Nat
      BY <3>1, <2>2, <1>2, NoneWaiting
    <3> QED BY <3>1, <3>2, <2>1, <1>3
  <2>4. i \in 1..kept
    BY <2>3, <1>1
  <2> QED BY <2>2, <2>4, <1>1, <1>4, <1>6 DEF Cut
<1>10. Known(sc2, d, fr2)
  BY <1>1, <1>4, <1>6 DEF Framed, Known, Cut
<1> QED BY <1>7, <1>8, <1>9, <1>10 DEF Framed

\* The scope of a superclass is closed, and its local is left behind.
LEMMA FramedEndSuper ==
  ASSUME NEW c \in Compilers, NEW d \in Compilers, NEW k, NEW sc, NEW sc2,
         NEW fr \in Frames, NEW fr2 \in Frames, NEW dc \in Nat, Framed(sc, c, k, fr, dc),
         fr.wait = "no", fr2.wait = "no", fr2.base = fr.base, fr2.top = fr.top - 1,
         c.scope_depth > 0, d.scope_depth = c.scope_depth - 1, d.locals = c.locals,
         DOMAIN sc[fr.top].names = {"super"},
         SameNames(sc, sc2, fr.base + 1, fr.top - 1)
  PROVE  Framed(sc2, d, k, fr2, dc)
<1>1. DOMAIN c.locals = 1..Len(c.locals) /\ Len(c.locals) \in Nat
  BY CompilerFacts
<1>2. Slots(c, k, fr, dc)
  BY DEF Framed
<1>3. /\ fr.base \in Nat /\ fr.top \in Nat /\ c.scope_depth \in Nat /\ fr.base + c.scope_depth = fr.top
      /\ fr.base < fr.top
  <2>1. fr.base \in Nat /\ fr.top \in Nat
    BY DEF Frames
  <2>3. fr.base + c.scope_depth = fr.top
    BY <1>2 DEF Slots
  <2>2. c.scope_depth \in Nat
    BY CompilerFacts
  <2> QED BY <2>1, <2>2, <2>3
<1>4. \A i \in DOMAIN c.locals : Level(d, i, fr2) = Level(c, i, fr)
      /\ Level(c, i, fr) \in Nat /\ Level(c, i, fr) >= fr.base + 1
  <2>1. \A i \in DOMAIN c.locals : i # 1 => c.locals[i].depth # -1
    <3>1. \A i \in DOMAIN c.locals : i # 1 => LocalFits(c, i, fr, dc)
      BY <1>2, SlotFacts
    <3> QED BY <3>1 DEF LocalFits
  <2>2. \A i \in DOMAIN c.locals : Level(d, i, fr2) = Level(c, i, fr)
    BY <2>1 DEF Level
  <2> QED BY <2>2, <1>2, LevelFacts
<1>5. \A i \in DOMAIN c.locals :
        /\ IsBound(sc2, d, i, fr2) => IsBound(sc, c, i, fr)
        /\ IsBound(sc, c, i, fr) => IsBound(sc2, d, i, fr2) \/ c.locals[i].name = "super"
        /\ IsBound(sc, c, i, fr) /\ Level(c, i, fr) < fr.top => IsBound(sc2, d, i, fr2)
  <2> SUFFICES ASSUME NEW i \in DOMAIN c.locals
               PROVE  /\ IsBound(sc2, d, i, fr2) => IsBound(sc, c, i, fr)
                      /\ IsBound(sc, c, i, fr) => IsBound(sc2, d, i, fr2) \/ c.locals[i].name = "super"
                      /\ IsBound(sc, c, i, fr) /\ Level(c, i, fr) < fr.top => IsBound(sc2, d, i, fr2)
    OBVIOUS
  <2> DEFINE h == Level(c, i, fr)
             n == c.locals[i].name
  <2>1. h \in Nat /\ h >= fr.base + 1
    BY <1>4
  <2>2. IsBound(sc2, d, i, fr2) <=> h <= fr.top - 1 /\ n \in DOMAIN sc2[h].names
                                    /\ sc2[h].names[n] = c.locals[i].id
    BY <1>4 DEF IsBound
  <2>3. IsBound(sc, c, i, fr) <=> h <= fr.top /\ n \in DOMAIN sc[h].names
                                    /\ sc[h].names[n] = c.locals[i].id
    BY DEF IsBound
  <2>4. h <= fr.top - 1 => h \in fr.base + 1..fr.top - 1 /\ h <= fr.top
    <3> HIDE DEF h
    <3> QED BY <2>1, <1>3
  <2>5. (h <= fr.top => h = fr.top \/ h <= fr.top - 1) /\ (h < fr.top => h <= fr.top - 1)
    <3> HIDE DEF h
    <3> QED BY <2>1, <1>3
  <2> HIDE DEF h, n
  <2>7. IsBound(sc2, d, i, fr2) => IsBound(sc, c, i, fr)
    BY <2>2, <2>3, <2>4 DEF SameNames
  <2>8. IsBound(sc, c, i, fr) /\ h <= fr.top - 1 => IsBound(sc2, d, i, fr2)
    BY <2>2, <2>3, <2>4 DEF SameNames
  <2>9. IsBound(sc, c, i, fr) /\ h = fr.top => n = "super"
    BY <2>3
  <2>10. IsBound(sc, c, i, fr) => h <= fr.top
    BY <2>3
  <2> QED BY <2>5, <2>7, <2>8, <2>9, <2>10 DEF h, n
<1>7. Slots(d, k, fr2, dc)
  <2>1. \A i \in DOMAIN c.locals : i > 1 => LocalFits(d, i, fr2, dc)
    BY <1>2 DEF Slots, LocalFits
  <2>2. fr2.base + d.scope_depth = fr2.top
    BY <1>3
  <2> QED BY <2>1, <2>2, <1>2 DEF Slots
<1>8. Nested(sc2, d, fr2)
  BY <1>4, <1>5 DEF Framed, Nested
<1>9. Covered(sc2, d, fr2)
  <2> SUFFICES ASSUME NEW h \in fr2.base + 1..fr2.top, NEW n \in DOMAIN sc2[h].names
               PROVE  \E i \in DOMAIN d.locals :
                        d.locals[i].name = n /\ Level(d, i, fr2) = h /\ IsBound(sc2, d, i, fr2)
    BY DEF Covered
  <2>1. h \in fr.base + 1..fr.top /\ n \in DOMAIN sc[h].names /\ h < fr.top
    BY <1>3 DEF SameNames
  <2>2. PICK i \in DOMAIN c.locals :
               c.locals[i].name = n /\ Level(c, i, fr) = h /\ IsBound(sc, c, i, fr)
    BY <2>1 DEF Framed, Covered
  <2> QED BY <2>1, <2>2, <1>4, <1>5
<1>10. Known(sc2, d, fr2)
  BY <1>5 DEF Framed, Known
<1> QED BY <1>7, <1>8, <1>9, <1>10 DEF Framed

\* One more local, of the innermost scope.
Added(c, d, name, dp, id) ==
  /\ d.scope_depth = c.scope_depth /\ Len(d.locals) = Len(c.locals) + 1
  /\ \A i \in DOMAIN c.locals : d.locals[i] = c.locals[i]
  /\ d.locals[Len(c.locals) + 1].name = name /\ d.locals[Len(c.locals) + 1].depth = dp
  /\ d.locals[Len(c.locals) + 1].id = id /\ d.locals[Len(c.locals) + 1].is_captured = FALSE

\* The innermost scope names it.
NamedIn(sc, sc2, top, name, id) ==
  /\ DOMAIN sc2[top].names = DOMAIN sc[top].names \cup {name}
  /\ sc2[top].names[name] = id
  /\ \A n \in DOMAIN sc[top].names : n # name => sc2[top].names[n] = sc[top].names[n]

\* No local of the frame is the variable.
IsNew(c, id) == \A i \in DOMAIN c.locals : c.locals[i].id # id

\* A name that may be declared is not declared in the innermost scope.
LEMMA NotYetNamed ==
  ASSUME NEW c \in Compilers, NEW k, NEW sc, NEW fr \in Frames, NEW dc \in Nat, Framed(sc, c, k, fr, dc),
         NEW name \in Names, c.scope_depth > 0, ~Undeclarable(c, name)
  PROVE  name \notin DOMAIN sc[fr.top].names
<1> SUFFICES ASSUME name \in DOMAIN sc[fr.top].names PROVE FALSE
  OBVIOUS
<1>1. Slots(c, k, fr, dc)
  BY DEF Framed
<1>2. fr.base \in Nat /\ fr.top \in Nat /\ c.scope_depth \in Nat
  BY CompilerFacts DEF Frames
<1>3. fr.base + c.scope_depth = fr.top
  BY <1>1 DEF Slots
<1>4. fr.top \in fr.base + 1..fr.top
  BY <1>2, <1>3
<1>5. PICK i \in DOMAIN c.locals :
             c.locals[i].name = name /\ Level(c, i, fr) = fr.top /\ IsBound(sc, c, i, fr)
  BY <1>4 DEF Framed, Covered
<1>6. DOMAIN c.locals = 1..Len(c.locals) /\ Len(c.locals) \in Nat
  BY CompilerFacts
<1>7. ~ i \in InScope(c)
  BY <1>5 DEF Undeclarable
<1>8. PICK j \in i..Len(c.locals) : ~(c.locals[j].depth = -1 \/ c.locals[j].depth >= c.scope_depth)
  BY <1>5, <1>7 DEF InScope
<1>9. j \in DOMAIN c.locals /\ j \in Int /\ i \in Int /\ i <= j
  BY <1>5, <1>6, <1>8
<1>10. c.locals[j].depth \in Nat \cup {-1}
  BY <1>9, CompilerFacts
<1>11. j # 1
  <2> SUFFICES ASSUME j = 1 PROVE FALSE
    OBVIOUS
  <2>1. i = 1
    BY <1>5, <1>6, <1>9
  <2>2. c.locals[1].name \in {"", "self"}
    BY <1>1 DEF Slots
  <2>3. name # "" /\ name # "self"
    BY NamesAreIdentifiers
  <2> QED BY <2>1, <2>2, <2>3, <1>5
<1>12. Level(c, j, fr) = fr.base + c.locals[j].depth /\ Level(c, j, fr) < fr.top
  BY <1>2, <1>3, <1>8, <1>10, <1>11 DEF Level
<1>13. Level(c, i, fr) <= Level(c, j, fr)
  <2>1. CASE i = j
    BY <2>1, <1>2, <1>12, <1>10
  <2>2. CASE i # j
    BY <2>2, <1>5, <1>9 DEF Framed, Nested
  <2> QED BY <2>1, <2>2
<1> QED BY <1>2, <1>5, <1>10, <1>12, <1>13

\* A local is declared.
LEMMA FramedDeclare ==
  ASSUME NEW c \in Compilers, NEW d \in Compilers, NEW k, NEW sc, NEW sc2,
         NEW fr \in Frames, NEW fr2 \in Frames, NEW dc \in Nat, NEW dc2 \in Nat, dc <= dc2,
         Framed(sc, c, k, fr, dc), c.scope_depth > 0, fr.wait = "no",
         fr2.base = fr.base, fr2.top = fr.top,
         NEW name \in Names \cup {"super"}, NEW dp, NEW id,
         Added(c, d, name, dp, id), IsNew(c, id), NEW m \in 1..dc2, id = <<"declaration", m>>,
         dp = IF fr2.wait = "var" THEN -1 ELSE c.scope_depth,
         name \notin DOMAIN sc[fr.top].names, NamedIn(sc, sc2, fr.top, name, id),
         SameNames(sc, sc2, fr.base + 1, fr.top - 1)
  PROVE  Framed(sc2, d, k, fr2, dc2)
<1> DEFINE e == Len(c.locals) + 1
<1>1. DOMAIN c.locals = 1..Len(c.locals) /\ DOMAIN d.locals = 1..e /\ Len(c.locals) \in Nat
  <2>1. DOMAIN c.locals = 1..Len(c.locals) /\ Len(c.locals) \in Nat
    BY CompilerFacts
  <2>2. DOMAIN d.locals = 1..Len(d.locals)
    BY CompilerFacts
  <2> QED BY <2>1, <2>2 DEF Added
<1>2. Slots(c, k, fr, dc) /\ Len(c.locals) >= 1
  BY DEF Framed, Slots
<1>3. /\ fr.base \in Nat /\ fr.top \in Nat /\ c.scope_depth \in Nat /\ fr.base + c.scope_depth = fr.top
      /\ fr.base < fr.top
  <2>1. fr.base \in Nat /\ fr.top \in Nat /\ c.scope_depth \in Nat
    BY CompilerFacts DEF Frames
  <2>2. fr.base + c.scope_depth = fr.top
    BY <1>2 DEF Slots
  <2> QED BY <2>1, <2>2
<1>4. \A i \in DOMAIN c.locals : Level(d, i, fr2) = Level(c, i, fr)
      /\ Level(c, i, fr) \in Nat /\ Level(c, i, fr) >= fr.base + 1
  <2>1. \A i \in DOMAIN c.locals : i # 1 => LocalFits(c, i, fr, dc)
    BY <1>2, SlotFacts
  <2>2. \A i \in DOMAIN c.locals : i # 1 => c.locals[i].depth # -1
    BY <2>1 DEF LocalFits
  <2>3. \A i \in DOMAIN c.locals : Level(d, i, fr2) = Level(c, i, fr)
    BY <2>2 DEF Level, Added
  <2> QED BY <2>3, <1>2, LevelFacts
<1>5. \A i \in DOMAIN c.locals : IsBound(sc2, d, i, fr2) <=> IsBound(sc, c, i, fr)
  <2> SUFFICES ASSUME NEW i \in DOMAIN c.locals
               PROVE  IsBound(sc2, d, i, fr2) <=> IsBound(sc, c, i, fr)
    OBVIOUS
  <2> DEFINE h == Level(c, i, fr)
             n == c.locals[i].name
  <2>1. h \in Nat /\ h >= fr.base + 1
    BY <1>4
  <2>2. IsBound(sc2, d, i, fr2) <=> h <= fr.top /\ n \in DOMAIN sc2[h].names
                                    /\ sc2[h].names[n] = c.locals[i].id
    BY <1>4 DEF IsBound, Added
  <2>3. IsBound(sc, c, i, fr) <=> h <= fr.top /\ n \in DOMAIN sc[h].names
                                    /\ sc[h].names[n] = c.locals[i].id
    BY DEF IsBound
  <2>4. c.locals[i].id # id
    BY DEF IsNew
  <2>5. h <= fr.top => h = fr.top \/ h \in fr.base + 1..fr.top - 1
    <3> HIDE DEF h
    <3> QED BY <2>1, <1>3
  <2> HIDE DEF h, n
  <2>6. CASE h = fr.top
    <3>1. n # name => (n \in DOMAIN sc2[h].names <=> n \in DOMAIN sc[h].names)
      BY <2>6 DEF NamedIn
    <3>2. n # name /\ n \in DOMAIN sc[h].names => sc2[h].names[n] = sc[h].names[n]
      BY <2>6 DEF NamedIn
    <3>3. n = name => ~IsBound(sc, c, i, fr) /\ ~IsBound(sc2, d, i, fr2)
      BY <2>2, <2>3, <2>4, <2>6 DEF NamedIn
    <3> QED BY <3>1, <3>2, <3>3, <2>2, <2>3
  <2>7. CASE h \in fr.base + 1..fr.top - 1
    BY <2>2, <2>3, <2>7 DEF SameNames
  <2> QED BY <2>2, <2>3, <2>5, <2>6, <2>7
<1>6. Level(d, e, fr2) = fr.top /\ IsBound(sc2, d, e, fr2) /\ d.locals[e].name = name
  <2>1. d.locals[e].name = name /\ d.locals[e].depth = dp /\ d.locals[e].id = id
    BY DEF Added
  <2>2. e # 1
    BY <1>1, <1>2
  <2>3. Level(d, e, fr2) = fr.top
    BY <2>1, <2>2, <1>3 DEF Level
  <2>4. name \in DOMAIN sc2[fr.top].names /\ sc2[fr.top].names[name] = id
    BY DEF NamedIn
  <2> HIDE DEF e
  <2> QED BY <2>1, <2>3, <2>4, <1>3 DEF IsBound
<1>7. Slots(d, k, fr2, dc2)
  <2>1. ASSUME NEW i \in DOMAIN d.locals, i > 1 PROVE LocalFits(d, i, fr2, dc2)
    <3>1. CASE i = e
      <4>1. d.locals[e].name = name /\ d.locals[e].depth = dp /\ d.locals[e].id = id /\ Len(d.locals) = e
        BY DEF Added
      <4>2. dp # 0 /\ (dp = -1 <=> fr2.wait = "var")
        BY <1>3
      <4> HIDE DEF e
      <4> QED BY <4>1, <4>2, <3>1 DEF LocalFits
    <3>2. CASE i # e
      <4>1. i \in DOMAIN c.locals /\ i # 1 /\ i # Len(d.locals)
        BY <3>2, <2>1, <1>1 DEF Added
      <4>2. LocalFits(c, i, fr, dc) /\ d.locals[i] = c.locals[i]
        BY <4>1, <1>2, SlotFacts DEF Added
      <4>3. PICK o \in 1..dc : c.locals[i].id = <<"declaration", o>>
        BY <4>2 DEF LocalFits
      <4>4. o \in 1..dc2
        BY <4>3
      <4> QED BY <4>1, <4>2, <4>3, <4>4 DEF LocalFits
    <3> QED BY <3>1, <3>2
  <2>2. d.locals[1] = c.locals[1] /\ Len(d.locals) >= 2 /\ d.scope_depth = c.scope_depth
    <3>1. 1 \in DOMAIN c.locals
      BY <1>1, <1>2
    <3>2. Len(d.locals) >= 2
      BY <1>1, <1>2 DEF Added
    <3> QED BY <3>1, <3>2 DEF Added
  <2>3. Len(d.locals) >= 1 /\ fr2.base + d.scope_depth = fr2.top
    BY <2>2, <1>1, <1>3
  <2> QED BY <2>1, <2>2, <2>3, <1>2 DEF Slots
<1>8. Nested(sc2, d, fr2)
  <2> SUFFICES ASSUME NEW i \in DOMAIN d.locals, NEW j \in DOMAIN d.locals, i < j, IsBound(sc2, d, i, fr2)
               PROVE  Level(d, i, fr2) <= Level(d, j, fr2)
    BY DEF Nested
  <2>1. i \in DOMAIN c.locals
    BY <1>1
  <2>2. CASE j = e
    <3>1. Level(d, i, fr2) <= fr2.top
      BY DEF IsBound
    <3> QED BY <2>2, <3>1, <1>6
  <2>3. CASE j # e
    <3>1. j \in DOMAIN c.locals
      BY <2>3, <1>1
    <3> QED BY <2>1, <3>1, <1>4, <1>5 DEF Framed, Nested
  <2> QED BY <2>2, <2>3
<1>9. Covered(sc2, d, fr2)
  <2> SUFFICES ASSUME NEW h \in fr.base + 1..fr.top, NEW n \in DOMAIN sc2[h].names
               PROVE  \E i \in DOMAIN d.locals :
                        d.locals[i].name = n /\ Level(d, i, fr2) = h /\ IsBound(sc2, d, i, fr2)
    BY DEF Covered
  <2>1. CASE h = fr.top /\ n = name
    <3>1. e \in DOMAIN d.locals
      BY <1>1
    <3> HIDE DEF e
    <3> QED BY <2>1, <3>1, <1>6
  <2>2. CASE ~(h = fr.top /\ n = name)
    <3>1. n \in DOMAIN sc[h].names
      <4>1. CASE h = fr.top
        BY <4>1, <2>2 DEF NamedIn
      <4>2. CASE h # fr.top
        <5>1. h \in fr.base + 1..fr.top - 1
          BY <4>2, <1>3
        <5> QED BY <5>1 DEF SameNames
      <4> QED BY <4>1, <4>2
    <3>2. PICK i \in DOMAIN c.locals :
                 c.locals[i].name = n /\ Level(c, i, fr) = h /\ IsBound(sc, c, i, fr)
      BY <3>1 DEF Framed, Covered
    <3>3. i \in DOMAIN d.locals /\ d.locals[i].name = c.locals[i].name
      BY <3>2, <1>1 DEF Added
    <3> QED BY <3>2, <3>3, <1>4, <1>5
  <2> QED BY <2>1, <2>2
<1>10. Known(sc2, d, fr2)
  <2> SUFFICES ASSUME NEW i \in DOMAIN d.locals
               PROVE  d.locals[i].name \in {"", "super"} \/ IsBound(sc2, d, i, fr2)
    BY DEF Known
  <2>1. CASE i = e
    BY <2>1, <1>6
  <2>2. CASE i # e
    <3>1. i \in DOMAIN c.locals
      BY <2>2, <1>1
    <3>2. d.locals[i] = c.locals[i]
      BY <3>1 DEF Added
    <3> QED BY <3>1, <3>2, <1>5 DEF Framed, Known
  <2> QED BY <2>1, <2>2
<1> QED BY <1>7, <1>8, <1>9, <1>10 DEF Framed

\* A function begins, with its own slot and its own scope.
OwnSlot(d, k) ==
  /\ d.scope_depth = 1 /\ Len(d.locals) = 1
  /\ d.locals[1].name \in {"", "self"} /\ d.locals[1].depth = 0 /\ d.locals[1].id = <<"callee", k>>

OwnScope(sc, d, k, top) ==
  /\ DOMAIN sc[top].names = {d.locals[1].name} \ {""}
  /\ d.locals[1].name = "self" => sc[top].names["self"] = <<"callee", k>>

\* A function that begins, with its own slot and its own scope, is framed.
LEMMA FramedNew ==
  ASSUME NEW d \in Compilers, NEW k \in Nat, k > 1, NEW sc, NEW fr \in Frames, NEW dc \in Nat,
         fr.top = fr.base + 1, fr.wait = "no", OwnSlot(d, k), OwnScope(sc, d, k, fr.top)
  PROVE  Framed(sc, d, k, fr, dc)
<1>1. DOMAIN d.locals = {1} /\ fr.base \in Nat
  <2>1. DOMAIN d.locals = 1..Len(d.locals)
    BY CompilerFacts
  <2>2. DOMAIN d.locals = 1..1
    BY <2>1 DEF OwnSlot
  <2>3. 1..1 = {1}
    OBVIOUS
  <2>4. fr.base \in Nat
    BY DEF Frames
  <2> QED BY <2>2, <2>3, <2>4
<1>2. Level(d, 1, fr) = fr.top
  BY DEF Level
<1>3. d.locals[1].name = "self" => IsBound(sc, d, 1, fr)
  <2> SUFFICES ASSUME d.locals[1].name = "self" PROVE IsBound(sc, d, 1, fr)
    OBVIOUS
  <2>1. fr.top <= fr.top
    BY <1>1
  <2>2. "self" \in DOMAIN sc[fr.top].names /\ sc[fr.top].names["self"] = d.locals[1].id
    BY DEF OwnScope, OwnSlot
  <2> QED BY <1>2, <2>1, <2>2 DEF IsBound
<1>4. Slots(d, k, fr, dc)
  <2>1. \A i \in DOMAIN d.locals : i > 1 => LocalFits(d, i, fr, dc)
    BY <1>1
  <2>2. k # 1
    OBVIOUS
  <2>3. d.scope_depth = 1 /\ Len(d.locals) = 1
    BY DEF OwnSlot
  <2>4. fr.base + d.scope_depth = fr.top /\ Len(d.locals) >= 1
    BY <2>3, <1>1
  <2> QED BY <2>1, <2>2, <2>4 DEF Slots, OwnSlot
<1>5. Nested(sc, d, fr)
  <2>1. \A i, j \in {1} : ~(i < j)
    OBVIOUS
  <2> QED BY <1>1, <2>1 DEF Nested
<1>6. Covered(sc, d, fr)
  <2> SUFFICES ASSUME NEW h \in fr.base + 1..fr.top, NEW n \in DOMAIN sc[h].names
               PROVE  \E i \in DOMAIN d.locals :
                        d.locals[i].name = n /\ Level(d, i, fr) = h /\ IsBound(sc, d, i, fr)
    BY DEF Covered
  <2>1. h = fr.top
    BY <1>1
  <2>2. n = d.locals[1].name /\ n = "self"
    BY <2>1 DEF OwnScope, OwnSlot
  <2> QED BY <2>1, <2>2, <1>1, <1>2, <1>3
<1>7. Known(sc, d, fr)
  <2>1. d.locals[1].name = "" \/ IsBound(sc, d, 1, fr)
    BY <1>3 DEF OwnSlot
  <2> QED BY <1>1, <2>1 DEF Known
<1> QED BY <1>4, <1>5, <1>6, <1>7 DEF Framed

-----------------------------------------------------------------------------
(* The chain of compilers.                                                 *)

Typed(cs, sc, f) == cs \in Seq(Compilers) /\ sc \in Seq(LexicalScopes) /\ f \in Seq(Frames)

AllFramed(sc, cs, f, dc) == \A k \in DOMAIN cs : Framed(sc, cs[k], k, f[k], dc)

Core(cs, sc, cp, dc, f) ==
  /\ Typed(cs, sc, f) /\ dc \in Nat
  /\ Chained(sc, cs, f) /\ AllFramed(sc, cs, f, dc)
  /\ Apart(cs) /\ MarkedAsRead(cs, cp, dc) /\ UpvaluesFit(cs)

\* What the types of the chain of compilers say of each of them.
LEMMA TypedFacts ==
  ASSUME NEW cs, NEW sc, NEW f, Typed(cs, sc, f), Chained(sc, cs, f)
  PROVE  /\ Len(cs) \in Nat /\ Len(cs) >= 1 /\ DOMAIN cs = 1..Len(cs) /\ Len(cs) \in DOMAIN cs
         /\ \A k \in DOMAIN cs : cs[k] \in Compilers
         /\ Len(sc) \in Nat /\ DOMAIN sc = 1..Len(sc)
         /\ \A h \in DOMAIN sc : sc[h] \in LexicalScopes
         /\ Len(f) = Len(cs) /\ DOMAIN f = 1..Len(cs)
         /\ \A k \in DOMAIN cs : f[k] \in Frames /\ f[k].base \in Nat /\ f[k].top \in Nat
         /\ \A k \in DOMAIN cs : f[k].top <= Len(sc)
<1>1. Len(cs) \in Nat /\ DOMAIN cs = 1..Len(cs) /\ \A k \in DOMAIN cs : cs[k] \in Compilers
  BY DEF Typed
<1>2. Len(sc) \in Nat /\ DOMAIN sc = 1..Len(sc) /\ \A h \in DOMAIN sc : sc[h] \in LexicalScopes
  BY DEF Typed
<1>3. DOMAIN f = 1..Len(f) /\ \A k \in DOMAIN f : f[k] \in Frames
  BY DEF Typed
<1>4. Len(cs) >= 1 /\ Len(f) = Len(cs) /\ f[Len(cs)].top = Len(sc)
  BY DEF Chained
<1>5. Len(cs) \in DOMAIN cs
  BY <1>1, <1>4
<1>6. \A k \in DOMAIN cs : f[k] \in Frames /\ f[k].base \in Nat /\ f[k].top \in Nat
  BY <1>1, <1>3, <1>4 DEF Frames
<1>7. \A k \in DOMAIN cs : f[k].top <= Len(sc)
  <2> SUFFICES ASSUME NEW k \in DOMAIN cs PROVE f[k].top <= Len(sc)
    OBVIOUS
  <2>1. CASE k = Len(cs)
    BY <2>1, <1>2, <1>4
  <2>2. CASE k # Len(cs)
    <3>1. k < Len(cs)
      BY <2>2, <1>1
    <3>2. f[k].top <= f[Len(cs)].base /\ f[Len(cs)].base <= f[Len(cs)].top
      BY <3>1, <1>5 DEF Chained
    <3> QED BY <3>2, <1>4, <1>5, <1>6
  <2> QED BY <2>1, <2>2
<1> QED BY <1>1, <1>2, <1>3, <1>4, <1>5, <1>6, <1>7

\* No scope names the function's own slot.
LEMMA NamesFacts ==
  ASSUME NEW s \in LexicalScopes
  PROVE  /\ DOMAIN s.names \subseteq Names \cup {"self", "super"} /\ "" \notin DOMAIN s.names
         /\ \A n \in DOMAIN s.names : s.names[n] \in Ids
<1>1. s.names \in Namings
  BY DEF LexicalScopes
<1>2. PICK D \in SUBSET (Names \cup {"self", "super"}) : s.names \in [D -> Ids]
  BY <1>1 DEF Namings
<1>3. "" \notin Names \cup {"self", "super"}
  BY NamesAreIdentifiers
<1> QED BY <1>2, <1>3

\* Every local is the function's own slot or a declaration of the text.
LEMMA IdFacts ==
  ASSUME NEW sc, NEW c \in Compilers, NEW k, NEW fr \in Frames, NEW dc \in Nat, Slots(c, k, fr, dc)
  PROVE  \A i \in DOMAIN c.locals :
           /\ i = 1 => c.locals[i].id = <<"callee", k>>
           /\ i # 1 => \E m \in 1..dc : c.locals[i].id = <<"declaration", m>>
<1>1. c.locals[1].id = <<"callee", k>> /\ \A i \in DOMAIN c.locals : i # 1 => LocalFits(c, i, fr, dc)
  BY SlotFacts
<1> QED BY <1>1 DEF LocalFits

\* The locals are those of before, but for at most one more.
Grown(cs, cs2, K, E) ==
  \A k \in DOMAIN cs2 : \A i \in DOMAIN cs2[k].locals :
    \/ k = K /\ i = E
    \/ /\ k \in DOMAIN cs /\ i \in DOMAIN cs[k].locals
       /\ cs2[k].locals[i].id = cs[k].locals[i].id
       /\ cs2[k].locals[i].is_captured = cs[k].locals[i].is_captured

Unused(cs, id) == \A k \in DOMAIN cs : IsNew(cs[k], id)

\* One more local, of a variable no other local is, keeps the locals apart.
LEMMA ApartGrown ==
  ASSUME NEW cs, NEW cs2, NEW K, NEW E, Apart(cs), Grown(cs, cs2, K, E),
         K \in DOMAIN cs2 => Unused(cs, cs2[K].locals[E].id)
  PROVE  Apart(cs2)
<1> SUFFICES ASSUME NEW k \in DOMAIN cs2, NEW l \in DOMAIN cs2,
                    NEW i \in DOMAIN cs2[k].locals, NEW j \in DOMAIN cs2[l].locals,
                    cs2[k].locals[i].id = cs2[l].locals[j].id
             PROVE  k = l /\ i = j
  BY DEF Apart
<1>1. (k = K /\ i = E)
      \/ (k \in DOMAIN cs /\ i \in DOMAIN cs[k].locals /\ cs2[k].locals[i].id = cs[k].locals[i].id)
  BY DEF Grown
<1>2. (l = K /\ j = E)
      \/ (l \in DOMAIN cs /\ j \in DOMAIN cs[l].locals /\ cs2[l].locals[j].id = cs[l].locals[j].id)
  BY DEF Grown
<1>3. CASE k = K /\ i = E
  BY <1>3, <1>2 DEF Unused, IsNew
<1>4. CASE l = K /\ j = E
  BY <1>4, <1>1 DEF Unused, IsNew
<1>5. CASE ~(k = K /\ i = E) /\ ~(l = K /\ j = E)
  BY <1>5, <1>1, <1>2 DEF Apart
<1> QED BY <1>3, <1>4, <1>5

\* What is read of what was there before stays so.
LEMMA MarkedGrown ==
  ASSUME NEW cs, NEW cs2, NEW K, NEW E, NEW cp, NEW cp2, cp2 \subseteq cp, NEW dc \in Nat, NEW dc2 \in Nat, dc <= dc2,
         MarkedAsRead(cs, cp, dc), Grown(cs, cs2, K, E),
         K \in DOMAIN cs2 => cs2[K].locals[E].id \notin cp /\ cs2[K].locals[E].is_captured = FALSE,
         \A k \in DOMAIN cs : <<"callee", k>> \in cp2 => k \in DOMAIN cs2 /\ cs2[k].locals[1].name = cs[k].locals[1].name,
         \A k \in DOMAIN cs2 : \A i \in DOMAIN cs2[k].locals : cs2[k].locals[i].id \in cp => cs2[k].locals[i].id \in cp2
  PROVE  MarkedAsRead(cs2, cp2, dc2)
<1>1. ASSUME NEW id \in cp2
      PROVE  \/ \E k \in DOMAIN cs2 : id = <<"callee", k>> /\ cs2[k].locals[1].name # ""
             \/ \E m \in 1..dc2 : id = <<"declaration", m>>
  <2>1. CASE \E k \in DOMAIN cs : id = <<"callee", k>> /\ cs[k].locals[1].name # ""
    BY <2>1
  <2>2. CASE \E m \in 1..dc : id = <<"declaration", m>>
    <3>1. PICK m \in 1..dc : id = <<"declaration", m>>
      BY <2>2
    <3>2. m \in 1..dc2
      BY <3>1
    <3> QED BY <3>1, <3>2
  <2> QED BY <2>1, <2>2 DEF MarkedAsRead
<1>2. ASSUME NEW k \in DOMAIN cs2, NEW i \in DOMAIN cs2[k].locals
      PROVE  cs2[k].locals[i].is_captured <=> cs2[k].locals[i].id \in cp2
  <2>1. cs2[k].locals[i].id \in cp2 <=> cs2[k].locals[i].id \in cp
    OBVIOUS
  <2>2. CASE k = K /\ i = E
    BY <2>1, <2>2
  <2>3. CASE ~(k = K /\ i = E)
    <3>1. /\ k \in DOMAIN cs /\ i \in DOMAIN cs[k].locals
          /\ cs2[k].locals[i].id = cs[k].locals[i].id
          /\ cs2[k].locals[i].is_captured = cs[k].locals[i].is_captured
      BY <2>3 DEF Grown
    <3>2. cs[k].locals[i].is_captured <=> cs[k].locals[i].id \in cp
      BY <3>1 DEF MarkedAsRead
    <3> QED BY <3>1, <3>2, <2>1
  <2> QED BY <2>2, <2>3
<1> QED BY <1>1, <1>2 DEF MarkedAsRead

\* Only the innermost compiler, its frame and its scopes change.
Rescoped(sc, sc2, base, n) ==
  /\ Len(sc2) >= base /\ \A h \in 1..base : sc2[h] = sc[h]
  /\ \A h \in base + 1..Len(sc2) : sc2[h].fn = n

GrownLocals(c, d, E) ==
  /\ d.locals[1].name = c.locals[1].name
  /\ \A i \in DOMAIN d.locals :
       \/ i = E
       \/ /\ i \in DOMAIN c.locals
          /\ d.locals[i].id = c.locals[i].id /\ d.locals[i].is_captured = c.locals[i].is_captured

NewLocal(cs, cp, d, E) ==
  E # 0 => Unused(cs, d.locals[E].id) /\ d.locals[E].id \notin cp /\ d.locals[E].is_captured = FALSE

StillMarked(cs, cp, cp2) ==
  \A k \in DOMAIN cs : \A i \in DOMAIN cs[k].locals : cs[k].locals[i].id \in cp => cs[k].locals[i].id \in cp2

\* A sequence with another last element.
LEMMA ExceptFacts ==
  ASSUME NEW S, NEW s \in Seq(S), Len(s) >= 1, NEW e \in S
  PROVE  LET t == [s EXCEPT ![Len(s)] = e]
         IN  /\ t \in Seq(S) /\ Len(t) = Len(s) /\ DOMAIN t = DOMAIN s /\ t[Len(s)] = e
             /\ \A k \in DOMAIN s : k # Len(s) => t[k] = s[k]
OBVIOUS

\* The chain stands when the scopes and the frame of the last function change alone.
LEMMA ChainedLast ==
  ASSUME NEW cs, NEW sc, NEW f, Typed(cs, sc, f), Chained(sc, cs, f), NEW sc2 \in Seq(LexicalScopes),
         NEW d \in Compilers, NEW g \in Frames, g.base = f[Len(cs)].base, g.top = Len(sc2),
         Rescoped(sc, sc2, g.base, Len(cs)), Len(cs) > 1 => g.base < g.top
  PROVE  Chained(sc2, [cs EXCEPT ![Len(cs)] = d], [f EXCEPT ![Len(cs)] = g])
<1> DEFINE n == Len(cs)
           cs2 == [cs EXCEPT ![n] = d]
           f2 == [f EXCEPT ![n] = g]
<1>1. /\ n \in Nat /\ n >= 1 /\ DOMAIN cs = 1..n /\ n \in DOMAIN cs
      /\ DOMAIN sc = 1..Len(sc) /\ Len(sc) \in Nat /\ Len(f) = n /\ DOMAIN f = 1..n
      /\ \A k \in DOMAIN cs : f[k].base \in Nat /\ f[k].top \in Nat
  BY TypedFacts
<1>2. Len(cs2) = n /\ DOMAIN cs2 = 1..n
  BY <1>1, ExceptFacts DEF Typed
<1>3. Len(f2) = n /\ f2[n] = g /\ \A k \in 1..n : k # n => f2[k] = f[k]
  BY <1>1, ExceptFacts DEF Typed
<1>4. /\ Len(sc2) \in Nat /\ DOMAIN sc2 = 1..Len(sc2) /\ g.base \in Nat /\ g.top \in Nat /\ g.base <= g.top
  BY DEF Frames, Rescoped
<1>5. \A k \in 1..n : f2[k].base = f[k].base /\ (k < n => f2[k].top = f[k].top /\ k # n)
  BY <1>1, <1>3
<1>6. f[1].base = 0 /\ f[n].top = Len(sc)
      /\ (\A k \in 1..n : f[k].base <= f[k].top)
      /\ (\A k \in 1..n : k > 1 => f[k].base = f[k - 1].top /\ f[k].base < f[k].top)
      /\ (\A k, l \in 1..n : k < l => f[k].top <= f[l].base)
      /\ (\A h \in DOMAIN sc : sc[h].fn \in 1..n)
      /\ (\A h \in DOMAIN sc : \A k \in 1..n : sc[h].fn = k <=> h \in f[k].base + 1..f[k].top)
  BY <1>1 DEF Chained
<1> HIDE DEF n, cs2, f2
<1>7. f2[1].base = 0 /\ f2[n].top = Len(sc2)
  BY <1>1, <1>3, <1>5, <1>6
<1>8. \A k \in 1..n : f2[k].base <= f2[k].top
  <2> SUFFICES ASSUME NEW k \in 1..n PROVE f2[k].base <= f2[k].top
    OBVIOUS
  <2>1. CASE k = n
    BY <2>1, <1>3, <1>4
  <2>2. CASE k # n
    BY <2>2, <1>3, <1>6
  <2> QED BY <2>1, <2>2
<1>9. \A k \in 1..n : k > 1 => f2[k].base = f2[k - 1].top /\ f2[k].base < f2[k].top
  <2> SUFFICES ASSUME NEW k \in 1..n, k > 1 PROVE f2[k].base = f2[k - 1].top /\ f2[k].base < f2[k].top
    OBVIOUS
  <2>1. k - 1 \in 1..n /\ k - 1 < n
    BY <1>1
  <2>2. f2[k].base = f2[k - 1].top
    BY <2>1, <1>5, <1>6
  <2>3. CASE k = n
    BY <2>2, <2>3, <1>3 DEF n
  <2>4. CASE k # n
    BY <2>2, <2>4, <1>3, <1>6
  <2> QED BY <2>2, <2>3, <2>4
<1>10. \A k, l \in 1..n : k < l => f2[k].top <= f2[l].base
  <2> SUFFICES ASSUME NEW k \in 1..n, NEW l \in 1..n, k < l PROVE f2[k].top <= f2[l].base
    OBVIOUS
  <2>1. k < n
    BY <1>1
  <2> QED BY <2>1, <1>5, <1>6
<1>11. \A h \in 1..Len(sc2) : h <= g.base => h \in DOMAIN sc /\ sc2[h].fn = sc[h].fn /\ h <= f[n].base
  <2> SUFFICES ASSUME NEW h \in 1..Len(sc2), h <= g.base
               PROVE  h \in DOMAIN sc /\ sc2[h].fn = sc[h].fn /\ h <= f[n].base
    OBVIOUS
  <2>1. h \in 1..g.base /\ g.base = f[n].base
    BY <1>4 DEF n
  <2>2. f[n].base <= Len(sc)
    BY <1>1, <1>6
  <2> QED BY <2>1, <2>2, <1>1, <1>4 DEF Rescoped
<1>12. \A h \in 1..Len(sc2) : h > g.base => sc2[h].fn = n
  BY <1>4 DEF Rescoped, n
<1>13. \A h \in 1..Len(sc2) : sc2[h].fn \in 1..n
  <2> SUFFICES ASSUME NEW h \in 1..Len(sc2) PROVE sc2[h].fn \in 1..n
    OBVIOUS
  <2>1. CASE h <= g.base
    BY <2>1, <1>6, <1>11
  <2>2. CASE h > g.base
    <3>1. n \in 1..n
      BY <1>1
    <3> QED BY <3>1, <2>2, <1>12
  <2> QED BY <2>1, <2>2, <1>4
<1>14. ASSUME NEW h \in 1..Len(sc2), NEW k \in 1..n
       PROVE  sc2[h].fn = k <=> h \in f2[k].base + 1..f2[k].top
  <2>1. CASE h <= g.base /\ k # n
    <3>1. sc[h].fn = k <=> h \in f[k].base + 1..f[k].top
      BY <2>1, <1>6, <1>11
    <3> QED BY <2>1, <3>1, <1>3, <1>11
  <2>2. CASE h <= g.base /\ k = n
    <3>1. sc[h].fn = k <=> h \in f[k].base + 1..f[k].top
      BY <2>2, <1>6, <1>11
    <3>2. ~(h \in f[n].base + 1..f[n].top) /\ ~(h \in g.base + 1..g.top)
      BY <2>2, <1>1, <1>4, <1>11
    <3> QED BY <2>2, <3>1, <3>2, <1>3, <1>11
  <2>3. CASE h > g.base /\ k # n
    <3>1. k < n
      BY <2>3, <1>1
    <3>2. f2[k].top <= f2[n].base /\ f2[n].base = g.base
      BY <3>1, <1>1, <1>3, <1>10
    <3>3. ~(h \in f2[k].base + 1..f2[k].top)
      <4>1. f2[k].top \in Nat /\ f2[k].base \in Nat
        BY <3>1, <1>1, <1>5
      <4> QED BY <4>1, <3>2, <2>3, <1>4
    <3> QED BY <3>1, <3>3, <2>3, <1>12
  <2>4. CASE h > g.base /\ k = n
    <3>1. h \in g.base + 1..g.top
      BY <2>4, <1>4
    <3> QED BY <3>1, <2>4, <1>3, <1>12
  <2> QED BY <2>1, <2>2, <2>3, <2>4, <1>4
<1>15. Chained(sc2, cs2, f2)
  BY <1>1, <1>2, <1>3, <1>4, <1>7, <1>8, <1>9, <1>10, <1>13, <1>14 DEF Chained
<1> QED BY <1>15 DEF cs2, f2, n

\* So does all that holds of compilers, scopes and captures, if the last compiler stays framed.
LEMMA CoreLast ==
  ASSUME NEW cs, NEW sc, NEW cp, NEW dc, NEW f, Core(cs, sc, cp, dc, f), NEW sc2 \in Seq(LexicalScopes),
         NEW d \in Compilers, NEW g \in Frames, g.base = f[Len(cs)].base, g.top = Len(sc2),
         Rescoped(sc, sc2, g.base, Len(cs)), Len(cs) > 1 => g.base < g.top,
         NEW cp2, cp2 \subseteq cp, NEW dc2 \in Nat, dc <= dc2, Framed(sc2, d, Len(cs), g, dc2),
         NEW E \in Nat, GrownLocals(cs[Len(cs)], d, E), NewLocal(cs, cp, d, E),
         StillMarked([cs EXCEPT ![Len(cs)] = d], cp, cp2), d.upvalues = cs[Len(cs)].upvalues
  PROVE  Core([cs EXCEPT ![Len(cs)] = d], sc2, cp2, dc2, [f EXCEPT ![Len(cs)] = g])
<1> DEFINE n == Len(cs)
           cs2 == [cs EXCEPT ![n] = d]
           f2 == [f EXCEPT ![n] = g]
           K == IF E = 0 THEN 0 ELSE n
<1>0. Typed(cs, sc, f) /\ Chained(sc, cs, f) /\ AllFramed(sc, cs, f, dc) /\ dc \in Nat
      /\ Apart(cs) /\ MarkedAsRead(cs, cp, dc) /\ UpvaluesFit(cs)
  BY DEF Core
<1>1. /\ n \in Nat /\ n >= 1 /\ DOMAIN cs = 1..n /\ n \in DOMAIN cs
      /\ Len(f) = n /\ DOMAIN f = 1..n
      /\ \A k \in DOMAIN cs : f[k] \in Frames /\ cs[k] \in Compilers
      /\ \A k \in DOMAIN cs : f[k].base \in Nat /\ f[k].top \in Nat
  BY <1>0, TypedFacts
<1>2. cs2 \in Seq(Compilers) /\ DOMAIN cs2 = 1..n /\ cs2[n] = d /\ \A k \in 1..n : k # n => cs2[k] = cs[k]
  BY <1>0, <1>1, ExceptFacts DEF Typed
<1>3. f2 \in Seq(Frames) /\ f2[n] = g /\ \A k \in 1..n : k # n => f2[k] = f[k]
  BY <1>0, <1>1, ExceptFacts DEF Typed
<1>4. Chained(sc2, cs2, f2)
  BY <1>0, ChainedLast
<1>5. AllFramed(sc2, cs2, f2, dc2)
  <2> SUFFICES ASSUME NEW k \in 1..n PROVE Framed(sc2, cs2[k], k, f2[k], dc2)
    BY <1>2 DEF AllFramed
  <2>1. CASE k = n
    BY <2>1, <1>2, <1>3
  <2>2. CASE k # n
    <3>1. cs[k] \in Compilers /\ f[k] \in Frames /\ Framed(sc, cs[k], k, f[k], dc)
      BY <1>0, <1>1 DEF AllFramed
    <3>2. LocalsAgree(cs[k], cs[k])
      BY DEF LocalsAgree
    <3>3. f[k].wait # "no" => cs[k].scope_depth > 0 /\ Len(cs[k].locals) >= 2
      BY <3>1 DEF Framed, Slots
    <3>4. \A h \in f[k].base + 1..f[k].top : sc2[h].names = sc[h].names
      <4>1. f[k].top <= g.base
        <5>1. k < n
          <6> HIDE DEF n
          <6> QED BY <2>2, <1>1
        <5>2. f[k].top <= f[n].base
          BY <5>1, <1>0, <1>1 DEF Chained
        <5> QED BY <5>2
      <4>2. f[k].base \in Nat /\ f[k].top \in Nat /\ g.base \in Nat
        BY <1>1
      <4>3. \A h \in f[k].base + 1..f[k].top : h \in 1..g.base
        BY <4>1, <4>2
      <4> QED BY <4>3 DEF Rescoped
    <3>5. Framed(sc2, cs[k], k, f[k], dc2)
      BY <3>1, <3>2, <3>3, <3>4, <1>0, FramedAgain
    <3> QED BY <3>5, <2>2, <1>2, <1>3
  <2> QED BY <2>1, <2>2
<1>6. Grown(cs, cs2, K, E)
  <2> SUFFICES ASSUME NEW k \in 1..n, NEW i \in DOMAIN cs2[k].locals
               PROVE  \/ k = K /\ i = E
                      \/ /\ k \in DOMAIN cs /\ i \in DOMAIN cs[k].locals
                         /\ cs2[k].locals[i].id = cs[k].locals[i].id
                         /\ cs2[k].locals[i].is_captured = cs[k].locals[i].is_captured
    BY <1>2 DEF Grown
  <2>1. CASE k # n
    BY <2>1, <1>1, <1>2
  <2>2. CASE k = n
    <3>1. d \in Compilers /\ i \in DOMAIN d.locals
      BY <2>2, <1>2
    <3>2. i \in 1..Len(d.locals) /\ Len(d.locals) \in Nat
      BY <3>1, CompilerFacts
    <3>3. i # 0
      BY <3>2
    <3>4. i = E \/ (/\ i \in DOMAIN cs[n].locals /\ d.locals[i].id = cs[n].locals[i].id
                    /\ d.locals[i].is_captured = cs[n].locals[i].is_captured)
      BY <3>1 DEF GrownLocals
    <3> QED BY <2>2, <3>3, <3>4, <1>1, <1>2
  <2> QED BY <2>1, <2>2
<1>7. K \in DOMAIN cs2 => K = n /\ E # 0
  <2>1. 0 \notin DOMAIN cs2
    <3>1. 0 \notin 1..n
      BY <1>1
    <3> HIDE DEF cs2
    <3> QED BY <3>1, <1>2
  <2>2. E = 0 => K = 0
    OBVIOUS
  <2>3. E # 0 => K = n
    OBVIOUS
  <2> HIDE DEF K, cs2
  <2> QED BY <2>1, <2>2, <2>3
<1>8. K \in DOMAIN cs2 => Unused(cs, cs2[K].locals[E].id)
                          /\ cs2[K].locals[E].id \notin cp /\ cs2[K].locals[E].is_captured = FALSE
  BY <1>2, <1>7 DEF NewLocal
<1> HIDE DEF K
<1>9. Apart(cs2)
  BY <1>0, <1>6, <1>8, ApartGrown
<1>10. \A k \in DOMAIN cs : <<"callee", k>> \in cp2 => k \in DOMAIN cs2 /\ cs2[k].locals[1].name = cs[k].locals[1].name
  BY <1>1, <1>2 DEF GrownLocals
<1>11. MarkedAsRead(cs2, cp2, dc2)
  <2>1. \A k \in DOMAIN cs2 : \A i \in DOMAIN cs2[k].locals : cs2[k].locals[i].id \in cp => cs2[k].locals[i].id \in cp2
    BY DEF StillMarked
  <2> HIDE DEF cs2, f2
  <2> QED BY <1>0, <1>6, <1>8, <1>10, <2>1, MarkedGrown
<1>12. UpvaluesFit(cs2)
  BY <1>0, <1>1, <1>2 DEF UpvaluesFit
<1>13. Typed(cs2, sc2, f2)
  BY <1>2, <1>3 DEF Typed
<1> QED BY <1>4, <1>5, <1>9, <1>11, <1>12, <1>13 DEF Core

\* What the chain says of the last compiler.
LEMMA LastFacts ==
  ASSUME NEW cs, NEW sc, NEW cp, NEW dc, NEW f, Core(cs, sc, cp, dc, f),
         NEW n, n = Len(cs), NEW c, c = cs[n], NEW fr, fr = f[n]
  PROVE  /\ c \in Compilers /\ fr \in Frames /\ dc \in Nat /\ n \in Nat /\ n >= 1
         /\ Framed(sc, c, n, fr, dc) /\ Slots(c, n, fr, dc)
         /\ fr.base \in Nat /\ fr.top \in Nat /\ c.scope_depth \in Nat /\ fr.base + c.scope_depth = fr.top
         /\ fr.base <= fr.top /\ Len(sc) = fr.top /\ (n > 1 => fr.base < fr.top) /\ (n = 1 => fr.base = 0)
         /\ sc \in Seq(LexicalScopes) /\ cs \in Seq(Compilers) /\ f \in Seq(Frames) /\ Len(f) = n
         /\ \A h \in fr.base + 1..fr.top : sc[h].fn = n
<1>1. Typed(cs, sc, f) /\ Chained(sc, cs, f) /\ AllFramed(sc, cs, f, dc) /\ dc \in Nat
  BY DEF Core
<1>2. /\ n \in Nat /\ n >= 1 /\ n \in DOMAIN cs /\ c \in Compilers /\ fr \in Frames
      /\ fr.base \in Nat /\ fr.top \in Nat /\ Len(f) = n
  BY <1>1, TypedFacts
<1>3. Framed(sc, c, n, fr, dc) /\ Slots(c, n, fr, dc)
  BY <1>1, <1>2 DEF AllFramed, Framed
<1>4. c.scope_depth \in Nat /\ fr.base + c.scope_depth = fr.top
  BY <1>2, <1>3, CompilerFacts DEF Slots
<1>7. fr.base <= fr.top
  BY <1>2, <1>4
<1>5. Len(sc) = fr.top /\ (n > 1 => fr.base < fr.top) /\ (n = 1 => fr.base = 0)
  BY <1>1, <1>2 DEF Chained
<1>6. \A h \in fr.base + 1..fr.top : sc[h].fn = n
  <2>1. DOMAIN sc = 1..Len(sc)
    BY <1>1, TypedFacts
  <2>2. \A h \in fr.base + 1..fr.top : h \in DOMAIN sc
    BY <2>1, <1>2, <1>5
  <2> QED BY <2>2, <1>1, <1>2 DEF Chained
<1> QED BY <1>1, <1>2, <1>3, <1>4, <1>5, <1>6, <1>7 DEF Typed

\* The same locals, in order, as far as the others know them.
LEMMA SameGrown ==
  ASSUME NEW c \in Compilers, NEW d \in Compilers, d.locals = c.locals
  PROVE  GrownLocals(c, d, 0)
BY DEF GrownLocals

\* Where no local is added and nothing is read, nothing is to be shown.
LEMMA NoneNew == ASSUME NEW cs, NEW cp, NEW d PROVE NewLocal(cs, cp, d, 0) /\ StillMarked(cs, cp, cp)
BY DEF NewLocal, StillMarked

\* A sequence with one element more.
LEMMA AppendFacts ==
  ASSUME NEW S, NEW s \in Seq(S), NEW e \in S
  PROVE  /\ Append(s, e) \in Seq(S) /\ Len(Append(s, e)) = Len(s) + 1
         /\ DOMAIN Append(s, e) = 1..Len(s) + 1 /\ Append(s, e)[Len(s) + 1] = e
         /\ \A k \in 1..Len(s) : Append(s, e)[k] = s[k]
OBVIOUS

\* A sequence without its last element.
LEMMA FrontFacts ==
  ASSUME NEW S, NEW s \in Seq(S), Len(s) >= 1
  PROVE  /\ Front(s) \in Seq(S) /\ Len(Front(s)) = Len(s) - 1
         /\ DOMAIN Front(s) = 1..Len(s) - 1
         /\ \A k \in 1..Len(s) - 1 : Front(s)[k] = s[k]
<1>1. Len(s) \in Nat /\ 1 \in Int /\ Len(s) - 1 \in Int /\ \A i \in 1..Len(s) - 1 : s[i] \in S
  OBVIOUS
<1> DEFINE m == Len(s) - 1
           t == SubSeq(s, 1, m)
<1>2. t \in Seq(S) /\ Len(t) = (IF 1 <= m THEN m - 1 + 1 ELSE 0) /\ \A i \in 1..m - 1 + 1 : t[i] = s[1 + i - 1]
  <2> HIDE DEF m
  <2> QED BY <1>1, SubSeqProperties DEF m
<1> HIDE DEF t
<1>0. m \in Int /\ m >= 0
  BY <1>1
<1>3. Len(t) = m
  <2> HIDE DEF m
  <2>1. CASE 1 <= m
    BY <2>1, <1>0, <1>2
  <2>2. CASE ~(1 <= m)
    BY <2>2, <1>0, <1>2
  <2> QED BY <2>1, <2>2
<1>4. \A i \in 1..m : t[i] = s[i]
  <2> SUFFICES ASSUME NEW i \in 1..m PROVE t[i] = s[i]
    OBVIOUS
  <2>1. i \in 1..m - 1 + 1 /\ 1 + i - 1 = i
    BY <1>1
  <2>2. t[i] = s[1 + i - 1]
    BY <2>1, <1>2
  <2> QED BY <2>1, <2>2
<1>5. DOMAIN t = 1..m
  BY <1>2, <1>3
<1> QED BY <1>2, <1>3, <1>4, <1>5 DEF Front, t

EmptyScopeOf(n) == Scope(n, EmptyScope)

\* A scope that begins has no names.
LEMMA EmptyNames ==
  ASSUME NEW n \in Nat
  PROVE  Scope(n, EmptyScope) \in LexicalScopes /\ DOMAIN Scope(n, EmptyScope).names = {}
         /\ Scope(n, EmptyScope).fn = n
<1>1. EmptyScope \in [{} -> Ids]
  BY DEF EmptyScope
<1>2. {} \in SUBSET (Names \cup {"self", "super"})
  OBVIOUS
<1>3. EmptyScope \in Namings
  BY <1>1, <1>2 DEF Namings
<1> QED BY <1>1, <1>3 DEF Scope, LexicalScopes

-----------------------------------------------------------------------------
(* Blocks.                                                                 *)

CoreAt(cs, n, d, sc, cp, dc, f, g) == Core([cs EXCEPT ![n] = d], sc, cp, dc, [f EXCEPT ![n] = g])

Opens(c, fr, d, g) ==
  /\ fr.wait = "no" /\ d \in Compilers /\ d.locals = c.locals
  /\ d.scope_depth = c.scope_depth + 1 /\ d.upvalues = c.upvalues
  /\ g \in Frames /\ g.base = fr.base /\ g.top = fr.top + 1 /\ g.wait = "no"

\* begin_scope: one scope more, with no names, in the last function.
LEMMA CoreOpen ==
  ASSUME NEW cs, NEW sc, NEW cp, NEW dc, NEW f, Core(cs, sc, cp, dc, f),
         NEW n, n = Len(cs), NEW c, c = cs[n], NEW fr, fr = f[n], NEW d, NEW g, Opens(c, fr, d, g)
  PROVE  CoreAt(cs, n, d, Append(sc, Scope(n, EmptyScope)), cp, dc, f, g)
<1>0. /\ fr.wait = "no" /\ d \in Compilers /\ d.locals = c.locals
      /\ d.scope_depth = c.scope_depth + 1 /\ d.upvalues = c.upvalues
      /\ g \in Frames /\ g.base = fr.base /\ g.top = fr.top + 1 /\ g.wait = "no"
  BY DEF Opens
<1> USE <1>0
<1> DEFINE sc2 == Append(sc, Scope(n, EmptyScope))
<1>1. /\ c \in Compilers /\ fr \in Frames /\ dc \in Nat /\ n \in Nat /\ Framed(sc, c, n, fr, dc)
      /\ fr.base \in Nat /\ fr.top \in Nat /\ Len(sc) = fr.top /\ sc \in Seq(LexicalScopes)
      /\ fr.base <= fr.top /\ \A h \in fr.base + 1..fr.top : sc[h].fn = n
  BY LastFacts
<1>2. /\ sc2 \in Seq(LexicalScopes) /\ Len(sc2) = fr.top + 1
      /\ \A h \in 1..fr.top : sc2[h] = sc[h]
      /\ sc2[fr.top + 1].fn = n /\ DOMAIN sc2[fr.top + 1].names = {}
  <2>1. Scope(n, EmptyScope) \in LexicalScopes /\ DOMAIN Scope(n, EmptyScope).names = {}
        /\ Scope(n, EmptyScope).fn = n
    BY <1>1, EmptyNames
  <2> QED BY <2>1, <1>1, AppendFacts
<1> HIDE DEF sc2
<1>3. Framed(sc2, d, n, g, dc)
  <2>1. \A h \in fr.base + 1..fr.top : sc2[h].names = sc[h].names
    <3>1. \A h \in fr.base + 1..fr.top : h \in 1..fr.top
      BY <1>1
    <3> QED BY <3>1, <1>2
  <2> QED BY <2>1, <1>1, <1>2, FramedOpen
<1>4. Rescoped(sc, sc2, g.base, n)
  <2>1. \A h \in fr.base + 1..fr.top + 1 : sc2[h].fn = n
    <3> SUFFICES ASSUME NEW h \in fr.base + 1..fr.top + 1, h # fr.top + 1 PROVE sc2[h].fn = n
      BY <1>2
    <3>1. h \in fr.base + 1..fr.top /\ h \in 1..fr.top
      BY <1>1
    <3> QED BY <3>1, <1>1, <1>2
  <2>2. \A h \in 1..fr.base : sc2[h] = sc[h]
    BY <1>1, <1>2
  <2> QED BY <2>1, <2>2, <1>1, <1>2 DEF Rescoped
<1>5. GrownLocals(cs[Len(cs)], d, 0) /\ NewLocal(cs, cp, d, 0) /\ StillMarked([cs EXCEPT ![n] = d], cp, cp)
  BY <1>1, SameGrown, NoneNew
<1>6. g.base < g.top /\ 0 \in Nat /\ cp \subseteq cp
  BY <1>1
<1>7. Core([cs EXCEPT ![n] = d], sc2, cp, dc, [f EXCEPT ![n] = g])
  <2>1. dc <= dc
    BY <1>1
  <2>2. g.top = Len(sc2) /\ g.base = f[Len(cs)].base /\ d.upvalues = cs[Len(cs)].upvalues
    BY <1>2, Zenon
  <2> QED BY <2>1, <2>2, <1>1, <1>2, <1>3, <1>4, <1>5, <1>6, CoreLast
<1> QED BY <1>7 DEF sc2, CoreAt

\* What the innermost scope declares are locals of the innermost compiler.
TopBound(sc, c, fr) ==
  \A id \in Range(sc[Len(sc)].names) :
    \E i \in DOMAIN c.locals : /\ c.locals[i].id = id /\ Level(c, i, fr) = fr.top
                              /\ c.locals[i].name \in DOMAIN sc[fr.top].names

\* Inside a block, the innermost scope binds the locals of the current depth.
LEMMA TopNames ==
  ASSUME NEW cs, NEW sc, NEW cp, NEW dc, NEW f, Core(cs, sc, cp, dc, f),
         NEW n, n = Len(cs), NEW c, c = cs[n], NEW fr, fr = f[n], c.scope_depth > 0
  PROVE  TopBound(sc, c, fr)
<1>1. /\ Framed(sc, c, n, fr, dc) /\ Len(sc) = fr.top
      /\ fr.base \in Nat /\ fr.top \in Nat /\ c.scope_depth \in Nat /\ fr.base + c.scope_depth = fr.top
  BY LastFacts
<1> SUFFICES ASSUME NEW id \in Range(sc[Len(sc)].names)
             PROVE  \E i \in DOMAIN c.locals : c.locals[i].id = id /\ Level(c, i, fr) = fr.top
                                               /\ c.locals[i].name \in DOMAIN sc[fr.top].names
  BY DEF TopBound
<1>2. PICK x \in DOMAIN sc[fr.top].names : id = sc[fr.top].names[x]
  BY <1>1 DEF Range
<1>3. fr.top \in fr.base + 1..fr.top
  BY <1>1
<1>4. PICK i \in DOMAIN c.locals : c.locals[i].name = x /\ Level(c, i, fr) = fr.top /\ IsBound(sc, c, i, fr)
  BY <1>1, <1>2, <1>3 DEF Framed, Covered
<1> QED BY <1>2, <1>4 DEF IsBound

Closes(sc, n, c, fr, d, kept, g) ==
  /\ fr.wait = "no" /\ c.scope_depth > 0 /\ ~HasSuper(sc, Len(sc))
  /\ d \in Compilers /\ kept \in DOMAIN c.locals /\ Cut(c, d, kept) /\ d.upvalues = c.upvalues
  /\ g \in Frames /\ g.base = fr.base /\ g.top = fr.top - 1 /\ g.wait = "no" /\ (n = 1 \/ g.top > fr.base)

\* end_scope: the innermost scope and its locals go, and their captures with them.
LEMMA CoreClose ==
  ASSUME NEW cs, NEW sc, NEW cp, NEW dc, NEW f, Core(cs, sc, cp, dc, f),
         NEW n, n = Len(cs), NEW c, c = cs[n], NEW fr, fr = f[n], NEW d, NEW g, NEW kept, Closes(sc, n, c, fr, d, kept, g)
  PROVE  CoreAt(cs, n, d, Front(sc), cp \ Range(Last(sc).names), dc, f, g)
<1>0. /\ fr.wait = "no" /\ c.scope_depth > 0 /\ ~HasSuper(sc, Len(sc))
      /\ d \in Compilers /\ kept \in DOMAIN c.locals /\ Cut(c, d, kept) /\ d.upvalues = c.upvalues
      /\ g \in Frames /\ g.base = fr.base /\ g.top = fr.top - 1 /\ g.wait = "no" /\ (n = 1 \/ g.top > fr.base)
  BY DEF Closes
<1> USE <1>0
<1> DEFINE sc2 == Front(sc)
           gone == Range(Last(sc).names)
           cs2 == [cs EXCEPT ![n] = d]
<1>1. /\ c \in Compilers /\ fr \in Frames /\ dc \in Nat /\ n \in Nat /\ n >= 1 /\ Framed(sc, c, n, fr, dc)
      /\ fr.base \in Nat /\ fr.top \in Nat /\ Len(sc) = fr.top /\ sc \in Seq(LexicalScopes)
      /\ fr.base < fr.top /\ \A h \in fr.base + 1..fr.top : sc[h].fn = n
  <2>1. fr.base + c.scope_depth = fr.top /\ fr.base \in Nat /\ c.scope_depth \in Nat
    BY LastFacts
  <2>2. fr.base < fr.top
    BY <2>1
  <2> QED BY <2>2, LastFacts
<1>2. sc2 \in Seq(LexicalScopes) /\ Len(sc2) = fr.top - 1 /\ \A h \in 1..fr.top - 1 : sc2[h] = sc[h]
  BY <1>1, FrontFacts
<1>3. cs \in Seq(Compilers) /\ DOMAIN cs = 1..n
  BY <1>1 DEF Core, Typed
<1>4. cs2[n] = d /\ DOMAIN cs2 = 1..n /\ \A k \in 1..n : k # n => cs2[k] = cs[k]
  BY <1>1, <1>3
<1> HIDE DEF sc2, cs2
<1>5. Framed(sc2, d, n, g, dc)
  <2>1. SameNames(sc, sc2, fr.base + 1, fr.top - 1)
    <3>1. \A h \in fr.base + 1..fr.top - 1 : h \in 1..fr.top - 1
      BY <1>1
    <3> QED BY <3>1, <1>2 DEF SameNames
  <2>2. Nameless(sc, fr)
    <3>1. \A h \in fr.base + 1..fr.top : sc[h] \in LexicalScopes
      BY <1>1
    <3> QED BY <3>1, NamesFacts DEF Nameless
  <2> QED BY <2>1, <2>2, <1>1, FramedClose
<1>6. Rescoped(sc, sc2, g.base, n)
  <2>1. \A h \in fr.base + 1..fr.top - 1 : sc2[h].fn = n
    BY <1>1, <1>2
  <2>2. \A h \in 1..fr.base : sc2[h] = sc[h]
    BY <1>1, <1>2
  <2> QED BY <2>1, <2>2, <1>1, <1>2 DEF Rescoped
<1>7. GrownLocals(c, d, 0)
  <2>1. DOMAIN d.locals = 1..kept /\ kept >= 1 /\ \A i \in 1..kept : i \in DOMAIN c.locals /\ d.locals[i] = c.locals[i]
    <3>1. DOMAIN d.locals = 1..Len(d.locals) /\ DOMAIN c.locals = 1..Len(c.locals) /\ Len(c.locals) \in Nat
      BY <1>1, CompilerFacts
    <3> QED BY <3>1 DEF Cut
  <2>2. d.locals[1] = c.locals[1]
    <3>1. 1 \in 1..kept
      BY <2>1, <1>1, CompilerFacts
    <3> QED BY <3>1, <2>1
  <2> QED BY <2>1, <2>2 DEF GrownLocals
<1>8. ASSUME NEW k \in 1..n, NEW i \in DOMAIN cs2[k].locals, cs2[k].locals[i].id \in gone
      PROVE  FALSE
  <2>1. PICK j \in DOMAIN c.locals : c.locals[j].id = cs2[k].locals[i].id /\ Level(c, j, fr) = fr.top
                                     /\ c.locals[j].name \in DOMAIN sc[fr.top].names
    <3>1. cs2[k].locals[i].id \in Range(sc[Len(sc)].names)
      BY <1>8 DEF Last
    <3> HIDE DEF gone
    <3>2. TopBound(sc, c, fr)
      BY TopNames
    <3> QED BY <3>1, <3>2 DEF TopBound
  <2>2. CASE k # n
    <3>1. k \in DOMAIN cs /\ n \in DOMAIN cs /\ cs2[k] = cs[k]
      BY <2>2, <1>1, <1>3, <1>4
    <3> QED BY <2>1, <2>2, <3>1 DEF Core, Apart
  <2>3. CASE k = n
    <3>1. i \in DOMAIN d.locals
      BY <2>3, <1>4, <1>8
    <3>2. i \in DOMAIN c.locals /\ d.locals[i].id = c.locals[i].id /\ d.locals[i] = c.locals[i]
      <4>1. i # 0
        BY <3>1, CompilerFacts
      <4>2. i \in DOMAIN c.locals
        BY <3>1, <4>1, <1>7 DEF GrownLocals
      <4>3. i \in 1..kept
        <5>1. DOMAIN d.locals = 1..Len(d.locals)
          BY CompilerFacts
        <5> QED BY <5>1, <3>1 DEF Cut
      <4> QED BY <4>2, <4>3 DEF Cut
    <3>3. i = j
      <4>1. n \in DOMAIN cs
        BY <1>1, <1>3
      <4>2. cs[n].locals[i].id = cs[n].locals[j].id
        BY <2>1, <2>3, <3>2, <1>4
      <4> QED BY <2>1, <3>2, <4>1, <4>2 DEF Core, Apart
    <3>4. d.locals[i].name \in DOMAIN sc[fr.top].names
      BY <2>1, <3>2, <3>3
    <3>5. d.locals[i].name \notin {"", "super"}
      <4>1. sc[fr.top] \in LexicalScopes
        BY <1>1
      <4> QED BY <4>1, <3>4, <1>1, NamesFacts DEF HasSuper
    <3>6. Level(d, i, g) <= g.top
      BY <3>1, <3>5, <1>5 DEF Framed, Known, IsBound
    <3>7. Level(d, i, g) = fr.top
      <4>1. i # 1 => c.locals[i].depth # -1
        <5>1. i # 1 => c.locals[i].depth \in Nat
          BY <3>2, <1>1, NoneWaiting DEF Framed
        <5> QED BY <5>1
      <4> QED BY <4>1, <2>1, <3>2, <3>3 DEF Level
    <3> QED BY <3>6, <3>7, <1>1
  <2> QED BY <2>2, <2>3
<1>9. StillMarked(cs2, cp, cp \ gone)
  BY <1>4, <1>8 DEF StillMarked
<1>10. NewLocal(cs, cp, d, 0)
  BY NoneNew
<1>11. n > 1 => g.base < g.top
  BY <1>1
<1>12. Core(cs2, sc2, cp \ gone, dc, [f EXCEPT ![n] = g])
  <2>1. 0 \in Nat /\ cp \ gone \subseteq cp /\ dc <= dc
    BY <1>1
  <2> HIDE DEF gone
  <2> QED BY <2>1, <1>1, <1>2, <1>5, <1>6, <1>7, <1>9, <1>10, <1>11, CoreLast DEF cs2
<1> QED BY <1>12 DEF sc2, cs2, CoreAt

\* The locals are the same, whatever becomes of the stack.
Resumes(c, fr, d, g) ==
  /\ d \in Compilers /\ d.locals = c.locals /\ d.scope_depth = c.scope_depth /\ d.upvalues = c.upvalues
  /\ g \in Frames /\ g.base = fr.base /\ g.top = fr.top
  /\ \/ g.wait = fr.wait
     \/ fr.wait = "fn" /\ g.wait = "no"

\* A step that leaves the last compiler's locals and scope alone.
LEMMA CoreAgain ==
  ASSUME NEW cs, NEW sc, NEW cp, NEW dc, NEW f, Core(cs, sc, cp, dc, f),
         NEW n, n = Len(cs), NEW c, c = cs[n], NEW fr, fr = f[n], NEW d, NEW g, Resumes(c, fr, d, g),
         NEW dc2 \in Nat, dc <= dc2
  PROVE  CoreAt(cs, n, d, sc, cp, dc2, f, g)
<1>0. /\ d \in Compilers /\ d.locals = c.locals /\ d.scope_depth = c.scope_depth /\ d.upvalues = c.upvalues
      /\ g \in Frames /\ g.base = fr.base /\ g.top = fr.top
      /\ \/ g.wait = fr.wait
         \/ fr.wait = "fn" /\ g.wait = "no"
  BY DEF Resumes
<1> USE <1>0
<1>1. /\ c \in Compilers /\ fr \in Frames /\ dc \in Nat /\ n \in Nat /\ n >= 1 /\ Framed(sc, c, n, fr, dc)
      /\ Slots(c, n, fr, dc)
      /\ fr.base \in Nat /\ fr.top \in Nat /\ Len(sc) = fr.top /\ sc \in Seq(LexicalScopes)
      /\ fr.base <= fr.top /\ (n > 1 => fr.base < fr.top) /\ \A h \in fr.base + 1..fr.top : sc[h].fn = n
  BY LastFacts
<1>2. LocalsAgree(c, d)
  BY DEF LocalsAgree
<1>3. g.wait # "no" => c.scope_depth > 0 /\ Len(c.locals) >= 2
  BY <1>1 DEF Slots
<1>4. (g.wait = "var") <=> (fr.wait = "var")
  OBVIOUS
<1>5. \A h \in fr.base + 1..fr.top : sc[h].names = sc[h].names
  OBVIOUS
<1>6. Framed(sc, d, n, g, dc2)
  BY <1>1, <1>2, <1>3, <1>4, <1>5, FramedAgain
<1>7. Rescoped(sc, sc, g.base, n)
  BY <1>1 DEF Rescoped
<1>8. GrownLocals(c, d, 0) /\ NewLocal(cs, cp, d, 0) /\ StillMarked([cs EXCEPT ![n] = d], cp, cp)
  BY <1>1, SameGrown, NoneNew
<1>9. cp \subseteq cp /\ 0 \in Nat /\ g.top = Len(sc) /\ (n > 1 => g.base < g.top)
  BY <1>1
<1>10. g.base = f[Len(cs)].base /\ d.upvalues = cs[Len(cs)].upvalues /\ GrownLocals(cs[Len(cs)], d, 0)
  BY <1>8
<1>99. Core([cs EXCEPT ![n] = d], sc, cp, dc2, [f EXCEPT ![n] = g])
  BY <1>1, <1>6, <1>7, <1>8, <1>9, <1>10, CoreLast
<1> QED BY <1>99, Zenon DEF CoreAt

\* The value of a var is there.
Initializes(c, fr, d, g) ==
  /\ fr.wait = "var" /\ d \in Compilers /\ d.scope_depth = c.scope_depth /\ d.upvalues = c.upvalues
  /\ Len(d.locals) = Len(c.locals)
  /\ \A i \in DOMAIN c.locals :
       /\ d.locals[i].name = c.locals[i].name /\ d.locals[i].id = c.locals[i].id
       /\ d.locals[i].is_captured = c.locals[i].is_captured
       /\ d.locals[i].depth = IF i = Len(c.locals) THEN c.scope_depth ELSE c.locals[i].depth
  /\ g \in Frames /\ g.base = fr.base /\ g.top = fr.top /\ g.wait = "no"

\* mark_initialized: the variable that waited gets the depth of its scope.
LEMMA CoreInitialize ==
  ASSUME NEW cs, NEW sc, NEW cp, NEW dc, NEW f, Core(cs, sc, cp, dc, f),
         NEW n, n = Len(cs), NEW c, c = cs[n], NEW fr, fr = f[n], NEW d, NEW g, Initializes(c, fr, d, g)
  PROVE  CoreAt(cs, n, d, sc, cp, dc, f, g)
<1>0. /\ fr.wait = "var" /\ d \in Compilers /\ d.scope_depth = c.scope_depth /\ d.upvalues = c.upvalues
      /\ Len(d.locals) = Len(c.locals)
      /\ \A i \in DOMAIN c.locals :
           /\ d.locals[i].name = c.locals[i].name /\ d.locals[i].id = c.locals[i].id
           /\ d.locals[i].is_captured = c.locals[i].is_captured
           /\ d.locals[i].depth = IF i = Len(c.locals) THEN c.scope_depth ELSE c.locals[i].depth
      /\ g \in Frames /\ g.base = fr.base /\ g.top = fr.top /\ g.wait = "no"
  BY DEF Initializes
<1> USE <1>0
<1>1. /\ c \in Compilers /\ fr \in Frames /\ dc \in Nat /\ n \in Nat /\ n >= 1 /\ Framed(sc, c, n, fr, dc)
      /\ Slots(c, n, fr, dc)
      /\ fr.base \in Nat /\ fr.top \in Nat /\ Len(sc) = fr.top /\ sc \in Seq(LexicalScopes)
      /\ fr.base <= fr.top /\ (n > 1 => fr.base < fr.top) /\ \A h \in fr.base + 1..fr.top : sc[h].fn = n
  BY LastFacts
<1>2. DOMAIN d.locals = DOMAIN c.locals /\ 1 \in DOMAIN c.locals
  <2>1. DOMAIN c.locals = 1..Len(c.locals) /\ 1 \in DOMAIN c.locals
    BY <1>1, CompilerFacts, SlotFacts
  <2>2. DOMAIN d.locals = 1..Len(d.locals)
    BY CompilerFacts
  <2> QED BY <2>1, <2>2
<1>6. Framed(sc, d, n, g, dc)
  BY <1>1, FramedInitialize
<1>7. Rescoped(sc, sc, g.base, n)
  BY <1>1 DEF Rescoped
<1>8. NewLocal(cs, cp, d, 0) /\ StillMarked([cs EXCEPT ![n] = d], cp, cp)
  BY NoneNew
<1>11. GrownLocals(c, d, 0)
  BY <1>2 DEF GrownLocals
<1>9. cp \subseteq cp /\ 0 \in Nat /\ g.top = Len(sc) /\ (n > 1 => g.base < g.top) /\ dc <= dc
  BY <1>1
<1>10. g.base = f[Len(cs)].base /\ d.upvalues = cs[Len(cs)].upvalues /\ GrownLocals(cs[Len(cs)], d, 0)
  BY <1>11
<1>99. Core([cs EXCEPT ![n] = d], sc, cp, dc, [f EXCEPT ![n] = g])
  BY <1>1, <1>6, <1>7, <1>8, <1>9, <1>10, CoreLast
<1> QED BY <1>99, Zenon DEF CoreAt

\* The scope of a superclass ends without its local.
EndsSuper(sc, n, c, fr, d, g) ==
  /\ fr.wait = "no" /\ c.scope_depth > 0 /\ DOMAIN sc[Len(sc)].names = {"super"}
  /\ d \in Compilers /\ d.locals = c.locals /\ d.scope_depth = c.scope_depth - 1 /\ d.upvalues = c.upvalues
  /\ g \in Frames /\ g.base = fr.base /\ g.top = fr.top - 1 /\ g.wait = "no" /\ (n = 1 \/ g.top > fr.base)

\* The scope of a superclass is closed while its local stays in its slot.
LEMMA CoreEndSuper ==
  ASSUME NEW cs, NEW sc, NEW cp, NEW dc, NEW f, Core(cs, sc, cp, dc, f),
         NEW n, n = Len(cs), NEW c, c = cs[n], NEW fr, fr = f[n], NEW d, NEW g, EndsSuper(sc, n, c, fr, d, g)
  PROVE  CoreAt(cs, n, d, Front(sc), cp, dc, f, g)
<1>0. /\ fr.wait = "no" /\ c.scope_depth > 0 /\ DOMAIN sc[Len(sc)].names = {"super"}
      /\ d \in Compilers /\ d.locals = c.locals /\ d.scope_depth = c.scope_depth - 1 /\ d.upvalues = c.upvalues
      /\ g \in Frames /\ g.base = fr.base /\ g.top = fr.top - 1 /\ g.wait = "no" /\ (n = 1 \/ g.top > fr.base)
  BY DEF EndsSuper
<1> USE <1>0
<1> DEFINE sc2 == Front(sc)
<1>1. /\ c \in Compilers /\ fr \in Frames /\ dc \in Nat /\ n \in Nat /\ n >= 1 /\ Framed(sc, c, n, fr, dc)
      /\ fr.base \in Nat /\ fr.top \in Nat /\ Len(sc) = fr.top /\ sc \in Seq(LexicalScopes)
      /\ fr.base < fr.top /\ \A h \in fr.base + 1..fr.top : sc[h].fn = n
  <2>1. fr.base + c.scope_depth = fr.top /\ fr.base \in Nat /\ c.scope_depth \in Nat
    BY LastFacts
  <2>2. fr.base < fr.top
    BY <2>1
  <2> QED BY <2>2, LastFacts
<1>2. sc2 \in Seq(LexicalScopes) /\ Len(sc2) = fr.top - 1 /\ \A h \in 1..fr.top - 1 : sc2[h] = sc[h]
  BY <1>1, FrontFacts
<1> HIDE DEF sc2
<1>5. Framed(sc2, d, n, g, dc)
  <2>1. SameNames(sc, sc2, fr.base + 1, fr.top - 1)
    BY <1>1, <1>2 DEF SameNames
  <2>2. DOMAIN sc[fr.top].names = {"super"}
    BY <1>1
  <2> QED BY <2>1, <2>2, <1>1, FramedEndSuper
<1>6. Rescoped(sc, sc2, g.base, n)
  <2>1. \A h \in fr.base + 1..fr.top - 1 : sc2[h].fn = n
    BY <1>1, <1>2
  <2>2. \A h \in 1..fr.base : sc2[h] = sc[h]
    BY <1>1, <1>2
  <2> QED BY <2>1, <2>2, <1>1, <1>2 DEF Rescoped
<1>8. GrownLocals(c, d, 0) /\ NewLocal(cs, cp, d, 0) /\ StillMarked([cs EXCEPT ![n] = d], cp, cp)
  BY <1>1, SameGrown, NoneNew
<1>9. cp \subseteq cp /\ 0 \in Nat /\ g.top = Len(sc2) /\ (n > 1 => g.base < g.top) /\ dc <= dc
  BY <1>1, <1>2
<1>10. g.base = f[Len(cs)].base /\ d.upvalues = cs[Len(cs)].upvalues /\ GrownLocals(cs[Len(cs)], d, 0)
  BY <1>8
<1>11. Core([cs EXCEPT ![n] = d], sc2, cp, dc, [f EXCEPT ![n] = g])
  BY <1>1, <1>2, <1>5, <1>6, <1>8, <1>9, <1>10, CoreLast
<1> QED BY <1>11 DEF sc2, CoreAt

-----------------------------------------------------------------------------
(* Declarations.                                                           *)

\* A declaration that is yet to come is no local, and none has read it.
LEMMA YetUnused ==
  ASSUME NEW cs, NEW sc, NEW cp, NEW dc, NEW f, Core(cs, sc, cp, dc, f), NEW m \in Nat, dc < m
  PROVE  Unused(cs, <<"declaration", m>>) /\ <<"declaration", m>> \notin cp
<1>1. /\ Typed(cs, sc, f) /\ Chained(sc, cs, f) /\ AllFramed(sc, cs, f, dc) /\ dc \in Nat
      /\ MarkedAsRead(cs, cp, dc)
  BY DEF Core
<1>2. ASSUME NEW k \in DOMAIN cs, NEW i \in DOMAIN cs[k].locals, cs[k].locals[i].id = <<"declaration", m>>
      PROVE  FALSE
  <2>1. cs[k] \in Compilers /\ f[k] \in Frames /\ Slots(cs[k], k, f[k], dc)
    BY <1>1, TypedFacts DEF AllFramed, Framed
  <2>2. CASE i = 1
    <3>1. cs[k].locals[i].id = <<"callee", k>>
      BY <2>1, <2>2, <1>1, IdFacts
    <3> QED BY <3>1, <1>2
  <2>3. CASE i # 1
    <3>1. \E o \in 1..dc : cs[k].locals[i].id = <<"declaration", o>>
      BY <2>1, <2>3, <1>1, IdFacts
    <3>2. PICK o \in 1..dc : cs[k].locals[i].id = <<"declaration", o>>
      BY <3>1
    <3>3. o = m
      BY <3>2, <1>2
    <3> QED BY <3>3, <1>1
  <2> QED BY <2>2, <2>3
<1>3. <<"declaration", m>> \notin cp
  <2> SUFFICES ASSUME <<"declaration", m>> \in cp PROVE FALSE
    OBVIOUS
  <2>1. PICK o \in 1..dc : <<"declaration", m>> = <<"declaration", o>>
    BY <1>1 DEF MarkedAsRead
  <2> QED BY <2>1, <1>1
<1> QED BY <1>2, <1>3 DEF Unused, IsNew

\* The innermost scope has one more name.
Renamed(sc, sc2, name, id) ==
  /\ sc2 \in Seq(LexicalScopes) /\ Len(sc2) = Len(sc)
  /\ \A h \in 1..Len(sc) - 1 : sc2[h] = sc[h]
  /\ sc2[Len(sc)].fn = sc[Len(sc)].fn /\ NamedIn(sc, sc2, Len(sc), name, id)

NextId(dc, dc2, id) == \E m \in 1..dc2 : dc < m /\ id = <<"declaration", m>>

Declaring(sc, c, fr, sc2, d, g, name, dp, id) ==
  /\ fr.wait = "no" /\ c.scope_depth > 0 /\ name \in Names \cup {"super"} /\ name \notin DOMAIN sc[Len(sc)].names
  /\ Renamed(sc, sc2, name, id)
  /\ g \in Frames /\ g.base = fr.base /\ g.top = fr.top
  /\ dp = IF g.wait = "var" THEN -1 ELSE c.scope_depth
  /\ d \in Compilers /\ Added(c, d, name, dp, id) /\ d.upvalues = c.upvalues

\* add_local: one more local, of a new variable, bound in the innermost scope.
LEMMA CoreDeclare ==
  ASSUME NEW cs, NEW sc, NEW cp, NEW dc, NEW f, Core(cs, sc, cp, dc, f),
         NEW n, n = Len(cs), NEW c, c = cs[n], NEW fr, fr = f[n], NEW d, NEW g, NEW name, NEW dp, NEW id, NEW sc2,
         Declaring(sc, c, fr, sc2, d, g, name, dp, id), NEW dc2 \in Nat, NextId(dc, dc2, id)
  PROVE  CoreAt(cs, n, d, sc2, cp, dc2, f, g)
<1> PICK m \in 1..dc2 : dc < m /\ id = <<"declaration", m>>
  BY DEF NextId
<1>0. /\ fr.wait = "no" /\ c.scope_depth > 0 /\ name \in Names \cup {"super"} /\ name \notin DOMAIN sc[Len(sc)].names
      /\ Renamed(sc, sc2, name, id)
      /\ g \in Frames /\ g.base = fr.base /\ g.top = fr.top
      /\ dp = IF g.wait = "var" THEN -1 ELSE c.scope_depth
      /\ d \in Compilers /\ Added(c, d, name, dp, id) /\ d.upvalues = c.upvalues
  BY DEF Declaring
<1> USE <1>0
<1> DEFINE e == Len(c.locals) + 1
<1>1. /\ c \in Compilers /\ fr \in Frames /\ dc \in Nat /\ n \in Nat /\ n >= 1 /\ Framed(sc, c, n, fr, dc)
      /\ fr.base \in Nat /\ fr.top \in Nat /\ Len(sc) = fr.top /\ sc \in Seq(LexicalScopes)
      /\ fr.base < fr.top /\ \A h \in fr.base + 1..fr.top : sc[h].fn = n
  <2>1. fr.base + c.scope_depth = fr.top /\ fr.base \in Nat /\ c.scope_depth \in Nat
    BY LastFacts
  <2>2. fr.base < fr.top
    BY <2>1
  <2> QED BY <2>2, LastFacts
<1>2. sc2 \in Seq(LexicalScopes) /\ Len(sc2) = fr.top /\ (\A h \in 1..fr.top - 1 : sc2[h] = sc[h])
      /\ sc2[fr.top].fn = sc[fr.top].fn /\ NamedIn(sc, sc2, fr.top, name, id)
  BY <1>1 DEF Renamed
<1>3. Unused(cs, id) /\ id \notin cp
  BY YetUnused
<1>4. dc <= dc2 /\ cs[n] = c /\ n \in DOMAIN cs /\ IsNew(c, id)
  <2>1. n \in DOMAIN cs
    BY <1>1 DEF Core, Typed
  <2>2. dc <= dc2
    BY <1>1
  <2> QED BY <2>1, <2>2, <1>3 DEF Unused
<1>5. Framed(sc2, d, n, g, dc2)
  <2>1. SameNames(sc, sc2, fr.base + 1, fr.top - 1)
    BY <1>1, <1>2 DEF SameNames
  <2>2. name \notin DOMAIN sc[fr.top].names
    BY <1>1
  <2> QED BY <2>1, <2>2, <1>1, <1>2, <1>4, FramedDeclare
<1>6. Rescoped(sc, sc2, g.base, n)
  <2>1. \A h \in fr.base + 1..fr.top : sc2[h].fn = n
    <3> SUFFICES ASSUME NEW h \in fr.base + 1..fr.top PROVE sc2[h].fn = n
      OBVIOUS
    <3>1. h = fr.top \/ h \in 1..fr.top - 1
      BY <1>1
    <3>2. sc2[h].fn = sc[h].fn
      BY <3>1, <1>2
    <3> QED BY <3>2, <1>1
  <2>2. \A h \in 1..fr.base : sc2[h] = sc[h]
    BY <1>1, <1>2
  <2> QED BY <2>1, <2>2, <1>1, <1>2 DEF Rescoped
<1>7. Len(c.locals) \in Nat /\ DOMAIN c.locals = 1..Len(c.locals) /\ DOMAIN d.locals = 1..e /\ 1 \in DOMAIN c.locals
  <2>1. Slots(c, n, fr, dc)
    BY <1>1 DEF Framed
  <2>2. Len(c.locals) >= 1 /\ Len(d.locals) = e
    BY <2>1 DEF Slots, Added
  <2>3. Len(c.locals) \in Nat /\ DOMAIN c.locals = 1..Len(c.locals) /\ DOMAIN d.locals = 1..Len(d.locals)
    BY <1>1, CompilerFacts
  <2> QED BY <2>2, <2>3
<1>8. GrownLocals(c, d, e)
  <2>1. \A i \in DOMAIN d.locals : i = e \/ i \in DOMAIN c.locals
    BY <1>7
  <2>2. \A i \in DOMAIN c.locals : d.locals[i] = c.locals[i]
    BY DEF Added
  <2> HIDE DEF e
  <2> QED BY <2>1, <2>2, <1>7 DEF GrownLocals
<1>9. NewLocal(cs, cp, d, e)
  BY <1>3 DEF NewLocal, Added
<1>10. StillMarked([cs EXCEPT ![n] = d], cp, cp)
  BY NoneNew
<1>11. cp \subseteq cp /\ e \in Nat /\ g.top = Len(sc2) /\ g.base < g.top
  BY <1>1, <1>2, <1>7
<1>12. g.base = f[Len(cs)].base /\ d.upvalues = cs[Len(cs)].upvalues /\ GrownLocals(cs[Len(cs)], d, e)
  BY <1>8
<1> HIDE DEF e
<1>99. Core([cs EXCEPT ![n] = d], sc2, cp, dc2, [f EXCEPT ![n] = g])
  BY <1>1, <1>2, <1>4, <1>5, <1>6, <1>9, <1>10, <1>11, <1>12, CoreLast
<1> QED BY <1>99, Zenon DEF CoreAt

Begun(d, s, k) ==
  /\ OwnSlot(d, k) /\ d.upvalues = <<>> /\ d.locals[1].is_captured = FALSE
  /\ s.fn = k /\ DOMAIN s.names = {d.locals[1].name} \ {""}
  /\ d.locals[1].name = "self" => s.names["self"] = <<"callee", k>>

\* A function begins: its compiler, its frame and its scope are the last.
LEMMA CoreNew ==
  ASSUME NEW cs, NEW sc, NEW cp, NEW dc, NEW f, Core(cs, sc, cp, dc, f),
         NEW n, n = Len(cs), NEW fr, fr = f[n],
         NEW d \in Compilers, NEW s \in LexicalScopes, Begun(d, s, n + 1),
         NEW g \in Frames, g.base = fr.top, g.top = fr.top + 1, g.wait = "no"
  PROVE  Core(Append(cs, d), Append(sc, s), cp, dc, Append(f, g))
<1> DEFINE cs2 == Append(cs, d)
           sc2 == Append(sc, s)
           f2 == Append(f, g)
           u == n + 1
<1>0. /\ Typed(cs, sc, f) /\ Chained(sc, cs, f) /\ AllFramed(sc, cs, f, dc) /\ dc \in Nat
      /\ Apart(cs) /\ MarkedAsRead(cs, cp, dc) /\ UpvaluesFit(cs)
  BY DEF Core
<1>1. /\ n \in Nat /\ n >= 1 /\ DOMAIN cs = 1..n /\ Len(f) = n /\ fr.top \in Nat /\ fr.top = Len(sc)
      /\ cs \in Seq(Compilers) /\ sc \in Seq(LexicalScopes) /\ f \in Seq(Frames)
      /\ DOMAIN sc = 1..Len(sc)
  BY <1>0, LastFacts, TypedFacts
<1>2. \A k \in 1..n : cs[k] \in Compilers /\ f[k] \in Frames /\ f[k].base \in Nat /\ f[k].top \in Nat /\ f[k].top <= Len(sc)
  BY <1>0, <1>1, TypedFacts
<1>3. /\ cs2 \in Seq(Compilers) /\ Len(cs2) = u /\ DOMAIN cs2 = 1..u /\ cs2[u] = d
      /\ \A k \in 1..n : cs2[k] = cs[k]
  BY <1>1, AppendFacts
<1>4. /\ sc2 \in Seq(LexicalScopes) /\ Len(sc2) = fr.top + 1 /\ DOMAIN sc2 = 1..fr.top + 1
      /\ sc2[fr.top + 1] = s /\ \A h \in 1..fr.top : sc2[h] = sc[h]
  BY <1>1, AppendFacts
<1>5. /\ f2 \in Seq(Frames) /\ Len(f2) = u /\ f2[u] = g /\ \A k \in 1..n : f2[k] = f[k]
  BY <1>1, AppendFacts
<1>6. u \in 1..u /\ u \notin 1..n /\ (\A k \in 1..u : k = u \/ k \in 1..n) /\ \A k \in 1..n : k \in 1..u /\ k < u
  BY <1>1
<1>7. /\ f[1].base = 0 /\ f[n].top = Len(sc)
      /\ (\A k \in 1..n : f[k].base <= f[k].top)
      /\ (\A k \in 1..n : k > 1 => f[k].base = f[k - 1].top /\ f[k].base < f[k].top)
      /\ (\A k, l \in 1..n : k < l => f[k].top <= f[l].base)
      /\ (\A h \in DOMAIN sc : sc[h].fn \in 1..n)
      /\ (\A h \in DOMAIN sc : \A k \in 1..n : sc[h].fn = k <=> h \in f[k].base + 1..f[k].top)
  BY <1>0, <1>1 DEF Chained
<1> HIDE DEF cs2, sc2, f2
<1>8. Chained(sc2, cs2, f2)
  <2>1. f2[1].base = 0 /\ f2[u].top = Len(sc2)
    <3>1. 1 \in 1..n
      BY <1>1
    <3> QED BY <3>1, <1>4, <1>5, <1>7
  <2>2. \A k \in 1..u : f2[k].base <= f2[k].top
    <3>1. g.base <= g.top
      BY <1>1
    <3> QED BY <3>1, <1>5, <1>6, <1>7
  <2>3. \A k \in 1..u : k > 1 => f2[k].base = f2[k - 1].top /\ f2[k].base < f2[k].top
    <3> SUFFICES ASSUME NEW k \in 1..u, k > 1
                 PROVE  f2[k].base = f2[k - 1].top /\ f2[k].base < f2[k].top
      OBVIOUS
    <3>1. k - 1 \in 1..n
      BY <1>1
    <3>2. CASE k = u
      <4>1. f2[u - 1] = fr
        BY <3>1, <3>2, <1>1, <1>5
      <4> QED BY <4>1, <3>2, <1>1, <1>5
    <3>3. CASE k \in 1..n
      BY <3>1, <3>3, <1>5, <1>7
    <3> QED BY <3>2, <3>3, <1>6
  <2>4. \A k, l \in 1..u : k < l => f2[k].top <= f2[l].base
    <3> SUFFICES ASSUME NEW k \in 1..u, NEW l \in 1..u, k < l PROVE f2[k].top <= f2[l].base
      OBVIOUS
    <3>1. k \in 1..n
      BY <1>1
    <3>2. CASE l = u
      <4>1. f[k].top <= g.base
        BY <3>1, <1>1, <1>2
      <4> QED BY <4>1, <3>1, <3>2, <1>5
    <3>3. CASE l \in 1..n
      BY <3>1, <3>3, <1>5, <1>7
    <3> QED BY <3>2, <3>3, <1>6
  <2>5. \A h \in DOMAIN sc2 : h = fr.top + 1 \/ h \in DOMAIN sc
    BY <1>1, <1>4
  <2>6. \A h \in DOMAIN sc2 : sc2[h].fn \in 1..u
    <3> SUFFICES ASSUME NEW h \in DOMAIN sc2 PROVE sc2[h].fn \in 1..u
      OBVIOUS
    <3>1. CASE h = fr.top + 1
      BY <3>1, <1>4, <1>6 DEF Begun
    <3>2. CASE h \in DOMAIN sc
      <4>1. sc2[h].fn \in 1..n
        BY <3>2, <1>1, <1>4, <1>7
      <4> QED BY <4>1, <1>6
    <3> QED BY <3>1, <3>2, <2>5
  <2>7. \A h \in DOMAIN sc2 : \A k \in 1..u : sc2[h].fn = k <=> h \in f2[k].base + 1..f2[k].top
    <3> SUFFICES ASSUME NEW h \in DOMAIN sc2, NEW k \in 1..u
                 PROVE  sc2[h].fn = k <=> h \in f2[k].base + 1..f2[k].top
      OBVIOUS
    <3>1. CASE h = fr.top + 1 /\ k = u
      <4>1. h \in g.base + 1..g.top
        BY <3>1, <1>1
      <4> QED BY <4>1, <3>1, <1>4, <1>5 DEF Begun
    <3>2. CASE h = fr.top + 1 /\ k \in 1..n
      <4>1. ~(h \in f[k].base + 1..f[k].top)
        BY <3>2, <1>1, <1>2
      <4>2. sc2[h].fn = u /\ u # k
        BY <3>2, <1>4, <1>6 DEF Begun
      <4> QED BY <4>1, <4>2, <3>2, <1>5
    <3>3. CASE h \in DOMAIN sc /\ k = u
      <4>1. sc2[h].fn \in 1..n
        BY <3>3, <1>1, <1>4, <1>7
      <4>2. ~(h \in g.base + 1..g.top)
        BY <3>3, <1>1
      <4> QED BY <4>1, <4>2, <3>3, <1>5, <1>6
    <3>4. CASE h \in DOMAIN sc /\ k \in 1..n
      BY <3>4, <1>1, <1>4, <1>5, <1>7
    <3> QED BY <3>1, <3>2, <3>3, <3>4, <2>5, <1>6
  <2> QED BY <2>1, <2>2, <2>3, <2>4, <2>6, <2>7, <1>1, <1>3, <1>5 DEF Chained
<1>9. AllFramed(sc2, cs2, f2, dc)
  <2>1. Framed(sc2, d, u, g, dc)
    <3>1. OwnScope(sc2, d, u, g.top)
      BY <1>4 DEF OwnScope, Begun
    <3>2. u \in Nat /\ u > 1 /\ g.top = g.base + 1
      BY <1>1
    <3> QED BY <3>1, <3>2, <1>0, FramedNew DEF Begun
  <2>2. ASSUME NEW k \in 1..n PROVE Framed(sc2, cs2[k], k, f2[k], dc)
    <3>1. Framed(sc, cs[k], k, f[k], dc) /\ cs[k] \in Compilers /\ f[k] \in Frames
      BY <1>0, <1>1, <1>2 DEF AllFramed
    <3>2. LocalsAgree(cs[k], cs[k])
      BY DEF LocalsAgree
    <3>3. f[k].wait # "no" => cs[k].scope_depth > 0 /\ Len(cs[k].locals) >= 2
      BY <3>1 DEF Framed, Slots
    <3>4. \A h \in f[k].base + 1..f[k].top : sc2[h].names = sc[h].names
      <4>1. \A h \in f[k].base + 1..f[k].top : h \in 1..fr.top
        BY <1>1, <1>2
      <4> QED BY <4>1, <1>4
    <3>5. Framed(sc2, cs[k], k, f[k], dc)
      <4>1. dc <= dc
        BY <1>0
      <4> QED BY <4>1, <3>1, <3>2, <3>3, <3>4, <1>0, FramedAgain
    <3> QED BY <3>5, <1>3, <1>5
  <2> QED BY <2>1, <2>2, <1>3, <1>5, <1>6 DEF AllFramed
<1>10. Grown(cs, cs2, u, 1)
  <2>1. DOMAIN d.locals = {1}
    <3>1. DOMAIN d.locals = 1..Len(d.locals)
      BY CompilerFacts
    <3>2. DOMAIN d.locals = 1..1
      BY <3>1 DEF OwnSlot, Begun
    <3> QED BY <3>2
  <2> SUFFICES ASSUME NEW k \in 1..u, NEW i \in DOMAIN cs2[k].locals
               PROVE  \/ k = u /\ i = 1
                      \/ /\ k \in DOMAIN cs /\ i \in DOMAIN cs[k].locals
                         /\ cs2[k].locals[i].id = cs[k].locals[i].id
                         /\ cs2[k].locals[i].is_captured = cs[k].locals[i].is_captured
    BY <1>3 DEF Grown
  <2>2. CASE k = u
    BY <2>1, <2>2, <1>3
  <2>3. CASE k \in 1..n
    BY <2>3, <1>1, <1>3
  <2> QED BY <2>2, <2>3, <1>6
<1>11. cs2[u].locals[1].id = <<"callee", u>> /\ cs2[u].locals[1].is_captured = FALSE
  BY <1>3 DEF OwnSlot, Begun
<1>12. Unused(cs, <<"callee", u>>) /\ <<"callee", u>> \notin cp
  <2>1. ASSUME NEW k \in 1..n, NEW i \in DOMAIN cs[k].locals, cs[k].locals[i].id = <<"callee", u>>
        PROVE FALSE
    <3>1. cs[k] \in Compilers /\ f[k] \in Frames /\ Slots(cs[k], k, f[k], dc)
      BY <1>0, <1>1, <1>2 DEF AllFramed, Framed
    <3>2. CASE i = 1
      <4>1. cs[k].locals[i].id = <<"callee", k>>
        BY <3>1, <3>2, <1>0, IdFacts
      <4>2. k = u
        BY <4>1, <2>1
      <4> QED BY <4>2, <1>6
    <3>3. CASE i # 1
      <4>1. \E o \in 1..dc : cs[k].locals[i].id = <<"declaration", o>>
        BY <3>1, <3>3, <1>0, IdFacts
      <4> QED BY <4>1, <2>1
    <3> QED BY <3>2, <3>3
  <2>2. <<"callee", u>> \notin cp
    <3> SUFFICES ASSUME <<"callee", u>> \in cp PROVE FALSE
      OBVIOUS
    <3>1. \/ \E k \in DOMAIN cs : <<"callee", u>> = <<"callee", k>> /\ cs[k].locals[1].name # ""
          \/ \E m \in 1..dc : <<"callee", u>> = <<"declaration", m>>
      BY <1>0 DEF MarkedAsRead
    <3>2. \E k \in DOMAIN cs : u = k
      BY <3>1
    <3> QED BY <3>2, <1>1, <1>6
  <2> QED BY <2>1, <2>2, <1>1 DEF Unused, IsNew
<1>13. Apart(cs2)
  BY <1>0, <1>10, <1>11, <1>12, ApartGrown
<1>14. MarkedAsRead(cs2, cp, dc)
  <2>1. \A k \in DOMAIN cs : <<"callee", k>> \in cp => k \in DOMAIN cs2 /\ cs2[k].locals[1].name = cs[k].locals[1].name
    BY <1>1, <1>3, <1>6
  <2>2. cp \subseteq cp /\ dc <= dc
    BY <1>0
  <2>3. u \in DOMAIN cs2 => cs2[u].locals[1].id \notin cp /\ cs2[u].locals[1].is_captured = FALSE
    BY <1>11, <1>12
  <2>4. \A k \in DOMAIN cs2 : \A i \in DOMAIN cs2[k].locals : cs2[k].locals[i].id \in cp => cs2[k].locals[i].id \in cp
    OBVIOUS
  <2> QED BY <2>1, <2>2, <2>3, <2>4, <1>0, <1>10, MarkedGrown
<1>15. UpvaluesFit(cs2)
  <2>1. IsInjective(d.upvalues) /\ Len(d.upvalues) <= UpvaluesMax
    <3>1. UpvaluesMax \in Nat \ {0}
      BY LimitsArePositive
    <3>2. d.upvalues = <<>>
      BY DEF Begun
    <3> QED BY <3>1, <3>2 DEF IsInjective
  <2>2. \A k \in 1..n : IsInjective(cs2[k].upvalues) /\ Len(cs2[k].upvalues) <= UpvaluesMax
    BY <1>0, <1>1, <1>3 DEF UpvaluesFit
  <2> QED BY <2>1, <2>2, <1>3, <1>6 DEF UpvaluesFit
<1>16. Typed(cs2, sc2, f2)
  BY <1>3, <1>4, <1>5 DEF Typed
<1> QED BY <1>0, <1>8, <1>9, <1>13, <1>14, <1>15, <1>16 DEF Core, cs2, sc2, f2

\* A function ends, with its own scope.
LEMMA CoreReturn ==
  ASSUME NEW cs, NEW sc, NEW cp, NEW dc, NEW f, Core(cs, sc, cp, dc, f),
         NEW n, n = Len(cs), n > 1, NEW fr, fr = f[n], fr.top = fr.base + 1
  PROVE  Core(Front(cs), Front(sc), cp \ Range(Last(sc).names), dc, Front(f))
<1> DEFINE cs2 == Front(cs)
           sc2 == Front(sc)
           f2 == Front(f)
           gone == Range(sc[Len(sc)].names)
           c == cs[n]
           u == n - 1
<1>0. /\ Typed(cs, sc, f) /\ Chained(sc, cs, f) /\ AllFramed(sc, cs, f, dc) /\ dc \in Nat
      /\ Apart(cs) /\ MarkedAsRead(cs, cp, dc) /\ UpvaluesFit(cs)
  BY DEF Core
<1>1. /\ n \in Nat /\ n >= 1 /\ DOMAIN cs = 1..n /\ Len(f) = n /\ fr.base \in Nat /\ fr.top \in Nat /\ fr.top = Len(sc)
      /\ cs \in Seq(Compilers) /\ sc \in Seq(LexicalScopes) /\ f \in Seq(Frames)
      /\ DOMAIN sc = 1..Len(sc) /\ fr \in Frames
      /\ c \in Compilers /\ Framed(sc, c, n, fr, dc) /\ Slots(c, n, fr, dc)
  BY <1>0, LastFacts, TypedFacts
<1>2. \A k \in 1..n : cs[k] \in Compilers /\ f[k] \in Frames /\ f[k].base \in Nat /\ f[k].top \in Nat /\ f[k].top <= Len(sc)
  BY <1>0, <1>1, TypedFacts
<1>3. /\ cs2 \in Seq(Compilers) /\ Len(cs2) = u /\ DOMAIN cs2 = 1..u
      /\ \A k \in 1..u : cs2[k] = cs[k]
  BY <1>1, FrontFacts
<1>4. /\ sc2 \in Seq(LexicalScopes) /\ Len(sc2) = fr.base /\ DOMAIN sc2 = 1..fr.base
      /\ \A h \in 1..fr.base : sc2[h] = sc[h] /\ h \in DOMAIN sc
  <2>1. Len(sc) >= 1 /\ Len(sc) - 1 = fr.base
    BY <1>1
  <2>2. /\ sc2 \in Seq(LexicalScopes) /\ Len(sc2) = Len(sc) - 1 /\ DOMAIN sc2 = 1..Len(sc) - 1
        /\ \A h \in 1..Len(sc) - 1 : sc2[h] = sc[h]
    BY <2>1, <1>1, FrontFacts
  <2>3. \A h \in 1..fr.base : h \in DOMAIN sc
    BY <1>1
  <2> QED BY <2>1, <2>2, <2>3
<1>5. /\ f2 \in Seq(Frames) /\ Len(f2) = u /\ \A k \in 1..u : f2[k] = f[k]
  BY <1>1, FrontFacts
<1>6. u \in 1..u /\ u \in Nat /\ u >= 1 /\ \A k \in 1..u : k \in 1..n /\ k < n /\ k # n
  BY <1>1
<1>7. /\ f[1].base = 0
      /\ (\A k \in 1..n : f[k].base <= f[k].top)
      /\ (\A k \in 1..n : k > 1 => f[k].base = f[k - 1].top /\ f[k].base < f[k].top)
      /\ (\A k, l \in 1..n : k < l => f[k].top <= f[l].base)
      /\ (\A h \in DOMAIN sc : sc[h].fn \in 1..n)
      /\ (\A h \in DOMAIN sc : \A k \in 1..n : sc[h].fn = k <=> h \in f[k].base + 1..f[k].top)
  BY <1>0, <1>1 DEF Chained
<1> HIDE DEF cs2, sc2, f2, c, gone
<1>8. Chained(sc2, cs2, f2)
  <2>1. f2[1].base = 0 /\ f2[u].top = Len(sc2)
    <3>1. 1 \in 1..u
      BY <1>6
    <3>2. fr.base = f[n - 1].top
      <4>1. n \in 1..n
        BY <1>1
      <4> QED BY <4>1, <1>7
    <3> QED BY <3>1, <3>2, <1>4, <1>5, <1>6, <1>7
  <2>2. \A k \in 1..u : f2[k].base <= f2[k].top
    BY <1>5, <1>6, <1>7
  <2>3. \A k \in 1..u : k > 1 => f2[k].base = f2[k - 1].top /\ f2[k].base < f2[k].top
    <3> SUFFICES ASSUME NEW k \in 1..u, k > 1
                 PROVE  f2[k].base = f2[k - 1].top /\ f2[k].base < f2[k].top
      OBVIOUS
    <3>1. k - 1 \in 1..u
      BY <1>1
    <3> QED BY <3>1, <1>5, <1>6, <1>7
  <2>4. \A k, l \in 1..u : k < l => f2[k].top <= f2[l].base
    BY <1>5, <1>6, <1>7
  <2>5. \A h \in DOMAIN sc2 : sc2[h].fn \in 1..u
    <3> SUFFICES ASSUME NEW h \in DOMAIN sc2 PROVE sc2[h].fn \in 1..u
      OBVIOUS
    <3>1. h \in 1..fr.base /\ h \in DOMAIN sc /\ sc2[h].fn = sc[h].fn /\ sc[h].fn \in 1..n
      BY <1>4, <1>7
    <3>2. ~(h \in fr.base + 1..fr.top)
      BY <3>1, <1>1
    <3>3. sc[h].fn # n
      <4>1. n \in 1..n
        BY <1>1
      <4> QED BY <4>1, <3>1, <3>2, <1>7
    <3> QED BY <3>1, <3>3, <1>1
  <2>6. \A h \in DOMAIN sc2 : \A k \in 1..u : sc2[h].fn = k <=> h \in f2[k].base + 1..f2[k].top
    <3> SUFFICES ASSUME NEW h \in DOMAIN sc2, NEW k \in 1..u
                 PROVE  sc2[h].fn = k <=> h \in f2[k].base + 1..f2[k].top
      OBVIOUS
    <3>1. h \in DOMAIN sc /\ sc2[h] = sc[h] /\ f2[k] = f[k] /\ k \in 1..n
      BY <1>4, <1>5, <1>6
    <3> QED BY <3>1, <1>7
  <2> QED BY <2>1, <2>2, <2>3, <2>4, <2>5, <2>6, <1>3, <1>5, <1>6 DEF Chained
<1>9. AllFramed(sc2, cs2, f2, dc)
  <2> SUFFICES ASSUME NEW k \in 1..u PROVE Framed(sc2, cs2[k], k, f2[k], dc)
    BY <1>3 DEF AllFramed
  <2>1. Framed(sc, cs[k], k, f[k], dc) /\ cs[k] \in Compilers /\ f[k] \in Frames
    BY <1>0, <1>1, <1>2, <1>6 DEF AllFramed
  <2>2. LocalsAgree(cs[k], cs[k])
    BY DEF LocalsAgree
  <2>3. f[k].wait # "no" => cs[k].scope_depth > 0 /\ Len(cs[k].locals) >= 2
    BY <2>1 DEF Framed, Slots
  <2>4. \A h \in f[k].base + 1..f[k].top : sc2[h].names = sc[h].names
    <3>1. f[k].top <= fr.base
      <4>1. n \in 1..n
        BY <1>1
      <4> QED BY <4>1, <1>6, <1>7
    <3>2. \A h \in f[k].base + 1..f[k].top : h \in 1..fr.base
      <4>1. f[k].base \in Nat /\ f[k].top \in Nat
        BY <1>2, <1>6
      <4> QED BY <4>1, <3>1, <1>1
    <3> QED BY <3>2, <1>4
  <2>5. Framed(sc2, cs[k], k, f[k], dc)
    <3>1. dc <= dc
      BY <1>0
    <3> QED BY <3>1, <2>1, <2>2, <2>3, <2>4, <1>0, FramedAgain
  <2> QED BY <2>5, <1>3, <1>5
<1>10. Grown(cs, cs2, 0, 0)
  BY <1>1, <1>3, <1>6 DEF Grown
<1>11. 0 \notin DOMAIN cs2
  BY <1>3, <1>6
<1>12. Apart(cs2)
  BY <1>0, <1>10, <1>11, ApartGrown
<1>13. TopBound(sc, c, fr)
  <2>1. c.scope_depth > 0
    <3>1. fr.base + c.scope_depth = fr.top /\ c.scope_depth \in Nat
      BY <1>1, CompilerFacts DEF Slots
    <3> QED BY <3>1, <1>1
  <2> QED BY <2>1, TopNames DEF c
<1>14. MarkedAsRead(cs2, cp \ gone, dc)
  <2>1. ASSUME NEW k \in DOMAIN cs, <<"callee", k>> \in cp \ gone
        PROVE  k \in DOMAIN cs2 /\ cs2[k].locals[1].name = cs[k].locals[1].name
    <3>1. CASE k # n
      <4>1. k \in 1..u
        BY <3>1, <1>1
      <4> QED BY <4>1, <1>3
    <3>2. CASE k = n
      <4>1. /\ 1 \in DOMAIN c.locals /\ c.locals[1].id = <<"callee", n>> /\ c.locals[1].name \in {"", "self"}
        BY <1>0, <1>1, SlotFacts
      <4>2. cs[n].locals[1].name # ""
        <5>1. \/ \E l \in DOMAIN cs : <<"callee", n>> = <<"callee", l>> /\ cs[l].locals[1].name # ""
              \/ \E m \in 1..dc : <<"callee", n>> = <<"declaration", m>>
          BY <2>1, <3>2, <1>0 DEF MarkedAsRead
        <5> QED BY <5>1
      <4>3. c.locals[1].name = "self"
        BY <4>1, <4>2 DEF c
      <4>4. IsBound(sc, c, 1, fr)
        <5>1. c.locals[1].name \notin {"", "super"}
          BY <4>3
        <5> QED BY <5>1, <4>1, <1>1 DEF Framed, Known
      <4>5. "self" \in DOMAIN sc[Len(sc)].names /\ sc[Len(sc)].names["self"] = <<"callee", n>>
        <5>1. Level(c, 1, fr) = fr.top
          BY DEF Level
        <5> QED BY <5>1, <4>1, <4>3, <4>4, <1>1 DEF IsBound
      <4>6. <<"callee", n>> \in gone
        BY <4>5 DEF gone, Range
      <4> QED BY <4>6, <3>2, <2>1
    <3> QED BY <3>1, <3>2
  <2>2. ASSUME NEW k \in DOMAIN cs2, NEW i \in DOMAIN cs2[k].locals, cs2[k].locals[i].id \in cp
        PROVE  cs2[k].locals[i].id \in cp \ gone
    <3> SUFFICES ASSUME cs2[k].locals[i].id \in gone PROVE FALSE
      BY <2>2
    <3>1. PICK j \in DOMAIN c.locals : c.locals[j].id = cs2[k].locals[i].id
      BY <1>13 DEF TopBound, gone
    <3>2. k \in 1..n /\ k # n /\ cs2[k] = cs[k] /\ n \in 1..n
      BY <1>1, <1>3, <1>6
    <3>3. cs[k].locals[i].id = cs[n].locals[j].id /\ i \in DOMAIN cs[k].locals /\ j \in DOMAIN cs[n].locals
      BY <3>1, <3>2 DEF c
    <3> QED BY <3>2, <3>3, <1>0, <1>1 DEF Apart
  <2>3. cp \ gone \subseteq cp /\ dc <= dc
    BY <1>0
  <2> QED BY <2>1, <2>2, <2>3, <1>0, <1>10, <1>11, MarkedGrown
<1>15. UpvaluesFit(cs2)
  BY <1>0, <1>1, <1>3, <1>6 DEF UpvaluesFit
<1>16. Typed(cs2, sc2, f2)
  BY <1>3, <1>4, <1>5 DEF Typed
<1>17. Core(cs2, sc2, cp \ gone, dc, f2)
  BY <1>0, <1>8, <1>9, <1>12, <1>14, <1>15, <1>16 DEF Core
<1> QED BY <1>17 DEF cs2, sc2, f2, gone, Last

-----------------------------------------------------------------------------
(* Upvalues.                                                               *)

\* The least of some numbers up to a bound.
LEMMA MinFacts ==
  ASSUME NEW n \in Nat, NEW S \in SUBSET (1..n), S # {}
  PROVE  Min(S) \in S /\ \A i \in S : Min(S) <= i
<1>1. PICK m \in S : \A o \in S : m <= o
  <2>1. S \in SUBSET Nat
    OBVIOUS
  <2> QED BY <2>1, LeastMember
<1>2. \A o \in S : o \in Int
  OBVIOUS
<1> QED BY <1>1, <1>2 DEF Min

SameButUpvalues(c, d) ==
  /\ d.fn_type = c.fn_type /\ d.locals = c.locals /\ d.scope_depth = c.scope_depth
  /\ d.arity = c.arity /\ d.stack = c.stack

\* add_upvalue finds the upvalue it was asked for or adds it, and repeats none.
LEMMA AddUpvalueFacts ==
  ASSUME NEW c \in Compilers, NEW info \in UpvalueInfos, Len(c.upvalues) < UpvaluesMax, IsInjective(c.upvalues)
  PROVE  LET a == add_upvalue(c, info)
         IN  /\ a.compiler \in Compilers /\ SameButUpvalues(c, a.compiler)
             /\ IsInjective(a.compiler.upvalues) /\ Len(a.compiler.upvalues) <= UpvaluesMax
             /\ a.index \in DOMAIN a.compiler.upvalues /\ a.compiler.upvalues[a.index] = info
             /\ DOMAIN a.compiler.upvalues = 1..Len(a.compiler.upvalues)
             /\ Len(a.compiler.upvalues) <= Len(c.upvalues) + 1
<1> DEFINE I == {i \in 1..Len(c.upvalues) : SameUpvalue(c.upvalues[i], info)}
           at == SelectInSeq(c.upvalues, LAMBDA upvalue : SameUpvalue(upvalue, info))
           d == [c EXCEPT !.upvalues = Append(@, info)]
<1>1. at = IF I # {} THEN Min(I) ELSE 0
  BY DEF SelectInSeq
<1>2. c.upvalues \in Seq(UpvalueInfos) /\ Len(c.upvalues) \in Nat /\ UpvaluesMax \in Nat
      /\ DOMAIN c.upvalues = 1..Len(c.upvalues)
  BY LimitsArePositive DEF Compilers
<1>3. CASE I # {}
  <2>1. Min(I) \in I
    <3>1. I \in SUBSET (1..Len(c.upvalues))
      OBVIOUS
    <3> HIDE DEF I
    <3> QED BY <3>1, <1>2, <1>3, MinFacts
  <2>2. at \in 1..Len(c.upvalues) /\ c.upvalues[at] = info
    BY <2>1, <1>1, <1>3 DEF SameUpvalue
  <2> HIDE DEF at
  <2>3. add_upvalue(c, info) = [compiler |-> c, index |-> at]
    <3>1. at # 0 /\ Len(c.upvalues) # UpvaluesMax
      BY <2>2, <1>2
    <3> QED BY <3>1 DEF add_upvalue, at
  <2>4. SameButUpvalues(c, c)
    BY DEF SameButUpvalues
  <2>5. Len(c.upvalues) <= UpvaluesMax /\ Len(c.upvalues) <= Len(c.upvalues) + 1
    BY <1>2
  <2> QED BY <2>2, <2>3, <2>4, <2>5, <1>2
<1>4. CASE I = {}
  <2>1. add_upvalue(c, info) = [compiler |-> d, index |-> Len(c.upvalues) + 1]
    <3>1. at = 0 /\ Len(c.upvalues) # UpvaluesMax
      BY <1>1, <1>2, <1>4
    <3> HIDE DEF at
    <3> QED BY <3>1 DEF add_upvalue, at
  <2>2. d.upvalues = Append(c.upvalues, info) /\ SameButUpvalues(c, d) /\ d \in Compilers
    <3>1. Append(c.upvalues, info) \in Seq(UpvalueInfos)
      BY <1>2
    <3> QED BY <3>1 DEF SameButUpvalues, Compilers
  <2> DEFINE u == Append(c.upvalues, info)
             e == Len(c.upvalues) + 1
  <2>3. u \in Seq(UpvalueInfos) /\ Len(u) = e /\ DOMAIN u = 1..e /\ u[e] = info
        /\ \A i \in 1..Len(c.upvalues) : u[i] = c.upvalues[i]
    BY <1>2
  <2>4. IsInjective(u)
    <3> SUFFICES ASSUME NEW i \in 1..e, NEW j \in 1..e, u[i] = u[j] PROVE i = j
      <4> HIDE DEF u, e
      <4> QED BY <2>3 DEF IsInjective
    <3>1. \A m \in 1..Len(c.upvalues) : u[m] # info
      BY <1>4, <2>3 DEF SameUpvalue
    <3>2. (i = e \/ i \in 1..Len(c.upvalues)) /\ (j = e \/ j \in 1..Len(c.upvalues))
      BY <1>2
    <3>3. CASE i = e \/ j = e
      <4> HIDE DEF u, e
      <4> QED BY <3>1, <3>2, <3>3, <2>3
    <3>4. CASE i \in 1..Len(c.upvalues) /\ j \in 1..Len(c.upvalues)
      <4> HIDE DEF u, e
      <4> QED BY <3>4, <2>3, <1>2 DEF IsInjective
    <3> QED BY <3>2, <3>3, <3>4
  <2>5. e \in 1..e /\ e <= UpvaluesMax /\ e <= Len(c.upvalues) + 1
    BY <1>2
  <2>6. add_upvalue(c, info).compiler = d /\ add_upvalue(c, info).index = e /\ d.upvalues = u
    BY <2>1, <2>2
  <2>7. d \in Compilers /\ SameButUpvalues(c, d)
    BY <2>2
  <2> HIDE DEF d, u, e
  <2> QED BY <2>3, <2>4, <2>5, <2>6, <2>7
<1> QED BY <1>3, <1>4

\* What new_upvalue_info keeps: is_local, and an index that fits in its bits.
LEMMA InfoFacts ==
  ASSUME NEW index \in Nat \ {0}, NEW is_local \in BOOLEAN
  PROVE  /\ new_upvalue_info(index, is_local) \in UpvalueInfos
         /\ new_upvalue_info(index, is_local).is_local = is_local
         /\ index <= IndexRange => new_upvalue_info(index, is_local).index = index
<1>1. IndexRange \in Nat /\ IndexRange > 0 /\ index - 1 \in Nat
  BY LimitsArePositive
<1>2. (index - 1) % IndexRange \in Nat
  BY <1>1
<1>3. index <= IndexRange => (index - 1) % IndexRange = index - 1
  BY <1>1
<1> QED BY <1>1, <1>2, <1>3 DEF new_upvalue_info, UpvalueInfos

-----------------------------------------------------------------------------
(* The search for a name, function by function.                            *)

ReachStep(chain, prev, k, o) ==
  LET info == new_upvalue_info(prev.index, k = o + 1)
      added == add_upvalue(chain[k], info)
  IN  [chain |-> [prev.chain EXCEPT ![k] = added.compiler], index |-> added.index]

ReachBase(chain, o, l) == [chain |-> Marked(chain, o, l), index |-> l]

IsReach(r, chain, o, l, m) ==
  r = [k \in o..m |-> IF k = o THEN ReachBase(chain, o, l) ELSE ReachStep(chain, r[k - 1], k, o)]

\* The walk from the owner of a local to the innermost function is a sequence of indexes.
LEMMA ReachExists ==
  ASSUME NEW chain, NEW o \in Nat, NEW l, NEW n \in Nat, o <= n
  PROVE  \E r : IsReach(r, chain, o, l, n)
<1> DEFINE S == {m \in Nat : ~ \E r : IsReach(r, chain, o, l, o + m)}
<1> SUFFICES ASSUME n - o \in S PROVE FALSE
  <2>1. n - o \in Nat /\ o + (n - o) = n
    OBVIOUS
  <2> QED BY <2>1
<1>1. PICK m \in S : \A p \in S : m <= p
  <2>1. S \in SUBSET Nat /\ S # {}
    OBVIOUS
  <2> HIDE DEF S
  <2> QED BY <2>1, LeastMember
<1>2. m # 0
  <2> DEFINE r == [k \in o..o |-> ReachBase(chain, o, l)]
  <2>1. IsReach(r, chain, o, l, o)
    BY DEF IsReach
  <2>2. o + 0 = o
    OBVIOUS
  <2> QED BY <2>1, <2>2
<1>3. PICK r : IsReach(r, chain, o, l, o + (m - 1))
  <2>1. m - 1 \in Nat /\ m - 1 \notin S
    BY <1>1, <1>2
  <2> QED BY <2>1
<1> DEFINE g == [k \in o..o + m |-> IF k < o + m THEN r[k] ELSE ReachStep(chain, r[o + m - 1], o + m, o)]
<1>4. IsReach(g, chain, o, l, o + m)
  <2>1. \A k \in o..o + (m - 1) :
          r[k] = IF k = o THEN ReachBase(chain, o, l) ELSE ReachStep(chain, r[k - 1], k, o)
    BY <1>3, Zenon DEF IsReach
  <2>2. ASSUME NEW k \in o..o + m
        PROVE  g[k] = IF k = o THEN ReachBase(chain, o, l) ELSE ReachStep(chain, g[k - 1], k, o)
    BY <2>1, <1>2
  <2>3. g = [k \in o..o + m |-> g[k]]
    OBVIOUS
  <2> HIDE DEF g
  <2>4. g = [k \in o..o + m |-> IF k = o THEN ReachBase(chain, o, l) ELSE ReachStep(chain, g[k - 1], k, o)]
    BY <2>2, <2>3
  <2> QED BY <2>4 DEF IsReach
<1> HIDE DEF g
<1> QED BY <1>1, <1>4

\* What the search has found and changed when it has come to the function k.
Reached(cs, o, l, r, k) ==
  /\ r[k].chain \in Seq(Compilers) /\ Len(r[k].chain) = Len(cs)
  /\ \A j \in 1..Len(cs) : j < o \/ j > k => r[k].chain[j] = cs[j]
  /\ r[k].chain[o] = Marked(cs, o, l)[o]
  /\ r[k].index \in Nat \ {0} /\ r[o].index = l
  /\ \A j \in o + 1..k :
       LET d == r[k].chain[j]
       IN  /\ d \in Compilers /\ SameButUpvalues(cs[j], d)
           /\ IsInjective(d.upvalues) /\ Len(d.upvalues) <= UpvaluesMax
           /\ Len(d.upvalues) <= Len(cs[j].upvalues) + 1
           /\ r[j].index \in 1..Len(d.upvalues)
           /\ d.upvalues[r[j].index] = new_upvalue_info(r[j - 1].index, j = o + 1)

\* One local is marked.
OneMarked(c, d, l) ==
  /\ d \in Compilers /\ d.upvalues = c.upvalues /\ d.scope_depth = c.scope_depth
  /\ d.fn_type = c.fn_type /\ d.arity = c.arity /\ d.stack = c.stack
  /\ DOMAIN d.locals = DOMAIN c.locals /\ Len(d.locals) = Len(c.locals)
  /\ \A i \in DOMAIN c.locals :
       /\ d.locals[i].name = c.locals[i].name /\ d.locals[i].depth = c.locals[i].depth
       /\ d.locals[i].id = c.locals[i].id
       /\ d.locals[i].is_captured = IF i = l THEN TRUE ELSE c.locals[i].is_captured

\* Marked changes one local of one compiler, and its mark alone.
LEMMA MarkedFacts ==
  ASSUME NEW cs \in Seq(Compilers), NEW o \in DOMAIN cs, NEW l \in DOMAIN cs[o].locals
  PROVE  /\ Marked(cs, o, l) \in Seq(Compilers) /\ Len(Marked(cs, o, l)) = Len(cs)
         /\ \A j \in 1..Len(cs) : j # o => Marked(cs, o, l)[j] = cs[j]
         /\ OneMarked(cs[o], Marked(cs, o, l)[o], l)
<1> DEFINE c == cs[o]
           x == [c.locals[l] EXCEPT !.is_captured = TRUE]
           ls == [c.locals EXCEPT ![l] = x]
           d == [c EXCEPT !.locals = ls]
           cs2 == [cs EXCEPT ![o] = d]
<1>1. c \in Compilers /\ c.locals \in Seq(Locals) /\ c.locals[l] \in Locals
  BY CompilerFacts
<1>2. /\ x \in Locals /\ x.name = c.locals[l].name /\ x.depth = c.locals[l].depth
      /\ x.id = c.locals[l].id /\ x.is_captured = TRUE
  BY <1>1 DEF Locals
<1> HIDE DEF x
<1>3. /\ ls \in Seq(Locals) /\ DOMAIN ls = DOMAIN c.locals /\ Len(ls) = Len(c.locals)
      /\ ls[l] = x /\ \A i \in DOMAIN c.locals : i # l => ls[i] = c.locals[i]
  BY <1>1, <1>2
<1> HIDE DEF ls
<1>4. /\ d \in Compilers /\ d.upvalues = c.upvalues /\ d.scope_depth = c.scope_depth
      /\ d.fn_type = c.fn_type /\ d.arity = c.arity /\ d.stack = c.stack /\ d.locals = ls
  BY <1>1, <1>3 DEF Compilers
<1> HIDE DEF d
<1>5. /\ cs2 \in Seq(Compilers) /\ Len(cs2) = Len(cs) /\ cs2[o] = d
      /\ \A j \in 1..Len(cs) : j # o => cs2[j] = cs[j]
  BY <1>4
<1>6. Marked(cs, o, l) = cs2
  BY Zenon DEF Marked, cs2, d, ls, x
<1>7. OneMarked(c, d, l)
  BY <1>2, <1>3, <1>4 DEF OneMarked
<1> HIDE DEF cs2
<1> QED BY <1>5, <1>6, <1>7

Room(cs, o) == \A j \in o + 1..Len(cs) : Len(cs[j].upvalues) < UpvaluesMax

\* Along the walk every function gets an upvalue, its locals untouched.
LEMMA ReachedFacts ==
  ASSUME NEW cs \in Seq(Compilers), UpvaluesFit(cs), NEW o \in DOMAIN cs, NEW l \in DOMAIN cs[o].locals,
         Room(cs, o), NEW r, IsReach(r, cs, o, l, Len(cs))
  PROVE  \A k \in o..Len(cs) : Reached(cs, o, l, r, k)
<1> DEFINE n == Len(cs)
           S == {k \in o..n : ~Reached(cs, o, l, r, k)}
<1>1. n \in Nat /\ o \in 1..n /\ DOMAIN cs = 1..n /\ l \in Nat \ {0}
  <2>1. cs[o] \in Compilers
    OBVIOUS
  <2>2. DOMAIN cs[o].locals = 1..Len(cs[o].locals)
    BY <2>1, CompilerFacts
  <2> QED BY <2>2
<1>2. /\ r[o] = ReachBase(cs, o, l)
      /\ \A k \in o..n : k # o => r[k] = ReachStep(cs, r[k - 1], k, o)
  <2>1. \A k \in o..n : r[k] = IF k = o THEN ReachBase(cs, o, l) ELSE ReachStep(cs, r[k - 1], k, o)
    BY Zenon DEF IsReach
  <2>2. o \in o..n
    BY <1>1
  <2> QED BY <2>1, <2>2
<1>3. r[o].index = l /\ r[o].chain = Marked(cs, o, l)
  BY <1>2 DEF ReachBase
<1> SUFFICES ASSUME S # {} PROVE FALSE
  OBVIOUS
<1>4. PICK m \in S : \A p \in S : m <= p
  <2>1. S \in SUBSET Nat
    BY <1>1
  <2> HIDE DEF S
  <2> QED BY <2>1, LeastMember
<1>5. CASE m = o
  <2>1. /\ Marked(cs, o, l) \in Seq(Compilers) /\ Len(Marked(cs, o, l)) = n
        /\ \A j \in 1..n : j # o => Marked(cs, o, l)[j] = cs[j]
    BY MarkedFacts
  <2>2. \A j \in 1..n : j < o \/ j > o => r[o].chain[j] = cs[j]
    BY <2>1, <1>1, <1>3
  <2>3. o + 1..o = {}
    BY <1>1
  <2>4. Reached(cs, o, l, r, o)
    BY <2>1, <2>2, <2>3, <1>1, <1>3 DEF Reached
  <2> QED BY <2>4, <1>4, <1>5
<1>6. CASE m # o
  <2>1. m \in o..n /\ m - 1 \in o..n /\ m - 1 \in Nat /\ m \in Nat /\ m \in 1..n /\ m > o
    BY <1>1, <1>4, <1>6
  <2>2. Reached(cs, o, l, r, m - 1)
    BY <2>1, <1>4
  <2> DEFINE ch == r[m - 1].chain
             ix == r[m - 1].index
             info == new_upvalue_info(ix, m = o + 1)
             a == add_upvalue(cs[m], info)
             ch2 == [ch EXCEPT ![m] = a.compiler]
  <2>3. /\ ch \in Seq(Compilers) /\ Len(ch) = n /\ ix \in Nat \ {0}
        /\ \A j \in 1..n : j < o \/ j > m - 1 => ch[j] = cs[j]
        /\ ch[o] = Marked(cs, o, l)[o]
    BY <2>2 DEF Reached
  <2>4. info \in UpvalueInfos
    <3> HIDE DEF ix
    <3>1. (m = o + 1) \in BOOLEAN
      OBVIOUS
    <3> QED BY <3>1, <2>3, InfoFacts
  <2>5. /\ a.compiler \in Compilers /\ SameButUpvalues(cs[m], a.compiler)
        /\ IsInjective(a.compiler.upvalues) /\ Len(a.compiler.upvalues) <= UpvaluesMax
        /\ a.index \in DOMAIN a.compiler.upvalues /\ a.compiler.upvalues[a.index] = info
        /\ DOMAIN a.compiler.upvalues = 1..Len(a.compiler.upvalues)
        /\ Len(a.compiler.upvalues) <= Len(cs[m].upvalues) + 1
    <3> HIDE DEF info
    <3>1. cs[m] \in Compilers /\ IsInjective(cs[m].upvalues)
      BY <2>1, <1>1 DEF UpvaluesFit
    <3>2. Len(cs[m].upvalues) < UpvaluesMax
      <4>1. m \in o + 1..n
        BY <2>1, <1>1
      <4> QED BY <4>1 DEF Room
    <3> QED BY <3>1, <3>2, <2>4, AddUpvalueFacts
  <2>6. r[m] = [chain |-> ch2, index |-> a.index]
    <3>1. r[m] = ReachStep(cs, r[m - 1], m, o)
      BY <2>1, <1>2, <1>6
    <3> QED BY <3>1 DEF ReachStep
  <2> HIDE DEF ch, ix, info, a
  <2>7. /\ ch2 \in Seq(Compilers) /\ Len(ch2) = n /\ ch2[m] = a.compiler
        /\ \A j \in 1..n : j # m => ch2[j] = ch[j]
    BY <2>1, <2>3, <2>5
  <2> HIDE DEF ch2
  <2>8. r[m].chain = ch2 /\ r[m].index = a.index
    BY <2>6
  <2>9. \A j \in 1..n : j < o \/ j > m => ch2[j] = cs[j]
    <3> SUFFICES ASSUME NEW j \in 1..n, j < o \/ j > m PROVE ch2[j] = cs[j]
      OBVIOUS
    <3>1. j # m /\ (j < o \/ j > m - 1)
      BY <2>1, <1>1
    <3> QED BY <3>1, <2>3, <2>7
  <2>10. ch2[o] = Marked(cs, o, l)[o]
    BY <2>1, <2>3, <2>7, <1>1
  <2>11. a.index \in Nat \ {0} /\ a.index \in 1..Len(a.compiler.upvalues)
    <3>1. a.compiler.upvalues \in Seq(UpvalueInfos)
      BY <2>5, CompilerFacts
    <3>2. Len(a.compiler.upvalues) \in Nat
      BY <3>1
    <3>3. a.index \in 1..Len(a.compiler.upvalues)
      BY <2>5
    <3> QED BY <3>2, <3>3
  <2>12. ASSUME NEW j \in o + 1..m
         PROVE  LET d == ch2[j]
                IN  /\ d \in Compilers /\ SameButUpvalues(cs[j], d)
                    /\ IsInjective(d.upvalues) /\ Len(d.upvalues) <= UpvaluesMax
                    /\ Len(d.upvalues) <= Len(cs[j].upvalues) + 1
                    /\ r[j].index \in 1..Len(d.upvalues)
                    /\ d.upvalues[r[j].index] = new_upvalue_info(r[j - 1].index, j = o + 1)
    <3>1. CASE j = m
      <4>1. info = new_upvalue_info(r[j - 1].index, j = o + 1)
        BY <3>1 DEF info, ix
      <4> QED BY <4>1, <3>1, <2>5, <2>7, <2>8, <2>11
    <3>2. CASE j # m
      <4>1. j \in o + 1..m - 1 /\ j \in 1..n
        BY <3>2, <2>1, <1>1
      <4>2. ch2[j] = ch[j]
        BY <4>1, <3>2, <2>7
      <4> QED BY <4>1, <4>2, <2>2 DEF Reached, ch
    <3> QED BY <3>1, <3>2
  <2>13. Reached(cs, o, l, r, m)
    BY <2>7, <2>8, <2>9, <2>10, <2>11, <2>12, <1>3 DEF Reached
  <2> QED BY <2>13, <1>4
<1> QED BY <1>5, <1>6

\* The whole search.
LEMMA ResolveUpvalueFacts ==
  ASSUME NEW cs \in Seq(Compilers), UpvaluesFit(cs), NEW name, NEW o, o = Owner(cs, name), o # 0,
         NEW l, l = resolve_local(cs[o], name), Room(cs, o)
  PROVE  \E r : /\ IsReach(r, cs, o, l, Len(cs)) /\ resolve_upvalue(cs, name) = r[Len(cs)]
                /\ \A k \in o..Len(cs) : Reached(cs, o, l, r, k)
<1>1. o \in 1..Len(cs) /\ Len(cs) \in Nat /\ o \in DOMAIN cs /\ o <= Len(cs) /\ o \in Nat
  <2>1. o \in 0..Len(cs)
    BY OwnerFacts
  <2> QED BY <2>1
<1>2. l \in DOMAIN cs[o].locals
  <2>1. l # 0
    BY OwnerFacts
  <2>2. cs[o].locals \in Seq(Locals) /\ DOMAIN cs[o].locals = 1..Len(cs[o].locals)
    BY <1>1, CompilerFacts
  <2>3. l \in 0..Len(cs[o].locals)
    BY <2>2, ResolveFacts
  <2> QED BY <2>1, <2>2, <2>3
<1>3. PICK r : IsReach(r, cs, o, l, Len(cs))
  BY <1>1, ReachExists
<1> DEFINE reached[k \in o..Len(cs)] ==
             IF k = o THEN [chain |-> Marked(cs, o, l), index |-> l]
             ELSE LET info == new_upvalue_info(reached[k - 1].index, k = o + 1)
                      added == add_upvalue(cs[k], info)
                  IN  [chain |-> [reached[k - 1].chain EXCEPT ![k] = added.compiler],
                       index |-> added.index]
<1>4. resolve_upvalue(cs, name) = reached[Len(cs)]
  BY Zenon DEF resolve_upvalue
<1>5. IsReach(reached, cs, o, l, Len(cs))
  BY <1>3, Zenon DEF IsReach, ReachStep, ReachBase
<1> HIDE DEF reached
<1>6. \A k \in o..Len(cs) : Reached(cs, o, l, reached, k)
  BY <1>1, <1>2, <1>5, ReachedFacts
<1> QED BY <1>4, <1>5, <1>6

\* Only what is captured and the upvalues change.
SameButMarks(c, d) ==
  /\ LocalsAgree(c, d) /\ d.stack = c.stack /\ d.arity = c.arity /\ d.fn_type = c.fn_type

\* One local at most is marked.
Marks(cs, cs2, o, l) ==
  /\ cs2 \in Seq(Compilers) /\ Len(cs2) = Len(cs) /\ UpvaluesFit(cs2)
  /\ \A k \in DOMAIN cs :
       /\ SameButMarks(cs[k], cs2[k])
       /\ \A i \in DOMAIN cs[k].locals :
            cs2[k].locals[i].is_captured = IF k = o /\ i = l THEN TRUE ELSE cs[k].locals[i].is_captured

\* A search for a name changes upvalues, and marks at most the local it found.
LEMMA SearchedMarks ==
  ASSUME NEW cs \in Seq(Compilers), UpvaluesFit(cs), NEW name, ~Unreadable(cs, name),
         NEW o, o = Owner(cs, name), NEW l, l = resolve_local(cs[o], name)
  PROVE  Marks(cs, Searched(cs, name), IF o \in {0, Len(cs)} THEN 0 ELSE o, l)
<1>1. DOMAIN cs = 1..Len(cs) /\ Len(cs) \in Nat /\ \A k \in DOMAIN cs : cs[k] \in Compilers
  OBVIOUS
<1>2. CASE o \in {0, Len(cs)}
  <2>1. Searched(cs, name) = cs
    BY <1>2 DEF Searched
  <2>2. \A k \in DOMAIN cs : SameButMarks(cs[k], cs[k]) /\ k # 0
    BY <1>1 DEF SameButMarks, LocalsAgree
  <2>3. Marks(cs, cs, 0, l)
    BY <2>2 DEF Marks
  <2> QED BY <2>1, <2>3, <1>2
<1>3. CASE o \notin {0, Len(cs)}
  <2>1. o \in 1..Len(cs) /\ o \in DOMAIN cs /\ o # 0 /\ l # 0
    <3>1. o \in 0..Len(cs) /\ o # 0
      BY <1>3, OwnerFacts
    <3> QED BY <3>1, <1>1, OwnerFacts
  <2>2. l \in DOMAIN cs[o].locals
    <3>1. cs[o].locals \in Seq(Locals) /\ DOMAIN cs[o].locals = 1..Len(cs[o].locals)
      BY <2>1, <1>1, CompilerFacts
    <3>2. l \in 0..Len(cs[o].locals)
      BY <3>1, ResolveFacts
    <3> QED BY <3>1, <3>2, <2>1
  <2>3. Room(cs, o)
    <3> SUFFICES ASSUME NEW j \in o + 1..Len(cs) PROVE Len(cs[j].upvalues) < UpvaluesMax
      BY DEF Room
    <3>1. j \in DOMAIN cs
      BY <1>1, <2>1
    <3>2. Len(cs[j].upvalues) <= UpvaluesMax /\ Len(cs[j].upvalues) # UpvaluesMax
      BY <3>1, <2>1 DEF Unreadable, UpvaluesFit
    <3>3. Len(cs[j].upvalues) \in Nat /\ UpvaluesMax \in Nat
      BY <3>1, <1>1, CompilerFacts, LimitsArePositive
    <3> QED BY <3>2, <3>3
  <2> DEFINE n == Len(cs)
             cs2 == Searched(cs, name)
  <2>4. PICK r : /\ resolve_upvalue(cs, name) = r[n] /\ Reached(cs, o, l, r, n)
    <3>1. n \in o..n
      BY <2>1, <1>1
    <3> QED BY <3>1, <2>1, <2>3, ResolveUpvalueFacts
  <2>5. cs2 = r[n].chain
    BY <2>4, <1>3 DEF Searched
  <2> HIDE DEF cs2
  <2>6. /\ cs2 \in Seq(Compilers) /\ Len(cs2) = n
        /\ \A j \in 1..n : j < o => cs2[j] = cs[j]
        /\ cs2[o] = Marked(cs, o, l)[o]
        /\ \A j \in o + 1..n : SameButUpvalues(cs[j], cs2[j])
                               /\ IsInjective(cs2[j].upvalues) /\ Len(cs2[j].upvalues) <= UpvaluesMax
    BY <2>4, <2>5 DEF Reached
  <2>7. ASSUME NEW k \in 1..n
        PROVE  /\ SameButMarks(cs[k], cs2[k])
               /\ \A i \in DOMAIN cs[k].locals :
                    cs2[k].locals[i].is_captured = IF k = o /\ i = l THEN TRUE ELSE cs[k].locals[i].is_captured
               /\ IsInjective(cs2[k].upvalues) /\ Len(cs2[k].upvalues) <= UpvaluesMax
    <3>1. CASE k < o
      <4>1. cs2[k] = cs[k] /\ k # o /\ k \in DOMAIN cs
        BY <3>1, <2>6, <2>1, <1>1
      <4> QED BY <4>1 DEF SameButMarks, LocalsAgree, UpvaluesFit
    <3>2. CASE k = o
      <4> DEFINE d == Marked(cs, o, l)[o]
      <4>1. OneMarked(cs[o], d, l)
        BY <2>1, <2>2, MarkedFacts
      <4> HIDE DEF d
      <4>2. cs2[k] = d
        BY <3>2, <2>6 DEF d
      <4>3. SameButMarks(cs[o], d)
        BY <4>1 DEF SameButMarks, LocalsAgree, OneMarked
      <4>4. IsInjective(d.upvalues) /\ Len(d.upvalues) <= UpvaluesMax
        BY <4>1, <2>1 DEF UpvaluesFit, OneMarked
      <4> QED BY <3>2, <4>1, <4>2, <4>3, <4>4 DEF OneMarked
    <3>3. CASE k > o
      <4>1. k \in o + 1..n /\ k # o
        BY <3>3, <2>1, <1>1
      <4>2. SameButUpvalues(cs[k], cs2[k]) /\ IsInjective(cs2[k].upvalues) /\ Len(cs2[k].upvalues) <= UpvaluesMax
        BY <4>1, <2>6
      <4> QED BY <4>1, <4>2 DEF SameButUpvalues, SameButMarks, LocalsAgree
    <3>4. k < o \/ k = o \/ k > o
      BY <2>1, <1>1
    <3> QED BY <3>1, <3>2, <3>3, <3>4
  <2>8. UpvaluesFit(cs2)
    <3>1. DOMAIN cs2 = 1..n
      BY <2>6
    <3> QED BY <3>1, <2>7 DEF UpvaluesFit
  <2>9. Marks(cs, cs2, o, l)
    BY <2>6, <2>7, <2>8, <1>1 DEF Marks
  <2> QED BY <2>9, <1>3 DEF cs2
<1> QED BY <1>2, <1>3

\* The local marked, if there is one, is read.
ReadOne(cs, cp, cp2, o, l) ==
  \/ o = 0 /\ cp2 = cp
  \/ /\ o # 0 /\ o \in DOMAIN cs /\ l \in DOMAIN cs[o].locals /\ cs[o].locals[l].name # ""
     /\ cp2 = cp \cup {cs[o].locals[l].id}

\* What is marked is what is read.
LEMMA CoreMarks ==
  ASSUME NEW cs, NEW sc, NEW cp, NEW dc, NEW f, Core(cs, sc, cp, dc, f),
         NEW cs2, NEW o, NEW l, Marks(cs, cs2, o, l), NEW cp2, ReadOne(cs, cp, cp2, o, l)
  PROVE  Core(cs2, sc, cp2, dc, f)
<1> DEFINE n == Len(cs)
<1>0. /\ Typed(cs, sc, f) /\ Chained(sc, cs, f) /\ AllFramed(sc, cs, f, dc) /\ dc \in Nat
      /\ Apart(cs) /\ MarkedAsRead(cs, cp, dc) /\ UpvaluesFit(cs)
  BY DEF Core
<1>1. /\ n \in Nat /\ DOMAIN cs = 1..n /\ \A k \in 1..n : cs[k] \in Compilers /\ f[k] \in Frames
  BY <1>0, TypedFacts
<1>2. /\ cs2 \in Seq(Compilers) /\ Len(cs2) = n /\ DOMAIN cs2 = 1..n /\ UpvaluesFit(cs2)
      /\ \A k \in 1..n : LocalsAgree(cs[k], cs2[k]) /\ cs2[k] \in Compilers
      /\ \A k \in 1..n : \A i \in DOMAIN cs[k].locals :
            cs2[k].locals[i].is_captured = IF k = o /\ i = l THEN TRUE ELSE cs[k].locals[i].is_captured
  <2>1. cs2 \in Seq(Compilers) /\ Len(cs2) = n /\ UpvaluesFit(cs2)
    BY DEF Marks
  <2>2. DOMAIN cs2 = 1..n /\ \A k \in 1..n : cs2[k] \in Compilers
    BY <2>1
  <2>3. \A k \in 1..n : LocalsAgree(cs[k], cs2[k])
    BY <1>1 DEF Marks, SameButMarks
  <2>4. \A k \in 1..n : \A i \in DOMAIN cs[k].locals :
            cs2[k].locals[i].is_captured = IF k = o /\ i = l THEN TRUE ELSE cs[k].locals[i].is_captured
    BY <1>1 DEF Marks
  <2> QED BY <2>1, <2>2, <2>3, <2>4
<1>3. \A k \in 1..n : DOMAIN cs2[k].locals = DOMAIN cs[k].locals
  <2> SUFFICES ASSUME NEW k \in 1..n PROVE DOMAIN cs2[k].locals = DOMAIN cs[k].locals
    OBVIOUS
  <2>1. DOMAIN cs2[k].locals = 1..Len(cs2[k].locals) /\ DOMAIN cs[k].locals = 1..Len(cs[k].locals)
    BY <1>1, <1>2, CompilerFacts
  <2> QED BY <2>1, <1>2 DEF LocalsAgree
<1>4. \A k \in 1..n : \A i \in DOMAIN cs[k].locals :
        cs2[k].locals[i].id = cs[k].locals[i].id /\ cs2[k].locals[i].name = cs[k].locals[i].name
  BY <1>2 DEF LocalsAgree
<1>5. Typed(cs2, sc, f)
  BY <1>0, <1>2 DEF Typed
<1>6. Chained(sc, cs2, f)
  BY <1>0, <1>1, <1>2 DEF Chained
<1>7. AllFramed(sc, cs2, f, dc)
  <2> SUFFICES ASSUME NEW k \in 1..n PROVE Framed(sc, cs2[k], k, f[k], dc)
    BY <1>2 DEF AllFramed
  <2>1. /\ cs[k] \in Compilers /\ f[k] \in Frames /\ cs2[k] \in Compilers /\ LocalsAgree(cs[k], cs2[k])
        /\ Framed(sc, cs[k], k, f[k], dc)
    BY <1>0, <1>1, <1>2 DEF AllFramed
  <2>4. dc <= dc
    BY <1>0
  <2>2. f[k].wait # "no" => cs[k].scope_depth > 0 /\ Len(cs[k].locals) >= 2
    BY <2>1 DEF Framed, Slots
  <2>3. \A h \in f[k].base + 1..f[k].top : sc[h].names = sc[h].names
    OBVIOUS
  <2> QED BY <2>1, <2>2, <2>3, <2>4, <1>0, FramedAgain
<1>8. Apart(cs2)
  <2> SUFFICES ASSUME NEW k \in 1..n, NEW k2 \in 1..n, NEW i \in DOMAIN cs2[k].locals,
                      NEW j \in DOMAIN cs2[k2].locals, cs2[k].locals[i].id = cs2[k2].locals[j].id
               PROVE  k = k2 /\ i = j
    BY <1>2 DEF Apart
  <2>1. /\ i \in DOMAIN cs[k].locals /\ j \in DOMAIN cs[k2].locals
        /\ cs[k].locals[i].id = cs[k2].locals[j].id
    BY <1>3, <1>4
  <2> QED BY <2>1, <1>0, <1>1 DEF Apart
<1>9. MarkedAsRead(cs2, cp2, dc)
  <2>1. \A k \in 1..n : 1 \in DOMAIN cs[k].locals /\ cs[k].locals[1].id = <<"callee", k>>
    <3> SUFFICES ASSUME NEW k \in 1..n
                 PROVE  1 \in DOMAIN cs[k].locals /\ cs[k].locals[1].id = <<"callee", k>>
      OBVIOUS
    <3>1. cs[k] \in Compilers /\ f[k] \in Frames /\ Slots(cs[k], k, f[k], dc)
      BY <1>0, <1>1 DEF AllFramed, Framed
    <3> QED BY <3>1, <1>0, SlotFacts
  <2>0. \/ o = 0 /\ cp2 = cp
        \/ /\ o # 0 /\ o \in 1..n /\ l \in DOMAIN cs[o].locals /\ cs[o].locals[l].name # ""
           /\ cp2 = cp \cup {cs[o].locals[l].id}
    BY <1>1 DEF ReadOne
  <2>2. ASSUME NEW id \in cp2
        PROVE  \/ \E k \in DOMAIN cs2 : id = <<"callee", k>> /\ cs2[k].locals[1].name # ""
               \/ \E m \in 1..dc : id = <<"declaration", m>>
    <3>1. CASE id \in cp
      <4>1. \/ \E k \in DOMAIN cs : id = <<"callee", k>> /\ cs[k].locals[1].name # ""
            \/ \E m \in 1..dc : id = <<"declaration", m>>
        BY <3>1, <1>0 DEF MarkedAsRead
      <4> QED BY <4>1, <2>1, <1>1, <1>2, <1>4
    <3>2. CASE o # 0 /\ id = cs[o].locals[l].id
      <4>1. o \in 1..n /\ l \in DOMAIN cs[o].locals /\ cs[o].locals[l].name # ""
        BY <3>2, <2>0
      <4>2. CASE l = 1
        BY <4>1, <4>2, <3>2, <2>1, <1>2, <1>4
      <4>3. CASE l # 1
        <5>1. cs[o] \in Compilers /\ f[o] \in Frames /\ Slots(cs[o], o, f[o], dc)
          BY <4>1, <1>0, <1>1 DEF AllFramed, Framed
        <5>2. \E m \in 1..dc : cs[o].locals[l].id = <<"declaration", m>>
          BY <5>1, <4>1, <4>3, <1>0, IdFacts
        <5> QED BY <5>2, <3>2
      <4> QED BY <4>2, <4>3
    <3> QED BY <3>1, <3>2, <2>0
  <2>3. ASSUME NEW k \in 1..n, NEW i \in DOMAIN cs[k].locals
        PROVE  cs2[k].locals[i].is_captured <=> cs[k].locals[i].id \in cp2
    <3>1. cs[k].locals[i].is_captured <=> cs[k].locals[i].id \in cp
      BY <1>0, <1>1 DEF MarkedAsRead
    <3>2. CASE k = o /\ i = l
      <4>1. o # 0
        <5>1. 0 \notin 1..n
          BY <1>1
        <5> QED BY <5>1, <3>2
      <4> QED BY <4>1, <3>2, <2>0, <1>2
    <3>3. CASE ~(k = o /\ i = l)
      <4>1. cs2[k].locals[i].is_captured = cs[k].locals[i].is_captured
        BY <3>3, <1>2
      <4>2. o # 0 => cs[k].locals[i].id # cs[o].locals[l].id
        BY <3>3, <2>0, <1>0, <1>1 DEF Apart
      <4> QED BY <4>1, <4>2, <2>0, <3>1
    <3> QED BY <3>2, <3>3
  <2>4. ASSUME NEW k \in 1..n, NEW i \in DOMAIN cs2[k].locals
        PROVE  cs2[k].locals[i].is_captured <=> cs2[k].locals[i].id \in cp2
    <3>1. i \in DOMAIN cs[k].locals /\ cs2[k].locals[i].id = cs[k].locals[i].id
      BY <1>3, <1>4
    <3> QED BY <3>1, <2>3
  <2> QED BY <2>2, <2>4, <1>2 DEF MarkedAsRead
<1> QED BY <1>0, <1>2, <1>5, <1>6, <1>7, <1>8, <1>9 DEF Core

-----------------------------------------------------------------------------
(* The search and the text agree.                                          *)

\* A name that may be searched for: super only in a class with a superclass.
Searchable(cs, sc, cl, name) ==
  /\ name \in Names \cup {"self", "super"}
  /\ name = "super" => HomeOf(sc, name) # 0 /\ Supers(cs, cl, sc)

Ordinary(name) == name \notin {"", "super"}

\* A local of this name is of a scope that is open, and names it, unless it is a super.
LEMMA KnownFacts ==
  ASSUME NEW cs, NEW sc, NEW cp, NEW dc, NEW f, Core(cs, sc, cp, dc, f),
         NEW k \in DOMAIN cs, NEW i \in DOMAIN cs[k].locals, Ordinary(cs[k].locals[i].name),
         NEW h, h = Level(cs[k], i, f[k])
  PROVE      /\ h \in DOMAIN sc /\ sc[h].fn = k /\ cs[k].locals[i].name \in DOMAIN sc[h].names
             /\ sc[h].names[cs[k].locals[i].name] = cs[k].locals[i].id
             /\ IsBound(sc, cs[k], i, f[k])
<1>0. Typed(cs, sc, f) /\ Chained(sc, cs, f) /\ AllFramed(sc, cs, f, dc) /\ dc \in Nat
  BY DEF Core
<1>1. /\ cs[k] \in Compilers /\ f[k] \in Frames /\ f[k].base \in Nat /\ f[k].top \in Nat /\ f[k].top <= Len(sc)
      /\ DOMAIN sc = 1..Len(sc) /\ Len(sc) \in Nat
  BY <1>0, TypedFacts
<1>2. Framed(sc, cs[k], k, f[k], dc) /\ Slots(cs[k], k, f[k], dc)
  BY <1>0 DEF AllFramed, Framed
<1>3. h \in Nat /\ h >= f[k].base + 1
  BY <1>0, <1>1, <1>2, LevelFacts
<1>4. IsBound(sc, cs[k], i, f[k])
  BY <1>2 DEF Framed, Known, Ordinary
<1>5. h <= f[k].top /\ cs[k].locals[i].name \in DOMAIN sc[h].names
      /\ sc[h].names[cs[k].locals[i].name] = cs[k].locals[i].id
  BY <1>4 DEF IsBound
<1>6. h \in DOMAIN sc /\ h \in f[k].base + 1..f[k].top
  BY <1>1, <1>3, <1>5
<1>7. sc[h].fn = k
  BY <1>0, <1>6 DEF Chained
<1> QED BY <1>4, <1>5, <1>6, <1>7

\* A name of an open scope has its local.
LEMMA CoveredFacts ==
  ASSUME NEW cs, NEW sc, NEW cp, NEW dc, NEW f, Core(cs, sc, cp, dc, f),
         NEW h \in DOMAIN sc, NEW name \in DOMAIN sc[h].names
  PROVE  LET k == sc[h].fn
         IN  /\ k \in DOMAIN cs /\ h \in f[k].base + 1..f[k].top
             /\ \E i \in DOMAIN cs[k].locals :
                  /\ cs[k].locals[i].name = name /\ Level(cs[k], i, f[k]) = h
                  /\ cs[k].locals[i].id = sc[h].names[name] /\ IsBound(sc, cs[k], i, f[k])
<1> DEFINE k == sc[h].fn
<1>0. Typed(cs, sc, f) /\ Chained(sc, cs, f) /\ AllFramed(sc, cs, f, dc) /\ dc \in Nat
  BY DEF Core
<1>1. k \in DOMAIN cs
  BY <1>0 DEF Chained
<1>2. h \in f[k].base + 1..f[k].top
  BY <1>0, <1>1 DEF Chained
<1>3. Covered(sc, cs[k], f[k])
  BY <1>0, <1>1 DEF AllFramed, Framed
<1>4. PICK i \in DOMAIN cs[k].locals :
        cs[k].locals[i].name = name /\ Level(cs[k], i, f[k]) = h /\ IsBound(sc, cs[k], i, f[k])
  BY <1>2, <1>3 DEF Covered
<1>5. cs[k].locals[i].id = sc[h].names[name]
  BY <1>4 DEF IsBound
<1> QED BY <1>1, <1>2, <1>4, <1>5

\* The owner of a name is the function of its home, and the local the declaration there.
LEMMA LexicalFacts ==
  ASSUME NEW cs, NEW sc, NEW cp, NEW dc, NEW f, Core(cs, sc, cp, dc, f),
         NEW cl, NEW name, Searchable(cs, sc, cl, name),
         NEW o, o = Owner(cs, name), NEW l, l = resolve_local(cs[o], name), NEW h, h = HomeOf(sc, name)
  PROVE  /\ h = 0 => o = 0
         /\ h # 0 => /\ h \in DOMAIN sc /\ o = sc[h].fn /\ o # 0 /\ o \in DOMAIN cs
                     /\ l \in DOMAIN cs[o].locals /\ cs[o].locals[l].name = name
                     /\ cs[o].locals[l].id = sc[h].names[name]
<1>0. Typed(cs, sc, f) /\ Chained(sc, cs, f) /\ AllFramed(sc, cs, f, dc) /\ dc \in Nat
  BY DEF Core
<1>1. /\ cs \in Seq(Compilers) /\ DOMAIN cs = 1..Len(cs) /\ Len(cs) \in Nat
      /\ DOMAIN sc = 1..Len(sc) /\ Len(sc) \in Nat
      /\ \A k \in DOMAIN cs : cs[k] \in Compilers /\ f[k].base \in Nat /\ f[k].top \in Nat
  BY <1>0, TypedFacts DEF Typed
<1>2. /\ o \in 0..Len(cs)
      /\ o # 0 => l # 0
      /\ \A k \in DOMAIN cs : resolve_local(cs[k], name) # 0 => o # 0 /\ k <= o
  BY <1>1, OwnerFacts
<1>3. o # 0 => o \in DOMAIN cs /\ l \in DOMAIN cs[o].locals /\ cs[o].locals[l].name = name
  <2> SUFFICES ASSUME o # 0
               PROVE  o \in DOMAIN cs /\ l \in DOMAIN cs[o].locals /\ cs[o].locals[l].name = name
    OBVIOUS
  <2>1. o \in DOMAIN cs /\ l # 0
    BY <1>1, <1>2
  <2>2. cs[o].locals \in Seq(Locals) /\ DOMAIN cs[o].locals = 1..Len(cs[o].locals)
    BY <2>1, <1>1, CompilerFacts
  <2>3. l \in 0..Len(cs[o].locals) /\ cs[o].locals[l].name = name
    BY <2>1, <2>2, ResolveFacts
  <2> QED BY <2>1, <2>2, <2>3
<1>4. /\ h \in 0..Len(sc)
      /\ h # 0 => name \in DOMAIN sc[h].names
      /\ \A g \in DOMAIN sc : name \in DOMAIN sc[g].names => h # 0 /\ g <= h
  BY <1>1, HomeFacts
<1>5. name # "" /\ (name = "super" => h # 0 /\ Supers(cs, cl, sc))
  BY NamesAreIdentifiers DEF Searchable
<1>6. CASE h = 0
  <2> SUFFICES ASSUME o # 0 PROVE FALSE
    BY <1>6
  <2>1. o \in DOMAIN cs /\ l \in DOMAIN cs[o].locals /\ Ordinary(cs[o].locals[l].name)
    BY <1>3, <1>5, <1>6 DEF Ordinary
  <2>2. \E g \in DOMAIN sc : name \in DOMAIN sc[g].names
    <3>1. \A g : g = Level(cs[o], l, f[o]) => g \in DOMAIN sc /\ name \in DOMAIN sc[g].names
      BY <2>1, <1>3, KnownFacts
    <3> QED BY <3>1
  <2> QED BY <2>2, <1>4, <1>6
<1>7. CASE h # 0
  <2> DEFINE k == sc[h].fn
  <2>1. h \in DOMAIN sc /\ name \in DOMAIN sc[h].names
    BY <1>1, <1>4, <1>7
  <2>2. /\ k \in DOMAIN cs /\ h \in f[k].base + 1..f[k].top
        /\ \E i \in DOMAIN cs[k].locals :
                  /\ cs[k].locals[i].name = name /\ Level(cs[k], i, f[k]) = h
                  /\ cs[k].locals[i].id = sc[h].names[name] /\ IsBound(sc, cs[k], i, f[k])
    BY <2>1, CoveredFacts
  <2>3. PICK i \in DOMAIN cs[k].locals :
                  /\ cs[k].locals[i].name = name /\ Level(cs[k], i, f[k]) = h
                  /\ cs[k].locals[i].id = sc[h].names[name] /\ IsBound(sc, cs[k], i, f[k])
    BY <2>2
  <2> HIDE DEF k
  <2>4. resolve_local(cs[k], name) # 0 /\ i <= resolve_local(cs[k], name)
    <3>1. cs[k].locals \in Seq(Locals)
      BY <2>2, <1>1, CompilerFacts
    <3> QED BY <3>1, <2>3, ResolveFacts
  <2>5. o # 0 /\ k <= o
    BY <2>2, <2>4, <1>2
  <2>6. o \in DOMAIN cs /\ l \in DOMAIN cs[o].locals /\ cs[o].locals[l].name = name
    BY <2>5, <1>3
  <2>7. CASE name = "super"
    <3>1. Supers(cs, cl, sc) /\ HasSuper(sc, h)
      BY <2>1, <2>7, <1>5 DEF HasSuper
    <3>2. o >= sc[h].fn
      BY <2>5, <1>1, <1>2, <2>2 DEF k
    <3>3. /\ o = sc[h].fn
          /\ \A j \in DOMAIN cs[o].locals : cs[o].locals[j].id = sc[h].names["super"] => l <= j
      BY <3>1, <3>2, <2>1, <2>6, <2>7 DEF Supers
    <3>4. l <= i /\ i <= l /\ o = k
      BY <3>3, <2>3, <2>4, <2>7 DEF k
    <3>5. i \in Int /\ l \in Int
      <4>1. DOMAIN cs[o].locals = 1..Len(cs[o].locals)
        BY <2>6, <1>1, CompilerFacts
      <4> QED BY <4>1, <3>4, <2>3, <2>6
    <3>6. i = l
      BY <3>4, <3>5
    <3> QED BY <2>1, <2>3, <2>5, <2>6, <3>4, <3>6, <1>7 DEF k
  <2>8. CASE name # "super"
    <3>1. Ordinary(cs[o].locals[l].name)
      BY <2>6, <2>8, <1>5 DEF Ordinary
    <3> DEFINE g == Level(cs[o], l, f[o])
    <3>2. /\ g \in DOMAIN sc /\ sc[g].fn = o /\ name \in DOMAIN sc[g].names
          /\ sc[g].names[name] = cs[o].locals[l].id
      <4> HIDE DEF g
      <4> QED BY <3>1, <2>6, KnownFacts DEF g
    <3> HIDE DEF g
    <3>3. g <= h /\ g \in Int /\ h \in Int
      BY <3>2, <2>1, <1>1, <1>4
    <3>4. o = k
      <4> SUFFICES ASSUME o # k PROVE FALSE
        OBVIOUS
      <4>1. k < o
        BY <2>2, <2>5, <2>6, <1>1
      <4>2. f[k].top <= f[o].base
        BY <4>1, <2>2, <2>6, <1>0 DEF Chained
      <4>3. g \in f[o].base + 1..f[o].top
        BY <3>2, <2>6, <1>0 DEF Chained
      <4> QED BY <4>2, <4>3, <2>2, <2>6, <3>3, <1>1
    <3>5. i <= l /\ DOMAIN cs[k].locals = 1..Len(cs[k].locals)
      BY <3>4, <2>2, <2>4, <1>1, CompilerFacts
    <3>6. h <= g
      <4>1. CASE i = l
        BY <4>1, <2>3, <3>3, <3>4 DEF g
      <4>2. CASE i # l
        <5>1. i < l
          BY <4>2, <3>4, <3>5, <2>6
        <5>2. Nested(sc, cs[k], f[k])
          BY <2>2, <1>0 DEF AllFramed, Framed
        <5>3. Level(cs[k], i, f[k]) <= Level(cs[k], l, f[k])
          BY <5>1, <5>2, <2>3, <2>6, <3>4 DEF Nested
        <5> QED BY <5>3, <2>3, <3>4 DEF g
      <4> QED BY <4>1, <4>2
    <3>7. g = h
      BY <3>3, <3>6
    <3> QED BY <3>2, <3>4, <3>7, <2>1, <2>5, <2>6, <1>7 DEF k
  <2> QED BY <2>7, <2>8
<1> QED BY <1>6, <1>7

\* The declarations of outer functions among those the names stand for.
CapturedIn(sc, n, names) ==
  {LexicalIn(sc, x) : x \in {m \in names : HomeOf(sc, m) # 0 /\ sc[HomeOf(sc, m)].fn # n}}

\* A search marks the local of the variable that the name is read as, if another function reads it.
LEMMA SearchReads ==
  ASSUME NEW cs, NEW sc, NEW cp, NEW dc, NEW f, Core(cs, sc, cp, dc, f),
         NEW cl, NEW name, Searchable(cs, sc, cl, name), ~Unreadable(cs, name)
  PROVE  \E o, l : /\ Marks(cs, Searched(cs, name), o, l)
                   /\ ReadOne(cs, cp, cp \cup CapturedIn(sc, Len(cs), {name}), o, l)
<1> DEFINE n == Len(cs)
           w == Owner(cs, name)
           l == resolve_local(cs[w], name)
           o == IF w \in {0, n} THEN 0 ELSE w
           h == HomeOf(sc, name)
<1>0. cs \in Seq(Compilers) /\ UpvaluesFit(cs) /\ n \in Nat /\ n >= 1
  BY TypedFacts DEF Core, Typed
<1>1. Marks(cs, Searched(cs, name), o, l)
  BY <1>0, SearchedMarks
<1>2. /\ h = 0 => w = 0
      /\ h # 0 => /\ h \in DOMAIN sc /\ w = sc[h].fn /\ w # 0 /\ w \in DOMAIN cs
                  /\ l \in DOMAIN cs[w].locals /\ cs[w].locals[l].name = name
                  /\ cs[w].locals[l].id = sc[h].names[name]
  BY LexicalFacts
<1>3. name # ""
  BY NamesAreIdentifiers DEF Searchable
<1> DEFINE m == CapturedIn(sc, n, {name})
<1>4. CASE h = 0
  <2>1. m = {}
    BY <1>4 DEF CapturedIn
  <2>2. o = 0
    BY <1>2, <1>4
  <2> HIDE DEF o, l, m, n
  <2>3. ReadOne(cs, cp, cp \cup m, o, l)
    BY <2>1, <2>2 DEF ReadOne
  <2> QED BY <2>3, <1>1 DEF m, n
<1>5. CASE h # 0 /\ w = n
  <2>1. m = {}
    BY <1>5, <1>2 DEF CapturedIn
  <2>2. o = 0
    BY <1>5
  <2> HIDE DEF o, l, m, n
  <2>3. ReadOne(cs, cp, cp \cup m, o, l)
    BY <2>1, <2>2 DEF ReadOne
  <2> QED BY <2>3, <1>1 DEF m, n
<1>6. CASE h # 0 /\ w # n
  <2>1. m = {sc[h].names[name]}
    BY <1>6, <1>2 DEF CapturedIn, LexicalIn
  <2>2. o = w /\ o # 0
    BY <1>6, <1>2
  <2>3. o \in DOMAIN cs /\ l \in DOMAIN cs[o].locals /\ cs[o].locals[l].name # ""
        /\ cs[o].locals[l].id = sc[h].names[name]
    BY <2>2, <1>6, <1>2, <1>3
  <2> HIDE DEF o, l, m, n
  <2>4. ReadOne(cs, cp, cp \cup m, o, l)
    BY <2>1, <2>2, <2>3 DEF ReadOne
  <2> QED BY <2>4, <1>1 DEF m, n
<1> QED BY <1>4, <1>5, <1>6

\* A search keeps all that holds of compilers, scopes and captures.
LEMMA SearchCore ==
  ASSUME NEW cs, NEW sc, NEW cp, NEW dc, NEW f, Core(cs, sc, cp, dc, f),
         NEW cl, NEW name, Searchable(cs, sc, cl, name), ~Unreadable(cs, name)
  PROVE  Core(Searched(cs, name), sc, cp \cup CapturedIn(sc, Len(cs), {name}), dc, f)
<1>1. PICK o, l : /\ Marks(cs, Searched(cs, name), o, l)
                  /\ ReadOne(cs, cp, cp \cup CapturedIn(sc, Len(cs), {name}), o, l)
  BY SearchReads
<1> QED BY <1>1, CoreMarks

-----------------------------------------------------------------------------
(* Superclasses.                                                           *)

\* The scopes of superclasses are the same,
SuperScopes(sc, sc2) ==
  /\ \A h \in DOMAIN sc2 : HasSuper(sc2, h) => h \in DOMAIN sc /\ HasSuper(sc, h) /\ sc2[h] = sc[h]
  /\ \A h \in DOMAIN sc : HasSuper(sc, h) => h \in DOMAIN sc2 /\ sc2[h] = sc[h]

\* the classes that have one,
SuperClasses(cl, cl2) ==
  /\ \A a \in DOMAIN cl2 : cl2[a] => a \in DOMAIN cl /\ cl[a]
  /\ \A a \in DOMAIN cl : cl[a] => a \in DOMAIN cl2 /\ cl2[a]

\* and the locals, as far as they were there before.
SuperLocals(cs, cs2) ==
  \A k \in DOMAIN cs2 : \A i \in DOMAIN cs2[k].locals :
    \/ /\ k \in DOMAIN cs /\ i \in DOMAIN cs[k].locals
       /\ cs2[k].locals[i].name = cs[k].locals[i].name /\ cs2[k].locals[i].id = cs[k].locals[i].id
    \/ /\ cs2[k].locals[i].name # "super"
       /\ \A j \in DOMAIN cs2[k].locals : j <= i

\* What holds of superclasses does while no scope, class or local named super is added.
LEMMA SupersAgain ==
  ASSUME NEW cs, NEW cs2, NEW cl, NEW cl2, NEW sc, NEW sc2, Supers(cs, cl, sc),
         SuperScopes(sc, sc2), SuperClasses(cl, cl2), SuperLocals(cs, cs2)
  PROVE  Supers(cs2, cl2, sc2)
<1>1. \A h \in DOMAIN sc2 : HasSuper(sc2, h) => DOMAIN sc2[h].names = {"super"}
  BY DEF Supers, SuperScopes
<1>2. \A g, h \in DOMAIN sc2 : HasSuper(sc2, g) /\ HasSuper(sc2, h) => g = h
  BY DEF Supers, SuperScopes
<1>3. \A a, b \in DOMAIN cl2 : cl2[a] /\ cl2[b] => a = b
  BY DEF Supers, SuperClasses
<1>4. (\E a \in DOMAIN cl2 : cl2[a]) <=> (\E h \in DOMAIN sc2 : HasSuper(sc2, h))
  <2>1. (\E a \in DOMAIN cl2 : cl2[a]) <=> (\E a \in DOMAIN cl : cl[a])
    BY DEF SuperClasses
  <2>2. (\E h \in DOMAIN sc2 : HasSuper(sc2, h)) <=> (\E h \in DOMAIN sc : HasSuper(sc, h))
    BY DEF SuperScopes, HasSuper
  <2> QED BY <2>1, <2>2 DEF Supers
<1>5. ASSUME NEW h \in DOMAIN sc2, HasSuper(sc2, h), NEW k \in DOMAIN cs2, NEW j \in DOMAIN cs2[k].locals,
             cs2[k].locals[j].name = "super", k >= sc2[h].fn
      PROVE  /\ k = sc2[h].fn
             /\ \A i \in DOMAIN cs2[k].locals : cs2[k].locals[i].id = sc2[h].names["super"] => j <= i
  <2>1. h \in DOMAIN sc /\ HasSuper(sc, h) /\ sc2[h] = sc[h]
    BY <1>5 DEF SuperScopes
  <2>2. /\ k \in DOMAIN cs /\ j \in DOMAIN cs[k].locals /\ cs[k].locals[j].name = "super"
    BY <1>5 DEF SuperLocals
  <2>3. /\ k = sc[h].fn
        /\ \A i \in DOMAIN cs[k].locals : cs[k].locals[i].id = sc[h].names["super"] => j <= i
    BY <2>1, <2>2, <1>5 DEF Supers
  <2>4. ASSUME NEW i \in DOMAIN cs2[k].locals, cs2[k].locals[i].id = sc2[h].names["super"]
        PROVE  j <= i
    <3>1. CASE i \in DOMAIN cs[k].locals /\ cs2[k].locals[i].id = cs[k].locals[i].id
      BY <3>1, <2>1, <2>3, <2>4
    <3>2. CASE \A m \in DOMAIN cs2[k].locals : m <= i
      BY <3>2, <1>5
    <3> QED BY <3>1, <3>2 DEF SuperLocals
  <2> QED BY <2>1, <2>3, <2>4
<1> QED BY <1>1, <1>2, <1>3, <1>4, <1>5 DEF Supers

\* No superclass is open any more, once the class that has it ends.
LEMMA SupersEnd ==
  ASSUME NEW cs, NEW cs2, NEW cl \in Seq(BOOLEAN), NEW cl2 \in Seq(BOOLEAN), NEW sc, NEW sc2,
         Supers(cs, cl, sc), Len(cl) >= 1, cl[Len(cl)], HasSuper(sc, Len(sc)),
         sc \in Seq(LexicalScopes), Len(sc) >= 1, sc2 = Front(sc), cl2 = Front(cl)
  PROVE  Supers(cs2, cl2, sc2)
<1>1. /\ DOMAIN sc2 = 1..Len(sc) - 1 /\ DOMAIN sc = 1..Len(sc) /\ Len(sc) \in Nat
      /\ \A h \in 1..Len(sc) - 1 : sc2[h] = sc[h]
  <2>1. DOMAIN sc = 1..Len(sc) /\ Len(sc) \in Nat
    OBVIOUS
  <2>2. /\ DOMAIN Front(sc) = 1..Len(sc) - 1
        /\ \A h \in 1..Len(sc) - 1 : Front(sc)[h] = sc[h]
    BY FrontFacts, Zenon
  <2> QED BY <2>1, <2>2, Zenon
<1>2. /\ DOMAIN cl2 = 1..Len(cl) - 1 /\ DOMAIN cl = 1..Len(cl) /\ Len(cl) \in Nat
      /\ \A h \in 1..Len(cl) - 1 : cl2[h] = cl[h]
  <2>1. DOMAIN cl = 1..Len(cl) /\ Len(cl) \in Nat
    OBVIOUS
  <2>2. /\ DOMAIN Front(cl) = 1..Len(cl) - 1
        /\ \A h \in 1..Len(cl) - 1 : Front(cl)[h] = cl[h]
    BY FrontFacts, Zenon
  <2> QED BY <2>1, <2>2, Zenon
<1>3. \A h \in DOMAIN sc2 : ~HasSuper(sc2, h)
  <2> SUFFICES ASSUME NEW h \in DOMAIN sc2, HasSuper(sc2, h) PROVE FALSE
    OBVIOUS
  <2>1. h \in DOMAIN sc /\ Len(sc) \in DOMAIN sc /\ h # Len(sc) /\ sc2[h] = sc[h]
    BY <1>1
  <2>2. HasSuper(sc, h)
    BY <2>1 DEF HasSuper
  <2> QED BY <2>1, <2>2 DEF Supers
<1>4. \A a \in DOMAIN cl2 : ~cl2[a]
  <2> SUFFICES ASSUME NEW a \in DOMAIN cl2, cl2[a] PROVE FALSE
    OBVIOUS
  <2>1. a \in 1..Len(cl) - 1
    BY <1>2, Zenon
  <2>2. a \in 1..Len(cl) /\ Len(cl) \in 1..Len(cl) /\ a # Len(cl)
    BY <2>1, <1>2
  <2>3. cl2[a] = cl[a]
    BY <2>1, <1>2, Zenon
  <2> QED BY <2>2, <2>3, <1>2, Zenon DEF Supers
<1> QED BY <1>3, <1>4 DEF Supers

\* A superclass becomes a local of its own scope: every local of that name is at or before it.
LEMMA SupersOpen ==
  ASSUME NEW cs \in Seq(Compilers), NEW cs2, NEW cl \in Seq(BOOLEAN), NEW sc, NEW sc2, NEW n,
         Supers(cs, cl, sc), sc \in Seq(LexicalScopes), \A h \in DOMAIN sc : ~HasSuper(sc, h),
         NEW s, sc2 = Append(sc, s), s \in LexicalScopes, DOMAIN s.names = {"super"}, s.fn = n,
         n = Len(cs), n >= 1, DOMAIN cs2 = 1..n, Apart(cs2),
         NEW e, e \in DOMAIN cs2[n].locals, cs2[n].locals[e].id = s.names["super"],
         \A j \in DOMAIN cs2[n].locals : j <= e
  PROVE  Supers(cs2, Append(cl, TRUE), sc2)
<1> DEFINE t == Len(sc) + 1
           cl2 == Append(cl, TRUE)
           a2 == Len(cl) + 1
<1>1. /\ DOMAIN sc2 = 1..t /\ DOMAIN sc = 1..Len(sc) /\ Len(sc) \in Nat /\ sc2[t] = s
      /\ \A h \in 1..Len(sc) : sc2[h] = sc[h]
  BY AppendFacts
<1>2. /\ DOMAIN cl2 = 1..a2 /\ DOMAIN cl = 1..Len(cl) /\ Len(cl) \in Nat /\ cl2[a2] = TRUE
      /\ \A h \in 1..Len(cl) : cl2[h] = cl[h]
  BY AppendFacts
<1>3. t \in 1..t /\ a2 \in 1..a2 /\ (\A h \in 1..t : h = t \/ h \in DOMAIN sc) /\ (\A a \in 1..a2 : a = a2 \/ a \in DOMAIN cl)
  BY <1>1, <1>2
<1> HIDE DEF t, cl2, a2
<1>4. \A h \in DOMAIN sc2 : HasSuper(sc2, h) <=> h = t
  <2>1. HasSuper(sc2, t)
    BY <1>1 DEF HasSuper
  <2>2. \A h \in DOMAIN sc : ~HasSuper(sc2, h)
    BY <1>1 DEF HasSuper
  <2> QED BY <2>1, <2>2, <1>1, <1>3
<1>5. \A a \in DOMAIN cl2 : cl2[a] <=> a = a2
  <2>1. \A a \in DOMAIN cl : ~cl[a]
    BY DEF Supers
  <2> QED BY <2>1, <1>2, <1>3
<1>6. ASSUME NEW k \in DOMAIN cs2, NEW j \in DOMAIN cs2[k].locals, k >= n,
             NEW i \in DOMAIN cs2[k].locals
      PROVE  k = n /\ (cs2[k].locals[i].id = s.names["super"] => j <= i)
  <2>1. k = n /\ n \in DOMAIN cs2
    BY <1>6
  <2>2. ASSUME cs2[k].locals[i].id = s.names["super"] PROVE i = e
    BY <2>1, <2>2 DEF Apart
  <2> QED BY <2>1, <2>2
<1>7. Supers(cs2, cl2, sc2)
  <2>1. \A h \in DOMAIN sc2 : HasSuper(sc2, h) => DOMAIN sc2[h].names = {"super"}
    BY <1>1, <1>4
  <2>2. (\E a \in DOMAIN cl2 : cl2[a]) <=> (\E h \in DOMAIN sc2 : HasSuper(sc2, h))
    BY <1>1, <1>2, <1>3, <1>4, <1>5
  <2>3. \A h \in DOMAIN sc2 : HasSuper(sc2, h) =>
       \A k \in DOMAIN cs2 : \A j \in DOMAIN cs2[k].locals :
         cs2[k].locals[j].name = "super" /\ k >= sc2[h].fn =>
           /\ k = sc2[h].fn
           /\ \A i \in DOMAIN cs2[k].locals : cs2[k].locals[i].id = sc2[h].names["super"] => j <= i
    BY <1>1, <1>4, <1>6
  <2> QED BY <2>1, <2>2, <2>3, <1>4, <1>5 DEF Supers
<1> QED BY <1>7 DEF cl2

-----------------------------------------------------------------------------
(* The stack.                                                              *)

Cell(c, fr, i) == IF i <= Filled(c, fr) THEN c.locals[i].id ELSE Temporary

\* The stack of a function: its locals that have values, then the types under construction.
LEMMA StackFacts ==
  ASSUME NEW c \in Compilers, NEW fr \in Frames, Len(c.locals) >= 1
  PROVE  /\ c.stack \in Seq(Ids \cup {Temporary}) /\ Len(c.stack) \in Nat /\ DOMAIN c.stack = 1..Len(c.stack)
         /\ Filled(c, fr) \in Nat /\ fr.temps \in Nat /\ Len(c.locals) \in Nat
         /\ Stacked(c, fr) <=>
              /\ fr.wait # "no" => fr.temps = 0
              /\ Len(c.stack) = Filled(c, fr) + fr.temps
              /\ \A i \in 1..Len(c.stack) : c.stack[i] = Cell(c, fr, i)
<1>1. c.stack \in Seq(Ids \cup {Temporary}) /\ Len(c.stack) \in Nat /\ DOMAIN c.stack = 1..Len(c.stack)
      /\ Len(c.locals) \in Nat
  BY DEF Compilers
<1>2. Filled(c, fr) \in Nat /\ fr.temps \in Nat
  BY <1>1 DEF Filled, Frames
<1> DEFINE N == Filled(c, fr) + fr.temps
           t == [i \in 1..N |-> IF i <= Filled(c, fr) THEN c.locals[i].id ELSE Temporary]
<1>3. ASSUME c.stack = t
      PROVE  Len(c.stack) = N /\ \A i \in 1..Len(c.stack) : c.stack[i] = Cell(c, fr, i)
  <2>1. N \in Nat
    BY <1>2
  <2>2. DOMAIN t = 1..N
    OBVIOUS
  <2>3. 1..Len(c.stack) = 1..N
    BY <1>1, <1>3, <2>2
  <2>4. Len(c.stack) = N
    <3> HIDE DEF N
    <3> QED BY <2>1, <2>3, <1>1
  <2> QED BY <2>4, <1>3 DEF Cell
<1>4. ASSUME Len(c.stack) = N, \A i \in 1..Len(c.stack) : c.stack[i] = Cell(c, fr, i)
      PROVE  c.stack = t
  <2>1. c.stack = [i \in 1..N |-> c.stack[i]]
    BY <1>1, <1>4
  <2> HIDE DEF N
  <2> QED BY <2>1, <1>4 DEF Cell
<1> QED BY <1>1, <1>2, <1>3, <1>4 DEF Stacked

\* The stack and the locals are the same.
LEMMA StackedSame ==
  ASSUME NEW c \in Compilers, NEW d \in Compilers, NEW fr \in Frames, NEW g \in Frames,
         Len(c.locals) >= 1, Stacked(c, fr), d.stack = c.stack, Len(d.locals) = Len(c.locals),
         \A i \in DOMAIN c.locals : d.locals[i].id = c.locals[i].id,
         g.wait # "no" <=> fr.wait # "no", g.temps = fr.temps
  PROVE  Stacked(d, g)
<1>1. Filled(d, g) = Filled(c, fr) /\ Filled(c, fr) <= Len(c.locals)
  <2>1. Len(c.locals) \in Nat
    BY CompilerFacts
  <2> QED BY <2>1 DEF Filled
<1>2. \A i \in 1..Len(c.stack) : Cell(d, g, i) = Cell(c, fr, i)
  <2>1. DOMAIN c.locals = 1..Len(c.locals) /\ Len(c.locals) \in Nat
    BY CompilerFacts
  <2>2. Len(c.stack) \in Nat /\ Filled(c, fr) \in Nat
    BY StackFacts
  <2>3. \A i \in 1..Len(c.stack) : i <= Filled(c, fr) => i \in DOMAIN c.locals
    BY <2>1, <2>2, <1>1
  <2> QED BY <2>3, <1>1 DEF Cell
<1>3. /\ fr.wait # "no" => fr.temps = 0
      /\ Len(c.stack) = Filled(c, fr) + fr.temps
      /\ \A i \in 1..Len(c.stack) : c.stack[i] = Cell(c, fr, i)
  BY StackFacts
<1>4. Len(d.locals) >= 1
  OBVIOUS
<1>5. /\ g.wait # "no" => g.temps = 0
      /\ Len(d.stack) = Filled(d, g) + g.temps
      /\ \A i \in 1..Len(d.stack) : d.stack[i] = Cell(d, g, i)
  BY <1>1, <1>2, <1>3
<1> QED BY <1>4, <1>5, StackFacts

\* A local without its value, as yet.
LEMMA StackedWait ==
  ASSUME NEW c \in Compilers, NEW d \in Compilers, NEW fr \in Frames, NEW g \in Frames,
         Len(c.locals) >= 1, Stacked(c, fr), d.stack = c.stack, Len(d.locals) = Len(c.locals) + 1,
         \A i \in DOMAIN c.locals : d.locals[i].id = c.locals[i].id,
         fr.wait = "no", g.wait # "no", fr.temps = 0, g.temps = 0
  PROVE  Stacked(d, g)
<1>0. DOMAIN c.locals = 1..Len(c.locals) /\ Len(c.locals) \in Nat
  BY CompilerFacts
<1>1. Filled(d, g) = Filled(c, fr) /\ Filled(c, fr) = Len(c.locals)
  BY <1>0 DEF Filled
<1>2. \A i \in 1..Len(c.stack) : Cell(d, g, i) = Cell(c, fr, i)
  <2>2. Len(c.stack) \in Nat
    BY StackFacts
  <2>3. \A i \in 1..Len(c.stack) : i <= Filled(c, fr) => i \in DOMAIN c.locals
    BY <1>0, <2>2, <1>1
  <2> QED BY <2>3, <1>1 DEF Cell
<1>3. /\ Len(c.stack) = Filled(c, fr) + fr.temps
      /\ \A i \in 1..Len(c.stack) : c.stack[i] = Cell(c, fr, i)
  BY StackFacts
<1>4. Len(d.locals) >= 1
  BY <1>0
<1>5. /\ g.wait # "no" => g.temps = 0
      /\ Len(d.stack) = Filled(d, g) + g.temps
      /\ \A i \in 1..Len(d.stack) : d.stack[i] = Cell(d, g, i)
  BY <1>1, <1>2, <1>3
<1> QED BY <1>4, <1>5, StackFacts

\* The value of the last local is pushed.
Pushed(c, d, id) == d.stack = Append(c.stack, id)

\* A push adds one cell on top.
LEMMA PushedFacts ==
  ASSUME NEW c \in Compilers, NEW d, NEW id, Pushed(c, d, id)
  PROVE  /\ Len(d.stack) = Len(c.stack) + 1 /\ d.stack[Len(c.stack) + 1] = id
         /\ \A i \in 1..Len(c.stack) : d.stack[i] = c.stack[i]
         /\ Len(c.stack) \in Nat /\ \A i \in 1..Len(d.stack) : i \in 1..Len(c.stack) \/ i = Len(c.stack) + 1
<1>1. c.stack \in Seq(Ids \cup {Temporary})
  BY DEF Compilers
<1> QED BY <1>1 DEF Pushed

\* A value pushed for the local that waits for it is in its slot.
LEMMA StackedValue ==
  ASSUME NEW c \in Compilers, NEW d \in Compilers, NEW fr \in Frames, NEW g \in Frames,
         Len(c.locals) >= 1, Stacked(c, fr), fr.temps = 0, g.temps = 0, g.wait = "no",
         Len(d.locals) = Filled(c, fr) + 1, Pushed(c, d, d.locals[Len(d.locals)].id),
         \A i \in 1..Filled(c, fr) : d.locals[i].id = c.locals[i].id
  PROVE  Stacked(d, g)
<1> DEFINE w == Filled(c, fr)
<1>1. w \in Nat /\ Filled(d, g) = w + 1
  BY StackFacts DEF Filled
<1>2. /\ Len(c.stack) = w /\ \A i \in 1..w : c.stack[i] = c.locals[i].id
  <2>1. /\ Len(c.stack) = w + 0
        /\ \A i \in 1..Len(c.stack) : c.stack[i] = Cell(c, fr, i)
    BY StackFacts
  <2>2. Len(c.stack) = w
    BY <2>1, <1>1
  <2>3. \A i \in 1..w : Cell(c, fr, i) = c.locals[i].id
    BY <1>1 DEF Cell
  <2> QED BY <2>1, <2>2, <2>3
<1>3. /\ Len(d.stack) = w + 1 /\ d.stack[w + 1] = d.locals[w + 1].id
      /\ \A i \in 1..w : d.stack[i] = c.stack[i]
  BY <1>2, PushedFacts
<1> HIDE DEF w
<1>4. \A i \in 1..Len(d.stack) : d.stack[i] = Cell(d, g, i)
  <2> SUFFICES ASSUME NEW i \in 1..w + 1 PROVE d.stack[i] = d.locals[i].id
    BY <1>1, <1>3 DEF Cell
  <2>1. CASE i = w + 1
    BY <2>1, <1>3
  <2>2. CASE i \in 1..w
    BY <2>2, <1>2, <1>3 DEF w
  <2> QED BY <2>1, <2>2, <1>1
<1>5. Len(d.locals) >= 1 /\ Len(d.stack) = Filled(d, g) + g.temps
  BY <1>1, <1>3 DEF w
<1> QED BY <1>4, <1>5, StackFacts

\* One temporary more,
LEMMA StackedTemporary ==
  ASSUME NEW c \in Compilers, NEW d \in Compilers, NEW fr \in Frames, NEW g \in Frames,
         Len(c.locals) >= 1, Stacked(c, fr), d.locals = c.locals, fr.wait = "no", g.wait = "no",
         g.temps = fr.temps + 1, Pushed(c, d, Temporary)
  PROVE  Stacked(d, g)
<1>0. Len(c.locals) \in Nat /\ fr.temps \in Nat /\ Filled(c, fr) \in Nat /\ Filled(c, fr) = Filled(d, g)
  BY StackFacts DEF Filled
<1>1. /\ Len(c.stack) = Filled(c, fr) + fr.temps
      /\ \A i \in 1..Len(c.stack) : c.stack[i] = Cell(c, fr, i)
  BY StackFacts
<1>2. \A i : Cell(d, g, i) = Cell(c, fr, i)
  BY <1>0 DEF Cell
<1>3. Cell(c, fr, Len(c.stack) + 1) = Temporary
  <2>1. ~(Len(c.stack) + 1 <= Filled(c, fr))
    BY <1>0, <1>1
  <2> QED BY <2>1 DEF Cell
<1>4. /\ Len(d.stack) = Len(c.stack) + 1 /\ d.stack[Len(c.stack) + 1] = Temporary
      /\ \A i \in 1..Len(c.stack) : d.stack[i] = c.stack[i]
      /\ \A i \in 1..Len(d.stack) : i \in 1..Len(c.stack) \/ i = Len(c.stack) + 1
  BY PushedFacts
<1>5. \A i \in 1..Len(d.stack) : d.stack[i] = Cell(d, g, i)
  BY <1>1, <1>2, <1>3, <1>4
<1>6. Len(d.locals) >= 1 /\ Len(d.stack) = Filled(d, g) + g.temps
  BY <1>0, <1>1, <1>4
<1> QED BY <1>5, <1>6, StackFacts

\* and one less.
LEMMA StackedCut ==
  ASSUME NEW c \in Compilers, NEW d \in Compilers, NEW fr \in Frames, NEW g \in Frames,
         Len(c.locals) >= 1, Stacked(c, fr), fr.wait = "no", g.wait = "no",
         Len(d.locals) >= 1, Len(d.locals) <= Len(c.locals), NEW m \in Nat, m <= Len(c.stack),
         m = Len(d.locals) + g.temps, g.temps > 0 => Len(d.locals) = Len(c.locals),
         d.stack = SubSeq(c.stack, 1, m),
         \A i \in DOMAIN d.locals : d.locals[i].id = c.locals[i].id
  PROVE  Stacked(d, g)
<1>0. /\ Len(c.locals) \in Nat /\ fr.temps \in Nat /\ Len(d.locals) \in Nat /\ g.temps \in Nat
      /\ DOMAIN d.locals = 1..Len(d.locals)
      /\ c.stack \in Seq(Ids \cup {Temporary}) /\ Len(c.stack) \in Nat
  BY StackFacts, CompilerFacts
<1>1. Filled(c, fr) = Len(c.locals) /\ Filled(d, g) = Len(d.locals)
  BY DEF Filled
<1>2. /\ Len(c.stack) = Filled(c, fr) + fr.temps
      /\ \A i \in 1..Len(c.stack) : c.stack[i] = Cell(c, fr, i)
  BY StackFacts
<1>3. /\ Len(d.stack) = m /\ \A i \in 1..m : d.stack[i] = c.stack[i] /\ i \in 1..Len(c.stack)
  BY <1>0
<1>4. ASSUME NEW i \in 1..m PROVE d.stack[i] = Cell(d, g, i)
  <2>1. d.stack[i] = Cell(c, fr, i)
    BY <1>2, <1>3
  <2>2. CASE i <= Len(d.locals)
    <3>1. i <= Len(c.locals) /\ i \in DOMAIN d.locals
      BY <2>2, <1>0
    <3> QED BY <2>1, <2>2, <3>1, <1>1 DEF Cell
  <2>3. CASE ~(i <= Len(d.locals))
    <3>1. ~(i <= Len(c.locals))
      BY <2>3, <1>0
    <3> QED BY <2>1, <2>3, <3>1, <1>1 DEF Cell
  <2> QED BY <2>2, <2>3
<1>5. Len(d.stack) = Filled(d, g) + g.temps
  BY <1>1, <1>3
<1> QED BY <1>3, <1>4, <1>5, StackFacts

\* A function that begins has itself on its stack.
LEMMA StackedNew ==
  ASSUME NEW d \in Compilers, NEW g \in Frames, Len(d.locals) = 1, g.temps = 0, g.wait = "no",
         d.stack = <<d.locals[1].id>>
  PROVE  Stacked(d, g)
<1>1. Filled(d, g) = 1
  BY DEF Filled
<1>2. Len(d.stack) = 1 /\ d.stack[1] = d.locals[1].id
  OBVIOUS
<1>3. \A i \in 1..1 : i = 1
  OBVIOUS
<1>4. \A i \in 1..1 : d.stack[i] = Cell(d, g, i)
  BY <1>1, <1>2, <1>3 DEF Cell
<1>5. Len(d.locals) >= 1 /\ Len(d.stack) = Filled(d, g) + g.temps
  BY <1>1, <1>2
<1>6. \A i \in 1..Len(d.stack) : d.stack[i] = Cell(d, g, i)
  BY <1>2, <1>4
<1> QED BY <1>5, <1>6, StackFacts

-----------------------------------------------------------------------------
(* The constructs the parser is in.                                        *)

\* What a construct takes from the classes.
LEMMA FollowsFacts ==
  ASSUME NEW form \in Forms, NEW s \in Settings, NEW t \in Settings, NEW cl, Follows(form, s, t, cl)
  PROVE  /\ t.classes = IF form = "class" THEN s.classes + 1 ELSE s.classes
         /\ t.fns = IF form \in Fns THEN s.fns + 1 ELSE s.fns
         /\ t.temps = IF form \in Fns THEN 0 ELSE IF form \in {"class", "enum"} THEN s.temps + 1 ELSE s.temps
         /\ t.base = IF form \in Fns THEN s.top ELSE s.base
         /\ t.top = IF form \in Fns \cup {"block"} \/ (form = "class" /\ cl[t.classes]) THEN s.top + 1 ELSE s.top
<1>1. form \in {"block", "var", "params", "class", "enum", "fn", "method", "lambda"}
  BY DEF Forms, Fns
<1>2. CASE form = "block"
  BY <1>2 DEF Follows, Settings, Fns
<1>3. CASE form \in Fns
  <2>1. t = [s EXCEPT !.fns = @ + 1, !.base = s.top, !.top = @ + 1, !.temps = 0]
    BY <1>3 DEF Follows, Fns
  <2>2. form # "class" /\ form \notin {"class", "enum"} /\ form \in Fns \cup {"block"}
    BY <1>3 DEF Fns
  <2> QED BY <2>1, <2>2, <1>3 DEF Settings
<1>4. CASE form = "class"
  <2>1. t = [s EXCEPT !.classes = @ + 1, !.temps = @ + 1, !.top = IF cl[t.classes] THEN @ + 1 ELSE @]
    BY <1>4 DEF Follows, Fns
  <2>2. form \notin Fns \cup {"block"} /\ form \notin Fns /\ form \in {"class", "enum"}
    BY <1>4 DEF Fns
  <2> QED BY <2>1, <2>2, <1>4 DEF Settings
<1>5. CASE form = "enum"
  BY <1>5 DEF Follows, Settings, Fns
<1>6. CASE form \in {"var", "params"}
  BY <1>6 DEF Follows, Settings, Fns
<1> QED BY <1>1, <1>2, <1>3, <1>4, <1>5, <1>6 DEF Fns

\* What the work list's types say of its parts.
LEMMA WorkFacts ==
  ASSUME NEW wk, NEW cl, NEW x, NEW at, NEW n, NEW sc, Working(wk, cl, x, at, n, sc)
  PROVE  /\ wk \in Seq(Forms) /\ Len(wk) \in Nat /\ DOMAIN wk = 1..Len(wk) /\ \A p \in 1..Len(wk) : wk[p] \in Forms
         /\ x \in Seq(Settings) /\ Len(x) = Len(wk) + 1 /\ DOMAIN x = 1..Len(wk) + 1
         /\ \A p \in 1..Len(wk) + 1 : /\ x[p] \in Settings /\ x[p].top \in Nat /\ x[p].base \in Nat
                                      /\ x[p].classes \in Nat /\ x[p].temps \in Nat /\ x[p].fns \in Nat
         /\ n \in Nat /\ n >= 1 /\ at \in Seq(Nat) /\ Len(at) = n /\ DOMAIN at = 1..n /\ at[n] = Len(wk) + 1
         /\ cl \in Seq(BOOLEAN) /\ Len(cl) \in Nat /\ DOMAIN cl = 1..Len(cl)
         /\ \A k \in 1..n : at[k] \in 1..Len(wk) + 1
<1>1. wk \in Seq(Forms) /\ Len(wk) \in Nat /\ DOMAIN wk = 1..Len(wk) /\ \A p \in 1..Len(wk) : wk[p] \in Forms
  BY DEF Working
<1>2. x \in Seq(Settings) /\ Len(x) = Len(wk) + 1 /\ DOMAIN x = 1..Len(wk) + 1
  BY <1>1 DEF Working, Trail
<1>3. \A p \in 1..Len(wk) + 1 : x[p] \in Settings
  BY <1>2
<1>4. n >= 1 /\ at \in Seq(Nat) /\ Len(at) = n /\ at[n] = Len(wk) + 1
  BY <1>2 DEF Working, Stands
<1>5. n \in Nat /\ DOMAIN at = 1..n
  BY <1>4
<1>6. cl \in Seq(BOOLEAN) /\ Len(cl) \in Nat /\ DOMAIN cl = 1..Len(cl)
  BY DEF Working
<1>7. \A k \in 1..n : at[k] \in 1..Len(wk) + 1
  <2> SUFFICES ASSUME NEW k \in 1..n PROVE at[k] \in 1..Len(wk) + 1
    OBVIOUS
  <2>1. CASE k = n
    BY <2>1, <1>1, <1>4
  <2>2. CASE k # n
    <3>1. k \in 1..n - 1
      BY <2>2, <1>5
    <3>2. at[k] \in 1..Len(wk)
      BY <3>1 DEF Working, Stands
    <3> QED BY <3>2, <1>1
  <2> QED BY <2>1, <2>2
<1> QED BY <1>1, <1>2, <1>3, <1>4, <1>5, <1>6, <1>7 DEF Settings

\* The class of a construct is one of those that are being compiled.
LEMMA ClassFacts ==
  ASSUME NEW wk, NEW cl, NEW x, NEW at, NEW n, NEW sc, Working(wk, cl, x, at, n, sc)
  PROVE  /\ \A p \in 1..Len(wk) : wk[p] = "class" => x[p + 1].classes \in DOMAIN cl
         /\ \A p \in 1..Len(wk) + 1 : x[p].classes <= Len(cl) /\ x[p].top <= Len(sc)
<1>1. \A p \in 1..Len(wk) + 1 : x[p].classes <= Len(cl) /\ x[p].top <= Len(sc)
  <2> SUFFICES ASSUME NEW p \in 1..Len(wk) + 1 PROVE x[p].classes <= Len(cl) /\ x[p].top <= Len(sc)
    OBVIOUS
  <2>1. Len(x) = Len(wk) + 1 /\ Len(wk) + 1 \in DOMAIN x /\ p \in DOMAIN x /\ p <= Len(wk) + 1
    BY WorkFacts
  <2>2. x[p].top <= x[Len(x)].top /\ x[p].classes <= x[Len(x)].classes
    BY <2>1 DEF Working, Trail
  <2> QED BY <2>2 DEF Working, Ending
<1>2. ASSUME NEW p \in 1..Len(wk), wk[p] = "class"
      PROVE  x[p + 1].classes \in DOMAIN cl
  <2>1. Len(wk) \in Nat /\ Len(cl) \in Nat /\ DOMAIN cl = 1..Len(cl)
    BY WorkFacts
  <2>2. p \in 1..Len(wk) + 1 /\ p + 1 \in 1..Len(wk) + 1
    BY <2>1
  <2>3. x[p] \in Settings /\ x[p + 1] \in Settings /\ wk[p] \in Forms /\ x[p].classes \in Nat
    BY <2>2, WorkFacts
  <2>4. x[p + 1].classes = x[p].classes + 1
    <3>1. Follows(wk[p], x[p], x[p + 1], cl)
      BY DEF Working, Trail
    <3> QED BY <3>1, <2>3, <1>2, FollowsFacts
  <2>5. x[p + 1].classes <= Len(cl)
    BY <2>2, <1>1
  <2> QED BY <2>1, <2>3, <2>4, <2>5
<1> QED BY <1>1, <1>2

\* A construct that opens a scope stands in it.
LEMMA DeepFacts ==
  ASSUME NEW wk, NEW cl, NEW x, NEW at, NEW n, NEW sc, Working(wk, cl, x, at, n, sc), NEW p \in 1..Len(wk)
  PROVE  /\ wk[p] \in Fns \cup {"block"} => x[p + 1].top >= 1
         /\ wk[p] = "class" /\ cl[x[p + 1].classes] => x[p + 1].top >= 1
<1>1. p \in 1..Len(wk) + 1 /\ p + 1 \in 1..Len(wk) + 1
  BY WorkFacts
<1>2. x[p] \in Settings /\ x[p + 1] \in Settings /\ wk[p] \in Forms /\ x[p].top \in Nat
  BY <1>1, WorkFacts
<1>3. Follows(wk[p], x[p], x[p + 1], cl)
  BY DEF Working, Trail
<1>4. x[p + 1].top = IF wk[p] \in Fns \cup {"block"} \/ (wk[p] = "class" /\ cl[x[p + 1].classes])
                       THEN x[p].top + 1 ELSE x[p].top
  BY <1>2, <1>3, FollowsFacts
<1>5. x[p].top + 1 >= 1
  BY <1>2
<1> HIDE DEF Fns
<1> QED BY <1>4, <1>5

-----------------------------------------------------------------------------
(* A construct begins.                                                     *)

SameSupers(sc, sc2, top) == \A h \in 1..top : HasSuper(sc2, h) <=> HasSuper(sc, h)

\* It goes on from here, in the classes and scopes as they are then.
Begins(wk, cl, x, sc, form, t, cl2, sc2) ==
  /\ form \in Forms /\ t \in Settings /\ cl2 \in Seq(BOOLEAN)
  /\ Follows(form, x[Len(x)], t, cl2) /\ t.classes = Len(cl2) /\ t.top = Len(sc2)
  /\ \A a \in DOMAIN cl : a \in DOMAIN cl2 /\ cl2[a] = cl[a]
  /\ SameSupers(sc, sc2, Len(sc))
  /\ form \notin {"class", "enum"} => t.temps = 0
  /\ wk # <<>> /\ wk[Len(wk)] = "var" => form = "lambda"
  /\ form = "params" => wk # <<>> /\ wk[Len(wk)] \in Fns
  /\ form \in Fns \cup {"block"} => ~HasSuper(sc2, t.top)
  /\ form = "class" /\ cl2[t.classes] => HasSuper(sc2, t.top)

\* A construct that begins has the settings that the one around it leaves it.
LEMMA TrailBegins ==
  ASSUME NEW wk, NEW cl, NEW x, NEW at, NEW n, NEW sc, Working(wk, cl, x, at, n, sc),
         NEW form, NEW t, NEW cl2, NEW sc2, Begins(wk, cl, x, sc, form, t, cl2, sc2)
  PROVE  Trail(Append(wk, form), cl2, Append(x, t))
<1> DEFINE w == Len(wk)
           wk2 == Append(wk, form)
           x2 == Append(x, t)
<1>0. /\ wk \in Seq(Forms) /\ w \in Nat /\ x \in Seq(Settings) /\ Len(x) = w + 1 /\ DOMAIN x = 1..w + 1
      /\ form \in Forms /\ t \in Settings
  BY WorkFacts DEF Begins
<1>1. /\ Len(wk2) = w + 1 /\ wk2[w + 1] = form /\ \A p \in 1..w : wk2[p] = wk[p]
  BY <1>0, AppendFacts
<1>2. /\ Len(x2) = w + 2 /\ DOMAIN x2 = 1..w + 2 /\ x2[w + 2] = t /\ \A p \in 1..w + 1 : x2[p] = x[p]
  <2>1. /\ Len(x2) = Len(x) + 1 /\ DOMAIN x2 = 1..Len(x) + 1 /\ x2[Len(x) + 1] = t
        /\ \A p \in 1..Len(x) : x2[p] = x[p]
    BY <1>0, AppendFacts
  <2>2. Len(x) + 1 = w + 2
    BY <1>0
  <2> QED BY <2>1, <2>2, <1>0
<1> HIDE DEF wk2, x2
<1>3. x2[1] = Outermost
  BY <1>0, <1>2 DEF Working, Trail
<1>4. ASSUME NEW p \in 1..w + 1
      PROVE  Follows(wk2[p], x2[p], x2[p + 1], cl2)
  <2>1. CASE p = w + 1
    <3>1. Follows(form, x[w + 1], t, cl2)
      BY <1>0 DEF Begins
    <3>2. x2[p + 1] = t /\ x2[p] = x[w + 1] /\ wk2[p] = form
      BY <2>1, <1>0, <1>1, <1>2
    <3> QED BY <3>1, <3>2
  <2>2. CASE p # w + 1
    <3>1. p \in 1..w /\ p \in 1..w + 1 /\ p + 1 \in 1..w + 1
      BY <2>2, <1>0
    <3>2. Follows(wk[p], x[p], x[p + 1], cl)
      BY <3>1 DEF Working, Trail
    <3>3. wk2[p] = wk[p] /\ x2[p] = x[p] /\ x2[p + 1] = x[p + 1]
      BY <3>1, <1>1, <1>2
    <3>4. wk[p] = "class" => cl2[x[p + 1].classes] = cl[x[p + 1].classes]
      BY <3>1, ClassFacts DEF Begins
    <3>5. Follows(wk[p], x[p], x[p + 1], cl2)
      <4>1. CASE wk[p] = "class"
        BY <4>1, <3>2, <3>4 DEF Follows, Fns
      <4>2. CASE wk[p] # "class"
        BY <4>2, <3>2 DEF Follows
      <4> QED BY <4>1, <4>2
    <3> QED BY <3>3, <3>5
  <2> QED BY <2>1, <2>2
<1>5. /\ x[w + 1] \in Settings /\ x[w + 1].top \in Nat /\ x[w + 1].classes \in Nat /\ x[w + 1].base \in Nat
      /\ x[w + 1].fns \in Nat
  <2>1. w + 1 \in 1..Len(wk) + 1
    BY <1>0
  <2> QED BY <2>1, WorkFacts
<1>6. /\ x[w + 1].top <= t.top /\ x[w + 1].classes <= t.classes
      /\ t.fns >= 1 /\ t.base <= t.top /\ (t.fns > 1 => t.base < t.top)
  <2>1. Follows(form, x[w + 1], t, cl2)
    BY <1>0 DEF Begins
  <2>2. /\ t.classes = IF form = "class" THEN x[w + 1].classes + 1 ELSE x[w + 1].classes
        /\ t.fns = IF form \in Fns THEN x[w + 1].fns + 1 ELSE x[w + 1].fns
        /\ t.base = IF form \in Fns THEN x[w + 1].top ELSE x[w + 1].base
        /\ t.top = IF form \in Fns \cup {"block"} \/ (form = "class" /\ cl2[t.classes])
                     THEN x[w + 1].top + 1 ELSE x[w + 1].top
    BY <2>1, <1>0, <1>5, FollowsFacts
  <2>3. w + 1 \in DOMAIN x
    BY <1>0
  <2>4. x[w + 1].fns >= 1 /\ x[w + 1].base <= x[w + 1].top /\ (x[w + 1].fns > 1 => x[w + 1].base < x[w + 1].top)
    BY <2>3 DEF Working, Trail
  <2>5. CASE form \in Fns
    <3>1. form \in Fns \cup {"block"}
      BY <2>5
    <3> QED BY <2>2, <2>5, <3>1, <1>5
  <2>6. CASE form \notin Fns
    BY <2>2, <2>4, <2>6, <1>5
  <2> QED BY <2>5, <2>6
<1>7. \A p \in 1..w + 1 : x[p].top <= x[w + 1].top /\ x[p].classes <= x[w + 1].classes
  <2>1. \A p \in 1..w + 1 : p <= w + 1 /\ p \in DOMAIN x /\ w + 1 \in DOMAIN x
    BY <1>0
  <2> QED BY <2>1 DEF Working, Trail
<1>8. \A p \in 1..w + 1 : x[p].top <= t.top /\ x[p].classes <= t.classes
  <2> SUFFICES ASSUME NEW p \in 1..w + 1 PROVE x[p].top <= t.top /\ x[p].classes <= t.classes
    OBVIOUS
  <2>1. x[p].top \in Nat /\ x[p].classes \in Nat /\ t.top \in Nat /\ t.classes \in Nat
    BY <1>0, WorkFacts DEF Settings
  <2> QED BY <2>1, <1>5, <1>6, <1>7
<1>9. ASSUME NEW p \in 1..w + 2, NEW q \in 1..w + 2, p <= q
      PROVE  x2[p].top <= x2[q].top /\ x2[p].classes <= x2[q].classes
  <2>1. CASE q \in 1..w + 1
    <3>1. p \in 1..w + 1
      BY <2>1, <1>9, <1>0
    <3> QED BY <3>1, <2>1, <1>0, <1>2, <1>9 DEF Working, Trail
  <2>2. CASE q = w + 2 /\ p \in 1..w + 1
    BY <2>2, <1>2, <1>8
  <2>3. CASE q = w + 2 /\ p = w + 2
    <3>1. t.top \in Nat /\ t.classes \in Nat
      BY <1>0 DEF Settings
    <3> QED BY <3>1, <2>3, <1>2
  <2> QED BY <2>1, <2>2, <2>3, <1>0
<1>10. ASSUME NEW p \in 1..w + 2
       PROVE  x2[p].fns >= 1 /\ x2[p].base <= x2[p].top /\ (x2[p].fns > 1 => x2[p].base < x2[p].top)
  <2>1. CASE p = w + 2
    BY <2>1, <1>2, <1>6
  <2>2. CASE p # w + 2
    <3>1. p \in 1..w + 1 /\ p \in DOMAIN x
      BY <2>2, <1>0
    <3>2. x2[p] = x[p]
      BY <3>1, <1>2
    <3> QED BY <3>1, <3>2 DEF Working, Trail
  <2> QED BY <2>1, <2>2
<1>11. Len(x2) = Len(wk2) + 1
  BY <1>0, <1>1, <1>2
<1>12. Trail(wk2, cl2, x2)
  BY <1>1, <1>2, <1>3, <1>4, <1>9, <1>10, <1>11 DEF Trail
<1> QED BY <1>12 DEF wk2, x2

\* What the new construct adds to the lists.
LEMMA BeginFacts ==
  ASSUME NEW wk, NEW cl, NEW x, NEW at, NEW n, NEW sc, Working(wk, cl, x, at, n, sc),
         NEW form, NEW t, NEW cl2, NEW sc2, Begins(wk, cl, x, sc, form, t, cl2, sc2)
  PROVE  /\ Append(wk, form) \in Seq(Forms) /\ Append(x, t) \in Seq(Settings)
         /\ Len(wk) \in Nat /\ Len(x) = Len(wk) + 1 /\ form \in Forms /\ t \in Settings
         /\ Len(Append(wk, form)) = Len(wk) + 1 /\ Append(wk, form)[Len(wk) + 1] = form
         /\ \A p \in 1..Len(wk) : Append(wk, form)[p] = wk[p]
         /\ Len(Append(x, t)) = Len(wk) + 2 /\ DOMAIN Append(x, t) = 1..Len(wk) + 2
         /\ Append(x, t)[Len(wk) + 2] = t
         /\ \A p \in 1..Len(wk) + 1 : Append(x, t)[p] = x[p]
<1> DEFINE w == Len(wk)
<1>0. /\ wk \in Seq(Forms) /\ w \in Nat /\ x \in Seq(Settings) /\ Len(x) = w + 1
      /\ form \in Forms /\ t \in Settings
  BY WorkFacts DEF Begins
<1>1. /\ Append(wk, form) \in Seq(Forms) /\ Len(Append(wk, form)) = w + 1 /\ Append(wk, form)[w + 1] = form
      /\ \A p \in 1..w : Append(wk, form)[p] = wk[p]
  BY <1>0, AppendFacts
<1>2. /\ Append(x, t) \in Seq(Settings) /\ Len(Append(x, t)) = Len(x) + 1
      /\ DOMAIN Append(x, t) = 1..Len(x) + 1 /\ Append(x, t)[Len(x) + 1] = t
      /\ \A p \in 1..Len(x) : Append(x, t)[p] = x[p]
  BY <1>0, AppendFacts
<1>3. Len(x) + 1 = w + 2
  BY <1>0
<1> QED BY <1>0, <1>1, <1>2, <1>3

\* A construct begins only where it may stand.
LEMMA OrderedBegins ==
  ASSUME NEW wk, NEW cl, NEW x, NEW at, NEW n, NEW sc, Working(wk, cl, x, at, n, sc),
         NEW form, NEW t, NEW cl2, NEW sc2, Begins(wk, cl, x, sc, form, t, cl2, sc2)
  PROVE  Ordered(Append(wk, form), Append(x, t))
<1> DEFINE w == Len(wk)
           wk2 == Append(wk, form)
           x2 == Append(x, t)
<1>0. /\ w \in Nat /\ Len(wk2) = w + 1 /\ wk2[w + 1] = form /\ \A p \in 1..w : wk2[p] = wk[p]
      /\ x2[w + 2] = t /\ \A p \in 1..w + 1 : x2[p] = x[p]
  BY BeginFacts
<1> HIDE DEF wk2, x2
<1>1. SUFFICES ASSUME NEW p \in 1..w + 1
               PROVE  /\ wk2[p] \notin {"class", "enum"} => x2[p + 1].temps = 0
                      /\ wk2[p] = "var" /\ p < w + 1 => wk2[p + 1] = "lambda"
                      /\ wk2[p] = "params" => p > 1 /\ wk2[p - 1] \in Fns
  <2>1. Ordered(wk2, x2)
    BY <1>0, <1>1 DEF Ordered
  <2> QED BY <2>1 DEF wk2, x2
<1>2. CASE p = w + 1
  <2>1. wk2[p] = form /\ x2[p + 1] = t
    BY <1>0, <1>2
  <2>2. form \notin {"class", "enum"} => t.temps = 0
    BY DEF Begins
  <2>3. form = "params" => p > 1 /\ wk2[p - 1] \in Fns
    <3>1. HAVE form = "params"
    <3>2. wk # <<>> /\ wk[w] \in Fns
      BY <3>1 DEF Begins
    <3>3. w # 0
      BY <3>2, WorkFacts, EmptySeq
    <3>4. p - 1 = w /\ w \in 1..w /\ p > 1
      BY <3>3, <1>0, <1>2
    <3> QED BY <3>2, <3>4, <1>0
  <2> QED BY <2>1, <2>2, <2>3, <1>2
<1>3. CASE p # w + 1
  <2>1. p \in 1..w /\ p + 1 \in 1..w + 1 /\ wk2[p] = wk[p] /\ x2[p + 1] = x[p + 1]
    BY <1>0, <1>3
  <2>2. wk[p] \notin {"class", "enum"} => x[p + 1].temps = 0
    BY <2>1 DEF Working, Ordered
  <2>3. wk[p] = "var" => wk2[p + 1] = "lambda"
    <3>1. CASE p = w
      <4>1. wk # <<>>
        BY <3>1, <2>1, WorkFacts, EmptySeq
      <4>2. wk[w] = "var" => form = "lambda"
        BY <4>1 DEF Begins
      <4> QED BY <4>2, <3>1, <1>0
    <3>2. CASE p # w
      <4>1. p < w /\ p + 1 \in 1..w
        BY <3>2, <2>1, <1>0
      <4>2. wk[p] = "var" => wk[p + 1] = "lambda"
        BY <4>1, <2>1 DEF Working, Ordered
      <4> QED BY <4>1, <4>2, <1>0
    <3> QED BY <3>1, <3>2
  <2>4. wk[p] = "params" => p > 1 /\ wk2[p - 1] \in Fns
    <3>1. wk[p] = "params" => p > 1 /\ wk[p - 1] \in Fns
      BY <2>1 DEF Working, Ordered
    <3>2. p > 1 => p - 1 \in 1..w
      BY <2>1
    <3> QED BY <3>1, <3>2, <1>0
  <2> QED BY <2>1, <2>2, <2>3, <2>4
<1> QED BY <1>2, <1>3

\* The scope of a superclass is opened by its subclass and by nothing else.
LEMMA SupersededBegins ==
  ASSUME NEW wk, NEW cl, NEW x, NEW at, NEW n, NEW sc, Working(wk, cl, x, at, n, sc),
         NEW form, NEW t, NEW cl2, NEW sc2, Begins(wk, cl, x, sc, form, t, cl2, sc2)
  PROVE  Superseded(Append(wk, form), cl2, Append(x, t), sc2)
<1> DEFINE w == Len(wk)
           wk2 == Append(wk, form)
           x2 == Append(x, t)
<1>0. /\ w \in Nat /\ Len(wk2) = w + 1 /\ wk2[w + 1] = form /\ \A p \in 1..w : wk2[p] = wk[p]
      /\ x2[w + 2] = t /\ \A p \in 1..w + 1 : x2[p] = x[p]
  BY BeginFacts
<1> HIDE DEF wk2, x2
<1>1. SUFFICES ASSUME NEW p \in 1..w + 1
               PROVE  /\ wk2[p] \in Fns \cup {"block"} => ~HasSuper(sc2, x2[p + 1].top)
                      /\ wk2[p] = "class" /\ cl2[x2[p + 1].classes] => HasSuper(sc2, x2[p + 1].top)
  <2>1. Superseded(wk2, cl2, x2, sc2)
    BY <1>0, <1>1 DEF Superseded
  <2> QED BY <2>1 DEF wk2, x2
<1>2. CASE p = w + 1
  <2>1. wk2[p] = form /\ x2[p + 1] = t
    BY <1>0, <1>2
  <2> QED BY <2>1 DEF Begins
<1>3. CASE p # w + 1
  <2>1. p \in 1..w /\ p + 1 \in 1..w + 1 /\ wk2[p] = wk[p] /\ x2[p + 1] = x[p + 1]
    BY <1>0, <1>3
  <2>2. x[p + 1].top \in Nat /\ x[p + 1].top <= Len(sc) /\ Len(sc) \in Nat
    <3>1. x[p + 1].top \in Nat /\ x[p + 1].top <= Len(sc)
      BY <2>1, WorkFacts, ClassFacts
    <3>2. Len(sc) \in Nat
      <4>1. Len(wk) + 1 \in 1..Len(wk) + 1 /\ Len(x) = Len(wk) + 1
        BY <1>0, WorkFacts
      <4>2. x[Len(x)].top \in Nat
        BY <4>1, WorkFacts
      <4> QED BY <4>2 DEF Working, Ending
    <3> QED BY <3>1, <3>2
  <2>3. x[p + 1].top >= 1 => (HasSuper(sc2, x[p + 1].top) <=> HasSuper(sc, x[p + 1].top))
    <3>1. x[p + 1].top >= 1 => x[p + 1].top \in 1..Len(sc)
      BY <2>2
    <3> QED BY <3>1 DEF Begins, SameSupers
  <2>4. wk[p] \in Fns \cup {"block"} => ~HasSuper(sc, x[p + 1].top) /\ x[p + 1].top >= 1
    BY <2>1, DeepFacts DEF Working, Superseded
  <2>5. wk[p] = "class" /\ cl2[x[p + 1].classes] => HasSuper(sc, x[p + 1].top) /\ x[p + 1].top >= 1
    <3>1. wk[p] = "class" => cl2[x[p + 1].classes] = cl[x[p + 1].classes]
      BY <2>1, ClassFacts DEF Begins
    <3>2. wk[p] = "class" /\ cl[x[p + 1].classes] => HasSuper(sc, x[p + 1].top) /\ x[p + 1].top >= 1
      BY <2>1, DeepFacts DEF Working, Superseded
    <3> QED BY <3>1, <3>2
  <2> HIDE DEF Fns, HasSuper
  <2> QED BY <2>1, <2>3, <2>4, <2>5
<1> QED BY <1>2, <1>3

-----------------------------------------------------------------------------
(* The types open.                                                         *)
TypesIn(wk, p) == {i \in 1..p - 1 : wk[i] \in {"class", "enum"} /\ \A j \in i..p - 1 : wk[j] \notin Fns}

\* The types on the stack are finitely many.
LEMMA TypesInFacts ==
  ASSUME NEW wk, NEW p \in Nat
  PROVE  /\ TypesBefore(wk, p) = Cardinality(TypesIn(wk, p))
         /\ IsFiniteSet(TypesIn(wk, p))
<1>1. TypesBefore(wk, p) = Cardinality(TypesIn(wk, p))
  BY DEF TypesBefore, TypesIn
<1>2. IsFiniteSet(1..p - 1)
  BY FS_Interval
<1>3. TypesIn(wk, p) \subseteq 1..p - 1
  BY DEF TypesIn
<1> QED BY <1>1, <1>2, <1>3, FS_Subset

\* The types before depend on no more than what stands there.
LEMMA TypesAgain ==
  ASSUME NEW wk, NEW wk2, NEW p \in Nat, \A i \in 1..p - 1 : wk2[i] = wk[i]
  PROVE  TypesIn(wk2, p) = TypesIn(wk, p)
<1>1. \A i \in 1..p - 1 : \A j \in i..p - 1 : j \in 1..p - 1
  OBVIOUS
<1> QED BY <1>1 DEF TypesIn

\* One construct further.
LEMMA TypesNext ==
  ASSUME NEW wk, NEW p \in Nat \ {0}
  PROVE  TypesBefore(wk, p + 1) = IF wk[p] \in Fns THEN 0
                                  ELSE IF wk[p] \in {"class", "enum"} THEN TypesBefore(wk, p) + 1
                                  ELSE TypesBefore(wk, p)
<1> DEFINE S == TypesIn(wk, p)
           T == TypesIn(wk, p + 1)
<1>1. T = {i \in 1..p : wk[i] \in {"class", "enum"} /\ \A j \in i..p : wk[j] \notin Fns}
  BY DEF TypesIn
<1>2. S = {i \in 1..p - 1 : wk[i] \in {"class", "enum"} /\ \A j \in i..p - 1 : wk[j] \notin Fns}
  BY DEF TypesIn
<1>0. \A i \in 1..p : p \in i..p
  OBVIOUS
<1>3. /\ TypesBefore(wk, p) = Cardinality(S) /\ IsFiniteSet(S)
      /\ TypesBefore(wk, p + 1) = Cardinality(T)
  BY TypesInFacts
<1> HIDE DEF S, T
<1>4. CASE wk[p] \in Fns
  <2>1. T = {}
    BY <1>0, <1>1, <1>4
  <2> QED BY <2>1, <1>3, <1>4, FS_EmptySet
<1>5. CASE wk[p] \notin Fns /\ wk[p] \in {"class", "enum"}
  <2>1. T = S \cup {p}
    <3>1. \A i \in 1..p : (\A j \in i..p : wk[j] \notin Fns) <=> (i = p \/ \A j \in i..p - 1 : wk[j] \notin Fns)
      BY <1>5
    <3>2. \A i : i \in 1..p <=> i \in 1..p - 1 \/ i = p
      OBVIOUS
    <3>3. T \subseteq S \cup {p}
      BY <1>1, <1>2, <3>1, <3>2
    <3>4. S \cup {p} \subseteq T
      <4>1. S \subseteq T
        <5> SUFFICES ASSUME NEW i \in S PROVE i \in T
          OBVIOUS
        <5>1. i \in 1..p /\ wk[i] \in {"class", "enum"} /\ \A j \in i..p - 1 : wk[j] \notin Fns
          BY <1>2
        <5>2. \A j \in i..p : wk[j] \notin Fns
          BY <5>1, <3>1
        <5> QED BY <5>1, <5>2, <1>1
      <4>2. p \in T
        BY <1>1, <1>5, <3>1
      <4> QED BY <4>1, <4>2
    <3> QED BY <3>3, <3>4
  <2>2. p \notin S
    BY <1>2
  <2>3. Cardinality(S \cup {p}) = Cardinality(S) + 1
    BY <2>2, <1>3, FS_AddElement
  <2> QED BY <2>1, <2>3, <1>3, <1>5
<1>6. CASE wk[p] \notin Fns /\ wk[p] \notin {"class", "enum"}
  <2>1. \A i \in 1..p : (\A j \in i..p : wk[j] \notin Fns) <=> (i = p \/ \A j \in i..p - 1 : wk[j] \notin Fns)
    BY <1>6
  <2>2. \A i : i \in 1..p <=> i \in 1..p - 1 \/ i = p
    OBVIOUS
  <2>3. T \subseteq S
    BY <1>1, <1>2, <1>6, <2>1, <2>2
  <2>4. S \subseteq T
    <3> SUFFICES ASSUME NEW i \in S PROVE i \in T
      OBVIOUS
    <3>1. i \in 1..p /\ wk[i] \in {"class", "enum"} /\ \A j \in i..p - 1 : wk[j] \notin Fns
      BY <1>2
    <3>2. \A j \in i..p : wk[j] \notin Fns
      BY <3>1, <2>1
    <3> QED BY <3>1, <3>2, <1>1
  <2>5. T = S
    BY <2>3, <2>4
  <2> QED BY <2>5, <1>3, <1>6
<1> QED BY <1>4, <1>5, <1>6

\* A type that begins is counted, and one that stands around a function is not counted in it.
LEMMA CountedBegins ==
  ASSUME NEW wk, NEW cl, NEW x, NEW at, NEW n, NEW sc, Working(wk, cl, x, at, n, sc),
         NEW form, NEW t, NEW cl2, NEW sc2, Begins(wk, cl, x, sc, form, t, cl2, sc2)
  PROVE  Counted(Append(wk, form), Append(x, t))
<1> DEFINE w == Len(wk)
           wk2 == Append(wk, form)
           x2 == Append(x, t)
<1>0. /\ w \in Nat /\ Len(wk2) = w + 1 /\ wk2[w + 1] = form /\ \A p \in 1..w : wk2[p] = wk[p]
      /\ x2[w + 2] = t /\ (\A p \in 1..w + 1 : x2[p] = x[p]) /\ DOMAIN x2 = 1..w + 2
      /\ t \in Settings /\ form \in Forms /\ Len(x) = w + 1
  BY BeginFacts
<1> HIDE DEF wk2, x2
<1>1. \A p \in 1..w + 1 : x2[p].temps = TypesBefore(wk2, p)
  <2> SUFFICES ASSUME NEW p \in 1..w + 1 PROVE x2[p].temps = TypesBefore(wk2, p)
    OBVIOUS
  <2>1. p \in Nat /\ p \in DOMAIN x /\ \A i \in 1..p - 1 : i \in 1..w
    BY <1>0, WorkFacts
  <2>2. TypesIn(wk2, p) = TypesIn(wk, p)
    BY <2>1, <1>0, TypesAgain
  <2>3. TypesBefore(wk2, p) = TypesBefore(wk, p)
    BY <2>1, <2>2, TypesInFacts
  <2>4. x[p].temps = TypesBefore(wk, p)
    BY <2>1 DEF Working, Counted
  <2> QED BY <2>3, <2>4, <1>0
<1>2. t.temps = TypesBefore(wk2, w + 2)
  <2>1. w + 1 \in 1..w + 1 /\ w + 1 \in Nat \ {0} /\ (w + 1) + 1 = w + 2
    BY <1>0
  <2>2. x[w + 1] \in Settings /\ x[w + 1].temps = TypesBefore(wk2, w + 1)
    BY <2>1, <1>0, <1>1, WorkFacts
  <2>3. Follows(form, x[w + 1], t, cl2)
    BY <1>0 DEF Begins
  <2>4. t.temps = IF form \in Fns THEN 0 ELSE IF form \in {"class", "enum"} THEN x[w + 1].temps + 1 ELSE x[w + 1].temps
    BY <2>2, <2>3, <1>0, FollowsFacts
  <2>5. TypesBefore(wk2, (w + 1) + 1) =
          IF wk2[w + 1] \in Fns THEN 0
          ELSE IF wk2[w + 1] \in {"class", "enum"} THEN TypesBefore(wk2, w + 1) + 1 ELSE TypesBefore(wk2, w + 1)
    BY <2>1, TypesNext
  <2> QED BY <2>1, <2>2, <2>4, <2>5, <1>0
<1>3. Counted(wk2, x2)
  <2> SUFFICES ASSUME NEW p \in 1..w + 2 PROVE x2[p].temps = TypesBefore(wk2, p)
    BY <1>0 DEF Counted
  <2>1. CASE p = w + 2
    BY <2>1, <1>0, <1>2
  <2>2. CASE p # w + 2
    BY <2>2, <1>0, <1>1
  <2> QED BY <2>1, <2>2
<1> QED BY <1>3 DEF wk2, x2

\* Inside the same function.
LEMMA StandsBegins ==
  ASSUME NEW wk, NEW cl, NEW x, NEW at, NEW n, NEW sc, Working(wk, cl, x, at, n, sc),
         NEW form, NEW t, NEW cl2, NEW sc2, Begins(wk, cl, x, sc, form, t, cl2, sc2), form \notin Fns
  PROVE  /\ Stands(Append(wk, form), Append(x, t), [at EXCEPT ![n] = Len(x) + 1], n)
         /\ Ending(Append(x, t), cl2, n, sc2)
<1> DEFINE w == Len(wk)
           wk2 == Append(wk, form)
           x2 == Append(x, t)
           at2 == [at EXCEPT ![n] = Len(x) + 1]
<1>0. /\ w \in Nat /\ Len(wk2) = w + 1 /\ wk2[w + 1] = form /\ \A p \in 1..w : wk2[p] = wk[p]
      /\ x2[w + 2] = t /\ (\A p \in 1..w + 1 : x2[p] = x[p]) /\ DOMAIN x2 = 1..w + 2 /\ Len(x2) = w + 2
      /\ t \in Settings /\ form \in Forms /\ Len(x) = w + 1
  BY BeginFacts
<1>1. /\ n \in Nat /\ n >= 1 /\ at \in Seq(Nat) /\ Len(at) = n /\ DOMAIN at = 1..n /\ at[n] = w + 1
      /\ DOMAIN x = 1..w + 1 /\ x[w + 1] \in Settings
  <2>1. w + 1 \in 1..w + 1
    BY <1>0
  <2> QED BY <2>1, WorkFacts
<1>2. /\ Len(at2) = n /\ at2[n] = w + 2 /\ \A k \in 1..n - 1 : at2[k] = at[k]
  BY <1>0, <1>1
<1> HIDE DEF wk2, x2, at2
<1>3. \A k \in 1..n - 1 : at[k] \in 1..w /\ wk[at[k]] \in Fns /\ k \in 1..n
  BY <1>1 DEF Working, Stands
<1>4. t.fns = n /\ t.fns \in Nat
  <2>1. x[w + 1].fns = n
    <3>1. n \in 1..n
      BY <1>1
    <3> QED BY <3>1, <1>1 DEF Working, Stands
  <2>2. Follows(form, x[w + 1], t, cl2)
    BY <1>0 DEF Begins
  <2> QED BY <2>1, <2>2, <1>0, <1>1, FollowsFacts
<1>5. \A k \in 1..n : x2[at2[k]].fns = k
  <2> SUFFICES ASSUME NEW k \in 1..n PROVE x2[at2[k]].fns = k
    OBVIOUS
  <2>1. CASE k = n
    BY <2>1, <1>0, <1>2, <1>4
  <2>2. CASE k # n
    <3>1. k \in 1..n - 1
      BY <2>2, <1>1
    <3>2. at2[k] = at[k] /\ at[k] \in 1..w + 1
      BY <3>1, <1>0, <1>2, <1>3
    <3>3. x[at[k]].fns = k
      BY <3>1, <1>3 DEF Working, Stands
    <3> QED BY <3>2, <3>3, <1>0
  <2> QED BY <2>1, <2>2
<1>6. ASSUME NEW k \in 1..n, NEW p \in DOMAIN x2, p > at2[k]
      PROVE  x2[p].fns > k
  <2>1. CASE k = n
    BY <2>1, <1>0, <1>2, <1>6
  <2>2. CASE k # n
    <3>1. k \in 1..n - 1 /\ at2[k] = at[k] /\ k < n
      BY <2>2, <1>1, <1>2
    <3>2. CASE p = w + 2
      BY <3>1, <3>2, <1>0, <1>1, <1>4
    <3>3. CASE p # w + 2
      <4>1. p \in 1..w + 1 /\ p \in DOMAIN x /\ x2[p] = x[p] /\ p > at[k]
        BY <3>1, <3>3, <1>0, <1>1, <1>6
      <4> QED BY <4>1 DEF Working, Stands
    <3> QED BY <3>2, <3>3
  <2> QED BY <2>1, <2>2
<1>7. \A k \in 1..n - 1 : at2[k] \in 1..w + 1 /\ wk2[at2[k]] \in Fns
  BY <1>0, <1>2, <1>3
<1>8. Stands(wk2, x2, at2, n)
  BY <1>0, <1>1, <1>2, <1>5, <1>6, <1>7 DEF Stands
<1>9. Ending(x2, cl2, n, sc2)
  BY <1>0, <1>4 DEF Ending, Begins
<1> QED BY <1>8, <1>9 DEF wk2, x2, at2

\* In a function of its own.
LEMMA StandsBeginsFn ==
  ASSUME NEW wk, NEW cl, NEW x, NEW at, NEW n, NEW sc, Working(wk, cl, x, at, n, sc),
         NEW form, NEW t, NEW cl2, NEW sc2, Begins(wk, cl, x, sc, form, t, cl2, sc2), form \in Fns
  PROVE  /\ Stands(Append(wk, form), Append(x, t), Append(at, Len(x) + 1), n + 1)
         /\ Ending(Append(x, t), cl2, n + 1, sc2)
<1> DEFINE w == Len(wk)
           wk2 == Append(wk, form)
           x2 == Append(x, t)
           at2 == Append(at, Len(x) + 1)
<1>0. /\ w \in Nat /\ Len(wk2) = w + 1 /\ wk2[w + 1] = form /\ \A p \in 1..w : wk2[p] = wk[p]
      /\ x2[w + 2] = t /\ (\A p \in 1..w + 1 : x2[p] = x[p]) /\ DOMAIN x2 = 1..w + 2 /\ Len(x2) = w + 2
      /\ t \in Settings /\ form \in Forms /\ Len(x) = w + 1
  BY BeginFacts
<1>1. /\ n \in Nat /\ n >= 1 /\ at \in Seq(Nat) /\ Len(at) = n /\ DOMAIN at = 1..n /\ at[n] = w + 1
      /\ DOMAIN x = 1..w + 1 /\ x[w + 1] \in Settings
  <2>1. w + 1 \in 1..w + 1
    BY <1>0
  <2> QED BY <2>1, WorkFacts
<1>2. /\ Len(at2) = n + 1 /\ at2[n + 1] = w + 2 /\ \A k \in 1..n : at2[k] = at[k]
  BY <1>0, <1>1
<1> HIDE DEF wk2, x2, at2
<1>3. \A k \in 1..n : at2[k] \in 1..w + 1 /\ wk2[at2[k]] \in Fns
  <2> SUFFICES ASSUME NEW k \in 1..n PROVE at2[k] \in 1..w + 1 /\ wk2[at2[k]] \in Fns
    OBVIOUS
  <2>1. CASE k = n
    BY <2>1, <1>0, <1>1, <1>2
  <2>2. CASE k # n
    <3>1. k \in 1..n - 1
      BY <2>2, <1>1
    <3>2. at[k] \in 1..w /\ wk[at[k]] \in Fns
      BY <3>1 DEF Working, Stands
    <3> QED BY <3>2, <1>0, <1>2
  <2> QED BY <2>1, <2>2
<1>4. t.fns = n + 1 /\ t.fns \in Nat
  <2>1. x[w + 1].fns = n
    <3>1. n \in 1..n
      BY <1>1
    <3> QED BY <3>1, <1>1 DEF Working, Stands
  <2>2. Follows(form, x[w + 1], t, cl2)
    BY <1>0 DEF Begins
  <2> QED BY <2>1, <2>2, <1>0, <1>1, FollowsFacts
<1>5. \A k \in 1..n + 1 : x2[at2[k]].fns = k
  <2> SUFFICES ASSUME NEW k \in 1..n + 1 PROVE x2[at2[k]].fns = k
    OBVIOUS
  <2>1. CASE k = n + 1
    BY <2>1, <1>0, <1>2, <1>4
  <2>2. CASE k # n + 1
    <3>1. k \in 1..n
      BY <2>2, <1>1
    <3>2. at2[k] = at[k] /\ at[k] \in 1..w + 1
      BY <3>1, <1>0, <1>2, <1>3
    <3>3. x[at[k]].fns = k
      BY <3>1 DEF Working, Stands
    <3> QED BY <3>2, <3>3, <1>0
  <2> QED BY <2>1, <2>2
<1>6. ASSUME NEW k \in 1..n + 1, NEW p \in DOMAIN x2, p > at2[k]
      PROVE  x2[p].fns > k
  <2>1. CASE k = n + 1
    BY <2>1, <1>0, <1>2, <1>6
  <2>2. CASE k # n + 1
    <3>1. k \in 1..n /\ at2[k] = at[k] /\ k < n + 1
      BY <2>2, <1>1, <1>2
    <3>2. CASE p = w + 2
      BY <3>1, <3>2, <1>0, <1>1, <1>4
    <3>3. CASE p # w + 2
      <4>1. p \in 1..w + 1 /\ p \in DOMAIN x /\ x2[p] = x[p] /\ p > at[k]
        BY <3>1, <3>3, <1>0, <1>1, <1>6
      <4> QED BY <4>1, <3>1 DEF Working, Stands
    <3> QED BY <3>2, <3>3
  <2> QED BY <2>1, <2>2
<1>7. (n + 1) - 1 = n /\ n + 1 >= 1
  BY <1>1
<1>8. Stands(wk2, x2, at2, n + 1)
  BY <1>0, <1>2, <1>3, <1>5, <1>6, <1>7 DEF Stands
<1>9. Ending(x2, cl2, n + 1, sc2)
  BY <1>0, <1>4 DEF Ending, Begins
<1> QED BY <1>8, <1>9 DEF wk2, x2, at2

\* The work list is well formed when a construct begins.
LEMMA WorkingBegins ==
  ASSUME NEW wk, NEW cl, NEW x, NEW at, NEW n, NEW sc, Working(wk, cl, x, at, n, sc),
         NEW form, NEW t, NEW cl2, NEW sc2, Begins(wk, cl, x, sc, form, t, cl2, sc2)
  PROVE  /\ form \notin Fns =>
              Working(Append(wk, form), cl2, Append(x, t), [at EXCEPT ![n] = Len(x) + 1], n, sc2)
         /\ form \in Fns =>
              Working(Append(wk, form), cl2, Append(x, t), Append(at, Len(x) + 1), n + 1, sc2)
<1>1. /\ Append(wk, form) \in Seq(Forms) /\ Append(x, t) \in Seq(Settings) /\ cl2 \in Seq(BOOLEAN)
  <2>1. cl2 \in Seq(BOOLEAN)
    BY Zenon DEF Begins
  <2>2. Append(wk, form) \in Seq(Forms) /\ Append(x, t) \in Seq(Settings)
    BY BeginFacts
  <2> QED BY <2>1, <2>2, Zenon
<1>2. /\ Trail(Append(wk, form), cl2, Append(x, t)) /\ Ordered(Append(wk, form), Append(x, t))
      /\ Superseded(Append(wk, form), cl2, Append(x, t), sc2) /\ Counted(Append(wk, form), Append(x, t))
  BY TrailBegins, OrderedBegins, SupersededBegins, CountedBegins
<1>3. /\ at \in Seq(Nat) /\ Len(x) + 1 \in Nat /\ n \in 1..Len(at)
  BY WorkFacts
<1>4. ASSUME form \notin Fns
      PROVE  Working(Append(wk, form), cl2, Append(x, t), [at EXCEPT ![n] = Len(x) + 1], n, sc2)
  <2>1. [at EXCEPT ![n] = Len(x) + 1] \in Seq(Nat)
    BY <1>3
  <2>2. /\ Stands(Append(wk, form), Append(x, t), [at EXCEPT ![n] = Len(x) + 1], n)
        /\ Ending(Append(x, t), cl2, n, sc2)
    BY <1>4, StandsBegins
  <2> QED BY <2>1, <2>2, <1>1, <1>2 DEF Working
<1>5. ASSUME form \in Fns
      PROVE  Working(Append(wk, form), cl2, Append(x, t), Append(at, Len(x) + 1), n + 1, sc2)
  <2>1. Append(at, Len(x) + 1) \in Seq(Nat)
    BY <1>3
  <2>2. /\ Stands(Append(wk, form), Append(x, t), Append(at, Len(x) + 1), n + 1)
        /\ Ending(Append(x, t), cl2, n + 1, sc2)
    BY <1>5, StandsBeginsFn
  <2> QED BY <2>1, <2>2, <1>1, <1>2 DEF Working
<1> QED BY <1>4, <1>5

(* A construct ends.                                                       *)
Ends(wk, cl, x, cl2, sc, sc2) ==
  /\ Len(wk) >= 1 /\ cl2 \in Seq(BOOLEAN)
  /\ \A a \in DOMAIN cl2 : a \in DOMAIN cl /\ cl2[a] = cl[a]
  /\ Len(cl2) = x[Len(wk)].classes /\ Len(sc2) = x[Len(wk)].top
  /\ SameSupers(sc, sc2, Len(sc2))

\* What is left of the lists.
LEMMA EndFacts ==
  ASSUME NEW wk, NEW cl, NEW x, NEW at, NEW n, NEW sc, Working(wk, cl, x, at, n, sc),
         NEW cl2, NEW sc2, Ends(wk, cl, x, cl2, sc, sc2)
  PROVE  /\ Front(wk) \in Seq(Forms) /\ Front(x) \in Seq(Settings)
         /\ Len(wk) \in Nat /\ Len(wk) >= 1 /\ Len(x) = Len(wk) + 1
         /\ Len(Front(wk)) = Len(wk) - 1 /\ \A p \in 1..Len(wk) - 1 : Front(wk)[p] = wk[p] /\ wk[p] \in Forms
         /\ Len(Front(x)) = Len(wk) /\ DOMAIN Front(x) = 1..Len(wk)
         /\ \A p \in 1..Len(wk) : Front(x)[p] = x[p] /\ p \in DOMAIN x /\ x[p] \in Settings
         /\ cl2 \in Seq(BOOLEAN) /\ Len(cl2) \in Nat /\ DOMAIN cl2 = 1..Len(cl2) /\ Len(sc2) \in Nat
         /\ \A p \in 1..Len(wk) : x[p].classes <= Len(cl2) /\ x[p].top <= Len(sc2)
<1> DEFINE w == Len(wk)
<1>0. /\ wk \in Seq(Forms) /\ w \in Nat /\ x \in Seq(Settings) /\ Len(x) = w + 1 /\ DOMAIN x = 1..w + 1
  BY WorkFacts
<1>1. w >= 1
  BY DEF Ends
<1>2. /\ Front(wk) \in Seq(Forms) /\ Len(Front(wk)) = w - 1 /\ \A p \in 1..w - 1 : Front(wk)[p] = wk[p]
  BY <1>0, <1>1, FrontFacts
<1>3. /\ Front(x) \in Seq(Settings) /\ Len(Front(x)) = Len(x) - 1 /\ DOMAIN Front(x) = 1..Len(x) - 1
      /\ \A p \in 1..Len(x) - 1 : Front(x)[p] = x[p]
  <2>1. Len(x) >= 1
    BY <1>0
  <2> QED BY <2>1, <1>0, FrontFacts
<1>4. Len(x) - 1 = w
  BY <1>0
<1>5. \A p \in 1..w : p \in DOMAIN x /\ x[p] \in Settings /\ wk[p] \in Forms
  BY <1>0
<1>6. cl2 \in Seq(BOOLEAN)
  BY Zenon DEF Ends
<1>7. Len(cl2) \in Nat /\ DOMAIN cl2 = 1..Len(cl2)
  BY <1>6, LenProperties
<1>8. w \in 1..w
  BY <1>0, <1>1
<1>9. Len(cl2) = x[w].classes /\ Len(sc2) = x[w].top
  BY DEF Ends
<1>10. x[w].top \in Nat
  BY <1>5, <1>8 DEF Settings
<1>11. \A p \in 1..w : x[p].classes <= x[w].classes /\ x[p].top <= x[w].top
  <2>1. \A p \in 1..w : p <= w /\ p \in DOMAIN x /\ w \in DOMAIN x
    BY <1>5, <1>8
  <2> QED BY <2>1 DEF Working, Trail
<1>12. \A p \in 1..w - 1 : wk[p] \in Forms
  BY <1>0
<1> QED BY <1>0, <1>1, <1>2, <1>3, <1>4, <1>5, <1>6, <1>7, <1>9, <1>10, <1>11, <1>12

\* When the innermost construct ends, the settings are those it began with.
LEMMA TrailEnds ==
  ASSUME NEW wk, NEW cl, NEW x, NEW at, NEW n, NEW sc, Working(wk, cl, x, at, n, sc),
         NEW cl2, NEW sc2, Ends(wk, cl, x, cl2, sc, sc2)
  PROVE  /\ Trail(Front(wk), cl2, Front(x)) /\ Ordered(Front(wk), Front(x))
         /\ Superseded(Front(wk), cl2, Front(x), sc2) /\ Counted(Front(wk), Front(x))
<1> DEFINE w == Len(wk)
           wk2 == Front(wk)
           x2 == Front(x)
<1>0. /\ w \in Nat /\ w >= 1 /\ Len(x) = w + 1
      /\ Len(wk2) = w - 1 /\ (\A p \in 1..w - 1 : wk2[p] = wk[p] /\ wk[p] \in Forms)
      /\ Len(x2) = w /\ DOMAIN x2 = 1..w
      /\ (\A p \in 1..w : x2[p] = x[p] /\ p \in DOMAIN x /\ x[p] \in Settings)
      /\ Len(cl2) \in Nat /\ DOMAIN cl2 = 1..Len(cl2) /\ Len(sc2) \in Nat
      /\ \A p \in 1..w : x[p].classes <= Len(cl2) /\ x[p].top <= Len(sc2)
  BY EndFacts
<1> HIDE DEF wk2, x2
<1>1. \A p \in 1..w - 1 : p \in 1..w /\ p + 1 \in 1..w /\ p \in 1..Len(wk)
  BY <1>0
<1>2. \A p \in 1..w - 1 : /\ wk2[p] = wk[p] /\ wk[p] \in Forms /\ x2[p] = x[p] /\ x2[p + 1] = x[p + 1]
                          /\ x[p] \in Settings /\ x[p + 1] \in Settings
  BY <1>0, <1>1
<1>3. ASSUME NEW p \in 1..w - 1, wk[p] = "class"
      PROVE  cl2[x[p + 1].classes] = cl[x[p + 1].classes]
  <2>1. Follows(wk[p], x[p], x[p + 1], cl)
    BY <1>1 DEF Working, Trail
  <2>2. x[p + 1].classes = x[p].classes + 1 /\ x[p].classes \in Nat
    BY <2>1, <1>2, <1>3, FollowsFacts DEF Settings
  <2>3. x[p + 1].classes <= Len(cl2)
    BY <1>0, <1>1
  <2>4. x[p + 1].classes \in DOMAIN cl2
    BY <2>2, <2>3, <1>0
  <2> QED BY <2>4 DEF Ends
<1>4. Trail(wk2, cl2, x2)
  <2>1. x2[1] = Outermost
    <3>1. 1 \in 1..w
      BY <1>0
    <3> QED BY <3>1, <1>0 DEF Working, Trail
  <2>2. ASSUME NEW p \in 1..w - 1 PROVE Follows(wk2[p], x2[p], x2[p + 1], cl2)
    <3>1. Follows(wk[p], x[p], x[p + 1], cl)
      BY <1>1 DEF Working, Trail
    <3>2. Follows(wk[p], x[p], x[p + 1], cl2)
      <4>1. CASE wk[p] = "class"
        BY <4>1, <3>1, <1>3 DEF Follows, Fns
      <4>2. CASE wk[p] # "class"
        BY <4>2, <3>1 DEF Follows
      <4> QED BY <4>1, <4>2
    <3> QED BY <3>2, <1>2
  <2>3. \A p, q \in DOMAIN x2 : p <= q => x2[p].top <= x2[q].top /\ x2[p].classes <= x2[q].classes
    BY <1>0 DEF Working, Trail
  <2>4. \A p \in DOMAIN x2 : x2[p].fns >= 1 /\ x2[p].base <= x2[p].top /\ (x2[p].fns > 1 => x2[p].base < x2[p].top)
    BY <1>0 DEF Working, Trail
  <2>5. Len(x2) = Len(wk2) + 1
    BY <1>0
  <2> QED BY <2>1, <2>2, <2>3, <2>4, <2>5, <1>0 DEF Trail
<1>5. Ordered(wk2, x2)
  <2> SUFFICES ASSUME NEW p \in 1..w - 1
               PROVE  /\ wk2[p] \notin {"class", "enum"} => x2[p + 1].temps = 0
                      /\ wk2[p] = "var" /\ p < w - 1 => wk2[p + 1] = "lambda"
                      /\ wk2[p] = "params" => p > 1 /\ wk2[p - 1] \in Fns
    BY <1>0 DEF Ordered
  <2>1. wk[p] \notin {"class", "enum"} => x[p + 1].temps = 0
    BY <1>1 DEF Working, Ordered
  <2>2. wk[p] = "var" /\ p < w => wk[p + 1] = "lambda"
    BY <1>1 DEF Working, Ordered
  <2>3. wk[p] = "params" => p > 1 /\ wk[p - 1] \in Fns
    BY <1>1 DEF Working, Ordered
  <2>4. p < w - 1 => p + 1 \in 1..w - 1 /\ p < w
    BY <1>0
  <2>5. p > 1 => p - 1 \in 1..w - 1
    BY <1>0
  <2>6. wk2[p] = "var" /\ p < w - 1 => wk2[p + 1] = "lambda"
    BY <2>2, <2>4, <1>2
  <2>7. wk2[p] = "params" => p > 1 /\ wk2[p - 1] \in Fns
    BY <2>3, <2>5, <1>2
  <2> QED BY <2>1, <2>6, <2>7, <1>2
<1>6. Superseded(wk2, cl2, x2, sc2)
  <2> SUFFICES ASSUME NEW p \in 1..w - 1
               PROVE  /\ wk2[p] \in Fns \cup {"block"} => ~HasSuper(sc2, x2[p + 1].top)
                      /\ wk2[p] = "class" /\ cl2[x2[p + 1].classes] => HasSuper(sc2, x2[p + 1].top)
    BY <1>0 DEF Superseded
  <2>1. x[p + 1].top >= 1 => (HasSuper(sc2, x[p + 1].top) <=> HasSuper(sc, x[p + 1].top))
    <3>1. x[p + 1].top \in Nat
      BY <1>2 DEF Settings
    <3>2. x[p + 1].top <= Len(sc2)
      BY <1>0, <1>1
    <3>3. x[p + 1].top >= 1 => x[p + 1].top \in 1..Len(sc2)
      BY <3>1, <3>2, <1>0
    <3> QED BY <3>3 DEF Ends, SameSupers
  <2>3. wk[p] \in Fns \cup {"block"} => ~HasSuper(sc, x[p + 1].top) /\ x[p + 1].top >= 1
    BY <1>1, DeepFacts DEF Working, Superseded
  <2>4. wk[p] = "class" /\ cl2[x[p + 1].classes] => HasSuper(sc, x[p + 1].top) /\ x[p + 1].top >= 1
    <3>1. wk[p] = "class" /\ cl[x[p + 1].classes] => HasSuper(sc, x[p + 1].top) /\ x[p + 1].top >= 1
      BY <1>1, DeepFacts DEF Working, Superseded
    <3> QED BY <3>1, <1>3
  <2> HIDE DEF Fns, HasSuper
  <2> QED BY <2>1, <2>3, <2>4, <1>2
<1>7. Counted(wk2, x2)
  <2> SUFFICES ASSUME NEW p \in 1..w PROVE x2[p].temps = TypesBefore(wk2, p)
    BY <1>0 DEF Counted
  <2>1. p \in Nat /\ \A i \in 1..p - 1 : i \in 1..w - 1
    BY <1>0
  <2>2. TypesIn(wk2, p) = TypesIn(wk, p)
    BY <2>1, <1>2, TypesAgain
  <2>3. TypesBefore(wk2, p) = TypesBefore(wk, p)
    BY <2>1, <2>2, TypesInFacts
  <2>4. x[p].temps = TypesBefore(wk, p)
    BY <1>0 DEF Working, Counted
  <2> QED BY <2>3, <2>4, <1>0
<1> QED BY <1>4, <1>5, <1>6, <1>7 DEF wk2, x2

\* What held of the function in which the construct stood.
LEMMA EndingFns ==
  ASSUME NEW wk, NEW cl, NEW x, NEW at, NEW n, NEW sc, Working(wk, cl, x, at, n, sc), Len(wk) >= 1
  PROVE  /\ wk[Len(wk)] \notin Fns => x[Len(wk)].fns = n /\ \A k \in 1..n - 1 : at[k] \in 1..Len(wk) - 1
         /\ wk[Len(wk)] \in Fns => /\ n > 1 /\ at[n - 1] = Len(wk) /\ x[Len(wk)].fns = n - 1
                                   /\ \A k \in 1..n - 2 : at[k] \in 1..Len(wk) - 1
<1> DEFINE w == Len(wk)
<1>0. /\ w \in Nat /\ w >= 1 /\ Len(x) = w + 1 /\ DOMAIN x = 1..w + 1 /\ n \in Nat /\ n >= 1
      /\ w \in 1..w + 1 /\ w + 1 \in 1..w + 1 /\ w \in 1..w
  BY WorkFacts
<1>1. x[w] \in Settings /\ x[w + 1] \in Settings /\ wk[w] \in Forms /\ x[w].fns \in Nat
  BY <1>0, WorkFacts
<1>2. Follows(wk[w], x[w], x[w + 1], cl)
  BY <1>0 DEF Working, Trail
<1>3. x[w + 1].fns = n
  BY <1>0 DEF Working, Ending
<1>4. n = IF wk[w] \in Fns THEN x[w].fns + 1 ELSE x[w].fns
  BY <1>1, <1>2, <1>3, FollowsFacts
<1>5. x[w].fns >= 1
  BY <1>0 DEF Working, Trail
<1>6. \A k \in 1..n - 1 : at[k] \in 1..w /\ wk[at[k]] \in Fns /\ x[at[k]].fns = k
  <2>1. \A k \in 1..n - 1 : k \in 1..n
    BY <1>0
  <2> QED BY <2>1 DEF Working, Stands
<1>7. CASE wk[w] \notin Fns
  <2>1. \A k \in 1..n - 1 : at[k] # w
    BY <1>6, <1>7
  <2>2. \A k \in 1..n - 1 : at[k] \in 1..w - 1
    BY <2>1, <1>0, <1>6
  <2> QED BY <2>2, <1>4, <1>7
<1>8. CASE wk[w] \in Fns
  <2>1. x[w].fns = n - 1 /\ n > 1
    BY <1>0, <1>1, <1>4, <1>5, <1>8
  <2>2. n - 1 \in 1..n /\ n - 1 \in 1..n - 1
    BY <2>1, <1>0
  <2>3. ~(w > at[n - 1])
    <3>1. SUFFICES ASSUME w > at[n - 1] PROVE FALSE
      OBVIOUS
    <3>2. w \in DOMAIN x
      BY <1>0
    <3>3. x[w].fns > n - 1
      BY <3>1, <3>2, <2>2 DEF Working, Stands
    <3> QED BY <3>3, <2>1, <1>0
  <2>4. at[n - 1] \in 1..w
    BY <2>2, <1>6
  <2>5. at[n - 1] = w
    BY <2>3, <2>4, <1>0
  <2>6. \A k \in 1..n - 2 : at[k] \in 1..w - 1
    <3> SUFFICES ASSUME NEW k \in 1..n - 2 PROVE at[k] \in 1..w - 1
      OBVIOUS
    <3>1. k \in 1..n - 1 /\ k # n - 1
      BY <1>0
    <3>2. at[k] \in 1..w /\ x[at[k]].fns = k
      BY <3>1, <1>6
    <3>3. at[k] # w
      BY <3>1, <3>2, <2>1
    <3> QED BY <3>2, <3>3, <1>0
  <2> QED BY <2>1, <2>5, <2>6, <1>8
<1> QED BY <1>7, <1>8

\* The work list is well formed when a construct that is no function ends,
LEMMA WorkingEnds ==
  ASSUME NEW wk, NEW cl, NEW x, NEW at, NEW n, NEW sc, Working(wk, cl, x, at, n, sc),
         NEW cl2, NEW sc2, Ends(wk, cl, x, cl2, sc, sc2), wk[Len(wk)] \notin Fns
  PROVE  Working(Front(wk), cl2, Front(x), [at EXCEPT ![n] = Len(wk)], n, sc2)
<1> DEFINE w == Len(wk)
           wk2 == Front(wk)
           x2 == Front(x)
           at2 == [at EXCEPT ![n] = w]
<1>0. /\ wk2 \in Seq(Forms) /\ x2 \in Seq(Settings) /\ w \in Nat /\ w >= 1 /\ Len(x) = w + 1
      /\ Len(wk2) = w - 1 /\ (\A p \in 1..w - 1 : wk2[p] = wk[p] /\ wk[p] \in Forms)
      /\ Len(x2) = w /\ DOMAIN x2 = 1..w
      /\ (\A p \in 1..w : x2[p] = x[p] /\ p \in DOMAIN x /\ x[p] \in Settings)
      /\ cl2 \in Seq(BOOLEAN)
  BY EndFacts
<1>1. /\ n \in Nat /\ n >= 1 /\ at \in Seq(Nat) /\ Len(at) = n /\ DOMAIN at = 1..n
  BY WorkFacts
<1>2. at2 \in Seq(Nat) /\ Len(at2) = n /\ at2[n] = w /\ \A k \in 1..n - 1 : at2[k] = at[k]
  BY <1>0, <1>1
<1> HIDE DEF wk2, x2, at2
<1>3. x[w].fns = n /\ \A k \in 1..n - 1 : at[k] \in 1..w - 1
  BY <1>0, EndingFns
<1>4. \A k \in 1..n - 1 : wk2[at2[k]] \in Fns /\ at2[k] \in 1..w - 1 /\ at2[k] \in 1..w
  <2> SUFFICES ASSUME NEW k \in 1..n - 1 PROVE wk2[at2[k]] \in Fns /\ at2[k] \in 1..w - 1 /\ at2[k] \in 1..w
    OBVIOUS
  <2>1. wk[at[k]] \in Fns
    BY DEF Working, Stands
  <2> QED BY <2>1, <1>0, <1>2, <1>3
<1>5. \A k \in 1..n : x2[at2[k]].fns = k
  <2> SUFFICES ASSUME NEW k \in 1..n PROVE x2[at2[k]].fns = k
    OBVIOUS
  <2>1. CASE k = n
    BY <2>1, <1>0, <1>2, <1>3
  <2>2. CASE k # n
    <3>1. k \in 1..n - 1
      BY <2>2, <1>1
    <3>2. x[at[k]].fns = k
      BY DEF Working, Stands
    <3> QED BY <3>1, <3>2, <1>0, <1>2, <1>4
  <2> QED BY <2>1, <2>2
<1>6. ASSUME NEW k \in 1..n, NEW p \in 1..w, p > at2[k]
      PROVE  x2[p].fns > k
  <2>1. k # n
    BY <1>0, <1>2, <1>6
  <2>2. k \in 1..n - 1
    BY <2>1, <1>1
  <2>3. p > at[k] /\ p \in DOMAIN x
    BY <2>2, <1>0, <1>2, <1>6
  <2>4. x[p].fns > k
    BY <2>3 DEF Working, Stands
  <2> QED BY <2>4, <1>0
<1>7. Stands(wk2, x2, at2, n)
  BY <1>0, <1>1, <1>2, <1>4, <1>5, <1>6 DEF Stands
<1>8. Ending(x2, cl2, n, sc2)
  <2>1. w \in 1..w
    BY <1>0
  <2> QED BY <2>1, <1>0, <1>3 DEF Ending, Ends
<1>9. Trail(wk2, cl2, x2) /\ Ordered(wk2, x2) /\ Superseded(wk2, cl2, x2, sc2) /\ Counted(wk2, x2)
  BY TrailEnds DEF wk2, x2
<1>10. Working(wk2, cl2, x2, at2, n, sc2)
  BY <1>0, <1>2, <1>7, <1>8, <1>9, Zenon DEF Working
<1> QED BY <1>10 DEF wk2, x2, at2

\* and when a function ends.
LEMMA WorkingEndsFn ==
  ASSUME NEW wk, NEW cl, NEW x, NEW at, NEW n, NEW sc, Working(wk, cl, x, at, n, sc),
         NEW cl2, NEW sc2, Ends(wk, cl, x, cl2, sc, sc2), wk[Len(wk)] \in Fns
  PROVE  Working(Front(wk), cl2, Front(x), Front(at), n - 1, sc2)
<1> DEFINE w == Len(wk)
           wk2 == Front(wk)
           x2 == Front(x)
           at2 == Front(at)
<1>0. /\ wk2 \in Seq(Forms) /\ x2 \in Seq(Settings) /\ w \in Nat /\ w >= 1 /\ Len(x) = w + 1
      /\ Len(wk2) = w - 1 /\ (\A p \in 1..w - 1 : wk2[p] = wk[p] /\ wk[p] \in Forms)
      /\ Len(x2) = w /\ DOMAIN x2 = 1..w
      /\ (\A p \in 1..w : x2[p] = x[p] /\ p \in DOMAIN x /\ x[p] \in Settings)
      /\ cl2 \in Seq(BOOLEAN)
  BY EndFacts
<1>1. /\ n \in Nat /\ n >= 1 /\ at \in Seq(Nat) /\ Len(at) = n /\ DOMAIN at = 1..n
  BY WorkFacts
<1>2. at2 \in Seq(Nat) /\ Len(at2) = n - 1 /\ \A k \in 1..n - 1 : at2[k] = at[k]
  BY <1>1, FrontFacts
<1> HIDE DEF wk2, x2, at2
<1>3. n > 1 /\ at[n - 1] = w /\ x[w].fns = n - 1 /\ \A k \in 1..n - 2 : at[k] \in 1..w - 1
  BY <1>0, EndingFns
<1>4. n - 1 \in 1..n - 1 /\ at2[n - 1] = w
  BY <1>1, <1>2, <1>3
<1>5. \A k \in 1..n - 2 : k \in 1..n - 1
  BY <1>1
<1>6. \A k \in 1..n - 2 : wk2[at2[k]] \in Fns /\ at2[k] \in 1..w - 1 /\ at2[k] \in 1..w
  <2> SUFFICES ASSUME NEW k \in 1..n - 2 PROVE wk2[at2[k]] \in Fns /\ at2[k] \in 1..w - 1 /\ at2[k] \in 1..w
    OBVIOUS
  <2>1. wk[at[k]] \in Fns
    BY <1>5 DEF Working, Stands
  <2>2. at2[k] = at[k] /\ at[k] \in 1..w - 1
    BY <1>2, <1>3, <1>5
  <2>3. wk2[at[k]] = wk[at[k]] /\ at[k] \in 1..w
    <3>1. \A p \in 1..w - 1 : p \in 1..w
      BY <1>0
    <3>2. \A p \in 1..w - 1 : wk2[p] = wk[p]
      BY <1>0
    <3> QED BY <2>2, <3>1, <3>2, Zenon
  <2> QED BY <2>1, <2>2, <2>3
<1>7. \A k \in 1..n - 1 : x2[at2[k]].fns = k
  <2> SUFFICES ASSUME NEW k \in 1..n - 1 PROVE x2[at2[k]].fns = k
    OBVIOUS
  <2>1. k \in 1..n
    BY <1>1
  <2>2. x[at[k]].fns = k
    BY <2>1 DEF Working, Stands
  <2>3. at2[k] = at[k] /\ at2[k] \in 1..w
    <3>1. CASE k = n - 1
      BY <3>1, <1>0, <1>2, <1>3, <1>4
    <3>2. CASE k # n - 1
      <4>1. k \in 1..n - 2
        BY <3>2, <1>1
      <4> QED BY <4>1, <1>2, <1>6
    <3> QED BY <3>1, <3>2
  <2> QED BY <2>2, <2>3, <1>0
<1>8. ASSUME NEW k \in 1..n - 1, NEW p \in 1..w, p > at2[k]
      PROVE  x2[p].fns > k
  <2>1. k \in 1..n /\ p > at[k] /\ p \in DOMAIN x
    BY <1>0, <1>1, <1>2, <1>8
  <2>2. x[p].fns > k
    BY <2>1 DEF Working, Stands
  <2> QED BY <2>2, <1>0
<1>9. (n - 1) - 1 = n - 2 /\ n - 1 >= 1
  BY <1>1, <1>3
<1>10. Stands(wk2, x2, at2, n - 1)
  BY <1>0, <1>2, <1>4, <1>6, <1>7, <1>8, <1>9 DEF Stands
<1>11. Ending(x2, cl2, n - 1, sc2)
  <2>1. w \in 1..w
    BY <1>0
  <2> QED BY <2>1, <1>0, <1>3 DEF Ending, Ends
<1>12. Trail(wk2, cl2, x2) /\ Ordered(wk2, x2) /\ Superseded(wk2, cl2, x2, sc2) /\ Counted(wk2, x2)
  BY TrailEnds DEF wk2, x2
<1>13. Working(wk2, cl2, x2, at2, n - 1, sc2)
  BY <1>0, <1>2, <1>10, <1>11, <1>12, Zenon DEF Working
<1> QED BY <1>13 DEF wk2, x2, at2

-----------------------------------------------------------------------------
(* The frames of the compilers, from the constructs.                       *)
FrameAt(wk, x, p) ==
  [base |-> x[p].base, top |-> x[p].top, temps |-> x[p].temps, wait |-> WaitOf(wk, p, x[p])]

\* The frame of each function is read off the settings where it stands.
LEMMA FrameFacts ==
  ASSUME NEW wk, NEW cl, NEW x, NEW at, NEW n, NEW sc, Working(wk, cl, x, at, n, sc)
  PROVE  /\ \A p \in 1..Len(wk) + 1 : FrameAt(wk, x, p) \in Frames
         /\ FramesOf(wk, x, at) = [k \in 1..n |-> FrameAt(wk, x, at[k])]
         /\ FramesOf(wk, x, at) \in Seq(Frames) /\ Len(FramesOf(wk, x, at)) = n
         /\ FramesOf(wk, x, at)[n] = FrameAt(wk, x, Len(wk) + 1)
<1>1. /\ n \in Nat /\ n >= 1 /\ at \in Seq(Nat) /\ Len(at) = n /\ DOMAIN at = 1..n /\ at[n] = Len(wk) + 1
      /\ \A k \in 1..n : at[k] \in 1..Len(wk) + 1
  BY WorkFacts
<1>2. ASSUME NEW p \in 1..Len(wk) + 1 PROVE FrameAt(wk, x, p) \in Frames
  <2>1. x[p].top \in Nat /\ x[p].base \in Nat /\ x[p].temps \in Nat
    BY WorkFacts
  <2>2. WaitOf(wk, p, x[p]) \in {"no", "var", "fn"}
    BY DEF WaitOf
  <2> QED BY <2>1, <2>2 DEF FrameAt, Frames
<1>3. FramesOf(wk, x, at) = [k \in 1..n |-> FrameAt(wk, x, at[k])]
  BY <1>1 DEF FramesOf, FrameAt
<1>4. \A k \in 1..n : FrameAt(wk, x, at[k]) \in Frames
  BY <1>1, <1>2
<1>5. FramesOf(wk, x, at) \in Seq(Frames) /\ Len(FramesOf(wk, x, at)) = n
  BY <1>1, <1>3, <1>4
<1> QED BY <1>1, <1>2, <1>3, <1>5

\* What the settings before a construct depend on.
LEMMA FrameSame ==
  ASSUME NEW wk, NEW x, NEW wk2, NEW x2, NEW p, x2[p] = x[p],
         p > 1 => wk2[p - 1] = wk[p - 1],
         p <= Len(wk) <=> p <= Len(wk2),
         p <= Len(wk) => wk2[p] = wk[p]
  PROVE  FrameAt(wk2, x2, p) = FrameAt(wk, x, p)
<1>1. WaitOf(wk2, p, x2[p]) = WaitOf(wk, p, x[p])
  BY DEF WaitOf
<1> QED BY <1>1 DEF FrameAt

\* The frame in which the parser is.
LEMMA LastFrame ==
  ASSUME NEW wk, NEW cl, NEW x, NEW at, NEW n, NEW sc, Working(wk, cl, x, at, n, sc),
         NEW s, s = x[Len(wk) + 1], NEW g, g = FrameAt(wk, x, Len(wk) + 1)
  PROVE  /\ g \in Frames /\ g.base = s.base /\ g.top = s.top /\ g.temps = s.temps /\ s \in Settings
         /\ s.fns = n /\ s.classes = Len(cl) /\ s.top = Len(sc)
         /\ g.wait = IF s.top # s.base /\ Len(wk) >= 1 /\ wk[Len(wk)] = "var" THEN "var" ELSE "no"
<1> DEFINE w == Len(wk)
<1>0. w \in Nat /\ w + 1 \in 1..w + 1 /\ s \in Settings /\ Len(x) = w + 1
  BY WorkFacts
<1>1. g \in Frames /\ g.base = s.base /\ g.top = s.top /\ g.temps = s.temps /\ g.wait = WaitOf(wk, w + 1, s)
  BY <1>0, FrameFacts DEF FrameAt
<1>2. s.fns = n /\ s.classes = Len(cl) /\ s.top = Len(sc)
  BY <1>0 DEF Working, Ending
<1>3. WaitOf(wk, w + 1, s) = IF s.top # s.base /\ w >= 1 /\ wk[w] = "var" THEN "var" ELSE "no"
  <2>1. (w + 1 > 1 <=> w >= 1) /\ (w + 1) - 1 = w /\ ~(w + 1 <= w)
    BY <1>0
  <2> QED BY <2>1, Zenon DEF WaitOf
<1> QED BY <1>0, <1>1, <1>2, <1>3

Moved(f, n, g) == [f EXCEPT ![n] = g]

\* A construct that begins in a function changes the frame of that function,
LEMMA FramesBegin ==
  ASSUME NEW wk, NEW cl, NEW x, NEW at, NEW n, NEW sc, Working(wk, cl, x, at, n, sc),
         NEW form, NEW t, NEW cl2, NEW sc2, Begins(wk, cl, x, sc, form, t, cl2, sc2), form \notin Fns
  PROVE  FramesOf(Append(wk, form), Append(x, t), [at EXCEPT ![n] = Len(x) + 1])
           = Moved(FramesOf(wk, x, at), n, FrameAt(Append(wk, form), Append(x, t), Len(wk) + 2))
<1> DEFINE w == Len(wk)
           wk2 == Append(wk, form)
           x2 == Append(x, t)
           at2 == [at EXCEPT ![n] = Len(x) + 1]
           f == FramesOf(wk, x, at)
<1>0. /\ w \in Nat /\ Len(wk2) = w + 1 /\ wk2[w + 1] = form /\ \A p \in 1..w : wk2[p] = wk[p]
      /\ x2[w + 2] = t /\ (\A p \in 1..w + 1 : x2[p] = x[p]) /\ Len(x) = w + 1
  BY BeginFacts
<1>1. /\ n \in Nat /\ n >= 1 /\ at \in Seq(Nat) /\ Len(at) = n /\ DOMAIN at = 1..n
  BY WorkFacts
<1>2. /\ DOMAIN at2 = 1..n /\ at2[n] = w + 2 /\ \A k \in 1..n - 1 : at2[k] = at[k]
  BY <1>0, <1>1
<1>3. f = [k \in 1..n |-> FrameAt(wk, x, at[k])]
  BY FrameFacts
<1>4. FramesOf(wk2, x2, at2) = [k \in 1..n |-> FrameAt(wk2, x2, at2[k])]
  BY <1>2 DEF FramesOf, FrameAt
<1> HIDE DEF wk2, x2, at2, f
<1>5. \A k \in 1..n - 1 : FrameAt(wk2, x2, at2[k]) = FrameAt(wk, x, at[k])
  <2> SUFFICES ASSUME NEW k \in 1..n - 1 PROVE FrameAt(wk2, x2, at2[k]) = FrameAt(wk, x, at[k])
    OBVIOUS
  <2>1. at[k] \in 1..w
    BY DEF Working, Stands
  <2>2. PICK p \in 1..w : p = at[k]
    BY <2>1
  <2>3. x2[p] = x[p] /\ (p > 1 => wk2[p - 1] = wk[p - 1]) /\ p <= w /\ p <= w + 1 /\ wk2[p] = wk[p]
    BY <1>0, <2>2
  <2>4. FrameAt(wk2, x2, p) = FrameAt(wk, x, p)
    BY <2>3, <1>0, FrameSame
  <2> QED BY <2>2, <2>4, <1>2
<1>6. \A k \in 1..n : k # n => k \in 1..n - 1
  BY <1>1
<1>7. FramesOf(wk2, x2, at2) = [f EXCEPT ![n] = FrameAt(wk2, x2, w + 2)]
  BY <1>1, <1>2, <1>3, <1>4, <1>5, <1>6
<1> QED BY <1>7 DEF wk2, x2, at2, f, Moved

\* and a function that begins adds a frame to the one it stands in.
LEMMA FramesBeginFn ==
  ASSUME NEW wk, NEW cl, NEW x, NEW at, NEW n, NEW sc, Working(wk, cl, x, at, n, sc),
         NEW form, NEW t, NEW cl2, NEW sc2, Begins(wk, cl, x, sc, form, t, cl2, sc2), form \in Fns
  PROVE  FramesOf(Append(wk, form), Append(x, t), Append(at, Len(x) + 1))
           = Append([FramesOf(wk, x, at) EXCEPT ![n] = FrameAt(Append(wk, form), Append(x, t), Len(wk) + 1)],
                    FrameAt(Append(wk, form), Append(x, t), Len(wk) + 2))
<1> DEFINE w == Len(wk)
           wk2 == Append(wk, form)
           x2 == Append(x, t)
           at2 == Append(at, Len(x) + 1)
           f == FramesOf(wk, x, at)
           f1 == [f EXCEPT ![n] = FrameAt(wk2, x2, w + 1)]
           g == FrameAt(wk2, x2, w + 2)
<1>0. /\ w \in Nat /\ Len(wk2) = w + 1 /\ wk2[w + 1] = form /\ \A p \in 1..w : wk2[p] = wk[p]
      /\ x2[w + 2] = t /\ (\A p \in 1..w + 1 : x2[p] = x[p]) /\ Len(x) = w + 1
  BY BeginFacts
<1>1. /\ n \in Nat /\ n >= 1 /\ at \in Seq(Nat) /\ Len(at) = n /\ DOMAIN at = 1..n /\ at[n] = w + 1
  BY WorkFacts
<1>2. /\ DOMAIN at2 = 1..n + 1 /\ at2[n + 1] = w + 2 /\ \A k \in 1..n : at2[k] = at[k]
  BY <1>0, <1>1
<1>3. f = [k \in 1..n |-> FrameAt(wk, x, at[k])] /\ f \in Seq(Frames) /\ Len(f) = n
  BY FrameFacts
<1>w. Working(wk2, cl2, x2, at2, n + 1, sc2)
  BY WorkingBegins
<1>4. /\ FramesOf(wk2, x2, at2) = [k \in 1..n + 1 |-> FrameAt(wk2, x2, at2[k])]
      /\ FramesOf(wk2, x2, at2) \in Seq(Frames) /\ Len(FramesOf(wk2, x2, at2)) = n + 1
      /\ \A p \in 1..w + 2 : FrameAt(wk2, x2, p) \in Frames
  <2>1. Len(wk2) + 1 = w + 2
    BY <1>0
  <2> HIDE DEF wk2, x2, at2
  <2>2. /\ FramesOf(wk2, x2, at2) = [k \in 1..n + 1 |-> FrameAt(wk2, x2, at2[k])]
        /\ FramesOf(wk2, x2, at2) \in Seq(Frames) /\ Len(FramesOf(wk2, x2, at2)) = n + 1
        /\ \A p \in 1..Len(wk2) + 1 : FrameAt(wk2, x2, p) \in Frames
    BY <1>w, FrameFacts
  <2> QED BY <2>1, <2>2
<1> HIDE DEF wk2, x2, at2, f
<1>5. \A k \in 1..n - 1 : FrameAt(wk2, x2, at2[k]) = FrameAt(wk, x, at[k])
  <2> SUFFICES ASSUME NEW k \in 1..n - 1 PROVE FrameAt(wk2, x2, at2[k]) = FrameAt(wk, x, at[k])
    OBVIOUS
  <2>1. at[k] \in 1..w
    BY DEF Working, Stands
  <2>2. PICK p \in 1..w : p = at[k]
    BY <2>1
  <2>3. x2[p] = x[p] /\ (p > 1 => wk2[p - 1] = wk[p - 1]) /\ p <= w /\ p <= w + 1 /\ wk2[p] = wk[p]
    BY <1>0, <2>2
  <2>4. FrameAt(wk2, x2, p) = FrameAt(wk, x, p)
    BY <2>3, <1>0, FrameSame
  <2>5. k \in 1..n
    BY <1>1
  <2> QED BY <2>2, <2>4, <2>5, <1>2
<1>6. \A k \in 1..n : k # n => k \in 1..n - 1
  BY <1>1
<1>7. w + 1 \in 1..w + 2 /\ w + 2 \in 1..w + 2 /\ n \in 1..n
  BY <1>0, <1>1
<1>8. f1 \in Seq(Frames) /\ Len(f1) = n /\ f1[n] = FrameAt(wk2, x2, w + 1) /\ \A k \in 1..n - 1 : f1[k] = f[k]
  <2>1. FrameAt(wk2, x2, w + 1) \in Frames
    BY <1>4, <1>7
  <2> HIDE DEF FrameAt
  <2> QED BY <2>1, <1>1, <1>3
<1>9. g \in Frames
  BY <1>4, <1>7
<1> HIDE DEF f1, g
<1>10. /\ Append(f1, g) \in Seq(Frames) /\ Len(Append(f1, g)) = n + 1 /\ Append(f1, g)[n + 1] = g
       /\ \A k \in 1..n : Append(f1, g)[k] = f1[k]
  BY <1>8, <1>9, AppendFacts
<1>11. \A k \in 1..n + 1 : FramesOf(wk2, x2, at2)[k] = Append(f1, g)[k]
  <2> SUFFICES ASSUME NEW k \in 1..n + 1 PROVE FramesOf(wk2, x2, at2)[k] = Append(f1, g)[k]
    OBVIOUS
  <2>0. FramesOf(wk2, x2, at2)[k] = FrameAt(wk2, x2, at2[k])
    BY <1>4
  <2>1. CASE k = n + 1
    BY <2>0, <2>1, <1>2, <1>10 DEF g
  <2>2. CASE k = n
    <3>1. at2[k] = w + 1
      BY <2>2, <1>1, <1>2, <1>7
    <3> QED BY <3>1, <2>0, <2>2, <1>7, <1>8, <1>10
  <2>3. CASE k # n + 1 /\ k # n
    <3>1. k \in 1..n - 1 /\ k \in 1..n
      BY <2>3, <1>1
    <3>2. f[k] = FrameAt(wk, x, at[k])
      BY <3>1, <1>3
    <3> QED BY <3>1, <3>2, <2>0, <1>5, <1>8, <1>10
  <2> QED BY <2>1, <2>2, <2>3
<1>12. FramesOf(wk2, x2, at2) = Append(f1, g)
  BY <1>4, <1>10, <1>11, SeqEqual
<1> QED BY <1>12 DEF wk2, x2, at2, f, f1, g

\* A construct that ends gives its function the frame it had where the construct began,
LEMMA FramesEnd ==
  ASSUME NEW wk, NEW cl, NEW x, NEW at, NEW n, NEW sc, Working(wk, cl, x, at, n, sc),
         NEW cl2, NEW sc2, Ends(wk, cl, x, cl2, sc, sc2), wk[Len(wk)] \notin Fns
  PROVE  FramesOf(Front(wk), Front(x), [at EXCEPT ![n] = Len(wk)])
           = Moved(FramesOf(wk, x, at), n, FrameAt(Front(wk), Front(x), Len(wk)))
<1> DEFINE w == Len(wk)
           wk2 == Front(wk)
           x2 == Front(x)
           at2 == [at EXCEPT ![n] = w]
           f == FramesOf(wk, x, at)
<1>0. /\ w \in Nat /\ w >= 1 /\ Len(wk2) = w - 1 /\ (\A p \in 1..w - 1 : wk2[p] = wk[p])
      /\ \A p \in 1..w : x2[p] = x[p]
  BY EndFacts
<1>1. /\ n \in Nat /\ n >= 1 /\ at \in Seq(Nat) /\ Len(at) = n /\ DOMAIN at = 1..n
  BY WorkFacts
<1>2. /\ DOMAIN at2 = 1..n /\ at2[n] = w /\ \A k \in 1..n - 1 : at2[k] = at[k]
  BY <1>0, <1>1
<1>3. f = [k \in 1..n |-> FrameAt(wk, x, at[k])]
  BY FrameFacts
<1>4. FramesOf(wk2, x2, at2) = [k \in 1..n |-> FrameAt(wk2, x2, at2[k])]
  BY <1>2 DEF FramesOf, FrameAt
<1>5. \A k \in 1..n - 1 : at[k] \in 1..w - 1
  BY <1>0, EndingFns
<1> HIDE DEF wk2, x2, at2, f
<1>6. \A k \in 1..n - 1 : FrameAt(wk2, x2, at2[k]) = FrameAt(wk, x, at[k])
  <2> SUFFICES ASSUME NEW k \in 1..n - 1 PROVE FrameAt(wk2, x2, at2[k]) = FrameAt(wk, x, at[k])
    OBVIOUS
  <2>2. PICK p \in 1..w - 1 : p = at[k]
    BY <1>5
  <2>3. x2[p] = x[p] /\ (p > 1 => wk2[p - 1] = wk[p - 1]) /\ p <= w /\ p <= w - 1 /\ wk2[p] = wk[p]
    BY <1>0, <2>2
  <2>4. FrameAt(wk2, x2, p) = FrameAt(wk, x, p)
    BY <2>3, <1>0, FrameSame
  <2> QED BY <2>2, <2>4, <1>2
<1>7. \A k \in 1..n : k # n => k \in 1..n - 1
  BY <1>1
<1>8. FramesOf(wk2, x2, at2) = [f EXCEPT ![n] = FrameAt(wk2, x2, w)]
  BY <1>1, <1>2, <1>3, <1>4, <1>6, <1>7
<1> QED BY <1>8 DEF wk2, x2, at2, f, Moved

\* and a function that ends leaves the function around it where it was.
LEMMA FramesEndFn ==
  ASSUME NEW wk, NEW cl, NEW x, NEW at, NEW n, NEW sc, Working(wk, cl, x, at, n, sc),
         NEW cl2, NEW sc2, Ends(wk, cl, x, cl2, sc, sc2), wk[Len(wk)] \in Fns
  PROVE  /\ n > 1
         /\ FramesOf(Front(wk), Front(x), Front(at))
              = [Front(FramesOf(wk, x, at)) EXCEPT ![n - 1] = FrameAt(Front(wk), Front(x), Len(wk))]
         /\ FramesOf(wk, x, at)[n - 1] = FrameAt(wk, x, Len(wk))
<1> DEFINE w == Len(wk)
           wk2 == Front(wk)
           x2 == Front(x)
           at2 == Front(at)
           f == FramesOf(wk, x, at)
<1>0. /\ w \in Nat /\ w >= 1 /\ Len(wk2) = w - 1 /\ (\A p \in 1..w - 1 : wk2[p] = wk[p])
      /\ \A p \in 1..w : x2[p] = x[p]
  BY EndFacts
<1>1. /\ n \in Nat /\ n >= 1 /\ at \in Seq(Nat) /\ Len(at) = n /\ DOMAIN at = 1..n
  BY WorkFacts
<1>2. DOMAIN at2 = 1..n - 1 /\ \A k \in 1..n - 1 : at2[k] = at[k]
  BY <1>1, FrontFacts
<1>3. f = [k \in 1..n |-> FrameAt(wk, x, at[k])] /\ f \in Seq(Frames) /\ Len(f) = n
  BY FrameFacts
<1>4. FramesOf(wk2, x2, at2) = [k \in 1..n - 1 |-> FrameAt(wk2, x2, at2[k])]
  BY <1>2 DEF FramesOf, FrameAt
<1>5. n > 1 /\ at[n - 1] = w /\ \A k \in 1..n - 2 : at[k] \in 1..w - 1
  BY <1>0, EndingFns
<1>6. Len(Front(f)) = n - 1 /\ DOMAIN Front(f) = 1..n - 1 /\ (\A k \in 1..n - 1 : Front(f)[k] = f[k]) /\ Front(f) \in Seq(Frames)
  BY <1>1, <1>3, FrontFacts
<1>7. DOMAIN f = 1..n
  BY <1>3
<1> HIDE DEF wk2, x2, at2, f
<1>8. \A k \in 1..n - 2 : FrameAt(wk2, x2, at2[k]) = FrameAt(wk, x, at[k])
  <2> SUFFICES ASSUME NEW k \in 1..n - 2 PROVE FrameAt(wk2, x2, at2[k]) = FrameAt(wk, x, at[k])
    OBVIOUS
  <2>2. PICK p \in 1..w - 1 : p = at[k]
    BY <1>5
  <2>3. x2[p] = x[p] /\ (p > 1 => wk2[p - 1] = wk[p - 1]) /\ p <= w /\ p <= w - 1 /\ wk2[p] = wk[p]
    BY <1>0, <2>2
  <2>4. FrameAt(wk2, x2, p) = FrameAt(wk, x, p)
    BY <2>3, <1>0, FrameSame
  <2>5. k \in 1..n - 1
    BY <1>1
  <2> QED BY <2>2, <2>4, <2>5, <1>2
<1>9. \A k \in 1..n - 1 : k # n - 1 => k \in 1..n - 2
  BY <1>1
<1>10. n - 1 \in 1..n - 1 /\ n - 1 \in 1..n /\ \A k \in 1..n - 1 : k \in 1..n
  BY <1>1, <1>5
<1>11. \A k \in 1..n - 1 : f[k] = FrameAt(wk, x, at[k])
  BY <1>3, <1>10
<1> DEFINE ff == Front(f)
           gg == FrameAt(wk2, x2, w)
<1>12. /\ DOMAIN ff = 1..n - 1 /\ Len(ff) = n - 1 /\ \A k \in 1..n - 1 : ff[k] = f[k]
       /\ ff \in Seq(Frames)
  BY <1>6
<1> HIDE DEF ff
<1>13. ff = [k \in 1..n - 1 |-> FrameAt(wk, x, at[k])]
  <2>1. ff = [k \in 1..Len(ff) |-> ff[k]]
    BY <1>12, <1>1, <1>5
  <2> QED BY <2>1, <1>11, <1>12
<1>14. FramesOf(wk2, x2, at2) = [ff EXCEPT ![n - 1] = gg]
  <2>1. at2[n - 1] = w
    BY <1>2, <1>5, <1>10
  <2> HIDE DEF gg
  <2>2. \A k \in 1..n - 1 : k # n - 1 => FrameAt(wk2, x2, at2[k]) = FrameAt(wk, x, at[k])
    BY <1>8, <1>9
  <2>3. FrameAt(wk2, x2, at2[n - 1]) = gg
    BY <2>1 DEF gg
  <2> QED BY <2>2, <2>3, <1>4, <1>10, <1>13
<1>15. f[n - 1] = FrameAt(wk, x, w)
  BY <1>5, <1>10, <1>11
<1> QED BY <1>5, <1>14, <1>15 DEF wk2, x2, at2, f, ff, gg

-----------------------------------------------------------------------------
(* The invariant, for some settings x of the constructs and at of the       *)
(* functions.                                                              *)
\* A function that is being compiled has its name already.
Ready(c, fr) == Stacked(c, fr) /\ (fr.wait = "fn" => c.locals[Len(c.locals)].depth = c.scope_depth)

AllStacked(cs, f) == \A k \in DOMAIN cs : Ready(cs[k], f[k])

Sound(cs, cl, wk, sc, cp, dc, x, at) ==
  LET f == FramesOf(wk, x, at)
  IN  /\ Core(cs, sc, cp, dc, f) /\ Supers(cs, cl, sc) /\ AllStacked(cs, f)
      /\ Working(wk, cl, x, at, Len(cs), sc)

\* Where the parser is, in a sound state.
LEMMA Current ==
  ASSUME NEW cs, NEW cl, NEW wk, NEW sc, NEW cp, NEW dc, NEW x, NEW at, Sound(cs, cl, wk, sc, cp, dc, x, at),
         NEW n, n = Len(cs), NEW f, f = FramesOf(wk, x, at), NEW c, c = cs[n], NEW fr, fr = f[n]
  PROVE  /\ Core(cs, sc, cp, dc, f) /\ Supers(cs, cl, sc) /\ AllStacked(cs, f)
         /\ Working(wk, cl, x, at, n, sc)
         /\ n \in Nat /\ n >= 1 /\ c \in Compilers /\ fr \in Frames /\ Ready(c, fr) /\ Slots(c, n, fr, dc)
         /\ Stacked(c, fr)
         /\ fr = FrameAt(wk, x, Len(wk) + 1) /\ Len(c.locals) >= 1 /\ Len(c.locals) \in Nat
         /\ cs \in Seq(Compilers) /\ sc \in Seq(LexicalScopes) /\ f \in Seq(Frames) /\ Len(f) = n /\ dc \in Nat
         /\ Len(wk) \in Nat /\ Len(x) = Len(wk) + 1 /\ Len(wk) + 1 \in 1..Len(wk) + 1
<1>1. /\ Core(cs, sc, cp, dc, f) /\ Supers(cs, cl, sc) /\ AllStacked(cs, f)
      /\ Working(wk, cl, x, at, n, sc)
  BY DEF Sound
<1>2. /\ c \in Compilers /\ fr \in Frames /\ dc \in Nat /\ n \in Nat /\ n >= 1 /\ Slots(c, n, fr, dc)
      /\ sc \in Seq(LexicalScopes) /\ cs \in Seq(Compilers) /\ f \in Seq(Frames) /\ Len(f) = n
  BY <1>1, LastFacts
<1>3. Ready(c, fr) /\ Stacked(c, fr)
  <2>1. n \in DOMAIN cs
    BY <1>2
  <2> QED BY <2>1, <1>1 DEF AllStacked, Ready
<1>4. fr = FrameAt(wk, x, Len(wk) + 1)
  BY <1>1, FrameFacts
<1>5. Len(wk) \in Nat /\ Len(x) = Len(wk) + 1
  BY <1>1, WorkFacts
<1>6. Len(c.locals) >= 1 /\ Len(c.locals) \in Nat
  BY <1>2, SlotFacts, CompilerFacts
<1> QED BY <1>1, <1>2, <1>3, <1>4, <1>5, <1>6

At(n, c, fr, s) ==
  /\ fr.base = s.base /\ fr.top = s.top /\ fr.temps = s.temps /\ s \in Settings
  /\ s.base \in Nat /\ s.top \in Nat /\ s.temps \in Nat /\ s.fns = n /\ s.classes \in Nat
  /\ c.scope_depth \in Nat /\ s.base + c.scope_depth = s.top /\ (n > 1 => s.base < s.top)

\* The frame of the current function is that of the current settings.
LEMMA CurrentSettings ==
  ASSUME NEW cs, NEW cl, NEW wk, NEW sc, NEW cp, NEW dc, NEW x, NEW at, Sound(cs, cl, wk, sc, cp, dc, x, at),
         NEW n, n = Len(cs), NEW c, c = cs[n], NEW fr, fr = FramesOf(wk, x, at)[n], NEW s, s = x[Len(wk) + 1]
  PROVE  /\ At(n, c, fr, s) /\ s.classes = Len(cl) /\ s.top = Len(sc)
         /\ fr.wait = IF c.scope_depth > 0 /\ Len(wk) >= 1 /\ wk[Len(wk)] = "var" THEN "var" ELSE "no"
<1> DEFINE f == FramesOf(wk, x, at)
<1>1. Core(cs, sc, cp, dc, f) /\ Working(wk, cl, x, at, n, sc) /\ fr = FrameAt(wk, x, Len(wk) + 1) /\ fr = f[n]
  BY Current
<1> HIDE DEF f
<1>2. /\ fr.base = s.base /\ fr.top = s.top /\ fr.temps = s.temps /\ s \in Settings
      /\ s.fns = n /\ s.classes = Len(cl) /\ s.top = Len(sc)
      /\ fr.wait = IF s.top # s.base /\ Len(wk) >= 1 /\ wk[Len(wk)] = "var" THEN "var" ELSE "no"
  BY <1>1, LastFrame
<1>3. /\ fr.base \in Nat /\ fr.top \in Nat /\ c.scope_depth \in Nat /\ fr.base + c.scope_depth = fr.top
      /\ (n > 1 => fr.base < fr.top)
  BY <1>1, LastFacts
<1>4. s.temps \in Nat /\ s.classes \in Nat
  BY <1>2 DEF Settings
<1>5. At(n, c, fr, s)
  BY <1>2, <1>3, <1>4 DEF At
<1>6. s.top # s.base <=> c.scope_depth > 0
  BY <1>2, <1>3
<1> QED BY <1>2, <1>5, <1>6

\* One compiler and its frame change.
LEMMA StackedLast ==
  ASSUME NEW cs \in Seq(Compilers), NEW f \in Seq(Frames), NEW n, n = Len(cs), Len(f) = n, n >= 1, AllStacked(cs, f),
         NEW d, NEW g, Ready(d, g)
  PROVE  AllStacked([cs EXCEPT ![n] = d], [f EXCEPT ![n] = g])
<1> SUFFICES ASSUME NEW k \in DOMAIN cs PROVE Ready([cs EXCEPT ![n] = d][k], [f EXCEPT ![n] = g][k])
  BY DEF AllStacked
<1>1. k \in 1..n /\ DOMAIN cs = 1..n /\ DOMAIN f = 1..n
  OBVIOUS
<1>2. CASE k = n
  BY <1>1, <1>2
<1>3. CASE k # n
  BY <1>1, <1>3 DEF AllStacked
<1> QED BY <1>2, <1>3

\* The stacks when a function begins.
LEMMA StackedAppend ==
  ASSUME NEW cs \in Seq(Compilers), NEW f \in Seq(Frames), Len(f) = Len(cs), AllStacked(cs, f),
         NEW d \in Compilers, NEW g \in Frames, Ready(d, g)
  PROVE  AllStacked(Append(cs, d), Append(f, g))
<1> DEFINE n == Len(cs)
           cs2 == Append(cs, d)
           f2 == Append(f, g)
<1>1. /\ n \in Nat /\ DOMAIN cs = 1..n /\ DOMAIN cs2 = 1..n + 1 /\ cs2[n + 1] = d /\ f2[n + 1] = g
      /\ \A k \in 1..n : cs2[k] = cs[k] /\ f2[k] = f[k]
  <2>1. /\ DOMAIN cs2 = 1..n + 1 /\ cs2[n + 1] = d /\ \A k \in 1..n : cs2[k] = cs[k]
    BY AppendFacts
  <2>2. f2[n + 1] = g /\ \A k \in 1..n : f2[k] = f[k]
    <3>1. /\ f2[Len(f) + 1] = g /\ \A k \in 1..Len(f) : f2[k] = f[k]
      BY AppendFacts
    <3> QED BY <3>1
  <2> QED BY <2>1, <2>2
<1> HIDE DEF cs2, f2
<1>2. SUFFICES ASSUME NEW k \in 1..n + 1 PROVE Ready(cs2[k], f2[k])
  <2>1. AllStacked(cs2, f2)
    BY <1>1, <1>2 DEF AllStacked
  <2> QED BY <2>1 DEF cs2, f2
<1>3. CASE k = n + 1
  BY <1>1, <1>3
<1>4. CASE k # n + 1
  <2>1. k \in 1..n
    BY <1>1, <1>4
  <2>2. Ready(cs[k], f[k])
    BY <1>1, <2>1 DEF AllStacked
  <2> QED BY <2>1, <2>2, <1>1
<1> QED BY <1>3, <1>4

\* The stacks when a function ends.
LEMMA StackedFront ==
  ASSUME NEW cs \in Seq(Compilers), NEW f \in Seq(Frames), Len(f) = Len(cs), Len(cs) >= 1, AllStacked(cs, f)
  PROVE  AllStacked(Front(cs), Front(f))
<1> DEFINE n == Len(cs)
<1>1. n \in Nat /\ DOMAIN cs = 1..n /\ \A k \in 1..n - 1 : k \in 1..n
  OBVIOUS
<1>2. DOMAIN Front(cs) = 1..n - 1 /\ \A k \in 1..n - 1 : Front(cs)[k] = cs[k]
  BY FrontFacts
<1>3. \A k \in 1..n - 1 : Front(f)[k] = f[k]
  <2>1. \A k \in 1..Len(f) - 1 : Front(f)[k] = f[k]
    BY FrontFacts
  <2> QED BY <2>1
<1> QED BY <1>1, <1>2, <1>3 DEF AllStacked

-----------------------------------------------------------------------------
(* No construct begins or ends.                                            *)
LEMMA SoundSame ==
  ASSUME NEW cs, NEW cl, NEW wk, NEW sc, NEW cp, NEW dc, NEW x, NEW at, Sound(cs, cl, wk, sc, cp, dc, x, at),
         NEW cs2, NEW sc2, NEW cp2, NEW dc2, Len(cs2) = Len(cs), Len(sc2) = Len(sc), SameSupers(sc, sc2, Len(sc)),
         NEW f, f = FramesOf(wk, x, at), Core(cs2, sc2, cp2, dc2, f), Supers(cs2, cl, sc2), AllStacked(cs2, f)
  PROVE  Sound(cs2, cl, wk, sc2, cp2, dc2, x, at)
<1> DEFINE n == Len(cs)
<1>1. Working(wk, cl, x, at, n, sc)
  BY DEF Sound
<1>2. Len(sc) \in Nat
  BY Current
<1>3. Superseded(wk, cl, x, sc2)
  <2> SUFFICES ASSUME NEW p \in 1..Len(wk)
               PROVE  /\ wk[p] \in Fns \cup {"block"} => ~HasSuper(sc2, x[p + 1].top)
                      /\ wk[p] = "class" /\ cl[x[p + 1].classes] => HasSuper(sc2, x[p + 1].top)
    BY DEF Superseded
  <2>1. p + 1 \in 1..Len(wk) + 1
    BY <1>1, WorkFacts
  <2>2. x[p + 1].top \in Nat /\ x[p + 1].top <= Len(sc)
    BY <2>1, <1>1, WorkFacts, ClassFacts
  <2>3. x[p + 1].top >= 1 => (HasSuper(sc2, x[p + 1].top) <=> HasSuper(sc, x[p + 1].top))
    <3>1. x[p + 1].top >= 1 => x[p + 1].top \in 1..Len(sc)
      BY <2>2, <1>2
    <3> QED BY <3>1 DEF SameSupers
  <2>4. wk[p] \in Fns \cup {"block"} => ~HasSuper(sc, x[p + 1].top) /\ x[p + 1].top >= 1
    BY <1>1, DeepFacts DEF Working, Superseded
  <2>5. wk[p] = "class" /\ cl[x[p + 1].classes] => HasSuper(sc, x[p + 1].top) /\ x[p + 1].top >= 1
    BY <1>1, DeepFacts DEF Working, Superseded
  <2> HIDE DEF Fns, HasSuper
  <2> QED BY <2>3, <2>4, <2>5
<1>4. Ending(x, cl, n, sc2)
  BY <1>1 DEF Working, Ending
<1>5. Working(wk, cl, x, at, n, sc2)
  BY <1>1, <1>3, <1>4, Zenon DEF Working
<1> QED BY <1>5 DEF Sound

-----------------------------------------------------------------------------
(* A construct begins in the function.                                     *)
LEMMA BeginFrame ==
  ASSUME NEW wk, NEW cl, NEW x, NEW at, NEW n, NEW sc, Working(wk, cl, x, at, n, sc),
         NEW form, NEW t, NEW cl2, NEW sc2, Begins(wk, cl, x, sc, form, t, cl2, sc2), form \notin Fns,
         NEW g, g = FrameAt(Append(wk, form), Append(x, t), Len(wk) + 2)
  PROVE  /\ g \in Frames /\ g.base = t.base /\ g.top = t.top /\ g.temps = t.temps
         /\ g.wait = IF t.top # t.base /\ form = "var" THEN "var" ELSE "no"
<1> DEFINE w == Len(wk)
           wk2 == Append(wk, form)
           x2 == Append(x, t)
           at2 == [at EXCEPT ![n] = Len(x) + 1]
<1>0. w \in Nat /\ Len(wk2) = w + 1 /\ wk2[w + 1] = form /\ x2[w + 2] = t
  BY BeginFacts
<1>1. Working(wk2, cl2, x2, at2, n, sc2)
  BY WorkingBegins
<1> HIDE DEF wk2, x2, at2
<1>2. Len(wk2) + 1 = w + 2 /\ Len(wk2) >= 1 /\ wk2[Len(wk2)] = form /\ g = FrameAt(wk2, x2, Len(wk2) + 1)
  BY <1>0 DEF wk2, x2
<1>3. t = x2[Len(wk2) + 1]
  BY <1>0, <1>2
<1>4. /\ g \in Frames /\ g.base = t.base /\ g.top = t.top /\ g.temps = t.temps
      /\ g.wait = IF t.top # t.base /\ Len(wk2) >= 1 /\ wk2[Len(wk2)] = "var" THEN "var" ELSE "no"
  BY <1>1, <1>2, <1>3, LastFrame
<1> QED BY <1>2, <1>4

\* The state is sound where a construct that is no function begins, if its parts are.
LEMMA SoundBegin ==
  ASSUME NEW cs, NEW cl, NEW wk, NEW sc, NEW cp, NEW dc, NEW x, NEW at, Sound(cs, cl, wk, sc, cp, dc, x, at),
         NEW form, NEW t, NEW cl2, NEW sc2, Begins(wk, cl, x, sc, form, t, cl2, sc2), form \notin Fns,
         NEW n, n = Len(cs), NEW g, g = FrameAt(Append(wk, form), Append(x, t), Len(wk) + 2),
         NEW f2, f2 = [FramesOf(wk, x, at) EXCEPT ![n] = g],
         NEW cs2, NEW cp2, NEW dc2, Len(cs2) = n,
         Core(cs2, sc2, cp2, dc2, f2), Supers(cs2, cl2, sc2), AllStacked(cs2, f2)
  PROVE  Sound(cs2, cl2, Append(wk, form), sc2, cp2, dc2, Append(x, t), [at EXCEPT ![n] = Len(x) + 1])
<1> DEFINE wk2 == Append(wk, form)
           x2 == Append(x, t)
           at2 == [at EXCEPT ![n] = Len(x) + 1]
<1>1. Working(wk, cl, x, at, n, sc)
  BY DEF Sound
<1>2. Working(wk2, cl2, x2, at2, n, sc2)
  BY <1>1, WorkingBegins
<1>3. f2 = FramesOf(wk2, x2, at2)
  <2>1. FramesOf(wk2, x2, at2) = Moved(FramesOf(wk, x, at), n, FrameAt(wk2, x2, Len(wk) + 2))
    BY <1>1, FramesBegin
  <2> QED BY <2>1, Zenon DEF Moved
<1> HIDE DEF wk2, x2, at2
<1>4. Sound(cs2, cl2, wk2, sc2, cp2, dc2, x2, at2)
  BY <1>2, <1>3 DEF Sound
<1> QED BY <1>4 DEF wk2, x2, at2

-----------------------------------------------------------------------------
(* A function begins.                                                      *)
LEMMA BeginFnFrames ==
  ASSUME NEW wk, NEW cl, NEW x, NEW at, NEW n, NEW sc, Working(wk, cl, x, at, n, sc),
         NEW form, NEW t, NEW cl2, NEW sc2, Begins(wk, cl, x, sc, form, t, cl2, sc2), form \in Fns,
         NEW s, s = x[Len(wk) + 1],
         NEW g, g = FrameAt(Append(wk, form), Append(x, t), Len(wk) + 1),
         NEW h, h = FrameAt(Append(wk, form), Append(x, t), Len(wk) + 2)
  PROVE  /\ g \in Frames /\ g.base = s.base /\ g.top = s.top /\ g.temps = s.temps
         /\ g.wait = IF s.top = s.base THEN "no"
                     ELSE IF Len(wk) >= 1 /\ wk[Len(wk)] = "var" THEN "var" ELSE IF form = "fn" THEN "fn" ELSE "no"
         /\ h \in Frames /\ h.base = t.base /\ h.top = t.top /\ h.temps = t.temps /\ h.wait = "no"
<1> DEFINE w == Len(wk)
           wk2 == Append(wk, form)
           x2 == Append(x, t)
           at2 == Append(at, Len(x) + 1)
<1>0. /\ w \in Nat /\ Len(wk2) = w + 1 /\ wk2[w + 1] = form /\ x2[w + 2] = t
      /\ \A p \in 1..w : wk2[p] = wk[p]
      /\ \A p \in 1..w + 1 : x2[p] = x[p]
  BY BeginFacts
<1>1. Working(wk2, cl2, x2, at2, n + 1, sc2)
  BY WorkingBegins
<1> HIDE DEF wk2, x2, at2
<1>2. Len(wk2) + 1 = w + 2 /\ Len(wk2) >= 1 /\ wk2[Len(wk2)] = form /\ h = FrameAt(wk2, x2, Len(wk2) + 1)
  BY <1>0 DEF wk2, x2
<1>3. t = x2[Len(wk2) + 1]
  BY <1>0, <1>2
<1>4. /\ h \in Frames /\ h.base = t.base /\ h.top = t.top /\ h.temps = t.temps
      /\ h.wait = IF t.top # t.base /\ Len(wk2) >= 1 /\ wk2[Len(wk2)] = "var" THEN "var" ELSE "no"
  BY <1>1, <1>2, <1>3, LastFrame
<1>5. form # "var"
  BY DEF Fns
<1>6. g = FrameAt(wk2, x2, w + 1) /\ x2[w + 1] = s
  <2>1. w + 1 \in 1..w + 1
    BY <1>0
  <2> QED BY <2>1, <1>0 DEF wk2, x2
<1>7. g \in Frames
  <2>1. w + 1 \in 1..Len(wk2) + 1
    BY <1>0
  <2> QED BY <2>1, <1>1, <1>6, FrameFacts
<1>8. g.base = s.base /\ g.top = s.top /\ g.temps = s.temps /\ g.wait = WaitOf(wk2, w + 1, s)
  <2>1. g = [base |-> s.base, top |-> s.top, temps |-> s.temps, wait |-> WaitOf(wk2, w + 1, s)]
    BY <1>6, Zenon DEF FrameAt
  <2> HIDE DEF w
  <2> QED BY <2>1
<1>9. WaitOf(wk2, w + 1, s) = IF s.top = s.base THEN "no"
                              ELSE IF w >= 1 /\ wk[w] = "var" THEN "var" ELSE IF form = "fn" THEN "fn" ELSE "no"
  <2>1. (w + 1 > 1 <=> w >= 1) /\ (w + 1) - 1 = w /\ w + 1 <= Len(wk2)
    BY <1>0
  <2>2. w >= 1 => wk2[w] = wk[w]
    BY <1>0
  <2> QED BY <2>1, <2>2, <1>0, Zenon DEF WaitOf
<1> QED BY <1>2, <1>4, <1>5, <1>7, <1>8, <1>9

\* The same where a function begins,
LEMMA SoundBeginFn ==
  ASSUME NEW cs, NEW cl, NEW wk, NEW sc, NEW cp, NEW dc, NEW x, NEW at, Sound(cs, cl, wk, sc, cp, dc, x, at),
         NEW form, NEW t, NEW cl2, NEW sc2, Begins(wk, cl, x, sc, form, t, cl2, sc2), form \in Fns,
         NEW n, n = Len(cs), NEW g, g = FrameAt(Append(wk, form), Append(x, t), Len(wk) + 1),
         NEW h, h = FrameAt(Append(wk, form), Append(x, t), Len(wk) + 2),
         NEW f2, f2 = Append([FramesOf(wk, x, at) EXCEPT ![n] = g], h),
         NEW cs2, NEW cp2, NEW dc2, Len(cs2) = n + 1,
         Core(cs2, sc2, cp2, dc2, f2), Supers(cs2, cl2, sc2), AllStacked(cs2, f2)
  PROVE  Sound(cs2, cl2, Append(wk, form), sc2, cp2, dc2, Append(x, t), Append(at, Len(x) + 1))
<1> DEFINE wk2 == Append(wk, form)
           x2 == Append(x, t)
           at2 == Append(at, Len(x) + 1)
<1>1. Working(wk, cl, x, at, n, sc)
  BY DEF Sound
<1>2. Working(wk2, cl2, x2, at2, n + 1, sc2)
  BY <1>1, WorkingBegins
<1>3. f2 = FramesOf(wk2, x2, at2)
  BY <1>1, FramesBeginFn
<1> HIDE DEF wk2, x2, at2
<1>4. Sound(cs2, cl2, wk2, sc2, cp2, dc2, x2, at2)
  BY <1>2, <1>3 DEF Sound
<1> QED BY <1>4 DEF wk2, x2, at2

-----------------------------------------------------------------------------
(* A construct ends.                                                       *)
LEMMA EndFrame ==
  ASSUME NEW wk, NEW cl, NEW x, NEW at, NEW n, NEW sc, Working(wk, cl, x, at, n, sc),
         NEW cl2, NEW sc2, Ends(wk, cl, x, cl2, sc, sc2),
         NEW s, s = x[Len(wk)], NEW g, g = FrameAt(Front(wk), Front(x), Len(wk))
  PROVE  /\ g \in Frames /\ g.base = s.base /\ g.top = s.top /\ g.temps = s.temps /\ s \in Settings
         /\ s.top = Len(sc2) /\ s.classes = Len(cl2)
         /\ Follows(wk[Len(wk)], s, x[Len(wk) + 1], cl) /\ wk[Len(wk)] \in Forms
         /\ g.wait = IF s.top # s.base /\ Len(wk) >= 2 /\ wk[Len(wk) - 1] = "var" THEN "var" ELSE "no"
<1> DEFINE w == Len(wk)
           wk2 == Front(wk)
           x2 == Front(x)
<1>0. /\ w \in Nat /\ w >= 1 /\ Len(wk2) = w - 1 /\ (\A p \in 1..w - 1 : wk2[p] = wk[p])
      /\ \A p \in 1..w : x2[p] = x[p]
  BY EndFacts
<1>1. w \in 1..w
  BY <1>0
<1>2. \E at2, m : Working(wk2, cl2, x2, at2, m, sc2)
  <2>1. CASE wk[w] \in Fns
    BY <2>1, WorkingEndsFn
  <2>2. CASE wk[w] \notin Fns
    BY <2>2, WorkingEnds
  <2> QED BY <2>1, <2>2
<1>3. PICK at2, m : Working(wk2, cl2, x2, at2, m, sc2)
  BY <1>2
<1> HIDE DEF wk2, x2
<1>4. Len(wk2) + 1 = w /\ g = FrameAt(wk2, x2, Len(wk2) + 1) /\ s = x2[Len(wk2) + 1]
  BY <1>0, <1>1 DEF wk2, x2
<1>5. /\ g \in Frames /\ g.base = s.base /\ g.top = s.top /\ g.temps = s.temps /\ s \in Settings
      /\ s.classes = Len(cl2) /\ s.top = Len(sc2)
      /\ g.wait = IF s.top # s.base /\ Len(wk2) >= 1 /\ wk2[Len(wk2)] = "var" THEN "var" ELSE "no"
  BY <1>3, <1>4, LastFrame
<1>6. (Len(wk2) >= 1 <=> w >= 2) /\ (w >= 2 => wk2[Len(wk2)] = wk[w - 1])
  BY <1>0
<1>7. Follows(wk[w], x[w], x[w + 1], cl) /\ wk[w] \in Forms
  BY <1>1, WorkFacts DEF Working, Trail
<1> QED BY <1>5, <1>6, <1>7

\* where a construct that is no function ends,
LEMMA SoundEnd ==
  ASSUME NEW cs, NEW cl, NEW wk, NEW sc, NEW cp, NEW dc, NEW x, NEW at, Sound(cs, cl, wk, sc, cp, dc, x, at),
         NEW cl2, NEW sc2, Ends(wk, cl, x, cl2, sc, sc2), wk[Len(wk)] \notin Fns,
         NEW n, n = Len(cs), NEW g, g = FrameAt(Front(wk), Front(x), Len(wk)),
         NEW f2, f2 = [FramesOf(wk, x, at) EXCEPT ![n] = g],
         NEW cs2, NEW cp2, NEW dc2, Len(cs2) = n,
         Core(cs2, sc2, cp2, dc2, f2), Supers(cs2, cl2, sc2), AllStacked(cs2, f2)
  PROVE  Sound(cs2, cl2, Front(wk), sc2, cp2, dc2, Front(x), [at EXCEPT ![n] = Len(wk)])
<1> DEFINE wk2 == Front(wk)
           x2 == Front(x)
           at2 == [at EXCEPT ![n] = Len(wk)]
<1>1. Working(wk, cl, x, at, n, sc)
  BY DEF Sound
<1>2. Working(wk2, cl2, x2, at2, n, sc2)
  BY <1>1, WorkingEnds
<1>3. f2 = FramesOf(wk2, x2, at2)
  <2>1. FramesOf(wk2, x2, at2) = Moved(FramesOf(wk, x, at), n, FrameAt(wk2, x2, Len(wk)))
    BY <1>1, FramesEnd
  <2> QED BY <2>1, Zenon DEF Moved
<1> HIDE DEF wk2, x2, at2
<1>4. Sound(cs2, cl2, wk2, sc2, cp2, dc2, x2, at2)
  BY <1>2, <1>3 DEF Sound
<1> QED BY <1>4 DEF wk2, x2, at2

\* and where a function ends.
LEMMA SoundEndFn ==
  ASSUME NEW cs, NEW cl, NEW wk, NEW sc, NEW cp, NEW dc, NEW x, NEW at, Sound(cs, cl, wk, sc, cp, dc, x, at),
         NEW cl2, NEW sc2, Ends(wk, cl, x, cl2, sc, sc2), wk[Len(wk)] \in Fns,
         NEW n, n = Len(cs), NEW g, g = FrameAt(Front(wk), Front(x), Len(wk)),
         NEW f2, f2 = [Front(FramesOf(wk, x, at)) EXCEPT ![n - 1] = g],
         NEW cs2, NEW cp2, NEW dc2, Len(cs2) = n - 1,
         Core(cs2, sc2, cp2, dc2, f2), Supers(cs2, cl2, sc2), AllStacked(cs2, f2)
  PROVE  Sound(cs2, cl2, Front(wk), sc2, cp2, dc2, Front(x), Front(at))
<1> DEFINE wk2 == Front(wk)
           x2 == Front(x)
           at2 == Front(at)
<1>1. Working(wk, cl, x, at, n, sc)
  BY DEF Sound
<1>2. Working(wk2, cl2, x2, at2, n - 1, sc2)
  BY <1>1, WorkingEndsFn
<1>3. f2 = FramesOf(wk2, x2, at2)
  BY <1>1, FramesEndFn
<1> HIDE DEF wk2, x2, at2
<1>4. Sound(cs2, cl2, wk2, sc2, cp2, dc2, x2, at2)
  BY <1>2, <1>3 DEF Sound
<1> QED BY <1>4 DEF wk2, x2, at2

-----------------------------------------------------------------------------
(* What the helpers of the parser make of a compiler.                      *)

\* Opening and closing a scope, and a type on the stack.
LEMMA ScopeFacts ==
  ASSUME NEW c \in Compilers
  PROVE  /\ Deeper(c) \in Compilers /\ Deeper(c).locals = c.locals /\ Deeper(c).stack = c.stack
         /\ Deeper(c).upvalues = c.upvalues /\ Deeper(c).scope_depth = c.scope_depth + 1
         /\ WithTemporary(c) \in Compilers /\ WithTemporary(c).locals = c.locals
         /\ Pushed(c, WithTemporary(c), Temporary)
         /\ WithTemporary(c).upvalues = c.upvalues /\ WithTemporary(c).scope_depth = c.scope_depth
<1>1. c.scope_depth + 1 \in Nat /\ c.stack \in Seq(Ids \cup {Temporary})
  BY DEF Compilers
<1>2. Append(c.stack, Temporary) \in Seq(Ids \cup {Temporary})
  BY <1>1
<1> QED BY <1>1, <1>2 DEF Deeper, WithTemporary, Compilers, Pushed

\* A compiler out of one scope, its locals untouched.
LEMMA ShallowerFacts ==
  ASSUME NEW c \in Compilers, c.scope_depth > 0
  PROVE  /\ Shallower(c) \in Compilers /\ Shallower(c).locals = c.locals /\ Shallower(c).stack = c.stack
         /\ Shallower(c).upvalues = c.upvalues /\ Shallower(c).scope_depth = c.scope_depth - 1
<1>1. c.scope_depth - 1 \in Nat
  BY DEF Compilers
<1> QED BY <1>1 DEF Shallower, Compilers

\* A compiler without the type on its stack.
LEMMA WithoutFacts ==
  ASSUME NEW c \in Compilers, Len(c.stack) >= 1
  PROVE  /\ WithoutTemporary(c) \in Compilers /\ WithoutTemporary(c).locals = c.locals
         /\ WithoutTemporary(c).stack = SubSeq(c.stack, 1, Len(c.stack) - 1)
         /\ WithoutTemporary(c).upvalues = c.upvalues /\ WithoutTemporary(c).scope_depth = c.scope_depth
<1>1. c.stack \in Seq(Ids \cup {Temporary})
  BY DEF Compilers
<1>2. Front(c.stack) = SubSeq(c.stack, 1, Len(c.stack) - 1)
  BY DEF Front
<1>3. Front(c.stack) \in Seq(Ids \cup {Temporary})
  BY <1>1, FrontFacts
<1> QED BY <1>2, <1>3 DEF WithoutTemporary, Compilers

\* What differs only in what functions capture, or not even there.
Extended(c, d, name, dp, id) ==
  d \in Compilers /\ Added(c, d, name, dp, id) /\ d.upvalues = c.upvalues

\* add_local adds one local, not yet initialized.
LEMMA AddLocalFacts ==
  ASSUME NEW c \in Compilers, NEW name \in LocalNames, NEW id \in Ids
  PROVE  Extended(c, add_local(c, name, id), name, -1, id) /\ add_local(c, name, id).stack = c.stack
<1> DEFINE e == [name |-> name, depth |-> -1, is_captured |-> FALSE, id |-> id]
           d == add_local(c, name, id)
<1>1. e \in Locals
  BY DEF Locals
<1>2. c.locals \in Seq(Locals)
  BY CompilerFacts
<1>3. /\ Append(c.locals, e) \in Seq(Locals) /\ Len(Append(c.locals, e)) = Len(c.locals) + 1
      /\ Append(c.locals, e)[Len(c.locals) + 1] = e
      /\ \A k \in 1..Len(c.locals) : Append(c.locals, e)[k] = c.locals[k]
  BY <1>1, <1>2, AppendFacts
<1>4. d = [c EXCEPT !.locals = Append(c.locals, e)]
  BY DEF add_local, Compilers
<1>5. e.name = name /\ e.depth = -1 /\ e.is_captured = FALSE /\ e.id = id
  OBVIOUS
<1> HIDE DEF e, d
<1>6. d \in Compilers /\ d.locals = Append(c.locals, e) /\ d.upvalues = c.upvalues /\ d.stack = c.stack
      /\ d.scope_depth = c.scope_depth
  BY <1>3, <1>4 DEF Compilers
<1>7. Added(c, d, name, -1, id)
  <2>1. DOMAIN c.locals = 1..Len(c.locals)
    BY CompilerFacts
  <2> QED BY <2>1, <1>3, <1>5, <1>6 DEF Added
<1> QED BY <1>6, <1>7 DEF Extended, d

\* The last local gets the depth of its scope.
LEMMA MarkFacts ==
  ASSUME NEW c \in Compilers, c.scope_depth > 0, Len(c.locals) >= 1
  PROVE  LET d == mark_initialized(c)
         IN  /\ d \in Compilers /\ d.scope_depth = c.scope_depth /\ d.upvalues = c.upvalues /\ d.stack = c.stack
             /\ Len(d.locals) = Len(c.locals) /\ DOMAIN d.locals = DOMAIN c.locals
             /\ \A i \in DOMAIN c.locals : i # Len(c.locals) => d.locals[i] = c.locals[i]
             /\ d.locals[Len(c.locals)] = [c.locals[Len(c.locals)] EXCEPT !.depth = c.scope_depth]
<1> DEFINE w == Len(c.locals)
           d == mark_initialized(c)
           s == [c.locals EXCEPT ![w] = [c.locals[w] EXCEPT !.depth = c.scope_depth]]
<1>1. /\ c.locals \in Seq(Locals) /\ w \in Nat /\ DOMAIN c.locals = 1..w /\ c.scope_depth \in Nat
      /\ \A i \in DOMAIN c.locals : c.locals[i] \in Locals
  BY CompilerFacts
<1>2. [c.locals[w] EXCEPT !.depth = c.scope_depth] \in Locals
  <2>1. c.locals[w] \in Locals
    BY <1>1
  <2> QED BY <2>1, <1>1 DEF Locals
<1>3. /\ s \in Seq(Locals) /\ Len(s) = w /\ DOMAIN s = 1..w
      /\ s[w] = [c.locals[w] EXCEPT !.depth = c.scope_depth]
      /\ \A i \in 1..w : i # w => s[i] = c.locals[i]
  BY <1>1, <1>2, ExceptFacts
<1>4. d = [c EXCEPT !.locals = s]
  <2>1. c.scope_depth # 0
    BY <1>1
  <2> QED BY <2>1 DEF mark_initialized, Compilers
<1> HIDE DEF s, d
<1>5. /\ d \in Compilers /\ d.locals = s /\ d.upvalues = c.upvalues /\ d.stack = c.stack
      /\ d.scope_depth = c.scope_depth
  BY <1>3, <1>4 DEF Compilers
<1> QED BY <1>1, <1>3, <1>5 DEF d

\* A function is named at once.
LEMMA NamedFacts ==
  ASSUME NEW c \in Compilers, c.scope_depth > 0, NEW name \in LocalNames, NEW id \in Ids
  PROVE  LET d == mark_initialized(add_local(c, name, id))
         IN  /\ Extended(c, d, name, c.scope_depth, id) /\ d.stack = c.stack
             /\ d.locals[Len(d.locals)].depth = d.scope_depth
<1> DEFINE a == add_local(c, name, id)
           d == mark_initialized(a)
<1>1. Extended(c, a, name, -1, id) /\ a.stack = c.stack
  BY AddLocalFacts
<1> HIDE DEF a
<1>2. a \in Compilers /\ a.scope_depth = c.scope_depth /\ a.upvalues = c.upvalues /\ Len(a.locals) = Len(c.locals) + 1
  BY <1>1 DEF Extended, Added
<1>3. Len(c.locals) \in Nat /\ DOMAIN c.locals = 1..Len(c.locals) /\ c.scope_depth \in Nat
  BY CompilerFacts
<1>4. a.scope_depth > 0 /\ Len(a.locals) >= 1 /\ Len(a.locals) \in Nat
  BY <1>2, <1>3
<1>5. /\ d \in Compilers /\ d.scope_depth = a.scope_depth /\ d.upvalues = a.upvalues /\ d.stack = a.stack
      /\ Len(d.locals) = Len(a.locals)
      /\ \A i \in DOMAIN a.locals : i # Len(a.locals) => d.locals[i] = a.locals[i]
      /\ d.locals[Len(a.locals)] = [a.locals[Len(a.locals)] EXCEPT !.depth = a.scope_depth]
  BY <1>2, <1>4, MarkFacts
<1> HIDE DEF d
<1>6. /\ DOMAIN a.locals = 1..Len(a.locals) /\ a.locals[Len(a.locals)] \in Locals
  BY <1>2, <1>4, CompilerFacts
<1>7. \A i \in DOMAIN c.locals : d.locals[i] = c.locals[i]
  <2> SUFFICES ASSUME NEW i \in DOMAIN c.locals PROVE d.locals[i] = c.locals[i]
    OBVIOUS
  <2>1. i \in DOMAIN a.locals /\ i # Len(a.locals)
    BY <1>2, <1>3, <1>6
  <2>2. a.locals[i] = c.locals[i]
    BY <1>1 DEF Extended, Added
  <2> QED BY <2>1, <2>2, <1>5
<1>8. LET e == a.locals[Len(a.locals)] IN e.name = name /\ e.id = id /\ e.is_captured = FALSE
  BY <1>1, <1>2 DEF Extended, Added
<1>9. LET e == d.locals[Len(a.locals)]
      IN  e.name = name /\ e.id = id /\ e.is_captured = FALSE /\ e.depth = c.scope_depth
  BY <1>2, <1>5, <1>6, <1>8 DEF Locals
<1>10. Added(c, d, name, c.scope_depth, id)
  BY <1>2, <1>5, <1>7, <1>9 DEF Added
<1> QED BY <1>1, <1>2, <1>5, <1>9, <1>10 DEF Extended, d, a

\* The value of the last local is there.
LEMMA DefineFacts ==
  ASSUME NEW c \in Compilers, c.scope_depth > 0, Len(c.locals) >= 1
  PROVE  LET d == define_variable(c)
             m == mark_initialized(c)
         IN  /\ d \in Compilers /\ d.locals = m.locals /\ d.scope_depth = m.scope_depth /\ d.upvalues = m.upvalues
             /\ Pushed(c, d, d.locals[Len(d.locals)].id) /\ m.stack = c.stack
<1> DEFINE m == mark_initialized(c)
           d == define_variable(c)
           id == Last(c.locals).id
<1>1. /\ m \in Compilers /\ m.scope_depth = c.scope_depth /\ m.upvalues = c.upvalues /\ m.stack = c.stack
      /\ Len(m.locals) = Len(c.locals)
      /\ m.locals[Len(c.locals)] = [c.locals[Len(c.locals)] EXCEPT !.depth = c.scope_depth]
  BY MarkFacts
<1>2. c.locals[Len(c.locals)] \in Locals /\ Len(c.locals) \in Nat /\ c.scope_depth \in Nat
  BY CompilerFacts
<1>3. id = c.locals[Len(c.locals)].id /\ id \in Ids
  BY <1>2, CompilerFacts DEF Last
<1>4. d = [m EXCEPT !.stack = Append(m.stack, id)]
  <2>1. c.scope_depth # 0
    BY <1>2
  <2> QED BY <2>1, <1>1 DEF define_variable, Compilers
<1>5. m.locals[Len(m.locals)].id = id
  BY <1>1, <1>2, <1>3 DEF Locals
<1> HIDE DEF m, d, id
<1>6. Append(m.stack, id) \in Seq(Ids \cup {Temporary})
  <2>1. m.stack \in Seq(Ids \cup {Temporary})
    BY <1>1 DEF Compilers
  <2> QED BY <2>1, <1>3
<1>7. /\ d \in Compilers /\ d.locals = m.locals /\ d.scope_depth = m.scope_depth /\ d.upvalues = m.upvalues
      /\ d.stack = Append(m.stack, id)
  BY <1>1, <1>4, <1>6 DEF Compilers
<1> QED BY <1>1, <1>5, <1>7 DEF d, m, Pushed

\* A parameter or a type has its value as soon as its name.
LEMMA DeclaredFacts ==
  ASSUME NEW c \in Compilers, c.scope_depth > 0, NEW name \in LocalNames, NEW id \in Ids
  PROVE  LET d == define_variable(add_local(c, name, id))
         IN  Extended(c, d, name, c.scope_depth, id) /\ Pushed(c, d, d.locals[Len(d.locals)].id)
<1> DEFINE a == add_local(c, name, id)
           d == define_variable(a)
           m == mark_initialized(a)
<1>1. Extended(c, a, name, -1, id) /\ a.stack = c.stack
  BY AddLocalFacts
<1>2. Extended(c, m, name, c.scope_depth, id)
  BY NamedFacts
<1>3. a \in Compilers /\ a.scope_depth = c.scope_depth /\ Len(a.locals) = Len(c.locals) + 1
  BY <1>1 DEF Extended, Added
<1>4. a.scope_depth > 0 /\ Len(a.locals) >= 1
  BY <1>3, CompilerFacts
<1>5. /\ d \in Compilers /\ d.locals = m.locals /\ d.scope_depth = m.scope_depth /\ d.upvalues = m.upvalues
      /\ Pushed(a, d, d.locals[Len(d.locals)].id)
  <2> HIDE DEF a
  <2> QED BY <1>3, <1>4, DefineFacts
<1> HIDE DEF a, d, m
<1>6. Added(c, d, name, c.scope_depth, id)
  BY <1>2, <1>5 DEF Extended, Added
<1>7. Pushed(c, d, d.locals[Len(d.locals)].id)
  BY <1>1, <1>5 DEF Pushed
<1>8. d.upvalues = c.upvalues
  BY <1>2, <1>5 DEF Extended
<1>9. Extended(c, d, name, c.scope_depth, id)
  BY <1>5, <1>6, <1>8 DEF Extended
<1> QED BY <1>7, <1>9 DEF a, d

\* The end of a scope.
LEMMA EndScopeFacts ==
  ASSUME NEW c \in Compilers, c.scope_depth > 0, Len(c.locals) >= 1, c.locals[1].depth = 0,
         Len(c.stack) = Len(c.locals)
  PROVE  \E kept \in DOMAIN c.locals :
           /\ Cut(c, end_scope(c), kept) /\ end_scope(c) \in Compilers /\ end_scope(c).upvalues = c.upvalues
           /\ end_scope(c).stack = SubSeq(c.stack, 1, kept) /\ kept \in Nat /\ kept >= 1 /\ kept <= Len(c.locals)
<1> DEFINE kept == KeptOf(c)
           d == end_scope(c)
           w == Len(c.locals)
           left == SubSeq(c.locals, kept + 1, w)
<1>1. /\ kept \in DOMAIN c.locals /\ c.locals[kept].depth < c.scope_depth
      /\ \A j \in DOMAIN c.locals : j > kept => c.locals[j].depth >= c.scope_depth
  BY KeptFacts
<1>2. d = [Shallower(c) EXCEPT !.locals = SubSeq(@, 1, kept),
                               !.stack = SubSeq(@, 1, Len(@) - Popped(left))]
  BY DEF end_scope, KeptOf
<1> HIDE DEF kept, d
<1>3. c.locals \in Seq(Locals) /\ w \in Nat /\ DOMAIN c.locals = 1..w /\ c.stack \in Seq(Ids \cup {Temporary})
  BY CompilerFacts DEF Compilers
<1>4. kept \in Nat /\ kept >= 1 /\ kept <= w
  BY <1>1, <1>3
<1>5. Popped(left) = w - kept
  BY <1>3, <1>4 DEF Popped
<1>6. w - (w - kept) = kept
  BY <1>3, <1>4
<1>7. /\ Shallower(c) \in Compilers /\ Shallower(c).locals = c.locals /\ Shallower(c).stack = c.stack
      /\ Shallower(c).upvalues = c.upvalues /\ Shallower(c).scope_depth = c.scope_depth - 1
  BY ShallowerFacts
<1>8. /\ SubSeq(c.locals, 1, kept) \in Seq(Locals) /\ SubSeq(c.stack, 1, kept) \in Seq(Ids \cup {Temporary})
      /\ Len(SubSeq(c.locals, 1, kept)) = kept /\ \A i \in 1..kept : SubSeq(c.locals, 1, kept)[i] = c.locals[i]
  BY <1>3, <1>4
<1>9. d = [Shallower(c) EXCEPT !.locals = SubSeq(c.locals, 1, kept), !.stack = SubSeq(c.stack, 1, kept)]
  BY <1>2, <1>5, <1>6, <1>7 DEF Compilers
<1>10. /\ d \in Compilers /\ d.locals = SubSeq(c.locals, 1, kept) /\ d.stack = SubSeq(c.stack, 1, kept)
       /\ d.upvalues = c.upvalues /\ d.scope_depth = c.scope_depth - 1
  BY <1>7, <1>8, <1>9 DEF Compilers
<1>11. Cut(c, d, kept)
  BY <1>1, <1>8, <1>10 DEF Cut
<1> QED BY <1>1, <1>4, <1>10, <1>11 DEF d

-----------------------------------------------------------------------------
(* What the text's scopes become.                                          *)
BindIn(sc, name, id) ==
  [sc EXCEPT ![Len(sc)].names = [n \in DOMAIN @ \cup {name} |-> IF n = name THEN id ELSE @[n]]]

\* What the type of a lexical scope says of its parts.
LEMMA NamingFacts ==
  ASSUME NEW s \in LexicalScopes
  PROVE  /\ s.fn \in Nat /\ s.names \in [DOMAIN s.names -> Ids] /\ DOMAIN s.names \subseteq Names \cup {"self", "super"}
         /\ s = [fn |-> s.fn, names |-> s.names]
<1>1. s.names \in Namings /\ s.fn \in Nat
  BY DEF LexicalScopes
<1>2. PICK D \in SUBSET (Names \cup {"self", "super"}) : s.names \in [D -> Ids]
  BY <1>1 DEF Namings
<1> QED BY <1>1, <1>2 DEF LexicalScopes

\* Bind gives a name of the innermost scope its variable and no other name another.
LEMMA BindFacts ==
  ASSUME NEW sc \in Seq(LexicalScopes), Len(sc) >= 1, NEW name \in Names, NEW id \in Ids
  PROVE  Renamed(sc, BindIn(sc, name, id), name, id)
<1> DEFINE w == Len(sc)
           s == sc[w]
           m == [n \in DOMAIN s.names \cup {name} |-> IF n = name THEN id ELSE s.names[n]]
           e == [fn |-> s.fn, names |-> m]
           sc2 == BindIn(sc, name, id)
<1>1. w \in 1..w /\ DOMAIN sc = 1..w /\ s \in LexicalScopes
  OBVIOUS
<1>2. /\ s.fn \in Nat /\ s.names \in [DOMAIN s.names -> Ids] /\ DOMAIN s.names \subseteq Names \cup {"self", "super"}
      /\ s = [fn |-> s.fn, names |-> s.names]
  BY <1>1, NamingFacts
<1>3. m \in [DOMAIN s.names \cup {name} -> Ids]
  BY <1>2
<1>4. e \in LexicalScopes
  <2>1. DOMAIN s.names \cup {name} \in SUBSET (Names \cup {"self", "super"})
    BY <1>2
  <2>2. m \in Namings
    BY <2>1, <1>3 DEF Namings
  <2> HIDE DEF m
  <2> QED BY <2>2, <1>2 DEF LexicalScopes
<1>5. sc2 = [sc EXCEPT ![w] = e]
  <2>1. sc2 = [sc EXCEPT ![w] = [s EXCEPT !.names = m]]
    BY DEF BindIn
  <2>2. [s EXCEPT !.names = m] = e
    BY <1>2
  <2> QED BY <2>1, <2>2
<1>6. DOMAIN m = DOMAIN s.names \cup {name} /\ m[name] = id /\ \A n \in DOMAIN s.names : n # name => m[n] = s.names[n]
  OBVIOUS
<1>7. e.fn = s.fn /\ e.names = m
  OBVIOUS
<1> HIDE DEF sc2, e, m
<1>8. sc2 \in Seq(LexicalScopes) /\ Len(sc2) = w /\ sc2[w] = e /\ \A h \in 1..w - 1 : sc2[h] = sc[h]
  <2>1. /\ sc2 \in Seq(LexicalScopes) /\ Len(sc2) = w /\ sc2[w] = e /\ \A h \in DOMAIN sc : h # w => sc2[h] = sc[h]
    BY <1>4, <1>5, ExceptFacts
  <2>2. \A h \in 1..w - 1 : h \in DOMAIN sc /\ h # w
    <3>1. w \in Nat /\ DOMAIN sc = 1..w
      BY <1>1
    <3> HIDE DEF w
    <3> QED BY ONLY <3>1
  <2> QED BY <2>1, <2>2
<1>9. Renamed(sc, sc2, name, id)
  BY <1>6, <1>7, <1>8 DEF Renamed, NamedIn
<1> QED BY <1>9 DEF sc2

\* A name that is not super.
LEMMA RenamedSupers ==
  ASSUME NEW sc \in Seq(LexicalScopes), Len(sc) >= 1, NEW sc2, NEW name, NEW id, Renamed(sc, sc2, name, id),
         name # "super", ~HasSuper(sc, Len(sc))
  PROVE  SuperScopes(sc, sc2) /\ SameSupers(sc, sc2, Len(sc)) /\ ~HasSuper(sc2, Len(sc2))
<1> DEFINE w == Len(sc)
<1>1. w \in Nat /\ DOMAIN sc = 1..w /\ Len(sc2) = w /\ DOMAIN sc2 = 1..w /\ sc2 \in Seq(LexicalScopes)
  BY DEF Renamed
<1>2. \A h \in 1..w - 1 : sc2[h] = sc[h]
  BY DEF Renamed
<1>3. DOMAIN sc2[w].names = DOMAIN sc[w].names \cup {name}
  BY DEF Renamed, NamedIn
<1>4. ~HasSuper(sc2, w) /\ ~HasSuper(sc, w)
  BY <1>3 DEF HasSuper
<1>5. \A h \in 1..w : h \in 1..w - 1 \/ h = w
  <2>1. w \in Nat
    BY <1>1
  <2> HIDE DEF w
  <2> QED BY ONLY <2>1
<1>6. \A h \in 1..w : /\ HasSuper(sc2, h) => h \in 1..w - 1 /\ sc2[h] = sc[h]
                      /\ HasSuper(sc, h) => h \in 1..w - 1 /\ sc2[h] = sc[h]
  BY <1>2, <1>4, <1>5
<1>7. \A h \in 1..w : HasSuper(sc2, h) <=> HasSuper(sc, h)
  BY <1>6 DEF HasSuper
<1>8. SameSupers(sc, sc2, w)
  BY <1>7 DEF SameSupers
<1>9. SuperScopes(sc, sc2)
  BY <1>1, <1>6, <1>7 DEF SuperScopes
<1> QED BY <1>1, <1>4, <1>8, <1>9

\* One scope more.
LEMMA OpenScope ==
  ASSUME NEW sc \in Seq(LexicalScopes), NEW s \in LexicalScopes
  PROVE  /\ Append(sc, s) \in Seq(LexicalScopes) /\ Len(Append(sc, s)) = Len(sc) + 1
         /\ SameSupers(sc, Append(sc, s), Len(sc))
         /\ HasSuper(Append(sc, s), Len(sc) + 1) <=> "super" \in DOMAIN s.names
         /\ "super" \notin DOMAIN s.names => SuperScopes(sc, Append(sc, s))
<1> DEFINE w == Len(sc)
           sc2 == Append(sc, s)
<1>1. /\ sc2 \in Seq(LexicalScopes) /\ Len(sc2) = w + 1 /\ DOMAIN sc2 = 1..w + 1 /\ sc2[w + 1] = s
      /\ w \in Nat /\ DOMAIN sc = 1..w /\ \A h \in 1..w : sc2[h] = sc[h]
  BY AppendFacts
<1> HIDE DEF sc2
<1>2. \A h \in 1..w : HasSuper(sc2, h) <=> HasSuper(sc, h)
  BY <1>1 DEF HasSuper
<1>3. SameSupers(sc, sc2, w)
  BY <1>2 DEF SameSupers
<1>4. HasSuper(sc2, w + 1) <=> "super" \in DOMAIN s.names
  BY <1>1 DEF HasSuper
<1>5. ASSUME "super" \notin DOMAIN s.names PROVE SuperScopes(sc, sc2)
  <2>1. ~HasSuper(sc2, w + 1)
    BY <1>4, <1>5
  <2>2. \A h \in 1..w + 1 : h = w + 1 \/ h \in 1..w
    BY <1>1
  <2>3. \A h \in 1..w : h \in 1..w + 1
    BY <1>1
  <2> QED BY <2>1, <2>2, <2>3, <1>1, <1>2 DEF SuperScopes
<1> QED BY <1>1, <1>3, <1>4, <1>5 DEF sc2

\* One scope less.
LEMMA ShutScope ==
  ASSUME NEW sc \in Seq(LexicalScopes), Len(sc) >= 1
  PROVE  /\ Front(sc) \in Seq(LexicalScopes) /\ Len(Front(sc)) = Len(sc) - 1
         /\ SameSupers(sc, Front(sc), Len(Front(sc)))
         /\ ~HasSuper(sc, Len(sc)) => SuperScopes(sc, Front(sc))
<1> DEFINE w == Len(sc)
           sc2 == Front(sc)
<1>1. /\ sc2 \in Seq(LexicalScopes) /\ Len(sc2) = w - 1 /\ DOMAIN sc2 = 1..w - 1
      /\ w \in Nat /\ DOMAIN sc = 1..w /\ \A h \in 1..w - 1 : sc2[h] = sc[h]
  BY FrontFacts
<1> HIDE DEF sc2
<1>2. \A h \in 1..w - 1 : HasSuper(sc2, h) <=> HasSuper(sc, h)
  BY <1>1 DEF HasSuper
<1>3. SameSupers(sc, sc2, Len(sc2))
  BY <1>1, <1>2 DEF SameSupers
<1>4. ASSUME ~HasSuper(sc, w) PROVE SuperScopes(sc, sc2)
  <2>1. \A h \in 1..w : h = w \/ h \in 1..w - 1
    BY <1>1
  <2>2. \A h \in 1..w - 1 : h \in 1..w
    BY <1>1
  <2> QED BY <2>1, <2>2, <1>1, <1>2, <1>4 DEF SuperScopes
<1> QED BY <1>1, <1>3, <1>4 DEF sc2

-----------------------------------------------------------------------------
(* What the superclasses become.                                           *)
LEMMA SameClasses == ASSUME NEW cl PROVE SuperClasses(cl, cl)
BY DEF SuperClasses

\* A class without a superclass begins: no superclass is added.
LEMMA AppendClass ==
  ASSUME NEW cl \in Seq(BOOLEAN)
  PROVE  SuperClasses(cl, Append(cl, FALSE))
<1> DEFINE w == Len(cl)
           cl2 == Append(cl, FALSE)
<1>1. /\ w \in Nat /\ DOMAIN cl = 1..w /\ DOMAIN cl2 = 1..w + 1
      /\ cl2[w + 1] = FALSE /\ \A a \in 1..w : cl2[a] = cl[a]
  <2>1. w \in Nat /\ DOMAIN cl = 1..w
    BY LenProperties
  <2>3. DOMAIN cl2 = 1..w + 1 /\ cl2[w + 1] = FALSE /\ \A a \in 1..w : cl2[a] = cl[a]
    <3>1. ASSUME NEW v \in BOOLEAN
          PROVE  /\ DOMAIN Append(cl, v) = 1..Len(cl) + 1 /\ Append(cl, v)[Len(cl) + 1] = v
                 /\ \A a \in 1..Len(cl) : Append(cl, v)[a] = cl[a]
      OBVIOUS
    <3> QED BY <3>1, Zenon
  <2> QED BY <2>1, <2>3, Zenon
<1> HIDE DEF cl2
<1>2. \A a \in 1..w + 1 : a = w + 1 \/ a \in 1..w
  BY <1>1
<1>3. \A a \in 1..w : a \in 1..w + 1
  BY <1>1
<1>4. SuperClasses(cl, cl2)
  BY <1>1, <1>2, <1>3, Zenon DEF SuperClasses
<1> QED BY <1>4 DEF cl2

\* A class ends: a superclass is dropped only if it was its own.
LEMMA FrontClass ==
  ASSUME NEW cl \in Seq(BOOLEAN), Len(cl) >= 1
  PROVE  /\ Front(cl) \in Seq(BOOLEAN) /\ Len(Front(cl)) = Len(cl) - 1
         /\ \A a \in DOMAIN Front(cl) : a \in DOMAIN cl /\ Front(cl)[a] = cl[a]
         /\ ~cl[Len(cl)] => SuperClasses(cl, Front(cl))
<1> DEFINE w == Len(cl)
           cl2 == Front(cl)
<1>1. w \in Nat /\ DOMAIN cl = 1..w
  BY LenProperties
<1>2. /\ cl2 \in Seq(BOOLEAN) /\ Len(cl2) = w - 1 /\ DOMAIN cl2 = 1..w - 1
      /\ \A a \in 1..w - 1 : cl2[a] = cl[a]
  BY FrontFacts, Zenon
<1> HIDE DEF cl2
<1>3. \A a \in 1..w : a = w \/ a \in 1..w - 1
  <2>1. w \in Nat
    BY <1>1
  <2> HIDE DEF w
  <2> QED BY ONLY <2>1
<1>4. \A a \in 1..w - 1 : a \in 1..w
  BY <1>1
<1>5. ASSUME ~cl[w] PROVE SuperClasses(cl, cl2)
  BY <1>1, <1>2, <1>3, <1>4, <1>5, Zenon DEF SuperClasses
<1>6. \A a \in DOMAIN cl2 : a \in DOMAIN cl /\ cl2[a] = cl[a]
  BY <1>1, <1>2, <1>4, Zenon
<1> QED BY <1>2, <1>5, <1>6, Zenon DEF cl2

\* Locals of the same names, or none named super more.
LEMMA SuperLocalsLast ==
  ASSUME NEW cs \in Seq(Compilers), NEW n, n = Len(cs), n >= 1, NEW c, c = cs[n], NEW d \in Compilers,
         \A i \in DOMAIN d.locals :
           \/ i \in DOMAIN c.locals /\ d.locals[i].name = c.locals[i].name /\ d.locals[i].id = c.locals[i].id
           \/ d.locals[i].name # "super" /\ i = Len(d.locals)
  PROVE  SuperLocals(cs, [cs EXCEPT ![n] = d])
<1> DEFINE cs2 == [cs EXCEPT ![n] = d]
<1>1. n \in 1..n /\ DOMAIN cs = 1..n /\ DOMAIN cs2 = 1..n /\ cs2[n] = d /\ \A k \in 1..n : k # n => cs2[k] = cs[k]
  OBVIOUS
<1> HIDE DEF cs2
<1>2. \A i \in DOMAIN d.locals : i = Len(d.locals) => \A j \in DOMAIN d.locals : j <= i
  BY CompilerFacts
<1>3. SuperLocals(cs, cs2)
  <2> SUFFICES ASSUME NEW k \in 1..n, NEW i \in DOMAIN cs2[k].locals
               PROVE  \/ /\ k \in DOMAIN cs /\ i \in DOMAIN cs[k].locals
                         /\ cs2[k].locals[i].name = cs[k].locals[i].name /\ cs2[k].locals[i].id = cs[k].locals[i].id
                      \/ /\ cs2[k].locals[i].name # "super"
                         /\ \A j \in DOMAIN cs2[k].locals : j <= i
    BY <1>1 DEF SuperLocals
  <2>1. CASE k = n
    BY <2>1, <1>1, <1>2
  <2>2. CASE k # n
    BY <2>2, <1>1
  <2> QED BY <2>1, <2>2
<1> QED BY <1>3 DEF cs2

\* The same, of what Added says.
LEMMA SuperLocalsAdded ==
  ASSUME NEW cs \in Seq(Compilers), NEW n, n = Len(cs), n >= 1, NEW c, c = cs[n], NEW d,
         NEW name, name # "super", NEW dp, NEW id, Extended(c, d, name, dp, id)
  PROVE  SuperLocals(cs, [cs EXCEPT ![n] = d])
<1>1. n \in DOMAIN cs /\ c \in Compilers /\ d \in Compilers
  BY DEF Extended
<1>2. Len(c.locals) \in Nat /\ DOMAIN c.locals = 1..Len(c.locals) /\ DOMAIN d.locals = 1..Len(d.locals)
  BY <1>1, CompilerFacts
<1>3. /\ Len(d.locals) = Len(c.locals) + 1 /\ \A i \in DOMAIN c.locals : d.locals[i] = c.locals[i]
      /\ d.locals[Len(c.locals) + 1].name = name
  BY DEF Extended, Added
<1>4. \A i \in DOMAIN d.locals :
        \/ i \in DOMAIN c.locals /\ d.locals[i].name = c.locals[i].name /\ d.locals[i].id = c.locals[i].id
        \/ d.locals[i].name # "super" /\ i = Len(d.locals)
  <2> SUFFICES ASSUME NEW i \in DOMAIN d.locals
               PROVE  \/ i \in DOMAIN c.locals /\ d.locals[i].name = c.locals[i].name /\ d.locals[i].id = c.locals[i].id
                      \/ d.locals[i].name # "super" /\ i = Len(d.locals)
    OBVIOUS
  <2>1. i \in DOMAIN c.locals \/ i = Len(c.locals) + 1
    BY <1>2, <1>3
  <2> QED BY <2>1, <1>3
<1> QED BY <1>1, <1>4, SuperLocalsLast

\* No local named super is added where the last compiler's locals keep their names,
LEMMA SuperLocalsSame ==
  ASSUME NEW cs \in Seq(Compilers), NEW n, n = Len(cs), n >= 1, NEW d \in Compilers,
         DOMAIN d.locals \subseteq DOMAIN cs[n].locals,
         \A i \in DOMAIN d.locals : d.locals[i].name = cs[n].locals[i].name /\ d.locals[i].id = cs[n].locals[i].id
  PROVE  SuperLocals(cs, [cs EXCEPT ![n] = d])
BY SuperLocalsLast

\* where a function begins,
LEMMA SuperLocalsAppend ==
  ASSUME NEW cs \in Seq(Compilers), NEW d \in Compilers, Len(d.locals) = 1, d.locals[1].name # "super"
  PROVE  SuperLocals(cs, Append(cs, d))
<1> DEFINE n == Len(cs)
           cs2 == Append(cs, d)
<1>1. /\ n \in Nat /\ DOMAIN cs = 1..n /\ DOMAIN cs2 = 1..n + 1 /\ cs2[n + 1] = d
      /\ \A k \in 1..n : cs2[k] = cs[k]
  BY AppendFacts
<1>2. DOMAIN d.locals = {1}
  BY CompilerFacts
<1> HIDE DEF cs2
<1>3. SuperLocals(cs, cs2)
  <2> SUFFICES ASSUME NEW k \in 1..n + 1, NEW i \in DOMAIN cs2[k].locals
               PROVE  \/ /\ k \in DOMAIN cs /\ i \in DOMAIN cs[k].locals
                         /\ cs2[k].locals[i].name = cs[k].locals[i].name /\ cs2[k].locals[i].id = cs[k].locals[i].id
                      \/ /\ cs2[k].locals[i].name # "super"
                         /\ \A j \in DOMAIN cs2[k].locals : j <= i
    BY <1>1 DEF SuperLocals
  <2>1. CASE k = n + 1
    BY <2>1, <1>1, <1>2
  <2>2. CASE k # n + 1
    <3>1. k \in 1..n
      BY <2>2, <1>1
    <3> QED BY <3>1, <1>1
  <2> QED BY <2>1, <2>2
<1> QED BY <1>3 DEF cs2

\* One change after another.
LEMMA SuperLocalsFront ==
  ASSUME NEW cs \in Seq(Compilers), Len(cs) >= 1
  PROVE  SuperLocals(cs, Front(cs))
<1>1. DOMAIN cs = 1..Len(cs) /\ DOMAIN Front(cs) = 1..Len(cs) - 1 /\ \A k \in 1..Len(cs) - 1 : Front(cs)[k] = cs[k]
  BY FrontFacts
<1>2. \A k \in 1..Len(cs) - 1 : k \in 1..Len(cs)
  OBVIOUS
<1> QED BY <1>1, <1>2 DEF SuperLocals

\* or where a search marks a local.
LEMMA SuperLocalsMarks ==
  ASSUME NEW cs, NEW cs2, NEW o, NEW l, Marks(cs, cs2, o, l), cs \in Seq(Compilers)
  PROVE  SuperLocals(cs, cs2)
<1>1. DOMAIN cs2 = DOMAIN cs
  BY DEF Marks
<1>2. \A k \in DOMAIN cs : /\ Len(cs2[k].locals) = Len(cs[k].locals)
                           /\ \A i \in DOMAIN cs[k].locals :
                                cs2[k].locals[i].name = cs[k].locals[i].name /\ cs2[k].locals[i].id = cs[k].locals[i].id
  BY DEF Marks, SameButMarks, LocalsAgree
<1>3. \A k \in DOMAIN cs : DOMAIN cs2[k].locals = DOMAIN cs[k].locals
  <2> SUFFICES ASSUME NEW k \in DOMAIN cs PROVE DOMAIN cs2[k].locals = DOMAIN cs[k].locals
    OBVIOUS
  <2>1. cs[k] \in Compilers /\ cs2[k] \in Compilers
    BY <1>1 DEF Marks
  <2> QED BY <2>1, <1>2, CompilerFacts
<1> QED BY <1>1, <1>2, <1>3 DEF SuperLocals

-----------------------------------------------------------------------------
(* Where declarations stand.                                               *)
Plain(wk) == wk = <<>> \/ wk[Len(wk)] \in {"block", "fn", "method", "lambda", "params"}

\* Where a declaration may stand, nothing waits for its value and no type is under construction.
LEMMA Place ==
  ASSUME NEW cs, NEW cl, NEW wk, NEW sc, NEW cp, NEW dc, NEW x, NEW at, Sound(cs, cl, wk, sc, cp, dc, x, at),
         NEW n, n = Len(cs), NEW c, c = cs[n], NEW fr, fr = FramesOf(wk, x, at)[n], Plain(wk)
  PROVE  /\ fr.wait = "no" /\ fr.temps = 0 /\ x[Len(wk) + 1].temps = 0
         /\ c.scope_depth > 0 => ~HasSuper(sc, Len(sc)) /\ Len(sc) >= 1
<1> DEFINE w == Len(wk)
           s == x[w + 1]
<1>1. Working(wk, cl, x, at, n, sc) /\ w \in Nat
  BY Current
<1>2. /\ At(n, c, fr, s) /\ s.top = Len(sc)
      /\ fr.wait = IF c.scope_depth > 0 /\ w >= 1 /\ wk[w] = "var" THEN "var" ELSE "no"
  BY CurrentSettings
<1>3. wk # <<>> => w >= 1 /\ w \in 1..w
  BY <1>1, WorkFacts, EmptySeq
<1>4. wk = <<>> => w = 0 /\ s = Outermost
  BY <1>1 DEF Working, Trail
<1>5. wk # <<>> => wk[w] \notin {"class", "enum", "var"}
  BY DEF Plain
<1>6. fr.wait = "no"
  <2>1. w >= 1 => wk # <<>>
    BY <1>4
  <2>2. ~(w >= 1 /\ wk[w] = "var")
    BY <2>1, <1>5
  <2> QED BY <2>2, <1>2
<1>7. s.temps = 0
  <2>1. CASE wk = <<>>
    BY <2>1, <1>4 DEF Outermost
  <2>2. CASE wk # <<>>
    BY <2>2, <1>1, <1>3, <1>5 DEF Working, Ordered
  <2> QED BY <2>1, <2>2
<1>8. fr.temps = 0
  BY <1>2, <1>7 DEF At
<1>9. ASSUME c.scope_depth > 0 PROVE ~HasSuper(sc, Len(sc)) /\ Len(sc) >= 1
  <2>1. s.top >= 1 /\ s.base + c.scope_depth = s.top
    BY <1>2, <1>9 DEF At
  <2>2. wk # <<>>
    BY <2>1, <1>4 DEF Outermost
  <2>3. w \in 1..w /\ w \in 1..Len(wk)
    BY <2>2, <1>3
  <2>4. CASE wk[w] \in Fns \cup {"block"}
    <3>1. ~HasSuper(sc, x[w + 1].top)
      BY <2>3, <2>4, <1>1 DEF Working, Superseded
    <3> QED BY <3>1, <2>1, <1>2
  <2>5. CASE wk[w] = "params"
    <3>1. w > 1 /\ wk[w - 1] \in Fns
      BY <2>3, <2>5, <1>1 DEF Working, Ordered
    <3>2. w - 1 \in 1..Len(wk) /\ (w - 1) + 1 = w
      BY <3>1, <1>1
    <3>3. ~HasSuper(sc, x[w].top)
      BY <3>1, <3>2, <1>1 DEF Working, Superseded
    <3>4. x[w + 1] = x[w]
      <4>1. Follows(wk[w], x[w], x[w + 1], cl)
        BY <2>3, <1>1 DEF Working, Trail
      <4> QED BY <4>1, <2>5 DEF Follows, Fns
    <3> QED BY <3>3, <3>4, <2>1, <1>2
  <2> QED BY <2>2, <2>4, <2>5 DEF Plain, Fns
<1> QED BY <1>6, <1>7, <1>8, <1>9

-----------------------------------------------------------------------------
(* A name is read.                                                         *)
LEMMA SoundMarks ==
  ASSUME NEW cs, NEW cl, NEW wk, NEW sc, NEW cp, NEW dc, NEW x, NEW at, Sound(cs, cl, wk, sc, cp, dc, x, at),
         NEW cs2, NEW o, NEW l, Marks(cs, cs2, o, l), NEW cp2, ReadOne(cs, cp, cp2, o, l)
  PROVE  Sound(cs2, cl, wk, sc, cp2, dc, x, at)
<1> DEFINE f == FramesOf(wk, x, at)
<1>1. /\ Core(cs, sc, cp, dc, f) /\ Supers(cs, cl, sc) /\ AllStacked(cs, f)
      /\ cs \in Seq(Compilers) /\ f \in Seq(Frames) /\ Len(f) = Len(cs)
  <2>1. Core(cs, sc, cp, dc, f) /\ Supers(cs, cl, sc) /\ AllStacked(cs, f)
    BY DEF Sound
  <2>2. cs \in Seq(Compilers) /\ f \in Seq(Frames) /\ Len(f) = Len(cs)
    <3> HIDE DEF f
    <3> QED BY <2>1, LastFacts
  <2> QED BY <2>1, <2>2
<1> HIDE DEF f
<1>2. Core(cs2, sc, cp2, dc, f)
  BY <1>1, CoreMarks
<1>3. Supers(cs2, cl, sc)
  <2>1. SuperLocals(cs, cs2)
    BY <1>1, SuperLocalsMarks
  <2>2. SuperScopes(sc, sc)
    BY DEF SuperScopes
  <2> QED BY <2>1, <2>2, <1>1, SameClasses, SupersAgain
<1>4. cs2 \in Seq(Compilers) /\ Len(cs2) = Len(cs) /\ DOMAIN cs2 = DOMAIN cs
  BY DEF Marks
<1>5. AllStacked(cs2, f)
  <2> SUFFICES ASSUME NEW k \in DOMAIN cs PROVE Ready(cs2[k], f[k])
    BY <1>4 DEF AllStacked
  <2>1. cs[k] \in Compilers /\ cs2[k] \in Compilers /\ f[k] \in Frames
    BY <1>1, <1>4
  <2>2. SameButMarks(cs[k], cs2[k])
    BY DEF Marks
  <2>3. Ready(cs[k], f[k])
    BY <1>1 DEF AllStacked
  <2>4. Len(cs[k].locals) >= 1
    BY <1>1, <2>1 DEF Core, AllFramed, Framed, Slots
  <2>5. Stacked(cs2[k], f[k])
    <3>1. /\ cs2[k].stack = cs[k].stack /\ Len(cs2[k].locals) = Len(cs[k].locals)
          /\ \A i \in DOMAIN cs[k].locals : cs2[k].locals[i].id = cs[k].locals[i].id
      BY <2>2 DEF SameButMarks, LocalsAgree
    <3>2. Stacked(cs[k], f[k])
      BY <2>3 DEF Ready
    <3> QED BY <3>1, <3>2, <2>1, <2>4, StackedSame
  <2>6. f[k].wait = "fn" => cs2[k].locals[Len(cs2[k].locals)].depth = cs2[k].scope_depth
    <3>1. Len(cs[k].locals) \in DOMAIN cs[k].locals
      BY <2>1, <2>4, CompilerFacts
    <3>2. /\ cs2[k].scope_depth = cs[k].scope_depth /\ Len(cs2[k].locals) = Len(cs[k].locals)
          /\ cs2[k].locals[Len(cs[k].locals)].depth = cs[k].locals[Len(cs[k].locals)].depth
      BY <2>2, <3>1 DEF SameButMarks, LocalsAgree
    <3> QED BY <3>2, <2>3 DEF Ready
  <2> QED BY <2>5, <2>6 DEF Ready
<1>6. SameSupers(sc, sc, Len(sc))
  BY DEF SameSupers
<1>7. f = FramesOf(wk, x, at)
  BY DEF f
<1> QED BY <1>2, <1>3, <1>4, <1>5, <1>6, <1>7, SoundSame

\* The state stays sound when a name is searched for.
LEMMA SoundSearch ==
  ASSUME NEW cs, NEW cl, NEW wk, NEW sc, NEW cp, NEW dc, NEW x, NEW at, Sound(cs, cl, wk, sc, cp, dc, x, at),
         NEW name \in Names \cup {"self", "super"}, name = "super" => HomeOf(sc, name) # 0, ~Unreadable(cs, name)
  PROVE  /\ Sound(Searched(cs, name), cl, wk, sc, cp \cup CapturedIn(sc, Len(cs), {name}), dc, x, at)
         /\ Len(Searched(cs, name)) = Len(cs)
<1> DEFINE f == FramesOf(wk, x, at)
<1>1. Core(cs, sc, cp, dc, f) /\ Supers(cs, cl, sc)
  BY Current
<1> HIDE DEF f
<1>2. Searchable(cs, sc, cl, name)
  BY <1>1 DEF Searchable
<1>3. PICK o, l : /\ Marks(cs, Searched(cs, name), o, l)
                  /\ ReadOne(cs, cp, cp \cup CapturedIn(sc, Len(cs), {name}), o, l)
  BY <1>1, <1>2, SearchReads
<1>4. Sound(Searched(cs, name), cl, wk, sc, cp \cup CapturedIn(sc, Len(cs), {name}), dc, x, at)
  BY <1>3, SoundMarks
<1>5. Len(Searched(cs, name)) = Len(cs)
  BY <1>3 DEF Marks
<1> QED BY <1>4, <1>5
=============================================================================

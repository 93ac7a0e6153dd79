--------------------------- MODULE FrontEndProofs ---------------------------
(***************************************************************************)
(* For every program: while it is parsed each local is in the slot that    *)
(* the code will look in, it is closed if and only if a function shares    *)
(* it, and a name means its innermost declaration. For every source, of    *)
(* any length and over any characters: the scanner reads every character   *)
(* once, as part of a token, a blank or a comment, each token is the       *)
(* longest there is, and it is on the line its text ends on.               *)
(***************************************************************************)
EXTENDS ScopesFrames, Scanner

-----------------------------------------------------------------------------
(* A name is declared where the parser stands.                             *)

\* Replacing an element by itself changes nothing.
LEMMA ExceptSame ==
  ASSUME NEW S, NEW s \in Seq(S), NEW n
  PROVE  [s EXCEPT ![n] = s[n]] = s
OBVIOUS

\* The last compiler changes, and its frame does not.
LEMMA SoundLast ==
  ASSUME NEW cs, NEW cl, NEW wk, NEW sc, NEW cp, NEW dc, NEW x, NEW at, Sound(cs, cl, wk, sc, cp, dc, x, at),
         NEW n, n = Len(cs), NEW f, f = FramesOf(wk, x, at), NEW fr, fr = f[n],
         NEW d, NEW sc2, NEW dc2, Len(sc2) = Len(sc), SameSupers(sc, sc2, Len(sc)), SuperScopes(sc, sc2),
         CoreAt(cs, n, d, sc2, cp, dc2, f, fr), Ready(d, fr),
         SuperLocals(cs, [cs EXCEPT ![n] = d])
  PROVE  Sound([cs EXCEPT ![n] = d], cl, wk, sc2, cp, dc2, x, at)
<1>1. /\ cs \in Seq(Compilers) /\ f \in Seq(Frames) /\ Len(f) = n /\ n >= 1 /\ n \in Nat
      /\ AllStacked(cs, f) /\ Supers(cs, cl, sc)
  BY Current
<1>2. [f EXCEPT ![n] = fr] = f
  BY <1>1, ExceptSame
<1>3. AllStacked([cs EXCEPT ![n] = d], f)
  <2>1. AllStacked([cs EXCEPT ![n] = d], [f EXCEPT ![n] = fr])
    BY <1>1, StackedLast
  <2> QED BY <2>1, <1>2, Zenon
<1>4. Supers([cs EXCEPT ![n] = d], cl, sc2)
  BY <1>1, SameClasses, SupersAgain
<1>5. Core([cs EXCEPT ![n] = d], sc2, cp, dc2, f)
  BY <1>2 DEF CoreAt
<1>6. Len([cs EXCEPT ![n] = d]) = Len(cs)
  BY <1>1
<1> QED BY <1>3, <1>4, <1>5, <1>6, SoundSame

\* What a construct leaves what stands in it.
LEMMA FollowsIs ==
  ASSUME NEW form \in Forms, NEW s \in Settings, NEW t \in Settings, NEW cl,
         t.classes = IF form = "class" THEN s.classes + 1 ELSE s.classes,
         t.fns = IF form \in Fns THEN s.fns + 1 ELSE s.fns,
         t.temps = IF form \in Fns THEN 0 ELSE IF form \in {"class", "enum"} THEN s.temps + 1 ELSE s.temps,
         t.base = IF form \in Fns THEN s.top ELSE s.base,
         t.top = IF form \in Fns \cup {"block"} \/ (form = "class" /\ cl[t.classes]) THEN s.top + 1 ELSE s.top
  PROVE  Follows(form, s, t, cl)
<1>1. CASE form = "block"
  BY <1>1 DEF Follows, Fns, Settings
<1>2. CASE form \in Fns
  BY <1>2 DEF Follows, Fns, Settings
<1>3. CASE form = "class"
  <2>1. CASE cl[t.classes]
    <3>1. t = [s EXCEPT !.classes = @ + 1, !.temps = @ + 1, !.top = @ + 1]
      BY <1>3, <2>1 DEF Fns, Settings
    <3> QED BY <1>3, <2>1, <3>1 DEF Follows, Fns
  <2>2. CASE ~cl[t.classes]
    <3>1. t = [s EXCEPT !.classes = @ + 1, !.temps = @ + 1, !.top = @]
      BY <1>3, <2>2 DEF Fns, Settings
    <3> QED BY <1>3, <2>2, <3>1 DEF Follows, Fns
  <2> QED BY <2>1, <2>2
<1>4. CASE form = "enum"
  BY <1>4 DEF Follows, Fns, Settings
<1>5. CASE form \in {"var", "params"}
  BY <1>5 DEF Follows, Fns, Settings
<1> QED BY <1>1, <1>2, <1>3, <1>4, <1>5 DEF Forms

\* At the outermost depth a declaration makes a global.
LEMMA SoundGlobal ==
  ASSUME NEW cs, NEW cl, NEW wk, NEW sc, NEW cp, NEW dc, NEW x, NEW at, Sound(cs, cl, wk, sc, cp, dc, x, at),
         NEW n, n = Len(cs), NEW c, c = cs[n],
         NEW d \in Compilers, d.locals = c.locals, d.scope_depth = c.scope_depth, d.upvalues = c.upvalues,
         d.stack = c.stack, NEW dc2 \in Nat, dc <= dc2
  PROVE  Sound([cs EXCEPT ![n] = d], cl, wk, sc, cp, dc2, x, at)
<1> DEFINE f == FramesOf(wk, x, at)
           fr == f[n]
<1>1. /\ Core(cs, sc, cp, dc, f) /\ cs \in Seq(Compilers) /\ n >= 1 /\ n \in Nat /\ c \in Compilers /\ fr \in Frames
      /\ Ready(c, fr) /\ Stacked(c, fr) /\ Len(c.locals) >= 1 /\ dc \in Nat
  BY Current
<1> HIDE DEF f, fr
<1>2. CoreAt(cs, n, d, sc, cp, dc2, f, fr)
  <2>1. Resumes(c, fr, d, fr)
    BY <1>1 DEF Resumes
  <2> QED BY <2>1, <1>1, CoreAgain DEF fr
<1>3. Ready(d, fr)
  <2>1. Stacked(d, fr)
    BY <1>1, StackedSame
  <2> QED BY <2>1, <1>1 DEF Ready
<1>4. SuperLocals(cs, [cs EXCEPT ![n] = d])
  BY <1>1, SuperLocalsSame
<1>5. SameSupers(sc, sc, Len(sc)) /\ SuperScopes(sc, sc)
  BY DEF SameSupers, SuperScopes
<1> QED BY <1>2, <1>3, <1>4, <1>5, SoundLast DEF f, fr

DeclareStep(cs, cl, wk, sc, cp, dc, x, at, n, c, name, id, d, sc2, dc2) ==
  /\ Sound(cs, cl, wk, sc, cp, dc, x, at) /\ n = Len(cs) /\ c = cs[n]
  /\ name \in Names /\ ~Undeclarable(c, name)
  /\ (Plain(wk) \/ c.scope_depth = 0)
  /\ id = <<"declaration", dc + 1>> /\ d = define_variable(declare_variable(c, name, id))
  /\ sc2 = IF c.scope_depth = 0 THEN sc ELSE BindIn(sc, name, id)
  /\ dc2 = dc + 1

\* The state stays sound when a name is declared in an open scope.
LEMMA SoundDeclared ==
  ASSUME NEW cs, NEW cl, NEW wk, NEW sc, NEW cp, NEW dc, NEW x, NEW at, NEW n, NEW c, NEW name, NEW id, NEW d, NEW sc2,
         NEW dc2, DeclareStep(cs, cl, wk, sc, cp, dc, x, at, n, c, name, id, d, sc2, dc2)
  PROVE  /\ Sound([cs EXCEPT ![n] = d], cl, wk, sc2, cp, dc2, x, at)
         /\ d \in Compilers /\ d.scope_depth = c.scope_depth /\ dc2 = dc + 1 /\ dc2 \in Nat
<1>a. /\ Sound(cs, cl, wk, sc, cp, dc, x, at) /\ n = Len(cs) /\ c = cs[n]
      /\ name \in Names /\ ~Undeclarable(c, name)
      /\ id = <<"declaration", dc + 1>> /\ d = define_variable(declare_variable(c, name, id))
      /\ sc2 = IF c.scope_depth = 0 THEN sc ELSE BindIn(sc, name, id)
      /\ dc2 = dc + 1
  BY DEF DeclareStep
<1>b. Plain(wk) \/ c.scope_depth = 0
  BY DEF DeclareStep
<1> USE <1>a, <1>b
<1> DEFINE f == FramesOf(wk, x, at)
           fr == f[n]
<1>1. /\ Core(cs, sc, cp, dc, f) /\ cs \in Seq(Compilers) /\ n >= 1 /\ n \in Nat /\ c \in Compilers /\ fr \in Frames
      /\ Stacked(c, fr) /\ Slots(c, n, fr, dc) /\ Len(c.locals) >= 1 /\ dc \in Nat
  BY Current
<1>2. c.scope_depth \in Nat /\ dc + 1 \in Nat /\ dc <= dc + 1
  BY <1>1, CompilerFacts
<1>3. CASE c.scope_depth = 0
  <2>1. d = c /\ sc2 = sc
    BY <1>3 DEF define_variable, declare_variable
  <2> QED BY <2>1, <1>1, <1>2, SoundGlobal
<1>4. CASE c.scope_depth # 0
  <2>1. c.scope_depth > 0 /\ d = define_variable(add_local(c, name, id)) /\ sc2 = BindIn(sc, name, id) /\ Plain(wk)
    BY <1>2, <1>4 DEF declare_variable
  <2>2. fr.wait = "no" /\ fr.temps = 0 /\ ~HasSuper(sc, Len(sc)) /\ Len(sc) >= 1
    BY <2>1, Place
  <2>3. id \in Ids /\ name \in LocalNames /\ name # "super" /\ name \in Names \cup {"super"}
    BY <1>2, NamesAreIdentifiers DEF Ids, LocalNames
  <2>4. Extended(c, d, name, c.scope_depth, id) /\ Pushed(c, d, d.locals[Len(d.locals)].id)
    BY <2>1, <2>3, <1>1, DeclaredFacts
  <2> HIDE DEF f, fr
  <2>5. Framed(sc, c, n, fr, dc) /\ Len(sc) = fr.top /\ sc \in Seq(LexicalScopes)
    BY <1>1, LastFacts DEF fr
  <2>6. name \notin DOMAIN sc[Len(sc)].names
    BY <2>1, <2>5, <1>1, NotYetNamed
  <2>7. Renamed(sc, sc2, name, id)
    BY <2>1, <2>2, <2>3, <2>5, BindFacts
  <2>8. d \in Compilers /\ Added(c, d, name, c.scope_depth, id) /\ d.upvalues = c.upvalues
    BY <2>4 DEF Extended
  <2>9. CoreAt(cs, n, d, sc2, cp, dc + 1, f, fr)
    <3>1. Declaring(sc, c, fr, sc2, d, fr, name, c.scope_depth, id)
      BY <1>1, <2>1, <2>2, <2>3, <2>6, <2>7, <2>8 DEF Declaring
    <3>2. NextId(dc, dc + 1, id)
      BY <1>1 DEF NextId
    <3> QED BY <3>1, <3>2, <1>1, <1>2, CoreDeclare DEF fr
  <2>10. Ready(d, fr)
    <3>1. Len(d.locals) = Len(c.locals) + 1 /\ \A i \in DOMAIN c.locals : d.locals[i] = c.locals[i]
      BY <2>8 DEF Added
    <3>2. Filled(c, fr) = Len(c.locals) /\ DOMAIN c.locals = 1..Len(c.locals)
      BY <2>2, <1>1, CompilerFacts DEF Filled
    <3>3. \A i \in 1..Filled(c, fr) : d.locals[i].id = c.locals[i].id
      BY <3>1, <3>2
    <3>4. Len(d.locals) = Filled(c, fr) + 1 /\ d \in Compilers
      BY <3>1, <3>2, <2>8
    <3>5. Stacked(d, fr)
      BY <3>3, <3>4, <2>2, <2>4, <1>1, StackedValue
    <3> QED BY <3>5, <2>2 DEF Ready
  <2>11. SuperLocals(cs, [cs EXCEPT ![n] = d])
    BY <2>3, <2>4, <1>1, SuperLocalsAdded
  <2>12. SuperScopes(sc, sc2) /\ SameSupers(sc, sc2, Len(sc)) /\ Len(sc2) = Len(sc)
    BY <2>2, <2>3, <2>5, <2>7, RenamedSupers DEF Renamed
  <2>13. Sound([cs EXCEPT ![n] = d], cl, wk, sc2, cp, dc + 1, x, at)
    BY <2>9, <2>10, <2>11, <2>12, SoundLast DEF f, fr
  <2> QED BY <2>8, <2>13, <1>1, <1>2 DEF Added
<1>5. Sound([cs EXCEPT ![n] = d], cl, wk, sc2, cp, dc + 1, x, at) /\ d \in Compilers /\ d.scope_depth = c.scope_depth
  BY <1>3, <1>4
<1> QED BY <1>1, <1>5

\* A type on the stack, which methods or members are given to.
LEMMA SoundTyped ==
  ASSUME NEW cs, NEW cl, NEW wk, NEW sc, NEW cp, NEW dc, NEW x, NEW at, Sound(cs, cl, wk, sc, cp, dc, x, at),
         NEW n, n = Len(cs), NEW c, c = cs[n], NEW form, NEW cl2,
         \/ form = "enum" /\ Plain(wk) /\ cl2 = cl
         \/ form = "class" /\ cl2 = Append(cl, FALSE) /\ (Plain(wk) \/ wk[Len(wk)] = "class")
  PROVE  \E x2, at2 : Sound([cs EXCEPT ![n] = WithTemporary(c)], cl2, Append(wk, form), sc, cp, dc, x2, at2)
<1> DEFINE f == FramesOf(wk, x, at)
           fr == f[n]
           s == x[Len(wk) + 1]
           d == WithTemporary(c)
           t == [fns |-> s.fns, classes |-> IF form = "class" THEN s.classes + 1 ELSE s.classes,
                 base |-> s.base, top |-> s.top, temps |-> s.temps + 1]
           g == FrameAt(Append(wk, form), Append(x, t), Len(wk) + 2)
           cs2 == [cs EXCEPT ![n] = d]
           f2 == [f EXCEPT ![n] = g]
<1>1. /\ Core(cs, sc, cp, dc, f) /\ Supers(cs, cl, sc) /\ AllStacked(cs, f) /\ Working(wk, cl, x, at, n, sc)
      /\ n \in Nat /\ n >= 1 /\ c \in Compilers /\ fr \in Frames /\ Stacked(c, fr)
      /\ Len(c.locals) >= 1 /\ cs \in Seq(Compilers) /\ f \in Seq(Frames) /\ Len(f) = n /\ dc \in Nat
  BY Current
<1>2. Len(x) = Len(wk) + 1 /\ Len(wk) \in Nat /\ cl \in Seq(BOOLEAN) /\ Len(cl) \in Nat
  BY <1>1, WorkFacts
<1>3. /\ At(n, c, fr, s) /\ s.classes = Len(cl) /\ s.top = Len(sc)
      /\ fr.wait = IF c.scope_depth > 0 /\ Len(wk) >= 1 /\ wk[Len(wk)] = "var" THEN "var" ELSE "no"
  BY CurrentSettings
<1>4. s \in Settings /\ s.classes \in Nat /\ s.temps \in Nat /\ s.top \in Nat /\ s.base \in Nat
  BY <1>3 DEF At
<1>5. wk # <<>> => wk[Len(wk)] # "var"
  BY DEF Plain
<1>6. fr.wait = "no"
  <2>1. Len(wk) >= 1 => wk # <<>>
    BY <1>2
  <2> QED BY <2>1, <1>3, <1>5
<1>7. /\ cl2 \in Seq(BOOLEAN) /\ Len(cl2) = IF form = "class" THEN Len(cl) + 1 ELSE Len(cl)
      /\ \A a \in DOMAIN cl : a \in DOMAIN cl2 /\ cl2[a] = cl[a]
      /\ form = "class" => cl2[Len(cl) + 1] = FALSE
      /\ SuperClasses(cl, cl2)
  <2>1. CASE form = "enum"
    <3>1. cl2 = cl /\ form # "class"
      BY <2>1
    <3> QED BY <3>1, <1>2, SameClasses, Zenon
  <2>2. CASE form = "class"
    <3>1. cl2 = Append(cl, FALSE)
      BY <2>2
    <3>2. SuperClasses(cl, cl2)
      BY <3>1, <1>2, AppendClass, Zenon
    <3>3. ASSUME NEW v \in BOOLEAN
          PROVE  /\ Append(cl, v) \in Seq(BOOLEAN) /\ Len(Append(cl, v)) = Len(cl) + 1 /\ Append(cl, v)[Len(cl) + 1] = v
                 /\ \A a \in DOMAIN cl : a \in DOMAIN Append(cl, v) /\ Append(cl, v)[a] = cl[a]
      BY <1>2
    <3> QED BY <3>1, <3>2, <3>3, <2>2, Zenon
  <2> QED BY <2>1, <2>2
<1>8. /\ t \in Settings /\ t.base = s.base /\ t.top = s.top /\ t.temps = s.temps + 1 /\ t.fns = s.fns
      /\ t.classes = IF form = "class" THEN s.classes + 1 ELSE s.classes
  BY <1>4 DEF Settings
<1>9. form \in Forms /\ form \notin Fns /\ form \in {"class", "enum"} /\ form # "var"
  BY DEF Forms, Fns
<1> HIDE DEF t
<1>10. Follows(form, s, t, cl2)
  <2>1. form = "class" => ~cl2[t.classes]
    <3>1. form = "class" => t.classes = Len(cl) + 1
      BY <1>3, <1>8
    <3> QED BY <3>1, <1>7
  <2>2. form \notin Fns \cup {"block"}
    BY <1>9 DEF Fns
  <2> QED BY <2>1, <2>2, <1>4, <1>8, <1>9, FollowsIs
<1> HIDE DEF f, fr, t, g, d, cs2, f2
<1>11. Begins(wk, cl, x, sc, form, t, cl2, sc)
  <2>1. Follows(form, x[Len(x)], t, cl2)
    BY <1>2, <1>10
  <2>2. t.classes = Len(cl2) /\ t.top = Len(sc)
    BY <1>3, <1>7, <1>8
  <2>3. form = "class" => ~cl2[t.classes]
    <3>1. form = "class" => t.classes = Len(cl) + 1
      BY <1>3, <1>8
    <3> QED BY <3>1, <1>7
  <2>4. SameSupers(sc, sc, Len(sc))
    BY DEF SameSupers
  <2>5. form # "params" /\ form \notin Fns \cup {"block"} /\ ~(wk # <<>> /\ wk[Len(wk)] = "var")
    BY <1>5 DEF Fns
  <2> QED BY <2>1, <2>2, <2>3, <2>4, <2>5, <1>7, <1>8, <1>9, Zenon DEF Begins
<1>12. g \in Frames /\ g.base = t.base /\ g.top = t.top /\ g.temps = t.temps /\ g.wait = "no"
  <2>1. /\ g \in Frames /\ g.base = t.base /\ g.top = t.top /\ g.temps = t.temps
        /\ g.wait = IF t.top # t.base /\ form = "var" THEN "var" ELSE "no"
    BY <1>1, <1>9, <1>11, BeginFrame DEF g
  <2> QED BY <2>1, <1>9
<1>13. /\ d \in Compilers /\ d.locals = c.locals /\ Pushed(c, d, Temporary)
       /\ d.upvalues = c.upvalues /\ d.scope_depth = c.scope_depth
  BY <1>1, ScopeFacts DEF d
<1>14. g.base = fr.base /\ g.top = fr.top /\ g.temps = fr.temps + 1
  BY <1>3, <1>8, <1>12 DEF At
<1>15. Core(cs2, sc, cp, dc, f2)
  <2>1. Resumes(c, fr, d, g)
    BY <1>6, <1>12, <1>13, <1>14 DEF Resumes
  <2>2. dc <= dc
    BY <1>1
  <2>3. CoreAt(cs, n, d, sc, cp, dc, f, g)
    BY <1>1, <2>1, <2>2, CoreAgain DEF fr
  <2> QED BY <2>3 DEF cs2, f2, CoreAt
<1>16. Supers(cs2, cl2, sc)
  <2>1. SuperLocals(cs, cs2)
    BY <1>1, <1>13, SuperLocalsSame DEF cs2
  <2>2. SuperScopes(sc, sc)
    BY DEF SuperScopes
  <2> QED BY <2>1, <2>2, <1>1, <1>7, SupersAgain
<1>17. AllStacked(cs2, f2)
  <2>1. Stacked(d, g)
    BY <1>1, <1>6, <1>12, <1>13, <1>14, StackedTemporary
  <2>2. Ready(d, g)
    BY <2>1, <1>12 DEF Ready
  <2> QED BY <2>2, <1>1, StackedLast DEF cs2, f2
<1>18. Len(cs2) = n
  BY <1>1 DEF cs2
<1>19. Sound(cs2, cl2, Append(wk, form), sc, cp, dc, Append(x, t), [at EXCEPT ![n] = Len(x) + 1])
  BY <1>9, <1>11, <1>15, <1>16, <1>17, <1>18, SoundBegin DEF f, f2, g
<1> QED BY <1>19 DEF cs2, d

-----------------------------------------------------------------------------
(* A construct begins or ends in the function.                             *)

\* The settings a construct leaves what stands in it; super tells that it opened the scope of a superclass.
NextSettings(form, s, super) ==
  [fns     |-> IF form \in Fns THEN s.fns + 1 ELSE s.fns,
   classes |-> IF form = "class" THEN s.classes + 1 ELSE s.classes,
   base    |-> IF form \in Fns THEN s.top ELSE s.base,
   top     |-> IF form \in Fns \cup {"block"} \/ super THEN s.top + 1 ELSE s.top,
   temps   |-> IF form \in Fns THEN 0 ELSE IF form \in {"class", "enum"} THEN s.temps + 1 ELSE s.temps]

\* What the settings of a construct that begins are.
LEMMA NextFacts ==
  ASSUME NEW form \in Forms, NEW s \in Settings, NEW super \in BOOLEAN, NEW cl,
         super <=> (form = "class" /\ cl[s.classes + 1])
  PROVE  LET t == NextSettings(form, s, super)
         IN  /\ t \in Settings /\ Follows(form, s, t, cl)
             /\ t.fns = IF form \in Fns THEN s.fns + 1 ELSE s.fns
             /\ t.classes = IF form = "class" THEN s.classes + 1 ELSE s.classes
             /\ t.base = IF form \in Fns THEN s.top ELSE s.base
             /\ t.top = IF form \in Fns \cup {"block"} \/ super THEN s.top + 1 ELSE s.top
             /\ t.temps = IF form \in Fns THEN 0 ELSE IF form \in {"class", "enum"} THEN s.temps + 1 ELSE s.temps
<1> DEFINE t == NextSettings(form, s, super)
<1>1. s.fns \in Nat /\ s.classes \in Nat /\ s.base \in Nat /\ s.top \in Nat /\ s.temps \in Nat
  BY DEF Settings
<1>2. /\ t.fns = IF form \in Fns THEN s.fns + 1 ELSE s.fns
      /\ t.classes = IF form = "class" THEN s.classes + 1 ELSE s.classes
      /\ t.base = IF form \in Fns THEN s.top ELSE s.base
      /\ t.top = IF form \in Fns \cup {"block"} \/ super THEN s.top + 1 ELSE s.top
      /\ t.temps = IF form \in Fns THEN 0 ELSE IF form \in {"class", "enum"} THEN s.temps + 1 ELSE s.temps
  BY DEF NextSettings
<1>3. t \in Settings
  BY <1>1 DEF NextSettings, Settings
<1> HIDE DEF t
<1>4. super <=> (form = "class" /\ cl[t.classes])
  BY <1>2
<1>5. t.top = IF form \in Fns \cup {"block"} \/ (form = "class" /\ cl[t.classes]) THEN s.top + 1 ELSE s.top
  BY <1>2, <1>4
<1>6. Follows(form, s, t, cl)
  BY <1>2, <1>3, <1>5, FollowsIs
<1> QED BY <1>2, <1>3, <1>6 DEF t

\* The frame that a construct other than a function gives the compiler.
NewFrame(t, form) ==
  [base |-> t.base, top |-> t.top, temps |-> t.temps,
   wait |-> IF t.top # t.base /\ form = "var" THEN "var" ELSE "no"]

\* A construct begins, and changes the last compiler.
LEMMA SoundOpened ==
  ASSUME NEW cs, NEW cl, NEW wk, NEW sc, NEW cp, NEW dc, NEW x, NEW at, Sound(cs, cl, wk, sc, cp, dc, x, at),
         NEW n, n = Len(cs), NEW f, f = FramesOf(wk, x, at),
         NEW form, form \notin Fns, NEW t, NEW cl2, NEW sc2, Begins(wk, cl, x, sc, form, t, cl2, sc2),
         NEW g, g = NewFrame(t, form), NEW d, NEW dc2, CoreAt(cs, n, d, sc2, cp, dc2, f, g), Ready(d, g),
         Supers([cs EXCEPT ![n] = d], cl2, sc2)
  PROVE  \E x2, at2 : Sound([cs EXCEPT ![n] = d], cl2, Append(wk, form), sc2, cp, dc2, x2, at2)
<1> DEFINE h == FrameAt(Append(wk, form), Append(x, t), Len(wk) + 2)
           f2 == [f EXCEPT ![n] = h]
           cs2 == [cs EXCEPT ![n] = d]
<1>1. /\ AllStacked(cs, f) /\ Working(wk, cl, x, at, n, sc) /\ n \in Nat /\ n >= 1
      /\ cs \in Seq(Compilers) /\ f \in Seq(Frames) /\ Len(f) = n
  BY Current
<1>2. h = g
  <2>1. /\ h.base = t.base /\ h.top = t.top /\ h.temps = t.temps
        /\ h.wait = IF t.top # t.base /\ form = "var" THEN "var" ELSE "no"
    BY <1>1, BeginFrame
  <2> QED BY <2>1 DEF NewFrame, FrameAt
<1> HIDE DEF h, f2, cs2
<1>3. Core(cs2, sc2, cp, dc2, f2)
  BY <1>2 DEF CoreAt, cs2, f2
<1>4. AllStacked(cs2, f2)
  BY <1>1, <1>2, StackedLast DEF cs2, f2
<1>5. Len(cs2) = n
  BY <1>1 DEF cs2
<1>6. Sound(cs2, cl2, Append(wk, form), sc2, cp, dc2, Append(x, t), [at EXCEPT ![n] = Len(x) + 1])
  <2>1. Supers(cs2, cl2, sc2)
    BY DEF cs2
  <2> QED BY <2>1, <1>3, <1>4, <1>5, SoundBegin DEF h, f2
<1> QED BY <1>6 DEF cs2

\* Where a declaration may stand, no var waits.
LEMMA PlainFacts ==
  ASSUME NEW wk, Plain(wk)
  PROVE  ~(wk # <<>> /\ wk[Len(wk)] = "var")
BY DEF Plain

\* A construct other than a class may begin where it adds no superclass.
LEMMA BeginsPlainly ==
  ASSUME NEW wk, NEW cl \in Seq(BOOLEAN), NEW x, NEW sc, Len(x) = Len(wk) + 1, NEW s, s = x[Len(wk) + 1], s \in Settings,
         s.classes = Len(cl), NEW form \in Forms, form # "class", NEW t, t = NextSettings(form, s, FALSE),
         NEW sc2, t.top = Len(sc2), SameSupers(sc, sc2, Len(sc)),
         form # "enum" => t.temps = 0,
         wk # <<>> /\ wk[Len(wk)] = "var" => form = "lambda",
         form = "params" => wk # <<>> /\ wk[Len(wk)] \in Fns,
         form \in Fns \cup {"block"} => ~HasSuper(sc2, t.top)
  PROVE  Begins(wk, cl, x, sc, form, t, cl, sc2)
<1>1. t \in Settings /\ Follows(form, s, t, cl) /\ t.classes = s.classes
  BY NextFacts
<1>2. Follows(form, x[Len(x)], t, cl)
  BY <1>1
<1>3. form \notin {"class", "enum"} => t.temps = 0
  OBVIOUS
<1> QED BY <1>1, <1>2, <1>3, Zenon DEF Begins

\* The state stays sound when a block begins.
LEMMA SoundBlock ==
  ASSUME NEW cs, NEW cl, NEW wk, NEW sc, NEW cp, NEW dc, NEW x, NEW at, Sound(cs, cl, wk, sc, cp, dc, x, at),
         NEW n, n = Len(cs), NEW c, c = cs[n], Plain(wk)
  PROVE  \E x2, at2 : Sound([cs EXCEPT ![n] = Deeper(c)], cl, Append(wk, "block"),
                            Append(sc, Scope(n, EmptyScope)), cp, dc, x2, at2)
<1> DEFINE f == FramesOf(wk, x, at)
           fr == f[n]
           s == x[Len(wk) + 1]
           d == Deeper(c)
           t == NextSettings("block", s, FALSE)
           g == NewFrame(t, "block")
           sc2 == Append(sc, Scope(n, EmptyScope))
<1>1. /\ Core(cs, sc, cp, dc, f) /\ Supers(cs, cl, sc) /\ Working(wk, cl, x, at, n, sc)
      /\ n \in Nat /\ n >= 1 /\ c \in Compilers /\ fr \in Frames /\ Stacked(c, fr)
      /\ Len(c.locals) >= 1 /\ cs \in Seq(Compilers) /\ sc \in Seq(LexicalScopes) /\ dc \in Nat
  BY Current
<1>2. Len(x) = Len(wk) + 1 /\ Len(wk) \in Nat /\ cl \in Seq(BOOLEAN) /\ Len(cl) \in Nat
  BY <1>1, WorkFacts
<1>3. At(n, c, fr, s) /\ s.classes = Len(cl) /\ s.top = Len(sc)
  BY CurrentSettings
<1>4. fr.wait = "no" /\ fr.temps = 0 /\ s.temps = 0
  BY Place
<1>5. /\ fr.base = s.base /\ fr.top = s.top /\ fr.temps = s.temps /\ s \in Settings
      /\ s.base \in Nat /\ s.top \in Nat /\ s.temps \in Nat
  BY <1>3 DEF At
<1>6. "block" \in Forms /\ "block" \notin Fns /\ FALSE \in BOOLEAN
  BY DEF Forms, Fns
<1>7. t \in Settings /\ t.base = s.base /\ t.top = s.top + 1 /\ t.temps = 0
  <2>1. t \in Settings /\ t.base = s.base /\ t.top = s.top + 1 /\ t.temps = s.temps
    <3>1. FALSE <=> ("block" = "class" /\ cl[s.classes + 1])
      OBVIOUS
    <3> QED BY <3>1, <1>5, <1>6, NextFacts DEF Fns
  <2> QED BY <2>1, <1>4
<1> HIDE DEF t
<1>8. g \in Frames /\ g.base = fr.base /\ g.top = fr.top + 1 /\ g.temps = 0 /\ g.wait = "no"
  BY <1>5, <1>7 DEF NewFrame, Frames, Settings
<1> HIDE DEF g
<1>9. Scope(n, EmptyScope) \in LexicalScopes /\ DOMAIN Scope(n, EmptyScope).names = {}
  BY <1>1, EmptyNames
<1>10. Len(sc2) = Len(sc) + 1 /\ SameSupers(sc, sc2, Len(sc)) /\ ~HasSuper(sc2, Len(sc) + 1) /\ SuperScopes(sc, sc2)
  BY <1>1, <1>9, OpenScope
<1> HIDE DEF sc2
<1>11. Begins(wk, cl, x, sc, "block", t, cl, sc2)
  <2>1. t.top = Len(sc2) /\ ~HasSuper(sc2, t.top)
    BY <1>3, <1>7, <1>10
  <2>2. ~(wk # <<>> /\ wk[Len(wk)] = "var")
    BY PlainFacts
  <2> QED BY <2>1, <2>2, <1>2, <1>3, <1>5, <1>6, <1>7, <1>10, BeginsPlainly DEF t
<1>12. d \in Compilers /\ d.locals = c.locals /\ d.stack = c.stack /\ d.upvalues = c.upvalues /\ d.scope_depth = c.scope_depth + 1
  BY <1>1, ScopeFacts
<1> HIDE DEF d
<1>13. CoreAt(cs, n, d, sc2, cp, dc, f, g)
  <2>1. Opens(c, fr, d, g)
    BY <1>4, <1>8, <1>12 DEF Opens
  <2> QED BY <2>1, <1>1, CoreOpen DEF sc2
<1>14. Ready(d, g)
  <2>1. Stacked(d, g)
    BY <1>1, <1>4, <1>8, <1>12, StackedSame
  <2> QED BY <2>1, <1>8 DEF Ready
<1>15. Supers([cs EXCEPT ![n] = d], cl, sc2)
  <2>1. SuperLocals(cs, [cs EXCEPT ![n] = d])
    BY <1>1, <1>12, SuperLocalsSame
  <2> QED BY <2>1, <1>1, <1>10, SameClasses, SupersAgain
<1> HIDE DEF f
<1>16. \E x2, at2 : Sound([cs EXCEPT ![n] = d], cl, Append(wk, "block"), sc2, cp, dc, x2, at2)
  BY <1>6, <1>11, <1>13, <1>14, <1>15, SoundOpened DEF f, g
<1> QED BY <1>16 DEF d, sc2

\* The state stays sound when a var is declared: its local waits for its value.
LEMMA SoundVar ==
  ASSUME NEW cs, NEW cl, NEW wk, NEW sc, NEW cp, NEW dc, NEW x, NEW at, Sound(cs, cl, wk, sc, cp, dc, x, at),
         NEW n, n = Len(cs), NEW c, c = cs[n], NEW name \in Names, ~Undeclarable(c, name), Plain(wk),
         NEW id, id = <<"declaration", dc + 1>>, NEW d, d = declare_variable(c, name, id),
         NEW sc2, sc2 = IF c.scope_depth = 0 THEN sc ELSE BindIn(sc, name, id)
  PROVE  \E x2, at2 : Sound([cs EXCEPT ![n] = d], cl, Append(wk, "var"), sc2, cp, dc + 1, x2, at2)
<1> DEFINE f == FramesOf(wk, x, at)
           fr == f[n]
           s == x[Len(wk) + 1]
           t == NextSettings("var", s, FALSE)
           g == NewFrame(t, "var")
<1>1. /\ Core(cs, sc, cp, dc, f) /\ Supers(cs, cl, sc) /\ Working(wk, cl, x, at, n, sc)
      /\ n \in Nat /\ n >= 1 /\ c \in Compilers /\ fr \in Frames /\ Stacked(c, fr) /\ Slots(c, n, fr, dc)
      /\ Len(c.locals) >= 1 /\ cs \in Seq(Compilers) /\ sc \in Seq(LexicalScopes) /\ dc \in Nat
  BY Current
<1>2. Len(x) = Len(wk) + 1 /\ Len(wk) \in Nat /\ cl \in Seq(BOOLEAN) /\ Len(cl) \in Nat
  BY <1>1, WorkFacts
<1>3. At(n, c, fr, s) /\ s.classes = Len(cl) /\ s.top = Len(sc)
  BY CurrentSettings
<1>4. /\ fr.wait = "no" /\ fr.temps = 0 /\ s.temps = 0
      /\ (c.scope_depth > 0 => ~HasSuper(sc, Len(sc)) /\ Len(sc) >= 1)
  BY Place
<1>5. /\ fr.base = s.base /\ fr.top = s.top /\ fr.temps = s.temps /\ s \in Settings
      /\ s.base \in Nat /\ s.top \in Nat /\ s.temps \in Nat
      /\ c.scope_depth \in Nat /\ s.base + c.scope_depth = s.top
  BY <1>3 DEF At
<1>6. "var" \in Forms /\ "var" \notin Fns /\ FALSE \in BOOLEAN
  BY DEF Forms, Fns
<1>7. t \in Settings /\ t.base = s.base /\ t.top = s.top /\ t.temps = 0
  <2>1. FALSE <=> ("var" = "class" /\ cl[s.classes + 1])
    OBVIOUS
  <2>2. t \in Settings /\ t.base = s.base /\ t.top = s.top /\ t.temps = s.temps
    BY <2>1, <1>5, <1>6, NextFacts DEF Fns
  <2> QED BY <2>2, <1>4
<1> HIDE DEF t
<1>8. /\ g \in Frames /\ g.base = fr.base /\ g.top = fr.top /\ g.temps = 0
      /\ g.wait = IF c.scope_depth > 0 THEN "var" ELSE "no"
  <2>1. (t.top # t.base) <=> c.scope_depth > 0
    BY <1>5, <1>7
  <2> QED BY <2>1, <1>5, <1>7 DEF NewFrame, Frames, Settings
<1> HIDE DEF g
<1>9. id \in Ids /\ name \in LocalNames /\ name # "super" /\ name \in Names \cup {"super"}
  <2>1. dc + 1 \in Nat
    BY <1>1
  <2> QED BY <2>1, NamesAreIdentifiers DEF Ids, LocalNames
<1>10. SuperScopes(sc, sc2) /\ SameSupers(sc, sc2, Len(sc)) /\ Len(sc2) = Len(sc)
  <2>1. CASE c.scope_depth = 0
    BY <2>1 DEF SuperScopes, SameSupers
  <2>2. CASE c.scope_depth # 0
    <3>1. c.scope_depth > 0 /\ sc2 = BindIn(sc, name, id)
      BY <2>2, <1>5
    <3>2. Renamed(sc, sc2, name, id)
      BY <3>1, <1>1, <1>4, <1>9, BindFacts
    <3> QED BY <3>1, <3>2, <1>1, <1>4, <1>9, RenamedSupers DEF Renamed
  <2> QED BY <2>1, <2>2
<1>11. Begins(wk, cl, x, sc, "var", t, cl, sc2)
  <2>1. t.top = Len(sc2)
    BY <1>3, <1>7, <1>10
  <2>2. ~(wk # <<>> /\ wk[Len(wk)] = "var") /\ "var" \notin Fns \cup {"block"}
    BY PlainFacts, <1>6
  <2> QED BY <2>1, <2>2, <1>2, <1>3, <1>5, <1>6, <1>7, <1>10, BeginsPlainly DEF t
<1>12. NextId(dc, dc + 1, id)
  BY <1>1 DEF NextId
<1>13. /\ CoreAt(cs, n, d, sc2, cp, dc + 1, f, g) /\ Ready(d, g)
       /\ SuperLocals(cs, [cs EXCEPT ![n] = d])
  <2>1. CASE c.scope_depth = 0
    <3>1. d = c /\ sc2 = sc /\ g.wait = "no"
      BY <2>1, <1>8 DEF declare_variable
    <3>2. Resumes(c, fr, d, g)
      BY <3>1, <1>1, <1>4, <1>8 DEF Resumes
    <3>3. dc <= dc + 1 /\ dc + 1 \in Nat
      BY <1>1
    <3>4. CoreAt(cs, n, d, sc, cp, dc + 1, f, g)
      BY <3>2, <3>3, <1>1, CoreAgain
    <3>5. Stacked(d, g)
      BY <3>1, <1>1, <1>4, <1>8, StackedSame
    <3>6. SuperLocals(cs, [cs EXCEPT ![n] = d])
      BY <3>1, <1>1, SuperLocalsSame
    <3> QED BY <3>1, <3>4, <3>5, <3>6 DEF Ready
  <2>2. CASE c.scope_depth # 0
    <3>1. c.scope_depth > 0 /\ d = add_local(c, name, id) /\ sc2 = BindIn(sc, name, id) /\ g.wait = "var"
      BY <2>2, <1>5, <1>8 DEF declare_variable
    <3>2. Extended(c, d, name, -1, id) /\ d.stack = c.stack
      BY <3>1, <1>1, <1>9, AddLocalFacts
    <3>3. Framed(sc, c, n, fr, dc) /\ Len(sc) = fr.top
      BY <1>1, LastFacts
    <3>4. name \notin DOMAIN sc[Len(sc)].names
      BY <3>1, <3>3, <1>1, NotYetNamed
    <3>5. Renamed(sc, sc2, name, id)
      BY <3>1, <1>1, <1>4, <1>9, BindFacts
    <3>6. d \in Compilers /\ Added(c, d, name, -1, id) /\ d.upvalues = c.upvalues
      BY <3>2 DEF Extended
    <3>7. Declaring(sc, c, fr, sc2, d, g, name, -1, id)
      BY <3>1, <3>4, <3>5, <3>6, <1>4, <1>8, <1>9 DEF Declaring
    <3>8. dc + 1 \in Nat
      BY <1>1
    <3>9. CoreAt(cs, n, d, sc2, cp, dc + 1, f, g)
      BY <3>7, <3>8, <1>1, <1>12, CoreDeclare
    <3>10. Len(d.locals) = Len(c.locals) + 1 /\ \A i \in DOMAIN c.locals : d.locals[i].id = c.locals[i].id
      BY <3>6 DEF Added
    <3>11. Stacked(d, g)
      <4>1. g.wait # "no"
        BY <3>1
      <4>2. d \in Compilers /\ d.stack = c.stack /\ fr.wait = "no" /\ fr.temps = 0 /\ g.temps = 0 /\ g \in Frames
        BY <3>2, <3>6, <1>4, <1>8
      <4>3. c \in Compilers /\ fr \in Frames /\ Stacked(c, fr) /\ Len(c.locals) >= 1
        BY <1>1
      <4> HIDE DEF fr
      <4> QED BY ONLY <4>1, <4>2, <4>3, <3>10, StackedWait
    <3>12. SuperLocals(cs, [cs EXCEPT ![n] = d])
      BY <3>2, <1>1, <1>9, SuperLocalsAdded
    <3> QED BY <3>1, <3>9, <3>11, <3>12 DEF Ready
  <2> QED BY <2>1, <2>2
<1>14. Supers([cs EXCEPT ![n] = d], cl, sc2)
  BY <1>1, <1>10, <1>13, SameClasses, SupersAgain
<1> HIDE DEF f
<1> DEFINE dc2 == dc + 1
<1>15. CoreAt(cs, n, d, sc2, cp, dc2, f, g) /\ Ready(d, g)
  BY <1>13
<1> HIDE DEF dc2
<1>16. \E x2, at2 : Sound([cs EXCEPT ![n] = d], cl, Append(wk, "var"), sc2, cp, dc2, x2, at2)
  <2>1. Sound(cs, cl, wk, sc, cp, dc, x, at) /\ n = Len(cs) /\ f = FramesOf(wk, x, at) /\ g = NewFrame(t, "var")
    BY DEF f, g
  <2> QED BY ONLY <2>1, <1>6, <1>11, <1>14, <1>15, SoundOpened
<1> QED BY <1>16 DEF dc2

\* The frame that is back when a construct other than a function ends.
OldFrame(wk, s) ==
  [base |-> s.base, top |-> s.top, temps |-> s.temps,
   wait |-> IF s.top # s.base /\ Len(wk) >= 2 /\ wk[Len(wk) - 1] = "var" THEN "var" ELSE "no"]

\* A construct ends, and changes the last compiler.
LEMMA SoundClosed ==
  ASSUME NEW cs, NEW cl, NEW wk, NEW sc, NEW cp, NEW dc, NEW x, NEW at, Sound(cs, cl, wk, sc, cp, dc, x, at),
         NEW n, n = Len(cs), NEW f, f = FramesOf(wk, x, at),
         NEW cl2, NEW sc2, Ends(wk, cl, x, cl2, sc, sc2), wk[Len(wk)] \notin Fns,
         NEW g, g = OldFrame(wk, x[Len(wk)]), NEW d, NEW cp2, CoreAt(cs, n, d, sc2, cp2, dc, f, g), Ready(d, g),
         Supers([cs EXCEPT ![n] = d], cl2, sc2)
  PROVE  \E x2, at2 : Sound([cs EXCEPT ![n] = d], cl2, Front(wk), sc2, cp2, dc, x2, at2)
<1> DEFINE h == FrameAt(Front(wk), Front(x), Len(wk))
           f2 == [f EXCEPT ![n] = h]
           cs2 == [cs EXCEPT ![n] = d]
           s == x[Len(wk)]
<1>1. /\ AllStacked(cs, f) /\ Working(wk, cl, x, at, n, sc) /\ n \in Nat /\ n >= 1
      /\ cs \in Seq(Compilers) /\ f \in Seq(Frames) /\ Len(f) = n
  BY Current
<1>2. h = g
  <2>1. /\ h.base = s.base /\ h.top = s.top /\ h.temps = s.temps
        /\ h.wait = IF s.top # s.base /\ Len(wk) >= 2 /\ wk[Len(wk) - 1] = "var" THEN "var" ELSE "no"
    BY <1>1, EndFrame
  <2> QED BY <2>1 DEF OldFrame, FrameAt
<1> HIDE DEF h, f2, cs2
<1>3. Core(cs2, sc2, cp2, dc, f2)
  BY <1>2 DEF CoreAt, cs2, f2
<1>4. AllStacked(cs2, f2)
  BY <1>1, <1>2, StackedLast DEF cs2, f2
<1>5. Len(cs2) = n
  BY <1>1 DEF cs2
<1>6. Sound(cs2, cl2, Front(wk), sc2, cp2, dc, Front(x), [at EXCEPT ![n] = Len(wk)])
  <2>1. Supers(cs2, cl2, sc2)
    BY DEF cs2
  <2> QED BY <2>1, <1>3, <1>4, <1>5, SoundEnd DEF h, f2
<1> QED BY <1>6 DEF cs2

\* What the innermost construct, form, was given (s) and gave (t).
LEMMA InnermostFacts ==
  ASSUME NEW wk, NEW cl, NEW x, NEW at, NEW n, NEW sc, Working(wk, cl, x, at, n, sc), wk # <<>>,
         NEW form, form = wk[Len(wk)], NEW s, s = x[Len(wk)], NEW t, t = x[Len(wk) + 1]
  PROVE  /\ Len(wk) \in Nat /\ Len(wk) >= 1 /\ form \in Forms /\ s \in Settings /\ t \in Settings
         /\ Follows(form, s, t, cl)
         /\ t.classes = IF form = "class" THEN s.classes + 1 ELSE s.classes
         /\ t.fns = IF form \in Fns THEN s.fns + 1 ELSE s.fns
         /\ t.temps = IF form \in Fns THEN 0 ELSE IF form \in {"class", "enum"} THEN s.temps + 1 ELSE s.temps
         /\ t.base = IF form \in Fns THEN s.top ELSE s.base
         /\ t.top = IF form \in Fns \cup {"block"} \/ (form = "class" /\ cl[t.classes]) THEN s.top + 1 ELSE s.top
         /\ s.classes \in Nat /\ s.base \in Nat /\ s.top \in Nat /\ s.temps \in Nat /\ s.fns \in Nat
         /\ t.classes = Len(cl) /\ t.top = Len(sc) /\ t.fns = n
<1> DEFINE w == Len(wk)
<1>1. /\ wk \in Seq(Forms) /\ w \in Nat /\ Len(x) = w + 1
      /\ \A p \in 1..w : wk[p] \in Forms
      /\ \A p \in 1..w + 1 : x[p] \in Settings /\ x[p].classes \in Nat /\ x[p].base \in Nat /\ x[p].top \in Nat
                             /\ x[p].temps \in Nat /\ x[p].fns \in Nat
  BY WorkFacts
<1>2. w >= 1
  BY <1>1, EmptySeq
<1> HIDE DEF w
<1>3. w \in 1..w /\ w \in 1..w + 1 /\ w + 1 \in 1..w + 1
  BY <1>1, <1>2
<1>4. form \in Forms /\ s \in Settings /\ t \in Settings
  BY <1>1, <1>3 DEF w
<1>5. Follows(form, s, t, cl)
  BY <1>3 DEF w, Working, Trail
<1>6. t.classes = Len(cl) /\ t.top = Len(sc) /\ t.fns = n
  BY <1>1 DEF w, Working, Ending
<1>7. /\ t.classes = IF form = "class" THEN s.classes + 1 ELSE s.classes
      /\ t.fns = IF form \in Fns THEN s.fns + 1 ELSE s.fns
      /\ t.temps = IF form \in Fns THEN 0 ELSE IF form \in {"class", "enum"} THEN s.temps + 1 ELSE s.temps
      /\ t.base = IF form \in Fns THEN s.top ELSE s.base
      /\ t.top = IF form \in Fns \cup {"block"} \/ (form = "class" /\ cl[t.classes]) THEN s.top + 1 ELSE s.top
  BY <1>4, <1>5, FollowsFacts
<1>8. s.classes \in Nat /\ s.base \in Nat /\ s.top \in Nat /\ s.temps \in Nat /\ s.fns \in Nat
  BY <1>1, <1>3 DEF w
<1> QED BY <1>1, <1>2, <1>4, <1>5, <1>6, <1>7, <1>8 DEF w

\* A construct other than a class ends.
LEMMA EndsPlainly ==
  ASSUME NEW wk, NEW cl, NEW x, NEW at, NEW n, NEW sc, Working(wk, cl, x, at, n, sc), wk # <<>>,
         wk[Len(wk)] # "class", NEW sc2, Len(sc2) = x[Len(wk)].top, SameSupers(sc, sc2, Len(sc2))
  PROVE  Ends(wk, cl, x, cl, sc, sc2)
<1>1. Len(wk) >= 1 /\ x[Len(wk)].classes = Len(cl)
  BY InnermostFacts
<1>2. cl \in Seq(BOOLEAN)
  BY DEF Working
<1> QED BY <1>1, <1>2, Zenon DEF Ends

\* The frame of a construct that ends, where no class or enum does.
LEMMA OldFrameFacts ==
  ASSUME NEW cs, NEW cl, NEW wk, NEW sc, NEW cp, NEW dc, NEW x, NEW at, Sound(cs, cl, wk, sc, cp, dc, x, at), wk # <<>>,
         NEW form, form = wk[Len(wk)], form \notin Fns, NEW s, s = x[Len(wk)], NEW g, g = OldFrame(wk, s),
         NEW n, n = Len(cs), NEW fr, fr = FramesOf(wk, x, at)[n]
  PROVE  /\ g \in Frames /\ g.base = fr.base /\ g.base = s.base /\ g.top = s.top /\ g.temps = s.temps
         /\ fr.top = x[Len(wk) + 1].top /\ fr.temps = x[Len(wk) + 1].temps
         /\ form # "lambda" => g.wait = "no"
         /\ form \notin {"class", "enum"} => fr.temps = 0 /\ g.temps = 0
<1> DEFINE t == x[Len(wk) + 1]
           c == cs[n]
<1>1. Working(wk, cl, x, at, n, sc)
  BY Current
<1>2. /\ Len(wk) \in Nat /\ Len(wk) >= 1 /\ s \in Settings
      /\ t.temps = IF form \in {"class", "enum"} THEN s.temps + 1 ELSE s.temps
      /\ t.base = s.base /\ s.base \in Nat /\ s.top \in Nat /\ s.temps \in Nat
  BY <1>1, InnermostFacts
<1>3. At(n, c, fr, t)
  BY CurrentSettings
<1>4. fr.base = t.base /\ fr.top = t.top /\ fr.temps = t.temps
  BY <1>3 DEF At
<1>5. g \in Frames /\ g.base = s.base /\ g.top = s.top /\ g.temps = s.temps
  BY <1>2 DEF OldFrame, Frames
<1>6. ASSUME Len(wk) >= 2, wk[Len(wk) - 1] = "var"
      PROVE  form = "lambda"
  <2>1. Len(wk) - 1 \in 1..Len(wk) /\ Len(wk) - 1 < Len(wk) /\ Len(wk) - 1 + 1 = Len(wk)
    BY <1>2, <1>6
  <2>2. Ordered(wk, x)
    BY <1>1 DEF Working
  <2>3. wk[Len(wk) - 1 + 1] = "lambda"
    BY <2>1, <2>2, <1>6 DEF Ordered
  <2> QED BY <2>1, <2>3
<1>7. form # "lambda" => g.wait = "no"
  BY <1>6 DEF OldFrame
<1>8. ASSUME form \notin {"class", "enum"} PROVE t.temps = 0
  <2>1. Len(wk) \in 1..Len(wk)
    BY <1>2
  <2> QED BY <2>1, <1>1, <1>8 DEF Working, Ordered
<1> QED BY <1>2, <1>4, <1>5, <1>7, <1>8

\* The state stays sound when the parameters end.
LEMMA SoundBody ==
  ASSUME NEW cs, NEW cl, NEW wk, NEW sc, NEW cp, NEW dc, NEW x, NEW at, Sound(cs, cl, wk, sc, cp, dc, x, at),
         NEW n, n = Len(cs), NEW c, c = cs[n], wk # <<>>, wk[Len(wk)] = "params"
  PROVE  \E x2, at2 : Sound(cs, cl, Front(wk), sc, cp, dc, x2, at2)
<1> DEFINE f == FramesOf(wk, x, at)
           fr == f[n]
           g == OldFrame(wk, x[Len(wk)])
<1>1. /\ Core(cs, sc, cp, dc, f) /\ Supers(cs, cl, sc) /\ Working(wk, cl, x, at, n, sc) /\ Ready(c, fr)
      /\ n \in Nat /\ n >= 1 /\ c \in Compilers /\ fr \in Frames /\ Stacked(c, fr)
      /\ Len(c.locals) >= 1 /\ cs \in Seq(Compilers) /\ dc \in Nat
      /\ fr = FrameAt(wk, x, Len(wk) + 1)
  BY Current
<1>2. "params" \notin Fns /\ "params" \notin {"class", "enum"} /\ "params" # "class" /\ "params" # "lambda"
  BY DEF Fns
<1>3. x[Len(wk)].top = x[Len(wk) + 1].top /\ x[Len(wk) + 1].top = Len(sc)
  BY <1>1, <1>2, InnermostFacts DEF Fns
<1>4. /\ g \in Frames /\ g.base = fr.base /\ g.top = fr.top /\ g.temps = 0 /\ fr.temps = 0 /\ g.wait = "no"
  BY <1>2, <1>3, OldFrameFacts
<1>5. fr.wait = "no"
  <2>1. fr.wait = IF c.scope_depth > 0 /\ Len(wk) >= 1 /\ wk[Len(wk)] = "var" THEN "var" ELSE "no"
    BY CurrentSettings
  <2> QED BY <2>1
<1> HIDE DEF f, fr, g
<1>6. Ends(wk, cl, x, cl, sc, sc)
  <2>1. SameSupers(sc, sc, Len(sc))
    BY DEF SameSupers
  <2> QED BY <2>1, <1>1, <1>2, <1>3, EndsPlainly
<1>7. CoreAt(cs, n, c, sc, cp, dc, f, g)
  <2>1. Resumes(c, fr, c, g)
    BY <1>1, <1>4, <1>5 DEF Resumes
  <2>2. dc <= dc
    BY <1>1
  <2> QED BY <2>1, <2>2, <1>1, CoreAgain DEF fr
<1>8. Ready(c, g)
  <2>1. Stacked(c, g)
    BY <1>1, <1>4, <1>5, StackedSame
  <2> QED BY <2>1, <1>4 DEF Ready
<1>9. [cs EXCEPT ![n] = c] = cs
  BY <1>1, ExceptSame
<1>10. Supers([cs EXCEPT ![n] = c], cl, sc)
  BY <1>1, <1>9
<1>11. \E x2, at2 : Sound([cs EXCEPT ![n] = c], cl, Front(wk), sc, cp, dc, x2, at2)
  <2>1. Sound(cs, cl, wk, sc, cp, dc, x, at) /\ n = Len(cs) /\ f = FramesOf(wk, x, at) /\ g = OldFrame(wk, x[Len(wk)])
    BY DEF f, g
  <2>2. wk[Len(wk)] \notin Fns
    BY <1>2
  <2> QED BY ONLY <2>1, <2>2, <1>6, <1>7, <1>8, <1>10, SoundClosed
<1> QED BY <1>9, <1>11

\* The state stays sound when a var gets its value.
LEMMA SoundEndVar ==
  ASSUME NEW cs, NEW cl, NEW wk, NEW sc, NEW cp, NEW dc, NEW x, NEW at, Sound(cs, cl, wk, sc, cp, dc, x, at),
         NEW n, n = Len(cs), NEW c, c = cs[n], wk # <<>>, wk[Len(wk)] = "var", NEW d, d = define_variable(c)
  PROVE  \E x2, at2 : Sound([cs EXCEPT ![n] = d], cl, Front(wk), sc, cp, dc, x2, at2)
<1> DEFINE f == FramesOf(wk, x, at)
           fr == f[n]
           g == OldFrame(wk, x[Len(wk)])
<1>1. /\ Core(cs, sc, cp, dc, f) /\ Supers(cs, cl, sc) /\ Working(wk, cl, x, at, n, sc) /\ Ready(c, fr)
      /\ n \in Nat /\ n >= 1 /\ c \in Compilers /\ fr \in Frames /\ Stacked(c, fr)
      /\ Len(c.locals) >= 1 /\ cs \in Seq(Compilers) /\ dc \in Nat /\ Len(wk) \in Nat
  BY Current
<1>2. "var" \notin Fns /\ "var" \notin {"class", "enum"} /\ "var" # "class" /\ "var" # "lambda"
  BY DEF Fns
<1>3. x[Len(wk)].top = x[Len(wk) + 1].top /\ x[Len(wk) + 1].top = Len(sc) /\ Len(wk) >= 1
  BY <1>1, <1>2, InnermostFacts DEF Fns
<1>4. /\ g \in Frames /\ g.base = fr.base /\ g.top = fr.top /\ g.temps = 0 /\ fr.temps = 0 /\ g.wait = "no"
  BY <1>2, <1>3, OldFrameFacts
<1>5. fr.wait = IF c.scope_depth > 0 THEN "var" ELSE "no"
  <2>1. fr.wait = IF c.scope_depth > 0 /\ Len(wk) >= 1 /\ wk[Len(wk)] = "var" THEN "var" ELSE "no"
    BY CurrentSettings
  <2> QED BY <2>1, <1>3
<1>6. c.scope_depth \in Nat /\ DOMAIN c.locals = 1..Len(c.locals) /\ Len(c.locals) \in Nat
  BY <1>1, CompilerFacts
<1> HIDE DEF f, fr, g
<1>7. Ends(wk, cl, x, cl, sc, sc)
  <2>1. SameSupers(sc, sc, Len(sc))
    BY DEF SameSupers
  <2> QED BY <2>1, <1>1, <1>2, <1>3, EndsPlainly
<1>8. /\ CoreAt(cs, n, d, sc, cp, dc, f, g) /\ Ready(d, g)
      /\ SuperLocals(cs, [cs EXCEPT ![n] = d])
  <2>1. CASE c.scope_depth = 0
    <3>1. d = c /\ fr.wait = "no"
      BY <2>1, <1>5 DEF define_variable
    <3>2. Resumes(c, fr, d, g)
      BY <3>1, <1>1, <1>4 DEF Resumes
    <3>3. dc <= dc
      BY <1>1
    <3>4. CoreAt(cs, n, d, sc, cp, dc, f, g)
      BY <3>2, <3>3, <1>1, CoreAgain DEF fr
    <3>5. Stacked(d, g)
      BY <3>1, <1>1, <1>4, StackedSame
    <3>6. SuperLocals(cs, [cs EXCEPT ![n] = d])
      BY <3>1, <1>1, SuperLocalsSame
    <3> QED BY <3>4, <3>5, <3>6, <1>4 DEF Ready
  <2>2. CASE c.scope_depth # 0
    <3> DEFINE m == mark_initialized(c)
    <3>1. c.scope_depth > 0 /\ fr.wait = "var"
      BY <2>2, <1>5, <1>6
    <3>2. /\ m \in Compilers /\ m.scope_depth = c.scope_depth /\ m.upvalues = c.upvalues /\ m.stack = c.stack
          /\ Len(m.locals) = Len(c.locals) /\ DOMAIN m.locals = DOMAIN c.locals
          /\ \A i \in DOMAIN c.locals : i # Len(c.locals) => m.locals[i] = c.locals[i]
          /\ m.locals[Len(c.locals)] = [c.locals[Len(c.locals)] EXCEPT !.depth = c.scope_depth]
      BY <3>1, <1>1, MarkFacts
    <3>3. /\ d \in Compilers /\ d.locals = m.locals /\ d.scope_depth = m.scope_depth /\ d.upvalues = m.upvalues
          /\ Pushed(c, d, d.locals[Len(d.locals)].id)
      BY <3>1, <1>1, DefineFacts
    <3> HIDE DEF m
    <3>4. Len(c.locals) \in DOMAIN c.locals /\ c.locals[Len(c.locals)] \in Locals
      BY <1>1, <1>6, CompilerFacts
    <3>5. \A i \in DOMAIN c.locals :
            /\ d.locals[i].name = c.locals[i].name /\ d.locals[i].id = c.locals[i].id
            /\ d.locals[i].is_captured = c.locals[i].is_captured
            /\ d.locals[i].depth = IF i = Len(c.locals) THEN c.scope_depth ELSE c.locals[i].depth
      <4> SUFFICES ASSUME NEW i \in DOMAIN c.locals
                   PROVE  /\ d.locals[i].name = c.locals[i].name /\ d.locals[i].id = c.locals[i].id
                          /\ d.locals[i].is_captured = c.locals[i].is_captured
                          /\ d.locals[i].depth = IF i = Len(c.locals) THEN c.scope_depth ELSE c.locals[i].depth
        OBVIOUS
      <4>1. CASE i # Len(c.locals)
        BY <4>1, <3>2, <3>3
      <4>2. CASE i = Len(c.locals)
        BY <4>2, <3>2, <3>3, <3>4 DEF Locals
      <4> QED BY <4>1, <4>2
    <3>6. Initializes(c, fr, d, g)
      BY <3>1, <3>2, <3>3, <3>5, <1>4 DEF Initializes
    <3>7. CoreAt(cs, n, d, sc, cp, dc, f, g)
      BY <3>6, <1>1, CoreInitialize DEF fr
    <3>8. Filled(c, fr) = Len(c.locals) - 1
      BY <3>1 DEF Filled
    <3>9. Len(d.locals) = Filled(c, fr) + 1 /\ \A i \in 1..Filled(c, fr) : d.locals[i].id = c.locals[i].id
      BY <3>2, <3>3, <3>5, <3>8, <1>6
    <3>10. Stacked(d, g)
      BY <3>3, <3>9, <1>1, <1>4, StackedValue
    <3>11. SuperLocals(cs, [cs EXCEPT ![n] = d])
      <4>1. DOMAIN d.locals = DOMAIN c.locals
        BY <3>2, <3>3
      <4>2. /\ d \in Compilers /\ DOMAIN d.locals \subseteq DOMAIN cs[n].locals
            /\ \A i \in DOMAIN d.locals : d.locals[i].name = cs[n].locals[i].name /\ d.locals[i].id = cs[n].locals[i].id
        BY <4>1, <3>3, <3>5
      <4> QED BY <4>2, <1>1, SuperLocalsSame
    <3> QED BY <3>7, <3>10, <3>11, <1>4 DEF Ready
  <2> QED BY <2>1, <2>2
<1>9. Supers([cs EXCEPT ![n] = d], cl, sc)
  <2>1. SuperScopes(sc, sc)
    BY DEF SuperScopes
  <2> QED BY <2>1, <1>1, <1>8, SameClasses, SupersAgain
<1>10. \E x2, at2 : Sound([cs EXCEPT ![n] = d], cl, Front(wk), sc, cp, dc, x2, at2)
  <2>1. Sound(cs, cl, wk, sc, cp, dc, x, at) /\ n = Len(cs) /\ f = FramesOf(wk, x, at) /\ g = OldFrame(wk, x[Len(wk)])
    BY DEF f, g
  <2>2. wk[Len(wk)] \notin Fns
    BY <1>2
  <2> QED BY ONLY <2>1, <2>2, <1>7, <1>8, <1>9, SoundClosed
<1> QED BY <1>10

\* The state stays sound when a block ends.
LEMMA SoundEndBlock ==
  ASSUME NEW cs, NEW cl, NEW wk, NEW sc, NEW cp, NEW dc, NEW x, NEW at, Sound(cs, cl, wk, sc, cp, dc, x, at),
         NEW n, n = Len(cs), NEW c, c = cs[n], wk # <<>>, wk[Len(wk)] = "block", NEW d, d = end_scope(c)
  PROVE  \E x2, at2 : Sound([cs EXCEPT ![n] = d], cl, Front(wk), Front(sc), cp \ Range(Last(sc).names), dc, x2, at2)
<1> DEFINE f == FramesOf(wk, x, at)
           fr == f[n]
           s == x[Len(wk)]
           t == x[Len(wk) + 1]
           g == OldFrame(wk, s)
           sc2 == Front(sc)
<1>1. /\ Core(cs, sc, cp, dc, f) /\ Supers(cs, cl, sc) /\ Working(wk, cl, x, at, n, sc)
      /\ n \in Nat /\ n >= 1 /\ c \in Compilers /\ fr \in Frames /\ Stacked(c, fr) /\ Slots(c, n, fr, dc)
      /\ Len(c.locals) >= 1 /\ cs \in Seq(Compilers) /\ dc \in Nat /\ Len(wk) \in Nat /\ sc \in Seq(LexicalScopes)
  BY Current
<1>2. "block" \notin Fns /\ "block" \notin {"class", "enum"} /\ "block" # "class" /\ "block" # "lambda"
  BY DEF Fns
<1>3. /\ t.top = s.top + 1 /\ t.top = Len(sc) /\ t.base = s.base /\ s.top \in Nat /\ s.base \in Nat /\ Len(wk) >= 1
      /\ s.fns = n /\ s.fns \in Nat
  BY <1>1, <1>2, InnermostFacts
<1>4. /\ g \in Frames /\ g.base = fr.base /\ g.base = s.base /\ g.top = s.top /\ g.temps = 0 /\ fr.temps = 0
      /\ fr.top = t.top /\ g.wait = "no"
  BY <1>2, OldFrameFacts
<1>5. fr.wait = "no"
  <2>1. fr.wait = IF c.scope_depth > 0 /\ Len(wk) >= 1 /\ wk[Len(wk)] = "var" THEN "var" ELSE "no"
    BY CurrentSettings
  <2> QED BY <2>1
<1>6. c.scope_depth \in Nat /\ s.base + c.scope_depth = t.top
  <2>1. At(n, c, fr, t)
    BY CurrentSettings
  <2> QED BY <2>1, <1>3 DEF At
<1>7. ~HasSuper(sc, Len(sc))
  <2>1. Superseded(wk, cl, x, sc) /\ Len(wk) \in 1..Len(wk)
    BY <1>1, <1>3 DEF Working
  <2>2. wk[Len(wk)] \in Fns \cup {"block"}
    OBVIOUS
  <2> QED BY <2>1, <2>2, <1>3 DEF Superseded
<1>8. s.base <= s.top /\ (n > 1 => s.base < s.top)
  <2>1. Trail(wk, cl, x) /\ Len(wk) \in DOMAIN x
    BY <1>1, <1>3, WorkFacts DEF Working
  <2> QED BY <2>1, <1>3 DEF Trail
<1> HIDE DEF f, fr, g, s, t, sc2
<1>9. c.scope_depth > 0 /\ Len(sc) >= 1
  BY <1>3, <1>6, <1>8
<1>10. sc2 \in Seq(LexicalScopes) /\ Len(sc2) = Len(sc) - 1 /\ SameSupers(sc, sc2, Len(sc2)) /\ SuperScopes(sc, sc2)
  BY <1>1, <1>7, <1>9, ShutScope DEF sc2
<1>11. Ends(wk, cl, x, cl, sc, sc2)
  <2>1. Len(sc2) = x[Len(wk)].top
    BY <1>3, <1>10 DEF s
  <2> QED BY <2>1, <1>1, <1>2, <1>10, EndsPlainly
<1>12. Filled(c, fr) = Len(c.locals) /\ Len(c.stack) = Len(c.locals) /\ Len(c.locals) \in Nat
  <2>1. Filled(c, fr) = Len(c.locals)
    BY <1>5 DEF Filled
  <2>2. Len(c.stack) = Filled(c, fr) + fr.temps /\ Len(c.locals) \in Nat
    BY <1>1, StackFacts
  <2> QED BY <2>1, <2>2, <1>4
<1>13. PICK kept \in DOMAIN c.locals :
           /\ Cut(c, d, kept) /\ d \in Compilers /\ d.upvalues = c.upvalues
           /\ d.stack = SubSeq(c.stack, 1, kept) /\ kept \in Nat /\ kept >= 1 /\ kept <= Len(c.locals)
  BY <1>1, <1>9, <1>12, EndScopeFacts DEF Slots
<1>14. /\ Len(d.locals) = kept /\ \A i \in DOMAIN d.locals : i \in DOMAIN c.locals /\ d.locals[i] = c.locals[i]
  <2>1. DOMAIN d.locals = 1..Len(d.locals) /\ DOMAIN c.locals = 1..Len(c.locals)
    BY <1>1, <1>13, CompilerFacts
  <2> QED BY <2>1, <1>12, <1>13 DEF Cut
<1>15. CoreAt(cs, n, d, sc2, cp \ Range(Last(sc).names), dc, f, g)
  <2>1. g.top = fr.top - 1
    BY <1>3, <1>4
  <2>2. n = 1 \/ g.top > fr.base
    BY <1>1, <1>3, <1>4, <1>8
  <2>3. Closes(sc, n, c, fr, d, kept, g)
    BY <2>1, <2>2, <1>4, <1>5, <1>7, <1>9, <1>13 DEF Closes
  <2> QED BY <2>3, <1>1, CoreClose DEF fr, sc2
<1>16. Ready(d, g)
  <2>1. kept <= Len(c.stack) /\ kept = Len(d.locals) + g.temps /\ ~(g.temps > 0) /\ Len(d.locals) >= 1 /\ Len(d.locals) <= Len(c.locals)
    BY <1>4, <1>12, <1>13, <1>14
  <2>2. \A i \in DOMAIN d.locals : d.locals[i].id = c.locals[i].id
    BY <1>14
  <2>3. Stacked(d, g)
    BY <2>1, <2>2, <1>1, <1>4, <1>5, <1>13, StackedCut
  <2> QED BY <2>3, <1>4 DEF Ready
<1>17. Supers([cs EXCEPT ![n] = d], cl, sc2)
  <2>1. DOMAIN d.locals \subseteq DOMAIN cs[n].locals
        /\ \A i \in DOMAIN d.locals : d.locals[i].name = cs[n].locals[i].name /\ d.locals[i].id = cs[n].locals[i].id
    BY <1>14
  <2>2. SuperLocals(cs, [cs EXCEPT ![n] = d])
    BY <2>1, <1>1, <1>13, SuperLocalsSame
  <2> QED BY <2>2, <1>1, <1>10, SameClasses, SupersAgain
<1> DEFINE cp2 == cp \ Range(Last(sc).names)
<1>18. CoreAt(cs, n, d, sc2, cp2, dc, f, g)
  BY <1>15
<1> HIDE DEF cp2
<1>19. \E x2, at2 : Sound([cs EXCEPT ![n] = d], cl, Front(wk), sc2, cp2, dc, x2, at2)
  <2>1. Sound(cs, cl, wk, sc, cp, dc, x, at) /\ n = Len(cs) /\ f = FramesOf(wk, x, at) /\ g = OldFrame(wk, x[Len(wk)])
    BY DEF f, g, s
  <2>2. wk[Len(wk)] \notin Fns
    BY <1>2
  <2> QED BY ONLY <2>1, <2>2, <1>11, <1>18, <1>16, <1>17, SoundClosed
<1> QED BY <1>19 DEF sc2, cp2

-----------------------------------------------------------------------------
(* A subclass opens the scope of its superclass.                           *)

\* Replacing an element twice is replacing it once.
LEMMA ExceptTwice ==
  ASSUME NEW S, NEW s \in Seq(S), NEW n, NEW d, NEW e
  PROVE  [[s EXCEPT ![n] = d] EXCEPT ![n] = e] = [s EXCEPT ![n] = e]
OBVIOUS

\* The scope of a superclass, with its name.
SuperScope(n, id) == Scope(n, [m \in {"super"} |-> id])

\* The scope that binds super alone.
LEMMA SuperScopeFacts ==
  ASSUME NEW sc \in Seq(LexicalScopes), NEW n \in Nat, NEW id \in Ids
  PROVE  /\ SuperScope(n, id) \in LexicalScopes /\ DOMAIN SuperScope(n, id).names = {"super"}
         /\ SuperScope(n, id).fn = n /\ SuperScope(n, id).names["super"] = id
         /\ Renamed(Append(sc, Scope(n, EmptyScope)), Append(sc, SuperScope(n, id)), "super", id)
<1> DEFINE N == [m \in {"super"} |-> id]
           S == SuperScope(n, id)
           E == Scope(n, EmptyScope)
           sc1 == Append(sc, E)
           sc2 == Append(sc, S)
<1>1. S.fn = n /\ S.names = N /\ S = [fn |-> n, names |-> N]
  BY DEF SuperScope, Scope
<1>2. DOMAIN N = {"super"} /\ N["super"] = id /\ N \in [{"super"} -> Ids]
  OBVIOUS
<1>3. N \in Namings
  <2>1. {"super"} \in SUBSET (Names \cup {"self", "super"})
    OBVIOUS
  <2> QED BY <2>1, <1>2 DEF Namings
<1> HIDE DEF N, S
<1>4. S \in LexicalScopes
  BY <1>1, <1>3 DEF LexicalScopes
<1>5. E \in LexicalScopes /\ DOMAIN E.names = {} /\ E.fn = n
  BY EmptyNames
<1> HIDE DEF E
<1>6. /\ sc1 \in Seq(LexicalScopes) /\ Len(sc1) = Len(sc) + 1 /\ sc1[Len(sc) + 1] = E
      /\ \A h \in 1..Len(sc) : sc1[h] = sc[h]
  BY <1>5
<1>7. /\ sc2 \in Seq(LexicalScopes) /\ Len(sc2) = Len(sc) + 1 /\ sc2[Len(sc) + 1] = S
      /\ \A h \in 1..Len(sc) : sc2[h] = sc[h]
  BY <1>4
<1> HIDE DEF sc1, sc2
<1>8. NamedIn(sc1, sc2, Len(sc1), "super", id)
  BY <1>1, <1>2, <1>5, <1>6, <1>7 DEF NamedIn
<1>9. Len(sc) \in Nat
  OBVIOUS
<1>10. Renamed(sc1, sc2, "super", id)
  <2>1. \A h \in 1..Len(sc1) - 1 : sc2[h] = sc1[h]
    BY <1>6, <1>7, <1>9
  <2>2. sc2[Len(sc1)].fn = sc1[Len(sc1)].fn
    BY <1>1, <1>5, <1>6, <1>7
  <2> QED BY <2>1, <2>2, <1>6, <1>7, <1>8 DEF Renamed
<1> QED BY <1>1, <1>2, <1>4, <1>10 DEF S, E, sc1, sc2

\* The superclass becomes a local of a scope of its own: what the chain is then.
LEMMA CoreSuper ==
  ASSUME NEW cs, NEW sc, NEW cp, NEW dc, NEW f, Core(cs, sc, cp, dc, f),
         NEW n, n = Len(cs), NEW c, c = cs[n], NEW fr, fr = f[n], fr.wait = "no",
         NEW id, id = <<"declaration", dc + 1>>, NEW d, Extended(Deeper(c), d, "super", c.scope_depth + 1, id),
         NEW g \in Frames, g.base = fr.base, g.top = fr.top + 1, g.wait = "no",
         NEW dc2, dc2 = dc + 1
  PROVE  CoreAt(cs, n, d, Append(sc, SuperScope(n, id)), cp, dc2, f, g)
<1> DEFINE c1 == Deeper(c)
           sc1 == Append(sc, Scope(n, EmptyScope))
           sc2 == Append(sc, SuperScope(n, id))
           cs1 == [cs EXCEPT ![n] = c1]
           f1 == [f EXCEPT ![n] = g]
<1>1. /\ c \in Compilers /\ fr \in Frames /\ dc \in Nat /\ n \in Nat /\ n >= 1 /\ c.scope_depth \in Nat
      /\ sc \in Seq(LexicalScopes) /\ cs \in Seq(Compilers) /\ f \in Seq(Frames) /\ Len(f) = n
  BY LastFacts
<1>2. c1 \in Compilers /\ c1.locals = c.locals /\ c1.upvalues = c.upvalues /\ c1.scope_depth = c.scope_depth + 1
  BY <1>1, ScopeFacts
<1> HIDE DEF c1, sc1, sc2, cs1, f1
<1>3. CoreAt(cs, n, c1, sc1, cp, dc, f, g)
  <2>1. Opens(c, fr, c1, g)
    BY <1>2 DEF Opens
  <2> QED BY <2>1, CoreOpen DEF sc1
<1>4. Core(cs1, sc1, cp, dc, f1)
  BY <1>3 DEF CoreAt, cs1, f1
<1>5. Len(cs1) = n /\ cs1[n] = c1 /\ f1[n] = g
  BY <1>1 DEF cs1, f1
<1>6. id \in Ids /\ dc2 \in Nat /\ NextId(dc, dc2, id)
  <2>1. dc2 \in Nat /\ dc2 \in 1..dc2 /\ dc < dc2 /\ id = <<"declaration", dc2>>
    BY <1>1
  <2> QED BY <2>1 DEF Ids, NextId
<1>7. Renamed(sc1, sc2, "super", id)
  BY <1>1, <1>6, SuperScopeFacts DEF sc1, sc2
<1>8. DOMAIN sc1[Len(sc1)].names = {}
  <2>1. Scope(n, EmptyScope) \in LexicalScopes /\ DOMAIN Scope(n, EmptyScope).names = {}
    BY <1>1, EmptyNames
  <2>2. Len(sc1) = Len(sc) + 1 /\ sc1[Len(sc) + 1] = Scope(n, EmptyScope)
    BY <2>1, <1>1 DEF sc1
  <2> QED BY <2>1, <2>2
<1>9. d \in Compilers /\ Added(c1, d, "super", c1.scope_depth, id) /\ d.upvalues = c1.upvalues
  BY <1>2 DEF Extended, c1
<1>10. Declaring(sc1, c1, g, sc2, d, g, "super", c1.scope_depth, id)
  <2>1. c1.scope_depth > 0
    BY <1>1, <1>2
  <2>2. c1.scope_depth = IF g.wait = "var" THEN -1 ELSE c1.scope_depth
    OBVIOUS
  <2> QED BY <2>1, <2>2, <1>7, <1>8, <1>9 DEF Declaring
<1>11. CoreAt(cs1, n, d, sc2, cp, dc2, f1, g)
  BY <1>4, <1>5, <1>6, <1>10, CoreDeclare
<1>12. [cs1 EXCEPT ![n] = d] = [cs EXCEPT ![n] = d] /\ [f1 EXCEPT ![n] = g] = [f EXCEPT ![n] = g]
  BY <1>1, ExceptTwice DEF cs1, f1
<1> QED BY <1>11, <1>12 DEF CoreAt, sc2

\* If super is at home nowhere, no open scope has it.
LEMMA NoSuper ==
  ASSUME NEW sc \in Seq(LexicalScopes), HomeOf(sc, "super") = 0
  PROVE  \A h \in DOMAIN sc : ~HasSuper(sc, h)
<1>1. Len(sc) \in Nat /\ DOMAIN sc = 1..Len(sc)
  OBVIOUS
<1> QED BY <1>1, HomeFacts DEF HasSuper

SuperSettings(s) == NextSettings("class", s, TRUE)

\* The settings inside a subclass: one scope and one type more.
LEMMA NextClass ==
  ASSUME NEW s \in Settings, NEW cl, cl[s.classes + 1], NEW t, t = SuperSettings(s)
  PROVE  /\ t \in Settings /\ Follows("class", s, t, cl) /\ t.classes = s.classes + 1 /\ t.base = s.base
         /\ t.top = s.top + 1 /\ t.temps = s.temps + 1
<1>1. "class" \in Forms /\ "class" \notin Fns /\ "class" \notin Fns \cup {"block"}
  BY DEF Forms, Fns
<1>2. s.fns \in Nat /\ s.classes \in Nat /\ s.base \in Nat /\ s.top \in Nat /\ s.temps \in Nat
  BY DEF Settings
<1>3. t = [fns |-> s.fns, classes |-> s.classes + 1, base |-> s.base, top |-> s.top + 1, temps |-> s.temps + 1]
  BY <1>1 DEF NextSettings, SuperSettings
<1>4. t \in Settings /\ t.fns = s.fns /\ t.classes = s.classes + 1 /\ t.base = s.base
      /\ t.top = s.top + 1 /\ t.temps = s.temps + 1
  BY ONLY <1>2, <1>3 DEF Settings
<1>5. "class" \in {"class", "enum"} /\ cl[t.classes]
  BY <1>4, Zenon
<1>6. Follows("class", s, t, cl)
  BY <1>1, <1>4, <1>5, FollowsIs
<1> QED BY <1>4, <1>6

\* One superclass more.
Grew(cl, cl2) ==
  /\ cl2 \in Seq(BOOLEAN) /\ Len(cl2) = Len(cl) + 1
  /\ \A a \in DOMAIN cl : a \in DOMAIN cl2 /\ cl2[a] = cl[a]
  /\ cl2[Len(cl) + 1]

\* A subclass begins: the list of classes has one more.
LEMMA GrewByTrue ==
  ASSUME NEW cl \in Seq(BOOLEAN)
  PROVE  Grew(cl, Append(cl, TRUE))
<1>1. ASSUME NEW v \in BOOLEAN
      PROVE  /\ Append(cl, v) \in Seq(BOOLEAN) /\ Len(Append(cl, v)) = Len(cl) + 1 /\ Append(cl, v)[Len(cl) + 1] = v
             /\ \A a \in DOMAIN cl : a \in DOMAIN Append(cl, v) /\ Append(cl, v)[a] = cl[a]
  OBVIOUS
<1>2. TRUE \in BOOLEAN
  OBVIOUS
<1> QED BY <1>1, <1>2, Zenon DEF Grew

\* The state stays sound when a subclass opens the scope of its superclass.
LEMMA SoundSuper ==
  ASSUME NEW cs, NEW cl, NEW wk, NEW sc, NEW cp, NEW dc, NEW x, NEW at, Sound(cs, cl, wk, sc, cp, dc, x, at),
         NEW n, n = Len(cs), NEW c, c = cs[n], Plain(wk), HomeOf(sc, "super") = 0,
         NEW id, id = <<"declaration", dc + 1>>,
         NEW d, d = WithTemporary(define_variable(add_local(Deeper(c), "super", id))),
         NEW dc2, dc2 = dc + 1
  PROVE  \E x2, at2 : Sound([cs EXCEPT ![n] = d], Append(cl, TRUE), Append(wk, "class"),
                            Append(sc, SuperScope(n, id)), cp, dc2, x2, at2)
<1> DEFINE f == FramesOf(wk, x, at)
           fr == f[n]
           s == x[Len(wk) + 1]
           t == SuperSettings(s)
           g == NewFrame(t, "class")
           cl2 == Append(cl, TRUE)
           sc2 == Append(sc, SuperScope(n, id))
           e == define_variable(add_local(Deeper(c), "super", id))
           cs2 == [cs EXCEPT ![n] = d]
           w == Len(c.locals)
<1>1. /\ Core(cs, sc, cp, dc, f) /\ Supers(cs, cl, sc) /\ Working(wk, cl, x, at, n, sc)
      /\ n \in Nat /\ n >= 1 /\ c \in Compilers /\ fr \in Frames /\ Stacked(c, fr)
      /\ Len(c.locals) >= 1 /\ cs \in Seq(Compilers) /\ sc \in Seq(LexicalScopes) /\ dc \in Nat
  BY Current
<1>2. Len(x) = Len(wk) + 1 /\ Len(wk) \in Nat /\ cl \in Seq(BOOLEAN) /\ Len(cl) \in Nat
  BY <1>1, WorkFacts
<1>3. At(n, c, fr, s) /\ s.classes = Len(cl) /\ s.top = Len(sc)
  BY CurrentSettings
<1>4. fr.wait = "no" /\ fr.temps = 0 /\ s.temps = 0
  BY Place
<1>5. /\ fr.base = s.base /\ fr.top = s.top /\ fr.temps = s.temps /\ s \in Settings
      /\ s.base \in Nat /\ s.top \in Nat /\ s.temps \in Nat /\ c.scope_depth \in Nat
  BY <1>3 DEF At
<1>6. id \in Ids /\ "super" \in LocalNames /\ dc2 \in Nat
  <2>1. dc + 1 \in Nat
    BY <1>1
  <2> QED BY <2>1 DEF Ids, LocalNames
<1> HIDE DEF cl2
<1>7. /\ Begins(wk, cl, x, sc, "class", t, cl2, sc2)
      /\ t \in Settings /\ t.base = s.base /\ t.top = s.top + 1 /\ t.temps = s.temps + 1
  <2>1. Grew(cl, cl2)
    BY <1>2, GrewByTrue, Zenon DEF cl2
  <2>2. /\ cl2 \in Seq(BOOLEAN) /\ Len(cl2) = Len(cl) + 1
        /\ \A a \in DOMAIN cl : a \in DOMAIN cl2 /\ cl2[a] = cl[a]
        /\ cl2[Len(cl) + 1]
    BY <2>1, Zenon DEF Grew
  <2>3. Len(sc2) = Len(sc) + 1 /\ SameSupers(sc, sc2, Len(sc)) /\ HasSuper(sc2, Len(sc) + 1)
    <3>1. SuperScope(n, id) \in LexicalScopes /\ DOMAIN SuperScope(n, id).names = {"super"}
      BY <1>1, <1>6, SuperScopeFacts
    <3> QED BY <3>1, <1>1, OpenScope
  <2>4. /\ t \in Settings /\ Follows("class", s, t, cl2) /\ t.classes = s.classes + 1 /\ t.base = s.base
        /\ t.top = s.top + 1 /\ t.temps = s.temps + 1
    <3>1. cl2[s.classes + 1] /\ t = SuperSettings(s) /\ s \in Settings
      BY <2>2, <1>3, <1>5, Zenon
    <3> HIDE DEF t, s
    <3> QED BY ONLY <3>1, NextClass
  <2>5. s = x[Len(x)]
    BY <1>2
  <2> HIDE DEF sc2, t, s
  <2>6. t.classes = Len(cl2) /\ t.top = Len(sc2) /\ HasSuper(sc2, t.top) /\ Follows("class", x[Len(x)], t, cl2)
    BY <2>2, <2>3, <2>4, <2>5, <1>3
  <2>7. ~(wk # <<>> /\ wk[Len(wk)] = "var")
    BY PlainFacts
  <2>8. "class" \in Forms /\ "class" \notin Fns \cup {"block"}
    BY DEF Forms, Fns
  <2>9. Begins(wk, cl, x, sc, "class", t, cl2, sc2)
    BY <2>2, <2>3, <2>4, <2>6, <2>7, <2>8, Zenon DEF Begins
  <2> QED BY <2>4, <2>9
<1> HIDE DEF t, cl2
<1>8. g \in Frames /\ g.base = fr.base /\ g.top = fr.top + 1 /\ g.temps = 1 /\ g.wait = "no"
  BY <1>4, <1>5, <1>7 DEF NewFrame, Frames, Settings
<1> HIDE DEF g
<1>9. /\ Extended(Deeper(c), e, "super", c.scope_depth + 1, id) /\ Pushed(Deeper(c), e, e.locals[Len(e.locals)].id)
      /\ Deeper(c).stack = c.stack /\ Deeper(c).locals = c.locals
  <2>1. /\ Deeper(c) \in Compilers /\ Deeper(c).scope_depth = c.scope_depth + 1
        /\ Deeper(c).stack = c.stack /\ Deeper(c).locals = c.locals
    BY <1>1, ScopeFacts
  <2>2. Deeper(c).scope_depth > 0
    BY <2>1, <1>5
  <2> QED BY <2>1, <2>2, <1>6, DeclaredFacts
<1> HIDE DEF e
<1>10. /\ d \in Compilers /\ d.locals = e.locals /\ Pushed(e, d, Temporary) /\ e \in Compilers
       /\ d.upvalues = e.upvalues /\ d.scope_depth = e.scope_depth
  <2>1. e \in Compilers
    BY <1>9 DEF Extended
  <2>2. d = WithTemporary(e)
    BY DEF e
  <2> QED BY <2>1, <2>2, ScopeFacts
<1>11. Extended(Deeper(c), d, "super", c.scope_depth + 1, id)
  BY <1>9, <1>10 DEF Extended, Added
<1>12. CoreAt(cs, n, d, sc2, cp, dc2, f, g)
  BY <1>1, <1>4, <1>8, <1>11, CoreSuper DEF fr
<1>13. /\ Len(e.locals) = w + 1 /\ w \in Nat /\ e.locals[w + 1].id = id
       /\ \A i \in DOMAIN c.locals : e.locals[i] = c.locals[i]
       /\ DOMAIN c.locals = 1..w /\ DOMAIN e.locals = 1..w + 1
  <2>1. Added(Deeper(c), e, "super", c.scope_depth + 1, id)
    BY <1>9 DEF Extended
  <2>2. w \in Nat /\ DOMAIN c.locals = 1..w /\ DOMAIN e.locals = 1..Len(e.locals)
    BY <1>1, <1>10, CompilerFacts
  <2> QED BY <2>1, <2>2, <1>9 DEF Added
<1>14. Ready(d, g)
  <2> DEFINE h == [base |-> g.base, top |-> g.top, temps |-> 0, wait |-> "no"]
  <2>1. h \in Frames /\ h.temps = 0 /\ h.wait = "no"
    BY <1>8 DEF Frames
  <2> HIDE DEF h
  <2>2. Filled(c, fr) = w
    BY <1>4 DEF Filled
  <2>3. Pushed(c, e, e.locals[Len(e.locals)].id)
    BY <1>9 DEF Pushed
  <2>4. Len(e.locals) = Filled(c, fr) + 1 /\ \A i \in 1..Filled(c, fr) : e.locals[i].id = c.locals[i].id
    BY <2>2, <1>13
  <2>5. Stacked(e, h)
    <3>1. c \in Compilers /\ e \in Compilers /\ fr \in Frames /\ Len(c.locals) >= 1 /\ Stacked(c, fr) /\ fr.temps = 0
      BY <1>1, <1>4, <1>10
    <3> HIDE DEF fr
    <3> QED BY ONLY <2>1, <2>3, <2>4, <3>1, StackedValue
  <2>6. Stacked(d, g)
    <3>1. Len(e.locals) >= 1 /\ g.temps = h.temps + 1
      BY <1>8, <1>13, <2>1
    <3> QED BY <2>1, <2>5, <3>1, <1>8, <1>10, StackedTemporary
  <2> QED BY <2>6, <1>8 DEF Ready
<1>15. Supers(cs2, cl2, sc2)
  <2>1. /\ SuperScope(n, id) \in LexicalScopes /\ DOMAIN SuperScope(n, id).names = {"super"}
        /\ SuperScope(n, id).fn = n /\ SuperScope(n, id).names["super"] = id
    BY <1>1, <1>6, SuperScopeFacts
  <2>2. \A h \in DOMAIN sc : ~HasSuper(sc, h)
    BY <1>1, NoSuper
  <2>3. Apart(cs2)
    BY <1>12 DEF CoreAt, Core
  <2>4. cs2[n] = d /\ DOMAIN cs2 = 1..n
    BY <1>1
  <2> HIDE DEF cs2
  <2>5. w + 1 \in DOMAIN cs2[n].locals /\ cs2[n].locals[w + 1].id = SuperScope(n, id).names["super"]
        /\ \A j \in DOMAIN cs2[n].locals : j <= w + 1
    BY <2>1, <2>4, <1>10, <1>13
  <2> HIDE DEF w
  <2> QED BY <2>1, <2>2, <2>3, <2>4, <2>5, <1>1, <1>2, SupersOpen DEF cl2, sc2
<1> HIDE DEF f, sc2
<1>16. \E x2, at2 : Sound(cs2, cl2, Append(wk, "class"), sc2, cp, dc2, x2, at2)
  <2>1. Sound(cs, cl, wk, sc, cp, dc, x, at) /\ n = Len(cs) /\ f = FramesOf(wk, x, at) /\ g = NewFrame(t, "class")
    BY DEF f, g
  <2>2. "class" \notin Fns
    BY DEF Fns
  <2> QED BY ONLY <2>1, <2>2, <1>7, <1>12, <1>14, <1>15, SoundOpened
<1> QED BY <1>16 DEF cl2, sc2

-----------------------------------------------------------------------------
(* A function begins.                                                      *)

\* The compiler and the scope that a function begins with.
SubCompiler(form, k) == Deeper(init_compiler(form, k))

SubScopeOf(form, k) == Scope(k, IF form = "method" THEN [n \in {"self"} |-> <<"callee", k>>] ELSE EmptyScope)

\* A function's compiler begins with slot 1 alone, bound in its own scope.
LEMMA SubCompilerFacts ==
  ASSUME NEW form \in Fns, NEW k \in Nat
  PROVE  /\ SubCompiler(form, k) \in Compilers /\ SubScopeOf(form, k) \in LexicalScopes
         /\ Begun(SubCompiler(form, k), SubScopeOf(form, k), k)
         /\ Len(SubCompiler(form, k).locals) = 1 /\ SubCompiler(form, k).locals[1].name # "super"
         /\ SubCompiler(form, k).stack = <<SubCompiler(form, k).locals[1].id>>
         /\ "super" \notin DOMAIN SubScopeOf(form, k).names
<1> DEFINE i == init_compiler(form, k)
           d == Deeper(i)
           m == IF form = "method" THEN "self" ELSE ""
           l == [name |-> m, depth |-> 0, is_captured |-> FALSE, id |-> <<"callee", k>>]
           N == IF form = "method" THEN [n \in {"self"} |-> <<"callee", k>>] ELSE EmptyScope
           S == SubScopeOf(form, k)
<1>1. i = [fn_type |-> form, locals |-> <<l>>, scope_depth |-> 0, upvalues |-> <<>>, arity |-> 0,
           stack |-> <<<<"callee", k>>>>]
  BY DEF init_compiler
<1>2. <<"callee", k>> \in Ids /\ m \in LocalNames /\ m \in {"", "self"}
  BY DEF Ids, LocalNames
<1>3. l \in Locals /\ l.name = m /\ l.depth = 0 /\ l.is_captured = FALSE /\ l.id = <<"callee", k>>
  BY <1>2 DEF Locals
<1> DEFINE key == <<"callee", k>>
<1> HIDE DEF l, m
<1>4. <<l>> \in Seq(Locals) /\ Len(<<l>>) = 1 /\ <<l>>[1] = l
  BY <1>3
<1>5. <<key>> \in Seq(Ids \cup {Temporary})
  <2>1. key \in Ids \cup {Temporary}
    BY <1>2
  <2> HIDE DEF key
  <2> QED BY <2>1
<1>6. i \in Compilers
  <2>1. <<>> \in Seq(UpvalueInfos) /\ 0 \in Nat /\ form \in {"script"} \cup Fns
    OBVIOUS
  <2> HIDE DEF i
  <2> QED BY <2>1, <1>1, <1>4, <1>5, Zenon DEF Compilers
<1>7. i.locals = <<l>> /\ i.scope_depth = 0 /\ i.upvalues = <<>> /\ i.stack = <<key>>
  BY <1>1
<1> HIDE DEF i
<1>8. d \in Compilers /\ d.locals = <<l>> /\ d.stack = <<key>> /\ d.upvalues = <<>> /\ d.scope_depth = 1
  BY <1>6, <1>7, ScopeFacts
<1> HIDE DEF d
<1>9. Len(d.locals) = 1 /\ d.locals[1] = l
  BY <1>4, <1>8
<1>10. N \in Namings /\ DOMAIN N = {m} \ {""} /\ (m = "self" => N["self"] = key)
  <2>1. CASE form = "method"
    <3>1. N = [n \in {"self"} |-> key] /\ m = "self"
      BY <2>1 DEF m
    <3>2. N \in [{"self"} -> Ids] /\ {"self"} \in SUBSET (Names \cup {"self", "super"})
      BY <3>1, <1>2
    <3> HIDE DEF N
    <3> QED BY <3>1, <3>2 DEF Namings
  <2>2. CASE form # "method"
    <3>1. N = EmptyScope /\ m = ""
      BY <2>2 DEF m
    <3>2. Scope(k, EmptyScope) \in LexicalScopes /\ DOMAIN Scope(k, EmptyScope).names = {}
      BY EmptyNames
    <3>3. EmptyScope \in Namings /\ DOMAIN EmptyScope = {}
      BY <3>2 DEF LexicalScopes, Scope
    <3> QED BY <3>1, <3>3
  <2> QED BY <2>1, <2>2
<1>11. S = [fn |-> k, names |-> N]
  BY DEF SubScopeOf, Scope
<1> HIDE DEF N, S
<1>12. S \in LexicalScopes /\ S.fn = k /\ S.names = N
  BY <1>10, <1>11 DEF LexicalScopes
<1>13. Begun(d, S, k)
  <2>1. OwnSlot(d, k)
    BY <1>2, <1>3, <1>8, <1>9 DEF OwnSlot
  <2> QED BY <2>1, <1>3, <1>8, <1>9, <1>10, <1>12 DEF Begun
<1>14. "super" \notin DOMAIN S.names /\ d.locals[1].name # "super"
  <2>1. m # "super" /\ d.locals[1].name = m
    BY <1>2, <1>3, <1>9
  <2>2. DOMAIN S.names = {m} \ {""}
    BY <1>10, <1>12
  <2> QED BY <2>1, <2>2
<1>15. d.stack = <<d.locals[1].id>>
  BY <1>3, <1>8, <1>9
<1> QED BY <1>8, <1>9, <1>12, <1>13, <1>14, <1>15 DEF d, i, S, SubCompiler

\* The frames of a function that begins, and of the one around it.
FnFrame(wk, form, s) ==
  [base |-> s.base, top |-> s.top, temps |-> s.temps,
   wait |-> IF s.top = s.base THEN "no"
            ELSE IF Len(wk) >= 1 /\ wk[Len(wk)] = "var" THEN "var" ELSE IF form = "fn" THEN "fn" ELSE "no"]

BodyFrame(s) == [base |-> s.top, top |-> s.top + 1, temps |-> 0, wait |-> "no"]

\* Parameters come first in a function.
LEMMA SoundParams ==
  ASSUME NEW cs, NEW cl, NEW wk, NEW sc, NEW cp, NEW dc, NEW x, NEW at, Sound(cs, cl, wk, sc, cp, dc, x, at),
         NEW n, n = Len(cs), NEW c, c = cs[n], wk # <<>>, wk[Len(wk)] \in Fns
  PROVE  \E x2, at2 : Sound(cs, cl, Append(wk, "params"), sc, cp, dc, x2, at2)
<1> DEFINE f == FramesOf(wk, x, at)
           fr == f[n]
           s == x[Len(wk) + 1]
           t == NextSettings("params", s, FALSE)
           g == NewFrame(t, "params")
<1>1. /\ Core(cs, sc, cp, dc, f) /\ Supers(cs, cl, sc) /\ Working(wk, cl, x, at, n, sc)
      /\ n \in Nat /\ n >= 1 /\ c \in Compilers /\ fr \in Frames /\ Stacked(c, fr)
      /\ Len(c.locals) >= 1 /\ cs \in Seq(Compilers) /\ dc \in Nat
  BY Current
<1>2. Len(x) = Len(wk) + 1 /\ Len(wk) \in Nat /\ cl \in Seq(BOOLEAN) /\ Len(cl) \in Nat
  BY <1>1, WorkFacts
<1>3. At(n, c, fr, s) /\ s.classes = Len(cl) /\ s.top = Len(sc)
  BY CurrentSettings
<1>4. Plain(wk) /\ wk[Len(wk)] # "var"
  BY DEF Plain, Fns
<1>5. fr.wait = "no" /\ fr.temps = 0 /\ s.temps = 0
  BY <1>4, Place
<1>6. /\ fr.base = s.base /\ fr.top = s.top /\ fr.temps = s.temps /\ s \in Settings
      /\ s.base \in Nat /\ s.top \in Nat /\ s.temps \in Nat
  BY <1>3 DEF At
<1>7. "params" \in Forms /\ "params" \notin Fns /\ FALSE \in BOOLEAN /\ "params" \notin Fns \cup {"block"}
  BY DEF Forms, Fns
<1>8. t \in Settings /\ t.base = s.base /\ t.top = s.top /\ t.temps = 0
  <2>1. FALSE <=> ("params" = "class" /\ cl[s.classes + 1])
    OBVIOUS
  <2>3. s \in Settings /\ "params" \in Forms /\ "params" \notin Fns /\ "params" \notin {"class", "enum"} /\ t = NextSettings("params", s, FALSE)
    BY <1>6, <1>7
  <2> HIDE DEF t, s
  <2>2. t \in Settings /\ t.base = s.base /\ t.top = s.top /\ t.temps = s.temps
    BY ONLY <2>1, <2>3, NextFacts DEF Fns
  <2> QED BY <2>2, <1>5
<1> HIDE DEF t
<1>9. g \in Frames /\ g.base = fr.base /\ g.top = fr.top /\ g.temps = 0 /\ g.wait = "no"
  BY <1>6, <1>8 DEF NewFrame, Frames, Settings
<1> HIDE DEF g
<1>10. Begins(wk, cl, x, sc, "params", t, cl, sc)
  <2>1. t.top = Len(sc) /\ SameSupers(sc, sc, Len(sc))
    BY <1>3, <1>8 DEF SameSupers
  <2> QED BY <2>1, <1>2, <1>3, <1>4, <1>6, <1>7, <1>8, BeginsPlainly DEF t
<1> HIDE DEF fr
<1>11. CoreAt(cs, n, c, sc, cp, dc, f, g)
  <2>1. Resumes(c, fr, c, g)
    BY <1>1, <1>5, <1>9 DEF Resumes
  <2>2. dc <= dc
    BY <1>1
  <2> QED BY <2>1, <2>2, <1>1, CoreAgain DEF fr
<1>12. Ready(c, g)
  <2>1. Stacked(c, g)
    BY <1>1, <1>5, <1>9, StackedSame
  <2> QED BY <2>1, <1>9 DEF Ready
<1>13. [cs EXCEPT ![n] = c] = cs
  BY <1>1, ExceptSame
<1>14. Supers([cs EXCEPT ![n] = c], cl, sc)
  BY <1>1, <1>13
<1> HIDE DEF f
<1>15. \E x2, at2 : Sound([cs EXCEPT ![n] = c], cl, Append(wk, "params"), sc, cp, dc, x2, at2)
  <2>1. Sound(cs, cl, wk, sc, cp, dc, x, at) /\ n = Len(cs) /\ f = FramesOf(wk, x, at) /\ g = NewFrame(t, "params")
    BY DEF f, g
  <2> QED BY ONLY <2>1, <1>7, <1>10, <1>11, <1>12, <1>14, SoundOpened
<1> QED BY <1>13, <1>15

\* The settings of a function's body.
FnSettings(s) == [fns |-> s.fns + 1, classes |-> s.classes, base |-> s.top, top |-> s.top + 1, temps |-> 0]

\* The settings inside a function.
LEMMA FnSettingsFacts ==
  ASSUME NEW form \in Fns, NEW s \in Settings, NEW cl, NEW t, t = FnSettings(s)
  PROVE  /\ t \in Settings /\ Follows(form, s, t, cl) /\ t.fns = s.fns + 1 /\ t.classes = s.classes
         /\ t.base = s.top /\ t.top = s.top + 1 /\ t.temps = 0
<1>1. s.fns \in Nat /\ s.classes \in Nat /\ s.base \in Nat /\ s.top \in Nat /\ s.temps \in Nat
  BY DEF Settings
<1>2. t \in Settings /\ t.fns = s.fns + 1 /\ t.classes = s.classes /\ t.base = s.top /\ t.top = s.top + 1 /\ t.temps = 0
  BY <1>1 DEF FnSettings, Settings
<1>3. form # "class" /\ form \in Forms
  BY DEF Forms, Fns
<1>4. Follows(form, s, t, cl)
  BY <1>2, <1>3, FollowsIs
<1> QED BY <1>2, <1>4

\* A function begins in a chain and scopes that may have its name.
StartsFn(cs, sc, f, n, form, cs2, sc2, f2) ==
  /\ n = Len(cs) /\ form \in Fns
  /\ cs2 = Append(cs, SubCompiler(form, n + 1)) /\ sc2 = Append(sc, SubScopeOf(form, n + 1))
  /\ f2 = Append(f, BodyFrame(f[n]))

\* Compilers, scopes and stacks are sound when a function begins.
LEMMA CoreFn ==
  ASSUME NEW cs, NEW sc, NEW cp, NEW dc, NEW f, Core(cs, sc, cp, dc, f), NEW cl, Supers(cs, cl, sc), AllStacked(cs, f),
         NEW n, NEW form, NEW cs2, NEW sc2, NEW f2, StartsFn(cs, sc, f, n, form, cs2, sc2, f2)
  PROVE      /\ Core(cs2, sc2, cp, dc, f2) /\ Supers(cs2, cl, sc2) /\ AllStacked(cs2, f2)
             /\ Len(cs2) = n + 1 /\ Len(sc2) = Len(sc) + 1 /\ SameSupers(sc, sc2, Len(sc)) /\ ~HasSuper(sc2, Len(sc) + 1)
<1> DEFINE h == BodyFrame(f[n])
           fr == f[n]
           d == SubCompiler(form, n + 1)
           S == SubScopeOf(form, n + 1)
<1> USE DEF StartsFn
<1>1. /\ fr \in Frames /\ dc \in Nat /\ n \in Nat /\ n >= 1 /\ fr.top \in Nat /\ Len(sc) \in Nat
      /\ sc \in Seq(LexicalScopes) /\ cs \in Seq(Compilers) /\ f \in Seq(Frames) /\ Len(f) = n
  BY LastFacts
<1>2. n + 1 \in Nat
  BY <1>1
<1>3. h \in Frames /\ h.base = fr.top /\ h.top = fr.top + 1 /\ h.temps = 0 /\ h.wait = "no"
  BY <1>1 DEF BodyFrame, Frames
<1>4. /\ d \in Compilers /\ S \in LexicalScopes /\ Begun(d, S, n + 1) /\ Len(d.locals) = 1
      /\ d.locals[1].name # "super" /\ d.stack = <<d.locals[1].id>> /\ "super" \notin DOMAIN S.names
  BY <1>2, SubCompilerFacts
<1>0. cs2 = Append(cs, d) /\ sc2 = Append(sc, S) /\ f2 = Append(f, h)
  BY DEF StartsFn
<1> HIDE DEF fr, d, S, h
<1>5. Core(cs2, sc2, cp, dc, f2)
  BY <1>3, <1>4, <1>0, CoreNew DEF fr
<1>6. /\ Len(sc2) = Len(sc) + 1 /\ SameSupers(sc, sc2, Len(sc)) /\ ~HasSuper(sc2, Len(sc) + 1)
      /\ SuperScopes(sc, sc2)
  BY <1>1, <1>4, <1>0, OpenScope
<1>7. Supers(cs2, cl, sc2)
  <2>1. SuperLocals(cs, cs2)
    BY <1>1, <1>4, <1>0, SuperLocalsAppend
  <2> QED BY <2>1, <1>6, SameClasses, SupersAgain
<1>8. AllStacked(cs2, f2)
  <2>1. Stacked(d, h)
    BY <1>3, <1>4, StackedNew
  <2>2. Ready(d, h)
    BY <2>1, <1>3 DEF Ready
  <2> QED BY <2>2, <1>1, <1>3, <1>4, <1>0, StackedAppend
<1>9. Len(cs2) = n + 1
  BY <1>1, <1>0
<1> QED BY <1>5, <1>6, <1>7, <1>8, <1>9

FnStep(cs, cl, wk, sc, cp, dc, x, at, n, f, form, g, d, sc0, dc2, cs2, sc2, wk2) ==
  /\ Sound(cs, cl, wk, sc, cp, dc, x, at) /\ n = Len(cs) /\ f = FramesOf(wk, x, at) /\ form \in Fns
  /\ (wk # <<>> /\ wk[Len(wk)] = "var" => form = "lambda")
  /\ g = FnFrame(wk, form, x[Len(wk) + 1])
  /\ CoreAt(cs, n, d, sc0, cp, dc2, f, g) /\ Ready(d, g) /\ Supers([cs EXCEPT ![n] = d], cl, sc0)
  /\ Len(sc0) = Len(sc) /\ SameSupers(sc, sc0, Len(sc))
  /\ cs2 = Append([cs EXCEPT ![n] = d], SubCompiler(form, n + 1))
  /\ sc2 = Append(sc0, SubScopeOf(form, n + 1))
  /\ wk2 = Append(Append(wk, form), "params")

\* The state stays sound when a function begins, whatever its name did to the one around it.
LEMMA SoundFnStep ==
  ASSUME NEW cs, NEW cl, NEW wk, NEW sc, NEW cp, NEW dc, NEW x, NEW at, NEW n, NEW f, NEW form, NEW g, NEW d, NEW sc0,
         NEW dc2, NEW cs2, NEW sc2, NEW wk2,
         FnStep(cs, cl, wk, sc, cp, dc, x, at, n, f, form, g, d, sc0, dc2, cs2, sc2, wk2)
  PROVE  \E x2, at2 : Sound(cs2, cl, wk2, sc2, cp, dc2, x2, at2)
<1>a. /\ Sound(cs, cl, wk, sc, cp, dc, x, at) /\ n = Len(cs) /\ f = FramesOf(wk, x, at) /\ form \in Fns
      /\ g = FnFrame(wk, form, x[Len(wk) + 1])
      /\ CoreAt(cs, n, d, sc0, cp, dc2, f, g) /\ Ready(d, g) /\ Supers([cs EXCEPT ![n] = d], cl, sc0)
      /\ Len(sc0) = Len(sc) /\ SameSupers(sc, sc0, Len(sc))
      /\ cs2 = Append([cs EXCEPT ![n] = d], SubCompiler(form, n + 1))
      /\ sc2 = Append(sc0, SubScopeOf(form, n + 1))
      /\ wk2 = Append(Append(wk, form), "params")
  BY DEF FnStep
<1>b. wk # <<>> /\ wk[Len(wk)] = "var" => form = "lambda"
  BY DEF FnStep
<1> USE <1>a, <1>b
<1> DEFINE s == x[Len(wk) + 1]
           t == FnSettings(s)
           cs0 == [cs EXCEPT ![n] = d]
           f0 == [f EXCEPT ![n] = g]
           h == BodyFrame(g)
           f2 == Append(f0, h)
           wk1 == Append(wk, form)
           x1 == Append(x, t)
           at1 == Append(at, Len(x) + 1)
           g1 == FrameAt(wk1, x1, Len(wk) + 1)
           h1 == FrameAt(wk1, x1, Len(wk) + 2)
<1>1. /\ AllStacked(cs, f) /\ Working(wk, cl, x, at, n, sc) /\ n \in Nat /\ n >= 1
      /\ cs \in Seq(Compilers) /\ f \in Seq(Frames) /\ Len(f) = n
  BY Current
<1>2. Len(x) = Len(wk) + 1 /\ Len(wk) \in Nat /\ cl \in Seq(BOOLEAN) /\ wk \in Seq(Forms)
  BY <1>1, WorkFacts
<1>3. At(n, cs[n], f[n], s) /\ s.classes = Len(cl) /\ s.top = Len(sc)
  BY CurrentSettings
<1>4. s \in Settings /\ s.top \in Nat
  BY <1>3 DEF At
<1>5. /\ t \in Settings /\ Follows(form, s, t, cl) /\ t.classes = s.classes
      /\ t.base = s.top /\ t.top = s.top + 1 /\ t.temps = 0
  BY <1>4, FnSettingsFacts
<1> HIDE DEF t, cs0, f0, f2, g1, h1, wk1, x1, at1
<1>6. Core(cs0, sc0, cp, dc2, f0)
  BY DEF CoreAt, cs0, f0
<1>7. AllStacked(cs0, f0)
  BY <1>1, StackedLast DEF cs0, f0
<1>8. Len(cs0) = n /\ f0[n] = g
  BY <1>1 DEF cs0, f0
<1>9. /\ Core(cs2, sc2, cp, dc2, f2) /\ Supers(cs2, cl, sc2) /\ AllStacked(cs2, f2)
      /\ Len(cs2) = n + 1 /\ Len(sc2) = Len(sc0) + 1 /\ SameSupers(sc0, sc2, Len(sc0)) /\ ~HasSuper(sc2, Len(sc0) + 1)
  <2>1. Supers(cs0, cl, sc0)
    BY DEF cs0
  <2>2. cs2 = Append(cs0, SubCompiler(form, n + 1))
    BY DEF cs0
  <2>3. h = BodyFrame(f0[n]) /\ n = Len(cs0) /\ form \in Fns
    BY <1>8
  <2>4. f2 = Append(f0, h) /\ sc2 = Append(sc0, SubScopeOf(form, n + 1))
    BY DEF f2
  <2> HIDE DEF h
  <2>5. StartsFn(cs0, sc0, f0, n, form, cs2, sc2, f2)
    BY <2>2, <2>3, <2>4 DEF StartsFn
  <2> QED BY ONLY <1>6, <1>7, <2>1, <2>5, CoreFn
<1>10. Begins(wk, cl, x, sc, form, t, cl, sc2)
  <2>1. Follows(form, x[Len(x)], t, cl)
    BY <1>2, <1>5
  <2>2. t.classes = Len(cl) /\ t.top = Len(sc2) /\ ~HasSuper(sc2, t.top)
    BY <1>3, <1>4, <1>5, <1>9
  <2>3. SameSupers(sc, sc2, Len(sc))
    BY <1>9 DEF SameSupers
  <2>4. form \in Forms /\ form # "params" /\ form # "class"
    BY DEF Forms, Fns
  <2> QED BY <2>1, <2>2, <2>3, <2>4, <1>2, <1>5, Zenon DEF Begins
<1>11. /\ g1.base = s.base /\ g1.top = s.top /\ g1.temps = s.temps
       /\ g1.wait = IF s.top = s.base THEN "no"
                    ELSE IF Len(wk) >= 1 /\ wk[Len(wk)] = "var" THEN "var" ELSE IF form = "fn" THEN "fn" ELSE "no"
       /\ h1.base = t.base /\ h1.top = t.top /\ h1.temps = t.temps /\ h1.wait = "no"
  BY <1>1, <1>10, BeginFnFrames DEF g1, h1, wk1, x1
<1>12. g1 = g
  BY <1>11 DEF g1, FnFrame, FrameAt
<1>13. h1 = h
  <2>1. g.top = s.top
    BY DEF FnFrame
  <2> QED BY <2>1, <1>5, <1>11 DEF h1, BodyFrame, FrameAt
<1>14. f2 = Append([f EXCEPT ![n] = g1], h1)
  BY <1>12, <1>13 DEF f2, f0
<1>15. Sound(cs2, cl, wk1, sc2, cp, dc2, x1, at1)
  <2>1. /\ Sound(cs, cl, wk, sc, cp, dc, x, at) /\ n = Len(cs) /\ g1 = FrameAt(Append(wk, form), Append(x, t), Len(wk) + 1)
        /\ h1 = FrameAt(Append(wk, form), Append(x, t), Len(wk) + 2)
        /\ f2 = Append([FramesOf(wk, x, at) EXCEPT ![n] = g1], h1)
    BY <1>14 DEF g1, h1, wk1, x1
  <2> QED BY <2>1, <1>9, <1>10, SoundBeginFn DEF wk1, x1, at1
<1>16. wk1 # <<>> /\ wk1[Len(wk1)] \in Fns
  <2>1. wk1 \in Seq(Forms) /\ Len(wk1) = Len(wk) + 1 /\ wk1[Len(wk) + 1] = form
    <3>1. form \in Forms
      BY DEF Forms
    <3> QED BY <3>1, <1>2 DEF wk1
  <2>2. Len(wk1) # 0
    BY <2>1, <1>2
  <2> QED BY <2>1, <2>2
<1>17. \E x2, at2 : Sound(cs2, cl, Append(wk1, "params"), sc2, cp, dc2, x2, at2)
  BY <1>15, <1>16, SoundParams
<1> QED BY <1>17 DEF wk1

\* The frame of the function around one that begins: a local function waits for its value.
LEMMA FnFrameFacts ==
  ASSUME NEW cs, NEW cl, NEW wk, NEW sc, NEW cp, NEW dc, NEW x, NEW at, Sound(cs, cl, wk, sc, cp, dc, x, at),
         NEW n, n = Len(cs), NEW c, c = cs[n], NEW fr, fr = FramesOf(wk, x, at)[n],
         NEW form \in Fns, NEW g, g = FnFrame(wk, form, x[Len(wk) + 1])
  PROVE  /\ g \in Frames /\ g.base = fr.base /\ g.top = fr.top /\ g.temps = fr.temps
         /\ g.wait = IF c.scope_depth = 0 THEN "no"
                     ELSE IF Len(wk) >= 1 /\ wk[Len(wk)] = "var" THEN "var" ELSE IF form = "fn" THEN "fn" ELSE "no"
<1> DEFINE s == x[Len(wk) + 1]
<1>1. At(n, c, fr, s)
  BY CurrentSettings
<1>2. /\ fr.base = s.base /\ fr.top = s.top /\ fr.temps = s.temps
      /\ s.base \in Nat /\ s.top \in Nat /\ s.temps \in Nat
      /\ (s.top = s.base <=> c.scope_depth = 0)
  BY <1>1 DEF At
<1> HIDE DEF s
<1>3. g = FnFrame(wk, form, s)
  BY DEF s
<1> QED BY <1>2, <1>3 DEF FnFrame, Frames

\* The state stays sound when a method, a lambda or a global function begins.
LEMMA SoundFnSame ==
  ASSUME NEW cs, NEW cl, NEW wk, NEW sc, NEW cp, NEW dc, NEW x, NEW at, Sound(cs, cl, wk, sc, cp, dc, x, at),
         NEW n, n = Len(cs), NEW form \in Fns, form = "fn" => cs[n].scope_depth = 0,
         wk # <<>> /\ wk[Len(wk)] = "var" => form = "lambda",
         NEW dc2 \in Nat, dc <= dc2
  PROVE  \E x2, at2 : Sound(Append(cs, SubCompiler(form, n + 1)), cl, Append(Append(wk, form), "params"),
                            Append(sc, SubScopeOf(form, n + 1)), cp, dc2, x2, at2)
<1> DEFINE f == FramesOf(wk, x, at)
           c == cs[n]
           fr == f[n]
           g == FnFrame(wk, form, x[Len(wk) + 1])
<1>1. /\ Core(cs, sc, cp, dc, f) /\ Supers(cs, cl, sc) /\ Ready(c, fr)
      /\ n \in Nat /\ n >= 1 /\ c \in Compilers /\ fr \in Frames /\ Stacked(c, fr)
      /\ Len(c.locals) >= 1 /\ cs \in Seq(Compilers) /\ dc \in Nat /\ Len(wk) \in Nat
  BY Current
<1>2. fr.wait = IF c.scope_depth > 0 /\ Len(wk) >= 1 /\ wk[Len(wk)] = "var" THEN "var" ELSE "no"
  BY CurrentSettings
<1>3. c.scope_depth \in Nat
  BY <1>1, CompilerFacts
<1>4. /\ g \in Frames /\ g.base = fr.base /\ g.top = fr.top /\ g.temps = fr.temps
      /\ g.wait = IF c.scope_depth = 0 THEN "no"
                  ELSE IF Len(wk) >= 1 /\ wk[Len(wk)] = "var" THEN "var" ELSE IF form = "fn" THEN "fn" ELSE "no"
  BY FnFrameFacts
<1>5. form = "fn" => c.scope_depth = 0
  OBVIOUS
<1> HIDE DEF f, fr, g, c
<1>6. g.wait = fr.wait /\ g.wait # "fn"
  BY <1>2, <1>3, <1>4, <1>5
<1>7. CoreAt(cs, n, c, sc, cp, dc2, f, g)
  <2>1. Resumes(c, fr, c, g)
    BY <1>1, <1>4, <1>6 DEF Resumes
  <2> QED BY <2>1, <1>1, CoreAgain DEF fr, c
<1>8. Ready(c, g)
  <2>1. Stacked(c, g)
    BY <1>1, <1>4, <1>6, StackedSame
  <2> QED BY <2>1, <1>6 DEF Ready
<1>9. [cs EXCEPT ![n] = c] = cs
  BY <1>1, ExceptSame DEF c
<1>10. Supers([cs EXCEPT ![n] = c], cl, sc) /\ SameSupers(sc, sc, Len(sc))
  BY <1>1, <1>9 DEF SameSupers
<1> DEFINE cs2 == Append([cs EXCEPT ![n] = c], SubCompiler(form, n + 1))
           sc2 == Append(sc, SubScopeOf(form, n + 1))
           wk2 == Append(Append(wk, form), "params")
<1> HIDE DEF cs2, sc2, wk2
<1>11. \E x2, at2 : Sound(cs2, cl, wk2, sc2, cp, dc2, x2, at2)
  <2>1. /\ Sound(cs, cl, wk, sc, cp, dc, x, at) /\ n = Len(cs) /\ f = FramesOf(wk, x, at) /\ form \in Fns
        /\ g = FnFrame(wk, form, x[Len(wk) + 1]) /\ Len(sc) = Len(sc)
        /\ cs2 = Append([cs EXCEPT ![n] = c], SubCompiler(form, n + 1))
        /\ sc2 = Append(sc, SubScopeOf(form, n + 1)) /\ wk2 = Append(Append(wk, form), "params")
    BY DEF f, g, cs2, sc2, wk2
  <2>2. wk # <<>> /\ wk[Len(wk)] = "var" => form = "lambda"
    OBVIOUS
  <2>3. FnStep(cs, cl, wk, sc, cp, dc, x, at, n, f, form, g, c, sc, dc2, cs2, sc2, wk2)
    BY ONLY <2>1, <2>2, <1>7, <1>8, <1>10 DEF FnStep
  <2> QED BY ONLY <2>3, SoundFnStep
<1> QED BY <1>9, <1>11 DEF cs2, sc2, wk2

\* The state stays sound when a local function begins: its name is declared and initialized.
LEMMA SoundFnNamed ==
  ASSUME NEW cs, NEW cl, NEW wk, NEW sc, NEW cp, NEW dc, NEW x, NEW at, Sound(cs, cl, wk, sc, cp, dc, x, at),
         NEW n, n = Len(cs), NEW c, c = cs[n], NEW name \in Names, ~Undeclarable(c, name), Plain(wk), c.scope_depth > 0,
         NEW id, id = <<"declaration", dc + 1>>, NEW d, d = mark_initialized(add_local(c, name, id)),
         NEW sc0, sc0 = BindIn(sc, name, id), NEW dc2, dc2 = dc + 1
  PROVE  \E x2, at2 : Sound(Append([cs EXCEPT ![n] = d], SubCompiler("fn", n + 1)), cl, Append(Append(wk, "fn"), "params"),
                            Append(sc0, SubScopeOf("fn", n + 1)), cp, dc2, x2, at2)
<1> DEFINE f == FramesOf(wk, x, at)
           fr == f[n]
           form == "fn"
           g == FnFrame(wk, form, x[Len(wk) + 1])
<1>1. /\ Core(cs, sc, cp, dc, f) /\ Supers(cs, cl, sc) /\ Working(wk, cl, x, at, n, sc)
      /\ n \in Nat /\ n >= 1 /\ c \in Compilers /\ fr \in Frames /\ Stacked(c, fr) /\ Slots(c, n, fr, dc)
      /\ Len(c.locals) >= 1 /\ cs \in Seq(Compilers) /\ sc \in Seq(LexicalScopes) /\ dc \in Nat
  BY Current
<1>2. /\ fr.wait = "no" /\ fr.temps = 0 /\ ~HasSuper(sc, Len(sc)) /\ Len(sc) >= 1
  BY Place
<1>3. ~(wk # <<>> /\ wk[Len(wk)] = "var") /\ form \in Fns
  BY PlainFacts DEF Fns
<1>4. /\ g \in Frames /\ g.base = fr.base /\ g.top = fr.top /\ g.temps = 0 /\ g.wait = "fn"
  <2>1. /\ g \in Frames /\ g.base = fr.base /\ g.top = fr.top /\ g.temps = fr.temps
        /\ g.wait = IF c.scope_depth = 0 THEN "no"
                    ELSE IF Len(wk) >= 1 /\ wk[Len(wk)] = "var" THEN "var" ELSE IF form = "fn" THEN "fn" ELSE "no"
    BY <1>3, FnFrameFacts
  <2>2. c.scope_depth # 0 /\ ~(Len(wk) >= 1 /\ wk[Len(wk)] = "var")
    BY <1>1, <1>3, CompilerFacts
  <2> QED BY <2>1, <2>2, <1>2
<1>5. id \in Ids /\ name \in LocalNames /\ name # "super" /\ name \in Names \cup {"super"}
  <2>1. dc + 1 \in Nat
    BY <1>1
  <2> QED BY <2>1, NamesAreIdentifiers DEF Ids, LocalNames
<1>6. Renamed(sc, sc0, name, id)
  BY <1>1, <1>2, <1>5, BindFacts
<1>7. SuperScopes(sc, sc0) /\ SameSupers(sc, sc0, Len(sc)) /\ Len(sc0) = Len(sc)
  BY <1>1, <1>2, <1>5, <1>6, RenamedSupers DEF Renamed
<1>8. Extended(c, d, name, c.scope_depth, id) /\ d.stack = c.stack /\ d.locals[Len(d.locals)].depth = d.scope_depth
  BY <1>1, <1>5, NamedFacts
<1>9. d \in Compilers /\ Added(c, d, name, c.scope_depth, id) /\ d.upvalues = c.upvalues
  BY <1>8 DEF Extended
<1> HIDE DEF f, fr, g
<1>10. CoreAt(cs, n, d, sc0, cp, dc2, f, g)
  <2>1. Framed(sc, c, n, fr, dc) /\ Len(sc) = fr.top
    BY <1>1, LastFacts DEF fr
  <2>2. name \notin DOMAIN sc[Len(sc)].names
    BY <2>1, <1>1, NotYetNamed
  <2>3. Declaring(sc, c, fr, sc0, d, g, name, c.scope_depth, id)
    BY <2>2, <1>2, <1>4, <1>5, <1>6, <1>9 DEF Declaring
  <2>4. dc2 \in Nat /\ NextId(dc, dc2, id)
    BY <1>1 DEF NextId
  <2> QED BY <2>3, <2>4, <1>1, CoreDeclare DEF fr
<1>11. Ready(d, g)
  <2>1. Len(d.locals) = Len(c.locals) + 1 /\ \A i \in DOMAIN c.locals : d.locals[i].id = c.locals[i].id
    BY <1>9 DEF Added
  <2>2. g.wait # "no" /\ d \in Compilers /\ d.stack = c.stack /\ fr.wait = "no" /\ fr.temps = 0 /\ g.temps = 0 /\ g \in Frames
    BY <1>8, <1>9, <1>2, <1>4
  <2>3. c \in Compilers /\ fr \in Frames /\ Stacked(c, fr) /\ Len(c.locals) >= 1
    BY <1>1
  <2>4. Stacked(d, g)
    BY ONLY <2>1, <2>2, <2>3, StackedWait
  <2> QED BY <2>4, <1>8 DEF Ready
<1>12. Supers([cs EXCEPT ![n] = d], cl, sc0)
  <2>1. SuperLocals(cs, [cs EXCEPT ![n] = d])
    BY <1>8, <1>1, <1>5, SuperLocalsAdded
  <2> QED BY <2>1, <1>1, <1>7, SameClasses, SupersAgain
<1> HIDE DEF form
<1> DEFINE cs2 == Append([cs EXCEPT ![n] = d], SubCompiler(form, n + 1))
           sc2 == Append(sc0, SubScopeOf(form, n + 1))
           wk2 == Append(Append(wk, form), "params")
<1> HIDE DEF cs2, sc2, wk2
<1>13. \E x2, at2 : Sound(cs2, cl, wk2, sc2, cp, dc2, x2, at2)
  <2>1. /\ Sound(cs, cl, wk, sc, cp, dc, x, at) /\ n = Len(cs) /\ f = FramesOf(wk, x, at) /\ form \in Fns
        /\ g = FnFrame(wk, form, x[Len(wk) + 1])
        /\ cs2 = Append([cs EXCEPT ![n] = d], SubCompiler(form, n + 1))
        /\ sc2 = Append(sc0, SubScopeOf(form, n + 1)) /\ wk2 = Append(Append(wk, form), "params")
    BY <1>3 DEF f, g, cs2, sc2, wk2
  <2>2. wk # <<>> /\ wk[Len(wk)] = "var" => form = "lambda"
    BY <1>3
  <2>3. FnStep(cs, cl, wk, sc, cp, dc, x, at, n, f, form, g, d, sc0, dc2, cs2, sc2, wk2)
    BY ONLY <2>1, <2>2, <1>7, <1>10, <1>11, <1>12 DEF FnStep
  <2> QED BY ONLY <2>3, SoundFnStep
<1> QED BY <1>13 DEF cs2, sc2, wk2, form

-----------------------------------------------------------------------------
(* A function ends.                                                        *)

\* define_variable on a local that is initialized pushes its value and changes nothing else.
LEMMA DefineAgain ==
  ASSUME NEW b \in Compilers, Len(b.locals) >= 1, b.scope_depth > 0, b.locals[Len(b.locals)].depth = b.scope_depth,
         NEW d, d = define_variable(b)
  PROVE  /\ d \in Compilers /\ d.locals = b.locals /\ d.scope_depth = b.scope_depth /\ d.upvalues = b.upvalues
         /\ Pushed(b, d, d.locals[Len(d.locals)].id)
<1> DEFINE m == mark_initialized(b)
<1>1. /\ m \in Compilers /\ m.scope_depth = b.scope_depth /\ m.upvalues = b.upvalues
      /\ Len(m.locals) = Len(b.locals) /\ DOMAIN m.locals = DOMAIN b.locals
      /\ \A i \in DOMAIN b.locals : i # Len(b.locals) => m.locals[i] = b.locals[i]
      /\ m.locals[Len(b.locals)] = [b.locals[Len(b.locals)] EXCEPT !.depth = b.scope_depth]
  BY MarkFacts
<1>2. /\ d \in Compilers /\ d.locals = m.locals /\ d.scope_depth = m.scope_depth /\ d.upvalues = m.upvalues
      /\ Pushed(b, d, d.locals[Len(d.locals)].id)
  BY DefineFacts
<1>3. /\ b.locals \in Seq(Locals) /\ m.locals \in Seq(Locals) /\ Len(b.locals) \in DOMAIN b.locals
      /\ b.locals[Len(b.locals)] \in Locals
  BY <1>1, CompilerFacts
<1> HIDE DEF m
<1>4. m.locals[Len(b.locals)] = b.locals[Len(b.locals)]
  BY <1>1, <1>3 DEF Locals
<1>5. \A i \in DOMAIN b.locals : m.locals[i] = b.locals[i]
  BY <1>1, <1>4
<1>6. m.locals = b.locals
  BY <1>1, <1>3, <1>5
<1> QED BY <1>1, <1>2, <1>6

\* The function around one that ends resumes, and a local function gets its value.
LEMMA ReturnFrames ==
  ASSUME NEW wk, NEW cl, NEW x, NEW at, NEW n, NEW sc, Working(wk, cl, x, at, n, sc), wk # <<>>, wk[Len(wk)] \in Fns,
         NEW sc2, Ends(wk, cl, x, cl, sc, sc2),
         NEW fb, fb = FramesOf(wk, x, at)[n - 1], NEW g, g = FrameAt(Front(wk), Front(x), Len(wk))
  PROVE  /\ n > 1 /\ g \in Frames /\ g.base = fb.base /\ g.top = fb.top /\ g.temps = fb.temps /\ g.wait # "fn"
         /\ \/ g.wait = fb.wait
            \/ fb.wait = "fn" /\ g.wait = "no"
         /\ (fb.wait = "fn") <=> (wk[Len(wk)] = "fn" /\ fb.base # fb.top)
<1> DEFINE s == x[Len(wk)]
           p == Len(wk)
<1>1. /\ n > 1 /\ fb = FrameAt(wk, x, p)
  BY FramesEndFn
<1>2. /\ g \in Frames /\ g.base = s.base /\ g.top = s.top /\ g.temps = s.temps
      /\ g.wait = IF s.top # s.base /\ p >= 2 /\ wk[p - 1] = "var" THEN "var" ELSE "no"
  BY EndFrame
<1>3. p \in Nat /\ p >= 1 /\ s.top \in Nat /\ s.base \in Nat
  BY InnermostFacts
<1>4. p >= 2 /\ wk[p - 1] = "var" => wk[p] = "lambda"
  <2> SUFFICES ASSUME p >= 2, wk[p - 1] = "var" PROVE wk[p] = "lambda"
    OBVIOUS
  <2>1. Ordered(wk, x) /\ p - 1 \in 1..Len(wk) /\ p - 1 < Len(wk) /\ (p - 1) + 1 = p
    BY <1>3 DEF Working
  <2> QED BY <2>1 DEF Ordered
<1>5. /\ fb.base = s.base /\ fb.top = s.top /\ fb.temps = s.temps
      /\ fb.wait = IF s.top = s.base THEN "no"
                   ELSE IF p > 1 /\ wk[p - 1] = "var" THEN "var"
                   ELSE IF wk[p] = "fn" THEN "fn" ELSE "no"
  BY <1>1, <1>3 DEF FrameAt, WaitOf
<1> HIDE DEF s, p
<1>6. CASE p >= 2 /\ wk[p - 1] = "var"
  <2>1. p > 1 /\ wk[p] # "fn"
    BY <1>4, <1>6, <1>3
  <2> QED BY <1>1, <1>2, <1>3, <1>5, <1>6, <2>1 DEF p
<1>7. CASE ~(p >= 2 /\ wk[p - 1] = "var")
  <2>1. ~(p > 1 /\ wk[p - 1] = "var")
    BY <1>7, <1>3
  <2> QED BY <1>1, <1>2, <1>3, <1>5, <1>7, <2>1 DEF p
<1> QED BY <1>6, <1>7

\* The state stays sound when a function ends.
LEMMA SoundReturn ==
  ASSUME NEW cs, NEW cl, NEW wk, NEW sc, NEW cp, NEW dc, NEW x, NEW at, Sound(cs, cl, wk, sc, cp, dc, x, at),
         NEW n, n = Len(cs), wk # <<>>, wk[Len(wk)] \in Fns,
         NEW cs1, cs1 = Front(cs),
         NEW d, d = IF wk[Len(wk)] = "fn" THEN define_variable(cs1[n - 1]) ELSE cs1[n - 1]
  PROVE  \E x2, at2 : Sound([cs1 EXCEPT ![n - 1] = d], cl, Front(wk), Front(sc), cp \ Range(Last(sc).names), dc, x2, at2)
<1> DEFINE f == FramesOf(wk, x, at)
           fr == f[n]
           s == x[Len(wk)]
           t == x[Len(wk) + 1]
           m == n - 1
           sc2 == Front(sc)
           cp2 == cp \ Range(Last(sc).names)
           f1 == Front(f)
           b == cs1[m]
           fb == f1[m]
           g == FrameAt(Front(wk), Front(x), Len(wk))
           cs2 == [cs1 EXCEPT ![m] = d]
           f2 == [f1 EXCEPT ![m] = g]
<1>1. /\ Core(cs, sc, cp, dc, f) /\ Supers(cs, cl, sc) /\ AllStacked(cs, f) /\ Working(wk, cl, x, at, n, sc)
      /\ n \in Nat /\ n >= 1 /\ cs \in Seq(Compilers) /\ sc \in Seq(LexicalScopes) /\ dc \in Nat
      /\ f \in Seq(Frames) /\ Len(f) = n /\ fr = FrameAt(wk, x, Len(wk) + 1)
  BY Current
<1>2. wk[Len(wk)] # "class"
  BY DEF Fns
<1>3. /\ t.top = s.top + 1 /\ t.top = Len(sc) /\ t.base = s.top /\ s.top \in Nat /\ Len(wk) >= 1 /\ Len(wk) \in Nat
  BY <1>1, <1>2, InnermostFacts
<1>4. fr.top = fr.base + 1
  BY <1>1, <1>3 DEF FrameAt
<1>5. ~HasSuper(sc, Len(sc))
  <2>1. Superseded(wk, cl, x, sc) /\ Len(wk) \in 1..Len(wk)
    BY <1>1, <1>3 DEF Working
  <2>2. wk[Len(wk)] \in Fns \cup {"block"}
    OBVIOUS
  <2> QED BY <2>1, <2>2, <1>3 DEF Superseded
<1>6. Len(sc) >= 1
  BY <1>3
<1> HIDE DEF f, s, t, sc2
<1>7. sc2 \in Seq(LexicalScopes) /\ Len(sc2) = Len(sc) - 1 /\ SameSupers(sc, sc2, Len(sc2)) /\ SuperScopes(sc, sc2)
  BY <1>1, <1>5, <1>6, ShutScope DEF sc2
<1>8. Ends(wk, cl, x, cl, sc, sc2)
  <2>1. Len(sc2) = x[Len(wk)].top
    BY <1>3, <1>7 DEF s
  <2> QED BY <2>1, <1>1, <1>2, <1>7, EndsPlainly
<1>9. /\ cs1 \in Seq(Compilers) /\ Len(cs1) = m /\ f1 \in Seq(Frames) /\ Len(f1) = m /\ f1[m] = f[m]
      /\ m \in Nat /\ m >= 1 /\ n > 1
  <2>1. n > 1
    BY <1>1, <1>8, FramesEndFn
  <2>2. m \in 1..Len(f) - 1
    BY <2>1, <1>1
  <2> QED BY <1>1, <2>1, <2>2, FrontFacts
<1>10. /\ g \in Frames /\ g.base = fb.base /\ g.top = fb.top /\ g.temps = fb.temps /\ g.wait # "fn"
       /\ \/ g.wait = fb.wait
          \/ fb.wait = "fn" /\ g.wait = "no"
       /\ (fb.wait = "fn") <=> (wk[Len(wk)] = "fn" /\ fb.base # fb.top)
  <2>1. fb = FramesOf(wk, x, at)[n - 1] /\ g = FrameAt(Front(wk), Front(x), Len(wk))
    BY <1>9 DEF f
  <2> HIDE DEF g, fb
  <2> QED BY <2>1, <1>1, <1>8, ReturnFrames
<1>11. Core(cs1, sc2, cp2, dc, f1)
  BY <1>1, <1>4, <1>9, CoreReturn DEF sc2
<1> HIDE DEF g, cp2, f1, fb, fr, b
<1>12. AllStacked(cs1, f1)
  BY <1>1, StackedFront DEF f1
<1>13. Ready(b, fb) /\ b \in Compilers /\ fb \in Frames
  <2>1. m \in DOMAIN cs1 /\ m \in DOMAIN f1
    BY <1>9
  <2> QED BY <2>1, <1>9, <1>12 DEF AllStacked, b, fb
<1>14. /\ fb.base \in Nat /\ fb.top \in Nat /\ b.scope_depth \in Nat /\ fb.base + b.scope_depth = fb.top /\ Len(b.locals) >= 1
  <2>1. /\ Slots(b, m, fb, dc) /\ fb.base \in Nat /\ fb.top \in Nat /\ b.scope_depth \in Nat
        /\ fb.base + b.scope_depth = fb.top
    <3>1. m = Len(cs1) /\ b = cs1[m] /\ fb = f1[m]
      BY <1>9 DEF b, fb
    <3> HIDE DEF m
    <3> QED BY <3>1, <1>11, LastFacts
  <2> QED BY <2>1 DEF Slots
<1>15. /\ d \in Compilers /\ d.locals = b.locals /\ d.scope_depth = b.scope_depth /\ d.upvalues = b.upvalues /\ Ready(d, g)
  <2>1. CASE fb.wait = "fn"
    <3>1. wk[Len(wk)] = "fn" /\ b.scope_depth > 0 /\ d = define_variable(b) /\ g.wait = "no"
      BY <2>1, <1>10, <1>14 DEF b
    <3>2. b.locals[Len(b.locals)].depth = b.scope_depth /\ Stacked(b, fb)
      BY <2>1, <1>13 DEF Ready
    <3>3. /\ d \in Compilers /\ d.locals = b.locals /\ d.scope_depth = b.scope_depth /\ d.upvalues = b.upvalues
          /\ Pushed(b, d, d.locals[Len(d.locals)].id)
      BY <3>1, <3>2, <1>13, <1>14, DefineAgain
    <3>4. Len(d.locals) = Filled(b, fb) + 1 /\ fb.temps = 0
      <4>1. Len(b.locals) \in Nat
        BY <1>13, CompilerFacts
      <4>2. fb.wait # "no"
        BY <2>1
      <4> QED BY <3>2, <3>3, <4>1, <4>2 DEF Filled, Stacked
    <3>5. \A i \in 1..Filled(b, fb) : d.locals[i].id = b.locals[i].id
      BY <3>3
    <3>6. Stacked(d, g)
      BY <3>1, <3>2, <3>3, <3>4, <3>5, <1>10, <1>13, <1>14, StackedValue
    <3> QED BY <3>1, <3>3, <3>6 DEF Ready
  <2>2. CASE fb.wait # "fn"
    <3>1. g.wait = fb.wait /\ d = b
      <4>1. wk[Len(wk)] = "fn" => b.scope_depth = 0
        BY <2>2, <1>10, <1>14
      <4> QED BY <4>1, <2>2, <1>10 DEF define_variable, b
    <3>2. Stacked(b, fb)
      BY <1>13 DEF Ready
    <3>3. Stacked(d, g)
      BY <3>1, <3>2, <1>10, <1>13, <1>14, StackedSame
    <3> QED BY <3>1, <3>3, <1>10, <1>13 DEF Ready
  <2> QED BY <2>1, <2>2
<1>16. Core(cs2, sc2, cp2, dc, f2)
  <2>1. Resumes(b, fb, d, g)
    BY <1>10, <1>15 DEF Resumes
  <2>2. m = Len(cs1) /\ b = cs1[m] /\ fb = f1[m] /\ dc <= dc /\ dc \in Nat
    BY <1>1, <1>9 DEF b, fb
  <2> HIDE DEF m
  <2>3. CoreAt(cs1, m, d, sc2, cp2, dc, f1, g)
    BY <2>1, <2>2, <1>11, CoreAgain
  <2> QED BY <2>3 DEF CoreAt
<1>17. AllStacked(cs2, f2)
  BY <1>9, <1>12, <1>15, StackedLast
<1>18. Supers(cs2, cl, sc2)
  <2>1. SuperLocals(cs, cs1)
    BY <1>1, SuperLocalsFront
  <2>2. Supers(cs1, cl, sc2)
    BY <2>1, <1>1, <1>7, SameClasses, SupersAgain
  <2>3. SuperLocals(cs1, cs2)
    <3>1. DOMAIN d.locals \subseteq DOMAIN cs1[m].locals
          /\ \A i \in DOMAIN d.locals : d.locals[i].name = cs1[m].locals[i].name /\ d.locals[i].id = cs1[m].locals[i].id
      BY <1>15 DEF b
    <3>2. m = Len(cs1) /\ m >= 1 /\ cs1 \in Seq(Compilers) /\ d \in Compilers
      BY <1>9, <1>15
    <3> HIDE DEF m
    <3>3. SuperLocals(cs1, [cs1 EXCEPT ![m] = d])
      BY ONLY <3>1, <3>2, SuperLocalsSame
    <3> QED BY <3>3
  <2>4. SuperScopes(sc2, sc2)
    BY DEF SuperScopes
  <2> HIDE DEF cs2
  <2> QED BY <2>2, <2>3, <2>4, SameClasses, SupersAgain
<1>19. Len(cs2) = n - 1
  BY <1>9
<1> HIDE DEF cs2, f2
<1>20. Sound(cs2, cl, Front(wk), sc2, cp2, dc, Front(x), Front(at))
  <2>1. /\ Sound(cs, cl, wk, sc, cp, dc, x, at) /\ n = Len(cs) /\ g = FrameAt(Front(wk), Front(x), Len(wk))
        /\ f2 = [Front(FramesOf(wk, x, at)) EXCEPT ![n - 1] = g] /\ wk[Len(wk)] \in Fns
    BY DEF g, f2, f1, f
  <2> QED BY ONLY <2>1, <1>8, <1>16, <1>17, <1>18, <1>19, SoundEndFn
<1> QED BY <1>20 DEF cs2, sc2, cp2

-----------------------------------------------------------------------------
(* A type ends.                                                            *)

\* When a class or an enum ends its type leaves the stack.
LEMMA TypeEnds ==
  ASSUME NEW cs, NEW cl, NEW wk, NEW sc, NEW cp, NEW dc, NEW x, NEW at, Sound(cs, cl, wk, sc, cp, dc, x, at), wk # <<>>,
         NEW form, form = wk[Len(wk)], form \in {"class", "enum"},
         NEW s, s = x[Len(wk)], NEW g, g = OldFrame(wk, s),
         NEW n, n = Len(cs), NEW c, c = cs[n], NEW fr, fr = FramesOf(wk, x, at)[n], NEW e, e = WithoutTemporary(c)
  PROVE  /\ g \in Frames /\ g.base = fr.base /\ g.base = s.base /\ g.top = s.top /\ g.wait = "no" /\ fr.wait = "no"
         /\ e \in Compilers /\ e.locals = c.locals /\ e.upvalues = c.upvalues /\ e.scope_depth = c.scope_depth
         /\ Stacked(e, g)
<1>1. /\ Working(wk, cl, x, at, n, sc) /\ n \in Nat /\ n >= 1 /\ c \in Compilers /\ fr \in Frames /\ Stacked(c, fr)
      /\ Len(c.locals) >= 1
  BY Current
<1>2. form \notin Fns /\ form # "lambda"
  BY DEF Fns
<1>3. x[Len(wk) + 1].temps = s.temps + 1 /\ s.temps \in Nat
  BY <1>1, <1>2, InnermostFacts
<1>4. /\ g \in Frames /\ g.base = fr.base /\ g.base = s.base /\ g.top = s.top /\ g.temps = s.temps
      /\ fr.temps = x[Len(wk) + 1].temps /\ g.wait = "no"
  BY <1>2, OldFrameFacts
<1>5. fr.wait = "no"
  <2>1. fr.wait = IF c.scope_depth > 0 /\ Len(wk) >= 1 /\ wk[Len(wk)] = "var" THEN "var" ELSE "no"
    BY CurrentSettings
  <2>2. wk[Len(wk)] # "var"
    OBVIOUS
  <2> QED BY <2>1, <2>2
<1>6. Len(c.stack) = Len(c.locals) + fr.temps /\ Len(c.locals) \in Nat
  <2>1. Filled(c, fr) = Len(c.locals)
    BY <1>5 DEF Filled
  <2> QED BY <2>1, <1>1, StackFacts
<1>7. fr.temps = g.temps + 1 /\ g.temps \in Nat
  BY <1>3, <1>4
<1>8. Len(c.stack) >= 1
  BY <1>1, <1>6, <1>7
<1>9. /\ e \in Compilers /\ e.locals = c.locals
      /\ e.stack = SubSeq(c.stack, 1, Len(c.stack) - 1)
      /\ e.upvalues = c.upvalues /\ e.scope_depth = c.scope_depth
  BY <1>1, <1>8, WithoutFacts
<1> DEFINE m == Len(e.locals) + g.temps
<1>10. m \in Nat /\ m = Len(c.stack) - 1 /\ m <= Len(c.stack)
  <2>1. Len(e.locals) = Len(c.locals)
    BY <1>9
  <2>2. m \in Nat
    BY <2>1, <1>6, <1>7
  <2>3. Len(c.stack) = m + 1
    <3> DEFINE a == Len(c.locals)
               b == g.temps
               u == fr.temps
               v == Len(c.stack)
    <3>1. a \in Nat /\ b \in Nat /\ u = b + 1 /\ v = a + u /\ m = a + b
      BY <2>1, <1>6, <1>7
    <3> HIDE DEF a, b, u, v, m
    <3>2. v = m + 1
      BY ONLY <3>1
    <3> QED BY <3>2 DEF v
  <2> HIDE DEF m
  <2> QED BY <2>2, <2>3
<1>11. e.stack = SubSeq(c.stack, 1, m) /\ m = Len(e.locals) + g.temps
  <2>1. m = Len(e.locals) + g.temps
    OBVIOUS
  <2> HIDE DEF m
  <2> QED BY <2>1, <1>9, <1>10
<1> HIDE DEF m
<1>12. Len(e.locals) >= 1 /\ Len(e.locals) <= Len(c.locals) /\ Len(e.locals) = Len(c.locals)
       /\ \A i \in DOMAIN e.locals : e.locals[i].id = c.locals[i].id
  BY <1>1, <1>6, <1>9
<1>13. Stacked(e, g)
  BY <1>1, <1>4, <1>5, <1>9, <1>10, <1>11, <1>12, StackedCut
<1> QED BY <1>4, <1>5, <1>9, <1>13

\* The state stays sound when an enum ends.
LEMMA SoundEndEnum ==
  ASSUME NEW cs, NEW cl, NEW wk, NEW sc, NEW cp, NEW dc, NEW x, NEW at, Sound(cs, cl, wk, sc, cp, dc, x, at),
         NEW n, n = Len(cs), NEW c, c = cs[n], wk # <<>>, wk[Len(wk)] = "enum", NEW d, d = WithoutTemporary(c)
  PROVE  \E x2, at2 : Sound([cs EXCEPT ![n] = d], cl, Front(wk), sc, cp, dc, x2, at2)
<1> DEFINE f == FramesOf(wk, x, at)
           fr == f[n]
           s == x[Len(wk)]
           g == OldFrame(wk, s)
<1>1. /\ Core(cs, sc, cp, dc, f) /\ Supers(cs, cl, sc) /\ Working(wk, cl, x, at, n, sc)
      /\ n \in Nat /\ n >= 1 /\ c \in Compilers /\ cs \in Seq(Compilers) /\ dc \in Nat
      /\ fr = FrameAt(wk, x, Len(wk) + 1)
  BY Current
<1>2. "enum" \notin Fns /\ "enum" # "class" /\ "enum" \in {"class", "enum"} /\ "enum" # "block"
  BY DEF Fns
<1>3. x[Len(wk) + 1].top = s.top /\ x[Len(wk) + 1].top = Len(sc)
  BY <1>1, <1>2, InnermostFacts
<1>4. /\ g \in Frames /\ g.base = fr.base /\ g.top = s.top /\ g.wait = "no" /\ fr.wait = "no"
      /\ d \in Compilers /\ d.locals = c.locals /\ d.upvalues = c.upvalues /\ d.scope_depth = c.scope_depth
      /\ Stacked(d, g)
  BY <1>2, TypeEnds
<1>5. fr.top = s.top
  BY <1>1, <1>3 DEF FrameAt
<1> HIDE DEF f, fr, g, s
<1>6. Ends(wk, cl, x, cl, sc, sc)
  <2>1. SameSupers(sc, sc, Len(sc))
    BY DEF SameSupers
  <2> QED BY <2>1, <1>1, <1>2, <1>3, EndsPlainly DEF s
<1>7. CoreAt(cs, n, d, sc, cp, dc, f, g)
  <2>1. Resumes(c, fr, d, g)
    BY <1>4, <1>5 DEF Resumes
  <2>2. dc <= dc
    BY <1>1
  <2> QED BY <2>1, <2>2, <1>1, CoreAgain DEF fr
<1>8. Ready(d, g)
  BY <1>4 DEF Ready
<1>9. Supers([cs EXCEPT ![n] = d], cl, sc)
  <2>1. SuperScopes(sc, sc)
    BY DEF SuperScopes
  <2>2. SuperLocals(cs, [cs EXCEPT ![n] = d])
    BY <1>1, <1>4, SuperLocalsSame
  <2> QED BY <2>1, <2>2, <1>1, SameClasses, SupersAgain
<1>10. \E x2, at2 : Sound([cs EXCEPT ![n] = d], cl, Front(wk), sc, cp, dc, x2, at2)
  <2>1. Sound(cs, cl, wk, sc, cp, dc, x, at) /\ n = Len(cs) /\ f = FramesOf(wk, x, at) /\ g = OldFrame(wk, x[Len(wk)])
    BY DEF f, g, s
  <2>2. wk[Len(wk)] \notin Fns
    BY <1>2
  <2> QED BY ONLY <2>1, <2>2, <1>6, <1>7, <1>8, <1>9, SoundClosed
<1> QED BY <1>10

\* When a class ends, the settings are those before it.
LEMMA ClassEnds ==
  ASSUME NEW wk, NEW cl, NEW x, NEW at, NEW n, NEW sc, Working(wk, cl, x, at, n, sc), wk # <<>>, wk[Len(wk)] = "class",
         NEW sc2, Len(sc2) = x[Len(wk)].top, SameSupers(sc, sc2, Len(sc2))
  PROVE  Len(cl) >= 1 /\ Ends(wk, cl, x, Front(cl), sc, sc2)
<1> DEFINE s == x[Len(wk)]
<1>1. Len(wk) >= 1 /\ s.classes \in Nat /\ Len(cl) = s.classes + 1 /\ cl \in Seq(BOOLEAN)
  <2> DEFINE t == x[Len(wk) + 1]
  <2>1. /\ Len(wk) >= 1 /\ s.classes \in Nat /\ t.classes = Len(cl)
        /\ t.classes = IF "class" = "class" THEN s.classes + 1 ELSE s.classes
    BY InnermostFacts
  <2>2. cl \in Seq(BOOLEAN)
    BY WorkFacts
  <2> QED BY <2>1, <2>2
<1> HIDE DEF s
<1>2. Len(cl) >= 1
  BY <1>1
<1>3. /\ Front(cl) \in Seq(BOOLEAN) /\ Len(Front(cl)) = Len(cl) - 1
      /\ \A a \in DOMAIN Front(cl) : a \in DOMAIN cl /\ Front(cl)[a] = cl[a]
  BY <1>1, <1>2, FrontClass
<1>4. Len(Front(cl)) = s.classes
  BY <1>1, <1>3
<1> QED BY <1>1, <1>2, <1>3, <1>4, Zenon DEF Ends, s

\* The state stays sound when a class without a superclass ends.
LEMMA SoundEndClass ==
  ASSUME NEW cs, NEW cl, NEW wk, NEW sc, NEW cp, NEW dc, NEW x, NEW at, Sound(cs, cl, wk, sc, cp, dc, x, at),
         NEW n, n = Len(cs), NEW c, c = cs[n], wk # <<>>, wk[Len(wk)] = "class", ~cl[Len(cl)],
         NEW d, d = WithoutTemporary(c)
  PROVE  \E x2, at2 : Sound([cs EXCEPT ![n] = d], Front(cl), Front(wk), sc, cp, dc, x2, at2)
<1> DEFINE f == FramesOf(wk, x, at)
           fr == f[n]
           s == x[Len(wk)]
           t == x[Len(wk) + 1]
           g == OldFrame(wk, s)
           cl2 == Front(cl)
<1>1. /\ Core(cs, sc, cp, dc, f) /\ Supers(cs, cl, sc) /\ Working(wk, cl, x, at, n, sc)
      /\ n \in Nat /\ n >= 1 /\ c \in Compilers /\ cs \in Seq(Compilers) /\ dc \in Nat
      /\ fr = FrameAt(wk, x, Len(wk) + 1)
  BY Current
<1>2. "class" \notin Fns /\ "class" # "block" /\ "class" \in {"class", "enum"}
  BY DEF Fns
<1>3. t.top = s.top /\ t.top = Len(sc)
  <2>1. /\ t.top = IF "class" \in Fns \cup {"block"} \/ ("class" = "class" /\ cl[t.classes]) THEN s.top + 1 ELSE s.top
        /\ t.classes = Len(cl) /\ t.top = Len(sc)
    BY <1>1, InnermostFacts
  <2>2. ~cl[t.classes]
    BY <2>1, Zenon
  <2> QED BY <2>1, <2>2, <1>2
<1>4. /\ g \in Frames /\ g.base = fr.base /\ g.top = s.top /\ g.wait = "no" /\ fr.wait = "no"
      /\ d \in Compilers /\ d.locals = c.locals /\ d.upvalues = c.upvalues /\ d.scope_depth = c.scope_depth
      /\ Stacked(d, g)
  BY <1>2, TypeEnds
<1>5. fr.top = s.top
  BY <1>1, <1>3 DEF FrameAt
<1> HIDE DEF f, fr, g, s
<1>6. Len(cl) >= 1 /\ Ends(wk, cl, x, cl2, sc, sc) /\ cl \in Seq(BOOLEAN)
  <2>1. SameSupers(sc, sc, Len(sc)) /\ cl \in Seq(BOOLEAN)
    BY <1>1, WorkFacts DEF SameSupers
  <2> QED BY <2>1, <1>1, <1>3, ClassEnds DEF s
<1>7. CoreAt(cs, n, d, sc, cp, dc, f, g)
  <2>1. Resumes(c, fr, d, g)
    BY <1>4, <1>5 DEF Resumes
  <2>2. dc <= dc
    BY <1>1
  <2> QED BY <2>1, <2>2, <1>1, CoreAgain DEF fr
<1>8. Ready(d, g)
  BY <1>4 DEF Ready
<1>9. Supers([cs EXCEPT ![n] = d], cl2, sc)
  <2>1. SuperScopes(sc, sc)
    BY DEF SuperScopes
  <2>2. SuperLocals(cs, [cs EXCEPT ![n] = d])
    BY <1>1, <1>4, SuperLocalsSame
  <2>3. SuperClasses(cl, cl2)
    BY <1>6, FrontClass
  <2> QED BY <2>1, <2>2, <2>3, <1>1, SupersAgain
<1> HIDE DEF cl2
<1>10. \E x2, at2 : Sound([cs EXCEPT ![n] = d], cl2, Front(wk), sc, cp, dc, x2, at2)
  <2>1. Sound(cs, cl, wk, sc, cp, dc, x, at) /\ n = Len(cs) /\ f = FramesOf(wk, x, at) /\ g = OldFrame(wk, x[Len(wk)])
    BY DEF f, g, s
  <2>2. wk[Len(wk)] \notin Fns
    BY <1>2
  <2> QED BY ONLY <2>1, <2>2, <1>6, <1>7, <1>8, <1>9, SoundClosed
<1> QED BY <1>10 DEF cl2

\* The state stays sound when a subclass ends, its superclass left in its slot.
LEMMA SoundEndSubclass ==
  ASSUME NEW cs, NEW cl, NEW wk, NEW sc, NEW cp, NEW dc, NEW x, NEW at, Sound(cs, cl, wk, sc, cp, dc, x, at),
         NEW n, n = Len(cs), NEW c, c = cs[n], wk # <<>>, wk[Len(wk)] = "class", cl[Len(cl)],
         NEW d, d = Shallower(WithoutTemporary(c))
  PROVE  \E x2, at2 : Sound([cs EXCEPT ![n] = d], Front(cl), Front(wk), Front(sc), cp, dc, x2, at2)
<1> DEFINE f == FramesOf(wk, x, at)
           fr == f[n]
           s == x[Len(wk)]
           t == x[Len(wk) + 1]
           g == OldFrame(wk, s)
           cl2 == Front(cl)
           sc2 == Front(sc)
           e == WithoutTemporary(c)
<1>1. /\ Core(cs, sc, cp, dc, f) /\ Supers(cs, cl, sc) /\ Working(wk, cl, x, at, n, sc)
      /\ n \in Nat /\ n >= 1 /\ c \in Compilers /\ cs \in Seq(Compilers) /\ sc \in Seq(LexicalScopes) /\ dc \in Nat
      /\ fr = FrameAt(wk, x, Len(wk) + 1)
  BY Current
<1>2. "class" \notin Fns /\ "class" # "block" /\ "class" \in {"class", "enum"}
  BY DEF Fns
<1>3. t.top = s.top + 1 /\ t.top = Len(sc) /\ t.classes = Len(cl) /\ Len(wk) >= 1 /\ t.base = s.base
      /\ s.top \in Nat /\ s.base \in Nat /\ s.fns = n /\ Len(wk) \in Nat
  <2>1. t.top = IF "class" \in Fns \cup {"block"} \/ ("class" = "class" /\ cl[t.classes]) THEN s.top + 1 ELSE s.top
    BY <1>1, InnermostFacts
  <2>3. /\ t.classes = Len(cl) /\ t.top = Len(sc) /\ Len(wk) >= 1 /\ Len(wk) \in Nat /\ s.top \in Nat /\ s.base \in Nat
        /\ t.base = IF "class" \in Fns THEN s.top ELSE s.base
        /\ t.fns = IF "class" \in Fns THEN s.fns + 1 ELSE s.fns
        /\ t.fns = n
    <3>1. Working(wk, cl, x, at, n, sc) /\ wk # <<>> /\ wk[Len(wk)] = "class"
      BY <1>1
    <3> QED BY ONLY <3>1, InnermostFacts
  <2>2. cl[t.classes]
    BY <2>3, Zenon
  <2>4. t.top = s.top + 1
    BY <2>1, <2>2, Zenon
  <2> QED BY <2>3, <2>4, <1>2
<1>4. /\ g \in Frames /\ g.base = fr.base /\ g.base = s.base /\ g.top = s.top /\ g.wait = "no" /\ fr.wait = "no"
      /\ e \in Compilers /\ e.locals = c.locals /\ e.upvalues = c.upvalues /\ e.scope_depth = c.scope_depth
      /\ Stacked(e, g)
  BY <1>2, TypeEnds
<1>5. fr.top = s.top + 1
  BY <1>1, <1>3 DEF FrameAt
<1>6. HasSuper(sc, Len(sc))
  <2>1. Superseded(wk, cl, x, sc) /\ Len(wk) \in 1..Len(wk)
    BY <1>1, <1>3 DEF Working
  <2>2. wk[Len(wk)] = "class" /\ cl[x[Len(wk) + 1].classes]
    BY <1>3, Zenon
  <2>3. HasSuper(sc, x[Len(wk) + 1].top)
    BY <2>1, <2>2, Zenon DEF Superseded
  <2> QED BY <2>3, <1>3
<1>7. s.base <= s.top /\ (n > 1 => s.base < s.top)
  <2>1. Trail(wk, cl, x) /\ Len(wk) \in DOMAIN x
    BY <1>1, <1>3, WorkFacts DEF Working
  <2> QED BY <2>1, <1>3 DEF Trail
<1>8. c.scope_depth \in Nat /\ s.base + c.scope_depth = t.top
  <2>1. At(n, c, fr, t)
    BY CurrentSettings
  <2> QED BY <2>1, <1>3 DEF At
<1> HIDE DEF f, fr, g, s, t, e, sc2
<1>9. c.scope_depth > 0 /\ Len(sc) >= 1
  BY <1>3, <1>7, <1>8
<1>10. /\ d \in Compilers /\ d.locals = c.locals /\ d.stack = e.stack
       /\ d.upvalues = c.upvalues /\ d.scope_depth = c.scope_depth - 1
  <2>1. e.scope_depth > 0 /\ d = Shallower(e)
    BY <1>4, <1>9 DEF e
  <2> QED BY <2>1, <1>4, ShallowerFacts
<1>11. sc2 \in Seq(LexicalScopes) /\ Len(sc2) = Len(sc) - 1 /\ SameSupers(sc, sc2, Len(sc2))
  BY <1>1, <1>9, ShutScope DEF sc2
<1>12. Len(cl) >= 1 /\ Ends(wk, cl, x, cl2, sc, sc2) /\ cl \in Seq(BOOLEAN)
  <2>1. cl \in Seq(BOOLEAN) /\ Len(sc2) = x[Len(wk)].top
    BY <1>1, <1>3, <1>11, WorkFacts DEF s
  <2> QED BY <2>1, <1>1, <1>11, ClassEnds
<1>13. CoreAt(cs, n, d, sc2, cp, dc, f, g)
  <2>1. DOMAIN sc[Len(sc)].names = {"super"}
    <3>1. Len(sc) \in DOMAIN sc
      BY <1>1, <1>9
    <3> QED BY <3>1, <1>1, <1>6 DEF Supers
  <2>2. g.top = fr.top - 1 /\ (n = 1 \/ g.top > fr.base)
    BY <1>1, <1>3, <1>4, <1>5, <1>7
  <2>3. EndsSuper(sc, n, c, fr, d, g)
    BY <2>1, <2>2, <1>4, <1>9, <1>10 DEF EndsSuper
  <2> QED BY <2>3, <1>1, CoreEndSuper DEF fr, sc2
<1>14. Ready(d, g)
  <2>1. Len(e.locals) >= 1 /\ Len(d.locals) = Len(e.locals) /\ \A i \in DOMAIN e.locals : d.locals[i].id = e.locals[i].id
    <3>1. Len(c.locals) >= 1
      BY Current
    <3> QED BY <3>1, <1>4, <1>10
  <2>2. Stacked(d, g)
    BY <2>1, <1>4, <1>10, StackedSame
  <2> QED BY <2>2, <1>4 DEF Ready
<1>15. Supers([cs EXCEPT ![n] = d], cl2, sc2)
  <2>1. cl2 \in Seq(BOOLEAN)
    BY <1>12, FrontClass
  <2> QED BY <2>1, <1>1, <1>6, <1>9, <1>12, SupersEnd DEF sc2
<1> HIDE DEF cl2
<1>16. \E x2, at2 : Sound([cs EXCEPT ![n] = d], cl2, Front(wk), sc2, cp, dc, x2, at2)
  <2>1. Sound(cs, cl, wk, sc, cp, dc, x, at) /\ n = Len(cs) /\ f = FramesOf(wk, x, at) /\ g = OldFrame(wk, x[Len(wk)])
    BY DEF f, g, s
  <2>2. wk[Len(wk)] \notin Fns
    BY <1>2
  <2> QED BY ONLY <2>1, <2>2, <1>12, <1>13, <1>14, <1>15, SoundClosed
<1> QED BY <1>16 DEF cl2, sc2

-----------------------------------------------------------------------------
(* What the actions say, as functions of the state.                        *)

\* Entering one construct appends it.
LEMMA EntersOne ==
  ASSUME NEW S, NEW s \in Seq(S), NEW e \in S
  PROVE  s \o <<e>> = Append(s, e)
OBVIOUS

\* Entering two constructs appends them in order.
LEMMA EntersTwo ==
  ASSUME NEW S, NEW s \in Seq(S), NEW d \in S, NEW e \in S
  PROVE  s \o <<d, e>> = Append(Append(s, d), e)
OBVIOUS

\* The scope a name is at home in, as a function of the scopes,
LEMMA HomeIs ==
  ASSUME NEW name
  PROVE  Home(name) = HomeOf(scopes, name)
BY DEF Home, HomeOf, SelectLastInSeq

\* the captures of some names, as one of scopes and functions,
LEMMA CapturedIs ==
  ASSUME NEW names
  PROVE  Captured(names) = CapturedIn(scopes, Curr, names)
<1>1. \A m : Home(m) = HomeOf(scopes, m)
  BY HomeIs
<1>2. \A m : Lexical(m) = LexicalIn(scopes, m)
  BY <1>1 DEF Lexical, LexicalIn
<1> QED BY <1>1, <1>2 DEF Captured, CapturedIn

\* and the scopes with a name bound.
LEMMA BindIs ==
  ASSUME NEW name, NEW id
  PROVE  Bind(name, id) = BindIn(scopes, name, id)
BY DEF Bind, BindIn

\* The captures of self and super are those of each.
LEMMA CapturedPair ==
  ASSUME NEW sc, NEW n
  PROVE  CapturedIn(sc, n, {"self", "super"}) = CapturedIn(sc, n, {"self"}) \cup CapturedIn(sc, n, {"super"})
<1> DEFINE ReadIn(m) == HomeOf(sc, m) # 0 /\ sc[HomeOf(sc, m)].fn # n
<1> HIDE DEF ReadIn
<1>1. \A names : CapturedIn(sc, n, names) = {LexicalIn(sc, y) : y \in {m \in names : ReadIn(m)}}
  BY DEF CapturedIn, ReadIn
<1> QED BY <1>1

\* Binding one name moves no other.
LEMMA HomeRenamed ==
  ASSUME NEW sc \in Seq(LexicalScopes), Len(sc) >= 1, NEW sc2, NEW name, NEW id, Renamed(sc, sc2, name, id),
         NEW other, other # name
  PROVE  HomeOf(sc2, other) = HomeOf(sc, other)
         /\ \A n : CapturedIn(sc2, n, {other}) = CapturedIn(sc, n, {other})
<1> DEFINE h == HomeOf(sc, other)
           h2 == HomeOf(sc2, other)
<1>1. /\ sc2 \in Seq(LexicalScopes) /\ Len(sc2) = Len(sc) /\ Len(sc) \in Nat
      /\ DOMAIN sc = 1..Len(sc) /\ DOMAIN sc2 = 1..Len(sc)
  BY DEF Renamed
<1>2. \A g \in 1..Len(sc) : /\ sc2[g].fn = sc[g].fn /\ (other \in DOMAIN sc2[g].names <=> other \in DOMAIN sc[g].names)
                            /\ (other \in DOMAIN sc[g].names => sc2[g].names[other] = sc[g].names[other])
  <2> SUFFICES ASSUME NEW g \in 1..Len(sc)
               PROVE  /\ sc2[g].fn = sc[g].fn /\ (other \in DOMAIN sc2[g].names <=> other \in DOMAIN sc[g].names)
                      /\ (other \in DOMAIN sc[g].names => sc2[g].names[other] = sc[g].names[other])
    OBVIOUS
  <2>1. CASE g = Len(sc)
    BY <2>1 DEF Renamed, NamedIn
  <2>2. CASE g # Len(sc)
    <3>1. g \in 1..Len(sc) - 1
      <4> DEFINE k == Len(sc)
      <4>1. k \in Nat /\ g \in 1..k /\ g # k
        BY <2>2, <1>1
      <4> HIDE DEF k
      <4>2. g \in 1..k - 1
        BY ONLY <4>1
      <4> QED BY <4>2 DEF k
    <3> QED BY <3>1 DEF Renamed
  <2> QED BY <2>1, <2>2
<1>3. /\ h \in 0..Len(sc) /\ (h # 0 => other \in DOMAIN sc[h].names)
      /\ \A g \in 1..Len(sc) : other \in DOMAIN sc[g].names => h # 0 /\ g <= h
  BY <1>1, HomeFacts
<1>4. /\ h2 \in 0..Len(sc) /\ (h2 # 0 => other \in DOMAIN sc2[h2].names)
      /\ \A g \in 1..Len(sc) : other \in DOMAIN sc2[g].names => h2 # 0 /\ g <= h2
  BY <1>1, HomeFacts
<1> HIDE DEF h, h2
<1>5. h # 0 => h2 # 0 /\ h <= h2
  <2> SUFFICES ASSUME h # 0 PROVE h2 # 0 /\ h <= h2
    OBVIOUS
  <2>1. h \in 1..Len(sc) /\ other \in DOMAIN sc2[h].names
    BY <1>1, <1>2, <1>3
  <2> QED BY <2>1, <1>4
<1>6. h2 # 0 => h # 0 /\ h2 <= h
  <2> SUFFICES ASSUME h2 # 0 PROVE h # 0 /\ h2 <= h
    OBVIOUS
  <2>1. h2 \in 1..Len(sc) /\ other \in DOMAIN sc[h2].names
    BY <1>1, <1>2, <1>4
  <2> QED BY <2>1, <1>3
<1>7. h2 = h
  BY <1>1, <1>3, <1>4, <1>5, <1>6
<1>8. h # 0 => sc2[h].fn = sc[h].fn /\ LexicalIn(sc2, other) = LexicalIn(sc, other)
  <2> SUFFICES ASSUME h # 0 PROVE sc2[h].fn = sc[h].fn /\ LexicalIn(sc2, other) = LexicalIn(sc, other)
    OBVIOUS
  <2>1. h \in 1..Len(sc) /\ other \in DOMAIN sc[h].names
    BY <1>1, <1>3
  <2>2. sc2[h].fn = sc[h].fn /\ sc2[h].names[other] = sc[h].names[other]
    BY <2>1, <1>2
  <2> QED BY <2>2, <1>7 DEF LexicalIn, h, h2
<1>9. \A n : CapturedIn(sc2, n, {other}) = CapturedIn(sc, n, {other})
  <2> SUFFICES ASSUME NEW n PROVE CapturedIn(sc2, n, {other}) = CapturedIn(sc, n, {other})
    OBVIOUS
  <2>1. HomeOf(sc2, other) = h /\ HomeOf(sc, other) = h
    BY <1>7 DEF h, h2
  <2>2. (h # 0 /\ sc2[h].fn # n) <=> (h # 0 /\ sc[h].fn # n)
    BY <1>8
  <2>3. CASE h # 0 /\ sc[h].fn # n
    <3>1. CapturedIn(sc, n, {other}) = {LexicalIn(sc, other)}
      BY <2>1, <2>3 DEF CapturedIn
    <3>2. CapturedIn(sc2, n, {other}) = {LexicalIn(sc2, other)}
      BY <2>1, <2>2, <2>3 DEF CapturedIn
    <3> QED BY <3>1, <3>2, <2>3, <1>8
  <2>4. CASE ~(h # 0 /\ sc[h].fn # n)
    <3>1. CapturedIn(sc, n, {other}) = {}
      BY <2>1, <2>4 DEF CapturedIn
    <3>2. CapturedIn(sc2, n, {other}) = {}
      BY <2>1, <2>2, <2>4 DEF CapturedIn
    <3> QED BY <3>1, <3>2
  <2> QED BY <2>3, <2>4
<1> QED BY <1>7, <1>9 DEF h, h2

\* Inside a subclass super is at home in an open scope.
LEMMA SuperIsHome ==
  ASSUME NEW cs, NEW cl, NEW wk, NEW sc, NEW cp, NEW dc, NEW x, NEW at, Sound(cs, cl, wk, sc, cp, dc, x, at),
         NEW n, n = Len(cs), cl # <<>>, Last(cl)
  PROVE  HomeOf(sc, "super") # 0
<1> DEFINE f == FramesOf(wk, x, at)
           c == cs[n]
           fr == f[n]
<1>1. Core(cs, sc, cp, dc, f) /\ Supers(cs, cl, sc) /\ Working(wk, cl, x, at, n, sc) /\ sc \in Seq(LexicalScopes)
  BY Current
<1>2. cl \in Seq(BOOLEAN) /\ Len(cl) \in Nat /\ DOMAIN cl = 1..Len(cl)
  BY <1>1, WorkFacts
<1>3. Len(cl) \in DOMAIN cl /\ cl[Len(cl)]
  <2>1. Len(cl) # 0
    BY <1>2
  <2>2. cl[Len(cl)]
    BY Zenon DEF Last
  <2> QED BY <2>1, <2>2, <1>2
<1>4. \E a \in DOMAIN cl : cl[a]
  BY <1>3
<1>5. \E h \in DOMAIN sc : HasSuper(sc, h)
  BY <1>1, <1>4, Zenon DEF Supers
<1>6. Len(sc) \in Nat /\ DOMAIN sc = 1..Len(sc)
  BY <1>1
<1> QED BY <1>5, <1>6, HomeFacts DEF HasSuper

-----------------------------------------------------------------------------
(* The invariant, and where the parser starts.                             *)

FirstFrame == [base |-> 0, top |-> 0, temps |-> 0, wait |-> "no"]

\* At the start the script has the only frame.
LEMMA FirstFrames ==
  FramesOf(<<>>, <<Outermost>>, <<1>>) = <<FirstFrame>>
<1>1. WaitOf(<<>>, 1, Outermost) = "no"
  BY DEF WaitOf, Outermost
<1>2. DOMAIN <<1>> = {1} /\ <<1>>[1] = 1 /\ <<Outermost>>[1] = Outermost
  OBVIOUS
<1>3. FramesOf(<<>>, <<Outermost>>, <<1>>) = [k \in {1} |-> FirstFrame]
  BY <1>1, <1>2 DEF FramesOf, FirstFrame, Outermost
<1>4. [k \in {1} |-> FirstFrame] = <<FirstFrame>>
  OBVIOUS
<1> QED BY <1>3, <1>4

\* init_compiler for the script: slot 1 alone, at depth 0.
LEMMA ScriptFacts ==
  ASSUME NEW c, c = init_compiler("script", 1)
  PROVE  /\ c \in Compilers /\ c.scope_depth = 0 /\ c.upvalues = <<>> /\ Len(c.locals) = 1 /\ DOMAIN c.locals = {1}
         /\ c.locals[1].name = "" /\ c.locals[1].depth = 0 /\ c.locals[1].id = <<"callee", 1>>
         /\ c.locals[1].is_captured = FALSE /\ c.stack = <<c.locals[1].id>>
<1> DEFINE l == [name |-> "", depth |-> 0, is_captured |-> FALSE, id |-> <<"callee", 1>>]
<1>1. <<"callee", 1>> \in Ids
  BY DEF Ids
<1>2. l \in Locals
  BY <1>1 DEF Locals, LocalNames
<1>3. /\ c.fn_type = "script" /\ c.locals = <<l>> /\ c.scope_depth = 0 /\ c.upvalues = <<>> /\ c.arity = 0
      /\ c.stack = <<<<"callee", 1>>>>
      /\ c = [fn_type |-> "script", locals |-> <<l>>, scope_depth |-> 0, upvalues |-> <<>>, arity |-> 0,
              stack |-> <<<<"callee", 1>>>>]
  BY DEF init_compiler
<1>4. l.name = "" /\ l.depth = 0 /\ l.is_captured = FALSE /\ l.id = <<"callee", 1>>
  OBVIOUS
<1> HIDE DEF l
<1>5. <<l>> \in Seq(Locals) /\ Len(<<l>>) = 1 /\ DOMAIN <<l>> = {1} /\ <<l>>[1] = l
  BY <1>2
<1>6. c \in Compilers
  <2> DEFINE ls == <<l>>
             st == <<<<"callee", 1>>>>
             no == <<>>
  <2>1. no \in Seq(UpvalueInfos) /\ st \in Seq(Ids \cup {Temporary}) /\ ls \in Seq(Locals)
    BY <1>1, <1>5
  <2>2. c = [fn_type |-> "script", locals |-> ls, scope_depth |-> 0, upvalues |-> no, arity |-> 0, stack |-> st]
    BY <1>3
  <2> HIDE DEF ls, st, no
  <2> QED BY ONLY <2>1, <2>2 DEF Compilers
<1> QED BY <1>3, <1>4, <1>5, <1>6

\* At the start compilers, scopes and stacks are sound,
LEMMA FirstCore ==
  ASSUME NEW c, c = init_compiler("script", 1)
  PROVE  /\ Core(<<c>>, <<>>, {}, 0, <<FirstFrame>>) /\ Supers(<<c>>, <<>>, <<>>) /\ AllStacked(<<c>>, <<FirstFrame>>)
<1> DEFINE fr == FirstFrame
           cs == <<c>>
           f == <<fr>>
           sc == <<>>
<1>1. /\ c \in Compilers /\ c.scope_depth = 0 /\ c.upvalues = <<>> /\ Len(c.locals) = 1 /\ DOMAIN c.locals = {1}
      /\ c.locals[1].name = "" /\ c.locals[1].depth = 0 /\ c.locals[1].id = <<"callee", 1>>
      /\ c.locals[1].is_captured = FALSE /\ c.stack = <<c.locals[1].id>>
  BY ScriptFacts
<1>2. fr \in Frames /\ fr.base = 0 /\ fr.top = 0 /\ fr.temps = 0 /\ fr.wait = "no"
  BY DEF FirstFrame, Frames
<1> HIDE DEF fr
<1>3. /\ cs \in Seq(Compilers) /\ Len(cs) = 1 /\ DOMAIN cs = {1} /\ cs[1] = c
      /\ f \in Seq(Frames) /\ Len(f) = 1 /\ DOMAIN f = {1} /\ f[1] = fr
      /\ sc \in Seq(LexicalScopes) /\ Len(sc) = 0 /\ DOMAIN sc = {}
  <2>1. cs \in Seq(Compilers) /\ Len(cs) = 1 /\ DOMAIN cs = {1} /\ cs[1] = c
    <3>1. c \in Compilers
      BY <1>1
    <3> QED BY ONLY <3>1 DEF cs
  <2>2. f \in Seq(Frames) /\ Len(f) = 1 /\ DOMAIN f = {1} /\ f[1] = fr
    BY <1>2
  <2>3. sc \in Seq(LexicalScopes) /\ Len(sc) = 0 /\ DOMAIN sc = {}
    OBVIOUS
  <2> QED BY <2>1, <2>2, <2>3
<1> HIDE DEF cs, f, sc
<1>4. Typed(cs, sc, f)
  BY <1>3 DEF Typed
<1>5. Chained(sc, cs, f)
  BY <1>2, <1>3 DEF Chained
<1>6. Framed(sc, c, 1, fr, 0)
  <2>0. \A i \in DOMAIN c.locals : i = 1
    BY <1>1
  <2>1. Slots(c, 1, fr, 0)
    <3>1. \A i \in DOMAIN c.locals : ~(i > 1)
      BY <2>0
    <3>2. fr.base + c.scope_depth = fr.top /\ Len(c.locals) >= 1 /\ fr.wait = "no"
      <4>1. c.scope_depth = 0 /\ Len(c.locals) = 1
        BY <1>1, Zenon
      <4> QED BY ONLY <4>1, <1>2
    <3>3. c.locals[1].name = "" /\ c.locals[1].depth = 0 /\ c.locals[1].id = <<"callee", 1>>
      BY <1>1
    <3> QED BY ONLY <3>1, <3>2, <3>3 DEF Slots
  <2>2. Nested(sc, c, fr)
    <3>1. \A i, j \in DOMAIN c.locals : ~(i < j)
      BY <2>0
    <3> QED BY <3>1 DEF Nested
  <2>3. Covered(sc, c, fr)
    BY <1>2 DEF Covered
  <2>4. Known(sc, c, fr)
    BY <1>1 DEF Known
  <2> QED BY <2>1, <2>2, <2>3, <2>4 DEF Framed
<1>7. AllFramed(sc, cs, f, 0)
  BY <1>3, <1>6 DEF AllFramed
<1>8. Apart(cs)
  <2>1. \A k \in DOMAIN cs : k = 1
    BY <1>3
  <2>2. \A i \in DOMAIN cs[1].locals : i = 1
    BY <1>1, <1>3
  <2> QED BY <2>1, <2>2, Zenon DEF Apart
<1>9. MarkedAsRead(cs, {}, 0)
  BY <1>1, <1>3 DEF MarkedAsRead
<1>10. UpvaluesFit(cs)
  <2>1. IsInjective(c.upvalues)
    <3>1. DOMAIN c.upvalues = {}
      <4>1. \A s : s = <<>> => DOMAIN s = {}
        OBVIOUS
      <4> QED BY <4>1, <1>1, Zenon
    <3> QED BY <3>1 DEF IsInjective
  <2>2. Len(c.upvalues) = 0 /\ UpvaluesMax \in Nat
    BY <1>1, LimitsArePositive
  <2> QED BY <2>1, <2>2, <1>3 DEF UpvaluesFit
<1>11. Supers(cs, <<>>, sc)
  BY <1>3 DEF Supers
<1>12. AllStacked(cs, f)
  <2>1. Stacked(c, fr)
    BY <1>1, <1>2, StackedNew
  <2>2. Ready(c, fr)
    BY <2>1, <1>2 DEF Ready
  <2> QED BY <2>2, <1>3 DEF AllStacked
<1>13. Core(cs, sc, {}, 0, f)
  BY <1>4, <1>5, <1>7, <1>8, <1>9, <1>10 DEF Core
<1> QED BY <1>11, <1>12, <1>13 DEF cs, sc, f, fr

\* and so is the empty work list.
LEMMA FirstWorking ==
  Working(<<>>, <<>>, <<Outermost>>, <<1>>, 1, <<>>)
<1> DEFINE x == <<Outermost>>
           o == Outermost
           at == <<1>>
           wk == <<>>
           cl == <<>>
           sc == <<>>
<1>1. o \in Settings /\ o.fns = 1 /\ o.classes = 0 /\ o.base = 0 /\ o.top = 0 /\ o.temps = 0
  BY DEF Outermost, Settings
<1> HIDE DEF o
<1>2. /\ x \in Seq(Settings) /\ Len(x) = 1 /\ DOMAIN x = {1} /\ x[1] = o /\ x[1] = Outermost
      /\ at \in Seq(Nat) /\ Len(at) = 1 /\ at[1] = 1
      /\ wk \in Seq(Forms) /\ Len(wk) = 0 /\ cl \in Seq(BOOLEAN) /\ Len(cl) = 0 /\ Len(sc) = 0
  BY <1>1 DEF o
<1> HIDE DEF x, at, wk, cl, sc
<1>3. Trail(wk, cl, x)
  BY <1>1, <1>2 DEF Trail
<1>4. Ending(x, cl, 1, sc)
  BY <1>1, <1>2 DEF Ending
<1>5. Stands(wk, x, at, 1)
  BY <1>1, <1>2 DEF Stands
<1>6. Ordered(wk, x) /\ Superseded(wk, cl, x, sc)
  BY <1>2 DEF Ordered, Superseded
<1>7. Counted(wk, x)
  <2>1. 1..1 - 1 = {}
    OBVIOUS
  <2>2. TypesBefore(wk, 1) = Cardinality({})
    BY <2>1 DEF TypesBefore
  <2>3. TypesBefore(wk, 1) = 0
    BY <2>2, FS_EmptySet
  <2> QED BY <2>3, <1>1, <1>2 DEF Counted
<1>8. Working(wk, cl, x, at, 1, sc)
  BY <1>2, <1>3, <1>4, <1>5, <1>6, <1>7 DEF Working
<1> QED BY <1>8 DEF wk, cl, x, at, sc

\* The inductive invariant: there are settings of the constructs and places of the
\* functions that account for every compiler, scope, capture and cell of the stacks.
ScopesIInv == \E x, at : Sound(compilers, classes, work, scopes, captures, declared, x, at)

\* The parser starts in a sound state.
LEMMA InitSound ==
  ScopesInit => ScopesIInv
<1> SUFFICES ASSUME ScopesInit PROVE ScopesIInv
  OBVIOUS
<1> DEFINE c == init_compiler("script", 1)
           cs == <<c>>
<1>1. /\ compilers = cs /\ classes = <<>> /\ work = <<>> /\ scopes = <<>> /\ captures = {} /\ declared = 0
  BY DEF ScopesInit
<1>2. /\ Core(cs, <<>>, {}, 0, <<FirstFrame>>) /\ Supers(cs, <<>>, <<>>) /\ AllStacked(cs, <<FirstFrame>>)
  BY FirstCore
<1>3. Len(cs) = 1
  OBVIOUS
<1> HIDE DEF cs
<1>4. Sound(cs, <<>>, <<>>, <<>>, {}, 0, <<Outermost>>, <<1>>)
  BY <1>2, <1>3, FirstFrames, FirstWorking DEF Sound
<1> QED BY <1>1, <1>4 DEF ScopesIInv

-----------------------------------------------------------------------------
(* Every action keeps the invariant.                                       *)

\* The same, for given settings.
Held(x, at) == Sound(compilers, classes, work, scopes, captures, declared, x, at)

\* What a sound state says of the variables of the parser.
LEMMA Standing ==
  ASSUME NEW x, NEW at, Held(x, at)
  PROVE  /\ Sound(compilers, classes, work, scopes, captures, declared, x, at)
         /\ work \in Seq(Forms) /\ Len(work) \in Nat /\ (work # <<>> => Len(work) >= 1 /\ work[Len(work)] \in Forms)
         /\ compilers \in Seq(Compilers) /\ Curr = Len(compilers) /\ Curr \in Nat /\ Curr >= 1 /\ Compiler = compilers[Curr]
         /\ Compiler \in Compilers /\ Compiler.scope_depth \in Nat
         /\ scopes \in Seq(LexicalScopes) /\ Len(scopes) \in Nat /\ (Compiler.scope_depth > 0 => Len(scopes) >= 1)
         /\ classes \in Seq(BOOLEAN) /\ declared \in Nat
<1> DEFINE cs == compilers
           n == Curr
           f == FramesOf(work, x, at)
           c == Compiler
           fr == f[n]
<1>1. Sound(cs, classes, work, scopes, captures, declared, x, at) /\ n = Len(cs) /\ c = cs[n]
  BY DEF Held, Curr, Compiler
<1> HIDE DEF n, c, f, fr
<1>2. n = Len(cs) /\ f = FramesOf(work, x, at) /\ c = cs[n] /\ fr = f[n]
  BY <1>1 DEF f, fr
<1>3. /\ Core(cs, scopes, captures, declared, f) /\ Working(work, classes, x, at, n, scopes)
      /\ n \in Nat /\ n >= 1 /\ c \in Compilers /\ cs \in Seq(Compilers) /\ scopes \in Seq(LexicalScopes) /\ declared \in Nat
  BY ONLY <1>1, <1>2, Current
<1>4. /\ work \in Seq(Forms) /\ Len(work) \in Nat /\ classes \in Seq(BOOLEAN) /\ \A p \in 1..Len(work) : work[p] \in Forms
  BY <1>3, WorkFacts
<1>5. work # <<>> => Len(work) >= 1 /\ work[Len(work)] \in Forms
  <2> SUFFICES ASSUME work # <<>> PROVE Len(work) >= 1 /\ work[Len(work)] \in Forms
    OBVIOUS
  <2>1. Len(work) # 0
    BY <1>4
  <2> QED BY <2>1, <1>4
<1>6. /\ fr.base \in Nat /\ fr.top \in Nat /\ c.scope_depth \in Nat /\ fr.base + c.scope_depth = fr.top /\ Len(scopes) = fr.top
  BY <1>2, <1>3, LastFacts
<1>7. Len(scopes) \in Nat /\ (c.scope_depth > 0 => Len(scopes) >= 1)
  BY <1>6
<1> QED BY <1>1, <1>3, <1>4, <1>5, <1>6, <1>7 DEF n, c

\* A step is sound if some settings make the state after it sound.
LEMMA Onward ==
  ASSUME \E x2, at2 : Sound(compilers', classes', work', scopes', captures', declared', x2, at2)
  PROVE  ScopesIInv'
BY DEF ScopesIInv

\* Where a declaration is parsed, the work list says so.
LEMMA InPlain ==
  ASSUME NEW x, NEW at, Held(x, at), In(Declarations) \/ In({"params"})
  PROVE  Plain(work)
<1>1. work # <<>> => work[Len(work)] \in Forms
  BY Standing
<1>2. CASE work = <<>>
  BY <1>2 DEF Plain
<1>3. CASE work # <<>>
  <2>1. work[Len(work)] \in Declarations \/ work[Len(work)] \in {"params"}
    BY <1>3 DEF In, Last
  <2> QED BY <1>1, <1>3, <2>1 DEF Plain, Declarations, Forms, Fns
<1> QED BY <1>2, <1>3

\* Where one form of construct is parsed, it is the last of the work list.
LEMMA InOne ==
  ASSUME NEW form, form # "script", In({form})
  PROVE  work # <<>> /\ work[Len(work)] = form
BY DEF In, Last

\* A parse error keeps the state sound.
LEMMA ErrorSound ==
  ScopesIInv /\ parse_error => ScopesIInv'
BY DEF ScopesIInv, parse_error

\* begin_scope of a block keeps the state sound.
LEMMA BlockSound ==
  ScopesIInv /\ begin_block => ScopesIInv'
<1> SUFFICES ASSUME ScopesIInv, begin_block PROVE ScopesIInv'
  OBVIOUS
<1>1. PICK x, at : Held(x, at)
  BY DEF ScopesIInv, Held
<1>2. /\ Sound(compilers, classes, work, scopes, captures, declared, x, at)
      /\ work \in Seq(Forms) /\ Curr = Len(compilers) /\ Compiler = compilers[Curr]
  BY <1>1, Standing
<1>3. Plain(work)
  BY <1>1, InPlain DEF begin_block
<1>4. work' = Append(work, "block")
  <2>1. "block" \in Forms
    BY DEF Forms
  <2> QED BY <2>1, <1>2, EntersOne DEF begin_block, Enter
<1>5. /\ compilers' = [compilers EXCEPT ![Curr] = Deeper(Compiler)]
      /\ scopes' = Append(scopes, Scope(Curr, EmptyScope))
      /\ classes' = classes /\ captures' = captures /\ declared' = declared
  BY DEF begin_block, Become
<1>6. \E x2, at2 : Sound([compilers EXCEPT ![Curr] = Deeper(Compiler)], classes, Append(work, "block"),
                         Append(scopes, Scope(Curr, EmptyScope)), captures, declared, x2, at2)
  BY <1>2, <1>3, SoundBlock
<1> QED BY <1>4, <1>5, <1>6, Onward

\* end_scope of a block keeps the state sound.
LEMMA EndBlockSound ==
  ScopesIInv /\ end_block => ScopesIInv'
<1> SUFFICES ASSUME ScopesIInv, end_block PROVE ScopesIInv'
  OBVIOUS
<1>1. PICK x, at : Held(x, at)
  BY DEF ScopesIInv, Held
<1>2. /\ Sound(compilers, classes, work, scopes, captures, declared, x, at)
      /\ Curr = Len(compilers) /\ Compiler = compilers[Curr]
  BY <1>1, Standing
<1>3. work # <<>> /\ work[Len(work)] = "block"
  BY InOne DEF end_block
<1>4. /\ compilers' = [compilers EXCEPT ![Curr] = end_scope(Compiler)] /\ work' = Front(work)
      /\ scopes' = Front(scopes) /\ captures' = captures \ Range(Last(scopes).names)
      /\ classes' = classes /\ declared' = declared
  BY DEF end_block, Become, Leave, CloseScope
<1> DEFINE d == end_scope(Compiler)
<1> HIDE DEF d
<1>5. \E x2, at2 : Sound([compilers EXCEPT ![Curr] = d], classes, Front(work),
                         Front(scopes), captures \ Range(Last(scopes).names), declared, x2, at2)
  BY <1>2, <1>3, SoundEndBlock DEF d
<1> QED BY <1>4, <1>5, Onward DEF d

\* var_declaration, up to the initializer, keeps the state sound.
LEMMA VarSound ==
  ASSUME NEW name \in Names
  PROVE  ScopesIInv /\ begin_var(name) => ScopesIInv'
<1> SUFFICES ASSUME ScopesIInv, begin_var(name) PROVE ScopesIInv'
  OBVIOUS
<1>1. PICK x, at : Held(x, at)
  BY DEF ScopesIInv, Held
<1>2. /\ Sound(compilers, classes, work, scopes, captures, declared, x, at)
      /\ work \in Seq(Forms) /\ Curr = Len(compilers) /\ Compiler = compilers[Curr]
  BY <1>1, Standing
<1>3. Plain(work)
  BY <1>1, InPlain DEF begin_var
<1>4. CASE Undeclarable(Compiler, name)
  BY <1>4, ErrorSound DEF begin_var
<1>5. CASE ~Undeclarable(Compiler, name)
  <2> DEFINE d == declare_variable(Compiler, name, Fresh)
             sc2 == IF Compiler.scope_depth = 0 THEN scopes ELSE BindIn(scopes, name, Fresh)
  <2>1. work' = Append(work, "var")
    <3>1. "var" \in Forms
      BY DEF Forms
    <3> QED BY <3>1, <1>2, <1>5, EntersOne DEF begin_var, Enter
  <2>2. /\ compilers' = [compilers EXCEPT ![Curr] = d] /\ scopes' = sc2
        /\ classes' = classes /\ captures' = captures /\ declared' = declared + 1
    BY <1>5, BindIs DEF begin_var, Become, Declares
  <2> HIDE DEF d, sc2
  <2>3. d = declare_variable(Compiler, name, Fresh) /\ Fresh = <<"declaration", declared + 1>>
        /\ sc2 = IF Compiler.scope_depth = 0 THEN scopes ELSE BindIn(scopes, name, Fresh)
    BY DEF d, sc2, Fresh
  <2>4. \E x2, at2 : Sound([compilers EXCEPT ![Curr] = d], classes, Append(work, "var"), sc2, captures, declared + 1, x2, at2)
    BY <1>2, <1>3, <1>5, <2>3, SoundVar
  <2> QED BY <2>1, <2>2, <2>4, Onward
<1> QED BY <1>4, <1>5

\* define_variable after the initializer keeps the state sound.
LEMMA EndVarSound ==
  ScopesIInv /\ end_var => ScopesIInv'
<1> SUFFICES ASSUME ScopesIInv, end_var PROVE ScopesIInv'
  OBVIOUS
<1>1. PICK x, at : Held(x, at)
  BY DEF ScopesIInv, Held
<1>2. /\ Sound(compilers, classes, work, scopes, captures, declared, x, at)
      /\ Curr = Len(compilers) /\ Compiler = compilers[Curr]
  BY <1>1, Standing
<1>3. work # <<>> /\ work[Len(work)] = "var"
  BY InOne DEF end_var
<1> DEFINE d == define_variable(Compiler)
<1>4. /\ compilers' = [compilers EXCEPT ![Curr] = d] /\ work' = Front(work)
      /\ scopes' = scopes /\ captures' = captures /\ classes' = classes /\ declared' = declared
  BY DEF end_var, Become, Leave
<1> HIDE DEF d
<1>5. \E x2, at2 : Sound([compilers EXCEPT ![Curr] = d], classes, Front(work), scopes, captures, declared, x2, at2)
  BY <1>2, <1>3, SoundEndVar DEF d
<1> QED BY <1>4, <1>5, Onward

\* The end of the parameters keeps the state sound.
LEMMA BodySound ==
  ScopesIInv /\ begin_body => ScopesIInv'
<1> SUFFICES ASSUME ScopesIInv, begin_body PROVE ScopesIInv'
  OBVIOUS
<1>1. PICK x, at : Held(x, at)
  BY DEF ScopesIInv, Held
<1>2. /\ Sound(compilers, classes, work, scopes, captures, declared, x, at)
      /\ Curr = Len(compilers) /\ Compiler = compilers[Curr]
  BY <1>1, Standing
<1>3. work # <<>> /\ work[Len(work)] = "params"
  BY InOne DEF begin_body
<1>4. /\ compilers' = compilers /\ work' = Front(work)
      /\ scopes' = scopes /\ captures' = captures /\ classes' = classes /\ declared' = declared
  BY DEF begin_body, Leave
<1>5. \E x2, at2 : Sound(compilers, classes, Front(work), scopes, captures, declared, x2, at2)
  BY <1>2, <1>3, SoundBody
<1> QED BY <1>4, <1>5, Onward

\* The end of an enum keeps the state sound.
LEMMA EndEnumSound ==
  ScopesIInv /\ end_enum => ScopesIInv'
<1> SUFFICES ASSUME ScopesIInv, end_enum PROVE ScopesIInv'
  OBVIOUS
<1>1. PICK x, at : Held(x, at)
  BY DEF ScopesIInv, Held
<1>2. /\ Sound(compilers, classes, work, scopes, captures, declared, x, at)
      /\ Curr = Len(compilers) /\ Compiler = compilers[Curr]
  BY <1>1, Standing
<1>3. work # <<>> /\ work[Len(work)] = "enum"
  BY InOne DEF end_enum
<1> DEFINE d == WithoutTemporary(Compiler)
<1>4. /\ compilers' = [compilers EXCEPT ![Curr] = d] /\ work' = Front(work)
      /\ scopes' = scopes /\ captures' = captures /\ classes' = classes /\ declared' = declared
  BY DEF end_enum, Become, Leave
<1> HIDE DEF d
<1>5. \E x2, at2 : Sound([compilers EXCEPT ![Curr] = d], classes, Front(work), scopes, captures, declared, x2, at2)
  BY <1>2, <1>3, SoundEndEnum DEF d
<1> QED BY <1>4, <1>5, Onward

\* The end of a class, with or without a superclass, keeps the state sound.
LEMMA EndClassSound ==
  ScopesIInv /\ end_class => ScopesIInv'
<1> SUFFICES ASSUME ScopesIInv, end_class PROVE ScopesIInv'
  OBVIOUS
<1>1. PICK x, at : Held(x, at)
  BY DEF ScopesIInv, Held
<1>2. /\ Sound(compilers, classes, work, scopes, captures, declared, x, at)
      /\ Curr = Len(compilers) /\ Compiler = compilers[Curr]
  BY <1>1, Standing
<1>3. work # <<>> /\ work[Len(work)] = "class"
  BY InOne DEF end_class
<1>4. work' = Front(work) /\ classes' = Front(classes) /\ captures' = captures /\ declared' = declared
  BY DEF end_class, Leave
<1>5. CASE Last(classes)
  <2> DEFINE d == Shallower(WithoutTemporary(Compiler))
  <2>1. compilers' = [compilers EXCEPT ![Curr] = d] /\ scopes' = Front(scopes)
    BY <1>5 DEF end_class, Become
  <2> HIDE DEF d
  <2>2. classes[Len(classes)]
    BY <1>5, Zenon DEF Last
  <2>3. \E x2, at2 : Sound([compilers EXCEPT ![Curr] = d], Front(classes), Front(work), Front(scopes), captures, declared, x2, at2)
    <3>1. d = Shallower(WithoutTemporary(Compiler))
      BY DEF d
    <3> QED BY <1>2, <1>3, <2>2, <3>1, SoundEndSubclass, Zenon
  <2> QED BY <1>4, <2>1, <2>3, Onward
<1>6. CASE ~Last(classes)
  <2> DEFINE d == WithoutTemporary(Compiler)
  <2>1. compilers' = [compilers EXCEPT ![Curr] = d] /\ scopes' = scopes
    BY <1>6 DEF end_class, Become
  <2> HIDE DEF d
  <2>2. ~classes[Len(classes)]
    BY <1>6, Zenon DEF Last
  <2>3. \E x2, at2 : Sound([compilers EXCEPT ![Curr] = d], Front(classes), Front(work), scopes, captures, declared, x2, at2)
    <3>1. d = WithoutTemporary(Compiler)
      BY DEF d
    <3> QED BY <1>2, <1>3, <2>2, <3>1, SoundEndClass, Zenon
  <2> QED BY <1>4, <2>1, <2>3, Onward
<1> QED BY <1>5, <1>6

\* curr_from_sub_compiler keeps the state sound.
LEMMA ReturnSound ==
  ScopesIInv /\ curr_from_sub_compiler => ScopesIInv'
<1> SUFFICES ASSUME ScopesIInv, curr_from_sub_compiler PROVE ScopesIInv'
  OBVIOUS
<1>1. PICK x, at : Held(x, at)
  BY DEF ScopesIInv, Held
<1>2. /\ Sound(compilers, classes, work, scopes, captures, declared, x, at)
      /\ Curr = Len(compilers) /\ compilers \in Seq(Compilers) /\ Curr \in Nat /\ Curr >= 1
  BY <1>1, Standing
<1>3. work # <<>> /\ work[Len(work)] \in Fns
  BY DEF curr_from_sub_compiler, In, Last, Fns
<1> DEFINE cs1 == Front(compilers)
           n == Curr
           d == IF work[Len(work)] = "fn" THEN define_variable(cs1[n - 1]) ELSE cs1[n - 1]
<1>4. /\ work' = Front(work)
      /\ scopes' = Front(scopes) /\ captures' = captures \ Range(Last(scopes).names)
      /\ classes' = classes /\ declared' = declared
  BY DEF curr_from_sub_compiler, Leave, CloseScope
<1>5. cs1 \in Seq(Compilers)
  BY <1>2, FrontFacts
<1>6. compilers' = [cs1 EXCEPT ![n - 1] = d]
  <2>1. CASE work[Len(work)] = "fn"
    <3>1. compilers' = [Front(compilers) EXCEPT ![Curr - 1] = define_variable(@)]
      BY <2>1 DEF curr_from_sub_compiler, Last
    <3> QED BY <2>1, <3>1
  <2>2. CASE work[Len(work)] # "fn"
    <3>1. compilers' = cs1
      BY <2>2 DEF curr_from_sub_compiler, Last
    <3>2. d = cs1[n - 1]
      BY <2>2
    <3> HIDE DEF d, cs1, n
    <3>3. [cs1 EXCEPT ![n - 1] = cs1[n - 1]] = cs1
      BY <1>5, ExceptSame
    <3> QED BY <3>1, <3>2, <3>3
  <2> QED BY <2>1, <2>2
<1>7. cs1 = Front(compilers) /\ n = Len(compilers)
      /\ d = IF work[Len(work)] = "fn" THEN define_variable(cs1[n - 1]) ELSE cs1[n - 1]
  BY <1>2
<1> HIDE DEF d, cs1, n
<1>8. \E x2, at2 : Sound([cs1 EXCEPT ![n - 1] = d], classes, Front(work), Front(scopes),
                         captures \ Range(Last(scopes).names), declared, x2, at2)
  BY ONLY <1>2, <1>3, <1>7, SoundReturn
<1> QED BY <1>4, <1>6, <1>8, Onward

\* parse_identifier keeps the state sound.
LEMMA IdentifierSound ==
  ASSUME NEW name \in Names
  PROVE  ScopesIInv /\ parse_identifier(name) => ScopesIInv'
<1> SUFFICES ASSUME ScopesIInv, parse_identifier(name) PROVE ScopesIInv'
  OBVIOUS
<1>1. PICK x, at : Held(x, at)
  BY DEF ScopesIInv, Held
<1>2. /\ Sound(compilers, classes, work, scopes, captures, declared, x, at)
      /\ Curr = Len(compilers)
  BY <1>1, Standing
<1>3. CASE Unreadable(compilers, name)
  BY <1>3, ErrorSound DEF parse_identifier
<1>4. CASE ~Unreadable(compilers, name)
  <2>1. /\ compilers' = Searched(compilers, name) /\ captures' = captures \cup Captured({name})
        /\ work' = work /\ scopes' = scopes /\ classes' = classes /\ declared' = declared
    BY <1>4 DEF parse_identifier, Reads
  <2>2. Captured({name}) = CapturedIn(scopes, Len(compilers), {name})
    BY <1>2, CapturedIs
  <2>3. name \in Names \cup {"self", "super"} /\ name # "super"
    BY NamesAreIdentifiers
  <2>4. Sound(Searched(compilers, name), classes, work, scopes,
              captures \cup CapturedIn(scopes, Len(compilers), {name}), declared, x, at)
    BY <1>2, <1>4, <2>3, SoundSearch
  <2> QED BY <2>1, <2>2, <2>4, Onward
<1> QED BY <1>3, <1>4

\* parse_self keeps the state sound.
LEMMA SelfSound ==
  ScopesIInv /\ parse_self => ScopesIInv'
<1> SUFFICES ASSUME ScopesIInv, parse_self PROVE ScopesIInv'
  OBVIOUS
<1>1. PICK x, at : Held(x, at)
  BY DEF ScopesIInv, Held
<1>2. /\ Sound(compilers, classes, work, scopes, captures, declared, x, at)
      /\ Curr = Len(compilers)
  BY <1>1, Standing
<1>3. CASE classes = <<>> \/ Unreadable(compilers, "self")
  BY <1>3, ErrorSound DEF parse_self
<1>4. CASE ~(classes = <<>> \/ Unreadable(compilers, "self"))
  <2>1. /\ compilers' = Searched(compilers, "self") /\ captures' = captures \cup Captured({"self"})
        /\ work' = work /\ scopes' = scopes /\ classes' = classes /\ declared' = declared
    BY <1>4 DEF parse_self, Reads
  <2>2. Captured({"self"}) = CapturedIn(scopes, Len(compilers), {"self"})
    BY <1>2, CapturedIs
  <2>3. Sound(Searched(compilers, "self"), classes, work, scopes,
              captures \cup CapturedIn(scopes, Len(compilers), {"self"}), declared, x, at)
    BY <1>2, <1>4, SoundSearch
  <2> QED BY <2>1, <2>2, <2>3, Onward
<1> QED BY <1>3, <1>4

\* parse_super, which searches self and super, keeps the state sound.
LEMMA SuperSound ==
  ScopesIInv /\ parse_super => ScopesIInv'
<1> SUFFICES ASSUME ScopesIInv, parse_super PROVE ScopesIInv'
  OBVIOUS
<1> DEFINE chain == Searched(compilers, "self")
           fails == \/ classes = <<>> \/ ~Last(classes) \/ Unreadable(compilers, "self")
                    \/ Unreadable(chain, "super")
           n == Len(compilers)
           cp1 == captures \cup CapturedIn(scopes, n, {"self"})
           cp2 == cp1 \cup CapturedIn(scopes, n, {"super"})
<1>1. PICK x, at : Held(x, at)
  BY DEF ScopesIInv, Held
<1>2. /\ Sound(compilers, classes, work, scopes, captures, declared, x, at)
      /\ Curr = Len(compilers)
  BY <1>1, Standing
<1>3. CASE fails
  BY <1>3, ErrorSound, Zenon DEF parse_super
<1>4. CASE ~fails
  <2>1. /\ compilers' = Searched(chain, "super") /\ captures' = captures \cup Captured({"self", "super"})
        /\ work' = work /\ scopes' = scopes /\ classes' = classes /\ declared' = declared
    BY <1>4, Zenon DEF parse_super, Reads
  <2>2. classes # <<>> /\ Last(classes) /\ ~Unreadable(compilers, "self") /\ ~Unreadable(chain, "super")
    BY <1>4, Zenon
  <2>3. Captured({"self", "super"}) = CapturedIn(scopes, n, {"self"}) \cup CapturedIn(scopes, n, {"super"})
    BY <1>2, CapturedIs, CapturedPair
  <2>4. Sound(chain, classes, work, scopes, cp1, declared, x, at) /\ Len(chain) = n
    <3>1. "self" \in Names \cup {"self", "super"} /\ "self" # "super"
      OBVIOUS
    <3>2. ~Unreadable(compilers, "self")
      BY <2>2, Zenon
    <3> QED BY <1>2, <3>1, <3>2, SoundSearch
  <2>5. HomeOf(scopes, "super") # 0
    <3>1. classes # <<>>
      BY <2>2, Zenon
    <3>2. Last(classes)
      BY <2>2, Zenon
    <3> QED BY <1>2, <3>1, <3>2, SuperIsHome, Zenon
  <2> HIDE DEF chain, cp1
  <2>6. Sound(Searched(chain, "super"), classes, work, scopes, cp2, declared, x, at)
    <3>1. "super" \in Names \cup {"self", "super"}
      OBVIOUS
    <3>2. ~Unreadable(chain, "super")
      BY <2>2, Zenon
    <3> QED BY <2>4, <2>5, <3>1, <3>2, SoundSearch
  <2>7. captures' = cp2
    BY <2>1, <2>3 DEF cp1
  <2> HIDE DEF cp2
  <2> QED BY <2>1, <2>6, <2>7, Onward
<1> QED BY <1>3, <1>4

\* The scopes inside a function that begins.
LEMMA SubScopeIs ==
  ASSUME NEW outer, NEW form, SubScope(outer, form)
  PROVE  scopes' = Append(outer, SubScopeOf(form, Curr + 1))
BY DEF SubScope, SubScopeOf

\* fn_declaration, global or local, keeps the state sound.
LEMMA FnSound ==
  ASSUME NEW name \in Names
  PROVE  ScopesIInv /\ begin_fn(name) => ScopesIInv'
<1> SUFFICES ASSUME ScopesIInv, begin_fn(name) PROVE ScopesIInv'
  OBVIOUS
<1>1. PICK x, at : Held(x, at)
  BY DEF ScopesIInv, Held
<1>2. /\ Sound(compilers, classes, work, scopes, captures, declared, x, at)
      /\ work \in Seq(Forms) /\ Curr = Len(compilers) /\ Compiler = compilers[Curr]
      /\ compilers \in Seq(Compilers) /\ Compiler.scope_depth \in Nat /\ declared \in Nat
  BY <1>1, Standing
<1>3. Plain(work)
  BY <1>1, InPlain DEF begin_fn
<1>4. CASE Undeclarable(Compiler, name)
  BY <1>4, ErrorSound DEF begin_fn
<1>5. CASE ~Undeclarable(Compiler, name)
  <2> DEFINE dc2 == declared + 1
             n == Curr
             wk2 == Append(Append(work, "fn"), "params")
  <2>1. work' = wk2
    <3>1. "fn" \in Forms /\ "params" \in Forms
      BY DEF Forms, Fns
    <3> QED BY <3>1, <1>2, <1>5, EntersTwo DEF begin_fn, Enter
  <2>2. classes' = classes /\ captures' = captures /\ declared' = dc2
    BY <1>5 DEF begin_fn
  <2>3. "fn" \in Fns /\ dc2 \in Nat /\ declared <= dc2
    BY <1>2 DEF Fns
  <2>4. CASE Compiler.scope_depth = 0
    <3>1. mark_initialized(declare_variable(Compiler, name, Fresh)) = Compiler
      BY <2>4 DEF mark_initialized, declare_variable
    <3>2. [compilers EXCEPT ![Curr] = Compiler] = compilers
      BY <1>2, ExceptSame
    <3>3. compilers' = Append(compilers, SubCompiler("fn", n + 1))
      BY <1>5, <3>1, <3>2 DEF begin_fn, curr_into_sub_compiler, SubCompiler
    <3>4. scopes' = Append(scopes, SubScopeOf("fn", n + 1))
      <4>1. SubScope(scopes, "fn")
        BY <1>5, <2>4 DEF begin_fn
      <4> QED BY <4>1, SubScopeIs
    <3>5. \E x2, at2 : Sound(Append(compilers, SubCompiler("fn", n + 1)), classes, wk2,
                             Append(scopes, SubScopeOf("fn", n + 1)), captures, dc2, x2, at2)
      <4>1. n = Len(compilers) /\ compilers[n].scope_depth = 0 /\ ~(work # <<>> /\ work[Len(work)] = "var")
        BY <1>2, <1>3, <2>4, PlainFacts
      <4> HIDE DEF n, dc2
      <4> QED BY <1>2, <2>3, <4>1, SoundFnSame
    <3> HIDE DEF wk2, dc2, n
    <3> QED BY <2>1, <2>2, <3>3, <3>4, <3>5, Onward
  <2>5. CASE Compiler.scope_depth # 0
    <3> DEFINE d == mark_initialized(add_local(Compiler, name, Fresh))
               sc0 == BindIn(scopes, name, Fresh)
    <3>0. Compiler.scope_depth > 0
      BY <1>2, <2>5
    <3>1. mark_initialized(declare_variable(Compiler, name, Fresh)) = d
      BY <2>5 DEF declare_variable
    <3> HIDE DEF d, sc0
    <3>3. compilers' = Append([compilers EXCEPT ![n] = d], SubCompiler("fn", n + 1))
      BY <1>5, <3>1 DEF begin_fn, curr_into_sub_compiler, SubCompiler
    <3>4. scopes' = Append(sc0, SubScopeOf("fn", n + 1))
      <4>1. SubScope(sc0, "fn")
        BY <1>5, <2>5, BindIs DEF begin_fn, sc0
      <4> QED BY <4>1, SubScopeIs
    <3>5. \E x2, at2 : Sound(Append([compilers EXCEPT ![n] = d], SubCompiler("fn", n + 1)), classes, wk2,
                             Append(sc0, SubScopeOf("fn", n + 1)), captures, dc2, x2, at2)
      <4>1. /\ n = Len(compilers) /\ Compiler = compilers[n] /\ ~Undeclarable(Compiler, name)
            /\ Fresh = <<"declaration", declared + 1>> /\ d = mark_initialized(add_local(Compiler, name, Fresh))
            /\ sc0 = BindIn(scopes, name, Fresh) /\ dc2 = declared + 1 /\ name \in Names
        BY <1>2, <1>5 DEF d, sc0, Fresh
      <4> HIDE DEF n, dc2
      <4> QED BY ONLY <1>2, <1>3, <3>0, <4>1, SoundFnNamed DEF wk2
    <3> HIDE DEF wk2, dc2, n
    <3> QED BY <2>1, <2>2, <3>3, <3>4, <3>5, Onward
  <2> QED BY <2>4, <2>5
<1> QED BY <1>4, <1>5

\* A method or a lambda that begins keeps the state sound.
LEMMA UnnamedSound ==
  ASSUME NEW form \in {"method", "lambda"}
  PROVE  ScopesIInv /\ begin_unnamed(form) => ScopesIInv'
<1> SUFFICES ASSUME ScopesIInv, begin_unnamed(form) PROVE ScopesIInv'
  OBVIOUS
<1>1. PICK x, at : Held(x, at)
  BY DEF ScopesIInv, Held
<1>2. /\ Sound(compilers, classes, work, scopes, captures, declared, x, at)
      /\ work \in Seq(Forms) /\ Curr = Len(compilers) /\ declared \in Nat
  BY <1>1, Standing
<1> DEFINE n == Curr
           wk2 == Append(Append(work, form), "params")
<1>3. form \in Fns /\ form # "fn" /\ declared <= declared
  BY <1>2 DEF Fns
<1>4. work' = wk2
  <2>1. form \in Forms /\ "params" \in Forms
    BY <1>3 DEF Forms
  <2> QED BY <2>1, <1>2, EntersTwo DEF begin_unnamed, Enter
<1>5. work # <<>> /\ work[Len(work)] = "var" => form = "lambda"
  <2> SUFFICES ASSUME work # <<>>, work[Len(work)] = "var", form # "lambda" PROVE FALSE
    OBVIOUS
  <2>1. In({"class"})
    BY DEF begin_unnamed
  <2>2. work[Len(work)] = "class"
    BY <2>1, InOne
  <2> QED BY <2>2
<1>6. /\ compilers' = Append(compilers, SubCompiler(form, n + 1))
      /\ classes' = classes /\ captures' = captures /\ declared' = declared
  BY DEF begin_unnamed, curr_into_sub_compiler, SubCompiler
<1>7. scopes' = Append(scopes, SubScopeOf(form, n + 1))
  <2>1. SubScope(scopes, form)
    BY DEF begin_unnamed
  <2> QED BY <2>1, SubScopeIs
<1> HIDE DEF n
<1>8. \E x2, at2 : Sound(Append(compilers, SubCompiler(form, n + 1)), classes, wk2,
                         Append(scopes, SubScopeOf(form, n + 1)), captures, declared, x2, at2)
  <2>1. n = Len(compilers) /\ (form = "fn" => compilers[n].scope_depth = 0)
    BY <1>2, <1>3 DEF n
  <2> QED BY <1>2, <1>3, <1>5, <2>1, SoundFnSame
<1> HIDE DEF wk2
<1> QED BY <1>4, <1>6, <1>7, <1>8, Onward

(* What a declaration of this name in the innermost scope leaves.          *)
LEMMA DeclaredSound ==
  ASSUME NEW x, NEW at, Held(x, at), NEW name \in Names, ~Undeclarable(Compiler, name),
         Plain(work) \/ Compiler.scope_depth = 0, Declares(name),
         NEW d, d = TypeDeclared(name), NEW dc2, dc2 = declared'
  PROVE  /\ Sound([compilers EXCEPT ![Curr] = d], classes, work, scopes', captures, dc2, x, at)
         /\ d \in Compilers /\ d.scope_depth = Compiler.scope_depth /\ dc2 = declared + 1 /\ dc2 \in Nat
<1>1. /\ Sound(compilers, classes, work, scopes, captures, declared, x, at)
      /\ Curr = Len(compilers) /\ Compiler = compilers[Curr] /\ declared \in Nat
  BY Standing
<1> DEFINE n == Curr
           c == Compiler
           id == Fresh
           sc2 == IF c.scope_depth = 0 THEN scopes ELSE BindIn(scopes, name, id)
<1>2. scopes' = sc2 /\ dc2 = declared + 1 /\ dc2 \in Nat
  BY <1>1, BindIs DEF Declares
<1> HIDE DEF n, c, id, sc2
<1>3. /\ n = Len(compilers) /\ c = compilers[n] /\ id = <<"declaration", declared + 1>>
      /\ d = define_variable(declare_variable(c, name, id)) /\ ~Undeclarable(c, name)
      /\ sc2 = IF c.scope_depth = 0 THEN scopes ELSE BindIn(scopes, name, id)
      /\ name \in Names
  BY <1>1 DEF n, c, id, sc2, Fresh, TypeDeclared
<1>4. Plain(work) \/ c.scope_depth = 0
  BY DEF c
<1>5. /\ Sound([compilers EXCEPT ![n] = d], classes, work, sc2, captures, declared + 1, x, at)
      /\ d \in Compilers /\ d.scope_depth = c.scope_depth
  <2>1. DeclareStep(compilers, classes, work, scopes, captures, declared, x, at, n, c, name, id, d, sc2, dc2)
    BY ONLY <1>1, <1>2, <1>3, <1>4 DEF DeclareStep
  <2>2. /\ Sound([compilers EXCEPT ![n] = d], classes, work, sc2, captures, dc2, x, at)
        /\ d \in Compilers /\ d.scope_depth = c.scope_depth /\ dc2 = declared + 1 /\ dc2 \in Nat
    BY ONLY <2>1, SoundDeclared, Zenon
  <2> QED BY <1>2, <2>2
<1> QED BY <1>2, <1>5 DEF n, c

\* A parameter keeps the state sound.
LEMMA ParameterSound ==
  ASSUME NEW name \in Names
  PROVE  ScopesIInv /\ parameter(name) => ScopesIInv'
<1> SUFFICES ASSUME ScopesIInv, parameter(name) PROVE ScopesIInv'
  OBVIOUS
<1> DEFINE fails == Compiler.arity = ArgumentsMax \/ Undeclarable(Compiler, name)
<1>1. PICK x, at : Held(x, at)
  BY DEF ScopesIInv, Held
<1>2. CASE fails
  BY <1>2, ErrorSound DEF parameter
<1>3. CASE ~fails
  <2> DEFINE d == TypeDeclared(name)
             e == [d EXCEPT !.arity = @ + 1]
             n == Curr
             cs == [compilers EXCEPT ![n] = d]
             dc2 == declared'
  <2>1. compilers \in Seq(Compilers) /\ n = Len(compilers) /\ n \in Nat /\ n >= 1
    BY <1>1, Standing
  <2>2. /\ compilers' = [compilers EXCEPT ![n] = e] /\ Declares(name)
        /\ classes' = classes /\ work' = work /\ captures' = captures
    BY <1>3 DEF parameter, Become, TypeDeclared
  <2>3. Plain(work)
    BY <1>1, InPlain DEF parameter
  <2> HIDE DEF d
  <2>4. /\ Sound([compilers EXCEPT ![Curr] = d], classes, work, scopes', captures, dc2, x, at)
        /\ d \in Compilers /\ d.scope_depth = Compiler.scope_depth /\ dc2 = declared + 1 /\ dc2 \in Nat
    <3>1. /\ Held(x, at) /\ name \in Names /\ ~Undeclarable(Compiler, name) /\ Declares(name)
          /\ d = TypeDeclared(name) /\ dc2 = declared'
      BY <1>1, <1>3, <2>2 DEF d
    <3>2. Plain(work) \/ Compiler.scope_depth = 0
      BY <2>3
    <3> HIDE DEF dc2
    <3> QED BY ONLY <3>1, <3>2, DeclaredSound
  <2>5. /\ e \in Compilers /\ e.locals = d.locals /\ e.scope_depth = d.scope_depth /\ e.upvalues = d.upvalues
        /\ e.stack = d.stack
    <3>1. d \in Compilers
      BY <2>4
    <3>2. e = [fn_type |-> d.fn_type, locals |-> d.locals, scope_depth |-> d.scope_depth, upvalues |-> d.upvalues,
               arity |-> d.arity + 1, stack |-> d.stack]
      BY ONLY <3>1, SMTT(60) DEF Compilers, e
    <3> DEFINE a == d.arity + 1
    <3>3. a \in Nat
      BY ONLY <3>1 DEF Compilers
    <3>4. /\ d.fn_type \in {"script"} \cup Fns /\ d.locals \in Seq(Locals) /\ d.scope_depth \in Nat
          /\ d.upvalues \in Seq(UpvalueInfos) /\ d.stack \in Seq(Ids \cup {Temporary})
      BY ONLY <3>1 DEF Compilers
    <3> HIDE DEF e, a
    <3>5. e = [fn_type |-> d.fn_type, locals |-> d.locals, scope_depth |-> d.scope_depth, upvalues |-> d.upvalues,
               arity |-> a, stack |-> d.stack]
      BY ONLY <3>2 DEF a
    <3> QED BY ONLY <3>3, <3>4, <3>5 DEF Compilers
  <2> HIDE DEF e
  <2>6. cs[n] = d /\ Len(cs) = n /\ [cs EXCEPT ![n] = e] = [compilers EXCEPT ![n] = e]
    <3>1. n \in 1..Len(compilers)
      BY <2>1
    <3>2. d \in Compilers /\ e \in Compilers
      BY <2>4, <2>5
    <3>3. cs[n] = d /\ Len(cs) = n
      BY <2>1, <3>1, <3>2, ExceptFacts
    <3>4. [cs EXCEPT ![n] = e] = [compilers EXCEPT ![n] = e]
      BY <2>1, <3>1, <3>2, ExceptTwice
    <3> QED BY <3>3, <3>4
  <2> HIDE DEF cs, dc2
  <2>7. Sound([cs EXCEPT ![n] = e], classes, work, scopes', captures, dc2, x, at)
    <3>1. n = Len(cs) /\ d = cs[n] /\ dc2 <= dc2
      BY <2>4, <2>6
    <3>2. Sound(cs, classes, work, scopes', captures, dc2, x, at)
      BY <2>4 DEF cs, n
    <3> HIDE DEF n
    <3>3. dc2 \in Nat
      BY <2>4
    <3> QED BY ONLY <2>5, <3>1, <3>2, <3>3, SoundGlobal
  <2> HIDE DEF n
  <2>8. \E x2, at2 : Sound(compilers', classes', work', scopes', captures', declared', x2, at2)
    BY <2>2, <2>6, <2>7 DEF dc2
  <2> QED BY <2>8, Onward
<1> QED BY <1>2, <1>3

(* A class or an enum on top of the name's slot.                           *)
LEMMA TypedSound ==
  ASSUME NEW x, NEW at, Held(x, at), NEW name \in Names, ~Undeclarable(Compiler, name),
         Plain(work) \/ Compiler.scope_depth = 0, Declares(name), NEW form, NEW cl2,
         \/ form = "enum" /\ Plain(work) /\ cl2 = classes
         \/ form = "class" /\ cl2 = Append(classes, FALSE) /\ (Plain(work) \/ work[Len(work)] = "class"),
         compilers' = [compilers EXCEPT ![Curr] = WithTemporary(TypeDeclared(name))],
         work' = Append(work, form), classes' = cl2, captures' = captures
  PROVE  ScopesIInv'
<1> DEFINE d == TypeDeclared(name)
           e == WithTemporary(d)
           n == Curr
           cs == [compilers EXCEPT ![n] = d]
           dc2 == declared'
<1>1. compilers \in Seq(Compilers) /\ n = Len(compilers) /\ n \in Nat /\ n >= 1
  BY Standing
<1> HIDE DEF d
<1>2. /\ Sound([compilers EXCEPT ![Curr] = d], classes, work, scopes', captures, dc2, x, at)
      /\ d \in Compilers /\ d.scope_depth = Compiler.scope_depth /\ dc2 = declared + 1 /\ dc2 \in Nat
  <2>1. /\ Held(x, at) /\ name \in Names /\ ~Undeclarable(Compiler, name) /\ Declares(name)
        /\ d = TypeDeclared(name) /\ dc2 = declared'
    BY DEF d
  <2>2. Plain(work) \/ Compiler.scope_depth = 0
    OBVIOUS
  <2> HIDE DEF dc2
  <2> QED BY ONLY <2>1, <2>2, DeclaredSound
<1>3. Sound(cs, classes, work, scopes', captures, dc2, x, at)
  BY <1>2 DEF cs, n
<1>4. cs[n] = d /\ Len(cs) = n
  <2>1. d \in Compilers
    BY <1>2
  <2> QED BY <1>1, <2>1, ExceptFacts
<1>5. [cs EXCEPT ![n] = e] = [compilers EXCEPT ![n] = e]
  BY <1>1, ExceptTwice
<1> HIDE DEF cs, dc2, n
<1>6. \E x2, at2 : Sound([cs EXCEPT ![n] = WithTemporary(d)], cl2, Append(work, form), scopes', captures, dc2, x2, at2)
  <2>1. n = Len(cs) /\ d = cs[n]
    BY <1>4
  <2>2. \/ form = "enum" /\ Plain(work) /\ cl2 = classes
        \/ form = "class" /\ cl2 = Append(classes, FALSE) /\ (Plain(work) \/ work[Len(work)] = "class")
    OBVIOUS
  <2> QED BY ONLY <1>3, <2>1, <2>2, SoundTyped
<1>7. compilers' = [cs EXCEPT ![n] = WithTemporary(d)]
  BY <1>5 DEF d, e, n
<1>8. \E x2, at2 : Sound(compilers', classes', work', scopes', captures', declared', x2, at2)
  BY <1>6, <1>7 DEF dc2
<1> QED BY <1>8, Onward

\* class_declaration without a superclass keeps the state sound.
LEMMA ClassSound ==
  ASSUME NEW name \in Names
  PROVE  ScopesIInv /\ class_declaration(name) => ScopesIInv'
<1> SUFFICES ASSUME ScopesIInv, class_declaration(name) PROVE ScopesIInv'
  OBVIOUS
<1>1. PICK x, at : Held(x, at)
  BY DEF ScopesIInv, Held
<1>2. work \in Seq(Forms)
  BY <1>1, Standing
<1>3. CASE Undeclarable(Compiler, name)
  BY <1>3, ErrorSound DEF class_declaration
<1>4. CASE ~Undeclarable(Compiler, name)
  <2>1. /\ Declares(name) /\ compilers' = [compilers EXCEPT ![Curr] = WithTemporary(TypeDeclared(name))]
        /\ captures' = captures
    BY <1>4 DEF class_declaration, Become
  <2>2. classes' = Append(classes, FALSE)
    BY <1>4, Zenon DEF class_declaration
  <2>3. work' = Append(work, "class")
    <3>1. "class" \in Forms
      BY DEF Forms
    <3>2. work' = work \o <<"class">>
      BY <1>4 DEF class_declaration, Enter
    <3> QED BY <1>2, <3>1, <3>2, EntersOne
  <2>4. Plain(work) \/ (work[Len(work)] = "class" /\ Compiler.scope_depth = 0)
    <3>1. MayDeclareType
      BY DEF class_declaration
    <3>2. CASE In(Declarations)
      BY <1>1, <3>2, InPlain
    <3>3. CASE In({"class"}) /\ Compiler.scope_depth = 0
      BY <3>3, InOne
    <3> QED BY <3>1, <3>2, <3>3 DEF MayDeclareType
  <2>5. Plain(work) \/ Compiler.scope_depth = 0
    BY <2>4
  <2>6. Plain(work) \/ work[Len(work)] = "class"
    BY <2>4
  <2> QED BY <1>1, <1>4, <2>1, <2>2, <2>3, <2>5, <2>6, TypedSound, Zenon
<1> QED BY <1>3, <1>4

\* enum_declaration keeps the state sound.
LEMMA EnumSound ==
  ASSUME NEW name \in Names
  PROVE  ScopesIInv /\ enum_declaration(name) => ScopesIInv'
<1> SUFFICES ASSUME ScopesIInv, enum_declaration(name) PROVE ScopesIInv'
  OBVIOUS
<1>1. PICK x, at : Held(x, at)
  BY DEF ScopesIInv, Held
<1>2. work \in Seq(Forms)
  BY <1>1, Standing
<1>3. CASE Undeclarable(Compiler, name)
  BY <1>3, ErrorSound DEF enum_declaration
<1>4. CASE ~Undeclarable(Compiler, name)
  <2>1. /\ Declares(name) /\ compilers' = [compilers EXCEPT ![Curr] = WithTemporary(TypeDeclared(name))]
        /\ captures' = captures /\ classes' = classes
    BY <1>4 DEF enum_declaration, Become
  <2>2. work' = Append(work, "enum")
    <3>1. "enum" \in Forms
      BY DEF Forms
    <3>2. work' = work \o <<"enum">>
      BY <1>4 DEF enum_declaration, Enter
    <3> QED BY <1>2, <3>1, <3>2, EntersOne
  <2>3. Plain(work)
    BY <1>1, InPlain DEF enum_declaration
  <2> QED BY <1>1, <1>4, <2>1, <2>2, <2>3, TypedSound, Zenon
<1> QED BY <1>3, <1>4

\* struct_declaration keeps the state sound.
LEMMA StructSound ==
  ASSUME NEW name \in Names
  PROVE  ScopesIInv /\ struct_declaration(name) => ScopesIInv'
<1> SUFFICES ASSUME ScopesIInv, struct_declaration(name) PROVE ScopesIInv'
  OBVIOUS
<1>1. PICK x, at : Held(x, at)
  BY DEF ScopesIInv, Held
<1>2. CASE Undeclarable(Compiler, name)
  BY <1>2, ErrorSound DEF struct_declaration
<1>3. CASE ~Undeclarable(Compiler, name)
  <2> DEFINE d == TypeDeclared(name)
             dc2 == declared'
  <2>1. /\ Declares(name) /\ compilers' = [compilers EXCEPT ![Curr] = d]
        /\ captures' = captures /\ classes' = classes /\ work' = work
    BY <1>3 DEF struct_declaration, Become
  <2>2. Plain(work) \/ Compiler.scope_depth = 0
    <3>1. MayDeclareType
      BY DEF struct_declaration
    <3>2. CASE In(Declarations)
      BY <1>1, <3>2, InPlain
    <3> QED BY <3>1, <3>2 DEF MayDeclareType
  <2> HIDE DEF d
  <2>3. /\ Sound([compilers EXCEPT ![Curr] = d], classes, work, scopes', captures, dc2, x, at)
        /\ d \in Compilers /\ d.scope_depth = Compiler.scope_depth /\ dc2 = declared + 1 /\ dc2 \in Nat
    <3>1. /\ Held(x, at) /\ name \in Names /\ ~Undeclarable(Compiler, name) /\ Declares(name)
          /\ d = TypeDeclared(name) /\ dc2 = declared'
      BY <1>1, <1>3, <2>1 DEF d
    <3> HIDE DEF dc2
    <3> QED BY ONLY <2>2, <3>1, DeclaredSound
  <2> QED BY <2>1, <2>3, Onward
<1> QED BY <1>2, <1>3

(* Naming a declaration in the innermost scope moves no other name.        *)
LEMMA DeclaringMoves ==
  ASSUME NEW x, NEW at, Held(x, at), NEW name \in Names, NEW named,
         named = IF Compiler.scope_depth = 0 THEN scopes ELSE Bind(name, Fresh),
         NEW other, other # name
  PROVE  /\ HomeOf(named, other) = HomeOf(scopes, other)
         /\ CapturedIn(named, Curr, {other}) = CapturedIn(scopes, Curr, {other})
<1>1. scopes \in Seq(LexicalScopes) /\ (Compiler.scope_depth # 0 => Len(scopes) >= 1) /\ declared \in Nat
  BY Standing
<1>2. CASE Compiler.scope_depth = 0
  BY <1>2
<1>3. CASE Compiler.scope_depth # 0
  <2>1. named = BindIn(scopes, name, Fresh)
    BY <1>3, BindIs
  <2>2. Fresh \in Ids
    <3>1. declared + 1 \in Nat
      BY <1>1
    <3> QED BY <3>1 DEF Ids, Fresh
  <2>3. Renamed(scopes, named, name, Fresh)
    BY <1>1, <1>3, <2>1, <2>2, BindFacts
  <2> QED BY <1>1, <1>3, <2>3, HomeRenamed
<1> QED BY <1>2, <1>3

\* class_declaration with a superclass keeps the state sound.
LEMMA SubclassSound ==
  ASSUME NEW name \in Names, NEW super \in Names
  PROVE  ScopesIInv /\ subclass_declaration(name, super) => ScopesIInv'
<1> SUFFICES ASSUME ScopesIInv, subclass_declaration(name, super) PROVE ScopesIInv'
  OBVIOUS
<1> DEFINE d == TypeDeclared(name)
           typed == [compilers EXCEPT ![Curr] = d]
           super_id == <<"declaration", declared + 2>>
           named == IF Compiler.scope_depth = 0 THEN scopes ELSE Bind(name, Fresh)
           chain == Searched(typed, super)
           scoped == define_variable(add_local(Deeper(chain[Curr]), "super", super_id))
           fails == \/ Undeclarable(Compiler, name) \/ name = super \/ Unreadable(typed, super)
                    \/ Len(typed[Curr].locals) = LocalsMax
           n == Curr
           dc1 == declared + 1
           dc2 == declared + 2
           cp2 == captures \cup CapturedIn(scopes, n, {super})
<1>1. PICK x, at : Held(x, at)
  BY DEF ScopesIInv, Held
<1>2. /\ compilers \in Seq(Compilers) /\ Curr = Len(compilers) /\ Curr \in Nat /\ Curr >= 1
      /\ Compiler = compilers[Curr] /\ Compiler \in Compilers /\ declared \in Nat /\ work \in Seq(Forms)
      /\ Sound(compilers, classes, work, scopes, captures, declared, x, at)
  BY <1>1, Standing
<1>3. CASE fails
  <2>1. parse_error
    BY <1>3, Zenon DEF subclass_declaration
  <2> QED BY <2>1, ErrorSound
<1>4. CASE ~fails
  <2>1. /\ Enter(<<"class">>)
        /\ declared + 1 < DeclarationsMax /\ declared' = declared + 2
        /\ compilers' = [chain EXCEPT ![Curr] = WithTemporary(scoped)]
        /\ classes' = Append(classes, TRUE)
        /\ captures' = captures \cup Captured({super})
        /\ scopes' = Append(named, Scope(Curr, [m \in {"super"} |-> super_id]))
    BY <1>4, Zenon DEF subclass_declaration
  <2>2. ~Undeclarable(Compiler, name) /\ name # super /\ ~Unreadable(typed, super)
    BY <1>4, Zenon
  <2>3. Plain(work) /\ HomeOf(scopes, "super") = 0
    BY <1>1, InPlain, HomeIs DEF subclass_declaration
  <2>4. name # "super" /\ super # "super"
    BY NamesAreIdentifiers
  <2>5. /\ HomeOf(named, "super") = HomeOf(scopes, "super")
        /\ CapturedIn(named, Curr, {super}) = CapturedIn(scopes, Curr, {super})
    <3>1. Held(x, at) /\ name \in Names /\ named = IF Compiler.scope_depth = 0 THEN scopes ELSE Bind(name, Fresh)
      BY <1>1
    <3> HIDE DEF named
    <3> QED BY <2>2, <2>4, <3>1, DeclaringMoves
  <2>6. work' = Append(work, "class")
    <3>1. "class" \in Forms
      BY DEF Forms
    <3>2. work' = work \o <<"class">>
      BY <2>1 DEF Enter
    <3> QED BY <1>2, <3>1, <3>2, EntersOne
  <2>7. captures' = cp2
    BY <2>1, CapturedIs
  <2>8. /\ Sound(typed, classes, work, named, captures, dc1, x, at)
        /\ d \in Compilers /\ d.scope_depth = Compiler.scope_depth /\ dc1 = declared + 1 /\ dc1 \in Nat
    <3> DEFINE c == Compiler
               id == Fresh
    <3> HIDE DEF d, named, c, id, n, dc1
    <3>1. /\ n = Len(compilers) /\ c = compilers[n] /\ id = <<"declaration", declared + 1>>
          /\ d = define_variable(declare_variable(c, name, id)) /\ ~Undeclarable(c, name)
          /\ named = (IF c.scope_depth = 0 THEN scopes ELSE BindIn(scopes, name, id))
          /\ dc1 = declared + 1
      BY <1>2, <2>2, BindIs DEF n, c, id, d, named, dc1, Fresh, TypeDeclared
    <3>2. Plain(work) \/ c.scope_depth = 0
      BY <2>3
    <3>3. DeclareStep(compilers, classes, work, scopes, captures, declared, x, at, n, c, name, id, d, named, dc1)
      BY ONLY <1>2, <3>1, <3>2 DEF DeclareStep
    <3>4. /\ Sound([compilers EXCEPT ![n] = d], classes, work, named, captures, dc1, x, at)
          /\ d \in Compilers /\ d.scope_depth = c.scope_depth /\ dc1 = declared + 1 /\ dc1 \in Nat
      BY ONLY <3>3, SoundDeclared, Zenon
    <3> QED BY <3>4 DEF n, c
  <2>9. Len(typed) = n
    <3>1. d \in Compilers
      BY <2>8
    <3> HIDE DEF d
    <3> QED BY <1>2, <3>1, ExceptFacts
  <2> HIDE DEF typed, named, d, dc1
  <2>10. Sound(chain, classes, work, named, cp2, dc1, x, at) /\ Len(chain) = n
    <3>1. /\ Sound(chain, classes, work, named, captures \cup CapturedIn(named, Len(typed), {super}), dc1, x, at)
          /\ Len(chain) = Len(typed)
      <4>1. super \in Names \cup {"self", "super"} /\ super # "super"
        BY <2>4
      <4>3. ~Unreadable(typed, super)
        BY <2>2
      <4>2. Sound(typed, classes, work, named, captures, dc1, x, at)
        BY <2>8
      <4> QED BY <4>1, <4>2, <4>3, SoundSearch
    <3> QED BY <2>5, <2>9, <3>1
  <2> HIDE DEF chain, cp2
  <2> DEFINE e == WithTemporary(scoped)
             c2 == chain[n]
  <2>11. \E x2, at2 : Sound([chain EXCEPT ![n] = e], Append(classes, TRUE), Append(work, "class"),
                            Append(named, SuperScope(n, super_id)), cp2, dc2, x2, at2)
    <3>1. dc2 = dc1 + 1
      BY <1>2 DEF dc1
    <3>2. super_id = <<"declaration", dc1 + 1>>
      BY <3>1
    <3>3. e = WithTemporary(define_variable(add_local(Deeper(c2), "super", super_id)))
      OBVIOUS
    <3>4. n = Len(chain) /\ c2 = chain[n] /\ HomeOf(named, "super") = 0
      BY <2>3, <2>5, <2>10
    <3>5. Sound(chain, classes, work, named, cp2, dc1, x, at) /\ Plain(work)
      BY <2>10, <2>3
    <3> HIDE DEF e, c2, n, dc2, super_id
    <3> QED BY ONLY <3>1, <3>2, <3>3, <3>4, <3>5, SoundSuper
  <2>12. /\ compilers' = [chain EXCEPT ![n] = e] /\ declared' = dc2
         /\ scopes' = Append(named, SuperScope(n, super_id))
    BY <2>1 DEF SuperScope
  <2>13. classes' = Append(classes, TRUE)
    BY <2>1, Zenon
  <2> HIDE DEF e, n, super_id, dc2
  <2>14. \E x2, at2 : Sound(compilers', classes', work', scopes', captures', declared', x2, at2)
    BY <2>6, <2>7, <2>11, <2>12, <2>13, Zenon
  <2> QED BY <2>14, Onward
<1> QED BY <1>3, <1>4, Zenon

-----------------------------------------------------------------------------
(* The theorems.                                                           *)

\* Every step of the parser keeps the state sound.
LEMMA NextSound ==
  ScopesIInv /\ [ScopesNext]_scopesVars => ScopesIInv'
<1> SUFFICES ASSUME ScopesIInv, [ScopesNext]_scopesVars PROVE ScopesIInv'
  OBVIOUS
<1>1. CASE begin_block
  BY <1>1, BlockSound
<1>2. CASE end_block
  BY <1>2, EndBlockSound
<1>3. CASE parse_self
  BY <1>3, SelfSound
<1>4. CASE parse_super
  BY <1>4, SuperSound
<1>5. CASE end_var
  BY <1>5, EndVarSound
<1>6. CASE begin_body
  BY <1>6, BodySound
<1>7. CASE curr_from_sub_compiler
  BY <1>7, ReturnSound
<1>8. CASE end_class
  BY <1>8, EndClassSound
<1>9. CASE end_enum
  BY <1>9, EndEnumSound
<1>10. CASE parse_tokens
  BY <1>10 DEF parse_tokens, ScopesIInv
<1>11. ASSUME NEW fn_type \in {"method", "lambda"}, begin_unnamed(fn_type) PROVE ScopesIInv'
  BY <1>11, UnnamedSound
<1>12. ASSUME NEW name \in Names, parse_identifier(name) PROVE ScopesIInv'
  BY <1>12, IdentifierSound
<1>13. ASSUME NEW name \in Names, begin_var(name) PROVE ScopesIInv'
  BY <1>13, VarSound
<1>14. ASSUME NEW name \in Names, begin_fn(name) PROVE ScopesIInv'
  BY <1>14, FnSound
<1>15. ASSUME NEW name \in Names, parameter(name) PROVE ScopesIInv'
  BY <1>15, ParameterSound
<1>16. ASSUME NEW name \in Names, class_declaration(name) PROVE ScopesIInv'
  BY <1>16, ClassSound
<1>17. ASSUME NEW name \in Names, struct_declaration(name) PROVE ScopesIInv'
  BY <1>17, StructSound
<1>18. ASSUME NEW name \in Names, enum_declaration(name) PROVE ScopesIInv'
  BY <1>18, EnumSound
<1>19. ASSUME NEW name \in Names, NEW super \in Names, subclass_declaration(name, super) PROVE ScopesIInv'
  BY <1>19, SubclassSound
<1>20. CASE UNCHANGED scopesVars
  BY <1>20 DEF scopesVars, ScopesIInv
<1> QED BY <1>1, <1>2, <1>3, <1>4, <1>5, <1>6, <1>7, <1>8, <1>9, <1>10, <1>11, <1>12, <1>13, <1>14, <1>15,
           <1>16, <1>17, <1>18, <1>19, <1>20 DEF ScopesNext

\* So every reachable state is sound.
LEMMA AlwaysSound ==
  ScopesSpec => []ScopesIInv
<1>1. ScopesInit => ScopesIInv
  BY InitSound
<1>2. ScopesIInv /\ [ScopesNext]_scopesVars => ScopesIInv'
  BY NextSound
<1> QED BY <1>1, <1>2, PTL DEF ScopesSpec

(* What the temporaries of the innermost function are: its open types.     *)
LEMMA OpenTypesAre ==
  ASSUME work \in Seq(Forms)
  PROVE  TypesBefore(work, Len(work) + 1) = OpenTypes
<1> DEFINE n == Len(work)
           I == {i \in 1..n : work[i] \in {"fn", "method", "lambda"}}
           b == IF I # {} THEN Max(I) ELSE 0
           B == {i \in 1..n + 1 - 1 : work[i] \in {"class", "enum"} /\ \A j \in i..n + 1 - 1 : work[j] \notin Fns}
           O == {i \in b + 1..n : work[i] \in {"class", "enum"}}
<1>1. OpenTypes = Cardinality(O)
  BY DEF OpenTypes, SelectLastInSeq
<1>2. TypesBefore(work, n + 1) = Cardinality(B)
  BY DEF TypesBefore
<1>3. n \in Nat /\ I \in SUBSET (1..n)
  OBVIOUS
<1>4. b \in 0..n /\ (b # 0 => b \in I) /\ \A i \in I : i <= b
  <2>1. CASE I = {}
    BY <2>1, <1>3
  <2>2. CASE I # {}
    <3>1. Max(I) \in I /\ \A i \in I : i <= Max(I)
      <4> HIDE DEF I, n
      <4> QED BY <1>3, <2>2, MaxFacts
    <3> QED BY <2>2, <3>1, <1>3
  <2> QED BY <2>1, <2>2
<1>5. \A i \in 1..n : i \in I <=> work[i] \in Fns
  BY DEF Fns
<1>6. ASSUME NEW i \in B PROVE i \in O
  <2>1. i \in 1..n /\ work[i] \in {"class", "enum"} /\ \A j \in i..n : work[j] \notin Fns
    BY <1>3
  <2>2. ~(i <= b)
    <3> SUFFICES ASSUME i <= b PROVE FALSE
      OBVIOUS
    <3>1. b \in I /\ b \in i..n /\ b \in 1..n
      BY <2>1, <1>3, <1>4
    <3> QED BY <3>1, <2>1, <1>5
  <2> HIDE DEF b
  <2> QED BY <2>1, <2>2, <1>3, <1>4
<1>7. ASSUME NEW i \in O PROVE i \in B
  <2> HIDE DEF b
  <2>1. i \in 1..n /\ i > b /\ work[i] \in {"class", "enum"}
    BY <1>3, <1>4
  <2>2. ASSUME NEW j \in i..n PROVE work[j] \notin Fns
    <3>1. j \in 1..n /\ ~(j <= b)
      BY <2>1, <1>3, <1>4
    <3> QED BY <3>1, <1>4, <1>5
  <2> QED BY <2>1, <2>2, <1>3
<1>8. B = O
  <2> HIDE DEF B, O
  <2> QED BY <1>6, <1>7
<1> QED BY <1>1, <1>2, <1>8

(* A stack that holds the locals in their slots, the type in hand on top.  *)
LEMMA StackedSlots ==
  ASSUME NEW c \in Compilers, NEW k, NEW fr \in Frames, NEW dc \in Nat, Slots(c, k, fr, dc), Stacked(c, fr)
  PROVE  /\ \A i \in DOMAIN c.locals :
              IF i <= Len(c.stack) THEN c.stack[i] = c.locals[i].id
              ELSE /\ i = Len(c.locals) /\ fr.wait # "no"
                   /\ fr.wait = "var" => c.locals[i].depth = -1
         /\ Len(c.stack) <= Len(c.locals) + fr.temps
<1> DEFINE m == Len(c.locals)
           F == Filled(c, fr)
           t == fr.temps
<1>1. m \in Nat /\ DOMAIN c.locals = 1..m /\ m >= 1 /\ t \in Nat /\ fr.wait \in {"no", "var", "fn"}
  BY CompilerFacts DEF Slots, Frames
<1>2. F = IF fr.wait = "no" THEN m ELSE m - 1
  BY DEF Filled
<1>3. F \in Nat /\ F <= m /\ (fr.wait # "no" => t = 0)
  BY <1>1, <1>2 DEF Stacked
<1>4. c.stack = [i \in 1..F + t |-> IF i <= F THEN c.locals[i].id ELSE Temporary]
  BY DEF Stacked
<1>5. fr.wait = "var" => c.locals[m].depth = -1
  <2> SUFFICES ASSUME fr.wait = "var" PROVE c.locals[m].depth = -1
    OBVIOUS
  <2>1. m >= 2
    BY SlotFacts
  <2>2. m \in DOMAIN c.locals /\ m # 1
    <3> HIDE DEF m
    <3> QED BY <2>1, <1>1
  <2>3. LocalFits(c, m, fr, dc)
    BY <2>2, SlotFacts
  <2> QED BY <2>3 DEF LocalFits
<1> HIDE DEF F, t
<1>6. Len(c.stack) = F + t
  BY <1>1, <1>3, <1>4
<1>7. ASSUME NEW i \in DOMAIN c.locals
      PROVE  IF i <= Len(c.stack) THEN c.stack[i] = c.locals[i].id
             ELSE i = m /\ fr.wait # "no" /\ (fr.wait = "var" => c.locals[i].depth = -1)
  <2>1. i \in 1..m
    BY <1>1
  <2> HIDE DEF m
  <2>2. CASE i <= F
    BY <2>1, <2>2, <1>1, <1>3, <1>4, <1>6
  <2>3. CASE ~(i <= F)
    <3>1. fr.wait # "no" /\ i = m /\ t = 0
      BY <2>1, <2>3, <1>1, <1>2, <1>3
    <3>2. ~(i <= Len(c.stack))
      BY <2>1, <2>3, <3>1, <1>3, <1>6
    <3> QED BY <3>1, <3>2, <1>5
  <2> QED BY <2>2, <2>3
<1>8. Len(c.stack) <= m + t
  <2> HIDE DEF m
  <2> QED BY <1>1, <1>3, <1>6
<1> QED BY <1>7, <1>8 DEF m, t

\* In a sound state every slot of the stack holds its local.
LEMMA SoundSlots ==
  ScopesIInv => SlotsHoldLocals
<1> SUFFICES ASSUME ScopesIInv PROVE SlotsHoldLocals
  OBVIOUS
<1>1. PICK x, at : Held(x, at)
  BY DEF ScopesIInv, Held
<1> DEFINE f == FramesOf(work, x, at)
           n == Curr
           p == Len(work) + 1
<1>2. /\ Sound(compilers, classes, work, scopes, captures, declared, x, at)
      /\ n = Len(compilers) /\ Compiler = compilers[n] /\ n \in Nat /\ n >= 1 /\ work \in Seq(Forms)
      /\ compilers \in Seq(Compilers) /\ Len(work) \in Nat /\ declared \in Nat
  BY <1>1, Standing
<1>3. /\ Core(compilers, scopes, captures, declared, f) /\ AllStacked(compilers, f)
      /\ Working(work, classes, x, at, n, scopes)
  BY <1>2 DEF Sound
<1>4. f[n].wait \in {"no", "var"} /\ f[n].temps = OpenTypes
  <2> DEFINE c == Compiler
             fr == f[n]
             s == x[p]
  <2>1. n = Len(compilers) /\ c = compilers[n] /\ fr = FramesOf(work, x, at)[n] /\ s = x[Len(work) + 1]
    BY <1>2
  <2>2. At(n, c, fr, s) /\ fr.wait = IF c.scope_depth > 0 /\ Len(work) >= 1 /\ work[Len(work)] = "var" THEN "var" ELSE "no"
    <3> HIDE DEF n, c, fr, s
    <3> QED BY <1>2, <2>1, CurrentSettings
  <2>3. s.temps = TypesBefore(work, p)
    <3>1. Len(x) = Len(work) + 1 /\ x \in Seq(Settings)
      BY <1>3 DEF Working, Trail
    <3>2. p \in DOMAIN x
      BY <3>1, <1>2
    <3> QED BY <3>2, <1>3 DEF Working, Counted
  <2>4. fr.temps = s.temps
    BY <2>2 DEF At
  <2> QED BY <2>2, <2>3, <2>4, <1>2, OpenTypesAre
<1> HIDE DEF f
<1>5. ASSUME NEW k \in DOMAIN compilers
      PROVE  /\ \A i \in DOMAIN compilers[k].locals :
                  IF i <= Len(compilers[k].stack) THEN compilers[k].stack[i] = compilers[k].locals[i].id
                  ELSE /\ i = Len(compilers[k].locals) /\ f[k].wait # "no"
                       /\ f[k].wait = "var" => compilers[k].locals[i].depth = -1
             /\ Len(compilers[k].stack) <= Len(compilers[k].locals) + f[k].temps
  <2> DEFINE c == compilers[k]
             fr == f[k]
  <2>1. c \in Compilers /\ fr \in Frames
    BY <1>3, TypedFacts DEF Core
  <2>2. Slots(c, k, fr, declared)
    BY <1>3 DEF Core, AllFramed, Framed
  <2>3. Stacked(c, fr)
    BY <1>3 DEF AllStacked, Ready
  <2> HIDE DEF c, fr
  <2>4. /\ \A i \in DOMAIN c.locals :
             IF i <= Len(c.stack) THEN c.stack[i] = c.locals[i].id
             ELSE /\ i = Len(c.locals) /\ fr.wait # "no"
                  /\ fr.wait = "var" => c.locals[i].depth = -1
        /\ Len(c.stack) <= Len(c.locals) + fr.temps
    BY <1>2, <2>1, <2>2, <2>3, StackedSlots
  <2> QED BY <2>4 DEF c, fr
<1>6. DOMAIN compilers = 1..n
  BY <1>2
<1> HIDE DEF n
<1>7. n = Curr
  BY DEF n
<1>8. ASSUME NEW k \in DOMAIN compilers
      PROVE  /\ \A i \in DOMAIN compilers[k].locals :
                  IF i <= Len(compilers[k].stack) THEN compilers[k].stack[i] = compilers[k].locals[i].id
                  ELSE i = Len(compilers[k].locals) /\ (k < n \/ compilers[k].locals[i].depth = -1)
             /\ k = n => Len(compilers[k].stack) <= Len(compilers[k].locals) + OpenTypes
  <2>1. k \in 1..n /\ (k < n \/ k = n)
    BY <1>2, <1>6
  <2>2. CASE k < n
    BY <2>2, <1>5, <1>2
  <2>3. CASE k = n
    BY <2>3, <1>4, <1>5
  <2> QED BY <2>1, <2>2, <2>3
<1> QED BY <1>7, <1>8 DEF SlotsHoldLocals

\* In a sound state a local is marked as captured if and only if a function reads it.
LEMMA SoundShared ==
  ScopesIInv => SharedAreClosed
<1> SUFFICES ASSUME ScopesIInv PROVE SharedAreClosed
  OBVIOUS
<1>1. PICK x, at : Held(x, at)
  BY DEF ScopesIInv, Held
<1> DEFINE f == FramesOf(work, x, at)
<1>2. Core(compilers, scopes, captures, declared, f)
  BY <1>1 DEF Held, Sound
<1> HIDE DEF f
<1> QED BY <1>2 DEF Core, MarkedAsRead, UpvaluesFit, SharedAreClosed

\* For every program: at each point of the parse the stack that the compiled code will have
\* is the one the compiler counts on. The cell at a local's slot was pushed as that local's
\* value; a local without one is the last of its function, waiting for its initializer or
\* for the function it names; above the locals of the current function there are only the
\* classes and enums under construction. add_local, end_scope, define_variable and
\* curr_from_sub_compiler never lose count.
THEOREM LocalsStayInTheirSlots == ScopesSpec => []SlotsHoldLocals
BY AlwaysSound, SoundSlots, PTL

\* For every program: a local is marked is_captured, and so closed when end_scope drops it,
\* if and only if a function inside its own reads it, however many functions lie between;
\* and no function keeps two upvalues of one variable.
THEOREM CapturedAreClosed == ScopesSpec => []SharedAreClosed
BY AlwaysSound, SoundShared, PTL

-----------------------------------------------------------------------------
(* What a name means.                                                      *)

\* No function has more locals or upvalues than an index tells apart.
IndexesFit ==
  \A k \in DOMAIN compilers :
    Len(compilers[k].locals) <= IndexRange /\ Len(compilers[k].upvalues) < IndexRange

\* The functions between the one that has the local l and the reader pass it on.
Passes(chain, o, l, ix) ==
  /\ o \in Nat \ {0} /\ Len(chain) \in Nat /\ o < Len(chain) /\ ix[o] = l
  /\ \A j \in o + 1..Len(chain) :
       chain[j].upvalues[ix[j]] = [index |-> ix[j - 1], is_local |-> j = o + 1]

\* One step of the way back.
SourceStep(chain, at, k, index) ==
  IF k = Len(chain) THEN [upvalue |-> TRUE, index |-> index]
  ELSE IF ~at[k + 1].upvalue THEN at[k + 1]
  ELSE LET info == chain[k + 1].upvalues[at[k + 1].index]
       IN  [upvalue |-> ~info.is_local, index |-> info.index, owner |-> k]

IsSource(at, chain, index) ==
  at = [k \in 1..Len(chain) |-> SourceStep(chain, at, k, index)]

\* Where it leads at each function.
Way(chain, o, l, ix) ==
  [k \in 1..Len(chain) |->
     IF k = Len(chain) THEN [upvalue |-> TRUE, index |-> ix[k]]
     ELSE IF k > o THEN [upvalue |-> TRUE, index |-> ix[k], owner |-> k]
     ELSE [upvalue |-> FALSE, index |-> l, owner |-> o]]

\* The way back is a sequence of indexes.
LEMMA WayIsSource ==
  ASSUME NEW chain, NEW o, NEW l, NEW ix, Passes(chain, o, l, ix)
  PROVE  IsSource(Way(chain, o, l, ix), chain, ix[Len(chain)])
<1> DEFINE n == Len(chain)
           g == Way(chain, o, l, ix)
<1>1. n \in Nat /\ o \in Nat /\ 1 <= o /\ o < n /\ ix[o] = l
  BY DEF Passes
<1>2. /\ g[n] = [upvalue |-> TRUE, index |-> ix[n]]
      /\ \A k \in 1..n : k # n /\ k > o => g[k] = [upvalue |-> TRUE, index |-> ix[k], owner |-> k]
      /\ \A k \in 1..n : k <= o => g[k] = [upvalue |-> FALSE, index |-> l, owner |-> o]
  BY <1>1 DEF Way
<1>3. ASSUME NEW k \in 1..n, k > o
      PROVE  g[k].upvalue = TRUE /\ g[k].index = ix[k]
  <2>1. CASE k = n
    <3>1. g[k] = [upvalue |-> TRUE, index |-> ix[k]]
      BY <2>1, <1>2
    <3> HIDE DEF g
    <3> QED BY <3>1
  <2>2. CASE k # n
    <3>1. g[k] = [upvalue |-> TRUE, index |-> ix[k], owner |-> k]
      BY <2>2, <1>2, <1>3
    <3> HIDE DEF g
    <3> QED BY <3>1
  <2> QED BY <2>1, <2>2
<1>4. g = [k \in 1..n |-> g[k]]
  BY DEF Way
<1> HIDE DEF g
<1>5. ASSUME NEW k \in 1..n
      PROVE  g[k] = SourceStep(chain, g, k, ix[n])
  <2>1. CASE k = n
    BY <2>1, <1>2 DEF SourceStep
  <2>2. CASE k # n /\ k >= o
    <3>1. k + 1 \in 1..n /\ k + 1 > o /\ k + 1 \in o + 1..n /\ k + 1 - 1 = k
      BY <2>2, <1>1
    <3>2. g[k + 1].upvalue = TRUE /\ g[k + 1].index = ix[k + 1]
      BY <3>1, <1>3
    <3>3. chain[k + 1].upvalues[ix[k + 1]] = [index |-> ix[k], is_local |-> k + 1 = o + 1]
      <4>1. chain[k + 1].upvalues[ix[k + 1]] = [index |-> ix[k + 1 - 1], is_local |-> k + 1 = o + 1]
        BY <3>1 DEF Passes
      <4> QED BY <4>1, <3>1
    <3> DEFINE info == chain[k + 1].upvalues[g[k + 1].index]
    <3>4. SourceStep(chain, g, k, ix[n]) = [upvalue |-> ~info.is_local, index |-> info.index, owner |-> k]
      BY <3>2, <2>2, Zenon DEF SourceStep
    <3>5. info = [index |-> ix[k], is_local |-> k + 1 = o + 1]
      BY <3>2, <3>3
    <3> HIDE DEF info
    <3>6. CASE k = o
      <4>1. info = [index |-> ix[k], is_local |-> TRUE]
        <5>1. (k + 1 = o + 1) = TRUE
          BY <3>6
        <5> QED BY <5>1, <3>5, Zenon
      <4>2. (~info.is_local) = FALSE /\ info.index = l
        BY <4>1, <3>6, <1>1
      <4>3. g[k] = [upvalue |-> FALSE, index |-> l, owner |-> o]
        <5>1. k <= o
          BY <3>6, <1>1
        <5> QED BY <5>1, <1>2, Zenon
      <4>4. SourceStep(chain, g, k, ix[n]) = [upvalue |-> FALSE, index |-> l, owner |-> o]
        <5>1. SourceStep(chain, g, k, ix[n]) = [upvalue |-> ~info.is_local, index |-> info.index, owner |-> o]
          BY <3>4, <3>6, Zenon
        <5> QED BY <5>1, <4>2, Zenon
      <4> QED BY <4>3, <4>4, Zenon
    <3>7. CASE k # o
      <4>1. k > o
        BY <3>7, <2>2, <1>1
      <4>2. info = [index |-> ix[k], is_local |-> FALSE]
        <5>1. (k + 1 = o + 1) = FALSE
          BY <4>1, <1>1
        <5> QED BY <5>1, <3>5, Zenon
      <4>3. (~info.is_local) = TRUE /\ info.index = ix[k]
        BY <4>2
      <4>4. g[k] = [upvalue |-> TRUE, index |-> ix[k], owner |-> k]
        BY <4>1, <2>2, <1>2
      <4> QED BY <4>3, <4>4, <3>4, Zenon
    <3> QED BY <3>6, <3>7
  <2>3. CASE k < o
    <3>1. k + 1 \in 1..n /\ k + 1 <= o /\ k <= o /\ k # n
      BY <2>3, <1>1
    <3>2. g[k + 1] = [upvalue |-> FALSE, index |-> l, owner |-> o] /\ g[k] = g[k + 1]
      BY <3>1, <1>2
    <3>3. g[k + 1].upvalue = FALSE
      BY <3>2
    <3> QED BY <3>1, <3>2, <3>3 DEF SourceStep
  <2> QED BY <2>1, <2>2, <2>3, <1>1
<1>6. g = [k \in 1..n |-> SourceStep(chain, g, k, ix[n])]
  BY <1>4, <1>5
<1>7. IsSource(g, chain, ix[n])
  BY <1>6, Zenon DEF IsSource
<1> QED BY <1>7 DEF g

\* There is only one.
LEMMA OneSource ==
  ASSUME NEW chain, Len(chain) \in Nat, NEW index, NEW at, NEW g,
         IsSource(at, chain, index), IsSource(g, chain, index)
  PROVE  \A k \in 1..Len(chain) : at[k] = g[k]
<1> DEFINE n == Len(chain)
           S == {d \in 0..n - 1 : at[n - d] # g[n - d]}
<1>1. /\ \A k \in 1..n : at[k] = SourceStep(chain, at, k, index)
      /\ \A k \in 1..n : g[k] = SourceStep(chain, g, k, index)
  BY DEF IsSource
<1>2. S = {}
  <2> SUFFICES ASSUME S # {} PROVE FALSE
    OBVIOUS
  <2>1. PICK m \in S : \A p \in S : m <= p
    <3>1. S \in SUBSET Nat
      OBVIOUS
    <3> HIDE DEF S
    <3> QED BY <3>1, LeastMember
  <2>2. n - m \in 1..n /\ m \in Nat /\ at[n - m] # g[n - m]
    BY <2>1
  <2>3. CASE m = 0
    <3>1. SourceStep(chain, at, n, index) = SourceStep(chain, g, n, index)
      BY DEF SourceStep
    <3>2. n - m = n /\ n \in 1..n
      BY <2>2, <2>3
    <3> QED BY <3>1, <3>2, <2>2, <1>1
  <2>4. CASE m # 0
    <3>1. m - 1 \in 0..n - 1 /\ m - 1 \notin S /\ n - (m - 1) = n - m + 1
      BY <2>1, <2>4
    <3>2. at[n - m + 1] = g[n - m + 1]
      BY <3>1
    <3>3. SourceStep(chain, at, n - m, index) = SourceStep(chain, g, n - m, index)
      BY <3>2, Zenon DEF SourceStep
    <3> QED BY <3>3, <2>2, <1>1
  <2> QED BY <2>3, <2>4
<1>3. ASSUME NEW k \in 1..n PROVE at[k] = g[k]
  <2>1. n - k \in 0..n - 1 /\ n - (n - k) = k
    OBVIOUS
  <2> QED BY <2>1, <1>2
<1> QED BY <1>3

\* An upvalue leads back to the local it was made for.
LEMMA SourceFacts ==
  ASSUME NEW chain, NEW o, NEW l, NEW ix, Passes(chain, o, l, ix)
  PROVE  Source(chain, ix[Len(chain)]) = chain[o].locals[l].id
<1> DEFINE index == ix[Len(chain)]
           at[k \in 1..Len(chain)] ==
             IF k = Len(chain) THEN [upvalue |-> TRUE, index |-> index]
             ELSE IF ~at[k + 1].upvalue THEN at[k + 1]
             ELSE LET info == chain[k + 1].upvalues[at[k + 1].index]
                  IN  [upvalue |-> ~info.is_local, index |-> info.index, owner |-> k]
           g == Way(chain, o, l, ix)
<1>1. IsSource(g, chain, index)
  BY WayIsSource
<1>2. Source(chain, index) = chain[at[1].owner].locals[at[1].index].id
  BY Zenon DEF Source
<1>3. IsSource(at, chain, index)
  <2> HIDE DEF g, index
  <2> QED BY <1>1, Zenon DEF IsSource, SourceStep
<1> HIDE DEF at
<1>4. Len(chain) \in Nat /\ 1 \in 1..Len(chain) /\ 1 <= o /\ 1 # Len(chain) /\ o \in Nat
  BY DEF Passes
<1>5. at[1] = g[1]
  <2> HIDE DEF g, index
  <2> QED BY <1>1, <1>3, <1>4, OneSource
<1>6. g[1] = [upvalue |-> FALSE, index |-> l, owner |-> o]
  <2>1. ~(1 > o)
    BY <1>4
  <2> QED BY <1>4, <2>1 DEF Way
<1>7. at[1].owner = o /\ at[1].index = l
  BY <1>5, <1>6
<1> HIDE DEF g, index
<1>8. Source(chain, index) = chain[o].locals[l].id
  BY <1>2, <1>7
<1> QED BY <1>8 DEF index

\* The search leaves upvalues that lead back to the local it found.
LEMMA SearchPasses ==
  ASSUME NEW cs \in Seq(Compilers), UpvaluesFit(cs), NEW name, ~Unreadable(cs, name),
         NEW o, o = Owner(cs, name), o \notin {0, Len(cs)}, NEW l, l = resolve_local(cs[o], name),
         \A k \in DOMAIN cs : Len(cs[k].locals) <= IndexRange /\ Len(cs[k].upvalues) < IndexRange
  PROVE  LET found == resolve_upvalue(cs, name)
         IN  Source(found.chain, found.index) = cs[o].locals[l].id
<1> DEFINE n == Len(cs)
<1>1. n \in Nat /\ DOMAIN cs = 1..n /\ o \in 1..n /\ o < n /\ o # 0 /\ l # 0 /\ cs[o] \in Compilers /\ o \in Nat /\ 1 <= o
  <2>1. o \in 0..n /\ o # 0 /\ o # n
    BY OwnerFacts
  <2> QED BY <2>1, OwnerFacts
<1>2. l \in DOMAIN cs[o].locals /\ l \in Nat \ {0} /\ l <= IndexRange
  <2>1. cs[o].locals \in Seq(Locals) /\ DOMAIN cs[o].locals = 1..Len(cs[o].locals) /\ Len(cs[o].locals) \in Nat
    BY <1>1, CompilerFacts
  <2>2. l \in 0..Len(cs[o].locals)
    BY <2>1, ResolveFacts
  <2>3. IndexRange \in Nat /\ Len(cs[o].locals) <= IndexRange
    BY <1>1, LimitsArePositive
  <2> QED BY <2>1, <2>2, <2>3, <1>1
<1>3. Room(cs, o)
  <2> SUFFICES ASSUME NEW j \in o + 1..n PROVE Len(cs[j].upvalues) < UpvaluesMax
    BY DEF Room
  <2>1. j \in DOMAIN cs
    BY <1>1
  <2>2. Len(cs[j].upvalues) <= UpvaluesMax /\ Len(cs[j].upvalues) # UpvaluesMax
    BY <2>1, <1>1 DEF Unreadable, UpvaluesFit
  <2>3. Len(cs[j].upvalues) \in Nat /\ UpvaluesMax \in Nat
    BY <2>1, <1>1, CompilerFacts, LimitsArePositive
  <2> QED BY <2>2, <2>3
<1>4. PICK r : /\ resolve_upvalue(cs, name) = r[n]
               /\ \A k \in o..n : Reached(cs, o, l, r, k)
  BY <1>1, <1>3, ResolveUpvalueFacts
<1> DEFINE chain == r[n].chain
           ix == [k \in o..n |-> r[k].index]
<1>5. /\ chain \in Seq(Compilers) /\ Len(chain) = n /\ chain[o] = Marked(cs, o, l)[o] /\ r[o].index = l
      /\ \A j \in o + 1..n :
           /\ Len(chain[j].upvalues) <= Len(cs[j].upvalues) + 1
           /\ r[j].index \in 1..Len(chain[j].upvalues) /\ Len(chain[j].upvalues) \in Nat
           /\ chain[j].upvalues[r[j].index] = new_upvalue_info(r[j - 1].index, j = o + 1)
  <2>1. Reached(cs, o, l, r, n)
    BY <1>1, <1>4
  <2>2. \A j \in o + 1..n : chain[j] \in Compilers
    BY <2>1 DEF Reached
  <2>3. ASSUME NEW j \in o + 1..n PROVE Len(chain[j].upvalues) \in Nat
    <3> DEFINE d == chain[j]
    <3>1. d \in Compilers
      BY <2>2
    <3> HIDE DEF d
    <3>2. d.upvalues \in Seq(UpvalueInfos)
      BY <3>1, CompilerFacts
    <3>3. Len(d.upvalues) \in Nat
      BY <3>2
    <3> QED BY <3>3 DEF d
  <2> QED BY <2>1, <2>3 DEF Reached
<1> HIDE DEF chain
<1>6. ASSUME NEW j \in o..n
      PROVE  r[j].index \in Nat \ {0} /\ r[j].index <= IndexRange
  <2>1. CASE j = o
    BY <2>1, <1>2, <1>5
  <2>2. CASE j # o
    <3>1. j \in o + 1..n /\ j \in DOMAIN cs
      BY <2>2, <1>1
    <3>2. Len(cs[j].upvalues) < IndexRange /\ Len(cs[j].upvalues) \in Nat /\ IndexRange \in Nat
      BY <3>1, <1>1, CompilerFacts, LimitsArePositive
    <3>3. /\ Len(chain[j].upvalues) <= Len(cs[j].upvalues) + 1
          /\ r[j].index \in 1..Len(chain[j].upvalues) /\ Len(chain[j].upvalues) \in Nat
      BY <3>1, <1>5
    <3> QED BY <3>2, <3>3
  <2> QED BY <2>1, <2>2
<1>7. ASSUME NEW j \in o + 1..n
      PROVE  chain[j].upvalues[ix[j]] = [index |-> ix[j - 1], is_local |-> j = o + 1]
  <2>1. j \in o..n /\ j - 1 \in o..n
    BY <1>1
  <2>2. ix[j] = r[j].index /\ ix[j - 1] = r[j - 1].index
    BY <2>1
  <2> HIDE DEF ix
  <2>3. ix[j - 1] \in Nat \ {0} /\ ix[j - 1] <= IndexRange
    BY <2>1, <2>2, <1>6
  <2>4. chain[j].upvalues[ix[j]] = new_upvalue_info(ix[j - 1], j = o + 1)
    BY <2>2, <1>5
  <2>5. new_upvalue_info(ix[j - 1], j = o + 1).index = ix[j - 1]
    <3>1. (j = o + 1) \in BOOLEAN
      OBVIOUS
    <3> QED BY <3>1, <2>3, InfoFacts
  <2>6. new_upvalue_info(ix[j - 1], j = o + 1)
          = [index |-> 1 + ((ix[j - 1] - 1) % IndexRange), is_local |-> j = o + 1]
    BY Zenon DEF new_upvalue_info
  <2>7. 1 + ((ix[j - 1] - 1) % IndexRange) = ix[j - 1]
    BY <2>5, <2>6
  <2> QED BY <2>4, <2>6, <2>7, Zenon
<1>8. Passes(chain, o, l, ix)
  <2>1. ix[o] = l
    <3>1. o \in o..n
      BY <1>1
    <3> QED BY <3>1, <1>5
  <2> HIDE DEF ix
  <2> QED BY <2>1, <1>1, <1>5, <1>7 DEF Passes
<1>9. Source(chain, ix[n]) = chain[o].locals[l].id
  <2> HIDE DEF ix
  <2> QED BY <1>5, <1>8, SourceFacts
<1>10. ix[n] = r[n].index
  BY <1>1
<1>11. chain[o].locals[l].id = cs[o].locals[l].id
  <2>1. OneMarked(cs[o], Marked(cs, o, l)[o], l)
    BY <1>1, <1>2, MarkedFacts
  <2> QED BY <2>1, <1>2, <1>5 DEF OneMarked
<1> HIDE DEF ix, n
<1> QED BY <1>4, <1>9, <1>10, <1>11 DEF chain

\* In a sound state a name is what the text says it is, if the indexes fit.
LEMMA SoundResolution ==
  ScopesIInv /\ IndexesFit => NamesResolveLexically
<1> SUFFICES ASSUME ScopesIInv, IndexesFit, NEW name \in Readable PROVE Resolved(name) = Lexical(name)
  BY DEF NamesResolveLexically
<1> DEFINE f(x, at) == FramesOf(work, x, at)
           n == Len(compilers)
           o == Owner(compilers, name)
           l == resolve_local(compilers[o], name)
           h == HomeOf(scopes, name)
<1>1. PICK x, at : Held(x, at)
  BY DEF ScopesIInv, Held
<1>2. /\ Sound(compilers, classes, work, scopes, captures, declared, x, at)
      /\ Curr = n /\ Compiler = compilers[n] /\ compilers \in Seq(Compilers) /\ n \in Nat /\ n >= 1
  BY <1>1, Standing
<1>3. Core(compilers, scopes, captures, declared, f(x, at)) /\ Supers(compilers, classes, scopes)
  BY <1>2 DEF Sound
<1>4. Searchable(compilers, scopes, classes, name) /\ ~Unreadable(compilers, name)
  <2>1. name \in Names \cup {"self", "super"} /\ ~Unreadable(compilers, name)
    BY DEF Readable
  <2>2. name = "super" => classes # <<>> /\ Last(classes)
    BY NamesAreIdentifiers DEF Readable
  <2>3. name = "super" => HomeOf(scopes, name) # 0
    BY <2>2, <1>2, SuperIsHome
  <2> QED BY <2>1, <2>3, <1>3 DEF Searchable
<1>5. /\ h = 0 => o = 0
      /\ h # 0 => /\ o # 0 /\ o \in DOMAIN compilers
                  /\ compilers[o].locals[l].id = scopes[h].names[name]
  <2> DEFINE g == f(x, at)
  <2>1. Core(compilers, scopes, captures, declared, g)
    BY <1>3
  <2> HIDE DEF g
  <2> QED BY <2>1, <1>4, LexicalFacts
<1>6. Lexical(name) = IF h = 0 THEN Global ELSE scopes[h].names[name]
  BY HomeIs DEF Lexical
<1>7. UpvaluesFit(compilers)
  BY <1>3 DEF Core
<1> HIDE DEF o, l, h, n
<1>8. CASE o = 0
  <2>1. h = 0
    BY <1>5, <1>8
  <2>2. Resolved(name) = Global
    BY <1>2, <1>8 DEF Resolved, o
  <2> QED BY <2>1, <2>2, <1>6
<1>9. CASE o # 0 /\ o = n
  <2>1. Resolved(name) = compilers[o].locals[l].id
    <3>1. Resolved(name) = Compiler.locals[resolve_local(Compiler, name)].id
      BY <1>2, <1>9 DEF Resolved, o
    <3> QED BY <3>1, <1>2, <1>9 DEF l
  <2> QED BY <2>1, <1>5, <1>6, <1>9
<1>10. CASE o # 0 /\ o # n
  <2>1. \A k \in DOMAIN compilers : Len(compilers[k].locals) <= IndexRange /\ Len(compilers[k].upvalues) < IndexRange
    BY DEF IndexesFit
  <2>2. o = Owner(compilers, name) /\ l = resolve_local(compilers[o], name) /\ o \notin {0, Len(compilers)}
    BY <1>10 DEF o, l, n
  <2> DEFINE found == resolve_upvalue(compilers, name)
  <2>3. Source(found.chain, found.index) = compilers[o].locals[l].id
    <3> HIDE DEF found
    <3> QED BY <2>1, <2>2, <1>2, <1>4, <1>7, SearchPasses DEF found
  <2>4. Resolved(name) = Source(found.chain, found.index)
    BY <1>2, <1>10 DEF Resolved, o
  <2> HIDE DEF found
  <2> QED BY <2>3, <2>4, <1>5, <1>6, <1>10
<1> QED BY <1>8, <1>9, <1>10

\* For every program: wherever the text may read a name, through however many functions,
\* what resolve_local, resolve_upvalue and add_upvalue answer leads to the innermost
\* declaration of that name, as long as no function has more locals or upvalues than the
\* 7 bits of an index count.
THEOREM NamesMeanTheirDeclarations ==
  ScopesSpec => [](IndexesFit => NamesResolveLexically)
<1>1. ScopesIInv => (IndexesFit => NamesResolveLexically)
  BY SoundResolution
<1> QED BY <1>1, AlwaysSound, PTL

-----------------------------------------------------------------------------
(* The scanner. Positions: the places of the text, its end included.       *)

\* The places of the text, its end included.
Positions == 1..(Len(source) + 1)

-----------------------------------------------------------------------------
(* Where a loop of the scanner stops.                                      *)

\* The least member that Min chooses.
LEMMA LeastOf ==
  ASSUME NEW S \in SUBSET Nat, S # {}
  PROVE  Min(S) \in S /\ \A n \in S : Min(S) <= n
BY LeastMember DEF Min

\* A loop stops at the first of the places from where it starts, or at the end.
LEMMA UntilFacts ==
  ASSUME source \in Seq(STRING), NEW i \in Positions, NEW places, places \subseteq DOMAIN source
  PROVE  /\ Until(i, places) \in i..(Len(source) + 1)
         /\ Until(i, places) \in places \cup {Len(source) + 1}
         /\ \A k \in i..(Until(i, places) - 1) : k \notin places
<1> DEFINE S == {j \in places : j >= i} \cup {Len(source) + 1}
           m == Until(i, places)
<1>1. Len(source) \in Nat /\ DOMAIN source = 1..Len(source)
  OBVIOUS
<1>2. S \in SUBSET Nat /\ S # {} /\ \A j \in S : j >= i /\ j <= Len(source) + 1
  BY <1>1 DEF Positions
<1>3. m \in S /\ \A n \in S : m <= n
  <2>1. m = Min(S)
    BY DEF Until
  <2> HIDE DEF S, m
  <2> QED BY <2>1, <1>2, LeastOf
<1>4. \A k \in i..(m - 1) : k \notin places
  <2> SUFFICES ASSUME NEW k \in i..(m - 1), k \in places PROVE FALSE
    OBVIOUS
  <2>1. k \in S /\ m \in Int /\ i \in Int
    BY <1>1, <1>2, <1>3 DEF Positions
  <2> HIDE DEF S, m
  <2> QED BY <2>1, <1>3
<1>5. m \in i..(Len(source) + 1) /\ m \in places \cup {Len(source) + 1}
  <2>1. m \in Int /\ i \in Int
    BY <1>1, <1>2, <1>3 DEF Positions
  <2>2. m >= i /\ m <= Len(source) + 1
    BY <1>2, <1>3
  <2> HIDE DEF m
  <2> QED BY <2>1, <2>2, <1>1, <1>3
<1> QED BY <1>4, <1>5

\* What is not the end is in the text.
LEMMA InText ==
  ASSUME source \in Seq(STRING), NEW i \in Nat \ {0}, Char(i) # NUL
  PROVE  i \in 1..Len(source) /\ i + 1 \in Positions
BY DEF Char, Positions

-----------------------------------------------------------------------------
(* The count of lines.                                                     *)

\* Newlines add up, and there are no more of them than characters.
LEMMA NewlinesFacts ==
  ASSUME NEW i \in Nat, NEW j \in Nat, NEW k \in Nat, i <= j, j <= k
  PROVE  /\ Newlines(i, j) \in 0..(j - i)
         /\ Newlines(i, k) = Newlines(i, j) + Newlines(j, k)
<1> DEFINE N(a, b) == {c \in a..(b - 1) : Char(c) = "\n"}
<1>1. ASSUME NEW a \in Nat, NEW b \in Nat, a <= b
      PROVE  IsFiniteSet(N(a, b)) /\ Cardinality(N(a, b)) \in 0..(b - a)
  <2>1. IsFiniteSet(a..(b - 1)) /\ Cardinality(a..(b - 1)) = b - a
    <3>1. a \in Int /\ b - 1 \in Int /\ (a > b - 1 => b - a = 0) /\ b - 1 - a + 1 = b - a
      BY <1>1
    <3> QED BY <3>1, FS_Interval
  <2>2. N(a, b) \in SUBSET (a..(b - 1))
    OBVIOUS
  <2> HIDE DEF N
  <2>3. IsFiniteSet(N(a, b)) /\ Cardinality(N(a, b)) <= b - a
    BY <2>1, <2>2, FS_Subset
  <2>4. Cardinality(N(a, b)) \in Nat
    BY <2>3, FS_CardinalityType
  <2> QED BY <2>3, <2>4, <1>1
<1>2. N(i, k) = N(i, j) \cup N(j, k) /\ N(i, j) \cap N(j, k) = {}
  OBVIOUS
<1>3. /\ Newlines(i, j) = Cardinality(N(i, j)) /\ Newlines(j, k) = Cardinality(N(j, k))
      /\ Newlines(i, k) = Cardinality(N(i, k))
  BY DEF Newlines
<1>4. /\ IsFiniteSet(N(i, j)) /\ Cardinality(N(i, j)) \in 0..(j - i)
      /\ IsFiniteSet(N(j, k)) /\ Cardinality(N(j, k)) \in 0..(k - j)
  BY <1>1
<1> HIDE DEF N
<1>5. Cardinality(N(i, j) \cup N(j, k)) = Cardinality(N(i, j)) + Cardinality(N(j, k)) - 0
  BY <1>2, <1>4, FS_Union, FS_EmptySet
<1> QED BY <1>2, <1>3, <1>4, <1>5

\* The text before current counted, reading on counts the rest.
LEMMA ReadFacts ==
  ASSUME source \in Seq(STRING), current \in Positions, line = 1 + Newlines(1, current),
         NEW next \in current..(Len(source) + 1), ReadTo(next)
  PROVE  /\ current' = next /\ next \in Positions
         /\ line' = 1 + Newlines(1, next) /\ line' \in Positions
<1>1. Len(source) \in Nat /\ current \in Nat /\ next \in Nat /\ 1 <= current /\ current <= next
  BY DEF Positions
<1>2. /\ Newlines(1, next) = Newlines(1, current) + Newlines(current, next)
      /\ Newlines(1, current) \in Nat /\ Newlines(current, next) \in Nat
  BY <1>1, NewlinesFacts
<1>3. Newlines(1, next) \in 0..(next - 1)
  BY <1>1, NewlinesFacts
<1>4. current' = next /\ line' = line + Newlines(current, next)
  BY DEF ReadTo
<1> QED BY <1>1, <1>2, <1>3, <1>4 DEF Positions

-----------------------------------------------------------------------------
(* What a step reads.                                                      *)

\* The scanner stands in the text, on the line it counted.
Placed ==
  /\ source \in Sources /\ current \in Positions
  /\ line = 1 + Newlines(1, current)

TokenRecords ==
  [kind : Kinds, from : 0..(Len(source) + 1), length : 0..Len(source), line : Positions]

\* A blank or a comment is read.
ReadsBlank ==
  /\ UNCHANGED <<source, tokens, spans, phase>>
  /\ \E next \in (current + 1)..(Len(source) + 1) : ReadTo(next) /\ IsBlank(current, next)

\* A token joins the list; only the end of the source is no longer than nothing.
ReadsToken ==
  /\ UNCHANGED source /\ phase' = "loop"
  /\ \E next \in current..(Len(source) + 1), token \in TokenRecords :
       /\ ReadTo(next)
       /\ next = current => is_at_end
       /\ token.line = 1 + Newlines(1, next)
       /\ tokens' = Append(tokens, token) /\ spans' = Append(spans, <<current, next>>)

\* The process ends in the middle of the text.
ScanEnds ==
  /\ UNCHANGED <<source, current, line, tokens, spans>>
  /\ phase' \in {"exited", "panicked"}

\* The characters of a piece of the text.
LEMMA TextFacts ==
  ASSUME source \in Seq(STRING), NEW i \in Positions, NEW j \in i..(Len(source) + 1)
  PROVE  /\ Text(i, j) \in Seq(STRING) /\ Len(Text(i, j)) = j - i
         /\ \A k \in 1..(j - i) : Text(i, j)[k] = source[i + k - 1]
BY DEF Text, Positions

\* A text that begins with these two characters has them as a prefix.
LEMMA PrefixFacts ==
  ASSUME NEW t \in Seq(STRING), NEW c, NEW d, Len(t) >= 2, t[1] = c, t[2] = d
  PROVE  IsPrefix(<<c, d>>, t)
<1> DEFINE u == <<c, d>>
<1>1. u \in Seq(STRING) /\ Len(u) = 2 /\ u[1] = t[1] /\ u[2] = t[2]
  <2>1. t[1] \in STRING /\ t[2] \in STRING
    BY ElementOfSeq
  <2> QED BY <2>1
<1> HIDE DEF u
<1>2. ASSUME NEW s \in Seq(STRING), Len(s) >= 2
      PROVE  /\ SubSeq(s, 1, 2) \in Seq(STRING) /\ Len(SubSeq(s, 1, 2)) = 2
             /\ SubSeq(s, 1, 2)[1] = s[1] /\ SubSeq(s, 1, 2)[2] = s[2]
  BY <1>2
<1>3. SubSeq(u, 1, 2) = SubSeq(t, 1, 2)
  <2>1. /\ SubSeq(u, 1, 2) \in Seq(STRING) /\ SubSeq(t, 1, 2) \in Seq(STRING)
        /\ Len(SubSeq(u, 1, 2)) = 2 /\ Len(SubSeq(t, 1, 2)) = 2
        /\ \A k \in 1..2 : SubSeq(u, 1, 2)[k] = SubSeq(t, 1, 2)[k]
    BY <1>1, <1>2
  <2> QED BY <2>1, SeqEqual
<1> QED BY <1>1, <1>3 DEF IsPrefix, u

\* The three branches of skip_with_espace read what the language calls a blank.
LEMMA BlankStep ==
  ASSUME Placed, skip_with_espace
  PROVE  ReadsBlank \/ ScanEnds
<1>1. source \in Seq(STRING) /\ Len(source) \in Nat /\ current \in Nat \ {0} /\ current \in Positions
  BY SourcesAreText DEF Placed, Positions
<1>2. UNCHANGED <<source, tokens, spans>>
  BY DEF skip_with_espace
<1>3. CASE skip_space
  <2>1. Char(current) \in Spaces /\ ReadTo(current + 1) /\ phase' = phase
    BY <1>3 DEF skip_space
  <2>2. current \in 1..Len(source) /\ source[current] \in Spaces
    BY <1>1, <2>1, InText DEF Char, Spaces, NUL
  <2>3. current + 1 \in (current + 1)..(Len(source) + 1) /\ current + 1 \in current..(Len(source) + 1)
    BY <1>1, <2>2
  <2>4. IsBlank(current, current + 1)
    <3>1. Len(Text(current, current + 1)) = 1 /\ Text(current, current + 1)[1] = source[current]
      <4> DEFINE next == current + 1
      <4>1. next \in current..(Len(source) + 1) /\ next - current = 1 /\ current + 1 - 1 = current
        BY <1>1, <2>3
      <4> HIDE DEF next
      <4>2. Len(Text(current, next)) = 1 /\ Text(current, next)[1] = source[current + 1 - 1]
        <5>1. /\ Len(Text(current, next)) = next - current
              /\ \A k \in 1..(next - current) : Text(current, next)[k] = source[current + k - 1]
          BY <4>1, <1>1, TextFacts
        <5>2. 1 \in 1..(next - current)
          BY <4>1
        <5> QED BY <5>1, <5>2, <4>1
      <4> QED BY <4>1, <4>2 DEF next
    <3> QED BY <3>1, <2>2 DEF IsBlank
  <2> QED BY <1>2, <2>1, <2>3, <2>4 DEF ReadsBlank
<1>4. ASSUME NEW d, d # NUL, Slashed(d)
      PROVE  /\ current + 1 \in 1..Len(source) /\ current + 2 \in Positions
             /\ source[current] = "/" /\ source[current + 1] = d
  <2>1. Char(current) = "/" /\ Char(current + 1) = d
    BY <1>4 DEF Slashed
  <2>2. current \in 1..Len(source) /\ current + 1 \in 1..Len(source)
    BY <1>1, <1>4, <2>1, InText DEF NUL
  <2> QED BY <1>1, <2>1, <2>2 DEF Char, Positions
<1>5. CASE skip_line
  <2> DEFINE next == Until(current, Places({"\n"}))
  <2>1. Slashed("/") /\ ReadTo(next) /\ phase' = phase
    BY <1>5 DEF skip_line
  <2>2. /\ current + 1 \in 1..Len(source)
        /\ source[current] = "/" /\ source[current + 1] = "/"
    <3>1. "/" # NUL
      BY DEF NUL
    <3> QED BY <3>1, <1>4, <2>1
  <2>3. Places({"\n"}) \subseteq DOMAIN source
    BY DEF Places
  <2>4. /\ next \in current..(Len(source) + 1)
        /\ next \in Places({"\n"}) \cup {Len(source) + 1}
        /\ \A k \in current..(next - 1) : k \notin Places({"\n"})
    BY <1>1, <2>3, UntilFacts
  <2> HIDE DEF next
  <2>5. Char(next) \in {"\n", NUL}
    BY <1>1, <2>4 DEF Places, Char
  <2>6. next >= current + 2
    BY <1>1, <2>2, <2>4 DEF Places
  <2> DEFINE t == Text(current, next)
  <2>7. /\ t \in Seq(STRING) /\ Len(t) = next - current
        /\ \A k \in 1..(next - current) : t[k] = source[current + k - 1]
    BY <1>1, <2>4, TextFacts
  <2> HIDE DEF t
  <2>8. t[1] = "/" /\ t[2] = "/" /\ Len(t) >= 2
    <3>1. t[1] = source[current + 1 - 1] /\ t[2] = source[current + 2 - 1] /\ Len(t) >= 2
      BY <1>1, <2>4, <2>6, <2>7
    <3> QED BY <3>1, <2>2, <1>1
  <2>9. "\n" \notin Range(t)
    <3> SUFFICES ASSUME NEW k \in DOMAIN t, t[k] = "\n" PROVE FALSE
      BY DEF Range
    <3>1. k \in 1..(next - current) /\ current + k - 1 \in current..(next - 1)
      BY <1>1, <2>4, <2>7
    <3>2. source[current + k - 1] = "\n" /\ current + k - 1 \in DOMAIN source
      BY <1>1, <2>4, <2>7, <3>1
    <3> QED BY <3>1, <3>2, <2>4 DEF Places
  <2>10. IsBlank(current, next)
    BY <2>5, <2>7, <2>8, <2>9, PrefixFacts DEF IsBlank, t
  <2>11. next \in (current + 1)..(Len(source) + 1)
    BY <1>1, <2>4, <2>6
  <2> QED BY <1>2, <2>1, <2>10, <2>11 DEF ReadsBlank
<1>6. CASE skip_comment
  <2> DEFINE e == CommentEnd
             next == e + 2
             t == Text(current, next)
  <2>1. /\ current + 1 \in 1..Len(source) /\ current + 2 \in Positions
        /\ source[current] = "/" /\ source[current + 1] = "*"
    <3>1. "*" # NUL /\ Slashed("*")
      BY <1>6 DEF skip_comment, NUL
    <3> QED BY <3>1, <1>4
  <2>2. Closings \subseteq DOMAIN source
    BY DEF Closings, Places
  <2>3. /\ e \in (current + 2)..(Len(source) + 1)
        /\ e \in Closings \cup {Len(source) + 1}
        /\ \A k \in (current + 2)..(e - 1) : k \notin Closings
    BY <1>1, <2>1, <2>2, UntilFacts DEF CommentEnd
  <2> HIDE DEF e
  <2>4. CASE Char(e) = NUL
    <3>1. phase' = "panicked" /\ UNCHANGED <<current, line>>
      BY <1>6, <2>4 DEF skip_comment, e
    <3> QED BY <3>1, <1>2 DEF ScanEnds
  <2>5. CASE Char(e) # NUL
    <3>1. ReadTo(next) /\ phase' = phase
      BY <1>6, <2>5 DEF skip_comment, e
    <3>2. e \in Closings /\ e \in 1..Len(source)
      BY <1>1, <2>3, <2>5 DEF Char
    <3>3. source[e] = "*" /\ Char(e + 1) = "/"
      BY <3>2 DEF Closings, Places
    <3>4. e + 1 \in 1..Len(source) /\ source[e + 1] = "/"
      BY <1>1, <3>2, <3>3, InText DEF Char, NUL
    <3>5. next \in (current + 1)..(Len(source) + 1) /\ next >= current + 4
      BY <1>1, <2>3, <3>4
    <3>6. /\ t \in Seq(STRING) /\ Len(t) = next - current
          /\ \A k \in 1..(next - current) : t[k] = source[current + k - 1]
      <4>1. next \in current..(Len(source) + 1)
        BY <1>1, <3>5
      <4> HIDE DEF next
      <4> QED BY <4>1, <1>1, TextFacts
    <3> HIDE DEF next, t
    <3>7. t[1] = "/" /\ t[2] = "*" /\ Len(t) >= 2
      <4>1. t[1] = source[current + 1 - 1] /\ t[2] = source[current + 2 - 1] /\ Len(t) >= 2
        BY <1>1, <3>5, <3>6
      <4> QED BY <4>1, <2>1, <1>1
    <3>8. \A k \in 3..(Len(t) - 1) :
            t[k] = "*" /\ t[k + 1] = "/" <=> k = Len(t) - 1
      <4> SUFFICES ASSUME NEW k \in 3..(Len(t) - 1)
                   PROVE  t[k] = "*" /\ t[k + 1] = "/" <=> k = Len(t) - 1
        OBVIOUS
      <4> DEFINE p == current + k - 1
      <4>1. /\ p \in (current + 2)..e /\ p \in 1..Len(source) /\ p + 1 \in 1..Len(source)
            /\ (p = e <=> k = Len(t) - 1)
        BY <1>1, <2>3, <3>4, <3>5, <3>6 DEF next
      <4>2. t[k] = source[p] /\ t[k + 1] = source[p + 1]
        <5>1. k \in 1..(next - current) /\ k + 1 \in 1..(next - current)
          BY <3>5, <3>6, <1>1
        <5>2. current + (k + 1) - 1 = p + 1
          BY <1>1, <5>1
        <5> QED BY <5>1, <5>2, <3>6
      <4>3. source[p] = "*" /\ source[p + 1] = "/" <=> p \in Closings
        BY <4>1, <1>1 DEF Closings, Places, Char
      <4> HIDE DEF p
      <4>4. p \in Closings <=> p = e
        BY <4>1, <2>3, <3>2, <1>1
      <4> QED BY <4>1, <4>2, <4>3, <4>4
    <3>9. {k \in 3..(Len(t) - 1) : t[k] = "*" /\ t[k + 1] = "/"} = {Len(t) - 1}
      <4>1. Len(t) - 1 \in 3..(Len(t) - 1)
        BY <3>5, <3>6, <1>1
      <4> QED BY <4>1, <3>8
    <3>10. IsBlank(current, next)
      BY <3>6, <3>7, <3>9, PrefixFacts DEF IsBlank, t
    <3> QED BY <1>2, <3>1, <3>5, <3>10 DEF ReadsBlank
  <2> QED BY <2>4, <2>5
<1> QED BY <1>3, <1>5, <1>6 DEF skip_with_espace

\* A token whose text ends in the source joins the list with the line of its end.
LEMMA AddStep ==
  ASSUME Placed, UNCHANGED source, NEW kind \in Kinds, NEW next \in current..(Len(source) + 1),
         next = current => is_at_end, list_add_token(kind, next)
  PROVE  ReadsToken
<1> DEFINE token == IF kind = "error" THEN Token(kind, 0, 0, line')
                    ELSE Token(kind, current, next - current, line')
<1>1. source \in Seq(STRING) /\ Len(source) \in Nat /\ current \in Positions
  BY SourcesAreText DEF Placed
<1>2. ReadTo(next) /\ phase' = "loop" /\ tokens' = Append(tokens, token)
      /\ spans' = Append(spans, <<current, next>>)
  BY DEF list_add_token
<1>3. line' = 1 + Newlines(1, next) /\ line' \in Positions
  BY <1>1, <1>2, ReadFacts DEF Placed
<1>4. next - current \in 0..Len(source) /\ current \in 0..(Len(source) + 1)
  BY <1>1 DEF Positions
<1>5. token \in TokenRecords /\ token.line = line'
  BY <1>1, <1>3, <1>4 DEF Token, TokenRecords
<1> HIDE DEF token
<1> QED BY <1>2, <1>3, <1>5 DEF ReadsToken

\* Every branch of scan_token reads a token, whose text is in the source and not
\* empty but at the end, or exits.
LEMMA TokenStep ==
  ASSUME Placed, scan_token
  PROVE  ReadsToken \/ ScanEnds
<1>1. /\ source \in Seq(STRING) /\ Len(source) \in Nat
      /\ current \in Nat \ {0} /\ current \in Positions /\ current <= Len(source) + 1
  BY SourcesAreText DEF Placed, Positions
<1>2. UNCHANGED source
  BY DEF scan_token
<1>3. ASSUME NEW kind \in Kinds, NEW next \in current..(Len(source) + 1),
             next = current => is_at_end, list_add_token(kind, next)
      PROVE  ReadsToken
  BY <1>2, <1>3, AddStep
<1>4. ASSUME Char(current) # NUL PROVE current \in 1..Len(source) /\ current + 1 \in Positions
  BY <1>1, <1>4, InText
<1>5. CASE scan_end
  <2>1. is_at_end /\ list_add_token("eof", current) /\ "eof" \in Kinds
    BY <1>5 DEF scan_end, Kinds
  <2>2. current \in current..(Len(source) + 1)
    BY <1>1
  <2> QED BY <2>1, <2>2, <1>3
<1>6. ASSUME NEW chars, Char(current) \in chars, NUL \notin chars
      PROVE  /\ current \in 1..Len(source)
             /\ \A next \in current..(Len(source) + 1) :
                  next # current => next \in (current + 1)..(Len(source) + 1)
             /\ \A places : current \notin places /\ places \subseteq DOMAIN source
                  => Until(current, places) # current
  <2>1. current \in 1..Len(source)
    BY <1>4, <1>6
  <2>2. ASSUME NEW places, current \notin places, places \subseteq DOMAIN source
        PROVE  Until(current, places) # current
    BY <2>1, <2>2, <1>1, UntilFacts
  <2> QED BY <2>1, <2>2, <1>1
<1>7. CASE scan_identifier
  <2> DEFINE places == DOMAIN source \ Places(Letters \cup Digits)
             next == Until(current, places)
             word == SubSeq(source, current, next - 1)
             kind == IF word = <<"_">> THEN "underscore" ELSE identifier_type(word)
  <2>1. is_alpha(Char(current)) /\ list_add_token(kind, next)
    BY <1>7 DEF scan_identifier
  <2>2. Char(current) \in Letters /\ NUL \notin Letters
    BY <2>1, CharactersAreApart DEF is_alpha, NUL
  <2>3. current \in 1..Len(source) /\ current \notin places
    BY <2>2, <1>6 DEF Places, Char
  <2>4. next \in current..(Len(source) + 1) /\ next # current
    <3>1. places \subseteq DOMAIN source
      OBVIOUS
    <3> HIDE DEF places
    <3> QED BY <3>1, <2>2, <2>3, <1>1, <1>6, UntilFacts
  <2>5. kind \in Kinds
    BY DEF identifier_type, Kinds
  <2> HIDE DEF next, kind
  <2> QED BY <2>1, <2>4, <2>5, <1>3
<1>8. CASE scan_number
  <2> DEFINE places == DOMAIN source \ Places(Digits)
             point == NumberEnd(current)
  <2>0. places \subseteq DOMAIN source
    OBVIOUS
  <2>1. Char(current) \in Digits /\ NUL \notin Digits
    BY <1>8, CharactersAreApart DEF scan_number, is_digit, NUL
  <2>2. current \in 1..Len(source) /\ current \notin places
    BY <2>1, <1>6 DEF Places, Char
  <2>3. point \in current..(Len(source) + 1) /\ point # current
    <3>1. point = Until(current, places)
      BY DEF NumberEnd
    <3> HIDE DEF places
    <3> QED BY <3>1, <2>0, <2>1, <2>2, <1>1, <1>6, UntilFacts
  <2>4. CASE list_add_token(check_number(point), point)
    <3>1. check_number(point) \in Kinds
      BY DEF check_number, Kinds
    <3> HIDE DEF point
    <3> QED BY <3>1, <2>3, <2>4, <1>3
  <2>5. CASE Char(point) = "." /\ list_add_token("f64", NumberEnd(point + 1))
    <3> HIDE DEF point
    <3>1. point \in 1..Len(source) /\ point + 1 \in Positions
      BY <2>3, <2>5, <1>1, InText DEF NUL
    <3>2. NumberEnd(point + 1) \in (point + 1)..(Len(source) + 1)
      <4>1. NumberEnd(point + 1) = Until(point + 1, places)
        BY DEF NumberEnd
      <4> HIDE DEF places
      <4> QED BY <4>1, <3>1, <2>0, <1>1, UntilFacts
    <3>3. NumberEnd(point + 1) \in current..(Len(source) + 1) /\ NumberEnd(point + 1) # current
      BY <3>1, <3>2, <2>3, <1>1
    <3>4. "f64" \in Kinds
      BY DEF Kinds
    <3> QED BY <3>3, <3>4, <2>5, <1>3
  <2>6. CASE phase' = "exited" /\ UNCHANGED <<current, line, tokens, spans>>
    BY <2>6, <1>2 DEF ScanEnds
  <2> QED BY <2>4, <2>5, <2>6, <1>8 DEF scan_number
<1>9. CASE scan_symbol
  <2>1. Char(current) \in Singles /\ list_add_token("symbol", SymbolEnd) /\ "symbol" \in Kinds
    BY <1>9 DEF scan_symbol, Kinds
  <2>2. NUL \notin Singles
    BY DEF Singles, Assigned, NUL
  <2>3. current \in 1..Len(source)
    BY <2>1, <2>2, <1>6
  <2>4. ASSUME Char(current + 1) # NUL PROVE current + 1 \in 1..Len(source)
    BY <2>3, <2>4, InText, <1>1
  <2>5. ASSUME Char(current + 2) # NUL PROVE current + 2 \in 1..Len(source)
    BY <2>3, <2>5, InText, <1>1
  <2>6. SymbolEnd \in current..(Len(source) + 1) /\ SymbolEnd # current
    <3>1. CASE Char(current + 1) = "=" /\ Char(current) \in Assigned
      <4>1. SymbolEnd = current + 2 /\ current + 1 \in 1..Len(source)
        BY <3>1, <2>4 DEF SymbolEnd, NUL
      <4> QED BY <4>1, <2>3
    <3>2. CASE Char(current + 1) = Char(current) /\ Char(current) \in {"<", ">"}
      <4>1. current + 1 \in 1..Len(source)
        BY <3>2, <2>4 DEF NUL
      <4>2. CASE Char(current + 2) = "="
        <5>1. /\ <<Char(current), Char(current + 1)>> \notin Pairs
              /\ Char(current + 1) # "="
          BY <3>2 DEF Pairs
        <5>2. SymbolEnd = current + 3
          BY <5>1, <3>2, <4>2 DEF SymbolEnd
        <5>3. current + 2 \in 1..Len(source)
          BY <4>2, <2>5 DEF NUL
        <5> QED BY <5>2, <5>3, <2>3
      <4>3. CASE Char(current + 2) # "="
        <5>1. SymbolEnd = current + 2
          BY <3>2, <4>3 DEF SymbolEnd
        <5> QED BY <5>1, <4>1, <2>3
      <4> QED BY <4>2, <4>3
    <3>3. CASE /\ <<Char(current), Char(current + 1)>> \in Pairs
               /\ ~ (Char(current + 1) = "=" /\ Char(current) \in Assigned)
               /\ ~ (Char(current + 1) = Char(current) /\ Char(current) \in {"<", ">"})
      <4>1. Char(current + 1) # NUL
        BY <3>3 DEF Pairs, NUL
      <4>2. SymbolEnd = current + 2
        BY <3>3 DEF SymbolEnd
      <4> QED BY <4>1, <4>2, <2>3, <2>4
    <3>4. CASE /\ <<Char(current), Char(current + 1)>> \notin Pairs
               /\ ~ (Char(current + 1) = "=" /\ Char(current) \in Assigned)
               /\ ~ (Char(current + 1) = Char(current) /\ Char(current) \in {"<", ">"})
      <4>1. SymbolEnd = current + 1
        BY <3>4 DEF SymbolEnd
      <4> QED BY <4>1, <2>3
    <3> QED BY <3>1, <3>2, <3>3, <3>4
  <2> QED BY <2>1, <2>6, <1>3
<1>10. CASE scan_string
  <2>1. Char(current) = "\"" /\ "string" \in Kinds /\ "error" \in Kinds
    BY <1>10 DEF scan_string, Kinds
  <2>2. current \in 1..Len(source) /\ current + 1 \in Positions
    BY <2>1, <1>4 DEF NUL
  <2>3. StringEnd \in (current + 1)..(Len(source) + 1)
    <3>1. Places({"\""}) \subseteq DOMAIN source
      BY DEF Places
    <3> QED BY <3>1, <2>2, <1>1, UntilFacts DEF StringEnd
  <2>4. CASE Char(StringEnd) = NUL
    <3>1. list_add_token("error", StringEnd)
      BY <1>10, <2>4 DEF scan_string
    <3>2. StringEnd \in current..(Len(source) + 1) /\ StringEnd # current
      BY <2>2, <2>3
    <3> QED BY <3>1, <3>2, <2>1, <1>3
  <2>5. CASE Char(StringEnd) # NUL
    <3>1. list_add_token("string", StringEnd + 1)
      BY <1>10, <2>5 DEF scan_string
    <3>2. StringEnd \in 1..Len(source)
      BY <2>2, <2>3, <2>5, InText, <1>1
    <3>3. StringEnd + 1 \in current..(Len(source) + 1) /\ StringEnd + 1 # current
      BY <2>2, <2>3, <3>2
    <3> QED BY <3>1, <3>3, <2>1, <1>3
  <2> QED BY <2>4, <2>5
<1>11. CASE scan_unexpected
  <2>1. Char(current) # NUL /\ list_add_token("error", current + 1) /\ "error" \in Kinds
    BY <1>11 DEF scan_unexpected, Kinds
  <2>2. current + 1 \in current..(Len(source) + 1) /\ current + 1 # current
    BY <2>1, <1>1, <1>4
  <2> QED BY <2>1, <2>2, <1>3
<1> QED BY <1>5, <1>7, <1>8, <1>9, <1>10, <1>11 DEF scan_token

-----------------------------------------------------------------------------
(* The invariant.                                                          *)

\* The tokens have their types, each with the text it was read from.
Listed ==
  /\ tokens \in Seq(TokenRecords) /\ spans \in Seq(Positions \X Positions)
  /\ Len(tokens) = Len(spans)

\* A token has at least one character, but for the two at the end.
TokensCounted ==
  /\ phase \in {"loop", "token", "done", "exited", "panicked"}
  /\ phase = "loop" => Len(tokens) < current \/ (is_at_end /\ Len(tokens) <= current)
  /\ phase = "token" => Len(tokens) < current
  /\ Len(tokens) <= current + 1

\* The end of the text of the k-th token; blanks lie between it and the next.
End(list, k) == IF k = 0 THEN 1 ELSE list[k][2]

Gaps ==
  /\ \A k \in DOMAIN spans : End(spans, k - 1) <= spans[k][1] /\ AreBlanks(End(spans, k - 1), spans[k][1])
  /\ End(spans, Len(spans)) <= current /\ AreBlanks(End(spans, Len(spans)), current)
  /\ phase = "done" => /\ is_at_end /\ tokens # <<>>
                       /\ tokens[Len(tokens)].kind = "eof"

Inv == Placed /\ Listed /\ TokensCounted /\ LinesAreRight /\ Gaps

\* No text at all is a text of blanks.
LEMMA NoBlanks == ASSUME NEW i \in Nat PROVE AreBlanks(i, i)
<1>1. {i} \in SUBSET (i..i) /\ {i, i} \subseteq {i} /\ \A a, b \in {i} : ~ (a < b)
  OBVIOUS
<1> QED BY <1>1 DEF AreBlanks

\* One more blank after blanks.
LEMMA MoreBlanks ==
  ASSUME NEW i \in Nat, NEW j \in Nat, NEW k \in Nat, i <= j, j < k,
         AreBlanks(i, j), IsBlank(j, k)
  PROVE  AreBlanks(i, k)
<1>1. PICK cuts \in SUBSET (i..j) :
        /\ {i, j} \subseteq cuts
        /\ \A a, b \in cuts : a < b /\ (\A c \in cuts : ~ (a < c /\ c < b)) => IsBlank(a, b)
  BY DEF AreBlanks
<1> DEFINE more == cuts \cup {k}
<1>2. more \in SUBSET (i..k) /\ {i, k} \subseteq more
  BY <1>1
<1>3. ASSUME NEW a \in more, NEW b \in more, a < b, \A c \in more : ~ (a < c /\ c < b)
      PROVE  IsBlank(a, b)
  <2>1. CASE b = k
    <3>1. a \in cuts /\ a <= j /\ ~ (a < j)
      BY <2>1, <1>1, <1>3
    <3>2. a = j
      BY <3>1, <1>1
    <3> QED BY <2>1, <3>2
  <2>2. CASE b # k
    <3>1. a \in cuts /\ b \in cuts
      BY <2>2, <1>1, <1>3
    <3>2. \A c \in cuts : ~ (a < c /\ c < b)
      BY <1>3
    <3> QED BY <3>1, <3>2, <1>1, <1>3
  <2> QED BY <2>1, <2>2
<1> QED BY <1>2, <1>3 DEF AreBlanks

\* Before the first character nothing is listed.
LEMMA InitInv == Init => Inv
<1> SUFFICES ASSUME Init PROVE Inv
  OBVIOUS
<1>1. source \in Seq(STRING) /\ Len(source) \in Nat
  BY SourcesAreText DEF Init
<1>2. Newlines(1, 1) = 0
  BY NewlinesFacts
<1>3. Placed
  BY <1>1, <1>2 DEF Init, Placed, Positions
<1>4. Listed /\ TokensCounted /\ LinesAreRight
  BY <1>1 DEF Init, Listed, TokensCounted, LinesAreRight
<1>5. AreBlanks(1, 1)
  BY NoBlanks
<1>6. Len(spans) = 0 /\ DOMAIN spans = {} /\ current = 1 /\ phase = "loop" /\ End(spans, Len(spans)) = 1
  BY DEF Init, End
<1>7. Gaps
  BY <1>5, <1>6 DEF Gaps
<1> QED BY <1>3, <1>4, <1>7 DEF Inv

\* While the source is the same, so is what the invariant says of texts and lists.
LEMMA SameSource ==
  ASSUME UNCHANGED source
  PROVE  /\ Positions' = Positions /\ TokenRecords' = TokenRecords
         /\ Placed' <=> /\ source \in Sources /\ current' \in Positions
                        /\ line' = 1 + Newlines(1, current')
         /\ LinesAreRight' <=>
              \A k \in DOMAIN tokens' : tokens'[k].line = 1 + Newlines(1, spans'[k][2])
         /\ (is_at_end)' <=> Char(current') = NUL
<1>1. Positions' = Positions
  BY DEF Positions
<1>2. TokenRecords' = TokenRecords
  BY <1>1 DEF TokenRecords
<1>3. ASSUME NEW i PROVE Char(i)' = Char(i)
  BY DEF Char
<1>4. Placed' <=> /\ source \in Sources /\ current' \in Positions
                  /\ line' = 1 + Newlines(1, current')
  BY <1>1 DEF Placed, Newlines, Char
<1>5. LinesAreRight' <=>
        \A k \in DOMAIN tokens' : tokens'[k].line = 1 + Newlines(1, spans'[k][2])
  BY DEF LinesAreRight, Newlines, Char
<1>6. (is_at_end)' <=> Char(current') = NUL
  BY DEF is_at_end, Char
<1> QED BY <1>1, <1>2, <1>4, <1>5, <1>6

\* The same of the blanks between the tokens.
LEMMA SameGaps ==
  ASSUME UNCHANGED source
  PROVE  Gaps' <=>
           /\ \A k \in DOMAIN spans' :
                /\ End(spans', k - 1) <= spans'[k][1]
                /\ AreBlanks(End(spans', k - 1), spans'[k][1])
           /\ End(spans', Len(spans')) <= current'
           /\ AreBlanks(End(spans', Len(spans')), current')
           /\ phase' = "done" => /\ Char(current') = NUL /\ tokens' # <<>>
                                 /\ tokens'[Len(tokens')].kind = "eof"
BY DEF Gaps, AreBlanks, IsBlank, Text, Char, is_at_end

\* Reading a blank moves the scanner, and adds a blank after the last token.
LEMMA InvBlank == ASSUME Inv, phase = "token", ReadsBlank PROVE Inv'
<1>1. /\ UNCHANGED source /\ tokens' = tokens /\ spans' = spans /\ phase' = phase
  BY DEF ReadsBlank
<1>2. PICK next \in (current + 1)..(Len(source) + 1) : ReadTo(next) /\ IsBlank(current, next)
  BY DEF ReadsBlank
<1>3. /\ Placed /\ Listed /\ TokensCounted /\ LinesAreRight /\ Gaps
      /\ source \in Seq(STRING) /\ Len(source) \in Nat /\ current \in Nat /\ current \in Positions
  BY SourcesAreText DEF Inv, Placed, Positions
<1>4. next \in current..(Len(source) + 1) /\ next \in Nat /\ current < next
  BY <1>3
<1>5. current' = next /\ next \in Positions /\ line' = 1 + Newlines(1, next)
  BY <1>2, <1>3, <1>4, ReadFacts DEF Placed
<1>6. Placed'
  BY <1>1, <1>3, <1>5, SameSource DEF Placed
<1>7. Listed'
  BY <1>1, <1>3, SameSource DEF Listed
<1>8. TokensCounted'
  <2>1. Len(tokens) \in Nat
    BY <1>3 DEF Listed
  <2> QED BY <2>1, <1>1, <1>3, <1>4, <1>5 DEF TokensCounted
<1>9. LinesAreRight'
  BY <1>1, <1>3, SameSource DEF LinesAreRight
<1>10. Gaps'
  <2>1. End(spans, Len(spans)) \in Nat
    BY <1>3 DEF Listed, End, Positions
  <2>2. End(spans, Len(spans)) <= next /\ AreBlanks(End(spans, Len(spans)), next)
    BY <2>1, <1>2, <1>3, <1>4, MoreBlanks DEF Gaps
  <2> QED BY <2>2, <1>1, <1>3, <1>5, SameGaps DEF Gaps
<1> QED BY <1>6, <1>7, <1>8, <1>9, <1>10 DEF Inv

\* A token that is added takes its place behind the blanks before it.
LEMMA ListStep ==
  ASSUME Placed, Listed, LinesAreRight, Gaps, UNCHANGED source,
         NEW next \in current..(Len(source) + 1), NEW token \in TokenRecords,
         token.line = 1 + Newlines(1, next),
         tokens' = Append(tokens, token), spans' = Append(spans, <<current, next>>)
  PROVE  /\ Len(tokens) \in Nat /\ Len(tokens') = Len(tokens) + 1
         /\ tokens' # <<>> /\ tokens'[Len(tokens')] = token
         /\ Listed' /\ LinesAreRight'
         /\ \A k \in DOMAIN spans' :
              /\ End(spans', k - 1) <= spans'[k][1]
              /\ AreBlanks(End(spans', k - 1), spans'[k][1])
         /\ End(spans', Len(spans')) = next /\ AreBlanks(next, next)
<1>1. /\ source \in Seq(STRING) /\ Len(source) \in Nat /\ current \in Nat /\ current \in Positions
      /\ next \in Nat /\ next \in Positions
  BY SourcesAreText DEF Placed, Positions
<1> DEFINE n == Len(tokens)
<1>2. /\ tokens' \in Seq(TokenRecords) /\ Len(tokens') = n + 1 /\ tokens'[n + 1] = token
      /\ \A k \in 1..n : tokens'[k] = tokens[k]
  BY AppendFacts DEF Listed
<1>3. /\ spans' \in Seq(Positions \X Positions) /\ Len(spans') = n + 1
      /\ spans'[n + 1] = <<current, next>>
      /\ \A k \in 1..n : spans'[k] = spans[k]
  <2> DEFINE P == Positions \X Positions
             x == <<current, next>>
  <2>1. spans \in Seq(P) /\ x \in P /\ Len(spans) = n
    BY <1>1 DEF Listed
  <2> HIDE DEF n, P, x
  <2>2. /\ Append(spans, x) \in Seq(P) /\ Len(Append(spans, x)) = Len(spans) + 1
        /\ Append(spans, x)[Len(spans) + 1] = x
        /\ \A k \in 1..Len(spans) : Append(spans, x)[k] = spans[k]
    BY <2>1, AppendFacts
  <2> QED BY <2>1, <2>2 DEF P, x
<1>4. n \in Nat /\ Len(spans) = n
      /\ DOMAIN tokens' = 1..(n + 1) /\ DOMAIN spans' = 1..(n + 1) /\ DOMAIN spans = 1..n
      /\ DOMAIN tokens = 1..n
  BY <1>2, <1>3 DEF Listed
<1>5. tokens' # <<>>
  BY <1>2, <1>4
<1> HIDE DEF n
<1>6. Listed'
  BY <1>2, <1>3, SameSource DEF Listed
<1>7. LinesAreRight'
  <2> SUFFICES ASSUME NEW k \in 1..(n + 1)
               PROVE  tokens'[k].line = 1 + Newlines(1, spans'[k][2])
    BY <1>4, SameSource
  <2>1. CASE k = n + 1
    BY <2>1, <1>2, <1>3
  <2>2. CASE k # n + 1
    <3>1. k \in 1..n
      BY <2>2, <1>4
    <3> QED BY <3>1, <1>2, <1>3, <1>4 DEF LinesAreRight
  <2> QED BY <2>1, <2>2
<1>8. \A k \in 0..n : End(spans', k) = End(spans, k)
  BY <1>3, <1>4 DEF End
<1>9. End(spans', n + 1) = next
  BY <1>3, <1>4 DEF End
<1>10. ASSUME NEW k \in 1..(n + 1)
       PROVE  /\ End(spans', k - 1) <= spans'[k][1]
              /\ AreBlanks(End(spans', k - 1), spans'[k][1])
  <2>1. CASE k = n + 1
    <3>1. k - 1 = n /\ n \in 0..n
      BY <2>1, <1>4
    <3>2. spans'[k][1] = current
      BY <2>1, <1>3
    <3>3. End(spans', k - 1) = End(spans, n)
      BY <3>1, <1>8
    <3> QED BY <3>2, <3>3, <1>4 DEF Gaps
  <2>2. CASE k # n + 1
    <3>1. k \in 1..n /\ k - 1 \in 0..n
      BY <2>2, <1>4
    <3>2. spans'[k] = spans[k] /\ End(spans', k - 1) = End(spans, k - 1)
      BY <3>1, <1>3, <1>8
    <3> QED BY <3>1, <3>2, <1>4 DEF Gaps
  <2> QED BY <2>1, <2>2
<1>11. AreBlanks(next, next)
  BY <1>1, NoBlanks
<1> QED BY <1>2, <1>3, <1>4, <1>5, <1>6, <1>7, <1>9, <1>10, <1>11 DEF n

\* A token that is scanned keeps the invariant: the scanner goes on at its end.
LEMMA InvToken == ASSUME Inv, phase = "token", ReadsToken PROVE Inv'
<1>1. UNCHANGED source /\ phase' = "loop"
  BY DEF ReadsToken
<1>2. PICK next \in current..(Len(source) + 1), token \in TokenRecords :
        /\ ReadTo(next)
        /\ next = current => is_at_end
        /\ token.line = 1 + Newlines(1, next)
        /\ tokens' = Append(tokens, token) /\ spans' = Append(spans, <<current, next>>)
  BY DEF ReadsToken
<1>3. /\ Placed /\ Listed /\ TokensCounted /\ LinesAreRight /\ Gaps
      /\ source \in Seq(STRING) /\ Len(source) \in Nat /\ current \in Nat /\ current \in Positions
      /\ next \in Nat /\ current <= next
  BY SourcesAreText DEF Inv, Placed, Positions
<1>4. current' = next /\ next \in Positions /\ line' = 1 + Newlines(1, next)
  BY <1>2, <1>3, ReadFacts DEF Placed
<1>5. /\ Len(tokens) \in Nat /\ Len(tokens') = Len(tokens) + 1
      /\ Listed' /\ LinesAreRight'
      /\ \A k \in DOMAIN spans' :
           /\ End(spans', k - 1) <= spans'[k][1]
           /\ AreBlanks(End(spans', k - 1), spans'[k][1])
      /\ End(spans', Len(spans')) = next /\ AreBlanks(next, next)
  BY <1>1, <1>2, <1>3, ListStep
<1>6. Placed'
  BY <1>1, <1>3, <1>4, SameSource DEF Placed
<1>7. TokensCounted'
  <2>1. Len(tokens) < current
    BY <1>3 DEF TokensCounted
  <2>2. CASE next = current
    <3>1. (is_at_end)'
      BY <2>2, <1>1, <1>2, <1>4, SameSource DEF is_at_end
    <3> QED BY <3>1, <2>1, <2>2, <1>1, <1>3, <1>4, <1>5 DEF TokensCounted
  <2>3. CASE next # current
    BY <2>1, <2>3, <1>1, <1>3, <1>4, <1>5 DEF TokensCounted
  <2> QED BY <2>2, <2>3
<1>8. Gaps'
  BY <1>1, <1>3, <1>4, <1>5, SameGaps
<1> QED BY <1>5, <1>6, <1>7, <1>8 DEF Inv

\* The loop of scan_tokens begins a token, or adds the eof that ends the list.
LEMMA InvLoop == ASSUME Inv, scan_tokens PROVE Inv'
<1>1. phase = "loop" /\ UNCHANGED <<source, current, line>>
  BY DEF scan_tokens
<1>2. /\ Placed /\ Listed /\ TokensCounted /\ LinesAreRight /\ Gaps
      /\ source \in Seq(STRING) /\ Len(source) \in Nat /\ current \in Nat /\ current \in Positions
  BY SourcesAreText DEF Inv, Placed, Positions
<1>3. Placed'
  BY <1>1, <1>2, SameSource DEF Placed
<1>4. CASE ~ is_at_end /\ phase' = "token" /\ UNCHANGED <<tokens, spans>>
  <2>1. Listed' /\ LinesAreRight'
    BY <1>1, <1>2, <1>4, SameSource DEF Listed, LinesAreRight
  <2>2. TokensCounted'
    BY <1>1, <1>2, <1>4 DEF TokensCounted
  <2>3. Gaps'
    BY <1>1, <1>2, <1>4, SameGaps DEF Gaps
  <2> QED BY <1>3, <2>1, <2>2, <2>3 DEF Inv
<1>5. CASE /\ is_at_end /\ phase' = "done"
           /\ tokens' = Append(tokens, Token("eof", 0, 0, line))
           /\ spans' = Append(spans, <<current, current>>)
  <2> DEFINE token == Token("eof", 0, 0, line)
  <2>1. line \in Positions /\ line = 1 + Newlines(1, current)
    <3>1. Newlines(1, current) \in 0..(current - 1)
      BY <1>2, NewlinesFacts DEF Positions
    <3> QED BY <3>1, <1>2 DEF Placed, Positions
  <2>2. token \in TokenRecords /\ token.line = line /\ token.kind = "eof"
    BY <2>1, <1>2 DEF Token, TokenRecords, Kinds
  <2>3. tokens' = Append(tokens, token)
    BY <1>5
  <2> HIDE DEF token
  <2>4. current \in current..(Len(source) + 1)
    BY <1>2 DEF Positions
  <2>5. /\ Len(tokens) \in Nat /\ Len(tokens') = Len(tokens) + 1
        /\ tokens' # <<>> /\ tokens'[Len(tokens')] = token
        /\ Listed' /\ LinesAreRight'
        /\ \A k \in DOMAIN spans' :
             /\ End(spans', k - 1) <= spans'[k][1]
             /\ AreBlanks(End(spans', k - 1), spans'[k][1])
        /\ End(spans', Len(spans')) = current /\ AreBlanks(current, current)
    BY <2>1, <2>2, <2>3, <2>4, <1>1, <1>2, <1>5, ListStep
  <2>6. TokensCounted'
    BY <2>5, <1>1, <1>2, <1>5 DEF TokensCounted
  <2>7. Gaps'
    <3>1. current' = current /\ Char(current) = NUL /\ current <= current
      BY <1>1, <1>2, <1>5 DEF is_at_end
    <3>2. tokens' # <<>> /\ tokens'[Len(tokens')].kind = "eof"
      BY <2>2, <2>5
    <3> QED BY <3>1, <3>2, <2>5, <1>1, SameGaps
  <2> QED BY <1>3, <2>5, <2>6, <2>7 DEF Inv
<1> QED BY <1>4, <1>5 DEF scan_tokens

\* Every step of the scanner keeps the invariant.
LEMMA InvStep == ASSUME Inv, [Next]_vars PROVE Inv'
<1>1. ASSUME UNCHANGED <<source, current, line, tokens, spans>>,
             phase' = phase \/ phase' \in {"exited", "panicked"}
      PROVE  Inv'
  <2>1. Placed' /\ Listed' /\ LinesAreRight'
    BY <1>1, SameSource DEF Inv, Placed, Listed, LinesAreRight
  <2>2. TokensCounted'
    BY <1>1, SameSource DEF Inv, TokensCounted, is_at_end
  <2>3. Gaps'
    BY <1>1, SameGaps DEF Inv, Gaps, is_at_end
  <2> QED BY <2>1, <2>2, <2>3 DEF Inv
<1>2. CASE ScanEnds
  BY <1>2, <1>1 DEF ScanEnds
<1>3. CASE scan_tokens
  BY <1>3, InvLoop
<1>4. CASE skip_with_espace
  BY <1>4, <1>2, BlankStep, InvBlank DEF skip_with_espace, Inv
<1>5. CASE scan_token
  BY <1>5, <1>2, TokenStep, InvToken DEF scan_token, Inv
<1>6. CASE UNCHANGED vars
  BY <1>6, <1>1 DEF vars
<1> QED BY <1>3, <1>4, <1>5, <1>6 DEF Next, Stopped

\* What the invariant says of the state's types.
LEMMA InvTypes == Inv => TypeOK
<1> SUFFICES ASSUME Inv PROVE TypeOK
  OBVIOUS
<1>1. /\ Placed /\ Listed /\ TokensCounted
      /\ Len(source) \in Nat /\ current \in Nat /\ current \in Positions /\ 1 <= current
  BY SourcesAreText DEF Inv, Placed, Positions
<1>2. line \in Positions
  <2>1. Newlines(1, current) \in 0..(current - 1)
    BY <1>1, NewlinesFacts DEF Positions
  <2> QED BY <2>1, <1>1 DEF Placed, Positions
<1>3. tokens \in Seq([kind : Kinds, from : 0..(Len(source) + 1),
                      length : 0..Len(source), line : 1..(Len(source) + 1)])
  BY <1>1 DEF Listed, TokenRecords, Positions
<1>4. Len(tokens) = Len(spans) /\ Len(tokens) <= Len(source) + 2
  <2>1. Len(tokens) \in Nat
    BY <1>1 DEF Listed
  <2> QED BY <2>1, <1>1 DEF Listed, TokensCounted, Positions
<1> QED BY <1>1, <1>2, <1>3, <1>4 DEF TypeOK, Placed, TokensCounted, Positions

-----------------------------------------------------------------------------
(* The grammar, by the first character of a text.                          *)

Quote == "\""
Quotes(t) == {i \in DOMAIN t : t[i] = Quote}
IsFloat(t) == \E p \in 2..(Len(t) - 1) : t[p] = "." /\ \A i \in DOMAIN t \ {p} : t[i] \in Digits

\* The symbols, by their length.
LEMMA SymbolsByLength ==
  ASSUME NEW t \in Symbols
  PROVE  /\ t[1] \in Singles /\ Len(t) \in 1..3
         /\ Len(t) = 2 => \/ t[2] = "=" /\ t[1] \in Assigned
                          \/ t[2] = t[1] /\ t[1] \in {"<", ">"}
                          \/ <<t[1], t[2]>> \in Pairs
         /\ Len(t) = 3 => t[2] = t[1] /\ t[1] \in {"<", ">"} /\ t[3] = "="
<1>1. CASE t \in {<<c>> : c \in Singles}
  <2>1. PICK c \in Singles : t = <<c>>
    BY <1>1
  <2> QED BY <2>1
<1>2. CASE t \in {<<c, "=">> : c \in Assigned}
  <2>1. PICK c \in Assigned : t = <<c, "=">>
    BY <1>2
  <2>2. t[1] = c /\ t[2] = "=" /\ Len(t) = 2 /\ Len(t) # 3 /\ Len(t) \in 1..3
    BY <2>1
  <2>3. c \in Assigned /\ c \in Singles
    BY DEF Singles
  <2> QED BY <2>2, <2>3, Zenon
<1>3. CASE t \in Pairs
  <2>1. /\ Len(t) = 2 /\ t = <<t[1], t[2]>> /\ t[1] \in {":", "-", "="}
    BY <1>3 DEF Pairs
  <2>2. t[1] \in Singles
    BY <2>1 DEF Singles, Assigned
  <2> QED BY <2>1, <2>2, <1>3
<1>4. CASE t \in UNION {{<<c, c>>, <<c, c, "=">>} : c \in {"<", ">"}}
  <2>1. PICK c \in {"<", ">"} : t = <<c, c>> \/ t = <<c, c, "=">>
    BY <1>4
  <2>2. c \in Singles
    BY DEF Singles, Assigned
  <2>3. CASE t = <<c, c>>
    BY <2>1, <2>2, <2>3
  <2>4. CASE t = <<c, c, "=">>
    BY <2>1, <2>2, <2>4
  <2> QED BY <2>1, <2>3, <2>4
<1> QED BY <1>1, <1>2, <1>3, <1>4 DEF Symbols

\* What a text of the grammar looks like from its first character.
LEMMA KindFacts ==
  ASSUME NEW t \in Seq(STRING), Len(t) >= 1, KindsOf(t) # {}
  PROVE  \/ t \in Symbols
         \/ t[1] = Quote /\ Len(t) > 1 /\ Quotes(t) = {1, Len(t)}
         \/ t[1] \in Letters /\ Range(t) \subseteq Letters \cup Digits
         \/ t[1] \in Digits /\ Range(t) \subseteq Digits
         \/ t[1] \in Digits /\ IsFloat(t)
<1>1. PICK k \in Kinds : k \in KindsOf(t)
  BY DEF KindsOf
<1>2. DOMAIN t = 1..Len(t) /\ 1 \in DOMAIN t /\ t[1] \in Range(t)
  BY DEF Range
<1>3. CASE k = "symbol"
  BY <1>1, <1>3 DEF KindsOf
<1>4. CASE k = "string"
  <2>1. Len(t) > 1 /\ Quotes(t) = {1, Len(t)}
    BY <1>1, <1>4, Zenon DEF KindsOf, Quotes, Quote
  <2> QED BY <2>1 DEF Quotes
<1>5. CASE k = "underscore"
  <2>1. t = <<"_">>
    BY <1>1, <1>5 DEF KindsOf
  <2>2. "_" \in Letters
    BY CharactersAreApart
  <2>3. t[1] = "_" /\ Len(t) = 1
    BY <2>1
  <2>4. \A x \in DOMAIN t : t[x] = "_"
    <3> SUFFICES ASSUME NEW x \in DOMAIN t PROVE t[x] = "_"
      OBVIOUS
    <3>1. x \in 1..1
      BY <1>2, <2>3
    <3>2. x = 1
      BY <3>1
    <3> QED BY <3>2, <2>3
  <2>5. Range(t) \subseteq {"_"}
    BY <2>4, Zenon DEF Range
  <2> QED BY <2>2, <2>3, <2>5
<1>6. CASE k \in {"keyword", "identifier"}
  BY <1>1, <1>6 DEF KindsOf
<1>7. CASE k \in {"i32", "i64"}
  <2>1. Range(t) \subseteq Digits
    BY <1>1, <1>7 DEF KindsOf
  <2> QED BY <2>1, <1>2
<1>8. CASE k = "f64"
  <2>1. IsFloat(t)
    BY <1>1, <1>8 DEF KindsOf, IsFloat
  <2>2. t[1] \in Digits
    BY <2>1, <1>2 DEF IsFloat
  <2> QED BY <2>1, <2>2
<1>9. k \notin {"error", "eof"}
  BY <1>1 DEF KindsOf
<1> QED BY <1>1, <1>3, <1>4, <1>5, <1>6, <1>7, <1>8, <1>9 DEF Kinds

\* The kinds of first characters are apart.
LEMMA FirstsAreApart ==
  /\ Letters \cap Digits = {} /\ (Letters \cup Digits) \cap Singles = {}
  /\ Quote \notin Letters \cup Digits \cup Singles /\ "." \notin Letters \cup Digits
<1>1. "." \in Singles
  BY DEF Singles, Assigned
<1>2. Quote \notin Singles
  BY DEF Singles, Assigned, Quote
<1>3. Quote \notin Letters \cup Digits
  BY SymbolsAreApart DEF Quote
<1> QED BY <1>1, <1>2, <1>3, CharactersAreApart, SymbolsAreApart

\* The text of a longer piece agrees with the source.
LEMMA LongerText ==
  ASSUME source \in Seq(STRING), NEW i \in Positions, NEW e \in (i + 1)..(Len(source) + 1)
  PROVE  /\ Text(i, e) \in Seq(STRING) /\ Len(Text(i, e)) = e - i /\ Len(Text(i, e)) >= 1
         /\ DOMAIN Text(i, e) = 1..(e - i)
         /\ Text(i, e)[1] = Char(i) /\ Char(i) = source[i]
         /\ \A p \in i..(e - 1) : /\ p - i + 1 \in DOMAIN Text(i, e) /\ p \in 1..Len(source)
                                  /\ Text(i, e)[p - i + 1] = source[p]
                                  /\ Char(p) = source[p]
<1> DEFINE t == Text(i, e)
<1>1. i \in Nat /\ e \in Nat /\ i >= 1 /\ e >= i + 1 /\ e <= Len(source) + 1 /\ e \in i..(Len(source) + 1)
      /\ Len(source) \in Nat
  BY DEF Positions
<1>2. t \in Seq(STRING) /\ Len(t) = e - i /\ \A k \in 1..(e - i) : t[k] = source[i + k - 1]
  BY <1>1, TextFacts
<1>3. DOMAIN t = 1..(e - i)
  BY <1>2, <1>1
<1> HIDE DEF t
<1>4. ASSUME NEW p \in i..(e - 1)
      PROVE  /\ p - i + 1 \in DOMAIN t /\ p \in 1..Len(source)
             /\ t[p - i + 1] = source[p] /\ Char(p) = source[p]
  <2>1. p - i + 1 \in 1..(e - i) /\ i + (p - i + 1) - 1 = p /\ p \in 1..Len(source)
    BY <1>1, <1>4
  <2> QED BY <2>1, <1>2, <1>3 DEF Char
<1>5. t[1] = source[i] /\ Char(i) = source[i]
  <2>1. i \in i..(e - 1) /\ i - i + 1 = 1
    BY <1>1
  <2> QED BY <2>1, <1>4
<1>6. t \in Seq(STRING) /\ Len(t) = e - i /\ Len(t) >= 1
  BY <1>1, <1>2
<1> QED BY <1>3, <1>4, <1>5, <1>6 DEF t

-----------------------------------------------------------------------------
(* The tokens that scan_token makes, kind by kind.                         *)

\* A loop over characters of one class stops behind the last of them.
LEMMA RunFacts ==
  ASSUME source \in Seq(STRING), NEW i \in Positions, NEW C, NUL \notin C,
         NEW q, q = Until(i, DOMAIN source \ Places(C))
  PROVE  /\ q \in i..(Len(source) + 1)
         /\ \A k \in i..(q - 1) : k \in 1..Len(source) /\ source[k] \in C
         /\ Char(q) \notin C
         /\ Char(i) \in C => q >= i + 1
<1> DEFINE places == DOMAIN source \ Places(C)
<1>1. Len(source) \in Nat /\ DOMAIN source = 1..Len(source) /\ i \in Nat /\ i >= 1
  BY DEF Positions
<1>2. /\ q \in i..(Len(source) + 1) /\ q \in places \cup {Len(source) + 1}
      /\ \A k \in i..(q - 1) : k \notin places
  <2>1. places \subseteq DOMAIN source /\ q = Until(i, places)
    OBVIOUS
  <2> HIDE DEF places
  <2>2. /\ Until(i, places) \in i..(Len(source) + 1) /\ Until(i, places) \in places \cup {Len(source) + 1}
        /\ \A k \in i..(Until(i, places) - 1) : k \notin places
    <3>1. source \in Seq(STRING) /\ i \in Positions /\ places \subseteq DOMAIN source
      BY <2>1
    <3> QED BY ONLY <3>1, UntilFacts
  <2> QED BY ONLY <2>1, <2>2
<1>3. \A k \in i..(q - 1) : k \in 1..Len(source) /\ source[k] \in C
  <2> TAKE k \in i..(q - 1)
  <2>1. k \in 1..Len(source)
    BY <1>1, <1>2
  <2>2. k \in Places(C)
    BY <1>1, <1>2, <2>1
  <2> QED BY <2>1, <2>2 DEF Places
<1>4. Char(q) \notin C
  <2>1. CASE q \in places
    <3>1. q \in 1..Len(source) /\ source[q] \notin C
      BY <2>1, <1>1 DEF Places
    <3> QED BY <3>1 DEF Char
  <2>2. CASE q = Len(source) + 1
    <3>1. Char(q) = NUL
      BY <2>2, <1>1 DEF Char
    <3> QED BY <3>1
  <2> QED BY <1>2, <2>1, <2>2
<1>5. ASSUME Char(i) \in C PROVE q >= i + 1
  <2>1. q # i
    BY <1>4, <1>5
  <2> QED BY <2>1, <1>1, <1>2
<1> QED BY <1>2, <1>3, <1>4, <1>5

\* What begins with a symbol is of the grammar only as a symbol.
LEMMA SymbolTexts ==
  ASSUME source \in Seq(STRING), NEW i \in Positions, Char(i) \in Singles,
         NEW e \in (i + 1)..(Len(source) + 1), KindsOf(Text(i, e)) # {}
  PROVE  /\ e \in {i + 1, i + 2, i + 3}
         /\ e = i + 2 => \/ Char(i + 1) = "=" /\ Char(i) \in Assigned
                         \/ Char(i + 1) = Char(i) /\ Char(i) \in {"<", ">"}
                         \/ <<Char(i), Char(i + 1)>> \in Pairs
         /\ e = i + 3 => Char(i + 1) = Char(i) /\ Char(i) \in {"<", ">"} /\ Char(i + 2) = "="
<1> DEFINE t == Text(i, e)
<1>1. i \in Nat /\ e \in Nat /\ i >= 1 /\ e >= i + 1
  BY DEF Positions
<1>2. /\ t \in Seq(STRING) /\ Len(t) = e - i /\ Len(t) >= 1 /\ t[1] = Char(i)
      /\ \A p \in i..(e - 1) : t[p - i + 1] = source[p] /\ Char(p) = source[p]
  BY LongerText
<1>3. KindsOf(t) # {}
  OBVIOUS
<1> HIDE DEF t
<1>4. t \in Symbols
  <2>1. t[1] \notin Letters /\ t[1] \notin Digits /\ t[1] # Quote
    BY <1>2, FirstsAreApart
  <2> QED BY <2>1, <1>2, <1>3, KindFacts
<1>5. /\ Len(t) \in 1..3
      /\ Len(t) = 2 => \/ t[2] = "=" /\ t[1] \in Assigned
                       \/ t[2] = t[1] /\ t[1] \in {"<", ">"}
                       \/ <<t[1], t[2]>> \in Pairs
      /\ Len(t) = 3 => t[2] = t[1] /\ t[1] \in {"<", ">"} /\ t[3] = "="
  BY <1>4, SymbolsByLength
<1>6. e >= i + 2 => t[2] = Char(i + 1)
  <2> SUFFICES ASSUME e >= i + 2 PROVE t[2] = Char(i + 1)
    OBVIOUS
  <2> DEFINE p == i + 1
  <2>1. p \in i..(e - 1) /\ p - i + 1 = 2
    BY <1>1
  <2> HIDE DEF p
  <2>2. t[p - i + 1] = source[p] /\ Char(p) = source[p]
    BY <2>1, <1>2
  <2> QED BY <2>1, <2>2 DEF p
<1>7. e >= i + 3 => t[3] = Char(i + 2)
  <2> SUFFICES ASSUME e >= i + 3 PROVE t[3] = Char(i + 2)
    OBVIOUS
  <2> DEFINE p == i + 2
  <2>1. p \in i..(e - 1) /\ p - i + 1 = 3
    BY <1>1
  <2> HIDE DEF p
  <2>2. t[p - i + 1] = source[p] /\ Char(p) = source[p]
    BY <2>1, <1>2
  <2> QED BY <2>1, <2>2 DEF p
<1>8. /\ e \in {i + 1, i + 2, i + 3} /\ (Len(t) = 2 <=> e = i + 2) /\ (Len(t) = 3 <=> e = i + 3)
      /\ (e = i + 2 => e >= i + 2) /\ (e = i + 3 => e >= i + 2 /\ e >= i + 3)
  BY <1>1, <1>2, <1>5
<1> QED BY <1>2, <1>5, <1>6, <1>7, <1>8, Zenon

\* A text of one of the forms of a symbol is one.
LEMMA TextIsSymbol ==
  ASSUME source \in Seq(STRING), NEW i \in Positions, NEW e \in (i + 1)..(Len(source) + 1),
         \/ e = i + 1 /\ Char(i) \in Singles
         \/ e = i + 2 /\ Char(i + 1) = "=" /\ Char(i) \in Assigned
         \/ e = i + 2 /\ Char(i + 1) = Char(i) /\ Char(i) \in {"<", ">"}
         \/ e = i + 2 /\ <<Char(i), Char(i + 1)>> \in Pairs
         \/ e = i + 3 /\ Char(i + 1) = Char(i) /\ Char(i) \in {"<", ">"} /\ Char(i + 2) = "="
  PROVE  "symbol" \in KindsOf(Text(i, e))
<1> DEFINE t == Text(i, e)
<1>1. i \in Nat /\ e \in Nat /\ i >= 1 /\ e >= i + 1
  BY DEF Positions
<1>2. /\ t \in Seq(STRING) /\ Len(t) = e - i /\ t[1] = Char(i)
      /\ \A p \in i..(e - 1) : t[p - i + 1] = source[p] /\ Char(p) = source[p]
  BY LongerText
<1> HIDE DEF t
<1>3. e >= i + 2 => t[2] = Char(i + 1)
  <2> SUFFICES ASSUME e >= i + 2 PROVE t[2] = Char(i + 1)
    OBVIOUS
  <2> DEFINE p == i + 1
  <2>1. p \in i..(e - 1) /\ p - i + 1 = 2
    BY <1>1
  <2> HIDE DEF p
  <2>2. t[p - i + 1] = source[p] /\ Char(p) = source[p]
    BY <2>1, <1>2
  <2> QED BY <2>1, <2>2 DEF p
<1>4. e >= i + 3 => t[3] = Char(i + 2)
  <2> SUFFICES ASSUME e >= i + 3 PROVE t[3] = Char(i + 2)
    OBVIOUS
  <2> DEFINE p == i + 2
  <2>1. p \in i..(e - 1) /\ p - i + 1 = 3
    BY <1>1
  <2> HIDE DEF p
  <2>2. t[p - i + 1] = source[p] /\ Char(p) = source[p]
    BY <2>1, <1>2
  <2> QED BY <2>1, <2>2 DEF p
<1>5. e = i + 1 => t = <<Char(i)>>
  <2>1. e = i + 1 => Len(t) = 1
    BY <1>1, <1>2
  <2> QED BY <2>1, <1>2
<1>6. e = i + 2 => t = <<Char(i), Char(i + 1)>>
  <2>1. e = i + 2 => Len(t) = 2 /\ e >= i + 2
    BY <1>1, <1>2
  <2> QED BY <2>1, <1>2, <1>3
<1>7. e = i + 3 => t = <<Char(i), Char(i + 1), Char(i + 2)>>
  <2>1. e = i + 3 => Len(t) = 3 /\ e >= i + 2 /\ e >= i + 3
    BY <1>1, <1>2
  <2> QED BY <2>1, <1>2, <1>3, <1>4
<1>8. t \in Symbols
  <2>1. CASE e = i + 1 /\ Char(i) \in Singles
    BY <2>1, <1>5 DEF Symbols
  <2>2. CASE e = i + 2 /\ Char(i + 1) = "=" /\ Char(i) \in Assigned
    BY <2>2, <1>6 DEF Symbols
  <2>3. CASE e = i + 2 /\ Char(i + 1) = Char(i) /\ Char(i) \in {"<", ">"}
    <3>1. t = <<Char(i), Char(i)>> /\ Char(i) \in {"<", ">"}
      BY <2>3, <1>6
    <3> QED BY <3>1 DEF Symbols
  <2>4. CASE e = i + 2 /\ <<Char(i), Char(i + 1)>> \in Pairs
    BY <2>4, <1>6 DEF Symbols
  <2>5. CASE e = i + 3 /\ Char(i + 1) = Char(i) /\ Char(i) \in {"<", ">"} /\ Char(i + 2) = "="
    <3>1. t = <<Char(i), Char(i), "=">> /\ Char(i) \in {"<", ">"}
      BY <2>5, <1>7
    <3> QED BY <3>1 DEF Symbols
  <2> QED BY <2>1, <2>2, <2>3, <2>4, <2>5
<1> QED BY <1>8 DEF KindsOf, Kinds, t

\* The nested matches of scan_token take the longest symbol there is.
LEMMA SymbolIsLongest ==
  ASSUME source \in Seq(STRING), current \in Positions, Char(current) \in Singles
  PROVE  /\ SymbolEnd \in (current + 1)..(Len(source) + 1)
         /\ "symbol" \in KindsOf(Text(current, SymbolEnd))
         /\ \A e \in (SymbolEnd + 1)..(Len(source) + 1) : KindsOf(Text(current, e)) = {}
<1> DEFINE i == current
           c == Char(current)
           d == Char(current + 1)
           f == Char(current + 2)
           n == Len(source) + 1
<1>1. /\ Len(source) \in Nat /\ i \in Nat \ {0} /\ i \in Positions /\ n \in Nat
      /\ i \in 1..Len(source) /\ i + 1 \in (i + 1)..n
  <2>1. c # NUL
    BY DEF Singles, Assigned, NUL
  <2> QED BY <2>1, InText DEF Positions
<1>2. d # NUL => i + 1 \in 1..Len(source) /\ i + 2 \in (i + 1)..n
  <2>1. i + 1 \in Nat \ {0}
    BY <1>1
  <2> QED BY <2>1, <1>1, InText
<1>3. f # NUL => i + 2 \in 1..Len(source) /\ i + 3 \in (i + 1)..n
  <2>1. i + 2 \in Nat \ {0}
    BY <1>1
  <2> QED BY <2>1, <1>1, InText
<1>4. ASSUME NEW e \in (i + 1)..n, KindsOf(Text(i, e)) # {}
      PROVE  /\ e \in {i + 1, i + 2, i + 3}
             /\ e = i + 2 => \/ d = "=" /\ c \in Assigned
                             \/ d = c /\ c \in {"<", ">"}
                             \/ <<c, d>> \in Pairs
             /\ e = i + 3 => d = c /\ c \in {"<", ">"} /\ f = "="
  BY <1>4, SymbolTexts
<1>5. ASSUME NEW e \in (i + 1)..n,
             \/ e = i + 1
             \/ e = i + 2 /\ d = "=" /\ c \in Assigned
             \/ e = i + 2 /\ d = c /\ c \in {"<", ">"}
             \/ e = i + 2 /\ <<c, d>> \in Pairs
             \/ e = i + 3 /\ d = c /\ c \in {"<", ">"} /\ f = "="
      PROVE  "symbol" \in KindsOf(Text(i, e))
  <2>1. \/ e = i + 1 /\ Char(i) \in Singles
        \/ e = i + 2 /\ Char(i + 1) = "=" /\ Char(i) \in Assigned
        \/ e = i + 2 /\ Char(i + 1) = Char(i) /\ Char(i) \in {"<", ">"}
        \/ e = i + 2 /\ <<Char(i), Char(i + 1)>> \in Pairs
        \/ e = i + 3 /\ Char(i + 1) = Char(i) /\ Char(i) \in {"<", ">"} /\ Char(i + 2) = "="
    BY <1>5
  <2>2. source \in Seq(STRING) /\ i \in Positions /\ e \in (i + 1)..(Len(source) + 1)
    BY <1>5, <1>1
  <2> HIDE DEF i, c, d, f, n
  <2> QED BY ONLY <2>1, <2>2, TextIsSymbol
<1>6. /\ d = "=" => d # NUL
      /\ c \in {"<", ">"} => c # NUL /\ c # "="
      /\ <<c, d>> \in Pairs => d # NUL /\ d # "=" /\ c \notin {"<", ">"}
      /\ f = "=" => f # NUL
  BY DEF NUL, Pairs
<1>7. SymbolEnd = CASE d = "=" /\ c \in Assigned    -> i + 2
                    [] d = c /\ c \in {"<", ">"}    -> IF f = "=" THEN i + 3 ELSE i + 2
                    [] <<c, d>> \in Pairs           -> i + 2
                    [] OTHER                        -> i + 1
  BY DEF SymbolEnd
<1> DEFINE end == SymbolEnd
<1> SUFFICES /\ end \in (i + 1)..n /\ "symbol" \in KindsOf(Text(i, end))
             /\ \A e \in (end + 1)..n : KindsOf(Text(i, e)) = {}
  OBVIOUS
<1> HIDE DEF i, c, d, f, n, end
<1>8. CASE d = "=" /\ c \in Assigned
  <2>1. end = i + 2
    <3>1. ~ (d = c /\ c \in {"<", ">"}) /\ ~ (<<c, d>> \in Pairs)
      BY <1>6, <1>8
    <3> QED BY <3>1, <1>7, <1>8 DEF end
  <2>2. end \in (i + 1)..n /\ "symbol" \in KindsOf(Text(i, end))
    BY <2>1, <1>2, <1>5, <1>6, <1>8
  <2>3. ASSUME NEW e \in (end + 1)..n, KindsOf(Text(i, e)) # {} PROVE FALSE
    <3>1. e \in (i + 1)..n /\ e # i + 1 /\ e # i + 2
      BY <2>1, <1>1
    <3>2. e = i + 3
      BY <3>1, <2>3, <1>4
    <3> QED BY <3>1, <3>2, <2>3, <1>4, <1>6, <1>8
  <2> QED BY <2>2, <2>3
<1>9. CASE d = c /\ c \in {"<", ">"} /\ f = "="
  <2>1. end = i + 3
    <3>1. ~ (d = "=" /\ c \in Assigned) /\ ~ (<<c, d>> \in Pairs)
      BY <1>6, <1>9
    <3> QED BY <3>1, <1>7, <1>9 DEF end
  <2>2. end \in (i + 1)..n /\ "symbol" \in KindsOf(Text(i, end))
    BY <2>1, <1>3, <1>5, <1>6, <1>9
  <2>3. ASSUME NEW e \in (end + 1)..n, KindsOf(Text(i, e)) # {} PROVE FALSE
    <3>1. e \in (i + 1)..n /\ e \notin {i + 1, i + 2, i + 3}
      BY <2>1, <1>1
    <3> QED BY <3>1, <2>3, <1>4
  <2> QED BY <2>2, <2>3
<1>10. CASE d = c /\ c \in {"<", ">"} /\ f # "="
  <2>1. end = i + 2
    <3>1. ~ (d = "=" /\ c \in Assigned) /\ ~ (<<c, d>> \in Pairs)
      BY <1>6, <1>10
    <3> QED BY <3>1, <1>7, <1>10 DEF end
  <2>2. end \in (i + 1)..n /\ "symbol" \in KindsOf(Text(i, end))
    BY <2>1, <1>2, <1>5, <1>6, <1>10
  <2>3. ASSUME NEW e \in (end + 1)..n, KindsOf(Text(i, e)) # {} PROVE FALSE
    <3>1. e \in (i + 1)..n /\ e # i + 1 /\ e # i + 2
      BY <2>1, <1>1
    <3> QED BY <3>1, <2>3, <1>4, <1>10
  <2> QED BY <2>2, <2>3
<1>11. CASE <<c, d>> \in Pairs
  <2>1. end = i + 2
    <3>1. ~ (d = "=" /\ c \in Assigned) /\ ~ (d = c /\ c \in {"<", ">"})
      BY <1>6, <1>11
    <3> QED BY <3>1, <1>7, <1>11 DEF end
  <2>2. end \in (i + 1)..n /\ "symbol" \in KindsOf(Text(i, end))
    BY <2>1, <1>2, <1>5, <1>6, <1>11
  <2>3. ASSUME NEW e \in (end + 1)..n, KindsOf(Text(i, e)) # {} PROVE FALSE
    <3>1. e \in (i + 1)..n /\ e # i + 1 /\ e # i + 2
      BY <2>1, <1>1
    <3> QED BY <3>1, <2>3, <1>4, <1>6, <1>11
  <2> QED BY <2>2, <2>3
<1>12. CASE /\ ~ (d = "=" /\ c \in Assigned) /\ ~ (d = c /\ c \in {"<", ">"})
            /\ ~ (<<c, d>> \in Pairs)
  <2>1. end = i + 1
    BY <1>7, <1>12 DEF end
  <2>2. end \in (i + 1)..n /\ "symbol" \in KindsOf(Text(i, end))
    BY <2>1, <1>1, <1>5
  <2>3. ASSUME NEW e \in (end + 1)..n, KindsOf(Text(i, e)) # {} PROVE FALSE
    <3>1. e \in (i + 1)..n /\ e # i + 1
      BY <2>1, <1>1
    <3> QED BY <3>1, <2>3, <1>4, <1>12
  <2> QED BY <2>2, <2>3
<1> QED BY <1>8, <1>9, <1>10, <1>11, <1>12

\* A text is the piece of it that is all of it.
LEMMA WholeText ==
  /\ \A u \in Seq(STRING) : Len(u) \in Nat /\ SubSeq(u, 1, Len(u)) = u /\ (Len(u) >= 1 => u # <<>>)
  /\ SubSeq(<<"f", "n">>, 1, 2) = <<"f", "n">>
<1>1. ASSUME NEW u \in Seq(STRING)
      PROVE  Len(u) \in Nat /\ SubSeq(u, 1, Len(u)) = u /\ (Len(u) >= 1 => u # <<>>)
  <2>1. SubSeq(u, 1, Len(u)) = u
    BY SubSeqFull
  <2>2. Len(u) \in Nat /\ (Len(u) >= 1 => u # <<>>)
    OBVIOUS
  <2> QED BY <2>1, <2>2
<1>2. ASSUME NEW S, NEW x \in S, NEW y \in S
      PROVE  <<x, y>> \in Seq(S) /\ Len(<<x, y>>) = 2
  OBVIOUS
<1>3. ASSUME NEW S, NEW x \in S, NEW y \in S
      PROVE  SubSeq(<<x, y>>, 1, 2) = <<x, y>>
  <2>1. SubSeq(<<x, y>>, 1, Len(<<x, y>>)) = <<x, y>>
    BY <1>2, SubSeqFull
  <2> QED BY <2>1, <1>2
<1>4. "f" \in {"f", "n"} /\ "n" \in {"f", "n"}
  OBVIOUS
<1> QED BY <1>1, <1>3, <1>4, Zenon

\* The kind of a word.
LEMMA WordKind ==
  ASSUME NEW t \in Seq(STRING), Len(t) >= 1, t[1] \in Letters, Range(t) \subseteq Letters \cup Digits,
         NEW kind, kind = IF t = <<"_">> THEN "underscore" ELSE identifier_type(t)
  PROVE  kind \in KindsOf(t) \/ LooksLikeFn(t)
<1>1. t # <<>>
  BY WholeText
<1>2. CASE t = <<"_">>
  <2>1. kind = "underscore"
    BY <1>2
  <2> QED BY <2>1, <1>2 DEF KindsOf, Kinds
<1>3. CASE t # <<"_">>
  <2>1. kind = identifier_type(t)
    BY <1>3
  <2>2. CASE t \in Keywords
    <3>1. kind = "keyword"
      BY <2>1, <2>2 DEF identifier_type
    <3> QED BY <3>1, <1>1, <1>3, <2>2 DEF KindsOf, Kinds
  <2>3. CASE t \notin Keywords /\ ~ IsPrefix(<<"f", "n">>, t)
    <3>1. kind = "identifier"
      BY <2>1, <2>3 DEF identifier_type
    <3> QED BY <3>1, <1>1, <1>3, <2>3 DEF KindsOf, Kinds
  <2>4. CASE t \notin Keywords /\ IsPrefix(<<"f", "n">>, t)
    <3>1. Len(t) >= 2 /\ SubSeq(<<"f", "n">>, 1, 2) = SubSeq(t, 1, 2)
      BY <2>4 DEF IsPrefix
    <3>2. Len(t) # 2
      <4> SUFFICES ASSUME Len(t) = 2 PROVE FALSE
        OBVIOUS
      <4>1. SubSeq(t, 1, 2) = t /\ SubSeq(<<"f", "n">>, 1, 2) = <<"f", "n">>
        BY Zenon, WholeText
      <4> QED BY <4>1, <3>1, <2>4, KeywordsAreWords
    <3>3. Len(t) > 2
      <4>1. Len(t) \in Nat
        BY WholeText
      <4> QED BY ONLY <4>1, <3>1, <3>2
    <3> QED BY <3>3, <2>4 DEF LooksLikeFn
  <2> QED BY <2>2, <2>3, <2>4
<1> QED BY <1>2, <1>3

\* The characters of a piece of the text are those of its places.
LEMMA RangeFacts ==
  ASSUME source \in Seq(STRING), NEW i \in Positions, NEW e \in (i + 1)..(Len(source) + 1)
  PROVE  /\ \A x \in DOMAIN Text(i, e) : \E p \in i..(e - 1) : x = p - i + 1 /\ Text(i, e)[x] = source[p]
         /\ \A p \in i..(e - 1) : Char(p) \in Range(Text(i, e))
<1> DEFINE t == Text(i, e)
<1>1. /\ DOMAIN t = 1..(e - i)
      /\ \A p \in i..(e - 1) : /\ p - i + 1 \in DOMAIN t
                               /\ t[p - i + 1] = source[p] /\ Char(p) = source[p]
  BY LongerText
<1>2. i \in Nat /\ e \in Nat
  BY DEF Positions
<1> HIDE DEF t
<1>3. ASSUME NEW x \in DOMAIN t PROVE \E p \in i..(e - 1) : x = p - i + 1 /\ t[x] = source[p]
  <2> DEFINE p == x + i - 1
  <2>1. p \in i..(e - 1) /\ x = p - i + 1
    <3>1. x \in 1..(e - i)
      BY <1>1
    <3> QED BY ONLY <3>1, <1>2
  <2> HIDE DEF p
  <2>2. t[p - i + 1] = source[p]
    BY <2>1, <1>1
  <2> QED BY <2>1, <2>2
<1>4. ASSUME NEW p \in i..(e - 1) PROVE Char(p) \in Range(t)
  <2>1. p - i + 1 \in DOMAIN t /\ t[p - i + 1] = Char(p)
    BY <1>1
  <2> QED BY <2>1, Zenon DEF Range
<1> QED BY <1>3, <1>4 DEF t

\* A run of characters of one class makes a text of the class, and a longer
\* text has the character that ended the run.
LEMMA RunText ==
  ASSUME source \in Seq(STRING), NEW i \in Positions, NEW C, NEW q,
         q \in (i + 1)..(Len(source) + 1),
         \A k \in i..(q - 1) : k \in 1..Len(source) /\ source[k] \in C
  PROVE  /\ Range(Text(i, q)) \subseteq C
         /\ \A e \in (q + 1)..(Len(source) + 1) :
              /\ e \in (i + 1)..(Len(source) + 1)
              /\ Char(q) \in Range(Text(i, e)) /\ q - i + 1 \in DOMAIN Text(i, e)
              /\ Text(i, e)[q - i + 1] = Char(q)
<1>1. i \in Nat /\ q \in Nat /\ Len(source) \in Nat /\ i < q
  BY DEF Positions
<1>2. \A x \in DOMAIN Text(i, q) : Text(i, q)[x] \in C
  BY RangeFacts
<1>3. Range(Text(i, q)) \subseteq C
  BY <1>2, Zenon DEF Range
<1>4. ASSUME NEW e \in (q + 1)..(Len(source) + 1)
      PROVE  /\ e \in (i + 1)..(Len(source) + 1)
             /\ Char(q) \in Range(Text(i, e)) /\ q - i + 1 \in DOMAIN Text(i, e)
             /\ Text(i, e)[q - i + 1] = Char(q)
  <2>1. e \in (i + 1)..(Len(source) + 1) /\ q \in i..(e - 1)
    BY ONLY <1>1, <1>4
  <2>2. Char(q) \in Range(Text(i, e))
    BY <2>1, RangeFacts
  <2>3. q - i + 1 \in DOMAIN Text(i, e) /\ Text(i, e)[q - i + 1] = Char(q)
    BY <2>1, LongerText
  <2> QED BY <2>1, <2>2, <2>3
<1> QED BY <1>3, <1>4

\* A word is the longest one, and its kind is that of the word.
LEMMA WordIsLongest ==
  ASSUME source \in Seq(STRING), NEW i \in Positions, Char(i) \in Letters,
         NEW q, q = Until(i, DOMAIN source \ Places(Letters \cup Digits)),
         NEW kind, kind = IF Text(i, q) = <<"_">> THEN "underscore" ELSE identifier_type(Text(i, q))
  PROVE  /\ q \in (i + 1)..(Len(source) + 1)
         /\ kind \in KindsOf(Text(i, q)) \/ LooksLikeFn(Text(i, q))
         /\ \A e \in (q + 1)..(Len(source) + 1) : KindsOf(Text(i, e)) = {}
<1> DEFINE C == Letters \cup Digits
<1>1. NUL \notin C /\ Char(i) \in C /\ i \in Nat /\ Len(source) \in Nat
  <2>1. i \in Nat /\ Len(source) \in Nat
    BY ONLY source \in Seq(STRING), i \in Positions DEF Positions
  <2> QED BY ONLY <2>1, CharactersAreApart, Char(i) \in Letters DEF NUL, C
<1>2. /\ q \in i..(Len(source) + 1) /\ q >= i + 1 /\ Char(q) \notin C
      /\ \A k \in i..(q - 1) : k \in 1..Len(source) /\ source[k] \in C
  <2>1. source \in Seq(STRING) /\ i \in Positions /\ q = Until(i, DOMAIN source \ Places(C))
    BY DEF C
  <2> HIDE DEF C
  <2> QED BY ONLY <2>1, <1>1, RunFacts
<1>3. q \in (i + 1)..(Len(source) + 1)
  BY ONLY <1>1, <1>2
<1> HIDE DEF C
<1>4. /\ Range(Text(i, q)) \subseteq C
      /\ \A e \in (q + 1)..(Len(source) + 1) :
           /\ e \in (i + 1)..(Len(source) + 1)
           /\ Char(q) \in Range(Text(i, e))
  <2>1. source \in Seq(STRING) /\ i \in Positions
    OBVIOUS
  <2> QED BY ONLY <2>1, <1>2, <1>3, RunText
<1>5. kind \in KindsOf(Text(i, q)) \/ LooksLikeFn(Text(i, q))
  <2>1. Text(i, q) \in Seq(STRING) /\ Len(Text(i, q)) >= 1 /\ Text(i, q)[1] = Char(i)
    BY <1>3, LongerText
  <2>2. Range(Text(i, q)) \subseteq Letters \cup Digits /\ Text(i, q)[1] \in Letters
    BY <1>4, <2>1 DEF C
  <2> DEFINE t == Text(i, q)
  <2>3. kind = IF t = <<"_">> THEN "underscore" ELSE identifier_type(t)
    OBVIOUS
  <2> HIDE DEF t
  <2> QED BY <2>1, <2>2, <2>3, WordKind DEF t
<1>6. ASSUME NEW e \in (q + 1)..(Len(source) + 1), KindsOf(Text(i, e)) # {} PROVE FALSE
  <2> DEFINE u == Text(i, e)
  <2>1. e \in (i + 1)..(Len(source) + 1) /\ Char(q) \in Range(u)
    BY <1>4
  <2>2. u \in Seq(STRING) /\ Len(u) >= 1 /\ u[1] = Char(i) /\ KindsOf(u) # {}
    BY <2>1, <1>6, LongerText
  <2> HIDE DEF u
  <2>3. ~ (u \in Symbols) /\ u[1] # Quote /\ u[1] \notin Digits
    <3>1. u \in Symbols => u[1] \in Singles
      BY SymbolsByLength
    <3> QED BY <3>1, <2>2, FirstsAreApart
  <2>4. Range(u) \subseteq Letters \cup Digits
    BY ONLY <2>2, <2>3, KindFacts
  <2> QED BY <2>1, <2>4, <1>2 DEF C
<1> QED BY <1>3, <1>5, <1>6

\* Where the digits from i on end.
LEMMA DigitRun ==
  ASSUME source \in Seq(STRING), NEW i \in Positions, Char(i) \in Digits, NEW q, q = NumberEnd(i)
  PROVE  /\ q \in (i + 1)..(Len(source) + 1) /\ Char(q) \notin Digits
         /\ \A k \in i..(q - 1) : k \in 1..Len(source) /\ source[k] \in Digits
<1>1. i \in Nat /\ Len(source) \in Nat
  BY ONLY source \in Seq(STRING), i \in Positions DEF Positions
<1>2. NUL \notin Digits
  BY ONLY CharactersAreApart DEF NUL
<1>3. q = Until(i, DOMAIN source \ Places(Digits))
  BY DEF NumberEnd
<1>4. /\ q \in i..(Len(source) + 1) /\ q >= i + 1 /\ Char(q) \notin Digits
      /\ \A k \in i..(q - 1) : k \in 1..Len(source) /\ source[k] \in Digits
  BY <1>2, <1>3, RunFacts
<1>5. q \in (i + 1)..(Len(source) + 1)
  BY ONLY <1>1, <1>4
<1> QED BY <1>4, <1>5

\* What begins with a digit is of the grammar only as a number.
LEMMA NumberTexts ==
  ASSUME source \in Seq(STRING), NEW i \in Positions, Char(i) \in Digits,
         NEW e \in (i + 1)..(Len(source) + 1), KindsOf(Text(i, e)) # {}
  PROVE  Range(Text(i, e)) \subseteq Digits \/ IsFloat(Text(i, e))
<1> DEFINE u == Text(i, e)
<1>1. u \in Seq(STRING) /\ Len(u) >= 1 /\ u[1] = Char(i) /\ KindsOf(u) # {}
  BY LongerText
<1> HIDE DEF u
<1>2. ~ (u \in Symbols) /\ u[1] # Quote /\ u[1] \notin Letters
  <2>1. u \in Symbols => u[1] \in Singles
    BY SymbolsByLength
  <2> QED BY <2>1, <1>1, FirstsAreApart
<1>3. Range(u) \subseteq Digits \/ IsFloat(u)
  BY ONLY <1>1, <1>2, KindFacts
<1> QED BY <1>3 DEF u

\* Digits without a point behind them are a number, of the kind of its value.
LEMMA IntegerIsLongest ==
  ASSUME source \in Seq(STRING), NEW i \in Positions, Char(i) \in Digits,
         NEW q, q = NumberEnd(i), Char(q) # ".",
         NEW kind, kind = IF Value(Text(i, q)) > INT32_MAX THEN "i64" ELSE "i32"
  PROVE  /\ q \in (i + 1)..(Len(source) + 1)
         /\ kind \in KindsOf(Text(i, q)) /\ kind \in {"i32", "i64"}
         /\ \A e \in (q + 1)..(Len(source) + 1) : KindsOf(Text(i, e)) = {}
<1>1. /\ q \in (i + 1)..(Len(source) + 1) /\ Char(q) \notin Digits
      /\ \A k \in i..(q - 1) : k \in 1..Len(source) /\ source[k] \in Digits
  BY DigitRun
<1>2. /\ Range(Text(i, q)) \subseteq Digits
      /\ \A e \in (q + 1)..(Len(source) + 1) :
           /\ e \in (i + 1)..(Len(source) + 1)
           /\ Char(q) \in Range(Text(i, e)) /\ q - i + 1 \in DOMAIN Text(i, e)
           /\ Text(i, e)[q - i + 1] = Char(q)
  <2>1. source \in Seq(STRING) /\ i \in Positions
    OBVIOUS
  <2> QED BY ONLY <2>1, <1>1, RunText
<1>3. kind \in KindsOf(Text(i, q)) /\ kind \in {"i32", "i64"}
  <2> DEFINE t == Text(i, q)
             v == Value(t) > INT32_MAX
  <2>1. t \in Seq(STRING) /\ Len(t) >= 1
    BY <1>1, LongerText
  <2>2. t # <<>> /\ Range(t) \subseteq Digits
    BY <1>2, <2>1, WholeText, Zenon
  <2>3. kind = IF v THEN "i64" ELSE "i32"
    OBVIOUS
  <2>4. \A k \in {"i32", "i64"} : t # <<>> /\ Range(t) \subseteq Digits /\ (k = "i64" <=> v) => k \in KindsOf(t)
    BY DEF KindsOf, Kinds
  <2> HIDE DEF t, v
  <2>5. kind \in {"i32", "i64"} /\ (kind = "i64" <=> v)
    BY ONLY <2>3
  <2> QED BY ONLY <2>2, <2>4, <2>5 DEF t
<1>4. ASSUME NEW e \in (q + 1)..(Len(source) + 1), KindsOf(Text(i, e)) # {} PROVE FALSE
  <2> DEFINE u == Text(i, e)
             x == q - i + 1
  <2>1. /\ e \in (i + 1)..(Len(source) + 1) /\ Char(q) \in Range(u)
        /\ x \in DOMAIN u /\ u[x] = Char(q)
    BY <1>2
  <2>2. Range(u) \subseteq Digits \/ IsFloat(u)
    BY <2>1, <1>4, NumberTexts
  <2> HIDE DEF u, x
  <2>3. CASE IsFloat(u)
    <3>1. PICK p \in 2..(Len(u) - 1) : u[p] = "." /\ \A k \in DOMAIN u \ {p} : u[k] \in Digits
      BY ONLY <2>3 DEF IsFloat
    <3>2. u[x] \in Digits \/ u[x] = "."
      BY ONLY <3>1, <2>1
    <3>3. Char(q) # "."
      OBVIOUS
    <3> QED BY ONLY <3>2, <3>3, <2>1, <1>1
  <2> QED BY ONLY <2>1, <2>2, <2>3, <1>1
<1> QED BY <1>1, <1>3, <1>4

\* Digits, a point and digits are a number; a second point does not belong to it.
LEMMA FloatIsLongest ==
  ASSUME source \in Seq(STRING), NEW i \in Positions, Char(i) \in Digits,
         NEW p, p = NumberEnd(i), Char(p) = ".", Char(p + 1) \in Digits,
         NEW q, q = NumberEnd(p + 1)
  PROVE  /\ q \in (i + 1)..(Len(source) + 1)
         /\ "f64" \in KindsOf(Text(i, q))
         /\ \A e \in (q + 1)..(Len(source) + 1) : KindsOf(Text(i, e)) = {}
<1>1. /\ p \in (i + 1)..(Len(source) + 1) /\ Char(p) \notin Digits
      /\ \A k \in i..(p - 1) : k \in 1..Len(source) /\ source[k] \in Digits
  BY DigitRun
<1>2. i \in Nat /\ Len(source) \in Nat /\ p \in Nat /\ p >= i + 1 /\ p <= Len(source) + 1
  <2>1. i \in Nat /\ Len(source) \in Nat
    BY ONLY source \in Seq(STRING), i \in Positions DEF Positions
  <2> QED BY ONLY <2>1, <1>1
<1>3. p \in 1..Len(source) /\ p + 1 \in Positions
  <2>1. "." # NUL /\ p \in Nat \ {0}
    BY ONLY <1>2 DEF NUL
  <2> QED BY <2>1, InText
<1>4. /\ q \in (p + 2)..(Len(source) + 1) /\ Char(q) \notin Digits
      /\ \A k \in (p + 1)..(q - 1) : k \in 1..Len(source) /\ source[k] \in Digits
  <2> DEFINE j == p + 1
  <2>1. source \in Seq(STRING) /\ j \in Positions /\ Char(j) \in Digits /\ q = NumberEnd(j) /\ j + 1 = p + 2
    BY <1>2, <1>3
  <2>2. /\ q \in (j + 1)..(Len(source) + 1) /\ Char(q) \notin Digits
        /\ \A k \in j..(q - 1) : k \in 1..Len(source) /\ source[k] \in Digits
    <3> HIDE DEF j
    <3> QED BY ONLY <2>1, DigitRun
  <2> QED BY <2>1, <2>2
<1>5. q \in Nat /\ q >= p + 2 /\ q <= Len(source) + 1 /\ q \in (i + 1)..(Len(source) + 1)
  BY ONLY <1>2, <1>4
<1>6. source[p] = "."
  BY <1>3 DEF Char
<1>7. "f64" \in KindsOf(Text(i, q))
  <2> DEFINE t == Text(i, q)
             x == p - i + 1
  <2>1. /\ t \in Seq(STRING) /\ Len(t) = q - i
        /\ \A k \in i..(q - 1) : t[k - i + 1] = source[k]
    BY <1>5, LongerText
  <2>2. \A y \in DOMAIN t : \E k \in i..(q - 1) : y = k - i + 1 /\ t[y] = source[k]
    BY <1>5, RangeFacts
  <2> HIDE DEF t
  <2>3. x \in 2..(Len(t) - 1) /\ p \in i..(q - 1)
    BY ONLY <2>1, <1>2, <1>5 DEF x
  <2>4. t[x] = "."
    BY <2>1, <2>3, <1>6
  <2>5. ASSUME NEW y \in DOMAIN t \ {x} PROVE t[y] \in Digits
    <3>1. PICK k \in i..(q - 1) : y = k - i + 1 /\ t[y] = source[k]
      BY <2>2
    <3>2. k # p
      BY <3>1
    <3>3. k \in i..(p - 1) \/ k \in (p + 1)..(q - 1)
      BY ONLY <3>2, <1>2, <1>5
    <3> QED BY ONLY <3>1, <3>3, <1>1, <1>4
  <2> HIDE DEF x
  <2> QED BY ONLY <2>3, <2>4, <2>5 DEF KindsOf, Kinds, t
<1>8. ASSUME NEW e \in (q + 1)..(Len(source) + 1), KindsOf(Text(i, e)) # {} PROVE FALSE
  <2> DEFINE u == Text(i, e)
             x == p - i + 1
             y == q - i + 1
  <2>1. e \in (i + 1)..(Len(source) + 1) /\ p \in i..(e - 1) /\ q \in i..(e - 1)
    BY ONLY <1>2, <1>5, <1>8
  <2>2. x \in DOMAIN u /\ u[x] = Char(p) /\ y \in DOMAIN u /\ u[y] = Char(q) /\ Char(p) \in Range(u)
    <3>1. \A k \in i..(e - 1) : /\ k - i + 1 \in DOMAIN u /\ u[k - i + 1] = source[k]
                                /\ Char(k) = source[k]
      BY <2>1, LongerText
    <3>2. \A k \in i..(e - 1) : Char(k) \in Range(u)
      BY <2>1, RangeFacts
    <3> HIDE DEF u
    <3> QED BY ONLY <2>1, <3>1, <3>2
  <2>3. Range(u) \subseteq Digits \/ IsFloat(u)
    BY <2>1, <1>8, NumberTexts
  <2>4. x # y
    BY ONLY <1>2, <1>5
  <2> HIDE DEF u, x, y
  <2>5. CASE IsFloat(u)
    <3>1. PICK z \in 2..(Len(u) - 1) : u[z] = "." /\ \A k \in DOMAIN u \ {z} : u[k] \in Digits
      BY ONLY <2>5 DEF IsFloat
    <3>2. u[x] \in Digits \/ u[y] \in Digits
      BY ONLY <3>1, <2>2, <2>4
    <3> QED BY ONLY <3>2, <2>2, <1>1, <1>4
  <2> QED BY ONLY <2>2, <2>3, <2>5, <1>1
<1> QED BY <1>5, <1>7, <1>8

\* The end of the text is no quote.
LEMMA QuoteIsNotNul == Quote # NUL
BY DEF Quote, NUL

\* What begins with a quote is of the grammar only as a string.
LEMMA StringTexts ==
  ASSUME source \in Seq(STRING), NEW i \in Positions, Char(i) = Quote,
         NEW e \in (i + 1)..(Len(source) + 1), KindsOf(Text(i, e)) # {}
  PROVE  e - i > 1 /\ Quotes(Text(i, e)) = {1, e - i}
<1> DEFINE u == Text(i, e)
<1>1. u \in Seq(STRING) /\ Len(u) >= 1 /\ Len(u) = e - i /\ u[1] = Quote /\ KindsOf(u) # {}
  BY LongerText
<1> HIDE DEF u
<1>2. ~ (u \in Symbols) /\ u[1] \notin Letters /\ u[1] \notin Digits
  <2>1. u \in Symbols => u[1] \in Singles
    BY SymbolsByLength
  <2> QED BY <2>1, <1>1, FirstsAreApart
<1>3. Len(u) > 1 /\ Quotes(u) = {1, Len(u)}
  BY ONLY <1>1, <1>2, KindFacts
<1> QED BY <1>1, <1>3 DEF u

\* The quotes of a piece of the text are those of its places.
LEMMA QuoteFacts ==
  ASSUME source \in Seq(STRING), NEW i \in Positions, NEW e \in (i + 1)..(Len(source) + 1)
  PROVE  \A x : x \in Quotes(Text(i, e)) <=>
                  \E p \in i..(e - 1) : x = p - i + 1 /\ Char(p) = Quote
<1> DEFINE t == Text(i, e)
<1>1. \A p \in i..(e - 1) : p - i + 1 \in DOMAIN t /\ t[p - i + 1] = source[p] /\ Char(p) = source[p]
  BY LongerText
<1>2. \A x \in DOMAIN t : \E p \in i..(e - 1) : x = p - i + 1 /\ t[x] = source[p]
  BY RangeFacts
<1> HIDE DEF t
<1>3. \A x : x \in Quotes(t) <=> x \in DOMAIN t /\ t[x] = Quote
  BY ONLY TRUE DEF Quotes
<1>4. ASSUME NEW x, x \in Quotes(t) PROVE \E p \in i..(e - 1) : x = p - i + 1 /\ Char(p) = Quote
  BY ONLY <1>1, <1>2, <1>3, <1>4
<1>5. ASSUME NEW x, NEW p \in i..(e - 1), x = p - i + 1, Char(p) = Quote PROVE x \in Quotes(t)
  BY ONLY <1>1, <1>3, <1>5
<1> QED BY <1>4, <1>5 DEF t

\* Where a string ends: at the first quote, or where the source ends.
LEMMA QuoteEnd ==
  ASSUME source \in Seq(STRING), NEW i \in Positions, Char(i) = Quote,
         NEW q, q = Until(i + 1, Places({Quote}))
  PROVE  /\ i \in Nat /\ Len(source) \in Nat /\ q \in (i + 1)..(Len(source) + 1)
         /\ (Char(q) = Quote /\ q <= Len(source)) \/ (Char(q) = NUL /\ q = Len(source) + 1)
         /\ \A k \in (i + 1)..(q - 1) : Char(k) # Quote
<1>1. i \in Nat /\ i >= 1 /\ Len(source) \in Nat /\ DOMAIN source = 1..Len(source)
  BY ONLY source \in Seq(STRING), i \in Positions DEF Positions
<1>2. i + 1 \in Positions
  <2>1. Quote # NUL /\ i \in Nat \ {0}
    BY ONLY <1>1, QuoteIsNotNul
  <2> QED BY <2>1, InText
<1>3. Places({Quote}) \subseteq DOMAIN source
  BY ONLY TRUE DEF Places
<1>4. /\ q \in (i + 1)..(Len(source) + 1) /\ q \in Places({Quote}) \cup {Len(source) + 1}
      /\ \A k \in (i + 1)..(q - 1) : k \notin Places({Quote})
  BY <1>2, <1>3, UntilFacts
<1>5. (Char(q) = Quote /\ q <= Len(source)) \/ (Char(q) = NUL /\ q = Len(source) + 1)
  <2>1. CASE q \in Places({Quote})
    <3>1. q \in 1..Len(source) /\ source[q] = Quote
      BY ONLY <1>1, <2>1 DEF Places
    <3>2. q <= Len(source)
      BY ONLY <3>1, <1>1
    <3>3. Char(q) = source[q]
      BY ONLY <3>2 DEF Char
    <3> QED BY ONLY <3>1, <3>2, <3>3
  <2>2. CASE q = Len(source) + 1
    <3>1. ~ (q <= Len(source))
      BY ONLY <2>2, <1>1
    <3> QED BY ONLY <2>2, <3>1 DEF Char
  <2> QED BY ONLY <1>4, <2>1, <2>2
<1>6. ASSUME NEW k \in (i + 1)..(q - 1) PROVE Char(k) # Quote
  <2>1. k \in 1..Len(source) /\ k \notin Places({Quote})
    <3>1. k \notin Places({Quote})
      BY ONLY <1>4, <1>6
    <3>2. q \in (i + 1)..(Len(source) + 1)
      BY ONLY <1>4
    <3> QED BY ONLY <1>1, <1>6, <3>1, <3>2
  <2> QED BY ONLY <2>1, <1>1 DEF Places, Char
<1> QED BY <1>1, <1>4, <1>5, <1>6

\* From its opening quote to the next one a string is the only text of the grammar.
LEMMA StringIsLongest ==
  ASSUME source \in Seq(STRING), NEW i \in Positions, Char(i) = Quote,
         NEW q, q = Until(i + 1, Places({Quote})), Char(q) # NUL
  PROVE  /\ q + 1 \in (i + 1)..(Len(source) + 1)
         /\ "string" \in KindsOf(Text(i, q + 1))
         /\ \A e \in (q + 2)..(Len(source) + 1) : KindsOf(Text(i, e)) = {}
<1>1. /\ i \in Nat /\ Len(source) \in Nat /\ q \in (i + 1)..(Len(source) + 1)
      /\ Char(q) = Quote /\ q <= Len(source)
      /\ \A k \in (i + 1)..(q - 1) : Char(k) # Quote
  BY QuoteEnd
<1>2. q \in Nat /\ q > i /\ q + 1 \in (i + 1)..(Len(source) + 1)
  BY ONLY <1>1
<1>3. "string" \in KindsOf(Text(i, q + 1))
  <2> DEFINE e == q + 1
             t == Text(i, e)
  <2>1. e \in (i + 1)..(Len(source) + 1)
    BY <1>2
  <2>2. t \in Seq(STRING) /\ Len(t) = e - i
    <3> HIDE DEF e
    <3> QED BY <2>1, LongerText
  <2>3. \A x : x \in Quotes(t) <=> \E p \in i..(e - 1) : x = p - i + 1 /\ Char(p) = Quote
    <3> HIDE DEF e
    <3> QED BY <2>1, QuoteFacts
  <2> HIDE DEF t
  <2>4. \A p \in i..(e - 1) : Char(p) = Quote <=> p \in {i, q}
    <3> SUFFICES ASSUME NEW p \in i..(e - 1) PROVE Char(p) = Quote <=> p \in {i, q}
      OBVIOUS
    <3>1. Char(i) = Quote
      OBVIOUS
    <3>2. p = i \/ p = q \/ p \in (i + 1)..(q - 1)
      BY ONLY <1>1, <1>2
    <3> QED BY ONLY <3>1, <3>2, <1>1, <1>2
  <2>5. Len(t) > 1 /\ Len(t) = q - i + 1 /\ i - i + 1 = 1 /\ i \in i..(e - 1) /\ q \in i..(e - 1)
    BY ONLY <1>1, <1>2, <2>2
  <2>6. Quotes(t) = {1, Len(t)}
    BY ONLY <2>3, <2>4, <2>5
  <2>7. {k \in DOMAIN t : t[k] = "\""} = {1, Len(t)}
    BY ONLY <2>6, Zenon DEF Quotes, Quote
  <2> QED BY ONLY <2>5, <2>7 DEF KindsOf, Kinds, t
<1>4. ASSUME NEW e \in (q + 2)..(Len(source) + 1), KindsOf(Text(i, e)) # {} PROVE FALSE
  <2>1. e \in (i + 1)..(Len(source) + 1) /\ q \in i..(e - 1) /\ q - i + 1 # 1 /\ q - i + 1 # e - i
    BY ONLY <1>1, <1>2, <1>4
  <2>2. Quotes(Text(i, e)) = {1, e - i}
    BY <2>1, <1>4, StringTexts
  <2>3. q - i + 1 \in Quotes(Text(i, e))
    BY <2>1, <1>1, QuoteFacts
  <2> QED BY ONLY <2>1, <2>2, <2>3
<1> QED BY <1>2, <1>3, <1>4

\* A string that is not closed is no text of the grammar, nor is a part of it.
LEMMA OpenString ==
  ASSUME source \in Seq(STRING), NEW i \in Positions, Char(i) = Quote,
         NEW q, q = Until(i + 1, Places({Quote})), Char(q) = NUL
  PROVE  /\ q \in (i + 1)..(Len(source) + 1)
         /\ \A e \in {q} \cup (q + 1)..(Len(source) + 1) : KindsOf(Text(i, e)) = {}
<1>1. /\ i \in Nat /\ Len(source) \in Nat /\ q \in (i + 1)..(Len(source) + 1)
      /\ q = Len(source) + 1
      /\ \A k \in (i + 1)..(q - 1) : Char(k) # Quote
  <2>1. Quote # NUL
    BY ONLY QuoteIsNotNul
  <2> QED BY <2>1, QuoteEnd
<1>2. \A e \in {q} \cup (q + 1)..(Len(source) + 1) : e = q
  BY ONLY <1>1
<1>3. ASSUME KindsOf(Text(i, q)) # {} PROVE FALSE
  <2>1. q - i > 1 /\ Quotes(Text(i, q)) = {1, q - i}
    BY <1>1, <1>3, StringTexts
  <2>2. PICK p \in i..(q - 1) : q - i = p - i + 1 /\ Char(p) = Quote
    <3>1. q - i \in Quotes(Text(i, q))
      BY ONLY <2>1
    <3>2. source \in Seq(STRING) /\ i \in Positions
      OBVIOUS
    <3> QED BY ONLY <3>1, <3>2, <1>1, QuoteFacts
  <2>3. p \in (i + 1)..(q - 1)
    BY ONLY <2>1, <2>2, <1>1
  <2> QED BY ONLY <2>2, <2>3, <1>1
<1> QED BY <1>1, <1>2, <1>3

\* A character that begins nothing is no beginning of a text of the grammar.
LEMMA UnexpectedCharacter ==
  ASSUME source \in Seq(STRING), NEW i \in Positions,
         Char(i) \notin Singles \cup Letters \cup Digits \cup {Quote, NUL}
  PROVE  /\ i + 1 \in (i + 1)..(Len(source) + 1)
         /\ \A e \in (i + 1)..(Len(source) + 1) : KindsOf(Text(i, e)) = {}
<1>1. i \in Nat /\ i >= 1 /\ Len(source) \in Nat
  BY ONLY source \in Seq(STRING), i \in Positions DEF Positions
<1>2. i \in 1..Len(source)
  <2>1. i \in Nat \ {0} /\ Char(i) # NUL
    BY <1>1
  <2> QED BY <2>1, InText
<1>3. ASSUME NEW e \in (i + 1)..(Len(source) + 1), KindsOf(Text(i, e)) # {} PROVE FALSE
  <2> DEFINE u == Text(i, e)
  <2>1. u \in Seq(STRING) /\ Len(u) >= 1 /\ u[1] = Char(i) /\ KindsOf(u) # {}
    BY <1>3, LongerText
  <2> HIDE DEF u
  <2>2. u \in Symbols => u[1] \in Singles
    BY SymbolsByLength
  <2> QED BY <2>1, <2>2, KindFacts
<1> QED BY ONLY <1>1, <1>2, <1>3

-----------------------------------------------------------------------------
(* Every token of the list is the longest at its place.                    *)

\* The text from i to j is the longest of the grammar, and this its kind.
KindIsLongest(kind, i, j) ==
  LET Beyond == (j + 1)..(Len(source) + 1)
  IN  /\ kind \notin {"eof", "error"} =>
           /\ kind \in KindsOf(Text(i, j)) \/ LooksLikeFn(Text(i, j))
           /\ \A e \in Beyond : KindsOf(Text(i, e)) = {}
      /\ kind = "error" => \A e \in {j} \cup Beyond : KindsOf(Text(i, e)) = {}
      /\ kind = "eof" => Text(i, j) = <<>> /\ Char(i) = NUL

AllLongest == \A k \in DOMAIN tokens : IsLongest(tokens[k], spans[k][1], spans[k][2])

\* Whether a token is the longest depends on the source alone.
LEMMA SameLongest ==
  ASSUME UNCHANGED source
  PROVE  AllLongest' <=> \A k \in DOMAIN tokens' : IsLongest(tokens'[k], spans'[k][1], spans'[k][2])
BY DEF AllLongest, IsLongest, Text, Char

\* What is appended is the last element, whatever it is.
LEMMA AppendAny ==
  ASSUME NEW S, NEW s \in Seq(S), NEW x
  PROVE  /\ Len(s) \in Nat /\ DOMAIN s = 1..Len(s)
         /\ DOMAIN Append(s, x) = 1..(Len(s) + 1) /\ Append(s, x)[Len(s) + 1] = x
         /\ \A k \in 1..Len(s) : Append(s, x)[k] = s[k]
<1> DEFINE T == S \cup {x}
<1>1. s \in Seq(T) /\ x \in T
  OBVIOUS
<1> HIDE DEF T
<1> QED BY <1>1, AppendFacts

\* A token that is the longest joins a list of such.
LEMMA LongestAppended ==
  ASSUME Listed, AllLongest, UNCHANGED source, NEW token, NEW i, NEW j,
         tokens' = Append(tokens, token), spans' = Append(spans, <<i, j>>), IsLongest(token, i, j)
  PROVE  AllLongest'
<1>1. tokens \in Seq(TokenRecords) /\ spans \in Seq(Positions \X Positions)
  BY DEF Listed
<1> DEFINE n == Len(tokens)
<1>2. /\ n \in Nat /\ DOMAIN tokens = 1..n /\ DOMAIN tokens' = 1..(n + 1)
      /\ tokens'[n + 1] = token /\ \A k \in 1..n : tokens'[k] = tokens[k]
  BY <1>1, AppendAny
<1>3. spans'[n + 1] = <<i, j>> /\ \A k \in 1..n : spans'[k] = spans[k]
  <2>1. Len(spans) = n
    BY DEF Listed
  <2> QED BY <2>1, <1>1, AppendAny
<1> HIDE DEF n
<1>4. ASSUME NEW k \in DOMAIN tokens' PROVE IsLongest(tokens'[k], spans'[k][1], spans'[k][2])
  <2>1. k \in 1..n \/ k = n + 1
    BY ONLY <1>2, <1>4
  <2>2. CASE k \in 1..n
    BY <2>2, <1>2, <1>3 DEF AllLongest
  <2>3. CASE k = n + 1
    <3>1. <<i, j>>[1] = i /\ <<i, j>>[2] = j
      OBVIOUS
    <3> QED BY <2>3, <3>1, <1>2, <1>3
  <2> QED BY <2>1, <2>2, <2>3
<1> QED BY <1>4, SameLongest

\* list_add_token adds a token of this kind, and its text.
LEMMA LongestAdded ==
  ASSUME Placed, Listed, AllLongest, UNCHANGED source,
         NEW kind, NEW next \in Nat,
         list_add_token(kind, next), KindIsLongest(kind, current, next)
  PROVE  AllLongest'
<1> DEFINE token == IF kind = "error" THEN Token(kind, 0, 0, line')
                    ELSE Token(kind, current, next - current, line')
<1>1. current \in Nat /\ tokens' = Append(tokens, token) /\ spans' = Append(spans, <<current, next>>)
  BY DEF list_add_token, Placed, Positions
<1>2. current + (next - current) = next
  BY ONLY <1>1, next \in Nat
<1>3. token.kind = kind
  BY DEF Token
<1>4. kind # "error" => token.from = current /\ token.length = next - current
  BY DEF Token
<1> HIDE DEF token
<1>5. kind \notin {"eof", "error"} => Text(current, next) = Text(token.from, token.from + token.length)
  BY ONLY <1>2, <1>4
<1>6. IsLongest(token, current, next)
  BY ONLY <1>3, <1>5, KindIsLongest(kind, current, next), Zenon DEF IsLongest, KindIsLongest
<1> QED BY <1>1, <1>6, LongestAppended

\* The end of the source, as a text.
LEMMA EndIsLongest ==
  ASSUME Placed, is_at_end
  PROVE  Text(current, current) = <<>> /\ Char(current) = NUL
<1>1. current \in Int /\ current - 1 \in Int /\ current - 1 < current
  BY DEF Placed, Positions
<1> QED BY <1>1, SubSeqEmpty DEF Text, is_at_end

\* Every branch of scan_token makes the longest token.
LEMMA TokenIsLongest ==
  ASSUME Placed, Listed, AllLongest, scan_token
  PROVE  AllLongest'
<1>1. source \in Seq(STRING) /\ current \in Positions /\ UNCHANGED source
  BY SourcesAreText DEF Placed, scan_token
<1>2. Len(source) \in Nat /\ current \in Nat
  BY ONLY <1>1 DEF Positions
<1>3. ASSUME NEW kind, NEW next \in Nat, list_add_token(kind, next), KindIsLongest(kind, current, next)
      PROVE  AllLongest'
  BY <1>1, <1>3, LongestAdded
<1>4. CASE scan_end
  <2>1. is_at_end /\ list_add_token("eof", current)
    BY <1>4 DEF scan_end
  <2>2. KindIsLongest("eof", current, current)
    BY <2>1, EndIsLongest DEF KindIsLongest
  <2> QED BY <2>1, <2>2, <1>2, <1>3
<1>5. CASE scan_identifier
  <2> DEFINE next == Until(current, DOMAIN source \ Places(Letters \cup Digits))
             word == SubSeq(source, current, next - 1)
             kind == IF word = <<"_">> THEN "underscore" ELSE identifier_type(word)
  <2>1. Char(current) \in Letters /\ list_add_token(kind, next)
    BY <1>5 DEF scan_identifier, is_alpha
  <2>2. kind = IF Text(current, next) = <<"_">> THEN "underscore" ELSE identifier_type(Text(current, next))
    BY DEF Text
  <2>3. next = Until(current, DOMAIN source \ Places(Letters \cup Digits))
    OBVIOUS
  <2>4. kind \notin {"eof", "error"}
    BY DEF identifier_type
  <2> HIDE DEF next, kind
  <2>5. /\ next \in (current + 1)..(Len(source) + 1)
        /\ kind \in KindsOf(Text(current, next)) \/ LooksLikeFn(Text(current, next))
        /\ \A e \in (next + 1)..(Len(source) + 1) : KindsOf(Text(current, e)) = {}
    BY ONLY <1>1, <2>1, <2>2, <2>3, WordIsLongest
  <2>6. next \in Nat
    BY ONLY <2>5, <1>2
  <2>7. KindIsLongest(kind, current, next)
    BY ONLY <2>4, <2>5, Zenon DEF KindIsLongest
  <2> QED BY <2>1, <2>6, <2>7, <1>3
<1>6. CASE scan_number
  <2> DEFINE point == NumberEnd(current)
  <2>1. /\ Char(current) \in Digits
        /\ \/ Char(point) # "." /\ list_add_token(check_number(point), point)
           \/ /\ Char(point) = "." /\ Char(point + 1) \in Digits
              /\ list_add_token("f64", NumberEnd(point + 1))
           \/ UNCHANGED <<tokens, spans>>
    BY <1>6 DEF scan_number, is_digit
  <2>2. CASE Char(point) # "." /\ list_add_token(check_number(point), point)
    <3> DEFINE kind == check_number(point)
    <3>1. point = NumberEnd(current) /\ kind = IF Value(Text(current, point)) > INT32_MAX THEN "i64" ELSE "i32"
      BY DEF check_number, Text
    <3>2. list_add_token(kind, point) /\ Char(point) # "."
      BY <2>2
    <3> HIDE DEF point, kind
    <3>3. /\ point \in (current + 1)..(Len(source) + 1)
          /\ kind \in KindsOf(Text(current, point)) /\ kind \in {"i32", "i64"}
          /\ \A e \in (point + 1)..(Len(source) + 1) : KindsOf(Text(current, e)) = {}
      BY ONLY <1>1, <2>1, <3>1, <3>2, IntegerIsLongest
    <3>4. point \in Nat
      BY ONLY <3>3, <1>2
    <3>5. KindIsLongest(kind, current, point)
      <4>1. kind \notin {"eof", "error"}
        BY ONLY <3>3
      <4> QED BY ONLY <4>1, <3>3, Zenon DEF KindIsLongest
    <3> QED BY <3>2, <3>4, <3>5, <1>3
  <2>3. CASE /\ Char(point) = "." /\ Char(point + 1) \in Digits
             /\ list_add_token("f64", NumberEnd(point + 1))
    <3> DEFINE next == NumberEnd(point + 1)
    <3>1. point = NumberEnd(current) /\ next = NumberEnd(point + 1)
      OBVIOUS
    <3>2. list_add_token("f64", next) /\ Char(point) = "." /\ Char(point + 1) \in Digits
      BY <2>3
    <3> HIDE DEF point, next
    <3>3. /\ next \in (current + 1)..(Len(source) + 1)
          /\ "f64" \in KindsOf(Text(current, next))
          /\ \A e \in (next + 1)..(Len(source) + 1) : KindsOf(Text(current, e)) = {}
      BY ONLY <1>1, <2>1, <3>1, <3>2, FloatIsLongest
    <3>4. next \in Nat
      BY ONLY <3>3, <1>2
    <3>5. KindIsLongest("f64", current, next)
      BY ONLY <3>3 DEF KindIsLongest
    <3> QED BY <3>2, <3>4, <3>5, <1>3
  <2>4. CASE UNCHANGED <<tokens, spans>>
    BY <2>4, <1>1, SameLongest DEF AllLongest
  <2> QED BY <2>1, <2>2, <2>3, <2>4
<1>7. CASE scan_symbol
  <2>1. Char(current) \in Singles /\ list_add_token("symbol", SymbolEnd)
    BY <1>7 DEF scan_symbol
  <2>2. /\ SymbolEnd \in (current + 1)..(Len(source) + 1)
        /\ "symbol" \in KindsOf(Text(current, SymbolEnd))
        /\ \A e \in (SymbolEnd + 1)..(Len(source) + 1) : KindsOf(Text(current, e)) = {}
    BY ONLY <1>1, <2>1, SymbolIsLongest
  <2>3. SymbolEnd \in Nat
    BY ONLY <2>2, <1>2
  <2>4. KindIsLongest("symbol", current, SymbolEnd)
    BY ONLY <2>2 DEF KindIsLongest
  <2> QED BY <2>1, <2>3, <2>4, <1>3
<1>8. CASE scan_string
  <2> DEFINE q == StringEnd
  <2>1. /\ Char(current) = Quote /\ q = Until(current + 1, Places({Quote}))
        /\ IF Char(q) = NUL THEN list_add_token("error", q) ELSE list_add_token("string", q + 1)
    BY <1>8, Zenon DEF scan_string, StringEnd, Quote
  <2> HIDE DEF q
  <2>2. CASE Char(q) = NUL
    <3>1. /\ q \in (current + 1)..(Len(source) + 1)
          /\ \A e \in {q} \cup (q + 1)..(Len(source) + 1) : KindsOf(Text(current, e)) = {}
      BY ONLY <1>1, <2>1, <2>2, OpenString
    <3>2. q \in Nat
      BY ONLY <3>1, <1>2
    <3>3. KindIsLongest("error", current, q)
      BY ONLY <3>1 DEF KindIsLongest
    <3> QED BY <2>1, <2>2, <3>2, <3>3, <1>3
  <2>3. CASE Char(q) # NUL
    <3> DEFINE next == q + 1
    <3>1. /\ q + 1 \in (current + 1)..(Len(source) + 1)
          /\ "string" \in KindsOf(Text(current, q + 1))
          /\ \A e \in (q + 2)..(Len(source) + 1) : KindsOf(Text(current, e)) = {}
      BY ONLY <1>1, <2>1, <2>3, StringIsLongest
    <3>2. q \in Nat /\ Char(q) # NUL
      <4>1. q \in (current + 1)..(Len(source) + 1)
        BY ONLY <1>1, <2>1, QuoteEnd
      <4> QED BY ONLY <4>1, <1>2, <2>3
    <3>3. next \in Nat /\ next + 1 = q + 2
      BY ONLY <3>2
    <3>4. /\ "string" \in KindsOf(Text(current, next))
          /\ \A e \in (next + 1)..(Len(source) + 1) : KindsOf(Text(current, e)) = {}
      BY ONLY <3>1, <3>3
    <3>5. list_add_token("string", next)
      BY <2>1, <2>3
    <3> HIDE DEF next
    <3>6. KindIsLongest("string", current, next)
      BY ONLY <3>4 DEF KindIsLongest
    <3> QED BY <3>3, <3>5, <3>6, <1>3
  <2> QED BY <2>2, <2>3
<1>9. CASE scan_unexpected
  <2> DEFINE next == current + 1
  <2>1. /\ Char(current) \notin Singles \cup Letters \cup Digits \cup {Quote, NUL}
        /\ list_add_token("error", next)
    BY <1>9, Zenon DEF scan_unexpected, Quote
  <2>2. /\ next \in (current + 1)..(Len(source) + 1)
        /\ \A e \in (current + 1)..(Len(source) + 1) : KindsOf(Text(current, e)) = {}
    BY ONLY <1>1, <2>1, UnexpectedCharacter
  <2>3. next \in Nat
    BY ONLY <1>2
  <2>4. \A e \in {next} \cup (next + 1)..(Len(source) + 1) : e \in (current + 1)..(Len(source) + 1)
    BY ONLY <2>2, <1>2
  <2> HIDE DEF next
  <2>5. KindIsLongest("error", current, next)
    BY ONLY <2>2, <2>4 DEF KindIsLongest
  <2> QED BY <2>1, <2>3, <2>5, <1>3
<1> QED BY <1>4, <1>5, <1>6, <1>7, <1>8, <1>9 DEF scan_token

\* No step of the scanner lists a token that is not the longest.
LEMMA LongestStep ==
  ASSUME Inv, AllLongest, [Next]_vars
  PROVE  AllLongest'
<1>1. Placed /\ Listed
  BY DEF Inv
<1>2. ASSUME UNCHANGED <<source, tokens, spans>> PROVE AllLongest'
  BY <1>2, SameLongest DEF AllLongest
<1>3. CASE scan_tokens
  <2>1. CASE is_at_end /\ tokens' = Append(tokens, Token("eof", 0, 0, line))
             /\ spans' = Append(spans, <<current, current>>)
    <3> DEFINE token == Token("eof", 0, 0, line)
    <3>1. token.kind = "eof"
      BY DEF Token
    <3>2. tokens' = Append(tokens, token) /\ UNCHANGED source
      BY <1>3, <2>1 DEF scan_tokens
    <3> HIDE DEF token
    <3>3. IsLongest(token, current, current)
      BY <3>1, <2>1, <1>1, EndIsLongest DEF IsLongest
    <3> QED BY <3>2, <3>3, <2>1, <1>1, LongestAppended
  <2> QED BY <2>1, <1>2, <1>3 DEF scan_tokens
<1>4. CASE skip_with_espace
  BY <1>2, <1>4 DEF skip_with_espace
<1>5. CASE scan_token
  BY <1>1, <1>5, TokenIsLongest
<1>6. CASE Stopped \/ UNCHANGED vars
  BY <1>2, <1>6 DEF Stopped, vars
<1> QED BY <1>3, <1>4, <1>5, <1>6 DEF Next

-----------------------------------------------------------------------------
(* The theorems.                                                           *)

\* For every source, in every state of the scanner: its place, the line it has
\* counted, the list and the gaps between the tokens are as the invariant says.
THEOREM ScannerInvariant == Spec => []Inv
<1> QED BY InitInv, InvStep, PTL DEF Spec

\* The scanner never leaves the text, and its list is at most two tokens longer.
THEOREM TextIsNotLeft == Spec => []TypeOK
<1> QED BY ScannerInvariant, InvTypes, PTL

\* Every token of every source is on the line its text ends on.
THEOREM LinesAreCounted == Spec => []LinesAreRight
<1>1. Inv => LinesAreRight
  BY DEF Inv
<1> QED BY <1>1, ScannerInvariant, PTL

\* Nothing of any source is lost or read twice, and a finished list is complete.
THEOREM NothingIsLost == Spec => []GapsAreBlanks
<1>1. Inv => GapsAreBlanks
  <2> SUFFICES ASSUME Inv PROVE GapsAreBlanks
    OBVIOUS
  <2>1. \A k \in DOMAIN spans : k \in Nat \ {0}
    BY DEF Inv, Listed
  <2>2. ASSUME NEW k \in DOMAIN spans
        PROVE  End(spans, k - 1) = IF k = 1 THEN 1 ELSE spans[k - 1][2]
    BY <2>1 DEF End
  <2> QED BY <2>2 DEF Inv, Gaps, GapsAreBlanks
<1> QED BY <1>1, ScannerInvariant, PTL

\* Every token of every source is the longest text of the grammar at its place,
\* of the kind the grammar gives it, and an error stands where it has none.
THEOREM TokensAreLongest == Spec => []LongestMatch
<1>1. Init => AllLongest
  BY DEF Init, AllLongest
<1>2. AllLongest => LongestMatch
  BY DEF AllLongest, LongestMatch
<1>3. Inv /\ AllLongest /\ [Next]_vars => AllLongest'
  BY LongestStep
<1> QED BY <1>1, <1>2, <1>3, ScannerInvariant, PTL DEF Spec
=============================================================================

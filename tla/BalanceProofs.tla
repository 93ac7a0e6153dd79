---------------------------- MODULE BalanceProofs ----------------------------
(***************************************************************************)
(* For any text in the forms whose code is balanced: every statement       *)
(* leaves the stack as it found it, and every access to a local finds its  *)
(* variable.                                                               *)
(***************************************************************************)
EXTENDS StackMachineProofs

-----------------------------------------------------------------------------
(* What the stack holds.                                                   *)

\* The lowest h cells of a stack.
Bottom(s, h) == [k \in 1..h |-> s[k]]

\* How many cells an instruction takes from the stack, if it falls through and if
\* it jumps.
Takes(op) ==
  IF op \in {"pop", "define_global", "jump_if_neq"} THEN 1
  ELSE IF op = "enum_member_match" THEN 2 ELSE 0

\* The stack after the instruction i, where it jumps to and where it falls through.
Carries(i, s) == Bottom(s, Len(s) - Takes(i.op))
Leaves(i, s) == IF i.op \in {"push", "get_local"} THEN Append(s, i.def) ELSE Carries(i, s)

\* Control never falls through these.
Stops == {"jump", "break", "loop", "continue", "return"}

\* The instruction i neither panics nor finds another variable than it has to, when
\* the stack is s.
Ready(i, s) ==
  /\ i.op # "enum_member_bind"
  /\ i.op \in {"push", "get_local"} => Len(s) < StackMax
  /\ i.op \in {"pop", "define_global", "return"} => Len(s) >= 1
  /\ i.op \in {"get_local", "set_local"} => i.arg \in DOMAIN s /\ s[i.arg] = i.var
  /\ i.op = "jump_if_neq" => Len(s) >= 2 /\ s[Len(s) - 1] = i.var
  /\ i.op = "enum_member_match" => Len(s) >= 3 /\ s[Len(s) - 2] = i.var /\ i.def = 0

IsStack(s) == s \in Seq(Nat) /\ Len(s) <= StackMax

\* d is what the stack holds at each instruction of c, whichever way control came,
\* and where the next one will be; the jumps of `open` are not patched yet.
Flows(c, d, open) ==
  /\ d \in Seq(Seq(Nat)) /\ Len(d) = Len(c) + 1
  /\ \A k \in DOMAIN d : IsStack(d[k])
  /\ \A k \in DOMAIN c :
       /\ Ready(c[k], d[k])
       /\ c[k].op \notin Stops => d[k + 1] = Leaves(c[k], d[k])
       /\ c[k].op \in Forward =>
            k \in open \/ (k + c[k].arg <= Len(c) /\ d[k + 1 + c[k].arg] = Carries(c[k], d[k]))
       /\ c[k].op \in Backward => d[k + 1 - c[k].arg] = d[k]

\* The code c is complete but for the jumps of `open`, and s is the stack after it.
Coded(c, d, open, s) == Sound(c) /\ Flows(c, d, open) /\ d[Len(c) + 1] = s

\* The jump at j carries the stack `to` to wherever it will go.
Jumps(c, d, j, to) == j \in DOMAIN c /\ c[j].op \in Forward /\ Carries(c[j], d[j]) = to

\* The code c2 continues c, and d2 says of it what d says of c.
Keeps(c, d, c2, d2) ==
  /\ Len(c) <= Len(c2) /\ Len(d) <= Len(d2)
  /\ \A k \in DOMAIN c : c2[k].op = c[k].op /\ c2[k].var = c[k].var /\ c2[k].def = c[k].def
  /\ \A k \in DOMAIN d : d2[k] = d[k]

\* The lowest cells are a stack.
LEMMA BottomType ==
  ASSUME NEW s \in Seq(Nat), NEW h \in 0..Len(s)
  PROVE  /\ Bottom(s, h) \in Seq(Nat) /\ Len(Bottom(s, h)) = h
         /\ \A k \in 1..h : Bottom(s, h)[k] = s[k]
<1>1. h \in Nat /\ 1..h \subseteq 1..Len(s) /\ DOMAIN s = 1..Len(s)
  OBVIOUS
<1>2. Bottom(s, h) \in [1..h -> Nat]
  BY <1>1 DEF Bottom
<1> QED BY <1>1, <1>2 DEF Bottom

\* Two stacks with the same cells are the same.
LEMMA SameStack ==
  ASSUME NEW s \in Seq(Nat), NEW t \in Seq(Nat), Len(s) = Len(t), \A k \in 1..Len(s) : s[k] = t[k]
  PROVE  s = t
BY SeqEqual

\* All cells are the whole stack.
LEMMA BottomAll ==
  ASSUME NEW s \in Seq(Nat)
  PROVE  Bottom(s, Len(s)) = s
<1>1. Len(s) \in 0..Len(s)
  OBVIOUS
<1> QED BY <1>1, BottomType, SameStack

\* The lowest cells of stacks that agree there.
LEMMA BottomSame ==
  ASSUME NEW s, NEW t, NEW h, \A k \in 1..h : s[k] = t[k]
  PROVE  Bottom(s, h) = Bottom(t, h)
BY DEF Bottom

\* The lowest of the lowest.
LEMMA BottomBottom ==
  ASSUME NEW s, NEW h \in Nat, NEW g \in 0..h
  PROVE  Bottom(Bottom(s, h), g) = Bottom(s, g)
BY DEF Bottom

\* A push keeps the cells below.
LEMMA PushFacts ==
  ASSUME NEW s \in Seq(Nat), NEW v \in Nat
  PROVE  /\ Append(s, v) \in Seq(Nat) /\ Len(Append(s, v)) = Len(s) + 1
         /\ Append(s, v)[Len(s) + 1] = v
         /\ \A k \in 1..Len(s) : Append(s, v)[k] = s[k]
         /\ \A h \in 0..Len(s) : Bottom(Append(s, v), h) = Bottom(s, h)
         /\ Bottom(Append(s, v), Len(s)) = s
<1> DEFINE t == Append(s, v)
<1>1. t \in Seq(Nat) /\ Len(t) = Len(s) + 1 /\ t[Len(s) + 1] = v /\ \A k \in 1..Len(s) : t[k] = s[k]
  OBVIOUS
<1> HIDE DEF t
<1>2. \A h \in 0..Len(s) : \A k \in 1..h : t[k] = s[k]
  BY <1>1
<1>3. \A h \in 0..Len(s) : Bottom(t, h) = Bottom(s, h)
  BY <1>2, BottomSame
<1>4. Bottom(t, Len(s)) = s
  BY <1>3, BottomAll
<1> QED BY <1>1, <1>3, <1>4 DEF t

\* Code keeps itself, and what keeps what keeps it.
LEMMA KeepsItself ==
  ASSUME NEW c \in Seq(Instructions), NEW d \in Seq(Seq(Nat))
  PROVE  Keeps(c, d, c, d)
BY DEF Keeps

\* Code keeps what is kept by code it keeps.
LEMMA KeepsOn ==
  ASSUME NEW c \in Seq(Instructions), NEW d \in Seq(Seq(Nat)),
         NEW c1 \in Seq(Instructions), NEW d1 \in Seq(Seq(Nat)),
         NEW c2 \in Seq(Instructions), NEW d2 \in Seq(Seq(Nat)),
         Keeps(c, d, c1, d1), Keeps(c1, d1, c2, d2)
  PROVE  Keeps(c, d, c2, d2)
<1>1. Len(c) <= Len(c2) /\ Len(d) <= Len(d2)
  BY DEF Keeps
<1>2. \A k \in DOMAIN c : k \in DOMAIN c1
  BY DEF Keeps
<1>3. \A k \in DOMAIN d : k \in DOMAIN d1
  BY DEF Keeps
<1> QED BY <1>1, <1>2, <1>3 DEF Keeps

\* A jump carries later what it carries now.
LEMMA CarriedOn ==
  ASSUME NEW c \in Seq(Instructions), NEW d \in Seq(Seq(Nat)), Len(d) = Len(c) + 1,
         NEW c2 \in Seq(Instructions), NEW d2 \in Seq(Seq(Nat)), Keeps(c, d, c2, d2),
         NEW j, NEW to, Jumps(c, d, j, to)
  PROVE  Jumps(c2, d2, j, to)
<1>1. j \in DOMAIN c /\ j \in DOMAIN d /\ j \in DOMAIN c2
  BY DEF Jumps, Keeps
<1> QED BY <1>1 DEF Jumps, Keeps, Carries

\* The types of code that is complete but for some jumps.
LEMMA CodedTypes ==
  ASSUME NEW c, NEW d, NEW open, NEW s, Coded(c, d, open, s)
  PROVE  /\ c \in Seq(Instructions) /\ Len(c) \in Nat /\ DOMAIN c = 1..Len(c)
         /\ d \in Seq(Seq(Nat)) /\ Len(d) = Len(c) + 1 /\ DOMAIN d = 1..(Len(c) + 1)
         /\ d[Len(c) + 1] = s /\ IsStack(s) /\ s \in Seq(Nat) /\ Len(s) \in Nat /\ Len(s) <= StackMax
<1>1. c \in Seq(Instructions) /\ Len(c) \in Nat /\ DOMAIN c = 1..Len(c)
  BY DEF Coded, Sound
<1>2. d \in Seq(Seq(Nat)) /\ Len(d) = Len(c) + 1 /\ d[Len(c) + 1] = s
  BY DEF Coded, Flows
<1>3. DOMAIN d = 1..(Len(c) + 1)
  BY <1>1, <1>2
<1>4. IsStack(s)
  <2>1. Len(c) + 1 \in DOMAIN d /\ \A k \in DOMAIN d : IsStack(d[k])
    BY <1>1, <1>3 DEF Coded, Flows
  <2> QED BY <2>1, <1>2
<1> QED BY <1>1, <1>2, <1>3, <1>4 DEF IsStack

\* More jumps may be unpatched.
LEMMA CodedMore ==
  ASSUME NEW c, NEW d, NEW open, NEW s, Coded(c, d, open, s), NEW more, open \subseteq more
  PROVE  Coded(c, d, more, s)
BY DEF Coded, Flows

\* An instruction is added, which is ready for the stack it finds.
LEMMA Adding ==
  ASSUME NEW c, NEW d, NEW open, NEW s, Coded(c, d, open, s),
         NEW i \in Instructions, Ready(i, s), NEW t, IsStack(t),
         i.op \notin Stops => t = Leaves(i, s),
         NEW more, open \subseteq more,
         i.op \in Forward => Len(c) + 1 \in more,
         i.op \in Backward => i.arg \in 1..(Len(c) + 1) /\ d[Len(c) + 2 - i.arg] = s
  PROVE  /\ Len(Append(c, i)) = Len(c) + 1
         /\ Append(c, i)[Len(c) + 1] = i
         /\ \E d2 : Coded(Append(c, i), d2, more, t) /\ Keeps(c, d, Append(c, i), d2)
<1> DEFINE n == Len(c)
           c2 == Append(c, i)
           d2 == Append(d, t)
<1>1. /\ c \in Seq(Instructions) /\ n \in Nat /\ DOMAIN c = 1..n
      /\ d \in Seq(Seq(Nat)) /\ Len(d) = n + 1 /\ DOMAIN d = 1..(n + 1)
      /\ d[n + 1] = s /\ t \in Seq(Nat)
  BY CodedTypes DEF IsStack
<1>2. Sound(c2) /\ Len(c2) = n + 1 /\ c2[n + 1] = i
  BY <1>1, Appending DEF Coded, Emits
<1>3. DOMAIN c2 = 1..(n + 1) /\ \A k \in 1..n : c2[k] = c[k]
  BY <1>1
<1>4. d2 \in Seq(Seq(Nat)) /\ Len(d2) = n + 2 /\ DOMAIN d2 = 1..(n + 2) /\ d2[n + 2] = t
      /\ \A k \in 1..(n + 1) : d2[k] = d[k]
  BY <1>1
<1> HIDE DEF n, c2, d2
<1>5. \A k \in DOMAIN d2 : IsStack(d2[k])
  <2> SUFFICES ASSUME NEW k \in 1..(n + 2) PROVE IsStack(d2[k])
    BY <1>4
  <2>1. CASE k \in 1..(n + 1)
    BY <2>1, <1>1, <1>4 DEF Coded, Flows
  <2>2. CASE k = n + 2
    BY <2>2, <1>4
  <2> QED BY <2>1, <2>2, <1>1
<1>6. ASSUME NEW k \in 1..n
      PROVE  /\ Ready(c2[k], d2[k])
             /\ c2[k].op \notin Stops => d2[k + 1] = Leaves(c2[k], d2[k])
             /\ c2[k].op \in Forward =>
                  k \in more \/ (k + c2[k].arg <= Len(c2) /\ d2[k + 1 + c2[k].arg] = Carries(c2[k], d2[k]))
             /\ c2[k].op \in Backward => d2[k + 1 - c2[k].arg] = d2[k]
  <2>0. c[k] \in Instructions
    BY <1>1
  <2>1. c2[k] = c[k] /\ d2[k] = d[k] /\ k + 1 \in 1..(n + 1) /\ d2[k + 1] = d[k + 1] /\ c[k].arg \in Nat
    <3>1. k \in 1..(n + 1) /\ k + 1 \in 1..(n + 1)
      BY <1>1
    <3>2. c[k].arg \in Nat
      BY <2>0 DEF Instructions
    <3> QED BY <3>1, <3>2, <1>3, <1>4
  <2>2. LandsBack(c[k], k)
    BY <1>1 DEF Coded, Sound, Lands, n
  <2>3. /\ Ready(c[k], d[k])
        /\ c[k].op \notin Stops => d[k + 1] = Leaves(c[k], d[k])
        /\ c[k].op \in Forward => k \in open \/ (k + c[k].arg <= n /\ d[k + 1 + c[k].arg] = Carries(c[k], d[k]))
        /\ c[k].op \in Backward => d[k + 1 - c[k].arg] = d[k]
    BY <1>1 DEF Coded, Flows, n
  <2>4. ASSUME c[k].op \in Forward, k \notin more
        PROVE  k + c[k].arg <= Len(c2) /\ d2[k + 1 + c[k].arg] = Carries(c[k], d[k])
    <3>1. k + c[k].arg <= n /\ d[k + 1 + c[k].arg] = Carries(c[k], d[k])
      BY <2>3, <2>4
    <3>2. k + 1 + c[k].arg \in 1..(n + 1) /\ k + c[k].arg <= n + 1
      <4>1. \A a \in Nat : k + a <= n => k + 1 + a \in 1..(n + 1) /\ k + a <= n + 1
        BY <1>1
      <4> QED BY ONLY <4>1, <3>1, <2>1
    <3>3. d2[k + 1 + c[k].arg] = d[k + 1 + c[k].arg]
      BY <3>2, <1>4
    <3> QED BY <3>1, <3>2, <3>3, <1>2
  <2>5. c[k].op \in Backward => d2[k + 1 - c[k].arg] = d[k + 1 - c[k].arg]
    <3>1. c[k].op \in Backward => k + 1 - c[k].arg \in 1..(n + 1)
      BY SMTT(30), <2>1, <2>2, <1>1 DEF LandsBack
    <3> QED BY <3>1, <1>4
  <2> QED BY <2>1, <2>3, <2>4, <2>5
<1>7. /\ Ready(c2[n + 1], d2[n + 1])
      /\ c2[n + 1].op \notin Stops => d2[n + 1 + 1] = Leaves(c2[n + 1], d2[n + 1])
      /\ c2[n + 1].op \in Forward => n + 1 \in more
      /\ c2[n + 1].op \in Backward => d2[n + 1 + 1 - c2[n + 1].arg] = d2[n + 1]
  <2>1. c2[n + 1] = i /\ d2[n + 1] = s /\ d2[n + 1 + 1] = t
    BY <1>1, <1>2, <1>4
  <2>2. i.op \in Backward => d2[n + 2 - i.arg] = s
    <3> SUFFICES ASSUME i.op \in Backward PROVE d2[n + 2 - i.arg] = s
      OBVIOUS
    <3>1. i.arg \in 1..(n + 1) /\ d[n + 2 - i.arg] = s
      BY DEF n
    <3>2. n + 2 - i.arg \in 1..(n + 1)
      BY <3>1, <1>1
    <3> QED BY <3>1, <3>2, <1>4
  <2>3. n + 1 + 1 - i.arg = n + 2 - i.arg
    BY <1>1 DEF Instructions
  <2> QED BY <2>1, <2>2, <2>3 DEF n
<1>8. Flows(c2, d2, more)
  <2>1. \A k \in DOMAIN c2 : k \in 1..n \/ k = n + 1
    BY <1>1, <1>3
  <2>2. Len(d2) = Len(c2) + 1
    BY <1>1, <1>2, <1>4
  <2> QED BY <2>1, <2>2, <1>4, <1>5, <1>6, <1>7 DEF Flows
<1>9. Coded(c2, d2, more, t) /\ Keeps(c, d, c2, d2)
  <2>1. Len(c2) + 1 = n + 2
    BY <1>1, <1>2
  <2>2. Keeps(c, d, c2, d2)
    <3>1. Len(c) = n /\ n <= Len(c2) /\ Len(d) <= Len(d2)
      BY <1>1, <1>2, <1>4 DEF n
    <3>2. /\ \A k \in DOMAIN c : c2[k] = c[k]
          /\ \A k \in DOMAIN d : d2[k] = d[k]
      BY <1>1, <1>3, <1>4
    <3> QED BY <3>1, <3>2 DEF Keeps
  <2> QED BY <2>1, <2>2, <1>2, <1>4, <1>8 DEF Coded
<1> QED BY <1>2, <1>9 DEF n, c2

\* Jumps are patched: only their distance changes, to where they carry what the
\* stack holds there.
LEMMA PatchedTo ==
  ASSUME NEW c, NEW d, NEW open, NEW s, Coded(c, d, open, s),
         NEW c2, Sound(c2), Len(c2) = Len(c), NEW jumps,
         \A k \in DOMAIN c : c2[k].op = c[k].op /\ c2[k].var = c[k].var /\ c2[k].def = c[k].def,
         \A k \in DOMAIN c : k \notin jumps => c2[k] = c[k],
         \A k \in jumps : k \in DOMAIN c /\ c[k].op \in Forward =>
                            c2[k].arg = Len(c) - k /\ Carries(c[k], d[k]) = s,
         \A k \in jumps : k \in DOMAIN c => c[k].op \notin Backward \cup {"get_local", "set_local"}
  PROVE  Coded(c2, d, open \ jumps, s) /\ Keeps(c, d, c2, d)
<1> DEFINE n == Len(c)
<1>1. /\ c \in Seq(Instructions) /\ n \in Nat /\ DOMAIN c = 1..n
      /\ d \in Seq(Seq(Nat)) /\ Len(d) = n + 1 /\ DOMAIN d = 1..(n + 1)
      /\ d[n + 1] = s
  BY CodedTypes
<1>2. c2 \in Seq(Instructions) /\ DOMAIN c2 = 1..n
  BY DEF Sound
<1> HIDE DEF n
<1>3. ASSUME NEW k \in 1..n
      PROVE  /\ Ready(c2[k], d[k])
             /\ c2[k].op \notin Stops => d[k + 1] = Leaves(c2[k], d[k])
             /\ c2[k].op \in Forward =>
                  k \in open \ jumps \/ (k + c2[k].arg <= n /\ d[k + 1 + c2[k].arg] = Carries(c2[k], d[k]))
             /\ c2[k].op \in Backward => d[k + 1 - c2[k].arg] = d[k]
  <2>1. c2[k].op = c[k].op /\ c2[k].var = c[k].var /\ c2[k].def = c[k].def
    BY <1>1
  <2>2. Carries(c2[k], d[k]) = Carries(c[k], d[k]) /\ Leaves(c2[k], d[k]) = Leaves(c[k], d[k])
    BY <2>1 DEF Carries, Leaves
  <2>3. /\ Ready(c[k], d[k])
        /\ c[k].op \notin Stops => d[k + 1] = Leaves(c[k], d[k])
        /\ c[k].op \in Forward => k \in open \/ (k + c[k].arg <= n /\ d[k + 1 + c[k].arg] = Carries(c[k], d[k]))
        /\ c[k].op \in Backward => d[k + 1 - c[k].arg] = d[k]
    BY <1>1 DEF Coded, Flows, n
  <2>4. CASE k \notin jumps
    <3>1. c2[k] = c[k]
      BY <2>4, <1>1
    <3> QED BY <3>1, <2>3, <2>4
  <2>5. CASE k \in jumps
    <3>1. c[k].op \notin Backward \cup {"get_local", "set_local"}
      BY <2>5, <1>1
    <3>2. Ready(c2[k], d[k])
      BY <2>1, <2>3, <3>1 DEF Ready
    <3>3. c[k].op \in Forward => k + c2[k].arg <= n /\ d[k + 1 + c2[k].arg] = Carries(c[k], d[k])
      <4> SUFFICES ASSUME c[k].op \in Forward
                   PROVE  k + c2[k].arg <= n /\ d[k + 1 + c2[k].arg] = Carries(c[k], d[k])
        OBVIOUS
      <4>1. c2[k].arg = n - k /\ Carries(c[k], d[k]) = s
        BY <2>5, <1>1 DEF n
      <4>2. k + 1 + (n - k) = n + 1 /\ k + (n - k) <= n
        BY <1>1
      <4> QED BY <4>1, <4>2, <1>1
    <3> QED BY <2>1, <2>2, <2>3, <3>1, <3>2, <3>3
  <2> QED BY <2>4, <2>5
<1>4. Flows(c2, d, open \ jumps)
  <2>1. \A k \in DOMAIN d : IsStack(d[k])
    BY DEF Coded, Flows
  <2> QED BY <2>1, <1>1, <1>2, <1>3 DEF Flows, n
<1>5. Keeps(c, d, c2, d)
  BY <1>1 DEF Keeps, n
<1> QED BY <1>1, <1>4, <1>5 DEF Coded, n

-----------------------------------------------------------------------------
(* The parts of the code.                                                  *)

\* A jump goes to where the code is now.
LEMMA PatchingTo ==
  ASSUME NEW c, NEW d, NEW open, NEW s, Coded(c, d, open, s), NEW j, Jumps(c, d, j, s)
  PROVE  Coded(patch_jump(c, j), d, open \ {j}, s) /\ Keeps(c, d, patch_jump(c, j), d)
<1> DEFINE c2 == patch_jump(c, j)
<1>1. c \in Seq(Instructions) /\ Len(c) \in Nat /\ DOMAIN c = 1..Len(c) /\ Sound(c)
  BY CodedTypes DEF Coded
<1>2. j \in DOMAIN c /\ c[j].op \in Forward /\ Carries(c[j], d[j]) = s
  BY DEF Jumps
<1>3. c[j].op \notin Backward \cup {"get_local", "set_local"}
  BY <1>2 DEF Forward, Backward
<1>4. Patchable(c, j)
  BY <1>1, <1>2, <1>3 DEF Patchable
<1>5. Sound(c2) /\ Len(c2) = Len(c) /\ \A k \in DOMAIN c : k # j => c2[k] = c[k]
  BY <1>1, <1>4, PatchingJump DEF Emits
<1>6. c2[j] = [c[j] EXCEPT !.arg = Len(c) - j] /\ c[j] \in Instructions
  BY <1>1, <1>2 DEF patch_jump
<1>7. c2[j].op = c[j].op /\ c2[j].var = c[j].var /\ c2[j].def = c[j].def /\ c2[j].arg = Len(c) - j
  BY <1>6 DEF Instructions
<1> HIDE DEF c2
<1>8. \A k \in DOMAIN c : c2[k].op = c[k].op /\ c2[k].var = c[k].var /\ c2[k].def = c[k].def
  BY <1>5, <1>7
<1>9. Coded(c2, d, open \ {j}, s) /\ Keeps(c, d, c2, d)
  <2> DEFINE jumps == {j}
  <2>1. \A k \in DOMAIN c : k \notin jumps => c2[k] = c[k]
    BY <1>5
  <2>2. \A k \in jumps : k \in DOMAIN c /\ c[k].op \in Forward =>
                           c2[k].arg = Len(c) - k /\ Carries(c[k], d[k]) = s
    BY <1>2, <1>7
  <2>3. \A k \in jumps : k \in DOMAIN c => c[k].op \notin Backward \cup {"get_local", "set_local"}
    BY <1>3
  <2> HIDE DEF jumps
  <2>4. Coded(c2, d, open \ jumps, s) /\ Keeps(c, d, c2, d)
    BY <1>5, <1>8, <2>1, <2>2, <2>3, PatchedTo
  <2> QED BY <2>4 DEF jumps
<1> QED BY <1>9 DEF c2

\* So do the jumps of a set.
LEMMA PatchingAllTo ==
  ASSUME NEW c, NEW d, NEW open, NEW s, Coded(c, d, open, s), NEW jumps,
         \A j \in jumps : Patchable(c, j),
         \A j \in jumps : j \in DOMAIN c => c[j].op \notin {"get_local", "set_local"},
         \A j \in jumps : j \in DOMAIN c /\ c[j].op \in Forward => Jumps(c, d, j, s)
  PROVE  /\ Coded(PatchAll(c, jumps), d, open \ jumps, s) /\ Keeps(c, d, PatchAll(c, jumps), d)
         /\ Len(PatchAll(c, jumps)) = Len(c)
<1> DEFINE c2 == PatchAll(c, jumps)
<1>1. c \in Seq(Instructions) /\ Len(c) \in Nat /\ DOMAIN c = 1..Len(c) /\ Sound(c)
  BY CodedTypes DEF Coded
<1>2. Sound(c2)
  BY <1>1, PatchingAll DEF Emits
<1>3. DOMAIN c2 = DOMAIN c /\ \A k \in DOMAIN c : c2[k] = IF k \in jumps THEN patch_jump(c, k)[k] ELSE c[k]
  BY DEF PatchAll
<1>4. \A k \in DOMAIN c : patch_jump(c, k)[k] = [c[k] EXCEPT !.arg = Len(c) - k] /\ c[k] \in Instructions
  BY <1>1 DEF patch_jump
<1>5. \A k \in DOMAIN c : /\ patch_jump(c, k)[k].op = c[k].op /\ patch_jump(c, k)[k].var = c[k].var
                          /\ patch_jump(c, k)[k].def = c[k].def /\ patch_jump(c, k)[k].arg = Len(c) - k
  BY <1>4 DEF Instructions
<1>6. Len(c2) = Len(c)
  <2>1. c2 \in Seq(Instructions)
    BY <1>2 DEF Sound
  <2> HIDE DEF c2
  <2> QED BY <2>1, <1>1, <1>3
<1> HIDE DEF c2
<1>7. \A k \in DOMAIN c : c2[k].op = c[k].op /\ c2[k].var = c[k].var /\ c2[k].def = c[k].def
  BY <1>3, <1>5
<1>8. \A k \in jumps : k \in DOMAIN c /\ c[k].op \in Forward =>
                         c2[k].arg = Len(c) - k /\ Carries(c[k], d[k]) = s
  BY <1>3, <1>5 DEF Jumps
<1>9. \A k \in jumps : k \in DOMAIN c => c[k].op \notin Backward \cup {"get_local", "set_local"}
  BY <1>1 DEF Patchable
<1>10. \A k \in DOMAIN c : k \notin jumps => c2[k] = c[k]
  BY <1>3
<1>11. Coded(c2, d, open \ jumps, s) /\ Keeps(c, d, c2, d)
  BY <1>2, <1>6, <1>7, <1>8, <1>9, <1>10, PatchedTo
<1> QED BY <1>6, <1>11 DEF c2

\* The instructions that emit_byte adds.
LEMMA ByteFacts ==
  ASSUME NEW op \in Ops
  PROVE  /\ Instruction(op, 0, 0, 0) \in Instructions
         /\ Instruction(op, 0, 0, 0).op = op /\ Instruction(op, 0, 0, 0).arg = 0
         /\ Instruction(op, 0, 0, 0).var = 0 /\ Instruction(op, 0, 0, 0).def = 0
BY DEF Instruction, Instructions

\* A value is pushed.
LEMMA Pushed ==
  ASSUME NEW c, NEW d, NEW open, NEW s, Coded(c, d, open, s), Len(s) < StackMax, NEW id \in Nat,
         NEW var \in Nat, NEW arg \in Nat, NEW op \in {"push", "get_local"},
         op = "get_local" => arg \in DOMAIN s /\ s[arg] = var
  PROVE  LET c2 == Append(c, Instruction(op, arg, var, id))
         IN  /\ Len(c2) = Len(c) + 1
             /\ \E d2 : Coded(c2, d2, open, Append(s, id)) /\ Keeps(c, d, c2, d2)
<1> DEFINE i == Instruction(op, arg, var, id)
<1>1. i \in Instructions /\ i.op = op /\ i.arg = arg /\ i.var = var /\ i.def = id
  BY DEF Instruction, Instructions, Ops
<1> HIDE DEF i
<1>2. s \in Seq(Nat) /\ Len(s) \in Nat
  BY CodedTypes
<1>3. IsStack(Append(s, id))
  BY <1>2, StackIsBounded DEF IsStack
<1>4. Ready(i, s) /\ Leaves(i, s) = Append(s, id)
  BY <1>1 DEF Ready, Leaves
<1>5. i.op \notin Forward \cup Backward
  BY <1>1 DEF Forward, Backward
<1> DEFINE t == Append(s, id)
<1>6. IsStack(t) /\ t = Leaves(i, s)
  BY <1>3, <1>4
<1> HIDE DEF t
<1>7. Len(Append(c, i)) = Len(c) + 1 /\ \E d2 : Coded(Append(c, i), d2, open, t) /\ Keeps(c, d, Append(c, i), d2)
  BY ZenonT(30), <1>1, <1>4, <1>5, <1>6, Adding
<1> QED BY <1>7 DEF i, t

\* An operand is pushed.
LEMMA OperandPushed ==
  ASSUME NEW c, NEW d, NEW open, NEW s, Coded(c, d, open, s), Len(s) < StackMax
  PROVE  /\ Len(Operand(c)) = Len(c) + 1
         /\ \E d2 : Coded(Operand(c), d2, open, Append(s, 0)) /\ Keeps(c, d, Operand(c), d2)
<1>1. Operand(c) = Append(c, Instruction("push", 0, 0, 0))
  BY DEF Operand, emit_byte
<1> QED BY <1>1, Pushed

\* A value is popped.
LEMMA PopAdded ==
  ASSUME NEW c, NEW d, NEW open, NEW s, Coded(c, d, open, s), Len(s) >= 1,
         NEW op \in {"pop", "define_global"}
  PROVE  /\ Len(emit_byte(c, op)) = Len(c) + 1
         /\ \E d2 : /\ Coded(emit_byte(c, op), d2, open, Bottom(s, Len(s) - 1))
                    /\ Keeps(c, d, emit_byte(c, op), d2)
<1> DEFINE i == Instruction(op, 0, 0, 0)
<1>1. i \in Instructions /\ i.op = op
  BY ByteFacts DEF Ops
<1> HIDE DEF i
<1>2. s \in Seq(Nat) /\ Len(s) \in Nat /\ Len(s) <= StackMax
  BY CodedTypes
<1>3. IsStack(Bottom(s, Len(s) - 1))
  <2>1. Len(s) - 1 \in 0..Len(s)
    BY <1>2
  <2>2. Bottom(s, Len(s) - 1) \in Seq(Nat) /\ Len(Bottom(s, Len(s) - 1)) = Len(s) - 1
    BY <1>2, <2>1, BottomType
  <2> QED BY <1>2, <2>2, StackIsBounded DEF IsStack
<1>4. Ready(i, s) /\ Leaves(i, s) = Bottom(s, Len(s) - 1)
  BY <1>1 DEF Ready, Leaves, Carries, Takes
<1>5. i.op \notin Forward \cup Backward
  BY <1>1 DEF Forward, Backward
<1> DEFINE t == Bottom(s, Len(s) - 1)
<1>6. IsStack(t) /\ t = Leaves(i, s)
  BY <1>3, <1>4
<1> HIDE DEF t
<1>7. Len(Append(c, i)) = Len(c) + 1 /\ \E d2 : Coded(Append(c, i), d2, open, t) /\ Keeps(c, d, Append(c, i), d2)
  BY <1>1, <1>4, <1>5, <1>6, Adding
<1> QED BY <1>7 DEF i, t, emit_byte

\* An instruction that leaves the stack as it is.
LEMMA NeutralAdded ==
  ASSUME NEW c, NEW d, NEW open, NEW s, Coded(c, d, open, s),
         NEW op \in {"set_local", "set_global", "match"}, NEW arg \in Nat, NEW var \in Nat,
         op = "set_local" => arg \in DOMAIN s /\ s[arg] = var
  PROVE  LET c2 == Append(c, Instruction(op, arg, var, 0))
         IN  /\ Len(c2) = Len(c) + 1
             /\ \E d2 : Coded(c2, d2, open, s) /\ Keeps(c, d, c2, d2)
<1> DEFINE i == Instruction(op, arg, var, 0)
<1>1. i \in Instructions /\ i.op = op /\ i.arg = arg /\ i.var = var
  BY DEF Instruction, Instructions, Ops
<1> HIDE DEF i
<1>2. s \in Seq(Nat) /\ Len(s) \in Nat /\ IsStack(s)
  BY CodedTypes
<1>3. Leaves(i, s) = s
  BY <1>1, <1>2, BottomAll DEF Leaves, Carries, Takes
<1>4. Ready(i, s)
  BY <1>1 DEF Ready
<1>5. i.op \notin Forward \cup Backward
  BY <1>1 DEF Forward, Backward
<1> DEFINE t == s
<1>6. IsStack(t) /\ t = Leaves(i, s)
  BY <1>2, <1>3
<1> HIDE DEF t
<1>7. Len(Append(c, i)) = Len(c) + 1 /\ \E d2 : Coded(Append(c, i), d2, open, t) /\ Keeps(c, d, Append(c, i), d2)
  BY <1>1, <1>4, <1>5, <1>6, Adding
<1> QED BY <1>7 DEF i, t

\* A jump is emitted, to be patched later.  Behind one that is always taken the
\* stack is what the jumps to there carry.
LEMMA JumpAdded ==
  ASSUME NEW c, NEW d, NEW open, NEW s, Coded(c, d, open, s),
         NEW op \in {"jump", "break", "jump_if_false"},
         NEW t, IsStack(t), op = "jump_if_false" => t = s
  PROVE  LET c2 == emit_jump(c, op)
         IN  /\ Len(c2) = Len(c) + 1
             /\ \E d2 : /\ Coded(c2, d2, open \cup {Len(c) + 1}, t) /\ Keeps(c, d, c2, d2)
                        /\ Jumps(c2, d2, Len(c) + 1, s)
<1> DEFINE i == Instruction(op, Placeholder, 0, 0)
           more == open \cup {Len(c) + 1}
           c2 == Append(c, i)
<1>1. i \in Instructions /\ i.op = op
  BY DEF Instruction, Instructions, Ops, Placeholder
<1> HIDE DEF i
<1>2. /\ s \in Seq(Nat) /\ Len(s) \in Nat /\ IsStack(s) /\ Len(c) \in Nat
      /\ d \in Seq(Seq(Nat)) /\ d[Len(c) + 1] = s /\ DOMAIN d = 1..(Len(c) + 1)
  BY CodedTypes
<1>3. Leaves(i, s) = s /\ Carries(i, s) = s
  BY <1>1, <1>2, BottomAll DEF Leaves, Carries, Takes
<1>4. Ready(i, s) /\ i.op \in Forward /\ i.op \notin Backward
  BY <1>1 DEF Ready, Forward, Backward
<1>5. i.op \notin Stops => t = Leaves(i, s)
  BY <1>1, <1>3 DEF Stops
<1>6. open \subseteq more /\ Len(c) + 1 \in more
  OBVIOUS
<1> HIDE DEF more
<1>7. /\ Len(c2) = Len(c) + 1 /\ c2[Len(c) + 1] = i
      /\ \E d2 : Coded(c2, d2, more, t) /\ Keeps(c, d, c2, d2)
  BY <1>1, <1>4, <1>5, <1>6, Adding
<1> HIDE DEF c2
<1>8. PICK d2 : Coded(c2, d2, more, t) /\ Keeps(c, d, c2, d2)
  BY <1>7
<1>9. Jumps(c2, d2, Len(c) + 1, s)
  <2>1. DOMAIN c2 = 1..Len(c2)
    BY <1>8, CodedTypes
  <2>2. d2[Len(c) + 1] = s
    BY <1>2, <1>8 DEF Keeps
  <2>3. Len(c) + 1 \in DOMAIN c2
    BY <2>1, <1>2, <1>7
  <2> QED BY <2>2, <2>3, <1>3, <1>4, <1>7 DEF Jumps
<1> QED BY <1>7, <1>8, <1>9 DEF c2, more, i, emit_jump

\* A test is emitted, which compares the value of its match.
LEMMA TestAdded ==
  ASSUME NEW c, NEW d, NEW open, NEW s, Coded(c, d, open, s), NEW n \in {1, 2}, NEW var \in Nat,
         Len(s) > n, s[Len(s) - n] = var
  PROVE  LET c2 == Append(c, Instruction(IF n = 1 THEN "jump_if_neq" ELSE "enum_member_match", Placeholder, var, 0))
         IN  /\ Len(c2) = Len(c) + 1
             /\ \E d2 : /\ Coded(c2, d2, open \cup {Len(c) + 1}, Bottom(s, Len(s) - n))
                        /\ Keeps(c, d, c2, d2)
                        /\ Jumps(c2, d2, Len(c) + 1, Bottom(s, Len(s) - n))
<1> DEFINE op == IF n = 1 THEN "jump_if_neq" ELSE "enum_member_match"
           i == Instruction(op, Placeholder, var, 0)
           more == open \cup {Len(c) + 1}
           c2 == Append(c, i)
           t == Bottom(s, Len(s) - n)
<1>1. i \in Instructions /\ i.op = op /\ i.var = var /\ i.def = 0
  BY DEF Instruction, Instructions, Ops, Placeholder
<1>2. /\ n = 1 => i.op = "jump_if_neq" /\ Takes(i.op) = 1
      /\ n = 2 => i.op = "enum_member_match" /\ Takes(i.op) = 2
  BY <1>1 DEF Takes
<1> HIDE DEF i, op
<1>3. /\ s \in Seq(Nat) /\ Len(s) \in Nat /\ Len(s) <= StackMax /\ Len(c) \in Nat
      /\ d \in Seq(Seq(Nat)) /\ d[Len(c) + 1] = s /\ DOMAIN d = 1..(Len(c) + 1)
  BY CodedTypes
<1>4. IsStack(t)
  <2>1. Len(s) - n \in 0..Len(s)
    BY <1>3
  <2>2. t \in Seq(Nat) /\ Len(t) = Len(s) - n
    BY <1>3, <2>1, BottomType
  <2> HIDE DEF t
  <2> QED BY <1>3, <2>2, StackIsBounded DEF IsStack
<1>5. Carries(i, s) = t /\ Leaves(i, s) = t
  BY <1>2 DEF Leaves, Carries
<1>6. Ready(i, s) /\ i.op \in Forward /\ i.op \notin Backward \cup Stops
  BY SMTT(30), <1>1, <1>2, <1>3 DEF Ready, Forward, Backward, Stops
<1>7. open \subseteq more /\ Len(c) + 1 \in more
  OBVIOUS
<1> HIDE DEF more, t
<1>8. /\ Len(c2) = Len(c) + 1 /\ c2[Len(c) + 1] = i
      /\ \E d2 : Coded(c2, d2, more, t) /\ Keeps(c, d, c2, d2)
  BY <1>1, <1>4, <1>5, <1>6, <1>7, Adding
<1> HIDE DEF c2
<1>9. PICK d2 : Coded(c2, d2, more, t) /\ Keeps(c, d, c2, d2)
  BY <1>8
<1>10. Jumps(c2, d2, Len(c) + 1, t)
  <2>1. DOMAIN c2 = 1..Len(c2)
    BY <1>9, CodedTypes
  <2>2. d2[Len(c) + 1] = s
    <3>1. Len(c) + 1 \in DOMAIN d
      BY <1>3
    <3> QED BY <3>1, <1>3, <1>9 DEF Keeps
  <2>3. Len(c) + 1 \in DOMAIN c2
    BY <2>1, <1>3, <1>8
  <2> QED BY <2>2, <2>3, <1>5, <1>6, <1>8 DEF Jumps
<1> QED BY <1>8, <1>9, <1>10 DEF c2, more, i, t, op

\* A jump goes back to where the stack was the same.
LEMMA LoopAdded ==
  ASSUME NEW c, NEW d, NEW open, NEW s, Coded(c, d, open, s), NEW op \in {"loop", "continue"},
         NEW start \in DOMAIN d, d[start] = s, NEW t, IsStack(t)
  PROVE  /\ Len(emit_loop(c, op, start)) = Len(c) + 1
         /\ \E d2 : Coded(emit_loop(c, op, start), d2, open, t) /\ Keeps(c, d, emit_loop(c, op, start), d2)
<1> DEFINE arg == Len(c) + 2 - start
           i == Instruction(op, arg, 0, 0)
<1>1. /\ Len(c) \in Nat /\ DOMAIN d = 1..(Len(c) + 1) /\ s \in Seq(Nat) /\ IsStack(s)
  BY CodedTypes
<1>2. arg \in 1..(Len(c) + 1) /\ arg \in Nat /\ Len(c) + 2 - arg = start
  BY <1>1
<1> HIDE DEF arg
<1>3. i \in Instructions /\ i.op = op /\ i.arg = arg
  BY <1>2 DEF Instruction, Instructions, Ops
<1>4. i.op \in Stops /\ i.op \in Backward /\ i.op \notin Forward /\ Ready(i, s)
  BY <1>3 DEF Stops, Backward, Forward, Ready
<1> HIDE DEF i
<1>6. i.arg \in 1..(Len(c) + 1) /\ d[Len(c) + 2 - i.arg] = s
  BY <1>2, <1>3
<1>5. /\ Len(Append(c, i)) = Len(c) + 1
      /\ \E d2 : Coded(Append(c, i), d2, open, t) /\ Keeps(c, d, Append(c, i), d2)
  BY <1>3, <1>4, <1>6, Adding
<1> QED BY <1>5 DEF i, arg, emit_loop

\* A return takes one value; what follows is reached by no path through it.
LEMMA ReturnAdded ==
  ASSUME NEW c, NEW d, NEW open, NEW s, Coded(c, d, open, s), Len(s) >= 1, NEW t, IsStack(t)
  PROVE  LET c2 == emit_byte(c, "return")
         IN  /\ Len(c2) = Len(c) + 1
             /\ \E d2 : Coded(c2, d2, open, t) /\ Keeps(c, d, c2, d2)
<1> DEFINE i == Instruction("return", 0, 0, 0)
<1>1. i \in Instructions /\ i.op = "return"
  BY ByteFacts DEF Ops
<1> HIDE DEF i
<1>2. i.op \in Stops /\ i.op \notin Backward \cup Forward /\ Ready(i, s)
  BY <1>1 DEF Stops, Backward, Forward, Ready
<1>3. /\ Len(Append(c, i)) = Len(c) + 1
      /\ \E d2 : Coded(Append(c, i), d2, open, t) /\ Keeps(c, d, Append(c, i), d2)
  BY <1>1, <1>2, Adding
<1> QED BY <1>3 DEF i, emit_byte

\* The pops of a scope leave the cells below it.
LEMMA PopsAdded ==
  ASSUME NEW c, NEW d, NEW open, NEW s, Coded(c, d, open, s), NEW n \in 0..Len(s)
  PROVE  /\ Len(EmitPops(c, n)) = Len(c) + n
         /\ \E d2 : Coded(EmitPops(c, n), d2, open, Bottom(s, Len(s) - n)) /\ Keeps(c, d, EmitPops(c, n), d2)
<1> DEFINE m == Len(c)
           h == Len(s)
           c2 == EmitPops(c, n)
           d2 == [k \in 1..(m + 1 + n) |-> IF k <= m + 1 THEN d[k] ELSE Bottom(s, h - (k - (m + 1)))]
           pop == Instruction("pop", 0, 0, 0)
<1>1. /\ c \in Seq(Instructions) /\ m \in Nat /\ DOMAIN c = 1..m
      /\ d \in Seq(Seq(Nat)) /\ Len(d) = m + 1 /\ DOMAIN d = 1..(m + 1)
      /\ d[m + 1] = s /\ s \in Seq(Nat) /\ h \in Nat /\ h <= StackMax /\ n \in Nat /\ n <= h
  BY CodedTypes
<1>2. pop \in Instructions /\ pop.op = "pop"
  BY ByteFacts DEF Ops
<1>3. Sound(c2)
  BY <1>1, EmittingPops DEF Emits, Coded
<1>4. /\ Len(c2) = m + n
      /\ \A k \in 1..m : c2[k] = c[k]
      /\ \A k \in 1..n : c2[m + k] = pop
  <2> DEFINE q == [k \in 1..n |-> pop]
  <2>1. q \in Seq(Instructions) /\ Len(q) = n /\ \A k \in 1..n : q[k] = pop
    BY <1>1, <1>2
  <2>2. c2 = c \o q
    BY DEF EmitPops
  <2> HIDE DEF q, c2, pop
  <2>3. /\ Len(c \o q) = Len(c) + Len(q)
        /\ \A k \in 1..Len(c) : (c \o q)[k] = c[k]
        /\ \A k \in 1..Len(q) : (c \o q)[Len(c) + k] = q[k]
    <3>1. c \in Seq(Instructions) /\ q \in Seq(Instructions)
      BY <2>1, <1>1
    <3> QED BY <3>1, ConcatFacts
  <2> QED BY <2>1, <2>2, <2>3, <1>1 DEF m
<1>5. DOMAIN c2 = 1..(m + n)
  BY <1>3, <1>4 DEF Sound
<1> HIDE DEF m, h, c2, pop
<1>6. ASSUME NEW k \in 1..(m + 1 + n)
      PROVE  /\ k <= m + 1 => d2[k] = d[k]
             /\ k >= m + 1 => d2[k] = Bottom(s, h - (k - (m + 1)))
             /\ d2[k] \in Seq(Nat) /\ Len(d2[k]) <= StackMax
  <2>1. Bottom(s, h) = s
    BY <1>1, BottomAll DEF h
  <2>2. CASE k <= m
    <3>1. k \in 1..(m + 1) /\ d2[k] = d[k] /\ ~ (k >= m + 1)
      BY <2>2, <1>1
    <3>2. IsStack(d[k])
      BY <3>1, <1>1 DEF Coded, Flows
    <3> QED BY <3>1, <3>2 DEF IsStack
  <2>3. CASE k = m + 1
    <3>1. d2[k] = d[k] /\ d[k] = s /\ h - (k - (m + 1)) = h
      BY <2>3, <1>1
    <3> QED BY <3>1, <2>1, <1>1 DEF h
  <2>4. CASE k > m + 1
    <3> DEFINE g == h - (k - (m + 1))
    <3>1. g \in 0..h /\ ~ (k <= m + 1)
      BY <2>4, <1>1
    <3>2. d2[k] = Bottom(s, g)
      BY <3>1
    <3> HIDE DEF g, d2
    <3>3. Bottom(s, g) \in Seq(Nat) /\ Len(Bottom(s, g)) = g
      BY <3>1, <1>1, BottomType DEF h
    <3> QED BY <3>1, <3>2, <3>3, <1>1, StackIsBounded DEF g
  <2> QED BY <2>2, <2>3, <2>4, <1>1
<1>7. d2 \in Seq(Seq(Nat)) /\ Len(d2) = m + 1 + n /\ DOMAIN d2 = 1..(m + 1 + n)
  <2>1. \A k \in 1..(m + 1 + n) : d2[k] \in Seq(Nat)
    BY <1>6
  <2>2. m + 1 + n \in Nat
    BY <1>1
  <2>3. d2 \in [1..(m + 1 + n) -> Seq(Nat)]
    <3>1. d2 = [k \in 1..(m + 1 + n) |-> d2[k]]
      OBVIOUS
    <3> HIDE DEF d2
    <3> QED BY <3>1, <2>1
  <2> HIDE DEF d2
  <2> QED BY <2>2, <2>3
<1> HIDE DEF d2
<1>8. ASSUME NEW k \in 1..(m + n)
      PROVE  /\ Ready(c2[k], d2[k])
             /\ c2[k].op \notin Stops => d2[k + 1] = Leaves(c2[k], d2[k])
             /\ c2[k].op \in Forward =>
                  k \in open \/ (k + c2[k].arg <= Len(c2) /\ d2[k + 1 + c2[k].arg] = Carries(c2[k], d2[k]))
             /\ c2[k].op \in Backward => d2[k + 1 - c2[k].arg] = d2[k]
  <2>1. CASE k \in 1..m
    <3>1. c[k] \in Instructions
      BY <2>1, <1>1
    <3>2. c2[k] = c[k] /\ d2[k] = d[k] /\ d2[k + 1] = d[k + 1]
      <4>1. k \in 1..(m + 1 + n) /\ k + 1 \in 1..(m + 1 + n) /\ k <= m + 1 /\ k + 1 <= m + 1
        BY <2>1, <1>1
      <4> QED BY <4>1, <2>1, <1>4, <1>6
    <3>3. LandsBack(c[k], k)
      BY <2>1, <1>1 DEF Coded, Sound, Lands, m
    <3>4. c[k].arg \in Nat
      BY <3>1 DEF Instructions
    <3>7. /\ Ready(c[k], d[k])
          /\ c[k].op \notin Stops => d[k + 1] = Leaves(c[k], d[k])
          /\ c[k].op \in Forward => k \in open \/ (k + c[k].arg <= m /\ d[k + 1 + c[k].arg] = Carries(c[k], d[k]))
          /\ c[k].op \in Backward => d[k + 1 - c[k].arg] = d[k]
      BY <2>1, <1>1 DEF Coded, Flows, m
    <3>5. ASSUME c[k].op \in Forward, k \notin open
          PROVE  k + c[k].arg <= Len(c2) /\ d2[k + 1 + c[k].arg] = Carries(c[k], d[k])
      <4>1. k + c[k].arg <= m /\ d[k + 1 + c[k].arg] = Carries(c[k], d[k])
        BY <3>5, <3>7
      <4>2. /\ k + 1 + c[k].arg \in 1..(m + 1 + n) /\ k + 1 + c[k].arg <= m + 1
            /\ k + c[k].arg <= m + n
        <5>1. \A a \in Nat : k + a <= m => /\ k + 1 + a \in 1..(m + 1 + n) /\ k + 1 + a <= m + 1
                                            /\ k + a <= m + n
          BY <2>1, <1>1
        <5> QED BY ONLY <5>1, <4>1, <3>4
      <4>3. d2[k + 1 + c[k].arg] = d[k + 1 + c[k].arg]
        BY <4>2, <1>6
      <4> QED BY <4>1, <4>2, <4>3, <1>4
    <3>6. c[k].op \in Backward => d2[k + 1 - c[k].arg] = d[k + 1 - c[k].arg]
      <4>1. c[k].op \in Backward => k + 1 - c[k].arg \in 1..(m + 1 + n) /\ k + 1 - c[k].arg <= m + 1
        BY SMTT(30), <2>1, <3>3, <3>4, <1>1 DEF LandsBack
      <4> QED BY <4>1, <1>6
    <3> QED BY <3>2, <3>5, <3>6, <3>7
  <2>2. CASE k \notin 1..m
    <3> DEFINE g == h - (k - (m + 1))
    <3>1. k - m \in 1..n /\ m + (k - m) = k /\ g \in 1..h
      BY <2>2, <1>1
    <3>2. c2[k] = pop
      BY <3>1, <1>4
    <3>3. d2[k] = Bottom(s, g)
      <4>1. k \in 1..(m + 1 + n) /\ k >= m + 1
        BY <2>2, <1>1
      <4> QED BY <4>1, <1>6
    <3>4. d2[k + 1] = Bottom(s, g - 1)
      <4> DEFINE j == k + 1
      <4>1. j \in 1..(m + 1 + n) /\ j >= m + 1 /\ h - (j - (m + 1)) = g - 1
        BY <2>2, <1>1
      <4> HIDE DEF j, g
      <4>2. d2[j] = Bottom(s, h - (j - (m + 1)))
        BY <4>1, <1>6
      <4>3. d2[j] = Bottom(s, g - 1)
        BY <4>1, <4>2
      <4> QED BY <4>3 DEF j
    <3> HIDE DEF g
    <3>5. Len(Bottom(s, g)) = g
      <4>1. g \in 0..Len(s)
        BY <3>1, <1>1 DEF h
      <4> QED BY <4>1, <1>1, BottomType
    <3>6. Bottom(Bottom(s, g), g - 1) = Bottom(s, g - 1)
      <4>1. g \in Nat /\ g - 1 \in 0..g
        BY <3>1, <1>1
      <4> QED BY <4>1, BottomBottom
    <3>7. Ready(pop, d2[k]) /\ Leaves(pop, d2[k]) = d2[k + 1]
      BY <3>1, <3>3, <3>4, <3>5, <3>6, <1>1, <1>2 DEF Ready, Leaves, Carries, Takes
    <3> QED BY <3>2, <3>7, <1>2 DEF Forward, Backward
  <2> QED BY <2>1, <2>2
<1>9. Flows(c2, d2, open)
  <2>1. \A k \in DOMAIN d2 : IsStack(d2[k])
    BY <1>6, <1>7 DEF IsStack
  <2>2. Len(d2) = Len(c2) + 1
    BY <1>1, <1>4, <1>7
  <2> QED BY <2>1, <2>2, <1>5, <1>7, <1>8 DEF Flows
<1>10. d2[Len(c2) + 1] = Bottom(s, h - n)
  <2> DEFINE j == Len(c2) + 1
  <2>1. j \in 1..(m + 1 + n) /\ j >= m + 1 /\ h - (j - (m + 1)) = h - n
    BY <1>1, <1>4
  <2> HIDE DEF j
  <2>2. d2[j] = Bottom(s, h - (j - (m + 1)))
    BY <2>1, <1>6
  <2> QED BY <2>1, <2>2 DEF j
<1>11. Keeps(c, d, c2, d2)
  <2>1. Len(c) <= Len(c2) /\ Len(d) <= Len(d2)
    BY <1>1, <1>4, <1>7 DEF m
  <2>2. \A k \in DOMAIN c : c2[k] = c[k]
    BY <1>1, <1>4
  <2>3. \A k \in DOMAIN d : d2[k] = d[k]
    <3>1. \A k \in 1..(m + 1) : k \in 1..(m + 1 + n) /\ k <= m + 1
      BY <1>1
    <3> QED BY <3>1, <1>1, <1>6
  <2> QED BY <2>1, <2>2, <2>3 DEF Keeps
<1>12. Coded(c2, d2, open, Bottom(s, h - n))
  BY <1>3, <1>9, <1>10 DEF Coded
<1> QED BY <1>4, <1>11, <1>12 DEF c2, h, m

\* What is kept twice is kept, and the jumps with it.
LEMMA Further ==
  ASSUME NEW c, NEW d, NEW o, NEW s, Coded(c, d, o, s),
         NEW c1, NEW d1, NEW o1, NEW s1, Coded(c1, d1, o1, s1), Keeps(c, d, c1, d1),
         NEW c2, NEW d2, NEW o2, NEW s2, Coded(c2, d2, o2, s2), Keeps(c1, d1, c2, d2)
  PROVE  /\ Keeps(c, d, c2, d2)
         /\ \A j, to : Jumps(c1, d1, j, to) => Jumps(c2, d2, j, to)
<1>1. c \in Seq(Instructions) /\ d \in Seq(Seq(Nat))
  BY CodedTypes
<1>2. c1 \in Seq(Instructions) /\ d1 \in Seq(Seq(Nat)) /\ Len(d1) = Len(c1) + 1
  BY CodedTypes
<1>3. c2 \in Seq(Instructions) /\ d2 \in Seq(Seq(Nat))
  BY CodedTypes
<1>4. Keeps(c, d, c2, d2)
  BY <1>1, <1>2, <1>3, KeepsOn
<1>5. \A j, to : Jumps(c1, d1, j, to) => Jumps(c2, d2, j, to)
  BY <1>2, <1>3, CarriedOn
<1> QED BY <1>4, <1>5

-----------------------------------------------------------------------------
(* Expressions leave one value more.                                       *)

\* The condition, and the jump that its value decides.
LEMMA ConditionTested ==
  ASSUME NEW c, NEW d, NEW open, NEW s, Coded(c, d, open, s), Len(s) < StackMax
  PROVE  LET test == emit_jump(Operand(c), "jump_if_false")
         IN  /\ Len(test) = Len(c) + 2
             /\ \E d2 : /\ Coded(test, d2, open \cup {Len(c) + 2}, Append(s, 0)) /\ Keeps(c, d, test, d2)
                        /\ Jumps(test, d2, Len(c) + 2, Append(s, 0))
<1> DEFINE c1 == Operand(c)
           test == emit_jump(c1, "jump_if_false")
           n == Len(c) + 2
           t == Append(s, 0)
<1>1. Len(c1) = Len(c) + 1 /\ \E d1 : Coded(c1, d1, open, t) /\ Keeps(c, d, c1, d1)
  BY OperandPushed
<1> HIDE DEF c1, t
<1>2. PICK d1 : Coded(c1, d1, open, t) /\ Keeps(c, d, c1, d1)
  BY <1>1
<1>3. Len(c) \in Nat /\ Len(c1) + 1 = n /\ IsStack(t)
  BY <1>1, <1>2, CodedTypes
<1> HIDE DEF n
<1>4. /\ Len(test) = n
      /\ \E d2 : Coded(test, d2, open \cup {n}, t) /\ Keeps(c1, d1, test, d2) /\ Jumps(test, d2, n, t)
  BY <1>2, <1>3, JumpAdded
<1> HIDE DEF test
<1>5. PICK d2 : Coded(test, d2, open \cup {n}, t) /\ Keeps(c1, d1, test, d2) /\ Jumps(test, d2, n, t)
  BY <1>4
<1>6. Keeps(c, d, test, d2)
  BY <1>2, <1>5, Further
<1> QED BY <1>4, <1>5, <1>6 DEF n, t, test, c1

\* The value of the condition is popped where it holds.
LEMMA ConditionAdded ==
  ASSUME NEW c, NEW d, NEW open, NEW s, Coded(c, d, open, s), Len(s) < StackMax
  PROVE  LET c2 == Condition(Operand(c))
         IN  /\ Len(c2) = Len(c) + 3
             /\ \E d2 : /\ Coded(c2, d2, open \cup {Len(c) + 2}, s) /\ Keeps(c, d, c2, d2)
                        /\ Jumps(c2, d2, Len(c) + 2, Append(s, 0))
<1> DEFINE test == emit_jump(Operand(c), "jump_if_false")
           c2 == emit_byte(test, "pop")
           n == Len(c) + 2
           t == Append(s, 0)
           o == open \cup {n}
<1>1. /\ Len(test) = n
      /\ \E d1 : Coded(test, d1, o, t) /\ Keeps(c, d, test, d1) /\ Jumps(test, d1, n, t)
  BY ConditionTested
<1>2. Len(c) \in Nat /\ s \in Seq(Nat) /\ Len(s) \in Nat
  BY CodedTypes
<1>3. t \in Seq(Nat) /\ Len(t) = Len(s) + 1 /\ Bottom(t, Len(s)) = s
  BY <1>2, PushFacts
<1>4. Len(t) >= 1 /\ Len(t) - 1 = Len(s) /\ n \in Nat
  BY <1>2, <1>3
<1> HIDE DEF test, t, n, o
<1>5. PICK d1 : Coded(test, d1, o, t) /\ Keeps(c, d, test, d1) /\ Jumps(test, d1, n, t)
  BY <1>1
<1>6. /\ Len(c2) = n + 1
      /\ \E d2 : Coded(c2, d2, o, Bottom(t, Len(t) - 1)) /\ Keeps(test, d1, c2, d2)
  BY <1>1, <1>4, <1>5, PopAdded
<1> HIDE DEF c2
<1>7. PICK d2 : Coded(c2, d2, o, s) /\ Keeps(test, d1, c2, d2)
  BY <1>3, <1>4, <1>6
<1>8. Keeps(c, d, c2, d2) /\ Jumps(c2, d2, n, t)
  BY <1>5, <1>7, Further
<1>9. Len(c2) = Len(c) + 3
  BY <1>2, <1>6 DEF n
<1> QED BY <1>7, <1>8, <1>9 DEF n, t, o, c2, test, Condition

\* The jump over the other branch, where the value of the test is popped.
LEMMA ElseAdded ==
  ASSUME NEW c, NEW d, NEW open, NEW s, Coded(c, d, open, s),
         NEW test, NEW t, Jumps(c, d, test, t), IsStack(t), Len(t) >= 1
  PROVE  LET jump == emit_jump(c, "jump")
             else == emit_byte(patch_jump(jump, test), "pop")
         IN  /\ Len(jump) = Len(c) + 1
             /\ \E d2 : /\ Coded(else, d2, (open \cup {Len(c) + 1}) \ {test}, Bottom(t, Len(t) - 1))
                        /\ Keeps(c, d, else, d2)
                        /\ Jumps(else, d2, Len(c) + 1, s)
<1> DEFINE jump == emit_jump(c, "jump")
           there == patch_jump(jump, test)
           else == emit_byte(there, "pop")
           n == Len(c) + 1
           o == open \cup {n}
           u == Bottom(t, Len(t) - 1)
<1>1. /\ Len(jump) = n
      /\ \E d1 : Coded(jump, d1, o, t) /\ Keeps(c, d, jump, d1) /\ Jumps(jump, d1, n, s)
  BY JumpAdded
<1> HIDE DEF jump, n, o
<1>2. PICK d1 : Coded(jump, d1, o, t) /\ Keeps(c, d, jump, d1) /\ Jumps(jump, d1, n, s)
  BY <1>1
<1>3. Jumps(jump, d1, test, t)
  BY <1>2, CodedTypes, CarriedOn
<1>4. Coded(there, d1, o \ {test}, t) /\ Keeps(jump, d1, there, d1)
  BY <1>2, <1>3, PatchingTo
<1> HIDE DEF there
<1>5. Keeps(c, d, there, d1) /\ Jumps(there, d1, n, s)
  BY <1>2, <1>4, Further
<1>6. \E d2 : Coded(else, d2, o \ {test}, u) /\ Keeps(there, d1, else, d2)
  BY <1>4, PopAdded
<1> HIDE DEF else, u
<1>7. PICK d2 : Coded(else, d2, o \ {test}, u) /\ Keeps(there, d1, else, d2)
  BY <1>6
<1>8. Keeps(c, d, else, d2) /\ Jumps(else, d2, n, s)
  BY <1>4, <1>5, <1>7, Further
<1> QED BY <1>1, <1>7, <1>8 DEF else, there, jump, n, o, u

\* Where the branches join, each has left its value.
LEMMA JoinAdded ==
  ASSUME NEW c, NEW d, NEW open, NEW s, Coded(c, d, open, s), Len(s) < StackMax,
         NEW jump, Jumps(c, d, jump, Append(s, 0))
  PROVE  LET c2 == patch_jump(Operand(c), jump)
         IN  \E d2 : Coded(c2, d2, open \ {jump}, Append(s, 0)) /\ Keeps(c, d, c2, d2)
<1> DEFINE c1 == Operand(c)
           c2 == patch_jump(c1, jump)
           t == Append(s, 0)
<1>1. \E d1 : Coded(c1, d1, open, t) /\ Keeps(c, d, c1, d1)
  BY OperandPushed
<1>2. Jumps(c, d, jump, t)
  OBVIOUS
<1> HIDE DEF c1, t
<1>3. PICK d1 : Coded(c1, d1, open, t) /\ Keeps(c, d, c1, d1)
  BY <1>1
<1>4. Jumps(c1, d1, jump, t)
  BY <1>2, <1>3, CodedTypes, CarriedOn
<1>5. Coded(c2, d1, open \ {jump}, t) /\ Keeps(c1, d1, c2, d1)
  BY <1>3, <1>4, PatchingTo
<1> HIDE DEF c2
<1>6. Keeps(c, d, c2, d1)
  BY <1>3, <1>5, Further
<1> QED BY <1>5, <1>6 DEF c2, t, c1

\* Each form of expression that jumps leaves one value, on every path.
LEMMA BranchPushes ==
  ASSUME NEW c, NEW d, NEW open, NEW s, Coded(c, d, open, s), Len(s) < StackMax,
         NEW e \in Branching(c)
  PROVE  \E d2 : Coded(e, d2, open, Append(s, 0)) /\ Keeps(c, d, e, d2)
<1> DEFINE test == emit_jump(Operand(c), "jump_if_false")
           n == Len(c) + 2
           t == Append(s, 0)
           o == open \cup {n}
           popped == emit_byte(test, "pop")
<1>1. /\ Len(test) = n
      /\ \E d1 : Coded(test, d1, o, t) /\ Keeps(c, d, test, d1) /\ Jumps(test, d1, n, t)
  BY ConditionTested
<1>2. /\ Len(c) \in Nat /\ s \in Seq(Nat) /\ Len(s) \in Nat
  BY CodedTypes
<1>3. t \in Seq(Nat) /\ Len(t) = Len(s) + 1 /\ Bottom(t, Len(s)) = s
  BY <1>2, PushFacts
<1>4. Len(t) >= 1 /\ Len(t) - 1 = Len(s) /\ n \in Nat /\ o \ {n} \subseteq open /\ Bottom(t, Len(t) - 1) = s
  BY <1>2, <1>3
<1> HIDE DEF test, n, o
<1>5. PICK d1 : Coded(test, d1, o, t) /\ Keeps(c, d, test, d1) /\ Jumps(test, d1, n, t)
  BY <1>1
<1>6. IsStack(t)
  BY <1>5, CodedTypes
<1>7. /\ Len(popped) = n + 1
      /\ \E d2 : Coded(popped, d2, o, s) /\ Keeps(test, d1, popped, d2)
  <2> HIDE DEF t
  <2>1. /\ Len(popped) = n + 1
        /\ \E d2 : Coded(popped, d2, o, Bottom(t, Len(t) - 1)) /\ Keeps(test, d1, popped, d2)
    BY <1>1, <1>4, <1>5, PopAdded
  <2> QED BY <2>1, <1>4
<1> HIDE DEF popped
<1>8. PICK d2 : Coded(popped, d2, o, s) /\ Keeps(test, d1, popped, d2)
  BY <1>7
<1>9. Keeps(c, d, popped, d2) /\ Jumps(popped, d2, n, t)
  BY <1>5, <1>8, Further
<1>10. CASE e = parse_and(c)
  <2>1. e = patch_jump(Operand(popped), n)
    BY <1>10, <1>1 DEF parse_and, popped, test
  <2>2. PICK d3 : Coded(e, d3, o \ {n}, t) /\ Keeps(popped, d2, e, d3)
    BY <2>1, <1>8, <1>9, JoinAdded
  <2>3. Coded(e, d3, open, t)
    BY <2>2, <1>4, CodedMore
  <2>4. Keeps(c, d, e, d3)
    BY <2>2, <1>8, <1>9, Further
  <2> QED BY <2>3, <2>4
<1>11. ASSUME NEW b, NEW db, Coded(b, db, o, t), Keeps(c, d, b, db), Jumps(b, db, n, t),
              LET jump == emit_jump(b, "jump")
              IN  e = patch_jump(Operand(emit_byte(patch_jump(jump, n), "pop")), Len(jump))
       PROVE  \E d3 : Coded(e, d3, open, t) /\ Keeps(c, d, e, d3)
  <2> DEFINE jump == emit_jump(b, "jump")
             else == emit_byte(patch_jump(jump, n), "pop")
             m == Len(b) + 1
             p == (o \cup {m}) \ {n}
  <2>1. /\ Len(jump) = m
        /\ \E d3 : Coded(else, d3, p, s) /\ Keeps(b, db, else, d3) /\ Jumps(else, d3, m, t)
    <3> HIDE DEF t
    <3>1. /\ Len(jump) = m
          /\ \E d3 : Coded(else, d3, p, Bottom(t, Len(t) - 1)) /\ Keeps(b, db, else, d3) /\ Jumps(else, d3, m, t)
      BY <1>4, <1>6, <1>11, ElseAdded
    <3> QED BY <3>1, <1>4
  <2>2. e = patch_jump(Operand(else), m)
    BY <1>11, <2>1
  <2>3. p \ {m} \subseteq open
    BY <1>4
  <2> HIDE DEF jump, else, m, p
  <2>4. PICK d3 : Coded(else, d3, p, s) /\ Keeps(b, db, else, d3) /\ Jumps(else, d3, m, t)
    BY <2>1
  <2>5. PICK d4 : Coded(e, d4, p \ {m}, t) /\ Keeps(else, d3, e, d4)
    BY <2>2, <2>4, JoinAdded
  <2>6. Coded(e, d4, open, t)
    BY <2>3, <2>5, CodedMore
  <2>7. Keeps(c, d, else, d3)
    BY <2>4, <1>11, Further
  <2>8. Keeps(c, d, e, d4)
    BY <2>4, <2>5, <2>7, Further
  <2> QED BY <2>6, <2>8
<1>12. CASE e = parse_or(c)
  <2>1. LET jump == emit_jump(test, "jump")
        IN  e = patch_jump(Operand(emit_byte(patch_jump(jump, n), "pop")), Len(jump))
    BY <1>12, <1>1 DEF parse_or, test
  <2> QED BY <2>1, <1>5, <1>11
<1>13. CASE e = parse_ternary(c)
  <2> DEFINE b == Operand(popped)
  <2>1. LET jump == emit_jump(b, "jump")
        IN  e = patch_jump(Operand(emit_byte(patch_jump(jump, n), "pop")), Len(jump))
    BY <1>13, <1>1 DEF parse_ternary, popped, test
  <2>2. \E d3 : Coded(b, d3, o, t) /\ Keeps(popped, d2, b, d3)
    BY <1>8, OperandPushed
  <2> HIDE DEF b
  <2>3. PICK d3 : Coded(b, d3, o, t) /\ Keeps(popped, d2, b, d3)
    BY <2>2
  <2>4. Keeps(c, d, b, d3) /\ Jumps(b, d3, n, t)
    BY <2>3, <1>8, <1>9, Further
  <2> QED BY <2>1, <2>3, <2>4, <1>11
<1> QED BY <1>10, <1>12, <1>13 DEF Branching

\* The locals are the lowest cells of the stack.
LocalsLie(s) == Len(locals) <= Len(s) /\ \A k \in DOMAIN locals : s[k] = locals[k].id

\* Each expression leaves one value; a local is where the compiler takes it to be.
LEMMA ExpressionPushes ==
  ASSUME locals \in Seq(Locals), NEW c, NEW d, NEW open, NEW s, Coded(c, d, open, s),
         Len(s) < StackMax, LocalsLie(s), NEW e \in Expressions(c)
  PROVE  \E d2 : Coded(e, d2, open, Append(s, 0)) /\ Keeps(c, d, e, d2)
<1>1. CASE e = Operand(c)
  BY <1>1, OperandPushed
<1>2. s \in Seq(Nat) /\ Len(s) \in Nat /\ DOMAIN s = 1..Len(s) /\ DOMAIN locals = 1..Len(locals)
      /\ Len(locals) \in Nat
  BY CodedTypes
<1>3. ASSUME NEW x \in Names, IsLocal(x)
      PROVE  /\ resolve_local(x) \in DOMAIN locals /\ resolve_local(x) \in DOMAIN s
             /\ resolve_local(x) \in Nat /\ locals[resolve_local(x)].id \in Nat
             /\ s[resolve_local(x)] = locals[resolve_local(x)].id
  <2>1. resolve_local(x) \in DOMAIN locals
    BY <1>3, ResolvedLocal
  <2> DEFINE k == resolve_local(x)
  <2> HIDE DEF k
  <2>2. k \in 1..Len(locals) /\ locals[k] \in Locals
    BY <2>1, <1>2 DEF k
  <2>3. s[k] = locals[k].id /\ locals[k].id \in Nat /\ k \in 1..Len(s)
    <3>1. locals[k].id \in Nat
      BY <2>2 DEF Locals
    <3>2. s[k] = locals[k].id /\ Len(locals) <= Len(s)
      BY <2>2, <1>2 DEF LocalsLie
    <3> QED BY <3>1, <3>2, <2>2, <1>2
  <2> QED BY <2>2, <2>3, <1>2 DEF k
<1>4. CASE \E x \in Names : e = Access(c, x, "get_local", "push")
  <2>1. PICK x \in Names : e = Access(c, x, "get_local", "push")
    BY <1>4
  <2>2. CASE IsLocal(x)
    <3> DEFINE k == resolve_local(x)
               id == locals[k].id
    <3>1. e = Append(c, Instruction("get_local", k, id, 0))
      BY <2>1, <2>2 DEF Access
    <3>2. k \in DOMAIN s /\ k \in Nat /\ id \in Nat /\ s[k] = id
      BY <2>2, <1>3
    <3> HIDE DEF k, id
    <3> QED BY <3>1, <3>2, Pushed
  <2>3. CASE ~ IsLocal(x)
    <3>1. e = Append(c, Instruction("push", 0, 0, 0))
      BY <2>1, <2>3 DEF Access, emit_byte
    <3> QED BY <3>1, Pushed
  <2> QED BY <2>2, <2>3
<1>5. CASE \E x \in Names : e = Access(Operand(c), x, "set_local", "set_global")
  <2> DEFINE c1 == Operand(c)
             t == Append(s, 0)
  <2>1. PICK x \in Names : e = Access(c1, x, "set_local", "set_global")
    BY <1>5
  <2>2. \E d1 : Coded(c1, d1, open, t) /\ Keeps(c, d, c1, d1)
    BY OperandPushed
  <2>3. t \in Seq(Nat) /\ Len(t) = Len(s) + 1 /\ \A k \in 1..Len(s) : t[k] = s[k]
    BY <1>2
  <2> HIDE DEF c1, t
  <2>4. PICK d1 : Coded(c1, d1, open, t) /\ Keeps(c, d, c1, d1)
    BY <2>2
  <2>5. \E d2 : Coded(e, d2, open, t) /\ Keeps(c1, d1, e, d2)
    <3>1. CASE IsLocal(x)
      <4> DEFINE k == resolve_local(x)
                 id == locals[k].id
      <4>1. e = Append(c1, Instruction("set_local", k, id, 0))
        BY <2>1, <3>1 DEF Access
      <4>2. k \in DOMAIN t /\ k \in Nat /\ id \in Nat /\ t[k] = id
        BY <3>1, <1>2, <1>3, <2>3
      <4> HIDE DEF k, id
      <4> QED BY <2>4, <4>1, <4>2, NeutralAdded
    <3>2. CASE ~ IsLocal(x)
      <4>1. e = Append(c1, Instruction("set_global", 0, 0, 0))
        BY <2>1, <3>2 DEF Access, emit_byte
      <4> QED BY <2>4, <4>1, NeutralAdded
    <3> QED BY <3>1, <3>2
  <2>6. PICK d2 : Coded(e, d2, open, t) /\ Keeps(c1, d1, e, d2)
    BY <2>5
  <2>7. Keeps(c, d, e, d2)
    BY <2>4, <2>6, Further
  <2> QED BY <2>6, <2>7 DEF t
<1> QED BY <1>1, <1>4, <1>5 DEF Expressions

-----------------------------------------------------------------------------
(* What the parser has left to do, and what the stack holds when it does.  *)

\* Where the parser is: the locals, the stack, where each loop around begins, and
\* the depth of the scope.
Settings == [locals : Seq(Locals), stack : Seq(Nat), loops : Seq(Nat), scope : Nat]

Setting(l, s, o, z) == [locals |-> l, stack |-> s, loops |-> o, scope |-> z]

\* The stack t is the lowest cells of s.
Begins(t, s) == Len(t) <= Len(s) /\ t = Bottom(s, Len(t))

\* The locals are the lowest cells of the stack, and the loops do not pop what was
\* there when they began.
Lies(a, d) ==
  /\ a \in Settings
  /\ Len(a.locals) \in 1..Len(a.stack)
  /\ \A k \in DOMAIN a.locals : a.stack[k] = a.locals[k].id /\ a.locals[k].depth \in 0..a.scope
  /\ \A k \in DOMAIN a.loops : a.loops[k] \in DOMAIN d /\ Begins(d[a.loops[k]], a.stack)

\* The scope of a is in that of b, and has the locals that b does not have.
Inner(a, b) ==
  /\ b.scope = a.scope - 1
  /\ b.loops = a.loops
  /\ Len(b.locals) <= Len(a.locals)
  /\ \A k \in DOMAIN b.locals : b.locals[k] = a.locals[k]
  /\ \A k \in DOMAIN a.locals : a.locals[k].depth < a.scope <=> k <= Len(b.locals)

BlockEnds(a, b) ==
  Inner(a, b) /\ b.stack = Bottom(a.stack, Len(a.stack) - (Len(a.locals) - Len(b.locals)))

LoopEnding(e, a, b, c, d) ==
  /\ a.loops # <<>>
  /\ b.locals = a.locals /\ b.stack = a.stack /\ b.scope = a.scope
  /\ b.loops = Tail(a.loops)
  /\ e.start = Head(a.loops) /\ d[e.start] = a.stack
  /\ e.exit # 0 => Jumps(c, d, e.exit, Append(a.stack, 0))

MatchEnds(e, a, b, c, d) ==
  /\ Inner(a, b) /\ b.locals = a.locals
  /\ b.stack = Bottom(a.stack, Len(a.stack) - 1)
  /\ c[e.start].op = "match" /\ c[e.start - 1].def = a.stack[Len(a.stack)]
  /\ e.exit = 0
  /\ \A jump \in e.ends : Jumps(c, d, jump, a.stack)

ArmEnds(a, b) == Inner(a, b) /\ b.locals = a.locals /\ b.stack = a.stack

\* The entries of statements that are marked when they are complete.
Compounds == {"end_block", "end_then", "end_if", "end_while", "end_for", "arms", "end_match"}

\* When the parser comes back to the entry it is where a says, and when it has done
\* what the entry asks for it is where b says.
Held(e, a, b, c, d) ==
  /\ e.at \in {"declarations", "statement", "arm", "end_then", "end_if"} => a = b
  /\ e.at \in {"declarations", "statement", "arm", "end_block", "end_default"} => e.exit = 0
  /\ e.at \notin {"arms", "end_match"} => e.ends = {}
  /\ e.at \in Compounds =>
       e.first \in DOMAIN d /\ Len(d[e.first]) = e.before /\ e.before = Len(b.stack)
  /\ e.at = "end_block" => BlockEnds(a, b)
  /\ e.at = "end_then" => Jumps(c, d, e.exit, Append(a.stack, 0))
  /\ e.at = "end_if" => Jumps(c, d, e.exit, a.stack)
  /\ e.at \in {"end_while", "end_for"} => LoopEnding(e, a, b, c, d)
  /\ e.at \in {"arms", "end_match"} => MatchEnds(e, a, b, c, d)
  /\ e.at \in {"end_arm", "end_default"} => ArmEnds(a, b)
  /\ e.at = "end_arm" => Jumps(c, d, e.exit, a.stack)

\* Only a scope encloses a list of declarations or the statement of an arm, and a
\* match that has its default ends at once.
Ordered(w) ==
  \A k \in DOMAIN w :
    /\ w[k].at \in {"declarations", "arm"} /\ k < Len(w) => w[k + 1].at \in {"end_block", "end_arm", "end_default"}
    /\ w[k].at = "end_match" => k = 1

\* x says where the parser will be for each entry of its work, and at the end.
WorkHolds(w, x, c, d) ==
  /\ x \in Seq(Settings) /\ Len(x) = Len(w) + 1
  /\ \A k \in DOMAIN x : Lies(x[k], d)
  /\ \A k \in DOMAIN w : Held(w[k], x[k], x[k + 1], c, d)
  /\ x[Len(x)].loops = <<>>

\* A loop knows how deep the stack was where it began, and its break carries that.
LoopsHold(l, c, d) ==
  \A k \in DOMAIN l :
    /\ l[k].start \in DOMAIN d /\ l[k].depth = Len(d[l[k].start])
    /\ l[k].end # 0 => Jumps(c, d, l[k].end, d[l[k].start])

\* The matches whose values are on the stack.
Values(w) == Cardinality({k \in DOMAIN w : w[k].at \in {"arms", "end_match"}})

Starts(l) == [k \in DOMAIN l |-> l[k].start]

\* The jumps an entry will patch, those of all entries, and those of the loops.
Own(e) == ({e.exit} \cup e.ends) \ {0}
OpenWork(w) == UNION {Own(w[k]) : k \in DOMAIN w}
OpenLoops(l) == {l[k].end : k \in DOMAIN l} \ {0}
Open(w, l) == OpenWork(w) \cup OpenLoops(l)

\* The statements parsed begin and end with the stack as deep as they say.
MarksHold(d) ==
  \A m \in marks : /\ m.first \in DOMAIN d /\ Len(d[m.first]) = m.before
                   /\ m.end \in DOMAIN d /\ Len(d[m.end]) = m.after

\* d and x account for what the compiler has done and has left to do.
Accounts(d, x) ==
  /\ Coded(code, d, Open(work, loops), x[1].stack)
  /\ WorkHolds(work, x, code, d)
  /\ Ordered(work)
  /\ x[1].locals = locals /\ x[1].loops = Starts(loops) /\ x[1].scope = scope_depth
  /\ LoopsHold(loops, code, d)
  /\ Len(x[1].stack) = Len(locals) + Values(work)
  /\ budget \in Nat /\ Len(x[1].stack) + budget <= StatementsMax + 2
  /\ MarksHold(d)
  /\ stack = d[1]

\* What a setting needs stays true when code is added.
LEMMA LiesLater ==
  ASSUME NEW c, NEW d, NEW c2, NEW d2, Keeps(c, d, c2, d2), d \in Seq(Seq(Nat)), d2 \in Seq(Seq(Nat)),
         NEW a, Lies(a, d)
  PROVE  Lies(a, d2)
<1>1. DOMAIN d \subseteq DOMAIN d2 /\ \A k \in DOMAIN d : d2[k] = d[k]
  BY DEF Keeps
<1>2. \A k \in DOMAIN a.loops : a.loops[k] \in DOMAIN d2 /\ Begins(d2[a.loops[k]], a.stack)
  BY <1>1 DEF Lies
<1> QED BY <1>2 DEF Lies

\* So does what an entry needs.
LEMMA HeldLater ==
  ASSUME NEW c, NEW d, NEW open, NEW s, Coded(c, d, open, s),
         NEW c2, NEW d2, NEW open2, NEW s2, Coded(c2, d2, open2, s2), Keeps(c, d, c2, d2),
         NEW e, Fits(e, c), NEW a, NEW b, Held(e, a, b, c, d), Lies(a, d)
  PROVE  Held(e, a, b, c2, d2)
<1>1. c \in Seq(Instructions) /\ d \in Seq(Seq(Nat)) /\ Len(d) = Len(c) + 1
  BY CodedTypes
<1>2. c2 \in Seq(Instructions) /\ d2 \in Seq(Seq(Nat))
  BY CodedTypes
<1>3. \A j, to : Jumps(c, d, j, to) => Jumps(c2, d2, j, to)
  BY <1>1, <1>2, CarriedOn
<1>4. DOMAIN d \subseteq DOMAIN d2 /\ \A k \in DOMAIN d : d2[k] = d[k]
  BY <1>1, <1>2 DEF Keeps
<1>5. ASSUME e.at \in {"end_while", "end_for"}, LoopEnding(e, a, b, c, d)
      PROVE  LoopEnding(e, a, b, c2, d2)
  <2>1. a.loops \in Seq(Nat) /\ a.loops # <<>> /\ e.start = Head(a.loops)
    BY <1>5 DEF LoopEnding, Lies, Settings
  <2>2. 1 \in DOMAIN a.loops /\ Head(a.loops) = a.loops[1]
    BY <2>1
  <2>3. e.start \in DOMAIN d
    BY <2>1, <2>2 DEF Lies
  <2> QED BY <1>3, <1>4, <1>5, <2>3 DEF LoopEnding
<1>6. ASSUME e.at \in {"arms", "end_match"}, MatchEnds(e, a, b, c, d)
      PROVE  MatchEnds(e, a, b, c2, d2)
  <2>1. e.start \in 2..Len(c)
    BY <1>6 DEF Fits
  <2>2. e.start \in DOMAIN c /\ e.start - 1 \in DOMAIN c
    BY <2>1, <1>1
  <2>3. c2[e.start].op = c[e.start].op /\ c2[e.start - 1].def = c[e.start - 1].def
    <3> DEFINE j == e.start - 1
    <3>1. j \in DOMAIN c
      BY <2>2
    <3> HIDE DEF j
    <3>2. c2[j].def = c[j].def
      BY <3>1 DEF Keeps
    <3> QED BY <3>2, <2>2 DEF j, Keeps
  <2> QED BY <1>3, <1>6, <2>3 DEF MatchEnds
<1>7. e.at \in Compounds => e.first \in DOMAIN d2 /\ Len(d2[e.first]) = e.before /\ e.before = Len(b.stack)
  BY <1>4 DEF Held
<1> QED BY <1>3, <1>5, <1>6, <1>7 DEF Held

\* So does what all of them need.
LEMMA WorkHoldsLater ==
  ASSUME NEW c, NEW d, NEW open, NEW s, Coded(c, d, open, s),
         NEW c2, NEW d2, NEW open2, NEW s2, Coded(c2, d2, open2, s2), Keeps(c, d, c2, d2),
         NEW w, WorkFits(w, c), NEW x, WorkHolds(w, x, c, d)
  PROVE  WorkHolds(w, x, c2, d2)
<1>1. d \in Seq(Seq(Nat)) /\ d2 \in Seq(Seq(Nat))
  BY CodedTypes
<1>2. \A k \in DOMAIN x : Lies(x[k], d) /\ Lies(x[k], d2)
  BY <1>1, LiesLater DEF WorkHolds
<1>3. w \in Seq(Entries) /\ x \in Seq(Settings) /\ Len(x) = Len(w) + 1
  BY DEF WorkFits, WorkHolds
<1>4. ASSUME NEW k \in DOMAIN w PROVE Held(w[k], x[k], x[k + 1], c2, d2)
  <2>1. Fits(w[k], c) /\ Held(w[k], x[k], x[k + 1], c, d)
    BY DEF WorkFits, WorkHolds
  <2>2. k \in DOMAIN x
    BY <1>3
  <2> QED BY <2>1, <2>2, <1>2, HeldLater
<1> QED BY <1>2, <1>4 DEF WorkHolds

\* So does what the loops and the marks need.
LEMMA LoopsHoldLater ==
  ASSUME NEW c, NEW d, NEW open, NEW s, Coded(c, d, open, s),
         NEW c2, NEW d2, NEW open2, NEW s2, Coded(c2, d2, open2, s2), Keeps(c, d, c2, d2),
         NEW l, LoopsHold(l, c, d)
  PROVE  LoopsHold(l, c2, d2)
<1>1. c \in Seq(Instructions) /\ d \in Seq(Seq(Nat)) /\ Len(d) = Len(c) + 1
  BY CodedTypes
<1>2. c2 \in Seq(Instructions) /\ d2 \in Seq(Seq(Nat))
  BY CodedTypes
<1>3. \A j, to : Jumps(c, d, j, to) => Jumps(c2, d2, j, to)
  BY <1>1, <1>2, CarriedOn
<1>4. DOMAIN d \subseteq DOMAIN d2 /\ \A k \in DOMAIN d : d2[k] = d[k]
  BY <1>1, <1>2 DEF Keeps
<1> QED BY <1>3, <1>4 DEF LoopsHold

\* And so do the marks.
LEMMA MarksHoldLater ==
  ASSUME NEW c, NEW d, NEW open, NEW s, Coded(c, d, open, s),
         NEW c2, NEW d2, NEW open2, NEW s2, Coded(c2, d2, open2, s2), Keeps(c, d, c2, d2),
         MarksHold(d)
  PROVE  MarksHold(d2)
<1>1. d \in Seq(Seq(Nat)) /\ d2 \in Seq(Seq(Nat))
  BY CodedTypes
<1>2. DOMAIN d \subseteq DOMAIN d2 /\ \A k \in DOMAIN d : d2[k] = d[k]
  BY <1>1 DEF Keeps
<1> QED BY <1>2 DEF MarksHold

\* Without its first entry the work still holds.
LEMMA WorkHoldsTail ==
  ASSUME NEW w \in Seq(Entries), w # <<>>, NEW c, NEW d, NEW x, WorkHolds(w, x, c, d)
  PROVE  /\ WorkHolds(Tail(w), Tail(x), c, d)
         /\ x[1] \in Settings /\ x[2] \in Settings /\ Lies(x[1], d) /\ Lies(x[2], d)
         /\ Tail(x)[1] = x[2] /\ Tail(x) \in Seq(Settings) /\ x = <<x[1]>> \o Tail(x)
         /\ Held(Head(w), x[1], x[2], c, d)
<1>1. PICK n \in Nat : n = Len(w) /\ n >= 1 /\ DOMAIN w = 1..n
  OBVIOUS
<1>2. x \in Seq(Settings) /\ Len(x) = n + 1 /\ DOMAIN x = 1..(n + 1)
  BY <1>1 DEF WorkHolds
<1> DEFINE v == Tail(w)
           y == Tail(x)
<1>3. v \in Seq(Entries) /\ Len(v) = n - 1 /\ DOMAIN v = 1..(n - 1) /\ \A k \in 1..(n - 1) : v[k] = w[k + 1]
  BY <1>1
<1>4. y \in Seq(Settings) /\ Len(y) = n /\ DOMAIN y = 1..n /\ \A k \in 1..n : y[k] = x[k + 1]
  BY <1>1, <1>2
<1>5. x = <<x[1]>> \o y
  <2> HIDE DEF y
  <2> DEFINE z == <<x[1]>> \o y
  <2>1. <<x[1]>> \in Seq(Settings) /\ Len(<<x[1]>>) = 1 /\ <<x[1]>>[1] = x[1]
    BY <1>2
  <2>2. /\ z \in Seq(Settings) /\ Len(z) = 1 + n /\ z[1] = x[1] /\ \A k \in 1..n : z[1 + k] = y[k]
    <3> DEFINE q == <<x[1]>>
    <3> HIDE DEF q
    <3>1. /\ q \o y \in Seq(Settings) /\ Len(q \o y) = Len(q) + Len(y)
          /\ \A k \in 1..Len(q) : (q \o y)[k] = q[k]
          /\ \A k \in 1..Len(y) : (q \o y)[Len(q) + k] = y[k]
      <4>1. q \in Seq(Settings)
        BY <2>1 DEF q
      <4> QED BY SMTT(30), <4>1, <1>4, ConcatFacts
    <3> QED BY <3>1, <2>1, <1>4 DEF q
  <2> HIDE DEF z
  <2>3. \A k \in 1..(n + 1) : x[k] = z[k]
    <3> TAKE k \in 1..(n + 1)
    <3>1. CASE k = 1
      BY <3>1, <2>2
    <3>2. CASE k # 1
      <4>1. k - 1 \in 1..n /\ 1 + (k - 1) = k /\ (k - 1) + 1 = k
        BY <3>2, <1>1
      <4> DEFINE j == k - 1
      <4>2. j \in 1..n /\ 1 + j = k /\ j + 1 = k
        BY <4>1
      <4> HIDE DEF j
      <4> QED BY <4>2, <2>2, <1>4
    <3> QED BY <3>1, <3>2
  <2>4. Len(x) = Len(z)
    BY <1>1, <1>2, <2>2
  <2>5. x = z
    BY <1>2, <2>2, <2>3, <2>4, SeqEqual
  <2> QED BY <2>5 DEF z
<1> HIDE DEF v, y
<1>6. \A k \in DOMAIN y : Lies(y[k], d)
  <2> TAKE k \in DOMAIN y
  <2>1. k + 1 \in DOMAIN x /\ y[k] = x[k + 1]
    BY <1>1, <1>2, <1>4
  <2> QED BY <2>1 DEF WorkHolds
<1>7. \A k \in DOMAIN v : Held(v[k], y[k], y[k + 1], c, d)
  <2> TAKE k \in DOMAIN v
  <2> DEFINE j == k + 1
  <2>1. j \in DOMAIN w /\ v[k] = w[j] /\ y[k] = x[j] /\ y[j] = x[j + 1]
    BY <1>1, <1>3, <1>4
  <2> HIDE DEF j
  <2>2. Held(w[j], x[j], x[j + 1], c, d)
    BY <2>1 DEF WorkHolds
  <2> QED BY <2>1, <2>2 DEF j
<1>8. y[Len(y)].loops = <<>>
  <2>1. y[n] = x[n + 1] /\ x[Len(x)].loops = <<>>
    BY <1>1, <1>4 DEF WorkHolds
  <2> QED BY <2>1, <1>2, <1>4
<1>9. WorkHolds(v, y, c, d)
  <2>1. Len(y) = Len(v) + 1
    BY <1>1, <1>3, <1>4
  <2> QED BY <2>1, <1>4, <1>6, <1>7, <1>8 DEF WorkHolds
<1>10. 1 \in DOMAIN x /\ 2 \in DOMAIN x /\ 1 \in DOMAIN w /\ Head(w) = w[1] /\ y[1] = x[2]
  <2>1. 1 \in 1..n /\ 1 + 1 = 2
    BY <1>1
  <2>2. y[1] = x[1 + 1]
    BY <2>1, <1>4
  <2> QED BY <2>1, <2>2, <1>1, <1>2
<1>11. /\ x[1] \in Settings /\ x[2] \in Settings /\ Lies(x[1], d) /\ Lies(x[2], d)
       /\ Held(Head(w), x[1], x[2], c, d)
  <2>1. Held(w[1], x[1], x[1 + 1], c, d)
    BY <1>10 DEF WorkHolds
  <2> QED BY <2>1, <1>2, <1>10 DEF WorkHolds
<1> QED BY <1>4, <1>5, <1>9, <1>10, <1>11 DEF v, y

\* With one more entry the work holds, if the parser is where the entry needs it.
LEMMA WorkHoldsCons ==
  ASSUME NEW w \in Seq(Entries), NEW c, NEW d, NEW x, WorkHolds(w, x, c, d),
         NEW e \in Entries, NEW a, Lies(a, d), Held(e, a, x[1], c, d)
  PROVE  /\ WorkHolds(<<e>> \o w, <<a>> \o x, c, d)
         /\ (<<a>> \o x)[1] = a
<1> DEFINE v == <<e>> \o w
           y == <<a>> \o x
<1>1. PICK n \in Nat : n = Len(w) /\ DOMAIN w = 1..n
  OBVIOUS
<1>2. x \in Seq(Settings) /\ Len(x) = n + 1 /\ DOMAIN x = 1..(n + 1) /\ a \in Settings
  BY <1>1 DEF WorkHolds, Lies
<1>3. v \in Seq(Entries) /\ Len(v) = n + 1 /\ DOMAIN v = 1..(n + 1) /\ v[1] = e /\ \A k \in 1..n : v[k + 1] = w[k]
  BY <1>1, ConsFacts
<1>4. y \in Seq(Settings) /\ Len(y) = n + 2 /\ DOMAIN y = 1..(n + 2) /\ y[1] = a /\ \A k \in 1..(n + 1) : y[k + 1] = x[k]
  <2>1. /\ y \in Seq(Settings) /\ Len(y) = Len(x) + 1 /\ DOMAIN y = 1..(Len(x) + 1) /\ y[1] = a
        /\ \A k \in 1..Len(x) : y[k + 1] = x[k]
    BY <1>2, ConsFacts
  <2> HIDE DEF y
  <2> QED BY <2>1, <1>1, <1>2
<1> HIDE DEF v, y
<1>5. \A k \in DOMAIN y : Lies(y[k], d)
  <2> TAKE k \in DOMAIN y
  <2>1. CASE k = 1
    BY <2>1, <1>4
  <2>2. CASE k # 1
    <3> DEFINE j == k - 1
    <3>1. j \in 1..(n + 1) /\ j + 1 = k
      BY <2>2, <1>1, <1>4
    <3> HIDE DEF j
    <3> QED BY <3>1, <1>2, <1>4 DEF WorkHolds
  <2> QED BY <2>1, <2>2
<1>6. \A k \in DOMAIN v : Held(v[k], y[k], y[k + 1], c, d)
  <2> TAKE k \in DOMAIN v
  <2>1. CASE k = 1
    <3>1. y[1 + 1] = x[1]
      BY <1>1, <1>4
    <3> QED BY <2>1, <3>1, <1>3, <1>4
  <2>2. CASE k # 1
    <3> DEFINE j == k - 1
    <3>1. j \in 1..n /\ j + 1 = k /\ j \in 1..(n + 1) /\ k \in 1..(n + 1)
      BY <2>2, <1>1, <1>3
    <3> HIDE DEF j
    <3>2. v[k] = w[j] /\ y[k] = x[j] /\ y[k + 1] = x[k]
      BY <3>1, <1>3, <1>4
    <3>3. Held(w[j], x[j], x[j + 1], c, d)
      BY <3>1, <1>1 DEF WorkHolds
    <3> QED BY <3>1, <3>2, <3>3
  <2> QED BY <2>1, <2>2
<1>7. y[Len(y)].loops = <<>>
  <2>1. y[n + 2] = x[n + 1]
    <3> DEFINE j == n + 1
    <3>1. j \in 1..(n + 1) /\ j + 1 = n + 2
      BY <1>1
    <3> HIDE DEF j
    <3>2. y[j + 1] = x[j]
      BY <3>1, <1>4
    <3> QED BY <3>1, <3>2 DEF j
  <2>2. x[n + 1].loops = <<>>
    BY <1>2 DEF WorkHolds
  <2> QED BY <2>1, <2>2, <1>4
<1>8. Len(y) = Len(v) + 1
  BY <1>1, <1>3, <1>4
<1> QED BY <1>4, <1>5, <1>6, <1>7, <1>8 DEF WorkHolds, v, y

\* The work stays in order without its first entry and with another.
LEMMA OrderedTail ==
  ASSUME NEW w \in Seq(Entries), w # <<>>, Ordered(w)
  PROVE  /\ Ordered(Tail(w))
         /\ Tail(w) # <<>> => /\ Head(Tail(w)).at # "end_match"
                              /\ Head(w).at \in {"declarations", "arm"} =>
                                   Head(Tail(w)).at \in {"end_block", "end_arm", "end_default"}
<1>1. PICK n \in Nat : n = Len(w) /\ n >= 1 /\ DOMAIN w = 1..n /\ Head(w) = w[1]
  OBVIOUS
<1> DEFINE v == Tail(w)
<1>2. v \in Seq(Entries) /\ Len(v) = n - 1 /\ DOMAIN v = 1..(n - 1) /\ \A k \in 1..(n - 1) : v[k] = w[k + 1]
  BY <1>1
<1> HIDE DEF v
<1>3. ASSUME NEW k \in DOMAIN v
      PROVE  /\ v[k].at \in {"declarations", "arm"} /\ k < Len(v) =>
                  v[k + 1].at \in {"end_block", "end_arm", "end_default"}
             /\ v[k].at # "end_match"
  <2> DEFINE j == k + 1
  <2>1. j \in DOMAIN w /\ v[k] = w[j] /\ (k < Len(v) => j < Len(w) /\ v[j] = w[j + 1]) /\ j # 1
    BY <1>1, <1>2
  <2> HIDE DEF j
  <2>2. /\ w[j].at \in {"declarations", "arm"} /\ j < Len(w) => w[j + 1].at \in {"end_block", "end_arm", "end_default"}
        /\ w[j].at # "end_match"
    BY <2>1 DEF Ordered
  <2> QED BY <2>1, <2>2 DEF j
<1>4. ASSUME v # <<>>
      PROVE  /\ Head(v).at # "end_match"
             /\ w[1].at \in {"declarations", "arm"} => Head(v).at \in {"end_block", "end_arm", "end_default"}
  <2>1. 1 \in DOMAIN v /\ Head(v) = v[1] /\ 1 \in DOMAIN w /\ 1 < Len(w) /\ v[1] = w[1 + 1]
    BY <1>1, <1>2, <1>4
  <2>2. w[1].at \in {"declarations", "arm"} => w[1 + 1].at \in {"end_block", "end_arm", "end_default"}
    BY <2>1 DEF Ordered
  <2> QED BY <2>1, <2>2, <1>3
<1> QED BY <1>1, <1>3, <1>4 DEF Ordered, v

\* It stays in order with another entry.
LEMMA OrderedCons ==
  ASSUME NEW w \in Seq(Entries), Ordered(w), w # <<>> => Head(w).at # "end_match",
         NEW e \in Entries,
         e.at \in {"declarations", "arm"} /\ w # <<>> => Head(w).at \in {"end_block", "end_arm", "end_default"}
  PROVE  Ordered(<<e>> \o w)
<1> DEFINE v == <<e>> \o w
<1>1. PICK n \in Nat : n = Len(w) /\ DOMAIN w = 1..n
  OBVIOUS
<1>2. v \in Seq(Entries) /\ Len(v) = n + 1 /\ DOMAIN v = 1..(n + 1) /\ v[1] = e /\ \A k \in 1..n : v[k + 1] = w[k]
  BY <1>1, ConsFacts
<1> HIDE DEF v
<1>3. w # <<>> => n >= 1 /\ Head(w) = w[1]
  BY <1>1
<1>4. \A k \in DOMAIN w : w[k].at # "end_match"
  <2> TAKE k \in DOMAIN w
  <2>1. w # <<>>
    BY <1>1
  <2>2. CASE k = 1
    BY <2>1, <2>2, <1>3
  <2>3. CASE k # 1
    BY <2>3 DEF Ordered
  <2> QED BY <2>2, <2>3
<1>5. ASSUME NEW k \in DOMAIN v
      PROVE  /\ v[k].at \in {"declarations", "arm"} /\ k < Len(v) =>
                  v[k + 1].at \in {"end_block", "end_arm", "end_default"}
             /\ v[k].at = "end_match" => k = 1
  <2>1. CASE k = 1
    <3>1. v[1] = e
      BY <1>2
    <3>2. k < Len(v) => w # <<>> /\ v[k + 1] = w[1]
      BY <2>1, <1>1, <1>2
    <3> QED BY <2>1, <3>1, <3>2, <1>3
  <2>2. CASE k # 1
    <3> DEFINE j == k - 1
    <3>1. j \in DOMAIN w /\ j + 1 = k /\ (k < Len(v) => j < Len(w) /\ k \in 1..n)
      BY <2>2, <1>1, <1>2
    <3> HIDE DEF j
    <3>2. v[k] = w[j] /\ (k < Len(v) => v[k + 1] = w[j + 1])
      BY <3>1, <1>1, <1>2
    <3>3. w[j].at \in {"declarations", "arm"} /\ j < Len(w) => w[j + 1].at \in {"end_block", "end_arm", "end_default"}
      BY <3>1 DEF Ordered
    <3> QED BY <3>1, <3>2, <3>3, <1>4
  <2> QED BY <2>1, <2>2
<1> QED BY <1>5 DEF Ordered, v

\* How many matches are open with another entry on the top.
LEMMA ValuesTail ==
  ASSUME NEW w \in Seq(Entries), w # <<>>
  PROVE  /\ Values(w) \in Nat /\ Values(Tail(w)) \in Nat
         /\ Head(w).at \in {"arms", "end_match"} => Values(w) = Values(Tail(w)) + 1
         /\ Head(w).at \notin {"arms", "end_match"} => Values(w) = Values(Tail(w))
<1> DEFINE A == {"arms", "end_match"}
           n == Cardinality({k \in DOMAIN w : w[k].at \in A})
           m == Cardinality({k \in DOMAIN Tail(w) : Tail(w)[k].at \in A})
<1>1. n \in Nat /\ m \in Nat /\ n = IF Head(w).at \in A THEN m + 1 ELSE m
  <2> HIDE DEF A
  <2> QED BY CountTail
<1>2. n = Values(w) /\ m = Values(Tail(w))
  BY DEF Values
<1> HIDE DEF n, m
<1> QED BY <1>1, <1>2

\* The same for an entry that is added.
LEMMA ValuesCons ==
  ASSUME NEW w \in Seq(Entries), NEW e \in Entries
  PROVE  /\ Values(w) \in Nat /\ Values(<<e>> \o w) \in Nat
         /\ e.at \in {"arms", "end_match"} => Values(<<e>> \o w) = Values(w) + 1
         /\ e.at \notin {"arms", "end_match"} => Values(<<e>> \o w) = Values(w)
<1> DEFINE v == <<e>> \o w
<1>1. v \in Seq(Entries) /\ v # <<>> /\ Head(v) = e /\ Tail(v) = w
  BY ConsFacts
<1> HIDE DEF v
<1>2. /\ Values(v) \in Nat /\ Values(Tail(v)) \in Nat
      /\ Head(v).at \in {"arms", "end_match"} => Values(v) = Values(Tail(v)) + 1
      /\ Head(v).at \notin {"arms", "end_match"} => Values(v) = Values(Tail(v))
  BY <1>1, ValuesTail
<1> QED BY <1>1, <1>2 DEF v

\* Where a statement may begin, each open match is at its arms; without one no
\* entry is.
LEMMA ValuesMatches ==
  ASSUME work \in Seq(Entries), work # <<>>, Ordered(work), Top.at # "end_match"
  PROVE  /\ Matches = Values(work) /\ Matches \in Nat
         /\ Matches = 0 => \A k \in DOMAIN work : work[k].at # "arms"
<1>1. DOMAIN work = 1..Len(work) /\ Len(work) \in Nat /\ Top = work[1]
  BY DEF Top
<1>2. \A k \in DOMAIN work : work[k].at # "end_match"
  <2> TAKE k \in DOMAIN work
  <2>1. CASE k = 1
    BY <2>1, <1>1
  <2>2. CASE k # 1
    BY <2>2 DEF Ordered
  <2> QED BY <2>1, <2>2
<1> DEFINE S == {k \in DOMAIN work : work[k].at = "arms"}
<1>3. S = {k \in DOMAIN work : work[k].at \in {"arms", "end_match"}}
  BY <1>2
<1>4. Matches = Values(work)
  BY <1>3 DEF Matches, Values
<1>5. IsFiniteSet(S)
  <2>1. IsFiniteSet(1..Len(work))
    BY <1>1, FS_Interval
  <2> QED BY <2>1, <1>1, FS_Subset
<1>6. Cardinality(S) \in Nat /\ (Cardinality(S) = 0 <=> S = {})
  BY <1>5, FS_CardinalityType, FS_EmptySet
<1> QED BY <1>4, <1>6 DEF Matches

\* The jumps left to patch.
LEMMA OpenTail ==
  ASSUME NEW w \in Seq(Entries), w # <<>>
  PROVE  OpenWork(w) = Own(Head(w)) \cup OpenWork(Tail(w))
<1>1. PICK n \in Nat : n = Len(w) /\ n >= 1 /\ DOMAIN w = 1..n /\ Head(w) = w[1]
  OBVIOUS
<1> DEFINE v == Tail(w)
<1>2. DOMAIN v = 1..(n - 1) /\ \A k \in 1..(n - 1) : v[k] = w[k + 1]
  BY <1>1
<1> HIDE DEF v
<1>3. ASSUME NEW k \in DOMAIN w
      PROVE  Own(w[k]) \subseteq Own(w[1]) \cup OpenWork(v)
  <2>1. CASE k = 1
    BY <2>1
  <2>2. CASE k # 1
    <3> DEFINE j == k - 1
    <3>1. j \in 1..(n - 1) /\ j + 1 = k
      BY <2>2, <1>1
    <3> HIDE DEF j
    <3>2. j \in DOMAIN v /\ v[j] = w[k]
      BY <3>1, <1>2
    <3> QED BY <3>2 DEF OpenWork
  <2> QED BY <2>1, <2>2
<1>4. ASSUME NEW k \in DOMAIN v
      PROVE  Own(v[k]) \subseteq OpenWork(w)
  <2> DEFINE j == k + 1
  <2>1. j \in DOMAIN w /\ v[k] = w[j]
    BY <1>1, <1>2
  <2> HIDE DEF j
  <2> QED BY <2>1 DEF OpenWork
<1>5. Own(w[1]) \subseteq OpenWork(w)
  <2>1. 1 \in DOMAIN w
    BY <1>1
  <2> QED BY <2>1 DEF OpenWork
<1>6. OpenWork(w) \subseteq Own(w[1]) \cup OpenWork(v)
  BY <1>3 DEF OpenWork
<1>7. OpenWork(v) \subseteq OpenWork(w)
  BY <1>4 DEF OpenWork
<1> QED BY <1>1, <1>5, <1>6, <1>7 DEF v

\* The same for an entry that is added.
LEMMA OpenCons ==
  ASSUME NEW w \in Seq(Entries), NEW e \in Entries
  PROVE  OpenWork(<<e>> \o w) = Own(e) \cup OpenWork(w)
<1> DEFINE v == <<e>> \o w
<1>1. v \in Seq(Entries) /\ v # <<>> /\ Head(v) = e /\ Tail(v) = w
  BY ConsFacts
<1> HIDE DEF v
<1> QED BY <1>1, OpenTail DEF v

\* A loop around, and the loops it is in.
LEMMA LoopsTail ==
  ASSUME NEW l \in Seq(Loops), l # <<>>
  PROVE  /\ OpenLoops(l) = ({l[1].end} \ {0}) \cup OpenLoops(Tail(l))
         /\ Starts(l) \in Seq(Nat) /\ Starts(l) # <<>> /\ Head(Starts(l)) = l[1].start
         /\ Tail(Starts(l)) = Starts(Tail(l))
         /\ Tail(l) \in Seq(Loops) /\ l[1] \in Loops /\ Head(l) = l[1]
         /\ \A c, d : LoopsHold(l, c, d) => LoopsHold(Tail(l), c, d)
<1>1. PICK n \in Nat : n = Len(l) /\ n >= 1 /\ DOMAIN l = 1..n /\ Head(l) = l[1]
  OBVIOUS
<1> DEFINE v == Tail(l)
<1>2. v \in Seq(Loops) /\ Len(v) = n - 1 /\ DOMAIN v = 1..(n - 1) /\ \A k \in 1..(n - 1) : v[k] = l[k + 1]
  BY <1>1
<1> HIDE DEF v
<1>3. \A k \in DOMAIN v : k + 1 \in DOMAIN l /\ v[k] = l[k + 1]
  BY <1>1, <1>2
<1>4. \A k \in DOMAIN l : k # 1 => k - 1 \in DOMAIN v /\ v[k - 1] = l[k]
  <2> TAKE k \in DOMAIN l
  <2> DEFINE j == k - 1
  <2>1. k # 1 => j \in 1..(n - 1) /\ j + 1 = k
    BY <1>1
  <2> HIDE DEF j
  <2>2. k # 1 => j \in DOMAIN v /\ v[j] = l[k]
    BY <2>1, <1>2
  <2> QED BY <2>2 DEF j
<1>5. OpenLoops(l) = ({l[1].end} \ {0}) \cup OpenLoops(v)
  <2>1. \A k \in DOMAIN l : k = 1 \/ \E j \in DOMAIN v : v[j] = l[k]
    BY <1>4
  <2>2. \A j \in DOMAIN v : \E k \in DOMAIN l : v[j] = l[k]
    BY <1>3
  <2>3. 1 \in DOMAIN l
    BY <1>1
  <2> QED BY <2>1, <2>2, <2>3 DEF OpenLoops
<1>6. \A k \in DOMAIN l : l[k] \in Loops /\ l[k].start \in Nat
  <2> TAKE k \in DOMAIN l
  <2>1. l[k] \in Loops
    OBVIOUS
  <2> QED BY <2>1 DEF Loops
<1> DEFINE s == Starts(l)
           t == Starts(v)
<1>7. s \in Seq(Nat) /\ Len(s) = n /\ DOMAIN s = 1..n /\ \A k \in 1..n : s[k] = l[k].start
  <2>1. s \in [1..n -> Nat] /\ \A k \in 1..n : s[k] = l[k].start
    BY <1>1, <1>6 DEF Starts
  <2> HIDE DEF s
  <2> QED BY <2>1
<1>8. t \in Seq(Nat) /\ Len(t) = n - 1 /\ \A k \in 1..(n - 1) : t[k] = v[k].start
  <2>1. \A k \in 1..(n - 1) : v[k].start \in Nat
    BY <1>2, <1>3, <1>6
  <2>2. t \in [1..(n - 1) -> Nat] /\ \A k \in 1..(n - 1) : t[k] = v[k].start
    BY <1>2, <2>1 DEF Starts
  <2> HIDE DEF t
  <2> QED BY <2>2, <1>1
<1> HIDE DEF s, t
<1>9. s # <<>> /\ Head(s) = l[1].start
  BY <1>1, <1>7
<1>10. Tail(s) = t
  <2> DEFINE u == Tail(s)
  <2>1. u \in Seq(Nat) /\ Len(u) = n - 1 /\ \A k \in 1..(n - 1) : u[k] = s[k + 1]
    BY <1>1, <1>7, <1>9
  <2> HIDE DEF u
  <2>2. \A k \in 1..(n - 1) : u[k] = t[k]
    <3> TAKE k \in 1..(n - 1)
    <3> DEFINE j == k + 1
    <3>1. j \in 1..n /\ u[k] = s[j] /\ v[k] = l[j]
      BY <1>1, <1>2, <2>1
    <3> HIDE DEF j
    <3> QED BY <3>1, <1>7, <1>8
  <2>3. u = t
    BY <2>1, <2>2, <1>1, <1>8, SeqEqual
  <2> QED BY <2>3 DEF u
<1>11. \A c, d : LoopsHold(l, c, d) => LoopsHold(v, c, d)
  BY <1>3 DEF LoopsHold
<1>12. l[1] \in Loops
  BY <1>1
<1> QED BY <1>1, <1>2, <1>5, <1>7, <1>9, <1>10, <1>11, <1>12 DEF s, t, v

\* A sequence is its first element before the others.
LEMMA HeadBeforeTail ==
  ASSUME NEW S, NEW s \in Seq(S), s # <<>>
  PROVE  s = <<Head(s)>> \o Tail(s)
<1>1. PICK n \in Nat : n = Len(s) /\ n >= 1 /\ DOMAIN s = 1..n /\ Head(s) = s[1] /\ Head(s) \in S
  OBVIOUS
<1> DEFINE t == Tail(s)
           e == Head(s)
           v == <<e>> \o t
<1>2. t \in Seq(S) /\ Len(t) = n - 1 /\ \A k \in 1..(n - 1) : t[k] = s[k + 1]
  BY <1>1
<1> HIDE DEF t
<1>3. v \in Seq(S) /\ Len(v) = n /\ v[1] = e /\ \A k \in 1..(n - 1) : v[k + 1] = t[k]
  <2>1. e \in S
    BY <1>1
  <2> HIDE DEF e
  <2>2. v \in Seq(S) /\ Len(v) = Len(t) + 1 /\ v[1] = e /\ \A k \in 1..Len(t) : v[k + 1] = t[k]
    BY <2>1, <1>2, ConsFacts
  <2> HIDE DEF v
  <2> QED BY <2>2, <1>1, <1>2
<1> HIDE DEF v
<1>4. \A k \in 1..n : s[k] = v[k]
  <2> TAKE k \in 1..n
  <2>1. CASE k = 1
    BY <2>1, <1>1, <1>3
  <2>2. CASE k # 1
    <3> DEFINE j == k - 1
    <3>1. j \in 1..(n - 1) /\ j + 1 = k
      BY <2>2, <1>1
    <3> HIDE DEF j
    <3> QED BY <3>1, <1>2, <1>3
  <2> QED BY <2>1, <2>2
<1>5. s = v
  BY <1>1, <1>3, <1>4, SeqEqual
<1> QED BY <1>5 DEF v, t, e

\* A loop begins where the parser is.
LEMMA LoopsCons ==
  ASSUME NEW l \in Seq(Loops), NEW start \in Nat, NEW depth \in Nat
  PROVE  LET m == <<[start |-> start, end |-> 0, depth |-> depth]>> \o l
         IN  /\ OpenLoops(m) = OpenLoops(l)
             /\ Starts(m) = <<start>> \o Starts(l)
             /\ Starts(l) \in Seq(Nat)
             /\ \A c, d : /\ LoopsHold(l, c, d)
                          /\ start \in DOMAIN d
                          /\ Len(d[start]) = depth
                          => LoopsHold(m, c, d)
<1> DEFINE e == [start |-> start, end |-> 0, depth |-> depth]
           m == <<e>> \o l
<1>1. e \in Loops /\ e.start = start /\ e.end = 0 /\ e.depth = depth
  BY DEF Loops
<1> HIDE DEF e
<1>2. /\ m \in Seq(Loops) /\ m # <<>> /\ Len(m) = Len(l) + 1 /\ DOMAIN m = 1..(Len(l) + 1)
      /\ m[1] = e /\ \A k \in 1..Len(l) : m[k + 1] = l[k]
      /\ Tail(m) = l
  BY <1>1, ConsFacts
<1> HIDE DEF m
<1>3. /\ OpenLoops(m) = ({m[1].end} \ {0}) \cup OpenLoops(l)
      /\ Starts(m) \in Seq(Nat) /\ Starts(m) # <<>> /\ Head(Starts(m)) = m[1].start
      /\ Tail(Starts(m)) = Starts(l)
  BY <1>2, LoopsTail
<1>4. Starts(m) = <<start>> \o Starts(l)
  <2> DEFINE s == Starts(m)
  <2>1. s \in Seq(Nat) /\ s # <<>> /\ Head(s) = start /\ Tail(s) = Starts(l)
    BY <1>1, <1>2, <1>3
  <2> HIDE DEF s
  <2>2. s = <<Head(s)>> \o Tail(s)
    BY <2>1, HeadBeforeTail
  <2> QED BY <2>1, <2>2 DEF s
<1>5. OpenLoops(m) = OpenLoops(l)
  BY <1>1, <1>2, <1>3
<1>6. Starts(l) \in Seq(Nat)
  <2> DEFINE s == Starts(m)
  <2>1. s \in Seq(Nat) /\ s # <<>> /\ Tail(s) = Starts(l)
    BY <1>3
  <2> HIDE DEF s
  <2>2. Tail(s) \in Seq(Nat)
    BY <2>1
  <2> QED BY <2>1, <2>2
<1>7. ASSUME NEW c, NEW d, LoopsHold(l, c, d), start \in DOMAIN d, Len(d[start]) = depth
      PROVE  LoopsHold(m, c, d)
  <2> SUFFICES ASSUME NEW k \in DOMAIN m
               PROVE  /\ m[k].start \in DOMAIN d /\ m[k].depth = Len(d[m[k].start])
                      /\ m[k].end # 0 => Jumps(c, d, m[k].end, d[m[k].start])
    BY DEF LoopsHold
  <2>1. CASE k = 1
    BY <2>1, <1>1, <1>2, <1>7
  <2>2. CASE k # 1
    <3> DEFINE j == k - 1
    <3>1. j \in 1..Len(l) /\ j + 1 = k
      BY <2>2, <1>2
    <3> HIDE DEF j
    <3>2. m[k] = l[j] /\ j \in DOMAIN l
      BY <3>1, <1>2
    <3> QED BY <3>2, <1>7 DEF LoopsHold
  <2> QED BY <2>1, <2>2
<1> QED BY <1>4, <1>5, <1>6, <1>7 DEF m, e

\* The parts of a setting.
LEMMA SettingFacts ==
  ASSUME NEW l, NEW s, NEW o, NEW z
  PROVE  LET a == Setting(l, s, o, z)
         IN  a.locals = l /\ a.stack = s /\ a.loops = o /\ a.scope = z
BY DEF Setting

\* A setting is made of its parts.
LEMMA SettingIs ==
  ASSUME NEW a \in Settings
  PROVE  /\ a = Setting(a.locals, a.stack, a.loops, a.scope)
         /\ a.locals \in Seq(Locals) /\ a.stack \in Seq(Nat) /\ a.loops \in Seq(Nat) /\ a.scope \in Nat
BY DEF Settings, Setting

\* A scope begins.
LEMMA LiesDeeper ==
  ASSUME NEW d, NEW a, Lies(a, d)
  PROVE  Lies(Setting(a.locals, a.stack, a.loops, a.scope + 1), d)
<1> DEFINE b == Setting(a.locals, a.stack, a.loops, a.scope + 1)
<1>1. a.locals \in Seq(Locals) /\ a.stack \in Seq(Nat) /\ a.loops \in Seq(Nat) /\ a.scope \in Nat
  BY DEF Lies, Settings
<1>2. b \in Settings /\ b.locals = a.locals /\ b.stack = a.stack /\ b.loops = a.loops /\ b.scope = a.scope + 1
  BY <1>1 DEF Setting, Settings
<1> HIDE DEF b
<1>3. \A k \in DOMAIN a.locals : a.locals[k].depth \in 0..(a.scope + 1)
  BY <1>1 DEF Lies
<1>4. Lies(b, d)
  BY <1>2, <1>3 DEF Lies
<1> QED BY <1>4 DEF b

\* A loop begins, with the stack as it is.
LEMMA LiesInLoop ==
  ASSUME NEW d, NEW a, Lies(a, d), NEW start \in Nat, start \in DOMAIN d, d[start] = a.stack
  PROVE  Lies(Setting(a.locals, a.stack, <<start>> \o a.loops, a.scope), d)
<1> DEFINE o == <<start>> \o a.loops
           b == Setting(a.locals, a.stack, o, a.scope)
<1>1. a.locals \in Seq(Locals) /\ a.stack \in Seq(Nat) /\ a.loops \in Seq(Nat) /\ a.scope \in Nat
  BY DEF Lies, Settings
<1>2. /\ o \in Seq(Nat) /\ DOMAIN o = 1..(Len(a.loops) + 1) /\ o[1] = start
      /\ \A k \in 1..Len(a.loops) : o[k + 1] = a.loops[k]
  BY <1>1, ConsFacts
<1> HIDE DEF o
<1>3. b \in Settings /\ b.locals = a.locals /\ b.stack = a.stack /\ b.loops = o /\ b.scope = a.scope
  BY <1>1, <1>2 DEF Setting, Settings
<1> HIDE DEF b
<1>4. Begins(a.stack, a.stack)
  <2>1. Bottom(a.stack, Len(a.stack)) = a.stack /\ Len(a.stack) \in Nat
    BY <1>1, BottomAll
  <2> QED BY <2>1 DEF Begins
<1>5. \A k \in DOMAIN o : o[k] \in DOMAIN d /\ Begins(d[o[k]], a.stack)
  <2> TAKE k \in DOMAIN o
  <2>1. CASE k = 1
    BY <2>1, <1>2, <1>4
  <2>2. CASE k # 1
    <3> DEFINE j == k - 1
    <3>1. j \in 1..Len(a.loops) /\ j + 1 = k
      BY <2>2, <1>1, <1>2
    <3> HIDE DEF j
    <3>2. o[k] = a.loops[j] /\ j \in DOMAIN a.loops
      BY <3>1, <1>1, <1>2
    <3> QED BY <3>2 DEF Lies
  <2> QED BY <2>1, <2>2
<1>6. Lies(b, d)
  BY <1>3, <1>5 DEF Lies
<1> QED BY <1>6 DEF b, o

\* What began with a stack begins with what is pushed on it.
LEMMA BeginsPushed ==
  ASSUME NEW t, NEW s \in Seq(Nat), Begins(t, s), t \in Seq(Nat), NEW v \in Nat
  PROVE  Begins(t, Append(s, v))
<1> DEFINE u == Append(s, v)
<1>1. Len(t) \in 0..Len(s) /\ Len(s) \in Nat
  BY DEF Begins
<1>2. Len(u) = Len(s) + 1 /\ Bottom(u, Len(t)) = Bottom(s, Len(t))
  <2> DEFINE h == Len(t)
  <2>1. h \in 0..Len(s)
    BY <1>1
  <2> HIDE DEF h
  <2>2. Len(Append(s, v)) = Len(s) + 1 /\ \A g \in 0..Len(s) : Bottom(Append(s, v), g) = Bottom(s, g)
    BY PushFacts
  <2> QED BY <2>1, <2>2 DEF h
<1> HIDE DEF u
<1>3. Begins(t, u)
  BY <1>1, <1>2 DEF Begins
<1> QED BY <1>3 DEF u

\* A value is pushed and a scope begins.
LEMMA LiesWithValue ==
  ASSUME NEW d \in Seq(Seq(Nat)), NEW a, Lies(a, d), NEW id \in Nat, NEW z \in {a.scope, a.scope + 1}
  PROVE  Lies(Setting(a.locals, Append(a.stack, id), a.loops, z), d)
<1> DEFINE s == a.stack
           t == Append(s, id)
           b == Setting(a.locals, t, a.loops, z)
<1>1. a.locals \in Seq(Locals) /\ s \in Seq(Nat) /\ a.loops \in Seq(Nat) /\ a.scope \in Nat /\ z \in Nat
  BY DEF Lies, Settings
<1>2. t \in Seq(Nat) /\ Len(t) = Len(s) + 1 /\ \A k \in 1..Len(s) : t[k] = s[k]
  BY <1>1, PushFacts
<1>3. \A k \in DOMAIN a.loops : Begins(d[a.loops[k]], t)
  <2> TAKE k \in DOMAIN a.loops
  <2> DEFINE u == d[a.loops[k]]
  <2>1. u \in Seq(Nat) /\ Begins(u, s)
    BY DEF Lies
  <2> HIDE DEF u, s
  <2>2. Begins(u, t)
    BY <1>1, <2>1, BeginsPushed
  <2> QED BY <2>2 DEF u
<1> HIDE DEF t
<1>4. b \in Settings /\ b.locals = a.locals /\ b.stack = t /\ b.loops = a.loops /\ b.scope = z
  BY <1>1, <1>2 DEF Setting, Settings
<1> HIDE DEF b
<1>5. Len(a.locals) \in 1..Len(s)
  BY DEF Lies
<1>6. \A k \in DOMAIN a.locals : t[k] = a.locals[k].id /\ a.locals[k].depth \in 0..z
  <2> TAKE k \in DOMAIN a.locals
  <2>1. s[k] = a.locals[k].id /\ a.locals[k].depth \in 0..a.scope
    BY DEF Lies
  <2>2. k \in 1..Len(s)
    BY <1>1, <1>5
  <2>3. t[k] = a.locals[k].id
    BY <2>1, <2>2, <1>2
  <2>4. a.locals[k].depth \in 0..z
    <3> DEFINE e == a.locals[k].depth
    <3>1. e \in 0..a.scope
      BY <2>1
    <3> HIDE DEF e
    <3>2. e \in 0..z
      BY <3>1, <1>1
    <3> QED BY <3>2 DEF e
  <2> QED BY <2>3, <2>4
<1>7. Len(a.locals) \in 1..Len(t)
  BY <1>1, <1>2, <1>5
<1>8. Lies(b, d)
  BY <1>3, <1>4, <1>6, <1>7 DEF Lies
<1> QED BY <1>8 DEF b, t, s

\* A local is declared, when no other values are on the stack.
LEMMA LiesWithLocal ==
  ASSUME NEW d \in Seq(Seq(Nat)), NEW a, Lies(a, d), Len(a.stack) = Len(a.locals),
         NEW local \in Locals, local.depth \in 0..a.scope
  PROVE  Lies(Setting(Append(a.locals, local), Append(a.stack, local.id), a.loops, a.scope), d)
<1> DEFINE l == a.locals
           m == Append(l, local)
           s == a.stack
           id == local.id
           t == Append(s, id)
           b == Setting(m, t, a.loops, a.scope)
           e == Setting(l, t, a.loops, a.scope)
<1>1. l \in Seq(Locals) /\ s \in Seq(Nat) /\ a.loops \in Seq(Nat) /\ a.scope \in Nat /\ id \in Nat
  BY DEF Lies, Settings, Locals
<1>2. Lies(e, d)
  <2> HIDE DEF id
  <2> QED BY <1>1, LiesWithValue
<1>3. /\ m \in Seq(Locals) /\ Len(m) = Len(l) + 1 /\ m[Len(l) + 1] = local
      /\ \A k \in 1..Len(l) : m[k] = l[k]
  BY <1>1
<1>4. t \in Seq(Nat) /\ Len(t) = Len(s) + 1 /\ t[Len(s) + 1] = id
  <2> HIDE DEF id
  <2> QED BY <1>1, PushFacts
<1>5. Len(s) = Len(l) /\ Len(l) \in Nat
  BY <1>1
<1>6. e.locals = l /\ e.stack = t /\ e.loops = a.loops /\ e.scope = a.scope
  BY DEF Setting
<1> HIDE DEF m, t, e, l, s
<1>7. b \in Settings /\ b.locals = m /\ b.stack = t /\ b.loops = a.loops /\ b.scope = a.scope
  BY <1>1, <1>3, <1>4 DEF Setting, Settings
<1> HIDE DEF b
<1>8. \A k \in DOMAIN m : t[k] = m[k].id /\ m[k].depth \in 0..a.scope
  <2> TAKE k \in DOMAIN m
  <2>1. CASE k \in 1..Len(l)
    <3>1. t[k] = l[k].id /\ l[k].depth \in 0..a.scope
      <4>1. k \in DOMAIN l
        BY <2>1, <1>1
      <4> QED BY <4>1, <1>2, <1>6 DEF Lies
    <3> QED BY <2>1, <3>1, <1>3
  <2>2. CASE k = Len(l) + 1
    BY <2>2, <1>3, <1>4, <1>5 DEF id
  <2> QED BY <2>1, <2>2, <1>1, <1>3, <1>5
<1>9. Len(m) \in 1..Len(t)
  BY <1>3, <1>4, <1>5
<1>10. Lies(b, d)
  BY <1>2, <1>6, <1>7, <1>8, <1>9 DEF Lies
<1> QED BY <1>10 DEF b, m, t, l, s, id

\* Something accounts for it.
Account == \E d, x : Accounts(d, x)

\* What an action has to show.
LEMMA Accounted ==
  ASSUME NEW d2, NEW y,
         Coded(code', d2, Open(work', loops'), y[1].stack),
         WorkHolds(work', y, code', d2), Ordered(work'),
         y[1].locals = locals', y[1].loops = Starts(loops'), y[1].scope = scope_depth',
         LoopsHold(loops', code', d2),
         Len(y[1].stack) = Len(locals') + Values(work'),
         budget' \in Nat, Len(y[1].stack) + budget' <= StatementsMax + 2,
         \A m \in marks' : /\ m.first \in DOMAIN d2 /\ Len(d2[m.first]) = m.before
                           /\ m.end \in DOMAIN d2 /\ Len(d2[m.end]) = m.after,
         stack' = d2[1]
  PROVE  Account'
BY DEF Account, Accounts, MarksHold

\* What the account says of a text that is not at its end.
LEMMA Present ==
  ASSUME FormsBalance, Compiling, work # <<>>, NEW d, NEW x, Accounts(d, x)
  PROVE  /\ x[1] \in Settings /\ x[2] \in Settings /\ Lies(x[1], d) /\ Lies(x[2], d)
         /\ Held(Top, x[1], x[2], code, d) /\ Top \in Entries /\ Fits(Top, code)
         /\ WorkHolds(Tail(work), Tail(x), code, d) /\ Tail(x)[1] = x[2] /\ Tail(x) \in Seq(Settings)
         /\ x = <<x[1]>> \o Tail(x)
         /\ Tail(work) \in Seq(Entries) /\ WorkFits(Tail(work), code) /\ Ordered(Tail(work))
         /\ Tail(work) # <<>> => /\ Head(Tail(work)).at # "end_match"
                                 /\ Top.at \in {"declarations", "arm"} =>
                                      Head(Tail(work)).at \in {"end_block", "end_arm", "end_default"}
         /\ OpenWork(work) = Own(Top) \cup OpenWork(Tail(work))
         /\ work = <<Top>> \o Tail(work)
<1>1. work \in Seq(Entries) /\ WorkFits(work, code)
  BY DEF Compiling
<1>2. WorkHolds(work, x, code, d) /\ Ordered(work)
  BY DEF Accounts
<1>3. /\ WorkHolds(Tail(work), Tail(x), code, d)
      /\ x[1] \in Settings /\ x[2] \in Settings /\ Lies(x[1], d) /\ Lies(x[2], d)
      /\ Tail(x)[1] = x[2] /\ Tail(x) \in Seq(Settings) /\ x = <<x[1]>> \o Tail(x)
      /\ Held(Top, x[1], x[2], code, d)
  BY <1>1, <1>2, WorkHoldsTail DEF Top
<1>4. /\ Ordered(Tail(work))
      /\ Tail(work) # <<>> => /\ Head(Tail(work)).at # "end_match"
                              /\ Top.at \in {"declarations", "arm"} =>
                                   Head(Tail(work)).at \in {"end_block", "end_arm", "end_default"}
  BY <1>1, <1>2, OrderedTail DEF Top
<1>5. OpenWork(work) = Own(Top) \cup OpenWork(Tail(work))
  BY <1>1, OpenTail DEF Top
<1>6. WorkFits(Tail(work), code) /\ Fits(Top, code)
  BY <1>1, WorkTail DEF Top
<1>7. Top \in Entries /\ Tail(work) \in Seq(Entries)
  BY <1>6 DEF Fits, WorkFits
<1>8. work = <<Top>> \o Tail(work)
  BY <1>1, HeadBeforeTail DEF Top
<1> QED BY <1>3, <1>4, <1>5, <1>6, <1>7, <1>8

\* What it says of the stack.
LEMMA PresentStack ==
  ASSUME FormsBalance, Compiling, NEW d, NEW x, Accounts(d, x)
  PROVE  LET s == x[1].stack
         IN  /\ Coded(code, d, Open(work, loops), s) /\ d \in Seq(Seq(Nat))
             /\ x[1] \in Settings /\ Lies(x[1], d)
             /\ s \in Seq(Nat) /\ Len(s) \in Nat /\ Len(s) >= 1 /\ IsStack(s) /\ LocalsLie(s)
             /\ budget \in Nat /\ Len(s) + budget <= StatementsMax + 2 /\ StatementsMax \in Nat
             /\ StackMax \in Nat /\ Len(s) < StackMax /\ (budget > 0 => Len(s) + 1 < StackMax)
             /\ Len(code) + 1 \in DOMAIN d /\ d[Len(code) + 1] = s
             /\ Values(work) \in Nat /\ Len(locals) \in Nat /\ Len(s) = Len(locals) + Values(work)
             /\ scope_depth \in Nat
<1> DEFINE s == x[1].stack
<1>1. Coded(code, d, Open(work, loops), s) /\ WorkHolds(work, x, code, d)
  BY DEF Accounts
<1>2. work \in Seq(Entries) /\ locals \in Seq(Locals) /\ Len(locals) \in Nat
  BY DEF Compiling
<1>3. x[1] \in Settings /\ Lies(x[1], d)
  <2>1. 1 \in DOMAIN x
    BY <1>1, <1>2 DEF WorkHolds
  <2> QED BY <2>1, <1>1 DEF WorkHolds
<1>4. s \in Seq(Nat) /\ Len(s) \in Nat /\ Len(locals) \in 1..Len(s) /\ x[1].scope \in Nat
  BY <1>3 DEF Lies, Settings, Accounts
<1>5. LocalsLie(s)
  BY <1>3, <1>4 DEF Lies, LocalsLie, Accounts
<1>6. d \in Seq(Seq(Nat)) /\ Len(code) + 1 \in DOMAIN d /\ d[Len(code) + 1] = s /\ IsStack(s)
  <2>1. /\ Len(code) \in Nat /\ d \in Seq(Seq(Nat)) /\ DOMAIN d = 1..(Len(code) + 1)
        /\ d[Len(code) + 1] = s /\ IsStack(s)
    BY <1>1, CodedTypes
  <2> QED BY <2>1
<1>7. Values(work) \in Nat /\ Len(s) = Len(locals) + Values(work)
  <2>1. Len(s) = Len(locals) + Values(work)
    BY DEF Accounts
  <2>2. Values(work) \in Nat
    <3>1. CASE work # <<>>
      BY <3>1, <1>2, ValuesTail
    <3>2. CASE work = <<>>
      <4>1. {k \in DOMAIN work : work[k].at \in {"arms", "end_match"}} = {}
        BY <3>2
      <4> QED BY <4>1, FS_EmptySet DEF Values
    <3> QED BY <3>1, <3>2
  <2> QED BY <2>1, <2>2
<1>8. budget \in Nat /\ Len(s) + budget <= StatementsMax + 2
  BY DEF Accounts
<1>9. StatementsMax \in Nat /\ StackMax \in Nat /\ StatementsMax + 3 <= StackMax
  BY StatementsAreBounded, StackIsBounded DEF FormsBalance
<1>10. Len(s) >= 1 /\ Len(s) < StackMax /\ (budget > 0 => Len(s) + 1 < StackMax)
  <2> DEFINE h == Len(s)
  <2>1. h \in Nat /\ Len(locals) \in 1..h /\ h + budget <= StatementsMax + 2
    BY <1>4, <1>8
  <2> HIDE DEF h
  <2>2. h >= 1 /\ h < StackMax /\ (budget > 0 => h + 1 < StackMax)
    BY <2>1, <1>2, <1>8, <1>9
  <2> QED BY <2>2 DEF h
<1>11. scope_depth \in Nat
  BY <1>4 DEF Accounts
<1> QED BY <1>1, <1>2, <1>3, <1>4, <1>5, <1>6, <1>7, <1>8, <1>9, <1>10, <1>11

\* Where a statement may begin, its value, if any, is all that is above the locals
\* and the matches.
LEMMA PresentDepth ==
  ASSUME FormsBalance, Compiling, work # <<>>, NEW d, NEW x, Accounts(d, x), Top.at # "end_match"
  PROVE  /\ Depth = Len(x[1].stack) /\ Matches \in Nat /\ Values(work) = Matches
         /\ Matches = 0 => \A k \in DOMAIN work : work[k].at # "arms"
<1>1. work \in Seq(Entries) /\ Ordered(work)
  BY DEF Compiling, Accounts
<1>2. /\ Matches = Values(work) /\ Matches \in Nat
      /\ Matches = 0 => \A k \in DOMAIN work : work[k].at # "arms"
  BY <1>1, ValuesMatches
<1>3. Len(x[1].stack) = Len(locals) + Values(work)
  BY PresentStack
<1> QED BY <1>2, <1>3 DEF Depth

\* What is left after a statement holds where the statement begins.
LEMMA RestHolds ==
  ASSUME FormsBalance, Compiling, work # <<>>, NEW d, NEW x, Accounts(d, x),
         Top.at \in OrArm
  PROVE  /\ \E y : WorkHolds(Rest, y, code, d) /\ y[1] = x[1]
         /\ Rest \in Seq(Entries) /\ WorkFits(Rest, code) /\ Ordered(Rest)
         /\ Rest # <<>> => Head(Rest).at # "end_match"
         /\ OpenWork(Rest) = OpenWork(work)
         /\ Values(Rest) = Values(work)
<1>1. work \in Seq(Entries) /\ WorkFits(work, code) /\ WorkHolds(work, x, code, d) /\ Ordered(work)
  BY DEF Compiling, Accounts
<1>2. Top.at \in {"declarations", "statement", "arm"}
  BY DEF OrArm, Anywhere
<1>3. CASE Top.at = "declarations"
  <2>1. Rest = work
    BY <1>3 DEF Rest
  <2>2. Rest # <<>> => Head(Rest).at # "end_match"
    BY <1>3, <2>1 DEF Top
  <2> QED BY <2>1, <2>2, <1>1
<1>4. CASE Top.at # "declarations"
  <2>1. Rest = Tail(work)
    BY <1>4 DEF Rest
  <2>2. /\ Held(Top, x[1], x[2], code, d)
        /\ WorkHolds(Tail(work), Tail(x), code, d) /\ Tail(x)[1] = x[2]
        /\ Tail(work) \in Seq(Entries) /\ WorkFits(Tail(work), code) /\ Ordered(Tail(work))
        /\ Tail(work) # <<>> => Head(Tail(work)).at # "end_match"
        /\ OpenWork(work) = Own(Top) \cup OpenWork(Tail(work))
    BY Present
  <2>3. x[1] = x[2] /\ Own(Top) = {}
    BY <2>2, <1>2 DEF Held, Own
  <2>4. Values(Tail(work)) = Values(work)
    BY <1>1, <1>2, ValuesTail DEF Top
  <2> QED BY <2>1, <2>2, <2>3, <2>4
<1> QED BY <1>3, <1>4

\* What holds of code that is kept holds of the code after it.
LEMMA Carried ==
  ASSUME FormsBalance, Compiling, NEW d, NEW x, Accounts(d, x),
         NEW c2, NEW d2, NEW o2, NEW s2, Coded(c2, d2, o2, s2), Keeps(code, d, c2, d2)
  PROVE  /\ d2 \in Seq(Seq(Nat)) /\ DOMAIN d \subseteq DOMAIN d2 /\ \A k \in DOMAIN d : d2[k] = d[k]
         /\ Len(c2) + 1 \in DOMAIN d2 /\ d2[Len(c2) + 1] = s2 /\ IsStack(s2)
         /\ Len(code) + 1 \in DOMAIN d2 /\ d2[Len(code) + 1] = x[1].stack
         /\ LoopsHold(loops, c2, d2) /\ MarksHold(d2) /\ stack = d2[1]
         /\ \A j, to : Jumps(code, d, j, to) => Jumps(c2, d2, j, to)
         /\ \A a : Lies(a, d) => Lies(a, d2)
         /\ \A w, y : WorkFits(w, code) /\ WorkHolds(w, y, code, d) => WorkHolds(w, y, c2, d2)
         /\ \A e, a, b : Fits(e, code) /\ Lies(a, d) /\ Held(e, a, b, code, d) => Held(e, a, b, c2, d2)
<1> DEFINE s == x[1].stack
           o == Open(work, loops)
<1>1. Coded(code, d, o, s) /\ Len(code) + 1 \in DOMAIN d /\ d[Len(code) + 1] = s
  BY PresentStack
<1>2. LoopsHold(loops, code, d) /\ MarksHold(d) /\ stack = d[1]
  BY DEF Accounts
<1> HIDE DEF s, o
<1>3. /\ d \in Seq(Seq(Nat)) /\ d2 \in Seq(Seq(Nat)) /\ c2 \in Seq(Instructions) /\ code \in Seq(Instructions)
      /\ Len(d) = Len(code) + 1 /\ Len(code) \in Nat /\ DOMAIN d = 1..(Len(code) + 1)
  BY <1>1, CodedTypes
<1>4. DOMAIN d \subseteq DOMAIN d2 /\ \A k \in DOMAIN d : d2[k] = d[k]
  BY <1>3 DEF Keeps
<1>5. Len(c2) + 1 \in DOMAIN d2 /\ d2[Len(c2) + 1] = s2 /\ IsStack(s2)
  <2>1. Len(c2) \in Nat /\ DOMAIN d2 = 1..(Len(c2) + 1) /\ d2[Len(c2) + 1] = s2 /\ IsStack(s2)
    BY CodedTypes
  <2> QED BY <2>1
<1>6. LoopsHold(loops, c2, d2) /\ MarksHold(d2)
  BY <1>1, <1>2, LoopsHoldLater, MarksHoldLater
<1>7. stack = d2[1]
  <2>1. 1 \in DOMAIN d
    BY <1>3
  <2> QED BY <2>1, <1>2, <1>4
<1>8. ASSUME NEW j, NEW to, Jumps(code, d, j, to) PROVE Jumps(c2, d2, j, to)
  BY <1>3, <1>8, CarriedOn
<1>9. ASSUME NEW a, Lies(a, d) PROVE Lies(a, d2)
  BY <1>3, <1>9, LiesLater
<1>10. ASSUME NEW w, NEW y, WorkFits(w, code), WorkHolds(w, y, code, d)
       PROVE  WorkHolds(w, y, c2, d2)
  BY <1>1, <1>10, WorkHoldsLater
<1>11. ASSUME NEW e, NEW a, NEW b, Fits(e, code), Lies(a, d), Held(e, a, b, code, d)
       PROVE  Held(e, a, b, c2, d2)
  BY <1>1, <1>11, HeldLater
<1>12. Len(code) + 1 \in DOMAIN d2 /\ d2[Len(code) + 1] = x[1].stack
  BY <1>1, <1>4 DEF s
<1> QED BY <1>3, <1>4, <1>5, <1>6, <1>7, <1>8, <1>9, <1>10, <1>11, <1>12

\* A statement that is complete is marked with the depths where it begins and ends.
LEMMA MarksHoldStill ==
  ASSUME NEW d2, MarksHold(d2), NEW kind, NEW e, NEW c2, NEW more, Mark(kind, e, c2, more),
         e.first \in DOMAIN d2, Len(d2[e.first]) = e.before,
         Len(c2) + 1 \in DOMAIN d2, Len(d2[Len(c2) + 1]) = e.before + more
  PROVE  \A m \in marks' : /\ m.first \in DOMAIN d2 /\ Len(d2[m.first]) = m.before
                           /\ m.end \in DOMAIN d2 /\ Len(d2[m.end]) = m.after
<1> DEFINE k == [kind |-> kind, first |-> e.first, end |-> Here(c2), before |-> e.before, after |-> e.before + more]
<1>1. marks' = marks \cup {k}
  BY DEF Mark
<1>2. k.first = e.first /\ k.end = Len(c2) + 1 /\ k.before = e.before /\ k.after = e.before + more
  BY DEF Here
<1> HIDE DEF k
<1>3. /\ k.first \in DOMAIN d2 /\ Len(d2[k.first]) = k.before
      /\ k.end \in DOMAIN d2 /\ Len(d2[k.end]) = k.after
  BY <1>2
<1> QED BY <1>1, <1>3 DEF MarksHold

\* A statement without a body is complete: the stack is as it was.
LEMMA StatementCoded ==
  ASSUME FormsBalance, Compiling, work # <<>>, NEW d, NEW x, Accounts(d, x),
         Top.at \in OrArm, work' = Rest, UNCHANGED <<locals, scope_depth, stack>>,
         NEW d2, Coded(code', d2, Open(work, loops'), x[1].stack), Keeps(code, d, code', d2),
         LoopsHold(loops', code', d2), Starts(loops') = Starts(loops),
         budget' \in Nat, budget' <= budget,
         NEW kind, NEW at \in Places, Mark(kind, Compound(at), code', 0)
  PROVE  Account'
<1> DEFINE s == x[1].stack
<1>1. PICK y : WorkHolds(Rest, y, code, d) /\ y[1] = x[1]
  BY RestHolds
<1>2. /\ WorkFits(Rest, code) /\ Ordered(Rest)
      /\ OpenWork(Rest) = OpenWork(work) /\ Values(Rest) = Values(work)
  BY RestHolds
<1>3. /\ WorkHolds(Rest, y, code', d2) /\ MarksHold(d2) /\ stack = d2[1]
      /\ Len(code) + 1 \in DOMAIN d2 /\ d2[Len(code) + 1] = s
      /\ Len(code') + 1 \in DOMAIN d2 /\ d2[Len(code') + 1] = s
  <2> DEFINE c2 == code'
  <2>1. Coded(c2, d2, Open(work, loops'), x[1].stack) /\ Keeps(code, d, c2, d2)
    OBVIOUS
  <2> HIDE DEF c2
  <2>2. /\ MarksHold(d2) /\ stack = d2[1]
        /\ Len(code) + 1 \in DOMAIN d2 /\ d2[Len(code) + 1] = s
        /\ Len(c2) + 1 \in DOMAIN d2 /\ d2[Len(c2) + 1] = s
        /\ \A w, z : WorkFits(w, code) /\ WorkHolds(w, z, code, d) => WorkHolds(w, z, c2, d2)
    BY <2>1, Carried
  <2> QED BY <2>2, <1>1, <1>2 DEF c2
<1>4. Top.at # "end_match"
  BY DEF OrArm, Anywhere
<1>5. Depth = Len(s)
  BY <1>4, PresentDepth
<1>6. Compound(at).first = Len(code) + 1 /\ Compound(at).before = Len(s)
  <2>1. Compound(at).first = Here(code) /\ Compound(at).before = Depth
    BY DEF Compound, Entry
  <2> QED BY <2>1, <1>5 DEF Here
<1>7. Len(s) \in Nat /\ Len(s) + budget <= StatementsMax + 2 /\ budget \in Nat /\ StatementsMax \in Nat
      /\ Len(s) = Len(locals) + Values(work)
  BY PresentStack
<1>8. \A m \in marks' : /\ m.first \in DOMAIN d2 /\ Len(d2[m.first]) = m.before
                        /\ m.end \in DOMAIN d2 /\ Len(d2[m.end]) = m.after
  <2> DEFINE e == Compound(at)
             c2 == code'
  <2>1. /\ e.first \in DOMAIN d2 /\ Len(d2[e.first]) = e.before
        /\ Len(c2) + 1 \in DOMAIN d2 /\ Len(d2[Len(c2) + 1]) = e.before + 0
        /\ Mark(kind, e, c2, 0)
    BY <1>3, <1>6, <1>7
  <2> HIDE DEF e, c2
  <2> QED BY <2>1, <1>3, MarksHoldStill
<1>9. /\ y[1].locals = locals' /\ y[1].loops = Starts(loops') /\ y[1].scope = scope_depth'
      /\ y[1].stack = s
  BY <1>1 DEF Accounts
<1>10. Coded(code', d2, Open(work', loops'), y[1].stack)
  BY <1>2, <1>9 DEF Open
<1>11. /\ Len(y[1].stack) = Len(locals') + Values(work')
       /\ Len(y[1].stack) + budget' <= StatementsMax + 2
  <2> DEFINE h == Len(s)
  <2>1. h \in Nat /\ h + budget <= StatementsMax + 2 /\ budget \in Nat /\ StatementsMax \in Nat
    BY <1>7
  <2> HIDE DEF h
  <2>2. \A b, c, m \in Nat : h + b <= m /\ c <= b => h + c <= m
    BY <2>1
  <2>3. h + budget' <= StatementsMax + 2
    <3>1. StatementsMax + 2 \in Nat /\ budget' \in Nat /\ budget' <= budget
      BY <2>1
    <3> QED BY <2>1, <2>2, <3>1
  <2> QED BY <2>3, <1>2, <1>7, <1>9 DEF h
<1>12. WorkHolds(work', y, code', d2) /\ Ordered(work') /\ stack' = d2[1]
  BY <1>2, <1>3
<1> QED BY <1>8, <1>9, <1>10, <1>11, <1>12, Accounted

\* The end of a scope goes back to the setting that encloses it.
LEMMA ScopeEnds ==
  ASSUME locals \in Seq(Locals), scope_depth \in Nat,
         NEW a, NEW d, Lies(a, d), a.locals = locals, a.scope = scope_depth,
         NEW b \in Settings, Inner(a, b), NEW c, end_scope(c)
  PROVE  /\ code' = EmitPops(c, Len(locals) - Len(b.locals))
         /\ Len(locals) - Len(b.locals) \in 0..Len(locals)
         /\ locals' = b.locals /\ scope_depth' = b.scope
<1> DEFINE n == Len(locals)
           m == Len(b.locals)
           S == {k \in DOMAIN locals : locals[k].depth >= scope_depth}
<1>1. n \in Nat /\ DOMAIN locals = 1..n
  OBVIOUS
<1>2. b.locals \in Seq(Locals) /\ m \in Nat /\ DOMAIN b.locals = 1..m
  BY DEF Settings
<1>3. /\ m <= n /\ \A k \in 1..m : b.locals[k] = locals[k]
      /\ \A k \in 1..n : locals[k].depth < scope_depth <=> k <= m
      /\ b.scope = scope_depth - 1
  BY <1>1, <1>2 DEF Inner
<1>4. \A k \in 1..n : locals[k].depth \in Int
  <2> TAKE k \in 1..n
  <2>1. locals[k] \in Locals
    BY <1>1
  <2> QED BY <2>1 DEF Locals
<1>5. S = (m + 1)..n
  <2> HIDE DEF n, m
  <2>1. \A k \in 1..n : locals[k].depth >= scope_depth <=> k > m
    BY <1>2, <1>3, <1>4
  <2> QED BY <2>1, <1>1, <1>2
<1> HIDE DEF n, m, S
<1>6. Cardinality((m + 1)..n) = n - m
  <2>1. Cardinality((m + 1)..n) = IF m + 1 > n THEN 0 ELSE n - (m + 1) + 1
    <3> DEFINE j == m + 1
    <3>1. j \in Int /\ n \in Int
      BY <1>1, <1>2
    <3> HIDE DEF j
    <3>2. Cardinality(j..n) = IF j > n THEN 0 ELSE n - j + 1
      BY <3>1, FS_Interval
    <3> QED BY <3>2 DEF j
  <2> QED BY SMTT(30), <2>1, <1>1, <1>2, <1>3
<1>7. Leaving = n - m
  BY <1>5, <1>6 DEF Leaving, S
<1>8. SubSeq(locals, 1, m) = b.locals
  <2> DEFINE t == SubSeq(locals, 1, m)
  <2>1. t \in Seq(Locals) /\ Len(t) = m /\ \A k \in 1..m : t[k] = locals[k]
    BY <1>1, <1>2, <1>3
  <2> HIDE DEF t
  <2>2. t = b.locals
    BY <2>1, <1>2, <1>3, SeqEqual DEF m
  <2> QED BY <2>2 DEF t
<1>9. n - (n - m) = m /\ n - m \in 0..n
  BY <1>1, <1>2, <1>3
<1>10. /\ scope_depth' = scope_depth - 1 /\ code' = EmitPops(c, Leaving)
       /\ locals' = SubSeq(locals, 1, n - Leaving)
  BY DEF end_scope, n
<1> QED BY <1>3, <1>7, <1>8, <1>9, <1>10 DEF n, m

\* A value that gets a name, or a pattern that is compared with one.
LEMMA NamedOperand ==
  ASSUME NEW c, Sound(c), NEW id \in Nat
  PROVE  Defining(Operand(c), id) = Append(c, Instruction("push", 0, 0, id))
<1> DEFINE i == Instruction("push", 0, 0, 0)
           j == Instruction("push", 0, 0, id)
           e == Operand(c)
           f == Append(c, j)
           g == [e EXCEPT ![Len(e)].def = id]
<1>1. c \in Seq(Instructions) /\ Len(c) \in Nat
  BY DEF Sound
<1>2. i \in Instructions /\ j \in Instructions /\ [i EXCEPT !.def = id] = j
  BY DEF Instruction, Instructions, Ops
<1> HIDE DEF i, j
<1>3. e = Append(c, i)
  BY DEF Operand, emit_byte, i
<1>4. e \in Seq(Instructions) /\ Len(e) = Len(c) + 1 /\ e[Len(c) + 1] = i /\ \A k \in 1..Len(c) : e[k] = c[k]
  BY <1>1, <1>2, <1>3
<1>5. f \in Seq(Instructions) /\ Len(f) = Len(c) + 1 /\ f[Len(c) + 1] = j /\ \A k \in 1..Len(c) : f[k] = c[k]
  BY <1>1, <1>2
<1> HIDE DEF e, f
<1>6. /\ g \in Seq(Instructions) /\ Len(g) = Len(e) /\ g[Len(e)] = [e[Len(e)] EXCEPT !.def = id]
      /\ \A k \in 1..Len(e) : k # Len(e) => g[k] = e[k]
  <2>1. [e[Len(e)] EXCEPT !.def = id] \in Instructions
    BY <1>2, <1>4
  <2>2. Len(e) \in DOMAIN e /\ DOMAIN e = 1..Len(e)
    BY <1>1, <1>4
  <2> QED BY <1>4, <2>1, <2>2
<1> HIDE DEF g
<1>7. \A k \in 1..Len(g) : g[k] = f[k]
  <2> TAKE k \in 1..Len(g)
  <2>1. CASE k = Len(c) + 1
    BY <2>1, <1>2, <1>4, <1>5, <1>6
  <2>2. CASE k # Len(c) + 1
    <3>1. k \in 1..Len(c)
      BY <2>2, <1>1, <1>4, <1>6
    <3> QED BY <3>1, <2>2, <1>4, <1>5, <1>6
  <2> QED BY <2>1, <2>2
<1>8. g = f
  BY <1>4, <1>5, <1>6, <1>7, SeqEqual
<1> QED BY <1>8 DEF g, f, j, e, Defining

\* A test that is compared with the value of its match.
LEMMA NamedTest ==
  ASSUME NEW c, Sound(c), NEW op \in Ops, NEW id \in Nat
  PROVE  LET test == emit_jump(c, op)
         IN  [test EXCEPT ![Len(test)].var = id] = Append(c, Instruction(op, Placeholder, id, 0))
<1> DEFINE i == Instruction(op, Placeholder, 0, 0)
           j == Instruction(op, Placeholder, id, 0)
           e == emit_jump(c, op)
           f == Append(c, j)
           g == [e EXCEPT ![Len(e)].var = id]
<1>1. c \in Seq(Instructions) /\ Len(c) \in Nat
  BY DEF Sound
<1>2. i \in Instructions /\ j \in Instructions /\ [i EXCEPT !.var = id] = j
  BY DEF Instruction, Instructions, Placeholder
<1> HIDE DEF i, j
<1>3. e = Append(c, i)
  BY DEF emit_jump, i
<1>4. e \in Seq(Instructions) /\ Len(e) = Len(c) + 1 /\ e[Len(c) + 1] = i /\ \A k \in 1..Len(c) : e[k] = c[k]
  BY <1>1, <1>2, <1>3
<1>5. f \in Seq(Instructions) /\ Len(f) = Len(c) + 1 /\ f[Len(c) + 1] = j /\ \A k \in 1..Len(c) : f[k] = c[k]
  BY <1>1, <1>2
<1> HIDE DEF e, f
<1>6. /\ g \in Seq(Instructions) /\ Len(g) = Len(e) /\ g[Len(e)] = [e[Len(e)] EXCEPT !.var = id]
      /\ \A k \in 1..Len(e) : k # Len(e) => g[k] = e[k]
  <2>1. [e[Len(e)] EXCEPT !.var = id] \in Instructions
    BY <1>2, <1>4
  <2>2. Len(e) \in DOMAIN e /\ DOMAIN e = 1..Len(e)
    BY <1>1, <1>4
  <2> QED BY <1>4, <2>1, <2>2
<1> HIDE DEF g
<1>7. \A k \in 1..Len(g) : g[k] = f[k]
  <2> TAKE k \in 1..Len(g)
  <2>1. CASE k = Len(c) + 1
    BY <2>1, <1>2, <1>4, <1>5, <1>6
  <2>2. CASE k # Len(c) + 1
    <3>1. k \in 1..Len(c)
      BY <2>2, <1>1, <1>4, <1>6
    <3> QED BY <3>1, <2>2, <1>4, <1>5, <1>6
  <2> QED BY <2>1, <2>2
<1>8. g = f
  BY <1>4, <1>5, <1>6, <1>7, SeqEqual
<1> QED BY <1>8 DEF g, f, j, e

\* A scope opens in the setting it is in.
LEMMA InnerDeeper ==
  ASSUME NEW b, NEW d, Lies(b, d), NEW s
  PROVE  LET a == Setting(b.locals, s, b.loops, b.scope + 1)
         IN  Inner(a, b) /\ a.locals = b.locals
<1> DEFINE a == Setting(b.locals, s, b.loops, b.scope + 1)
<1>1. a.locals = b.locals /\ a.stack = s /\ a.loops = b.loops /\ a.scope = b.scope + 1
  BY DEF Setting
<1> HIDE DEF a
<1>2. b.locals \in Seq(Locals) /\ Len(b.locals) \in Nat /\ DOMAIN b.locals = 1..Len(b.locals) /\ b.scope \in Nat
  BY DEF Lies, Settings
<1>3. \A k \in DOMAIN b.locals : b.locals[k].depth < b.scope + 1
  <2> TAKE k \in DOMAIN b.locals
  <2> DEFINE e == b.locals[k].depth
  <2>1. e \in 0..b.scope
    BY DEF Lies
  <2> HIDE DEF e
  <2>2. e < b.scope + 1
    BY <2>1, <1>2
  <2> QED BY <2>2 DEF e
<1>4. \A k \in DOMAIN b.locals : k <= Len(b.locals)
  BY <1>2
<1>5. b.scope = a.scope - 1 /\ Len(b.locals) <= Len(a.locals)
  BY <1>1, <1>2
<1>6. Inner(a, b)
  BY <1>1, <1>3, <1>4, <1>5 DEF Inner
<1> QED BY <1>1, <1>6 DEF a

\* A statement or a list of them follows, and then the end of what is around it.
LEMMA BodyHolds ==
  ASSUME NEW w \in Seq(Entries), NEW c, NEW d, NEW y, WorkHolds(w, y, c, d), Ordered(w),
         w # <<>> => Head(w).at # "end_match",
         NEW at \in {"declarations", "statement", "arm"},
         NEW e \in Entries, e.at # "end_match",
         at # "statement" => e.at \in {"end_block", "end_arm", "end_default"},
         e.at \in {"declarations", "arm"} /\ w # <<>> => Head(w).at \in {"end_block", "end_arm", "end_default"},
         NEW a, Lies(a, d), Held(e, a, y[1], c, d)
  PROVE  LET v == <<Entry(at), e>> \o w
             z == <<a>> \o (<<a>> \o y)
         IN  /\ WorkHolds(v, z, c, d) /\ z[1] = a
             /\ Ordered(v) /\ OpenWork(v) = Own(e) \cup OpenWork(w)
             /\ Values(v) = Values(<<e>> \o w)
<1> DEFINE f == Entry(at)
           u == <<e>> \o w
           p == <<f>> \o u
           q == <<a>> \o y
           z == <<a>> \o q
<1>1. f \in Entries /\ f.at = at /\ f.exit = 0 /\ f.ends = {}
  BY DEF Entry, Entries, Places
<1>2. u \in Seq(Entries) /\ u # <<>> /\ Head(u) = e
  BY ConsFacts
<1>3. Held(f, a, a, c, d)
  BY <1>1 DEF Held, Compounds
<1> HIDE DEF f
<1>4. WorkHolds(u, q, c, d) /\ q[1] = a
  BY WorkHoldsCons
<1>5. Ordered(u) /\ OpenWork(u) = Own(e) \cup OpenWork(w)
  BY OrderedCons, OpenCons
<1> HIDE DEF u, q
<1>6. WorkHolds(p, z, c, d) /\ z[1] = a
  BY <1>1, <1>2, <1>3, <1>4, WorkHoldsCons
<1>7. Ordered(p) /\ OpenWork(p) = Own(f) \cup OpenWork(u) /\ Values(p) = Values(u)
  BY <1>1, <1>2, <1>5, OrderedCons, OpenCons, ValuesCons
<1>8. Own(f) = {}
  BY <1>1 DEF Own
<1>9. p = <<f, e>> \o w
  BY <1>1, ConsTwice DEF u
<1> HIDE DEF p, z
<1>10. /\ WorkHolds(p, z, c, d) /\ z[1] = a
       /\ Ordered(p) /\ OpenWork(p) = Own(e) \cup OpenWork(w)
       /\ Values(p) = Values(u)
  BY <1>5, <1>6, <1>7, <1>8
<1> QED BY <1>9, <1>10 DEF u, f, z, q

-----------------------------------------------------------------------------
(* Each action of the compiler keeps the account.                          *)

\* A value that is pushed is popped.
LEMMA ValuePopped ==
  ASSUME NEW c, NEW d, NEW o, NEW s, Coded(c, d, o, s), NEW v \in Nat,
         NEW e, NEW d1, Coded(e, d1, o, Append(s, v)), Keeps(c, d, e, d1),
         NEW op \in {"pop", "define_global"}
  PROVE  \E d2 : Coded(emit_byte(e, op), d2, o, s) /\ Keeps(c, d, emit_byte(e, op), d2)
<1> DEFINE t == Append(s, v)
           c2 == emit_byte(e, op)
<1>1. s \in Seq(Nat) /\ Len(s) \in Nat
  BY CodedTypes
<1>2. Len(t) = Len(s) + 1 /\ Bottom(t, Len(s)) = s
  BY <1>1, PushFacts
<1> HIDE DEF t
<1>3. Len(t) >= 1 /\ Len(t) - 1 = Len(s)
  BY <1>1, <1>2
<1>4. Coded(e, d1, o, t)
  BY DEF t
<1>5. PICK d2 : Coded(c2, d2, o, Bottom(t, Len(t) - 1)) /\ Keeps(e, d1, c2, d2)
  BY <1>3, <1>4, PopAdded
<1> HIDE DEF c2
<1>6. Coded(c2, d2, o, s)
  BY <1>2, <1>3, <1>5
<1>7. Keeps(c, d, c2, d2)
  BY <1>4, <1>5, <1>6, Further
<1> QED BY <1>6, <1>7 DEF c2

\* A statement that leaves the loops as they are.
LEMMA StatementAdded ==
  ASSUME FormsBalance, Compiling, work # <<>>, NEW d, NEW x, Accounts(d, x),
         Top.at \in OrArm, work' = Rest, UNCHANGED <<locals, scope_depth, loops, stack>>,
         NEW d2, Coded(code', d2, Open(work, loops), x[1].stack), Keeps(code, d, code', d2),
         budget' \in Nat, budget' <= budget,
         NEW kind, NEW at \in Places, Mark(kind, Compound(at), code', 0)
  PROVE  Account'
<1>1. LoopsHold(loops, code', d2)
  <2> DEFINE c2 == code'
  <2>1. Coded(c2, d2, Open(work, loops), x[1].stack) /\ Keeps(code, d, c2, d2)
    OBVIOUS
  <2> HIDE DEF c2
  <2>2. LoopsHold(loops, c2, d2)
    BY <2>1, Carried
  <2> QED BY <2>2 DEF c2
<1> QED BY <1>1, StatementCoded

\* An expression statement pops the value of its expression.
LEMMA ExpressionAccounted ==
  ASSUME FormsBalance, Compiling, Account, expr_statement, UNCHANGED stack
  PROVE  Account'
<1>1. PICK d, x : Accounts(d, x)
  BY DEF Account
<1> DEFINE s == x[1].stack
           o == Open(work, loops)
<1>2. /\ Coded(code, d, o, s) /\ s \in Seq(Nat) /\ Len(s) < StackMax /\ LocalsLie(s)
      /\ budget \in Nat
  BY <1>1, PresentStack
<1>3. work # <<>> /\ Top.at \in OrArm /\ work' = Rest /\ UNCHANGED <<phase, locals, scope_depth, loops>>
      /\ Mark("expression", Compound("expression"), code', 0)
  BY DEF expr_statement, Begin
<1>4. locals \in Seq(Locals)
  BY DEF Compiling
<1> HIDE DEF s, o
<1>5. \E e : /\ code' = emit_byte(e, "pop")
             /\ e \in {Operand(code)} \cup Expressions(code) \cup Branching(code)
  BY DEF expr_statement
<1>6. PICK e : /\ code' = emit_byte(e, "pop")
               /\ e \in {Operand(code)} \cup Expressions(code) \cup Branching(code)
  BY <1>5
<1>7. PICK d1 : Coded(e, d1, o, Append(s, 0)) /\ Keeps(code, d, e, d1)
  <2>1. CASE e = Operand(code)
    BY <2>1, <1>2, OperandPushed
  <2>2. CASE e \in Expressions(code)
    BY <2>2, <1>2, <1>4, ExpressionPushes
  <2>3. CASE e \in Branching(code)
    BY <2>3, <1>2, BranchPushes
  <2> QED BY <2>1, <2>2, <2>3, <1>6
<1>8. PICK d2 : Coded(code', d2, o, s) /\ Keeps(code, d, code', d2)
  BY <1>2, <1>6, <1>7, ValuePopped
<1>9. budget' \in Nat /\ budget' <= budget
  BY <1>2 DEF expr_statement, Spend
<1>10. "expression" \in Places
  BY DEF Places
<1> QED BY <1>1, <1>3, <1>8, <1>9, <1>10, StatementAdded DEF s, o

\* A return takes a value from the stack, and nothing falls through it.
LEMMA ReturnAccounted ==
  ASSUME FormsBalance, Compiling, Account, return_statement, UNCHANGED stack
  PROVE  Account'
<1>1. PICK d, x : Accounts(d, x)
  BY DEF Account
<1> DEFINE s == x[1].stack
           o == Open(work, loops)
<1>2. /\ Coded(code, d, o, s) /\ s \in Seq(Nat) /\ Len(s) < StackMax /\ IsStack(s) /\ Len(s) >= 1
      /\ budget \in Nat /\ Len(s) \in Nat
  BY <1>1, PresentStack
<1>3. work # <<>> /\ Top.at \in OrArm /\ work' = Rest /\ UNCHANGED <<phase, locals, scope_depth, loops>>
      /\ Mark("return", Compound("return"), code', 0)
  BY DEF return_statement, Begin
<1> HIDE DEF s, o
<1>4. PICK e \in {code, Operand(code)} : code' = emit_byte(e, "return")
  BY DEF return_statement
<1>5. PICK d2 : Coded(code', d2, o, s) /\ Keeps(code, d, code', d2)
  <2>1. CASE e = code
    BY <2>1, <1>2, <1>4, ReturnAdded
  <2>2. CASE e = Operand(code)
    <3> DEFINE t == Append(s, 0)
    <3>1. PICK d1 : Coded(e, d1, o, t) /\ Keeps(code, d, e, d1)
      BY <2>2, <1>2, OperandPushed
    <3>2. Len(t) >= 1
      BY <1>2
    <3> HIDE DEF t
    <3>3. PICK d2 : Coded(code', d2, o, s) /\ Keeps(e, d1, code', d2)
      BY <3>1, <3>2, <1>2, <1>4, ReturnAdded
    <3>4. Keeps(code, d, code', d2)
      BY <3>1, <3>3, <1>2, Further
    <3> QED BY <3>3, <3>4
  <2> QED BY <2>1, <2>2, <1>4
<1>6. budget' \in Nat /\ budget' <= budget
  BY <1>2 DEF return_statement, Spend, Begin
<1>7. "return" \in Places
  BY DEF Places
<1> QED BY <1>1, <1>3, <1>5, <1>6, <1>7, StatementAdded DEF s, o

\* The innermost loop, of a statement that is as deep as it is.
LEMMA LoopAround ==
  ASSUME FormsBalance, Compiling, work # <<>>, NEW d, NEW x, Accounts(d, x), Top.at \in OrArm,
         loops # <<>>, Depth = Head(loops).depth \/ "unwinding" \in Forms
  PROVE  /\ Head(loops).start \in DOMAIN d /\ d[Head(loops).start] = x[1].stack
         /\ Head(loops) \in Loops /\ Head(loops).end \in Nat
         /\ Head(loops).end # 0 => Jumps(code, d, Head(loops).end, x[1].stack)
<1> DEFINE s == x[1].stack
           start == Head(loops).start
<1>1. loops \in Seq(Loops) /\ 1 \in DOMAIN loops /\ Head(loops) = loops[1] /\ loops[1] \in Loops
  BY DEF Compiling
<1>2. Lies(x[1], d) /\ s \in Seq(Nat)
  BY PresentStack
<1>3. /\ start \in DOMAIN d /\ Head(loops).depth = Len(d[start])
      /\ Head(loops).end # 0 => Jumps(code, d, Head(loops).end, d[start])
  BY <1>1 DEF Accounts, LoopsHold
<1>4. "unwinding" \notin Forms
  BY DEF FormsBalance
<1>5. Depth = Len(s)
  BY PresentDepth DEF OrArm, Anywhere
<1>6. x[1].loops = Starts(loops) /\ 1 \in DOMAIN Starts(loops) /\ Starts(loops)[1] = start
  BY <1>1 DEF Starts, Accounts
<1>7. Begins(d[start], s)
  BY <1>2, <1>6 DEF Lies
<1>8. d[start] = s
  <2>1. Len(d[start]) = Len(s)
    BY <1>3, <1>4, <1>5
  <2>2. Bottom(s, Len(s)) = s
    BY <1>2, BottomAll
  <2> QED BY <2>1, <2>2, <1>7 DEF Begins
<1> QED BY <1>1, <1>3, <1>8 DEF Loops

\* A continue finds the stack its loop began with.
LEMMA ContinueAccounted ==
  ASSUME FormsBalance, Compiling, Account, continue_statement, UNCHANGED stack
  PROVE  Account'
<1>1. PICK d, x : Accounts(d, x)
  BY DEF Account
<1> DEFINE s == x[1].stack
           o == Open(work, loops)
           start == Head(loops).start
<1>2. Coded(code, d, o, s) /\ s \in Seq(Nat) /\ IsStack(s) /\ budget \in Nat
  BY <1>1, PresentStack
<1>3. work # <<>> /\ Top.at \in OrArm /\ work' = Rest /\ UNCHANGED <<phase, locals, scope_depth, loops>>
      /\ Mark("continue", Compound("continue"), code', 0)
      /\ loops # <<>> /\ (Depth = Head(loops).depth \/ "unwinding" \in Forms)
      /\ code' = emit_loop(code, "continue", start)
  BY DEF continue_statement, Begin, OrArm
<1>4. start \in DOMAIN d /\ d[start] = s
  BY <1>1, <1>3, LoopAround
<1> HIDE DEF s, o, start
<1>5. PICK d2 : Coded(code', d2, o, s) /\ Keeps(code, d, code', d2)
  BY <1>2, <1>3, <1>4, LoopAdded
<1>6. budget' \in Nat /\ budget' <= budget
  BY <1>2 DEF continue_statement, Spend, Begin
<1>7. "continue" \in Places
  BY DEF Places
<1> QED BY <1>1, <1>3, <1>5, <1>6, <1>7, StatementAdded DEF s, o

\* The break of a loop is kept with it.
LEMMA LoopsBroken ==
  ASSUME NEW l \in Seq(Loops), l # <<>>, NEW n \in Nat, n # 0, l[1].end = 0
  PROVE  LET m == [l EXCEPT ![1].end = n]
         IN  /\ m \in Seq(Loops) /\ m # <<>> /\ Tail(m) = Tail(l) /\ m[1].end = n
             /\ Starts(m) = Starts(l)
             /\ OpenLoops(m) = OpenLoops(l) \cup {n}
             /\ \A c, d : LoopsHold(l, c, d) /\ Jumps(c, d, n, d[l[1].start]) => LoopsHold(m, c, d)
<1> DEFINE m == [l EXCEPT ![1].end = n]
<1>1. PICK h \in Nat : h = Len(l) /\ h >= 1 /\ DOMAIN l = 1..h
  OBVIOUS
<1>2. l[1] \in Loops
  BY <1>1
<1>3. [l[1] EXCEPT !.end = n] \in Loops
  BY <1>2 DEF Loops
<1>4. /\ m \in Seq(Loops) /\ Len(m) = h /\ DOMAIN m = 1..h
      /\ \A k \in 1..h : k # 1 => m[k] = l[k]
      /\ m[1] = [l[1] EXCEPT !.end = n]
  BY <1>1, <1>3
<1>5. m[1].end = n /\ m[1].start = l[1].start /\ m[1].depth = l[1].depth
  BY <1>2, <1>4 DEF Loops
<1> HIDE DEF m
<1>6. \A k \in 1..h : m[k].start = l[k].start /\ m[k].depth = l[k].depth
  BY <1>4, <1>5
<1>7. m # <<>> /\ Tail(m) = Tail(l)
  <2>1. m # <<>>
    BY <1>1, <1>4
  <2> DEFINE t == Tail(m)
             u == Tail(l)
  <2>2. t \in Seq(Loops) /\ Len(t) = h - 1 /\ \A k \in 1..(h - 1) : t[k] = m[k + 1]
    BY <2>1, <1>1, <1>4
  <2>3. u \in Seq(Loops) /\ Len(u) = h - 1 /\ \A k \in 1..(h - 1) : u[k] = l[k + 1]
    BY <1>1
  <2> HIDE DEF t, u
  <2>4. \A k \in 1..(h - 1) : t[k] = u[k]
    <3> TAKE k \in 1..(h - 1)
    <3> DEFINE j == k + 1
    <3>1. j \in 1..h /\ j # 1 /\ t[k] = m[j] /\ u[k] = l[j]
      BY <1>1, <2>2, <2>3
    <3> HIDE DEF j
    <3> QED BY <3>1, <1>4
  <2>5. t = u
    BY <2>2, <2>3, <2>4, <1>1, SeqEqual
  <2> QED BY <2>1, <2>5 DEF t, u
<1>8. Starts(m) = Starts(l)
  BY <1>1, <1>4, <1>6 DEF Starts
<1>9. OpenLoops(m) = OpenLoops(l) \cup {n}
  <2>1. OpenLoops(m) = ({n} \ {0}) \cup OpenLoops(Tail(l))
    BY <1>4, <1>5, <1>7, LoopsTail
  <2>2. OpenLoops(l) = ({0} \ {0}) \cup OpenLoops(Tail(l))
    BY LoopsTail
  <2> QED BY <2>1, <2>2
<1>10. ASSUME NEW c, NEW d, LoopsHold(l, c, d), Jumps(c, d, n, d[l[1].start])
       PROVE  LoopsHold(m, c, d)
  <2> SUFFICES ASSUME NEW k \in 1..h
               PROVE  /\ m[k].start \in DOMAIN d /\ m[k].depth = Len(d[m[k].start])
                      /\ m[k].end # 0 => Jumps(c, d, m[k].end, d[m[k].start])
    BY <1>4 DEF LoopsHold
  <2>1. l[k].start \in DOMAIN d /\ l[k].depth = Len(d[l[k].start])
        /\ (l[k].end # 0 => Jumps(c, d, l[k].end, d[l[k].start]))
    BY <1>1, <1>10 DEF LoopsHold
  <2>2. CASE k = 1
    BY <2>1, <2>2, <1>5, <1>6, <1>10
  <2>3. CASE k # 1
    BY <2>1, <2>3, <1>4
  <2> QED BY <2>2, <2>3
<1> QED BY <1>4, <1>5, <1>7, <1>8, <1>9, <1>10 DEF m

\* The first break of a loop is patched where the loop ends.
LEMMA BreakAccounted ==
  ASSUME FormsBalance, Compiling, Account, break_statement, UNCHANGED stack,
         Head(loops).end = 0
  PROVE  Account'
<1>1. PICK d, x : Accounts(d, x)
  BY DEF Account
<1> DEFINE s == x[1].stack
           o == Open(work, loops)
           n == Len(code) + 1
           start == Head(loops).start
<1>2. Coded(code, d, o, s) /\ s \in Seq(Nat) /\ IsStack(s) /\ budget \in Nat
  BY <1>1, PresentStack
<1>3. work # <<>> /\ Top.at \in OrArm /\ work' = Rest /\ UNCHANGED <<phase, locals, scope_depth>>
      /\ Mark("break", Compound("break"), code', 0)
      /\ loops # <<>> /\ (Depth = Head(loops).depth \/ "unwinding" \in Forms)
  BY DEF break_statement, Begin, OrArm
<1>4. start \in DOMAIN d /\ d[start] = s
  BY <1>1, <1>3, LoopAround
<1>5. loops \in Seq(Loops) /\ Head(loops) = loops[1] /\ Len(code) \in Nat
  BY <1>3 DEF Compiling
<1>6. /\ loops[1].end = 0 /\ code' = emit_jump(code, "break")
      /\ loops' = [loops EXCEPT ![1].end = Len(code')]
  BY <1>5 DEF break_statement
<1> HIDE DEF s, o
<1>7. PICK d2 : /\ Len(code') = n /\ Coded(code', d2, o \cup {n}, s) /\ Keeps(code, d, code', d2)
                /\ Jumps(code', d2, n, s)
  BY <1>2, <1>6, JumpAdded
<1>8. n \in Nat /\ n # 0
  BY <1>5
<1> HIDE DEF n
<1>9. /\ Starts(loops') = Starts(loops) /\ OpenLoops(loops') = OpenLoops(loops) \cup {n}
      /\ \A c, e : LoopsHold(loops, c, e) /\ Jumps(c, e, n, e[loops[1].start]) => LoopsHold(loops', c, e)
  BY <1>3, <1>5, <1>6, <1>7, <1>8, LoopsBroken
<1>10. LoopsHold(loops, code', d2) /\ d2[start] = s
  <2> DEFINE c2 == code'
             more == o \cup {n}
  <2>1. Coded(c2, d2, more, s) /\ Keeps(code, d, c2, d2)
    BY <1>7
  <2> HIDE DEF c2, more
  <2>2. LoopsHold(loops, c2, d2) /\ \A k \in DOMAIN d : d2[k] = d[k]
    BY <1>1, <2>1, Carried
  <2> QED BY <2>2, <1>4 DEF c2
<1>11. LoopsHold(loops', code', d2)
  BY <1>5, <1>7, <1>9, <1>10 DEF start
<1>12. Coded(code', d2, Open(work, loops'), s)
  <2>1. Open(work, loops') = o \cup {n}
    BY <1>9 DEF Open, o
  <2> QED BY <2>1, <1>7
<1>13. budget' \in Nat /\ budget' <= budget
  BY <1>2 DEF break_statement, Spend, Begin
<1>14. "break" \in Places
  BY DEF Places
<1> QED BY <1>1, <1>3, <1>7, <1>9, <1>11, <1>12, <1>13, <1>14, StatementCoded DEF s

\* The other breaks of the loop emit nothing.
LEMMA LaterBreakAccounted ==
  ASSUME FormsBalance, Compiling, Account, break_statement, UNCHANGED stack,
         Head(loops).end # 0
  PROVE  Account'
<1>1. PICK d, x : Accounts(d, x)
  BY DEF Account
<1> DEFINE s == x[1].stack
           o == Open(work, loops)
<1>2. Coded(code, d, o, s) /\ budget \in Nat
  BY <1>1, PresentStack
<1>3. work # <<>> /\ Top.at \in OrArm /\ work' = Rest /\ UNCHANGED <<phase, locals, scope_depth>>
      /\ Mark("break", Compound("break"), code', 0)
  BY DEF break_statement, Begin, OrArm
<1>4. UNCHANGED <<code, loops>>
  BY DEF break_statement
<1>5. Keeps(code, d, code, d)
  <2>1. code \in Seq(Instructions) /\ d \in Seq(Seq(Nat))
    BY <1>2 DEF Compiling, Coded, Flows
  <2> QED BY <2>1, KeepsItself
<1> HIDE DEF s, o
<1>6. Coded(code', d, o, s) /\ Keeps(code, d, code', d)
  BY <1>2, <1>4, <1>5
<1>7. budget' \in Nat /\ budget' <= budget
  BY <1>2 DEF break_statement, Spend, Begin
<1>8. "break" \in Places
  BY DEF Places
<1> QED BY <1>1, <1>3, <1>4, <1>6, <1>7, <1>8, StatementAdded DEF s, o

\* The entry of a compound statement knows how deep the stack is.
LEMMA CompoundFields ==
  ASSUME FormsBalance, Compiling, work # <<>>, NEW d, NEW x, Accounts(d, x), Top.at # "end_match",
         NEW at \in Places
  PROVE  LET e == Compound(at)
         IN  /\ e \in Entries /\ e.at = at /\ e.first = Len(code) + 1 /\ e.before = Len(x[1].stack)
             /\ e.start = 0 /\ e.exit = 0 /\ e.ends = {}
             /\ e.first \in DOMAIN d /\ Len(d[e.first]) = e.before
<1> DEFINE e == Compound(at)
           s == x[1].stack
<1>1. e \in Entries /\ e.at = at /\ e.start = 0 /\ e.exit = 0 /\ e.ends = {}
  BY CompoundType DEF Compiling
<1>2. e.first = Here(code) /\ e.before = Depth
  BY DEF Compound, Entry
<1>3. Depth = Len(s)
  BY PresentDepth
<1>4. Len(code) + 1 \in DOMAIN d /\ d[Len(code) + 1] = s
  BY PresentStack
<1> QED BY <1>1, <1>2, <1>3, <1>4 DEF Here

\* A local that is declared in a scope is one that the scope ends with.
LEMMA ScopeWithLocal ==
  ASSUME NEW a, NEW d, Lies(a, d), Len(a.stack) = Len(a.locals), NEW b, Lies(b, d), BlockEnds(a, b),
         NEW local \in Locals, local.depth = a.scope
  PROVE  BlockEnds(Setting(Append(a.locals, local), Append(a.stack, local.id), a.loops, a.scope), b)
<1> DEFINE l == a.locals
           s == a.stack
           m == Append(l, local)
           t == Append(s, local.id)
           e == Setting(m, t, a.loops, a.scope)
           n == Len(b.locals)
<1>1. l \in Seq(Locals) /\ s \in Seq(Nat) /\ a.scope \in Nat /\ b.locals \in Seq(Locals) /\ local.id \in Nat
  BY DEF Lies, Settings, Locals
<1>2. /\ m \in Seq(Locals) /\ Len(m) = Len(l) + 1 /\ m[Len(l) + 1] = local
      /\ \A k \in 1..Len(l) : m[k] = l[k]
      /\ DOMAIN l = 1..Len(l) /\ DOMAIN m = 1..(Len(l) + 1) /\ Len(l) \in Nat
  BY <1>1
<1>3. n \in Nat /\ DOMAIN b.locals = 1..n
  BY <1>1
<1>4. Len(t) = Len(s) + 1 /\ \A h \in 0..Len(s) : Bottom(t, h) = Bottom(s, h)
  <2> DEFINE id == local.id
  <2>1. id \in Nat
    BY <1>1
  <2> HIDE DEF id, s
  <2>2. Len(Append(s, id)) = Len(s) + 1 /\ \A h \in 0..Len(s) : Bottom(Append(s, id), h) = Bottom(s, h)
    BY <2>1, <1>1, PushFacts
  <2> QED BY <2>2 DEF id
<1>5. e.locals = m /\ e.stack = t /\ e.loops = a.loops /\ e.scope = a.scope
  BY DEF Setting
<1>6. /\ b.scope = a.scope - 1 /\ b.loops = a.loops /\ n <= Len(l)
      /\ \A k \in 1..n : b.locals[k] = l[k]
      /\ \A k \in 1..Len(l) : l[k].depth < a.scope <=> k <= n
      /\ b.stack = Bottom(s, Len(s) - (Len(l) - n))
  BY <1>2, <1>3 DEF BlockEnds, Inner
<1> HIDE DEF e, m, t, n, l, s
<1>7. \A k \in DOMAIN m : m[k].depth < a.scope <=> k <= n
  <2> TAKE k \in DOMAIN m
  <2>1. CASE k \in 1..Len(l)
    BY <2>1, <1>2, <1>6
  <2>2. CASE k = Len(l) + 1
    <3>1. m[k].depth = a.scope /\ ~ (k <= n)
      BY <2>2, <1>2, <1>3, <1>6
    <3>2. ~ (a.scope < a.scope)
      BY <1>1
    <3> QED BY <3>1, <3>2
  <2> QED BY <2>1, <2>2, <1>2
<1>8. \A k \in DOMAIN b.locals : b.locals[k] = m[k]
  BY <1>2, <1>3, <1>6
<1>9. n <= Len(m)
  BY <1>2, <1>3, <1>6
<1>10. Inner(e, b)
  BY <1>5, <1>6, <1>7, <1>8, <1>9 DEF Inner, n
<1>11. b.stack = Bottom(t, Len(t) - (Len(m) - n))
  <2>1. Len(s) = Len(l) /\ Len(s) \in Nat
    BY <1>2 DEF s, l
  <2>2. Len(t) - (Len(m) - n) = n /\ Len(s) - (Len(l) - n) = n /\ n \in 0..Len(s)
    BY <2>1, <1>2, <1>3, <1>4, <1>6
  <2> QED BY <2>2, <1>4, <1>6
<1>12. BlockEnds(e, b)
  BY <1>5, <1>10, <1>11 DEF BlockEnds, n
<1> QED BY <1>12 DEF e, m, t, l, s

\* The list of declarations goes on with one more local.
LEMMA WorkWithLocal ==
  ASSUME FormsBalance, Compiling, work # <<>>, NEW d, NEW x, Accounts(d, x),
         Top.at = "declarations", Matches = 0,
         NEW local \in Locals, local.depth = scope_depth
  PROVE  LET b == Setting(Append(locals, local), Append(x[1].stack, local.id), x[1].loops, scope_depth)
         IN  \E y : WorkHolds(work, y, code, d) /\ y[1] = b
<1> DEFINE a == x[1]
           s == a.stack
           b == Setting(Append(locals, local), Append(s, local.id), a.loops, scope_depth)
           w == Tail(work)
           y == Tail(x)
<1>1. /\ Lies(a, d) /\ s \in Seq(Nat) /\ Len(s) = Len(locals) + Values(work) /\ Len(locals) \in Nat
      /\ scope_depth \in Nat /\ d \in Seq(Seq(Nat))
  BY PresentStack
<1>2. a.locals = locals /\ a.scope = scope_depth
  BY DEF Accounts
<1>3. Values(work) = Matches /\ \A k \in DOMAIN work : work[k].at # "arms"
  BY PresentDepth
<1>4. Len(s) = Len(a.locals) /\ scope_depth \in 0..scope_depth
  BY <1>1, <1>2, <1>3
<1>5. Lies(b, d)
  BY <1>1, <1>2, <1>4, LiesWithLocal
<1>6. /\ Held(Top, a, x[2], code, d) /\ WorkHolds(w, y, code, d) /\ y[1] = x[2]
      /\ y \in Seq(Settings) /\ w \in Seq(Entries) /\ WorkFits(w, code) /\ Top \in Entries
      /\ w # <<>> => Head(w).at \in {"end_block", "end_arm", "end_default"}
      /\ work = <<Top>> \o w
  BY Present
<1>7. x[2] = a /\ Held(Top, b, b, code, d)
  BY <1>6 DEF Held, Compounds
<1>8. b.loops = a.loops
  BY DEF Setting
<1> HIDE DEF w, y
<1>9. \E z : WorkHolds(w, z, code, d) /\ z[1] = b
  <2>1. CASE w = <<>>
    <3> DEFINE z == <<b>>
    <3>1. Len(y) = 1 /\ y[Len(y)].loops = <<>>
      BY <2>1, <1>6 DEF WorkHolds
    <3>2. b.loops = <<>>
      BY <3>1, <1>6, <1>7, <1>8
    <3>3. b \in Settings
      BY <1>5 DEF Lies
    <3> HIDE DEF b
    <3>4. z \in Seq(Settings) /\ Len(z) = 1 /\ z[1] = b /\ DOMAIN z = {1}
      BY <3>3
    <3> HIDE DEF z
    <3>5. Len(w) = 0 /\ DOMAIN w = {}
      BY <2>1
    <3>6. WorkHolds(w, z, code, d)
      BY <3>2, <3>4, <3>5, <1>5 DEF WorkHolds
    <3> QED BY <3>4, <3>6
  <2>2. CASE w # <<>>
    <3> DEFINE e == Head(w)
               v == Tail(w)
               q == Tail(y)
               z == <<b>> \o q
    <3>1. /\ WorkHolds(v, q, code, d) /\ Lies(y[2], d) /\ q[1] = y[2]
          /\ Held(e, y[1], y[2], code, d)
      BY <2>2, <1>6, WorkHoldsTail
    <3>2. e.at = "end_block"
      <4>1. EndsArm(e) => \E k \in DOMAIN work : work[k].at = "arms"
        <5>1. EndsArm(e) => v # <<>> /\ Head(v).at = "arms"
          BY <2>2, <1>6, WorkTail
        <5>2. v # <<>> => 3 \in DOMAIN work /\ work[3] = Head(v)
          <6>1. work \in Seq(Entries)
            BY DEF Compiling
          <6>2. v # <<>> => Len(work) >= 3
            BY <6>1, <2>2 DEF w
          <6>3. v # <<>> => Head(v) = work[3]
            BY <6>1, <6>2 DEF w
          <6> QED BY <6>1, <6>2, <6>3
        <5> QED BY <5>1, <5>2
      <4>2. ~ EndsArm(e)
        BY <4>1, <1>3
      <4> QED BY <4>2, <2>2, <1>6 DEF EndsArm
    <3>3. v \in Seq(Entries) /\ e \in Entries /\ w = <<e>> \o v
      BY <2>2, <1>6, HeadBeforeTail
    <3>4. Held(e, a, y[2], code, d)
      BY <3>1, <1>6, <1>7
    <3>5. BlockEnds(b, y[2])
      <4>1. BlockEnds(a, y[2])
        BY <3>2, <3>4 DEF Held
      <4> QED BY <4>1, <3>1, <1>1, <1>2, <1>4, ScopeWithLocal
    <3> HIDE DEF b, e, v, q
    <3>6. Held(e, b, q[1], code, d)
      BY <3>1, <3>2, <3>4, <3>5 DEF Held, Compounds
    <3>7. WorkHolds(<<e>> \o v, z, code, d) /\ z[1] = b
      BY <3>1, <3>3, <3>6, <1>5, WorkHoldsCons
    <3> QED BY <3>3, <3>7
  <2> QED BY <2>1, <2>2
<1>10. PICK z : WorkHolds(w, z, code, d) /\ z[1] = b
  BY <1>9
<1> HIDE DEF b
<1>11. WorkHolds(<<Top>> \o w, <<b>> \o z, code, d) /\ (<<b>> \o z)[1] = b
  BY <1>5, <1>6, <1>7, <1>10, WorkHoldsCons
<1>12. \E q : WorkHolds(work, q, code, d) /\ q[1] = b
  BY <1>6, <1>11
<1> QED BY <1>12 DEF b, s, a

\* The depths add up after a push.
LEMMA SumAfterPush ==
  ASSUME NEW h \in Nat, NEW n \in Nat, NEW m \in Nat, NEW b \in Nat, NEW v \in Nat,
         h = n + v, h + b <= m, b > 0
  PROVE  h + 1 = (n + 1) + v /\ b - 1 \in Nat /\ (h + 1) + (b - 1) <= m
OBVIOUS

\* A variable of a scope is the value that was pushed last.
LEMMA LocalAccounted ==
  ASSUME FormsBalance, Compiling, NEW d, NEW x, Accounts(d, x), work # <<>>,
         Top.at = "declarations", Matches = 0, NEW name \in Names, NEW id \in Nat,
         code' = Defining(Operand(code), id), locals' = add_local(name, id), budget > 0, Spend(1),
         Mark("var", Compound("var"), code', 1), work' = work, UNCHANGED <<scope_depth, loops, stack>>
  PROVE  Account'
<1> DEFINE s == x[1].stack
           o == Open(work, loops)
           t == Append(s, id)
           local == [name |-> name, depth |-> scope_depth, id |-> id]
           b == Setting(Append(locals, local), t, x[1].loops, scope_depth)
<1>1. /\ Coded(code, d, o, s) /\ s \in Seq(Nat) /\ Len(s) < StackMax /\ Len(s) \in Nat
      /\ budget \in Nat /\ scope_depth \in Nat /\ Len(locals) \in Nat /\ StatementsMax \in Nat
      /\ Len(s) + budget <= StatementsMax + 2
      /\ Len(s) = Len(locals) + Values(work) /\ Values(work) \in Nat
  BY PresentStack
<1>2. local \in Locals /\ local.depth = scope_depth /\ local.id = id
  <2>1. scope_depth \in Int
    BY DEF Compiling
  <2> QED BY <2>1 DEF Locals
<1>3. locals' = Append(locals, local) /\ locals \in Seq(Locals) /\ WorkFits(work, code) /\ Sound(code)
  BY DEF add_local, Compiling
<1> HIDE DEF local
<1>4. PICK y : WorkHolds(work, y, code, d) /\ y[1] = b
  BY <1>2, WorkWithLocal
<1>5. y[1].locals = locals' /\ y[1].stack = t /\ y[1].loops = Starts(loops') /\ y[1].scope = scope_depth'
  BY <1>3, <1>4 DEF Setting, Accounts
<1>6. code' = Append(code, Instruction("push", 0, 0, id))
  BY <1>3, NamedOperand
<1> HIDE DEF s, o
<1>7. t \in Seq(Nat) /\ Len(t) = Len(s) + 1
  BY <1>1, PushFacts
<1>8. PICK d2 : Coded(code', d2, o, t) /\ Keeps(code, d, code', d2)
  BY <1>1, <1>6, Pushed
<1> HIDE DEF t, b
<1>9. /\ WorkHolds(work, y, code', d2) /\ LoopsHold(loops, code', d2) /\ MarksHold(d2) /\ stack = d2[1]
      /\ \A k \in DOMAIN d : k \in DOMAIN d2 /\ d2[k] = d[k]
      /\ Len(code') + 1 \in DOMAIN d2 /\ d2[Len(code') + 1] = t
  <2> DEFINE c2 == code'
  <2>1. Coded(c2, d2, o, t) /\ Keeps(code, d, c2, d2)
    BY <1>8
  <2> HIDE DEF c2
  <2>2. /\ LoopsHold(loops, c2, d2) /\ MarksHold(d2) /\ stack = d2[1]
        /\ DOMAIN d \subseteq DOMAIN d2 /\ \A k \in DOMAIN d : d2[k] = d[k]
        /\ Len(c2) + 1 \in DOMAIN d2 /\ d2[Len(c2) + 1] = t
        /\ \A w, z : WorkFits(w, code) /\ WorkHolds(w, z, code, d) => WorkHolds(w, z, c2, d2)
    BY <2>1, Carried
  <2> QED BY <2>2, <1>3, <1>4 DEF c2
<1>10. \A m \in marks' : /\ m.first \in DOMAIN d2 /\ Len(d2[m.first]) = m.before
                         /\ m.end \in DOMAIN d2 /\ Len(d2[m.end]) = m.after
  <2> DEFINE e == Compound("var")
             c2 == code'
  <2>1. e.first \in DOMAIN d /\ Len(d[e.first]) = e.before /\ e.before = Len(s)
    <3>1. "var" \in Places
      BY DEF Places
    <3> QED BY <3>1, CompoundFields DEF s
  <2>2. /\ e.first \in DOMAIN d2 /\ Len(d2[e.first]) = e.before
        /\ Len(c2) + 1 \in DOMAIN d2 /\ Len(d2[Len(c2) + 1]) = e.before + 1
        /\ Mark("var", e, c2, 1)
    BY <2>1, <1>7, <1>9
  <2> HIDE DEF e, c2
  <2> QED BY <2>2, <1>9, MarksHoldStill
<1>11. /\ Len(locals') = Len(locals) + 1
       /\ Len(t) = Len(locals') + Values(work) /\ budget' \in Nat /\ Len(t) + budget' <= StatementsMax + 2
  <2>1. Len(locals') = Len(locals) + 1 /\ budget' = budget - 1
    BY <1>3 DEF Spend
  <2> DEFINE h == Len(s)
             n == Len(locals)
             v == Values(work)
             m == StatementsMax + 2
  <2>2. h \in Nat /\ n \in Nat /\ v \in Nat /\ m \in Nat /\ budget \in Nat /\ h = n + v /\ h + budget <= m
        /\ Len(t) = h + 1 /\ Len(locals') = n + 1
    BY <2>1, <1>1, <1>7
  <2> HIDE DEF h, n, v, m
  <2>3. h + 1 = (n + 1) + v /\ budget - 1 \in Nat /\ (h + 1) + (budget - 1) <= m
    BY <2>2, SumAfterPush
  <2> QED BY <2>1, <2>2, <2>3 DEF n, v, m
<1>12. Coded(code', d2, Open(work', loops'), y[1].stack) /\ WorkHolds(work', y, code', d2)
       /\ Ordered(work') /\ LoopsHold(loops', code', d2) /\ stack' = d2[1]
  BY <1>5, <1>8, <1>9 DEF o, Accounts
<1>13. Len(y[1].stack) = Len(locals') + Values(work') /\ Len(y[1].stack) + budget' <= StatementsMax + 2
  BY <1>5, <1>11
<1> QED BY <1>5, <1>10, <1>11, <1>12, <1>13, Accounted

\* A declaration leaves the value of its local, or defines a global.
LEMMA DeclarationAccounted ==
  ASSUME FormsBalance, Compiling, Account, var_declaration, UNCHANGED stack
  PROVE  Account'
<1>1. PICK d, x : Accounts(d, x)
  BY DEF Account
<1>2. /\ work # <<>> /\ Top.at = "declarations" /\ Top.at \in OrArm /\ budget > 0
      /\ work' = Rest /\ UNCHANGED <<scope_depth, loops>> /\ Spend(1) /\ budget \in Nat
  BY <1>1, PresentStack DEF var_declaration, Begin, OrArm, Anywhere
<1>3. PICK name \in Names :
        \/ /\ code' = emit_byte(Operand(code), "define_global")
           /\ Mark("var", Compound("var"), code', 0)
           /\ UNCHANGED locals
        \/ /\ Matches = 0 \/ "arm_locals" \in Forms
           /\ declared' = declared + 1
           /\ code' = Defining(Operand(code), declared')
           /\ locals' = add_local(name, declared')
           /\ Mark("var", Compound("var"), code', 1)
  BY DEF var_declaration
<1>4. CASE /\ code' = emit_byte(Operand(code), "define_global")
           /\ Mark("var", Compound("var"), code', 0)
           /\ UNCHANGED locals
  <2> DEFINE s == x[1].stack
             o == Open(work, loops)
  <2>1. Coded(code, d, o, s) /\ Len(s) < StackMax
    BY <1>1, PresentStack
  <2> HIDE DEF s, o
  <2>2. PICK d1 : Coded(Operand(code), d1, o, Append(s, 0)) /\ Keeps(code, d, Operand(code), d1)
    BY <2>1, OperandPushed
  <2>3. PICK d2 : Coded(code', d2, o, s) /\ Keeps(code, d, code', d2)
    BY <2>1, <2>2, <1>4, ValuePopped
  <2>4. budget' \in Nat /\ budget' <= budget
    BY <1>2 DEF Spend
  <2>5. "var" \in Places
    BY DEF Places
  <2> QED BY <1>1, <1>2, <1>4, <2>3, <2>4, <2>5, StatementAdded DEF s, o
<1>5. CASE /\ Matches = 0 \/ "arm_locals" \in Forms
           /\ declared' = declared + 1
           /\ code' = Defining(Operand(code), declared')
           /\ locals' = add_local(name, declared')
           /\ Mark("var", Compound("var"), code', 1)
  <2>1. Matches = 0 /\ declared' \in Nat /\ work' = work
    BY <1>2, <1>5 DEF FormsBalance, Compiling, Rest
  <2> QED BY <1>1, <1>2, <1>5, <2>1, LocalAccounted
<1> QED BY <1>3, <1>4, <1>5

\* A body follows, and then the end of what is around it.
LEMMA BodyAccounted ==
  ASSUME NEW w \in Seq(Entries), NEW d2, NEW y, WorkHolds(w, y, code', d2), Ordered(w),
         w # <<>> => Head(w).at # "end_match",
         NEW at \in {"declarations", "statement", "arm"},
         NEW e \in Entries, e.at \notin {"arms", "end_match", "declarations", "arm"},
         at # "statement" => e.at \in {"end_block", "end_arm", "end_default"},
         NEW a, Lies(a, d2), Held(e, a, y[1], code', d2), work' = <<Entry(at), e>> \o w,
         NEW o, Coded(code', d2, o, a.stack), o \subseteq Own(e) \cup Open(w, loops'),
         a.locals = locals', a.loops = Starts(loops'), a.scope = scope_depth',
         LoopsHold(loops', code', d2), Len(a.stack) = Len(locals') + Values(w),
         budget' \in Nat, Len(a.stack) + budget' <= StatementsMax + 2,
         \A m \in marks' : /\ m.first \in DOMAIN d2 /\ Len(d2[m.first]) = m.before
                           /\ m.end \in DOMAIN d2 /\ Len(d2[m.end]) = m.after,
         stack' = d2[1]
  PROVE  Account'
<1> DEFINE c2 == code'
           v == <<Entry(at), e>> \o w
           z == <<a>> \o (<<a>> \o y)
<1>1. WorkHolds(w, y, c2, d2) /\ Held(e, a, y[1], c2, d2)
  OBVIOUS
<1> HIDE DEF c2
<1>2. /\ WorkHolds(v, z, c2, d2) /\ z[1] = a
      /\ Ordered(v) /\ OpenWork(v) = Own(e) \cup OpenWork(w)
      /\ Values(v) = Values(<<e>> \o w)
  BY <1>1, BodyHolds
<1> HIDE DEF v, z
<1>3. Values(v) = Values(w)
  BY <1>2, ValuesCons
<1>4. work' = v
  BY DEF v
<1>5. o \subseteq Open(work', loops')
  BY <1>2, <1>4 DEF Open
<1>6. Coded(code', d2, Open(work', loops'), a.stack)
  <2> DEFINE more == Open(work', loops')
             t == a.stack
  <2>1. Coded(c2, d2, o, t) /\ o \subseteq more
    BY <1>5 DEF c2
  <2> HIDE DEF more, t
  <2>2. Coded(c2, d2, more, t)
    BY <2>1, CodedMore
  <2> QED BY <2>2 DEF c2, more, t
<1>7. WorkHolds(work', z, code', d2) /\ Ordered(work') /\ Values(work') = Values(w)
  BY <1>2, <1>3, <1>4 DEF c2
<1> QED BY <1>2, <1>6, <1>7, Accounted

\* A block opens a scope.
LEMMA BlockAccounted ==
  ASSUME FormsBalance, Compiling, Account, block_statement, UNCHANGED stack
  PROVE  Account'
<1>1. PICK d, x : Accounts(d, x)
  BY DEF Account
<1> DEFINE s == x[1].stack
           o == Open(work, loops)
           e == Compound("end_block")
           a == Setting(locals, s, x[1].loops, scope_depth + 1)
<1>2. /\ Coded(code, d, o, s) /\ Lies(x[1], d) /\ budget \in Nat /\ Len(s) + budget <= StatementsMax + 2
      /\ Len(s) = Len(locals) + Values(work) /\ s \in Seq(Nat) /\ Len(s) \in Nat /\ StatementsMax \in Nat
      /\ Len(locals) \in Nat
  BY <1>1, PresentStack
<1>3. /\ work # <<>> /\ Top.at \in OrArm /\ Top.at # "end_match" /\ budget > 0 /\ budget' = budget - 1
      /\ scope_depth' = scope_depth + 1
      /\ work' = <<Entry("declarations"), e>> \o Rest
      /\ UNCHANGED <<code, locals, loops, marks>>
  BY <1>2 DEF block_statement, Begin, begin_scope, Spend, OrArm, Anywhere
<1>4. PICK y : WorkHolds(Rest, y, code, d) /\ y[1] = x[1]
  BY <1>1, <1>3, RestHolds
<1>5. /\ Rest \in Seq(Entries) /\ Ordered(Rest) /\ OpenWork(Rest) = OpenWork(work) /\ Values(Rest) = Values(work)
      /\ Rest # <<>> => Head(Rest).at # "end_match"
  BY <1>1, <1>3, RestHolds
<1>6. /\ x[1].locals = locals /\ x[1].loops = Starts(loops) /\ x[1].scope = scope_depth
      /\ LoopsHold(loops, code, d) /\ MarksHold(d) /\ stack = d[1]
      /\ x[1] \in Settings
  BY <1>1, <1>2 DEF Accounts, Lies
<1>7. Lies(a, d) /\ Inner(a, x[1]) /\ a.locals = locals /\ a.loops = x[1].loops /\ a.stack = s /\ a.scope = scope_depth + 1
  BY <1>2, <1>6, LiesDeeper, InnerDeeper DEF Setting
<1>8. /\ e \in Entries /\ e.at = "end_block" /\ e.before = Len(s) /\ e.exit = 0 /\ e.ends = {}
      /\ e.first \in DOMAIN d /\ Len(d[e.first]) = e.before
  BY <1>1, <1>3, CompoundFields DEF Places
<1>9. Held(e, a, y[1], code, d)
  <2>1. BlockEnds(a, x[1])
    <3>1. Len(s) - (Len(locals) - Len(locals)) = Len(s) /\ Bottom(s, Len(s)) = s
      BY <1>2, BottomAll
    <3> QED BY <3>1, <1>6, <1>7 DEF BlockEnds
  <2> QED BY <2>1, <1>4, <1>8 DEF Held
<1> HIDE DEF s, o, e, a
<1>10. o \subseteq Own(e) \cup Open(Rest, loops)
  BY <1>5 DEF Open, o
<1>11. budget' \in Nat /\ Len(s) + budget' <= StatementsMax + 2
  <2> DEFINE h == Len(s)
  <2>1. h \in Nat /\ h + budget <= StatementsMax + 2
    BY <1>2
  <2> HIDE DEF h
  <2>2. budget' \in Nat /\ h + budget' <= StatementsMax + 2
    BY <2>1, <1>2, <1>3
  <2> QED BY <2>2 DEF h
<1>12. "declarations" \in {"declarations", "statement", "arm"}
  OBVIOUS
<1>13. /\ WorkHolds(Rest, y, code', d) /\ Held(e, a, y[1], code', d) /\ Coded(code', d, o, a.stack)
       /\ o \subseteq Own(e) \cup Open(Rest, loops')
       /\ a.locals = locals' /\ a.loops = Starts(loops') /\ a.scope = scope_depth'
       /\ LoopsHold(loops', code', d) /\ Len(a.stack) = Len(locals') + Values(Rest)
       /\ Len(a.stack) + budget' <= StatementsMax + 2
       /\ stack' = d[1]
  BY <1>2, <1>3, <1>4, <1>5, <1>6, <1>7, <1>9, <1>10, <1>11
<1>14. \A m \in marks' : /\ m.first \in DOMAIN d /\ Len(d[m.first]) = m.before
                         /\ m.end \in DOMAIN d /\ Len(d[m.end]) = m.after
  BY <1>3, <1>6 DEF MarksHold
<1>15. /\ e \in Entries /\ e.at \notin {"arms", "end_match", "declarations", "arm"}
       /\ e.at \in {"end_block", "end_arm", "end_default"} /\ Lies(a, d)
  BY <1>7, <1>8
<1> QED BY ZenonT(30), <1>3, <1>5, <1>11, <1>12, <1>13, <1>14, <1>15, BodyAccounted

\* The block of an arm is in the scope of the arm.
LEMMA ArmBlockAccounted ==
  ASSUME FormsBalance, Compiling, Account, arm_block, UNCHANGED stack
  PROVE  Account'
<1>1. PICK d, x : Accounts(d, x)
  BY DEF Account
<1> DEFINE a == x[1]
           s == a.stack
           e == Entry("declarations")
           w == Tail(work)
           y == Tail(x)
           z == <<a>> \o y
           v == <<e>> \o w
<1>2. /\ work # <<>> /\ Top.at = "arm" /\ budget # 0 /\ budget' = budget - 1
      /\ work' = v /\ UNCHANGED <<code, locals, scope_depth, loops, marks>>
  <2>1. /\ work # <<>> /\ Top.at \in {"arm"} /\ budget # 0 /\ budget' = budget - 1
        /\ work' = <<e>> \o Rest /\ UNCHANGED <<code, locals, scope_depth, loops, marks>>
    BY DEF arm_block, Begin, Spend
  <2>2. Rest = w
    BY <2>1 DEF Rest
  <2> QED BY <2>1, <2>2
<1>3. /\ Coded(code, d, Open(work, loops), s) /\ Lies(a, d) /\ budget \in Nat
      /\ Len(s) + budget <= StatementsMax + 2
      /\ Len(s) = Len(locals) + Values(work) /\ s \in Seq(Nat) /\ Len(s) \in Nat /\ StatementsMax \in Nat
  BY <1>1, PresentStack
<1>4. /\ Held(Top, a, x[2], code, d) /\ WorkHolds(w, y, code, d) /\ y[1] = x[2]
      /\ w \in Seq(Entries) /\ Ordered(w) /\ work \in Seq(Entries)
      /\ w # <<>> => Head(w).at # "end_match" /\ Head(w).at \in {"end_block", "end_arm", "end_default"}
      /\ OpenWork(work) = Own(Top) \cup OpenWork(w)
  BY <1>1, <1>2, Present DEF Compiling
<1>5. Values(work) = Values(w)
  BY <1>2, <1>4, ValuesTail DEF Top
<1>6. /\ a.locals = locals /\ a.loops = Starts(loops) /\ a.scope = scope_depth
      /\ LoopsHold(loops, code, d) /\ MarksHold(d) /\ stack = d[1]
  BY <1>1 DEF Accounts
<1>7. e \in Entries /\ e.at = "declarations" /\ e.exit = 0 /\ e.ends = {}
  BY DEF Entry, Entries, Places
<1>8. x[2] = a /\ Own(Top) = {} /\ Own(e) = {}
  BY <1>2, <1>4, <1>7 DEF Held, Own
<1>9. Held(e, a, y[1], code, d)
  BY <1>4, <1>7, <1>8 DEF Held, Compounds
<1> HIDE DEF e, w, y
<1>10. WorkHolds(v, z, code, d) /\ z[1] = a
  BY <1>3, <1>4, <1>7, <1>9, WorkHoldsCons
<1>11. Ordered(v) /\ OpenWork(v) = OpenWork(work) /\ Values(v) = Values(work)
  <2>1. Ordered(v)
    BY <1>4, <1>7, OrderedCons
  <2>2. OpenWork(v) = Own(e) \cup OpenWork(w) /\ Values(v) = Values(w)
    BY <1>4, <1>7, OpenCons, ValuesCons
  <2> QED BY <2>1, <2>2, <1>4, <1>5, <1>8
<1> HIDE DEF v, z, s, a
<1>12. budget' \in Nat /\ Len(s) + budget' <= StatementsMax + 2
  <2> DEFINE h == Len(s)
  <2>1. h \in Nat /\ h + budget <= StatementsMax + 2
    BY <1>3
  <2> HIDE DEF h
  <2>2. budget' \in Nat /\ h + budget' <= StatementsMax + 2
    BY <2>1, <1>2, <1>3
  <2> QED BY <2>2 DEF h
<1>13. Open(work', loops') = Open(work, loops)
  BY <1>2, <1>11 DEF Open
<1>14. z[1].stack = s /\ z[1].locals = locals' /\ z[1].loops = Starts(loops') /\ z[1].scope = scope_depth'
  BY <1>2, <1>6, <1>10 DEF s
<1>15. \A m \in marks' : /\ m.first \in DOMAIN d /\ Len(d[m.first]) = m.before
                         /\ m.end \in DOMAIN d /\ Len(d[m.end]) = m.after
  BY <1>2, <1>6 DEF MarksHold
<1>16. /\ Coded(code', d, Open(work', loops'), z[1].stack) /\ WorkHolds(work', z, code', d) /\ Ordered(work')
       /\ LoopsHold(loops', code', d) /\ Len(z[1].stack) = Len(locals') + Values(work')
       /\ stack' = d[1]
  BY <1>2, <1>3, <1>6, <1>10, <1>11, <1>13, <1>14
<1>17. Len(z[1].stack) + budget' <= StatementsMax + 2
  BY <1>12, <1>14
<1> QED BY <1>12, <1>14, <1>15, <1>16, <1>17, Accounted

\* A list of declarations ends where its block does.
LEMMA EndOfDeclarationsAccounted ==
  ASSUME FormsBalance, Compiling, Account, end_declarations, UNCHANGED stack
  PROVE  Account'
<1>1. PICK d, x : Accounts(d, x)
  BY DEF Account
<1> DEFINE a == x[1]
           s == a.stack
           w == Tail(work)
           y == Tail(x)
<1>2. /\ work # <<>> /\ Top.at = "declarations" /\ work' = w
      /\ UNCHANGED <<code, locals, scope_depth, loops, budget, marks>>
  BY DEF end_declarations, Resume
<1>3. /\ Coded(code, d, Open(work, loops), s) /\ budget \in Nat /\ Len(s) + budget <= StatementsMax + 2
      /\ Len(s) = Len(locals) + Values(work)
  BY <1>1, PresentStack
<1>4. /\ Held(Top, a, x[2], code, d) /\ WorkHolds(w, y, code, d) /\ y[1] = x[2]
      /\ Ordered(w) /\ work \in Seq(Entries) /\ OpenWork(work) = Own(Top) \cup OpenWork(w)
  BY <1>1, <1>2, Present DEF Compiling
<1>5. Values(work) = Values(w)
  BY <1>2, <1>4, ValuesTail DEF Top
<1>6. /\ a.locals = locals /\ a.loops = Starts(loops) /\ a.scope = scope_depth
      /\ LoopsHold(loops, code, d) /\ MarksHold(d) /\ stack = d[1]
  BY <1>1 DEF Accounts
<1>7. x[2] = a /\ Own(Top) = {}
  BY <1>2, <1>4 DEF Held, Own
<1> HIDE DEF w, y, s
<1>8. Open(work', loops') = Open(work, loops)
  BY <1>2, <1>4, <1>7 DEF Open
<1>9. y[1].stack = s /\ y[1].locals = locals' /\ y[1].loops = Starts(loops') /\ y[1].scope = scope_depth'
  BY <1>2, <1>4, <1>6, <1>7 DEF s
<1>10. \A m \in marks' : /\ m.first \in DOMAIN d /\ Len(d[m.first]) = m.before
                         /\ m.end \in DOMAIN d /\ Len(d[m.end]) = m.after
  BY <1>2, <1>6 DEF MarksHold
<1>11. /\ Coded(code', d, Open(work', loops'), y[1].stack) /\ WorkHolds(work', y, code', d) /\ Ordered(work')
       /\ LoopsHold(loops', code', d) /\ Len(y[1].stack) = Len(locals') + Values(work')
       /\ stack' = d[1] /\ budget' \in Nat /\ Len(y[1].stack) + budget' <= StatementsMax + 2
  BY <1>2, <1>3, <1>4, <1>5, <1>6, <1>8, <1>9
<1> QED BY <1>9, <1>10, <1>11, Accounted

\* A compound statement is complete, and its entry is done.
LEMMA EndAccounted ==
  ASSUME FormsBalance, Compiling, work # <<>>, NEW d, NEW x, Accounts(d, x), Top.at \in Compounds,
         work' = Tail(work), NEW d2, NEW o, Coded(code', d2, o, x[2].stack), Keeps(code, d, code', d2),
         o \subseteq Open(Tail(work), loops'),
         x[2].locals = locals', x[2].loops = Starts(loops'), x[2].scope = scope_depth',
         LoopsHold(loops', code', d2),
         Len(x[2].stack) = Len(locals') + Values(Tail(work)),
         Len(x[2].stack) <= Len(x[1].stack), UNCHANGED <<budget, stack>>,
         NEW kind, Mark(kind, Top, code', 0)
  PROVE  Account'
<1> DEFINE c2 == code'
           a == x[1]
           b == x[2]
           t == b.stack
           w == Tail(work)
           y == Tail(x)
<1>1. /\ Held(Top, a, b, code, d) /\ WorkHolds(w, y, code, d) /\ y[1] = b
      /\ Ordered(w) /\ WorkFits(w, code) /\ Lies(b, d)
  BY Present
<1>2. /\ budget \in Nat /\ Len(a.stack) + budget <= StatementsMax + 2 /\ Len(a.stack) \in Nat /\ StatementsMax \in Nat
  BY PresentStack
<1>3. t \in Seq(Nat) /\ Len(t) \in Nat
  BY <1>1 DEF Lies, Settings
<1>4. Top.first \in DOMAIN d /\ Len(d[Top.first]) = Top.before /\ Top.before = Len(t)
  BY <1>1 DEF Held
<1>5. Coded(c2, d2, o, t) /\ Keeps(code, d, c2, d2) /\ Mark(kind, Top, c2, 0)
  OBVIOUS
<1> HIDE DEF c2, t
<1>6. /\ WorkHolds(w, y, c2, d2) /\ MarksHold(d2) /\ stack = d2[1]
      /\ Top.first \in DOMAIN d2 /\ d2[Top.first] = d[Top.first]
      /\ Len(c2) + 1 \in DOMAIN d2 /\ d2[Len(c2) + 1] = t
  <2>1. /\ DOMAIN d \subseteq DOMAIN d2 /\ \A k \in DOMAIN d : d2[k] = d[k]
        /\ Len(c2) + 1 \in DOMAIN d2 /\ d2[Len(c2) + 1] = t
        /\ MarksHold(d2) /\ stack = d2[1]
        /\ \A v, z : WorkFits(v, code) /\ WorkHolds(v, z, code, d) => WorkHolds(v, z, c2, d2)
    BY <1>5, Carried
  <2> QED BY <2>1, <1>1, <1>4
<1>7. \A m \in marks' : /\ m.first \in DOMAIN d2 /\ Len(d2[m.first]) = m.before
                        /\ m.end \in DOMAIN d2 /\ Len(d2[m.end]) = m.after
  <2> DEFINE e == Top
  <2>1. /\ e.first \in DOMAIN d2 /\ Len(d2[e.first]) = e.before
        /\ Len(d2[Len(c2) + 1]) = e.before + 0
    BY <1>3, <1>4, <1>6
  <2>2. Mark(kind, e, c2, 0)
    BY <1>5
  <2> HIDE DEF e
  <2> QED BY <2>1, <2>2, <1>6, MarksHoldStill
<1>8. Coded(c2, d2, Open(w, loops'), t)
  <2> DEFINE more == Open(w, loops')
  <2>1. o \subseteq more
    OBVIOUS
  <2> HIDE DEF more
  <2>2. Coded(c2, d2, more, t)
    BY <2>1, <1>5, CodedMore
  <2> QED BY <2>2 DEF more
<1>9. Len(t) + budget' <= StatementsMax + 2
  <2> DEFINE h == Len(a.stack)
             g == Len(t)
  <2>1. h \in Nat /\ h + budget <= StatementsMax + 2 /\ g <= h /\ g \in Nat /\ budget' = budget
    BY <1>2, <1>3 DEF t
  <2> HIDE DEF h, g
  <2>2. g + budget' <= StatementsMax + 2
    BY <2>1, <1>2
  <2> QED BY <2>2 DEF g
<1>10. /\ y[1].stack = t /\ y[1].locals = locals' /\ y[1].loops = Starts(loops') /\ y[1].scope = scope_depth'
       /\ Len(t) = Len(locals') + Values(w)
  BY <1>1 DEF t
<1> HIDE DEF w, y
<1>11. /\ Coded(code', d2, Open(work', loops'), y[1].stack) /\ WorkHolds(work', y, code', d2) /\ Ordered(work')
       /\ Len(y[1].stack) = Len(locals') + Values(work')
       /\ stack' = d2[1] /\ budget' \in Nat /\ Len(y[1].stack) + budget' <= StatementsMax + 2
  BY <1>1, <1>2, <1>6, <1>8, <1>9, <1>10 DEF c2, w
<1> QED BY <1>7, <1>10, <1>11, Accounted

\* A block ends with the pops of its locals.
LEMMA EndOfBlockAccounted ==
  ASSUME FormsBalance, Compiling, Account, end_block, UNCHANGED stack
  PROVE  Account'
<1>1. PICK d, x : Accounts(d, x)
  BY DEF Account
<1> DEFINE a == x[1]
           b == x[2]
           s == a.stack
           n == Len(locals) - Len(b.locals)
           o == Open(work, loops)
<1>2. /\ work # <<>> /\ Top.at = "end_block" /\ work' = Tail(work) /\ end_scope(code)
      /\ UNCHANGED <<loops, budget>> /\ Mark("block", Top, code', 0)
  BY DEF end_block, Resume
<1>3. /\ Coded(code, d, o, s) /\ Lies(a, d) /\ s \in Seq(Nat) /\ Len(s) \in Nat
      /\ Len(s) = Len(locals) + Values(work) /\ scope_depth \in Nat /\ Len(locals) \in Nat
      /\ Values(work) \in Nat
  BY <1>1, PresentStack
<1>4. /\ Held(Top, a, b, code, d) /\ b \in Settings /\ work \in Seq(Entries)
      /\ OpenWork(work) = Own(Top) \cup OpenWork(Tail(work))
  BY <1>1, <1>2, Present DEF Compiling
<1>5. Values(work) = Values(Tail(work))
  BY <1>2, <1>4, ValuesTail DEF Top
<1>6. a.locals = locals /\ a.loops = Starts(loops) /\ a.scope = scope_depth /\ LoopsHold(loops, code, d)
  BY <1>1 DEF Accounts
<1>7. BlockEnds(a, b) /\ Own(Top) = {}
  BY <1>2, <1>4 DEF Held, Own
<1>8. /\ code' = EmitPops(code, n) /\ n \in 0..Len(locals)
      /\ locals' = b.locals /\ scope_depth' = b.scope
  BY <1>2, <1>3, <1>4, <1>6, <1>7, ScopeEnds DEF BlockEnds, Compiling
<1>9. /\ b.stack = Bottom(s, Len(s) - n) /\ b.loops = Starts(loops)
      /\ Len(b.locals) \in Nat /\ Len(b.locals) = Len(locals) - n
  <2>1. Len(b.locals) \in Nat
    BY <1>4 DEF Settings
  <2> QED BY <2>1, <1>3, <1>6, <1>7 DEF BlockEnds, Inner
<1> HIDE DEF n, s, o
<1>10. n \in 0..Len(s)
  BY <1>3, <1>8
<1>11. PICK d2 : Coded(code', d2, o, Bottom(s, Len(s) - n)) /\ Keeps(code, d, code', d2)
  BY <1>3, <1>8, <1>10, PopsAdded
<1>12. Len(b.stack) = Len(s) - n
  <2> DEFINE h == Len(s) - n
  <2>1. h \in 0..Len(s)
    BY <1>3, <1>10
  <2> HIDE DEF h
  <2>2. Len(Bottom(s, h)) = h
    BY <2>1, <1>3, BottomType
  <2> QED BY <2>2, <1>9 DEF h
<1>13. Len(b.stack) = Len(locals') + Values(Tail(work)) /\ Len(b.stack) <= Len(s)
  BY <1>3, <1>5, <1>8, <1>9, <1>10, <1>12
<1>14. LoopsHold(loops', code', d2)
  <2> DEFINE c2 == code'
             t == Bottom(s, Len(s) - n)
  <2>1. Coded(c2, d2, o, t) /\ Keeps(code, d, c2, d2)
    BY <1>11
  <2> HIDE DEF c2, t
  <2>2. LoopsHold(loops, c2, d2)
    BY <1>1, <2>1, Carried
  <2> QED BY <2>2, <1>2 DEF c2
<1>15. o \subseteq Open(Tail(work), loops')
  BY <1>2, <1>4, <1>7 DEF Open, o
<1>16. Coded(code', d2, o, x[2].stack) /\ Len(x[2].stack) <= Len(x[1].stack)
  BY <1>9, <1>11, <1>13 DEF s
<1>17. Top.at \in Compounds
  BY <1>2 DEF Compounds
<1>18. x[2].locals = locals' /\ x[2].loops = Starts(loops') /\ x[2].scope = scope_depth'
  BY <1>2, <1>8, <1>9
<1> HIDE DEF a
<1> QED BY <1>1, <1>2, <1>11, <1>13, <1>14, <1>15, <1>16, <1>17, <1>18, EndAccounted

\* The body of a statement follows, with the stack as it was.
LEMMA BodyBegun ==
  ASSUME FormsBalance, Compiling, work # <<>>, NEW d, NEW x, Accounts(d, x), Top.at \in OrArm,
         NEW e \in Entries, e.at \in {"end_then", "end_while"}, work' = <<Entry("statement"), e>> \o Rest,
         NEW d2, NEW o, Coded(code', d2, o, x[1].stack), Keeps(code, d, code', d2),
         o \subseteq Own(e) \cup Open(work, loops'),
         NEW a, Lies(a, d2), Held(e, a, x[1], code', d2), a.stack = x[1].stack,
         a.locals = locals', a.loops = Starts(loops'), a.scope = scope_depth',
         LoopsHold(loops', code', d2), UNCHANGED <<locals, marks, stack>>,
         budget' = budget - 1, budget # 0
  PROVE  Account'
<1> DEFINE s == x[1].stack
           c2 == code'
<1>1. PICK y : WorkHolds(Rest, y, code, d) /\ y[1] = x[1]
  BY RestHolds
<1>2. /\ Rest \in Seq(Entries) /\ WorkFits(Rest, code) /\ Ordered(Rest)
      /\ Rest # <<>> => Head(Rest).at # "end_match"
      /\ OpenWork(Rest) = OpenWork(work) /\ Values(Rest) = Values(work)
  BY RestHolds
<1>3. /\ budget \in Nat /\ Len(s) + budget <= StatementsMax + 2 /\ Len(s) \in Nat /\ StatementsMax \in Nat
      /\ Len(s) = Len(locals) + Values(work)
  BY PresentStack
<1>4. Coded(c2, d2, o, s) /\ Keeps(code, d, c2, d2)
  OBVIOUS
<1> HIDE DEF c2, s
<1>5. WorkHolds(Rest, y, c2, d2) /\ MarksHold(d2) /\ stack = d2[1]
  <2>1. /\ MarksHold(d2) /\ stack = d2[1]
        /\ \A v, z : WorkFits(v, code) /\ WorkHolds(v, z, code, d) => WorkHolds(v, z, c2, d2)
    BY <1>4, Carried
  <2> QED BY <2>1, <1>1, <1>2
<1>6. budget' \in Nat /\ Len(a.stack) + budget' <= StatementsMax + 2
  <2> DEFINE h == Len(a.stack)
  <2>1. h \in Nat /\ h + budget <= StatementsMax + 2
    BY <1>3 DEF s
  <2> HIDE DEF h
  <2>2. budget' \in Nat /\ h + budget' <= StatementsMax + 2
    BY <2>1, <1>3
  <2> QED BY <2>2 DEF h
<1>7. \A m \in marks' : /\ m.first \in DOMAIN d2 /\ Len(d2[m.first]) = m.before
                        /\ m.end \in DOMAIN d2 /\ Len(d2[m.end]) = m.after
  BY <1>5 DEF MarksHold
<1>8. o \subseteq Own(e) \cup Open(Rest, loops')
  BY <1>2 DEF Open
<1>9. Held(e, a, y[1], code', d2) /\ WorkHolds(Rest, y, code', d2) /\ Coded(code', d2, o, a.stack)
      /\ Len(a.stack) = Len(locals') + Values(Rest) /\ stack' = d2[1]
  BY <1>1, <1>2, <1>3, <1>4, <1>5 DEF c2, s
<1>10. "statement" \in {"declarations", "statement", "arm"}
       /\ ("statement" # "statement" => e.at \in {"end_block", "end_arm", "end_default"})
       /\ e.at \notin {"arms", "end_match", "declarations", "arm"}
  OBVIOUS
<1> QED BY <1>2, <1>6, <1>7, <1>8, <1>9, <1>10, BodyAccounted

\* An entry with an exit to patch.
LEMMA ExitEdit ==
  ASSUME NEW r \in Entries, NEW n \in Nat
  PROVE  LET e == [r EXCEPT !.exit = n]
         IN  /\ e \in Entries /\ e.exit = n /\ e.at = r.at /\ e.first = r.first
             /\ e.before = r.before /\ e.start = r.start /\ e.ends = r.ends
BY DEF Entries

\* A condition is tested, and popped where it holds.
LEMMA IfAccounted ==
  ASSUME FormsBalance, Compiling, Account, if_statement, UNCHANGED stack
  PROVE  Account'
<1>1. PICK d, x : Accounts(d, x)
  BY DEF Account
<1> DEFINE a == x[1]
           s == a.stack
           o == Open(work, loops)
           n == Len(code) + 2
           r == Compound("end_then")
           e == [r EXCEPT !.exit = n]
<1>2. /\ Coded(code, d, o, s) /\ Lies(a, d) /\ s \in Seq(Nat) /\ Len(s) < StackMax
  BY <1>1, PresentStack
<1>3. /\ work # <<>> /\ Top.at \in OrArm /\ Top.at # "end_match" /\ budget # 0 /\ budget' = budget - 1
      /\ UNCHANGED <<locals, scope_depth, loops, marks>>
      /\ code' = Condition(Operand(code))
      /\ work' = <<Entry("statement"), [r EXCEPT !.exit = Len(code') - 1]>> \o Rest
  BY DEF if_statement, Begin, Spend, OrArm, Anywhere
<1>4. Len(code) \in Nat
  BY DEF Compiling
<1> HIDE DEF s, o, n, r
<1>5. PICK d2 : /\ Len(code') = Len(code) + 3
                /\ Coded(code', d2, o \cup {n}, s) /\ Keeps(code, d, code', d2)
                /\ Jumps(code', d2, n, Append(s, 0))
  BY <1>2, <1>3, ConditionAdded DEF n
<1>6. n \in Nat /\ n # 0 /\ Len(code') - 1 = n
  BY <1>4, <1>5 DEF n
<1>7. /\ r \in Entries /\ r.at = "end_then" /\ r.before = Len(s) /\ r.ends = {}
      /\ r.first \in DOMAIN d /\ Len(d[r.first]) = r.before
  <2>1. "end_then" \in Places
    BY DEF Places
  <2> QED BY <2>1, <1>1, <1>3, CompoundFields DEF r, s
<1>8. /\ e \in Entries /\ e.at = "end_then" /\ e.before = Len(s) /\ e.ends = {} /\ e.exit = n /\ e.first = r.first
  BY <1>6, <1>7, ExitEdit
<1>9. work' = <<Entry("statement"), e>> \o Rest
  BY <1>3, <1>6
<1> HIDE DEF e
<1>10. /\ Lies(a, d2) /\ LoopsHold(loops, code', d2) /\ e.first \in DOMAIN d2 /\ Len(d2[e.first]) = e.before
  <2> DEFINE c2 == code'
             more == o \cup {n}
  <2>1. Coded(c2, d2, more, s) /\ Keeps(code, d, c2, d2)
    BY <1>5
  <2> HIDE DEF c2, more
  <2>2. /\ LoopsHold(loops, c2, d2) /\ DOMAIN d \subseteq DOMAIN d2 /\ \A k \in DOMAIN d : d2[k] = d[k]
        /\ \A b : Lies(b, d) => Lies(b, d2)
    BY <1>1, <2>1, Carried
  <2> QED BY <2>2, <1>2, <1>7, <1>8 DEF c2
<1>11. Held(e, a, a, code', d2)
  BY <1>5, <1>8, <1>10 DEF Held, s
<1>12. o \cup {n} \subseteq Own(e) \cup Open(work, loops')
  BY <1>3, <1>6, <1>8 DEF Own, o
<1>13. a.locals = locals' /\ a.loops = Starts(loops') /\ a.scope = scope_depth' /\ a.stack = s
  BY <1>1, <1>3 DEF Accounts, s
<1>14. e.at \in {"end_then", "end_while"} /\ LoopsHold(loops', code', d2)
  BY <1>3, <1>8, <1>10
<1> DEFINE more == o \cup {n}
<1>15. Coded(code', d2, more, x[1].stack) /\ more \subseteq Own(e) \cup Open(work, loops')
  BY <1>5, <1>12 DEF s
<1> HIDE DEF more
<1>16. Lies(a, d2) /\ Held(e, a, x[1], code', d2) /\ a.stack = x[1].stack
  BY <1>10, <1>11
<1> HIDE DEF a
<1> QED BY <1>1, <1>3, <1>5, <1>8, <1>9, <1>13, <1>14, <1>15, <1>16, BodyBegun

\* The entry goes on as another one.
LEMMA AtEdit ==
  ASSUME NEW r \in Entries, NEW at \in Places, NEW n \in Nat
  PROVE  LET e == [r EXCEPT !.at = at, !.exit = n]
         IN  /\ e \in Entries /\ e.exit = n /\ e.at = at /\ e.first = r.first
             /\ e.before = r.before /\ e.start = r.start /\ e.ends = r.ends
BY DEF Entries

\* The condition is popped where it does not hold, and the second statement may follow.
LEMMA ThenAccounted ==
  ASSUME FormsBalance, Compiling, Account, end_then, UNCHANGED stack
  PROVE  Account'
<1>1. PICK d, x : Accounts(d, x)
  BY DEF Account
<1> DEFINE a == x[1]
           s == a.stack
           t == Append(s, 0)
           o == Open(work, loops)
           n == Len(code) + 1
           w == Tail(work)
           y == Tail(x)
           e == [Top EXCEPT !.at = "end_if", !.exit = n]
           more == (o \cup {n}) \ {Top.exit}
<1>2. /\ work # <<>> /\ Top.at = "end_then"
      /\ UNCHANGED <<locals, scope_depth, loops, budget, marks>>
  BY DEF end_then, Resume
<1>3. /\ Coded(code, d, o, s) /\ Lies(a, d) /\ s \in Seq(Nat) /\ Len(s) < StackMax /\ Len(s) \in Nat
      /\ budget \in Nat /\ Len(s) + budget <= StatementsMax + 2
      /\ Len(s) = Len(locals) + Values(work) /\ StackMax \in Nat
  BY <1>1, PresentStack
<1>4. /\ Held(Top, a, x[2], code, d) /\ Top \in Entries /\ WorkHolds(w, y, code, d) /\ y[1] = x[2]
      /\ w \in Seq(Entries) /\ WorkFits(w, code) /\ Ordered(w) /\ work \in Seq(Entries)
      /\ w # <<>> => Head(w).at # "end_match"
      /\ OpenWork(work) = Own(Top) \cup OpenWork(w)
  BY <1>1, <1>2, Present DEF Compiling
<1>5. Values(work) = Values(w)
  BY <1>2, <1>4, ValuesTail DEF Top
<1>6. /\ x[2] = a /\ Jumps(code, d, Top.exit, t) /\ Top.ends = {}
      /\ Top.first \in DOMAIN d /\ Len(d[Top.first]) = Top.before /\ Top.before = Len(s)
  BY <1>2, <1>4 DEF Held, Compounds
<1>7. Len(code) \in Nat
  BY DEF Compiling
<1>8. /\ LET jump == emit_jump(code, "jump")
         IN  code' = emit_byte(patch_jump(jump, Top.exit), "pop")
      /\ Len(emit_jump(code, "jump")) = n
      /\ \/ work' = <<Entry("statement"), e>> \o w
         \/ work' = <<e>> \o w
  <2>1. Len(emit_jump(code, "jump")) = n
    <3>1. "jump" \in Ops \ Backward
      BY OpsKnown
    <3> QED BY <3>1, EmittingJump DEF Compiling
  <2> QED BY <2>1 DEF end_then
<1>9. IsStack(t) /\ Len(t) >= 1 /\ Bottom(t, Len(t) - 1) = s
  <2>1. t \in Seq(Nat) /\ Len(t) = Len(s) + 1 /\ Bottom(t, Len(s)) = s
    BY <1>3, PushFacts
  <2> HIDE DEF t, s
  <2>2. Len(t) - 1 = Len(s) /\ Len(t) >= 1 /\ Len(t) <= StackMax
    BY <2>1, <1>3
  <2> QED BY <2>1, <2>2 DEF IsStack
<1> HIDE DEF s, t, o, n, w, y
<1>10. PICK d2 : /\ Coded(code', d2, more, s) /\ Keeps(code, d, code', d2)
                 /\ Jumps(code', d2, n, s)
  <2> DEFINE test == Top.exit
  <2>1. Jumps(code, d, test, t)
    BY <1>6
  <2> HIDE DEF test
  <2>2. LET jump == emit_jump(code, "jump")
            else == emit_byte(patch_jump(jump, test), "pop")
        IN  \E d2 : /\ Coded(else, d2, (o \cup {Len(code) + 1}) \ {test}, Bottom(t, Len(t) - 1))
                    /\ Keeps(code, d, else, d2)
                    /\ Jumps(else, d2, Len(code) + 1, s)
    BY <2>1, <1>3, <1>9, ElseAdded
  <2> QED BY <2>2, <1>8, <1>9 DEF test, n
<1>11. /\ e \in Entries /\ e.exit = n /\ e.at = "end_if" /\ e.first = Top.first
       /\ e.before = Top.before /\ e.ends = {}
  <2> DEFINE r == Top
             g == [r EXCEPT !.at = "end_if", !.exit = n]
  <2>1. "end_if" \in Places /\ n \in Nat
    BY <1>7 DEF Places, n
  <2>2. r \in Entries /\ r.ends = {} /\ g = e
    BY <1>4, <1>6
  <2>3. r.first = Top.first /\ r.before = Top.before
    OBVIOUS
  <2> HIDE DEF r, e
  <2>4. /\ g \in Entries /\ g.exit = n /\ g.at = "end_if" /\ g.first = r.first
        /\ g.before = r.before /\ g.ends = r.ends
    BY <2>1, <2>2 DEF Entries
  <2> HIDE DEF g
  <2> QED BY <2>2, <2>3, <2>4
<1>12. n # 0
  BY <1>7 DEF n
<1> HIDE DEF e
<1>13. /\ WorkHolds(w, y, code', d2) /\ LoopsHold(loops, code', d2) /\ MarksHold(d2) /\ stack = d2[1]
       /\ Lies(a, d2) /\ e.first \in DOMAIN d2 /\ Len(d2[e.first]) = e.before
  <2> DEFINE c2 == code'
  <2>1. Coded(c2, d2, more, s) /\ Keeps(code, d, c2, d2)
    BY <1>10
  <2> HIDE DEF c2, more
  <2>2. /\ LoopsHold(loops, c2, d2) /\ DOMAIN d \subseteq DOMAIN d2 /\ \A k \in DOMAIN d : d2[k] = d[k]
        /\ MarksHold(d2) /\ stack = d2[1]
        /\ \A b : Lies(b, d) => Lies(b, d2)
        /\ \A v, z : WorkFits(v, code) /\ WorkHolds(v, z, code, d) => WorkHolds(v, z, c2, d2)
    BY <1>1, <2>1, Carried
  <2> QED BY <2>2, <1>3, <1>4, <1>6, <1>11 DEF c2
<1>14. Held(e, a, y[1], code', d2)
  BY <1>4, <1>6, <1>10, <1>11, <1>13 DEF Held, s
<1>15. more \subseteq Own(e) \cup Open(w, loops')
  <2>1. o = (({Top.exit} \cup Top.ends) \ {0}) \cup OpenWork(w) \cup OpenLoops(loops)
    BY <1>4 DEF Open, o, Own
  <2>2. Own(e) = {n}
    BY <1>11, <1>12 DEF Own
  <2> QED BY <2>1, <2>2, <1>2, <1>6 DEF Open
<1>16. a.locals = locals' /\ a.loops = Starts(loops') /\ a.scope = scope_depth' /\ a.stack = s
  BY <1>1, <1>2 DEF Accounts, s
<1>17. \A m \in marks' : /\ m.first \in DOMAIN d2 /\ Len(d2[m.first]) = m.before
                         /\ m.end \in DOMAIN d2 /\ Len(d2[m.end]) = m.after
  BY <1>2, <1>13 DEF MarksHold
<1> HIDE DEF more
<1>18. /\ Coded(code', d2, more, a.stack) /\ LoopsHold(loops', code', d2) /\ stack' = d2[1]
       /\ Len(a.stack) = Len(locals') + Values(w) /\ budget' \in Nat
       /\ Len(a.stack) + budget' <= StatementsMax + 2
  BY <1>2, <1>3, <1>5, <1>10, <1>13, <1>16
<1> HIDE DEF a
<1>19. CASE work' = <<Entry("statement"), e>> \o w
  <2>1. "statement" \in {"declarations", "statement", "arm"}
        /\ ("statement" # "statement" => e.at \in {"end_block", "end_arm", "end_default"})
        /\ e.at \notin {"arms", "end_match", "declarations", "arm"}
    BY <1>11
  <2> QED BY <2>1, <1>4, <1>11, <1>13, <1>14, <1>15, <1>16, <1>17, <1>18, <1>19, BodyAccounted
<1>20. CASE work' = <<e>> \o w
  <2> DEFINE c2 == code'
             v == <<e>> \o w
             z == <<a>> \o y
  <2>1. WorkHolds(w, y, c2, d2) /\ Held(e, a, y[1], c2, d2)
    BY <1>13, <1>14
  <2> HIDE DEF c2
  <2>2. WorkHolds(v, z, c2, d2) /\ z[1] = a
    BY <2>1, <1>4, <1>11, <1>13, WorkHoldsCons
  <2>3. Ordered(v) /\ OpenWork(v) = Own(e) \cup OpenWork(w) /\ Values(v) = Values(w)
    BY <1>4, <1>11, OrderedCons, OpenCons, ValuesCons
  <2> HIDE DEF v, z
  <2>4. work' = v
    BY <1>20 DEF v
  <2>5. Coded(code', d2, Open(work', loops'), z[1].stack)
    <3> DEFINE all == Open(work', loops')
    <3>1. more \subseteq all
      BY <1>15, <2>3, <2>4 DEF Open
    <3> HIDE DEF all
    <3>2. Coded(code', d2, all, a.stack)
      <4> DEFINE u == a.stack
      <4>1. Coded(c2, d2, more, u)
        BY <1>18 DEF c2
      <4> HIDE DEF u
      <4>2. Coded(c2, d2, all, u)
        BY <3>1, <4>1, CodedMore
      <4> QED BY <4>2 DEF c2, u
    <3> QED BY <3>2, <2>2 DEF all
  <2>6. WorkHolds(work', z, code', d2) /\ Ordered(work') /\ Values(work') = Values(w)
    BY <2>2, <2>3, <2>4 DEF c2
  <2> QED BY <2>2, <2>5, <2>6, <1>16, <1>17, <1>18, Accounted
<1> QED BY <1>8, <1>19, <1>20

\* The end of an if: the jump of its condition, or of its else, comes here.
LEMMA EndOfIfAccounted ==
  ASSUME FormsBalance, Compiling, Account, end_if, UNCHANGED stack
  PROVE  Account'
<1>1. PICK d, x : Accounts(d, x)
  BY DEF Account
<1> DEFINE a == x[1]
           s == a.stack
           o == Open(work, loops)
           j == Top.exit
           more == o \ {j}
           c2 == code'
<1>2. /\ work # <<>> /\ Top.at = "end_if" /\ work' = Tail(work) /\ c2 = patch_jump(code, j)
      /\ UNCHANGED <<locals, scope_depth, loops, budget>> /\ Mark("if", Top, code', 0)
  BY DEF end_if, Resume
<1>3. /\ Coded(code, d, o, s) /\ s \in Seq(Nat) /\ Len(s) \in Nat
      /\ Len(s) = Len(locals) + Values(work)
  BY <1>1, PresentStack
<1>4. /\ Held(Top, a, x[2], code, d) /\ work \in Seq(Entries)
      /\ OpenWork(work) = Own(Top) \cup OpenWork(Tail(work))
  BY <1>1, <1>2, Present DEF Compiling
<1>5. Values(work) = Values(Tail(work))
  BY <1>2, <1>4, ValuesTail DEF Top
<1>6. /\ x[2] = a /\ Jumps(code, d, j, s) /\ Top.ends = {}
  BY <1>2, <1>4 DEF Held
<1>7. more \subseteq Open(Tail(work), loops')
  BY <1>2, <1>4, <1>6 DEF Open, Own
<1> HIDE DEF s, o, j
<1>8. Coded(c2, d, more, s) /\ Keeps(code, d, c2, d)
  BY <1>2, <1>3, <1>6, PatchingTo
<1> HIDE DEF c2, more
<1>9. LoopsHold(loops, c2, d)
  BY <1>1, <1>8, Carried
<1>10. /\ Coded(code', d, more, x[2].stack) /\ Keeps(code, d, code', d)
       /\ LoopsHold(loops', code', d)
  BY <1>2, <1>6, <1>8, <1>9 DEF c2, s
<1>11. /\ x[2].locals = locals' /\ x[2].loops = Starts(loops') /\ x[2].scope = scope_depth'
       /\ Len(x[2].stack) = Len(locals') + Values(Tail(work)) /\ Len(x[2].stack) <= Len(x[1].stack)
  BY <1>1, <1>2, <1>3, <1>5, <1>6 DEF Accounts, s
<1>12. Top.at \in Compounds
  BY <1>2 DEF Compounds
<1> HIDE DEF a
<1> QED BY <1>1, <1>2, <1>7, <1>10, <1>11, <1>12, EndAccounted

\* A loop begins where it is, and comes back with the stack as it is.
LEMMA LoopBegun ==
  ASSUME FormsBalance, Compiling, work # <<>>, NEW d, NEW x, Accounts(d, x), Top.at \in OrArm,
         NEW e \in Entries, e.at = "end_while", e.first = Len(code) + 1, e.start = Len(code) + 1,
         e.before = Len(x[1].stack), e.ends = {}, work' = <<Entry("statement"), e>> \o Rest,
         NEW d2, NEW o, Coded(code', d2, o, x[1].stack), Keeps(code, d, code', d2),
         e.exit # 0 => Jumps(code', d2, e.exit, Append(x[1].stack, 0)),
         o \subseteq Own(e) \cup Open(work, loops),
         begin_loop(Len(code) + 1, Len(x[1].stack)), UNCHANGED <<locals, scope_depth, marks, stack>>,
         budget' = budget - 1, budget # 0
  PROVE  Account'
<1> DEFINE b == x[1]
           s == b.stack
           n == Len(code) + 1
           h == Len(s)
           l == loops
           m == <<[start |-> n, end |-> 0, depth |-> h]>> \o l
           a == Setting(b.locals, b.stack, <<n>> \o b.loops, b.scope)
           c2 == code'
<1>1. /\ b \in Settings /\ Lies(b, d) /\ h \in Nat
  BY PresentStack
<1>2. n \in Nat /\ n # 0 /\ l \in Seq(Loops)
  BY DEF Compiling, LoopsFit
<1>3. /\ b.locals = locals /\ b.loops = Starts(l) /\ b.scope = scope_depth
  BY DEF Accounts
<1>4. Coded(c2, d2, o, s) /\ Keeps(code, d, c2, d2)
  OBVIOUS
<1>5. loops' = m
  BY DEF begin_loop
<1>6. e.first = n /\ e.start = n /\ e.before = h /\ a.stack = s /\ a.locals = locals
      /\ a.scope = scope_depth /\ a.loops = <<n>> \o Starts(l)
  BY <1>3 DEF Setting
<1> HIDE DEF c2, s, h, n, l
<1>7. /\ Lies(b, d2) /\ LoopsHold(l, c2, d2) /\ n \in DOMAIN d2 /\ d2[n] = s
  <2>1. /\ LoopsHold(loops, c2, d2) /\ Len(code) + 1 \in DOMAIN d2 /\ d2[Len(code) + 1] = x[1].stack
        /\ \A z : Lies(z, d) => Lies(z, d2)
    BY <1>4, Carried
  <2> QED BY <2>1, <1>1 DEF n, s, l
<1>8. Lies(a, d2)
  BY <1>2, <1>7, LiesInLoop DEF s
<1>9. /\ OpenLoops(m) = OpenLoops(l) /\ Starts(m) = <<n>> \o Starts(l) /\ Starts(l) \in Seq(Nat)
      /\ LoopsHold(m, c2, d2)
  <2>1. Len(d2[n]) = h
    BY <1>7 DEF h
  <2> QED BY <2>1, <1>1, <1>2, <1>7, LoopsCons
<1>10. LoopEnding(e, a, b, c2, d2)
  <2>1. /\ <<n>> \o Starts(l) # <<>> /\ Head(<<n>> \o Starts(l)) = n
        /\ Tail(<<n>> \o Starts(l)) = Starts(l)
    BY SMTT(30), <1>2, <1>9, ConsFacts
  <2>2. e.exit # 0 => Jumps(c2, d2, e.exit, Append(s, 0))
    BY DEF c2, s
  <2>3. b.locals = locals /\ b.scope = scope_depth /\ b.loops = Starts(l) /\ b.stack = s
    BY <1>3 DEF s
  <2> HIDE DEF a, b
  <2> QED BY <2>1, <2>2, <2>3, <1>6, <1>7 DEF LoopEnding
<1>11. Held(e, a, b, c2, d2)
  <2>1. e.first \in DOMAIN d2 /\ Len(d2[e.first]) = e.before /\ e.before = Len(b.stack)
    BY <1>6, <1>7 DEF h, s
  <2> HIDE DEF a, b
  <2> QED BY <2>1, <1>10 DEF Held
<1>12. a.loops = Starts(m) /\ Open(work, m) = Open(work, loops)
  BY <1>6, <1>9 DEF Open, l
<1> HIDE DEF m, a
<1>13. /\ o \subseteq Own(e) \cup Open(work, loops') /\ a.loops = Starts(loops')
       /\ LoopsHold(loops', code', d2) /\ a.locals = locals' /\ a.scope = scope_depth'
       /\ Held(e, a, x[1], code', d2) /\ a.stack = x[1].stack
  BY <1>5, <1>6, <1>9, <1>11, <1>12 DEF c2, s
<1>14. e.at \in {"end_then", "end_while"}
  OBVIOUS
<1> HIDE DEF b
<1> QED BY <1>8, <1>13, <1>14, BodyBegun

\* A while tests its condition where it begins.
LEMMA WhileAccounted ==
  ASSUME FormsBalance, Compiling, Account, while_statement, UNCHANGED stack
  PROVE  Account'
<1>1. PICK d, x : Accounts(d, x)
  BY DEF Account
<1> DEFINE s == x[1].stack
           o == Open(work, loops)
           n == Len(code) + 2
           k == Len(code) + 1
           r == Compound("end_while")
           e == [r EXCEPT !.start = k, !.exit = n]
           more == o \cup {n}
<1>2. /\ Coded(code, d, o, s) /\ Len(s) < StackMax
  BY <1>1, PresentStack
<1>3. /\ work # <<>> /\ Top.at \in OrArm /\ Top.at # "end_match" /\ budget # 0 /\ budget' = budget - 1
      /\ UNCHANGED <<locals, scope_depth, marks>>
      /\ code' = Condition(Operand(code)) /\ begin_loop(Here(code), Depth)
      /\ work' = <<Entry("statement"), [r EXCEPT !.start = Here(code), !.exit = Len(code') - 1]>> \o Rest
  BY DEF while_statement, Begin, Spend, OrArm, Anywhere
<1>4. Len(code) \in Nat
  BY DEF Compiling
<1>5. Depth = Len(s)
  BY <1>1, <1>3, PresentDepth
<1> HIDE DEF s, o, n, k, r
<1>6. PICK d2 : /\ Len(code') = Len(code) + 3
                /\ Coded(code', d2, more, s) /\ Keeps(code, d, code', d2)
                /\ Jumps(code', d2, n, Append(s, 0))
  BY <1>2, <1>3, ConditionAdded DEF n
<1>7. n \in Nat /\ n # 0 /\ Len(code') - 1 = n /\ k \in Nat /\ Here(code) = k
  BY <1>4, <1>6 DEF n, k, Here
<1>8. /\ r \in Entries /\ r.at = "end_while" /\ r.before = Len(s) /\ r.ends = {} /\ r.first = k
  <2>1. "end_while" \in Places
    BY DEF Places
  <2> QED BY <2>1, <1>1, <1>3, CompoundFields DEF r, s, k
<1>9. /\ e \in Entries /\ e.at = "end_while" /\ e.before = Len(s) /\ e.ends = {} /\ e.exit = n
      /\ e.first = k /\ e.start = k
  BY <1>7, <1>8 DEF Entries
<1>10. work' = <<Entry("statement"), e>> \o Rest
  BY <1>3, <1>7
<1>11. more \subseteq Own(e) \cup Open(work, loops)
  BY <1>7, <1>9 DEF Own, o
<1> HIDE DEF e, more
<1>12. /\ e.first = Len(code) + 1 /\ e.start = Len(code) + 1 /\ e.before = Len(x[1].stack)
       /\ begin_loop(Len(code) + 1, Len(x[1].stack))
       /\ Coded(code', d2, more, x[1].stack)
       /\ e.exit # 0 => Jumps(code', d2, e.exit, Append(x[1].stack, 0))
  BY <1>3, <1>5, <1>6, <1>7, <1>9 DEF k, s
<1> QED BY <1>1, <1>3, <1>6, <1>9, <1>10, <1>11, <1>12, LoopBegun

\* A loop without a condition begins with its body.
LEMMA LoopAccounted ==
  ASSUME FormsBalance, Compiling, Account, loop_statement, UNCHANGED stack
  PROVE  Account'
<1>1. PICK d, x : Accounts(d, x)
  BY DEF Account
<1> DEFINE s == x[1].stack
           o == Open(work, loops)
           k == Len(code) + 1
           r == Compound("end_while")
           e == [r EXCEPT !.start = k]
<1>2. /\ Coded(code, d, o, s) /\ d \in Seq(Seq(Nat))
  BY <1>1, PresentStack
<1>3. /\ work # <<>> /\ Top.at \in OrArm /\ Top.at # "end_match" /\ budget # 0 /\ budget' = budget - 1
      /\ UNCHANGED <<locals, scope_depth, marks>> /\ code' = code
      /\ begin_loop(Here(code), Depth)
      /\ work' = <<Entry("statement"), [r EXCEPT !.start = Here(code)]>> \o Rest
  BY DEF loop_statement, Begin, Spend, OrArm, Anywhere
<1>4. Len(code) \in Nat /\ code \in Seq(Instructions)
  BY DEF Compiling, Sound
<1>5. Depth = Len(s)
  BY <1>1, <1>3, PresentDepth
<1> HIDE DEF s, o, k, r
<1>6. k \in Nat /\ Here(code) = k
  BY <1>4 DEF k, Here
<1>7. /\ r \in Entries /\ r.at = "end_while" /\ r.before = Len(s) /\ r.ends = {} /\ r.first = k /\ r.exit = 0
  <2>1. "end_while" \in Places
    BY DEF Places
  <2> QED BY <2>1, <1>1, <1>3, CompoundFields DEF r, s, k
<1>8. /\ e \in Entries /\ e.at = "end_while" /\ e.before = Len(s) /\ e.ends = {} /\ e.exit = 0
      /\ e.first = k /\ e.start = k
  BY <1>6, <1>7 DEF Entries
<1>9. work' = <<Entry("statement"), e>> \o Rest
  BY <1>3, <1>6
<1>10. Keeps(code, d, code, d)
  BY <1>2, <1>4, KeepsItself
<1> HIDE DEF e
<1>11. o \subseteq Own(e) \cup Open(work, loops)
  BY DEF o
<1>12. /\ e.first = Len(code) + 1 /\ e.start = Len(code) + 1 /\ e.before = Len(x[1].stack)
       /\ begin_loop(Len(code) + 1, Len(x[1].stack))
       /\ Coded(code', d, o, x[1].stack) /\ Keeps(code, d, code', d)
       /\ e.exit # 0 => Jumps(code', d, e.exit, Append(x[1].stack, 0))
  BY <1>2, <1>3, <1>5, <1>6, <1>8, <1>10 DEF k, s
<1> QED BY <1>1, <1>3, <1>8, <1>9, <1>11, <1>12, LoopBegun

\* The code after the body goes back with the stack as it was, and the exit pops the
\* condition.
LEMMA RepeatAdded ==
  ASSUME NEW c, NEW d, NEW o, NEW s, Coded(c, d, o, s), Len(s) < StackMax,
         NEW e \in Entries, e.start \in DOMAIN d, d[e.start] = s,
         e.exit # 0 => Jumps(c, d, e.exit, Append(s, 0))
  PROVE  \E d2 : Coded(Repeat(c, e), d2, o \ ({e.exit} \ {0}), s) /\ Keeps(c, d, Repeat(c, e), d2)
<1> DEFINE j == e.exit
           start == e.start
           t == Append(s, 0)
           again == emit_loop(c, "loop", start)
           patched == patch_jump(again, j)
           popped == emit_byte(patched, "pop")
<1>1. /\ c \in Seq(Instructions) /\ d \in Seq(Seq(Nat)) /\ Len(d) = Len(c) + 1 /\ IsStack(s)
      /\ s \in Seq(Nat) /\ Len(s) \in Nat
  BY CodedTypes
<1>2. /\ t \in Seq(Nat) /\ Len(t) = Len(s) + 1 /\ Bottom(t, Len(s)) = s
  BY <1>1, PushFacts
<1>3. Repeat(c, e) = IF j = 0 THEN again ELSE popped
  BY DEF Repeat
<1>4. start \in DOMAIN d /\ d[start] = s /\ (j # 0 => Jumps(c, d, j, t))
  OBVIOUS
<1> HIDE DEF j, start, t
<1>5. IsStack(t) /\ Len(t) >= 1 /\ Len(t) - 1 = Len(s)
  BY <1>1, <1>2, StackIsBounded DEF IsStack
<1>6. CASE j = 0
  <2>1. PICK d2 : Coded(again, d2, o, s) /\ Keeps(c, d, again, d2)
    BY <1>1, <1>4, LoopAdded
  <2>2. o \ ({e.exit} \ {0}) = o
    BY <1>6 DEF j
  <2> HIDE DEF again
  <2> QED BY <2>1, <2>2, <1>3, <1>6
<1>7. CASE j # 0
  <2>1. PICK d1 : Coded(again, d1, o, t) /\ Keeps(c, d, again, d1)
    BY <1>1, <1>4, <1>5, LoopAdded
  <2> HIDE DEF again
  <2>2. again \in Seq(Instructions) /\ d1 \in Seq(Seq(Nat))
    BY <2>1, CodedTypes
  <2>3. Jumps(again, d1, j, t)
    BY <2>1, <2>2, <1>1, <1>4, <1>7, CarriedOn
  <2>4. Coded(patched, d1, o \ {j}, t) /\ Keeps(again, d1, patched, d1)
    BY <2>1, <2>3, PatchingTo
  <2> HIDE DEF patched
  <2>5. PICK d2 : /\ Coded(popped, d2, o \ {j}, Bottom(t, Len(t) - 1))
                  /\ Keeps(patched, d1, popped, d2)
    BY <2>4, <1>5, PopAdded
  <2> HIDE DEF popped
  <2>6. Coded(popped, d2, o \ {j}, s)
    BY <2>5, <1>2, <1>5
  <2>7. Keeps(c, d, patched, d1)
    BY <2>1, <2>4, Further
  <2>8. Keeps(c, d, popped, d2)
    BY <2>4, <2>5, <2>7, Further
  <2>9. o \ ({e.exit} \ {0}) = o \ {j}
    BY <1>7 DEF j
  <2> QED BY <2>6, <2>8, <2>9, <1>3, <1>7
<1> QED BY <1>6, <1>7

\* The end of a loop: its exit and its break come here.
LEMMA LoopEnded ==
  ASSUME FormsBalance, Compiling, Account, work # <<>>, Top.at \in {"end_while", "end_for"},
         end_loop(Repeat(code, Top)), work' = Tail(work), NEW kind, Mark(kind, Top, code', 0),
         UNCHANGED <<locals, scope_depth, budget, stack>>
  PROVE  Account'
<1>1. PICK d, x : Accounts(d, x)
  BY DEF Account
<1> DEFINE a == x[1]
           b == x[2]
           s == a.stack
           o == Open(work, loops)
           l == loops
           e == Top
           o1 == o \ ({e.exit} \ {0})
           o2 == o1 \ ({l[1].end} \ {0})
           c1 == Repeat(code, e)
           c2 == code'
<1>2. /\ Coded(code, d, o, s) /\ s \in Seq(Nat) /\ Len(s) \in Nat /\ Len(s) < StackMax
      /\ Len(s) = Len(locals) + Values(work) /\ a \in Settings
  BY <1>1, PresentStack
<1>3. /\ Held(e, a, b, code, d) /\ work \in Seq(Entries) /\ e \in Entries
      /\ OpenWork(work) = Own(e) \cup OpenWork(Tail(work))
  BY <1>1, Present DEF Compiling
<1>4. Values(work) = Values(Tail(work))
  BY <1>3, ValuesTail DEF Top
<1>5. /\ LoopEnding(e, a, b, code, d) /\ e.ends = {}
  BY <1>3 DEF Held
<1>6. /\ a.locals = locals /\ a.loops = Starts(l) /\ a.scope = scope_depth /\ LoopsHold(l, code, d)
  BY <1>1 DEF Accounts
<1>7. /\ a.loops # <<>> /\ b.locals = a.locals /\ b.stack = s /\ b.scope = a.scope
      /\ b.loops = Tail(a.loops) /\ e.start = Head(a.loops) /\ d[e.start] = s
      /\ e.exit # 0 => Jumps(code, d, e.exit, Append(s, 0))
  BY <1>5 DEF LoopEnding
<1>8. l # <<>> /\ l \in Seq(Loops)
  <2>1. l \in Seq(Loops)
    BY DEF Compiling, LoopsFit
  <2>2. a.loops \in Seq(Nat) /\ Len(a.loops) \in Nat /\ DOMAIN a.loops = 1..Len(a.loops)
    BY <1>2 DEF Settings
  <2>3. 1 \in DOMAIN a.loops
    <3> DEFINE u == a.loops
    <3>1. u \in Seq(Nat) /\ u # <<>>
      BY <2>2, <1>7
    <3> HIDE DEF u
    <3>2. 1 \in DOMAIN u
      BY <3>1
    <3> QED BY <3>2 DEF u
  <2>4. DOMAIN a.loops = DOMAIN l
    BY <1>6 DEF Starts
  <2> QED BY <2>1, <2>3, <2>4
<1>9. /\ OpenLoops(l) = ({l[1].end} \ {0}) \cup OpenLoops(Tail(l))
      /\ Head(Starts(l)) = l[1].start /\ Tail(Starts(l)) = Starts(Tail(l))
      /\ l[1] \in Loops /\ Head(l) = l[1]
      /\ \A c, g : LoopsHold(l, c, g) => LoopsHold(Tail(l), c, g)
  BY <1>8, LoopsTail
<1>10. /\ e.start = l[1].start /\ b.loops = Starts(Tail(l))
  BY <1>6, <1>7, <1>9
<1>11. 1 \in DOMAIN l
  BY <1>8
<1>12. e.start \in DOMAIN d /\ (l[1].end # 0 => Jumps(code, d, l[1].end, s))
  BY <1>6, <1>7, <1>10, <1>11 DEF LoopsHold
<1>13. /\ c2 = IF l[1].end # 0 THEN patch_jump(c1, l[1].end) ELSE c1
       /\ loops' = Tail(l)
  BY <1>8, <1>9 DEF end_loop
<1> HIDE DEF s, o, l, e
<1>14. PICK d2 : Coded(c1, d2, o1, s) /\ Keeps(code, d, c1, d2)
  BY <1>2, <1>3, <1>7, <1>12, RepeatAdded
<1> HIDE DEF c1
<1>15. Coded(c2, d2, o2, s) /\ Keeps(code, d, c2, d2)
  <2>1. CASE l[1].end = 0
    <3>1. o2 = o1 /\ c2 = c1
      BY <2>1, <1>13
    <3> QED BY <3>1, <1>14
  <2>2. CASE l[1].end # 0
    <3> DEFINE j == l[1].end
    <3>1. j # 0 /\ Jumps(code, d, j, s) /\ c2 = patch_jump(c1, j) /\ o2 = o1 \ {j}
      BY <2>2, <1>12, <1>13
    <3> HIDE DEF j, o2, o1, c2
    <3>2. Jumps(c1, d2, j, s)
      BY <3>1, <1>1, <1>14, Carried
    <3>3. Coded(c2, d2, o2, s) /\ Keeps(c1, d2, c2, d2)
      BY <3>1, <3>2, <1>14, PatchingTo
    <3> QED BY <3>3, <1>2, <1>14, Further
  <2> QED BY <2>1, <2>2
<1>16. o2 \subseteq Open(Tail(work), Tail(l))
  <2>1. o = ({e.exit} \ {0}) \cup OpenWork(Tail(work)) \cup ({l[1].end} \ {0}) \cup OpenLoops(Tail(l))
    BY <1>3, <1>5, <1>9 DEF Open, o, Own, l
  <2> QED BY <2>1 DEF Open
<1> HIDE DEF c2, o1, o2
<1>17. LoopsHold(Tail(l), c2, d2)
  <2>1. LoopsHold(loops, c2, d2)
    BY <1>1, <1>15, Carried
  <2> QED BY <2>1, <1>9 DEF l
<1>18. /\ Coded(code', d2, o2, x[2].stack) /\ Keeps(code, d, code', d2)
       /\ LoopsHold(loops', code', d2) /\ o2 \subseteq Open(Tail(work), loops')
  BY <1>7, <1>13, <1>15, <1>16, <1>17 DEF c2
<1>19. /\ x[2].locals = locals' /\ x[2].loops = Starts(loops') /\ x[2].scope = scope_depth'
       /\ Len(x[2].stack) = Len(locals') + Values(Tail(work)) /\ Len(x[2].stack) <= Len(x[1].stack)
  BY <1>2, <1>4, <1>6, <1>7, <1>10, <1>13 DEF s
<1>20. Top.at \in Compounds
  BY DEF Compounds
<1> HIDE DEF a, b
<1> QED BY <1>1, <1>18, <1>19, <1>20, EndAccounted

\* A while and a for end alike.
LEMMA EndOfLoopAccounted ==
  ASSUME FormsBalance, Compiling, Account, end_while \/ end_for, UNCHANGED stack
  PROVE  Account'
<1>1. /\ work # <<>> /\ Top.at \in {"end_while", "end_for"}
      /\ end_loop(Repeat(code, Top)) /\ work' = Tail(work)
      /\ Mark("while", Top, code', 0) \/ Mark("for", Top, code', 0)
      /\ UNCHANGED <<locals, scope_depth, budget, stack>>
  BY DEF end_while, end_for, Resume
<1> QED BY <1>1, LoopEnded

\* The increment finds and leaves the stack the loop has, and so does the jump over
\* it.
LEMMA IncrementAdded ==
  ASSUME NEW c, NEW d, NEW o, NEW s, Coded(c, d, o, s), Len(s) < StackMax,
         NEW start \in DOMAIN d, d[start] = s
  PROVE  LET jump == emit_jump(c, "jump")
             popped == emit_byte(Operand(jump), "pop")
             c2 == patch_jump(emit_loop(popped, "loop", start), Len(jump))
         IN  /\ Len(jump) = Len(c) + 1 /\ Len(popped) = Len(c) + 3
             /\ \E d2 : /\ Coded(c2, d2, o, s) /\ Keeps(c, d, c2, d2)
                        /\ Len(c) + 2 \in DOMAIN d2 /\ d2[Len(c) + 2] = s
                        /\ Len(c) + 4 \in DOMAIN d2 /\ d2[Len(c) + 4] = s
<1> DEFINE n == Len(c) + 1
           o1 == o \cup {n}
           o2 == o1 \ {n}
           t == Append(s, 0)
           jump == emit_jump(c, "jump")
           operand == Operand(jump)
           popped == emit_byte(operand, "pop")
           next == emit_loop(popped, "loop", start)
           c2 == patch_jump(next, Len(jump))
<1>1. /\ Len(c) \in Nat /\ DOMAIN d = 1..(Len(c) + 1) /\ IsStack(s)
      /\ s \in Seq(Nat) /\ Len(s) \in Nat /\ start \in Nat
  BY CodedTypes
<1>2. /\ t \in Seq(Nat) /\ Len(t) = Len(s) + 1 /\ Bottom(t, Len(s)) = s
  BY <1>1, PushFacts
<1> HIDE DEF t
<1>3. Len(t) >= 1 /\ Len(t) - 1 = Len(s)
  BY <1>1, <1>2
<1>4. PICK d1 : Len(jump) = n /\ Coded(jump, d1, o1, s) /\ Keeps(c, d, jump, d1) /\ Jumps(jump, d1, n, s)
  BY <1>1, JumpAdded
<1> HIDE DEF jump, o1
<1>5. PICK d2 : Len(operand) = Len(jump) + 1 /\ Coded(operand, d2, o1, t) /\ Keeps(jump, d1, operand, d2)
  BY <1>4, OperandPushed DEF t
<1> HIDE DEF operand
<1>6. PICK d3 : /\ Len(popped) = Len(operand) + 1 /\ Coded(popped, d3, o1, s)
                /\ Keeps(operand, d2, popped, d3)
  <2>1. Bottom(t, Len(t) - 1) = s
    BY <1>2, <1>3
  <2> QED BY <2>1, <1>3, <1>5, PopAdded
<1> HIDE DEF popped
<1>7. /\ Keeps(c, d, operand, d2) /\ Keeps(jump, d1, operand, d2)
  BY <1>4, <1>5, Further
<1>8. /\ Keeps(c, d, popped, d3) /\ Keeps(jump, d1, popped, d3)
  BY <1>4, <1>5, <1>6, <1>7, Further
<1>9. start \in DOMAIN d3 /\ d3[start] = s
  <2>1. DOMAIN d3 = 1..(Len(popped) + 1) /\ Len(popped) \in Nat /\ d \in Seq(Seq(Nat)) /\ Len(d) = Len(c) + 1
        /\ Len(d3) = Len(popped) + 1 /\ Len(d) \in Nat
    BY <1>6, CodedTypes
  <2>2. d3[start] = d[start] /\ Len(d) <= Len(d3)
    BY <1>8 DEF Keeps
  <2> QED BY <2>1, <2>2, <1>1
<1>10. PICK d4 : Coded(next, d4, o1, s) /\ Keeps(popped, d3, next, d4)
  BY <1>1, <1>6, <1>9, LoopAdded
<1> HIDE DEF next
<1>11. Keeps(c, d, next, d4) /\ Keeps(jump, d1, next, d4)
  BY <1>4, <1>6, <1>8, <1>10, Further
<1>12. Jumps(next, d4, n, s)
  BY <1>4, <1>6, <1>8, <1>10, Further
<1>13. Coded(c2, d4, o2, s) /\ Keeps(next, d4, c2, d4)
  BY <1>4, <1>10, <1>12, PatchingTo
<1>14. o2 \subseteq o
  BY DEF o1
<1> HIDE DEF c2, o2
<1>15. Coded(c2, d4, o, s)
  BY <1>13, <1>14, CodedMore
<1>16. Keeps(c, d, c2, d4)
  BY <1>10, <1>11, <1>13, Further
<1>17. n + 1 \in DOMAIN d4 /\ d4[n + 1] = s
  <2> DEFINE j == n + 1
  <2>1. d1[Len(jump) + 1] = s /\ DOMAIN d1 = 1..(Len(jump) + 1) /\ Len(d1) = Len(jump) + 1
    BY <1>4, CodedTypes
  <2>2. j \in DOMAIN d1 /\ d1[j] = s
    BY <2>1, <1>1, <1>4
  <2> HIDE DEF j
  <2>3. d4[j] = s
    BY <2>2, <1>11 DEF Keeps
  <2>4. Len(d1) <= Len(d4) /\ Len(d4) \in Nat /\ DOMAIN d4 = 1..Len(d4) /\ DOMAIN d1 = 1..Len(d1) /\ Len(d1) \in Nat
    <3>1. d4 \in Seq(Seq(Nat)) /\ d1 \in Seq(Seq(Nat))
      BY <1>4, <1>10, CodedTypes
    <3> QED BY <3>1, <1>11 DEF Keeps
  <2>5. j \in DOMAIN d4
    BY <2>2, <2>4
  <2> QED BY <2>3, <2>5 DEF j
<1>18. n + 3 \in DOMAIN d4 /\ d4[n + 3] = s /\ Len(popped) = n + 2
  <2> DEFINE j == n + 3
  <2>1. d3[Len(popped) + 1] = s /\ DOMAIN d3 = 1..(Len(popped) + 1) /\ Len(d3) = Len(popped) + 1
    BY <1>6, CodedTypes
  <2>2. j \in DOMAIN d3 /\ d3[j] = s /\ Len(popped) = n + 2
    BY <2>1, <1>1, <1>4, <1>5, <1>6
  <2> HIDE DEF j, n
  <2>3. d4[j] = s
    BY <2>2, <1>10 DEF Keeps
  <2>4. Len(d3) <= Len(d4) /\ Len(d4) \in Nat /\ DOMAIN d4 = 1..Len(d4) /\ DOMAIN d3 = 1..Len(d3) /\ Len(d3) \in Nat
    <3>1. d4 \in Seq(Seq(Nat)) /\ d3 \in Seq(Seq(Nat))
      BY <1>6, <1>10, CodedTypes
    <3> QED BY <3>1, <1>10 DEF Keeps
  <2>5. j \in DOMAIN d4
    BY <2>2, <2>4
  <2> QED BY <2>2, <2>3, <2>5 DEF j
<1>19. n + 1 = Len(c) + 2 /\ n + 3 = Len(c) + 4 /\ n + 2 = Len(c) + 3
  BY <1>1
<1>20. /\ Len(jump) = Len(c) + 1 /\ Len(popped) = Len(c) + 3
       /\ \E g : /\ Coded(c2, g, o, s) /\ Keeps(c, d, c2, g)
                  /\ Len(c) + 2 \in DOMAIN g /\ g[Len(c) + 2] = s
                  /\ Len(c) + 4 \in DOMAIN g /\ g[Len(c) + 4] = s
  BY <1>4, <1>15, <1>16, <1>17, <1>18, <1>19
<1> QED BY <1>20 DEF c2, next, popped, operand, jump

\* The condition of a for and its exit, or none.
Tested(c, test, exit) ==
  \/ test = Condition(Operand(c)) /\ exit = Len(c) + 2
  \/ test = c /\ exit = 0

\* The stack at the instruction k is s.
Finds(d, k, s) == k \in DOMAIN d /\ d[k] = s

\* The condition and the increment of a for, after its variable.
LEMMA ForCoded ==
  ASSUME NEW c, NEW d, NEW o, NEW s, Coded(c, d, o, s), Len(s) < StackMax, NEW test, NEW exit, Tested(c, test, exit)
  PROVE  LET jump == emit_jump(test, "jump")
             popped == emit_byte(Operand(jump), "pop")
             c2 == patch_jump(emit_loop(popped, "loop", Here(c)), Len(jump))
         IN  /\ Here(jump) \in Nat /\ exit \in Nat
             /\ \E d2 : /\ Coded(c2, d2, o \cup ({exit} \ {0}), s) /\ Keeps(c, d, c2, d2)
                        /\ exit # 0 => Jumps(c2, d2, exit, Append(s, 0))
                        /\ Finds(d2, Here(jump), s) /\ Finds(d2, Here(popped), s)
<1> DEFINE jump == emit_jump(test, "jump")
           popped == emit_byte(Operand(jump), "pop")
           start == Len(c) + 1
           c2 == patch_jump(emit_loop(popped, "loop", start), Len(jump))
           o1 == o \cup ({exit} \ {0})
           t == Append(s, 0)
<1>1. /\ c \in Seq(Instructions) /\ Len(c) \in Nat /\ d \in Seq(Seq(Nat)) /\ DOMAIN d = 1..(Len(c) + 1)
      /\ d[Len(c) + 1] = s /\ Len(d) = Len(c) + 1
  BY CodedTypes
<1>2. \E d1 : /\ Coded(test, d1, o1, s) /\ Keeps(c, d, test, d1)
              /\ exit # 0 => Jumps(test, d1, exit, t)
  <2>1. CASE test = Condition(Operand(c)) /\ exit = Len(c) + 2
    <3> DEFINE n == Len(c) + 2
               b == Condition(Operand(c))
    <3>1. \E d1 : /\ Coded(b, d1, o \cup {n}, s) /\ Keeps(c, d, b, d1) /\ Jumps(b, d1, n, t)
      BY ConditionAdded
    <3>2. n # 0
      BY <1>1
    <3> HIDE DEF b, n, t
    <3>3. test = b /\ exit = n
      BY <2>1 DEF b, n
    <3>4. o1 = o \cup {n}
      BY <3>2, <3>3
    <3> QED BY <3>1, <3>3, <3>4
  <2>2. CASE test = c /\ exit = 0
    <3>1. test = c /\ exit = 0
      BY <2>2
    <3>2. o1 = o
      BY <3>1
    <3>3. Keeps(c, d, c, d)
      BY <1>1, KeepsItself
    <3> QED BY <3>1, <3>2, <3>3
  <2> QED BY <2>1, <2>2 DEF Tested
<1>3. exit \in Nat
  BY <1>1 DEF Tested
<1> HIDE DEF o1, t
<1>4. PICK d1 : /\ Coded(test, d1, o1, s) /\ Keeps(c, d, test, d1)
                /\ exit # 0 => Jumps(test, d1, exit, t)
  BY <1>2
<1>5. start \in DOMAIN d1 /\ d1[start] = s
  <2>1. /\ start \in DOMAIN d /\ d[start] = s
    BY <1>1
  <2>2. Len(d) <= Len(d1) /\ d1[start] = d[start]
    BY <2>1, <1>4 DEF Keeps
  <2>3. DOMAIN d1 = 1..Len(d1) /\ Len(d1) \in Nat
    <3>1. d1 \in Seq(Seq(Nat))
      BY <1>4, CodedTypes
    <3> QED BY <3>1
  <2> QED BY <2>1, <2>2, <2>3, <1>1
<1> HIDE DEF start
<1>6. PICK d2 : /\ Len(jump) = Len(test) + 1 /\ Len(popped) = Len(test) + 3
                /\ Coded(c2, d2, o1, s) /\ Keeps(test, d1, c2, d2)
                /\ Len(test) + 2 \in DOMAIN d2 /\ d2[Len(test) + 2] = s
                /\ Len(test) + 4 \in DOMAIN d2 /\ d2[Len(test) + 4] = s
  BY <1>4, <1>5, IncrementAdded
<1>7. Len(test) \in Nat
  BY <1>4, CodedTypes
<1> HIDE DEF jump, popped, c2
<1>8. Keeps(c, d, c2, d2) /\ (exit # 0 => Jumps(c2, d2, exit, t))
  BY <1>4, <1>6, Further
<1>9. Here(jump) = Len(test) + 2 /\ Here(popped) = Len(test) + 4
  BY <1>6, <1>7 DEF Here
<1>10. /\ Here(jump) \in Nat /\ exit \in Nat
       /\ \E g : /\ Coded(c2, g, o1, s) /\ Keeps(c, d, c2, g)
                 /\ exit # 0 => Jumps(c2, g, exit, t)
                 /\ Finds(g, Here(jump), s) /\ Finds(g, Here(popped), s)
  BY <1>3, <1>6, <1>7, <1>8, <1>9 DEF Finds
<1>11. start = Here(c)
  BY DEF start, Here
<1> QED BY <1>10, <1>11 DEF c2, popped, jump, o1, t

\* The beginnings of the loops, with one more.
LEMMA StartsCons ==
  ASSUME NEW n \in Nat, NEW q \in Seq(Nat)
  PROVE  <<n>> \o q # <<>> /\ Head(<<n>> \o q) = n /\ Tail(<<n>> \o q) = q
BY SMTT(30), ConsFacts

\* The body of a for follows, and then its end.
LEMMA ForBodyAccounted ==
  ASSUME NEW w \in Seq(Entries), NEW d2, NEW y, WorkHolds(w, y, code', d2), Ordered(w),
         w # <<>> => Head(w).at # "end_match", NEW e \in Entries, e.at = "end_for",
         NEW a, Lies(a, d2), Held(e, a, y[1], code', d2), work' = <<Entry("statement"), e>> \o w,
         NEW o, Coded(code', d2, o, a.stack), o \subseteq Own(e) \cup Open(w, loops'),
         a.locals = locals', a.loops = Starts(loops'), a.scope = scope_depth',
         LoopsHold(loops', code', d2), Len(a.stack) = Len(locals') + Values(w),
         budget' \in Nat, Len(a.stack) + budget' <= StatementsMax + 2,
         \A m \in marks' : /\ m.first \in DOMAIN d2 /\ Len(d2[m.first]) = m.before
                           /\ m.end \in DOMAIN d2 /\ Len(d2[m.end]) = m.after,
         stack' = d2[1]
  PROVE  Account'
<1>1. "statement" \in {"declarations", "statement", "arm"}
      /\ ("statement" # "statement" => e.at \in {"end_block", "end_arm", "end_default"})
      /\ e.at \notin {"arms", "end_match", "declarations", "arm"}
  OBVIOUS
<1> QED BY <1>1, BodyAccounted

\* A for in the scope of its variable, if it has one.
LEMMA ForBegun ==
  ASSUME FormsBalance, Compiling, work # <<>>, NEW d, NEW x, Accounts(d, x), Top.at \in OrArm,
         NEW s1, NEW b1, BlockEnds(b1, x[1]),
         b1.stack = s1, b1.locals = locals', b1.loops = x[1].loops, b1.scope = scope_depth',
         Len(s1) = Len(locals') + Values(work), Len(s1) < StackMax,
         budget' \in Nat, Len(s1) + budget' <= StatementsMax + 2,
         NEW init, NEW jump, NEW popped, NEW exit \in Nat, Here(jump) \in Nat,
         NEW d2, Coded(code', d2, Open(work, loops) \cup ({exit} \ {0}), s1), Keeps(code, d, code', d2),
         Lies(b1, d2), Here(init) \in DOMAIN d2, d2[Here(init)] = s1,
         exit # 0 => Jumps(code', d2, exit, Append(s1, 0)),
         Here(jump) \in DOMAIN d2, d2[Here(jump)] = s1,
         Here(popped) \in DOMAIN d2, d2[Here(popped)] = s1,
         begin_loop(Here(jump), Len(s1)),
         NEW m, m.first = Here(jump), m.before = Len(s1), Mark("increment", m, popped, 0),
         NEW e \in Entries, e.at = "end_for", e.first = Here(init), e.before = Len(s1),
         e.start = Here(jump), e.exit = exit, e.ends = {},
         work' = <<Entry("statement"), e>> \o (<<Compound("end_block")>> \o Rest), UNCHANGED stack
  PROVE  Account'
<1> DEFINE b == x[1]
           n == Here(jump)
           h == Len(s1)
           l == loops
           k == <<[start |-> n, end |-> 0, depth |-> h]>> \o l
           o == Open(work, loops) \cup ({exit} \ {0})
           a == Setting(b1.locals, b1.stack, <<n>> \o b1.loops, b1.scope)
           c2 == code'
           f == Compound("end_block")
           w == <<f>> \o Rest
<1>1. l \in Seq(Loops) /\ n \in Nat /\ code \in Seq(Instructions)
  BY DEF Compiling, LoopsFit, Sound
<1>2. PICK y : WorkHolds(Rest, y, code, d) /\ y[1] = b
  BY RestHolds
<1>3. /\ Rest \in Seq(Entries) /\ WorkFits(Rest, code) /\ Ordered(Rest)
      /\ Rest # <<>> => Head(Rest).at # "end_match"
      /\ OpenWork(Rest) = OpenWork(work) /\ Values(Rest) = Values(work)
  BY RestHolds
<1>4. Coded(c2, d2, o, s1) /\ Keeps(code, d, c2, d2)
  OBVIOUS
<1>5. /\ f \in Entries /\ f.at = "end_block" /\ f.exit = 0 /\ f.ends = {} /\ f.before = Len(b.stack)
      /\ f.first \in DOMAIN d /\ Len(d[f.first]) = f.before
  <2>1. Top.at # "end_match" /\ "end_block" \in Places
    BY DEF OrArm, Anywhere, Places
  <2> QED BY <2>1, CompoundFields
<1>6. loops' = k
  BY DEF begin_loop
<1>7. b.loops = Starts(l)
  BY DEF Accounts
<1> HIDE DEF c2, o, b, n, h, l, f
<1>8. /\ WorkHolds(Rest, y, c2, d2) /\ LoopsHold(l, c2, d2) /\ MarksHold(d2) /\ stack = d2[1]
      /\ DOMAIN d \subseteq DOMAIN d2 /\ \A i \in DOMAIN d : d2[i] = d[i]
  <2>1. /\ LoopsHold(loops, c2, d2) /\ MarksHold(d2) /\ stack = d2[1]
        /\ DOMAIN d \subseteq DOMAIN d2 /\ \A i \in DOMAIN d : d2[i] = d[i]
        /\ \A v, z : WorkFits(v, code) /\ WorkHolds(v, z, code, d) => WorkHolds(v, z, c2, d2)
    BY <1>4, Carried
  <2> QED BY <2>1, <1>2, <1>3 DEF l
<1>9. Len(s1) \in Nat
  BY <1>4, CodedTypes
<1>10. Lies(b1, d2)
  OBVIOUS
<1>11. Lies(a, d2)
  <2>1. n \in DOMAIN d2 /\ d2[n] = b1.stack
    BY DEF n
  <2> QED BY <2>1, <1>1, <1>10, LiesInLoop
<1>12. /\ OpenLoops(k) = OpenLoops(l) /\ Starts(k) = <<n>> \o Starts(l) /\ Starts(l) \in Seq(Nat)
       /\ LoopsHold(k, c2, d2)
  <2>1. n \in DOMAIN d2 /\ Len(d2[n]) = h /\ h \in Nat
    BY <1>9 DEF n, h
  <2> QED BY <2>1, <1>1, <1>8, LoopsCons
<1>13. /\ a.stack = s1 /\ a.locals = locals' /\ a.scope = scope_depth' /\ a.loops = Starts(k)
  BY <1>7, <1>12 DEF Setting, b
<1>14. Here(init) \in DOMAIN d2 /\ d2[Here(init)] = s1
  OBVIOUS
<1>15. Held(e, a, b1, c2, d2)
  <2>1. LoopEnding(e, a, b1, c2, d2)
    <3>1. /\ <<n>> \o Starts(l) # <<>> /\ Head(<<n>> \o Starts(l)) = n
          /\ Tail(<<n>> \o Starts(l)) = Starts(l)
      BY <1>1, <1>12, StartsCons
    <3>2. /\ e.exit # 0 => Jumps(c2, d2, e.exit, Append(s1, 0))
          /\ e.start = n /\ d2[n] = s1 /\ b1.loops = Starts(l) /\ b1.stack = s1
          /\ b1.locals = locals' /\ b1.scope = scope_depth'
      BY <1>7 DEF c2, n, b
    <3> HIDE DEF a, k
    <3> QED BY <3>1, <3>2, <1>12, <1>13 DEF LoopEnding
  <2>2. e.first \in DOMAIN d2 /\ Len(d2[e.first]) = e.before /\ e.before = Len(b1.stack)
    BY <1>14
  <2> HIDE DEF a
  <2> QED BY <2>1, <2>2 DEF Held
<1>16. Held(f, b1, y[1], c2, d2)
  <2>1. f.first \in DOMAIN d2 /\ Len(d2[f.first]) = f.before /\ f.before = Len(y[1].stack)
        /\ BlockEnds(b1, y[1])
    BY <1>2, <1>5, <1>8 DEF b
  <2> QED BY <2>1, <1>5 DEF Held
<1> DEFINE z == <<b1>> \o y
<1>17. /\ WorkHolds(w, z, c2, d2) /\ z[1] = b1
  BY <1>3, <1>5, <1>8, <1>10, <1>16, WorkHoldsCons
<1>18. /\ w \in Seq(Entries) /\ w # <<>> /\ Head(w) = f
  BY <1>3, <1>5, ConsFacts
<1>19. Ordered(w) /\ OpenWork(w) = OpenWork(work) /\ Values(w) = Values(work)
  <2>1. Ordered(w) /\ OpenWork(w) = Own(f) \cup OpenWork(Rest) /\ Values(w) = Values(Rest)
    BY <1>3, <1>5, OrderedCons, OpenCons, ValuesCons
  <2> QED BY <2>1, <1>3, <1>5 DEF Own
<1>20. \A i \in marks' : /\ i.first \in DOMAIN d2 /\ Len(d2[i.first]) = i.before
                         /\ i.end \in DOMAIN d2 /\ Len(d2[i.end]) = i.after
  <2>1. /\ m.first \in DOMAIN d2 /\ Len(d2[m.first]) = m.before
        /\ Len(popped) + 1 \in DOMAIN d2 /\ Len(d2[Len(popped) + 1]) = m.before + 0
    BY <1>9 DEF Here
  <2> QED BY <2>1, <1>8, MarksHoldStill
<1>21. /\ o \subseteq Own(e) \cup Open(w, loops')
  BY <1>6, <1>12, <1>19 DEF o, Own, Open, l
<1>22. work' = <<Entry("statement"), e>> \o w
  BY DEF f
<1> HIDE DEF a, z, w, k
<1>23. /\ Coded(code', d2, o, a.stack) /\ a.loops = Starts(loops') /\ LoopsHold(loops', code', d2)
       /\ Len(a.stack) = Len(locals') + Values(w) /\ Len(a.stack) + budget' <= StatementsMax + 2
       /\ stack' = d2[1] /\ WorkHolds(w, z, code', d2) /\ Held(e, a, z[1], code', d2)
  BY <1>4, <1>6, <1>8, <1>12, <1>13, <1>15, <1>17, <1>19 DEF c2
<1>24. w # <<>> => Head(w).at # "end_match"
  BY <1>5, <1>18
<1> QED BY ZenonT(30), <1>11, <1>13, <1>18, <1>19, <1>20, <1>21, <1>22, <1>23, <1>24, ForBodyAccounted

\* The scope of a for is in that of the statements around it.
LEMMA ScopeOfFor ==
  ASSUME FormsBalance, Compiling, work # <<>>, NEW d, NEW x, Accounts(d, x)
  PROVE  LET b1 == Setting(locals, x[1].stack, x[1].loops, scope_depth + 1)
         IN  /\ Lies(b1, d) /\ BlockEnds(b1, x[1])
             /\ b1.stack = x[1].stack /\ b1.locals = locals /\ b1.loops = x[1].loops
             /\ b1.scope = scope_depth + 1
<1> DEFINE s == x[1].stack
           b1 == Setting(locals, s, x[1].loops, scope_depth + 1)
<1>1. Lies(x[1], d) /\ s \in Seq(Nat) /\ Len(s) \in Nat /\ Len(locals) \in Nat
  BY PresentStack
<1>2. x[1].locals = locals /\ x[1].scope = scope_depth
  BY DEF Accounts
<1>3. /\ b1.stack = s /\ b1.locals = locals /\ b1.loops = x[1].loops /\ b1.scope = scope_depth + 1
  BY DEF Setting
<1>4. Lies(b1, d) /\ Inner(b1, x[1])
  BY <1>1, <1>2, LiesDeeper, InnerDeeper
<1> HIDE DEF b1
<1>5. BlockEnds(b1, x[1])
  <2>1. Len(s) - (Len(locals) - Len(locals)) = Len(s) /\ Bottom(s, Len(s)) = s
    BY <1>1, BottomAll
  <2> QED BY <2>1, <1>2, <1>3, <1>4 DEF BlockEnds
<1> QED BY <1>3, <1>4, <1>5 DEF b1

\* The variable of a for is a local of that scope.
LEMMA VariableOfFor ==
  ASSUME FormsBalance, Compiling, work # <<>>, NEW d, NEW x, Accounts(d, x), Top.at # "end_match",
         Matches = 0, NEW local \in Locals, local.depth = scope_depth + 1
  PROVE  LET init == Append(code, Instruction("push", 0, 0, local.id))
             b1 == Setting(Append(locals, local), Append(x[1].stack, local.id), x[1].loops, scope_depth + 1)
         IN  /\ \E d1 : /\ Coded(init, d1, Open(work, loops), Append(x[1].stack, local.id))
                        /\ Keeps(code, d, init, d1) /\ Lies(b1, d1)
             /\ BlockEnds(b1, x[1])
             /\ b1.stack = Append(x[1].stack, local.id) /\ b1.locals = Append(locals, local)
             /\ b1.loops = x[1].loops /\ b1.scope = scope_depth + 1
<1> DEFINE s == x[1].stack
           t == Append(s, local.id)
           o == Open(work, loops)
           init == Append(code, Instruction("push", 0, 0, local.id))
           b0 == Setting(locals, s, x[1].loops, scope_depth + 1)
           b1 == Setting(Append(locals, local), t, x[1].loops, scope_depth + 1)
           c1 == Setting(Append(b0.locals, local), Append(b0.stack, local.id), b0.loops, b0.scope)
<1>1. /\ Coded(code, d, o, s) /\ d \in Seq(Seq(Nat)) /\ Len(s) = Len(locals) + Values(work)
      /\ Len(s) < StackMax /\ Len(locals) \in Nat /\ scope_depth \in Nat /\ Lies(x[1], d)
  BY PresentStack
<1>2. Values(work) = 0
  BY PresentDepth
<1>3. /\ Lies(b0, d) /\ BlockEnds(b0, x[1]) /\ b0.stack = s /\ b0.locals = locals
      /\ b0.loops = x[1].loops /\ b0.scope = scope_depth + 1
  BY ScopeOfFor
<1>4. local.id \in Nat
  BY DEF Locals
<1> HIDE DEF s, o, b0
<1>5. Len(b0.stack) = Len(b0.locals) /\ local.depth = b0.scope /\ local.depth \in 0..b0.scope
  BY <1>1, <1>2, <1>3
<1>6. Lies(c1, d)
  BY <1>1, <1>3, <1>5, LiesWithLocal
<1>7. BlockEnds(c1, x[1])
  BY <1>1, <1>3, <1>5, ScopeWithLocal
<1>8. c1 = b1
  BY <1>3
<1>9. /\ b1.stack = t /\ b1.locals = Append(locals, local)
      /\ b1.loops = x[1].loops /\ b1.scope = scope_depth + 1
  BY DEF Setting
<1> HIDE DEF b1, c1
<1>10. PICK d1 : Coded(init, d1, o, t) /\ Keeps(code, d, init, d1)
  BY <1>1, <1>4, Pushed
<1> HIDE DEF init, t
<1>11. Lies(b1, d1)
  <2>1. d1 \in Seq(Seq(Nat))
    BY <1>10, CodedTypes
  <2> QED BY <2>1, <1>1, <1>6, <1>8, <1>10, LiesLater
<1>12. \E g : Coded(init, g, o, t) /\ Keeps(code, d, init, g) /\ Lies(b1, g)
  BY <1>10, <1>11
<1>13. BlockEnds(b1, x[1])
  BY <1>7, <1>8
<1> QED BY <1>9, <1>12, <1>13 DEF b1, init, t, s, o

\* The beginning of a for, with and without a variable.
LEMMA BeginningOfFor ==
  ASSUME FormsBalance, Compiling, work # <<>>, NEW d, NEW x, Accounts(d, x), Top.at # "end_match",
         budget # 0, NEW var \in Names \cup {"none"}, var # "none" => Matches = 0, NEW id \in Nat
  PROVE  LET init == IF var = "none" THEN code ELSE Defining(Operand(code), id)
             l1 == IF var = "none" THEN locals
                   ELSE Append(locals, [name |-> var, depth |-> scope_depth + 1, id |-> id])
         IN  \E d1, b1 : /\ Coded(init, d1, Open(work, loops), b1.stack)
                         /\ Keeps(code, d, init, d1) /\ Lies(b1, d1) /\ BlockEnds(b1, x[1])
                         /\ b1.locals = l1 /\ b1.loops = x[1].loops /\ b1.scope = scope_depth + 1
                         /\ Len(b1.stack) = Len(l1) + Values(work) /\ Len(b1.stack) < StackMax
                         /\ budget - 1 \in Nat /\ Len(b1.stack) + (budget - 1) <= StatementsMax + 2
<1> DEFINE s == x[1].stack
           o == Open(work, loops)
           init == IF var = "none" THEN code ELSE Defining(Operand(code), id)
           l1 == IF var = "none" THEN locals
                 ELSE Append(locals, [name |-> var, depth |-> scope_depth + 1, id |-> id])
           Good(d1, b1) == /\ Coded(init, d1, o, b1.stack)
                           /\ Keeps(code, d, init, d1) /\ Lies(b1, d1) /\ BlockEnds(b1, x[1])
                           /\ b1.locals = l1 /\ b1.loops = x[1].loops /\ b1.scope = scope_depth + 1
                           /\ Len(b1.stack) = Len(l1) + Values(work) /\ Len(b1.stack) < StackMax
                           /\ budget - 1 \in Nat /\ Len(b1.stack) + (budget - 1) <= StatementsMax + 2
<1>1. /\ Coded(code, d, o, s) /\ d \in Seq(Seq(Nat)) /\ Len(s) = Len(locals) + Values(work)
      /\ s \in Seq(Nat) /\ Len(s) \in Nat /\ Values(work) \in Nat
      /\ StatementsMax \in Nat /\ StackMax \in Nat /\ scope_depth \in Nat /\ Len(locals) \in Nat
  BY PresentStack
<1>2. /\ budget \in Nat /\ budget > 0 /\ Len(s) + budget <= StatementsMax + 2 /\ Len(s) < StackMax
      /\ Len(s) + 1 < StackMax
  BY SMTT(30), PresentStack
<1>3. code \in Seq(Instructions) /\ Sound(code) /\ locals \in Seq(Locals)
  BY DEF Compiling, Sound
<1> HIDE DEF s, o
<1>4. CASE var = "none"
  <2> DEFINE b1 == Setting(locals, s, x[1].loops, scope_depth + 1)
  <2>1. init = code /\ l1 = locals
    BY <1>4
  <2>2. /\ Lies(b1, d) /\ BlockEnds(b1, x[1]) /\ b1.stack = s /\ b1.locals = locals
        /\ b1.loops = x[1].loops /\ b1.scope = scope_depth + 1
    BY ScopeOfFor DEF s
  <2> HIDE DEF init, l1, b1
  <2>3. Keeps(code, d, code, d)
    BY <1>1, <1>3, KeepsItself
  <2> DEFINE h == Len(s)
  <2>4. h \in Nat /\ h + budget <= StatementsMax + 2
    BY <1>1, <1>2
  <2> HIDE DEF h
  <2>5. budget - 1 \in Nat /\ h + (budget - 1) <= StatementsMax + 2
    BY <2>4, <1>1, <1>2
  <2>6. Good(d, b1)
    BY <2>1, <2>2, <2>3, <2>5, <1>1, <1>2 DEF h
  <2> QED BY <2>6 DEF init, l1, o
<1>5. CASE var # "none"
  <2> DEFINE local == [name |-> var, depth |-> scope_depth + 1, id |-> id]
             t == Append(s, id)
             b1 == Setting(Append(locals, local), t, x[1].loops, scope_depth + 1)
  <2>1. init = Append(code, Instruction("push", 0, 0, id)) /\ l1 = Append(locals, local)
    <3>1. Defining(Operand(code), id) = Append(code, Instruction("push", 0, 0, id))
      BY <1>3, NamedOperand
    <3> QED BY <3>1, <1>5
  <2>2. local \in Locals /\ local.depth = scope_depth + 1 /\ local.id = id
    <3> DEFINE z == scope_depth + 1
    <3>1. z \in Int /\ var \in Names /\ id \in Nat
      BY <1>1, <1>5
    <3> HIDE DEF z
    <3>2. [name |-> var, depth |-> z, id |-> id] \in Locals
      BY <3>1 DEF Locals
    <3> QED BY <3>2 DEF z
  <2>3. t \in Seq(Nat) /\ Len(t) = Len(s) + 1
    BY <1>1, PushFacts
  <2>4. Len(Append(locals, local)) = Len(locals) + 1
    BY <2>2, <1>3
  <2> HIDE DEF init, l1, local
  <2>5. /\ \E d1 : Coded(init, d1, o, t) /\ Keeps(code, d, init, d1) /\ Lies(b1, d1)
        /\ BlockEnds(b1, x[1]) /\ b1.stack = t /\ b1.locals = l1
        /\ b1.loops = x[1].loops /\ b1.scope = scope_depth + 1
    BY <2>1, <2>2, <1>5, VariableOfFor DEF s, o
  <2> DEFINE h == Len(s)
             n == Len(locals)
             v == Values(work)
             m == StatementsMax + 2
  <2>6. h \in Nat /\ n \in Nat /\ v \in Nat /\ m \in Nat /\ budget \in Nat /\ h = n + v /\ h + budget <= m
        /\ Len(t) = h + 1 /\ Len(l1) = n + 1 /\ h + 1 < StackMax
    BY <2>1, <2>3, <2>4, <1>1, <1>2
  <2> HIDE DEF b1, t, h, n, v, m
  <2>7. h + 1 = (n + 1) + v /\ budget - 1 \in Nat /\ (h + 1) + (budget - 1) <= m
    BY <2>6, <1>2, SumAfterPush
  <2>8. PICK d1 : Coded(init, d1, o, t) /\ Keeps(code, d, init, d1) /\ Lies(b1, d1)
    BY <2>5
  <2>9. Good(d1, b1)
    BY <2>5, <2>6, <2>7, <2>8 DEF v, m
  <2> QED BY <2>9 DEF init, l1, o
<1> QED BY <1>4, <1>5

\* A for begins, with or without a variable and a condition.
LEMMA ForAccounted ==
  ASSUME FormsBalance, Compiling, Account, for_statement, UNCHANGED stack
  PROVE  Account'
<1>1. PICK d, x : Accounts(d, x)
  BY DEF Account
<1>2. /\ work # <<>> /\ Top.at \in OrArm /\ Top.at # "end_match" /\ budget # 0 /\ budget' = budget - 1
      /\ scope_depth' = scope_depth + 1
  BY DEF for_statement, Begin, begin_scope, Spend, OrArm, Anywhere
<1>3. PICK var \in Names \cup {"none"}, condition \in BOOLEAN, increment \in BOOLEAN :
       LET init  == IF var = "none" THEN code ELSE Defining(Operand(code), declared')
           test  == IF condition THEN Condition(Operand(init)) ELSE init
           jump  == emit_jump(test, "jump")
           next  == emit_loop(emit_byte(Operand(jump), "pop"), "loop", Here(init))
           entry == [Entry("end_for") EXCEPT
                       !.first = Here(init),
                       !.before = Len(locals') + Matches,
                       !.start = IF increment THEN Here(jump) ELSE Here(init),
                       !.exit  = IF condition THEN Len(init) + 2 ELSE 0]
       IN  /\ var # "none" => Matches = 0 \/ "arm_locals" \in Forms
           /\ declared' = IF var = "none" THEN declared ELSE declared + 1
           /\ locals' = IF var = "none" THEN locals
                        ELSE Append(locals, [name |-> var, depth |-> scope_depth', id |-> declared'])
           /\ \/ /\ increment
                 /\ code' = patch_jump(next, Len(jump))
                 /\ begin_loop(Here(jump), entry.before)
                 /\ Mark("increment", [entry EXCEPT !.first = Here(jump)],
                         emit_byte(Operand(jump), "pop"), 0)
              \/ /\ ~increment
                 /\ "no_increment" \in Forms
                 /\ code' = test
                 /\ UNCHANGED <<loops, marks>>
           /\ work' = <<Entry("statement"), entry>> \o (<<Compound("end_block")>> \o Rest)
  BY Zenon DEF for_statement
<1> DEFINE id == declared'
           init  == IF var = "none" THEN code ELSE Defining(Operand(code), id)
           l1 == IF var = "none" THEN locals
                 ELSE Append(locals, [name |-> var, depth |-> scope_depth + 1, id |-> id])
           test  == IF condition THEN Condition(Operand(init)) ELSE init
           jump  == emit_jump(test, "jump")
           popped == emit_byte(Operand(jump), "pop")
           c2 == patch_jump(emit_loop(popped, "loop", Here(init)), Len(jump))
           f == Here(init)
           b == Len(locals') + Matches
           start == IF increment THEN Here(jump) ELSE Here(init)
           exit == IF condition THEN Len(init) + 2 ELSE 0
           e == [Entry("end_for") EXCEPT !.first = f, !.before = b, !.start = start, !.exit = exit]
           m == [e EXCEPT !.first = Here(jump)]
           o == Open(work, loops)
<1>4. /\ var # "none" => Matches = 0
      /\ id = IF var = "none" THEN declared ELSE declared + 1
  BY <1>3 DEF FormsBalance
<1>5. locals' = l1
  BY <1>2, <1>3
<1>6. work' = <<Entry("statement"), e>> \o (<<Compound("end_block")>> \o Rest)
  BY <1>3
<1>7. increment = TRUE
  BY <1>3 DEF FormsBalance
<1>8. code' = c2 /\ begin_loop(Here(jump), e.before) /\ Mark("increment", m, popped, 0)
  BY <1>3, <1>7
<1>9. id \in Nat
  BY <1>4 DEF Compiling
<1>10. PICK d1, b1 : /\ Coded(init, d1, o, b1.stack)
                     /\ Keeps(code, d, init, d1) /\ Lies(b1, d1) /\ BlockEnds(b1, x[1])
                     /\ b1.locals = l1 /\ b1.loops = x[1].loops /\ b1.scope = scope_depth + 1
                     /\ Len(b1.stack) = Len(l1) + Values(work) /\ Len(b1.stack) < StackMax
                     /\ budget - 1 \in Nat /\ Len(b1.stack) + (budget - 1) <= StatementsMax + 2
  <2> HIDE DEF id
  <2> QED BY <1>1, <1>2, <1>4, <1>9, BeginningOfFor
<1> DEFINE s == b1.stack
           t == Append(s, 0)
           o2 == o \cup ({exit} \ {0})
<1>11. start = Here(jump)
  BY <1>7
<1> HIDE DEF id, init, l1, o, s, t
<1>12. /\ Here(jump) \in Nat /\ exit \in Nat
       /\ \E g : /\ Coded(c2, g, o2, s) /\ Keeps(init, d1, c2, g)
                 /\ exit # 0 => Jumps(c2, g, exit, t)
                 /\ Finds(g, Here(jump), s) /\ Finds(g, Here(popped), s)
  <2>1. Coded(init, d1, o, s) /\ Len(s) < StackMax
    BY <1>10 DEF s
  <2>2. Tested(init, test, exit)
    BY DEF Tested
  <2> HIDE DEF test, exit
  <2> QED BY <2>1, <2>2, ForCoded DEF t
<1> HIDE DEF test, jump, popped, c2, exit, o2
<1>13. PICK d2 : /\ Coded(c2, d2, o2, s) /\ Keeps(init, d1, c2, d2)
                 /\ exit # 0 => Jumps(c2, d2, exit, t)
                 /\ Here(jump) \in DOMAIN d2 /\ d2[Here(jump)] = s
                 /\ Here(popped) \in DOMAIN d2 /\ d2[Here(popped)] = s
  BY <1>12 DEF Finds
<1>14. Keeps(code, d, c2, d2)
  <2>1. Coded(init, d1, o, s) /\ Keeps(code, d, init, d1)
    BY <1>10 DEF s
  <2>2. Coded(code, d, o, x[1].stack)
    BY <1>1, PresentStack DEF o
  <2> QED BY <2>1, <2>2, <1>13, Further
<1>15. /\ f \in DOMAIN d2 /\ d2[f] = s /\ f \in Nat /\ Lies(b1, d2)
  <2> DEFINE i == Len(init) + 1
  <2>1. Coded(init, d1, o, s)
    BY <1>10 DEF s
  <2>2. /\ d1 \in Seq(Seq(Nat)) /\ DOMAIN d1 = 1..i /\ Len(init) \in Nat /\ d1[i] = s /\ Len(d1) = i
    BY <2>1, CodedTypes
  <2>3. d2 \in Seq(Seq(Nat))
    BY <1>13, CodedTypes
  <2>4. DOMAIN d2 = 1..Len(d2) /\ Len(d2) \in Nat
    BY <2>3
  <2>5. i \in DOMAIN d1 /\ i \in Nat
    BY <2>2
  <2> HIDE DEF i
  <2>6. Len(d1) <= Len(d2) /\ d2[i] = d1[i]
    BY <2>5, <1>13 DEF Keeps
  <2>7. i \in DOMAIN d2
    BY <2>2, <2>4, <2>5, <2>6
  <2>8. Lies(b1, d2)
    BY <2>2, <2>3, <1>10, <1>13, LiesLater
  <2> QED BY <2>2, <2>5, <2>6, <2>7, <2>8 DEF i, Here
<1>16. b = Len(s) /\ b \in Nat
  <2>1. Values(work) = Matches
    BY <1>1, <1>2, PresentDepth
  <2>2. Len(s) \in Nat
    BY <1>13, CodedTypes
  <2> QED BY <2>1, <2>2, <1>5, <1>10 DEF s
<1> HIDE DEF f, b, start
<1>17. /\ e \in Entries /\ e.at = "end_for" /\ e.first = f /\ e.before = b /\ e.start = start
       /\ e.exit = exit /\ e.ends = {}
       /\ m.first = Here(jump) /\ m.before = b
  <2>1. "end_for" \in Places
    BY DEF Places
  <2>2. Entry("end_for") \in Entries /\ Entry("end_for").at = "end_for" /\ Entry("end_for").ends = {}
    BY <2>1 DEF Entry, Entries
  <2> DEFINE r == Entry("end_for")
  <2>3. r \in Entries /\ r.at = "end_for" /\ r.ends = {}
    BY <2>2
  <2> HIDE DEF r
  <2>4. start \in Nat
    BY <1>11, <1>12
  <2> DEFINE q == [r EXCEPT !.first = f, !.before = b, !.start = start, !.exit = exit]
             p == [q EXCEPT !.first = Here(jump)]
  <2>5. /\ q \in Entries /\ q.at = "end_for" /\ q.first = f /\ q.before = b /\ q.start = start
        /\ q.exit = exit /\ q.ends = {}
    BY <2>3, <2>4, <1>12, <1>15, <1>16 DEF Entries
  <2>6. e = q /\ m = p
    BY DEF r
  <2> HIDE DEF q, e, m
  <2>7. p.first = Here(jump) /\ p.before = q.before
    BY <2>5, <1>12 DEF Entries
  <2> HIDE DEF p
  <2> QED BY <2>5, <2>6, <2>7
<1> HIDE DEF e, m
<1>18. /\ Coded(code', d2, Open(work, loops) \cup ({exit} \ {0}), s) /\ Keeps(code, d, code', d2)
       /\ exit # 0 => Jumps(code', d2, exit, Append(s, 0))
  BY <1>8, <1>13, <1>14 DEF o, o2, t
<1>19. /\ b1.stack = s /\ b1.locals = locals' /\ b1.loops = x[1].loops /\ b1.scope = scope_depth'
       /\ Len(s) = Len(locals') + Values(work) /\ Len(s) < StackMax
       /\ budget' \in Nat /\ Len(s) + budget' <= StatementsMax + 2 /\ BlockEnds(b1, x[1])
  BY <1>2, <1>5, <1>10 DEF s
<1>20. /\ Here(init) \in DOMAIN d2 /\ d2[Here(init)] = s /\ begin_loop(Here(jump), Len(s))
       /\ m.first = Here(jump) /\ m.before = Len(s) /\ Mark("increment", m, popped, 0)
       /\ e.first = Here(init) /\ e.before = Len(s) /\ e.start = Here(jump)
  BY <1>8, <1>11, <1>15, <1>16, <1>17 DEF f
<1> HIDE DEF s
<1> QED BY ZenonT(30), <1>1, <1>2, <1>6, <1>12, <1>13, <1>15, <1>17, <1>18, <1>19, <1>20, ForBegun

\* The parser comes back to the entry e next.
LEMMA EntryAccounted ==
  ASSUME NEW w \in Seq(Entries), NEW d2, NEW y, WorkHolds(w, y, code', d2), Ordered(w),
         w # <<>> => Head(w).at # "end_match",
         NEW e \in Entries, e.at \notin {"declarations", "arm"},
         NEW a, Lies(a, d2), Held(e, a, y[1], code', d2), work' = <<e>> \o w,
         NEW o, Coded(code', d2, o, a.stack), o \subseteq Own(e) \cup Open(w, loops'),
         a.locals = locals', a.loops = Starts(loops'), a.scope = scope_depth',
         LoopsHold(loops', code', d2), Len(a.stack) = Len(locals') + Values(<<e>> \o w),
         budget' \in Nat, Len(a.stack) + budget' <= StatementsMax + 2,
         \A m \in marks' : /\ m.first \in DOMAIN d2 /\ Len(d2[m.first]) = m.before
                           /\ m.end \in DOMAIN d2 /\ Len(d2[m.end]) = m.after,
         stack' = d2[1]
  PROVE  Account'
<1> DEFINE c2 == code'
           v == <<e>> \o w
           z == <<a>> \o y
<1>1. WorkHolds(w, y, c2, d2) /\ Held(e, a, y[1], c2, d2)
  OBVIOUS
<1> HIDE DEF c2
<1>2. /\ WorkHolds(v, z, c2, d2) /\ z[1] = a
  BY <1>1, WorkHoldsCons
<1>3. Ordered(v) /\ OpenWork(v) = Own(e) \cup OpenWork(w)
  BY OrderedCons, OpenCons
<1>4. work' = v /\ Len(a.stack) = Len(locals') + Values(v)
  OBVIOUS
<1> HIDE DEF v, z
<1>5. o \subseteq Open(work', loops')
  BY <1>3, <1>4 DEF Open
<1>6. Coded(code', d2, Open(work', loops'), a.stack)
  <2> DEFINE more == Open(work', loops')
             t == a.stack
  <2>1. Coded(c2, d2, o, t) /\ o \subseteq more
    BY <1>5 DEF c2
  <2> HIDE DEF more, t
  <2>2. Coded(c2, d2, more, t)
    BY <2>1, CodedMore
  <2> QED BY <2>2 DEF c2, more, t
<1>7. WorkHolds(work', z, code', d2) /\ Ordered(work') /\ Len(a.stack) = Len(locals') + Values(work')
  BY <1>2, <1>3, <1>4 DEF c2
<1> QED BY <1>2, <1>6, <1>7, Accounted

\* The value of a match, and op_match.
LEMMA MatchCoded ==
  ASSUME NEW c, NEW d, NEW o, NEW s, Coded(c, d, o, s), Len(s) < StackMax, NEW id \in Nat
  PROVE  LET c2 == emit_jump(Defining(Operand(c), id), "match")
         IN  /\ Len(c2) = Len(c) + 2 /\ c2[Len(c) + 2].op = "match" /\ c2[Len(c) + 1].def = id
             /\ \E d2 : Coded(c2, d2, o, Append(s, id)) /\ Keeps(c, d, c2, d2)
<1> DEFINE i == Instruction("push", 0, 0, id)
           j == Instruction("match", Placeholder, 0, 0)
           c1 == Append(c, i)
           c2 == Append(c1, j)
           t == Append(s, id)
<1>1. c \in Seq(Instructions) /\ Len(c) \in Nat /\ Sound(c)
  BY CodedTypes DEF Coded
<1>2. i \in Instructions /\ j \in Instructions /\ i.def = id /\ j.op = "match"
  BY DEF Instruction, Instructions, Ops, Placeholder
<1>3. Defining(Operand(c), id) = c1
  BY <1>1, NamedOperand
<1>4. emit_jump(Defining(Operand(c), id), "match") = c2
  BY <1>3 DEF emit_jump
<1>5. /\ Len(c1) = Len(c) + 1 /\ c1 \in Seq(Instructions) /\ c1[Len(c) + 1] = i
      /\ Len(c2) = Len(c) + 2 /\ c2[Len(c) + 2] = j /\ c2[Len(c) + 1] = i
  <2> HIDE DEF i, j
  <2> QED BY <1>1, <1>2
<1> HIDE DEF t
<1>6. PICK d1 : Coded(c1, d1, o, t) /\ Keeps(c, d, c1, d1)
  BY Pushed DEF t
<1> HIDE DEF c1
<1>7. PICK d2 : Coded(c2, d2, o, t) /\ Keeps(c1, d1, c2, d2)
  <2>1. Placeholder \in Nat
    BY DEF Placeholder
  <2> QED BY <1>6, <2>1, NeutralAdded
<1> HIDE DEF c2
<1>8. Keeps(c, d, c2, d2)
  BY <1>6, <1>7, Further
<1> QED BY <1>2, <1>4, <1>5, <1>7, <1>8 DEF t

\* A match begins with its value.
LEMMA MatchAccounted ==
  ASSUME FormsBalance, Compiling, Account, match_statement, UNCHANGED stack
  PROVE  Account'
<1>1. PICK d, x : Accounts(d, x)
  BY DEF Account
<1> DEFINE b == x[1]
           s == b.stack
           o == Open(work, loops)
           id == declared'
           t == Append(s, id)
           n == Len(code) + 2
           r == Compound("arms")
           e == [r EXCEPT !.start = n]
           a == Setting(b.locals, t, b.loops, b.scope + 1)
           w == Rest
<1>2. /\ Coded(code, d, o, s) /\ d \in Seq(Seq(Nat)) /\ Lies(b, d) /\ b \in Settings
      /\ budget \in Nat /\ Len(s) + budget <= StatementsMax + 2 /\ Len(s) < StackMax
      /\ Len(s) = Len(locals) + Values(work) /\ s \in Seq(Nat) /\ Len(s) \in Nat /\ StatementsMax \in Nat
      /\ Len(locals) \in Nat /\ Values(work) \in Nat
  BY <1>1, PresentStack
<1>3. /\ work # <<>> /\ Top.at \in OrArm /\ Top.at # "end_match" /\ budget > 0 /\ budget' = budget - 1
      /\ scope_depth' = scope_depth + 1 /\ id = declared + 1
      /\ code' = emit_jump(Defining(Operand(code), id), "match")
      /\ work' = <<[r EXCEPT !.start = Len(code')]>> \o w
      /\ UNCHANGED <<locals, loops, marks>>
  BY <1>2 DEF match_statement, Begin, begin_scope, Spend, OrArm, Anywhere
<1>4. id \in Nat /\ Len(code) \in Nat
  BY <1>3 DEF Compiling
<1>5. b.locals = locals /\ b.loops = Starts(loops) /\ b.scope = scope_depth
  BY <1>1 DEF Accounts
<1> HIDE DEF id, s, o, r, n, w
<1>6. PICK d2 : /\ Len(code') = n /\ code'[n].op = "match" /\ code'[Len(code) + 1].def = id
                /\ Coded(code', d2, o, t) /\ Keeps(code, d, code', d2)
  BY <1>2, <1>3, <1>4, MatchCoded DEF n
<1>7. n \in Nat /\ n - 1 = Len(code) + 1
  BY <1>4 DEF n
<1>8. /\ t \in Seq(Nat) /\ Len(t) = Len(s) + 1 /\ t[Len(s) + 1] = id /\ Bottom(t, Len(s)) = s
  BY <1>2, <1>4, PushFacts
<1>9. Lies(a, d) /\ Inner(a, b)
  <2>1. Lies(a, d)
    BY <1>2, <1>4, LiesWithValue DEF s
  <2> QED BY <2>1, <1>2, InnerDeeper
<1>10. a.locals = locals' /\ a.stack = t /\ a.loops = Starts(loops') /\ a.scope = scope_depth'
       /\ a.locals = b.locals
  BY <1>3, <1>5 DEF Setting
<1>11. /\ r \in Entries /\ r.at = "arms" /\ r.before = Len(s) /\ r.ends = {} /\ r.exit = 0
       /\ r.first \in DOMAIN d /\ Len(d[r.first]) = r.before
  <2>1. "arms" \in Places
    BY DEF Places
  <2> QED BY <2>1, <1>1, <1>3, CompoundFields DEF r, s
<1>12. /\ e \in Entries /\ e.at = "arms" /\ e.before = Len(s) /\ e.ends = {} /\ e.exit = 0
       /\ e.start = n /\ e.first = r.first
  BY <1>7, <1>11 DEF Entries
<1>13. work' = <<e>> \o w
  BY <1>3, <1>6
<1>14. PICK y : WorkHolds(w, y, code, d) /\ y[1] = b
  BY <1>1, <1>3, RestHolds DEF w
<1>15. /\ w \in Seq(Entries) /\ WorkFits(w, code) /\ Ordered(w) /\ OpenWork(w) = OpenWork(work)
       /\ Values(w) = Values(work) /\ (w # <<>> => Head(w).at # "end_match")
  BY <1>1, <1>3, RestHolds DEF w
<1> HIDE DEF e, a, t
<1>16. /\ WorkHolds(w, y, code', d2) /\ LoopsHold(loops, code', d2) /\ MarksHold(d2) /\ stack = d2[1]
       /\ Lies(a, d2) /\ e.first \in DOMAIN d2 /\ Len(d2[e.first]) = e.before
  <2> DEFINE c2 == code'
  <2>1. Coded(c2, d2, o, t) /\ Keeps(code, d, c2, d2)
    BY <1>6
  <2> HIDE DEF c2
  <2>2. /\ LoopsHold(loops, c2, d2) /\ DOMAIN d \subseteq DOMAIN d2 /\ \A k \in DOMAIN d : d2[k] = d[k]
        /\ MarksHold(d2) /\ stack = d2[1]
        /\ \A q : Lies(q, d) => Lies(q, d2)
        /\ \A v, z : WorkFits(v, code) /\ WorkHolds(v, z, code, d) => WorkHolds(v, z, c2, d2)
    BY <1>1, <2>1, Carried
  <2> QED BY <2>2, <1>9, <1>11, <1>12, <1>14, <1>15 DEF c2
<1>17. Held(e, a, b, code', d2)
  <2>1. Len(t) - 1 = Len(s) /\ t[Len(t)] = id
    BY <1>2, <1>8
  <2>2. MatchEnds(e, a, b, code', d2)
    <3>1. b.stack = Bottom(t, Len(t) - 1)
      BY <2>1, <1>8 DEF s
    <3>2. code'[e.start].op = "match" /\ code'[e.start - 1].def = t[Len(t)]
      BY <2>1, <1>6, <1>7, <1>12
    <3> QED BY <3>1, <3>2, <1>9, <1>10, <1>12 DEF MatchEnds
  <2> QED BY <2>2, <1>12, <1>16 DEF Held, s
<1>18. Len(t) = Len(locals') + Values(<<e>> \o w) /\ budget' \in Nat /\ Len(t) + budget' <= StatementsMax + 2
  <2>1. Values(<<e>> \o w) = Values(w) + 1
    BY <1>12, <1>15, ValuesCons
  <2> DEFINE h == Len(s)
             l == Len(locals)
             v == Values(work)
  <2>2. h \in Nat /\ l \in Nat /\ v \in Nat /\ h = l + v /\ h + budget <= StatementsMax + 2
        /\ Len(t) = h + 1 /\ Values(<<e>> \o w) = v + 1 /\ Len(locals') = l
    BY <2>1, <1>2, <1>3, <1>8, <1>15
  <2> HIDE DEF h, l, v
  <2>3. h + 1 = l + (v + 1) /\ budget - 1 \in Nat /\ (h + 1) + (budget - 1) <= StatementsMax + 2
    BY <2>2, <1>2, <1>3
  <2> QED BY <2>2, <2>3, <1>3
<1>19. \A m \in marks' : /\ m.first \in DOMAIN d2 /\ Len(d2[m.first]) = m.before
                         /\ m.end \in DOMAIN d2 /\ Len(d2[m.end]) = m.after
  BY <1>3, <1>16 DEF MarksHold
<1>20. o \subseteq Own(e) \cup Open(w, loops')
  BY <1>3, <1>15 DEF Open, o
<1>21. /\ Coded(code', d2, o, a.stack) /\ LoopsHold(loops', code', d2) /\ stack' = d2[1]
       /\ Held(e, a, y[1], code', d2) /\ e.at \notin {"declarations", "arm"}
       /\ Len(a.stack) = Len(locals') + Values(<<e>> \o w) /\ Len(a.stack) + budget' <= StatementsMax + 2
  BY <1>3, <1>6, <1>10, <1>12, <1>14, <1>16, <1>17, <1>18
<1> HIDE DEF b
<1> QED BY <1>10, <1>12, <1>13, <1>15, <1>16, <1>18, <1>19, <1>20, <1>21, EntryAccounted

\* The test of an arm pops the pattern and leaves the value of the match.
LEMMA PatternCoded ==
  ASSUME NEW c, NEW d, NEW o, NEW s, Coded(c, d, o, s), Len(s) >= 1, Len(s) + 1 < StackMax
  PROVE  LET id == s[Len(s)]
             one == Append(Operand(c), Instruction("jump_if_neq", Placeholder, id, 0))
             two == Append(Operand(Operand(c)), Instruction("enum_member_match", Placeholder, id, 0))
         IN  \A c2 \in {one, two} :
               /\ Len(c2) \in Nat /\ Len(c2) # 0
               /\ \E d2 : /\ Coded(c2, d2, o \cup {Len(c2)}, s) /\ Keeps(c, d, c2, d2)
                          /\ Jumps(c2, d2, Len(c2), s)
<1> DEFINE h == Len(s)
           id == s[h]
           c1 == Operand(c)
           c2 == Operand(c1)
           p == Append(c1, Instruction("jump_if_neq", Placeholder, id, 0))
           q == Append(c2, Instruction("enum_member_match", Placeholder, id, 0))
           t == Append(s, 0)
           u == Append(t, 0)
           Good(e) == /\ Len(e) \in Nat /\ Len(e) # 0
                      /\ \E g : /\ Coded(e, g, o \cup {Len(e)}, s) /\ Keeps(c, d, e, g)
                                /\ Jumps(e, g, Len(e), s)
<1>1. /\ c \in Seq(Instructions) /\ Len(c) \in Nat /\ s \in Seq(Nat) /\ h \in Nat /\ StackMax \in Nat
      /\ id \in Nat
  BY CodedTypes, StackIsBounded
<1>2. /\ t \in Seq(Nat) /\ Len(t) = h + 1 /\ Bottom(t, h) = s /\ t[h] = id
      /\ \A k \in 0..h : Bottom(t, k) = Bottom(s, k)
  <2>1. /\ t \in Seq(Nat) /\ Len(t) = h + 1 /\ Bottom(t, h) = s
        /\ \A k \in 1..h : t[k] = s[k]
        /\ \A k \in 0..h : Bottom(t, k) = Bottom(s, k)
    BY <1>1, PushFacts
  <2>2. h \in 1..h
    BY <1>1
  <2> QED BY <2>1, <2>2
<1> HIDE DEF t, id
<1>3. /\ u \in Seq(Nat) /\ Len(u) = h + 2 /\ Bottom(u, h) = s /\ u[h] = id
  <2>1. /\ u \in Seq(Nat) /\ Len(u) = Len(t) + 1
        /\ \A k \in 1..Len(t) : u[k] = t[k]
        /\ \A k \in 0..Len(t) : Bottom(u, k) = Bottom(t, k)
    BY <1>2, PushFacts
  <2>2. h \in 1..Len(t) /\ h \in 0..Len(t)
    BY <1>1, <1>2
  <2> QED BY <2>1, <2>2, <1>1, <1>2
<1> HIDE DEF u
<1>4. PICK d1 : Len(c1) = Len(c) + 1 /\ Coded(c1, d1, o, t) /\ Keeps(c, d, c1, d1)
  BY <1>1, OperandPushed DEF t
<1> HIDE DEF c1
<1>5. PICK d2 : Len(c2) = Len(c1) + 1 /\ Coded(c2, d2, o, u) /\ Keeps(c1, d1, c2, d2)
  BY <1>1, <1>2, <1>4, OperandPushed DEF u
<1> HIDE DEF c2
<1>6. Keeps(c, d, c2, d2)
  BY <1>4, <1>5, Further
<1>9. Good(p)
  <2>1. /\ Len(t) > 1 /\ Len(t) - 1 = h /\ t[Len(t) - 1] = id
    BY <1>1, <1>2
  <2>2. LET e == Append(c1, Instruction(IF 1 = 1 THEN "jump_if_neq" ELSE "enum_member_match", Placeholder, id, 0))
        IN  /\ Len(e) = Len(c1) + 1
            /\ \E g : /\ Coded(e, g, o \cup {Len(c1) + 1}, Bottom(t, Len(t) - 1))
                      /\ Keeps(c1, d1, e, g)
                      /\ Jumps(e, g, Len(c1) + 1, Bottom(t, Len(t) - 1))
    <3>1. 1 \in {1, 2}
      OBVIOUS
    <3> QED BY ZenonT(30), <2>1, <3>1, <1>1, <1>4, TestAdded
  <2>3. PICK g : /\ Len(p) = Len(c1) + 1 /\ Coded(p, g, o \cup {Len(p)}, s) /\ Keeps(c1, d1, p, g)
                 /\ Jumps(p, g, Len(p), s)
    BY <2>1, <2>2, <1>2
  <2> HIDE DEF p
  <2>4. Keeps(c, d, p, g)
    BY <2>3, <1>4, Further
  <2>5. Len(p) \in Nat /\ Len(p) # 0
    BY <2>3, <1>1, <1>4
  <2> QED BY <2>3, <2>4, <2>5
<1>10. Good(q)
  <2>1. /\ Len(u) > 2 /\ Len(u) - 2 = h /\ u[Len(u) - 2] = id
    BY <1>1, <1>3
  <2>2. LET e == Append(c2, Instruction(IF 2 = 1 THEN "jump_if_neq" ELSE "enum_member_match", Placeholder, id, 0))
        IN  /\ Len(e) = Len(c2) + 1
            /\ \E g : /\ Coded(e, g, o \cup {Len(c2) + 1}, Bottom(u, Len(u) - 2))
                      /\ Keeps(c2, d2, e, g)
                      /\ Jumps(e, g, Len(c2) + 1, Bottom(u, Len(u) - 2))
    <3>1. 2 \in {1, 2}
      OBVIOUS
    <3> QED BY ZenonT(30), <2>1, <3>1, <1>1, <1>5, TestAdded
  <2>3. PICK g : /\ Len(q) = Len(c2) + 1 /\ Coded(q, g, o \cup {Len(q)}, s) /\ Keeps(c2, d2, q, g)
                 /\ Jumps(q, g, Len(q), s)
    BY <2>1, <2>2, <1>3
  <2> HIDE DEF q
  <2>4. Keeps(c, d, q, g)
    BY <2>3, <1>5, <1>6, Further
  <2>5. Len(q) \in Nat /\ Len(q) # 0
    BY <2>3, <1>1, <1>4, <1>5
  <2> QED BY <2>3, <2>4, <2>5
<1> HIDE DEF p, q
<1> QED BY <1>9, <1>10 DEF p, q, c1, c2, id

\* The statement of an arm follows, with the value of the match on the stack.
LEMMA ArmBegun ==
  ASSUME FormsBalance, Compiling, work # <<>>, NEW d, NEW x, Accounts(d, x), Top.at = "arms",
         NEW e \in Entries, e.at \in {"end_arm", "end_default"}, e.ends = {},
         NEW d2, NEW o, Coded(code', d2, o, x[1].stack), Keeps(code, d, code', d2),
         e.at = "end_default" => e.exit = 0, e.at = "end_arm" => Jumps(code', d2, e.exit, x[1].stack),
         o \subseteq Own(e) \cup Open(work, loops), work' = <<Entry("arm"), e>> \o work,
         begin_scope, UNCHANGED <<locals, loops, marks, stack>>, budget' \in Nat, budget' <= budget
  PROVE  Account'
<1> DEFINE b == x[1]
           s == b.stack
           a == Setting(b.locals, s, b.loops, b.scope + 1)
           c2 == code'
<1>1. /\ Lies(b, d) /\ budget \in Nat /\ Len(s) + budget <= StatementsMax + 2
      /\ Len(s) = Len(locals) + Values(work) /\ Len(s) \in Nat /\ StatementsMax \in Nat
  BY PresentStack
<1>2. b.locals = locals /\ b.loops = Starts(loops) /\ b.scope = scope_depth /\ WorkHolds(work, x, code, d)
      /\ Ordered(work)
  BY DEF Accounts
<1>3. work \in Seq(Entries) /\ WorkFits(work, code)
  BY DEF Compiling, WorkFits
<1>4. Lies(a, d) /\ Inner(a, b)
  BY <1>1, LiesDeeper, InnerDeeper
<1>5. a.locals = b.locals /\ a.stack = s /\ a.loops = b.loops /\ a.scope = b.scope + 1
  BY DEF Setting
<1>6. Coded(c2, d2, o, s) /\ Keeps(code, d, c2, d2)
  OBVIOUS
<1> HIDE DEF c2, a, s
<1>7. /\ WorkHolds(work, x, c2, d2) /\ LoopsHold(loops, c2, d2) /\ MarksHold(d2) /\ stack = d2[1]
      /\ Lies(a, d2)
  <2>1. /\ LoopsHold(loops, c2, d2) /\ MarksHold(d2) /\ stack = d2[1]
        /\ \A q : Lies(q, d) => Lies(q, d2)
        /\ \A v, z : WorkFits(v, code) /\ WorkHolds(v, z, code, d) => WorkHolds(v, z, c2, d2)
    BY <1>6, Carried
  <2> QED BY <2>1, <1>2, <1>3, <1>4
<1>8. Held(e, a, b, code', d2)
  <2>1. ArmEnds(a, b)
    BY <1>4, <1>5 DEF ArmEnds, s
  <2> QED BY <2>1, <1>5 DEF Held, Compounds, s
<1>9. Len(s) + budget' <= StatementsMax + 2
  <2> DEFINE h == Len(s)
             n == StatementsMax + 2
             k == budget'
  <2>1. h \in Nat /\ n \in Nat /\ budget \in Nat /\ k \in Nat /\ h + budget <= n /\ k <= budget
    BY <1>1
  <2> HIDE DEF h, n, k
  <2>2. h + k <= n
    BY <2>1
  <2> QED BY <2>2 DEF h, n, k
<1>10. \A m \in marks' : /\ m.first \in DOMAIN d2 /\ Len(d2[m.first]) = m.before
                         /\ m.end \in DOMAIN d2 /\ Len(d2[m.end]) = m.after
  BY <1>7 DEF MarksHold
<1>11. /\ "arm" \in {"declarations", "statement", "arm"} /\ Head(work).at # "end_match"
       /\ ("arm" # "statement" => e.at \in {"end_block", "end_arm", "end_default"})
       /\ e.at \notin {"arms", "end_match", "declarations", "arm"}
  BY DEF Top
<1>12. /\ Coded(code', d2, o, a.stack) /\ WorkHolds(work, x, code', d2) /\ LoopsHold(loops', code', d2)
       /\ a.locals = locals' /\ a.loops = Starts(loops') /\ a.scope = scope_depth'
       /\ Len(a.stack) = Len(locals') + Values(work) /\ Len(a.stack) + budget' <= StatementsMax + 2
       /\ stack' = d2[1] /\ o \subseteq Own(e) \cup Open(work, loops')
  BY <1>1, <1>2, <1>5, <1>6, <1>7, <1>9 DEF c2, s, begin_scope
<1> HIDE DEF b
<1>13. Held(e, a, x[1], code', d2)
  BY <1>8 DEF b
<1> QED BY <1>2, <1>3, <1>7, <1>10, <1>11, <1>12, <1>13, BodyAccounted

\* An arm tests for a member.
LEMMA MemberAccounted ==
  ASSUME FormsBalance, Compiling, Account, match_member, UNCHANGED stack
  PROVE  Account'
<1>1. PICK d, x : Accounts(d, x)
  BY DEF Account
<1> DEFINE s == x[1].stack
           o == Open(work, loops)
           id == Matched(Top)
           one == emit_jump(Operand(code), "jump_if_neq")
           two == emit_jump(Operand(Operand(code)), "enum_member_match")
           n == Len(code')
           e == [Entry("end_arm") EXCEPT !.exit = n]
           c2 == code'
           more == o \cup {n}
<1>2. /\ work # <<>> /\ Top.at = "arms" /\ budget > 0 /\ budget' = budget - 1 /\ begin_scope
      /\ UNCHANGED <<locals, loops, marks>>
      /\ c2 \in {[one EXCEPT ![Len(one)].var = id], [two EXCEPT ![Len(two)].var = id]}
      /\ work' = <<Entry("arm"), e>> \o work
  <2>1. PICK enum \in BOOLEAN : code' = Pattern(enum) /\ work' = <<Entry("arm"), e>> \o work
    BY DEF match_member
  <2>2. c2 \in {[one EXCEPT ![Len(one)].var = id], [two EXCEPT ![Len(two)].var = id]}
    <3>1. CASE enum = TRUE
      BY <2>1, <3>1 DEF Pattern
    <3>2. CASE enum = FALSE
      BY <2>1, <3>2 DEF Pattern
    <3> QED BY <3>1, <3>2
  <2> QED BY <2>1, <2>2 DEF match_member, Resume, Spend
<1>3. /\ Coded(code, d, o, s) /\ Len(s) >= 1 /\ Len(s) \in Nat /\ s \in Seq(Nat) /\ StackMax \in Nat
      /\ Len(s) + 1 < StackMax /\ budget \in Nat
  BY <1>1, <1>2, PresentStack
<1>4. id = s[Len(s)] /\ id \in Nat
  <2>1. Held(Top, x[1], x[2], code, d)
    BY <1>1, <1>2, Present
  <2>2. id = s[Len(s)]
    BY <2>1, <1>2 DEF Held, MatchEnds, Matched
  <2> HIDE DEF s, id
  <2> QED BY <2>2, <1>3
<1> HIDE DEF id, s, o, c2
<1>5. /\ Len(c2) \in Nat /\ Len(c2) # 0
      /\ \E d2 : /\ Coded(c2, d2, o \cup {Len(c2)}, s) /\ Keeps(code, d, c2, d2)
                 /\ Jumps(c2, d2, Len(c2), s)
  <2> DEFINE c1 == Operand(code)
             v == Operand(c1)
             p == Append(c1, Instruction("jump_if_neq", Placeholder, s[Len(s)], 0))
             q == Append(v, Instruction("enum_member_match", Placeholder, s[Len(s)], 0))
  <2>1. \A c \in {p, q} :
               /\ Len(c) \in Nat /\ Len(c) # 0
               /\ \E d2 : /\ Coded(c, d2, o \cup {Len(c)}, s) /\ Keeps(code, d, c, d2)
                          /\ Jumps(c, d2, Len(c), s)
    BY <1>3, <1>4, PatternCoded
  <2>2. Sound(c1) /\ Sound(v) /\ "jump_if_neq" \in Ops /\ "enum_member_match" \in Ops
    <3>1. Sound(c1)
      BY EmittingOperand DEF Compiling, Emits
    <3> QED BY <3>1, EmittingOperand DEF Emits, Ops
  <2>3. [one EXCEPT ![Len(one)].var = id] = p /\ [two EXCEPT ![Len(two)].var = id] = q
    <3> HIDE DEF c1, v
    <3>1. \A c : \A op \in Ops : Sound(c) =>
            [emit_jump(c, op) EXCEPT ![Len(emit_jump(c, op))].var = id] = Append(c, Instruction(op, Placeholder, id, 0))
      BY <1>4, NamedTest
    <3>2. [emit_jump(c1, "jump_if_neq") EXCEPT ![Len(emit_jump(c1, "jump_if_neq"))].var = id] = p
      BY <2>2, <3>1, <1>4
    <3>3. [emit_jump(v, "enum_member_match") EXCEPT ![Len(emit_jump(v, "enum_member_match"))].var = id] = q
      BY <2>2, <3>1, <1>4
    <3> QED BY <3>2, <3>3 DEF c1, v
  <2> HIDE DEF p, q, one, two
  <2> QED BY <2>1, <2>3, <1>2
<1>6. PICK d2 : Coded(c2, d2, more, s) /\ Keeps(code, d, c2, d2) /\ Jumps(c2, d2, n, s)
  BY <1>5 DEF c2
<1>7. n \in Nat /\ n # 0
  BY <1>5 DEF c2
<1> HIDE DEF n
<1>8. e \in Entries /\ e.at = "end_arm" /\ e.exit = n /\ e.ends = {}
  <2>1. "end_arm" \in Places
    BY DEF Places
  <2> DEFINE r == Entry("end_arm")
  <2>2. r \in Entries /\ r.at = "end_arm" /\ r.ends = {}
    BY <2>1 DEF Entry, Entries
  <2> DEFINE q == [r EXCEPT !.exit = n]
  <2>3. e = q
    OBVIOUS
  <2> HIDE DEF r, e
  <2>4. q \in Entries /\ q.at = "end_arm" /\ q.exit = n /\ q.ends = {}
    BY <2>2, <1>7 DEF Entries
  <2> QED BY <2>3, <2>4
<1> HIDE DEF e
<1>9. more \subseteq Own(e) \cup Open(work, loops)
  BY <1>7, <1>8 DEF Own, o
<1> HIDE DEF more
<1>10. /\ Coded(code', d2, more, x[1].stack) /\ Keeps(code, d, code', d2)
       /\ e.at \in {"end_arm", "end_default"} /\ (e.at = "end_default" => e.exit = 0)
       /\ (e.at = "end_arm" => Jumps(code', d2, e.exit, x[1].stack))
       /\ budget' \in Nat /\ budget' <= budget
  BY <1>2, <1>3, <1>6, <1>8 DEF c2, s
<1> QED BY <1>1, <1>2, <1>8, <1>9, <1>10, ArmBegun

\* The arm of a default has no test.
LEMMA DefaultAccounted ==
  ASSUME FormsBalance, Compiling, Account, match_default, UNCHANGED stack
  PROVE  Account'
<1>1. PICK d, x : Accounts(d, x)
  BY DEF Account
<1> DEFINE s == x[1].stack
           o == Open(work, loops)
           e == Entry("end_default")
<1>2. /\ work # <<>> /\ Top.at = "arms" /\ begin_scope /\ work' = <<Entry("arm"), e>> \o work
      /\ UNCHANGED <<code, locals, loops, budget, marks>>
  BY DEF match_default, Resume
<1>3. Coded(code, d, o, s) /\ budget \in Nat /\ d \in Seq(Seq(Nat))
  BY <1>1, PresentStack
<1>4. Keeps(code, d, code, d)
  BY <1>3, KeepsItself DEF Compiling, Sound
<1>5. e \in Entries /\ e.at = "end_default" /\ e.exit = 0 /\ e.ends = {}
  <2>1. "end_default" \in Places
    BY DEF Places
  <2> QED BY <2>1 DEF Entry, Entries
<1> HIDE DEF e
<1>6. o \subseteq Own(e) \cup Open(work, loops)
  BY DEF o
<1> HIDE DEF o
<1>7. /\ Coded(code', d, o, x[1].stack) /\ Keeps(code, d, code', d)
      /\ e.at \in {"end_arm", "end_default"} /\ (e.at = "end_default" => e.exit = 0)
      /\ (e.at = "end_arm" => Jumps(code', d, e.exit, x[1].stack))
      /\ budget' \in Nat /\ budget' <= budget
  BY <1>2, <1>3, <1>4, <1>5
<1> QED BY <1>1, <1>2, <1>5, <1>6, <1>7, ArmBegun

\* The jump of an arm to the end of its match, and the place where the next arm begins.
LEMMA ArmCoded ==
  ASSUME NEW c, NEW d, NEW o, NEW s, Coded(c, d, o, s), NEW exit,
         NEW tested \in BOOLEAN, tested => Jumps(c, d, exit, s)
  PROVE  LET jump == emit_jump(c, "jump")
             n == Len(jump)
             c2 == EmitPops(IF tested THEN patch_jump(jump, exit) ELSE jump, 0)
             o2 == IF tested THEN (o \cup {n}) \ {exit} ELSE o \cup {n}
         IN  /\ n \in Nat /\ n # 0
             /\ \E d2 : Coded(c2, d2, o2, s) /\ Keeps(c, d, c2, d2) /\ Jumps(c2, d2, n, s)
<1> DEFINE j == emit_jump(c, "jump")
           n == Len(j)
           p == IF tested THEN patch_jump(j, exit) ELSE j
           o2 == IF tested THEN (o \cup {n}) \ {exit} ELSE o \cup {n}
           c2 == EmitPops(p, 0)
<1>1. Len(c) \in Nat /\ s \in Seq(Nat) /\ IsStack(s) /\ Len(s) \in Nat
  BY CodedTypes
<1>2. n = Len(c) + 1 /\ \E d1 : /\ Coded(j, d1, o \cup {n}, s) /\ Keeps(c, d, j, d1)
                                /\ Jumps(j, d1, n, s)
  <2>1. "jump" \in {"jump", "break", "jump_if_false"} /\ ("jump" = "jump_if_false" => s = s)
    OBVIOUS
  <2> DEFINE m == Len(c) + 1
  <2> HIDE DEF j, m
  <2>2. /\ Len(emit_jump(c, "jump")) = Len(c) + 1
        /\ \E d1 : /\ Coded(emit_jump(c, "jump"), d1, o \cup {Len(c) + 1}, s)
                   /\ Keeps(c, d, emit_jump(c, "jump"), d1)
                   /\ Jumps(emit_jump(c, "jump"), d1, Len(c) + 1, s)
    BY <2>1, <1>1, JumpAdded
  <2>3. /\ Len(j) = m
        /\ \E d1 : Coded(j, d1, o \cup {m}, s) /\ Keeps(c, d, j, d1) /\ Jumps(j, d1, m, s)
    BY <2>2 DEF j, m
  <2>4. n = m
    BY <2>3
  <2> HIDE DEF n
  <2> QED BY <2>3, <2>4 DEF m
<1> HIDE DEF j, n
<1>3. PICK d1 : Coded(j, d1, o \cup {n}, s) /\ Keeps(c, d, j, d1) /\ Jumps(j, d1, n, s)
  BY <1>2
<1>4. Coded(p, d1, o2, s) /\ Keeps(c, d, p, d1) /\ Jumps(p, d1, n, s)
  <2>1. CASE tested = TRUE
    <3> DEFINE q == patch_jump(j, exit)
    <3>1. Jumps(j, d1, exit, s)
      <4>1. Keeps(c, d, j, d1) /\ Coded(j, d1, o \cup {n}, s) /\ Jumps(c, d, exit, s)
        BY <1>3, <2>1
      <4>2. Keeps(c, d, c, d)
        BY CodedTypes, KeepsItself
      <4> QED BY <4>1, <4>2, Further
    <3>2. Coded(q, d1, (o \cup {n}) \ {exit}, s) /\ Keeps(j, d1, q, d1)
      BY <1>3, <3>1, PatchingTo
    <3>3. p = q /\ o2 = (o \cup {n}) \ {exit}
      BY <2>1
    <3> HIDE DEF q, p, o2
    <3>4. Keeps(c, d, q, d1) /\ Jumps(q, d1, n, s)
      BY <1>3, <3>2, Further
    <3> QED BY <3>2, <3>3, <3>4
  <2>2. CASE tested = FALSE
    BY <2>2, <1>3
  <2> QED BY <2>1, <2>2
<1> HIDE DEF p, o2
<1>5. PICK d2 : Coded(c2, d2, o2, Bottom(s, Len(s) - 0)) /\ Keeps(p, d1, c2, d2)
  <2>1. 0 \in 0..Len(s)
    BY <1>1
  <2> QED BY <2>1, <1>4, PopsAdded
<1>6. Bottom(s, Len(s) - 0) = s
  BY <1>1, BottomAll
<1> HIDE DEF c2
<1>7. Coded(c2, d2, o2, s) /\ Keeps(c, d, c2, d2) /\ Jumps(c2, d2, n, s)
  <2>1. Coded(c2, d2, o2, s)
    BY <1>5, <1>6
  <2> QED BY <2>1, <1>4, <1>5, Further
<1>8. n \in Nat /\ n # 0
  BY <1>1, <1>2
<1> QED BY <1>7, <1>8 DEF c2, p, o2, n, j

\* The entry of a match, with one more jump to its end.
Grows(e, r, n, at) == e = [r EXCEPT !.at = at, !.ends = r.ends \cup {n}]

\* It needs what it did before.
LEMMA MatchGoesOn ==
  ASSUME NEW r \in Entries, r.at = "arms", NEW a, NEW b, NEW c, NEW d, Held(r, a, b, c, d),
         NEW n \in Nat, Jumps(c, d, n, a.stack), NEW at \in {"arms", "end_match"},
         NEW e, Grows(e, r, n, at)
  PROVE  /\ e \in Entries /\ e.at = at /\ Held(e, a, b, c, d)
         /\ Own(e) = Own(r) \cup ({n} \ {0})
<1>1. /\ e \in Entries /\ e.at = at /\ e.ends = r.ends \cup {n} /\ e.exit = r.exit
      /\ e.start = r.start /\ e.first = r.first /\ e.before = r.before
  BY DEF Grows, Entries, Places
<1>2. MatchEnds(e, a, b, c, d)
  BY <1>1 DEF Held, MatchEnds
<1>3. e.first \in DOMAIN d /\ Len(d[e.first]) = e.before /\ e.before = Len(b.stack)
  BY <1>1 DEF Held, Compounds
<1>4. Held(e, a, b, c, d)
  BY <1>1, <1>2, <1>3 DEF Held
<1>5. Own(e) = Own(r) \cup ({n} \ {0})
  BY <1>1 DEF Own
<1> QED BY <1>1, <1>4, <1>5

\* An arm ends, and its match goes on.
LEMMA EndOfArmAccounted ==
  ASSUME FormsBalance, Compiling, Account, end_arm, UNCHANGED stack
  PROVE  Account'
<1>1. PICK d, x : Accounts(d, x)
  BY DEF Account
<1> DEFINE a == x[1]
           b == x[2]
           g == x[3]
           s == a.stack
           o == Open(work, loops)
           tested == Top.at = "end_arm"
           jump == emit_jump(code, "jump")
           n == Len(jump)
           c2 == code'
           o2 == IF tested THEN (o \cup {n}) \ {Top.exit} ELSE o \cup {n}
           v == Tail(work)
           r == Head(v)
           w == Tail(v)
           z == Tail(x)
           y == Tail(z)
           at == IF tested THEN "arms" ELSE "end_match"
           e == [r EXCEPT !.at = at, !.ends = r.ends \cup {n}]
<1>2. /\ work # <<>> /\ Top.at \in {"end_arm", "end_default"}
      /\ end_scope(IF tested THEN patch_jump(jump, Top.exit) ELSE jump)
      /\ work' = <<[work[2] EXCEPT !.at = IF tested THEN @ ELSE "end_match",
                                   !.ends = @ \cup {n}]>>
                 \o SubSeq(work, 3, Len(work))
      /\ UNCHANGED <<loops, budget, marks>>
  BY DEF end_arm, Resume
<1>3. /\ Coded(code, d, o, s) /\ Lies(a, d) /\ s \in Seq(Nat) /\ budget \in Nat
      /\ Len(s) = Len(locals) + Values(work) /\ scope_depth \in Nat
      /\ Len(s) + budget <= StatementsMax + 2
  BY <1>1, PresentStack
<1>4. /\ Held(Top, a, b, code, d) /\ b \in Settings /\ Lies(b, d) /\ work \in Seq(Entries)
      /\ WorkHolds(v, z, code, d) /\ z[1] = b /\ v \in Seq(Entries) /\ WorkFits(v, code) /\ Ordered(v)
      /\ OpenWork(work) = Own(Top) \cup OpenWork(v)
  BY <1>1, <1>2, Present DEF Compiling
<1>5. a.locals = locals /\ a.loops = Starts(loops) /\ a.scope = scope_depth /\ LoopsHold(loops, code, d)
  BY <1>1 DEF Accounts
<1>6. /\ ArmEnds(a, b) /\ Top.ends = {} /\ (tested => Jumps(code, d, Top.exit, s))
      /\ (~ tested => Top.exit = 0)
  <2> HIDE DEF a, b
  <2> QED BY <1>2, <1>4 DEF Held
<1>7. v # <<>> /\ r.at = "arms" /\ work[2] = r /\ SubSeq(work, 3, Len(work)) = w
  <2>1. EndsArm(Top) /\ WorkFits(work, code)
    BY <1>2 DEF EndsArm, Compiling
  <2>2. v # <<>> /\ r.at = "arms"
    BY <2>1, <1>2, <1>4, WorkTail DEF Top
  <2>3. Len(work) >= 2
    BY <2>2, <1>2, <1>4
  <2> QED BY <2>2, <2>3, <1>4, TwoEntries
<1>8. /\ code' = EmitPops(IF tested THEN patch_jump(jump, Top.exit) ELSE jump, 0)
      /\ locals' = b.locals /\ scope_depth' = b.scope /\ b.stack = s /\ b.loops = Starts(loops)
      /\ b.locals = locals
  <2>1. Inner(a, b) /\ b.locals = a.locals /\ b.stack = s
    BY <1>6 DEF ArmEnds
  <2>2. /\ code' = EmitPops(IF tested THEN patch_jump(jump, Top.exit) ELSE jump, Len(locals) - Len(b.locals))
        /\ locals' = b.locals /\ scope_depth' = b.scope
    <3> DEFINE c == IF tested THEN patch_jump(jump, Top.exit) ELSE jump
    <3>1. end_scope(c)
      BY <1>2
    <3> HIDE DEF c
    <3>2. code' = EmitPops(c, Len(locals) - Len(b.locals)) /\ locals' = b.locals /\ scope_depth' = b.scope
      BY <2>1, <3>1, <1>3, <1>4, <1>5, ScopeEnds DEF Compiling
    <3> QED BY <3>2 DEF c
  <2>3. Len(locals) - Len(b.locals) = 0
    BY <2>1, <1>5 DEF Compiling
  <2> QED BY <2>1, <2>2, <2>3, <1>5 DEF Inner
<1>9. n \in Nat /\ n # 0 /\ \E d2 : Coded(c2, d2, o2, s) /\ Keeps(code, d, c2, d2) /\ Jumps(c2, d2, n, s)
  <2> DEFINE t == tested
             exit == Top.exit
  <2>1. t \in BOOLEAN /\ (t => Jumps(code, d, exit, s)) /\ Coded(code, d, o, s)
    BY <1>3, <1>6
  <2> HIDE DEF t, exit, s, o
  <2>2. LET j == emit_jump(code, "jump")
            m == Len(j)
            q == EmitPops(IF t THEN patch_jump(j, exit) ELSE j, 0)
            p == IF t THEN (o \cup {m}) \ {exit} ELSE o \cup {m}
        IN  /\ m \in Nat /\ m # 0
            /\ \E d2 : Coded(q, d2, p, s) /\ Keeps(code, d, q, d2) /\ Jumps(q, d2, m, s)
    BY <2>1, ArmCoded
  <2> QED BY <2>2, <1>8 DEF t, exit
<1>10. PICK d2 : Coded(c2, d2, o2, s) /\ Keeps(code, d, c2, d2) /\ Jumps(c2, d2, n, s)
  BY <1>9
<1>11. /\ Held(r, b, z[2], code, d) /\ WorkHolds(w, y, code, d) /\ y[1] = z[2]
       /\ r \in Entries /\ Fits(r, code) /\ WorkFits(w, code) /\ w \in Seq(Entries) /\ Ordered(w)
       /\ (w # <<>> => Head(w).at # "end_match") /\ OpenWork(v) = Own(r) \cup OpenWork(w)
  <2> HIDE DEF v, z, a, b
  <2>1. /\ WorkHolds(w, y, code, d) /\ y[1] = z[2] /\ Held(r, b, z[2], code, d)
    <3>1. v \in Seq(Entries) /\ v # <<>> /\ WorkHolds(v, z, code, d) /\ z[1] = b
      BY <1>4, <1>7
    <3>2. /\ WorkHolds(Tail(v), Tail(z), code, d) /\ Tail(z)[1] = z[2]
          /\ Held(Head(v), z[1], z[2], code, d)
      BY <3>1, WorkHoldsTail
    <3> QED BY <3>1, <3>2
  <2>2. Ordered(w) /\ (w # <<>> => Head(w).at # "end_match")
    BY <1>4, <1>7, OrderedTail
  <2>3. WorkFits(w, code) /\ Fits(r, code)
    BY <1>4, <1>7, WorkTail
  <2>4. OpenWork(v) = Own(r) \cup OpenWork(w)
    BY <1>4, <1>7, OpenTail
  <2> QED BY <2>1, <2>2, <2>3, <2>4 DEF Fits, WorkFits
<1>12. Values(work) = Values(w) + 1 /\ Values(w) \in Nat
  <2>1. Values(work) = Values(v)
    BY <1>2, <1>4, ValuesTail DEF Top
  <2> HIDE DEF v
  <2>2. Values(v) = Values(w) + 1 /\ Values(w) \in Nat
    BY <1>4, <1>7, ValuesTail
  <2> QED BY <2>1, <2>2
<1>13. work' = <<e>> \o w
  <2>1. at = IF tested THEN r.at ELSE "end_match"
    BY <1>7
  <2> HIDE DEF at, v, n
  <2> QED BY <2>1, <1>2, <1>7
<1> HIDE DEF a, b, c2, s, o, n, z, y, w, r, v, jump
<1>14. /\ WorkHolds(w, y, c2, d2) /\ LoopsHold(loops, c2, d2) /\ MarksHold(d2) /\ stack = d2[1]
       /\ Lies(b, d2) /\ Held(r, b, y[1], c2, d2)
  <2> HIDE DEF o2
  <2>1. /\ LoopsHold(loops, c2, d2) /\ MarksHold(d2) /\ stack = d2[1]
        /\ \A q : Lies(q, d) => Lies(q, d2)
        /\ \A u, t : WorkFits(u, code) /\ WorkHolds(u, t, code, d) => WorkHolds(u, t, c2, d2)
        /\ \A q, f, t : Fits(q, code) /\ Lies(f, d) /\ Held(q, f, t, code, d) => Held(q, f, t, c2, d2)
    BY <1>1, <1>10, Carried
  <2> QED BY <2>1, <1>4, <1>11
<1>15. /\ e \in Entries /\ e.at \in {"arms", "end_match"} /\ Held(e, b, y[1], c2, d2)
       /\ Own(e) = Own(r) \cup ({n} \ {0})
  <2>1. at \in {"arms", "end_match"}
    OBVIOUS
  <2>2. Jumps(c2, d2, n, b.stack) /\ n \in Nat
    BY <1>8, <1>9, <1>10
  <2>3. r \in Entries /\ r.at = "arms" /\ Held(r, b, y[1], c2, d2)
    BY <1>7, <1>11, <1>14
  <2>4. Grows(e, r, n, at)
    BY DEF Grows
  <2> HIDE DEF at, e
  <2> QED BY <2>1, <2>2, <2>3, <2>4, MatchGoesOn
<1> HIDE DEF at, e
<1>16. o2 \subseteq Own(e) \cup Open(w, loops')
  <2>1. o = Own(Top) \cup Own(r) \cup Open(w, loops)
    BY <1>4, <1>11 DEF o, Open
  <2>2. CASE tested = TRUE
    <3>1. Own(Top) = {Top.exit} \ {0} /\ o2 = (o \cup {n}) \ {Top.exit}
      BY <2>2, <1>6 DEF Own
    <3> QED BY <2>1, <3>1, <1>2, <1>9, <1>15
  <2>3. CASE tested = FALSE
    <3>1. Own(Top) = {} /\ o2 = o \cup {n}
      BY <2>3, <1>6 DEF Own
    <3> QED BY <2>1, <3>1, <1>2, <1>9, <1>15
  <2> QED BY <2>2, <2>3
<1> HIDE DEF o2
<1>17. Len(b.stack) = Len(locals') + Values(<<e>> \o w) /\ Len(b.stack) + budget' <= StatementsMax + 2
  <2>1. Values(<<e>> \o w) = Values(w) + 1
    BY <1>11, <1>15, ValuesCons
  <2> QED BY <2>1, <1>2, <1>3, <1>8, <1>12
<1>18. \A m \in marks' : /\ m.first \in DOMAIN d2 /\ Len(d2[m.first]) = m.before
                         /\ m.end \in DOMAIN d2 /\ Len(d2[m.end]) = m.after
  BY <1>2, <1>14 DEF MarksHold
<1>19. /\ Coded(code', d2, o2, b.stack) /\ b.locals = locals' /\ b.loops = Starts(loops')
       /\ b.scope = scope_depth' /\ LoopsHold(loops', code', d2) /\ stack' = d2[1] /\ budget' \in Nat
       /\ WorkHolds(w, y, code', d2) /\ Held(e, b, y[1], code', d2)
       /\ e.at \notin {"declarations", "arm"}
  BY <1>2, <1>3, <1>8, <1>10, <1>14, <1>15 DEF c2
<1> QED BY <1>11, <1>13, <1>14, <1>15, <1>16, <1>17, <1>18, <1>19, EntryAccounted

\* A match is closed: its jumps go to the pop of its value.
LEMMA MatchClosed ==
  ASSUME NEW c, NEW d, NEW o, NEW s, Coded(c, d, o, s), Len(s) >= 1,
         NEW ends, \A k \in ends : Jumps(c, d, k, s),
         NEW start \in DOMAIN c, c[start].op = "match", NEW more \in BOOLEAN
  PROVE  LET jump == IF more THEN emit_jump(c, "jump") ELSE c
             last == IF more THEN {Len(jump)} ELSE {}
             c2 == EmitPops(emit_byte(PatchAll(jump, ends \cup last \cup {start}), "pop"), 0)
         IN  \E d2 : Coded(c2, d2, o \ ends, Bottom(s, Len(s) - 1)) /\ Keeps(c, d, c2, d2)
<1> DEFINE jump == IF more THEN emit_jump(c, "jump") ELSE c
           last == IF more THEN {Len(jump)} ELSE {}
           all == ends \cup last \cup {start}
           p == PatchAll(jump, all)
           q == emit_byte(p, "pop")
           c2 == EmitPops(q, 0)
           t == Bottom(s, Len(s) - 1)
<1>1. /\ Len(c) \in Nat /\ s \in Seq(Nat) /\ IsStack(s) /\ Len(s) \in Nat /\ DOMAIN c = 1..Len(c)
      /\ c \in Seq(Instructions) /\ d \in Seq(Seq(Nat))
  BY CodedTypes
<1>2. Keeps(c, d, c, d)
  BY <1>1, KeepsItself
<1>3. \E d1 : /\ Coded(jump, d1, o \cup last, s) /\ Keeps(c, d, jump, d1)
              /\ \A k \in last : Jumps(jump, d1, k, s)
  <2>1. CASE more = TRUE
    <3> DEFINE j == emit_jump(c, "jump")
    <3>1. "jump" \in {"jump", "break", "jump_if_false"}
      OBVIOUS
    <3>2. Len(j) = Len(c) + 1 /\ \E d1 : /\ Coded(j, d1, o \cup {Len(c) + 1}, s) /\ Keeps(c, d, j, d1)
                                         /\ Jumps(j, d1, Len(c) + 1, s)
      BY <3>1, <1>1, JumpAdded
    <3>3. jump = j /\ last = {Len(j)}
      BY <2>1
    <3> HIDE DEF jump, last, j
    <3>4. last = {Len(c) + 1}
      BY <3>2, <3>3
    <3> QED BY <3>2, <3>3, <3>4
  <2>2. CASE more = FALSE
    <3>1. jump = c /\ last = {}
      BY <2>2
    <3> HIDE DEF jump, last
    <3>2. o \cup last = o
      BY <3>1
    <3> QED BY <3>1, <3>2, <1>2
  <2> QED BY <2>1, <2>2
<1> HIDE DEF jump, last
<1>4. PICK d1 : /\ Coded(jump, d1, o \cup last, s) /\ Keeps(c, d, jump, d1)
                /\ \A k \in last : Jumps(jump, d1, k, s)
  BY <1>3
<1>5. \A k \in ends \cup last : Jumps(jump, d1, k, s)
  <2>1. \A k \in ends : Jumps(jump, d1, k, s)
    BY <1>2, <1>4, Further
  <2> QED BY <2>1, <1>4
<1>6. start \in DOMAIN jump /\ jump[start].op = "match" /\ Len(jump) \in Nat /\ DOMAIN jump = 1..Len(jump)
  <2>1. Len(jump) \in Nat /\ DOMAIN jump = 1..Len(jump)
    BY <1>4, CodedTypes
  <2> QED BY <2>1, <1>1, <1>4 DEF Keeps
<1>7. /\ \A k \in all : Patchable(jump, k)
      /\ \A k \in all : k \in DOMAIN jump => jump[k].op \notin {"get_local", "set_local"}
      /\ \A k \in all : k \in DOMAIN jump /\ jump[k].op \in Forward => Jumps(jump, d1, k, s)
  BY <1>5, <1>6 DEF Patchable, Jumps, Forward, Backward
<1>8. (o \cup last) \ all \subseteq o \ ends
  OBVIOUS
<1> HIDE DEF all
<1>9. Coded(p, d1, (o \cup last) \ all, s) /\ Keeps(jump, d1, p, d1)
  BY <1>4, <1>7, PatchingAllTo
<1> HIDE DEF p
<1>10. Coded(p, d1, o \ ends, s) /\ Keeps(c, d, p, d1)
  <2>1. Coded(p, d1, o \ ends, s)
    BY <1>8, <1>9, CodedMore
  <2> QED BY <2>1, <1>4, <1>9, Further
<1>11. PICK d2 : Coded(q, d2, o \ ends, t) /\ Keeps(p, d1, q, d2)
  <2>1. "pop" \in {"pop", "define_global"}
    OBVIOUS
  <2> QED BY <2>1, <1>10, PopAdded
<1>12. t \in Seq(Nat) /\ Len(t) \in Nat
  BY <1>11, CodedTypes
<1> HIDE DEF q, t
<1>13. Keeps(c, d, q, d2)
  BY <1>10, <1>11, Further
<1>14. PICK d3 : Coded(c2, d3, o \ ends, Bottom(t, Len(t) - 0)) /\ Keeps(q, d2, c2, d3)
  <2>1. 0 \in 0..Len(t)
    BY <1>12
  <2> QED BY <2>1, <1>11, PopsAdded
<1>15. Bottom(t, Len(t) - 0) = t
  BY <1>12, BottomAll
<1> HIDE DEF c2
<1>16. Coded(c2, d3, o \ ends, t)
  BY <1>14, <1>15
<1>17. Keeps(c, d, c2, d3)
  BY <1>11, <1>13, <1>14, <1>16, Further
<1> QED BY <1>16, <1>17 DEF c2, q, p, all, last, jump, t

\* A match is complete.
LEMMA EndOfMatchAccounted ==
  ASSUME FormsBalance, Compiling, Account, end_match, UNCHANGED stack
  PROVE  Account'
<1>1. PICK d, x : Accounts(d, x)
  BY DEF Account
<1> DEFINE a == x[1]
           b == x[2]
           s == a.stack
           o == Open(work, loops)
           more == Top.at = "arms"
           jump == IF more THEN emit_jump(code, "jump") ELSE code
           last == IF more THEN {Len(jump)} ELSE {}
           c == emit_byte(PatchAll(jump, Top.ends \cup last \cup {Top.start}), "pop")
           c2 == code'
<1>2. /\ work # <<>> /\ Top.at \in {"arms", "end_match"} /\ work' = Tail(work) /\ end_scope(c)
      /\ UNCHANGED <<loops, budget>> /\ Mark("match", Top, code', 0)
  BY DEF end_match, Resume
<1>3. /\ Coded(code, d, o, s) /\ Lies(a, d) /\ s \in Seq(Nat) /\ Len(s) \in Nat /\ Len(s) >= 1
      /\ Len(s) = Len(locals) + Values(work) /\ scope_depth \in Nat /\ Len(locals) \in Nat
  BY <1>1, PresentStack
<1>4. /\ Held(Top, a, b, code, d) /\ b \in Settings /\ work \in Seq(Entries) /\ Fits(Top, code)
      /\ OpenWork(work) = Own(Top) \cup OpenWork(Tail(work))
  BY <1>1, <1>2, Present DEF Compiling
<1>5. Values(work) = Values(Tail(work)) + 1 /\ Values(Tail(work)) \in Nat
  BY <1>2, <1>4, ValuesTail DEF Top
<1>6. a.locals = locals /\ a.loops = Starts(loops) /\ a.scope = scope_depth /\ LoopsHold(loops, code, d)
  BY <1>1 DEF Accounts
<1>7. MatchEnds(Top, a, b, code, d)
  <2> HIDE DEF a, b
  <2> QED BY <1>2, <1>4 DEF Held
<1>8. /\ Inner(a, b) /\ b.locals = locals /\ b.stack = Bottom(s, Len(s) - 1) /\ b.loops = Starts(loops)
      /\ code[Top.start].op = "match" /\ Top.exit = 0 /\ \A k \in Top.ends : Jumps(code, d, k, s)
  BY <1>6, <1>7 DEF MatchEnds, Inner
<1>9. Top.start \in DOMAIN code
  <2>1. Len(code) \in Nat /\ DOMAIN code = 1..Len(code)
    BY <1>3, CodedTypes
  <2> QED BY <2>1, <1>2, <1>4 DEF Fits
<1>10. code' = EmitPops(c, 0) /\ locals' = b.locals /\ scope_depth' = b.scope
  <2> HIDE DEF c
  <2>1. code' = EmitPops(c, Len(locals) - Len(b.locals)) /\ locals' = b.locals /\ scope_depth' = b.scope
    BY <1>2, <1>3, <1>4, <1>6, <1>8, ScopeEnds DEF Compiling
  <2>2. Len(locals) - Len(b.locals) = 0
    BY <1>3, <1>8
  <2> QED BY <2>1, <2>2
<1>11. \E d2 : Coded(c2, d2, o \ Top.ends, b.stack) /\ Keeps(code, d, c2, d2)
  <2> DEFINE ends == Top.ends
             start == Top.start
             m == more
  <2>1. /\ m \in BOOLEAN /\ start \in DOMAIN code /\ code[start].op = "match"
        /\ \A k \in ends : Jumps(code, d, k, s)
    BY <1>8, <1>9
  <2> HIDE DEF ends, start, m, s, o
  <2>2. LET j == IF m THEN emit_jump(code, "jump") ELSE code
            l == IF m THEN {Len(j)} ELSE {}
            e == EmitPops(emit_byte(PatchAll(j, ends \cup l \cup {start}), "pop"), 0)
        IN  \E d2 : Coded(e, d2, o \ ends, Bottom(s, Len(s) - 1)) /\ Keeps(code, d, e, d2)
    BY <2>1, <1>3, MatchClosed
  <2>3. b.stack = Bottom(s, Len(s) - 1)
    BY <1>8 DEF s
  <2> HIDE DEF b
  <2> QED BY <2>2, <2>3, <1>10 DEF ends, start, m
<1>12. PICK d2 : Coded(c2, d2, o \ Top.ends, b.stack) /\ Keeps(code, d, c2, d2)
  BY <1>11
<1>13. Len(b.stack) = Len(s) - 1
  <2> DEFINE h == Len(s) - 1
  <2>1. h \in 0..Len(s)
    BY <1>3
  <2> HIDE DEF h
  <2>2. Len(Bottom(s, h)) = h
    BY <2>1, <1>3, BottomType
  <2> QED BY <2>2, <1>8 DEF h
<1> HIDE DEF s, o, c2
<1>14. Len(b.stack) = Len(locals') + Values(Tail(work)) /\ Len(b.stack) <= Len(s)
  <2> DEFINE h == Len(s)
             l == Len(locals)
             v == Values(Tail(work))
             t == Len(b.stack)
  <2>1. /\ h \in Nat /\ v \in Nat /\ h = l + (v + 1) /\ t = h - 1 /\ l \in Nat /\ Len(locals') = l
    BY <1>3, <1>5, <1>8, <1>10, <1>13
  <2> HIDE DEF h, l, v, t
  <2>2. t = l + v /\ t <= h
    BY <2>1
  <2> QED BY <2>1, <2>2 DEF h, v, t
<1>15. LoopsHold(loops', code', d2)
  <2> HIDE DEF b
  <2>1. LoopsHold(loops, c2, d2)
    BY <1>1, <1>12, Carried
  <2> QED BY <2>1, <1>2 DEF c2
<1>16. o \ Top.ends \subseteq Open(Tail(work), loops')
  BY <1>2, <1>4, <1>8 DEF Open, Own, o
<1>17. Top.at \in Compounds
  BY <1>2 DEF Compounds
<1>18. x[2].locals = locals' /\ x[2].loops = Starts(loops') /\ x[2].scope = scope_depth'
  BY <1>2, <1>8, <1>10
<1> DEFINE open == o \ Top.ends
<1>19. /\ Coded(code', d2, open, x[2].stack) /\ Keeps(code, d, code', d2) /\ Len(x[2].stack) <= Len(x[1].stack)
       /\ open \subseteq Open(Tail(work), loops')
       /\ Len(x[2].stack) = Len(locals') + Values(Tail(work)) /\ UNCHANGED <<budget, stack>>
  BY <1>2, <1>12, <1>14, <1>16 DEF s, c2
<1> HIDE DEF a, b, open
<1> QED BY <1>1, <1>2, <1>15, <1>17, <1>18, <1>19, EndAccounted

-----------------------------------------------------------------------------
(* The machine does what the account says.                                 *)

\* The stack is what the account of the finished code says it is.
Follows(d) == Flows(code, d, {}) /\ stack = d[pc] /\ MarksHold(d)

Runs == \E d : Follows(d)

\* What the compiler accounts for, the machine finds.
Accounting ==
  /\ phase \in {"compile", "run", "returned"}
  /\ phase = "compile" => Account
  /\ phase = "run" => Runs

\* Before the text begins, only the callee and its argument are on the stack.
LEMMA BeginningAccounted ==
  ASSUME FormsBalance, Init
  PROVE  Accounting
<1> DEFINE r == Setting(locals, stack, <<>>, scope_depth)
           d == <<stack>>
           e == Entry("declarations")
<1>1. /\ phase = "compile" /\ code = <<>> /\ loops = <<>> /\ work = <<e>> /\ marks = {}
      /\ budget = StatementsMax /\ StatementsMax \in Nat /\ StackMax \in Nat /\ StatementsMax + 3 <= StackMax
      /\ stack = [k \in DOMAIN locals |-> locals[k].id] /\ scope_depth \in {0, 1}
  BY StatementsAreBounded, StackIsBounded DEF Init, InitCompile, FormsBalance
<1>2. /\ locals \in Seq(Locals) /\ Len(locals) \in {1, 2} /\ DOMAIN locals = 1..Len(locals)
      /\ \A k \in DOMAIN locals : locals[k].id \in Nat /\ locals[k].depth \in 0..scope_depth
  <2>1. Callee \in Locals /\ Callee.id = 0 /\ Callee.depth = 0
    BY DEF Callee, Locals
  <2> DEFINE f == Callee
  <2>2. CASE locals = <<f>>
    <3> HIDE DEF f
    <3>1. locals \in Seq(Locals) /\ Len(locals) = 1 /\ DOMAIN locals = 1..1 /\ locals[1] = f
      BY <2>1, <2>2 DEF f
    <3>2. f.id = 0 /\ f.depth = 0
      BY <2>1 DEF f
    <3>3. \A k \in 1..1 : locals[k] = f
      BY <3>1
    <3> QED BY <3>1, <3>2, <3>3, <1>1
  <2>3. CASE scope_depth = 1 /\ \E x \in Names : locals = <<f, [name |-> x, depth |-> 1, id |-> 1]>>
    <3>1. PICK x \in Names : locals = <<f, [name |-> x, depth |-> 1, id |-> 1]>>
      BY <2>3
    <3> DEFINE g == [name |-> x, depth |-> 1, id |-> 1]
    <3>2. g \in Locals /\ g.id = 1 /\ g.depth = 1 /\ f \in Locals /\ f.id = 0 /\ f.depth = 0
      <4>1. \A i \in Int, k \in Nat : [name |-> x, depth |-> i, id |-> k] \in Locals
        BY DEF Locals
      <4> HIDE DEF f
      <4>2. f \in Locals /\ f.id = 0 /\ f.depth = 0
        BY <2>1 DEF f
      <4> QED BY <4>1, <4>2
    <3> HIDE DEF f
    <3>3. locals = <<f, g>>
      BY <3>1
    <3> HIDE DEF g
    <3>4. locals \in Seq(Locals) /\ Len(locals) = 2 /\ DOMAIN locals = 1..2 /\ locals[1] = f /\ locals[2] = g
      BY <3>2, <3>3
    <3>5. \A k \in 1..2 : locals[k] = f \/ locals[k] = g
      BY <3>4
    <3> QED BY <3>2, <3>4, <3>5, <2>3
  <2> QED BY <2>2, <2>3 DEF Init, InitCompile
<1>3. stack \in Seq(Nat) /\ Len(stack) = Len(locals) /\ \A k \in DOMAIN locals : stack[k] = locals[k].id
  <2>1. stack \in [1..Len(locals) -> Nat]
    BY <1>1, <1>2
  <2> QED BY <2>1, <1>1, <1>2
<1>4. IsStack(stack)
  BY <1>1, <1>2, <1>3 DEF IsStack
<1>5. /\ r \in Settings /\ r.locals = locals /\ r.stack = stack /\ r.loops = <<>> /\ r.scope = scope_depth
  BY <1>1, <1>2, <1>3 DEF Settings, Setting
<1>6. d \in Seq(Seq(Nat)) /\ Len(d) = 1 /\ DOMAIN d = 1..1 /\ d[1] = stack
  BY <1>3
<1> HIDE DEF r, d
<1>7. Lies(r, d)
  <2>1. Len(r.locals) \in 1..Len(r.stack)
    BY <1>2, <1>3, <1>5
  <2> QED BY <2>1, <1>2, <1>3, <1>5 DEF Lies
<1>8. Sound(code)
  BY <1>1 DEF Sound, Lands
<1>9. Coded(code, d, {}, stack)
  <2>1. Len(code) = 0 /\ DOMAIN code = {}
    BY <1>1
  <2>2. \A k \in DOMAIN d : IsStack(d[k])
    BY <1>4, <1>6
  <2>3. Flows(code, d, {})
    BY <2>1, <2>2, <1>6 DEF Flows
  <2> QED BY <2>1, <2>3, <1>6, <1>8 DEF Coded
<1>10. e \in Entries /\ e.at = "declarations" /\ e.exit = 0 /\ e.ends = {}
  BY DEF Entry, Entries, Places
<1> HIDE DEF e
<1>11. work = <<e>> \o <<>> /\ <<>> \in Seq(Entries)
  BY <1>1, <1>10
<1> DEFINE w == <<>>
           y == <<r>>
           x == <<r>> \o y
<1>12. WorkHolds(w, y, code, d) /\ y[1] = r
  <2>1. y \in Seq(Settings) /\ Len(y) = 1 /\ DOMAIN y = {1} /\ y[1] = r
    BY <1>5
  <2>2. Len(w) = 0 /\ DOMAIN w = {}
    OBVIOUS
  <2> HIDE DEF y, w
  <2> QED BY <2>1, <2>2, <1>5, <1>7 DEF WorkHolds
<1>13. Held(e, r, r, code, d)
  BY <1>10 DEF Held, Compounds
<1> HIDE DEF y
<1>14. WorkHolds(<<e>> \o w, x, code, d) /\ x[1] = r
  <2>1. w \in Seq(Entries) /\ Held(e, r, y[1], code, d)
    BY <1>12, <1>13
  <2> HIDE DEF w
  <2> QED BY <2>1, <1>7, <1>10, <1>12, WorkHoldsCons
<1> HIDE DEF x
<1>15. Ordered(work) /\ OpenWork(work) = {} /\ Values(work) = 0
  <2> DEFINE v == <<e>>
  <2>1. DOMAIN v = {1} /\ Len(v) = 1 /\ v[1] = e
    OBVIOUS
  <2>2. work = v
    BY <1>1
  <2> HIDE DEF v
  <2>3. Ordered(v)
    BY <2>1, <1>10 DEF Ordered
  <2>4. Own(e) = {}
    BY <1>10 DEF Own
  <2>5. OpenWork(v) = {}
    BY <2>1, <2>4 DEF OpenWork
  <2>6. {k \in DOMAIN v : v[k].at \in {"arms", "end_match"}} = {}
    BY <2>1, <1>10
  <2> QED BY <2>2, <2>3, <2>5, <2>6, FS_EmptySet DEF Values
<1>16. OpenLoops(loops) = {} /\ Starts(loops) = <<>> /\ LoopsHold(loops, code, d)
  <2>1. DOMAIN loops = {} /\ loops = <<>>
    BY <1>1
  <2>2. Starts(loops) = <<>>
    BY <2>1 DEF Starts
  <2> QED BY <2>1, <2>2 DEF OpenLoops, LoopsHold
<1>17. Accounts(d, x)
  <2>1. Open(work, loops) = {}
    BY <1>15, <1>16 DEF Open
  <2>2. WorkHolds(work, x, code, d)
    BY <1>11, <1>14
  <2>3. Len(stack) = Len(locals) + 0 /\ Len(stack) + budget <= StatementsMax + 2 /\ budget \in Nat
    BY <1>1, <1>2, <1>3
  <2>4. MarksHold(d)
    BY <1>1 DEF MarksHold
  <2> QED BY <2>1, <2>2, <2>3, <2>4, <1>5, <1>6, <1>9, <1>14, <1>15, <1>16 DEF Accounts
<1> QED BY <1>1, <1>17 DEF Accounting, Account

\* The code is complete.
LEMMA EndOfCompileAccounted ==
  ASSUME FormsBalance, Compiling, Account, end_compile, UNCHANGED <<stack, pc>>
  PROVE  Runs'
<1>1. PICK d, x : Accounts(d, x)
  BY DEF Account
<1> DEFINE s == x[1].stack
           o == Open(work, loops)
           c2 == code'
<1>2. work = <<>> /\ c2 = emit_byte(code, "return") /\ marks' = marks /\ pc' = 1 /\ stack' = stack
  BY DEF end_compile, Compiling
<1>3. Coded(code, d, o, s) /\ Len(s) >= 1 /\ IsStack(s)
  BY <1>1, PresentStack
<1>4. loops = <<>>
  <2>1. x[1].loops = <<>>
    <3>1. Len(work) = 0
      BY <1>2
    <3>2. Len(x) = 1 /\ x[Len(x)].loops = <<>>
      BY <3>1, <1>1 DEF Accounts, WorkHolds
    <3> QED BY <3>2
  <2>2. Starts(loops) = <<>>
    BY <2>1, <1>1 DEF Accounts
  <2>3. DOMAIN Starts(loops) = DOMAIN loops
    BY DEF Starts
  <2>4. DOMAIN loops = {}
    BY <2>2, <2>3
  <2> QED BY <2>4 DEF Compiling
<1>5. o = {}
  <2>1. DOMAIN work = {} /\ DOMAIN loops = {}
    BY <1>2, <1>4
  <2> QED BY <2>1 DEF Open, OpenWork, OpenLoops
<1> HIDE DEF s, o
<1>6. PICK d2 : Coded(c2, d2, o, s) /\ Keeps(code, d, c2, d2)
  BY <1>2, <1>3, ReturnAdded
<1> HIDE DEF c2
<1>7. stack = d2[1] /\ MarksHold(d2)
  BY <1>1, <1>6, Carried
<1>8. Flows(code', d2, {})
  BY <1>5, <1>6 DEF Coded, c2
<1>9. \A m \in marks' : /\ m.first \in DOMAIN d2 /\ Len(d2[m.first]) = m.before
                        /\ m.end \in DOMAIN d2 /\ Len(d2[m.end]) = m.after
  BY <1>2, <1>7 DEF MarksHold
<1>10. stack' = d2[pc']
  BY <1>2, <1>7
<1> QED BY <1>8, <1>9, <1>10 DEF Runs, Follows, MarksHold

\* The lowest cells of the stack.
LEMMA BottomIsPrefix ==
  ASSUME NEW s \in Seq(Nat), NEW h \in 0..Len(s)
  PROVE  SubSeq(s, 1, h) = Bottom(s, h)
<1> DEFINE t == SubSeq(s, 1, h)
           u == Bottom(s, h)
<1>1. t \in Seq(Nat) /\ Len(t) = h /\ \A k \in 1..h : t[k] = s[k]
  OBVIOUS
<1>2. u \in Seq(Nat) /\ Len(u) = h /\ \A k \in 1..h : u[k] = s[k]
  BY BottomType
<1> HIDE DEF t, u
<1>3. t = u
  BY <1>1, <1>2, SameStack
<1> QED BY <1>3 DEF t, u

\* What the account says of the instruction the machine is at.
LEMMA RunningFacts ==
  ASSUME phase = "run", RunInv, NEW d, Follows(d)
  PROVE  LET i == Fetched
         IN  /\ i \in Instructions /\ i.op \in Ops /\ i.arg \in Nat /\ i.def \in Nat
             /\ Ready(i, stack) /\ stack \in Seq(Nat) /\ Len(stack) \in Nat
             /\ i.op \notin Stops => d[pc + 1] = Leaves(i, stack)
             /\ i.op \in Forward => d[pc + 1 + i.arg] = Carries(i, stack)
             /\ i.op \in Backward => d[pc + 1 - i.arg] = stack
             /\ pc \in DOMAIN code
<1>1. code \in Seq(Instructions) /\ pc \in DOMAIN code
  BY DEF RunInv, Sealed
<1>2. Fetched \in Instructions
  BY <1>1 DEF Fetched
<1>3. Fetched.op \in Ops /\ Fetched.arg \in Nat /\ Fetched.def \in Nat
  BY <1>2 DEF Instructions
<1>4. stack \in Seq(Nat) /\ Len(stack) \in Nat
  <2>1. Len(code) \in Nat /\ d \in Seq(Seq(Nat)) /\ Len(d) = Len(code) + 1 /\ pc \in 1..Len(code)
    BY <1>1 DEF Follows, Flows
  <2>2. pc \in DOMAIN d
    BY <2>1
  <2>3. IsStack(d[pc])
    BY <2>2 DEF Follows, Flows
  <2> QED BY <2>3 DEF Follows, IsStack
<1>5. /\ Ready(Fetched, stack)
      /\ Fetched.op \notin Stops => d[pc + 1] = Leaves(Fetched, stack)
      /\ Fetched.op \in Forward => d[pc + 1 + Fetched.arg] = Carries(Fetched, stack)
      /\ Fetched.op \in Backward => d[pc + 1 - Fetched.arg] = stack
  BY <1>1 DEF Follows, Flows, Fetched
<1> QED BY <1>1, <1>2, <1>3, <1>4, <1>5

\* The machine never panics.
LEMMA NeverPanics ==
  ASSUME phase = "run", RunInv, Runs
  PROVE  ~ panic
<1>1. PICK d : Follows(d)
  BY DEF Runs
<1>2. Ready(Fetched, stack) /\ Len(stack) \in Nat
  BY <1>1, RunningFacts
<1> QED BY <1>2, StackIsBounded DEF panic, Ready, HasRoom, Holds

\* A step of the machine that goes to an instruction with the stack that is there.
LEMMA GoesThere ==
  ASSUME NEW d, Follows(d), stack' = d[pc'], UNCHANGED <<code, marks>>
  PROVE  Runs'
<1>1. \A m \in marks' : /\ m.first \in DOMAIN d /\ Len(d[m.first]) = m.before
                        /\ m.end \in DOMAIN d /\ Len(d[m.end]) = m.after
  BY DEF Follows, MarksHold
<1>2. Flows(code', d, {})
  BY DEF Follows
<1> QED BY <1>1, <1>2 DEF Runs, Follows, MarksHold

\* Each step of the machine follows the account.
LEMMA RunAccounted ==
  ASSUME FormsBalance, phase = "run", RunInv, Runs, Run
  PROVE  phase' = "returned" \/ (phase' = "run" /\ Runs')
<1>1. PICK d : Follows(d)
  BY DEF Runs
<1> DEFINE i == Fetched
           s == stack
<1>2. /\ i.op \in Ops /\ i.arg \in Nat /\ i.def \in Nat
      /\ Ready(i, s) /\ s \in Seq(Nat) /\ Len(s) \in Nat
      /\ i.op \notin Stops => d[pc + 1] = Leaves(i, s)
      /\ i.op \in Forward => d[pc + 1 + i.arg] = Carries(i, s)
      /\ i.op \in Backward => d[pc + 1 - i.arg] = s
  BY <1>1, RunningFacts
<1>3. ~ panic
  BY NeverPanics
<1>4. /\ Takes(i.op) = 0 => Carries(i, s) = s
      /\ \A n \in 0..Len(s) : n = Takes(i.op) => Carries(i, s) = Popped(n)
  <2>1. Takes(i.op) = 0 => Carries(i, s) = s
    BY <1>2, BottomAll DEF Carries
  <2>2. ASSUME NEW n \in 0..Len(s), n = Takes(i.op) PROVE Carries(i, s) = Popped(n)
    <3> DEFINE h == Len(s) - n
    <3>1. h \in 0..Len(s)
      BY <1>2
    <3> HIDE DEF h
    <3>2. SubSeq(s, 1, h) = Bottom(s, h)
      BY <3>1, <1>2, BottomIsPrefix
    <3> QED BY <3>2, <2>2 DEF Carries, Popped, h
  <2> QED BY <2>1, <2>2
<1>5. ASSUME stack' = d[pc'], UNCHANGED <<phase, code, marks>>
      PROVE  phase' = "run" /\ Runs'
  BY <1>1, <1>5, GoesThere
<1>6. CASE op_push \/ op_get_local
  <2>1. /\ i.op \in {"push", "get_local"} /\ stack' = Append(s, i.def) /\ pc' = pc + 1
        /\ UNCHANGED <<phase, code, marks>>
    BY <1>6 DEF op_push, op_get_local, At, Fetched, Next1, compileVars
  <2>2. i.op \notin Stops /\ Leaves(i, s) = Append(s, i.def)
    BY <2>1 DEF Stops, Leaves
  <2> HIDE DEF i, s
  <2> QED BY <2>1, <2>2, <1>2, <1>5
<1>7. CASE op_set_local \/ op_match
  <2>1. i.op \in {"set_local", "set_global", "match"} /\ stack' = s /\ pc' = pc + 1 /\ UNCHANGED <<phase, code, marks>>
    BY <1>7 DEF op_set_local, op_match, At, Fetched, Next1, compileVars
  <2>2. i.op \notin Stops /\ Leaves(i, s) = Carries(i, s) /\ Takes(i.op) = 0
    BY <2>1 DEF Stops, Leaves, Takes
  <2> HIDE DEF i, s
  <2> QED BY <2>1, <2>2, <1>2, <1>4, <1>5
<1>8. CASE op_pop
  <2>1. i.op \in {"pop", "define_global"} /\ stack' = Popped(1) /\ pc' = pc + 1 /\ UNCHANGED <<phase, code, marks>>
    BY <1>8 DEF op_pop, At, Fetched, Next1, compileVars
  <2>2. i.op \notin Stops /\ Leaves(i, s) = Carries(i, s) /\ Takes(i.op) = 1 /\ Len(s) >= 1
    BY <2>1, <1>2 DEF Stops, Leaves, Takes, Ready
  <2>3. 1 \in 0..Len(s)
    BY <2>2, <1>2
  <2> HIDE DEF i, s
  <2> QED BY <2>1, <2>2, <2>3, <1>2, <1>4, <1>5
<1>9. CASE op_jump_if_false
  <2>1. /\ i.op = "jump_if_false" /\ stack' = s /\ pc' \in {pc + 1, pc + 1 + i.arg}
        /\ UNCHANGED <<phase, code, marks>>
    BY <1>9 DEF op_jump_if_false, At, Fetched, Next1, JumpForward, compileVars
  <2>2. i.op \notin Stops /\ i.op \in Forward /\ Leaves(i, s) = Carries(i, s) /\ Takes(i.op) = 0
    BY <2>1 DEF Stops, Leaves, Takes, Forward
  <2> HIDE DEF i, s
  <2> QED BY <2>1, <2>2, <1>2, <1>4, <1>5
<1>10. CASE op_jump
  <2>1. i.op \in {"jump", "break"} /\ stack' = s /\ pc' = pc + 1 + i.arg /\ UNCHANGED <<phase, code, marks>>
    BY <1>10 DEF op_jump, At, Fetched, JumpForward, compileVars
  <2>2. i.op \in Forward /\ Takes(i.op) = 0
    BY <2>1 DEF Takes, Forward
  <2> HIDE DEF i, s
  <2> QED BY <2>1, <2>2, <1>2, <1>4, <1>5
<1>11. CASE op_loop
  <2>1. i.op \in Backward /\ stack' = s /\ pc' = pc + 1 - i.arg /\ UNCHANGED <<phase, code, marks>>
    BY <1>11 DEF op_loop, At, Fetched, JumpBack, Backward, compileVars
  <2> HIDE DEF i, s
  <2> QED BY <2>1, <1>2, <1>5
<1>12. CASE op_jump_if_neq
  <2>1. /\ i.op = "jump_if_neq" /\ stack' = Popped(1) /\ pc' \in {pc + 1, pc + 1 + i.arg}
        /\ UNCHANGED <<phase, code, marks>>
    BY <1>12 DEF op_jump_if_neq, At, Fetched, Next1, JumpForward, compileVars
  <2>2. /\ i.op \notin Stops /\ i.op \in Forward /\ Leaves(i, s) = Carries(i, s) /\ Takes(i.op) = 1
        /\ Len(s) >= 2
    BY <2>1, <1>2 DEF Stops, Leaves, Takes, Forward, Ready
  <2>3. 1 \in 0..Len(s)
    BY <2>2, <1>2
  <2> HIDE DEF i, s
  <2> QED BY <2>1, <2>2, <2>3, <1>2, <1>4, <1>5
<1>13. CASE op_enum_member_match
  <2>1. /\ i.op = "enum_member_match" /\ Len(s) >= 3 /\ i.def = 0 /\ "unbound" \notin Forms
    BY <1>13, <1>2 DEF op_enum_member_match, At, Fetched, Ready, FormsBalance
  <2>2. stack' = Popped(2) /\ pc' \in {pc + 1, pc + 1 + i.arg} /\ UNCHANGED <<phase, code, marks>>
    BY <1>13, <2>1 DEF op_enum_member_match, Fetched, Next1, JumpForward, compileVars
  <2>3. i.op \notin Stops /\ i.op \in Forward /\ Leaves(i, s) = Carries(i, s) /\ Takes(i.op) = 2
    BY <2>1 DEF Stops, Leaves, Takes, Forward
  <2>4. 2 \in 0..Len(s)
    BY <2>1, <1>2
  <2> HIDE DEF i, s
  <2> QED BY <2>2, <2>3, <2>4, <1>2, <1>4, <1>5
<1>14. CASE op_enum_member_bind
  <2>1. i.op = "enum_member_bind"
    BY <1>14 DEF op_enum_member_bind, At, Fetched
  <2> QED BY <2>1, <1>2 DEF Ready
<1>15. CASE op_return
  BY <1>15 DEF op_return
<1> QED BY <1>3, <1>6, <1>7, <1>8, <1>9, <1>10, <1>11, <1>12, <1>13, <1>14, <1>15 DEF Run

-----------------------------------------------------------------------------
(* Every step is accounted for.                                            *)

\* A loop that ends was begun.
LEMMA LoopsAtEnd ==
  ASSUME FormsBalance, Compiling, Account, end_while \/ end_for
  PROVE  loops # <<>>
<1>1. PICK d, x : Accounts(d, x)
  BY DEF Account
<1> DEFINE a == x[1]
<1>2. work # <<>> /\ Top.at \in {"end_while", "end_for"}
  BY DEF end_while, end_for, Resume
<1>3. Held(Top, a, x[2], code, d)
  BY <1>1, <1>2, Present
<1>4. a.loops # <<>>
  <2> HIDE DEF a
  <2> QED BY <1>2, <1>3 DEF Held, LoopEnding
<1>5. a.loops = Starts(loops)
  BY <1>1 DEF Accounts
<1>6. loops = <<>> => Starts(loops) = <<>>
  <2> SUFFICES ASSUME loops = <<>> PROVE Starts(loops) = <<>>
    OBVIOUS
  <2>1. DOMAIN loops = {}
    OBVIOUS
  <2> QED BY <2>1 DEF Starts
<1> QED BY <1>4, <1>5, <1>6

\* The compiler goes on, or ends with the code complete; it never crashes.
LEMMA CompileAccounted ==
  ASSUME FormsBalance, IInv, phase = "compile", Account, Compile, UNCHANGED <<stack, pc>>
  PROVE  (phase' = "compile" /\ Account') \/ (phase' = "run" /\ Runs')
<1>1. Compiling /\ UNCHANGED stack
  BY CompilingFacts DEF IInv, FormInv
<1>2. ASSUME phase' = "compile", Account' PROVE phase' = "compile" /\ Account'
  BY <1>2
<1>3. CASE expr_statement
  BY <1>1, <1>3, ExpressionAccounted DEF expr_statement
<1>4. CASE var_declaration
  BY <1>1, <1>4, DeclarationAccounted DEF var_declaration
<1>5. CASE return_statement
  BY <1>1, <1>5, ReturnAccounted DEF return_statement
<1>6. CASE break_statement
  BY <1>1, <1>6, BreakAccounted, LaterBreakAccounted DEF break_statement
<1>7. CASE continue_statement
  BY <1>1, <1>7, ContinueAccounted DEF continue_statement
<1>8. CASE block_statement
  BY <1>1, <1>8, BlockAccounted DEF block_statement
<1>9. CASE arm_block
  BY <1>1, <1>9, ArmBlockAccounted DEF arm_block
<1>10. CASE end_declarations
  BY <1>1, <1>10, EndOfDeclarationsAccounted DEF end_declarations
<1>11. CASE end_block
  BY <1>1, <1>11, EndOfBlockAccounted DEF end_block
<1>12. CASE if_statement
  BY <1>1, <1>12, IfAccounted DEF if_statement
<1>13. CASE end_then
  BY <1>1, <1>13, ThenAccounted DEF end_then
<1>14. CASE end_if
  BY <1>1, <1>14, EndOfIfAccounted DEF end_if
<1>15. CASE while_statement
  BY <1>1, <1>15, WhileAccounted DEF while_statement
<1>16. CASE loop_statement
  BY <1>1, <1>16, LoopAccounted DEF loop_statement
<1>17. CASE for_statement
  BY <1>1, <1>17, ForAccounted DEF for_statement
<1>18. CASE end_while \/ end_for
  <2>1. loops # <<>>
    BY <1>1, <1>18, LoopsAtEnd
  <2>2. phase' = phase
    BY <2>1, <1>18 DEF end_while, end_for, end_loop
  <2> QED BY <2>2, <1>1, <1>18, EndOfLoopAccounted
<1>19. CASE match_statement
  BY <1>1, <1>19, MatchAccounted DEF match_statement
<1>20. CASE match_member
  BY <1>1, <1>20, MemberAccounted DEF match_member
<1>21. CASE match_member_bind
  BY <1>21 DEF match_member_bind, FormsBalance
<1>22. CASE match_default
  BY <1>1, <1>22, DefaultAccounted DEF match_default
<1>23. CASE end_arm
  BY <1>1, <1>23, EndOfArmAccounted DEF end_arm
<1>24. CASE end_match
  BY <1>1, <1>24, EndOfMatchAccounted DEF end_match
<1>25. CASE end_compile
  BY <1>1, <1>25, EndOfCompileAccounted DEF end_compile
<1> QED BY <1>3, <1>4, <1>5, <1>6, <1>7, <1>8, <1>9, <1>10, <1>11, <1>12, <1>13, <1>14, <1>15,
           <1>16, <1>17, <1>18, <1>19, <1>20, <1>21, <1>22, <1>23, <1>24, <1>25 DEF Compile

\* Every step, of the compiler and of the machine.
LEMMA StepAccounted ==
  ASSUME FormsBalance, IInv, Accounting, [Next]_vars
  PROVE  Accounting'
<1>1. CASE UNCHANGED vars
  <2>1. UNCHANGED <<phase, code, locals, scope_depth, loops, work, budget, marks, stack, pc>>
    BY <1>1 DEF vars, compileVars
  <2>2. Account => Account'
    BY <2>1 DEF Account, Accounts, MarksHold
  <2>3. Runs => Runs'
    BY <2>1 DEF Runs, Follows, MarksHold
  <2> QED BY <2>1, <2>2, <2>3 DEF Accounting
<1>2. CASE Compile /\ UNCHANGED <<stack, pc>>
  <2>1. phase = "compile"
    BY <1>2 DEF Compile, Begin, Resume, expr_statement, var_declaration, return_statement,
      break_statement, continue_statement, block_statement, arm_block, end_declarations, end_block,
      if_statement, end_then, end_if, while_statement, end_while, loop_statement, for_statement,
      end_for, match_statement, match_member, match_member_bind, match_default, end_arm, end_match,
      end_compile
  <2>2. (phase' = "compile" /\ Account') \/ (phase' = "run" /\ Runs')
    BY <1>2, <2>1, CompileAccounted DEF Accounting
  <2> QED BY <2>2 DEF Accounting
<1>3. CASE Run
  <2>1. phase = "run"
    BY <1>3 DEF Run, At, panic, op_push, op_get_local, op_set_local, op_pop, op_jump_if_false, op_jump,
      op_loop, op_match, op_jump_if_neq, op_enum_member_match, op_enum_member_bind, op_return
  <2>2. phase' = "returned" \/ (phase' = "run" /\ Runs')
    BY <1>3, <2>1, RunAccounted DEF Accounting, IInv, FormInv
  <2> QED BY <2>2 DEF Accounting
<1> QED BY <1>1, <1>2, <1>3 DEF Next

\* The account is what Balanced and SlotsAreRight say of each instruction.
LEMMA AccountIsRight ==
  ASSUME IInv, Accounting
  PROVE  Balanced /\ SlotsAreRight
<1>1. CASE phase = "run"
  <2>1. PICK d : Follows(d)
    BY <1>1 DEF Accounting, Runs
  <2>2. Ready(Fetched, stack) /\ Fetched.op \in Ops
    BY <1>1, <2>1, RunningFacts DEF IInv, FormInv
  <2>3. SlotsAreRight
    BY <2>2 DEF Ready, SlotsAreRight
  <2>4. Balanced
    BY <1>1, <2>1 DEF Balanced, Follows, MarksHold
  <2> QED BY <2>3, <2>4
<1>2. CASE phase # "run"
  BY <1>2 DEF Accounting, Balanced, SlotsAreRight
<1> QED BY <1>1, <1>2

\* Whatever the text, if it keeps to the forms whose code is balanced and the stack
\* has room for its locals, every statement leaves the stack as deep as it found it,
\* on every path through it and in every iteration, but for the local it declares,
\* and neither the compiler nor the machine panics.
THEOREM StatementsAreBalanced ==
  ASSUME FormsBalance
  PROVE  Spec => []Balanced
<1>1. Init => IInv /\ Accounting
  BY BeginningJumps, BeginningAccounted
<1>2. (IInv /\ Accounting) /\ [Next]_vars => (IInv /\ Accounting)'
  BY Step, StepAccounted
<1>3. IInv /\ Accounting => Balanced
  BY AccountIsRight
<1> QED BY <1>1, <1>2, <1>3, PTL DEF Spec

\* In such a text an access to a local finds in its slot the variable that the name
\* means there, and a pattern is compared with the value of its match.
THEOREM AccessesFindTheirVariables ==
  ASSUME FormsBalance
  PROVE  Spec => []SlotsAreRight
<1>1. Init => IInv /\ Accounting
  BY BeginningJumps, BeginningAccounted
<1>2. (IInv /\ Accounting) /\ [Next]_vars => (IInv /\ Accounting)'
  BY Step, StepAccounted
<1>3. IInv /\ Accounting => SlotsAreRight
  BY AccountIsRight
<1> QED BY <1>1, <1>2, <1>3, PTL DEF Spec
=============================================================================

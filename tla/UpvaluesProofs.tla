--------------------------- MODULE UpvaluesProofs ---------------------------
(***************************************************************************)
(* For any number of upvalues and values, any depth of the stack and of    *)
(* calls and either layout of memory: a captured variable in scope is      *)
(* shared with its upvalue, and where the heap lies above the stack it has *)
(* one upvalue and outlives its function, unless it is slot 0, the self of *)
(* a method, which the return leaves open and overwrites.                  *)
(***************************************************************************)
EXTENDS Upvalues, FiniteSetTheorems, TLAPS

\* A non-empty set of naturals has a least member: strict inclusion is well-founded
\* on the finite sets 0..n-1.
LEMMA LeastMember ==
  ASSUME NEW S \in SUBSET Nat, S # {}
  PROVE  \E m \in S : \A n \in S : m <= n
<1> DEFINE T == {0..(n - 1) : n \in S}
<1>1. \A n \in S : 0..(n - 1) \in SUBSET Nat /\ IsFiniteSet(0..(n - 1))
  BY FS_Interval
<1>2. T # {} /\ T \subseteq FiniteSubsetsOf(Nat)
  BY <1>1 DEF FiniteSubsetsOf
<1>3. PICK U \in T : \A V \in T : ~ (<<V, U>> \in StrictSubsetOrdering(Nat))
  <2> HIDE DEF T
  <2> QED BY <1>2, FS_StrictSubsetOrderingWellFounded, WFMin
<1>4. PICK m \in S : U = 0..(m - 1)
  OBVIOUS
<1>5. ASSUME NEW n \in S, n < m PROVE FALSE
  <2>1. 0..(n - 1) \subseteq 0..(m - 1) /\ n \in (0..(m - 1)) \ (0..(n - 1))
    BY <1>5
  <2>2. <<0..(n - 1), U>> \in StrictSubsetOrdering(Nat)
    BY <2>1, <1>4 DEF StrictSubsetOrdering
  <2> QED BY <2>2, <1>3
<1> QED BY <1>5

\* Where a walk stops: everything before is above the address, and the upvalue
\* there, if the list goes that far, is not.
LEMMA StopFacts ==
  ASSUME NEW a, open \in Seq(Allocated)
  PROVE  /\ Stop(a) \in 1..(Len(open) + 1)
         /\ Stop(a) <= Len(open) => ~Above(open[Stop(a)], a)
         /\ \A q \in 1..(Stop(a) - 1) : Above(open[q], a)
<1> DEFINE S == {p \in 1..(Len(open) + 1) : p <= Len(open) => ~Above(open[p], a)}
<1>1. Len(open) \in Nat
  OBVIOUS
<1>2. S # {} /\ S \in SUBSET Nat
  <2>1. Len(open) + 1 \in S
    BY <1>1
  <2> QED BY <2>1
<1>3. PICK m \in S : \A n \in S : m <= n
  <2> HIDE DEF S
  <2> QED BY <1>2, LeastMember
<1>4. \A q \in 1..(m - 1) : Above(open[q], a)
  BY <1>1, <1>3
<1>5. \E p \in 1..(Len(open) + 1) :
        /\ p <= Len(open) => ~Above(open[p], a)
        /\ \A q \in 1..(p - 1) : Above(open[q], a)
  BY <1>3, <1>4
<1> QED BY <1>5 DEF Stop

\* Sequences put together and taken apart.
LEMMA ConcatFacts ==
  ASSUME NEW S, NEW s \in Seq(S), NEW t \in Seq(S)
  PROVE  /\ s \o t \in Seq(S)
         /\ Len(s \o t) = Len(s) + Len(t)
         /\ \A q \in 1..Len(s) : (s \o t)[q] = s[q]
         /\ \A q \in (Len(s) + 1)..(Len(s) + Len(t)) : (s \o t)[q] = t[q - Len(s)]
OBVIOUS

\* A segment of a sequence.
LEMMA SubSeqFacts ==
  ASSUME NEW S, NEW s \in Seq(S), NEW m \in 1..(Len(s) + 1), NEW n \in (m - 1)..Len(s)
  PROVE  /\ SubSeq(s, m, n) \in Seq(S)
         /\ Len(SubSeq(s, m, n)) = n - m + 1
         /\ \A q \in 1..(n - m + 1) : SubSeq(s, m, n)[q] = s[q + m - 1]
OBVIOUS

\* An insertion moves what follows by one position.
LEMMA InsertFacts ==
  ASSUME NEW S, NEW s \in Seq(S), NEW u \in S, NEW p \in 1..(Len(s) + 1)
  PROVE  /\ InsertAt(s, p, u) \in Seq(S)
         /\ Len(InsertAt(s, p, u)) = Len(s) + 1
         /\ InsertAt(s, p, u)[p] = u
         /\ \A q \in 1..(p - 1) : InsertAt(s, p, u)[q] = s[q]
         /\ \A q \in (p + 1)..(Len(s) + 1) : InsertAt(s, p, u)[q] = s[q - 1]
<1> DEFINE before == SubSeq(s, 1, p - 1)
           after == SubSeq(s, p, Len(s))
           head == before \o <<u>>
           t == head \o after
<1>0. Len(s) \in Nat
  OBVIOUS
<1>i. InsertAt(s, p, u) = t
  BY DEF InsertAt
<1>1. /\ before \in Seq(S) /\ Len(before) = p - 1
      /\ \A q \in 1..(p - 1) : before[q] = s[q]
  BY <1>0, SubSeqFacts
<1>2. /\ after \in Seq(S) /\ Len(after) = Len(s) - p + 1
      /\ \A q \in 1..(Len(s) - p + 1) : after[q] = s[q + p - 1]
  BY <1>0, SubSeqFacts
<1> HIDE DEF before, after
<1>3. <<u>> \in Seq(S) /\ Len(<<u>>) = 1 /\ <<u>>[1] = u
  OBVIOUS
<1>4. /\ head \in Seq(S) /\ Len(head) = p /\ head[p] = u
      /\ \A q \in 1..(p - 1) : head[q] = before[q]
  BY <1>1, <1>3, ConcatFacts
<1> HIDE DEF head
<1>5. /\ t \in Seq(S) /\ Len(t) = p + Len(after)
      /\ \A q \in 1..p : t[q] = head[q]
      /\ \A q \in (p + 1)..(p + Len(after)) : t[q] = after[q - p]
  BY <1>2, <1>4, ConcatFacts
<1> HIDE DEF t
<1>6. t \in Seq(S) /\ Len(t) = Len(s) + 1
  BY <1>0, <1>2, <1>5
<1>7. t[p] = u /\ \A q \in 1..(p - 1) : t[q] = s[q]
  BY <1>1, <1>4, <1>5
<1>8. \A q \in (p + 1)..(Len(s) + 1) : t[q] = s[q - 1]
  <2> SUFFICES ASSUME NEW q \in (p + 1)..(Len(s) + 1) PROVE t[q] = s[q - 1]
    OBVIOUS
  <2>1. t[q] = after[q - p]
    BY <1>0, <1>2, <1>5
  <2>2. q - p \in 1..(Len(s) - p + 1) /\ q - p + p - 1 = q - 1
    BY <1>0
  <2> QED BY <2>1, <2>2, <1>2
<1> QED BY <1>6, <1>7, <1>8, <1>i

-----------------------------------------------------------------------------
(* Closing and capturing.                                                  *)

\* close_upvalues leaves the upvalues it passes closed over the value they had,
\* and the others alone.
LEMMA CloseFacts ==
  ASSUME NEW a, close_upvalues(a)
  PROVE  /\ Allocated' = Allocated
         /\ \A u \in Allocated : location'[u] = IF u \in Passed(a) THEN Closed ELSE location[u]
         /\ \A u \in Allocated : closed'[u] = IF u \in Passed(a) THEN Value(u) ELSE closed[u]
BY DEF close_upvalues, Allocated

\* Types are kept by closing ...
LEMMA CloseTypes ==
  ASSUME TypeOK, NEW a, close_upvalues(a)
  PROVE  /\ Allocated' = Allocated
         /\ location' \in [Allocated -> Slots \cup {Closed}]
         /\ closed' \in [Allocated -> Vals \cup {NoVal}]
<1>1. \A u \in Allocated : Value(u) \in Vals \cup {NoVal}
  BY DEF TypeOK, Value
<1>2. location \in [Allocated -> Slots \cup {Closed}] /\ closed \in [Allocated -> Vals \cup {NoVal}]
  BY DEF TypeOK
<1>3. location' \in [Allocated -> Slots \cup {Closed}]
  BY <1>2 DEF close_upvalues
<1>4. closed' \in [Allocated -> Vals \cup {NoVal}]
  BY <1>1, <1>2 DEF close_upvalues
<1>5. Allocated' = Allocated
  BY CloseFacts
<1> QED BY <1>3, <1>4, <1>5

\* ... and by capturing.
LEMMA CaptureTypes ==
  ASSUME TypeOK, NEW s \in Slots, capture_upvalue(s)
  PROVE  /\ Allocated \subseteq Allocated' /\ Allocated' \subseteq Upvs
         /\ open' \in Seq(Allocated')
         /\ location' \in [Allocated' -> Slots \cup {Closed}]
         /\ closed' \in [Allocated' -> Vals \cup {NoVal}]
         /\ captured' \in SUBSET (Slots \X Allocated')
<1> DEFINE p == Stop(s)
<1>1. /\ open \in Seq(Allocated) /\ Allocated \subseteq Upvs
      /\ location \in [Allocated -> Slots \cup {Closed}]
      /\ closed \in [Allocated -> Vals \cup {NoVal}]
      /\ captured \in SUBSET (Slots \X Allocated)
  BY DEF TypeOK
<1>2. p \in 1..(Len(open) + 1)
  BY <1>1, StopFacts
<1> HIDE DEF p
<1>3. CASE p <= Len(open) /\ location[open[p]] = s
  <2>1. open[p] \in Allocated
    BY <1>1, <1>2, <1>3
  <2>2. /\ captured' = captured \cup {<<s, open[p]>>}
        /\ open' = open /\ location' = location /\ closed' = closed
    BY <1>3 DEF capture_upvalue, p
  <2>3. Allocated' = Allocated
    BY <2>2 DEF Allocated
  <2> QED BY <1>1, <2>1, <2>2, <2>3
<1>4. CASE ~(p <= Len(open) /\ location[open[p]] = s)
  <2>1. PICK u \in Upvs \ Allocated :
          /\ open' = InsertAt(open, p, u)
          /\ location' = [x \in Allocated \cup {u} |-> IF x = u THEN s ELSE location[x]]
          /\ closed' = [x \in Allocated \cup {u} |-> IF x = u THEN NoVal ELSE closed[x]]
          /\ captured' = captured \cup {<<s, u>>}
    BY <1>4 DEF capture_upvalue, new_upvalue, p
  <2>2. Allocated' = Allocated \cup {u}
    BY <2>1 DEF Allocated
  <2>3. open' \in Seq(Allocated')
    <3>1. open \in Seq(Allocated') /\ u \in Allocated'
      BY <1>1, <2>2
    <3> QED BY <3>1, <1>2, <2>1, InsertFacts
  <2>4. location' \in [Allocated' -> Slots \cup {Closed}]
    BY <1>1, <2>1, <2>2
  <2>5. closed' \in [Allocated' -> Vals \cup {NoVal}]
    BY <1>1, <2>1, <2>2
  <2> QED BY <1>1, <2>1, <2>2, <2>3, <2>4, <2>5
<1> QED BY <1>3, <1>4

-----------------------------------------------------------------------------
(* Type correctness.                                                       *)

\* The last frame is the highest.
LEMMA FrameFacts ==
  ASSUME TypeOK, frames # <<>>
  PROVE  /\ Len(frames) \in Nat \ {0} /\ Frame = frames[Len(frames)]
         /\ Frame \in [slots : Slots, upv : Allocated \cup {NoUpv}]
         /\ Frame.slots \in Slots /\ Frame.slots <= top
         /\ \A f \in DOMAIN frames : f < Len(frames) => frames[f].slots < Frame.slots
<1>1. frames \in Seq([slots : Slots, upv : Allocated \cup {NoUpv}])
  BY DEF TypeOK
<1>2. Len(frames) \in Nat \ {0} /\ Len(frames) \in DOMAIN frames
  BY <1>1
<1>3. Frame \in [slots : Slots, upv : Allocated \cup {NoUpv}]
  <2> DEFINE R == [slots : Slots, upv : Allocated \cup {NoUpv}]
  <2> HIDE DEF R
  <2>1. frames \in Seq(R)
    BY <1>1 DEF R
  <2>2. frames[Len(frames)] \in R
    BY <2>1, <1>2
  <2> QED BY <2>2 DEF Frame, R
<1>4. Frame.slots \in Slots /\ Frame.slots <= top
  BY <1>3 DEF TypeOK
<1>5. \A f \in DOMAIN frames : f < Len(frames) => frames[f].slots < Frame.slots
  BY <1>2 DEF TypeOK, Frame
<1> QED BY <1>2, <1>3, <1>4, <1>5 DEF Frame

\* A sequence without its last element.
LEMMA FrontFacts ==
  ASSUME NEW S, NEW s \in Seq(S), s # <<>>
  PROVE  /\ SubSeq(s, 1, Len(s) - 1) \in Seq(S)
         /\ Len(SubSeq(s, 1, Len(s) - 1)) = Len(s) - 1 /\ Len(s) \in Nat
         /\ \A g \in 1..(Len(s) - 1) : SubSeq(s, 1, Len(s) - 1)[g] = s[g]
<1> DEFINE n == Len(s) - 1
           t == SubSeq(s, 1, n)
<1>1. Len(s) \in Nat \ {0} /\ n + 1 - 1 = n /\ 1 \in 1..(Len(s) + 1) /\ n \in (1 - 1)..Len(s)
  OBVIOUS
<1>2. /\ t \in Seq(S) /\ Len(t) = n - 1 + 1
      /\ \A g \in 1..(n - 1 + 1) : t[g] = s[g + 1 - 1]
  <2> HIDE DEF n
  <2> QED BY <1>1, SubSeqFacts
<1>3. n - 1 + 1 = n /\ \A g \in 1..n : g + 1 - 1 = g
  BY <1>1
<1> HIDE DEF t
<1>4. t \in Seq(S) /\ Len(t) = n
  BY <1>2, <1>3
<1>5. \A g \in 1..n : t[g] = s[g]
  BY <1>2, <1>3
<1> QED BY <1>1, <1>4, <1>5 DEF t

\* The slots of each call are slots of the stack.
LEMMA FrameTypes ==
  ASSUME TypeOK
  PROVE  \A g \in 1..Len(frames) : frames[g].slots \in Slots
<1> DEFINE R == [slots : Slots, upv : Allocated \cup {NoUpv}]
<1>1. frames \in Seq(R)
  BY DEF TypeOK
<1>2. \A r \in R : r.slots \in Slots
  OBVIOUS
<1> HIDE DEF R
<1>3. \A g \in 1..Len(frames) : frames[g] \in R
  BY <1>1
<1> QED BY <1>2, <1>3

\* TypeOK in three parts: memory, upvalues, calls.
MemoryOK == stack \in [Slots -> Vals \cup {NoVal}] /\ top \in 0..StackMax

UpvaluesOK ==
  /\ Allocated \subseteq Upvs /\ open \in Seq(Allocated)
  /\ location \in [Allocated -> Slots \cup {Closed}]
  /\ closed \in [Allocated -> Vals \cup {NoVal}]
  /\ captured \in SUBSET (Slots \X Allocated)
  /\ heapAbove \in BOOLEAN

FramesOK ==
  /\ frames \in Seq([slots : Slots, upv : Allocated \cup {NoUpv}])
  /\ Len(frames) <= FramesMax
  /\ \A f, g \in DOMAIN frames : f < g => frames[f].slots < frames[g].slots
  /\ frames # <<>> => Frame.slots <= top

\* The type invariant, by the state it is about.
LEMMA TypeParts == TypeOK <=> MemoryOK /\ UpvaluesOK /\ FramesOK
BY DEF TypeOK, MemoryOK, UpvaluesOK, FramesOK

\* The calls under way are untouched while upvalues are made and the top moves
\* above the last call's slot 0.
LEMMA SameFrames ==
  ASSUME FramesOK, frames' = frames, Allocated \subseteq Allocated',
         frames # <<>> => Frame.slots <= top'
  PROVE  FramesOK'
<1>1. [slots : Slots, upv : Allocated \cup {NoUpv}]
        \subseteq [slots : Slots, upv : Allocated' \cup {NoUpv}]
  OBVIOUS
<1>2. frames' \in Seq([slots : Slots, upv : Allocated' \cup {NoUpv}])
  <2> DEFINE R == [slots : Slots, upv : Allocated \cup {NoUpv}]
             T == [slots : Slots, upv : Allocated' \cup {NoUpv}]
  <2>1. frames \in Seq(R) /\ R \subseteq T
    BY <1>1 DEF FramesOK
  <2> HIDE DEF R, T
  <2>2. frames \in Seq(T)
    BY <2>1
  <2> QED BY <2>2 DEF T
<1>3. frames' # <<>> => Frame'.slots <= top'
  BY DEF Frame
<1>4. /\ Len(frames') <= FramesMax
      /\ \A f, g \in DOMAIN frames' : f < g => frames'[f].slots < frames'[g].slots
  BY DEF FramesOK
<1> QED BY <1>2, <1>3, <1>4 DEF FramesOK

\* Nothing about the upvalues changes.
LEMMA SameUpvalues ==
  ASSUME UpvaluesOK, UNCHANGED <<open, location, closed, heapAbove>>,
         captured' \subseteq captured
  PROVE  UpvaluesOK' /\ Allocated' = Allocated
<1>1. Allocated' = Allocated
  BY DEF Allocated
<1> QED BY <1>1 DEF UpvaluesOK

\* The initial state has its types.
LEMMA InitTypes == Init => TypeOK
<1> SUFFICES ASSUME Init PROVE TypeOK
  OBVIOUS
<1>1. MemoryOK
  BY StackAssumption DEF Init, MemoryOK
<1>2. Allocated = {} /\ open = <<>> /\ captured = {} /\ heapAbove \in BOOLEAN
  BY DEF Init, Allocated
<1>3. location \in [Allocated -> Slots \cup {Closed}] /\ closed \in [Allocated -> Vals \cup {NoVal}]
  BY DEF Init, Allocated
<1>4. UpvaluesOK
  BY <1>2, <1>3 DEF UpvaluesOK
<1>5. FramesOK
  BY StackAssumption DEF Init, FramesOK
<1> QED BY <1>1, <1>4, <1>5, TypeParts

\* Every step keeps the types.
LEMMA TypeStep ==
  ASSUME TypeOK, [Next]_vars
  PROVE  TypeOK'
<1> USE StackAssumption
<1>0. MemoryOK /\ UpvaluesOK /\ FramesOK
  BY TypeParts
<1>P. MemoryOK' /\ UpvaluesOK' /\ FramesOK' => TypeOK'
  BY DEF TypeOK, MemoryOK, UpvaluesOK, FramesOK
<1>F. \A g \in 1..Len(frames) : frames[g].slots \in Slots
  BY FrameTypes
<1>1. ASSUME NEW v \in Vals, push(v) PROVE TypeOK'
  <2>1. MemoryOK'
    BY <1>0, <1>1 DEF push, MemoryOK, Slots
  <2>2. UpvaluesOK' /\ Allocated' = Allocated
    BY <1>0, <1>1, SameUpvalues DEF push
  <2>3. FramesOK'
    <3>1. frames' = frames /\ top' = top + 1 /\ frames # <<>>
      BY <1>1 DEF push
    <3>2. Frame.slots <= top'
      BY <3>1, <1>0, FrameFacts DEF MemoryOK, Slots
    <3> QED BY <3>1, <3>2, <2>2, <1>0, SameFrames
  <2> QED BY <2>1, <2>2, <2>3, <1>P
<1>2. CASE op_pop
  <2>1. MemoryOK'
    BY <1>0, <1>2, FrameFacts DEF op_pop, MemoryOK, Slots
  <2>2. UpvaluesOK' /\ Allocated' = Allocated
    BY <1>0, <1>2, SameUpvalues DEF op_pop
  <2>3. FramesOK'
    <3>1. frames' = frames /\ top' = top - 1 /\ frames # <<>> /\ top > Frame.slots
      BY <1>2 DEF op_pop
    <3>2. Frame.slots <= top'
      BY <3>1, <1>0, FrameFacts DEF MemoryOK, Slots
    <3> QED BY <3>1, <3>2, <2>2, <1>0, SameFrames
  <2> QED BY <2>1, <2>2, <2>3, <1>P
<1>3. ASSUME NEW s \in Slots, op_set_local(s) PROVE TypeOK'
  <2>1. MemoryOK'
    <3>1. top \in Slots
      BY <1>3, <1>0, FrameFacts DEF op_set_local, MemoryOK, Slots
    <3> QED BY <3>1, <1>0, <1>3 DEF op_set_local, MemoryOK
  <2>2. UpvaluesOK' /\ Allocated' = Allocated
    BY <1>0, <1>3, SameUpvalues DEF op_set_local
  <2>3. FramesOK'
    BY <2>2, <1>0, <1>3, SameFrames DEF op_set_local, FramesOK
  <2> QED BY <2>1, <2>2, <2>3, <1>P
<1>4. CASE op_set_upvalue
  <2>1. top \in Slots /\ Frame.upv \in Allocated
    BY <1>4, <1>0, FrameFacts DEF op_set_upvalue, MemoryOK, Slots
  <2>2. MemoryOK'
    BY <2>1, <1>0, <1>4 DEF op_set_upvalue, MemoryOK, UpvaluesOK
  <2>3. UpvaluesOK' /\ Allocated' = Allocated
    <3>1. closed' \in [Allocated -> Vals \cup {NoVal}]
      BY <2>1, <1>0, <1>4 DEF op_set_upvalue, MemoryOK, UpvaluesOK
    <3>2. UNCHANGED <<open, location, captured, heapAbove>> /\ Allocated' = Allocated
      BY <1>4 DEF op_set_upvalue, Allocated
    <3> QED BY <3>1, <3>2, <1>0 DEF UpvaluesOK
  <2>4. FramesOK'
    BY <2>3, <1>0, <1>4, SameFrames DEF op_set_upvalue, FramesOK
  <2> QED BY <2>2, <2>3, <2>4, <1>P
<1>5. ASSUME NEW s \in Slots, NEW v \in Vals, op_closure(s, v) PROVE TypeOK'
  <2>1. MemoryOK'
    BY <1>0, <1>5 DEF op_closure, MemoryOK, Slots
  <2>2. capture_upvalue(s) /\ heapAbove' = heapAbove
    BY <1>5 DEF op_closure
  <2>3. UpvaluesOK' /\ Allocated \subseteq Allocated'
    BY <2>2, <1>0, CaptureTypes DEF UpvaluesOK
  <2>4. FramesOK'
    <3>1. frames' = frames /\ top' = top + 1 /\ frames # <<>>
      BY <1>5 DEF op_closure
    <3>2. Frame.slots <= top'
      BY <3>1, <1>0, FrameFacts DEF MemoryOK, Slots
    <3> QED BY <3>1, <3>2, <2>3, <1>0, SameFrames
  <2> QED BY <2>1, <2>3, <2>4, <1>P
<1>6. CASE op_close_upvalue
  <2>1. /\ frames' = frames /\ frames # <<>> /\ top > Frame.slots /\ top' = top - 1
        /\ stack' = stack /\ open' = open /\ heapAbove' = heapAbove
        /\ captured' \subseteq captured /\ close_upvalues(top)
    BY <1>6 DEF op_close_upvalue, OutOfScope
  <2>2. MemoryOK'
    BY <2>1, <1>0, FrameFacts DEF MemoryOK, Slots
  <2>3. UpvaluesOK' /\ Allocated' = Allocated
    BY <2>1, <1>0, CloseTypes DEF UpvaluesOK
  <2>4. FramesOK'
    <3>1. Frame.slots <= top'
      BY <2>1, <1>0, FrameFacts DEF MemoryOK, Slots
    <3> QED BY <3>1, <2>1, <2>3, <1>0, SameFrames
  <2> QED BY <2>2, <2>3, <2>4, <1>P
<1>7. ASSUME NEW v \in Vals, interpret(v) PROVE TypeOK'
  <2>1. MemoryOK'
    BY <1>0, <1>7 DEF interpret, MemoryOK, Slots
  <2>2. UpvaluesOK' /\ Allocated' = Allocated
    BY <1>0, <1>7, SameUpvalues DEF interpret
  <2>3. FramesOK'
    <3>1. frames' = <<[slots |-> top + 1, upv |-> NoUpv]>> /\ top' = top + 1 /\ top + 1 \in Slots
          /\ 1 <= FramesMax
      BY <1>0, <1>7 DEF interpret, MemoryOK, Slots
    <3> QED BY <3>1 DEF FramesOK, Frame
  <2> QED BY <2>1, <2>2, <2>3, <1>P
<1>8. ASSUME NEW n \in 0..StackMax, NEW u \in Allocated \cup {NoUpv}, call(n, u) PROVE TypeOK'
  <2>1. MemoryOK'
    BY <1>0, <1>8 DEF call, MemoryOK
  <2>2. UpvaluesOK' /\ Allocated' = Allocated
    BY <1>0, <1>8, SameUpvalues DEF call
  <2>3. FramesOK'
    <3> DEFINE f == [slots |-> top - n, upv |-> u]
    <3>1. /\ frames # <<>> /\ Len(frames) < FramesMax /\ top - n > Frame.slots
          /\ frames' = Append(frames, f) /\ top' = top
      BY <1>8 DEF call
    <3>2. f \in [slots : Slots, upv : Allocated' \cup {NoUpv}] /\ f.slots <= top'
      BY <3>1, <2>2, <1>0, FrameFacts DEF MemoryOK, Slots
    <3>3. f.slots > Frame.slots /\ f.slots \in Slots
      BY <3>1, <3>2
    <3> HIDE DEF f
    <3>4. /\ frames' \in Seq([slots : Slots, upv : Allocated' \cup {NoUpv}])
          /\ Len(frames') = Len(frames) + 1 /\ Len(frames) \in Nat
          /\ frames'[Len(frames) + 1] = f
          /\ \A g \in 1..Len(frames) : frames'[g] = frames[g]
      BY <3>1, <3>2, <2>2, <1>0 DEF FramesOK
    <3>5. \A g \in 1..Len(frames) : frames[g].slots \in Slots /\ frames[g].slots <= Frame.slots
      <4> SUFFICES ASSUME NEW g \in 1..Len(frames)
                   PROVE  frames[g].slots \in Slots /\ frames[g].slots <= Frame.slots
        OBVIOUS
      <4>1. g < Len(frames) => frames[g].slots < Frame.slots
        BY <3>1, FrameFacts
      <4>2. g = Len(frames) => frames[g] = Frame
        BY DEF Frame
      <4> QED BY <4>1, <4>2, <3>4, <1>F, <3>1, FrameFacts DEF Slots
    <3>6. \A g, h \in DOMAIN frames' : g < h => frames'[g].slots < frames'[h].slots
      BY <3>3, <3>4, <3>5, <3>1, <1>0, FrameFacts DEF FramesOK, Slots
    <3>7. Frame'.slots <= top'
      BY <3>2, <3>4 DEF Frame
    <3> QED BY <3>1, <3>4, <3>6, <3>7 DEF FramesOK
  <2> QED BY <2>1, <2>2, <2>3, <1>P
<1>9. CASE op_return
  <2>1. /\ frames # <<>> /\ top >= Frame.slots /\ open' = open /\ heapAbove' = heapAbove
        /\ captured' \subseteq captured /\ close_upvalues(Frame.slots)
        /\ frames' = SubSeq(frames, 1, Len(frames) - 1)
    BY <1>9 DEF op_return, OutOfScope
  <2>2. top \in Slots /\ Frame.slots \in Slots
    BY <2>1, <1>0, FrameFacts DEF MemoryOK, Slots
  <2>3. MemoryOK'
    BY <2>2, <1>9, <1>0 DEF op_return, MemoryOK, Slots
  <2>4. UpvaluesOK' /\ Allocated' = Allocated
    BY <2>1, <1>0, CloseTypes DEF UpvaluesOK
  <2>5. FramesOK'
    <3>1. /\ frames' \in Seq([slots : Slots, upv : Allocated' \cup {NoUpv}])
          /\ Len(frames') = Len(frames) - 1 /\ Len(frames) \in Nat
          /\ \A g \in 1..(Len(frames) - 1) : frames'[g] = frames[g]
      BY <2>1, <2>4, <1>0, FrontFacts DEF FramesOK
    <3>2. \A g, h \in DOMAIN frames' : g < h => frames'[g].slots < frames'[h].slots
      <4>1. DOMAIN frames' \subseteq DOMAIN frames
            /\ \A g \in DOMAIN frames' : frames'[g] = frames[g]
        BY <3>1, <1>0 DEF FramesOK
      <4> QED BY <4>1, <1>0 DEF FramesOK
    <3>3. frames' # <<>> => Frame'.slots <= top'
      <4>1. SUFFICES ASSUME frames' # <<>> PROVE Frame'.slots <= top'
        OBVIOUS
      <4>2. Len(frames) # 1 /\ Len(frames) - 1 \in DOMAIN frames
        BY <4>1, <3>1
      <4>3. top' = Frame.slots
        BY <4>2, <1>9 DEF op_return
      <4>4. Frame' = frames[Len(frames) - 1]
        BY <4>2, <3>1 DEF Frame
      <4>5. frames[Len(frames) - 1].slots \in Slots
        BY <4>2, <3>1, <1>F
      <4> QED BY <4>2, <4>3, <4>4, <4>5, <2>1, <2>2, FrameFacts DEF Slots
    <3> QED BY <3>1, <3>2, <3>3, <1>0 DEF FramesOK
  <2> QED BY <2>3, <2>4, <2>5, <1>P
<1>10. CASE runtime_error
  <2>1. MemoryOK'
    BY <1>0, <1>10 DEF runtime_error, MemoryOK
  <2>2. Allocated' = Allocated
    BY <1>10 DEF runtime_error, Allocated
  <2>3. UpvaluesOK'
    BY <2>2, <1>0, <1>10 DEF runtime_error, UpvaluesOK
  <2>4. FramesOK'
    BY <1>10 DEF runtime_error, FramesOK
  <2> QED BY <2>1, <2>3, <2>4, <1>P
<1>11. CASE UNCHANGED vars
  BY <1>11 DEF vars, TypeOK, Allocated, Frame
<1> QED BY <1>1, <1>2, <1>3, <1>4, <1>5, <1>6, <1>7, <1>8, <1>9, <1>10, <1>11 DEF Next

-----------------------------------------------------------------------------
(* Sharing and order.                                                      *)

Sharing == InScopeIsOpen /\ VisibleIsSorted /\ SharedAbove /\ CapturedInv

\* The steps that neither close nor capture.
LEMMA QuietStep ==
  ASSUME Sharing, UNCHANGED <<open, location, captured, heapAbove>>,
         \A c \in captured : c[1] <= top'
  PROVE  Sharing'
<1>1. InScopeIsOpen'
  BY DEF Sharing, InScopeIsOpen
<1>2. Visible' = Visible
  BY DEF Visible, Above
<1>3. VisibleIsSorted'
  BY <1>2 DEF Sharing, VisibleIsSorted
<1>4. SharedAbove' /\ CapturedInv'
  BY DEF Sharing, SharedAbove, CapturedInv
<1> QED BY <1>1, <1>3, <1>4 DEF Sharing

\* A walk that closes what lies above a takes no captured variable that stays in
\* scope, and keeps the order of what can still be seen.
LEMMA CloseStep ==
  ASSUME TypeOK, Sharing, NEW a \in Nat, close_upvalues(a), UNCHANGED <<open, heapAbove>>,
         captured' \subseteq captured,
         \A c \in captured' : c[1] <= a /\ c[1] <= top'
  PROVE  Sharing'
<1>1. /\ open \in Seq(Allocated) /\ captured \in SUBSET (Slots \X Allocated)
      /\ location \in [Allocated -> Slots \cup {Closed}]
  BY DEF TypeOK
<1>2. \A u \in Allocated : location'[u] = IF u \in Passed(a) THEN Closed ELSE location[u]
  BY CloseFacts
<1>3. \A q \in DOMAIN open : open[q] \in Allocated
  BY <1>1
<1>4. InScopeIsOpen'
  <2> SUFFICES ASSUME NEW c \in captured' PROVE location'[c[2]] = c[1]
    BY DEF InScopeIsOpen
  <2>1. c[1] \in Slots /\ c[2] \in Allocated /\ location[c[2]] = c[1] /\ c[1] <= a
    BY <1>1 DEF Sharing, InScopeIsOpen
  <2>2. ~Above(c[2], a)
    BY <2>1 DEF Above, Slots, Closed
  <2>3. c[2] \notin Passed(a)
    BY <2>2, <1>1, StopFacts DEF Passed
  <2> QED BY <2>1, <2>3, <1>2
<1>5. VisibleIsSorted'
  <2> SUFFICES ASSUME NEW p \in Visible', NEW q \in Visible', p < q,
                      location'[open[p]] # Closed, location'[open[q]] # Closed
               PROVE  location'[open[p]] > location'[open[q]]
    BY DEF VisibleIsSorted
  <2>1. p \in DOMAIN open /\ q \in DOMAIN open
    BY DEF Visible
  <2>2. \A r \in DOMAIN open : Above(open[r], 0)' => Above(open[r], 0)
    BY <1>1, <1>2, <1>3 DEF Above, Slots, Closed
  <2>3. \A m \in DOMAIN open : \A r \in 1..m : r \in DOMAIN open
    BY <1>1
  <2>4. p \in Visible /\ q \in Visible
    BY <2>1, <2>2, <2>3 DEF Visible
  <2>5. location'[open[p]] = location[open[p]] /\ location'[open[q]] = location[open[q]]
    BY <1>2, <1>3, <2>1
  <2> QED BY <2>4, <2>5 DEF Sharing, VisibleIsSorted
<1>6. SharedAbove'
  BY DEF Sharing, SharedAbove
<1>7. CapturedInv'
  BY DEF Sharing, CapturedInv
<1> QED BY <1>4, <1>5, <1>6, <1>7 DEF Sharing

\* Where every upvalue can be seen, the walk for the slot of a captured variable
\* in scope stops at its upvalue.
LEMMA CaptureFinds ==
  ASSUME TypeOK, Sharing, heapAbove, NEW c \in captured
  PROVE  /\ Stop(c[1]) <= Len(open)
         /\ open[Stop(c[1])] = c[2]
<1> DEFINE s == c[1]
           n == Stop(s)
<1>1. /\ open \in Seq(Allocated) /\ location \in [Allocated -> Slots \cup {Closed}]
      /\ s \in Slots /\ location[c[2]] = s
  BY DEF TypeOK, Sharing, InScopeIsOpen
<1>2. PICK p \in DOMAIN open : open[p] = c[2]
  BY DEF Sharing, CapturedInv
<1>3. /\ n \in 1..(Len(open) + 1) /\ (n <= Len(open) => ~Above(open[n], s))
      /\ \A q \in 1..(n - 1) : Above(open[q], s)
  BY <1>1, StopFacts
<1> HIDE DEF n
<1>4. \A q \in DOMAIN open : open[q] \in Allocated
  BY <1>1
<1>5. ~Above(open[p], s)
  BY <1>1, <1>2 DEF Above, Slots, Closed
<1>6. n <= p /\ n \in DOMAIN open
  BY <1>1, <1>2, <1>3, <1>5
<1>7. Visible = DOMAIN open
  <2>1. \A u \in Allocated : Above(u, 0)
    BY <1>1 DEF Above, Slots, Closed
  <2>2. \A m \in DOMAIN open : \A r \in 1..m : r \in DOMAIN open
    BY <1>1
  <2> QED BY <2>1, <2>2, <1>4 DEF Visible
<1>8. location[open[n]] # Closed /\ location[open[n]] <= s /\ location[open[n]] \in Slots
  <2>1. ~Above(open[n], s) /\ open[n] \in Allocated
    BY <1>1, <1>3, <1>4, <1>6
  <2> QED BY <2>1, <1>1 DEF Above, Slots, Closed
<1>9. n = p
  <2> SUFFICES ASSUME n < p PROVE FALSE
    BY <1>1, <1>2, <1>6
  <2>1. location[open[n]] > location[open[p]]
    BY <1>1, <1>2, <1>6, <1>7, <1>8 DEF Sharing, VisibleIsSorted, Slots, Closed
  <2> QED BY <2>1, <1>1, <1>2, <1>8 DEF Slots
<1> QED BY <1>1, <1>2, <1>6, <1>9 DEF n

\* A capture keeps the list sorted, and finds the upvalue the variable may have.
LEMMA CaptureStep ==
  ASSUME TypeOK, Sharing, NEW s \in Slots, capture_upvalue(s), heapAbove' = heapAbove,
         top \in Int, top' \in Int, s <= top', top <= top'
  PROVE  Sharing'
<1>0. PICK n : n = Stop(s)
  OBVIOUS
<1> DEFINE found == n <= Len(open) /\ location[open[n]] = s
<1>1. /\ open \in Seq(Allocated) /\ Allocated \subseteq Upvs
      /\ location \in [Allocated -> Slots \cup {Closed}]
      /\ captured \in SUBSET (Slots \X Allocated)
  BY DEF TypeOK
<1>2. /\ n \in 1..(Len(open) + 1) /\ (n <= Len(open) => ~Above(open[n], s))
      /\ \A q \in 1..(n - 1) : Above(open[q], s)
  BY <1>0, <1>1, StopFacts
<1>3. \A c \in captured : c[1] <= top'
  <2>1. \A c \in captured : c[1] \in Int /\ c[1] <= top
    BY <1>1 DEF Sharing, CapturedInv, Slots
  <2> QED BY <2>1
<1>4. heapAbove => \A c \in captured : c[1] = s => found /\ c[2] = open[n]
  <2> SUFFICES ASSUME heapAbove, NEW c \in captured, c[1] = s PROVE found /\ c[2] = open[n]
    OBVIOUS
  <2>1. Stop(c[1]) <= Len(open) /\ open[Stop(c[1])] = c[2]
    BY CaptureFinds
  <2>2. location[c[2]] = c[1]
    BY DEF Sharing, InScopeIsOpen
  <2> QED BY <2>1, <2>2, <1>0
<1>5. \A q \in DOMAIN open : open[q] \in Allocated
  BY <1>1
<1>6. CASE found
  <2>1. /\ captured' = captured \cup {<<s, open[n]>>} /\ n \in DOMAIN open
        /\ open' = open /\ location' = location
    BY <1>0, <1>1, <1>2, <1>6 DEF capture_upvalue
  <2>2. InScopeIsOpen'
    BY <2>1, <1>6 DEF Sharing, InScopeIsOpen
  <2>3. VisibleIsSorted'
    <3>1. Visible' = Visible
      BY <2>1 DEF Visible, Above
    <3> QED BY <3>1, <2>1 DEF Sharing, VisibleIsSorted
  <2>4. SharedAbove'
    BY <2>1, <1>4 DEF Sharing, SharedAbove
  <2>5. CapturedInv'
    BY <2>1, <1>3 DEF Sharing, CapturedInv
  <2> QED BY <2>2, <2>3, <2>4, <2>5 DEF Sharing
<1>7. CASE ~found
  <2>1. PICK u \in Upvs \ Allocated :
          /\ open' = InsertAt(open, n, u)
          /\ location' = [x \in Allocated \cup {u} |-> IF x = u THEN s ELSE location[x]]
          /\ captured' = captured \cup {<<s, u>>}
    BY <1>0, <1>7 DEF capture_upvalue, new_upvalue
  <2>2. /\ open \in Seq(Allocated \cup {u}) /\ u \in Allocated \cup {u}
    BY <1>1
  <2>3. /\ open' \in Seq(Allocated \cup {u}) /\ Len(open') = Len(open) + 1 /\ open'[n] = u
        /\ \A q \in 1..(n - 1) : open'[q] = open[q]
        /\ \A q \in (n + 1)..(Len(open) + 1) : open'[q] = open[q - 1]
    <3> DEFINE A == Allocated \cup {u}
    <3>1. open \in Seq(A) /\ u \in A
      BY <2>2
    <3>2. open' = InsertAt(open, n, u)
      BY <2>1
    <3> HIDE DEF A
    <3>3. /\ InsertAt(open, n, u) \in Seq(A)
          /\ Len(InsertAt(open, n, u)) = Len(open) + 1
          /\ InsertAt(open, n, u)[n] = u
      BY <3>1, <1>2, InsertFacts
    <3>4. \A q \in 1..(n - 1) : InsertAt(open, n, u)[q] = open[q]
      BY <3>1, <1>2, InsertFacts
    <3>5. \A q \in (n + 1)..(Len(open) + 1) : InsertAt(open, n, u)[q] = open[q - 1]
      BY <3>1, <1>2, InsertFacts
    <3> QED BY <3>2, <3>3, <3>4, <3>5 DEF A
  <2>4. location'[u] = s /\ \A x \in Allocated : location'[x] = location[x] /\ x # u
    BY <2>1
  <2>5. Len(open) \in Nat /\ DOMAIN open = 1..Len(open) /\ DOMAIN open' = 1..(Len(open) + 1)
    BY <1>1, <2>3
  <2>6. InScopeIsOpen'
    BY <2>1, <2>4, <1>1 DEF Sharing, InScopeIsOpen
  <2>7. SharedAbove'
    BY <2>1, <1>4, <1>7 DEF Sharing, SharedAbove
  <2>8. CapturedInv'
    <3>2. \A c \in captured : \E q \in DOMAIN open' : open'[q] = c[2]
      <4> SUFFICES ASSUME NEW c \in captured PROVE \E q \in DOMAIN open' : open'[q] = c[2]
        OBVIOUS
      <4>1. PICK q \in DOMAIN open : open[q] = c[2]
        BY DEF Sharing, CapturedInv
      <4>2. CASE q < n
        BY <4>1, <4>2, <2>3, <2>5, <1>2
      <4>3. CASE q >= n
        <5>1. q + 1 \in DOMAIN open' /\ open'[q + 1] = open[q]
          BY <4>3, <2>3, <2>5, <1>2
        <5> QED BY <5>1, <4>1
      <4> QED BY <4>2, <4>3, <2>5, <1>2
    <3>3. n \in DOMAIN open' /\ open'[n] = u
      BY <2>3, <2>5, <1>2
    <3> SUFFICES ASSUME NEW c \in captured'
                 PROVE  c[1] <= top' /\ \E q \in DOMAIN open' : open'[q] = c[2]
      BY DEF CapturedInv
    <3>4. CASE c \in captured
      BY <3>4, <1>3, <3>2
    <3>5. CASE c = <<s, u>>
      BY <3>5, <3>3
    <3> QED BY <3>4, <3>5, <2>1
  <2>9. VisibleIsSorted'
    <3> DEFINE old(q) == IF q < n THEN q ELSE q - 1
    <3>1. \A q \in DOMAIN open' : q # n =>
            /\ old(q) \in DOMAIN open /\ open'[q] = open[old(q)]
            /\ location'[open'[q]] = location[open[old(q)]]
            /\ location[open[old(q)]] \in Slots \cup {Closed}
      <4> SUFFICES ASSUME NEW q \in DOMAIN open', q # n
                   PROVE  /\ old(q) \in DOMAIN open /\ open'[q] = open[old(q)]
                          /\ location'[open'[q]] = location[open[old(q)]]
                          /\ location[open[old(q)]] \in Slots \cup {Closed}
        OBVIOUS
      <4>1. old(q) \in DOMAIN open /\ open'[q] = open[old(q)]
        BY <2>3, <2>5, <1>2
      <4>2. open[old(q)] \in Allocated
        BY <4>1, <1>5
      <4> QED BY <4>1, <4>2, <2>4, <1>1
    <3>2. \A q \in Visible' : q \in DOMAIN open' /\ \A r \in 1..q : r \in DOMAIN open' /\ Above(open[r], 0)'
      BY <2>5 DEF Visible
    <3>3. \A x \in Allocated : Above(x, 0)' = Above(x, 0)
      BY <2>4 DEF Above
    <3>4. ASSUME NEW q \in Visible', q # n PROVE old(q) \in Visible
      <4>1. old(q) \in DOMAIN open /\ q \in DOMAIN open'
        BY <3>1, <3>2, <3>4
      <4>2. ASSUME NEW r \in 1..old(q) PROVE Above(open[r], 0)
        <5>1. r \in DOMAIN open /\ open[r] \in Allocated
          BY <4>1, <4>2, <2>5, <1>5
        <5>2. CASE r < n
          <6>1. r \in 1..q /\ open'[r] = open[r]
            BY <5>2, <4>1, <4>2, <2>3, <2>5, <1>2
          <6> QED BY <6>1, <5>1, <3>2, <3>3
        <5>3. CASE r >= n
          <6>1. r + 1 \in 1..q /\ open'[r + 1] = open[r]
            BY <5>3, <5>1, <4>1, <4>2, <3>4, <2>3, <2>5, <1>2
          <6> QED BY <6>1, <5>1, <3>2, <3>3
        <5> QED BY <5>2, <5>3, <5>1, <2>5, <1>2
      <4> QED BY <4>1, <4>2 DEF Visible
    <3> SUFFICES ASSUME NEW p \in Visible', NEW q \in Visible', p < q,
                        location'[open'[p]] # Closed, location'[open'[q]] # Closed
                 PROVE  location'[open'[p]] > location'[open'[q]]
      BY DEF VisibleIsSorted
    <3>5. CASE p # n /\ q # n
      <4>1. old(p) < old(q)
        BY <3>5, <3>2, <2>5, <1>2
      <4> QED BY <4>1, <3>1, <3>2, <3>4, <3>5 DEF Sharing, VisibleIsSorted
    <3>6. CASE q = n
      <4>1. p \in 1..(n - 1) /\ open'[p] = open[p] /\ open[p] \in Allocated /\ Above(open[p], s)
        BY <3>6, <3>2, <2>3, <2>5, <1>2, <1>5
      <4>2. location'[open'[p]] = location[open[p]]
        BY <4>1, <2>4
      <4>3. location[open[p]] > s
        BY <4>1, <4>2 DEF Above
      <4> QED BY <4>2, <4>3, <3>6, <2>3, <2>4
    <3>7. CASE p = n
      <4>1. /\ q \in DOMAIN open' /\ q # n /\ old(q) = q - 1 /\ n <= Len(open)
            /\ open[n] \in Allocated /\ n + 1 \in 1..q /\ n \in DOMAIN open
        BY <3>7, <3>2, <2>5, <1>2, <1>5
      <4>2. ~Above(open[n], s) /\ location[open[n]] # s
        BY <4>1, <1>2, <1>7
      <4>3. Above(open[n], 0)
        <5>1. open'[n + 1] = open[n + 1 - 1] /\ n + 1 - 1 = n
          BY <4>1, <2>3, <2>5, <1>2
        <5>2. Above(open[n + 1], 0)'
          BY <4>1, <3>2
        <5> QED BY <5>1, <5>2, <4>1, <3>3
      <4>4. location[open[n]] # Closed /\ location[open[n]] < s
        BY <4>1, <4>2, <4>3, <1>1 DEF Above, Slots, Closed
      <4>5. location[open[old(q)]] <= location[open[n]]
        <5>1. CASE old(q) = n
          BY <5>1, <4>1, <1>1 DEF Slots, Closed
        <5>2. CASE old(q) # n
          <6>1. n < old(q) /\ old(q) \in Visible
            BY <5>2, <4>1, <3>4, <2>5, <1>2
          <6>2. n \in Visible
            <7>1. \A r \in 1..n : r \in 1..old(q)
              BY <6>1, <4>1, <1>2, <2>5
            <7> QED BY <7>1, <6>1, <4>1 DEF Visible
          <6>3. location[open[n]] > location[open[old(q)]]
            BY <6>1, <6>2, <4>1, <4>4, <3>1 DEF Sharing, VisibleIsSorted
          <6> QED BY <6>3, <4>1, <3>1, <1>1 DEF Slots, Closed
        <5> QED BY <5>1, <5>2
      <4> QED BY <4>1, <4>4, <4>5, <3>1, <3>7, <2>3, <2>4, <1>1 DEF Slots, Closed
    <3> QED BY <3>5, <3>6, <3>7
  <2> QED BY <2>6, <2>7, <2>8, <2>9 DEF Sharing
<1> QED BY <1>6, <1>7

-----------------------------------------------------------------------------
(* The theorems.                                                           *)

\* Nothing is captured at first.
LEMMA InitSharing == Init => Sharing
BY DEF Init, Sharing, InScopeIsOpen, VisibleIsSorted, Visible, SharedAbove, CapturedInv

\* Every step keeps captured variables shared.
LEMMA SharingStep ==
  ASSUME TypeOK, Sharing, [Next]_vars
  PROVE  Sharing'
<1> USE StackAssumption
<1>0. /\ captured \in SUBSET (Slots \X Allocated) /\ top \in 0..StackMax
      /\ \A c \in captured : c[1] \in Slots /\ c[1] <= top
  BY DEF TypeOK, Sharing, CapturedInv
<1>1. ASSUME NEW v \in Vals, push(v) \/ interpret(v) PROVE Sharing'
  <2>1. UNCHANGED <<open, location, captured, heapAbove>> /\ top' = top + 1
    BY <1>1 DEF push, interpret
  <2> QED BY <2>1, <1>0, QuietStep DEF Slots
<1>2. CASE op_pop
  <2>1. UNCHANGED <<open, location, captured, heapAbove>> /\ top' = top - 1 /\ ~IsCaptured(top)
    BY <1>2 DEF op_pop
  <2>2. \A c \in captured : c[1] <= top'
    BY <2>1, <1>0 DEF IsCaptured, Slots
  <2> QED BY <2>1, <2>2, QuietStep
<1>3. ASSUME NEW s \in Slots, op_set_local(s) PROVE Sharing'
  BY <1>3, <1>0, QuietStep DEF op_set_local
<1>4. CASE op_set_upvalue
  BY <1>4, <1>0, QuietStep DEF op_set_upvalue
<1>5. ASSUME NEW n, NEW u, call(n, u) PROVE Sharing'
  BY <1>5, <1>0, QuietStep DEF call
<1>6. ASSUME NEW s \in Slots, NEW v \in Vals, op_closure(s, v) PROVE Sharing'
  <2>1. capture_upvalue(s) /\ heapAbove' = heapAbove /\ top' = top + 1 /\ s <= top + 1
    BY <1>6, <1>0, FrameFacts DEF op_closure, Slots
  <2> QED BY <2>1, <1>0, CaptureStep
<1>7. CASE op_close_upvalue
  <2>1. /\ close_upvalues(top) /\ UNCHANGED <<open, heapAbove>> /\ top' = top - 1
        /\ captured' = OutOfScope({top})
    BY <1>7 DEF op_close_upvalue
  <2>2. captured' \subseteq captured /\ \A c \in captured' : c[1] <= top /\ c[1] <= top'
    BY <2>1, <1>0 DEF OutOfScope, Slots
  <2> QED BY <2>1, <2>2, <1>0, CloseStep
<1>8. CASE op_return
  <2>1. /\ close_upvalues(Frame.slots) /\ UNCHANGED <<open, heapAbove>> /\ frames # <<>>
        /\ captured' = OutOfScope(Frame.slots..StackMax) /\ top >= Frame.slots
        /\ top' \in {top - 1, Frame.slots}
    BY <1>8 DEF op_return
  <2>2. Frame.slots \in Slots
    BY <2>1, FrameFacts
  <2>3. /\ captured' \subseteq captured
        /\ \A c \in captured' : c[1] <= Frame.slots /\ c[1] <= top'
    BY <2>1, <2>2, <1>0 DEF OutOfScope, Slots
  <2>4. Frame.slots \in Nat
    BY <2>2 DEF Slots
  <2> QED BY <2>1, <2>3, <2>4, CloseStep
<1>9. CASE runtime_error
  BY <1>9 DEF runtime_error, Sharing, InScopeIsOpen, VisibleIsSorted, Visible, SharedAbove,
              CapturedInv
<1>10. CASE UNCHANGED vars
  BY <1>10, <1>0, QuietStep DEF vars
<1> QED BY <1>1, <1>2, <1>3, <1>4, <1>5, <1>6, <1>7, <1>8, <1>9, <1>10 DEF Next

\* For every run of the machine: types; a captured variable in scope and its
\* upvalue share a slot; the visible list is sorted; and where the heap lies
\* above the stack a variable has one upvalue, whoever captures it.
THEOREM CapturedVariablesAreShared ==
  Spec => [](TypeOK /\ InScopeIsOpen /\ VisibleIsSorted /\ SharedAbove)
<1>1. Init => TypeOK /\ Sharing
  BY InitTypes, InitSharing
<1>2. TypeOK /\ Sharing /\ [Next]_vars => TypeOK' /\ Sharing'
  BY TypeStep, SharingStep
<1>3. TypeOK /\ Sharing => TypeOK /\ InScopeIsOpen /\ VisibleIsSorted /\ SharedAbove
  BY DEF Sharing
<1> QED BY <1>1, <1>2, <1>3, PTL DEF Spec

\* Types and sharing hold in every reachable state.
LEMMA SharingInvariant == Spec => [](TypeOK /\ Sharing)
<1>1. Init => TypeOK /\ Sharing
  BY InitTypes, InitSharing
<1>2. TypeOK /\ Sharing /\ [Next]_vars => TypeOK' /\ Sharing'
  BY TypeStep, SharingStep
<1> QED BY <1>1, <1>2, PTL DEF Spec

\* The walk of a return closes the upvalues of the callee's locals above slot 0.
LEMMA ReturnStep ==
  ASSUME TypeOK, Sharing, op_return, heapAbove, NEW c \in captured, c[1] > Frame.slots
  PROVE  location'[c[2]] = Closed /\ closed'[c[2]] = Value(c[2])
<1> DEFINE a == Frame.slots
           n == Stop(a)
           m == Stop(c[1])
<1>1. /\ open \in Seq(Allocated) /\ location \in [Allocated -> Slots \cup {Closed}]
      /\ c[1] \in Slots /\ c[2] \in Allocated /\ location[c[2]] = c[1]
  BY DEF TypeOK, Sharing, InScopeIsOpen
<1>2. a \in Slots
  BY FrameFacts DEF op_return
<1>3. m <= Len(open) /\ open[m] = c[2]
  BY CaptureFinds
<1>4. m \in 1..(Len(open) + 1) /\ \A q \in 1..(m - 1) : Above(open[q], c[1])
  BY <1>1, StopFacts
<1>5. /\ n \in 1..(Len(open) + 1) /\ (n <= Len(open) => ~Above(open[n], a))
  BY <1>1, StopFacts
<1> HIDE DEF a, n, m
<1>6. \A q \in 1..m : Above(open[q], a)
  <2> SUFFICES ASSUME NEW q \in 1..m PROVE Above(open[q], a)
    OBVIOUS
  <2>1. open[q] \in Allocated /\ a < c[1]
    BY <1>1, <1>3, <1>4 DEF a
  <2>2. CASE q = m
    BY <2>1, <2>2, <1>1, <1>2, <1>3 DEF Above, Slots, Closed
  <2>3. CASE q # m
    <3>1. Above(open[q], c[1])
      BY <2>3, <1>4
    <3> QED BY <3>1, <2>1, <1>1, <1>2 DEF Above, Slots, Closed
  <2> QED BY <2>2, <2>3
<1>7. m \in 1..(n - 1)
  BY <1>1, <1>3, <1>4, <1>5, <1>6
<1>8. c[2] \in Passed(a)
  BY <1>3, <1>7 DEF Passed, n
<1>9. close_upvalues(a)
  BY DEF op_return, a
<1> QED BY <1>1, <1>8, <1>9, CloseFacts

\* It stops short of slot 0, whose upvalue stays open on the slot of the result.
LEMMA ReturnSelfStep ==
  ASSUME TypeOK, Sharing, op_return, Len(frames) > 1, NEW c \in captured, c[1] = Frame.slots
  PROVE  location'[c[2]] = c[1] /\ stack'[c[1]] = stack[top]
<1> DEFINE a == Frame.slots
           n == Stop(a)
<1>1. /\ open \in Seq(Allocated) /\ location \in [Allocated -> Slots \cup {Closed}]
      /\ c[1] \in Slots /\ c[2] \in Allocated /\ location[c[2]] = c[1]
  <2>1. c \in Slots \X Allocated
    BY DEF TypeOK
  <2> QED BY <2>1 DEF TypeOK, Sharing, InScopeIsOpen
<1>2. c[1] = a /\ a \in Slots
  <2>1. c[1] = a
    OBVIOUS
  <2> QED BY <1>1, <2>1
<1>3. n \in 1..(Len(open) + 1) /\ \A q \in 1..(n - 1) : Above(open[q], a)
  BY <1>1, StopFacts
<1>4. close_upvalues(a) /\ stack' = [stack EXCEPT ![a] = stack[top]]
  <2>1. Len(frames) # 1
    BY DEF TypeOK
  <2> QED BY <2>1 DEF op_return
<1>5. c[2] \notin Passed(a)
  <2>1. Passed(a) = {open[q] : q \in 1..(n - 1)}
    BY DEF Passed
  <2> HIDE DEF a, n
  <2>2. ~Above(c[2], a)
    BY <1>1, <1>2 DEF Above, Slots, Closed
  <2> QED BY <1>3, <2>1, <2>2
<1>6. location'[c[2]] = location[c[2]]
  BY <1>1, <1>4, <1>5 DEF close_upvalues
<1>7. stack'[a] = stack[top]
  BY <1>2, <1>4 DEF TypeOK
<1> QED BY <1>1, <1>2, <1>6, <1>7

\* A return closes the captured locals of its function over their last values,
\* where the heap lies above the stack; slot 0, the self of a method, it leaves
\* open on the slot that takes the result.
THEOREM ReturnsCloseLocals == Spec => ReturnClosesAllButSelf
<1>1. TypeOK /\ Sharing /\ [Next]_vars =>
        [op_return =>
           \A c \in captured :
             /\ heapAbove /\ c[1] > Frame.slots =>
                  location'[c[2]] = Closed /\ closed'[c[2]] = Value(c[2])
             /\ c[1] = Frame.slots /\ Len(frames) > 1 =>
                  location'[c[2]] = c[1] /\ stack'[c[1]] = stack[top]]_vars
  BY ReturnStep, ReturnSelfStep
<1> QED BY <1>1, SharingInvariant, PTL DEF Spec, ReturnClosesAllButSelf

\* The part of the list of upvalues that capture_upvalue and close_upvalues walk
\* is sorted by location, which both rely on to stop.
THEOREM WalksMayStop == Spec => []VisibleIsSorted
<1> QED BY CapturedVariablesAreShared, PTL

\* The frames start at ascending slots below the top, and an upvalue's location is
\* a slot of the stack or its own value.
THEOREM UpvaluesAreTyped == Spec => []TypeOK
<1> QED BY CapturedVariablesAreShared, PTL

\* Where the heap lies above the stack, no variable has two upvalues.
THEOREM OneUpvalueEach == Spec => []SharedAbove
<1> QED BY CapturedVariablesAreShared, PTL

\* A step leaves a closed upvalue closed, and its value alone unless the running
\* closure captured it and assigns to it: closing it again gives it its own value,
\* and a new upvalue has another address.
LEMMA PrivateStep ==
  ASSUME TypeOK, [Next]_vars, NEW u \in Allocated, location[u] = Closed
  PROVE  location'[u] = Closed /\ (closed'[u] # closed[u] => op_set_upvalue /\ Frame.upv = u)
<1> DEFINE P == location'[u] = Closed /\ (closed'[u] # closed[u] => op_set_upvalue /\ Frame.upv = u)
<1>1. ASSUME UNCHANGED <<location, closed>> PROVE P
  BY <1>1
<1>2. ASSUME NEW a, close_upvalues(a) PROVE P
  <2>1. Value(u) = closed[u]
    BY DEF Value
  <2> QED BY <2>1, <1>2, CloseFacts
<1>3. ASSUME NEW s \in Slots, capture_upvalue(s) PROVE P
  <2>1. CASE UNCHANGED <<location, closed>>
    BY <2>1, <1>1
  <2>2. CASE new_upvalue(s, Stop(s))
    BY <2>2 DEF new_upvalue
  <2> QED BY <2>1, <2>2, <1>3 DEF capture_upvalue
<1>4. CASE op_set_upvalue
  <2>1. location' = location
    BY <1>4 DEF op_set_upvalue
  <2>2. CASE Frame.upv = u
    BY <2>1, <2>2, <1>4
  <2>3. CASE Frame.upv # u
    <3>1. closed'[u] = closed[u]
      BY <2>3, <1>4 DEF op_set_upvalue, TypeOK
    <3> QED BY <2>1, <3>1
  <2> QED BY <2>2, <2>3
<1>5. CASE UNCHANGED vars
  BY <1>5, <1>1 DEF vars
<1>6. ASSUME NEW v \in Vals, push(v) \/ interpret(v) PROVE P
  BY <1>6, <1>1 DEF push, interpret
<1>7. CASE op_pop \/ runtime_error
  BY <1>7, <1>1 DEF op_pop, runtime_error
<1>8. ASSUME NEW s \in Slots, op_set_local(s) PROVE P
  BY <1>8, <1>1 DEF op_set_local
<1>9. ASSUME NEW s \in Slots, NEW v \in Vals, op_closure(s, v) PROVE P
  BY <1>9, <1>3 DEF op_closure
<1>10. ASSUME NEW n, NEW w, call(n, w) PROVE P
  BY <1>10, <1>1 DEF call
<1>11. CASE op_close_upvalue \/ op_return
  BY <1>11, <1>2 DEF op_close_upvalue, op_return
<1> QED BY <1>4, <1>5, <1>6, <1>7, <1>8, <1>9, <1>10, <1>11 DEF Next

\* A variable closed over belongs to the closures that captured it: nothing that
\* the stack does afterwards reaches it.
THEOREM ClosedStaysPrivate == Spec => ClosedIsPrivate
<1>1. TypeOK /\ [Next]_vars =>
        [\A u \in Allocated : location[u] = Closed =>
           /\ location'[u] = Closed
           /\ closed'[u] # closed[u] => op_set_upvalue /\ Frame.upv = u]_vars
  BY PrivateStep
<1> QED BY <1>1, SharingInvariant, PTL DEF Spec, ClosedIsPrivate
=============================================================================

------------------------------- MODULE Lists -------------------------------
(***************************************************************************)
(* What a script relies on its vectors for: each is a sequence of its own, *)
(* changed by its own operations only, and every operation answers what    *)
(* the sequence says.  Nothing here mentions capacity, blocks or copying;  *)
(* Vec is shown to implement this module.  An operation that needs memory  *)
(* may end the process instead, and so may a release.                      *)
(***************************************************************************)
EXTENDS Integers, Sequences, SequencesExt

CONSTANTS
  Vecs,     \* the Vec objects
  Elements, \* the values a script stores
  LiteralMax, \* the most elements of a vector literal
  NoList    \* an object that is not there

VARIABLES
  lists,    \* for each Vec object, its elements in order, or NoList
  answer,   \* what the last operation answered
  ended     \* the process has panicked

vars == <<lists, answer, ended>>

Exists(v) == ~ended /\ lists[v] # NoList
Change(v, list) == lists' = [lists EXCEPT ![v] = list]
Answers(a) == answer' = a /\ UNCHANGED ended
Within(v, i) == i \in 0..Len(lists[v]) - 1

Init == lists = [v \in Vecs |-> NoList] /\ answer = <<"null">> /\ ended = FALSE

New(v, list) == ~ended /\ lists[v] = NoList /\ Change(v, list) /\ Answers(<<"null">>)
Release(v) == Exists(v) /\ Change(v, NoList) /\ Answers(<<"null">>)
Push(v, e) == Exists(v) /\ Change(v, Append(lists[v], e)) /\ Answers(<<"null">>)
Pop(v) ==
  /\ Exists(v) /\ lists[v] # <<>>
  /\ Change(v, Front(lists[v])) /\ Answers(<<"value", Last(lists[v])>>)
First(v) == Exists(v) /\ lists[v] # <<>> /\ Answers(<<"value", Head(lists[v])>>) /\ UNCHANGED lists
LastOf(v) == Exists(v) /\ lists[v] # <<>> /\ Answers(<<"value", Last(lists[v])>>) /\ UNCHANGED lists
Length(v) == Exists(v) /\ Answers(<<"len", Len(lists[v])>>) /\ UNCHANGED lists
Get(v, i) ==
  Exists(v) /\ Within(v, i) /\ Answers(<<"value", lists[v][i + 1]>>) /\ UNCHANGED lists
Set(v, i, e) ==
  /\ Exists(v) /\ Within(v, i)
  /\ Change(v, [lists[v] EXCEPT ![i + 1] = e]) /\ Answers(<<"null">>)
Insert(v, i, e) ==
  /\ Exists(v) /\ i \in 0..Len(lists[v])
  /\ Change(v, InsertAt(lists[v], i + 1, e)) /\ Answers(<<"null">>)
Delete(v, i) ==
  Exists(v) /\ Within(v, i) /\ Change(v, RemoveAt(lists[v], i + 1)) /\ Answers(<<"null">>)
Extend(v, w) ==
  Exists(v) /\ Exists(w) /\ Change(v, lists[v] \o lists[w]) /\ Answers(<<"null">>)
Clear(v) == Exists(v) /\ Change(v, <<>>) /\ Answers(<<"null">>)
Mirror(v) == Exists(v) /\ Change(v, Reverse(lists[v])) /\ Answers(<<"null">>)
Sum(u, v, w) == Exists(v) /\ Exists(w) /\ New(u, lists[v] \o lists[w])
Equal(v, w) ==
  Exists(v) /\ Exists(w) /\ Answers(<<"equal", lists[v] = lists[w]>>) /\ UNCHANGED lists
(* An index outside the sequence, or a wrong argument                      *)
Refuse == Answers(<<"error">>) /\ ~ended /\ UNCHANGED lists
End ==
  /\ ~ended /\ ended' = TRUE
  /\ lists' = [v \in Vecs |-> NoList] /\ answer' = <<"null">>

Next ==
  \/ Refuse
  \/ End
  \/ \E v \in Vecs :
       /\ Exists(v)
       /\ \/ First(v) \/ LastOf(v) \/ Length(v) \/ Pop(v) \/ Clear(v) \/ Mirror(v) \/ Release(v)
          \/ \E w \in Vecs : Equal(v, w) \/ Extend(v, w)
          \/ \E e \in Elements : Push(v, e)
          \/ \E i \in 0..Len(lists[v]) :
               Get(v, i) \/ Delete(v, i) \/ \E e \in Elements : Set(v, i, e) \/ Insert(v, i, e)
  \/ \E v \in Vecs :
       /\ ~Exists(v)
       /\ \/ \E list \in BoundedSeq(Elements, LiteralMax) : New(v, list)
          \/ \E w, u \in Vecs : Sum(v, w, u)

Spec == Init /\ [][Next]_vars
=============================================================================

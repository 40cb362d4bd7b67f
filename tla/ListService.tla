----------------------------- MODULE ListService -----------------------------
(***************************************************************************)
(* A list as no_os_list.h and the comments of no_os_list.c describe it: a   *)
(* sequence, four things to do (add, edit, read, get) at five places (first, *)
(* last, an index, a value, an iterator), and the position of the iterator.  *)
(* A call that names no element reports an error.                            *)
(***************************************************************************)
EXTENDS Integers, SequencesExt

CONSTANTS Data,    \* numbers, ordered by the comparator
          MaxIdx   \* bound: indices and steps

VARIABLES seq,     \* the data in the list
          pos,     \* position of the iterator, 0 when it is on no element
          call,    \* the last call: what, where, index, data
          res      \* and its result

Failed == -1
Done == 0
Stopped == -3     \* no answer: the call did not return

Init == seq = <<>> /\ pos = 0 /\ call = <<"init", "first", 0, 0>> /\ res = Done

FirstWith(Test(_)) ==
    LET K == {k \in 1..Len(seq) : Test(seq[k])} IN IF K = {} THEN 0 ELSE Min(K)

Place(w, i, d) ==
    CASE w = "first" -> IF seq = <<>> THEN 0 ELSE 1
      [] w = "last" -> Len(seq)
      [] w = "idx" -> IF i < Len(seq) THEN i + 1 ELSE 0
      [] w = "find" -> FirstWith(LAMBDA x : x = d)
      [] w = "iter" -> pos

Read(w, i, d) ==
    /\ call' = <<"read", w, i, d>> /\ UNCHANGED <<seq, pos>>
    /\ LET k == Place(w, i, d) IN res' = IF k = 0 THEN Failed ELSE seq[k]

Edit(w, i, d, new) ==
    /\ call' = <<"edit", w, i, d>> /\ UNCHANGED pos
    /\ LET k == Place(w, i, d) IN
       /\ res' = IF k = 0 THEN Failed ELSE new
       /\ seq' = IF k = 0 THEN seq ELSE ReplaceAt(seq, k, new)

\* The iterator stays with its element; one that loses it is on none, except that
\* its own get moves it to the next one, and from the last to the previous one.
Get(w, i, d) ==
    /\ call' = <<"get", w, i, d>>
    /\ LET k == Place(w, i, d) IN
       /\ res' = IF k = 0 THEN Failed ELSE seq[k]
       /\ seq' = IF k = 0 THEN seq ELSE RemoveAt(seq, k)
       /\ pos' = CASE k = 0 \/ pos < k -> pos
                   [] k # 0 /\ pos > k -> pos - 1
                   [] OTHER -> IF w # "iter" THEN 0 ELSE IF k < Len(seq) THEN k ELSE k - 1

\* Where an element is added; 0 when the index is outside the list, or the
\* iterator on none of its elements.
AddPlace(w, i, d, after) ==
    CASE w = "first" -> 1
      [] w = "last" -> Len(seq) + 1
      [] w = "idx" -> IF seq = <<>> THEN 1 ELSE IF i <= Len(seq) THEN i + 1 ELSE 0
      [] w = "find" -> LET k == FirstWith(LAMBDA x : x > d) IN IF k = 0 THEN Len(seq) + 1 ELSE k
      [] w = "iter" -> IF seq = <<>> THEN 1 ELSE IF pos # 0 /\ after THEN pos + 1 ELSE pos

Add(w, i, d, after) ==
    /\ call' = <<"add", w, i, d>>
    /\ \/ res' = Failed /\ UNCHANGED <<seq, pos>>    \* no memory either
       \/ LET k == AddPlace(w, i, d, after) IN
          /\ k # 0 /\ res' = Done
          /\ seq' = InsertAt(seq, k, d) /\ pos' = IF pos >= k THEN pos + 1 ELSE pos

\* Moving the iterator: by some steps, to an index, to a value.
Goto(w, k, i, d) ==
    /\ call' = <<"move", w, i, d>> /\ res' = (IF k \in 1..Len(seq) THEN Done ELSE Failed)
    /\ pos' = IF k \in 1..Len(seq) THEN k ELSE pos
    /\ UNCHANGED seq

Move(i) == Goto("iter", IF pos = 0 THEN 0 ELSE pos + i, i, 0)
MoveTo(i) == Goto("idx", IF i < 0 THEN Len(seq) + i ELSE i + 1, i, 0)
MoveFind(d) == Goto("find", Place("find", 0, d), 0, d)

\* Creating the iterator at one end; removing it; removing the list without one.
IterInit(w) == call' = <<"iter", w, 0, 0>> /\ pos' = Place(w, 0, 0) /\ res' = Done /\ UNCHANGED seq
IterRemove == call' = <<"iter", "iter", 0, 0>> /\ pos' = 0 /\ res' = Done /\ UNCHANGED seq
RemoveList ==
    /\ call' = <<"remove", "first", 0, 0>>
    /\ \/ seq' = <<>> /\ pos' = 0 /\ res' = Done
       \/ res' = Failed /\ UNCHANGED <<seq, pos>>

Wheres == {"first", "last", "idx", "find", "iter"}

Next ==
    \/ \E w \in Wheres, i \in 0..MaxIdx, d \in Data :
        \/ Read(w, i, d) \/ Get(w, i, d)
        \/ \E new \in Data : Edit(w, i, d, new)
        \/ \E after \in BOOLEAN : Add(w, i, d, after)
    \/ \E i \in (-MaxIdx)..MaxIdx : Move(i) \/ MoveTo(i)
    \/ \E d \in Data : MoveFind(d)
    \/ \E w \in {"first", "last"} : IterInit(w)
    \/ IterRemove \/ RemoveList

vars == <<seq, pos, call, res>>
Spec == Init /\ [][Next]_vars
-----------------------------------------------------------------------------
(* What no description allows, and the code does.                           *)

\* Getting the last of several elements, the iterator loses its place.
PositionLost ==
    /\ pos = Len(seq) /\ pos > 1
    /\ (\E d \in Data : call' = <<"get", "iter", 0, d>>) /\ res' = seq[pos]
    /\ seq' = RemoveAt(seq, pos) /\ pos' = 0

\* An edit, or an insertion at the iterator, where there is no element.
Stops ==
    /\ \E w \in {"first", "last", "iter"}, d \in Data :
        /\ Place(w, 0, d) = 0
        /\ \/ call' = <<"edit", w, 0, d>>
           \/ w = "iter" /\ seq # <<>> /\ call' = <<"add", w, 0, d>>
    /\ res' = Stopped /\ UNCHANGED <<seq, pos>>
=============================================================================

------------------------------ MODULE NoOsList ------------------------------
(***************************************************************************)
(* no_os_list.c: a list linked in both directions, with a count of its      *)
(* elements and iterators. The DMA layer queues its transfers in such lists *)
(* and the pin interrupts keep their callbacks in one.                      *)
(*                                                                          *)
(* An iterator may be on no element, NULL: it was made for an empty list, or *)
(* its own get left it there. One whose element was removed through the list *)
(* points to freed memory: it is Wild, and the callers modelled here do not   *)
(* use it before they have moved it to an index or to a value. Following a    *)
(* NULL pointer ends a behaviour: what the program does next is not modelled. *)
(***************************************************************************)
EXTENDS Integers, FiniteSets, Sequences

CONSTANTS Elems,       \* memory for elements: addresses, positive numbers
          Data,        \* numbers, ordered by the comparator
          MaxIdx       \* bound: indices and steps

\* What the model takes for granted of its constants.
ListAssumption ==
    /\ Elems \subseteq Nat \ {0} /\ IsFiniteSet(Elems) /\ Data \subseteq Nat \ {0}
    /\ MaxIdx \in Nat

NULL == 0
Wild == -1
Off == -2         \* there is no iterator

VARIABLES l,      \* the list: its elements, first, last, nb_elements
          it,     \* element of the iterator
          ub,     \* a NULL pointer was followed
          call,   \* the last call: what, where, index, data
          res     \* and its result

vars == <<l, it, ub, call, res>>

Live == DOMAIN l.node
Failed == -1
Done == 0
Stopped == -3     \* the call followed a NULL pointer

TypeOK ==
    /\ l.node \in [Live -> [data : Data, prev : Live \cup {NULL}, next : Live \cup {NULL}]]
    /\ Live \subseteq Elems /\ {l.first, l.last} \subseteq Live \cup {NULL}
    /\ l.n = Cardinality(Live)
    /\ it \in Live \cup {NULL, Wild, Off} /\ ub \in BOOLEAN

Empty == [node |-> <<>>, first |-> NULL, last |-> NULL, n |-> 0]
Init == l = Empty /\ it = Off /\ ub = FALSE /\ call = <<"init", "first", 0, 0>> /\ res = Done
-----------------------------------------------------------------------------
(* The links.                                                               *)

\* no_os_update_links: p, e and x become neighbours; without e, p and x do.
ForwardOnlyMutant(m, p, e, x) ==
    [y \in DOMAIN m |-> [data |-> m[y].data,
        prev |-> IF e # NULL /\ y = e THEN p ELSE m[y].prev,
        next |-> IF y = e THEN x ELSE IF y = p THEN (IF e # NULL THEN e ELSE x) ELSE m[y].next]]
UpdateLinks(m, p, e, x) ==
    [y \in DOMAIN m |-> [data |-> m[y].data,
        prev |-> IF y = e THEN p ELSE IF y = x THEN (IF e # NULL THEN e ELSE p) ELSE m[y].prev,
        next |-> IF y = e THEN x ELSE IF y = p THEN (IF e # NULL THEN e ELSE x) ELSE m[y].next]]

\* no_os_update_desc
UpdateDesc(h, nf, nl) ==
    IF nf = h.first
    THEN [h EXCEPT !.last = nl, !.first = IF nf = NULL \/ nl = NULL THEN nl ELSE @]
    ELSE [h EXCEPT !.first = nf, !.last = IF nf = NULL \/ nl = NULL THEN nf ELSE @]

\* create_element with the smallest free address, and no_os_update_links.
NoRoom == Live = Elems
New == CHOOSE e \in Elems \ Live : \A f \in Elems \ Live : e <= f
Created(d, p, x) ==
    [l EXCEPT !.n = @ + 1, !.node = UpdateLinks(
        [y \in Live \cup {New} |->
            IF y = New THEN [data |-> d, prev |-> p, next |-> x] ELSE l.node[y]], p, New, x)]

AddFirst(d) == UpdateDesc(Created(d, NULL, l.first), New, l.last)
AddLast(d) == UpdateDesc(Created(d, l.last, NULL), l.first, New)

\* no_os_iterator_insert
AlwaysAfterMutant(e, d, after) ==
    IF e = l.last THEN AddLast(d)
    ELSE IF ~after /\ e = l.first THEN AddFirst(d)
    ELSE IF after THEN Created(d, e, l.node[e].next) ELSE Created(d, l.node[e].prev, e)
Insert(e, d, after) ==
    IF after /\ e = l.last THEN AddLast(d)
    ELSE IF ~after /\ e = l.first THEN AddFirst(d)
    ELSE IF after THEN Created(d, e, l.node[e].next) ELSE Created(d, l.node[e].prev, e)

\* no_os_iterator_move: NULL when the steps leave the list.
Step(e, k) ==
    LET K == IF k < 0 THEN -k ELSE k
        f[i \in 0..K] == IF i = 0 THEN e
                         ELSE IF f[i - 1] = NULL THEN NULL
                         ELSE IF k > 0 THEN l.node[f[i - 1]].next ELSE l.node[f[i - 1]].prev
    IN  f[K]

\* The first element, by the next pointers, whose data is one of those looked for.
Search(found) ==
    LET f[y \in Live \cup {NULL}] ==
            IF y = NULL THEN NULL ELSE IF l.node[y].data \in found THEN y ELSE f[l.node[y].next]
    IN  f[l.first]

Pick(w, i, d) ==
    CASE w = "first" -> l.first
      [] w = "last" -> l.last
      [] w = "idx" -> Step(l.first, i)
      [] w = "find" -> Search({d})
      [] w = "iter" -> it
-----------------------------------------------------------------------------
(* The functions of the list; the ones of the iterator with w = "iter".     *)

\* Arguments that a function does not have are at their default.
Zero == CHOOSE d \in Data : \A e \in Data : d <= e
Plain(w, i, d) == (w # "idx" => i = 0) /\ (w # "find" => d = Zero)
Usable(w) == w = "iter" => it \in Live \cup {NULL}
FollowsNull(c) == ub' = TRUE /\ call' = c /\ res' = Stopped /\ UNCHANGED <<l, it>>

Read(w, i, d) ==
    /\ Plain(w, i, d) /\ Usable(w) /\ UNCHANGED <<l, it, ub>>
    /\ LET e == Pick(w, i, d) IN
       call' = <<"read", w, i, d>> /\ res' = (IF e = NULL THEN Failed ELSE l.node[e].data)

Edit(w, i, d, new) ==
    /\ Plain(w, i, d) /\ Usable(w)
    /\ LET e == Pick(w, i, d) IN
       \/ /\ e # NULL \/ w \in {"idx", "find"}
          /\ call' = <<"edit", w, i, d>> /\ res' = (IF e = NULL THEN Failed ELSE new)
          /\ l' = IF e = NULL THEN l ELSE [l EXCEPT !.node[e].data = new]
          /\ UNCHANGED <<it, ub>>
       \/ e = NULL /\ w \in {"first", "last", "iter"} /\ FollowsNull(<<"edit", w, i, d>>)

\* An element taken out: no_os_list_get_first and get_last, no_os_iterator_get
\* for the others. Which end moves decides how the descriptor is updated.
Unlinked(e) == [l EXCEPT !.node = UpdateLinks(@, l.node[e].prev, NULL, l.node[e].next)]
Cut(w, e) ==
    LET h == Unlinked(e) IN
    IF w = "first" \/ (w # "last" /\ e = l.first) THEN UpdateDesc(h, l.node[e].next, l.last)
    ELSE IF e = l.last THEN UpdateDesc(h, l.first, l.node[e].prev)
    ELSE h
Without(h, e) == [h EXCEPT !.n = @ - 1, !.node = [y \in DOMAIN h.node \ {e} |-> h.node[y]]]

\* Where no_os_iterator_get leaves its iterator: it compares with the last
\* element after the descriptor was updated.
After(h, e) == IF e = h.last THEN l.node[e].prev ELSE l.node[e].next

Get(w, i, d) ==
    /\ Plain(w, i, d) /\ Usable(w) /\ UNCHANGED ub
    /\ LET e == Pick(w, i, d) IN
       IF e = NULL THEN call' = <<"get", w, i, d>> /\ res' = Failed /\ UNCHANGED <<l, it>>
       ELSE /\ call' = <<"get", w, i, d>> /\ res' = l.node[e].data /\ l' = Without(Cut(w, e), e)
            /\ it' = IF w = "iter" THEN After(Cut(w, e), e) ELSE IF it = e THEN Wild ELSE it

\* no_os_list_add_idx: an empty list takes any index.
AddIdx(i, d) ==
    IF l.n = 0 \/ i = 0 THEN AddFirst(d)
    ELSE IF l.n = i THEN AddLast(d) ELSE Insert(Step(l.first, i), d, FALSE)

\* no_os_list_add_find: before the first element that is greater.
AddFind(d) ==
    LET e == Search({x \in Data : x > d})
    IN  IF e = NULL THEN Insert(l.last, d, TRUE) ELSE Insert(e, d, FALSE)

Added(w, i, d, after) ==
    CASE w = "first" -> AddFirst(d)
      [] w = "last" -> AddLast(d)
      [] w = "idx" -> AddIdx(i, d)
      [] w = "find" -> AddFind(d)
      [] w = "iter" -> Insert(it, d, after)

Outside(w, i) == w = "idx" /\ l.n # 0 /\ i > l.n

\* Before it asks for memory no_os_iterator_insert reads the element's links.
NoPlace(w) == w = "iter" /\ it = NULL /\ l.n # 0

Add(w, i, d, after) ==
    /\ (w # "idx" => i = 0) /\ (w # "iter" => after) /\ Usable(w)
    /\ \/ NoPlace(w) /\ FollowsNull(<<"add", w, i, d>>)
       \/ /\ ~NoPlace(w) /\ UNCHANGED <<it, ub>>
          /\ IF NoRoom \/ Outside(w, i)
             THEN call' = <<"add", w, i, d>> /\ res' = Failed /\ UNCHANGED l
             ELSE call' = <<"add", w, i, d>> /\ res' = Done /\ l' = Added(w, i, d, after)

\* no_os_iterator_move, _move_to_idx and _find.
Goto(w, e, i, d) ==
    /\ call' = <<"move", w, i, d>> /\ res' = (IF e = NULL THEN Failed ELSE Done)
    /\ it' = IF e = NULL THEN it ELSE e
    /\ UNCHANGED <<l, ub>>

Move(i) == it \in Live \cup {NULL} /\ Goto("iter", Step(it, i), i, 0)
MoveTo(i) == it # Off /\ Goto("idx", Step(IF i < 0 THEN l.last ELSE l.first, i), i, 0)
MoveFind(d) == it # Off /\ Goto("find", Pick("find", 0, d), 0, d)

IterInit(w) ==
    /\ it = Off /\ it' = Pick(w, 0, 0) /\ call' = <<"iter", w, 0, 0>> /\ res' = Done
    /\ UNCHANGED <<l, ub>>
IterRemove ==
    /\ it # Off /\ it' = Off /\ call' = <<"iter", "iter", 0, 0>> /\ res' = Done /\ UNCHANGED <<l, ub>>

\* no_os_list_remove, and a new list.
RemoveList ==
    /\ call' = <<"remove", "first", 0, 0>> /\ res' = (IF it = Off THEN Done ELSE Failed)
    /\ l' = IF it = Off THEN Empty ELSE l
    /\ UNCHANGED <<it, ub>>

Next ==
    /\ ~ub
    /\ \/ \E w \in {"first", "last", "idx", "find", "iter"}, i \in 0..MaxIdx, d \in Data :
           \/ Read(w, i, d) \/ Get(w, i, d)
           \/ \E new \in Data : Edit(w, i, d, new)
           \/ \E after \in BOOLEAN : Add(w, i, d, after)
       \/ \E i \in (-MaxIdx)..MaxIdx : Move(i) \/ MoveTo(i)
       \/ \E d \in Data : MoveFind(d)
       \/ \E w \in {"first", "last"} : IterInit(w)
       \/ IterRemove \/ RemoveList

Spec == Init /\ [][Next]_vars
-----------------------------------------------------------------------------
(* Properties.                                                              *)

\* The elements by their next pointers, as many as nb_elements says.
Chain == [k \in 1..l.n |-> Step(l.first, k - 1)]

\* Both ends and both directions describe the same list (no_os_list.c:125-158).
Doubly ==
    /\ l.n = 0 => l.first = NULL /\ l.last = NULL
    /\ l.n > 0 => /\ l.first = Chain[1] /\ l.last = Chain[l.n]
                  /\ l.node[l.first].prev = NULL /\ l.node[l.last].next = NULL
    /\ \A k \in 1..(l.n - 1) : l.node[Chain[k + 1]].prev = Chain[k]

\* The list as its functions describe it: a sequence, and where in it the
\* iterator is.
Service == INSTANCE ListService WITH
    seq <- [k \in 1..l.n |-> l.node[Chain[k]].data],
    pos <- IF it \in Live THEN CHOOSE k \in 1..l.n : Chain[k] = it ELSE 0

\* Every function does to the sequence, to the iterator and to its caller what
\* its description says, with two exceptions that the code has: the iterator
\* that gets the last of several elements is on none afterwards
\* (no_os_list.c:819), and an edit or an insertion where there is no element
\* follows a NULL pointer (no_os_list.c:403, 417, 791, 868).
ServiceNext == Service!Next \/ Service!PositionLost \/ Service!Stops

\* Every function does what its description says.
AsDescribed == Service!Spec

\* "If the current item is the last one, the iterator will be moved to the
\* previous one" (no_os_list.c:799-800).
ToPrevious == [][l' # l /\ call'[1] = "get" /\ call'[2] = "iter" /\ it = l.last /\ l.n > 1
                 => it' = l.node[it].prev]_vars

\* An edit where there is no element reports an error (no_os_list.h:157-159).
EditChecked == ~ub

\* What holds in every state: a list linked in both directions.
ListInv == TypeOK /\ Doubly
=============================================================================

---------------------------- MODULE LibraryProofs ----------------------------
(***************************************************************************)
(* Lists. For any memory for elements, any data and any order of calls,     *)
(* both directions agree, and each function does to the sequence, to the    *)
(* iterator and to its caller what ListService says, but for the departures *)
(* it names. The invariant says                                             *)
(* that some sequence of all elements in the list is what both directions   *)
(* describe (Ordered). Adding and removing an element are an insertion into *)
(* this sequence and a removal from it; walks and searches are looks into   *)
(* it.                                                                      *)
(*                                                                          *)
(* Forms. For any menus that are trees of components, one control has the   *)
(* focus, the terminal is up to date after a paint, and groups are          *)
(* exclusive; if they are rows and columns, the keys do what FormService    *)
(* says. The invariant says that the cursors of all containers around the   *)
(* focus lead to it, and that whatever the terminal shows wrongly is marked *)
(* with everything around it. The model's recursive functions get their     *)
(* equations from Recursion, by induction over the size of what is below a  *)
(* component.                                                               *)
(***************************************************************************)
EXTENDS Library, Sequences, FiniteSetTheorems, TLAPS

Live == DOMAIN l.node

\* The element at place k of n, NULL outside of them.
At(s, n, k) == IF k \in 1..n THEN s[k] ELSE 0

\* The sequence s of length h.n has the elements of the list h, each once, in the order
\* of both directions.
Ordered(h, s) ==
    /\ h.n \in Nat /\ s \in [1..h.n -> DOMAIN h.node]
    /\ \A e \in DOMAIN h.node : \E k \in 1..h.n : s[k] = e
    /\ \A j, k \in 1..h.n : s[j] = s[k] => j = k
    /\ h.first = At(s, h.n, 1) /\ h.last = At(s, h.n, h.n)
    /\ \A k \in 1..h.n : /\ h.node[s[k]].prev = At(s, h.n, k - 1)
                         /\ h.node[s[k]].next = At(s, h.n, k + 1)

Cells == [data : Data, prev : Elems \cup {0}, next : Elems \cup {0}]
Formed(h) ==
    /\ h = [node |-> h.node, first |-> h.first, last |-> h.last, n |-> h.n]
    /\ DOMAIN h.node \subseteq Elems /\ h.node \in [DOMAIN h.node -> Cells]
    /\ h.n = Cardinality(DOMAIN h.node)

ListIInv ==
    /\ Formed(l) /\ \E s : Ordered(l, s)
    /\ it \in Live \cup {0, -1, -2} /\ ub \in BOOLEAN
-----------------------------------------------------------------------------
(* Walks.                                                                   *)

\* Every set of natural numbers has a least one.
LEMMA LeastNat == ASSUME NEW T, T \subseteq Nat, T # {} PROVE \E x \in T : \A y \in T : x <= y
<1> DEFINE R == {ss \in Nat \X Nat : ss[1] < ss[2]}
<1>1. IsWellFoundedOn(OpToRel(<, Nat), Nat)
  BY NatLessThanWellFounded, Zenon
<1>2. OpToRel(<, Nat) = R
  BY Zenon DEF OpToRel
<1>3. IsWellFoundedOn(R, Nat)
  BY <1>1, <1>2, Zenon
<1> HIDE DEF R
<1>4. PICK x \in T : \A y \in T : ~(<<y, x>> \in R)
  BY <1>3, WFMin, Zenon
<1>5. ASSUME NEW y \in T PROVE x <= y
  <2>1. x \in Nat /\ y \in Nat
    OBVIOUS
  <2>2. ~(y < x)
    BY <1>4, <2>1 DEF R
  <2> QED
    BY <2>1, <2>2
<1> QED
  BY <1>5

\* What the model takes for granted of elements and data.
LEMMA ListFacts ==
    /\ Elems \subseteq Nat \ {0} /\ IsFiniteSet(Elems) /\ Data \subseteq Nat \ {0}
    /\ MaxIdx \in Nat
BY LibraryAssumption DEF List!ListAssumption, List!IsFiniteSet, IsFiniteSet

\* Elements have addresses that are not NULL.
LEMMA AtFacts ==
    ASSUME Formed(l), NEW s, Ordered(l, s), NEW k \in Int
    PROVE  /\ At(s, l.n, k) \in Live \cup {0}
           /\ At(s, l.n, k) = 0 <=> k \notin 1..l.n
           /\ At(s, l.n, k) \in Live <=> k \in 1..l.n
BY ListFacts DEF Formed, Ordered, At, Live

\* The links of the element at place k.
LEMMA Neighbours ==
    ASSUME Formed(l), NEW s, Ordered(l, s), NEW k \in 1..l.n
    PROVE  /\ l.node[At(s, l.n, k)].next = At(s, l.n, k + 1)
           /\ l.node[At(s, l.n, k)].prev = At(s, l.n, k - 1)
BY DEF Ordered, At

\* Some steps from an element lead to the one as many places away, or out of the list.
LEMMA StepIsAt ==
    ASSUME Formed(l), NEW s, Ordered(l, s), NEW j \in Int, NEW k \in Int
    PROVE  List!Step(At(s, l.n, j), k) = IF j \in 1..l.n THEN At(s, l.n, j + k) ELSE 0
<1> DEFINE e == At(s, l.n, j)
           K == IF k < 0 THEN -k ELSE k
           W == [i \in 0..K |-> IF j \in 1..l.n THEN At(s, l.n, IF k > 0 THEN j + i ELSE j - i)
                                ELSE 0]
           Body(f) == [i \in 0..K |-> IF i = 0 THEN e ELSE IF f[i - 1] = 0 THEN 0
                                      ELSE IF k > 0 THEN l.node[f[i - 1]].next
                                                    ELSE l.node[f[i - 1]].prev]
           F == CHOOSE f : f = Body(f)
<1>0. K \in Nat /\ l.n \in Nat
  BY DEF Ordered
<1>1. ASSUME NEW i \in 0..K, i # 0
      PROVE  /\ i - 1 \in 0..K
             /\ W[i] = IF W[i - 1] = 0 THEN 0 ELSE IF k > 0 THEN l.node[W[i - 1]].next
                                                          ELSE l.node[W[i - 1]].prev
  <2>1. i \in Nat /\ i - 1 \in 0..K /\ i <= K
    BY <1>0, <1>1
  <2>2. CASE j \notin 1..l.n
    BY <2>1, <2>2
  <2>3. CASE j \in 1..l.n
    <3> DEFINE a == IF k > 0 THEN j + (i - 1) ELSE j - (i - 1)
               b == IF k > 0 THEN j + i ELSE j - i
    <3>1. W[i - 1] = At(s, l.n, a) /\ W[i] = At(s, l.n, b)
      BY <2>1, <2>3
    <3>2. a \in Int /\ b \in Int /\ b = IF k > 0 THEN a + 1 ELSE a - 1
      BY <2>1
    <3>3. a \notin 1..l.n => b \notin 1..l.n
      BY <2>1, <2>3, <1>0
    <3> HIDE DEF W, a, b
    <3>4. CASE a \notin 1..l.n
      BY <3>1, <3>2, <3>3, <3>4, <2>1, AtFacts
    <3>5. CASE a \in 1..l.n
      BY <3>1, <3>2, <3>5, <2>1, AtFacts, Neighbours
    <3> QED
      BY <3>4, <3>5
  <2> QED
    BY <2>2, <2>3
<1>2. W[0] = e
  BY <1>0, AtFacts
<1>3. W = Body(W)
  <2>1. ASSUME NEW i \in 0..K PROVE W[i] = Body(W)[i]
    <3> HIDE DEF W, e
    <3>1. CASE i = 0
      BY <3>1, <1>2
    <3>2. CASE i # 0
      BY <3>2, <1>1
    <3> QED
      BY <3>1, <3>2
  <2> QED
    BY <2>1
<1>4. F = Body(F)
  <2> HIDE DEF W, Body
  <2> QED
    BY <1>3
<1>5. \A i \in 0..K : F[i] = W[i]
  <2> DEFINE T == {i \in 0..K : F[i] # W[i]}
  <2> HIDE DEF F, W
  <2>1. SUFFICES ASSUME T # {} PROVE FALSE
    OBVIOUS
  <2>2. PICK i \in T : \A h \in T : i <= h
    <3>1. T \subseteq Nat
      OBVIOUS
    <3> HIDE DEF T
    <3> QED
      BY <2>1, <3>1, LeastNat, Zenon
  <2>3. i \in 0..K /\ F[i] # W[i]
    BY <2>2
  <2>4. CASE i = 0
    <3>1. F[0] = e
      BY <1>0, <1>4
    <3> QED
      BY <1>2, <2>3, <2>4, <3>1
  <2>5. CASE i # 0
    <3>1. i - 1 \in 0..K /\ i - 1 \notin T
      BY <2>2, <2>3, <2>5
    <3>2. F[i - 1] = W[i - 1]
      BY <3>1
    <3>3. F[i] = IF F[i - 1] = 0 THEN 0 ELSE IF k > 0 THEN l.node[F[i - 1]].next
                                                    ELSE l.node[F[i - 1]].prev
      BY <1>4, <2>3, <2>5
    <3> QED
      BY <1>1, <2>3, <2>5, <3>2, <3>3
  <2> QED
    BY <2>4, <2>5
<1>6. List!Step(e, k) = F[K]
  BY DEF List!Step, List!NULL
<1>7. W[K] = IF j \in 1..l.n THEN At(s, l.n, j + k) ELSE 0
  BY <1>0
<1> HIDE DEF F, W, K
<1> QED
  BY <1>0, <1>5, <1>6, <1>7

\* The forward walk from the first element is the sequence.
LEMMA ChainIsOrder ==
    ASSUME Formed(l), NEW s, Ordered(l, s)
    PROVE  List!Chain = s
<1>1. ASSUME NEW k \in 1..l.n PROVE List!Step(l.first, k - 1) = s[k]
  <2>1. l.n \in Nat /\ 1 \in 1..l.n /\ k - 1 \in Int /\ l.first = At(s, l.n, 1)
    BY DEF Ordered
  <2>2. List!Step(l.first, k - 1) = At(s, l.n, 1 + (k - 1))
    BY <2>1, StepIsAt
  <2> QED
    BY <2>1, <2>2 DEF At
<1> QED
  BY <1>1 DEF List!Chain, Ordered

\* The places whose data is looked for.
Found(s, found) == {k \in 1..l.n : l.node[s[k]].data \in found}

\* A search ends at the first of them.
LEMMA SearchIsFirst ==
    ASSUME Formed(l), NEW s, Ordered(l, s), NEW found
    PROVE  /\ Found(s, found) = {} => List!Search(found) = 0
           /\ \A k \in Found(s, found) :
                 (\A j \in Found(s, found) : k <= j) => List!Search(found) = s[k]
<1> DEFINE From(k) == {j \in Found(s, found) : k <= j}
           Least(S) == CHOOSE j \in S : \A i \in S : j <= i
           First(S) == IF S = {} THEN 0 ELSE s[Least(S)]
           V(k) == First(From(k))
           Pos(y) == CHOOSE k \in 1..l.n : s[k] = y
           W == [y \in Live \cup {0} |-> IF y = 0 THEN 0 ELSE V(Pos(y))]
           Body(f) == [y \in Live \cup {0} |->
                          IF y = 0 THEN 0 ELSE IF l.node[y].data \in found THEN y
                          ELSE f[l.node[y].next]]
           F == CHOOSE f : f = Body(f)
<1>0. l.n \in Nat /\ s \in [1..l.n -> Live] /\ 0 \notin Live
  BY ListFacts DEF Formed, Ordered, Live
<1>1. ASSUME NEW k \in 1..l.n PROVE Pos(s[k]) = k
  BY DEF Ordered
<1>2. ASSUME NEW k \in 1..l.n PROVE W[s[k]] = V(k)
  <2> HIDE DEF V, Pos
  <2> QED
    BY <1>0, <1>1
<1>3. ASSUME NEW k \in Int, From(k) # {}
      PROVE  /\ Least(From(k)) \in From(k) /\ \A i \in From(k) : Least(From(k)) <= i
  <2>1. From(k) \subseteq Nat
    BY <1>0 DEF Found
  <2> HIDE DEF From
  <2>2. \E j \in From(k) : \A i \in From(k) : j <= i
    BY <1>3, <2>1, LeastNat, Zenon
  <2> QED
    BY <2>2
<1>4. ASSUME NEW k \in Int, NEW j \in From(k), \A i \in From(k) : j <= i PROVE V(k) = s[j]
  <2>1. From(k) \subseteq Nat /\ From(k) # {}
    BY <1>0 DEF Found
  <2>2. Least(From(k)) \in From(k) /\ Least(From(k)) <= j /\ j <= Least(From(k))
    BY <1>3, <1>4, <2>1
  <2> HIDE DEF From, Least
  <2>3. Least(From(k)) = j
    BY <2>1, <2>2
  <2> QED
    BY <2>1, <2>3
<1>5. W[0] = 0
  OBVIOUS
<1>6. ASSUME NEW k \in 1..l.n
      PROVE  W[s[k]] = IF l.node[s[k]].data \in found THEN s[k] ELSE W[l.node[s[k]].next]
  <2>1. CASE l.node[s[k]].data \in found
    <3>1. k \in From(k) /\ \A i \in From(k) : k <= i
      BY <1>0, <2>1 DEF Found
    <3>2. V(k) = s[k]
      <4> HIDE DEF From, V
      <4> QED
        BY <1>4, <3>1
    <3> HIDE DEF V, W
    <3> QED
      BY <1>2, <2>1, <3>2
  <2>2. CASE l.node[s[k]].data \notin found
    <3>1. From(k) = From(k + 1)
      BY <1>0, <2>2 DEF Found
    <3>2. CASE k = l.n
      <4>1. From(k) = {}
        BY <1>0, <2>2, <3>2 DEF Found
      <4>2. l.node[s[k]].next = 0
        BY <1>0, <3>2 DEF Ordered, At
      <4>3. V(k) = 0
        BY <4>1
      <4> HIDE DEF V, W
      <4> QED
        BY <1>2, <1>5, <2>2, <4>2, <4>3
    <3>3. CASE k # l.n
      <4>1. l.node[s[k]].next = s[k + 1] /\ k + 1 \in 1..l.n
        BY <1>0, <3>3 DEF Ordered, At
      <4>2. V(k) = V(k + 1)
        <5> HIDE DEF From, First
        <5> QED
          BY <3>1
      <4> HIDE DEF V, W
      <4> QED
        BY <1>2, <2>2, <4>1, <4>2
    <3> QED
      BY <3>2, <3>3
  <2> QED
    BY <2>1, <2>2
<1>7. W = Body(W)
  <2>1. ASSUME NEW y \in Live \cup {0} PROVE W[y] = Body(W)[y]
    <3>1. CASE y = 0
      BY <3>1
    <3>2. CASE y # 0
      <4>1. PICK k \in 1..l.n : s[k] = y
        BY <3>2 DEF Ordered, Live
      <4> HIDE DEF W
      <4> QED
        BY <1>6, <3>2, <4>1
    <3> QED
      BY <3>1, <3>2
  <2> HIDE DEF V, Pos
  <2> QED
    BY <2>1
<1>8. F = Body(F)
  <2> HIDE DEF W, Body
  <2> QED
    BY <1>7
<1>9. \A i \in 0..l.n : F[At(s, l.n, l.n + 1 - i)] = W[At(s, l.n, l.n + 1 - i)]
  <2> DEFINE T == {i \in 0..l.n : F[At(s, l.n, l.n + 1 - i)] # W[At(s, l.n, l.n + 1 - i)]}
  <2> HIDE DEF F, W
  <2>1. SUFFICES ASSUME T # {} PROVE FALSE
    OBVIOUS
  <2>2. PICK i \in T : \A h \in T : i <= h
    <3>1. T \subseteq Nat
      OBVIOUS
    <3> HIDE DEF T
    <3> QED
      BY <2>1, <3>1, LeastNat, Zenon
  <2>3. i \in 0..l.n /\ F[At(s, l.n, l.n + 1 - i)] # W[At(s, l.n, l.n + 1 - i)]
    BY <2>2
  <2>4. CASE i = 0
    <3>1. At(s, l.n, l.n + 1 - i) = 0
      BY <1>0, <2>4 DEF At
    <3>2. F[0] = 0
      BY <1>8
    <3> QED
      BY <1>5, <2>3, <3>1, <3>2
  <2>5. CASE i # 0
    <3> DEFINE k == l.n + 1 - i
    <3>1. k \in 1..l.n /\ i - 1 \in 0..l.n /\ l.n + 1 - (i - 1) = k + 1
      BY <1>0, <2>3, <2>5
    <3>2. i - 1 \notin T
      BY <2>2, <2>3, <2>5, <3>1
    <3>3. F[At(s, l.n, k + 1)] = W[At(s, l.n, k + 1)]
      BY <3>1, <3>2
    <3>4. At(s, l.n, l.n + 1 - i) = s[k] /\ l.node[s[k]].next = At(s, l.n, k + 1)
      BY <3>1 DEF At, Ordered
    <3> HIDE DEF k, T
    <3>5. s[k] \in Live /\ s[k] # 0
      BY <1>0, <3>1
    <3>6. F[s[k]] = IF l.node[s[k]].data \in found THEN s[k] ELSE F[l.node[s[k]].next]
      BY <1>8, <3>5
    <3> QED
      BY <1>6, <2>3, <3>1, <3>3, <3>4, <3>6
  <2> QED
    BY <2>4, <2>5
<1>10. List!Search(found) = F[l.first]
  BY DEF List!Search, List!NULL, List!Live, Live
<1>11. l.first = At(s, l.n, l.n + 1 - l.n) /\ l.n \in 0..l.n
  BY <1>0 DEF Ordered
<1>12. List!Search(found) = W[At(s, l.n, 1)]
  <2> HIDE DEF F, W
  <2>1. l.n + 1 - l.n = 1
    BY <1>0
  <2> QED
    BY <1>9, <1>10, <1>11, <2>1
<1>13. From(1) = Found(s, found)
  BY <1>0 DEF Found
<1>14. CASE l.n = 0
  <2>1. Found(s, found) = {} /\ At(s, l.n, 1) = 0
    BY <1>14 DEF Found, At
  <2> HIDE DEF W
  <2> QED
    BY <1>5, <1>12, <2>1
<1>15. CASE l.n # 0
  <2>1. At(s, l.n, 1) = s[1] /\ 1 \in 1..l.n
    BY <1>0, <1>15 DEF At
  <2>2. List!Search(found) = V(1)
    <3> HIDE DEF W, V
    <3> QED
      BY <1>2, <1>12, <2>1
  <2>3. Found(s, found) = {} => V(1) = 0
    BY <1>13
  <2>4. ASSUME NEW k \in Found(s, found), \A j \in Found(s, found) : k <= j PROVE V(1) = s[k]
    <3> HIDE DEF V
    <3> QED
      BY <1>4, <1>13, <2>4
  <2> HIDE DEF V
  <2> QED
    BY <2>2, <2>3, <2>4
<1> QED
  BY <1>14, <1>15
-----------------------------------------------------------------------------
(* Adding an element.                                                       *)

\* The sequence with e at place k.
Ins(s, k, e) == [i \in 1..(l.n + 1) |-> IF i < k THEN s[i] ELSE IF i = k THEN e ELSE s[i - 1]]

\* h is the list with the new element, which has the data d, at place k.
Grown(h, s, k, d) ==
    /\ Formed(h) /\ Ordered(h, Ins(s, k, List!New)) /\ h.n = l.n + 1
    /\ DOMAIN h.node = Live \cup {List!New} /\ h.node[List!New].data = d
    /\ \A y \in Live : h.node[y].data = l.node[y].data

\* While there is room, the new element has an address that is not used.
LEMMA NewIsFree ==
    ASSUME Formed(l), ~List!NoRoom
    PROVE  List!New \in Elems \ Live /\ List!New # 0
<1>1. Elems \ Live # {} /\ Elems \ Live \subseteq Nat
  BY ListFacts DEF Formed, Live, List!NoRoom, List!Live
<1>2. \E e \in Elems \ Live : \A f \in Elems \ Live : e <= f
  BY <1>1, LeastNat, Zenon
<1>3. List!New \in Elems \ Live
  BY <1>2 DEF List!New, List!Live, Live
<1> QED
  BY <1>3, ListFacts

\* The links after the element was put between its neighbours.
Placed(h, s, k, d) ==
    /\ h = [node |-> h.node, first |-> l.first, last |-> l.last, n |-> l.n + 1]
    /\ h.node \in [Live \cup {List!New} -> Cells]
    /\ h.node[List!New] = [data |-> d, prev |-> At(s, l.n, k - 1), next |-> At(s, l.n, k)]
    /\ \A y \in Live :
          h.node[y] = [data |-> l.node[y].data,
                       prev |-> IF y = At(s, l.n, k) THEN List!New ELSE l.node[y].prev,
                       next |-> IF y = At(s, l.n, k - 1) THEN List!New ELSE l.node[y].next]

LEMMA CreatedLinks ==
    ASSUME Formed(l), ~List!NoRoom, NEW s, Ordered(l, s), NEW k \in 1..(l.n + 1), NEW d \in Data,
           NEW h, h = List!Created(d, At(s, l.n, k - 1), At(s, l.n, k))
    PROVE  Placed(h, s, k, d)
<1> DEFINE p == At(s, l.n, k - 1)
           x == At(s, l.n, k)
           a == List!New
           g == [y \in Live \cup {a} |-> IF y = a THEN [data |-> d, prev |-> p, next |-> x]
                                         ELSE l.node[y]]
           m == List!UpdateLinks(g, p, a, x)
<1>1. a \in Elems /\ a \notin Live /\ a # 0
  BY NewIsFree
<1>2. l.n \in Nat /\ p \in Live \cup {0} /\ x \in Live \cup {0} /\ 0 \notin Live /\ Live \subseteq Elems
  <2>1. l.n \in Nat /\ k \in Int /\ k - 1 \in Int
    BY DEF Ordered
  <2>2. p \in Live \cup {0} /\ x \in Live \cup {0}
    BY <2>1, AtFacts
  <2> QED
    BY <2>1, <2>2, ListFacts DEF Formed, Live
<1>3. \A y \in Live : l.node[y] \in Cells
  BY DEF Formed, Live
<1>4. h = [node |-> m, first |-> l.first, last |-> l.last, n |-> l.n + 1]
  <2> HIDE DEF p, x
  <2>1. l = [node |-> l.node, first |-> l.first, last |-> l.last, n |-> l.n]
    BY DEF Formed
  <2>2. h = [l EXCEPT !.n = @ + 1, !.node = m]
    BY DEF List!Created, List!Live, Live, p, x
  <2> HIDE DEF m
  <2> QED
    BY <2>1, <2>2
<1> HIDE DEF p, x, a
<1>5. m = [y \in Live \cup {a} |->
             [data |-> g[y].data,
              prev |-> IF y = a THEN p ELSE IF y = x THEN a ELSE g[y].prev,
              next |-> IF y = a THEN x ELSE IF y = p THEN a ELSE g[y].next]]
  BY <1>1 DEF List!UpdateLinks, List!NULL
<1>6. m[a] = [data |-> d, prev |-> p, next |-> x]
  BY <1>1, <1>5
<1>7. ASSUME NEW y \in Live
      PROVE  m[y] = [data |-> l.node[y].data,
                     prev |-> IF y = x THEN a ELSE l.node[y].prev,
                     next |-> IF y = p THEN a ELSE l.node[y].next]
  BY <1>1, <1>5
<1>8. m \in [Live \cup {a} -> Cells]
  <2>1. ASSUME NEW y \in Live \cup {a} PROVE m[y] \in Cells
    <3> HIDE DEF m, g
    <3>1. CASE y = a
      BY <1>1, <1>2, <1>6, <3>1 DEF Cells
    <3>2. CASE y # a
      <4> DEFINE pv == IF y = x THEN a ELSE l.node[y].prev
                 nx == IF y = p THEN a ELSE l.node[y].next
      <4>1. y \in Live /\ l.node[y].data \in Data
        BY <1>3, <3>2 DEF Cells
      <4>2. pv \in Elems \cup {0} /\ nx \in Elems \cup {0}
        BY <1>1, <1>3, <4>1 DEF Cells
      <4>3. m[y] = [data |-> l.node[y].data, prev |-> pv, next |-> nx]
        BY <1>7, <4>1
      <4> HIDE DEF pv, nx
      <4> QED
        BY <4>1, <4>2, <4>3 DEF Cells
    <3> QED
      BY <3>1, <3>2
  <2>2. m = [y \in Live \cup {a} |-> m[y]]
    BY <1>5
  <2> HIDE DEF m, g
  <2> QED
    BY <2>1, <2>2
<1> HIDE DEF m
<1>9. h.node = m
  BY <1>4
<1>10. /\ h = [node |-> h.node, first |-> l.first, last |-> l.last, n |-> l.n + 1]
       /\ h.node \in [Live \cup {a} -> Cells]
       /\ h.node[a] = [data |-> d, prev |-> p, next |-> x]
       /\ \A y \in Live :
             h.node[y] = [data |-> l.node[y].data,
                          prev |-> IF y = x THEN a ELSE l.node[y].prev,
                          next |-> IF y = p THEN a ELSE l.node[y].next]
  BY <1>4, <1>6, <1>7, <1>8, <1>9
<1> QED
  BY <1>10 DEF Placed, p, x, a

\* With the ends in place these links are an insertion.
LEMMA InsertionOrdered ==
    ASSUME Formed(l), ~List!NoRoom, NEW s, Ordered(l, s), NEW k \in 1..(l.n + 1), NEW d \in Data,
           NEW c, Placed(c, s, k, d),
           NEW h, h = [node |-> c.node, first |-> IF k = 1 THEN List!New ELSE l.first,
                last |-> IF k = l.n + 1 THEN List!New ELSE l.last, n |-> l.n + 1]
    PROVE  Grown(h, s, k, d)
<1> DEFINE a == List!New
           t == Ins(s, k, a)
           N == l.n + 1
<1>1. a \in Elems /\ a \notin Live /\ a # 0
  BY NewIsFree
<1>2. l.n \in Nat /\ s \in [1..l.n -> Live] /\ 0 \notin Live /\ h.n = N
  BY ListFacts DEF Ordered, Formed, Live
<1>3. /\ h.node \in [Live \cup {a} -> Cells]
      /\ h.node[a] = [data |-> d, prev |-> At(s, l.n, k - 1), next |-> At(s, l.n, k)]
      /\ \A y \in Live :
            h.node[y] = [data |-> l.node[y].data,
                         prev |-> IF y = At(s, l.n, k) THEN a ELSE l.node[y].prev,
                         next |-> IF y = At(s, l.n, k - 1) THEN a ELSE l.node[y].next]
  BY DEF Placed
<1>4. DOMAIN h.node = Live \cup {a}
  BY <1>3
<1>5. Formed(h)
  <2>1. Cardinality(Live \cup {a}) = l.n + 1
    <3>1. IsFiniteSet(Live)
      BY ListFacts, FS_Subset DEF Formed, Live
    <3> QED
      BY <1>1, <3>1, FS_AddElement DEF Formed, Live
  <2> QED
    BY <1>1, <1>2, <1>3, <1>4, <2>1 DEF Formed, Live
<1> HIDE DEF a
<1>6. \A i \in 1..N : t[i] = IF i < k THEN s[i] ELSE IF i = k THEN a ELSE s[i - 1]
  BY DEF Ins
<1>7. t \in [1..N -> Live \cup {a}]
  <2>1. ASSUME NEW i \in 1..N
        PROVE (IF i < k THEN s[i] ELSE IF i = k THEN a ELSE s[i - 1]) \in Live \cup {a}
    BY <1>2
  <2> QED
    BY <2>1 DEF Ins
<1> HIDE DEF t
<1>8. ASSUME NEW e \in Live \cup {a} PROVE \E i \in 1..N : t[i] = e
  <2>1. CASE e = a
    BY <1>2, <1>6, <2>1
  <2>2. CASE e # a
    <3>1. PICK j \in 1..l.n : s[j] = e
      BY <2>2 DEF Ordered, Live
    <3>2. j < k => j \in 1..N /\ t[j] = e
      BY <1>2, <1>6, <3>1
    <3>3. ~(j < k) => j + 1 \in 1..N /\ t[j + 1] = e
      BY <1>2, <1>6, <3>1
    <3> QED
      BY <3>2, <3>3
  <2> QED
    BY <2>1, <2>2
<1>9. ASSUME NEW i \in 1..N, NEW j \in 1..N, t[i] = t[j] PROVE i = j
  <2> DEFINE at(q) == IF q < k THEN q ELSE q - 1
  <2>1. ASSUME NEW q \in 1..N, q # k PROVE at(q) \in 1..l.n /\ t[q] = s[at(q)] /\ t[q] \in Live
    <3>1. at(q) \in 1..l.n
      BY <1>2, <2>1
    <3>2. t[q] = s[at(q)]
      BY <1>6, <2>1
    <3> QED
      BY <1>2, <3>1, <3>2
  <2>2. CASE i = k \/ j = k
    BY <1>1, <1>6, <1>9, <2>1, <2>2
  <2>3. CASE i # k /\ j # k
    <3>1. at(i) = at(j)
      <4> HIDE DEF at
      <4>1. at(i) \in 1..l.n /\ at(j) \in 1..l.n /\ s[at(i)] = s[at(j)]
        BY <1>9, <2>1, <2>3
      <4> QED
        BY <4>1 DEF Ordered
    <3> QED
      BY <1>2, <2>3, <3>1
  <2> QED
    BY <2>2, <2>3
<1>10. h.first = At(t, N, 1) /\ h.last = At(t, N, N)
  <2>1. l.first = At(s, l.n, 1) /\ l.last = At(s, l.n, l.n)
    BY DEF Ordered
  <2>2. 1 \in 1..N /\ N \in 1..N
    BY <1>2
  <2>3. k # 1 => 1 \in 1..l.n /\ t[1] = s[1]
    BY <1>2, <1>6, <2>2
  <2>4. k # N => l.n \in 1..l.n /\ t[N] = s[l.n]
    BY <1>2, <1>6, <2>2
  <2>5. t[k] = a
    BY <1>2, <1>6
  <2>6. h.first = (IF k = 1 THEN a ELSE l.first) /\ h.last = (IF k = N THEN a ELSE l.last)
    BY DEF a
  <2>7. h.first = t[1]
    BY <2>1, <2>3, <2>5, <2>6 DEF At
  <2>8. h.last = t[N]
    BY <2>1, <2>4, <2>5, <2>6 DEF At
  <2> QED
    BY <2>2, <2>7, <2>8 DEF At
<1>11. ASSUME NEW i \in 1..N
       PROVE  h.node[t[i]].prev = At(t, N, i - 1) /\ h.node[t[i]].next = At(t, N, i + 1)
  <2>1. CASE i = k
    <3>1. h.node[t[i]].prev = At(s, l.n, k - 1) /\ h.node[t[i]].next = At(s, l.n, k)
      BY <1>3, <1>6, <2>1
    <3>2. At(s, l.n, k - 1) = At(t, N, i - 1)
      BY <1>2, <1>6, <2>1 DEF At
    <3>3. At(s, l.n, k) = At(t, N, i + 1)
      BY <1>2, <1>6, <2>1 DEF At
    <3> QED
      BY <3>1, <3>2, <3>3
  <2>2. ASSUME NEW j \in 1..l.n, t[i] = s[j]
        PROVE  /\ h.node[t[i]].prev = IF j = k THEN a ELSE At(s, l.n, j - 1)
               /\ h.node[t[i]].next = IF j = k - 1 THEN a ELSE At(s, l.n, j + 1)
    <3>1. s[j] = At(s, l.n, k) <=> j = k
      BY <1>2 DEF At, Ordered
    <3>2. s[j] = At(s, l.n, k - 1) <=> j = k - 1
      BY <1>2 DEF At, Ordered
    <3>3. s[j] \in Live /\ l.node[s[j]].prev = At(s, l.n, j - 1) /\ l.node[s[j]].next = At(s, l.n, j + 1)
      BY <1>2 DEF Ordered
    <3>4. h.node[s[j]] = [data |-> l.node[s[j]].data,
                          prev |-> IF s[j] = At(s, l.n, k) THEN a ELSE l.node[s[j]].prev,
                          next |-> IF s[j] = At(s, l.n, k - 1) THEN a ELSE l.node[s[j]].next]
      BY <1>3, <3>3
    <3> QED
      BY <2>2, <3>1, <3>2, <3>3, <3>4
  <2>3. CASE i < k
    <3>1. i \in 1..l.n /\ t[i] = s[i] /\ i # k
      BY <1>2, <1>6, <2>3
    <3>2. At(s, l.n, i - 1) = At(t, N, i - 1)
      BY <1>2, <1>6, <2>3 DEF At
    <3>3. (IF i = k - 1 THEN a ELSE At(s, l.n, i + 1)) = At(t, N, i + 1)
      BY <1>2, <1>6, <2>3 DEF At
    <3> QED
      BY <2>2, <3>1, <3>2, <3>3
  <2>4. CASE i > k
    <3>1. i - 1 \in 1..l.n /\ t[i] = s[i - 1] /\ i - 1 # k - 1
      BY <1>2, <1>6, <2>4
    <3>2. (IF i - 1 = k THEN a ELSE At(s, l.n, (i - 1) - 1)) = At(t, N, i - 1)
      BY <1>2, <1>6, <2>4 DEF At
    <3>3. At(s, l.n, (i - 1) + 1) = At(t, N, i + 1)
      BY <1>2, <1>6, <2>4 DEF At
    <3> QED
      BY <2>2, <3>1, <3>2, <3>3
  <2> QED
    BY <1>2, <2>1, <2>3, <2>4
<1>12. Ordered(h, t)
  <2> HIDE DEF N
  <2>1. h.n \in Nat /\ h.n = N
    BY <1>2 DEF N
  <2>2. t \in [1..N -> DOMAIN h.node] /\ \A e \in DOMAIN h.node : \E j \in 1..N : t[j] = e
    BY <1>4, <1>7, <1>8
  <2>3. \A i, j \in 1..N : t[i] = t[j] => i = j
    BY <1>9
  <2>4. \A i \in 1..N : /\ h.node[t[i]].prev = At(t, N, i - 1)
                        /\ h.node[t[i]].next = At(t, N, i + 1)
    BY <1>11
  <2>5. Ordered(h, t) <=>
            /\ h.n \in Nat /\ t \in [1..h.n -> DOMAIN h.node]
            /\ \A e \in DOMAIN h.node : \E j \in 1..h.n : t[j] = e
            /\ \A i, j \in 1..h.n : t[i] = t[j] => i = j
            /\ h.first = At(t, h.n, 1) /\ h.last = At(t, h.n, h.n)
            /\ \A i \in 1..h.n : /\ h.node[t[i]].prev = At(t, h.n, i - 1)
                                 /\ h.node[t[i]].next = At(t, h.n, i + 1)
    BY DEF Ordered
  <2> QED
    BY <1>10, <2>1, <2>2, <2>3, <2>4, <2>5
<1>13. h.node[a].data = d /\ \A y \in Live : h.node[y].data = l.node[y].data
  <2>1. h.node[a].data = d
    BY <1>3
  <2>2. ASSUME NEW y \in Live PROVE h.node[y].data = l.node[y].data
    <3>1. h.node[y] = [data |-> l.node[y].data,
                       prev |-> IF y = At(s, l.n, k) THEN a ELSE l.node[y].prev,
                       next |-> IF y = At(s, l.n, k - 1) THEN a ELSE l.node[y].next]
      BY <1>3
    <3> QED
      BY <3>1
  <2> QED
    BY <2>1, <2>2
<1> QED
  BY <1>2, <1>4, <1>5, <1>12, <1>13, Zenon DEF Grown, t, a, N

\* Adding at either end.
LEMMA AddFirstGrows ==
    ASSUME Formed(l), ~List!NoRoom, NEW s, Ordered(l, s), NEW d \in Data
    PROVE  Grown(List!AddFirst(d), s, 1, d)
<1>1. l.n \in Nat /\ 1 \in 1..(l.n + 1)
  BY DEF Ordered
<1>2. At(s, l.n, 1 - 1) = 0 /\ At(s, l.n, 1) = l.first /\ List!New # 0
  BY <1>1, NewIsFree DEF At, Ordered
<1>3. PICK c : c = List!Created(d, 0, l.first)
  OBVIOUS
<1>4. Placed(c, s, 1, d)
  BY <1>1, <1>2, <1>3, CreatedLinks
<1>5. l.last = 0 <=> l.n = 0
  <2>1. l.last = At(s, l.n, l.n) /\ l.n \in Int
    BY <1>1 DEF Ordered
  <2>2. At(s, l.n, l.n) = 0 <=> l.n \notin 1..l.n
    BY <2>1, AtFacts
  <2> QED
    BY <1>1, <2>1, <2>2
<1>6. List!New # l.first
  BY <1>1, <1>2, AtFacts, NewIsFree
<1>7. PICK nd : c = [node |-> nd, first |-> l.first, last |-> l.last, n |-> l.n + 1]
  BY <1>4 DEF Placed
<1>8. List!AddFirst(d) = [node |-> c.node, first |-> List!New,
                          last |-> IF 1 = l.n + 1 THEN List!New ELSE l.last, n |-> l.n + 1]
  <2>1. List!AddFirst(d) = List!UpdateDesc(c, List!New, l.last)
    BY <1>3 DEF List!AddFirst, List!NULL
  <2>2. List!UpdateDesc(c, List!New, l.last)
          = [c EXCEPT !.first = List!New, !.last = IF l.last = 0 THEN List!New ELSE l.last]
    BY <1>2, <1>6, <1>7 DEF List!UpdateDesc, List!NULL
  <2>3. 1 = l.n + 1 <=> l.last = 0
    BY <1>1, <1>5
  <2> QED
    BY <1>7, <2>1, <2>2, <2>3
<1>9. PICK h : h = List!AddFirst(d)
  OBVIOUS
<1>10. h = [node |-> c.node, first |-> IF 1 = 1 THEN List!New ELSE l.first,
            last |-> IF 1 = l.n + 1 THEN List!New ELSE l.last, n |-> l.n + 1]
  BY <1>8, <1>9
<1>11. Grown(h, s, 1, d)
  BY <1>1, <1>4, <1>10, InsertionOrdered
<1> QED
  BY <1>9, <1>11

LEMMA AddLastGrows ==
    ASSUME Formed(l), ~List!NoRoom, NEW s, Ordered(l, s), NEW d \in Data
    PROVE  Grown(List!AddLast(d), s, l.n + 1, d)
<1> DEFINE k == l.n + 1
<1>1. l.n \in Nat /\ k \in 1..(l.n + 1) /\ k - 1 = l.n
  BY DEF Ordered
<1>2. At(s, l.n, k - 1) = l.last /\ At(s, l.n, k) = 0 /\ List!New # 0
  BY <1>1, NewIsFree DEF At, Ordered
<1> HIDE DEF k
<1>3. PICK c : c = List!Created(d, l.last, 0)
  OBVIOUS
<1>4. Placed(c, s, k, d)
  BY <1>1, <1>2, <1>3, CreatedLinks
<1>5. l.first = 0 <=> k = 1
  <2>1. l.first = At(s, l.n, 1)
    BY DEF Ordered
  <2>2. At(s, l.n, 1) = 0 <=> 1 \notin 1..l.n
    BY AtFacts
  <2> QED
    BY <1>1, <2>1, <2>2
<1>7. PICK nd : c = [node |-> nd, first |-> l.first, last |-> l.last, n |-> l.n + 1]
  BY <1>4 DEF Placed
<1>8. List!AddLast(d) = [node |-> c.node, first |-> IF k = 1 THEN List!New ELSE l.first,
                         last |-> List!New, n |-> l.n + 1]
  <2>1. List!AddLast(d) = List!UpdateDesc(c, l.first, List!New)
    BY <1>3 DEF List!AddLast, List!NULL
  <2>2. List!UpdateDesc(c, l.first, List!New)
          = [c EXCEPT !.last = List!New, !.first = IF l.first = 0 THEN List!New ELSE l.first]
    BY <1>2, <1>7 DEF List!UpdateDesc, List!NULL
  <2> QED
    BY <1>5, <1>7, <2>1, <2>2
<1>9. PICK h : h = List!AddLast(d)
  OBVIOUS
<1>10. h = [node |-> c.node, first |-> IF k = 1 THEN List!New ELSE l.first,
            last |-> IF k = l.n + 1 THEN List!New ELSE l.last, n |-> l.n + 1]
  BY <1>8, <1>9 DEF k
<1>11. Grown(h, s, k, d)
  BY <1>1, <1>4, <1>10, InsertionOrdered
<1> QED
  BY <1>9, <1>11 DEF k

\* Adding next to an element, or to the empty list.
LEMMA InsertGrows ==
    ASSUME Formed(l), ~List!NoRoom, NEW s, Ordered(l, s), NEW d \in Data,
           NEW j \in 1..l.n, NEW after \in BOOLEAN
    PROVE  Grown(List!Insert(s[j], d, after), s, IF after THEN j + 1 ELSE j, d)
<1> DEFINE k == IF after THEN j + 1 ELSE j
<1>1. l.n \in Nat /\ k \in 1..(l.n + 1) /\ 1 \in 1..l.n /\ l.n \in 1..l.n
  BY DEF Ordered
<1>2. s[j] = l.last <=> j = l.n
  BY <1>1 DEF Ordered, At
<1>3. s[j] = l.first <=> j = 1
  BY <1>1 DEF Ordered, At
<1>4. CASE after /\ j = l.n
  <2>1. List!Insert(s[j], d, after) = List!AddLast(d)
    BY <1>2, <1>4 DEF List!Insert
  <2> QED
    BY <1>4, <2>1, AddLastGrows
<1>5. CASE ~after /\ j = 1
  <2>1. List!Insert(s[j], d, after) = List!AddFirst(d)
    BY <1>3, <1>5 DEF List!Insert
  <2> QED
    BY <1>5, <2>1, AddFirstGrows
<1>6. CASE ~(after /\ j = l.n) /\ ~(~after /\ j = 1)
  <2>1. List!Insert(s[j], d, after) = List!Created(d, At(s, l.n, k - 1), At(s, l.n, k))
    <3>1. l.node[s[j]].next = At(s, l.n, j + 1) /\ l.node[s[j]].prev = At(s, l.n, j - 1)
      BY DEF Ordered
    <3>2. s[j] = At(s, l.n, j)
      BY DEF At
    <3>3. CASE after
      <4>1. List!Insert(s[j], d, after) = List!Created(d, s[j], l.node[s[j]].next)
        BY <1>2, <1>6, <3>3 DEF List!Insert
      <4>2. k = j + 1 /\ k - 1 = j
        BY <3>3
      <4> HIDE DEF k
      <4> QED
        BY <3>1, <3>2, <4>1, <4>2
    <3>4. CASE ~after
      <4>1. List!Insert(s[j], d, after) = List!Created(d, l.node[s[j]].prev, s[j])
        BY <1>3, <1>6, <3>4 DEF List!Insert
      <4>2. k = j /\ k - 1 = j - 1
        BY <3>4
      <4> HIDE DEF k
      <4> QED
        BY <3>1, <3>2, <4>1, <4>2
    <3> QED
      BY <3>3, <3>4
  <2>2. k # 1 /\ k # l.n + 1
    BY <1>1, <1>6
  <2> HIDE DEF k
  <2>3. PICK c : c = List!Insert(s[j], d, after)
    OBVIOUS
  <2>4. Placed(c, s, k, d)
    BY <1>1, <2>1, <2>3, CreatedLinks
  <2>5. c = [node |-> c.node, first |-> IF k = 1 THEN List!New ELSE l.first,
             last |-> IF k = l.n + 1 THEN List!New ELSE l.last, n |-> l.n + 1]
    BY <2>2, <2>4 DEF Placed
  <2>6. Grown(c, s, k, d)
    BY <1>1, <2>4, <2>5, InsertionOrdered
  <2> QED
    BY <2>3, <2>6 DEF k
<1> QED
  BY <1>4, <1>5, <1>6

LEMMA InsertIntoEmpty ==
    ASSUME Formed(l), ~List!NoRoom, NEW s, Ordered(l, s), NEW d \in Data,
           l.n = 0, NEW after \in BOOLEAN
    PROVE  Grown(List!Insert(0, d, after), s, 1, d)
<1>1. l.first = 0 /\ l.last = 0
  BY DEF Ordered, At
<1>2. CASE after
  <2>1. List!Insert(0, d, after) = List!AddLast(d) /\ l.n + 1 = 1
    BY <1>1, <1>2 DEF List!Insert
  <2> QED
    BY <2>1, AddLastGrows
<1>3. CASE ~after
  <2>1. List!Insert(0, d, after) = List!AddFirst(d)
    BY <1>1, <1>3 DEF List!Insert
  <2> QED
    BY <2>1, AddFirstGrows
<1> QED
  BY <1>2, <1>3

Places == {"first", "last", "idx", "find", "iter"}
Greater(d) == {x \in Data : x > d}

\* Where the functions that add put an element.
Spot(s, w, i, d, after, k) ==
    /\ w = "first" => k = 1
    /\ w = "last" => k = l.n + 1
    /\ w = "idx" => k = IF l.n = 0 THEN 1 ELSE i + 1
    /\ w = "find" => IF Found(s, Greater(d)) = {} THEN k = l.n + 1
                     ELSE /\ k \in Found(s, Greater(d))
                          /\ \A j \in Found(s, Greater(d)) : k <= j
    /\ w = "iter" /\ l.n = 0 => k = 1
    /\ w = "iter" /\ l.n # 0 => \E j \in 1..l.n : s[j] = it /\ k = IF after THEN j + 1 ELSE j

LEMMA AddedGrows ==
    ASSUME Formed(l), ~List!NoRoom, NEW s, Ordered(l, s), NEW d \in Data, NEW w \in Places,
           NEW i \in 0..MaxIdx, ~List!Outside(w, i), NEW after \in BOOLEAN,
           w = "iter" => it \in Live \/ (it = 0 /\ l.n = 0)
    PROVE  \E k \in 1..(l.n + 1) :
              /\ Spot(s, w, i, d, after, k)
              /\ Grown(List!Added(w, i, d, after), s, k, d)
<1>1. l.n \in Nat /\ i \in Nat
  BY ListFacts DEF Ordered
<1>2. CASE w = "first"
  <2>1. List!Added(w, i, d, after) = List!AddFirst(d)
    BY <1>2 DEF List!Added
  <2>2. 1 \in 1..(l.n + 1) /\ Spot(s, w, i, d, after, 1)
    BY <1>1, <1>2 DEF Spot
  <2> QED
    BY <2>1, <2>2, AddFirstGrows
<1>3. CASE w = "last"
  <2>1. List!Added(w, i, d, after) = List!AddLast(d)
    BY <1>3 DEF List!Added
  <2>2. l.n + 1 \in 1..(l.n + 1) /\ Spot(s, w, i, d, after, l.n + 1)
    BY <1>1, <1>3 DEF Spot
  <2> QED
    BY <2>1, <2>2, AddLastGrows
<1>4. CASE w = "idx"
  <2>1. l.n = 0 \/ i <= l.n
    BY <1>1, <1>4 DEF List!Outside
  <2>2. CASE l.n = 0 \/ i = 0
    <3>1. List!Added(w, i, d, after) = List!AddFirst(d)
      BY <1>4, <2>2 DEF List!Added, List!AddIdx
    <3>2. 1 \in 1..(l.n + 1) /\ Spot(s, w, i, d, after, 1)
      BY <1>1, <1>4, <2>2 DEF Spot
    <3> QED
      BY <3>1, <3>2, AddFirstGrows
  <2>3. CASE l.n # 0 /\ i = l.n
    <3>1. List!Added(w, i, d, after) = List!AddLast(d)
      BY <1>1, <1>4, <2>3 DEF List!Added, List!AddIdx
    <3>2. l.n + 1 \in 1..(l.n + 1) /\ Spot(s, w, i, d, after, l.n + 1)
      BY <1>1, <1>4, <2>3 DEF Spot
    <3> QED
      BY <3>1, <3>2, AddLastGrows
  <2>4. CASE l.n # 0 /\ i # 0 /\ i # l.n
    <3>1. List!Added(w, i, d, after) = List!Insert(List!Step(l.first, i), d, FALSE)
      BY <1>1, <1>4, <2>4 DEF List!Added, List!AddIdx
    <3>2. i + 1 \in 1..l.n /\ 1 \in 1..l.n /\ 1 + i = i + 1
      BY <1>1, <2>1, <2>4
    <3>3. List!Step(l.first, i) = s[i + 1]
      <4>1. l.first = At(s, l.n, 1)
        BY DEF Ordered
      <4>2. List!Step(At(s, l.n, 1), i) = At(s, l.n, 1 + i)
        BY <1>1, <3>2, StepIsAt
      <4> QED
        BY <3>2, <4>1, <4>2 DEF At
    <3>4. Spot(s, w, i, d, after, i + 1) /\ i + 1 \in 1..(l.n + 1)
      BY <1>1, <1>4, <2>4, <3>2 DEF Spot
    <3>5. Grown(List!Insert(s[i + 1], d, FALSE), s, i + 1, d)
      <4>1. Grown(List!Insert(s[i + 1], d, FALSE), s, IF FALSE THEN (i + 1) + 1 ELSE i + 1, d)
        BY <3>2, InsertGrows, Zenon
      <4> QED
        BY <4>1
    <3> QED
      BY <3>1, <3>3, <3>4, <3>5
  <2> QED
    BY <1>1, <2>1, <2>2, <2>3, <2>4
<1>5. CASE w = "find"
  <2> DEFINE G == Greater(d)
  <2>1. List!Added(w, i, d, after)
          = IF List!Search(G) = 0 THEN List!Insert(l.last, d, TRUE)
            ELSE List!Insert(List!Search(G), d, FALSE)
    BY <1>5 DEF List!Added, List!AddFind, List!NULL, Greater
  <2>2. CASE Found(s, G) = {}
    <3>1. List!Search(G) = 0
      BY <2>2, SearchIsFirst
    <3>2. Spot(s, w, i, d, after, l.n + 1) /\ l.n + 1 \in 1..(l.n + 1)
      BY <1>1, <1>5, <2>2 DEF Spot
    <3>3. Grown(List!Insert(l.last, d, TRUE), s, l.n + 1, d)
      <4>1. CASE l.n = 0
        <5>1. l.last = 0 /\ l.n + 1 = 1
          BY <4>1 DEF Ordered, At
        <5> QED
          BY <4>1, <5>1, InsertIntoEmpty
      <4>2. CASE l.n # 0
        <5>1. l.last = s[l.n] /\ l.n \in 1..l.n
          BY <1>1, <4>2 DEF Ordered, At
        <5>2. Grown(List!Insert(s[l.n], d, TRUE), s, IF TRUE THEN l.n + 1 ELSE l.n, d)
          BY <5>1, InsertGrows, Zenon
        <5> QED
          BY <5>1, <5>2
      <4> QED
        BY <4>1, <4>2
    <3> QED
      BY <2>1, <3>1, <3>2, <3>3
  <2>3. CASE Found(s, G) # {}
    <3>1. Found(s, G) \subseteq Nat
      BY <1>1 DEF Found
    <3>2. PICK k \in Found(s, G) : \A j \in Found(s, G) : k <= j
      BY <2>3, <3>1, LeastNat, Zenon
    <3>3. List!Search(G) = s[k]
      BY <3>2, SearchIsFirst
    <3>4. k \in 1..l.n /\ k \in 1..(l.n + 1)
      BY <1>1, <3>2 DEF Found
    <3>5. s[k] # 0
      BY <3>4, ListFacts DEF Ordered, Formed
    <3>6. Spot(s, w, i, d, after, k)
      BY <1>5, <2>3, <3>2 DEF Spot
    <3>7. Grown(List!Insert(s[k], d, FALSE), s, k, d)
      <4>1. Grown(List!Insert(s[k], d, FALSE), s, IF FALSE THEN k + 1 ELSE k, d)
        BY <3>4, InsertGrows, Zenon
      <4> QED
        BY <4>1
    <3> QED
      BY <2>1, <3>3, <3>4, <3>5, <3>6, <3>7
  <2> QED
    BY <2>2, <2>3
<1>6. CASE w = "iter"
  <2>1. List!Added(w, i, d, after) = List!Insert(it, d, after)
    BY <1>6 DEF List!Added
  <2>2. CASE l.n = 0
    <3>1. Live = {}
      BY <2>2 DEF Ordered, Live
    <3>2. it = 0
      BY <1>6, <3>1
    <3>3. Spot(s, w, i, d, after, 1) /\ 1 \in 1..(l.n + 1)
      BY <1>1, <1>6, <2>2 DEF Spot
    <3> QED
      BY <2>1, <2>2, <3>2, <3>3, InsertIntoEmpty
  <2>3. CASE l.n # 0
    <3>1. PICK j \in 1..l.n : s[j] = it
      BY <1>6, <2>3 DEF Ordered, Live
    <3> DEFINE k == IF after THEN j + 1 ELSE j
    <3>2. k \in 1..(l.n + 1)
      BY <1>1
    <3>3. Spot(s, w, i, d, after, k)
      BY <1>6, <2>3, <3>1 DEF Spot
    <3>4. Grown(List!Insert(s[j], d, after), s, k, d)
      BY InsertGrows, Zenon
    <3> HIDE DEF k
    <3> QED
      BY <2>1, <3>1, <3>2, <3>3, <3>4
  <2> QED
    BY <2>2, <2>3
<1> QED
  BY <1>2, <1>3, <1>4, <1>5, <1>6 DEF Places
-----------------------------------------------------------------------------
(* Taking an element out.                                                   *)

\* The sequence without its place k.
Del(s, k) == [i \in 1..(l.n - 1) |-> IF i < k THEN s[i] ELSE s[i + 1]]

\* h is the list without the element at place k.
Shrunk(h, s, k) ==
    /\ Formed(h) /\ Ordered(h, Del(s, k)) /\ h.n = l.n - 1
    /\ DOMAIN h.node = Live \ {s[k]}
    /\ \A y \in Live \ {s[k]} : h.node[y].data = l.node[y].data

\* The links after the neighbours of the element were linked to each other.
Joined(h, s, k) ==
    /\ h = [node |-> h.node, first |-> IF k = 1 THEN At(s, l.n, 2) ELSE l.first,
            last |-> IF k = l.n THEN At(s, l.n, l.n - 1) ELSE l.last, n |-> l.n - 1]
    /\ h.node \in [Live \ {s[k]} -> Cells]
    /\ \A y \in Live \ {s[k]} :
          h.node[y] = [data |-> l.node[y].data,
                       prev |-> IF y = At(s, l.n, k + 1) THEN At(s, l.n, k - 1) ELSE l.node[y].prev,
                       next |-> IF y = At(s, l.n, k - 1) THEN At(s, l.n, k + 1) ELSE l.node[y].next]

\* The ends after an element was cut off: both functions that move them agree.
LEMMA CutEnds ==
    ASSUME Formed(l), NEW s, Ordered(l, s), NEW k \in 1..l.n,
           NEW w, w = "first" => k = 1, w = "last" => k = l.n
    PROVE  List!Cut(w, s[k]) =
              [node |-> List!UpdateLinks(l.node, At(s, l.n, k - 1), 0, At(s, l.n, k + 1)),
               first |-> IF k = 1 THEN At(s, l.n, 2) ELSE l.first,
               last |-> IF k = l.n THEN At(s, l.n, l.n - 1) ELSE l.last, n |-> l.n]
<1> DEFINE e == s[k]
           m == List!UpdateLinks(l.node, At(s, l.n, k - 1), 0, At(s, l.n, k + 1))
           u == List!Unlinked(e)
           ab == At(s, l.n, 2)
           be == At(s, l.n, l.n - 1)
<1>1. l.n \in Nat /\ l.first = s[1] /\ l.last = s[l.n] /\ 1 \in 1..l.n /\ l.n \in 1..l.n
  BY DEF Ordered, At
<1>2. l.node[e].prev = At(s, l.n, k - 1) /\ l.node[e].next = At(s, l.n, k + 1)
  BY DEF Ordered
<1>3. e = l.first <=> k = 1
  BY <1>1 DEF Ordered
<1>4. e = l.last <=> k = l.n
  BY <1>1 DEF Ordered
<1>5. l.first # 0 /\ l.last # 0
  BY <1>1, ListFacts DEF Ordered, Formed
<1>6. ab # l.first /\ (ab = 0 <=> l.n = 1)
  <2>1. ab = 0 <=> 2 \notin 1..l.n
    BY AtFacts
  <2>2. 2 \in 1..l.n => ab = s[2] /\ s[2] # s[1]
    BY <1>1 DEF At, Ordered
  <2> HIDE DEF ab
  <2> QED
    BY <1>1, <1>5, <2>1, <2>2
<1>7. be = 0 <=> l.n = 1
  <2>1. be = 0 <=> l.n - 1 \notin 1..l.n
    BY <1>1, AtFacts
  <2> HIDE DEF be
  <2> QED
    BY <1>1, <2>1
<1>8. u = [node |-> m, first |-> l.first, last |-> l.last, n |-> l.n]
  <2>1. u = [l EXCEPT !.node = m]
    BY <1>2 DEF List!Unlinked, List!NULL
  <2>2. l = [node |-> l.node, first |-> l.first, last |-> l.last, n |-> l.n]
    BY DEF Formed
  <2> HIDE DEF u, m
  <2> QED
    BY <2>1, <2>2
<1> DEFINE g == [node |-> m, first |-> IF k = 1 THEN ab ELSE l.first,
                 last |-> IF k = l.n THEN be ELSE l.last, n |-> l.n]
<1> SUFFICES List!Cut(w, e) = g
  OBVIOUS
<1>9. CASE w = "first" \/ (w # "last" /\ k = 1)
  <2>1. k = 1 /\ k + 1 = 2
    BY <1>9
  <2>2. List!Cut(w, e) = List!UpdateDesc(u, l.node[e].next, l.last)
    BY <1>3, <1>9 DEF List!Cut
  <2>3. l.node[e].next = ab
    BY <1>2, <2>1
  <2> HIDE DEF u, m, ab, be, e
  <2>4. List!UpdateDesc(u, ab, l.last)
          = [u EXCEPT !.first = ab, !.last = IF ab = 0 THEN ab ELSE @]
    BY <1>5, <1>6, <1>8 DEF List!UpdateDesc, List!NULL
  <2>5. List!UpdateDesc(u, ab, l.last)
          = [node |-> m, first |-> ab, last |-> IF ab = 0 THEN ab ELSE l.last, n |-> l.n]
    BY <1>8, <2>4
  <2>6. (IF ab = 0 THEN ab ELSE l.last) = IF k = l.n THEN be ELSE l.last
    BY <1>1, <1>6, <1>7, <2>1
  <2> QED
    BY <2>1, <2>2, <2>3, <2>5, <2>6
<1>10. CASE w # "first" /\ (w = "last" \/ k # 1) /\ k = l.n
  <2>2. List!Cut(w, e) = List!UpdateDesc(u, l.first, l.node[e].prev)
    BY <1>3, <1>4, <1>10 DEF List!Cut
  <2>3. l.node[e].prev = be
    BY <1>2, <1>10
  <2>7. (IF be = 0 THEN be ELSE l.first) = IF k = 1 THEN ab ELSE l.first
    <3> HIDE DEF ab, be
    <3> QED
      BY <1>1, <1>6, <1>7, <1>10
  <2> HIDE DEF u, m, ab, be, e
  <2>4. List!UpdateDesc(u, l.first, be)
          = [u EXCEPT !.last = be, !.first = IF be = 0 THEN be ELSE @]
    BY <1>5, <1>8 DEF List!UpdateDesc, List!NULL
  <2>5. List!UpdateDesc(u, l.first, be)
          = [node |-> m, first |-> IF be = 0 THEN be ELSE l.first, last |-> be, n |-> l.n]
    BY <1>8, <2>4
  <2> QED
    BY <1>10, <2>2, <2>3, <2>5, <2>7
<1>11. CASE w # "first" /\ w # "last" /\ k # 1 /\ k # l.n
  <2>1. List!Cut(w, e) = u
    BY <1>3, <1>4, <1>11 DEF List!Cut
  <2> HIDE DEF u, m, ab, be, e
  <2> QED
    BY <1>8, <1>11, <2>1
<1> HIDE DEF m, ab, be, e, g
<1> QED
  BY <1>9, <1>10, <1>11

LEMMA CutLinks ==
    ASSUME Formed(l), NEW s, Ordered(l, s), NEW k \in 1..l.n,
           NEW w, w = "first" => k = 1, w = "last" => k = l.n,
           NEW h, h = List!Without(List!Cut(w, s[k]), s[k])
    PROVE  Joined(h, s, k)
<1> DEFINE e == s[k]
           p == At(s, l.n, k - 1)
           x == At(s, l.n, k + 1)
           m == List!UpdateLinks(l.node, p, 0, x)
           fi == IF k = 1 THEN At(s, l.n, 2) ELSE l.first
           la == IF k = l.n THEN At(s, l.n, l.n - 1) ELSE l.last
           c == List!Cut(w, e)
           m2 == [y \in Live \ {e} |-> m[y]]
<1>1. l.n \in Nat /\ k \in Int /\ k - 1 \in Int /\ k + 1 \in Int /\ 0 \notin Live /\ Live \subseteq Elems
  BY ListFacts DEF Ordered, Formed, Live
<1>2. p \in Live \cup {0} /\ x \in Live \cup {0}
  BY <1>1, AtFacts
<1>3. c = [node |-> m, first |-> fi, last |-> la, n |-> l.n]
  BY CutEnds, Zenon
<1>4. m = [y \in Live |-> [data |-> l.node[y].data,
             prev |-> IF y = x THEN p ELSE l.node[y].prev,
             next |-> IF y = p THEN x ELSE l.node[y].next]]
  <2> HIDE DEF p, x
  <2> QED
    BY <1>1 DEF List!UpdateLinks, List!NULL, Live
<1> HIDE DEF m, fi, la, c
<1>5. h = [node |-> m2, first |-> fi, last |-> la, n |-> l.n - 1]
  <2>1. h = List!Without(c, e)
    BY DEF c
  <2>2. DOMAIN m = Live
    BY <1>4
  <2>3. c.node = m
    BY <1>3
  <2>4. h = [c EXCEPT !.n = @ - 1, !.node = m2]
    <3> HIDE DEF e
    <3> QED
      BY <2>1, <2>2, <2>3 DEF List!Without
  <2> HIDE DEF m2
  <2> QED
    BY <1>3, <2>4
<1> HIDE DEF e, p, x
<1>6. ASSUME NEW y \in Live \ {e}
      PROVE  m2[y] = [data |-> l.node[y].data,
                      prev |-> IF y = x THEN p ELSE l.node[y].prev,
                      next |-> IF y = p THEN x ELSE l.node[y].next]
  BY <1>4
<1>7. m2 \in [Live \ {e} -> Cells]
  <2>1. ASSUME NEW y \in Live \ {e} PROVE m2[y] \in Cells
    <3> HIDE DEF m2
    <3> DEFINE pv == IF y = x THEN p ELSE l.node[y].prev
               nx == IF y = p THEN x ELSE l.node[y].next
    <3>1. l.node[y] \in Cells
      BY DEF Formed, Live
    <3>2. l.node[y].data \in Data /\ pv \in Elems \cup {0} /\ nx \in Elems \cup {0}
      BY <1>1, <1>2, <3>1 DEF Cells
    <3>3. m2[y] = [data |-> l.node[y].data, prev |-> pv, next |-> nx]
      BY <1>6
    <3> HIDE DEF pv, nx
    <3> QED
      BY <3>2, <3>3 DEF Cells
  <2>2. m2 = [y \in Live \ {e} |-> m2[y]]
    OBVIOUS
  <2> HIDE DEF m2
  <2> QED
    BY <2>1, <2>2
<1> HIDE DEF m2
<1>8. h.node = m2
  BY <1>5
<1>9. /\ h = [node |-> h.node, first |-> fi, last |-> la, n |-> l.n - 1]
      /\ h.node \in [Live \ {e} -> Cells]
      /\ \A y \in Live \ {e} :
            h.node[y] = [data |-> l.node[y].data,
                         prev |-> IF y = x THEN p ELSE l.node[y].prev,
                         next |-> IF y = p THEN x ELSE l.node[y].next]
  BY <1>5, <1>6, <1>7, <1>8
<1> QED
  BY <1>9 DEF Joined, e, p, x, fi, la

\* These links are a removal.
LEMMA RemovalOrdered ==
    ASSUME Formed(l), NEW s, Ordered(l, s), NEW k \in 1..l.n, NEW h, Joined(h, s, k)
    PROVE  Shrunk(h, s, k)
<1> DEFINE e == s[k]
           t == Del(s, k)
           N == l.n - 1
<1>1. l.n \in Nat /\ N \in Nat /\ s \in [1..l.n -> Live] /\ 0 \notin Live
  BY ListFacts DEF Ordered, Formed, Live
<1>2. /\ h.n = N
      /\ h.first = (IF k = 1 THEN At(s, l.n, 2) ELSE l.first)
      /\ h.last = (IF k = l.n THEN At(s, l.n, l.n - 1) ELSE l.last)
  <2>1. PICK nd : h = [node |-> nd, first |-> IF k = 1 THEN At(s, l.n, 2) ELSE l.first,
                       last |-> IF k = l.n THEN At(s, l.n, l.n - 1) ELSE l.last, n |-> l.n - 1]
    BY DEF Joined
  <2> QED
    BY <2>1
<1>3. /\ h.node \in [Live \ {e} -> Cells]
      /\ \A y \in Live \ {e} :
            h.node[y] = [data |-> l.node[y].data,
                         prev |-> IF y = At(s, l.n, k + 1) THEN At(s, l.n, k - 1) ELSE l.node[y].prev,
                         next |-> IF y = At(s, l.n, k - 1) THEN At(s, l.n, k + 1) ELSE l.node[y].next]
  BY DEF Joined
<1>4. DOMAIN h.node = Live \ {e}
  BY <1>3
<1>5. Formed(h)
  <2>1. Cardinality(Live \ {e}) = N
    <3>1. IsFiniteSet(Live)
      BY ListFacts, FS_Subset DEF Formed, Live
    <3>2. e \in Live /\ Cardinality(Live) = l.n
      BY <1>1 DEF Formed, Live
    <3> QED
      BY <3>1, <3>2, FS_RemoveElement
  <2>2. Live \subseteq Elems
    BY DEF Formed, Live
  <2>3. h = [node |-> h.node, first |-> h.first, last |-> h.last, n |-> h.n]
    <3>1. PICK nd : h = [node |-> nd, first |-> IF k = 1 THEN At(s, l.n, 2) ELSE l.first,
                         last |-> IF k = l.n THEN At(s, l.n, l.n - 1) ELSE l.last, n |-> l.n - 1]
      BY DEF Joined
    <3> QED
      BY <3>1
  <2> HIDE DEF e, N
  <2> QED
    BY <1>2, <1>3, <1>4, <2>1, <2>2, <2>3, Zenon DEF Formed
<1> HIDE DEF e
<1>6. \A i \in 1..N : t[i] = IF i < k THEN s[i] ELSE s[i + 1]
  BY DEF Del
<1> DEFINE at(i) == IF i < k THEN i ELSE i + 1
<1>7. ASSUME NEW i \in 1..N
      PROVE at(i) \in 1..l.n /\ at(i) # k /\ t[i] = s[at(i)] /\ t[i] \in Live \ {e}
  <2>1. at(i) \in 1..l.n /\ at(i) # k /\ t[i] = s[at(i)]
    BY <1>1, <1>6
  <2>2. s[at(i)] \in Live /\ s[at(i)] # s[k]
    <3> HIDE DEF at
    <3> QED
      BY <1>1, <2>1 DEF Ordered
  <2> QED
    BY <2>1, <2>2 DEF e
<1>8. t \in [1..N -> Live \ {e}]
  <2>1. t = [i \in 1..N |-> t[i]]
    BY DEF Del
  <2> HIDE DEF t
  <2> QED
    BY <1>7, <2>1
<1> HIDE DEF t
<1>9. ASSUME NEW y \in Live \ {e} PROVE \E i \in 1..N : t[i] = y
  <2>1. PICK j \in 1..l.n : s[j] = y
    BY DEF Ordered, Live
  <2>2. j # k
    BY <2>1 DEF e
  <2>3. j < k => j \in 1..N /\ t[j] = y
    BY <1>1, <1>6, <2>1
  <2>4. j > k => j - 1 \in 1..N /\ t[j - 1] = y
    BY <1>1, <1>6, <2>1
  <2> QED
    BY <2>2, <2>3, <2>4
<1>10. ASSUME NEW i \in 1..N, NEW j \in 1..N, t[i] = t[j] PROVE i = j
  <2>1. at(i) = at(j)
    <3>1. at(i) \in 1..l.n /\ at(j) \in 1..l.n /\ s[at(i)] = s[at(j)]
      BY <1>7, <1>10
    <3> HIDE DEF at
    <3> QED
      BY <3>1 DEF Ordered
  <2> QED
    BY <1>1, <2>1
<1>11. h.first = At(t, N, 1)
  <2>1. l.first = s[1]
    BY <1>1 DEF Ordered, At
  <2>2. CASE k = 1
    <3>1. At(s, l.n, 2) = At(t, N, 1)
      BY <1>1, <1>6, <2>2 DEF At
    <3> QED
      BY <1>2, <2>2, <3>1
  <2>3. CASE k # 1
    <3>1. 1 \in 1..N /\ t[1] = s[1]
      BY <1>1, <1>6, <2>3
    <3> QED
      BY <1>2, <2>1, <2>3, <3>1 DEF At
  <2> QED
    BY <2>2, <2>3
<1>12. h.last = At(t, N, N)
  <2>1. l.last = s[l.n]
    BY <1>1 DEF Ordered, At
  <2>2. CASE k = l.n
    <3>1. At(s, l.n, l.n - 1) = At(t, N, N)
      BY <1>1, <1>6, <2>2 DEF At
    <3> QED
      BY <1>2, <2>2, <3>1
  <2>3. CASE k # l.n
    <3>1. N \in 1..N /\ t[N] = s[l.n]
      BY <1>1, <1>6, <2>3
    <3> QED
      BY <1>2, <2>1, <2>3, <3>1 DEF At
  <2> QED
    BY <2>2, <2>3
<1>13. ASSUME NEW i \in 1..N
       PROVE  h.node[t[i]].prev = At(t, N, i - 1) /\ h.node[t[i]].next = At(t, N, i + 1)
  <2>1. ASSUME NEW j \in 1..l.n, j # k, t[i] = s[j]
        PROVE  /\ h.node[t[i]].prev = IF j = k + 1 THEN At(s, l.n, k - 1) ELSE At(s, l.n, j - 1)
               /\ h.node[t[i]].next = IF j = k - 1 THEN At(s, l.n, k + 1) ELSE At(s, l.n, j + 1)
    <3>1. s[j] = At(s, l.n, k + 1) <=> j = k + 1
      BY <1>1 DEF At, Ordered
    <3>2. s[j] = At(s, l.n, k - 1) <=> j = k - 1
      BY <1>1 DEF At, Ordered
    <3>3. l.node[s[j]].prev = At(s, l.n, j - 1) /\ l.node[s[j]].next = At(s, l.n, j + 1)
      BY DEF Ordered
    <3>4. s[j] \in Live \ {e}
      BY <1>7, <2>1
    <3>5. h.node[s[j]] =
            [data |-> l.node[s[j]].data,
             prev |-> IF s[j] = At(s, l.n, k + 1) THEN At(s, l.n, k - 1) ELSE l.node[s[j]].prev,
             next |-> IF s[j] = At(s, l.n, k - 1) THEN At(s, l.n, k + 1) ELSE l.node[s[j]].next]
      BY <1>3, <3>4
    <3> QED
      BY <2>1, <3>1, <3>2, <3>3, <3>5
  <2>2. CASE i < k
    <3>1. i \in 1..l.n /\ t[i] = s[i] /\ i # k /\ i # k + 1
      BY <1>1, <1>6, <2>2
    <3>2. At(s, l.n, i - 1) = At(t, N, i - 1)
      BY <1>1, <1>6, <2>2 DEF At
    <3>3. (IF i = k - 1 THEN At(s, l.n, k + 1) ELSE At(s, l.n, i + 1)) = At(t, N, i + 1)
      BY <1>1, <1>6, <2>2 DEF At
    <3> QED
      BY <2>1, <3>1, <3>2, <3>3
  <2>3. CASE ~(i < k)
    <3>1. i + 1 \in 1..l.n /\ t[i] = s[i + 1] /\ i + 1 # k /\ i + 1 # k - 1
      BY <1>1, <1>6, <2>3
    <3>2. (IF i + 1 = k + 1 THEN At(s, l.n, k - 1) ELSE At(s, l.n, (i + 1) - 1)) = At(t, N, i - 1)
      BY <1>1, <1>6, <2>3 DEF At
    <3>3. At(s, l.n, (i + 1) + 1) = At(t, N, i + 1)
      BY <1>1, <1>6, <2>3 DEF At
    <3> QED
      BY <2>1, <3>1, <3>2, <3>3
  <2> QED
    BY <2>2, <2>3
<1>14. Ordered(h, t)
  <2> HIDE DEF N
  <2> QED
    BY <1>1, <1>2, <1>4, <1>8, <1>9, <1>10, <1>11, <1>12, <1>13 DEF Ordered
<1>15. ASSUME NEW y \in Live \ {e} PROVE h.node[y].data = l.node[y].data
  <2>1. h.node[y] = [data |-> l.node[y].data,
                     prev |-> IF y = At(s, l.n, k + 1) THEN At(s, l.n, k - 1) ELSE l.node[y].prev,
                     next |-> IF y = At(s, l.n, k - 1) THEN At(s, l.n, k + 1) ELSE l.node[y].next]
    BY <1>3
  <2> QED
    BY <2>1
<1> QED
  BY <1>2, <1>4, <1>5, <1>14, <1>15, Zenon DEF Shrunk, t, e, N
-----------------------------------------------------------------------------
(* The invariant.                                                           *)

\* The place of the element that a function is about, 0 when there is none.
Where(s, w, i, d, k) ==
    /\ w = "first" => k = IF l.n = 0 THEN 0 ELSE 1
    /\ w = "last" => k = l.n
    /\ w = "idx" => k = IF i < l.n THEN i + 1 ELSE 0
    /\ w = "find" => IF Found(s, {d}) = {} THEN k = 0
                     ELSE k \in Found(s, {d}) /\ \A j \in Found(s, {d}) : k <= j
    /\ w = "iter" => IF it = 0 THEN k = 0 ELSE k # 0 /\ s[k] = it

LEMMA PickIsPlace ==
    ASSUME Formed(l), NEW s, Ordered(l, s), NEW w \in Places, NEW i \in 0..MaxIdx, NEW d,
           w = "iter" => it \in Live \cup {0}
    PROVE  \E k \in 0..l.n : Where(s, w, i, d, k) /\ List!Pick(w, i, d) = At(s, l.n, k)
<1>1. l.n \in Nat /\ i \in Nat
  BY ListFacts DEF Ordered
<1>2. CASE w = "first"
  <2> DEFINE k == IF l.n = 0 THEN 0 ELSE 1
  <2>1. List!Pick(w, i, d) = l.first
    BY <1>2 DEF List!Pick
  <2>2. l.first = At(s, l.n, k)
    BY <1>1 DEF Ordered, At
  <2> QED
    BY <1>1, <1>2, <2>1, <2>2 DEF Where
<1>3. CASE w = "last"
  <2>1. List!Pick(w, i, d) = l.last
    BY <1>3 DEF List!Pick
  <2>2. l.last = At(s, l.n, l.n) /\ l.n \in 0..l.n
    BY <1>1 DEF Ordered
  <2> QED
    BY <1>3, <2>1, <2>2 DEF Where
<1>4. CASE w = "idx"
  <2> DEFINE k == IF i < l.n THEN i + 1 ELSE 0
  <2>1. List!Pick(w, i, d) = List!Step(At(s, l.n, 1), i)
    BY <1>4 DEF List!Pick, Ordered
  <2>2. List!Step(At(s, l.n, 1), i) = IF 1 \in 1..l.n THEN At(s, l.n, 1 + i) ELSE 0
    BY <1>1, StepIsAt
  <2>3. (IF 1 \in 1..l.n THEN At(s, l.n, 1 + i) ELSE 0) = At(s, l.n, k)
    BY <1>1 DEF At
  <2>4. k \in 0..l.n /\ Where(s, w, i, d, k)
    BY <1>1, <1>4 DEF Where
  <2> HIDE DEF k
  <2> QED
    BY <2>1, <2>2, <2>3, <2>4
<1>5. CASE w = "find"
  <2>1. List!Pick(w, i, d) = List!Search({d})
    BY <1>5 DEF List!Pick
  <2>2. CASE Found(s, {d}) = {}
    <3>1. List!Search({d}) = At(s, l.n, 0)
      BY <2>2, SearchIsFirst DEF At
    <3> QED
      BY <1>1, <1>5, <2>1, <2>2, <3>1 DEF Where
  <2>3. CASE Found(s, {d}) # {}
    <3>1. Found(s, {d}) \subseteq Nat
      BY <1>1 DEF Found
    <3>2. PICK k \in Found(s, {d}) : \A j \in Found(s, {d}) : k <= j
      BY <2>3, <3>1, LeastNat, Zenon
    <3>3. List!Search({d}) = s[k]
      BY <3>2, SearchIsFirst
    <3>4. k \in 1..l.n /\ k \in 0..l.n
      BY <1>1, <3>2 DEF Found
    <3>5. Where(s, w, i, d, k)
      BY <1>5, <2>3, <3>2 DEF Where
    <3> QED
      BY <2>1, <3>3, <3>4, <3>5 DEF At
  <2> QED
    BY <2>2, <2>3
<1>6. CASE w = "iter"
  <2>1. List!Pick(w, i, d) = it
    BY <1>6 DEF List!Pick
  <2>2. CASE it = 0
    <3>1. Where(s, w, i, d, 0) /\ At(s, l.n, 0) = 0 /\ 0 \in 0..l.n
      BY <1>1, <1>6, <2>2 DEF Where, At
    <3> QED
      BY <2>1, <2>2, <3>1
  <2>3. CASE it # 0
    <3>1. PICK k \in 1..l.n : s[k] = it
      BY <1>6, <2>3 DEF Ordered, Live
    <3>2. k \in 0..l.n /\ k # 0
      BY <1>1
    <3>3. Where(s, w, i, d, k)
      BY <1>6, <2>3, <3>1, <3>2 DEF Where
    <3> QED
      BY <2>1, <3>1, <3>2, <3>3 DEF At
  <2> QED
    BY <2>2, <2>3
<1> QED
  BY <1>2, <1>3, <1>4, <1>5, <1>6 DEF Places

\* h is the list with new data in the element e.
Edited(h, e, new) ==
    /\ Formed(h) /\ h.n = l.n /\ DOMAIN h.node = Live
    /\ \A s : Ordered(l, s) => Ordered(h, s)
    /\ \A y \in Live : h.node[y].data = IF y = e THEN new ELSE l.node[y].data

LEMMA EditKeeps ==
    ASSUME Formed(l), NEW e \in Live, NEW new \in Data, NEW h,
           h = [l EXCEPT !.node[e].data = new]
    PROVE  Edited(h, e, new)
<1> DEFINE m == [l.node EXCEPT ![e].data = new]
<1>1. h = [node |-> m, first |-> l.first, last |-> l.last, n |-> l.n]
  <2>1. l = [node |-> l.node, first |-> l.first, last |-> l.last, n |-> l.n]
    BY DEF Formed
  <2>2. h = [l EXCEPT !.node = m]
    OBVIOUS
  <2> HIDE DEF m
  <2> QED
    BY <2>1, <2>2
<1>2. l.node \in [Live -> Cells]
  BY DEF Formed, Live
<1>3. m \in [Live -> Cells]
  BY <1>2 DEF Cells
<1>4. ASSUME NEW y \in Live
      PROVE  /\ m[y].prev = l.node[y].prev /\ m[y].next = l.node[y].next
             /\ m[y].data = IF y = e THEN new ELSE l.node[y].data
  BY <1>2 DEF Cells
<1> HIDE DEF m
<1>5. h.node = m /\ h.first = l.first /\ h.last = l.last /\ h.n = l.n
  BY <1>1
<1>6. DOMAIN h.node = Live
  BY <1>3, <1>5
<1>7. Formed(h)
  BY <1>1, <1>3, <1>5, <1>6 DEF Formed, Live
<1>8. ASSUME NEW s, Ordered(l, s) PROVE Ordered(h, s)
  <2>1. /\ h.n \in Nat /\ s \in [1..h.n -> DOMAIN h.node]
        /\ \A y \in DOMAIN h.node : \E k \in 1..h.n : s[k] = y
        /\ \A j, k \in 1..h.n : s[j] = s[k] => j = k
        /\ h.first = At(s, h.n, 1) /\ h.last = At(s, h.n, h.n)
    BY <1>5, <1>6, <1>8, Zenon DEF Ordered, Live
  <2>2. ASSUME NEW k \in 1..h.n
        PROVE h.node[s[k]].prev = At(s, h.n, k - 1) /\ h.node[s[k]].next = At(s, h.n, k + 1)
    <3>1. s[k] \in Live /\ k \in 1..l.n
      BY <1>5, <1>6, <2>1
    <3>2. l.node[s[k]].prev = At(s, l.n, k - 1) /\ l.node[s[k]].next = At(s, l.n, k + 1)
      BY <1>8, <3>1 DEF Ordered
    <3> QED
      BY <1>4, <1>5, <3>1, <3>2
  <2> QED
    BY <2>1, <2>2 DEF Ordered
<1> QED
  BY <1>4, <1>5, <1>6, <1>7, <1>8 DEF Edited

LEMMA EmptyWhole == Formed(List!Empty) /\ Ordered(List!Empty, <<>>)
<1>1. DOMAIN List!Empty.node = {} /\ List!Empty.n = 0 /\ List!Empty.first = 0 /\ List!Empty.last = 0
  BY DEF List!Empty, List!NULL
<1>2. Cardinality({}) = 0
  BY FS_EmptySet
<1>3. List!Empty.node \in [{} -> Cells]
  BY DEF List!Empty
<1>4. List!Empty = [node |-> List!Empty.node, first |-> List!Empty.first,
                    last |-> List!Empty.last, n |-> List!Empty.n]
  BY DEF List!Empty
<1>5. <<>> \in [1..0 -> {}]
  OBVIOUS
<1>6. Formed(List!Empty)
  BY <1>1, <1>2, <1>3, <1>4 DEF Formed
<1>7. Ordered(List!Empty, <<>>)
  BY <1>1, <1>5 DEF Ordered, At
<1> QED
  BY <1>6, <1>7

LEMMA ListStart == ASSUME List!Init PROVE ListIInv
BY EmptyWhole DEF List!Init, List!Off, ListIInv

\* What an iterator may be at.
LEMMA GotoKeeps ==
    ASSUME ListIInv, NEW w, NEW e \in Live \cup {0}, NEW i, NEW d, List!Goto(w, e, i, d)
    PROVE  ListIInv'
BY DEF ListIInv, List!Goto, List!NULL, Live

\* Every step keeps the invariant.
LEMMA ReadKeeps ==
    ASSUME ListIInv, NEW w \in Places, NEW i \in 0..MaxIdx, NEW d \in Data, List!Read(w, i, d)
    PROVE  ListIInv'
BY DEF ListIInv, List!Read, Live

LEMMA EditStepKeeps ==
    ASSUME ListIInv, NEW w \in Places, NEW i \in 0..MaxIdx, NEW d \in Data, NEW new \in Data,
           List!Edit(w, i, d, new)
    PROVE  ListIInv'
<1>1. PICK s : Ordered(l, s)
  BY DEF ListIInv
<1>2. w = "iter" => it \in Live \cup {0}
  BY DEF List!Edit, List!Usable, List!Live, List!NULL, Live
<1>3. List!Pick(w, i, d) \in Live \cup {0}
  <2>1. PICK k \in 0..l.n : List!Pick(w, i, d) = At(s, l.n, k)
    BY <1>1, <1>2, PickIsPlace DEF ListIInv
  <2> QED
    BY <1>1, <2>1, AtFacts DEF ListIInv
<1>4. CASE UNCHANGED l
  BY <1>4 DEF ListIInv, List!Edit, List!FollowsNull, Live
<1>5. CASE List!Pick(w, i, d) \in Live /\ l' = [l EXCEPT !.node[List!Pick(w, i, d)].data = new]
  <2>1. Edited(l', List!Pick(w, i, d), new)
    BY <1>5, EditKeeps DEF ListIInv
  <2> QED
    BY <1>1, <2>1 DEF Edited, ListIInv, List!Edit, List!FollowsNull, Live
<1> QED
  BY <1>3, <1>4, <1>5 DEF List!Edit, List!FollowsNull, List!NULL

\* Removing the element at place k.
LEMMA WithoutShrinks ==
    ASSUME Formed(l), NEW s, Ordered(l, s), NEW k \in 1..l.n, NEW w \in Places, NEW i, NEW d,
           Where(s, w, i, d, k)
    PROVE  /\ Shrunk(List!Without(List!Cut(w, s[k]), s[k]), s, k)
           /\ List!After(List!Cut(w, s[k]), s[k]) = At(s, l.n, k + 1)
<1>1. w = "first" => k = 1
  BY DEF Where
<1>2. w = "last" => k = l.n
  BY DEF Where
<1>3. Shrunk(List!Without(List!Cut(w, s[k]), s[k]), s, k)
  <2>1. PICK h : h = List!Without(List!Cut(w, s[k]), s[k])
    OBVIOUS
  <2>2. Joined(h, s, k)
    BY <1>1, <1>2, <2>1, CutLinks, Zenon
  <2> QED
    BY <2>1, <2>2, RemovalOrdered
<1>4. List!After(List!Cut(w, s[k]), s[k]) = At(s, l.n, k + 1)
  <2>1. PICK c : c = List!Cut(w, s[k])
    OBVIOUS
  <2>2. c = [node |-> List!UpdateLinks(l.node, At(s, l.n, k - 1), 0, At(s, l.n, k + 1)),
             first |-> IF k = 1 THEN At(s, l.n, 2) ELSE l.first,
             last |-> IF k = l.n THEN At(s, l.n, l.n - 1) ELSE l.last, n |-> l.n]
    BY <1>1, <1>2, <2>1, CutEnds, Zenon
  <2>3. c.last = IF k = l.n THEN At(s, l.n, l.n - 1) ELSE l.last
    BY <2>2
  <2>4. l.n \in Nat /\ s[k] \in Live /\ 0 \notin Live
    BY ListFacts DEF Ordered, Formed, Live
  <2>5. s[k] # c.last
    BY <2>3, <2>4 DEF Ordered, At
  <2>6. List!After(c, s[k]) = l.node[s[k]].next
    BY <2>5 DEF List!After
  <2> QED
    BY <2>1, <2>6 DEF Ordered
<1> QED
  BY <1>3, <1>4

LEMMA GetKeeps ==
    ASSUME ListIInv, NEW w \in Places, NEW i \in 0..MaxIdx, NEW d \in Data, List!Get(w, i, d)
    PROVE  ListIInv'
<1>1. PICK s : Ordered(l, s)
  BY DEF ListIInv
<1>2. w = "iter" => it \in Live \cup {0}
  BY DEF List!Get, List!Usable, List!Live, List!NULL, Live
<1>3. PICK k \in 0..l.n : Where(s, w, i, d, k) /\ List!Pick(w, i, d) = At(s, l.n, k)
  BY <1>1, <1>2, PickIsPlace DEF ListIInv
<1>4. CASE List!Pick(w, i, d) = 0
  BY <1>4 DEF ListIInv, List!Get, List!NULL, Live
<1>5. CASE List!Pick(w, i, d) # 0
  <2>1. k \in 1..l.n /\ List!Pick(w, i, d) = s[k] /\ l.n \in Nat /\ k + 1 \in Int
    BY <1>1, <1>3, <1>5 DEF At, Ordered
  <2>2. /\ l' = List!Without(List!Cut(w, s[k]), s[k])
        /\ it' = IF w = "iter" THEN List!After(List!Cut(w, s[k]), s[k])
                 ELSE IF it = s[k] THEN -1 ELSE it
        /\ ub' = ub
    BY <1>5, <2>1 DEF List!Get, List!NULL, List!Wild
  <2>3. Shrunk(l', s, k) /\ List!After(List!Cut(w, s[k]), s[k]) = At(s, l.n, k + 1)
    BY <1>1, <1>3, <2>1, <2>2, WithoutShrinks DEF ListIInv
  <2>4. At(s, l.n, k + 1) \in (Live \ {s[k]}) \cup {0}
    BY <1>1, <2>1 DEF Ordered, At, Live
  <2>5. it' \in (Live \ {s[k]}) \cup {0, -1, -2}
    <3>1. it \in Live \cup {0, -1, -2}
      BY DEF ListIInv
    <3> QED
      BY <2>2, <2>3, <2>4, <3>1
  <2>6. Formed(l') /\ (\E t : Ordered(l', t)) /\ DOMAIN l'.node = Live \ {s[k]}
    BY <2>3 DEF Shrunk
  <2> QED
    BY <2>2, <2>5, <2>6 DEF ListIInv, Live
<1> QED
  BY <1>4, <1>5

LEMMA AddKeeps ==
    ASSUME ListIInv, NEW w \in Places, NEW i \in 0..MaxIdx, NEW d \in Data, NEW after \in BOOLEAN,
           List!Add(w, i, d, after)
    PROVE  ListIInv'
<1>1. PICK s : Ordered(l, s)
  BY DEF ListIInv
<1>2. ~List!NoPlace(w) => (w = "iter" => it \in Live \/ (it = 0 /\ l.n = 0))
  BY DEF List!Add, List!Usable, List!NoPlace, List!Live, List!NULL, Live
<1>3. CASE List!NoPlace(w) \/ List!NoRoom \/ List!Outside(w, i)
  <2>1. l' = l /\ it' = it /\ ub' \in BOOLEAN
    BY <1>3 DEF ListIInv, List!Add, List!FollowsNull
  <2> QED
    BY <2>1 DEF ListIInv, Live
<1>4. CASE ~List!NoPlace(w) /\ ~List!NoRoom /\ ~List!Outside(w, i)
  <2>1. l' = List!Added(w, i, d, after) /\ it' = it /\ ub' = ub
    BY <1>4 DEF List!Add
  <2>2. PICK k \in 1..(l.n + 1) : Grown(l', s, k, d)
    BY <1>1, <1>2, <1>4, <2>1, AddedGrows DEF ListIInv
  <2>3. Formed(l') /\ (\E t : Ordered(l', t)) /\ DOMAIN l'.node = Live \cup {List!New}
    BY <2>2 DEF Grown
  <2> QED
    BY <2>1, <2>3 DEF ListIInv, Live
<1> QED
  BY <1>3, <1>4

LEMMA MoveKeeps ==
    ASSUME ListIInv, NEW i \in (-MaxIdx)..MaxIdx, List!Move(i) \/ List!MoveTo(i)
    PROVE  ListIInv'
<1>1. PICK s : Ordered(l, s)
  BY DEF ListIInv
<1>2. i \in Int /\ l.n \in Nat
  BY <1>1, ListFacts DEF Ordered
<1>3. ASSUME NEW j \in Int PROVE List!Step(At(s, l.n, j), i) \in Live \cup {0}
  <2>1. At(s, l.n, j + i) \in Live \cup {0}
    BY <1>1, <1>2, AtFacts DEF ListIInv
  <2> QED
    BY <1>1, <1>2, <2>1, StepIsAt DEF ListIInv
<1>4. CASE List!Move(i)
  <2>1. it \in Live \cup {0} /\ List!Goto("iter", List!Step(it, i), i, 0)
    BY <1>4 DEF List!Move, List!Live, List!NULL, Live
  <2>2. PICK j \in 0..l.n : it = At(s, l.n, j)
    BY <1>1, <1>2, <2>1 DEF Ordered, At, Live
  <2> QED
    BY <1>3, <2>1, <2>2, GotoKeeps
<1>5. CASE List!MoveTo(i)
  <2>1. List!Goto("idx", List!Step(IF i < 0 THEN l.last ELSE l.first, i), i, 0)
    BY <1>5 DEF List!MoveTo
  <2>2. l.last = At(s, l.n, l.n) /\ l.first = At(s, l.n, 1)
    BY <1>1 DEF Ordered
  <2>3. List!Step(IF i < 0 THEN l.last ELSE l.first, i) \in Live \cup {0}
    <3>1. CASE i < 0
      BY <1>2, <1>3, <2>2, <3>1
    <3>2. CASE ~(i < 0)
      BY <1>2, <1>3, <2>2, <3>2
    <3> QED
      BY <3>1, <3>2
  <2> QED
    BY <2>1, <2>3, GotoKeeps
<1> QED
  BY <1>4, <1>5

LEMMA MoveFindKeeps ==
    ASSUME ListIInv, NEW d \in Data, List!MoveFind(d)
    PROVE  ListIInv'
<1>1. PICK s : Ordered(l, s)
  BY DEF ListIInv
<1>2. PICK k \in 0..l.n : List!Pick("find", 0, d) = At(s, l.n, k)
  BY <1>1, PickIsPlace, ListFacts DEF ListIInv, Places
<1>3. List!Pick("find", 0, d) \in Live \cup {0}
  BY <1>1, <1>2, AtFacts DEF ListIInv
<1> QED
  BY <1>3, GotoKeeps DEF List!MoveFind

LEMMA IterInitKeeps ==
    ASSUME ListIInv, NEW w \in {"first", "last"}, List!IterInit(w)
    PROVE  ListIInv'
<1>1. PICK s : Ordered(l, s)
  BY DEF ListIInv
<1>2. PICK k \in 0..l.n : List!Pick(w, 0, 0) = At(s, l.n, k)
  BY <1>1, PickIsPlace, ListFacts DEF ListIInv, Places
<1>3. List!Pick(w, 0, 0) \in Live \cup {0}
  BY <1>1, <1>2, AtFacts DEF ListIInv
<1> QED
  BY <1>3 DEF List!IterInit, ListIInv, Live

LEMMA RemovesKeep ==
    ASSUME ListIInv, List!IterRemove \/ List!RemoveList
    PROVE  ListIInv'
<1>1. CASE List!IterRemove
  BY <1>1 DEF List!IterRemove, List!Off, ListIInv, Live
<1>2. CASE List!RemoveList
  BY <1>2, EmptyWhole DEF List!RemoveList, List!Off, ListIInv, Live
<1> QED
  BY <1>1, <1>2

LEMMA ListStep == ASSUME ListIInv, [List!Next]_listVars PROVE ListIInv'
<1>1. CASE UNCHANGED listVars
  BY <1>1 DEF listVars, ListIInv, Live
<1>2. CASE List!Next
  <2>1. ASSUME NEW w \in Places, NEW i \in 0..MaxIdx, NEW d \in Data,
               \/ List!Read(w, i, d) \/ List!Get(w, i, d)
               \/ \E new \in Data : List!Edit(w, i, d, new)
               \/ \E after \in BOOLEAN : List!Add(w, i, d, after)
        PROVE  ListIInv'
    BY <2>1, ReadKeeps, GetKeeps, EditStepKeeps, AddKeeps
  <2> QED
    BY <1>2, <2>1, MoveKeeps, MoveFindKeeps, IterInitKeeps, RemovesKeep DEF List!Next, Places
<1> QED
  BY <1>1, <1>2

\* ListIInv says all that ListInv does.
LEMMA WholeIsDoubly == ListIInv => List!ListInv
<1> SUFFICES ASSUME ListIInv PROVE List!ListInv
  OBVIOUS
<1>1. PICK s : Ordered(l, s)
  BY DEF ListIInv
<1>2. List!Chain = s /\ l.n \in Nat
  <2>1. List!Chain = s
    BY <1>1, ChainIsOrder DEF ListIInv
  <2> QED
    BY <1>1, <2>1 DEF Ordered
<1>3. Live \subseteq Elems /\ 0 \notin Live /\ l.n = Cardinality(Live)
  BY ListFacts DEF ListIInv, Formed, Live
<1>4. l.node \in [Live -> [data : Data, prev : Live \cup {0}, next : Live \cup {0}]]
  <2>1. ASSUME NEW e \in Live
        PROVE  l.node[e] \in [data : Data, prev : Live \cup {0}, next : Live \cup {0}]
    <3>1. PICK k \in 1..l.n : s[k] = e
      BY <1>1 DEF Ordered, Live
    <3>2. l.node[e].prev = At(s, l.n, k - 1) /\ l.node[e].next = At(s, l.n, k + 1)
      BY <1>1, <3>1 DEF Ordered
    <3>3. At(s, l.n, k - 1) \in Live \cup {0} /\ At(s, l.n, k + 1) \in Live \cup {0}
      BY <1>1, <1>2, AtFacts DEF ListIInv
    <3>4. l.node[e] \in Cells
      BY DEF ListIInv, Formed, Live
    <3> QED
      BY <3>2, <3>3, <3>4 DEF Cells
  <2>2. l.node = [e \in Live |-> l.node[e]]
    BY DEF ListIInv, Formed, Live
  <2> QED
    BY <2>1, <2>2
<1>5. l.first = At(s, l.n, 1) /\ l.last = At(s, l.n, l.n)
  BY <1>1 DEF Ordered
<1>6. l.first \in Live \cup {0} /\ l.last \in Live \cup {0}
  BY <1>1, <1>2, <1>5, AtFacts DEF ListIInv
<1>7. List!TypeOK
  BY <1>3, <1>4, <1>6
  DEF List!TypeOK, ListIInv, List!Live, Live, List!NULL, List!Wild, List!Off, List!Cardinality,
      Cardinality
<1>8. List!Doubly
  <2>1. ASSUME NEW k \in 1..l.n
        PROVE  l.node[s[k]].prev = At(s, l.n, k - 1) /\ l.node[s[k]].next = At(s, l.n, k + 1)
    BY <1>1 DEF Ordered
  <2>2. l.n = 0 => l.first = 0 /\ l.last = 0
    BY <1>2, <1>5 DEF At
  <2>3. l.n > 0 => /\ l.first = s[1] /\ l.last = s[l.n]
                   /\ l.node[s[1]].prev = 0 /\ l.node[s[l.n]].next = 0
    BY <1>2, <1>5, <2>1 DEF At
  <2>4. \A k \in 1..(l.n - 1) : l.node[s[k + 1]].prev = s[k]
    BY <1>2, <2>1 DEF At
  <2> QED
    BY <1>2, <2>2, <2>3, <2>4 DEF List!Doubly, List!NULL
<1> QED
  BY <1>7, <1>8 DEF List!ListInv

LEMMA ListHolds == Spec => []ListIInv
<1>1. Init => ListIInv
  BY ListStart DEF Init
<1>2. ListIInv /\ [Next]_vars => ListIInv'
  BY ListStep DEF Next, vars, listVars
<1> QED
  BY <1>1, <1>2, PTL DEF Spec

\* For any memory and any data, in every state both directions of a list describe the
\* same elements, as many as nb_elements says, whatever was added, taken out and moved
\* through (no_os_list.c:125-158).
THEOREM ListWhole == Spec => []ListInv
<1>1. ListIInv => ListInv
  BY WholeIsDoubly DEF ListInv
<1> QED
  BY <1>1, ListHolds, PTL
-----------------------------------------------------------------------------
(* The list as a sequence of data: what ListService is told of it.          *)

Sq == [k \in 1..l.n |-> l.node[List!Chain[k]].data]
Ps == IF it \in List!Live THEN CHOOSE k \in 1..l.n : List!Chain[k] = it ELSE 0

\* q is the data along s, and p the place of the iterator.
Shows(h, i, s, q, p) ==
    /\ h.n \in Nat /\ q \in [1..h.n -> Data] /\ \A k \in 1..h.n : q[k] = h.node[s[k]].data
    /\ i \in DOMAIN h.node => p \in 1..h.n /\ s[p] = i
    /\ i \notin DOMAIN h.node => p = 0

LEMMA ShowsNow == ListIInv => \A s : Ordered(l, s) => Shows(l, it, s, Sq, Ps)
<1> SUFFICES ASSUME ListIInv, NEW s, Ordered(l, s) PROVE Shows(l, it, s, Sq, Ps)
  OBVIOUS
<1>1. List!Chain = s /\ l.n \in Nat
  <2>1. List!Chain = s
    BY ChainIsOrder DEF ListIInv
  <2> QED
    BY <2>1 DEF Ordered
<1>2. \A k \in 1..l.n : l.node[s[k]].data \in Data
  BY DEF ListIInv, Formed, Ordered, Cells
<1>3. Sq \in [1..l.n -> Data] /\ \A k \in 1..l.n : Sq[k] = l.node[s[k]].data
  BY <1>1, <1>2 DEF Sq
<1>4. it \in Live => Ps \in 1..l.n /\ s[Ps] = it
  BY <1>1 DEF Ps, List!Live, Live, Ordered
<1>5. it \notin Live => Ps = 0
  BY DEF Ps, List!Live, Live
<1> QED
  BY <1>1, <1>3, <1>4, <1>5 DEF Shows, Live

LEMMA ShowsNext == (ListIInv => \A s : Ordered(l, s) => Shows(l, it, s, Sq, Ps))'
BY ShowsNow, PTL

\* The least of a set of numbers.
LEMMA MinIs ==
    ASSUME NEW T, T \subseteq Nat, NEW k \in T, \A j \in T : k <= j
    PROVE  List!Service!Min(T) = k
<1>1. \E x \in T : \A y \in T : x <= y
  OBVIOUS
<1>2. List!Service!Min(T) \in T /\ \A y \in T : List!Service!Min(T) <= y
  BY <1>1, Zenon DEF List!Service!Min
<1> HIDE DEF List!Service!Min
<1>3. List!Service!Min(T) <= k /\ k <= List!Service!Min(T) /\ List!Service!Min(T) \in Nat /\ k \in Nat
  BY <1>2
<1> QED
  BY <1>3

\* The places that ListService names are the places of the elements.
LEMMA PlaceIs ==
    ASSUME ListIInv, NEW s, Ordered(l, s), NEW w \in Places, NEW i \in 0..MaxIdx, NEW d,
           NEW k \in 0..l.n, Where(s, w, i, d, k), w = "iter" => it \in Live \cup {0}
    PROVE  List!Service!Place(w, i, d) = k
<1>1. Shows(l, it, s, Sq, Ps)
  BY ShowsNow
<1>2. Len(Sq) = l.n /\ (Sq = <<>> <=> l.n = 0) /\ l.n \in Nat /\ i \in Nat
  BY <1>1, ListFacts DEF Shows
<1>3. CASE w = "first"
  <2>1. List!Service!Place(w, i, d) = IF Sq = <<>> THEN 0 ELSE 1
    BY <1>3 DEF List!Service!Place, Sq
  <2> QED
    BY <1>2, <1>3, <2>1 DEF Where
<1>4. CASE w = "last"
  <2>1. List!Service!Place(w, i, d) = Len(Sq)
    BY <1>4 DEF List!Service!Place, Sq
  <2> QED
    BY <1>2, <1>4, <2>1 DEF Where
<1>5. CASE w = "idx"
  <2>1. List!Service!Place(w, i, d) = IF i < Len(Sq) THEN i + 1 ELSE 0
    BY <1>5 DEF List!Service!Place, Sq
  <2> QED
    BY <1>2, <1>5, <2>1 DEF Where
<1>6. CASE w = "find"
  <2> DEFINE T == {j \in 1..Len(Sq) : Sq[j] = d}
  <2>1. List!Service!Place(w, i, d) = IF T = {} THEN 0 ELSE List!Service!Min(T)
    BY <1>6 DEF List!Service!Place, List!Service!FirstWith, Sq
  <2>2. T = Found(s, {d}) /\ T \subseteq Nat
    BY <1>1, <1>2 DEF Shows, Found
  <2> HIDE DEF T
  <2>3. CASE T = {}
    BY <1>6, <2>1, <2>2, <2>3 DEF Where
  <2>4. CASE T # {}
    <3>1. k \in T /\ \A j \in T : k <= j
      BY <1>6, <2>2, <2>4 DEF Where
    <3> QED
      BY <2>1, <2>2, <2>4, <3>1, MinIs
  <2> QED
    BY <2>3, <2>4
<1>7. CASE w = "iter"
  <2>1. List!Service!Place(w, i, d) = Ps
    BY <1>7 DEF List!Service!Place, Ps
  <2>2. CASE it = 0
    <3>1. Ps = 0
      BY <1>1, <2>2, ListFacts DEF Shows, ListIInv, Formed
    <3> QED
      BY <1>7, <2>1, <2>2, <3>1 DEF Where
  <2>3. CASE it # 0
    <3>1. Ps \in 1..l.n /\ s[Ps] = it
      BY <1>1, <1>7, <2>3 DEF Shows, Live
    <3>2. k \in 1..l.n /\ s[k] = it
      BY <1>2, <1>7, <2>3 DEF Where
    <3> QED
      BY <2>1, <3>1, <3>2 DEF Ordered
  <2> QED
    BY <2>2, <2>3
<1> QED
  BY <1>3, <1>4, <1>5, <1>6, <1>7 DEF Places

\* What the operators on sequences do, place by place.
LEMMA RemoveAtIs ==
    ASSUME NEW n \in Nat, NEW q \in [1..n -> Data], NEW k \in 1..n
    PROVE  List!Service!RemoveAt(q, k) = [j \in 1..(n - 1) |-> IF j < k THEN q[j] ELSE q[j + 1]]
<1>1. q \in Seq(Data) /\ Len(q) = n
  OBVIOUS
<1>2. /\ SubSeq(q, 1, k - 1) \in Seq(Data) /\ Len(SubSeq(q, 1, k - 1)) = k - 1
      /\ \A j \in 1..(k - 1) : SubSeq(q, 1, k - 1)[j] = q[j]
  BY <1>1
<1>3. /\ SubSeq(q, k + 1, n) \in Seq(Data) /\ Len(SubSeq(q, k + 1, n)) = n - k
      /\ \A j \in 1..(n - k) : SubSeq(q, k + 1, n)[j] = q[k + j]
  BY <1>1
<1> QED
  BY <1>1, <1>2, <1>3 DEF List!Service!RemoveAt

LEMMA InsertAtIs ==
    ASSUME NEW n \in Nat, NEW q \in [1..n -> Data], NEW k \in 1..(n + 1), NEW d \in Data
    PROVE  List!Service!InsertAt(q, k, d)
              = [j \in 1..(n + 1) |-> IF j < k THEN q[j] ELSE IF j = k THEN d ELSE q[j - 1]]
<1>1. q \in Seq(Data) /\ Len(q) = n
  OBVIOUS
<1>2. /\ SubSeq(q, 1, k - 1) \in Seq(Data) /\ Len(SubSeq(q, 1, k - 1)) = k - 1
      /\ \A j \in 1..(k - 1) : SubSeq(q, 1, k - 1)[j] = q[j]
  BY <1>1
<1>3. /\ SubSeq(q, k, n) \in Seq(Data) /\ Len(SubSeq(q, k, n)) = n - k + 1
      /\ \A j \in 1..(n - k + 1) : SubSeq(q, k, n)[j] = q[k + j - 1]
  BY <1>1
<1> DEFINE A == SubSeq(q, 1, k - 1)
           B == SubSeq(q, k, n)
           C == A \o <<d>>
<1>4. List!Service!InsertAt(q, k, d) = C \o B
  BY <1>1 DEF List!Service!InsertAt
<1> HIDE DEF A, B
<1>5. C \in Seq(Data) /\ Len(C) = k /\ \A j \in 1..k : C[j] = IF j < k THEN q[j] ELSE d
  BY <1>2 DEF A
<1> HIDE DEF C
<1>6. /\ C \o B \in Seq(Data) /\ Len(C \o B) = n + 1
      /\ \A j \in 1..k : (C \o B)[j] = C[j]
      /\ \A j \in (k + 1)..(n + 1) : (C \o B)[j] = B[j - k]
  BY <1>3, <1>5 DEF B
<1>7. \A j \in (k + 1)..(n + 1) : B[j - k] = q[j - 1]
  <2> SUFFICES ASSUME NEW j \in (k + 1)..(n + 1) PROVE B[j - k] = q[j - 1]
    OBVIOUS
  <2>1. j - k \in 1..(n - k + 1) /\ k + (j - k) - 1 = j - 1
    OBVIOUS
  <2> QED
    BY <1>3, <2>1 DEF B
<1>8. \A j \in 1..(n + 1) : (C \o B)[j] = IF j < k THEN q[j] ELSE IF j = k THEN d ELSE q[j - 1]
  BY <1>5, <1>6, <1>7
<1>9. C \o B = [j \in 1..(n + 1) |-> (C \o B)[j]]
  <2> DEFINE W == C \o B
  <2>1. W \in Seq(Data) /\ Len(W) = n + 1
    BY <1>6
  <2> HIDE DEF W
  <2>2. W \in [1..(n + 1) -> Data]
    BY <2>1
  <2>3. W = [j \in 1..(n + 1) |-> W[j]]
    BY <2>2
  <2> QED
    BY <2>3 DEF W
<1> QED
  BY <1>4, <1>8, <1>9

\* A step that leaves list and iterator alone shows nothing.
LEMMA SameShown == ASSUME l' = l, it' = it PROVE Sq' = Sq /\ Ps' = Ps
BY DEF Sq, Ps, List!Chain, List!Step, List!Live

\* Each function does what ListService says.
LEMMA ReadServes ==
    ASSUME ListIInv, NEW w \in Places, NEW i \in 0..MaxIdx, NEW d \in Data, List!Read(w, i, d),
           ListIInv'
    PROVE  List!Service!Read(w, i, d)
<1>1. PICK s : Ordered(l, s)
  BY DEF ListIInv
<1>2. w = "iter" => it \in Live \cup {0}
  BY DEF List!Read, List!Usable, List!Live, List!NULL, Live
<1>3. PICK k \in 0..l.n : Where(s, w, i, d, k) /\ List!Pick(w, i, d) = At(s, l.n, k)
  BY <1>1, <1>2, PickIsPlace DEF ListIInv
<1>4. List!Service!Place(w, i, d) = k
  BY <1>1, <1>2, <1>3, PlaceIs
<1>5. Shows(l, it, s, Sq, Ps)
  BY <1>1, ShowsNow
<1>6. l' = l /\ it' = it
  BY DEF List!Read
<1>7. res' = IF k = 0 THEN -1 ELSE Sq[k]
  BY <1>1, <1>3, <1>5, AtFacts DEF List!Read, List!NULL, List!Failed, Shows, At, ListIInv
<1>8. call' = <<"read", w, i, d>>
  BY DEF List!Read
<1>9. Sq' = Sq /\ Ps' = Ps
  BY <1>6, SameShown
<1> QED
  BY <1>4, <1>7, <1>8, <1>9 DEF List!Service!Read, List!Service!Failed, Sq, Ps

LEMMA EditServes ==
    ASSUME ListIInv, NEW w \in Places, NEW i \in 0..MaxIdx, NEW d \in Data, NEW new \in Data,
           List!Edit(w, i, d, new), ListIInv'
    PROVE  List!Service!Edit(w, i, d, new) \/ List!Service!Stops
<1>1. PICK s : Ordered(l, s)
  BY DEF ListIInv
<1>2. w = "iter" => it \in Live \cup {0}
  BY DEF List!Edit, List!Usable, List!Live, List!NULL, Live
<1>3. PICK k \in 0..l.n : Where(s, w, i, d, k) /\ List!Pick(w, i, d) = At(s, l.n, k)
  BY <1>1, <1>2, PickIsPlace DEF ListIInv
<1>4. List!Service!Place(w, i, d) = k
  BY <1>1, <1>2, <1>3, PlaceIs
<1>5. Shows(l, it, s, Sq, Ps)
  BY <1>1, ShowsNow
<1>6. it' = it /\ (l' = l => Sq' = Sq /\ Ps' = Ps)
  <2>1. it' = it
    BY DEF List!Edit, List!FollowsNull
  <2> QED
    BY <2>1, SameShown
<1>7. List!Pick(w, i, d) = 0 <=> k = 0
  <2>1. At(s, l.n, k) = 0 <=> k \notin 1..l.n
    BY <1>1, AtFacts DEF ListIInv
  <2>2. l.n \in Nat
    BY <1>1 DEF Ordered
  <2> QED
    BY <1>3, <2>1, <2>2
<1>8. CASE /\ k = 0 /\ w \in {"first", "last", "iter"} /\ i = 0
           /\ l' = l /\ call' = <<"edit", w, i, d>> /\ res' = -3
  <2>1. Sq' = Sq /\ Ps' = Ps
    BY <1>6, <1>8
  <2>2. List!Service!Place(w, 0, d) = 0 /\ call' = <<"edit", w, 0, d>>
    BY <1>4, <1>8
  <2> QED
    BY <1>8, <2>1, <2>2 DEF List!Service!Stops, List!Service!Stopped, Sq, Ps
<1>9. CASE /\ call' = <<"edit", w, i, d>> /\ res' = IF k = 0 THEN -1 ELSE new
           /\ l' = IF k = 0 THEN l ELSE [l EXCEPT !.node[s[k]].data = new]
  <2>1. CASE k = 0
    <3>1. Sq' = Sq /\ Ps' = Ps
      BY <1>6, <1>9, <2>1
    <3>2. res' = -1 /\ call' = <<"edit", w, i, d>>
      BY <1>9, <2>1
    <3> QED
      BY <1>4, <2>1, <3>1, <3>2 DEF List!Service!Edit, List!Service!Failed, Sq, Ps
  <2>2. CASE k # 0
    <3>1. k \in 1..l.n /\ s[k] \in Live
      BY <1>1, <2>2 DEF Ordered, Live
    <3>2. Edited(l', s[k], new)
      BY <1>9, <2>2, <3>1, EditKeeps DEF ListIInv
    <3>3. Shows(l', it', s, Sq', Ps')
      BY <1>1, <3>2, ShowsNext DEF Edited
    <3>4. l'.n = l.n /\ l.n \in Nat /\ DOMAIN l'.node = Live
      BY <1>5, <3>2 DEF Edited, Shows
    <3>5. ASSUME NEW j \in 1..l.n PROVE Sq'[j] = IF j = k THEN new ELSE Sq[j]
      <4>1. s[j] \in Live /\ (s[j] = s[k] <=> j = k)
        BY <1>1, <3>1 DEF Ordered, Live
      <4>2. Sq'[j] = l'.node[s[j]].data /\ Sq[j] = l.node[s[j]].data
        BY <1>5, <3>3, <3>4 DEF Shows
      <4> QED
        BY <3>2, <4>1, <4>2 DEF Edited
    <3>6. Sq' = List!Service!ReplaceAt(Sq, k, new)
      <4>1. Sq \in [1..l.n -> Data] /\ Sq' \in [1..l.n -> Data]
        BY <1>5, <3>3, <3>4 DEF Shows
      <4> QED
        BY <3>1, <3>5, <4>1 DEF List!Service!ReplaceAt
    <3>7. Ps' = Ps
      <4>1. it \in Live => Ps \in 1..l.n /\ Ps' \in 1..l.n /\ s[Ps] = it /\ s[Ps'] = it
        BY <1>5, <1>6, <3>3, <3>4 DEF Shows, Live
      <4>2. it \notin Live => Ps = 0 /\ Ps' = 0
        BY <1>5, <1>6, <3>3, <3>4 DEF Shows, Live
      <4> QED
        BY <1>1, <4>1, <4>2 DEF Ordered
    <3>8. res' = new /\ call' = <<"edit", w, i, d>>
      BY <1>9, <2>2
    <3> QED
      BY <1>4, <2>2, <3>6, <3>7, <3>8 DEF List!Service!Edit, Sq, Ps
  <2> QED
    BY <2>1, <2>2
<1>10. List!Pick(w, i, d) = IF k = 0 THEN 0 ELSE s[k]
  BY <1>3, <1>7 DEF At
<1>11. \/ /\ call' = <<"edit", w, i, d>> /\ res' = IF List!Pick(w, i, d) = 0 THEN -1 ELSE new
          /\ l' = IF List!Pick(w, i, d) = 0 THEN l ELSE [l EXCEPT !.node[List!Pick(w, i, d)].data = new]
       \/ /\ List!Pick(w, i, d) = 0 /\ w \in {"first", "last", "iter"}
          /\ l' = l /\ call' = <<"edit", w, i, d>> /\ res' = -3
  BY DEF List!Edit, List!FollowsNull, List!NULL, List!Failed, List!Stopped
<1>12. w \in {"first", "last", "iter"} => i = 0
  BY DEF List!Edit, List!Plain
<1> QED
  BY <1>7, <1>8, <1>9, <1>10, <1>11, <1>12

LEMMA GetServes ==
    ASSUME ListIInv, NEW w \in Places, NEW i \in 0..MaxIdx, NEW d \in Data, List!Get(w, i, d),
           ListIInv'
    PROVE  List!Service!Get(w, i, d) \/ List!Service!PositionLost
<1>1. PICK s : Ordered(l, s)
  BY DEF ListIInv
<1>2. w = "iter" => it \in Live \cup {0}
  BY DEF List!Get, List!Usable, List!Live, List!NULL, Live
<1>3. PICK k \in 0..l.n : Where(s, w, i, d, k) /\ List!Pick(w, i, d) = At(s, l.n, k)
  BY <1>1, <1>2, PickIsPlace DEF ListIInv
<1>4. List!Service!Place(w, i, d) = k
  BY <1>1, <1>2, <1>3, PlaceIs
<1>5. Shows(l, it, s, Sq, Ps)
  BY <1>1, ShowsNow
<1>6. List!Pick(w, i, d) = 0 <=> k = 0
  <2>1. At(s, l.n, k) = 0 <=> k \notin 1..l.n
    BY <1>1, AtFacts DEF ListIInv
  <2>2. l.n \in Nat
    BY <1>1 DEF Ordered
  <2> QED
    BY <1>3, <2>1, <2>2
<1>7. call' = <<"get", w, i, d>>
  BY DEF List!Get
<1>8. l.n \in Nat /\ Sq \in [1..l.n -> Data] /\ Len(Sq) = l.n /\ Ps \in 0..l.n
  BY <1>5 DEF Shows
<1>9. CASE k = 0
  <2>1. l' = l /\ it' = it /\ res' = -1
    BY <1>6, <1>9 DEF List!Get, List!NULL, List!Failed
  <2>2. Sq' = Sq /\ Ps' = Ps
    BY <2>1, SameShown
  <2> QED
    BY <1>4, <1>7, <1>9, <2>1, <2>2 DEF List!Service!Get, List!Service!Failed, Sq, Ps
<1>10. CASE k # 0
  <2>1. k \in 1..l.n /\ List!Pick(w, i, d) = s[k] /\ s[k] \in Live
    BY <1>1, <1>3, <1>10 DEF At, Ordered, Live
  <2>2. /\ l' = List!Without(List!Cut(w, s[k]), s[k]) /\ res' = l.node[s[k]].data
        /\ it' = IF w = "iter" THEN List!After(List!Cut(w, s[k]), s[k])
                 ELSE IF it = s[k] THEN -1 ELSE it
    BY <1>6, <1>10, <2>1 DEF List!Get, List!NULL, List!Wild
  <2>3. Shrunk(l', s, k) /\ List!After(List!Cut(w, s[k]), s[k]) = At(s, l.n, k + 1)
    BY <1>1, <1>3, <2>1, <2>2, WithoutShrinks DEF ListIInv
  <2> DEFINE t == Del(s, k)
             N == l.n - 1
  <2>4. l'.n = N /\ N \in Nat /\ DOMAIN l'.node = Live \ {s[k]} /\ Ordered(l', t)
    BY <1>8, <2>1, <2>3 DEF Shrunk
  <2>5. Shows(l', it', t, Sq', Ps')
    BY <2>4, ShowsNext
  <2>6. \A j \in 1..N : t[j] = IF j < k THEN s[j] ELSE s[j + 1]
    BY DEF Del
  <2>7. res' = Sq[k]
    BY <1>5, <2>1, <2>2 DEF Shows
  <2> HIDE DEF t
  <2>8. Sq' = List!Service!RemoveAt(Sq, k)
    <3>1. Sq' \in [1..N -> Data]
      BY <2>4, <2>5 DEF Shows
    <3>2. ASSUME NEW j \in 1..N PROVE Sq'[j] = IF j < k THEN Sq[j] ELSE Sq[j + 1]
      <4> DEFINE a == IF j < k THEN j ELSE j + 1
      <4>1. a \in 1..l.n /\ a # k /\ t[j] = s[a]
        BY <1>8, <2>1, <2>6
      <4>2. s[a] \in Live \ {s[k]}
        <5> HIDE DEF a
        <5> QED
          BY <1>1, <2>1, <4>1 DEF Ordered, Live
      <4>3. Sq'[j] = l'.node[s[a]].data
        <5>1. Sq'[j] = l'.node[t[j]].data
          BY <2>4, <2>5 DEF Shows
        <5> HIDE DEF a
        <5> QED
          BY <4>1, <5>1
      <4>4. Sq'[j] = Sq[a]
        <5> HIDE DEF a
        <5> QED
          BY <1>5, <2>3, <4>1, <4>2, <4>3 DEF Shows, Shrunk
      <4> QED
        BY <4>4
    <3>3. List!Service!RemoveAt(Sq, k) = [j \in 1..N |-> IF j < k THEN Sq[j] ELSE Sq[j + 1]]
      BY <1>8, <2>1, RemoveAtIs
    <3> QED
      BY <3>1, <3>2, <3>3
  <2>9. ASSUME NEW a \in 1..l.n, a # k, it' = s[a] PROVE Ps' = IF a < k THEN a ELSE a - 1
    <3> DEFINE b == IF a < k THEN a ELSE a - 1
    <3>1. b \in 1..N /\ t[b] = s[a]
      BY <1>8, <2>1, <2>6, <2>9
    <3>2. s[a] \in Live \ {s[k]}
      BY <1>1, <2>1, <2>9 DEF Ordered, Live
    <3>3. Ps' \in 1..N /\ t[Ps'] = s[a]
      BY <2>4, <2>5, <2>9, <3>2 DEF Shows
    <3> HIDE DEF b
    <3>4. \A x, y \in 1..N : t[x] = t[y] => x = y
      BY <2>4 DEF Ordered
    <3>5. Ps' = b
      BY <3>1, <3>3, <3>4
    <3> QED
      BY <3>5 DEF b
  <2>10. it' \notin Live \ {s[k]} => Ps' = 0
    BY <2>4, <2>5 DEF Shows
  <2>11. /\ Ps < k => Ps' = Ps
         /\ Ps > k => Ps' = Ps - 1
         /\ Ps = k => Ps' = IF w = "iter" /\ k < l.n THEN k ELSE 0
    <3>1. it \in Live => Ps \in 1..l.n /\ s[Ps] = it
      BY <1>5 DEF Shows, Live
    <3>2. it \notin Live => Ps = 0
      BY <1>5 DEF Shows, Live
    <3>3. -1 \notin Live /\ 0 \notin Live
      BY ListFacts DEF ListIInv, Formed, Live
    <3>4. CASE w = "iter"
      <4>1. it = s[k]
        BY <1>3, <1>10, <3>4 DEF Where
      <4>2. Ps = k
        BY <1>1, <2>1, <3>1, <4>1 DEF Ordered
      <4>3. it' = At(s, l.n, k + 1)
        BY <2>2, <2>3, <3>4
      <4>4. CASE k < l.n
        <5>1. k + 1 \in 1..l.n /\ k + 1 # k /\ it' = s[k + 1]
          BY <1>8, <2>1, <4>3, <4>4 DEF At
        <5>2. Ps' = k
          BY <2>1, <2>9, <5>1
        <5> QED
          BY <2>1, <3>4, <4>2, <4>4, <5>2
      <4>5. CASE ~(k < l.n)
        <5>1. it' = 0
          BY <1>8, <2>1, <4>3, <4>5 DEF At
        <5> QED
          BY <2>1, <2>10, <3>3, <4>2, <4>5, <5>1
      <4> QED
        BY <4>4, <4>5
    <3>5. CASE w # "iter" /\ it = s[k]
      <4>1. Ps = k /\ it' = -1
        BY <1>1, <2>1, <2>2, <3>1, <3>5 DEF Ordered
      <4> QED
        BY <2>1, <2>10, <3>3, <3>5, <4>1
    <3>6. CASE w # "iter" /\ it # s[k]
      <4>1. it' = it
        BY <2>2, <3>6
      <4>2. CASE it \in Live
        BY <1>8, <2>1, <2>9, <3>1, <3>6, <4>1, <4>2
      <4>3. CASE it \notin Live
        BY <2>1, <2>10, <3>2, <4>1, <4>3
      <4> QED
        BY <4>2, <4>3
    <3> QED
      BY <3>4, <3>5, <3>6
  <2>12. CASE Ps < k
    BY <1>4, <1>7, <1>10, <2>7, <2>8, <2>11, <2>12 DEF List!Service!Get, Sq, Ps
  <2>13. CASE Ps > k
    BY <1>4, <1>7, <1>10, <2>7, <2>8, <2>11, <2>13 DEF List!Service!Get, Sq, Ps
  <2>14. CASE Ps = k /\ ~(w = "iter" /\ k = l.n /\ k > 1)
    <3>1. Ps' = IF w # "iter" THEN 0 ELSE IF k < Len(Sq) THEN k ELSE k - 1
      BY <1>8, <2>1, <2>11, <2>14
    <3>2. ~(Ps < k) /\ ~(Ps > k)
      BY <1>8, <2>1, <2>14
    <3> QED
      BY <1>4, <1>7, <1>8, <1>10, <2>7, <2>8, <3>1, <3>2 DEF List!Service!Get, Sq, Ps
  <2>15. CASE Ps = k /\ w = "iter" /\ k = l.n /\ k > 1
    <3>1. call' = <<"get", "iter", 0, d>>
      BY <1>7, <2>15 DEF List!Get, List!Plain
    <3>2. Ps' = 0 /\ Ps = Len(Sq) /\ Ps > 1 /\ res' = Sq[Ps] /\ Sq' = List!Service!RemoveAt(Sq, Ps)
      BY <1>8, <2>7, <2>8, <2>11, <2>15
    <3> QED
      BY <3>1, <3>2 DEF List!Service!PositionLost, Sq, Ps
  <2> QED
    BY <1>8, <2>1, <2>12, <2>13, <2>14, <2>15
<1> QED
  BY <1>9, <1>10

\* The places where ListService adds are the places where the functions do.
LEMMA AddPlaceIs ==
    ASSUME ListIInv, NEW s, Ordered(l, s), NEW w \in Places, NEW i \in 0..MaxIdx, NEW d \in Data,
           NEW after \in BOOLEAN, ~List!Outside(w, i), w = "iter" => it \in Live \/ (it = 0 /\ l.n = 0),
           NEW k \in 1..(l.n + 1), Spot(s, w, i, d, after, k)
    PROVE  List!Service!AddPlace(w, i, d, after) = k
<1>1. Shows(l, it, s, Sq, Ps)
  BY ShowsNow
<1>2. Len(Sq) = l.n /\ (Sq = <<>> <=> l.n = 0) /\ l.n \in Nat /\ i \in Nat
  BY <1>1, ListFacts DEF Shows
<1>3. CASE w = "first"
  BY <1>3 DEF List!Service!AddPlace, Spot
<1>4. CASE w = "last"
  <2>1. List!Service!AddPlace(w, i, d, after) = Len(Sq) + 1
    BY <1>4 DEF List!Service!AddPlace, Sq
  <2> QED
    BY <1>2, <1>4, <2>1 DEF Spot
<1>5. CASE w = "idx"
  <2>1. List!Service!AddPlace(w, i, d, after)
          = IF Sq = <<>> THEN 1 ELSE IF i <= Len(Sq) THEN i + 1 ELSE 0
    BY <1>5 DEF List!Service!AddPlace, Sq
  <2>2. l.n = 0 \/ i <= l.n
    BY <1>2, <1>5 DEF List!Outside
  <2> QED
    BY <1>2, <1>5, <2>1, <2>2 DEF Spot
<1>6. CASE w = "find"
  <2> DEFINE T == {j \in 1..Len(Sq) : Sq[j] > d}
             f == IF T = {} THEN 0 ELSE List!Service!Min(T)
  <2>1. List!Service!AddPlace(w, i, d, after) = IF f = 0 THEN Len(Sq) + 1 ELSE f
    BY <1>6 DEF List!Service!AddPlace, List!Service!FirstWith, Sq
  <2>2. T = Found(s, Greater(d)) /\ T \subseteq Nat /\ 0 \notin T
    BY <1>1, <1>2 DEF Shows, Found, Greater
  <2> HIDE DEF T
  <2>3. CASE T = {}
    BY <1>2, <1>6, <2>1, <2>2, <2>3 DEF Spot
  <2>4. CASE T # {}
    <3>1. k \in T /\ \A j \in T : k <= j
      BY <1>6, <2>2, <2>4 DEF Spot
    <3>2. f = k /\ k # 0
      BY <2>2, <2>4, <3>1, MinIs
    <3> HIDE DEF f
    <3> QED
      BY <2>1, <3>2
  <2> QED
    BY <2>3, <2>4
<1>7. CASE w = "iter"
  <2>1. List!Service!AddPlace(w, i, d, after)
          = IF Sq = <<>> THEN 1 ELSE IF Ps # 0 /\ after THEN Ps + 1 ELSE Ps
    BY <1>7 DEF List!Service!AddPlace, Sq, Ps
  <2>2. CASE l.n = 0
    BY <1>2, <1>7, <2>1, <2>2 DEF Spot
  <2>3. CASE l.n # 0
    <3>1. PICK j \in 1..l.n : s[j] = it /\ k = IF after THEN j + 1 ELSE j
      BY <1>7, <2>3 DEF Spot
    <3>2. Ps \in 1..l.n /\ s[Ps] = it
      BY <1>1, <3>1 DEF Shows, Ordered, Live
    <3>3. Ps = j
      BY <3>1, <3>2 DEF Ordered
    <3> QED
      BY <1>2, <2>1, <2>3, <3>1, <3>3
  <2> QED
    BY <2>2, <2>3
<1> QED
  BY <1>3, <1>4, <1>5, <1>6, <1>7 DEF Places

LEMMA AddServes ==
    ASSUME ListIInv, NEW w \in Places, NEW i \in 0..MaxIdx, NEW d \in Data, NEW after \in BOOLEAN,
           List!Add(w, i, d, after), ListIInv'
    PROVE  List!Service!Add(w, i, d, after) \/ List!Service!Stops
<1>1. PICK s : Ordered(l, s)
  BY DEF ListIInv
<1>2. ~List!NoPlace(w) => (w = "iter" => it \in Live \/ (it = 0 /\ l.n = 0))
  BY DEF List!Add, List!Usable, List!NoPlace, List!Live, List!NULL, Live
<1>3. call' = <<"add", w, i, d>> /\ it' = it
  BY DEF List!Add, List!FollowsNull
<1>6. CASE List!NoPlace(w)
  <2>1. w = "iter" /\ it = 0 /\ l.n # 0 /\ i = 0 /\ l' = l /\ res' = -3
    BY <1>6 DEF List!NoPlace, List!Add, List!FollowsNull, List!NULL, List!Stopped
  <2>2. Shows(l, it, s, Sq, Ps)
    BY <1>1, ShowsNow
  <2>3. Ps = 0 /\ Sq # <<>>
    BY <2>1, <2>2, ListFacts DEF Shows, ListIInv, Formed
  <2>4. Sq' = Sq /\ Ps' = Ps
    BY <1>3, <2>1, SameShown
  <2>5. List!Service!Place("iter", 0, d) = 0
    BY <2>3 DEF List!Service!Place, Ps
  <2>6. call' = <<"add", "iter", 0, d>>
    BY <1>3, <2>1
  <2> QED
    BY <2>1, <2>3, <2>4, <2>5, <2>6 DEF List!Service!Stops, List!Service!Stopped, Sq, Ps
<1>4. CASE ~List!NoPlace(w) /\ (List!NoRoom \/ List!Outside(w, i))
  <2>1. res' = -1 /\ l' = l
    BY <1>4 DEF List!Add, List!Failed
  <2>2. Sq' = Sq /\ Ps' = Ps
    BY <1>3, <2>1, SameShown
  <2> QED
    BY <1>3, <2>1, <2>2 DEF List!Service!Add, List!Service!Failed, Sq, Ps
<1>5. CASE ~List!NoPlace(w) /\ ~List!NoRoom /\ ~List!Outside(w, i)
  <2>1. l' = List!Added(w, i, d, after) /\ res' = 0
    BY <1>5 DEF List!Add, List!Done
  <2>2. PICK k \in 1..(l.n + 1) : Spot(s, w, i, d, after, k) /\ Grown(l', s, k, d)
    BY <1>1, <1>2, <1>5, <2>1, AddedGrows DEF ListIInv
  <2>3. List!Service!AddPlace(w, i, d, after) = k
    BY <1>1, <1>2, <1>5, <2>2, AddPlaceIs
  <2>4. Shows(l, it, s, Sq, Ps)
    BY <1>1, ShowsNow
  <2>5. l.n \in Nat /\ Sq \in [1..l.n -> Data] /\ s \in [1..l.n -> Live]
    BY <1>1, <2>4 DEF Shows, Ordered, Live
  <2> DEFINE a == List!New
             t == Ins(s, k, a)
             N == l.n + 1
  <2>6. a \notin Live /\ a # 0 /\ a \in Elems
    BY <1>5, NewIsFree DEF ListIInv
  <2> HIDE DEF a
  <2>7. /\ l'.n = N /\ DOMAIN l'.node = Live \cup {a} /\ Ordered(l', t)
        /\ l'.node[a].data = d /\ \A y \in Live : l'.node[y].data = l.node[y].data
    BY <2>2 DEF Grown, a
  <2>8. Shows(l', it', t, Sq', Ps')
    BY <2>7, ShowsNext
  <2>9. \A j \in 1..N : t[j] = IF j < k THEN s[j] ELSE IF j = k THEN a ELSE s[j - 1]
    BY DEF Ins
  <2> HIDE DEF t
  <2>10. Sq' = List!Service!InsertAt(Sq, k, d)
    <3>1. Sq' \in [1..N -> Data]
      BY <2>7, <2>8 DEF Shows
    <3>2. ASSUME NEW j \in 1..N
          PROVE Sq'[j] = IF j < k THEN Sq[j] ELSE IF j = k THEN d ELSE Sq[j - 1]
      <4>1. Sq'[j] = l'.node[t[j]].data
        BY <2>7, <2>8 DEF Shows
      <4>2. CASE j = k
        BY <2>7, <2>9, <4>1, <4>2
      <4>3. CASE j # k
        <5> DEFINE b == IF j < k THEN j ELSE j - 1
        <5>1. b \in 1..l.n /\ t[j] = s[b]
          BY <2>2, <2>5, <2>9, <4>3
        <5>2. Sq'[j] = Sq[b]
          <6> HIDE DEF b
          <6> QED
            BY <2>4, <2>5, <2>7, <4>1, <5>1 DEF Shows
        <5> QED
          BY <4>3, <5>2
      <4> QED
        BY <4>2, <4>3
    <3>3. List!Service!InsertAt(Sq, k, d)
            = [j \in 1..N |-> IF j < k THEN Sq[j] ELSE IF j = k THEN d ELSE Sq[j - 1]]
      <4>1. PICK n \in Nat : n = l.n
        BY <2>5
      <4>2. PICK q \in [1..n -> Data] : q = Sq
        BY <2>5, <4>1
      <4>3. k \in 1..(n + 1)
        BY <4>1
      <4>4. List!Service!InsertAt(q, k, d)
              = [j \in 1..(n + 1) |-> IF j < k THEN q[j] ELSE IF j = k THEN d ELSE q[j - 1]]
        BY <4>3, InsertAtIs
      <4> QED
        BY <4>1, <4>2, <4>4
    <3> QED
      BY <3>1, <3>2, <3>3
  <2>11. Ps' = IF Ps >= k THEN Ps + 1 ELSE Ps
    <3>1. CASE it \in Live
      <4>1. Ps \in 1..l.n /\ s[Ps] = it
        BY <2>4, <3>1 DEF Shows, Live
      <4> DEFINE b == IF Ps >= k THEN Ps + 1 ELSE Ps
      <4>2. b \in 1..N /\ t[b] = it
        <5>1. CASE Ps >= k
          BY <2>5, <2>9, <4>1, <5>1
        <5>2. CASE ~(Ps >= k)
          BY <2>5, <2>9, <4>1, <5>2
        <5> QED
          BY <5>1, <5>2
      <4>3. Ps' \in 1..N /\ t[Ps'] = it
        <5>1. it' \in DOMAIN l'.node
          BY <1>3, <2>7, <3>1
        <5>2. Ps' \in 1..l'.n /\ t[Ps'] = it'
          BY <2>8, <5>1 DEF Shows
        <5> QED
          BY <1>3, <2>7, <5>2
      <4> HIDE DEF b
      <4>4. \A x, y \in 1..N : t[x] = t[y] => x = y
        BY <2>7 DEF Ordered
      <4>5. Ps' = b
        BY <4>2, <4>3, <4>4
      <4> QED
        BY <4>5 DEF b
    <3>2. CASE it \notin Live
      <4>1. Ps = 0
        BY <2>4, <3>2 DEF Shows, Live
      <4>2. it # a
        <5>1. it \in {0, -1, -2} /\ a \in Nat
          BY <2>6, <3>2, ListFacts DEF ListIInv
        <5> QED
          BY <2>6, <5>1
      <4>3. Ps' = 0
        BY <1>3, <2>7, <2>8, <3>2, <4>2 DEF Shows
      <4> QED
        BY <2>2, <4>1, <4>3
    <3> QED
      BY <3>1, <3>2
  <2> QED
    BY <1>3, <2>1, <2>2, <2>3, <2>10, <2>11 DEF List!Service!Add, List!Service!Done, Sq, Ps
<1> QED
  BY <1>4, <1>5, <1>6

\* An iterator that goes to a place, or stays when it is outside of the list.
LEMMA GotoServes ==
    ASSUME ListIInv, NEW w, NEW i, NEW d, NEW s, Ordered(l, s), NEW k \in Int,
           List!Goto(w, At(s, l.n, k), i, d), ListIInv'
    PROVE  List!Service!Goto(w, k, i, d)
<1>1. Shows(l, it, s, Sq, Ps)
  BY ShowsNow
<1>2. Len(Sq) = l.n /\ l.n \in Nat
  BY <1>1 DEF Shows
<1>3. l' = l /\ call' = <<"move", w, i, d>>
  BY DEF List!Goto
<1>4. At(s, l.n, k) = 0 <=> k \notin 1..l.n
  BY AtFacts DEF ListIInv
<1>5. CASE k \notin 1..l.n
  <2>1. it' = it /\ res' = -1
    BY <1>4, <1>5 DEF List!Goto, List!NULL, List!Failed
  <2>2. Sq' = Sq /\ Ps' = Ps
    BY <1>3, <2>1, SameShown
  <2> QED
    BY <1>2, <1>3, <1>5, <2>1, <2>2 DEF List!Service!Goto, List!Service!Failed, Sq, Ps
<1>6. CASE k \in 1..l.n
  <2>1. it' = s[k] /\ res' = 0
    BY <1>4, <1>6 DEF List!Goto, List!NULL, List!Done, At
  <2>2. Shows(l', it', s, Sq', Ps')
    BY <1>3, ShowsNext
  <2>3. Sq' = Sq
    BY <1>3 DEF Sq, List!Chain, List!Step
  <2>4. Ps' = k
    BY <1>3, <1>6, <2>1, <2>2 DEF Shows, Ordered
  <2> QED
    BY <1>2, <1>3, <1>6, <2>1, <2>3, <2>4 DEF List!Service!Goto, List!Service!Done, Sq, Ps
<1> QED
  BY <1>5, <1>6

LEMMA MoveServes ==
    ASSUME ListIInv, NEW i \in (-MaxIdx)..MaxIdx, List!Move(i), ListIInv'
    PROVE  List!Service!Move(i)
<1>1. PICK s : Ordered(l, s)
  BY DEF ListIInv
<1>2. Shows(l, it, s, Sq, Ps)
  BY <1>1, ShowsNow
<1>3. it \in Live \cup {0} /\ List!Goto("iter", List!Step(it, i), i, 0)
  BY DEF List!Move, List!Live, List!NULL, Live
<1>4. Ps \in 0..l.n /\ it = At(s, l.n, Ps) /\ l.n \in Nat /\ i \in Int
  <2>1. it \in Live => Ps \in 1..l.n /\ s[Ps] = it
    BY <1>2 DEF Shows, Live
  <2>2. it \notin Live => Ps = 0 /\ it = 0
    BY <1>2, <1>3 DEF Shows, Live
  <2>3. l.n \in Nat /\ i \in Int
    BY <1>2, ListFacts DEF Shows
  <2> QED
    BY <2>1, <2>2, <2>3 DEF At
<1>5. List!Step(At(s, l.n, Ps), i) = IF Ps = 0 THEN 0 ELSE At(s, l.n, Ps + i)
  <2>1. PICK j \in 0..l.n : j = Ps
    BY <1>4
  <2>2. List!Step(At(s, l.n, j), i) = IF j \in 1..l.n THEN At(s, l.n, j + i) ELSE 0
    BY <1>1, <1>4, StepIsAt DEF ListIInv
  <2> QED
    BY <1>4, <2>1, <2>2
<1>6. PICK k \in Int : k = IF Ps = 0 THEN 0 ELSE Ps + i
  BY <1>4
<1>7. List!Step(it, i) = At(s, l.n, k)
  BY <1>4, <1>5, <1>6 DEF At
<1>8. List!Service!Goto("iter", k, i, 0)
  BY <1>1, <1>3, <1>7, GotoServes
<1> QED
  BY <1>6, <1>8 DEF List!Service!Move, Ps

LEMMA MoveToServes ==
    ASSUME ListIInv, NEW i \in (-MaxIdx)..MaxIdx, List!MoveTo(i), ListIInv'
    PROVE  List!Service!MoveTo(i)
<1>1. PICK s : Ordered(l, s)
  BY DEF ListIInv
<1>2. Shows(l, it, s, Sq, Ps)
  BY <1>1, ShowsNow
<1>3. Len(Sq) = l.n /\ l.n \in Nat /\ i \in Int
  BY <1>2, ListFacts DEF Shows
<1>4. List!Goto("idx", List!Step(IF i < 0 THEN l.last ELSE l.first, i), i, 0)
  BY DEF List!MoveTo
<1>5. l.last = At(s, l.n, l.n) /\ l.first = At(s, l.n, 1)
  BY <1>1 DEF Ordered
<1>6. PICK k \in Int : k = IF i < 0 THEN l.n + i ELSE i + 1
  BY <1>3
<1>7. List!Step(IF i < 0 THEN l.last ELSE l.first, i) = At(s, l.n, k)
  <2>1. CASE i < 0
    <3>1. List!Step(At(s, l.n, l.n), i) = IF l.n \in 1..l.n THEN At(s, l.n, l.n + i) ELSE 0
      BY <1>1, <1>3, StepIsAt DEF ListIInv
    <3>2. l.n \notin 1..l.n => At(s, l.n, l.n + i) = 0
      BY <1>3, <2>1 DEF At
    <3> QED
      BY <1>5, <1>6, <2>1, <3>1, <3>2
  <2>2. CASE ~(i < 0)
    <3>1. List!Step(At(s, l.n, 1), i) = IF 1 \in 1..l.n THEN At(s, l.n, 1 + i) ELSE 0
      BY <1>1, <1>3, StepIsAt DEF ListIInv
    <3>2. 1 \notin 1..l.n => At(s, l.n, 1 + i) = 0
      BY <1>3, <2>2 DEF At
    <3>3. 1 + i = k
      BY <1>3, <1>6, <2>2
    <3> QED
      BY <1>5, <2>2, <3>1, <3>2, <3>3
  <2> QED
    BY <2>1, <2>2
<1>8. List!Service!Goto("idx", k, i, 0)
  BY <1>1, <1>4, <1>7, GotoServes
<1>9. k = IF i < 0 THEN Len(Sq) + i ELSE i + 1
  BY <1>3, <1>6
<1> QED
  BY <1>8, <1>9 DEF List!Service!MoveTo, Sq

LEMMA MoveFindServes ==
    ASSUME ListIInv, NEW d \in Data, List!MoveFind(d), ListIInv'
    PROVE  List!Service!MoveFind(d)
<1>1. PICK s : Ordered(l, s)
  BY DEF ListIInv
<1>2. "find" \in Places /\ 0 \in 0..MaxIdx
  BY ListFacts DEF Places
<1>3. PICK k \in 0..l.n : Where(s, "find", 0, d, k) /\ List!Pick("find", 0, d) = At(s, l.n, k)
  BY <1>1, <1>2, PickIsPlace DEF ListIInv
<1>4. List!Service!Place("find", 0, d) = k
  BY <1>1, <1>2, <1>3, PlaceIs
<1>5. List!Goto("find", At(s, l.n, k), 0, d)
  BY <1>3 DEF List!MoveFind
<1>6. List!Service!Goto("find", k, 0, d)
  BY <1>1, <1>5, GotoServes
<1> QED
  BY <1>4, <1>6 DEF List!Service!MoveFind

LEMMA IterInitServes ==
    ASSUME ListIInv, NEW w \in {"first", "last"}, List!IterInit(w), ListIInv'
    PROVE  List!Service!IterInit(w)
<1>1. PICK s : Ordered(l, s)
  BY DEF ListIInv
<1>2. w \in Places /\ w # "iter" /\ 0 \in 0..MaxIdx
  BY ListFacts DEF Places
<1>3. PICK k \in 0..l.n : Where(s, w, 0, 0, k) /\ List!Pick(w, 0, 0) = At(s, l.n, k)
  BY <1>1, <1>2, PickIsPlace DEF ListIInv
<1>4. List!Service!Place(w, 0, 0) = k
  BY <1>1, <1>2, <1>3, PlaceIs
<1>5. l' = l /\ it' = At(s, l.n, k) /\ call' = <<"iter", w, 0, 0>> /\ res' = 0
  BY <1>3 DEF List!IterInit, List!Done
<1>6. Shows(l', it', s, Sq', Ps')
  BY <1>1, <1>5, ShowsNext
<1>7. Sq' = Sq
  BY <1>5 DEF Sq, List!Chain, List!Step
<1>8. Ps' = k
  <2>1. CASE k = 0
    <3>1. it' \notin Live
      BY <1>5, <2>1, ListFacts DEF At, ListIInv, Formed, Live
    <3> QED
      BY <1>5, <1>6, <2>1, <3>1 DEF Shows, Live
  <2>2. CASE k # 0
    <3>1. k \in 1..l.n /\ it' = s[k]
      BY <1>1, <1>5, <2>2 DEF At, Ordered
    <3> QED
      BY <1>1, <1>5, <1>6, <3>1 DEF Shows, Ordered
  <2> QED
    BY <2>1, <2>2
<1> QED
  BY <1>4, <1>5, <1>7, <1>8 DEF List!Service!IterInit, List!Service!Done, Sq, Ps

LEMMA RemovesServe ==
    ASSUME ListIInv, List!IterRemove \/ List!RemoveList, ListIInv'
    PROVE  List!Service!IterRemove \/ List!Service!RemoveList
<1>1. -2 \notin Live /\ -2 \notin DOMAIN l'.node
  BY ListFacts DEF ListIInv, Formed, Live
<1>2. CASE List!IterRemove
  <2>1. l' = l /\ it' = -2 /\ call' = <<"iter", "iter", 0, 0>> /\ res' = 0
    BY <1>2 DEF List!IterRemove, List!Off, List!Done
  <2>2. Sq' = Sq
    BY <2>1 DEF Sq, List!Chain, List!Step
  <2>3. Ps' = 0
    BY <1>1, <2>1 DEF Ps, List!Live, Live
  <2> QED
    BY <2>1, <2>2, <2>3 DEF List!Service!IterRemove, List!Service!Done, Sq, Ps
<1>3. CASE List!RemoveList /\ it # -2
  <2>1. l' = l /\ it' = it /\ call' = <<"remove", "first", 0, 0>> /\ res' = -1
    BY <1>3 DEF List!RemoveList, List!Off, List!Failed
  <2>2. Sq' = Sq /\ Ps' = Ps
    BY <2>1, SameShown
  <2> QED
    BY <2>1, <2>2 DEF List!Service!RemoveList, List!Service!Failed, Sq, Ps
<1>4. CASE List!RemoveList /\ it = -2
  <2>1. l' = List!Empty /\ it' = -2 /\ call' = <<"remove", "first", 0, 0>> /\ res' = 0
    BY <1>4 DEF List!RemoveList, List!Off, List!Done
  <2>2. Ordered(l', <<>>)
    BY <2>1, EmptyWhole
  <2>3. Shows(l', it', <<>>, Sq', Ps')
    BY <2>2, ShowsNext
  <2>4. l'.n = 0
    BY <2>1 DEF List!Empty
  <2>5. Sq' = <<>> /\ Ps' = 0
    BY <1>1, <2>1, <2>3, <2>4 DEF Shows
  <2> QED
    BY <2>1, <2>5 DEF List!Service!RemoveList, List!Service!Done, Sq, Ps
<1> QED
  BY <1>2, <1>3, <1>4

LEMMA ServiceStep ==
    ASSUME ListIInv, ListIInv', List!Next
    PROVE  List!ServiceNext
<1>1. ASSUME NEW w \in Places, NEW i \in 0..MaxIdx, NEW d \in Data,
             \/ List!Read(w, i, d) \/ List!Get(w, i, d)
             \/ \E new \in Data : List!Edit(w, i, d, new)
             \/ \E after \in BOOLEAN : List!Add(w, i, d, after)
      PROVE  List!ServiceNext
  <2>1. \/ List!Service!Read(w, i, d) \/ List!Service!Get(w, i, d)
        \/ \E new \in Data : List!Service!Edit(w, i, d, new)
        \/ \E after \in BOOLEAN : List!Service!Add(w, i, d, after)
        \/ List!Service!PositionLost \/ List!Service!Stops
    BY <1>1, ReadServes, GetServes, EditServes, AddServes
  <2> QED
    BY <2>1 DEF List!ServiceNext, List!Service!Next, List!Service!Wheres, Places
<1>2. ASSUME NEW i \in (-MaxIdx)..MaxIdx, List!Move(i) \/ List!MoveTo(i)
      PROVE  List!ServiceNext
  <2>1. List!Service!Move(i) \/ List!Service!MoveTo(i)
    BY <1>2, MoveServes, MoveToServes
  <2> QED
    BY <2>1 DEF List!ServiceNext, List!Service!Next
<1>3. ASSUME NEW d \in Data, List!MoveFind(d) PROVE List!ServiceNext
  <2>1. List!Service!MoveFind(d)
    BY <1>3, MoveFindServes
  <2> QED
    BY <2>1 DEF List!ServiceNext, List!Service!Next
<1>4. ASSUME NEW w \in {"first", "last"}, List!IterInit(w) PROVE List!ServiceNext
  <2>1. List!Service!IterInit(w)
    BY <1>4, IterInitServes
  <2> QED
    BY <2>1 DEF List!ServiceNext, List!Service!Next
<1>5. ASSUME List!IterRemove \/ List!RemoveList PROVE List!ServiceNext
  <2>1. List!Service!IterRemove \/ List!Service!RemoveList
    BY <1>5, RemovesServe
  <2> QED
    BY <2>1 DEF List!ServiceNext, List!Service!Next
<1> QED
  BY <1>1, <1>2, <1>3, <1>4, <1>5 DEF List!Next, Places

LEMMA ServiceStart == ASSUME List!Init PROVE List!Service!Init
<1>1. l = List!Empty /\ it = -2 /\ call = <<"init", "first", 0, 0>> /\ res = 0
  BY DEF List!Init, List!Off, List!Done
<1>2. ListIInv /\ Ordered(l, <<>>)
  BY <1>1, ListStart, EmptyWhole
<1>3. Shows(l, it, <<>>, Sq, Ps)
  BY <1>2, ShowsNow
<1>4. l.n = 0 /\ DOMAIN l.node = {}
  BY <1>1 DEF List!Empty
<1>5. Sq = <<>> /\ Ps = 0
  BY <1>3, <1>4 DEF Shows
<1> QED
  BY <1>1, <1>5 DEF List!Service!Init, List!Service!Done, Sq, Ps

\* For any memory, any data and any order of calls, an iterator on no element included,
\* every function of a list does to the sequence, to the iterator and to its caller what
\* the descriptions say (no_os_list.h:122-190, no_os_list.c:205-879), but for the two
\* departures that ListService names: the position that a get of the last of several
\* elements loses (no_os_list.c:819), and the NULL pointer that an edit or an insertion
\* follows where there is no element (no_os_list.c:403, 417, 791, 868-870).
THEOREM ListImplementsService == Spec => ListServiceSpec
<1>1. Init => List!Service!Init
  BY ServiceStart DEF Init
<1>2. ListIInv /\ ListIInv' /\ [Next]_vars
        => [part = "list" => List!ServiceNext]_(List!Service!vars)
  <2> SUFFICES ASSUME ListIInv, ListIInv', [Next]_vars
               PROVE  (part = "list" => List!ServiceNext) \/ UNCHANGED List!Service!vars
    OBVIOUS
  <2>1. CASE UNCHANGED vars
    <3>1. l' = l /\ it' = it /\ call' = call /\ res' = res
      BY <2>1 DEF vars, listVars
    <3>2. Sq' = Sq /\ Ps' = Ps
      BY <3>1, SameShown
    <3> QED
      BY <3>1, <3>2 DEF List!Service!vars, Sq, Ps
  <2>2. CASE Next /\ part # "list"
    BY <2>2
  <2>3. CASE Next /\ part = "list"
    <3>1. List!Next
      BY <2>3 DEF Next
    <3> QED
      BY <3>1, ServiceStep
  <2> QED
    BY <2>1, <2>2, <2>3
<1> QED
  BY <1>1, <1>2, ListHolds, PTL DEF Spec, ListServiceSpec
-----------------------------------------------------------------------------
(* Forms: trees of controls. *)

Components == Form!Components
Containers == Form!Containers
Controls == Form!Controls
Focusable == Form!Focusable
Below == Form!Below

\* The components in a container.
In(c) == Form!Range(Kids[c])

\* The values a value is got from have a lower rank, and ranks are bounded.
Ranked(X, Dep) ==
    /\ Dep \in [X -> SUBSET X]
    /\ \E r \in [X -> Nat], n \in Nat : \A c \in X : r[c] < n /\ \A d \in Dep[c] : r[d] < r[c]

\* B computes a value of V for each member of X from those it depends on.
Computes(X, V, Dep, B) ==
    /\ B \in [X -> [[X -> V] -> V]]
    /\ \A c \in X : \A f, g \in [X -> V] : (\A d \in Dep[c] : f[d] = g[d]) => B[c][f] = B[c][g]

\* A function all of whose values are computed so exists.
LEMMA Recursion ==
    ASSUME NEW X, NEW V, V # {}, NEW Dep, Ranked(X, Dep), NEW B, Computes(X, V, Dep, B)
    PROVE  \E f \in [X -> V] : \A c \in X : f[c] = B[c][f]
<1>a. PICK r \in [X -> Nat], n \in Nat : \A c \in X : r[c] < n /\ \A d \in Dep[c] : r[d] < r[c]
  BY DEF Ranked
<1>b. Dep \in [X -> SUBSET X]
  BY DEF Ranked
<1>c. B \in [X -> [[X -> V] -> V]]
  BY DEF Computes
<1>d. ASSUME NEW c \in X, NEW f \in [X -> V], NEW g \in [X -> V], \A d \in Dep[c] : f[d] = g[d]
       PROVE  B[c][f] = B[c][g]
  BY <1>d DEF Computes
<1>e. PICK v \in V : TRUE
  OBVIOUS
<1> DEFINE Good(i) == \E f \in [X -> V] : \A c \in X : r[c] < i => f[c] = B[c][f]
           T == {i \in Nat : ~Good(i)}
<1>1. Good(0)
  <2>1. [c \in X |-> v] \in [X -> V] /\ \A c \in X : ~(r[c] < 0)
    BY <1>a
  <2> QED
    BY <2>1
<1>2. ASSUME NEW i \in Nat, Good(i) PROVE Good(i + 1)
  <2>1. PICK f \in [X -> V] : \A c \in X : r[c] < i => f[c] = B[c][f]
    BY <1>2
  <2> DEFINE g == [c \in X |-> B[c][f]]
  <2>2. g \in [X -> V]
    BY <1>c
  <2>3. ASSUME NEW c \in X, r[c] < i + 1 PROVE g[c] = B[c][g]
    <3>1. ASSUME NEW d \in Dep[c] PROVE f[d] = g[d]
      <4>1. d \in X /\ r[d] < i
        BY <2>3, <1>a, <1>b
      <4> QED
        BY <4>1, <2>1
    <3> HIDE DEF g
    <3>2. B[c][f] = B[c][g]
      BY <2>2, <3>1, <1>d
    <3>3. g[c] = B[c][f]
      BY DEF g
    <3> QED
      BY <3>2, <3>3
  <2> HIDE DEF g
  <2> QED
    BY <2>2, <2>3
<1>3. T = {}
  <2> SUFFICES ASSUME T # {} PROVE FALSE
    OBVIOUS
  <2>1. PICK i \in T : \A j \in T : i <= j
    <3>1. T \subseteq Nat
      OBVIOUS
    <3> HIDE DEF T
    <3> QED
      BY <3>1, LeastNat, Zenon
  <2> HIDE DEF Good
  <2>2. i # 0
    BY <1>1
  <2>3. i - 1 \in Nat /\ i - 1 \notin T
    BY <2>1, <2>2
  <2>4. Good(i - 1)
    BY <2>3
  <2>5. Good((i - 1) + 1)
    BY <1>2, <2>3, <2>4
  <2>6. (i - 1) + 1 = i
    BY <2>3
  <2> QED
    BY <2>1, <2>5, <2>6
<1>4. Good(n)
  BY <1>3
<1> QED
  BY <1>4, <1>a

\* What the model takes for granted of the tree.
LEMMA Forest ==
    /\ IsFiniteSet(Components) /\ Kids \in [Containers -> Seq(Components)]
    /\ Below \in [Components -> SUBSET Components]
    /\ \A c \in Containers : \A k \in In(c) : Cardinality(Below[k]) < Cardinality(Below[c])
    /\ \A c, d \in Containers : In(c) \cap In(d) # {} => c = d
    /\ \A m \in Menus : Form!Parent(Root[m]) = None
    /\ Root \in [Menus -> Containers] /\ None \notin Components
    /\ Containers \subseteq Components /\ Controls = Components \ Containers
    /\ Focusable \subseteq Controls
BY LibraryAssumption DEF Form!FormAssumption, Form!IsForest, In, Components, Containers, Controls,
    Focusable, Form!Controls, Form!Containers, Form!Focusable, Below, Form!IsFiniteSet, IsFiniteSet,
    Form!Cardinality, Cardinality

\* The components in a container, and their places.
LEMMA InIs == \A c \in Containers : In(c) \subseteq Components /\ In(c) = {Kids[c][k] : k \in 1..Len(Kids[c])}
                 /\ Len(Kids[c]) \in Nat /\ DOMAIN Kids[c] = 1..Len(Kids[c])
BY Forest DEF In, Form!Range

\* The size of a component.
Rank == [c \in Components |-> Cardinality(Below[c])]
Size == Cardinality(Components)

\* What is below a component is larger than what is below any component in it.
LEMMA Ranks ==
    /\ Rank \in [Components -> Nat] /\ Size \in Nat /\ \A c \in Components : Rank[c] <= Size
    /\ \A c \in Containers : \A k \in In(c) : Rank[k] < Rank[c]
<1>1. ASSUME NEW c \in Components PROVE Cardinality(Below[c]) \in Nat /\ Cardinality(Below[c]) <= Size /\ Size \in Nat
  <2>1. Below[c] \subseteq Components
    BY Forest
  <2>2. IsFiniteSet(Below[c]) /\ Cardinality(Below[c]) <= Cardinality(Components)
    BY <2>1, Forest, FS_Subset, Zenon
  <2> QED
    BY <2>2, Forest, FS_CardinalityType DEF Size
<1>2. Size \in Nat
  BY Forest, FS_CardinalityType DEF Size
<1>3. \A c \in Containers : \A k \in In(c) : Rank[k] < Rank[c]
  BY Forest, InIs DEF Rank
<1> QED
  BY <1>1, <1>2, <1>3 DEF Rank

\* Induction from the inside of the tree.
LEMMA Lowest ==
    ASSUME NEW S, S \subseteq Components, S # {}
    PROVE  \E c \in S : c \in Containers => In(c) \cap S = {}
<1> DEFINE T == {Rank[c] : c \in S}
<1>1. T \subseteq Nat /\ T # {}
  BY Ranks
<1>2. PICK i \in T : \A j \in T : i <= j
  <2> HIDE DEF T
  <2> QED
    BY <1>1, LeastNat, Zenon
<1>3. PICK c \in S : Rank[c] = i
  BY <1>2
<1>4. ASSUME c \in Containers, NEW k \in In(c), k \in S PROVE FALSE
  <2>1. Rank[k] < Rank[c] /\ Rank[k] \in T /\ Rank[k] \in Nat /\ Rank[c] \in Nat
    BY <1>4, Ranks
  <2>2. i <= Rank[k]
    BY <2>1, <1>2
  <2> QED
    BY <2>1, <2>2, <1>3
<1> QED
  BY <1>4

\* The container a component is in.
LEMMA ParentIs ==
    ASSUME NEW c \in Components
    PROVE  /\ Form!Parent(c) # None => Form!Parent(c) \in Containers /\ c \in In(Form!Parent(c))
           /\ \A p \in Containers : c \in In(p) => Form!Parent(c) = p
<1> DEFINE P == {p \in Form!Containers : c \in Form!Range(Kids[p])}
<1>1. Form!Parent(c) = IF P = {} THEN None ELSE CHOOSE p \in P : TRUE
  BY DEF Form!Parent
<1>2. P = {p \in Containers : c \in In(p)}
  BY DEF In, Containers
<1>3. \A p, q \in P : p = q
  BY <1>2, Forest
<1>4. P # {} => (CHOOSE p \in P : TRUE) \in P
  OBVIOUS
<1> HIDE DEF P
<1>5. P # {} => Form!Parent(c) \in P
  BY <1>1, <1>4
<1>6. P = {} => Form!Parent(c) = None
  BY <1>1
<1>7. \A p \in Containers : c \in In(p) => p \in P
  BY <1>2
<1>8. \A p \in P : p \in Containers /\ c \in In(p)
  BY <1>2
<1> QED
  BY <1>3, <1>5, <1>6, <1>7, <1>8

\* Induction from the outside of the tree.
LEMMA Highest ==
    ASSUME NEW S, S \subseteq Components, S # {}
    PROVE  \E c \in S : Form!Parent(c) \notin S
<1> DEFINE T == {Size - Rank[c] : c \in S}
<1>1. T \subseteq Nat /\ T # {}
  BY Ranks
<1>2. PICK i \in T : \A j \in T : i <= j
  <2> HIDE DEF T
  <2> QED
    BY <1>1, LeastNat, Zenon
<1>3. PICK c \in S : Size - Rank[c] = i
  BY <1>2
<1>4. ASSUME Form!Parent(c) \in S PROVE FALSE
  <2> DEFINE p == Form!Parent(c)
  <2>1. p \in Containers /\ c \in In(p)
    BY <1>4, ParentIs, Forest
  <2>2. Rank[c] < Rank[p] /\ Size - Rank[p] \in T /\ Rank[p] \in Nat /\ Rank[c] \in Nat /\ Size \in Nat
    BY <2>1, <1>4, Ranks
  <2>3. i <= Size - Rank[p]
    BY <2>2, <1>2
  <2> HIDE DEF p
  <2> QED
    BY <2>2, <2>3, <1>3
<1> QED
  BY <1>4

\* The components a value of a component is got from, inward.
Inward == [c \in Components |-> IF c \in Containers THEN In(c) ELSE {}]

\* What is got from the components in a container is got from smaller components.
LEMMA InwardIs == Ranked(Components, Inward)
<1>1. Inward \in [Components -> SUBSET Components]
  BY InIs DEF Inward
<1>2. \A c \in Components : Rank[c] < Size + 1 /\ \A d \in Inward[c] : Rank[d] < Rank[c]
  BY Ranks DEF Inward
<1>3. Rank \in [Components -> Nat] /\ Size + 1 \in Nat
  BY Ranks
<1> QED
  BY <1>1, <1>2, <1>3 DEF Ranked

\* A component, and what is below the components in it.
LEMMA BelowIs ==
    /\ \A c \in Controls : Below[c] = {c}
    /\ \A c \in Containers : Below[c] = {c} \cup UNION {Below[k] : k \in In(c)}
<1> DEFINE V == SUBSET Components
           Step(f, c) == {c} \cup (IF c \in Controls THEN {} ELSE UNION {f[k] : k \in In(c)})
           B == [c \in Components |-> [f \in [Components -> V] |-> Step(f, c)]]
           Body(f) == [c \in Components |-> Step(f, c)]
           F == CHOOSE f : f = Body(f)
<1>1. B \in [Components -> [[Components -> V] -> V]]
  <2>1. ASSUME NEW c \in Components, NEW f \in [Components -> V] PROVE Step(f, c) \in V
    <3>1. CASE c \in Controls
      BY <3>1
    <3>2. CASE c \notin Controls
      <4>1. c \in Containers /\ \A k \in In(c) : f[k] \subseteq Components
        BY <3>2, Forest, InIs
      <4> QED
        BY <4>1, <3>2
    <3> QED
      BY <3>1, <3>2
  <2> HIDE DEF Step, V
  <2> QED
    BY <2>1
<1>2. ASSUME NEW c \in Components, NEW f \in [Components -> V], NEW g \in [Components -> V],
             \A d \in Inward[c] : f[d] = g[d]
      PROVE  B[c][f] = B[c][g]
  <2>1. CASE c \in Controls
    BY <2>1
  <2>2. CASE c \notin Controls
    <3>1. c \in Containers
      BY <2>2, Forest
    <3>2. \A k \in In(c) : f[k] = g[k]
      BY <1>2, <3>1 DEF Inward
    <3>3. {f[k] : k \in In(c)} = {g[k] : k \in In(c)}
      BY <3>2
    <3> QED
      BY <2>2, <3>3
  <2> QED
    BY <2>1, <2>2
<1>3. \E f \in [Components -> V] : \A c \in Components : f[c] = B[c][f]
  <2>1. V # {}
    OBVIOUS
  <2> HIDE DEF V, B
  <2>2. Computes(Components, V, Inward, B)
    BY <1>1, <1>2 DEF Computes
  <2> QED
    BY <2>1, <2>2, InwardIs, Recursion
<1>4. PICK W \in [Components -> V] : \A c \in Components : W[c] = Step(W, c)
  BY <1>3
<1>5. W = Body(W)
  <2> HIDE DEF Step
  <2> QED
    BY <1>4
<1>6. F = Body(F)
  <2> HIDE DEF Body
  <2> QED
    BY <1>5
<1>7. Below = F
  BY DEF Below, Form!Below, Components, Controls, In
<1>8. \A c \in Components : Below[c] = Step(Below, c)
  <2> HIDE DEF F, Step
  <2> QED
    BY <1>6, <1>7
<1> HIDE DEF F
<1> QED
  BY <1>8, Forest
-----------------------------------------------------------------------------
(* What is below a component. *)

\* A component is below itself.
LEMMA BelowSelf == \A a \in Components : a \in Below[a] /\ Below[a] \subseteq Components
BY Forest, BelowIs

\* What is below a component is below the container it is in.
LEMMA BelowIn == \A a \in Containers : \A k \in In(a) : Below[k] \subseteq Below[a]
BY BelowIs

\* What is below a container, and is not the container, is below a component in it.
LEMMA BelowInner == ASSUME NEW a \in Components, NEW x \in Below[a], x # a
                    PROVE  a \in Containers /\ \E k \in In(a) : x \in Below[k]
BY Forest, BelowIs

\* Something below a component, and not the component, is smaller, and in a
\* container that is below it as well.
LEMMA BelowUp ==
    ASSUME NEW a \in Components, NEW x \in Below[a], x # a
    PROVE  Form!Parent(x) \in Containers /\ Form!Parent(x) \in Below[a] /\ Rank[x] < Rank[a]
<1> DEFINE Up(y, b) == Form!Parent(y) \in Containers /\ Form!Parent(y) \in Below[b] /\ Rank[y] < Rank[b]
           S == {b \in Components : \E y \in Below[b] : y # b /\ ~Up(y, b)}
<1>1. S = {}
  <2> SUFFICES ASSUME S # {} PROVE FALSE
    OBVIOUS
  <2>1. PICK b \in S : b \in Containers => In(b) \cap S = {}
    <3>1. S \subseteq Components
      OBVIOUS
    <3> HIDE DEF S
    <3> QED
      BY <3>1, Lowest
  <2>2. PICK y \in Below[b] : y # b /\ ~Up(y, b)
    BY <2>1
  <2>3. b \in Containers /\ \E k \in In(b) : y \in Below[k]
    BY <2>1, <2>2, BelowInner
  <2>4. PICK k \in In(b) : y \in Below[k]
    BY <2>3
  <2>5. k \in Components /\ k \notin S /\ b \in Components /\ y \in Components
    BY <2>1, <2>2, <2>3, InIs, BelowSelf
  <2>6. Rank[k] < Rank[b] /\ Rank[k] \in Nat /\ Rank[b] \in Nat /\ Rank[y] \in Nat
    BY <2>3, <2>5, Ranks
  <2>7. CASE y = k
    <3>1. Form!Parent(y) = b
      BY <2>3, <2>5, <2>7, ParentIs
    <3> QED
      BY <3>1, <2>2, <2>3, <2>5, <2>6, <2>7, BelowSelf
  <2>8. CASE y # k
    <3>1. Up(y, k)
      BY <2>4, <2>5, <2>8
    <3> QED
      BY <3>1, <2>2, <2>3, <2>5, <2>6, BelowIn
  <2> QED
    BY <2>7, <2>8
<1>2. Up(x, a)
  <2> HIDE DEF Up
  <2> QED
    BY <1>1
<1> QED
  BY <1>2

\* Below is transitive.
LEMMA BelowBelow ==
    ASSUME NEW a \in Components, NEW x \in Below[a] PROVE Below[x] \subseteq Below[a]
<1> DEFINE S == {b \in Components : \E y \in Below[b] : ~(Below[y] \subseteq Below[b])}
<1>1. S = {}
  <2> SUFFICES ASSUME S # {} PROVE FALSE
    OBVIOUS
  <2>1. PICK b \in S : b \in Containers => In(b) \cap S = {}
    <3>1. S \subseteq Components
      OBVIOUS
    <3> HIDE DEF S
    <3> QED
      BY <3>1, Lowest
  <2>2. PICK y \in Below[b] : ~(Below[y] \subseteq Below[b])
    BY <2>1
  <2>3. b \in Components /\ y # b
    BY <2>1, <2>2
  <2>4. b \in Containers /\ \E k \in In(b) : y \in Below[k]
    BY <2>2, <2>3, BelowInner
  <2>5. PICK k \in In(b) : y \in Below[k]
    BY <2>4
  <2>6. k \in Components /\ k \notin S
    BY <2>1, <2>4, InIs
  <2>7. Below[y] \subseteq Below[k]
    BY <2>5, <2>6
  <2>8. Below[k] \subseteq Below[b]
    BY <2>4, BelowIn
  <2> QED
    BY <2>2, <2>7, <2>8
<1> QED
  BY <1>1

\* Two components that are around the same are around each other.
LEMMA Nested ==
    ASSUME NEW a \in Components, NEW b \in Components, Below[a] \cap Below[b] # {}
    PROVE  a \in Below[b] \/ b \in Below[a]
<1> DEFINE S == {x \in Components : Below[x] \cap Below[b] # {} /\ x \notin Below[b] /\ b \notin Below[x]}
<1>1. S = {}
  <2> SUFFICES ASSUME S # {} PROVE FALSE
    OBVIOUS
  <2>1. PICK x \in S : x \in Containers => In(x) \cap S = {}
    <3>1. S \subseteq Components
      OBVIOUS
    <3> HIDE DEF S
    <3> QED
      BY <3>1, Lowest
  <2>2. x \in Components /\ x \notin Below[b] /\ b \notin Below[x]
    BY <2>1
  <2>3. PICK w \in Below[x] : w \in Below[b]
    BY <2>1
  <2>4. x \in Containers /\ \E k \in In(x) : w \in Below[k]
    BY <2>2, <2>3, BelowInner
  <2>5. PICK k \in In(x) : w \in Below[k]
    BY <2>4
  <2>6. k \in Components /\ k \notin S /\ Form!Parent(k) = x
    BY <2>1, <2>4, InIs, ParentIs
  <2>7. b \notin Below[k]
    BY <2>2, <2>4, BelowIn
  <2>8. k \in Below[b]
    BY <2>3, <2>5, <2>6, <2>7
  <2>9. k # b
    BY <2>6, <2>7, BelowSelf
  <2>10. x \in Below[b]
    BY <2>6, <2>8, <2>9, BelowUp
  <2> QED
    BY <2>2, <2>10
<1> QED
  BY <1>1

\* What is below a container is below one of the components in it.
LEMMA OneOfThem ==
    ASSUME NEW a \in Containers, NEW j \in In(a), NEW k \in In(a), Below[j] \cap Below[k] # {}
    PROVE  j = k
<1>1. j \in Components /\ k \in Components /\ a \in Components
  BY InIs, Forest
<1>2. Form!Parent(j) = a /\ Form!Parent(k) = a
  BY <1>1, ParentIs
<1>3. Rank[j] < Rank[a] /\ Rank[k] < Rank[a] /\ Rank[j] \in Nat /\ Rank[k] \in Nat /\ Rank[a] \in Nat
  BY <1>1, Ranks
<1>4. ASSUME NEW x \in In(a), NEW y \in In(a), x \in Below[y], x # y PROVE FALSE
  <2>1. x \in Components /\ y \in Components /\ Form!Parent(x) = a
    BY InIs, ParentIs
  <2>2. a \in Below[y]
    BY <1>4, <2>1, BelowUp
  <2>3. Rank[y] < Rank[a] /\ Rank[y] \in Nat /\ Rank[a] \in Nat
    BY <2>1, <1>1, Ranks
  <2>4. a = y \/ Rank[a] < Rank[y]
    BY <2>1, <2>2, BelowUp
  <2> QED
    BY <2>3, <2>4
<1>5. j \in Below[k] \/ k \in Below[j]
  BY <1>1, Nested
<1> QED
  BY <1>4, <1>5
-----------------------------------------------------------------------------
(* Functions over the tree: the end of the cursors, who takes the focus,    *)
(* and what is printed.                                                     *)

LEMMA LeastOf ==
    ASSUME NEW n \in Nat, NEW K, K \subseteq 1..n, K # {}
    PROVE  Form!Min(K) \in K /\ \A j \in K : Form!Min(K) <= j
<1>1. \E k \in K : \A j \in K : k <= j
  BY LeastNat, K \subseteq Nat
<1> QED
  BY <1>1, Zenon DEF Form!Min

LEMMA GreatestOf ==
    ASSUME NEW n \in Nat, NEW K, K \subseteq 1..n, K # {}
    PROVE  Form!Max(K) \in K /\ \A j \in K : Form!Max(K) >= j
<1> DEFINE T == {n - k : k \in K}
<1>1. T \subseteq Nat /\ T # {}
  <2>1. \A k \in K : k \in 1..n /\ n - k \in Nat
    OBVIOUS
  <2> QED
    BY <2>1
<1>2. PICK i \in T : \A j \in T : i <= j
  <2> HIDE DEF T
  <2> QED
    BY <1>1, LeastNat, Zenon
<1>3. PICK k \in K : i = n - k
  BY <1>2
<1>4. ASSUME NEW j \in K PROVE k >= j
  <2>1. n - j \in T /\ i <= n - j
    BY <1>2
  <2> QED
    BY <1>3, <2>1
<1>5. \E x \in K : \A j \in K : x >= j
  BY <1>4
<1> QED
  BY <1>5, Zenon DEF Form!Max

\* The components a value of a component is got from, outward.
Outward(X) == [c \in X |-> IF Form!Parent(c) = None THEN {} ELSE {Form!Parent(c)}]

\* What is got from the container around a component is got from a larger component.
LEMMA OutwardIs ==
    ASSUME NEW X, Containers \subseteq X, X \subseteq Components
    PROVE  Ranked(X, Outward(X))
<1> DEFINE r == [c \in X |-> Size - Rank[c]]
<1>1. r \in [X -> Nat] /\ Size + 1 \in Nat
  BY Ranks
<1>2. Outward(X) \in [X -> SUBSET X]
  BY ParentIs DEF Outward
<1>3. ASSUME NEW c \in X, NEW d \in Outward(X)[c] PROVE r[d] < r[c]
  <2>1. d \in Containers /\ c \in In(d)
    BY <1>3, ParentIs DEF Outward
  <2>2. d \in X /\ c \in Components /\ d \in Components /\ Rank[c] < Rank[d]
    BY <2>1, Ranks
  <2> QED
    BY <2>2, Ranks
<1>4. \A c \in X : r[c] < Size + 1
  BY Ranks
<1> HIDE DEF r
<1> QED
  BY <1>1, <1>2, <1>3, <1>4 DEF Ranked

\* A cursor is at a component of its container.
CursorsIn(cur) == cur \in [Containers -> Components \cup {None}]
                  /\ \A c \in Containers : cur[c] # None => cur[c] \in In(c)

\* The equation of Leaf, for cursors that are None or in their container.
LEMMA LeafIs ==
    ASSUME CursorsIn(cursor)
    PROVE  /\ \A c \in Controls : Form!Leaf[c] = c
           /\ \A c \in Containers : Form!Leaf[c] = IF cursor[c] = None THEN None ELSE Form!Leaf[cursor[c]]
<1> DEFINE V == Components \cup {None}
           Step(f, c) == IF c \in Controls THEN c ELSE IF cursor[c] = None THEN None ELSE f[cursor[c]]
           B == [c \in Components |-> [f \in [Components -> V] |-> Step(f, c)]]
           Body(f) == [c \in Components |-> Step(f, c)]
           F == CHOOSE f : f = Body(f)
<1>1. ASSUME NEW c \in Components, c \notin Controls, cursor[c] # None
      PROVE  cursor[c] \in In(c) /\ cursor[c] \in Components /\ Inward[c] = In(c)
  BY <1>1, Forest, InIs DEF CursorsIn, Inward
<1>2. B \in [Components -> [[Components -> V] -> V]]
  <2>1. ASSUME NEW c \in Components, NEW f \in [Components -> V] PROVE Step(f, c) \in V
    BY <1>1
  <2> HIDE DEF Step, V
  <2> QED
    BY <2>1
<1>3. ASSUME NEW c \in Components, NEW f \in [Components -> V], NEW g \in [Components -> V],
             \A d \in Inward[c] : f[d] = g[d]
      PROVE  B[c][f] = B[c][g]
  <2>1. Step(f, c) = Step(g, c)
    BY <1>1, <1>3
  <2> HIDE DEF Step, V
  <2> QED
    BY <2>1
<1>4. \E f \in [Components -> V] : \A c \in Components : f[c] = B[c][f]
  <2>1. V # {}
    OBVIOUS
  <2> HIDE DEF V, B
  <2>2. Computes(Components, V, Inward, B)
    BY <1>2, <1>3 DEF Computes
  <2> QED
    BY <2>1, <2>2, InwardIs, Recursion
<1>5. PICK W \in [Components -> V] : \A c \in Components : W[c] = Step(W, c)
  <2> HIDE DEF Step, V
  <2> QED
    BY <1>4
<1>6. W = Body(W)
  <2> HIDE DEF Step
  <2> QED
    BY <1>5
<1>7. F = Body(F)
  <2> HIDE DEF Body
  <2> QED
    BY <1>6
<1>8. Form!Leaf = F
  BY DEF Form!Leaf, Components, Controls
<1>9. \A c \in Components : Form!Leaf[c] = Step(Form!Leaf, c)
  <2> HIDE DEF F, Step
  <2> QED
    BY <1>7, <1>8
<1> HIDE DEF F
<1> QED
  BY <1>9, Forest

\* The components in a container that can take the focus, and the one that gets it.
Takers(f, c) == {k \in DOMAIN Kids[c] : f[Kids[c][k]] # <<>>}
Chosen(f, c, back) == Kids[c][IF back THEN Form!Max(Takers(f, c)) ELSE Form!Min(Takers(f, c))]

\* The component that Taker chooses is in the container, and takes the focus.
LEMMA ChosenIn ==
    ASSUME NEW f, NEW c \in Containers, NEW back \in BOOLEAN, Takers(f, c) # {}
    PROVE  Chosen(f, c, back) \in In(c) /\ f[Chosen(f, c, back)] # <<>>
<1> DEFINE k == IF back THEN Form!Max(Takers(f, c)) ELSE Form!Min(Takers(f, c))
<1>1. Takers(f, c) \subseteq 1..Len(Kids[c]) /\ Len(Kids[c]) \in Nat
  BY InIs DEF Takers
<1>2. Form!Max(Takers(f, c)) \in Takers(f, c) /\ Form!Min(Takers(f, c)) \in Takers(f, c)
  BY <1>1, LeastOf, GreatestOf
<1>3. k \in Takers(f, c)
  BY <1>2
<1> HIDE DEF k
<1>4. Kids[c][k] \in In(c) /\ f[Kids[c][k]] # <<>>
  BY <1>1, <1>3, InIs DEF Takers
<1> QED
  BY <1>4 DEF Chosen, k

\* The equation of Taker.
LEMMA TakerIs ==
    ASSUME NEW back \in BOOLEAN
    PROVE  /\ Form!Taker(back) \in [Components -> Seq(Components)]
           /\ \A c \in Controls : Form!Taker(back)[c] = IF c \in Focusable THEN <<c>> ELSE <<>>
           /\ \A c \in Containers :
                 Form!Taker(back)[c] = IF Takers(Form!Taker(back), c) = {} THEN <<>>
                                       ELSE <<c>> \o Form!Taker(back)[Chosen(Form!Taker(back), c, back)]
<1> DEFINE V == Seq(Components)
           Step(f, c) == IF c \in Controls THEN IF c \in Focusable THEN <<c>> ELSE <<>>
                         ELSE IF Takers(f, c) = {} THEN <<>> ELSE <<c>> \o f[Chosen(f, c, back)]
           B == [c \in Components |-> [f \in [Components -> V] |-> Step(f, c)]]
           Body(f) == [c \in Components |-> Step(f, c)]
           F == CHOOSE f : f = Body(f)
<1>1. ASSUME NEW c \in Components, c \notin Controls
      PROVE  c \in Containers /\ Inward[c] = In(c) /\ In(c) \subseteq Components
  BY <1>1, Forest, InIs DEF Inward
<1>2. B \in [Components -> [[Components -> V] -> V]]
  <2>1. ASSUME NEW c \in Components, NEW f \in [Components -> V] PROVE Step(f, c) \in V
    <3>1. CASE c \in Controls \/ Takers(f, c) = {}
      BY <3>1
    <3>2. CASE c \notin Controls /\ Takers(f, c) # {}
      <4>1. Chosen(f, c, back) \in Components
        BY <1>1, <3>2, ChosenIn
      <4>2. f[Chosen(f, c, back)] \in Seq(Components)
        BY <4>1
      <4> QED
        BY <3>2, <4>2
    <3> QED
      BY <3>1, <3>2
  <2> HIDE DEF Step, V
  <2> QED
    BY <2>1
<1>3. ASSUME NEW c \in Components, NEW f \in [Components -> V], NEW g \in [Components -> V],
             \A d \in Inward[c] : f[d] = g[d]
      PROVE  B[c][f] = B[c][g]
  <2>1. Step(f, c) = Step(g, c)
    <3>1. CASE c \in Controls
      BY <3>1
    <3>2. CASE c \notin Controls
      <4>1. c \in Containers /\ \A d \in In(c) : f[d] = g[d]
        BY <1>1, <1>3, <3>2
      <4>2. \A k \in DOMAIN Kids[c] : Kids[c][k] \in In(c)
        BY <4>1, InIs
      <4>3. Takers(f, c) = Takers(g, c)
        BY <4>1, <4>2 DEF Takers
      <4>4. Chosen(f, c, back) = Chosen(g, c, back)
        BY <4>3 DEF Chosen
      <4>5. Takers(f, c) # {} => f[Chosen(f, c, back)] = g[Chosen(g, c, back)]
        BY <4>1, <4>4, ChosenIn
      <4> QED
        BY <4>3, <4>5
    <3> QED
      BY <3>1, <3>2
  <2> HIDE DEF Step, V
  <2> QED
    BY <2>1
<1>4. \E f \in [Components -> V] : \A c \in Components : f[c] = B[c][f]
  <2>1. V # {}
    <3>1. <<>> \in V
      OBVIOUS
    <3> HIDE DEF V
    <3> QED
      BY <3>1
  <2> HIDE DEF V, B
  <2>2. Computes(Components, V, Inward, B)
    BY <1>2, <1>3 DEF Computes
  <2> QED
    BY <2>1, <2>2, InwardIs, Recursion
<1>5. PICK W \in [Components -> V] : \A c \in Components : W[c] = Step(W, c)
  <2> HIDE DEF Step, V
  <2> QED
    BY <1>4
<1>6. W = Body(W)
  <2> HIDE DEF Step
  <2> QED
    BY <1>5
<1>7. F = Body(F)
  <2> HIDE DEF Body
  <2> QED
    BY <1>6
<1>8. Form!Taker(back) = F
  BY DEF Form!Taker, Components, Controls, Focusable, Takers, Chosen
<1>9. \A c \in Components : Form!Taker(back)[c] = Step(Form!Taker(back), c)
  <2> HIDE DEF F, Step
  <2> QED
    BY <1>7, <1>8
<1> QED
  <2> HIDE DEF F
  <2>1. Form!Taker(back) \in [Components -> Seq(Components)]
    <3> DEFINE T == Form!Taker(back)
               S == {c \in Components : T[c] \notin V}
    <3>1. T = [c \in Components |-> Step(T, c)]
      <4> HIDE DEF Step
      <4> QED
        BY <1>7, <1>8
    <3> HIDE DEF T
    <3>2. S = {}
      <4> SUFFICES ASSUME S # {} PROVE FALSE
        OBVIOUS
      <4>1. PICK c \in S : c \in Containers => In(c) \cap S = {}
        <5>1. S \subseteq Components
          OBVIOUS
        <5> HIDE DEF S
        <5> QED
          BY <5>1, Lowest
      <4>2. c \in Components /\ T[c] = Step(T, c) /\ T[c] \notin V
        <5> HIDE DEF Step
        <5> QED
          BY <3>1, <4>1
      <4>3. c \notin Controls /\ Takers(T, c) # {}
        BY <4>2
      <4>4. Chosen(T, c, back) \in In(c) /\ c \in Containers
        BY <4>2, <4>3, <1>1, ChosenIn
      <4>5. T[Chosen(T, c, back)] \in Seq(Components)
        BY <4>1, <4>4, InIs
      <4> QED
        BY <4>2, <4>3, <4>5
    <3> HIDE DEF V
    <3>3. \A c \in Components : T[c] \in V
      BY <3>2
    <3> HIDE DEF Step
    <3> QED
      BY <3>1, <3>3 DEF T, V
  <2> QED
    BY <1>9, <2>1, Forest

\* A component is printed if all containers around it make it a part of the output.
LEMMA PrintedIs ==
    \A c \in Components :
        Form!Printed[c] <=> \/ Form!Parent(c) = None
                            \/ /\ Form!Printed[Form!Parent(c)]
                               /\ (IF Kind[Form!Parent(c)] = "row" THEN c ELSE Form!Parent(c)) \in inval
<1> DEFINE V == BOOLEAN
           Step(f, c) == \/ Form!Parent(c) = None
                         \/ /\ f[Form!Parent(c)]
                            /\ (IF Kind[Form!Parent(c)] = "row" THEN c ELSE Form!Parent(c)) \in inval
           B == [c \in Components |-> [f \in [Components -> V] |-> Step(f, c)]]
           Body(f) == [c \in Components |-> Step(f, c)]
           F == CHOOSE f : f = Body(f)
<1>2. B \in [Components -> [[Components -> V] -> V]]
  OBVIOUS
<1>3. ASSUME NEW c \in Components, NEW f \in [Components -> V], NEW g \in [Components -> V],
             \A d \in Outward(Components)[c] : f[d] = g[d]
      PROVE  B[c][f] = B[c][g]
  <2>1. Step(f, c) = Step(g, c)
    BY <1>3 DEF Outward
  <2> HIDE DEF Step, V
  <2> QED
    BY <2>1
<1>4. \E f \in [Components -> V] : \A c \in Components : f[c] = B[c][f]
  <2>1. V # {}
    OBVIOUS
  <2> HIDE DEF V, B
  <2>2. Computes(Components, V, Outward(Components), B)
    BY <1>2, <1>3 DEF Computes
  <2> QED
    BY <2>1, <2>2, OutwardIs, Forest, Recursion
<1>5. PICK W \in [Components -> V] : \A c \in Components : W[c] = Step(W, c)
  <2> HIDE DEF Step, V
  <2> QED
    BY <1>4
<1>6. W = Body(W)
  <2> HIDE DEF Step
  <2> QED
    BY <1>5
<1>7. F = Body(F)
  <2> HIDE DEF Body
  <2> QED
    BY <1>6
<1>8. Form!Printed = F
  BY DEF Form!Printed, Components
<1>9. \A c \in Components : Form!Printed[c] = Step(Form!Printed, c)
  <2> HIDE DEF F, Step
  <2> QED
    BY <1>7, <1>8
<1> HIDE DEF F
<1> QED
  BY <1>9, Forest
-----------------------------------------------------------------------------
(* Paths from a component to a control that takes the focus.                *)

IsPath(P) ==
    /\ P \in Seq(Components) /\ P # <<>> /\ P[Len(P)] \in Focusable
    /\ \A i \in 1..(Len(P) - 1) : P[i] \in Containers /\ P[i + 1] \in In(P[i])

\* A path gets longer at its start by the container of its first component.
LEMMA LongerPath ==
    ASSUME NEW c \in Containers, NEW P, IsPath(P), P[1] \in In(c)
    PROVE  IsPath(<<c>> \o P) /\ (<<c>> \o P)[1] = c
<1> DEFINE Q == <<c>> \o P
<1>1. c \in Components /\ P \in Seq(Components) /\ Len(P) \in Nat /\ Len(P) # 0
  BY Forest DEF IsPath
<1>2. Q \in Seq(Components) /\ Len(Q) = Len(P) + 1 /\ Q[1] = c /\ \A i \in 1..Len(P) : Q[i + 1] = P[i]
  BY <1>1
<1> HIDE DEF Q
<1>3. Q # <<>> /\ Q[Len(Q)] = P[Len(P)]
  BY <1>1, <1>2
<1>4. ASSUME NEW i \in 1..(Len(Q) - 1) PROVE Q[i] \in Containers /\ Q[i + 1] \in In(Q[i])
  <2>1. CASE i = 1
    BY <1>1, <1>2, <2>1
  <2>2. CASE i # 1
    <3>1. i - 1 \in 1..(Len(P) - 1) /\ i - 1 \in 1..Len(P) /\ i \in 1..Len(P)
      BY <1>1, <1>2, <2>2
    <3> DEFINE j == i - 1
    <3>2. j \in 1..Len(P) /\ i = j + 1
      BY <3>1
    <3> HIDE DEF j
    <3>3. Q[i] = P[j]
      BY <1>2, <3>2
    <3>4. Q[i + 1] = P[j + 1]
      BY <1>2, <3>1, <3>2
    <3> QED
      BY <3>1, <3>3, <3>4 DEF IsPath, j
  <2> QED
    BY <2>1, <2>2
<1> QED
  BY <1>2, <1>3, <1>4 DEF IsPath, Q

\* The component that takes the focus is at the end of a path.
LEMMA TakerPath ==
    ASSUME NEW back \in BOOLEAN, NEW c \in Components, Form!Taker(back)[c] # <<>>
    PROVE  IsPath(Form!Taker(back)[c]) /\ Form!Taker(back)[c][1] = c
<1> DEFINE T == Form!Taker(back)
           S == {x \in Components : T[x] # <<>> /\ ~(IsPath(T[x]) /\ T[x][1] = x)}
<1>0. S \subseteq Components
  OBVIOUS
<1> HIDE DEF T
<1>1. S = {}
  <2> SUFFICES ASSUME S # {} PROVE FALSE
    OBVIOUS
  <2>1. PICK x \in S : x \in Containers => In(x) \cap S = {}
    <3> HIDE DEF S
    <3> QED
      BY <1>0, Lowest
  <2>2. x \in Components /\ T[x] # <<>> /\ ~(IsPath(T[x]) /\ T[x][1] = x)
    BY <2>1
  <2>3. CASE x \in Controls
    <3>1. x \in Focusable /\ T[x] = <<x>>
      BY <2>2, <2>3, TakerIs DEF T
    <3>2. IsPath(<<x>>)
      BY <2>2, <3>1 DEF IsPath
    <3> QED
      BY <2>2, <3>1, <3>2
  <2>4. CASE x \in Containers
    <3> DEFINE k == Chosen(T, x, back)
    <3>1. T[x] = IF Takers(T, x) = {} THEN <<>> ELSE <<x>> \o T[k]
      BY <2>4, TakerIs DEF T
    <3>2. k \in In(x) /\ T[k] # <<>>
      BY <2>2, <2>4, <3>1, ChosenIn
    <3> HIDE DEF k
    <3>3. IsPath(T[k]) /\ T[k][1] = k
      BY <2>1, <2>4, <3>2, InIs
    <3>4. IsPath(<<x>> \o T[k]) /\ (<<x>> \o T[k])[1] = x
      BY <2>4, <3>2, <3>3, LongerPath
    <3> QED
      BY <2>2, <3>1, <3>4
  <2> QED
    BY <2>2, <2>3, <2>4, Forest
<1> QED
  BY <1>1 DEF T

\* A component with a focusable control below it takes the focus.
LEMMA TakerFinds ==
    ASSUME NEW back \in BOOLEAN, NEW c \in Components, Below[c] \cap Focusable # {}
    PROVE  Form!Taker(back)[c] # <<>>
<1> DEFINE T == Form!Taker(back)
           S == {x \in Components : Below[x] \cap Focusable # {} /\ T[x] = <<>>}
<1>0. S \subseteq Components
  OBVIOUS
<1> HIDE DEF T
<1>1. S = {}
  <2> SUFFICES ASSUME S # {} PROVE FALSE
    OBVIOUS
  <2>1. PICK x \in S : x \in Containers => In(x) \cap S = {}
    <3> HIDE DEF S
    <3> QED
      BY <1>0, Lowest
  <2>2. x \in Components /\ T[x] = <<>>
    BY <2>1
  <2>3. PICK w \in Below[x] : w \in Focusable
    BY <2>1
  <2>4. CASE x = w
    <3>1. x \in Controls /\ T[x] = <<x>>
      BY <2>3, <2>4, Forest, TakerIs DEF T
    <3>2. <<x>> # <<>>
      OBVIOUS
    <3> QED
      BY <2>2, <3>1, <3>2
  <2>5. CASE x # w
    <3>1. PICK k \in In(x) : w \in Below[k]
      BY <2>2, <2>3, <2>5, BelowInner
    <3>2. x \in Containers
      BY <2>2, <2>3, <2>5, BelowInner
    <3>3. k \in Components /\ k \notin S
      BY <2>1, <3>1, <3>2, InIs
    <3>4. T[k] # <<>>
      BY <2>3, <3>1, <3>3
    <3>5. Takers(T, x) # {}
      BY <3>1, <3>2, <3>4, InIs DEF Takers
    <3>6. T[x] = <<x>> \o T[Chosen(T, x, back)]
      BY <3>2, <3>5, TakerIs DEF T
    <3>7. T[Chosen(T, x, back)] \in Seq(Components)
      BY <3>2, <3>5, ChosenIn, InIs, TakerIs DEF T
    <3>8. Len(T[x]) # 0
      BY <3>6, <3>7, <2>2
    <3> QED
      BY <2>2, <3>8
  <2> QED
    BY <2>4, <2>5
<1> QED
  BY <1>1 DEF T

\* A path leads inward.
LEMMA PathDown ==
    ASSUME NEW P, IsPath(P), NEW i \in 1..Len(P), NEW j \in 1..Len(P), i < j
    PROVE  P[j] \in Below[P[i]] /\ P[j] # P[i]
<1> DEFINE Down(k) == P[k] \in Below[P[i]] /\ Rank[P[k]] < Rank[P[i]]
           S == {k \in 1..Len(P) : i < k /\ ~Down(k)}
<1>0. Len(P) \in Nat /\ \A k \in 1..Len(P) : P[k] \in Components /\ Rank[P[k]] \in Nat
  BY Ranks DEF IsPath
<1>1. S = {}
  <2> SUFFICES ASSUME S # {} PROVE FALSE
    OBVIOUS
  <2>1. PICK k \in S : \A h \in S : k <= h
    <3>1. S \subseteq Nat
      BY <1>0
    <3> HIDE DEF S
    <3> QED
      BY <3>1, LeastNat, Zenon
  <2>2. k \in 1..Len(P) /\ i < k /\ ~Down(k)
    BY <2>1
  <2>3. k - 1 \in 1..(Len(P) - 1) /\ k - 1 \in 1..Len(P) /\ (k - 1) + 1 = k /\ (k - 1 = i \/ i < k - 1)
    BY <1>0, <2>2
  <2>4. P[k - 1] \in Containers /\ P[k] \in In(P[k - 1])
    BY <2>3 DEF IsPath
  <2>5. Rank[P[k]] < Rank[P[k - 1]] /\ P[k] \in Below[P[k - 1]]
    BY <2>2, <2>4, <1>0, Ranks, BelowIn, BelowSelf
  <2>6. CASE k - 1 = i
    BY <2>2, <2>5, <2>6
  <2>7. CASE i < k - 1
    <3>1. k - 1 \notin S
      BY <2>1, <2>3
    <3>2. Down(k - 1)
      BY <2>3, <2>7, <3>1
    <3>3. P[k] \in Below[P[i]]
      BY <3>2, <2>3, <2>5, <1>0, BelowBelow
    <3>4. Rank[P[k]] < Rank[P[i]]
      <4>1. Rank[P[k]] \in Nat /\ Rank[P[k - 1]] \in Nat /\ Rank[P[i]] \in Nat
        BY <1>0, <2>2, <2>3
      <4> QED
        BY <2>5, <3>2, <4>1
    <3> QED
      BY <2>2, <3>3, <3>4
  <2> QED
    BY <2>3, <2>6, <2>7
<1>2. Down(j)
  <2> HIDE DEF Down
  <2> QED
    BY <1>1
<1> QED
  BY <1>0, <1>2

\* The components of a path before its end.
LEMMA FrontIs ==
    ASSUME NEW P, IsPath(P)
    PROVE  Form!Range(Form!Front(P)) = {P[i] : i \in 1..(Len(P) - 1)}
<1>1. P \in Seq(Components) /\ Len(P) \in Nat
  BY DEF IsPath
<1>2. Form!Front(P) = [i \in 1..(Len(P) - 1) |-> P[i]]
  BY <1>1 DEF Form!Front
<1> QED
  BY <1>2 DEF Form!Range

\* A container around the end of a path is on the path or around its start.
LEMMA OnPath ==
    ASSUME NEW P, IsPath(P), NEW c \in Components, P[Len(P)] \in Below[c]
    PROVE  (\E i \in 1..Len(P) : P[i] = c) \/ P[1] \in Below[c]
<1> DEFINE n == Len(P)
           w == P[n]
           S == {i \in 1..n : c \in Below[P[i]]}
<1>0. n \in Nat /\ n # 0 /\ \A i \in 1..n : P[i] \in Components
  BY DEF IsPath
<1>1. \A i \in 1..n : w \in Below[P[i]]
  <2>1. ASSUME NEW i \in 1..n PROVE w \in Below[P[i]]
    <3>1. CASE i = n
      BY <3>1, <1>0, BelowSelf
    <3>2. CASE i # n
      BY <3>2, <1>0, PathDown
    <3> QED
      BY <3>1, <3>2
  <2> QED
    BY <2>1
<1>2. CASE 1 \notin S
  <2>1. 1 \in 1..n
    BY <1>0
  <2>2. w \in Below[P[1]] /\ c \notin Below[P[1]]
    BY <1>1, <1>2, <2>1
  <2>3. P[1] \in Below[c]
    BY <1>0, <2>1, <2>2, Nested
  <2> QED
    BY <2>3
<1>3. CASE 1 \in S
  <2>1. S \subseteq 1..n /\ S # {}
    BY <1>3
  <2>2. PICK i \in S : \A j \in S : i >= j
    <3> HIDE DEF S, n
    <3> QED
      BY <2>1, <1>0, GreatestOf
  <2>3. i \in 1..n /\ c \in Below[P[i]] /\ P[i] \in Components
    BY <2>2, <1>0
  <2>4. ASSUME P[i] # c PROVE FALSE
    <3>1. P[i] \in Containers /\ \E k \in In(P[i]) : c \in Below[k]
      BY <2>3, <2>4, BelowInner
    <3>2. PICK k \in In(P[i]) : c \in Below[k]
      BY <3>1
    <3>3. i # n
      BY <3>1, Forest DEF IsPath
    <3>4. i \in 1..(n - 1) /\ i + 1 \in 1..n
      BY <1>0, <2>3, <3>3
    <3>5. P[i + 1] \in In(P[i]) /\ w \in Below[P[i + 1]]
      BY <1>1, <3>4 DEF IsPath
    <3>6. k \in Components /\ w \in Below[k]
      BY <3>1, <3>2, InIs, BelowBelow
    <3>7. k = P[i + 1]
      BY <3>1, <3>5, <3>6, OneOfThem
    <3>8. i + 1 \in S
      BY <3>2, <3>4, <3>7
    <3> QED
      BY <2>2, <2>3, <3>8
  <2> QED
    BY <2>3, <2>4
<1> QED
  BY <1>2, <1>3

\* The cursors along a path.
LEMMA AlongIs ==
    ASSUME NEW P, IsPath(P), NEW old
    PROVE  /\ Form!Along(old, P) = [c \in Containers |-> Form!Along(old, P)[c]]
           /\ \A i \in 1..(Len(P) - 1) : Form!Along(old, P)[P[i]] = P[i + 1]
           /\ \A c \in Containers : (\A i \in 1..Len(P) : P[i] # c) => Form!Along(old, P)[c] = old[c]
<1> DEFINE at(c) == CHOOSE k \in DOMAIN P : P[k] = c
           A == Form!Along(old, P)
<1>0. P \in Seq(Components) /\ Len(P) \in Nat /\ DOMAIN P = 1..Len(P)
  BY DEF IsPath
<1>1. A = [c \in Containers |-> IF c \in {P[i] : i \in 1..(Len(P) - 1)} THEN P[1 + at(c)] ELSE old[c]]
  BY FrontIs DEF Form!Along, Containers
<1>2. ASSUME NEW i \in 1..(Len(P) - 1) PROVE at(P[i]) = i
  <2>1. i \in DOMAIN P
    BY <1>0
  <2>2. at(P[i]) \in DOMAIN P /\ P[at(P[i])] = P[i]
    BY <2>1
  <2> HIDE DEF at
  <2>3. i < at(P[i]) => P[at(P[i])] # P[i]
    BY <1>0, <2>1, <2>2, PathDown
  <2>4. at(P[i]) < i => P[i] # P[at(P[i])]
    BY <1>0, <2>1, <2>2, PathDown
  <2> QED
    BY <1>0, <2>1, <2>2, <2>3, <2>4
<1>3. ASSUME NEW i \in 1..(Len(P) - 1) PROVE A[P[i]] = P[i + 1]
  <2>1. P[i] \in Containers /\ 1 + i = i + 1
    BY DEF IsPath
  <2> HIDE DEF at, A
  <2> QED
    BY <1>1, <1>2, <2>1
<1>4. ASSUME NEW c \in Containers, \A i \in 1..Len(P) : P[i] # c PROVE A[c] = old[c]
  <2>1. c \notin {P[i] : i \in 1..(Len(P) - 1)}
    BY <1>0, <1>4
  <2> HIDE DEF at, A
  <2> QED
    BY <1>1, <2>1
<1>5. A = [c \in Containers |-> A[c]]
  <2> HIDE DEF at, A
  <2> QED
    BY <1>1
<1> QED
  BY <1>3, <1>4, <1>5

\* The cursors lead to w from everything around it, and it is in the menu m.
Leads(cur, m, w) ==
    /\ w \in Focusable /\ w \in Below[Root[m]]
    /\ \A c \in Containers : w \in Below[c] => cur[c] \in In(c) /\ w \in Below[cur[c]]

\* Where the cursors lead, Leaf ends.
LEMMA LeafLeads ==
    ASSUME CursorsIn(cursor), NEW m \in Menus, NEW w, Leads(cursor, m, w),
           NEW c \in Components, w \in Below[c]
    PROVE  Form!Leaf[c] = w
<1> DEFINE S == {x \in Components : w \in Below[x] /\ Form!Leaf[x] # w}
<1>1. S = {}
  <2> SUFFICES ASSUME S # {} PROVE FALSE
    OBVIOUS
  <2>1. PICK x \in S : x \in Containers => In(x) \cap S = {}
    <3>1. S \subseteq Components
      OBVIOUS
    <3> HIDE DEF S
    <3> QED
      BY <3>1, Lowest
  <2>2. x \in Components /\ w \in Below[x] /\ Form!Leaf[x] # w
    BY <2>1
  <2>3. CASE x \in Controls
    <3>1. Form!Leaf[x] = x
      BY <2>3, LeafIs
    <3>2. w = x
      BY <2>2, <2>3, BelowIs
    <3> QED
      BY <2>2, <3>1, <3>2
  <2>4. CASE x \in Containers
    <3>1. cursor[x] \in In(x) /\ w \in Below[cursor[x]]
      BY <2>2, <2>4 DEF Leads
    <3>2. cursor[x] \in Components /\ cursor[x] # None
      BY <2>4, <3>1, InIs, Forest
    <3>3. Form!Leaf[x] = Form!Leaf[cursor[x]]
      BY <2>4, <3>2, LeafIs
    <3>4. cursor[x] \notin S
      BY <2>1, <2>4, <3>1
    <3> QED
      BY <2>2, <3>1, <3>2, <3>3, <3>4
  <2> QED
    BY <2>2, <2>3, <2>4, Forest
<1> QED
  BY <1>1

\* A path that starts around the focus, or at the root of a menu, takes the cursors to
\* its end.
LEMMA AlongLeads ==
    ASSUME NEW old, CursorsIn(old), NEW m \in Menus, NEW P, IsPath(P),
           \/ P[1] = Root[m]
           \/ \E w : Leads(old, m, w) /\ w \in Below[P[1]]
    PROVE  CursorsIn(Form!Along(old, P)) /\ Leads(Form!Along(old, P), m, P[Len(P)])
<1> DEFINE n == Len(P)
           e == P[n]
           A == Form!Along(old, P)
<1>0. n \in Nat /\ n # 0 /\ (\A i \in 1..n : P[i] \in Components) /\ e \in Focusable
  BY DEF IsPath
<1>1. \A i \in 1..n : e \in Below[P[i]]
  <2>1. ASSUME NEW i \in 1..n PROVE e \in Below[P[i]]
    <3>1. CASE i = n
      BY <3>1, <1>0, BelowSelf
    <3>2. CASE i # n
      BY <3>2, <1>0, PathDown
    <3> QED
      BY <3>1, <3>2
  <2> QED
    BY <2>1
<1>2. ASSUME NEW c \in Containers
      PROVE  \/ \E i \in 1..(n - 1) : P[i] = c /\ A[c] = P[i + 1] /\ A[c] \in In(c)
             \/ (\A i \in 1..n : P[i] # c) /\ A[c] = old[c]
  <2>1. CASE \E i \in 1..n : P[i] = c
    <3>1. PICK i \in 1..n : P[i] = c
      BY <2>1
    <3>2. i # n
      BY <1>0, <3>1, Forest
    <3>3. i \in 1..(n - 1)
      BY <1>0, <3>2
    <3>4. A[c] = P[i + 1] /\ P[i + 1] \in In(c)
      BY <3>1, <3>3, AlongIs DEF IsPath
    <3> QED
      BY <3>1, <3>3, <3>4
  <2>2. CASE ~\E i \in 1..n : P[i] = c
    BY <2>2, AlongIs
  <2> QED
    BY <2>1, <2>2
<1>3. CursorsIn(A)
  <2>1. \A c \in Containers : A[c] \in Components \cup {None} /\ (A[c] # None => A[c] \in In(c))
    BY <1>2, InIs DEF CursorsIn
  <2> QED
    BY <2>1, AlongIs DEF CursorsIn
<1>4. ASSUME NEW c \in Containers, e \in Below[c] PROVE A[c] \in In(c) /\ e \in Below[A[c]]
  <2>1. CASE \E i \in 1..(n - 1) : P[i] = c /\ A[c] = P[i + 1] /\ A[c] \in In(c)
    BY <2>1, <1>0, <1>1
  <2>2. CASE (\A i \in 1..n : P[i] # c) /\ A[c] = old[c]
    <3>1. c \in Components /\ P[1] \in Below[c] /\ P[1] # c /\ P[1] \in Components
      BY <1>0, <1>4, <2>2, OnPath, Forest
    <3>2. P[1] # Root[m]
      BY <3>1, BelowUp, Forest
    <3>3. PICK w : Leads(old, m, w) /\ w \in Below[P[1]]
      BY <3>2
    <3>4. PICK k \in In(c) : P[1] \in Below[k]
      BY <3>1, BelowInner
    <3>5. k \in Components /\ w \in Below[k] /\ w \in Below[c] /\ e \in Below[k]
      BY <3>1, <3>3, <3>4, <1>0, <1>1, InIs, BelowBelow
    <3>6. old[c] \in In(c) /\ w \in Below[old[c]]
      BY <3>3, <3>5 DEF Leads
    <3>7. k = old[c]
      BY <3>4, <3>5, <3>6, OneOfThem
    <3> QED
      BY <2>2, <3>5, <3>6, <3>7
  <2> QED
    BY <1>2, <2>1, <2>2
<1>5. e \in Below[Root[m]]
  <2>1. CASE P[1] = Root[m]
    BY <2>1, <1>0, <1>1
  <2>2. CASE P[1] # Root[m]
    <3> DEFINE r == Root[m]
    <3>1. PICK w : Leads(old, m, w) /\ w \in Below[P[1]]
      BY <2>2
    <3>2. r \in Components /\ P[1] \in Components /\ w \in Below[r] /\ Form!Parent(r) = None
      BY <1>0, <3>1, Forest DEF Leads
    <3>3. r \notin Below[P[1]]
      BY <2>2, <3>2, BelowUp, Forest
    <3>4. P[1] \in Below[r]
      BY <3>1, <3>2, <3>3, Nested
    <3> QED
      BY <1>0, <1>1, <3>2, <3>4, BelowBelow
  <2> QED
    BY <2>1, <2>2
<1> QED
  BY <1>0, <1>3, <1>4, <1>5 DEF Leads
-----------------------------------------------------------------------------
(* A move of the cursor.                                                    *)

\* The components after the cursor of a container, or before it, that take the focus,
\* and the nearest of them.
AtCursor(x) == CHOOSE k \in DOMAIN Kids[x] : Kids[x][k] = cursor[x]
Later(x, back) == {k \in DOMAIN Kids[x] : /\ IF back THEN k < AtCursor(x) ELSE k > AtCursor(x)
                                         /\ Form!Taker(back)[Kids[x][k]] # <<>>}
Nearest(K, x, back) == Kids[x][IF back THEN Form!Max(K) ELSE Form!Min(K)]

\* The path G[x] of a move that starts in the container x: to the nearest one, or else as
\* from the container around it, or else from the root again.
MovesAlong(G, w, back) ==
    \A x \in Containers : w \in Below[x] =>
        G[x] = IF Later(x, back) # {} THEN <<x>> \o Form!Taker(back)[Nearest(Later(x, back), x, back)]
               ELSE IF Form!Parent(x) = None THEN Form!Taker(back)[x] ELSE G[Form!Parent(x)]

\* The nearest of some components in a container is one of them.
LEMMA NearestIn ==
    ASSUME NEW x \in Containers, NEW back \in BOOLEAN, NEW K, K \subseteq DOMAIN Kids[x], K # {}
    PROVE  (IF back THEN Form!Max(K) ELSE Form!Min(K)) \in K /\ Nearest(K, x, back) \in In(x)
<1> DEFINE i == IF back THEN Form!Max(K) ELSE Form!Min(K)
<1>1. K \subseteq 1..Len(Kids[x]) /\ Len(Kids[x]) \in Nat
  BY InIs
<1>2. Form!Max(K) \in K /\ Form!Min(K) \in K
  BY <1>1, LeastOf, GreatestOf
<1>3. i \in K
  BY <1>2
<1> HIDE DEF i
<1>4. Kids[x][i] \in In(x)
  BY <1>1, <1>3, InIs
<1> QED
  BY <1>3, <1>4 DEF i, Nearest

\* A move ends at the end of a path that starts around the focus.
LEMMA MoveIs ==
    ASSUME NEW m \in Menus, NEW w, Leads(cursor, m, w),
           NEW c \in Containers, w \in Below[c], NEW back \in BOOLEAN, Form!Move(c, back)
    PROVE  \E R, G : /\ c \in R /\ IsPath(G[c]) /\ w \in Below[G[c][1]] /\ Form!Give(R, G[c])
                     /\ MovesAlong(G, w, back)
<1> DEFINE T == Form!Taker(back)
           V == [up : SUBSET Containers, path : Seq(Components)]
           K(x) == Later(x, back)
           k(x) == Nearest(K(x), x, back)
           Step(f, x) == IF K(x) # {} THEN [up |-> {x}, path |-> <<x>> \o T[k(x)]]
                         ELSE IF Form!Parent(x) = None THEN [up |-> {x}, path |-> T[x]]
                         ELSE [f[Form!Parent(x)] EXCEPT !.up = @ \cup {x}]
           B == [x \in Containers |-> [f \in [Containers -> V] |-> Step(f, x)]]
           Body(f) == [x \in Containers |-> Step(f, x)]
           F == CHOOSE f : f = Body(f)
           p(x) == Form!Parent(x)
<1>1. Form!Give(F[c].up \cup Form!Range(Form!Front(F[c].path)), F[c].path)
  BY DEF Form!Move, Containers, Later, Nearest, AtCursor
<1>2. T \in [Components -> Seq(Components)]
  BY TakerIs
<1>3. ASSUME NEW x \in Containers, K(x) # {} PROVE k(x) \in In(x) /\ T[k(x)] # <<>>
  <2> DEFINE i == IF back THEN Form!Max(K(x)) ELSE Form!Min(K(x))
  <2>1. i \in K(x) /\ k(x) \in In(x)
    <3>1. K(x) \subseteq DOMAIN Kids[x]
      BY DEF Later
    <3> QED
      BY <1>3, <3>1, NearestIn
  <2> HIDE DEF i
  <2>2. T[Kids[x][i]] # <<>>
    BY <2>1 DEF Later
  <2> QED
    BY <2>1, <2>2 DEF i, Nearest
<1>4. ASSUME NEW x \in Containers, NEW f, K(x) # {}
      PROVE  Step(f, x) = [up |-> {x}, path |-> <<x>> \o T[k(x)]]
  BY <1>4
<1>5. ASSUME NEW x \in Containers, NEW f, K(x) = {}, p(x) = None
      PROVE  Step(f, x) = [up |-> {x}, path |-> T[x]]
  BY <1>5
<1>6. ASSUME NEW x \in Containers, NEW f, K(x) = {}, p(x) # None
      PROVE  Step(f, x) = [f[p(x)] EXCEPT !.up = @ \cup {x}]
  BY <1>6
<1>7. \A x \in Containers : x \in Components /\ In(x) \subseteq Components
                            /\ (p(x) # None => p(x) \in Containers /\ x \in In(p(x)))
  BY Forest, InIs, ParentIs
<1> HIDE DEF T, K, k, Step, p
<1>8. B \in [Containers -> [[Containers -> V] -> V]]
  <2>1. ASSUME NEW x \in Containers, NEW f \in [Containers -> V] PROVE Step(f, x) \in V
    <3>a. \A q \in Seq(Components) : [up |-> {x}, path |-> q] \in V
      OBVIOUS
    <3>b. \A h \in V : [h EXCEPT !.up = @ \cup {x}] \in V
      OBVIOUS
    <3> HIDE DEF V
    <3>1. CASE K(x) # {}
      <4>1. k(x) \in Components /\ x \in Components
        BY <1>3, <1>7, <3>1
      <4>2. <<x>> \o T[k(x)] \in Seq(Components)
        BY <1>2, <4>1
      <4> QED
        BY <1>4, <3>1, <4>2, <3>a
    <3>2. CASE K(x) = {} /\ p(x) = None
      BY <1>2, <1>5, <1>7, <3>2, <3>a
    <3>3. CASE K(x) = {} /\ p(x) # None
      <4>1. f[p(x)] \in V
        BY <1>7, <3>3
      <4> QED
        BY <1>6, <3>3, <4>1, <3>b
    <3> QED
      BY <3>1, <3>2, <3>3
  <2> HIDE DEF V
  <2> QED
    BY <2>1
<1>9. ASSUME NEW x \in Containers, NEW f \in [Containers -> V], NEW g \in [Containers -> V],
             \A d \in Outward(Containers)[x] : f[d] = g[d]
      PROVE  B[x][f] = B[x][g]
  <2>1. Step(f, x) = Step(g, x)
    <3>1. CASE K(x) # {}
      BY <1>4, <3>1
    <3>2. CASE K(x) = {} /\ p(x) = None
      BY <1>5, <3>2
    <3>3. CASE K(x) = {} /\ p(x) # None
      <4>1. f[p(x)] = g[p(x)]
        BY <1>9, <3>3 DEF Outward, p
      <4> QED
        BY <1>6, <3>3, <4>1
    <3> QED
      BY <3>1, <3>2, <3>3
  <2> HIDE DEF V
  <2> QED
    BY <2>1
<1>10. \E f \in [Containers -> V] : \A x \in Containers : f[x] = B[x][f]
  <2>1. V # {}
    <3>1. [up |-> {}, path |-> <<>>] \in V
      OBVIOUS
    <3> HIDE DEF V
    <3> QED
      BY <3>1
  <2> HIDE DEF V, B
  <2>2. Computes(Containers, V, Outward(Containers), B)
    BY <1>8, <1>9 DEF Computes
  <2>3. Ranked(Containers, Outward(Containers))
    BY OutwardIs, Forest
  <2> QED
    BY <2>1, <2>2, <2>3, Recursion
<1>11. PICK W \in [Containers -> V] : \A x \in Containers : W[x] = Step(W, x)
  <2> HIDE DEF V
  <2> QED
    BY <1>10
<1>12. W = Body(W)
  BY <1>11
<1>13. F = Body(F)
  <2> HIDE DEF Body
  <2> QED
    BY <1>12
<1> HIDE DEF F
<1>14. \A x \in Containers : F[x] = Step(F, x)
  BY <1>13
<1> DEFINE Good(x) == F[x] \in V /\ x \in F[x].up /\ IsPath(F[x].path) /\ w \in Below[F[x].path[1]]
           S == {x \in Containers : w \in Below[x] /\ ~Good(x)}
<1>15. S = {}
  <2> SUFFICES ASSUME S # {} PROVE FALSE
    OBVIOUS
  <2>1. PICK x \in S : Form!Parent(x) \notin S
    <3>1. S \subseteq Components
      BY <1>7
    <3> HIDE DEF S
    <3> QED
      BY <3>1, Highest
  <2>2. x \in Containers /\ w \in Below[x] /\ ~Good(x) /\ w \in Focusable
    BY <2>1 DEF Leads
  <2>3. CASE K(x) # {}
    <3>1. F[x] = [up |-> {x}, path |-> <<x>> \o T[k(x)]]
      BY <1>4, <1>14, <2>2, <2>3
    <3>2. k(x) \in In(x) /\ T[k(x)] # <<>> /\ k(x) \in Components /\ x \in Components
      BY <1>3, <1>7, <2>2, <2>3
    <3>3. IsPath(T[k(x)]) /\ T[k(x)][1] = k(x)
      BY <3>2, TakerPath DEF T
    <3>4. IsPath(<<x>> \o T[k(x)]) /\ (<<x>> \o T[k(x)])[1] = x
      BY <2>2, <3>2, <3>3, LongerPath
    <3>5. <<x>> \o T[k(x)] \in Seq(Components)
      BY <3>4 DEF IsPath
    <3> QED
      BY <2>2, <3>1, <3>4, <3>5
  <2>4. CASE K(x) = {} /\ p(x) = None
    <3>1. F[x] = [up |-> {x}, path |-> T[x]]
      BY <1>5, <1>14, <2>2, <2>4
    <3>2. T[x] # <<>> /\ x \in Components
      BY <1>7, <2>2, TakerFinds DEF T
    <3>3. IsPath(T[x]) /\ T[x][1] = x /\ T[x] \in Seq(Components)
      BY <1>2, <3>2, TakerPath DEF T
    <3> QED
      BY <2>2, <3>1, <3>3
  <2>5. CASE K(x) = {} /\ p(x) # None
    <3>1. F[x] = [F[p(x)] EXCEPT !.up = @ \cup {x}]
      BY <1>6, <1>14, <2>2, <2>5
    <3>2. p(x) \in Containers /\ x \in In(p(x)) /\ p(x) \notin S
      BY <1>7, <2>1, <2>2, <2>5 DEF p
    <3>3. Good(p(x))
      BY <2>2, <3>2, BelowIn
    <3>4. F[x] \in V /\ F[x].up = F[p(x)].up \cup {x} /\ F[x].path = F[p(x)].path
      BY <2>2, <3>1, <3>3
    <3> QED
      BY <2>2, <3>3, <3>4
  <2> QED
    BY <2>3, <2>4, <2>5
<1>16. Good(c)
  <2> HIDE DEF Good
  <2> QED
    BY <1>15
<1> DEFINE G == [x \in Containers |-> F[x].path]
<1>17. ASSUME NEW x \in Containers, w \in Below[x]
       PROVE  G[x] = IF K(x) # {} THEN <<x>> \o T[k(x)] ELSE IF p(x) = None THEN T[x] ELSE G[p(x)]
  <2>1. CASE K(x) # {}
    BY <1>4, <1>14, <2>1
  <2>2. CASE K(x) = {} /\ p(x) = None
    BY <1>5, <1>14, <2>2
  <2>3. CASE K(x) = {} /\ p(x) # None
    <3>1. p(x) \in Containers /\ F[p(x)] \in V
      <4>1. p(x) \in Containers /\ w \in Below[p(x)]
        BY <1>7, <1>17, <2>3, BelowIn
      <4> QED
        BY <4>1, <1>15
    <3>2. F[x].path = F[p(x)].path
      <4>1. F[x] = [F[p(x)] EXCEPT !.up = @ \cup {x}]
        BY <1>6, <1>14, <2>3
      <4> QED
        BY <3>1, <4>1
    <3> QED
      BY <2>3, <3>1, <3>2
  <2> QED
    BY <2>1, <2>2, <2>3
<1>18. MovesAlong(G, w, back)
  <2> HIDE DEF G
  <2> QED
    BY <1>17 DEF MovesAlong, T, K, k, p
<1>19. G[c] = F[c].path
  OBVIOUS
<1> HIDE DEF G
<1> DEFINE R == F[c].up \cup Form!Range(Form!Front(F[c].path))
<1>20. Form!Give(R, G[c])
  BY <1>1, <1>19
<1>21. c \in R /\ IsPath(G[c]) /\ w \in Below[G[c][1]]
  BY <1>16, <1>19
<1> HIDE DEF R
<1> QED
  BY <1>18, <1>20, <1>21
-----------------------------------------------------------------------------
(* The invariant: the cursors lead from everything around the focus to it,  *)
(* and what the terminal shows wrongly is marked, with all around it.       *)

LeadsToFocus == CursorsIn(cursor) /\ \E w : focus = {w} /\ Leads(cursor, shown, w)
StaleIsMarked ==
    \A c \in Controls : c \in Below[Root[shown]] /\ screen[c] # Form!View(c)
                        => pc = "paint" /\ \A a \in Components : c \in Below[a] => a \in inval

FormIInv ==
    /\ Form!TypeOK /\ Form!OneSelected
    /\ LeadsToFocus /\ StaleIsMarked
    /\ DOMAIN sel = Menus /\ held \cap Cleared \subseteq {shown}

\* What the model takes for granted of the menus.
LEMMA MenuFacts ==
    /\ Main \in Menus /\ Quit \notin Menus /\ Cleared \subseteq Menus /\ MaxLength \in Nat /\ MaxLength # 0
    /\ Opens \in [{c \in Controls : Kind[c] = "button"} -> Menus \cup {Quit}]
    /\ \A m \in Menus : /\ Below[Root[m]] \cap Focusable # {}
                        /\ \A c \in Below[Root[m]] \cap DOMAIN Opens : Opens[c] # m
                        /\ Form!Radios(m) = {c \in Controls : Kind[c] = "radio" /\ c \in In(Root[m])}
    /\ \A c \in Controls : Kind[c] = "radio" => \E m \in Menus : c \in Form!Radios(m)
    /\ Form!Radios(Main) = {}
<1>1. Form!FormAssumption
  BY LibraryAssumption
<1>2. \A m \in Menus : Form!Radios(m) = {c \in Controls : Kind[c] = "radio" /\ c \in In(Root[m])}
  BY DEF Form!Radios, Controls, In
<1> QED
  BY <1>1, <1>2 DEF Form!FormAssumption, Controls, Focusable, Below

\* A radio button in a menu is one of the group of the menu.
LEMMA RadioIs ==
    ASSUME NEW m \in Menus, NEW c \in Controls, Kind[c] = "radio", c \in Below[Root[m]]
    PROVE  c \in Form!Radios(m)
<1>1. PICK n \in Menus : c \in Form!Radios(n)
  BY MenuFacts
<1>2. c \in In(Root[n]) /\ Root[n] \in Components /\ Root[m] \in Components /\ Root[n] \in Containers
  BY <1>1, MenuFacts, Forest
<1>3. c \in Below[Root[n]]
  BY <1>2, BelowIn, BelowSelf, InIs
<1>4. Root[m] \in Below[Root[n]] \/ Root[n] \in Below[Root[m]]
  BY <1>2, <1>3, Nested
<1>5. Root[m] = Root[n]
  BY <1>2, <1>4, BelowUp, Forest
<1> QED
  BY <1>1, <1>5, MenuFacts

\* The control at the end of the cursors is the one with the focus.
LEMMA HereIs ==
    ASSUME Form!TypeOK, CursorsIn(cursor), NEW w, Leads(cursor, shown, w)
    PROVE  Form!Here = w /\ w \in Focusable /\ w \in Controls /\ w \in Below[Root[shown]]
<1>1. shown \in Menus
  BY DEF Form!TypeOK
<1>2. Root[shown] \in Components /\ w \in Below[Root[shown]]
  BY <1>1, Forest DEF Leads
<1> QED
  BY <1>1, <1>2, LeafLeads, Forest DEF Form!Here, Leads

\* The focus of a new menu.
LEMMA NewFocus ==
    ASSUME NEW m \in Menus,
           NEW cur, cur = Form!Along([c \in Form!Containers |-> None], Form!Taker(FALSE)[Root[m]]),
           NEW w, w = Form!Last(Form!Taker(FALSE)[Root[m]])
    PROVE  CursorsIn(cur) /\ Leads(cur, m, w)
<1> DEFINE P == Form!Taker(FALSE)[Root[m]]
           old == [c \in Form!Containers |-> None]
<1>1. Root[m] \in Components /\ Below[Root[m]] \cap Focusable # {}
  BY Forest, MenuFacts
<1>2. P # <<>>
  BY <1>1, TakerFinds
<1>3. IsPath(P) /\ P[1] = Root[m]
  BY <1>1, <1>2, TakerPath
<1>4. CursorsIn(old)
  BY DEF CursorsIn, Containers
<1> HIDE DEF P, old
<1>5. CursorsIn(Form!Along(old, P)) /\ Leads(Form!Along(old, P), m, P[Len(P)])
  BY <1>3, <1>4, AlongLeads
<1> QED
  BY <1>5 DEF P, old, Form!Last

\* The texts a new menu starts with fit their fields.
LEMMA NewTexts == Form!Start \in [Form!Fields -> 0..MaxLength]
BY MenuFacts DEF Form!Start

\* The constructors select the first of a group that has none selected.
LEMMA FreshIs ==
    ASSUME NEW m \in Menus
    PROVE  /\ Form!Fresh(m) \subseteq Form!Radios(m) /\ Cardinality(Form!Fresh(m)) <= 1
           /\ Form!Fresh(m) = {} => Form!Radios(m) = {} \/ (m \in Form!Alive /\ sel[m] # {})
<1> DEFINE K == {k \in DOMAIN Kids[Root[m]] : Kids[Root[m]][k] \in Form!Radios(m)}
           first == Kids[Root[m]][Form!Min(K)]
<1>1. Form!Fresh(m) = IF Form!Radios(m) = {} \/ (m \in Form!Alive /\ sel[m] # {}) THEN {} ELSE {first}
  BY DEF Form!Fresh
<1>2. Root[m] \in Containers
  BY Forest
<1>3. ASSUME Form!Radios(m) # {} PROVE first \in Form!Radios(m)
  <2>1. K \subseteq 1..Len(Kids[Root[m]]) /\ Len(Kids[Root[m]]) \in Nat
    BY <1>2, InIs
  <2>2. K # {}
    BY <1>2, <1>3, InIs, MenuFacts
  <2>3. Form!Min(K) \in K
    <3> HIDE DEF K
    <3> QED
      BY <2>1, <2>2, LeastOf
  <2> QED
    BY <2>3
<1> HIDE DEF first
<1>4. Cardinality({}) = 0 /\ Cardinality({first}) = 1
  BY FS_EmptySet, FS_Singleton
<1> QED
  BY <1>1, <1>3, <1>4

\* What component::invalid marks.
LEMMA InvalidIs ==
    ASSUME NEW C
    PROVE  /\ Form!Invalid(C) \subseteq Components
           /\ \A c \in C : \A a \in Components : c \in Below[a] => a \in Form!Invalid(C)
BY DEF Form!Invalid, Components, Below

LEMMA FormStart == ASSUME Form!Init PROVE FormIInv
<1> USE DEF Form!Init
<1>1. CursorsIn(cursor) /\ \E w : focus = {w} /\ Leads(cursor, shown, w)
  BY NewFocus, MenuFacts
<1>2. shown \in Menus /\ held \subseteq Menus /\ inval = Components /\ pc = "paint" /\ held \cap Cleared \subseteq {shown}
  BY MenuFacts DEF Components
<1>3. focus \subseteq Focusable /\ cursor \in [Containers -> Components \cup {None}]
  BY <1>1 DEF Leads, CursorsIn
<1>4. Form!TypeOK
  BY <1>2, <1>3, NewTexts DEF Form!TypeOK, Components, Containers, Focusable, Form!Blank, Controls
<1>5. Form!OneSelected
  <2>1. Form!Cardinality({}) = 0
    BY FS_EmptySet DEF Cardinality, Form!Cardinality
  <2> QED
    BY <2>1, MenuFacts DEF Form!OneSelected
<1>6. StaleIsMarked
  BY <1>2 DEF StaleIsMarked
<1> QED
  BY <1>1, <1>2, <1>4, <1>5, <1>6 DEF FormIInv, LeadsToFocus
-----------------------------------------------------------------------------
(* The steps.                                                               *)

\* All that is stale after a step was stale before it, or looks different now; and is marked.
LEMMA MarkedStep ==
    ASSUME FormIInv, pc = "key", shown' = shown, screen' = screen, pc' = "paint", inval \subseteq inval',
           \A c \in Controls : (Form!View(c))' = Form!View(c)
                               \/ \A a \in Components : c \in Below[a] => a \in inval'
    PROVE  StaleIsMarked'
BY DEF FormIInv, StaleIsMarked

LEMMA PaintKeeps == ASSUME FormIInv, Form!Paint PROVE FormIInv'
<1>1. pc = "paint" /\ pc' = "key" /\ UNCHANGED <<shown, held, sel, cursor, focus, len>>
  BY DEF Form!Paint
<1>2. screen' = [c \in Controls |-> IF c \in Below[Root[shown]] \cap Controls /\ Form!Printed[c]
                                    THEN Form!View(c) ELSE screen[c]]
  BY DEF Form!Paint, Controls, Below
<1>3. inval' \subseteq inval
  BY DEF Form!Paint
<1>4. Form!TypeOK' /\ Form!OneSelected' /\ LeadsToFocus' /\ (held \cap Cleared \subseteq {shown})'
  <2>1. Form!TypeOK'
    BY <1>1, <1>2, <1>3 DEF FormIInv, Form!TypeOK, Controls
  <2>2. Form!OneSelected' /\ LeadsToFocus'
    BY <1>1 DEF FormIInv, Form!OneSelected, LeadsToFocus
  <2> QED
    BY <1>1, <2>1, <2>2 DEF FormIInv
<1>5. ASSUME NEW c \in Controls, \A a \in Components : c \in Below[a] => a \in inval
      PROVE  Form!Printed[c]
  <2> DEFINE S == {a \in Components : c \in Below[a] /\ ~Form!Printed[a]}
  <2>1. S = {}
    <3> SUFFICES ASSUME S # {} PROVE FALSE
      OBVIOUS
    <3>1. PICK a \in S : Form!Parent(a) \notin S
      <4>1. S \subseteq Components
        OBVIOUS
      <4> HIDE DEF S
      <4> QED
        BY <4>1, Highest
    <3>2. a \in Components /\ c \in Below[a] /\ ~Form!Printed[a]
      BY <3>1
    <3>3. Form!Parent(a) # None
      BY <3>2, PrintedIs
    <3>4. Form!Parent(a) \in Containers /\ a \in In(Form!Parent(a))
      BY <3>2, <3>3, ParentIs
    <3>5. Form!Parent(a) \in Components /\ c \in Below[Form!Parent(a)]
      BY <3>2, <3>4, Forest, BelowIn
    <3>6. Form!Printed[Form!Parent(a)]
      BY <3>1, <3>5
    <3>7. a \in inval /\ Form!Parent(a) \in inval
      BY <1>5, <3>2, <3>5
    <3> QED
      BY <3>2, <3>6, <3>7, PrintedIs
  <2>2. c \in Components /\ c \in Below[c]
    BY Forest, BelowSelf
  <2> QED
    BY <2>1, <2>2
<1>6. \A c \in Controls : (Form!View(c))' = Form!View(c)
  BY <1>1 DEF Form!View
<1>7. ASSUME NEW c \in Controls, c \in Below[Root[shown]] PROVE screen'[c] = Form!View(c)
  <2>1. CASE Form!Printed[c]
    BY <1>2, <1>7, <2>1
  <2>2. CASE ~Form!Printed[c]
    <3>1. screen[c] = Form!View(c)
      BY <1>5, <1>7, <2>2 DEF FormIInv, StaleIsMarked
    <3> QED
      BY <1>2, <2>2, <3>1
  <2> QED
    BY <2>1, <2>2
<1>8. StaleIsMarked'
  BY <1>1, <1>6, <1>7 DEF StaleIsMarked
<1> QED
  BY <1>1, <1>4, <1>8 DEF FormIInv

\* A move that starts around the focus takes it from where it was.
LEMMA GiveKeeps ==
    ASSUME FormIInv, pc = "key", pc' = "paint", UNCHANGED <<shown, held, sel, len, screen>>,
           NEW w, focus = {w}, Leads(cursor, shown, w),
           NEW R, NEW P, NEW c \in R, c \in Containers, w \in Below[c], IsPath(P), w \in Below[P[1]],
           Form!Give(R, P)
    PROVE  FormIInv'
<1> DEFINE new == P[Len(P)]
           old == Form!Released(R)
<1>1. shown \in Menus /\ CursorsIn(cursor)
  BY DEF FormIInv, Form!TypeOK, LeadsToFocus
<1>2. cursor' = Form!Along(cursor, P) /\ focus' = (focus \ old) \cup {new}
      /\ inval' = inval \cup Form!Invalid(old \cup ({new} \ (focus \ old)))
  BY DEF Form!Give, Form!Last
<1>3. old = {w}
  <2>1. cursor[c] \in In(c) /\ w \in Below[cursor[c]]
    BY DEF Leads
  <2>2. cursor[c] \in Components /\ cursor[c] # None
    BY <2>1, InIs, Forest
  <2>3. Form!Leaf[cursor[c]] = w
    BY <1>1, <2>1, <2>2, LeafLeads
  <2> QED
    BY <2>2, <2>3 DEF Form!Released
<1> HIDE DEF old
<1>4. focus' = {new} /\ inval' = inval \cup Form!Invalid({w, new})
  <2>1. old \cup ({new} \ (focus \ old)) = {w, new}
    BY <1>3
  <2> QED
    BY <1>2, <1>3, <2>1
<1>5. CursorsIn(cursor') /\ Leads(cursor', shown, new)
  BY <1>1, <1>2, AlongLeads
<1> HIDE DEF new
<1>6. LeadsToFocus'
  BY <1>4, <1>5 DEF LeadsToFocus
<1>7. Form!TypeOK'
  <2>1. focus' \subseteq Focusable /\ cursor' \in [Containers -> Components \cup {None}]
    BY <1>4, <1>5 DEF Leads, CursorsIn
  <2>2. inval' \subseteq Components
    BY <1>4, InvalidIs DEF FormIInv, Form!TypeOK, Components
  <2> QED
    BY <2>1, <2>2 DEF FormIInv, Form!TypeOK, Focusable, Containers, Components
<1>8. Form!OneSelected'
  BY DEF FormIInv, Form!OneSelected
<1>9. StaleIsMarked'
  <2>1. ASSUME NEW x \in Controls, (Form!View(x))' # Form!View(x),
               NEW a \in Components, x \in Below[a]
        PROVE  a \in inval'
    <3>1. x = w \/ x = new
      BY <1>4, <2>1 DEF Form!View
    <3> QED
      BY <1>4, <2>1, <3>1, InvalidIs
  <2> QED
    BY <1>4, <2>1, MarkedStep
<1> QED
  BY <1>6, <1>7, <1>8, <1>9 DEF FormIInv

\* The innermost of some containers around the focus.
LEMMA Innermost ==
    ASSUME NEW H, H \subseteq Components, H # {}, NEW w, \A c \in H : w \in Below[c]
    PROVE  \E c \in H : \A d \in H : Below[c] \subseteq Below[d]
<1> DEFINE T == {Rank[c] : c \in H}
<1>1. T \subseteq Nat /\ T # {}
  BY Ranks
<1>2. PICK i \in T : \A j \in T : i <= j
  <2> HIDE DEF T
  <2> QED
    BY <1>1, LeastNat, Zenon
<1>3. PICK c \in H : Rank[c] = i
  BY <1>2
<1>4. ASSUME NEW d \in H PROVE Below[c] \subseteq Below[d]
  <2>1. Rank[c] <= Rank[d] /\ Rank[c] \in Nat /\ Rank[d] \in Nat
    BY <1>2, <1>3, Ranks
  <2>2. c \in Components /\ d \in Components /\ (c \in Below[d] \/ d \in Below[c])
    BY Nested
  <2>3. c \in Below[d]
    BY <2>1, <2>2, BelowUp, BelowSelf
  <2> QED
    BY <2>2, <2>3, BelowBelow
<1> QED
  BY <1>4

LEMMA ArrowKeeps ==
    ASSUME FormIInv, NEW kind, NEW back \in BOOLEAN, Form!Arrow(kind, back)
    PROVE  FormIInv'
<1> DEFINE H == {c \in Form!Containers : Kind[c] = kind /\ Form!Here \in Form!Below[c]}
           top == CHOOSE c \in H : \A d \in H : Form!Below[c] \subseteq Form!Below[d]
<1>1. pc = "key" /\ pc' = "paint" /\ UNCHANGED <<shown, held, sel, len, screen>>
  BY DEF Form!Arrow
<1>2. IF H = {} THEN UNCHANGED Form!tree ELSE Form!Move(top, back)
  BY DEF Form!Arrow
<1>3. PICK w : focus = {w} /\ Leads(cursor, shown, w)
  BY DEF FormIInv, LeadsToFocus
<1>4. Form!Here = w /\ CursorsIn(cursor) /\ shown \in Menus
  BY <1>3, HereIs DEF FormIInv, LeadsToFocus, Form!TypeOK
<1>5. CASE H = {}
  <2>1. UNCHANGED <<cursor, focus, inval>>
    BY <1>2, <1>5 DEF Form!tree
  <2>2. Form!TypeOK' /\ Form!OneSelected' /\ LeadsToFocus'
    BY <1>1, <2>1 DEF FormIInv, Form!TypeOK, Form!OneSelected, LeadsToFocus
  <2>3. StaleIsMarked'
    <3>1. \A c \in Controls : (Form!View(c))' = Form!View(c)
      BY <1>1, <2>1 DEF Form!View
    <3> QED
      BY <1>1, <2>1, <3>1, MarkedStep
  <2> QED
    BY <1>1, <2>2, <2>3 DEF FormIInv
<1>6. CASE H # {}
  <2>1. H \subseteq Containers /\ \A c \in H : w \in Below[c]
    BY <1>4 DEF Containers, Below
  <2>2. \E c \in H : \A d \in H : Form!Below[c] \subseteq Form!Below[d]
    <3>1. H \subseteq Components
      BY <2>1, Forest
    <3> HIDE DEF H
    <3> QED
      BY <1>6, <2>1, <3>1, Innermost DEF Below
  <2>3. top \in H
    <3> HIDE DEF H
    <3> QED
      BY <2>2, Zenon
  <2>4. Form!Move(top, back)
    BY <1>2, <1>6
  <2> HIDE DEF top, H
  <2>5. PICK R, G : top \in R /\ IsPath(G[top]) /\ w \in Below[G[top][1]] /\ Form!Give(R, G[top])
    BY <1>3, <1>4, <2>1, <2>3, <2>4, MoveIs
  <2>6. top \in Containers /\ w \in Below[top]
    BY <2>1, <2>3
  <2> QED
    BY <1>1, <1>3, <2>5, <2>6, GiveKeeps
<1> QED
  BY <1>5, <1>6

\* Another menu starts with one focus, everything marked, and its group selected if it was let go of.
LEMMA ChangeKeeps ==
    ASSUME FormIInv, pc' = "paint", NEW m \in Menus, m # shown, Form!Change(m)
    PROVE  FormIInv'
<1>1. shown' = m /\ held' = (held \ Cleared) \cup {m} /\ inval' = Components
      /\ len' = Form!Start /\ screen' = Form!Blank
  BY DEF Form!Change, Form!Kept, Components
<1>2. sel' = [x \in Menus |-> IF x = m THEN Form!Fresh(m) ELSE IF x \in Form!Kept THEN sel[x] ELSE {}]
  BY DEF Form!Change
<1>3. CursorsIn(cursor') /\ focus' = {Form!Last(Form!Taker(FALSE)[Root[m]])}
      /\ Leads(cursor', m, Form!Last(Form!Taker(FALSE)[Root[m]]))
  BY NewFocus DEF Form!Change
<1>4. LeadsToFocus'
  BY <1>1, <1>3 DEF LeadsToFocus
<1>5. Form!TypeOK'
  <2>1. focus' \subseteq Focusable /\ cursor' \in [Containers -> Components \cup {None}]
    BY <1>3 DEF Leads, CursorsIn
  <2>2. \A x \in Menus : sel'[x] \subseteq Form!Radios(x)
    BY <1>2, FreshIs DEF FormIInv, Form!TypeOK
  <2>3. shown' \in Menus /\ held' \subseteq Menus
    BY <1>1 DEF FormIInv, Form!TypeOK
  <2>4. DOMAIN screen' = Controls
    BY <1>1 DEF Form!Blank, Controls
  <2> QED
    BY <1>1, <2>1, <2>2, <2>3, <2>4, NewTexts DEF Form!TypeOK, Focusable, Containers, Components, Controls
<1>6. Form!OneSelected'
  <2>1. \A x \in Menus : Form!Cardinality(sel'[x]) <= 1
    <3>1. Form!Cardinality({}) <= 1
      BY FS_EmptySet DEF Cardinality, Form!Cardinality
    <3>2. Form!Cardinality(Form!Fresh(m)) <= 1
      BY FreshIs DEF Cardinality, Form!Cardinality
    <3> QED
      BY <1>2, <3>1, <3>2 DEF FormIInv, Form!OneSelected
  <2>2. ASSUME m \in Cleared, Form!Radios(m) # {} PROVE sel'[m] # {}
    <3>1. m \notin Form!Alive
      BY <2>2 DEF FormIInv, Form!Alive
    <3> QED
      BY <1>2, <2>2, <3>1, FreshIs
  <2> QED
    BY <1>1, <2>1, <2>2 DEF Form!OneSelected
<1>7. (held \cap Cleared \subseteq {shown})'
  BY <1>1
<1>8. StaleIsMarked'
  BY <1>1 DEF StaleIsMarked
<1> QED
  BY <1>2, <1>4, <1>5, <1>6, <1>7, <1>8 DEF FormIInv

\* A step that changes none of what the terminal shows, and shows no other menu.
LEMMA SameKeeps ==
    ASSUME FormIInv, UNCHANGED <<shown, held, sel, cursor, focus, inval, len, screen>>,
           pc' = pc \/ (pc = "key" /\ pc' \in {"paint", "quit"})
    PROVE  FormIInv'
<1>1. Form!TypeOK' /\ Form!OneSelected' /\ LeadsToFocus'
  BY DEF FormIInv, Form!TypeOK, Form!OneSelected, LeadsToFocus
<1>2. \A c \in Controls : (Form!View(c))' = Form!View(c)
  BY DEF Form!View
<1>3. StaleIsMarked'
  BY <1>2 DEF FormIInv, StaleIsMarked
<1> QED
  BY <1>1, <1>3 DEF FormIInv

LEMMA EnterKeeps == ASSUME FormIInv, Form!EnterButton PROVE FormIInv'
<1>1. pc = "key" /\ Kind[Form!Here] = "button"
  BY DEF Form!EnterButton
<1>2. CASE Opens[Form!Here] = Quit
  <2>1. pc' = "quit" /\ UNCHANGED <<shown, held, sel, cursor, focus, inval, len, screen>>
    BY <1>2 DEF Form!EnterButton, Form!tree
  <2> QED
    BY <1>1, <2>1, SameKeeps
<1>3. CASE Opens[Form!Here] # Quit
  <2> DEFINE m == Opens[Form!Here]
  <2>1. pc' = "paint" /\ Form!Change(m)
    BY <1>3 DEF Form!EnterButton
  <2>2. PICK w : focus = {w} /\ Leads(cursor, shown, w)
    BY DEF FormIInv, LeadsToFocus
  <2>3. Form!Here \in Controls /\ Form!Here \in Below[Root[shown]] /\ shown \in Menus
    BY <2>2, HereIs DEF FormIInv, LeadsToFocus, Form!TypeOK
  <2>4. m \in Menus /\ m # shown
    BY <1>1, <1>3, <2>3, MenuFacts
  <2> HIDE DEF m
  <2> QED
    BY <2>1, <2>4, ChangeKeeps
<1> QED
  BY <1>2, <1>3

LEMMA SelectKeeps == ASSUME FormIInv, Form!Select PROVE FormIInv'
<1> DEFINE h == Form!Here
<1>1. pc = "key" /\ pc' = "paint" /\ Kind[h] = "radio" /\ UNCHANGED <<shown, held, cursor, focus, len, screen>>
  BY DEF Form!Select
<1>2. CASE h \in sel[shown]
  <2>1. UNCHANGED <<sel, inval>>
    BY <1>2 DEF Form!Select
  <2> QED
    BY <1>1, <2>1, SameKeeps
<1>3. CASE h \notin sel[shown]
  <2>1. sel' = [sel EXCEPT ![shown] = {h}] /\ inval' = inval \cup Form!Invalid({h} \cup sel[shown])
    BY <1>3 DEF Form!Select, Form!Changed
  <2>2. PICK w : focus = {w} /\ Leads(cursor, shown, w)
    BY DEF FormIInv, LeadsToFocus
  <2>3. h \in Controls /\ h \in Below[Root[shown]] /\ shown \in Menus
    BY <2>2, HereIs DEF FormIInv, LeadsToFocus, Form!TypeOK
  <2>4. h \in Form!Radios(shown)
    BY <1>1, <2>3, RadioIs
  <2> HIDE DEF h
  <2>5. DOMAIN sel' = Menus /\ \A m \in Menus : sel'[m] = IF m = shown THEN {h} ELSE sel[m]
    BY <2>1, <2>3 DEF FormIInv
  <2>6. Form!TypeOK'
    BY <1>1, <2>1, <2>4, <2>5, InvalidIs DEF FormIInv, Form!TypeOK, Components
  <2>7. Form!OneSelected'
    <3>1. Cardinality({h}) = 1
      BY FS_Singleton
    <3>2. Form!Cardinality({h}) <= 1
      BY <3>1 DEF Cardinality, Form!Cardinality
    <3>3. \A m \in Menus : Form!Cardinality(sel'[m]) <= 1
      BY <2>5, <3>2 DEF FormIInv, Form!OneSelected
    <3>4. shown' = shown /\ sel'[shown] # {}
      BY <1>1, <2>3, <2>5
    <3> QED
      BY <3>3, <3>4 DEF Form!OneSelected
  <2>8. LeadsToFocus'
    BY <1>1 DEF FormIInv, LeadsToFocus
  <2>9. StaleIsMarked'
    <3>1. ASSUME NEW x \in Controls, (Form!View(x))' # Form!View(x),
                 NEW a \in Components, x \in Below[a]
          PROVE  a \in inval'
      <4>1. x \in {h} \cup sel[shown]
        BY <1>1, <2>5, <3>1 DEF Form!View
      <4> QED
        BY <2>1, <3>1, <4>1, InvalidIs
    <3> QED
      BY <1>1, <2>1, <3>1, MarkedStep
  <2> QED
    BY <1>1, <2>5, <2>6, <2>7, <2>8, <2>9 DEF FormIInv
<1> QED
  BY <1>2, <1>3

LEMMA TypeKeeps == ASSUME FormIInv, Form!Type PROVE FormIInv'
<1> DEFINE h == Form!Here
<1>1. pc = "key" /\ pc' = "paint" /\ h \in Form!Fields /\ UNCHANGED <<shown, held, sel, cursor, focus, screen>>
  BY DEF Form!Type
<1>2. inval' = inval \cup Form!Invalid({h})
  BY DEF Form!Type
<1>3. \/ len[h] < MaxLength /\ len' = [len EXCEPT ![h] = @ + 1]
      \/ len[h] > 0 /\ len' = [len EXCEPT ![h] = @ - 1]
  BY DEF Form!Type, Form!HasRoom
<1> HIDE DEF h
<1>4. Form!TypeOK'
  <2>1. len' \in [Form!Fields -> 0..MaxLength]
    BY <1>1, <1>3, MenuFacts DEF FormIInv, Form!TypeOK
  <2>2. inval' \subseteq Components
    BY <1>2, InvalidIs DEF FormIInv, Form!TypeOK, Components
  <2> QED
    BY <1>1, <2>1, <2>2 DEF FormIInv, Form!TypeOK, Components
<1>5. Form!OneSelected' /\ LeadsToFocus'
  BY <1>1 DEF FormIInv, Form!OneSelected, LeadsToFocus
<1>6. StaleIsMarked'
  <2>1. ASSUME NEW x \in Controls, (Form!View(x))' # Form!View(x),
               NEW a \in Components, x \in Below[a]
        PROVE  a \in inval'
    <3>1. \A y \in Form!Fields : y # h => len'[y] = len[y]
      BY <1>1, <1>3 DEF FormIInv, Form!TypeOK
    <3>2. x = h
      BY <1>1, <2>1, <3>1 DEF Form!View
    <3> QED
      BY <1>2, <2>1, <3>2, InvalidIs
  <2> QED
    BY <1>1, <1>2, <2>1, MarkedStep
<1> QED
  BY <1>1, <1>4, <1>5, <1>6 DEF FormIInv

LEMMA FormStep == ASSUME FormIInv, [Form!Next]_formVars PROVE FormIInv'
<1>1. CASE UNCHANGED formVars
  BY <1>1, SameKeeps DEF formVars
<1>2. CASE Form!Paint
  BY <1>2, PaintKeeps
<1>3. CASE Form!EnterButton
  BY <1>3, EnterKeeps
<1>4. CASE Form!Select
  BY <1>4, SelectKeeps
<1>5. CASE Form!Type
  BY <1>5, TypeKeeps
<1>6. CASE Form!Ignored
  <2>1. pc = "key" /\ pc' = "paint" /\ UNCHANGED <<shown, held, sel, cursor, focus, inval, len, screen>>
    BY <1>6 DEF Form!Ignored, Form!tree
  <2> QED
    BY <2>1, SameKeeps
<1>7. CASE \E kind \in {"row", "column"}, back \in BOOLEAN : Form!Arrow(kind, back)
  BY <1>7, ArrowKeeps
<1> QED
  BY <1>1, <1>2, <1>3, <1>4, <1>5, <1>6, <1>7 DEF Form!Next

LEMMA FormHolds == Spec => []FormIInv
<1>1. Init => FormIInv
  BY FormStart DEF Init
<1>2. FormIInv /\ [Next]_vars => FormIInv'
  <2> SUFFICES ASSUME FormIInv, [Next]_vars PROVE FormIInv'
    OBVIOUS
  <2>1. [Form!Next]_formVars
    BY DEF Next, vars, formVars
  <2> QED
    BY <2>1, FormStep
<1> QED
  BY <1>1, <1>2, PTL DEF Spec

\* For any tree of controls in menus: in every state the control at the end of the
\* cursors has the focus and no other, after a paint the terminal shows every control
\* as it is, and a group has at most one selected button, one if its menu is let go
\* of on every change (container.cpp:24-106, form.h:94, radio_button.h:117).
THEOREM FormWhole == Spec => []FormInv
<1>1. FormIInv => FormInv
  <2> SUFFICES ASSUME FormIInv PROVE Form!FormInv
    BY DEF FormInv
  <2>1. PICK w : focus = {w} /\ Leads(cursor, shown, w)
    BY DEF FormIInv, LeadsToFocus
  <2>2. Form!OneFocus
    BY <2>1, HereIs DEF FormIInv, LeadsToFocus, Form!OneFocus
  <2>3. Form!Current
    BY DEF FormIInv, StaleIsMarked, Form!Current, Below, Controls
  <2> QED
    BY <2>2, <2>3 DEF FormIInv, Form!FormInv
<1> QED
  BY <1>1, FormHolds, PTL
-----------------------------------------------------------------------------
(* Menus of rows and columns: where the keys lead.                          *)

Stops(m) == Below[Root[m]] \cap Focusable
Row(c) == Form!Place(c)[1]
Column(c) == Form!Place(c)[2]

\* What the model takes for granted of rows and columns.
LEMMA Shape ==
    /\ \A c \in Containers : \A i, j \in DOMAIN Kids[c] : Kids[c][i] = Kids[c][j] => i = j
    /\ \A m \in Menus : \A c \in In(Root[m]) : c \in Containers => Kind[c] = "column" /\ In(c) \subseteq Controls
    /\ \A m \in Menus : Kind[Root[m]] = "row"
<1>1. Form!RowsAndColumns /\ Form!FormAssumption
  BY LibraryAssumption
<1>2. \A m \in Menus : Kind[Root[m]] = "row"
  BY <1>1 DEF Form!FormAssumption
<1>3. \A c \in Containers : \A i, j \in DOMAIN Kids[c] : Kids[c][i] = Kids[c][j] => i = j
  BY <1>1 DEF Form!RowsAndColumns, Form!IsInjective, Containers
<1>4. \A m \in Menus : \A c \in In(Root[m]) : c \in Containers => Kind[c] = "column" /\ In(c) \subseteq Controls
  BY <1>1 DEF Form!RowsAndColumns, Containers, Controls, In
<1> QED
  BY <1>2, <1>3, <1>4

\* The place of a component in its container.
LEMMA IndexIs ==
    ASSUME NEW c \in Containers, NEW i \in DOMAIN Kids[c]
    PROVE  /\ Kids[c][i] \in In(c) /\ Kids[c][i] \in Components
           /\ Form!Parent(Kids[c][i]) = c /\ Form!Index(Kids[c][i]) = i
<1> DEFINE k == Kids[c][i]
<1>1. k \in In(c) /\ k \in Components
  BY InIs
<1>2. Form!Parent(k) = c
  BY <1>1, ParentIs
<1>3. Form!Index(k) = CHOOSE j \in DOMAIN Kids[c] : Kids[c][j] = k
  BY <1>2 DEF Form!Index
<1>4. (CHOOSE j \in DOMAIN Kids[c] : Kids[c][j] = k) = i
  BY Shape
<1> QED
  BY <1>1, <1>2, <1>3, <1>4

\* Where the controls of a row stand.
LEMMA RowIs ==
    ASSUME NEW m \in Menus, NEW i \in DOMAIN Kids[Root[m]], NEW c \in Below[Kids[Root[m]][i]] \cap Focusable
    PROVE  /\ c \in Stops(m) /\ Row(c) = i /\ i \in Nat /\ Column(c) \in Nat
           /\ Kids[Root[m]][i] \in Controls => c = Kids[Root[m]][i]
           /\ Kids[Root[m]][i] \in Containers =>
                 /\ Form!Parent(c) = Kids[Root[m]][i] /\ Form!InColumn(c)
                 /\ Column(c) \in DOMAIN Kids[Kids[Root[m]][i]] /\ Kids[Kids[Root[m]][i]][Column(c)] = c
<1> DEFINE r == Root[m]
           q == Kids[r][i]
<1>1. r \in Containers /\ q \in In(r) /\ q \in Components /\ Form!Parent(q) = r /\ Form!Index(q) = i /\ i \in Nat
  BY Forest, IndexIs, InIs
<1>2. c \in Stops(m)
  BY <1>1, BelowIn DEF Stops
<1> HIDE DEF q, r
<1>3. CASE q \in Controls
  <2>1. c = q
    BY <1>3, BelowIs DEF q, r
  <2>2. ~Form!InColumn(c)
    BY <1>1, <2>1, Shape DEF Form!InColumn, r
  <2>3. Form!Place(c) = <<i, 1>>
    BY <1>1, <2>1, <2>2 DEF Form!Place
  <2> QED
    BY <1>1, <1>2, <1>3, <2>1, <2>3, Forest DEF Row, Column, q, r
<1>4. CASE q \in Containers
  <2>1. Kind[q] = "column" /\ In(q) \subseteq Controls
    BY <1>1, <1>4, Shape DEF r
  <2>2. c # q /\ c \in Below[q] /\ c \in Focusable
    BY <1>4, Forest DEF q, r
  <2>3. c \in In(q)
    <3>1. PICK k \in In(q) : c \in Below[k]
      BY <1>1, <2>2, BelowInner
    <3> QED
      BY <2>1, <3>1, BelowIs
  <2>4. PICK j \in DOMAIN Kids[q] : Kids[q][j] = c
    BY <1>4, <2>3, InIs
  <2>5. Form!Parent(c) = q /\ Form!Index(c) = j /\ j \in Nat
    BY <1>4, <2>4, IndexIs, InIs
  <2>6. Form!InColumn(c)
    BY <2>1, <2>5 DEF Form!InColumn
  <2>7. Form!Place(c) = <<i, j>>
    BY <1>1, <2>5, <2>6 DEF Form!Place
  <2>8. Row(c) = i /\ Column(c) = j
    BY <2>7 DEF Row, Column
  <2> QED
    BY <1>1, <1>2, <1>4, <2>4, <2>5, <2>6, <2>8, Forest DEF q, r
<1> QED
  BY <1>1, <1>3, <1>4, Forest DEF q, r

\* Every control of a menu that takes the focus stands in one of its rows.
LEMMA StopIs ==
    ASSUME NEW m \in Menus, NEW c \in Stops(m)
    PROVE  /\ Row(c) \in DOMAIN Kids[Root[m]] /\ c \in Below[Kids[Root[m]][Row(c)]] \cap Focusable
           /\ Row(c) \in Nat /\ Column(c) \in Nat
<1> DEFINE r == Root[m]
<1>1. r \in Containers /\ r \in Components /\ c \in Below[r] /\ c \in Focusable /\ c # r
  BY Forest DEF Stops
<1>2. PICK k \in In(r) : c \in Below[k]
  BY <1>1, BelowInner
<1>3. PICK i \in DOMAIN Kids[r] : k = Kids[r][i]
  BY <1>1, <1>2, InIs
<1>4. c \in Below[Kids[r][i]] \cap Focusable
  BY <1>1, <1>2, <1>3
<1>5. Row(c) = i /\ i \in Nat /\ Column(c) \in Nat
  BY <1>3, <1>4, RowIs
<1> QED
  BY <1>3, <1>4, <1>5

Before(a, b) == Row(a) < Row(b) \/ (Row(a) = Row(b) /\ Column(a) < Column(b))

\* The first and the last of some controls in reading order.
LEMMA FirstIs ==
    ASSUME NEW m \in Menus, NEW S, S \subseteq Stops(m), NEW e \in S
    PROVE  /\ (\A b \in S : b = e \/ Before(e, b)) => Form!Service!First(S) = e
           /\ (\A b \in S : b = e \/ Before(b, e)) => Form!Service!Last(S) = e
<1>1. \A a \in S : Row(a) \in Nat /\ Column(a) \in Nat
  BY StopIs
<1>2. \A a, b \in S : ~(Before(a, b) /\ Before(b, a))
  BY <1>1 DEF Before
<1>3. Form!Service!First(S) = CHOOSE a \in S : \A b \in S : a = b \/ Before(a, b)
  BY DEF Form!Service!First, Form!Service!Before, Form!Service!Row, Form!Service!Column, Before, Row, Column
<1>4. Form!Service!Last(S) = CHOOSE a \in S : \A b \in S : a = b \/ Before(b, a)
  BY DEF Form!Service!Last, Form!Service!Before, Form!Service!Row, Form!Service!Column, Before, Row, Column
<1> HIDE DEF Before
<1>5. ASSUME \A b \in S : b = e \/ Before(e, b)
      PROVE  (CHOOSE a \in S : \A b \in S : a = b \/ Before(a, b)) = e
  BY <1>2, <1>5
<1>6. ASSUME \A b \in S : b = e \/ Before(b, e)
      PROVE  (CHOOSE a \in S : \A b \in S : a = b \/ Before(b, a)) = e
  BY <1>2, <1>6
<1> QED
  BY <1>3, <1>4, <1>5, <1>6

End(P) == P[Len(P)]

\* The first of some controls, the last on the way back.
Nearer(a, b, back) == IF back THEN Before(b, a) ELSE Before(a, b)
Foremost(S, back) == IF back THEN Form!Service!Last(S) ELSE Form!Service!First(S)

\* What is before all others, or after them on the way back, is the foremost.
LEMMA ForemostIs ==
    ASSUME NEW m \in Menus, NEW S, S \subseteq Stops(m), NEW e \in S, NEW back \in BOOLEAN,
           \A b \in S : b = e \/ Nearer(e, b, back)
    PROVE  Foremost(S, back) = e
<1>1. back => \A b \in S : b = e \/ Before(b, e)
  BY DEF Nearer
<1>2. ~back => \A b \in S : b = e \/ Before(e, b)
  BY DEF Nearer
<1>3. (\A b \in S : b = e \/ Before(e, b)) => Form!Service!First(S) = e
  BY FirstIs
<1>4. (\A b \in S : b = e \/ Before(b, e)) => Form!Service!Last(S) = e
  BY FirstIs
<1> QED
  BY <1>1, <1>2, <1>3, <1>4 DEF Foremost

\* A path that gets longer at its start keeps its end.
LEMMA EndOfLonger ==
    ASSUME NEW c \in Components, NEW P \in Seq(Components), P # <<>>
    PROVE  End(<<c>> \o P) = End(P)
<1>1. Len(P) \in 1..Len(P) /\ Len(<<c>> \o P) = Len(P) + 1 /\ Len(P) \in Nat
  OBVIOUS
<1>2. (<<c>> \o P)[Len(P) + 1] = P[Len(P)]
  BY <1>1
<1> QED
  BY <1>1, <1>2 DEF End

\* In a row, the first control takes the focus, the last on the way back.
LEMMA RowEnd ==
    ASSUME NEW m \in Menus, NEW back \in BOOLEAN, NEW i \in DOMAIN Kids[Root[m]],
           Form!Taker(back)[Kids[Root[m]][i]] # <<>>
    PROVE  /\ End(Form!Taker(back)[Kids[Root[m]][i]]) \in Below[Kids[Root[m]][i]] \cap Focusable
           /\ \A b \in Below[Kids[Root[m]][i]] \cap Focusable :
                 b = End(Form!Taker(back)[Kids[Root[m]][i]]) \/ Nearer(End(Form!Taker(back)[Kids[Root[m]][i]]), b, back)
<1> DEFINE x == Kids[Root[m]][i]
           T == Form!Taker(back)
           e == End(T[x])
<1>1. x \in In(Root[m]) /\ x \in Components
  BY Forest, IndexIs
<1>2. CASE x \in Controls
  <2>1. T[x] = <<x>> /\ x \in Focusable
    BY <1>2, TakerIs
  <2>2. e = x /\ Below[x] = {x}
    BY <1>2, <2>1, BelowIs DEF End
  <2> QED
    BY <2>1, <2>2
<1>3. CASE x \in Containers
  <2> DEFINE K == Takers(T, x)
             j == IF back THEN Form!Max(K) ELSE Form!Min(K)
             c == Kids[x][j]
  <2>1. In(x) \subseteq Controls
    BY <1>1, <1>3, Shape
  <2>2. T[x] = IF K = {} THEN <<>> ELSE <<x>> \o T[c]
    BY <1>3, TakerIs DEF Chosen
  <2>3. K # {} /\ T[x] = <<x>> \o T[c]
    BY <2>2
  <2>4. K \subseteq 1..Len(Kids[x]) /\ Len(Kids[x]) \in Nat
    BY <1>3, InIs DEF Takers
  <2>5. j \in K /\ (back => \A h \in K : h <= j) /\ (~back => \A h \in K : j <= h)
    <3>1. Form!Max(K) \in K /\ \A h \in K : Form!Max(K) >= h
      <4> HIDE DEF K
      <4> QED
        BY <2>3, <2>4, GreatestOf
    <3>2. Form!Min(K) \in K /\ \A h \in K : Form!Min(K) <= h
      <4> HIDE DEF K
      <4> QED
        BY <2>3, <2>4, LeastOf
    <3> HIDE DEF K
    <3>3. CASE back
      BY <2>4, <3>1, <3>3
    <3>4. CASE ~back
      BY <2>4, <3>2, <3>4
    <3> QED
      BY <3>3, <3>4
  <2> HIDE DEF j
  <2>6. c \in In(x) /\ c \in Controls /\ T[c] # <<>> /\ c \in Components
    BY <1>3, <2>1, <2>4, <2>5, InIs DEF Takers
  <2>7. c \in Focusable /\ T[c] = <<c>>
    BY <2>6, TakerIs
  <2>8. e = c
    <3>1. End(<<c>>) = c /\ <<c>> \in Seq(Components) /\ <<c>> # <<>>
      BY <2>6 DEF End
    <3> HIDE DEF c
    <3>2. End(<<x>> \o <<c>>) = c
      BY <1>1, <3>1, EndOfLonger
    <3> QED
      BY <2>3, <2>7, <3>2
  <2>9. c \in Below[x]
    BY <1>3, <2>6, BelowIn, BelowSelf
  <2>10. ASSUME NEW b \in Below[x] \cap Focusable, b # c PROVE Nearer(c, b, back)
    <3>1. Row(b) = i /\ Row(c) = i /\ Column(b) \in Nat /\ Column(c) \in Nat /\ b \in Controls
          /\ Column(b) \in DOMAIN Kids[x] /\ Kids[x][Column(b)] = b
          /\ Column(c) \in DOMAIN Kids[x] /\ Kids[x][Column(c)] = c
      <4>1. \A y \in Below[x] \cap Focusable :
               Row(y) = i /\ Column(y) \in Nat /\ Column(y) \in DOMAIN Kids[x] /\ Kids[x][Column(y)] = y
        <5>1. ASSUME NEW y \in Below[Kids[Root[m]][i]] \cap Focusable
              PROVE  /\ Row(y) = i /\ Column(y) \in Nat
                     /\ Kids[Root[m]][i] \in Containers =>
                          /\ Column(y) \in DOMAIN Kids[Kids[Root[m]][i]]
                          /\ Kids[Kids[Root[m]][i]][Column(y)] = y
          BY <5>1, RowIs
        <5> QED
          BY <1>3, <5>1
      <4>2. b \in Below[x] \cap Focusable /\ c \in Below[x] \cap Focusable
        BY <2>7, <2>9, <2>10
      <4>3. b \in Controls
        BY <2>10, Forest
      <4> HIDE DEF x, c
      <4> QED
        BY <4>1, <4>2, <4>3
    <3>2. T[b] # <<>>
      <4>1. T[b] = <<b>> /\ <<b>> # <<>>
        BY <2>10, <3>1, TakerIs
      <4> QED
        BY <4>1
    <3>3. Column(b) \in K
      BY <3>1, <3>2 DEF Takers
    <3>4. Column(c) = j
      BY <1>3, <2>4, <2>5, <3>1, Shape, InIs
    <3>5. Column(b) # Column(c)
      BY <2>10, <3>1
    <3> HIDE DEF K, c
    <3>6. back => Column(b) < Column(c)
      BY <2>5, <3>1, <3>3, <3>4, <3>5
    <3>7. ~back => Column(c) < Column(b)
      BY <2>5, <3>1, <3>3, <3>4, <3>5
    <3> QED
      BY <3>1, <3>6, <3>7 DEF Nearer, Before
  <2> QED
    BY <2>7, <2>8, <2>9, <2>10
<1> QED
  BY <1>1, <1>2, <1>3, Forest

\* Of some rows that have a control for it, the focus goes to the first control of the
\* first one, to the last of the last one on the way back.
LEMMA RowsEnd ==
    ASSUME NEW m \in Menus, NEW back \in BOOLEAN, NEW K, K \subseteq DOMAIN Kids[Root[m]], K # {},
           \A k \in K : Form!Taker(back)[Kids[Root[m]][k]] # <<>>
    PROVE  End(Form!Taker(back)[Nearest(K, Root[m], back)]) = Foremost({c \in Stops(m) : Row(c) \in K}, back)
<1> DEFINE r == Root[m]
           T == Form!Taker(back)
           i == IF back THEN Form!Max(K) ELSE Form!Min(K)
           e == End(T[Kids[r][i]])
           S == {c \in Stops(m) : Row(c) \in K}
<1>1. r \in Containers /\ K \subseteq 1..Len(Kids[r]) /\ Len(Kids[r]) \in Nat /\ K \subseteq Nat
  BY Forest, InIs
<1>2. i \in K /\ (back => \A h \in K : h <= i) /\ (~back => \A h \in K : i <= h)
  <2>1. Form!Max(K) \in K /\ \A h \in K : Form!Max(K) >= h
    BY <1>1, GreatestOf
  <2>2. Form!Min(K) \in K /\ \A h \in K : Form!Min(K) <= h
    BY <1>1, LeastOf
  <2>3. CASE back
    BY <1>1, <2>1, <2>3
  <2>4. CASE ~back
    BY <1>1, <2>2, <2>4
  <2> QED
    BY <2>3, <2>4
<1> HIDE DEF i
<1>3. e \in Below[Kids[r][i]] \cap Focusable
      /\ \A b \in Below[Kids[r][i]] \cap Focusable : b = e \/ Nearer(e, b, back)
  BY <1>2, RowEnd
<1> HIDE DEF e
<1>4. e \in S /\ Row(e) = i
  BY <1>2, <1>3, RowIs
<1>5. ASSUME NEW b \in S, b # e PROVE Nearer(e, b, back)
  <2>1. Row(b) \in K /\ b \in Below[Kids[r][Row(b)]] \cap Focusable /\ Row(b) \in Nat /\ i \in Nat
    BY <1>1, <1>2, StopIs
  <2>2. CASE Row(b) = i
    BY <1>3, <1>5, <2>1, <2>2
  <2>3. CASE Row(b) # i
    <3>1. back => Row(b) < i
      BY <1>2, <2>1, <2>3
    <3>2. ~back => i < Row(b)
      BY <1>2, <2>1, <2>3
    <3> QED
      BY <1>4, <3>1, <3>2 DEF Nearer, Before
  <2> QED
    BY <2>2, <2>3
<1>6. S \subseteq Stops(m)
  OBVIOUS
<1> HIDE DEF S
<1>7. Foremost(S, back) = e
  BY <1>4, <1>5, <1>6, ForemostIs
<1> QED
  BY <1>7 DEF e, i, S, Nearest

\* A new menu has the focus at its first control.
LEMMA RootEnd ==
    ASSUME NEW m \in Menus, NEW back \in BOOLEAN
    PROVE  End(Form!Taker(back)[Root[m]]) = Foremost(Stops(m), back)
<1> DEFINE r == Root[m]
           T == Form!Taker(back)
           K == Takers(T, r)
           c == Nearest(K, r, back)
<1>1. r \in Containers /\ r \in Components /\ Below[r] \cap Focusable # {}
  BY Forest, MenuFacts
<1>2. T[r] # <<>>
  BY <1>1, TakerFinds
<1>3. T[r] = IF K = {} THEN <<>> ELSE <<r>> \o T[c]
  BY <1>1, TakerIs DEF Chosen, Nearest
<1>4. K # {} /\ T[r] = <<r>> \o T[c]
  BY <1>2, <1>3
<1>5. K \subseteq DOMAIN Kids[r] /\ \A k \in K : T[Kids[r][k]] # <<>>
  BY DEF Takers
<1>6. c \in In(r) /\ T[c] # <<>>
  BY <1>1, <1>4, ChosenIn DEF Chosen, Nearest
<1>7. c \in Components /\ T[c] \in Seq(Components)
  <2>1. c \in Components
    BY <1>1, <1>6, InIs
  <2> QED
    BY <2>1, TakerIs
<1> HIDE DEF c
<1>8. End(T[r]) = End(T[c])
  BY <1>1, <1>4, <1>6, <1>7, EndOfLonger
<1>9. \A b \in Stops(m) : Row(b) \in K
  <2>1. ASSUME NEW b \in Stops(m) PROVE Row(b) \in K
    <3>1. Row(b) \in DOMAIN Kids[r] /\ b \in Below[Kids[r][Row(b)]] \cap Focusable
      BY <2>1, StopIs
    <3>2. Kids[r][Row(b)] \in Components
      BY <1>1, <3>1, IndexIs
    <3>3. T[Kids[r][Row(b)]] # <<>>
      BY <3>1, <3>2, TakerFinds
    <3> QED
      BY <3>1, <3>3 DEF Takers
  <2> QED
    BY <2>1
<1>10. {b \in Stops(m) : Row(b) \in K} = Stops(m)
  BY <1>9
<1>11. End(T[c]) = Foremost({b \in Stops(m) : Row(b) \in K}, back)
  <2> HIDE DEF K
  <2> QED
    BY <1>4, <1>5, RowsEnd DEF c
<1> QED
  BY <1>8, <1>10, <1>11

\* The rows after the focus, or before it.
Ahead(c, d, back) == IF back THEN Row(d) < Row(c) ELSE Row(d) > Row(c)
Vertical(m, w, back) ==
    LET S == {c \in Stops(m) : Ahead(w, c, back)} IN Foremost(IF S = {} THEN Stops(m) ELSE S, back)

\* A move from the root of a menu goes to another row.
LEMMA RootMove ==
    ASSUME NEW m \in Menus, NEW w, CursorsIn(cursor), Leads(cursor, m, w),
           NEW back \in BOOLEAN, NEW G, MovesAlong(G, w, back)
    PROVE  End(G[Root[m]]) = Vertical(m, w, back)
<1> DEFINE r == Root[m]
           T == Form!Taker(back)
           K == Later(r, back)
           S == {c \in Stops(m) : Ahead(w, c, back)}
<1>1. r \in Containers /\ r \in Components /\ Form!Parent(r) = None /\ w \in Below[r] /\ w \in Stops(m)
  BY Forest DEF Leads, Stops
<1>2. cursor[r] \in In(r) /\ w \in Below[cursor[r]] /\ w \in Focusable
  BY <1>1 DEF Leads
<1>3. AtCursor(r) \in DOMAIN Kids[r] /\ Kids[r][AtCursor(r)] = cursor[r]
  <2>1. PICK k \in DOMAIN Kids[r] : Kids[r][k] = cursor[r]
    BY <1>1, <1>2, InIs
  <2> QED
    BY <2>1 DEF AtCursor
<1>4. Row(w) = AtCursor(r)
  BY <1>2, <1>3, RowIs
<1>5. K \subseteq DOMAIN Kids[r] /\ \A k \in K : T[Kids[r][k]] # <<>>
  BY DEF Later
<1>6. \A c \in Stops(m) : Row(c) \in K <=> Ahead(w, c, back)
  <2>1. ASSUME NEW c \in Stops(m) PROVE Row(c) \in K <=> Ahead(w, c, back)
    <3>1. Row(c) \in DOMAIN Kids[r] /\ c \in Below[Kids[r][Row(c)]] \cap Focusable
      BY <2>1, StopIs
    <3>2. Kids[r][Row(c)] \in Components
      BY <1>1, <3>1, IndexIs
    <3>3. T[Kids[r][Row(c)]] # <<>>
      BY <3>1, <3>2, TakerFinds
    <3> QED
      BY <1>4, <3>1, <3>3 DEF Later, Ahead
  <2> QED
    BY <2>1
<1>7. {c \in Stops(m) : Row(c) \in K} = S
  BY <1>6
<1>8. G[r] = IF K # {} THEN <<r>> \o T[Nearest(K, r, back)] ELSE T[r]
  BY <1>1 DEF MovesAlong
<1>9. CASE K = {}
  <2>1. S = {}
    BY <1>7, <1>9
  <2>2. End(G[r]) = Foremost(Stops(m), back)
    BY <1>8, <1>9, RootEnd
  <2> QED
    BY <2>1, <2>2 DEF Vertical
<1>10. CASE K # {}
  <2> DEFINE c == Nearest(K, r, back)
             i == IF back THEN Form!Max(K) ELSE Form!Min(K)
  <2>1. i \in K /\ c \in In(r)
    <3> HIDE DEF K
    <3> QED
      BY <1>1, <1>5, <1>10, NearestIn
  <2>2. T[c] # <<>> /\ c \in Components /\ T[c] \in Seq(Components)
    <3>1. c = Kids[r][i]
      BY DEF Nearest
    <3> HIDE DEF i, K
    <3>2. T[c] # <<>>
      BY <1>5, <2>1, <3>1
    <3>3. c \in Components
      BY <1>1, <2>1, InIs
    <3> QED
      BY <3>2, <3>3, TakerIs
  <2>3. End(T[c]) = Foremost(S, back)
    <3> HIDE DEF K, S
    <3> QED
      BY <1>5, <1>7, <1>10, RowsEnd
  <2>4. S # {}
    <3>1. End(T[c]) \in Below[c] \cap Focusable /\ i \in DOMAIN Kids[r] /\ c = Kids[r][i]
      <4>1. i \in DOMAIN Kids[r] /\ c = Kids[r][i]
        BY <1>5, <2>1 DEF Nearest
      <4> HIDE DEF i, c
      <4> QED
        BY <2>2, <4>1, RowEnd
    <3> HIDE DEF i, c
    <3>2. End(T[c]) \in Stops(m) /\ Row(End(T[c])) = i
      BY <3>1, RowIs
    <3> QED
      BY <1>7, <2>1, <3>2
  <2>5. End(G[r]) = End(T[c])
    <3> HIDE DEF c
    <3> QED
      BY <1>1, <1>8, <1>10, <2>2, EndOfLonger DEF c
  <2> QED
    BY <2>3, <2>4, <2>5 DEF Vertical
<1> QED
  BY <1>9, <1>10

Beside(c, d, back) == Row(d) = Row(c) /\ IF back THEN Column(d) < Column(c) ELSE Column(d) > Column(c)
Horizontal(m, w, back) ==
    LET S == {c \in Stops(m) : Beside(w, c, back)} IN IF S = {} THEN Vertical(m, w, back) ELSE Foremost(S, back)

\* A move in a column goes along the row, and on to the next one.
LEMMA ColumnMove ==
    ASSUME NEW m \in Menus, NEW w, CursorsIn(cursor), Leads(cursor, m, w),
           NEW back \in BOOLEAN, NEW G, MovesAlong(G, w, back),
           NEW q \in Containers, q \in In(Root[m]), w \in Below[q]
    PROVE  End(G[q]) = Horizontal(m, w, back) /\ Form!InColumn(w)
<1> DEFINE r == Root[m]
           T == Form!Taker(back)
           K == Later(q, back)
           S == {c \in Stops(m) : Beside(w, c, back)}
<1>1. r \in Containers /\ q \in Components /\ Form!Parent(q) = r /\ r # None /\ In(q) \subseteq Controls
      /\ w \in Focusable /\ w \in Components
  BY Forest, InIs, ParentIs, Shape DEF Leads
<1>2. PICK i \in DOMAIN Kids[r] : Kids[r][i] = q
  BY <1>1, InIs
<1>3. ASSUME NEW c \in Below[q] \cap Focusable
      PROVE  /\ c \in Stops(m) /\ Row(c) = i /\ Form!InColumn(c) /\ c \in Controls
             /\ Column(c) \in DOMAIN Kids[q] /\ Kids[q][Column(c)] = c /\ Column(c) \in Nat
             /\ T[c] = <<c>>
  <2>1. c \in Controls /\ c \in Focusable
    BY <1>3, Forest
  <2>2. T[c] = <<c>>
    BY <2>1, TakerIs
  <2> QED
    BY <1>2, <1>3, <2>1, <2>2, RowIs
<1>4. w \in Stops(m) /\ Row(w) = i /\ Form!InColumn(w) /\ Column(w) \in DOMAIN Kids[q]
      /\ Kids[q][Column(w)] = w /\ Column(w) \in Nat
  BY <1>1, <1>3
<1>5. cursor[q] = w
  <2>1. cursor[q] \in In(q) /\ w \in Below[cursor[q]]
    BY DEF Leads
  <2> QED
    BY <1>1, <2>1, BelowIs
<1>6. AtCursor(q) = Column(w)
  BY <1>4, <1>5, Shape DEF AtCursor
<1>7. ASSUME NEW c \in Stops(m) PROVE c \in S <=> c \in Below[q] /\ Column(c) \in K
  <2>1. Row(c) \in DOMAIN Kids[r] /\ c \in Below[Kids[r][Row(c)]] \cap Focusable
    BY <1>7, StopIs
  <2>2. Row(c) = i <=> c \in Below[q]
    BY <1>2, <1>3, <2>1
  <2>3. CASE c \in Below[q]
    <3>1. c \in Below[q] \cap Focusable
      BY <2>1, <2>3
    <3>2. Column(c) \in DOMAIN Kids[q] /\ Kids[q][Column(c)] = c /\ T[c] = <<c>> /\ <<c>> # <<>>
      BY <1>3, <3>1
    <3>3. T[Kids[q][Column(c)]] # <<>>
      BY <3>2
    <3>4. Column(c) \in K <=> IF back THEN Column(c) < Column(w) ELSE Column(c) > Column(w)
      BY <1>6, <3>2, <3>3 DEF Later
    <3> QED
      BY <1>4, <1>7, <2>2, <2>3, <3>4 DEF Beside
  <2>4. CASE c \notin Below[q]
    BY <1>4, <2>2, <2>4 DEF Beside
  <2> QED
    BY <2>3, <2>4
<1>8. K \subseteq DOMAIN Kids[q] /\ \A k \in K : T[Kids[q][k]] # <<>>
  BY DEF Later
<1>9. G[q] = IF K # {} THEN <<q>> \o T[Nearest(K, q, back)] ELSE G[r]
  BY <1>1 DEF MovesAlong
<1>10. CASE K = {}
  <2>1. S = {}
    BY <1>7, <1>10
  <2>2. End(G[q]) = Vertical(m, w, back)
    BY <1>9, <1>10, RootMove
  <2> QED
    BY <1>4, <2>1, <2>2 DEF Horizontal
<1>11. CASE K # {}
  <2> DEFINE j == IF back THEN Form!Max(K) ELSE Form!Min(K)
             c == Kids[q][j]
  <2>1. K \subseteq 1..Len(Kids[q]) /\ Len(Kids[q]) \in Nat
    BY <1>8, InIs
  <2>2. j \in K /\ (back => \A h \in K : h <= j) /\ (~back => \A h \in K : j <= h)
    <3>1. Form!Max(K) \in K /\ \A h \in K : Form!Max(K) >= h
      <4> HIDE DEF K
      <4> QED
        BY <1>11, <2>1, GreatestOf
    <3>2. Form!Min(K) \in K /\ \A h \in K : Form!Min(K) <= h
      <4> HIDE DEF K
      <4> QED
        BY <1>11, <2>1, LeastOf
    <3> HIDE DEF K
    <3>3. CASE back
      BY <2>1, <3>1, <3>3
    <3>4. CASE ~back
      BY <2>1, <3>2, <3>4
    <3> QED
      BY <3>3, <3>4
  <2> HIDE DEF j
  <2>3. c \in In(q) /\ c \in Controls /\ T[c] # <<>> /\ c \in Components
    BY <1>1, <1>8, <2>2, InIs
  <2>4. c \in Focusable
    BY <2>3, TakerIs
  <2>5. c \in Below[q] \cap Focusable
    BY <2>3, <2>4, BelowIn, BelowSelf
  <2>6. Column(c) = j
    BY <1>3, <1>8, <2>2, <2>5, Shape
  <2>7. c \in S
    BY <1>3, <1>7, <2>2, <2>5, <2>6
  <2>8. End(G[q]) = c
    <3>1. c = Nearest(K, q, back)
      BY DEF Nearest, j
    <3>2. T[c] = <<c>>
      BY <2>3, <2>4, TakerIs
    <3> HIDE DEF c
    <3>3. <<c>> \in Seq(Components) /\ <<c>> # <<>> /\ End(<<c>>) = c
      BY <2>3 DEF End
    <3>4. End(<<q>> \o <<c>>) = c
      BY <1>1, <3>3, EndOfLonger
    <3> QED
      BY <1>9, <1>11, <3>1, <3>2, <3>4
  <2>9. ASSUME NEW b \in S, b # c PROVE Nearer(c, b, back)
    <3>1. b \in Below[q] /\ b \in Focusable /\ Column(b) \in K
      BY <1>7, <2>9 DEF Stops
    <3>2. Row(b) = i /\ Row(c) = i /\ Column(b) # Column(c) /\ Column(b) \in Nat
      BY <1>3, <2>5, <2>9, <3>1
    <3> HIDE DEF c, K
    <3>3. back => Column(b) < Column(c)
      BY <2>1, <2>2, <2>6, <3>1, <3>2
    <3>4. ~back => Column(c) < Column(b)
      BY <2>1, <2>2, <2>6, <3>1, <3>2
    <3> QED
      BY <3>2, <3>3, <3>4 DEF Nearer, Before
  <2>10. Foremost(S, back) = c
    <3>1. S \subseteq Stops(m)
      OBVIOUS
    <3> HIDE DEF S, c
    <3> QED
      BY <2>7, <2>9, <3>1, ForemostIs
  <2> QED
    BY <1>4, <2>7, <2>8, <2>10 DEF Horizontal
<1> QED
  BY <1>10, <1>11

\* The containers around a control of a menu.
LEMMA AroundIs ==
    ASSUME NEW m \in Menus, NEW w \in Stops(m), NEW c \in Containers, w \in Below[c]
    PROVE  c = Root[m] \/ (c \in In(Root[m]) /\ Kind[c] = "column")
<1> DEFINE r == Root[m]
<1>1. r \in Containers /\ r \in Components /\ c \in Components /\ w \in Below[r] /\ Form!Parent(r) = None
  BY Forest DEF Stops
<1>2. SUFFICES ASSUME c # r PROVE c \in In(r) /\ Kind[c] = "column"
  OBVIOUS
<1>3. r \notin Below[c]
  BY <1>1, <1>2, BelowUp, Forest
<1>4. c \in Below[r]
  BY <1>1, <1>3, Nested
<1>5. PICK k \in In(r) : c \in Below[k]
  BY <1>1, <1>2, <1>4, BelowInner
<1>6. c = k
  <2> SUFFICES ASSUME c # k PROVE FALSE
    OBVIOUS
  <2>1. k \in Components
    BY <1>1, <1>5, InIs
  <2>2. k \in Containers
    BY <1>5, <2>1, BelowInner
  <2>3. In(k) \subseteq Controls
    BY <1>5, <2>2, Shape
  <2>4. PICK h \in In(k) : c \in Below[h]
    BY <1>5, <2>1, BelowInner
  <2>5. c = h
    BY <2>3, <2>4, BelowIs
  <2> QED
    BY <2>3, <2>5, Forest
<1> QED
  BY <1>5, <1>6, Shape
-----------------------------------------------------------------------------
(* Every step does what FormService says, or nothing that it knows of.      *)

\* Where the focus is.
LEMMA FocusIsHere == FormIInv => focus = {Form!Here} /\ Form!Here \in Stops(shown) /\ shown \in Menus
<1> SUFFICES ASSUME FormIInv PROVE focus = {Form!Here} /\ Form!Here \in Stops(shown) /\ shown \in Menus
  OBVIOUS
<1>1. PICK w : focus = {w} /\ Leads(cursor, shown, w)
  BY DEF FormIInv, LeadsToFocus
<1>2. Form!Here = w /\ w \in Focusable /\ w \in Below[Root[shown]]
  BY <1>1, HereIs DEF FormIInv, LeadsToFocus
<1> QED
  BY <1>1, <1>2 DEF Stops, FormIInv, Form!TypeOK

LEMMA FocusIsHereNext == (FormIInv => focus = {Form!Here} /\ Form!Here \in Stops(shown) /\ shown \in Menus)'
BY FocusIsHere, PTL

\* What FormService says of the keys.
LEMMA DirectionsAre ==
    ASSUME shown \in Menus
    PROVE  /\ Form!Service!Below = Vertical(shown, Form!Here, FALSE)
           /\ Form!Service!Above = Vertical(shown, Form!Here, TRUE)
           /\ Form!Service!Right = Horizontal(shown, Form!Here, FALSE)
           /\ Form!Service!Left = Horizontal(shown, Form!Here, TRUE)
<1>1. Form!Service!Below = Vertical(shown, Form!Here, FALSE)
  BY DEF Form!Service!Below, Vertical, Ahead, Foremost, Stops, Below, Focusable, Form!Service!Row, Row
<1>2. Form!Service!Above = Vertical(shown, Form!Here, TRUE)
  BY DEF Form!Service!Above, Vertical, Ahead, Foremost, Stops, Below, Focusable, Form!Service!Row, Row
<1>3. Form!Service!Right = Horizontal(shown, Form!Here, FALSE)
  BY <1>1 DEF Form!Service!Right, Horizontal, Beside, Foremost, Stops, Below, Focusable,
     Form!Service!Row, Row, Form!Service!Column, Column
<1>4. Form!Service!Left = Horizontal(shown, Form!Here, TRUE)
  BY <1>2 DEF Form!Service!Left, Horizontal, Beside, Foremost, Stops, Below, Focusable,
     Form!Service!Row, Row, Form!Service!Column, Column
<1> QED
  BY <1>1, <1>2, <1>3, <1>4

\* A step that keeps the focus and what else FormService knows of is none of its steps.
LEMMA FormStutters ==
    ASSUME FormIInv, FormIInv', UNCHANGED <<shown, focus, len>>, pc # "quit", pc' # "quit"
    PROVE  UNCHANGED Form!Service!vars
<1>1. focus = {Form!Here} /\ focus' = {(Form!Here)'}
  BY FocusIsHere, FocusIsHereNext
<1>2. (Form!Here)' = Form!Here
  BY <1>1
<1>3. (pc = "quit")' = (pc = "quit")
  OBVIOUS
<1> QED
  BY <1>2, <1>3 DEF Form!Service!vars

\* A key that moves the cursor of a row goes up or down, of a column left or right.
LEMMA ArrowServes ==
    ASSUME FormIInv, FormIInv', NEW kind \in {"row", "column"}, NEW back \in BOOLEAN, Form!Arrow(kind, back)
    PROVE  Form!Service!Arrow \/ UNCHANGED Form!Service!vars
<1> DEFINE H == {c \in Form!Containers : Kind[c] = kind /\ Form!Here \in Form!Below[c]}
           top == CHOOSE c \in H : \A d \in H : Form!Below[c] \subseteq Form!Below[d]
           w == Form!Here
<1>1. pc = "key" /\ pc' = "paint" /\ UNCHANGED <<shown, len>>
  BY DEF Form!Arrow
<1>2. IF H = {} THEN UNCHANGED Form!tree ELSE Form!Move(top, back)
  BY DEF Form!Arrow
<1>3. focus = {w} /\ w \in Stops(shown) /\ shown \in Menus /\ focus' = {w'}
  BY FocusIsHere, FocusIsHereNext
<1>4. CASE H = {}
  <2>1. focus' = focus
    BY <1>2, <1>4 DEF Form!tree
  <2> QED
    BY <1>1, <2>1, FormStutters
<1>5. CASE H # {}
  <2>1. CursorsIn(cursor) /\ Leads(cursor, shown, w)
    <3>1. PICK v : focus = {v} /\ Leads(cursor, shown, v)
      BY DEF FormIInv, LeadsToFocus
    <3>2. v = w
      BY <1>3, <3>1
    <3> QED
      BY <3>1, <3>2 DEF FormIInv, LeadsToFocus
  <2>2. H \subseteq Containers /\ \A c \in H : w \in Below[c] /\ Kind[c] = kind
    BY DEF Containers, Below
  <2>3. \E c \in H : \A d \in H : Form!Below[c] \subseteq Form!Below[d]
    <3>1. H \subseteq Components
      BY <2>2, Forest
    <3> HIDE DEF H, w
    <3> QED
      BY <1>5, <2>2, <3>1, Innermost DEF Below
  <2>4. top \in H
    <3> HIDE DEF H
    <3> QED
      BY <2>3, Zenon
  <2>5. Form!Move(top, back)
    BY <1>2, <1>5
  <2> HIDE DEF top, H
  <2>6. top \in Containers /\ w \in Below[top] /\ Kind[top] = kind
    BY <2>2, <2>4
  <2>7. PICK R, G : IsPath(G[top]) /\ Form!Give(R, G[top]) /\ MovesAlong(G, w, back)
    <3> HIDE DEF w
    <3> QED
      BY <1>3, <2>1, <2>5, <2>6, MoveIs
  <2>8. w' = End(G[top])
    <3>1. Form!Last(G[top]) \in focus'
      BY <2>7 DEF Form!Give
    <3>2. Form!Last(G[top]) = End(G[top])
      BY DEF Form!Last, End
    <3> QED
      BY <1>3, <3>1, <3>2
  <2>9. /\ Form!Service!Below = Vertical(shown, w, FALSE) /\ Form!Service!Above = Vertical(shown, w, TRUE)
        /\ Form!Service!Right = Horizontal(shown, w, FALSE) /\ Form!Service!Left = Horizontal(shown, w, TRUE)
    BY <1>3, DirectionsAre
  <2>10. UNCHANGED <<shown, len, pc = "quit">>
    BY <1>1
  <2>11. CASE top = Root[shown]
    <3>1. w' = Vertical(shown, w, back)
      <4> HIDE DEF w
      <4>1. End(G[Root[shown]]) = Vertical(shown, w, back)
        BY <1>3, <2>1, <2>7, RootMove
      <4> QED
        BY <2>8, <2>11, <4>1
    <3>2. w' \in {Form!Service!Above, Form!Service!Below}
      <4>1. CASE back = TRUE
        BY <2>9, <3>1, <4>1
      <4>2. CASE back = FALSE
        BY <2>9, <3>1, <4>2
      <4> QED
        BY <4>1, <4>2
    <3> QED
      BY <2>10, <3>2 DEF Form!Service!Arrow
  <2>12. CASE top # Root[shown]
    <3>1. top \in In(Root[shown])
      BY <1>3, <2>6, <2>12, AroundIs
    <3>2. w' = Horizontal(shown, w, back) /\ Form!InColumn(w)
      <4>1. End(G[top]) = Horizontal(shown, w, back) /\ Form!InColumn(w)
        <5> HIDE DEF w
        <5> QED
          BY <1>3, <2>1, <2>6, <2>7, <3>1, ColumnMove
      <4> QED
        BY <2>8, <4>1
    <3>3. w' \in {Form!Service!Left, Form!Service!Right}
      <4>1. CASE back = TRUE
        BY <2>9, <3>2, <4>1
      <4>2. CASE back = FALSE
        BY <2>9, <3>2, <4>2
      <4> QED
        BY <4>1, <4>2
    <3>4. w \in {c \in Form!Focusable : Form!InColumn(c)}
      BY <1>3, <3>2 DEF Stops, Focusable
    <3> QED
      BY <2>10, <3>3, <3>4 DEF Form!Service!Arrow
  <2> QED
    BY <2>11, <2>12
<1> QED
  BY <1>4, <1>5

\* The first control of a menu is where the focus starts.
LEMMA FirstStop ==
    ASSUME NEW m \in Menus
    PROVE  Form!Last(Form!Taker(FALSE)[Root[m]]) = Form!Service!First(Below[Root[m]] \cap Focusable)
<1>1. End(Form!Taker(FALSE)[Root[m]]) = Foremost(Stops(m), FALSE)
  BY RootEnd
<1> QED
  BY <1>1 DEF End, Form!Last, Foremost, Stops

\* Entering a button opens its menu at the first control, with the texts it starts with.
LEMMA EnterServes ==
    ASSUME FormIInv, FormIInv', Form!EnterButton PROVE Form!Service!Enter
<1> DEFINE w == Form!Here
<1>1. focus = {w} /\ w \in Stops(shown) /\ focus' = {w'} /\ shown \in Menus
  BY FocusIsHere, FocusIsHereNext
<1>2. pc = "key" /\ Kind[w] = "button"
  BY DEF Form!EnterButton
<1>3. CASE Opens[w] = Quit
  <2>1. pc' = "quit" /\ UNCHANGED <<shown, focus, len>>
    BY <1>3 DEF Form!EnterButton, Form!tree
  <2>2. w' = w
    BY <1>1, <2>1
  <2>3. (pc = "quit")' = TRUE
    BY <2>1
  <2> QED
    BY <1>2, <1>3, <2>1, <2>2, <2>3 DEF Form!Service!Enter
<1>4. CASE Opens[w] # Quit
  <2> DEFINE m == Opens[w]
  <2>1. pc' = "paint" /\ Form!Change(m)
    BY <1>4 DEF Form!EnterButton
  <2>2. shown' = m /\ focus' = {Form!Last(Form!Taker(FALSE)[Root[m]])} /\ len' = Form!Start
    BY <2>1 DEF Form!Change
  <2>3. m \in Menus
    BY <2>2 DEF FormIInv, Form!TypeOK
  <2> HIDE DEF m
  <2>4. w' = Form!Service!First(Below[Root[m]] \cap Focusable)
    <3>1. w' = Form!Last(Form!Taker(FALSE)[Root[m]])
      BY <1>1, <2>2
    <3> QED
      BY <2>3, <3>1, FirstStop
  <2>5. [n \in Menus |-> Form!Below[Root[n]] \cap Form!Focusable][shown'] = Below[Root[m]] \cap Focusable
    BY <2>2, <2>3 DEF Below, Focusable
  <2>6. DOMAIN len = Form!Fields
    BY DEF FormIInv, Form!TypeOK
  <2>7. len' = Form!Service!Start
    BY <2>2, <2>6 DEF Form!Start, Form!Service!Start
  <2>8. UNCHANGED (pc = "quit")
    BY <1>2, <2>1
  <2>9. shown' = Opens[w]
    BY <2>2 DEF m
  <2>10. w' = Form!Service!First([n \in Menus |-> Form!Below[Root[n]] \cap Form!Focusable][shown'])
    BY <2>4, <2>5
  <2> QED
    BY <1>2, <1>4, <2>7, <2>8, <2>9, <2>10 DEF Form!Service!Enter
<1> QED
  BY <1>3, <1>4

\* Typing makes the text with the focus longer or shorter.
LEMMA TypeServes ==
    ASSUME FormIInv, FormIInv', Form!Type PROVE Form!Service!Type
<1> DEFINE w == Form!Here
<1>1. focus = {w} /\ focus' = {w'}
  BY FocusIsHere, FocusIsHereNext
<1>2. pc = "key" /\ pc' = "paint" /\ w \in Form!Fields /\ UNCHANGED <<shown, focus>>
  BY DEF Form!Type
<1>3. len' \in {[len EXCEPT ![w] = @ + 1], [len EXCEPT ![w] = @ - 1]}
  BY DEF Form!Type
<1>4. DOMAIN len = Form!Fields /\ len' \in [Form!Fields -> 0..MaxLength]
  BY DEF FormIInv, Form!TypeOK
<1>5. w' = w /\ UNCHANGED (pc = "quit")
  BY <1>1, <1>2
<1> HIDE DEF w
<1>6. w \in DOMAIN len /\ len'[w] \in 0..MaxLength
  BY <1>2, <1>4
<1> QED
  BY <1>2, <1>3, <1>5, <1>6 DEF Form!Service!Type, w

\* Every step of a form is one of FormService, or changes nothing that it knows of.
LEMMA FormServes ==
    ASSUME FormIInv, FormIInv', Form!Next PROVE Form!Service!Next \/ UNCHANGED Form!Service!vars
<1>1. CASE Form!Paint
  <2>1. UNCHANGED <<shown, focus, len>> /\ pc = "paint" /\ pc' = "key"
    BY <1>1 DEF Form!Paint
  <2> QED
    BY <2>1, FormStutters
<1>2. CASE Form!EnterButton
  BY <1>2, EnterServes DEF Form!Service!Next
<1>3. CASE Form!Select
  <2>1. UNCHANGED <<shown, focus, len>> /\ pc = "key" /\ pc' = "paint"
    BY <1>3 DEF Form!Select
  <2> QED
    BY <2>1, FormStutters
<1>4. CASE Form!Type
  BY <1>4, TypeServes DEF Form!Service!Next
<1>5. CASE Form!Ignored
  <2>1. UNCHANGED <<shown, focus, len>> /\ pc = "key" /\ pc' = "paint"
    BY <1>5 DEF Form!Ignored, Form!tree
  <2> QED
    BY <2>1, FormStutters
<1>6. CASE \E kind \in {"row", "column"}, back \in BOOLEAN : Form!Arrow(kind, back)
  <2>1. PICK kind \in {"row", "column"}, back \in BOOLEAN : Form!Arrow(kind, back)
    BY <1>6
  <2>2. Form!Service!Arrow \/ UNCHANGED Form!Service!vars
    BY <2>1, ArrowServes
  <2> QED
    BY <2>2 DEF Form!Service!Next
<1> QED
  BY <1>1, <1>2, <1>3, <1>4, <1>5, <1>6 DEF Form!Next

LEMMA FormServiceStart == ASSUME Form!Init PROVE Form!Service!Init
<1>1. FormIInv
  BY FormStart
<1>2. focus = {Form!Here}
  BY <1>1, FocusIsHere
<1>3. shown = Main /\ focus = {Form!Last(Form!Taker(FALSE)[Root[Main]])} /\ len = Form!Start /\ pc = "paint"
  BY DEF Form!Init
<1>4. Main \in Menus
  BY MenuFacts
<1>5. Form!Here = Form!Service!First(Below[Root[Main]] \cap Focusable)
  <2>1. Form!Here = Form!Last(Form!Taker(FALSE)[Root[Main]])
    BY <1>2, <1>3
  <2> QED
    BY <1>4, <2>1, FirstStop
<1>6. [n \in Menus |-> Form!Below[Root[n]] \cap Form!Focusable][Main] = Below[Root[Main]] \cap Focusable
  BY <1>4 DEF Below, Focusable
<1>7. len = Form!Service!Start
  <2>1. DOMAIN len = Form!Fields
    BY <1>1 DEF FormIInv, Form!TypeOK
  <2> QED
    BY <1>3, <2>1 DEF Form!Start, Form!Service!Start
<1>8. (pc = "quit") = FALSE
  BY <1>3
<1>9. Form!Here = Form!Service!First([n \in Menus |-> Form!Below[Root[n]] \cap Form!Focusable][Main])
  BY <1>5, <1>6
<1> QED
  BY <1>3, <1>7, <1>8, <1>9 DEF Form!Service!Init

\* For any menus of rows and columns of controls: up and down go to the first, or last,
\* control of the nearest row that has one, left and right along a row and on to the
\* next one, around the menu at its ends; a button opens its menu at its first control
\* (container.cpp:5-106, column_container.h:57-72).
THEOREM FormImplementsService == Spec => FormServiceSpec
<1>1. Init => Form!Service!Init
  BY FormServiceStart DEF Init
<1>2. FormIInv /\ FormIInv' /\ [Next]_vars
        => [part = "form" => Form!Service!Next]_(Form!Service!vars)
  <2> SUFFICES ASSUME FormIInv, FormIInv', [Next]_vars
               PROVE  (part = "form" => Form!Service!Next) \/ UNCHANGED Form!Service!vars
    OBVIOUS
  <2>1. CASE UNCHANGED vars
    <3>1. UNCHANGED <<shown, focus, len, pc>>
      BY <2>1 DEF vars, formVars
    <3>2. focus = {Form!Here} /\ focus' = {(Form!Here)'}
      BY FocusIsHere, FocusIsHereNext
    <3>3. (Form!Here)' = Form!Here /\ (pc = "quit")' = (pc = "quit")
      BY <3>1, <3>2
    <3> QED
      BY <3>1, <3>3 DEF Form!Service!vars
  <2>2. CASE Next /\ part # "form"
    BY <2>2
  <2>3. CASE Next /\ part = "form"
    <3>1. Form!Next
      BY <2>3 DEF Next
    <3> QED
      BY <3>1, FormServes
  <2> QED
    BY <2>1, <2>2, <2>3
<1> QED
  BY <1>1, <1>2, FormHolds, PTL DEF Spec, FormServiceSpec
=============================================================================

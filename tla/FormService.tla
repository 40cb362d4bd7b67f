---------------------------- MODULE FormService ----------------------------
(***************************************************************************)
(* What the keys of a form do for its user: the controls of a menu stand in *)
(* rows, one of them has the focus, and keys move it in reading order.      *)
(***************************************************************************)
EXTENDS Integers

CONSTANTS Menus, Main,
          Stops,      \* menu -> its controls that take the focus
          Place(_),   \* control -> <<row, column>>
          Columns,    \* the controls that stand beside each other
          Kind,       \* of a control
          Opens,      \* the menu a button opens; Quit
          Quit, MaxLength

VARIABLES menu, at,   \* the menu shown, and the control with the focus
          len,        \* field -> length of its text
          quit

Row(c) == Place(c)[1]
Column(c) == Place(c)[2]
Before(a, b) == Row(a) < Row(b) \/ (Row(a) = Row(b) /\ Column(a) < Column(b))
First(S) == CHOOSE a \in S : \A b \in S : a = b \/ Before(a, b)
Last(S) == CHOOSE a \in S : \A b \in S : a = b \/ Before(b, a)

Start == [c \in DOMAIN len |-> IF Kind[c] = "digits" THEN 1 ELSE 0]
Init == menu = Main /\ at = First(Stops[Main]) /\ len = Start /\ quit = FALSE

\* A direction leads to some controls, and else around.
Below == LET S == {c \in Stops[menu] : Row(c) > Row(at)} IN First(IF S = {} THEN Stops[menu] ELSE S)
Above == LET S == {c \in Stops[menu] : Row(c) < Row(at)} IN Last(IF S = {} THEN Stops[menu] ELSE S)
Right == LET S == {c \in Stops[menu] : Row(c) = Row(at) /\ Column(c) > Column(at)} IN
         IF S = {} THEN Below ELSE First(S)
Left == LET S == {c \in Stops[menu] : Row(c) = Row(at) /\ Column(c) < Column(at)} IN
        IF S = {} THEN Above ELSE Last(S)

Arrow ==
    /\ at' \in {Above, Below} \/ (at \in Columns /\ at' \in {Left, Right})
    /\ UNCHANGED <<menu, len, quit>>

Enter ==
    /\ Kind[at] = "button"
    /\ IF Opens[at] = Quit THEN quit' = TRUE /\ UNCHANGED <<menu, at, len>>
       ELSE menu' = Opens[at] /\ at' = First(Stops[menu']) /\ len' = Start /\ UNCHANGED quit

Type ==
    /\ at \in DOMAIN len
    /\ len' \in {[len EXCEPT ![at] = @ + 1], [len EXCEPT ![at] = @ - 1]} /\ len'[at] \in 0..MaxLength
    /\ UNCHANGED <<menu, at, quit>>

Next == Arrow \/ Enter \/ Type

vars == <<menu, at, len, quit>>
Spec == Init /\ [][Next]_vars
=============================================================================

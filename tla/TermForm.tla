------------------------------ MODULE TermForm ------------------------------
(***************************************************************************)
(* Libraries/TerminalForm: forms on a text terminal. A form shows a tree of *)
(* controls in row and column containers; every container has a cursor, one *)
(* control has the focus, and components marked invalid are painted again.  *)
(* SPETerminal makes its menus of it: entering a button builds the tree of  *)
(* another menu and lets go of the current one.                             *)
(*                                                                          *)
(* Texts are their lengths, a key is what the control that gets it does     *)
(* with it, and places on the screen are the controls painted there. The    *)
(* 16 bits of a group's hash are taken to tell the groups apart.            *)
(***************************************************************************)
EXTENDS Integers, FiniteSets, SequencesExt

CONSTANTS Menus, Main,    \* the menus of spe_form; the first one
          Root,           \* the row container of a menu
          Kids,           \* the components of a container
          Kind,           \* of a component: row, column, label, button, radio, text, digits
          Opens,          \* the menu a button opens; Quit
          Quit,
          Cleared,        \* the menus that change_to_clean_up lets go of
          MaxLength,      \* max_length of the text fields
          None

Components == DOMAIN Kind
Containers == {c \in Components : Kind[c] \in {"row", "column"}}
Controls == Components \ Containers
Focusable == {c \in Controls : Kind[c] # "label"}
Radios(m) == {c \in Controls : Kind[c] = "radio" /\ c \in Range(Kids[Root[m]])}
Parent(c) == LET P == {p \in Containers : c \in Range(Kids[p])} IN
             IF P = {} THEN None ELSE CHOOSE p \in P : TRUE

\* A container and the components in it, at any depth.
Below ==
    LET f[c \in Components] ==
            {c} \cup (IF c \in Controls THEN {} ELSE UNION {f[k] : k \in Range(Kids[c])})
    IN  f

\* make_control and add: components are put into containers from the inside, each
\* into one. A menu is a tree of its own, and every component has less below it
\* than the container around it.
IsForest ==
    /\ IsFiniteSet(Components) /\ Kids \in [Containers -> Seq(Components)]
    /\ Below \in [Components -> SUBSET Components]
    /\ \A c \in Containers : \A k \in Range(Kids[c]) : Cardinality(Below[k]) < Cardinality(Below[c])
    /\ \A c, d \in Containers : Range(Kids[c]) \cap Range(Kids[d]) # {} => c = d
    /\ \A m \in Menus : Parent(Root[m]) = None

\* What the model takes for granted of its constants. In the constructors of the
\* menus, radio buttons are added to the row of the menu, the first menu has none,
\* and no button opens the menu it is in.
FormAssumption ==
    /\ Main \in Menus /\ Quit \notin Menus /\ Cleared \subseteq Menus /\ MaxLength \in Nat \ {0}
    /\ Root \in [Menus -> Containers] /\ None \notin Components /\ IsForest
    /\ Opens \in [{c \in Controls : Kind[c] = "button"} -> Menus \cup {Quit}]
    /\ \A m \in Menus : /\ Kind[Root[m]] = "row" /\ Below[Root[m]] \cap Focusable # {}
                       /\ \A c \in Below[Root[m]] \cap DOMAIN Opens : Opens[c] # m
    /\ \A c \in Controls : Kind[c] = "radio" => \E m \in Menus : c \in Radios(m)
    /\ Radios(Main) = {}

\* The constructors put controls, and columns of controls, into the row of a menu, each
\* at one place.
RowsAndColumns ==
    /\ \A c \in Containers : IsInjective(Kids[c])
    /\ \A m \in Menus : \A c \in Range(Kids[Root[m]]) \cap Containers :
          Kind[c] = "column" /\ Range(Kids[c]) \subseteq Controls

VARIABLES shown,    \* the menu that is the form's base_container
          held,     \* the menus that spe_form's pointers own
          sel,      \* menu -> its selected radio buttons
          cursor,   \* container -> _cursor, of the menu shown
          focus,    \* controls with _has_focus
          inval,    \* components with _invalid
          len,      \* text field -> length of its text
          screen,   \* control -> what the terminal shows of it
          pc        \* "paint", "key" or "quit"

tree == <<cursor, focus, inval>>
vars == <<shown, held, sel, tree, len, screen, pc>>

Alive == held \cup {shown}
Fields == {c \in Controls : Kind[c] \in {"text", "digits"}}

\* What a control looks like: focus, selection, text.
View(c) == <<c \in focus, \E m \in Menus : c \in sel[m], IF c \in Fields THEN len[c] ELSE 0>>

TypeOK ==
    /\ shown \in Menus /\ held \subseteq Menus
    /\ \A m \in Menus : sel[m] \subseteq Radios(m)
    /\ cursor \in [Containers -> Components \cup {None}]
    /\ focus \subseteq Focusable /\ inval \subseteq Components
    /\ len \in [Fields -> 0..MaxLength]
    /\ DOMAIN screen = Controls /\ pc \in {"paint", "key", "quit"}
-----------------------------------------------------------------------------
(* Focus. A move is described by the containers that release their cursor,  *)
(* and by the path of containers, ending in a control, that takes it.       *)

\* The control at the end of the cursors, from a component on.
Leaf ==
    LET f[c \in Components] ==
            IF c \in Controls THEN c ELSE IF cursor[c] = None THEN None ELSE f[cursor[c]]
    IN  f

\* try_give_focus and try_give_focus_back: the first, or last, component that
\* takes the focus; <<>> when none does.
FirstMutant(back) ==
    LET f[c \in Components] ==
            IF c \in Controls THEN IF c \in Focusable THEN <<c>> ELSE <<>>
            ELSE LET K == {k \in DOMAIN Kids[c] : f[Kids[c][k]] # <<>>} IN
                 IF K = {} THEN <<>>
                 ELSE <<c>> \o f[Kids[c][IF back /\ Kind[c] = "row" THEN Max(K) ELSE Min(K)]]
    IN  f
Taker(back) ==
    LET f[c \in Components] ==
            IF c \in Controls THEN IF c \in Focusable THEN <<c>> ELSE <<>>
            ELSE LET K == {k \in DOMAIN Kids[c] : f[Kids[c][k]] # <<>>} IN
                 IF K = {} THEN <<>> ELSE <<c>> \o f[Kids[c][IF back THEN Max(K) ELSE Min(K)]]
    IN  f

\* component::invalid(true): the component and all its ancestors.
Invalid(C) == {c \in Components : Below[c] \cap C # {}}

\* The cursors of the containers of a path.
Along(old, path) ==
    [c \in Containers |->
        IF c \in Range(Front(path)) THEN path[1 + CHOOSE k \in DOMAIN path : path[k] = c] ELSE old[c]]

\* container::release_focus: what the cursors of R lead to, if it has the focus.
Released(R) == {Leaf[cursor[c]] : c \in {r \in R : cursor[r] # None}} \cap focus

\* The cursors of R release the focus, and the end of the path takes it.
Give(R, path) ==
    LET old == Released(R)
        new == Last(path)
    IN  /\ cursor' = Along(cursor, path)
        /\ focus' = (focus \ old) \cup {new}
        /\ inval' = inval \cup Invalid(old \cup ({new} \ (focus \ old)))

\* move_cursor_to_next and _prev: a later component of the same container, or of
\* a container around it, or from the start again.
Move(c, back) ==
    LET f[x \in Containers] ==
            LET at == CHOOSE k \in DOMAIN Kids[x] : Kids[x][k] = cursor[x]
                K == {k \in DOMAIN Kids[x] : (IF back THEN k < at ELSE k > at) /\ Taker(back)[Kids[x][k]] # <<>>}
            IN  IF K # {} THEN [up |-> {x}, path |-> <<x>> \o Taker(back)[Kids[x][IF back THEN Max(K) ELSE Min(K)]]]
                ELSE IF Parent(x) = None THEN [up |-> {x}, path |-> Taker(back)[x]]
                ELSE [f[Parent(x)] EXCEPT !.up = @ \cup {x}]
    IN  Give(f[c].up \cup Range(Front(f[c].path)), f[c].path)
-----------------------------------------------------------------------------
(* The menus.                                                               *)

\* The constructor of a radio button selects it when no living button of its
\* group is: the first of a new menu, unless the menu before it still lives.
Fresh(m) ==
    IF Radios(m) = {} \/ (m \in Alive /\ sel[m] # {}) THEN {}
    ELSE {Kids[Root[m]][Min({k \in DOMAIN Kids[Root[m]] : Kids[Root[m]][k] \in Radios(m)})]}

\* change_to_clean_up
Kept == held \ Cleared

Blank == [c \in Controls |-> None]
Start == [c \in Fields |-> IF Kind[c] = "digits" THEN 1 ELSE 0]

\* change_to_..._menu: the new menu in its pointer, and form::set, which lets go
\* of the tree shown and gives the new one the focus.
Change(m) ==
    /\ held' = Kept \cup {m} /\ shown' = m
    /\ sel' = [x \in Menus |-> IF x = m THEN Fresh(m) ELSE IF x \in Kept THEN sel[x] ELSE {}]
    /\ cursor' = Along([c \in Containers |-> None], Taker(FALSE)[Root[m]])
    /\ focus' = {Last(Taker(FALSE)[Root[m]])}
    /\ inval' = Components /\ len' = Start /\ screen' = Blank

Init ==
    /\ shown = Main /\ held = {Main} /\ sel = [m \in Menus |-> {}]
    /\ cursor = Along([c \in Containers |-> None], Taker(FALSE)[Root[Main]])
    /\ focus = {Last(Taker(FALSE)[Root[Main]])}
    /\ inval = Components /\ len = Start /\ screen = Blank /\ pc = "paint"
-----------------------------------------------------------------------------
(* spe_form::show: paint, a key, and so on.                                 *)

\* What the containers make a part of the output: a row the components that were
\* invalid, a column all of them when it is invalid itself.
Printed ==
    LET f[c \in Components] ==
            \/ Parent(c) = None
            \/ f[Parent(c)] /\ (IF Kind[Parent(c)] = "row" THEN c ELSE Parent(c)) \in inval
    IN  f

\* form::paint: the controls become valid, the containers never do.
Paint ==
    /\ pc = "paint" /\ pc' = "key"
    /\ LET on == Below[Root[shown]] \cap Controls IN
       /\ screen' = [c \in Controls |-> IF c \in on /\ Printed[c] THEN View(c) ELSE screen[c]]
       /\ inval' = inval \ on
    /\ UNCHANGED <<shown, held, sel, cursor, focus, len>>

Here == Leaf[Root[shown]]

\* container::input and column_container::input: the innermost container that
\* knows the key moves its cursor.
Arrow(kind, back) ==
    LET H == {c \in Containers : Kind[c] = kind /\ Here \in Below[c]} IN
    /\ pc = "key" /\ pc' = "paint"
    /\ IF H = {} THEN UNCHANGED tree
       ELSE Move(CHOOSE c \in H : \A d \in H : Below[c] \subseteq Below[d], back)
    /\ UNCHANGED <<shown, held, sel, len, screen>>

\* button::input: the handler may destroy the button and every container whose
\* input function is running; none of them looks at itself again.
EnterButton ==
    /\ pc = "key" /\ Kind[Here] = "button"
    /\ IF Opens[Here] = Quit THEN pc' = "quit" /\ UNCHANGED <<shown, held, sel, tree, len, screen>>
       ELSE pc' = "paint" /\ Change(Opens[Here])

\* radio_button::select
OwnOnlyMutant(c) == {c}
Changed(c) == {c} \cup sel[shown]
Select ==
    /\ pc = "key" /\ Kind[Here] = "radio" /\ pc' = "paint"
    /\ IF Here \in sel[shown] THEN UNCHANGED <<sel, inval>>
       ELSE /\ sel' = [sel EXCEPT ![shown] = {Here}]
            /\ inval' = inval \cup Invalid(Changed(Here))
    /\ UNCHANGED <<shown, held, cursor, focus, len, screen>>

\* textfield::input of a character that the field allows, and of a backspace.
HasRoom(c) == len[c] < MaxLength
Type ==
    /\ pc = "key" /\ Here \in Fields /\ pc' = "paint"
    /\ \/ HasRoom(Here) /\ len' = [len EXCEPT ![Here] = @ + 1]
       \/ len[Here] > 0 /\ len' = [len EXCEPT ![Here] = @ - 1]
    /\ inval' = inval \cup Invalid({Here})
    /\ UNCHANGED <<shown, held, sel, cursor, focus, screen>>

\* No key, or one that neither the control nor its containers know.
Ignored == pc = "key" /\ pc' = "paint" /\ UNCHANGED <<shown, held, sel, tree, len, screen>>

Next ==
    \/ Paint \/ EnterButton \/ Select \/ Type \/ Ignored
    \/ \E kind \in {"row", "column"}, back \in BOOLEAN : Arrow(kind, back)

Spec == Init /\ [][Next]_vars
-----------------------------------------------------------------------------
(* Properties.                                                              *)

\* The control at the end of the cursors, and no other, has the focus
\* (container.cpp:24-106): keys go where the terminal shows them to go.
OneFocus == focus = {Here}

\* After a paint (form.h:94) the terminal shows every control as it is, though only
\* what was marked invalid is painted: no change is missed, at any depth.
Current == pc = "key" => \A c \in Below[Root[shown]] \cap Controls : screen[c] = View(c)

\* A group has at most one selected button (radio_button.h:117); in a menu that
\* change_to_clean_up lets go of, never none (radio_button.h:18).
OneSelected ==
    /\ \A m \in Menus : Cardinality(sel[m]) <= 1
    /\ shown \in Cleared /\ Radios(shown) # {} => sel[shown] # {}

\* Where a control stands: its row of the menu, and its place in a column container.
Index(c) == LET p == Parent(c) IN CHOOSE k \in DOMAIN Kids[p] : Kids[p][k] = c
InColumn(c) == Kind[Parent(c)] = "column"
Place(c) == IF InColumn(c) THEN <<Index(Parent(c)), Index(c)>> ELSE <<Index(c), 1>>

\* The keys do what FormService says: up and down go from row to row, left and
\* right along a row and on to the next one.
Service == INSTANCE FormService WITH menu <- shown, at <- Here, quit <- pc = "quit",
    Stops <- [m \in Menus |-> Below[Root[m]] \cap Focusable], Columns <- {c \in Focusable : InColumn(c)}
ServiceSpec == Service!Spec

\* What holds in every state: one focus, a terminal that is up to date after a
\* paint, exclusive groups (container.cpp:24-106, form.h:94, radio_button.h:117).
FormInv == TypeOK /\ OneFocus /\ Current /\ OneSelected
=============================================================================

------------------------------ MODULE Library ------------------------------
(***************************************************************************)
(* Two libraries of the repository that no task of the firmware calls yet:  *)
(* the lists of no-OS, and the forms of TerminalForm. One behaviour is      *)
(* about one of the two.                                                    *)
(***************************************************************************)
EXTENDS Integers

CONSTANTS Elems, Data, MaxIdx,                                    \* of NoOsList
          Menus, Main, Root, Kids, Kind, Opens, Quit, Cleared,    \* of TermForm
          MaxLength, None

VARIABLES part,  \* the library this behaviour is about
          l, it, ub, call, res,
          shown, held, sel, cursor, focus, inval, len, screen, pc

List == INSTANCE NoOsList
Form == INSTANCE TermForm

ASSUME LibraryAssumption == List!ListAssumption /\ Form!FormAssumption /\ Form!RowsAndColumns

listVars == <<l, it, ub, call, res>>
formVars == <<shown, held, sel, cursor, focus, inval, len, screen, pc>>
vars == <<part, listVars, formVars>>

Init == part \in {"list", "form"} /\ List!Init /\ Form!Init

Next ==
    /\ UNCHANGED part
    /\ \/ part = "list" /\ List!Next /\ UNCHANGED formVars
       \/ part = "form" /\ Form!Next /\ UNCHANGED listVars

Spec == Init /\ [][Next]_vars
-----------------------------------------------------------------------------
(* A library's state changes only in behaviours that are about it. *)

\* Both directions of a list agree (no_os_list.c:125-158).
ListInv == part = "list" => List!ListInv

\* Every function of a list does what its description says (no_os_list.h:122-190,
\* no_os_list.c:799-800), called at an iterator that is on no element too, except
\* where List!ServiceNext names what the code does instead: a lost position
\* (no_os_list.c:819) and a NULL pointer followed (no_os_list.c:403, 791, 868).
ListServiceSpec ==
    List!Service!Init /\ [][part = "list" => List!ServiceNext]_(List!Service!vars)

\* One control has the focus, the terminal shows every control as it is, a group
\* has one selected button (container.cpp:24-106, form.h:94, radio_button.h:117).
FormInv == part = "form" => Form!FormInv

\* The keys move through a menu as FormService says (container.cpp:24-106).
FormServiceSpec ==
    Form!Service!Init /\ [][part = "form" => Form!Service!Next]_(Form!Service!vars)
=============================================================================

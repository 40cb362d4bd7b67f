------------------------------- MODULE MCBoot -------------------------------
(* Boot with the values of main.c and the clock of the board. *)
EXTENDS Boot
=============================================================================

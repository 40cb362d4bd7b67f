------------------------------ MODULE SlotPool ------------------------------
(***************************************************************************)
(* What the slot table of modbus_tcp_start promises: a slot is reserved by *)
(* the accept loop only when it is free, one slot at a time, is then       *)
(* served by one task or stuck for ever, and only the end of that task     *)
(* frees it.                                                               *)
(***************************************************************************)
CONSTANT Slots
VARIABLE slot

States == {"free", "reserved", "serving", "stuck"}

Init == slot \in [Slots -> {"free", "stuck"}]

Move(s, from, to) == slot[s] = from /\ slot' = [slot EXCEPT ![s] = to]

Reserve(s) ==
    /\ \A r \in Slots : slot[r] # "reserved"
    /\ Move(s, "free", "reserved")

Serve(s) == Move(s, "reserved", "serving")
Abandon(s) == Move(s, "reserved", "stuck")
Release(s) == Move(s, "serving", "free")

Next == \E s \in Slots : Reserve(s) \/ Serve(s) \/ Abandon(s) \/ Release(s)

Spec == Init /\ [][Next]_slot

=============================================================================

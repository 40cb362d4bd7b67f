--------------------------- MODULE ModbusService ---------------------------
(***************************************************************************)
(* What a client may expect of a Modbus server on a reliable stream: its    *)
(* operations are executed in order, perhaps several times when the client  *)
(* repeated them, and not again once they were answered. When requests      *)
(* arrive whole an operation is executed before it is answered. Between     *)
(* them the server may execute what it makes of bytes it took for one.      *)
(***************************************************************************)
EXTENDS Naturals, Sequences

VARIABLES whole, \* requests arrive whole
          op,    \* the operation the client is waiting for
          log    \* what the server has executed, 0 for what nobody sent

vars == <<whole, op, log>>

Init == whole \in BOOLEAN /\ op = 1 /\ log = <<>>

Execute == log' \in {Append(log, op), Append(log, 0)} /\ UNCHANGED <<whole, op>>

Answer ==
    /\ whole => \E k \in DOMAIN log : log[k] = op
    /\ op' = op + 1 /\ UNCHANGED <<whole, log>>

Next == Execute \/ Answer

Spec == Init /\ [][Next]_vars
=============================================================================

--------------------------- MODULE MCModbusServer ---------------------------
(* Instances of ModbusServer for TLC.                                      *)
EXTENDS ModbusServer, TLC

CONSTANTS c1, c2, c3, t1, t2, t3

TwoConns == {c1, c2}
ThreeConns == {c1, c2, c3}
TwoTasks == {t1, t2}
ThreeTasks == {t1, t2, t3}

(* Nothing distinguishes a connection or a task from another one.          *)
Symmetry == Permutations(Conns) \cup Permutations(Tasks)

=============================================================================

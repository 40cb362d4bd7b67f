--------------------------- MODULE MCModbusHandler ---------------------------
(* Instances of ModbusHandler for TLC.                                     *)
EXTENDS ModbusHandler, TLC

CONSTANTS b1, b2, b3, t1, t2

OneTask == {t1}
TwoTasks == {t1, t2}
TwoBlocks == {b1, b2}
OneBlock == {b1}

(* modbus_task sets two callbacks (main.c:515); an application can set all. *)
AsShipped == {{"read_words", "write_words"}}
AllSet == {{"read_bits", "write_bits", "read_words", "write_words"}}
EitherWay == AsShipped \cup AllSet

(* The callbacks of modbus_app.c accept everything; real ones may answer   *)
(* MODBUS_ERROR_ILLEGAL_DATA_ADDRESS.                                      *)
Accepting == {0}
Choosy == {0, 2}

Req(codes, quantities, counts) == [fc : codes, q : quantities, n : counts]

(* Quantities of the Modbus specification, among them one not divisible by *)
(* eight and the greatest, and what a byte count makes of others: none, the*)
(* first that wraps, the greatest of 16 bits.  Of the writes, the last byte*)
(* count whose flips stay in the receive buffer and the first whose do     *)
(* not, and a quantity that has nothing to do with its byte count.         *)
(* Function 8 (diagnostics) is not supported.                              *)
Reads == Req({1}, {9, 2041}, {0}) \cup Req({2}, {2000, 65535}, {0})
         \cup Req({3}, {0, 128}, {0}) \cup Req({4}, {125, 65535}, {0})
Writes == Req({5, 6}, {1}, {0}) \cup Req({15}, {9}, {2, 52}) \cup Req({23}, {9}, {2})
          \cup Req({16}, {12}, {24}) \cup Req({16}, {13, 65535}, {26})
AllRequests == Reads \cup Writes \cup Req({8}, {0}, {0})

Symmetry == Permutations(Tasks) \cup Permutations(Blocks)
=============================================================================

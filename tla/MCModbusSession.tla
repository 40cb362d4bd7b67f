-------------------------- MODULE MCModbusSession --------------------------
(* Instances of ModbusSession. Sizes are scaled: two cells of header with    *)
(* the function code in the second, requests of three and four cells, a      *)
(* buffer of four; a request of six cells does not fit.                      *)
EXTENDS ModbusSession

FittingProg == <<3, 4>>
OversizeProg == <<6>>
=============================================================================

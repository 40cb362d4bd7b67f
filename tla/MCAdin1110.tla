----------------------------- MODULE MCAdin1110 -----------------------------
(***************************************************************************)
(* The driver of the ADIN1110: its frame FIFOs, its address filter, its     *)
(* initialisation and its access to the PHY. They share no state but the    *)
(* SPI, which the mutex adinHandle gives to one of them at a time, so one   *)
(* behaviour is about one of the four.                                      *)
(***************************************************************************)
EXTENDS Integers

CONSTANTS MaxErr, MaxFault,
          Word, BuffLen, TxLens, RxSizes, Stale, TxWords, Overhead, RxLen,
          N, Uppers, Lowers, MaxFails,
          Devs, Main, MaxInits,
          Regs, Pd, Vals

\* Frames of one pbuf.
Packets == {[len |-> n, tot |-> n] : n \in TxLens}

VARIABLES part,  \* the part this behaviour is about
          at, pkt, size, fsize, tx, space, rx, overrun, reach, errs, faults,
          reg, call, fails, wanted, unsure, full, torn,
          step, dev, live, slaves, up, lost, netif, ub, inits,
          mdio, acc, latch, phy, ready, meant, got, mdioErrs, mdioFaults

Fifo == INSTANCE Adin1110Fifo
Filter == INSTANCE MacFilter
Setup == INSTANCE AdinInit WITH at <- step
Phy == INSTANCE AdinPhy WITH call <- mdio, errs <- mdioErrs, faults <- mdioFaults

ASSUME DriverAssumption ==
    Fifo!FifoAssumption /\ Filter!FilterAssumption /\ Setup!InitAssumption /\ Phy!PhyAssumption

fifoVars == <<at, pkt, size, fsize, tx, space, rx, overrun, reach, errs, faults>>
filterVars == <<reg, call, fails, wanted, unsure, full, torn>>
setupVars == <<step, dev, live, slaves, up, lost, netif, ub, inits>>
phyVars == <<mdio, acc, latch, phy, ready, meant, got, mdioErrs, mdioFaults>>
vars == <<part, fifoVars, filterVars, setupVars, phyVars>>

Init ==
    /\ part \in {"fifo", "filter", "setup", "phy"}
    /\ Fifo!Init /\ Filter!Init /\ Setup!Init /\ Phy!Init
    /\ part # "fifo" => pkt = CHOOSE p \in Packets : TRUE

Next ==
    /\ UNCHANGED part
    /\ \/ part = "fifo" /\ Fifo!Next /\ UNCHANGED <<filterVars, setupVars, phyVars>>
       \/ part = "filter" /\ Filter!Next /\ UNCHANGED <<fifoVars, setupVars, phyVars>>
       \/ part = "setup" /\ Setup!Next /\ UNCHANGED <<fifoVars, filterVars, phyVars>>
       \/ part = "phy" /\ Phy!Next /\ UNCHANGED <<fifoVars, filterVars, setupVars>>

\* network_task goes on, and the PHY carries out what it is told.
FairSpec == Init /\ [][Next]_vars /\ Phy!Fairness
-----------------------------------------------------------------------------
\* The FIFOs: a frame is dropped only after a test that wrapped or was made on old
\* bytes, copies leave their buffers exactly for the sizes that do not fit, and frames
\* keep their own lengths but one for each abort (adin1110.c:489-627).
FifoInv == Fifo!FifoInv

\* The table holds what successful calls asked for, but for a set that found it full
\* and an entry half written, and a failed access costs at most one of its entries
\* (adin1110.c:376-480).
FilterInv == Filter!FilterInv

\* The error labels give back what was taken, and devices that are up have a bus
\* that counts them (adin1110.c:921-928, no_os_spi.c:75, 138-139).
SetupInv == Setup!SetupInv

\* With the last device the bus goes too, but not the block that each bus has lost
\* (no_os_spi.c:141-149, freertos_mutex.c:47).
RemovedClean == Setup!RemovedClean

\* An access to the PHY that returned 0 has written or read the register, and
\* adin1110_setup_phy has ended its power-down (adin1110.c:182-367, 798-809).
PhyInv == Phy!PhyInv

\* Every access to the PHY ends (adin1110.c:201, 291, 300).
CallsEnd == Phy!CallsEnd
=============================================================================

------------------------------- MODULE AdinPhy -------------------------------
(***************************************************************************)
(* Access to the PHY of the ADIN1110 through its MDIO registers: the four   *)
(* functions adin1110_mdio_* and the loop of adin1110_setup_phy that takes  *)
(* the PHY out of software power-down (adin1110.c).                         *)
(*                                                                          *)
(* A command written to MDIOACC(0) or MDIOACC(1) is carried out by the      *)
(* device on its own, the older one first, and sets TRDONE, which the       *)
(* driver polls for without a limit. Clause 45 latches the address with one *)
(* command and moves the data with the next.                                *)
(***************************************************************************)
EXTENDS Integers, Sequences, FiniteSets

CONSTANTS Regs, Pd,   \* PHY registers, and CRSM_SFT_PD_CNTRL among them
          Vals,       \* their values: 1 is the one with the power-down bit
          MaxErr,     \* bound: register accesses that are reported as failed
          MaxFault    \* bound: register writes that a DMA error aborts unnoticed

\* What the model takes for granted of its constants.
PhyAssumption ==
    /\ Pd \in Regs /\ {0, 1} \subseteq Vals /\ Vals \subseteq Nat
    /\ MaxErr \in Nat /\ MaxFault \in Nat

Ops == {"read", "write", "read_c45", "write_c45"}
\* Register accesses of each function: write a command to, poll MDIOACC(i).
UnpolledMutant(op) ==
    CASE op = "read_c45" -> <<"write0", "poll0", "write1", "poll1">>
      [] op = "write_c45" -> <<"write0", "write1", "poll0">>
      [] OTHER -> <<"write0", "poll0">>
Program(op) ==
    CASE op = "read_c45" -> <<"write0", "poll0", "write1", "poll1">>
      [] op = "write_c45" -> <<"write0", "write1", "poll0", "poll1">>
      [] OTHER -> <<"write0", "poll0">>

VARIABLES call,    \* the function under way: what it does and how far it is
          acc,     \* MDIOACC: command, data, still to be carried out, TRDONE
          latch,   \* register that the last address command chose
          phy,     \* registers of the PHY
          ready,   \* the PHY accepts the end of its power-down
          meant,   \* values that the calls asked for
          got,     \* what the last call returned: 0, and the data, or an error
          errs, faults

vars == <<call, acc, latch, phy, ready, meant, got, errs, faults>>

Idle == [op |-> "idle"]
Calls == [op : Ops, reg : Regs, val : Vals, setup : BOOLEAN, k : 1..4]
Cmds == {"none", "addr", "rd", "wr"}
Results == [err : BOOLEAN, reg : Regs, val : Vals, op : Ops \cup {"idle"}, setup : BOOLEAN]

TypeOK ==
    /\ call \in Calls \cup {Idle} /\ latch \in Regs /\ phy \in [Regs -> Vals]
    /\ acc \in [0..1 -> [cmd : Cmds, reg : Regs, val : Vals, busy : BOOLEAN, done : BOOLEAN]]
    /\ ready \in BOOLEAN /\ meant \in [Regs -> Vals] /\ got \in Results
    /\ errs \in 0..MaxErr /\ faults \in 0..MaxFault

\* After power-up: the PHY is powered down and no command was given yet.
Init ==
    /\ call = Idle /\ latch = Pd /\ ready = FALSE /\ errs = 0 /\ faults = 0
    /\ acc = [i \in 0..1 |-> [cmd |-> "none", reg |-> Pd, val |-> 0,
                              busy |-> FALSE, done |-> FALSE]]
    /\ phy = [r \in Regs |-> IF r = Pd THEN 1 ELSE 0] /\ meant = phy
    /\ got = [err |-> FALSE, reg |-> Pd, val |-> 1, op |-> "idle", setup |-> FALSE]
-----------------------------------------------------------------------------
(* The device.                                                              *)

Ready == ~ready /\ ready' = TRUE /\ UNCHANGED <<call, acc, latch, phy, meant, got, errs, faults>>

\* Clause 22 commands carry their register, clause 45 ones use the latch.
Target(i) == IF i = 0 THEN acc[i].reg ELSE latch
Ignored(i) == Target(i) = Pd /\ ~ready

Execute(i) ==
    /\ acc[i].busy /\ (i = 1 => ~acc[0].busy)
    /\ acc' = [acc EXCEPT ![i].busy = FALSE, ![i].done = TRUE,
                          ![i].val = IF acc[i].cmd = "rd" THEN phy[Target(i)] ELSE @]
    /\ latch' = IF acc[i].cmd = "addr" THEN acc[i].reg ELSE latch
    /\ phy' = IF acc[i].cmd = "wr" /\ ~Ignored(i)
              THEN [phy EXCEPT ![Target(i)] = acc[i].val] ELSE phy
    /\ UNCHANGED <<call, ready, meant, got, errs, faults>>
-----------------------------------------------------------------------------
(* The driver.                                                              *)

Start(op, r, v, setup) ==
    call' = [op |-> op, reg |-> r, val |-> v, setup |-> setup, k |-> 1]

Begin ==
    /\ call = Idle
    /\ \/ \E op \in Ops, r \in Regs \ {Pd}, v \in Vals :
            (op \in {"read", "read_c45"} => v = 0) /\ Start(op, r, v, FALSE)
       \/ Start("read_c45", Pd, 0, TRUE)    \* adin1110_setup_phy
    /\ UNCHANGED <<acc, latch, phy, ready, meant, got, errs, faults>>

Step == Program(call.op)[call.k]
More == call.k < Len(Program(call.op))
NextStep == call' = [call EXCEPT !.k = @ + 1]

Command(i) ==
    [cmd |-> IF i = 0 /\ call.op \in {"read_c45", "write_c45"} THEN "addr"
             ELSE IF call.op \in {"read", "read_c45"} THEN "rd" ELSE "wr",
     reg |-> call.reg, val |-> call.val, busy |-> TRUE, done |-> FALSE]

WriteAcc(i) ==
    /\ call # Idle /\ Step = (IF i = 0 THEN "write0" ELSE "write1") /\ NextStep
    /\ \/ acc' = [acc EXCEPT ![i] = Command(i)] /\ UNCHANGED faults
       \/ faults < MaxFault /\ faults' = faults + 1 /\ UNCHANGED acc
    /\ UNCHANGED <<latch, phy, ready, meant, got, errs>>

\* The function returns 0; setup_phy reads the power-down bit again and again
\* and clears it until it is gone.
EndlessMutant(i) == TRUE
SetupGoesOn(i) == call.op = "write_c45" \/ acc[i].val = 1
Return(i) ==
    /\ got' = [err |-> FALSE, reg |-> call.reg, op |-> call.op, val |-> acc[i].val,
               setup |-> call.setup /\ ~SetupGoesOn(i)]
    /\ IF call.setup /\ SetupGoesOn(i)
       THEN Start(IF call.op = "write_c45" THEN "read_c45" ELSE "write_c45", Pd, 0, TRUE)
       ELSE call' = Idle
    /\ meant' = IF call.op \in {"write", "write_c45"} /\ call.reg # Pd
                THEN [meant EXCEPT ![call.reg] = call.val] ELSE meant

\* Polling goes on while TRDONE is clear.
Polled(i) == acc[i].done

Polls(i) == call # Idle /\ Step = (IF i = 0 THEN "poll0" ELSE "poll1")

Poll(i) ==
    /\ Polls(i) /\ Polled(i)
    /\ IF More THEN NextStep /\ UNCHANGED <<got, meant>> ELSE Return(i)
    /\ UNCHANGED <<acc, latch, phy, ready, errs, faults>>

PollAgain(i) == Polls(i) /\ ~Polled(i) /\ UNCHANGED vars

Error ==
    /\ call # Idle /\ errs < MaxErr /\ errs' = errs + 1
    /\ call' = Idle /\ got' = [got EXCEPT !.err = TRUE]
    /\ UNCHANGED <<acc, latch, phy, ready, meant, faults>>

Driver == Begin \/ (\E i \in 0..1 : WriteAcc(i) \/ Poll(i) \/ PollAgain(i)) \/ Error
Device == Ready \/ \E i \in 0..1 : Execute(i)
Next == Driver \/ Device

Spec == Init /\ [][Next]_vars

\* network_task goes on, and the device answers.
Fairness == WF_vars(Ready)
    /\ \A i \in 0..1 : WF_vars(WriteAcc(i)) /\ WF_vars(Poll(i)) /\ WF_vars(Execute(i))
FairSpec == Spec /\ Fairness
-----------------------------------------------------------------------------
(* Properties.                                                              *)
Returned(op) == call = Idle /\ got.op = op /\ ~got.err

\* A write that returned 0 has changed the register it was for, and no other:
\* the second command does not overtake the first, nor the return the second
\* (adin1110.c:276-308). A failed call excuses what it may have left half done,
\* and so does an aborted access, which goes unnoticed.
Clean == errs = 0 /\ faults = 0
WritesArrive == call = Idle /\ Clean => \A r \in Regs \ {Pd} : phy[r] = meant[r]

\* A read that returned 0 brings what its register holds, not the data of an
\* earlier command (adin1110.c:355-364); with the same excuse.
ReadsFresh == Clean /\ (Returned("read") \/ Returned("read_c45")) =>
    (got.reg # Pd => got.val = phy[got.reg])

\* When adin1110_setup_phy succeeds the PHY has left power-down (adin1110.c:798-809),
\* unless an access was aborted.
PoweredUp == call = Idle /\ faults = 0 /\ ~got.err /\ got.setup => phy[Pd] # 1

\* Every call ends, the loops for TRDONE and for the power-down bit included,
\* unless the access that gives the command is aborted (adin1110.c:201, 291, 300).
CallsEnd == (call # Idle) ~> (call = Idle \/ faults > 0)

\* What holds in every state: calls that return 0 have done what they report
\* (adin1110.c:182-367, 798-809).
PhyInv == TypeOK /\ WritesArrive /\ ReadsFresh /\ PoweredUp
=============================================================================

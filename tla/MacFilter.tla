------------------------------ MODULE MacFilter ------------------------------
(***************************************************************************)
(* The table of destination addresses of the ADIN1110 and the driver calls  *)
(* that change it: adin1110_set_mac_addr, adin1110_clear_mac_addr and, on   *)
(* the address of all ones, adin1110_broadcast_filter (adin1110.c).         *)
(*                                                                          *)
(* An entry is two registers, and each access to one is an SPI transfer     *)
(* that may fail and end the call. The upper register holds the upper half  *)
(* of the address and the flags APPLY2PORT and TO_HOST. The registers after *)
(* the last entry are the address mask: ADIN1110_MAC_ADDR_FILT_UPR_REG(16)  *)
(* is 0x70, ADIN1110_MAC_ADDR_MASK_UPR_REG.                                 *)
(***************************************************************************)
EXTENDS Integers, FiniteSets

CONSTANTS N,         \* ADIN1110_ADDR_FILT_LEN
          Uppers,    \* upper halves of addresses
          Lowers,    \* lower halves of addresses
          MaxFails   \* bound: register accesses that fail

\* What the model takes for granted of its constants.
FilterAssumption ==
    N \in Nat \ {0} /\ MaxFails \in Nat /\ Uppers \cup Lowers \subseteq Nat

Addrs == [u : Uppers, l : Lowers]
Zero == [on |-> FALSE, u |-> 0, l |-> 0]
Mask == N

VARIABLES reg,     \* the registers: entries 0 .. N - 1 and the mask at N
          call,    \* the driver call under way: what, for whom, entry, access
          fails,   \* accesses that have failed
          wanted,  \* addresses set and not cleared since, by calls that returned 0
          unsure,  \* addresses whose last call failed
          full,    \* addresses whose last set found no free entry and returned 0
          torn     \* upper halves of addresses whose set failed while it wrote

vars == <<reg, call, fails, wanted, unsure, full, torn>>

Idle == [what |-> "idle"]
Calls == [what : {"set", "clear"}, a : Addrs, i : 0..N,
          at : {"upr", "lwr", "wupr", "wlwr"}] \cup {Idle}

TypeOK ==
    /\ reg \in [0..N -> [on : BOOLEAN, u : Uppers \cup {0}, l : Lowers \cup {0}]]
    /\ call \in Calls /\ fails \in 0..MaxFails
    /\ wanted \subseteq Addrs /\ unsure \subseteq Addrs
    /\ full \subseteq Addrs /\ torn \subseteq Uppers

Init ==
    /\ reg = [i \in 0..N |-> Zero] /\ call = Idle /\ fails = 0
    /\ wanted = {} /\ unsure = {} /\ full = {} /\ torn = {}

Free(e) == e = Zero
Holds(e, a) == e.on /\ e.u = a.u /\ e.l = a.l
Stay == UNCHANGED <<wanted, unsure, full, torn>>
-----------------------------------------------------------------------------
Begin(what, a) ==
    /\ call = Idle /\ call' = [what |-> what, a |-> a, i |-> 0, at |-> "upr"]
    /\ UNCHANGED <<reg, fails>> /\ Stay

At(l) == call' = [call EXCEPT !.at = l]

\* The call returns 0.
Return ==
    /\ call' = Idle /\ unsure' = unsure \ {call.a}
    /\ wanted' = IF call.what = "set" THEN wanted \cup {call.a} ELSE wanted \ {call.a}
    /\ full' = IF call.what = "set" /\ call.i = N THEN full \cup {call.a} ELSE full \ {call.a}
    /\ torn' = IF call.what = "clear" /\ call.a.l = 0 THEN torn \ {call.a.u} ELSE torn

\* The loop over the entries goes on; set writes behind its end all the same.
NextEntry ==
    IF call.i + 1 < N \/ call.what = "set"
    THEN /\ call' = [call EXCEPT !.i = @ + 1,
                                 !.at = IF call.i + 1 < N THEN "upr" ELSE "wupr"]
         /\ Stay
    ELSE Return

\* Set looks for an entry of zeros, its upper register first.
SetReadUpr ==
    /\ call.what = "set" /\ call.at = "upr"
    /\ IF ~reg[call.i].on /\ reg[call.i].u = 0 THEN At("lwr") /\ Stay ELSE NextEntry
    /\ UNCHANGED <<reg, fails>>

SetReadLwr ==
    /\ call.what = "set" /\ call.at = "lwr"
    /\ IF reg[call.i].l = 0 THEN At("wupr") /\ Stay ELSE NextEntry
    /\ UNCHANGED <<reg, fails>>

\* Clear compares the halves and zeroes every entry that holds the address.
ClearReadUpr ==
    /\ call.what = "clear" /\ call.at = "upr"
    /\ IF reg[call.i].u = call.a.u THEN At("lwr") /\ Stay ELSE NextEntry
    /\ UNCHANGED <<reg, fails>>

ClearReadLwr ==
    /\ call.what = "clear" /\ call.at = "lwr"
    /\ IF reg[call.i].l = call.a.l THEN At("wupr") /\ Stay ELSE NextEntry
    /\ UNCHANGED <<reg, fails>>

NewUpr == IF call.what = "set" THEN [on |-> TRUE, u |-> call.a.u] ELSE [on |-> FALSE, u |-> 0]
NewLwr == IF call.what = "set" THEN call.a.l ELSE 0

Written ==
    IF call.at = "wupr" THEN [reg EXCEPT ![call.i].on = NewUpr.on, ![call.i].u = NewUpr.u]
    ELSE IF call.at = "wlwr" THEN [reg EXCEPT ![call.i].l = NewLwr]
    ELSE reg

WriteUpr ==
    /\ call # Idle /\ call.at = "wupr" /\ reg' = Written
    /\ At("wlwr") /\ UNCHANGED fails /\ Stay

\* After its write clear goes on with the next entry, set is done.
AfterClearMutant == Return
AfterClear == NextEntry

WriteLwr ==
    /\ call # Idle /\ call.at = "wlwr" /\ reg' = Written
    /\ IF call.what = "set" THEN Return ELSE AfterClear
    /\ UNCHANGED fails

\* An access fails and the call returns its error; a write that is reported as
\* failed may have reached the register.
Fail ==
    /\ call # Idle /\ fails < MaxFails /\ fails' = fails + 1
    /\ reg' \in {reg, Written}
    /\ call' = Idle /\ unsure' = unsure \cup {call.a}
    /\ torn' = IF call.what = "set" /\ call.at \in {"wupr", "wlwr"}
               THEN torn \cup {call.a.u} ELSE torn
    /\ UNCHANGED <<wanted, full>>

Access == SetReadUpr \/ SetReadLwr \/ ClearReadUpr \/ ClearReadLwr \/ WriteUpr \/ WriteLwr

Next ==
    \/ \E what \in {"set", "clear"}, a \in Addrs : Begin(what, a)
    \/ Access \/ Fail

Spec == Init /\ [][Next]_vars
-----------------------------------------------------------------------------
(* Properties.                                                              *)

Entries == 0..N - 1
Forwarded(a) == \E i \in Entries : Holds(reg[i], a)

\* Between calls the table holds exactly the addresses that were set and not
\* cleared since, and failed calls excuse their own address (adin1110.c:370-371),
\* with two exceptions: a set that finds no free entry writes the address mask
\* and returns 0 (adin1110.c:409), and one that fails between its two writes
\* leaves an entry that lets the address with a lower half of zero through, until
\* that address is cleared (adin1110.c:409-415).
ForwardsWanted == call = Idle =>
    \A a \in Addrs \ unsure :
        /\ a \in wanted \ full => Forwarded(a)
        /\ Forwarded(a) => a \in wanted \/ (a.l = 0 /\ a.u \in torn)

\* Neither exception is what the functions are documented to do: a set that returned
\* 0 has its address forwarded, no address is forwarded unasked, and the registers
\* behind the table are not those of a filter (adin1110.c:370-374).
SetForwards == call = Idle => wanted \ unsure \subseteq {a \in Addrs : Forwarded(a)}
NoSurplus == call = Idle => \A a \in Addrs \ unsure : Forwarded(a) => a \in wanted
MaskIntact == reg[Mask] = Zero

\* An entry that is neither free nor holds a wanted address is the price of a
\* failed access, at most one entry for each.
Orphans == {i \in Entries : ~Free(reg[i]) /\ ~\E a \in wanted : Holds(reg[i], a)}
OneEntryPerFail == call = Idle => Cardinality(Orphans) <= fails

\* What holds in every state: the table is the set of the addresses asked for but
\* for the two exceptions, and failed accesses spoil few of its entries
\* (adin1110.c:376-480).
FilterInv == TypeOK /\ ForwardsWanted /\ OneEntryPerFail
=============================================================================

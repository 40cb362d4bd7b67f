--------------------------- MODULE Adin1110Proofs ---------------------------
(***************************************************************************)
(* What holds of the driver of the ADIN1110 for any devices, filter         *)
(* entries, frames and faults.                                              *)
(*                                                                          *)
(* Initialisation: the error labels give back what was taken, and devices   *)
(* that are up have a bus that counts them and goes with the last of them.  *)
(* The invariant says of every block whether it is allocated while          *)
(* adin1110_init is at each of its steps (Taken, BusHeld), which ones it    *)
(* has lost (Forgotten), and how many devices the bus counts (Counted).     *)
(*                                                                          *)
(* PHY: the invariant follows a call through the commands that it gives to  *)
(* MDIOACC, also past those that an earlier call left behind.               *)
(*                                                                          *)
(* Filter: the invariant says what the entries seen so far were while a     *)
(* call walks over the table (SetAt, ClearAt), and which entries are only   *)
(* half written in the middle of a call (HalfWritten).                      *)
(*                                                                          *)
(* FIFOs: the invariant is about the end of every queued frame (Ends) and   *)
(* the room that was found for the one to come (Roomy): of the two words    *)
(* that the test of the driver keeps free, the rounding to 32-bit words     *)
(* takes one at most and the device the other.                              *)
(***************************************************************************)
EXTENDS MCAdin1110, Sequences, FiniteSetTheorems, TLAPS

Kinds == Setup!Allocs
Access == Setup!Access
Steps == Kinds \cup {"bus", "mutex", "count"} \cup Access

\* The blocks that adin1110_init has taken for its device when it is at step s.
Taken ==
    [desc |-> {}, rst |-> {"desc"}, rstx |-> {"desc", "rst"},
     bus |-> {"desc", "rst", "rstx"}, mutex |-> {"desc", "rst", "rstx"},
     spi |-> {"desc", "rst", "rstx"}, sdesc |-> {"desc", "rst", "rstx", "spi"},
     cs |-> Kinds \ {"cs", "csx"}, csx |-> Kinds \ {"csx"},
     count |-> Kinds, mac |-> Kinds, phy |-> Kinds, check |-> Kinds]

\* The device that is brought up is not yet up.
Coming == step \in Steps => dev \notin up

\* A block is allocated for a device that is up or for the one that is brought up.
Held == step # "halt" =>
    \A d \in Devs, k \in Kinds :
        <<k, d>> \in live <=> d \in up \/ (step \in Steps /\ d = dev /\ k \in Taken[step])

\* The bus comes with its mutex, and before the descriptors that refer to it.
BusHeld ==
    /\ step \in {"idle", "desc", "rst", "rstx"} => (<<"bus">> \in live <=> <<"mutex">> \in live)
    /\ step = "bus" => <<"bus">> \notin live /\ <<"mutex">> \notin live
    /\ step = "mutex" => <<"bus">> \in live /\ <<"mutex">> \notin live /\ up = {}
    /\ step \in {"spi", "sdesc", "cs", "csx", "count"} \cup Access => Setup!Bus \subseteq live
    /\ up # {} => Setup!Bus \subseteq live

\* The bus counts the devices that are up, and the one whose no_os_spi_init is done.
Counted ==
    /\ step \in Access => slaves = Setup!Cardinality(up) + 1
    /\ step \notin Access \cup {"halt"} => slaves = Setup!Cardinality(up)

\* The blocks that no_os_mutex_init forgets stay allocated.
Forgotten == \A n \in 0..MaxInits : <<"tmp", n>> \in live <=> <<"tmp", n>> \in lost

SetupIInv == Setup!TypeOK /\ Coming /\ Held /\ BusHeld /\ Counted /\ Forgotten
-----------------------------------------------------------------------------
(* Blocks and devices.                                                      *)

\* Blocks of different devices differ, and the bus has none of theirs.
LEMMA BlockFacts ==
    /\ \A k, d, e : <<k, d>> \in Setup!Own(e) <=> k \in Kinds /\ d = e
    /\ \A K, k, d : <<k, d>> \in Setup!Blocks(K) <=> k \in K /\ d = dev
    /\ \A k, d : <<k, d>> \notin Setup!Bus
    /\ \A K : <<"bus">> \notin Setup!Blocks(K) /\ <<"mutex">> \notin Setup!Blocks(K)
    /\ \A e : <<"bus">> \notin Setup!Own(e) /\ <<"mutex">> \notin Setup!Own(e)
    /\ Setup!Bus = {<<"bus">>, <<"mutex">>} /\ <<"bus">> # <<"mutex">>
    /\ \A e : \A x \in Setup!Own(e) : \E k \in Kinds : x = <<k, e>>
    /\ "tmp" \notin Kinds /\ \A x \in Setup!Tmps : \E n \in 0..MaxInits : x = <<"tmp", n>>
BY DEF Kinds, Setup!Allocs, Setup!Own, Setup!Blocks, Setup!Bus, Setup!Tmps

\* Each step that succeeds adds the block it took, and goes on to a step that
\* accounts for it.
LEMMA StepTakes ==
    /\ \A s \in Kinds : Setup!After[s] \in Steps /\ Taken[Setup!After[s]] = Taken[s] \cup {s}
    /\ Setup!After["bus"] = "mutex" /\ Setup!After["mutex"] = "spi"
    /\ Setup!After["count"] = "mac" /\ Setup!After["mac"] = "phy"
    /\ Setup!After["phy"] = "check" /\ Setup!After["check"] = "idle"
    /\ \A s \in {"mutex", "spi", "bus"} : Taken[s] = {"desc", "rst", "rstx"}
    /\ \A s \in {"count"} \cup Access : Taken[s] = Kinds
<1>1. ASSUME NEW s \in Kinds
      PROVE  Setup!After[s] \in Steps /\ Taken[Setup!After[s]] = Taken[s] \cup {s}
  <2>1. s = "desc" \/ s = "rst" \/ s = "rstx" \/ s = "spi" \/ s = "sdesc" \/ s = "cs" \/ s = "csx"
    BY DEF Kinds, Setup!Allocs
  <2>2. CASE s = "desc"
    BY <2>2 DEF Setup!After, Taken, Steps, Kinds, Setup!Allocs
  <2>3. CASE s = "rst"
    BY <2>3 DEF Setup!After, Taken, Steps, Kinds, Setup!Allocs
  <2>4. CASE s = "rstx"
    BY <2>4 DEF Setup!After, Taken, Steps, Kinds, Setup!Allocs
  <2>5. CASE s = "spi"
    BY <2>5 DEF Setup!After, Taken, Steps, Kinds, Setup!Allocs
  <2>6. CASE s = "sdesc"
    BY <2>6 DEF Setup!After, Taken, Steps, Kinds, Setup!Allocs
  <2>7. CASE s = "cs"
    BY <2>7 DEF Setup!After, Taken, Steps, Kinds, Setup!Allocs
  <2>8. CASE s = "csx"
    BY <2>8 DEF Setup!After, Taken, Steps, Kinds, Setup!Allocs
  <2> QED
    BY <2>1, <2>2, <2>3, <2>4, <2>5, <2>6, <2>7, <2>8
<1>2. /\ Setup!After["bus"] = "mutex" /\ Setup!After["mutex"] = "spi"
      /\ Setup!After["count"] = "mac" /\ Setup!After["mac"] = "phy"
      /\ Setup!After["phy"] = "check" /\ Setup!After["check"] = "idle"
  BY DEF Setup!After
<1>3. \A s \in {"mutex", "spi", "bus"} : Taken[s] = {"desc", "rst", "rstx"}
  BY DEF Taken
<1>4. \A s \in {"count"} \cup Access : Taken[s] = Kinds
  BY DEF Taken, Access, Setup!Access
<1> QED
  BY <1>1, <1>2, <1>3, <1>4

\* What the error labels give back covers what was taken, and has nothing of
\* other devices or of the bus.
LEMMA UndoCovers ==
    ASSUME NEW s \in Kinds \cup {"bus"} \cup Access
    PROVE  /\ \A k \in Taken[s] : <<k, dev>> \in Setup!Undo[s]
           /\ \A k, d : <<k, d>> \in Setup!Undo[s] => d = dev
           /\ <<"bus">> \notin Setup!Undo[s] /\ <<"mutex">> \notin Setup!Undo[s]
           /\ \A n : <<"tmp", n>> \notin Setup!Undo[s]
<1> USE DEF Setup!Undo, Taken, Setup!FreeDesc, Setup!FreeRst, Setup!FreeSpi, Setup!SpiError,
            Setup!SpiUndone, Setup!Blocks, Kinds, Setup!Allocs, Access, Setup!Access
<1>1. CASE s = "desc"
  BY <1>1
<1>2. CASE s = "rst"
  BY <1>2
<1>3. CASE s = "rstx"
  BY <1>3
<1>4. CASE s \in {"bus", "spi"}
  BY <1>4
<1>5. CASE s = "sdesc"
  BY <1>5
<1>6. CASE s = "cs"
  BY <1>6
<1>7. CASE s = "csx"
  BY <1>7
<1>8. CASE s \in {"mac", "phy", "check"}
  BY <1>8
<1> QED
  BY <1>1, <1>2, <1>3, <1>4, <1>5, <1>6, <1>7, <1>8

\* The sets of the driver are those of the library's theorems.
LEMMA SameSets ==
    \A S : (Setup!IsFiniteSet(S) <=> IsFiniteSet(S)) /\ Setup!Cardinality(S) = Cardinality(S)
<1>1. \A S : Setup!IsFiniteSet(S) <=> IsFiniteSet(S)
  BY DEF Setup!IsFiniteSet, IsFiniteSet
<1>2. \A S : Setup!Cardinality(S) = Cardinality(S)
  BY DEF Setup!Cardinality, Cardinality
<1> QED
  BY <1>1, <1>2

\* Counting a set of devices.
LEMMA DeviceCards ==
    ASSUME NEW S, S \subseteq Devs
    PROVE  /\ Setup!Cardinality(S) \in Nat /\ Setup!Cardinality(Devs) \in Nat
           /\ Setup!Cardinality(S) <= Setup!Cardinality(Devs)
           /\ Setup!Cardinality(S) = 0 <=> S = {}
           /\ \A d \in Devs \ S : /\ Setup!Cardinality(S \cup {d}) = Setup!Cardinality(S) + 1
                                  /\ Setup!Cardinality(S) + 1 <= Setup!Cardinality(Devs)
           /\ \A d \in S : Setup!Cardinality(S \ {d}) = Setup!Cardinality(S) - 1
<1>1. IsFiniteSet(Devs)
  BY DriverAssumption, SameSets DEF Setup!InitAssumption
<1>2. \A T \in SUBSET Devs : IsFiniteSet(T) /\ Cardinality(T) <= Cardinality(Devs)
  BY <1>1, FS_Subset
<1>3. IsFiniteSet(S) /\ Cardinality(S) <= Cardinality(Devs)
  BY <1>2
<1>4. Cardinality(S) \in Nat /\ Cardinality(Devs) \in Nat
  BY <1>1, <1>3, FS_CardinalityType
<1>5. \A d \in Devs \ S : Cardinality(S \cup {d}) = Cardinality(S) + 1
  BY <1>3, FS_AddElement
<1>6. \A d \in Devs \ S : Cardinality(S) + 1 <= Cardinality(Devs)
  <2>1. ASSUME NEW d \in Devs \ S
        PROVE  Cardinality(S \cup {d}) <= Cardinality(Devs)
    <3>1. S \cup {d} \in SUBSET Devs
      OBVIOUS
    <3> QED
      BY <1>2, <3>1
  <2> QED
    BY <1>5, <2>1
<1>7. \A d \in S : Cardinality(S \ {d}) = Cardinality(S) - 1
  BY <1>3, FS_RemoveElement
<1>8. Cardinality(S) = 0 <=> S = {}
  BY <1>3, FS_EmptySet
<1> QED
  BY <1>3, <1>4, <1>5, <1>6, <1>7, <1>8, SameSets
-----------------------------------------------------------------------------
(* The invariant.                                                           *)

\* The blocks there can be.
LiveSet == (UNION {Setup!Own(d) : d \in Devs}) \cup Setup!Bus \cup Setup!Tmps

\* When the driver starts no device is up and nothing is allocated.
LEMMA InitSetup == Init => SetupIInv
<1> SUFFICES ASSUME Setup!Init PROVE SetupIInv
  BY DEF Init
<1>1. /\ step = "idle" /\ dev = Main /\ live = {} /\ slaves = 0 /\ up = {} /\ lost = {}
      /\ netif = "none" /\ ub = {} /\ inits = 0
  BY DEF Setup!Init
<1>2. Main \in Devs /\ MaxInits \in Nat
  BY DriverAssumption DEF Setup!InitAssumption
<1>3. Setup!Cardinality(up) = 0 /\ Setup!Cardinality(Devs) \in Nat
  BY <1>1, DeviceCards
<1>4. Setup!TypeOK
  BY <1>1, <1>2, <1>3 DEF Setup!TypeOK
<1>5. Coming /\ Held /\ BusHeld /\ Counted /\ Forgotten
  BY <1>1, <1>3 DEF Coming, Held, BusHeld, Counted, Forgotten, Steps, Kinds, Setup!Allocs,
                    Access, Setup!Access
<1> QED
  BY <1>4, <1>5 DEF SetupIInv

\* The invariant is about the variables of this part of the driver.
LEMMA SetupStutters == ASSUME SetupIInv, UNCHANGED Setup!vars PROVE SetupIInv'
<1>1. /\ step' = step /\ dev' = dev /\ live' = live /\ slaves' = slaves /\ up' = up
      /\ lost' = lost /\ netif' = netif /\ ub' = ub /\ inits' = inits
  BY DEF Setup!vars
<1> QED
  BY <1>1 DEF SetupIInv, Setup!TypeOK, Coming, Held, BusHeld, Counted, Forgotten

\* adin1110_init is called, by network_init or by another caller.
LEMMA BeginKeeps ==
    ASSUME SetupIInv, NEW d \in Devs, Setup!Begin(d), netif' \in {netif, "add"},
           UNCHANGED <<live, slaves, up, lost, ub>>
    PROVE  SetupIInv'
<1>1. /\ step = "idle" /\ d \notin up /\ inits < MaxInits /\ inits' = inits + 1
      /\ step' = "desc" /\ dev' = d
      /\ live' = live /\ slaves' = slaves /\ up' = up /\ lost' = lost /\ ub' = ub
  BY DEF Setup!Begin
<1>2. MaxInits \in Nat
  BY DriverAssumption DEF Setup!InitAssumption
<1>3. Setup!TypeOK'
  BY <1>1, <1>2 DEF SetupIInv, Setup!TypeOK, Setup!Allocs
<1>4. Coming' /\ BusHeld'
  BY <1>1 DEF SetupIInv, Coming, BusHeld, Access, Setup!Access
<1>5. Held'
  <2>1. Taken["desc"] = {} /\ "desc" # "halt" /\ "idle" \notin Steps
    BY DEF Taken, Steps, Kinds, Setup!Allocs, Access, Setup!Access
  <2> QED
    BY <1>1, <2>1 DEF SetupIInv, Held
<1>6. Counted'
  BY <1>1 DEF SetupIInv, Counted, Access, Setup!Access
<1>7. Forgotten'
  BY <1>1 DEF SetupIInv, Forgotten
<1> QED
  BY <1>3, <1>4, <1>5, <1>6, <1>7 DEF SetupIInv

\* A block is allocated for the device, or the bus's descriptor.
LEMMA AllocKeeps == ASSUME SetupIInv, Setup!Alloc PROVE SetupIInv'
<1>1. /\ step \in Kinds \cup {"bus"} /\ step' = Setup!After[step]
      /\ live' = live \cup (IF step = "bus" THEN {<<"bus">>} ELSE Setup!Blocks({step}))
      /\ dev' = dev /\ slaves' = slaves /\ up' = up /\ lost' = lost /\ netif' = netif
      /\ ub' = ub /\ inits' = inits
  BY DEF Setup!Alloc, Kinds
<1>2. step' \in Steps /\ dev \in Devs /\ dev \notin up /\ "halt" \notin Steps
  <2>1. step' \in Steps
    BY <1>1, StepTakes DEF Steps
  <2>2. dev \in Devs
    BY DEF SetupIInv, Setup!TypeOK
  <2>3. dev \notin up
    BY <1>1 DEF SetupIInv, Coming, Steps
  <2>4. "halt" \notin Steps
    BY DEF Steps, Kinds, Setup!Allocs, Access, Setup!Access
  <2> QED
    BY <2>1, <2>2, <2>3, <2>4
<1>3. step # "bus" => live' = live \cup {<<step, dev>>}
  BY <1>1 DEF Setup!Blocks
<1>4. Setup!TypeOK'
  <2>1. live' \subseteq LiveSet
    <3>1. live \subseteq LiveSet
      BY DEF SetupIInv, Setup!TypeOK, LiveSet
    <3>2. CASE step = "bus"
      <4>1. <<"bus">> \in LiveSet
        BY DEF LiveSet, Setup!Bus
      <4> QED
        BY <1>1, <3>1, <3>2, <4>1
    <3>3. CASE step # "bus"
      <4>1. step \in Kinds
        BY <1>1, <3>3
      <4>2. <<step, dev>> \in Setup!Own(dev)
        BY <4>1, BlockFacts
      <4> QED
        BY <1>2, <1>3, <3>1, <3>3, <4>2 DEF LiveSet
    <3> QED
      BY <3>2, <3>3
  <2>2. step' \in {"idle", "halt", "bus", "mutex", "count"} \cup Setup!Allocs \cup Setup!Access
    BY <1>2 DEF Steps, Kinds, Access
  <2> QED
    BY <1>1, <2>1, <2>2 DEF SetupIInv, Setup!TypeOK, LiveSet
<1>5. Coming'
  BY <1>1, <1>2 DEF Coming
<1>6. Held'
  <2> SUFFICES ASSUME NEW d \in Devs, NEW k \in Kinds
               PROVE  <<k, d>> \in live' <=> d \in up \/ (d = dev /\ k \in Taken[step'])
    BY <1>1, <1>2 DEF Held
  <2>1. <<k, d>> \in live <=> d \in up \/ (d = dev /\ k \in Taken[step])
    BY <1>1, <1>2 DEF SetupIInv, Held, Steps
  <2>2. CASE step = "bus"
    <3>1. <<k, d>> \in live' <=> <<k, d>> \in live
      BY <1>1, <2>2
    <3> QED
      BY <1>1, <2>1, <2>2, <3>1, StepTakes
  <2>3. CASE step # "bus"
    <3>1. Taken[step'] = Taken[step] \cup {step}
      BY <1>1, <2>3, StepTakes
    <3>2. <<k, d>> \in live' <=> <<k, d>> \in live \/ (k = step /\ d = dev)
      BY <1>3, <2>3
    <3> QED
      BY <2>1, <3>1, <3>2
  <2> QED
    BY <2>2, <2>3
<1>7. BusHeld'
  <2>1. CASE step = "bus"
    <3>1. step' = "mutex" /\ live' = live \cup {<<"bus">>}
      BY <1>1, <2>1, StepTakes
    <3>2. <<"bus">> \notin live /\ <<"mutex">> \notin live
      BY <2>1 DEF SetupIInv, BusHeld
    <3>3. up = {}
      BY <3>2 DEF SetupIInv, BusHeld, Setup!Bus
    <3>4. <<"bus">> \in live' /\ <<"mutex">> \notin live' /\ up' = {}
      BY <1>1, <3>1, <3>2, <3>3, BlockFacts
    <3> QED
      BY <3>1, <3>4 DEF BusHeld, Access, Setup!Access
  <2>2. CASE step # "bus"
    <3>1. /\ <<"bus">> \in live' <=> <<"bus">> \in live
          /\ <<"mutex">> \in live' <=> <<"mutex">> \in live
          /\ Setup!Bus \subseteq live => Setup!Bus \subseteq live'
      BY <1>3, <2>2
    <3>2. CASE step \in {"desc", "rst"}
      <4>1. step' \in {"rst", "rstx"}
        BY <1>1, <3>2 DEF Setup!After
      <4> QED
        BY <1>1, <3>1, <3>2, <4>1 DEF SetupIInv, BusHeld, Access, Setup!Access
    <3>3. CASE step = "rstx"
      <4>1. step' = IF <<"bus">> \in live THEN "spi" ELSE "bus"
        BY <1>1, <3>3 DEF Setup!After
      <4> QED
        BY <1>1, <3>1, <3>3, <4>1 DEF SetupIInv, BusHeld, Access, Setup!Access, Setup!Bus
    <3>4. CASE step \in {"spi", "sdesc", "cs", "csx"}
      <4>1. step' \in {"sdesc", "cs", "csx", "count"}
        BY <1>1, <3>4 DEF Setup!After
      <4> QED
        BY <1>1, <3>1, <3>4, <4>1 DEF SetupIInv, BusHeld, Access, Setup!Access
    <3> QED
      BY <1>1, <2>2, <3>2, <3>3, <3>4 DEF Kinds, Setup!Allocs
  <2> QED
    BY <2>1, <2>2
<1>8. Counted' /\ Forgotten'
  <2>1. step \notin Access \cup {"halt"} /\ step' \notin Access
    BY <1>1 DEF Kinds, Setup!Allocs, Access, Setup!Access, Setup!After
  <2>2. \A n : <<"tmp", n>> \in live' <=> <<"tmp", n>> \in live
    BY <1>1, <1>3, BlockFacts
  <2> QED
    BY <1>1, <2>1, <2>2 DEF SetupIInv, Counted, Forgotten
<1> QED
  BY <1>4, <1>5, <1>6, <1>7, <1>8 DEF SetupIInv

\* The mutex of the bus is made, or the kernel stops.
LEMMA MutexKeeps == ASSUME SetupIInv, Setup!MutexInit PROVE SetupIInv'
<1>1. /\ step = "mutex" /\ lost' \in {lost, lost \cup {<<"tmp", inits>>}}
      /\ \/ step' = "spi" /\ live' = live \cup {<<"mutex">>} \cup lost'
         \/ step' = "halt" /\ live' = live \cup lost'
      /\ dev' = dev /\ slaves' = slaves /\ up' = up /\ netif' = netif /\ ub' = ub /\ inits' = inits
  BY StepTakes DEF Setup!MutexInit
<1>2. dev \notin up /\ up = {} /\ <<"bus">> \in live
  BY <1>1 DEF SetupIInv, Coming, BusHeld, Steps
<1>3. Setup!TypeOK'
  <2>2. lost' \subseteq Setup!Tmps
    <3>1. <<"tmp", inits>> \in Setup!Tmps /\ lost \subseteq Setup!Tmps
      BY DEF SetupIInv, Setup!TypeOK, Setup!Tmps
    <3> QED
      BY <1>1, <3>1
  <2>1. live' \subseteq LiveSet
    <3>1. live \subseteq LiveSet /\ <<"mutex">> \in LiveSet /\ Setup!Tmps \subseteq LiveSet
      BY DEF SetupIInv, Setup!TypeOK, LiveSet, Setup!Bus
    <3> QED
      BY <1>1, <2>2, <3>1
  <2>3. step' \in {"idle", "halt", "bus", "mutex", "count"} \cup Setup!Allocs \cup Setup!Access
    BY <1>1 DEF Setup!Allocs
  <2> QED
    BY <1>1, <2>1, <2>2, <2>3 DEF SetupIInv, Setup!TypeOK, LiveSet
<1>8. /\ \A k \in Kinds, d \in Devs : <<k, d>> \in lost' => <<k, d>> \in live
      /\ <<"bus">> \notin lost' /\ <<"mutex">> \notin lost'
  <2>1. lost' \subseteq Setup!Tmps
    BY <1>3 DEF Setup!TypeOK
  <2> QED
    BY <2>1, BlockFacts DEF Setup!Tmps
<1>4. Coming'
  BY <1>1, <1>2 DEF Coming
<1>5. Held'
  <2> SUFFICES ASSUME step' = "spi", NEW d \in Devs, NEW k \in Kinds
               PROVE  <<k, d>> \in live' <=> d \in up \/ (d = dev /\ k \in Taken["spi"])
    BY <1>1 DEF Held, Steps, Kinds, Setup!Allocs
  <2>1. <<k, d>> \in live <=> d \in up \/ (d = dev /\ k \in Taken["mutex"])
    BY <1>1 DEF SetupIInv, Held, Steps
  <2>2. <<k, d>> \in live' <=> <<k, d>> \in live
    BY <1>1, <1>8
  <2> QED
    BY <2>1, <2>2, StepTakes
<1>6. BusHeld'
  BY <1>1, <1>2, <1>8 DEF BusHeld, Access, Setup!Access, Setup!Bus
<1>7. Counted'
  BY <1>1 DEF SetupIInv, Counted, Access, Setup!Access
<1>9. Forgotten'
  <2> SUFFICES ASSUME NEW n \in 0..MaxInits
               PROVE  <<"tmp", n>> \in live' <=> <<"tmp", n>> \in lost'
    BY DEF Forgotten
  <2>1. <<"tmp", n>> \in live' <=> <<"tmp", n>> \in live \/ <<"tmp", n>> \in lost'
    BY <1>1
  <2>2. <<"tmp", n>> \in live => <<"tmp", n>> \in lost'
    BY <1>1 DEF SetupIInv, Forgotten
  <2> QED
    BY <2>1, <2>2
<1> QED
  BY <1>3, <1>4, <1>5, <1>6, <1>7, <1>9 DEF SetupIInv

\* The bus counts the device.
LEMMA CountKeeps == ASSUME SetupIInv, Setup!Count PROVE SetupIInv'
<1>1. /\ step = "count" /\ step' = "mac" /\ slaves' = slaves + 1
      /\ dev' = dev /\ live' = live /\ up' = up /\ lost' = lost /\ netif' = netif
      /\ ub' = ub /\ inits' = inits
  BY StepTakes DEF Setup!Count
<1>2. dev \in Devs /\ dev \notin up /\ up \subseteq Devs
  BY <1>1 DEF SetupIInv, Coming, Steps, Setup!TypeOK
<1>3. slaves = Setup!Cardinality(up)
  BY <1>1 DEF SetupIInv, Counted, Access, Setup!Access
<1>4. Setup!TypeOK'
  <2>1. /\ Setup!Cardinality(up) \in Nat /\ Setup!Cardinality(Devs) \in Nat
        /\ Setup!Cardinality(up) + 1 <= Setup!Cardinality(Devs)
    BY <1>2, DeviceCards
  <2>2. slaves' \in 0..Setup!Cardinality(Devs)
    BY <1>1, <1>3, <2>1
  <2> QED
    BY <1>1, <2>2 DEF SetupIInv, Setup!TypeOK, Setup!Access
<1>5. Coming' /\ BusHeld' /\ Forgotten'
  BY <1>1, <1>2 DEF SetupIInv, Coming, BusHeld, Forgotten, Access, Setup!Access
<1>6. Held'
  <2>1. Taken["mac"] = Taken["count"] /\ {"mac", "count"} \subseteq Steps
    BY StepTakes DEF Steps, Access, Setup!Access
  <2> QED
    BY <1>1, <2>1 DEF SetupIInv, Held
<1>7. Counted'
  BY <1>1, <1>3 DEF Counted, Access, Setup!Access
<1> QED
  BY <1>4, <1>5, <1>6, <1>7 DEF SetupIInv

\* A step fails and the error labels run.
LEMMA FailKeeps == ASSUME SetupIInv, Setup!Fail PROVE SetupIInv'
<1> DEFINE freed == IF step \in Access THEN Setup!BusFreed ELSE {}
<1>1. /\ step \in Kinds \cup {"bus"} \cup Access
      /\ live' = live \ (Setup!Undo[step] \cup freed)
      /\ slaves' = IF step \in Access THEN Setup!SlavesLeft ELSE slaves
      /\ step' \in {"idle", "halt"}
      /\ dev' = dev /\ up' = up /\ lost' = lost /\ inits' = inits
  BY DEF Setup!Fail, Setup!Releases, Access, Kinds
<1>2. netif' \in {netif, "down"} /\ ub' \subseteq ub \cup {"free", "sdesc", "desc"}
  BY DEF Setup!Fail, Setup!Failed, Setup!Wild
<1>3. dev \in Devs /\ dev \notin up /\ up \subseteq Devs
  BY <1>1 DEF SetupIInv, Coming, Steps, Setup!TypeOK
<1>4. step \in Access => slaves = Setup!Cardinality(up) + 1
  BY DEF SetupIInv, Counted
<1>5. step \notin Access => slaves = Setup!Cardinality(up)
  BY <1>1 DEF SetupIInv, Counted, Kinds, Setup!Allocs
<1>6. slaves' = Setup!Cardinality(up)
  <2>1. step \in Access => Setup!SlavesLeft = Setup!Cardinality(up)
    BY <1>3, <1>4, DeviceCards DEF Setup!SlavesLeft
  <2> QED
    BY <1>1, <1>5, <2>1
<1>7. freed = {} \/ (freed = Setup!Bus /\ up = {} /\ step \in Access)
  <2>1. step \in Access => Setup!SlavesLeft = Setup!Cardinality(up)
    BY <1>3, <1>4, DeviceCards DEF Setup!SlavesLeft
  <2> QED
    BY <1>3, <2>1, DeviceCards DEF Setup!BusFreed
<1> HIDE DEF freed
<1>8. Setup!TypeOK'
  <2>1. live' \subseteq LiveSet
    BY <1>1 DEF SetupIInv, Setup!TypeOK, LiveSet
  <2>2. slaves' \in 0..Setup!Cardinality(Devs)
    BY <1>3, <1>6, DeviceCards
  <2>3. netif' \in {"none", "add", "up", "down"} /\ ub' \subseteq {"free", "sdesc", "desc"}
    BY <1>2 DEF SetupIInv, Setup!TypeOK
  <2> QED
    BY <1>1, <2>1, <2>2, <2>3 DEF SetupIInv, Setup!TypeOK, LiveSet
<1>9. "idle" \notin Steps /\ "halt" \notin Steps
  BY DEF Steps, Kinds, Setup!Allocs, Access, Setup!Access
<1>10. Coming'
  BY <1>1, <1>9 DEF Coming
<1>11. Held'
  <2> SUFFICES ASSUME NEW d \in Devs, NEW k \in Kinds
               PROVE  <<k, d>> \in live' <=> d \in up
    BY <1>1, <1>9 DEF Held
  <2>1. <<k, d>> \in live <=> d \in up \/ (d = dev /\ k \in Taken[step])
    BY <1>1, <1>9 DEF SetupIInv, Held, Steps
  <2>2. <<k, d>> \notin freed
    BY <1>7, BlockFacts
  <2>3. /\ k \in Taken[step] => <<k, dev>> \in Setup!Undo[step]
        /\ <<k, d>> \in Setup!Undo[step] => d = dev
    BY <1>1, UndoCovers
  <2> QED
    BY <1>1, <1>3, <2>1, <2>2, <2>3
<1>12. BusHeld'
  <2>1. <<"bus">> \notin Setup!Undo[step] /\ <<"mutex">> \notin Setup!Undo[step]
    BY <1>1, UndoCovers
  <2>2. <<"bus">> \in live <=> <<"mutex">> \in live
    BY <1>1 DEF SetupIInv, BusHeld, Kinds, Setup!Allocs, Setup!Bus
  <2>3. up # {} => Setup!Bus \subseteq live
    BY DEF SetupIInv, BusHeld
  <2>4. /\ <<"bus">> \in live' <=> <<"mutex">> \in live'
        /\ up # {} => Setup!Bus \subseteq live'
    BY <1>1, <1>7, <2>1, <2>2, <2>3 DEF Setup!Bus
  <2> QED
    BY <1>1, <2>4 DEF BusHeld, Access, Setup!Access
<1>13. Counted' /\ Forgotten'
  <2>1. \A n : <<"tmp", n>> \notin Setup!Undo[step] \cup freed
    BY <1>1, <1>7, UndoCovers, BlockFacts
  <2>2. \A n : <<"tmp", n>> \in live' <=> <<"tmp", n>> \in live
    BY <1>1, <2>1
  <2> QED
    BY <1>1, <1>6, <2>2 DEF SetupIInv, Counted, Forgotten, Access, Setup!Access
<1> QED
  BY <1>8, <1>10, <1>11, <1>12, <1>13 DEF SetupIInv

\* A group of register accesses succeeds; after the last the device is up.
LEMMA AccessedKeeps == ASSUME SetupIInv, Setup!Accessed PROVE SetupIInv'
<1>1. /\ step \in Access /\ step' = Setup!After[step]
      /\ up' = (IF step = "check" THEN up \cup {dev} ELSE up)
      /\ netif' \in {netif, "up"}
      /\ dev' = dev /\ live' = live /\ slaves' = slaves /\ lost' = lost /\ ub' = ub
      /\ inits' = inits
  BY DEF Setup!Accessed, Access
<1>2. dev \in Devs /\ dev \notin up /\ up \subseteq Devs
  BY <1>1 DEF SetupIInv, Coming, Steps, Setup!TypeOK
<1>3. slaves = Setup!Cardinality(up) + 1
  BY <1>1 DEF SetupIInv, Counted
<1>4. \/ step = "check" /\ step' = "idle" /\ up' = up \cup {dev}
      \/ step # "check" /\ step' \in Access /\ up' = up
  BY <1>1, StepTakes DEF Access, Setup!Access
<1>5. Setup!TypeOK'
  BY <1>1, <1>2, <1>4 DEF SetupIInv, Setup!TypeOK, Access, Setup!Access
<1>6. {"idle", "halt"} \cap Steps = {} /\ Access \subseteq Steps
  BY DEF Steps, Kinds, Setup!Allocs, Access, Setup!Access
<1>7. Coming' /\ Forgotten'
  BY <1>1, <1>2, <1>4, <1>6 DEF SetupIInv, Coming, Forgotten, Access, Setup!Access
<1>8. Held'
  <2>1. step \in Steps /\ Taken[step] = Kinds
    BY <1>1, <1>6, StepTakes
  <2>2. step' \in Access => Taken[step'] = Kinds
    BY StepTakes
  <2>3. \A d \in Devs, k \in Kinds : <<k, d>> \in live <=> d \in up \/ d = dev
    BY <1>6, <2>1 DEF SetupIInv, Held
  <2>4. CASE step' = "idle"
    BY <1>1, <1>4, <1>6, <2>3, <2>4 DEF Held
  <2>5. CASE step' \in Access
    <3>1. up' = up /\ step' \in Steps
      BY <1>4, <1>6, <2>5
    <3> QED
      BY <1>1, <2>2, <2>3, <2>5, <3>1 DEF Held
  <2> QED
    BY <1>4, <2>4, <2>5
<1>9. BusHeld'
  <2>1. Setup!Bus \subseteq live
    BY <1>1 DEF SetupIInv, BusHeld
  <2> QED
    BY <1>1, <1>4, <2>1 DEF BusHeld, Access, Setup!Access, Setup!Bus
<1>10. Counted'
  <2>1. CASE step = "check"
    <3>1. Setup!Cardinality(up') = Setup!Cardinality(up) + 1
      BY <1>2, <1>4, <2>1, DeviceCards
    <3> QED
      BY <1>1, <1>3, <1>4, <2>1, <3>1 DEF Counted, Access, Setup!Access
  <2>2. CASE step # "check"
    BY <1>1, <1>3, <1>4, <2>2 DEF Counted
  <2> QED
    BY <2>1, <2>2
<1> QED
  BY <1>5, <1>7, <1>8, <1>9, <1>10 DEF SetupIInv

\* adin1110_remove releases the bus exactly when it removes the last device.
LEMMA RemoveReleases ==
    ASSUME SetupIInv, NEW d \in Devs, Setup!Remove(d)
    PROVE  /\ up' = up \ {d} /\ slaves' = Setup!Cardinality(up')
           /\ live' = live \ (Setup!Own(d) \cup IF up' = {} THEN Setup!Bus ELSE {})
<1>1. /\ step = "idle" /\ d \in up /\ up' = up \ {d}
      /\ live' = live \ (Setup!Own(d) \cup Setup!BusFreed) /\ slaves' = Setup!SlavesLeft
  BY DEF Setup!Remove
<1>2. up \subseteq Devs /\ slaves = Setup!Cardinality(up)
  BY <1>1 DEF SetupIInv, Setup!TypeOK, Counted, Access, Setup!Access
<1>3. Setup!Cardinality(up) \in Nat /\ Setup!Cardinality(up) # 0
      /\ Setup!Cardinality(up \ {d}) = Setup!Cardinality(up) - 1
  BY <1>1, <1>2, DeviceCards
<1>4. Setup!SlavesLeft = Setup!Cardinality(up \ {d})
  BY <1>2, <1>3 DEF Setup!SlavesLeft
<1>5. Setup!Cardinality(up \ {d}) = 0 <=> up \ {d} = {}
  <2>1. up \ {d} \subseteq Devs
    BY <1>2
  <2> QED
    BY <2>1, DeviceCards
<1> QED
  BY <1>1, <1>4, <1>5 DEF Setup!BusFreed

\* adin1110_remove gives back the blocks of its device, and those of the bus with the last.
LEMMA RemoveKeeps == ASSUME SetupIInv, NEW d \in Devs, Setup!Remove(d) PROVE SetupIInv'
<1> DEFINE freed == IF up' = {} THEN Setup!Bus ELSE {}
<1>1. /\ step = "idle" /\ d \in up /\ step' = step /\ dev' = dev /\ lost' = lost
      /\ netif' = netif /\ ub' = ub /\ inits' = inits
  BY DEF Setup!Remove
<1>2. /\ up' = up \ {d} /\ slaves' = Setup!Cardinality(up')
      /\ live' = live \ (Setup!Own(d) \cup freed)
  BY RemoveReleases
<1>3. freed = {} \/ (freed = Setup!Bus /\ up' = {})
  OBVIOUS
<1> HIDE DEF freed
<1>4. "idle" \notin Steps /\ "idle" \notin Access
  BY DEF Steps, Kinds, Setup!Allocs, Access, Setup!Access
<1>5. Setup!TypeOK'
  <2>1. up' \subseteq Devs
    BY <1>2 DEF SetupIInv, Setup!TypeOK
  <2>2. slaves' \in 0..Setup!Cardinality(Devs)
    BY <1>2, <2>1, DeviceCards
  <2> QED
    BY <1>1, <1>2, <2>1, <2>2 DEF SetupIInv, Setup!TypeOK
<1>6. Coming' /\ Counted' /\ Forgotten'
  <2>1. \A n : <<"tmp", n>> \notin Setup!Own(d) \cup freed
    BY <1>3, BlockFacts
  <2>2. \A n : <<"tmp", n>> \in live' <=> <<"tmp", n>> \in live
    BY <1>2, <2>1
  <2> QED
    BY <1>1, <1>2, <1>4, <2>2 DEF SetupIInv, Coming, Counted, Forgotten
<1>7. Held'
  <2> SUFFICES ASSUME NEW e \in Devs, NEW k \in Kinds
               PROVE  <<k, e>> \in live' <=> e \in up'
    BY <1>1, <1>4 DEF Held
  <2>1. <<k, e>> \in live <=> e \in up
    BY <1>1, <1>4 DEF SetupIInv, Held
  <2>2. <<k, e>> \notin freed /\ (<<k, e>> \in Setup!Own(d) <=> e = d)
    BY <1>3, BlockFacts
  <2> QED
    BY <1>2, <2>1, <2>2
<1>8. BusHeld'
  <2>1. <<"bus">> \notin Setup!Own(d) /\ <<"mutex">> \notin Setup!Own(d)
    BY BlockFacts
  <2>2. Setup!Bus \subseteq live
    BY <1>1 DEF SetupIInv, BusHeld
  <2>3. /\ <<"bus">> \in live' <=> <<"mutex">> \in live'
        /\ up' # {} => Setup!Bus \subseteq live'
    BY <1>2, <1>3, <2>1, <2>2 DEF Setup!Bus
  <2> QED
    BY <1>1, <2>3 DEF BusHeld, Access, Setup!Access
<1> QED
  BY <1>5, <1>6, <1>7, <1>8 DEF SetupIInv

\* Every step of the driver keeps the invariant.
LEMMA NextSetup == ASSUME SetupIInv, Setup!Next PROVE SetupIInv'
<1>1. ASSUME NEW d \in Devs, Setup!InitCall(d) PROVE SetupIInv'
  BY <1>1, BeginKeeps DEF Setup!InitCall
<1>2. ASSUME NEW d \in Devs, Setup!Remove(d) PROVE SetupIInv'
  BY <1>2, RemoveKeeps
<1>3. CASE Setup!NetworkInit
  <2>1. Main \in Devs
    BY DriverAssumption DEF Setup!InitAssumption
  <2> QED
    BY <1>3, <2>1, BeginKeeps DEF Setup!NetworkInit
<1>4. CASE Setup!Poll
  <2>1. /\ step = "idle" /\ step' \in {"idle", "halt"} /\ ub' \subseteq ub \cup {"desc"}
        /\ dev' = dev /\ live' = live /\ slaves' = slaves /\ up' = up /\ lost' = lost
        /\ netif' = netif /\ inits' = inits
    BY <1>4 DEF Setup!Poll
  <2>2. {"idle", "halt"} \cap Steps = {} /\ {"idle", "halt"} \cap Access = {}
    BY DEF Steps, Kinds, Setup!Allocs, Access, Setup!Access
  <2>3. Setup!TypeOK'
    BY <2>1 DEF SetupIInv, Setup!TypeOK
  <2>4. Coming' /\ Held' /\ Counted' /\ Forgotten'
    BY <2>1, <2>2 DEF SetupIInv, Coming, Held, Counted, Forgotten
  <2>5. BusHeld'
    BY <2>1, <2>2 DEF SetupIInv, BusHeld
  <2> QED
    BY <2>3, <2>4, <2>5 DEF SetupIInv
<1>5. CASE Setup!Halted
  BY <1>5, SetupStutters DEF Setup!Halted
<1> QED
  BY <1>1, <1>2, <1>3, <1>4, <1>5, AllocKeeps, MutexKeeps, CountKeeps, FailKeeps, AccessedKeeps
  DEF Setup!Next

\* A step of the driver is one of this part, or leaves its variables alone.
LEMMA SetupSteps == [Next]_vars => [Setup!Next]_(Setup!vars)
BY DEF Next, vars, setupVars, Setup!vars

\* The invariant gives what is promised of the initialisation.
LEMMA InvOfSetup == SetupIInv => SetupInv
<1> SUFFICES ASSUME SetupIInv PROVE Setup!SetupInv
  BY DEF SetupInv
<1>1. "idle" \notin Steps /\ "idle" \notin Access
  BY DEF Steps, Kinds, Setup!Allocs, Access, Setup!Access
<1>2. ASSUME step = "idle" PROVE Setup!Balanced
  <2> DEFINE b == IF <<"bus">> \in live THEN Setup!Bus ELSE {}
  <2>1. live \subseteq LiveSet /\ up \subseteq Devs /\ lost \subseteq live
    <3>1. live \subseteq LiveSet /\ up \subseteq Devs /\ lost \subseteq Setup!Tmps
      BY DEF SetupIInv, Setup!TypeOK, LiveSet
    <3> QED
      BY <3>1, BlockFacts DEF SetupIInv, Forgotten
  <2>2. \A d \in Devs, k \in Kinds : <<k, d>> \in live <=> d \in up
    BY <1>1, <1>2 DEF SetupIInv, Held
  <2>3. <<"bus">> \in live <=> <<"mutex">> \in live
    BY <1>2 DEF SetupIInv, BusHeld
  <2>4. ASSUME NEW x \in live PROVE x \in (UNION {Setup!Own(d) : d \in up}) \cup lost \cup b
    <3>1. CASE x \in Setup!Bus
      BY <2>3, <2>4, <3>1 DEF Setup!Bus
    <3>3. CASE x \in Setup!Tmps
      BY <2>4, <3>3, BlockFacts DEF SetupIInv, Forgotten
    <3>2. CASE x \notin Setup!Bus /\ x \notin Setup!Tmps
      <4>1. PICK d \in Devs : x \in Setup!Own(d)
        BY <2>1, <2>4, <3>2 DEF LiveSet
      <4>2. PICK k \in Kinds : x = <<k, d>>
        BY <4>1, BlockFacts
      <4>3. d \in up
        BY <2>2, <2>4, <4>2
      <4> QED
        BY <4>1, <4>3
    <3> QED
      BY <3>1, <3>2, <3>3
  <2>5. ASSUME NEW x \in (UNION {Setup!Own(d) : d \in up}) \cup lost \cup b PROVE x \in live
    <3>1. CASE x \in b
      BY <2>3, <3>1 DEF Setup!Bus
    <3>3. CASE x \in lost
      BY <2>1, <3>3
    <3>2. CASE x \notin b /\ x \notin lost
      <4>1. PICK d \in up : x \in Setup!Own(d)
        BY <2>5, <3>2
      <4>2. PICK k \in Kinds : x = <<k, d>>
        BY <4>1, BlockFacts
      <4> QED
        BY <2>1, <2>2, <4>2
    <3> QED
      BY <3>1, <3>2, <3>3
  <2>6. live = (UNION {Setup!Own(d) : d \in up}) \cup lost \cup b
    BY <2>4, <2>5
  <2>7. b \in {{}, Setup!Bus}
    OBVIOUS
  <2> QED
    BY <2>6, <2>7 DEF Setup!Balanced
<1>3. Setup!BusKept
  BY <1>1 DEF SetupIInv, BusHeld, Counted, Setup!BusKept
<1> QED
  BY <1>2, <1>3 DEF SetupIInv, Setup!SetupInv, Setup!Balanced

\* Whichever step of adin1110_init fails, for whichever device, what it had taken is
\* given back and nothing else; a device that is up has a bus, which counts it
\* (adin1110.c:921-928, stm32_spi.c:253-262, no_os_spi.c:75, 138-139).
THEOREM DevicesBalanced == FairSpec => []SetupInv
<1>1. SetupIInv /\ [Next]_vars => SetupIInv'
  BY NextSetup, SetupStutters, SetupSteps
<1> QED
  BY InitSetup, <1>1, InvOfSetup, PTL DEF FairSpec

\* With the last device the bus goes, and what stays allocated is exactly the block that
\* no_os_mutex_init has lost for each bus there was and that found memory
\* (adin1110.c:936-956, no_os_spi.c:133-149, freertos_mutex.c:47).
THEOREM OnlyMutexBlocksLeft == FairSpec => RemovedClean
<1>1. SetupIInv /\ [Next]_vars => SetupIInv'
  BY NextSetup, SetupStutters, SetupSteps
<1>2. ASSUME SetupIInv, Setup!Next, NEW d \in Devs, d \in up, up' = {} PROVE live' = lost'
  <2>1. Setup!Remove(d)
    <3>1. \A e \in Devs : Setup!Remove(e) => e \in up /\ up' = up \ {e}
      BY DEF Setup!Remove
    <3>2. up' # {} \/ \E e \in Devs : Setup!Remove(e)
      BY <1>2 DEF Setup!Next, Setup!InitCall, Setup!Begin, Setup!Alloc, Setup!MutexInit,
                  Setup!Count, Setup!Fail, Setup!Accessed, Setup!NetworkInit, Setup!Poll,
                  Setup!Halted, Setup!vars
    <3>3. PICK e \in Devs : Setup!Remove(e)
      BY <1>2, <3>2
    <3>4. e = d
      BY <1>2, <3>1, <3>3
    <3> QED
      BY <3>3, <3>4
  <2>2. live' = live \ (Setup!Own(d) \cup Setup!Bus)
    BY <1>2, <2>1, RemoveReleases
  <2>3. step = "idle" /\ up = {d}
    <3>1. step = "idle" /\ up' = up \ {d}
      BY <2>1 DEF Setup!Remove
    <3> QED
      BY <1>2, <3>1
  <2>4. \A e \in Devs, k \in Kinds : <<k, e>> \in live <=> e = d
    <3>1. "idle" \notin Steps
      BY DEF Steps, Kinds, Setup!Allocs, Access, Setup!Access
    <3> QED
      BY <1>2, <2>3, <3>1 DEF SetupIInv, Held
  <2>5. ASSUME NEW x \in live PROVE x \in Setup!Own(d) \cup Setup!Bus \cup lost
    <3>1. CASE x \in Setup!Bus
      BY <3>1
    <3>3. CASE x \in Setup!Tmps
      BY <1>2, <2>5, <3>3, BlockFacts DEF SetupIInv, Forgotten
    <3>2. CASE x \notin Setup!Bus /\ x \notin Setup!Tmps
      <4>1. PICK e \in Devs : x \in Setup!Own(e)
        BY <1>2, <2>5, <3>2 DEF SetupIInv, Setup!TypeOK
      <4>2. PICK k \in Kinds : x = <<k, e>>
        BY <4>1, BlockFacts
      <4> QED
        BY <2>4, <2>5, <4>1, <4>2
    <3> QED
      BY <3>1, <3>2, <3>3
  <2>6. lost' = lost
    BY <2>1 DEF Setup!Remove
  <2>7. ASSUME NEW x \in lost PROVE x \in live /\ x \notin Setup!Own(d) \cup Setup!Bus
    <3>1. x \in Setup!Tmps
      BY <1>2, <2>7 DEF SetupIInv, Setup!TypeOK
    <3> QED
      BY <1>2, <2>7, <3>1, BlockFacts DEF SetupIInv, Forgotten
  <2> QED
    BY <2>2, <2>5, <2>6, <2>7
<1>3. SetupIInv /\ [Next]_vars
        => [\A d \in Devs : d \in up /\ up' = {} => live' = lost']_(Setup!vars)
  BY <1>2, SetupSteps
<1> QED
  BY InitSetup, <1>1, <1>3, PTL DEF FairSpec, RemovedClean, Setup!RemovedClean
-----------------------------------------------------------------------------
(* Access to the PHY. The invariant follows a call through its commands.    *)
(* While no access was aborted a command is where the call wrote it, to be   *)
(* carried out or carried out (Addressed, Answered); while none failed       *)
(* either, nothing of an earlier call is left for the device to carry out    *)
(* (Quiet, Effect). A failed call may leave commands behind that are carried *)
(* out in the middle of the next: what the end of the power-down needs must  *)
(* survive that (Ended).                                                     *)

C45 == {"read_c45", "write_c45"}
Reading == {"read", "read_c45"}

\* The call has given its address command, seen it done, given its data command.
AddrGiven == mdio # Phy!Idle /\ mdio.op \in C45 /\ mdio.k >= 2
AddrDone == mdio # Phy!Idle /\ mdio.op \in C45 /\ mdio.k >= (IF mdio.op = "read_c45" THEN 3 ELSE 4)
DataGiven ==
    /\ mdio # Phy!Idle
    /\ mdio.k >= CASE mdio.op = "read_c45" -> 4 [] mdio.op = "write_c45" -> 3 [] OTHER -> 2

\* Where a call gives its data command.
Port == IF mdio.op \in C45 THEN 1 ELSE 0

\* Calls stay inside their programs, and setup_phy is about one register.
Shape ==
    /\ mdio # Phy!Idle => /\ mdio.k \in 1..Len(Phy!Program(mdio.op))
                          /\ mdio.setup <=> mdio.reg = Pd
                          /\ mdio.setup => mdio.op \in C45 /\ mdio.val = 0
    /\ acc[1].cmd # "addr"
    /\ \A i \in 0..1 : acc[i].done => ~acc[i].busy

\* The address command of a clause 45 call is not overtaken.
Addressed == AddrGiven /\ mdioFaults = 0 =>
    /\ acc[0].cmd = "addr" /\ acc[0].reg = mdio.reg
    /\ acc[0].busy \/ (acc[0].done /\ latch = mdio.reg)
    /\ AddrDone => acc[0].done

\* The data command of a call is given, or carried out; what it reads by clause 45 is
\* what the register holds.
Answered == DataGiven /\ mdioFaults = 0 =>
    /\ acc[Port].cmd = IF mdio.op \in Reading THEN "rd" ELSE "wr"
    /\ acc[Port].reg = mdio.reg
    /\ acc[Port].busy \/ acc[Port].done
    /\ mdio.op \notin Reading /\ acc[Port].busy => acc[Port].val = mdio.val
    /\ mdio.op = "read_c45" /\ acc[1].done => acc[1].val = phy[mdio.reg]

\* Between calls nothing is left to be carried out, and during a call only its own.
Quiet == Phy!Clean =>
    /\ acc[0].busy => mdio # Phy!Idle /\ mdio.k >= 2
    /\ acc[1].busy => DataGiven /\ mdio.op \in C45

\* The registers are as the calls left them, and the call under way changes its own when
\* its data command is carried out.
Written == DataGiven /\ mdio.op \notin Reading /\ acc[Port].done
Effect == Phy!Clean =>
    /\ \A r \in Regs \ {Pd} :
          phy[r] = IF Written /\ r = mdio.reg THEN mdio.val ELSE meant[r]
    /\ mdio # Phy!Idle /\ mdio.op = "read" /\ DataGiven /\ acc[0].done => acc[0].val = phy[mdio.reg]

\* setup_phy ends with nothing left to be carried out and the power-down over.
Ended == mdio = Phy!Idle /\ mdioFaults = 0 /\ ~got.err /\ got.setup =>
    /\ ~acc[0].busy /\ ~acc[1].busy /\ phy[Pd] # 1

PhyIInv ==
    /\ Phy!TypeOK /\ Shape /\ Addressed /\ Answered /\ Quiet /\ Effect /\ Ended
    /\ Phy!ReadsFresh
-----------------------------------------------------------------------------
(* The PHY: what the types say.                                             *)

\* The register accesses of each function (adin1110.c:182-367).
LEMMA ProgramFacts ==
    /\ \A op \in {"read", "write"} :
          Len(Phy!Program(op)) = 2 /\ Phy!Program(op)[1] = "write0" /\ Phy!Program(op)[2] = "poll0"
    /\ Len(Phy!Program("read_c45")) = 4 /\ Len(Phy!Program("write_c45")) = 4
    /\ Phy!Program("read_c45")[1] = "write0" /\ Phy!Program("read_c45")[2] = "poll0"
    /\ Phy!Program("read_c45")[3] = "write1" /\ Phy!Program("read_c45")[4] = "poll1"
    /\ Phy!Program("write_c45")[1] = "write0" /\ Phy!Program("write_c45")[2] = "write1"
    /\ Phy!Program("write_c45")[3] = "poll0" /\ Phy!Program("write_c45")[4] = "poll1"
BY DEF Phy!Program

\* A call under way is at one of the steps of its function.
LEMMA CallFacts ==
    ASSUME Phy!TypeOK, Shape, mdio # Phy!Idle
    PROVE  /\ mdio \in Phy!Calls /\ mdio.op \in Phy!Ops /\ mdio.reg \in Regs /\ mdio.val \in Vals
           /\ \/ mdio.op \in {"read", "write"} /\ mdio.k = 1 /\ Phy!Step = "write0" /\ Phy!More
              \/ mdio.op \in {"read", "write"} /\ mdio.k = 2 /\ Phy!Step = "poll0" /\ ~Phy!More
              \/ mdio.op \in C45 /\ mdio.k = 1 /\ Phy!Step = "write0" /\ Phy!More
              \/ mdio.op = "read_c45" /\ mdio.k = 2 /\ Phy!Step = "poll0" /\ Phy!More
              \/ mdio.op = "read_c45" /\ mdio.k = 3 /\ Phy!Step = "write1" /\ Phy!More
              \/ mdio.op = "write_c45" /\ mdio.k = 2 /\ Phy!Step = "write1" /\ Phy!More
              \/ mdio.op = "write_c45" /\ mdio.k = 3 /\ Phy!Step = "poll0" /\ Phy!More
              \/ mdio.op \in C45 /\ mdio.k = 4 /\ Phy!Step = "poll1" /\ ~Phy!More
<1>1. /\ mdio \in Phy!Calls /\ mdio.op \in Phy!Ops /\ mdio.reg \in Regs /\ mdio.val \in Vals
      /\ mdio.k \in 1..Len(Phy!Program(mdio.op))
  BY DEF Phy!TypeOK, Shape, Phy!Calls
<1>2. CASE mdio.op \in {"read", "write"}
  <2>1. Len(Phy!Program(mdio.op)) = 2 /\ mdio.k \in 1..2
    BY <1>1, <1>2, ProgramFacts
  <2>2. mdio.k = 1 \/ mdio.k = 2
    BY <2>1
  <2> QED
    BY <1>1, <1>2, <2>1, <2>2, ProgramFacts DEF Phy!Step, Phy!More
<1>3. CASE mdio.op \in C45
  <2>1. Len(Phy!Program(mdio.op)) = 4 /\ mdio.k \in 1..4
    BY <1>1, <1>3, ProgramFacts DEF C45
  <2>2. mdio.k = 1 \/ mdio.k = 2 \/ mdio.k = 3 \/ mdio.k = 4
    BY <2>1
  <2> QED
    BY <1>1, <1>3, <2>1, <2>2, ProgramFacts DEF Phy!Step, Phy!More, C45
<1> QED
  BY <1>1, <1>2, <1>3 DEF Phy!Ops, C45

\* What MDIOACC(0) and MDIOACC(1) hold.
LEMMA AccFacts ==
    ASSUME Phy!TypeOK, NEW i \in 0..1
    PROVE  /\ acc[i] \in [cmd : Phy!Cmds, reg : Regs, val : Vals, busy : BOOLEAN, done : BOOLEAN]
           /\ acc[i].reg \in Regs /\ acc[i].val \in Vals
           /\ latch \in Regs /\ phy \in [Regs -> Vals] /\ meant \in [Regs -> Vals]
BY DEF Phy!TypeOK
-----------------------------------------------------------------------------
(* The device.                                                              *)

\* After power-up no command was given to MDIOACC and nothing was asked for.
LEMMA InitPhy == Phy!Init => PhyIInv
<1> SUFFICES ASSUME Phy!Init PROVE PhyIInv
  OBVIOUS
<1>1. /\ Pd \in Regs /\ 0 \in Vals /\ 1 \in Vals /\ MaxErr \in Nat /\ MaxFault \in Nat
  BY DriverAssumption DEF Phy!PhyAssumption
<1>2. /\ acc \in [0..1 -> [cmd : Phy!Cmds, reg : Regs, val : Vals, busy : BOOLEAN, done : BOOLEAN]]
      /\ \A i \in 0..1 : acc[i].cmd = "none" /\ ~acc[i].busy /\ ~acc[i].done
  BY <1>1 DEF Phy!Init, Phy!Cmds
<1>3. phy \in [Regs -> Vals] /\ meant = phy
  BY <1>1 DEF Phy!Init
<1>4. got \in Phy!Results /\ got.op = "idle" /\ ~got.setup
  BY <1>1 DEF Phy!Init, Phy!Results
<1>5. Phy!TypeOK
  <2>1. mdio \in Phy!Calls \cup {Phy!Idle}
    BY Zenon DEF Phy!Init
  <2>2. latch \in Regs /\ mdioErrs \in 0..MaxErr /\ mdioFaults \in 0..MaxFault
    BY <1>1 DEF Phy!Init
  <2>3. ready \in BOOLEAN
    BY Zenon DEF Phy!Init
  <2> QED
    BY <1>2, <1>3, <1>4, <2>1, <2>2, <2>3 DEF Phy!TypeOK
<1> QED
  BY <1>2, <1>3, <1>4, <1>5
     DEF Phy!Init, PhyIInv, Shape, Addressed, Answered, Quiet, Effect, Ended,
         Phy!ReadsFresh,
         AddrGiven, DataGiven, Written, Phy!Returned

\* The PHY becomes ready.
LEMMA ReadyStep == ASSUME PhyIInv, Phy!Ready PROVE PhyIInv'
<1>1. UNCHANGED <<mdio, acc, latch, phy, meant, got, mdioErrs, mdioFaults>> /\ ready' = TRUE
  BY DEF Phy!Ready
<1>2. Phy!TypeOK'
  BY <1>1 DEF PhyIInv, Phy!TypeOK
<1> QED
  BY <1>1, <1>2
     DEF PhyIInv, Shape, Addressed, Answered, Quiet, Effect, Ended,
         Phy!ReadsFresh,
         AddrGiven, AddrDone, DataGiven, Port, Written, Phy!Returned, Phy!Clean

\* What a command that is carried out changes.
LEMMA ExecuteFacts ==
    ASSUME PhyIInv, NEW i \in 0..1, Phy!Execute(i)
    PROVE  /\ acc[i].busy /\ (i = 1 => ~acc[0].busy) /\ ~acc[i].done
           /\ acc'[i].busy = FALSE /\ acc'[i].done = TRUE
           /\ acc'[i].cmd = acc[i].cmd /\ acc'[i].reg = acc[i].reg
           /\ acc'[i].val = IF acc[i].cmd = "rd" THEN phy[Phy!Target(i)] ELSE acc[i].val
           /\ \A j \in 0..1 : j # i => acc'[j] = acc[j]
           /\ Phy!TypeOK' /\ Shape'
           /\ UNCHANGED <<mdio, ready, meant, got, mdioErrs, mdioFaults>>
<1>1. Phy!TypeOK /\ Shape
  BY DEF PhyIInv
<1>2. /\ acc[i].busy /\ (i = 1 => ~acc[0].busy) /\ ~acc[i].done
      /\ UNCHANGED <<mdio, ready, meant, got, mdioErrs, mdioFaults>>
  BY <1>1 DEF Phy!Execute, Shape
<1>3. acc' = [acc EXCEPT ![i].busy = FALSE, ![i].done = TRUE,
                         ![i].val = IF acc[i].cmd = "rd" THEN phy[Phy!Target(i)] ELSE @]
  BY DEF Phy!Execute
<1>4. /\ Phy!Target(i) \in Regs /\ phy[Phy!Target(i)] \in Vals /\ phy \in [Regs -> Vals]
      /\ acc[i].val \in Vals /\ acc[i].reg \in Regs /\ latch \in Regs
  BY <1>1, AccFacts DEF Phy!Target
<1>5. /\ acc'[i].busy = FALSE /\ acc'[i].done = TRUE
      /\ acc'[i].cmd = acc[i].cmd /\ acc'[i].reg = acc[i].reg
      /\ acc'[i].val = IF acc[i].cmd = "rd" THEN phy[Phy!Target(i)] ELSE acc[i].val
      /\ \A j \in 0..1 : j # i => acc'[j] = acc[j]
  BY <1>1, <1>3 DEF Phy!TypeOK
<1>6. acc' \in [0..1 -> [cmd : Phy!Cmds, reg : Regs, val : Vals, busy : BOOLEAN, done : BOOLEAN]]
  <2> DEFINE v == IF acc[i].cmd = "rd" THEN phy[Phy!Target(i)] ELSE acc[i].val
             R == [cmd : Phy!Cmds, reg : Regs, val : Vals, busy : BOOLEAN, done : BOOLEAN]
  <2>1. v \in Vals /\ acc \in [0..1 -> R]
    BY <1>1, <1>4 DEF Phy!TypeOK
  <2>2. acc' = [acc EXCEPT ![i] = [[[acc[i] EXCEPT !.busy = FALSE] EXCEPT !.done = TRUE]
                                     EXCEPT !.val = v]]
    BY <1>3, <2>1
  <2> HIDE DEF v
  <2>3. [[[acc[i] EXCEPT !.busy = FALSE] EXCEPT !.done = TRUE] EXCEPT !.val = v] \in R
    BY <2>1
  <2> HIDE DEF R
  <2> QED
    BY <2>1, <2>2, <2>3 DEF R
<1>7. phy' \in [Regs -> Vals] /\ latch' \in Regs
  BY <1>4 DEF Phy!Execute
<1>8. Phy!TypeOK'
  BY <1>1, <1>2, <1>6, <1>7 DEF Phy!TypeOK
<1>9. Shape'
  BY <1>1, <1>2, <1>5 DEF Shape
<1> QED
  BY <1>2, <1>5, <1>8, <1>9

\* The command in MDIOACC(0) is carried out: the address of a clause 45 call, or the
\* data command of a clause 22 call.
LEMMA Execute0Step == ASSUME PhyIInv, Phy!Execute(0) PROVE PhyIInv'
<1>1. /\ acc[0].busy /\ ~acc[0].done /\ ~acc'[0].busy /\ acc'[0].done
      /\ acc'[0].cmd = acc[0].cmd /\ acc'[0].reg = acc[0].reg
      /\ acc'[0].val = IF acc[0].cmd = "rd" THEN phy[acc[0].reg] ELSE acc[0].val
      /\ acc'[1] = acc[1] /\ Phy!TypeOK' /\ Shape'
      /\ UNCHANGED <<mdio, ready, meant, got, mdioErrs, mdioFaults>>
  <2>1. 0 \in 0..1 /\ 1 \in 0..1 /\ 0 # 1
    OBVIOUS
  <2> QED
    BY <2>1, ExecuteFacts DEF Phy!Target
<1>2. /\ latch' = IF acc[0].cmd = "addr" THEN acc[0].reg ELSE latch
      /\ phy' = IF acc[0].cmd = "wr" /\ ~Phy!Ignored(0)
                THEN [phy EXCEPT ![acc[0].reg] = acc[0].val] ELSE phy
  BY DEF Phy!Execute, Phy!Target
<1>3. Phy!TypeOK /\ Shape /\ Addressed /\ Answered /\ Quiet /\ Effect
  BY DEF PhyIInv
<1>4. Addressed'
  BY <1>1, <1>2, <1>3 DEF Addressed, AddrGiven, AddrDone
<1>5. Answered'
  <2> SUFFICES ASSUME DataGiven, mdioFaults = 0
               PROVE  /\ acc'[Port].cmd = IF mdio.op \in Reading THEN "rd" ELSE "wr"
                      /\ acc'[Port].reg = mdio.reg
                      /\ acc'[Port].busy \/ acc'[Port].done
                      /\ mdio.op \notin Reading /\ acc'[Port].busy => acc'[Port].val = mdio.val
                      /\ mdio.op = "read_c45" /\ acc'[1].done => acc'[1].val = phy'[mdio.reg]
    BY <1>1 DEF Answered, DataGiven, Port
  <2>1. CASE mdio.op \in C45
    <3>1. AddrGiven /\ (mdio.op = "read_c45" => AddrDone)
      BY <1>3, <2>1, CallFacts DEF DataGiven, AddrGiven, AddrDone, C45
    <3>2. mdio.op # "read_c45"
      BY <1>1, <1>3, <3>1 DEF Addressed
    <3> QED
      BY <1>1, <1>3, <2>1, <3>2 DEF Answered, Port
  <2>2. CASE mdio.op \notin C45
    BY <1>1, <1>3, <2>2 DEF Answered, Port, C45
  <2> QED
    BY <2>1, <2>2
<1>6. Quiet'
  BY <1>1, <1>3 DEF Quiet, Phy!Clean, DataGiven
<1>7. Effect'
  <2> SUFFICES ASSUME Phy!Clean PROVE Effect'
    BY <1>1 DEF Effect, Phy!Clean
  <2>1. mdio # Phy!Idle /\ mdio.k >= 2 /\ mdioFaults = 0
    BY <1>1, <1>3 DEF Quiet, Phy!Clean
  <2>2. CASE mdio.op \in C45
    <3>1. acc[0].cmd = "addr"
      BY <1>3, <2>1, <2>2 DEF Addressed, AddrGiven
    <3> QED
      BY <1>1, <1>2, <1>3, <2>2, <3>1 DEF Effect, Phy!Clean, Written, DataGiven, Port, C45
  <2>3. CASE mdio.op = "read"
    <3>1. acc[0].cmd = "rd" /\ acc[0].reg = mdio.reg
      BY <1>3, <2>1, <2>3 DEF Answered, DataGiven, Port, C45, Reading
    <3> QED
      BY <1>1, <1>2, <1>3, <2>3, <3>1 DEF Effect, Phy!Clean, Written, Reading
  <2>4. CASE mdio.op = "write"
    <3>1. /\ acc[0].cmd = "wr" /\ acc[0].reg = mdio.reg /\ acc[0].val = mdio.val
      BY <1>1, <1>3, <2>1, <2>4 DEF Answered, DataGiven, Port, C45, Reading
    <3>2. mdio.reg # Pd /\ mdio.reg \in Regs /\ phy \in [Regs -> Vals]
      BY <1>3, <2>1, <2>4, CallFacts, AccFacts DEF Shape, C45
    <3>3. phy' = [phy EXCEPT ![mdio.reg] = mdio.val]
      BY <1>2, <3>1, <3>2 DEF Phy!Ignored, Phy!Target
    <3>4. Written' /\ ~Written
      BY <1>1, <2>1, <2>4 DEF Written, DataGiven, Port, C45, Reading
    <3> QED
      BY <1>1, <1>3, <2>4, <3>2, <3>3, <3>4 DEF Effect, Phy!Clean
  <2> QED
    BY <1>3, <2>1, <2>2, <2>3, <2>4, CallFacts DEF Phy!Ops, C45
<1>8. Ended' /\ Phy!ReadsFresh'
  BY <1>1, <1>3 DEF PhyIInv, Ended, Phy!ReadsFresh, Quiet, Phy!Clean, Phy!Returned
<1> QED
  BY <1>1, <1>4, <1>5, <1>6, <1>7, <1>8 DEF PhyIInv

\* The command in MDIOACC(1) is carried out after the one in MDIOACC(0).
LEMMA Execute1Step == ASSUME PhyIInv, Phy!Execute(1) PROVE PhyIInv'
<1>1. /\ acc[1].busy /\ ~acc[0].busy /\ ~acc[1].done /\ ~acc'[1].busy /\ acc'[1].done
      /\ acc'[1].cmd = acc[1].cmd /\ acc'[1].reg = acc[1].reg
      /\ acc'[1].val = IF acc[1].cmd = "rd" THEN phy[latch] ELSE acc[1].val
      /\ acc'[0] = acc[0] /\ Phy!TypeOK' /\ Shape'
      /\ UNCHANGED <<mdio, ready, meant, got, mdioErrs, mdioFaults>>
  <2>1. 0 \in 0..1 /\ 1 \in 0..1 /\ 0 # 1
    OBVIOUS
  <2> QED
    BY <2>1, ExecuteFacts DEF Phy!Target
<1>2. Phy!TypeOK /\ Shape /\ Addressed /\ Answered /\ Quiet /\ Effect
  BY DEF PhyIInv
<1>3. /\ latch' = latch
      /\ phy' = IF acc[1].cmd = "wr" /\ ~Phy!Ignored(1)
                THEN [phy EXCEPT ![latch] = acc[1].val] ELSE phy
  BY <1>2 DEF Phy!Execute, Phy!Target, Shape
<1>4. Addressed'
  BY <1>1, <1>2, <1>3 DEF Addressed, AddrGiven, AddrDone
<1>5. ASSUME DataGiven, mdio.op \in C45, mdioFaults = 0 PROVE latch = mdio.reg
  <2>1. AddrGiven
    BY <1>2, <1>5, CallFacts DEF DataGiven, AddrGiven, C45
  <2> QED
    BY <1>1, <1>2, <1>5, <2>1 DEF Addressed
<1>6. Answered'
  <2> SUFFICES ASSUME DataGiven, mdioFaults = 0
               PROVE  /\ acc'[Port].cmd = IF mdio.op \in Reading THEN "rd" ELSE "wr"
                      /\ acc'[Port].reg = mdio.reg
                      /\ acc'[Port].busy \/ acc'[Port].done
                      /\ mdio.op \notin Reading /\ acc'[Port].busy => acc'[Port].val = mdio.val
                      /\ mdio.op = "read_c45" /\ acc'[1].done => acc'[1].val = phy'[mdio.reg]
    BY <1>1 DEF Answered, DataGiven, Port
  <2>1. CASE mdio.op \in C45
    BY <1>1, <1>2, <1>3, <1>5, <2>1 DEF Answered, Port, Reading
  <2>2. CASE mdio.op \notin C45
    BY <1>1, <1>2, <2>2 DEF Answered, Port, C45
  <2> QED
    BY <2>1, <2>2
<1>7. Quiet'
  BY <1>1, <1>2 DEF Quiet, Phy!Clean, DataGiven
<1>8. Effect'
  <2> SUFFICES ASSUME Phy!Clean PROVE Effect'
    BY <1>1 DEF Effect, Phy!Clean
  <2>1. DataGiven /\ mdio.op \in C45 /\ latch = mdio.reg /\ mdio # Phy!Idle
    BY <1>1, <1>2, <1>5 DEF Quiet, Phy!Clean, DataGiven
  <2>2. CASE mdio.op = "read_c45"
    <3>1. acc[1].cmd = "rd"
      BY <1>2, <2>1, <2>2 DEF Answered, Phy!Clean, Port, Reading
    <3> QED
      BY <1>1, <1>2, <1>3, <2>2, <3>1 DEF Effect, Phy!Clean, Written, Reading
  <2>3. CASE mdio.op = "write_c45"
    <3>1. acc[1].cmd = "wr" /\ acc[1].val = mdio.val
      BY <1>1, <1>2, <2>1, <2>3 DEF Answered, Phy!Clean, Port, Reading
    <3>2. Written' /\ ~Written
      BY <1>1, <2>1, <2>3 DEF Written, DataGiven, Port, C45, Reading
    <3>3. mdio.reg \in Regs /\ phy \in [Regs -> Vals]
      BY <1>2, <2>1, CallFacts, AccFacts
    <3>4. \A r \in Regs \ {Pd} : phy'[r] = IF r = mdio.reg THEN mdio.val ELSE phy[r]
      BY <1>3, <2>1, <3>1, <3>3 DEF Phy!Ignored, Phy!Target
    <3> QED
      BY <1>1, <1>2, <2>3, <3>2, <3>4 DEF Effect, Phy!Clean
  <2> QED
    BY <2>1, <2>2, <2>3 DEF C45
<1>9. Ended' /\ Phy!ReadsFresh'
  BY <1>1, <1>2 DEF PhyIInv, Ended, Phy!ReadsFresh, Quiet, Phy!Clean, Phy!Returned, DataGiven
<1> QED
  BY <1>1, <1>4, <1>6, <1>7, <1>8, <1>9 DEF PhyIInv
-----------------------------------------------------------------------------
(* The driver.                                                              *)

\* A call begins: it has given no command yet.
LEMMA BeginStep == ASSUME PhyIInv, Phy!Begin PROVE PhyIInv'
<1>1. Phy!TypeOK /\ Shape /\ Quiet /\ Effect /\ mdio = Phy!Idle
  BY DEF PhyIInv, Phy!Begin
<1>2. UNCHANGED <<acc, latch, phy, ready, meant, got, mdioErrs, mdioFaults>>
  BY DEF Phy!Begin
<1>3. PICK op \in Phy!Ops, r \in Regs, v \in Vals, setup \in BOOLEAN :
         /\ mdio' = [op |-> op, reg |-> r, val |-> v, setup |-> setup, k |-> 1]
         /\ setup <=> r = Pd
         /\ setup => op \in C45 /\ v = 0
  <2>1. CASE \E op \in Phy!Ops, r \in Regs \ {Pd}, v \in Vals : Phy!Start(op, r, v, FALSE)
    BY <2>1 DEF Phy!Start
  <2>2. CASE Phy!Start("read_c45", Pd, 0, TRUE)
    BY <2>2, DriverAssumption DEF Phy!Start, Phy!PhyAssumption, Phy!Ops, C45
  <2> QED
    BY <2>1, <2>2 DEF Phy!Begin
<1>4. mdio' \in Phy!Calls /\ mdio'.k = 1 /\ mdio' # Phy!Idle
  <2>1. 1 \in 1..4
    OBVIOUS
  <2>2. mdio' \in Phy!Calls /\ mdio'.k = 1
    BY <1>3, <2>1 DEF Phy!Calls
  <2>3. mdio'.op \in Phy!Ops /\ Phy!Idle.op \notin Phy!Ops
    BY <1>3 DEF Phy!Idle, Phy!Ops
  <2> QED
    BY <2>2, <2>3
<1>5. Phy!TypeOK'
  BY <1>1, <1>2, <1>4 DEF Phy!TypeOK
<1>6. Len(Phy!Program(op)) \in Nat /\ 1 <= Len(Phy!Program(op))
  BY ProgramFacts DEF Phy!Ops
<1>7. Shape'
  BY <1>1, <1>2, <1>3, <1>6 DEF Shape
<1>8. ~AddrGiven' /\ ~DataGiven' /\ ~Written' /\ ~DataGiven /\ ~Written
  BY <1>1, <1>4 DEF AddrGiven, DataGiven, Written
<1>9. Addressed' /\ Answered'
  BY <1>8 DEF Addressed, Answered
<1>10. Quiet'
  BY <1>1, <1>2, <1>8 DEF Quiet, Phy!Clean
<1>11. Effect'
  BY <1>1, <1>2, <1>8 DEF Effect, Phy!Clean
<1>12. Ended' /\ Phy!ReadsFresh'
  BY <1>4 DEF Ended, Phy!ReadsFresh, Phy!Returned
<1> QED
  BY <1>5, <1>7, <1>9, <1>10, <1>11, <1>12 DEF PhyIInv

\* A call goes on with the next access of its function.
LEMMA NextStepFacts ==
    ASSUME Phy!TypeOK, Shape, mdio # Phy!Idle, Phy!More, Phy!NextStep
    PROVE  /\ mdio' \in Phy!Calls /\ mdio' # Phy!Idle /\ mdio'.op = mdio.op /\ mdio'.reg = mdio.reg
           /\ mdio'.val = mdio.val /\ mdio'.setup = mdio.setup /\ mdio'.k = mdio.k + 1
           /\ mdio'.k \in 1..Len(Phy!Program(mdio'.op))
<1>1. mdio \in Phy!Calls /\ mdio.op \in Phy!Ops
  BY CallFacts
<1>2. /\ mdio'.op = mdio.op /\ mdio'.reg = mdio.reg
      /\ mdio'.val = mdio.val /\ mdio'.setup = mdio.setup /\ mdio'.k = mdio.k + 1
  BY <1>1 DEF Phy!NextStep, Phy!Calls
<1>3. PICK n \in {2, 4} : n = Len(Phy!Program(mdio.op))
  BY <1>1, ProgramFacts DEF Phy!Ops
<1>4. mdio.k + 1 \in 1..n /\ mdio.k + 1 \in 1..4
  <2>1. mdio.k \in 1..n /\ mdio.k < n
    BY <1>3 DEF Shape, Phy!More
  <2> QED
    BY <2>1
<1>5. mdio' \in Phy!Calls
  BY <1>1, <1>4 DEF Phy!NextStep, Phy!Calls
<1>6. Phy!Idle.op \notin Phy!Ops
  BY DEF Phy!Idle, Phy!Ops
<1> QED
  BY <1>1, <1>2, <1>3, <1>4, <1>5, <1>6

\* An aborted access leaves MDIOACC as it was: from then on nothing is promised.
LEMMA AbortedStep ==
    ASSUME PhyIInv, mdio # Phy!Idle, Phy!More, Phy!NextStep,
           mdioFaults < MaxFault, mdioFaults' = mdioFaults + 1,
           UNCHANGED <<acc, latch, phy, ready, meant, got, mdioErrs>>
    PROVE  PhyIInv'
<1>1. Phy!TypeOK /\ Shape
  BY DEF PhyIInv
<1>2. /\ mdio' \in Phy!Calls /\ mdio' # Phy!Idle /\ mdio'.op = mdio.op /\ mdio'.reg = mdio.reg
      /\ mdio'.val = mdio.val /\ mdio'.setup = mdio.setup
      /\ mdio'.k \in 1..Len(Phy!Program(mdio'.op))
  BY <1>1, NextStepFacts
<1>3. mdioFaults' # 0 /\ mdioFaults' \in 0..MaxFault
  BY <1>1, DriverAssumption DEF Phy!TypeOK, Phy!PhyAssumption
<1>4. Phy!TypeOK'
  BY <1>1, <1>2, <1>3 DEF Phy!TypeOK
<1>5. Shape'
  BY <1>1, <1>2 DEF Shape
<1> QED
  BY <1>2, <1>3, <1>4, <1>5
     DEF PhyIInv, Addressed, Answered, Quiet, Effect, Ended, Phy!ReadsFresh, Phy!Clean, Phy!Returned

\* What a command that is given changes.
LEMMA CommandFacts ==
    ASSUME PhyIInv, mdio # Phy!Idle, Phy!More, Phy!NextStep,
           NEW i \in 0..1, acc' = [acc EXCEPT ![i] = Phy!Command(i)],
           UNCHANGED <<latch, phy, ready, meant, got, mdioErrs, mdioFaults>>
    PROVE  /\ acc'[i] = Phy!Command(i) /\ \A j \in 0..1 : j # i => acc'[j] = acc[j]
           /\ Phy!TypeOK' /\ Shape'
<1>1. Phy!TypeOK /\ Shape
  BY DEF PhyIInv
<1>2. /\ mdio' \in Phy!Calls /\ mdio' # Phy!Idle /\ mdio'.op = mdio.op /\ mdio'.reg = mdio.reg
      /\ mdio'.val = mdio.val /\ mdio'.setup = mdio.setup
      /\ mdio'.k \in 1..Len(Phy!Program(mdio'.op))
  BY <1>1, NextStepFacts
<1>3. mdio.reg \in Regs /\ mdio.val \in Vals
  BY <1>1, CallFacts
<1>4. /\ Phy!Command(i) \in [cmd : Phy!Cmds, reg : Regs, val : Vals, busy : BOOLEAN, done : BOOLEAN]
      /\ i = 1 => Phy!Command(i).cmd # "addr"
      /\ ~Phy!Command(i).done
  BY <1>3 DEF Phy!Command, Phy!Cmds
<1>5. acc'[i] = Phy!Command(i) /\ \A j \in 0..1 : j # i => acc'[j] = acc[j]
  BY <1>1 DEF Phy!TypeOK
<1>6. acc' \in [0..1 -> [cmd : Phy!Cmds, reg : Regs, val : Vals, busy : BOOLEAN, done : BOOLEAN]]
  BY <1>1, <1>4 DEF Phy!TypeOK
<1>7. Phy!TypeOK'
  BY <1>1, <1>2, <1>6 DEF Phy!TypeOK
<1>8. Shape'
  BY <1>1, <1>2, <1>4, <1>5 DEF Shape
<1> QED
  BY <1>5, <1>7, <1>8

\* A call gives its first command: the address of clause 45, or the data of clause 22.
LEMMA Write0Step == ASSUME PhyIInv, Phy!WriteAcc(0) PROVE PhyIInv'
<1>1. Phy!TypeOK /\ Shape /\ Addressed /\ Answered /\ Quiet /\ Effect /\ mdio # Phy!Idle
  BY DEF PhyIInv, Phy!WriteAcc
<1>2. Phy!Step = "write0" /\ Phy!NextStep /\ UNCHANGED <<latch, phy, ready, meant, got, mdioErrs>>
  BY DEF Phy!WriteAcc
<1>3. mdio.k = 1 /\ Phy!More /\ mdio.op \in Phy!Ops
  BY <1>1, <1>2, CallFacts
<1>4. /\ mdio' \in Phy!Calls /\ mdio' # Phy!Idle /\ mdio'.op = mdio.op /\ mdio'.reg = mdio.reg
      /\ mdio'.val = mdio.val /\ mdio'.setup = mdio.setup /\ mdio'.k = 2
  BY <1>1, <1>2, <1>3, NextStepFacts
<1>5. CASE acc' = [acc EXCEPT ![0] = Phy!Command(0)] /\ UNCHANGED mdioFaults
  <2>1. acc'[0] = Phy!Command(0) /\ acc'[1] = acc[1] /\ Phy!TypeOK' /\ Shape'
    <3>1. 0 \in 0..1 /\ 1 \in 0..1 /\ 0 # 1
      OBVIOUS
    <3> QED
      BY <1>1, <1>2, <1>3, <1>5, <3>1, CommandFacts
  <2>2. /\ acc'[0].reg = mdio.reg /\ acc'[0].val = mdio.val /\ acc'[0].busy /\ ~acc'[0].done
        /\ acc'[0].cmd = IF mdio.op \in C45 THEN "addr"
                         ELSE IF mdio.op = "read" THEN "rd" ELSE "wr"
    BY <2>1 DEF Phy!Command, C45
  <2>3. ~DataGiven /\ ~Written
    BY <1>3 DEF DataGiven, Written, Phy!Ops
  <2>4. DataGiven' => mdio.op \notin C45
    BY <1>4 DEF DataGiven, C45
  <2>5. Addressed'
    BY <1>4, <2>2 DEF Addressed, AddrGiven, AddrDone, C45
  <2>6. Answered'
    BY <1>3, <1>4, <2>2, <2>4 DEF Answered, Port, C45, Reading, Phy!Ops
  <2>7. Quiet'
    BY <1>1, <1>2, <1>4, <1>5, <2>1, <2>3 DEF Quiet, Phy!Clean
  <2>8. ~Written'
    BY <1>4, <2>2, <2>4 DEF Written, Port
  <2>9. Effect'
    BY <1>1, <1>2, <1>5, <2>2, <2>3, <2>8 DEF Effect, Phy!Clean
  <2>10. Ended' /\ Phy!ReadsFresh'
    BY <1>4 DEF Ended, Phy!ReadsFresh, Phy!Returned
  <2> QED
    BY <2>1, <2>5, <2>6, <2>7, <2>9, <2>10 DEF PhyIInv
<1> QED
  BY <1>1, <1>2, <1>3, <1>5, AbortedStep DEF Phy!WriteAcc

\* A clause 45 call gives its data command: after that for the address, which is carried
\* out first (adin1110.c:276-308).
LEMMA Write1Step == ASSUME PhyIInv, Phy!WriteAcc(1) PROVE PhyIInv'
<1>1. Phy!TypeOK /\ Shape /\ Addressed /\ Answered /\ Quiet /\ Effect /\ mdio # Phy!Idle
  BY DEF PhyIInv, Phy!WriteAcc
<1>2. Phy!Step = "write1" /\ Phy!NextStep /\ UNCHANGED <<latch, phy, ready, meant, got, mdioErrs>>
  BY DEF Phy!WriteAcc
<1>3. /\ Phy!More /\ mdio.op \in C45
      /\ (mdio.op = "read_c45" /\ mdio.k = 3) \/ (mdio.op = "write_c45" /\ mdio.k = 2)
  BY <1>1, <1>2, CallFacts DEF C45
<1>4. /\ mdio' \in Phy!Calls /\ mdio' # Phy!Idle /\ mdio'.op = mdio.op /\ mdio'.reg = mdio.reg
      /\ mdio'.val = mdio.val /\ mdio'.setup = mdio.setup /\ mdio'.k = mdio.k + 1
      /\ (mdio.op = "read_c45" /\ mdio'.k = 4) \/ (mdio.op = "write_c45" /\ mdio'.k = 3)
  BY <1>1, <1>2, <1>3, NextStepFacts
<1>5. CASE acc' = [acc EXCEPT ![1] = Phy!Command(1)] /\ UNCHANGED mdioFaults
  <2>1. acc'[1] = Phy!Command(1) /\ acc'[0] = acc[0] /\ Phy!TypeOK' /\ Shape'
    <3>1. 0 \in 0..1 /\ 1 \in 0..1 /\ 0 # 1
      OBVIOUS
    <3> QED
      BY <1>1, <1>2, <1>3, <1>5, <3>1, CommandFacts
  <2>2. /\ acc'[1].reg = mdio.reg /\ acc'[1].val = mdio.val /\ acc'[1].busy /\ ~acc'[1].done
        /\ acc'[1].cmd = IF mdio.op = "read_c45" THEN "rd" ELSE "wr"
    BY <1>3, <2>1 DEF Phy!Command, C45
  <2>3. ~DataGiven /\ ~Written /\ DataGiven'
    BY <1>3, <1>4 DEF DataGiven, Written
  <2>4. Addressed'
    BY <1>1, <1>2, <1>3, <1>4, <1>5, <2>1 DEF Addressed, AddrGiven, AddrDone
  <2>5. Answered'
    BY <1>3, <1>4, <2>2 DEF Answered, Port, C45, Reading
  <2>6. Quiet'
    BY <1>1, <1>2, <1>3, <1>4, <1>5, <2>1, <2>3 DEF Quiet, Phy!Clean
  <2>7. ~Written'
    BY <1>3, <1>4, <2>2 DEF Written, Port
  <2>8. Effect'
    BY <1>1, <1>2, <1>3, <1>4, <1>5, <2>3, <2>7 DEF Effect, Phy!Clean, C45
  <2>9. Ended' /\ Phy!ReadsFresh'
    BY <1>4 DEF Ended, Phy!ReadsFresh, Phy!Returned
  <2> QED
    BY <2>1, <2>4, <2>5, <2>6, <2>8, <2>9 DEF PhyIInv
<1> QED
  BY <1>1, <1>2, <1>3, <1>5, AbortedStep DEF Phy!WriteAcc

\* A call sees that its address command is done.
LEMMA PollOnStep == ASSUME PhyIInv, NEW i \in 0..1, Phy!Poll(i), Phy!More PROVE PhyIInv'
<1>1. Phy!TypeOK /\ Shape /\ Addressed /\ Answered /\ Quiet /\ Effect /\ mdio # Phy!Idle
  BY DEF PhyIInv, Phy!Poll, Phy!Polls
<1>2. /\ Phy!NextStep /\ UNCHANGED <<acc, latch, phy, ready, meant, got, mdioErrs, mdioFaults>>
      /\ acc[i].done /\ Phy!Step = IF i = 0 THEN "poll0" ELSE "poll1"
  BY DEF Phy!Poll, Phy!Polls, Phy!Polled
<1>3. /\ i = 0 /\ acc[0].done /\ mdio.op \in C45
      /\ (mdio.op = "read_c45" /\ mdio.k = 2) \/ (mdio.op = "write_c45" /\ mdio.k = 3)
  BY <1>1, <1>2, CallFacts DEF C45
<1>4. /\ mdio' \in Phy!Calls /\ mdio' # Phy!Idle /\ mdio'.op = mdio.op /\ mdio'.reg = mdio.reg
      /\ mdio'.val = mdio.val /\ mdio'.setup = mdio.setup /\ mdio'.k = mdio.k + 1
      /\ mdio'.k \in 1..Len(Phy!Program(mdio'.op))
      /\ (mdio.op = "read_c45" /\ mdio'.k = 3) \/ (mdio.op = "write_c45" /\ mdio'.k = 4)
  BY <1>1, <1>2, <1>3, NextStepFacts
<1>5. Phy!TypeOK' /\ Shape'
  BY <1>1, <1>2, <1>4 DEF Phy!TypeOK, Shape
<1>6. Addressed'
  BY <1>1, <1>2, <1>3, <1>4 DEF Addressed, AddrGiven, AddrDone
<1>7. DataGiven' = DataGiven /\ Port' = Port /\ Written' = Written
  BY <1>1, <1>2, <1>3, <1>4 DEF DataGiven, Port, Written
<1>8. Answered'
  BY <1>1, <1>2, <1>4, <1>7 DEF Answered
<1>9. Quiet'
  BY <1>1, <1>2, <1>3, <1>4, <1>7 DEF Quiet, Phy!Clean
<1>10. Effect'
  BY <1>1, <1>2, <1>4, <1>7 DEF Effect, Phy!Clean
<1>11. Ended' /\ Phy!ReadsFresh'
  BY <1>4 DEF Ended, Phy!ReadsFresh, Phy!Returned
<1> QED
  BY <1>5, <1>6, <1>8, <1>9, <1>10, <1>11 DEF PhyIInv

\* A call returns 0: its data command was carried out, for the register that it addressed,
\* and setup_phy returns when what it read has no power-down bit (adin1110.c:798-809).
LEMMA ReturnStep == ASSUME PhyIInv, NEW i \in 0..1, Phy!Poll(i), ~Phy!More PROVE PhyIInv'
<1>1. Phy!TypeOK /\ Shape /\ Addressed /\ Answered /\ Quiet /\ Effect /\ mdio # Phy!Idle
  BY DEF PhyIInv, Phy!Poll, Phy!Polls
<1>2. /\ Phy!Return(i) /\ UNCHANGED <<acc, latch, phy, ready, mdioErrs, mdioFaults>>
      /\ acc[i].done /\ Phy!Step = IF i = 0 THEN "poll0" ELSE "poll1"
  BY DEF Phy!Poll, Phy!Polls, Phy!Polled
<1>3. /\ mdio.op \in Phy!Ops /\ mdio.reg \in Regs /\ mdio.val \in Vals /\ i = Port
      /\ \/ mdio.op \in {"read", "write"} /\ mdio.k = 2 /\ i = 0
         \/ mdio.op \in C45 /\ mdio.k = 4 /\ i = 1
      /\ mdio.setup \in BOOLEAN
  BY <1>1, <1>2, CallFacts DEF C45, Port, Phy!Calls
<1>4. DataGiven /\ (mdio.op \in C45 => AddrGiven /\ AddrDone)
  BY <1>1, <1>3 DEF DataGiven, AddrGiven, AddrDone, C45
<1>5. ~acc[i].busy /\ acc[i].val \in Vals /\ phy \in [Regs -> Vals] /\ meant \in [Regs -> Vals]
  BY <1>1, <1>2, AccFacts DEF Shape
<1>6. /\ got' = [err |-> FALSE, reg |-> mdio.reg, op |-> mdio.op, val |-> acc[i].val,
                  setup |-> mdio.setup /\ ~Phy!SetupGoesOn(i)]
      /\ \/ /\ mdio.setup /\ Phy!SetupGoesOn(i)
            /\ \E op \in C45 :
                  mdio' = [op |-> op, reg |-> Pd, val |-> 0, setup |-> TRUE, k |-> 1]
         \/ ~(mdio.setup /\ Phy!SetupGoesOn(i)) /\ mdio' = Phy!Idle
      /\ meant' = IF mdio.op \in {"write", "write_c45"} /\ mdio.reg # Pd
                  THEN [meant EXCEPT ![mdio.reg] = mdio.val] ELSE meant
  BY <1>2 DEF Phy!Return, Phy!Start, C45
<1>7. mdio' = Phy!Idle \/ (mdio' \in Phy!Calls /\ mdio'.k = 1 /\ mdio'.setup /\ mdio'.reg = Pd
                        /\ mdio'.val = 0 /\ mdio'.op \in C45)
  <2>1. ASSUME NEW op \in C45, mdio' = [op |-> op, reg |-> Pd, val |-> 0, setup |-> TRUE, k |-> 1]
        PROVE  mdio' \in Phy!Calls /\ mdio'.k = 1 /\ mdio'.setup /\ mdio'.reg = Pd
               /\ mdio'.val = 0 /\ mdio'.op \in C45
    <3>1. op \in Phy!Ops /\ Pd \in Regs /\ 0 \in Vals /\ 1 \in 1..4
      BY DriverAssumption DEF Phy!Ops, C45, Phy!PhyAssumption
    <3> QED
      BY <2>1, <3>1 DEF Phy!Calls
  <2> QED
    BY <1>6, <2>1
<1>8. got' \in Phy!Results /\ ~got'.err /\ got'.reg = mdio.reg /\ got'.op = mdio.op
      /\ got'.val = acc[i].val /\ (got'.setup <=> mdio.setup /\ ~Phy!SetupGoesOn(i))
  <2>1. (mdio.setup /\ ~Phy!SetupGoesOn(i)) \in BOOLEAN
    OBVIOUS
  <2> QED
    BY <1>3, <1>5, <1>6, <2>1 DEF Phy!Results
<1>9. meant' \in [Regs -> Vals]
  BY <1>3, <1>5, <1>6
<1>10. Phy!TypeOK'
  BY <1>1, <1>2, <1>7, <1>8, <1>9 DEF Phy!TypeOK
<1>11. Shape'
  <2>1. \A op \in C45 : 1 \in 1..Len(Phy!Program(op))
    BY ProgramFacts DEF C45
  <2> QED
    BY <1>1, <1>2, <1>7, <2>1 DEF Shape
<1>12. ~AddrGiven' /\ ~DataGiven' /\ ~Written'
  BY <1>7 DEF AddrGiven, DataGiven, Written, C45
<1>13. Addressed' /\ Answered'
  BY <1>12 DEF Addressed, Answered
<1>14. mdioFaults = 0 /\ mdio.op \in C45 => ~acc[0].busy /\ ~acc[1].busy
  <2>1. mdio.op \in C45 => i = 1
    BY <1>3 DEF C45
  <2> QED
    BY <1>1, <1>4, <1>5, <2>1 DEF Addressed, Shape
<1>15. Quiet'
  <2> SUFFICES ASSUME Phy!Clean PROVE ~acc[0].busy /\ ~acc[1].busy
    BY <1>2 DEF Quiet, Phy!Clean
  <2>1. CASE mdio.op \in C45
    BY <1>14, <2>1 DEF Phy!Clean
  <2>2. CASE mdio.op \notin C45
    BY <1>1, <1>3, <1>5, <2>2 DEF Quiet
  <2> QED
    BY <2>1, <2>2
<1>16. Effect'
  <2> SUFFICES ASSUME Phy!Clean PROVE \A r \in Regs \ {Pd} : phy[r] = meant'[r]
    BY <1>2, <1>12 DEF Effect, Phy!Clean
  <2>1. CASE mdio.op \in Reading
    BY <1>1, <1>6, <2>1 DEF Effect, Written, Reading
  <2>2. CASE mdio.op \notin Reading
    <3>1. Written /\ mdio.op \in {"write", "write_c45"}
      BY <1>2, <1>3, <1>4, <2>2 DEF Written, Reading, Phy!Ops
    <3> QED
      BY <1>1, <1>3, <1>5, <1>6, <3>1 DEF Effect
  <2> QED
    BY <2>1, <2>2
<1>17. mdio.op = "read_c45" /\ mdioFaults = 0 => acc[1].val = phy[mdio.reg] /\ i = 1
  BY <1>1, <1>2, <1>3, <1>4 DEF Answered, C45
<1>18. Phy!ReadsFresh'
  <2> SUFFICES ASSUME Phy!Clean, mdio.op \in Reading PROVE acc[i].val = phy[mdio.reg]
    BY <1>2, <1>8 DEF Phy!ReadsFresh, Phy!Returned, Phy!Clean, Reading
  <2>1. CASE mdio.op = "read"
    BY <1>1, <1>2, <1>3, <1>4, <2>1 DEF Effect, C45
  <2>2. CASE mdio.op = "read_c45"
    BY <1>17, <2>2 DEF Phy!Clean
  <2> QED
    BY <2>1, <2>2 DEF Reading
<1>19. Ended'
  <2> SUFFICES ASSUME mdioFaults = 0, mdio.setup, ~Phy!SetupGoesOn(i)
               PROVE  ~acc[0].busy /\ ~acc[1].busy /\ phy[Pd] # 1
    BY <1>2, <1>8 DEF Ended
  <2>1. mdio.op = "read_c45" /\ mdio.reg = Pd /\ acc[i].val # 1
    BY <1>1 DEF Shape, Phy!SetupGoesOn, C45
  <2> QED
    BY <1>14, <1>17, <2>1 DEF C45
<1> QED
  BY <1>10, <1>11, <1>13, <1>15, <1>16, <1>18, <1>19 DEF PhyIInv

\* A failed access ends the call, which may leave commands behind.
LEMMA ErrorStep == ASSUME PhyIInv, Phy!Error PROVE PhyIInv'
<1>1. Phy!TypeOK /\ Shape
  BY DEF PhyIInv
<1>2. /\ mdio' = Phy!Idle /\ mdioErrs < MaxErr /\ mdioErrs' = mdioErrs + 1
      /\ got' = [got EXCEPT !.err = TRUE]
      /\ UNCHANGED <<acc, latch, phy, ready, meant, mdioFaults>>
  BY DEF Phy!Error
<1>3. mdioErrs' # 0 /\ mdioErrs' \in 0..MaxErr
  BY <1>1, <1>2, DriverAssumption DEF Phy!TypeOK, Phy!PhyAssumption
<1>4. got' \in Phy!Results /\ got'.err
  BY <1>1, <1>2 DEF Phy!TypeOK, Phy!Results
<1>5. Phy!TypeOK' /\ Shape'
  BY <1>1, <1>2, <1>3, <1>4 DEF Phy!TypeOK, Shape
<1> QED
  BY <1>2, <1>3, <1>4, <1>5
     DEF PhyIInv, Addressed, Answered, Quiet, Effect, Ended, Phy!ReadsFresh, Phy!Clean,
         Phy!Returned,
         AddrGiven, DataGiven

\* Every step of the driver and of the device keeps the invariant.
LEMMA NextPhy == PhyIInv /\ [Phy!Next]_phyVars => PhyIInv'
<1> SUFFICES ASSUME PhyIInv, [Phy!Next]_phyVars PROVE PhyIInv'
  OBVIOUS
<1>1. CASE UNCHANGED phyVars
  BY <1>1
     DEF phyVars, PhyIInv, Phy!TypeOK, Shape, Addressed, Answered, Quiet, Effect, Ended,
         Phy!ReadsFresh,
         AddrGiven, AddrDone, DataGiven, Port, Written, Phy!Returned, Phy!Clean
<1>2. ASSUME NEW i \in 0..1 PROVE i = 0 \/ i = 1
  OBVIOUS
<1>3. ASSUME NEW i \in 0..1, Phy!WriteAcc(i) \/ Phy!Poll(i) \/ Phy!PollAgain(i) PROVE PhyIInv'
  BY <1>1, <1>2, <1>3, Write0Step, Write1Step, PollOnStep, ReturnStep
     DEF Phy!PollAgain, Phy!vars, phyVars
<1>4. ASSUME NEW i \in 0..1, Phy!Execute(i) PROVE PhyIInv'
  BY <1>2, <1>4, Execute0Step, Execute1Step
<1> QED
  BY <1>1, <1>3, <1>4, BeginStep, ErrorStep, ReadyStep DEF Phy!Next, Phy!Driver, Phy!Device

\* An access to the PHY that returned 0 has written or read its register, whatever failed
\* before it, and adin1110_setup_phy has ended the power-down (adin1110.c:182-367, 798-809).
THEOREM PhyAccessed == FairSpec => []PhyInv
<1>1. Init => PhyIInv
  BY InitPhy DEF Init
<1>2. PhyIInv /\ [Next]_vars => PhyIInv'
  <2>1. [Next]_vars => [Phy!Next]_phyVars
    BY DEF Next, vars
  <2> QED
    BY <2>1, NextPhy
<1>3. PhyIInv => PhyInv
  <2> SUFFICES ASSUME PhyIInv PROVE Phy!PhyInv
    BY DEF PhyInv
  <2>1. Phy!WritesArrive
    BY DEF PhyIInv, Effect, Phy!WritesArrive, Written, DataGiven
  <2>2. Phy!PoweredUp
    BY DEF PhyIInv, Ended, Phy!PoweredUp
  <2> QED
    BY <2>1, <2>2 DEF PhyIInv, Phy!PhyInv
<1> QED
  BY <1>1, <1>2, <1>3, PTL DEF FairSpec
-----------------------------------------------------------------------------
(* The address filter.                                                      *)

Addrs == Filter!Addrs
Entries == Filter!Entries
Registers == [0..N -> [on : BOOLEAN, u : Uppers \cup {0}, l : Lowers \cup {0}]]

\* The call under way and the entry it is at.
Calling == call # Filter!Idle
Entry == reg[call.i]

\* The registers r without the entries H hold the address a. For an address that
\* is not in S, they do when it was set and not into a full table (w, f), and only
\* when it was set or is what a half-written entry stands for (t).
Forwards(r, a, H) == \E i \in Entries \ H : Filter!Holds(r[i], a)
Owed(w, t, a) == a \in w \/ (a.l = 0 /\ a.u \in t)
Serves(r, w, f, t, S, H) ==
    \A a \in Addrs \ S : /\ a \in w \ f => Forwards(r, a, H)
                         /\ Forwards(r, a, H) => Owed(w, t, a)

\* The entries of the registers r that neither are free nor forward one of w.
Spoilt(r, w) ==
    {i \in Entries : ~Filter!Free(r[i]) /\ ~\E a \in w : Filter!Holds(r[i], a)}

\* Both calls stay in the table while they search. Set has found a free entry, and
\* fills it register by register, or goes on behind the table.
SetAt == Calling /\ call.what = "set" =>
    /\ call.at \in {"upr", "lwr"} => call.i < N
    /\ call.at = "lwr" => ~Entry.on /\ Entry.u = 0
    /\ call.at = "wupr" /\ call.i < N => Filter!Free(Entry)
    /\ call.at = "wlwr" /\ call.i < N => Entry = [on |-> TRUE, u |-> call.a.u, l |-> 0]

\* Clear has found an entry with the address, and has left none behind.
ClearAt == Calling /\ call.what = "clear" =>
    /\ call.i < N
    /\ call.at = "lwr" => Entry.u = call.a.u
    /\ call.at = "wupr" => Entry.u = call.a.u /\ Entry.l = call.a.l
    /\ call.at = "wlwr" => ~Entry.on /\ Entry.u = 0
    /\ \A j \in 0..call.i - 1 : ~Filter!Holds(reg[j], call.a)

\* The call under way is in doubt, as are those that failed, and the entry that is
\* half written does not count: it is not yet spoilt, nor does it serve.
Doubtful == unsure \cup (IF Calling THEN {call.a} ELSE {})
HalfWritten == IF Calling /\ call.at = "wlwr" THEN {call.i} ELSE {}
Told == Serves(reg, wanted, full, torn, Doubtful, HalfWritten)
Paid == Filter!Cardinality(Spoilt(reg, wanted) \ HalfWritten) <= fails

FilterIInv == Filter!TypeOK /\ SetAt /\ ClearAt /\ Told /\ Paid

\* What the model takes for granted of the table.
LEMMA TableFacts ==
    /\ N \in Nat \ {0} /\ MaxFails \in Nat /\ Uppers \cup Lowers \subseteq Nat
    /\ Entries = 0..N - 1 /\ N \notin Entries
<1>1. N \in Nat \ {0} /\ MaxFails \in Nat /\ Uppers \cup Lowers \subseteq Nat
  BY DriverAssumption DEF Filter!FilterAssumption
<1> QED
  BY <1>1 DEF Entries, Filter!Entries

\* Counting entries.
LEMMA EntryCards ==
    ASSUME NEW R, R \subseteq Entries, NEW T, T \subseteq R, NEW e
    PROVE  /\ Filter!Cardinality(R) \in Nat /\ Filter!Cardinality(T) \in Nat
           /\ Filter!Cardinality(T) <= Filter!Cardinality(R)
           /\ Filter!Cardinality(T \cup {e}) \in Nat
           /\ Filter!Cardinality(T \cup {e}) <= Filter!Cardinality(T) + 1
           /\ Filter!Cardinality(T \ {e}) \in Nat
           /\ Filter!Cardinality(T) <= Filter!Cardinality(T \ {e}) + 1
<1>1. \A S : Filter!Cardinality(S) = Cardinality(S)
  BY DEF Filter!Cardinality, Cardinality
<1>2. IsFiniteSet(R)
  <2>1. IsFiniteSet(0..N - 1)
    BY TableFacts, FS_Interval
  <2> QED
    BY <2>1, TableFacts, FS_Subset
<1>3. /\ IsFiniteSet(T) /\ Cardinality(T) <= Cardinality(R)
      /\ Cardinality(T) \in Nat /\ Cardinality(R) \in Nat
  BY <1>2, FS_Subset, FS_CardinalityType
<1>4. Cardinality(T \cup {e}) = IF e \in T THEN Cardinality(T) ELSE Cardinality(T) + 1
  BY <1>3, FS_AddElement
<1>5. Cardinality(T \ {e}) = IF e \in T THEN Cardinality(T) - 1 ELSE Cardinality(T)
  BY <1>3, FS_RemoveElement
<1>6. Cardinality(T \ {e}) \in Nat
  BY <1>3, FS_RemoveElement, FS_CardinalityType
<1> QED
  BY <1>1, <1>3, <1>4, <1>5, <1>6

\* An entry that holds no address that counts may be written and left out.
LEMMA EntryOut ==
    ASSUME NEW r, NEW q, NEW e, NEW w, NEW f, NEW t, NEW S, NEW H, H \subseteq {e},
           Serves(r, w, f, t, S, H), \A j \in Entries \ {e} : q[j] = r[j],
           \A a \in Addrs \ S : e \in Entries \ H => ~Filter!Holds(r[e], a)
    PROVE  Serves(q, w, f, t, S, {e})
<1>1. ASSUME NEW a \in Addrs \ S PROVE Forwards(q, a, {e}) <=> Forwards(r, a, H)
  <2>1. ASSUME NEW j \in Entries \ {e} PROVE Filter!Holds(q[j], a) <=> Filter!Holds(r[j], a)
    BY <2>1 DEF Filter!Holds
  <2>2. \A j \in Entries \ H : j = e => ~Filter!Holds(r[j], a)
    OBVIOUS
  <2> QED
    BY <2>1, <2>2 DEF Forwards
<1> QED
  BY <1>1 DEF Serves

\* An entry that was left out counts again: it holds no address but those owed.
LEMMA EntryIn ==
    ASSUME NEW q, NEW e, NEW w, NEW f, NEW t, NEW S, Serves(q, w, f, t, S, {e}),
           \A a \in Addrs \ S : e \in Entries /\ Filter!Holds(q[e], a) => Owed(w, t, a)
    PROVE  Serves(q, w, f, t, S, {})
<1>1. ASSUME NEW a \in Addrs \ S PROVE Forwards(q, a, {e}) => Forwards(q, a, {})
  BY DEF Forwards
<1>2. ASSUME NEW a \in Addrs \ S, Forwards(q, a, {})
      PROVE  Forwards(q, a, {e}) \/ Owed(w, t, a)
  BY <1>2 DEF Forwards
<1> QED
  BY <1>1, <1>2 DEF Serves

\* A call has a purpose, an address, an entry and a register that comes next.
Active == [what : {"set", "clear"}, a : Addrs, i : 0..N, at : {"upr", "lwr", "wupr", "wlwr"}]

\* A call is under way, or there is none.
LEMMA CallShape == Filter!Calls = Active \cup {Filter!Idle} /\ Filter!Idle \notin Active
BY DEF Filter!Calls, Filter!Idle, Active, Addrs

\* A call that is done with its entry goes on to the next, or behind the table, or
\* returns: what it leaves in the registers is then what counts.
LEMMA EntryPassed ==
    ASSUME Filter!TypeOK, Calling, call.i < N, Filter!NextEntry, fails' = fails,
           reg' \in Registers,
           call.what = "clear" => \A j \in 0..call.i : ~Filter!Holds(reg'[j], call.a),
           Serves(reg', wanted, full, torn, unsure \cup {call.a}, {}),
           Filter!Cardinality(Spoilt(reg', wanted)) <= fails
    PROVE  FilterIInv'
<1>1. call \in Active /\ N \in Nat \ {0} /\ Entries = 0..N - 1
  BY CallShape, TableFacts DEF Filter!TypeOK, Calling
<1>2. CASE call.i + 1 < N \/ call.what = "set"
  <2>1. call' = [call EXCEPT !.i = @ + 1, !.at = IF call.i + 1 < N THEN "upr" ELSE "wupr"]
        /\ wanted' = wanted /\ unsure' = unsure /\ full' = full /\ torn' = torn
    BY <1>2 DEF Filter!NextEntry, Filter!Stay
  <2>2. PICK l \in {"upr", "wupr"} :
            l = (IF call.i + 1 < N THEN "upr" ELSE "wupr")
            /\ call' = [call EXCEPT !.i = call.i + 1, !.at = l]
    BY <2>1
  <2>3. call.i + 1 \in 0..N
    BY <1>1 DEF Active
  <2>4. /\ call' \in Active /\ call' # Filter!Idle
        /\ call'.what = call.what /\ call'.a = call.a /\ call'.i = call.i + 1 /\ call'.at = l
    <3>1. call' \in Active
      BY <1>1, <2>2, <2>3 DEF Active
    <3>2. call'.what = call.what /\ call'.a = call.a /\ call'.i = call.i + 1 /\ call'.at = l
      BY <1>1, <2>2 DEF Active
    <3> QED
      BY <3>1, <3>2, CallShape
  <2>5. Filter!TypeOK'
    BY <2>1, <2>4, CallShape DEF Filter!TypeOK, Registers
  <2>6. SetAt'
    BY <1>1, <2>2, <2>4 DEF SetAt, Active
  <2>7. ClearAt'
    <3>1. call.what = "clear" => call.i + 1 < N /\ l = "upr"
      BY <1>2, <2>2
    <3>2. 0..call'.i - 1 = 0..call.i
      BY <1>1, <2>4 DEF Active
    <3> QED
      BY <2>4, <3>1, <3>2 DEF ClearAt
  <2>8. Told'
    <3>1. HalfWritten' = {} /\ Doubtful' = unsure \cup {call.a}
      BY <2>1, <2>4 DEF HalfWritten, Doubtful, Calling
    <3> QED
      BY <2>1, <3>1 DEF Told
  <2>9. Paid'
    <3>1. HalfWritten' = {}
      BY <2>4 DEF HalfWritten
    <3>2. Spoilt(reg', wanted') \ HalfWritten' = Spoilt(reg', wanted)
      BY <2>1, <3>1
    <3> QED
      BY <3>2 DEF Paid
  <2> QED
    BY <2>5, <2>6, <2>7, <2>8, <2>9 DEF FilterIInv
<1>3. CASE ~(call.i + 1 < N \/ call.what = "set")
  <2>1. /\ call' = Filter!Idle /\ unsure' = unsure \ {call.a} /\ wanted' = wanted \ {call.a}
        /\ full' = full \ {call.a}
        /\ torn' = IF call.a.l = 0 THEN torn \ {call.a.u} ELSE torn
    BY <1>1, <1>3 DEF Filter!NextEntry, Filter!Return, Active
  <2>2. call.what = "clear" /\ call.i = N - 1
    BY <1>1, <1>3 DEF Active
  <2>3. \A j \in Entries : ~Filter!Holds(reg'[j], call.a)
    BY <1>1, <2>2
  <2>4. Filter!TypeOK'
    BY <2>1 DEF Filter!TypeOK, Registers, Filter!Calls
  <2>5. ~Calling'
    BY <2>1 DEF Calling
  <2>6. Told'
    <3>1. ~Forwards(reg', call.a, {})
      BY <2>3 DEF Forwards
    <3>2. ASSUME NEW b \in Addrs \ (unsure \ {call.a}), b # call.a, Owed(wanted, torn, b)
          PROVE  Owed(wanted', torn', b)
      <4>1. call.a \in Addrs
        BY <1>1 DEF Active
      <4>2. b.u = call.a.u /\ b.l = call.a.l => b = call.a
        BY <4>1 DEF Addrs, Filter!Addrs
      <4> QED
        BY <2>1, <3>2, <4>2 DEF Owed
    <3>3. Serves(reg', wanted', full', torn', unsure \ {call.a}, {})
      <4>1. call.a \notin wanted'
        BY <2>1
      <4>2. ASSUME NEW b \in Addrs \ (unsure \ {call.a}), b # call.a
            PROVE  /\ b \in wanted' \ full' => Forwards(reg', b, {})
                   /\ Forwards(reg', b, {}) => Owed(wanted', torn', b)
        BY <2>1, <3>2, <4>2 DEF Serves
      <4> QED
        BY <3>1, <4>1, <4>2 DEF Serves
    <3>4. Doubtful' = unsure \ {call.a} /\ HalfWritten' = {}
      BY <2>1, <2>5 DEF Doubtful, HalfWritten
    <3> QED
      BY <3>3, <3>4 DEF Told
  <2>7. Paid'
    <3>1. Spoilt(reg', wanted \ {call.a}) = Spoilt(reg', wanted)
      BY <2>3 DEF Spoilt
    <3>2. Spoilt(reg', wanted') \ HalfWritten' = Spoilt(reg', wanted)
      BY <2>1, <2>5, <3>1 DEF HalfWritten
    <3> QED
      BY <3>2 DEF Paid
  <2> QED
    BY <2>4, <2>5, <2>6, <2>7 DEF FilterIInv, SetAt, ClearAt
<1> QED
  BY <1>2, <1>3

\* A write changes its entry only, which holds no address of others: set writes into
\* a free entry or behind the table, clear takes its address out.
LEMMA WrittenKeeps ==
    ASSUME FilterIInv, Calling, call.at \in {"wupr", "wlwr"}
    PROVE  /\ Filter!Written \in Registers
           /\ \A j \in 0..N : j # call.i => Filter!Written[j] = reg[j]
           /\ Serves(Filter!Written, wanted, full, torn, unsure \cup {call.a}, {call.i})
           /\ Spoilt(Filter!Written, wanted) \ {call.i} \subseteq Spoilt(reg, wanted) \ HalfWritten
           /\ LET new == Filter!Written[call.i]
              IN  /\ call.at = "wupr" => /\ new.on = Filter!NewUpr.on /\ new.u = Filter!NewUpr.u
                                         /\ new.l = Entry.l
                  /\ call.at = "wlwr" => /\ new.on = Entry.on /\ new.u = Entry.u
                                         /\ new.l = Filter!NewLwr
<1> DEFINE q == Filter!Written
<1>1. call \in Active /\ N \in Nat \ {0} /\ Entries = 0..N - 1 /\ reg \in Registers
  BY CallShape, TableFacts DEF FilterIInv, Filter!TypeOK, Calling, Registers
<1>2. /\ call.what \in {"set", "clear"} /\ call.a \in Addrs /\ call.i \in 0..N
      /\ call.a.u \in Uppers /\ call.a.l \in Lowers
      /\ Entry \in [on : BOOLEAN, u : Uppers \cup {0}, l : Lowers \cup {0}]
  BY <1>1 DEF Active, Addrs, Filter!Addrs, Entry, Registers
<1>3. /\ Filter!NewUpr.on \in BOOLEAN /\ Filter!NewUpr.u \in Uppers \cup {0}
      /\ Filter!NewLwr \in Lowers \cup {0}
  BY <1>2 DEF Filter!NewUpr, Filter!NewLwr
<1> DEFINE Same == q \in Registers /\ \A j \in 0..N : j # call.i => q[j] = reg[j]
<1>4. Doubtful = unsure \cup {call.a} /\ HalfWritten \subseteq {call.i}
  BY DEF Doubtful, HalfWritten
<1>5. ASSUME Same,
             \A b \in Addrs \ Doubtful :
                 call.i \in Entries \ HalfWritten => ~Filter!Holds(reg[call.i], b)
      PROVE  /\ Serves(q, wanted, full, torn, unsure \cup {call.a}, {call.i})
             /\ Spoilt(q, wanted) \ {call.i} \subseteq Spoilt(reg, wanted) \ HalfWritten
  <2> HIDE DEF q
  <2>1. \A j \in Entries \ {call.i} : q[j] = reg[j]
    BY <1>1, <1>5
  <2>2. Serves(reg, wanted, full, torn, Doubtful, HalfWritten)
    BY DEF FilterIInv, Told
  <2>3. Serves(q, wanted, full, torn, Doubtful, {call.i})
    BY ONLY <1>4, <1>5, <2>1, <2>2, EntryOut
  <2>4. Spoilt(q, wanted) \ {call.i} \subseteq Spoilt(reg, wanted)
    BY <2>1 DEF Spoilt
  <2> QED
    BY <1>4, <2>3, <2>4
<1>6. CASE call.at = "wupr"
  <2>1. q = [reg EXCEPT ![call.i].on = Filter!NewUpr.on, ![call.i].u = Filter!NewUpr.u]
    BY <1>6 DEF Filter!Written
  <2>2. q = [reg EXCEPT ![call.i] = [Entry EXCEPT !.on = Filter!NewUpr.on, !.u = Filter!NewUpr.u]]
    BY <1>1, <1>2, <2>1 DEF Registers, Entry
  <2>3. /\ Same
        /\ q[call.i].l = Entry.l /\ q[call.i].on = Filter!NewUpr.on /\ q[call.i].u = Filter!NewUpr.u
    BY <1>1, <1>2, <1>3, <2>2 DEF Registers
  <2> HIDE DEF q
  <2>4. ASSUME NEW b \in Addrs \ Doubtful, call.i \in Entries PROVE ~Filter!Holds(Entry, b)
    <3>1. CASE call.what = "set"
      <4>1. ~Entry.on
        BY <1>1, <1>6, <2>4, <3>1 DEF FilterIInv, SetAt, Filter!Free, Filter!Zero
      <4> QED
        BY <4>1 DEF Filter!Holds
    <3>2. CASE call.what = "clear"
      <4>1. Entry.u = call.a.u /\ Entry.l = call.a.l
        BY <1>6, <3>2 DEF FilterIInv, ClearAt
      <4>2. b.u = call.a.u /\ b.l = call.a.l => b = call.a
        BY <1>2 DEF Addrs, Filter!Addrs
      <4>3. b # call.a
        BY <1>4
      <4> QED
        BY <4>1, <4>2, <4>3 DEF Filter!Holds
    <3> QED
      BY <1>2, <3>1, <3>2
  <2>5. /\ Serves(q, wanted, full, torn, unsure \cup {call.a}, {call.i})
        /\ Spoilt(q, wanted) \ {call.i} \subseteq Spoilt(reg, wanted) \ HalfWritten
    BY <1>5, <2>3, <2>4 DEF Entry
  <2> QED
    BY <1>6, <2>3, <2>5 DEF q
<1>7. CASE call.at = "wlwr"
  <2>1. q = [reg EXCEPT ![call.i].l = Filter!NewLwr]
    BY <1>7 DEF Filter!Written
  <2>2. q = [reg EXCEPT ![call.i] = [Entry EXCEPT !.l = Filter!NewLwr]]
    BY <1>1, <1>2, <2>1 DEF Registers, Entry
  <2>3. Same /\ q[call.i].l = Filter!NewLwr /\ q[call.i].on = Entry.on /\ q[call.i].u = Entry.u
    BY <1>1, <1>2, <1>3, <2>2 DEF Registers
  <2> HIDE DEF q
  <2>4. HalfWritten = {call.i}
    BY <1>7 DEF HalfWritten
  <2>5. /\ Serves(q, wanted, full, torn, unsure \cup {call.a}, {call.i})
        /\ Spoilt(q, wanted) \ {call.i} \subseteq Spoilt(reg, wanted) \ HalfWritten
    BY <1>5, <2>3, <2>4
  <2> QED
    BY <1>7, <2>3, <2>5 DEF q
<1> QED
  BY <1>6, <1>7

\* The search goes on in the same entry: what it read there is as it should be.
LEMMA SearchGoesOn ==
    ASSUME FilterIInv, Calling, call.i < N, NEW l \in {"lwr", "wupr"}, Filter!At(l),
           UNCHANGED <<reg, fails, wanted, unsure, full, torn>>, call.at \in {"upr", "lwr"},
           call.what = "set" => /\ ~Entry.on /\ Entry.u = 0
                                /\ l = "wupr" => Filter!Free(Entry),
           call.what = "clear" => /\ Entry.u = call.a.u
                                  /\ l = "wupr" => Entry.l = call.a.l
    PROVE  FilterIInv'
<1>1. call \in Active /\ N \in Nat \ {0}
  BY CallShape, TableFacts DEF FilterIInv, Filter!TypeOK, Calling
<1>2. call' = [call EXCEPT !.at = l]
  BY DEF Filter!At
<1>3. call' \in Active /\ call'.what = call.what /\ call'.a = call.a /\ call'.i = call.i
      /\ call'.at = l
  BY <1>1, <1>2 DEF Active
<1>4. /\ reg' = reg /\ fails' = fails /\ wanted' = wanted /\ unsure' = unsure
      /\ full' = full /\ torn' = torn
  OBVIOUS
<1>5. Calling'
  BY <1>3, CallShape DEF Calling
<1>6. Filter!TypeOK'
  BY <1>3, <1>4, CallShape DEF FilterIInv, Filter!TypeOK
<1>7. Entry' = Entry
  BY <1>3, <1>4 DEF Entry
<1>8. SetAt'
  BY <1>3, <1>7 DEF SetAt
<1>9. ClearAt'
  BY <1>3, <1>4, <1>7 DEF FilterIInv, ClearAt
<1>10. Told'
  <2>1. Doubtful' = Doubtful /\ HalfWritten' = HalfWritten
    BY <1>3, <1>4, <1>5 DEF Doubtful, HalfWritten
  <2> QED
    BY <1>4, <2>1 DEF FilterIInv, Told
<1>11. Paid'
  <2>1. HalfWritten' = {} /\ HalfWritten = {}
    BY <1>3 DEF HalfWritten
  <2> QED
    BY <1>4, <2>1 DEF FilterIInv, Paid
<1> QED
  BY <1>6, <1>8, <1>9, <1>10, <1>11 DEF FilterIInv

\* The search leaves the entry.
LEMMA SearchPasses ==
    ASSUME FilterIInv, Calling, call.i < N, Filter!NextEntry, UNCHANGED <<reg, fails>>,
           call.at \in {"upr", "lwr"},
           call.what = "clear" => ~Filter!Holds(Entry, call.a)
    PROVE  FilterIInv'
<1>1. call \in Active /\ N \in Nat \ {0}
  BY CallShape, TableFacts DEF FilterIInv, Filter!TypeOK, Calling
<1>2. Doubtful = unsure \cup {call.a} /\ HalfWritten = {}
  BY DEF Doubtful, HalfWritten
<1>3. call.what = "clear" => \A j \in 0..call.i : ~Filter!Holds(reg[j], call.a)
  <2>1. \A j \in 0..call.i : j = call.i \/ j \in 0..call.i - 1
    BY <1>1 DEF Active
  <2> QED
    BY <2>1 DEF FilterIInv, ClearAt, Entry
<1>4. Serves(reg, wanted, full, torn, unsure \cup {call.a}, {})
  BY <1>2 DEF FilterIInv, Told
<1>5. Filter!Cardinality(Spoilt(reg, wanted)) <= fails
  <2>1. Spoilt(reg, wanted) \ HalfWritten = Spoilt(reg, wanted)
    BY <1>2
  <2> QED
    BY <2>1 DEF FilterIInv, Paid
<1>6. Filter!TypeOK /\ reg' = reg /\ fails' = fails /\ reg \in Registers
  BY DEF FilterIInv, Filter!TypeOK, Registers
<1> QED
  BY <1>3, <1>4, <1>5, <1>6, EntryPassed

\* The reads of both searches.
LEMMA ReadsKeep ==
    ASSUME FilterIInv,
           Filter!SetReadUpr \/ Filter!SetReadLwr \/ Filter!ClearReadUpr \/ Filter!ClearReadLwr
    PROVE  FilterIInv'
<1>1. Calling
  BY DEF Filter!SetReadUpr, Filter!SetReadLwr, Filter!ClearReadUpr, Filter!ClearReadLwr,
         Calling, Filter!Idle
<1>2. reg' = reg /\ fails' = fails /\ call.at \in {"upr", "lwr"}
  BY DEF Filter!SetReadUpr, Filter!SetReadLwr, Filter!ClearReadUpr, Filter!ClearReadLwr
<1>3. call \in Active
  BY <1>1, CallShape DEF FilterIInv, Filter!TypeOK, Calling
<1>4. call.i < N
  BY <1>1, <1>2, <1>3 DEF FilterIInv, SetAt, ClearAt, Active
<1>5. ASSUME NEW l \in {"lwr", "wupr"}, Filter!At(l), Filter!Stay,
             call.what = "set" => /\ ~Entry.on /\ Entry.u = 0
                                  /\ l = "wupr" => Filter!Free(Entry),
             call.what = "clear" => /\ Entry.u = call.a.u
                                    /\ l = "wupr" => Entry.l = call.a.l
      PROVE  FilterIInv'
  <2>1. UNCHANGED <<reg, fails, wanted, unsure, full, torn>>
    BY <1>2, <1>5 DEF Filter!Stay
  <2> QED
    BY <1>1, <1>2, <1>4, <1>5, <2>1, SearchGoesOn
<1>6. ASSUME Filter!NextEntry, call.what = "clear" => ~Filter!Holds(Entry, call.a)
      PROVE  FilterIInv'
  BY <1>1, <1>2, <1>4, <1>6, SearchPasses
<1>7. CASE Filter!SetReadUpr
  <2>1. /\ call.what = "set"
        /\ \/ ~Entry.on /\ Entry.u = 0 /\ Filter!At("lwr") /\ Filter!Stay
           \/ Filter!NextEntry
    BY <1>7 DEF Filter!SetReadUpr, Entry
  <2> QED
    BY <1>5, <1>6, <2>1
<1>8. CASE Filter!SetReadLwr
  <2>1. /\ call.what = "set" /\ call.at = "lwr"
        /\ \/ Entry.l = 0 /\ Filter!At("wupr") /\ Filter!Stay
           \/ Filter!NextEntry
    BY <1>8 DEF Filter!SetReadLwr, Entry
  <2>2. ~Entry.on /\ Entry.u = 0
    BY <1>1, <2>1 DEF FilterIInv, SetAt
  <2>3. Entry \in [on : BOOLEAN, u : Uppers \cup {0}, l : Lowers \cup {0}]
    BY <1>3 DEF FilterIInv, Filter!TypeOK, Entry, Active
  <2>4. Entry.l = 0 => Filter!Free(Entry)
    BY <2>2, <2>3 DEF Filter!Free, Filter!Zero
  <2> QED
    BY <1>5, <1>6, <2>1, <2>2, <2>4
<1>9. CASE Filter!ClearReadUpr
  <2>1. /\ call.what = "clear"
        /\ \/ Entry.u = call.a.u /\ Filter!At("lwr") /\ Filter!Stay
           \/ Entry.u # call.a.u /\ Filter!NextEntry
    BY <1>9 DEF Filter!ClearReadUpr, Entry
  <2> QED
    BY <1>5, <1>6, <2>1 DEF Filter!Holds
<1>10. CASE Filter!ClearReadLwr
  <2>1. /\ call.what = "clear" /\ call.at = "lwr"
        /\ \/ Entry.l = call.a.l /\ Filter!At("wupr") /\ Filter!Stay
           \/ Entry.l # call.a.l /\ Filter!NextEntry
    BY <1>10 DEF Filter!ClearReadLwr, Entry
  <2>2. Entry.u = call.a.u
    BY <1>1, <2>1 DEF FilterIInv, ClearAt
  <2> QED
    BY <1>5, <1>6, <2>1, <2>2 DEF Filter!Holds
<1> QED
  BY <1>7, <1>8, <1>9, <1>10

\* A write to the upper register.
LEMMA WriteUprKeeps == ASSUME FilterIInv, Filter!WriteUpr PROVE FilterIInv'
<1>1. /\ Calling /\ call.at = "wupr" /\ reg' = Filter!Written /\ call' = [call EXCEPT !.at = "wlwr"]
      /\ fails' = fails /\ wanted' = wanted /\ unsure' = unsure /\ full' = full /\ torn' = torn
  BY DEF Filter!WriteUpr, Filter!At, Filter!Stay, Calling
<1>2. call \in Active /\ N \in Nat \ {0}
  BY <1>1, CallShape, TableFacts DEF FilterIInv, Filter!TypeOK, Calling
<1>3. call' \in Active /\ call'.what = call.what /\ call'.a = call.a /\ call'.i = call.i
      /\ call'.at = "wlwr"
  BY <1>1, <1>2 DEF Active
<1>4. Calling'
  BY <1>3, CallShape DEF Calling
<1>5. /\ reg' \in Registers
      /\ \A j \in 0..N : j # call.i => reg'[j] = reg[j]
      /\ Serves(reg', wanted, full, torn, unsure \cup {call.a}, {call.i})
      /\ Spoilt(reg', wanted) \ {call.i} \subseteq Spoilt(reg, wanted) \ HalfWritten
      /\ reg'[call.i].on = Filter!NewUpr.on /\ reg'[call.i].u = Filter!NewUpr.u
      /\ reg'[call.i].l = Entry.l
  BY <1>1, WrittenKeeps
<1>6. Filter!TypeOK'
  BY <1>1, <1>3, <1>5, CallShape DEF FilterIInv, Filter!TypeOK, Registers
<1>7. SetAt'
  <2> SUFFICES ASSUME call.what = "set"
               PROVE  call.i < N => reg'[call.i] = [on |-> TRUE, u |-> call.a.u, l |-> 0]
    BY <1>3 DEF SetAt, Entry
  <2>1. Filter!NewUpr.on = TRUE /\ Filter!NewUpr.u = call.a.u
    BY DEF Filter!NewUpr
  <2>2. call.i < N => Entry.l = 0
    BY <1>1 DEF FilterIInv, SetAt, Filter!Free, Filter!Zero
  <2>3. reg'[call.i] \in [on : BOOLEAN, u : Uppers \cup {0}, l : Lowers \cup {0}]
    BY <1>2, <1>5 DEF Registers, Active
  <2> QED
    BY <1>5, <2>1, <2>2, <2>3
<1>8. ClearAt'
  <2> SUFFICES ASSUME call.what = "clear"
               PROVE  /\ call.i < N /\ ~reg'[call.i].on /\ reg'[call.i].u = 0
                      /\ \A j \in 0..call.i - 1 : ~Filter!Holds(reg'[j], call.a)
    BY <1>3 DEF ClearAt, Entry
  <2>1. Filter!NewUpr.on = FALSE /\ Filter!NewUpr.u = 0
    BY DEF Filter!NewUpr
  <2>2. call.i < N /\ \A j \in 0..call.i - 1 : ~Filter!Holds(reg[j], call.a)
    BY <1>1 DEF FilterIInv, ClearAt
  <2>3. \A j \in 0..call.i - 1 : j \in 0..N /\ j # call.i
    BY <1>2 DEF Active
  <2> QED
    BY <1>5, <2>1, <2>2, <2>3
<1>9. Told'
  <2>1. Doubtful' = unsure \cup {call.a} /\ HalfWritten' = {call.i}
    BY <1>1, <1>3, <1>4 DEF Doubtful, HalfWritten
  <2> QED
    BY <1>1, <1>5, <2>1 DEF Told
<1>10. Paid'
  <2>1. HalfWritten' = {call.i} /\ HalfWritten = {}
    BY <1>1, <1>3, <1>4 DEF HalfWritten
  <2>2. Spoilt(reg', wanted) \ {call.i} \subseteq Spoilt(reg, wanted)
    BY <1>5
  <2>3. Filter!Cardinality(Spoilt(reg, wanted)) <= fails
    <3>1. Spoilt(reg, wanted) \ HalfWritten = Spoilt(reg, wanted)
      BY <2>1
    <3> QED
      BY <3>1 DEF FilterIInv, Paid
  <2>4. fails \in Nat /\ Spoilt(reg, wanted) \subseteq Entries
    BY TableFacts DEF FilterIInv, Filter!TypeOK, Spoilt
  <2>5. /\ Filter!Cardinality(Spoilt(reg', wanted) \ {call.i})
             <= Filter!Cardinality(Spoilt(reg, wanted))
        /\ Filter!Cardinality(Spoilt(reg', wanted) \ {call.i}) \in Nat
        /\ Filter!Cardinality(Spoilt(reg, wanted)) \in Nat
    BY <2>2, <2>4, EntryCards
  <2>6. Filter!Cardinality(Spoilt(reg', wanted) \ {call.i}) <= fails
    BY <2>3, <2>4, <2>5
  <2> QED
    BY <1>1, <2>1, <2>6 DEF Paid
<1> QED
  BY <1>6, <1>7, <1>8, <1>9, <1>10 DEF FilterIInv

\* A write to the lower register ends what is half written; set returns.
LEMMA WriteLwrKeeps == ASSUME FilterIInv, Filter!WriteLwr PROVE FilterIInv'
<1>1. /\ Calling /\ call.at = "wlwr" /\ reg' = Filter!Written /\ fails' = fails
      /\ \/ call.what = "set" /\ Filter!Return
         \/ call.what # "set" /\ Filter!NextEntry
  BY DEF Filter!WriteLwr, Filter!AfterClear, Calling
<1>2. call \in Active /\ N \in Nat \ {0} /\ Entries = 0..N - 1
  BY <1>1, CallShape, TableFacts DEF FilterIInv, Filter!TypeOK, Calling
<1>3. /\ reg' \in Registers
      /\ \A j \in 0..N : j # call.i => reg'[j] = reg[j]
      /\ Serves(reg', wanted, full, torn, unsure \cup {call.a}, {call.i})
      /\ Spoilt(reg', wanted) \ {call.i} \subseteq Spoilt(reg, wanted) \ HalfWritten
      /\ reg'[call.i].on = Entry.on /\ reg'[call.i].u = Entry.u
      /\ reg'[call.i].l = Filter!NewLwr
  BY <1>1, WrittenKeeps
<1>4. Doubtful = unsure \cup {call.a} /\ HalfWritten = {call.i}
  BY <1>1 DEF Doubtful, HalfWritten
<1>5. reg'[call.i] \in [on : BOOLEAN, u : Uppers \cup {0}, l : Lowers \cup {0}]
  BY <1>2, <1>3 DEF Registers, Active
<1>6. Filter!Cardinality(Spoilt(reg, wanted) \ {call.i}) <= fails
  BY <1>4 DEF FilterIInv, Paid
<1>7. ASSUME NEW T, T \subseteq Spoilt(reg, wanted) \ {call.i}
      PROVE  Filter!Cardinality(T) <= fails
  <2> DEFINE R == Spoilt(reg, wanted) \ {call.i}
  <2>1. R \subseteq Entries /\ fails \in Nat
    BY TableFacts DEF Spoilt, FilterIInv, Filter!TypeOK
  <2>2. /\ Filter!Cardinality(T) <= Filter!Cardinality(R)
        /\ Filter!Cardinality(T) \in Nat /\ Filter!Cardinality(R) \in Nat
    BY <1>7, <2>1, EntryCards
  <2> QED
    BY <1>6, <2>1, <2>2
<1>8. CASE call.what = "set"
  <2>1. /\ call' = Filter!Idle /\ unsure' = unsure \ {call.a} /\ wanted' = wanted \cup {call.a}
        /\ full' = IF call.i = N THEN full \cup {call.a} ELSE full \ {call.a}
        /\ torn' = torn
    BY <1>1, <1>8 DEF Filter!Return
  <2>2. Filter!NewLwr = call.a.l
    BY <1>8 DEF Filter!NewLwr
  <2>3. call.i < N => Filter!Holds(reg'[call.i], call.a)
    <3>1. call.i < N => Entry.on /\ Entry.u = call.a.u
      BY <1>1, <1>8 DEF FilterIInv, SetAt
    <3> QED
      BY <1>3, <2>2, <3>1 DEF Filter!Holds
  <2>5. ~Calling'
    BY <2>1 DEF Calling
  <2>6. Filter!TypeOK'
    BY <1>1, <1>2, <1>3, <2>1, CallShape DEF FilterIInv, Filter!TypeOK, Registers, Active, Addrs
  <2>7. Told'
    <3>1. Doubtful' = unsure \ {call.a} /\ HalfWritten' = {}
      BY <2>1, <2>5 DEF Doubtful, HalfWritten
    <3>2. call.i < N => Forwards(reg', call.a, {})
      BY <1>2, <2>3 DEF Forwards, Active
    <3>3. ASSUME NEW b \in Addrs \ (unsure \ {call.a}), b # call.a
          PROVE  Forwards(reg', b, {}) <=> Forwards(reg', b, {call.i})
      <4>1. call.i < N => reg'[call.i].u = call.a.u /\ reg'[call.i].l = call.a.l
        BY <2>3 DEF Filter!Holds
      <4>2. b.u = call.a.u /\ b.l = call.a.l => b = call.a
        BY <1>2 DEF Active, Addrs, Filter!Addrs
      <4>3. call.i \in Entries => ~Filter!Holds(reg'[call.i], b)
        BY <1>2, <3>3, <4>1, <4>2 DEF Filter!Holds
      <4> QED
        BY <4>3 DEF Forwards
    <3>4. ASSUME NEW b \in Addrs \ (unsure \ {call.a}), b # call.a
          PROVE  /\ b \in wanted' \ full' => Forwards(reg', b, {})
                 /\ Forwards(reg', b, {}) => Owed(wanted', torn', b)
      <4>1. /\ b \in wanted \ full => Forwards(reg', b, {call.i})
            /\ Forwards(reg', b, {call.i}) => Owed(wanted, torn, b)
        BY <1>3, <3>4 DEF Serves
      <4>2. b \in wanted' \ full' => b \in wanted \ full
        BY <2>1, <3>4
      <4>3. Owed(wanted, torn, b) => Owed(wanted', torn', b)
        BY <2>1 DEF Owed
      <4> QED
        BY <3>3, <3>4, <4>1, <4>2, <4>3
    <3>5. /\ call.a \in wanted' \ full' => Forwards(reg', call.a, {})
          /\ Owed(wanted', torn', call.a)
      BY <1>2, <2>1, <3>2 DEF Owed, Active
    <3>6. Serves(reg', wanted', full', torn', unsure \ {call.a}, {})
      BY <3>4, <3>5 DEF Serves
    <3> QED
      BY <3>1, <3>6 DEF Told
  <2>8. Paid'
    <3>1. Spoilt(reg', wanted') \ HalfWritten' \subseteq Spoilt(reg, wanted) \ {call.i}
      <4>1. Spoilt(reg', wanted') \ HalfWritten' \subseteq Spoilt(reg', wanted)
        BY <2>1 DEF Spoilt
      <4>2. call.i \notin Spoilt(reg', wanted')
        BY <1>2, <2>1, <2>3 DEF Spoilt
      <4> QED
        BY <1>3, <1>4, <4>1, <4>2
    <3> QED
      BY <1>1, <1>7, <3>1 DEF Paid
  <2> QED
    BY <2>5, <2>6, <2>7, <2>8 DEF FilterIInv, SetAt, ClearAt
<1>9. CASE call.what = "clear"
  <2>1. Filter!NextEntry
    BY <1>1, <1>9
  <2>2. Filter!NewLwr = 0
    BY <1>9 DEF Filter!NewLwr
  <2>3. /\ call.i < N /\ ~Entry.on /\ Entry.u = 0
        /\ \A j \in 0..call.i - 1 : ~Filter!Holds(reg[j], call.a)
    BY <1>1, <1>9 DEF FilterIInv, ClearAt
  <2>4. Filter!Free(reg'[call.i]) /\ ~Filter!Holds(reg'[call.i], call.a)
    BY <1>3, <1>5, <2>2, <2>3 DEF Filter!Free, Filter!Zero, Filter!Holds
  <2>5. \A j \in 0..call.i : ~Filter!Holds(reg'[j], call.a)
    <3>1. \A j \in 0..call.i : j = call.i \/ (j \in 0..call.i - 1 /\ j \in 0..N)
      BY <1>2 DEF Active
    <3> QED
      BY <1>3, <2>3, <2>4, <3>1
  <2>6. Spoilt(reg', wanted) \subseteq Spoilt(reg, wanted) \ {call.i}
    <3>1. call.i \notin Spoilt(reg', wanted)
      BY <2>4 DEF Spoilt
    <3> QED
      BY <1>3, <1>4, <3>1
  <2>7. Filter!Cardinality(Spoilt(reg', wanted)) <= fails
    BY <1>7, <2>6
  <2>8. Serves(reg', wanted, full, torn, unsure \cup {call.a}, {})
    <3>1. ~reg'[call.i].on
      BY <1>3, <2>3
    <3>2. \A b : ~Filter!Holds(reg'[call.i], b)
      BY <3>1 DEF Filter!Holds
    <3> QED
      BY ONLY <1>3, <3>2, EntryIn
  <2> QED
    BY <1>1, <1>3, <2>1, <2>3, <2>5, <2>7, <2>8, EntryPassed DEF FilterIInv
<1> QED
  BY <1>2, <1>8, <1>9 DEF Active

\* An access fails: one entry may stay half written, and the address is in doubt.
LEMMA FailedKeeps == ASSUME FilterIInv, Filter!Fail PROVE FilterIInv'
<1>1. /\ Calling /\ fails < MaxFails /\ fails' = fails + 1
      /\ reg' = reg \/ reg' = Filter!Written
      /\ call' = Filter!Idle /\ unsure' = unsure \cup {call.a} /\ wanted' = wanted
      /\ full' = full
      /\ torn' = IF call.what = "set" /\ call.at \in {"wupr", "wlwr"}
                 THEN torn \cup {call.a.u} ELSE torn
  BY DEF Filter!Fail, Calling
<1>2. call \in Active /\ N \in Nat \ {0} /\ Entries = 0..N - 1
  BY <1>1, CallShape, TableFacts DEF FilterIInv, Filter!TypeOK, Calling
<1>3. ~Calling'
  BY <1>1 DEF Calling
<1>4. Doubtful = unsure \cup {call.a} /\ Doubtful' = unsure \cup {call.a}
  BY <1>1, <1>3 DEF Doubtful
<1>5. HalfWritten \subseteq {call.i} /\ HalfWritten' = {}
  BY <1>3 DEF HalfWritten
<1>6. /\ reg' \in Registers
      /\ Spoilt(reg', wanted) \ {call.i} \subseteq Spoilt(reg, wanted) \ HalfWritten
  <2>1. CASE reg' = reg
    BY <1>5, <2>1 DEF FilterIInv, Filter!TypeOK, Registers
  <2>2. CASE reg' = Filter!Written
    <3>1. CASE call.at \in {"wupr", "wlwr"}
      BY <1>1, <2>2, <3>1, WrittenKeeps
    <3>2. CASE call.at \notin {"wupr", "wlwr"}
      BY <1>5, <2>2, <3>2 DEF FilterIInv, Filter!TypeOK, Registers, Filter!Written
    <3> QED
      BY <3>1, <3>2
  <2> QED
    BY <1>1, <2>1, <2>2
<1>7. Filter!TypeOK'
  <2>1. call.a.u \in Uppers /\ call.a \in Addrs
    BY <1>2 DEF Active, Addrs, Filter!Addrs
  <2>2. torn' \subseteq Uppers
    BY <1>1, <2>1 DEF FilterIInv, Filter!TypeOK
  <2> QED
    BY <1>1, <1>6, <2>1, <2>2, CallShape, TableFacts
    DEF FilterIInv, Filter!TypeOK, Registers, Addrs
<1>8. Told'
  <2> DEFINE S == unsure \cup {call.a}
  <2>1. ASSUME NEW H, Serves(reg', wanted, full, torn, S, H)
        PROVE  Serves(reg', wanted, full, torn', S, H)
    <3>1. torn \subseteq torn'
      BY <1>1
    <3> QED
      BY <2>1, <3>1 DEF Serves, Owed
  <2>2. CASE call.at \notin {"wupr", "wlwr"}
    <3>1. reg' = reg /\ HalfWritten = {}
      BY <1>1, <2>2 DEF Filter!Written, HalfWritten
    <3>2. Serves(reg', wanted, full, torn, S, {})
      BY <1>4, <3>1 DEF FilterIInv, Told
    <3> QED
      BY <1>1, <1>4, <1>5, <2>1, <3>2 DEF Told
  <2>3. CASE call.at \in {"wupr", "wlwr"}
    <3>1. /\ Serves(Filter!Written, wanted, full, torn, S, {call.i})
          /\ LET new == Filter!Written[call.i]
             IN  /\ call.at = "wupr" => /\ new.on = Filter!NewUpr.on /\ new.u = Filter!NewUpr.u
                                        /\ new.l = Entry.l
                 /\ call.at = "wlwr" => /\ new.on = Entry.on /\ new.u = Entry.u
                                        /\ new.l = Filter!NewLwr
      BY <1>1, <2>3, WrittenKeeps
    <3>2. ASSUME NEW b \in Addrs \ S, call.i \in Entries, Filter!Holds(reg[call.i], b),
                 call.at = "wlwr"
          PROVE  b.l = 0 /\ b.u = call.a.u /\ call.what = "set"
      <4>1. call.i < N
        BY <1>2, <3>2
      <4> QED
        BY <1>1, <1>2, <3>2, <4>1 DEF FilterIInv, SetAt, ClearAt, Filter!Holds, Entry, Active
    <3>3. ASSUME NEW b \in Addrs \ S, call.i \in Entries,
                 Filter!Holds(Filter!Written[call.i], b)
          PROVE  b.l = 0 /\ b.u = call.a.u /\ call.what = "set"
      <4>1. call.i < N
        BY <1>2, <3>3
      <4>2. CASE call.at = "wupr"
        <5>1. Filter!NewUpr.on /\ b.u = Filter!NewUpr.u /\ b.l = Entry.l
          BY <3>1, <3>3, <4>2 DEF Filter!Holds
        <5>2. call.what = "set" /\ b.u = call.a.u
          BY <5>1 DEF Filter!NewUpr
        <5>3. Entry.l = 0
          BY <1>1, <4>1, <4>2, <5>2 DEF FilterIInv, SetAt, Filter!Free, Filter!Zero
        <5> QED
          BY <5>1, <5>2, <5>3
      <4>3. CASE call.at = "wlwr"
        <5>1. Entry.on /\ b.u = Entry.u /\ b.l = Filter!NewLwr
          BY <3>1, <3>3, <4>3 DEF Filter!Holds
        <5>2. call.what = "set"
          BY <1>1, <1>2, <4>3, <5>1 DEF FilterIInv, ClearAt, Active
        <5>3. b.u = call.a.u /\ b.l = call.a.l
          BY <1>1, <4>1, <4>3, <5>1, <5>2 DEF FilterIInv, SetAt, Filter!NewLwr
        <5>4. b = call.a
          BY <1>2, <5>3 DEF Active, Addrs, Filter!Addrs
        <5> QED
          BY <5>4
      <4> QED
        BY <2>3, <4>2, <4>3
    <3>4. CASE reg' = Filter!Written
      <4>1. \A b \in Addrs \ S : call.i \in Entries /\ Filter!Holds(reg'[call.i], b)
                               => Owed(wanted, torn', b)
        BY <1>1, <2>3, <3>3, <3>4 DEF Owed
      <4>2. Serves(reg', wanted, full, torn', S, {call.i})
        BY <2>1, <3>1, <3>4
      <4>3. Serves(reg', wanted, full, torn', S, {})
        BY ONLY <4>1, <4>2, EntryIn
      <4> QED
        BY <1>1, <1>4, <1>5, <4>3 DEF Told
    <3>5. CASE reg' = reg /\ call.at = "wlwr"
      <4>1. \A b \in Addrs \ S : call.i \in Entries /\ Filter!Holds(reg'[call.i], b)
                               => Owed(wanted, torn', b)
        BY <1>1, <2>3, <3>2, <3>5 DEF Owed
      <4>2. HalfWritten = {call.i}
        BY <1>1, <3>5 DEF HalfWritten
      <4>3. Serves(reg', wanted, full, torn, S, {call.i})
        BY <1>4, <3>5, <4>2 DEF FilterIInv, Told
      <4>4. Serves(reg', wanted, full, torn', S, {call.i})
        BY <2>1, <4>3
      <4>5. Serves(reg', wanted, full, torn', S, {})
        BY ONLY <4>1, <4>4, EntryIn
      <4> QED
        BY <1>1, <1>4, <1>5, <4>5 DEF Told
    <3>6. CASE reg' = reg /\ call.at = "wupr"
      <4>1. HalfWritten = {}
        BY <3>6 DEF HalfWritten
      <4>2. Serves(reg', wanted, full, torn, S, {})
        BY <1>4, <3>6, <4>1 DEF FilterIInv, Told
      <4> QED
        BY <1>1, <1>4, <1>5, <2>1, <4>2 DEF Told
    <3> QED
      BY <1>1, <2>3, <3>4, <3>5, <3>6
  <2> QED
    BY <2>2, <2>3
<1>9. Paid'
  <2> DEFINE Q == Spoilt(reg', wanted)
             R == Spoilt(reg, wanted) \ HalfWritten
  <2>1. R \subseteq Entries /\ Q \subseteq Entries /\ Q \ {call.i} \subseteq R /\ fails \in Nat
    BY <1>6, TableFacts DEF Spoilt, FilterIInv, Filter!TypeOK
  <2>2. Filter!Cardinality(R) <= fails
    BY DEF FilterIInv, Paid
  <2>3. Q \ HalfWritten' = Q
    BY <1>5
  <2> HIDE DEF Q, R
  <2>4. /\ Filter!Cardinality(R) \in Nat /\ Filter!Cardinality(Q \ {call.i}) \in Nat
        /\ Filter!Cardinality(Q \ {call.i}) <= Filter!Cardinality(R)
    BY <2>1, EntryCards
  <2>5. /\ Filter!Cardinality(Q) \in Nat
        /\ Filter!Cardinality(Q) <= Filter!Cardinality(Q \ {call.i}) + 1
    BY <2>1, EntryCards
  <2>6. Filter!Cardinality(Q) <= fails + 1
    BY <2>1, <2>2, <2>4, <2>5
  <2> QED
    BY <1>1, <2>3, <2>6 DEF Paid, Q
<1> QED
  BY <1>3, <1>7, <1>8, <1>9 DEF FilterIInv, SetAt, ClearAt

\* The table is empty when the driver starts.
LEMMA InitFilter == Init => FilterIInv
<1> SUFFICES ASSUME Filter!Init PROVE FilterIInv
  BY DEF Init
<1>1. /\ reg = [i \in 0..N |-> Filter!Zero] /\ call = Filter!Idle /\ fails = 0
      /\ wanted = {} /\ unsure = {} /\ full = {} /\ torn = {}
  BY DEF Filter!Init
<1>2. ~Calling
  BY <1>1 DEF Calling
<1>3. \A i \in Entries : reg[i] = Filter!Zero
  BY <1>1, TableFacts
<1>4. Filter!TypeOK
  BY <1>1, TableFacts, CallShape DEF Filter!TypeOK, Filter!Zero
<1>5. Told
  <2>1. \A a : ~Forwards(reg, a, HalfWritten)
    BY <1>3 DEF Forwards, Filter!Holds, Filter!Zero
  <2> QED
    BY <1>1, <2>1 DEF Told, Serves
<1>6. Paid
  <2>1. Spoilt(reg, wanted) \ HalfWritten = {}
    BY <1>3 DEF Spoilt, Filter!Free
  <2>2. Filter!Cardinality({}) = 0
    <3>1. \A S : Filter!Cardinality(S) = Cardinality(S)
      BY DEF Filter!Cardinality, Cardinality
    <3> QED
      BY <3>1, FS_EmptySet
  <2>3. Filter!Cardinality(Spoilt(reg, wanted) \ HalfWritten) = 0
    BY <2>1, <2>2, Zenon
  <2> QED
    BY <1>1, <2>3 DEF Paid
<1> QED
  BY <1>2, <1>4, <1>5, <1>6 DEF FilterIInv, SetAt, ClearAt

\* A call of adin1110_set_mac_addr, adin1110_clear_mac_addr or adin1110_broadcast_filter.
LEMMA BeginFilterKeeps ==
    ASSUME FilterIInv, NEW what \in {"set", "clear"}, NEW a \in Addrs, Filter!Begin(what, a)
    PROVE  FilterIInv'
<1>1. /\ call = Filter!Idle /\ call' = [what |-> what, a |-> a, i |-> 0, at |-> "upr"]
      /\ reg' = reg /\ fails' = fails /\ wanted' = wanted /\ unsure' = unsure
      /\ full' = full /\ torn' = torn
  BY DEF Filter!Begin, Filter!Stay
<1>2. call' \in Active /\ call'.i = 0 /\ call'.at = "upr" /\ call'.a = a
  BY <1>1, TableFacts DEF Active
<1>3. Calling' /\ ~Calling
  BY <1>1, <1>2, CallShape DEF Calling
<1>4. Filter!TypeOK'
  BY <1>1, <1>2, CallShape DEF FilterIInv, Filter!TypeOK
<1>5. SetAt' /\ ClearAt'
  BY <1>2, TableFacts DEF SetAt, ClearAt
<1>6. Told'
  <2>1. Doubtful = unsure /\ Doubtful' = unsure \cup {a}
    BY <1>1, <1>2, <1>3 DEF Doubtful
  <2>2. HalfWritten = {} /\ HalfWritten' = {}
    BY <1>2, <1>3 DEF HalfWritten
  <2>3. Serves(reg, wanted, full, torn, Doubtful, {})
            => Serves(reg, wanted, full, torn, Doubtful', {})
    BY <2>1 DEF Serves
  <2> QED
    BY <1>1, <2>2, <2>3 DEF FilterIInv, Told
<1>7. Paid'
  <2>1. HalfWritten = {} /\ HalfWritten' = {}
    BY <1>2, <1>3 DEF HalfWritten
  <2> QED
    BY <1>1, <2>1 DEF FilterIInv, Paid
<1> QED
  BY <1>4, <1>5, <1>6, <1>7 DEF FilterIInv

\* The invariant is about the variables of this part of the driver.
LEMMA FilterStutters == ASSUME FilterIInv, UNCHANGED Filter!vars PROVE FilterIInv'
<1>1. /\ reg' = reg /\ call' = call /\ fails' = fails /\ wanted' = wanted /\ unsure' = unsure
      /\ full' = full /\ torn' = torn
  BY DEF Filter!vars
<1>2. Calling' = Calling /\ Entry' = Entry
  BY <1>1 DEF Calling, Entry
<1>3. Doubtful' = Doubtful /\ HalfWritten' = HalfWritten
  BY <1>1, <1>2 DEF Doubtful, HalfWritten
<1>4. Filter!TypeOK' /\ SetAt' /\ ClearAt'
  BY <1>1, <1>2 DEF FilterIInv, Filter!TypeOK, SetAt, ClearAt
<1>5. Told' /\ Paid'
  BY <1>1, <1>3 DEF FilterIInv, Told, Paid
<1> QED
  BY <1>4, <1>5 DEF FilterIInv

\* The invariant gives what is promised of the filter.
LEMMA InvOfFilter == FilterIInv => FilterInv
<1> SUFFICES ASSUME FilterIInv PROVE Filter!FilterInv
  BY DEF FilterInv
<1>1. Filter!ForwardsWanted
  <2>1. call = Filter!Idle => Doubtful = unsure /\ HalfWritten = {}
    BY DEF Doubtful, HalfWritten, Calling
  <2>2. \A a : Filter!Forwarded(a) <=> Forwards(reg, a, {})
    BY DEF Forwards, Filter!Forwarded, Entries
  <2> QED
    BY <2>1, <2>2 DEF FilterIInv, Told, Serves, Owed, Addrs, Filter!ForwardsWanted
<1>2. Filter!OneEntryPerFail
  <2>1. call = Filter!Idle => Spoilt(reg, wanted) \ HalfWritten = Filter!Orphans
    BY DEF HalfWritten, Calling, Spoilt, Entries, Filter!Orphans
  <2> QED
    BY <2>1 DEF FilterIInv, Paid, Filter!OneEntryPerFail
<1> QED
  BY <1>1, <1>2 DEF FilterIInv, Filter!FilterInv

\* Whatever the size of the table and the addresses, zero halves included: between
\* calls it holds every address whose last set found a free entry and that was not
\* cleared since, and no other but what a half-written entry stands for; and each
\* access that failed has spoilt at most one of its entries (adin1110.c:376-480).
THEOREM FilterServes == FairSpec => []FilterInv
<1>1. FilterIInv /\ [Next]_vars => FilterIInv'
  <2>1. [Next]_vars => [Filter!Next]_(Filter!vars)
    BY DEF Next, vars, filterVars, Filter!vars
  <2>2. FilterIInv /\ Filter!Next => FilterIInv'
    BY ReadsKeep, WriteUprKeeps, WriteLwrKeeps, FailedKeeps, BeginFilterKeeps
    DEF Filter!Next, Filter!Access, Addrs
  <2> QED
    BY <2>1, <2>2, FilterStutters
<1> QED
  BY InitFilter, <1>1, InvOfFilter, PTL DEF FairSpec
-----------------------------------------------------------------------------
(* The frame FIFOs.                                                         *)

\* What the theorem takes for granted: the device needs at most one word of its own for
\* a frame, its FIFO and the buffers are shorter than the range of a word and of the
\* HAL's byte counts, and a packet has at least an Ethernet header and fits desc->data
\* with its headers. Nothing is assumed of RX_FSIZE, nor of the old bytes.
FifoSetting ==
    /\ Overhead \in {0, 1} /\ 2 * TxWords <= Word
    /\ 66 <= BuffLen /\ BuffLen < Word /\ BuffLen + 8 <= 65536
    /\ \A n \in TxLens : n \in Nat /\ 14 <= n /\ n + 8 <= BuffLen

Frames == [n : Nat, meant : Nat, whole : BOOLEAN, end : Nat]
Announced == Fifo!PaddedLen(pkt.len)
Used == Fifo!Occupied(tx)

\* The ends of the queued frames, in words from the next to send.
Ends ==
    /\ \A i \in DOMAIN tx : tx[i].end \in Nat
    /\ \A i, j \in DOMAIN tx : i <= j => tx[i].end <= tx[j].end

\* tx_space was read, and the difference of adin1110.c:525 does not wrap.
Tested == space.read /\ 2 <= space.val

\* A frame whose test can be relied on still has its room when it is written, because
\* meanwhile the FIFO only empties; and the sizes that read_fifo copies for passed its
\* test of line 592.
Roomy ==
    /\ Used <= TxWords
    /\ at = "space" => ~overrun
    /\ at \in {"fsize", "frame"} /\ Tested => Used + Fifo!FrameWords(Announced) <= TxWords
    /\ at = "rframe" => 6 <= size
    /\ overrun => ~Tested
    /\ Fifo!CopyInBounds

\* The queued frames whose announcement was aborted, and the one to come.
Misnamed == {i \in DOMAIN tx : tx[i].n # tx[i].meant}
Misannounced == at = "frame" /\ fsize # Announced
Blamed == Cardinality(Misnamed) + (IF Misannounced THEN 1 ELSE 0) <= faults

FifoIInv == Fifo!TypeOK /\ Ends /\ Roomy /\ Blamed
-----------------------------------------------------------------------------
(* Lengths.                                                                 *)

\* SET_ALIGN rounds up to a multiple of four, and what fits the test of adin1110.c:525
\* leaves at least one word of the two that the test keeps free.
LEMMA AlignFacts ==
    ASSUME NEW n \in Nat
    PROVE  /\ Fifo!Align4(n) \in n..n + 3
           /\ Fifo!Align4(n) \div 2 \in Nat
           /\ \A s \in Nat : n <= 2 * (s - 2) => Fifo!Align4(n) \div 2 + 1 <= s
<1> DEFINE q == (n + 3) \div 4
<1>1. q \in Nat /\ 4 * q <= n + 3 /\ n <= 4 * q
  OBVIOUS
<1>2. Fifo!Align4(n) = q * 4
  BY DEF Fifo!Align4
<1> HIDE DEF q
<1>3. (q * 4) \div 2 = 2 * q
  BY <1>1
<1>4. ASSUME NEW s \in Nat, n <= 2 * (s - 2) PROVE 2 * q + 1 <= s
  BY <1>1, <1>4
<1> QED
  BY <1>1, <1>2, <1>3, <1>4

\* A packet fits desc->data, and what is announced for it is its length and its header.
LEMMA PacketFacts ==
    ASSUME FifoSetting, NEW p \in Packets
    PROVE  /\ p.len \in Nat /\ 14 <= p.len /\ p.len + 8 <= BuffLen
           /\ Fifo!PaddedLen(p.len) = IF p.len <= 60 THEN 62 ELSE p.len + 2
<1>1. p.len \in TxLens
  BY DEF Packets
<1>2. p.len \in Nat /\ 14 <= p.len /\ p.len + 8 <= BuffLen
  BY <1>1 DEF FifoSetting
<1> QED
  BY <1>2 DEF Fifo!PaddedLen, Fifo!FcsLen, Fifo!MinFrame, Fifo!HeaderLen

\* The constants are numbers.
LEMMA SettingTypes ==
    ASSUME FifoSetting
    PROVE  /\ BuffLen \in Nat /\ TxWords \in Nat /\ Word \in Nat /\ 66 < Word
           /\ MaxErr \in Nat /\ MaxFault \in Nat /\ RxLen \in Nat
           /\ Stale \subseteq 0..Word - 1 /\ RxSizes \subseteq 0..Word - 1
BY DriverAssumption DEF Fifo!FifoAssumption, FifoSetting

\* Counting in words of a register changes nothing below its range.
LEMMA SubFacts ==
    ASSUME FifoSetting, NEW a \in Nat, NEW b \in Nat, b <= a, a < Word
    PROVE  Fifo!Sub(a, b) = a - b
BY SettingTypes DEF Fifo!Sub

\* What a frame takes of the transmit FIFO: what the announced length fits it fits.
LEMMA FrameFits ==
    ASSUME FifoSetting, NEW n \in Nat
    PROVE  /\ Fifo!FrameWords(n) \in Nat
           /\ \A s \in Nat : n <= 2 * (s - 2) => Fifo!FrameWords(n) <= s
<1> DEFINE w == Fifo!Align4(n) \div 2
<1>1. w \in Nat /\ \A s \in Nat : n <= 2 * (s - 2) => w + 1 <= s
  BY AlignFacts
<1> HIDE DEF w
<1>2. Fifo!FrameWords(n) = w + Overhead /\ Overhead \in {0, 1}
  BY DEF Fifo!FrameWords, FifoSetting, w
<1> QED
  BY <1>1, <1>2
-----------------------------------------------------------------------------
(* The transmit FIFO.                                                       *)

\* What is queued takes a number of words.
LEMMA UsedFacts ==
    ASSUME Fifo!TypeOK, Ends
    PROVE  Used \in Nat
<1>1. CASE tx = <<>>
  BY <1>1 DEF Used, Fifo!Occupied
<1>2. CASE tx # <<>>
  <2>1. Len(tx) \in DOMAIN tx
    BY <1>2 DEF Fifo!TypeOK
  <2> QED
    BY <1>2, <2>1 DEF Used, Fifo!Occupied, Ends
<1> QED
  BY <1>1, <1>2

\* The length that is announced for the packet in hand.
LEMMA AnnouncedFacts ==
    ASSUME FifoSetting, Fifo!TypeOK
    PROVE  /\ Announced \in Nat /\ 62 <= Announced /\ Announced + 4 <= BuffLen
           /\ Fifo!FrameWords(Announced) \in Nat
<1>1. pkt \in Packets
  BY DEF Fifo!TypeOK
<1>2. /\ pkt.len \in Nat /\ pkt.len + 8 <= BuffLen
      /\ Announced = IF pkt.len <= 60 THEN 62 ELSE pkt.len + 2
  BY <1>1, PacketFacts DEF Announced
<1>3. Announced \in Nat /\ 62 <= Announced /\ Announced + 4 <= BuffLen
  BY <1>2, SettingTypes DEF FifoSetting
<1> QED
  BY <1>3, FrameFits

\* The test of adin1110.c:525, made on the true number of free words.
LEMMA SpaceTested ==
    ASSUME FifoSetting, Fifo!TypeOK, Ends, Used <= TxWords, 2 <= Fifo!TxSpace,
           Fifo!HasSpace(Fifo!TxSpace)
    PROVE  Used + Fifo!FrameWords(Announced) <= TxWords
<1> DEFINE s == TxWords - Used
<1>1. Used \in Nat
  BY UsedFacts
<1>2. Fifo!TxSpace = s
  BY DEF Fifo!TxSpace, Used
<1>3. s \in Nat /\ 2 <= s /\ s < Word /\ 2 * (s - 2) < Word
  BY <1>1, <1>2, SettingTypes DEF FifoSetting
<1> HIDE DEF s
<1>4. Fifo!Sub(s, 2) = s - 2
  BY <1>3, SubFacts
<1>5. (2 * (s - 2)) % Word = 2 * (s - 2)
  BY <1>3, SettingTypes
<1>6. Announced \in Nat
  BY AnnouncedFacts
<1>8. Announced <= 2 * (s - 2)
  BY <1>2, <1>4, <1>5 DEF Fifo!HasSpace, Fifo!HeaderLen, Announced
<1>9. Fifo!FrameWords(Announced) \in Nat /\ Fifo!FrameWords(Announced) <= s
  BY <1>3, <1>6, <1>8, FrameFits
<1> QED
  BY <1>1, <1>9, SettingTypes DEF s

\* The queued frames are finitely many.
LEMMA MisnamedFinite ==
    ASSUME Fifo!TypeOK
    PROVE  IsFiniteSet(Misnamed) /\ Cardinality(Misnamed) \in Nat
<1>1. Len(tx) \in Nat /\ DOMAIN tx = 1..Len(tx)
  BY DEF Fifo!TypeOK
<1>2. IsFiniteSet(1..Len(tx))
  BY <1>1, FS_Interval
<1>3. Misnamed \in SUBSET (1..Len(tx))
  BY <1>1 DEF Misnamed
<1>4. IsFiniteSet(Misnamed)
  BY <1>2, <1>3, FS_Subset
<1> QED
  BY <1>4, FS_CardinalityType

\* A step that copies nothing leaves the judgement of the copies as it is.
LEMMA CopyStays == ASSUME reach' = reach PROVE Fifo!CopyInBounds' <=> Fifo!CopyInBounds
BY DEF Fifo!CopyInBounds, Fifo!InBuffers, Fifo!SizeFits, Fifo!Align4, Fifo!HeaderLen,
       Fifo!EthHdrLen, Fifo!RdHeaderLen

\* The frames left after the first has gone were there, one place later.
LEMMA MisnamedShifts ==
    ASSUME Fifo!TypeOK, NEW M, NEW k \in Nat,
           \A i \in M : i + k \in Misnamed, M \subseteq Nat
    PROVE  IsFiniteSet(M) /\ Cardinality(M) <= Cardinality(Misnamed)
<1> DEFINE f == [i \in M |-> i + k]
<1>1. f \in [M -> Misnamed]
  OBVIOUS
<1>2. \A i, j \in M : f[i] = f[j] => i = j
  OBVIOUS
<1> HIDE DEF f
<1>3. f \in Injection(M, Misnamed)
  BY <1>1, <1>2 DEF Injection, IsInjective
<1> QED
  BY <1>3, MisnamedFinite, FS_Injection

\* The device sends the frame at the head of its FIFO.
LEMMA TransmitKeeps == ASSUME FifoSetting, FifoIInv, Fifo!Transmit PROVE FifoIInv'
<1> DEFINE n == Len(tx) - 1
           t == tx[1].end
<1>1. /\ tx # <<>> /\ tx' = [i \in 1..n |-> [tx[i + 1] EXCEPT !.end = @ - t]]
      /\ at' = at /\ pkt' = pkt /\ size' = size /\ fsize' = fsize /\ space' = space
      /\ overrun' = overrun /\ rx' = rx /\ reach' = reach /\ errs' = errs
      /\ faults' = faults
  BY DEF Fifo!Transmit
<1>2. tx \in Seq(Frames)
  BY DEF FifoIInv, Fifo!TypeOK, Frames
<1>3. n \in Nat /\ DOMAIN tx = 1..n + 1 /\ Len(tx) = n + 1
  BY <1>1, <1>2
<1>4. \A i \in 1..n + 1 : tx[i] \in Frames
  BY <1>2, <1>3
<1>5. \A i \in 1..n + 1 : tx[i].end \in Nat
  BY <1>3 DEF FifoIInv, Ends
<1>6. \A i, j \in 1..n + 1 : i <= j => tx[i].end <= tx[j].end
  BY <1>3 DEF FifoIInv, Ends
<1>7. 1 \in 1..n + 1 /\ \A i \in 1..n : i + 1 \in 1..n + 1
  BY <1>3
<1>8. t \in Nat /\ \A i \in 1..n + 1 : t <= tx[i].end
  BY <1>3, <1>5, <1>6, <1>7
<1> HIDE DEF n, t
<1>9. ASSUME NEW i \in 1..n
      PROVE  /\ tx'[i].n = tx[i + 1].n /\ tx'[i].meant = tx[i + 1].meant
             /\ tx'[i].end = tx[i + 1].end - t /\ tx'[i].end \in Nat
             /\ tx'[i] \in Frames
  <2>1. tx[i + 1] \in Frames /\ tx[i + 1].end - t \in Nat
    BY <1>4, <1>5, <1>7, <1>8
  <2>2. tx'[i] = [tx[i + 1] EXCEPT !.end = @ - t]
    BY <1>1
  <2> QED
    BY <2>1, <2>2 DEF Frames
<1>10. DOMAIN tx' = 1..n
  BY <1>1
<1>11. tx' \in [1..n -> Frames]
  BY <1>1, <1>9
<1>12. tx' \in Seq(Frames) /\ Len(tx') = n
  BY <1>3, <1>10, <1>11
<1>13. Fifo!TypeOK'
  BY <1>1, <1>12 DEF FifoIInv, Fifo!TypeOK, Frames
<1>14. Ends'
  <2>1. \A i \in 1..n : tx'[i].end \in Nat
    BY <1>9
  <2>2. ASSUME NEW i \in 1..n, NEW j \in 1..n, i <= j PROVE tx'[i].end <= tx'[j].end
    <3>1. tx[i + 1].end <= tx[j + 1].end
      BY <1>3, <1>6, <1>7, <2>2
    <3> QED
      BY <1>5, <1>7, <1>8, <1>9, <3>1
  <2> QED
    BY <1>10, <2>1, <2>2 DEF Ends
<1>15. Used' \in Nat /\ Used \in Nat /\ Used' <= Used
  <2>1. Used = tx[n + 1].end
    BY <1>1, <1>3 DEF Used, Fifo!Occupied
  <2>2. CASE n = 0
    BY <1>3, <1>5, <1>12, <2>1, <2>2 DEF Used, Fifo!Occupied
  <2>3. CASE n # 0
    <3>1. n \in 1..n /\ n + 1 \in 1..n + 1
      BY <1>3, <2>3
    <3>2. Used' = tx'[n].end
      BY <1>12, <2>3 DEF Used, Fifo!Occupied
    <3> QED
      BY <1>5, <1>8, <1>9, <2>1, <3>1, <3>2
  <2> QED
    BY <2>2, <2>3
<1>16. Roomy'
  <2>1. Announced' = Announced
    BY <1>1 DEF Announced
  <2>2. Fifo!FrameWords(Announced) \in Nat /\ TxWords \in Nat
    BY AnnouncedFacts, SettingTypes DEF FifoIInv
  <2> QED
    BY <1>1, <1>15, <2>1, <2>2, CopyStays DEF FifoIInv, Roomy, Tested
<1>17. Blamed'
  <2>1. \A i \in Misnamed' : i \in 1..n /\ i + 1 \in Misnamed
    BY <1>3, <1>7, <1>9, <1>10 DEF Misnamed
  <2>2. Misnamed' \subseteq Nat
    BY <1>3, <2>1
  <2>3. IsFiniteSet(Misnamed') /\ Cardinality(Misnamed') <= Cardinality(Misnamed)
    BY <2>1, <2>2, MisnamedShifts DEF FifoIInv
  <2>4. Cardinality(Misnamed') \in Nat /\ Cardinality(Misnamed) \in Nat
    BY <2>3, FS_CardinalityType, MisnamedFinite DEF FifoIInv
  <2>5. Misannounced' = Misannounced /\ faults' = faults /\ faults \in Nat
    BY <1>1, SettingTypes DEF Misannounced, Announced, FifoIInv, Fifo!TypeOK
  <2> QED
    BY <2>3, <2>4, <2>5 DEF FifoIInv, Blamed
<1> QED
  BY <1>13, <1>14, <1>16, <1>17 DEF FifoIInv
-----------------------------------------------------------------------------
(* The steps of the two functions.                                          *)

\* What does not touch the transmit FIFO leaves its frames as they are.
LEMMA FramesStay ==
    ASSUME FifoIInv, tx' = tx
    PROVE  Ends' /\ Used' = Used /\ Misnamed' = Misnamed
BY DEF FifoIInv, Ends, Used, Misnamed

\* A step that announces nothing and queues nothing.
LEMMA BlameStays ==
    ASSUME FifoIInv, tx' = tx, faults' \in Nat, faults <= faults',
           Misannounced' => Misannounced \/ faults < faults'
    PROVE  Blamed'
<1>1. Cardinality(Misnamed) \in Nat /\ faults \in Int
  BY MisnamedFinite, DriverAssumption DEF FifoIInv, Fifo!TypeOK, Fifo!FifoAssumption
<1>2. Cardinality(Misnamed') = Cardinality(Misnamed)
  BY FramesStay
<1> QED
  BY <1>1, <1>2 DEF FifoIInv, Blamed

\* The device receives a frame.
LEMMA ReceiveKeeps == ASSUME FifoSetting, FifoIInv, Fifo!Receive PROVE FifoIInv'
<1>1. /\ Len(rx) < RxLen /\ \E n \in RxSizes : rx' = Append(rx, n)
      /\ at' = at /\ pkt' = pkt /\ size' = size /\ fsize' = fsize /\ space' = space
      /\ overrun' = overrun /\ tx' = tx /\ reach' = reach /\ errs' = errs
      /\ faults' = faults
  BY DEF Fifo!Receive
<1>2. rx' \in Seq(RxSizes) /\ Len(rx') <= RxLen
  <2>1. rx \in Seq(RxSizes) /\ RxLen \in Nat
    BY SettingTypes DEF FifoIInv, Fifo!TypeOK
  <2>2. PICK n \in RxSizes : rx' = Append(rx, n)
    BY <1>1
  <2>3. rx' \in Seq(RxSizes) /\ Len(rx') = Len(rx) + 1 /\ Len(rx) \in Nat
    BY ONLY <2>1, <2>2
  <2> QED
    BY <1>1, <2>1, <2>3
<1>3. Fifo!TypeOK'
  BY <1>1, <1>2 DEF FifoIInv, Fifo!TypeOK
<1>4. Announced' = Announced /\ Misannounced' = Misannounced
  BY <1>1 DEF Announced, Misannounced
<1>5. Roomy'
  BY <1>1, <1>4, FramesStay, CopyStays DEF FifoIInv, Roomy, Tested
<1>6. Blamed'
  BY <1>1, <1>4, FramesStay DEF FifoIInv, Blamed
<1> QED
  BY <1>1, <1>3, <1>5, <1>6, FramesStay DEF FifoIInv

\* A transfer that is reported as failed ends the function.
LEMMA ErrorKeeps == ASSUME FifoSetting, FifoIInv, Fifo!Error PROVE FifoIInv'
<1>1. /\ errs < MaxErr /\ errs' = errs + 1 /\ at' = "idle" /\ pkt' = pkt /\ size' = size
      /\ fsize' = fsize /\ tx' = tx /\ space' = space /\ overrun' = overrun /\ rx' = rx
      /\ reach' = reach /\ faults' = faults
  BY DEF Fifo!Error, Fifo!AfterError
<1>2. Fifo!TypeOK'
  <2>1. Fifo!TypeOK /\ errs \in Nat /\ MaxErr \in Nat
    BY SettingTypes DEF FifoIInv, Fifo!TypeOK
  <2>2. errs' \in 0..MaxErr
    BY <1>1, <2>1
  <2> QED
    BY <1>1, <2>1, <2>2 DEF Fifo!TypeOK
<1>3. Roomy'
  BY <1>1, FramesStay, CopyStays DEF FifoIInv, Roomy, Tested
<1>4. ~Misannounced'
  BY <1>1 DEF Misannounced
<1>5. Blamed'
  BY <1>1, <1>4, BlameStays, SettingTypes DEF FifoIInv, Fifo!TypeOK
<1> QED
  BY <1>1, <1>2, <1>3, <1>5, FramesStay DEF FifoIInv

\* At the start of a call nothing has been copied.
LEMMA UntouchedFacts ==
    ASSUME FifoSetting
    PROVE  /\ Fifo!Untouched \in [data : 0..2 * Word, rxbuff : 0..2 * Word, size : 0..Word - 1]
           /\ reach = Fifo!Untouched => Fifo!CopyInBounds
           /\ reach' = Fifo!Untouched => Fifo!CopyInBounds'
<1>1. 0 \in 0..2 * Word /\ 0 \in 0..Word - 1 /\ 0 <= BuffLen
  BY SettingTypes
<1> QED
  BY <1>1 DEF Fifo!Untouched, Fifo!CopyInBounds, Fifo!InBuffers

\* A call of adin1110_write_fifo or of adin1110_read_fifo.
LEMMA CallFifoKeeps ==
    ASSUME FifoSetting, FifoIInv, Fifo!WriteFifo \/ Fifo!ReadFifo PROVE FifoIInv'
<1>1. /\ at' \in {"space", "rsize"} /\ pkt' \in Packets /\ size' = size
      /\ fsize' = fsize /\ tx' = tx /\ space' = space /\ rx' = rx
      /\ reach' = Fifo!Untouched /\ errs' = errs /\ faults' = faults
      /\ overrun' = FALSE \/ (overrun' = overrun /\ at' = "rsize")
  BY DEF Fifo!WriteFifo, Fifo!ReadFifo, FifoIInv, Fifo!TypeOK
<1>2. Fifo!TypeOK'
  BY <1>1, UntouchedFacts DEF FifoIInv, Fifo!TypeOK
<1>3. Roomy'
  BY <1>1, FramesStay, UntouchedFacts DEF FifoIInv, Roomy, Tested
<1>4. ~Misannounced'
  BY <1>1 DEF Misannounced
<1>5. Blamed'
  BY <1>1, <1>4, BlameStays, SettingTypes DEF FifoIInv, Fifo!TypeOK
<1> QED
  BY <1>1, <1>2, <1>3, <1>5, FramesStay DEF FifoIInv

\* The number of free words is read, and the test of adin1110.c:525 made.
LEMMA ReadTxSpaceKeeps == ASSUME FifoSetting, FifoIInv, Fifo!ReadTxSpace PROVE FifoIInv'
<1>1. /\ at = "space" /\ at' \in {"fsize", "idle"} /\ pkt' = pkt /\ size' = size
      /\ fsize' = fsize /\ tx' = tx /\ overrun' = overrun /\ rx' = rx /\ reach' = reach
      /\ errs' = errs /\ (at' = "fsize" => Fifo!HasSpace(space'.val))
      /\ \/ faults' = faults /\ space' = [val |-> Fifo!TxSpace, read |-> TRUE]
         \/ /\ faults < MaxFault /\ faults' = faults + 1
            /\ space' \in [val : Stale, read : {FALSE}]
  BY DEF Fifo!ReadTxSpace, Fifo!Done, Fifo!Aborted
<1>2. faults \in Nat /\ faults' \in Nat /\ faults <= faults' /\ faults' \in 0..MaxFault
  <2>1. MaxFault \in Nat /\ faults \in 0..MaxFault
    BY SettingTypes DEF FifoIInv, Fifo!TypeOK
  <2>2. faults' = faults \/ (faults < MaxFault /\ faults' = faults + 1)
    BY <1>1
  <2> QED
    BY <2>1, <2>2
<1>3. Fifo!TxSpace \in 0..Word - 1
  <2>1. Used \in Nat /\ Used <= TxWords
    BY UsedFacts DEF FifoIInv, Roomy
  <2> QED
    BY <2>1, SettingTypes DEF Fifo!TxSpace, Used, FifoSetting
<1>4. Fifo!TypeOK'
  <2>1. space' \in [val : 0..Word - 1, read : BOOLEAN]
    <3>1. CASE space' = [val |-> Fifo!TxSpace, read |-> TRUE]
      BY <1>3, <3>1
    <3>2. CASE space' \in [val : Stale, read : {FALSE}]
      BY <3>2, SettingTypes
    <3> QED
      BY <1>1, <3>1, <3>2
  <2> QED
    BY <1>1, <1>2, <2>1 DEF FifoIInv, Fifo!TypeOK
<1>5. Announced' = Announced
  BY <1>1 DEF Announced
<1>6. Roomy'
  <2>1. CASE space' = [val |-> Fifo!TxSpace, read |-> TRUE]
    <3>1. Used <= TxWords /\ ~overrun
      BY <1>1 DEF FifoIInv, Roomy
    <3>2. space'.val = Fifo!TxSpace
      BY <2>1
    <3>3. at' = "fsize" /\ Tested' => Used + Fifo!FrameWords(Announced) <= TxWords
      BY <1>1, <3>1, <3>2, SpaceTested DEF FifoIInv, Tested
    <3> QED
      BY <1>1, <1>5, <3>1, <3>3, FramesStay, CopyStays DEF FifoIInv, Roomy
  <2>2. CASE space' \in [val : Stale, read : {FALSE}]
    <3>1. ~Tested'
      BY <2>2 DEF Tested
    <3> QED
      BY <1>1, <3>1, FramesStay, CopyStays DEF FifoIInv, Roomy
  <2> QED
    BY <1>1, <2>1, <2>2
<1>7. ~Misannounced'
  BY <1>1 DEF Misannounced
<1>8. Blamed'
  BY <1>1, <1>2, <1>7, BlameStays
<1> QED
  BY <1>1, <1>4, <1>6, <1>8, FramesStay DEF FifoIInv

\* The length of the frame is announced, or the announcement is aborted.
LEMMA WriteTxFsizeKeeps == ASSUME FifoSetting, FifoIInv, Fifo!WriteTxFsize PROVE FifoIInv'
<1>1. /\ at = "fsize" /\ at' = "frame" /\ pkt' = pkt /\ size' = size
      /\ tx' = tx /\ space' = space /\ overrun' = overrun /\ rx' = rx /\ reach' = reach
      /\ errs' = errs
      /\ \/ fsize' = Announced /\ faults' = faults
         \/ fsize' = fsize /\ faults < MaxFault /\ faults' = faults + 1
  BY DEF Fifo!WriteTxFsize, Fifo!Done, Fifo!Aborted, Announced
<1>2. faults \in Nat /\ faults' \in 0..MaxFault /\ faults' \in Nat /\ faults <= faults'
  <2>1. MaxFault \in Nat /\ faults \in 0..MaxFault
    BY SettingTypes DEF FifoIInv, Fifo!TypeOK
  <2> QED
    BY <1>1, <2>1
<1>3. Announced' = Announced
  BY <1>1 DEF Announced
<1>4. Fifo!TypeOK'
  <2>1. Announced \in (Fifo!MinFrame - Fifo!FcsLen + Fifo!HeaderLen)..BuffLen
    BY AnnouncedFacts, SettingTypes DEF FifoIInv, Fifo!MinFrame, Fifo!FcsLen, Fifo!HeaderLen
  <2> QED
    BY <1>1, <1>2, <2>1 DEF FifoIInv, Fifo!TypeOK
<1>5. Roomy'
  BY <1>1, <1>3, FramesStay, CopyStays DEF FifoIInv, Roomy, Tested
<1>6. Misannounced' => faults < faults'
  BY <1>1, <1>2, <1>3 DEF Misannounced
<1>7. Blamed'
  BY <1>1, <1>2, <1>6, BlameStays
<1> QED
  BY <1>1, <1>4, <1>5, <1>7, FramesStay DEF FifoIInv

\* What is appended to the transmit FIFO.
LEMMA AppendFacts ==
    ASSUME FifoSetting, Fifo!TypeOK, Ends, NEW f \in Frames, tx' = Append(tx, f),
           f.end = Used + Fifo!FrameWords(Announced)
    PROVE  /\ tx' \in Seq(Frames) /\ Ends' /\ Used' = f.end
           /\ Misnamed' \subseteq Misnamed \cup {Len(tx) + 1}
           /\ f.n = f.meant => Misnamed' = Misnamed
<1> DEFINE n == Len(tx)
<1>1. tx \in Seq(Frames)
  BY DEF Fifo!TypeOK, Frames
<1>2. n \in Nat /\ DOMAIN tx = 1..n
  BY <1>1
<1>3. tx' \in Seq(Frames) /\ Len(tx') = n + 1 /\ DOMAIN tx' = 1..n + 1
  BY <1>1
<1>4. tx'[n + 1] = f /\ \A i \in 1..n : tx'[i] = tx[i]
  BY <1>1
<1>5. \A i \in 1..n + 1 : i \in 1..n \/ i = n + 1
  BY <1>2
<1>6. /\ f.end \in Nat /\ Used \in Nat /\ Used <= f.end
  BY UsedFacts, AnnouncedFacts
<1>7. \A i \in 1..n : tx[i].end \in Nat /\ tx[i].end <= Used
  <2> SUFFICES ASSUME NEW i \in 1..n
               PROVE  tx[i].end \in Nat /\ tx[i].end <= Used
    OBVIOUS
  <2>1. n \in 1..n /\ i <= n /\ tx # <<>>
    BY <1>1, <1>2
  <2>2. Used = tx[n].end
    BY <2>1 DEF Used, Fifo!Occupied
  <2> QED
    BY <1>2, <2>1, <2>2 DEF Ends
<1> HIDE DEF n
<1>8. Ends'
  <2>1. ASSUME NEW i \in 1..n + 1
        PROVE  tx'[i].end \in Nat /\ tx'[i].end <= f.end
    <3>1. CASE i = n + 1
      <4>1. tx'[i] = f
        BY <1>4, <3>1
      <4> QED
        BY <1>6, <4>1
    <3>2. CASE i \in 1..n
      <4>1. tx'[i].end = tx[i].end
        BY <1>4, <3>2
      <4> QED
        BY <1>6, <1>7, <3>2, <4>1
    <3> QED
      BY <1>5, <3>1, <3>2
  <2>2. ASSUME NEW i \in 1..n + 1, NEW j \in 1..n + 1, i <= j
        PROVE  tx'[i].end <= tx'[j].end
    <3>1. CASE j = n + 1
      BY <1>4, <2>1, <3>1
    <3>2. CASE j # n + 1
      <4>1. i \in 1..n /\ j \in 1..n
        BY <1>2, <2>2, <3>2
      <4>2. tx[i].end <= tx[j].end
        BY <1>2, <2>2, <4>1 DEF Ends
      <4> QED
        BY <1>4, <4>1, <4>2
    <3> QED
      BY <3>1, <3>2
  <2> QED
    BY <1>3, <2>1, <2>2 DEF Ends
<1>9. Used' = f.end
  <2>1. tx' # <<>>
    BY <1>2, <1>3
  <2> QED
    BY <1>3, <1>4, <2>1 DEF Used, Fifo!Occupied
<1>10. Misnamed' \subseteq Misnamed \cup {n + 1}
  BY <1>2, <1>3, <1>4, <1>5 DEF Misnamed
<1>11. f.n = f.meant => Misnamed' = Misnamed
  BY <1>2, <1>3, <1>4, <1>5 DEF Misnamed
<1> QED
  BY <1>3, <1>8, <1>9, <1>10, <1>11 DEF n

\* The burst goes into the transmit FIFO, is dropped, or is aborted.
LEMMA WriteFrameKeeps == ASSUME FifoSetting, FifoIInv, Fifo!WriteFrame PROVE FifoIInv'
<1> DEFINE w == Fifo!FrameWords(Announced)
           f == [n |-> fsize, meant |-> Announced, whole |-> pkt.len = pkt.tot,
                 end |-> Used + w]
<1>1. /\ at = "frame" /\ at' = "idle" /\ pkt' = pkt /\ size' = size /\ fsize' = fsize
      /\ rx' = rx /\ errs' = errs /\ space' = space
      /\ reach' = [data |-> Fifo!WriteReach, rxbuff |-> 0, size |-> 0]
  BY DEF Fifo!WriteFrame
<1>2. \/ faults' = faults /\ tx' = Append(tx, f) /\ overrun' = overrun
      \/ faults' = faults /\ tx' = tx /\ w > Fifo!TxSpace /\ overrun' = TRUE
      \/ faults < MaxFault /\ faults' = faults + 1 /\ tx' = tx /\ overrun' = overrun
  <2>1. w \in Nat /\ Used \in Nat /\ TxWords \in Nat
    BY AnnouncedFacts, UsedFacts, SettingTypes DEF FifoIInv
  <2>2. Fifo!TxSpace \in Int
    BY <2>1 DEF Fifo!TxSpace, Used
  <2>3. CASE Fifo!Done /\ w <= Fifo!TxSpace
    BY <2>3 DEF Fifo!WriteFrame, Fifo!Enqueue, Fifo!Done, Fifo!Aborted, Announced, Used
  <2>4. CASE ~(w <= Fifo!TxSpace)
    BY <2>1, <2>2, <2>4
    DEF Fifo!WriteFrame, Fifo!Enqueue, Fifo!Done, Fifo!Aborted, Announced, Used
  <2> QED
    BY <2>3, <2>4 DEF Fifo!WriteFrame, Fifo!Enqueue, Fifo!Done, Fifo!Aborted
<1>3. /\ Announced \in Nat /\ 62 <= Announced /\ Announced + 4 <= BuffLen /\ w \in Nat
      /\ Used \in Nat
  BY AnnouncedFacts, UsedFacts DEF FifoIInv
<1>4. f \in Frames /\ f.n = fsize /\ f.meant = Announced /\ f.end = Used + w
  <2>1. fsize \in Nat
    BY SettingTypes DEF FifoIInv, Fifo!TypeOK, Fifo!MinFrame, Fifo!FcsLen, Fifo!HeaderLen
  <2> QED
    BY <1>3, <2>1 DEF Frames
<1> HIDE DEF w, f
<1>5. reach'.data \in 0..BuffLen /\ reach'.rxbuff = 0 /\ reach'.size = 0
  <2>1. pkt \in Packets
    BY DEF FifoIInv, Fifo!TypeOK
  <2>2. pkt.len \in Nat /\ 14 <= pkt.len /\ pkt.len + 8 <= BuffLen
        /\ Announced = IF pkt.len <= 60 THEN 62 ELSE pkt.len + 2
    BY <2>1, PacketFacts DEF Announced
  <2>3. Fifo!Sub(pkt.len, 14) = pkt.len - 14
    BY <2>2, SettingTypes, SubFacts DEF FifoSetting
  <2>4. Fifo!Align4(62) = 64
    BY DEF Fifo!Align4
  <2>5. Fifo!Align4(Announced) \in Nat /\ Fifo!Align4(Announced) <= Announced + 3
    <3>1. Fifo!Align4(Announced) \in Announced..Announced + 3
      BY <1>3, AlignFacts
    <3> QED
      BY <1>3, <3>1
  <2>6. Fifo!Align4(Announced) + 2 <= BuffLen
    BY <2>2, <2>4, <2>5, SettingTypes DEF FifoSetting
  <2>7. Fifo!WriteReach = Fifo!Larger(18 + (pkt.len - 14), 2 + Fifo!Align4(Announced))
    BY <2>3 DEF Fifo!WriteReach, Fifo!WrHeaderLen, Fifo!HeaderLen, Fifo!EthHdrLen, Announced
  <2>8. Fifo!WriteReach \in 0..BuffLen
    BY <2>2, <2>5, <2>6, <2>7, SettingTypes DEF Fifo!Larger
  <2> QED
    BY <1>1, <2>8
<1>6. faults \in Nat /\ faults' \in 0..MaxFault /\ faults' \in Nat /\ faults <= faults'
  <2>1. MaxFault \in Nat /\ faults \in 0..MaxFault
    BY SettingTypes DEF FifoIInv, Fifo!TypeOK
  <2> QED
    BY <1>2, <2>1
<1>7. tx' \in Seq(Frames) /\ Ends' /\ (tx' = tx \/ Used' = Used + w)
  BY <1>2, <1>4, AppendFacts, FramesStay DEF FifoIInv, Fifo!TypeOK, Frames, w
<1>8. Fifo!TypeOK'
  <2>1. reach' \in [data : 0..2 * Word, rxbuff : 0..2 * Word, size : 0..Word - 1]
    <3>1. 0..BuffLen \subseteq 0..2 * Word /\ 0 \in 0..2 * Word
          /\ 0 \in 0..Word - 1
      BY SettingTypes DEF FifoSetting
    <3> QED
      BY <1>1, <1>5, <3>1
  <2>2. overrun' \in BOOLEAN
    BY <1>2 DEF FifoIInv, Fifo!TypeOK
  <2> QED
    BY <1>1, <1>6, <1>7, <2>1, <2>2 DEF FifoIInv, Fifo!TypeOK, Frames
<1>9. Roomy'
  <2>1. Fifo!TxSpace = TxWords - Used /\ TxWords \in Nat
    BY SettingTypes DEF Fifo!TxSpace, Used
  <2>2. Used <= TxWords /\ (Tested => Used + w <= TxWords) /\ (overrun => ~Tested)
    BY <1>1 DEF FifoIInv, Roomy, w
  <2>3. Tested => w <= Fifo!TxSpace
    BY <1>3, <2>1, <2>2
  <2>4. overrun' => ~Tested'
    <3>1. Tested' <=> Tested
      BY <1>1 DEF Tested
    <3>2. CASE w > Fifo!TxSpace
      BY <1>3, <2>1, <2>3, <3>1, <3>2, UsedFacts DEF FifoIInv
    <3>3. CASE ~(w > Fifo!TxSpace)
      <4>1. overrun' = overrun
        BY <1>2, <3>3
      <4> QED
        BY <2>2, <3>1, <4>1
    <3> QED
      BY <3>2, <3>3
  <2>5. Used' <= TxWords
    <3>1. CASE tx' = tx
      BY <2>2, <3>1, FramesStay
    <3>2. CASE Fifo!Done /\ tx' # tx
      <4>1. w <= Fifo!TxSpace
        BY <3>2 DEF Fifo!WriteFrame, Fifo!Enqueue, Fifo!Done, Fifo!Aborted, Announced, w
      <4> QED
        BY <1>3, <1>7, <2>1, <3>2, <4>1
    <3> QED
      BY <3>1, <3>2 DEF Fifo!WriteFrame
  <2>6. Fifo!CopyInBounds'
    BY <1>5, SettingTypes DEF Fifo!CopyInBounds, Fifo!InBuffers
  <2> QED
    BY <1>1, <2>4, <2>5, <2>6 DEF Roomy
<1>10. Blamed'
  <2>1. ~Misannounced'
    BY <1>1 DEF Misannounced
  <2>2. CASE tx' = tx
    BY <1>6, <2>1, <2>2, BlameStays
  <2>3. CASE tx' = Append(tx, f) /\ faults' = faults
    <3>1. /\ Misnamed' \subseteq Misnamed \cup {Len(tx) + 1}
          /\ f.n = f.meant => Misnamed' = Misnamed
      BY <1>4, <2>3, AppendFacts DEF FifoIInv, w
    <3>2. IsFiniteSet(Misnamed) /\ Cardinality(Misnamed) \in Nat
      BY MisnamedFinite DEF FifoIInv
    <3>3. f.n = f.meant <=> ~Misannounced
      BY <1>1, <1>4 DEF Misannounced
    <3>4. CASE f.n = f.meant
      BY <2>1, <2>3, <3>1, <3>2, <3>3, <3>4, <1>6 DEF FifoIInv, Blamed
    <3>5. CASE f.n # f.meant
      <4> DEFINE M == Misnamed \cup {Len(tx) + 1}
      <4>1. IsFiniteSet(M) /\ Cardinality(M) \in Nat /\ Cardinality(M) <= Cardinality(Misnamed) + 1
        <5>1. /\ IsFiniteSet(M)
              /\ \/ Cardinality(M) = Cardinality(Misnamed)
                 \/ Cardinality(M) = Cardinality(Misnamed) + 1
          BY <3>2, FS_AddElement
        <5> QED
          BY <3>2, <5>1
      <4> HIDE DEF M
      <4>2. \A T \in SUBSET M : IsFiniteSet(T) /\ Cardinality(T) <= Cardinality(M)
        BY <4>1, FS_Subset
      <4>3. Misnamed' \in SUBSET M
        BY <3>1 DEF M
      <4>4. IsFiniteSet(Misnamed') /\ Cardinality(Misnamed') <= Cardinality(M)
        BY <4>2, <4>3
      <4>5. Cardinality(Misnamed') \in Nat
        BY <4>4, FS_CardinalityType
      <4>6. Cardinality(Misnamed) + 1 <= faults
        BY <3>3, <3>5 DEF FifoIInv, Blamed
      <4> QED
        BY <1>6, <2>1, <2>3, <3>2, <4>1, <4>4, <4>5, <4>6 DEF Blamed
    <3> QED
      BY <3>4, <3>5
  <2> QED
    BY <1>2, <2>2, <2>3
<1> QED
  BY <1>7, <1>8, <1>9, <1>10 DEF FifoIInv

\* The size of the next received frame is read.
LEMMA ReadRxFsizeKeeps == ASSUME FifoSetting, FifoIInv, Fifo!ReadRxFsize PROVE FifoIInv'
<1>1. /\ at = "rsize" /\ at' = IF Fifo!NoFrame(size') THEN "idle" ELSE "rframe"
      /\ pkt' = pkt /\ fsize' = fsize /\ tx' = tx /\ overrun' = overrun /\ rx' = rx
      /\ space' = space /\ reach' = reach /\ errs' = errs
      /\ \/ size' = Fifo!RxFsize /\ faults' = faults
         \/ size' \in Stale /\ faults < MaxFault /\ faults' = faults + 1
  BY DEF Fifo!ReadRxFsize, Fifo!Done, Fifo!Aborted
<1>2. faults \in Nat /\ faults' \in 0..MaxFault /\ faults' \in Nat /\ faults <= faults'
  <2>1. MaxFault \in Nat /\ faults \in 0..MaxFault
    BY SettingTypes DEF FifoIInv, Fifo!TypeOK
  <2> QED
    BY <1>1, <2>1
<1>3. Fifo!RxFsize \in RxSizes \cup {0}
  <2>1. rx \in Seq(RxSizes)
    BY DEF FifoIInv, Fifo!TypeOK
  <2>2. rx # <<>> => Head(rx) \in RxSizes
    BY <2>1
  <2> QED
    BY <2>2 DEF Fifo!RxFsize
<1>4. Fifo!TypeOK'
  <2>1. size' \in 0..Word - 1
    BY <1>1, <1>3, SettingTypes
  <2>2. at' \in {"idle", "rframe"}
    BY <1>1
  <2> QED
    BY <1>1, <1>2, <2>1, <2>2 DEF FifoIInv, Fifo!TypeOK
<1>5. Roomy'
  <2>1. size' \in Nat
    BY <1>4, SettingTypes DEF Fifo!TypeOK
  <2>2. at' = "rframe" => 6 <= size'
    BY <1>1, <2>1 DEF Fifo!NoFrame, Fifo!HeaderLen, Fifo!FcsLen
  <2> QED
    BY <1>1, <2>2, FramesStay, CopyStays DEF FifoIInv, Roomy, Tested
<1>6. ~Misannounced'
  BY <1>1 DEF Misannounced
<1>7. Blamed'
  BY <1>1, <1>2, <1>6, BlameStays
<1> QED
  BY <1>1, <1>4, <1>5, <1>7, FramesStay DEF FifoIInv

\* The burst out of the receive FIFO, and the copies.
LEMMA ReadFrameKeeps == ASSUME FifoSetting, FifoIInv, Fifo!ReadFrame PROVE FifoIInv'
<1>1. /\ at = "rframe" /\ at' = "idle" /\ reach' = Fifo!ReadReach
      /\ pkt' = pkt /\ size' = size /\ fsize' = fsize /\ tx' = tx /\ overrun' = overrun
      /\ space' = space /\ errs' = errs
      /\ (rx' = rx \/ (rx # <<>> /\ rx' = Tail(rx)))
      /\ (faults' = faults \/ (faults < MaxFault /\ faults' = faults + 1))
  BY DEF Fifo!ReadFrame, Fifo!Done, Fifo!Aborted
<1>2. faults \in Nat /\ faults' \in 0..MaxFault /\ faults' \in Nat /\ faults <= faults'
  <2>1. MaxFault \in Nat /\ faults \in 0..MaxFault
    BY SettingTypes DEF FifoIInv, Fifo!TypeOK
  <2> QED
    BY <1>1, <2>1
<1>3. rx' \in Seq(RxSizes) /\ Len(rx') <= RxLen
  <2>1. rx \in Seq(RxSizes) /\ Len(rx) <= RxLen /\ RxLen \in Nat
    BY SettingTypes DEF FifoIInv, Fifo!TypeOK
  <2>2. rx # <<>> => Tail(rx) \in Seq(RxSizes) /\ Len(Tail(rx)) <= RxLen
    BY <2>1
  <2> QED
    BY <1>1, <2>1, <2>2
<1> DEFINE payload == Fifo!Sub(Fifo!Sub(size, 2), 14)
           a == Fifo!Align4(size)
<1>4. size \in Nat /\ payload \in 0..Word - 1 /\ a \in Nat /\ a <= size + 3
  <2>1. size \in Nat /\ Word \in Nat /\ Word > 66
    BY SettingTypes DEF FifoIInv, Fifo!TypeOK
  <2>2. Fifo!Sub(size, 2) \in Nat /\ payload \in 0..Word - 1
    <3>1. \A x \in Int : x % Word \in 0..Word - 1
      BY <2>1
    <3>2. Fifo!Sub(size, 2) \in 0..Word - 1
      BY <2>1, <3>1 DEF Fifo!Sub
    <3>3. Fifo!Sub(size, 2) \in Int
      BY <2>1, <3>2
    <3> HIDE DEF payload
    <3>4. payload = (Fifo!Sub(size, 2) - 14) % Word
      BY DEF payload, Fifo!Sub
    <3> QED
      BY <2>1, <3>1, <3>2, <3>3, <3>4
  <2>3. a \in size..size + 3
    BY <2>1, AlignFacts
  <2> HIDE DEF a
  <2> QED
    BY <2>1, <2>2, <2>3
<1> HIDE DEF payload, a
<1> DEFINE burst == (3 + a) % 65536
<1>5. /\ reach' = [data |-> Fifo!Larger(burst, 19 + payload), rxbuff |-> payload,
                   size |-> size]
      /\ burst \in Nat /\ burst <= 3 + a /\ (3 + a < 65536 => burst = 3 + a)
  BY <1>1, <1>4
  DEF Fifo!ReadReach, Fifo!HeaderLen, Fifo!EthHdrLen, Fifo!RdHeaderLen, Fifo!HalWord,
      payload, a
<1> HIDE DEF burst
<1>6. Fifo!TypeOK'
  <2>1. size \in 0..Word - 1 /\ Word \in Nat /\ 66 < Word
    BY SettingTypes DEF FifoIInv, Fifo!TypeOK
  <2>2. Fifo!Larger(burst, 19 + payload) \in 0..2 * Word /\ payload \in 0..2 * Word
    BY <1>4, <1>5, <2>1 DEF Fifo!Larger
  <2>3. reach' \in [data : 0..2 * Word, rxbuff : 0..2 * Word, size : 0..Word - 1]
    BY <1>5, <2>1, <2>2
  <2> QED
    BY <1>1, <1>2, <1>3, <2>3 DEF FifoIInv, Fifo!TypeOK
<1>7. Roomy'
  <2>1. 6 <= size /\ size < Word
    <3>1. size \in 0..Word - 1 /\ Word \in Nat
      BY SettingTypes DEF FifoIInv, Fifo!TypeOK
    <3>2. 6 <= size
      BY <1>1 DEF FifoIInv, Roomy
    <3> QED
      BY <3>1, <3>2
  <2>2. size <= a
    BY <1>4, AlignFacts DEF a
  <2>3. Fifo!Sub(size, 2) = size - 2
    BY <1>4, <2>1, SubFacts
  <2>4. payload = IF 16 <= size THEN size - 16 ELSE size - 16 + Word
    <3>1. size - 2 \in Nat /\ size - 2 < Word /\ Word \in Nat
      BY <1>4, <2>1, SettingTypes
    <3>2. CASE 16 <= size
      <4>1. Fifo!Sub(size - 2, 14) = (size - 2) - 14
        BY <1>4, <3>1, <3>2, SubFacts
      <4> QED
        BY <1>4, <2>3, <3>2, <4>1 DEF payload
    <3>3. CASE size < 16
      <4>1. (size - 2) - 14 + Word \in 0..Word - 1
        BY <1>4, <2>1, <3>1, <3>3, SettingTypes
      <4>2. ((size - 2) - 14) % Word = (size - 2) - 14 + Word
        BY <1>4, <3>1, <4>1
      <4> QED
        BY <1>4, <2>3, <3>3, <4>2 DEF payload, Fifo!Sub
    <3> QED
      BY <1>4, <3>2, <3>3
  <2>5. Fifo!InBuffers' <=> (burst <= BuffLen /\ 19 + payload <= BuffLen)
    <3>1. reach'.data = Fifo!Larger(burst, 19 + payload) /\ reach'.rxbuff = payload
      BY <1>5
    <3> QED
      BY <1>4, <1>5, <3>1, SettingTypes DEF Fifo!InBuffers, Fifo!Larger
  <2>6. Fifo!SizeFits(size) <=> (16 <= size /\ 3 + a <= BuffLen)
    BY DEF Fifo!SizeFits, Fifo!HeaderLen, Fifo!EthHdrLen, Fifo!RdHeaderLen, a
  <2>7. (burst <= BuffLen /\ 19 + payload <= BuffLen) <=> (16 <= size /\ 3 + a <= BuffLen)
    <3>1. /\ BuffLen \in Nat /\ BuffLen < Word /\ BuffLen + 8 <= 65536 /\ Word \in Nat
          /\ payload \in Nat
      BY <1>4, SettingTypes DEF FifoSetting
    <3>2. CASE 16 <= size
      <4>1. payload = size - 16
        BY <2>4, <3>2
      <4>2. 3 + a <= BuffLen => burst <= BuffLen /\ 19 + payload <= BuffLen
        BY <1>4, <1>5, <2>2, <3>1, <4>1
      <4>3. 19 + payload <= BuffLen => 3 + a < 65536
        BY <1>4, <3>1, <4>1
      <4> QED
        BY <1>5, <3>2, <4>2, <4>3
    <3>3. CASE size < 16
      BY <1>4, <2>1, <2>4, <3>1, <3>3
    <3> QED
      BY <1>4, <3>2, <3>3
  <2>8. reach'.size = size /\ size # 0
    BY <1>5, <2>1
  <2>9. Fifo!SizeFits(reach.size)' <=> Fifo!SizeFits(size)
    BY <2>8 DEF Fifo!SizeFits, Fifo!HeaderLen, Fifo!EthHdrLen, Fifo!RdHeaderLen, Fifo!Align4
  <2>10. Fifo!CopyInBounds'
    BY <2>5, <2>6, <2>7, <2>8, <2>9 DEF Fifo!CopyInBounds
  <2> QED
    BY <1>1, <2>10, FramesStay DEF FifoIInv, Roomy, Tested
<1>8. ~Misannounced'
  BY <1>1 DEF Misannounced
<1>9. Blamed'
  BY <1>1, <1>2, <1>8, BlameStays
<1> QED
  BY <1>1, <1>6, <1>7, <1>9, FramesStay DEF FifoIInv
-----------------------------------------------------------------------------
\* Both FIFOs are empty when the driver starts.
LEMMA InitFifo == ASSUME FifoSetting, Init PROVE FifoIInv
<1>1. /\ at = "idle" /\ pkt \in Packets /\ size = 0 /\ fsize = 0
      /\ tx = <<>> /\ rx = <<>> /\ space = [val |-> 0, read |-> FALSE] /\ overrun = FALSE
      /\ reach = Fifo!Untouched /\ errs = 0 /\ faults = 0
  BY DEF Init, Fifo!Init
<1>2. Fifo!TypeOK
  <2>1. 0 \in 0..Word - 1 /\ 0 \in 0..2 * Word /\ 0 \in 0..MaxErr /\ 0 \in 0..MaxFault
        /\ 0 <= RxLen
    BY SettingTypes
  <2>2. tx \in Seq(Frames) /\ rx \in Seq(RxSizes) /\ Len(rx) = 0
    BY <1>1
  <2>3. /\ reach \in [data : 0..2 * Word, rxbuff : 0..2 * Word, size : 0..Word - 1]
        /\ space \in [val : 0..Word - 1, read : BOOLEAN]
    BY <1>1, <2>1, UntouchedFacts
  <2> QED
    BY <1>1, <2>1, <2>2, <2>3 DEF Fifo!TypeOK, Frames
<1>3. Ends /\ Used = 0
  BY <1>1 DEF Ends, Used, Fifo!Occupied
<1>4. Roomy
  BY <1>1, <1>3, SettingTypes, UntouchedFacts DEF Roomy
<1>5. Misnamed = {} /\ ~Misannounced
  BY <1>1 DEF Misnamed, Misannounced
<1>6. Blamed
  BY <1>1, <1>5, FS_EmptySet DEF Blamed
<1> QED
  BY <1>2, <1>3, <1>4, <1>6 DEF FifoIInv

\* The invariant is about the variables of this part of the driver.
LEMMA FifoStutters == ASSUME FifoIInv, UNCHANGED Fifo!vars PROVE FifoIInv'
<1>1. /\ at' = at /\ pkt' = pkt /\ size' = size /\ fsize' = fsize /\ tx' = tx
      /\ space' = space /\ overrun' = overrun /\ rx' = rx /\ reach' = reach /\ errs' = errs
      /\ faults' = faults
  BY DEF Fifo!vars
<1>2. Announced' = Announced /\ Misannounced' = Misannounced
  BY <1>1 DEF Announced, Misannounced
<1>3. Fifo!TypeOK'
  BY <1>1 DEF FifoIInv, Fifo!TypeOK
<1>4. Roomy'
  BY <1>1, <1>2, FramesStay, CopyStays DEF FifoIInv, Roomy, Tested
<1>5. Blamed'
  BY <1>1, <1>2, FramesStay DEF FifoIInv, Blamed
<1> QED
  BY <1>1, <1>3, <1>4, <1>5, FramesStay DEF FifoIInv

\* The invariant gives what is promised of the FIFOs.
LEMMA InvOfFifo == ASSUME FifoIInv PROVE FifoInv
<1>1. Fifo!TypeOK /\ Fifo!TxRoom /\ Fifo!CopyInBounds
  <2>1. space.val \in Int
    BY DriverAssumption DEF FifoIInv, Fifo!TypeOK, Fifo!FifoAssumption
  <2> QED
    BY <2>1 DEF FifoIInv, Roomy, Tested, Fifo!TxRoom, Fifo!HeaderLen
<1>2. Fifo!Cardinality(Misnamed) = Cardinality(Misnamed)
  BY DEF Fifo!Cardinality, Cardinality
<1>3. faults \in Int
  BY DriverAssumption DEF FifoIInv, Fifo!TypeOK, Fifo!FifoAssumption
<1>4. Cardinality(Misnamed) <= faults
  BY <1>3, MisnamedFinite DEF FifoIInv, Blamed
<1>5. Fifo!SpoiltBounded
  BY <1>2, <1>4 DEF Fifo!SpoiltBounded, Misnamed
<1> QED
  BY <1>1, <1>5 DEF FifoInv, Fifo!FifoInv

\* Whatever RX_FSIZE the device shows and whichever transfers fail or are aborted: a
\* frame is dropped for want of room only after a test that wrapped or was made on old
\* bytes; the copies stay in their buffers for the sizes that fit and for no other; and
\* at most one queued frame for each aborted transfer has another length than was
\* announced for it (adin1110.c:489-627).
THEOREM FramesFit == ASSUME FifoSetting PROVE FairSpec => []FifoInv
<1>1. FifoIInv /\ [Next]_vars => FifoIInv'
  <2>1. [Next]_vars => [Fifo!Next]_(Fifo!vars)
    BY DEF Next, vars, fifoVars, Fifo!vars
  <2>2. FifoIInv /\ Fifo!Next => FifoIInv'
    BY TransmitKeeps, ReceiveKeeps, ErrorKeeps, CallFifoKeeps, ReadTxSpaceKeeps,
       WriteTxFsizeKeeps, WriteFrameKeeps, ReadRxFsizeKeeps, ReadFrameKeeps DEF Fifo!Next
  <2> QED
    BY <2>1, <2>2, FifoStutters
<1>2. Init => FifoIInv
  BY InitFifo
<1>3. FifoIInv => FifoInv
  BY InvOfFifo
<1> QED
  BY <1>1, <1>2, <1>3, PTL DEF FairSpec
=============================================================================

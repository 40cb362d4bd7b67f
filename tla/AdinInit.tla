------------------------------ MODULE AdinInit ------------------------------
(***************************************************************************)
(* Bringing the ADIN1110 up and down: adin1110_init and adin1110_remove     *)
(* (adin1110.c) with the blocks of memory that they and the layers below    *)
(* take and give back (no_os_spi.c, stm32_spi.c, stm32_gpio.c,              *)
(* freertos_mutex.c), for devices that share one SPI bus, and the start of  *)
(* the interface on one of them (network.c).                                *)
(*                                                                          *)
(* Every allocation may fail, and every group of register accesses. The     *)
(* pins and HAL_SPI_Init do not fail with the arguments they are given      *)
(* here, and config.h asks for neither DMA nor PWM descriptors.             *)
(***************************************************************************)
EXTENDS Integers, FiniteSets

CONSTANTS Devs, Main,  \* the devices, and the one network.c uses
          MaxInits     \* bound: calls of adin1110_init

\* What the model takes for granted of its constants.
InitAssumption == IsFiniteSet(Devs) /\ Main \in Devs /\ MaxInits \in Nat

VARIABLES at,      \* step of adin1110_init under way
          dev,     \* its device
          live,    \* blocks that are allocated
          slaves,  \* bus->slave_number
          up,      \* devices with a descriptor
          lost,    \* blocks mutexTmp that were allocated: no pointer to them is left
          netif,   \* progress of network_init and network_task
          ub,      \* undefined behaviour that was met
          inits

vars == <<at, dev, live, slaves, up, lost, netif, ub, inits>>

Own(d) == {"desc", "rst", "rstx", "spi", "sdesc", "cs", "csx"} \X {d}
Bus == {<<"bus">>, <<"mutex">>}
Tmps == {"tmp"} \X (0..MaxInits)
Blocks(kinds) == kinds \X {dev}

Allocs == {"desc", "rst", "rstx", "spi", "sdesc", "cs", "csx"}
Access == {"mac", "phy", "check"}

TypeOK ==
    /\ at \in {"idle", "halt", "bus", "mutex", "count"} \cup Allocs \cup Access
    /\ dev \in Devs /\ up \subseteq Devs
    /\ live \subseteq (UNION {Own(d) : d \in Devs}) \cup Bus \cup Tmps /\ lost \subseteq Tmps
    /\ slaves \in 0..Cardinality(Devs) /\ inits \in 0..MaxInits
    /\ netif \in {"none", "add", "up", "down"} /\ ub \subseteq {"free", "sdesc", "desc"}

Init ==
    /\ at = "idle" /\ dev = Main /\ live = {} /\ slaves = 0 /\ up = {} /\ lost = {}
    /\ netif = "none" /\ ub = {} /\ inits = 0
-----------------------------------------------------------------------------
(* adin1110_init                                                            *)

\* The step after the one that succeeds; the bus exists from the first device on.
After ==
    [desc |-> "rst", rst |-> "rstx",
     rstx |-> IF <<"bus">> \in live THEN "spi" ELSE "bus",
     bus |-> "mutex", mutex |-> "spi",
     spi |-> "sdesc", sdesc |-> "cs", cs |-> "csx", csx |-> "count",
     count |-> "mac", mac |-> "phy", phy |-> "check", check |-> "idle"]

Begin(d) ==
    /\ at = "idle" /\ d \notin up /\ inits < MaxInits /\ inits' = inits + 1
    /\ at' = "desc" /\ dev' = d

\* A caller of the driver other than network.c.
InitCall(d) ==
    /\ Begin(d) /\ netif # "add" /\ (d = Main => netif = "none")
    /\ UNCHANGED <<live, slaves, up, lost, netif, ub>>

Alloc ==
    /\ at \in Allocs \cup {"bus"} /\ at' = After[at]
    /\ live' = live \cup (IF at = "bus" THEN {<<"bus">>} ELSE Blocks({at}))
    /\ UNCHANGED <<dev, slaves, up, lost, netif, ub, inits>>

\* no_os_mutex_init first takes a block that it forgets, if there is one; without
\* memory for the semaphore, xSemaphoreGive stops at its assertion.
MutexInit ==
    /\ at = "mutex" /\ lost' \in {lost, lost \cup {<<"tmp", inits>>}}
    /\ \/ at' = After[at] /\ live' = live \cup {<<"mutex">>} \cup lost'
       \/ at' = "halt" /\ live' = live \cup lost'
    /\ UNCHANGED <<dev, slaves, up, netif, ub, inits>>

\* The end of no_os_spi_init.
Count ==
    /\ at = "count" /\ at' = After[at] /\ slaves' = slaves + 1
    /\ UNCHANGED <<dev, live, up, lost, netif, ub, inits>>

\* What the error labels of adin1110_init give back, each with those below it.
FreeDesc == Blocks({"desc"})
FreeRst == Blocks({"rst", "rstx"}) \cup FreeDesc
FreeSpi == Blocks({"csx", "cs", "sdesc", "spi"}) \cup FreeRst

\* ... and those of stm32_gpio_get and stm32_spi_init below.
SpiErrorMutant == Blocks({"spi"})
SpiError == Blocks({"spi", "sdesc"})
SpiUndone == SpiError \cup FreeRst
Undo ==
    [desc |-> {}, rst |-> FreeDesc, rstx |-> Blocks({"rst"}) \cup FreeDesc,
     bus |-> FreeRst, spi |-> FreeRst,
     sdesc |-> SpiUndone, cs |-> SpiUndone, csx |-> Blocks({"cs"}) \cup SpiUndone,
     mac |-> FreeSpi, phy |-> FreeSpi, check |-> FreeSpi]

\* no_os_spibus_remove: the last device takes the bus with it.
SlavesKeptMutant == slaves
SlavesLeft == IF slaves > 0 THEN slaves - 1 ELSE 0
BusFreed == IF SlavesLeft = 0 THEN Bus ELSE {}

\* Undefined behaviour on the error paths: stm32_gpio_get frees a pointer it has
\* not set, stm32_spi_init reads sdesc->dma_desc without an sdesc.
Wild(s) ==
    IF s \in {"rst", "cs"} THEN {"free"} ELSE IF s = "sdesc" THEN {"sdesc"} ELSE {}

\* adin1110if_setup turns the failure into NULL, adin1110if_init passes that to
\* adin1110_set_promisc before it tests it, and network_init goes on regardless.
Failed ==
    IF netif = "add" THEN netif' = "down" /\ ub' = ub \cup Wild(at) \cup {"desc"}
    ELSE ub' = ub \cup Wild(at) /\ UNCHANGED netif

\* Whether other devices keep the bus when a step fails: it is released only
\* after no_os_spi_init has counted the device.
Releases(s) == s \in Access

Fail ==
    /\ at \in Allocs \cup {"bus"} \cup Access /\ Failed
    /\ live' = live \ (Undo[at] \cup IF Releases(at) THEN BusFreed ELSE {})
    /\ slaves' = IF Releases(at) THEN SlavesLeft ELSE slaves
    /\ \/ at' = "idle"
       \/ (Wild(at) # {} \/ netif = "add") /\ at' = "halt"
    /\ UNCHANGED <<dev, up, lost, inits>>

Accessed ==
    /\ at \in Access /\ at' = After[at]
    /\ up' = IF at = "check" THEN up \cup {dev} ELSE up
    /\ netif' = IF at = "check" /\ netif = "add" THEN "up" ELSE netif
    /\ UNCHANGED <<dev, live, slaves, lost, ub, inits>>

\* adin1110_remove
Remove(d) ==
    /\ at = "idle" /\ d \in up /\ (d = Main => netif = "none") /\ up' = up \ {d}
    /\ live' = live \ (Own(d) \cup BusFreed) /\ slaves' = SlavesLeft
    /\ UNCHANGED <<at, dev, lost, netif, ub, inits>>
-----------------------------------------------------------------------------
(* network_init and the polls that follow it.                               *)

NetworkInit ==
    /\ netif = "none" /\ Begin(Main) /\ netif' = "add"
    /\ UNCHANGED <<live, slaves, up, lost, ub>>

\* Without a descriptor adin1110_read_fifo reads through NULL.
Poll ==
    /\ at = "idle" /\ netif \in {"up", "down"}
    /\ \/ UNCHANGED at
       \/ netif = "down" /\ at' = "halt"
    /\ ub' = IF netif = "down" THEN ub \cup {"desc"} ELSE ub
    /\ UNCHANGED <<dev, live, slaves, up, lost, netif, inits>>

\* HardFault_Handler and the kernel's assertions do not return.
Halted == at = "halt" /\ UNCHANGED vars

Next ==
    \/ \E d \in Devs : InitCall(d) \/ Remove(d)
    \/ Alloc \/ MutexInit \/ Count \/ Fail \/ Accessed
    \/ NetworkInit \/ Poll \/ Halted

Spec == Init /\ [][Next]_vars
-----------------------------------------------------------------------------
(* Properties.                                                              *)

\* Between calls the blocks in use are those of the devices that are up, the bus, and
\* what every bus there was has lost: whichever step failed, the error labels gave back
\* what had been taken (adin1110.c:921-928, stm32_spi.c:253-262).
Balanced == at = "idle" =>
    live \in {(UNION {Own(d) : d \in up}) \cup lost \cup b : b \in {{}, Bus}}

\* A device that is up has its bus, whatever happens to the others, and is
\* counted once (no_os_spi.c:75, 138-139).
BusKept ==
    /\ up # {} => Bus \subseteq live
    /\ at = "idle" => slaves = Cardinality(up)

\* With the last device that is removed the bus goes too (no_os_spi.c:141-149). What
\* stays is the block of freertos_mutex.c:47, one for each call that made the bus.
RemovedClean == [][\A d \in Devs : d \in up /\ up' = {} => live' = lost']_vars

\* stm32_gpio_get frees only what it allocated (stm32_gpio.c:217).
FreesOwn == "free" \notin ub

\* stm32_spi_init cleans up through descriptors that exist (stm32_spi.c:259).
SdescExists == "sdesc" \notin ub

\* network.c uses the descriptor only when adin1110_init made one (network.c:57).
DescExists == "desc" \notin ub

\* What no_os_spi_init allocated is freed by no_os_spi_remove (no_os_spi.c:112).
NothingLost == lost = {}

\* What holds in every state: what was taken is given back but mutexTmp, and the bus
\* lives as long as its devices (adin1110.c:921-928, no_os_spi.c:75-149).
SetupInv == TypeOK /\ Balanced /\ BusKept
=============================================================================

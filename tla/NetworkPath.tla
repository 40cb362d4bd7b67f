---------------------------- MODULE NetworkPath ----------------------------
(***************************************************************************)
(* The way of an Ethernet frame between the ADIN1110 and lwIP: the poll of  *)
(* network_task (network.c), the transmit function adin1110if_link_output,  *)
(* which every thread that runs lwIP's core calls, the input mailbox and    *)
(* the loop of tcpip_thread (tcpip.c), over the locks of sys_arch.c and the *)
(* SPI transfers of stm32_spi.c.                                            *)
(*                                                                          *)
(* Threads share two locks (the mutex adinHandle and lock_tcpip_core), the  *)
(* buffer desc->data through which every SPI transfer goes, the SPI itself, *)
(* the TX_FSIZE register, the pool MEMP_TCPIP_MSG_INPKT, the mailbox and    *)
(* the memory of the pbufs. The free list of the pool is read and written   *)
(* access by access: SYS_LIGHTWEIGHT_PROT is 0 (lwipopts.h:59), and         *)
(* network_task uses it without the core lock, under which tcpip_thread     *)
(* does.                                                                    *)
(***************************************************************************)
EXTENDS Integers, Sequences

CONSTANTS Net, Tcpip,  \* the threads network_task and tcpip_thread
          Tasks,       \* the tasks that call sockets: modbus_task, its handlers
          None,        \* NULL, and the owner of a free lock
          Pbufs,       \* the pbufs that fit into lwIP's heap
          InpktNum,    \* MEMP_NUM_TCPIP_MSG_INPKT
          MboxSize,    \* TCPIP_MBOX_SIZE
          FifoLen,     \* bound: frames the receive FIFO of the device holds
          MaxFrames,   \* bound: frames that arrive
          MaxTx,       \* bound: frames sent during one stay in lwIP's core
          MaxErr       \* bound: SPI transfers that do not start or are aborted

Threads == {Net, Tcpip} \cup Tasks

ASSUME ConstantsOK ==
    /\ Net # Tcpip /\ None \notin Threads /\ Tasks \cap {Net, Tcpip} = {}
    /\ None \notin Pbufs
    /\ {InpktNum, MboxSize, FifoLen} \subseteq Nat \ {0}
    /\ {MaxFrames, MaxTx, MaxErr} \subseteq Nat

VARIABLES
    pc,       \* where each thread is
    ntx,      \* frames the thread has still to send in this stay in the core
    adin,     \* holder of adinHandle
    core,     \* holder of lock_tcpip_core
    spi,      \* the thread whose DMA transfer is under way
    data,     \* the transfer that desc->data was last filled for
    fsize,    \* whose frame the TX_FSIZE register describes
    spoilt,   \* history: the write of TX_FSIZE for the current frame was aborted
    errs,     \* SPI transfers that did not start or were aborted
    rx,       \* the receive FIFO of the device: frames by their number
    arrived,  \* number of the last frame that came from the wire
    frame,    \* the frame in eth_rx_buff, 0 when there is none
    used,     \* pbufs that are allocated
    netp,     \* the pbuf network_task holds
    leaked,   \* history: pbufs of a netif->input that failed
    inpkt,    \* elements on the free list of MEMP_TCPIP_MSG_INPKT
    seen,     \* elements on the free list when a thread last read its head
    lost,     \* history: elements that a write of the head has cut off
    twice,    \* an element that is in use is on the free list as well
    mbox,     \* tcpip_mbox: pbufs with the number of their frame
    inp,      \* the message tcpip_thread has fetched
    held,     \* pbufs the protocols keep for the socket tasks
    up        \* network_init_completed

locks == <<adin, core>>
device == <<spi, data, fsize, spoilt, errs, rx, arrived>>
pool == <<inpkt, seen, lost, twice>>
packets == <<frame, used, netp, leaked, pool, mbox, inp, held>>
vars == <<pc, ntx, locks, device, packets, up>>

\* The transfers of adin1110_write_fifo and adin1110_read_fifo, in order.
WriteOps == {"space", "fsize", "frame"}
ReadOps == {"rsize", "rframe"}
Steps == WriteOps \cup ReadOps
         \cup {"user", "idle", "fetch", "relock", "work", "out", "release",
               "poll", "alloc", "input", "take", "post", "link", "give", "delay"}

\* What eth_rx_buff holds after a read that brought no frame of the wire.
Junk == MaxFrames + 1

NoMsg == [p |-> None, f |-> 0]
Msgs == [p : Pbufs, f : 1..Junk]

TypeOK ==
    /\ pc \in [Threads -> Steps] /\ ntx \in [Threads -> 0..MaxTx]
    /\ adin \in Threads \cup {None} /\ core \in Threads \cup {None}
    /\ spi \in Threads \cup {None} /\ fsize \in Threads \cup {None}
    /\ data \in (Threads \X Steps) \cup {<<>>}
    /\ spoilt \in BOOLEAN /\ errs \in 0..MaxErr
    /\ arrived \in 0..MaxFrames /\ frame \in 0..Junk
    /\ rx \in Seq(1..MaxFrames) /\ Len(rx) <= FifoLen
    /\ used \subseteq Pbufs /\ held \subseteq Pbufs /\ leaked \subseteq Pbufs
    /\ netp \in Pbufs \cup {None} /\ inp \in Msgs \cup {NoMsg}
    /\ inpkt \in 0..InpktNum /\ lost \in 0..InpktNum
    /\ seen \in [{Net, Tcpip} -> 0..InpktNum] /\ twice \in BOOLEAN
    /\ mbox \in Seq(Msgs) /\ Len(mbox) <= MboxSize
    /\ up \in BOOLEAN

\* Between netif_add and the end of network_init: tcpip_thread already runs,
\* network_task executes lines 217 to 222, which may send.
Init ==
    /\ pc = [t \in Threads |-> CASE t = Net -> "work" [] t = Tcpip -> "idle"
                                 [] OTHER -> "user"]
    /\ ntx \in {[t \in Threads |-> IF t = Net THEN n ELSE 0] : n \in 0..MaxTx}
    /\ adin = None /\ core = Tcpip
    /\ spi = None /\ data = <<>> /\ fsize = None /\ spoilt = FALSE
    /\ errs = 0
    /\ rx = <<>> /\ arrived = 0 /\ frame = 0
    /\ used = {} /\ netp = None /\ leaked = {} /\ held = {}
    /\ inpkt = InpktNum /\ seen = [t \in {Net, Tcpip} |-> 0] /\ lost = 0 /\ twice = FALSE
    /\ mbox = <<>> /\ inp = NoMsg /\ up = FALSE

Goto(t, l) == pc' = [pc EXCEPT ![t] = l]
-----------------------------------------------------------------------------
(* SPI transfers (stm32_spi_transfer) and the device behind them.           *)

\* desc->data is filled and HAL_SPI_*_DMA called, which may fail (it does when
\* a transfer is under way) and send the caller to its error return.
SpiStart(t) ==
    /\ pc[t] \in WriteOps \cup ReadOps /\ spi # t
    /\ data' = <<t, pc[t]>>
    /\ \/ spi = None /\ spi' = t /\ UNCHANGED <<pc, errs>>
       \/ errs < MaxErr /\ errs' = errs + 1 /\ Goto(t, "release") /\ UNCHANGED spi
    /\ UNCHANGED <<ntx, locks, fsize, spoilt, rx, arrived, packets, up>>

\* TX_SPACE leaves room for the frame, or the FIFO is full: -EAGAIN.
AfterSpaceMutant == {"fsize", "space"}
AfterSpace == {"fsize", "release"}

\* The DMA interrupt ends the busy wait; the caller goes on with the next
\* transfer of the frame.
Others == <<ntx, locks, data, arrived, used, netp, leaked, pool, mbox, inp, held, up>>

SpiEnd(t) ==
    /\ spi = t /\ spi' = None
    /\ \/ /\ pc[t] = "space" /\ \E l \in AfterSpace : Goto(t, l)
          /\ UNCHANGED <<fsize, rx, frame>>
       \/ pc[t] = "fsize" /\ Goto(t, "frame") /\ fsize' = t /\ UNCHANGED <<rx, frame>>
       \/ pc[t] = "frame" /\ Goto(t, "release") /\ UNCHANGED <<fsize, rx, frame>>
       \/ /\ pc[t] = "rsize" /\ Goto(t, IF rx = <<>> THEN "release" ELSE "rframe")
          /\ UNCHANGED <<fsize, rx, frame>>
       \/ /\ pc[t] = "rframe" /\ Goto(t, "release") /\ UNCHANGED fsize
          /\ \/ rx # <<>> /\ frame' = Head(rx) /\ rx' = Tail(rx)
             \/ rx = <<>> /\ frame' = Junk /\ UNCHANGED rx
    /\ UNCHANGED <<spoilt, errs, Others>>

\* A DMA error ends the wait as well, which is for HAL_SPI_STATE_READY only: the
\* transfer counts as done, a register that was to be written keeps its value,
\* and what was to be read is what desc->data held.
SpiAbort(t) ==
    /\ spi = t /\ spi' = None /\ errs < MaxErr /\ errs' = errs + 1
    /\ \/ pc[t] = "space" /\ (\E l \in AfterSpace : Goto(t, l)) /\ UNCHANGED <<spoilt, frame>>
       \/ pc[t] = "fsize" /\ Goto(t, "frame") /\ spoilt' = TRUE /\ UNCHANGED frame
       \/ pc[t] = "frame" /\ Goto(t, "release") /\ UNCHANGED <<spoilt, frame>>
       \/ /\ pc[t] = "rsize" /\ (\E l \in {"release", "rframe"} : Goto(t, l))
          /\ UNCHANGED <<spoilt, frame>>
       \/ pc[t] = "rframe" /\ Goto(t, "release") /\ frame' = Junk /\ UNCHANGED spoilt
    /\ UNCHANGED <<fsize, rx, Others>>

\* A frame from the wire; the device drops it when its FIFO is full.
Arrive ==
    /\ arrived < MaxFrames /\ arrived' = arrived + 1
    /\ rx' = IF Len(rx) < FifoLen THEN Append(rx, arrived') ELSE rx
    /\ UNCHANGED <<pc, ntx, locks, spi, data, fsize, spoilt, errs, packets, up>>
-----------------------------------------------------------------------------
(* Locks.                                                                   *)

\* osMutexWait(adinHandle, osWaitForever) in link_output and in the poll.
CanTakeMutant(lock) == TRUE
CanTake(lock) == lock = None

AdinWait(t) ==
    /\ pc[t] \in {"out", "poll"} /\ CanTake(adin) /\ adin' = t
    /\ Goto(t, IF pc[t] = "out" THEN "space" ELSE "rsize")
    /\ UNCHANGED <<ntx, core, device, packets, up>>

\* osMutexRelease: link_output returns to the core, the poll goes on with the
\* frame it has read or returns.
AdinRelease(t) ==
    /\ pc[t] = "release" /\ adin' = None /\ spoilt' = FALSE
    /\ Goto(t, IF t = Net /\ up THEN IF frame # 0 THEN "alloc" ELSE "delay"
               ELSE "work")
    /\ UNCHANGED <<ntx, core, spi, data, fsize, errs, rx, arrived, packets, up>>

\* LOCK_TCPIP_CORE by tcpip_thread after its fetch and by the socket calls of
\* the tasks; the stay in the core will send n frames.
LockCore(t) ==
    /\ pc[t] = "relock" /\ CanTake(core) /\ core' = t
    /\ \E n \in 0..MaxTx : ntx' = [ntx EXCEPT ![t] = n]
    /\ Goto(t, "work") /\ UNCHANGED <<adin, device, packets, up>>

\* netif->linkoutput, called from the core.
Output(t) ==
    /\ pc[t] = "work" /\ ntx[t] > 0
    /\ ntx' = [ntx EXCEPT ![t] = @ - 1] /\ Goto(t, "out")
    /\ UNCHANGED <<locks, device, packets, up>>
-----------------------------------------------------------------------------
(* network_task.                                                            *)

\* network_init returns, network_init_completed is set, the polling starts.
InitDone ==
    /\ ~up /\ pc[Net] = "work" /\ ntx[Net] = 0
    /\ up' = TRUE /\ Goto(Net, "poll") /\ UNCHANGED <<ntx, locks, device, packets>>

\* osDelay(NETWORK_TASK_INTERVAL_MS) ends.
NextPoll ==
    /\ pc[Net] = "delay" /\ Goto(Net, "poll")
    /\ UNCHANGED <<ntx, locks, device, packets, up>>

\* pbuf_alloc, and the copy of eth_rx_buff into the pbuf.
PbufAlloc ==
    /\ pc[Net] = "alloc"
    /\ \/ \E p \in Pbufs \ used :
             /\ used' = used \cup {p} /\ netp' = p /\ Goto(Net, "input")
             /\ UNCHANGED frame
       \/ used = Pbufs /\ frame' = 0 /\ Goto(Net, "delay") /\ UNCHANGED <<used, netp>>
    /\ UNCHANGED <<ntx, locks, device, leaked, pool, mbox, inp, held, up>>

\* adin1110if_poll returns the result of netif->input; it forgets the pbuf also
\* when it was refused.
PollReturn == netp' = None /\ frame' = 0
Taken == PollReturn /\ UNCHANGED leaked
Refused == PollReturn /\ leaked' = leaked \cup {netp}

\* The head of the free list is read: by memp_malloc, and by memp_free for
\* memp->next.
MempRead(t) == seen' = [seen EXCEPT ![t] = inpkt]

\* The head is written. What other threads have put on the list since it was read
\* is cut off; an element they have taken off it meanwhile is on it again.
\* The list is not followed any further then: the first word of a message is
\* both memp->next and msg->type.
MempWrite(t, n) ==
    /\ seen' = [seen EXCEPT ![t] = 0] /\ twice' = (twice \/ seen[t] > inpkt)
    /\ IF twice' THEN UNCHANGED <<inpkt, lost>>
       ELSE inpkt' = n /\ lost' = lost + (inpkt - seen[t])

\* *desc->tab = memp->next, and *desc->tab = memp.
MempMalloc(t) == MempWrite(t, seen[t] - 1)
MempFreeMutant(t) == MempWrite(t, seen[t])
MempFree(t) == MempWrite(t, seen[t] + 1)

\* tcpip_inpkt: memp_malloc(MEMP_TCPIP_MSG_INPKT) finds an element or none.
InpktHead ==
    /\ pc[Net] = "input"
    /\ \/ (twice \/ inpkt > 0) /\ MempRead(Net) /\ Goto(Net, "take")
          /\ UNCHANGED <<netp, frame, leaked>>
       \/ (twice \/ inpkt = 0) /\ Refused /\ Goto(Net, "delay") /\ UNCHANGED seen
    /\ UNCHANGED <<ntx, locks, device, used, inpkt, lost, twice, mbox, inp, held, up>>

InpktTake ==
    /\ pc[Net] = "take" /\ MempMalloc(Net) /\ Goto(Net, "post")
    /\ UNCHANGED <<ntx, locks, device, frame, used, netp, leaked, mbox, inp, held, up>>

\* xQueueSendToBack
PostToMutant(q, m) == <<m>> \o q
PostTo(q, m) == Append(q, m)

\* sys_mbox_trypost: the message is given back when the mailbox is full.
InpktPost ==
    /\ pc[Net] = "post"
    /\ \/ /\ Len(mbox) < MboxSize /\ mbox' = PostTo(mbox, [p |-> netp, f |-> frame])
          /\ Taken /\ Goto(Net, "delay")
       \/ Len(mbox) = MboxSize /\ Refused /\ Goto(Net, "link") /\ UNCHANGED mbox
    /\ UNCHANGED <<ntx, locks, device, used, pool, inp, held, up>>

\* memp_free by tcpip_inpkt and by tcpip_thread_handle_msg.
InpktLink(t) ==
    /\ pc[t] = "link" /\ MempRead(t) /\ Goto(t, "give")
    /\ UNCHANGED <<ntx, locks, device, frame, used, netp, leaked, inpkt, lost, twice,
                   mbox, inp, held, up>>

InpktGive(t) ==
    /\ pc[t] = "give" /\ MempFree(t) /\ Goto(t, IF t = Net THEN "delay" ELSE "idle")
    /\ UNCHANGED <<ntx, locks, device, frame, used, netp, leaked, mbox, inp, held, up>>
-----------------------------------------------------------------------------
(* tcpip_thread and the socket tasks.                                       *)

\* tcpip_mbox_fetch: timers that are due run with the core locked,
Timeouts ==
    /\ pc[Tcpip] = "idle" /\ Goto(Tcpip, "work")
    /\ \E n \in 0..MaxTx : ntx' = [ntx EXCEPT ![Tcpip] = n]
    /\ UNCHANGED <<locks, device, packets, up>>

\* otherwise the core is unlocked for the wait.
FetchBegin ==
    /\ pc[Tcpip] = "idle" /\ core' = None /\ Goto(Tcpip, "fetch")
    /\ UNCHANGED <<ntx, adin, device, packets, up>>

\* sys_arch_mbox_fetch returns a message, or nothing after its time-out.
Fetch ==
    /\ pc[Tcpip] = "fetch" /\ Goto(Tcpip, "relock")
    /\ \/ mbox # <<>> /\ inp' = Head(mbox) /\ mbox' = Tail(mbox)
       \/ mbox = <<>> /\ UNCHANGED <<inp, mbox>>
    /\ UNCHANGED <<ntx, locks, device, frame, used, netp, leaked, pool, held, up>>

\* The end of tcpip_thread_handle_msg: input_fn has kept the pbuf for a
\* socket, has freed it, or has refused it, so that it is freed here.
DisposeMutant(p) == held' \in {held, held \cup {p}} /\ used' = used \ {p}
Dispose(p) ==
    \/ held' = held \cup {p} /\ UNCHANGED used
    \/ used' = used \ {p} /\ UNCHANGED held

HandleDone ==
    /\ pc[Tcpip] = "work" /\ ntx[Tcpip] = 0
    /\ \/ inp # NoMsg /\ Dispose(inp.p) /\ inp' = NoMsg /\ Goto(Tcpip, "link")
       \/ inp = NoMsg /\ Goto(Tcpip, "idle") /\ UNCHANGED <<used, held, inp>>
    /\ UNCHANGED <<ntx, locks, device, frame, netp, leaked, pool, mbox, up>>

\* A task enters a socket call, leaves the core, frees what it has received.
Call(t) ==
    /\ pc[t] = "user" /\ Goto(t, "relock")
    /\ UNCHANGED <<ntx, locks, device, packets, up>>

Return(t) ==
    /\ t \in Tasks /\ pc[t] = "work" /\ ntx[t] = 0
    /\ core' = None /\ Goto(t, "user") /\ UNCHANGED <<ntx, adin, device, packets, up>>

Free(t) ==
    /\ pc[t] = "user"
    /\ \E p \in held : used' = used \ {p} /\ held' = held \ {p}
    /\ UNCHANGED <<pc, ntx, locks, device, frame, netp, leaked, pool, mbox, inp, up>>
-----------------------------------------------------------------------------
Give(t) == InpktLink(t) \/ InpktGive(t)
NetStep == \/ InitDone \/ NextPoll \/ PbufAlloc
           \/ InpktHead \/ InpktTake \/ InpktPost \/ Give(Net)
TcpipStep == Timeouts \/ FetchBegin \/ Fetch \/ HandleDone \/ Give(Tcpip)
Driver(t) == SpiStart(t) \/ SpiEnd(t) \/ SpiAbort(t) \/ AdinRelease(t) \/ Output(t)

Next ==
    \/ Arrive \/ NetStep \/ TcpipStep
    \/ \E t \in Threads : Driver(t) \/ AdinWait(t) \/ LockCore(t)
    \/ \E t \in Tasks : Call(t) \/ Return(t) \/ Free(t)

Spec == Init /\ [][Next]_vars

\* Threads of one priority share the processor, the DMA interrupt comes, and
\* a thread that waits for a mutex gets it when it is free again and again:
\* the waiters of a mutex queue up, and network_task sleeps between two polls.
\* Timers are not due for ever: each has a period of 100 ms or more. No task is
\* made to call a socket.
Fairness ==
    /\ WF_vars(NetStep) /\ WF_vars(TcpipStep) /\ SF_vars(FetchBegin)
    /\ \A t \in Threads : WF_vars(Driver(t)) /\ SF_vars(AdinWait(t))
    /\ \A t \in Threads \ {Net} : SF_vars(LockCore(t))
    /\ \A t \in Tasks : WF_vars(Return(t))

FairSpec == Spec /\ Fairness
-----------------------------------------------------------------------------
(* Properties.                                                              *)

InCore(t) == /\ pc[t] \in {"work", "out", "release", "link", "give"} \cup WriteOps
             /\ t = Net => ~up

\* desc->data keeps what the running SPI transfer was started with until the
\* DMA is done: link_output and the poll never fill the buffer under each
\* other's transfer (network.c:127, network.c:147).
DataStable == spi # None => data = <<spi, pc[spi]>>

\* While link_output writes the bytes of a frame, TX_FSIZE holds the size of
\* that frame and not the one another thread wrote (adin1110.c:528-551), unless a
\* DMA error has aborted the frame's own write of it (stm32_spi.c:402-405).
FsizeMine == \A t \in Threads : pc[t] = "frame" => fsize = t \/ spoilt

\* tcpip_thread and the tasks execute lwIP's core, the transmissions they make from
\* there included, one at a time, from the start (tcpip.c:112-114). network_task
\* is in the core in network_init only.
CoreShared ==
    \A t, u \in Threads : InCore(t) /\ InCore(u) => t = u \/ (Net \in {t, u} /\ ~up)

\* The same with network_task: netif_set_default, netif_set_up, netif_set_link_up
\* and dhcp_start assert the core lock (netif.c:873).
CoreExclusive == \A t, u \in Threads : InCore(t) /\ InCore(u) => t = u

\* Where a pbuf is known: network_task, the mailbox, tcpip_thread, a socket.
Refs == (IF netp = None THEN <<>> ELSE <<netp>>)
        \o [i \in DOMAIN mbox |-> mbox[i].p]
        \o (IF inp = NoMsg THEN <<>> ELSE <<inp.p>>)
RefSet == {Refs[i] : i \in DOMAIN Refs} \cup held

\* No pbuf is in two hands, and none is used after it was freed: what the
\* poll, the mailbox, tcpip_thread and the sockets know is allocated memory.
NoDangling ==
    /\ RefSet \subseteq used
    /\ \A i, j \in DOMAIN Refs : Refs[i] \notin held /\ (Refs[i] = Refs[j] => i = j)

\* The pbufs that nobody knows any more are those of a netif->input that failed,
\* which network.c:168 does not free: no other is ever forgotten.
LeaksKnown == used = RefSet \cup leaked /\ RefSet \cap leaked = {}

\* Every allocated pbuf is known to someone: the pbuf of a refused
\* netif->input is freed by the caller (netif.h:178-179).
NoLeak == used = RefSet

\* Every element of MEMP_TCPIP_MSG_INPKT is free, in the mailbox, in the hands of
\* tcpip_inpkt or tcpip_thread, or was cut off by a write of the list's head:
\* no error path loses one.
InUse == (IF inp = NoMsg THEN 0 ELSE 1)
         + (IF pc[Net] \in {"post", "link", "give"} THEN 1 ELSE 0)
         + (IF pc[Tcpip] \in {"link", "give"} THEN 1 ELSE 0)
InpktAccounted == InpktNum = inpkt + lost + Len(mbox) + InUse

\* The pool has one user at a time, as SYS_ARCH_PROTECT (memp.c:256, 373) is there
\* to see to: no element is lost or given to two.
PoolProtected == lost = 0 /\ ~twice

\* Frames reach ethernet_input in the order in which they came from the wire.
Before(a, b) == Junk \in {a, b} \/ a < b
InOrder ==
    LET pending == (IF inp = NoMsg THEN <<>> ELSE <<inp.f>>)
                   \o [i \in DOMAIN mbox |-> mbox[i].f]
                   \o (IF frame = 0 THEN <<>> ELSE <<frame>>) \o rx
    IN  \A i, j \in DOMAIN pending :
            i < j => Before(pending[i], pending[j]) \/ twice

\* A transmission that has begun ends, whatever the poll and the other
\* threads do: adinHandle and the core lock cannot block each other.
TxCompletes == \A t \in Threads : pc[t] = "out" ~> pc[t] = "work"

\* A frame in the receive FIFO is read, one in the mailbox is handled.
RxDrained == /\ \A f \in 1..MaxFrames : (rx # <<>> /\ rx[1] = f) ~> (rx = <<>> \/ rx[1] # f)
             /\ \A n \in 1..MboxSize : Len(mbox) = n ~> Len(mbox) # n

\* What the two locks are for: the SPI buffer, TX_FSIZE and lwIP's core have one
\* user at a time (network.c:127, 147; tcpip.c:112-114).
Exclusive == DataStable /\ FsizeMine /\ CoreShared

\* Pbufs and messages are where their owners know them, those of the error paths
\* and of an interrupted change of the free list included, up to the moment
\* when that list gives a message to two (network.c:168, tcpip.c:268-281).
Owned == TypeOK /\ (twice \/ (NoDangling /\ LeaksKnown /\ InpktAccounted))

\* Neither direction waits for the other for ever.
Progress == TxCompletes /\ RxDrained
=============================================================================

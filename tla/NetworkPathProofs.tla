-------------------------- MODULE NetworkPathProofs --------------------------
(***************************************************************************)
(* What holds of the frame path for any number of tasks, pbufs, messages,   *)
(* frames and failing transfers: the two locks do what they are for, pbufs  *)
(* and messages stay with one owner, and frames stay in order.              *)
(*                                                                          *)
(* The invariant comes in three layers, each proved with the one before it: *)
(* where the threads are and which lock that means (LockInv), what the      *)
(* receive path carries at each of those places (PacketInv with Handed and, *)
(* for the messages, PoolInv), and the numbers of the frames (OrderInv).    *)
(***************************************************************************)
EXTENDS NetworkPath, SequenceTheorems, TLAPS
-----------------------------------------------------------------------------
(* The inductive invariant.                                                 *)

AdinSteps == WriteOps \cup ReadOps \cup {"release"}
CoreSteps == WriteOps \cup {"work", "out", "release"}
FreeSteps == {"link", "give"}
PollSteps == ReadOps \cup {"poll", "alloc", "input", "take", "post", "delay"} \cup FreeSteps

\* Where a thread other than network_task has the core lock.
LockedSteps == CoreSteps \cup FreeSteps \cup {"idle"}

LockTypeOK ==
    /\ pc \in [Threads -> Steps] /\ ntx \in [Threads -> 0..MaxTx]
    /\ adin \in Threads \cup {None} /\ core \in Threads \cup {None}
    /\ spi \in Threads \cup {None} /\ fsize \in Threads \cup {None}
    /\ data \in (Threads \X Steps) \cup {<<>>}
    /\ spoilt \in BOOLEAN /\ errs \in 0..MaxErr /\ up \in BOOLEAN

\* Each kind of thread executes its own code only.
Roles ==
    /\ pc[Net] \in IF up THEN PollSteps \cup {"release"} ELSE CoreSteps
    /\ pc[Tcpip] \in LockedSteps \cup {"fetch", "relock"}
    /\ \A t \in Tasks : pc[t] \in CoreSteps \cup {"user", "relock"}

\* A thread holds adinHandle exactly between osMutexWait and osMutexRelease.
AdinHeld == \A t \in Threads : adin = t <=> pc[t] \in AdinSteps

\* A transfer under way is one of the thread that holds adinHandle.
SpiHeld == spi # None => adin = spi /\ pc[spi] \in WriteOps \cup ReadOps

\* A thread other than network_task holds the core lock exactly while it executes
\* lwIP; network_task never takes it.
CoreHeld ==
    /\ core # Net
    /\ \A t \in Threads \ {Net} : core = t <=> pc[t] \in LockedSteps

LockInv ==
    /\ LockTypeOK /\ Roles /\ AdinHeld /\ SpiHeld /\ CoreHeld
    /\ DataStable /\ FsizeMine

PacketTypeOK ==
    /\ arrived \in 0..MaxFrames /\ frame \in 0..Junk
    /\ rx \in Seq(1..MaxFrames) /\ Len(rx) <= FifoLen
    /\ used \subseteq Pbufs /\ held \subseteq Pbufs /\ leaked \subseteq Pbufs
    /\ netp \in Pbufs \cup {None} /\ inp \in Msgs \cup {NoMsg}
    /\ mbox \in Seq(Msgs) /\ Len(mbox) <= MboxSize

\* What network_task and tcpip_thread have in their hands where they are.
Carries ==
    /\ pc[Net] \in {"input", "take", "post"} <=> netp # None
    /\ pc[Net] \in {"alloc", "input", "take", "post"} => frame # 0
    /\ frame # 0 => up /\ pc[Net] \in {"release", "alloc", "input", "take", "post"}
    /\ inp # NoMsg => pc[Tcpip] \in CoreSteps \cup {"relock"}

PoolTypeOK ==
    /\ inpkt \in 0..InpktNum /\ lost \in 0..InpktNum /\ twice \in BOOLEAN
    /\ seen \in [{Net, Tcpip} -> 0..InpktNum]

\* What the threads have read of the free list against what it has become:
\* tcpip_thread only adds to it while network_task is in memp_malloc or memp_free,
\* and while tcpip_thread is in memp_free network_task adds no more than the one
\* message that it may hold.
Heads ==
    /\ pc[Net] = "take" => 0 < seen[Net]
    /\ pc[Net] \in {"take", "give"} => seen[Net] <= inpkt
    /\ pc[Tcpip] = "give" => inpkt <= seen[Tcpip] + 1
    /\ pc[Tcpip] = "give" /\ pc[Net] \in {"post", "link", "give"} => inpkt <= seen[Tcpip]

PoolInv == PoolTypeOK /\ (twice \/ (InpktAccounted /\ Heads))

PacketInv == PacketTypeOK /\ Carries

\* NoDangling and LeaksKnown place by place.
Handed ==
    /\ held \subseteq used /\ leaked \subseteq used \ held
    /\ netp # None => netp \in used \ (held \cup leaked)
    /\ inp # NoMsg => inp.p \in used \ (held \cup leaked) /\ inp.p # netp
    /\ \A i \in DOMAIN mbox : /\ mbox[i].p \in used \ (held \cup leaked)
                              /\ mbox[i].p \notin {netp, inp.p}
    /\ \A i, j \in DOMAIN mbox : mbox[i].p = mbox[j].p => i = j
    /\ \A p \in used \ (held \cup leaked) :
          p \in {netp, inp.p} \/ \E i \in DOMAIN mbox : mbox[i].p = p

\* InOrder place by place, with the number of the last frame as a bound of all.
OrderInv ==
    /\ \A i, j \in DOMAIN rx : i < j => rx[i] < rx[j]
    /\ \A i \in DOMAIN rx : Before(frame, rx[i]) /\ rx[i] <= arrived
    /\ frame \in (0..arrived) \cup {Junk}
    /\ \A i, j \in DOMAIN mbox : i < j => Before(mbox[i].f, mbox[j].f)
    /\ \A i \in DOMAIN mbox : /\ frame # 0 => Before(mbox[i].f, frame)
                              /\ \A j \in DOMAIN rx : Before(mbox[i].f, rx[j])
                              /\ mbox[i].f \in (0..arrived) \cup {Junk}
                              /\ Before(inp.f, mbox[i].f)
    /\ frame # 0 => Before(inp.f, frame)
    /\ inp.f \in (0..arrived) \cup {Junk} /\ \A j \in DOMAIN rx : Before(inp.f, rx[j])
-----------------------------------------------------------------------------
(* Locks.                                                                   *)

\* network_task, tcpip_thread and the socket tasks are different threads.
LEMMA ThreadsDiffer ==
    /\ Net \in Threads /\ Tcpip \in Threads /\ Net # Tcpip /\ None \notin Threads
    /\ \A t \in Tasks : t \in Threads /\ t # Net /\ t # Tcpip
    /\ \A t \in Threads : t = Net \/ t = Tcpip \/ t \in Tasks
BY ConstantsOK DEF Threads

\* network_init has just added the interface: no lock but the core lock is held.
LEMMA InitLock == Init => LockInv
<1> SUFFICES ASSUME Init PROVE LockInv
  OBVIOUS
<1> USE ThreadsDiffer
<1>1. /\ pc[Net] = "work" /\ pc[Tcpip] = "idle" /\ \A t \in Tasks : pc[t] = "user"
      /\ pc \in [Threads -> Steps]
  <2>1. \A t \in Threads : pc[t] = CASE t = Net -> "work" [] t = Tcpip -> "idle" [] OTHER -> "user"
    BY DEF Init
  <2>2. pc[Net] = "work"
    BY <2>1
  <2>3. pc[Tcpip] = "idle"
    BY <2>1
  <2>4. \A t \in Tasks : pc[t] = "user"
    BY <2>1
  <2>5. \A t \in Threads : pc[t] \in Steps
    BY <2>2, <2>3, <2>4 DEF Steps
  <2>6. pc = [t \in Threads |-> pc[t]]
    BY DEF Init
  <2> QED
    BY <2>2, <2>3, <2>4, <2>5, <2>6
<1>2. ntx \in [Threads -> 0..MaxTx]
  BY ConstantsOK DEF Init
<1>3. /\ adin = None /\ core = Tcpip /\ spi = None /\ data = <<>> /\ fsize = None
      /\ spoilt = FALSE /\ errs = 0 /\ up = FALSE
  BY DEF Init
<1>4. LockTypeOK
  <2>1. errs \in 0..MaxErr
    BY <1>3, ConstantsOK
  <2>2. data \in (Threads \X Steps) \cup {<<>>}
    BY <1>3
  <2>3. adin \in Threads \cup {None} /\ core \in Threads \cup {None}
        /\ spi \in Threads \cup {None} /\ fsize \in Threads \cup {None}
        /\ spoilt \in BOOLEAN /\ up \in BOOLEAN
    BY <1>3
  <2> QED
    BY <1>1, <1>2, <2>1, <2>2, <2>3 DEF LockTypeOK
<1>5. Roles
  BY <1>1, <1>3 DEF Roles, LockedSteps, CoreSteps, FreeSteps
<1>6. AdinHeld /\ SpiHeld /\ DataStable
  BY <1>1, <1>3 DEF AdinHeld, SpiHeld, DataStable, AdinSteps, WriteOps, ReadOps
<1>7. CoreHeld /\ FsizeMine
  BY <1>1, <1>3 DEF CoreHeld, FsizeMine, LockedSteps, CoreSteps, FreeSteps, WriteOps
<1> QED
  BY <1>4, <1>5, <1>6, <1>7 DEF LockInv

\* A step of thread t that takes or gives back neither lock, ends no transfer and
\* stays on the same side of both locks.
LEMMA InsideStep ==
    ASSUME LockInv, NEW t \in Threads, NEW l \in Steps, Goto(t, l),
           ntx' \in [Threads -> 0..MaxTx], UNCHANGED <<locks, spi, data, fsize, spoilt, errs>>,
           pc[t] \notin AdinSteps, l \notin AdinSteps,
           t # Net => (pc[t] \in LockedSteps <=> l \in LockedSteps),
           up' \in BOOLEAN, Roles'
    PROVE  LockInv'
<1> USE ThreadsDiffer DEF LockInv, LockTypeOK
<1>1. pc' \in [Threads -> Steps] /\ \A u \in Threads : pc'[u] = IF u = t THEN l ELSE pc[u]
  BY DEF Goto
<1>2. LockTypeOK'
  BY <1>1 DEF locks
<1>3. AdinHeld'
  BY <1>1 DEF AdinHeld, locks
<1>4. SpiHeld' /\ DataStable'
  BY <1>1 DEF SpiHeld, DataStable, locks, AdinSteps
<1>5. CoreHeld'
  BY <1>1 DEF CoreHeld, locks
<1>6. FsizeMine'
  BY <1>1 DEF FsizeMine, AdinSteps, WriteOps
<1> QED
  BY <1>2, <1>3, <1>4, <1>5, <1>6

\* SpiStart(t): only the holder of adinHandle starts a transfer, so none is under
\* way, and desc->data is its own (stm32_spi.c).
LEMMA SpiStartLock == ASSUME LockInv, NEW t \in Threads, SpiStart(t) PROVE LockInv'
<1> USE ThreadsDiffer DEF LockInv, LockTypeOK
<1>1. adin = t /\ spi = None
  BY DEF SpiStart, AdinHeld, SpiHeld, AdinSteps
<1>2. /\ data' = <<t, pc[t]>> /\ UNCHANGED <<ntx, adin, core, fsize, spoilt, up>>
      /\ pc[t] \in WriteOps \cup ReadOps
  BY DEF SpiStart, locks
<1>3. data' \in (Threads \X Steps) \cup {<<>>}
  BY <1>2
<1>4. CASE spi' = t /\ UNCHANGED <<pc, errs>>
  BY <1>1, <1>2, <1>3, <1>4
     DEF Roles, AdinHeld, SpiHeld, CoreHeld, DataStable, FsizeMine, AdinSteps
<1>5. CASE errs < MaxErr /\ errs' = errs + 1 /\ Goto(t, "release") /\ UNCHANGED spi
  <2>1. /\ pc' \in [Threads -> Steps]
        /\ \A u \in Threads : pc'[u] = IF u = t THEN "release" ELSE pc[u]
    BY <1>5 DEF Goto, Steps
  <2>2. LockTypeOK'
    BY <1>1, <1>2, <1>3, <1>5, <2>1, ConstantsOK
  <2>3. Roles'
    BY <1>2, <2>1 DEF Roles, LockedSteps, CoreSteps, FreeSteps, PollSteps, WriteOps, ReadOps
  <2>4. AdinHeld' /\ SpiHeld' /\ DataStable'
    BY <1>1, <1>2, <1>5, <2>1 DEF AdinHeld, SpiHeld, DataStable, AdinSteps
  <2>5. CoreHeld' /\ FsizeMine'
    BY <1>2, <2>1 DEF CoreHeld, FsizeMine, Roles, LockedSteps, CoreSteps, FreeSteps, PollSteps, WriteOps, ReadOps
  <2> QED
    BY <2>2, <2>3, <2>4, <2>5
<1> QED
  BY <1>4, <1>5 DEF SpiStart

\* SpiEnd(t) and SpiAbort(t): the caller goes on with the next transfer or to the
\* release, and TX_FSIZE is written by the holder of adinHandle or, when the
\* write is aborted, by nobody (adin1110.c:528-551, stm32_spi.c:402-405).
LEMMA SpiEndLock ==
    ASSUME LockInv, NEW t \in Threads, SpiEnd(t) \/ SpiAbort(t)
    PROVE  LockInv'
<1> USE ThreadsDiffer DEF LockInv, LockTypeOK
<1>1. adin = t /\ spi' = None /\ pc[t] \in WriteOps \cup ReadOps
      /\ UNCHANGED <<ntx, adin, core, data, up>> /\ errs' \in 0..MaxErr
  <2>1. /\ adin = t /\ spi' = None /\ pc[t] \in WriteOps \cup ReadOps
        /\ UNCHANGED <<ntx, adin, core, data, up>>
        /\ errs' = errs \/ (errs < MaxErr /\ errs' = errs + 1)
    BY DEF SpiEnd, SpiAbort, SpiHeld, Others, locks
  <2>2. MaxErr \in Nat /\ errs \in 0..MaxErr
    BY ConstantsOK
  <2> QED
    BY <2>1, <2>2
<1>2. PICK l \in AdinSteps :
        /\ Goto(t, l)
        /\ pc[t] \in WriteOps => l \in WriteOps \cup {"release"}
        /\ pc[t] \in ReadOps => l \in ReadOps \cup {"release"}
        /\ \/ pc[t] = "fsize" /\ l = "frame" /\ fsize' = t /\ spoilt' = spoilt
           \/ pc[t] = "fsize" /\ l = "frame" /\ fsize' = fsize /\ spoilt' = TRUE
           \/ l # "frame" /\ UNCHANGED <<fsize, spoilt>>
  <2>1. CASE SpiEnd(t)
    BY <2>1 DEF SpiEnd, AfterSpace, AdinSteps, WriteOps, ReadOps
  <2>2. CASE SpiAbort(t)
    BY <2>2 DEF SpiAbort, AfterSpace, AdinSteps, WriteOps, ReadOps
  <2> QED
    BY <2>1, <2>2
<1>3. /\ pc' \in [Threads -> Steps]
      /\ \A u \in Threads : pc'[u] = IF u = t THEN l ELSE pc[u]
  BY <1>2 DEF Goto, Steps, AdinSteps
<1>4. LockTypeOK'
  BY <1>1, <1>2, <1>3
<1>5. Roles'
  BY <1>1, <1>2, <1>3 DEF Roles, LockedSteps, CoreSteps, FreeSteps, PollSteps, WriteOps, ReadOps
<1>6. AdinHeld' /\ SpiHeld' /\ DataStable'
  BY <1>1, <1>2, <1>3 DEF AdinHeld, SpiHeld, DataStable, AdinSteps
<1>7. CoreHeld'
  <2>1. t # Net => pc[t] \in LockedSteps /\ l \in LockedSteps
    BY <1>1, <1>2 DEF Roles, LockedSteps, CoreSteps, FreeSteps, WriteOps, ReadOps
  <2> QED
    BY <1>1, <1>3, <2>1 DEF CoreHeld
<1>8. FsizeMine'
  <2>1. \A u \in Threads : u # t => pc[u] # "frame"
    BY <1>1 DEF AdinHeld, AdinSteps, WriteOps
  <2> QED
    BY <1>2, <1>3, <2>1 DEF FsizeMine
<1> QED
  BY <1>4, <1>5, <1>6, <1>7, <1>8

\* AdinWait(t): adinHandle is free, so no thread is between it and the release.
LEMMA AdinWaitLock == ASSUME LockInv, NEW t \in Threads, AdinWait(t) PROVE LockInv'
<1> USE ThreadsDiffer DEF LockInv, LockTypeOK
<1>1. adin = None /\ adin' = t /\ UNCHANGED <<ntx, core, spi, data, fsize, spoilt, errs, up>>
  BY DEF AdinWait, CanTake, device
<1>2. PICK l \in Steps : Goto(t, l) /\ \/ pc[t] = "out" /\ l = "space"
                                       \/ pc[t] = "poll" /\ l = "rsize"
  BY DEF AdinWait, Steps, WriteOps, ReadOps
<1>3. /\ pc' \in [Threads -> Steps]
      /\ \A u \in Threads : pc'[u] = IF u = t THEN l ELSE pc[u]
  BY <1>2 DEF Goto
<1>4. LockTypeOK'
  BY <1>1, <1>3
<1>5. Roles'
  BY <1>1, <1>2, <1>3 DEF Roles, LockedSteps, CoreSteps, FreeSteps, PollSteps, WriteOps, ReadOps
<1>6. AdinHeld'
  BY <1>1, <1>2, <1>3 DEF AdinHeld, AdinSteps, WriteOps, ReadOps
<1>7. SpiHeld' /\ DataStable'
  BY <1>1 DEF SpiHeld, DataStable
<1>8. CoreHeld' /\ FsizeMine'
  BY <1>1, <1>2, <1>3 DEF CoreHeld, FsizeMine, Roles, LockedSteps, CoreSteps, FreeSteps, PollSteps, WriteOps, ReadOps
<1> QED
  BY <1>4, <1>5, <1>6, <1>7, <1>8

\* AdinRelease(t): the holder gives adinHandle back with no transfer under way.
LEMMA AdinReleaseLock == ASSUME LockInv, NEW t \in Threads, AdinRelease(t) PROVE LockInv'
<1> USE ThreadsDiffer DEF LockInv, LockTypeOK
<1>1. /\ pc[t] = "release" /\ adin' = None /\ spoilt' = FALSE
      /\ UNCHANGED <<ntx, core, spi, data, fsize, errs, up>>
  BY DEF AdinRelease
<1>2. adin = t /\ spi = None
  BY <1>1 DEF AdinHeld, SpiHeld, AdinSteps, WriteOps, ReadOps
<1>3. PICK l \in Steps : Goto(t, l) /\ \/ ~(t = Net /\ up) /\ l = "work"
                                       \/ t = Net /\ up /\ l \in {"alloc", "delay"}
  BY DEF AdinRelease, Steps
<1>4. /\ pc' \in [Threads -> Steps]
      /\ \A u \in Threads : pc'[u] = IF u = t THEN l ELSE pc[u]
  BY <1>3 DEF Goto
<1>5. LockTypeOK'
  BY <1>1, <1>4
<1>6. Roles'
  BY <1>1, <1>3, <1>4 DEF Roles, LockedSteps, CoreSteps, FreeSteps, PollSteps
<1>7. AdinHeld' /\ SpiHeld' /\ DataStable'
  BY <1>1, <1>2, <1>3, <1>4 DEF AdinHeld, SpiHeld, DataStable, AdinSteps, WriteOps, ReadOps
<1>8. CoreHeld'
  BY <1>1, <1>3, <1>4 DEF CoreHeld, LockedSteps, CoreSteps, FreeSteps, WriteOps
<1>9. FsizeMine'
  <2>1. \A u \in Threads : u # t => pc[u] # "frame"
    BY <1>2 DEF AdinHeld, AdinSteps, WriteOps
  <2> QED
    BY <1>1, <1>3, <1>4, <2>1 DEF FsizeMine
<1> QED
  BY <1>5, <1>6, <1>7, <1>8, <1>9

\* LockCore(t): the core lock is free, so no thread but network_task executes lwIP.
LEMMA LockCoreLock == ASSUME LockInv, NEW t \in Threads, LockCore(t) PROVE LockInv'
<1> USE ThreadsDiffer DEF LockInv, LockTypeOK
<1>1. /\ pc[t] = "relock" /\ core = None /\ core' = t /\ ntx' \in [Threads -> 0..MaxTx]
      /\ UNCHANGED <<adin, spi, data, fsize, spoilt, errs, up>>
  BY DEF LockCore, CanTake, device
<1>2. t # Net
  BY <1>1 DEF Roles, LockedSteps, CoreSteps, FreeSteps, PollSteps, WriteOps, ReadOps
<1>3. /\ pc' \in [Threads -> Steps]
      /\ \A u \in Threads : pc'[u] = IF u = t THEN "work" ELSE pc[u]
  BY DEF LockCore, Goto, Steps
<1>4. LockTypeOK'
  BY <1>1, <1>3
<1>5. Roles'
  BY <1>1, <1>2, <1>3 DEF Roles, LockedSteps, CoreSteps, FreeSteps
<1>6. AdinHeld' /\ SpiHeld' /\ DataStable'
  BY <1>1, <1>3 DEF AdinHeld, SpiHeld, DataStable, AdinSteps, WriteOps, ReadOps
<1>7. CoreHeld' /\ FsizeMine'
  BY <1>1, <1>2, <1>3 DEF CoreHeld, FsizeMine, LockedSteps, CoreSteps, FreeSteps, WriteOps
<1> QED
  BY <1>4, <1>5, <1>6, <1>7

\* FetchBegin and Return(t): the core lock is given back by the thread that leaves
\* lwIP for the place l.
LEMMA UnlockCoreLock ==
    ASSUME LockInv, NEW t \in Threads \ {Net}, NEW l \in {"fetch", "user"}, Goto(t, l),
           pc[t] \in {"idle", "work"}, l = "fetch" <=> t = Tcpip, core' = None,
           UNCHANGED <<ntx, adin, device, up>>
    PROVE  LockInv'
<1> USE ThreadsDiffer DEF LockInv, LockTypeOK
<1>1. /\ pc' \in [Threads -> Steps]
      /\ \A u \in Threads : pc'[u] = IF u = t THEN l ELSE pc[u]
  BY DEF Goto, Steps
<1>2. core = t
  BY DEF CoreHeld, LockedSteps, CoreSteps, FreeSteps
<1>3. LockTypeOK'
  BY <1>1 DEF device
<1>4. Roles'
  BY <1>1 DEF Roles
<1>5. AdinHeld' /\ SpiHeld' /\ DataStable'
  BY <1>1 DEF AdinHeld, SpiHeld, DataStable, AdinSteps, WriteOps, ReadOps, device
<1>6. CoreHeld' /\ FsizeMine'
  BY <1>1, <1>2 DEF CoreHeld, FsizeMine, LockedSteps, CoreSteps, FreeSteps, WriteOps, device
<1> QED
  BY <1>3, <1>4, <1>5, <1>6

\* The steps of network_task between two uses of the ADIN1110.
LEMMA NetStepLock == ASSUME LockInv, NetStep PROVE LockInv'
<1> USE ThreadsDiffer
<1>1. LockTypeOK /\ Roles
  BY DEF LockInv
<1>2. ASSUME NEW l \in PollSteps \ ReadOps, Goto(Net, l), up' = TRUE,
             (~up /\ pc[Net] = "work") \/ (up /\ pc[Net] \in PollSteps \ ReadOps),
             UNCHANGED <<ntx, locks, spi, data, fsize, spoilt, errs>>
      PROVE  LockInv'
  <2>1. l \in Steps /\ l \notin AdinSteps /\ pc[Net] \notin AdinSteps
    BY <1>2 DEF PollSteps, FreeSteps, Steps, AdinSteps, WriteOps, ReadOps
  <2>2. Roles'
    BY <1>1, <1>2 DEF Roles, LockTypeOK, Goto
  <2>3. ntx' \in [Threads -> 0..MaxTx] /\ up' \in BOOLEAN
    BY <1>1, <1>2 DEF LockTypeOK
  <2> QED
    BY <1>2, <2>1, <2>2, <2>3, InsideStep
<1>3. up \/ pc[Net] = "work"
  BY <1>1 DEF NetStep, InitDone, NextPoll, PbufAlloc, InpktHead, InpktTake, InpktPost,
              Give, InpktLink, InpktGive,
              Roles, LockedSteps, CoreSteps, FreeSteps, WriteOps
<1>4. CASE InitDone
  <2>1. up' = TRUE /\ ~up /\ pc[Net] = "work" /\ Goto(Net, "poll")
        /\ UNCHANGED <<ntx, locks, spi, data, fsize, spoilt, errs>>
    BY <1>4 DEF InitDone, device
  <2>2. "poll" \in PollSteps \ ReadOps
    BY DEF PollSteps, ReadOps
  <2> QED
    BY <1>2, <2>1, <2>2
<1>5. CASE NextPoll
  BY <1>2, <1>3, <1>5 DEF NextPoll, PollSteps, ReadOps, device
<1>6. CASE PbufAlloc
  BY <1>2, <1>3, <1>6 DEF PbufAlloc, PollSteps, ReadOps, device
<1>7. CASE InpktHead
  BY <1>2, <1>3, <1>7 DEF InpktHead, PollSteps, ReadOps, device
<1>8. CASE InpktTake
  BY <1>2, <1>3, <1>8 DEF InpktTake, PollSteps, ReadOps, device
<1>9. CASE InpktPost
  BY <1>2, <1>3, <1>9 DEF InpktPost, PollSteps, FreeSteps, ReadOps, device
<1>10. CASE InpktLink(Net)
  BY <1>2, <1>3, <1>10 DEF InpktLink, PollSteps, FreeSteps, ReadOps, device
<1>11. CASE InpktGive(Net)
  BY <1>2, <1>3, <1>11 DEF InpktGive, PollSteps, FreeSteps, ReadOps, device
<1> QED
  BY <1>4, <1>5, <1>6, <1>7, <1>8, <1>9, <1>10, <1>11 DEF NetStep, Give

\* The steps of tcpip_thread, and those of a task between its calls.
LEMMA ThreadStepLock ==
    ASSUME LockInv, NEW t \in Threads,
           Output(t) \/ (t = Tcpip /\ TcpipStep) \/ (t \in Tasks /\ (Call(t) \/ Return(t)))
    PROVE  LockInv'
<1> USE ThreadsDiffer
<1>1. LockTypeOK /\ Roles
  BY DEF LockInv
<1>2. ASSUME NEW l \in {"work", "out", "idle", "relock", "link", "give"}, Goto(t, l), UNCHANGED up,
             ntx' \in [Threads -> 0..MaxTx], UNCHANGED <<locks, spi, data, fsize, spoilt, errs>>,
             \/ /\ l \in {"work", "idle", "link", "give"} /\ t = Tcpip
                /\ pc[t] \in {"work", "idle", "link", "give"}
             \/ l = "out" /\ pc[t] = "work"
             \/ l = "relock" /\ \/ t \in Tasks /\ pc[t] = "user"
                                \/ t = Tcpip /\ pc[t] = "fetch"
      PROVE  LockInv'
  <2>1. l \in Steps /\ l \notin AdinSteps /\ pc[t] \notin AdinSteps
    BY <1>2 DEF Steps, AdinSteps, WriteOps, ReadOps
  <2>2. pc[t] \in LockedSteps <=> l \in LockedSteps
    BY <1>2 DEF LockedSteps, CoreSteps, FreeSteps, WriteOps
  <2>3. \A u \in Threads : pc'[u] = IF u = t THEN l ELSE pc[u]
    BY <1>1, <1>2 DEF Goto, LockTypeOK
  <2>4. Roles'
    BY <1>1, <1>2, <2>3 DEF Roles, LockedSteps, CoreSteps, FreeSteps, PollSteps, ReadOps, WriteOps
  <2> QED
    BY <1>1, <1>2, <2>1, <2>2, <2>4, InsideStep DEF LockTypeOK
<1>3. CASE Output(t)
  <2>1. ntx' \in [Threads -> 0..MaxTx]
    <3>1. ntx[t] \in 0..MaxTx /\ MaxTx \in Nat /\ ntx \in [Threads -> 0..MaxTx]
      BY <1>1, ConstantsOK DEF LockTypeOK
    <3>2. ntx[t] > 0 /\ ntx' = [ntx EXCEPT ![t] = ntx[t] - 1]
      BY <1>3 DEF Output
    <3>3. ntx[t] - 1 \in 0..MaxTx
      BY <3>1, <3>2
    <3> QED
      BY <3>1, <3>2, <3>3
  <2> QED
    BY <1>2, <1>3, <2>1 DEF Output, device
<1>4. CASE t = Tcpip /\ Timeouts
  <2>1. ntx' \in [Threads -> 0..MaxTx]
    BY <1>1, <1>4 DEF Timeouts, LockTypeOK
  <2> QED
    BY <1>2, <1>4, <2>1 DEF Timeouts, device
<1>5. CASE t = Tcpip /\ FetchBegin
  BY <1>5, UnlockCoreLock DEF FetchBegin
<1>6. CASE t = Tcpip /\ Fetch
  BY <1>1, <1>2, <1>6 DEF Fetch, device, LockTypeOK
<1>7. CASE t = Tcpip /\ HandleDone
  BY <1>1, <1>2, <1>7 DEF HandleDone, device, LockTypeOK
<1>8. CASE t = Tcpip /\ Give(Tcpip)
  BY <1>1, <1>2, <1>8 DEF Give, InpktLink, InpktGive, device, LockTypeOK
<1>9. CASE t \in Tasks /\ Call(t)
  BY <1>1, <1>2, <1>9 DEF Call, device, LockTypeOK
<1>10. CASE t \in Tasks /\ Return(t)
  BY <1>10, UnlockCoreLock DEF Return
<1> QED
  BY <1>3, <1>4, <1>5, <1>6, <1>7, <1>8, <1>9, <1>10 DEF TcpipStep

\* Every step of every thread and of the device keeps the locks in order.
LEMMA NextLock == LockInv /\ [Next]_vars => LockInv'
<1> SUFFICES ASSUME LockInv, [Next]_vars PROVE LockInv'
  OBVIOUS
<1>1. ASSUME UNCHANGED <<pc, ntx, adin, core, spi, data, fsize, spoilt, errs, up>> PROVE LockInv'
  BY <1>1 DEF LockInv, LockTypeOK, Roles, AdinHeld, SpiHeld, CoreHeld, DataStable, FsizeMine
<1>2. CASE Arrive
  BY <1>1, <1>2 DEF Arrive, locks
<1>3. CASE NetStep
  BY <1>3, NetStepLock
<1>4. CASE TcpipStep
  BY <1>4, ThreadStepLock, ThreadsDiffer
<1>5. ASSUME NEW t \in Threads, Driver(t) \/ AdinWait(t) \/ LockCore(t) PROVE LockInv'
  BY <1>5, SpiStartLock, SpiEndLock, AdinReleaseLock, ThreadStepLock, AdinWaitLock, LockCoreLock
     DEF Driver
<1>6. ASSUME NEW t \in Tasks, Call(t) \/ Return(t) PROVE LockInv'
  BY <1>6, ThreadStepLock, ThreadsDiffer
<1>7. ASSUME NEW t \in Tasks, Free(t) PROVE LockInv'
  BY <1>1, <1>7 DEF Free, locks, device
<1>8. CASE UNCHANGED vars
  BY <1>1, <1>8 DEF vars, locks, device
<1> QED
  BY <1>2, <1>3, <1>4, <1>5, <1>6, <1>7, <1>8 DEF Next

\* The locks are held where the code needs them.
THEOREM LocksHeld == Spec => []LockInv
BY InitLock, NextLock, PTL DEF Spec

\* The SPI buffer has one user at a time, TX_FSIZE is the frame's own unless the DMA
\* has aborted that very write, and of the threads other than network_task, which
\* takes no lock during network_init, one at a time is in lwIP's core, however many
\* tasks call sockets and whichever transfers fail (network.c:127, 147;
\* adin1110.c:528-551; stm32_spi.c:402-405; tcpip.c:112-114).
THEOREM LocksExclude == Spec => []Exclusive
<1>1. LockInv => Exclusive
  BY ThreadsDiffer DEF LockInv, Exclusive, CoreShared, InCore, CoreHeld, LockedSteps, CoreSteps,
                       FreeSteps
<1> QED
  BY <1>1, LocksHeld, PTL
-----------------------------------------------------------------------------
(* Packets.                                                                 *)

\* A message is none of those tcpip_thread has when it has fetched nothing.
LEMMA MsgFacts ==
    /\ NoMsg \notin Msgs /\ NoMsg.p = None /\ NoMsg.f = 0
    /\ \A m \in Msgs : m.p \in Pbufs /\ m.p # None /\ m.f \in 1..Junk /\ m.f > 0
BY ConstantsOK DEF NoMsg, Msgs, Junk

\* Nothing has been received when network_init adds the interface.
LEMMA InitPacket == Init => PacketInv
<1> SUFFICES ASSUME Init PROVE PacketInv
  OBVIOUS
<1>1. pc[Net] = "work"
  BY ThreadsDiffer DEF Init
<1>2. mbox \in Seq(Msgs) /\ Len(mbox) = 0 /\ rx \in Seq(1..MaxFrames) /\ Len(rx) = 0
  BY DEF Init
<1>3. arrived \in 0..MaxFrames /\ frame \in 0..Junk
  BY ConstantsOK DEF Init, Junk
<1>4. PacketTypeOK
  BY <1>2, <1>3, ConstantsOK DEF Init, PacketTypeOK
<1>5. Carries
  BY <1>1 DEF Init, Carries
<1> QED
  BY <1>4, <1>5 DEF PacketInv

\* A step of thread t that moves no frame, pbuf or message.
LEMMA MoveStep ==
    ASSUME LockInv, PacketInv, NEW t \in Threads, NEW l \in Steps, Goto(t, l),
           UNCHANGED <<used, held, leaked, netp, mbox, inp, frame, rx, arrived>>, up => up',
           t = Net => /\ pc[Net] \in {"input", "take", "post"} <=> l \in {"input", "take", "post"}
                      /\ frame # 0 => l \in {"release", "alloc", "take", "post"}
                      /\ l \in {"alloc", "input", "take", "post"} => frame # 0,
           t = Tcpip /\ inp # NoMsg => l \in CoreSteps \cup {"relock"}
    PROVE  PacketInv'
<1> USE ThreadsDiffer
<1>1. \A u \in Threads : pc'[u] = IF u = t THEN l ELSE pc[u]
  BY DEF LockInv, LockTypeOK, Goto
<1>2. PacketTypeOK'
  BY DEF PacketInv, PacketTypeOK
<1>3. Carries'
  BY <1>1 DEF PacketInv, Carries
<1> QED
  BY <1>2, <1>3 DEF PacketInv

\* The driver and the locks: a frame moves only when rframe ends, out of the FIFO or,
\* when there is none or the transfer is aborted, out of old bytes (adin1110.c:590-618).
LEMMA DriverPacket ==
    ASSUME LockInv, PacketInv, NEW t \in Threads,
           Driver(t) \/ AdinWait(t) \/ LockCore(t)
    PROVE  PacketInv'
<1> USE ThreadsDiffer
<1>1. PacketTypeOK /\ Carries /\ Roles
  BY DEF PacketInv, LockInv
<1>2. CASE SpiStart(t)
  <2>1. CASE UNCHANGED pc
    BY <1>1, <1>2, <2>1 DEF SpiStart, packets, PacketInv, PacketTypeOK, Carries
  <2>2. CASE Goto(t, "release")
    <3>1. "release" \in Steps /\ "release" \in CoreSteps /\ pc[t] \notin {"input", "take", "post"}
      BY <1>2 DEF SpiStart, Steps, CoreSteps, WriteOps, ReadOps
    <3>2. UNCHANGED <<packets, rx, arrived, up>>
      BY <1>2 DEF SpiStart
    <3> QED
      BY <2>2, <3>1, <3>2, MoveStep DEF packets
  <2> QED
    BY <1>2, <2>1, <2>2 DEF SpiStart
<1>3. ASSUME SpiEnd(t) \/ SpiAbort(t) PROVE PacketInv'
  <2>1. /\ pc[t] \in WriteOps \cup ReadOps
        /\ UNCHANGED <<used, held, leaked, netp, mbox, inp, arrived, up>>
    BY <1>3 DEF SpiEnd, SpiAbort, Others, LockInv, SpiHeld
  <2>2. CASE pc[t] # "rframe"
    <3>1. UNCHANGED <<frame, rx>>
      BY <1>3, <2>2 DEF SpiEnd, SpiAbort
    <3>2. PICK l \in {"fsize", "release", "frame", "rframe"} : Goto(t, l)
      BY <1>3, <2>2 DEF SpiEnd, SpiAbort, AfterSpace
    <3>3. /\ l \in Steps /\ pc[t] \notin {"input", "take", "post"}
          /\ l \notin {"input", "take", "post", "alloc"}
      BY <2>1, <3>2 DEF Steps, WriteOps, ReadOps
    <3>4. t = Net => frame = 0
      BY <1>1, <2>1 DEF Carries, WriteOps, ReadOps
    <3>5. t = Tcpip /\ inp # NoMsg => l \in CoreSteps
      <4>1. t = Tcpip => pc[t] \in WriteOps
        BY <1>1, <2>1 DEF Roles, LockedSteps, FreeSteps, CoreSteps, WriteOps, ReadOps
      <4>2. pc[t] \in WriteOps => l # "rframe"
        <5>1. pc[t] \in WriteOps => Goto(t, "fsize") \/ Goto(t, "frame") \/ Goto(t, "release")
          BY <1>3 DEF SpiEnd, SpiAbort, AfterSpace, WriteOps
        <5>2. pc'[t] = l /\ \A k : Goto(t, k) => pc'[t] = k
          BY <3>2 DEF Goto, LockInv, LockTypeOK
        <5> QED
          BY <5>1, <5>2
      <4> QED
        BY <3>2, <4>1, <4>2 DEF CoreSteps, WriteOps
    <3> QED
      BY <2>1, <3>1, <3>2, <3>3, <3>4, <3>5, MoveStep
  <2>3. CASE pc[t] = "rframe"
    <3>1. t = Net /\ up
      BY <1>1, <2>3 DEF Roles, LockedSteps, FreeSteps, CoreSteps, PollSteps, WriteOps, ReadOps
    <3>2. /\ Goto(Net, "release")
          /\ \/ rx # <<>> /\ frame' = Head(rx) /\ rx' = Tail(rx)
             \/ frame' = Junk /\ rx' = rx
      BY <1>3, <2>3, <3>1 DEF SpiEnd, SpiAbort
    <3>3. pc'[Net] = "release" /\ pc'[Tcpip] = pc[Tcpip]
      BY <3>2 DEF LockInv, LockTypeOK, Goto
    <3>4. rx' \in Seq(1..MaxFrames) /\ Len(rx') <= FifoLen /\ frame' \in 0..Junk
      <4>1. CASE rx # <<>> /\ frame' = Head(rx) /\ rx' = Tail(rx)
        <5>1. /\ Head(rx) \in 1..MaxFrames /\ Tail(rx) \in Seq(1..MaxFrames)
              /\ Len(Tail(rx)) <= FifoLen
          <6>1. rx \in Seq(1..MaxFrames) /\ Len(rx) <= FifoLen /\ FifoLen \in Nat
            BY <1>1, ConstantsOK DEF PacketTypeOK
          <6> DEFINE F == 1..MaxFrames
          <6>2. rx \in Seq(F) /\ rx # <<>>
            BY <4>1, <6>1
          <6> HIDE DEF F
          <6>3. Head(rx) \in F /\ Tail(rx) \in Seq(F) /\ Len(Tail(rx)) = Len(rx) - 1
            BY ONLY <6>2, HeadTailProperties
          <6>4. Len(rx) \in Nat
            BY ONLY <6>2
          <6> QED
            BY <6>1, <6>3, <6>4 DEF F
        <5> QED
          BY <4>1, <5>1, ConstantsOK DEF Junk
      <4>2. CASE frame' = Junk /\ rx' = rx
        BY <1>1, <4>2, ConstantsOK DEF Junk, PacketTypeOK
      <4> QED
        BY <3>2, <4>1, <4>2
    <3>5. PacketTypeOK'
      BY <1>1, <2>1, <3>4 DEF PacketTypeOK
    <3>6. Carries'
      BY <1>1, <2>1, <2>3, <3>1, <3>3 DEF Carries
    <3> QED
      BY <3>5, <3>6 DEF PacketInv
  <2> QED
    BY <2>2, <2>3
<1>5. CASE AdinRelease(t)
  <2>1. UNCHANGED <<packets, rx, arrived, up>> /\ pc[t] = "release"
    BY <1>5 DEF AdinRelease
  <2>2. t = Net => /\ frame # 0 => Goto(t, "alloc")
                   /\ frame = 0 => \E l \in {"delay", "work"} : Goto(t, l)
    BY <1>1, <1>5 DEF AdinRelease, Carries
  <2>3. t # Net => Goto(t, "work")
    BY <1>5 DEF AdinRelease
  <2>4. {"alloc", "delay", "work"} \subseteq Steps /\ "work" \in CoreSteps
    BY DEF Steps, CoreSteps
  <2> QED
    BY <2>1, <2>2, <2>3, <2>4, MoveStep DEF packets
<1>6. CASE Output(t)
  <2>1. /\ Goto(t, "out") /\ pc[t] = "work" /\ UNCHANGED <<packets, rx, arrived, up>>
        /\ "out" \in Steps /\ "out" \in CoreSteps
    BY <1>6 DEF Output, device, Steps, CoreSteps
  <2>2. t = Net => frame = 0
    BY <1>1, <2>1 DEF Carries
  <2> QED
    BY <2>1, <2>2, MoveStep DEF packets
<1>7. CASE AdinWait(t)
  <2>1. UNCHANGED <<packets, rx, arrived, up>> /\ pc[t] \in {"out", "poll"}
    BY <1>7 DEF AdinWait, device
  <2>2. PICK l \in {"space", "rsize"} : Goto(t, l) /\ (pc[t] = "out" => l = "space")
    BY <1>7 DEF AdinWait
  <2>3. l \in Steps /\ (l = "space" => l \in CoreSteps)
    BY <2>2 DEF Steps, CoreSteps, WriteOps, ReadOps
  <2>4. t = Net => frame = 0
    BY <1>1, <2>1 DEF Carries
  <2>5. t = Tcpip => pc[t] = "out"
    BY <1>1, <2>1 DEF Roles, LockedSteps, FreeSteps, CoreSteps, WriteOps
  <2> QED
    BY <2>1, <2>2, <2>3, <2>4, <2>5, MoveStep DEF packets
<1>8. CASE LockCore(t)
  <2>1. /\ Goto(t, "work") /\ pc[t] = "relock" /\ UNCHANGED <<packets, rx, arrived, up>>
        /\ "work" \in Steps /\ "work" \in CoreSteps
    BY <1>8 DEF LockCore, device, Steps, CoreSteps
  <2>2. t = Net => frame = 0
    BY <1>1, <2>1 DEF Carries
  <2> QED
    BY <2>1, <2>2, MoveStep DEF packets
<1> QED
  BY <1>2, <1>3, <1>5, <1>6, <1>7, <1>8 DEF Driver

\* network_task: a frame becomes a pbuf, the pbuf a message, and an error on the way
\* gives the message back (network.c:155-178, tcpip.c:251-285).
LEMMA NetStepPacket == ASSUME LockInv, PacketInv, NetStep PROVE PacketInv'
<1> USE ThreadsDiffer
<1>1. PacketTypeOK /\ Carries /\ Roles
  BY DEF PacketInv, LockInv
<1>2. \A l : Goto(Net, l) => pc'[Net] = l /\ pc'[Tcpip] = pc[Tcpip]
  BY DEF LockInv, LockTypeOK, Goto
<1>3. CASE InitDone \/ NextPoll
  <2>1. /\ Goto(Net, "poll") /\ pc[Net] \in {"work", "delay"}
        /\ UNCHANGED <<packets, rx, arrived>> /\ "poll" \in Steps
    BY <1>3 DEF InitDone, NextPoll, device, Steps
  <2>2. up => up'
    BY <1>3 DEF InitDone, NextPoll
  <2>3. frame = 0
    BY <1>1, <2>1 DEF Carries
  <2> QED
    BY <2>1, <2>2, <2>3, MoveStep DEF packets
<1>4. CASE PbufAlloc
  <2>1. /\ UNCHANGED <<rx, arrived, leaked, mbox, inp, held, up>> /\ pc[Net] = "alloc"
    BY <1>4 DEF PbufAlloc, device
  <2>2. CASE \E p \in Pbufs \ used : /\ used' = used \cup {p} /\ netp' = p
                                     /\ Goto(Net, "input") /\ UNCHANGED frame
    <3>1. PacketTypeOK' /\ netp' # None
      BY <1>1, <2>1, <2>2, ConstantsOK DEF PacketTypeOK
    <3>2. pc'[Net] = "input" /\ pc'[Tcpip] = pc[Tcpip]
      BY <1>2, <2>2
    <3>3. Carries'
      BY <1>1, <2>1, <2>2, <3>1, <3>2 DEF Carries
    <3> QED
      BY <3>1, <3>3 DEF PacketInv
  <2>3. CASE frame' = 0 /\ Goto(Net, "delay") /\ UNCHANGED <<used, netp>>
    <3>1. PacketTypeOK'
      BY <1>1, <2>1, <2>3, ConstantsOK DEF PacketTypeOK, Junk
    <3>2. pc'[Net] = "delay" /\ pc'[Tcpip] = pc[Tcpip]
      BY <1>2, <2>3
    <3>3. Carries'
      BY <1>1, <2>1, <2>3, <3>2 DEF Carries
    <3> QED
      BY <3>1, <3>3 DEF PacketInv
  <2> QED
    BY <1>4, <2>2, <2>3 DEF PbufAlloc
<1>5. ASSUME NEW l \in {"delay", "link"}, Goto(Net, l), Taken \/ Refused,
             pc[Net] \in {"input", "post"}, UNCHANGED <<rx, arrived, used, inp, held, up>>,
             mbox' \in Seq(Msgs), Len(mbox') <= MboxSize
      PROVE  PacketInv'
  <2>1. pc'[Net] = l /\ pc'[Tcpip] = pc[Tcpip]
    BY <1>2, <1>5
  <2>2. netp' = None /\ frame' = 0 /\ leaked' \in {leaked, leaked \cup {netp}} /\ netp # None
    BY <1>1, <1>5 DEF Taken, Refused, PollReturn, Carries
  <2>3. frame' \in 0..Junk /\ leaked' \subseteq Pbufs
    BY <1>1, <2>2, ConstantsOK DEF PacketTypeOK, Junk
  <2>4. PacketTypeOK'
    BY <1>1, <1>5, <2>2, <2>3 DEF PacketTypeOK
  <2>5. Carries'
    BY <1>1, <1>5, <2>1, <2>2 DEF Carries
  <2> QED
    BY <2>4, <2>5 DEF PacketInv
<1>6. CASE InpktHead
  <2>1. pc[Net] = "input" /\ UNCHANGED <<rx, arrived, used, inp, held, mbox, up>>
    BY <1>6 DEF InpktHead, device
  <2>2. CASE Goto(Net, "take") /\ UNCHANGED <<netp, frame, leaked>>
    <3>1. frame # 0 /\ "take" \in Steps
      BY <1>1, <2>1 DEF Carries, Steps
    <3> QED
      BY <2>1, <2>2, <3>1, MoveStep
  <2>3. CASE Refused /\ Goto(Net, "delay")
    <3>1. mbox' \in Seq(Msgs) /\ Len(mbox') <= MboxSize
      BY <1>1, <2>1 DEF PacketTypeOK
    <3> QED
      BY <1>5, <2>1, <2>3, <3>1
  <2> QED
    BY <1>6, <2>2, <2>3 DEF InpktHead
<1>7. CASE InpktTake
  <2>1. /\ pc[Net] = "take" /\ Goto(Net, "post") /\ "post" \in Steps
        /\ UNCHANGED <<used, held, leaked, netp, mbox, inp, frame, rx, arrived, up>>
    BY <1>7 DEF InpktTake, device, Steps
  <2>2. frame # 0
    BY <1>1, <2>1 DEF Carries
  <2> QED
    BY <2>1, <2>2, MoveStep
<1>8. CASE InpktPost
  <2>1. pc[Net] = "post" /\ UNCHANGED <<rx, arrived, used, inp, held, up>>
    BY <1>8 DEF InpktPost, device
  <2>2. [p |-> netp, f |-> frame] \in Msgs
    BY <1>1, <2>1 DEF Carries, PacketTypeOK, Msgs
  <2>3. CASE /\ Len(mbox) < MboxSize /\ mbox' = Append(mbox, [p |-> netp, f |-> frame])
             /\ Taken /\ Goto(Net, "delay")
    <3>1. mbox' \in Seq(Msgs) /\ Len(mbox') = Len(mbox) + 1
      BY <1>1, <2>2, <2>3 DEF PacketTypeOK
    <3>2. Len(mbox) \in Nat /\ Len(mbox') <= MboxSize
      BY <1>1, <2>3, <3>1, ConstantsOK DEF PacketTypeOK
    <3> QED
      BY <1>5, <2>1, <2>3, <3>1, <3>2
  <2>4. CASE Refused /\ Goto(Net, "link") /\ UNCHANGED mbox
    <3>1. mbox' \in Seq(Msgs) /\ Len(mbox') <= MboxSize
      BY <1>1, <2>4 DEF PacketTypeOK
    <3> QED
      BY <1>5, <2>1, <2>4, <3>1
  <2> QED
    BY <1>8, <2>3, <2>4 DEF InpktPost, PostTo
<1>9. CASE Give(Net)
  <2>1. PICK l \in {"give", "delay"} :
            /\ Goto(Net, l) /\ pc[Net] \in {"link", "give"} /\ l \in Steps
            /\ UNCHANGED <<used, held, leaked, netp, mbox, inp, frame, rx, arrived, up>>
    BY <1>9 DEF Give, InpktLink, InpktGive, device, Steps
  <2>2. frame = 0
    BY <1>1, <2>1 DEF Carries
  <2> QED
    BY <2>1, <2>2, MoveStep
<1> QED
  BY <1>3, <1>4, <1>6, <1>7, <1>8, <1>9 DEF NetStep

\* tcpip_thread: a fetched message is in its hands until tcpip_thread_handle_msg has
\* freed it (tcpip.c:132-168, 180-219).
LEMMA TcpipStepPacket == ASSUME LockInv, PacketInv, TcpipStep PROVE PacketInv'
<1> USE ThreadsDiffer
<1>1. PacketTypeOK /\ Carries
  BY DEF PacketInv
<1>2. \A l : Goto(Tcpip, l) => pc'[Tcpip] = l /\ pc'[Net] = pc[Net]
  BY DEF LockInv, LockTypeOK, Goto
<1>3. CASE Timeouts \/ FetchBegin \/ Give(Tcpip)
  <2>1. PICK l \in {"work", "fetch", "give", "idle"} :
          /\ Goto(Tcpip, l) /\ pc[Tcpip] \in {"idle", "link", "give"} /\ l \in Steps
          /\ UNCHANGED <<used, held, leaked, netp, mbox, inp, frame, rx, arrived, up>>
    BY <1>3 DEF Timeouts, FetchBegin, Give, InpktLink, InpktGive, packets, device, Steps
  <2>2. inp = NoMsg
    BY <1>1, <2>1 DEF Carries, CoreSteps, WriteOps
  <2> QED
    BY <2>1, <2>2, MoveStep
<1>4. CASE Fetch
  <2>1. /\ pc[Tcpip] = "fetch" /\ pc'[Tcpip] = "relock" /\ pc'[Net] = pc[Net]
        /\ UNCHANGED <<rx, arrived, frame, used, netp, leaked, held, up>>
    BY <1>2, <1>4 DEF Fetch, device
  <2>2. Carries'
    BY <1>1, <2>1 DEF Carries
  <2>3. inp' \in Msgs \cup {NoMsg} /\ mbox' \in Seq(Msgs) /\ Len(mbox') <= MboxSize
    <3>1. CASE mbox # <<>> /\ inp' = Head(mbox) /\ mbox' = Tail(mbox)
      <4>1. /\ inp' \in Msgs /\ mbox' \in Seq(Msgs)
            /\ Len(mbox) \in Nat /\ Len(mbox') = Len(mbox) - 1
        BY <1>1, <3>1 DEF PacketTypeOK
      <4> QED
        BY <1>1, <4>1, ConstantsOK DEF PacketTypeOK
    <3>2. CASE UNCHANGED <<inp, mbox>>
      BY <1>1, <3>2 DEF PacketTypeOK
    <3> QED
      BY <1>4, <3>1, <3>2 DEF Fetch
  <2> QED
    BY <1>1, <2>1, <2>2, <2>3 DEF PacketInv, PacketTypeOK
<1>5. CASE HandleDone
  <2>1. /\ pc[Tcpip] = "work" /\ pc'[Tcpip] \in {"idle", "link"} /\ pc'[Net] = pc[Net]
        /\ UNCHANGED <<rx, arrived, frame, netp, leaked, mbox, up>> /\ inp' = NoMsg
    BY <1>2, <1>5 DEF HandleDone, device
  <2>2. used' \subseteq Pbufs /\ held' \subseteq Pbufs
    <3>1. CASE inp # NoMsg /\ Dispose(inp.p)
      <4>1. inp.p \in Pbufs
        BY <1>1, <3>1, MsgFacts DEF PacketTypeOK
      <4> QED
        BY <1>1, <3>1, <4>1 DEF Dispose, PacketTypeOK
    <3>2. CASE UNCHANGED <<used, held>>
      BY <1>1, <3>2 DEF PacketTypeOK
    <3> QED
      BY <1>5, <3>1, <3>2 DEF HandleDone
  <2>3. PacketTypeOK'
    BY <1>1, <2>1, <2>2 DEF PacketTypeOK
  <2>4. Carries'
    BY <1>1, <2>1 DEF Carries
  <2> QED
    BY <2>3, <2>4 DEF PacketInv
<1> QED
  BY <1>3, <1>4, <1>5 DEF TcpipStep

\* Every step keeps pbufs and messages where their holder expects them.
LEMMA NextPacket == LockInv /\ PacketInv /\ [Next]_vars => PacketInv'
<1> SUFFICES ASSUME LockInv, PacketInv, [Next]_vars PROVE PacketInv'
  OBVIOUS
<1>1. CASE Arrive
  <2>1. PacketTypeOK /\ rx \in Seq(1..MaxFrames) /\ Len(rx) \in Nat
    BY DEF PacketInv, PacketTypeOK
  <2>2. arrived' \in 1..MaxFrames /\ arrived' \in 0..MaxFrames
    BY <1>1, <2>1, ConstantsOK DEF Arrive, PacketTypeOK
  <2>3. rx' \in Seq(1..MaxFrames) /\ Len(rx') <= FifoLen
    <3>1. CASE Len(rx) < FifoLen
      <4>1. rx' = Append(rx, arrived')
        BY <1>1, <3>1 DEF Arrive
      <4>2. rx' \in Seq(1..MaxFrames) /\ Len(rx') = Len(rx) + 1
        BY <2>1, <2>2, <4>1
      <4> QED
        BY <2>1, <3>1, <4>2, ConstantsOK
    <3>2. CASE ~(Len(rx) < FifoLen)
      BY <1>1, <2>1, <3>2 DEF Arrive, PacketTypeOK
    <3> QED
      BY <3>1, <3>2
  <2> QED
    BY <1>1, <2>1, <2>2, <2>3
       DEF Arrive, packets, PacketInv, PacketTypeOK, Carries
<1>2. CASE NetStep
  BY <1>2, NetStepPacket
<1>3. CASE TcpipStep
  BY <1>3, TcpipStepPacket
<1>4. ASSUME NEW t \in Threads, Driver(t) \/ AdinWait(t) \/ LockCore(t) PROVE PacketInv'
  BY <1>4, DriverPacket
<1>5. ASSUME NEW t \in Tasks, Call(t) \/ Return(t) PROVE PacketInv'
  <2>1. PICK l \in {"relock", "user"} : Goto(t, l)
    BY <1>5 DEF Call, Return
  <2>2. l \in Steps /\ UNCHANGED <<packets, rx, arrived, up>>
    BY <1>5, <2>1 DEF Call, Return, device, Steps
  <2> QED
    BY <1>5, <2>1, <2>2, MoveStep, ThreadsDiffer DEF packets
<1>6. ASSUME NEW t \in Tasks, Free(t) PROVE PacketInv'
  BY <1>6 DEF Free, device, PacketInv, PacketTypeOK, Carries
<1>7. CASE UNCHANGED vars
  BY <1>7 DEF vars, device, packets, PacketInv, PacketTypeOK, Carries
<1> QED
  BY <1>1, <1>2, <1>3, <1>4, <1>5, <1>6, <1>7 DEF Next
-----------------------------------------------------------------------------
(* Messages.                                                                *)

\* A message of the pool that has not been lost is on the list or in use.
LEMMA InitPool == Init => PoolInv
<1> SUFFICES ASSUME Init PROVE PoolInv
  OBVIOUS
<1>1. /\ pc[Net] = "work" /\ pc[Tcpip] = "idle" /\ inpkt = InpktNum /\ lost = 0
      /\ twice = FALSE /\ seen = [t \in {Net, Tcpip} |-> 0] /\ mbox = <<>> /\ inp = NoMsg
  BY ThreadsDiffer DEF Init
<1>2. PoolTypeOK
  <2>1. InpktNum \in Nat
    BY ConstantsOK
  <2>2. inpkt \in 0..InpktNum /\ lost \in 0..InpktNum
    BY <1>1, <2>1
  <2>3. seen \in [{Net, Tcpip} -> 0..InpktNum]
    BY <1>1, <2>1
  <2> QED
    BY <1>1, <2>2, <2>3 DEF PoolTypeOK
<1>3. InpktAccounted
  <2>1. InpktNum \in Nat /\ Len(mbox) = 0
    BY <1>1, ConstantsOK
  <2> QED
    BY <1>1, <2>1 DEF InpktAccounted, InUse
<1>4. Heads
  BY <1>1 DEF Heads
<1> QED
  BY <1>2, <1>3, <1>4 DEF PoolInv

\* The places where a message or a read of the list's head is in somebody's hands.
MsgSteps == {"take", "post", "link", "give"}

\* A step of thread t that leaves pool, mailbox and message alone.
LEMMA AsidePool ==
    ASSUME LockInv, PoolInv, NEW t \in Threads, NEW l \in Steps \ MsgSteps, Goto(t, l),
           UNCHANGED <<pool, mbox, inp>>, t \in {Net, Tcpip} => pc[t] \notin MsgSteps
    PROVE  PoolInv'
<1>1. /\ pc'[Net] = pc[Net] \/ (pc'[Net] \notin MsgSteps /\ pc[Net] \notin MsgSteps)
      /\ pc'[Tcpip] = pc[Tcpip] \/ (pc'[Tcpip] \notin MsgSteps /\ pc[Tcpip] \notin MsgSteps)
  BY ThreadsDiffer DEF LockInv, LockTypeOK, Goto
<1>2. PoolTypeOK'
  BY DEF PoolInv, PoolTypeOK, pool
<1>3. InpktAccounted => InpktAccounted'
  BY <1>1 DEF InpktAccounted, InUse, pool, MsgSteps
<1>4. Heads => Heads'
  BY <1>1 DEF Heads, pool, MsgSteps
<1> QED
  BY <1>2, <1>3, <1>4 DEF PoolInv, pool

LEMMA InUseNat == InUse \in Nat /\ InUse' \in Nat
BY DEF InUse

\* The amounts of InpktAccounted, one by one.
LEMMA PoolNumbers ==
    ASSUME LockInv, PacketInv, PoolInv
    PROVE  /\ inpkt \in Nat /\ lost \in Nat /\ InpktNum \in Nat /\ Len(mbox) \in Nat
           /\ seen[Net] \in 0..InpktNum /\ seen[Tcpip] \in 0..InpktNum
           /\ \A l : Goto(Net, l) => pc'[Net] = l /\ pc'[Tcpip] = pc[Tcpip]
           /\ \A l : Goto(Tcpip, l) => pc'[Tcpip] = l /\ pc'[Net] = pc[Net]
<1>1. PoolTypeOK /\ PacketTypeOK /\ pc \in [Threads -> Steps]
  BY DEF PoolInv, PacketInv, LockInv, LockTypeOK
<1>2. inpkt \in Nat /\ lost \in Nat /\ InpktNum \in Nat /\ Len(mbox) \in Nat
  BY <1>1, ConstantsOK DEF PoolTypeOK, PacketTypeOK
<1>3. seen[Net] \in 0..InpktNum /\ seen[Tcpip] \in 0..InpktNum
  BY <1>1 DEF PoolTypeOK
<1>4. \A l : Goto(Net, l) => pc'[Net] = l /\ pc'[Tcpip] = pc[Tcpip]
  BY <1>1, ThreadsDiffer DEF Goto
<1>5. \A l : Goto(Tcpip, l) => pc'[Tcpip] = l /\ pc'[Net] = pc[Net]
  BY <1>1, ThreadsDiffer DEF Goto
<1> QED
  BY <1>2, <1>3, <1>4, <1>5

\* A thread reads the head: of memp_malloc's list, which is not empty, or of memp_free's.
LEMMA ReadPool ==
    ASSUME LockInv, PacketInv, PoolInv, NEW t \in {Net, Tcpip}, MempRead(t),
           UNCHANGED <<inpkt, lost, twice, mbox, inp>>,
           \/ pc[t] = "link" /\ Goto(t, "give")
           \/ t = Net /\ pc[t] = "input" /\ (twice \/ inpkt > 0) /\ Goto(t, "take")
    PROVE  PoolInv'
<1> USE PoolNumbers, ThreadsDiffer
<1>1. seen \in [{Net, Tcpip} -> 0..InpktNum] /\ seen' = [seen EXCEPT ![t] = inpkt]
      /\ inpkt \in 0..InpktNum
  BY DEF PoolInv, PoolTypeOK, MempRead
<1>2. seen'[t] = inpkt /\ \A u \in {Net, Tcpip} : u # t => seen'[u] = seen[u]
  BY <1>1
<1>3. PoolTypeOK'
  BY <1>1 DEF PoolInv, PoolTypeOK
<1>4. ASSUME ~twice PROVE InpktAccounted' /\ Heads'
  <2>1. InpktAccounted /\ Heads
    BY <1>4 DEF PoolInv
  <2>2. CASE t = Net
    <3>1. \/ pc[Net] = "link" /\ pc'[Net] = "give"
          \/ pc[Net] = "input" /\ inpkt > 0 /\ pc'[Net] = "take"
      BY <1>4, <2>2
    <3>2. pc'[Tcpip] = pc[Tcpip] /\ seen'[Net] = inpkt /\ seen'[Tcpip] = seen[Tcpip]
      BY <1>2, <2>2
    <3>3. InpktAccounted'
      BY <2>1, <3>1, <3>2 DEF InpktAccounted, InUse
    <3>4. Heads'
      BY <2>1, <3>1, <3>2 DEF Heads
    <3> QED
      BY <3>3, <3>4
  <2>3. CASE t = Tcpip
    <3>1. pc[Tcpip] = "link" /\ pc'[Tcpip] = "give" /\ pc'[Net] = pc[Net]
      BY <2>3
    <3>2. seen'[Tcpip] = inpkt /\ seen'[Net] = seen[Net]
      BY <1>2, <2>3
    <3>3. InpktAccounted'
      BY <2>1, <3>1 DEF InpktAccounted, InUse
    <3>4. Heads'
      BY <2>1, <3>1, <3>2 DEF Heads
    <3> QED
      BY <3>3, <3>4
  <2> QED
    BY <2>2, <2>3
<1> QED
  BY <1>3, <1>4 DEF PoolInv

\* What a write of the head takes off the list, cuts off and hands out adds up.
LEMMA Moved ==
    ASSUME NEW s \in Int, NEW l \in Int, NEW i \in Int, NEW m \in Int, NEW u \in Int
    PROVE  /\ (s - 1) + (l + (i - s)) + m + (u + 1) = i + l + m + u
           /\ (s + 1) + (l + (i - s)) + m + u = i + l + m + (u + 1)
OBVIOUS

\* tcpip_inpkt writes the head: the list has only grown since it read it, so that
\* it takes the message it has seen and cuts off what was added.
LEMMA TakePool == ASSUME LockInv, PacketInv, PoolInv, InpktTake PROVE PoolInv'
<1>1. /\ pc[Net] = "take" /\ pc'[Net] = "post" /\ pc'[Tcpip] = pc[Tcpip]
      /\ UNCHANGED <<mbox, inp>> /\ MempWrite(Net, seen[Net] - 1)
  BY PoolNumbers DEF InpktTake, MempMalloc
<1>2. PoolTypeOK
  BY DEF PoolInv
<1>9. /\ inpkt \in Nat /\ lost \in Nat /\ InpktNum \in Nat /\ Len(mbox) \in Nat
      /\ seen[Net] \in 0..InpktNum
  BY PoolNumbers
<1>3. /\ seen' \in [{Net, Tcpip} -> 0..InpktNum] /\ seen'[Tcpip] = seen[Tcpip]
      /\ twice' \in BOOLEAN
  BY <1>1, <1>2, <1>9, ThreadsDiffer DEF MempWrite, PoolTypeOK
<1>4. CASE twice'
  BY <1>1, <1>2, <1>3, <1>4 DEF MempWrite, PoolInv, PoolTypeOK
<1>5. CASE ~twice'
  <2>1. /\ ~twice /\ inpkt' = seen[Net] - 1 /\ lost' = lost + (inpkt - seen[Net])
    BY <1>1, <1>5 DEF MempWrite
  <2>2. InpktAccounted /\ Heads
    BY <2>1 DEF PoolInv
  <2>3. 0 < seen[Net] /\ seen[Net] <= inpkt
    BY <1>1, <2>2 DEF Heads
  <2>4. inpkt' \in Nat /\ lost' \in Nat /\ Len(mbox') \in Nat
    <3>1. seen[Net] - 1 \in Nat /\ lost + (inpkt - seen[Net]) \in Nat
      BY <1>9, <2>3
    <3> QED
      BY <1>1, <1>9, <2>1, <3>1
  <2>5. InpktAccounted'
    <3>1. InUse' = InUse + 1
      BY <1>1 DEF InUse
    <3>2. InpktNum = inpkt + lost + Len(mbox) + InUse
      BY <2>2 DEF InpktAccounted
    <3>3. InUse \in Nat /\ Len(mbox) \in Nat /\ mbox' = mbox
      BY <1>1, <1>9, InUseNat
    <3>4. (seen[Net] - 1) + (lost + (inpkt - seen[Net])) + Len(mbox) + (InUse + 1)
          = inpkt + lost + Len(mbox) + InUse
      <4>1. /\ seen[Net] \in Int /\ lost \in Int /\ inpkt \in Int /\ Len(mbox) \in Int
            /\ InUse \in Int
        BY <1>9, <3>3
      <4> QED
        BY ONLY <4>1, Moved
    <3>5. inpkt' + lost' + Len(mbox') + InUse' = inpkt + lost + Len(mbox) + InUse
      BY <2>1, <3>1, <3>3, <3>4
    <3> QED
      BY <3>2, <3>5 DEF InpktAccounted
  <2>6. inpkt' \in 0..InpktNum /\ lost' \in 0..InpktNum
    <3>1. InpktNum = inpkt' + lost' + Len(mbox') + InUse'
      BY <2>5 DEF InpktAccounted
    <3>2. \A a, b, c, d \in Nat : InpktNum = a + b + c + d => a \in 0..InpktNum /\ b \in 0..InpktNum
      BY <1>9
    <3> QED
      BY <2>4, <3>1, <3>2, InUseNat
  <2>7. Heads'
    <3>1. pc[Tcpip] = "give" => inpkt <= seen[Tcpip] + 1
      BY <2>2 DEF Heads
    <3>2. seen[Tcpip] \in Int
      BY <1>2 DEF PoolTypeOK
    <3>3. pc'[Tcpip] = "give" => inpkt' <= seen'[Tcpip]
      <4>1. inpkt' <= inpkt - 1 /\ inpkt \in Int /\ inpkt' \in Int
        BY <1>9, <2>1, <2>3
      <4> QED
        BY <1>1, <1>3, <3>1, <3>2, <4>1
    <3>4. seen'[Tcpip] \in Int /\ inpkt' \in Int
      BY <1>3, <2>4, <3>2
    <3> QED
      BY <1>1, <3>3, <3>4 DEF Heads
  <2> QED
    BY <1>3, <2>5, <2>6, <2>7 DEF PoolInv, PoolTypeOK
<1> QED
  BY <1>4, <1>5

\* memp_free writes the head: when nothing was taken off the list since it was read,
\* the message is on it, and what was added is cut off.
LEMMA GivePool ==
    ASSUME LockInv, PacketInv, PoolInv, NEW t \in {Net, Tcpip}, InpktGive(t)
    PROVE  PoolInv'
<1>1. pc[t] = "give" /\ UNCHANGED <<mbox, inp>> /\ MempWrite(t, seen[t] + 1)
  BY DEF InpktGive, MempFree
<1>2. PoolTypeOK
  BY DEF PoolInv
<1>9. /\ inpkt \in Nat /\ lost \in Nat /\ InpktNum \in Nat /\ Len(mbox) \in Nat
      /\ seen[t] \in 0..InpktNum
  BY PoolNumbers
<1>3. /\ seen' \in [{Net, Tcpip} -> 0..InpktNum] /\ twice' \in BOOLEAN
      /\ \A u \in {Net, Tcpip} : u # t => seen'[u] = seen[u]
  BY <1>1, <1>2, <1>9, ThreadsDiffer DEF MempWrite, PoolTypeOK
<1>4. CASE twice'
  BY <1>1, <1>2, <1>3, <1>4 DEF MempWrite, PoolInv, PoolTypeOK
<1>5. CASE ~twice'
  <2>1. /\ ~twice /\ seen[t] <= inpkt
        /\ inpkt' = seen[t] + 1 /\ lost' = lost + (inpkt - seen[t])
    <3>1. /\ ~twice /\ ~(seen[t] > inpkt)
          /\ inpkt' = seen[t] + 1 /\ lost' = lost + (inpkt - seen[t])
      BY <1>1, <1>2, <1>5 DEF MempWrite, PoolTypeOK
    <3> QED
      BY <1>9, <3>1
  <2>2. InpktAccounted /\ Heads
    BY <2>1 DEF PoolInv
  <2>3. \/ /\ t = Net /\ pc[Net] = "give" /\ pc'[Net] = "delay" /\ pc'[Tcpip] = pc[Tcpip]
           /\ seen'[Tcpip] = seen[Tcpip]
        \/ /\ t = Tcpip /\ pc[Tcpip] = "give" /\ pc'[Tcpip] = "idle" /\ pc'[Net] = pc[Net]
           /\ seen'[Net] = seen[Net]
    <3>1. CASE t = Net
      <4>1. pc'[Net] = "delay" /\ pc'[Tcpip] = pc[Tcpip]
        BY <3>1, PoolNumbers DEF InpktGive
      <4> QED
        BY <1>1, <1>3, <3>1, <4>1, ThreadsDiffer
    <3>2. CASE t = Tcpip
      <4>1. pc'[Tcpip] = "idle" /\ pc'[Net] = pc[Net]
        BY <3>2, PoolNumbers, ThreadsDiffer DEF InpktGive
      <4> QED
        BY <1>1, <1>3, <3>2, <4>1, ThreadsDiffer
    <3> QED
      BY <3>1, <3>2
  <2>4. inpkt' \in Nat /\ lost' \in Nat /\ Len(mbox') \in Nat
    <3>1. seen[t] + 1 \in Nat /\ lost + (inpkt - seen[t]) \in Nat
      BY <1>9, <2>1
    <3> QED
      BY <1>1, <1>9, <2>1, <3>1
  <2>5. InpktAccounted'
    <3>1. InUse = InUse' + 1 /\ InUse' \in Nat
      BY <1>1, <2>3 DEF InUse
    <3>2. InpktNum = inpkt + lost + Len(mbox) + InUse
      BY <2>2 DEF InpktAccounted
    <3>3. Len(mbox) \in Nat /\ mbox' = mbox
      BY <1>1, <1>9
    <3>4. (seen[t] + 1) + (lost + (inpkt - seen[t])) + Len(mbox) + InUse'
          = inpkt + lost + Len(mbox) + (InUse' + 1)
      <4>1. /\ seen[t] \in Int /\ lost \in Int /\ inpkt \in Int /\ Len(mbox) \in Int
            /\ InUse' \in Int
        BY <1>9, <3>1, <3>3
      <4> QED
        BY ONLY <4>1, Moved
    <3>5. inpkt' + lost' + Len(mbox') + InUse' = inpkt + lost + Len(mbox) + InUse
      BY <2>1, <3>1, <3>3, <3>4
    <3> QED
      BY <3>2, <3>5 DEF InpktAccounted
  <2>6. inpkt' \in 0..InpktNum /\ lost' \in 0..InpktNum
    <3>1. InpktNum = inpkt' + lost' + Len(mbox') + InUse'
      BY <2>5 DEF InpktAccounted
    <3>2. \A a, b, c, d \in Nat : InpktNum = a + b + c + d => a \in 0..InpktNum /\ b \in 0..InpktNum
      BY <1>9
    <3> QED
      BY <2>4, <3>1, <3>2, InUseNat
  <2>7. Heads'
    <3>1. seen[Net] \in Int /\ seen[Tcpip] \in Int
      BY <1>2 DEF PoolTypeOK
    <3>2. CASE t = Net
      <4>1. pc[Tcpip] = "give" => inpkt <= seen[Tcpip]
        BY <1>1, <2>2, <3>2 DEF Heads
      <4>2. inpkt' <= inpkt + 1 /\ inpkt' \in Int
        BY <1>9, <2>1
      <4>3. pc'[Tcpip] = "give" => inpkt' <= seen'[Tcpip] + 1
        BY <1>9, <2>3, <3>1, <3>2, <4>1, <4>2, ThreadsDiffer
      <4> QED
        BY <2>3, <3>2, <4>3, ThreadsDiffer DEF Heads
    <3>3. CASE t = Tcpip
      <4>1. /\ pc[Net] = "take" => 0 < seen[Net]
            /\ pc[Net] \in {"take", "give"} => seen[Net] <= inpkt
        BY <2>2 DEF Heads
      <4>2. inpkt <= seen[Tcpip] + 1 /\ inpkt' = seen[Tcpip] + 1
        BY <1>1, <2>1, <2>2, <3>3 DEF Heads
      <4>3. pc'[Net] \in {"take", "give"} => seen'[Net] <= inpkt'
        BY <1>9, <2>3, <3>1, <3>3, <4>1, <4>2, ThreadsDiffer
      <4> QED
        BY <2>3, <3>3, <4>1, <4>3, ThreadsDiffer DEF Heads
    <3> QED
      BY <3>2, <3>3
  <2> QED
    BY <1>3, <2>5, <2>6, <2>7 DEF PoolInv, PoolTypeOK
<1> QED
  BY <1>4, <1>5

\* Every step accounts for the messages.
LEMMA NextPool == LockInv /\ PacketInv /\ PoolInv /\ [Next]_vars => PoolInv'
<1> SUFFICES ASSUME LockInv, PacketInv, PoolInv, [Next]_vars PROVE PoolInv'
  OBVIOUS
<1> USE PoolNumbers, ThreadsDiffer
<1>1. PoolTypeOK /\ Carries /\ Roles
  BY DEF PoolInv, PacketInv, LockInv
<1>2. ASSUME UNCHANGED <<pool, mbox, inp, pc>> PROVE PoolInv'
  BY <1>2 DEF PoolInv, PoolTypeOK, InpktAccounted, InUse, Heads, pool
<1>3. ASSUME NEW t \in Threads, Driver(t) \/ AdinWait(t) \/ LockCore(t) PROVE PoolInv'
  <2>1. UNCHANGED <<pool, mbox, inp>>
    BY <1>3 DEF Driver, SpiStart, SpiEnd, SpiAbort, Others, AdinRelease, Output, AdinWait,
                LockCore, packets
  <2>2. pc[t] \in WriteOps \cup ReadOps \cup {"release", "work", "out", "poll", "relock"}
    BY <1>3 DEF Driver, SpiStart, SpiEnd, SpiAbort, AdinRelease, Output, AdinWait, LockCore,
                WriteOps, ReadOps
  <2>3. CASE UNCHANGED pc
    BY <1>2, <2>1, <2>3
  <2>4. CASE \E l \in WriteOps \cup ReadOps \cup {"release", "alloc", "delay", "work", "out"} :
                Goto(t, l)
    <3>1. PICK l \in WriteOps \cup ReadOps \cup {"release", "alloc", "delay", "work", "out"} :
                 Goto(t, l)
      BY <2>4
    <3>2. l \in Steps \ MsgSteps /\ pc[t] \notin MsgSteps
      BY <2>2 DEF Steps, MsgSteps, WriteOps, ReadOps
    <3> QED
      BY <2>1, <3>1, <3>2, AsidePool
  <2> QED
    BY <1>3, <2>3, <2>4 DEF Driver, SpiStart, SpiEnd, SpiAbort, AfterSpace, AdinRelease, Output,
                            AdinWait, LockCore, WriteOps, ReadOps
<1>4. ASSUME NEW t \in {Net, Tcpip}, NEW l \in Steps \ MsgSteps, Goto(t, l),
             UNCHANGED <<pool, mbox, inp>>, pc[t] \notin MsgSteps
      PROVE  PoolInv'
  BY <1>4, AsidePool
<1>5. CASE InitDone \/ NextPoll \/ PbufAlloc
  <2>1. /\ UNCHANGED <<pool, mbox, inp>> /\ pc[Net] \in {"work", "delay", "alloc"}
        /\ \E l \in {"poll", "input", "delay"} : Goto(Net, l)
    BY <1>5 DEF InitDone, NextPoll, PbufAlloc, packets
  <2> QED
    BY <1>4, <2>1 DEF Steps, MsgSteps
<1>6. CASE InpktHead
  <2>1. CASE MempRead(Net) /\ Goto(Net, "take") /\ (twice \/ inpkt > 0)
    <3>1. pc[Net] = "input" /\ UNCHANGED <<inpkt, lost, twice, mbox, inp>>
      BY <1>6 DEF InpktHead
    <3> QED
      BY <2>1, <3>1, ReadPool
  <2>2. CASE Goto(Net, "delay") /\ UNCHANGED seen
    <3>1. pc[Net] = "input" /\ UNCHANGED <<pool, mbox, inp>>
      BY <1>6, <2>2 DEF InpktHead, pool
    <3> QED
      BY <1>4, <2>2, <3>1 DEF Steps, MsgSteps
  <2> QED
    BY <1>6, <2>1, <2>2 DEF InpktHead
<1>7. CASE InpktPost
  <2>1. /\ pc[Net] = "post" /\ pc'[Tcpip] = pc[Tcpip] /\ UNCHANGED <<pool, inp>>
    BY <1>7 DEF InpktPost
  <2>2. PoolTypeOK'
    BY <1>1, <2>1 DEF PoolTypeOK, pool
  <2>3. \/ pc'[Net] = "delay" /\ Len(mbox') = Len(mbox) + 1
        \/ pc'[Net] = "link" /\ Len(mbox') = Len(mbox)
    <3>1. CASE Goto(Net, "delay") /\ mbox' = Append(mbox, [p |-> netp, f |-> frame])
      BY <3>1 DEF PacketInv, PacketTypeOK
    <3>2. CASE Goto(Net, "link") /\ UNCHANGED mbox
      BY <3>2
    <3> QED
      BY <1>7, <3>1, <3>2 DEF InpktPost, PostTo
  <2>4. InpktAccounted => InpktAccounted'
    <3>1. /\ inpkt \in Nat /\ lost \in Nat /\ Len(mbox) \in Nat
          /\ UNCHANGED <<inpkt, lost>> /\ InUse \in Nat /\ InUse' \in Nat
      BY <2>1, PoolNumbers, InUseNat DEF pool
    <3>2. Len(mbox') \in Nat /\ Len(mbox') + InUse' = Len(mbox) + InUse
      BY <2>1, <2>3, <3>1 DEF InUse
    <3>3. inpkt + lost + Len(mbox) + InUse = inpkt + lost + Len(mbox') + InUse'
      <4>1. /\ inpkt + lost + Len(mbox) + InUse = (inpkt + lost) + (Len(mbox) + InUse)
            /\ inpkt + lost + Len(mbox') + InUse' = (inpkt + lost) + (Len(mbox') + InUse')
        BY <3>1, <3>2
      <4> QED
        BY <3>2, <4>1
    <3> QED
      BY <3>1, <3>3 DEF InpktAccounted
  <2>5. Heads => Heads'
    BY <2>1, <2>3 DEF Heads, pool
  <2> QED
    BY <2>1, <2>2, <2>4, <2>5 DEF PoolInv, pool
<1>8. ASSUME NEW t \in {Net, Tcpip}, Give(t) PROVE PoolInv'
  <2>1. CASE InpktLink(t)
    BY <2>1, ReadPool DEF InpktLink
  <2>2. CASE InpktGive(t)
    BY <2>2, GivePool
  <2> QED
    BY <1>8, <2>1, <2>2 DEF Give
<1>9. CASE Timeouts \/ FetchBegin
  <2>1. /\ UNCHANGED <<pool, mbox, inp>> /\ pc[Tcpip] = "idle"
        /\ \E l \in {"work", "fetch"} : Goto(Tcpip, l)
    BY <1>9 DEF Timeouts, FetchBegin, packets
  <2> QED
    BY <1>4, <2>1 DEF Steps, MsgSteps
<1>10. CASE Fetch
  <2>1. /\ pc[Tcpip] = "fetch" /\ Goto(Tcpip, "relock") /\ UNCHANGED pool
    BY <1>10 DEF Fetch
  <2>2. CASE UNCHANGED <<inp, mbox>>
    BY <1>4, <2>1, <2>2 DEF Steps, MsgSteps
  <2>3. CASE mbox # <<>> /\ inp' = Head(mbox) /\ mbox' = Tail(mbox)
    <3>1. inp = NoMsg /\ inp' # NoMsg /\ Len(mbox') = Len(mbox) - 1
      <4>1. inp = NoMsg
        BY <1>1, <2>1 DEF Carries, CoreSteps, WriteOps
      <4>2. mbox[1] \in Msgs /\ Head(mbox) = mbox[1] /\ Len(Tail(mbox)) = Len(mbox) - 1
        BY <2>3 DEF PacketInv, PacketTypeOK
      <4> QED
        BY <2>3, <4>1, <4>2, MsgFacts
    <3>2. pc'[Tcpip] = "relock" /\ pc'[Net] = pc[Net]
      BY <2>1
    <3>3. PoolTypeOK'
      BY <1>1, <2>1 DEF PoolTypeOK, pool
    <3>4. InpktAccounted => InpktAccounted'
      BY <2>1, <3>1, <3>2 DEF InpktAccounted, InUse, pool
    <3>5. Heads => Heads'
      BY <2>1, <3>2 DEF Heads, pool
    <3> QED
      BY <2>1, <3>3, <3>4, <3>5 DEF PoolInv, pool
  <2> QED
    BY <1>10, <2>2, <2>3 DEF Fetch
<1>11. CASE HandleDone
  <2>1. pc[Tcpip] = "work" /\ UNCHANGED <<pool, mbox>> /\ pc'[Net] = pc[Net]
    BY <1>11 DEF HandleDone
  <2>2. CASE inp = NoMsg /\ Goto(Tcpip, "idle") /\ UNCHANGED inp
    BY <1>4, <2>1, <2>2 DEF Steps, MsgSteps
  <2>3. CASE inp # NoMsg /\ inp' = NoMsg /\ Goto(Tcpip, "link")
    <3>1. pc'[Tcpip] = "link"
      BY <2>3
    <3>2. PoolTypeOK'
      BY <1>1, <2>1 DEF PoolTypeOK, pool
    <3>3. InpktAccounted => InpktAccounted'
      BY <2>1, <2>3, <3>1 DEF InpktAccounted, InUse, pool
    <3>4. Heads => Heads'
      BY <2>1, <3>1 DEF Heads, pool
    <3> QED
      BY <2>1, <3>2, <3>3, <3>4 DEF PoolInv, pool
  <2> QED
    BY <1>11, <2>2, <2>3 DEF HandleDone
<1>12. ASSUME NEW t \in Tasks, Call(t) \/ Return(t) PROVE PoolInv'
  <2>1. UNCHANGED <<pool, mbox, inp>> /\ \E l \in {"relock", "user"} : Goto(t, l)
    BY <1>12 DEF Call, Return, packets
  <2>2. t \notin {Net, Tcpip} /\ {"relock", "user"} \subseteq Steps \ MsgSteps
    BY DEF Steps, MsgSteps
  <2> QED
    BY <2>1, <2>2, AsidePool
<1>13. CASE Arrive \/ (\E t \in Tasks : Free(t)) \/ UNCHANGED vars
  BY <1>2, <1>13 DEF Arrive, Free, vars, packets
<1> QED
  BY <1>3, <1>5, <1>6, TakePool, <1>7, <1>8, <1>9, <1>10, <1>11, <1>12, <1>13
     DEF Next, NetStep, TcpipStep
-----------------------------------------------------------------------------
(* Sequences: where the elements of a longer or a shorter one come from.    *)

\* What xQueueSendToBack leaves in the mailbox.
LEMMA AppendAt ==
    ASSUME NEW S, NEW q \in Seq(S), NEW m \in S
    PROVE  \A i \in DOMAIN Append(q, m) :
               \/ i \in DOMAIN q /\ i < Len(q) + 1 /\ Append(q, m)[i] = q[i]
               \/ i = Len(q) + 1 /\ Append(q, m)[i] = m
OBVIOUS

\* What xQueueReceive takes out of the mailbox, and what it leaves.
LEMMA TailAt ==
    ASSUME NEW S, NEW q \in Seq(S), q # <<>>
    PROVE  /\ 1 \in DOMAIN q /\ Head(q) = q[1]
           /\ \A i \in DOMAIN Tail(q) :
                 i \in Nat /\ i + 1 \in DOMAIN q /\ 1 < i + 1 /\ Tail(q)[i] = q[i + 1]
OBVIOUS

\* Each element of two sequences in a row is one of the first or one of the second.
LEMMA ConcatAt ==
    ASSUME NEW S, NEW q \in Seq(S), NEW r \in Seq(S)
    PROVE  /\ q \o r \in Seq(S)
           /\ \A i \in DOMAIN (q \o r) :
                 \/ i \in DOMAIN q /\ i \in 1..Len(q) /\ (q \o r)[i] = q[i]
                 \/ /\ i > Len(q) /\ i \in Nat /\ i - Len(q) \in DOMAIN r
                    /\ (q \o r)[i] = r[i - Len(q)]
OBVIOUS

\* Each element of either sequence is one of the two in a row.
LEMMA ConcatParts ==
    ASSUME NEW S, NEW q \in Seq(S), NEW r \in Seq(S)
    PROVE  /\ \A k \in DOMAIN q : k \in DOMAIN (q \o r) /\ (q \o r)[k] = q[k]
           /\ \A k \in DOMAIN r : \E l \in DOMAIN (q \o r) : (q \o r)[l] = r[k]
<1>1. \A k \in DOMAIN q : k \in DOMAIN (q \o r) /\ (q \o r)[k] = q[k]
  OBVIOUS
<1>2. ASSUME NEW k \in DOMAIN r PROVE \E l \in DOMAIN (q \o r) : (q \o r)[l] = r[k]
  <2>1. Len(q) + k \in DOMAIN (q \o r) /\ (q \o r)[Len(q) + k] = r[k]
    OBVIOUS
  <2> QED
    BY <2>1
<1> QED
  BY <1>1, <1>2

Distinct(q) == \A i, j \in DOMAIN q : q[i] = q[j] => i = j
Apart(q, r) == \A i \in DOMAIN q, j \in DOMAIN r : q[i] # r[j]
Increasing(q) == \A i, j \in DOMAIN q : i < j => Before(q[i], q[j])
Below(q, r) == \A i \in DOMAIN q, j \in DOMAIN r : Before(q[i], r[j])

\* Two hands without a common pbuf, each without a double one.
LEMMA DistinctConcat ==
    ASSUME NEW S, NEW q \in Seq(S), NEW r \in Seq(S), Distinct(q), Distinct(r), Apart(q, r)
    PROVE  Distinct(q \o r)
<1> SUFFICES ASSUME NEW i \in DOMAIN (q \o r), NEW j \in DOMAIN (q \o r),
                    (q \o r)[i] = (q \o r)[j]
             PROVE  i = j
  BY DEF Distinct
<1>1. Len(q) \in Nat
  OBVIOUS
<1>2. \/ j \in DOMAIN q /\ (q \o r)[j] = q[j]
      \/ j \in Nat /\ j - Len(q) \in DOMAIN r /\ (q \o r)[j] = r[j - Len(q)]
  BY ConcatAt
<1>3. CASE i \in DOMAIN q /\ (q \o r)[i] = q[i]
  BY <1>3, <1>2 DEF Distinct, Apart
<1>4. CASE i \in Nat /\ i - Len(q) \in DOMAIN r /\ (q \o r)[i] = r[i - Len(q)]
  <2>1. j \in Nat /\ j - Len(q) \in DOMAIN r /\ (q \o r)[j] = r[j - Len(q)]
    BY <1>4, <1>2 DEF Apart
  <2>2. i - Len(q) = j - Len(q)
    BY <1>4, <2>1 DEF Distinct
  <2> QED
    BY <1>1, <1>4, <2>1, <2>2
<1> QED
  BY <1>3, <1>4, ConcatAt

\* Two increasing runs of frame numbers, the first below the second.
LEMMA IncreasingConcat ==
    ASSUME NEW q \in Seq(Int), NEW r \in Seq(Int), Increasing(q), Increasing(r), Below(q, r)
    PROVE  Increasing(q \o r)
<1> SUFFICES ASSUME NEW i \in DOMAIN (q \o r), NEW j \in DOMAIN (q \o r), i < j
             PROVE  Before((q \o r)[i], (q \o r)[j])
  BY DEF Increasing
<1>1. Len(q) \in Nat /\ i \in Nat /\ j \in Nat
  OBVIOUS
<1>2. CASE j \in 1..Len(q)
  <2>1. i \in DOMAIN q /\ (q \o r)[i] = q[i] /\ j \in DOMAIN q /\ (q \o r)[j] = q[j]
    BY <1>1, <1>2, ConcatAt
  <2> QED
    BY <2>1 DEF Increasing
<1>3. CASE j > Len(q) /\ j - Len(q) \in DOMAIN r /\ (q \o r)[j] = r[j - Len(q)]
  <2>1. CASE i \in DOMAIN q /\ (q \o r)[i] = q[i]
    BY <1>3, <2>1 DEF Below
  <2>2. CASE i > Len(q) /\ i - Len(q) \in DOMAIN r /\ (q \o r)[i] = r[i - Len(q)]
    <3>1. i - Len(q) < j - Len(q)
      BY <1>1
    <3> QED
      BY <1>3, <2>2, <3>1 DEF Increasing
  <2> QED
    BY <2>1, <2>2, ConcatAt
<1> QED
  BY <1>2, <1>3, ConcatAt

\* What is below both parts is below the whole, and so above.
LEMMA BelowConcat ==
    ASSUME NEW q \in Seq(Int), NEW r \in Seq(Int), NEW s \in Seq(Int),
           Below(q, s), Below(r, s)
    PROVE  Below(q \o r, s)
<1> SUFFICES ASSUME NEW i \in DOMAIN (q \o r), NEW j \in DOMAIN s
             PROVE  Before((q \o r)[i], s[j])
  BY DEF Below
<1>1. \/ i \in DOMAIN q /\ (q \o r)[i] = q[i]
      \/ i - Len(q) \in DOMAIN r /\ (q \o r)[i] = r[i - Len(q)]
  BY ConcatAt
<1> QED
  BY <1>1 DEF Below
-----------------------------------------------------------------------------
(* Owners of pbufs.                                                         *)

\* Every step leaves each pbuf in one hand and allocated: PbufAlloc takes a free one,
\* InpktPost and Fetch hand it on, HandleDone and Free give it back or keep it.
LEMMA NextHanded == LockInv /\ PacketInv /\ Handed /\ [Next]_vars => Handed'
<1> SUFFICES ASSUME LockInv, PacketInv, Handed, [Next]_vars PROVE Handed'
  OBVIOUS
<1>1. PacketTypeOK /\ Carries
  BY DEF PacketInv
<1>2. ASSUME UNCHANGED <<netp, mbox, inp, used, held, leaked>> PROVE Handed'
  BY <1>2 DEF Handed
<1>3. /\ inp.p = None <=> inp = NoMsg
      /\ \A i \in DOMAIN mbox : mbox[i] \in Msgs /\ mbox[i].p # None
  BY <1>1, MsgFacts DEF PacketTypeOK
<1>4. ASSUME netp # None, Refused, UNCHANGED <<mbox, inp, used, held>> PROVE Handed'
  <2>1. netp \in used \ (held \cup leaked) /\ netp' = None /\ leaked' = leaked \cup {netp}
    BY <1>4 DEF Handed, Refused, PollReturn
  <2>2. /\ held \subseteq used /\ leaked' \subseteq used \ held
        /\ inp # NoMsg => inp.p \in used \ (held \cup leaked') /\ inp.p # None
    BY <1>3, <2>1 DEF Handed
  <2>3. \A i \in DOMAIN mbox : /\ mbox[i].p \in used \ (held \cup leaked')
                               /\ mbox[i].p \notin {None, inp.p}
    BY <1>3, <2>1 DEF Handed
  <2>4. \A p \in used \ (held \cup leaked') :
            p \in {None, inp.p} \/ \E i \in DOMAIN mbox : mbox[i].p = p
    BY <2>1 DEF Handed
  <2> QED
    BY <1>4, <2>1, <2>2, <2>3, <2>4 DEF Handed
<1>5. CASE PbufAlloc
  <2>1. ASSUME NEW p \in Pbufs \ used, used' = used \cup {p}, netp' = p PROVE Handed'
    <3>1. UNCHANGED <<mbox, inp, held, leaked>> /\ netp = None
      BY <1>1, <1>5 DEF PbufAlloc, Carries
    <3>2. \A q \in used' \ (held \cup leaked) :
              q \in {p, inp.p} \/ \E i \in DOMAIN mbox : mbox[i].p = q
      <4> TAKE q \in used' \ (held \cup leaked)
      <4>1. CASE q = p
        BY <4>1
      <4>2. CASE q # p
        <5>1. q \in used \ (held \cup leaked) /\ q # None
          BY <1>1, <2>1, <4>2, ConstantsOK DEF PacketTypeOK
        <5> QED
          BY <3>1, <5>1 DEF Handed
      <4> QED
        BY <4>1, <4>2
    <3>3. \A i \in DOMAIN mbox : /\ mbox[i].p \in used' \ (held \cup leaked)
                                 /\ mbox[i].p \notin {p, inp.p}
      BY <2>1 DEF Handed
    <3>4. /\ held \subseteq used' /\ leaked \subseteq used' \ held
          /\ p \in used' \ (held \cup leaked)
          /\ inp # NoMsg => inp.p \in used' \ (held \cup leaked) /\ inp.p # p
      BY <2>1 DEF Handed
    <3> QED
      BY <2>1, <3>1, <3>2, <3>3, <3>4 DEF Handed
  <2> QED
    BY <1>2, <1>5, <2>1 DEF PbufAlloc
<1>6. CASE InpktHead
  <2>1. netp # None /\ UNCHANGED <<mbox, inp, used, held>>
    BY <1>1, <1>6 DEF InpktHead, Carries
  <2>2. CASE UNCHANGED <<netp, leaked>>
    BY <1>2, <2>1, <2>2
  <2>3. CASE Refused
    BY <1>4, <2>1, <2>3
  <2> QED
    BY <1>6, <2>2, <2>3 DEF InpktHead
<1>7. CASE InpktPost
  <2>1. UNCHANGED <<inp, used, held>> /\ netp # None
    BY <1>1, <1>7 DEF InpktPost, Carries
  <2> DEFINE m == [p |-> netp, f |-> frame]
  <2>2. m \in Msgs /\ m.p = netp
    BY <1>1, <1>7 DEF InpktPost, Carries, PacketTypeOK, Msgs, Junk
  <2>3. CASE Taken /\ mbox' = Append(mbox, m)
    <3> HIDE DEF m
    <3>1. \A i \in DOMAIN mbox' : \/ i \in DOMAIN mbox /\ mbox'[i] = mbox[i]
                                  \/ i = Len(mbox) + 1 /\ mbox'[i] = m
      BY <1>1, <2>2, <2>3, AppendAt DEF PacketTypeOK
    <3>2. /\ netp' = None /\ leaked' = leaked
          /\ netp \in used \ (held \cup leaked) /\ (inp # NoMsg => inp.p # netp)
      BY <2>1, <2>3 DEF Handed, Taken, PollReturn
    <3>3. \A i \in DOMAIN mbox' : /\ mbox'[i].p \in used \ (held \cup leaked)
                                  /\ mbox'[i].p \notin {None, inp.p}
      BY <1>3, <2>1, <2>2, <3>1, <3>2 DEF Handed
    <3>4. \A i, j \in DOMAIN mbox' : mbox'[i].p = mbox'[j].p => i = j
      BY <2>1, <2>2, <3>1 DEF Handed
    <3>5. /\ \A i \in DOMAIN mbox : i \in DOMAIN mbox' /\ mbox'[i] = mbox[i]
          /\ Len(mbox) + 1 \in DOMAIN mbox' /\ mbox'[Len(mbox) + 1] = m
      BY <1>1, <2>2, <2>3 DEF PacketTypeOK
    <3>6. \A p \in used \ (held \cup leaked) :
              p = inp.p \/ \E i \in DOMAIN mbox' : mbox'[i].p = p
      BY <2>2, <3>5 DEF Handed
    <3>7. inp # NoMsg => inp.p \in used \ (held \cup leaked) /\ inp.p # None
      BY <1>3 DEF Handed
    <3>8. held \subseteq used /\ leaked \subseteq used \ held
      BY DEF Handed
    <3> QED
      BY <2>1, <3>2, <3>3, <3>4, <3>6, <3>7, <3>8 DEF Handed
  <2>4. CASE Refused /\ UNCHANGED mbox
    BY <1>4, <2>1, <2>4
  <2> QED
    BY <1>7, <2>3, <2>4 DEF InpktPost, PostTo
<1>8. CASE Fetch
  <2>1. UNCHANGED <<netp, used, held, leaked>> /\ inp = NoMsg
    BY <1>1, <1>8 DEF Fetch, Carries, CoreSteps, WriteOps
  <2>2. CASE mbox # <<>> /\ inp' = Head(mbox) /\ mbox' = Tail(mbox)
    <3>1. /\ 1 \in DOMAIN mbox /\ inp' = mbox[1]
          /\ \A i \in DOMAIN mbox' : /\ i \in Nat /\ i + 1 \in DOMAIN mbox /\ 1 < i + 1
                                     /\ mbox'[i] = mbox[i + 1]
      BY <1>1, <2>2, TailAt DEF PacketTypeOK
    <3>2. \A i, j \in DOMAIN mbox' : mbox'[i].p = mbox'[j].p => i = j
      <4> TAKE i, j \in DOMAIN mbox'
      <4> HAVE mbox'[i].p = mbox'[j].p
      <4>1. i + 1 = j + 1
        BY <3>1 DEF Handed
      <4> QED
        BY <3>1, <4>1
    <3>3. \A i \in DOMAIN mbox' : /\ mbox'[i].p \in used \ (held \cup leaked)
                                  /\ mbox'[i].p # netp /\ mbox'[i].p # inp'.p
      <4> TAKE i \in DOMAIN mbox'
      <4>1. i + 1 \in DOMAIN mbox /\ mbox'[i] = mbox[i + 1] /\ i + 1 # 1
        BY <3>1
      <4> QED
        BY <3>1, <4>1 DEF Handed
    <3>4. \A p \in used \ (held \cup leaked) :
              p \in {netp, inp'.p} \/ \E i \in DOMAIN mbox' : mbox'[i].p = p
      <4> TAKE p \in used \ (held \cup leaked)
      <4>1. p # None
        BY <1>1, ConstantsOK DEF PacketTypeOK
      <4>2. CASE \E i \in DOMAIN mbox : mbox[i].p = p
        <5>1. PICK i \in DOMAIN mbox : mbox[i].p = p
          BY <4>2
        <5>2. i = 1 \/ (i - 1 \in DOMAIN mbox' /\ mbox'[i - 1] = mbox[i])
          BY <1>1, <2>2, <5>1 DEF PacketTypeOK
        <5> QED
          BY <3>1, <5>1, <5>2
      <4>3. CASE p \in {netp, inp.p}
        BY <1>3, <2>1, <4>1, <4>3
      <4> QED
        BY <4>2, <4>3 DEF Handed
    <3>5. /\ inp'.p \in used \ (held \cup leaked) /\ inp'.p # netp
          /\ held \subseteq used /\ leaked \subseteq used \ held
          /\ (netp # None => netp \in used \ (held \cup leaked))
      BY <3>1 DEF Handed
    <3> QED
      BY <2>1, <3>2, <3>3, <3>4, <3>5 DEF Handed
  <2> QED
    BY <1>2, <1>8, <2>1, <2>2 DEF Fetch
<1>9. CASE HandleDone
  <2>1. UNCHANGED <<netp, mbox, leaked>>
    BY <1>9 DEF HandleDone
  <2>2. CASE inp # NoMsg /\ Dispose(inp.p) /\ inp' = NoMsg
    <3>1. inp'.p = None /\ inp' = NoMsg
      BY <2>2, MsgFacts
    <3>2. held' \subseteq used' /\ leaked \subseteq used' \ held'
      BY <2>2 DEF Dispose, Handed
    <3>3. netp # None => netp \in used' \ (held' \cup leaked)
      BY <2>2 DEF Dispose, Handed
    <3>4. \A i \in DOMAIN mbox : /\ mbox[i].p \in used' \ (held' \cup leaked)
                                 /\ mbox[i].p \notin {netp, None}
      BY <1>3, <2>2 DEF Dispose, Handed
    <3>5. used' \ (held' \cup leaked) = (used \ (held \cup leaked)) \ {inp.p}
      BY <2>2 DEF Dispose, Handed
    <3>6. \A p \in used' \ (held' \cup leaked) :
              p = netp \/ \E i \in DOMAIN mbox : mbox[i].p = p
      BY <3>5 DEF Handed
    <3>7. \A i, j \in DOMAIN mbox : mbox[i].p = mbox[j].p => i = j
      BY DEF Handed
    <3> QED
      BY <2>1, <3>1, <3>2, <3>3, <3>4, <3>6, <3>7 DEF Handed
  <2> QED
    BY <1>2, <1>9, <2>1, <2>2 DEF HandleDone
<1>10. ASSUME NEW t \in Tasks, Free(t) PROVE Handed'
  <2>1. PICK p \in held : used' = used \ {p} /\ held' = held \ {p}
    BY <1>10 DEF Free
  <2>2. UNCHANGED <<netp, mbox, inp, leaked>>
    BY <1>10 DEF Free
  <2>3. used' \ (held' \cup leaked) = used \ (held \cup leaked)
    BY <2>1 DEF Handed
  <2>4. held' \subseteq used' /\ leaked \subseteq used' \ held'
    BY <2>1 DEF Handed
  <2> QED
    BY <2>2, <2>3, <2>4 DEF Handed
<1>11. ASSUME NEW t \in Threads, Driver(t) \/ AdinWait(t) \/ LockCore(t) PROVE Handed'
  BY <1>2, <1>11 DEF Driver, SpiStart, SpiEnd, SpiAbort, Others, AdinRelease, Output, AdinWait, LockCore, packets
<1>12. CASE Arrive \/ InitDone \/ NextPoll \/ Timeouts \/ FetchBegin
  BY <1>2, <1>12 DEF Arrive, InitDone, NextPoll, Timeouts, FetchBegin, packets
<1>13. ASSUME NEW t \in Tasks, Call(t) \/ Return(t) PROVE Handed'
  BY <1>2, <1>13 DEF Call, Return, packets
<1>14. CASE InpktTake \/ Give(Net) \/ Give(Tcpip)
  BY <1>2, <1>14 DEF InpktTake, Give, InpktLink, InpktGive
<1>15. CASE UNCHANGED vars
  BY <1>2, <1>15 DEF vars, packets
<1> QED
  BY <1>5, <1>6, <1>7, <1>8, <1>9, <1>10, <1>11, <1>12, <1>13, <1>14, <1>15
     DEF Next, NetStep, TcpipStep

\* Pbufs in different places are different, so no pbuf is listed twice, and
\* each one is listed or leaked.
LEMMA HandedNoDangling == PacketTypeOK /\ Handed => NoDangling /\ LeaksKnown
<1> SUFFICES ASSUME PacketTypeOK, Handed PROVE NoDangling /\ LeaksKnown
  OBVIOUS
<1> DEFINE A == IF netp = None THEN <<>> ELSE <<netp>>
           B == [i \in DOMAIN mbox |-> mbox[i].p]
           C == IF inp = NoMsg THEN <<>> ELSE <<inp.p>>
           Kept(q) == \A i \in DOMAIN q : q[i] \in used \ (held \cup leaked)
<1>1. A \in Seq(Pbufs) /\ Distinct(A) /\ Kept(A) /\ \A i \in DOMAIN A : A[i] = netp /\ netp # None
  BY DEF PacketTypeOK, Distinct, Handed
<1>2. C \in Seq(Pbufs) /\ Distinct(C) /\ Kept(C)
      /\ \A i \in DOMAIN C : C[i] = inp.p /\ inp # NoMsg
  BY MsgFacts DEF PacketTypeOK, Distinct, Handed
<1>3. /\ DOMAIN B = DOMAIN mbox /\ \A i \in DOMAIN mbox : B[i] = mbox[i].p
      /\ Len(mbox) \in Nat /\ DOMAIN mbox = 1..Len(mbox)
  BY DEF PacketTypeOK
<1>4. B \in Seq(Pbufs)
  <2>1. \A i \in 1..Len(mbox) : mbox[i].p \in Pbufs
    BY MsgFacts DEF PacketTypeOK
  <2> QED
    BY <1>3, <2>1
<1> HIDE DEF A, B, C
<1>5. Distinct(B) /\ Kept(B)
  BY <1>3 DEF Distinct, Handed
<1>6. Apart(A, B) /\ Apart(A, C) /\ Apart(B, C)
  BY <1>1, <1>2, <1>3 DEF Apart, Handed
<1>7. A \o B \in Seq(Pbufs) /\ Distinct(A \o B) /\ Kept(A \o B) /\ Apart(A \o B, C)
  <2>1. \A i \in DOMAIN (A \o B) : \/ i \in DOMAIN A /\ (A \o B)[i] = A[i]
                                   \/ i - Len(A) \in DOMAIN B /\ (A \o B)[i] = B[i - Len(A)]
    BY <1>1, <1>4, ConcatAt
  <2>2. Kept(A \o B) /\ Apart(A \o B, C)
    BY <1>1, <1>5, <1>6, <2>1 DEF Apart
  <2> QED
    BY <1>1, <1>4, <1>5, <1>6, <2>2, ConcatAt, DistinctConcat
<1>8. Refs = (A \o B) \o C
  BY DEF Refs, A, B, C
<1> HIDE DEF Kept
<1>9. Distinct(Refs) /\ Kept(Refs)
  <2> DEFINE D == A \o B
  <2>1. D \in Seq(Pbufs) /\ Distinct(D) /\ Kept(D) /\ Apart(D, C) /\ Refs = D \o C
    BY <1>7, <1>8
  <2> HIDE DEF D
  <2>2. \A i \in DOMAIN Refs : \/ i \in DOMAIN D /\ Refs[i] = D[i]
                               \/ i - Len(D) \in DOMAIN C /\ Refs[i] = C[i - Len(D)]
    BY <1>2, <2>1, ConcatAt
  <2>3. Kept(Refs)
    BY <1>2, <2>1, <2>2 DEF Kept
  <2> QED
    BY <1>2, <2>1, <2>3, DistinctConcat
<1>10. \A p \in used \ (held \cup leaked) : \E k \in DOMAIN Refs : Refs[k] = p
  <2> TAKE p \in used \ (held \cup leaked)
  <2>1. /\ \A k \in DOMAIN (A \o B) : k \in DOMAIN Refs /\ Refs[k] = (A \o B)[k]
        /\ \A k \in DOMAIN C : \E l \in DOMAIN Refs : Refs[l] = C[k]
    <3> DEFINE D == A \o B
    <3>1. D \in Seq(Pbufs) /\ Refs = D \o C
      BY <1>7, <1>8
    <3> HIDE DEF D
    <3>2. /\ \A k \in DOMAIN D : k \in DOMAIN Refs /\ Refs[k] = D[k]
          /\ \A k \in DOMAIN C : \E l \in DOMAIN Refs : Refs[l] = C[k]
      <4>1. /\ \A k \in DOMAIN D : k \in DOMAIN (D \o C) /\ (D \o C)[k] = D[k]
            /\ \A k \in DOMAIN C : \E l \in DOMAIN (D \o C) : (D \o C)[l] = C[k]
        <5>1. D \in Seq(Pbufs) /\ C \in Seq(Pbufs)
          BY <1>2, <3>1
        <5> QED
          BY ONLY <5>1, ConcatParts
      <4>2. Refs = D \o C
        BY <3>1
      <4> HIDE DEF Refs
      <4> QED
        BY <4>1, <4>2
    <3> QED
      BY <3>2 DEF D
  <2>2. \A k \in DOMAIN A \cup DOMAIN B :
            /\ k \in DOMAIN A => \E l \in DOMAIN Refs : Refs[l] = A[k]
            /\ k \in DOMAIN B => \E l \in DOMAIN Refs : Refs[l] = B[k]
    <3>1. /\ \A k \in DOMAIN A : k \in DOMAIN (A \o B) /\ (A \o B)[k] = A[k]
          /\ \A k \in DOMAIN B : \E l \in DOMAIN (A \o B) : (A \o B)[l] = B[k]
      BY <1>1, <1>4, ConcatParts
    <3> QED
      BY <2>1, <3>1
  <2>3. p # None
    BY ConstantsOK DEF PacketTypeOK
  <2>4. CASE p = netp
    <3>1. 1 \in DOMAIN A /\ A[1] = p
      BY <2>3, <2>4 DEF A
    <3> QED
      BY <2>2, <3>1
  <2>5. CASE p = inp.p
    <3>1. inp # NoMsg
      BY <2>3, <2>5, MsgFacts
    <3>2. 1 \in DOMAIN C /\ C[1] = p
      BY <2>5, <3>1 DEF C
    <3> QED
      BY <2>1, <3>2
  <2>6. CASE \E k \in DOMAIN mbox : mbox[k].p = p
    BY <1>3, <2>2, <2>6
  <2> QED
    BY <2>4, <2>5, <2>6 DEF Handed
<1>11. NoDangling
  BY <1>9 DEF NoDangling, RefSet, Distinct, Kept, Handed
<1>12. RefSet = used \ leaked
  <2>1. \A k \in DOMAIN Refs : Refs[k] \in used \ leaked
    BY <1>9 DEF Kept
  <2>2. held \subseteq used \ leaked
    BY DEF Handed
  <2> QED
    BY <1>10, <2>1, <2>2 DEF RefSet
<1>13. leaked \subseteq used
  BY DEF Handed
<1> QED
  BY <1>11, <1>12, <1>13 DEF LeaksKnown

\* All layers hold of every behaviour.
LEMMA PacketsOwned == Spec => [](LockInv /\ PacketInv /\ PoolInv /\ Handed)
<1>1. Init => Handed
  BY DEF Init, Handed, NoMsg
<1> QED
  BY <1>1, LocksHeld, InitPacket, NextPacket, InitPool, NextPool, NextHanded, PTL DEF Spec

\* Pbufs and messages are where their owners know them, up to the moment when the
\* unprotected free list gives a message to two: no pbuf is in two hands or used after
\* it was freed, the only ones forgotten are those of a netif->input that failed, and
\* the only messages that are lost are the ones that a write of the list's head has cut
\* off (network.c:168, tcpip.c:268-281, memp.c:275, 383).
THEOREM PbufsOwned == Spec => []Owned
<1>1. LockInv /\ PacketInv /\ PoolInv /\ Handed => Owned
  <2> SUFFICES ASSUME LockInv, PacketInv, PoolInv, Handed PROVE Owned
    OBVIOUS
  <2>1. TypeOK
    BY DEF LockInv, LockTypeOK, PacketInv, PacketTypeOK, PoolInv, PoolTypeOK, TypeOK
  <2>2. NoDangling /\ LeaksKnown
    BY HandedNoDangling DEF PacketInv
  <2> QED
    BY <2>1, <2>2 DEF Owned, PoolInv
<1> QED
  BY <1>1, PacketsOwned, PTL
-----------------------------------------------------------------------------
(* The order of frames.                                                     *)

\* Every step keeps the frames in the order of their numbers: the device appends the
\* newest, network_task takes the oldest of the FIFO, tcpip_thread the oldest of the
\* mailbox, and an error only takes one out.
LEMMA NextOrder == LockInv /\ PacketInv /\ OrderInv /\ [Next]_vars => OrderInv'
<1> SUFFICES ASSUME LockInv, PacketInv, OrderInv, [Next]_vars PROVE OrderInv'
  OBVIOUS
<1>1. PacketTypeOK /\ Carries /\ Roles
  BY DEF PacketInv, LockInv
<1>2. /\ rx \in Seq(1..MaxFrames) /\ mbox \in Seq(Msgs) /\ Len(rx) \in Nat /\ Len(mbox) \in Nat
      /\ frame \in Nat /\ arrived \in Nat /\ inp.f \in Nat /\ MaxFrames \in Nat
      /\ arrived < Junk /\ Junk \in Nat
      /\ \A i \in DOMAIN rx : rx[i] \in Nat /\ rx[i] > 0
      /\ \A i \in DOMAIN mbox : mbox[i] \in Msgs /\ mbox[i].f \in Nat /\ mbox[i].f > 0
  <2>1. MaxFrames \in Nat
    BY ConstantsOK
  <2>2. /\ rx \in Seq(1..MaxFrames) /\ mbox \in Seq(Msgs) /\ arrived \in 0..MaxFrames
        /\ frame \in 0..Junk /\ inp \in Msgs \cup {NoMsg}
    BY <1>1 DEF PacketTypeOK
  <2>3. Junk \in Nat /\ arrived \in Nat /\ arrived < Junk /\ frame \in Nat
    BY <2>1, <2>2 DEF Junk
  <2>4. \A m \in Msgs : m.f \in Nat /\ m.f > 0
    BY <2>3, MsgFacts
  <2>5. inp.f \in Nat
    BY <2>2, <2>4, MsgFacts
  <2>6. \A i \in DOMAIN mbox : mbox[i] \in Msgs /\ mbox[i].f \in Nat /\ mbox[i].f > 0
    BY <2>2, <2>4
  <2>7. \A i \in DOMAIN rx : rx[i] \in Nat /\ rx[i] > 0
    BY <2>1, <2>2
  <2>8. Len(rx) \in Nat /\ Len(mbox) \in Nat
    BY <2>2
  <2> QED
    BY <2>1, <2>2, <2>3, <2>5, <2>6, <2>7, <2>8
<1>3. ASSUME UNCHANGED <<mbox, rx, inp, arrived, frame>> PROVE OrderInv'
  BY <1>3 DEF OrderInv
<1>4. ASSUME frame' = 0, UNCHANGED <<mbox, rx, inp, arrived>> PROVE OrderInv'
  BY <1>2, <1>4 DEF OrderInv, Before
<1>5. CASE Arrive
  <2>1. arrived' = arrived + 1 /\ UNCHANGED <<mbox, inp, frame>>
    BY <1>5 DEF Arrive, packets
  <2>2. CASE Len(rx) < FifoLen
    <3>1. rx' = Append(rx, arrived') /\ arrived' \in 1..MaxFrames
      BY <1>2, <1>5, <2>1, <2>2 DEF Arrive
    <3>2. \A i \in DOMAIN rx' : \/ i \in DOMAIN rx /\ i < Len(rx) + 1 /\ rx'[i] = rx[i]
                                \/ i = Len(rx) + 1 /\ rx'[i] = arrived + 1
      BY <1>2, <2>1, <3>1, AppendAt
    <3>3. \A i \in DOMAIN rx' : i \in Nat
      BY <1>2, <3>2
    <3>4. \A i, j \in DOMAIN rx' : i < j => rx'[i] < rx'[j]
      <4> TAKE i, j \in DOMAIN rx'
      <4> HAVE i < j
      <4>1. i \in DOMAIN rx /\ rx'[i] = rx[i] /\ rx[i] <= arrived
        BY <1>2, <3>2, <3>3 DEF OrderInv
      <4> QED
        BY <1>2, <3>2, <4>1 DEF OrderInv
    <3>5. \A n \in (0..arrived) \cup {Junk} : Before(n, arrived + 1)
      BY <1>2 DEF Before
    <3>6. (0..arrived) \subseteq 0..arrived'
      BY <1>2, <2>1
    <3>7. \A i \in DOMAIN rx' : Before(frame, rx'[i]) /\ rx'[i] <= arrived' /\ Before(inp.f, rx'[i])
      <4> TAKE i \in DOMAIN rx'
      <4>1. CASE i \in DOMAIN rx /\ rx'[i] = rx[i]
        BY <1>2, <2>1, <4>1 DEF OrderInv
      <4>2. CASE rx'[i] = arrived + 1
        <5>1. frame \in (0..arrived) \cup {Junk} /\ inp.f \in (0..arrived) \cup {Junk}
          BY DEF OrderInv
        <5> QED
          BY <1>2, <2>1, <4>2, <5>1, <3>5
      <4> QED
        BY <3>2, <4>1, <4>2
    <3>8. \A i \in DOMAIN mbox : /\ mbox[i].f \in (0..arrived') \cup {Junk}
                                 /\ \A j \in DOMAIN rx' : Before(mbox[i].f, rx'[j])
      <4> TAKE i \in DOMAIN mbox
      <4>1. /\ mbox[i].f \in (0..arrived) \cup {Junk}
            /\ \A j \in DOMAIN rx : Before(mbox[i].f, rx[j])
        BY DEF OrderInv
      <4>2. Before(mbox[i].f, arrived + 1)
        BY <3>5, <4>1
      <4>3. mbox[i].f \in (0..arrived') \cup {Junk}
        BY <3>6, <4>1
      <4> QED
        BY <3>2, <4>1, <4>2, <4>3
    <3>9. frame \in (0..arrived') \cup {Junk} /\ inp.f \in (0..arrived') \cup {Junk}
      BY <3>6 DEF OrderInv
    <3> QED
      BY <2>1, <3>4, <3>7, <3>8, <3>9 DEF OrderInv
  <2>3. CASE ~(Len(rx) < FifoLen)
    <3>1. rx' = rx
      BY <1>5, <2>3 DEF Arrive
    <3>2. frame \in (0..arrived') \cup {Junk} /\ inp.f \in (0..arrived') \cup {Junk}
      BY <1>2, <2>1 DEF OrderInv
    <3>3. \A i \in DOMAIN rx : rx[i] <= arrived'
      BY <1>2, <2>1 DEF OrderInv
    <3>4. \A i \in DOMAIN mbox : mbox[i].f \in (0..arrived') \cup {Junk}
      BY <1>2, <2>1 DEF OrderInv
    <3> QED
      BY <2>1, <3>1, <3>2, <3>3, <3>4 DEF OrderInv
  <2> QED
    BY <2>2, <2>3
<1>6. ASSUME NEW t \in Threads, SpiEnd(t) \/ SpiAbort(t) PROVE OrderInv'
  <2>1. UNCHANGED <<arrived, mbox, inp>>
    BY <1>6 DEF SpiEnd, SpiAbort, Others
  <2>2. CASE UNCHANGED <<frame, rx>>
    BY <1>3, <2>1, <2>2
  <2>3. CASE frame' = Junk /\ UNCHANGED rx
    BY <1>2, <2>1, <2>3 DEF OrderInv, Before
  <2>4. CASE rx # <<>> /\ frame' = Head(rx) /\ rx' = Tail(rx)
    <3>1. /\ 1 \in DOMAIN rx /\ frame' = rx[1]
          /\ \A i \in DOMAIN rx' : /\ i \in Nat /\ i + 1 \in DOMAIN rx /\ 1 < i + 1
                                   /\ rx'[i] = rx[i + 1]
      BY <1>2, <2>4, TailAt
    <3>2. \A i, j \in DOMAIN rx' : i < j => rx'[i] < rx'[j]
      <4> TAKE i, j \in DOMAIN rx'
      <4> HAVE i < j
      <4>1. i + 1 < j + 1
        BY <3>1
      <4> QED
        BY <3>1, <4>1 DEF OrderInv
    <3>3. \A i \in DOMAIN rx' : /\ Before(frame', rx'[i]) /\ rx'[i] <= arrived
                                /\ Before(inp.f, rx'[i])
      BY <3>1 DEF OrderInv, Before
    <3>4. \A i \in DOMAIN mbox : /\ Before(mbox[i].f, frame')
                                 /\ \A j \in DOMAIN rx' : Before(mbox[i].f, rx'[j])
      BY <3>1 DEF OrderInv
    <3>5. frame' \in (0..arrived) \cup {Junk} /\ Before(inp.f, frame')
      BY <1>2, <3>1 DEF OrderInv
    <3> QED
      BY <2>1, <3>2, <3>3, <3>4, <3>5 DEF OrderInv
  <2> QED
    BY <1>6, <2>2, <2>3, <2>4 DEF SpiEnd, SpiAbort
<1>7. CASE InpktPost
  <2>1. frame' = 0 /\ UNCHANGED <<inp, rx, arrived>> /\ frame # 0
    BY <1>1, <1>7 DEF InpktPost, Taken, Refused, PollReturn, Carries, device
  <2> DEFINE m == [p |-> netp, f |-> frame]
  <2>2. m \in Msgs /\ m.f = frame
    BY <1>1, <1>7 DEF InpktPost, Carries, PacketTypeOK, Msgs, Junk
  <2>3. CASE mbox' = Append(mbox, m)
    <3> HIDE DEF m
    <3>1. \A i \in DOMAIN mbox' : \/ i \in DOMAIN mbox /\ i < Len(mbox) + 1 /\ mbox'[i] = mbox[i]
                                  \/ i = Len(mbox) + 1 /\ mbox'[i] = m
      BY <1>2, <2>2, <2>3, AppendAt
    <3>2. \A i \in DOMAIN mbox' : i \in Nat
      BY <1>2, <3>1
    <3>3. \A i, j \in DOMAIN mbox' : i < j => Before(mbox'[i].f, mbox'[j].f)
      <4> TAKE i, j \in DOMAIN mbox'
      <4> HAVE i < j
      <4>1. i \in DOMAIN mbox /\ mbox'[i] = mbox[i] /\ Before(mbox[i].f, frame)
        BY <1>2, <2>1, <3>1, <3>2 DEF OrderInv
      <4> QED
        BY <2>2, <3>1, <4>1 DEF OrderInv
    <3>4. \A i \in DOMAIN mbox' : /\ \A j \in DOMAIN rx : Before(mbox'[i].f, rx[j])
                                  /\ mbox'[i].f \in (0..arrived) \cup {Junk} /\ Before(inp.f, mbox'[i].f)
      BY <2>1, <2>2, <3>1 DEF OrderInv
    <3>5. \A j \in DOMAIN rx : Before(0, rx[j])
      BY <1>2 DEF Before
    <3>6. 0 \in 0..arrived
      BY <1>2
    <3> QED
      BY <2>1, <3>3, <3>4, <3>5, <3>6 DEF OrderInv
  <2> QED
    BY <1>4, <1>7, <2>1, <2>3 DEF InpktPost, PostTo
<1>8. CASE Fetch
  <2>1. UNCHANGED <<frame, rx, arrived>>
    BY <1>8 DEF Fetch, device
  <2>2. CASE mbox # <<>> /\ inp' = Head(mbox) /\ mbox' = Tail(mbox)
    <3>1. /\ 1 \in DOMAIN mbox /\ inp' = mbox[1]
          /\ \A i \in DOMAIN mbox' : /\ i \in Nat /\ i + 1 \in DOMAIN mbox /\ 1 < i + 1
                                     /\ mbox'[i] = mbox[i + 1]
      BY <1>2, <2>2, TailAt
    <3>2. \A i, j \in DOMAIN mbox' : i < j => Before(mbox'[i].f, mbox'[j].f)
      <4> TAKE i, j \in DOMAIN mbox'
      <4> HAVE i < j
      <4>1. i + 1 < j + 1
        BY <3>1
      <4> QED
        BY <3>1, <4>1 DEF OrderInv
    <3>3. \A i \in DOMAIN mbox' : /\ frame # 0 => Before(mbox'[i].f, frame)
                                  /\ \A j \in DOMAIN rx : Before(mbox'[i].f, rx[j])
                                  /\ mbox'[i].f \in (0..arrived) \cup {Junk} /\ Before(inp'.f, mbox'[i].f)
      BY <3>1 DEF OrderInv
    <3>4. /\ frame # 0 => Before(inp'.f, frame)
          /\ inp'.f \in (0..arrived) \cup {Junk} /\ \A j \in DOMAIN rx : Before(inp'.f, rx[j])
      BY <3>1 DEF OrderInv
    <3> QED
      BY <2>1, <3>2, <3>3, <3>4 DEF OrderInv
  <2> QED
    BY <1>3, <1>8, <2>1, <2>2 DEF Fetch
<1>9. CASE HandleDone
  <2>1. inp'.f = 0 \/ inp' = inp
    BY <1>9, MsgFacts DEF HandleDone
  <2>2. UNCHANGED <<frame, rx, arrived, mbox>>
    BY <1>9 DEF HandleDone, device
  <2>3. /\ \A i \in DOMAIN mbox : Before(0, mbox[i].f)
        /\ frame # 0 => Before(0, frame)
        /\ \A i \in DOMAIN rx : Before(0, rx[i])
    BY <1>2 DEF Before
  <2>4. 0 \in 0..arrived
    BY <1>2
  <2> QED
    BY <2>1, <2>2, <2>3, <2>4 DEF OrderInv
<1>10. CASE PbufAlloc \/ InpktHead \/ InpktTake \/ Give(Net) \/ Give(Tcpip)
  BY <1>3, <1>4, <1>10 DEF PbufAlloc, InpktHead, InpktTake, Give, InpktLink, InpktGive, Refused,
                           PollReturn, device
<1>11. ASSUME NEW t \in Threads,
              SpiStart(t) \/ AdinRelease(t) \/ Output(t) \/ AdinWait(t) \/ LockCore(t)
       PROVE  OrderInv'
  BY <1>3, <1>11 DEF SpiStart, AdinRelease, Output, AdinWait, LockCore, packets, device
<1>12. CASE InitDone \/ NextPoll \/ Timeouts \/ FetchBegin
  BY <1>3, <1>12 DEF InitDone, NextPoll, Timeouts, FetchBegin, packets, device
<1>13. ASSUME NEW t \in Tasks, Call(t) \/ Return(t) \/ Free(t) PROVE OrderInv'
  BY <1>3, <1>13 DEF Call, Return, Free, packets, device
<1>14. CASE UNCHANGED vars
  BY <1>3, <1>14 DEF vars, packets, device
<1> QED
  BY <1>5, <1>6, <1>7, <1>8, <1>9, <1>10, <1>11, <1>12, <1>13, <1>14
     DEF Next, NetStep, TcpipStep, Driver

\* Order place by place is order in the list of all pending frames.
LEMMA OrderInOrder == PacketTypeOK /\ OrderInv => InOrder
<1> SUFFICES ASSUME PacketTypeOK, OrderInv PROVE InOrder
  OBVIOUS
<1> DEFINE A == IF inp = NoMsg THEN <<>> ELSE <<inp.f>>
           B == [i \in DOMAIN mbox |-> mbox[i].f]
           C == IF frame = 0 THEN <<>> ELSE <<frame>>
<1>1. A \in Seq(Int) /\ Increasing(A) /\ \A i \in DOMAIN A : A[i] = inp.f
  BY MsgFacts DEF PacketTypeOK, Increasing
<1>2. C \in Seq(Int) /\ Increasing(C) /\ \A i \in DOMAIN C : C[i] = frame /\ frame # 0
  BY DEF PacketTypeOK, Increasing
<1>3. /\ DOMAIN B = DOMAIN mbox /\ \A i \in DOMAIN mbox : B[i] = mbox[i].f
      /\ Len(mbox) \in Nat /\ DOMAIN mbox = 1..Len(mbox)
  BY DEF PacketTypeOK
<1>4. B \in Seq(Int) /\ rx \in Seq(Int)
  <2>1. \A i \in 1..Len(mbox) : mbox[i].f \in Int
    BY MsgFacts DEF PacketTypeOK
  <2>2. B \in Seq(Int)
    BY <1>3, <2>1
  <2>3. rx \in Seq(Int)
    BY SeqMonotonic, 1..MaxFrames \subseteq Int DEF PacketTypeOK
  <2> QED
    BY <2>2, <2>3
<1> HIDE DEF A, B, C
<1>5. Increasing(B) /\ Increasing(rx)
  BY <1>3 DEF Increasing, OrderInv, Before
<1>6. Below(A, B) /\ Below(A, C) /\ Below(A, rx) /\ Below(B, C) /\ Below(B, rx) /\ Below(C, rx)
  BY <1>1, <1>2, <1>3 DEF Below, OrderInv
<1>7. (A \o B) \in Seq(Int) /\ Increasing(A \o B) /\ Below(A \o B, C) /\ Below(A \o B, rx)
  BY <1>1, <1>2, <1>4, <1>5, <1>6, ConcatAt, IncreasingConcat, BelowConcat
<1> DEFINE D == A \o B
<1>8. D \in Seq(Int) /\ Increasing(D) /\ Below(D, C) /\ Below(D, rx)
  BY <1>7
<1> HIDE DEF D
<1>9. (D \o C) \in Seq(Int) /\ Increasing(D \o C) /\ Below(D \o C, rx)
  BY <1>2, <1>4, <1>6, <1>8, ConcatAt, IncreasingConcat, BelowConcat
<1> DEFINE E == D \o C
<1>10. E \in Seq(Int) /\ Increasing(E) /\ Below(E, rx)
  BY <1>9
<1> HIDE DEF E
<1>11. Increasing(E \o rx)
  BY <1>4, <1>5, <1>10, IncreasingConcat
<1> QED
  BY <1>11 DEF InOrder, Increasing, A, B, C, D, E

\* Frames reach ethernet_input in the order in which they came from the wire,
\* however the poll, the mailbox and tcpip_thread interleave and whatever is dropped
\* on the way (network.c:147-178, tcpip.c:132-168).
THEOREM FramesInOrder == Spec => []InOrder
<1>1. Init => OrderInv
  BY ConstantsOK, MsgFacts DEF Init, OrderInv
<1>2. LockInv /\ PacketInv /\ OrderInv => InOrder
  BY OrderInOrder DEF PacketInv
<1> QED
  BY <1>1, <1>2, PacketsOwned, NextOrder, PTL DEF Spec
=============================================================================

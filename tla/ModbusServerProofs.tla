------------------------- MODULE ModbusServerProofs -------------------------
(***************************************************************************)
(* Proofs about ModbusServer, for every number of slots, descriptors,      *)
(* connections and handler tasks.                                          *)
(***************************************************************************)
EXTENDS ModbusServer, TLAPS

(* The first slot and the first descriptor exist.                          *)
LEMMA ZeroInRange == 0 \in Slots /\ 0 \in Fds /\ 0 \in 0 .. MaxClients
  BY ServerAssumption DEF ServerAssumption, Slots, Fds

(* The first state is well typed ...                                       *)
LEMMA TypeInit == Init => TypeOK
<1> SUFFICES ASSUME Init PROVE TypeOK
  OBVIOUS
<1>1. socket \in [Slots -> Fds] /\ tslot \in [Tasks -> Slots] /\ tfd \in [Tasks -> Fds]
  BY ZeroInRange DEF Init
<1>2. tpc \in [Tasks -> TaskPcs]
  BY DEF Init, TaskPcs
<1>3. apc \in AcceptPcs /\ aslot \in 0 .. MaxClients /\ afd \in Fds
  BY ZeroInRange DEF Init, AcceptPcs
<1> QED
  BY <1>1, <1>2, <1>3 DEF Init, TypeOK

(* ... and every step keeps the types.                                     *)
LEMMA TypeStep == TypeOK /\ [Next]_vars => TypeOK'
<1> SUFFICES ASSUME TypeOK, [Next]_vars PROVE TypeOK'
  OBVIOUS
<1> USE DEF TypeOK, slotVars, accVars, taskVars, netVars, history
<1>1. ASSUME NEW c \in Conns, Peer(c) PROVE TypeOK'
  BY <1>1 DEF Peer, PeerConnect, PeerSend, PeerClose
<1>2. CASE StartServer
  BY <1>2, ZeroInRange DEF StartServer, ListenFd, AcceptPcs
<1>3. CASE StartFails
  BY <1>3 DEF StartFails, AcceptPcs
<1>4. ASSUME NEW c \in Conns, AcceptOk(c) PROVE TypeOK'
  BY <1>4, ZeroInRange DEF AcceptOk, AcceptPcs
<1>5. ASSUME NEW c \in Conns, AcceptAborted(c) PROVE TypeOK'
  BY <1>5 DEF AcceptAborted
<1>6. CASE AcceptBadSocket
  BY <1>6 DEF AcceptBadSocket, vars
<1>7. CASE ScanSlot
  BY <1>7, ServerAssumption DEF ServerAssumption, ScanSlot, AcceptPcs, Slots
<1>8. CASE ScanExhausted
  BY <1>8 DEF ScanExhausted
<1>9. CASE MarkConnected
  BY <1>9 DEF MarkConnected, AcceptPcs
<1>10. CASE SetSocket
  BY <1>10 DEF SetSocket, AcceptPcs
<1>11. ASSUME NEW t \in Tasks, CreateTask(t) PROVE TypeOK'
  BY <1>11, ZeroInRange DEF CreateTask, AcceptPcs, TaskPcs, HoldingPcs, ServingPcs
<1>12. CASE CreateTaskFails
  BY <1>12, ZeroInRange DEF CreateTaskFails, AcceptPcs
<1>13. ASSUME NEW t \in Tasks, Handler(t) PROVE TypeOK'
  <2> USE DEF TaskPcs, HoldingPcs, ServingPcs
  <2>1. CASE CallRecv(t)
    BY <2>1 DEF CallRecv
  <2>2. CASE RecvData(t)
    BY <2>2 DEF RecvData
  <2>3. CASE RecvEnd(t)
    BY <2>3 DEF RecvEnd
  <2>4. CASE Dispatch(t)
    BY <2>4 DEF Dispatch
  <2>5. CASE Reply(t)
    BY <2>5 DEF Reply
  <2>6. CASE CloseSocket(t)
    BY <2>6 DEF CloseSocket, EndedBy
  <2>7. CASE ClearConnected(t)
    BY <2>7 DEF ClearConnected
  <2>8. CASE ZeroSocket(t)
    BY <2>8, ZeroInRange DEF ZeroSocket, SocketInUse
  <2> QED
    BY <1>13, <2>1, <2>2, <2>3, <2>4, <2>5, <2>6, <2>7, <2>8 DEF Handler
<1>14. CASE UNCHANGED vars
  BY <1>14 DEF vars
<1> QED
  BY <1>1, <1>2, <1>3, <1>4, <1>5, <1>6, <1>7, <1>8, <1>9, <1>10, <1>11,
     <1>12, <1>13, <1>14 DEF Next, AcceptLoop, Accept

(* Every operation keeps the state within its types: in particular a task  *)
(* only uses slots of the table and descriptors of lwIP, and the index the *)
(* scan of lines 85-89 hands to the rest of the loop is in the table.      *)
THEOREM TypeCorrect == Spec => []TypeOK
  BY TypeInit, TypeStep, PTL DEF Spec

-----------------------------------------------------------------------------
(* The inductive invariant of the slot table.  Exclusion alone is not      *)
(* inductive: it also takes that the slot the loop has chosen is free until*)
(* it is marked, and that a lost slot has neither a task nor a reservation.*)
SlotInv ==
    /\ TypeOK
    /\ SlotExclusive
    /\ SlotAccounting
    /\ apc = "mark" => ~connected[aslot]
    /\ \A s \in garbage \cup orphaned :
         ~Reserved(s) /\ \A t \in Tasks : ~Holds(t, s)

(* A step that leaves alone the flags, the reservation and who holds what  *)
(* keeps the invariant.                                                    *)
LEMMA SlotInvStable ==
    ASSUME SlotInv, TypeOK',
           UNCHANGED <<connected, garbage, orphaned>>,
           \A t \in Tasks : Holding(t)' <=> Holding(t),
           \A t \in Tasks : Holding(t) => tslot'[t] = tslot[t],
           \A s \in Slots : Reserved(s)' <=> Reserved(s),
           apc' = "mark" => apc = "mark" /\ aslot' = aslot
    PROVE  SlotInv'
<1>1. \A t \in Tasks, s \in Slots : Holds(t, s)' <=> Holds(t, s)
  BY DEF Holds
<1>2. SlotExclusive'
  BY DEF SlotInv, SlotExclusive, TypeOK
<1>3. SlotAccounting'
  BY <1>1 DEF SlotInv, SlotAccounting
<1>4. \A s \in (garbage \cup orphaned)' :
        ~Reserved(s)' /\ \A t \in Tasks : ~Holds(t, s)'
  BY <1>1 DEF SlotInv, TypeOK
<1> QED
  BY <1>2, <1>3, <1>4 DEF SlotInv

(* A task that stays in the same part of its life keeps the invariant.     *)
LEMMA TaskStepStable ==
    ASSUME SlotInv, TypeOK', NEW t \in Tasks, NEW pc \in TaskPcs,
           tpc' = [tpc EXCEPT ![t] = pc],
           pc \in HoldingPcs <=> tpc[t] \in HoldingPcs,
           UNCHANGED <<connected, garbage, orphaned, apc, aslot>>,
           tslot' = tslot \/ (~Holding(t) /\ tslot' = [tslot EXCEPT ![t] = 0])
    PROVE  SlotInv'
<1>1. \A u \in Tasks : Holding(u)' <=> Holding(u)
  BY DEF Holding, SlotInv, TypeOK
<1>2. \A u \in Tasks : Holding(u) => tslot'[u] = tslot[u]
  BY DEF SlotInv, TypeOK
<1>3. \A s \in Slots : Reserved(s)' <=> Reserved(s)
  BY DEF Reserved
<1> QED
  BY <1>1, <1>2, <1>3, SlotInvStable

(* The accept loop moving between states that reserve nothing.             *)
LEMMA AcceptStepStable ==
    ASSUME SlotInv, TypeOK',
           UNCHANGED <<connected, garbage, orphaned, tpc, tslot>>,
           apc \notin {"setsock", "create"}, apc' \notin {"mark", "setsock", "create"}
    PROVE  SlotInv'
<1>1. \A u \in Tasks : Holding(u)' <=> Holding(u)
  BY DEF Holding
<1>2. \A s \in Slots : Reserved(s)' <=> Reserved(s)
  BY DEF Reserved
<1> QED
  BY <1>1, <1>2, SlotInvStable

(* The slot invariant holds in the first state ...                         *)
LEMMA SlotInvInit == Init => SlotInv
<1> SUFFICES ASSUME Init PROVE SlotInv
  OBVIOUS
<1>1. \A t \in Tasks : ~Holding(t)
  BY DEF Init, Holding, HoldingPcs, ServingPcs
<1>2. \A s \in Slots : ~Reserved(s)
  BY DEF Init, Reserved
<1> QED
  BY <1>1, <1>2, TypeInit DEF Init, SlotInv, SlotExclusive, SlotAccounting, Holds

(* ... and is kept by every step of the accept loop and of the tasks.      *)
LEMMA SlotInvStep == SlotInv /\ [Next]_vars => SlotInv'
<1> SUFFICES ASSUME SlotInv, [Next]_vars PROVE SlotInv'
  OBVIOUS
<1>0. TypeOK /\ TypeOK'
  BY TypeStep DEF SlotInv
<1> USE DEF slotVars, accVars, taskVars, netVars, history
<1>1. ASSUME NEW c \in Conns, Peer(c) PROVE SlotInv'
  BY <1>0, <1>1, SlotInvStable
     DEF Peer, PeerConnect, PeerSend, PeerClose, Holding, Reserved
<1>2. CASE StartServer \/ StartFails
  BY <1>0, <1>2, AcceptStepStable DEF StartServer, StartFails
<1>3. ASSUME NEW c \in Conns, Accept(c) PROVE SlotInv'
  BY <1>0, <1>3, AcceptStepStable DEF Accept, AcceptOk, AcceptAborted
<1>4. CASE AcceptBadSocket \/ UNCHANGED vars
  BY <1>0, <1>4, SlotInvStable DEF AcceptBadSocket, vars, Holding, Reserved
<1>5. CASE ScanSlot
  <2>1. CASE connected[aslot]
    BY <1>0, <1>5, <2>1, AcceptStepStable DEF ScanSlot
  <2>2. CASE ~connected[aslot]
    <3>1. UNCHANGED <<connected, garbage, orphaned, tpc, tslot, aslot>>
      BY <1>5, <2>2 DEF ScanSlot
    <3>2. /\ apc' = "mark" /\ aslot \in Slots
          /\ \A s \in Slots : ~Reserved(s) /\ ~Reserved(s)'
      BY <1>5, <2>2 DEF ScanSlot, Reserved
    <3>3. \A t \in Tasks : Holding(t)' <=> Holding(t)
      BY <3>1 DEF Holding
    <3>4. \A t \in Tasks, s \in Slots : Holds(t, s)' <=> Holds(t, s)
      BY <3>1, <3>3 DEF Holds
    <3>5. SlotExclusive'
      BY <1>0, <3>1, <3>2, <3>3 DEF SlotInv, SlotExclusive, TypeOK
    <3>6. SlotAccounting'
      BY <3>1, <3>2, <3>4 DEF SlotInv, SlotAccounting
    <3> QED
      BY <1>0, <2>2, <3>1, <3>2, <3>4, <3>5, <3>6 DEF SlotInv, TypeOK
  <2> QED
    BY <2>1, <2>2
<1>6. CASE ScanExhausted
  BY <1>0, <1>6, SlotInvStable DEF ScanExhausted, Holding, Reserved
<1>7. CASE MarkConnected
  <2>1. /\ apc = "mark" /\ apc' = "setsock" /\ aslot \in Slots
        /\ connected' = [connected EXCEPT ![aslot] = TRUE]
        /\ UNCHANGED <<garbage, orphaned, tpc, tslot, aslot>>
    BY <1>0, <1>7 DEF MarkConnected, TypeOK
  <2>2. ~connected[aslot]
    BY <2>1 DEF SlotInv
  <2>3. \A s \in Slots : ~Reserved(s) /\ (Reserved(s)' <=> s = aslot)
    BY <2>1 DEF Reserved
  <2>4. /\ \A t \in Tasks : Holding(t)' <=> Holding(t)
        /\ \A t \in Tasks, s \in Slots : Holds(t, s)' <=> Holds(t, s)
    BY <2>1 DEF Holding, Holds
  <2>5. ~(\E t \in Tasks : Holds(t, aslot)) /\ aslot \notin garbage \cup orphaned
    BY <2>1, <2>2 DEF SlotInv, SlotAccounting
  <2>6. SlotExclusive'
    BY <1>0, <2>1, <2>3, <2>4, <2>5 DEF SlotInv, SlotExclusive, Holds, TypeOK
  <2>7. SlotAccounting'
    BY <1>0, <2>1, <2>3, <2>4, <2>5 DEF SlotInv, SlotAccounting, TypeOK
  <2> QED
    BY <1>0, <2>1, <2>3, <2>4, <2>5, <2>6, <2>7 DEF SlotInv, TypeOK
<1>8. CASE SetSocket
  <2>1. /\ \A t \in Tasks : Holding(t)' <=> Holding(t)
        /\ \A s \in Slots : Reserved(s)' <=> Reserved(s)
    BY <1>8 DEF SetSocket, Holding, Reserved
  <2> QED
    BY <1>0, <1>8, <2>1, SlotInvStable DEF SetSocket
<1>9. ASSUME NEW t \in Tasks, CreateTask(t) PROVE SlotInv'
  <2>1. /\ apc = "create" /\ apc' = "accept" /\ aslot \in Slots /\ tpc[t] = "none"
        /\ tpc' = [tpc EXCEPT ![t] = "recv"]
        /\ tslot' = [tslot EXCEPT ![t] = aslot]
        /\ UNCHANGED <<connected, garbage, orphaned>>
    BY <1>0, <1>9 DEF CreateTask, TypeOK
  <2>2. ~Holding(t) /\ Holding(t)'
    BY <1>0, <2>1 DEF Holding, HoldingPcs, ServingPcs, TypeOK
  <2>3. \A u \in Tasks \ {t} : (Holding(u)' <=> Holding(u)) /\ tslot'[u] = tslot[u]
    BY <1>0, <2>1 DEF Holding, TypeOK
  <2>4. \A s \in Slots : (Reserved(s) <=> s = aslot) /\ ~Reserved(s)'
    BY <2>1 DEF Reserved
  <2>5. \A u \in Tasks, s \in Slots :
          Holds(u, s)' <=> Holds(u, s) \/ (u = t /\ s = aslot)
    BY <1>0, <2>1, <2>2, <2>3 DEF Holds, TypeOK
  <2>6. SlotExclusive'
    BY <1>0, <2>1, <2>2, <2>3, <2>4 DEF SlotInv, SlotExclusive, TypeOK
  <2>7. SlotAccounting'
    BY <2>1, <2>4, <2>5 DEF SlotInv, SlotAccounting
  <2>8. aslot \notin garbage \cup orphaned
    BY <2>1, <2>4 DEF SlotInv
  <2> QED
    BY <1>0, <2>1, <2>4, <2>5, <2>6, <2>7, <2>8 DEF SlotInv, TypeOK
<1>10. CASE CreateTaskFails
  <2>1. /\ apc = "create" /\ apc' = "accept" /\ aslot \in Slots
        /\ orphaned' = orphaned \cup {aslot}
        /\ UNCHANGED <<connected, garbage, tpc, tslot>>
    BY <1>0, <1>10 DEF CreateTaskFails, TypeOK
  <2>2. \A s \in Slots : (Reserved(s) <=> s = aslot) /\ ~Reserved(s)'
    BY <2>1 DEF Reserved
  <2>3. /\ \A u \in Tasks : Holding(u)' <=> Holding(u)
        /\ \A u \in Tasks, s \in Slots : Holds(u, s)' <=> Holds(u, s)
    BY <2>1 DEF Holding, Holds
  <2>4. SlotExclusive'
    BY <1>0, <2>1, <2>2, <2>3 DEF SlotInv, SlotExclusive, TypeOK
  <2>5. SlotAccounting'
    BY <2>1, <2>2, <2>3 DEF SlotInv, SlotAccounting
  <2>6. \A u \in Tasks : ~Holds(u, aslot)
    BY <2>1, <2>2 DEF SlotInv, SlotExclusive, Holds
  <2> QED
    BY <1>0, <2>1, <2>2, <2>3, <2>4, <2>5, <2>6 DEF SlotInv, TypeOK
<1>11. ASSUME NEW t \in Tasks, Handler(t) PROVE SlotInv'
  <2> USE DEF TaskPcs, HoldingPcs, ServingPcs
  <2>1. CASE CallRecv(t)
    BY <1>0, <2>1, TaskStepStable DEF CallRecv
  <2>2. CASE RecvData(t)
    BY <1>0, <2>2, TaskStepStable DEF RecvData
  <2>3. CASE RecvEnd(t)
    BY <1>0, <2>3, TaskStepStable DEF RecvEnd
  <2>4. CASE Dispatch(t)
    BY <1>0, <2>4, TaskStepStable DEF Dispatch
  <2>5. CASE Reply(t)
    BY <1>0, <2>5, TaskStepStable DEF Reply
  <2>6. CASE CloseSocket(t)
    BY <1>0, <2>6, TaskStepStable DEF CloseSocket
  <2>7. CASE ClearConnected(t)
    <3> DEFINE s == tslot[t]
    <3>1. /\ tpc[t] = "clear" /\ tpc' = [tpc EXCEPT ![t] = "zero"]
          /\ connected' = [connected EXCEPT ![s] = FALSE]
          /\ UNCHANGED <<tslot, apc, aslot, garbage, orphaned>>
      BY <2>7 DEF ClearConnected
    <3>2. s \in Slots /\ Holding(t) /\ ~Holding(t)'
      BY <1>0, <3>1 DEF Holding, TypeOK
    <3>3. \A u \in Tasks \ {t} : Holding(u)' <=> Holding(u)
      BY <1>0, <3>1 DEF Holding, TypeOK
    <3>4. \A r \in Slots : Reserved(r)' <=> Reserved(r)
      BY <3>1 DEF Reserved
    <3>5. /\ \A u \in Tasks : ~Holds(u, s)'
          /\ \A u \in Tasks, r \in Slots \ {s} : Holds(u, r)' <=> Holds(u, r)
      BY <3>1, <3>2, <3>3 DEF Holds, SlotInv, SlotExclusive
    <3>6. ~Reserved(s) /\ s \notin garbage \cup orphaned
      BY <3>2 DEF SlotInv, SlotExclusive, Holds
    <3>7. SlotExclusive'
      BY <1>0, <3>1, <3>2, <3>3, <3>4 DEF SlotInv, SlotExclusive, TypeOK
    <3>8. SlotAccounting'
      BY <1>0, <3>1, <3>2, <3>4, <3>5, <3>6 DEF SlotInv, SlotAccounting, TypeOK
    <3>9. apc' = "mark" => ~connected'[aslot']
      BY <1>0, <3>1, <3>2 DEF SlotInv, TypeOK
    <3> QED
      BY <1>0, <3>1, <3>4, <3>5, <3>7, <3>8, <3>9 DEF SlotInv, TypeOK
  <2>8. CASE ZeroSocket(t)
    BY <1>0, <2>8, TaskStepStable DEF ZeroSocket, Holding
  <2> QED
    BY <1>11, <2>1, <2>2, <2>3, <2>4, <2>5, <2>6, <2>7, <2>8 DEF Handler
<1> QED
  BY <1>1, <1>2, <1>3, <1>4, <1>5, <1>6, <1>7, <1>8, <1>9, <1>10, <1>11
     DEF Next, AcceptLoop

(* It holds always.                                                        *)
LEMMA SlotInvariant == Spec => []SlotInv
  BY SlotInvInit, SlotInvStep, PTL DEF Spec

(* However the accept loop and the handler tasks interleave, without any   *)
(* lock, no slot is ever held by two tasks, nor filled while it is held.   *)
THEOREM SlotsAreExclusive == Spec => []SlotExclusive
<1>1. SlotInv => SlotExclusive
  BY DEF SlotInv
<1> QED
  BY <1>1, SlotInvariant, PTL

(* A slot is lost only to the uninitialised table or to a failed creation. *)
THEOREM SlotsAreAccountedFor == Spec => []SlotAccounting
<1>1. SlotInv => SlotAccounting
  BY DEF SlotInv
<1> QED
  BY <1>1, SlotInvariant, PTL

-----------------------------------------------------------------------------
(* The inductive invariant of descriptors.  Its parts are what holds of    *)
(* lwIP's table whatever the server does (FdInv), of the socket the accept *)
(* loop has in hand (HandInv), and of the sockets of tasks (TaskInv).      *)
FdInv ==
    /\ \A f, g \in Fds : fds[f] \in Conns /\ fds[f] = fds[g] => f = g
    /\ \A f \in Fds : fds[f] \in Conns => conn[fds[f]] = "open"
    /\ apc = "start" => \A t \in Tasks : tpc[t] = "none"

InHand == apc \in {"scan", "mark", "setsock", "create"}

HandInv ==
    /\ apc \notin {"start", "returned"} => fds[ListenFd] = Listening
    /\ InHand => /\ fds[afd] \in Conns
                 /\ \A t \in Tasks : Serving(t) => socket[tslot[t]] # afd
    /\ apc = "create" => socket[aslot] = afd

TaskInv ==
    \A t \in Tasks :
        /\ Serving(t) => fds[socket[tslot[t]]] \in Conns
        /\ \A u \in Tasks :
             Serving(t) /\ Serving(u) /\ socket[tslot[t]] = socket[tslot[u]] => t = u
        /\ tpc[t] = "blocked" => tfd[t] = socket[tslot[t]]
        /\ tpc[t] = "dispatch" => fds[socket[tslot[t]]] = treq[t]
        /\ tpc[t] = "reply" => /\ tfd[t] = socket[tslot[t]]
                               /\ fds[tfd[t]] = treq[t]

SocketInv ==
    /\ SlotInv
    /\ FdInv
    /\ ~clobbered => HandInv /\ TaskInv /\ NoDescriptorLeak

(* The marks of a descriptor that is free or listening are no connections. *)
LEMMA NamesDiffer == Free \notin Conns /\ Listening \notin Conns /\ Free # Listening
  BY ServerAssumption DEF ServerAssumption, Free, Listening

(* The descriptor invariant holds in the first state ...                   *)
LEMMA SocketInvInit == Init => SocketInv
<1> SUFFICES ASSUME Init PROVE SocketInv
  OBVIOUS
<1>1. \A t \in Tasks : tpc[t] = "none" /\ ~Serving(t)
  BY DEF Init, Serving, ServingPcs
<1>2. \A f \in Fds : fds[f] \notin Conns
  BY NamesDiffer DEF Init
<1>3. apc = "start"
  BY DEF Init
<1> QED
  BY <1>1, <1>2, <1>3, SlotInvInit
     DEF SocketInv, FdInv, HandInv, InHand, TaskInv, NoDescriptorLeak

(* ... and is kept by every step.                                          *)
LEMMA SocketInvStep == SocketInv /\ [Next]_vars => SocketInv'
<1> SUFFICES ASSUME SocketInv, [Next]_vars PROVE SocketInv'
  OBVIOUS
<1>0. TypeOK /\ TypeOK' /\ SlotInv /\ SlotInv'
  BY TypeStep, SlotInvStep DEF SocketInv, SlotInv
<1> USE DEF slotVars, accVars, taskVars, netVars, history
<1>1. ASSUME NEW c \in Conns, Peer(c) PROVE SocketInv'
  <2>1. UNCHANGED <<slotVars, accVars, taskVars, fds, history>>
    BY <1>1 DEF Peer, PeerConnect, PeerSend, PeerClose
  <2>2. \A d \in Conns : conn[d] = "open" => conn'[d] = "open"
    BY <1>0, <1>1 DEF Peer, PeerConnect, PeerSend, PeerClose, TypeOK
  <2>3. FdInv'
    BY <1>0, <2>1, <2>2 DEF SocketInv, FdInv
  <2> QED
    BY <1>0, <2>1, <2>3 DEF SocketInv, HandInv, InHand, TaskInv, NoDescriptorLeak, Serving
<1>2. CASE StartServer
  <2>1. /\ apc = "start" /\ apc' = "accept" /\ fds' = [fds EXCEPT ![ListenFd] = Listening]
        /\ UNCHANGED <<slotVars, taskVars, conn, history>>
    BY <1>2 DEF StartServer
  <2>2. \A t \in Tasks : tpc[t] = "none" /\ tpc'[t] = "none" /\ ~Serving(t) /\ ~Serving(t)'
    BY <2>1 DEF SocketInv, FdInv, Serving, ServingPcs
  <2>3. ListenFd \in Fds /\ fds'[ListenFd] = Listening
        /\ \A f \in Fds \ {ListenFd} : fds'[f] = fds[f]
    BY <1>0, <2>1, ZeroInRange DEF TypeOK, ListenFd
  <2>4. FdInv'
    BY <1>0, <2>1, <2>2, <2>3, NamesDiffer DEF SocketInv, FdInv, TypeOK
  <2>5. ~clobbered' => HandInv' /\ TaskInv'
    BY <2>1, <2>2, <2>3 DEF HandInv, InHand, TaskInv
  <2>6. NoDescriptorLeak => NoDescriptorLeak'
    BY <2>1, <2>2, <2>3, NamesDiffer DEF NoDescriptorLeak
  <2> QED
    BY <1>0, <2>1, <2>4, <2>5, <2>6 DEF SocketInv
<1>3. CASE StartFails
  BY <1>0, <1>3
     DEF StartFails, SocketInv, FdInv, HandInv, InHand, TaskInv, NoDescriptorLeak, Serving
<1>4. ASSUME NEW c \in Conns, AcceptOk(c) PROVE SocketInv'
  <2>1. PICK f \in Fds : fds[f] = Free /\ fds' = [fds EXCEPT ![f] = c] /\ afd' = f
    BY <1>4 DEF AcceptOk
  <2>2. /\ apc = "accept" /\ apc' = "scan" /\ conn[c] = "queued"
        /\ conn' = [conn EXCEPT ![c] = "open"]
        /\ fds[ListenFd] = Listening
        /\ UNCHANGED <<slotVars, taskVars, history>>
    BY <1>4 DEF AcceptOk
  <2>3. fds'[f] = c /\ \A g \in Fds \ {f} : fds'[g] = fds[g]
    BY <1>0, <2>1 DEF TypeOK
  <2>4. \A g \in Fds : fds[g] # c
    BY <2>2 DEF SocketInv, FdInv
  <2>5. FdInv'
    BY <1>0, <2>1, <2>2, <2>3, <2>4 DEF SocketInv, FdInv, TypeOK
  <2>6. ListenFd \in Fds /\ ListenFd # f
    BY <2>1, <2>2, NamesDiffer, ZeroInRange DEF ListenFd
  <2>7. ASSUME ~clobbered' PROVE HandInv' /\ TaskInv' /\ NoDescriptorLeak'
    <3>1. HandInv /\ TaskInv /\ NoDescriptorLeak
      BY <2>2, <2>7 DEF SocketInv
    <3>2. \A t \in Tasks : /\ Serving(t)' <=> Serving(t)
                           /\ Serving(t) => socket[tslot[t]] # f
      BY <1>0, <2>1, <2>2, <3>1, NamesDiffer DEF TaskInv, Serving
    <3>3. HandInv'
      BY <2>1, <2>2, <2>3, <2>6, <3>2 DEF HandInv, InHand
    <3>4. \A t \in Tasks : socket[tslot[t]] \in Fds
      BY <1>0 DEF TypeOK
    <3>5. TaskInv'
      BY <2>2, <2>3, <3>1, <3>2, <3>4 DEF TaskInv, Serving, ServingPcs
    <3>6. NoDescriptorLeak'
      BY <2>1, <2>2, <2>3, <3>1, <3>2 DEF NoDescriptorLeak
    <3> QED
      BY <3>3, <3>5, <3>6
  <2> QED
    BY <1>0, <2>5, <2>7 DEF SocketInv
<1>5. ASSUME NEW c \in Conns, AcceptAborted(c) PROVE SocketInv'
  <2>1. UNCHANGED <<slotVars, accVars, taskVars, fds, history>>
    BY <1>5 DEF AcceptAborted
  <2>2. \A d \in Conns : conn[d] = "open" => conn'[d] = "open"
    BY <1>0, <1>5 DEF AcceptAborted, TypeOK
  <2>3. FdInv'
    BY <1>0, <2>1, <2>2 DEF SocketInv, FdInv
  <2> QED
    BY <1>0, <2>1, <2>3 DEF SocketInv, HandInv, InHand, TaskInv, NoDescriptorLeak, Serving
<1>6. CASE AcceptBadSocket \/ UNCHANGED vars
  BY <1>0, <1>6 DEF AcceptBadSocket, vars, SocketInv, FdInv, HandInv, InHand,
     TaskInv, NoDescriptorLeak, Serving
<1>7. CASE ScanSlot \/ ScanExhausted
  BY <1>0, <1>7 DEF ScanSlot, ScanExhausted, SocketInv, FdInv, HandInv, InHand,
     TaskInv, NoDescriptorLeak, Serving
<1>8. CASE MarkConnected
  BY <1>0, <1>8 DEF MarkConnected, SocketInv, FdInv, HandInv, InHand,
     TaskInv, NoDescriptorLeak, Serving
<1>9. CASE SetSocket
  <2>1. /\ apc = "setsock" /\ apc' = "create" /\ aslot \in Slots
        /\ socket' = [socket EXCEPT ![aslot] = afd]
        /\ UNCHANGED <<connected, aslot, afd, taskVars, fds, conn, history>>
    BY <1>0, <1>9 DEF SetSocket, TypeOK
  <2>2. /\ socket'[aslot] = afd
        /\ \A s \in Slots \ {aslot} : socket'[s] = socket[s]
    BY <1>0, <2>1 DEF TypeOK
  <2>3. Reserved(aslot) /\ aslot \notin orphaned /\ orphaned \subseteq Slots
    BY <1>0, <2>1 DEF Reserved, SlotInv, TypeOK
  <2>4. \A t \in Tasks : /\ Serving(t)' <=> Serving(t)
                         /\ Serving(t) => Holding(t)
                         /\ Serving(t) => tslot[t] # aslot /\ tslot[t] \in Slots
    BY <1>0, <2>1, <2>3 DEF Serving, Holding, HoldingPcs, SlotInv, SlotExclusive, TypeOK
  <2>5. \A t \in Tasks : Serving(t) => socket'[tslot[t]] = socket[tslot[t]]
    BY <2>2, <2>4
  <2>6. FdInv'
    BY <2>1 DEF SocketInv, FdInv
  <2>7. ASSUME ~clobbered' PROVE HandInv' /\ TaskInv' /\ NoDescriptorLeak'
    <3>1. HandInv /\ TaskInv /\ NoDescriptorLeak
      BY <2>1, <2>7 DEF SocketInv
    <3>2. HandInv'
      BY <2>1, <2>2, <2>4, <2>5, <3>1 DEF HandInv, InHand
    <3>3. TaskInv'
      BY <2>1, <2>4, <2>5, <3>1 DEF TaskInv, Serving, ServingPcs
    <3>4. NoDescriptorLeak'
      BY <2>1, <2>2, <2>3, <2>4, <2>5, <3>1 DEF NoDescriptorLeak
    <3> QED
      BY <3>2, <3>3, <3>4
  <2> QED
    BY <1>0, <2>6, <2>7 DEF SocketInv
<1>10. ASSUME NEW t \in Tasks, CreateTask(t) PROVE SocketInv'
  <2>1. /\ apc = "create" /\ apc' = "accept" /\ aslot \in Slots /\ tpc[t] = "none"
        /\ tpc' = [tpc EXCEPT ![t] = "recv"] /\ tslot' = [tslot EXCEPT ![t] = aslot]
        /\ UNCHANGED <<slotVars, tfd, treq, fds, conn, history>>
    BY <1>0, <1>10 DEF CreateTask, TypeOK
  <2>2. /\ tpc'[t] = "recv" /\ tslot'[t] = aslot /\ Serving(t)' /\ ~Serving(t)
        /\ \A u \in Tasks \ {t} : /\ tpc'[u] = tpc[u] /\ tslot'[u] = tslot[u]
                                  /\ Serving(u)' <=> Serving(u)
    BY <1>0, <2>1 DEF TypeOK, Serving, ServingPcs
  <2>3. FdInv'
    BY <2>1 DEF SocketInv, FdInv
  <2>4. ASSUME ~clobbered' PROVE HandInv' /\ TaskInv' /\ NoDescriptorLeak'
    <3>1. HandInv /\ TaskInv /\ NoDescriptorLeak
      BY <2>1, <2>4 DEF SocketInv
    <3>2. /\ socket[aslot] = afd /\ fds[afd] \in Conns
          /\ \A u \in Tasks : Serving(u) => socket[tslot[u]] # afd
      BY <2>1, <3>1 DEF HandInv, InHand
    <3>3. HandInv'
      BY <2>1, <3>1 DEF HandInv, InHand
    <3>4. TaskInv'
      BY <2>1, <2>2, <3>1, <3>2 DEF TaskInv
    <3>5. NoDescriptorLeak'
      BY <2>1, <2>2, <3>1, <3>2 DEF NoDescriptorLeak
    <3> QED
      BY <3>3, <3>4, <3>5
  <2> QED
    BY <1>0, <2>3, <2>4 DEF SocketInv
<1>11. CASE CreateTaskFails
  <2>1. /\ apc = "create" /\ apc' = "accept" /\ orphaned' = orphaned \cup {aslot}
        /\ UNCHANGED <<slotVars, taskVars, fds, conn, clobbered>>
    BY <1>11 DEF CreateTaskFails
  <2>2. \A t \in Tasks : Serving(t)' <=> Serving(t)
    BY <2>1 DEF Serving
  <2>3. FdInv'
    BY <2>1 DEF SocketInv, FdInv
  <2>4. ~clobbered' => HandInv' /\ TaskInv'
    BY <2>1, <2>2 DEF SocketInv, HandInv, InHand, TaskInv
  <2>5. ~clobbered' => NoDescriptorLeak'
    BY <2>1, <2>2 DEF SocketInv, HandInv, NoDescriptorLeak
  <2> QED
    BY <1>0, <2>3, <2>4, <2>5 DEF SocketInv
<1>12. ASSUME NEW t \in Tasks, CallRecv(t) \/ Dispatch(t) PROVE SocketInv'
  <2>1. /\ tpc' = [tpc EXCEPT ![t] = IF tpc[t] = "recv" THEN "blocked" ELSE "reply"]
        /\ tpc[t] \in {"recv", "dispatch"}
        /\ tfd' = [tfd EXCEPT ![t] = socket[tslot[t]]]
        /\ UNCHANGED <<slotVars, accVars, tslot, treq, fds, conn, history>>
    BY <1>12 DEF CallRecv, Dispatch
  <2>2. /\ \A u \in Tasks : Serving(u)' <=> Serving(u)
        /\ \A u \in Tasks \ {t} : tpc'[u] = tpc[u] /\ tfd'[u] = tfd[u]
    BY <1>0, <2>1 DEF Serving, ServingPcs, TypeOK
  <2>3. /\ tpc'[t] = IF tpc[t] = "recv" THEN "blocked" ELSE "reply"
        /\ tfd'[t] = socket[tslot[t]]
    BY <1>0, <2>1 DEF TypeOK
  <2>4. FdInv'
    BY <1>0, <2>1 DEF SocketInv, FdInv
  <2>5. ~clobbered' => HandInv' /\ NoDescriptorLeak'
    BY <2>1, <2>2 DEF SocketInv, HandInv, InHand, NoDescriptorLeak
  <2>6. ~clobbered' => TaskInv'
    BY <2>1, <2>2, <2>3 DEF SocketInv, TaskInv
  <2> QED
    BY <1>0, <2>4, <2>5, <2>6 DEF SocketInv
<1>13. ASSUME NEW t \in Tasks, RecvData(t) PROVE SocketInv'
  <2>1. /\ tpc[t] = "blocked" /\ tpc' = [tpc EXCEPT ![t] = "dispatch"]
        /\ treq' = [treq EXCEPT ![t] = fds[tfd[t]]]
        /\ UNCHANGED <<slotVars, accVars, tslot, tfd, fds, conn, history>>
    BY <1>13 DEF RecvData
  <2>2. /\ tpc'[t] = "dispatch" /\ treq'[t] = fds[tfd[t]]
        /\ \A u \in Tasks \ {t} : tpc'[u] = tpc[u] /\ treq'[u] = treq[u]
        /\ \A u \in Tasks : Serving(u)' <=> Serving(u)
    BY <1>0, <2>1 DEF Serving, ServingPcs, TypeOK
  <2>3. FdInv'
    BY <1>0, <2>1 DEF SocketInv, FdInv
  <2>4. ~clobbered' => HandInv' /\ NoDescriptorLeak'
    BY <2>1, <2>2 DEF SocketInv, HandInv, InHand, NoDescriptorLeak
  <2>5. ~clobbered' => TaskInv'
    BY <2>1, <2>2 DEF SocketInv, TaskInv
  <2> QED
    BY <1>0, <2>3, <2>4, <2>5 DEF SocketInv
<1>14. ASSUME NEW t \in Tasks, RecvEnd(t) \/ Reply(t) PROVE SocketInv'
  <2>1. /\ tpc[t] \in {"blocked", "reply"}
        /\ tpc' = [tpc EXCEPT ![t] = IF tpc[t] = "blocked" THEN "close" ELSE "recv"]
        /\ \A u \in Tasks \ {t} : treq'[u] = treq[u]
        /\ UNCHANGED <<slotVars, accVars, tslot, tfd, fds, conn, history>>
    BY <1>0, <1>14 DEF RecvEnd, Reply, TypeOK
  <2>2. /\ tpc'[t] \in {"close", "recv"}
        /\ \A u \in Tasks \ {t} : tpc'[u] = tpc[u]
        /\ \A u \in Tasks : Serving(u)' <=> Serving(u)
    BY <1>0, <2>1 DEF Serving, ServingPcs, TypeOK
  <2>3. FdInv'
    BY <1>0, <2>1 DEF SocketInv, FdInv
  <2>4. ~clobbered' => HandInv' /\ NoDescriptorLeak'
    BY <2>1, <2>2 DEF SocketInv, HandInv, InHand, NoDescriptorLeak
  <2>5. ~clobbered' => TaskInv'
    BY <2>1, <2>2 DEF SocketInv, TaskInv
  <2> QED
    BY <1>0, <2>3, <2>4, <2>5 DEF SocketInv
<1>15. ASSUME NEW t \in Tasks, CloseSocket(t) PROVE SocketInv'
  <2> DEFINE f == socket[tslot[t]]
  <2>1. /\ tpc[t] = "close" /\ tpc' = [tpc EXCEPT ![t] = "clear"]
        /\ fds' = [fds EXCEPT ![f] = Free]
        /\ conn' = [c \in Conns |-> IF c \in EndedBy(f) THEN "idle" ELSE conn[c]]
        /\ UNCHANGED <<slotVars, accVars, tslot, tfd, treq, history>>
    BY <1>15 DEF CloseSocket
  <2>2. /\ f \in Fds /\ fds'[f] = Free
        /\ \A g \in Fds \ {f} : fds'[g] = fds[g]
    BY <1>0, <2>1 DEF TypeOK
  <2>3. /\ Serving(t) /\ ~Serving(t)' /\ tpc'[t] = "clear"
        /\ \A u \in Tasks \ {t} : tpc'[u] = tpc[u] /\ (Serving(u)' <=> Serving(u))
    BY <1>0, <2>1 DEF Serving, ServingPcs, TypeOK
  <2>4. FdInv'
    <3>1. \A g, h \in Fds : fds'[g] \in Conns /\ fds'[g] = fds'[h] => g = h
      BY <2>2, NamesDiffer DEF SocketInv, FdInv
    <3>2. \A g \in Fds : fds'[g] \in Conns => fds'[g] \notin EndedBy(f)
      BY <2>2, NamesDiffer DEF SocketInv, FdInv, EndedBy
    <3>3. \A g \in Fds : fds'[g] \in Conns => conn'[fds'[g]] = "open"
      BY <2>1, <2>2, <3>2, NamesDiffer DEF SocketInv, FdInv
    <3>4. apc' # "start"
      BY <2>1 DEF SocketInv, FdInv
    <3> QED
      BY <3>1, <3>3, <3>4 DEF FdInv
  <2>5. ASSUME ~clobbered' PROVE HandInv' /\ TaskInv' /\ NoDescriptorLeak'
    <3>1. HandInv /\ TaskInv /\ NoDescriptorLeak
      BY <2>1, <2>5 DEF SocketInv
    <3>2. fds[f] \in Conns /\ \A u \in Tasks \ {t} : Serving(u) => socket[tslot[u]] # f
      BY <2>3, <3>1 DEF TaskInv
    <3>3. ListenFd \in Fds
      BY ZeroInRange DEF ListenFd
    <3>4. HandInv'
      BY <1>0, <2>1, <2>2, <2>3, <3>1, <3>2, <3>3, NamesDiffer DEF HandInv, InHand, TypeOK
    <3>5. \A u \in Tasks \ {t} : Serving(u) => /\ socket[tslot[u]] \in Fds
                                               /\ fds'[socket[tslot[u]]] = fds[socket[tslot[u]]]
      BY <1>0, <2>2, <3>2 DEF TypeOK
    <3>6. TaskInv'
      BY <2>1, <2>3, <3>1, <3>5 DEF TaskInv, Serving, ServingPcs
    <3>7. NoDescriptorLeak'
      BY <2>1, <2>2, <2>3, <3>1, NamesDiffer DEF NoDescriptorLeak
    <3> QED
      BY <3>4, <3>6, <3>7
  <2> QED
    BY <1>0, <2>4, <2>5 DEF SocketInv
<1>16. ASSUME NEW t \in Tasks, ClearConnected(t) PROVE SocketInv'
  <2>1. /\ tpc[t] = "clear" /\ tpc' = [tpc EXCEPT ![t] = "zero"]
        /\ UNCHANGED <<socket, accVars, tslot, tfd, treq, fds, conn, history>>
    BY <1>16 DEF ClearConnected
  <2>2. /\ tpc'[t] = "zero" /\ \A u \in Tasks \ {t} : tpc'[u] = tpc[u]
        /\ \A u \in Tasks : Serving(u)' <=> Serving(u)
    BY <1>0, <2>1 DEF Serving, ServingPcs, TypeOK
  <2>3. FdInv'
    BY <1>0, <2>1 DEF SocketInv, FdInv
  <2>4. ~clobbered' => HandInv' /\ TaskInv' /\ NoDescriptorLeak'
    BY <2>1, <2>2 DEF SocketInv, HandInv, InHand, TaskInv, NoDescriptorLeak
  <2> QED
    BY <1>0, <2>3, <2>4 DEF SocketInv
<1>17. ASSUME NEW t \in Tasks, ZeroSocket(t) PROVE SocketInv'
  <2> DEFINE s == tslot[t]
  <2>1. /\ tpc[t] = "zero" /\ tpc' = [tpc EXCEPT ![t] = "none"]
        /\ socket' = [socket EXCEPT ![s] = 0]
        /\ clobbered' = (clobbered \/ SocketInUse(s))
        /\ UNCHANGED <<connected, accVars, fds, conn, orphaned>>
        /\ \A u \in Tasks \ {t} :
             tslot'[u] = tslot[u] /\ tfd'[u] = tfd[u] /\ treq'[u] = treq[u]
    BY <1>0, <1>17 DEF ZeroSocket, TypeOK
  <2>2. /\ tpc'[t] = "none" /\ ~Serving(t) /\ ~Serving(t)'
        /\ \A u \in Tasks \ {t} : tpc'[u] = tpc[u] /\ (Serving(u)' <=> Serving(u))
    BY <1>0, <2>1 DEF Serving, ServingPcs, TypeOK
  <2>3. s \in Slots /\ \A r \in Slots \ {s} : socket'[r] = socket[r]
    BY <1>0, <2>1 DEF TypeOK
  <2>4. FdInv'
    BY <1>0, <2>1, <2>2 DEF SocketInv, FdInv
  <2>5. ASSUME ~clobbered' PROVE HandInv' /\ TaskInv' /\ NoDescriptorLeak'
    <3>1. ~clobbered /\ HandInv /\ TaskInv /\ NoDescriptorLeak /\ ~SocketInUse(s)
      BY <2>1, <2>5 DEF SocketInv, SocketInUse
    <3>2. ~connected[s] \/ (apc = "setsock" /\ aslot = s)
      BY <3>1 DEF SocketInUse
    <3>3. \A u \in Tasks : Serving(u) => tslot[u] # s /\ tslot[u] \in Slots
      BY <1>0, <2>3, <3>2
         DEF SlotInv, SlotAccounting, SlotExclusive, Holds, Holding, HoldingPcs,
             Serving, Reserved, TypeOK
    <3>4. s \notin orphaned /\ orphaned \subseteq Slots
      BY <1>0, <2>3, <3>2 DEF SlotInv, SlotAccounting, Reserved, TypeOK
    <3>5. apc = "create" => aslot # s /\ aslot \in Slots
      BY <1>0, <2>3, <3>2 DEF SlotInv, SlotAccounting, Reserved, TypeOK
    <3>6. \A u \in Tasks \ {t} : Serving(u) => socket'[tslot'[u]] = socket[tslot[u]]
      BY <2>1, <2>3, <3>3
    <3>7. HandInv'
      BY <2>1, <2>2, <2>3, <3>1, <3>5, <3>6 DEF HandInv, InHand
    <3>8. TaskInv'
      BY <2>1, <2>2, <3>1, <3>6 DEF TaskInv, Serving, ServingPcs
    <3>9. NoDescriptorLeak'
      BY <2>1, <2>2, <2>3, <3>1, <3>4, <3>6 DEF NoDescriptorLeak
    <3> QED
      BY <3>7, <3>8, <3>9
  <2> QED
    BY <1>0, <2>4, <2>5 DEF SocketInv
<1> QED
  BY <1>1, <1>2, <1>3, <1>4, <1>5, <1>6, <1>7, <1>8, <1>9, <1>10, <1>11, <1>12,
     <1>13, <1>14, <1>15, <1>16, <1>17 DEF Next, AcceptLoop, Accept, Handler

(* It holds always.                                                        *)
LEMMA SocketInvariant == Spec => []SocketInv
  BY SocketInvInit, SocketInvStep, PTL DEF Spec

(* Unless line 109 zeroes a slot that is already reused, every serving     *)
(* task owns the descriptor of one connection, which nobody else has.      *)
THEOREM SocketsAreOwned == Spec => []OwnSocket
<1>1. SocketInv => OwnSocket
  BY DEF SocketInv, TaskInv, OwnSocket
<1> QED
  BY <1>1, SocketInvariant, PTL

(* ... every reply goes to the connection that sent the request.           *)
THEOREM RepliesReachRequester == Spec => []ReplyToRequester
<1>1. SocketInv => ReplyToRequester
  BY DEF SocketInv, TaskInv, ReplyToRequester
<1> QED
  BY <1>1, SocketInvariant, PTL

(* ... the listening socket stays open.                                    *)
THEOREM ListenerStaysOpen == Spec => []ListenerOpen
<1>1. SocketInv => ListenerOpen
  BY DEF SocketInv, HandInv, ListenerOpen
<1> QED
  BY <1>1, SocketInvariant, PTL

(* ... and no descriptor leaks but by a task that was never created.       *)
THEOREM DescriptorsAreAccountedFor == Spec => []NoDescriptorLeak
<1>1. SocketInv => NoDescriptorLeak
  BY DEF SocketInv, NoDescriptorLeak
<1> QED
  BY <1>1, SocketInvariant, PTL

-----------------------------------------------------------------------------
(* The slot table implements SlotPool.                                     *)

(* What the slot invariant says of the state that SlotPool sees.           *)
LEMMA SlotStateIs ==
    ASSUME SlotInv, NEW s \in Slots
    PROVE  /\ (\E t \in Tasks : Holds(t, s)) => SlotState[s] = "serving"
           /\ Reserved(s) => SlotState[s] = "reserved"
           /\ s \in garbage \cup orphaned => SlotState[s] = "stuck"
           /\ ~connected[s] => SlotState[s] = "free"
           /\ SlotState[s] = "reserved" => Reserved(s)
<1>1. Reserved(s) => ~ \E t \in Tasks : Holds(t, s)
  BY DEF SlotInv, SlotExclusive, Holds
<1>2. s \in garbage \cup orphaned => ~Reserved(s) /\ ~ \E t \in Tasks : Holds(t, s)
  BY DEF SlotInv
<1>3. ~connected[s] => /\ ~ \E t \in Tasks : Holds(t, s)
                       /\ ~Reserved(s)
                       /\ s \notin garbage \cup orphaned
  BY DEF SlotInv, SlotAccounting
<1> HIDE DEF SlotInv
<1> QED
  BY <1>1, <1>2, <1>3 DEF SlotState, StateOf

(* A step that changes no slot's holder, reservation or loss is a stutter. *)
LEMMA PoolStutter ==
    ASSUME SlotInv, UNCHANGED <<garbage, orphaned>>,
           \A t \in Tasks, s \in Slots : Holds(t, s)' <=> Holds(t, s),
           \A s \in Slots : Reserved(s)' <=> Reserved(s)
    PROVE  SlotState' = SlotState
<1>1. \A s \in Slots : StateOf(s)' = StateOf(s)
  BY DEF StateOf
<1> QED
  BY <1>1 DEF SlotState

(* A step that only concerns slot s moves SlotPool from one state of s to  *)
(* another.                                                                *)
LEMMA PoolMove ==
    ASSUME NEW s \in Slots, NEW from, NEW to,
           SlotState[s] = from, SlotState'[s] = to,
           \A r \in Slots \ {s} : SlotState'[r] = SlotState[r]
    PROVE  Pool!Move(s, from, to)
<1>1. SlotState' = [SlotState EXCEPT ![s] = to]
  BY DEF SlotState
<1> QED
  BY <1>1 DEF Pool!Move

(* The first state of the table is one of SlotPool ...                     *)
LEMMA PoolInit == Init => Pool!Init
<1> SUFFICES ASSUME Init PROVE Pool!Init
  OBVIOUS
<1>1. SlotInv
  BY SlotInvInit
<1>2. \A s \in Slots : SlotState[s] \in {"free", "stuck"}
  <2> SUFFICES ASSUME NEW s \in Slots PROVE SlotState[s] \in {"free", "stuck"}
    OBVIOUS
  <2>1. connected[s] \/ ~connected[s]
    OBVIOUS
  <2>2. connected[s] => s \in garbage
    BY DEF Init
  <2> QED
    BY <1>1, <2>1, <2>2, SlotStateIs
<1>3. SlotState = [s \in Slots |-> SlotState[s]]
  BY DEF SlotState
<1> QED
  BY <1>2, <1>3 DEF Pool!Init

(* ... and every step of the server is one of SlotPool, or a stutter.      *)
LEMMA PoolStep == SlotInv /\ SlotInv' /\ [Next]_vars => [Pool!Next]_SlotState
<1> SUFFICES ASSUME SlotInv, SlotInv', [Next]_vars PROVE [Pool!Next]_SlotState
  OBVIOUS
<1>0. TypeOK /\ TypeOK'
  BY DEF SlotInv
<1> USE DEF slotVars, accVars, taskVars, netVars, history
<1>1. ASSUME NEW c \in Conns, Peer(c) \/ Accept(c) PROVE SlotState' = SlotState
  BY <1>1, PoolStutter DEF Peer, PeerConnect, PeerSend, PeerClose, Accept, AcceptOk,
     AcceptAborted, Holds, Holding, Reserved
<1>2. CASE \/ StartServer \/ StartFails \/ AcceptBadSocket \/ ScanSlot
           \/ ScanExhausted \/ SetSocket \/ UNCHANGED vars
  <2>1. UNCHANGED <<garbage, orphaned, tpc, tslot>>
    BY <1>2 DEF StartServer, StartFails, AcceptBadSocket, ScanSlot, ScanExhausted,
       SetSocket, vars
  <2>2. \A s \in Slots : Reserved(s)' <=> Reserved(s)
    BY <1>2 DEF StartServer, StartFails, AcceptBadSocket, ScanSlot, ScanExhausted,
       SetSocket, vars, Reserved
  <2>3. \A t \in Tasks, s \in Slots : Holds(t, s)' <=> Holds(t, s)
    BY <2>1 DEF Holds, Holding
  <2>4. SlotState' = SlotState
    BY <2>1, <2>2, <2>3, PoolStutter
  <2> QED
    BY <2>4
<1>3. CASE MarkConnected
  <2>1. PICK s \in Slots : s = aslot
    BY <1>0, <1>3 DEF MarkConnected, TypeOK
  <2>2. /\ apc = "mark" /\ apc' = "setsock" /\ aslot' = s
        /\ UNCHANGED <<garbage, orphaned, tpc, tslot>>
    BY <1>3, <2>1 DEF MarkConnected
  <2>3. SlotState[s] = "free" /\ \A r \in Slots : SlotState[r] # "reserved"
    BY <2>1, <2>2, SlotStateIs DEF SlotInv, Reserved
  <2>4. \A r \in Slots \ {s} : StateOf(r)' = StateOf(r)
    BY <2>2, <2>3 DEF StateOf, Reserved, Holds, Holding
  <2>5. /\ Reserved(s)' /\ ~ \E t \in Tasks : Holds(t, s)'
        /\ s \notin garbage' \cup orphaned'
    BY <2>2 DEF Reserved, SlotInv, SlotExclusive, Holds
  <2>6. StateOf(s)' = "reserved"
    BY <2>5 DEF StateOf
  <2>7. Pool!Move(s, "free", "reserved")
    BY <2>3, <2>4, <2>6, PoolMove DEF SlotState
  <2> QED
    BY <2>3, <2>7 DEF Pool!Next, Pool!Reserve
<1>4. ASSUME NEW t \in Tasks, CreateTask(t) PROVE [Pool!Next]_SlotState
  <2>0. PICK s \in Slots : s = aslot
    BY <1>0, <1>4 DEF CreateTask, TypeOK
  <2>1. /\ apc = "create" /\ apc' = "accept" /\ s = aslot /\ tpc[t] = "none"
        /\ tpc' = [tpc EXCEPT ![t] = "recv"]
        /\ tslot' = [tslot EXCEPT ![t] = s]
        /\ UNCHANGED <<garbage, orphaned>>
    BY <1>0, <1>4, <2>0 DEF CreateTask, TypeOK
  <2>2. SlotState[s] = "reserved"
    BY <2>1, SlotStateIs DEF Reserved
  <2>3. Holds(t, s)'
    BY <1>0, <2>1 DEF Holds, Holding, HoldingPcs, ServingPcs, TypeOK
  <2>4. StateOf(s)' = "serving"
    <3>1. ~Reserved(s)' /\ s \notin garbage' \cup orphaned'
      BY <2>3 DEF SlotInv, SlotExclusive, Holds
    <3> QED
      BY <2>3, <3>1 DEF StateOf
  <2>5. \A u \in Tasks, r \in Slots \ {s} : Holds(u, r)' <=> Holds(u, r)
    BY <1>0, <2>1 DEF Holds, Holding, HoldingPcs, ServingPcs, TypeOK
  <2>6. \A r \in Slots \ {s} : ~Reserved(r) /\ ~Reserved(r)'
    BY <2>1 DEF Reserved
  <2>7. \A r \in Slots \ {s} : StateOf(r)' = StateOf(r)
    BY <2>1, <2>5, <2>6 DEF StateOf
  <2>8. Pool!Move(s, "reserved", "serving")
    BY <2>1, <2>2, <2>4, <2>7, PoolMove DEF SlotState
  <2> QED
    BY <2>1, <2>8 DEF Pool!Next, Pool!Serve
<1>5. CASE CreateTaskFails
  <2>1. /\ apc = "create" /\ apc' = "accept" /\ aslot \in Slots
        /\ orphaned' = orphaned \cup {aslot}
        /\ UNCHANGED <<garbage, tpc, tslot>>
    BY <1>0, <1>5 DEF CreateTaskFails, TypeOK
  <2>2. SlotState[aslot] = "reserved" /\ ~ \E u \in Tasks : Holds(u, aslot)
    BY <2>1, SlotStateIs DEF Reserved, SlotInv, SlotExclusive, Holds
  <2>3. \A u \in Tasks, r \in Slots : Holds(u, r)' <=> Holds(u, r)
    BY <2>1 DEF Holds, Holding
  <2>4. \A r \in Slots : ~Reserved(r)' /\ (Reserved(r) => r = aslot)
    BY <2>1 DEF Reserved
  <2>5. SlotState'[aslot] = "stuck"
    BY <2>1, <2>2, <2>3, <2>4 DEF SlotState, StateOf
  <2>6. \A r \in Slots \ {aslot} : StateOf(r)' = StateOf(r)
    BY <2>1, <2>3, <2>4 DEF StateOf
  <2>7. Pool!Move(aslot, "reserved", "stuck")
    BY <2>1, <2>2, <2>5, <2>6, PoolMove DEF SlotState
  <2> QED
    BY <2>1, <2>7 DEF Pool!Next, Pool!Abandon
<1>6. ASSUME NEW t \in Tasks, Handler(t), ~ClearConnected(t) PROVE SlotState' = SlotState
  <2>1. UNCHANGED <<garbage, orphaned, apc, aslot>>
    BY <1>6 DEF Handler, CallRecv, RecvData, RecvEnd, Dispatch, Reply, CloseSocket,
       ZeroSocket
  <2>2. /\ \A u \in Tasks \ {t} : tpc'[u] = tpc[u] /\ tslot'[u] = tslot[u]
        /\ tpc'[t] \in HoldingPcs <=> tpc[t] \in HoldingPcs
        /\ tpc[t] \in HoldingPcs => tslot'[t] = tslot[t]
    <3> USE DEF HoldingPcs, ServingPcs, TypeOK
    <3>1. CASE CallRecv(t) \/ RecvData(t) \/ RecvEnd(t)
      BY <1>0, <3>1 DEF CallRecv, RecvData, RecvEnd
    <3>2. CASE Dispatch(t) \/ Reply(t) \/ CloseSocket(t)
      BY <1>0, <3>2 DEF Dispatch, Reply, CloseSocket
    <3>3. CASE ZeroSocket(t)
      BY <1>0, <3>3 DEF ZeroSocket
    <3> QED
      BY <1>6, <3>1, <3>2, <3>3 DEF Handler
  <2>3. \A u \in Tasks, s \in Slots : Holds(u, s)' <=> Holds(u, s)
    BY <2>2 DEF Holds, Holding
  <2>4. \A s \in Slots : Reserved(s)' <=> Reserved(s)
    BY <2>1 DEF Reserved
  <2> QED
    BY <2>1, <2>3, <2>4, PoolStutter
<1>7. ASSUME NEW t \in Tasks, ClearConnected(t) PROVE [Pool!Next]_SlotState
  <2>0. PICK s \in Slots : s = tslot[t]
    BY <1>0 DEF TypeOK
  <2>1. /\ tpc[t] = "clear" /\ tpc' = [tpc EXCEPT ![t] = "zero"]
        /\ connected' = [connected EXCEPT ![s] = FALSE] /\ s = tslot[t]
        /\ UNCHANGED <<tslot, apc, aslot, garbage, orphaned>>
    BY <1>7, <2>0 DEF ClearConnected
  <2>2. Holds(t, s) /\ ~Holds(t, s)'
    BY <1>0, <2>1 DEF Holds, Holding, HoldingPcs, ServingPcs, TypeOK
  <2>3. SlotState[s] = "serving"
    BY <2>2, SlotStateIs
  <2>4. \A u \in Tasks, r \in Slots \ {s} : Holds(u, r)' <=> Holds(u, r)
    BY <1>0, <2>1 DEF Holds, Holding, TypeOK
  <2>5. \A r \in Slots : Reserved(r)' <=> Reserved(r)
    BY <2>1 DEF Reserved
  <2>6. \A r \in Slots \ {s} : StateOf(r)' = StateOf(r)
    BY <2>1, <2>4, <2>5 DEF StateOf
  <2>7. /\ ~ \E u \in Tasks : Holds(u, s)'
        /\ ~Reserved(s)' /\ s \notin garbage' \cup orphaned'
    <3>1. ~connected'[s]
      BY <1>0, <2>1 DEF TypeOK
    <3> QED
      BY <3>1 DEF SlotInv, SlotAccounting
  <2>8. StateOf(s)' = "free"
    BY <2>7 DEF StateOf
  <2>9. Pool!Move(s, "serving", "free")
    BY <2>3, <2>6, <2>8, PoolMove DEF SlotState
  <2> QED
    BY <2>9 DEF Pool!Next, Pool!Release
<1> QED
  BY <1>1, <1>2, <1>3, <1>4, <1>5, <1>6, <1>7 DEF Next, AcceptLoop, Handler

(* Seen through SlotState the unlocked table behaves as the abstract pool: *)
(* only a free slot is reserved, and only its own task releases it.        *)
THEOREM TableImplementsPool == Spec => PoolSpec
<1>1. SlotInv /\ [Next]_vars => [Pool!Next]_SlotState
  BY SlotInvStep, PoolStep
<1> QED
  BY <1>1, PoolInit, SlotInvariant, PTL DEF Spec, PoolSpec, Pool!Spec

=============================================================================

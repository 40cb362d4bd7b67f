---------------------------- MODULE ModbusServer ----------------------------
(***************************************************************************)
(* The Modbus/TCP server of Libraries/modbus/src/modbus_tcp.c: the accept  *)
(* loop of modbus_tcp_start, which runs in modbus_task, the table of       *)
(* connection slots it allocates, and the modbus_tcp_connection_handle     *)
(* tasks it creates, one per accepted connection.  All of them run at the  *)
(* same FreeRTOS priority with preemption and time slicing, and the table  *)
(* is protected by no lock, so every access to it is a step of its own.    *)
(*                                                                         *)
(* The lwIP socket layer is modelled from its use: a table of descriptors, *)
(* the lowest free one being allocated, and a backlog of connections.      *)
(***************************************************************************)
EXTENDS Integers, FiniteSets

CONSTANTS
    MaxClients,   \* max_clients, the length of the slot table
    NumSockets,   \* MEMP_NUM_NETCONN: netconns, and descriptors, lwIP has
    Conns,        \* remote connections; an identity is reused once closed
    Tasks,        \* identities of handler tasks
    NoConn        \* no connection

Free == "free"
Listening == "listening"

ASSUME ServerAssumption ==
    /\ MaxClients \in Nat \ {0}
    /\ NumSockets \in Nat \ {0}
    /\ {NoConn, Free, Listening} \cap Conns = {}

(* The definitions named <action>_<fault> are faulty variants of the one   *)
(* that follows: what the code would do with the fault in the comment.     *)

Slots_OneTooMany == 0 .. MaxClients   \* i <= max_clients in line 85

Slots == 0 .. MaxClients - 1
Fds == 0 .. NumSockets - 1
ListenFd == 0   \* the first socket lwip_socket hands out

VARIABLES
    connected,   \* slot -> the flag client->connected
    socket,      \* slot -> the descriptor client->socket
    apc,         \* where modbus_tcp_start is
    aslot,       \* its connection_slot (or loop index while it scans)
    afd,         \* its client_sock
    tpc,         \* task -> where modbus_tcp_connection_handle is
    tslot,       \* task -> the slot its parameter points to
    tfd,         \* task -> the descriptor it has passed to a socket call
    treq,        \* task -> the connection its request came from
    fds,         \* descriptor -> Free, Listening or a connection
    conn,        \* connection -> "idle", "queued" in the backlog or "open"
    gone,        \* connections whose peer has closed, reset or vanished
    rx,          \* connections with received bytes the server has not read
    faulted,     \* the processor is in HardFault_Handler
    \* History of the behaviour, which no guard reads:
    garbage,     \* slots whose flag was not zero in the memory of malloc
    orphaned,    \* slots whose handler task could not be created
    clobbered    \* a slot in use has had its socket zeroed (line 109)

slotVars == <<connected, socket>>
accVars == <<apc, aslot, afd>>
taskVars == <<tpc, tslot, tfd, treq>>
netVars == <<fds, conn, gone, rx>>
history == <<garbage, orphaned, clobbered>>
vars == <<slotVars, accVars, taskVars, netVars, faulted, history>>

ServingPcs == {"recv", "blocked", "dispatch", "reply", "close"}
HoldingPcs == ServingPcs \cup {"clear"}
TaskPcs == HoldingPcs \cup {"none", "zero"}
AcceptPcs == {"start", "returned", "accept", "scan", "mark", "setsock", "create"}

(***************************************************************************)
(* pvPortMalloc does not clear the table (line 122): its flags are         *)
(* whatever the heap block held.  socket is written before it is read.     *)
(***************************************************************************)
Init ==
    /\ connected \in [Slots -> BOOLEAN]
    /\ socket = [s \in Slots |-> 0]
    /\ apc = "start" /\ aslot = 0 /\ afd = 0
    /\ tpc = [t \in Tasks |-> "none"]
    /\ tslot = [t \in Tasks |-> 0]
    /\ tfd = [t \in Tasks |-> 0]
    /\ treq = [t \in Tasks |-> NoConn]
    /\ fds = [f \in Fds |-> Free]
    /\ conn = [c \in Conns |-> "idle"]
    /\ gone = {} /\ rx = {}
    /\ faulted = FALSE
    /\ garbage = {s \in Slots : connected[s]}
    /\ orphaned = {}
    /\ clobbered = FALSE

-----------------------------------------------------------------------------
(* The peers, seen through lwIP.                                           *)

(* lwIP completes a handshake while it has a netconn for the connection.   *)
PeerConnect(c) ==
    /\ fds[ListenFd] = Listening
    /\ conn[c] = "idle"
    /\ Cardinality({d \in Conns : conn[d] # "idle"}) < NumSockets - 1
    /\ conn' = [conn EXCEPT ![c] = "queued"]
    /\ UNCHANGED <<slotVars, accVars, taskVars, fds, gone, rx, faulted, history>>

PeerSend(c) ==
    /\ conn[c] # "idle" /\ c \notin gone \cup rx
    /\ rx' = rx \cup {c}
    /\ UNCHANGED <<slotVars, accVars, taskVars, fds, conn, gone, faulted, history>>

(* FIN, RST, or the keepalive of lines 167-179 running out.                *)
PeerClose(c) ==
    /\ conn[c] # "idle" /\ c \notin gone
    /\ gone' = gone \cup {c}
    /\ UNCHANGED <<slotVars, accVars, taskVars, fds, conn, rx, faulted, history>>

-----------------------------------------------------------------------------
(* modbus_tcp_start, in modbus_task.                                       *)

(* Lines 117-150: nothing else uses sockets until the server listens.      *)
StartServer ==
    /\ apc = "start"
    /\ fds' = [fds EXCEPT ![ListenFd] = Listening]
    /\ apc' = "accept"
    /\ UNCHANGED <<slotVars, aslot, afd, taskVars, conn, gone, rx, faulted, history>>

(* malloc, socket, bind or listen fails; modbus_task then only sleeps.     *)
StartFails ==
    /\ apc = "start"
    /\ apc' = "returned"
    /\ UNCHANGED <<slotVars, aslot, afd, taskVars, netVars, faulted, history>>

AcceptOk(c) ==
    /\ apc = "accept"
    /\ fds[ListenFd] = Listening
    /\ conn[c] = "queued"
    /\ \E f \in Fds :
         /\ fds[f] = Free
         /\ \A g \in 0 .. f - 1 : fds[g] # Free
         /\ fds' = [fds EXCEPT ![f] = c]
         /\ afd' = f
    /\ conn' = [conn EXCEPT ![c] = "open"]
    /\ apc' = "scan"
    /\ aslot' = 0
    /\ UNCHANGED <<slotVars, taskVars, gone, rx, faulted, history>>

(* The connection was reset in the backlog: lwip_accept discards it and    *)
(* returns -1, lwip_close(-1) does nothing, and the loop continues.        *)
AcceptAborted(c) ==
    /\ apc = "accept"
    /\ fds[ListenFd] = Listening
    /\ conn[c] = "queued" /\ c \in gone
    /\ conn' = [conn EXCEPT ![c] = "idle"]
    /\ gone' = gone \ {c}
    /\ rx' = rx \ {c}
    /\ UNCHANGED <<slotVars, accVars, taskVars, fds, faulted, history>>

(* sockfd is closed: lwip_accept returns -1 at once, again and again.      *)
AcceptBadSocket ==
    /\ apc = "accept"
    /\ fds[ListenFd] # Listening
    /\ UNCHANGED vars

ScanSlot_Unchecked ==   \* the test of line 86 dropped
    /\ apc = "scan" /\ aslot \in Slots
    /\ apc' = "mark"
    /\ UNCHANGED <<slotVars, aslot, afd, taskVars, netVars, faulted, history>>

(* modbus_tcp_find_free_connection_slot, one table entry at a time.        *)
ScanSlot ==
    /\ apc = "scan" /\ aslot \in Slots
    /\ \/ ~connected[aslot] /\ apc' = "mark" /\ UNCHANGED aslot
       \/ connected[aslot] /\ aslot' = aslot + 1 /\ UNCHANGED apc
    /\ UNCHANGED <<slotVars, afd, taskVars, netVars, faulted, history>>

(* No slot: -1 becomes the uint16_t 65535, which is not -1 (line 164), and *)
(* line 181 writes to modbus_tcp_clients[65535], 1 MB beyond the table and *)
(* beyond the 640 KB of RAM: a bus fault, and HardFault_Handler loops.     *)
ScanExhausted ==
    /\ apc = "scan" /\ aslot \notin Slots
    /\ faulted' = TRUE
    /\ UNCHANGED <<slotVars, accVars, taskVars, netVars, history>>

MarkConnected_Skipped ==   \* line 181 dropped
    /\ apc = "mark"
    /\ apc' = "setsock"
    /\ UNCHANGED <<slotVars, aslot, afd, taskVars, netVars, faulted, history>>

MarkConnected ==
    /\ apc = "mark"
    /\ connected' = [connected EXCEPT ![aslot] = TRUE]
    /\ apc' = "setsock"
    /\ UNCHANGED <<socket, aslot, afd, taskVars, netVars, faulted, history>>

SetSocket_Skipped ==   \* line 182 dropped
    /\ apc = "setsock"
    /\ apc' = "create"
    /\ UNCHANGED <<slotVars, aslot, afd, taskVars, netVars, faulted, history>>

SetSocket ==
    /\ apc = "setsock"
    /\ socket' = [socket EXCEPT ![aslot] = afd]
    /\ apc' = "create"
    /\ UNCHANGED <<connected, aslot, afd, taskVars, netVars, faulted, history>>

CreateTask(t) ==
    /\ apc = "create"
    /\ tpc[t] = "none"
    /\ tpc' = [tpc EXCEPT ![t] = "recv"]
    /\ tslot' = [tslot EXCEPT ![t] = aslot]
    /\ apc' = "accept" /\ aslot' = 0 /\ afd' = 0
    /\ UNCHANGED <<slotVars, tfd, treq, netVars, faulted, history>>

(* xTaskCreate is out of heap; its result is ignored (line 185).           *)
CreateTaskFails ==
    /\ apc = "create"
    /\ orphaned' = orphaned \cup {aslot}
    /\ apc' = "accept" /\ aslot' = 0 /\ afd' = 0
    /\ UNCHANGED <<slotVars, taskVars, netVars, faulted, garbage, clobbered>>

-----------------------------------------------------------------------------
(* modbus_tcp_connection_handle.                                           *)

(* Line 101: client->socket is read, then lwip_recv blocks on it.          *)
CallRecv(t) ==
    /\ tpc[t] = "recv"
    /\ tpc' = [tpc EXCEPT ![t] = "blocked"]
    /\ tfd' = [tfd EXCEPT ![t] = socket[tslot[t]]]
    /\ UNCHANGED <<slotVars, accVars, tslot, treq, netVars, faulted, history>>

RecvData_Peek(t) ==   \* MSG_PEEK: the bytes stay in the socket
    /\ tpc[t] = "blocked"
    /\ fds[tfd[t]] \in rx
    /\ treq' = [treq EXCEPT ![t] = fds[tfd[t]]]
    /\ tpc' = [tpc EXCEPT ![t] = "dispatch"]
    /\ UNCHANGED <<slotVars, accVars, tslot, tfd, netVars, faulted, history>>

RecvData(t) ==
    /\ tpc[t] = "blocked"
    /\ fds[tfd[t]] \in rx
    /\ rx' = rx \ {fds[tfd[t]]}
    /\ treq' = [treq EXCEPT ![t] = fds[tfd[t]]]
    /\ tpc' = [tpc EXCEPT ![t] = "dispatch"]
    /\ UNCHANGED <<slotVars, accVars, tslot, tfd, fds, conn, gone, faulted, history>>

RecvEnd_ZeroFirst(t) ==   \* line 109 before line 107
    /\ tpc[t] = "blocked"
    /\ fds[tfd[t]] \in gone \cup {Free, Listening}
    /\ tpc' = [tpc EXCEPT ![t] = "close"]
    /\ socket' = [socket EXCEPT ![tslot[t]] = 0]
    /\ UNCHANGED <<connected, accVars, tslot, tfd, treq, netVars, faulted, history>>

(* 0 or -1: the peer has closed, or the descriptor is no connection.       *)
RecvEnd(t) ==
    /\ tpc[t] = "blocked"
    /\ fds[tfd[t]] \in gone \cup {Free, Listening}
    /\ tpc' = [tpc EXCEPT ![t] = "close"]
    /\ UNCHANGED <<slotVars, accVars, tslot, tfd, treq, netVars, faulted, history>>

Dispatch_FirstSlot(t) ==   \* modbus_tcp_clients->socket, not client->socket
    /\ tpc[t] = "dispatch"
    /\ tfd' = [tfd EXCEPT ![t] = socket[0]]
    /\ tpc' = [tpc EXCEPT ![t] = "reply"]
    /\ UNCHANGED <<slotVars, accVars, tslot, treq, netVars, faulted, history>>

(* Line 103 reads client->socket again, before the request is processed.   *)
Dispatch(t) ==
    /\ tpc[t] = "dispatch"
    /\ tfd' = [tfd EXCEPT ![t] = socket[tslot[t]]]
    /\ tpc' = [tpc EXCEPT ![t] = "reply"]
    /\ UNCHANGED <<slotVars, accVars, tslot, treq, netVars, faulted, history>>

(* modbus_tcp_handle_request: lwip_send to the descriptor it was given, or *)
(* no reply to fewer than 8 bytes; it never returns the value that ends    *)
(* the loop.  osDelay(10) follows.                                         *)
Reply(t) ==
    /\ tpc[t] = "reply"
    /\ tpc' = [tpc EXCEPT ![t] = "recv"]
    /\ treq' = [treq EXCEPT ![t] = NoConn]
    /\ UNCHANGED <<slotVars, accVars, tslot, tfd, netVars, faulted, history>>

(* The connections lwip_close(f) ends: its own, or the whole backlog.      *)
EndedBy(f) ==
    IF fds[f] = Listening THEN {c \in Conns : conn[c] = "queued"}
                          ELSE {fds[f]} \cap Conns

CloseSocket_Skipped(t) ==   \* line 107 dropped
    /\ tpc[t] = "close"
    /\ tpc' = [tpc EXCEPT ![t] = "clear"]
    /\ UNCHANGED <<slotVars, accVars, tslot, tfd, treq, netVars, faulted, history>>

(* Line 107: client->socket is read once more and closed.                  *)
CloseSocket(t) ==
    LET f == socket[tslot[t]]  ended == EndedBy(f) IN
    /\ tpc[t] = "close"
    /\ fds' = [fds EXCEPT ![f] = Free]
    /\ conn' = [c \in Conns |-> IF c \in ended THEN "idle" ELSE conn[c]]
    /\ gone' = gone \ ended
    /\ rx' = rx \ ended
    /\ tpc' = [tpc EXCEPT ![t] = "clear"]
    /\ UNCHANGED <<slotVars, accVars, tslot, tfd, treq, faulted, history>>

ClearConnected_Skipped(t) ==   \* line 108 dropped
    /\ tpc[t] = "clear"
    /\ tpc' = [tpc EXCEPT ![t] = "zero"]
    /\ UNCHANGED <<slotVars, accVars, tslot, tfd, treq, netVars, faulted, history>>

(* Line 108: from here on the accept loop may hand the slot out again.     *)
ClearConnected(t) ==
    /\ tpc[t] = "clear"
    /\ connected' = [connected EXCEPT ![tslot[t]] = FALSE]
    /\ tpc' = [tpc EXCEPT ![t] = "zero"]
    /\ UNCHANGED <<socket, accVars, tslot, tfd, treq, netVars, faulted, history>>

(* The slot holds a socket that a new connection depends on.               *)
SocketInUse(s) ==
    /\ connected[s]
    /\ ~(apc = "setsock" /\ aslot = s)

(* Lines 109-111: the rest of the slot is zeroed and the task deleted.     *)
ZeroSocket(t) ==
    /\ tpc[t] = "zero"
    /\ socket' = [socket EXCEPT ![tslot[t]] = 0]
    /\ clobbered' = (clobbered \/ SocketInUse(tslot[t]))
    /\ tpc' = [tpc EXCEPT ![t] = "none"]
    /\ tslot' = [tslot EXCEPT ![t] = 0]
    /\ tfd' = [tfd EXCEPT ![t] = 0]
    /\ treq' = [treq EXCEPT ![t] = NoConn]
    /\ UNCHANGED <<connected, accVars, netVars, faulted, garbage, orphaned>>

-----------------------------------------------------------------------------
Peer(c) == PeerConnect(c) \/ PeerSend(c) \/ PeerClose(c)

Accept(c) == AcceptOk(c) \/ AcceptAborted(c)

AcceptLoop ==
    \/ StartServer \/ StartFails
    \/ \E c \in Conns : Accept(c)
    \/ AcceptBadSocket
    \/ ScanSlot \/ ScanExhausted
    \/ MarkConnected \/ SetSocket
    \/ \E t \in Tasks : CreateTask(t)
    \/ CreateTaskFails

Handler(t) ==
    \/ CallRecv(t) \/ RecvData(t) \/ RecvEnd(t)
    \/ Dispatch(t) \/ Reply(t)
    \/ CloseSocket(t) \/ ClearConnected(t) \/ ZeroSocket(t)

Next ==
    /\ ~faulted   \* HardFault_Handler never returns
    /\ \/ \E c \in Conns : Peer(c)
       \/ AcceptLoop
       \/ \E t \in Tasks : Handler(t)

Spec == Init /\ [][Next]_vars

(***************************************************************************)
(* The tasks have one priority and every one of them blocks or is time     *)
(* sliced, so each that can run does.  The accept mailbox is first in,     *)
(* first out, so the loop that keeps accepting gets to each connection.    *)
(* No peer is obliged to do anything.                                      *)
(***************************************************************************)
Fairness ==
    /\ WF_vars(~faulted /\ AcceptLoop)
    /\ \A c \in Conns : SF_vars(~faulted /\ Accept(c))
    /\ \A t \in Tasks : WF_vars(~faulted /\ Handler(t))

FairSpec == Spec /\ Fairness

-----------------------------------------------------------------------------
(* Properties.                                                             *)

TypeOK ==
    /\ connected \in [Slots -> BOOLEAN]
    /\ socket \in [Slots -> Fds]
    /\ apc \in AcceptPcs
    /\ aslot \in 0 .. MaxClients
    /\ apc \in {"mark", "setsock", "create"} => aslot \in Slots
    /\ afd \in Fds
    /\ tpc \in [Tasks -> TaskPcs]
    /\ tslot \in [Tasks -> Slots]
    /\ tfd \in [Tasks -> Fds]
    /\ treq \in [Tasks -> Conns \cup {NoConn}]
    /\ fds \in [Fds -> Conns \cup {Free, Listening}]
    /\ conn \in [Conns -> {"idle", "queued", "open"}]
    /\ gone \subseteq Conns /\ rx \subseteq Conns
    /\ faulted \in BOOLEAN /\ clobbered \in BOOLEAN
    /\ garbage \subseteq Slots /\ orphaned \subseteq Slots

Holding(t) == tpc[t] \in HoldingPcs
Serving(t) == tpc[t] \in ServingPcs
Holds(t, s) == Holding(t) /\ tslot[t] = s
Reserved(s) == apc \in {"setsock", "create"} /\ aslot = s

(* A slot serves one connection at a time: no two handler tasks between    *)
(* their creation and line 108 share a slot, and the accept loop never     *)
(* fills a slot that a task still holds, though no lock protects the table.*)
SlotExclusive ==
    /\ \A t, u \in Tasks :
         Holding(t) /\ Holding(u) /\ tslot[t] = tslot[u] => t = u
    /\ \A t \in Tasks : Holding(t) => ~Reserved(tslot[t])

(* No slot leaks silently: a taken slot is held by a task, is being filled,*)
(* was never zeroed by malloc (line 122) or lost its task (line 185), and  *)
(* those slots are never handed out again.                                 *)
SlotAccounting ==
    \A s \in Slots :
        connected[s] <=> \/ \E t \in Tasks : Holds(t, s)
                         \/ Reserved(s)
                         \/ s \in garbage \cup orphaned

(* Until line 109 zeroes a slot already reused, each serving task has the  *)
(* descriptor of a connection of its own, whatever the order in which the  *)
(* tasks and the accept loop touch the table.                              *)
OwnSocket ==
    ~clobbered =>
        /\ \A t \in Tasks : Serving(t) => fds[socket[tslot[t]]] \in Conns
        /\ \A t, u \in Tasks :
             Serving(t) /\ Serving(u) /\ socket[tslot[t]] = socket[tslot[u]]
                => t = u

(* A reply goes to the connection its request came from, although lines    *)
(* 101 and 103 read client->socket separately.                             *)
ReplyToRequester ==
    ~clobbered => \A t \in Tasks : tpc[t] = "reply" => fds[tfd[t]] = treq[t]

(* The listening descriptor stays open as long as no slot is clobbered.    *)
ListenerOpen ==
    ~clobbered /\ apc \notin {"start", "returned"} => fds[ListenFd] = Listening

(* No descriptor leaks: an accepted connection is in the hands of the      *)
(* accept loop or of a task, or of a slot whose task was never created.    *)
NoDescriptorLeak ==
    ~clobbered =>
        \A f \in Fds : fds[f] \in Conns =>
            \/ apc \in {"scan", "mark", "setsock", "create"} /\ afd = f
            \/ \E t \in Tasks : Serving(t) /\ socket[tslot[t]] = f
            \/ \E s \in orphaned : socket[s] = f

(* The slot table implements SlotPool: a slot is served while a task holds *)
(* it, and stuck when it is taken with nobody to release it.               *)
StateOf(s) ==
    CASE \E t \in Tasks : Holds(t, s) -> "serving"
      [] Reserved(s) -> "reserved"
      [] s \in garbage \cup orphaned -> "stuck"
      [] OTHER -> "free"

SlotState == [s \in Slots |-> StateOf(s)]

Pool == INSTANCE SlotPool WITH slot <- SlotState

PoolSpec == Pool!Spec

Undisturbed == ~faulted /\ ~clobbered /\ orphaned = {}

(* A connection whose peer has gone is closed and its identity freed.      *)
DisconnectReleases ==
    []Undisturbed => \A c \in Conns : c \in gone ~> c \notin gone

(* Bytes a peer has sent are read by a task, or the connection is closed.  *)
RequestsRead ==
    []Undisturbed => \A c \in Conns : c \in rx ~> c \notin rx

(* modbus_tcp_start accepts at most clients_limit connections              *)
(* (modbus_tcp.h:65) and closes the others (line 192): it does not fault.  *)
RefusesWhenFull == garbage = {} => ~faulted

(* The socket of the accept loop is closed by no other task: lwIP supports *)
(* that only with LWIP_NETCONN_FULLDUPLEX (opt.h:2002), which is 0.        *)
ListenerNeverClosed ==
    apc \notin {"start", "returned"} => fds[ListenFd] = Listening

=============================================================================

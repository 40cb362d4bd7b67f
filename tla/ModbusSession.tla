--------------------------- MODULE ModbusSession ---------------------------
(***************************************************************************)
(* One connection: a client that sends the requests of a program over TCP   *)
(* and repeats those that are not answered in time, the stream that carries *)
(* them, and the loop of modbus_tcp_connection_handle, which takes what one *)
(* lwip_recv returns for one request.                                       *)
(*                                                                          *)
(* The stream is a sequence of cells [txn, off]: byte off of transmission   *)
(* txn. Cell 0 of a request stands for the MBAP header with its transaction *)
(* identifier, cell FcCell for the function code. buffer keeps its contents *)
(* from one lwip_recv to the next, as the array of modbus_tcp.c:95 does.    *)
(***************************************************************************)
EXTENDS Integers, Sequences

CONSTANTS Prog,      \* the sizes of the client's requests, in cells
          FcCell,    \* MODBUS_MBAP_HEADER_LENGTH: where the function code is
          BufSize,   \* MODBUS_RECV_BUFFER_SIZE
          MaxRepeats,\* bound: repetitions of the client
          MaxLost    \* bound: replies that lwip_send fails to send

ASSUME SessionAssumption ==
    /\ FcCell \in Nat \ {0} /\ BufSize \in Nat /\ FcCell < BufSize
    /\ Prog \in Seq({n \in Nat : n > FcCell})
    /\ MaxRepeats \in Nat /\ MaxLost \in Nat

MaxSends == Len(Prog) + MaxRepeats

VARIABLES whole,     \* segments end where requests end
          op,        \* the operation the client is at
          sends,     \* transmission -> the operation it carries
          wire,      \* cells on their way
          queue,     \* cells that have arrived at the server's socket
          buffer,    \* the receive buffer
          received,  \* bytes_received: 0 in lwip_recv
          executed,  \* what reached the application, in order
          replies,   \* replies on their way: transaction identifiers
          lost       \* replies that were not sent

vars == <<whole, op, sends, wire, queue, buffer, received, executed, replies, lost>>

Garbled == 0  \* a request nobody sent
Empty == [txn |-> Garbled, off |-> 0]
Cells == [txn : 0..MaxSends, off : Nat]
Size(txn) == Prog[sends[txn]]
Txns == DOMAIN sends

TypeOK ==
    /\ whole \in BOOLEAN /\ op \in 1..Len(Prog) + 1
    /\ sends \in Seq(1..Len(Prog)) /\ Len(sends) <= MaxSends
    /\ wire \in Seq(Cells) /\ queue \in Seq(Cells)
    /\ buffer \in [0..BufSize - 1 -> Cells] /\ received \in 0..BufSize
    /\ executed \in Seq(0..MaxSends) /\ replies \in Seq(0..MaxSends)
    /\ lost \in 0..MaxLost

Init ==
    /\ whole \in BOOLEAN
    /\ op = 1 /\ sends = <<>> /\ wire = <<>> /\ queue = <<>>
    /\ buffer = [i \in 0..BufSize - 1 |-> Empty] /\ received = 0
    /\ executed = <<>> /\ replies = <<>> /\ lost = 0
-----------------------------------------------------------------------------
(* The client and TCP.                                                      *)

Transmit ==
    /\ sends' = Append(sends, op)
    /\ wire' = wire \o [i \in 1..Prog[op] |-> [txn |-> Len(sends'), off |-> i - 1]]
    /\ UNCHANGED <<whole, op, queue, buffer, received, executed, replies, lost>>

\* The client waits for the answer to its last transmission.
Waiting == sends # <<>> /\ sends[Len(sends)] = op

Request == op <= Len(Prog) /\ ~Waiting /\ Transmit

\* The client's time-out, however early.
Repeat == Waiting /\ Len(sends) < op + MaxRepeats /\ Transmit

\* A reply is for the last transmission or is ignored.
Answer ==
    /\ replies # <<>> /\ replies' = Tail(replies)
    /\ op' = IF Waiting /\ Head(replies) = Len(sends) THEN op + 1 ELSE op
    /\ UNCHANGED <<whole, sends, wire, queue, buffer, received, executed, lost>>

\* A segment with the first n cells.
Deliver ==
    /\ \E n \in 1..Len(wire) :
         /\ whole => wire[n].off = Size(wire[n].txn) - 1
         /\ queue' = queue \o SubSeq(wire, 1, n)
         /\ wire' = SubSeq(wire, n + 1, Len(wire))
    /\ UNCHANGED <<whole, op, sends, buffer, received, executed, replies, lost>>
-----------------------------------------------------------------------------
(* The server.                                                              *)

\* lwip_recv: what there is, at most the buffer.
RecvCount(n) == IF n < BufSize THEN n ELSE BufSize

\* lwip_recv removes what it returns.
ConsumedMutant(n) == 0
Consumed(n) == n

Recv ==
    /\ received = 0 /\ queue # <<>>
    /\ received' = RecvCount(Len(queue))
    /\ buffer' = [i \in DOMAIN buffer |->
                    IF i < received' THEN queue[i + 1] ELSE buffer[i]]
    /\ queue' = SubSeq(queue, Consumed(received') + 1, Len(queue))
    /\ UNCHANGED <<whole, op, sends, wire, executed, replies, lost>>

\* What modbus_handle_request makes of the buffer: it dispatches on the
\* function code and reads the fields of that request, received or not; bytes
\* that are no function code are one by accident or are refused.
Seen == LET t == buffer[FcCell].txn
        IN  IF buffer[FcCell].off = FcCell /\ t # Garbled
               /\ \A i \in 0..Size(t) - 1 :
                     i \in DOMAIN buffer /\ buffer[i] = [txn |-> t, off |-> i]
            THEN t ELSE Garbled

\* The shortest request that is handled has a function code.
MinSizeMutant == FcCell + 3
MinSize == FcCell + 1

\* The transaction identifier of the reply.
ReplyTxnMutant == Len(sends)
ReplyTxn == IF buffer[0].off = 0 THEN buffer[0].txn ELSE Garbled

\* modbus_tcp_handle_request: fragments of a header are dropped, everything
\* else is executed and answered from the header in the buffer.
Handle ==
    /\ received > 0 /\ received' = 0
    /\ \/ /\ received < MinSize /\ UNCHANGED <<executed, replies, lost>>
       \/ /\ received >= MinSize
          /\ \/ executed' = Append(executed, Seen)
             \/ buffer[FcCell].off # FcCell /\ UNCHANGED executed
          /\ \/ replies' = Append(replies, ReplyTxn) /\ UNCHANGED lost
             \/ lost < MaxLost /\ lost' = lost + 1 /\ UNCHANGED replies
    /\ UNCHANGED <<whole, op, sends, wire, queue, buffer>>
-----------------------------------------------------------------------------
\* The client has its answers and the stream is empty.
Done == op > Len(Prog) /\ wire = <<>> /\ queue = <<>> /\ received = 0 /\ replies = <<>>
Finished == Done /\ UNCHANGED vars

Next == Request \/ Repeat \/ Answer \/ Deliver \/ Recv \/ Handle \/ Finished

Spec == Init /\ [][Next]_vars

\* TCP delivers, the client sends and reads, the handler task is scheduled.
FairSpec == Spec /\ WF_vars(Request) /\ WF_vars(Answer) /\ WF_vars(Deliver)
                 /\ WF_vars(Recv) /\ WF_vars(Handle)
-----------------------------------------------------------------------------
(* Properties.                                                              *)

Executions(i) == {k \in DOMAIN executed : executed[k] # Garbled /\ sends[executed[k]] = i}

\* The session implements ModbusService: operations are executed in order and never
\* after their answer, although the client repeats requests and replies get lost;
\* and before their answer while segments end where requests do and requests fit
\* into the buffer (modbus_tcp.c:101-103).
Service == INSTANCE ModbusService
             WITH whole <- whole /\ \A i \in DOMAIN Prog : Prog[i] <= BufSize,
                  log <- [k \in DOMAIN executed |-> IF executed[k] = Garbled THEN 0
                                                    ELSE sends[executed[k]]]
ServiceSpec == Service!Spec

\* What reaches the application is a request the client sent, whatever pieces
\* lwip_recv returned (modbus_tcp.c:101-103).
ExecutedIsSent == \A k \in DOMAIN executed : executed[k] # Garbled

\* An operation whose answer the client accepted was executed as it was sent,
\* and not with fields the buffer still had from an earlier request.
AnswerMeansDone == \A i \in 1..op - 1 : Executions(i) # {}

\* A transmission is executed at most once, however the stream is cut: a
\* client that counts its transmissions has counted the executions.
OncePerSend == \A j, k \in DOMAIN executed :
                 executed[j] = executed[k] /\ executed[j] # Garbled => j = k

\* The stream recovers: a request that stands complete at the head of the
\* queue when the handler is back in lwip_recv is executed, whatever fragments
\* and repetitions were there before.
Resync == \A t \in 1..MaxSends :
    (received = 0 /\ t \in Txns /\ Len(queue) >= Size(t)
       /\ \A i \in 1..Size(t) : queue[i] = [txn |-> t, off |-> i - 1])
      ~> \E k \in DOMAIN executed : executed[k] = t

\* What holds in every state: no transmission is executed twice (modbus_tcp.c:101-103).
SessionInv == TypeOK /\ OncePerSend
=============================================================================

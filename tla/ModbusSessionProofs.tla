------------------------ MODULE ModbusSessionProofs ------------------------
(***************************************************************************)
(* What holds of a connection for every program of the client, every        *)
(* receive buffer, any number of repetitions and lost replies and every way *)
(* to cut the stream: no transmission is executed twice, and the session    *)
(* implements ModbusService.                                                *)
(*                                                                          *)
(* The stream stays in the order in which it was sent, and what was         *)
(* executed or answered is before everything that is still to come          *)
(* (Behind). Requests keep together on the wire, and up to the handler when *)
(* segments end where requests do (Together).                               *)
(***************************************************************************)
EXTENDS ModbusSession, SequenceTheorems, TLAPS

Head0(t) == [txn |-> t, off |-> 0]

\* Cell c was sent before cell d.
Before(c, d) == c.txn < d.txn \/ (c.txn = d.txn /\ c.off < d.off)

\* The cells that are still to be looked at as the first of a buffer.
Live == {queue[i] : i \in DOMAIN queue} \cup {wire[i] : i \in DOMAIN wire}
        \cup (IF received > 0 THEN {buffer[0]} ELSE {})

\* The client's repetitions are bounded, one transmission is the first.
Counted == /\ Len(sends) <= op + MaxRepeats
           /\ ~Waiting => Len(sends) < op + MaxRepeats

\* Everything in the program comes from a transmission of the client, and what is
\* still the head of a request belongs to the operation it waits for.
Known ==
    /\ \A c \in Live : c.txn \in Txns /\ (c.off = 0 => sends[c.txn] = op)
    /\ \A i \in DOMAIN buffer : buffer[i].txn \in Txns \cup {Garbled}
    /\ \A k \in DOMAIN executed : executed[k] \in Txns \cup {Garbled}
    /\ \A k \in DOMAIN replies : replies[k] \in Txns \cup {Garbled}

\* TCP keeps the order of the stream.
Ordered ==
    /\ \A i, j \in DOMAIN queue : i < j => Before(queue[i], queue[j])
    /\ \A i, j \in DOMAIN wire : i < j => Before(wire[i], wire[j])
    /\ \A i \in DOMAIN queue, j \in DOMAIN wire : Before(queue[i], wire[j])
    /\ received > 0 => /\ \A i \in DOMAIN queue : Before(buffer[0], queue[i])
                       /\ \A i \in DOMAIN wire : Before(buffer[0], wire[i])

\* What was executed or answered is behind the stream.
Behind ==
    \A c \in Live :
        /\ \A k \in DOMAIN executed : executed[k] # Garbled => Before(Head0(executed[k]), c)
        /\ \A k \in DOMAIN replies : replies[k] # Garbled => Before(Head0(replies[k]), c)

\* The request whose head is at place i of q is there to its last cell.
Complete(q, i) ==
    \A d \in 0..Size(q[i].txn) - 1 :
        i + d \in DOMAIN q /\ q[i + d] = [txn |-> q[i].txn, off |-> d]

Promised == whole /\ \A i \in DOMAIN Prog : Prog[i] <= BufSize

Together ==
    /\ \A i \in DOMAIN wire : wire[i].off = 0 => Complete(wire, i)
    /\ whole => \A i \in DOMAIN queue : queue[i].off = 0 => Complete(queue, i)
    /\ Promised /\ received > 0 /\ buffer[0].off = 0 => Complete(buffer, 0)
    /\ Promised => \A j \in DOMAIN replies :
                      replies[j] # Garbled => \E k \in DOMAIN executed : executed[k] = replies[j]

SessionIInv == TypeOK /\ Counted /\ Known /\ Ordered /\ Behind /\ OncePerSend /\ Together
-----------------------------------------------------------------------------
(* Sequences.                                                               *)

\* The cells of a stream to which another was added.
LEMMA ConcatCells ==
    ASSUME NEW S, NEW q \in Seq(S), NEW r \in Seq(S)
    PROVE  /\ q \o r \in Seq(S) /\ DOMAIN (q \o r) = 1..Len(q) + Len(r)
           /\ \A i \in 1..Len(q) : (q \o r)[i] = q[i]
           /\ \A i \in 1..Len(r) : (q \o r)[Len(q) + i] = r[i]
           /\ \A i \in DOMAIN (q \o r) : \/ i \in 1..Len(q)
                                         \/ i - Len(q) \in 1..Len(r)
OBVIOUS

\* The cells of a stream that a segment or lwip_recv leaves.
LEMMA SuffixCells ==
    ASSUME NEW S, NEW q \in Seq(S), NEW n \in 0..Len(q)
    PROVE  /\ SubSeq(q, n + 1, Len(q)) \in Seq(S)
           /\ DOMAIN SubSeq(q, n + 1, Len(q)) = 1..Len(q) - n
           /\ \A i \in 1..Len(q) - n : SubSeq(q, n + 1, Len(q))[i] = q[i + n] /\ i + n \in 1..Len(q)
<1> DEFINE r == SubSeq(q, n + 1, Len(q))
<1>1. Len(q) \in Nat /\ n \in Nat /\ n + 1 \in Int /\ \A i \in (n + 1)..Len(q) : q[i] \in S
  OBVIOUS
<1>2. /\ r \in Seq(S) /\ Len(r) = (IF n + 1 <= Len(q) THEN Len(q) - (n + 1) + 1 ELSE 0)
      /\ \A i \in 1..Len(q) - (n + 1) + 1 : r[i] = q[(n + 1) + i - 1]
  BY <1>1, SubSeqProperties
<1> HIDE DEF r
<1>3. Len(r) = Len(q) - n /\ DOMAIN r = 1..Len(r)
  BY <1>1, <1>2
<1>4. \A i \in 1..Len(q) - n : r[i] = q[i + n] /\ i + n \in 1..Len(q)
  <2> TAKE i \in 1..Len(q) - n
  <2>1. i \in 1..Len(q) - (n + 1) + 1 /\ (n + 1) + i - 1 = i + n /\ i + n \in 1..Len(q)
    BY <1>1
  <2> QED
    BY <1>2, <2>1
<1>5. QED
  BY <1>2, <1>3, <1>4 DEF r

\* The cells of a segment.
LEMMA PrefixCells ==
    ASSUME NEW S, NEW q \in Seq(S), NEW n \in 1..Len(q)
    PROVE  /\ SubSeq(q, 1, n) \in Seq(S) /\ Len(SubSeq(q, 1, n)) = n
           /\ \A i \in 1..n : SubSeq(q, 1, n)[i] = q[i]
<1> DEFINE r == SubSeq(q, 1, n)
<1>1. Len(q) \in Nat /\ n \in Nat /\ 1 <= n /\ n \in Int /\ \A i \in 1..n : q[i] \in S
  OBVIOUS
<1>2. /\ r \in Seq(S) /\ Len(r) = (IF 1 <= n THEN n - 1 + 1 ELSE 0)
      /\ \A i \in 1..n - 1 + 1 : r[i] = q[1 + i - 1]
  BY <1>1, SubSeqProperties
<1> HIDE DEF r
<1>3. Len(r) = n
  BY <1>1, <1>2
<1>4. \A i \in 1..n : r[i] = q[i]
  <2> TAKE i \in 1..n
  <2>1. i \in 1..n - 1 + 1 /\ 1 + i - 1 = i
    BY <1>1
  <2> QED
    BY <1>2, <2>1
<1>5. QED
  BY <1>2, <1>3, <1>4 DEF r
-----------------------------------------------------------------------------
(* What the types say.                                                      *)

\* The types with the assumption on the client's program: its requests have a
\* function code, and the buffer has room for one (modbus_tcp.c:55-56, 95).
LEMMA Facts ==
    ASSUME TypeOK
    PROVE  /\ Len(sends) \in Nat /\ Txns = 1..Len(sends) /\ op \in Nat /\ op > 0
           /\ Len(Prog) \in Nat /\ MaxRepeats \in Nat /\ MaxSends \in Nat
           /\ Len(queue) \in Nat /\ DOMAIN queue = 1..Len(queue)
           /\ Len(wire) \in Nat /\ DOMAIN wire = 1..Len(wire)
           /\ \A i \in DOMAIN queue : queue[i] \in Cells
           /\ \A i \in DOMAIN wire : wire[i] \in Cells
           /\ DOMAIN buffer = 0..BufSize - 1 /\ 0 \in DOMAIN buffer
           /\ \A i \in DOMAIN buffer : buffer[i] \in Cells
           /\ \A c \in Cells : c.txn \in Nat /\ c.off \in Nat
           /\ \A t \in Txns : sends[t] \in DOMAIN Prog /\ Size(t) \in Nat /\ Size(t) > FcCell
           /\ \A i \in DOMAIN Prog : Prog[i] \in Nat /\ Prog[i] > FcCell
           /\ DOMAIN Prog = 1..Len(Prog) /\ FcCell \in Nat /\ FcCell > 0 /\ FcCell \in DOMAIN buffer
<1>1. /\ Len(Prog) \in Nat /\ MaxRepeats \in Nat /\ MaxSends \in Nat /\ DOMAIN Prog = 1..Len(Prog)
      /\ \A i \in DOMAIN Prog : Prog[i] \in Nat /\ Prog[i] > FcCell
      /\ FcCell \in Nat /\ FcCell > 0 /\ BufSize \in Nat /\ FcCell < BufSize
  BY SessionAssumption DEF MaxSends
<1>2. /\ Len(sends) \in Nat /\ Txns = 1..Len(sends) /\ \A t \in Txns : sends[t] \in DOMAIN Prog
  BY <1>1 DEF TypeOK, Txns
<1>3. /\ Len(queue) \in Nat /\ DOMAIN queue = 1..Len(queue) /\ \A i \in DOMAIN queue : queue[i] \in Cells
      /\ Len(wire) \in Nat /\ DOMAIN wire = 1..Len(wire) /\ \A i \in DOMAIN wire : wire[i] \in Cells
  BY DEF TypeOK
<1>4. /\ DOMAIN buffer = 0..BufSize - 1 /\ \A i \in DOMAIN buffer : buffer[i] \in Cells
      /\ 0 \in DOMAIN buffer /\ FcCell \in DOMAIN buffer
  BY <1>1 DEF TypeOK
<1>5. \A c \in Cells : c.txn \in Nat /\ c.off \in Nat
  BY <1>1 DEF Cells
<1>6. op \in Nat /\ op > 0
  BY <1>1 DEF TypeOK
<1> QED
  BY <1>1, <1>2, <1>3, <1>4, <1>5, <1>6 DEF Size

\* Where a cell that is still to be looked at is: in the socket's queue, on its way, or
\* first in the buffer (modbus_tcp.c:100-103).
LEMMA LiveFacts ==
    /\ \A i \in DOMAIN queue : queue[i] \in Live
    /\ \A i \in DOMAIN wire : wire[i] \in Live
    /\ received > 0 => buffer[0] \in Live
    /\ \A c \in Live : \/ \E i \in DOMAIN queue : c = queue[i]
                       \/ \E i \in DOMAIN wire : c = wire[i]
                       \/ received > 0 /\ c = buffer[0]
BY DEF Live
-----------------------------------------------------------------------------
(* The client and TCP.                                                      *)

\* A new connection has an empty stream (modbus_tcp.c:93-98).
LEMMA InitSession == Init => SessionIInv
<1> SUFFICES ASSUME Init PROVE SessionIInv
  OBVIOUS
<1>1. /\ Len(Prog) \in Nat /\ MaxRepeats \in Nat /\ MaxLost \in Nat
      /\ FcCell \in Nat /\ FcCell > 0 /\ BufSize \in Nat /\ FcCell < BufSize
  BY SessionAssumption
<1>2. Empty \in Cells /\ MaxSends \in Nat /\ Empty.txn = Garbled
  BY <1>1 DEF Empty, Cells, Garbled, MaxSends
<1>3. buffer \in [0..BufSize - 1 -> Cells] /\ \A i \in DOMAIN buffer : buffer[i].txn = Garbled
  BY <1>2 DEF Init
<1>4. /\ sends \in Seq(1..Len(Prog)) /\ Len(sends) = 0
      /\ wire \in Seq(Cells) /\ queue \in Seq(Cells)
      /\ executed \in Seq(0..MaxSends) /\ replies \in Seq(0..MaxSends)
      /\ op \in 1..Len(Prog) + 1 /\ received \in 0..BufSize /\ lost \in 0..MaxLost
  BY <1>1, <1>2 DEF Init
<1>5. TypeOK
  BY <1>2, <1>3, <1>4 DEF TypeOK, Init
<1>6. Counted
  BY <1>1, <1>4 DEF Counted, Init
<1>7. Live = {}
  BY DEF Live, Init
<1>8. Known /\ Behind /\ OncePerSend
  BY <1>3, <1>7 DEF Known, Behind, OncePerSend, Init
<1>9. Ordered /\ Together
  BY DEF Ordered, Together, Init
<1> QED
  BY <1>5, <1>6, <1>8, <1>9 DEF SessionIInv

\* A transmission, the first or a repetition, adds a whole request of the current
\* operation to the end of the stream.
LEMMA TransmitStep ==
    ASSUME SessionIInv, Transmit, op <= Len(Prog), Len(sends) < op + MaxRepeats
    PROVE  SessionIInv'
<1> DEFINE n == Len(sends) + 1
           size == Prog[op]
           B == [i \in 1..size |-> [txn |-> n, off |-> i - 1]]
<1>1. TypeOK /\ Counted /\ Known /\ Ordered /\ Behind /\ OncePerSend /\ Together
  BY DEF SessionIInv
<1>2. /\ Len(sends) \in Nat /\ Txns = 1..Len(sends) /\ op \in Nat /\ op > 0 /\ MaxRepeats \in Nat
      /\ Len(wire) \in Nat /\ DOMAIN wire = 1..Len(wire) /\ wire \in Seq(Cells)
      /\ op \in 1..Len(Prog) /\ Len(Prog) \in Nat /\ sends \in Seq(1..Len(Prog))
  BY <1>1, Facts DEF TypeOK
<1>3. /\ size \in Nat /\ size > 0 /\ n \in 0..MaxSends /\ n \in Nat /\ n > 0 /\ n <= MaxSends
  BY <1>1, <1>2, Facts DEF MaxSends
<1>4. /\ sends' = Append(sends, op) /\ sends' \in Seq(1..Len(Prog)) /\ Len(sends') = n
      /\ sends'[n] = op /\ \A t \in 1..Len(sends) : sends'[t] = sends[t]
  BY <1>2, AppendProperties DEF Transmit
<1>5. Txns' = 1..n /\ \A t \in Txns : t \in 1..n /\ sends'[t] = sends[t] /\ t < n /\ t \in Nat
  BY <1>2, <1>4 DEF Txns
<1>6. /\ wire' = wire \o B
      /\ UNCHANGED <<whole, op, queue, buffer, received, executed, replies, lost>>
  BY <1>4 DEF Transmit
<1>7. n = Len(sends) + 1 /\ size = Prog[op]
  OBVIOUS
<1> HIDE DEF n, size
<1>8. B \in Seq(Cells) /\ Len(B) = size
      /\ \A i \in 1..size : B[i] = [txn |-> n, off |-> i - 1]
  <2>1. \A i \in 1..size : [txn |-> n, off |-> i - 1] \in Cells
    BY <1>3 DEF Cells
  <2> QED
    BY <1>3, <2>1
<1> HIDE DEF B
<1>9. /\ wire' \in Seq(Cells) /\ DOMAIN wire' = 1..Len(wire) + size
      /\ \A i \in DOMAIN wire : wire'[i] = wire[i]
      /\ \A i \in 1..size : wire'[Len(wire) + i] = [txn |-> n, off |-> i - 1]
  BY <1>2, <1>6, <1>8, ConcatCells
<1>10. \A i \in DOMAIN wire' : \/ i \in DOMAIN wire /\ wire'[i] = wire[i] /\ i <= Len(wire)
                               \/ /\ i > Len(wire) /\ i - Len(wire) \in 1..size /\ i \in Nat
                                  /\ wire'[i] = [txn |-> n, off |-> i - Len(wire) - 1]
  <2> TAKE i \in DOMAIN wire'
  <2>1. CASE i <= Len(wire)
    BY <1>2, <1>3, <1>9, <2>1
  <2>2. CASE ~(i <= Len(wire))
    <3>1. /\ i \in Nat /\ i > Len(wire) /\ Len(wire) + (i - Len(wire)) = i
          /\ i - Len(wire) \in 1..size
      BY <1>2, <1>3, <1>9, <2>2
    <3> QED
      BY <1>9, <3>1
  <2> QED
    BY <2>1, <2>2
<1>11. TypeOK'
  BY <1>1, <1>3, <1>4, <1>6, <1>9 DEF TypeOK
<1>12. Counted'
  <2>1. Waiting'
    BY <1>3, <1>4, <1>6 DEF Waiting
  <2>2. n <= op + MaxRepeats
    BY <1>2, <1>7
  <2> QED
    BY <1>4, <1>6, <2>1, <2>2 DEF Counted
<1>13. \A c \in Live' : c \in Live \/ (c.txn = n /\ c.off \in Nat)
  <2>1. \A c \in Live' : \/ \E i \in DOMAIN queue : c = queue[i]
                         \/ \E i \in DOMAIN wire' : c = wire'[i]
                         \/ received > 0 /\ c = buffer[0]
    BY <1>6 DEF Live
  <2>2. \A i \in DOMAIN wire' : \/ wire'[i] \in Live
                                \/ wire'[i].txn = n /\ wire'[i].off \in Nat
    BY <1>2, <1>10, LiveFacts
  <2> QED
    BY <2>1, <2>2, LiveFacts
<1>14. Known'
  <2>1. \A c \in Live' : c.txn \in Txns' /\ (c.off = 0 => sends'[c.txn] = op')
    BY <1>1, <1>3, <1>4, <1>5, <1>6, <1>13 DEF Known
  <2> QED
    BY <1>1, <1>5, <1>6, <2>1 DEF Known
<1>15. \A c \in Live : c.txn \in Nat /\ c.txn < n
  BY <1>1, <1>5 DEF Known
<1>16. Ordered'
  <2>1. \A i, j \in DOMAIN wire' : i < j => Before(wire'[i], wire'[j])
    <3> TAKE i, j \in DOMAIN wire'
    <3> HAVE i < j
    <3>1. CASE j \in DOMAIN wire /\ j <= Len(wire)
      <4>1. i \in DOMAIN wire
        BY <1>2, <1>10, <3>1
      <4> QED
        BY <1>1, <1>9, <3>1, <4>1 DEF Ordered
    <3>2. CASE j > Len(wire) /\ j \in Nat /\ wire'[j] = [txn |-> n, off |-> j - Len(wire) - 1]
      <4>1. CASE i \in DOMAIN wire
        BY <1>9, <1>15, <3>2, <4>1, LiveFacts DEF Before
      <4>2. CASE i \in Nat /\ wire'[i] = [txn |-> n, off |-> i - Len(wire) - 1]
        <5>1. i - Len(wire) - 1 < j - Len(wire) - 1
          BY <1>2, <3>2, <4>2
        <5> QED
          BY <3>2, <4>2, <5>1 DEF Before
      <4> QED
        BY <1>10, <4>1, <4>2
    <3> QED
      BY <1>10, <3>1, <3>2
  <2>2. ASSUME NEW c \in Live, NEW j \in DOMAIN wire', wire'[j].txn = n PROVE Before(c, wire'[j])
    BY <1>15, <2>2 DEF Before
  <2>3. \A j \in DOMAIN wire' : (j \in DOMAIN wire /\ wire'[j] = wire[j]) \/ wire'[j].txn = n
    BY <1>10
  <2>4. \A i \in DOMAIN queue, j \in DOMAIN wire' : Before(queue[i], wire'[j])
    BY <1>1, <2>2, <2>3, LiveFacts DEF Ordered
  <2>5. received > 0 => \A j \in DOMAIN wire' : Before(buffer[0], wire'[j])
    BY <1>1, <2>2, <2>3, LiveFacts DEF Ordered
  <2> QED
    BY <1>1, <1>6, <2>1, <2>4, <2>5 DEF Ordered
<1>17. Behind'
  <2>1. /\ \A k \in DOMAIN executed : executed[k] # Garbled => executed[k] < n
        /\ \A k \in DOMAIN replies : replies[k] # Garbled => replies[k] < n
    BY <1>1, <1>5 DEF Known
  <2>2. ASSUME NEW t, t < n, NEW c, c.txn = n PROVE Before(Head0(t), c)
    BY <2>2 DEF Before, Head0
  <2> QED
    BY <1>1, <1>6, <1>13, <2>1, <2>2 DEF Behind
<1>18. OncePerSend'
  BY <1>1, <1>6 DEF OncePerSend
<1>19. Together'
  <2>1. \A i \in DOMAIN wire' : wire'[i].off = 0 => Complete(wire, i)'
    <3> TAKE i \in DOMAIN wire'
    <3> HAVE wire'[i].off = 0
    <3>1. CASE i \in DOMAIN wire
      <4>1. wire[i].txn \in Txns /\ wire'[i] = wire[i]
        BY <1>1, <1>9, <3>1, LiveFacts DEF Known
      <4>2. \A d \in 0..Prog[sends[wire[i].txn]] - 1 :
                i + d \in DOMAIN wire /\ wire[i + d] = [txn |-> wire[i].txn, off |-> d]
        BY <1>1, <3>1, <4>1 DEF Together, Complete, Size
      <4>3. DOMAIN wire \subseteq DOMAIN wire'
        BY <1>2, <1>3, <1>9
      <4>4. \A d \in 0..Prog[sends[wire[i].txn]] - 1 :
                i + d \in DOMAIN wire' /\ wire'[i + d] = [txn |-> wire[i].txn, off |-> d]
        BY <1>9, <4>2, <4>3
      <4> QED
        BY <1>5, <4>1, <4>4 DEF Complete, Size
    <3>2. CASE i > Len(wire) /\ i \in Nat /\ wire'[i] = [txn |-> n, off |-> i - Len(wire) - 1]
      <4>1. i = Len(wire) + 1 /\ wire'[i].txn = n
        BY <1>2, <3>2
      <4>2. \A d \in 0..size - 1 : i + d \in DOMAIN wire' /\ wire'[i + d] = [txn |-> n, off |-> d]
        <5> TAKE d \in 0..size - 1
        <5>0. d \in Nat /\ d <= size - 1 /\ size \in Nat /\ Len(wire) \in Nat /\ i = Len(wire) + 1
          BY <1>2, <1>3, <4>1
        <5>1. d + 1 \in 1..size /\ i + d = Len(wire) + (d + 1) /\ (d + 1) - 1 = d
          BY <5>0
        <5>2. i + d \in DOMAIN wire'
          BY <1>2, <1>3, <1>9, <5>1
        <5>3. wire'[Len(wire) + (d + 1)] = [txn |-> n, off |-> (d + 1) - 1]
          BY <1>9, <5>1
        <5> QED
          BY <5>1, <5>2, <5>3
      <4>3. Prog[sends'[wire'[i].txn]] = size
        BY <1>4, <1>7, <4>1
      <4> QED
        BY <4>1, <4>2, <4>3 DEF Complete, Size
    <3> QED
      BY <1>10, <3>1, <3>2
  <2>2. whole => \A i \in DOMAIN queue : queue[i].off = 0 => Complete(queue, i)'
    BY <1>1, <1>5, <1>6, LiveFacts DEF Together, Complete, Known, Size
  <2>3. Promised' /\ received > 0 /\ buffer[0].off = 0 => Complete(buffer, 0)'
    BY <1>1, <1>5, <1>6, LiveFacts DEF Together, Complete, Known, Promised, Size
  <2> QED
    BY <1>1, <1>6, <2>1, <2>2, <2>3 DEF Together, Promised
<1> QED
  BY <1>11, <1>12, <1>14, <1>16, <1>17, <1>18, <1>19 DEF SessionIInv

\* Request and Repeat are transmissions within the client's bound.
LEMMA ClientSends == ASSUME SessionIInv, Request \/ Repeat PROVE SessionIInv'
<1>1. TypeOK /\ Counted
  BY DEF SessionIInv
<1>2. CASE Request
  BY <1>1, <1>2, TransmitStep DEF Request, Counted
<1>3. CASE Repeat
  <2>1. op <= Len(Prog)
    BY <1>1, <1>3 DEF Repeat, Waiting, TypeOK
  <2> QED
    BY <1>3, <2>1, TransmitStep DEF Repeat
<1> QED
  BY <1>2, <1>3

\* A reply that is for the last transmission ends the operation: everything up to that
\* transmission is behind the stream, so no head of the old operation is left in it.
LEMMA AnswerStep == ASSUME SessionIInv, Answer PROVE SessionIInv'
<1>1. TypeOK /\ Counted /\ Known /\ Ordered /\ Behind /\ OncePerSend /\ Together
  BY DEF SessionIInv
<1>2. /\ replies # <<>> /\ replies' = Tail(replies) /\ replies \in Seq(0..MaxSends)
      /\ UNCHANGED <<whole, sends, wire, queue, buffer, received, executed, lost>>
  BY <1>1 DEF Answer, TypeOK
<1>3. /\ replies' \in Seq(0..MaxSends) /\ 1 \in DOMAIN replies /\ Head(replies) = replies[1]
      /\ \A k \in DOMAIN replies' : k + 1 \in DOMAIN replies /\ replies'[k] = replies[k + 1]
  BY <1>2
<1>4. /\ Len(sends) \in Nat /\ Txns = 1..Len(sends) /\ op \in Nat /\ MaxRepeats \in Nat
      /\ Len(Prog) \in Nat /\ op \in 1..Len(Prog) + 1 /\ sends \in Seq(1..Len(Prog))
  BY <1>1, Facts DEF TypeOK
<1>5. Live' = Live /\ Txns' = Txns
  BY <1>2 DEF Live, Txns
<1>6. CASE UNCHANGED op
  <2>1. TypeOK' /\ Counted'
    BY <1>1, <1>2, <1>3, <1>6 DEF TypeOK, Counted, Waiting
  <2>2. Known' /\ Behind'
    BY <1>1, <1>2, <1>3, <1>5, <1>6 DEF Known, Behind
  <2>3. Ordered' /\ OncePerSend'
    BY <1>1, <1>2 DEF Ordered, OncePerSend
  <2>4. Together'
    BY <1>1, <1>2, <1>3 DEF Together, Complete, Size, Promised
  <2> QED
    BY <2>1, <2>2, <2>3, <2>4 DEF SessionIInv
<1>7. CASE Waiting /\ Head(replies) = Len(sends) /\ op' = op + 1
  <2>1. sends # <<>> /\ Len(sends) > 0 /\ sends[Len(sends)] = op /\ op <= Len(Prog)
    BY <1>4, <1>7 DEF Waiting
  <2>2. TypeOK'
    BY <1>1, <1>2, <1>3, <1>4, <1>7, <2>1 DEF TypeOK
  <2>3. Counted'
    BY <1>1, <1>2, <1>4, <1>7, <2>1 DEF Counted
  <2>4. \A c \in Live : c.off # 0
    <3> TAKE c \in Live
    <3>1. Before(Head0(Len(sends)), c)
      BY <1>1, <1>3, <1>7, <2>1 DEF Behind, Garbled
    <3>2. c.txn \in 1..Len(sends)
      BY <1>1, <1>4 DEF Known
    <3> QED
      BY <1>4, <3>1, <3>2 DEF Before, Head0
  <2>5. Known'
    BY <1>1, <1>2, <1>3, <1>5, <2>4 DEF Known
  <2>6. Behind'
    BY <1>1, <1>2, <1>3, <1>5 DEF Behind
  <2>7. Ordered' /\ OncePerSend'
    BY <1>1, <1>2 DEF Ordered, OncePerSend
  <2>8. Together'
    BY <1>1, <1>2, <1>3 DEF Together, Complete, Size, Promised
  <2> QED
    BY <2>2, <2>3, <2>5, <2>6, <2>7, <2>8 DEF SessionIInv
<1> QED
  BY <1>6, <1>7 DEF Answer

\* A segment moves the first cells of the wire to the socket. When segments end where
\* requests do, a head in the segment has its request in it.
LEMMA DeliverStep == ASSUME SessionIInv, Deliver PROVE SessionIInv'
<1>1. TypeOK /\ Counted /\ Known /\ Ordered /\ Behind /\ OncePerSend /\ Together
  BY DEF SessionIInv
<1>2. PICK n \in 1..Len(wire) :
         /\ whole => wire[n].off = Size(wire[n].txn) - 1
         /\ queue' = queue \o SubSeq(wire, 1, n)
         /\ wire' = SubSeq(wire, n + 1, Len(wire))
  BY DEF Deliver
<1>3. UNCHANGED <<whole, op, sends, buffer, received, executed, replies, lost>>
  BY DEF Deliver
<1>4. /\ Len(wire) \in Nat /\ DOMAIN wire = 1..Len(wire) /\ wire \in Seq(Cells)
      /\ Len(queue) \in Nat /\ DOMAIN queue = 1..Len(queue) /\ queue \in Seq(Cells)
      /\ n \in Nat /\ n \in 0..Len(wire)
  BY <1>1, Facts DEF TypeOK
<1>5. /\ wire' \in Seq(Cells) /\ DOMAIN wire' = 1..Len(wire) - n
      /\ \A i \in DOMAIN wire' : wire'[i] = wire[i + n] /\ i + n \in DOMAIN wire /\ i \in Nat
  <2> DEFINE r == SubSeq(wire, n + 1, Len(wire))
  <2>1. /\ r \in Seq(Cells) /\ DOMAIN r = 1..Len(wire) - n
        /\ \A i \in 1..Len(wire) - n : r[i] = wire[i + n] /\ i + n \in 1..Len(wire)
    BY <1>4, SuffixCells
  <2>2. wire' = r
    BY <1>2
  <2> HIDE DEF r
  <2> QED
    BY <1>4, <2>1, <2>2
<1>6. /\ queue' \in Seq(Cells) /\ DOMAIN queue' = 1..Len(queue) + n
      /\ \A i \in DOMAIN queue : queue'[i] = queue[i]
      /\ \A i \in 1..n : queue'[Len(queue) + i] = wire[i]
  <2> DEFINE r == SubSeq(wire, 1, n)
  <2>1. r \in Seq(Cells) /\ Len(r) = n /\ \A i \in 1..n : r[i] = wire[i]
    BY <1>4, PrefixCells
  <2>2. queue' = queue \o r
    BY <1>2
  <2> HIDE DEF r
  <2>3. /\ queue \o r \in Seq(Cells) /\ DOMAIN (queue \o r) = 1..Len(queue) + Len(r)
        /\ \A i \in 1..Len(queue) : (queue \o r)[i] = queue[i]
        /\ \A i \in 1..Len(r) : (queue \o r)[Len(queue) + i] = r[i]
    <3>1. queue \in Seq(Cells) /\ r \in Seq(Cells)
      BY <1>4, <2>1
    <3> QED
      BY ONLY <3>1, ConcatCells
  <2> QED
    BY <1>4, <2>1, <2>2, <2>3
<1>7. \A i \in DOMAIN queue' : \/ i \in DOMAIN queue /\ queue'[i] = queue[i] /\ i <= Len(queue)
                               \/ /\ i > Len(queue) /\ i \in Nat /\ i - Len(queue) \in DOMAIN wire
                                  /\ i - Len(queue) <= n /\ queue'[i] = wire[i - Len(queue)]
  <2> TAKE i \in DOMAIN queue'
  <2>1. CASE i <= Len(queue)
    BY <1>4, <1>6, <2>1
  <2>2. CASE ~(i <= Len(queue))
    <3>1. /\ i \in Nat /\ i > Len(queue) /\ Len(queue) + (i - Len(queue)) = i
          /\ i - Len(queue) \in 1..n
      BY <1>4, <1>6, <2>2
    <3> QED
      BY <1>4, <1>6, <3>1
  <2> QED
    BY <2>1, <2>2
<1>8. TypeOK' /\ Counted' /\ OncePerSend'
  BY <1>1, <1>3, <1>5, <1>6 DEF TypeOK, Counted, Waiting, OncePerSend
<1>9. Live' \subseteq Live /\ Txns' = Txns
  <2>1. \A c \in Live' : \/ \E i \in DOMAIN queue' : c = queue'[i]
                         \/ \E i \in DOMAIN wire' : c = wire'[i]
                         \/ received > 0 /\ c = buffer[0]
    BY <1>3 DEF Live
  <2> QED
    BY <1>3, <1>5, <1>7, <2>1, LiveFacts DEF Txns
<1>10. Known' /\ Behind'
  BY <1>1, <1>3, <1>9 DEF Known, Behind
<1>11. Ordered'
  <2>1. \A i, j \in DOMAIN queue' : i < j => Before(queue'[i], queue'[j])
    <3> TAKE i, j \in DOMAIN queue'
    <3> HAVE i < j
    <3>1. CASE j <= Len(queue) /\ j \in DOMAIN queue /\ queue'[j] = queue[j]
      <4>1. i \in DOMAIN queue /\ queue'[i] = queue[i]
        BY <1>4, <1>7, <3>1
      <4> QED
        BY <1>1, <3>1, <4>1 DEF Ordered
    <3>2. CASE /\ j \in Nat /\ j - Len(queue) \in DOMAIN wire /\ queue'[j] = wire[j - Len(queue)]
      <4>1. CASE i \in DOMAIN queue /\ queue'[i] = queue[i]
        BY <1>1, <3>2, <4>1 DEF Ordered
      <4>2. CASE i \in Nat /\ i - Len(queue) \in DOMAIN wire /\ queue'[i] = wire[i - Len(queue)]
        <5>1. i - Len(queue) < j - Len(queue)
          BY <1>4, <3>2, <4>2
        <5> QED
          BY <1>1, <3>2, <4>2, <5>1 DEF Ordered
      <4> QED
        BY <1>7, <4>1, <4>2
    <3> QED
      BY <1>7, <3>1, <3>2
  <2>2. \A i, j \in DOMAIN wire' : i < j => Before(wire'[i], wire'[j])
    <3> TAKE i, j \in DOMAIN wire'
    <3> HAVE i < j
    <3>1. i + n < j + n
      BY <1>4, <1>5
    <3> QED
      BY <1>1, <1>5, <3>1 DEF Ordered
  <2>3. \A i \in DOMAIN queue', j \in DOMAIN wire' : Before(queue'[i], wire'[j])
    <3> TAKE i \in DOMAIN queue', j \in DOMAIN wire'
    <3>1. CASE i \in DOMAIN queue /\ queue'[i] = queue[i]
      BY <1>1, <1>5, <3>1 DEF Ordered
    <3>2. CASE /\ i \in Nat /\ i - Len(queue) \in DOMAIN wire
               /\ i - Len(queue) <= n /\ queue'[i] = wire[i - Len(queue)]
      <4>1. i - Len(queue) < j + n /\ j + n \in DOMAIN wire /\ wire'[j] = wire[j + n]
        BY <1>4, <1>5, <3>2
      <4> QED
        BY <1>1, <3>2, <4>1 DEF Ordered
    <3> QED
      BY <1>7, <3>1, <3>2
  <2>4. received > 0 => /\ \A i \in DOMAIN queue' : Before(buffer[0], queue'[i])
                        /\ \A i \in DOMAIN wire' : Before(buffer[0], wire'[i])
    BY <1>1, <1>5, <1>7 DEF Ordered
  <2> QED
    BY <1>3, <2>1, <2>2, <2>3, <2>4 DEF Ordered
<1>12. Together'
  <2>1. \A i \in DOMAIN wire' : wire'[i].off = 0 => Complete(wire, i)'
    <3> TAKE i \in DOMAIN wire'
    <3> HAVE wire'[i].off = 0
    <3>1. i \in 1..Len(wire) - n /\ i + n \in DOMAIN wire /\ wire'[i] = wire[i + n]
      BY <1>5
    <3>2. \A d \in 0..Prog[sends[wire[i + n].txn]] - 1 :
              /\ (i + n) + d \in DOMAIN wire
              /\ wire[(i + n) + d] = [txn |-> wire[i + n].txn, off |-> d]
      BY <1>1, <3>1 DEF Together, Complete, Size
    <3>3. ASSUME NEW d \in 0..Prog[sends[wire'[i].txn]] - 1
          PROVE  i + d \in DOMAIN wire' /\ wire'[i + d] = [txn |-> wire'[i].txn, off |-> d]
      <4>1. (i + n) + d \in 1..Len(wire) /\ wire[(i + n) + d] = [txn |-> wire'[i].txn, off |-> d]
        BY <1>4, <3>1, <3>2
      <4>2. i + d \in 1..Len(wire) - n /\ (i + d) + n = (i + n) + d
        BY <1>4, <3>1, <4>1
      <4> QED
        BY <1>5, <4>1, <4>2
    <3> QED
      BY <1>3, <3>3 DEF Complete, Size
  <2>2. ASSUME whole PROVE \A i \in DOMAIN queue' : queue'[i].off = 0 => Complete(queue, i)'
    <3> TAKE i \in DOMAIN queue'
    <3> HAVE queue'[i].off = 0
    <3>1. CASE i \in DOMAIN queue /\ queue'[i] = queue[i]
      <4>1. \A d \in 0..Prog[sends[queue[i].txn]] - 1 :
                i + d \in DOMAIN queue /\ queue[i + d] = [txn |-> queue[i].txn, off |-> d]
        BY <1>1, <2>2, <3>1 DEF Together, Complete, Size
      <4>2. DOMAIN queue \subseteq DOMAIN queue'
        BY <1>4, <1>6
      <4> QED
        BY <1>3, <1>6, <3>1, <4>1, <4>2 DEF Complete, Size
    <3>2. CASE /\ i \in Nat /\ i > Len(queue) /\ i - Len(queue) \in DOMAIN wire
               /\ i - Len(queue) <= n /\ queue'[i] = wire[i - Len(queue)]
      <4> DEFINE j == i - Len(queue)
                 t == wire[j].txn
      <4>1. /\ j \in DOMAIN wire /\ j \in Nat /\ j <= n /\ i = j + Len(queue)
            /\ queue'[i] = wire[j] /\ t \in Txns /\ wire[j].txn = t
        <5>1. wire[j] \in Live
          BY <3>2, LiveFacts
        <5>2. t \in Txns
          BY <1>1, <5>1 DEF Known
        <5> QED
          BY <1>4, <3>2, <5>2
      <4> HIDE DEF j, t
      <4>2. \A d \in 0..Prog[sends[t]] - 1 :
                j + d \in DOMAIN wire /\ wire[j + d] = [txn |-> t, off |-> d]
        BY <1>1, <4>1 DEF Together, Complete, Size
      <4>3. Prog[sends[t]] \in Nat /\ Prog[sends[t]] > 0
        BY <1>1, <4>1, Facts DEF Size
      <4>4. j + Prog[sends[t]] - 1 <= n
        <5>1. SUFFICES ASSUME n < j + Prog[sends[t]] - 1 PROVE FALSE
          BY <1>4, <4>1, <4>3
        <5>2. n - j \in 0..Prog[sends[t]] - 1 /\ j + (n - j) = n /\ n - j < Prog[sends[t]] - 1
          BY <1>4, <4>1, <4>3, <5>1
        <5>3. wire[n] = [txn |-> t, off |-> n - j]
          BY <4>2, <5>2
        <5> QED
          BY <1>2, <2>2, <4>3, <5>2, <5>3 DEF Size
      <4>5. ASSUME NEW d \in 0..Prog[sends[t]] - 1
            PROVE  i + d \in DOMAIN queue' /\ queue'[i + d] = [txn |-> t, off |-> d]
        <5>1. j + d \in 1..n /\ i + d = Len(queue) + (j + d)
          BY <1>4, <4>1, <4>3, <4>4
        <5>2. i + d \in DOMAIN queue'
          BY <1>4, <1>6, <5>1
        <5> QED
          BY <1>6, <4>2, <5>1, <5>2
      <4> QED
        BY <1>3, <4>1, <4>5 DEF Complete, Size
    <3> QED
      BY <1>7, <3>1, <3>2
  <2>3. Promised' /\ received > 0 /\ buffer[0].off = 0 => Complete(buffer, 0)'
    BY <1>1, <1>3 DEF Together, Complete, Size, Promised
  <2> QED
    BY <1>1, <1>3, <2>1, <2>2, <2>3 DEF Together, Promised
<1> QED
  BY <1>8, <1>10, <1>11, <1>12 DEF SessionIInv
-----------------------------------------------------------------------------
(* The server.                                                              *)

\* lwip_recv moves the first cells of the queue to the buffer: its first cell is now
\* the one that everything still in the queue comes after (modbus_tcp.c:100-101).
LEMMA RecvStep == ASSUME SessionIInv, Recv PROVE SessionIInv'
<1>1. TypeOK /\ Counted /\ Known /\ Ordered /\ Behind /\ OncePerSend /\ Together
  BY DEF SessionIInv
<1>2. queue \in Seq(Cells) /\ buffer \in [0..BufSize - 1 -> Cells]
  BY <1>1 DEF TypeOK
<1>3. /\ Len(queue) \in Nat /\ DOMAIN queue = 1..Len(queue) /\ Len(queue) > 0
      /\ DOMAIN buffer = 0..BufSize - 1
      /\ BufSize \in Nat /\ BufSize > 0 /\ 0 \in DOMAIN buffer
  BY <1>1, <1>2, Facts, SessionAssumption DEF Recv
<1>4. PICK r \in Nat : /\ r = received' /\ r > 0 /\ r <= BufSize /\ r <= Len(queue)
                       /\ r \in {Len(queue), BufSize}
  <2>1. /\ RecvCount(Len(queue)) \in Nat /\ RecvCount(Len(queue)) > 0
        /\ RecvCount(Len(queue)) <= BufSize /\ RecvCount(Len(queue)) <= Len(queue)
        /\ RecvCount(Len(queue)) \in {Len(queue), BufSize}
    BY <1>3 DEF RecvCount
  <2> QED
    BY <2>1 DEF Recv
<1>5. /\ buffer' = [i \in DOMAIN buffer |-> IF i < r THEN queue[i + 1] ELSE buffer[i]]
      /\ queue' = SubSeq(queue, r + 1, Len(queue))
      /\ UNCHANGED <<whole, op, sends, wire, executed, replies, lost>>
  BY <1>4 DEF Recv, Consumed
<1>6. /\ queue' \in Seq(Cells) /\ DOMAIN queue' = 1..Len(queue) - r
      /\ \A i \in DOMAIN queue' : queue'[i] = queue[i + r] /\ i + r \in DOMAIN queue /\ i \in Nat
  <2> DEFINE q == SubSeq(queue, r + 1, Len(queue))
  <2>1. /\ q \in Seq(Cells) /\ DOMAIN q = 1..Len(queue) - r
        /\ \A i \in 1..Len(queue) - r : q[i] = queue[i + r] /\ i + r \in 1..Len(queue)
    <3>1. queue \in Seq(Cells) /\ r \in 0..Len(queue)
      BY <1>2, <1>3, <1>4
    <3> QED
      BY ONLY <3>1, SuffixCells
  <2>2. queue' = q /\ DOMAIN queue = 1..Len(queue) /\ \A i \in 1..Len(queue) - r : i \in Nat
    BY <1>3, <1>4, <1>5
  <2> HIDE DEF q
  <2> QED
    BY ONLY <2>1, <2>2
<1>7. /\ DOMAIN buffer' = DOMAIN buffer
      /\ \A i \in DOMAIN buffer : \/ /\ i < r /\ i + 1 \in DOMAIN queue
                                     /\ buffer'[i] = queue[i + 1]
                                  \/ ~(i < r) /\ buffer'[i] = buffer[i]
  <2>1. \A i \in DOMAIN buffer : i < r => i + 1 \in DOMAIN queue
    BY <1>3, <1>4
  <2> QED
    BY <1>5, <2>1
<1>8. buffer' \in [0..BufSize - 1 -> Cells]
  <2>1. \A i \in DOMAIN buffer : buffer'[i] \in Cells
    BY <1>1, <1>7, Facts
  <2> QED
    BY <1>3, <1>7, <1>2, <2>1, buffer' = [i \in DOMAIN buffer |-> buffer'[i]]
<1>9. 1 \in DOMAIN queue /\ buffer'[0] = queue[1]
  <2>1. 1 \in DOMAIN queue /\ 0 + 1 = 1 /\ 0 < r
    BY <1>3, <1>4
  <2> QED
    BY <1>3, <1>7, <2>1
<1>10. TypeOK'
  <2>1. received' \in 0..BufSize
    BY <1>3, <1>4
  <2> QED
    BY <1>1, <1>5, <1>6, <1>8, <2>1 DEF TypeOK
<1>11. Counted' /\ OncePerSend'
  BY <1>1, <1>5 DEF Counted, Waiting, OncePerSend
<1>12. Live' \subseteq Live /\ Txns' = Txns
  <2>1. \A c \in Live' : \/ \E i \in DOMAIN queue' : c = queue'[i]
                         \/ \E i \in DOMAIN wire : c = wire[i]
                         \/ c = buffer'[0]
    BY <1>4, <1>5 DEF Live
  <2> QED
    BY <1>5, <1>6, <1>9, <2>1, LiveFacts DEF Txns
<1>13. Known' /\ Behind'
  <2>1. \A i \in DOMAIN buffer' : buffer'[i].txn \in Txns \cup {Garbled}
    BY <1>1, <1>7, LiveFacts DEF Known
  <2> QED
    BY <1>1, <1>5, <1>12, <2>1 DEF Known, Behind
<1>14. Ordered'
  <2>1. \A i, j \in DOMAIN queue' : i < j => Before(queue'[i], queue'[j])
    <3> TAKE i, j \in DOMAIN queue'
    <3> HAVE i < j
    <3>1. i + r < j + r
      BY <1>4, <1>6
    <3> QED
      BY <1>1, <1>6, <3>1 DEF Ordered
  <2>2. \A i \in DOMAIN queue', j \in DOMAIN wire : Before(queue'[i], wire[j])
    BY <1>1, <1>6 DEF Ordered
  <2>3. \A i \in DOMAIN queue' : Before(buffer'[0], queue'[i])
    <3> TAKE i \in DOMAIN queue'
    <3>1. 1 < i + r
      BY <1>4, <1>6
    <3> QED
      BY <1>1, <1>6, <1>9, <3>1 DEF Ordered
  <2>4. \A i \in DOMAIN wire : Before(buffer'[0], wire[i])
    BY <1>1, <1>9 DEF Ordered
  <2> QED
    BY <1>1, <1>5, <2>1, <2>2, <2>3, <2>4 DEF Ordered
<1>15. Together'
  <2>1. \A i \in DOMAIN wire' : wire'[i].off = 0 => Complete(wire, i)'
    BY <1>1, <1>5 DEF Together, Complete, Size
  <2>2. ASSUME whole PROVE \A i \in DOMAIN queue' : queue'[i].off = 0 => Complete(queue, i)'
    <3> TAKE i \in DOMAIN queue'
    <3> HAVE queue'[i].off = 0
    <3>1. i \in 1..Len(queue) - r /\ i + r \in DOMAIN queue /\ queue'[i] = queue[i + r]
      BY <1>6
    <3>2. \A d \in 0..Prog[sends[queue[i + r].txn]] - 1 :
              /\ (i + r) + d \in DOMAIN queue
              /\ queue[(i + r) + d] = [txn |-> queue[i + r].txn, off |-> d]
      BY <1>1, <2>2, <3>1 DEF Together, Complete, Size
    <3>3. ASSUME NEW d \in 0..Prog[sends[queue'[i].txn]] - 1
          PROVE  i + d \in DOMAIN queue' /\ queue'[i + d] = [txn |-> queue'[i].txn, off |-> d]
      <4>1. /\ (i + r) + d \in 1..Len(queue)
            /\ queue[(i + r) + d] = [txn |-> queue'[i].txn, off |-> d]
        BY <1>3, <3>1, <3>2
      <4>2. i + d \in 1..Len(queue) - r /\ (i + d) + r = (i + r) + d
        BY <1>3, <1>4, <3>1, <4>1
      <4> QED
        BY <1>6, <4>1, <4>2
    <3> QED
      BY <1>5, <3>3 DEF Complete, Size
  <2>3. ASSUME Promised, buffer'[0].off = 0 PROVE Complete(buffer, 0)'
    <3>1. PICK t \in Txns : queue[1].txn = t /\ buffer'[0].txn = t /\ queue[1].off = 0
      BY <1>1, <1>9, <2>3, LiveFacts DEF Known
    <3>2. /\ Prog[sends[t]] \in Nat /\ Prog[sends[t]] <= BufSize
      BY <1>1, <2>3, <3>1, Facts DEF Promised
    <3>3. \A d \in 0..Prog[sends[t]] - 1 :
              1 + d \in DOMAIN queue /\ queue[1 + d] = [txn |-> t, off |-> d]
      BY <1>1, <1>9, <2>3, <3>1 DEF Together, Complete, Size, Promised
    <3>4. ASSUME NEW d \in 0..Prog[sends[t]] - 1
          PROVE  0 + d \in DOMAIN buffer' /\ buffer'[0 + d] = [txn |-> t, off |-> d]
      <4>1. 0 + d = d /\ d \in DOMAIN buffer /\ 1 + d = d + 1 /\ d < BufSize
        BY <1>3, <3>2
      <4>2. d < r
        BY <1>3, <1>4, <3>3, <4>1
      <4> QED
        BY <1>7, <3>3, <4>1, <4>2
    <3> QED
      BY <1>5, <3>1, <3>4 DEF Complete, Size
  <2> QED
    BY <1>1, <1>5, <2>1, <2>2, <2>3 DEF Together, Promised
<1> QED
  BY <1>10, <1>11, <1>13, <1>14, <1>15 DEF SessionIInv

\* What modbus_handle_request takes for a request of the client is the transmission
\* whose head is first in the buffer.
LEMMA SeenFacts ==
    ASSUME TypeOK, Known
    PROVE  /\ Seen \in Txns \cup {Garbled} /\ ReplyTxn \in Txns \cup {Garbled}
           /\ Seen # Garbled => buffer[0] = Head0(Seen)
           /\ ReplyTxn # Garbled => buffer[0] = Head0(ReplyTxn)
           /\ ReplyTxn # Garbled /\ Complete(buffer, 0)
                 => Seen = ReplyTxn /\ buffer[FcCell].off = FcCell
<1>1. /\ 0 \in DOMAIN buffer /\ FcCell \in DOMAIN buffer /\ FcCell \in Nat
      /\ buffer[FcCell].txn \in Txns \cup {Garbled} /\ buffer[0].txn \in Txns \cup {Garbled}
      /\ buffer[0] \in Cells /\ \A t \in Txns : Size(t) \in Nat /\ Size(t) > FcCell
  BY Facts DEF Known
<1>2. Seen \in Txns \cup {Garbled} /\ ReplyTxn \in Txns \cup {Garbled}
  BY <1>1 DEF Seen, ReplyTxn
<1>3. ASSUME Seen # Garbled PROVE buffer[0] = Head0(Seen)
  <2>1. /\ Seen = buffer[FcCell].txn /\ Seen \in Txns
        /\ \A i \in 0..Size(Seen) - 1 : buffer[i] = [txn |-> Seen, off |-> i]
    BY <1>1, <1>3 DEF Seen
  <2>2. 0 \in 0..Size(Seen) - 1
    BY <1>1, <2>1
  <2> QED
    BY <2>1, <2>2 DEF Head0
<1>4. ASSUME ReplyTxn # Garbled PROVE buffer[0] = Head0(ReplyTxn)
  <2>1. buffer[0].off = 0 /\ ReplyTxn = buffer[0].txn
    BY <1>4 DEF ReplyTxn
  <2> QED
    BY <1>1, <2>1 DEF Head0, Cells
<1>5. ASSUME ReplyTxn # Garbled, Complete(buffer, 0)
      PROVE  Seen = ReplyTxn /\ buffer[FcCell].off = FcCell
  <2>1. PICK t \in Txns : t = ReplyTxn /\ buffer[0].txn = t /\ t # Garbled
    BY <1>2, <1>5 DEF ReplyTxn
  <2>2. \A i \in 0..Size(t) - 1 : i \in DOMAIN buffer /\ buffer[i] = [txn |-> t, off |-> i]
    <3> TAKE i \in 0..Size(t) - 1
    <3>1. 0 + i \in DOMAIN buffer /\ buffer[0 + i] = [txn |-> t, off |-> i] /\ 0 + i = i
      BY <1>1, <1>5, <2>1 DEF Complete
    <3> QED
      BY <3>1
  <2>3. FcCell \in 0..Size(t) - 1
    <3>1. FcCell \in Nat /\ Size(t) \in Nat /\ Size(t) > FcCell
      BY <1>1, <2>1
    <3> QED
      BY ONLY <3>1
  <2>4. buffer[FcCell].txn = t /\ buffer[FcCell].off = FcCell
    <3>1. buffer[FcCell] = [txn |-> t, off |-> FcCell]
      BY ONLY <2>2, <2>3, Zenon
    <3> QED
      BY ONLY <3>1
  <2>5. Seen = t
    BY <2>1, <2>2, <2>4 DEF Seen
  <2> QED
    BY <2>1, <2>4, <2>5
<1> QED
  BY <1>2, <1>3, <1>4, <1>5

\* modbus_tcp_handle_request leaves the buffer behind everything in the stream: what it
\* executes was not executed before, and when it answers a whole request it has
\* executed it.
LEMMA HandleStep == ASSUME SessionIInv, Handle PROVE SessionIInv'
<1>1. TypeOK /\ Counted /\ Known /\ Ordered /\ Behind /\ OncePerSend /\ Together
  BY DEF SessionIInv
<1>2. /\ received > 0 /\ received' = 0
      /\ UNCHANGED <<whole, op, sends, wire, queue, buffer>>
  BY DEF Handle
<1>3. /\ Txns' = Txns /\ Live' \subseteq Live
      /\ \A c \in Live' : Before(buffer[0], c)
      /\ buffer[0] \in Live
  <2>1. \A c \in Live' : \/ \E i \in DOMAIN queue : c = queue[i]
                         \/ \E i \in DOMAIN wire : c = wire[i]
    BY <1>2 DEF Live
  <2> QED
    BY <1>1, <1>2, <2>1, LiveFacts DEF Txns, Ordered
<1>4. /\ Seen \in Txns \cup {Garbled} /\ ReplyTxn \in Txns \cup {Garbled}
      /\ Seen # Garbled => buffer[0] = Head0(Seen)
      /\ ReplyTxn # Garbled => buffer[0] = Head0(ReplyTxn) /\ buffer[0].off = 0
      /\ ReplyTxn # Garbled /\ Complete(buffer, 0)
            => Seen = ReplyTxn /\ buffer[FcCell].off = FcCell
  BY <1>1, SeenFacts DEF Head0
<1>5. Txns \cup {Garbled} \subseteq 0..MaxSends
  <2>1. /\ Len(sends) \in Nat /\ Txns = 1..Len(sends) /\ MaxSends \in Nat
        /\ Len(sends) <= MaxSends
    BY <1>1, Facts DEF TypeOK
  <2> QED
    BY <2>1 DEF Garbled
<1>6. executed \in Seq(0..MaxSends) /\ replies \in Seq(0..MaxSends) /\ lost \in 0..MaxLost
  BY <1>1 DEF TypeOK
<1>7. /\ executed' = executed \/ executed' = Append(executed, Seen)
      /\ \/ replies' = replies
         \/ /\ replies' = Append(replies, ReplyTxn)
            /\ (executed' = Append(executed, Seen) \/ buffer[FcCell].off # FcCell)
      /\ lost' \in 0..MaxLost
  BY <1>6, SessionAssumption DEF Handle
<1>8. /\ executed' \in Seq(0..MaxSends)
      /\ \A k \in DOMAIN executed : k \in DOMAIN executed' /\ executed'[k] = executed[k]
      /\ \A k \in DOMAIN executed' :
             \/ k \in DOMAIN executed /\ executed'[k] = executed[k]
             \/ executed'[k] = Seen /\ k = Len(executed) + 1
  <2>1. CASE executed' = executed
    BY <1>6, <2>1
  <2>2. CASE executed' = Append(executed, Seen)
    BY <1>4, <1>5, <1>6, <2>2
  <2> QED
    BY <1>7, <2>1, <2>2
<1>9. /\ replies' \in Seq(0..MaxSends)
      /\ \A k \in DOMAIN replies' :
             \/ k \in DOMAIN replies /\ replies'[k] = replies[k]
             \/ /\ replies'[k] = ReplyTxn
                /\ (executed' = Append(executed, Seen) \/ buffer[FcCell].off # FcCell)
  <2>1. CASE replies' = replies
    BY <1>6, <2>1
  <2>2. CASE replies' = Append(replies, ReplyTxn)
    BY <1>4, <1>5, <1>6, <1>7, <2>2
  <2> QED
    BY <1>7, <2>1, <2>2
<1>10. TypeOK'
  <2>1. received' \in 0..BufSize
    BY <1>2, SessionAssumption
  <2> QED
    BY <1>1, <1>2, <1>7, <1>8, <1>9, <2>1 DEF TypeOK
<1>11. Counted' /\ Ordered'
  BY <1>1, <1>2 DEF Counted, Waiting, Ordered
<1>12. Known'
  BY <1>1, <1>2, <1>3, <1>4, <1>8, <1>9 DEF Known
<1>13. Behind'
  <2> SUFFICES ASSUME NEW c \in Live'
               PROVE  /\ \A k \in DOMAIN executed' :
                            executed'[k] # Garbled => Before(Head0(executed'[k]), c)
                      /\ \A k \in DOMAIN replies' :
                            replies'[k] # Garbled => Before(Head0(replies'[k]), c)
    BY DEF Behind
  <2>1. c \in Live /\ Before(buffer[0], c)
    BY <1>3
  <2> QED
    BY <1>1, <1>4, <1>8, <1>9, <2>1 DEF Behind
<1>14. OncePerSend'
  <2>1. \A k \in DOMAIN executed : executed[k] = Seen => Seen = Garbled
    <3> SUFFICES ASSUME NEW k \in DOMAIN executed, executed[k] = Seen, Seen # Garbled
                 PROVE  FALSE
      OBVIOUS
    <3>1. Before(Head0(Seen), Head0(Seen))
      BY <1>1, <1>3, <1>4 DEF Behind
    <3>2. Seen \in Nat
      BY <1>4, <1>5, <1>1, Facts
    <3> QED
      BY <3>1, <3>2 DEF Before, Head0
  <2> QED
    BY <1>1, <1>8, <2>1 DEF OncePerSend
<1>15. Together'
  <2>1. \A i \in DOMAIN wire' : wire'[i].off = 0 => Complete(wire, i)'
    BY <1>1, <1>2 DEF Together, Complete, Size
  <2>2. whole' => \A i \in DOMAIN queue' : queue'[i].off = 0 => Complete(queue, i)'
    BY <1>1, <1>2 DEF Together, Complete, Size
  <2>3. ~(received' > 0)
    BY <1>2
  <2>4. ASSUME Promised, NEW j \in DOMAIN replies', replies'[j] # Garbled
        PROVE  \E k \in DOMAIN executed' : executed'[k] = replies'[j]
    <3>1. CASE j \in DOMAIN replies /\ replies'[j] = replies[j]
      <4>1. PICK k \in DOMAIN executed : executed[k] = replies[j]
        BY <1>1, <2>4, <3>1 DEF Together
      <4> QED
        BY <1>8, <3>1, <4>1
    <3>2. CASE /\ replies'[j] = ReplyTxn
               /\ (executed' = Append(executed, Seen) \/ buffer[FcCell].off # FcCell)
      <4>1. buffer[0].off = 0 /\ Complete(buffer, 0)
        BY <1>1, <1>2, <1>4, <2>4, <3>2 DEF Together
      <4>2. Seen = replies'[j] /\ executed' = Append(executed, Seen)
        BY <1>4, <2>4, <3>2, <4>1
      <4>3. Len(executed) + 1 \in DOMAIN executed' /\ executed'[Len(executed) + 1] = Seen
        BY <1>6, <4>2
      <4> QED
        BY <4>2, <4>3
    <3> QED
      BY <1>9, <3>1, <3>2
  <2>5. Promised' = Promised
    BY <1>2 DEF Promised
  <2> QED
    BY <2>1, <2>2, <2>3, <2>4, <2>5 DEF Together
<1> QED
  BY <1>10, <1>11, <1>12, <1>13, <1>14, <1>15 DEF SessionIInv

\* Every step of the client, of TCP and of the server keeps the invariant.
LEMMA NextSession == SessionIInv /\ [Next]_vars => SessionIInv'
<1> SUFFICES ASSUME SessionIInv, [Next]_vars PROVE SessionIInv'
  OBVIOUS
<1>1. CASE Finished \/ UNCHANGED vars
  <2>1. UNCHANGED <<whole, op, sends, wire, queue, buffer, received, executed, replies, lost>>
    BY <1>1 DEF Finished, vars
  <2>2. TypeOK' /\ Counted' /\ Ordered' /\ OncePerSend'
    BY <2>1 DEF SessionIInv, TypeOK, Counted, Waiting, Ordered, OncePerSend
  <2>3. Live' = Live /\ Txns' = Txns
    BY <2>1 DEF Live, Txns
  <2>4. Known' /\ Behind'
    BY <2>1, <2>3 DEF SessionIInv, Known, Behind
  <2>5. Together'
    BY <2>1 DEF SessionIInv, Together, Complete, Promised, Size
  <2> QED
    BY <2>2, <2>4, <2>5 DEF SessionIInv
<1> QED
  BY <1>1, ClientSends, AnswerStep, DeliverStep, RecvStep, HandleStep DEF Next

\* The invariant holds along every run.
LEMMA SessionAlways == Spec => []SessionIInv
<1>1. SessionIInv /\ [Next]_vars => SessionIInv'
  BY NextSession
<1> QED
  BY <1>1, InitSession, PTL DEF Spec

\* No transmission of the client reaches the application twice, however TCP cuts the
\* stream and whatever the buffer still holds (modbus_tcp.c:95-103).
THEOREM OnceExecuted == Spec => []SessionInv
<1>1. SessionIInv => SessionInv
  BY DEF SessionIInv, SessionInv
<1> QED
  BY <1>1, SessionAlways, PTL
-----------------------------------------------------------------------------
(* The session implements ModbusService.                                    *)

\* What the server has executed, as the service sees it.
Log == [k \in DOMAIN executed |-> IF executed[k] = Garbled THEN 0 ELSE sends[executed[k]]]

\* A sequence with one more element is the one Append makes.
LEMMA IsAppend ==
    ASSUME NEW S, NEW s \in Seq(S), NEW e \in S, NEW t \in Seq(S), Len(t) = Len(s) + 1,
           \A i \in 1..Len(s) : t[i] = s[i], t[Len(s) + 1] = e
    PROVE  t = Append(s, e)
<1>1. /\ Append(s, e) \in Seq(S) /\ Len(Append(s, e)) = Len(s) + 1
      /\ \A i \in 1..Len(s) : Append(s, e)[i] = s[i]
      /\ Append(s, e)[Len(s) + 1] = e
  BY AppendProperties
<1>2. \A i \in 1..Len(t) : t[i] = Append(s, e)[i]
  <2> TAKE i \in 1..Len(t)
  <2>1. i \in 1..Len(s) \/ i = Len(s) + 1
    OBVIOUS
  <2> QED
    BY <1>1, <2>1
<1> QED
  BY <1>1, <1>2, SeqEqual

\* What is in the log: an operation of the client, or 0.
LEMMA LogFacts ==
    ASSUME TypeOK, Known
    PROVE  /\ Log \in Seq(0..Len(Prog)) /\ Len(Log) = Len(executed)
           /\ DOMAIN Log = DOMAIN executed /\ DOMAIN Log = 1..Len(executed)
           /\ Len(executed) \in Nat
           /\ \A k \in DOMAIN executed :
                  /\ executed[k] = Garbled => Log[k] = 0
                  /\ executed[k] # Garbled => executed[k] \in Txns /\ Log[k] = sends[executed[k]]
<1>1. /\ Len(executed) \in Nat /\ DOMAIN executed = 1..Len(executed)
      /\ Len(Prog) \in Nat /\ \A t \in Txns : sends[t] \in 1..Len(Prog)
      /\ \A k \in DOMAIN executed : executed[k] \in Txns \cup {Garbled}
  <2>1. Len(executed) \in Nat /\ DOMAIN executed = 1..Len(executed)
    BY DEF TypeOK
  <2>2. Len(Prog) \in Nat /\ \A t \in Txns : sends[t] \in 1..Len(Prog)
    BY Facts
  <2> QED
    BY <2>1, <2>2 DEF Known
<1>2. \A k \in DOMAIN executed :
          (IF executed[k] = Garbled THEN 0 ELSE sends[executed[k]]) \in 0..Len(Prog)
  BY <1>1
<1>3. /\ DOMAIN Log = 1..Len(executed) /\ \A k \in 1..Len(executed) : Log[k] \in 0..Len(Prog)
      /\ Log = [k \in 1..Len(executed) |-> Log[k]]
  BY <1>1, <1>2 DEF Log
<1>4. Log \in Seq(0..Len(Prog)) /\ Len(Log) = Len(executed)
  BY <1>1, <1>3
<1> QED
  BY <1>1, <1>3, <1>4 DEF Log

\* The first state of a connection is one of the service.
LEMMA InitRefines == Init => Service!Init
<1> SUFFICES ASSUME Init PROVE Service!Init
  OBVIOUS
<1>1. executed = <<>> /\ op = 1
  BY DEF Init
<1>2. [k \in DOMAIN executed |-> IF executed[k] = Garbled THEN 0 ELSE sends[executed[k]]] = <<>>
  BY <1>1
<1>3. (whole /\ \A i \in DOMAIN Prog : Prog[i] <= BufSize) \in BOOLEAN
  OBVIOUS
<1> QED
  BY <1>1, <1>2, <1>3 DEF Service!Init

\* A step that leaves what was executed alone leaves the log alone, though the client
\* may have sent more.
LEMMA LogStays ==
    ASSUME TypeOK, Known, UNCHANGED executed, \A t \in Txns : sends'[t] = sends[t]
    PROVE  Log' = Log
<1>1. \A k \in DOMAIN executed : executed[k] # Garbled => executed[k] \in Txns
  BY DEF Known
<1> QED
  BY <1>1 DEF Log

\* Every step of a session is one of the service or one it does not see.
LEMMA StepRefines == SessionIInv /\ SessionIInv' /\ [Next]_vars => [Service!Next]_(Service!vars)
<1> SUFFICES ASSUME SessionIInv, SessionIInv', [Next]_vars
             PROVE  [Service!Next]_(Service!vars)
  OBVIOUS
<1>1. TypeOK /\ Counted /\ Known /\ Ordered /\ Behind /\ OncePerSend /\ Together /\ TypeOK' /\ Known'
  BY DEF SessionIInv
<1>2. ASSUME UNCHANGED <<whole, op>>, Log' = Log PROVE UNCHANGED Service!vars
  BY <1>2 DEF Service!vars, Log
<1>3. /\ Len(sends) \in Nat /\ Txns = 1..Len(sends) /\ sends \in Seq(1..Len(Prog))
      /\ op \in Nat /\ Len(Prog) \in Nat
  BY <1>1, Facts DEF TypeOK
<1>4. CASE Request \/ Repeat
  <2>1. UNCHANGED <<whole, op, executed>> /\ sends' = Append(sends, op)
    BY <1>4 DEF Request, Repeat, Transmit
  <2>2. \A t \in Txns : sends'[t] = sends[t]
    BY <1>3, <2>1
  <2> QED
    BY <1>1, <1>2, <2>1, <2>2, LogStays
<1>5. CASE Deliver \/ Recv \/ Finished \/ UNCHANGED vars
  <2>1. UNCHANGED <<whole, op, executed, sends>>
    BY <1>5 DEF Deliver, Recv, Finished, vars
  <2> QED
    BY <1>1, <1>2, <2>1, LogStays
<1>6. CASE Answer
  <2>1. /\ UNCHANGED <<whole, sends, executed>> /\ Log' = Log
        /\ replies # <<>> /\ replies \in Seq(0..MaxSends)
    BY <1>1, <1>6, LogStays DEF Answer, TypeOK
  <2>2. CASE UNCHANGED op
    BY <1>2, <2>1, <2>2
  <2>3. CASE Waiting /\ Head(replies) = Len(sends) /\ op' = op + 1
    <3>1. /\ 1 \in DOMAIN replies /\ replies[1] = Len(sends) /\ Len(sends) # Garbled
          /\ sends[Len(sends)] = op
      BY <1>3, <2>1, <2>3 DEF Waiting, Garbled
    <3>2. ASSUME Promised PROVE \E k \in DOMAIN Log : Log[k] = op
      <4>1. PICK k \in DOMAIN executed : executed[k] = Len(sends)
        BY <1>1, <3>1, <3>2 DEF Together
      <4> QED
        BY <1>1, <3>1, <4>1, LogFacts
    <3>3. Service!Answer
      <4>1. Promised' = Promised
        BY <2>1 DEF Promised
      <4> QED
        BY <2>1, <2>3, <3>2, <4>1 DEF Service!Answer, Promised, Log
    <3> QED
      BY <3>3 DEF Service!Next
  <2> QED
    BY <1>6, <2>2, <2>3 DEF Answer
<1>7. CASE Handle
  <2>1. UNCHANGED <<whole, op, sends>> /\ (executed' = executed \/ executed' = Append(executed, Seen))
    BY <1>7 DEF Handle
  <2>2. CASE executed' = executed
    BY <1>1, <1>2, <2>1, <2>2, LogStays
  <2>3. CASE executed' = Append(executed, Seen)
    <3>1. Seen \in Txns \cup {Garbled} /\ (Seen # Garbled => sends[Seen] = op)
      <4>1. buffer[0] \in Live
        BY <1>7, LiveFacts DEF Handle
      <4>2. Seen \in Txns \cup {Garbled} /\ (Seen # Garbled => buffer[0] = Head0(Seen))
        BY <1>1, SeenFacts
      <4> QED
        BY <1>1, <4>1, <4>2 DEF Known, Head0
    <3> DEFINE e == IF Seen = Garbled THEN 0 ELSE op
               n == Len(executed)
    <3>2. /\ Log \in Seq(0..Len(Prog)) /\ Len(Log) = n /\ n \in Nat
          /\ DOMAIN Log = 1..n
      BY <1>1, LogFacts
    <3>3. /\ Len(executed') = n + 1 /\ executed'[n + 1] = Seen
          /\ \A k \in 1..n : executed'[k] = executed[k]
          /\ DOMAIN executed = 1..n /\ DOMAIN executed' = 1..n + 1
      BY <1>1, <2>3 DEF TypeOK
    <3>4. \A k \in 1..n : Log'[k] = Log[k]
      BY <2>1, <3>2, <3>3 DEF Log
    <3>5. Log'[n + 1] = e
      <4>1. n + 1 \in DOMAIN executed'
        BY <3>2, <3>3
      <4> QED
        BY <2>1, <3>1, <3>3, <4>1 DEF Log
    <3>6. e \in 0..Len(Prog)
      BY <1>3, <3>1
    <3> HIDE DEF e, n
    <3>7. Log' = Append(Log, e)
      <4>1. DOMAIN Log' = 1..n + 1 /\ Log' = [k \in 1..n + 1 |-> Log'[k]]
        BY <3>3 DEF Log
      <4>2. \A k \in 1..n + 1 : Log'[k] \in 0..Len(Prog)
        <5> TAKE k \in 1..n + 1
        <5>1. k \in 1..n \/ k = n + 1
          BY <3>2
        <5>2. \A i \in 1..n : Log[i] \in 0..Len(Prog)
          BY <3>2
        <5> QED
          BY <3>4, <3>5, <3>6, <5>1, <5>2
      <4>3. Log' \in Seq(0..Len(Prog)) /\ Len(Log') = n + 1
        BY <3>2, <4>1, <4>2
      <4> QED
        BY <3>2, <3>4, <3>5, <3>6, <4>3, IsAppend
    <3>8. e \in {op, 0}
      BY DEF e
    <3>9. Service!Execute
      BY <2>1, <3>7, <3>8 DEF Service!Execute, Log
    <3> QED
      BY <3>9 DEF Service!Next
  <2> QED
    BY <2>1, <2>2, <2>3
<1> QED
  BY <1>4, <1>5, <1>6, <1>7 DEF Next

\* A client sees a server that executes its operations in order, none again after its
\* answer, and, while requests arrive whole and fit, none that is answered without
\* having been executed (modbus_tcp.c:52-69, 100-103).
THEOREM SessionImplementsService == Spec => ServiceSpec
<1>1. SessionIInv /\ SessionIInv' /\ [Next]_vars => [Service!Next]_(Service!vars)
  BY StepRefines
<1>2. Init => Service!Init
  BY InitRefines
<1> QED
  BY <1>1, <1>2, SessionAlways, PTL DEF Spec, ServiceSpec, Service!Spec
=============================================================================

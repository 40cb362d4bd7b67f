------------------------- MODULE ModbusHandlerProofs -------------------------
(***************************************************************************)
(* Proofs about ModbusHandler, for every number of tasks and heap blocks,  *)
(* every application, and every request, of whatever quantities and counts.*)
(***************************************************************************)
EXTENDS ModbusHandler, TLAPS

(***************************************************************************)
(* The inductive invariant.  What is proved about a reply is settled long  *)
(* before it is sent, so the invariant says of every place in a handler    *)
(* what the buffer, its length, the result and the callback are there.     *)
(***************************************************************************)
Pointing(t) ==
    /\ pc[t] \in {"idle", "start", "single"} => out[t] = Null
    /\ pc[t] \in {"read", "write", "coilsdone", "free"} => out[t] # Null
    /\ pc[t] \in {"read", "write"} => out[t].off = 0
    /\ out[t] # Null => osize[t] >= PrependSize

PointersInv ==
    /\ BlockOwnership
    /\ broken = "no" => \A t \in Tasks : Pointing(t)

Accepted(t) ==
    /\ call[t].result = OK
    /\ call[t].table = DataTable(req[t].fc)
    /\ call[t].order = "host"

Excused(t) ==
    \/ call[t] = NoCall
    \/ call[t].result = ret[t]
    \/ req[t].fc \in SingleFCs /\ t \in nomem

Progressing(t) ==
    /\ Sent(t) => pc[t] \in {"free", "idle"}
    /\ pc[t] = "free" => Sent(t)
    /\ pc[t] \in {"start", "read", "write"} => call[t] = NoCall
    /\ pc[t] = "read" =>
           req[t].fc \in ReadFCs /\ osize[t] = 2 + ByteCount(req[t]) + PrependSize
    /\ pc[t] = "write" => req[t].fc \in MultiFCs /\ osize[t] = 5 + PrependSize
    /\ pc[t] = "single" => req[t].fc \in SingleFCs /\ Accepted(t)
    /\ pc[t] = "error" => ret[t] # OK /\ Excused(t)

Due(t) ==   \* what follows the header
    IF ret[t] # OK THEN "error"
    ELSE IF req[t].fc \in EchoLost THEN "stale" ELSE "pdu"

Ready(t) ==
    pc[t] = "send" =>
        IF ret[t] = OK
        THEN /\ Accepted(t) /\ out[t] # Null
             /\ osize[t] = PduSize(req[t]) + PrependSize
             /\ IF req[t].fc = CoilsFC
                THEN out[t].off # 0
                ELSE out[t].off = 0 /\ content[out[t].block].body = Due(t)
        ELSE /\ Excused(t)
             /\ out[t] = Null => t \in nomem
             /\ out[t] # Null =>
                    /\ out[t].off = 0
                    /\ content[out[t].block].body = "error"
                    /\ osize[t] = 2 + PrependSize

(* The heap gives nothing that looks like a response.                      *)
Clean == broken = "no" => \A b \in Blocks \ used : content[b].body = "stale"

HandlerInv ==
    /\ TypeOK
    /\ Clean
    /\ RepliesFramed
    /\ AnswersMatchEffects
    /\ PointersInv
    /\ broken = "no" => \A t \in Tasks : Progressing(t) /\ Ready(t)

-----------------------------------------------------------------------------
(* Typing.                                                                 *)

(* The byte count of bits, rounded up in two ways.                         *)
LEMMA RoundedUp ==
    ASSUME NEW q \in Nat
    PROVE  (q \div 8) + (IF q % 8 = 0 THEN 0 ELSE 1) = (q + 7) \div 8
  OBVIOUS

(* What is left of a count in a byte.                                      *)
LEMMA ByteIs == \A k \in Nat : k % 256 \in 0 .. 255
  OBVIOUS

(* What the handlers compute for the byte count of a reply, for every      *)
(* quantity of 16 bits.                                                    *)
LEMMA ByteCountIs ==
    ASSUME NEW r \in Requests
    PROVE  /\ ByteCount(r) \in 0 .. 255
           /\ r.fc \in ReadFCs => 2 + ByteCount(r) = PduSize(r)
<1>1. r.q \in Nat
  BY HandlerAssumption DEF HandlerAssumption
<1>2. (r.q \div 8) + (IF r.q % 8 = 0 THEN 0 ELSE 1) = (r.q + 7) \div 8
  BY <1>1, RoundedUp
<1>3. (r.q + 7) \div 8 \in Nat /\ 2 * r.q \in Nat
  BY <1>1
<1>4. DataBytes(r) \in Nat /\ ByteCount(r) = DataBytes(r) % 256
  BY <1>2, <1>3 DEF DataBytes, ByteCount
<1> QED
  BY <1>4, ByteIs DEF PduSize

(* The size of a request is a number.                                      *)
LEMMA PduSizeIs == ASSUME NEW r \in Requests PROVE PduSize(r) \in Int
  BY ByteCountIs DEF PduSize

(* Every function code has a table.                                        *)
LEMMA TableTyped == \A fc : Table(fc) \in DataTables
  BY DEF Table, DataTables

(* A pointer to a block is not NULL.                                       *)
LEMMA NullIsNoBlock == \A b \in Blocks : [block |-> b, off |-> 0] # Null
  BY HandlerAssumption DEF HandlerAssumption, Null

(* Pointers to blocks, and past their headers, are pointers.               *)
LEMMA PointersTyped ==
    /\ Null \in Pointers
    /\ \A b \in Blocks : [block |-> b, off |-> 0] \in Pointers
    /\ \A p \in Pointers : [p EXCEPT !.off = PrependSize] \in Pointers
  BY DEF Null, Pointers

(* A block stays well typed when a part of it is written.                  *)
LEMMA ContentsTyped ==
    /\ Stale \in Contents
    /\ \A c \in Contents, r \in Regions :
         [c EXCEPT !.head = r] \in Contents /\ [c EXCEPT !.body = r] \in Contents
  BY DEF Stale, Contents, Regions

(* Before its first call a task has called nothing.                        *)
LEMMA CallsTyped == NoCall \in Calls
  BY DEF NoCall, Calls

(* A call of the application is well typed.                                *)
LEMMA CallTyped ==
    ASSUME TypeOK, NEW t \in Tasks, NEW name \in {"read", "write"},
           NEW order \in {"wire", "host"}, NEW result \in Results,
           Call(t, name, order, result)
    PROVE  call' \in [Tasks -> Calls]
<1> DEFINE c == [name |-> name, table |-> Table(req[t].fc),
                 order |-> order, result |-> result]
<1>1. c \in Calls
  BY TableTyped DEF Calls
<1>2. call \in [Tasks -> Calls]
  BY DEF TypeOK
<1>3. call' = [call EXCEPT ![t] = c]
  BY DEF Call
<1> HIDE DEF c
<1> QED
  BY <1>1, <1>2, <1>3

(* Writing to a buffer keeps the types.                                    *)
LEMMA WriteTyped ==
    ASSUME TypeOK, NEW t \in Tasks, NEW body \in Regions, Write(t, body)
    PROVE  content' \in [Blocks -> Contents]
<1>1. content \in [Blocks -> Contents]
  BY DEF TypeOK
<1> QED
  BY <1>1, ContentsTyped DEF Write

(* Return codes are numbers.                                               *)
LEMMA ResultsTyped == Results \subseteq Nat
  BY HandlerAssumption DEF HandlerAssumption

(* The first state is well typed.                                          *)
LEMMA TypeInit == Init => TypeOK
<1> SUFFICES ASSUME Init PROVE TypeOK
  OBVIOUS
<1>1. (CHOOSE r \in Requests : TRUE) \in Requests
  BY HandlerAssumption DEF HandlerAssumption
<1>2. NoReply \in Replies
  BY DEF NoReply, Replies, Regions
<1> QED
  BY <1>1, <1>2, PointersTyped, ContentsTyped, CallsTyped
  DEF Init, TypeOK, Labels, Breakages, OK

(* The type invariant needs the facts about pointers and lengths that keep *)
(* the length field from being negative.                                   *)
LEMMA TypeStep ==
    ASSUME TypeOK, [Next]_vars, PointersInv
    PROVE  TypeOK'
<1> USE DEF TypeOK, bufVars, history, Labels, Running, Goto, Return, OK
<1>1. ASSUME NEW t \in Tasks, NEW r \in Requests, Receive(t, r) PROVE TypeOK'
  <2>1. NoReply \in Replies
    BY DEF NoReply, Replies, Regions
  <2> QED
    BY <1>1, <2>1, PointersTyped, CallsTyped DEF Receive, DeviceFailure
<1>2. ASSUME NEW t \in Tasks, Handle(t) PROVE TypeOK'
  <2>1. CASE Unsupported(t)
    BY <2>1 DEF Unsupported, IllegalFunction
  <2>2. CASE ReadStart(t)
    <3>1. ByteCount(req[t]) \in Nat
      BY ByteCountIs
    <3> QED
      BY <2>2, <3>1, PointersTyped
      DEF ReadStart, Allocate, AllocationFails, DeviceFailure, PrependSize
  <2>3. ASSUME NEW result \in Results, ReadCall(t, result) PROVE TypeOK'
    <3>1. call' \in [Tasks -> Calls]
      BY <2>3, CallTyped DEF ReadCall
    <3>2. content' \in [Blocks -> Contents]
      BY <2>3, WriteTyped DEF ReadCall, Regions, Flip
    <3> QED
      BY <2>3, <3>1, <3>2, ResultsTyped DEF ReadCall, Breakages
  <2>4. ASSUME NEW result \in Results, SingleCall(t, result) PROVE TypeOK'
    <3>1. call' \in [Tasks -> Calls]
      BY <2>4, CallTyped DEF SingleCall
    <3> QED
      BY <2>4, <3>1, ResultsTyped DEF SingleCall
  <2>5. CASE ReadUnset(t)
    BY <2>5 DEF ReadUnset, IllegalFunction
  <2>6. CASE SingleReply(t)
    <3>1. content' \in [Blocks -> Contents]
      <4>1. CASE UNCHANGED content
        BY <4>1
      <4>2. ASSUME NEW b \in Blocks, content' = [content EXCEPT ![b].head = "pdu"]
            PROVE content' \in [Blocks -> Contents]
        BY <4>2, ContentsTyped DEF Regions
      <4> QED
        BY <2>6, <4>1, <4>2 DEF SingleReply
    <3> QED
      BY <2>6, <3>1, PointersTyped
      DEF SingleReply, Allocate, AllocationFails, DeviceFailure, PrependSize
  <2>7. CASE WriteUnset(t)
    BY <2>7 DEF WriteUnset, IllegalFunction
  <2>8. CASE MultiStart(t)
    BY <2>8, PointersTyped
    DEF MultiStart, Allocate, AllocationFails, DeviceFailure, PrependSize
  <2>9. ASSUME NEW result \in Results, RegistersCall(t, result) PROVE TypeOK'
    <3>1. call' \in [Tasks -> Calls]
      BY <2>9, CallTyped DEF RegistersCall, Flip
    <3>2. content' \in [Blocks -> Contents]
      BY <2>9, WriteTyped DEF RegistersCall, Regions
    <3> QED
      BY <2>9, <3>1, <3>2, ResultsTyped DEF RegistersCall, Breakages
  <2>10. ASSUME NEW result \in Results, CoilsCall(t, result) PROVE TypeOK'
    <3>1. call' \in [Tasks -> Calls]
      BY <2>10, CallTyped DEF CoilsCall, Flip
    <3>2. content' \in [Blocks -> Contents]
      BY <2>10, WriteTyped DEF CoilsCall, Regions
    <3>3. out' \in [Tasks -> Pointers]
      BY <2>10, PointersTyped DEF CoilsCall
    <3> QED
      BY <2>10, <3>1, <3>2, <3>3, ResultsTyped DEF CoilsCall, Breakages
  <2>11. CASE FreeCoilsBuffer(t)
    BY <2>11 DEF FreeCoilsBuffer, Breakages
  <2>12. CASE ErrorReply(t)
    <3>1. content' \in [Blocks -> Contents]
      <4>1. CASE UNCHANGED content
        BY <4>1
      <4>2. ASSUME NEW b \in Blocks, content' = [content EXCEPT ![b].body = "error"]
            PROVE content' \in [Blocks -> Contents]
        BY <4>2, ContentsTyped DEF Regions
      <4> QED
        BY <2>12, <4>1, <4>2 DEF ErrorReply
    <3> QED
      BY <2>12, <3>1, PointersTyped
      DEF ErrorReply, Allocate, AllocationFails, PrependSize
  <2>13. CASE RejectWithBuffer(t)
    BY <2>13, ContentsTyped DEF RejectWithBuffer, Free, Breakages
  <2>14. CASE SendReply(t)
    <3>1. out[t].block \in Blocks /\ osize[t] - PrependSize + 1 \in Nat
      BY <2>14
      DEF SendReply, PointersInv, Pointing, PrependSize, BlockOwnership
    <3>2. content[out[t].block] \in [head : Regions, body : Regions]
      BY <3>1 DEF Contents
    <3>3. content' \in [Blocks -> Contents] /\ reply' \in [Tasks -> Replies]
      BY <2>14, <3>1, <3>2 DEF SendReply, Regions, Contents, Replies
    <3> QED
      BY <2>14, <3>3 DEF SendReply
  <2>15. CASE SendNothing(t)
    BY <2>15 DEF SendNothing
  <2>16. CASE FreeReply(t)
    <3>1. CASE out[t].off = 0
      BY <2>16, <3>1, PointersTyped, ContentsTyped DEF FreeReply, Free
    <3>2. CASE out[t].off # 0
      BY <2>16, <3>2 DEF FreeReply, Breakages
    <3> QED
      BY <3>1, <3>2
  <2> QED
    BY <1>2, <2>1, <2>2, <2>3, <2>4, <2>5, <2>6, <2>7, <2>8, <2>9, <2>10,
       <2>11,
       <2>12, <2>13, <2>14, <2>15, <2>16 DEF Handle
<1>3. CASE UNCHANGED vars
  BY <1>3 DEF vars
<1> QED
  BY <1>1, <1>2, <1>3 DEF Next

-----------------------------------------------------------------------------
(* The invariant, task by task.                                            *)

(* What RepliesFramed and AnswersMatchEffects say of one task.             *)
Told(t) ==
    Sent(t) =>
        /\ Whole(t, Due(t))
        /\ IF ret[t] = OK THEN Accepted(t) ELSE Excused(t)

(* RepliesFramed and AnswersMatchEffects, task by task.                    *)
LEMMA ToldIs ==
    (RepliesFramed /\ AnswersMatchEffects) <=> \A t \in Tasks : Told(t)
  BY DEF RepliesFramed, AnswersMatchEffects, Told, Due, Accepted, Excused

(* A step of task t leaves the other tasks and their buffers alone.        *)
Others(t) ==
    \A u \in Tasks \ {t} :
        /\ pc'[u] = pc[u] /\ req'[u] = req[u] /\ out'[u] = out[u]
        /\ osize'[u] = osize[u] /\ ret'[u] = ret[u]
        /\ call'[u] = call[u] /\ reply'[u] = reply[u]
        /\ u \in nomem' <=> u \in nomem
        /\ out[u] # Null => content'[out[u].block] = content[out[u].block]

(* What holds of the other tasks still does ...                            *)
LEMMA OthersStable ==
    ASSUME HandlerInv, broken = "no", NEW t \in Tasks, Others(t),
           NEW u \in Tasks, u # t
    PROVE  Pointing(u)' /\ Progressing(u)' /\ Ready(u)' /\ Told(u)'
<1>1. Pointing(u) /\ Progressing(u) /\ Ready(u) /\ Told(u)
  BY ToldIs DEF HandlerInv, PointersInv
<1>2. /\ pc'[u] = pc[u] /\ req'[u] = req[u] /\ out'[u] = out[u]
      /\ osize'[u] = osize[u] /\ ret'[u] = ret[u]
      /\ call'[u] = call[u] /\ reply'[u] = reply[u]
      /\ u \in nomem' <=> u \in nomem
      /\ out[u] # Null => content'[out[u].block] = content[out[u].block]
  BY DEF Others
<1>3. /\ Sent(u)' <=> Sent(u)
      /\ Accepted(u)' <=> Accepted(u)
      /\ Excused(u)' <=> Excused(u)
      /\ Due(u)' = Due(u) /\ Whole(u, Due(u))' <=> Whole(u, Due(u))
  BY <1>2 DEF Sent, Accepted, Excused, Whole, Due
<1>4. Pointing(u)'
  BY <1>1, <1>2 DEF Pointing
<1>5. Progressing(u)'
  BY <1>1, <1>2, <1>3 DEF Progressing
<1>6. Ready(u)'
  BY <1>1, <1>2, <1>3 DEF Ready, Due
<1>7. Told(u)'
  BY <1>1, <1>2, <1>3 DEF Told
<1> QED
  BY <1>4, <1>5, <1>6, <1>7

(* ... so that a step keeps the invariant if it keeps that of its own task.*)
LEMMA TaskStep ==
    ASSUME HandlerInv, TypeOK', broken = "no", NEW t \in Tasks, Others(t),
           BlockOwnership', Clean', Told(t)',
           broken' = "no" => Pointing(t)' /\ Progressing(t)' /\ Ready(t)'
    PROVE  HandlerInv'
<1>1. \A u \in Tasks : Told(u)'
  BY OthersStable
<1>2. RepliesFramed' /\ AnswersMatchEffects'
  BY <1>1 DEF RepliesFramed, AnswersMatchEffects, Told, Due, Accepted, Excused
<1>3. PointersInv'
  BY OthersStable DEF PointersInv
<1>4. broken' = "no" => \A u \in Tasks : Progressing(u)' /\ Ready(u)'
  BY OthersStable
<1> QED
  BY <1>2, <1>3, <1>4 DEF HandlerInv

(* Nothing has been sent before line 73.                                   *)
LEMMA Untold ==
    ASSUME HandlerInv, broken = "no", NEW t \in Tasks,
           pc[t] \notin {"idle", "free"}, reply' = reply
    PROVE  ~Sent(t)' /\ Told(t)'
<1>1. ~Sent(t)
  BY DEF HandlerInv, Progressing
<1> QED
  BY <1>1 DEF Sent, Told

-----------------------------------------------------------------------------
(* Block ownership.                                                        *)

(* Blocks stay owned while nothing is allocated or freed ...               *)
LEMMA OwnershipKept ==
    ASSUME TypeOK, BlockOwnership, broken = "no",
           used' = used, \A u \in Tasks : out'[u].block = out[u].block,
           \A u \in Tasks : out'[u] # Null => out[u] # Null,
           \A u \in Tasks : pc'[u] = "idle" => pc[u] = "idle" \/ out[u] = Null
    PROVE  BlockOwnership'
<1>1. \A b \in used : b # NoBlock
  BY HandlerAssumption DEF HandlerAssumption, TypeOK
<1> QED
  BY <1>1 DEF BlockOwnership, Null

(* ... when a task without a buffer allocates one ...                      *)
LEMMA OwnershipTaken ==
    ASSUME TypeOK, BlockOwnership, broken = "no", NEW t \in Tasks,
           NEW b \in Blocks, NEW size, Allocate(t, b, size), out[t] = Null,
           pc'[t] # "idle", \A u \in Tasks \ {t} : pc'[u] = pc[u]
    PROVE  BlockOwnership'
<1>1. /\ \A u \in Tasks \ {t} : out'[u] = out[u]
      /\ out'[t].block = b /\ out'[t] # Null
  BY NullIsNoBlock DEF Allocate, TypeOK
<1>2. used' = used \cup {b} /\ b \notin used
  BY DEF Allocate
<1>3. \A c \in used : c # NoBlock
  BY HandlerAssumption DEF HandlerAssumption, TypeOK
<1>4. b # NoBlock
  BY HandlerAssumption DEF HandlerAssumption
<1> QED
  BY <1>1, <1>2, <1>3, <1>4 DEF BlockOwnership, Null

(* ... and when a task frees its own.                                      *)
LEMMA OwnershipReturned ==
    ASSUME TypeOK, BlockOwnership, broken = "no", NEW t \in Tasks,
           out[t] # Null, used' = used \ {out[t].block},
           out' = [out EXCEPT ![t] = Null],
           \A u \in Tasks \ {t} : pc'[u] = pc[u]
    PROVE  BlockOwnership'
<1>1. \A u \in Tasks \ {t} : out'[u] = out[u]
  BY DEF TypeOK
<1>2. out'[t] = Null
  BY DEF TypeOK
<1>3. \A u \in Tasks : out'[u] # Null => out'[u].block \in used'
  BY <1>1, <1>2 DEF BlockOwnership
<1>4. \A u, v \in Tasks :
        out'[u] # Null /\ out'[u].block = out'[v].block => u = v
  <2> SUFFICES ASSUME NEW u \in Tasks, NEW v \in Tasks,
                      out'[u] # Null, out'[u].block = out'[v].block
               PROVE  u = v
    OBVIOUS
  <2>1. u # t
    BY <1>2
  <2>2. out[u].block \in used /\ out[u].block # NoBlock
    BY <1>1, <2>1, HandlerAssumption
    DEF BlockOwnership, HandlerAssumption, TypeOK
  <2>3. v # t
    BY <1>1, <1>2, <2>1, <2>2 DEF Null
  <2> QED
    BY <1>1, <2>1, <2>3 DEF BlockOwnership
<1>5. \A b \in used' : \E u \in Tasks : out'[u].block = b /\ pc'[u] # "idle"
  <2> SUFFICES ASSUME NEW b \in used, b # out[t].block
               PROVE  \E u \in Tasks : out'[u].block = b /\ pc'[u] # "idle"
    OBVIOUS
  <2>1. PICK u \in Tasks : out[u].block = b /\ pc[u] # "idle"
    BY DEF BlockOwnership
  <2> QED
    BY <1>1, <2>1
<1> QED
  BY <1>3, <1>4, <1>5 DEF BlockOwnership

-----------------------------------------------------------------------------
(* The tables the handlers name are those of the functions, the reading and *)
(* writing one excepted.                                                   *)
LEMMA ReadTable == \A fc \in ReadFCs : Table(fc) = DataTable(fc)
  BY
  DEF ReadFCs, ReadBitFCs, ReadWordFCs, Table, DataTable, CoilsFC, RegistersFC,
     ReadWriteFC

(* The handlers for one value write the table that the protocol names.     *)
LEMMA SingleTable == \A fc \in SingleFCs : Table(fc) = DataTable(fc)
  BY DEF SingleFCs, Table, DataTable, CoilsFC, RegistersFC, ReadWriteFC

(* So do the handlers for several values.                                  *)
LEMMA MultiTable ==
    \A fc \in MultiFCs : fc # ReadWriteFC => Table(fc) = DataTable(fc)
  BY DEF MultiFCs, Table, DataTable, CoilsFC, RegistersFC, ReadWriteFC

(* What an allocation leaves in the task's variables.                      *)
LEMMA Allocated ==
    ASSUME TypeOK, NEW t \in Tasks, NEW b \in Blocks, NEW size, Allocate(t, b, size)
    PROVE  /\ out'[t] # Null /\ out'[t].off = 0 /\ out'[t].block = b
           /\ osize'[t] = size
  BY NullIsNoBlock DEF Allocate, TypeOK

(* What a failed allocation leaves in them.                                *)
LEMMA NotAllocated ==
    ASSUME TypeOK, NEW t \in Tasks, NEW size, AllocationFails(t, size)
    PROVE  out'[t] = Null /\ osize'[t] = size /\ t \in nomem'
  BY DEF AllocationFails, TypeOK

(* Writing to the body of a buffer.                                        *)
LEMMA BodyWritten ==
    ASSUME TypeOK, NEW b \in Blocks, NEW body,
           content' = [content EXCEPT ![b].body = body]
    PROVE  content'[b].body = body
<1>1. content \in [Blocks -> [head : Regions, body : Regions]]
  BY DEF TypeOK, Contents
<1> QED
  BY <1>1

(* A buffer that is not NULL is a block of the heap.                       *)
LEMMA BufferIsBlock ==
    ASSUME TypeOK, BlockOwnership, broken = "no", NEW t \in Tasks, out[t] # Null
    PROVE  out[t].block \in Blocks
  BY DEF TypeOK, BlockOwnership

(* Changing a block no other task owns leaves their buffers alone.         *)
LEMMA ContentElsewhere ==
    ASSUME TypeOK, BlockOwnership, broken = "no", NEW t \in Tasks,
           NEW b \in Blocks, b \notin used \/ (out[t] # Null /\ b = out[t].block),
           \A c \in Blocks \ {b} : content'[c] = content[c],
           NEW u \in Tasks, u # t, out[u] # Null
    PROVE  content'[out[u].block] = content[out[u].block]
<1>1. out[u].block \in Blocks /\ out[u].block \in used
  BY BufferIsBlock DEF BlockOwnership
<1>2. out[u].block # b
  BY <1>1 DEF BlockOwnership
<1> QED
  BY <1>1, <1>2

(* The invariant holds before the first request ...                        *)
LEMMA HandlerInvInit == Init => HandlerInv
<1> SUFFICES ASSUME Init PROVE HandlerInv
  OBVIOUS
<1>1. TypeOK
  BY TypeInit
<1>2. \A t \in Tasks : ~Sent(t) /\ out[t] = Null /\ pc[t] = "idle"
  BY DEF Init, Sent
<1>3. RepliesFramed /\ AnswersMatchEffects
  BY <1>2 DEF RepliesFramed, AnswersMatchEffects
<1>4. BlockOwnership
  BY <1>2 DEF Init, BlockOwnership
<1>5. \A t \in Tasks : Pointing(t) /\ Progressing(t) /\ Ready(t)
  BY <1>2 DEF Pointing, Progressing, Ready
<1>6. Clean
  BY DEF Init, Clean, Stale
<1> QED
  BY <1>1, <1>3, <1>4, <1>5, <1>6 DEF HandlerInv, PointersInv

(* Blocks that are not in use hold nothing that looks like a response:     *)
(* what is allocated is not written before, and what is freed is stale.    *)
LEMMA CleanStep ==
    ASSUME TypeOK, PointersInv, Clean, broken = "no", NEW t \in Tasks,
           (\E r \in Requests : Receive(t, r)) \/ Handle(t)
    PROVE  Clean'
<1> USE DEF bufVars, history
<1>1. content \in [Blocks -> Contents] /\ BlockOwnership /\ Pointing(t)
  BY DEF TypeOK, PointersInv
<1>2. out[t] # Null => out[t].block \in used
  BY <1>1 DEF BlockOwnership
<1>3. CASE used' = used /\ content' = content
  BY <1>3 DEF Clean
<1>4. ASSUME NEW b \in used, used' = used,
             \A c \in Blocks \ {b} : content'[c] = content[c]
      PROVE  Clean'
  BY <1>4 DEF Clean
<1>5. ASSUME NEW b \in Blocks, NEW size, Allocate(t, b, size),
             \A c \in Blocks \ {b} : content'[c] = content[c]
      PROVE  Clean'
  BY <1>5 DEF Clean, Allocate
<1>6. ASSUME out[t] # Null, Free(out[t].block)
      PROVE  Clean'
  <2>1. used' = used \ {out[t].block} /\ content' = [content EXCEPT ![out[t].block] = Stale]
    BY <1>6 DEF Free
  <2>2. \A c \in Blocks : content'[c] = IF c = out[t].block THEN Stale ELSE content[c]
    BY <1>1, <2>1
  <2> QED
    BY <2>1, <2>2 DEF Clean, Stale
<1>7. CASE \E r \in Requests : Receive(t, r)
  BY <1>3, <1>7 DEF Receive
<1>8. CASE ReadStart(t) \/ MultiStart(t)
  <2>1. content' = content
    BY <1>8 DEF ReadStart, MultiStart
  <2>2. CASE used' = used
    BY <1>3, <2>1, <2>2
  <2>3. ASSUME NEW b \in Blocks, NEW size, Allocate(t, b, size) PROVE Clean'
    BY <1>5, <2>1, <2>3
  <2> QED
    BY <1>8, <2>2, <2>3 DEF ReadStart, MultiStart, AllocationFails
<1>9. CASE \E result \in Results :
             ReadCall(t, result) \/ RegistersCall(t, result) \/ CoilsCall(t, result)
  <2>1. used' = used /\ out[t] # Null
    BY <1>1, <1>9 DEF ReadCall, RegistersCall, CoilsCall, Running, Pointing
  <2>2. \/ content' = content
        \/ \E body \in Regions : Write(t, body)
    BY <1>9 DEF ReadCall, RegistersCall, CoilsCall, Regions
  <2>3. \A c \in Blocks \ {out[t].block} : content'[c] = content[c]
    BY <1>1, <2>2 DEF Write
  <2> QED
    BY <1>2, <1>4, <2>1, <2>3
<1>10. CASE SingleReply(t) \/ ErrorReply(t)
  <2>1. ASSUME NEW b \in Blocks, NEW size, Allocate(t, b, size),
               \/ content' = [content EXCEPT ![b].head = "pdu"]
               \/ content' = [content EXCEPT ![b].body = "error"]
        PROVE  Clean'
    <3>1. \A c \in Blocks \ {b} : content'[c] = content[c]
      BY <1>1, <2>1
    <3> QED
      BY <1>5, <2>1, <3>1
  <2>2. CASE UNCHANGED <<used, content>>
    BY <1>3, <2>2
  <2> QED
    BY <1>10, <2>1, <2>2 DEF SingleReply, ErrorReply, AllocationFails
<1>11. CASE SendReply(t)
  <2>1. used' = used /\ out[t] # Null
    BY <1>11 DEF SendReply
  <2>2. \A c \in Blocks \ {out[t].block} : content'[c] = content[c]
    BY <1>1, <1>11 DEF SendReply
  <2> QED
    BY <1>2, <1>4, <2>1, <2>2
<1>12. CASE FreeReply(t)
  <2>1. out[t] # Null
    BY <1>1, <1>12 DEF FreeReply, Running, Pointing
  <2> QED
    BY <1>3, <1>6, <1>12, <2>1 DEF FreeReply
<1>13. CASE RejectWithBuffer(t)
  BY <1>13 DEF RejectWithBuffer, Clean
<1>14. CASE \E result \in Results : SingleCall(t, result)
  BY <1>3, <1>14 DEF SingleCall
<1>15. CASE Unsupported(t) \/ ReadUnset(t) \/ WriteUnset(t) \/ FreeCoilsBuffer(t)
            \/ SendNothing(t)
  BY <1>3, <1>15 DEF Unsupported, ReadUnset, WriteUnset, FreeCoilsBuffer, SendNothing
<1> QED
  BY <1>7, <1>8, <1>9, <1>10, <1>11, <1>12, <1>13, <1>14, <1>15 DEF Handle

(* ... and is kept by every step of every task.                            *)
LEMMA HandlerInvStep == HandlerInv /\ [Next]_vars => HandlerInv'
<1> SUFFICES ASSUME HandlerInv, [Next]_vars PROVE HandlerInv'
  OBVIOUS
<1>1. CASE UNCHANGED vars
  <2>1. UNCHANGED <<callbacks, used, content, pc, req, out, osize, ret, broken,
                    call, reply, nomem>>
    BY <1>1 DEF vars, bufVars, history
  <2> QED
    BY <2>1 DEF HandlerInv, TypeOK, PointersInv, BlockOwnership, RepliesFramed,
       AnswersMatchEffects, Sent, Whole, Due, Clean, Pointing, Progressing, Ready,
       Accepted, Excused
<1>2. ASSUME NEW t \in Tasks, (\E r \in Requests : Receive(t, r)) \/ Handle(t)
      PROVE  HandlerInv'
  <2>1. TypeOK /\ TypeOK' /\ PointersInv /\ BlockOwnership
    BY TypeStep DEF HandlerInv, PointersInv
  <2>2. broken = "no"
    BY <1>2 DEF Handle, Running, Receive, Unsupported, ReadStart, ReadCall,
       SingleCall, ReadUnset, SingleReply, WriteUnset, MultiStart,
       RegistersCall, CoilsCall, FreeCoilsBuffer, ErrorReply,
       RejectWithBuffer, SendReply, SendNothing, FreeReply
  <2>21. Clean /\ Clean'
    BY <1>2, <2>1, <2>2, CleanStep DEF HandlerInv
  <2>3. Pointing(t) /\ Progressing(t) /\ Ready(t) /\ Told(t)
    BY <2>2, ToldIs DEF HandlerInv, PointersInv
  <2> USE DEF bufVars, history, Running, Goto, Return, OK
  <2>4. ASSUME NEW r \in Requests, Receive(t, r) PROVE HandlerInv'
    <3>1. Others(t)
      BY <2>1, <2>4 DEF Others, TypeOK, Receive
    <3>2. BlockOwnership'
      BY <2>1, <2>2, <2>3, <2>4, OwnershipKept DEF Pointing, TypeOK, Receive
    <3>3. Told(t)'
      BY <2>1, <2>4 DEF Told, Sent, TypeOK, Receive
    <3>4. broken' = "no" => Pointing(t)' /\ Progressing(t)' /\ Ready(t)'
      BY <2>1, <2>3, <2>4
      DEF Pointing, Progressing, Ready, TypeOK, Receive, Sent, Null
    <3> QED
      BY <2>1, <2>2, <2>21, <3>1, <3>2, <3>3, <3>4, TaskStep
  <2>5. CASE Unsupported(t)
    <3>1. Others(t)
      BY <2>1, <2>5 DEF Others, TypeOK, Unsupported
    <3>2. BlockOwnership'
      BY <2>1, <2>2, <2>3, <2>5, OwnershipKept
      DEF Pointing, TypeOK, Unsupported
    <3>3. Told(t)'
      BY <2>2, <2>5, Untold DEF Unsupported
    <3>4. broken' = "no" => Pointing(t)' /\ Progressing(t)' /\ Ready(t)'
      BY <2>1, <2>3, <2>5
      DEF Pointing, Progressing, Ready, TypeOK, Unsupported, Sent, Excused,
         IllegalFunction
    <3> QED
      BY <2>1, <2>2, <2>21, <3>1, <3>2, <3>3, <3>4, TaskStep
  <2>6. CASE ReadStart(t)
    <3>1. Others(t)
      BY <2>1, <2>6 DEF Others, TypeOK, ReadStart, Allocate, AllocationFails
    <3>2. BlockOwnership'
      <4>1. CASE \E b \in Blocks : Allocate(t, b, osize'[t]) /\ pc'[t] # "idle"
        BY <2>1, <2>2, <2>3, <2>6, <3>1, <4>1, OwnershipTaken
        DEF Others, Pointing, ReadStart
      <4>2. CASE AllocationFails(t, osize'[t])
        BY <2>1, <2>2, <2>3, <2>6, <4>2, OwnershipKept
        DEF AllocationFails, Pointing, TypeOK, ReadStart
      <4> QED
        BY <2>1, <2>6, <4>1, <4>2
        DEF ReadStart, Allocate, AllocationFails, TypeOK
    <3>3. Told(t)'
      BY <2>2, <2>6, Untold DEF ReadStart
    <3>4. broken' = "no" => Pointing(t)' /\ Progressing(t)' /\ Ready(t)'
      <4>1. ASSUME NEW b \in Blocks,
                   Allocate(t, b, 2 + ByteCount(req[t]) + PrependSize),
                   Goto(t, "read"),
                   UNCHANGED ret
            PROVE  Pointing(t)' /\ Progressing(t)' /\ Ready(t)'
        <5>1. /\ out'[t] # Null /\ out'[t].off = 0 /\ out'[t].block = b
              /\ osize'[t] = 2 + ByteCount(req[t]) + PrependSize
          BY <2>1, <4>1, Allocated
        <5>2. /\ pc'[t] = "read" /\ ret'[t] = ret[t]
              /\ req'[t] = req[t] /\ call'[t] = call[t] /\ reply'[t] = reply[t]
              /\ nomem' = nomem
          BY <2>1, <2>6, <4>1 DEF TypeOK, ReadStart, Allocate
        <5>3. ByteCount(req[t]) \in 0 .. 255 /\ req[t].fc \in ReadFCs
          BY <2>1, <2>6, ByteCountIs DEF TypeOK, ReadStart
        <5>4. Pointing(t)'
          BY <5>1, <5>2, <5>3 DEF Pointing, PrependSize
        <5>5. Progressing(t)'
          BY <2>3, <2>6, <5>1, <5>2, <5>3 DEF Progressing, Sent, ReadStart
        <5> QED
          BY <5>2, <5>4, <5>5 DEF Ready
      <4>2. ASSUME AllocationFails(t, 2 + ByteCount(req[t]) + PrependSize),
                   Goto(t, "error"),
                   ret' = [ret EXCEPT ![t] = DeviceFailure]
            PROVE  Pointing(t)' /\ Progressing(t)' /\ Ready(t)'
        <5>1. out'[t] = Null /\ t \in nomem'
          BY <2>1, <4>2, NotAllocated
        <5>2. /\ pc'[t] = "error" /\ ret'[t] = DeviceFailure
              /\ req'[t] = req[t] /\ call'[t] = call[t] /\ reply'[t] = reply[t]
          BY <2>1, <2>6, <4>2 DEF TypeOK, ReadStart
        <5> QED
          BY <2>3, <2>6, <5>1, <5>2
          DEF Pointing, Progressing, Ready, Sent, ReadStart, Excused,
             DeviceFailure
      <4> QED
        BY <2>6, <4>1, <4>2 DEF ReadStart, DeviceFailure
    <3> QED
      BY <2>1, <2>2, <2>21, <3>1, <3>2, <3>3, <3>4, TaskStep
  <2>7. ASSUME NEW result \in Results, ReadCall(t, result) PROVE HandlerInv'
    <3>1. Others(t)
      <4>1. \A u \in Tasks \ {t} :
              /\ pc'[u] = pc[u] /\ req'[u] = req[u] /\ out'[u] = out[u]
              /\ osize'[u] = osize[u] /\ ret'[u] = ret[u]
              /\ call'[u] = call[u] /\ reply'[u] = reply[u]
              /\ u \in nomem' <=> u \in nomem
        BY <2>1, <2>7 DEF TypeOK, ReadCall, Call
      <4>2. \A u \in Tasks \ {t} :
              out[u] # Null => content'[out[u].block] = content[out[u].block]
        <5>1. out[t] # Null /\ out[t].block \in Blocks
          BY <2>1, <2>2, <2>3, <2>7, BufferIsBlock DEF Pointing, ReadCall
        <5>2. \A c \in Blocks \ {out[t].block} : content'[c] = content[c]
          BY <2>1, <2>7 DEF TypeOK, ReadCall, Write
        <5> QED
          BY <2>1, <2>2, <5>1, <5>2, ContentElsewhere
      <4> QED
        BY <4>1, <4>2 DEF Others
    <3>2. BlockOwnership'
      BY <2>1, <2>2, <2>3, <2>7, OwnershipKept DEF Pointing, TypeOK, ReadCall
    <3>3. Told(t)'
      BY <2>2, <2>7, Untold DEF ReadCall
    <3>4. broken' = "no" => Pointing(t)' /\ Progressing(t)' /\ Ready(t)'
      <4>1. /\ pc'[t] = (IF result = OK THEN "send" ELSE "error")
            /\ ret'[t] = result /\ req'[t] = req[t] /\ out'[t] = out[t]
            /\ osize'[t] = osize[t] /\ reply'[t] = reply[t] /\ nomem' = nomem
        BY <2>1, <2>7 DEF TypeOK, ReadCall
      <4>2. /\ call'[t].result = result /\ call'[t].order = "host"
            /\ call'[t].table = Table(req[t].fc)
        BY <2>1, <2>7 DEF TypeOK, ReadCall, Call, Flip
      <4>3. result = OK => content'[out[t].block].body = "pdu"
        BY <2>1, <2>2, <2>3, <2>7, BufferIsBlock, BodyWritten
        DEF ReadCall, Write, Pointing, Flip
      <4>4. Pointing(t)'
        BY <2>3, <2>7, <4>1 DEF Pointing, ReadCall
      <4>5. ret'[t] = OK => Accepted(t)'
        BY <2>3, <2>7, <4>1, <4>2, ReadTable
        DEF Accepted, Progressing, ReadCall
      <4>6. Excused(t)'
        BY <4>1, <4>2 DEF Excused
      <4>7. Progressing(t)'
        BY <2>3, <2>7, <4>1, <4>5, <4>6 DEF Progressing, Sent, ReadCall
      <4>8. Ready(t)'
        <5>1. CASE result = OK
          <6>1. osize[t] = PduSize(req[t]) + PrependSize
            BY <2>1, <2>3, <2>7, ByteCountIs DEF Progressing, TypeOK, ReadCall
          <6>2. out[t] # Null /\ out[t].off = 0
            BY <2>3, <2>7 DEF Pointing, ReadCall
          <6> QED
            BY <2>3, <2>7, <4>1, <4>3, <4>5, <5>1, <6>1, <6>2
            DEF Ready, Due, Progressing, EchoLost, ReadCall, ReadFCs, ReadBitFCs,
                ReadWordFCs, SingleFCs, CoilsFC
        <5>2. CASE result # OK
          BY <4>1, <5>2 DEF Ready
        <5> QED
          BY <5>1, <5>2
      <4> QED
        BY <4>4, <4>7, <4>8
    <3> QED
      BY <2>1, <2>2, <2>21, <3>1, <3>2, <3>3, <3>4, TaskStep
  <2>8. CASE ReadUnset(t)
    <3>1. Others(t)
      BY <2>1, <2>8 DEF Others, TypeOK, ReadUnset
    <3>2. BlockOwnership'
      BY <2>1, <2>2, <2>3, <2>8, OwnershipKept DEF Pointing, TypeOK, ReadUnset
    <3>3. Told(t)'
      BY <2>2, <2>8, Untold DEF ReadUnset
    <3>4. broken' = "no" => Pointing(t)' /\ Progressing(t)' /\ Ready(t)'
      BY <2>1, <2>3, <2>8
      DEF Pointing, Progressing, Ready, TypeOK, ReadUnset, Sent, Excused,
         IllegalFunction
    <3> QED
      BY <2>1, <2>2, <2>21, <3>1, <3>2, <3>3, <3>4, TaskStep
  <2>9. ASSUME NEW result \in Results, SingleCall(t, result) PROVE HandlerInv'
    <3>1. Others(t)
      BY <2>1, <2>9 DEF Others, TypeOK, SingleCall, Call
    <3>2. BlockOwnership'
      BY <2>1, <2>2, <2>3, <2>9, OwnershipKept DEF Pointing, TypeOK, SingleCall
    <3>3. Told(t)'
      BY <2>2, <2>9, Untold DEF SingleCall
    <3>4. broken' = "no" => Pointing(t)' /\ Progressing(t)' /\ Ready(t)'
      <4>1. /\ pc'[t] = (IF result = OK THEN "single" ELSE "error")
            /\ ret'[t] = result /\ req'[t] = req[t] /\ out'[t] = out[t]
            /\ osize'[t] = osize[t] /\ reply'[t] = reply[t] /\ nomem' = nomem
        BY <2>1, <2>9 DEF TypeOK, SingleCall
      <4>2. /\ call'[t].result = result /\ call'[t].order = "host"
            /\ call'[t].table = Table(req[t].fc)
        BY <2>1, <2>9 DEF TypeOK, SingleCall, Call, Flip
      <4>4. Pointing(t)'
        BY <2>3, <2>9, <4>1 DEF Pointing, SingleCall
      <4>5. ret'[t] = OK => Accepted(t)'
        BY <2>3, <2>9, <4>1, <4>2, SingleTable
        DEF Accepted, Progressing, SingleCall
      <4>6. Excused(t)'
        BY <4>1, <4>2 DEF Excused
      <4>7. Progressing(t)'
        BY <2>3, <2>9, <4>1, <4>5, <4>6 DEF Progressing, Sent, SingleCall
      <4> QED
        BY <2>3, <2>9, <4>1, <4>4, <4>5, <4>6, <4>7
        DEF Ready
    <3> QED
      BY <2>1, <2>2, <2>21, <3>1, <3>2, <3>3, <3>4, TaskStep
  <2>10. CASE SingleReply(t)
    <3>1. Others(t)
      <4>1. \A u \in Tasks \ {t} :
              /\ pc'[u] = pc[u] /\ req'[u] = req[u] /\ out'[u] = out[u]
              /\ osize'[u] = osize[u] /\ ret'[u] = ret[u]
              /\ call'[u] = call[u] /\ reply'[u] = reply[u]
              /\ u \in nomem' <=> u \in nomem
        BY <2>1, <2>10 DEF TypeOK, SingleReply, Allocate, AllocationFails
      <4>2. \A u \in Tasks \ {t} :
              out[u] # Null => content'[out[u].block] = content[out[u].block]
        <5>1. ASSUME NEW b \in Blocks \ used,
                     content' = [content EXCEPT ![b].head = "pdu"]
              PROVE  \A c \in Blocks \ {b} : content'[c] = content[c]
          BY <2>1, <5>1 DEF TypeOK
        <5> QED
          BY <2>1, <2>2, <2>10, <5>1, ContentElsewhere
          DEF SingleReply, Allocate
      <4> QED
        BY <4>1, <4>2 DEF Others
    <3>2. BlockOwnership'
      <4>1. CASE \E b \in Blocks : Allocate(t, b, osize'[t]) /\ pc'[t] # "idle"
        BY <2>1, <2>2, <2>3, <2>10, <3>1, <4>1, OwnershipTaken
        DEF Others, Pointing, SingleReply
      <4>2. CASE AllocationFails(t, osize'[t])
        BY <2>1, <2>2, <2>3, <2>10, <4>2, OwnershipKept
        DEF AllocationFails, Pointing, TypeOK, SingleReply
      <4> QED
        BY <2>1, <2>10, <4>1, <4>2
        DEF SingleReply, Allocate, AllocationFails, TypeOK
    <3>3. Told(t)'
      BY <2>2, <2>10, Untold DEF SingleReply
    <3>4. broken' = "no" => Pointing(t)' /\ Progressing(t)' /\ Ready(t)'
      <4>1. ASSUME NEW b \in Blocks, Allocate(t, b, 5 + PrependSize), Goto(t, "send"),
                   ret' = [ret EXCEPT ![t] = OK],
                   content' = [content EXCEPT ![b].head = "pdu"]
            PROVE  Pointing(t)' /\ Progressing(t)' /\ Ready(t)'
        <5>1. /\ out'[t] # Null /\ out'[t].off = 0 /\ out'[t].block = b
              /\ osize'[t] = 5 + PrependSize
          BY <2>1, <4>1, Allocated
        <5>2. /\ pc'[t] = "send" /\ ret'[t] = OK
              /\ req'[t] = req[t] /\ call'[t] = call[t] /\ reply'[t] = reply[t]
              /\ nomem' = nomem
          BY <2>1, <2>10, <4>1 DEF TypeOK, SingleReply, Allocate
        <5>3. content'[b].body = "stale"
          <6>1. b \in Blocks \ used
            BY <4>1 DEF Allocate
          <6>2. content[b].body = "stale"
            BY <2>2, <2>21, <6>1 DEF Clean
          <6>3. content \in [Blocks -> [head : Regions, body : Regions]]
            BY <2>1 DEF TypeOK, Contents
          <6> QED
            BY <4>1, <6>2, <6>3
        <5>4. req[t].fc \in SingleFCs /\ Accepted(t) /\ ~Sent(t)
          BY <2>3, <2>10 DEF Progressing, SingleReply
        <5>5. Pointing(t)'
          BY <5>1, <5>2 DEF Pointing, PrependSize
        <5>6. Progressing(t)' /\ Accepted(t)'
          BY <5>2, <5>4 DEF Progressing, Sent, Accepted
        <5>7. PduSize(req[t]) = 5 /\ req[t].fc # CoilsFC /\ req[t].fc \in EchoLost
          BY <5>4 DEF PduSize, SingleFCs, ReadFCs, ReadBitFCs, ReadWordFCs, CoilsFC, EchoLost
        <5> QED
          BY <5>1, <5>2, <5>3, <5>5, <5>6, <5>7 DEF Ready, Due
      <4>2. ASSUME AllocationFails(t, 5 + PrependSize), Goto(t, "error"),
                   ret' = [ret EXCEPT ![t] = DeviceFailure]
            PROVE  Pointing(t)' /\ Progressing(t)' /\ Ready(t)'
        <5>1. out'[t] = Null /\ t \in nomem'
          BY <2>1, <4>2, NotAllocated
        <5>2. /\ pc'[t] = "error" /\ ret'[t] = DeviceFailure
              /\ req'[t] = req[t] /\ call'[t] = call[t] /\ reply'[t] = reply[t]
          BY <2>1, <2>10, <4>2 DEF TypeOK, SingleReply
        <5> QED
          BY <2>3, <2>10, <5>1, <5>2
          DEF Pointing, Progressing, Ready, Sent, SingleReply, Excused,
             DeviceFailure
      <4> QED
        BY <2>10, <4>1, <4>2 DEF SingleReply, DeviceFailure
    <3> QED
      BY <2>1, <2>2, <2>21, <3>1, <3>2, <3>3, <3>4, TaskStep
  <2>11. CASE WriteUnset(t)
    <3>1. Others(t)
      BY <2>1, <2>11 DEF Others, TypeOK, WriteUnset
    <3>2. BlockOwnership'
      BY <2>1, <2>2, <2>3, <2>11, OwnershipKept
      DEF Pointing, TypeOK, WriteUnset
    <3>3. Told(t)'
      BY <2>2, <2>11, Untold DEF WriteUnset
    <3>4. broken' = "no" => Pointing(t)' /\ Progressing(t)' /\ Ready(t)'
      BY <2>1, <2>3, <2>11
      DEF Pointing, Progressing, Ready, TypeOK, WriteUnset, Sent, Excused,
         IllegalFunction
    <3> QED
      BY <2>1, <2>2, <2>21, <3>1, <3>2, <3>3, <3>4, TaskStep
  <2>12. CASE MultiStart(t)
    <3>1. Others(t)
      BY <2>1, <2>12 DEF Others, TypeOK, MultiStart, Allocate, AllocationFails
    <3>2. BlockOwnership'
      <4>1. CASE \E b \in Blocks : Allocate(t, b, osize'[t]) /\ pc'[t] # "idle"
        BY <2>1, <2>2, <2>3, <2>12, <3>1, <4>1, OwnershipTaken
        DEF Others, Pointing, MultiStart
      <4>2. CASE AllocationFails(t, osize'[t])
        BY <2>1, <2>2, <2>3, <2>12, <4>2, OwnershipKept
        DEF AllocationFails, Pointing, TypeOK, MultiStart
      <4> QED
        BY <2>1, <2>12, <4>1, <4>2
        DEF MultiStart, Allocate, AllocationFails, TypeOK
    <3>3. Told(t)'
      BY <2>2, <2>12, Untold DEF MultiStart
    <3>4. broken' = "no" => Pointing(t)' /\ Progressing(t)' /\ Ready(t)'
      <4>1. ASSUME NEW b \in Blocks, Allocate(t, b, 5 + PrependSize), Goto(t, "write"),
                   UNCHANGED ret
            PROVE  Pointing(t)' /\ Progressing(t)' /\ Ready(t)'
        <5>1. /\ out'[t] # Null /\ out'[t].off = 0 /\ out'[t].block = b
              /\ osize'[t] = 5 + PrependSize
          BY <2>1, <4>1, Allocated
        <5>2. /\ pc'[t] = "write" /\ ret'[t] = ret[t]
              /\ req'[t] = req[t] /\ call'[t] = call[t] /\ reply'[t] = reply[t]
              /\ nomem' = nomem
          BY <2>1, <2>12, <4>1 DEF TypeOK, MultiStart, Allocate
        <5> QED
          BY <2>1, <2>3, <2>12, <4>1, <5>1, <5>2
          DEF Pointing, Progressing, Ready, Sent, MultiStart, PrependSize
      <4>2. ASSUME AllocationFails(t, 5 + PrependSize), Goto(t, "error"),
                   ret' = [ret EXCEPT ![t] = DeviceFailure]
            PROVE  Pointing(t)' /\ Progressing(t)' /\ Ready(t)'
        <5>1. out'[t] = Null /\ t \in nomem'
          BY <2>1, <4>2, NotAllocated
        <5>2. /\ pc'[t] = "error" /\ ret'[t] = DeviceFailure
              /\ req'[t] = req[t] /\ call'[t] = call[t] /\ reply'[t] = reply[t]
          BY <2>1, <2>12, <4>2 DEF TypeOK, MultiStart
        <5> QED
          BY <2>3, <2>12, <5>1, <5>2
          DEF Pointing, Progressing, Ready, Sent, MultiStart, Excused,
             DeviceFailure
      <4> QED
        BY <2>12, <4>1, <4>2 DEF MultiStart, DeviceFailure
    <3> QED
      BY <2>1, <2>2, <2>21, <3>1, <3>2, <3>3, <3>4, TaskStep
  <2>13. ASSUME NEW result \in Results, RegistersCall(t, result) PROVE HandlerInv'
    <3>1. Others(t)
      <4>1. \A u \in Tasks \ {t} :
              /\ pc'[u] = pc[u] /\ req'[u] = req[u] /\ out'[u] = out[u]
              /\ osize'[u] = osize[u] /\ ret'[u] = ret[u]
              /\ call'[u] = call[u] /\ reply'[u] = reply[u]
              /\ u \in nomem' <=> u \in nomem
        BY <2>1, <2>13 DEF TypeOK, RegistersCall, Call
      <4>2. \A u \in Tasks \ {t} :
              out[u] # Null => content'[out[u].block] = content[out[u].block]
        <5>1. out[t] # Null /\ out[t].block \in Blocks
          BY <2>1, <2>2, <2>3, <2>13, BufferIsBlock DEF Pointing, RegistersCall
        <5>2. \A c \in Blocks \ {out[t].block} : content'[c] = content[c]
          BY <2>1, <2>13 DEF TypeOK, RegistersCall, Write
        <5> QED
          BY <2>1, <2>2, <5>1, <5>2, ContentElsewhere
      <4> QED
        BY <4>1, <4>2 DEF Others
    <3>2. BlockOwnership'
      BY <2>1, <2>2, <2>3, <2>13, OwnershipKept
      DEF Pointing, TypeOK, RegistersCall
    <3>3. Told(t)'
      BY <2>2, <2>13, Untold DEF RegistersCall
    <3>4. broken' = "no" => Pointing(t)' /\ Progressing(t)' /\ Ready(t)'
      <4>1. /\ pc'[t] = (IF result = OK THEN "send" ELSE "error")
            /\ ret'[t] = result /\ req'[t] = req[t] /\ out'[t] = out[t]
            /\ osize'[t] = osize[t] /\ reply'[t] = reply[t] /\ nomem' = nomem
        BY <2>1, <2>13 DEF TypeOK, RegistersCall
      <4>2. /\ call'[t].result = result /\ call'[t].order = "host"
            /\ call'[t].table = Table(req[t].fc)
        BY <2>1, <2>13 DEF TypeOK, RegistersCall, Call, Flip
      <4>3. TRUE => content'[out[t].block].body = "pdu"
        BY <2>1, <2>2, <2>3, <2>13, BufferIsBlock, BodyWritten
        DEF RegistersCall, Write, Pointing, Flip
      <4>4. Pointing(t)'
        BY <2>3, <2>13, <4>1 DEF Pointing, RegistersCall
      <4>5. ret'[t] = OK => Accepted(t)'
        BY <2>3, <2>13, <4>1, <4>2, MultiTable
        DEF Accepted, Progressing, RegistersCall, MultiFCs, RegistersFC,
           ReadWriteFC
      <4>6. Excused(t)'
        BY <4>1, <4>2 DEF Excused
      <4>7. Progressing(t)'
        BY <2>3, <2>13, <4>1, <4>5, <4>6 DEF Progressing, Sent, RegistersCall
      <4> QED
        BY <2>1, <2>3, <2>13, <4>1, <4>3, <4>4, <4>5, <4>6, <4>7
        DEF Ready, Due, EchoLost, SingleFCs, CoilsFC, ReadFCs, Pointing, Progressing, TypeOK, PduSize, PrependSize, RegistersCall, RegistersFC, ReadBitFCs, ReadWordFCs
    <3> QED
      BY <2>1, <2>2, <2>21, <3>1, <3>2, <3>3, <3>4, TaskStep
  <2>14. ASSUME NEW result \in Results, CoilsCall(t, result) PROVE HandlerInv'
    <3>1. Others(t)
      <4>1. \A u \in Tasks \ {t} :
              /\ pc'[u] = pc[u] /\ req'[u] = req[u] /\ out'[u] = out[u]
              /\ osize'[u] = osize[u] /\ ret'[u] = ret[u]
              /\ call'[u] = call[u] /\ reply'[u] = reply[u]
              /\ u \in nomem' <=> u \in nomem
        BY <2>1, <2>14 DEF TypeOK, CoilsCall, Call
      <4>2. \A u \in Tasks \ {t} :
              out[u] # Null => content'[out[u].block] = content[out[u].block]
        <5>1. out[t] # Null /\ out[t].block \in Blocks
          BY <2>1, <2>2, <2>3, <2>14, BufferIsBlock DEF Pointing, CoilsCall
        <5>2. \A c \in Blocks \ {out[t].block} : content'[c] = content[c]
          BY <2>1, <2>14 DEF TypeOK, CoilsCall, Write
        <5> QED
          BY <2>1, <2>2, <5>1, <5>2, ContentElsewhere
      <4> QED
        BY <4>1, <4>2 DEF Others
    <3>2. BlockOwnership'
      BY <2>1, <2>2, <2>3, <2>14, OwnershipKept
      DEF Pointing, TypeOK, CoilsCall, PrependSize, Null
    <3>3. Told(t)'
      BY <2>2, <2>14, Untold DEF CoilsCall
    <3>4. broken' = "no" => Pointing(t)' /\ Progressing(t)' /\ Ready(t)'
      <4>1. /\ pc'[t] \in {"send", "error", "coilsdone"}
            /\ pc'[t] = "send" => result = OK /\ req[t].fc = CoilsFC
            /\ pc'[t] = "error" => result # OK
            /\ ret'[t] = result /\ req'[t] = req[t] /\ nomem' = nomem
            /\ osize'[t] = osize[t] /\ reply'[t] = reply[t]
        BY <2>1, <2>14 DEF TypeOK, CoilsCall
      <4>2. /\ call'[t].result = result /\ call'[t].order = "host"
            /\ call'[t].table = Table(req[t].fc)
        BY <2>1, <2>14 DEF TypeOK, CoilsCall, Call, Flip
      <4>3. out'[t].block = out[t].block /\ out'[t].off = PrependSize
        BY <2>1, <2>14 DEF TypeOK, CoilsCall, Pointers
      <4>4. out'[t] # Null
        BY <4>3 DEF Null, PrependSize
      <4>5. Pointing(t)'
        BY <2>3, <2>14, <4>1, <4>4 DEF Pointing, CoilsCall
      <4>6. req[t].fc = CoilsFC /\ ret'[t] = OK => Accepted(t)'
        BY <4>1, <4>2, MultiTable DEF Accepted, MultiFCs, CoilsFC, ReadWriteFC
      <4>7. Excused(t)'
        BY <4>1, <4>2 DEF Excused
      <4>8. Progressing(t)'
        BY <2>3, <2>14, <4>1, <4>7 DEF Progressing, Sent, CoilsCall
      <4>9. Ready(t)'
        <5>1. osize[t] = 5 + PrependSize
          BY <2>3, <2>14 DEF Progressing, CoilsCall
        <5>2. req[t].fc = CoilsFC => PduSize(req[t]) = 5
          BY DEF PduSize, CoilsFC, ReadFCs, ReadBitFCs, ReadWordFCs
        <5> QED
          BY <4>1, <4>3, <4>4, <4>6, <5>1, <5>2 DEF Ready, PrependSize
      <4> QED
        BY <4>5, <4>8, <4>9
    <3> QED
      BY <2>1, <2>2, <2>21, <3>1, <3>2, <3>3, <3>4, TaskStep
  <2>15. CASE FreeCoilsBuffer(t)
    <3>1. Others(t)
      BY <2>1, <2>15 DEF Others, TypeOK, FreeCoilsBuffer
    <3>2. BlockOwnership'
      BY <2>15 DEF FreeCoilsBuffer, BlockOwnership
    <3>3. Told(t)'
      BY <2>2, <2>15, Untold DEF FreeCoilsBuffer
    <3>4. broken' = "no" => Pointing(t)' /\ Progressing(t)' /\ Ready(t)'
      BY <2>15 DEF FreeCoilsBuffer
    <3> QED
      BY <2>1, <2>2, <2>21, <3>1, <3>2, <3>3, <3>4, TaskStep
  <2>16. CASE ErrorReply(t)
    <3>1. Others(t)
      <4>1. \A u \in Tasks \ {t} :
              /\ pc'[u] = pc[u] /\ req'[u] = req[u] /\ out'[u] = out[u]
              /\ osize'[u] = osize[u] /\ ret'[u] = ret[u]
              /\ call'[u] = call[u] /\ reply'[u] = reply[u]
              /\ u \in nomem' <=> u \in nomem
        BY <2>1, <2>16 DEF TypeOK, ErrorReply, Allocate, AllocationFails
      <4>2. \A u \in Tasks \ {t} :
              out[u] # Null => content'[out[u].block] = content[out[u].block]
        <5>1. ASSUME NEW b \in Blocks \ used,
                     content' = [content EXCEPT ![b].body = "error"]
              PROVE  \A c \in Blocks \ {b} : content'[c] = content[c]
          BY <2>1, <5>1 DEF TypeOK
        <5> QED
          BY <2>1, <2>2, <2>16, <5>1, ContentElsewhere DEF ErrorReply, Allocate
      <4> QED
        BY <4>1, <4>2 DEF Others
    <3>2. BlockOwnership'
      <4>1. CASE \E b \in Blocks : Allocate(t, b, osize'[t]) /\ pc'[t] # "idle"
        BY <2>1, <2>2, <2>3, <2>16, <3>1, <4>1, OwnershipTaken
        DEF Others, Pointing, ErrorReply
      <4>2. CASE AllocationFails(t, osize'[t])
        BY <2>1, <2>2, <2>3, <2>16, <4>2, OwnershipKept
        DEF AllocationFails, Pointing, TypeOK, ErrorReply
      <4> QED
        BY <2>1, <2>16, <4>1, <4>2
        DEF ErrorReply, Allocate, AllocationFails, TypeOK
    <3>3. Told(t)'
      BY <2>2, <2>16, Untold DEF ErrorReply
    <3>4. broken' = "no" => Pointing(t)' /\ Progressing(t)' /\ Ready(t)'
      <4>1. ASSUME NEW b \in Blocks, Allocate(t, b, 2 + PrependSize), Goto(t, "send"),
                   UNCHANGED ret,
                   content' = [content EXCEPT ![b].body = "error"]
            PROVE  Pointing(t)' /\ Progressing(t)' /\ Ready(t)'
        <5>1. /\ out'[t] # Null /\ out'[t].off = 0 /\ out'[t].block = b
              /\ osize'[t] = 2 + PrependSize
          BY <2>1, <4>1, Allocated
        <5>2. /\ pc'[t] = "send" /\ ret'[t] = ret[t]
              /\ req'[t] = req[t] /\ call'[t] = call[t] /\ reply'[t] = reply[t]
              /\ nomem' = nomem
          BY <2>1, <2>16, <4>1 DEF TypeOK, ErrorReply, Allocate
        <5>3. content'[b].body = "error"
          BY <2>1, <4>1, BodyWritten
        <5>4. ret[t] # OK /\ Excused(t)'
          BY <2>3, <2>16, <5>2 DEF Progressing, Excused, ErrorReply
        <5>5. Pointing(t)'
          BY <5>1, <5>2 DEF Pointing, PrependSize
        <5>6. Progressing(t)'
          BY <2>3, <2>16, <5>2 DEF Progressing, Sent, ErrorReply
        <5> QED
          BY <5>1, <5>2, <5>3, <5>4, <5>5, <5>6 DEF Ready
      <4>2. ASSUME AllocationFails(t, 0), Goto(t, "send"),
                   UNCHANGED ret
            PROVE  Pointing(t)' /\ Progressing(t)' /\ Ready(t)'
        <5>1. out'[t] = Null /\ t \in nomem'
          BY <2>1, <4>2, NotAllocated
        <5>2. /\ pc'[t] = "send" /\ ret'[t] = ret[t]
              /\ req'[t] = req[t] /\ call'[t] = call[t] /\ reply'[t] = reply[t]
          BY <2>1, <2>16, <4>2 DEF TypeOK, ErrorReply
        <5> QED
          BY <2>3, <2>16, <5>1, <5>2
          DEF Pointing, Progressing, Ready, Sent, ErrorReply, Excused
      <4> QED
        BY <2>16, <4>1, <4>2 DEF ErrorReply
    <3> QED
      BY <2>1, <2>2, <2>21, <3>1, <3>2, <3>3, <3>4, TaskStep
  <2>17. CASE RejectWithBuffer(t)
    <3>1. Others(t)
      BY <2>1, <2>17 DEF Others, TypeOK, RejectWithBuffer, Free, BlockOwnership
    <3>2. BlockOwnership'
      BY <2>17 DEF RejectWithBuffer, BlockOwnership
    <3>3. Told(t)'
      BY <2>2, <2>17, Untold DEF RejectWithBuffer
    <3>4. broken' = "no" => Pointing(t)' /\ Progressing(t)' /\ Ready(t)'
      BY <2>17 DEF RejectWithBuffer
    <3> QED
      BY <2>1, <2>2, <2>21, <3>1, <3>2, <3>3, <3>4, TaskStep
  <2>18. CASE SendReply(t)
    <3>1. Others(t)
      BY <2>1, <2>18 DEF Others, TypeOK, SendReply, BlockOwnership
    <3>2. BlockOwnership'
      BY <2>1, <2>2, <2>3, <2>18, OwnershipKept DEF Pointing, TypeOK, SendReply
    <3>3. Told(t)'
      <4>1. out[t] # Null /\ osize[t] \in Nat
        BY <2>1, <2>18 DEF SendReply, TypeOK
      <4>2. reply'[t] = [head |-> "mbap",
                         body |-> IF out[t].off = 0 THEN content[out[t].block].body
                                                    ELSE "stale",
                         bytes |-> osize[t],
                         length |-> osize[t] - PrependSize + 1]
        BY <2>1, <2>18 DEF SendReply, TypeOK
      <4>3. /\ ret'[t] = ret[t] /\ req'[t] = req[t]
            /\ Accepted(t)' <=> Accepted(t)
            /\ Excused(t)' <=> Excused(t)
        BY <2>18 DEF SendReply, Accepted, Excused
      <4>4. IF ret[t] = OK THEN Accepted(t) ELSE Excused(t)
        BY <2>3, <2>18 DEF SendReply, Ready
      <4>5. /\ osize[t] = (IF ret[t] = OK THEN PduSize(req[t]) ELSE 2) + PrependSize
            /\ reply'[t].body = Due(t)
        BY <2>3, <2>18, <4>1, <4>2 DEF SendReply, Ready, Due, EchoLost
      <4>6. PduSize(req[t]) \in Int
        BY <2>1, PduSizeIs DEF TypeOK
      <4>8. Due(t)' = Due(t)
        BY <4>3 DEF Due
      <4>7. Whole(t, Due(t))'
        BY <4>2, <4>3, <4>5, <4>6, <4>8 DEF Whole, PrependSize
      <4> QED
        BY <4>3, <4>4, <4>7 DEF Told
    <3>4. broken' = "no" => Pointing(t)' /\ Progressing(t)' /\ Ready(t)'
      BY <2>1, <2>3, <2>18
      DEF Pointing, Progressing, Ready, TypeOK, SendReply, Sent, NoReply
    <3> QED
      BY <2>1, <2>2, <2>21, <3>1, <3>2, <3>3, <3>4, TaskStep
  <2>19. CASE SendNothing(t)
    <3>1. Others(t)
      BY <2>1, <2>19 DEF Others, TypeOK, SendNothing
    <3>2. BlockOwnership'
      BY <2>1, <2>2, <2>3, <2>19, OwnershipKept
      DEF Pointing, TypeOK, SendNothing
    <3>3. Told(t)'
      BY <2>2, <2>19, Untold DEF SendNothing
    <3>4. broken' = "no" => Pointing(t)' /\ Progressing(t)' /\ Ready(t)'
      BY <2>1, <2>3, <2>19
      DEF Pointing, Progressing, Ready, TypeOK, SendNothing, Sent
    <3> QED
      BY <2>1, <2>2, <2>21, <3>1, <3>2, <3>3, <3>4, TaskStep
  <2>20. CASE FreeReply(t)
    <3>1. Others(t)
      BY <2>1, <2>20 DEF Others, TypeOK, FreeReply, Free, BlockOwnership
    <3>2. BlockOwnership'
      <4>1. CASE out[t].off = 0
        BY <2>1, <2>2, <2>3, <2>20, <4>1, OwnershipReturned
        DEF FreeReply, Free, Pointing, TypeOK
      <4>2. CASE out[t].off # 0
        BY <2>20, <4>2 DEF FreeReply, BlockOwnership
      <4> QED
        BY <4>1, <4>2
    <3>3. Told(t)'
      BY <2>3, <2>20 DEF FreeReply, Told, Sent, Whole, Due, Accepted, Excused
    <3>4. broken' = "no" => Pointing(t)' /\ Progressing(t)' /\ Ready(t)'
      BY <2>1, <2>3, <2>20
      DEF Pointing, Progressing, Ready, TypeOK, FreeReply, Null, Sent
    <3> QED
      BY <2>1, <2>2, <2>21, <3>1, <3>2, <3>3, <3>4, TaskStep
  <2> QED
    BY <1>2, <2>4, <2>5, <2>6, <2>7, <2>8, <2>9, <2>10, <2>11, <2>12, <2>13,
       <2>14, <2>15, <2>16, <2>17, <2>18, <2>19, <2>20
    DEF Handle
<1> QED
  BY <1>1, <1>2 DEF Next

(* It holds always.                                                        *)
LEMMA HandlerInvariant == Spec => []HandlerInv
BY HandlerInvInit, HandlerInvStep, PTL DEF Spec

-----------------------------------------------------------------------------
(* No handler computes a length, a pointer or a result outside its type:   *)
(* send_size never goes below the seven bytes of the MBAP header it        *)
(* includes.                                                               *)
THEOREM HandlerTypeCorrect == Spec => []TypeOK
<1>1. HandlerInv => TypeOK
  BY DEF HandlerInv
<1> QED
  BY <1>1, HandlerInvariant, PTL

(* pvPortMalloc and vPortFree pair up: a reply buffer is an allocated      *)
(* block of one task, and an answered request keeps none.                  *)
THEOREM BuffersAreOwned == Spec => []BlockOwnership
<1>1. HandlerInv => BlockOwnership
  BY DEF HandlerInv, PointersInv
<1> QED
  BY <1>1, HandlerInvariant, PTL

(* Whatever function, quantity and byte count are requested, and wherever  *)
(* byte_count wraps: a reply has the size its header says, and carries the *)
(* response as far as its count says, the exception, or, for the echoes    *)
(* that lines 104 and 306 misplace, stale bytes.                           *)
THEOREM RepliesAreFramed == Spec => []RepliesFramed
<1>1. HandlerInv => RepliesFramed
  BY DEF HandlerInv
<1> QED
  BY <1>1, HandlerInvariant, PTL

(* A positive reply tells of a callback that was called on the right table *)
(* and accepted; an exception of one that refused or was never called.     *)
THEOREM AnswersAreTrue == Spec => []AnswersMatchEffects
<1>1. HandlerInv => AnswersMatchEffects
  BY DEF HandlerInv
<1> QED
  BY <1>1, HandlerInvariant, PTL

(* The only request modbus_tcp_handle_request drops (send_buffer is NULL   *)
(* in line 69) is one the heap had no memory for.                          *)
THEOREM SilenceMeansNoMemory == Spec => SilentOnlyWithoutMemory
<1>1. HandlerInv /\ [Next]_vars
      => [\A t \in Tasks :
             pc[t] # "idle" /\ pc'[t] = "idle" => Sent(t) \/ t \in nomem]_vars
  <2> SUFFICES ASSUME HandlerInv, Next, NEW t \in Tasks,
                      pc[t] # "idle", pc'[t] = "idle"
               PROVE  Sent(t) \/ t \in nomem
    OBVIOUS
  <2>1. /\ pc \in [Tasks -> Labels]
        /\ broken = "no" => Progressing(t) /\ Ready(t)
    BY DEF HandlerInv, TypeOK
  <2>2. PICK u \in Tasks : (\E r \in Requests : Receive(u, r)) \/ Handle(u)
    BY DEF Next
  <2>3. SendNothing(t) \/ FreeReply(t)
    BY <2>1, <2>2
    DEF Handle, Running, Goto, Return, Receive, Unsupported, ReadStart, ReadCall,
        SingleCall, ReadUnset, SingleReply, WriteUnset, MultiStart,
        RegistersCall, CoilsCall, FreeCoilsBuffer, ErrorReply,
        RejectWithBuffer, SendReply, SendNothing, FreeReply
  <2>4. CASE SendNothing(t)
    BY <2>1, <2>4 DEF SendNothing, Running, Ready
  <2>5. CASE FreeReply(t)
    BY <2>1, <2>5 DEF FreeReply, Running, Progressing
  <2> QED
    BY <2>3, <2>4, <2>5
<1> QED
  BY <1>1, HandlerInvariant, PTL DEF Spec, SilentOnlyWithoutMemory
=============================================================================

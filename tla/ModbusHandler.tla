---------------------------- MODULE ModbusHandler ----------------------------
(***************************************************************************)
(* The request handlers of Libraries/modbus/src/modbus.c and the caller    *)
(* that frames and sends what they build, modbus_tcp_handle_request: from  *)
(* a request to the callbacks of the application, the heap block of the    *)
(* reply, and its way out or back to the heap.                             *)
(*                                                                         *)
(* Handler tasks share nothing but the FreeRTOS heap, so a step runs from  *)
(* one heap call or callback to the next.  A request is its function code, *)
(* its quantity and the byte count a write of several announces, as they   *)
(* are received: the handlers check none of them.  A reply buffer has two  *)
(* regions, the seven bytes that prepend_size reserves for the MBAP header *)
(* and the bytes after them, each described by what was last written to it.*)
(***************************************************************************)
EXTENDS Integers

CONSTANTS
    Tasks,          \* modbus_tcp_connection_handle tasks
    Blocks,         \* blocks the heap can give to reply buffers
    CallbackSets,   \* the fields of ModbusCallbacks an application may set
    Results,        \* what the callbacks of the application may return
    Requests,       \* records [fc, q, n]: complete requests, whatever their fields
    RecvBufferSize, \* MODBUS_RECV_BUFFER_SIZE
    NoBlock         \* the NULL pointer

ReadBitFCs == {1, 2}      \* coils, discrete inputs
ReadWordFCs == {3, 4}     \* holding registers, input registers
ReadFCs == ReadBitFCs \cup ReadWordFCs
SingleFCs == {5, 6}       \* one coil, one register
CoilsFC == 15
RegistersFC == 16
ReadWriteFC == 23
MultiFCs == {CoilsFC, RegistersFC, ReadWriteFC}
SupportedFCs == ReadFCs \cup SingleFCs \cup MultiFCs

OK == 0
IllegalFunction == 1
DeviceFailure == 4

ASSUME HandlerAssumption ==
    /\ Requests \subseteq [fc : Nat, q : Nat, n : Nat]
    /\ Requests # {}
    /\ Results \subseteq Nat
    /\ RecvBufferSize \in Nat
    /\ NoBlock \notin Blocks

VARIABLES
    callbacks,  \* the fields of ModbusCallbacks that are not NULL
    used,       \* blocks of the heap that are allocated
    content,    \* block -> what its two regions hold
    pc,         \* task -> where the request is
    req,        \* task -> the request
    out,        \* task -> send_buffer: the block it points into, its offset
    osize,      \* task -> send_size
    ret,        \* task -> the result of the handler
    broken,     \* "no", or what stopped the board or corrupted the task
    \* History of the current request, which no guard reads:
    call,       \* task -> the last call of a callback
    reply,      \* task -> what was sent
    nomem       \* tasks one of whose allocations failed

bufVars == <<out, osize>>
history == <<call, reply, nomem>>
vars == <<callbacks, used, content, pc, req, bufVars, ret, broken, history>>

Null == [block |-> NoBlock, off |-> 0]
Stale == [head |-> "stale", body |-> "stale"]
NoCall == [name |-> "none", table |-> "none", order |-> "none", result |-> OK]
NoReply == [head |-> "none", body |-> "none", bytes |-> 0, length |-> 0]

PrependSize == 7   \* MODBUS_MBAP_HEADER_LENGTH; append_size is 0

(***************************************************************************)
(* Lengths.  byte_count is a uint8_t.                                      *)
(***************************************************************************)
ByteCount_Truncated(r) ==   \* the remainder of the division by 8 forgotten
    IF r.fc \in ReadBitFCs THEN (r.q \div 8) % 256 ELSE (2 * r.q) % 256

ByteCount(r) ==
    IF r.fc \in ReadBitFCs
    THEN ((r.q \div 8) + (IF r.q % 8 = 0 THEN 0 ELSE 1)) % 256
    ELSE (2 * r.q) % 256

(* The bytes of data that a read asks for.                                 *)
DataBytes(r) == IF r.fc \in ReadBitFCs THEN (r.q + 7) \div 8 ELSE 2 * r.q

(* The block is as long as byte_count says; the callback is asked for all  *)
(* of the quantity, and all of its words are flipped.                      *)
Overruns(r) == DataBytes(r) > ByteCount(r)

(* Converting between the order of the wire and that of the processor,     *)
(* modbus_flip_word and modbus_flip_byte_bits, is its own inverse.         *)
Flip(order) == IF order = "wire" THEN "host" ELSE "wire"

(* The callback each function needs, as the handlers test for it.          *)
Needs(fc) ==
    {name \in {"read_bits", "read_words", "write_bits", "write_words"} :
        \/ name = "read_bits" /\ fc \in ReadBitFCs
        \/ name = "read_words" /\ fc \in ReadWordFCs \cup {ReadWriteFC}
        \/ name = "write_bits" /\ fc \in {5, CoilsFC, ReadWriteFC}
        \/ name = "write_words" /\ fc \in {6, RegistersFC, ReadWriteFC}}

(* The table each handler names in its call.                               *)
Table_Swapped(fc) ==
    IF fc \in {1, 5, CoilsFC, ReadWriteFC} THEN "coils"
    ELSE IF fc = 2 THEN "discretes"
    ELSE IF fc \in {3, 6, RegistersFC} THEN "inputs" ELSE "holdings"

Table(fc) ==
    IF fc \in {1, 5, CoilsFC, ReadWriteFC} THEN "coils"
    ELSE IF fc = 2 THEN "discretes"
    ELSE IF fc \in {3, 6, RegistersFC} THEN "holdings" ELSE "inputs"

Init ==
    /\ callbacks \in CallbackSets
    /\ used = {}
    /\ content = [b \in Blocks |-> Stale]
    /\ pc = [t \in Tasks |-> "idle"]
    /\ req = [t \in Tasks |-> CHOOSE r \in Requests : TRUE]
    /\ out = [t \in Tasks |-> Null]
    /\ osize = [t \in Tasks |-> 0]
    /\ ret = [t \in Tasks |-> OK]
    /\ broken = "no"
    /\ call = [t \in Tasks |-> NoCall]
    /\ reply = [t \in Tasks |-> NoReply]
    /\ nomem = {}

-----------------------------------------------------------------------------
(* The heap calls of the handlers.                                         *)

(* pvPortMalloc(size) in *output_buffer.  The block holds what its last    *)
(* user left; which bytes those are makes no difference.                   *)
Allocate(t, b, size) ==
    /\ b \in Blocks \ used
    /\ used' = used \cup {b}
    /\ out' = [out EXCEPT ![t] = [block |-> b, off |-> 0]]
    /\ osize' = [osize EXCEPT ![t] = size]
    /\ UNCHANGED nomem

(* The heap also serves task stacks and queues, so it can run out at any   *)
(* call.                                                                   *)
AllocationFails(t, size) ==
    /\ out' = [out EXCEPT ![t] = Null]
    /\ osize' = [osize EXCEPT ![t] = size]
    /\ nomem' = nomem \cup {t}
    /\ UNCHANGED used

(* vPortFree of a block.  What it holds is stale for the next user.        *)
Free(b) ==
    /\ used' = used \ {b}
    /\ content' = [content EXCEPT ![b] = Stale]

(* A call of a callback: it may return any result.                         *)
Call(t, name, order, result) ==
    call' = [call EXCEPT ![t] = [name |-> name, table |-> Table(req[t].fc),
                                 order |-> order, result |-> result]]

Goto(t, label) == pc' = [pc EXCEPT ![t] = label]

(* return from the handler to line 419 of modbus_handle_request.           *)
Return(t, result) ==
    /\ ret' = [ret EXCEPT ![t] = result]
    /\ Goto(t, IF result = OK THEN "send" ELSE "error")

Running(t, label) == pc[t] = label /\ broken = "no"

Write(t, body) ==
    content' = [content EXCEPT ![out[t].block].body = body]

-----------------------------------------------------------------------------
Receive(t, r) ==
    /\ Running(t, "idle")
    /\ req' = [req EXCEPT ![t] = r]
    /\ out' = [out EXCEPT ![t] = Null]
    /\ osize' = [osize EXCEPT ![t] = 0]
    /\ ret' = [ret EXCEPT ![t] = DeviceFailure]
    /\ call' = [call EXCEPT ![t] = NoCall]
    /\ reply' = [reply EXCEPT ![t] = NoReply]
    /\ nomem' = nomem \ {t}
    /\ Goto(t, "start")
    /\ UNCHANGED <<callbacks, used, content, broken>>

(* modbus_handle_request's default case.                                   *)
Unsupported_Ignored(t) ==   \* return instead of an exception
    /\ Running(t, "start")
    /\ req[t].fc \notin SupportedFCs
    /\ Goto(t, "idle")
    /\ UNCHANGED <<callbacks, used, content, req, bufVars, ret, broken, history>>

Unsupported(t) ==
    /\ Running(t, "start")
    /\ req[t].fc \notin SupportedFCs
    /\ Return(t, IllegalFunction)
    /\ UNCHANGED <<callbacks, used, content, req, bufVars, broken, history>>

(* The read handlers allocate before they look at the callback.            *)
ReadStart(t) ==
    LET size == 2 + ByteCount(req[t]) + PrependSize
    IN  /\ Running(t, "start")
        /\ req[t].fc \in ReadFCs
        /\ \/ /\ \E b \in Blocks : Allocate(t, b, size)
              /\ Goto(t, "read")
              /\ UNCHANGED ret
           \/ AllocationFails(t, size) /\ Return(t, DeviceFailure)
        /\ UNCHANGED <<callbacks, content, req, broken, call, reply>>

(* The callback fills the buffer in the order of the processor; the reply  *)
(* is converted in place.  What lies behind the block is written to when   *)
(* byte_count has wrapped; it may be of no consequence.                    *)
ReadCall(t, result) ==
    /\ Running(t, "read")
    /\ Needs(req[t].fc) \subseteq callbacks
    /\ Call(t, "read", "host", result)
    /\ Return(t, result)
    /\ IF result = OK
       THEN Write(t, IF Flip("host") = "wire" THEN "pdu" ELSE "unflipped")
       ELSE UNCHANGED content
    /\ \/ UNCHANGED broken
       \/ Overruns(req[t]) /\ broken' = "heap"
    /\ UNCHANGED <<callbacks, used, req, bufVars, reply, nomem>>

ReadUnset(t) ==
    /\ Running(t, "read")
    /\ ~(Needs(req[t].fc) \subseteq callbacks)
    /\ Return(t, IllegalFunction)
    /\ UNCHANGED <<callbacks, used, content, req, bufVars, broken, history>>

(* modbus_write_request_handler calls back before it allocates; the value  *)
(* it passes has been put together byte by byte.                           *)
SingleCall(t, result) ==
    /\ Running(t, "start")
    /\ req[t].fc \in SingleFCs
    /\ Needs(req[t].fc) \subseteq callbacks
    /\ Call(t, "write", "host", result)
    /\ IF result = OK
       THEN Goto(t, "single") /\ ret' = [ret EXCEPT ![t] = OK]
       ELSE Return(t, result)
    /\ UNCHANGED <<callbacks, used, content, req, bufVars, broken, reply, nomem>>

(* The echo goes to the first five bytes of the buffer.                    *)
SingleReply(t) ==
    /\ Running(t, "single")
    /\ \/ /\ \E b \in Blocks :
               /\ Allocate(t, b, 5 + PrependSize)
               /\ content' = [content EXCEPT ![b].head = "pdu"]
          /\ Return(t, OK)
       \/ /\ AllocationFails(t, 5 + PrependSize)
          /\ Return(t, DeviceFailure)
          /\ UNCHANGED content
    /\ UNCHANGED <<callbacks, req, broken, call, reply>>

(* The handlers of several coils or registers, and the one of both reading *)
(* and writing, which calls the one of coils, look at the callbacks first. *)
WriteUnset(t) ==
    /\ Running(t, "start")
    /\ req[t].fc \in SingleFCs \cup MultiFCs
    /\ ~(Needs(req[t].fc) \subseteq callbacks)
    /\ Return(t, IllegalFunction)
    /\ UNCHANGED <<callbacks, used, content, req, bufVars, broken, history>>

MultiStart(t) ==
    /\ Running(t, "start")
    /\ req[t].fc \in MultiFCs
    /\ Needs(req[t].fc) \subseteq callbacks
    /\ \/ /\ \E b \in Blocks : Allocate(t, b, 5 + PrependSize)
          /\ Goto(t, "write")
          /\ UNCHANGED ret
       \/ AllocationFails(t, 5 + PrependSize) /\ Return(t, DeviceFailure)
    /\ UNCHANGED <<callbacks, content, req, broken, call, reply>>

(* The data start 13 bytes into the receive buffer; as many words or bytes *)
(* are flipped there as the byte count says.                               *)
FlipLeavesBuffer(r) ==
    13 + (IF r.fc = RegistersFC THEN 2 ELSE 1) * r.n > RecvBufferSize

RegistersCall(t, result) ==
    /\ Running(t, "write")
    /\ req[t].fc = RegistersFC
    /\ Call(t, "write", Flip("wire"), result)
    /\ Write(t, "pdu")
    /\ Return(t, result)
    /\ \/ UNCHANGED broken
       \/ FlipLeavesBuffer(req[t]) /\ broken' = "stack"
    /\ UNCHANGED <<callbacks, used, req, bufVars, reply, nomem>>

(* Line 306 moves the pointer the caller will send from and free.          *)
CoilsCall(t, result) ==
    /\ Running(t, "write")
    /\ req[t].fc \in {CoilsFC, ReadWriteFC}
    /\ Call(t, "write", Flip("wire"), result)
    /\ Write(t, "pdu")
    /\ out' = [out EXCEPT ![t].off = PrependSize]
    /\ IF req[t].fc = CoilsFC
       THEN Return(t, result)
       ELSE Goto(t, "coilsdone") /\ ret' = [ret EXCEPT ![t] = result]
    /\ \/ UNCHANGED broken
       \/ FlipLeavesBuffer(req[t]) /\ broken' = "stack"
    /\ UNCHANGED <<callbacks, used, req, osize, reply, nomem>>

(* Line 335 frees the moved pointer.  The word before it is not a block    *)
(* header, one of the assertions of vPortFree fails, and the board loops   *)
(* with interrupts off: the read half of function 23 is never reached.     *)
FreeCoilsBuffer(t) ==
    /\ Running(t, "coilsdone")
    /\ broken' = "assert"
    /\ UNCHANGED <<callbacks, used, content, pc, req, bufVars, ret, history>>

(* modbus_handle_request, lines 419-428.                                   *)

(* The handler returned without a buffer: an exception response is built.  *)
ErrorReply_Retried(t) ==   \* without memory the request is handled again
    LET size == 2 + PrependSize
    IN  /\ Running(t, "error")
        /\ out[t] = Null
        /\ \/ /\ \E b \in Blocks :
                   /\ Allocate(t, b, size)
                   /\ content' = [content EXCEPT ![b].body = "error"]
              /\ Goto(t, "send")
           \/ AllocationFails(t, 0) /\ Goto(t, "start") /\ UNCHANGED content
        /\ UNCHANGED <<callbacks, req, ret, broken, call, reply>>

ErrorReply(t) ==
    LET size == 2 + PrependSize
    IN  /\ Running(t, "error")
        /\ out[t] = Null
        /\ \/ \E b \in Blocks :
                /\ Allocate(t, b, size)
                /\ content' = [content EXCEPT ![b].body = "error"]
           \/ AllocationFails(t, 0) /\ UNCHANGED content
        /\ Goto(t, "send")
        /\ UNCHANGED <<callbacks, req, ret, broken, call, reply>>

(* It returned with one: the block is freed and output_buffer itself set   *)
(* to NULL, through which modbus_create_error_response then stores.  At    *)
(* -O0 what it reads back from address 0 is the initial stack pointer, the *)
(* end of the RAM, and its next store is past it: HardFault.               *)
RejectWithBuffer(t) ==
    /\ Running(t, "error")
    /\ out[t] # Null
    /\ IF out[t].off = 0
       THEN Free(out[t].block) /\ broken' = "null"
       ELSE broken' = "assert" /\ UNCHANGED <<used, content>>
    /\ UNCHANGED <<callbacks, pc, req, bufVars, ret, history>>

(* modbus_tcp_handle_request, lines 69-76.                                 *)

(* modbus_mbap_fill_from_struct writes the seven bytes send_buffer points  *)
(* to, then send_size bytes are sent from there.                           *)
SendReply_Unchecked(t) ==   \* without send_buffer != NULL in line 69
    /\ Running(t, "send")
    /\ reply' = [reply EXCEPT ![t] =
           [head |-> "mbap",
            body |-> IF out[t] = Null THEN "stale" ELSE content[out[t].block].body,
            bytes |-> osize[t],
            length |-> osize[t] - PrependSize + 1]]
    /\ Goto(t, "free")
    /\ UNCHANGED <<callbacks, used, content, req, bufVars, ret, broken, call, nomem>>

SendReply(t) ==
    LET b == out[t].block
        whole == out[t].off = 0
    IN  /\ Running(t, "send")
        /\ out[t] # Null
        /\ content' = [content EXCEPT ![b] =
               [head |-> IF whole THEN "mbap" ELSE @.head,
                body |-> IF whole THEN @.body ELSE "mbap"]]
        /\ reply' = [reply EXCEPT ![t] =
               [head |-> "mbap",
                body |-> IF whole THEN content[b].body ELSE "stale",
                bytes |-> osize[t],
                length |-> osize[t] - PrependSize + 1]]
        /\ Goto(t, "free")
        /\ UNCHANGED <<callbacks, used, req, bufVars, ret, broken, call, nomem>>

(* No memory even for the exception response: nothing is sent.             *)
SendNothing(t) ==
    /\ Running(t, "send")
    /\ out[t] = Null
    /\ Goto(t, "idle")
    /\ UNCHANGED <<callbacks, used, content, req, bufVars, ret, broken, history>>

FreeReply_Skipped(t) ==   \* vPortFree forgotten
    /\ Running(t, "free")
    /\ out' = [out EXCEPT ![t] = Null]
    /\ Goto(t, "idle")
    /\ UNCHANGED <<callbacks, used, content, req, osize, ret, broken, history>>

FreeReply(t) ==
    /\ Running(t, "free")
    /\ IF out[t].off = 0
       THEN /\ Free(out[t].block)
            /\ out' = [out EXCEPT ![t] = Null]
            /\ Goto(t, "idle")
            /\ UNCHANGED broken
       ELSE broken' = "assert" /\ UNCHANGED <<used, content, out, pc>>
    /\ UNCHANGED <<callbacks, req, osize, ret, history>>

Handle(t) ==
    \/ Unsupported(t)
    \/ ReadStart(t)
    \/ \E result \in Results : ReadCall(t, result) \/ SingleCall(t, result)
    \/ ReadUnset(t)
    \/ SingleReply(t)
    \/ WriteUnset(t)
    \/ MultiStart(t)
    \/ \E result \in Results : RegistersCall(t, result) \/ CoilsCall(t, result)
    \/ FreeCoilsBuffer(t)
    \/ ErrorReply(t)
    \/ RejectWithBuffer(t)
    \/ SendReply(t)
    \/ SendNothing(t)
    \/ FreeReply(t)

Next ==
    \E t \in Tasks : (\E r \in Requests : Receive(t, r)) \/ Handle(t)

Spec == Init /\ [][Next]_vars

(* Every handler task is scheduled: equal priorities with time slicing.    *)
Fairness == \A t \in Tasks : WF_vars(Handle(t))

FairSpec == Spec /\ Fairness

-----------------------------------------------------------------------------
(* Properties.                                                             *)

Labels == {"idle", "start", "read", "single", "write", "coilsdone", "error",
           "send", "free"}
DataTables == {"coils", "discretes", "inputs", "holdings"}
Regions == {"none", "stale", "mbap", "pdu", "unflipped", "error"}
Breakages == {"no", "null", "assert", "stack", "heap"}

Contents == [head : Regions, body : Regions]
Pointers == [block : Blocks \cup {NoBlock}, off : {0, PrependSize}]
Calls == [name : {"none", "read", "write"}, table : {"none"} \cup DataTables,
          order : {"none", "wire", "host"}, result : Results \cup {OK}]
Replies == [head : Regions, body : Regions, bytes : Nat, length : Nat]

(* Every variable has its type; send_size and the length field are never   *)
(* negative, so no reply of no bytes is ever framed.                       *)
TypeOK ==
    /\ callbacks \in CallbackSets
    /\ used \subseteq Blocks
    /\ content \in [Blocks -> Contents]
    /\ pc \in [Tasks -> Labels]
    /\ req \in [Tasks -> Requests]
    /\ out \in [Tasks -> Pointers]
    /\ osize \in [Tasks -> Nat]
    /\ ret \in [Tasks -> Nat]
    /\ broken \in Breakages
    /\ call \in [Tasks -> Calls]
    /\ reply \in [Tasks -> Replies]
    /\ nomem \subseteq Tasks

(* The reply buffer of a task is an allocated block no other task writes   *)
(* to, and no block of an answered request stays allocated: pvPortMalloc   *)
(* and vPortFree pair up across every handler's returns.                   *)
BlockOwnership ==
    broken = "no" =>
        /\ \A t \in Tasks : out[t] # Null => out[t].block \in used
        /\ \A t, u \in Tasks : out[t] # Null /\ out[t].block = out[u].block => t = u
        /\ \A b \in used : \E t \in Tasks : out[t].block = b /\ pc[t] # "idle"

(* The size of the response to a request: of a read, the data it asks for, *)
(* as far as the byte that counts them can say.                            *)
PduSize(r) == IF r.fc \in ReadFCs THEN 2 + (DataBytes(r) % 256) ELSE 5

Sent(t) == reply[t] # NoReply

(* The whole reply with this body: its size is right, in the header too.   *)
Whole(t, body) ==
    LET size == IF ret[t] = OK THEN PduSize(req[t]) ELSE 2
    IN  reply[t] = [head |-> "mbap", body |-> body,
                    bytes |-> 7 + size, length |-> 1 + size]

(* The functions whose echo goes to where the header or a moved pointer    *)
(* then is (lines 104 and 306).                                            *)
EchoLost == SingleFCs \cup {CoilsFC}

(* Whatever is requested, the reply is the MBAP header followed by as many *)
(* bytes as it says.  They are the response to this request, complete and  *)
(* with registers in the order of the wire, or the exception it was        *)
(* rejected with; of a read whose byte count wraps, as much as the count   *)
(* says; of a single write or of several coils, stale bytes of the block.  *)
RepliesFramed ==
    \A t \in Tasks : Sent(t) =>
        Whole(t, IF ret[t] # OK THEN "error"
                 ELSE IF req[t].fc \in EchoLost THEN "stale" ELSE "pdu")

DataTable(fc) ==
    IF fc \in {1, 5, 15} THEN "coils"
    ELSE IF fc = 2 THEN "discretes"
    ELSE IF fc = 4 THEN "inputs"
    ELSE "holdings"

(* What a client is told is what happened.  A positive reply means that    *)
(* the callback was called on the table the function names, with data in   *)
(* the order of the processor, and accepted it.  An exception means that   *)
(* it was not called or gave this very exception - except for a single     *)
(* write, which is done before the reply is allocated.                     *)
AnswersMatchEffects ==
    \A t \in Tasks : Sent(t) =>
        /\ ret[t] = OK =>
               /\ call[t].result = OK
               /\ call[t].table = DataTable(req[t].fc)
               /\ call[t].order = "host"
        /\ ret[t] # OK =>
               \/ call[t] = NoCall
               \/ call[t].result = ret[t]
               \/ req[t].fc \in SingleFCs /\ t \in nomem

(* A request is dropped without a reply only if the heap had no memory.    *)
SilentOnlyWithoutMemory ==
    [][\A t \in Tasks :
          pc[t] # "idle" /\ pc'[t] = "idle" => Sent(t) \/ t \in nomem]_vars

(* Every request is dealt with, however often the heap has no memory,      *)
(* unless one of the faults below stops the task.                          *)
RequestsEnd ==
    \A t \in Tasks : pc[t] = "start" ~> (pc[t] = "idle" \/ broken # "no")

-----------------------------------------------------------------------------
(* What the code intends and does not do.                                  *)

(* Every rejected request is answered by an exception (lines 419-428).     *)
RejectionsAnswered == broken # "null"

(* The echo of a single write follows the seven bytes of prepend_size.     *)
SingleWriteEchoed ==
    \A t \in Tasks :
        Sent(t) /\ req[t].fc \in SingleFCs /\ ret[t] = OK => Whole(t, "pdu")

(* A read is answered with all the data it asks for.                       *)
ReadsAnswered ==
    \A t \in Tasks : Sent(t) /\ req[t].fc \in ReadFCs /\ ret[t] = OK =>
        reply[t].bytes = 9 + DataBytes(req[t])

(* A callback is given room for what it is asked for.                      *)
ReadsStayInBlock == broken # "heap"

(* vPortFree is given what pvPortMalloc returned.                          *)
FreesWhatItGot == broken # "assert"

(* The function of reading and writing registers writes registers.         *)
ReadWriteWritesRegisters ==
    \A t \in Tasks :
        req[t].fc = ReadWriteFC /\ call[t].name = "write" => call[t].table = "holdings"

(* Flipping the registers of a request stays in the receive buffer.        *)
FlipsStayInBuffer == broken # "stack"
=============================================================================

---------------------------- MODULE Adin1110Fifo ----------------------------
(***************************************************************************)
(* The frame FIFOs of the ADIN1110 as adin1110_write_fifo and               *)
(* adin1110_read_fifo (adin1110.c) use them, one SPI transfer per step: the *)
(* lengths they compute in unsigned words, the bytes of desc->data and      *)
(* eth_rx_buff they touch, and the frames the device ends up with. The      *)
(* caller holds adinHandle, so one of the two functions runs at a time;     *)
(* the device sends and receives on its own.                                *)
(*                                                                          *)
(* A transfer that stm32_spi_transfer reports as failed ends the function.  *)
(* A transfer that a DMA error aborts also leaves the wait of               *)
(* stm32_spi.c:404, because HAL_SPI sets the state READY, and is reported   *)
(* as done: a value read is then what desc->data held, and a value written  *)
(* has not reached the device. A copy that leaves its buffer ends the       *)
(* behaviour: what it overwrites is not modelled.                           *)
(***************************************************************************)
EXTENDS Integers, Sequences, FiniteSets

CONSTANTS Word,       \* uint32_t counts modulo Word
          BuffLen,    \* ADIN1110_BUFF_LEN: length of desc->data and eth_rx_buff
          Packets,    \* what lwIP sends: length of the first pbuf and of the chain
          RxSizes,    \* sizes of received frames, frame header and FCS included
          TxWords,    \* size of the transmit FIFO in 16-bit words
          Overhead,   \* words the device itself needs for each queued frame
          Stale,      \* values that old bytes of desc->data may stand for
          MaxErr,     \* bound: transfers that are reported as failed
          MaxFault,   \* bound: transfers that a DMA error aborts
          RxLen       \* bound: frames the receive FIFO holds

HeaderLen == 2     \* ADIN1110_FRAME_HEADER_LEN
EthHdrLen == 14    \* ADIN1110_ETH_HDR_LEN
FcsLen == 4        \* ADIN1110_FCS_LEN, ADIN1110_FEC_LEN
WrHeaderLen == 2   \* ADIN1110_WR_HEADER_LEN
RdHeaderLen == 3   \* ADIN1110_RD_HEADER_LEN
MinFrame == 64
HalWord == 65536   \* HAL_SPI_TransmitReceive_DMA takes a uint16_t Size

\* What the model takes for granted of its constants.
FifoAssumption ==
    /\ {Word, BuffLen, TxWords, Overhead, MaxErr, MaxFault, RxLen} \subseteq Nat /\ Word # 0
    /\ Packets \subseteq [len : EthHdrLen..Word - 1, tot : EthHdrLen..Word - 1]
    /\ RxSizes \cup Stale \subseteq 0..Word - 1

VARIABLES at,      \* the transfer that comes next
          pkt,     \* the packet being sent
          size,    \* frame_size: the frame being read
          fsize,   \* the TX_FSIZE register
          tx,      \* transmit FIFO: size announced, size meant, pbuf chain whole,
                   \* and the words from the next to send to the end of the frame
          rx,      \* receive FIFO: sizes of frames
          space,   \* tx_space, and whether it was read or is old bytes
          overrun, \* the device dropped the call's frame, having no room for it
          reach,   \* length of the buffers that the call's copies needed, and
                   \* the RX_FSIZE they were made for (0 for a packet)
          errs, faults

vars == <<at, pkt, size, fsize, tx, space, overrun, rx, reach, errs, faults>>

Sub(a, b) == (a - b) % Word
Align4(n) == ((n + 3) \div 4) * 4

\* Length that write_fifo announces: the frame padded to the minimum, and its header.
PaddedLen(len) ==
    LET padding == IF len + FcsLen < MinFrame THEN MinFrame - (len + FcsLen) ELSE 0
    IN  len + padding + HeaderLen

FrameWords(n) == Align4(n) \div 2 + Overhead
Occupied(q) == IF q = <<>> THEN 0 ELSE q[Len(q)].end
TxSpace == TxWords - Occupied(tx)

\* No copy has been made.
Untouched == [data |-> 0, rxbuff |-> 0, size |-> 0]

TypeOK ==
    /\ at \in {"idle", "space", "fsize", "frame", "rsize", "rframe"}
    /\ pkt \in Packets /\ size \in 0..Word - 1
    /\ fsize \in {0} \cup (MinFrame - FcsLen + HeaderLen)..BuffLen
    /\ rx \in Seq(RxSizes) /\ Len(rx) <= RxLen
    /\ tx \in Seq([n : Nat, meant : Nat, whole : BOOLEAN, end : Nat]) /\ overrun \in BOOLEAN
    /\ space \in [val : 0..Word - 1, read : BOOLEAN]
    /\ reach \in [data : 0..2 * Word, rxbuff : 0..2 * Word, size : 0..Word - 1]
    /\ errs \in 0..MaxErr /\ faults \in 0..MaxFault

Init ==
    /\ at = "idle" /\ pkt \in Packets /\ size = 0 /\ fsize = 0
    /\ tx = <<>> /\ rx = <<>> /\ space = [val |-> 0, read |-> FALSE] /\ overrun = FALSE
    /\ reach = Untouched /\ errs = 0 /\ faults = 0
-----------------------------------------------------------------------------
(* The device and the wire.                                                 *)

Enqueue(f) ==
    IF FrameWords(f.meant) <= TxSpace THEN tx' = Append(tx, f) /\ UNCHANGED overrun
    ELSE overrun' = TRUE /\ UNCHANGED tx

Transmit ==
    /\ tx # <<>>
    /\ tx' = [i \in 1..Len(tx) - 1 |-> [tx[i + 1] EXCEPT !.end = @ - tx[1].end]]
    /\ UNCHANGED <<at, pkt, size, fsize, space, overrun, rx, reach, errs, faults>>

Receive == Len(rx) < RxLen /\ (\E n \in RxSizes : rx' = Append(rx, n))
           /\ UNCHANGED <<at, pkt, size, fsize, tx, space, overrun, reach, errs, faults>>

\* A transfer is carried out, or is aborted and reported as done.
Done == UNCHANGED faults
Aborted == faults < MaxFault /\ faults' = faults + 1

\* Every failed transfer ends the function.
AfterError == "idle"

Error ==
    /\ at # "idle" /\ errs < MaxErr /\ errs' = errs + 1 /\ at' = AfterError
    /\ UNCHANGED <<pkt, size, fsize, tx, space, overrun, rx, reach, faults>>
-----------------------------------------------------------------------------
(* adin1110_write_fifo                                                      *)

WriteFifo ==
    /\ at = "idle" /\ at' = "space" /\ pkt' \in Packets
    /\ overrun' = FALSE /\ reach' = Untouched
    /\ UNCHANGED <<size, fsize, tx, space, rx, errs, faults>>

\* Is there enough space, given the register's value in 16-bit words?
HasSpaceMutant(words) == pkt.len <= (2 * Sub(words, HeaderLen)) % Word
HasSpace(words) == PaddedLen(pkt.len) <= (2 * Sub(words, HeaderLen)) % Word

ReadTxSpace ==
    /\ at = "space"
    /\ \/ space' = [val |-> TxSpace, read |-> TRUE] /\ Done
       \/ space' \in [val : Stale, read : {FALSE}] /\ Aborted
    /\ at' = IF HasSpace(space'.val) THEN "fsize" ELSE "idle"  \* -EAGAIN
    /\ UNCHANGED <<pkt, size, fsize, tx, overrun, rx, reach, errs>>

WriteTxFsize ==
    /\ at = "fsize" /\ at' = "frame"
    /\ (fsize' = PaddedLen(pkt.len) /\ Done) \/ (UNCHANGED fsize /\ Aborted)
    /\ UNCHANGED <<pkt, size, tx, space, overrun, rx, reach, errs>>

\* The two copies into desc->data and the burst out of it.
Larger(m, n) == IF m > n THEN m ELSE n
WriteReach ==
    Larger(WrHeaderLen + HeaderLen + EthHdrLen + Sub(pkt.len, EthHdrLen),
           WrHeaderLen + Align4(PaddedLen(pkt.len)))

WriteFrame ==
    /\ at = "frame" /\ at' = "idle"
    /\ reach' = [data |-> WriteReach, rxbuff |-> 0, size |-> 0]
    /\ \/ Done /\ Enqueue([n |-> fsize, meant |-> PaddedLen(pkt.len),
                           whole |-> pkt.len = pkt.tot,
                           end |-> Occupied(tx) + FrameWords(PaddedLen(pkt.len))])
       \/ Aborted /\ UNCHANGED <<tx, overrun>>
    /\ UNCHANGED <<pkt, size, fsize, space, rx, errs>>
-----------------------------------------------------------------------------
(* adin1110_read_fifo                                                       *)

ReadFifo ==
    /\ at = "idle" /\ at' = "rsize" /\ reach' = Untouched
    /\ UNCHANGED <<pkt, size, fsize, tx, space, overrun, rx, errs, faults>>

RxFsize == IF rx = <<>> THEN 0 ELSE Head(rx)

\* Sizes that mean there is no frame.
NoFrame(n) == n < HeaderLen + FcsLen

ReadRxFsize ==
    /\ at = "rsize"
    /\ (size' = RxFsize /\ Done) \/ (size' \in Stale /\ Aborted)
    /\ at' = IF NoFrame(size') THEN "idle" ELSE "rframe"
    /\ UNCHANGED <<pkt, fsize, tx, space, overrun, rx, reach, errs>>

\* The burst into desc->data, and the copies out of it into the caller's buffers.
ReadReach ==
    LET payload == Sub(Sub(size, HeaderLen), EthHdrLen)
    IN  [data |-> Larger((RdHeaderLen + Align4(size)) % HalWord,
                         RdHeaderLen + HeaderLen + EthHdrLen + payload),
         rxbuff |-> payload, size |-> size]

ReadFrame ==
    /\ at = "rframe" /\ at' = "idle" /\ reach' = ReadReach
    /\ (Done /\ rx # <<>> /\ rx' = Tail(rx)) \/ (Done /\ rx = <<>> /\ UNCHANGED rx)
       \/ (Aborted /\ UNCHANGED rx)
    /\ UNCHANGED <<pkt, size, fsize, tx, space, overrun, errs>>
-----------------------------------------------------------------------------
\* No copy of the call has left its buffer.
InBuffers == reach.data <= BuffLen /\ reach.rxbuff <= BuffLen

Next ==
    /\ InBuffers
    /\ \/ Transmit \/ Receive \/ Error
       \/ WriteFifo \/ ReadTxSpace \/ WriteTxFsize \/ WriteFrame
       \/ ReadFifo \/ ReadRxFsize \/ ReadFrame

Spec == Init /\ [][Next]_vars
-----------------------------------------------------------------------------
(* Properties.                                                              *)

\* The test of adin1110.c:525 suffices, although the frame is announced and written
\* later, except when tx_space is below 2, where the difference wraps, or was never
\* read because its transfer was aborted. Only then is a frame dropped for want of
\* room, reported as sent.
TxRoom == overrun => ~space.read \/ space.val < HeaderLen

\* A frame for which the function went on has room, as the test of adin1110.c:525
\* means to make sure.
FramesQueued == ~overrun

\* Sizes of frames that have an Ethernet header and fit desc->data.
SizeFits(n) == HeaderLen + EthHdrLen <= n /\ RdHeaderLen + Align4(n) <= BuffLen

\* The copies of write_fifo stay inside desc->data, and those of read_fifo stay inside
\* desc->data and eth_rx_buff for the sizes that fit and for no other: the test of
\* adin1110.c:592 lets sizes pass for which payload_length wraps at line 619, and
\* nothing rejects a size beyond the buffer.
CopyInBounds == InBuffers <=> (reach.size = 0 \/ SizeFits(reach.size))

\* Every queued frame was announced with its own length, except one for each
\* aborted transfer: TX_FSIZE is of an earlier frame when the burst of
\* adin1110.c:551 starts only if its own announcement was aborted.
SpoiltBounded ==
    Cardinality({i \in DOMAIN tx : tx[i].n # tx[i].meant}) <= faults

\* A queued frame is the whole packet lwIP passed to linkoutput (network.c:119).
FrameWhole == \A i \in DOMAIN tx : tx[i].whole

\* What holds in every state: when frames are dropped, for which sizes the copies
\* leave their buffers, and how many frames go out under another frame's length
\* (adin1110.c:489-627).
FifoInv == TypeOK /\ TxRoom /\ CopyInBounds /\ SpoiltBounded
=============================================================================

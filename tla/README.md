# Verification of spe-stm32-adin1110-modbus-framework

The firmware is a Modbus/TCP server on an STM32L4S5: FreeRTOS, lwIP, a port of
the no-OS driver for the ADIN1110 single-pair Ethernet MAC-PHY, and the
micro-modbus library. This directory holds TLA+ models of its own logic, the
TLC configurations that check them on small instances, and TLAPS proofs of
the safety properties, for every value of the constants. Paths and line
numbers below refer to the sources under `src/`.

To check: `tlc -config server_safety.cfg MCModbusServer` (and so on for each
`.cfg`), `tlapm ModbusServerProofs.tla` (and so on for each `...Proofs.tla`).
`PROJECT.json` lists the runs, the source lines every definition models, a
faulty variant of the code that each property detects, the hazards of the code
and the theorems.

## 1. The system

Tasks, all at the same FreeRTOS priority, preemptive with time slicing:

- `diag_task` (main.c:469) only sleeps;
- `network_task` (main.c:489) calls `network_init`, then polls the ADIN1110
  every 10 ms for one frame;
- lwIP's `tcpip_thread` takes frames and API calls from a mailbox, runs timers
  and transmits through `adin1110if_link_output`;
- `modbus_task` (main.c:510) runs `modbus_tcp_start`: listen, accept, find a
  slot, create a task;
- one `modbus_tcp_connection_handle` task for each connection: receive,
  handle, reply, and in the end close the socket and free the slot.

A received frame passes from the RX FIFO over SPI (under the mutex `adin`) into
a pbuf, through the mailbox to lwIP, into a socket's receive queue, and through
`lwip_recv` to `modbus_tcp_handle_request`, `modbus_handle_request` and a
callback of the application. The reply goes back through `lwip_send` under
lwIP's core lock, so that a handler task may itself run the driver's transmit.

### Components

For each: its state, its operations, what it shares with others, what is hard
about it, and what makes it correct.

| Component | State | Operations | Interaction | Hard behaviour | Correct when |
|---|---|---|---|---|---|
| **Modbus/TCP server** modbus_tcp.c | slot table (connected, socket), lwIP descriptors | start, accept, find slot, create task; receive, dispatch, close, free slot | handler tasks and accept loop share the table with no lock; lwIP sockets | every access to the table interleaves; slot reused while it is being freed; table full; failed task creation; disconnects | a slot and a descriptor have one user; replies reach the requester; nothing leaks; peers that go are let go |
| **Request handlers** modbus.c | reply block and its pointer, size, result | one handler per function, exception path, MBAP framing, send, free | FreeRTOS heap, application callbacks | heap failure at each call, four layers passing one pointer, byte/word/bit counts, exceptions after partial work | each block freed once, replies complete and of this request, answer agrees with effect |
| **Modbus session** (stream side of modbus_tcp.c) | receive buffer of 64 bytes | recv, parse, send | TCP stream, client that repeats | requests split, merged, longer than the buffer; late answers | each request carried out and answered as often as it was sent |
| **Ethernet interface** network.c | pbufs, netif, adin mutex | poll, link output, init | network_task, tcpip_thread and socket tasks; core lock | two locks, mailbox full, allocation failure, calls into lwIP without its lock | pbufs delivered or freed; no deadlock; one user of the SPI |
| **ADIN1110 FIFOs** adin1110.c 489-627 | desc->data, TX space, RX frame size | write and read a frame | SPI | unsigned arithmetic at the limits; values of aborted reads | frames find room, copies stay in their buffers, unless a test wrapped |
| **ADIN1110 MAC filter** adin1110.c 376-480 | sixteen two-register entries | set, clear | SPI errors | table full, half-written entries | the entries are the set of requested addresses, but for a full table and half-written entries |
| **ADIN1110 set-up and PHY** adin1110.c 182-367, 634-956 | registers, descriptors | reset, MAC/PHY set-up, MDIO access, remove | SPI, GPIO | polling without limit, clean-up ladder | each resource released once; ends if the PHY answers |
| **SPI bus layer** stm32_spi.c, no_os_spi.c | bus descriptors, device count, DMA state | init, transfer, remove | DMA interrupt | busy wait under a mutex, init errors | count matches devices; transfer ends |
| **lwIP threading** tcpip.c, sys_arch.c | mailbox, core lock | post, fetch, lock | all tasks | a full mailbox, lock order | messages handled once, in order |
| **lwIP pools** memp.c | free lists | malloc, free | all tasks; `SYS_LIGHTWEIGHT_PROT` is 0 | unprotected list | an element has one owner |
| **FreeRTOS heap** heap_4.c | free list, counters | pvPortMalloc, vPortFree | every task | splitting, merging, exhaustion, alignment | regions are disjoint, none is lost, refused only when nothing fits |
| **lwIP heap** mem.c | links of blocks, lowest free block | mem_malloc, mem_trim, mem_free | pbufs | shortening in place, merging, a 16-bit size that wraps | the same, and the search overlooks nothing |
| **no-OS lists** no_os_list.c | elements, both ends, count, iterator | add, get, read, edit at either end, by index, by order, by iterator | DMA layer, pin interrupts | empty list, last element, iterator on a removed element | a sequence, whatever the order of calls |
| **Start-up, watchdog** main.c | tasks, IWDG counter | init, create, delay, reset | all | the watchdog is started, never refreshed; tasks that wait for a time and not for each other | the stack is up before the server; faults end in a reset; runs without reset |
| **TerminalForm, SPETerminal** | tree of controls, cursors, focus, marks, open menus | keys, paint, change of menu | a terminal; no task starts it yet | cursors and focus at every depth, partial painting, menus freed by their own buttons | one focus, the terminal is current, groups exclusive |
| Application callbacks modbus_app.c | none | read, write words | handlers | none | – |
| FreeRTOS kernel, HAL, CMSIS, lwIP protocols, no-OS utilities | vendored | | | | assumed to keep their documentation |

## 2. Plan

In the order of importance to the system. Each module is written with its
constants, assumptions and invariants in the form a proof needs.

| Module | Abstract specification | Checked | Proved |
|---|---|---|---|
| ModbusServer (3) | SlotPool | yes | safety, refinement |
| ModbusHandler (4) | – | yes | safety |
| ModbusSession (5) | ModbusService | yes | safety, refinement |
| NetworkPath (6) | – | yes | safety |
| Adin1110Fifo, MacFilter (7, 8) | – | yes | safety |
| MempPool (9) | MempService | yes | safety, refinement, until two head writes clash |
| AdinInit, AdinPhy (10) | – | yes | safety |
| Heap4, MemHeap (11) | HeapService | yes | safety, refinement |
| NoOsList (12) | ListService | yes | safety, refinement |
| Boot (13) | – | yes | safety |
| TermForm (14) | FormService | yes | safety, refinement |

What the modules assume of each other: ModbusServer takes a request as
"something", ModbusHandler as a function code and a quantity, ModbusSession as
bytes; what ModbusHandler proves of a complete request is the step `Handle`
of ModbusSession. NetworkPath counts the free list of the input messages, read
and written access by access; MempPool follows the links of such a list.
ModbusHandler takes the FreeRTOS heap as HeapService describes it. NetworkPath takes a frame transfer as a unit, Adin1110Fifo its
lengths; Boot takes each task's work as a step.

| Run | Module | About |
|---|---|---|
| `server_safety`, `server_live`, `server_full` | MCModbusServer | section 3 |
| `handler_safety` | MCModbusHandler | section 4 |
| `session` | MCModbusSession | section 5 |
| `network_safety`, `network_live` | MCNetworkPath | section 6 |
| `adin1110` | MCAdin1110: Adin1110Fifo, MacFilter, AdinInit, AdinPhy | sections 7, 8, 10 |
| `memory` | MCMemory: Heap4, MemHeap, MempPool | sections 9, 11 |
| `library` | MCLibrary, of Library: NoOsList, TermForm | sections 12, 14 |
| `boot`, `boot_reset` | MCBoot | section 13 |

`MCAdin1110`, `MCMemory` and `MCLibrary` put modules side by side whose
components share no state: the four parts of the driver only the SPI, which the
mutex `adinHandle` gives to one of them at a time, the three allocators nothing,
the two libraries nothing (`Library` has them, `MCLibrary` gives it the menus of
SPETerminal). Their variable `part` chooses in `Init` the component a
behaviour is about; the others stay in their initial states. So such a run has
the sum of the components' states and not the product, and nothing is lost,
because no property relates two components of one such run. What the component
modules take for granted of their constants, each states as
`...Assumption`; the module of the run assumes their conjunction.

From section 5 on, the invariants of a module are parts of one or two that
the run checks: `SessionInv`, `FifoInv`, `FilterInv`, `SetupInv`, `PhyInv`,
`HeapInv`, `MemInv`, `ListInv`, `FormInv`, `BootInv` are the type invariant
with the properties named in the module's section, in NetworkPath `Exclusive`
and `Owned`.

## 3. ModbusServer

`ModbusServer.tla` models modbus_tcp.c lines 81-200.

**State.** `connected` and `socket` are the fields of the slot table. `apc`,
`aslot`, `afd` are the program counter and the locals of `modbus_tcp_start`;
`tpc`, `tslot`, `tfd`, `treq` those of the handler tasks. `fds`, `conn`,
`gone` and `rx` are lwIP and the peers. `garbage`, `orphaned` and `clobbered`
record what has happened, and no guard reads them.

**Actions.** Every access to the shared table is a step of its own, in program
order (the build is `-O0`): scanning one entry (86), marking (181) and
filling (182) a slot, creating the task (185), the three reads of
`client->socket` (101, 103, 107), freeing (108) and zeroing (109).
`time_start` is never read and left out. Failures: start-up calls, connections
reset in the backlog, `xTaskCreate` without memory. The initial flags are
arbitrary because `pvPortMalloc` does not clear the table.

**Environment.** `lwip_accept` gives the lowest free descriptor; the listening
socket is descriptor 0, the first to be opened; closing it ends the backlog.
`MEMP_NUM_NETCONN` limits the connections. Peers connect, send and go as they
like. What is received is only "something": the contents are ModbusHandler's.

**A full table.** `modbus_tcp_find_free_connection_slot` returns -1, stored
in a `uint16_t`; `connection_slot != -1` is then always true, and line 181
writes 1 MB past the table, beyond the 640 KB of RAM: HardFault_Handler, which
loops (stm32l4xx_it.c:87-97). The model stops there (`faulted`).

**Properties.** `SlotExclusive`, `SlotAccounting` and the refinement
`PoolSpec` hold of every behaviour. `OwnSocket`, `ReplyToRequester`,
`ListenerOpen` and `NoDescriptorLeak` hold until a slot that has been reused
between lines 108 and 109 has its new socket zeroed; `clobbered` marks that
step. `DisconnectReleases` and `RequestsRead` are the liveness properties.

| Run | Instance | Shows |
|---|---|---|
| `server_safety` | 2 slots, 2 connections, 3 tasks; 789 000 states | type, six safety invariants, and the table implements `SlotPool` |
| `server_live` | 2 slots, 2 connections, 2 tasks, without symmetry; 159 000 states | liveness under `Fairness` |
| `server_full` | 1 slot, 2 connections | violation: a full table is not refused (line 162) |

**Bounds.** Two slots and two connections are enough for a task that is
releasing, one that serves the reused slot, and the accept loop at once; the
third task adds one between lines 108 and 109 while both slots are in use.
Descriptors are one more than could be in use, so that exhaustion is the
backlog's, as in lwIP. Connections are reused after they are closed, so there is no
bound on how many come. A filled table is reached in every instance through
orphaned and uninitialised slots. The proofs remove the bounds.

**Fairness.** Weak fairness of each task: equal priorities and time slicing.
Strong fairness of accepting each connection, because the accept mailbox is a
FIFO. Nothing is assumed of peers. `server_live` has `CONSTRAINT Undisturbed`:
once it is false it stays false and the properties are true.
Deadlock is not checked: the system stops in a fault, and rests when
all peers have gone and all descriptors belong to orphaned slots.

## 4. ModbusHandler

`ModbusHandler.tla` models modbus.c and `modbus_tcp_handle_request`
(modbus_tcp.c:51-79).

**State.** Handler tasks share only the heap: `used` and `content` are its
blocks. `pc`, `req`, `out` (the pointer `send_buffer`: a block and an offset),
`osize`, `ret` are a task's. `callbacks` is the set of callbacks that are not
NULL. `broken` tells what stopped the board. `call`, `reply` and `nomem`
record what the current request has led to.

**Abstraction.** A step runs from one heap call or callback to the next. A
request is its function code, its quantity and, of a write of several, its byte
count; the handlers check none of them, so any combination is received. A buffer is two regions, the seven bytes of
the MBAP header and the rest, each described by what was last written there:
stale data, the header, a response in wire order, one in host order, an
exception. Lengths are numbers, with `byte_count` modulo 256. A heap
allocation may fail at any time, since tasks, queues and pbufs use the same
heap.

**Where the code breaks.** Six paths end in undefined behaviour or in a failed
assertion. The model has them as they happen on this board: a store through
NULL (line 39 after 423) faults; `vPortFree` of a pointer moved by seven bytes
fails one of heap_4.c's two assertions (lines 281-282): the word it takes for
the link to the next free block starts with the byte that holds the allocated
bit of the real block, so it is not NULL; a flip past the receive buffer may or
may not corrupt the stack; and a read whose `byte_count` wraps (more than 127
registers or 2040 bits) gets a block as long as the wrapped count says, while the
callback and the flips go through the whole quantity, which may or may not
corrupt the heap. After one of them, no property speaks about the rest.

**Properties.** `BlockOwnership` (allocation and release pair up),
`RepliesFramed` (every reply is as long as its header says, and what follows is
the response to this request in wire order, or the exception), `AnswersMatchEffects` (what the client is told is what the
callback did), `SilentOnlyWithoutMemory` (no reply only if the heap is
exhausted), `RequestsEnd`. `RepliesFramed` speaks of every reply, the wrong ones
included: the response of a read whose count wraps is as much as the count says,
and the echo of a single write or of several coils is stale bytes of the block.
What such replies should be is in section 15.

| Run | Instance | Shows |
|---|---|---|
| `handler_safety` | 2 tasks, 2 blocks, shipped or all callbacks, without symmetry; 161 400 states | type, three invariants, one action property, and every request ends |

**Bounds.** The quantities of reads are the greatest that the Modbus specification
allows, 125 and 2000, one not divisible by eight, none at all, the first
that wraps `byte_count` (128 registers, 2041 bits) and the greatest of 16 bits;
the byte counts of writes are on both sides of the first flip that leaves the
buffer, one of them with a quantity that does not go with it. Two tasks and two blocks make a block
change hands, and make allocation fail because of the other task.
Callbacks accept or answer "illegal data address".

**Fairness.** Weak fairness of each handler task, as above. Deadlock is not
checked because a fault stops the board.

## 5. ModbusSession

`ModbusSession.tla` models one connection: a client with a program of
requests, the TCP stream, and the receive loop of modbus_tcp.c (51-107), which
takes what one `lwip_recv` returns for one request.

**State and abstraction.** The stream is a sequence of cells, byte `off` of
transmission `txn`. A cell stands for the bytes of one field; the header and
the function code are the two the code looks at. `buffer` keeps its contents
from one `lwip_recv` to the next. The client repeats a request that was not
answered in time, also when the answer is only late, and gives up in the end;
`lwip_send` may fail and the reply is forgotten. `whole`, chosen at the start,
says whether segments end where requests do or TCP cuts the stream anywhere.

**Properties.** However the stream is cut, the session implements
`ModbusService`: operations are executed in the order of the program, perhaps
again when the client repeats them, and never after their answer; in between
the server may execute something nobody sent, a 0 in the `log`. While requests
arrive whole and fit the buffer, an operation is also executed before it is answered.
`OncePerSend`: no transmission is executed twice. `Resync`: the loop recovers
after fragments.

| Run | Instance | Shows |
|---|---|---|
| `session` | 2 requests, 2 repetitions, 1 lost reply, both kinds of segments; 282 500 states | type, refinement of `ModbusService`, `OncePerSend`, `Resync` |

**Bounds.** Requests of three and four cells and a buffer of four: one request
fills the buffer, the other leaves a cell in which earlier data survive. Two
repetitions put three copies of a request into the stream.

**Fairness.** Weak, of the handler task, of TCP's delivery and of a client that
goes on. Deadlock is not checked: a client that has given up ends the session.

## 6. NetworkPath

`NetworkPath.tla` models a frame's way: `adin1110if_poll`,
`adin1110if_link_output` and `network_init` (network.c), `tcpip_input`,
`tcpip_inpkt` and `tcpip_thread` (tcpip.c), the mutexes and mailboxes of
sys_arch.c, and the SPI transfers of stm32_spi.c.

**State.** The holders of the mutex `adin` and of the core lock, the SPI and
what `desc->data` and TX_FSIZE contain, the input mailbox and its messages,
the pbufs and who knows them, each thread's place. Every thread that is inside
lwIP's core may transmit. Allocation may fail when pbufs or messages run out, a
transfer may fail to start, the mailbox may be full. A DMA error ends the wait for
a transfer like its success (stm32_spi.c:402-405): `SpiAbort` leaves the register as it
was, or the buffer with old bytes (`Junk`), and the caller goes on.

The free list of the messages has no protection (lwipopts.h:59), and `network_task`
uses it outside the core lock. `InpktHead`, `InpktTake`, `InpktLink` and `InpktGive` are
one access of its head each. A write of the head cuts off what others have added since it
was read (`lost`), and puts what they have taken on the list again (`twice`). From then on
two users of one message overwrite each other, and the model follows it no further.

**Properties.** `Exclusive`: a transfer's buffer and register belong to it until
it ends (`DataStable`, `FsizeMine`; the exception is a frame whose own write of
TX_FSIZE the DMA aborted), and the core has one user at a time
(`CoreShared`; the exception is `network_task` during `network_init`). `Owned`, until
`twice`: no pbuf is in two hands or used after it was freed (`NoDangling`), the only ones
that nobody knows are those of a refused `netif->input` (`LeaksKnown`), and the only messages
missing are those that a write of the head has cut off (`InpktAccounted`). `InOrder`, until
`twice`: frames are handled as they came. That messages are cut off and
given to two, and that pbufs leak, is in section 15.
`Progress`: the two locks never block each other for ever (`TxCompletes`,
`RxDrained`).

| Run | Instance | Shows |
|---|---|---|
| `network_safety` | 1 socket task, 3 pbufs, 3 messages, mailbox of 2; 2 703 400 states | type, `Exclusive`, `Owned`, `InOrder`; the pool and the mailbox run out, transfers fail to start or are aborted, the free list is changed by two threads at a time |
| `network_live` | 1 socket task, 1 pbuf, 1 message, mailbox of 1; 57 900 states | `Progress` |

**Bounds.** The numbers of messages and places (8 and 160 in lwipopts.h) matter
only through which is larger; both orders are checked. A socket task and
`tcpip_thread` contend for the core, and with the poll for the SPI.

**Fairness.** Weak, of each thread. Strong, of taking a lock and of the fetch
from the mailbox: FreeRTOS keeps waiting tasks in order, and a mutex is handed
on.

## 7. Adin1110Fifo

`Adin1110Fifo.tla` models `adin1110_write_fifo` and `adin1110_read_fifo`
(adin1110.c:489-627) transfer by transfer, with their unsigned arithmetic:
`Word` stands for 2^32, any value above every sum of lengths, chosen as 2^20
so that TLC's integers hold the products. The lengths are the real ones, up to
the 1530 bytes of the buffers. `Overhead` is what the device needs for each
queued frame by itself; the data sheet's TX_SPACE may or may not count it. The
transmit FIFO knows of every frame where it ends, counted in words from the next
word to be sent.

**Faults.** A transfer may be reported as failed, and the function ends. A DMA
error also sets the HAL's state READY, which ends the busy wait of
stm32_spi.c:404 with success: such a transfer has moved nothing, a value read is
one of `Stale` (old bytes of `desc->data`), a register written is as it was.

**Properties**, in the run `adin1110`, whatever was aborted. `TxRoom`: the
device drops a frame for want of room only if the test of line 525 was made on a
`tx_space` below 2, where its difference wraps, or on old bytes; otherwise the test,
two transfers earlier, suffices, because meanwhile the FIFO only empties.
`CopyInBounds`: the copies of `adin1110_write_fifo` stay in `desc->data`, and those
of `adin1110_read_fifo` leave their buffers for exactly the sizes that do not fit
(`SizeFits`), whether RX_FSIZE showed them or an aborted read left them behind. A copy
outside its buffer ends the behaviour (`InBuffers` guards `Next`): what it
overwrites is not modelled. `SpoiltBounded`: a frame goes under a length that is not
its own only if a transfer was aborted, one frame for each.

**Bounds.** An ARP request, which is padded, and two long frames; a transmit FIFO of
791 words, in which a long frame and a short one leave a single word, so that the
test wraps; received sizes that wrap at line 619, the shortest and the longest that
fit, and one that does not; old bytes that read as 0, as a size that wraps and as one
beyond the buffer; one failure and one aborted transfer.

## 8. MacFilter

`MacFilter.tla` models `adin1110_set_mac_addr`, `adin1110_clear_mac_addr` and
`adin1110_broadcast_filter` (adin1110.c:376-480), one register access per step,
each of which may fail and end the call. An entry is two registers; the
registers behind the last entry are the address mask.

**Properties**, in the run `adin1110`. `ForwardsWanted` says what the table holds
between calls, for addresses whose own last call did not fail: every address that was set
and not cleared since, and no other, with two exceptions. An address whose last `set`
found no free entry (`full`) went to the mask, although the call returned 0. And where a
`set` failed between its two writes (`torn`), the entry stands for the address with
a lower half of zero, until that address is cleared. Section 15 has the property
without either exception. What the device makes of a mask that was written is
outside the model. `OneEntryPerFail` bounds what a failed access costs.

**Bounds.** Two addresses with the same upper half, one of them with a lower half
of zero, which a half-written entry lets through. Three entries hold both and one
damaged entry; two failures spoil two, and then the table is full.

## 9. MempPool

`MempPool.tla` models `do_memp_malloc_pool` and `do_memp_free_pool` (memp.c),
one access to the free list per step. `SYS_LIGHTWEIGHT_PROT` is 0
(lwipopts.h:59), so the protection macros are empty; `Locked` are the threads
that hold the core lock around a call. A thread reads the head and later writes it; `over`
is who has written it in between. A write that goes by a head which is no longer there
is a clash, and `torn` are its two threads. The behaviour ends with it, since the links of
an element in use are its user's data. What is on the list is what the links
reach from `tab` (`Reach`); `Init` is any chain of all elements. `MempService` is
the pool its users count on: an element has at most one user.

**Properties.** In the run `memory` three threads take and free three elements, one of
them outside the core lock as `network_task` does with the input messages (tcpip.c:268).
`MempServiceSpec`: every step implements `MempService` as long as no two writes clash,
and of two that clash one does not hold the lock (`OutsideOnly`). Pools that only the
core uses are therefore safe; for the input messages section 15 has what a clash does.

## 10. AdinInit and AdinPhy

`AdinInit.tla` models `adin1110_init` and `adin1110_remove` with the blocks of
memory they and the layers below take (no_os_spi.c, stm32_spi.c, stm32_gpio.c,
freertos_mutex.c), and what network.c does with the result. Every allocation
and every group of register accesses may fail; two devices share the bus, so that one
comes up or fails while the other uses it. `Balanced`, `BusKept` and
`RemovedClean` say that no step of the clean-up ladder is missing or done
twice, and that the bus lives exactly as long as a device. The block that
`no_os_mutex_init` allocates and forgets (freertos_mutex.c:47) is one of the blocks
in use: `lost` has one for each bus that was created, and it is what stays when the last device
is removed. The run has four calls of
`adin1110_init`, enough to fail, succeed and repeat for each device; when they
have been made nothing is left to do, so deadlock is not checked.

`AdinPhy.tla` models the MDIO accesses, clause 22 and clause 45, and
`adin1110_setup_phy`, with the device as a second process that carries out the
commands in MDIOACC(0) and MDIOACC(1) one after the other.
`WritesArrive`, `ReadsFresh` and `PoweredUp` (the power-down bit is clear when
`adin1110_setup_phy` returns) fail if a poll is left out or
reads the wrong register; `CallsEnd` is the liveness of the three unbounded
loops. It needs weak fairness of the driver's steps (network_task is always ready
to run) and of the device (`Ready`, `Execute`: the PHY answers and leaves
power-down), and excuses the calls after an access that a DMA error aborted.

| Run | Instance | Shows |
|---|---|---|
| `adin1110` | sections 7, 8 and 10; 1 141 557 states | `FifoInv`, `FilterInv`, `SetupInv`, `PhyInv`, the action property `RemovedClean`, liveness of PHY access |

## 11. Heap4 and MemHeap

`Heap4.tla` models `pvPortMalloc` and `vPortFree` (heap_4.c). The code suspends
the scheduler around both, so a call is one step. `Init` is the heap after
`prvHeapInit`, at an address that is not aligned. Blocks, their sizes, the
address-ordered free list, splitting and merging are the code's; the top bit
of the size is a flag of its own. `MemHeap.tla` models `mem_malloc`,
`mem_trim` and `mem_free` of lwIP (mem.c), each of which holds `mem_mutex`, with
the width of `mem_size_t`: the alignment of the largest size wraps, and the code
refuses it.

Both lists are in the order of the addresses (`MemSanity`, `Accounted`), so
the block where a walk stops is the lowest one that would stop it: `Before` and
`FitPrev` in Heap4, `Fits` and `NextFree` in MemHeap say it that way. Bytes are
counted as sets of addresses (`BytesOf`), not as sums of sizes.

Both implement `HeapService`: the regions in callers' hands are disjoint,
aligned, inside the heap and as large as asked for. The invariants say what a
caller sees only after many calls: no byte is lost (`Accounted`,
`AllReturned`), links agree (`MemSanity`), the search does not start too late
(`LowestFree`), and a request is refused only when no free stretch is large
enough, since freed neighbours always merge.

| Run | Instance | Shows |
|---|---|---|
| `memory` | sections 9 and 11; heaps of 20 and 26 bytes; 45 000 states | `HeapInv`, `MemInv`, three refinements |

**Bounds.** The heaps hold five and four of the smallest blocks: a block with
two neighbours to merge with, and a block beyond them that is not. The requests
include zero, sizes on both sides of a split and, for lwIP, the whole heap and a
size that wraps.

## 12. NoOsList

`NoOsList.tla` models no_os_list.c: adding, getting, reading and editing at
either end, by index, by order and through an iterator, which may be on no element:
NULL, as no_os_list.c:663 and 819 leave it. A call that follows NULL ends the
behaviour; what the program does then is not modelled. An iterator whose element was
removed through the list points to freed memory (`Wild`): no description allows to
use it, and the callers here move it first.

`Doubly` says that the two directions agree. `ListService` is a sequence with a
position, as no_os_list.h and the comments of no_os_list.c describe it: the get of
the last element moves the iterator to the previous one, and a call where there is no
element reports an error. `ListServiceSpec` says that each function does this, but for
two departures that `ListService` names apart from its `Next`: `PositionLost` and
`Stops` (section 15). Both are proved for lists of any length (section 16).

| Run | Instance | Shows |
|---|---|---|
| `library` | sections 12 and 14; 3 elements, 2 values; 31 933 states | `ListInv`, `FormInv`, two refinements |

Three elements are a first, a middle and a last one; two values make equal
neighbours and both orders.

## 13. Boot

`Boot.tla` models main.c from reset to the three tasks, with the independent
watchdog. Time passes in ticks of 200 ms, the period of `diag_task`. With
prescaler 128, reload 2500 and a clock of 32 kHz the watchdog expires after 50
ticks; `modbus_task` waits 5 before it starts the server.

**Properties.** `StackFirst`: `modbus_task`, which waits for a time and not for
`network_task`, reaches `modbus_tcp_start` ahead of the stack only when
`tcpip_init` took the whole of that time (`spent`, a history variable that no
guard reads), and it never accepts without the stack. `tcpip_init` may take any
time: the three tasks have one priority and nothing bounds their shares. Ahead
of the stack the server gives up, having no socket, or loops in an assertion. `Recovers`: a fault, a hang in `network_init` or a server that gave
up or was ahead of the stack ends in a reset, from `MX_IWDG_Init` on; what stops before it stops for
ever. `Serves`: if faults cease, the server accepts again and again.

| Run | Instance | Shows |
|---|---|---|
| `boot` | the constants of main.c; 16 100 states | `BootInv`, both liveness properties |
| `boot_reset` | the same | violation: nothing refreshes the watchdog, a healthy board is reset every ten seconds (main.c:475-476) |

**Fairness.** Weak, of the tasks, of time and of the reset once the watchdog
has expired.

## 14. TermForm

`TermForm.tla` models TerminalForm and the menus of SPETerminal: a tree of
containers and controls, cursors, focus, invalidation and painting, radio
groups, text fields, and buttons that open a menu and let go of the current
one. `FormService` knows no containers and no cursors: the controls of a menu that take the
focus (`Stops`) stand in rows and columns (`Place`), and keys move the focus in reading
order, up and down from row to row, left and right among controls beside each other and on
to the next row, from the last one around to the first. A button opens its menu
at the first of them. `OneFocus`, `Current` (partial painting misses nothing) and
`OneSelected` relate state that the code keeps in many objects.

What the module takes for granted of menus, the constructors arrange.
`FormAssumption`: `add` puts a component into one container, from the inside out, so
components form trees (`IsForest`, of any depth), each menu has a control that takes
the focus, radio buttons are in the menu's own row, and no button opens its own menu.
`RowsAndColumns`, which only FormService needs: the row of a menu holds
controls and columns of controls (network_setting_menu.h and ssh_setting_menu.h put
their Save and Discard buttons into such a column).

`OneSelected` promises a selection only in the menus `change_to_clean_up`
resets, the main and the network menu: the SSH menu, opened a second time,
starts with nothing selected. The instance has the rows of the real menus with
fewer fields, texts of at most two characters. Layout, escape codes, typed-ahead
keys and the check box, which no menu has, are left out. The Quit button ends the program, so deadlock is not checked.

## 15. Where the code departs from its documentation

Two disagreements have runs of their own, `server_full` and `boot_reset`.
The others were met while modelling; the modules keep, for each, the property that
the documentation suggests, next to the weaker one that holds. TLC finds each of
them violated when it takes the place of a run's properties, under the
constants in the last column.

| Definition | Source | What the code does | Constants |
|---|---|---|---|
| ModbusServer `ListenerNeverClosed` | modbus_tcp.c:109 | the slot is freed before its socket is zeroed; a task of a reused slot closes descriptor 0, the listener | `server_live` |
| ModbusHandler `RejectionsAnswered` | modbus.c:423 | rejecting a read of coils stores through NULL | `handler_safety`, `AsShipped` |
| ModbusHandler `SingleWriteEchoed` | modbus.c:104 | the echo of a single write is overwritten by the header, stale bytes are sent | `handler_safety` |
| ModbusHandler `FreesWhatItGot` | modbus.c:306 | a pointer moved by the header's size is freed | `handler_safety`, `AllSet` |
| ModbusHandler `ReadWriteWritesRegisters` | modbus.c:325 | function 23 writes coils | `handler_safety`, `AllSet` |
| ModbusHandler `FlipsStayInBuffer` | modbus.c:254 | 13 registers flip words behind the buffer | `handler_safety` |
| ModbusHandler `ReadsAnswered`, `ReadsStayInBlock` | modbus.c:127, 181 | `byte_count` wraps: the reply is short, what is read goes past the block | `handler_safety` |
| ModbusSession `AnswerMeansDone` | modbus_tcp.c:102 | fields that have not arrived are read from an earlier request | `session` |
| ModbusSession `ExecutedIsSent` | modbus_tcp.c:95 | the rest of a request longer than the buffer is executed as a request | `session`, `OversizeProg` |
| NetworkPath `NoLeak` | network.c:168 | the pbuf of a refused `netif->input` is not freed; netif.h:178 leaves that to the caller | `network_safety` |
| NetworkPath `PoolProtected` | tcpip.c:268, 191 | `memp_malloc` outside the core lock and `memp_free` inside overwrite each other's head: a message is lost, or in use and on the list; memp.c:256 and 373 expect protection | `network_safety` |
| NetworkPath `CoreExclusive` | network.c:217 | `network_init` works in the core without the lock that netif.c:873 asserts | `network_safety` |
| Adin1110Fifo `FramesQueued` | adin1110.c:525 | with TX_SPACE at 1 or 0 the difference wraps, every frame seems to fit, and the device drops it; also after an aborted read of TX_SPACE | `adin1110` |
| Adin1110Fifo `InBuffers` | adin1110.c:592, 619 | sizes of 6 to 15 make `payload_length` wrap and sizes beyond the buffer pass, from the register or after an aborted read: the copies leave `desc->data` and `eth_rx_buff` | `adin1110` |
| Adin1110Fifo `FrameWhole` | network.c:119 | of a chain of pbufs only the first is sent | `adin1110`, a packet with `tot` above `len` |
| AdinPhy: without the condition on `faults` | stm32_spi.c:404 | after an aborted transfer that is reported as done, the loop for TRDONE has no end (adin1110.c:201) | `adin1110` |
| MacFilter `NoSurplus` | adin1110.c:409 | a half-written entry lets an address through that nobody set | `adin1110` |
| MacFilter `SetForwards`, `MaskIntact` | adin1110.c:409 | with no free entry the address is written to the mask, and 0 is returned | `adin1110` |
| MempPool `SingleOwner` | tcpip.c:268, 191 | outside the core lock an element in use is handed out | `memory` |
| MempPool `Conserved` | memp.c:386 | outside the core lock a freed element is on no list | `memory` |
| AdinInit `FreesOwn` | stm32_gpio.c:217 | the error label frees a pointer that was not assigned | `adin1110` |
| AdinInit `SdescExists` | stm32_spi.c:259 | the error label reads through `sdesc`, which is NULL | `adin1110` |
| AdinInit `DescExists` | network.c:57 | the descriptor is used before it is tested | `adin1110` |
| AdinInit `NothingLost` | freertos_mutex.c:47 | `mutexTmp` is allocated and forgotten | `adin1110` |
| NoOsList `ToPrevious` | no_os_list.c:819 | the iterator is left at NULL, not at the previous element (799-800) | `library` |
| NoOsList `EditChecked` | no_os_list.c:403, 417, 791 | editing where there is no element follows NULL (no_os_list.h:157-159) | `library` |
| NoOsList `AsDescribed` | no_os_list.c:819, 868 | the two above, and an insertion at an iterator on no element, which follows NULL too | `library` |

## 16. Proofs

Eight modules prove what the runs check, except liveness and the violations, for
every value of the constants:

| Module | Proves | Takes for granted |
|---|---|---|
| ModbusServerProofs | exclusion, accounting and ownership of slots and descriptors; refinement of SlotPool | `ServerAssumption` |
| ModbusHandlerProofs | ownership of blocks, framing and truth of replies, silence only without memory | `HandlerAssumption` |
| ModbusSessionProofs | `SessionInv`, refinement of ModbusService | `SessionAssumption` |
| NetworkPathProofs | `Exclusive`, `Owned`, `InOrder` | `ConstantsOK` |
| Adin1110Proofs | `SetupInv`, `RemovedClean`, `PhyInv`, `FilterInv`, `FifoInv` | `DriverAssumption`; the last, `FifoSetting` |
| MemoryProofs | `HeapInv`, `MemInv`, refinement of HeapService (both heaps) and of MempService | `MemoryAssumption`, `HeapSetting`, `MemSetting` |
| LibraryProofs | `ListInv`, refinement of ListService; `FormInv`, refinement of FormService | `LibraryAssumption` |
| BootProofs | `BootInv` | `BootAssumption` |

**What is taken for granted.** The assumptions say what kind of value a constant
is, and what the code's configuration fixes:

- `ServerAssumption`: at least one slot and one descriptor, markers that are no
  connections. `HandlerAssumption`: the fields of requests are numbers, NULL is not a
  block. `SessionAssumption`: a request is longer than the offset of its
  function code, and the buffer too.
- `BootAssumption`: the delay, the clock and the watchdog's settings are positive.
- `FifoSetting`: the device needs at most one word of its own for a frame, its FIFO
  and the buffers are shorter than a `uint32_t` and the HAL's 16-bit byte count can
  say, and a packet to send has an Ethernet header and fits `desc->data` with its
  headers, which lwIP's MTU makes sure of. Nothing is assumed of RX_FSIZE or of old bytes.
- `HeapSetting`: `ucHeap` has room for more than `pxEnd`. `MemSetting`: the
  sizes are aligned (mem.c:356-358), the heap has room for a block, and its size is
  in the range of `mem_size_t`.
- `LibraryAssumption`: finite memory for elements, none of them at NULL, and data that
  the comparator orders as numbers; of menus what section 14 says. `FormInv` needs
  `FormAssumption` only, trees of any depth; the refinement needs `RowsAndColumns` too.

**Server.** Type correctness is inductive. `SlotInv` adds to exclusion and
accounting what makes them inductive: a slot the accept loop is about to mark
is free, and a slot lost to garbage or to a failed task creation has no holder.
From it follow `SlotsAreExclusive`, `SlotsAreAccountedFor` and, comparing each
action with a move of the pool or a stutter, `TableImplementsPool`. `SocketInv`
adds how descriptors and connections correspond, and until `clobbered`, whose
descriptor is whose; it yields `SocketsAreOwned`, `RepliesReachRequester`,
`ListenerStaysOpen` and `DescriptorsAreAccountedFor`.

**Handlers.** What a reply contains is decided long before it is sent, so the
invariants are not inductive. `HandlerInv` adds, per task: `Pointing` (where
the pointer is NULL, where it is not, where it is at the start of its block),
`Progressing` (what the callback and the length are at each place in a
handler) and `Ready` (what stands in the block when it is about to be sent).
`TaskStep` reduces the step of a task to facts about that task, since `Others`
shows that it leaves the blocks and variables of the others alone. The one
arithmetic fact is that `byte_count`, a `uint8_t`, is the
rounded-up number of bytes modulo 256. `Clean` (blocks that are not in use hold no
response) is why the misplaced echo of a single write is stale. From `HandlerInv` follow
`HandlerTypeCorrect`, `BuffersAreOwned`, `RepliesAreFramed`, `AnswersAreTrue`
and the action property `SilenceMeansNoMemory`.

**Session.** The stream keeps the order in which it was sent, and what was executed or answered
lies before everything still to come (`Ordered`, `Behind`); `Known` ties every cell
and every reply to a transmission, and `Together` says which requests are still in one piece. The step that
needs all of them is `Handle`: the first cell in the buffer decides what can be
executed, and only what is `Behind` it can have been executed before.

**Network.** Three layers, each proved with the one before it: `LockInv` (where a thread
is says which lock it has), `PacketInv` and `Handed` (what the receive path
carries at each place, and that it is in one hand), `OrderInv` (every number on the way
lies between those before and behind it). `InpktAccounted` is inductive only with
`Heads`, which bounds what the list can have become since a thread read its head:
only `network_task` takes messages off it, so it has only grown when `network_task` writes, and
shrunk by one at most when `tcpip_thread` does.

**Driver.** `SetupIInv` says of every block whether it is allocated at each step of
`adin1110_init`, so that each error label is compared with what was taken.
`PhyIInv` follows a call through its commands, also past commands that a failed
call left behind in MDIOACC. `FilterIInv` says what the entries before the cursor of
a call were, and leaves out the entry that is half written until the call ends.
`FifoIInv` knows the `end` of every queued frame: of the two words that the test of
line 525 keeps free, the rounding to 32-bit words takes one at most, and the device the
other.

**Memory.** The blocks of both heaps cover the heap without gaps (`Linked`,
`Laid`), the links run through them in the order of their addresses
(`Chained`), no two free neighbours remain (`Plugged`, `Fused`), and each block
in use belongs to one pointer (`Served`, `Backed`). That a refused request
would fit nowhere follows from the last but one: a stretch of unused bytes lies in one
block. In heap_4.c a block that is being freed is neither listed nor held between `FreeMark`
and `FreeInsert`. For the pool, `Fresh` says what a thread inside has loaded, if
nobody has written the head since, `Unused` that the list holds just what nobody
uses, and `Acyclic` that a walk along it ends. `OneInside`: of the threads
that hold the lock one at most is inside, so that two writes that clash are not both
under it (`Clashes`).

**Lists.** `ListIInv` says that a list of n elements has an order (`Ordered`): a
sequence of all its elements, each once, that starts at `first`, ends at `last` and
gives every element's links in both directions. A walk of k steps is a look k places away
(`StepIsAt`), a search the first place that matches (`SearchIsFirst`). Adding puts an
element into the order (`AddedGrows`), taking out drops its place (`WithoutShrinks`); most of the
work is that `no_os_update_desc`, called with the ends as they were, leaves the right
ones for every length (`CutEnds`). ListService sees the data along the order, and
the place of the iterator in it; its two departures are disjuncts of `ServiceNext`,
each reached where the proof of the get, the edit or the insertion needs it.

**Forms.** `FormIInv` says that every container around the focus has its cursor
on the component that leads to it (`LeadsToFocus`), so that one release at any level finds
the focus, and that a control the terminal shows wrongly is marked together with all
that is around it (`StaleIsMarked`), so that a partial paint reaches it; an old menu that
`change_to_clean_up` lets go of is not held, which its new radio buttons need. Walks go down the tree (`Leaf`,
`Taker`) and up (`Move`, `Printed`). Their equations come from `Recursion`: functions
whose values depend on components of lower rank exist, rank being the number of components
below, or what is missing from all. Facts about trees are proved for an innermost or outermost
counterexample (`Lowest`, `Highest`). The central one is `AlongLeads`: cursors set along
a path that starts around the old focus lead to the end of the path, whatever the cursors
outside of it were. For FormService, `RowIs` and `StopIs` say where controls stand,
`RootEnd`, `RootMove` and `ColumnMove` that a walk ends at the first, or last, control in
reading order of the rows ahead.

**Boot.** `InTime` says that while `network_task` is in `tcpip_init` the ticks it
spent and those gone of the delay of `modbus_task` are the same; nothing else
orders the two tasks.

**Induction.** The library's induction theorems take an operator as a
parameter, which the provers cannot instantiate. Where a proof needs induction over
numbers, or over a tree, it takes the least counterexample instead (`LeastNat` in
MemoryProofs and LibraryProofs). What a recursive function returns, as in a walk along a list, is shown the same way, against a
function that is not recursive.

**Only model-checked:** `DisconnectReleases`, `RequestsRead`, `RequestsEnd`,
`Resync`, `Progress`, `CallsEnd`, `Recovers` and `Serves`, because liveness under
fairness is outside the prover's reach, and the two violations.

## 17. Not modelled

- **DMA queues of no-OS** (stm32_dma.c, no_os_dma.c, and the DMA paths of
  stm32_spi.c from line 482 on): stm32_dma.c:202 needs `stm32_irq_ops`, which no
  file of the repository defines, and config.h asks for no DMA descriptor. The
  transfers the firmware makes go through `stm32_spi_transfer`, which NetworkPath
  and Adin1110Fifo model, the HAL's DMA error included.
- **no-OS services** (delays, allocation, mutex wrappers): one-line calls of
  FreeRTOS; where they matter (a lost mutex block) AdinInit has them.
- **no-OS utilities, CRC, GPIO, PWM, interrupts**: straight-line register access
  and arithmetic without state of the firmware's own.
- **Application callbacks**: they return success and keep nothing;
  ModbusHandler lets them accept or refuse.
- **FreeRTOS kernel, CMSIS-RTOS, HAL, CMSIS, lwIP's protocols**: vendored, and
  taken to keep their documentation. They are most of the 277 000 lines of the
  repository; the share of all lines that the models cover is small for that
  reason. Of lwIP, what this port decides is modelled: the threading, the
  mailboxes, the core lock, the pools and the heap.
- `modbus_other_functions_request_handler` is never called.
- **Time**: delays only give way to other tasks, except in Boot, where ticks
  are counted.

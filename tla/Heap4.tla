------------------------------- MODULE Heap4 -------------------------------
(***************************************************************************)
(* The heap that pvPortMalloc and vPortFree keep (FreeRTOS heap_4.c): a     *)
(* list of the free blocks in the order of their addresses, first fit,      *)
(* splitting, and merging of neighbours. Connection descriptors, replies,   *)
(* device descriptors and the kernel's own objects live here.               *)
(*                                                                          *)
(* Both functions work on the list with the scheduler suspended, so each    *)
(* is one step, except that vPortFree clears the block's allocated bit      *)
(* before. The contents of a block's bytes are the callers'.                *)
(***************************************************************************)
EXTENDS Integers, FiniteSets

CONSTANTS Align,    \* portBYTE_ALIGNMENT
          Struct,   \* sizeof(BlockLink_t)
          Base,     \* address of ucHeap
          Total,    \* configTOTAL_HEAP_SIZE
          MaxWant   \* bound: bytes asked for

\* What the model takes for granted of its constants.
HeapAssumption ==
    /\ Align \in Nat \ {0} /\ Struct \in Nat \ {0} /\ Base \in Nat \ {0}
    /\ Total \in Nat /\ MaxWant \in Nat

VARIABLES blk,      \* header address -> xBlockSize and the allocated bit
          link,     \* pxNextFreeBlock of xStart and of the free blocks
          freeB,    \* xFreeBytesRemaining
          minEver,  \* xMinimumEverFreeBytesRemaining
          held,     \* pointers that callers have -> bytes they asked for
          null      \* size of the last request if it was refused, else 0

vars == <<blk, link, freeB, minEver, held, null>>

Up(n) == ((n + Align - 1) \div Align) * Align
Down(n) == (n \div Align) * Align
HeapStruct == Up(Struct)          \* xHeapStructSize
MinBlock == 2 * HeapStruct        \* heapMINIMUM_BLOCK_SIZE

Start == 0                        \* xStart, outside of the heap
First == Up(Base)                 \* pucAlignedHeap
End == Down(First + (Total - (First - Base)) - HeapStruct)  \* pxEnd
Addrs == {Start} \cup First..End

Headers == DOMAIN blk
Listed == DOMAIN link \ {Start}
BytesOf(B) == UNION {b..(b + blk[b].size - 1) : b \in B}

TypeOK ==
    /\ blk \in [Headers -> [size : 0..Total, alloc : BOOLEAN]] /\ Headers \subseteq First..End
    /\ link \in [DOMAIN link -> Addrs] /\ DOMAIN link \subseteq Addrs
    /\ freeB \in 0..Total /\ minEver \in 0..Total /\ null \in 0..MaxWant
    /\ held \in [DOMAIN held -> 0..MaxWant] /\ DOMAIN held \subseteq First..End

Put(f, a, v) == [x \in DOMAIN f \cup {a} |-> IF x = a THEN v ELSE f[x]]
Drop(f, a) == [x \in DOMAIN f \ {a} |-> f[x]]

\* After prvHeapInit, which the first call of pvPortMalloc begins with: main
\* creates the tasks before any other code runs. One block up to pxEnd.
Init ==
    /\ blk = Put(Put(<<>>, First, [size |-> End - First, alloc |-> FALSE]),
                 End, [size |-> 0, alloc |-> FALSE])
    /\ link = Put(Put(<<>>, Start, First), First, End)
    /\ freeB = End - First /\ minEver = End - First /\ held = <<>> /\ null = 0
-----------------------------------------------------------------------------
\* prvInsertBlockIntoFreeList, on a heap h with the block b not in its list: the walk
\* from xStart stops where the next block is no longer below b, and b is merged with
\* the block before that place, then with the one after.
Before(h, b) == CHOOSE a \in DOMAIN h.link : a < b /\ b <= h.link[a]

NoMergeMutant(h, b) ==
    LET it == Before(h, b) IN
    [h EXCEPT !.link = Put(Put(@, b, h.link[it]), it, b)]

InsertBlock(h, b) ==
    LET it == Before(h, b)
        nx == h.link[it]
        back == it # Start /\ it + h.blk[it].size = b
        c == IF back THEN it ELSE b
        size == h.blk[b].size + (IF back THEN h.blk[it].size ELSE 0)
        fwd == c + size = nx /\ nx # End
        grown == Put(IF back THEN Drop(h.blk, b) ELSE h.blk, c,
                     [size |-> size + (IF fwd THEN h.blk[nx].size ELSE 0), alloc |-> FALSE])
        cut == IF fwd THEN Drop(h.link, nx) ELSE h.link
        on == Put(cut, c, IF fwd THEN h.link[nx] ELSE nx)
    IN  [blk |-> IF fwd THEN Drop(grown, nx) ELSE grown,
         link |-> IF back THEN on ELSE Put(on, it, c)]

\* The size of the block for a request, with its header and aligned.
Wanted(n) == IF n > 0 THEN Up(n + HeapStruct) ELSE 0

\* The block before the first one that is large enough, or before pxEnd: the list is
\* in the order of the addresses.
Stops(w) == {a \in DOMAIN link : link[a] = End \/ blk[link[a]].size >= w}
FitPrev(w) == CHOOSE a \in Stops(w) : \A c \in Stops(w) : a <= c

\* Taking a block out of the list, and putting its remainder back.
Split(size, w) == size - w > MinBlock
Charged(size, w) == IF Split(size, w) THEN w ELSE size

Take(prev, w) ==
    LET b == link[prev]
        size == blk[b].size
        out == [blk |-> blk, link |-> Drop(Put(link, prev, link[b]), b)]
        two == [out EXCEPT !.blk = Put(Put(@, b + w, [size |-> size - w, alloc |-> FALSE]),
                                       b, [size |-> w, alloc |-> FALSE])]
        h == IF Split(size, w) THEN InsertBlock(two, b + w) ELSE out
        left == freeB - Charged(size, w)
    IN  /\ blk' = [h.blk EXCEPT ![b].alloc = TRUE] /\ link' = h.link
        /\ freeB' = left /\ minEver' = IF left < minEver THEN left ELSE minEver

Malloc(n) ==
    LET w == Wanted(n)
        prev == FitPrev(w)
    IN  IF w > 0 /\ w <= freeB /\ link[prev] # End
        THEN /\ Take(prev, w) /\ null' = 0
             /\ held' = Put(held, link[prev] + HeapStruct, n)
        ELSE null' = n /\ UNCHANGED <<blk, link, freeB, minEver, held>>

\* vPortFree up to vTaskSuspendAll: the assertions hold for a block that was
\* handed out, and its allocated bit is cleared ...
FreeMark(p) ==
    /\ p \in DOMAIN held /\ blk[p - HeapStruct].alloc
    /\ blk' = [blk EXCEPT ![p - HeapStruct].alloc = FALSE] /\ held' = Drop(held, p)
    /\ null' = 0 /\ UNCHANGED <<link, freeB, minEver>>

\* ... and after it.
Freed == {b \in Headers \ (Listed \cup {End}) : ~blk[b].alloc}
FreeInsert(b) ==
    /\ b \in Freed /\ freeB' = freeB + blk[b].size
    /\ LET h == InsertBlock([blk |-> blk, link |-> link], b)
       IN  blk' = h.blk /\ link' = h.link
    /\ null' = 0 /\ UNCHANGED <<minEver, held>>

Next ==
    \/ \E n \in 0..MaxWant : Malloc(n)
    \/ \E p \in DOMAIN held : FreeMark(p)
    \/ \E b \in Freed : FreeInsert(b)

Spec == Init /\ [][Next]_vars
-----------------------------------------------------------------------------
(* Properties.                                                              *)

\* xFreeBytesRemaining is what the list holds; no byte of the heap belongs to two
\* blocks or to none (heap_4.c:211, 295).
InUse == BytesOf(Headers \ Listed)
Accounted ==
    /\ freeB = Cardinality(BytesOf(Listed)) /\ minEver <= freeB
    /\ BytesOf(Listed) \cup InUse = First..(End - 1)
    /\ \A b \in Headers : BytesOf({b}) \cap BytesOf(Headers \ {b}) = {}

\* A request is refused only when the unused bytes hold no stretch that is large
\* enough: freed neighbours always end up as one block (heap_4.c:396-421).
RefusedOnlyWhenFull == null > 0 =>
    ~\E a \in First..End : a..(a + Wanted(null) - 1) \subseteq (First..(End - 1)) \ InUse

\* Callers hold disjoint, aligned regions of the heap as large as they asked for
\* (heap_4.c:181-204).
Service == INSTANCE HeapService WITH Bytes <- First..(End - 1)
ServiceSpec == Service!Spec

\* What holds in every state: no byte is lost, and none that would serve a
\* request is overlooked (heap_4.c:396-421).
HeapInv == TypeOK /\ Accounted /\ RefusedOnlyWhenFull
=============================================================================

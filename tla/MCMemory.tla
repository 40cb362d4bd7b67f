------------------------------ MODULE MCMemory ------------------------------
(***************************************************************************)
(* The allocators of the firmware: the heap of FreeRTOS, the heap of lwIP   *)
(* and a pool of lwIP. Each has memory of its own, so one behaviour is      *)
(* about one of the three.                                                  *)
(***************************************************************************)
EXTENDS Integers

CONSTANTS Align, Struct, Base, Total, MaxWant,
          Header, MinSize, MemSize, Width, Wants,
          Elements, Null, Allocs, Frees, Locked

VARIABLES part,  \* the allocator this behaviour is about
          blk, link, freeB, minEver, held, null,
          mem, lfree, memHeld, memNull,
          tab, next, pc, memp, after, users, over, torn, core, ret

Heap == INSTANCE Heap4
Mem == INSTANCE MemHeap WITH held <- memHeld, null <- memNull
Pool == INSTANCE MempPool

ASSUME MemoryAssumption ==
    Heap!HeapAssumption /\ Mem!MemAssumption /\ Pool!PoolAssumption

heapVars == <<blk, link, freeB, minEver, held, null>>
memVars == <<mem, lfree, memHeld, memNull>>
poolVars == <<tab, next, pc, memp, after, users, over, torn, core, ret>>
vars == <<part, heapVars, memVars, poolVars>>

\* The order of the pool's free list matters to the pool only.
Init ==
    /\ part \in {"heap", "mem", "pool"} /\ Heap!Init /\ Mem!Init /\ Pool!Init
    /\ part # "pool" => tab = CHOOSE e \in Elements : TRUE
    /\ part # "pool" => next[tab] = CHOOSE e \in Elements \ {tab} : TRUE

Next ==
    /\ UNCHANGED part
    /\ \/ part = "heap" /\ Heap!Next /\ UNCHANGED <<memVars, poolVars>>
       \/ part = "mem" /\ Mem!Next /\ UNCHANGED <<heapVars, poolVars>>
       \/ part = "pool" /\ Pool!Next /\ UNCHANGED <<heapVars, memVars>>

Spec == Init /\ [][Next]_vars
-----------------------------------------------------------------------------
(* An allocator's state changes only in behaviours that are about it. *)

\* The FreeRTOS heap loses no byte and refuses only what does not fit
\* (heap_4.c:211, 295, 396-421).
HeapInv == part = "heap" => Heap!HeapInv

\* The lwIP heap keeps its links, takes back what it gave and refuses only what
\* does not fit (mem.c:407-945).
MemInv == part = "mem" => Mem!MemInv

\* The regions that pvPortMalloc and mem_malloc hand out are aligned, disjoint and
\* large enough (heap_4.c:181-204, mem.c:940-945).
HeapServiceSpec ==
    /\ Heap!Service!Init /\ [][part = "heap" => Heap!Service!Next]_held
    /\ Mem!Service!Init /\ [][part = "mem" => Mem!Service!Next]_memHeld

\* Whether its users hold the core lock or not, a pool hands out what nobody has and
\* takes it back, until one of them writes the head that another has written since it
\* was read (memp.c:256-268, 385-386); and of these two, one does not hold the lock.
MempServiceSpec ==
    /\ []Pool!TypeOK /\ []Pool!OutsideOnly /\ Pool!Service!Init
    /\ [][part = "pool" /\ torn' = {} => Pool!Service!Next]_(Pool!Service!vars)
=============================================================================

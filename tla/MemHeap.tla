------------------------------ MODULE MemHeap ------------------------------
(***************************************************************************)
(* The heap of lwIP (mem.c), from which pbufs are made: blocks linked in    *)
(* both directions, first fit from the lowest free block on, mem_trim for   *)
(* the end of a block, and plug_holes to merge neighbours. The functions    *)
(* work under mem_mutex and are one step each; what mem_trim reads before   *)
(* it takes the mutex only the holder of the block changes.                 *)
(***************************************************************************)
EXTENDS Integers

CONSTANTS Align,     \* MEM_ALIGNMENT
          Header,    \* SIZEOF_STRUCT_MEM
          MinSize,   \* MIN_SIZE_ALIGNED
          MemSize,   \* MEM_SIZE_ALIGNED, which is also the address of ram_end
          Width,     \* range of mem_size_t
          Wants      \* bound: the sizes that are asked for

\* What the model takes for granted of its constants.
MemAssumption ==
    /\ Align \in Nat \ {0} /\ {Header, MinSize, MemSize} \subseteq Nat
    /\ Width \in Nat \ {0} /\ Wants \subseteq 0..(Width - 1)

VARIABLES mem,     \* header address -> next, prev, used
          lfree,   \* lowest free block
          held,    \* pointers that callers have -> bytes they asked for
          null     \* size of the last request if it was refused, else 0

vars == <<mem, lfree, held, null>>

Addrs == 0..MemSize
Blocks == DOMAIN mem \ {MemSize}

TypeOK ==
    /\ mem \in [DOMAIN mem -> [next : Addrs, prev : Addrs, used : BOOLEAN]]
    /\ DOMAIN mem \subseteq Addrs /\ lfree \in DOMAIN mem
    /\ held \in [DOMAIN held -> Wants] /\ DOMAIN held \subseteq Addrs /\ null \in Wants \cup {0}

\* mem_init
Init ==
    /\ mem = [a \in {0, MemSize} |-> [next |-> MemSize, prev |-> a, used |-> a = MemSize]]
    /\ lfree = 0 /\ held = <<>> /\ null = 0
-----------------------------------------------------------------------------
Put(f, a, v) == [x \in DOMAIN f \cup {a} |-> IF x = a THEN v ELSE f[x]]
Drop(f, a) == [x \in DOMAIN f \ {a} |-> f[x]]

\* ptr_to_mem(b)->prev = a, unless b is the end of the heap.
Back(m, b, a) == IF b = MemSize THEN m ELSE [m EXCEPT ![b].prev = a]

\* The size of a block in mem_size_t: aligned, which may wrap, and not too small.
Up(n) == ((n + Align - 1) \div Align) * Align
AtLeast(n) == IF n < MinSize THEN MinSize ELSE n
Size(n) == AtLeast(Up(n) % Width)
WrapsMutant(n) == n > 0 /\ Size(n) <= MemSize
Possible(n) == n > 0 /\ Size(n) <= MemSize /\ Size(n) >= n

\* The first free block from lfree on with room for size, or the end of the heap. The
\* links lead from block to block in the order of their addresses (MemSanity), so the
\* first block of some kind that a walk meets is the lowest one.
Lowest(S) == CHOOSE p \in S : \A q \in S : p <= q
Room(p) == (mem[p].next - (p + Header)) % (Width * Width)
Fits(size) ==
    {p \in Blocks : lfree <= p /\ p < MemSize - size /\ ~mem[p].used /\ Room(p) >= size}
Fit(size) == IF Fits(size) = {} THEN MemSize ELSE Lowest(Fits(size))

\* mem2, a free block of its own behind the size bytes of p.
Divide(p, size) ==
    LET q == p + Header + size
        m == Put(mem, q, [next |-> mem[p].next, prev |-> p, used |-> FALSE])
    IN  Back([m EXCEPT ![p].next = q], mem[p].next, q)

\* The next free block of m from p on, or the end of the heap.
NextFree(m, p) == Lowest({q \in DOMAIN m : p <= q /\ (~m[q].used \/ q = MemSize)})

Splits(p, size) == Room(p) >= size + Header + MinSize

Take(p, size) ==
    LET m == [(IF Splits(p, size) THEN Divide(p, size) ELSE mem) EXCEPT ![p].used = TRUE]
    IN  mem' = m /\ lfree' = IF p = lfree THEN NextFree(m, p) ELSE lfree

Malloc(n) ==
    IF Possible(n) /\ Fit(Size(n)) # MemSize
    THEN /\ Take(Fit(Size(n)), Size(n)) /\ null' = 0
         /\ held' = Put(held, Fit(Size(n)) + Header, n)
    ELSE null' = n /\ UNCHANGED <<mem, lfree, held>>

\* plug_holes on a heap h whose block b was freed: forward, then backward.
Forward(h, b) ==
    LET n == h.mem[b].next IN
    IF b = n \/ h.mem[n].used \/ n = MemSize THEN h
    ELSE [lfree |-> IF h.lfree = n THEN b ELSE h.lfree,
          mem |-> Drop(Back([h.mem EXCEPT ![b].next = h.mem[n].next], h.mem[n].next, b), n)]

Backward(h, b) ==
    LET p == h.mem[b].prev IN
    IF p = b \/ h.mem[p].used THEN h
    ELSE [lfree |-> IF h.lfree = b THEN p ELSE h.lfree,
          mem |-> Drop(Back([h.mem EXCEPT ![p].next = h.mem[b].next], h.mem[b].next, p), b)]

PlugHoles(h, b) == Backward(Forward(h, b), b)

LinkValid(b) ==
    /\ mem[b].prev = b \/ mem[mem[b].prev].next = b
    /\ mem[b].next = MemSize \/ mem[mem[b].next].prev = b

\* mem_free: a pointer that does not look like a block is left alone.
Legal(p) ==
    /\ p % Align = 0 /\ p >= Header /\ p + MinSize <= MemSize
    /\ mem[p - Header].used /\ LinkValid(p - Header)

Free(p) ==
    /\ p \in DOMAIN held /\ held' = Drop(held, p) /\ null' = 0
    /\ LET b == p - Header
           h == PlugHoles([mem |-> [mem EXCEPT ![b].used = FALSE],
                           lfree |-> IF b < lfree THEN b ELSE lfree], b)
       IN  IF Legal(p) THEN mem' = h.mem /\ lfree' = h.lfree ELSE UNCHANGED <<mem, lfree>>

\* mem_trim to a size that is not larger: a free block behind moves down, and in
\* front of a used one a free block is made if it can hold something.
Moved(b, size) ==
    LET n == mem[b].next
        q == b + Header + size
        m == Put(Drop(mem, n), q, [next |-> mem[n].next, prev |-> b, used |-> FALSE])
    IN  [mem |-> Back([m EXCEPT ![b].next = q], mem[n].next, q),
         lfree |-> IF lfree = n THEN q ELSE lfree]

NoLowerMutant(b, size) == [mem |-> Divide(b, size), lfree |-> lfree]
Cut(b, size) ==
    [mem |-> Divide(b, size),
     lfree |-> IF b + Header + size < lfree THEN b + Header + size ELSE lfree]

Shrunk(b, size) ==
    IF size = Room(b) THEN [mem |-> mem, lfree |-> lfree]
    ELSE IF ~mem[mem[b].next].used THEN Moved(b, size)
    ELSE IF Splits(b, size) THEN Cut(b, size)
    ELSE [mem |-> mem, lfree |-> lfree]

Trim(p, n) ==
    /\ p \in DOMAIN held /\ n \in 1..held[p]
    /\ LET h == Shrunk(p - Header, Size(n)) IN mem' = h.mem /\ lfree' = h.lfree
    /\ held' = [held EXCEPT ![p] = n] /\ null' = 0

Next ==
    \/ \E n \in Wants : Malloc(n)
    \/ \E p \in DOMAIN held : Free(p) \/ \E n \in Wants : Trim(p, n)

Spec == Init /\ [][Next]_vars
-----------------------------------------------------------------------------
(* Properties.                                                              *)

\* What mem_sanity, which is switched off, would check after every call: links
\* that agree in both directions and no two unused blocks in a row (mem.c:555-594).
MemSanity == \A b \in Blocks :
    /\ b < mem[b].next /\ mem[b].next \in DOMAIN mem /\ LinkValid(b)
    /\ ~mem[b].used => mem[mem[b].next].used
    /\ \A c \in Blocks : c <= b \/ mem[b].next <= c

\* The search starts no later than at the lowest free block (mem.c:407-408, 857).
LowestFree == (lfree # MemSize => ~mem[lfree].used) /\ \A b \in Blocks : ~mem[b].used => lfree <= b

\* A request is refused only when the unused bytes hold no stretch for it.
InUse == UNION {b..(mem[b].next - 1) : b \in {c \in Blocks : mem[c].used}}
RefusedOnlyWhenFull == null > 0 =>
    ~\E a \in Addrs : a..(a + Header + AtLeast(Up(null)) - 1) \subseteq (0..(MemSize - 1)) \ InUse

\* Every block that mem_free was given is free again: its checks never refuse a
\* block that mem_malloc made and mem_trim shortened (mem.c:613-654).
AllReturned == {b \in Blocks : mem[b].used} = {p - Header : p \in DOMAIN held}

\* Callers hold disjoint, aligned regions as large as they asked for (mem.c:940-945).
Service == INSTANCE HeapService WITH Bytes <- 0..(MemSize - 1)
ServiceSpec == Service!Spec

\* What holds in every state: links agree, and no byte is lost or overlooked
\* (mem.c:407-945).
MemInv == TypeOK /\ MemSanity /\ LowestFree /\ RefusedOnlyWhenFull /\ AllReturned
=============================================================================

----------------------------- MODULE HeapService -----------------------------
(***************************************************************************)
(* A heap as its callers see it: malloc hands out a region that no other    *)
(* caller holds, or nothing; a region is given back whole, or its end is.   *)
(* Both heaps of the firmware promise this: heap_4.c of FreeRTOS and mem.c  *)
(* of lwIP.                                                                 *)
(***************************************************************************)
EXTENDS Integers, FiniteSets

CONSTANTS Bytes,   \* addresses of the heap
          Align    \* alignment of every region

VARIABLE held      \* regions handed out: address -> length asked for

Region(p, n) == p .. (p + n - 1)

Init == held = <<>>

Malloc(p, n) ==
    /\ n > 0 /\ p % Align = 0 /\ Region(p, n) \subseteq Bytes
    /\ \A q \in DOMAIN held : Region(p, n) \cap Region(q, held[q]) = {}
    /\ held' = [q \in DOMAIN held \cup {p} |-> IF q = p THEN n ELSE held[q]]

Free(p) ==
    /\ p \in DOMAIN held
    /\ held' = [q \in DOMAIN held \ {p} |-> held[q]]

Trim(p, n) ==
    /\ p \in DOMAIN held /\ n \in 1..held[p]
    /\ held' = [held EXCEPT ![p] = n]

Next == \E p \in Bytes : Free(p) \/ \E n \in 1..Cardinality(Bytes) : Malloc(p, n) \/ Trim(p, n)

Spec == Init /\ [][Next]_held
=============================================================================

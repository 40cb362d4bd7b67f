---------------------------- MODULE MempService ----------------------------
(***************************************************************************)
(* What a pool of lwIP promises its users: memp_malloc hands out an element *)
(* nobody has, or NULL when there is none; memp_free takes one back.        *)
(***************************************************************************)
CONSTANTS Elements, Null

VARIABLES free, used,
          ret     \* what memp_malloc returned last

vars == <<free, used, ret>>

Init == free = Elements /\ used = {} /\ ret = Null

Malloc(e) ==
    /\ e \in free /\ free' = free \ {e} /\ used' = used \cup {e} /\ ret' = e

MallocNull == free = {} /\ ret' = Null /\ UNCHANGED <<free, used>>

Free(e) ==
    /\ e \in used /\ used' = used \ {e} /\ free' = free \cup {e} /\ UNCHANGED ret

Next == (\E e \in Elements : Malloc(e) \/ Free(e)) \/ MallocNull

Spec == Init /\ [][Next]_vars
=============================================================================

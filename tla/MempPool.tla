------------------------------ MODULE MempPool ------------------------------
(***************************************************************************)
(* A memory pool of lwIP (memp.c): a free list that threads change access   *)
(* by access. SYS_LIGHTWEIGHT_PROT is 0 (lwipopts.h:59), so that            *)
(* SYS_ARCH_PROTECT is empty, and some callers do not hold the core lock    *)
(* (tcpip.c:268). An element may be freed by another thread than the one it *)
(* was given to, as the input messages are.                                 *)
(*                                                                          *)
(* A thread that writes the head of the list goes by what it read there;    *)
(* when another one has written it since, the list is torn: an element may  *)
(* be lost or have two users. A behaviour ends there, because the links of  *)
(* an element in use are its user's data.                                   *)
(***************************************************************************)
EXTENDS Integers

CONSTANTS Elements, Null,
          Allocs, Frees,  \* threads that call memp_malloc, memp_free
          Locked          \* threads that call with lock_tcpip_core held

Threads == Allocs \cup Frees

\* What the model takes for granted of its constants.
PoolAssumption ==
    Null \notin Elements \cup Threads /\ Locked \subseteq Threads

VARIABLES tab,    \* *desc->tab, the head of the free list
          next,   \* memp->next
          pc, memp,
          after,  \* the value of memp->next that a thread has loaded
          users,  \* how many hold each element
          over,   \* who wrote the head after a thread had read it
          torn,   \* the two threads whose writes of the head clashed
          core,   \* holder of the core lock
          ret     \* what memp_malloc returned last

vars == <<tab, next, pc, memp, after, users, over, torn, core, ret>>

TypeOK ==
    /\ tab \in Elements \cup {Null} /\ ret \in Elements \cup {Null}
    /\ next \in [Elements -> Elements \cup {Null}]
    /\ pc \in [Threads -> {"idle", "load", "take", "link", "give"}]
    /\ memp \in [Threads -> Elements \cup {Null}]
    /\ after \in [Threads -> Elements \cup {Null}]
    /\ users \in [Elements -> 0..2]
    /\ over \in [Threads -> Threads \cup {Null}] /\ torn \in SUBSET Threads
    /\ core \in Threads \cup {Null}

\* What the links f lead to from head: whatever has head has its successors.
Closed(S, f) == \A e \in S : f[e] \in S \cup {Null}
Reach(head, f) ==
    {e \in Elements : \A S \in SUBSET Elements : head \in S \cup {Null} /\ Closed(S, f) => e \in S}
Listed == Reach(tab, next)

\* The list ends: it does not come back to an element.
Acyclic == \A e \in Listed : e \notin Reach(next[e], next)

\* memp_init_pool chains all elements, in any order.
Init ==
    /\ next \in [Elements -> Elements \cup {Null}] /\ tab \in Elements \cup {Null}
    /\ Listed = Elements /\ Acyclic
    /\ pc = [t \in Threads |-> "idle"]
    /\ memp = [t \in Threads |-> Null] /\ after = memp
    /\ users = [e \in Elements |-> 0] /\ core = Null /\ ret = Null
    /\ over = memp /\ torn = {}
-----------------------------------------------------------------------------
MayEnter(t) == t \in Locked => core = Null

Enter(t) == pc[t] = "idle" /\ MayEnter(t) /\ core' = IF t \in Locked THEN t ELSE core
Goto(t, l) == pc' = [pc EXCEPT ![t] = l]
Leave(t) ==
    /\ Goto(t, "idle") /\ core' = IF core = t THEN Null ELSE core
    /\ memp' = [memp EXCEPT ![t] = Null] /\ after' = [after EXCEPT ![t] = Null]

\* *desc->tab = e, by a thread that goes by what it read there.
HasRead == {s \in Threads : pc[s] \in {"load", "take", "give"}}
WriteHead(t, e) ==
    /\ tab' = e /\ torn' = IF over[t] = Null THEN {} ELSE {t, over[t]}
    /\ over' = [s \in Threads |-> IF s \in HasRead \ {t} THEN t ELSE Null]

\* memp = *desc->tab; NULL is returned at once, the pool is empty.
MallocNull(t) ==
    /\ t \in Allocs /\ pc[t] = "idle" /\ MayEnter(t) /\ tab = Null /\ ret' = Null
    /\ UNCHANGED <<tab, next, pc, memp, after, users, over, torn, core>>

MallocHead(t) ==
    /\ t \in Allocs /\ tab # Null /\ Enter(t) /\ memp' = [memp EXCEPT ![t] = tab]
    /\ Goto(t, "load") /\ UNCHANGED <<tab, next, after, users, over, torn, ret>>

MallocNext(t) ==
    /\ pc[t] = "load" /\ after' = [after EXCEPT ![t] = next[memp[t]]]
    /\ Goto(t, "take") /\ UNCHANGED <<tab, next, memp, users, over, torn, core, ret>>

\* *desc->tab = memp->next, and memp is returned.
MallocTake(t) ==
    /\ pc[t] = "take" /\ WriteHead(t, after[t]) /\ ret' = memp[t]
    /\ users' = [users EXCEPT ![memp[t]] = @ + 1] /\ Leave(t)
    /\ UNCHANGED next

Freeing(e) == \E t \in Threads : pc[t] \in {"link", "give"} /\ memp[t] = e

FreeBegin(t, e) ==
    /\ t \in Frees /\ users[e] > 0 /\ ~Freeing(e) /\ Enter(t)
    /\ memp' = [memp EXCEPT ![t] = e] /\ Goto(t, "link")
    /\ UNCHANGED <<tab, next, after, users, over, torn, ret>>

\* memp->next = *desc->tab
FreeLinkMutant(t) ==
    /\ pc[t] = "link" /\ Goto(t, "give")
    /\ UNCHANGED <<tab, next, memp, after, users, over, torn, core, ret>>
FreeLink(t) ==
    /\ pc[t] = "link" /\ next' = [next EXCEPT ![memp[t]] = tab] /\ Goto(t, "give")
    /\ UNCHANGED <<tab, memp, after, users, over, torn, core, ret>>

\* *desc->tab = memp
FreeGive(t) ==
    /\ pc[t] = "give" /\ WriteHead(t, memp[t]) /\ users' = [users EXCEPT ![memp[t]] = @ - 1]
    /\ Leave(t) /\ UNCHANGED <<next, ret>>

Next ==
    \/ /\ torn = {}
       /\ \E t \in Threads :
            \/ MallocHead(t) \/ MallocNull(t) \/ MallocNext(t) \/ MallocTake(t)
            \/ (\E e \in Elements : FreeBegin(t, e)) \/ FreeLink(t) \/ FreeGive(t)
    \/ torn # {} /\ UNCHANGED vars    \* what follows is not modelled

Spec == Init /\ [][Next]_vars
-----------------------------------------------------------------------------
(* Properties.                                                              *)

\* memp_malloc never hands out an element that somebody still uses (memp.c:268).
SingleOwner == \A e \in Elements : users[e] <= 1

\* An element that nobody uses is on the list: none is lost between the two
\* accesses of memp.c:385-386.
Conserved == \A e \in Elements : users[e] = 0 => e \in Listed

\* Of two threads whose writes clash, one does not hold the core lock.
OutsideOnly == torn # {} => ~(torn \subseteq Locked)

\* The pool as its users see it: malloc takes effect when it moves the head, free
\* when it becomes the head, and NULL means that nothing was free.
Service == INSTANCE MempService
    WITH free <- Listed, used <- {e \in Elements : users[e] > 0}
=============================================================================

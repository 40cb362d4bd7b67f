---------------------------- MODULE MemoryProofs ----------------------------
(***************************************************************************)
(* What holds of the three allocators for every size of heap, of block, of   *)
(* pool and of request.                                                      *)
(*                                                                           *)
(* Both heaps keep a table of blocks that cover the heap without gaps. The   *)
(* inductive invariants say how the links run through that table, which      *)
(* blocks have merged, and which block belongs to which pointer that was     *)
(* handed out; that no byte is lost, that a request is refused only when     *)
(* nothing would hold it, and that callers hold disjoint regions follows.    *)
(***************************************************************************)
EXTENDS MCMemory, Sequences, FiniteSetTheorems, TLAPS

-----------------------------------------------------------------------------
(* The heap of lwIP.                                                        *)

\* What the theorems about the lwIP heap take for granted of lwipopts.h: sizes are
\* aligned, the heap has room for a block, and mem_size_t is wide enough for it.
MemSetting ==
    /\ 0 < Header /\ 0 < MinSize /\ Header + MinSize <= MemSize /\ MemSize < Width
    /\ Header % Align = 0 /\ MinSize % Align = 0 /\ MemSize % Align = 0

Cells == [next : 0..MemSize, prev : 0..MemSize, used : BOOLEAN]
Inner(m) == DOMAIN m \ {MemSize}

\* A table of blocks in the order of their addresses, linked in both directions.
Linked(m) ==
    /\ m \in [DOMAIN m -> Cells] /\ DOMAIN m \subseteq 0..MemSize
    /\ 0 \in DOMAIN m /\ MemSize \in DOMAIN m /\ m[MemSize].used /\ m[0].prev = 0
    /\ \A b \in Inner(m) :
        /\ b % Align = 0 /\ m[b].next \in DOMAIN m /\ b + Header + MinSize <= m[b].next
        /\ \A c \in DOMAIN m : c <= b \/ m[b].next <= c
        /\ m[b].next # MemSize => m[m[b].next].prev = b
        /\ b # 0 => m[b].prev \in Inner(m) /\ m[m[b].prev].next = b

\* No two free blocks stand next to each other.
Plugged(m) == \A b \in Inner(m) : ~m[b].used => m[m[b].next].used

\* The search for a free block may start at f.
StartsAt(m, f) ==
    /\ f \in DOMAIN m /\ (f # MemSize => ~m[f].used)
    /\ \A b \in Inner(m) : ~m[b].used => f <= b

\* A block in use belongs to one pointer, and has room for what was asked for.
Rounded(n) == Mem!AtLeast(Mem!Up(n))
Served(m, h) ==
    /\ \A p \in DOMAIN h : /\ p - Header \in Inner(m) /\ m[p - Header].used
                           /\ h[p] # 0 /\ p + Rounded(h[p]) <= m[p - Header].next
    /\ \A b \in Inner(m) : m[b].used => b + Header \in DOMAIN h

MemIInv ==
    /\ Linked(mem) /\ Plugged(mem) /\ StartsAt(mem, lfree) /\ Served(mem, memHeld)
    /\ memHeld \in [DOMAIN memHeld -> Wants] /\ DOMAIN memHeld \subseteq 0..MemSize
    /\ memNull \in Wants \cup {0} /\ Mem!RefusedOnlyWhenFull

-----------------------------------------------------------------------------
(* Numbers.                                                                 *)

\* Every set of natural numbers has a least one.
LEMMA LeastNat == ASSUME NEW T, T \subseteq Nat, T # {} PROVE \E x \in T : \A y \in T : x <= y
<1> DEFINE R == {ss \in Nat \X Nat : ss[1] < ss[2]}
<1>1. IsWellFoundedOn(OpToRel(<, Nat), Nat)
  BY NatLessThanWellFounded, Zenon
<1>2. OpToRel(<, Nat) = R
  BY Zenon DEF OpToRel
<1>3. IsWellFoundedOn(R, Nat)
  BY <1>1, <1>2, Zenon
<1> HIDE DEF R
<1>4. PICK x \in T : \A y \in T : ~(<<y, x>> \in R)
  BY <1>3, WFMin, Zenon
<1>5. ASSUME NEW y \in T PROVE x <= y
  <2>1. x \in Nat /\ y \in Nat
    OBVIOUS
  <2>2. ~(y < x)
    BY <1>4, <2>1 DEF R
  <2> QED
    BY <2>1, <2>2
<1> QED
  BY <1>5

\* Every bounded set of natural numbers has a greatest one.
LEMMA GreatestNat ==
    ASSUME NEW k \in Nat, NEW T, T \subseteq 0..k, T # {}
    PROVE  \E x \in T : \A y \in T : y <= x
<1> DEFINE D == {k - x : x \in T}
<1>1. D \subseteq Nat /\ D # {}
  OBVIOUS
<1>2. PICK d \in D : \A e \in D : d <= e
  BY <1>1, LeastNat, Zenon
<1>3. PICK x \in T : d = k - x
  OBVIOUS
<1>4. ASSUME NEW y \in T PROVE y <= x
  <2>1. d <= k - y
    BY <1>2
  <2> QED
    BY <1>3, <2>1
<1> QED
  BY <1>4

\* The alignment is a positive number.
LEMMA AlignType == Align \in Nat /\ Align > 0
BY MemoryAssumption DEF Mem!MemAssumption

\* What is aligned is a multiple of the alignment, and the other way round.
LEMMA Multiples ==
    /\ \A x \in Int : x % Align = 0 => \E q \in Int : x = Align * q
    /\ \A q \in Int : (Align * q) % Align = 0
<1>1. ASSUME NEW x \in Int, x % Align = 0 PROVE \E q \in Int : x = Align * q
  BY <1>1, AlignType
<1>2. ASSUME NEW q \in Int PROVE (Align * q) % Align = 0
  BY AlignType
<1> QED
  BY <1>1, <1>2

\* Sums and differences of aligned numbers are aligned.
LEMMA AlignedSum ==
    ASSUME NEW x \in Int, NEW y \in Int, x % Align = 0, y % Align = 0
    PROVE  (x + y) % Align = 0 /\ (x - y) % Align = 0
<1>1. PICK q \in Int : x = Align * q
  BY Multiples
<1>2. PICK r \in Int : y = Align * r
  BY Multiples
<1>3. x + y = Align * (q + r) /\ x - y = Align * (q - r)
  BY <1>1, <1>2, AlignType
<1>4. q + r \in Int /\ q - r \in Int
  OBVIOUS
<1>5. (Align * (q + r)) % Align = 0 /\ (Align * (q - r)) % Align = 0
  BY <1>4, Multiples
<1> QED
  BY <1>3, <1>5

\* Between two aligned numbers there is room for an alignment.
LEMMA AlignedGap ==
    ASSUME NEW x \in Int, x % Align = 0, 0 < x PROVE Align <= x
<1>1. PICK q \in Int : x = Align * q
  BY Multiples
<1> QED
  BY <1>1, AlignType

\* LWIP_MEM_ALIGN_SIZE rounds up to the next multiple.
LEMMA RoundsUp ==
    ASSUME NEW n \in Nat
    PROVE  /\ Mem!Up(n) \in Nat /\ n <= Mem!Up(n) /\ Mem!Up(n) <= n + Align - 1
           /\ Mem!Up(n) % Align = 0
<1> DEFINE q == (n + Align - 1) \div Align
<1>1. q \in Int
  BY AlignType
<1>2. n <= q * Align /\ q * Align <= n + Align - 1
  BY AlignType
<1> HIDE DEF q
<1>3. q * Align = Align * q
  BY <1>1, AlignType
<1>4. (q * Align) % Align = 0
  BY <1>1, <1>3, Multiples
<1>5. Mem!Up(n) = q * Align
  BY DEF Mem!Up, q
<1>6. q * Align \in Int
  BY <1>1, AlignType
<1> QED
  BY <1>2, <1>4, <1>5, <1>6, AlignType

\* The constants of the lwIP heap.
LEMMA MemTypes ==
    ASSUME MemSetting
    PROVE  /\ Header \in Nat /\ MinSize \in Nat /\ MemSize \in Nat /\ Width \in Nat
           /\ 0 < Header /\ 0 < MinSize /\ Header + MinSize <= MemSize /\ MemSize < Width
           /\ Align <= Header /\ Align <= MinSize
           /\ Wants \subseteq 0..Width - 1
<1>1. /\ Header \in Nat /\ MinSize \in Nat /\ MemSize \in Nat /\ Width \in Nat
      /\ Wants \subseteq 0..Width - 1
  BY MemoryAssumption DEF Mem!MemAssumption
<1> QED
  BY <1>1, AlignedGap DEF MemSetting

\* A size that mem_malloc and mem_trim accept has not wrapped.
LEMMA SizeFacts ==
    ASSUME MemSetting, NEW n \in Nat, n # 0
    PROVE  /\ Rounded(n) \in Nat /\ n <= Rounded(n) /\ MinSize <= Rounded(n)
           /\ Rounded(n) % Align = 0
           /\ Rounded(n) <= MemSize => Mem!Size(n) = Rounded(n) /\ Mem!Possible(n)
           /\ n < Width /\ Mem!Possible(n) => Mem!Size(n) = Rounded(n) /\ Rounded(n) <= MemSize
<1> DEFINE u == Mem!Up(n)
<1>1. u \in Nat /\ n <= u /\ u <= n + Align - 1 /\ u % Align = 0
  BY RoundsUp
<1> HIDE DEF u
<1>2. Rounded(n) = IF u < MinSize THEN MinSize ELSE u
  BY DEF Rounded, Mem!AtLeast, u
<1>3. Rounded(n) \in Nat /\ n <= Rounded(n) /\ MinSize <= Rounded(n) /\ Rounded(n) % Align = 0
  BY <1>1, <1>2, MemTypes DEF MemSetting
<1>4. u < Width => Mem!Size(n) = Rounded(n)
  <2>1. u < Width => u % Width = u
    BY <1>1, MemTypes
  <2> QED
    BY <1>2, <2>1 DEF Mem!Size, Mem!AtLeast, u
<1>5. ASSUME Rounded(n) <= MemSize PROVE Mem!Size(n) = Rounded(n) /\ Mem!Possible(n)
  <2>1. u < Width
    BY <1>1, <1>2, <1>5, MemTypes
  <2> QED
    BY <1>3, <1>4, <1>5, <2>1, MemTypes DEF Mem!Possible
<1>6. ASSUME n < Width, Mem!Possible(n), u >= Width PROVE FALSE
  <2>1. u - Width \in Nat /\ u - Width < Align /\ u - Width < Width
    BY <1>1, <1>6, MemTypes, AlignType
  <2>2. u % Width = u - Width
    <3>1. (u - Width) % Width = u - Width
      BY <2>1, MemTypes
    <3>2. u % Width = (u - Width) % Width
      BY <1>1, <2>1, MemTypes
    <3> QED
      BY <3>1, <3>2
  <2>3. Mem!Size(n) <= MinSize
    BY <2>1, <2>2, MemTypes, AlignType DEF Mem!Size, Mem!AtLeast, u
  <2>4. n <= Mem!Size(n)
    BY <1>6, <2>2, <2>1, MemTypes DEF Mem!Possible, Mem!Size, Mem!AtLeast, u
  <2>5. Mem!Size(n) \in Int
    BY <2>1, <2>2, MemTypes DEF Mem!Size, Mem!AtLeast, u
  <2> QED
    BY <1>1, <1>6, <2>3, <2>4, <2>5, MemTypes, AlignType
<1>7. ASSUME n < Width, Mem!Possible(n)
      PROVE  Mem!Size(n) = Rounded(n) /\ Rounded(n) <= MemSize
  <2>1. u < Width
    BY <1>1, <1>6, <1>7, MemTypes
  <2> QED
    BY <1>3, <1>4, <1>7, <2>1, MemTypes DEF Mem!Possible
<1> QED
  BY <1>3, <1>5, <1>7

-----------------------------------------------------------------------------
(* The links.                                                               *)

\* r is m with a block at q that is cut from the end of the block p.
Divided(m, r, p, q) ==
    /\ DOMAIN r = DOMAIN m \cup {q} /\ r \in [DOMAIN r -> Cells]
    /\ r[q].next = m[p].next /\ r[q].prev = p /\ ~r[q].used /\ r[p].next = q
    /\ m[p].next # MemSize => r[m[p].next].prev = q
    /\ \A c \in DOMAIN m : /\ c # p => r[c].next = m[c].next
                           /\ c # m[p].next => r[c].prev = m[c].prev
                           /\ r[c].used = m[c].used

\* r is m without the block n that follows p, which takes its bytes.
Joined(m, r, p, n) ==
    /\ DOMAIN r = DOMAIN m \ {n} /\ r \in [DOMAIN r -> Cells]
    /\ r[p].next = m[n].next
    /\ m[n].next # MemSize => r[m[n].next].prev = p
    /\ \A c \in DOMAIN r : /\ c # p => r[c].next = m[c].next
                           /\ c # m[n].next => r[c].prev = m[c].prev
                           /\ r[c].used = m[c].used

\* The addresses of the table.
LEMMA LinkedTypes ==
    ASSUME MemSetting, NEW m, Linked(m), NEW b \in DOMAIN m
    PROVE  /\ b \in 0..MemSize /\ b \in Nat /\ m[b] \in Cells
           /\ m[b].next \in Nat /\ m[b].prev \in Nat /\ m[b].used \in BOOLEAN
<1>1. b \in 0..MemSize /\ m[b] \in Cells
  BY DEF Linked
<1> QED
  BY <1>1, MemTypes DEF Cells

\* Taking a block apart keeps the links.
LEMMA DividedLinked ==
    ASSUME MemSetting, NEW m, NEW r, NEW p \in Inner(m), NEW q \in Nat, Linked(m),
           Divided(m, r, p, q), q % Align = 0,
           p + Header + MinSize <= q, q + Header + MinSize <= m[p].next
    PROVE  Linked(r)
<1> DEFINE n == m[p].next
<1>1. /\ p \in DOMAIN m /\ p # MemSize /\ n \in DOMAIN m /\ p \in Nat /\ n \in Nat
      /\ n <= MemSize /\ p < q /\ q < n
  BY LinkedTypes, MemTypes DEF Linked, Inner
<1>2. q \notin DOMAIN m
  BY <1>1 DEF Linked
<1>3. DOMAIN r = DOMAIN m \cup {q}
  BY DEF Divided
<1>4. \A c \in DOMAIN m : c \in 0..MemSize /\ c \in Nat
  BY LinkedTypes
<1>5. DOMAIN r \subseteq 0..MemSize /\ 0 \in DOMAIN r /\ MemSize \in DOMAIN r
  BY <1>1, <1>3, MemTypes DEF Linked
<1>6. r[MemSize].used /\ r[0].prev = 0
  BY <1>1, MemTypes DEF Divided, Linked
<1>7. Inner(r) = Inner(m) \cup {q}
  BY <1>1, <1>3, MemTypes DEF Inner
<1>8. ASSUME NEW b \in Inner(r)
      PROVE  b % Align = 0 /\ r[b].next \in DOMAIN r /\ b + Header + MinSize <= r[b].next
  <2>1. CASE b = q
    BY <1>1, <1>3, <2>1 DEF Divided
  <2>2. CASE b = p
    BY <1>3, <2>2, <1>1 DEF Divided, Linked, Inner
  <2>3. CASE b \in Inner(m) /\ b # p
    BY <1>3, <2>3 DEF Divided, Linked, Inner
  <2> QED
    BY <1>7, <2>1, <2>2, <2>3
<1>9. ASSUME NEW b \in Inner(r), NEW c \in DOMAIN r
      PROVE  c <= b \/ r[b].next <= c
  <2>1. \A x \in Inner(m), y \in DOMAIN m : y <= x \/ m[x].next <= y
    BY DEF Linked
  <2>2. \A x \in Inner(m) : x \in DOMAIN m /\ x \in Nat /\ m[x].next \in Nat
    BY LinkedTypes DEF Inner
  <2>3. c \in DOMAIN m \/ c = q
    BY <1>3
  <2>4. CASE b = q
    <3>1. r[b].next = n
      BY <2>4 DEF Divided
    <3> QED
      BY <1>1, <1>4, <2>1, <2>3, <2>4, <3>1
  <2>5. CASE b = p
    <3>1. r[b].next = q
      BY <2>5 DEF Divided
    <3> QED
      BY <1>1, <1>4, <2>1, <2>3, <2>5, <3>1
  <2>6. CASE b \in Inner(m) /\ b # p
    <3>1. r[b].next = m[b].next
      BY <2>2, <2>6 DEF Divided
    <3>2. CASE c \in DOMAIN m
      BY <2>1, <2>6, <3>1, <3>2
    <3>3. CASE c = q
      <4>1. b <= p \/ n <= b
        BY <1>1, <2>1, <2>2, <2>6
      <4>2. p <= b \/ m[b].next <= p
        BY <1>1, <2>1, <2>6
      <4> QED
        BY <1>1, <2>2, <2>6, <3>1, <3>3, <4>1, <4>2
    <3> QED
      BY <2>3, <3>2, <3>3
  <2> QED
    BY <1>7, <2>4, <2>5, <2>6
<1>10. ASSUME NEW b \in Inner(r), r[b].next # MemSize PROVE r[r[b].next].prev = b
  <2>1. CASE b = q
    BY <1>10, <2>1 DEF Divided
  <2>2. CASE b = p
    BY <1>10, <2>2 DEF Divided
  <2>3. CASE b \in Inner(m) /\ b # p
    <3>1. r[b].next = m[b].next /\ m[b].next \in DOMAIN m
      BY <2>3 DEF Divided, Inner, Linked
    <3>2. m[m[b].next].prev = b
      BY <1>10, <2>3, <3>1 DEF Linked
    <3>3. m[b].next # n
      <4>1. n # MemSize => m[n].prev = p
        BY DEF Linked
      <4> QED
        BY <1>10, <2>3, <3>1, <3>2, <4>1
    <3> QED
      BY <3>1, <3>2, <3>3 DEF Divided
  <2> QED
    BY <1>7, <2>1, <2>2, <2>3
<1>11. ASSUME NEW b \in Inner(r), b # 0
       PROVE  r[b].prev \in Inner(r) /\ r[r[b].prev].next = b
  <2>1. CASE b = q
    BY <1>7, <2>1 DEF Divided
  <2>2. CASE b = n
    <3>1. r[b].prev = q /\ n # MemSize
      BY <2>2, <1>11, <1>5 DEF Divided, Inner
    <3>2. r[q].next = n
      BY DEF Divided
    <3> QED
      BY <1>7, <2>2, <3>1, <3>2
  <2>3. CASE b \in Inner(m) /\ b # n
    <3>1. r[b].prev = m[b].prev /\ m[b].prev \in Inner(m) /\ m[m[b].prev].next = b
      BY <1>11, <2>3 DEF Divided, Linked, Inner
    <3>2. m[b].prev # p
      BY <2>3, <3>1
    <3>3. r[m[b].prev].next = b
      BY <3>1, <3>2 DEF Divided, Inner
    <3> QED
      BY <1>7, <3>1, <3>3
  <2> QED
    BY <1>7, <2>1, <2>2, <2>3
<1> QED
  BY <1>5, <1>6, <1>8, <1>9, <1>10, <1>11 DEF Linked, Divided

\* Joining two neighbours keeps the links.
LEMMA JoinedLinked ==
    ASSUME MemSetting, NEW m, NEW r, NEW p \in Inner(m), NEW n \in Inner(m), Linked(m),
           m[p].next = n, Joined(m, r, p, n)
    PROVE  Linked(r)
<1> DEFINE e == m[n].next
<1>1. /\ p \in DOMAIN m /\ p # MemSize /\ n \in DOMAIN m /\ n # MemSize /\ e \in DOMAIN m
      /\ p \in Nat /\ n \in Nat /\ e \in Nat /\ p < n /\ n < e /\ n # 0
      /\ p + Header + MinSize <= n /\ n + Header + MinSize <= e
  BY LinkedTypes, MemTypes DEF Linked, Inner
<1>2. DOMAIN r = DOMAIN m \ {n}
  BY DEF Joined
<1>3. \A c \in DOMAIN m : c \in 0..MemSize /\ c \in Nat
  BY LinkedTypes
<1>4. DOMAIN r \subseteq 0..MemSize /\ 0 \in DOMAIN r /\ MemSize \in DOMAIN r
  BY <1>1, <1>2, MemTypes DEF Linked
<1>5. r[MemSize].used /\ r[0].prev = 0
  BY <1>1, <1>4, MemTypes DEF Joined, Linked
<1>6. Inner(r) = Inner(m) \ {n}
  BY <1>1, <1>2 DEF Inner
<1>7. \A x \in Inner(m) : x # p => m[x].next # n
  <2>1. m[n].prev = p
    BY <1>1 DEF Linked
  <2>2. \A x \in Inner(m) : m[x].next # MemSize => m[m[x].next].prev = x
    BY DEF Linked
  <2> QED
    BY <1>1, <2>1, <2>2
<1>8. ASSUME NEW b \in Inner(r)
      PROVE  b % Align = 0 /\ r[b].next \in DOMAIN r /\ b + Header + MinSize <= r[b].next
  <2>1. CASE b = p
    BY <1>1, <1>2, <2>1, MemTypes DEF Joined, Linked
  <2>2. CASE b \in Inner(m) /\ b # p /\ b # n
    <3>1. b \in DOMAIN r /\ r[b].next = m[b].next
      BY <1>2, <2>2 DEF Joined, Inner
    <3> QED
      BY <1>2, <1>7, <2>2, <3>1 DEF Linked
  <2> QED
    BY <1>6, <2>1, <2>2
<1>9. ASSUME NEW b \in Inner(r), NEW c \in DOMAIN r
      PROVE  c <= b \/ r[b].next <= c
  <2>1. \A x \in Inner(m), y \in DOMAIN m : y <= x \/ m[x].next <= y
    BY DEF Linked
  <2>2. c \in DOMAIN m /\ c # n /\ c \in Nat
    BY <1>2, <1>3
  <2>3. CASE b = p
    <3>1. r[b].next = e
      BY <2>3 DEF Joined
    <3>2. c <= p \/ n <= c
      BY <2>1, <2>2
    <3>3. c <= n \/ e <= c
      BY <2>1, <2>2
    <3> QED
      BY <1>1, <2>2, <2>3, <3>1, <3>2, <3>3
  <2>4. CASE b \in Inner(m) /\ b # p /\ b # n
    <3>1. b \in DOMAIN r /\ r[b].next = m[b].next
      BY <1>2, <2>4 DEF Joined, Inner
    <3> QED
      BY <2>1, <2>2, <2>4, <3>1
  <2> QED
    BY <1>6, <2>3, <2>4
<1>10. ASSUME NEW b \in Inner(r), r[b].next # MemSize PROVE r[r[b].next].prev = b
  <2>1. CASE b = p
    BY <1>10, <2>1 DEF Joined
  <2>2. CASE b \in Inner(m) /\ b # p /\ b # n
    <3>1. b \in DOMAIN r /\ r[b].next = m[b].next /\ m[b].next \in DOMAIN m /\ m[b].next # n
      BY <1>2, <1>7, <2>2 DEF Joined, Inner, Linked
    <3>2. m[m[b].next].prev = b
      BY <1>10, <2>2, <3>1 DEF Linked
    <3>3. m[b].next # e
      <4>1. e # MemSize => m[e].prev = n
        BY DEF Linked
      <4> QED
        BY <1>10, <2>2, <3>1, <3>2, <4>1
    <3> QED
      BY <1>2, <3>1, <3>2, <3>3 DEF Joined
  <2> QED
    BY <1>6, <2>1, <2>2
<1>11. ASSUME NEW b \in Inner(r), b # 0
       PROVE  r[b].prev \in Inner(r) /\ r[r[b].prev].next = b
  <2>1. b \in Inner(m) /\ b # n /\ b \in DOMAIN r /\ b # MemSize
    BY <1>6 DEF Inner
  <2>2. CASE b = e
    <3>1. r[b].prev = p /\ r[p].next = e
      BY <2>1, <2>2 DEF Joined
    <3>2. p \in Inner(r)
      BY <1>1, <1>6
    <3> QED
      BY <2>2, <3>1, <3>2
  <2>3. CASE b # e
    <3>1. r[b].prev = m[b].prev /\ m[b].prev \in Inner(m) /\ m[m[b].prev].next = b
      BY <1>11, <2>1, <2>3 DEF Joined, Linked
    <3>2. m[b].prev # p /\ m[b].prev # n
      BY <2>1, <2>3, <3>1
    <3>3. m[b].prev \in Inner(r) /\ m[b].prev \in DOMAIN r
      BY <1>6, <3>1, <3>2 DEF Inner
    <3>4. r[m[b].prev].next = b
      BY <3>1, <3>2, <3>3 DEF Joined
    <3> QED
      BY <3>1, <3>3, <3>4
  <2> QED
    BY <2>2, <2>3
<1> QED
  BY <1>4, <1>5, <1>8, <1>9, <1>10, <1>11 DEF Linked, Joined

\* Setting a flag keeps the links.
LEMMA FlagLinked ==
    ASSUME MemSetting, NEW m, NEW b \in Inner(m), NEW u \in BOOLEAN, Linked(m)
    PROVE  Linked([m EXCEPT ![b].used = u])
<1> DEFINE r == [m EXCEPT ![b].used = u]
<1>1. DOMAIN r = DOMAIN m /\ Inner(r) = Inner(m)
  BY DEF Inner
<1>2. \A c \in DOMAIN m : r[c].next = m[c].next /\ r[c].prev = m[c].prev /\ r[c] \in Cells
  BY DEF Linked, Cells
<1>3. r[MemSize].used
  BY DEF Inner, Linked
<1> HIDE DEF r
<1>4. r \in [DOMAIN r -> Cells]
  <2>1. r = [c \in DOMAIN m |-> r[c]]
    BY DEF r, Linked
  <2> QED
    BY <1>1, <1>2, <2>1
<1>5. \A c \in Inner(m) : c \in DOMAIN m /\ m[c].next \in DOMAIN m
                         /\ (c # 0 => m[c].prev \in DOMAIN m)
  BY DEF Linked, Inner
<1>6. 0 \in DOMAIN m
  BY DEF Linked
<1> QED
  BY <1>1, <1>2, <1>3, <1>4, <1>5, <1>6 DEF Linked, r

\* The block that mem_malloc and mem_trim cut from the end of another.
LEMMA DivideDivides ==
    ASSUME MemSetting, Linked(mem), NEW p \in Inner(mem), NEW size \in Nat,
           p + Header + size < mem[p].next
    PROVE  Divided(mem, Mem!Divide(p, size), p, p + Header + size)
<1> DEFINE q == p + Header + size
           n == mem[p].next
           new == [next |-> n, prev |-> p, used |-> FALSE]
           s == Mem!Put(mem, q, new)
           t == [s EXCEPT ![p].next = q]
           r == Mem!Back(t, n, q)
<1>1. /\ p \in DOMAIN mem /\ p \in Nat /\ n \in DOMAIN mem /\ n \in Nat /\ n <= MemSize /\ p < q
      /\ q < n /\ p <= MemSize /\ q \in 0..MemSize /\ p # n
  BY LinkedTypes, MemTypes DEF Linked, Inner
<1>2. q \notin DOMAIN mem
  BY <1>1 DEF Linked
<1>3. Mem!Divide(p, size) = r
  BY DEF Mem!Divide
<1> HIDE DEF q, n
<1>4. \A c \in DOMAIN mem : mem[c] \in Cells
  BY DEF Linked
<1>5. new \in Cells
  BY <1>1, MemTypes DEF Cells
<1>6. DOMAIN s = DOMAIN mem \cup {q} /\ s[q] = new /\ (\A c \in DOMAIN mem : s[c] = mem[c])
  BY <1>2 DEF Mem!Put
<1> HIDE DEF s
<1>7. /\ DOMAIN t = DOMAIN s /\ t[p] = [mem[p] EXCEPT !.next = q] /\ t[q] = new
      /\ \A c \in DOMAIN mem : c # p => t[c] = mem[c]
      /\ t = [c \in DOMAIN s |-> t[c]]
  BY <1>1, <1>2, <1>6
<1> HIDE DEF t
<1>8. t[p] \in Cells /\ t[p].next = q /\ t[p].prev = mem[p].prev /\ t[p].used = mem[p].used
  BY <1>1, <1>4, <1>7 DEF Cells
<1>9. CASE n = MemSize
  <2>1. r = t
    BY <1>9 DEF Mem!Back
  <2>2. \A c \in DOMAIN r : r[c] \in Cells
    BY <1>4, <1>5, <1>6, <1>7, <1>8, <2>1
  <2>3. r \in [DOMAIN r -> Cells]
    BY <1>7, <2>1, <2>2
  <2> HIDE DEF r, new
  <2>4. /\ DOMAIN r = DOMAIN mem \cup {q} /\ r[q] = new /\ r[p].next = q
        /\ r[p].prev = mem[p].prev /\ r[p].used = mem[p].used
        /\ \A c \in DOMAIN mem : c # p => r[c] = mem[c]
    BY <1>6, <1>7, <1>8, <2>1
  <2>5. \A c \in DOMAIN mem : /\ c # p => r[c].next = mem[c].next
                              /\ r[c].prev = mem[c].prev
                              /\ r[c].used = mem[c].used
    BY <2>4
  <2>6. Divided(mem, r, p, q)
    BY <1>9, <2>3, <2>4, <2>5 DEF Divided, n, new
  <2> QED
    BY <1>3, <2>6 DEF q
<1>10. CASE n # MemSize
  <2>1. r = [t EXCEPT ![n].prev = q]
    BY <1>10 DEF Mem!Back
  <2>2. /\ DOMAIN r = DOMAIN t /\ r[n] = [mem[n] EXCEPT !.prev = q] /\ r[p] = t[p] /\ r[q] = new
        /\ \A c \in DOMAIN mem : c # p /\ c # n => r[c] = mem[c]
        /\ r = [c \in DOMAIN t |-> r[c]]
    BY <1>1, <1>2, <1>6, <1>7, <2>1
  <2>3. /\ r[n] \in Cells /\ r[n].prev = q /\ r[n].next = mem[n].next
        /\ r[n].used = mem[n].used
    BY <1>1, <1>4, <2>2 DEF Cells
  <2>4. \A c \in DOMAIN r : r[c] \in Cells
    BY <1>4, <1>5, <1>6, <1>7, <1>8, <2>2, <2>3
  <2> HIDE DEF r, new
  <2>5. r \in [DOMAIN r -> Cells]
    BY <2>2, <2>4
  <2>6. /\ DOMAIN r = DOMAIN mem \cup {q} /\ r[p].next = q
        /\ r[p].prev = mem[p].prev /\ r[p].used = mem[p].used
    BY <1>6, <1>7, <1>8, <2>2
  <2>7. ASSUME NEW c \in DOMAIN mem
        PROVE  /\ c # p => r[c].next = mem[c].next
               /\ c # n => r[c].prev = mem[c].prev
               /\ r[c].used = mem[c].used
    <3>1. c = p \/ c = n \/ (c # p /\ c # n)
      OBVIOUS
    <3> QED
      BY <1>1, <2>2, <2>3, <2>6, <3>1
  <2>8. Divided(mem, r, p, q)
    BY <2>2, <2>3, <2>5, <2>6, <2>7 DEF Divided, n, new
  <2> QED
    BY <1>3, <2>8 DEF q
<1> QED
  BY <1>9, <1>10

\* The block behind p taken out of the table.
Join(m, p, n) ==
    Mem!Drop(Mem!Back([m EXCEPT ![p].next = m[n].next], m[n].next, p), n)

\* Two neighbours become one block, which keeps the links of the others
\* (the two halves of plug_holes, mem.c:461-500).
LEMMA JoinJoins ==
    ASSUME MemSetting, NEW m, Linked(m), NEW p \in Inner(m), NEW n \in Inner(m),
           m[p].next = n
    PROVE  Joined(m, Join(m, p, n), p, n)
<1> DEFINE e == m[n].next
           t == [m EXCEPT ![p].next = e]
           b == Mem!Back(t, e, p)
           r == Mem!Drop(b, n)
<1>1. /\ p \in DOMAIN m /\ n \in DOMAIN m /\ e \in DOMAIN m /\ p \in Nat /\ n \in Nat
      /\ e \in Nat /\ p < n /\ n < e /\ p \in 0..MemSize /\ e \in 0..MemSize
  BY LinkedTypes, MemTypes DEF Linked, Inner
<1>2. Join(m, p, n) = r
  BY DEF Join
<1> HIDE DEF e
<1>3. \A c \in DOMAIN m : m[c] \in Cells
  BY DEF Linked
<1>4. /\ DOMAIN t = DOMAIN m /\ t[p] = [m[p] EXCEPT !.next = e]
      /\ \A c \in DOMAIN m : c # p => t[c] = m[c]
  BY <1>1
<1> HIDE DEF t
<1>5. t[p] \in Cells /\ t[p].next = e /\ t[p].prev = m[p].prev /\ t[p].used = m[p].used
  BY <1>1, <1>3, <1>4 DEF Cells
<1>6. /\ DOMAIN b = DOMAIN m
      /\ \A c \in DOMAIN m : c # e \/ e = MemSize => b[c] = t[c]
      /\ e # MemSize => b[e] = [m[e] EXCEPT !.prev = p]
  BY <1>1, <1>4 DEF Mem!Back
<1> HIDE DEF b
<1>7. e # MemSize => b[e] \in Cells /\ b[e].prev = p /\ b[e].next = m[e].next
                     /\ b[e].used = m[e].used
  BY <1>1, <1>3, <1>6, MemTypes DEF Cells
<1>8. \A c \in DOMAIN m : b[c] \in Cells
  BY <1>3, <1>4, <1>5, <1>6, <1>7
<1>9. DOMAIN r = DOMAIN m \ {n} /\ (\A c \in DOMAIN r : r[c] = b[c])
      /\ r = [c \in DOMAIN m \ {n} |-> b[c]]
  BY <1>6 DEF Mem!Drop
<1> HIDE DEF r
<1>10. r \in [DOMAIN r -> Cells]
  BY <1>8, <1>9
<1>11. ASSUME NEW c \in DOMAIN m, c # n
       PROVE  /\ c # p => r[c].next = m[c].next
              /\ c # e => r[c].prev = m[c].prev
              /\ r[c].used = m[c].used
  <2>1. c \in DOMAIN r /\ r[c] = b[c]
    BY <1>9, <1>11
  <2>2. CASE c = p
    BY <1>1, <1>5, <1>6, <2>1, <2>2
  <2>3. CASE c # p /\ c # e
    BY <1>4, <1>6, <2>1, <2>3
  <2>4. CASE c # p /\ c = e /\ e = MemSize
    BY <1>4, <1>6, <2>1, <2>4
  <2>5. CASE c # p /\ c = e /\ e # MemSize
    BY <1>7, <2>1, <2>5
  <2> QED
    BY <2>2, <2>3, <2>4, <2>5
<1>12. r[p].next = e /\ (e # MemSize => r[e].prev = p)
  <2>1. p \in DOMAIN r /\ e \in DOMAIN r /\ p # e
    BY <1>1, <1>9
  <2> QED
    BY <1>5, <1>6, <1>7, <1>9, <2>1
<1>13. Joined(m, r, p, n)
  BY <1>9, <1>10, <1>11, <1>12 DEF Joined, e
<1> QED
  BY <1>2, <1>13

\* Joining two free neighbours leaves the blocks in use, and the start of the search,
\* where they are.
LEMMA JoinFree ==
    ASSUME MemSetting, NEW m, Linked(m), NEW p \in Inner(m), NEW n \in Inner(m),
           m[p].next = n, ~m[p].used, ~m[n].used, NEW f, StartsAt(m, f)
    PROVE  LET r == Join(m, p, n)
           IN  /\ Linked(r) /\ StartsAt(r, f) /\ f # n /\ p \in Inner(r)
               /\ Inner(r) = Inner(m) \ {n} /\ r[p].next = m[n].next
               /\ \A c \in Inner(r) : (c # p => r[c].next = m[c].next) /\ r[c].used = m[c].used
               /\ r[MemSize].used
<1> DEFINE r == Join(m, p, n)
<1>1. Joined(m, r, p, n)
  BY JoinJoins
<1> HIDE DEF r
<1>2. Linked(r)
  BY <1>1, JoinedLinked
<1>3. /\ p \in DOMAIN m /\ n \in DOMAIN m /\ p \in Nat /\ n \in Nat /\ p < n /\ f \in Nat
      /\ f <= p
  BY LinkedTypes, MemTypes DEF Linked, Inner, StartsAt
<1>4. Inner(r) = Inner(m) \ {n} /\ DOMAIN r = DOMAIN m \ {n}
  BY <1>1 DEF Joined, Inner
<1>5. /\ \A c \in DOMAIN r : (c # p => r[c].next = m[c].next) /\ r[c].used = m[c].used
      /\ r[p].next = m[n].next
  BY <1>1 DEF Joined
<1>6. StartsAt(r, f)
  BY <1>3, <1>4, <1>5 DEF StartsAt, Inner
<1>7. r[MemSize].used
  BY <1>2 DEF Linked
<1> QED
  BY <1>2, <1>3, <1>4, <1>5, <1>6, <1>7 DEF Inner, r

-----------------------------------------------------------------------------
(* mem_free.                                                                *)

\* The blocks in use are the same.
SameUse(m, r) ==
    /\ \A x \in Inner(m) : m[x].used => x \in Inner(r) /\ r[x].used /\ r[x].next = m[x].next
    /\ \A x \in Inner(r) : r[x].used => x \in Inner(m) /\ m[x].used

\* No two free blocks stand next to each other, but for the second of them being b.
PluggedBut(m, b) == \A x \in Inner(m) : ~m[x].used /\ m[x].next # b => m[m[x].next].used

\* Its checks never refuse a pointer that mem_malloc handed out.
LEMMA HeldLegal ==
    ASSUME MemSetting, MemIInv, NEW p \in DOMAIN memHeld
    PROVE  Mem!Legal(p)
<1> DEFINE b == p - Header
<1>1. b \in Inner(mem) /\ mem[b].used
  BY DEF MemIInv, Served
<1>2. /\ b \in DOMAIN mem /\ b # MemSize /\ b \in Nat /\ mem[b].next \in Nat
      /\ mem[b].next <= MemSize /\ b % Align = 0 /\ b + Header + MinSize <= mem[b].next
  BY <1>1, LinkedTypes, MemTypes DEF MemIInv, Linked, Inner
<1>3. p \in Int
  BY MemTypes DEF MemIInv
<1>4. p = b + Header
  BY <1>3, MemTypes
<1> HIDE DEF b
<1>5. p % Align = 0
  BY <1>2, <1>4, AlignedSum, MemTypes DEF MemSetting
<1>6. p >= Header /\ p + MinSize <= MemSize
  BY <1>2, <1>4, MemTypes
<1>7. Mem!LinkValid(b)
  BY <1>1 DEF MemIInv, Linked, Mem!LinkValid
<1> QED
  BY <1>1, <1>4, <1>5, <1>6, <1>7 DEF Mem!Legal, b

\* Joining with the block behind: the block b may still follow a free one.
LEMMA ForwardJoins ==
    ASSUME MemSetting, NEW m, NEW f, NEW b \in Inner(m), Linked(m), StartsAt(m, f), ~m[b].used,
           \A x \in Inner(m) : ~m[x].used /\ m[x].next # b /\ x # b => m[m[x].next].used
    PROVE  LET h == Mem!Forward([mem |-> m, lfree |-> f], b)
           IN  /\ Linked(h.mem) /\ StartsAt(h.mem, h.lfree) /\ PluggedBut(h.mem, b)
               /\ b \in Inner(h.mem) /\ ~h.mem[b].used /\ SameUse(m, h.mem)
<1> DEFINE n == m[b].next
           h == Mem!Forward([mem |-> m, lfree |-> f], b)
<1> SUFFICES /\ Linked(h.mem) /\ StartsAt(h.mem, h.lfree) /\ PluggedBut(h.mem, b)
             /\ b \in Inner(h.mem) /\ ~h.mem[b].used /\ SameUse(m, h.mem)
  OBVIOUS
<1>1. b \in DOMAIN m /\ n \in DOMAIN m /\ b \in Nat /\ n \in Nat /\ b < n /\ b # MemSize
  BY LinkedTypes, MemTypes DEF Linked, Inner
<1>2. CASE m[n].used \/ n = MemSize
  <2>1. h = [mem |-> m, lfree |-> f]
    BY <1>2 DEF Mem!Forward
  <2>2. h.mem = m /\ h.lfree = f /\ m[n].used
    BY <1>2, <2>1 DEF Linked
  <2> HIDE DEF h
  <2>3. PluggedBut(m, b)
    BY <2>2 DEF PluggedBut
  <2>4. SameUse(m, m)
    BY DEF SameUse
  <2> QED
    BY <2>2, <2>3, <2>4
<1>3. CASE ~m[n].used /\ n # MemSize
  <2> DEFINE r == Join(m, b, n)
  <2>1. n \in Inner(m)
    BY <1>1, <1>3 DEF Inner
  <2>2. /\ Linked(r) /\ StartsAt(r, f) /\ f # n /\ b \in Inner(r)
        /\ Inner(r) = Inner(m) \ {n} /\ r[b].next = m[n].next
        /\ \A c \in Inner(r) : (c # b => r[c].next = m[c].next) /\ r[c].used = m[c].used
        /\ r[MemSize].used
    BY <1>3, <2>1, JoinFree
  <2>3. h.mem = r /\ h.lfree = f
    BY <1>1, <1>3, <2>2 DEF Mem!Forward, Join
  <2> HIDE DEF h, r
  <2>4. ASSUME NEW x \in Inner(r), ~r[x].used, r[x].next # b PROVE r[r[x].next].used
    <3>1. r[x].next \in Inner(r) \/ r[x].next = MemSize
      BY <2>2 DEF Linked, Inner
    <3>2. CASE r[x].next = MemSize
      BY <2>2, <3>2
    <3>3. CASE r[x].next \in Inner(r) /\ x # b
      <4>1. x \in Inner(m) /\ ~m[x].used /\ m[x].next = r[x].next
        BY <2>2, <2>4, <3>3
      <4>2. m[m[x].next].used
        BY <2>4, <3>3, <4>1
      <4> QED
        BY <2>2, <3>3, <4>1, <4>2
    <3>4. CASE r[x].next \in Inner(r) /\ x = b
      <4>1. r[x].next = m[n].next /\ n # b
        BY <1>1, <2>2, <3>4
      <4>2. m[n].next # b
        BY <1>1, <2>1, LinkedTypes, MemTypes DEF Linked, Inner
      <4>3. m[m[n].next].used
        BY <1>3, <2>1, <4>1, <4>2
      <4> QED
        BY <2>2, <3>4, <4>1, <4>3
    <3> QED
      BY <3>1, <3>2, <3>3, <3>4
  <2>5. ASSUME NEW x \in Inner(m), m[x].used
        PROVE  x \in Inner(r) /\ r[x].used /\ r[x].next = m[x].next
    BY <1>3, <2>2, <2>5
  <2>6. ASSUME NEW x \in Inner(r), r[x].used PROVE x \in Inner(m) /\ m[x].used
    BY <2>2, <2>6
  <2>7. ~r[b].used
    BY <2>2
  <2>8. PluggedBut(r, b) /\ SameUse(m, r)
    BY <2>4, <2>5, <2>6 DEF PluggedBut, SameUse
  <2> QED
    BY <2>2, <2>3, <2>7, <2>8
<1> QED
  BY <1>2, <1>3

\* Joining with the block in front leaves no two free blocks next to each other.
LEMMA BackwardJoins ==
    ASSUME MemSetting, NEW g, NEW b \in Inner(g.mem), Linked(g.mem), StartsAt(g.mem, g.lfree),
           ~g.mem[b].used, PluggedBut(g.mem, b)
    PROVE  LET h == Mem!Backward(g, b)
           IN  /\ Linked(h.mem) /\ StartsAt(h.mem, h.lfree) /\ Plugged(h.mem)
               /\ SameUse(g.mem, h.mem)
<1> DEFINE m == g.mem
           p == m[b].prev
           h == Mem!Backward(g, b)
<1> SUFFICES /\ Linked(h.mem) /\ StartsAt(h.mem, h.lfree) /\ Plugged(h.mem)
             /\ SameUse(g.mem, h.mem)
  OBVIOUS
<1>1. b \in DOMAIN m /\ b \in Nat /\ b # MemSize /\ m[b].next \in Nat /\ b < m[b].next
  BY LinkedTypes, MemTypes DEF Linked, Inner
<1>2. CASE p = b \/ m[p].used
  <2>1. h = g
    BY <1>2 DEF Mem!Backward
  <2>2. \A x \in Inner(m) : m[x].next = b => m[x].used
    <3> SUFFICES ASSUME NEW x \in Inner(m), m[x].next = b PROVE m[x].used
      OBVIOUS
    <3>1. m[b].prev = x
      BY <1>1 DEF Linked
    <3>2. x # b
      BY <1>1
    <3> QED
      BY <1>2, <3>1, <3>2
  <2>3. Plugged(m)
    BY <2>2 DEF Plugged, PluggedBut
  <2>4. SameUse(m, m)
    BY DEF SameUse
  <2> QED
    BY <2>1, <2>3, <2>4
<1>3. CASE p # b /\ ~m[p].used
  <2> DEFINE r == Join(m, p, b)
  <2>1. b # 0
    BY <1>3 DEF Linked
  <2>2. p \in Inner(m) /\ m[p].next = b
    BY <2>1 DEF Linked
  <2>3. /\ Linked(r) /\ StartsAt(r, g.lfree) /\ g.lfree # b /\ p \in Inner(r)
        /\ Inner(r) = Inner(m) \ {b} /\ r[p].next = m[b].next
        /\ \A c \in Inner(r) : (c # p => r[c].next = m[c].next) /\ r[c].used = m[c].used
        /\ r[MemSize].used
    BY <1>3, <2>2, JoinFree
  <2>4. h.mem = r /\ h.lfree = g.lfree
    BY <1>3, <2>3 DEF Mem!Backward, Join
  <2> HIDE DEF h, r
  <2>5. ASSUME NEW x \in Inner(r), ~r[x].used PROVE r[r[x].next].used
    <3>1. r[x].next \in Inner(r) \/ r[x].next = MemSize
      BY <2>3 DEF Linked, Inner
    <3>2. CASE r[x].next = MemSize
      BY <2>3, <3>2
    <3>3. CASE r[x].next \in Inner(r) /\ x # p
      <4>1. x \in Inner(m) /\ ~m[x].used /\ m[x].next = r[x].next /\ r[x].next # b
        BY <2>3, <2>5, <3>3
      <4>2. m[m[x].next].used
        BY <4>1 DEF PluggedBut
      <4> QED
        BY <2>3, <3>3, <4>1, <4>2
    <3>4. CASE r[x].next \in Inner(r) /\ x = p
      <4>1. r[x].next = m[b].next
        BY <2>3, <3>4
      <4>2. m[b].next # b
        BY <1>1
      <4>3. m[m[b].next].used
        BY <4>2 DEF PluggedBut
      <4> QED
        BY <2>3, <3>4, <4>1, <4>3
    <3> QED
      BY <3>1, <3>2, <3>3, <3>4
  <2>6. ASSUME NEW x \in Inner(m), m[x].used
        PROVE  x \in Inner(r) /\ r[x].used /\ r[x].next = m[x].next
    BY <1>3, <2>3, <2>6
  <2>7. ASSUME NEW x \in Inner(r), r[x].used PROVE x \in Inner(m) /\ m[x].used
    BY <2>3, <2>7
  <2>8. Plugged(r) /\ SameUse(m, r)
    BY <2>5, <2>6, <2>7 DEF Plugged, SameUse
  <2> QED
    BY <2>3, <2>4, <2>8
<1> QED
  BY <1>2, <1>3

\* mem_free marks the block and joins it with its free neighbours (mem.c:604-670).
LEMMA MemFreeKeeps ==
    ASSUME MemSetting, MemIInv, NEW p \in DOMAIN memHeld, Mem!Free(p) PROVE MemIInv'
<1> DEFINE b == p - Header
           m == [mem EXCEPT ![b].used = FALSE]
           f == IF b < lfree THEN b ELSE lfree
           g == Mem!Forward([mem |-> m, lfree |-> f], b)
           h == Mem!Backward(g, b)
           left == Mem!Drop(memHeld, p)
<1>1. memHeld' = left /\ memNull' = 0 /\ mem' = h.mem /\ lfree' = h.lfree
  BY HeldLegal DEF Mem!Free, Mem!PlugHoles
<1>2. b \in Inner(mem) /\ mem[b].used /\ b \in DOMAIN mem /\ b \in Nat
  BY LinkedTypes DEF MemIInv, Served, Inner
<1>3. p \in Int /\ p = b + Header
  BY MemTypes DEF MemIInv
<1> HIDE DEF b
<1>4. /\ DOMAIN m = DOMAIN mem /\ Inner(m) = Inner(mem) /\ ~m[b].used
      /\ \A c \in DOMAIN mem : m[c].next = mem[c].next /\ (c # b => m[c].used = mem[c].used)
  <2>1. \A c \in DOMAIN mem : mem[c] \in Cells
    BY DEF MemIInv, Linked
  <2>2. DOMAIN m = DOMAIN mem /\ m[b] = [mem[b] EXCEPT !.used = FALSE]
        /\ \A c \in DOMAIN mem : c # b => m[c] = mem[c]
    BY <1>2
  <2> HIDE DEF m
  <2>3. ~m[b].used /\ m[b].next = mem[b].next
    BY <1>2, <2>1, <2>2 DEF Cells
  <2> QED
    BY <2>2, <2>3 DEF Inner
<1>5. Linked(m)
  BY <1>2, FlagLinked DEF MemIInv
<1> HIDE DEF m
<1>6. StartsAt(m, f)
  <2>1. lfree \in DOMAIN mem /\ lfree \in Nat
    BY LinkedTypes DEF MemIInv, StartsAt
  <2>2. \A c \in Inner(mem) : c \in DOMAIN mem /\ c \in Nat
    BY LinkedTypes DEF MemIInv, Inner
  <2> QED
    BY <1>2, <1>4, <2>1, <2>2 DEF MemIInv, StartsAt
<1>7. \A x \in Inner(m) : ~m[x].used /\ m[x].next # b /\ x # b => m[m[x].next].used
  <2>1. \A x \in Inner(mem) : x \in DOMAIN mem /\ mem[x].next \in DOMAIN mem
    BY DEF MemIInv, Linked, Inner
  <2> QED
    BY <1>4, <2>1 DEF MemIInv, Plugged
<1> HIDE DEF f
<1>8. /\ Linked(g.mem) /\ StartsAt(g.mem, g.lfree) /\ PluggedBut(g.mem, b)
      /\ b \in Inner(g.mem) /\ ~g.mem[b].used /\ SameUse(m, g.mem)
  <2>1. b \in Inner(m)
    BY <1>2, <1>4
  <2> QED
    BY <1>4, <1>5, <1>6, <1>7, <2>1, ForwardJoins
<1> HIDE DEF g
<1>9. /\ Linked(h.mem) /\ StartsAt(h.mem, h.lfree) /\ Plugged(h.mem)
      /\ SameUse(g.mem, h.mem)
  BY <1>8, BackwardJoins
<1> HIDE DEF h
<1>10. DOMAIN left = DOMAIN memHeld \ {p} /\ \A x \in DOMAIN left : left[x] = memHeld[x]
  BY DEF Mem!Drop
<1>11. Served(h.mem, left)
  <2>1. ASSUME NEW x \in DOMAIN left
        PROVE  /\ x - Header \in Inner(h.mem) /\ h.mem[x - Header].used
               /\ left[x] # 0 /\ x + Rounded(left[x]) <= h.mem[x - Header].next
    <3>1. /\ x \in DOMAIN memHeld /\ x # p /\ left[x] = memHeld[x]
          /\ x - Header \in Inner(mem) /\ mem[x - Header].used
          /\ memHeld[x] # 0 /\ x + Rounded(memHeld[x]) <= mem[x - Header].next
      BY <1>10 DEF MemIInv, Served
    <3>2. x - Header # b
      BY <1>3, <3>1, MemTypes DEF MemIInv
    <3>3. m[x - Header].used /\ x - Header \in Inner(m)
          /\ m[x - Header].next = mem[x - Header].next
      BY <1>4, <3>1, <3>2 DEF Inner
    <3>4. x - Header \in Inner(h.mem) /\ h.mem[x - Header].used
          /\ h.mem[x - Header].next = mem[x - Header].next
      BY <1>8, <1>9, <3>3 DEF SameUse
    <3> QED
      BY <3>1, <3>4
  <2>2. ASSUME NEW x \in Inner(h.mem), h.mem[x].used PROVE x + Header \in DOMAIN left
    <3>1. x \in Inner(m) /\ m[x].used
      BY <1>8, <1>9, <2>2 DEF SameUse
    <3>2. x \in Inner(mem) /\ x # b /\ mem[x].used /\ x \in Nat
      BY <1>4, <3>1, LinkedTypes DEF Inner, MemIInv
    <3>3. x + Header \in DOMAIN memHeld
      BY <3>2 DEF MemIInv, Served
    <3>4. x + Header # p
      BY <1>2, <1>3, <3>2, MemTypes
    <3> QED
      BY <1>10, <3>3, <3>4
  <2> QED
    BY <2>1, <2>2 DEF Served
<1>12. left \in [DOMAIN left -> Wants] /\ DOMAIN left \subseteq 0..MemSize
  BY <1>10 DEF Mem!Drop, MemIInv
<1> HIDE DEF left
<1>13. Mem!RefusedOnlyWhenFull'
  BY <1>1 DEF Mem!RefusedOnlyWhenFull
<1> QED
  BY <1>1, <1>9, <1>11, <1>12, <1>13 DEF MemIInv

-----------------------------------------------------------------------------
(* mem_malloc.                                                              *)

\* The room of a block is the distance to the next one.
LEMMA RoomIs ==
    ASSUME MemSetting, Linked(mem), NEW b \in Inner(mem)
    PROVE  Mem!Room(b) = mem[b].next - (b + Header)
<1>1. /\ b \in Nat /\ mem[b].next \in Nat /\ mem[b].next <= MemSize
      /\ b + Header + MinSize <= mem[b].next
  BY LinkedTypes, MemTypes DEF Linked, Inner
<1> DEFINE d == mem[b].next - (b + Header)
<1>2. d \in Nat /\ d < Width
  BY <1>1, MemTypes
<1> HIDE DEF d
<1>3. Width <= Width * Width
  BY MemTypes
<1>4. d % (Width * Width) = d
  <2>1. Width * Width \in Nat
    BY MemTypes
  <2> DEFINE w == Width * Width
  <2>2. w \in Nat /\ d < w
    BY <1>2, <1>3, <2>1, MemTypes
  <2> HIDE DEF w
  <2>3. d % w = d
    BY <1>2, <2>2
  <2> QED
    BY <2>3 DEF w
<1> QED
  BY <1>4 DEF Mem!Room, d

\* The search ends at a free block with room, or there is none.
LEMMA FitFits ==
    ASSUME MemSetting, Linked(mem), NEW s \in Nat
    PROVE  /\ Mem!Fit(s) # MemSize => Mem!Fit(s) \in Mem!Fits(s)
           /\ Mem!Fit(s) = MemSize => Mem!Fits(s) = {}
<1>1. Mem!Fits(s) \subseteq Inner(mem)
  BY DEF Mem!Fits, Mem!Blocks, Inner
<1>2. ASSUME Mem!Fits(s) # {} PROVE Mem!Lowest(Mem!Fits(s)) \in Mem!Fits(s)
  <2>1. Mem!Fits(s) \subseteq Nat
    BY <1>1, LinkedTypes DEF Inner
  <2>2. \E x \in Mem!Fits(s) : \A y \in Mem!Fits(s) : x <= y
    BY <1>2, <2>1, LeastNat
  <2> QED
    BY <2>2, Zenon DEF Mem!Lowest
<1> QED
  BY <1>1, <1>2 DEF Mem!Fit, Inner

\* A block of r at the lowest address from p on that is free, or the end.
LEMMA NextFreeStarts ==
    ASSUME MemSetting, NEW r, Linked(r), NEW p \in DOMAIN r,
           \A b \in Inner(r) : ~r[b].used => p <= b
    PROVE  StartsAt(r, Mem!NextFree(r, p))
<1> DEFINE S == {q \in DOMAIN r : p <= q /\ (~r[q].used \/ q = MemSize)}
           f == Mem!NextFree(r, p)
<1>1. S \subseteq Nat
  BY LinkedTypes
<1>2. MemSize \in S
  BY LinkedTypes, MemTypes DEF Linked
<1>3. \E x \in S : \A y \in S : x <= y
  BY <1>1, <1>2, LeastNat
<1>4. f \in S /\ \A y \in S : f <= y
  BY <1>3, Zenon DEF Mem!NextFree, Mem!Lowest
<1> HIDE DEF f
<1>5. \A b \in Inner(r) : ~r[b].used => b \in S
  BY DEF Inner
<1> QED
  BY <1>4, <1>5 DEF StartsAt, f

\* A request that finds a block.
LEMMA MallocTakes ==
    ASSUME MemSetting, MemIInv, NEW n \in Wants, Mem!Possible(n),
           Mem!Fit(Mem!Size(n)) # MemSize, Mem!Malloc(n)
    PROVE  MemIInv'
<1> DEFINE s == Rounded(n)
           p == Mem!Fit(s)
           q == p + Header + s
           t == IF Mem!Splits(p, s) THEN Mem!Divide(p, s) ELSE mem
           r == [t EXCEPT ![p].used = TRUE]
           h == Mem!Put(memHeld, p + Header, n)
<1>1. n \in Nat /\ n # 0 /\ n < Width
  BY MemTypes DEF Mem!Possible
<1>2. Mem!Size(n) = s /\ s \in Nat /\ MinSize <= s /\ s % Align = 0
  BY <1>1, SizeFacts
<1>3. /\ mem' = r /\ lfree' = (IF p = lfree THEN Mem!NextFree(r, p) ELSE lfree)
      /\ memNull' = 0 /\ memHeld' = h
  BY <1>2, Zenon DEF Mem!Malloc, Mem!Take
<1>4. Linked(mem)
  BY DEF MemIInv
<1>5. p \in Mem!Fits(s)
  BY <1>2, <1>4, FitFits
<1> HIDE DEF s, p
<1>6. p \in Inner(mem) /\ ~mem[p].used /\ Mem!Room(p) = mem[p].next - (p + Header)
      /\ Mem!Room(p) >= s
  BY <1>4, <1>5, RoomIs DEF Mem!Fits, Mem!Blocks, Inner
<1>7. /\ p \in DOMAIN mem /\ p # MemSize /\ p \in Nat /\ mem[p].next \in Nat
      /\ mem[p].next <= MemSize
      /\ p % Align = 0 /\ p < mem[p].next /\ mem[p].next \in DOMAIN mem
  BY <1>4, <1>6, LinkedTypes, MemTypes DEF Linked, Inner
<1>8. q \in Nat /\ q % Align = 0 /\ p + Header + MinSize <= q /\ p < q
  <2>1. (p + Header) % Align = 0
    BY <1>7, AlignedSum, MemTypes DEF MemSetting
  <2>2. q % Align = 0
    BY <1>2, <1>7, <2>1, AlignedSum, MemTypes
  <2> QED
    BY <1>2, <1>7, <2>2, MemTypes
<1>9. \A c \in DOMAIN mem : c \in Nat
  BY <1>4, LinkedTypes
<1>10. /\ Linked(t) /\ p \in Inner(t) /\ q <= t[p].next
       /\ Inner(mem) \subseteq Inner(t)
       /\ \A c \in Inner(t) : \/ c \in Inner(mem)
                              \/ c = q /\ ~t[c].used /\ t[c].next = mem[p].next
       /\ \A c \in DOMAIN mem : t[c].used = mem[c].used /\ (c # p => t[c].next = mem[c].next)
  <2>1. CASE Mem!Splits(p, s)
    <3>1. q + Header + MinSize <= mem[p].next
      BY <1>2, <1>6, <1>7, <2>1, MemTypes DEF Mem!Splits
    <3>2. Divided(mem, t, p, q)
      <4>1. t = Mem!Divide(p, s)
        BY <2>1
      <4> QED
        BY <1>2, <1>4, <1>6, <1>7, <3>1, <4>1, MemTypes, DivideDivides
    <3> HIDE DEF t
    <3>3. Linked(t)
      BY <1>4, <1>6, <1>8, <3>1, <3>2, DividedLinked
    <3>4. ~mem[p].used /\ t[p].used = mem[p].used
      BY <1>6, <3>2, <3>3, <1>7 DEF Divided
    <3> QED
      BY <1>6, <1>7, <1>8, <3>1, <3>2, <3>3, MemTypes DEF Divided, Inner
  <2>2. CASE ~Mem!Splits(p, s)
    <3>1. t = mem
      BY <2>2
    <3>2. q <= mem[p].next
      BY <1>2, <1>6, <1>7, MemTypes
    <3> HIDE DEF t
    <3> QED
      BY <1>4, <1>6, <3>1, <3>2
  <2> QED
    BY <2>1, <2>2
<1> HIDE DEF t, q
<1>11. Linked(r)
  BY <1>10, FlagLinked
<1>12. /\ Inner(r) = Inner(t) /\ DOMAIN r = DOMAIN t /\ r[p].used
       /\ \A c \in DOMAIN t : r[c].next = t[c].next /\ (c # p => r[c].used = t[c].used)
  <2>1. \A c \in DOMAIN t : t[c] \in Cells
    BY <1>10 DEF Linked
  <2>2. DOMAIN r = DOMAIN t /\ r[p] = [t[p] EXCEPT !.used = TRUE]
        /\ \A c \in DOMAIN t : c # p => r[c] = t[c]
    BY <1>10 DEF Inner
  <2> HIDE DEF r
  <2>3. r[p].used /\ r[p].next = t[p].next
    BY <1>10, <2>1, <2>2 DEF Cells, Inner
  <2> QED
    BY <2>2, <2>3 DEF Inner
<1> HIDE DEF r
<1>13. Plugged(r)
  <2> SUFFICES ASSUME NEW b \in Inner(r), ~r[b].used PROVE r[r[b].next].used
    BY DEF Plugged
  <2>1. b # p /\ b \in DOMAIN t
    BY <1>12 DEF Inner
  <2>2. CASE b \in Inner(mem)
    <3>1. b \in DOMAIN mem /\ ~mem[b].used /\ mem[b].next \in DOMAIN mem
      BY <1>4, <1>10, <1>12, <2>1, <2>2 DEF Linked, Inner
    <3>2. mem[mem[b].next].used
      BY <2>2, <3>1 DEF MemIInv, Plugged
    <3>3. r[b].next = mem[b].next
      BY <1>10, <1>12, <2>1, <3>1
    <3>4. mem[b].next \in DOMAIN t
      BY <1>10, <1>4, <3>1 DEF Inner, Linked
    <3> QED
      BY <1>6, <1>10, <1>12, <3>1, <3>2, <3>3, <3>4
  <2>3. CASE b = q /\ r[b].next = mem[p].next
    <3>1. mem[mem[p].next].used
      BY <1>6 DEF MemIInv, Plugged
    <3>2. mem[p].next \in DOMAIN t
      BY <1>7, <1>10, <1>4 DEF Inner, Linked
    <3> QED
      BY <1>7, <1>10, <1>12, <2>3, <3>1, <3>2
  <2> QED
    BY <1>10, <1>12, <2>1, <2>2, <2>3
<1>14. \A b \in Inner(r) : ~r[b].used => b = q \/ (b \in Inner(mem) /\ ~mem[b].used /\ b # p)
  BY <1>10, <1>12 DEF Inner
<1>15. lfree \in Nat /\ lfree <= p
  BY <1>6, <1>9 DEF MemIInv, StartsAt
<1>16. StartsAt(r, lfree')
  <2>1. \A b \in Inner(r) : ~r[b].used => lfree <= b
    BY <1>7, <1>8, <1>14, <1>15 DEF MemIInv, StartsAt
  <2>2. CASE p = lfree
    <3>1. p \in DOMAIN r
      BY <1>10, <1>12 DEF Inner
    <3> QED
      BY <1>3, <1>11, <2>1, <2>2, <3>1, NextFreeStarts
  <2>3. CASE p # lfree
    <3>1. lfree \in DOMAIN mem /\ (lfree # MemSize => ~mem[lfree].used)
      BY DEF MemIInv, StartsAt
    <3>2. lfree \in DOMAIN r /\ r[lfree].used = mem[lfree].used
      BY <1>10, <1>11, <1>12, <2>3, <3>1 DEF Inner, Linked
    <3> QED
      BY <1>3, <2>1, <2>3, <3>1, <3>2 DEF StartsAt
  <2> QED
    BY <2>2, <2>3
<1>17. /\ DOMAIN h = DOMAIN memHeld \cup {p + Header} /\ h[p + Header] = n
       /\ \A x \in DOMAIN memHeld : x # p + Header => h[x] = memHeld[x]
       /\ h = [x \in DOMAIN h |-> h[x]]
  BY DEF Mem!Put
<1> HIDE DEF h
<1>18. Served(r, h)
  <2>1. ASSUME NEW x \in DOMAIN h
        PROVE  /\ x - Header \in Inner(r) /\ r[x - Header].used
               /\ h[x] # 0 /\ x + Rounded(h[x]) <= r[x - Header].next
    <3>1. CASE x = p + Header
      <4>1. x - Header = p
        BY <1>7, <3>1, MemTypes
      <4>2. r[p].next = t[p].next
        BY <1>10, <1>12 DEF Inner
      <4> QED
        BY <1>1, <1>10, <1>12, <1>17, <3>1, <4>1, <4>2 DEF q, s
    <3>2. CASE x \in DOMAIN memHeld /\ x # p + Header
      <4>1. /\ x - Header \in Inner(mem) /\ mem[x - Header].used
            /\ memHeld[x] # 0 /\ x + Rounded(memHeld[x]) <= mem[x - Header].next
        BY <3>2 DEF MemIInv, Served
      <4>2. x - Header # p
        BY <1>6, <4>1
      <4>3. x - Header \in DOMAIN mem /\ x - Header \in DOMAIN t /\ x - Header \in Inner(r)
        BY <1>10, <1>12, <4>1 DEF Inner
      <4>4. r[x - Header].used /\ r[x - Header].next = mem[x - Header].next
        BY <1>10, <1>12, <4>1, <4>2, <4>3
      <4> QED
        BY <1>17, <3>2, <4>1, <4>3, <4>4
    <3> QED
      BY <1>17, <3>1, <3>2
  <2>2. ASSUME NEW x \in Inner(r), r[x].used PROVE x + Header \in DOMAIN h
    <3>1. CASE x = p
      BY <1>17, <3>1
    <3>2. CASE x # p
      <4>1. x \in Inner(t) /\ t[x].used
        BY <1>12, <2>2, <3>2 DEF Inner
      <4>2. x \in Inner(mem) /\ mem[x].used
        BY <1>10, <4>1 DEF Inner
      <4>3. x + Header \in DOMAIN memHeld
        BY <4>2 DEF MemIInv, Served
      <4> QED
        BY <1>17, <4>3
    <3> QED
      BY <3>1, <3>2
  <2> QED
    BY <2>1, <2>2 DEF Served
<1>19. h \in [DOMAIN h -> Wants] /\ DOMAIN h \subseteq 0..MemSize
  <2>1. p + Header \in 0..MemSize
    BY <1>2, <1>6, <1>7, MemTypes
  <2>2. \A x \in DOMAIN h : h[x] \in Wants
    BY <1>17 DEF MemIInv
  <2> QED
    BY <1>17, <2>1, <2>2 DEF MemIInv
<1>20. Mem!RefusedOnlyWhenFull'
  BY <1>3 DEF Mem!RefusedOnlyWhenFull
<1> QED
  BY <1>3, <1>11, <1>13, <1>16, <1>18, <1>19, <1>20 DEF MemIInv

\* A request is refused only when no stretch of unused bytes would hold it.
LEMMA MallocRefuses ==
    ASSUME MemSetting, MemIInv, NEW n \in Wants,
           ~(Mem!Possible(n) /\ Mem!Fit(Mem!Size(n)) # MemSize), Mem!Malloc(n)
    PROVE  MemIInv'
<1> DEFINE s == Rounded(n)
           Stretch(a) == a..(a + Header + s - 1)
<1>1. mem' = mem /\ lfree' = lfree /\ memHeld' = memHeld /\ memNull' = n
  BY DEF Mem!Malloc
<1>2. n \in Nat /\ n < Width
  BY MemTypes
<1>3. Linked(mem) /\ Plugged(mem)
  BY DEF MemIInv
<1>4. ASSUME n > 0, NEW a \in 0..MemSize, Stretch(a) \subseteq (0..(MemSize - 1)) \ Mem!InUse
      PROVE  FALSE
  <2>1. s \in Nat /\ MinSize <= s /\ (s <= MemSize => Mem!Size(n) = s /\ Mem!Possible(n))
    BY <1>2, <1>4, SizeFacts
  <2> HIDE DEF s
  <2>2. a \in Nat /\ a + Header + s <= MemSize
    <3>1. a + Header + s - 1 \in Stretch(a)
      BY <2>1, MemTypes
    <3> QED
      BY <1>4, <2>1, <3>1, MemTypes
  <2>3. Mem!Fits(s) = {}
    BY <1>3, <2>1, <2>2, FitFits, MemTypes
  <2> DEFINE B == {b \in Inner(mem) : b <= a}
  <2>4. PICK b \in B : \A c \in B : c <= b
    <3>1. 0 \in B /\ B \subseteq 0..MemSize /\ MemSize \in Nat
      BY <1>3, <2>2, MemTypes DEF Linked, Inner
    <3> HIDE DEF B
    <3> QED
      BY <3>1, GreatestNat
  <2> DEFINE e == mem[b].next
  <2>5. b \in Inner(mem) /\ b <= a /\ b \in DOMAIN mem /\ b \in Nat /\ e \in DOMAIN mem /\ e \in Nat
        /\ b < e /\ e <= MemSize
    BY <1>3, <2>4, LinkedTypes, MemTypes DEF Linked, Inner
  <2>6. a < e
    <3>1. CASE e <= a
      <4>1. e \in B
        BY <2>1, <2>2, <2>5, <3>1, MemTypes DEF Inner
      <4> QED
        BY <2>4, <2>5, <4>1
    <3> QED
      BY <2>2, <2>5, <3>1
  <2>7. \A c \in Inner(mem) : mem[c].used =>
            \A x \in c..(mem[c].next - 1) : x \in Mem!InUse
    BY DEF Mem!InUse, Mem!Blocks, Inner
  <2>8. ~mem[b].used
    <3>1. a \in Stretch(a) /\ a \in b..(e - 1)
      BY <2>1, <2>2, <2>5, <2>6, MemTypes
    <3>2. a \notin Mem!InUse
      BY <1>4, <3>1
    <3> QED
      BY <2>5, <2>7, <3>1, <3>2
  <2>9. a + Header + s <= e
    <3>1. CASE e < a + Header + s
      <4>1. e \in Stretch(a)
        BY <2>1, <2>2, <2>5, <2>6, <3>1, MemTypes
      <4>2. e \in Inner(mem) /\ e \notin Mem!InUse
        BY <1>4, <2>2, <2>5, <3>1, <4>1, <2>1, MemTypes DEF Inner
      <4>3. mem[e].used
        BY <1>3, <2>5, <2>8 DEF Plugged
      <4>4. mem[e].next \in Nat /\ e < mem[e].next
        BY <1>3, <4>2, LinkedTypes, MemTypes DEF Linked, Inner
      <4>5. e \in e..(mem[e].next - 1)
        BY <2>5, <4>4
      <4> QED
        BY <2>7, <4>2, <4>3, <4>5
    <3> QED
      BY <2>1, <2>2, <2>5, <3>1, MemTypes
  <2>10. Mem!Room(b) >= s
    BY <1>3, <2>1, <2>2, <2>5, <2>9, RoomIs, MemTypes
  <2>11. lfree <= b
    BY <2>5, <2>8 DEF MemIInv, StartsAt
  <2>12. b < MemSize - s
    BY <2>1, <2>2, <2>5, MemTypes
  <2>13. b \in Mem!Fits(s)
    BY <2>5, <2>8, <2>10, <2>11, <2>12 DEF Mem!Fits, Mem!Blocks, Inner
  <2> QED
    BY <2>3, <2>13
<1>5. Mem!RefusedOnlyWhenFull'
  <2> SUFFICES ASSUME n > 0, NEW a \in 0..MemSize,
                      Stretch(a) \subseteq (0..(MemSize - 1)) \ Mem!InUse
               PROVE  FALSE
    BY <1>1 DEF Mem!RefusedOnlyWhenFull, Mem!InUse, Mem!Blocks, Mem!Addrs, Rounded, Mem!AtLeast,
         Mem!Up
  <2> QED
    BY <1>4
<1> QED
  BY <1>1, <1>5 DEF MemIInv

-----------------------------------------------------------------------------
(* mem_trim.                                                                *)

\* Rounding up keeps the order of sizes.
LEMMA RoundedMonotone ==
    ASSUME MemSetting, NEW n \in Nat, NEW k \in Nat, n <= k
    PROVE  Rounded(n) <= Rounded(k)
<1> DEFINE u == Mem!Up(n)
           v == Mem!Up(k)
<1>1. /\ u \in Nat /\ u <= n + Align - 1 /\ u % Align = 0
      /\ v \in Nat /\ k <= v /\ v % Align = 0
  BY RoundsUp
<1> HIDE DEF u, v
<1>2. u <= v
  <2>1. CASE v < u
    <3>1. (u - v) % Align = 0
      BY <1>1, AlignedSum
    <3>2. Align <= u - v
      BY <1>1, <2>1, <3>1, AlignedGap
    <3> QED
      BY <1>1, <3>2, AlignType
  <2> QED
    BY <1>1, <2>1
<1> QED
  BY <1>1, <1>2, MemTypes DEF Rounded, Mem!AtLeast, u, v

\* Only the block of p becomes shorter, and not too short for n.
LEMMA TrimServed ==
    ASSUME MemSetting, MemIInv, NEW p \in DOMAIN memHeld, NEW n \in Nat \ {0}, NEW r,
           \A x \in Inner(mem) : mem[x].used =>
               x \in Inner(r) /\ r[x].used /\ (x # p - Header => r[x].next = mem[x].next),
           \A x \in Inner(r) : r[x].used => x \in Inner(mem) /\ mem[x].used,
           p + Rounded(n) <= r[p - Header].next
    PROVE  Served(r, [memHeld EXCEPT ![p] = n])
<1> DEFINE h == [memHeld EXCEPT ![p] = n]
<1>1. DOMAIN h = DOMAIN memHeld /\ h[p] = n /\ \A x \in DOMAIN memHeld : x # p => h[x] = memHeld[x]
  OBVIOUS
<1> HIDE DEF h
<1>2. ASSUME NEW x \in DOMAIN h
      PROVE  /\ x - Header \in Inner(r) /\ r[x - Header].used
             /\ h[x] # 0 /\ x + Rounded(h[x]) <= r[x - Header].next
  <2>1. /\ x - Header \in Inner(mem) /\ mem[x - Header].used /\ x \in Int /\ p \in Int
        /\ memHeld[x] # 0 /\ x + Rounded(memHeld[x]) <= mem[x - Header].next
    BY <1>1, MemTypes DEF MemIInv, Served
  <2>2. CASE x = p
    BY <1>1, <2>1, <2>2
  <2>3. CASE x # p
    <3>1. x - Header # p - Header
      BY <2>1, <2>3, MemTypes
    <3> QED
      BY <1>1, <2>1, <2>3, <3>1
  <2> QED
    BY <2>2, <2>3
<1>3. \A x \in Inner(r) : r[x].used => x + Header \in DOMAIN h
  BY <1>1 DEF MemIInv, Served
<1> QED
  BY <1>2, <1>3 DEF Served, h

\* The free block behind moves down.
LEMMA MovedDivides ==
    ASSUME MemSetting, Linked(mem), NEW b \in Inner(mem), NEW s \in Nat,
           mem[b].next \in Inner(mem), b + Header + s < mem[b].next
    PROVE  /\ Joined(mem, Join(mem, b, mem[b].next), b, mem[b].next)
           /\ Divided(Join(mem, b, mem[b].next), Mem!Moved(b, s).mem, b, b + Header + s)
<1> DEFINE n == mem[b].next
           e == mem[n].next
           q == b + Header + s
           J == Join(mem, b, n)
           new == [next |-> e, prev |-> b, used |-> FALSE]
           d == Mem!Drop(mem, n)
           t == Mem!Put(d, q, new)
           v == [t EXCEPT ![b].next = q]
           r == Mem!Back(v, e, q)
<1>1. Joined(mem, J, b, n)
  BY JoinJoins
<1>2. r = Mem!Moved(b, s).mem
  BY DEF Mem!Moved
<1>3. /\ b \in DOMAIN mem /\ n \in DOMAIN mem /\ e \in DOMAIN mem /\ b \in Nat /\ n \in Nat
      /\ e \in Nat /\ b < n /\ n < e /\ b \in 0..MemSize /\ e \in 0..MemSize /\ n # MemSize
      /\ q \in 0..MemSize /\ b < q /\ q < n /\ b # e /\ b # n /\ q # n /\ q # e
  BY LinkedTypes, MemTypes DEF Linked, Inner
<1>4. q \notin DOMAIN mem
  BY <1>3 DEF Linked
<1>5. J[b].next = e
  BY <1>1 DEF Joined
<1> HIDE DEF q, e, n, J
<1>6. \A c \in DOMAIN mem : mem[c] \in Cells
  BY DEF Linked
<1>7. new \in Cells
  BY <1>3, MemTypes DEF Cells
<1>8. DOMAIN d = DOMAIN mem \ {n} /\ \A c \in DOMAIN d : d[c] = mem[c]
  BY DEF Mem!Drop
<1> HIDE DEF d
<1>9. DOMAIN t = DOMAIN d \cup {q} /\ t[q] = new /\ (\A c \in DOMAIN d : t[c] = mem[c])
  BY <1>4, <1>8 DEF Mem!Put
<1> HIDE DEF t
<1>10. /\ DOMAIN v = DOMAIN t /\ v[b] = [mem[b] EXCEPT !.next = q] /\ v[q] = new
       /\ \A c \in DOMAIN d : c # b => v[c] = mem[c]
       /\ v = [c \in DOMAIN v |-> v[c]]
  BY <1>3, <1>4, <1>8, <1>9
<1> HIDE DEF v
<1>11. v[b] \in Cells /\ v[b].next = q /\ v[b].prev = mem[b].prev /\ v[b].used = mem[b].used
  BY <1>3, <1>6, <1>10 DEF Cells
<1>12. \A c \in DOMAIN v : v[c] \in Cells
  BY <1>6, <1>7, <1>8, <1>9, <1>10, <1>11
<1>13. /\ DOMAIN r = DOMAIN v
       /\ \A c \in DOMAIN v : c # e \/ e = MemSize => r[c] = v[c]
       /\ e # MemSize => r[e] = [mem[e] EXCEPT !.prev = q]
       /\ r = [c \in DOMAIN v |-> r[c]]
  <2>1. e \in DOMAIN v /\ v[e] = mem[e]
    BY <1>3, <1>8, <1>9, <1>10
  <2>2. CASE e = MemSize
    <3>1. r = v
      BY <2>2 DEF Mem!Back
    <3> QED
      BY <1>10, <2>2, <3>1
  <2>3. CASE e # MemSize
    <3>1. r = [v EXCEPT ![e].prev = q]
      BY <2>3 DEF Mem!Back
    <3> HIDE DEF r
    <3> QED
      BY <2>1, <2>3, <3>1
  <2> QED
    BY <2>2, <2>3
<1> HIDE DEF r, new
<1>14. e # MemSize => /\ r[e] \in Cells /\ r[e].prev = q /\ r[e].next = mem[e].next
                      /\ r[e].used = mem[e].used
  BY <1>3, <1>6, <1>13, MemTypes DEF Cells
<1>15. r \in [DOMAIN r -> Cells]
  BY <1>12, <1>13, <1>14
<1>16. DOMAIN J = DOMAIN mem \ {n}
  BY <1>1 DEF Joined
<1>17. DOMAIN r = DOMAIN J \cup {q}
  BY <1>8, <1>9, <1>10, <1>13, <1>16
<1>18. r[q].next = e /\ r[q].prev = b /\ ~r[q].used
  <2>1. r[q] = new
    BY <1>3, <1>9, <1>10, <1>13
  <2> QED
    BY <2>1 DEF new
<1>19. r[b].next = q /\ r[b].prev = mem[b].prev /\ r[b].used = mem[b].used
  BY <1>3, <1>8, <1>9, <1>10, <1>11, <1>13
<1>20. ASSUME NEW c \in DOMAIN J
       PROVE  /\ c # b => r[c].next = J[c].next
              /\ c # e => r[c].prev = J[c].prev
              /\ r[c].used = J[c].used
  <2>1. /\ c # b => J[c].next = mem[c].next
        /\ c # e => J[c].prev = mem[c].prev
        /\ J[c].used = mem[c].used
    BY <1>1 DEF Joined, e
  <2>2. c \in DOMAIN d /\ c \in DOMAIN v
    BY <1>8, <1>9, <1>10, <1>16
  <2>3. CASE c = b
    BY <1>3, <1>19, <2>1, <2>3
  <2>4. CASE c # b /\ (c # e \/ e = MemSize)
    BY <1>10, <1>13, <2>1, <2>2, <2>4
  <2>5. CASE c # b /\ c = e /\ e # MemSize
    BY <1>14, <2>1, <2>5
  <2> QED
    BY <2>3, <2>4, <2>5
<1>21. e # MemSize => r[e].prev = q
  BY <1>14
<1>22. Divided(J, r, b, q)
  BY <1>5, <1>15, <1>17, <1>18, <1>19, <1>20, <1>21 DEF Divided
<1> QED
  BY <1>1, <1>2, <1>22 DEF J, n, q

\* What holds of the table r and the start f is left as mem_trim leaves them.
LEMMA TrimLeaves ==
    ASSUME MemSetting, MemIInv, NEW p \in DOMAIN memHeld, NEW n \in 1..memHeld[p], n \in Wants,
           Mem!Trim(p, n), Linked(mem'), Plugged(mem'), StartsAt(mem', lfree'),
           \A x \in Inner(mem) : mem[x].used =>
               x \in Inner(mem') /\ mem'[x].used /\ (x # p - Header => mem'[x].next = mem[x].next),
           \A x \in Inner(mem') : mem'[x].used => x \in Inner(mem) /\ mem[x].used,
           p + Rounded(n) <= mem'[p - Header].next
    PROVE  MemIInv'
<1>1. n \in Nat \ {0}
  BY MemTypes DEF MemIInv
<1>2. memHeld' = [memHeld EXCEPT ![p] = n] /\ memNull' = 0
  BY DEF Mem!Trim
<1>3. Served(mem', memHeld')
  BY <1>1, <1>2, TrimServed
<1>4. memHeld' \in [DOMAIN memHeld' -> Wants] /\ DOMAIN memHeld' \subseteq 0..MemSize
  BY <1>2 DEF MemIInv
<1>5. Mem!RefusedOnlyWhenFull'
  BY <1>2 DEF Mem!RefusedOnlyWhenFull
<1> QED
  BY <1>2, <1>3, <1>4, <1>5 DEF MemIInv

\* mem_trim moves the end of a block, or gives its end back as a block of its own
\* (mem.c:686-800).
LEMMA MemTrimKeeps ==
    ASSUME MemSetting, MemIInv, NEW p \in DOMAIN memHeld, NEW n \in Wants, Mem!Trim(p, n)
    PROVE  MemIInv'
<1> DEFINE b == p - Header
           s == Rounded(n)
           q == b + Header + s
           e == mem[b].next
<1>1. n \in 1..memHeld[p] /\ memHeld[p] \in Nat /\ n \in Nat /\ n # 0
  BY MemTypes DEF Mem!Trim, MemIInv
<1>2. Linked(mem) /\ Plugged(mem) /\ StartsAt(mem, lfree)
  BY DEF MemIInv
<1>3. b \in Inner(mem) /\ mem[b].used /\ p + Rounded(memHeld[p]) <= e /\ p \in Int
  BY DEF MemIInv, Served
<1>4. /\ b \in DOMAIN mem /\ b # MemSize /\ b \in Nat /\ e \in DOMAIN mem /\ e \in Nat
      /\ e <= MemSize /\ b % Align = 0 /\ b + Header + MinSize <= e /\ p = b + Header
  BY <1>2, <1>3, LinkedTypes, MemTypes DEF Linked, Inner
<1>5. s \in Nat /\ MinSize <= s /\ s % Align = 0 /\ p + s <= e /\ s <= MemSize
  <2>1. s <= Rounded(memHeld[p]) /\ Rounded(memHeld[p]) \in Nat
    BY <1>1, RoundedMonotone, SizeFacts
  <2>2. s \in Nat /\ MinSize <= s /\ s % Align = 0
    BY <1>1, SizeFacts
  <2> HIDE DEF s
  <2> QED
    BY <1>3, <1>4, <2>1, <2>2, MemTypes
<1>6. Mem!Size(n) = s
  BY <1>1, <1>5, SizeFacts
<1>7. LET h == Mem!Shrunk(b, s) IN mem' = h.mem /\ lfree' = h.lfree
  BY <1>6 DEF Mem!Trim
<1>8. Mem!Room(b) = e - (b + Header)
  BY <1>2, <1>3, RoomIs
<1> HIDE DEF s
<1>9. q \in Nat /\ q % Align = 0 /\ b + Header + MinSize <= q /\ b < q /\ q = p + s
  <2>1. (b + Header) % Align = 0
    BY <1>4, AlignedSum, MemTypes DEF MemSetting
  <2>2. q % Align = 0
    BY <1>4, <1>5, <2>1, AlignedSum, MemTypes
  <2> QED
    BY <1>4, <1>5, <2>2, MemTypes
<1>10. \A c \in DOMAIN mem : c \in Nat
  BY <1>2, LinkedTypes
<1> HIDE DEF b
<1>11. CASE mem' = mem /\ lfree' = lfree
  <2>1. p + Rounded(n) <= mem'[p - Header].next
    BY <1>5, <1>11 DEF s, b
  <2> QED
    BY <1>1, <1>2, <1>11, <2>1, TrimLeaves
<1>12. CASE s # Mem!Room(b) /\ ~mem[e].used
  <2> DEFINE J == Join(mem, b, e)
             r == Mem!Moved(b, s).mem
             g == mem[e].next
  <2>1. mem' = r /\ lfree' = IF lfree = e THEN q ELSE lfree
    BY <1>7, <1>12 DEF Mem!Shrunk, Mem!Moved
  <2>2. e \in Inner(mem) /\ q < e
    BY <1>2, <1>4, <1>5, <1>8, <1>9, <1>12, MemTypes DEF Inner, Linked
  <2>3. Joined(mem, J, b, e) /\ Divided(J, r, b, q)
    BY <1>2, <1>3, <1>5, <2>2, MovedDivides
  <2> HIDE DEF J, r
  <2>4. Linked(J) /\ b \in Inner(J) /\ J[b].next = g
    <3>1. Linked(J)
      BY <1>2, <1>3, <2>2, <2>3, JoinedLinked
    <3> QED
      BY <1>3, <1>4, <2>2, <2>3, <3>1, MemTypes DEF Joined, Inner
  <2>5. g \in DOMAIN mem /\ g \in Nat /\ e + Header + MinSize <= g /\ mem[g].used
    BY <1>2, <1>12, <2>2, LinkedTypes DEF Linked, Plugged, Inner
  <2>6. q + Header + MinSize <= g
    BY <1>4, <1>9, <2>2, <2>5, MemTypes
  <2>7. Linked(r)
    BY <1>9, <2>3, <2>4, <2>6, DividedLinked
  <2>8. DOMAIN r = (DOMAIN mem \ {e}) \cup {q} /\ Inner(r) = (Inner(mem) \ {e}) \cup {q}
    BY <1>4, <2>2, <2>3, MemTypes DEF Joined, Divided, Inner
  <2>9. /\ r[q].next = g /\ ~r[q].used /\ r[b].next = q
        /\ \A c \in DOMAIN mem \ {e} : r[c].used = mem[c].used /\ (c # b => r[c].next = mem[c].next)
    BY <2>3, <2>4 DEF Joined, Divided
  <2>10. q \notin DOMAIN mem
    BY <1>2, <1>3, <1>4, <1>9, <2>2 DEF Linked
  <2>11. Plugged(r)
    <3> SUFFICES ASSUME NEW x \in Inner(r), ~r[x].used PROVE r[r[x].next].used
      BY DEF Plugged
    <3>1. CASE x = q
      <4>1. g # e
        BY <1>4, <2>5, MemTypes
      <4> QED
        BY <2>5, <2>9, <3>1, <4>1
    <3>2. CASE x \in Inner(mem) /\ x # e
      <4>1. x \in DOMAIN mem \ {e} /\ ~mem[x].used /\ mem[x].next \in DOMAIN mem
        BY <1>2, <2>9, <3>2 DEF Inner, Linked
      <4>2. mem[mem[x].next].used
        BY <1>2, <3>2, <4>1 DEF Plugged
      <4>3. x # b /\ mem[x].next # e
        BY <1>3, <1>12, <4>1, <4>2
      <4> QED
        BY <2>9, <4>1, <4>2, <4>3
    <3> QED
      BY <2>8, <3>1, <3>2
  <2>12. StartsAt(r, lfree')
    <3>1. /\ lfree \in DOMAIN mem /\ lfree \in Nat /\ lfree <= e
          /\ (lfree # MemSize => ~mem[lfree].used)
      BY <1>2, <1>10, <1>12, <2>2 DEF StartsAt
    <3>2. \A x \in Inner(mem) : x \in DOMAIN mem
      BY DEF Inner
    <3>3. CASE lfree = e
      <4>1. lfree' = q
        BY <2>1, <3>3
      <4>2. \A x \in Inner(r) : ~r[x].used => q <= x
        BY <1>2, <1>9, <1>10, <2>2, <2>8, <2>9, <3>2, <3>3, <1>4 DEF StartsAt
      <4> QED
        BY <2>8, <2>9, <4>1, <4>2 DEF StartsAt
    <3>4. CASE lfree # e
      <4>1. lfree' = lfree /\ lfree \in DOMAIN mem \ {e}
        BY <2>1, <3>1, <3>4
      <4>2. lfree <= q
        <5>1. lfree <= b \/ e <= lfree
          BY <1>2, <1>3, <3>1 DEF Linked
        <5> QED
          BY <1>4, <1>9, <3>1, <3>4, <5>1
      <4>3. \A x \in Inner(r) : ~r[x].used => lfree <= x
        BY <1>2, <2>8, <2>9, <3>2, <4>2 DEF StartsAt
      <4> QED
        BY <2>8, <2>9, <3>1, <4>1, <4>3 DEF StartsAt
    <3> QED
      BY <3>3, <3>4
  <2>13. ASSUME NEW x \in Inner(mem), mem[x].used
         PROVE  x \in Inner(r) /\ r[x].used /\ (x # b => r[x].next = mem[x].next)
    BY <1>12, <2>8, <2>9, <2>13 DEF Inner
  <2>14. ASSUME NEW x \in Inner(r), r[x].used PROVE x \in Inner(mem) /\ mem[x].used
    BY <2>8, <2>9, <2>14 DEF Inner
  <2>15. p + Rounded(n) <= r[b].next
    BY <1>5, <1>9, <2>9, <1>4, MemTypes DEF s
  <2> QED
    BY <1>1, <2>1, <2>7, <2>11, <2>12, <2>13, <2>14, <2>15, TrimLeaves DEF b
<1>13. CASE s # Mem!Room(b) /\ mem[e].used /\ Mem!Splits(b, s)
  <2> DEFINE r == Mem!Divide(b, s)
  <2>1. mem' = r /\ lfree' = IF q < lfree THEN q ELSE lfree
    BY <1>7, <1>13 DEF Mem!Shrunk, Mem!Cut
  <2>2. q + Header + MinSize <= e
    BY <1>4, <1>5, <1>8, <1>13, MemTypes DEF Mem!Splits
  <2>3. Divided(mem, r, b, q)
    BY <1>2, <1>3, <1>4, <1>5, <2>2, MemTypes, DivideDivides
  <2> HIDE DEF r
  <2>4. Linked(r)
    BY <1>2, <1>3, <1>9, <2>2, <2>3, DividedLinked
  <2>5. DOMAIN r = DOMAIN mem \cup {q} /\ Inner(r) = Inner(mem) \cup {q}
    BY <1>4, <2>2, <2>3, <1>9, MemTypes DEF Divided, Inner
  <2>6. /\ r[q].next = e /\ ~r[q].used /\ r[b].next = q
        /\ \A c \in DOMAIN mem : r[c].used = mem[c].used /\ (c # b => r[c].next = mem[c].next)
    BY <2>3 DEF Divided
  <2>7. Plugged(r)
    <3> SUFFICES ASSUME NEW x \in Inner(r), ~r[x].used PROVE r[r[x].next].used
      BY DEF Plugged
    <3>1. CASE x = q
      BY <1>4, <1>13, <2>6, <3>1
    <3>2. CASE x \in Inner(mem)
      <4>1. x \in DOMAIN mem /\ mem[x].next \in DOMAIN mem /\ ~mem[x].used
        BY <1>2, <2>6, <3>2 DEF Inner, Linked
      <4>2. mem[mem[x].next].used /\ x # b
        BY <1>2, <1>3, <3>2, <4>1 DEF Plugged
      <4> QED
        BY <2>6, <4>1, <4>2
    <3> QED
      BY <2>5, <3>1, <3>2
  <2>8. StartsAt(r, lfree')
    <3>1. lfree \in DOMAIN mem /\ lfree \in Nat /\ (lfree # MemSize => ~mem[lfree].used)
      BY <1>2, <1>10 DEF StartsAt
    <3>2. \A x \in Inner(mem) : x \in DOMAIN mem /\ x \in Nat
      BY <1>10 DEF Inner
    <3>3. \A x \in Inner(r) : ~r[x].used => lfree' <= x
      BY <1>2, <1>9, <2>1, <2>5, <2>6, <3>1, <3>2 DEF StartsAt
    <3> QED
      BY <2>1, <2>5, <2>6, <3>1, <3>3 DEF StartsAt
  <2>9. ASSUME NEW x \in Inner(mem), mem[x].used
        PROVE  x \in Inner(r) /\ r[x].used /\ (x # b => r[x].next = mem[x].next)
    BY <2>5, <2>6, <2>9 DEF Inner
  <2>10. ASSUME NEW x \in Inner(r), r[x].used PROVE x \in Inner(mem) /\ mem[x].used
    BY <2>5, <2>6, <2>10 DEF Inner
  <2>11. p + Rounded(n) <= r[b].next
    BY <1>5, <1>9, <2>6, <1>4, MemTypes DEF s
  <2> QED
    BY <1>1, <2>1, <2>4, <2>7, <2>8, <2>9, <2>10, <2>11, TrimLeaves DEF b
<1> QED
  BY <1>7, <1>11, <1>12, <1>13 DEF Mem!Shrunk
-----------------------------------------------------------------------------
(* The heap of lwIP, all of it.                                             *)

\* mem_init leaves one free block and the sentinel (mem.c:503-553).
LEMMA MemInit == ASSUME MemSetting, Mem!Init PROVE MemIInv
<1> DEFINE start == [a \in {0, MemSize} |->
                       [next |-> MemSize, prev |-> a, used |-> a = MemSize]]
<1>1. /\ DOMAIN mem = {0, MemSize} /\ 0 # MemSize /\ Inner(mem) = {0}
      /\ mem[0].next = MemSize /\ mem[0].prev = 0 /\ ~mem[0].used
      /\ mem[MemSize].used
      /\ mem \in [DOMAIN mem -> Cells]
  <2>1. mem = start
    BY DEF Mem!Init
  <2>2. 0 # MemSize /\ MemSize \in Nat
    BY MemTypes
  <2>3. \A a \in {0, MemSize} :
            [next |-> MemSize, prev |-> a, used |-> a = MemSize] \in Cells
    BY <2>2 DEF Cells
  <2>4. start \in [{0, MemSize} -> Cells]
    BY <2>3, Zenon
  <2>5. /\ start[0] = [next |-> MemSize, prev |-> 0, used |-> 0 = MemSize]
        /\ start[MemSize] = [next |-> MemSize, prev |-> MemSize, used |-> MemSize = MemSize]
    BY Zenon
  <2>6. start[0].next = MemSize /\ start[0].prev = 0 /\ (start[0].used <=> 0 = MemSize)
    BY <2>5, Zenon
  <2>7. start[MemSize].used <=> MemSize = MemSize
    BY <2>5, Zenon
  <2> HIDE DEF start
  <2> QED
    BY <2>1, <2>2, <2>4, <2>6, <2>7 DEF Inner
<1>2. lfree = 0 /\ memHeld = <<>> /\ memNull = 0
  BY DEF Mem!Init
<1>4. 0 % Align = 0
  BY AlignType
<1>5. Linked(mem)
  BY <1>1, <1>4, MemTypes DEF Linked
<1>6. Plugged(mem) /\ StartsAt(mem, lfree)
  BY <1>1, <1>2, MemTypes DEF Plugged, StartsAt
<1>7. DOMAIN memHeld = {}
  BY <1>2
<1>8. Served(mem, memHeld)
  BY <1>1, <1>7 DEF Served
<1>9. Mem!RefusedOnlyWhenFull
  BY <1>2 DEF Mem!RefusedOnlyWhenFull
<1>10. memHeld \in [DOMAIN memHeld -> Wants]
  BY <1>2, <1>7
<1> QED
  BY <1>2, <1>5, <1>6, <1>7, <1>8, <1>9, <1>10 DEF MemIInv

\* Every call keeps the invariant ...
LEMMA MemStep == ASSUME MemSetting, MemIInv, Mem!Next PROVE MemIInv'
<1>1. ASSUME NEW n \in Wants, Mem!Malloc(n) PROVE MemIInv'
  BY <1>1, MallocTakes, MallocRefuses
<1>2. ASSUME NEW p \in DOMAIN memHeld, Mem!Free(p) PROVE MemIInv'
  BY <1>2, MemFreeKeeps
<1>3. ASSUME NEW p \in DOMAIN memHeld, NEW n \in Wants, Mem!Trim(p, n) PROVE MemIInv'
  BY <1>3, MemTrimKeeps
<1> QED
  BY <1>1, <1>2, <1>3 DEF Mem!Next

\* ... and so do the steps of the other allocators.
LEMMA MemKept == ASSUME MemIInv, UNCHANGED memVars PROVE MemIInv'
<1>1. mem' = mem /\ lfree' = lfree /\ memHeld' = memHeld /\ memNull' = memNull
  BY DEF memVars
<1>2. Mem!RefusedOnlyWhenFull'
  BY <1>1 DEF MemIInv, Mem!RefusedOnlyWhenFull, Mem!InUse, Mem!Blocks
<1> QED
  BY <1>1, <1>2 DEF MemIInv

\* What the run checks follows from the invariant.
LEMMA MemInvHolds == ASSUME MemSetting, MemIInv PROVE Mem!MemInv
<1>1. /\ Linked(mem) /\ Plugged(mem) /\ StartsAt(mem, lfree) /\ Served(mem, memHeld)
      /\ memHeld \in [DOMAIN memHeld -> Wants] /\ DOMAIN memHeld \subseteq 0..MemSize
      /\ memNull \in Wants \cup {0} /\ Mem!RefusedOnlyWhenFull
  BY DEF MemIInv
<1>2. Mem!TypeOK
  BY <1>1 DEF Mem!TypeOK, Mem!Addrs, Linked, Cells, StartsAt
<1>3. Mem!LowestFree
  BY <1>1 DEF Mem!LowestFree, StartsAt, Mem!Blocks, Inner
<1>4. Mem!MemSanity
  <2> SUFFICES ASSUME NEW b \in Inner(mem)
               PROVE  /\ b < mem[b].next /\ mem[b].next \in DOMAIN mem /\ Mem!LinkValid(b)
                      /\ ~mem[b].used => mem[mem[b].next].used
                      /\ \A c \in Mem!Blocks : c <= b \/ mem[b].next <= c
    BY DEF Mem!MemSanity, Mem!Blocks, Inner
  <2>1. b < mem[b].next
    BY <1>1, LinkedTypes, MemTypes DEF Linked, Inner
  <2>2. Mem!LinkValid(b)
    BY <1>1 DEF Linked, Mem!LinkValid
  <2> QED
    BY <1>1, <2>1, <2>2 DEF Linked, Plugged, Mem!Blocks
<1>5. Mem!AllReturned
  <2>1. ASSUME NEW b \in Inner(mem), mem[b].used
        PROVE  \E p \in DOMAIN memHeld : b = p - Header
    <3>1. b + Header \in DOMAIN memHeld /\ b \in Nat
      BY <1>1, <2>1, LinkedTypes DEF Served, Inner
    <3> QED
      BY <3>1, MemTypes
  <2>2. \A p \in DOMAIN memHeld : p - Header \in Inner(mem) /\ mem[p - Header].used
    BY <1>1 DEF Served
  <2> QED
    BY <2>1, <2>2 DEF Mem!AllReturned, Mem!Blocks, Inner
<1> QED
  BY <1>1, <1>2, <1>3, <1>4, <1>5 DEF Mem!MemInv

\* The links of the lwIP heap stay those of a table without gaps and without two free
\* neighbours, every block in use belongs to a pointer that mem_malloc handed out, lfree is
\* the lowest free block, and a request is refused only when no free block and no stretch
\* of free bytes would hold it (mem.c:461-945).
THEOREM LwipHeapWhole == ASSUME MemSetting PROVE Spec => []MemInv
<1>1. Init => MemIInv
  BY MemInit DEF Init
<1>2. MemIInv /\ [Next]_vars => MemIInv'
  BY MemStep, MemKept DEF Next, vars
<1>3. MemIInv => MemInv
  BY MemInvHolds DEF MemInv
<1> QED
  BY <1>1, <1>2, <1>3, PTL DEF Spec

-----------------------------------------------------------------------------
(* What the callers of the lwIP heap see.                                   *)

\* The regions of a table that serves its callers are aligned and disjoint.
LEMMA RegionsApart ==
    ASSUME MemSetting, NEW m, NEW h, Linked(m), Served(m, h),
           h \in [DOMAIN h -> Wants], DOMAIN h \subseteq 0..MemSize, NEW x \in DOMAIN h
    PROVE  /\ x % Align = 0 /\ Mem!Service!Region(x, h[x]) \subseteq 0..(MemSize - 1)
           /\ x \in 0..(MemSize - 1) /\ h[x] \in 1..MemSize
           /\ \A y \in DOMAIN h \ {x} :
                 Mem!Service!Region(x, h[x]) \cap Mem!Service!Region(y, h[y]) = {}
<1>1. \A z \in DOMAIN h : z \in Nat /\ h[z] \in Nat
  BY MemTypes
<1>2. ASSUME NEW z \in DOMAIN h
      PROVE  /\ z - Header \in Inner(m) /\ z - Header \in Nat /\ z + h[z] <= m[z - Header].next
             /\ m[z - Header].next \in 0..MemSize /\ h[z] # 0 /\ (z - Header) % Align = 0
  <2>1. z - Header \in Inner(m) /\ h[z] # 0 /\ z + Rounded(h[z]) <= m[z - Header].next
    BY DEF Served
  <2>2. z - Header \in Nat /\ m[z - Header].next \in 0..MemSize /\ (z - Header) % Align = 0
    BY <2>1, LinkedTypes, MemTypes DEF Linked, Inner, Cells
  <2>3. h[z] <= Rounded(h[z]) /\ Rounded(h[z]) \in Nat
    BY <1>1, <2>1, SizeFacts
  <2> QED
    BY <1>1, <2>1, <2>2, <2>3, MemTypes
<1>3. x % Align = 0
  <2>1. ((x - Header) + Header) % Align = 0
    BY <1>2, AlignedSum, MemTypes DEF MemSetting
  <2> QED
    BY <1>1, <2>1, MemTypes
<1>4. x \in 0..(MemSize - 1) /\ h[x] \in 1..MemSize /\ x + h[x] <= MemSize
  BY <1>1, <1>2, MemTypes
<1>5. Mem!Service!Region(x, h[x]) \subseteq 0..(MemSize - 1)
  BY <1>1, <1>4, MemTypes DEF Mem!Service!Region
<1>6. ASSUME NEW y \in DOMAIN h, y # x
      PROVE  Mem!Service!Region(x, h[x]) \cap Mem!Service!Region(y, h[y]) = {}
  <2>1. m[x - Header].next <= y - Header \/ m[y - Header].next <= x - Header
    <3>1. /\ y - Header \in DOMAIN m /\ x - Header \in DOMAIN m /\ y - Header # x - Header
          /\ y - Header \in Nat /\ x - Header \in Nat
      BY <1>1, <1>2, <1>6, MemTypes DEF Inner
    <3>2. \/ y - Header <= x - Header
          \/ m[x - Header].next <= y - Header
      BY <1>2, <3>1 DEF Linked
    <3>3. \/ x - Header <= y - Header
          \/ m[y - Header].next <= x - Header
      BY <1>2, <3>1 DEF Linked
    <3> QED
      BY <3>1, <3>2, <3>3
  <2>2. x + h[x] <= y \/ y + h[y] <= x
    <3>1. x + h[x] <= m[x - Header].next /\ y + h[y] <= m[y - Header].next
      BY <1>2
    <3>2. m[x - Header].next \in Nat /\ m[y - Header].next \in Nat
      BY <1>2
    <3> QED
      BY <1>1, <2>1, <3>1, <3>2, MemTypes
  <2> QED
    BY <1>1, <2>2 DEF Mem!Service!Region
<1> QED
  BY <1>3, <1>4, <1>5, <1>6

\* The number of bytes of the heap.
LEMMA MemBytes == ASSUME MemSetting PROVE Mem!Service!Cardinality(0..(MemSize - 1)) = MemSize
<1>1. Cardinality(0..(MemSize - 1)) = MemSize
  BY FS_Interval, MemTypes
<1>2. Mem!Service!Cardinality(0..(MemSize - 1)) = Cardinality(0..(MemSize - 1))
  BY DEF Mem!Service!Cardinality, Cardinality
<1> QED
  BY <1>1, <1>2

\* Each call is a malloc, a free or a trim of the service, or changes nothing.
LEMMA MemServes ==
    ASSUME MemSetting, MemIInv, MemIInv', Mem!Next
    PROVE  Mem!Service!Next \/ UNCHANGED memHeld
<1>1. ASSUME NEW p \in DOMAIN memHeld
      PROVE  p \in 0..(MemSize - 1)
  BY RegionsApart DEF MemIInv
<1>2. ASSUME NEW p \in DOMAIN memHeld, Mem!Free(p) PROVE Mem!Service!Next
  <2>1. Mem!Service!Free(p)
    BY <1>2 DEF Mem!Free, Mem!Drop, Mem!Service!Free
  <2> QED
    BY <1>1, <2>1 DEF Mem!Service!Next
<1>3. ASSUME NEW p \in DOMAIN memHeld, NEW n \in Wants, Mem!Trim(p, n) PROVE Mem!Service!Next
  <2>1. Mem!Service!Trim(p, n)
    BY <1>3 DEF Mem!Trim, Mem!Service!Trim
  <2>2. n \in 1..MemSize
    <3>1. memHeld[p] \in 1..MemSize
      BY RegionsApart DEF MemIInv
    <3>2. n \in 1..memHeld[p]
      BY <1>3 DEF Mem!Trim
    <3> QED
      BY <3>1, <3>2, MemTypes
  <2> QED
    BY <1>1, <2>1, <2>2, MemBytes DEF Mem!Service!Next
<1>4. ASSUME NEW n \in Wants, Mem!Malloc(n) PROVE Mem!Service!Next \/ UNCHANGED memHeld
  <2>1. CASE ~(Mem!Possible(n) /\ Mem!Fit(Mem!Size(n)) # MemSize)
    BY <1>4, <2>1 DEF Mem!Malloc
  <2>2. CASE Mem!Possible(n) /\ Mem!Fit(Mem!Size(n)) # MemSize
    <3> DEFINE b == Mem!Fit(Mem!Size(n))
               p == b + Header
    <3>1. memHeld' = Mem!Put(memHeld, p, n)
      BY <1>4, <2>2, Zenon DEF Mem!Malloc
    <3>2. Mem!Size(n) \in Nat
      BY <2>2, MemTypes, SizeFacts DEF Mem!Possible
    <3>3. b \in Inner(mem) /\ ~mem[b].used
      BY <2>2, <3>2, FitFits DEF MemIInv, Mem!Fits, Mem!Blocks, Inner
    <3>4. b \in Nat /\ p - Header = b
      BY <3>3, LinkedTypes, MemTypes DEF MemIInv, Inner
    <3> HIDE DEF b
    <3>5. p \notin DOMAIN memHeld
      BY <3>3, <3>4 DEF MemIInv, Served
    <3> HIDE DEF p
    <3>6. /\ DOMAIN memHeld' = DOMAIN memHeld \cup {p} /\ memHeld'[p] = n
          /\ \A x \in DOMAIN memHeld : memHeld'[x] = memHeld[x]
      BY <3>1, <3>5 DEF Mem!Put
    <3>7. /\ Linked(mem') /\ Served(mem', memHeld')
          /\ memHeld' \in [DOMAIN memHeld' -> Wants] /\ DOMAIN memHeld' \subseteq 0..MemSize
      BY DEF MemIInv
    <3>8. /\ p % Align = 0 /\ Mem!Service!Region(p, memHeld'[p]) \subseteq 0..(MemSize - 1)
          /\ p \in 0..(MemSize - 1) /\ memHeld'[p] \in 1..MemSize
          /\ \A y \in DOMAIN memHeld' \ {p} :
                Mem!Service!Region(p, memHeld'[p]) \cap Mem!Service!Region(y, memHeld'[y]) = {}
      BY <3>6, <3>7, RegionsApart, Zenon
    <3>9. \A y \in DOMAIN memHeld :
              Mem!Service!Region(p, n) \cap Mem!Service!Region(y, memHeld[y]) = {}
      BY <3>5, <3>6, <3>8
    <3>10. Mem!Service!Malloc(p, n)
      BY <3>1, <3>6, <3>8, <3>9 DEF Mem!Service!Malloc, Mem!Put
    <3> QED
      BY <3>6, <3>8, <3>10, MemBytes DEF Mem!Service!Next
  <2> QED
    BY <2>1, <2>2
<1> QED
  BY <1>2, <1>3, <1>4 DEF Mem!Next

-----------------------------------------------------------------------------
(* The heap of FreeRTOS.                                                    *)

\* What the theorems about the FreeRTOS heap take for granted of FreeRTOSConfig.h:
\* ucHeap has room for more than pxEnd.
HeapSetting == Heap!First < Heap!End

Inside(k) == DOMAIN k \ {Heap!End}
Entries == [size : 0..Total, alloc : BOOLEAN]

\* The blocks of the table k follow each other without gaps, from one end of the heap to
\* the other.
Laid(k) ==
    /\ k \in [DOMAIN k -> Entries] /\ DOMAIN k \subseteq Heap!First..Heap!End
    /\ Heap!First \in DOMAIN k /\ Heap!End \in DOMAIN k /\ k[Heap!End].size = 0
    /\ \A b \in Inside(k) : /\ b % Align = 0 /\ 0 < k[b].size /\ b + k[b].size \in DOMAIN k
                            /\ \A c \in DOMAIN k : c <= b \/ b + k[b].size <= c

\* The list l holds blocks of k that are not allocated, in the order of their addresses.
Chained(k, l) ==
    /\ 0 \in DOMAIN l /\ DOMAIN l \ {0} \subseteq Inside(k) /\ l \in [DOMAIN l -> DOMAIN k]
    /\ \A a \in DOMAIN l : /\ a < l[a] /\ (l[a] = Heap!End \/ l[a] \in DOMAIN l)
                           /\ \A c \in DOMAIN l : c <= a \/ l[a] <= c
    /\ \A a \in DOMAIN l \ {0} : ~k[a].alloc

\* No two blocks of the list touch.
Fused(k, l) == \A a \in DOMAIN l \ {0} : a + k[a].size \notin DOMAIN l

\* Pointers that were handed out lead to allocated blocks with room for the request.
Backed(k, h) ==
    \A p \in DOMAIN h : /\ p - Heap!HeapStruct \in Inside(k) /\ k[p - Heap!HeapStruct].alloc
                        /\ h[p] # 0 /\ Heap!Wanted(h[p]) <= k[p - Heap!HeapStruct].size

\* The bytes of the blocks in the list.
Unlisted(k, l) == DOMAIN k \ (DOMAIN l \ {0})
Spare(k, l) ==
    {x \in Heap!First..(Heap!End - 1) : \A b \in Unlisted(k, l) : x < b \/ b + k[b].size <= x}

HeapIInv ==
    /\ Laid(blk) /\ Chained(blk, link) /\ Fused(blk, link) /\ Backed(blk, held)
    /\ freeB = Cardinality(Spare(blk, link)) /\ minEver \in 0..freeB
    /\ held \in [DOMAIN held -> 0..MaxWant] /\ DOMAIN held \subseteq Heap!First..Heap!End
    /\ null \in 0..MaxWant /\ Heap!RefusedOnlyWhenFull

\* The constants of the FreeRTOS heap.
LEMMA HeapTypes ==
    ASSUME HeapSetting
    PROVE  /\ Heap!HeapStruct \in Nat /\ 0 < Heap!HeapStruct /\ Heap!HeapStruct % Align = 0
           /\ Heap!First \in Nat /\ 0 < Heap!First /\ Heap!First % Align = 0
           /\ Heap!End \in Nat /\ Heap!First < Heap!End /\ Heap!End - Heap!First <= Total
           /\ Total \in Nat /\ MaxWant \in Nat /\ Heap!Start = 0
           /\ Heap!MinBlock = 2 * Heap!HeapStruct
<1>1. /\ Struct \in Nat /\ 0 < Struct /\ Base \in Nat /\ 0 < Base /\ Total \in Nat
      /\ MaxWant \in Nat
  BY MemoryAssumption DEF Heap!HeapAssumption
<1>2. \A n \in Nat : Heap!Up(n) = Mem!Up(n)
  BY DEF Heap!Up, Mem!Up
<1>3. /\ Heap!HeapStruct \in Nat /\ Struct <= Heap!HeapStruct /\ Heap!HeapStruct % Align = 0
  BY <1>1, <1>2, RoundsUp DEF Heap!HeapStruct
<1>4. Heap!First \in Nat /\ Base <= Heap!First /\ Heap!First % Align = 0
  BY <1>1, <1>2, RoundsUp DEF Heap!First
<1>5. \A n \in Int : Heap!Down(n) \in Int /\ Heap!Down(n) <= n
  BY AlignType DEF Heap!Down
<1> DEFINE n == Heap!First + (Total - (Heap!First - Base)) - Heap!HeapStruct
<1>6. n \in Int /\ n = Base + Total - Heap!HeapStruct
  BY <1>1, <1>3, <1>4
<1> HIDE DEF n
<1>7. Heap!End \in Int /\ Heap!End <= n
  BY <1>5, <1>6 DEF Heap!End, n
<1> QED
  BY <1>1, <1>3, <1>4, <1>6, <1>7 DEF HeapSetting, Heap!Start, Heap!MinBlock

\* The blocks of a table.
LEMMA LaidTypes ==
    ASSUME HeapSetting, NEW k, Laid(k), NEW b \in DOMAIN k
    PROVE  /\ b \in Nat /\ 0 < b /\ b <= Heap!End /\ Heap!First <= b /\ k[b] \in Entries
           /\ k[b].size \in Nat /\ k[b].size <= Total /\ k[b].alloc \in BOOLEAN
           /\ b \in Inside(k) => /\ b < Heap!End /\ b + k[b].size <= Heap!End /\ 0 < k[b].size
                                 /\ b + k[b].size \in DOMAIN k
<1>1. b \in Heap!First..Heap!End /\ k[b] \in Entries
  BY DEF Laid
<1>2. b \in Nat /\ 0 < b /\ b <= Heap!End /\ Heap!First <= b
  BY <1>1, HeapTypes
<1>3. k[b].size \in Nat /\ k[b].size <= Total /\ k[b].alloc \in BOOLEAN
  BY <1>1, HeapTypes DEF Entries
<1>4. ASSUME b \in Inside(k)
      PROVE  /\ b < Heap!End /\ b + k[b].size <= Heap!End /\ 0 < k[b].size
             /\ b + k[b].size \in DOMAIN k
  <2>1. b + k[b].size \in DOMAIN k /\ 0 < k[b].size
    BY <1>4 DEF Laid
  <2>2. b + k[b].size \in Heap!First..Heap!End
    BY <2>1 DEF Laid
  <2> QED
    BY <1>2, <1>4, <2>1, <2>2, HeapTypes DEF Inside
<1> QED
  BY <1>1, <1>2, <1>3, <1>4

\* Every byte belongs to a block.
LEMMA Covered ==
    ASSUME HeapSetting, NEW k, Laid(k), NEW x \in Heap!First..(Heap!End - 1)
    PROVE  \E b \in Inside(k) : b <= x /\ x < b + k[b].size
<1> DEFINE B == {b \in Inside(k) : b <= x}
<1>1. x \in Nat /\ x < Heap!End /\ Heap!First <= x
  BY HeapTypes
<1>2. PICK b \in B : \A c \in B : c <= b
  <2>1. Heap!First \in B
    BY <1>1, HeapTypes DEF Laid, Inside
  <2>2. B \subseteq 0..Heap!End /\ Heap!End \in Nat
    BY LaidTypes, HeapTypes DEF Inside
  <2> HIDE DEF B
  <2> QED
    BY <2>1, <2>2, GreatestNat
<1>3. /\ b \in DOMAIN k /\ b \in Nat /\ b + k[b].size \in DOMAIN k /\ k[b].size \in Nat
      /\ 0 < k[b].size
  BY <1>2, LaidTypes DEF Inside
<1>4. CASE b + k[b].size <= x
  <2>1. b + k[b].size \in B
    BY <1>1, <1>3, <1>4, HeapTypes DEF Inside
  <2> QED
    BY <1>2, <1>3, <2>1
<1> QED
  BY <1>1, <1>2, <1>3, <1>4

\* r is k with all the blocks from c up to e made one, which is not allocated.
Spanned(k, r, c, e) ==
    /\ DOMAIN r = {x \in DOMAIN k : x <= c \/ e <= x} /\ r \in [DOMAIN r -> Entries]
    /\ r[c].size = e - c /\ ~r[c].alloc
    /\ \A x \in DOMAIN r \ {c} : r[x] = k[x]

\* Blocks without gaps become one, and the rest stays where it is.
LEMMA SpannedLaid ==
    ASSUME HeapSetting, NEW k, NEW r, Laid(k), NEW c \in Inside(k), NEW e \in DOMAIN k, c < e,
           Spanned(k, r, c, e)
    PROVE  Laid(r)
<1>1. /\ \A x \in DOMAIN k : x \in Nat /\ 0 < x /\ k[x].size \in Nat
      /\ c \in DOMAIN k /\ c # Heap!End /\ Heap!First <= c /\ e <= Heap!End
  BY LaidTypes, HeapTypes DEF Inside
<1>2. \A x \in DOMAIN r : x \in DOMAIN k /\ (x <= c \/ e <= x)
  BY DEF Spanned
<1>3. c \in DOMAIN r /\ e \in DOMAIN r
  BY <1>1 DEF Spanned
<1>4. Heap!First \in DOMAIN r /\ Heap!End \in DOMAIN r /\ r[Heap!End].size = 0
  BY <1>1, HeapTypes DEF Spanned, Laid
<1>5. DOMAIN r \subseteq Heap!First..Heap!End
  BY <1>2 DEF Laid
<1>6. ASSUME NEW b \in Inside(r)
      PROVE  /\ b % Align = 0 /\ 0 < r[b].size /\ b + r[b].size \in DOMAIN r
             /\ \A x \in DOMAIN r : x <= b \/ b + r[b].size <= x
  <2>1. b \in Inside(k) /\ b \in DOMAIN k /\ b \in DOMAIN r
    BY <1>2 DEF Inside
  <2>2. CASE b = c
    <3>1. b + r[b].size = e
      BY <1>1, <2>2 DEF Spanned
    <3> QED
      BY <1>1, <1>2, <1>3, <2>1, <2>2, <3>1 DEF Laid, Spanned
  <2>3. CASE b # c
    <3>1. r[b] = k[b]
      BY <2>1, <2>3 DEF Spanned
    <3>2. b % Align = 0 /\ 0 < k[b].size /\ b + k[b].size \in DOMAIN k
          /\ \A x \in DOMAIN k : x <= b \/ b + k[b].size <= x
      BY <2>1 DEF Laid
    <3>3. b + k[b].size <= c \/ e <= b + k[b].size
      <4>1. b < c \/ e <= b
        BY <1>1, <1>2, <2>1, <2>3
      <4>2. c <= b \/ b + k[b].size <= c
        BY <1>1, <3>2
      <4> QED
        BY <1>1, <2>1, <4>1, <4>2
    <3>4. b + k[b].size \in DOMAIN r
      BY <3>2, <3>3 DEF Spanned
    <3> QED
      BY <1>2, <3>1, <3>2, <3>4
  <2> QED
    BY <2>2, <2>3
<1> QED
  BY <1>4, <1>5, <1>6 DEF Laid, Spanned

\* Where the walk of prvInsertBlockIntoFreeList stops.
LEMMA BeforeIs ==
    ASSUME HeapSetting, NEW k, NEW l, Laid(k), Chained(k, l), NEW b \in Inside(k),
           b \notin DOMAIN l
    PROVE  LET a == Heap!Before([blk |-> k, link |-> l], b)
           IN  a \in DOMAIN l /\ a \in Nat /\ a < b /\ b < l[a] /\ l[a] \in DOMAIN k
<1> DEFINE h == [blk |-> k, link |-> l]
           D == {a \in DOMAIN l : a < b}
<1>1. /\ \A x \in DOMAIN k : x \in Nat /\ x <= Heap!End
      /\ b \in DOMAIN k /\ b # Heap!End /\ 0 < b
  BY LaidTypes DEF Inside
<1>2. \A a \in DOMAIN l : a \in Nat /\ a <= Heap!End /\ l[a] \in DOMAIN k
  BY <1>1, HeapTypes DEF Chained, Inside
<1>3. PICK a \in D : \A c \in D : c <= a
  <2>1. 0 \in D
    BY <1>1 DEF Chained
  <2>2. D \subseteq 0..Heap!End /\ Heap!End \in Nat
    BY <1>2, HeapTypes
  <2> HIDE DEF D
  <2> QED
    BY <2>1, <2>2, GreatestNat
<1>4. a \in DOMAIN l /\ a < b /\ b <= l[a]
  <2>1. CASE l[a] < b
    <3>1. l[a] \in DOMAIN l
      BY <1>1, <1>2, <1>3, <2>1, HeapTypes DEF Chained, Laid
    <3>2. a < l[a] /\ l[a] \in D
      BY <1>3, <2>1, <3>1 DEF Chained
    <3> QED
      BY <1>2, <1>3, <3>1, <3>2
  <2> QED
    BY <1>1, <1>2, <1>3, <2>1
<1>5. \E x \in DOMAIN l : x < b /\ b <= l[x]
  BY <1>4
<1>6. h.link = l
  OBVIOUS
<1> DEFINE it == Heap!Before(h, b)
<1> HIDE DEF h
<1>7. it \in DOMAIN l /\ it < b /\ b <= l[it]
  BY <1>5, <1>6, Zenon DEF Heap!Before
<1> HIDE DEF it
<1>8. b # l[it]
  BY <1>1, <1>7 DEF Chained
<1> QED
  BY <1>1, <1>2, <1>7, <1>8 DEF it, h

\* The block b is put behind it and becomes the block from c to e, followed in the list
\* by g; the blocks F leave the list. It is merged with neighbours that touch it.
Placed(k, l, b, rb, rl, it, c, e, g, F) ==
    /\ it \in DOMAIN l /\ c \in Inside(k) /\ e \in DOMAIN k /\ g \in DOMAIN k
    /\ F \subseteq DOMAIN l
    /\ it < b /\ b < l[it] /\ c <= b /\ b + k[b].size <= e
    /\ \/ c = b /\ (it = 0 \/ it + k[it].size # b)
       \/ c = it /\ it # 0 /\ it + k[it].size = b
    /\ \/ F = {} /\ g = l[it] /\ e = b + k[b].size /\ (e # g \/ g = Heap!End)
       \/ /\ F = {l[it]} /\ l[it] # Heap!End /\ b + k[b].size = l[it]
          /\ g = l[l[it]] /\ e = l[it] + k[l[it]].size
    /\ Spanned(k, rb, c, e)
    /\ DOMAIN rl = (DOMAIN l \ F) \cup {c} /\ rl[c] = g /\ rl = [x \in DOMAIN rl |-> rl[x]]
    /\ c # it => rl[it] = c
    /\ \A x \in DOMAIN rl : x # c /\ x # it => rl[x] = l[x]

\* What prvInsertBlockIntoFreeList does.
LEMMA InsertPlaces ==
    ASSUME HeapSetting, NEW k, NEW l, Laid(k), Chained(k, l), NEW b \in Inside(k),
           b \notin DOMAIN l
    PROVE  LET r == Heap!InsertBlock([blk |-> k, link |-> l], b)
           IN  \E it, c, e, g, F : Placed(k, l, b, r.blk, r.link, it, c, e, g, F)
<1> DEFINE h == [blk |-> k, link |-> l]
           it == Heap!Before(h, b)
           nx == l[it]
           back == it # 0 /\ it + k[it].size = b
           c == IF back THEN it ELSE b
           size == k[b].size + (IF back THEN k[it].size ELSE 0)
           fwd == c + size = nx /\ nx # Heap!End
           total == size + (IF fwd THEN k[nx].size ELSE 0)
           rest == IF back THEN Heap!Drop(k, b) ELSE k
           new == [size |-> total, alloc |-> FALSE]
           grown == Heap!Put(rest, c, new)
           cut == IF fwd THEN Heap!Drop(l, nx) ELSE l
           g == IF fwd THEN l[nx] ELSE nx
           on == Heap!Put(cut, c, g)
           rb == IF fwd THEN Heap!Drop(grown, nx) ELSE grown
           rl == IF back THEN on ELSE Heap!Put(on, it, c)
           e == c + total
           F == IF fwd THEN {nx} ELSE {}
           r == Heap!InsertBlock(h, b)
<1>1. r = [blk |-> rb, link |-> rl]
  <2>1. h.blk = k /\ h.link = l /\ Heap!Start = 0
    BY HeapTypes
  <2> QED
    BY <2>1, Zenon DEF Heap!InsertBlock
<1>2. it \in DOMAIN l /\ it \in Nat /\ it < b /\ b < nx /\ nx \in DOMAIN k
  BY BeforeIs
<1> HIDE DEF it, h, r, rb, rl
<1>3. /\ b \in DOMAIN k /\ b \in Nat /\ k[b].size \in Nat /\ 0 < k[b].size
      /\ b + k[b].size \in DOMAIN k /\ b + k[b].size <= nx /\ b # Heap!End /\ nx \in Nat
      /\ b % Align = 0
  <2>1. b \in DOMAIN k /\ b # Heap!End
    BY DEF Inside
  <2>2. nx <= b \/ b + k[b].size <= nx
    BY <1>2 DEF Laid
  <2>3. b % Align = 0
    BY DEF Laid
  <2> QED
    BY <1>2, <2>1, <2>2, <2>3, LaidTypes
<1>4. it # 0 => /\ it \in Inside(k) /\ it \in DOMAIN k /\ k[it].size \in Nat /\ 0 < k[it].size
                /\ it + k[it].size <= b
  <2> SUFFICES ASSUME it # 0 PROVE /\ it \in Inside(k) /\ it \in DOMAIN k /\ k[it].size \in Nat
                                   /\ 0 < k[it].size /\ it + k[it].size <= b
    OBVIOUS
  <2>1. it \in Inside(k) /\ it \in DOMAIN k
    BY <1>2 DEF Chained, Inside
  <2>2. b <= it \/ it + k[it].size <= b
    BY <1>3, <2>1 DEF Laid
  <2> QED
    BY <1>2, <1>3, <2>1, <2>2, LaidTypes
<1>5. /\ c \in Inside(k) /\ c \in DOMAIN k /\ c \in Nat /\ size \in Nat /\ c + size = b + k[b].size
      /\ c <= b /\ 0 < size
  BY <1>2, <1>3, <1>4
<1>6. fwd => /\ b + k[b].size = nx /\ nx \in Inside(k) /\ nx \in DOMAIN l /\ l[nx] \in DOMAIN k
             /\ k[nx].size \in Nat /\ 0 < k[nx].size /\ nx + k[nx].size \in DOMAIN k
             /\ nx # it /\ nx # c /\ nx # b
  <2> SUFFICES ASSUME fwd
               PROVE  /\ b + k[b].size = nx /\ nx \in Inside(k) /\ nx \in DOMAIN l
                      /\ l[nx] \in DOMAIN k
                      /\ k[nx].size \in Nat /\ 0 < k[nx].size /\ nx + k[nx].size \in DOMAIN k
                      /\ nx # it /\ nx # c /\ nx # b
    OBVIOUS
  <2>1. b + k[b].size = nx /\ nx # Heap!End
    BY <1>5
  <2>2. nx \in Inside(k) /\ nx \in DOMAIN l /\ l[nx] \in DOMAIN k
    BY <1>2, <2>1 DEF Chained, Inside
  <2>3. k[nx].size \in Nat /\ 0 < k[nx].size /\ nx + k[nx].size \in DOMAIN k
    BY <2>2, LaidTypes DEF Inside
  <2> QED
    BY <1>2, <1>3, <2>1, <2>2, <2>3
<1>7. /\ e = (IF fwd THEN nx + k[nx].size ELSE b + k[b].size)
      /\ e \in DOMAIN k /\ e \in Nat /\ b + k[b].size <= e /\ c < e /\ total \in Nat
      /\ e = c + total
  BY <1>2, <1>3, <1>5, <1>6
<1>8. total <= Total
  <2>1. e <= Heap!End /\ Heap!First <= c
    BY <1>5, <1>7, LaidTypes
  <2> QED
    BY <1>5, <1>7, <2>1, HeapTypes
<1> HIDE DEF e, total, size
<1>9. new \in Entries
  BY <1>7, <1>8, HeapTypes DEF Entries
<1>10. /\ DOMAIN rest = DOMAIN k \ (IF back THEN {b} ELSE {})
       /\ \A x \in DOMAIN rest : rest[x] = k[x]
  BY DEF Heap!Drop
<1> HIDE DEF rest
<1>11. /\ DOMAIN grown = DOMAIN rest \cup {c} /\ grown[c] = new
       /\ \A x \in DOMAIN rest \ {c} : grown[x] = k[x]
       /\ grown = [x \in DOMAIN grown |-> grown[x]]
  BY <1>10 DEF Heap!Put
<1> HIDE DEF grown, new
<1>12. /\ DOMAIN rb = DOMAIN grown \ F /\ rb = [x \in DOMAIN rb |-> rb[x]]
       /\ \A x \in DOMAIN rb : rb[x] = grown[x]
  BY <1>11 DEF Heap!Drop, rb
<1>13. c \in DOMAIN rb /\ rb[c] = new
  BY <1>6, <1>11, <1>12
<1>14. ASSUME NEW x \in DOMAIN k
       PROVE  (c < x /\ x < e) <=> ((x = b /\ back) \/ (x = nx /\ fwd))
  <2>1. x \in Nat
    BY LaidTypes
  <2>2. x <= b \/ b + k[b].size <= x
    BY DEF Laid
  <2>3. back => x <= it \/ b <= x
    <3>1. back => x <= it \/ it + k[it].size <= x
      BY <1>4 DEF Laid
    <3> QED
      BY <3>1
  <2>4. fwd => x <= nx \/ nx + k[nx].size <= x
    BY <1>6 DEF Laid
  <2>5. CASE back
    BY <1>2, <1>3, <1>5, <1>6, <1>7, <2>1, <2>2, <2>3, <2>4, <2>5
  <2>6. CASE ~back
    BY <1>2, <1>3, <1>5, <1>6, <1>7, <2>1, <2>2, <2>4, <2>6
  <2> QED
    BY <2>5, <2>6
<1>15. DOMAIN rb = {x \in DOMAIN k : x <= c \/ e <= x}
  <2>1. DOMAIN rb = ((DOMAIN k \ (IF back THEN {b} ELSE {})) \cup {c}) \ F
    BY <1>10, <1>11, <1>12
  <2>2. c \in DOMAIN k /\ c \notin F /\ (back => c # b)
    BY <1>2, <1>5, <1>6
  <2>3. ASSUME NEW x \in DOMAIN k
        PROVE  x \in DOMAIN rb <=> (x <= c \/ e <= x)
    <3>1. x \in Nat
      BY LaidTypes
    <3>2. x \in DOMAIN rb <=> ~((x = b /\ back) \/ (x = nx /\ fwd))
      BY <2>1, <2>2
    <3>3. (x <= c \/ e <= x) <=> ~(c < x /\ x < e)
      BY <1>5, <1>7, <3>1
    <3> QED
      BY <1>14, <3>2, <3>3
  <2>4. DOMAIN rb \subseteq DOMAIN k
    BY <2>1, <2>2
  <2> QED
    BY <2>3, <2>4
<1>16. \A x \in DOMAIN rb \ {c} : rb[x] = k[x]
  BY <1>11, <1>12
<1>17. Spanned(k, rb, c, e)
  <2>1. \A x \in DOMAIN k : k[x] \in Entries
    BY DEF Laid
  <2>2. \A x \in DOMAIN rb : rb[x] \in Entries
    BY <1>9, <1>13, <1>15, <1>16, <2>1
  <2>3. rb \in [DOMAIN rb -> Entries]
    BY <1>12, <2>2
  <2>4. rb[c].size = e - c /\ ~rb[c].alloc
    BY <1>5, <1>7, <1>13 DEF new
  <2> QED
    BY <1>15, <1>16, <2>3, <2>4 DEF Spanned
<1>18. DOMAIN cut = DOMAIN l \ F /\ \A x \in DOMAIN cut : cut[x] = l[x]
  BY DEF Heap!Drop
<1> HIDE DEF cut
<1>19. /\ DOMAIN on = DOMAIN cut \cup {c} /\ on[c] = g
       /\ \A x \in DOMAIN cut \ {c} : on[x] = l[x]
       /\ on = [x \in DOMAIN on |-> on[x]]
  BY <1>18 DEF Heap!Put
<1> HIDE DEF on
<1>20. it \in DOMAIN l \ F
  BY <1>2, <1>6
<1>21. /\ DOMAIN rl = (DOMAIN l \ F) \cup {c} /\ rl[c] = g
       /\ c # it => rl[it] = c
       /\ \A x \in DOMAIN rl : x # c /\ x # it => rl[x] = l[x]
       /\ rl = [x \in DOMAIN rl |-> rl[x]]
  <2>1. CASE back
    <3>1. rl = on /\ c = it
      BY <2>1 DEF rl
    <3> QED
      BY <1>18, <1>19, <1>20, <3>1
  <2>2. CASE ~back
    <3>1. rl = Heap!Put(on, it, c) /\ c # it
      BY <1>2, <1>3, <2>2 DEF rl
    <3>2. /\ DOMAIN rl = DOMAIN on \cup {it} /\ rl[it] = c
          /\ \A x \in DOMAIN on \ {it} : rl[x] = on[x]
          /\ rl = [x \in DOMAIN rl |-> rl[x]]
      BY <3>1 DEF Heap!Put
    <3> QED
      BY <1>18, <1>19, <1>20, <3>1, <3>2
  <2> QED
    BY <2>1, <2>2
<1>22. g \in DOMAIN k /\ F \subseteq DOMAIN l
  BY <1>2, <1>6
<1>23. \/ c = b /\ (it = 0 \/ it + k[it].size # b)
       \/ c = it /\ it # 0 /\ it + k[it].size = b
  OBVIOUS
<1>24. \/ F = {} /\ g = l[it] /\ e = b + k[b].size /\ (e # g \/ g = Heap!End)
       \/ /\ F = {l[it]} /\ l[it] # Heap!End /\ b + k[b].size = l[it]
          /\ g = l[l[it]] /\ e = l[it] + k[l[it]].size
  <2>1. CASE fwd
    BY <1>6, <1>7, <2>1
  <2>2. CASE ~fwd
    <3>1. e # nx \/ nx = Heap!End
      BY <1>5, <1>7, <2>2
    <3> QED
      BY <1>7, <2>2, <3>1
  <2> QED
    BY <2>1, <2>2
<1>25. r.blk = rb /\ r.link = rl
  BY <1>1
<1> HIDE DEF c, F, g
<1>26. /\ it \in DOMAIN l /\ c \in Inside(k) /\ e \in DOMAIN k /\ g \in DOMAIN k
       /\ F \subseteq DOMAIN l
  BY <1>2, <1>5, <1>7, <1>22
<1>27. it < b /\ b < l[it] /\ c <= b /\ b + k[b].size <= e
  BY <1>2, <1>5, <1>7
<1>28. Placed(k, l, b, r.blk, r.link, it, c, e, g, F)
  BY <1>17, <1>21, <1>23, <1>24, <1>25, <1>26, <1>27, Zenon DEF Placed
<1> QED
  BY <1>28, Zenon DEF r, h

\* Merging keeps the list in order, and leaves no two of its blocks that touch; of the
\* other blocks only b is gone, and its bytes are spare.
LEMMA PlacedKeeps ==
    ASSUME HeapSetting, NEW k, NEW l, Laid(k), Chained(k, l), Fused(k, l), NEW b \in Inside(k),
           b \notin DOMAIN l, ~k[b].alloc, NEW rb, NEW rl, NEW it, NEW c, NEW e, NEW g, NEW F,
           Placed(k, l, b, rb, rl, it, c, e, g, F)
    PROVE  /\ Laid(rb) /\ Chained(rb, rl) /\ Fused(rb, rl)
           /\ Unlisted(rb, rl) = Unlisted(k, l) \ {b}
           /\ \A x \in Unlisted(rb, rl) : rb[x] = k[x]
           /\ Spare(rb, rl) = Spare(k, l) \cup (b..(b + k[b].size - 1))
<1> DEFINE nx == l[it]
           s == k[b].size
<1>1. /\ it \in DOMAIN l /\ c \in Inside(k) /\ e \in DOMAIN k /\ g \in DOMAIN k
      /\ F \subseteq DOMAIN l
      /\ it < b /\ b < nx /\ c <= b /\ b + s <= e
      /\ \/ c = b /\ (it = 0 \/ it + k[it].size # b)
         \/ c = it /\ it # 0 /\ it + k[it].size = b
      /\ \/ F = {} /\ g = nx /\ e = b + s /\ (e # g \/ g = Heap!End)
         \/ F = {nx} /\ nx # Heap!End /\ b + s = nx /\ g = l[nx] /\ e = nx + k[nx].size
      /\ Spanned(k, rb, c, e)
      /\ DOMAIN rl = (DOMAIN l \ F) \cup {c} /\ rl[c] = g
      /\ c # it => rl[it] = c
      /\ \A x \in DOMAIN rl : x # c /\ x # it => rl[x] = l[x]
      /\ rl = [x \in DOMAIN rl |-> rl[x]]
  BY DEF Placed
<1>2. /\ \A x \in DOMAIN k : x \in Nat /\ 0 < x /\ k[x].size \in Nat /\ x <= Heap!End
      /\ \A x \in Inside(k) : x \in DOMAIN k /\ x < Heap!End /\ 0 < k[x].size
                              /\ x + k[x].size \in DOMAIN k /\ x + k[x].size <= Heap!End
      /\ \A x \in Inside(k), y \in DOMAIN k : y <= x \/ x + k[x].size <= y
  BY LaidTypes DEF Inside, Laid
<1>3. /\ \A x \in DOMAIN l : x \in Nat /\ l[x] \in DOMAIN k /\ x < l[x]
                             /\ (l[x] = Heap!End \/ l[x] \in DOMAIN l)
      /\ \A x \in DOMAIN l, y \in DOMAIN l : y <= x \/ l[x] <= y
      /\ \A x \in DOMAIN l : x # 0 => x \in Inside(k) /\ ~k[x].alloc
      /\ 0 \in DOMAIN l
  BY <1>2 DEF Chained
<1>4. /\ b \in DOMAIN k /\ b \in Nat /\ s \in Nat /\ 0 < s /\ b + s \in DOMAIN k /\ it \in Nat
      /\ nx \in DOMAIN k /\ nx \in Nat /\ c \in DOMAIN k /\ c \in Nat /\ e \in Nat /\ g \in Nat
      /\ c # Heap!End /\ 0 < c
  BY <1>1, <1>2, <1>3 DEF Inside
<1>5. b + s <= nx /\ c < e /\ it <= c /\ c # nx
  BY <1>1, <1>2, <1>4
<1>6. Laid(rb)
  BY <1>1, <1>5, SpannedLaid
<1>7. DOMAIN rb = {x \in DOMAIN k : x <= c \/ e <= x} /\ (\A x \in DOMAIN rb \ {c} : rb[x] = k[x])
      /\ rb[c].size = e - c /\ ~rb[c].alloc /\ c \in DOMAIN rb
  BY <1>1, <1>4 DEF Spanned
<1> HIDE DEF s
\* The list has nothing between it and nx, and a block that touches b from below is it.
<1>8. ASSUME NEW x \in DOMAIN l, x # it, x # nx PROVE x < it \/ nx < x
  <2>1. x <= it \/ nx <= x
    BY <1>1, <1>3
  <2> QED
    BY <1>3, <1>4, <1>8, <2>1
<1>9. \A x \in DOMAIN rl : x = c \/ (x \in DOMAIN l /\ x \notin F)
  BY <1>1
<1>10. ASSUME NEW x \in DOMAIN l, x \notin F PROVE x = 0 \/ x \in DOMAIN rb
  <2>1. x = 0 \/ x \in DOMAIN k
    BY <1>3 DEF Inside
  <2>2. x <= c \/ e <= x
    <3>1. CASE x = it
      BY <1>5, <3>1
    <3>2. CASE x = nx
      BY <1>1, <1>5, <1>10, <3>2
    <3>3. CASE x # it /\ x # nx
      <4>1. x < it \/ nx < x
        BY <1>8, <3>3
      <4>2. nx < x /\ nx \in Inside(k) => nx + k[nx].size <= x
        BY <1>2, <1>3, <1>4, <2>1, <4>1
      <4>3. nx < x => nx \in Inside(k)
        BY <1>2, <1>3, <1>4, <2>1 DEF Inside
      <4> QED
        BY <1>1, <1>3, <1>4, <1>5, <4>1, <4>2, <4>3
    <3> QED
      BY <3>1, <3>2, <3>3
  <2> QED
    BY <1>7, <2>1, <2>2
<1>11. g \in DOMAIN rb /\ (g = Heap!End \/ g \in DOMAIN rl) /\ e <= g /\ c < g
  <2>1. CASE F = {} /\ g = nx /\ e = b + s
    BY <1>1, <1>3, <1>4, <1>5, <1>7, <2>1
  <2>2. CASE F = {nx} /\ nx # Heap!End /\ b + s = nx /\ g = l[nx] /\ e = nx + k[nx].size
    <3>1. nx \in DOMAIN l /\ nx \in Inside(k)
      BY <1>1, <1>3, <1>4, <2>2 DEF Inside
    <3>2. nx < g /\ (g = Heap!End \/ g \in DOMAIN l) /\ e <= g
      BY <1>2, <1>3, <1>4, <2>2, <3>1
    <3>3. g # nx
      BY <1>4, <3>2
    <3> QED
      BY <1>1, <1>4, <1>5, <1>7, <2>2, <3>2, <3>3
  <2> QED
    BY <1>1, <2>1, <2>2
<1>12. ASSUME NEW x \in DOMAIN rl, x # c, x # it
       PROVE  rl[x] = l[x] /\ x \in DOMAIN l /\ x \notin F /\ l[x] \notin F /\ (x < it \/ e <= x)
  <2>1. rl[x] = l[x] /\ x \in DOMAIN l /\ x \notin F
    BY <1>1, <1>9, <1>12
  <2>2. l[x] \notin F
    <3>1. CASE l[x] = nx
      <4>1. it <= x \/ nx <= it
        BY <1>1, <1>3, <2>1, <3>1
      <4>2. x <= it \/ nx <= x
        BY <1>1, <1>3, <2>1
      <4> QED
        BY <1>1, <1>3, <1>4, <1>12, <2>1, <3>1, <4>1, <4>2
    <3> QED
      BY <1>1, <3>1
  <2>3. x < it \/ e <= x
    <3>1. x = 0 \/ x \in DOMAIN rb
      BY <1>10, <2>1
    <3>2. x <= c \/ e <= x
      BY <1>3, <1>4, <1>7, <2>1, <3>1
    <3>3. x <= it \/ nx <= x
      BY <1>1, <1>3, <2>1
    <3> QED
      BY <1>1, <1>3, <1>4, <1>5, <1>12, <2>1, <3>2, <3>3
  <2> QED
    BY <2>1, <2>2, <2>3
<1>13. ASSUME NEW x \in DOMAIN rl
       PROVE  /\ rl[x] \in DOMAIN rb /\ x < rl[x] /\ (rl[x] = Heap!End \/ rl[x] \in DOMAIN rl)
              /\ \A y \in DOMAIN rl : y <= x \/ rl[x] <= y
  <2>1. CASE x = c
    <3>1. rl[x] = g
      BY <1>1, <2>1
    <3>2. ASSUME NEW y \in DOMAIN rl, y # c PROVE y <= c \/ g <= y
      <4>1. CASE y = it
        BY <1>5, <4>1
      <4>2. CASE y # it
        <5>1. y \in DOMAIN l /\ y \notin F /\ (y < it \/ e <= y)
          BY <1>12, <3>2, <4>2
        <5>2. y <= it \/ nx <= y
          BY <1>1, <1>3, <5>1
        <5>3. F = {nx} => nx \in DOMAIN l
          BY <1>1
        <5>4. F = {nx} => y <= nx \/ l[nx] <= y
          BY <1>3, <5>1, <5>3
        <5> QED
          BY <1>1, <1>3, <1>4, <1>5, <5>1, <5>2, <5>4
      <4> QED
        BY <4>1, <4>2
    <3> QED
      BY <1>4, <1>11, <2>1, <3>1, <3>2
  <2>2. CASE x = it /\ x # c
    <3>1. rl[x] = c
      BY <1>1, <2>2
    <3>2. ASSUME NEW y \in DOMAIN rl, y # c, y # it PROVE y <= it \/ c <= y
      <4>1. y < it \/ e <= y
        BY <1>12, <3>2
      <4>2. y \in Nat
        BY <1>3, <1>9, <3>2
      <4> QED
        BY <1>4, <1>5, <4>1, <4>2
    <3> QED
      BY <1>1, <1>4, <1>5, <1>7, <2>2, <3>1, <3>2
  <2>3. CASE x # it /\ x # c
    <3>1. rl[x] = l[x] /\ x \in DOMAIN l /\ l[x] \notin F /\ (x < it \/ e <= x)
      BY <1>12, <2>3
    <3>2. x < l[x] /\ (l[x] = Heap!End \/ l[x] \in DOMAIN rl)
      BY <1>1, <1>3, <3>1
    <3>3. l[x] \in DOMAIN rb
      <4>1. l[x] # 0 /\ l[x] \in DOMAIN k
        BY <1>3, <3>1
      <4>2. CASE l[x] = Heap!End
        BY <1>6, <4>2 DEF Laid
      <4>3. CASE l[x] \in DOMAIN l
        BY <1>10, <3>1, <4>1, <4>3
      <4> QED
        BY <1>3, <3>1, <4>2, <4>3
    <3>4. ASSUME NEW y \in DOMAIN rl PROVE y <= x \/ l[x] <= y
      <4>1. CASE y \in DOMAIN l
        BY <1>3, <3>1, <4>1
      <4>2. CASE y = c
        <5>1. it <= x \/ l[x] <= it
          BY <1>1, <1>3, <3>1
        <5>2. x <= it \/ nx <= x
          BY <1>1, <1>3, <3>1
        <5>3. l[x] \in Nat /\ x \in Nat
          BY <1>2, <1>3, <3>1
        <5> QED
          BY <1>1, <1>4, <1>5, <2>3, <4>2, <5>1, <5>2, <5>3
      <4> QED
        BY <1>9, <4>1, <4>2
    <3> QED
      BY <3>1, <3>2, <3>3, <3>4
  <2> QED
    BY <2>1, <2>2, <2>3
<1>14. Chained(rb, rl)
  <2>1. 0 \in DOMAIN rl
    BY <1>1, <1>3, <1>4
  <2>2. ASSUME NEW x \in DOMAIN rl \ {0} PROVE x \in Inside(rb) /\ ~rb[x].alloc
    <3>1. CASE x = c
      BY <1>4, <1>7, <3>1 DEF Inside
    <3>2. CASE x # c
      <4>1. x \in DOMAIN l /\ x \notin F
        BY <1>9, <3>2
      <4>2. x \in DOMAIN rb /\ x \in Inside(k) /\ ~k[x].alloc
        BY <1>3, <1>10, <4>1
      <4> QED
        BY <1>7, <3>2, <4>2 DEF Inside
    <3> QED
      BY <3>1, <3>2
  <2>3. rl \in [DOMAIN rl -> DOMAIN rb]
    BY <1>1, <1>13
  <2> QED
    BY <1>13, <2>1, <2>2, <2>3 DEF Chained
<1>15. Fused(rb, rl)
  <2> SUFFICES ASSUME NEW x \in DOMAIN rl \ {0}, x + rb[x].size \in DOMAIN rl PROVE FALSE
    BY DEF Fused
  <2> DEFINE y == x + rb[x].size
  <2>1. \A z \in DOMAIN l \ {0} : z + k[z].size \notin DOMAIN l
    BY DEF Fused
  <2>2. CASE x = c
    <3>1. y = e
      BY <1>4, <1>7, <2>2
    <3>2. e \in DOMAIN l /\ e \notin F
      BY <1>4, <1>5, <1>9, <3>1
    <3>3. CASE F = {} /\ g = nx /\ e = b + s /\ (e # g \/ g = Heap!End)
      <4>1. e <= it \/ nx <= e
        BY <1>1, <1>3, <3>2
      <4>2. e = nx
        BY <1>1, <1>4, <1>5, <3>3, <4>1
      <4>3. Heap!End \notin DOMAIN l
        BY <1>3, <1>4, HeapTypes DEF Inside
      <4> QED
        BY <3>2, <3>3, <4>2, <4>3
    <3>4. CASE F = {nx} /\ nx # Heap!End /\ b + s = nx /\ g = l[nx] /\ e = nx + k[nx].size
      BY <1>1, <1>4, <2>1, <3>2, <3>4
    <3> QED
      BY <1>1, <3>3, <3>4
  <2>3. CASE x # c
    <3>1. x \in DOMAIN l /\ x \notin F /\ x \in DOMAIN rb /\ x \in Inside(k)
      BY <1>3, <1>9, <1>10, <2>3
    <3>2. rb[x] = k[x]
      BY <1>7, <2>3, <3>1
    <3>3. y \notin DOMAIN l
      BY <2>1, <3>1, <3>2
    <3>4. y = c
      BY <1>9, <3>3
    <3>5. c = b /\ (it = 0 \/ it + k[it].size # b)
      BY <1>1, <3>3, <3>4
    <3>6. x < b
      BY <1>2, <1>4, <3>1, <3>2, <3>4, <3>5
    <3>7. x <= it
      <4>1. x <= it \/ nx <= x
        BY <1>1, <1>3, <3>1
      <4> QED
        BY <1>1, <1>2, <1>4, <3>1, <3>6, <4>1
    <3>8. CASE x = it
      BY <3>2, <3>4, <3>5, <3>8
    <3>9. CASE x < it
      <4>1. it \in DOMAIN k
        BY <1>1, <1>3, <1>4, <3>9, <1>2, <3>1 DEF Inside
      <4>2. it <= x \/ x + k[x].size <= it
        BY <1>2, <3>1, <4>1
      <4> QED
        BY <1>1, <1>2, <1>4, <3>1, <3>2, <3>4, <3>5, <3>9, <4>2
    <3> QED
      BY <1>2, <1>4, <3>1, <3>7, <3>8, <3>9
  <2> QED
    BY <2>2, <2>3
<1>16. ASSUME NEW x \in DOMAIN k, c < x, x < e PROVE x = b \/ x \in F
  <2>1. x <= b \/ b + s <= x
    BY <1>2 DEF s
  <2>2. c = it /\ it # 0 /\ it + k[it].size = b => b <= x
    <3> SUFFICES ASSUME c = it, it + k[it].size = b PROVE b <= x
      OBVIOUS
    <3>1. x <= c \/ c + k[c].size <= x
      BY <1>1, <1>2
    <3> QED
      BY <1>2, <1>4, <1>16, <3>1
  <2>3. c <= x /\ x \in Nat
    BY <1>2, <1>4, <1>16
  <2>4. F = {nx} /\ nx # Heap!End => x <= nx \/ nx + k[nx].size <= x
    BY <1>2, <1>4 DEF Inside
  <2>5. b <= x
    BY <1>1, <2>2, <2>3
  <2> QED
    BY <1>1, <1>4, <1>16, <2>1, <2>3, <2>4, <2>5
<1>17. Unlisted(rb, rl) = Unlisted(k, l) \ {b}
  <2>1. ASSUME NEW x \in Unlisted(rb, rl) PROVE x \in Unlisted(k, l) \ {b}
    <3>1. /\ x \in DOMAIN k /\ (x <= c \/ e <= x) /\ x \in Nat /\ x # c
          /\ (x \notin DOMAIN l \/ x \in F)
      BY <1>1, <1>2, <1>4, <1>7 DEF Unlisted
    <3>2. x \notin F
      <4>1. F = {nx} => c < nx /\ nx < e
        BY <1>1, <1>2, <1>3, <1>4, <1>5, <1>9 DEF Inside
      <4> QED
        BY <1>1, <1>4, <3>1, <4>1
    <3>3. x # b
      BY <1>1, <1>4, <3>1 DEF s
    <3> QED
      BY <3>1, <3>2, <3>3 DEF Unlisted
  <2>2. ASSUME NEW x \in Unlisted(k, l), x # b PROVE x \in Unlisted(rb, rl)
    <3>1. x \in DOMAIN k /\ x \notin DOMAIN l /\ x \in Nat
      BY <1>2, <1>3, <1>4 DEF Unlisted
    <3>2. x \notin F
      BY <1>1, <3>1
    <3>3. x <= c \/ e <= x
      BY <1>4, <1>16, <2>2, <3>1, <3>2
    <3>4. x # c
      BY <1>1, <2>2, <3>1
    <3> QED
      BY <1>1, <1>7, <3>1, <3>3, <3>4 DEF Unlisted
  <2> QED
    BY <2>1, <2>2
<1>18. ASSUME NEW x \in Unlisted(rb, rl) PROVE rb[x] = k[x]
  <2>1. x \in DOMAIN rb /\ x # c
    BY <1>1, <1>4 DEF Unlisted
  <2> QED
    BY <1>7, <2>1
<1>19. b \in Unlisted(k, l)
  BY <1>4 DEF Unlisted
<1>20. Spare(rb, rl) = Spare(k, l) \cup (b..(b + k[b].size - 1))
  <2>1. \A x \in Unlisted(k, l) : x \in Nat /\ k[x].size \in Nat
    BY <1>2 DEF Unlisted
  <2>2. ASSUME NEW x \in b..(b + s - 1), NEW u \in Unlisted(k, l), u # b
        PROVE  x < u \/ u + k[u].size <= x
    <3>1. u \in DOMAIN k
      BY DEF Unlisted
    <3>2. u <= b \/ b + s <= u
      BY <1>2, <3>1 DEF s
    <3>3. u # Heap!End => b <= u \/ u + k[u].size <= b
      BY <1>2, <1>4, <3>1 DEF Inside
    <3>4. u = Heap!End => b < u
      BY <1>2, <1>4, <2>2
    <3> QED
      BY <1>4, <2>1, <2>2, <3>2, <3>3, <3>4
  <2>3. \A x \in b..(b + s - 1) : x \in Heap!First..(Heap!End - 1)
    <3>1. Heap!First <= b /\ b + s <= Heap!End /\ Heap!First \in Nat /\ Heap!End \in Nat
      BY <1>2, <1>4, HeapTypes, LaidTypes DEF s
    <3> QED
      BY <1>4, <3>1
  <2>4. \A x \in Heap!First..(Heap!End - 1) : x < b \/ b + s <= x \/ x \in b..(b + s - 1)
    BY <1>4, HeapTypes
  <2>5. ASSUME NEW x PROVE x \in Spare(rb, rl) <=> x \in Spare(k, l) \/ x \in b..(b + s - 1)
    <3>1. x \in Spare(rb, rl) <=> /\ x \in Heap!First..(Heap!End - 1)
                                 /\ \A u \in Unlisted(k, l) \ {b} : x < u \/ u + k[u].size <= x
      BY <1>17, <1>18 DEF Spare
    <3>2. x \in Spare(k, l) <=> /\ x \in Heap!First..(Heap!End - 1)
                               /\ \A u \in Unlisted(k, l) : x < u \/ u + k[u].size <= x
      BY DEF Spare
    <3> QED
      BY <1>19, <2>2, <2>3, <2>4, <3>1, <3>2 DEF s
  <2> QED
    BY <2>5, Zenon DEF s
<1> QED
  BY <1>6, <1>14, <1>15, <1>17, <1>18, <1>20

\* Changing the flag of a block outside of the list changes nothing else.
LEMMA FlagKeeps ==
    ASSUME HeapSetting, NEW k, NEW l, Laid(k), Chained(k, l), Fused(k, l), NEW b \in Inside(k),
           b \notin DOMAIN l, NEW u \in BOOLEAN
    PROVE  LET r == [k EXCEPT ![b].alloc = u]
           IN  /\ Laid(r) /\ Chained(r, l) /\ Fused(r, l)
               /\ Unlisted(r, l) = Unlisted(k, l) /\ Spare(r, l) = Spare(k, l)
               /\ DOMAIN r = DOMAIN k /\ r[b].size = k[b].size /\ r[b].alloc = u
               /\ \A x \in DOMAIN k \ {b} : r[x] = k[x]
<1> DEFINE r == [k EXCEPT ![b].alloc = u]
<1>1. /\ DOMAIN r = DOMAIN k /\ r = [x \in DOMAIN k |-> r[x]]
      /\ r[b] = [k[b] EXCEPT !.alloc = u] /\ \A x \in DOMAIN k \ {b} : r[x] = k[x]
  BY DEF Inside, Laid
<1>2. b \in DOMAIN k /\ k[b] \in Entries
  BY LaidTypes DEF Inside
<1> HIDE DEF r
<1>3. r[b] \in Entries /\ r[b].size = k[b].size /\ r[b].alloc = u
  BY <1>1, <1>2 DEF Entries
<1>4. \A x \in DOMAIN k : r[x].size = k[x].size /\ r[x] \in Entries
  BY <1>1, <1>3 DEF Laid
<1>5. r \in [DOMAIN r -> Entries]
  BY <1>1, <1>4
<1>6. Inside(r) = Inside(k) /\ Unlisted(r, l) = Unlisted(k, l)
  BY <1>1 DEF Inside, Unlisted
<1>7. \A x \in Inside(k) : x \in DOMAIN k
  BY DEF Inside
<1>8. Laid(r)
  BY <1>1, <1>4, <1>5, <1>6, <1>7 DEF Laid
<1>9. \A a \in DOMAIN l \ {0} : a \in DOMAIN k /\ a # b
  BY <1>7 DEF Chained
<1>10. Chained(r, l)
  BY <1>1, <1>6, <1>9 DEF Chained
<1>11. Fused(r, l)
  BY <1>4, <1>9 DEF Fused
<1>12. Spare(r, l) = Spare(k, l)
  <2>1. \A x \in Unlisted(k, l) : r[x].size = k[x].size
    BY <1>4 DEF Unlisted
  <2> QED
    BY <1>6, <2>1 DEF Spare
<1> QED
  BY <1>1, <1>3, <1>6, <1>8, <1>10, <1>11, <1>12 DEF r

\* The block behind a leaves the list.
Without(l, a) == Heap!Drop(Heap!Put(l, a, l[l[a]]), l[a])

\* It leaves the bytes that it had and no others.
LEMMA TakenOut ==
    ASSUME HeapSetting, NEW k, NEW l, Laid(k), Chained(k, l), Fused(k, l), NEW a \in DOMAIN l,
           l[a] # Heap!End
    PROVE  LET L == Without(l, a)
               b == l[a]
           IN  /\ Chained(k, L) /\ Fused(k, L) /\ DOMAIN L = DOMAIN l \ {b}
               /\ b \in Inside(k) /\ b \in DOMAIN l /\ ~k[b].alloc
               /\ Unlisted(k, L) = Unlisted(k, l) \cup {b}
               /\ Spare(k, L) = Spare(k, l) \ (b..(b + k[b].size - 1))
               /\ b..(b + k[b].size - 1) \subseteq Spare(k, l)
<1> DEFINE b == l[a]
           t == Heap!Put(l, a, l[b])
           L == Without(l, a)
<1>1. /\ \A x \in DOMAIN k : x \in Nat /\ 0 < x /\ k[x].size \in Nat
      /\ \A x \in Inside(k) : x \in DOMAIN k
  BY LaidTypes DEF Inside
<1>2. /\ \A x \in DOMAIN l : x \in Nat /\ l[x] \in DOMAIN k /\ x < l[x]
                             /\ (l[x] = Heap!End \/ l[x] \in DOMAIN l)
      /\ \A x \in DOMAIN l, y \in DOMAIN l : y <= x \/ l[x] <= y
      /\ \A x \in DOMAIN l : x # 0 => x \in Inside(k) /\ ~k[x].alloc
      /\ 0 \in DOMAIN l
  BY <1>1 DEF Chained
<1>3. /\ a \in Nat /\ b \in DOMAIN l /\ b \in DOMAIN k /\ a < b /\ b \in Nat /\ b # 0
      /\ b \in Inside(k) /\ ~k[b].alloc /\ l[b] \in DOMAIN k /\ b < l[b] /\ k[b].size \in Nat
  BY <1>1, <1>2
<1>4. /\ DOMAIN L = DOMAIN l \ {b} /\ L[a] = l[b] /\ (\A x \in DOMAIN L \ {a} : L[x] = l[x])
      /\ L = [x \in DOMAIN L |-> L[x]]
  <2>1. DOMAIN t = DOMAIN l /\ t[a] = l[b] /\ \A x \in DOMAIN l \ {a} : t[x] = l[x]
    BY <1>3 DEF Heap!Put
  <2>2. L = Heap!Drop(t, b)
    BY DEF Without
  <2> HIDE DEF L, t
  <2>3. /\ DOMAIN L = DOMAIN t \ {b} /\ (\A x \in DOMAIN L : L[x] = t[x])
        /\ L = [x \in DOMAIN L |-> L[x]]
    BY <2>2 DEF Heap!Drop
  <2> QED
    BY <1>3, <2>1, <2>3
<1> HIDE DEF L, b
<1>5. ASSUME NEW x \in DOMAIN L
      PROVE  /\ L[x] \in DOMAIN k /\ x < L[x] /\ (L[x] = Heap!End \/ L[x] \in DOMAIN L)
             /\ \A y \in DOMAIN L : y <= x \/ L[x] <= y
  <2>1. CASE x = a
    <3>1. L[x] = l[b]
      BY <1>4, <2>1
    <3>2. \A y \in DOMAIN l : (y <= a \/ b <= y) /\ (y <= b \/ l[b] <= y)
      BY <1>2, <1>3 DEF b
    <3>3. \A y \in DOMAIN L : y \in DOMAIN l /\ y # b /\ y \in Nat
      BY <1>2, <1>4
    <3>4. \A y \in DOMAIN L : y <= a \/ l[b] <= y
      BY <1>3, <3>2, <3>3
    <3>5. l[b] \in Nat
      BY <1>1, <1>3
    <3> QED
      BY <1>2, <1>3, <1>4, <2>1, <3>1, <3>4, <3>5
  <2>2. CASE x # a
    <3>1. L[x] = l[x] /\ x \in DOMAIN l /\ x # b /\ x \in Nat
      BY <1>2, <1>4, <2>2
    <3>2. l[x] # b
      <4>1. a <= x \/ l[x] <= a
        BY <1>2, <3>1
      <4>2. x <= a \/ b <= x
        BY <1>2, <3>1 DEF b
      <4>3. x < l[x] /\ l[x] \in Nat
        BY <1>1, <1>2, <3>1
      <4> QED
        BY <1>3, <2>2, <3>1, <4>1, <4>2, <4>3
    <3> QED
      BY <1>2, <1>4, <3>1, <3>2
  <2> QED
    BY <2>1, <2>2
<1>6. Chained(k, L)
  <2>1. 0 \in DOMAIN L
    BY <1>2, <1>3, <1>4
  <2>2. L \in [DOMAIN L -> DOMAIN k]
    BY <1>4, <1>5
  <2> QED
    BY <1>2, <1>4, <1>5, <2>1, <2>2 DEF Chained
<1>7. Fused(k, L)
  BY <1>4 DEF Fused
<1>8. Unlisted(k, L) = Unlisted(k, l) \cup {b}
  BY <1>3, <1>4 DEF Unlisted
<1>9. b..(b + k[b].size - 1) \subseteq Spare(k, l)
  <2> SUFFICES ASSUME NEW x \in b..(b + k[b].size - 1) PROVE x \in Spare(k, l)
    OBVIOUS
  <2>1. x \in Heap!First..(Heap!End - 1)
    <3>1. Heap!First <= b /\ b + k[b].size <= Heap!End /\ Heap!First \in Nat /\ Heap!End \in Nat
      BY <1>3, HeapTypes, LaidTypes
    <3> QED
      BY <1>3, <3>1
  <2>2. ASSUME NEW u \in Unlisted(k, l) PROVE x < u \/ u + k[u].size <= x
    <3>1. u \in DOMAIN k /\ u # b /\ u \in Nat /\ k[u].size \in Nat
      BY <1>1, <1>3 DEF Unlisted
    <3>2. u <= b \/ b + k[b].size <= u
      BY <1>3, <3>1 DEF Laid
    <3>3. CASE u = Heap!End
      BY <1>3, <2>1, <3>3, HeapTypes
    <3>4. CASE u # Heap!End
      <4>1. b <= u \/ u + k[u].size <= b
        BY <1>3, <3>1, <3>4 DEF Laid, Inside
      <4> QED
        BY <1>3, <3>1, <3>2, <4>1
    <3> QED
      BY <3>3, <3>4
  <2> QED
    BY <2>1, <2>2 DEF Spare
<1>10. Spare(k, L) = Spare(k, l) \ (b..(b + k[b].size - 1))
  <2>1. ASSUME NEW x
        PROVE  x \in Spare(k, L) <=> x \in Spare(k, l) /\ x \notin b..(b + k[b].size - 1)
    <3>1. x \in Spare(k, L) <=> x \in Spare(k, l) /\ (x < b \/ b + k[b].size <= x)
      BY <1>8 DEF Spare
    <3>2. x \in Spare(k, l) => x \in Nat
      BY HeapTypes DEF Spare
    <3> QED
      BY <1>3, <3>1, <3>2
  <2> QED
    BY <2>1
<1> QED
  BY <1>3, <1>4, <1>6, <1>7, <1>8, <1>9, <1>10 DEF L, b

\* A block outside of the list is cut in two.
Halved(k, b, w) ==
    Heap!Put(Heap!Put(k, b + w, [size |-> k[b].size - w, alloc |-> FALSE]),
             b, [size |-> w, alloc |-> FALSE])

\* The second half is a block of its own, which is not in the list yet.
LEMMA HalvedKeeps ==
    ASSUME HeapSetting, NEW k, NEW l, Laid(k), Chained(k, l), Fused(k, l), NEW b \in Inside(k),
           b \notin DOMAIN l, NEW w \in Nat, 0 < w, w < k[b].size, w % Align = 0
    PROVE  LET r == Halved(k, b, w)
           IN  /\ Laid(r) /\ Chained(r, l) /\ Fused(r, l)
               /\ b + w \in Inside(r) /\ b + w \notin DOMAIN l /\ b + w \notin DOMAIN k
               /\ ~r[b + w].alloc /\ r[b + w].size = k[b].size - w
               /\ Unlisted(r, l) = Unlisted(k, l) \cup {b + w} /\ Spare(r, l) = Spare(k, l)
               /\ r[b].size = w /\ \A x \in DOMAIN k \ {b} : r[x] = k[x]
<1> DEFINE q == b + w
           s == k[b].size
           r == Halved(k, b, w)
           hi == [size |-> s - w, alloc |-> FALSE]
           lo == [size |-> w, alloc |-> FALSE]
           t == Heap!Put(k, q, hi)
<1>1. /\ \A x \in DOMAIN k : x \in Nat /\ 0 < x /\ k[x].size \in Nat
      /\ \A x \in Inside(k) : x \in DOMAIN k /\ x # Heap!End /\ x + k[x].size \in DOMAIN k
                              /\ 0 < k[x].size /\ x % Align = 0
      /\ \A x \in Inside(k), y \in DOMAIN k : y <= x \/ x + k[x].size <= y
      /\ DOMAIN k \subseteq Heap!First..Heap!End
      /\ Heap!First \in DOMAIN k /\ Heap!End \in DOMAIN k /\ k[Heap!End].size = 0
  BY LaidTypes DEF Inside, Laid
<1>2. /\ b \in DOMAIN k /\ b \in Nat /\ s \in Nat /\ q \in Nat /\ b < q /\ q < b + s /\ s <= Total
      /\ Heap!First <= b /\ b + s <= Heap!End
  BY <1>1, LaidTypes
<1>3. q \notin DOMAIN k
  <2>1. q <= b \/ b + s <= q => q \notin DOMAIN k
    BY <1>2
  <2> QED
    BY <1>1, <1>2
<1>4. hi \in Entries /\ lo \in Entries
  BY <1>2, HeapTypes DEF Entries
<1>5. q % Align = 0
  BY <1>1, <1>2, AlignedSum
<1>6. /\ DOMAIN r = DOMAIN k \cup {q} /\ r[b] = lo /\ r[q] = hi
      /\ (\A x \in DOMAIN k \ {b} : r[x] = k[x]) /\ r = [x \in DOMAIN r |-> r[x]]
  <2>1. DOMAIN t = DOMAIN k \cup {q} /\ t[q] = hi /\ \A x \in DOMAIN k : t[x] = k[x]
    BY <1>3 DEF Heap!Put
  <2>2. r = Heap!Put(t, b, lo)
    BY DEF Halved
  <2> HIDE DEF t, hi, lo, r
  <2>3. DOMAIN r = DOMAIN t \cup {b} /\ r[b] = lo /\ (\A x \in DOMAIN t \ {b} : r[x] = t[x])
        /\ r = [x \in DOMAIN r |-> r[x]]
    BY <2>2 DEF Heap!Put
  <2> QED
    BY <1>2, <2>1, <2>3
<1>7. r[b].size = w /\ r[q].size = s - w /\ ~r[q].alloc
  BY <1>6
<1> HIDE DEF r, hi, lo
<1>8. r \in [DOMAIN r -> Entries]
  <2>1. \A x \in DOMAIN k : k[x] \in Entries
    BY DEF Laid
  <2>2. \A x \in DOMAIN r : r[x] \in Entries
    BY <1>4, <1>6, <2>1
  <2> QED
    BY <1>6, <2>2
<1>9. Inside(r) = Inside(k) \cup {q}
  BY <1>2, <1>6, HeapTypes DEF Inside
<1>10. ASSUME NEW x \in Inside(r)
       PROVE  /\ x % Align = 0 /\ 0 < r[x].size /\ x + r[x].size \in DOMAIN r
              /\ \A y \in DOMAIN r : y <= x \/ x + r[x].size <= y
  <2>1. CASE x = b
    <3>1. \A y \in DOMAIN k : y <= b \/ b + s <= y
      BY <1>1
    <3> QED
      BY <1>1, <1>2, <1>6, <1>7, <2>1, <3>1
  <2>2. CASE x = q
    <3>1. x + r[x].size = b + s
      BY <1>2, <1>7, <2>2
    <3>2. \A y \in DOMAIN k : y <= b \/ b + s <= y
      BY <1>1
    <3>3. \A y \in DOMAIN r : y <= q \/ b + s <= y
      BY <1>1, <1>2, <1>6, <3>2
    <3> QED
      BY <1>1, <1>2, <1>5, <1>6, <1>7, <2>2, <3>1, <3>3
  <2>3. CASE x \in Inside(k) /\ x # b
    <3>1. r[x] = k[x] /\ x \in DOMAIN k /\ x \in Nat
      BY <1>1, <1>6, <2>3
    <3>2. q <= x \/ x + k[x].size <= q
      <4>1. b <= x \/ x + k[x].size <= b
        BY <1>1, <1>2, <2>3
      <4>2. x <= b \/ b + s <= x
        BY <1>1, <3>1
      <4> QED
        BY <1>1, <1>2, <2>3, <3>1, <4>1, <4>2
    <3> QED
      BY <1>1, <1>6, <2>3, <3>1, <3>2
  <2> QED
    BY <1>9, <2>1, <2>2, <2>3
<1>11. Laid(r)
  <2>1. Heap!End # b
    BY <1>1
  <2> QED
    BY <1>1, <1>2, <1>6, <1>8, <1>10, <2>1, HeapTypes DEF Laid
<1>12. \A a \in DOMAIN l \ {0} : a \in Inside(k) /\ a \in DOMAIN k /\ a # b /\ r[a] = k[a]
  BY <1>1, <1>6 DEF Chained
<1>13. Chained(r, l)
  <2>1. l \in [DOMAIN l -> DOMAIN r]
    BY <1>6 DEF Chained
  <2> QED
    BY <1>9, <1>12, <2>1 DEF Chained
<1>14. Fused(r, l)
  BY <1>12 DEF Fused
<1>15. q \notin DOMAIN l
  BY <1>2, <1>3, <1>12
<1>16. Unlisted(r, l) = Unlisted(k, l) \cup {q}
  BY <1>6, <1>15 DEF Unlisted
<1>17. Spare(r, l) = Spare(k, l)
  <2>1. b \in Unlisted(k, l)
    BY <1>2 DEF Unlisted
  <2>2. \A u \in Unlisted(k, l) \ {b} : r[u] = k[u]
    BY <1>6 DEF Unlisted
  <2>3. ASSUME NEW x \in Heap!First..(Heap!End - 1)
        PROVE  (\A u \in Unlisted(r, l) : x < u \/ u + r[u].size <= x)
               <=> (\A u \in Unlisted(k, l) : x < u \/ u + k[u].size <= x)
    <3>1. x \in Nat
      BY HeapTypes
    <3>2. (x < b \/ b + w <= x) /\ (x < q \/ q + (s - w) <= x) <=> x < b \/ b + s <= x
      BY <1>2, <3>1
    <3> QED
      BY <1>7, <1>16, <2>1, <2>2, <3>2
  <2> QED
    BY <2>3 DEF Spare
<1> QED
  BY <1>3, <1>6, <1>7, <1>9, <1>11, <1>13, <1>14, <1>15, <1>16, <1>17 DEF r

-----------------------------------------------------------------------------
(* pvPortMalloc.                                                            *)

\* The spare bytes are those that no block outside of the list has, and those of the
\* blocks in the list.
LEMMA SpareIs ==
    ASSUME HeapSetting, Laid(blk), Chained(blk, link)
    PROVE  /\ Spare(blk, link) = (Heap!First..(Heap!End - 1)) \ Heap!InUse
           /\ Spare(blk, link) = Heap!BytesOf(Heap!Listed)
           /\ Heap!InUse \subseteq Heap!First..(Heap!End - 1)
           /\ IsFiniteSet(Spare(blk, link)) /\ Cardinality(Spare(blk, link)) \in 0..Total
<1>1. Heap!Headers \ Heap!Listed = Unlisted(blk, link)
  BY HeapTypes DEF Heap!Headers, Heap!Listed, Unlisted
<1>2. \A B \in SUBSET DOMAIN blk : \A x :
          x \in Heap!BytesOf(B) <=> \E b \in B : x \in b..(b + blk[b].size - 1)
  BY DEF Heap!BytesOf
<1>3. /\ \A b \in DOMAIN blk : b \in Nat /\ blk[b].size \in Nat /\ Heap!First <= b /\ b <= Heap!End
      /\ \A b \in Inside(blk) : b \in DOMAIN blk /\ b + blk[b].size <= Heap!End
      /\ blk[Heap!End].size = 0 /\ Heap!First \in Nat /\ Heap!End \in Nat
      /\ \A x \in Inside(blk), y \in DOMAIN blk : y <= x \/ x + blk[x].size <= y
  BY LaidTypes, HeapTypes DEF Inside, Laid
<1>4. ASSUME NEW b \in DOMAIN blk, NEW x \in b..(b + blk[b].size - 1)
      PROVE  x \in Heap!First..(Heap!End - 1) /\ b \in Inside(blk) /\ b <= x /\ x < b + blk[b].size
  <2>1. b \in Inside(blk)
    BY <1>3 DEF Inside
  <2> QED
    BY <1>3, <2>1
<1>5. Heap!InUse \subseteq Heap!First..(Heap!End - 1)
  BY <1>1, <1>2, <1>4 DEF Heap!InUse, Unlisted
<1>6. ASSUME NEW x \in Heap!First..(Heap!End - 1)
      PROVE  x \in Spare(blk, link) <=> x \notin Heap!InUse
  <2>1. x \in Heap!InUse <=> \E b \in Unlisted(blk, link) : x \in b..(b + blk[b].size - 1)
    BY <1>1, <1>2 DEF Heap!InUse, Unlisted
  <2>2. \A b \in Unlisted(blk, link) :
            x \in b..(b + blk[b].size - 1) <=> ~(x < b \/ b + blk[b].size <= x)
    BY <1>3 DEF Unlisted
  <2> QED
    BY <2>1, <2>2 DEF Spare
<1>7. Spare(blk, link) \subseteq Heap!First..(Heap!End - 1)
  BY DEF Spare
<1>8. Spare(blk, link) = (Heap!First..(Heap!End - 1)) \ Heap!InUse
  BY <1>6, <1>7
<1>9. Heap!Listed \subseteq Inside(blk) /\ Heap!Listed = DOMAIN link \ {0}
  BY HeapTypes DEF Heap!Listed, Chained
<1>10. ASSUME NEW x \in Spare(blk, link) PROVE x \in Heap!BytesOf(Heap!Listed)
  <2>1. PICK b \in Inside(blk) : b <= x /\ x < b + blk[b].size
    BY <1>7, Covered
  <2>2. b \in Heap!Listed
    <3>1. b \notin Unlisted(blk, link)
      BY <1>3, <1>7, <2>1 DEF Spare
    <3> QED
      BY <1>3, <1>9, <2>1, <3>1 DEF Unlisted
  <2>3. x \in b..(b + blk[b].size - 1)
    BY <1>3, <1>7, <2>1
  <2>4. Heap!Listed \in SUBSET DOMAIN blk
    BY <1>3, <1>9
  <2> QED
    BY <1>2, <2>2, <2>3, <2>4
<1>11. ASSUME NEW x \in Heap!BytesOf(Heap!Listed) PROVE x \in Spare(blk, link)
  <2>1. PICK b \in Heap!Listed : x \in b..(b + blk[b].size - 1)
    BY <1>2, <1>3, <1>9
  <2>2. x \in Heap!First..(Heap!End - 1) /\ b \in Inside(blk) /\ b <= x /\ x < b + blk[b].size
    BY <1>3, <1>4, <1>9, <2>1
  <2>3. ASSUME NEW u \in Unlisted(blk, link) PROVE x < u \/ u + blk[u].size <= x
    <3>1. u \in DOMAIN blk /\ u # b
      BY <1>9, <2>1, <1>3 DEF Unlisted
    <3>2. u <= b \/ b + blk[b].size <= u
      BY <1>3, <2>2, <3>1
    <3>3. CASE u \in Inside(blk)
      <4>1. b <= u \/ u + blk[u].size <= b
        BY <1>3, <2>2, <3>3
      <4> QED
        BY <1>3, <2>2, <3>1, <3>2, <4>1
    <3>4. CASE u = Heap!End
      BY <1>3, <2>2, <3>4
    <3> QED
      BY <3>1, <3>3, <3>4 DEF Inside
  <2> QED
    BY <2>2, <2>3 DEF Spare
<1>12. IsFiniteSet(Spare(blk, link)) /\ Cardinality(Spare(blk, link)) \in 0..Total
  <2> DEFINE I == Heap!First..(Heap!End - 1)
  <2>1. IsFiniteSet(I) /\ Cardinality(I) = Heap!End - Heap!First
    <3>1. Heap!First \in Int /\ Heap!End - 1 \in Int /\ ~(Heap!First > Heap!End - 1)
      BY HeapTypes
    <3>2. IsFiniteSet(I) /\ Cardinality(I) = (Heap!End - 1) - Heap!First + 1
      BY <3>1, FS_Interval
    <3> QED
      BY <3>2, HeapTypes
  <2>2. IsFiniteSet(Spare(blk, link)) /\ Cardinality(Spare(blk, link)) <= Cardinality(I)
    BY <1>7, <2>1, FS_Subset
  <2>3. Cardinality(Spare(blk, link)) \in Nat
    BY <2>2, FS_CardinalityType
  <2> QED
    BY <2>1, <2>2, <2>3, HeapTypes
<1> QED
  BY <1>5, <1>8, <1>10, <1>11, <1>12

\* What is wanted for n bytes: the header too, and aligned.
LEMMA WantedIs ==
    ASSUME HeapSetting, NEW n \in Nat, 0 < n
    PROVE  /\ Heap!Wanted(n) \in Nat /\ n + Heap!HeapStruct <= Heap!Wanted(n)
           /\ 0 < Heap!Wanted(n) /\ Heap!Wanted(n) % Align = 0
<1>1. Heap!Wanted(n) = Mem!Up(n + Heap!HeapStruct)
  BY DEF Heap!Wanted, Heap!Up, Mem!Up
<1>2. n + Heap!HeapStruct \in Nat
  BY HeapTypes
<1> QED
  BY <1>1, <1>2, RoundsUp, HeapTypes

\* The search ends before the first block that is large enough, or before pxEnd when
\* there is none.
LEMMA FitPrevIs ==
    ASSUME HeapSetting, Laid(blk), Chained(blk, link), NEW w \in Nat
    PROVE  LET a == Heap!FitPrev(w)
           IN  /\ a \in DOMAIN link
               /\ link[a] # Heap!End => blk[link[a]].size >= w
               /\ link[a] = Heap!End => \A b \in DOMAIN link \ {0} : blk[b].size < w
<1> DEFINE S == Heap!Stops(w)
           a == Heap!FitPrev(w)
<1>1. /\ \A x \in DOMAIN blk : x \in Nat /\ x <= Heap!End /\ blk[x].size \in Nat
      /\ \A x \in Inside(blk) : x \in DOMAIN blk /\ x < Heap!End
  BY LaidTypes DEF Inside
<1>2. /\ \A x \in DOMAIN link : x \in Nat /\ link[x] \in DOMAIN blk /\ x < link[x] /\ x < Heap!End
                                /\ (link[x] = Heap!End \/ link[x] \in DOMAIN link)
      /\ \A x \in DOMAIN link, y \in DOMAIN link : y <= x \/ link[x] <= y
      /\ \A x \in DOMAIN link : x # 0 => x \in Inside(blk)
      /\ 0 \in DOMAIN link
  BY <1>1, HeapTypes DEF Chained
<1>3. PICK z \in DOMAIN link : \A y \in DOMAIN link : y <= z
  <2>1. DOMAIN link \subseteq 0..Heap!End /\ Heap!End \in Nat
    BY <1>2, HeapTypes
  <2> QED
    BY <1>2, <2>1, GreatestNat
<1>4. link[z] = Heap!End
  <2>1. z < link[z] /\ link[z] \in Nat /\ z \in Nat
    BY <1>1, <1>2
  <2> QED
    BY <1>2, <1>3, <2>1
<1>5. S = {x \in DOMAIN link : link[x] = Heap!End \/ blk[link[x]].size >= w}
  BY DEF Heap!Stops
<1> HIDE DEF S
<1>6. \E x \in S : \A y \in S : x <= y
  BY <1>2, <1>4, <1>5, LeastNat
<1>7. a \in S /\ \A y \in S : a <= y
  BY <1>6, Zenon DEF Heap!FitPrev, S
<1> HIDE DEF a
<1>8. ASSUME link[a] = Heap!End, NEW b \in DOMAIN link \ {0} PROVE blk[b].size < w
  <2> DEFINE D == {x \in DOMAIN link : x < b}
  <2>1. b \in DOMAIN link /\ b \in Nat /\ 0 < b /\ b \in DOMAIN blk /\ b < Heap!End
    BY <1>1, <1>2
  <2>2. PICK c \in D : \A y \in D : y <= c
    <3>1. D \subseteq 0..Heap!End /\ Heap!End \in Nat /\ 0 \in D
      BY <1>2, <2>1, HeapTypes
    <3> HIDE DEF D
    <3> QED
      BY <3>1, GreatestNat
  <2>3. link[c] = b
    <3>1. b <= c \/ link[c] <= b
      BY <1>2, <2>1, <2>2
    <3>2. c \in Nat /\ c < link[c] /\ link[c] \in Nat /\ c < b
      BY <1>1, <1>2, <2>2
    <3>3. CASE link[c] < b
      <4>1. link[c] \in D
        BY <1>2, <2>1, <2>2, <3>2, <3>3
      <4> QED
        BY <2>2, <3>2, <4>1
    <3> QED
      BY <2>1, <3>1, <3>2, <3>3
  <2>4. CASE blk[b].size >= w
    <3>1. c \in S
      BY <1>5, <2>2, <2>3, <2>4
    <3>2. a <= c /\ a \in DOMAIN link /\ c \in Nat /\ c < b
      BY <1>2, <1>5, <1>7, <2>2, <3>1
    <3>3. b <= a \/ link[a] <= b
      BY <1>2, <2>1, <3>2
    <3> QED
      BY <1>2, <1>8, <2>1, <3>2, <3>3, HeapTypes
  <2> QED
    BY <1>1, <2>1, <2>4
<1> QED
  BY <1>5, <1>7, <1>8 DEF a

\* A block leaves the list, whole or without its end; what is left of it stays there.
Taken(k1, l1, b, s) ==
    /\ Laid(k1) /\ Chained(k1, l1) /\ Fused(k1, l1)
    /\ b \in Inside(k1) /\ k1[b].size = s /\ k1[b].alloc
    /\ Unlisted(k1, l1) = Unlisted(blk, link) \cup {b}
    /\ \A x \in Unlisted(blk, link) : k1[x] = blk[x]
    /\ Spare(k1, l1) = Spare(blk, link) \ (b..(b + s - 1))
    /\ b..(b + s - 1) \subseteq Spare(blk, link)

\* pvPortMalloc takes the block out of the list, and puts back what it does not need.
LEMMA TakeTakes ==
    ASSUME HeapSetting, Laid(blk), Chained(blk, link), Fused(blk, link), NEW a \in DOMAIN link,
           link[a] # Heap!End, NEW w \in Nat, 0 < w, w <= blk[link[a]].size, w % Align = 0,
           Heap!Take(a, w)
    PROVE  /\ Taken(blk', link', link[a], Heap!Charged(blk[link[a]].size, w))
           /\ w <= Heap!Charged(blk[link[a]].size, w)
           /\ Heap!Charged(blk[link[a]].size, w) \in Nat
<1> DEFINE b == link[a]
           size == blk[b].size
           L == Without(link, a)
           out == [blk |-> blk, link |-> L]
           half == Halved(blk, b, w)
           two == [out EXCEPT !.blk = half]
           q == b + w
           in == Heap!InsertBlock(two, q)
           h == IF Heap!Split(size, w) THEN in ELSE out
<1>1. blk' = [h.blk EXCEPT ![b].alloc = TRUE] /\ link' = h.link
  BY DEF Heap!Take, Halved, Without
<1>2. two = [blk |-> half, link |-> L]
  <2>1. \A x, y, z : [[blk |-> x, link |-> y] EXCEPT !.blk = z] = [blk |-> z, link |-> y]
    OBVIOUS
  <2> QED
    BY <2>1, Zenon
<1>3. /\ Chained(blk, L) /\ Fused(blk, L) /\ DOMAIN L = DOMAIN link \ {b}
      /\ b \in Inside(blk) /\ b \in DOMAIN link /\ ~blk[b].alloc
      /\ Unlisted(blk, L) = Unlisted(blk, link) \cup {b}
      /\ Spare(blk, L) = Spare(blk, link) \ (b..(b + size - 1))
      /\ b..(b + size - 1) \subseteq Spare(blk, link)
  BY TakenOut
<1>4. /\ b \in DOMAIN blk /\ b \in Nat /\ size \in Nat /\ b # 0
  BY <1>3, LaidTypes DEF Inside
<1>5. b \notin Unlisted(blk, link)
  BY <1>3, <1>4 DEF Unlisted
<1>6. \A x \in Unlisted(blk, link) : x \in DOMAIN blk /\ x # b
  BY <1>5 DEF Unlisted
<1>7. CASE ~Heap!Split(size, w)
  <2>1. h.blk = blk /\ h.link = L
    BY <1>7
  <2>2. Heap!Charged(size, w) = size
    BY <1>7 DEF Heap!Charged
  <2> HIDE DEF L, out, half, two, in, h
  <2> DEFINE r == [blk EXCEPT ![b].alloc = TRUE]
  <2>3. /\ Laid(r) /\ Chained(r, L) /\ Fused(r, L)
        /\ Unlisted(r, L) = Unlisted(blk, L) /\ Spare(r, L) = Spare(blk, L)
        /\ DOMAIN r = DOMAIN blk /\ r[b].size = blk[b].size /\ r[b].alloc = TRUE
        /\ \A x \in DOMAIN blk \ {b} : r[x] = blk[x]
    <3>1. b \notin DOMAIN L
      BY <1>3
    <3> QED
      BY <1>3, <3>1, FlagKeeps
  <2> HIDE DEF r
  <2>4. Inside(r) = Inside(blk)
    BY <2>3 DEF Inside
  <2>5. Taken(r, L, b, size)
    BY <1>3, <1>6, <2>3, <2>4 DEF Taken
  <2>6. blk' = r /\ link' = L
    BY <1>1, <2>1 DEF r
  <2> QED
    BY <1>4, <2>2, <2>5, <2>6
<1>8. CASE Heap!Split(size, w)
  <2>1. h = in
    BY <1>8
  <2>2. Heap!Charged(size, w) = w
    BY <1>8 DEF Heap!Charged
  <2>3. w < size
    BY <1>4, <1>8, HeapTypes DEF Heap!Split
  <2> HIDE DEF L, h
  <2>4. /\ Laid(half) /\ Chained(half, L) /\ Fused(half, L)
        /\ q \in Inside(half) /\ q \notin DOMAIN L /\ q \notin DOMAIN blk
        /\ ~half[q].alloc /\ half[q].size = size - w
        /\ Unlisted(half, L) = Unlisted(blk, L) \cup {q} /\ Spare(half, L) = Spare(blk, L)
        /\ half[b].size = w /\ \A x \in DOMAIN blk \ {b} : half[x] = blk[x]
    <3>1. b \notin DOMAIN L
      BY <1>3
    <3> QED
      BY <1>3, <2>3, <3>1, HalvedKeeps
  <2> HIDE DEF half, out, two
  <2>5. PICK it, c, e, g, F : Placed(half, L, q, in.blk, in.link, it, c, e, g, F)
    <3>1. \E it, c, e, g, F : Placed(half, L, q, Heap!InsertBlock([blk |-> half, link |-> L], q).blk,
                                     Heap!InsertBlock([blk |-> half, link |-> L], q).link, it, c, e, g, F)
      BY <2>4, InsertPlaces
    <3> QED
      BY <1>2, <3>1
  <2> DEFINE k1 == in.blk
             l1 == in.link
  <2>6. /\ Laid(k1) /\ Chained(k1, l1) /\ Fused(k1, l1)
        /\ Unlisted(k1, l1) = Unlisted(half, L) \ {q}
        /\ \A x \in Unlisted(k1, l1) : k1[x] = half[x]
        /\ Spare(k1, l1) = Spare(half, L) \cup (q..(q + half[q].size - 1))
    BY <2>4, <2>5, PlacedKeeps
  <2>7. h.blk = k1 /\ h.link = l1
    BY <2>1
  <2> HIDE DEF in, k1, l1
  <2>8. q # b /\ q \notin Unlisted(blk, link)
    BY <1>4, <2>4 DEF Unlisted
  <2>9. Unlisted(k1, l1) = Unlisted(blk, link) \cup {b}
    BY <1>3, <2>4, <2>6, <2>8
  <2>10. k1[b].size = w /\ \A x \in Unlisted(blk, link) : k1[x] = blk[x]
    BY <1>6, <2>4, <2>6, <2>9
  <2>11. b \in Inside(k1) /\ b \notin DOMAIN l1
    BY <1>3, <1>4, <2>9 DEF Unlisted, Inside
  <2>12. Spare(k1, l1) = Spare(blk, link) \ (b..(b + w - 1))
         /\ b..(b + w - 1) \subseteq Spare(blk, link)
    <3>1. Spare(k1, l1) = (Spare(blk, link) \ (b..(b + size - 1))) \cup (q..(b + size - 1))
      <4>1. q + half[q].size - 1 = b + size - 1
        BY <1>4, <2>4
      <4> QED
        BY <1>3, <2>4, <2>6, <4>1
    <3>2. /\ b..(b + w - 1) \subseteq b..(b + size - 1)
          /\ q..(b + size - 1) \subseteq b..(b + size - 1)
          /\ (b..(b + w - 1)) \cap (q..(b + size - 1)) = {}
          /\ b..(b + size - 1) \subseteq (b..(b + w - 1)) \cup (q..(b + size - 1))
      BY <1>4, <2>3
    <3> QED
      BY <1>3, <3>1, <3>2, Zenon
  <2> DEFINE r == [k1 EXCEPT ![b].alloc = TRUE]
  <2>13. /\ Laid(r) /\ Chained(r, l1) /\ Fused(r, l1)
         /\ Unlisted(r, l1) = Unlisted(k1, l1) /\ Spare(r, l1) = Spare(k1, l1)
         /\ DOMAIN r = DOMAIN k1 /\ r[b].size = k1[b].size /\ r[b].alloc = TRUE
         /\ \A x \in DOMAIN k1 \ {b} : r[x] = k1[x]
    <3>1. Laid(k1) /\ Chained(k1, l1) /\ Fused(k1, l1) /\ TRUE \in BOOLEAN
      BY <2>6
    <3> QED
      BY <2>11, <3>1, FlagKeeps
  <2> HIDE DEF r
  <2>14. Inside(r) = Inside(k1)
    BY <2>13 DEF Inside
  <2>15. \A x \in Unlisted(blk, link) : r[x] = blk[x]
    <3>1. \A x \in Unlisted(blk, link) : x \in DOMAIN k1 /\ x # b
      BY <1>6, <2>9 DEF Unlisted
    <3> QED
      BY <2>10, <2>13, <3>1
  <2>16. Taken(r, l1, b, w)
    BY <2>9, <2>10, <2>11, <2>12, <2>13, <2>14, <2>15 DEF Taken
  <2>17. blk' = r /\ link' = l1
    BY <1>1, <2>7 DEF r
  <2> QED
    BY <2>2, <2>16, <2>17
<1> QED
  BY <1>7, <1>8

\* A set without some of its elements, and with others.
LEMMA FewerBytes ==
    ASSUME NEW S, IsFiniteSet(S), NEW a \in Nat, NEW n \in Nat, a..(a + n - 1) \subseteq S
    PROVE  /\ Cardinality(S \ (a..(a + n - 1))) = Cardinality(S) - n
           /\ n <= Cardinality(S) /\ Cardinality(S) \in Nat
<1> DEFINE I == a..(a + n - 1)
<1>1. IsFiniteSet(I) /\ Cardinality(I) = n
  <2>1. a + n - 1 \in Int
    OBVIOUS
  <2>2. IsFiniteSet(I) /\ Cardinality(I) = IF a > a + n - 1 THEN 0 ELSE (a + n - 1) - a + 1
    BY <2>1, FS_Interval
  <2> QED
    BY <2>2
<1>2. S \cap I = I
  OBVIOUS
<1> HIDE DEF I
<1>3. Cardinality(S \ I) = Cardinality(S) - Cardinality(S \cap I)
  BY FS_Difference
<1>4. Cardinality(I) <= Cardinality(S)
  BY FS_Subset DEF I
<1>5. Cardinality(S) \in Nat
  BY FS_CardinalityType
<1> QED
  BY <1>1, <1>2, <1>3, <1>4, <1>5 DEF I

\* A set with elements that it did not have.
LEMMA MoreBytes ==
    ASSUME NEW S, IsFiniteSet(S), NEW a \in Nat, NEW n \in Nat, S \cap (a..(a + n - 1)) = {}
    PROVE  Cardinality(S \cup (a..(a + n - 1))) = Cardinality(S) + n
<1> DEFINE I == a..(a + n - 1)
<1>1. IsFiniteSet(I) /\ Cardinality(I) = n
  <2>1. a + n - 1 \in Int
    OBVIOUS
  <2>2. IsFiniteSet(I) /\ Cardinality(I) = IF a > a + n - 1 THEN 0 ELSE (a + n - 1) - a + 1
    BY <2>1, FS_Interval
  <2> QED
    BY <2>2
<1>2. Cardinality(S \cap I) = 0
  BY FS_EmptySet
<1> HIDE DEF I
<1>3. Cardinality(S \cup I) = Cardinality(S) + Cardinality(I) - Cardinality(S \cap I)
  BY <1>1, FS_Union
<1>4. Cardinality(S) \in Nat
  BY FS_CardinalityType
<1> QED
  BY <1>1, <1>2, <1>3, <1>4 DEF I

\* A request that finds a block.
LEMMA PvMallocTakes ==
    ASSUME HeapSetting, HeapIInv, NEW n \in 0..MaxWant, Heap!Wanted(n) > 0,
           Heap!Wanted(n) <= freeB, link[Heap!FitPrev(Heap!Wanted(n))] # Heap!End, Heap!Malloc(n)
    PROVE  /\ HeapIInv'
           /\ \E b \in Inside(blk') : /\ held' = Heap!Put(held, b + Heap!HeapStruct, n)
                                      /\ b + Heap!HeapStruct \notin DOMAIN held
<1> DEFINE w == Heap!Wanted(n)
           a == Heap!FitPrev(w)
           b == link[a]
           s == Heap!Charged(blk[b].size, w)
           p == b + Heap!HeapStruct
           h == Heap!Put(held, p, n)
<1>1. n \in Nat /\ n <= MaxWant /\ n # 0
  BY HeapTypes DEF Heap!Wanted
<1>2. w \in Nat /\ n + Heap!HeapStruct <= w /\ 0 < w /\ w % Align = 0
  BY <1>1, WantedIs
<1>3. Laid(blk) /\ Chained(blk, link) /\ Fused(blk, link)
  BY DEF HeapIInv
<1>4. a \in DOMAIN link /\ b # Heap!End /\ blk[b].size >= w
  BY <1>2, <1>3, FitPrevIs
<1>5. /\ Heap!Take(a, w) /\ null' = 0 /\ held' = h
  BY Zenon DEF Heap!Malloc
<1>6. Taken(blk', link', b, s) /\ w <= s /\ s \in Nat
  <2>1. blk[b].size \in Nat
    BY <1>3, <1>4, LaidTypes DEF Chained
  <2>2. w <= blk[b].size
    BY <1>2, <1>4, <2>1
  <2> HIDE DEF w, a
  <2> QED
    BY <1>2, <1>3, <1>4, <1>5, <2>2, TakeTakes
<1>7. freeB' = freeB - s /\ minEver' = (IF freeB - s < minEver THEN freeB - s ELSE minEver)
  BY <1>5, Zenon DEF Heap!Take
<1> HIDE DEF w, a, s, b
<1>8. /\ Laid(blk') /\ Chained(blk', link') /\ Fused(blk', link')
      /\ b \in Inside(blk') /\ blk'[b].size = s /\ blk'[b].alloc
      /\ Unlisted(blk', link') = Unlisted(blk, link) \cup {b}
      /\ \A x \in Unlisted(blk, link) : blk'[x] = blk[x]
      /\ Spare(blk', link') = Spare(blk, link) \ (b..(b + s - 1))
      /\ b..(b + s - 1) \subseteq Spare(blk, link)
  BY <1>6 DEF Taken
<1>9. b \in Nat /\ b + s <= Heap!End /\ Heap!First <= b
  BY <1>8, LaidTypes DEF Inside
<1>10. b \notin Unlisted(blk, link)
  <2>1. b \in b..(b + s - 1)
    BY <1>2, <1>6, <1>9
  <2>2. b \in Spare(blk, link)
    BY <1>8, <2>1
  <2> SUFFICES ASSUME b \in Unlisted(blk, link) PROVE FALSE
    OBVIOUS
  <2>3. blk[b].size = s
    BY <1>8
  <2> QED
    BY <1>2, <1>6, <1>9, <2>2, <2>3 DEF Spare
<1>11. ASSUME NEW x \in DOMAIN held
       PROVE  /\ x - Heap!HeapStruct \in Inside(blk) /\ blk[x - Heap!HeapStruct].alloc
              /\ x - Heap!HeapStruct \in Unlisted(blk, link)
              /\ x # p /\ held[x] # 0 /\ Heap!Wanted(held[x]) <= blk[x - Heap!HeapStruct].size
  <2>1. /\ x - Heap!HeapStruct \in Inside(blk) /\ blk[x - Heap!HeapStruct].alloc
        /\ held[x] # 0 /\ Heap!Wanted(held[x]) <= blk[x - Heap!HeapStruct].size
    BY DEF HeapIInv, Backed
  <2>2. x - Heap!HeapStruct \in Unlisted(blk, link)
    BY <1>3, <2>1 DEF Chained, Unlisted, Inside
  <2>3. x # p
    BY <1>9, <1>10, <2>2, HeapTypes
  <2> QED
    BY <2>1, <2>2, <2>3
<1>12. /\ DOMAIN h = DOMAIN held \cup {p} /\ h[p] = n /\ (\A x \in DOMAIN held : h[x] = held[x])
       /\ h = [x \in DOMAIN h |-> h[x]]
  BY <1>11 DEF Heap!Put
<1> HIDE DEF h
<1>13. Backed(blk', h)
  <2> SUFFICES ASSUME NEW x \in DOMAIN h
               PROVE  /\ x - Heap!HeapStruct \in Inside(blk') /\ blk'[x - Heap!HeapStruct].alloc
                      /\ h[x] # 0 /\ Heap!Wanted(h[x]) <= blk'[x - Heap!HeapStruct].size
    BY DEF Backed
  <2>1. CASE x = p
    <3>1. x - Heap!HeapStruct = b
      BY <1>9, <2>1, HeapTypes
    <3> QED
      BY <1>1, <1>6, <1>8, <1>12, <2>1, <3>1 DEF w
  <2>2. CASE x \in DOMAIN held
    <3> DEFINE y == x - Heap!HeapStruct
    <3>1. y \in Inside(blk) /\ blk[y].alloc /\ y \in Unlisted(blk, link)
          /\ held[x] # 0 /\ Heap!Wanted(held[x]) <= blk[y].size
      BY <1>11, <2>2
    <3>2. blk'[y] = blk[y] /\ y \in DOMAIN blk' /\ y # Heap!End
      BY <1>8, <3>1 DEF Unlisted, Inside
    <3> QED
      BY <1>12, <2>2, <3>1, <3>2 DEF Inside
  <2> QED
    BY <1>12, <2>1, <2>2
<1>14. h \in [DOMAIN h -> 0..MaxWant] /\ DOMAIN h \subseteq Heap!First..Heap!End
  <2>1. p \in Heap!First..Heap!End
    BY <1>1, <1>2, <1>6, <1>9, HeapTypes
  <2>2. \A x \in DOMAIN h : h[x] \in 0..MaxWant
    BY <1>12 DEF HeapIInv
  <2> QED
    BY <1>12, <2>1, <2>2 DEF HeapIInv
<1>15. freeB' = Cardinality(Spare(blk', link')) /\ minEver' \in 0..freeB'
  <2>1. /\ IsFiniteSet(Spare(blk, link)) /\ freeB = Cardinality(Spare(blk, link))
        /\ minEver \in 0..freeB
    BY <1>3, SpareIs DEF HeapIInv
  <2>2. /\ Cardinality(Spare(blk', link')) = freeB - s /\ s <= freeB /\ freeB \in Nat
    BY <1>6, <1>8, <1>9, <2>1, FewerBytes
  <2> QED
    BY <1>6, <1>7, <2>1, <2>2
<1>16. Heap!RefusedOnlyWhenFull'
  BY <1>5 DEF Heap!RefusedOnlyWhenFull
<1>17. null' \in 0..MaxWant
  BY <1>5, HeapTypes
<1>18. HeapIInv'
  BY <1>5, <1>8, <1>13, <1>14, <1>15, <1>16, <1>17 DEF HeapIInv
<1> QED
  BY <1>5, <1>8, <1>11, <1>18 DEF h

\* A request is refused only when no stretch of unused bytes would hold it.
LEMMA PvMallocRefuses ==
    ASSUME HeapSetting, HeapIInv, NEW n \in 0..MaxWant,
           ~(Heap!Wanted(n) > 0 /\ Heap!Wanted(n) <= freeB
             /\ link[Heap!FitPrev(Heap!Wanted(n))] # Heap!End),
           Heap!Malloc(n)
    PROVE  HeapIInv' /\ UNCHANGED held
<1> DEFINE w == Heap!Wanted(n)
<1>1. /\ blk' = blk /\ link' = link /\ freeB' = freeB /\ minEver' = minEver /\ held' = held
      /\ null' = n
  BY Zenon DEF Heap!Malloc
<1>2. n \in Nat /\ Laid(blk) /\ Chained(blk, link) /\ Fused(blk, link)
  BY HeapTypes DEF HeapIInv
<1>3. ASSUME n > 0, NEW a \in Heap!First..Heap!End,
             a..(a + w - 1) \subseteq (Heap!First..(Heap!End - 1)) \ Heap!InUse
      PROVE  FALSE
  <2>1. w \in Nat /\ 0 < w
    BY <1>2, <1>3, WantedIs
  <2>2. a..(a + w - 1) \subseteq Spare(blk, link) /\ IsFiniteSet(Spare(blk, link))
    BY <1>2, <1>3, SpareIs
  <2>3. a \in Nat
    BY HeapTypes
  <2>4. w <= freeB
    BY <2>1, <2>2, <2>3, FewerBytes DEF HeapIInv
  <2>5. \A b \in DOMAIN link \ {0} : blk[b].size < w
    BY <1>2, <2>1, <2>4, FitPrevIs
  <2>6. a \in Spare(blk, link) /\ a \in Heap!First..(Heap!End - 1)
    BY <2>1, <2>2, <2>3 DEF Spare
  <2>7. PICK b \in Inside(blk) : b <= a /\ a < b + blk[b].size
    BY <1>2, <2>6, Covered
  <2> DEFINE y == b + blk[b].size
  <2>8. /\ b \in DOMAIN blk /\ b \in Nat /\ blk[b].size \in Nat /\ y \in DOMAIN blk /\ y \in Nat
        /\ y <= Heap!End /\ b # 0
    BY <1>2, <2>7, LaidTypes DEF Inside
  <2>9. b \in DOMAIN link \ {0}
    BY <2>6, <2>7, <2>8, <2>3 DEF Spare, Unlisted
  <2>10. y < a + w
    BY <2>1, <2>3, <2>5, <2>7, <2>8, <2>9
  <2>11. y \in Spare(blk, link)
    BY <2>1, <2>2, <2>3, <2>7, <2>8, <2>10
  <2>12. y \in Inside(blk) /\ y # 0
    BY <2>8, <2>11, HeapTypes, LaidTypes, <1>2 DEF Spare, Inside
  <2>13. 0 < blk[y].size /\ blk[y].size \in Nat
    BY <1>2, <2>12, LaidTypes DEF Inside
  <2>14. y \in DOMAIN link \ {0}
    BY <2>8, <2>11, <2>12, <2>13 DEF Spare, Unlisted
  <2> QED
    BY <1>2, <2>9, <2>14 DEF Fused
<1>4. Heap!RefusedOnlyWhenFull'
  <2> SUFFICES ASSUME n > 0, NEW a \in Heap!First..Heap!End,
                      a..(a + w - 1) \subseteq (Heap!First..(Heap!End - 1)) \ Heap!InUse
               PROVE  FALSE
    BY <1>1 DEF Heap!RefusedOnlyWhenFull, Heap!InUse, Heap!BytesOf, Heap!Headers, Heap!Listed
  <2> QED
    BY <1>3
<1> QED
  BY <1>1, <1>4 DEF HeapIInv
-----------------------------------------------------------------------------
(* vPortFree.                                                               *)

\* Up to the suspension of the scheduler, the block belongs to nobody and is on no list.
LEMMA MarkKeeps ==
    ASSUME HeapSetting, HeapIInv, NEW p \in DOMAIN held, Heap!FreeMark(p) PROVE HeapIInv'
<1> DEFINE b == p - Heap!HeapStruct
           r == [blk EXCEPT ![b].alloc = FALSE]
           left == Heap!Drop(held, p)
<1>1. /\ blk' = r /\ held' = left /\ null' = 0 /\ link' = link /\ freeB' = freeB
      /\ minEver' = minEver
  BY DEF Heap!FreeMark
<1>2. Laid(blk) /\ Chained(blk, link) /\ Fused(blk, link) /\ p \in Int
  BY HeapTypes DEF HeapIInv
<1>3. b \in Inside(blk) /\ b \in DOMAIN blk /\ blk[b].alloc /\ b \in Nat
  BY <1>2, LaidTypes DEF HeapIInv, Backed, Inside
<1>4. b \notin DOMAIN link
  BY <1>2, <1>3, LaidTypes DEF Chained
<1>5. /\ Laid(r) /\ Chained(r, link) /\ Fused(r, link)
      /\ Spare(r, link) = Spare(blk, link)
      /\ DOMAIN r = DOMAIN blk /\ \A x \in DOMAIN blk \ {b} : r[x] = blk[x]
  <2>1. PICK u \in BOOLEAN : u = FALSE
    OBVIOUS
  <2> DEFINE t == [blk EXCEPT ![b].alloc = u]
  <2>2. /\ Laid(t) /\ Chained(t, link) /\ Fused(t, link)
        /\ Spare(t, link) = Spare(blk, link)
        /\ DOMAIN t = DOMAIN blk /\ \A x \in DOMAIN blk \ {b} : t[x] = blk[x]
    <3> HIDE DEF b
    <3> QED
      BY <1>2, <1>3, <1>4, FlagKeeps
  <2>3. t = r
    BY <2>1
  <2> QED
    BY <2>2, <2>3
<1> HIDE DEF r
<1>6. /\ DOMAIN left = DOMAIN held \ {p} /\ (\A x \in DOMAIN left : left[x] = held[x])
      /\ left = [x \in DOMAIN left |-> left[x]]
  BY DEF Heap!Drop
<1> HIDE DEF left
<1>7. Backed(r, left)
  <2> SUFFICES ASSUME NEW x \in DOMAIN left
               PROVE  /\ x - Heap!HeapStruct \in Inside(r) /\ r[x - Heap!HeapStruct].alloc
                      /\ left[x] # 0 /\ Heap!Wanted(left[x]) <= r[x - Heap!HeapStruct].size
    BY DEF Backed
  <2>1. x \in DOMAIN held /\ x # p /\ left[x] = held[x] /\ x \in Int
    BY <1>6, HeapTypes DEF HeapIInv
  <2>2. x - Heap!HeapStruct # b
    BY <1>2, <2>1, HeapTypes
  <2>3. x - Heap!HeapStruct \in Inside(blk)
    BY <2>1 DEF HeapIInv, Backed
  <2>4. r[x - Heap!HeapStruct] = blk[x - Heap!HeapStruct]
    BY <1>5, <2>2, <2>3 DEF Inside
  <2> QED
    BY <1>5, <2>1, <2>3, <2>4 DEF HeapIInv, Backed, Inside
<1>8. left \in [DOMAIN left -> 0..MaxWant] /\ DOMAIN left \subseteq Heap!First..Heap!End
  BY <1>6 DEF HeapIInv
<1>9. Heap!RefusedOnlyWhenFull'
  BY <1>1 DEF Heap!RefusedOnlyWhenFull
<1>10. null' \in 0..MaxWant
  BY <1>1, HeapTypes
<1> QED
  BY <1>1, <1>5, <1>7, <1>8, <1>9, <1>10 DEF HeapIInv

\* After it the block is in the list, merged with its neighbours.
LEMMA InsertKeeps ==
    ASSUME HeapSetting, HeapIInv, NEW b \in Heap!Freed, Heap!FreeInsert(b)
    PROVE  HeapIInv' /\ UNCHANGED held
<1> DEFINE in == Heap!InsertBlock([blk |-> blk, link |-> link], b)
           s == blk[b].size
           k1 == in.blk
           l1 == in.link
<1>1. /\ blk' = k1 /\ link' = l1 /\ freeB' = freeB + s /\ held' = held /\ minEver' = minEver
      /\ null' = 0
  BY DEF Heap!FreeInsert
<1>2. Laid(blk) /\ Chained(blk, link) /\ Fused(blk, link)
  BY DEF HeapIInv
<1>3. b \in Inside(blk) /\ b \notin DOMAIN link /\ ~blk[b].alloc /\ b \in DOMAIN blk /\ b \in Nat
      /\ s \in Nat /\ b + s <= Heap!End /\ b # 0
  <2>1. b \in Inside(blk) /\ ~blk[b].alloc /\ b \notin Heap!Listed
    BY DEF Heap!Freed, Heap!Headers, Inside
  <2> QED
    BY <1>2, <2>1, LaidTypes, HeapTypes DEF Inside, Heap!Listed
<1>4. PICK it, c, e, g, F : Placed(blk, link, b, in.blk, in.link, it, c, e, g, F)
  BY <1>2, <1>3, InsertPlaces
<1> HIDE DEF in
<1>5. /\ Laid(k1) /\ Chained(k1, l1) /\ Fused(k1, l1)
      /\ Unlisted(k1, l1) = Unlisted(blk, link) \ {b}
      /\ \A x \in Unlisted(k1, l1) : k1[x] = blk[x]
      /\ Spare(k1, l1) = Spare(blk, link) \cup (b..(b + blk[b].size - 1))
  BY <1>2, <1>3, <1>4, PlacedKeeps
<1> HIDE DEF k1, l1
<1>6. Backed(k1, held)
  <2> SUFFICES ASSUME NEW x \in DOMAIN held
               PROVE  /\ x - Heap!HeapStruct \in Inside(k1) /\ k1[x - Heap!HeapStruct].alloc
                      /\ held[x] # 0 /\ Heap!Wanted(held[x]) <= k1[x - Heap!HeapStruct].size
    BY DEF Backed
  <2> DEFINE y == x - Heap!HeapStruct
  <2>1. /\ y \in Inside(blk) /\ blk[y].alloc /\ held[x] # 0 /\ Heap!Wanted(held[x]) <= blk[y].size
    BY DEF HeapIInv, Backed
  <2>2. y # b /\ y \in Unlisted(blk, link)
    BY <1>2, <1>3, <2>1 DEF Chained, Unlisted, Inside
  <2>3. k1[y] = blk[y] /\ y \in DOMAIN k1 /\ y # Heap!End
    BY <1>5, <2>1, <2>2 DEF Unlisted, Inside
  <2> QED
    BY <2>1, <2>3 DEF Inside
<1>7. freeB' = Cardinality(Spare(k1, l1)) /\ minEver' \in 0..freeB'
  <2>1. /\ IsFiniteSet(Spare(blk, link)) /\ freeB = Cardinality(Spare(blk, link))
        /\ minEver \in 0..freeB
        /\ freeB \in Nat
    BY <1>2, SpareIs, HeapTypes DEF HeapIInv
  <2>2. Spare(blk, link) \cap (b..(b + s - 1)) = {}
    <3>1. b \in Unlisted(blk, link)
      BY <1>3 DEF Unlisted
    <3> QED
      BY <1>3, <3>1, HeapTypes DEF Spare
  <2>3. Cardinality(Spare(k1, l1)) = freeB + s
    <3>1. Cardinality(Spare(blk, link) \cup (b..(b + s - 1))) = Cardinality(Spare(blk, link)) + s
      <4> DEFINE S == Spare(blk, link)
      <4>1. IsFiniteSet(S) /\ S \cap (b..(b + s - 1)) = {} /\ b \in Nat /\ s \in Nat
        BY <1>3, <2>1, <2>2
      <4> HIDE DEF S, s
      <4> QED
        BY <4>1, MoreBytes DEF S
    <3> QED
      BY <1>5, <2>1, <3>1
  <2> QED
    BY <1>1, <1>3, <2>1, <2>3
<1>8. Heap!RefusedOnlyWhenFull'
  BY <1>1 DEF Heap!RefusedOnlyWhenFull
<1>9. null' \in 0..MaxWant
  BY <1>1, HeapTypes
<1> QED
  BY <1>1, <1>5, <1>6, <1>7, <1>8, <1>9 DEF HeapIInv

-----------------------------------------------------------------------------
(* What holds of the heap in every state.                                   *)

\* prvHeapInit leaves one block, and it is in the list.
LEMMA HeapInit == ASSUME HeapSetting, Heap!Init PROVE HeapIInv
<1> DEFINE f == Heap!First
           e == Heap!End
           one == [size |-> e - f, alloc |-> FALSE]
           two == [size |-> 0, alloc |-> FALSE]
           k1 == Heap!Put(<<>>, f, one)
           l1 == Heap!Put(<<>>, 0, f)
<1>1. /\ f \in Nat /\ 0 < f /\ e \in Nat /\ f < e /\ e - f <= Total /\ f % Align = 0
      /\ Total \in Nat /\ MaxWant \in Nat /\ Heap!Start = 0
  BY HeapTypes
<1>2. /\ blk = Heap!Put(k1, e, two) /\ link = Heap!Put(l1, f, e)
      /\ freeB = e - f /\ minEver = e - f /\ held = <<>> /\ null = 0
  BY DEF Heap!Init, Heap!Start
<1>3. one \in Entries /\ two \in Entries
  BY <1>1 DEF Entries
<1>4. one.size = e - f /\ ~one.alloc /\ two.size = 0 /\ ~two.alloc
  OBVIOUS
<1> HIDE DEF one, two
<1>5. DOMAIN k1 = {f} /\ k1[f] = one /\ DOMAIN l1 = {0} /\ l1[0] = f
  BY DEF Heap!Put
<1> HIDE DEF k1, l1
<1>6. /\ DOMAIN blk = {f, e} /\ blk[f] = one /\ blk[e] = two
      /\ blk = [x \in DOMAIN blk |-> blk[x]]
  BY <1>1, <1>2, <1>5 DEF Heap!Put
<1>7. /\ DOMAIN link = {0, f} /\ link[0] = f /\ link[f] = e
      /\ link = [x \in DOMAIN link |-> link[x]]
  BY <1>1, <1>2, <1>5 DEF Heap!Put
<1> HIDE DEF f, e
<1>8. Inside(blk) = {f}
  BY <1>1, <1>6 DEF Inside, e
<1>9. Laid(blk)
  <2>1. blk \in [DOMAIN blk -> Entries]
    BY <1>3, <1>6
  <2> QED
    BY <1>1, <1>4, <1>6, <1>8, <2>1 DEF Laid, f, e
<1>10. Chained(blk, link)
  <2>1. link \in [DOMAIN link -> DOMAIN blk]
    BY <1>6, <1>7
  <2>2. \A a \in DOMAIN link : /\ a < link[a] /\ (link[a] = e \/ link[a] \in DOMAIN link)
                               /\ \A c \in DOMAIN link : c <= a \/ link[a] <= c
    BY <1>1, <1>7
  <2> QED
    BY <1>4, <1>6, <1>7, <1>8, <2>1, <2>2 DEF Chained, e
<1>11. Fused(blk, link)
  BY <1>1, <1>4, <1>6, <1>7 DEF Fused
<1>12. DOMAIN held = {}
  BY <1>2
<1>13. Backed(blk, held) /\ held \in [DOMAIN held -> 0..MaxWant]
  BY <1>2, <1>12 DEF Backed
<1>14. freeB = Cardinality(Spare(blk, link))
  <2>1. Unlisted(blk, link) = {e}
    BY <1>1, <1>6, <1>7 DEF Unlisted
  <2>2. Spare(blk, link) = f..(e - 1)
    BY <1>1, <1>4, <1>6, <2>1 DEF Spare, f, e
  <2>3. e - 1 \in Int /\ f \in Int /\ ~(f > e - 1)
    BY <1>1
  <2>4. Cardinality(f..(e - 1)) = (e - 1) - f + 1
    BY <2>3, FS_Interval
  <2> QED
    BY <1>1, <1>2, <2>2, <2>4 DEF f, e
<1>15. Heap!RefusedOnlyWhenFull
  BY <1>2 DEF Heap!RefusedOnlyWhenFull
<1>16. minEver \in 0..freeB /\ null \in 0..MaxWant
  BY <1>1, <1>2 DEF f, e
<1> QED
  BY <1>9, <1>10, <1>11, <1>12, <1>13, <1>14, <1>15, <1>16 DEF HeapIInv

\* Every call keeps the invariant.
LEMMA HeapStep == ASSUME HeapSetting, HeapIInv, Heap!Next PROVE HeapIInv'
<1>1. ASSUME NEW n \in 0..MaxWant, Heap!Malloc(n) PROVE HeapIInv'
  BY <1>1, PvMallocTakes, PvMallocRefuses
<1>2. ASSUME NEW p \in DOMAIN held, Heap!FreeMark(p) PROVE HeapIInv'
  BY <1>2, MarkKeeps
<1>3. ASSUME NEW b \in Heap!Freed, Heap!FreeInsert(b) PROVE HeapIInv'
  BY <1>3, InsertKeeps
<1> QED
  BY <1>1, <1>2, <1>3 DEF Heap!Next

\* The steps of the other allocators keep it.
LEMMA HeapKept == ASSUME HeapIInv, UNCHANGED heapVars PROVE HeapIInv'
<1>1. /\ blk' = blk /\ link' = link /\ freeB' = freeB /\ minEver' = minEver /\ held' = held
      /\ null' = null
  BY DEF heapVars
<1>2. Heap!RefusedOnlyWhenFull'
  BY <1>1 DEF HeapIInv, Heap!RefusedOnlyWhenFull, Heap!InUse, Heap!BytesOf, Heap!Headers,
       Heap!Listed
<1> QED
  BY <1>1, <1>2 DEF HeapIInv

\* No byte belongs to two blocks or to none, and xFreeBytesRemaining counts those of the
\* list.
LEMMA HeapInvHolds == ASSUME HeapSetting, HeapIInv PROVE Heap!HeapInv
<1>1. /\ Laid(blk) /\ Chained(blk, link) /\ Backed(blk, held)
      /\ freeB = Cardinality(Spare(blk, link)) /\ minEver \in 0..freeB
      /\ held \in [DOMAIN held -> 0..MaxWant] /\ DOMAIN held \subseteq Heap!First..Heap!End
      /\ null \in 0..MaxWant /\ Heap!RefusedOnlyWhenFull
  BY DEF HeapIInv
<1>2. /\ Heap!First \in Nat /\ Heap!End \in Nat /\ Heap!First < Heap!End /\ Total \in Nat
      /\ Heap!Start = 0
  BY HeapTypes
<1>3. freeB \in 0..Total /\ minEver \in 0..Total /\ minEver <= freeB
  BY <1>1, <1>2, SpareIs
<1>4. Heap!TypeOK
  <2>1. Heap!Headers \subseteq Heap!First..Heap!End /\ blk \in [Heap!Headers -> Entries]
    BY <1>1 DEF Laid, Heap!Headers
  <2>2. DOMAIN blk \subseteq Heap!Addrs /\ DOMAIN link \subseteq Heap!Addrs
    BY <1>1, <1>2, <2>1 DEF Heap!Addrs, Heap!Headers, Chained, Inside
  <2>3. link \in [DOMAIN link -> Heap!Addrs]
    BY <1>1, <2>2 DEF Chained
  <2> QED
    BY <1>1, <1>3, <2>1, <2>2, <2>3 DEF Heap!TypeOK, Entries
<1>5. Heap!BytesOf(Heap!Listed) \cup Heap!InUse = Heap!First..(Heap!End - 1)
  BY <1>1, SpareIs
<1>6. ASSUME NEW b \in DOMAIN blk, NEW c \in DOMAIN blk, c # b,
             NEW x \in b..(b + blk[b].size - 1), x \in c..(c + blk[c].size - 1)
      PROVE  FALSE
  <2>1. /\ b \in Nat /\ c \in Nat /\ blk[b].size \in Nat /\ blk[c].size \in Nat
    BY <1>1, LaidTypes
  <2>2. b # Heap!End /\ c # Heap!End
    BY <1>1, <1>6, <2>1 DEF Laid
  <2>3. (c <= b \/ b + blk[b].size <= c) /\ (b <= c \/ c + blk[c].size <= b)
    BY <1>1, <2>2 DEF Laid, Inside
  <2> QED
    BY <1>6, <2>1, <2>3
<1>7. \A b \in DOMAIN blk : Heap!BytesOf({b}) \cap Heap!BytesOf(DOMAIN blk \ {b}) = {}
  <2> SUFFICES ASSUME NEW b \in DOMAIN blk, NEW x, x \in Heap!BytesOf({b}),
                      x \in Heap!BytesOf(DOMAIN blk \ {b})
               PROVE  FALSE
    OBVIOUS
  <2>1. x \in b..(b + blk[b].size - 1)
    BY DEF Heap!BytesOf
  <2>2. PICK c \in DOMAIN blk \ {b} : x \in c..(c + blk[c].size - 1)
    BY DEF Heap!BytesOf
  <2> QED
    BY <1>6, <2>1, <2>2
<1>8. freeB = Heap!Cardinality(Heap!BytesOf(Heap!Listed))
  <2>1. \A S : Heap!Cardinality(S) = Cardinality(S)
    BY DEF Heap!Cardinality, Cardinality
  <2> QED
    BY <1>1, <2>1, SpareIs
<1>9. Heap!Accounted
  BY <1>3, <1>5, <1>7, <1>8 DEF Heap!Accounted, Heap!Headers
<1> QED
  BY <1>1, <1>4, <1>9 DEF Heap!HeapInv

\* Every byte between the first block and pxEnd belongs to exactly one block,
\* xFreeBytesRemaining counts the bytes of the free list, and pvPortMalloc refuses a request
\* only when no stretch of unused bytes would hold it, since freed neighbours are merged.
THEOREM RtosHeapWhole == ASSUME HeapSetting PROVE Spec => []HeapInv
<1>1. Init => HeapIInv
  BY HeapInit DEF Init
<1>2. HeapIInv /\ [Next]_vars => HeapIInv'
  BY HeapStep, HeapKept DEF Next, vars
<1>3. HeapIInv => HeapInv
  BY HeapInvHolds DEF HeapInv
<1> QED
  BY <1>1, <1>2, <1>3, PTL DEF Spec

-----------------------------------------------------------------------------
(* What the callers of the heaps see.                                       *)

\* Regions that lie in different allocated blocks are aligned and disjoint.
LEMMA PointersApart ==
    ASSUME HeapSetting, NEW k, NEW h, Laid(k), Backed(k, h), h \in [DOMAIN h -> 0..MaxWant],
           DOMAIN h \subseteq Heap!First..Heap!End, NEW x \in DOMAIN h
    PROVE  LET B == Heap!First..(Heap!End - 1)
           IN  /\ x % Align = 0 /\ Heap!Service!Region(x, h[x]) \subseteq B
               /\ x \in B /\ h[x] \in 1..(Heap!End - Heap!First)
               /\ \A y \in DOMAIN h \ {x} :
                     Heap!Service!Region(x, h[x]) \cap Heap!Service!Region(y, h[y]) = {}
<1> DEFINE H == Heap!HeapStruct
<1>1. /\ H \in Nat /\ 0 < H /\ H % Align = 0 /\ Heap!First \in Nat /\ Heap!End \in Nat
      /\ MaxWant \in Nat
  BY HeapTypes
<1>2. ASSUME NEW z \in DOMAIN h
      PROVE  /\ z \in Nat /\ h[z] \in Nat /\ 0 < h[z] /\ z - H \in Inside(k) /\ z - H \in DOMAIN k
             /\ z - H \in Nat /\ k[z - H].size \in Nat /\ z + h[z] <= (z - H) + k[z - H].size
             /\ (z - H) + k[z - H].size <= Heap!End /\ Heap!First <= z - H /\ (z - H) % Align = 0
  <2>1. /\ z \in Nat /\ h[z] \in Nat /\ h[z] # 0
    BY <1>1 DEF Backed
  <2>2. /\ z - H \in Inside(k) /\ z - H \in DOMAIN k /\ Heap!Wanted(h[z]) <= k[z - H].size
    BY DEF Backed, Inside
  <2>3. /\ z - H \in Nat /\ k[z - H].size \in Nat /\ (z - H) + k[z - H].size <= Heap!End
        /\ Heap!First <= z - H /\ (z - H) % Align = 0
    BY <2>2, LaidTypes DEF Laid
  <2>4. Heap!Wanted(h[z]) \in Nat /\ h[z] + H <= Heap!Wanted(h[z])
    BY <2>1, WantedIs
  <2> QED
    BY <1>1, <2>1, <2>2, <2>3, <2>4
<1>3. x % Align = 0
  <2>1. ((x - H) + H) % Align = 0
    BY <1>1, <1>2, AlignedSum
  <2> QED
    BY <1>1, <1>2, <2>1
<1> HIDE DEF H
<1>4. /\ x \in Heap!First..(Heap!End - 1) /\ h[x] \in 1..(Heap!End - Heap!First)
      /\ x + h[x] <= Heap!End
  BY <1>1, <1>2
<1>5. Heap!Service!Region(x, h[x]) \subseteq Heap!First..(Heap!End - 1)
  BY <1>1, <1>2, <1>4 DEF Heap!Service!Region
<1>6. ASSUME NEW y \in DOMAIN h, y # x
      PROVE  Heap!Service!Region(x, h[x]) \cap Heap!Service!Region(y, h[y]) = {}
  <2>1. x - H # y - H
    BY <1>1, <1>2, <1>6
  <2>2. y - H <= x - H \/ (x - H) + k[x - H].size <= y - H
    BY <1>2 DEF Laid
  <2>3. x - H <= y - H \/ (y - H) + k[y - H].size <= x - H
    BY <1>2 DEF Laid
  <2>4. x + h[x] <= y \/ y + h[y] <= x
    BY <1>1, <1>2, <2>1, <2>2, <2>3
  <2> QED
    BY <1>2, <2>4 DEF Heap!Service!Region
<1> QED
  BY <1>3, <1>4, <1>5, <1>6

\* The number of bytes of the heap.
LEMMA HeapBytes ==
    ASSUME HeapSetting
    PROVE  Heap!Service!Cardinality(Heap!First..(Heap!End - 1)) = Heap!End - Heap!First
<1>1. Cardinality(Heap!First..(Heap!End - 1)) = Heap!End - Heap!First
  <2>1. Heap!First \in Int /\ Heap!End - 1 \in Int /\ ~(Heap!First > Heap!End - 1)
    BY HeapTypes
  <2>2. Cardinality(Heap!First..(Heap!End - 1)) = (Heap!End - 1) - Heap!First + 1
    BY <2>1, FS_Interval
  <2> QED
    BY <2>2, HeapTypes
<1>2. Heap!Service!Cardinality(Heap!First..(Heap!End - 1))
        = Cardinality(Heap!First..(Heap!End - 1))
  BY DEF Heap!Service!Cardinality, Cardinality
<1> QED
  BY <1>1, <1>2

\* Each call is a malloc or a free of the service, or changes nothing that callers see.
LEMMA HeapServes ==
    ASSUME HeapSetting, HeapIInv, HeapIInv', Heap!Next
    PROVE  Heap!Service!Next \/ UNCHANGED held
<1> DEFINE B == Heap!First..(Heap!End - 1)
<1>1. ASSUME NEW p \in DOMAIN held, Heap!FreeMark(p) PROVE Heap!Service!Next
  <2>1. Heap!Service!Free(p)
    BY <1>1 DEF Heap!FreeMark, Heap!Drop, Heap!Service!Free
  <2>2. p \in B
    BY PointersApart DEF HeapIInv
  <2> QED
    BY <2>1, <2>2 DEF Heap!Service!Next
<1>2. ASSUME NEW b \in Heap!Freed, Heap!FreeInsert(b) PROVE UNCHANGED held
  BY <1>2 DEF Heap!FreeInsert
<1>3. ASSUME NEW n \in 0..MaxWant, Heap!Malloc(n) PROVE Heap!Service!Next \/ UNCHANGED held
  <2> DEFINE fits == /\ Heap!Wanted(n) > 0 /\ Heap!Wanted(n) <= freeB
                     /\ link[Heap!FitPrev(Heap!Wanted(n))] # Heap!End
  <2>1. CASE ~fits
    BY <1>3, <2>1, PvMallocRefuses
  <2>2. CASE fits
    <3>1. PICK b \in Inside(blk') : /\ held' = Heap!Put(held, b + Heap!HeapStruct, n)
                                    /\ b + Heap!HeapStruct \notin DOMAIN held
      BY <1>3, <2>2, PvMallocTakes
    <3> DEFINE p == b + Heap!HeapStruct
    <3>2. p \notin DOMAIN held /\ held' = Heap!Put(held, p, n)
      BY <3>1
    <3> HIDE DEF p
    <3>3. /\ DOMAIN held' = DOMAIN held \cup {p} /\ held'[p] = n
          /\ \A x \in DOMAIN held : held'[x] = held[x]
      BY <3>2 DEF Heap!Put
    <3>4. /\ Laid(blk') /\ Backed(blk', held') /\ held' \in [DOMAIN held' -> 0..MaxWant]
          /\ DOMAIN held' \subseteq Heap!First..Heap!End
      BY DEF HeapIInv
    <3>5. /\ p % Align = 0 /\ Heap!Service!Region(p, held'[p]) \subseteq B
          /\ p \in B /\ held'[p] \in 1..(Heap!End - Heap!First)
          /\ \A y \in DOMAIN held' \ {p} :
                Heap!Service!Region(p, held'[p]) \cap Heap!Service!Region(y, held'[y]) = {}
      BY <3>3, <3>4, PointersApart, Zenon
    <3>6. \A y \in DOMAIN held :
              Heap!Service!Region(p, n) \cap Heap!Service!Region(y, held[y]) = {}
      BY <3>2, <3>3, <3>5
    <3>7. n > 0
      BY <3>3, <3>5, HeapTypes
    <3>8. Heap!Service!Malloc(p, n)
      BY <3>2, <3>3, <3>5, <3>6, <3>7 DEF Heap!Service!Malloc, Heap!Put
    <3> QED
      BY <3>3, <3>5, <3>8, HeapBytes DEF Heap!Service!Next
  <2> QED
    BY <2>1, <2>2
<1> QED
  BY <1>1, <1>2, <1>3 DEF Heap!Next

\* The regions that pvPortMalloc and mem_malloc hand out are aligned, lie inside of the heap
\* and apart from every other region that is held, and they end with vPortFree, mem_free or
\* mem_trim only: both heaps implement the heap that their callers see.
THEOREM HeapsServe == ASSUME HeapSetting, MemSetting PROVE Spec => HeapServiceSpec
<1> DEFINE Both == HeapIInv /\ MemIInv
           HeapServed == [part = "heap" => Heap!Service!Next]_held
           MemServed == [part = "mem" => Mem!Service!Next]_memHeld
<1>1. Init => Both /\ Heap!Service!Init /\ Mem!Service!Init
  BY HeapInit, MemInit DEF Init, Heap!Init, Mem!Init, Heap!Service!Init, Mem!Service!Init
<1>2. Both /\ [Next]_vars => Both'
  BY HeapStep, HeapKept, MemStep, MemKept DEF Next, vars
<1>3. ASSUME Both, Both', [Next]_vars PROVE HeapServed
  <2>1. CASE Heap!Next
    BY <1>3, <2>1, HeapServes
  <2>2. CASE UNCHANGED heapVars
    BY <2>2 DEF heapVars
  <2> QED
    BY <1>3, <2>1, <2>2 DEF Next, vars
<1>4. ASSUME Both, Both', [Next]_vars PROVE MemServed
  <2>1. CASE Mem!Next
    BY <1>4, <2>1, MemServes
  <2>2. CASE UNCHANGED memVars
    BY <2>2 DEF memVars
  <2> QED
    BY <1>4, <2>1, <2>2 DEF Next, vars
<1> QED
  BY <1>1, <1>2, <1>3, <1>4, PTL DEF Spec, HeapServiceSpec

-----------------------------------------------------------------------------
(* The pool. The elements of its free list are the least set that contains  *)
(* the head and what its elements lead to; every fact about the list below   *)
(* follows from that, without counting its elements.                         *)

Elems == Elements \cup {Null}
Links == [Elements -> Elems]

\* A caller that holds the lock is alone among those that would.
OneInside == \A t \in Locked : pc[t] # "idle" => core = t

\* Who goes by a head that another caller has written since, and which of the two may
\* hold the lock.
Clashes ==
    /\ Pool!OutsideOnly
    /\ \A t \in Pool!Threads : over[t] # Null => t \notin Locked \/ over[t] \notin Locked
    /\ \A t \in Pool!Threads : pc[t] \in {"idle", "link"} => over[t] = Null

\* What a caller has read is still so unless the head was written since.
FreshOf(t) ==
    /\ pc[t] # "idle" => memp[t] \in Elements
    /\ pc[t] \in {"load", "take"} /\ over[t] = Null => memp[t] = tab
    /\ pc[t] = "take" /\ over[t] = Null => after[t] = next[tab]
    /\ pc[t] \in {"link", "give"} => users[memp[t]] = 1
    /\ pc[t] = "give" /\ over[t] = Null => next[memp[t]] = tab
Fresh == \A t \in Pool!Threads : FreshOf(t)

\* No element is freed by two callers.
Gives(t) == pc[t] \in {"link", "give"}
Apart == \A s, t \in Pool!Threads : s # t /\ Gives(s) /\ Gives(t) => memp[s] # memp[t]

\* What nobody uses is on the list, and nothing else is; what is used has one user.
Unused == \A e \in Elements : users[e] = 0 <=> e \in Pool!Listed
Single == users \in [Elements -> 0..1]

Whole == Pool!Acyclic /\ Unused /\ Single /\ Fresh /\ Apart

PoolIInv == Pool!TypeOK /\ OneInside /\ Clashes /\ (torn = {} => Whole)
-----------------------------------------------------------------------------
(* Linked lists.                                                            *)

\* A set that has the head and is closed has the whole list.
LEMMA ReachLeast ==
    ASSUME NEW f \in Links, NEW h \in Elems, NEW S \in SUBSET Elements,
           h \in S \cup {Null}, Pool!Closed(S, f)
    PROVE  Pool!Reach(h, f) \subseteq S
BY DEF Pool!Reach

\* A list has its head and, with an element, its successor.
LEMMA ReachClosed ==
    ASSUME NEW f \in Links, NEW h \in Elems
    PROVE  /\ Pool!Reach(h, f) \in SUBSET Elements /\ h \in Pool!Reach(h, f) \cup {Null}
           /\ Pool!Closed(Pool!Reach(h, f), f)
<1>1. Pool!Reach(h, f) \in SUBSET Elements /\ h \in Pool!Reach(h, f) \cup {Null}
  BY DEF Pool!Reach, Elems
<1>2. ASSUME NEW e \in Pool!Reach(h, f), f[e] # Null PROVE f[e] \in Pool!Reach(h, f)
  <2>1. e \in Elements /\ f[e] \in Elements
    BY <1>1, <1>2 DEF Links, Elems
  <2>2. ASSUME NEW S \in SUBSET Elements, h \in S \cup {Null}, Pool!Closed(S, f) PROVE f[e] \in S
    <3>1. e \in S
      BY <2>2 DEF Pool!Reach
    <3> QED
      BY <1>2, <2>2, <3>1 DEF Pool!Closed
  <2> QED
    BY <2>1, <2>2 DEF Pool!Reach
<1> QED
  BY <1>1, <1>2 DEF Pool!Closed

\* An empty list has no elements.
LEMMA ReachNull ==
    ASSUME NEW f \in Links, Null \notin Elements
    PROVE  Pool!Reach(Null, f) = {}
<1>1. {} \in SUBSET Elements /\ Null \in {} \cup {Null} /\ Pool!Closed({}, f) /\ Null \in Elems
  BY DEF Pool!Closed, Elems
<1> QED
  BY <1>1, ReachLeast

\* The list of an element on a list is part of it.
LEMMA ReachPart ==
    ASSUME NEW f \in Links, NEW h \in Elems, NEW e \in Pool!Reach(h, f)
    PROVE  f[e] \in Elems /\ Pool!Reach(f[e], f) \subseteq Pool!Reach(h, f)
<1>1. /\ Pool!Reach(h, f) \in SUBSET Elements /\ Pool!Closed(Pool!Reach(h, f), f)
  BY ReachClosed
<1>2. f[e] \in Elems /\ f[e] \in Pool!Reach(h, f) \cup {Null}
  BY <1>1 DEF Links, Pool!Closed
<1> QED
  BY <1>1, <1>2, ReachLeast

\* A list is its head and the list that the head leads to.
LEMMA ReachHead ==
    ASSUME NEW f \in Links, NEW h \in Elements, Null \notin Elements
    PROVE  Pool!Reach(h, f) = {h} \cup Pool!Reach(f[h], f)
<1>1. h \in Elems /\ f[h] \in Elems
  BY DEF Links, Elems
<1>2. /\ Pool!Reach(f[h], f) \in SUBSET Elements /\ f[h] \in Pool!Reach(f[h], f) \cup {Null}
      /\ Pool!Closed(Pool!Reach(f[h], f), f)
  BY <1>1, ReachClosed
<1>3. h \in Pool!Reach(h, f)
  BY <1>1, ReachClosed
<1>4. Pool!Reach(f[h], f) \subseteq Pool!Reach(h, f)
  BY <1>1, <1>3, ReachPart
<1>5. Pool!Reach(h, f) \subseteq {h} \cup Pool!Reach(f[h], f)
  <2> DEFINE S == {h} \cup Pool!Reach(f[h], f)
  <2>1. S \in SUBSET Elements /\ h \in S \cup {Null} /\ Pool!Closed(S, f)
    BY <1>2 DEF Pool!Closed
  <2> HIDE DEF S
  <2>2. Pool!Reach(h, f) \subseteq S
    BY <1>1, <2>1, ReachLeast
  <2> QED
    BY <2>2 DEF S
<1> QED
  BY <1>3, <1>4, <1>5

\* A link of an element that is not on the list does not change it.
LEMMA ReachElsewhere ==
    ASSUME NEW f \in Links, NEW h \in Elems, NEW m \in Elements, NEW x \in Elems,
           m \notin Pool!Reach(h, f)
    PROVE  Pool!Reach(h, [f EXCEPT ![m] = x]) = Pool!Reach(h, f)
<1> DEFINE g == [f EXCEPT ![m] = x]
<1>1. g \in Links /\ \A e \in Elements : e # m => g[e] = f[e]
  BY DEF Links
<1> HIDE DEF g
<1>2. /\ Pool!Reach(h, f) \in SUBSET Elements /\ h \in Pool!Reach(h, f) \cup {Null}
      /\ Pool!Closed(Pool!Reach(h, f), f)
  BY ReachClosed
<1>3. Pool!Closed(Pool!Reach(h, f), g)
  BY <1>1, <1>2 DEF Pool!Closed
<1>4. Pool!Reach(h, g) \subseteq Pool!Reach(h, f)
  BY <1>1, <1>2, <1>3, ReachLeast
<1>5. /\ Pool!Reach(h, g) \in SUBSET Elements /\ h \in Pool!Reach(h, g) \cup {Null}
      /\ Pool!Closed(Pool!Reach(h, g), g)
  BY <1>1, ReachClosed
<1>6. Pool!Closed(Pool!Reach(h, g), f)
  BY <1>1, <1>4, <1>5 DEF Pool!Closed
<1>7. Pool!Reach(h, f) \subseteq Pool!Reach(h, g)
  BY <1>5, <1>6, ReachLeast
<1> QED
  BY <1>4, <1>7 DEF g
-----------------------------------------------------------------------------
(* The pool.                                                                *)

\* What the types say.
LEMMA PoolFacts ==
    ASSUME Pool!TypeOK
    PROVE  /\ next \in Links /\ tab \in Elems /\ Null \notin Elements /\ Null \notin Pool!Threads
           /\ Locked \subseteq Pool!Threads
BY MemoryAssumption DEF Pool!PoolAssumption, Pool!TypeOK, Links, Elems

\* memp_init_pool leaves every element on the list (memp.c:180-206).
LEMMA InitPool == Pool!Init => PoolIInv
<1> SUFFICES ASSUME Pool!Init PROVE PoolIInv
  OBVIOUS
<1>1. Null \notin Pool!Threads /\ Locked \subseteq Pool!Threads
  BY MemoryAssumption DEF Pool!PoolAssumption
<1>2. Pool!TypeOK /\ Single /\ Pool!Acyclic /\ Unused
  BY DEF Pool!Init, Pool!TypeOK, Single, Unused
<1>3. OneInside /\ Clashes /\ Fresh /\ Apart
  BY <1>1 DEF Pool!Init, OneInside, Clashes, Pool!OutsideOnly, Fresh, FreshOf, Apart, Gives
<1> QED
  BY <1>2, <1>3 DEF PoolIInv, Whole

\* A caller with the lock enters while no other one with the lock is inside.
LEMMA EnterStep ==
    ASSUME PoolIInv, NEW t \in Pool!Threads, NEW p, Pool!Enter(t), pc' = [pc EXCEPT ![t] = p]
    PROVE  OneInside' /\ core' \in Pool!Threads \cup {Null}
<1>1. Null \notin Pool!Threads /\ Locked \subseteq Pool!Threads
  BY PoolFacts DEF PoolIInv
<1>2. core' \in Pool!Threads \cup {Null}
  BY DEF Pool!Enter, PoolIInv, Pool!TypeOK
<1>3. ASSUME NEW s \in Locked, pc'[s] # "idle" PROVE core' = s
  <2>1. CASE s = t
    BY <2>1 DEF Pool!Enter
  <2>2. CASE s # t
    <3>1. pc'[s] = pc[s]
      BY <1>1, <2>2 DEF PoolIInv, Pool!TypeOK
    <3>2. core = s
      BY <1>3, <3>1 DEF PoolIInv, OneInside
    <3> QED
      BY <1>1, <3>2 DEF Pool!Enter, Pool!MayEnter
  <2> QED
    BY <2>1, <2>2
<1> QED
  BY <1>2, <1>3 DEF OneInside

\* A caller leaves, and gives back the lock that it holds.
LEMMA LeaveStep ==
    ASSUME PoolIInv, NEW t \in Pool!Threads, Pool!Leave(t)
    PROVE  /\ pc' = [pc EXCEPT ![t] = "idle"]
           /\ pc' \in [Pool!Threads -> {"idle", "load", "take", "link", "give"}]
           /\ memp' \in [Pool!Threads -> Elements \cup {Null}]
           /\ after' \in [Pool!Threads -> Elements \cup {Null}]
           /\ \A s \in Pool!Threads \ {t} : memp'[s] = memp[s] /\ after'[s] = after[s]
           /\ core' \in Pool!Threads \cup {Null} /\ OneInside'
<1>1. Null \notin Pool!Threads /\ Locked \subseteq Pool!Threads
  BY PoolFacts DEF PoolIInv
<1>2. /\ core' = IF core = t THEN Null ELSE core
      /\ pc' = [pc EXCEPT ![t] = "idle"]
      /\ memp' = [memp EXCEPT ![t] = Null] /\ after' = [after EXCEPT ![t] = Null]
  BY DEF Pool!Leave, Pool!Goto
<1>3. /\ pc' \in [Pool!Threads -> {"idle", "load", "take", "link", "give"}]
      /\ memp' \in [Pool!Threads -> Elements \cup {Null}]
      /\ after' \in [Pool!Threads -> Elements \cup {Null}]
      /\ \A s \in Pool!Threads \ {t} : memp'[s] = memp[s] /\ after'[s] = after[s]
      /\ core' \in Pool!Threads \cup {Null}
  BY <1>2 DEF PoolIInv, Pool!TypeOK
<1>4. ASSUME NEW s \in Locked, pc'[s] # "idle" PROVE core' = s
  <2>1. s # t /\ pc'[s] = pc[s]
    BY <1>1, <1>2, <1>4 DEF PoolIInv, Pool!TypeOK
  <2>2. core = s
    BY <1>4, <2>1 DEF PoolIInv, OneInside
  <2> QED
    BY <1>2, <2>1, <2>2
<1>5. OneInside'
  BY <1>4 DEF OneInside
<1> QED
  BY <1>2, <1>3, <1>5

\* A write of the head: of two that clash, one is not under the lock.
LEMMA WriteStep ==
    ASSUME PoolIInv, torn = {}, NEW t \in Pool!Threads, pc[t] \in {"take", "give"}, NEW e,
           Pool!WriteHead(t, e), Pool!Leave(t)
    PROVE  /\ tab' = e /\ Clashes' /\ (torn' = {} <=> over[t] = Null)
           /\ over' \in [Pool!Threads -> Pool!Threads \cup {Null}] /\ torn' \in SUBSET Pool!Threads
           /\ \A s \in Pool!Threads \ {t} : pc[s] \in {"load", "take", "give"} => over'[s] # Null
<1>1. Null \notin Pool!Threads /\ Locked \subseteq Pool!Threads
  BY PoolFacts DEF PoolIInv
<1>2. /\ tab' = e /\ torn' = IF over[t] = Null THEN {} ELSE {t, over[t]}
      /\ over' = [s \in Pool!Threads |-> IF s \in Pool!HasRead \ {t} THEN t ELSE Null]
  BY DEF Pool!WriteHead
<1>3. pc' = [pc EXCEPT ![t] = "idle"] /\ pc \in [Pool!Threads -> {"idle", "load", "take", "link", "give"}]
  BY LeaveStep DEF PoolIInv, Pool!TypeOK
<1>4. over[t] \in Pool!Threads \cup {Null}
  BY DEF PoolIInv, Pool!TypeOK
<1>5. over' \in [Pool!Threads -> Pool!Threads \cup {Null}] /\ torn' \in SUBSET Pool!Threads
  BY <1>2, <1>4
<1>6. torn' = {} <=> over[t] = Null
  BY <1>2
<1>7. torn' # {} => ~(torn' \subseteq Locked)
  BY <1>2 DEF PoolIInv, Clashes
<1>8. ASSUME NEW s \in Pool!Threads, over'[s] # Null PROVE s \notin Locked \/ over'[s] \notin Locked
  <2>1. s # t /\ pc[s] # "idle" /\ over'[s] = t /\ pc[t] # "idle"
    BY <1>2, <1>8 DEF Pool!HasRead
  <2> QED
    BY <2>1 DEF PoolIInv, OneInside
<1>9. ASSUME NEW s \in Pool!Threads, pc'[s] \in {"idle", "link"} PROVE over'[s] = Null
  BY <1>2, <1>3, <1>9 DEF Pool!HasRead
<1>10. \A s \in Pool!Threads \ {t} : pc[s] \in {"load", "take", "give"} => over'[s] # Null
  BY <1>1, <1>2 DEF Pool!HasRead
<1>11. Clashes'
  BY <1>7, <1>8, <1>9 DEF Clashes, Pool!OutsideOnly
<1> QED
  BY <1>2, <1>5, <1>6, <1>10, <1>11

\* memp_malloc reads the head of the list (memp.c:256).
LEMMA MallocHeadStep ==
    ASSUME PoolIInv, torn = {}, NEW t \in Pool!Threads, Pool!MallocHead(t)
    PROVE  PoolIInv' /\ UNCHANGED <<Pool!Listed, users, ret>>
<1>1. /\ pc[t] = "idle" /\ tab # Null /\ pc' = [pc EXCEPT ![t] = "load"]
      /\ memp' = [memp EXCEPT ![t] = tab] /\ Pool!Enter(t)
      /\ UNCHANGED <<tab, next, after, users, over, torn, ret>>
  BY DEF Pool!MallocHead, Pool!Goto, Pool!Enter
<1>2. OneInside' /\ core' \in Pool!Threads \cup {Null}
  BY <1>1, EnterStep
<1>3. Pool!TypeOK'
  BY <1>1, <1>2 DEF PoolIInv, Pool!TypeOK
<1>4. Clashes'
  BY <1>1 DEF PoolIInv, Pool!TypeOK, Clashes, Pool!OutsideOnly
<1>5. Pool!Acyclic' /\ Unused' /\ Single' /\ Pool!Listed' = Pool!Listed
  BY <1>1 DEF PoolIInv, Whole, Pool!Acyclic, Unused, Single, Pool!Listed
<1>6. Fresh'
  BY <1>1 DEF PoolIInv, Whole, Pool!TypeOK, Fresh, FreshOf
<1>7. Apart'
  BY <1>1 DEF PoolIInv, Whole, Pool!TypeOK, Apart, Gives
<1> QED
  BY <1>1, <1>2, <1>3, <1>4, <1>5, <1>6, <1>7 DEF PoolIInv, Whole

\* memp_malloc finds the pool empty (memp.c:256, 299).
LEMMA MallocNullStep ==
    ASSUME PoolIInv, torn = {}, NEW t \in Pool!Threads, Pool!MallocNull(t)
    PROVE  PoolIInv' /\ Pool!Listed = {} /\ ret' = Null /\ UNCHANGED <<Pool!Listed, users>>
<1>1. /\ tab = Null /\ ret' = Null
      /\ UNCHANGED <<tab, next, pc, memp, after, users, over, torn, core>>
  BY DEF Pool!MallocNull
<1>2. Pool!TypeOK' /\ OneInside' /\ Clashes'
  BY <1>1 DEF PoolIInv, Pool!TypeOK, OneInside, Clashes, Pool!OutsideOnly
<1>3. Pool!Acyclic' /\ Unused' /\ Single' /\ Pool!Listed' = Pool!Listed
  BY <1>1 DEF PoolIInv, Whole, Pool!Acyclic, Unused, Single, Pool!Listed
<1>4. Fresh' /\ Apart'
  BY <1>1 DEF PoolIInv, Whole, Fresh, FreshOf, Apart, Gives
<1>5. Pool!Listed = {}
  BY <1>1, PoolFacts, ReachNull DEF PoolIInv, Pool!Listed
<1> QED
  BY <1>1, <1>2, <1>3, <1>4, <1>5 DEF PoolIInv, Whole

\* memp_free enters with an element that is in use (memp.c:359).
LEMMA FreeBeginStep ==
    ASSUME PoolIInv, torn = {}, NEW t \in Pool!Threads, NEW e \in Elements, Pool!FreeBegin(t, e)
    PROVE  PoolIInv' /\ UNCHANGED <<Pool!Listed, users, ret>>
<1>1. /\ pc[t] = "idle" /\ pc' = [pc EXCEPT ![t] = "link"] /\ memp' = [memp EXCEPT ![t] = e]
      /\ users[e] > 0 /\ Pool!Enter(t)
      /\ UNCHANGED <<tab, next, after, users, over, torn, ret>>
  BY DEF Pool!FreeBegin, Pool!Goto, Pool!Enter
<1>2. OneInside' /\ core' \in Pool!Threads \cup {Null}
  BY <1>1, EnterStep
<1>3. Pool!TypeOK' /\ users[e] = 1
  BY <1>1, <1>2 DEF PoolIInv, Whole, Single, Pool!TypeOK
<1>4. Clashes'
  BY <1>1 DEF PoolIInv, Pool!TypeOK, Clashes, Pool!OutsideOnly
<1>5. Pool!Acyclic' /\ Unused' /\ Single' /\ Pool!Listed' = Pool!Listed
  BY <1>1 DEF PoolIInv, Whole, Pool!Acyclic, Unused, Single, Pool!Listed
<1>6. Fresh'
  BY <1>1, <1>3 DEF PoolIInv, Whole, Pool!TypeOK, Fresh, FreshOf
<1>7. Apart'
  <2>1. \A s \in Pool!Threads : Gives(s) => memp[s] # e
    BY DEF Pool!FreeBegin, Pool!Freeing, Gives
  <2> QED
    BY <1>1, <2>1 DEF PoolIInv, Whole, Pool!TypeOK, Apart, Gives
<1> QED
  BY <1>1, <1>2, <1>3, <1>4, <1>5, <1>6, <1>7 DEF PoolIInv, Whole

\* memp_malloc reads the successor of the head that it has read (memp.c:268).
LEMMA MallocNextStep ==
    ASSUME PoolIInv, torn = {}, NEW t \in Pool!Threads, Pool!MallocNext(t)
    PROVE  PoolIInv' /\ UNCHANGED <<Pool!Listed, users, ret>>
<1>1. /\ pc[t] = "load" /\ after' = [after EXCEPT ![t] = next[memp[t]]]
      /\ pc' = [pc EXCEPT ![t] = "take"]
      /\ UNCHANGED <<tab, next, memp, users, over, torn, core, ret>>
  BY DEF Pool!MallocNext, Pool!Goto
<1>2. memp[t] \in Elements /\ next[memp[t]] \in Elements \cup {Null}
  BY <1>1 DEF PoolIInv, Whole, Fresh, FreshOf, Pool!TypeOK
<1>3. Pool!TypeOK'
  BY <1>1, <1>2 DEF PoolIInv, Pool!TypeOK
<1>4. OneInside' /\ Clashes'
  BY <1>1, PoolFacts DEF PoolIInv, Pool!TypeOK, OneInside, Clashes, Pool!OutsideOnly
<1>5. Pool!Acyclic' /\ Unused' /\ Single' /\ Pool!Listed' = Pool!Listed
  BY <1>1 DEF PoolIInv, Whole, Pool!Acyclic, Unused, Single, Pool!Listed
<1>6. Fresh'
  BY <1>1, <1>2 DEF PoolIInv, Whole, Pool!TypeOK, Fresh, FreshOf
<1>7. Apart'
  BY <1>1 DEF PoolIInv, Whole, Pool!TypeOK, Apart, Gives
<1> QED
  BY <1>1, <1>3, <1>4, <1>5, <1>6, <1>7 DEF PoolIInv, Whole

\* memp_malloc takes the head off the list; it led to what memp_malloc has read, unless
\* the head was written in between (memp.c:268-290).
LEMMA MallocTakeStep ==
    ASSUME PoolIInv, torn = {}, NEW t \in Pool!Threads, Pool!MallocTake(t)
    PROVE  /\ PoolIInv'
           /\ torn' = {} => /\ tab \in Pool!Listed /\ Pool!Listed' = Pool!Listed \ {tab}
                            /\ ret' = tab /\ users' = [users EXCEPT ![tab] = @ + 1]
<1>1. /\ pc[t] = "take" /\ Pool!WriteHead(t, after[t]) /\ ret' = memp[t]
      /\ users' = [users EXCEPT ![memp[t]] = @ + 1] /\ Pool!Leave(t) /\ UNCHANGED next
  BY DEF Pool!MallocTake
<1>2. /\ tab' = after[t] /\ Clashes' /\ (torn' = {} <=> over[t] = Null)
      /\ over' \in [Pool!Threads -> Pool!Threads \cup {Null}] /\ torn' \in SUBSET Pool!Threads
      /\ \A s \in Pool!Threads \ {t} : pc[s] \in {"load", "take", "give"} => over'[s] # Null
  BY <1>1, WriteStep
<1>3. /\ pc' = [pc EXCEPT ![t] = "idle"] /\ OneInside'
      /\ \A s \in Pool!Threads \ {t} : memp'[s] = memp[s] /\ after'[s] = after[s]
  BY <1>1, LeaveStep
<1>4. memp[t] \in Elements
  BY <1>1 DEF PoolIInv, Whole, Fresh, FreshOf
<1>5. Pool!TypeOK'
  <2>1. users' \in [Elements -> 0..2] /\ ret' \in Elements \cup {Null}
    BY <1>1, <1>4 DEF PoolIInv, Whole, Single
  <2>2. tab' \in Elements \cup {Null} /\ next' \in [Elements -> Elements \cup {Null}]
    BY <1>1, <1>2 DEF PoolIInv, Pool!TypeOK
  <2> QED
    BY <1>1, <1>2, <2>1, <2>2, LeaveStep DEF Pool!TypeOK
<1>6. CASE torn' # {}
  BY <1>2, <1>3, <1>5, <1>6 DEF PoolIInv
<1>7. CASE torn' = {}
  <2>1. memp[t] = tab /\ tab \in Elements /\ tab' = next[tab]
    BY <1>1, <1>2, <1>4, <1>7 DEF PoolIInv, Whole, Fresh, FreshOf
  <2>2. /\ next \in Links /\ tab \in Elems /\ Null \notin Elements /\ next[tab] \in Elems
        /\ Pool!Listed' = Pool!Reach(next[tab], next)
    BY <1>1, <2>1, PoolFacts DEF PoolIInv, Links, Pool!Listed
  <2>3. Pool!Listed = {tab} \cup Pool!Listed'
    BY <2>1, <2>2, ReachHead DEF Pool!Listed
  <2>4. tab \notin Pool!Listed'
    BY <2>2, <2>3 DEF PoolIInv, Whole, Pool!Acyclic
  <2>5. users[tab] = 0
    BY <2>1, <2>3 DEF PoolIInv, Whole, Unused
  <2>6. Single' /\ \A e \in Elements \ {tab} : users'[e] = users[e]
    BY <1>1, <2>1, <2>5 DEF PoolIInv, Whole, Single
  <2>7. Pool!Acyclic'
    BY <1>1, <2>3 DEF PoolIInv, Whole, Pool!Acyclic
  <2>8. Unused'
    BY <1>1, <2>1, <2>3, <2>4, <2>5, <2>6 DEF PoolIInv, Whole, Single, Unused
  <2>9. Fresh'
    <3>1. ASSUME NEW s \in Pool!Threads PROVE FreshOf(s)'
      <4>1. CASE s = t
        BY <1>3, <4>1 DEF FreshOf, PoolIInv, Pool!TypeOK
      <4>2. CASE s # t
        <5>1. pc'[s] = pc[s] /\ memp'[s] = memp[s] /\ FreshOf(s)
          BY <1>3, <4>2 DEF PoolIInv, Pool!TypeOK, Whole, Fresh
        <5>2. pc[s] # "idle" => memp[s] \in Elements
          BY <5>1 DEF FreshOf
        <5>3. pc[s] \in {"load", "take", "give"} => over'[s] # Null
          BY <1>2, <4>2
        <5>4. pc[s] \in {"link", "give"} => users'[memp[s]] = 1
          BY <2>5, <2>6, <5>1, <5>2 DEF FreshOf
        <5> QED
          BY <5>1, <5>2, <5>3, <5>4 DEF FreshOf
      <4> QED
        BY <4>1, <4>2
    <3> QED
      BY <3>1 DEF Fresh
  <2>10. Apart'
    BY <1>3 DEF PoolIInv, Whole, Pool!TypeOK, Apart, Gives
  <2> QED
    BY <1>1, <1>2, <1>3, <1>5, <2>1, <2>3, <2>4, <2>6, <2>7, <2>8, <2>9, <2>10
    DEF PoolIInv, Whole
<1> QED
  BY <1>6, <1>7

\* memp_free links the element to the head of the list, which it is not on (memp.c:385).
LEMMA FreeLinkStep ==
    ASSUME PoolIInv, torn = {}, NEW t \in Pool!Threads, Pool!FreeLink(t)
    PROVE  PoolIInv' /\ UNCHANGED <<Pool!Listed, users, ret>>
<1>1. /\ pc[t] = "link" /\ next' = [next EXCEPT ![memp[t]] = tab]
      /\ pc' = [pc EXCEPT ![t] = "give"]
      /\ UNCHANGED <<tab, memp, after, users, over, torn, core, ret>>
  BY DEF Pool!FreeLink, Pool!Goto
<1>2. /\ memp[t] \in Elements /\ users[memp[t]] = 1 /\ memp[t] \notin Pool!Listed
  BY <1>1 DEF PoolIInv, Whole, Fresh, FreshOf, Unused
<1>3. next \in Links /\ tab \in Elems /\ Null \notin Elements /\ next' \in Links
  BY <1>1, <1>2, PoolFacts DEF PoolIInv, Links
<1>4. Pool!Listed' = Pool!Listed
  BY <1>1, <1>2, <1>3, ReachElsewhere DEF Pool!Listed
<1>5. \A e \in Pool!Listed : /\ next'[e] = next[e]
                              /\ Pool!Reach(next[e], next') = Pool!Reach(next[e], next)
  <2> TAKE e \in Pool!Listed
  <2>1. e \in Elements /\ next[e] \in Elems /\ Pool!Reach(next[e], next) \subseteq Pool!Listed
    BY <1>3, ReachPart, ReachClosed DEF Pool!Listed
  <2>2. memp[t] \notin Pool!Reach(next[e], next)
    BY <1>2, <2>1
  <2> QED
    BY <1>1, <1>2, <1>3, <2>1, <2>2, ReachElsewhere DEF Links
<1>6. Pool!Acyclic'
  BY <1>4, <1>5 DEF PoolIInv, Whole, Pool!Acyclic
<1>7. Unused' /\ Single'
  BY <1>1, <1>4 DEF PoolIInv, Whole, Unused, Single
<1>8. Pool!TypeOK'
  BY <1>1, <1>3 DEF PoolIInv, Pool!TypeOK, Links, Elems
<1>9. OneInside' /\ Clashes'
  BY <1>1, PoolFacts DEF PoolIInv, Pool!TypeOK, OneInside, Clashes, Pool!OutsideOnly
<1>10. Fresh'
  <2>1. ASSUME NEW s \in Pool!Threads PROVE FreshOf(s)'
    <3>1. CASE s = t
      <4>1. next'[memp[t]] = tab /\ pc'[t] = "give"
        BY <1>1, <1>2, <1>3 DEF Links, PoolIInv, Pool!TypeOK
      <4> QED
        BY <1>1, <1>2, <3>1, <4>1 DEF FreshOf
    <3>2. CASE s # t
      <4>1. pc'[s] = pc[s] /\ FreshOf(s)
        BY <1>1, <3>2 DEF PoolIInv, Pool!TypeOK, Whole, Fresh
      <4>2. pc[s] = "take" /\ over[s] = Null => next'[tab] = next[tab]
        <5>1. pc[s] = "take" /\ over[s] = Null => tab \in Elements
          BY <4>1 DEF FreshOf
        <5>2. tab \in Elements => tab \in Pool!Listed
          BY <1>3, ReachHead DEF Pool!Listed
        <5> QED
          BY <1>5, <5>1, <5>2
      <4>3. pc[s] = "give" => next'[memp[s]] = next[memp[s]]
        <5>1. pc[s] = "give" => memp[s] # memp[t] /\ memp[s] \in Elements
          BY <1>1, <3>2, <4>1 DEF PoolIInv, Whole, Apart, Gives, FreshOf
        <5> QED
          BY <1>1, <1>3, <5>1 DEF Links
      <4> QED
        BY <1>1, <4>1, <4>2, <4>3 DEF FreshOf
    <3> QED
      BY <3>1, <3>2
  <2> QED
    BY <2>1 DEF Fresh
<1>11. Apart'
  BY <1>1 DEF PoolIInv, Whole, Pool!TypeOK, Apart, Gives
<1> QED
  BY <1>1, <1>4, <1>6, <1>7, <1>8, <1>9, <1>10, <1>11 DEF PoolIInv, Whole

\* memp_free makes the element the head of the list, and the list goes on as it was
\* unless the head was written in between (memp.c:386).
LEMMA FreeGiveStep ==
    ASSUME PoolIInv, torn = {}, NEW t \in Pool!Threads, Pool!FreeGive(t)
    PROVE  /\ PoolIInv' /\ memp[t] \in Elements /\ users[memp[t]] = 1 /\ ret' = ret
           /\ users' = [users EXCEPT ![memp[t]] = @ - 1]
           /\ torn' = {} => Pool!Listed' = Pool!Listed \cup {memp[t]}
<1>1. /\ pc[t] = "give" /\ Pool!WriteHead(t, memp[t])
      /\ users' = [users EXCEPT ![memp[t]] = @ - 1] /\ Pool!Leave(t) /\ UNCHANGED <<next, ret>>
  BY DEF Pool!FreeGive
<1>2. /\ tab' = memp[t] /\ Clashes' /\ (torn' = {} <=> over[t] = Null)
      /\ over' \in [Pool!Threads -> Pool!Threads \cup {Null}] /\ torn' \in SUBSET Pool!Threads
      /\ \A s \in Pool!Threads \ {t} : pc[s] \in {"load", "take", "give"} => over'[s] # Null
  BY <1>1, WriteStep
<1>3. /\ pc' = [pc EXCEPT ![t] = "idle"] /\ OneInside'
      /\ \A s \in Pool!Threads \ {t} : memp'[s] = memp[s] /\ after'[s] = after[s]
  BY <1>1, LeaveStep
<1>4. memp[t] \in Elements /\ users[memp[t]] = 1 /\ memp[t] \notin Pool!Listed
  BY <1>1 DEF PoolIInv, Whole, Fresh, FreshOf, Unused
<1>5. Single' /\ \A e \in Elements \ {memp[t]} : users'[e] = users[e]
  BY <1>1, <1>4 DEF PoolIInv, Whole, Single
<1>6. Pool!TypeOK'
  <2>1. users' \in [Elements -> 0..2]
    BY <1>5 DEF Single
  <2>2. /\ tab' \in Elements \cup {Null} /\ next' \in [Elements -> Elements \cup {Null}]
        /\ ret' \in Elements \cup {Null}
    BY <1>1, <1>2, <1>4 DEF PoolIInv, Pool!TypeOK
  <2> QED
    BY <1>1, <1>2, <2>1, <2>2, LeaveStep DEF Pool!TypeOK
<1>7. CASE torn' # {}
  BY <1>1, <1>2, <1>3, <1>4, <1>6, <1>7 DEF PoolIInv
<1>8. CASE torn' = {}
  <2>1. next[memp[t]] = tab
    BY <1>1, <1>2, <1>8 DEF PoolIInv, Whole, Fresh, FreshOf
  <2>2. next \in Links /\ tab \in Elems /\ Null \notin Elements
    BY PoolFacts DEF PoolIInv
  <2>3. Pool!Listed' = {memp[t]} \cup Pool!Listed
    BY <1>1, <1>2, <1>4, <2>1, <2>2, ReachHead DEF Pool!Listed
  <2>4. Pool!Acyclic'
    <3>1. memp[t] \notin Pool!Reach(next[memp[t]], next)
      BY <1>4, <2>1 DEF Pool!Listed
    <3> QED
      BY <1>1, <2>3, <3>1 DEF PoolIInv, Whole, Pool!Acyclic
  <2>5. Unused'
    BY <1>1, <1>4, <1>5, <2>3 DEF PoolIInv, Whole, Single, Unused
  <2>6. Fresh'
    <3>1. ASSUME NEW s \in Pool!Threads PROVE FreshOf(s)'
      <4>1. CASE s = t
        BY <1>3, <4>1 DEF FreshOf, PoolIInv, Pool!TypeOK
      <4>2. CASE s # t
        <5>1. pc'[s] = pc[s] /\ memp'[s] = memp[s] /\ FreshOf(s)
          BY <1>3, <4>2 DEF PoolIInv, Pool!TypeOK, Whole, Fresh
        <5>2. pc[s] # "idle" => memp[s] \in Elements
          BY <5>1 DEF FreshOf
        <5>3. pc[s] \in {"load", "take", "give"} => over'[s] # Null
          BY <1>2, <4>2
        <5>4. pc[s] \in {"link", "give"} => users'[memp[s]] = 1
          <6>1. pc[s] \in {"link", "give"} => memp[s] # memp[t]
            BY <1>1, <4>2 DEF PoolIInv, Whole, Apart, Gives
          <6> QED
            BY <1>5, <5>1, <5>2, <6>1 DEF FreshOf
        <5> QED
          BY <5>1, <5>2, <5>3, <5>4 DEF FreshOf
      <4> QED
        BY <4>1, <4>2
    <3> QED
      BY <3>1 DEF Fresh
  <2>7. Apart'
    BY <1>3 DEF PoolIInv, Whole, Pool!TypeOK, Apart, Gives
  <2> QED
    BY <1>1, <1>2, <1>3, <1>4, <1>5, <1>6, <2>3, <2>4, <2>5, <2>6, <2>7 DEF PoolIInv, Whole
<1> QED
  BY <1>7, <1>8

\* Every access of every caller keeps the invariant.
LEMMA NextPool == PoolIInv /\ [Pool!Next]_(Pool!vars) => PoolIInv'
<1> SUFFICES ASSUME PoolIInv, [Pool!Next]_(Pool!vars) PROVE PoolIInv'
  OBVIOUS
<1>1. CASE UNCHANGED Pool!vars
  <2>1. Pool!TypeOK' /\ OneInside' /\ Clashes'
    BY <1>1 DEF Pool!vars, PoolIInv, Pool!TypeOK, OneInside, Clashes, Pool!OutsideOnly
  <2>2. Whole => Whole'
    BY <1>1 DEF Pool!vars, Whole, Single, Fresh, FreshOf, Apart, Gives, Pool!Acyclic, Unused,
       Pool!Listed
  <2> QED
    BY <1>1, <2>1, <2>2 DEF Pool!vars, PoolIInv
<1>2. CASE torn = {} /\ Pool!Next
  BY <1>2, MallocHeadStep, MallocNullStep, MallocNextStep, MallocTakeStep, FreeBeginStep,
     FreeLinkStep, FreeGiveStep DEF Pool!Next
<1> QED
  BY <1>1, <1>2 DEF Pool!Next
-----------------------------------------------------------------------------
(* What follows.                                                            *)

\* The first state of a pool is one of MempService.
LEMMA InitServes == Pool!Init => Pool!Service!Init
BY DEF Pool!Init, Pool!Service!Init

\* Every access that does not tear the list is a step of MempService or one it does not
\* see.
LEMMA NextServes ==
    ASSUME PoolIInv, [Pool!Next]_(Pool!vars), torn' = {}
    PROVE  [Pool!Service!Next]_(Pool!Service!vars)
<1>1. CASE UNCHANGED Pool!vars
  BY <1>1 DEF Pool!vars, Pool!Service!vars, Pool!Listed
<1>2. ASSUME torn = {}, NEW t \in Pool!Threads,
             \/ Pool!MallocHead(t) \/ Pool!MallocNext(t) \/ Pool!FreeLink(t)
             \/ \E e \in Elements : Pool!FreeBegin(t, e)
      PROVE  UNCHANGED Pool!Service!vars
  <2>1. UNCHANGED <<Pool!Listed, users, ret>>
    BY <1>2, MallocHeadStep, MallocNextStep, FreeLinkStep, FreeBeginStep
  <2> QED
    BY <2>1 DEF Pool!Service!vars
<1>3. ASSUME torn = {}, NEW t \in Pool!Threads, Pool!MallocNull(t) PROVE Pool!Service!Next
  <2>1. Pool!Listed = {} /\ ret' = Null /\ UNCHANGED <<Pool!Listed, users>>
    BY <1>3, MallocNullStep
  <2> QED
    BY <2>1 DEF Pool!Service!Next, Pool!Service!MallocNull
<1>4. ASSUME torn = {}, NEW t \in Pool!Threads, Pool!MallocTake(t) PROVE Pool!Service!Next
  <2>1. /\ tab \in Pool!Listed /\ Pool!Listed' = Pool!Listed \ {tab} /\ ret' = tab
        /\ users' = [users EXCEPT ![tab] = @ + 1]
    BY <1>4, MallocTakeStep
  <2>2. PICK m \in Elements : m = tab
    BY <2>1 DEF Pool!Listed, Pool!Reach
  <2>3. users \in [Elements -> 0..1] /\ users[m] = 0
    BY <1>4, <2>1, <2>2 DEF PoolIInv, Whole, Single, Unused
  <2>4. {e \in Elements : users'[e] > 0} = {e \in Elements : users[e] > 0} \cup {m}
    BY <2>1, <2>2, <2>3
  <2>5. Pool!Service!Malloc(m)
    BY <2>1, <2>2, <2>4 DEF Pool!Service!Malloc
  <2> QED
    BY <2>5 DEF Pool!Service!Next
<1>5. ASSUME torn = {}, NEW t \in Pool!Threads, Pool!FreeGive(t) PROVE Pool!Service!Next
  <2>1. PICK m \in Elements : m = memp[t]
    BY <1>5, FreeGiveStep
  <2>2. /\ users[m] = 1 /\ Pool!Listed' = Pool!Listed \cup {m} /\ ret' = ret
        /\ users' = [users EXCEPT ![m] = @ - 1] /\ users \in [Elements -> 0..1]
    BY <1>5, <2>1, FreeGiveStep DEF PoolIInv, Whole, Single
  <2>3. /\ {e \in Elements : users'[e] > 0} = {e \in Elements : users[e] > 0} \ {m}
        /\ m \in {e \in Elements : users[e] > 0}
    BY <2>2
  <2>4. Pool!Service!Free(m)
    BY <2>2, <2>3 DEF Pool!Service!Free
  <2> QED
    BY <2>4 DEF Pool!Service!Next
<1> QED
  BY <1>1, <1>2, <1>3, <1>4, <1>5 DEF Pool!Next

LEMMA PoolHolds == Spec => []PoolIInv
<1>1. Init => PoolIInv
  BY InitPool DEF Init
<1>2. PoolIInv /\ [Next]_vars => PoolIInv'
  BY NextPool DEF Next, vars, poolVars, Pool!vars
<1> QED
  BY <1>1, <1>2, PTL DEF Spec

\* For any callers, with the core lock or without: until one writes the head that another
\* has written since it was read, memp_malloc never hands out an element that somebody has
\* and no element is lost; and of these two, one does not hold the lock (memp.c:251-300,
\* 359-394).
THEOREM PoolWhole ==
    Spec => [](Pool!OutsideOnly /\ (torn = {} => Pool!SingleOwner /\ Pool!Conserved))
<1>1. PoolIInv => Pool!OutsideOnly /\ (torn = {} => Pool!SingleOwner /\ Pool!Conserved)
  BY DEF PoolIInv, Clashes, Whole, Single, Pool!SingleOwner, Pool!Conserved, Unused
<1> QED
  BY <1>1, PoolHolds, PTL

\* With every caller under the lock, the list stays whole (memp.c:251-300, 359-394).
COROLLARY LockedPoolWhole ==
    ASSUME Locked = Pool!Threads
    PROVE  Spec => [](Pool!SingleOwner /\ Pool!Conserved)
<1>1. PoolIInv => Pool!SingleOwner /\ Pool!Conserved
  <2>1. PoolIInv => torn = {}
    BY DEF PoolIInv, Clashes, Pool!OutsideOnly, Pool!TypeOK
  <2> QED
    BY <2>1 DEF PoolIInv, Whole, Single, Pool!SingleOwner, Pool!Conserved, Unused
<1> QED
  BY <1>1, PoolHolds, PTL

\* For any callers, with the core lock or without: until two writes of the head clash,
\* memp_malloc hands out what nobody has, or NULL when there is nothing, and memp_free
\* takes back what was handed out; and of the two callers whose writes clash, one does not
\* hold the lock (memp.c:256-268, 385-386).
THEOREM PoolServes == Spec => MempServiceSpec
<1> DEFINE PoolServed == [part = "pool" /\ torn' = {} => Pool!Service!Next]_(Pool!Service!vars)
<1>1. Init => Pool!Service!Init
  BY InitServes DEF Init
<1>2. PoolIInv /\ [Next]_vars => PoolServed
  <2> SUFFICES ASSUME PoolIInv, [Next]_vars PROVE PoolServed
    OBVIOUS
  <2>1. [Pool!Next]_(Pool!vars)
    BY DEF Next, vars, poolVars, Pool!vars
  <2>2. CASE torn' # {}
    BY <2>2
  <2>3. CASE torn' = {}
    BY <2>1, <2>3, NextServes
  <2> QED
    BY <2>2, <2>3
<1>3. PoolIInv => Pool!TypeOK /\ Pool!OutsideOnly
  BY DEF PoolIInv, Clashes
<1> QED
  BY <1>1, <1>2, <1>3, PoolHolds, PTL DEF Spec, MempServiceSpec
=============================================================================

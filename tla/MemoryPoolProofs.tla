-------------------------- MODULE MemoryPoolProofs --------------------------
(***************************************************************************)
(* Proofs, for every size of the pool, every set of callers, descriptors   *)
(* and requests, of what the memory pool promises: what is given out lies  *)
(* in the pool, and until a descriptor could not be allocated the lists,   *)
(* the counter and the callers agree on who has which bytes.               *)
(*                                                                         *)
(* The lists are described by their links alone: where a link leads, that  *)
(* every descriptor has exactly one link to it, and that some rank falls   *)
(* along the links, so that they form no ring.                             *)
(***************************************************************************)
EXTENDS MemoryPool, FiniteSetTheorems, WellFoundedInduction, TLAPS

-----------------------------------------------------------------------------
(* The inductive invariant.                                                *)

Descriptors == [ptr : Nat, size : Nat, in_use : BOOLEAN]
Walks == [op : {"none", "alloc", "free", "abort"}, caller : Callers \cup {Null},
          ptr : Int, size : Sizes \cup {0}, current : Places \cup {Null}]
Grants == [ptr : Int, size : Sizes \cup {0}]

Flags == pool \in BOOLEAN /\ starved \in BOOLEAN

Types ==
    /\ block \in [Blocks -> Descriptors]
    /\ next \in [Places -> Blocks \cup {Null}]
    /\ allocated \in Int
    /\ walk \in Walks
    /\ held \in [Callers -> Grants]

(* A walk is at a place and for a caller, who holds nothing meanwhile.     *)
Walking ==
    /\ walk.op \in {"alloc", "free"} =>
         walk.current \in Places /\ walk.caller \in Callers /\ held[walk.caller] = NoGrant
    /\ walk.op = "alloc" => walk.size \in Sizes
    /\ ~pool => /\ block = NoBlocks /\ next = NoLinks /\ allocated = 0 /\ walk = NoWalk
                /\ \A c \in Callers : held[c] = NoGrant

End(b) == block[b].ptr + block[b].size

(* Blocks and what is given out lie in the pool, at multiples of 8.        *)
Fitting ==
    /\ \A b \in Allocated :
         block[b].ptr % 8 = 0 /\ block[b].size % 8 = 0 /\ End(b) <= PoolSize
    /\ \A c \in Callers : held[c].ptr # OnHeap =>
         /\ held[c].ptr \in Nat /\ held[c].ptr % 8 = 0 /\ held[c].size \in Sizes
         /\ held[c].ptr + Round(held[c].size) <= PoolSize

UsedBlocks == {b \in Blocks : block[b].in_use}

(* The links nx between the allocated descriptors A, of which U are used.  *)
OfUsed(p, U) == p = used_blocks \/ p \in U
HeadOf(b, U) == IF b \in U THEN used_blocks ELSE free_blocks
Links(nx, A, U) ==
    /\ nx \in [Places -> Blocks \cup {Null}]
    /\ A \subseteq Blocks /\ U \subseteq A
    /\ \A p \in Places : nx[p] # Null =>
         nx[p] \in A /\ (nx[p] \in U <=> OfUsed(p, U)) /\ p \in A \cup Heads
    /\ \A p, q \in Places : nx[p] = nx[q] => p = q \/ nx[p] = Null
    /\ \A b \in A : \E p \in Places : nx[p] = b
    /\ \E rank \in [Places -> Nat] :
         /\ \A p \in Places : nx[p] # Null => rank[nx[p]] < rank[p]
         /\ \A b \in A : rank[b] < rank[HeadOf(b, U)]

(* A walk is on the list that its operation is about.                      *)
Side ==
    /\ walk.op = "alloc" => ~OfUsed(walk.current, UsedBlocks)
    /\ walk.op = "free" => OfUsed(walk.current, UsedBlocks)

Apart ==
    \A a, b \in Allocated : a # b => End(a) <= block[b].ptr \/ End(b) <= block[a].ptr

(* Who holds a part of the pool has a used block of his own, and a used    *)
(* block is held or just being given back.                                 *)
Owned ==
    /\ \A c \in Callers : held[c].ptr # OnHeap =>
         \E b \in UsedBlocks :
             block[b].ptr = held[c].ptr /\ block[b].size = Round(held[c].size)
    /\ \A c, d \in Callers :
         held[c].ptr = held[d].ptr => c = d \/ held[c].ptr = OnHeap
    /\ walk.op = "free" =>
         \A c \in Callers : held[c].ptr = walk.ptr => held[c].ptr = OnHeap
    /\ \A b \in UsedBlocks :
         \/ \E c \in Callers : held[c].ptr = block[b].ptr
         \/ walk.op \in {"free", "abort"} /\ walk.ptr = block[b].ptr

UsedBytes == {x \in 0 .. PoolSize - 1 : \E b \in UsedBlocks : block[b].ptr <= x /\ x < End(b)}
Counted == allocated = Cardinality(UsedBytes)

Books == ~starved =>
    Links(next, Allocated, UsedBlocks) /\ Side /\ Apart /\ Owned /\ Counted

PoolInv == Flags /\ Types /\ Walking /\ Fitting /\ Books

-----------------------------------------------------------------------------
(* Moving descriptors between the lists.                                   *)

(* A descriptor goes from behind p to the head of the other list.          *)
LEMMA Moves ==
    ASSUME NEW nx, NEW A, NEW U, Links(nx, A, U),
           NEW p \in Places, NEW h, h = nx[p], h # Null,
           NEW head \in Heads, OfUsed(p, U) <=> head = free_blocks,
           NEW V, V = IF head = used_blocks THEN U \cup {h} ELSE U \ {h},
           NEW ny, ny = [nx EXCEPT ![p] = nx[h], ![h] = nx[head], ![head] = h]
    PROVE  Links(ny, A, V)
<1>1. /\ nx \in [Places -> Blocks \cup {Null}] /\ A \subseteq Blocks /\ U \subseteq A
      /\ \A q \in Places : nx[q] # Null =>
            nx[q] \in A /\ (nx[q] \in U <=> OfUsed(q, U)) /\ q \in A \cup Heads
      /\ \A q, s \in Places : nx[q] = nx[s] => q = s \/ nx[q] = Null
      /\ \A b \in A : \E q \in Places : nx[q] = b
  BY DEF Links
<1>2. PICK rank \in [Places -> Nat] :
         /\ \A q \in Places : nx[q] # Null => rank[nx[q]] < rank[q]
         /\ \A a \in A : rank[a] < rank[HeadOf(a, U)]
  BY DEF Links
<1>3. /\ Blocks \subseteq Places /\ Heads \subseteq Places /\ Null \notin Places
      /\ Blocks \cap Heads = {} /\ free_blocks # used_blocks
      /\ Heads = {free_blocks, used_blocks}
  BY PoolAssumption DEF Places, Heads
<1>4. h \in A /\ h \in Places /\ h \notin Heads /\ p # h /\ p # head /\ h # head
  <2>1. h \in A /\ h \in Places /\ h \notin Heads
    BY <1>1, <1>3
  <2>2. rank[h] < rank[p] /\ rank[p] \in Nat
    BY <1>2
  <2>3. p # head
    BY <1>1, <1>3 DEF OfUsed
  <2> QED  BY <1>3, <2>1, <2>2, <2>3
<1>5. /\ ny \in [Places -> Blocks \cup {Null}]
      /\ ny[p] = nx[h] /\ ny[h] = nx[head] /\ ny[head] = h
      /\ \A q \in Places \ {p, h, head} : ny[q] = nx[q]
  BY <1>1, <1>3, <1>4
<1>6. nx[h] # h /\ nx[head] # h /\ \A q \in Places : q # p => nx[q] # h
  BY <1>1, <1>2, <1>3, <1>4
<1>7. /\ V \subseteq A /\ (h \in V <=> head = used_blocks)
      /\ \A q \in Places : q # h => (OfUsed(q, V) <=> OfUsed(q, U))
      /\ \A q \in A : q # h => (q \in V <=> q \in U)
  BY <1>1, <1>4 DEF OfUsed
<1>8. h \in U <=> head = free_blocks
  BY <1>1, <1>4
<1>9. ASSUME NEW q \in Places, ny[q] # Null
      PROVE  ny[q] \in A /\ (ny[q] \in V <=> OfUsed(q, V)) /\ q \in A \cup Heads
  <2>1. CASE q = p
    <3>1. nx[h] # Null /\ ny[q] = nx[h] /\ p \in A \cup Heads
      BY <1>1, <1>5, <1>9, <2>1
    <3>2. nx[h] \in A /\ (nx[h] \in U <=> OfUsed(h, U))
      BY <1>1, <1>4, <3>1
    <3>3. OfUsed(h, U) <=> OfUsed(p, U)
      BY <1>3, <1>4, <1>8 DEF OfUsed
    <3> QED  BY <1>4, <1>6, <1>7, <2>1, <3>1, <3>2, <3>3
  <2>2. CASE q = h
    <3>1. nx[head] # Null /\ ny[q] = nx[head]
      BY <1>5, <1>9, <2>2
    <3>2. nx[head] \in A /\ (nx[head] \in U <=> OfUsed(head, U))
      BY <1>1, <1>3, <3>1
    <3>3. OfUsed(head, U) <=> head = used_blocks
      BY <1>1, <1>3 DEF OfUsed
    <3>4. OfUsed(h, V) <=> head = used_blocks
      BY <1>3, <1>4, <1>7 DEF OfUsed
    <3> QED  BY <1>4, <1>6, <1>7, <2>2, <3>1, <3>2, <3>3, <3>4
  <2>3. CASE q = head
    <3>1. OfUsed(head, V) <=> head = used_blocks
      BY <1>1, <1>3, <1>7 DEF OfUsed
    <3> QED  BY <1>4, <1>5, <1>7, <2>3, <3>1
  <2>4. CASE q \notin {p, h, head}
    <3>1. ny[q] = nx[q] /\ nx[q] # h
      BY <1>5, <1>6, <2>4
    <3> QED  BY <1>1, <1>7, <1>9, <2>4, <3>1
  <2> QED  BY <2>1, <2>2, <2>3, <2>4
<1>10. ASSUME NEW q \in Places, NEW s \in Places, ny[q] = ny[s], q # s
       PROVE  ny[q] = Null
  <2> DEFINE from(x) == IF x = p THEN h ELSE IF x = h THEN head ELSE IF x = head THEN p ELSE x
  <2>1. \A x \in Places : from(x) \in Places /\ ny[x] = nx[from(x)]
    BY <1>4, <1>5
  <2>2. from(q) # from(s)
    BY <1>4, <1>10
  <2> HIDE DEF from
  <2> QED  BY <1>1, <1>10, <2>1, <2>2
<1>11. ASSUME NEW b \in A PROVE \E q \in Places : ny[q] = b
  <2>1. PICK q \in Places : nx[q] = b
    BY <1>1
  <2> QED  BY <1>3, <1>4, <1>5, <2>1
<1>12. \E r \in [Places -> Nat] :
          /\ \A q \in Places : ny[q] # Null => r[ny[q]] < r[q]
          /\ \A a \in A : r[a] < r[HeadOf(a, V)]
  <2> DEFINE r == [rank EXCEPT ![h] = rank[head], ![head] = rank[head] + 1]
  <2>1. /\ r \in [Places -> Nat] /\ r[h] = rank[head] /\ r[head] = rank[head] + 1
        /\ \A q \in Places \ {h, head} : r[q] = rank[q]
    BY <1>3, <1>4
  <2> HIDE DEF r
  <2>2. \A q \in Places : ny[q] # Null => ny[q] \in Places \ {head}
    BY <1>3, <1>5
  <2>3. rank[head] \in Nat /\ \A q \in Places : rank[q] \in Nat
    BY <1>3
  <2>4. ASSUME NEW q \in Places, ny[q] # Null PROVE r[ny[q]] < r[q]
    <3>1. CASE q = p
      <4>1. ny[q] = nx[h] /\ r[ny[q]] = rank[nx[h]] /\ r[q] = rank[p]
        BY <1>4, <1>5, <1>6, <2>1, <2>2, <2>4, <3>1
      <4>2. rank[nx[h]] < rank[h] /\ rank[h] < rank[p]
        BY <1>2, <1>4, <2>4, <4>1
      <4>3. nx[h] \in Places
        BY <2>2, <2>4, <4>1
      <4> QED  BY <1>4, <2>3, <4>1, <4>2, <4>3
    <3>2. CASE q = h
      <4>1. ny[q] = nx[head] /\ r[ny[q]] = rank[nx[head]] /\ r[q] = rank[head]
        BY <1>5, <1>6, <2>1, <2>2, <2>4, <3>2
      <4> QED  BY <1>2, <1>3, <2>4, <4>1
    <3>3. CASE q = head
      BY <1>5, <2>1, <2>3, <3>3
    <3>4. CASE q \notin {p, h, head}
      <4>1. ny[q] = nx[q] /\ r[ny[q]] = rank[nx[q]] /\ r[q] = rank[q]
        BY <1>5, <1>6, <2>1, <2>2, <2>4, <3>4
      <4> QED  BY <1>2, <2>4, <4>1
    <3> QED  BY <3>1, <3>2, <3>3, <3>4
  <2>5. ASSUME NEW a \in A PROVE r[a] < r[HeadOf(a, V)]
    <3>1. CASE a = h
      <4>1. HeadOf(a, V) = head
        BY <1>3, <1>7, <3>1 DEF HeadOf
      <4> QED  BY <2>1, <2>3, <3>1, <4>1
    <3>2. CASE a # h
      <4>1. HeadOf(a, V) = HeadOf(a, U) /\ HeadOf(a, U) \in Heads
        BY <1>3, <1>7, <3>2 DEF HeadOf
      <4>2. a \in Places \ {h, head} /\ r[a] = rank[a] /\ rank[a] < rank[HeadOf(a, U)]
        BY <1>1, <1>2, <1>3, <2>1, <3>2
      <4>3. HeadOf(a, U) \in Places /\ HeadOf(a, U) # h
        BY <1>3, <1>4, <4>1
      <4>4. r[HeadOf(a, U)] = rank[HeadOf(a, U)] \/ r[HeadOf(a, U)] = rank[HeadOf(a, U)] + 1
        BY <2>1, <4>3
      <4> QED  BY <2>3, <4>1, <4>2, <4>3, <4>4
    <3> QED  BY <3>1, <3>2
  <2> QED  BY <2>1, <2>4, <2>5
<1> QED  BY <1>1, <1>5, <1>7, <1>9, <1>10, <1>11, <1>12 DEF Links

(* A new descriptor takes the place of h, which stays behind it.           *)
LEMMA Inserts ==
    ASSUME NEW nx, NEW A, NEW U, Links(nx, A, U),
           NEW p \in Places, NEW h, h = nx[p], h # Null, ~OfUsed(p, U),
           NEW b \in Blocks, b \notin A,
           NEW ny, ny = [nx EXCEPT ![b] = h, ![p] = b]
    PROVE  Links(ny, A \cup {b}, U)
<1>1. /\ nx \in [Places -> Blocks \cup {Null}] /\ A \subseteq Blocks /\ U \subseteq A
      /\ \A q \in Places : nx[q] # Null =>
            nx[q] \in A /\ (nx[q] \in U <=> OfUsed(q, U)) /\ q \in A \cup Heads
      /\ \A q, s \in Places : nx[q] = nx[s] => q = s \/ nx[q] = Null
      /\ \A a \in A : \E q \in Places : nx[q] = a
  BY DEF Links
<1>2. PICK rank \in [Places -> Nat] :
         /\ \A q \in Places : nx[q] # Null => rank[nx[q]] < rank[q]
         /\ \A a \in A : rank[a] < rank[HeadOf(a, U)]
  BY DEF Links
<1>3. /\ Blocks \subseteq Places /\ Heads \subseteq Places /\ Null \notin Places
      /\ Blocks \cap Heads = {} /\ used_blocks \in Heads
  BY PoolAssumption DEF Places, Heads
<1>4. h \in A /\ b # h /\ b \notin Heads /\ b # p /\ nx[b] = Null /\ p \in A \cup Heads
      /\ h \notin U /\ b \in Places
  BY <1>1, <1>3
<1>5. /\ ny \in [Places -> Blocks \cup {Null}] /\ ny[b] = h /\ ny[p] = b
      /\ \A q \in Places \ {b, p} : ny[q] = nx[q]
  BY <1>1, <1>3, <1>4
<1>6. \A q \in Places : nx[q] # b /\ (q # p => nx[q] # h)
  BY <1>1, <1>3, <1>4
<1>7. ~OfUsed(b, U) /\ ~(b \in U)
  BY <1>1, <1>3, <1>4 DEF OfUsed
<1>8. ASSUME NEW q \in Places, ny[q] # Null
      PROVE  ny[q] \in A \cup {b} /\ (ny[q] \in U <=> OfUsed(q, U)) /\ q \in A \cup {b} \cup Heads
  <2>1. CASE q \in {b, p}
    BY <1>4, <1>5, <1>7, <2>1
  <2>2. CASE q \notin {b, p}
    BY <1>1, <1>5, <1>8, <2>2
  <2> QED  BY <2>1, <2>2
<1>9. \A q, s \in Places : ny[q] = ny[s] => q = s \/ ny[q] = Null
  BY <1>1, <1>4, <1>5, <1>6
<1>10. \A a \in A \cup {b} : \E q \in Places : ny[q] = a
  <2>1. ASSUME NEW a \in A PROVE \E q \in Places : ny[q] = a
    <3>1. PICK q \in Places : nx[q] = a
      BY <1>1
    <3>2. a # Null
      BY <1>1, <1>3
    <3>3. CASE q = p
      BY <1>4, <1>5, <3>1, <3>3
    <3>4. CASE q # p
      BY <1>4, <1>5, <3>1, <3>2, <3>4
    <3> QED  BY <3>3, <3>4
  <2>2. \E q \in Places : ny[q] = b
    BY <1>5
  <2> QED  BY <2>1, <2>2
<1>11. \E r \in [Places -> Nat] :
          /\ \A q \in Places : ny[q] # Null => r[ny[q]] < r[q]
          /\ \A a \in A \cup {b} : r[a] < r[HeadOf(a, U)]
  <2> DEFINE r == [q \in Places |-> IF q = b THEN 2 * rank[h] + 1 ELSE 2 * rank[q]]
  <2>1. \A q \in Places : rank[q] \in Nat
    OBVIOUS
  <2>2. h \in Places
    BY <1>1, <1>3, <1>4
  <2>3. /\ r \in [Places -> Nat] /\ r[b] = 2 * rank[h] + 1
        /\ \A q \in Places : q # b => r[q] = 2 * rank[q]
    BY <1>4, <2>1, <2>2
  <2> HIDE DEF r
  <2>4. ASSUME NEW q \in Places, ny[q] # Null PROVE r[ny[q]] < r[q]
    <3>1. CASE q = b
      BY <1>4, <1>5, <2>1, <2>2, <2>3, <3>1
    <3>2. CASE q = p
      <4>1. rank[h] < rank[p]
        BY <1>2
      <4> QED  BY <1>4, <1>5, <2>1, <2>2, <2>3, <3>2, <4>1
    <3>3. CASE q \notin {b, p}
      <4>1. ny[q] = nx[q] /\ nx[q] # b /\ rank[nx[q]] < rank[q] /\ nx[q] \in Places
        BY <1>1, <1>2, <1>3, <1>5, <1>6, <2>4, <3>3
      <4> QED  BY <2>1, <2>3, <3>3, <4>1
    <3> QED  BY <3>1, <3>2, <3>3
  <2>5. ASSUME NEW a \in A \cup {b} PROVE r[a] < r[HeadOf(a, U)]
    <3>1. HeadOf(a, U) \in Places /\ HeadOf(a, U) # b
      BY <1>3, <1>4 DEF HeadOf, Places, Heads
    <3>2. r[HeadOf(a, U)] = 2 * rank[HeadOf(a, U)] /\ rank[HeadOf(a, U)] \in Nat
      BY <2>1, <2>3, <3>1
    <3>3. CASE a = b
      <4>1. HeadOf(a, U) = HeadOf(h, U) /\ rank[h] < rank[HeadOf(h, U)]
        BY <1>2, <1>4, <1>7, <3>3 DEF HeadOf
      <4> QED  BY <2>1, <2>2, <2>3, <3>2, <3>3, <4>1
    <3>4. CASE a # b
      <4>1. a \in Places /\ rank[a] < rank[HeadOf(a, U)] /\ r[a] = 2 * rank[a]
        BY <1>1, <1>2, <1>3, <2>3, <3>4
      <4> QED  BY <2>1, <3>2, <4>1
    <3> QED  BY <3>3, <3>4
  <2> QED  BY <2>3, <2>4, <2>5
<1> QED  BY <1>1, <1>5, <1>8, <1>9, <1>10, <1>11 DEF Links

-----------------------------------------------------------------------------
(* Numbers, and what is held.                                              *)

LEMMA Rounding ==
    ASSUME NEW s \in Sizes
    PROVE  /\ s \in Nat /\ s > 0
           /\ Round(s) \in Nat /\ Round(s) % 8 = 0 /\ Round(s) > 0
  BY PoolAssumption DEF Round

(* A used block is an allocated one, with bytes of its own in the pool.    *)
LEMMA BlockBounds ==
    ASSUME Types, Fitting, NEW b \in Blocks
    PROVE  /\ block[b].ptr \in Nat /\ block[b].size \in Nat /\ block[b].in_use \in BOOLEAN
           /\ End(b) = block[b].ptr + block[b].size /\ End(b) \in Nat
           /\ b \in Allocated <=> block[b].size > 0
           /\ b \in Allocated => /\ block[b].size > 0 /\ End(b) <= PoolSize
                                 /\ block[b].ptr % 8 = 0 /\ block[b].size % 8 = 0
<1>1. block[b] \in Descriptors
  BY DEF Types
<1>2. block[b].ptr \in Nat /\ block[b].size \in Nat /\ block[b].in_use \in BOOLEAN
  BY <1>1 DEF Descriptors
<1>3. b \in Allocated <=> block[b].size > 0
  BY DEF Allocated
<1> QED  BY <1>2, <1>3 DEF End, Fitting

LEMMA NullPlaces == Null \notin Places /\ Null \notin Blocks /\ Null \notin Callers
  BY PoolAssumption DEF Places

(* Where an allocation walk is, there is a free block or the end.          *)
LEMMA WalkPlace ==
    ASSUME Types, Walking, walk.op \in {"alloc", "free"}, Here # Null
    PROVE  /\ walk.current \in Places /\ walk.caller \in Callers /\ pool
           /\ Here \in Blocks /\ Here = next[walk.current]
<1>1. walk.current \in Places /\ walk.caller \in Callers
  BY DEF Walking
<1>2. pool
  BY DEF Walking, NoWalk
<1> QED  BY <1>1, <1>2 DEF Types, Here

(* The links, and the blocks as they are, when neither changes.            *)
LEMMA SameLinks ==
    ASSUME UNCHANGED <<block, next>>
    PROVE  /\ Allocated' = Allocated /\ UsedBlocks' = UsedBlocks /\ UsedBytes' = UsedBytes
           /\ Links(next, Allocated, UsedBlocks)' <=> Links(next, Allocated, UsedBlocks)
           /\ Apart' <=> Apart
<1>1. Allocated' = Allocated /\ UsedBlocks' = UsedBlocks
  BY DEF Allocated, UsedBlocks
<1>2. \A b : End(b)' = End(b)
  BY DEF End
<1>3. UsedBytes' = UsedBytes
  BY <1>1, <1>2 DEF UsedBytes
<1> QED  BY <1>1, <1>2, <1>3 DEF Links, Apart

-----------------------------------------------------------------------------
(* Beginning and skipping: neither links nor blocks change.                *)

LEMMA PoolAllocKeeps ==
    ASSUME PoolInv, NEW c \in Callers, PoolAlloc(c)
    PROVE  PoolInv'
<1> Flags /\ Types /\ Walking /\ Fitting /\ Books
  BY DEF PoolInv
<1>1. PICK size \in Sizes :
         walk' = [op |-> "alloc", caller |-> c, ptr |-> OnHeap, size |-> size,
                  current |-> free_blocks]
  BY DEF PoolAlloc
<1>2. /\ UNCHANGED <<pool, block, next, allocated, held, starved>> /\ pool
      /\ walk = NoWalk /\ held[c] = NoGrant
  BY DEF PoolAlloc
<1>3. /\ walk' \in Walks /\ walk'.op = "alloc" /\ walk'.caller = c
      /\ walk'.size = size /\ walk'.current = free_blocks
  BY <1>1 DEF Walks, OnHeap, Places, Heads
<1>4. walk.op = "none"
  BY <1>2 DEF NoWalk
<1>5. Flags'
  BY <1>2 DEF Flags
<1>6. Types'
  BY <1>2, <1>3 DEF Types
<1>7. Walking'
  BY <1>2, <1>3 DEF Walking, Places, Heads
<1>8. Fitting'
  BY <1>2 DEF Fitting, Allocated, End
<1>9. Books'
  <2>1. free_blocks \notin Blocks /\ free_blocks # used_blocks
    BY PoolAssumption DEF Heads
  <2>2. ~OfUsed(free_blocks, UsedBlocks)
    BY <2>1 DEF OfUsed, UsedBlocks
  <2>3. Side'
    BY <1>2, <1>3, <2>2, SameLinks DEF Side
  <2>4. Owned => Owned'
    BY <1>2, <1>3, <1>4, SameLinks DEF Owned
  <2>5. Counted => Counted'
    BY <1>2, SameLinks DEF Counted
  <2> QED  BY <1>2, <2>3, <2>4, <2>5, SameLinks DEF Books
<1> QED  BY <1>5, <1>6, <1>7, <1>8, <1>9 DEF PoolInv

(* AllocSkip and FreeSkip.                                                 *)
LEMMA SkipKeeps ==
    ASSUME PoolInv, walk.op \in {"alloc", "free"}, Here # Null,
           walk' = [walk EXCEPT !.current = Here],
           UNCHANGED <<pool, block, next, allocated, held, starved>>
    PROVE  PoolInv'
<1> Flags /\ Types /\ Walking /\ Fitting /\ Books
  BY DEF PoolInv
<1>1. /\ walk.current \in Places /\ walk.caller \in Callers /\ pool
      /\ Here \in Blocks /\ Here = next[walk.current]
  BY WalkPlace
<1>2. /\ walk' \in Walks /\ walk'.op = walk.op /\ walk'.caller = walk.caller
      /\ walk'.ptr = walk.ptr /\ walk'.size = walk.size /\ walk'.current = Here
  BY <1>1 DEF Types, Walks, Places
<1>3. Flags'
  BY DEF Flags
<1>4. Types'
  BY <1>2 DEF Types
<1>5. Walking'
  BY <1>1, <1>2 DEF Walking, Places
<1>6. Fitting'
  BY DEF Fitting, Allocated, End
<1>7. Books'
  <2> SUFFICES ASSUME ~starved PROVE Books'
    BY DEF Books
  <2>1. Links(next, Allocated, UsedBlocks) /\ Side /\ Apart /\ Owned /\ Counted
    BY DEF Books
  <2>2. Here \in UsedBlocks <=> OfUsed(walk.current, UsedBlocks)
    BY <1>1, <2>1 DEF Links
  <2>3. OfUsed(Here, UsedBlocks) <=> OfUsed(walk.current, UsedBlocks)
    BY <1>1, <2>2, PoolAssumption DEF OfUsed, Heads
  <2>4. Side'
    BY <1>2, <2>1, <2>3, SameLinks DEF Side
  <2>5. Owned'
    BY <1>2, <2>1, SameLinks DEF Owned
  <2>6. Counted'
    BY <2>1, SameLinks DEF Counted
  <2> QED  BY <2>1, <2>4, <2>5, <2>6, SameLinks DEF Books
<1> QED  BY <1>3, <1>4, <1>5, <1>6, <1>7 DEF PoolInv

LEMMA PoolFreeKeeps ==
    ASSUME PoolInv, NEW c \in Callers, PoolFree(c)
    PROVE  PoolInv'
<1> Flags /\ Types /\ Walking /\ Fitting /\ Books
  BY DEF PoolInv
<1>1. /\ UNCHANGED <<pool, block, next, allocated, starved>> /\ pool
      /\ walk = NoWalk /\ held[c] # NoGrant
      /\ walk' = [op |-> "free", caller |-> c, ptr |-> held[c].ptr, size |-> 0,
                  current |-> used_blocks]
      /\ held' = [held EXCEPT ![c] = NoGrant]
  BY DEF PoolFree
<1>2. held[c] \in Grants /\ NoGrant \in Grants /\ NoGrant.ptr = OnHeap
  BY DEF Types, NoGrant, Grants, OnHeap
<1>3. /\ walk' \in Walks /\ walk'.op = "free" /\ walk'.caller = c
      /\ walk'.ptr = held[c].ptr /\ walk'.current = used_blocks
  BY <1>1, <1>2 DEF Walks, Places, Heads, Grants
<1>4. walk.op = "none"
  BY <1>1 DEF NoWalk
<1>5. /\ held' \in [Callers -> Grants] /\ held'[c] = NoGrant
      /\ \A d \in Callers \ {c} : held'[d] = held[d]
  BY <1>1, <1>2 DEF Types
<1>6. Flags'
  BY <1>1 DEF Flags
<1>7. Types'
  BY <1>1, <1>3, <1>5 DEF Types
<1>8. Walking'
  BY <1>1, <1>3, <1>5 DEF Walking, Places, Heads
<1>9. Fitting'
  <2>1. \A d \in Callers : held'[d].ptr # OnHeap => held'[d] = held[d]
    BY <1>2, <1>5
  <2> QED  BY <1>1, <2>1 DEF Fitting, Allocated, End
<1>10. Books'
  <2>1. OfUsed(used_blocks, UsedBlocks)
    BY DEF OfUsed
  <2>2. Side'
    BY <1>1, <1>3, <2>1, SameLinks DEF Side
  <2>3. Owned => Owned'
    <3> SUFFICES ASSUME Owned PROVE Owned'
      OBVIOUS
    <3>1. \A d \in Callers : held'[d].ptr # OnHeap => d # c /\ held'[d] = held[d]
      BY <1>2, <1>5
    <3>2. \A d \in Callers : held'[d].ptr # OnHeap =>
             \E b \in UsedBlocks' :
                 block'[b].ptr = held'[d].ptr /\ block'[b].size = Round(held'[d].size)
      BY <1>1, <3>1, SameLinks DEF Owned
    <3>3. \A d, e \in Callers :
             held'[d].ptr = held'[e].ptr => d = e \/ held'[d].ptr = OnHeap
      BY <3>1 DEF Owned
    <3>4. \A d \in Callers : held'[d].ptr = walk'.ptr => held'[d].ptr = OnHeap
      BY <1>3, <3>1 DEF Owned
    <3>5. \A b \in UsedBlocks' :
             \/ \E d \in Callers : held'[d].ptr = block'[b].ptr
             \/ walk'.op \in {"free", "abort"} /\ walk'.ptr = block'[b].ptr
      <4>1. ASSUME NEW b \in UsedBlocks, walk'.ptr # block[b].ptr
            PROVE  \E d \in Callers : held'[d].ptr = block[b].ptr
        <5>1. PICK d \in Callers : held[d].ptr = block[b].ptr
          BY <1>4, <4>1 DEF Owned
        <5>2. d # c
          BY <1>3, <4>1, <5>1
        <5> QED  BY <1>5, <5>1, <5>2
      <4> QED  BY <1>1, <1>3, <4>1, SameLinks
    <3> QED  BY <3>2, <3>3, <3>4, <3>5 DEF Owned
  <2>4. Counted => Counted'
    BY <1>1, SameLinks DEF Counted
  <2> QED  BY <1>1, <2>2, <2>3, <2>4, SameLinks DEF Books
<1> QED  BY <1>6, <1>7, <1>8, <1>9, <1>10 DEF PoolInv

-----------------------------------------------------------------------------
(* Walks that end where they found nothing.                                *)

LEMMA WalkEnds ==
    ASSUME PoolInv, pool, UNCHANGED <<pool, block, next, allocated, starved>>,
           walk' \in Walks, walk'.op \in {"none", "abort"}, walk.op # "abort",
           walk.op = "free" => \/ walk.ptr = OnHeap
                               \/ walk'.op = "abort" /\ walk'.ptr = walk.ptr,
           held' \in [Callers -> Grants],
           \A c \in Callers : held'[c] # held[c] => held[c] = NoGrant /\ held'[c].ptr = OnHeap
    PROVE  PoolInv'
<1> Flags /\ Types /\ Walking /\ Fitting /\ Books
  BY DEF PoolInv
<1>1. Flags'
  BY DEF Flags
<1>2. Types'
  BY DEF Types
<1>3. Walking'
  BY DEF Walking
<1>4. \A c \in Callers : held'[c].ptr # OnHeap => held'[c] = held[c]
  OBVIOUS
<1>5. Fitting'
  BY <1>4 DEF Fitting, Allocated, End
<1>6. \A c \in Callers : held[c].ptr # OnHeap => held'[c] = held[c]
  BY DEF NoGrant
<1>7. Books'
  <2>1. Side'
    BY DEF Side
  <2>2. Owned => Owned'
    <3> SUFFICES ASSUME Owned PROVE Owned'
      OBVIOUS
    <3>1. \A c \in Callers : held'[c].ptr # OnHeap =>
             \E b \in UsedBlocks' :
                 block'[b].ptr = held'[c].ptr /\ block'[b].size = Round(held'[c].size)
      BY <1>4, SameLinks DEF Owned
    <3>2. \A c, d \in Callers :
             held'[c].ptr = held'[d].ptr => c = d \/ held'[c].ptr = OnHeap
      BY <1>4 DEF Owned
    <3>3. ASSUME NEW b \in UsedBlocks
          PROVE  \/ \E c \in Callers : held'[c].ptr = block[b].ptr
                 \/ walk'.op \in {"free", "abort"} /\ walk'.ptr = block[b].ptr
      <4>1. block[b].ptr # OnHeap
        BY BlockBounds DEF UsedBlocks, OnHeap
      <4>2. CASE \E c \in Callers : held[c].ptr = block[b].ptr
        BY <1>6, <4>1, <4>2
      <4>3. CASE walk.op \in {"free", "abort"} /\ walk.ptr = block[b].ptr
        BY <4>1, <4>3
      <4> QED  BY <4>2, <4>3 DEF Owned
    <3>4. \A b \in UsedBlocks' :
             \/ \E c \in Callers : held'[c].ptr = block'[b].ptr
             \/ walk'.op \in {"free", "abort"} /\ walk'.ptr = block'[b].ptr
      BY <3>3, SameLinks
    <3> QED  BY <3>1, <3>2, <3>4 DEF Owned
  <2>3. Counted => Counted'
    BY SameLinks DEF Counted
  <2> QED  BY <2>1, <2>2, <2>3, SameLinks DEF Books
<1> QED  BY <1>1, <1>2, <1>3, <1>5, <1>7 DEF PoolInv

LEMMA NoWalkTyped == NoWalk \in Walks /\ NoWalk.op = "none" /\ NoGrant \in Grants
<1>1. NoWalk \in Walks /\ NoWalk.op = "none"
  BY DEF NoWalk, Walks, OnHeap
<1>2. NoGrant \in Grants
  BY DEF NoGrant, Grants, OnHeap
<1> QED  BY <1>1, <1>2

LEMMA AllocFallbackKeeps ==
    ASSUME PoolInv, AllocFallback \/ AllocNull
    PROVE  PoolInv'
<1> Flags /\ Types /\ Walking /\ Fitting /\ Books
  BY DEF PoolInv
<1>1. /\ walk.op = "alloc" /\ walk' = NoWalk
      /\ UNCHANGED <<pool, block, next, allocated, starved>>
      /\ \/ held' = [held EXCEPT ![walk.caller] = [ptr |-> OnHeap, size |-> walk.size]]
         \/ held' = held
  BY DEF AllocFallback, AllocNull
<1>2. /\ walk.caller \in Callers /\ held[walk.caller] = NoGrant /\ walk.size \in Sizes
  BY <1>1 DEF Walking
<1>3. pool
  BY <1>1 DEF Walking, NoWalk
<1>4. PICK g \in Grants : g = [ptr |-> OnHeap, size |-> walk.size] /\ g.ptr = OnHeap
  <2>1. [ptr |-> OnHeap, size |-> walk.size] \in Grants
    BY <1>2 DEF Grants, OnHeap
  <2> QED  BY <2>1
<1>5. /\ held' \in [Callers -> Grants]
      /\ \A c \in Callers : held'[c] # held[c] => held[c] = NoGrant /\ held'[c].ptr = OnHeap
  BY <1>1, <1>2, <1>4 DEF Types
<1> QED  BY <1>1, <1>3, <1>5, WalkEnds, NoWalkTyped

LEMMA FreeForeignKeeps ==
    ASSUME PoolInv, FreeForeign \/ FreeInvalid \/ DestroyInvalid
    PROVE  PoolInv'
<1> Flags /\ Types /\ Walking /\ Fitting /\ Books
  BY DEF PoolInv
<1>1. UNCHANGED <<pool, block, next, allocated, held, starved>>
  BY DEF FreeForeign, FreeInvalid, DestroyInvalid
<1>2. /\ walk.op # "abort" /\ pool
      /\ walk' \in Walks /\ walk'.op \in {"none", "abort"}
      /\ walk.op = "free" => \/ walk.ptr = OnHeap
                             \/ walk'.op = "abort" /\ walk'.ptr = walk.ptr
  <2>1. CASE FreeForeign
    BY <2>1, NoWalkTyped DEF FreeForeign, Walking
  <2>2. CASE FreeInvalid
    <3>1. walk.op = "free" /\ walk' = [walk EXCEPT !.op = "abort"]
      BY <2>2 DEF FreeInvalid
    <3>2. pool
      BY <3>1, NoWalkTyped DEF Walking
    <3> QED  BY <3>1, <3>2 DEF Types, Walks
  <2>3. CASE DestroyInvalid
    <3>1. pool /\ walk = NoWalk /\ walk' = [NoWalk EXCEPT !.op = "abort"]
      BY <2>3 DEF DestroyInvalid
    <3>2. walk' \in Walks /\ walk'.op = "abort"
      BY <3>1 DEF NoWalk, Walks, OnHeap
    <3> QED  BY <3>1, <3>2, NoWalkTyped
  <2> QED  BY <2>1, <2>2, <2>3
<1>3. /\ held' \in [Callers -> Grants] /\ \A c \in Callers : held'[c] = held[c]
  BY <1>1 DEF Types
<1> QED  BY <1>1, <1>2, <1>3, WalkEnds

-----------------------------------------------------------------------------
(* The bytes of the used blocks.                                           *)

(* One block's bytes more, or less, change the number by its size.         *)
Span(a, n) == a .. a + n - 1
GrowsBy(S, T, a, n) ==
    /\ a \in Nat /\ n \in Nat /\ S \subseteq 0 .. PoolSize - 1
    /\ T = S \cup Span(a, n) /\ S \cap Span(a, n) = {}
LEMMA BytesMore ==
    ASSUME NEW S, NEW T, NEW a, NEW n, GrowsBy(S, T, a, n)
    PROVE  Cardinality(T) = Cardinality(S) + n /\ Cardinality(S) \in Nat
<1> /\ a \in Nat /\ n \in Nat /\ S \subseteq 0 .. PoolSize - 1
    /\ T = S \cup Span(a, n) /\ S \cap Span(a, n) = {}
  BY DEF GrowsBy
<1> DEFINE I == a .. a + n - 1
<1>1. IsFiniteSet(S)
  <2>1. IsFiniteSet(0 .. PoolSize - 1)
    BY FS_Interval, PoolAssumption
  <2> QED  BY <2>1, FS_Subset
<1>2. IsFiniteSet(I) /\ Cardinality(I) = n
  <2>1. a + n - 1 \in Int /\ a \in Int
    OBVIOUS
  <2>2. IsFiniteSet(I) /\ Cardinality(I) = IF a > a + n - 1 THEN 0 ELSE (a + n - 1) - a + 1
    BY <2>1, FS_Interval
  <2> QED  BY <2>2
<1> HIDE DEF I
<1>3. Cardinality(S \cup I) = Cardinality(S) + Cardinality(I) - Cardinality(S \cap I)
  BY <1>1, <1>2, FS_Union
<1>4. Cardinality(S \cap I) = 0
  BY FS_EmptySet DEF I, Span
<1>5. Cardinality(S) \in Nat
  BY <1>1, FS_CardinalityType
<1>6. Cardinality(T) = Cardinality(S \cup I)
  <2>1. T = S \cup I
    BY DEF I, Span
  <2> QED  BY ONLY <2>1
<1>7. n \in Nat
  OBVIOUS
<1> QED  BY ONLY <1>2, <1>3, <1>4, <1>5, <1>6, <1>7

(* What pool_alloc gives out is h, cut to r bytes; b takes the rest when it *)
(* is a descriptor.                                                        *)
Granting(h, r, b) ==
    /\ walk.op = "alloc" /\ h = Here /\ h # Null /\ Fits /\ r = Round(walk.size)
    /\ b \in Blocks \cup {Null} /\ b # h
    /\ block' \in [Blocks -> Descriptors] /\ block'[h] = Taken
    /\ \A a \in Blocks \ {h, b} : block'[a] = block[a]
    /\ b \in Blocks => b \notin Allocated /\ Splits /\ block'[b] = Rest
    /\ next' \in [Places -> Blocks \cup {Null}]
    /\ allocated' = allocated + r /\ pool' = pool /\ starved' \in BOOLEAN /\ walk' = NoWalk
    /\ held' = [held EXCEPT ![walk.caller] = [ptr |-> block[h].ptr, size |-> walk.size]]

LEMMA GrantKeeps ==
    ASSUME PoolInv, NEW h, NEW r, NEW b, Granting(h, r, b)
    PROVE  /\ Flags' /\ Types' /\ Walking' /\ Fitting'
           /\ ~starved => /\ Side' /\ Apart' /\ Owned' /\ Counted'
                          /\ UsedBlocks' = UsedBlocks \cup {h}
                          /\ Allocated' = Allocated \cup ({b} \cap Blocks)
<1> PICK B : B = block'
  OBVIOUS
<1> /\ walk.op = "alloc" /\ h = Here /\ h # Null /\ Fits /\ r = Round(walk.size)
    /\ b \in Blocks \cup {Null} /\ b # h
    /\ B \in [Blocks -> Descriptors] /\ B[h] = Taken
    /\ \A a \in Blocks \ {h, b} : B[a] = block[a]
    /\ b \in Blocks => b \notin Allocated /\ Splits /\ B[b] = Rest
    /\ next' \in [Places -> Blocks \cup {Null}]
    /\ allocated' = allocated + r /\ pool' = pool /\ starved' \in BOOLEAN /\ walk' = NoWalk
    /\ held' = [held EXCEPT ![walk.caller] = [ptr |-> block[h].ptr, size |-> walk.size]]
  BY DEF Granting
<1> Flags /\ Types /\ Walking /\ Fitting /\ Books
  BY DEF PoolInv
<1> DEFINE x == walk.caller
<1>1. /\ walk.current \in Places /\ x \in Callers /\ pool /\ walk.size \in Sizes
      /\ h \in Blocks /\ h = next[walk.current] /\ held[x] = NoGrant
  BY WalkPlace DEF Walking
<1>2. r \in Nat /\ r > 0 /\ r % 8 = 0 /\ walk.size \in Nat
  BY <1>1, Rounding
<1>3. PICK p, z : p = block[h].ptr /\ z = block[h].size
  OBVIOUS
<1>4. p \in Nat /\ z \in Nat /\ z >= r /\ p % 8 = 0 /\ z % 8 = 0 /\ p + z <= PoolSize /\ h \in Allocated
  <2>1. z >= r
    BY <1>3 DEF Fits
  <2> QED  BY <1>1, <1>2, <1>3, <2>1, BlockBounds
<1>5. B[h].ptr = p /\ B[h].size = r /\ B[h].in_use = TRUE
  BY <1>3 DEF Taken
<1>6. b \in Blocks => B[b].ptr = p + r /\ B[b].size = z - r /\ B[b].in_use = FALSE /\ z > r
  BY <1>2, <1>3, <1>4, PoolAssumption DEF Rest, Splits
<1>7. \A a : End(a)' = B[a].ptr + B[a].size
  BY DEF End
<1>8. Allocated' = Allocated \cup ({b} \cap Blocks)
  <2>1. Allocated' = {a \in Blocks : B[a].size > 0}
    BY DEF Allocated
  <2>2. ASSUME NEW a \in Blocks PROVE B[a].size > 0 <=> a \in Allocated \/ a = b
    <3>1. CASE a = h
      BY <1>2, <1>4, <1>5, <3>1
    <3>2. CASE a = b
      BY <1>2, <1>4, <1>6, <3>2
    <3>3. CASE a \notin {h, b}
      BY <3>3 DEF Allocated
    <3> QED  BY <3>1, <3>2, <3>3
  <2> QED  BY <2>1, <2>2 DEF Allocated
<1>9. PICK g \in Grants : g = [ptr |-> p, size |-> walk.size] /\ g.ptr = p /\ g.size = walk.size
  <2>1. [ptr |-> p, size |-> walk.size] \in Grants
    BY <1>1, <1>4 DEF Grants
  <2> QED  BY <2>1
<1>10. /\ held' \in [Callers -> Grants] /\ held'[x] = g
       /\ \A c \in Callers \ {x} : held'[c] = held[c]
  BY <1>1, <1>3, <1>9 DEF Types
<1>11. Flags'
  BY DEF Flags
<1>12. Types'
  <2>1. allocated' \in Int /\ walk' \in Walks
    BY <1>2, NoWalkTyped DEF Types
  <2> QED  BY <1>10, <2>1 DEF Types
<1>13. Walking'
  BY <1>1, NoWalkTyped DEF Walking
<1>14. Fitting'
  <2>1. ASSUME NEW a \in Allocated'
        PROVE  B[a].ptr % 8 = 0 /\ B[a].size % 8 = 0 /\ B[a].ptr + B[a].size <= PoolSize
    <3>1. CASE a = h
      BY <1>2, <1>4, <1>5, <3>1, PoolAssumption
    <3>2. CASE a = b
      <4>1. b \in Blocks
        BY <2>1, <3>2 DEF Allocated
      <4> QED  BY <1>2, <1>4, <1>6, <3>2, <4>1, PoolAssumption
    <3>3. CASE a \notin {h, b}
      BY <1>8, <3>3 DEF Fitting, End, Allocated
    <3> QED  BY <3>1, <3>2, <3>3
  <2>2. ASSUME NEW c \in Callers, held'[c].ptr # OnHeap
        PROVE  /\ held'[c].ptr \in Nat /\ held'[c].ptr % 8 = 0 /\ held'[c].size \in Sizes
               /\ held'[c].ptr + Round(held'[c].size) <= PoolSize
    <3>1. CASE c = x
      BY <1>1, <1>2, <1>4, <1>9, <1>10, <3>1, PoolAssumption
    <3>2. CASE c # x
      BY <1>10, <2>2, <3>2 DEF Fitting
    <3> QED  BY <3>1, <3>2
  <2> QED  BY <1>7, <2>1, <2>2 DEF Fitting
<1>15. ASSUME ~starved
       PROVE  Side' /\ Apart' /\ Owned' /\ Counted' /\ UsedBlocks' = UsedBlocks \cup {h}
  <2>1. Links(next, Allocated, UsedBlocks) /\ Side /\ Apart /\ Owned /\ Counted
    BY <1>15 DEF Books
  <2>2. h \notin UsedBlocks /\ UsedBlocks \subseteq Allocated
    BY <1>1, <2>1 DEF Links, Side
  <2>3. UsedBlocks' = UsedBlocks \cup {h}
    <3>1. UsedBlocks' = {a \in Blocks : B[a].in_use}
      BY DEF UsedBlocks
    <3>2. ASSUME NEW a \in Blocks PROVE B[a].in_use <=> a \in UsedBlocks \/ a = h
      <4>1. CASE a = h
        BY <1>5, <4>1
      <4>2. CASE a = b
        BY <1>6, <2>2, <4>2
      <4>3. CASE a \notin {h, b}
        BY <4>3 DEF UsedBlocks
      <4> QED  BY <4>1, <4>2, <4>3
    <3> QED  BY <1>1, <3>1, <3>2 DEF UsedBlocks
  <2>4. Side'
    BY NoWalkTyped DEF Side
  <2>5. \A a \in Allocated \ {h} : /\ B[a] = block[a] /\ block[a].ptr \in Nat
                                   /\ block[a].size \in Nat /\ block[a].size > 0
                                   /\ \/ block[a].ptr + block[a].size <= p
                                      \/ p + z <= block[a].ptr
    <3> SUFFICES ASSUME NEW a \in Allocated \ {h}
                 PROVE  /\ B[a] = block[a] /\ block[a].ptr \in Nat
                        /\ block[a].size \in Nat /\ block[a].size > 0
                        /\ \/ block[a].ptr + block[a].size <= p
                           \/ p + z <= block[a].ptr
      OBVIOUS
    <3>1. a \in Blocks /\ a # b
      BY DEF Allocated
    <3>2. End(a) <= block[h].ptr \/ End(h) <= block[a].ptr
      BY <1>4, <2>1 DEF Apart
    <3> QED  BY <1>3, <3>1, <3>2, BlockBounds DEF End
  <2>6. Apart'
    <3>1. ASSUME NEW a \in Allocated', NEW d \in Allocated', a # d
          PROVE  B[a].ptr + B[a].size <= B[d].ptr \/ B[d].ptr + B[d].size <= B[a].ptr
      <4>1. CASE a \in Allocated \ {h} /\ d \in Allocated \ {h}
        BY <2>1, <2>5, <3>1, <4>1 DEF Apart, End
      <4>2. CASE a \in Allocated \ {h} /\ d \in {h, b} \cap Blocks
        BY <1>2, <1>4, <1>5, <1>6, <2>5, <4>2
      <4>3. CASE d \in Allocated \ {h} /\ a \in {h, b} \cap Blocks
        BY <1>2, <1>4, <1>5, <1>6, <2>5, <4>3
      <4>4. CASE a \in {h, b} \cap Blocks /\ d \in {h, b} \cap Blocks
        BY <1>2, <1>4, <1>5, <1>6, <3>1, <4>4
      <4> QED  BY <1>1, <1>8, <4>1, <4>2, <4>3, <4>4
    <3> QED  BY <1>7, <3>1 DEF Apart
  <2>7. \A a \in UsedBlocks : a # h /\ B[a] = block[a] /\ block[a].ptr # p
    BY <1>2, <1>4, <2>2, <2>5
  <2>8. Owned'
    <3>1. ASSUME NEW c \in Callers, held'[c].ptr # OnHeap
          PROVE  \E a \in UsedBlocks' :
                    B[a].ptr = held'[c].ptr /\ B[a].size = Round(held'[c].size)
      <4>1. CASE c = x
        BY <1>5, <1>9, <1>10, <2>3, <4>1
      <4>2. CASE c # x
        <5>1. held'[c] = held[c]
          BY <1>10, <4>2
        <5>2. PICK a \in UsedBlocks :
                 block[a].ptr = held[c].ptr /\ block[a].size = Round(held[c].size)
          BY <2>1, <3>1, <5>1 DEF Owned
        <5> QED  BY <2>3, <2>7, <5>1, <5>2
      <4> QED  BY <4>1, <4>2
    <3>2. ASSUME NEW c \in Callers, c # x, held'[c].ptr # OnHeap PROVE held'[c].ptr # p
      <4>1. \E a \in UsedBlocks : block[a].ptr = held[c].ptr
        BY <1>10, <2>1, <3>2 DEF Owned
      <4> QED  BY <1>10, <2>7, <3>2, <4>1
    <3>3. ASSUME NEW c \in Callers, NEW d \in Callers, held'[c].ptr = held'[d].ptr
          PROVE  c = d \/ held'[c].ptr = OnHeap
      <4>1. CASE c # x /\ d # x
        BY <1>10, <2>1, <3>3, <4>1 DEF Owned
      <4>2. CASE c = x \/ d = x
        BY <1>9, <1>10, <3>2, <3>3, <4>2
      <4> QED  BY <4>1, <4>2
    <3>4. ASSUME NEW a \in UsedBlocks' PROVE \E c \in Callers : held'[c].ptr = B[a].ptr
      <4>1. CASE a = h
        BY <1>1, <1>5, <1>9, <1>10, <4>1
      <4>2. CASE a \in UsedBlocks
        <5>1. PICK c \in Callers : held[c].ptr = block[a].ptr
          BY <2>1, <4>2 DEF Owned
        <5>2. block[a].ptr # OnHeap
          BY <2>2, <2>5, <2>7, <4>2 DEF OnHeap
        <5>3. c # x
          BY <1>1, <5>1, <5>2 DEF NoGrant
        <5> QED  BY <1>10, <2>7, <4>2, <5>1, <5>3
      <4> QED  BY <2>3, <4>1, <4>2
    <3>5. walk'.op = "none"
      BY NoWalkTyped
    <3> QED  BY <3>1, <3>3, <3>4, <3>5 DEF Owned
  <2>9. Counted'
    <3> DEFINE I == Span(p, r)
    <3>1. UsedBytes' = UsedBytes \cup I
      <4>1. UsedBytes' = {y \in 0 .. PoolSize - 1 :
                            \E a \in UsedBlocks' : B[a].ptr <= y /\ y < B[a].ptr + B[a].size}
        BY <1>7 DEF UsedBytes
      <4>2. ASSUME NEW y \in 0 .. PoolSize - 1
            PROVE  (\E a \in UsedBlocks' : B[a].ptr <= y /\ y < B[a].ptr + B[a].size)
                     <=> y \in UsedBytes \/ y \in I
        <5>1. y \in I <=> p <= y /\ y < p + r
          BY <1>2, <1>4 DEF Span
        <5> HIDE DEF I
        <5> QED  BY <1>5, <2>3, <2>7, <5>1 DEF UsedBytes, End
      <4>3. I \subseteq 0 .. PoolSize - 1
        BY <1>2, <1>4, PoolAssumption DEF Span
      <4> HIDE DEF I
      <4> QED  BY <4>1, <4>2, <4>3 DEF UsedBytes
    <3>2. UsedBytes \cap I = {}
      <4>1. ASSUME NEW y \in UsedBytes PROVE y \notin I
        <5>1. PICK a \in UsedBlocks : block[a].ptr <= y /\ y < End(a)
          BY DEF UsedBytes
        <5>2. a \in Allocated \ {h} /\ y \in Int
          BY <2>2, <2>7 DEF UsedBytes
        <5> QED  BY <1>2, <1>4, <2>5, <5>1, <5>2 DEF End, Span
      <4> QED  BY <4>1
    <3>3. UsedBytes \subseteq 0 .. PoolSize - 1
      BY DEF UsedBytes
    <3>4. Cardinality(UsedBytes') = Cardinality(UsedBytes) + r
      <4>1. PICK S, T : S = UsedBytes /\ T = UsedBytes'
        OBVIOUS
      <4>2. GrowsBy(S, T, p, r)
        BY <1>2, <1>4, <3>1, <3>2, <3>3, <4>1 DEF GrowsBy
      <4>3. Cardinality(T) = Cardinality(S) + r
        BY <4>2, BytesMore
      <4> QED  BY <4>1, <4>3
    <3> QED  BY <2>1, <3>4 DEF Counted
  <2> QED  BY <2>3, <2>4, <2>6, <2>8, <2>9
<1> QED  BY <1>8, <1>11, <1>12, <1>13, <1>14, <1>15

LEMMA AllocWholeKeeps ==
    ASSUME PoolInv, AllocWhole
    PROVE  PoolInv'
<1> Flags /\ Types /\ Walking /\ Fitting /\ Books
  BY DEF PoolInv
<1>1. PICK h, r, p, links : /\ h = Here /\ r = Round(walk.size) /\ p = walk.current
                            /\ links = [next EXCEPT ![p] = next[h]]
  OBVIOUS
<1>2. /\ walk.op = "alloc" /\ h # Null /\ Fits /\ starved' = starved /\ pool' = pool
      /\ block' = [block EXCEPT ![h] = Taken]
      /\ next' = [links EXCEPT ![h] = links[used_blocks], ![used_blocks] = h]
      /\ allocated' = allocated + r /\ walk' = NoWalk
      /\ held' = [held EXCEPT ![walk.caller] = [ptr |-> block[h].ptr, size |-> walk.size]]
  BY <1>1 DEF AllocWhole, Take
<1>3. p \in Places /\ h \in Blocks /\ h = next[p] /\ walk.size \in Sizes
  BY <1>1, <1>2, WalkPlace DEF Walking
<1>4. Taken \in Descriptors
  <2>1. Round(walk.size) \in Nat /\ block[Here].ptr \in Nat
    BY <1>1, <1>3, Rounding, BlockBounds
  <2> QED  BY <2>1 DEF Taken, Descriptors
<1>5. PICK B : B = block'
  OBVIOUS
<1>6. /\ B \in [Blocks -> Descriptors] /\ B[h] = Taken
      /\ \A a \in Blocks \ {h} : B[a] = block[a]
  BY <1>2, <1>3, <1>4, <1>5 DEF Types
<1>7. /\ Blocks \subseteq Places /\ used_blocks \in Places /\ free_blocks \in Places
      /\ used_blocks \in Heads /\ free_blocks # used_blocks
  BY PoolAssumption DEF Places, Heads
<1>8. links \in [Places -> Blocks \cup {Null}] /\ next' \in [Places -> Blocks \cup {Null}]
  <2>1. links \in [Places -> Blocks \cup {Null}]
    BY <1>1, <1>3, <1>7 DEF Types
  <2> QED  BY <1>2, <1>3, <1>7, <2>1
<1>9. /\ Flags' /\ Types' /\ Walking' /\ Fitting'
      /\ ~starved => /\ Side' /\ Apart' /\ Owned' /\ Counted'
                     /\ UsedBlocks' = UsedBlocks \cup {h}
                     /\ Allocated' = Allocated \cup ({Null} \cap Blocks)
  <2>1. Null \in Blocks \cup {Null} /\ Null # h /\ Null \notin Blocks /\ starved' \in BOOLEAN
    BY <1>2, NullPlaces DEF Flags
  <2>2. \A a \in Blocks \ {h, Null} : B[a] = block[a]
    BY <1>6
  <2>3. Granting(h, r, Null)
    BY <1>1, <1>2, <1>5, <1>6, <1>8, <2>1, <2>2 DEF Granting
  <2> QED  BY <2>3, GrantKeeps
<1>10. ASSUME ~starved PROVE Links(next, Allocated, UsedBlocks)'
  <2>1. Links(next, Allocated, UsedBlocks) /\ ~OfUsed(p, UsedBlocks)
    BY <1>1, <1>2, <1>10 DEF Books, Side
  <2>2. p # used_blocks
    BY <2>1 DEF OfUsed
  <2>3. PICK ny : ny = [next EXCEPT ![p] = next[h], ![h] = next[used_blocks], ![used_blocks] = h]
    OBVIOUS
  <2>4. ny = next'
    <3>1. links[used_blocks] = next[used_blocks]
      BY <1>1, <1>7, <2>2 DEF Types
    <3> QED  BY <1>1, <1>2, <2>3, <3>1
  <2>5. Links(ny, Allocated, UsedBlocks \cup {h})
    BY <1>2, <1>3, <1>7, <2>1, <2>3, Moves
  <2>6. Allocated' = Allocated /\ UsedBlocks' = UsedBlocks \cup {h}
    BY <1>9, <1>10, NullPlaces
  <2> QED  BY <2>4, <2>5, <2>6
<1> QED  BY <1>2, <1>9, <1>10 DEF PoolInv, Books

LEMMA AllocSplitFailsKeeps ==
    ASSUME PoolInv, AllocSplitFails
    PROVE  PoolInv'
<1> Flags /\ Types /\ Walking /\ Fitting /\ Books
  BY DEF PoolInv
<1>1. PICK h, r : h = Here /\ r = Round(walk.size)
  OBVIOUS
<1>2. /\ walk.op = "alloc" /\ h # Null /\ Fits /\ starved' = TRUE /\ pool' = pool
      /\ block' = [block EXCEPT ![h] = Taken]
      /\ next' = [next EXCEPT ![h] = next[used_blocks], ![used_blocks] = h]
      /\ allocated' = allocated + r /\ walk' = NoWalk
      /\ held' = [held EXCEPT ![walk.caller] = [ptr |-> block[h].ptr, size |-> walk.size]]
  BY <1>1 DEF AllocSplitFails, Take
<1>3. h \in Blocks /\ walk.size \in Sizes
  BY <1>1, <1>2, WalkPlace DEF Walking
<1>4. Taken \in Descriptors
  <2>1. Round(walk.size) \in Nat /\ block[Here].ptr \in Nat
    BY <1>1, <1>3, Rounding, BlockBounds
  <2> QED  BY <2>1 DEF Taken, Descriptors
<1>5. PICK B : B = block'
  OBVIOUS
<1>6. /\ B \in [Blocks -> Descriptors] /\ B[h] = Taken
      /\ \A a \in Blocks \ {h, Null} : B[a] = block[a]
  BY <1>2, <1>3, <1>4, <1>5 DEF Types
<1>7. used_blocks \in Places /\ Blocks \subseteq Places
  BY DEF Places, Heads
<1>8. next' \in [Places -> Blocks \cup {Null}]
  BY <1>2, <1>3, <1>7 DEF Types
<1>9. Null \in Blocks \cup {Null} /\ Null # h /\ Null \notin Blocks /\ starved' \in BOOLEAN
  BY <1>2, NullPlaces
<1>10. Flags' /\ Types' /\ Walking' /\ Fitting'
  <2>1. Granting(h, r, Null)
    BY <1>1, <1>2, <1>5, <1>6, <1>8, <1>9 DEF Granting
  <2> QED  BY <2>1, GrantKeeps
<1> QED  BY <1>2, <1>10 DEF PoolInv, Books

LEMMA NoLoop ==
    ASSUME NEW nx, NEW A, NEW U, Links(nx, A, U), NEW p \in Places, nx[p] # Null
    PROVE  nx[p] # p /\ nx[p] \in A
<1>1. PICK rank \in [Places -> Nat] :
         \A q \in Places : nx[q] # Null => rank[nx[q]] < rank[q]
  BY DEF Links
<1>2. rank[p] \in Nat /\ rank[nx[p]] < rank[p]
  BY <1>1
<1> QED  BY <1>2 DEF Links

LEMMA AllocSplitKeeps ==
    ASSUME PoolInv, AllocSplit
    PROVE  PoolInv'
<1> Flags /\ Types /\ Walking /\ Fitting /\ Books
  BY DEF PoolInv
<1>1. PICK b \in Blocks \ Allocated :
         /\ block' = [block EXCEPT ![Here] = Taken, ![b] = Rest]
         /\ Take([next EXCEPT ![b] = next[Here], ![walk.current] = b])
  BY DEF AllocSplit
<1>2. PICK h, r, p, links : /\ h = Here /\ r = Round(walk.size) /\ p = walk.current
                            /\ links = [next EXCEPT ![b] = next[Here], ![p] = b]
  OBVIOUS
<1>3. /\ walk.op = "alloc" /\ h # Null /\ Fits /\ Splits /\ starved' = starved /\ pool' = pool
      /\ block' = [block EXCEPT ![h] = Taken, ![b] = Rest]
      /\ next' = [links EXCEPT ![h] = links[used_blocks], ![used_blocks] = h]
      /\ allocated' = allocated + r /\ walk' = NoWalk
      /\ held' = [held EXCEPT ![walk.caller] = [ptr |-> block[h].ptr, size |-> walk.size]]
  BY <1>1, <1>2 DEF AllocSplit, Take
<1>4. p \in Places /\ h \in Blocks /\ h = next[p] /\ walk.size \in Sizes
  BY <1>2, <1>3, WalkPlace DEF Walking
<1>5. h \in Allocated /\ h # b /\ b \in Blocks /\ b \notin Allocated
  <2>1. block[h].size >= r /\ r > 0 /\ r \in Nat /\ block[h].size \in Nat
    BY <1>2, <1>3, <1>4, Rounding, BlockBounds DEF Fits
  <2>2. h \in Allocated
    BY <1>4, <2>1, BlockBounds
  <2> QED  BY <2>2
<1>6. Taken \in Descriptors /\ Rest \in Descriptors
  <2>1. /\ r \in Nat /\ block[h].ptr \in Nat /\ block[h].size \in Nat /\ block[h].size >= r
    BY <1>2, <1>3, <1>4, Rounding, BlockBounds DEF Fits
  <2>2. block[h].ptr + r \in Nat /\ block[h].size - r \in Nat
    BY <2>1
  <2> QED  BY <1>2, <2>1, <2>2 DEF Taken, Rest, Descriptors
<1>7. PICK B : B = block'
  OBVIOUS
<1>8. /\ B \in [Blocks -> Descriptors] /\ B[h] = Taken /\ B[b] = Rest
      /\ \A a \in Blocks \ {h, b} : B[a] = block[a]
  BY <1>3, <1>4, <1>5, <1>6, <1>7 DEF Types
<1>9. /\ Blocks \subseteq Places /\ used_blocks \in Places /\ free_blocks \in Places
      /\ used_blocks \in Heads /\ free_blocks # used_blocks /\ b # used_blocks
      /\ h # used_blocks
  BY <1>4, PoolAssumption DEF Places, Heads
<1>10. links \in [Places -> Blocks \cup {Null}] /\ next' \in [Places -> Blocks \cup {Null}]
  <2>1. links \in [Places -> Blocks \cup {Null}]
    BY <1>2, <1>4, <1>9 DEF Types
  <2> QED  BY <1>3, <1>4, <1>9, <2>1
<1>11. /\ Flags' /\ Types' /\ Walking' /\ Fitting'
       /\ ~starved => /\ Side' /\ Apart' /\ Owned' /\ Counted'
                      /\ UsedBlocks' = UsedBlocks \cup {h}
                      /\ Allocated' = Allocated \cup ({b} \cap Blocks)
  <2>1. starved' \in BOOLEAN /\ b \in Blocks \cup {Null}
    BY <1>3 DEF Flags
  <2>2. Granting(h, r, b)
    BY <1>2, <1>3, <1>5, <1>7, <1>8, <1>10, <2>1 DEF Granting
  <2> QED  BY <2>2, GrantKeeps
<1>12. ASSUME ~starved PROVE Links(next, Allocated, UsedBlocks)'
  <2>1. Links(next, Allocated, UsedBlocks) /\ ~OfUsed(p, UsedBlocks)
    BY <1>2, <1>3, <1>12 DEF Books, Side
  <2>2. p # used_blocks /\ h # p /\ b \notin UsedBlocks /\ b # p
    <3>1. p # used_blocks
      BY <2>1 DEF OfUsed
    <3>2. h # p
      BY <1>3, <1>4, <2>1, NoLoop
    <3>3. p \in Allocated \cup Heads /\ UsedBlocks \subseteq Allocated
      BY <1>3, <1>4, <2>1 DEF Links
    <3> QED  BY <1>5, <3>1, <3>2, <3>3, PoolAssumption
  <2>3. PICK mid : mid = [next EXCEPT ![b] = h, ![p] = b]
    OBVIOUS
  <2>4. Links(mid, Allocated \cup {b}, UsedBlocks)
    BY <1>3, <1>4, <1>5, <2>1, <2>3, Inserts
  <2>5. /\ b \in Places /\ mid[b] = h /\ mid[h] = next[h] /\ mid[used_blocks] = next[used_blocks]
        /\ ~OfUsed(b, UsedBlocks)
    BY <1>4, <1>5, <1>9, <2>2, <2>3 DEF Types, OfUsed
  <2>6. PICK ny : ny = [mid EXCEPT ![b] = mid[h], ![h] = mid[used_blocks], ![used_blocks] = h]
    OBVIOUS
  <2>7. Links(ny, Allocated \cup {b}, UsedBlocks \cup {h})
    BY <1>3, <1>9, <2>4, <2>5, <2>6, Moves
  <2>8. ny = next'
    <3>1. links[used_blocks] = next[used_blocks]
      BY <1>2, <1>9, <2>2 DEF Types
    <3>2. mid \in [Places -> Blocks \cup {Null}]
      BY <2>4 DEF Links
    <3>3. ny \in [Places -> Blocks \cup {Null}]
      BY <2>7 DEF Links
    <3>4. ASSUME NEW q \in Places PROVE ny[q] = next'[q]
      <4>1. next'[q] = IF q = used_blocks THEN h ELSE IF q = h THEN next[used_blocks] ELSE links[q]
        BY <1>3, <1>10, <3>1
      <4>2. links[q] = IF q = p THEN b ELSE IF q = b THEN next[h] ELSE next[q]
        BY <1>2, <2>2 DEF Types
      <4>3. ny[q] = IF q = used_blocks THEN h ELSE IF q = h THEN next[used_blocks]
                    ELSE IF q = b THEN next[h] ELSE mid[q]
        BY <2>5, <2>6, <3>2
      <4>4. mid[q] = IF q = p THEN b ELSE IF q = b THEN h ELSE next[q]
        BY <2>3 DEF Types
      <4> QED  BY <2>2, <4>1, <4>2, <4>3, <4>4
    <3> QED  BY <1>10, <3>3, <3>4
  <2>9. Allocated' = Allocated \cup {b} /\ UsedBlocks' = UsedBlocks \cup {h}
    BY <1>5, <1>11, <1>12
  <2> QED  BY <2>7, <2>8, <2>9
<1> QED  BY <1>3, <1>11, <1>12 DEF PoolInv, Books

-----------------------------------------------------------------------------
(* Giving back, creating and destroying.                                   *)

LEMMA FreeFoundKeeps ==
    ASSUME PoolInv, FreeFound
    PROVE  PoolInv'
<1> Flags /\ Types /\ Walking /\ Fitting /\ Books
  BY DEF PoolInv
<1>1. PICK h, p, B : h = Here /\ p = walk.current /\ B = block'
  OBVIOUS
<1>2. /\ walk.op = "free" /\ h # Null /\ block[h].ptr = walk.ptr
      /\ allocated' = allocated - block[h].size
      /\ B = [block EXCEPT ![h].in_use = FALSE]
      /\ next' = [next EXCEPT ![p] = next[h], ![h] = next[free_blocks], ![free_blocks] = h]
      /\ walk' = NoWalk /\ UNCHANGED <<pool, held, starved>>
  BY <1>1 DEF FreeFound
<1>3. p \in Places /\ h \in Blocks /\ h = next[p] /\ pool
  BY <1>1, <1>2, WalkPlace
<1>4. /\ B \in [Blocks -> Descriptors] /\ B[h].in_use = FALSE
      /\ B[h].ptr = block[h].ptr /\ B[h].size = block[h].size
      /\ \A a \in Blocks \ {h} : B[a] = block[a]
  <2>1. PICK d : d = [block[h] EXCEPT !.in_use = FALSE]
    OBVIOUS
  <2>2. block[h] \in Descriptors
    BY <1>3 DEF Types
  <2>3. /\ d \in Descriptors /\ d.in_use = FALSE
        /\ d.ptr = block[h].ptr /\ d.size = block[h].size
    BY <2>1, <2>2 DEF Descriptors
  <2>4. B = [block EXCEPT ![h] = d]
    BY <1>2, <2>1
  <2> QED  BY <1>3, <2>3, <2>4 DEF Types
<1>5. \A a \in Blocks : B[a].ptr = block[a].ptr /\ B[a].size = block[a].size
  BY <1>4
<1>6. /\ Allocated' = Allocated
      /\ \A a \in Blocks : End(a)' = End(a) /\ End(a) = block[a].ptr + block[a].size
  BY <1>1, <1>5 DEF Allocated, End
<1>7. /\ Blocks \subseteq Places /\ used_blocks \in Places /\ free_blocks \in Places
      /\ free_blocks \in Heads /\ free_blocks # used_blocks
  BY PoolAssumption DEF Places, Heads
<1>8. Flags'
  BY <1>2 DEF Flags
<1>9. Types'
  <2>1. allocated' \in Int
    BY <1>2, <1>3, BlockBounds DEF Types
  <2>2. next' \in [Places -> Blocks \cup {Null}]
    BY <1>2, <1>3, <1>7 DEF Types
  <2> QED  BY <1>1, <1>2, <1>4, <2>1, <2>2, NoWalkTyped DEF Types
<1>10. Walking'
  BY <1>2, <1>3, NoWalkTyped DEF Walking
<1>11. Fitting'
  <2>1. \A a \in Allocated' :
           B[a].ptr % 8 = 0 /\ B[a].size % 8 = 0 /\ End(a)' <= PoolSize
    BY <1>5, <1>6 DEF Fitting, Allocated
  <2> QED  BY <1>1, <1>2, <2>1 DEF Fitting
<1>12. ASSUME ~starved PROVE Books'
  <2>1. Links(next, Allocated, UsedBlocks) /\ Side /\ Apart /\ Owned /\ Counted
    BY <1>12 DEF Books
  <2>2. OfUsed(p, UsedBlocks) /\ h \in UsedBlocks /\ UsedBlocks \subseteq Allocated
    BY <1>1, <1>2, <1>3, <2>1 DEF Links, Side
  <2>3. UsedBlocks' = UsedBlocks \ {h}
    BY <1>1, <1>4 DEF UsedBlocks
  <2>4. Links(next, Allocated, UsedBlocks)'
    <3>1. PICK ny : ny = next'
      OBVIOUS
    <3>2. Links(ny, Allocated, UsedBlocks \ {h})
      BY <1>2, <1>3, <1>7, <2>1, <2>2, <3>1, Moves
    <3> QED  BY <1>6, <2>3, <3>1, <3>2
  <2>5. Side'
    BY <1>2, NoWalkTyped DEF Side
  <2>6. Apart'
    BY <1>1, <1>5, <1>6, <2>1 DEF Apart, Allocated
  <2>7. \A a \in UsedBlocks' :
           /\ a \in UsedBlocks /\ a # h /\ a \in Blocks /\ B[a] = block[a]
           /\ End(a) <= block[h].ptr \/ End(h) <= block[a].ptr
    BY <1>4, <2>1, <2>2, <2>3 DEF Apart, UsedBlocks
  <2>8. /\ block[h].ptr \in Nat /\ block[h].size \in Nat /\ block[h].size > 0
        /\ End(h) = block[h].ptr + block[h].size /\ End(h) <= PoolSize
    BY <1>3, <2>2, BlockBounds
  <2>9. \A a \in UsedBlocks' : block[a].ptr # block[h].ptr
    BY <2>2, <2>7, <2>8, BlockBounds
  <2>10. Owned'
    <3>1. ASSUME NEW c \in Callers, held[c].ptr # OnHeap
          PROVE  \E a \in UsedBlocks' :
                    B[a].ptr = held[c].ptr /\ B[a].size = Round(held[c].size)
      <4>1. PICK a \in UsedBlocks :
               block[a].ptr = held[c].ptr /\ block[a].size = Round(held[c].size)
        BY <2>1, <3>1 DEF Owned
      <4>2. a # h
        BY <1>2, <2>1, <3>1, <4>1 DEF Owned
      <4> QED  BY <1>4, <2>3, <4>1, <4>2 DEF UsedBlocks
    <3>2. ASSUME NEW a \in UsedBlocks' PROVE \E c \in Callers : held[c].ptr = B[a].ptr
      BY <1>2, <2>1, <2>7, <2>9 DEF Owned
    <3>3. \A c, d \in Callers : held[c].ptr = held[d].ptr => c = d \/ held[c].ptr = OnHeap
      BY <2>1 DEF Owned
    <3> QED  BY <1>1, <1>2, <3>1, <3>2, <3>3, NoWalkTyped DEF Owned
  <2>11. Counted'
    <3>1. PICK S, T, a, n : /\ S = UsedBytes' /\ T = UsedBytes
                            /\ a = block[h].ptr /\ n = block[h].size
      OBVIOUS
    <3>2. S = {y \in 0 .. PoolSize - 1 :
                 \E d \in UsedBlocks' : block[d].ptr <= y /\ y < End(d)}
      BY <1>1, <1>6, <2>7, <3>1 DEF UsedBytes
    <3>3. T = S \cup Span(a, n)
      <4>1. ASSUME NEW y \in 0 .. PoolSize - 1
            PROVE  y \in T <=> y \in S \/ y \in Span(a, n)
        <5>1. y \in Span(a, n) <=> block[h].ptr <= y /\ y < End(h)
          BY <2>8, <3>1 DEF Span
        <5> QED  BY <2>2, <2>3, <3>1, <3>2, <5>1 DEF UsedBytes
      <4>2. Span(a, n) \subseteq 0 .. PoolSize - 1
        BY <2>8, <3>1, PoolAssumption DEF Span
      <4>3. S \subseteq 0 .. PoolSize - 1 /\ T \subseteq 0 .. PoolSize - 1
        BY <3>1, <3>2 DEF UsedBytes
      <4> QED  BY <4>1, <4>2, <4>3
    <3>4. S \cap Span(a, n) = {}
      <4>1. ASSUME NEW y \in S PROVE y \notin Span(a, n)
        <5>1. PICK d \in UsedBlocks' : block[d].ptr <= y /\ y < End(d)
          BY <3>2
        <5>2. End(d) <= block[h].ptr \/ End(h) <= block[d].ptr
          BY <2>7
        <5>3. y \in Int /\ block[d].ptr \in Nat /\ End(d) \in Nat
          BY <2>7, <3>2, BlockBounds
        <5> QED  BY <2>8, <3>1, <5>1, <5>2, <5>3 DEF Span
      <4> QED  BY <4>1
    <3>5. GrowsBy(S, T, a, n)
      BY <2>8, <3>1, <3>2, <3>3, <3>4 DEF GrowsBy
    <3>6. Cardinality(T) = Cardinality(S) + n /\ Cardinality(S) \in Nat
      BY <3>5, BytesMore
    <3>7. allocated = Cardinality(T) /\ allocated' = allocated - n /\ n \in Nat
      BY <1>2, <2>1, <2>8, <3>1 DEF Counted
    <3>8. allocated' = Cardinality(S)
      BY <3>6, <3>7
    <3> QED  BY <3>1, <3>8 DEF Counted
  <2> QED  BY <2>4, <2>5, <2>6, <2>10, <2>11 DEF Books
<1>13. Books'
  BY <1>2, <1>12 DEF Books
<1> QED  BY <1>8, <1>9, <1>10, <1>11, <1>13 DEF PoolInv

(* An empty pool's lists are empty.                                        *)
LEMMA EmptyLinks ==
    /\ NoBlocks \in [Blocks -> Descriptors] /\ NoLinks \in [Places -> Blocks \cup {Null}]
    /\ \A b \in Blocks : NoBlocks[b].size = 0 /\ NoBlocks[b].in_use = FALSE
    /\ Links(NoLinks, {}, {})
<1>1. NoBlock \in Descriptors /\ NoBlock.size = 0 /\ NoBlock.in_use = FALSE
  BY DEF NoBlock, Descriptors
<1>2. /\ NoBlocks \in [Blocks -> Descriptors]
      /\ \A b \in Blocks : NoBlocks[b].size = 0 /\ NoBlocks[b].in_use = FALSE
  BY <1>1 DEF NoBlocks
<1>3. NoLinks \in [Places -> Blocks \cup {Null}] /\ \A p \in Places : NoLinks[p] = Null
  BY DEF NoLinks
<1>4. Links(NoLinks, {}, {})
  <2>1. [p \in Places |-> 0] \in [Places -> Nat]
    OBVIOUS
  <2> QED  BY <1>3, <2>1 DEF Links
<1> QED  BY <1>2, <1>3, <1>4

(* Nothing allocated, nothing held: at the start, after pool_destroy, and   *)
(* when pool_create finds no descriptor.                                   *)
Empty ==
    /\ pool \in BOOLEAN /\ starved \in BOOLEAN /\ block = NoBlocks /\ next = NoLinks
    /\ allocated = 0 /\ walk = NoWalk /\ held \in [Callers -> Grants]
    /\ \A c \in Callers : held[c] = NoGrant

LEMMA EmptyPool == Empty => PoolInv
<1> SUFFICES ASSUME Empty PROVE PoolInv
  OBVIOUS
<1> /\ pool \in BOOLEAN /\ starved \in BOOLEAN /\ block = NoBlocks /\ next = NoLinks
    /\ allocated = 0 /\ walk = NoWalk /\ held \in [Callers -> Grants]
    /\ \A c \in Callers : held[c] = NoGrant
  BY DEF Empty
<1>1. Allocated = {} /\ UsedBlocks = {} /\ UsedBytes = {}
  <2>1. Allocated = {} /\ UsedBlocks = {}
    BY EmptyLinks DEF Allocated, UsedBlocks
  <2> QED  BY <2>1 DEF UsedBytes
<1>2. Flags
  BY DEF Flags
<1>3. Types
  BY EmptyLinks, NoWalkTyped DEF Types
<1>4. Walking
  BY NoWalkTyped DEF Walking
<1>5. \A c \in Callers : held[c].ptr = OnHeap
  BY DEF NoGrant
<1>6. Fitting
  BY <1>1, <1>5 DEF Fitting
<1>7. Books
  <2>1. Links(next, Allocated, UsedBlocks)
    BY <1>1, EmptyLinks
  <2>2. Side
    BY NoWalkTyped DEF Side
  <2>3. Apart
    BY <1>1 DEF Apart
  <2>4. Owned
    BY <1>1, <1>5, NoWalkTyped DEF Owned
  <2>5. Counted
    BY <1>1, FS_EmptySet DEF Counted
  <2> QED  BY <2>1, <2>2, <2>3, <2>4, <2>5 DEF Books
<1> QED  BY <1>2, <1>3, <1>4, <1>6, <1>7 DEF PoolInv

LEMMA InitKeeps == Init => PoolInv
<1> SUFFICES ASSUME Init PROVE Empty
  BY EmptyPool
<1>1. held \in [Callers -> Grants] /\ \A c \in Callers : held[c] = NoGrant
  BY NoWalkTyped DEF Init
<1> QED  BY <1>1 DEF Init, Empty

LEMMA PoolDestroyKeeps ==
    ASSUME PoolInv, PoolDestroy
    PROVE  PoolInv'
<1>1. Empty'
  BY DEF PoolDestroy, PoolInv, Flags, Types, Empty
<1> QED  BY <1>1, EmptyPool, PTL

LEMMA PoolCreateKeeps ==
    ASSUME PoolInv, PoolCreate
    PROVE  PoolInv'
<1>1. Empty
  BY DEF PoolCreate, PoolInv, Flags, Types, Walking, Empty
<1>2. pool' = TRUE /\ UNCHANGED <<allocated, walk, held, starved>>
  BY DEF PoolCreate
<1>3. CASE UNCHANGED <<block, next>>
  <2>1. Empty'
    BY <1>1, <1>2, <1>3 DEF Empty
  <2> QED  BY <2>1, EmptyPool, PTL
<1>4. ASSUME NEW b \in Blocks,
             block' = [block EXCEPT ![b] = [ptr |-> 0, size |-> PoolSize, in_use |-> FALSE]],
             next' = [next EXCEPT ![free_blocks] = b]
      PROVE  PoolInv'
  <2>1. PICK d \in Descriptors : d = [ptr |-> 0, size |-> PoolSize, in_use |-> FALSE]
    <3>1. [ptr |-> 0, size |-> PoolSize, in_use |-> FALSE] \in Descriptors
      BY PoolAssumption DEF Descriptors
    <3> QED  BY <3>1
  <2>2. PICK B, ny : B = block' /\ ny = next'
    OBVIOUS
  <2>3. /\ B \in [Blocks -> Descriptors] /\ B[b] = d
        /\ \A a \in Blocks \ {b} : B[a].size = 0 /\ B[a].in_use = FALSE
    BY <1>1, <1>4, <2>1, <2>2, EmptyLinks DEF Empty
  <2>4. d.ptr = 0 /\ d.size = PoolSize /\ d.in_use = FALSE /\ PoolSize \in Nat /\ PoolSize > 0
        /\ PoolSize % 8 = 0
    BY <2>1, PoolAssumption
  <2>5. Allocated' = {b} /\ UsedBlocks' = {} /\ UsedBytes' = {}
    <3>1. Allocated' = {a \in Blocks : B[a].size > 0} /\ UsedBlocks' = {a \in Blocks : B[a].in_use}
      BY <2>2 DEF Allocated, UsedBlocks
    <3>2. Allocated' = {b} /\ UsedBlocks' = {}
      BY <2>3, <2>4, <3>1
    <3> QED  BY <3>2 DEF UsedBytes
  <2>6. free_blocks \in Places /\ free_blocks \in Heads /\ b \in Places /\ b # free_blocks
        /\ free_blocks # used_blocks /\ b # Null
    BY PoolAssumption DEF Places, Heads
  <2>7. /\ ny \in [Places -> Blocks \cup {Null}] /\ ny[free_blocks] = b
        /\ \A p \in Places \ {free_blocks} : ny[p] = Null
    BY <1>1, <1>4, <2>2, <2>6 DEF Empty, NoLinks
  <2>8. Links(ny, {b}, {})
    <3>1. PICK rank : rank = [p \in Places |-> IF p = free_blocks THEN 1 ELSE 0]
      OBVIOUS
    <3>2. /\ rank \in [Places -> Nat]
          /\ \A p \in Places : ny[p] # Null => rank[ny[p]] < rank[p]
      BY <2>6, <2>7, <3>1
    <3>3. rank[b] < rank[HeadOf(b, {})]
      BY <2>6, <3>1 DEF HeadOf
    <3> QED  BY <2>6, <2>7, <3>2, <3>3 DEF Links, OfUsed
  <2>9. \A c \in Callers : held'[c] = NoGrant /\ NoGrant.ptr = OnHeap
    BY <1>1, <1>2 DEF Empty, NoGrant
  <2>10. Flags' /\ Types' /\ Walking'
    <3>1. Flags'
      BY <1>1, <1>2 DEF Empty, Flags
    <3>2. Types'
      BY <1>1, <1>2, <2>2, <2>3, <2>7, NoWalkTyped DEF Empty, Types
    <3>3. Walking'
      BY <1>1, <1>2, NoWalkTyped DEF Empty, Walking
    <3> QED  BY <3>1, <3>2, <3>3
  <2>11. Fitting'
    <3>1. End(b)' = PoolSize
      BY <2>2, <2>3, <2>4 DEF End
    <3> QED  BY <2>2, <2>3, <2>4, <2>5, <2>9, <3>1 DEF Fitting
  <2>12. Books'
    <3>1. Links(next, Allocated, UsedBlocks)'
      BY <2>2, <2>5, <2>8
    <3>2. Side' /\ walk'.op = "none"
      BY <1>1, <1>2, NoWalkTyped DEF Empty, Side
    <3>3. Apart'
      BY <2>5 DEF Apart
    <3>4. Owned'
      BY <2>5, <2>9, <3>2 DEF Owned
    <3>5. Counted'
      BY <1>1, <1>2, <2>5, FS_EmptySet DEF Counted, Empty
    <3> QED  BY <3>1, <3>2, <3>3, <3>4, <3>5 DEF Books
  <2> QED  BY <2>10, <2>11, <2>12 DEF PoolInv
<1> QED  BY <1>3, <1>4 DEF PoolCreate

-----------------------------------------------------------------------------
(* The invariant holds in every reachable state.                           *)
THEOREM PoolInvariance == Spec => []PoolInv
<1>1. Init => PoolInv
  BY InitKeeps
<1>2. ASSUME PoolInv, [Next]_vars PROVE PoolInv'
  <2>1. CASE PoolCreate
    BY <1>2, <2>1, PoolCreateKeeps
  <2>2. CASE PoolDestroy
    BY <1>2, <2>2, PoolDestroyKeeps
  <2>3. CASE DestroyInvalid \/ FreeForeign \/ FreeInvalid
    BY <1>2, <2>3, FreeForeignKeeps
  <2>4. CASE AllocSkip \/ FreeSkip
    <3>1. /\ walk.op \in {"alloc", "free"} /\ Here # Null
          /\ walk' = [walk EXCEPT !.current = Here]
          /\ UNCHANGED <<pool, block, next, allocated, held, starved>>
      BY <2>4 DEF AllocSkip, FreeSkip
    <3> QED  BY <1>2, <3>1, SkipKeeps
  <2>5. CASE AllocSplit
    BY <1>2, <2>5, AllocSplitKeeps
  <2>6. CASE AllocSplitFails
    BY <1>2, <2>6, AllocSplitFailsKeeps
  <2>7. CASE AllocWhole
    BY <1>2, <2>7, AllocWholeKeeps
  <2>8. CASE AllocFallback \/ AllocNull
    BY <1>2, <2>8, AllocFallbackKeeps
  <2>9. CASE FreeFound
    BY <1>2, <2>9, FreeFoundKeeps
  <2>10. ASSUME NEW c \in Callers, PoolAlloc(c) \/ PoolFree(c) PROVE PoolInv'
    BY <1>2, <2>10, PoolAllocKeeps, PoolFreeKeeps
  <2>11. CASE UNCHANGED vars
    <3>1. Allocated' = Allocated /\ UsedBlocks' = UsedBlocks /\ UsedBytes' = UsedBytes
          /\ (Links(next, Allocated, UsedBlocks)' <=> Links(next, Allocated, UsedBlocks))
          /\ (Apart' <=> Apart)
      BY <2>11, SameLinks DEF vars
    <3>2. Flags' /\ Types' /\ Walking' /\ Fitting'
      BY <1>2, <2>11 DEF PoolInv, vars, Flags, Types, Walking, Fitting, Allocated, End
    <3>3. Books'
      BY <1>2, <2>11, <3>1 DEF PoolInv, vars, Books, Side, Owned, Counted
    <3> QED  BY <3>2, <3>3 DEF PoolInv
  <2> QED  BY <1>2, <2>1, <2>2, <2>3, <2>4, <2>5, <2>6, <2>7, <2>8, <2>9, <2>10, <2>11
           DEF Next, Step, Over
<1> QED  BY <1>1, <1>2, PTL DEF Spec

(* Types, and a counter that never goes below zero: pool_free takes back   *)
(* only what pool_alloc counted, until a descriptor could not be allocated.*)
THEOREM TypeCorrect == Spec => []TypeOK
<1>1. PoolInv => TypeOK
  <2> SUFFICES ASSUME PoolInv PROVE TypeOK
    OBVIOUS
  <2>1. Flags /\ Types /\ (~starved => Counted)
    BY DEF PoolInv, Books
  <2>2. Cardinality(UsedBytes) \in Nat
    <3>1. UsedBytes \subseteq 0 .. PoolSize - 1 /\ IsFiniteSet(0 .. PoolSize - 1)
      BY FS_Interval, PoolAssumption DEF UsedBytes
    <3> QED  BY <3>1, FS_Subset, FS_CardinalityType
  <2>3. ~starved => allocated >= 0
    BY <2>1, <2>2 DEF Counted
  <2> QED  BY <2>1, <2>3 DEF Flags, Types, TypeOK, Descriptors, Walks, Grants
<1> QED  BY <1>1, PoolInvariance, PTL

(* No byte of the pool belongs to two callers, and what is given out lies  *)
(* in the mapped area, aligned to 8 bytes: a caller's block is its own and *)
(* the blocks are apart.                                                   *)
THEOREM GrantsAreSound == Spec => []GrantsSound
<1>1. PoolInv => GrantsSound
  <2> SUFFICES ASSUME PoolInv PROVE GrantsSound
    OBVIOUS
  <2> Flags /\ Types /\ Walking /\ Fitting /\ Books
    BY DEF PoolInv
  <2>1. \A c \in Holders : c \in Callers /\ held[c].ptr # OnHeap
    BY DEF Holders
  <2>2. \A c \in Holders : /\ held[c].ptr \in Nat /\ held[c].ptr % 8 = 0 /\ held[c].size \in Sizes
                           /\ Round(held[c].size) \in Nat
                           /\ held[c].ptr + Round(held[c].size) <= PoolSize
    BY <2>1, Rounding DEF Fitting
  <2>3. GrantsInPool
    BY <2>2, PoolAssumption DEF GrantsInPool, Bytes
  <2>4. GrantsDisjoint
    <3> SUFFICES ASSUME ~starved, NEW c \in Holders, NEW d \in Holders, c # d
                 PROVE  Bytes(c) \cap Bytes(d) = {}
      BY DEF GrantsDisjoint
    <3>1. Links(next, Allocated, UsedBlocks) /\ Apart /\ Owned
      BY DEF Books
    <3>2. PICK a \in UsedBlocks : block[a].ptr = held[c].ptr /\ block[a].size = Round(held[c].size)
      BY <2>1, <3>1 DEF Owned
    <3>3. PICK b \in UsedBlocks : block[b].ptr = held[d].ptr /\ block[b].size = Round(held[d].size)
      BY <2>1, <3>1 DEF Owned
    <3>4. a # b
      BY <2>1, <3>1, <3>2, <3>3 DEF Owned
    <3>5. End(a) <= block[b].ptr \/ End(b) <= block[a].ptr
      BY <3>1, <3>4 DEF Apart, Links
    <3> QED  BY <2>2, <3>2, <3>3, <3>5 DEF Bytes, End
  <2> QED  BY <2>3, <2>4 DEF GrantsSound
<1> QED  BY <1>1, PoolInvariance, PTL

-----------------------------------------------------------------------------
(* The lists.                                                              *)

(* A set of numbers has a least element.                                   *)
LEMMA LeastOf ==
    ASSUME NEW S \in SUBSET Nat, S # {}
    PROVE  \E n \in S : \A m \in S : n <= m
<1> DEFINE Less == {pair \in Nat \X Nat : pair[1] < pair[2]}
<1>1. IsWellFoundedOn(Less, Nat)
  BY NatLessThanWellFounded, Zenon DEF OpToRel
<1> HIDE DEF Less
<1>2. PICK n \in S : \A m \in S : ~(<<m, n>> \in Less)
  BY <1>1, WFMin, Zenon
<1>3. \A m \in S : ~(m < n)
  BY <1>2 DEF Less
<1> QED  BY <1>3

(* The elements of a list, those that no walk along it can miss, are the   *)
(* allocated descriptors of its kind: the one nearest the head that a walk *)
(* missed would be behind one that it did not miss.                        *)
LEMMA ListIs ==
    ASSUME Links(next, Allocated, UsedBlocks), NEW head \in Heads
    PROVE  Listed(head) = {b \in Allocated : b \in UsedBlocks <=> head = used_blocks}
<1> DEFINE D == {b \in Allocated : b \in UsedBlocks <=> head = used_blocks}
<1>1. /\ next \in [Places -> Blocks \cup {Null}] /\ Allocated \subseteq Blocks
      /\ \A p \in Places : next[p] # Null =>
            /\ next[p] \in Allocated /\ (next[p] \in UsedBlocks <=> OfUsed(p, UsedBlocks))
            /\ p \in Allocated \cup Heads
      /\ \A b \in Allocated : \E p \in Places : next[p] = b
  BY DEF Links
<1>2. PICK rank \in [Places -> Nat] :
         /\ \A p \in Places : next[p] # Null => rank[next[p]] < rank[p]
         /\ \A b \in Allocated : rank[b] < rank[HeadOf(b, UsedBlocks)]
  BY DEF Links
<1>3. /\ Blocks \subseteq Places /\ Heads = {free_blocks, used_blocks} /\ Heads \subseteq Places
      /\ Null \notin Blocks /\ free_blocks # used_blocks /\ Heads \cap Blocks = {}
  BY PoolAssumption DEF Places, Heads
<1>4. \A p \in D \cup {head} : p \in Places /\ (OfUsed(p, UsedBlocks) <=> head = used_blocks)
  BY <1>1, <1>3 DEF OfUsed, UsedBlocks
<1>5. D \in SUBSET Blocks /\ Closed(D, head)
  <2>1. ASSUME NEW p \in D \cup {head}, next[p] # Null PROVE next[p] \in D
    BY <1>1, <1>4, <2>1
  <2> HIDE DEF D
  <2>2. Closed(D, head)
    BY <2>1 DEF Closed
  <2>3. D \in SUBSET Blocks
    BY <1>1 DEF D
  <2> QED  BY <2>2, <2>3
<1>6. ASSUME NEW S \in SUBSET Blocks, Closed(S, head), NEW b \in D, b \notin S
      PROVE  FALSE
  <2>1. \A a \in D : /\ a \in Places /\ a \in Allocated /\ HeadOf(a, UsedBlocks) = head
                     /\ rank[a] \in Nat /\ rank[head] \in Nat /\ rank[a] < rank[head]
    BY <1>1, <1>2, <1>3 DEF HeadOf
  <2> DEFINE Away == {rank[head] - rank[a] : a \in {x \in D : x \notin S}}
  <2>2. Away \in SUBSET Nat /\ Away # {}
    <3>1. \A a \in D : rank[head] - rank[a] \in Nat
      BY <2>1
    <3> HIDE DEF D
    <3> QED  BY <1>6, <3>1
  <2>3. PICK n \in Away : \A m \in Away : n <= m
    <3> HIDE DEF Away
    <3> QED  BY <2>2, LeastOf
  <2>4. PICK a \in D : a \notin S /\ n = rank[head] - rank[a]
    OBVIOUS
  <2>5. \A x \in D : x \notin S => rank[head] - rank[a] <= rank[head] - rank[x]
    BY <2>3, <2>4
  <2>6. PICK p \in Places : next[p] = a
    BY <1>1, <2>1
  <2>7. a # Null /\ rank[a] < rank[p] /\ rank[p] \in Nat
    BY <1>1, <1>2, <1>3, <2>1, <2>6
  <2>8. p \in Allocated \cup Heads /\ (a \in UsedBlocks <=> OfUsed(p, UsedBlocks))
    BY <1>1, <2>6, <2>7
  <2>9. a \in UsedBlocks <=> head = used_blocks
    OBVIOUS
  <2> HIDE DEF Away
  <2>10. CASE p \in Heads
    <3>1. p = head
      BY <1>3, <2>8, <2>9, <2>10 DEF OfUsed, UsedBlocks
    <3> QED  BY <1>6, <2>4, <2>6, <2>7, <3>1 DEF Closed
  <2>11. CASE p \in Allocated
    <3>1. p \in D
      BY <1>1, <1>3, <2>8, <2>9, <2>11 DEF OfUsed
    <3> HIDE DEF D
    <3>2. p \in S
      BY <2>1, <2>5, <2>7, <3>1
    <3> QED  BY <1>6, <2>4, <2>6, <2>7, <3>2 DEF Closed
  <2> QED  BY <2>8, <2>10, <2>11
<1> HIDE DEF D
<1>7. Listed(head) \subseteq D
  BY <1>5 DEF Listed
<1>8. D \subseteq Listed(head)
  BY <1>5, <1>6 DEF Listed
<1> QED  BY <1>7, <1>8 DEF D

(* Every descriptor is on the one list that its in_use field says, and the *)
(* counter is the number of bytes that callers hold.                       *)
THEOREM ListsAreExact == Spec => []ListsExact
<1>1. PoolInv => ListsExact
  <2> SUFFICES ASSUME PoolInv, ~starved PROVE ListsExact
    BY DEF ListsExact, ListsPartition, AllocatedExact
  <2> Flags /\ Types /\ Walking /\ Fitting /\ Books
    BY DEF PoolInv
  <2>1. Links(next, Allocated, UsedBlocks) /\ Apart /\ Owned /\ Counted
    BY DEF Books
  <2>2. /\ free_blocks \in Heads /\ used_blocks \in Heads /\ free_blocks # used_blocks
    BY PoolAssumption DEF Heads
  <2>3. /\ Listed(free_blocks) = {b \in Allocated : b \in UsedBlocks <=> free_blocks = used_blocks}
        /\ Listed(used_blocks) = {b \in Allocated : b \in UsedBlocks <=> used_blocks = used_blocks}
    BY <2>1, <2>2, ListIs
  <2>4. \A b \in Allocated : (b \in UsedBlocks <=> block[b].in_use) /\ block[b].in_use \in BOOLEAN
    BY BlockBounds DEF Allocated, UsedBlocks
  <2>5. ListsPartition
    <3>1. /\ Listed(free_blocks) = {b \in Allocated : ~block[b].in_use}
          /\ Listed(used_blocks) = {b \in Allocated : block[b].in_use}
      BY <2>2, <2>3, <2>4
    <3>2. Listed(free_blocks) \cap Listed(used_blocks) = {}
      BY <3>1
    <3>3. \A p, q \in Places : next[p] = next[q] => p = q \/ next[p] = Null
      BY <2>1 DEF Links
    <3> QED  BY <3>1, <3>2, <3>3 DEF ListsPartition, Untangled
  <2>6. AllocatedExact
    <3> SUFFICES ASSUME walk = NoWalk PROVE allocated = BytesHeld
      BY DEF AllocatedExact
    <3>1. walk.op = "none"
      BY NoWalkTyped
    <3>2. UsedBlocks \subseteq Allocated
      BY <2>1 DEF Links
    <3>3. ASSUME NEW y \in UsedBytes PROVE \E c \in Holders : y \in Bytes(c)
      <4>1. PICK b \in UsedBlocks : block[b].ptr <= y /\ y < End(b)
        BY DEF UsedBytes
      <4>2. PICK c \in Callers : held[c].ptr = block[b].ptr
        BY <2>1, <3>1 DEF Owned
      <4>3. /\ block[b].ptr \in Nat /\ block[b].size \in Nat /\ block[b].size > 0
            /\ End(b) = block[b].ptr + block[b].size
        BY <3>2, BlockBounds DEF Allocated
      <4>4. held[c].ptr # OnHeap /\ c \in Holders
        BY <4>2, <4>3 DEF OnHeap, Holders, NoGrant
      <4>5. PICK d \in UsedBlocks : block[d].ptr = held[c].ptr /\ block[d].size = Round(held[c].size)
        BY <2>1, <4>4 DEF Owned
      <4>6. d = b
        <5>1. d # b => End(d) <= block[b].ptr \/ End(b) <= block[d].ptr
          BY <2>1, <3>2 DEF Apart
        <5>2. End(d) = block[d].ptr + block[d].size /\ block[d].size \in Nat /\ block[d].size > 0
          BY <3>2, BlockBounds DEF Allocated
        <5> QED  BY <4>2, <4>3, <4>5, <5>1, <5>2
      <4>7. y \in Int
        BY DEF UsedBytes
      <4> QED  BY <4>1, <4>2, <4>3, <4>4, <4>5, <4>6, <4>7 DEF Bytes
    <3>4. ASSUME NEW c \in Holders, NEW y \in Bytes(c) PROVE y \in UsedBytes
      <4>1. c \in Callers /\ held[c].ptr # OnHeap
        BY DEF Holders
      <4>2. /\ held[c].ptr \in Nat /\ held[c].size \in Sizes
            /\ held[c].ptr + Round(held[c].size) <= PoolSize /\ Round(held[c].size) \in Nat
        BY <4>1, Rounding DEF Fitting
      <4>3. PICK b \in UsedBlocks : block[b].ptr = held[c].ptr /\ block[b].size = Round(held[c].size)
        BY <2>1, <4>1 DEF Owned
      <4>4. y \in 0 .. PoolSize - 1 /\ block[b].ptr <= y /\ y < block[b].ptr + block[b].size
        BY <4>2, <4>3, PoolAssumption DEF Bytes
      <4> QED  BY <4>3, <4>4 DEF UsedBytes, End
    <3>5. UNION {Bytes(c) : c \in Holders} = UsedBytes
      BY <3>3, <3>4
    <3> QED  BY <2>1, <3>5 DEF Counted, BytesHeld
  <2> QED  BY <2>5, <2>6 DEF ListsExact
<1> QED  BY <1>1, PoolInvariance, PTL

=============================================================================

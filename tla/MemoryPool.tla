----------------------------- MODULE MemoryPool -----------------------------
(***************************************************************************)
(* The memory pool of src/memory_opt.c: one mapped area, cut into blocks   *)
(* by a first-fit allocator.  The MemBlock descriptors live in the heap    *)
(* and hang in two lists, the free blocks and the used blocks.  A request  *)
(* that no free block can serve goes to malloc, and pool_free passes on to *)
(* free() whatever it does not find in the used list.                      *)
(*                                                                         *)
(* One visit of a list element is one step.  Every walk runs under the     *)
(* pool's mutex from end to end, so there is at most one at a time: the    *)
(* mutex is taken while walk # NoWalk.  The lists are kept as links, since *)
(* a descriptor that cannot be allocated leaves them entangled.            *)
(***************************************************************************)
EXTENDS Integers, FiniteSets

CONSTANTS
    Callers,            \* each holds at most one block
    Blocks,             \* addresses of MemBlock descriptors
    Null,               \* the NULL pointer
    free_blocks,        \* the head of the list of free blocks
    used_blocks,        \* the head of the list of used blocks
    PoolSize,           \* pool_size (POOL_SIZE in the code)
    HeaderSize,         \* sizeof(MemBlock)
    Sizes               \* the sizes callers ask for

Heads == {free_blocks, used_blocks}
Places == Blocks \cup Heads

ASSUME PoolAssumption ==
    /\ PoolSize \in Nat /\ PoolSize % 8 = 0 /\ PoolSize > 0
    /\ HeaderSize \in Nat
    /\ Sizes \subseteq Nat \ {0}
    /\ Null \notin Blocks \cup Heads /\ Null \notin Callers
    /\ Blocks \cap Heads = {} /\ free_blocks # used_blocks

VARIABLES
    pool,               \* the pool exists
    block,              \* block[b]: descriptor b; size 0 if b is not allocated
    next,               \* next[b]: the next field of b, or a head's first element
    allocated,
    walk,               \* the operation that holds the mutex
    held,               \* held[c]: the block caller c holds
    starved             \* history: a descriptor could not be allocated

vars == <<pool, block, next, allocated, walk, held, starved>>

(* Addresses are offsets in the pool; memory of malloc is at OnHeap.       *)
OnHeap == -1
NoBlock == [ptr |-> 0, size |-> 0, in_use |-> FALSE]
NoGrant == [ptr |-> OnHeap, size |-> 0]
NoWalk == [op |-> "none", caller |-> Null, ptr |-> OnHeap, size |-> 0,
           current |-> Null]

Allocated == {b \in Blocks : block[b].size > 0}

(* size = (size + 7) & ~7                                                  *)
Round(size) == ((size + 7) \div 8) * 8

NoBlocks == [b \in Blocks |-> NoBlock]
NoLinks == [p \in Places |-> Null]

Init ==
    /\ pool = FALSE
    /\ block = NoBlocks /\ next = NoLinks
    /\ allocated = 0
    /\ walk = NoWalk
    /\ held = [c \in Callers |-> NoGrant]
    /\ starved = FALSE

-----------------------------------------------------------------------------
(* pool_create: one free block spans the pool; the pool has no block at    *)
(* all if its descriptor cannot be allocated.                              *)
PoolCreate ==
    /\ ~pool
    /\ pool' = TRUE
    /\ \/ \E b \in Blocks :
            /\ block' = [block EXCEPT ![b] = [ptr |-> 0, size |-> PoolSize, in_use |-> FALSE]]
            /\ next' = [next EXCEPT ![free_blocks] = b]
       \/ UNCHANGED <<block, next>>
    /\ UNCHANGED <<allocated, walk, held, starved>>

(* The elements of a list: what every walk along the links keeps to.       *)
Closed(S, head) == \A p \in S \cup {head} : next[p] \in S \cup {Null}
Listed(head) == {b \in Blocks : \A S \in SUBSET Blocks : Closed(S, head) => b \in S}

(* The lists are as pool_destroy needs them: no descriptor is met twice.   *)
Untangled ==
    /\ Listed(free_blocks) \cap Listed(used_blocks) = {}
    /\ \A p, q \in Places : next[p] = next[q] => p = q \/ next[p] = Null

(* pool_destroy, when the callers have given everything back.  It frees a  *)
(* descriptor twice if the lists are entangled: the program is over.       *)
PoolDestroy ==
    /\ pool /\ walk = NoWalk /\ \A c \in Callers : held[c] = NoGrant
    /\ Untangled
    /\ pool' = FALSE
    /\ block' = NoBlocks /\ next' = NoLinks
    /\ allocated' = 0
    /\ UNCHANGED <<walk, held, starved>>

DestroyInvalid ==
    /\ pool /\ walk = NoWalk /\ \A c \in Callers : held[c] = NoGrant
    /\ ~Untangled
    /\ walk' = [NoWalk EXCEPT !.op = "abort"]
    /\ UNCHANGED <<pool, block, next, allocated, held, starved>>

-----------------------------------------------------------------------------
(* pool_alloc                                                              *)

PoolAlloc(c) ==
    /\ pool /\ walk = NoWalk /\ held[c] = NoGrant
    /\ \E size \in Sizes :
         walk' = [op |-> "alloc", caller |-> c, ptr |-> OnHeap, size |-> size,
                  current |-> free_blocks]
    /\ UNCHANGED <<pool, block, next, allocated, held, starved>>

(* The element under the walk, and whether the request fits.               *)
Here == next[walk.current]
Fits == block[Here].size >= Round(walk.size)
Splits == block[Here].size > Round(walk.size) + HeaderSize

AllocSkip ==
    /\ walk.op = "alloc" /\ Here # Null /\ ~Fits
    /\ walk' = [walk EXCEPT !.current = Here]
    /\ UNCHANGED <<pool, block, next, allocated, held, starved>>

Taken == [ptr |-> block[Here].ptr, size |-> Round(walk.size), in_use |-> TRUE]

(* The end of pool_alloc: the block heads the used list.  links is next as *)
(* the code before left it.                                                *)
Take(links) ==
    /\ next' = [links EXCEPT ![Here] = links[used_blocks], ![used_blocks] = Here]
    /\ allocated' = allocated + Round(walk.size)
    /\ held' = [held EXCEPT ![walk.caller] = [ptr |-> block[Here].ptr, size |-> walk.size]]
    /\ walk' = NoWalk
    /\ UNCHANGED pool

Rest == [ptr |-> block[Here].ptr + Round(walk.size),
         size |-> block[Here].size - Round(walk.size), in_use |-> FALSE]

AllocSplit ==
    /\ walk.op = "alloc" /\ Here # Null /\ Fits /\ Splits
    /\ \E b \in Blocks \ Allocated :
         /\ block' = [block EXCEPT ![Here] = Taken, ![b] = Rest]
         /\ Take([next EXCEPT ![b] = next[Here], ![walk.current] = b])
    /\ UNCHANGED starved

(* No descriptor for the rest: the block is not taken out of the free list.*)
AllocSplitFails ==
    /\ walk.op = "alloc" /\ Here # Null /\ Fits /\ Splits
    /\ block' = [block EXCEPT ![Here] = Taken]
    /\ Take(next)
    /\ starved' = TRUE

(* Mutant: the rest of the free list is dropped.                           *)
AllocWholeCut ==
    /\ walk.op = "alloc" /\ Here # Null /\ Fits /\ ~Splits
    /\ block' = [block EXCEPT ![Here] = Taken]
    /\ Take([next EXCEPT ![walk.current] = Null])
    /\ UNCHANGED starved
(* Mutant: the block stays in the free list.                               *)
AllocWholeLinked ==
    /\ walk.op = "alloc" /\ Here # Null /\ Fits /\ ~Splits
    /\ block' = [block EXCEPT ![Here] = Taken]
    /\ Take(next)
    /\ UNCHANGED starved
AllocWhole ==
    /\ walk.op = "alloc" /\ Here # Null /\ Fits /\ ~Splits
    /\ block' = [block EXCEPT ![Here] = Taken]
    /\ Take([next EXCEPT ![walk.current] = next[Here]])
    /\ UNCHANGED starved

(* No free block fits: malloc, after the mutex is released.                *)
AllocFallback ==
    /\ walk.op = "alloc" /\ Here = Null
    /\ held' = [held EXCEPT ![walk.caller] = [ptr |-> OnHeap, size |-> walk.size]]
    /\ walk' = NoWalk
    /\ UNCHANGED <<pool, block, next, allocated, starved>>

AllocNull ==
    /\ walk.op = "alloc" /\ Here = Null
    /\ walk' = NoWalk
    /\ UNCHANGED <<pool, block, next, allocated, held, starved>>

-----------------------------------------------------------------------------
(* pool_free                                                               *)

PoolFree(c) ==
    /\ pool /\ walk = NoWalk /\ held[c] # NoGrant
    /\ walk' = [op |-> "free", caller |-> c, ptr |-> held[c].ptr, size |-> 0,
                current |-> used_blocks]
    /\ held' = [held EXCEPT ![c] = NoGrant]
    /\ UNCHANGED <<pool, block, next, allocated, starved>>

FreeSkip ==
    /\ walk.op = "free" /\ Here # Null /\ block[Here].ptr # walk.ptr
    /\ walk' = [walk EXCEPT !.current = Here]
    /\ UNCHANGED <<pool, block, next, allocated, held, starved>>

FreeFound ==
    /\ walk.op = "free" /\ Here # Null /\ block[Here].ptr = walk.ptr
    /\ allocated' = allocated - block[Here].size
    /\ block' = [block EXCEPT ![Here].in_use = FALSE]
    /\ next' = [next EXCEPT ![walk.current] = next[Here],
                            ![Here] = next[free_blocks], ![free_blocks] = Here]
    /\ walk' = NoWalk
    /\ UNCHANGED <<pool, held, starved>>

(* Not in the used list: free(ptr).                                        *)
(* Mutant: the counter is taken back whether the block is the pool's.      *)
FreeForeignCounted ==
    /\ walk.op = "free" /\ Here = Null /\ walk.ptr = OnHeap
    /\ allocated' = allocated - 8
    /\ walk' = NoWalk
    /\ UNCHANGED <<pool, block, next, held, starved>>
FreeForeign ==
    /\ walk.op = "free" /\ Here = Null /\ walk.ptr = OnHeap
    /\ walk' = NoWalk
    /\ UNCHANGED <<pool, block, next, allocated, held, starved>>

(* free() of an address that malloc never gave out: the program is over.   *)
FreeInvalid ==
    /\ walk.op = "free" /\ Here = Null /\ walk.ptr # OnHeap
    /\ walk' = [walk EXCEPT !.op = "abort"]
    /\ UNCHANGED <<pool, block, next, allocated, held, starved>>

-----------------------------------------------------------------------------
Step ==
    \/ AllocSkip \/ AllocSplit \/ AllocSplitFails \/ AllocWhole \/ AllocFallback
    \/ AllocNull
    \/ FreeSkip \/ FreeFound \/ FreeForeign \/ FreeInvalid

Over == walk.op = "abort" /\ UNCHANGED vars

Next ==
    \/ PoolCreate \/ PoolDestroy \/ DestroyInvalid \/ Step \/ Over
    \/ \E c \in Callers : PoolAlloc(c) \/ PoolFree(c)

Spec == Init /\ [][Next]_vars

(* A thread that holds the mutex goes on; nobody has to call the pool.     *)
FairSpec == Spec /\ WF_vars(Step)

-----------------------------------------------------------------------------
(* Properties.                                                             *)

TypeOK ==
    /\ pool \in BOOLEAN /\ starved \in BOOLEAN
    /\ block \in [Blocks -> [ptr : Nat, size : Nat, in_use : BOOLEAN]]
    /\ next \in [Places -> Blocks \cup {Null}]
    /\ allocated \in Int /\ (~starved => allocated >= 0)
    /\ walk \in [op : {"none", "alloc", "free", "abort"}, caller : Callers \cup {Null},
                 ptr : Int, size : Sizes \cup {0}, current : Places \cup {Null}]
    /\ held \in [Callers -> [ptr : Int, size : Sizes \cup {0}]]

(* The callers that hold a part of the pool, and the bytes they were given.*)
Holders == {c \in Callers : held[c] # NoGrant /\ held[c].ptr # OnHeap}
Bytes(c) == held[c].ptr .. held[c].ptr + Round(held[c].size) - 1

(* No byte of the pool belongs to two callers, after any sequence of       *)
(* splits, frees and reuse of freed blocks for smaller requests, as long   *)
(* as every descriptor could be allocated.                                 *)
GrantsDisjoint ==
    ~starved => \A c, d \in Holders : c # d => Bytes(c) \cap Bytes(d) = {}

(* What pool_alloc gives out lies in the mapped area and is aligned to 8   *)
(* bytes, even where a descriptor could not be allocated before.           *)
GrantsInPool ==
    \A c \in Holders : Bytes(c) \subseteq 0 .. PoolSize - 1 /\ held[c].ptr % 8 = 0

(* What a caller of pool_alloc may rely on: bytes of the pool that are its *)
(* own.                                                                    *)
GrantsSound == GrantsDisjoint /\ GrantsInPool

(* Every descriptor is on exactly one list, the one its in_use field says: *)
(* a block once split off can be given out again, pool_destroy frees each  *)
(* descriptor once, and pool_free hands no address of the pool to free().  *)
ListsPartition == ~starved =>
    /\ Untangled
    /\ Listed(free_blocks) = {b \in Allocated : ~block[b].in_use}
    /\ Listed(used_blocks) = {b \in Allocated : block[b].in_use}

(* The counter is the number of bytes of the pool that callers hold,       *)
(* between operations.                                                     *)
BytesHeld == Cardinality(UNION {Bytes(c) : c \in Holders})
AllocatedExact == ~starved /\ walk = NoWalk => allocated = BytesHeld

(* The pool's own books, lists and counter, agree with what the callers of *)
(* pool_alloc and pool_free hold.                                          *)
ListsExact == ListsPartition /\ AllocatedExact

(* Every walk ends and releases the mutex: the links never form a ring.    *)
WalksEnd == walk # NoWalk ~> walk = NoWalk \/ starved

=============================================================================

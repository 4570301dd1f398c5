------------------------------- MODULE Cache -------------------------------
(***************************************************************************)
(* The thread-safe cache of src/memory_opt.c: hash buckets of linked       *)
(* items, one mutex per bucket, two atomic counters beside them.           *)
(*                                                                         *)
(* A thread's operation is cut where another thread can notice: taking the *)
(* bucket's mutex, changing the chain, each atomic update of a counter     *)
(* (read by print_memory_stats without the mutex), releasing the mutex.    *)
(* A chain is a sequence of items, newest first.  Any malloc may fail.     *)
(* ref_count is not modelled: it is only touched under the mutex and never *)
(* read.  cache_create is Init.                                            *)
(***************************************************************************)
EXTENDS Integers, Sequences, FiniteSets, SequencesExt

CONSTANTS
    Threads, Keys, Values,
    NBuckets,       \* number of buckets (256 in the code)
    Hash,           \* Hash[k]: hash_key of the whole key
    Stored,         \* Stored[k]: the key as kept in an item, cut to 127 bytes
    Size,           \* Size[v]: the size of the data v
    None,           \* no data: a NULL pointer
    NoThread,       \* holder of a free mutex
    CACHE_TIMEOUT,
    SIZE_RANGE,     \* 2^w for the w bits of size_t
    MaxTime,        \* bound: last instant of the clock
    MaxChain        \* bound: longest chain of a bucket

Buckets == 0 .. NBuckets - 1

ASSUME BucketsAssumption ==
    NBuckets \in Nat \ {0} /\ Hash \in [Keys -> Buckets] /\ Stored \in [Keys -> Keys]
ASSUME DataAssumption ==
    /\ SIZE_RANGE \in Nat \ {0}
    /\ Size \in [Values -> 1 .. SIZE_RANGE - 1]
    /\ None \notin Values /\ None \notin Keys
ASSUME ThreadAssumption == NoThread \notin Threads /\ IsFiniteSet(Threads)
ASSUME BoundsAssumption ==
    CACHE_TIMEOUT \in Nat /\ MaxTime \in Nat /\ MaxChain \in Nat

VARIABLES
    buckets,        \* buckets[b]: the chain of bucket b
    locks,          \* locks[b]: the thread that holds the mutex of bucket b
    total_items,    \* cache->total_items
    total_memory,   \* cache->total_memory, an unsigned size_t
    now,            \* time(NULL)
    pc,             \* pc[t]: where thread t is; "dead" when the process is gone
    call,           \* call[t]: arguments and locals of that operation
    result,         \* result[t]: what the last cache_get of t returned
    resized         \* history: an item was replaced by one of another size

cachevars == <<buckets, total_items, total_memory, resized>>
vars == <<cachevars, locks, now, pc, call, result>>

Items == [key : Keys, data : Values \cup {None}, data_size : 1 .. SIZE_RANGE - 1,
          timestamp : 0 .. MaxTime]

(* bucket: hash_key(key), or i of the cleanup loop; since: `now` of the    *)
(* cleanup loop; at: the place of `item` in the chain, 0 for NULL;         *)
(* data_size: size of the item just linked or unlinked.                    *)
Calls == [op : {"none", "set", "get", "delete", "cleanup"}, key : Keys \cup {None},
          data : Values \cup {None}, bucket : Buckets, since : 0 .. MaxTime,
          at : Nat, data_size : 0 .. SIZE_RANGE - 1]
NoCall == [op |-> "none", key |-> None, data |-> None, bucket |-> 0, since |-> 0,
           at |-> 0, data_size |-> 0]

Init ==
    /\ buckets = [b \in Buckets |-> <<>>]
    /\ locks = [b \in Buckets |-> NoThread]
    /\ total_items = 0 /\ total_memory = 0
    /\ now = 0
    /\ pc = [t \in Threads |-> "idle"]
    /\ call = [t \in Threads |-> NoCall]
    /\ result = [t \in Threads |-> None]
    /\ resized = FALSE

-----------------------------------------------------------------------------
(* Calling an operation, up to pthread_mutex_lock.                         *)

Begin(t, c) ==
    /\ pc[t] = "idle"
    /\ pc' = [pc EXCEPT ![t] = "lock"]
    /\ call' = [call EXCEPT ![t] = c]
    /\ result' = [result EXCEPT ![t] = None]
    /\ UNCHANGED <<cachevars, locks, now>>

Set(t) == \E k \in Keys, v \in Values :
    Begin(t, [NoCall EXCEPT !.op = "set", !.key = k, !.data = v, !.bucket = Hash[k]])

Get(t) == \E k \in Keys :
    Begin(t, [NoCall EXCEPT !.op = "get", !.key = k, !.bucket = Hash[k]])

Delete(t) == \E k \in Keys :
    Begin(t, [NoCall EXCEPT !.op = "delete", !.key = k, !.bucket = Hash[k]])

(* cache_cleanup_expired reads the clock once, before the first bucket.    *)
Cleanup(t) == Begin(t, [NoCall EXCEPT !.op = "cleanup", !.since = now])

(* Mutant: the mutex is not waited for.                                    *)
LockUnchecked(t) ==
    /\ pc[t] = "lock"
    /\ locks' = [locks EXCEPT ![call[t].bucket] = t]
    /\ pc' = [pc EXCEPT ![t] = "search"]
    /\ UNCHANGED <<cachevars, now, call, result>>
Lock(t) ==
    /\ pc[t] = "lock" /\ locks[call[t].bucket] = NoThread
    /\ locks' = [locks EXCEPT ![call[t].bucket] = t]
    /\ pc' = [pc EXCEPT ![t] = "search"]
    /\ UNCHANGED <<cachevars, now, call, result>>

-----------------------------------------------------------------------------
(* Pieces of the operations, all under the bucket's mutex.                 *)

Chain(t) == buckets[call[t].bucket]

(* Mutant: the age is computed without a sign.                             *)
ExpiredUnsigned(item, at) == (at - item.timestamp) % SIZE_RANGE > CACHE_TIMEOUT
Expired(item, at) == at - item.timestamp > CACHE_TIMEOUT

(* What the loop over the chain looks for: the whole key, compared with    *)
(* the kept one, or, in the sweep, an item that was expired at its start.  *)
(* Mutant: items of one bucket are taken for items of one key.             *)
WantedByHash(t, item) ==
    IF call[t].op = "cleanup" THEN Expired(item, call[t].since) ELSE TRUE
Wanted(t, item) ==
    IF call[t].op = "cleanup" THEN Expired(item, call[t].since)
                              ELSE item.key = call[t].key

(* The loop stops at the first such item, or at the end of the chain.      *)
Search(t) ==
    /\ pc[t] = "search"
    /\ \E i \in 0 .. Len(Chain(t)) :
         /\ i > 0 => Wanted(t, Chain(t)[i])
         /\ \A h \in 1 .. Len(Chain(t)) : Wanted(t, Chain(t)[h]) => 0 < i /\ i <= h
         /\ call' = [call EXCEPT ![t].at = i]
    /\ pc' = [pc EXCEPT ![t] = "act"]
    /\ UNCHANGED <<cachevars, locks, now, result>>

Found(t, op) == pc[t] = "act" /\ call[t].op = op /\ call[t].at > 0
NotFound(t, op) == pc[t] = "act" /\ call[t].op = op /\ call[t].at = 0
Item(t) == Chain(t)[call[t].at]

Unlock(t) == locks' = [locks EXCEPT ![call[t].bucket] = NoThread]

(* pthread_mutex_unlock and return.                                        *)
Return(t) ==
    /\ Unlock(t)
    /\ pc' = [pc EXCEPT ![t] = "idle"]
    /\ call' = [call EXCEPT ![t] = NoCall]

(* Takes the item out of the chain; its size is subtracted afterwards.     *)
Unlink(t) ==
    /\ buckets' = [buckets EXCEPT ![call[t].bucket] = RemoveAt(@, call[t].at)]
    /\ call' = [call EXCEPT ![t].data_size = Item(t).data_size]
    /\ pc' = [pc EXCEPT ![t] = "sub_items"]
    /\ UNCHANGED <<total_items, total_memory, resized, locks, now, result>>

-----------------------------------------------------------------------------
(* cache_set                                                               *)

(* The key is there: new data, size and timestamp; total_memory is left.   *)
SetReplace(t) ==
    /\ Found(t, "set")
    /\ buckets' = [buckets EXCEPT ![call[t].bucket][call[t].at] =
                     [@ EXCEPT !.data = call[t].data,
                               !.data_size = Size[call[t].data],
                               !.timestamp = now]]
    /\ resized' = (resized \/ Item(t).data_size # Size[call[t].data])
    /\ Return(t)
    /\ UNCHANGED <<total_items, total_memory, now, result>>

(* The key is there, and malloc fails after the old data was freed.        *)
(* Mutant: an early return without pthread_mutex_unlock.                   *)
SetReplaceFailsLocked(t) ==
    /\ Found(t, "set")
    /\ buckets' = [buckets EXCEPT ![call[t].bucket][call[t].at].data = None]
    /\ pc' = [pc EXCEPT ![t] = "idle"]
    /\ call' = [call EXCEPT ![t] = NoCall]
    /\ UNCHANGED <<total_items, total_memory, resized, locks, now, result>>
SetReplaceFails(t) ==
    /\ Found(t, "set")
    /\ buckets' = [buckets EXCEPT ![call[t].bucket][call[t].at].data = None]
    /\ Return(t)
    /\ UNCHANGED <<total_items, total_memory, resized, now, result>>

SetInsert(t) ==
    /\ NotFound(t, "set") /\ Len(Chain(t)) < MaxChain
    /\ buckets' = [buckets EXCEPT ![call[t].bucket] =
                     <<[key |-> Stored[call[t].key], data |-> call[t].data,
                        data_size |-> Size[call[t].data], timestamp |-> now]>> \o @]
    /\ call' = [call EXCEPT ![t].data_size = Size[call[t].data]]
    /\ pc' = [pc EXCEPT ![t] = "add_items"]
    /\ UNCHANGED <<total_items, total_memory, resized, locks, now, result>>

SetInsertFails(t) ==
    /\ NotFound(t, "set")
    /\ Return(t)
    /\ UNCHANGED <<cachevars, now, result>>

AddItems(t) ==
    /\ pc[t] = "add_items"
    /\ total_items' = total_items + 1
    /\ pc' = [pc EXCEPT ![t] = "add_memory"]
    /\ UNCHANGED <<buckets, total_memory, resized, locks, now, call, result>>

AddMemory(t) ==
    /\ pc[t] = "add_memory"
    /\ total_memory' = (total_memory + call[t].data_size) % SIZE_RANGE
    /\ Return(t)
    /\ UNCHANGED <<buckets, total_items, resized, now, result>>

-----------------------------------------------------------------------------
(* cache_get                                                               *)

(* A live item is copied out, or there is no memory for the copy.          *)
GetHit(t) ==
    /\ Found(t, "get") /\ ~Expired(Item(t), now)
    /\ result' \in {[result EXCEPT ![t] = Item(t).data], [result EXCEPT ![t] = None]}
    /\ Return(t)
    /\ UNCHANGED <<cachevars, now>>

(* memcpy from the NULL that SetReplaceFails left behind.                  *)
GetNull(t) ==
    /\ Found(t, "get") /\ ~Expired(Item(t), now) /\ Item(t).data = None
    /\ pc' = [u \in Threads |-> "dead"]
    /\ UNCHANGED <<cachevars, locks, now, call, result>>

(* An expired item: the mutex is released, then cache_delete is called.    *)
GetExpired(t) ==
    /\ Found(t, "get") /\ Expired(Item(t), now)
    /\ Unlock(t)
    /\ call' = [call EXCEPT ![t].op = "delete", ![t].at = 0]
    /\ pc' = [pc EXCEPT ![t] = "lock"]
    /\ UNCHANGED <<cachevars, now, result>>

GetMiss(t) ==
    /\ NotFound(t, "get")
    /\ Return(t)
    /\ UNCHANGED <<cachevars, now, result>>

-----------------------------------------------------------------------------
(* cache_delete and cache_cleanup_expired                                  *)

DeleteFound(t) == Found(t, "delete") /\ Unlink(t)

DeleteMiss(t) ==
    /\ NotFound(t, "delete")
    /\ Return(t)
    /\ UNCHANGED <<cachevars, now, result>>

SweepFound(t) == Found(t, "cleanup") /\ Unlink(t)

SweepBucketDone(t) ==
    /\ NotFound(t, "cleanup")
    /\ IF call[t].bucket = NBuckets - 1
       THEN Return(t)
       ELSE /\ Unlock(t)
            /\ call' = [call EXCEPT ![t].bucket = @ + 1]
            /\ pc' = [pc EXCEPT ![t] = "lock"]
    /\ UNCHANGED <<cachevars, now, result>>

SubItems(t) ==
    /\ pc[t] = "sub_items"
    /\ total_items' = total_items - 1
    /\ pc' = [pc EXCEPT ![t] = "sub_memory"]
    /\ UNCHANGED <<buckets, total_memory, resized, locks, now, call, result>>

(* The item is freed; a sweep goes on in the same bucket.                  *)
(* Mutants: the counter is not a size_t; only cache_delete keeps it.       *)
Freed(t) ==
    /\ IF call[t].op = "cleanup"
       THEN /\ pc' = [pc EXCEPT ![t] = "search"]
            /\ call' = [call EXCEPT ![t].at = 0, ![t].data_size = 0]
            /\ UNCHANGED locks
       ELSE Return(t)
    /\ UNCHANGED <<buckets, total_items, resized, now, result>>
SubMemorySigned(t) ==
    /\ pc[t] = "sub_memory"
    /\ total_memory' = total_memory - call[t].data_size
    /\ Freed(t)
SubMemoryDeleteOnly(t) ==
    /\ pc[t] = "sub_memory"
    /\ total_memory' = IF call[t].op = "delete" THEN (total_memory - call[t].data_size) % SIZE_RANGE
                       ELSE total_memory
    /\ Freed(t)
SubMemory(t) ==
    /\ pc[t] = "sub_memory"
    /\ total_memory' = (total_memory - call[t].data_size) % SIZE_RANGE
    /\ Freed(t)

-----------------------------------------------------------------------------
Tick ==
    /\ now < MaxTime /\ \A t \in Threads : pc[t] # "dead"
    /\ now' = now + 1
    /\ UNCHANGED <<cachevars, locks, pc, call, result>>

(* A step of an operation under way once its mutex is available.           *)
Proceed(t) ==
    \/ Search(t)
    \/ SetReplace(t) \/ SetReplaceFails(t) \/ SetInsert(t) \/ SetInsertFails(t)
    \/ AddItems(t) \/ AddMemory(t)
    \/ GetHit(t) \/ GetNull(t) \/ GetExpired(t) \/ GetMiss(t)
    \/ DeleteFound(t) \/ DeleteMiss(t) \/ SweepFound(t) \/ SweepBucketDone(t)
    \/ SubItems(t) \/ SubMemory(t)

Start(t) == Set(t) \/ Get(t) \/ Delete(t) \/ Cleanup(t)

Crashed == \E t \in Threads : pc[t] = "dead"
Terminated == Crashed /\ UNCHANGED vars

Next ==
    \/ \E t \in Threads : Start(t) \/ Lock(t) \/ Proceed(t)
    \/ Tick
    \/ Terminated

Spec == Init /\ [][Next]_vars

-----------------------------------------------------------------------------
(* Properties.                                                             *)

TypeOK ==
    /\ buckets \in [Buckets -> Seq(Items)]
    /\ locks \in [Buckets -> Threads \cup {NoThread}]
    /\ total_items \in Int
    /\ total_memory \in 0 .. SIZE_RANGE - 1
    /\ now \in 0 .. MaxTime
    /\ pc \in [Threads -> {"idle", "lock", "search", "act", "add_items", "add_memory",
                           "sub_items", "sub_memory", "dead"}]
    /\ call \in [Threads -> Calls]
    /\ result \in [Threads -> Values \cup {None}]
    /\ resized \in BOOLEAN

(* As long as no key is cut (under 128 bytes), whatever the threads do, a  *)
(* key has at most one item: cache_set never links a second one behind the *)
(* back of a concurrent cache_set or after a failed one.                   *)
ShortKeys == \A k \in Keys : Stored[k] = k
UniqueKeys ==
    ShortKeys => \A b, c \in Buckets :
        \A i \in 1 .. Len(buckets[b]), h \in 1 .. Len(buckets[c]) :
            buckets[b][i].key = buckets[c][h].key => b = c /\ i = h

(* The places in the chains, and the bytes of the data there.              *)
Linked == UNION {{b} \X (1 .. Len(buckets[b])) : b \in Buckets}
InUse == UNION {{p} \X (1 .. buckets[p[1]][p[2]].data_size) : p \in Linked}

(* The threads at a place, and the bytes that they have still to count.    *)
At(place) == {t \in Threads : pc[t] = place}
Owed(ts) == UNION {{t} \X (1 .. call[t].data_size) : t \in ts}

(* total_items, which print_memory_stats reads at any moment, is the       *)
(* number of linked items up to the threads that are just about to update  *)
(* it, and so exact when nobody is, and never negative.                    *)
ItemsCounted ==
    /\ total_items = Cardinality(Linked) - Cardinality(At("add_items"))
                                         + Cardinality(At("sub_items"))
    /\ total_items >= 0

(* total_memory is the size of the linked data up to the threads that have *)
(* still to add or subtract theirs, modulo the range of size_t, until      *)
(* cache_set replaces data by data of another size: from then on the       *)
(* number that print_memory_stats shows is wrong for good.                 *)
MemoryAccounted ==
    ~resized =>
        total_memory = (Cardinality(InUse)
                          - Cardinality(Owed(At("add_items") \cup At("add_memory")))
                          + Cardinality(Owed(At("sub_items") \cup At("sub_memory")))) % SIZE_RANGE

(* Both counters that print_memory_stats shows, which the operations       *)
(* update outside the change they count and after one another, agree with  *)
(* the chains as long as the process lives.                                *)
CountersExact == ~Crashed => ItemsCounted /\ MemoryAccounted

(* The sweep of cache_cleanup_expired, which may run long after it read    *)
(* the clock and beside threads that store, removes no item that is still  *)
(* alive.                                                                  *)
SweepSparesLive ==
    [][\A t \in Threads :
         Found(t, "cleanup") /\ pc'[t] = "sub_items" =>
            \A i \in 1 .. Len(Chain(t)) :
                ~Expired(Chain(t)[i], now) =>
                    \E h \in 1 .. Len(Chain(t)') : (Chain(t)')[h] = Chain(t)[i]]_vars

(* A bucket's mutex is held by a thread that is at work in that bucket: on *)
(* every path of every operation it is released before the operation       *)
(* returns, goes on to another bucket or calls another operation, so that  *)
(* no thread waits for a mutex while it holds one.                         *)
NoLockKept ==
    \A b \in Buckets : locks[b] # NoThread =>
        /\ pc[locks[b]] \notin {"idle", "lock"}
        /\ call[locks[b]].bucket = b

(* With keys that are not cut, the cache is a map whose entries may        *)
(* vanish: cache_get answers with the data last stored or with nothing,    *)
(* and a replaced, deleted or expired entry never comes back.              *)
StoredUnder(k) ==
    {buckets[Hash[k]][i].data : i \in {h \in 1 .. Len(buckets[Hash[k]]) :
                                          buckets[Hash[k]][h].key = k}}
Map == INSTANCE ExpiringMap
         WITH store <- [k \in Keys |-> IF StoredUnder(k) = {} THEN None
                                       ELSE CHOOSE d \in StoredUnder(k) : TRUE],
              asked <- [t \in Threads |-> call[t].key],
              given <- [t \in Threads |-> call[t].data]
ImplementsMap == Map!MapSpec

=============================================================================

---------------------------- MODULE CacheProofs -----------------------------
(***************************************************************************)
(* Proofs, for every set of threads, keys and values, every number of      *)
(* buckets and every hash function, of what Cache promises: the locking    *)
(* discipline of the buckets, one item per key, a sweep that spares live   *)
(* items, the cache as a map whose entries may vanish, and counters that   *)
(* agree with the chains.                                                  *)
(*                                                                         *)
(* The argument rests on the locks: what a thread found out about a chain  *)
(* stays true until it releases the mutex, since all others are at work in *)
(* other buckets.                                                          *)
(***************************************************************************)
EXTENDS Cache, SequenceTheorems, FunctionTheorems, FiniteSetTheorems, TLAPS

-----------------------------------------------------------------------------
(* The inductive invariant.                                                *)

Places == {"idle", "lock", "search", "act", "add_items", "add_memory",
           "sub_items", "sub_memory", "dead"}
Working == {"search", "act", "add_items", "add_memory", "sub_items", "sub_memory"}

Types ==
    /\ buckets \in [Buckets -> Seq(Items)]
    /\ locks \in [Buckets -> Threads \cup {NoThread}]
    /\ now \in 0 .. MaxTime
    /\ pc \in [Threads -> Places]
    /\ call \in [Threads -> Calls]

(* A thread at work in a bucket holds its mutex, and no other mutex is     *)
(* held.                                                                   *)
Locking ==
    /\ \A t \in Threads : pc[t] \in Working => locks[call[t].bucket] = t
    /\ \A b \in Buckets : locks[b] # NoThread =>
          /\ pc[locks[b]] \in Working \cup {"dead"}
          /\ call[locks[b]].bucket = b

(* What the locals c of a thread are at a place of an operation.           *)
CallOK(place, c) ==
    /\ place = "idle" => c = NoCall
    /\ place \notin {"idle", "dead"} => c.op # "none"
    /\ c.op \in {"set", "get", "delete"} => c.key \in Keys /\ c.bucket = Hash[c.key]
    /\ c.op \in {"none", "cleanup"} => c.key = None
    /\ c.op = "set" => c.data \in Values
    /\ c.op # "set" => c.data = None
    /\ c.op = "cleanup" => c.since <= now
    /\ place \in {"add_items", "add_memory"} => c.op = "set"
    /\ place \in {"sub_items", "sub_memory"} => c.op \in {"delete", "cleanup"}
Operation == \A t \in Threads : CallOK(pc[t], call[t])

(* The search of a thread found the first item it wants, or that there is  *)
(* none.                                                                   *)
Position ==
    \A t \in Threads : pc[t] = "act" =>
        /\ call[t].at \in 0 .. Len(Chain(t))
        /\ call[t].at > 0 => Wanted(t, Chain(t)[call[t].at])
        /\ call[t].at = 0 => \A h \in 1 .. Len(Chain(t)) : ~Wanted(t, Chain(t)[h])

(* A key that is not cut has its item in its own bucket, and one only.     *)
InPlace ==
    ShortKeys => \A b \in Buckets :
        /\ \A i \in 1 .. Len(buckets[b]) : Hash[buckets[b][i].key] = b
        /\ \A i, h \in 1 .. Len(buckets[b]) : buckets[b][i].key = buckets[b][h].key => i = h

CacheInv == Types /\ Locking /\ Operation /\ Position /\ InPlace

-----------------------------------------------------------------------------
(* Facts about calls and chains.                                           *)

LEMMA NoCallType ==
    /\ NoCall \in Calls /\ NoCall.op = "none" /\ NoCall.key = None /\ NoCall.data = None
    /\ CallOK("idle", NoCall)
<1>1. 0 \in Buckets /\ 0 \in 0 .. MaxTime /\ 0 \in 0 .. SIZE_RANGE - 1
  BY BucketsAssumption, BoundsAssumption, DataAssumption DEF Buckets
<1>2. NoCall \in Calls
  BY <1>1 DEF NoCall, Calls
<1> QED  BY <1>2 DEF NoCall, CallOK

LEMMA RemoveAtProperties ==
    ASSUME NEW S, NEW s \in Seq(S), NEW i \in 1 .. Len(s)
    PROVE  /\ RemoveAt(s, i) \in Seq(S)
           /\ Len(RemoveAt(s, i)) = Len(s) - 1
           /\ \A h \in 1 .. Len(s) - 1 : RemoveAt(s, i)[h] = IF h < i THEN s[h] ELSE s[h + 1]
<1>1. Len(s) \in Nat
  OBVIOUS
<1> DEFINE l == SubSeq(s, 1, i - 1)
           r == SubSeq(s, i + 1, Len(s))
<1>2. l \in Seq(S) /\ Len(l) = i - 1 /\ \A h \in 1 .. i - 1 : l[h] = s[h]
  BY <1>1
<1>3. r \in Seq(S) /\ Len(r) = Len(s) - i /\ \A h \in 1 .. Len(s) - i : r[h] = s[h + i]
  BY <1>1
<1> HIDE DEF l, r
<1>4. /\ l \o r \in Seq(S) /\ Len(l \o r) = Len(l) + Len(r)
      /\ \A h \in 1 .. Len(l) + Len(r) : (l \o r)[h] = IF h <= Len(l) THEN l[h] ELSE r[h - Len(l)]
  BY <1>2, <1>3, ConcatProperties
<1>5. RemoveAt(s, i) = l \o r
  BY DEF RemoveAt, l, r
<1>6. Len(l) + Len(r) = Len(s) - 1
  BY <1>1, <1>2, <1>3
<1>7. ASSUME NEW h \in 1 .. Len(s) - 1
      PROVE  (l \o r)[h] = IF h < i THEN s[h] ELSE s[h + 1]
  <2>1. CASE h < i
    BY <1>1, <1>2, <1>4, <1>6, <2>1
  <2>2. CASE ~(h < i)
    <3>1. h - (i - 1) \in 1 .. Len(s) - i /\ (h - (i - 1)) + i = h + 1
      BY <1>1, <2>2
    <3>2. (l \o r)[h] = r[h - (i - 1)]
      BY <1>1, <1>2, <1>4, <1>6, <2>2
    <3>3. r[h - (i - 1)] = s[(h - (i - 1)) + i]
      BY <1>3, <3>1
    <3> QED  BY <2>2, <3>1, <3>2, <3>3
  <2> QED  BY <2>1, <2>2
<1> QED  BY <1>4, <1>5, <1>6, <1>7

LEMMA ChangeAt ==
    ASSUME NEW S, NEW s \in Seq(S), NEW i \in 1 .. Len(s), NEW e \in S
    PROVE  /\ [s EXCEPT ![i] = e] \in Seq(S) /\ Len([s EXCEPT ![i] = e]) = Len(s)
           /\ [s EXCEPT ![i] = e][i] = e
           /\ \A h \in 1 .. Len(s) : h # i => [s EXCEPT ![i] = e][h] = s[h]
  OBVIOUS

(* Two threads at work are in different buckets.                           *)
LEMMA Apart ==
    ASSUME Types, Locking, NEW t \in Threads, NEW u \in Threads, t # u,
           pc[t] \in Working, pc[u] \in Working
    PROVE  call[t].bucket # call[u].bucket
  BY DEF Locking

-----------------------------------------------------------------------------
(* The steps of an operation.                                              *)

(* A step of a thread t at work that leads to place with the locals c: it  *)
(* changes no chain but its own, and either keeps the mutex and stays at   *)
(* work in the bucket, or releases it.                                     *)
WorkStep(t, place, c) ==
    /\ pc[t] \in Working
    /\ pc' = [pc EXCEPT ![t] = place] /\ call' = [call EXCEPT ![t] = c] /\ now' = now
    /\ buckets' \in [Buckets -> Seq(Items)]
    /\ \A b \in Buckets : b # call[t].bucket => buckets'[b] = buckets[b]
    /\ \/ locks' = locks /\ place \in Working \ {"act"} /\ c.bucket = call[t].bucket
       \/ locks' = [locks EXCEPT ![call[t].bucket] = NoThread] /\ place \in {"idle", "lock"}

LEMMA WorkStepInv ==
    ASSUME CacheInv, NEW t \in Threads, NEW place, NEW c \in Calls, WorkStep(t, place, c),
           CallOK(place, c), InPlace'
    PROVE  CacheInv'
<1> Types /\ Locking /\ Operation /\ Position
  BY DEF CacheInv
<1> place \in Places \ {"act"}
  BY DEF WorkStep, Working, Places
<1>1. Types'
  BY DEF Types, WorkStep, Places
<1>2. /\ \A u \in Threads : pc'[u] = IF u = t THEN place ELSE pc[u]
      /\ \A u \in Threads : call'[u] = IF u = t THEN c ELSE call[u]
  BY DEF Types, WorkStep
<1>3. call[t].bucket \in Buckets /\ locks[call[t].bucket] = t /\ c.bucket \in Buckets
  BY DEF Types, Calls, Locking, WorkStep
<1>4. Locking'
  <2>1. CASE locks' = locks /\ place \in Working /\ c.bucket = call[t].bucket
    <3>1. \A u \in Threads : pc'[u] \in Working => locks'[call'[u].bucket] = u
      BY <1>2, <1>3, <2>1 DEF Types, Locking
    <3>2. \A b \in Buckets : locks[b] = t => b = call[t].bucket
      BY ThreadAssumption DEF Locking
    <3>3. \A b \in Buckets : locks'[b] # NoThread =>
             /\ pc'[locks'[b]] \in Working \cup {"dead"} /\ call'[locks'[b]].bucket = b
      BY <1>2, <2>1, <3>2 DEF Types, Locking
    <3> QED  BY <3>1, <3>3 DEF Locking
  <2>2. CASE locks' = [locks EXCEPT ![call[t].bucket] = NoThread] /\ place \in {"idle", "lock"}
    <3>1. \A b \in Buckets : locks'[b] = IF b = call[t].bucket THEN NoThread ELSE locks[b]
      BY <2>2 DEF Types
    <3>2. \A u \in Threads : pc'[u] \in Working => u # t /\ call[u].bucket # call[t].bucket
      BY <1>2, <2>2, Apart DEF Working, WorkStep
    <3>3. \A u \in Threads : pc'[u] \in Working => locks'[call'[u].bucket] = u
      BY <1>2, <3>1, <3>2 DEF Types, Calls, Locking
    <3>4. \A b \in Buckets : locks'[b] # NoThread =>
             /\ pc'[locks'[b]] \in Working \cup {"dead"} /\ call'[locks'[b]].bucket = b
      <4> SUFFICES ASSUME NEW b \in Buckets, locks'[b] # NoThread
                   PROVE  /\ pc'[locks'[b]] \in Working \cup {"dead"}
                          /\ call'[locks'[b]].bucket = b
        OBVIOUS
      <4>1. b # call[t].bucket /\ locks'[b] = locks[b] /\ locks[b] \in Threads
        BY <3>1 DEF Types
      <4>2. pc[locks[b]] \in Working \cup {"dead"} /\ call[locks[b]].bucket = b /\ locks[b] # t
        BY <4>1 DEF Locking
      <4> QED  BY <1>2, <4>1, <4>2
    <3> QED  BY <3>3, <3>4 DEF Locking
  <2> QED  BY <2>1, <2>2 DEF WorkStep
<1>5. Operation'
  BY <1>2 DEF Operation, CallOK, WorkStep
<1>6. Position'
  <2> SUFFICES ASSUME NEW u \in Threads, pc'[u] = "act" PROVE Position!(u)'
    BY DEF Position
  <2>1. u # t /\ pc[u] = "act" /\ call'[u] = call[u]
    BY <1>2
  <2>2. call[u].bucket # call[t].bucket /\ call[u].bucket \in Buckets
    BY <2>1, Apart DEF Types, Calls, Working, WorkStep
  <2>3. Chain(u)' = Chain(u)
    BY <2>1, <2>2 DEF Chain, WorkStep
  <2>4. \A item : Wanted(u, item)' <=> Wanted(u, item)
    BY <2>1 DEF Wanted, Expired
  <2> QED  BY <2>1, <2>3, <2>4 DEF Position
<1> QED  BY <1>1, <1>4, <1>5, <1>6 DEF CacheInv

LEMMA SamePlace == ASSUME CacheInv, buckets' = buckets PROVE InPlace'
  BY DEF CacheInv, InPlace

(* The end of an operation.                                                *)
LEMMA ReturnInv ==
    ASSUME CacheInv, NEW t \in Threads, pc[t] \in Working, Return(t), now' = now,
           buckets' \in [Buckets -> Seq(Items)],
           \A b \in Buckets : b # call[t].bucket => buckets'[b] = buckets[b],
           InPlace'
    PROVE  CacheInv'
<1>1. WorkStep(t, "idle", NoCall)
  BY DEF Return, Unlock, WorkStep
<1> QED  BY <1>1, NoCallType, WorkStepInv

LEMMA InitInv == Init => CacheInv
<1> SUFFICES ASSUME Init PROVE CacheInv
  OBVIOUS
<1>1. Types
  BY NoCallType, BoundsAssumption DEF Init, Types, Places
<1>2. Locking /\ Position
  BY DEF Init, Locking, Position, Working
<1>3. Operation
  BY NoCallType DEF Init, Operation
<1>4. InPlace
  BY DEF Init, InPlace
<1> QED  BY <1>1, <1>2, <1>3, <1>4 DEF CacheInv

(* Before the mutex.                                                       *)
LEMMA BeginInv ==
    ASSUME CacheInv, NEW t \in Threads, NEW c \in Calls, Begin(t, c), CallOK("lock", c)
    PROVE  CacheInv'
<1> Types /\ Locking /\ Operation /\ Position
  BY DEF CacheInv
<1> UNCHANGED <<buckets, locks, now>>
  BY DEF Begin, cachevars
<1>1. Types'
  BY DEF Types, Begin, Places
<1>2. /\ pc[t] = "idle"
      /\ \A u \in Threads : pc'[u] = IF u = t THEN "lock" ELSE pc[u]
      /\ \A u \in Threads : call'[u] = IF u = t THEN c ELSE call[u]
  BY DEF Types, Begin
<1>3. Locking'
  <2>1. \A u \in Threads : pc'[u] \in Working => locks'[call'[u].bucket] = u
    BY <1>2 DEF Locking, Working
  <2>2. \A b \in Buckets : locks[b] # NoThread => locks[b] \in Threads /\ locks[b] # t
    BY <1>2 DEF Locking, Working, Types
  <2>3. \A b \in Buckets : locks'[b] # NoThread =>
           /\ pc'[locks'[b]] \in Working \cup {"dead"} /\ call'[locks'[b]].bucket = b
    BY <1>2, <2>2 DEF Locking
  <2> QED  BY <2>1, <2>3 DEF Locking
<1>4. Operation'
  BY <1>2 DEF Operation, CallOK
<1>5. Position'
  <2> SUFFICES ASSUME NEW u \in Threads, pc'[u] = "act" PROVE Position!(u)'
    BY DEF Position
  <2>1. u # t /\ pc[u] = "act" /\ call'[u] = call[u]
    BY <1>2
  <2>2. Chain(u)' = Chain(u) /\ \A item : Wanted(u, item)' <=> Wanted(u, item)
    BY <2>1 DEF Chain, Wanted, Expired
  <2> QED  BY <2>1, <2>2 DEF Position
<1> QED  BY <1>1, <1>3, <1>4, <1>5, SamePlace DEF CacheInv

LEMMA StartInv == ASSUME CacheInv, NEW t \in Threads, Start(t) PROVE CacheInv'
<1> now \in 0 .. MaxTime
  BY DEF CacheInv, Types
<1>1. CASE Set(t)
  <2>1. PICK k \in Keys, v \in Values :
          Begin(t, [NoCall EXCEPT !.op = "set", !.key = k, !.data = v, !.bucket = Hash[k]])
    BY <1>1 DEF Set
  <2> DEFINE c == [NoCall EXCEPT !.op = "set", !.key = k, !.data = v, !.bucket = Hash[k]]
  <2>2. c \in Calls /\ CallOK("lock", c)
    BY NoCallType, BucketsAssumption DEF Calls, NoCall, CallOK
  <2> HIDE DEF c
  <2> QED  BY <2>1, <2>2, BeginInv DEF c
<1>2. CASE Get(t)
  <2>1. PICK k \in Keys : Begin(t, [NoCall EXCEPT !.op = "get", !.key = k, !.bucket = Hash[k]])
    BY <1>2 DEF Get
  <2> DEFINE c == [NoCall EXCEPT !.op = "get", !.key = k, !.bucket = Hash[k]]
  <2>2. c \in Calls /\ CallOK("lock", c)
    BY NoCallType, BucketsAssumption DEF Calls, NoCall, CallOK
  <2> QED  BY <2>1, <2>2, BeginInv
<1>3. CASE Delete(t)
  <2>1. PICK k \in Keys : Begin(t, [NoCall EXCEPT !.op = "delete", !.key = k, !.bucket = Hash[k]])
    BY <1>3 DEF Delete
  <2> DEFINE c == [NoCall EXCEPT !.op = "delete", !.key = k, !.bucket = Hash[k]]
  <2>2. c \in Calls /\ CallOK("lock", c)
    BY NoCallType, BucketsAssumption DEF Calls, NoCall, CallOK
  <2> QED  BY <2>1, <2>2, BeginInv
<1>4. CASE Cleanup(t)
  <2> DEFINE c == [NoCall EXCEPT !.op = "cleanup", !.since = now]
  <2>1. c \in Calls /\ c.op = "cleanup" /\ c.since = now /\ c.key = None /\ c.data = None
    BY NoCallType DEF Calls, NoCall
  <2>2. now <= now
    BY BoundsAssumption
  <2>3. c \in Calls /\ CallOK("lock", c)
    <3> HIDE DEF c
    <3> QED  BY <2>1, <2>2 DEF CallOK
  <2> QED  BY <1>4, <2>3, BeginInv DEF Cleanup
<1> QED  BY <1>1, <1>2, <1>3, <1>4 DEF Start

LEMMA LockInv == ASSUME CacheInv, NEW t \in Threads, Lock(t) PROVE CacheInv'
<1> Types /\ Locking /\ Operation /\ Position
  BY DEF CacheInv
<1> UNCHANGED <<buckets, now, call>>
  BY DEF Lock, cachevars
<1>1. Types'
  BY DEF Types, Lock, Places
<1>2. /\ pc[t] = "lock" /\ call[t].bucket \in Buckets /\ locks[call[t].bucket] = NoThread
      /\ \A u \in Threads : pc'[u] = IF u = t THEN "search" ELSE pc[u]
      /\ \A b \in Buckets : locks'[b] = IF b = call[t].bucket THEN t ELSE locks[b]
  BY DEF Types, Lock, Calls
<1>3. \A u \in Threads : pc[u] \in Working => call[u].bucket # call[t].bucket
  BY <1>2, ThreadAssumption DEF Locking
<1>4. Locking'
  <2>1. \A u \in Threads : pc'[u] \in Working => locks'[call'[u].bucket] = u
    BY <1>2, <1>3 DEF Locking, Types, Calls
  <2>2. \A b \in Buckets : locks'[b] # NoThread =>
           /\ pc'[locks'[b]] \in Working \cup {"dead"} /\ call'[locks'[b]].bucket = b
    BY <1>2 DEF Locking, Types, Working
  <2> QED  BY <2>1, <2>2 DEF Locking
<1>5. Operation'
  BY <1>2 DEF Operation, CallOK
<1>6. Position'
  BY <1>2 DEF Position, Chain, Wanted, Expired
<1> QED  BY <1>1, <1>4, <1>5, <1>6, SamePlace DEF CacheInv

LEMMA SearchInv == ASSUME CacheInv, NEW t \in Threads, Search(t) PROVE CacheInv'
<1> Types /\ Locking /\ Operation /\ Position
  BY DEF CacheInv
<1> UNCHANGED <<buckets, locks, now>>
  BY DEF Search, cachevars
<1>1. PICK i \in 0 .. Len(Chain(t)) :
        /\ i > 0 => Wanted(t, Chain(t)[i])
        /\ \A h \in 1 .. Len(Chain(t)) : Wanted(t, Chain(t)[h]) => 0 < i /\ i <= h
        /\ call' = [call EXCEPT ![t].at = i]
  BY DEF Search
<1> DEFINE c == [call[t] EXCEPT !.at = i]
<1>2. /\ c \in Calls /\ c.op = call[t].op /\ c.key = call[t].key /\ c.data = call[t].data
      /\ c.bucket = call[t].bucket /\ c.since = call[t].since /\ c.at = i
  <2>1. call[t] \in Calls /\ i \in Nat
    BY DEF Types
  <2> QED  BY <2>1 DEF Calls
<1>3. /\ call' = [call EXCEPT ![t] = c] /\ pc[t] = "search"
      /\ pc' = [pc EXCEPT ![t] = "act"]
  BY <1>1 DEF Search
<1> HIDE DEF c
<1>4. Types'
  BY <1>2, <1>3 DEF Types, Places
<1>5. /\ \A u \in Threads : pc'[u] = IF u = t THEN "act" ELSE pc[u]
      /\ \A u \in Threads : call'[u] = IF u = t THEN c ELSE call[u]
  BY <1>3 DEF Types
<1>6. Locking'
  BY <1>2, <1>3, <1>5 DEF Locking, Working, Types
<1>7. Operation'
  BY <1>2, <1>3, <1>5 DEF Operation, CallOK
<1>8. Position'
  <2> SUFFICES ASSUME NEW u \in Threads, pc'[u] = "act" PROVE Position!(u)'
    BY DEF Position
  <2>1. /\ call'[u].bucket = call[u].bucket /\ call'[u].op = call[u].op
        /\ call'[u].key = call[u].key /\ call'[u].since = call[u].since
    BY <1>2, <1>5
  <2>2. Chain(u)' = Chain(u) /\ \A item : Wanted(u, item)' <=> Wanted(u, item)
    BY <2>1 DEF Chain, Wanted, Expired
  <2>3. CASE u = t
    BY <1>1, <1>2, <1>5, <2>2, <2>3
  <2>4. CASE u # t
    BY <1>5, <2>2, <2>4 DEF Position
  <2> QED  BY <2>3, <2>4
<1> QED  BY <1>4, <1>6, <1>7, <1>8, SamePlace DEF CacheInv

(* Where a thread is that acts on what it found.                           *)
LEMMA Acting ==
    ASSUME CacheInv, NEW t \in Threads, pc[t] \in Working
    PROVE  /\ call[t] \in Calls /\ call[t].bucket \in Buckets
           /\ Chain(t) \in Seq(Items) /\ Chain(t) = buckets[call[t].bucket]
           /\ CallOK(pc[t], call[t])
           /\ pc[t] = "act" /\ call[t].at > 0 =>
                 call[t].at \in 1 .. Len(Chain(t)) /\ Item(t) \in Items
<1>1. /\ call[t] \in Calls /\ call[t].bucket \in Buckets
      /\ Chain(t) \in Seq(Items) /\ Chain(t) = buckets[call[t].bucket]
      /\ CallOK(pc[t], call[t])
  BY DEF CacheInv, Types, Calls, Chain, Operation
<1>2. pc[t] = "act" /\ call[t].at > 0 => call[t].at \in 1 .. Len(Chain(t))
  BY <1>1 DEF CacheInv, Position
<1> QED  BY <1>1, <1>2 DEF Item

LEMMA QuietReturnInv ==
    ASSUME CacheInv, NEW t \in Threads, pc[t] \in Working, Return(t), now' = now,
           buckets' = buckets
    PROVE  CacheInv'
  BY ReturnInv, SamePlace DEF CacheInv, Types

(* An item of t's chain changes but for its key.                           *)
LEMMA ChangeInv ==
    ASSUME CacheInv, NEW t \in Threads, pc[t] = "act", call[t].at > 0,
           NEW item \in Items, item.key = Item(t).key,
           buckets' = [buckets EXCEPT ![call[t].bucket] = [@ EXCEPT ![call[t].at] = item]],
           Return(t), now' = now
    PROVE  CacheInv'
<1> DEFINE b == call[t].bucket
<1>1. /\ b \in Buckets /\ buckets[b] \in Seq(Items) /\ call[t].at \in 1 .. Len(buckets[b])
      /\ Item(t) = buckets[b][call[t].at] /\ buckets \in [Buckets -> Seq(Items)]
  BY Acting DEF Working, Item, CacheInv, Types
<1>2. PICK s : s = [buckets[b] EXCEPT ![call[t].at] = item]
  OBVIOUS
<1>3. /\ s \in Seq(Items) /\ Len(s) = Len(buckets[b])
      /\ \A i \in 1 .. Len(buckets[b]) : s[i].key = buckets[b][i].key
  BY <1>1, <1>2
<1>4. buckets' = [buckets EXCEPT ![b] = s]
  BY <1>2
<1> HIDE DEF b
<1>5. /\ buckets' \in [Buckets -> Seq(Items)]
      /\ \A d \in Buckets : buckets'[d] = IF d = b THEN s ELSE buckets[d]
  BY <1>1, <1>3, <1>4
<1>6. \A d \in Buckets :
        /\ Len(buckets'[d]) = Len(buckets[d])
        /\ \A i \in 1 .. Len(buckets[d]) : buckets'[d][i].key = buckets[d][i].key
  BY <1>3, <1>5
<1>7. InPlace'
  BY <1>6 DEF CacheInv, InPlace
<1> QED  BY <1>5, <1>7, ReturnInv DEF Working, b

LEMMA SetReplaceInv == ASSUME CacheInv, NEW t \in Threads, SetReplace(t) PROVE CacheInv'
<1> DEFINE item == [Item(t) EXCEPT !.data = call[t].data, !.data_size = Size[call[t].data],
                                   !.timestamp = now]
<1>1. pc[t] = "act" /\ call[t].at > 0 /\ call[t].op = "set" /\ Return(t) /\ now' = now
  BY DEF SetReplace, Found
<1>2. Item(t) \in Items /\ call[t].data \in Values /\ now \in 0 .. MaxTime
  BY <1>1, Acting DEF Working, CallOK, CacheInv, Types
<1>3. Size[call[t].data] \in 1 .. SIZE_RANGE - 1
  BY <1>2, DataAssumption
<1>4. item \in Items /\ item.key = Item(t).key
  BY <1>2, <1>3 DEF Items
<1>5. buckets' = [buckets EXCEPT ![call[t].bucket] = [@ EXCEPT ![call[t].at] = item]]
  BY <1>1, Acting DEF SetReplace, Item, Chain, Working
<1> QED  BY <1>1, <1>4, <1>5, ChangeInv

LEMMA SetReplaceFailsInv ==
    ASSUME CacheInv, NEW t \in Threads, SetReplaceFails(t) PROVE CacheInv'
<1> DEFINE item == [Item(t) EXCEPT !.data = None]
<1>1. pc[t] = "act" /\ call[t].at > 0 /\ call[t].op = "set" /\ Return(t) /\ now' = now
  BY DEF SetReplaceFails, Found
<1>2. Item(t) \in Items
  BY <1>1, Acting DEF Working
<1>3. item \in Items /\ item.key = Item(t).key
  BY <1>2 DEF Items
<1>4. buckets' = [buckets EXCEPT ![call[t].bucket] = [@ EXCEPT ![call[t].at] = item]]
  BY <1>1, Acting DEF SetReplaceFails, Item, Chain, Working
<1> QED  BY <1>1, <1>3, <1>4, ChangeInv

LEMMA SetInsertInv == ASSUME CacheInv, NEW t \in Threads, SetInsert(t) PROVE CacheInv'
<1> DEFINE b == call[t].bucket
           k == call[t].key
           c == [call[t] EXCEPT !.data_size = Size[call[t].data]]
<1>1. pc[t] = "act" /\ call[t].at = 0 /\ call[t].op = "set" /\ pc[t] \in Working
  BY DEF SetInsert, NotFound, Working
<1>2. /\ call[t] \in Calls /\ b \in Buckets /\ buckets[b] \in Seq(Items)
      /\ k \in Keys /\ b = Hash[k] /\ call[t].data \in Values /\ CallOK("act", call[t])
      /\ buckets \in [Buckets -> Seq(Items)] /\ now \in 0 .. MaxTime
  BY <1>1, Acting DEF CallOK, CacheInv, Types
<1>3. Size[call[t].data] \in 1 .. SIZE_RANGE - 1 /\ Size[call[t].data] \in 0 .. SIZE_RANGE - 1
  BY <1>2, DataAssumption
<1>4. /\ c \in Calls /\ c.op = call[t].op /\ c.key = call[t].key /\ c.data = call[t].data
      /\ c.bucket = b /\ c.since = call[t].since
  BY <1>2, <1>3 DEF Calls
<1>5. call' = [call EXCEPT ![t] = c]
  BY DEF SetInsert
<1>6. CallOK("add_items", c)
  <2> HIDE DEF c
  <2> QED  BY <1>1, <1>2, <1>4 DEF CallOK
<1>7. PICK item : item = [key |-> Stored[k], data |-> call[t].data,
                          data_size |-> Size[call[t].data], timestamp |-> now]
  OBVIOUS
<1>8. item \in Items /\ item.key = Stored[k]
  BY <1>2, <1>3, <1>7, BucketsAssumption DEF Items
<1>9. PICK s : s = <<item>> \o buckets[b]
  OBVIOUS
<1>10. /\ s \in Seq(Items) /\ Len(s) = Len(buckets[b]) + 1 /\ s[1] = item
       /\ \A i \in 2 .. Len(s) : s[i] = buckets[b][i - 1]
  BY <1>2, <1>8, <1>9
<1>11. buckets' = [buckets EXCEPT ![b] = s]
  BY <1>7, <1>9 DEF SetInsert
<1>12. \A h \in 1 .. Len(buckets[b]) : buckets[b][h].key # k
  BY <1>1 DEF CacheInv, Position, Wanted, Chain
<1> HIDE DEF b, c, k
<1>13. /\ buckets' \in [Buckets -> Seq(Items)]
       /\ \A d \in Buckets : buckets'[d] = IF d = b THEN s ELSE buckets[d]
  BY <1>2, <1>10, <1>11
<1>14. InPlace'
  <2> SUFFICES ASSUME ShortKeys, NEW d \in Buckets
               PROVE  /\ \A i \in 1 .. Len(buckets'[d]) : Hash[buckets'[d][i].key] = d
                      /\ \A i, h \in 1 .. Len(buckets'[d]) :
                            buckets'[d][i].key = buckets'[d][h].key => i = h
    BY DEF InPlace, ShortKeys
  <2>1. CASE d # b
    BY <1>13, <2>1 DEF CacheInv, InPlace
  <2>2. CASE d = b
    <3>1. /\ \A i \in 1 .. Len(buckets[b]) : Hash[buckets[b][i].key] = b
          /\ \A i, h \in 1 .. Len(buckets[b]) : buckets[b][i].key = buckets[b][h].key => i = h
      BY <1>2 DEF CacheInv, InPlace
    <3>2. s[1].key = k /\ Len(buckets[b]) \in Nat
      BY <1>2, <1>8, <1>10 DEF ShortKeys
    <3>3. \A i \in 1 .. Len(s) : i = 1 \/ (i \in 2 .. Len(s) /\ i - 1 \in 1 .. Len(buckets[b]))
      BY <1>10, <3>2
    <3>4. ASSUME NEW i \in 1 .. Len(s) PROVE Hash[s[i].key] = b
      <4>1. CASE i = 1
        BY <1>2, <3>2, <4>1
      <4>2. CASE i # 1
        <5>1. i - 1 \in 1 .. Len(buckets[b]) /\ s[i] = buckets[b][i - 1]
          BY <1>10, <3>3, <4>2
        <5> QED  BY <3>1, <5>1
      <4> QED  BY <4>1, <4>2
    <3>5. \A i, h \in 1 .. Len(s) : s[i].key = s[h].key => i = h
      <4> SUFFICES ASSUME NEW i \in 1 .. Len(s), NEW h \in 1 .. Len(s), s[i].key = s[h].key
                   PROVE  i = h
        OBVIOUS
      <4>1. CASE i = 1 \/ h = 1
        BY <1>10, <1>12, <3>2, <3>3, <4>1
      <4>2. CASE i # 1 /\ h # 1
        <5>1. i - 1 \in 1 .. Len(buckets[b]) /\ h - 1 \in 1 .. Len(buckets[b])
          BY <3>3, <4>2
        <5>2. buckets[b][i - 1].key = buckets[b][h - 1].key
          BY <1>10, <3>3, <4>2
        <5>3. i - 1 = h - 1
          BY <3>1, <5>1, <5>2
        <5> QED  BY <5>3
      <4> QED  BY <4>1, <4>2
    <3> QED  BY <1>13, <2>2, <3>4, <3>5
  <2> QED  BY <2>1, <2>2
<1>15. WorkStep(t, "add_items", c)
  BY <1>1, <1>4, <1>5, <1>13 DEF WorkStep, SetInsert, Working, b
<1> QED  BY <1>4, <1>6, <1>14, <1>15, WorkStepInv

(* A step under the mutex that changes no chain and no local.              *)
LEMMA CountInv ==
    ASSUME CacheInv, NEW t \in Threads, NEW place \in Working \ {"act"}, pc[t] \in Working,
           pc' = [pc EXCEPT ![t] = place], UNCHANGED <<buckets, locks, now, call>>,
           CallOK(place, call[t])
    PROVE  CacheInv'
<1>1. call[t] \in Calls /\ call' = [call EXCEPT ![t] = call[t]]
  BY Acting DEF CacheInv, Types
<1>2. WorkStep(t, place, call[t])
  BY <1>1 DEF WorkStep, CacheInv, Types
<1> QED  BY <1>1, <1>2, SamePlace, WorkStepInv

LEMMA AddItemsInv == ASSUME CacheInv, NEW t \in Threads, AddItems(t) PROVE CacheInv'
<1>1. pc[t] = "add_items" /\ pc[t] \in Working /\ "add_memory" \in Working \ {"act"}
  BY DEF AddItems, Working
<1>2. CallOK("add_memory", call[t])
  BY <1>1, Acting DEF CallOK
<1> QED  BY <1>1, <1>2, CountInv DEF AddItems

LEMMA SubItemsInv == ASSUME CacheInv, NEW t \in Threads, SubItems(t) PROVE CacheInv'
<1>1. pc[t] = "sub_items" /\ pc[t] \in Working /\ "sub_memory" \in Working \ {"act"}
  BY DEF SubItems, Working
<1>2. CallOK("sub_memory", call[t])
  BY <1>1, Acting DEF CallOK
<1> QED  BY <1>1, <1>2, CountInv DEF SubItems

(* The process is gone: nobody does anything any more.                     *)
LEMMA GetNullInv == ASSUME CacheInv, NEW t \in Threads, GetNull(t) PROVE CacheInv'
<1> Types /\ Locking /\ Operation /\ InPlace
  BY DEF CacheInv
<1> UNCHANGED <<buckets, locks, now, call>> /\ \A u \in Threads : pc'[u] = "dead"
  BY DEF GetNull, cachevars
<1>1. Types'
  BY DEF Types, GetNull, Places
<1>2. Locking'
  BY DEF Locking, Types, Working
<1>3. Operation'
  BY DEF Operation, CallOK
<1>4. Position'
  BY DEF Position
<1> QED  BY <1>1, <1>2, <1>3, <1>4, SamePlace DEF CacheInv

LEMMA GetExpiredInv == ASSUME CacheInv, NEW t \in Threads, GetExpired(t) PROVE CacheInv'
<1> DEFINE c == [call[t] EXCEPT !.op = "delete", !.at = 0]
<1>1. pc[t] = "act" /\ call[t].op = "get" /\ pc[t] \in Working
  BY DEF GetExpired, Found, Working
<1>2. call[t] \in Calls /\ CallOK("act", call[t])
  BY <1>1, Acting
<1>3. /\ c \in Calls /\ c.op = "delete" /\ c.key = call[t].key /\ c.data = call[t].data
      /\ c.bucket = call[t].bucket
  BY <1>2 DEF Calls
<1>4. call' = [call EXCEPT ![t] = c]
  BY DEF GetExpired
<1> HIDE DEF c
<1>5. CallOK("lock", c)
  BY <1>1, <1>2, <1>3 DEF CallOK
<1>6. WorkStep(t, "lock", c)
  BY <1>1, <1>4 DEF WorkStep, GetExpired, Unlock, cachevars, CacheInv, Types
<1> QED  BY <1>3, <1>5, <1>6, SamePlace, WorkStepInv DEF GetExpired, cachevars

(* An item is taken out of the chain.                                      *)
LEMMA UnlinkInv ==
    ASSUME CacheInv, NEW t \in Threads, pc[t] = "act", call[t].at > 0,
           call[t].op \in {"delete", "cleanup"}, Unlink(t)
    PROVE  CacheInv'
<1> DEFINE b == call[t].bucket
           c == [call[t] EXCEPT !.data_size = Item(t).data_size]
<1>1. /\ call[t] \in Calls /\ b \in Buckets /\ buckets[b] \in Seq(Items)
      /\ call[t].at \in 1 .. Len(buckets[b]) /\ Item(t) \in Items /\ CallOK("act", call[t])
      /\ buckets \in [Buckets -> Seq(Items)]
  BY Acting DEF Working, CacheInv, Types
<1>2. Item(t).data_size \in 0 .. SIZE_RANGE - 1
  BY <1>1 DEF Items
<1>3. /\ c \in Calls /\ c.op = call[t].op /\ c.key = call[t].key /\ c.data = call[t].data
      /\ c.bucket = b /\ c.since = call[t].since
  BY <1>1, <1>2 DEF Calls
<1>4. call' = [call EXCEPT ![t] = c]
  BY DEF Unlink
<1> HIDE DEF c
<1>5. CallOK("sub_items", c)
  BY <1>1, <1>3 DEF CallOK
<1>6. PICK s : s = RemoveAt(buckets[b], call[t].at)
  OBVIOUS
<1>7. PICK n : n = Len(buckets[b]) /\ n \in Nat
  BY <1>1
<1>8. /\ s \in Seq(Items) /\ Len(s) = n - 1
      /\ \A h \in 1 .. n - 1 : s[h] = IF h < call[t].at THEN buckets[b][h]
                                                        ELSE buckets[b][h + 1]
  BY <1>1, <1>6, <1>7, RemoveAtProperties
<1>9. buckets' = [buckets EXCEPT ![b] = s]
  BY <1>6 DEF Unlink
<1> HIDE DEF b
<1>10. /\ buckets' \in [Buckets -> Seq(Items)]
       /\ \A d \in Buckets : buckets'[d] = IF d = b THEN s ELSE buckets[d]
  BY <1>1, <1>8, <1>9
<1>11. InPlace'
  <2> SUFFICES ASSUME ShortKeys, NEW d \in Buckets
               PROVE  /\ \A i \in 1 .. Len(buckets'[d]) : Hash[buckets'[d][i].key] = d
                      /\ \A i, h \in 1 .. Len(buckets'[d]) :
                            buckets'[d][i].key = buckets'[d][h].key => i = h
    BY DEF InPlace, ShortKeys
  <2>1. CASE d # b
    BY <1>10, <2>1 DEF CacheInv, InPlace
  <2>2. CASE d = b
    <3>1. /\ \A i \in 1 .. n : Hash[buckets[b][i].key] = b
          /\ \A i, h \in 1 .. n : buckets[b][i].key = buckets[b][h].key => i = h
      BY <1>1, <1>7 DEF CacheInv, InPlace
    <3> DEFINE from(i) == IF i < call[t].at THEN i ELSE i + 1
    <3>2. \A i \in 1 .. Len(s) : from(i) \in 1 .. n /\ s[i] = buckets[b][from(i)]
      BY <1>1, <1>7, <1>8
    <3>3. \A i, h \in 1 .. Len(s) : from(i) = from(h) => i = h
      BY <1>1, <1>7, <1>8
    <3> HIDE DEF from
    <3>4. buckets'[d] = s
      BY <1>10, <2>2
    <3>5. \A i \in 1 .. Len(s) : Hash[s[i].key] = d
      BY <2>2, <3>1, <3>2
    <3>6. \A i, h \in 1 .. Len(s) : s[i].key = s[h].key => i = h
      BY <3>1, <3>2, <3>3
    <3> QED  BY <3>4, <3>5, <3>6
  <2> QED  BY <2>1, <2>2
<1>12. WorkStep(t, "sub_items", c)
  BY <1>3, <1>4, <1>10 DEF WorkStep, Unlink, Working, b
<1> QED  BY <1>3, <1>5, <1>11, <1>12, WorkStepInv

LEMMA SweepBucketDoneInv ==
    ASSUME CacheInv, NEW t \in Threads, SweepBucketDone(t) PROVE CacheInv'
<1>1. /\ pc[t] = "act" /\ call[t].op = "cleanup" /\ pc[t] \in Working
      /\ UNCHANGED <<buckets, now>>
  BY DEF SweepBucketDone, NotFound, Working, cachevars
<1>2. CASE call[t].bucket = NBuckets - 1
  BY <1>1, <1>2, QuietReturnInv DEF SweepBucketDone
<1>3. CASE call[t].bucket # NBuckets - 1
  <2> DEFINE c == [call[t] EXCEPT !.bucket = @ + 1]
  <2>1. call[t] \in Calls /\ CallOK("act", call[t]) /\ call[t].bucket \in Buckets
    BY <1>1, Acting
  <2>2. call[t].bucket + 1 \in Buckets
    BY <1>3, <2>1, BucketsAssumption DEF Buckets
  <2>3. /\ c \in Calls /\ c.op = call[t].op /\ c.key = call[t].key /\ c.data = call[t].data
        /\ c.since = call[t].since
    BY <2>1, <2>2 DEF Calls
  <2>4. call' = [call EXCEPT ![t] = c] /\ Unlock(t) /\ pc' = [pc EXCEPT ![t] = "lock"]
    BY <1>3 DEF SweepBucketDone
  <2> HIDE DEF c
  <2>5. CallOK("lock", c)
    BY <1>1, <2>1, <2>3 DEF CallOK
  <2>6. WorkStep(t, "lock", c)
    BY <1>1, <2>4 DEF WorkStep, Unlock, CacheInv, Types
  <2> QED  BY <1>1, <2>3, <2>5, <2>6, SamePlace, WorkStepInv
<1> QED  BY <1>2, <1>3

LEMMA SubMemoryInv == ASSUME CacheInv, NEW t \in Threads, SubMemory(t) PROVE CacheInv'
<1>1. pc[t] = "sub_memory" /\ pc[t] \in Working /\ UNCHANGED <<buckets, now>>
  BY DEF SubMemory, Freed, Working
<1>2. CASE call[t].op # "cleanup"
  BY <1>1, <1>2, QuietReturnInv DEF SubMemory, Freed
<1>3. CASE call[t].op = "cleanup"
  <2> DEFINE c == [call[t] EXCEPT !.at = 0, !.data_size = 0]
  <2>1. call[t] \in Calls /\ CallOK("sub_memory", call[t]) /\ 0 \in 0 .. SIZE_RANGE - 1
    BY <1>1, Acting, DataAssumption
  <2>2. /\ c \in Calls /\ c.op = call[t].op /\ c.key = call[t].key /\ c.data = call[t].data
        /\ c.since = call[t].since /\ c.bucket = call[t].bucket
    BY <2>1 DEF Calls
  <2>3. /\ call' = [call EXCEPT ![t] = c] /\ pc' = [pc EXCEPT ![t] = "search"]
        /\ UNCHANGED locks
    BY <1>3 DEF SubMemory, Freed
  <2> HIDE DEF c
  <2>4. CallOK("search", c)
    BY <1>3, <2>1, <2>2 DEF CallOK
  <2>5. WorkStep(t, "search", c)
    BY <1>1, <2>2, <2>3 DEF WorkStep, Working, CacheInv, Types
  <2> QED  BY <1>1, <2>2, <2>4, <2>5, SamePlace, WorkStepInv
<1> QED  BY <1>2, <1>3

LEMMA TickInv == ASSUME CacheInv, Tick PROVE CacheInv'
<1> Types /\ Locking /\ Operation /\ Position /\ InPlace
  BY DEF CacheInv
<1> UNCHANGED <<buckets, locks, pc, call>>
  BY DEF Tick, cachevars
<1>1. now \in 0 .. MaxTime /\ now' \in 0 .. MaxTime /\ now <= now'
  BY BoundsAssumption DEF Types, Tick
<1>2. Types'
  BY <1>1 DEF Types
<1>3. Locking'
  BY DEF Locking
<1>4. Operation'
  <2>1. \A t \in Threads : call[t].since \in 0 .. MaxTime
    BY DEF Types, Calls
  <2>2. \A t \in Threads : call[t].since <= now => call[t].since <= now'
    BY <1>1, <2>1, BoundsAssumption
  <2> QED  BY <2>2 DEF Operation, CallOK
<1>5. Position'
  BY DEF Position, Chain, Wanted, Expired
<1> QED  BY <1>2, <1>3, <1>4, <1>5, SamePlace DEF CacheInv

LEMMA NextInv == CacheInv /\ [Next]_vars => CacheInv'
<1> SUFFICES ASSUME CacheInv, [Next]_vars PROVE CacheInv'
  OBVIOUS
<1>1. ASSUME NEW t \in Threads, Start(t) \/ Lock(t) PROVE CacheInv'
  BY <1>1, StartInv, LockInv
<1>2. ASSUME NEW t \in Threads, Proceed(t) PROVE CacheInv'
  <2>1. CASE Search(t) \/ SetReplace(t) \/ SetReplaceFails(t) \/ SetInsert(t)
    BY <2>1, SearchInv, SetReplaceInv, SetReplaceFailsInv, SetInsertInv
  <2>2. CASE SetInsertFails(t) \/ GetMiss(t) \/ DeleteMiss(t)
    BY <2>2, QuietReturnInv
    DEF SetInsertFails, GetMiss, DeleteMiss, NotFound, Working, cachevars
  <2>3. CASE AddMemory(t) \/ GetHit(t)
    BY <2>3, QuietReturnInv DEF AddMemory, GetHit, Found, Working, cachevars
  <2>4. CASE AddItems(t) \/ GetNull(t) \/ GetExpired(t) \/ SubItems(t) \/ SubMemory(t)
    BY <2>4, AddItemsInv, GetNullInv, GetExpiredInv, SubItemsInv, SubMemoryInv
  <2>5. CASE DeleteFound(t) \/ SweepFound(t)
    BY <2>5, UnlinkInv DEF DeleteFound, SweepFound, Found
  <2>6. CASE SweepBucketDone(t)
    BY <2>6, SweepBucketDoneInv
  <2> QED  BY <1>2, <2>1, <2>2, <2>3, <2>4, <2>5, <2>6 DEF Proceed
<1>3. CASE UNCHANGED vars
  <2> UNCHANGED <<buckets, locks, now, pc, call>>
    BY <1>3 DEF vars, cachevars
  <2>1. Types' /\ Locking' /\ InPlace'
    BY DEF CacheInv, Types, Locking, InPlace
  <2>2. Operation'
    BY DEF CacheInv, Operation, CallOK
  <2>3. Position'
    BY DEF CacheInv, Position, Chain, Wanted, Expired
  <2> QED  BY <2>1, <2>2, <2>3 DEF CacheInv
<1> QED  BY <1>1, <1>2, <1>3, TickInv DEF Next, Terminated

(* The locks, what every thread knows under its lock, and one item per     *)
(* key, for every number of threads and buckets.                           *)
THEOREM CacheInvariance == Spec => []CacheInv
  BY InitInv, NextInv, PTL DEF Spec

-----------------------------------------------------------------------------
(* What follows from the invariant.                                        *)

(* The counters and the answers have their types.                          *)
Tallies ==
    /\ total_items \in Int
    /\ total_memory \in 0 .. SIZE_RANGE - 1
    /\ result \in [Threads -> Values \cup {None}]
    /\ resized \in BOOLEAN

LEMMA ModRange == \A n \in Int : n % SIZE_RANGE \in 0 .. SIZE_RANGE - 1
  BY DataAssumption

LEMMA TalliesNext == CacheInv /\ Tallies /\ [Next]_vars => Tallies'
<1> SUFFICES ASSUME CacheInv, Tallies, [Next]_vars PROVE Tallies'
  OBVIOUS
<1>1. ASSUME NEW t \in Threads, Start(t) \/ Lock(t) PROVE Tallies'
  BY <1>1 DEF Tallies, Start, Set, Get, Delete, Cleanup, Begin, Lock, cachevars
<1>2. ASSUME NEW t \in Threads, Proceed(t) PROVE Tallies'
  <2>1. CASE \/ Search(t) \/ SetReplaceFails(t) \/ SetInsert(t) \/ SetInsertFails(t)
             \/ GetNull(t) \/ GetExpired(t) \/ GetMiss(t) \/ DeleteFound(t) \/ DeleteMiss(t)
             \/ SweepFound(t) \/ SweepBucketDone(t)
    BY <2>1
    DEF Tallies, Search, SetReplaceFails, SetInsert, SetInsertFails, GetNull, GetExpired,
        GetMiss, DeleteFound, DeleteMiss, SweepFound, SweepBucketDone, Unlink, cachevars
  <2>2. CASE SetReplace(t)
    <3>1. resized' \in BOOLEAN
      BY <2>2, Zenon DEF SetReplace
    <3> QED  BY <2>2, <3>1 DEF Tallies, SetReplace
  <2>3. CASE AddItems(t) \/ SubItems(t)
    BY <2>3 DEF Tallies, AddItems, SubItems
  <2>4. CASE AddMemory(t) \/ SubMemory(t)
    <3>1. pc[t] \in Working
      BY <2>4 DEF AddMemory, SubMemory, Working
    <3>2. call[t].data_size \in Int /\ total_memory \in Int
      BY <3>1, Acting, DataAssumption DEF Calls, Tallies
    <3>3. total_memory + call[t].data_size \in Int /\ total_memory - call[t].data_size \in Int
      BY <3>2
    <3>4. total_memory' \in 0 .. SIZE_RANGE - 1
      BY <2>4, <3>3, ModRange DEF AddMemory, SubMemory
    <3> QED  BY <2>4, <3>4 DEF Tallies, AddMemory, SubMemory, Freed
  <2>5. CASE GetHit(t)
    <3>1. Item(t).data \in Values \cup {None}
      <4>1. Item(t) \in Items
        BY <2>5, Acting DEF GetHit, Found, Working
      <4> QED  BY <4>1 DEF Items
    <3>2. result' \in [Threads -> Values \cup {None}]
      BY <2>5, <3>1 DEF GetHit, Tallies
    <3> QED  BY <2>5, <3>2 DEF Tallies, GetHit, cachevars
  <2> QED  BY <1>2, <2>1, <2>2, <2>3, <2>4, <2>5 DEF Proceed
<1>3. CASE Tick \/ UNCHANGED vars
  BY <1>3 DEF Tallies, Tick, vars, cachevars
<1> QED  BY <1>1, <1>2, <1>3 DEF Next, Terminated

(* Every variable of the cache and every local of an operation has its     *)
(* type; in particular total_memory wraps within size_t.                   *)
THEOREM TypeCorrect == Spec => []TypeOK
<1>1. Init => Tallies
  <2>1. Init => resized \in BOOLEAN
    BY Zenon DEF Init
  <2> QED  BY <2>1, DataAssumption DEF Init, Tallies
<1>2. CacheInv /\ Tallies => TypeOK
  BY DEF CacheInv, Types, Tallies, TypeOK, Places
<1> QED  BY <1>1, <1>2, TalliesNext, CacheInvariance, PTL DEF Spec

(* A bucket's mutex is only held by a thread at work in that bucket.       *)
THEOREM LocksReleased == Spec => []NoLockKept
<1>1. CacheInv => NoLockKept
  BY DEF CacheInv, Locking, NoLockKept, Working
<1> QED  BY <1>1, CacheInvariance, PTL

(* A key that is not cut has at most one item in the whole cache.          *)
THEOREM OneItemPerKey == Spec => []UniqueKeys
<1>1. CacheInv => UniqueKeys
  BY DEF CacheInv, InPlace, UniqueKeys
<1> QED  BY <1>1, CacheInvariance, PTL

LEMMA OnlySweep ==
    ASSUME CacheInv, [Next]_vars, NEW t \in Threads, Found(t, "cleanup"), pc'[t] = "sub_items"
    PROVE  SweepFound(t)
<1>1. pc \in [Threads -> Places] /\ pc[t] = "act" /\ call[t].op = "cleanup" /\ call[t].at > 0
  BY DEF CacheInv, Types, Found
<1>2. ASSUME NEW u \in Threads, Start(u) \/ Lock(u) PROVE FALSE
  BY <1>1, <1>2 DEF Start, Set, Get, Delete, Cleanup, Begin, Lock
<1>3. ASSUME NEW u \in Threads, Proceed(u) PROVE SweepFound(t)
  <2>1. CASE u # t
    BY <1>1, <1>3, <2>1
    DEF Proceed, Search, SetReplace, SetReplaceFails, SetInsert, SetInsertFails, AddItems,
        AddMemory, GetHit, GetNull, GetExpired, GetMiss, DeleteFound, DeleteMiss, SweepFound,
        SweepBucketDone, SubItems, SubMemory, Freed, Unlink, Return
  <2>2. CASE u = t
    <3>1. Proceed(t) /\ pc'[t] # "act"
      BY <1>3, <2>2
    <3>2. ~Search(t)
      BY <1>1, <3>1 DEF Search
    <3>3. /\ ~SetReplace(t) /\ ~SetReplaceFails(t) /\ ~SetInsert(t) /\ ~SetInsertFails(t)
          /\ ~AddItems(t) /\ ~AddMemory(t) /\ ~SubItems(t) /\ ~SubMemory(t)
      BY <1>1 DEF SetReplace, SetReplaceFails, SetInsert, SetInsertFails, AddItems, AddMemory,
                  SubItems, SubMemory, Found, NotFound
    <3>4. /\ ~GetHit(t) /\ ~GetNull(t) /\ ~GetExpired(t) /\ ~GetMiss(t)
          /\ ~DeleteFound(t) /\ ~DeleteMiss(t) /\ ~SweepBucketDone(t)
      BY <1>1 DEF GetHit, GetNull, GetExpired, GetMiss, DeleteFound, DeleteMiss,
                  SweepBucketDone, Found, NotFound
    <3> QED  BY <3>1, <3>2, <3>3, <3>4 DEF Proceed
  <2> QED  BY <2>1, <2>2
<1>4. ~Tick /\ ~UNCHANGED vars
  BY <1>1 DEF Tick, vars
<1> QED  BY <1>2, <1>3, <1>4 DEF Next, Terminated

(* A sweep, however long after it read the clock, removes no live item:    *)
(* what was expired then is expired now, and nobody else can have changed  *)
(* the item it found.                                                      *)
THEOREM SweepSpares == Spec => SweepSparesLive
<1>1. ASSUME CacheInv, [Next]_vars, NEW t \in Threads,
             Found(t, "cleanup"), pc'[t] = "sub_items",
             NEW i \in 1 .. Len(Chain(t)), ~Expired(Chain(t)[i], now)
      PROVE  \E h \in 1 .. Len(Chain(t)') : (Chain(t)')[h] = Chain(t)[i]
  <2> DEFINE at == call[t].at
             s == buckets[call[t].bucket]
  <2>1. SweepFound(t)
    BY <1>1, OnlySweep
  <2>2. /\ pc[t] = "act" /\ call[t].op = "cleanup" /\ call[t] \in Calls
        /\ call[t].bucket \in Buckets /\ Chain(t) = s /\ s \in Seq(Items) /\ at \in 1 .. Len(s)
        /\ call[t].since <= now /\ now \in 0 .. MaxTime
    BY <1>1, Acting DEF Found, Working, CallOK, CacheInv, Types
  <2>3. Expired(s[at], call[t].since)
    BY <1>1, <2>2 DEF CacheInv, Position, Wanted, Chain
  <2>4. i # at
    <3> s[at] \in Items
      BY <2>2
    <3>1. s[at].timestamp \in Int
      BY BoundsAssumption DEF Items
    <3>2. call[t].since \in Int /\ now \in Int
      BY <2>2, BoundsAssumption DEF Calls
    <3>3. /\ call[t].since - s[at].timestamp > CACHE_TIMEOUT
          /\ CACHE_TIMEOUT \in Int /\ call[t].since <= now
      BY <2>2, <2>3, BoundsAssumption DEF Expired
    <3>4. ASSUME NEW x \in Int, NEW y \in Int, NEW z \in Int, y <= z, y - x > CACHE_TIMEOUT
          PROVE  z - x > CACHE_TIMEOUT
      BY <3>3, <3>4
    <3>5. now - s[at].timestamp > CACHE_TIMEOUT
      BY <3>1, <3>2, <3>3, <3>4
    <3>6. Expired(s[at], now)
      BY <3>5 DEF Expired
    <3>7. ~Expired(s[i], now)
      BY <1>1, <2>2
    <3> QED  BY <3>6, <3>7
  <2>5. Chain(t)' = RemoveAt(s, at)
    <3>1. call'[t].bucket = call[t].bucket
      BY <2>1, <2>2, <1>1 DEF SweepFound, Unlink, CacheInv, Types, Calls
    <3>2. buckets'[call[t].bucket] = RemoveAt(s, at)
      BY <1>1, <2>1, <2>2 DEF SweepFound, Unlink, CacheInv, Types
    <3> QED  BY <3>1, <3>2 DEF Chain
  <2>6. /\ Len(RemoveAt(s, at)) = Len(s) - 1
        /\ \A h \in 1 .. Len(s) - 1 : RemoveAt(s, at)[h] = IF h < at THEN s[h] ELSE s[h + 1]
    BY <2>2, RemoveAtProperties
  <2> DEFINE h == IF i < at THEN i ELSE i - 1
  <2>7. h \in 1 .. Len(s) - 1 /\ s[i] = IF h < at THEN s[h] ELSE s[h + 1]
    BY <2>2, <2>4
  <2> QED  BY <2>2, <2>5, <2>6, <2>7
<1>2. CacheInv /\ [Next]_vars =>
        [\A t \in Threads : Found(t, "cleanup") /\ pc'[t] = "sub_items" =>
            \A i \in 1 .. Len(Chain(t)) : ~Expired(Chain(t)[i], now) =>
                \E h \in 1 .. Len(Chain(t)') : (Chain(t)')[h] = Chain(t)[i]]_vars
  BY <1>1
<1> QED  BY <1>2, CacheInvariance, PTL DEF Spec, SweepSparesLive

-----------------------------------------------------------------------------
(* The cache implements a map whose entries may vanish.                    *)

(* The data that the chains B keep under a key.                            *)
Under(B, k) ==
    {B[Hash[k]][i].data : i \in {h \in 1 .. Len(B[Hash[k]]) : B[Hash[k]][h].key = k}}
DataIn(B, k) == IF Under(B, k) = {} THEN None ELSE CHOOSE d \in Under(B, k) : TRUE

(* Chains in which a key has its item in its own bucket and once.          *)
Tidy(B) ==
    /\ B \in [Buckets -> Seq(Items)]
    /\ \A b \in Buckets : \A i, h \in 1 .. Len(B[b]) : B[b][i].key = B[b][h].key => i = h

(* The refinement mapping, as Map substitutes it.                          *)
Store == [k \in Keys |-> DataIn(buckets, k)]
Asked == [t \in Threads |-> call[t].key]
Given == [t \in Threads |-> call[t].data]

LEMMA DataFound ==
    ASSUME NEW B, Tidy(B), NEW k \in Keys, NEW i \in 1 .. Len(B[Hash[k]]),
           B[Hash[k]][i].key = k
    PROVE  DataIn(B, k) = B[Hash[k]][i].data
<1>1. Hash[k] \in Buckets
  BY BucketsAssumption
<1>2. \A h \in 1 .. Len(B[Hash[k]]) : B[Hash[k]][h].key = k => h = i
  BY <1>1 DEF Tidy
<1>3. Under(B, k) = {B[Hash[k]][i].data}
  BY <1>2 DEF Under
<1> QED  BY <1>3 DEF DataIn

LEMMA DataMissing ==
    ASSUME NEW B, NEW k \in Keys, \A i \in 1 .. Len(B[Hash[k]]) : B[Hash[k]][i].key # k
    PROVE  DataIn(B, k) = None
  BY DEF DataIn, Under

(* Every item of key k in chain r is in chain s too.                       *)
Covers(s, r, k) ==
    \A i \in 1 .. Len(r) : r[i].key = k => \E h \in 1 .. Len(s) : s[h] = r[i]

(* Keys whose items are the same in two states of the chains.              *)
LEMMA DataSame ==
    ASSUME NEW B, NEW C, Tidy(B), Tidy(C), NEW k \in Keys,
           Covers(C[Hash[k]], B[Hash[k]], k), Covers(B[Hash[k]], C[Hash[k]], k)
    PROVE  DataIn(C, k) = DataIn(B, k)
<1> /\ \A i \in 1 .. Len(B[Hash[k]]) : B[Hash[k]][i].key = k =>
          \E h \in 1 .. Len(C[Hash[k]]) : C[Hash[k]][h] = B[Hash[k]][i]
    /\ \A h \in 1 .. Len(C[Hash[k]]) : C[Hash[k]][h].key = k =>
          \E i \in 1 .. Len(B[Hash[k]]) : B[Hash[k]][i] = C[Hash[k]][h]
  BY DEF Covers
<1>1. CASE \E i \in 1 .. Len(B[Hash[k]]) : B[Hash[k]][i].key = k
  <2>1. PICK i \in 1 .. Len(B[Hash[k]]) : B[Hash[k]][i].key = k
    BY <1>1
  <2>2. PICK h \in 1 .. Len(C[Hash[k]]) : C[Hash[k]][h] = B[Hash[k]][i]
    BY <2>1
  <2> QED  BY <2>1, <2>2, DataFound
<1>2. CASE \A i \in 1 .. Len(B[Hash[k]]) : B[Hash[k]][i].key # k
  BY <1>2, DataMissing
<1> QED  BY <1>1, <1>2

LEMMA Tidiness == ShortKeys => (CacheInv => Tidy(buckets)) /\ (CacheInv' => Tidy(buckets'))
  BY DEF CacheInv, Types, InPlace, Tidy, ShortKeys

(* The mapping of a change of a thread's locals.                           *)
LEMMA CallMap ==
    ASSUME call \in [Threads -> Calls], NEW t \in Threads, NEW c \in Calls,
           call' = [call EXCEPT ![t] = c]
    PROVE  /\ Asked' = [Asked EXCEPT ![t] = c.key] /\ Given' = [Given EXCEPT ![t] = c.data]
           /\ c.key = call[t].key /\ c.data = call[t].data => Asked' = Asked /\ Given' = Given
  BY DEF Asked, Given

LEMMA VanishStep ==
    ASSUME NEW t \in Threads,
           Store' = Store \/ \E k \in Keys : Store' = [Store EXCEPT ![k] = None],
           result' \in {result, [result EXCEPT ![t] = None]},
           \/ Asked' = Asked /\ Given' = Given
           \/ Asked' = [Asked EXCEPT ![t] = None] /\ Given' = [Given EXCEPT ![t] = None]
    PROVE  Map!MapNext
<1>1. Map!Vanish(t)
  BY DEF Map!Vanish, Map!Ends, Store, Asked, Given, DataIn, Under, StoredUnder
<1> QED  BY <1>1 DEF Map!MapNext

LEMMA PutStep ==
    ASSUME NEW t \in Threads, Asked[t] # None, Given[t] # None,
           Store' = [Store EXCEPT ![Asked[t]] = Given[t]], result' = result,
           \/ Asked' = Asked /\ Given' = Given
           \/ Asked' = [Asked EXCEPT ![t] = None] /\ Given' = [Given EXCEPT ![t] = None]
    PROVE  Map!MapNext
<1>1. Map!Put(t)
  BY DEF Map!Put, Map!Ends, Store, Asked, Given, DataIn, Under, StoredUnder
<1> QED  BY <1>1 DEF Map!MapNext

LEMMA AnswerStep ==
    ASSUME NEW t \in Threads, Asked[t] # None, Given[t] = None,
           result' = [result EXCEPT ![t] = Store[Asked[t]]], Store' = Store,
           Asked' = [Asked EXCEPT ![t] = None] /\ Given' = [Given EXCEPT ![t] = None]
    PROVE  Map!MapNext
<1>1. Map!Answer(t)
  BY DEF Map!Answer, Map!Ends, Store, Asked, Given, DataIn, Under, StoredUnder
<1> QED  BY <1>1 DEF Map!MapNext

LEMMA AskStep ==
    ASSUME NEW t \in Threads, Asked[t] = None, NEW k \in Keys, NEW d \in Values \cup {None},
           Asked' = [Asked EXCEPT ![t] = k], Given' = [Given EXCEPT ![t] = d],
           result' = [result EXCEPT ![t] = None], Store' = Store
    PROVE  Map!MapNext
<1>1. Map!Ask(t)
  BY DEF Map!Ask, Store, Asked, Given, DataIn, Under, StoredUnder
<1> QED  BY <1>1 DEF Map!MapNext

LEMMA StutterStep ==
    ASSUME Store' = Store, Asked' = Asked, Given' = Given, result' = result
    PROVE  UNCHANGED Map!mapvars
  BY DEF Map!mapvars, Store, Asked, Given, DataIn, Under, StoredUnder

LEMMA ReturnMap ==
    ASSUME CacheInv, NEW t \in Threads, Return(t)
    PROVE  Asked' = [Asked EXCEPT ![t] = None] /\ Given' = [Given EXCEPT ![t] = None]
<1>1. call \in [Threads -> Calls] /\ call' = [call EXCEPT ![t] = NoCall]
  BY DEF CacheInv, Types, Return
<1> QED  BY <1>1, NoCallType, CallMap

(* An operation that ends and leaves the chains and the result alone.      *)
LEMMA QuietReturnMap ==
    ASSUME CacheInv, NEW t \in Threads, Return(t), UNCHANGED <<buckets, result>>
    PROVE  Map!MapNext
<1>1. Store' = Store
  BY DEF Store
<1> QED  BY <1>1, ReturnMap, VanishStep

LEMMA StartMap == ASSUME CacheInv, NEW t \in Threads, Start(t) PROVE Map!MapNext
<1>1. ASSUME NEW c \in Calls, Begin(t, c)
      PROVE  /\ Asked[t] = None /\ Store' = Store /\ result' = [result EXCEPT ![t] = None]
             /\ Asked' = [Asked EXCEPT ![t] = c.key] /\ Given' = [Given EXCEPT ![t] = c.data]
  <2>1. call[t] = NoCall /\ call \in [Threads -> Calls]
    BY <1>1 DEF Begin, CacheInv, Operation, CallOK, Types
  <2>2. Asked[t] = None
    BY <2>1, NoCallType DEF Asked
  <2>3. Store' = Store
    BY <1>1 DEF Begin, cachevars, Store
  <2> QED  BY <1>1, <2>1, <2>2, <2>3, CallMap DEF Begin
<1>2. CASE Set(t)
  <2>1. PICK k \in Keys, v \in Values :
          Begin(t, [NoCall EXCEPT !.op = "set", !.key = k, !.data = v, !.bucket = Hash[k]])
    BY <1>2 DEF Set
  <2>2. PICK c : c = [NoCall EXCEPT !.op = "set", !.key = k, !.data = v, !.bucket = Hash[k]]
    OBVIOUS
  <2>3. c \in Calls /\ c.key = k /\ c.data = v /\ Begin(t, c)
    BY <2>1, <2>2, NoCallType, BucketsAssumption DEF Calls, NoCall
  <2>4. /\ Asked[t] = None /\ Store' = Store /\ result' = [result EXCEPT ![t] = None]
        /\ Asked' = [Asked EXCEPT ![t] = k] /\ Given' = [Given EXCEPT ![t] = v]
    BY <1>1, <2>3
  <2> QED  BY <2>4, AskStep
<1>3. CASE Get(t)
  <2>1. PICK k \in Keys : Begin(t, [NoCall EXCEPT !.op = "get", !.key = k, !.bucket = Hash[k]])
    BY <1>3 DEF Get
  <2>2. PICK c : c = [NoCall EXCEPT !.op = "get", !.key = k, !.bucket = Hash[k]]
    OBVIOUS
  <2>3. c \in Calls /\ c.key = k /\ c.data = None /\ Begin(t, c)
    BY <2>1, <2>2, NoCallType, BucketsAssumption DEF Calls, NoCall
  <2>4. /\ Asked[t] = None /\ Store' = Store /\ result' = [result EXCEPT ![t] = None]
        /\ Asked' = [Asked EXCEPT ![t] = k] /\ Given' = [Given EXCEPT ![t] = None]
    BY <1>1, <2>3
  <2> QED  BY <2>4, AskStep
<1>4. CASE Delete(t)
  <2>1. PICK k \in Keys : Begin(t, [NoCall EXCEPT !.op = "delete", !.key = k, !.bucket = Hash[k]])
    BY <1>4 DEF Delete
  <2>2. PICK c : c = [NoCall EXCEPT !.op = "delete", !.key = k, !.bucket = Hash[k]]
    OBVIOUS
  <2>3. c \in Calls /\ c.key = k /\ c.data = None /\ Begin(t, c)
    BY <2>1, <2>2, NoCallType, BucketsAssumption DEF Calls, NoCall
  <2>4. /\ Asked[t] = None /\ Store' = Store /\ result' = [result EXCEPT ![t] = None]
        /\ Asked' = [Asked EXCEPT ![t] = k] /\ Given' = [Given EXCEPT ![t] = None]
    BY <1>1, <2>3
  <2> QED  BY <2>4, AskStep
<1>5. CASE Cleanup(t)
  <2> DEFINE c == [NoCall EXCEPT !.op = "cleanup", !.since = now]
  <2>1. now \in 0 .. MaxTime
    BY DEF CacheInv, Types
  <2>2. c \in Calls /\ c.key = None /\ c.data = None
    BY <2>1, NoCallType DEF Calls, NoCall
  <2>3. Begin(t, c)
    BY <1>5 DEF Cleanup
  <2> HIDE DEF c
  <2> QED  BY <1>1, <2>2, <2>3, VanishStep
<1> QED  BY <1>2, <1>3, <1>4, <1>5 DEF Start

(* cache_set on an existing item stores its data under its key, or NULL.   *)
LEMMA ChangeStore ==
    ASSUME CacheInv, CacheInv', ShortKeys, NEW t \in Threads, pc[t] = "act",
           call[t].op = "set", call[t].at > 0,
           NEW item \in Items, item.key = Item(t).key,
           buckets' = [buckets EXCEPT ![call[t].bucket] = [@ EXCEPT ![call[t].at] = item]]
    PROVE  Store' = [Store EXCEPT ![call[t].key] = item.data] /\ call[t].key \in Keys
<1> DEFINE b == call[t].bucket
           k == call[t].key
           at == call[t].at
<1>1. /\ b \in Buckets /\ at \in 1 .. Len(buckets[b]) /\ buckets[b] \in Seq(Items)
      /\ Item(t) = buckets[b][at] /\ k \in Keys /\ b = Hash[k]
      /\ buckets \in [Buckets -> Seq(Items)] /\ Tidy(buckets) /\ Tidy(buckets')
  BY Acting, Tidiness DEF Working, Item, CallOK, CacheInv, Types
<1>2. Item(t).key = k
  BY DEF CacheInv, Position, Wanted, Item
<1>3. PICK C, s : C = buckets' /\ s = [buckets[b] EXCEPT ![at] = item]
  OBVIOUS
<1>4. /\ \A d \in Buckets : C[d] = IF d = b THEN s ELSE buckets[d]
      /\ Len(s) = Len(buckets[b]) /\ s[at] = item
      /\ \A i \in 1 .. Len(buckets[b]) : i # at => s[i] = buckets[b][i]
  <2>1. C = [buckets EXCEPT ![b] = s]
    BY <1>3
  <2>2. /\ Len(s) = Len(buckets[b]) /\ s[at] = item
        /\ \A i \in 1 .. Len(buckets[b]) : i # at => s[i] = buckets[b][i]
    <3> HIDE DEF b, at
    <3> QED  BY <1>1, <1>3, ChangeAt
  <2> QED  BY <1>1, <2>1, <2>2
<1> HIDE DEF b, k, at
<1>5. DataIn(C, k) = item.data
  <2>1. Tidy(C) /\ C[Hash[k]] = s /\ at \in 1 .. Len(s) /\ s[at].key = k
    BY <1>1, <1>2, <1>3, <1>4
  <2> QED  BY <1>1, <1>4, <2>1, DataFound
<1>6. ASSUME NEW j \in Keys, j # k PROVE DataIn(C, j) = DataIn(buckets, j)
  <2>1. Hash[j] \in Buckets
    BY BucketsAssumption
  <2>2. CASE Hash[j] # b
    <3>1. C[Hash[j]] = buckets[Hash[j]] /\ Tidy(buckets) /\ Tidy(C)
      BY <1>1, <1>3, <1>4, <2>1, <2>2
    <3>2. Covers(buckets[Hash[j]], buckets[Hash[j]], j)
      BY DEF Covers
    <3> QED  BY <3>1, <3>2, DataSame
  <2>3. CASE Hash[j] = b
    <3>1. \A i \in 1 .. Len(buckets[b]) : buckets[b][i].key = j \/ s[i].key = j =>
             s[i] = buckets[b][i]
      BY <1>1, <1>2, <1>4, <1>6
    <3>2. Tidy(buckets) /\ Tidy(C) /\ C[Hash[j]] = s /\ buckets[Hash[j]] = buckets[b]
      BY <1>1, <1>3, <1>4, <2>3
    <3>3. Covers(s, buckets[b], j) /\ Covers(buckets[b], s, j)
      BY <1>4, <3>1 DEF Covers
    <3> QED  BY <3>2, <3>3, DataSame
  <2> QED  BY <2>2, <2>3
<1>7. Store' = [j \in Keys |-> DataIn(C, j)]
  BY <1>3 DEF Store
<1> QED  BY <1>1, <1>5, <1>6, <1>7 DEF Store, k

LEMMA SetReplaceMap ==
    ASSUME CacheInv, CacheInv', ShortKeys, NEW t \in Threads, SetReplace(t) PROVE Map!MapNext
<1> DEFINE item == [Item(t) EXCEPT !.data = call[t].data, !.data_size = Size[call[t].data],
                                   !.timestamp = now]
<1>1. /\ pc[t] = "act" /\ call[t].at > 0 /\ call[t].op = "set" /\ Return(t)
      /\ result' = result
  BY DEF SetReplace, Found
<1>2. Item(t) \in Items /\ call[t].data \in Values /\ now \in 0 .. MaxTime
  BY <1>1, Acting DEF Working, CallOK, CacheInv, Types
<1>3. Size[call[t].data] \in 1 .. SIZE_RANGE - 1
  BY <1>2, DataAssumption
<1>4. item \in Items /\ item.key = Item(t).key /\ item.data = call[t].data
  BY <1>2, <1>3 DEF Items
<1>5. buckets' = [buckets EXCEPT ![call[t].bucket] = [@ EXCEPT ![call[t].at] = item]]
  BY <1>1, Acting DEF SetReplace, Item, Chain, Working
<1> HIDE DEF item
<1>6. Store' = [Store EXCEPT ![call[t].key] = call[t].data] /\ call[t].key \in Keys
  BY <1>1, <1>4, <1>5, ChangeStore
<1>7. /\ Asked[t] = call[t].key /\ Asked[t] # None
      /\ Given[t] = call[t].data /\ Given[t] # None
  BY <1>2, <1>6, DataAssumption DEF Asked, Given
<1> QED  BY <1>1, <1>6, <1>7, ReturnMap, PutStep

LEMMA SetReplaceFailsMap ==
    ASSUME CacheInv, CacheInv', ShortKeys, NEW t \in Threads, SetReplaceFails(t)
    PROVE  Map!MapNext
<1> DEFINE item == [Item(t) EXCEPT !.data = None]
<1>1. /\ pc[t] = "act" /\ call[t].at > 0 /\ call[t].op = "set" /\ Return(t)
      /\ result' = result
  BY DEF SetReplaceFails, Found
<1>2. Item(t) \in Items
  BY <1>1, Acting DEF Working
<1>3. item \in Items /\ item.key = Item(t).key /\ item.data = None
  BY <1>2 DEF Items
<1>4. buckets' = [buckets EXCEPT ![call[t].bucket] = [@ EXCEPT ![call[t].at] = item]]
  BY <1>1, Acting DEF SetReplaceFails, Item, Chain, Working
<1> HIDE DEF item
<1>5. Store' = [Store EXCEPT ![call[t].key] = None] /\ call[t].key \in Keys
  BY <1>1, <1>3, <1>4, ChangeStore
<1> QED  BY <1>1, <1>5, ReturnMap, VanishStep

LEMMA SetInsertMap ==
    ASSUME CacheInv, CacheInv', ShortKeys, NEW t \in Threads, SetInsert(t) PROVE Map!MapNext
<1> DEFINE b == call[t].bucket
           k == call[t].key
           c == [call[t] EXCEPT !.data_size = Size[call[t].data]]
<1>1. /\ pc[t] = "act" /\ call[t].at = 0 /\ call[t].op = "set" /\ pc[t] \in Working
      /\ result' = result /\ call' = [call EXCEPT ![t] = c]
  BY DEF SetInsert, NotFound, Working
<1>2. /\ call[t] \in Calls /\ b \in Buckets /\ buckets[b] \in Seq(Items)
      /\ k \in Keys /\ b = Hash[k] /\ call[t].data \in Values
      /\ buckets \in [Buckets -> Seq(Items)] /\ call \in [Threads -> Calls]
      /\ Tidy(buckets) /\ Tidy(buckets')
  BY <1>1, Acting, Tidiness DEF CallOK, CacheInv, Types
<1>3. Size[call[t].data] \in 0 .. SIZE_RANGE - 1
  BY <1>2, DataAssumption
<1>4. c \in Calls /\ c.key = k /\ c.data = call[t].data
  BY <1>2, <1>3 DEF Calls
<1> HIDE DEF c
<1>5. Asked' = Asked /\ Given' = Given
  BY <1>1, <1>2, <1>4, CallMap
<1>6. PICK item : item = [key |-> Stored[k], data |-> call[t].data,
                          data_size |-> Size[call[t].data], timestamp |-> now]
  OBVIOUS
<1>7. item.key = k /\ item.data = call[t].data
  BY <1>2, <1>6 DEF ShortKeys
<1>8. PICK C, s : C = buckets' /\ s = <<item>> \o buckets[b]
  OBVIOUS
<1>9. C = [buckets EXCEPT ![b] = s]
  BY <1>6, <1>8 DEF SetInsert
<1>10. /\ Len(s) = Len(buckets[b]) + 1 /\ s[1] = item
       /\ \A i \in 2 .. Len(s) : s[i] = buckets[b][i - 1]
  BY <1>2, <1>8
<1> HIDE DEF b, k
<1>11. \A d \in Buckets : C[d] = IF d = b THEN s ELSE buckets[d]
  BY <1>2, <1>9
<1>12. Len(buckets[b]) \in Nat
  BY <1>2
<1>13. DataIn(C, k) = call[t].data
  <2>1. Tidy(C) /\ C[Hash[k]] = s
    BY <1>2, <1>8, <1>11
  <2>2. 1 \in 1 .. Len(s)
    BY <1>10, <1>12
  <2>3. s[1].key = k
    BY <1>7, <1>10
  <2> QED  BY <1>2, <1>7, <1>10, <2>1, <2>2, <2>3, DataFound
<1>14. ASSUME NEW j \in Keys, j # k PROVE DataIn(C, j) = DataIn(buckets, j)
  <2>1. Hash[j] \in Buckets
    BY BucketsAssumption
  <2>2. CASE Hash[j] # b
    <3>1. C[Hash[j]] = buckets[Hash[j]] /\ Tidy(buckets) /\ Tidy(C)
      BY <1>2, <1>8, <1>11, <2>1, <2>2
    <3>2. Covers(buckets[Hash[j]], buckets[Hash[j]], j)
      BY DEF Covers
    <3> QED  BY <3>1, <3>2, DataSame
  <2>3. CASE Hash[j] = b
    <3>1. Tidy(buckets) /\ Tidy(C) /\ C[Hash[j]] = s /\ buckets[Hash[j]] = buckets[b]
      BY <1>2, <1>8, <1>11, <2>3
    <3>2. ASSUME NEW i \in 1 .. Len(buckets[b])
          PROVE  \E h \in 1 .. Len(s) : s[h] = buckets[b][i]
      <4>1. i + 1 \in 2 .. Len(s) /\ i + 1 \in 1 .. Len(s) /\ (i + 1) - 1 = i
        BY <1>10, <1>12
      <4> QED  BY <1>10, <4>1
    <3>3. ASSUME NEW h \in 1 .. Len(s), s[h].key = j
          PROVE  \E i \in 1 .. Len(buckets[b]) : buckets[b][i] = s[h]
      <4>1. h # 1
        BY <1>7, <1>10, <1>14, <3>3
      <4>2. h \in 2 .. Len(s) /\ h - 1 \in 1 .. Len(buckets[b])
        BY <1>10, <1>12, <4>1
      <4> QED  BY <1>10, <4>2
    <3>4. Covers(s, buckets[b], j)
      BY <3>2 DEF Covers
    <3>5. Covers(buckets[b], s, j)
      BY <3>3 DEF Covers
    <3> QED  BY <3>1, <3>4, <3>5, DataSame
  <2> QED  BY <2>2, <2>3
<1>15. Store' = [j \in Keys |-> DataIn(C, j)]
  BY <1>8 DEF Store
<1>16. Store' = [Store EXCEPT ![k] = call[t].data]
  BY <1>2, <1>13, <1>14, <1>15 DEF Store
<1>17. Asked[t] = k /\ Given[t] = call[t].data /\ k # None /\ call[t].data # None
  BY <1>2, DataAssumption DEF Asked, Given, k
<1> QED  BY <1>1, <1>5, <1>16, <1>17, PutStep

LEMMA UnlinkMap ==
    ASSUME CacheInv, CacheInv', ShortKeys, NEW t \in Threads, pc[t] = "act", call[t].at > 0,
           Unlink(t)
    PROVE  Map!MapNext
<1> DEFINE b == call[t].bucket
           at == call[t].at
           k == Item(t).key
           c == [call[t] EXCEPT !.data_size = Item(t).data_size]
<1>1. /\ call[t] \in Calls /\ b \in Buckets /\ buckets[b] \in Seq(Items)
      /\ at \in 1 .. Len(buckets[b]) /\ Item(t) = buckets[b][at] /\ Item(t) \in Items
      /\ buckets \in [Buckets -> Seq(Items)] /\ call \in [Threads -> Calls]
      /\ Tidy(buckets) /\ Tidy(buckets') /\ result' = result /\ call' = [call EXCEPT ![t] = c]
  BY Acting, Tidiness DEF Working, CacheInv, Types, Item, Unlink
<1>2. c \in Calls /\ c.key = call[t].key /\ c.data = call[t].data
  <2>1. Item(t).data_size \in 0 .. SIZE_RANGE - 1
    BY <1>1 DEF Items
  <2> QED  BY <1>1, <2>1 DEF Calls
<1> HIDE DEF c
<1>3. Asked' = Asked /\ Given' = Given
  BY <1>1, <1>2, CallMap
<1>4. k \in Keys /\ b = Hash[k]
  BY <1>1 DEF Items, CacheInv, InPlace
<1>5. PICK n : n = Len(buckets[b]) /\ n \in Nat
  BY <1>1
<1>6. PICK C, s : C = buckets' /\ s = RemoveAt(buckets[b], at)
  OBVIOUS
<1>7. C = [buckets EXCEPT ![b] = s]
  BY <1>6 DEF Unlink
<1> HIDE DEF b, at, k
<1>8. /\ Len(s) = n - 1
      /\ \A h \in 1 .. n - 1 : s[h] = IF h < at THEN buckets[b][h] ELSE buckets[b][h + 1]
  BY <1>1, <1>5, <1>6, RemoveAtProperties
<1>9. \A d \in Buckets : C[d] = IF d = b THEN s ELSE buckets[d]
  BY <1>1, <1>7
<1>10. \A i \in 1 .. n : buckets[b][i].key = k => i = at
  <2>1. \A i, h \in 1 .. Len(buckets[b]) : buckets[b][i].key = buckets[b][h].key => i = h
    BY <1>1 DEF Tidy
  <2> QED  BY <1>1, <1>5, <2>1 DEF k
<1>11. ASSUME NEW h \in 1 .. Len(s)
       PROVE  \E i \in 1 .. n : buckets[b][i] = s[h] /\ i # at
  <2>1. CASE h < at
    <3>1. h \in 1 .. n /\ h # at /\ h \in 1 .. n - 1
      BY <1>1, <1>5, <1>8, <2>1
    <3> QED  BY <1>8, <2>1, <3>1
  <2>2. CASE ~(h < at)
    <3>1. h + 1 \in 1 .. n /\ h + 1 # at /\ h \in 1 .. n - 1
      BY <1>1, <1>5, <1>8, <2>2
    <3> QED  BY <1>8, <2>2, <3>1
  <2> QED  BY <2>1, <2>2
<1>12. ASSUME NEW i \in 1 .. n, i # at
       PROVE  \E h \in 1 .. Len(s) : s[h] = buckets[b][i]
  <2>1. CASE i < at
    <3>1. i \in 1 .. n - 1
      BY <1>1, <1>5, <2>1
    <3> QED  BY <1>8, <2>1, <3>1
  <2>2. CASE ~(i < at)
    <3>1. i - 1 \in 1 .. n - 1 /\ ~(i - 1 < at) /\ (i - 1) + 1 = i
      BY <1>1, <1>5, <1>12, <2>2
    <3> QED  BY <1>8, <3>1
  <2> QED  BY <2>1, <2>2
<1>13. DataIn(C, k) = None
  <2>1. C[Hash[k]] = s
    BY <1>1, <1>4, <1>9
  <2>2. \A h \in 1 .. Len(s) : s[h].key # k
    BY <1>10, <1>11
  <2> QED  BY <1>4, <2>1, <2>2, DataMissing
<1>14. ASSUME NEW j \in Keys, j # k PROVE DataIn(C, j) = DataIn(buckets, j)
  <2>1. Hash[j] \in Buckets
    BY BucketsAssumption
  <2>2. CASE Hash[j] # b
    <3>1. C[Hash[j]] = buckets[Hash[j]] /\ Tidy(buckets) /\ Tidy(C)
      BY <1>1, <1>6, <1>9, <2>1, <2>2
    <3>2. Covers(buckets[Hash[j]], buckets[Hash[j]], j)
      BY DEF Covers
    <3> QED  BY <3>1, <3>2, DataSame
  <2>3. CASE Hash[j] = b
    <3>1. Tidy(buckets) /\ Tidy(C) /\ C[Hash[j]] = s /\ buckets[Hash[j]] = buckets[b]
      BY <1>1, <1>6, <1>9, <2>3
    <3>2. \A i \in 1 .. n : buckets[b][i].key = j => i # at
      BY <1>1, <1>14 DEF k
    <3>3. \A i \in 1 .. n : buckets[b][i].key = j =>
             \E h \in 1 .. Len(s) : s[h] = buckets[b][i]
      BY <1>12, <3>2
    <3>4. \A h \in 1 .. Len(s) : \E i \in 1 .. n : buckets[b][i] = s[h]
      BY <1>11
    <3>5. n = Len(buckets[b])
      BY <1>5
    <3>6. Covers(s, buckets[b], j)
      BY <3>3, <3>5 DEF Covers
    <3>7. Covers(buckets[b], s, j)
      BY <3>4, <3>5 DEF Covers
    <3> QED  BY <3>1, <3>6, <3>7, DataSame
  <2> QED  BY <2>2, <2>3
<1>15. Store' = [j \in Keys |-> DataIn(C, j)]
  BY <1>6 DEF Store
<1>16. Store' = [Store EXCEPT ![k] = None]
  BY <1>4, <1>13, <1>14, <1>15 DEF Store
<1> QED  BY <1>1, <1>3, <1>4, <1>16, VanishStep

(* cache_get answers with what the map keeps under its key.                *)
LEMMA GetHitMap ==
    ASSUME CacheInv, ShortKeys, NEW t \in Threads, GetHit(t) PROVE Map!MapNext
<1> DEFINE k == call[t].key
<1>1. pc[t] = "act" /\ call[t].at > 0 /\ call[t].op = "get" /\ Return(t) /\ buckets' = buckets
  BY DEF GetHit, Found, cachevars
<1>2. /\ k \in Keys /\ call[t].bucket = Hash[k] /\ call[t].data = None
      /\ call[t].at \in 1 .. Len(buckets[Hash[k]]) /\ Item(t) = buckets[Hash[k]][call[t].at]
      /\ Tidy(buckets)
  BY <1>1, Acting, Tidiness DEF Working, CallOK, Item
<1>3. Item(t).key = k
  BY <1>1 DEF CacheInv, Position, Wanted, Item
<1>4. Store[k] = Item(t).data
  BY <1>2, <1>3, DataFound DEF Store
<1>5. Store' = Store
  BY <1>1 DEF Store
<1>6. Asked[t] = k /\ Asked[t] # None /\ Given[t] = None
  BY <1>2, DataAssumption DEF Asked, Given
<1> HIDE DEF k
<1>7. CASE result' = [result EXCEPT ![t] = Item(t).data]
  BY <1>1, <1>4, <1>5, <1>6, <1>7, ReturnMap, AnswerStep
<1>8. CASE result' = [result EXCEPT ![t] = None]
  BY <1>1, <1>5, <1>8, ReturnMap, VanishStep
<1> QED  BY <1>7, <1>8 DEF GetHit

(* Steps the map does not see: the chains stay as they are and the thread  *)
(* goes on with its key and data.                                          *)
LEMMA QuietMap ==
    ASSUME CacheInv, NEW t \in Threads,
           \/ Search(t) \/ AddItems(t) \/ SubItems(t) \/ GetNull(t) \/ GetExpired(t)
           \/ Lock(t)
           \/ SweepBucketDone(t) /\ call[t].bucket # NBuckets - 1
           \/ SubMemory(t) /\ call[t].op = "cleanup"
    PROVE  UNCHANGED Map!mapvars
<1>1. call \in [Threads -> Calls] /\ call[t] \in Calls
  BY DEF CacheInv, Types
<1>2. Store' = Store /\ result' = result
  BY DEF Store, Search, AddItems, SubItems, GetNull, GetExpired, Lock, SweepBucketDone,
         SubMemory, Freed, cachevars
<1>3. \A u \in Threads : call'[u].key = call[u].key /\ call'[u].data = call[u].data
  <2>1. CASE Search(t)
    <3>1. PICK i : call' = [call EXCEPT ![t].at = i]
      BY <2>1 DEF Search
    <3> QED  BY <1>1, <3>1 DEF Calls
  <2>2. CASE \/ AddItems(t) \/ SubItems(t) \/ GetNull(t) \/ Lock(t)
    BY <2>2 DEF AddItems, SubItems, GetNull, Lock
  <2>3. CASE \/ GetExpired(t)
             \/ SweepBucketDone(t) /\ call[t].bucket # NBuckets - 1
             \/ SubMemory(t) /\ call[t].op = "cleanup"
    BY <1>1, <2>3 DEF GetExpired, SweepBucketDone, SubMemory, Freed, Calls
  <2> QED  BY <2>1, <2>2, <2>3
<1>4. Asked' = Asked /\ Given' = Given
  BY <1>3 DEF Asked, Given
<1> QED  BY <1>2, <1>4, StutterStep

LEMMA MapStep ==
    ASSUME CacheInv, CacheInv', ShortKeys, [Next]_vars PROVE [Map!MapNext]_(Map!mapvars)
<1>1. ASSUME NEW t \in Threads, Start(t) \/ Lock(t) PROVE [Map!MapNext]_(Map!mapvars)
  BY <1>1, StartMap, QuietMap
<1>2. ASSUME NEW t \in Threads, Proceed(t) PROVE [Map!MapNext]_(Map!mapvars)
  <2>1. CASE Search(t) \/ AddItems(t) \/ SubItems(t) \/ GetNull(t) \/ GetExpired(t)
    BY <2>1, QuietMap
  <2>2. CASE SetReplace(t) \/ SetReplaceFails(t) \/ SetInsert(t) \/ GetHit(t)
    BY <2>2, SetReplaceMap, SetReplaceFailsMap, SetInsertMap, GetHitMap
  <2>3. CASE SetInsertFails(t) \/ AddMemory(t) \/ GetMiss(t) \/ DeleteMiss(t)
    BY <2>3, QuietReturnMap DEF SetInsertFails, AddMemory, GetMiss, DeleteMiss, cachevars
  <2>4. CASE DeleteFound(t) \/ SweepFound(t)
    BY <2>4, UnlinkMap DEF DeleteFound, SweepFound, Found
  <2>5. CASE SweepBucketDone(t)
    <3>1. CASE call[t].bucket = NBuckets - 1
      BY <2>5, <3>1, QuietReturnMap DEF SweepBucketDone, cachevars
    <3> QED  BY <2>5, <3>1, QuietMap
  <2>6. CASE SubMemory(t)
    <3>1. CASE call[t].op # "cleanup"
      BY <2>6, <3>1, QuietReturnMap DEF SubMemory, Freed
    <3> QED  BY <2>6, <3>1, QuietMap
  <2> QED  BY <1>2, <2>1, <2>2, <2>3, <2>4, <2>5, <2>6 DEF Proceed
<1>3. CASE Tick \/ UNCHANGED vars
  <2>1. Store' = Store /\ Asked' = Asked /\ Given' = Given /\ result' = result
    BY <1>3 DEF Tick, vars, cachevars, Store, Asked, Given
  <2> QED  BY <2>1, StutterStep
<1> QED  BY <1>1, <1>2, <1>3 DEF Next, Terminated

LEMMA MapStart == Init => Map!MapInit
<1> SUFFICES ASSUME Init PROVE Map!MapInit
  OBVIOUS
<1>1. \A k \in Keys : StoredUnder(k) = {}
  BY BucketsAssumption DEF Init, StoredUnder
<1> QED  BY <1>1, NoCallType DEF Init, Map!MapInit

(* With keys that are not cut, the cache with all its locks, chains, sweeps *)
(* and failing allocations is a map whose entries may vanish: cache_get    *)
(* answers with the data last stored under its key or with nothing.        *)
THEOREM CacheIsMap == ShortKeys => (Spec => ImplementsMap)
<1> SUFFICES ASSUME ShortKeys PROVE Spec => ImplementsMap
  OBVIOUS
<1>1. CacheInv /\ CacheInv' /\ [Next]_vars => [Map!MapNext]_(Map!mapvars)
  BY MapStep
<1> QED  BY <1>1, MapStart, CacheInvariance, PTL DEF Spec, ImplementsMap, Map!MapSpec

-----------------------------------------------------------------------------
(* The counters.  Sums are cardinalities: of the places in the chains and  *)
(* of the bytes at them.                                                   *)

PlacesIn(bs) == UNION {{b} \X (1 .. Len(bs[b])) : b \in Buckets}
BytesIn(bs) == UNION {{p} \X (1 .. bs[p[1]][p[2]].data_size) : p \in PlacesIn(bs)}
OwedBy(ts, cs) == UNION {{t} \X (1 .. cs[t].data_size) : t \in ts}

Chains == [Buckets -> Seq(Items)]

LEMMA PlacesAre ==
    ASSUME NEW bs
    PROVE  \A p : p \in PlacesIn(bs) <=>
                     \E b \in Buckets : \E i \in 1 .. Len(bs[b]) : p = <<b, i>>
  BY DEF PlacesIn

LEMMA BytesAre ==
    ASSUME NEW bs
    PROVE  \A x : x \in BytesIn(bs) <=>
                     \E b \in Buckets : \E i \in 1 .. Len(bs[b]) :
                        \E j \in 1 .. bs[b][i].data_size : x = <<<<b, i>>, j>>
<1>1. ASSUME NEW x, x \in BytesIn(bs)
      PROVE  \E b \in Buckets : \E i \in 1 .. Len(bs[b]) :
                \E j \in 1 .. bs[b][i].data_size : x = <<<<b, i>>, j>>
  <2>1. PICK p \in PlacesIn(bs) : x \in {p} \X (1 .. bs[p[1]][p[2]].data_size)
    BY <1>1 DEF BytesIn
  <2>2. PICK b \in Buckets : \E i \in 1 .. Len(bs[b]) : p = <<b, i>>
    BY PlacesAre
  <2>3. PICK i \in 1 .. Len(bs[b]) : p = <<b, i>>
    BY <2>2
  <2>4. PICK j \in 1 .. bs[b][i].data_size : x = <<<<b, i>>, j>>
    BY <2>1, <2>3
  <2> QED  BY <2>4
<1>2. ASSUME NEW b \in Buckets, NEW i \in 1 .. Len(bs[b]), NEW j \in 1 .. bs[b][i].data_size
      PROVE  <<<<b, i>>, j>> \in BytesIn(bs)
  <2>1. <<b, i>> \in PlacesIn(bs)
    BY PlacesAre
  <2>2. <<<<b, i>>, j>> \in {<<b, i>>} \X (1 .. bs[<<b, i>>[1]][<<b, i>>[2]].data_size)
    OBVIOUS
  <2> QED  BY <2>1, <2>2 DEF BytesIn
<1> QED  BY <1>1, <1>2

LEMMA OwedAre ==
    ASSUME NEW ts, NEW cs
    PROVE  \A x : x \in OwedBy(ts, cs) <=>
                     \E t \in ts : \E j \in 1 .. cs[t].data_size : x = <<t, j>>
  BY DEF OwedBy

(* As many bytes as data_size says.                                        *)
LEMMA BlockSize ==
    ASSUME NEW x, NEW n \in Nat
    PROVE  IsFiniteSet({x} \X (1 .. n)) /\ Cardinality({x} \X (1 .. n)) = n
<1>1. IsFiniteSet({x}) /\ Cardinality({x}) = 1
  BY FS_Singleton
<1>2. IsFiniteSet(1 .. n) /\ Cardinality(1 .. n) = n
  BY FS_Interval
<1>3. /\ IsFiniteSet({x} \X (1 .. n))
      /\ Cardinality({x} \X (1 .. n)) = Cardinality({x}) * Cardinality(1 .. n)
  BY <1>1, <1>2, FS_Product
<1> QED  BY <1>1, <1>2, <1>3

LEMMA Join ==
    ASSUME NEW S, NEW T, IsFiniteSet(S), IsFiniteSet(T), S \cap T = {}
    PROVE  IsFiniteSet(S \cup T) /\ Cardinality(S \cup T) = Cardinality(S) + Cardinality(T)
<1>1. Cardinality(S) \in Nat /\ Cardinality(T) \in Nat /\ Cardinality(S \cap T) = 0
  BY FS_CardinalityType, FS_EmptySet
<1>2. /\ IsFiniteSet(S \cup T)
      /\ Cardinality(S \cup T) = Cardinality(S) + Cardinality(T) - Cardinality(S \cap T)
  BY FS_Union
<1> QED  BY <1>1, <1>2

(* The chain of b in long is that in short with one item more, at a.       *)
OneMore(short, long, b, a) ==
    /\ short \in Chains /\ long \in Chains /\ b \in Buckets
    /\ \A c \in Buckets : c # b => short[c] = long[c]
    /\ a \in 1 .. Len(long[b]) /\ Len(short[b]) = Len(long[b]) - 1
    /\ \A i \in 1 .. Len(short[b]) : short[b][i] = long[b][IF i < a THEN i ELSE i + 1]

LEMMA OneMorePlace ==
    ASSUME NEW short, NEW long, NEW b, NEW a, OneMore(short, long, b, a),
           IsFiniteSet(PlacesIn(short)) \/ IsFiniteSet(PlacesIn(long))
    PROVE  /\ IsFiniteSet(PlacesIn(short)) /\ IsFiniteSet(PlacesIn(long))
           /\ Cardinality(PlacesIn(long)) = Cardinality(PlacesIn(short)) + 1
<1> DEFINE last == <<b, Len(long[b])>>
<1>1. \A c \in Buckets : Len(short[c]) \in Nat /\ Len(long[c]) \in Nat
  BY DEF OneMore, Chains
<1>2. last \notin PlacesIn(short) /\ last \in PlacesIn(long)
  BY <1>1, PlacesAre DEF OneMore
<1>3. ASSUME NEW p PROVE p \in PlacesIn(long) <=> p \in PlacesIn(short) \/ p = last
  <2>1. ASSUME NEW c \in Buckets
        PROVE  \A i : i \in 1 .. Len(long[c]) <=>
                         i \in 1 .. Len(short[c]) \/ (c = b /\ i = Len(long[b]))
    BY <1>1 DEF OneMore
  <2> QED  BY <2>1, PlacesAre DEF OneMore
<1> HIDE DEF last
<1>4. PlacesIn(long) = PlacesIn(short) \cup {last}
  BY <1>3
<1>5. PlacesIn(short) = PlacesIn(long) \ {last}
  BY <1>2, <1>3
<1>6. IsFiniteSet(PlacesIn(short))
  BY <1>5, FS_RemoveElement
<1> QED  BY <1>2, <1>4, <1>6, FS_AddElement

LEMMA OneMoreBytes ==
    ASSUME NEW short, NEW long, NEW b, NEW a, OneMore(short, long, b, a),
           IsFiniteSet(BytesIn(short)) \/ IsFiniteSet(BytesIn(long))
    PROVE  /\ IsFiniteSet(BytesIn(short)) /\ IsFiniteSet(BytesIn(long))
           /\ Cardinality(BytesIn(long)) = Cardinality(BytesIn(short)) + long[b][a].data_size
<1> DEFINE block == {<<b, a>>} \X (1 .. long[b][a].data_size)
           rest == BytesIn(long) \ block
           Moved(p) == <<p[1], IF p[1] = b /\ p[2] >= a THEN p[2] + 1 ELSE p[2]>>
           f == [x \in BytesIn(short) |-> <<Moved(x[1]), x[2]>>]
<1>1. \A c \in Buckets : Len(short[c]) \in Nat /\ Len(long[c]) \in Nat
  BY DEF OneMore, Chains
<1>2. long[b][a] \in Items /\ long[b][a].data_size \in Nat
  <2>1. long[b] \in Seq(Items) /\ a \in 1 .. Len(long[b])
    BY DEF OneMore, Chains
  <2>2. long[b][a] \in Items
    BY <2>1
  <2> QED  BY <2>2, DataAssumption DEF Items
<1>3. block \subseteq BytesIn(long)
  <2>1. \A x \in block : \E j \in 1 .. long[b][a].data_size : x = <<<<b, a>>, j>>
    OBVIOUS
  <2> QED  BY <2>1, BytesAre DEF OneMore
<1>4. \A c \in Buckets : \A i \in 1 .. Len(short[c]) :
         LET h == IF c = b /\ i >= a THEN i + 1 ELSE i IN
         h \in 1 .. Len(long[c]) /\ short[c][i] = long[c][h] /\ <<c, h>> # <<b, a>>
  BY <1>1 DEF OneMore
<1>5. \A c \in Buckets : \A h \in 1 .. Len(long[c]) :
         <<c, h>> # <<b, a>> =>
            LET i == IF c = b /\ h > a THEN h - 1 ELSE h IN
            i \in 1 .. Len(short[c]) /\ short[c][i] = long[c][h]
            /\ h = IF c = b /\ i >= a THEN i + 1 ELSE i
  BY <1>1 DEF OneMore
<1>6. ASSUME NEW c \in Buckets, NEW i \in 1 .. Len(short[c]), NEW j \in 1 .. short[c][i].data_size
      PROVE  /\ <<<<c, i>>, j>> \in BytesIn(short)
             /\ f[<<<<c, i>>, j>>] = <<<<c, IF c = b /\ i >= a THEN i + 1 ELSE i>>, j>>
             /\ f[<<<<c, i>>, j>>] \in rest
  <2>1. <<<<c, i>>, j>> \in BytesIn(short)
    BY BytesAre
  <2>2. f[<<<<c, i>>, j>>] = <<<<c, IF c = b /\ i >= a THEN i + 1 ELSE i>>, j>>
    BY <2>1
  <2> DEFINE h == IF c = b /\ i >= a THEN i + 1 ELSE i
  <2>3. h \in 1 .. Len(long[c]) /\ j \in 1 .. long[c][h].data_size /\ <<c, h>> # <<b, a>>
    BY <1>4
  <2> HIDE DEF h
  <2>4. <<<<c, h>>, j>> \in BytesIn(long)
    BY <2>3, BytesAre
  <2>5. <<<<c, h>>, j>> \notin block
    BY <2>3
  <2> QED  BY <2>1, <2>2, <2>4, <2>5 DEF h
<1>7. \A x \in BytesIn(short) : \E c \in Buckets : \E i \in 1 .. Len(short[c]) :
         \E j \in 1 .. short[c][i].data_size : x = <<<<c, i>>, j>>
  BY BytesAre
<1>8. f \in [BytesIn(short) -> rest]
  <2>1. \A x \in BytesIn(short) : f[x] \in rest
    <3> HIDE DEF f, rest
    <3> QED  BY <1>6, <1>7
  <2>2. f = [x \in BytesIn(short) |-> f[x]]
    OBVIOUS
  <2> HIDE DEF f, rest
  <2> QED  BY <2>1, <2>2
<1>9. ASSUME NEW x \in BytesIn(short), NEW y \in BytesIn(short), f[x] = f[y]
      PROVE  x = y
  <2>1. PICK c \in Buckets : \E i \in 1 .. Len(short[c]) :
               \E j \in 1 .. short[c][i].data_size : x = <<<<c, i>>, j>>
    BY <1>7
  <2>2. PICK i \in 1 .. Len(short[c]) : \E j \in 1 .. short[c][i].data_size : x = <<<<c, i>>, j>>
    BY <2>1
  <2>3. PICK j \in 1 .. short[c][i].data_size : x = <<<<c, i>>, j>>
    BY <2>2
  <2>4. PICK d \in Buckets : \E k \in 1 .. Len(short[d]) :
               \E l \in 1 .. short[d][k].data_size : y = <<<<d, k>>, l>>
    BY <1>7
  <2>5. PICK k \in 1 .. Len(short[d]) : \E l \in 1 .. short[d][k].data_size : y = <<<<d, k>>, l>>
    BY <2>4
  <2>6. PICK l \in 1 .. short[d][k].data_size : y = <<<<d, k>>, l>>
    BY <2>5
  <2>7. <<<<c, IF c = b /\ i >= a THEN i + 1 ELSE i>>, j>>
          = <<<<d, IF d = b /\ k >= a THEN k + 1 ELSE k>>, l>>
    BY <1>6, <1>9, <2>3, <2>6
  <2>8. c = d /\ j = l /\ (IF c = b /\ i >= a THEN i + 1 ELSE i)
                           = (IF d = b /\ k >= a THEN k + 1 ELSE k)
    BY <2>7
  <2>9. i \in Nat /\ k \in Nat /\ a \in Nat
    BY <1>1 DEF OneMore
  <2>10. i = k
    BY <2>8, <2>9
  <2> QED  BY <2>3, <2>6, <2>8, <2>10
<1>10. ASSUME NEW y \in rest PROVE \E x \in BytesIn(short) : f[x] = y
  <2>1. PICK c \in Buckets : \E h \in 1 .. Len(long[c]) :
               \E j \in 1 .. long[c][h].data_size : y = <<<<c, h>>, j>>
    BY BytesAre
  <2>2. PICK h \in 1 .. Len(long[c]) : \E j \in 1 .. long[c][h].data_size : y = <<<<c, h>>, j>>
    BY <2>1
  <2>3. PICK j \in 1 .. long[c][h].data_size : y = <<<<c, h>>, j>>
    BY <2>2
  <2>4. <<c, h>> # <<b, a>>
    BY <2>3
  <2> DEFINE i == IF c = b /\ h > a THEN h - 1 ELSE h
  <2>5. i \in 1 .. Len(short[c]) /\ short[c][i] = long[c][h]
        /\ h = IF c = b /\ i >= a THEN i + 1 ELSE i
    BY <1>5, <2>4
  <2> HIDE DEF i, f
  <2>6. /\ <<<<c, i>>, j>> \in BytesIn(short)
        /\ f[<<<<c, i>>, j>>] = <<<<c, IF c = b /\ i >= a THEN i + 1 ELSE i>>, j>>
    BY <1>6, <2>5
  <2> QED  BY <2>3, <2>5, <2>6
<1>11. f \in Bijection(BytesIn(short), rest)
  <2> HIDE DEF f, rest
  <2> QED  BY <1>8, <1>9, <1>10 DEF Bijection, Injection, Surjection, IsInjective
<1>12. ExistsBijection(BytesIn(short), rest) /\ ExistsBijection(rest, BytesIn(short))
  <2> HIDE DEF f, rest
  <2>1. ExistsBijection(BytesIn(short), rest)
    BY <1>11 DEF ExistsBijection
  <2> QED  BY <2>1, Fun_ExistsBijSymmetric
<1>13. IsFiniteSet(block) /\ Cardinality(block) = long[b][a].data_size
  BY <1>2, BlockSize
<1>14. BytesIn(long) = rest \cup block /\ rest \cap block = {} /\ rest \subseteq BytesIn(long)
  BY <1>3
<1> HIDE DEF rest, block, f
<1>15. IsFiniteSet(rest)
  <2>1. CASE IsFiniteSet(BytesIn(long))
    BY <1>14, <2>1, FS_Subset
  <2>2. CASE IsFiniteSet(BytesIn(short))
    BY <1>12, <2>2, FS_Bijection
  <2> QED  BY <2>1, <2>2
<1>16. IsFiniteSet(BytesIn(short)) /\ Cardinality(BytesIn(short)) = Cardinality(rest)
  BY <1>12, <1>15, FS_Bijection
<1> QED  BY <1>13, <1>14, <1>15, <1>16, Join

(* What is owed when one more thread owes the size of its data.            *)
LEMMA OneMoreOwes ==
    ASSUME NEW ts, NEW t, t \notin ts, NEW cs, cs[t].data_size \in Nat,
           IsFiniteSet(OwedBy(ts, cs))
    PROVE  Cardinality(OwedBy(ts \cup {t}, cs)) = Cardinality(OwedBy(ts, cs)) + cs[t].data_size
<1> DEFINE block == {t} \X (1 .. cs[t].data_size)
<1>1. OwedBy(ts \cup {t}, cs) = OwedBy(ts, cs) \cup block
  <2>1. ASSUME NEW x PROVE x \in block <=> \E j \in 1 .. cs[t].data_size : x = <<t, j>>
    OBVIOUS
  <2> HIDE DEF block
  <2> QED  BY <2>1, OwedAre
<1>2. OwedBy(ts, cs) \cap block = {}
  <2>1. \A x \in OwedBy(ts, cs) : x[1] \in ts
    BY OwedAre
  <2> QED  BY <2>1
<1>3. IsFiniteSet(block) /\ Cardinality(block) = cs[t].data_size
  BY BlockSize
<1> HIDE DEF block
<1> QED  BY <1>1, <1>2, <1>3, Join

LEMMA SameOwed ==
    ASSUME NEW ts, NEW cs, NEW ds, \A u \in ts : cs[u].data_size = ds[u].data_size
    PROVE  OwedBy(ts, cs) = OwedBy(ts, ds)
  BY OwedAre

(* Sums in a size_t.                                                       *)
LEMMA Wrap ==
    ASSUME NEW x \in Int, NEW d \in Int
    PROVE  ((x % SIZE_RANGE) + d) % SIZE_RANGE = (x + d) % SIZE_RANGE
<1> DEFINE R == SIZE_RANGE
           r == x % R
           q == x \div R
           a == (r + d) % R
           p == (r + d) \div R
           b == (x + d) % R
           s == (x + d) \div R
<1>1. R \in Nat /\ R > 0
  BY DataAssumption
<1>2. r \in Int /\ q \in Int /\ x = R * q + r
  BY <1>1
<1>3. a \in 0 .. R - 1 /\ p \in Int /\ r + d = R * p + a
  BY <1>1, <1>2
<1>4. b \in 0 .. R - 1 /\ s \in Int /\ x + d = R * s + b
  BY <1>1
<1> HIDE DEF R, r, q, a, p, b, s
<1>5. R * (s - p - q) = a - b
  BY <1>1, <1>2, <1>3, <1>4
<1> DEFINE k == s - p - q
<1>6. k \in Int /\ R * k = a - b
  BY <1>2, <1>3, <1>4, <1>5
<1> HIDE DEF k
<1>7. a - b < R /\ a - b > -R
  BY <1>1, <1>3, <1>4
<1>8. ~(k >= 1)
  <2>1. k >= 1 => R * k >= R
    BY <1>1, <1>6
  <2> QED  BY <1>1, <1>3, <1>4, <1>6, <1>7, <2>1
<1>9. ~(k <= -1)
  <2>1. k <= -1 => R * k <= -R
    BY <1>1, <1>6
  <2> QED  BY <1>1, <1>3, <1>4, <1>6, <1>7, <2>1
<1>10. k = 0
  BY <1>6, <1>8, <1>9
<1>11. a = b
  BY <1>1, <1>3, <1>4, <1>6, <1>10
<1> QED  BY <1>11 DEF a, b, r, R

-----------------------------------------------------------------------------
(* The counters agree with the chains, and a thread that has just linked   *)
(* an item finds it there until it has counted it.                         *)

Adding == {"add_items", "add_memory"}
Subtracting == {"sub_items", "sub_memory"}
AtAny(places) == {t \in Threads : pc[t] \in places}

Counted ==
    /\ IsFiniteSet(Linked) /\ IsFiniteSet(InUse)
    /\ \A t \in Threads : pc[t] = "add_items" => Len(Chain(t)) > 0
    /\ ~Crashed =>
          /\ total_items = Cardinality(Linked) - Cardinality(AtAny({"add_items"}))
                                               + Cardinality(AtAny({"sub_items"}))
          /\ ~resized =>
                total_memory = (Cardinality(InUse) - Cardinality(Owed(AtAny(Adding)))
                                   + Cardinality(Owed(AtAny(Subtracting)))) % SIZE_RANGE

(* n for a thread at one of the places, nothing for others.                *)
Share(place, places, n) == IF place \in places THEN n ELSE 0

LEMMA SumsAre ==
    /\ Linked = PlacesIn(buckets) /\ InUse = BytesIn(buckets)
    /\ Linked' = PlacesIn(buckets') /\ InUse' = BytesIn(buckets')
    /\ \A places : Owed(AtAny(places)) = OwedBy(AtAny(places), call)
    /\ \A places : Owed(AtAny(places))' = OwedBy(AtAny(places)', call')
  BY DEF Linked, InUse, Owed, PlacesIn, BytesIn, OwedBy

LEMMA FiniteSums ==
    ASSUME Types, NEW places
    PROVE  /\ IsFiniteSet(AtAny(places)) /\ IsFiniteSet(OwedBy(AtAny(places), call))
           /\ Cardinality(AtAny(places)) \in Nat
           /\ Cardinality(OwedBy(AtAny(places), call)) \in Nat
<1>1. IsFiniteSet(AtAny(places))
  BY ThreadAssumption, FS_Subset DEF AtAny
<1>2. IsFiniteSet(Threads \X (1 .. SIZE_RANGE - 1))
  <2>1. IsFiniteSet(1 .. SIZE_RANGE - 1)
    BY DataAssumption, FS_Interval
  <2> QED  BY <2>1, ThreadAssumption, FS_Product
<1>3. OwedBy(AtAny(places), call) \subseteq Threads \X (1 .. SIZE_RANGE - 1)
  <2> SUFFICES ASSUME NEW x \in OwedBy(AtAny(places), call)
               PROVE  x \in Threads \X (1 .. SIZE_RANGE - 1)
    OBVIOUS
  <2>1. PICK t \in AtAny(places) : \E j \in 1 .. call[t].data_size : x = <<t, j>>
    BY OwedAre
  <2>2. PICK j \in 1 .. call[t].data_size : x = <<t, j>>
    BY <2>1
  <2>3. t \in Threads /\ call[t].data_size \in 0 .. SIZE_RANGE - 1
    BY DEF AtAny, Types, Calls
  <2> QED  BY <2>2, <2>3, DataAssumption
<1>4. IsFiniteSet(OwedBy(AtAny(places), call))
  BY <1>2, <1>3, FS_Subset
<1> QED  BY <1>1, <1>4, FS_CardinalityType

(* A step that takes a thread t from one place to another.                 *)
Moves(t, place) ==
    /\ pc' = [pc EXCEPT ![t] = place]
    /\ \A u \in Threads : u # t => call'[u] = call[u]

LEMMA AtChange ==
    ASSUME Types, NEW t \in Threads, NEW place, Moves(t, place), NEW places
    PROVE  Cardinality(AtAny(places)') = Cardinality(AtAny(places)) + Share(place, places, 1)
                                            - Share(pc[t], places, 1)
<1> DEFINE others == AtAny(places) \ {t}
<1>1. /\ AtAny(places) = IF pc[t] \in places THEN others \cup {t} ELSE others
      /\ AtAny(places)' = IF place \in places THEN others \cup {t} ELSE others
      /\ t \notin others
  BY DEF AtAny, Moves, Types
<1>2. IsFiniteSet(others) /\ Cardinality(others) \in Nat
  BY FiniteSums, FS_RemoveElement, FS_CardinalityType
<1> HIDE DEF others
<1>3. Cardinality(others \cup {t}) = Cardinality(others) + 1
  BY <1>1, <1>2, FS_AddElement
<1> QED  BY <1>1, <1>2, <1>3 DEF Share

LEMMA OwedChange ==
    ASSUME Types, Types', NEW t \in Threads, NEW place, Moves(t, place), NEW places
    PROVE  Cardinality(Owed(AtAny(places))') =
              Cardinality(Owed(AtAny(places))) + Share(place, places, call'[t].data_size)
                 - Share(pc[t], places, call[t].data_size)
<1> DEFINE others == AtAny(places) \ {t}
           owed == OwedBy(others, call)
<1>1. /\ AtAny(places) = IF pc[t] \in places THEN others \cup {t} ELSE others
      /\ AtAny(places)' = IF place \in places THEN others \cup {t} ELSE others
      /\ t \notin others /\ others \subseteq Threads
  BY DEF AtAny, Moves, Types
<1>2. call[t].data_size \in Nat /\ call'[t].data_size \in Nat
  BY DataAssumption DEF Types, Calls
<1>3. \A u \in others : call[u].data_size = call'[u].data_size
  BY <1>1 DEF Moves
<1> HIDE DEF others
<1>4. IsFiniteSet(owed)
  <2>1. IsFiniteSet(OwedBy(AtAny(places), call))
    BY FiniteSums
  <2>2. owed \subseteq OwedBy(AtAny(places), call)
    BY <1>1, OwedAre
  <2> QED  BY <2>1, <2>2, FS_Subset
<1>5. Cardinality(owed) \in Nat
  BY <1>4, FS_CardinalityType
<1>6. OwedBy(others, call') = owed
  BY <1>3, SameOwed
<1>7. Cardinality(OwedBy(others \cup {t}, call)) = Cardinality(owed) + call[t].data_size
  BY <1>1, <1>2, <1>4, OneMoreOwes
<1>8. Cardinality(OwedBy(others \cup {t}, call')) = Cardinality(owed) + call'[t].data_size
  BY <1>1, <1>2, <1>4, <1>6, OneMoreOwes
<1> HIDE DEF owed
<1>9. Cardinality(OwedBy(AtAny(places), call))
         = Cardinality(owed) + Share(pc[t], places, call[t].data_size)
  BY <1>1, <1>5, <1>7 DEF Share, owed
<1>10. Cardinality(OwedBy(AtAny(places)', call'))
         = Cardinality(owed) + Share(place, places, call'[t].data_size)
  BY <1>1, <1>5, <1>6, <1>8 DEF Share
<1>11. Share(pc[t], places, call[t].data_size) \in Nat
       /\ Share(place, places, call'[t].data_size) \in Nat
  BY <1>2 DEF Share
<1> QED  BY <1>5, <1>9, <1>10, <1>11, SumsAre

(* What a step must do to the counters when it changes the chains by       *)
(* `items` items of `bytes` bytes.                                         *)
Balanced(t, place, items, bytes) ==
    LET added == Share(place, Adding, call'[t].data_size)
                    - Share(pc[t], Adding, call[t].data_size)
        taken == Share(place, Subtracting, call'[t].data_size)
                    - Share(pc[t], Subtracting, call[t].data_size)
        delta == bytes - added + taken IN
    /\ total_items' = total_items + items
          - (Share(place, {"add_items"}, 1) - Share(pc[t], {"add_items"}, 1))
          + (Share(place, {"sub_items"}, 1) - Share(pc[t], {"sub_items"}, 1))
    /\ resized' = resized
    /\ \/ delta = 0 /\ total_memory' = total_memory
       \/ total_memory' = (total_memory + delta) % SIZE_RANGE

(* The chains of the others stay, and t's own has an item if it is new.    *)
KeepsHeads(t, place) ==
    /\ \/ buckets' = buckets
       \/ /\ pc[t] \in Working
          /\ \A b \in Buckets : b # call[t].bucket => buckets'[b] = buckets[b]
    /\ place = "add_items" => Len(buckets'[call'[t].bucket]) > 0

LEMMA HeadsKept ==
    ASSUME CacheInv, Counted, NEW t \in Threads, NEW place, Moves(t, place), KeepsHeads(t, place)
    PROVE  \A u \in Threads : pc'[u] = "add_items" => Len(Chain(u)') > 0
<1> SUFFICES ASSUME NEW u \in Threads, pc'[u] = "add_items"
             PROVE  Len(buckets'[call'[u].bucket]) > 0
  BY DEF Chain
<1>1. CASE u = t
  BY <1>1 DEF Moves, KeepsHeads, CacheInv, Types
<1>2. CASE u # t
  <2>1. pc[u] = "add_items" /\ call'[u] = call[u] /\ pc[u] \in Working
    BY <1>2 DEF Moves, CacheInv, Types, Working
  <2>2. Len(buckets[call[u].bucket]) > 0 /\ call[u].bucket \in Buckets
    BY <2>1 DEF Counted, Chain, CacheInv, Types, Calls
  <2>3. buckets'[call[u].bucket] = buckets[call[u].bucket]
    BY <1>2, <2>1, <2>2, Apart DEF KeepsHeads, CacheInv
  <2> QED  BY <2>1, <2>2, <2>3
<1> QED  BY <1>1, <1>2

LEMMA CountStep ==
    ASSUME CacheInv, CacheInv', Tallies, Counted, NEW t \in Threads, NEW place,
           Moves(t, place), KeepsHeads(t, place), pc[t] # "dead",
           IsFiniteSet(Linked'), IsFiniteSet(InUse'),
           NEW items \in Int, Cardinality(Linked') = Cardinality(Linked) + items,
           NEW bytes \in Int, Cardinality(InUse') = Cardinality(InUse) + bytes,
           Balanced(t, place, items, bytes)
    PROVE  Counted'
<1> Types /\ Types'
  BY DEF CacheInv
<1>1. ~Crashed' => ~Crashed
  BY DEF Crashed, Moves, Types
<1>2. /\ Cardinality(Linked) \in Nat /\ Cardinality(InUse) \in Nat
      /\ total_items \in Int /\ total_memory \in Int
  BY FS_CardinalityType, DataAssumption DEF Counted, Tallies
<1>3. ASSUME NEW places PROVE /\ Cardinality(AtAny(places)) \in Nat
                              /\ Cardinality(Owed(AtAny(places))) \in Nat
  BY FiniteSums, SumsAre
<1>4. ASSUME NEW places PROVE Share(place, places, 1) \in Int /\ Share(pc[t], places, 1) \in Int
  BY DEF Share
<1>5. call[t].data_size \in Int /\ call'[t].data_size \in Int
  BY DataAssumption DEF Types, Calls
<1>6. ASSUME NEW places PROVE /\ Share(place, places, call'[t].data_size) \in Int
                              /\ Share(pc[t], places, call[t].data_size) \in Int
  BY <1>5 DEF Share
<1>7. ASSUME ~Crashed'
      PROVE  total_items' = Cardinality(Linked') - Cardinality(AtAny({"add_items"})')
                                                 + Cardinality(AtAny({"sub_items"})')
  <2>1. total_items = Cardinality(Linked) - Cardinality(AtAny({"add_items"}))
                                          + Cardinality(AtAny({"sub_items"}))
    BY <1>1, <1>7 DEF Counted
  <2>2. /\ Cardinality(AtAny({"add_items"})') = Cardinality(AtAny({"add_items"}))
              + Share(place, {"add_items"}, 1) - Share(pc[t], {"add_items"}, 1)
        /\ Cardinality(AtAny({"sub_items"})') = Cardinality(AtAny({"sub_items"}))
              + Share(place, {"sub_items"}, 1) - Share(pc[t], {"sub_items"}, 1)
    BY AtChange
  <2>3. total_items' = total_items + items
          - (Share(place, {"add_items"}, 1) - Share(pc[t], {"add_items"}, 1))
          + (Share(place, {"sub_items"}, 1) - Share(pc[t], {"sub_items"}, 1))
    BY DEF Balanced
  <2> QED  BY <1>2, <1>3, <1>4, <2>1, <2>2, <2>3
<1>8. ASSUME ~Crashed', ~resized'
      PROVE  total_memory' = (Cardinality(InUse') - Cardinality(Owed(AtAny(Adding))')
                                 + Cardinality(Owed(AtAny(Subtracting))')) % SIZE_RANGE
  <2> DEFINE x == Cardinality(InUse) - Cardinality(Owed(AtAny(Adding)))
                                     + Cardinality(Owed(AtAny(Subtracting)))
             y == Cardinality(InUse') - Cardinality(Owed(AtAny(Adding))')
                                      + Cardinality(Owed(AtAny(Subtracting))')
             added == Share(place, Adding, call'[t].data_size)
                         - Share(pc[t], Adding, call[t].data_size)
             taken == Share(place, Subtracting, call'[t].data_size)
                         - Share(pc[t], Subtracting, call[t].data_size)
             delta == bytes - added + taken
  <2>1. total_memory = x % SIZE_RANGE /\ x \in Int /\ delta \in Int
    <3>1. total_memory = x % SIZE_RANGE
      BY <1>1, <1>8 DEF Counted, Balanced
    <3>2. x \in Int
      BY <1>2, <1>3
    <3>3. added \in Int /\ taken \in Int
      BY <1>6
    <3> HIDE DEF x, added, taken
    <3> QED  BY <3>1, <3>2, <3>3
  <2>2. /\ Cardinality(Owed(AtAny(Adding))') = Cardinality(Owed(AtAny(Adding)))
              + Share(place, Adding, call'[t].data_size)
              - Share(pc[t], Adding, call[t].data_size)
        /\ Cardinality(Owed(AtAny(Subtracting))') = Cardinality(Owed(AtAny(Subtracting)))
              + Share(place, Subtracting, call'[t].data_size)
              - Share(pc[t], Subtracting, call[t].data_size)
    BY OwedChange
  <2>3. y = x + delta
    BY <1>2, <1>3, <1>6, <2>2
  <2>4. \/ delta = 0 /\ total_memory' = total_memory
        \/ total_memory' = (total_memory + delta) % SIZE_RANGE
    BY DEF Balanced
  <2> HIDE DEF x, y, delta
  <2>5. total_memory' = y % SIZE_RANGE
    <3>1. CASE delta = 0 /\ total_memory' = total_memory
      <4>1. y = x
        BY <2>1, <2>3, <3>1
      <4> QED  BY <2>1, <3>1, <4>1
    <3>2. CASE total_memory' = (total_memory + delta) % SIZE_RANGE
      BY <2>1, <2>3, <3>2, Wrap
    <3> QED  BY <2>4, <3>1, <3>2
  <2> QED  BY <2>5 DEF y
<1> QED  BY <1>7, <1>8, HeadsKept DEF Counted

(* Steps that leave every item's size and both counters.                   *)
SameSizes ==
    \A b \in Buckets :
        /\ Len(buckets'[b]) = Len(buckets[b])
        /\ \A i \in 1 .. Len(buckets[b]) : buckets'[b][i].data_size = buckets[b][i].data_size

LEMMA SameSums ==
    ASSUME SameSizes
    PROVE  Linked' = Linked /\ InUse' = InUse
<1>1. PlacesIn(buckets') = PlacesIn(buckets)
  <2>1. ASSUME NEW x PROVE x \in PlacesIn(buckets') <=> x \in PlacesIn(buckets)
    BY PlacesAre DEF SameSizes
  <2> QED  BY <2>1
<1>2. BytesIn(buckets') = BytesIn(buckets)
  <2>1. ASSUME NEW x PROVE x \in BytesIn(buckets') <=> x \in BytesIn(buckets)
    BY BytesAre DEF SameSizes
  <2> QED  BY <2>1
<1> QED  BY <1>1, <1>2, SumsAre

LEMMA QuietCount ==
    ASSUME CacheInv, CacheInv', Tallies, Counted, NEW t \in Threads, NEW place,
           Moves(t, place), KeepsHeads(t, place), SameSizes,
           UNCHANGED <<total_items, total_memory, resized>>,
           pc[t] \notin Adding \cup Subtracting \cup {"dead"},
           place \notin Adding \cup Subtracting
    PROVE  Counted'
<1>1. Linked' = Linked /\ InUse' = InUse
  BY SameSums
<1>2. Cardinality(Linked) \in Nat /\ Cardinality(InUse) \in Nat
  BY FS_CardinalityType DEF Counted
<1>3. Balanced(t, place, 0, 0)
  BY DEF Balanced, Share, Adding, Subtracting, Tallies
<1>4. IsFiniteSet(Linked') /\ IsFiniteSet(InUse')
  BY <1>1 DEF Counted
<1>5. /\ Cardinality(Linked') = Cardinality(Linked) + 0
      /\ Cardinality(InUse') = Cardinality(InUse) + 0
  BY <1>1, <1>2
<1> QED  BY <1>3, <1>4, <1>5, CountStep

LEMMA StartCount ==
    ASSUME CacheInv, CacheInv', Tallies, Counted, NEW t \in Threads, Start(t) \/ Lock(t)
    PROVE  Counted'
<1>1. PICK place \in {"lock", "search"} :
         /\ Moves(t, place) /\ buckets' = buckets /\ pc[t] \in {"idle", "lock"}
         /\ UNCHANGED <<total_items, total_memory, resized>>
  BY DEF Start, Set, Get, Delete, Cleanup, Begin, Lock, cachevars, Moves, CacheInv, Types
<1>2. KeepsHeads(t, place) /\ SameSizes
  BY <1>1 DEF KeepsHeads, SameSizes
<1> QED  BY <1>1, <1>2, QuietCount DEF Adding, Subtracting

(* A step within an operation that neither links nor unlinks.              *)
LEMMA LookCount ==
    ASSUME CacheInv, CacheInv', Tallies, Counted, NEW t \in Threads,
           \/ Search(t) \/ SetInsertFails(t) \/ GetHit(t) \/ GetExpired(t) \/ GetMiss(t)
           \/ DeleteMiss(t) \/ SweepBucketDone(t)
    PROVE  Counted'
<1>1. PICK place \in {"act", "idle", "lock"} :
         /\ Moves(t, place) /\ buckets' = buckets /\ pc[t] \in {"search", "act"}
         /\ UNCHANGED <<total_items, total_memory, resized>>
  BY DEF Search, SetInsertFails, GetHit, GetExpired, GetMiss, DeleteMiss, SweepBucketDone,
         Found, NotFound, Return, cachevars, Moves, CacheInv, Types
<1>2. KeepsHeads(t, place) /\ SameSizes
  BY <1>1 DEF KeepsHeads, SameSizes
<1> QED  BY <1>1, <1>2, QuietCount DEF Adding, Subtracting

(* cache_set that finds the key: of another size, the memory is not        *)
(* accounted for any more.                                                 *)
LEMMA ReplaceCount ==
    ASSUME CacheInv, CacheInv', Tallies, Counted, NEW t \in Threads,
           SetReplace(t) \/ SetReplaceFails(t)
    PROVE  Counted'
<1> DEFINE b == call[t].bucket
           a == call[t].at
<1>1. /\ Moves(t, "idle") /\ pc[t] = "act" /\ pc[t] \in Working
      /\ total_items' = total_items /\ total_memory' = total_memory
  BY DEF SetReplace, SetReplaceFails, Found, Return, Moves, CacheInv, Types, Working
<1>2. /\ b \in Buckets /\ buckets[b] \in Seq(Items) /\ a \in 1 .. Len(buckets[b])
      /\ Item(t) = buckets[b][a]
  BY <1>1, Acting DEF SetReplace, SetReplaceFails, Found, Item
<1>3. /\ \A c \in Buckets : c # b => buckets'[c] = buckets[c]
      /\ Len(buckets'[b]) = Len(buckets[b])
      /\ \A i \in 1 .. Len(buckets[b]) : i # a => buckets'[b][i] = buckets[b][i]
  BY <1>2 DEF SetReplace, SetReplaceFails, CacheInv, Types
<1>4. KeepsHeads(t, "idle")
  BY <1>1, <1>3 DEF KeepsHeads
<1>5. CASE SameSizes /\ resized' = resized
  BY <1>1, <1>4, <1>5, QuietCount DEF Adding, Subtracting
<1>6. CASE ~(SameSizes /\ resized' = resized)
  <2>1. SetReplace(t)
    <3>1. SetReplaceFails(t) => buckets'[b][a].data_size = buckets[b][a].data_size
      <4>1. SetReplaceFails(t) => buckets'[b][a] = [buckets[b][a] EXCEPT !.data = None]
        <5> SUFFICES ASSUME SetReplaceFails(t)
                     PROVE  buckets'[b][a] = [buckets[b][a] EXCEPT !.data = None]
          OBVIOUS
        <5> DEFINE new == [buckets[b][a] EXCEPT !.data = None]
        <5>1. buckets' = [buckets EXCEPT ![b] = [buckets[b] EXCEPT ![a] = new]]
          BY DEF SetReplaceFails
        <5> HIDE DEF a, b, new
        <5>2. buckets'[b][a] = new
          BY <1>2, <5>1 DEF CacheInv, Types
        <5> QED  BY <5>2 DEF new
      <4>2. buckets[b][a] \in Items
        BY <1>2
      <4> QED  BY <4>1, <4>2 DEF Items
    <3>2. SetReplaceFails(t) => SameSizes
      BY <1>3, <3>1 DEF SameSizes
    <3>3. SetReplaceFails(t) => resized' = resized
      BY DEF SetReplaceFails
    <3> QED  BY <1>6, <3>2, <3>3
  <2>2. buckets'[b][a].data_size = Size[call[t].data]
    <3>1. buckets'[b][a] = [buckets[b][a] EXCEPT !.data = call[t].data,
                                                 !.data_size = Size[call[t].data],
                                                 !.timestamp = now]
      <4> DEFINE new == [buckets[b][a] EXCEPT !.data = call[t].data,
                                              !.data_size = Size[call[t].data],
                                              !.timestamp = now]
      <4>1. buckets' = [buckets EXCEPT ![b] = [buckets[b] EXCEPT ![a] = new]]
        BY <2>1 DEF SetReplace
      <4> HIDE DEF a, b, new
      <4>2. buckets'[b][a] = new
        BY <1>2, <4>1 DEF CacheInv, Types
      <4> QED  BY <4>2 DEF new
    <3>2. buckets[b][a] \in Items
      BY <1>2
    <3> QED  BY <3>1, <3>2 DEF Items
  <2>3. resized'
    <3>1. CASE SameSizes
      BY <1>6, <2>1, <3>1, Zenon DEF SetReplace, Tallies
    <3>2. CASE ~SameSizes
      <4>1. buckets[b][a].data_size # Size[call[t].data]
        BY <1>3, <2>2, <3>2 DEF SameSizes
      <4> QED  BY <1>2, <2>1, <4>1 DEF SetReplace
    <3> QED  BY <3>1, <3>2
  <2>4. Linked' = Linked
    <3>1. \A c \in Buckets : Len(buckets'[c]) = Len(buckets[c])
      BY <1>3
    <3>2. ASSUME NEW x PROVE x \in PlacesIn(buckets') <=> x \in PlacesIn(buckets)
      BY <3>1, PlacesAre
    <3>3. PlacesIn(buckets') = PlacesIn(buckets)
      BY <3>2
    <3> QED  BY <3>3, SumsAre
  <2>5. IsFiniteSet(InUse')
    <3>1. InUse' \subseteq PlacesIn(buckets') \X (1 .. SIZE_RANGE - 1)
      <4> SUFFICES ASSUME NEW x \in BytesIn(buckets')
                   PROVE  x \in PlacesIn(buckets') \X (1 .. SIZE_RANGE - 1)
        BY SumsAre
      <4>1. PICK c \in Buckets : \E i \in 1 .. Len(buckets'[c]) :
                   \E j \in 1 .. buckets'[c][i].data_size : x = <<<<c, i>>, j>>
        BY BytesAre
      <4>2. PICK i \in 1 .. Len(buckets'[c]) :
                   \E j \in 1 .. buckets'[c][i].data_size : x = <<<<c, i>>, j>>
        BY <4>1
      <4>3. PICK j \in 1 .. buckets'[c][i].data_size : x = <<<<c, i>>, j>>
        BY <4>2
      <4>4. <<c, i>> \in PlacesIn(buckets')
        BY PlacesAre
      <4>5. buckets'[c][i] \in Items
        BY DEF CacheInv, Types
      <4>6. buckets'[c][i].data_size \in 1 .. SIZE_RANGE - 1
        BY <4>5 DEF Items
      <4>7. j \in 1 .. SIZE_RANGE - 1
        BY <4>6, DataAssumption
      <4> QED  BY <4>3, <4>4, <4>7
    <3>2. IsFiniteSet(PlacesIn(buckets')) /\ IsFiniteSet(1 .. SIZE_RANGE - 1)
      BY <2>4, SumsAre, DataAssumption, FS_Interval DEF Counted
    <3>3. IsFiniteSet(PlacesIn(buckets') \X (1 .. SIZE_RANGE - 1))
      BY <3>2, FS_Product
    <3> QED  BY <3>1, <3>3, FS_Subset
  <2>6. \A places : places \in {{"add_items"}, {"sub_items"}} => AtAny(places)' = AtAny(places)
    BY <1>1 DEF AtAny, Moves, CacheInv, Types
  <2>7. ~Crashed' => ~Crashed
    BY <1>1 DEF Crashed, Moves, CacheInv, Types
  <2> QED  BY <1>1, <1>4, <2>3, <2>4, <2>5, <2>6, <2>7, HeadsKept DEF Counted
<1> QED  BY <1>5, <1>6

LEMMA InsertCount ==
    ASSUME CacheInv, CacheInv', Tallies, Counted, NEW t \in Threads, SetInsert(t)
    PROVE  Counted'
<1> DEFINE b == call[t].bucket
           item == [key |-> Stored[call[t].key], data |-> call[t].data,
                    data_size |-> Size[call[t].data], timestamp |-> now]
<1>1. /\ Moves(t, "add_items") /\ pc[t] = "act" /\ pc[t] \in Working
      /\ UNCHANGED <<total_items, total_memory, resized>>
  BY DEF SetInsert, NotFound, Moves, CacheInv, Types, Working
<1>2. /\ b \in Buckets /\ buckets[b] \in Seq(Items) /\ call[t] \in Calls
      /\ call'[t].data_size = Size[call[t].data] /\ call'[t].bucket = b
      /\ Size[call[t].data] \in Nat
  <2>1. /\ b \in Buckets /\ buckets[b] \in Seq(Items) /\ call[t] \in Calls
        /\ CallOK(pc[t], call[t]) /\ call[t].op = "set"
    BY <1>1, Acting DEF SetInsert, NotFound
  <2>2. call'[t] = [call[t] EXCEPT !.data_size = Size[call[t].data]]
    BY DEF SetInsert, CacheInv, Types
  <2>3. Size[call[t].data] \in Nat
    BY <2>1, DataAssumption DEF CallOK
  <2> QED  BY <2>1, <2>2, <2>3 DEF Calls
<1>3. /\ buckets' = [buckets EXCEPT ![b] = <<item>> \o @]
      /\ buckets' \in Chains
  BY DEF SetInsert, CacheInv, Types, Chains
<1>4. item.data_size = Size[call[t].data]
  OBVIOUS
<1> HIDE DEF item, b
<1>5. /\ \A c \in Buckets : c # b => buckets'[c] = buckets[c]
      /\ buckets'[b] = <<item>> \o buckets[b]
  BY <1>2, <1>3 DEF CacheInv, Types
<1>6. /\ Len(buckets'[b]) = Len(buckets[b]) + 1 /\ buckets'[b][1] = item
      /\ \A i \in 1 .. Len(buckets[b]) : buckets'[b][i + 1] = buckets[b][i]
  BY <1>2, <1>5
<1>7. OneMore(buckets, buckets', b, 1)
  <2>1. Len(buckets[b]) \in Nat
    BY <1>2
  <2>2. 1 \in 1 .. Len(buckets'[b]) /\ Len(buckets[b]) = Len(buckets'[b]) - 1
    BY <1>6, <2>1
  <2>3. \A i \in 1 .. Len(buckets[b]) : buckets[b][i] = buckets'[b][IF i < 1 THEN i ELSE i + 1]
    BY <1>6, <2>1
  <2>4. buckets \in Chains
    BY DEF CacheInv, Types, Chains
  <2> QED  BY <1>2, <1>3, <1>5, <2>2, <2>3, <2>4 DEF OneMore
<1>8. /\ IsFiniteSet(Linked') /\ Cardinality(Linked') = Cardinality(Linked) + 1
  BY <1>7, OneMorePlace, SumsAre DEF Counted
<1>9. /\ IsFiniteSet(InUse')
      /\ Cardinality(InUse') = Cardinality(InUse) + Size[call[t].data]
  BY <1>4, <1>6, <1>7, OneMoreBytes, SumsAre DEF Counted
<1>10. KeepsHeads(t, "add_items")
  BY <1>1, <1>2, <1>5, <1>6 DEF KeepsHeads, b
<1>11. Balanced(t, "add_items", 1, Size[call[t].data])
  BY <1>1, <1>2 DEF Balanced, Share, Adding, Subtracting, Tallies
<1> QED  BY <1>1, <1>2, <1>8, <1>9, <1>10, <1>11, CountStep

LEMMA UnlinkCount ==
    ASSUME CacheInv, CacheInv', Tallies, Counted, NEW t \in Threads,
           DeleteFound(t) \/ SweepFound(t)
    PROVE  Counted'
<1> DEFINE b == call[t].bucket
           a == call[t].at
           n == buckets[b][a].data_size
<1>1. /\ Moves(t, "sub_items") /\ pc[t] = "act" /\ pc[t] \in Working /\ call[t].at > 0
      /\ UNCHANGED <<total_items, total_memory, resized>>
      /\ buckets' = [buckets EXCEPT ![b] = RemoveAt(@, a)]
      /\ call' = [call EXCEPT ![t].data_size = Item(t).data_size]
  BY DEF DeleteFound, SweepFound, Unlink, Found, Moves, CacheInv, Types, Working
<1>2. /\ b \in Buckets /\ buckets[b] \in Seq(Items) /\ call[t] \in Calls
      /\ a \in 1 .. Len(buckets[b]) /\ Item(t) = buckets[b][a] /\ Item(t) \in Items
  BY <1>1, Acting DEF Item
<1>3. n \in Nat /\ call'[t].data_size = n /\ n = Item(t).data_size
  <2>1. call'[t] = [call[t] EXCEPT !.data_size = Item(t).data_size]
    BY <1>1 DEF CacheInv, Types
  <2>2. Item(t).data_size \in Nat
    BY <1>2, DataAssumption DEF Items
  <2> QED  BY <1>2, <2>1, <2>2 DEF Calls
<1>4. /\ \A c \in Buckets : c # b => buckets'[c] = buckets[c]
      /\ buckets'[b] = RemoveAt(buckets[b], a)
  BY <1>1, <1>2 DEF CacheInv, Types
<1>5. OneMore(buckets', buckets, b, a)
  <2>1. /\ Len(buckets'[b]) = Len(buckets[b]) - 1
        /\ \A h \in 1 .. Len(buckets[b]) - 1 :
              buckets'[b][h] = IF h < a THEN buckets[b][h] ELSE buckets[b][h + 1]
    <3> HIDE DEF a, b
    <3> QED  BY <1>2, <1>4, RemoveAtProperties
  <2>2. buckets \in Chains /\ buckets' \in Chains
    BY DEF CacheInv, Types, Chains
  <2> HIDE DEF a, b
  <2> QED  BY <1>2, <1>4, <2>1, <2>2 DEF OneMore
<1> HIDE DEF n, a, b
<1>6. IsFiniteSet(Linked') /\ Cardinality(Linked') = Cardinality(Linked) - 1
  <2>1. IsFiniteSet(PlacesIn(buckets')) /\ Cardinality(PlacesIn(buckets))
                                             = Cardinality(PlacesIn(buckets')) + 1
    BY <1>5, OneMorePlace, SumsAre DEF Counted
  <2>2. Cardinality(PlacesIn(buckets')) \in Nat
    BY <2>1, FS_CardinalityType
  <2> QED  BY <2>1, <2>2, SumsAre
<1>7. IsFiniteSet(InUse') /\ Cardinality(InUse') = Cardinality(InUse) + (-n)
  <2>1. IsFiniteSet(BytesIn(buckets')) /\ Cardinality(BytesIn(buckets))
                                            = Cardinality(BytesIn(buckets')) + n
    BY <1>5, OneMoreBytes, SumsAre DEF Counted, n
  <2>2. Cardinality(BytesIn(buckets')) \in Nat
    BY <2>1, FS_CardinalityType
  <2> QED  BY <1>3, <2>1, <2>2, SumsAre
<1>8. KeepsHeads(t, "sub_items")
  BY <1>1, <1>4 DEF KeepsHeads, b
<1>9. Balanced(t, "sub_items", -1, -n)
  BY <1>1, <1>3 DEF Balanced, Share, Adding, Subtracting, Tallies
<1>10. Cardinality(Linked') = Cardinality(Linked) + (-1)
  <2>1. Cardinality(Linked) \in Nat
    BY FS_CardinalityType DEF Counted
  <2> QED  BY <1>6, <2>1
<1> QED  BY <1>1, <1>3, <1>6, <1>7, <1>8, <1>9, <1>10, CountStep

(* The updates of the counters themselves.                                 *)
LEMMA UpdateCount ==
    ASSUME CacheInv, CacheInv', Tallies, Counted, NEW t \in Threads,
           AddItems(t) \/ AddMemory(t) \/ SubItems(t) \/ SubMemory(t)
    PROVE  Counted'
<1>1. buckets' = buckets /\ resized' = resized /\ Linked' = Linked /\ InUse' = InUse
  <2>1. buckets' = buckets /\ resized' = resized
    BY DEF AddItems, AddMemory, SubItems, SubMemory, Freed
  <2> QED  BY <2>1 DEF Linked, InUse
<1>2. Cardinality(Linked) \in Nat /\ Cardinality(InUse) \in Nat
  BY FS_CardinalityType DEF Counted
<1>3. /\ IsFiniteSet(Linked') /\ Cardinality(Linked') = Cardinality(Linked) + 0
      /\ IsFiniteSet(InUse') /\ Cardinality(InUse') = Cardinality(InUse) + 0
  BY <1>1, <1>2 DEF Counted
<1>4. call[t].data_size \in Int /\ call'[t].data_size \in Int
      /\ total_items \in Int /\ total_memory \in Int
  BY DataAssumption DEF CacheInv, Types, Calls, Tallies
<1>5. PICK place \in {"add_memory", "idle", "sub_memory", "search"} :
         Moves(t, place) /\ pc[t] # "dead" /\ Balanced(t, place, 0, 0)
  <2>1. CASE AddItems(t)
    <3>1. Moves(t, "add_memory") /\ pc[t] = "add_items" /\ call'[t] = call[t]
      BY <2>1 DEF AddItems, Moves
    <3>2. Balanced(t, "add_memory", 0, 0)
      BY <1>4, <2>1, <3>1 DEF AddItems, Balanced, Share, Adding, Subtracting
    <3> QED  BY <3>1, <3>2
  <2>2. CASE SubItems(t)
    <3>1. Moves(t, "sub_memory") /\ pc[t] = "sub_items" /\ call'[t] = call[t]
      BY <2>2 DEF SubItems, Moves
    <3>2. Balanced(t, "sub_memory", 0, 0)
      BY <1>4, <2>2, <3>1 DEF SubItems, Balanced, Share, Adding, Subtracting
    <3> QED  BY <3>1, <3>2
  <2>3. CASE AddMemory(t)
    <3>1. Moves(t, "idle") /\ pc[t] = "add_memory"
      BY <2>3 DEF AddMemory, Return, Moves, CacheInv, Types
    <3>2. total_memory' = (total_memory + call[t].data_size) % SIZE_RANGE
          /\ total_items' = total_items
      BY <2>3 DEF AddMemory
    <3>3. Balanced(t, "idle", 0, 0)
      BY <1>1, <1>4, <3>1, <3>2 DEF Balanced, Share, Adding, Subtracting
    <3> QED  BY <3>1, <3>3
  <2>4. CASE SubMemory(t)
    <3>1. PICK place \in {"idle", "search"} : Moves(t, place)
      BY <2>4 DEF SubMemory, Freed, Return, Moves, CacheInv, Types
    <3>2. pc[t] = "sub_memory"
      BY <2>4 DEF SubMemory
    <3>3. total_memory' = (total_memory - call[t].data_size) % SIZE_RANGE
          /\ total_items' = total_items
      BY <2>4 DEF SubMemory, Freed
    <3>4. Balanced(t, place, 0, 0)
      BY <1>1, <1>4, <3>1, <3>2, <3>3 DEF Balanced, Share, Adding, Subtracting
    <3> QED  BY <3>1, <3>2, <3>4
  <2> QED  BY <2>1, <2>2, <2>3, <2>4
<1>6. KeepsHeads(t, place)
  BY <1>1, <1>5 DEF KeepsHeads
<1> QED  BY <1>3, <1>5, <1>6, CountStep

(* The process is gone, and nobody reads the counters.                     *)
LEMMA CrashCount ==
    ASSUME CacheInv, Counted, NEW t \in Threads, GetNull(t)
    PROVE  Counted'
<1>1. Crashed' /\ \A u \in Threads : pc'[u] # "add_items"
  BY DEF GetNull, Crashed
<1>2. Linked' = Linked /\ InUse' = InUse
  BY DEF GetNull, cachevars, Linked, InUse
<1> QED  BY <1>1, <1>2 DEF Counted

LEMMA CountedNext == CacheInv /\ CacheInv' /\ Tallies /\ Counted /\ [Next]_vars => Counted'
<1> SUFFICES ASSUME CacheInv, CacheInv', Tallies, Counted, [Next]_vars PROVE Counted'
  OBVIOUS
<1>1. ASSUME NEW t \in Threads, Start(t) \/ Lock(t) \/ Proceed(t) PROVE Counted'
  BY <1>1, StartCount, LookCount, ReplaceCount, InsertCount, UnlinkCount, UpdateCount,
     CrashCount DEF Proceed
<1>2. CASE Tick \/ UNCHANGED vars
  <2>1. UNCHANGED <<buckets, total_items, total_memory, resized, pc, call>>
    BY <1>2 DEF Tick, vars, cachevars
  <2> QED  BY <2>1 DEF Counted, Linked, InUse, Owed, AtAny, Chain, Crashed
<1> QED  BY <1>1, <1>2 DEF Next, Terminated

(* A thread about to count an item has it in the bucket whose mutex it     *)
(* holds, so the counter never says less than nothing.                     *)
LEMMA NeverNegative ==
    ASSUME CacheInv, Counted
    PROVE  Cardinality(AtAny({"add_items"})) <= Cardinality(Linked)
<1> DEFINE ts == AtAny({"add_items"})
           f == [t \in ts |-> <<call[t].bucket, 1>>]
<1>1. \A t \in ts : f[t] \in Linked
  <2> SUFFICES ASSUME NEW t \in ts PROVE <<call[t].bucket, 1>> \in PlacesIn(buckets)
    BY SumsAre
  <2>1. t \in Threads /\ pc[t] = "add_items"
    BY DEF AtAny
  <2>2. call[t].bucket \in Buckets /\ buckets[call[t].bucket] \in Seq(Items)
    BY <2>1 DEF CacheInv, Types, Calls
  <2>3. 1 \in 1 .. Len(buckets[call[t].bucket])
    BY <2>1, <2>2 DEF Counted, Chain
  <2> QED  BY <2>2, <2>3, PlacesAre
<1>2. \A t, u \in ts : f[t] = f[u] => t = u
  <2> SUFFICES ASSUME NEW t \in ts, NEW u \in ts, call[t].bucket = call[u].bucket PROVE t = u
    OBVIOUS
  <2>1. t \in Threads /\ u \in Threads /\ pc[t] \in Working /\ pc[u] \in Working
    BY DEF AtAny, Working
  <2> QED  BY <2>1, Apart DEF CacheInv
<1>3. f \in Injection(ts, Linked)
  <2>1. f \in [ts -> Linked]
    BY <1>1
  <2> HIDE DEF f, ts
  <2> QED  BY <1>2, <2>1 DEF Injection, IsInjective
<1> HIDE DEF f
<1> QED  BY <1>3, FS_Injection DEF Counted

(* At every moment of the process's life the counters that                 *)
(* print_memory_stats shows agree with the chains, up to the updates that  *)
(* threads have still to make, and total_memory until data is replaced by  *)
(* data of another size.                                                   *)
THEOREM CountersAreExact == Spec => []CountersExact
<1>1. Init => Tallies /\ Counted
  <2> SUFFICES ASSUME Init PROVE Tallies /\ Counted
    OBVIOUS
  <2>1. Tallies
    <3>1. resized \in BOOLEAN
      BY Zenon DEF Init
    <3> QED  BY <3>1, DataAssumption DEF Init, Tallies
  <2>2. PlacesIn(buckets) = {}
    BY PlacesAre DEF Init
  <2>3. BytesIn(buckets) = {}
    BY BytesAre DEF Init
  <2>4. AtAny({"add_items"}) = {} /\ AtAny({"sub_items"}) = {}
        /\ AtAny(Adding) = {} /\ AtAny(Subtracting) = {}
    BY DEF Init, AtAny, Adding, Subtracting
  <2>5. OwedBy({}, call) = {}
    BY OwedAre
  <2>6. Owed(AtAny(Adding)) = {} /\ Owed(AtAny(Subtracting)) = {}
    BY <2>4, <2>5, SumsAre
  <2>7. 0 % SIZE_RANGE = 0
    BY DataAssumption
  <2>8. (0 - 0 + 0) % SIZE_RANGE = 0
    BY <2>7
  <2>9. /\ IsFiniteSet(Linked) /\ IsFiniteSet(InUse)
        /\ Cardinality(Linked) = 0 /\ Cardinality(InUse) = 0
    BY <2>2, <2>3, SumsAre, FS_EmptySet
  <2>10. /\ Cardinality(AtAny({"add_items"})) = 0 /\ Cardinality(AtAny({"sub_items"})) = 0
         /\ Cardinality(Owed(AtAny(Adding))) = 0 /\ Cardinality(Owed(AtAny(Subtracting))) = 0
    BY <2>4, <2>6, FS_EmptySet
  <2>11. total_items = 0 /\ total_memory = 0 /\ \A t \in Threads : pc[t] = "idle"
    BY DEF Init
  <2> QED  BY <2>1, <2>8, <2>9, <2>10, <2>11 DEF Counted
<1>2. CacheInv /\ Counted => CountersExact
  <2> SUFFICES ASSUME CacheInv, Counted, ~Crashed PROVE ItemsCounted /\ MemoryAccounted
    BY DEF CountersExact
  <2>1. /\ AtAny({"add_items"}) = At("add_items") /\ AtAny({"sub_items"}) = At("sub_items")
        /\ AtAny(Adding) = At("add_items") \cup At("add_memory")
        /\ AtAny(Subtracting) = At("sub_items") \cup At("sub_memory")
    BY DEF AtAny, At, Adding, Subtracting
  <2>2. ItemsCounted
    <3>1. Cardinality(AtAny({"sub_items"})) \in Nat /\ Cardinality(AtAny({"add_items"})) \in Nat
      BY FiniteSums DEF CacheInv
    <3>2. Cardinality(Linked) \in Nat
      BY FS_CardinalityType DEF Counted
    <3>3. total_items = Cardinality(Linked) - Cardinality(AtAny({"add_items"}))
                                            + Cardinality(AtAny({"sub_items"}))
      BY DEF Counted
    <3>4. total_items >= 0
      BY <3>1, <3>2, <3>3, NeverNegative
    <3> QED  BY <2>1, <3>3, <3>4 DEF ItemsCounted
  <2>3. MemoryAccounted
    BY <2>1 DEF Counted, MemoryAccounted
  <2> QED  BY <2>2, <2>3
<1> QED  BY <1>1, <1>2, TalliesNext, CountedNext, CacheInvariance, PTL DEF Spec

=============================================================================

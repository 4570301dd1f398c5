------------------------ MODULE MemoryTrackerProofs ------------------------
(***************************************************************************)
(* Proofs, for every set of threads, addresses and sizes and every length  *)
(* of the table, of what MemoryTracker promises.                           *)
(*                                                                         *)
(* The argument is one of ownership.  A block that exists belongs to the   *)
(* caller it was handed to, or to the operation that frees, moves or has   *)
(* just allocated it, and never to two of them; and only the owner puts    *)
(* it in the table, takes it out of the table or frees it.                 *)
(***************************************************************************)
EXTENDS MemoryTracker, SequenceTheorems, WellFoundedInduction, TLAPS

-----------------------------------------------------------------------------
(* The inductive invariant.                                                *)

Entries == [ptr : Ptrs, size : Sizes]

Types ==
    /\ leaks \in Seq(Entries) /\ Len(leaks) <= TableSize
    /\ heap \in [Ptrs -> Sizes \cup {0}]
    /\ holder \in [Ptrs -> Threads \cup {Null}]
    /\ filled \in SUBSET Ptrs /\ watched \in SUBSET Ptrs
    /\ pc \in [Threads -> {"idle", "malloc", "insert", "copy", "untrack", "free"}]
    /\ call \in [Threads -> Calls]

(* What an operation knows of its blocks at each place.                    *)
Locals ==
    \A t \in Threads :
        /\ pc[t] = "idle" => call[t] = NoCall
        /\ pc[t] \in {"malloc", "insert"} => call[t].op \in {"malloc", "realloc"}
                                             /\ call[t].size \in Sizes
        /\ pc[t] = "malloc" => call[t].new_ptr = Null
        /\ pc[t] \in {"insert", "copy"} => call[t].new_ptr \in Ptrs
        /\ pc[t] = "insert" => heap[call[t].new_ptr] = call[t].size
        /\ pc[t] = "copy" => call[t].op = "realloc"
        /\ pc[t] \in {"untrack", "free"} => call[t].op \in {"realloc", "free"}
        /\ call[t].op \in {"realloc", "free"} <=> call[t].ptr \in Ptrs

(* The operation of t has the block p in its hands.                        *)
Works(t, p) == call[t].ptr = p \/ call[t].new_ptr = p

(* Every block has at most one owner, and an owned block exists.           *)
Owned ==
    /\ \A p \in Ptrs : holder[p] # Null => heap[p] # 0
    /\ \A t \in Threads, p \in Ptrs : Works(t, p) => heap[p] # 0 /\ holder[p] = Null
    /\ \A t, u \in Threads, p \in Ptrs : Works(t, p) /\ Works(u, p) => t = u
    /\ \A t \in Threads : call[t].ptr \in Ptrs => call[t].ptr # call[t].new_ptr

(* A block is entered after it was allocated and removed before it is      *)
(* freed.                                                                  *)
InTable ==
    /\ TrackedAreLive
    /\ ~tracker => leaks = <<>>
    /\ \A t \in Threads : pc[t] = "insert" => ~Tracked(call[t].new_ptr)
    /\ \A t \in Threads : pc[t] = "free" => ~Tracked(call[t].ptr)

(* Until it is copied, the block that tracked_realloc moves is in the      *)
(* table and full of data exactly when it was at first, and the new block  *)
(* is empty; then the copy is there exactly when it was.  A block with     *)
(* data in it exists.                                                      *)
Moved ==
    /\ \A p \in filled : heap[p] # 0
    /\ \A t \in Threads : call[t].op = "realloc" =>
          /\ pc[t] \in {"malloc", "insert", "copy"} =>
                (call[t].intact <=> Tracked(call[t].ptr) /\ call[t].ptr \in filled)
          /\ pc[t] \in {"insert", "copy"} => call[t].new_ptr \notin filled
          /\ pc[t] \in {"untrack", "free"} /\ call[t].new_ptr # Null =>
                (call[t].new_ptr \in filled <=> call[t].intact)

(* A block under the tracker is in the table except on its way in and out. *)
Watching ==
    tracker /\ ~dropped =>
        \A p \in watched : \/ Tracked(p)
                           \/ \E t \in Threads : pc[t] = "insert" /\ call[t].new_ptr = p
                           \/ \E t \in Threads : pc[t] = "free" /\ call[t].ptr = p

Flags == tracker \in BOOLEAN /\ dropped \in BOOLEAN

OwnerInv == Flags /\ Types /\ Locals /\ Owned /\ InTable /\ Moved /\ Watching

(* sum[i] is the sum of the first i sizes in the table s.                  *)
PartialSums(sum, s) ==
    /\ sum \in [0 .. Len(s) -> Nat] /\ sum[0] = 0
    /\ \A i \in 1 .. Len(s) : sum[i] = sum[i - 1] + s[i].size
    /\ \A h, i \in 0 .. Len(s) : h <= i => sum[h] <= sum[i]

(* The totals, without recursion.                                          *)
Totals ==
    /\ total_allocated \in Nat /\ peak_usage \in Nat /\ peak_usage >= total_allocated
    /\ \E sum : PartialSums(sum, leaks) /\ total_allocated = sum[Len(leaks)]

-----------------------------------------------------------------------------
(* Facts about the table.                                                  *)

LEMMA PrefixProperties ==
    ASSUME NEW S, NEW s \in Seq(S), NEW n \in Nat, n <= Len(s)
    PROVE  /\ SubSeq(s, 1, n) \in Seq(S)
           /\ Len(SubSeq(s, 1, n)) = n
           /\ \A h \in 1 .. n : SubSeq(s, 1, n)[h] = s[h]
  OBVIOUS

LEMMA WithoutProperties ==
    ASSUME Types, NEW i \in 1 .. Len(leaks)
    PROVE  /\ Without(i) \in Seq(Entries)
           /\ Len(Without(i)) = Len(leaks) - 1
           /\ \A h \in 1 .. Len(leaks) - 1 :
                 Without(i)[h] = IF h = i THEN leaks[Len(leaks)] ELSE leaks[h]
<1> DEFINE s == [leaks EXCEPT ![i] = leaks[Len(leaks)]]
<1>1. Len(leaks) \in Nat /\ leaks \in Seq(Entries) /\ leaks[Len(leaks)] \in Entries
  BY DEF Types
<1>2. /\ s \in Seq(Entries) /\ Len(s) = Len(leaks)
      /\ \A h \in 1 .. Len(leaks) : s[h] = IF h = i THEN leaks[Len(leaks)] ELSE leaks[h]
  BY <1>1, ExceptSeq
<1> HIDE DEF s
<1>3. Len(leaks) - 1 \in Nat /\ Len(leaks) - 1 <= Len(s)
  BY <1>1, <1>2
<1>4. /\ SubSeq(s, 1, Len(leaks) - 1) \in Seq(Entries)
      /\ Len(SubSeq(s, 1, Len(leaks) - 1)) = Len(leaks) - 1
      /\ \A h \in 1 .. Len(leaks) - 1 : SubSeq(s, 1, Len(leaks) - 1)[h] = s[h]
  BY <1>2, <1>3, PrefixProperties
<1>5. \A h \in 1 .. Len(leaks) - 1 : h \in 1 .. Len(leaks)
  BY <1>1
<1> QED  BY <1>2, <1>4, <1>5 DEF Without, s

(* The entry that is removed was the only one of its block.                *)
LEMMA WithoutTracked ==
    ASSUME Types, TrackedAreLive, NEW i \in 1 .. Len(leaks), leaks' = Without(i)
    PROVE  \A p \in Ptrs : Tracked(p)' <=> Tracked(p) /\ p # leaks[i].ptr
<1>1. Len(leaks) \in Nat
  BY DEF Types
<1> SUFFICES ASSUME NEW p \in Ptrs
             PROVE  Tracked(p)' <=> Tracked(p) /\ p # leaks[i].ptr
  OBVIOUS
<1>2. ASSUME Tracked(p)' PROVE Tracked(p) /\ p # leaks[i].ptr
  <2>1. PICK h \in 1 .. Len(leaks) - 1 : Without(i)[h].ptr = p
    BY <1>1, <1>2, WithoutProperties DEF Tracked
  <2>2. Without(i)[h] = IF h = i THEN leaks[Len(leaks)] ELSE leaks[h]
    BY <2>1, WithoutProperties
  <2> QED  BY <1>1, <2>1, <2>2 DEF Tracked, TrackedAreLive
<1>3. ASSUME Tracked(p), p # leaks[i].ptr PROVE Tracked(p)'
  <2>1. PICK h \in 1 .. Len(leaks) : leaks[h].ptr = p
    BY <1>3 DEF Tracked
  <2>2. h # i
    BY <1>3, <2>1
  <2>3. PICK k \in 1 .. Len(leaks) - 1 : Without(i)[k] = leaks[h]
    <3>1. CASE h = Len(leaks)
      <4>1. i \in 1 .. Len(leaks) - 1
        BY <1>1, <2>2, <3>1
      <4> QED  BY <3>1, <4>1, WithoutProperties
    <3>2. CASE h # Len(leaks)
      <4>1. h \in 1 .. Len(leaks) - 1
        BY <1>1, <3>2
      <4> QED  BY <2>2, <4>1, WithoutProperties
    <3> QED  BY <3>1, <3>2
  <2> QED  BY <1>1, <2>1, <2>3, WithoutProperties DEF Tracked
<1> QED  BY <1>2, <1>3

LEMMA EnterTracked ==
    ASSUME Types, NEW e \in Entries, leaks' = Append(leaks, e)
    PROVE  /\ leaks' \in Seq(Entries) /\ Len(leaks') = Len(leaks) + 1
           /\ leaks'[Len(leaks) + 1] = e
           /\ \A i \in 1 .. Len(leaks) : leaks'[i] = leaks[i]
           /\ \A p : Tracked(p)' <=> Tracked(p) \/ p = e.ptr
<1>1. Len(leaks) \in Nat /\ leaks \in Seq(Entries)
  BY DEF Types
<1>2. /\ leaks' \in Seq(Entries) /\ Len(leaks') = Len(leaks) + 1
      /\ leaks'[Len(leaks) + 1] = e
      /\ \A i \in 1 .. Len(leaks) : leaks'[i] = leaks[i]
  BY <1>1, AppendProperties
<1>3. \A p : Tracked(p)' <=> Tracked(p) \/ p = e.ptr
  BY <1>1, <1>2 DEF Tracked
<1> QED  BY <1>2, <1>3

(* A table whose entries and heap did not change tracks the same blocks.   *)
LEMMA SameTracked == ASSUME leaks' = leaks PROVE \A p : Tracked(p)' <=> Tracked(p)
  BY DEF Tracked

LEMMA EntryTypes ==
    Types => \A i \in 1 .. Len(leaks) : /\ leaks[i] \in Entries
                                        /\ leaks[i].ptr \in Ptrs
                                        /\ leaks[i].size \in Sizes /\ leaks[i].size # 0
<1> SUFFICES ASSUME Types, NEW i \in 1 .. Len(leaks)
             PROVE  /\ leaks[i] \in Entries
                    /\ leaks[i].ptr \in Ptrs
                    /\ leaks[i].size \in Sizes /\ leaks[i].size # 0
  OBVIOUS
<1>1. leaks[i] \in Entries
  BY DEF Types
<1>2. leaks[i].ptr \in Ptrs /\ leaks[i].size \in Sizes
  BY <1>1 DEF Entries
<1> QED  BY <1>1, <1>2, TrackerAssumption

LEMMA NoCallType ==
    /\ NoCall \in Calls
    /\ NoCall.op = "none" /\ NoCall.ptr = Null /\ NoCall.new_ptr = Null
    /\ NoCall.intact = FALSE
  BY DEF NoCall, Calls

-----------------------------------------------------------------------------
(* The ownership of the blocks, action by action.                          *)

LEMMA InitOwner == Init => OwnerInv
<1> SUFFICES ASSUME Init PROVE OwnerInv
  OBVIOUS
<1>1. Flags
  BY DEF Init, Flags
<1>2. Types
  BY NoCallType, TrackerAssumption DEF Init, Types
<1>3. Locals /\ Owned /\ Moved
  BY TrackerAssumption DEF Init, Locals, Owned, Works, NoCall, Moved
<1>4. InTable /\ Watching
  BY DEF Init, InTable, TrackedAreLive, Tracked, Watching
<1> QED  BY <1>1, <1>2, <1>3, <1>4 DEF OwnerInv

(* memory_tracker_init and memory_tracker_cleanup.                         *)
LEMMA TrackerOwner ==
    ASSUME OwnerInv, TrackerInit \/ TrackerCleanup
    PROVE  OwnerInv'
<1> Types /\ Locals /\ Owned
  BY DEF OwnerInv
<1>1. /\ UNCHANGED <<heap, holder, filled, pc, call>>
      /\ leaks' = <<>> /\ watched' = {}
      /\ \A t \in Threads : pc[t] = "idle" /\ call[t] = NoCall
  BY DEF TrackerInit, TrackerCleanup, Idle, Locals
<1>2. Flags'
  BY DEF TrackerInit, TrackerCleanup, Flags
<1>3. Types'
  BY <1>1, TrackerAssumption DEF Types
<1>4. Locals' /\ Owned'
  BY <1>1 DEF Locals, Owned, Works
<1>5. InTable' /\ Watching'
  BY <1>1 DEF InTable, TrackedAreLive, Tracked, Watching
<1>6. Moved'
  BY <1>1, NoCallType DEF OwnerInv, Moved
<1> QED  BY <1>2, <1>3, <1>4, <1>5, <1>6 DEF OwnerInv

LEMMA CallMallocOwner ==
    ASSUME OwnerInv, NEW t \in Threads, CallMalloc(t)
    PROVE  OwnerInv'
<1> Flags /\ Types /\ Locals /\ Owned /\ InTable /\ Moved /\ Watching
  BY DEF OwnerInv
<1>1. PICK n \in Sizes : call' = [call EXCEPT ![t] = [NoCall EXCEPT !.op = "malloc", !.size = n]]
  BY DEF CallMalloc
<1> DEFINE c == [NoCall EXCEPT !.op = "malloc", !.size = n]
<1>2. /\ c \in Calls
      /\ c.op = "malloc" /\ c.ptr = Null /\ c.new_ptr = Null /\ c.size = n /\ c.intact = FALSE
  BY DEF NoCall, Calls
<1> HIDE DEF c
<1>3. /\ UNCHANGED <<tracker, leaks, heap, holder, filled, watched, dropped>>
      /\ pc[t] = "idle" /\ pc' = [pc EXCEPT ![t] = "malloc"] /\ call' = [call EXCEPT ![t] = c]
  BY <1>1 DEF CallMalloc, Go, table, c
<1>4. Types' /\ Flags'
  BY <1>2, <1>3 DEF Types, Flags
<1>5. /\ \A u \in Threads : pc'[u] = IF u = t THEN "malloc" ELSE pc[u]
      /\ \A u \in Threads : call'[u] = IF u = t THEN c ELSE call[u]
  BY <1>3 DEF Types
<1>6. Locals'
  BY <1>2, <1>3, <1>5, TrackerAssumption DEF Locals
<1>7. Owned'
  BY <1>2, <1>3, <1>5, TrackerAssumption DEF Owned, Works
<1>8. InTable'
  BY <1>3, <1>5, SameTracked DEF InTable, TrackedAreLive
<1>9. Moved'
  BY <1>2, <1>3, <1>5, SameTracked DEF Moved
<1>10. Watching'
  BY <1>3, <1>5, SameTracked DEF Watching
<1> QED  BY <1>4, <1>6, <1>7, <1>8, <1>9, <1>10 DEF OwnerInv

(* A caller hands its block over to tracked_free or tracked_realloc.       *)
LEMMA HandOver ==
    ASSUME OwnerInv, NEW t \in Threads, NEW p \in Ptrs, NEW c \in Calls, NEW place,
           pc[t] = "idle", holder[p] = t, c.ptr = p, c.new_ptr = Null,
           \/ c.op = "free" /\ place = "untrack" /\ c.intact = FALSE
           \/ /\ c.op = "realloc" /\ place = "malloc" /\ c.size \in Sizes
              /\ c.intact <=> Tracked(p) /\ p \in filled,
           call' = [call EXCEPT ![t] = c], holder' = [holder EXCEPT ![p] = Null],
           pc' = [pc EXCEPT ![t] = place],
           UNCHANGED <<tracker, leaks, heap, filled, watched, dropped>>
    PROVE  OwnerInv'
<1> Flags /\ Types /\ Locals /\ Owned /\ InTable /\ Moved /\ Watching
  BY DEF OwnerInv
<1>1. Flags'
  BY DEF Flags
<1>2. Types'
  BY DEF Types
<1>3. /\ \A u \in Threads : pc'[u] = IF u = t THEN place ELSE pc[u]
      /\ \A u \in Threads : call'[u] = IF u = t THEN c ELSE call[u]
      /\ \A q \in Ptrs : holder'[q] = IF q = p THEN Null ELSE holder[q]
  BY DEF Types
<1>4. Locals'
  BY <1>3, TrackerAssumption DEF Locals
<1>5. Owned'
  BY <1>3, TrackerAssumption DEF Owned, Works
<1>6. InTable'
  BY <1>3, SameTracked DEF InTable, TrackedAreLive
<1>7. Tracked(p) => tracker
  BY DEF InTable, Tracked
<1>8. Moved'
  BY <1>3, <1>7, SameTracked DEF Moved
<1>9. Watching'
  BY <1>3, SameTracked DEF Watching
<1> QED  BY <1>1, <1>2, <1>4, <1>5, <1>6, <1>8, <1>9 DEF OwnerInv

LEMMA CallFreeOwner ==
    ASSUME OwnerInv, NEW t \in Threads, CallFree(t)
    PROVE  OwnerInv'
<1>1. PICK p \in Ptrs :
        /\ holder[p] = t
        /\ call' = [call EXCEPT ![t] = [NoCall EXCEPT !.op = "free", !.ptr = p]]
        /\ holder' = [holder EXCEPT ![p] = Null]
  BY DEF CallFree
<1> DEFINE c == [NoCall EXCEPT !.op = "free", !.ptr = p]
<1>2. c \in Calls /\ c.op = "free" /\ c.ptr = p /\ c.new_ptr = Null /\ c.intact = FALSE
  BY DEF NoCall, Calls
<1> HIDE DEF c
<1>3. /\ UNCHANGED <<tracker, leaks, heap, filled, watched, dropped>>
      /\ pc[t] = "idle" /\ pc' = [pc EXCEPT ![t] = "untrack"] /\ call' = [call EXCEPT ![t] = c]
  BY <1>1 DEF CallFree, Go, table, c
<1> QED  BY <1>1, <1>2, <1>3, HandOver

LEMMA CallReallocOwner ==
    ASSUME OwnerInv, NEW t \in Threads, CallRealloc(t)
    PROVE  OwnerInv'
<1>1. PICK p \in Ptrs, n \in Sizes :
        /\ holder[p] = t
        /\ call' = [call EXCEPT ![t] = [op |-> "realloc", ptr |-> p, new_ptr |-> Null,
                                        size |-> n, intact |-> Tracked(p) /\ p \in filled]]
        /\ holder' = [holder EXCEPT ![p] = Null]
  BY DEF CallRealloc
<1> DEFINE c == [op |-> "realloc", ptr |-> p, new_ptr |-> Null,
                 size |-> n, intact |-> Tracked(p) /\ p \in filled]
<1>2. (Tracked(p) /\ p \in filled) \in BOOLEAN
  BY Zenon DEF Tracked
<1>3. /\ c \in Calls /\ c.op = "realloc" /\ c.ptr = p /\ c.new_ptr = Null /\ c.size \in Sizes
      /\ c.intact = (Tracked(p) /\ p \in filled)
  BY <1>2 DEF Calls
<1> HIDE DEF c
<1>4. /\ UNCHANGED <<tracker, leaks, heap, filled, watched, dropped>>
      /\ pc[t] = "idle" /\ pc' = [pc EXCEPT ![t] = "malloc"] /\ call' = [call EXCEPT ![t] = c]
  BY <1>1 DEF CallRealloc, Go, table, c
<1>5. c.intact <=> Tracked(p) /\ p \in filled
  BY <1>3
<1> QED  BY <1>1, <1>3, <1>4, <1>5, HandOver

(* malloc: the address was free, so nobody owns it and it is not tracked.  *)
LEMMA MallocOwner ==
    ASSUME OwnerInv, NEW t \in Threads, Malloc(t)
    PROVE  OwnerInv'
<1> Flags /\ Types /\ Locals /\ Owned /\ InTable /\ Moved /\ Watching
  BY DEF OwnerInv
<1>1. PICK p \in Ptrs :
        /\ heap[p] = 0
        /\ heap' = [heap EXCEPT ![p] = call[t].size]
        /\ call' = [call EXCEPT ![t].new_ptr = p]
        /\ watched' = IF tracker THEN watched \cup {p} ELSE watched
  BY DEF Malloc
<1>2. /\ UNCHANGED <<tracker, leaks, holder, filled, dropped>>
      /\ pc[t] = "malloc" /\ pc' = [pc EXCEPT ![t] = "insert"]
  BY DEF Malloc, Go, table
<1>3. call[t].size \in Sizes /\ call[t].size # 0 /\ call[t].new_ptr = Null
  BY <1>2, TrackerAssumption DEF Locals
<1>4. Flags'
  BY <1>2 DEF Flags
<1> DEFINE c == [call[t] EXCEPT !.new_ptr = p]
<1>5. /\ c \in Calls
      /\ c.op = call[t].op /\ c.ptr = call[t].ptr /\ c.new_ptr = p /\ c.size = call[t].size
      /\ c.intact = call[t].intact
  <2>1. call[t] \in Calls
    BY DEF Types
  <2> QED  BY <2>1 DEF Calls
<1> HIDE DEF c
<1>a. call' = [call EXCEPT ![t] = c]
  BY <1>1 DEF c
<1>b. Types'
  BY <1>1, <1>2, <1>3, <1>5, <1>a DEF Types
<1>6. /\ \A u \in Threads : pc'[u] = IF u = t THEN "insert" ELSE pc[u]
      /\ \A u \in Threads : call'[u] = IF u = t THEN c ELSE call[u]
      /\ \A q \in Ptrs : heap'[q] = IF q = p THEN call[t].size ELSE heap[q]
  BY <1>1, <1>2, <1>a DEF Types
<1>7. ~Tracked(p) /\ holder[p] = Null /\ \A u \in Threads : ~Works(u, p)
  BY <1>1, EntryTypes DEF InTable, TrackedAreLive, Tracked, Owned
<1>8. Locals'
  <2> SUFFICES ASSUME NEW u \in Threads PROVE Locals!(u)'
    BY DEF Locals
  <2>1. CASE u = t
    BY <1>2, <1>3, <1>5, <1>6, <2>1 DEF Locals
  <2>2. CASE u # t
    BY <1>6, <1>7, <2>2 DEF Locals, Works
  <2> QED  BY <2>1, <2>2
<1>9. Owned'
  BY <1>2, <1>3, <1>5, <1>6, <1>7, TrackerAssumption DEF Owned, Works
<1>10. TrackedAreLive'
  BY <1>2, <1>6, <1>7, EntryTypes DEF InTable, TrackedAreLive, Tracked
<1>11. InTable'
  BY <1>2, <1>5, <1>6, <1>7, <1>10, SameTracked DEF InTable
<1>12. Moved'
  <2>1. p \notin filled /\ \A q \in filled : heap'[q] # 0
    BY <1>1, <1>3, <1>6 DEF Moved, Types
  <2> SUFFICES ASSUME NEW u \in Threads PROVE Moved!2!(u)'
    BY <1>2, <2>1 DEF Moved
  <2>2. CASE u = t
    BY <1>2, <1>5, <1>6, <2>1, <2>2, SameTracked DEF Moved
  <2>3. CASE u # t
    BY <1>2, <1>6, <2>3, SameTracked DEF Moved
  <2> QED  BY <2>2, <2>3
<1>13. Watching'
  BY <1>1, <1>2, <1>5, <1>6, SameTracked DEF Watching
<1> QED  BY <1>4, <1>b, <1>8, <1>9, <1>11, <1>12, <1>13 DEF OwnerInv

LEMMA MallocFailsOwner ==
    ASSUME OwnerInv, NEW t \in Threads, MallocFails(t)
    PROVE  OwnerInv'
<1> Flags /\ Types /\ Locals /\ Owned /\ InTable /\ Moved /\ Watching
  BY DEF OwnerInv
<1>1. /\ UNCHANGED <<tracker, leaks, heap, filled, watched, dropped>>
      /\ pc[t] = "malloc" /\ call[t].new_ptr = Null
  BY DEF MallocFails, table, Locals
<1>2. Flags'
  BY <1>1 DEF Flags
<1>3. CASE call[t].op = "realloc"
  <2>1. pc' = [pc EXCEPT ![t] = "untrack"] /\ UNCHANGED <<holder, call>>
    BY <1>3 DEF MallocFails, Go
  <2>2. Types'
    BY <1>1, <2>1 DEF Types
  <2>3. \A u \in Threads : pc'[u] = IF u = t THEN "untrack" ELSE pc[u]
    BY <2>1 DEF Types
  <2>4. Locals' /\ Owned'
    BY <1>1, <1>3, <2>1, <2>3 DEF Locals, Owned, Works
  <2>5. InTable' /\ Moved' /\ Watching'
    BY <1>1, <2>1, <2>3, SameTracked DEF InTable, TrackedAreLive, Moved, Watching
  <2> QED  BY <1>2, <2>2, <2>4, <2>5 DEF OwnerInv
<1>4. CASE call[t].op # "realloc"
  <2>1. /\ pc' = [pc EXCEPT ![t] = "idle"] /\ call' = [call EXCEPT ![t] = NoCall]
        /\ holder' = [p \in Ptrs |-> IF p = call[t].new_ptr THEN t ELSE holder[p]]
    BY <1>4 DEF MallocFails, Return, Go
  <2>2. holder' = holder
    BY <1>1, <2>1, TrackerAssumption DEF Types
  <2>3. Types'
    BY <1>1, <2>1, <2>2, NoCallType DEF Types
  <2>4. /\ \A u \in Threads : pc'[u] = IF u = t THEN "idle" ELSE pc[u]
        /\ \A u \in Threads : call'[u] = IF u = t THEN NoCall ELSE call[u]
    BY <2>1 DEF Types
  <2>5. Locals' /\ Owned'
    BY <1>1, <2>2, <2>4, NoCallType, TrackerAssumption DEF Locals, Owned, Works
  <2>6. InTable' /\ Moved' /\ Watching'
    BY <1>1, <2>2, <2>4, NoCallType, SameTracked
    DEF InTable, TrackedAreLive, Moved, Watching
  <2> QED  BY <1>2, <2>3, <2>5, <2>6 DEF OwnerInv
<1> QED  BY <1>3, <1>4

(* The block enters the table, or meets a full table, or there is none.    *)
LEMMA InsertTable ==
    ASSUME OwnerInv, NEW t \in Threads, Insert(t)
    PROVE  /\ leaks' \in Seq(Entries) /\ Len(leaks') <= TableSize
           /\ TrackedAreLive'
           /\ ~tracker' => leaks' = <<>>
           /\ \A p : Tracked(p)' => Tracked(p) \/ p = call[t].new_ptr
           /\ \A p : Tracked(p) => Tracked(p)'
           /\ tracker /\ ~dropped' =>
                 ~dropped /\ \A p : p = call[t].new_ptr => Tracked(p)'
<1> Flags /\ Types /\ Locals /\ Owned /\ InTable
  BY DEF OwnerInv
<1>1. /\ UNCHANGED <<tracker, heap>> /\ pc[t] = "insert"
      /\ dropped' = (dropped \/ (tracker /\ Len(leaks) >= TableSize))
  BY DEF Insert, Entered
<1>2. Len(leaks) \in Nat /\ TableSize \in Nat
  BY TrackerAssumption DEF Types
<1>3. CASE tracker /\ Len(leaks) < TableSize
  <2> DEFINE e == [ptr |-> call[t].new_ptr, size |-> call[t].size]
  <2>1. /\ e \in Entries /\ e.ptr = call[t].new_ptr /\ heap[e.ptr] = e.size
        /\ ~Tracked(e.ptr)
    BY <1>1 DEF Entries, Locals, InTable
  <2>2. leaks' = Append(leaks, e)
    BY <1>3 DEF Insert, Enter
  <2> HIDE DEF e
  <2>3. /\ leaks' \in Seq(Entries) /\ Len(leaks') = Len(leaks) + 1
        /\ leaks'[Len(leaks) + 1] = e
        /\ \A i \in 1 .. Len(leaks) : leaks'[i] = leaks[i]
        /\ \A p : Tracked(p)' <=> Tracked(p) \/ p = e.ptr
    BY <2>1, <2>2, EnterTracked
  <2>4. TrackedAreLive'
    <3>1. \A i \in 1 .. Len(leaks') : i = Len(leaks) + 1 \/ i \in 1 .. Len(leaks)
      BY <1>2, <2>3
    <3>2. \A i \in 1 .. Len(leaks) : leaks[i].ptr # e.ptr
      BY <2>1 DEF Tracked
    <3> QED  BY <1>1, <2>1, <2>3, <3>1, <3>2 DEF InTable, TrackedAreLive
  <2>5. Len(leaks') <= TableSize
    BY <1>2, <1>3, <2>3
  <2>6. ~dropped' => ~dropped
    BY <1>1, Zenon
  <2> QED  BY <1>1, <1>3, <2>1, <2>3, <2>4, <2>5, <2>6
<1>4. CASE ~(tracker /\ Len(leaks) < TableSize)
  <2>1. leaks' = leaks
    BY <1>4 DEF Insert, EnterNot
  <2>2. tracker => Len(leaks) >= TableSize
    BY <1>2, <1>4
  <2>3. tracker => dropped'
    BY <1>1, <2>2, Zenon
  <2> QED  BY <1>1, <2>1, <2>3, SameTracked DEF Types, InTable, TrackedAreLive
<1> QED  BY <1>3, <1>4

LEMMA InsertOwner ==
    ASSUME OwnerInv, NEW t \in Threads, Insert(t)
    PROVE  OwnerInv'
<1> Flags /\ Types /\ Locals /\ Owned /\ InTable /\ Moved /\ Watching
  BY DEF OwnerInv
<1>1. /\ UNCHANGED <<tracker, heap, watched>> /\ pc[t] = "insert" /\ call[t].new_ptr \in Ptrs
  BY DEF Insert, Entered, Locals
<1>2. Flags'
  BY <1>1 DEF Flags, Insert, Entered
<1>3. \A u \in Threads : u # t => ~Works(u, call[t].new_ptr)
  BY <1>1 DEF Owned, Works
<1>4. CASE call[t].op = "realloc"
  <2>1. pc' = [pc EXCEPT ![t] = "copy"] /\ UNCHANGED <<holder, call, filled>>
    BY <1>4 DEF Insert, Entered, Go
  <2>2. Types'
    BY <1>1, <2>1, InsertTable DEF Types
  <2>3. \A u \in Threads : pc'[u] = IF u = t THEN "copy" ELSE pc[u]
    BY <2>1 DEF Types
  <2>4. Locals' /\ Owned'
    BY <1>1, <1>4, <2>1, <2>3 DEF Locals, Owned, Works
  <2>5. InTable'
    BY <1>1, <1>3, <2>1, <2>3, InsertTable DEF InTable, Works
  <2>6. Moved'
    <3> SUFFICES ASSUME NEW u \in Threads PROVE Moved!2!(u)'
      BY <1>1, <2>1 DEF Moved
    <3>1. call[u].ptr \in Ptrs => call[u].ptr # call[t].new_ptr
      BY <1>1, <1>3 DEF Owned, Works
    <3>2. call[u].op = "realloc" => (Tracked(call[u].ptr)' <=> Tracked(call[u].ptr))
      BY <2>1, <3>1, InsertTable DEF Locals
    <3> QED  BY <1>1, <2>1, <2>3, <3>2 DEF Moved
  <2>7. Watching'
    BY <1>1, <2>1, <2>3, InsertTable DEF Watching
  <2> QED  BY <1>2, <2>2, <2>4, <2>5, <2>6, <2>7 DEF OwnerInv
<1>5. CASE call[t].op # "realloc"
  <2>1. /\ pc' = [pc EXCEPT ![t] = "idle"] /\ call' = [call EXCEPT ![t] = NoCall]
        /\ holder' = [p \in Ptrs |-> IF p = call[t].new_ptr THEN t ELSE holder[p]]
        /\ filled' = filled \cup {call[t].new_ptr}
    BY <1>5 DEF Insert, Entered, Return, Go
  <2>2. Types'
    BY <1>1, <2>1, NoCallType, InsertTable DEF Types
  <2>3. /\ \A u \in Threads : pc'[u] = IF u = t THEN "idle" ELSE pc[u]
        /\ \A u \in Threads : call'[u] = IF u = t THEN NoCall ELSE call[u]
        /\ \A p \in Ptrs : holder'[p] = IF p = call[t].new_ptr THEN t ELSE holder[p]
    BY <2>1 DEF Types
  <2>4. Locals'
    BY <1>1, <2>3, NoCallType, TrackerAssumption DEF Locals
  <2>5. Owned'
    BY <1>1, <1>3, <2>3, NoCallType, TrackerAssumption DEF Owned, Works
  <2>6. InTable'
    BY <1>1, <1>3, <2>3, InsertTable DEF InTable, Works
  <2>7. Moved'
    <3>1. \A q \in filled' : heap'[q] # 0
      BY <1>1, <2>1 DEF Moved, Owned, Works
    <3> SUFFICES ASSUME NEW u \in Threads, u # t PROVE Moved!2!(u)'
      BY <1>1, <2>3, <3>1, NoCallType DEF Moved
    <3>2. ~Works(u, call[t].new_ptr) /\ call'[u] = call[u] /\ pc'[u] = pc[u]
      BY <1>3, <2>3
    <3>3. call[u].op = "realloc" => (Tracked(call[u].ptr)' <=> Tracked(call[u].ptr))
      BY <3>2, InsertTable DEF Works
    <3>4. /\ call[u].ptr \in filled' <=> call[u].ptr \in filled
          /\ call[u].new_ptr \in filled' <=> call[u].new_ptr \in filled
      BY <2>1, <3>2 DEF Works
    <3> QED  BY <3>2, <3>3, <3>4 DEF Moved
  <2>8. Watching'
    <3>1. ASSUME tracker, ~dropped, NEW q \in watched, ~Tracked(q), q # call[t].new_ptr
          PROVE  \/ \E u \in Threads : pc'[u] = "insert" /\ call'[u].new_ptr = q
                 \/ \E u \in Threads : pc'[u] = "free" /\ call'[u].ptr = q
      BY <1>1, <2>3, <3>1 DEF Watching
    <3> QED  BY <1>1, <3>1, InsertTable DEF Watching
  <2> QED  BY <1>2, <2>2, <2>4, <2>5, <2>6, <2>7, <2>8 DEF OwnerInv
<1> QED  BY <1>4, <1>5

LEMMA CopyOwner ==
    ASSUME OwnerInv, NEW t \in Threads, Copy(t)
    PROVE  OwnerInv'
<1> Flags /\ Types /\ Locals /\ Owned /\ InTable /\ Moved /\ Watching
  BY DEF OwnerInv
<1>1. /\ UNCHANGED <<tracker, leaks, heap, holder, watched, dropped, call>>
      /\ pc[t] = "copy" /\ pc' = [pc EXCEPT ![t] = "untrack"]
      /\ call[t].new_ptr \in Ptrs /\ call[t].op = "realloc"
  BY DEF Copy, Go, table, Locals
<1>2. /\ filled' = IF Tracked(call[t].ptr) /\ call[t].ptr \in filled
                   THEN filled \cup {call[t].new_ptr} ELSE filled
      /\ filled' \in SUBSET Ptrs
  <2>1. Tracked(call[t].ptr) => tracker
    BY DEF InTable, Tracked
  <2> QED  BY <1>1, <2>1 DEF Copy, Types
<1>3. Flags' /\ Types'
  BY <1>1, <1>2 DEF Flags, Types
<1>4. \A u \in Threads : pc'[u] = IF u = t THEN "untrack" ELSE pc[u]
  BY <1>1 DEF Types
<1>5. Locals' /\ Owned'
  BY <1>1, <1>4 DEF Locals, Owned, Works
<1>6. InTable' /\ Watching'
  BY <1>1, <1>4, SameTracked DEF InTable, TrackedAreLive, Watching
<1>7. Moved'
  <2>1. \A q \in filled' : heap'[q] # 0
    BY <1>1, <1>2 DEF Moved, Owned, Works
  <2> SUFFICES ASSUME NEW u \in Threads PROVE Moved!2!(u)'
    BY <2>1 DEF Moved
  <2>2. CASE u = t
    BY <1>1, <1>2, <1>4, <2>2, SameTracked DEF Moved
  <2>3. CASE u # t
    <3>1. ~Works(u, call[t].new_ptr)
      BY <1>1, <2>3 DEF Owned, Works
    <3>2. /\ call[u].ptr \in filled' <=> call[u].ptr \in filled
          /\ call[u].new_ptr \in filled' <=> call[u].new_ptr \in filled
      BY <1>2, <3>1 DEF Works
    <3> QED  BY <1>1, <1>4, <2>3, <3>2, SameTracked DEF Moved
  <2> QED  BY <2>2, <2>3
<1> QED  BY <1>3, <1>5, <1>6, <1>7 DEF OwnerInv

(* The entry of the block goes, and no other.                              *)
LEMMA UntrackTable ==
    ASSUME OwnerInv, NEW t \in Threads, Untrack(t)
    PROVE  /\ leaks' \in Seq(Entries) /\ Len(leaks') <= TableSize
           /\ TrackedAreLive'
           /\ ~tracker' => leaks' = <<>>
           /\ \A p \in Ptrs : Tracked(p)' <=> Tracked(p) /\ p # call[t].ptr
<1> Flags /\ Types /\ Locals /\ Owned /\ InTable
  BY DEF OwnerInv
<1>1. UNCHANGED <<tracker, heap>> /\ pc[t] = "untrack" /\ call[t].ptr \in Ptrs
  BY DEF Untrack, Locals
<1>2. Len(leaks) \in Nat /\ TableSize \in Nat
  BY TrackerAssumption DEF Types
<1>3. CASE tracker /\ Tracked(call[t].ptr)
  <2>1. PICK i \in 1 .. Len(leaks) : leaks[i].ptr = call[t].ptr /\ leaks' = Without(i)
    BY <1>3 DEF Untrack
  <2>2. /\ leaks' \in Seq(Entries) /\ Len(leaks') = Len(leaks) - 1
        /\ \A h \in 1 .. Len(leaks) - 1 :
              leaks'[h] = IF h = i THEN leaks[Len(leaks)] ELSE leaks[h]
    BY <2>1, WithoutProperties
  <2>3. Len(leaks') <= TableSize
    BY <1>2, <2>2 DEF Types
  <2>4. TrackedAreLive'
    <3>1. \A h \in 1 .. Len(leaks') : /\ h \in 1 .. Len(leaks) /\ h # Len(leaks)
                                      /\ Len(leaks) \in 1 .. Len(leaks)
      BY <1>2, <2>2
    <3>2. \A h \in 1 .. Len(leaks') :
             leaks'[h] = IF h = i THEN leaks[Len(leaks)] ELSE leaks[h]
      BY <2>2
    <3> QED  BY <1>1, <3>1, <3>2 DEF InTable, TrackedAreLive
  <2>5. \A p \in Ptrs : Tracked(p)' <=> Tracked(p) /\ p # call[t].ptr
    BY <2>1, WithoutTracked DEF InTable
  <2> QED  BY <1>1, <1>3, <2>2, <2>3, <2>4, <2>5
<1>4. CASE ~(tracker /\ Tracked(call[t].ptr))
  <2>1. leaks' = leaks
    BY <1>4 DEF Untrack
  <2>2. ~Tracked(call[t].ptr)
    BY <1>4 DEF InTable, Tracked
  <2> QED  BY <1>1, <2>1, <2>2, SameTracked DEF Types, InTable, TrackedAreLive
<1> QED  BY <1>3, <1>4

LEMMA UntrackOwner ==
    ASSUME OwnerInv, NEW t \in Threads, Untrack(t)
    PROVE  OwnerInv'
<1> Flags /\ Types /\ Locals /\ Owned /\ InTable /\ Moved /\ Watching
  BY DEF OwnerInv
<1>1. /\ UNCHANGED <<tracker, heap, holder, filled, watched, dropped, call>>
      /\ pc[t] = "untrack" /\ pc' = [pc EXCEPT ![t] = "free"]
      /\ call[t].ptr \in Ptrs /\ call[t].op \in {"realloc", "free"}
  BY DEF Untrack, Go, Locals
<1>2. Flags' /\ Types'
  BY <1>1, UntrackTable DEF Flags, Types
<1>3. \A u \in Threads : pc'[u] = IF u = t THEN "free" ELSE pc[u]
  BY <1>1 DEF Types
<1>4. \A u \in Threads : u # t => ~Works(u, call[t].ptr)
  BY <1>1 DEF Owned, Works
<1>5. Locals' /\ Owned'
  BY <1>1, <1>3 DEF Locals, Owned, Works
<1>6. InTable'
  BY <1>1, <1>3, UntrackTable DEF InTable, Locals
<1>7. Moved'
  BY <1>1, <1>3, <1>4, UntrackTable DEF Moved, Locals, Works
<1>8. Watching'
  <2> SUFFICES ASSUME tracker, ~dropped, NEW q \in watched, ~Tracked(q)'
               PROVE  \/ \E u \in Threads : pc'[u] = "insert" /\ call'[u].new_ptr = q
                      \/ \E u \in Threads : pc'[u] = "free" /\ call'[u].ptr = q
    BY <1>1 DEF Watching
  <2>1. CASE q = call[t].ptr
    BY <1>1, <1>3, <2>1
  <2>2. CASE q # call[t].ptr
    <3>1. ~Tracked(q)
      BY <2>2, UntrackTable DEF Types
    <3> QED  BY <1>1, <1>3, <3>1 DEF Watching
  <2> QED  BY <2>1, <2>2
<1> QED  BY <1>2, <1>5, <1>6, <1>7, <1>8 DEF OwnerInv

(* free: only its owner still knew the block.                              *)
LEMMA FreeOwner ==
    ASSUME OwnerInv, NEW t \in Threads, Free(t)
    PROVE  OwnerInv'
<1> Flags /\ Types /\ Locals /\ Owned /\ InTable /\ Moved /\ Watching
  BY DEF OwnerInv
<1>1. /\ UNCHANGED <<tracker, leaks, dropped>> /\ pc[t] = "free"
      /\ heap' = [heap EXCEPT ![call[t].ptr] = 0]
      /\ filled' = filled \ {call[t].ptr} /\ watched' = watched \ {call[t].ptr}
      /\ holder' = [p \in Ptrs |-> IF p = call[t].new_ptr THEN t ELSE holder[p]]
      /\ call' = [call EXCEPT ![t] = NoCall] /\ pc' = [pc EXCEPT ![t] = "idle"]
  BY DEF Free, table, Return, Go
<1>2. /\ call[t].ptr \in Ptrs /\ ~Tracked(call[t].ptr) /\ call[t].ptr # call[t].new_ptr
      /\ holder[call[t].ptr] = Null
  BY <1>1 DEF Locals, InTable, Owned, Works
<1>3. Flags'
  BY <1>1 DEF Flags
<1>4. Types'
  BY <1>1, NoCallType DEF Types
<1>5. /\ \A u \in Threads : pc'[u] = IF u = t THEN "idle" ELSE pc[u]
      /\ \A u \in Threads : call'[u] = IF u = t THEN NoCall ELSE call[u]
      /\ \A p \in Ptrs : holder'[p] = IF p = call[t].new_ptr THEN t ELSE holder[p]
      /\ \A p \in Ptrs : heap'[p] = IF p = call[t].ptr THEN 0 ELSE heap[p]
  BY <1>1 DEF Types
<1>6. \A u \in Threads : u # t => /\ ~Works(u, call[t].ptr)
                                  /\ call[t].new_ptr \in Ptrs => ~Works(u, call[t].new_ptr)
  BY <1>2 DEF Owned, Works
<1>7. Locals'
  BY <1>5, <1>6, NoCallType, TrackerAssumption DEF Locals, Works
<1>8. Owned'
  BY <1>2, <1>5, <1>6, NoCallType, TrackerAssumption DEF Owned, Works
<1>9. TrackedAreLive'
  BY <1>1, <1>2, <1>5, EntryTypes DEF InTable, TrackedAreLive, Tracked
<1>10. InTable'
  BY <1>1, <1>5, <1>9, SameTracked DEF InTable
<1>11. Moved'
  BY <1>1, <1>2, <1>5, <1>6, NoCallType, SameTracked DEF Moved, Works
<1>12. Watching'
  <2> SUFFICES ASSUME tracker, ~dropped, NEW q \in watched, q # call[t].ptr
               PROVE  \/ Tracked(q)'
                      \/ \E u \in Threads : pc'[u] = "insert" /\ call'[u].new_ptr = q
                      \/ \E u \in Threads : pc'[u] = "free" /\ call'[u].ptr = q
    BY <1>1 DEF Watching
  <2> QED  BY <1>1, <1>5, SameTracked DEF Watching
<1> QED  BY <1>3, <1>4, <1>7, <1>8, <1>10, <1>11, <1>12 DEF OwnerInv

LEMMA NextOwner == OwnerInv /\ [Next]_vars => OwnerInv'
<1> SUFFICES ASSUME OwnerInv, [Next]_vars PROVE OwnerInv'
  OBVIOUS
<1>1. CASE UNCHANGED vars
  <2>1. UNCHANGED <<tracker, leaks, heap, holder, filled, watched, dropped, pc, call>>
    BY <1>1 DEF vars, table
  <2>2. Flags' /\ Types' /\ Locals' /\ Owned' /\ InTable' /\ Moved' /\ Watching'
    BY <2>1, SameTracked DEF OwnerInv, Flags, Types, Locals, Owned, Works, InTable,
       TrackedAreLive, Moved, Watching
  <2> QED  BY <2>2 DEF OwnerInv
<1> QED
  BY <1>1, TrackerOwner, CallMallocOwner, CallFreeOwner, CallReallocOwner, MallocOwner,
     MallocFailsOwner, InsertOwner, CopyOwner, UntrackOwner, FreeOwner DEF Next, Step

-----------------------------------------------------------------------------
(* The totals, action by action.                                           *)

LEMMA EmptySums == \E sum : PartialSums(sum, <<>>) /\ 0 = sum[Len(<<>>)]
<1> DEFINE sum == [i \in 0 .. 0 |-> 0]
<1>1. PartialSums(sum, <<>>) /\ 0 = sum[Len(<<>>)]
  BY DEF PartialSums
<1> QED  BY <1>1

LEMMA EnterTotals ==
    ASSUME OwnerInv, Totals, NEW t \in Threads, pc[t] = "insert", Enter(t)
    PROVE  Totals'
<1> DEFINE e == [ptr |-> call[t].new_ptr, size |-> call[t].size]
           n == Len(leaks)
<1>1. /\ e \in Entries /\ e.size = call[t].size /\ e.size \in Nat /\ leaks' = Append(leaks, e)
      /\ total_allocated' = total_allocated + e.size
  BY TrackerAssumption DEF Entries, OwnerInv, Locals, Enter
<1> HIDE DEF e
<1>2. PICK sum : PartialSums(sum, leaks) /\ total_allocated = sum[n]
  BY DEF Totals
<1>3. /\ n \in Nat /\ Len(leaks') = n + 1 /\ leaks'[n + 1] = e
      /\ \A i \in 1 .. n : leaks'[i] = leaks[i]
  BY <1>1, EnterTracked DEF OwnerInv, Types
<1> HIDE DEF n
<1>4. /\ sum \in [0 .. n -> Nat] /\ sum[0] = 0 /\ sum[n] \in Nat
      /\ \A i \in 1 .. n : sum[i] = sum[i - 1] + leaks[i].size
      /\ \A h, i \in 0 .. n : h <= i => sum[h] <= sum[i]
  BY <1>2, <1>3 DEF PartialSums, n
<1>5. PICK more : /\ more \in [0 .. n + 1 -> Nat] /\ more[0] = 0
                  /\ more[n + 1] = sum[n] + e.size
                  /\ \A i \in 0 .. n : more[i] = sum[i]
  <2> DEFINE m == [i \in 0 .. n + 1 |-> IF i = n + 1 THEN sum[n] + e.size ELSE sum[i]]
  <2>1. /\ m \in [0 .. n + 1 -> Nat] /\ m[0] = 0 /\ m[n + 1] = sum[n] + e.size
        /\ \A i \in 0 .. n : m[i] = sum[i]
    BY <1>1, <1>3, <1>4
  <2> QED  BY <2>1
<1>6. \A i \in 1 .. n + 1 : more[i] = more[i - 1] + leaks'[i].size
  <2> SUFFICES ASSUME NEW i \in 1 .. n + 1 PROVE more[i] = more[i - 1] + leaks'[i].size
    OBVIOUS
  <2>1. CASE i = n + 1
    BY <1>3, <1>4, <1>5, <2>1
  <2>2. CASE i \in 1 .. n
    <3>1. i \in 0 .. n /\ i - 1 \in 0 .. n
      BY <1>3, <2>2
    <3>2. more[i] = sum[i] /\ more[i - 1] = sum[i - 1] /\ leaks'[i] = leaks[i]
      BY <1>3, <1>5, <2>2, <3>1
    <3> QED  BY <1>4, <2>2, <3>2
  <2> QED  BY <1>3, <2>1, <2>2
<1>7. \A h, i \in 0 .. n + 1 : h <= i => more[h] <= more[i]
  <2> SUFFICES ASSUME NEW h \in 0 .. n + 1, NEW i \in 0 .. n + 1, h <= i
               PROVE  more[h] <= more[i]
    OBVIOUS
  <2>1. CASE i \in 0 .. n
    <3>1. h \in 0 .. n
      BY <1>3, <2>1
    <3>2. more[h] = sum[h] /\ more[i] = sum[i]
      BY <1>5, <2>1, <3>1
    <3> QED  BY <1>4, <2>1, <3>1, <3>2
  <2>2. CASE i = n + 1 /\ h \in 0 .. n
    <3>1. sum[h] <= sum[n] /\ sum[h] \in Nat
      BY <1>3, <1>4, <2>2
    <3> QED  BY <1>1, <1>4, <1>5, <2>2, <3>1
  <2>3. CASE i = n + 1 /\ h = n + 1
    BY <1>3, <1>5, <2>3
  <2> QED  BY <1>3, <2>1, <2>2, <2>3
<1>8. PartialSums(more, leaks')
  BY <1>3, <1>5, <1>6, <1>7 DEF PartialSums
<1>9. total_allocated' = more[Len(leaks')]
  BY <1>1, <1>2, <1>3, <1>5
<1>10. /\ total_allocated' \in Nat /\ peak_usage' \in Nat /\ peak_usage' >= total_allocated'
  BY <1>1, <1>2, <1>4 DEF Enter, Totals
<1> QED  BY <1>8, <1>9, <1>10 DEF Totals

LEMMA RemoveTotals ==
    ASSUME OwnerInv, Totals, NEW i \in 1 .. Len(leaks), leaks' = Without(i),
           total_allocated' = total_allocated - leaks[i].size, peak_usage' = peak_usage
    PROVE  Totals'
<1> DEFINE n == Len(leaks)
           a == leaks[i].size
           z == leaks[n].size
<1>1. n \in Nat /\ n \in 1 .. n /\ a \in Nat /\ z \in Nat
  <2>1. n \in Nat /\ n \in 1 .. n
    BY DEF OwnerInv, Types
  <2>2. a \in Sizes /\ z \in Sizes
    BY <2>1, EntryTypes DEF OwnerInv
  <2> QED  BY <2>1, <2>2, TrackerAssumption
<1>2. /\ Len(leaks') = n - 1
      /\ \A j \in 1 .. n - 1 : leaks'[j] = IF j = i THEN leaks[n] ELSE leaks[j]
  BY WithoutProperties DEF OwnerInv
<1>3. PICK sum : PartialSums(sum, leaks) /\ total_allocated = sum[n]
  BY DEF Totals
<1>4. /\ sum \in [0 .. n -> Nat] /\ sum[0] = 0
      /\ \A j \in 1 .. n : sum[j] = sum[j - 1] + leaks[j].size
      /\ \A h, j \in 0 .. n : h <= j => sum[h] <= sum[j]
  BY <1>3 DEF PartialSums
<1>5. sum[i] = sum[i - 1] + a /\ sum[n] = sum[n - 1] + z
  BY <1>1, <1>4
<1> HIDE DEF n, a, z
<1>6. i \in 1 .. n /\ total_allocated' = sum[n] - a
  BY <1>3 DEF n, a
<1>7. \A j \in 0 .. n : sum[j] \in Nat /\ (i <= j => sum[j] - a >= sum[i - 1])
  <2> SUFFICES ASSUME NEW j \in 0 .. n
               PROVE  sum[j] \in Nat /\ (i <= j => sum[j] - a >= sum[i - 1])
    OBVIOUS
  <2>1. i \in 0 .. n /\ i - 1 \in 0 .. n
    BY <1>1, <1>6
  <2>2. sum[j] \in Nat /\ sum[i] \in Nat /\ sum[i - 1] \in Nat
    BY <1>4, <2>1
  <2>3. i <= j => sum[i] <= sum[j]
    BY <1>4, <2>1
  <2> QED  BY <1>1, <1>5, <2>2, <2>3
<1>8. PICK less : /\ less \in [0 .. n - 1 -> Nat]
                  /\ \A j \in 0 .. n - 1 : less[j] = IF j < i THEN sum[j] ELSE sum[j] - a + z
  <2> DEFINE m == [j \in 0 .. n - 1 |-> IF j < i THEN sum[j] ELSE sum[j] - a + z]
  <2>1. ASSUME NEW j \in 0 .. n - 1
        PROVE  (IF j < i THEN sum[j] ELSE sum[j] - a + z) \in Nat
    <3>1. j \in 0 .. n /\ i - 1 \in 0 .. n
      BY <1>1, <1>6
    <3>2. /\ sum[j] \in Nat /\ sum[i - 1] \in Nat
          /\ i <= j => sum[j] - a >= sum[i - 1]
      BY <1>7, <3>1
    <3> QED  BY <1>1, <1>6, <3>1, <3>2
  <2>2. /\ m \in [0 .. n - 1 -> Nat]
        /\ \A j \in 0 .. n - 1 : m[j] = IF j < i THEN sum[j] ELSE sum[j] - a + z
    BY <2>1
  <2> HIDE DEF m
  <2> QED  BY <2>2
<1>9. \A j \in 1 .. n - 1 : less[j] = less[j - 1] + leaks'[j].size
  <2> SUFFICES ASSUME NEW j \in 1 .. n - 1 PROVE less[j] = less[j - 1] + leaks'[j].size
    OBVIOUS
  <2>1. /\ j \in 0 .. n - 1 /\ j - 1 \in 0 .. n - 1 /\ j \in 1 .. n
        /\ j \in 0 .. n /\ j - 1 \in 0 .. n /\ i - 1 \in 0 .. n
    BY <1>1, <1>6
  <2>2. sum[j] \in Nat /\ sum[j - 1] \in Nat /\ sum[j] = sum[j - 1] + leaks[j].size
    BY <1>4, <1>7, <2>1
  <2>3. CASE j < i
    <3>1. less[j] = sum[j] /\ less[j - 1] = sum[j - 1] /\ leaks'[j] = leaks[j]
      BY <1>2, <1>6, <1>8, <2>1, <2>3
    <3> QED  BY <2>2, <3>1
  <2>4. CASE j = i
    <3>1. less[j] = sum[j] - a + z /\ less[j - 1] = sum[j - 1] /\ leaks'[j].size = z
      BY <1>2, <1>6, <1>8, <2>1, <2>4 DEF z
    <3>2. sum[j] = sum[j - 1] + a
      BY <1>5, <2>4
    <3> QED  BY <1>1, <2>2, <3>1, <3>2
  <2>5. CASE j > i
    <3>1. /\ less[j] = sum[j] - a + z /\ less[j - 1] = sum[j - 1] - a + z
          /\ leaks'[j] = leaks[j]
      BY <1>2, <1>6, <1>8, <2>1, <2>5
    <3>2. leaks[j].size \in Sizes
      BY <2>1, EntryTypes DEF n, OwnerInv
    <3>3. leaks[j].size \in Nat
      BY <3>2, TrackerAssumption
    <3>4. leaks'[j].size = leaks[j].size
      BY <3>1
    <3>5. a \in Int /\ z \in Int
      BY <1>1
    <3>6. PICK x, y, d, u, v, p, q :
             /\ x = sum[j] /\ y = sum[j - 1] /\ d = leaks[j].size /\ u = a /\ v = z
             /\ p = less[j] /\ q = less[j - 1]
      OBVIOUS
    <3>7. /\ x \in Int /\ y \in Int /\ d \in Int /\ u \in Int /\ v \in Int
          /\ x = y + d /\ p = x - u + v /\ q = y - u + v
      BY <2>2, <3>1, <3>3, <3>5, <3>6
    <3>8. p = q + d
      BY ONLY <3>7
    <3> QED  BY <3>4, <3>6, <3>8
  <2> QED  BY <1>6, <2>3, <2>4, <2>5
<1>10. \A h, j \in 0 .. n - 1 : h <= j => less[h] <= less[j]
  <2> SUFFICES ASSUME NEW h \in 0 .. n - 1, NEW j \in 0 .. n - 1, h <= j
               PROVE  less[h] <= less[j]
    OBVIOUS
  <2>1. h \in 0 .. n /\ j \in 0 .. n /\ i - 1 \in 0 .. n
    BY <1>1, <1>6
  <2>2. /\ sum[h] \in Nat /\ sum[j] \in Nat /\ sum[i - 1] \in Nat /\ sum[h] <= sum[j]
        /\ h <= i - 1 => sum[h] <= sum[i - 1]
        /\ i <= j => sum[j] - a >= sum[i - 1]
    BY <1>4, <1>7, <2>1
  <2>3. /\ less[h] = IF h < i THEN sum[h] ELSE sum[h] - a + z
        /\ less[j] = IF j < i THEN sum[j] ELSE sum[j] - a + z
    BY <1>8
  <2>4. CASE j < i
    BY <1>6, <2>2, <2>3, <2>4
  <2>5. CASE h < i /\ i <= j
    <3>1. h <= i - 1 /\ ~(j < i)
      BY <1>6, <2>5
    <3> QED  BY <1>1, <2>2, <2>3, <2>5, <3>1
  <2>6. CASE i <= h
    <3>1. ~(h < i) /\ ~(j < i)
      BY <1>6, <2>6
    <3> QED  BY <1>1, <2>2, <2>3, <3>1
  <2> QED  BY <1>6, <2>4, <2>5, <2>6
<1>11. less[0] = 0
  BY <1>1, <1>4, <1>6, <1>8
<1>12. PartialSums(less, leaks')
  BY <1>2, <1>8, <1>9, <1>10, <1>11 DEF PartialSums
<1>13. n - 1 \in 0 .. n - 1 /\ n \in 0 .. n /\ n - 1 \in 0 .. n
  BY <1>1
<1>14. total_allocated' = less[Len(leaks')] /\ total_allocated' \in Nat
  <2>1. less[n - 1] = (IF n - 1 < i THEN sum[n - 1] ELSE sum[n - 1] - a + z) /\ less[n - 1] \in Nat
    BY <1>8, <1>13
  <2>2. sum[n] \in Nat /\ sum[n - 1] \in Nat
    BY <1>7, <1>13
  <2>3. CASE n - 1 < i
    <3>1. i = n /\ a = z
      BY <1>1, <1>6, <2>3 DEF a, z
    <3> QED  BY <1>1, <1>2, <1>5, <1>6, <2>1, <2>2, <2>3, <3>1
  <2>4. CASE ~(n - 1 < i)
    BY <1>1, <1>2, <1>5, <1>6, <2>1, <2>2, <2>4
  <2> QED  BY <2>3, <2>4
<1>15. peak_usage' \in Nat /\ peak_usage' >= total_allocated'
  BY <1>1, <1>14 DEF Totals, a
<1> QED  BY <1>12, <1>14, <1>15 DEF Totals

LEMMA NextTotals == OwnerInv /\ Totals /\ [Next]_vars => Totals'
<1> SUFFICES ASSUME OwnerInv, Totals, [Next]_vars PROVE Totals'
  OBVIOUS
<1>1. ASSUME UNCHANGED <<leaks, total_allocated, peak_usage>> PROVE Totals'
  BY <1>1 DEF Totals
<1>2. CASE TrackerInit \/ TrackerCleanup
  BY <1>2, EmptySums DEF TrackerInit, TrackerCleanup, Totals
<1>3. ASSUME NEW t \in Threads, Insert(t) PROVE Totals'
  <2>1. pc[t] = "insert" /\ (Enter(t) \/ EnterNot)
    BY <1>3 DEF Insert, Entered
  <2> QED  BY <1>1, <2>1, EnterTotals DEF EnterNot
<1>4. ASSUME NEW t \in Threads, Untrack(t) PROVE Totals'
  <2>1. \/ UNCHANGED <<leaks, total_allocated, peak_usage>>
        \/ \E i \in 1 .. Len(leaks) : /\ total_allocated' = total_allocated - leaks[i].size
                                      /\ leaks' = Without(i) /\ peak_usage' = peak_usage
    BY <1>4 DEF Untrack
  <2> QED  BY <1>1, <2>1, RemoveTotals
<1>5. ASSUME NEW t \in Threads,
             \/ CallMalloc(t) \/ CallFree(t) \/ CallRealloc(t) \/ Malloc(t)
             \/ MallocFails(t) \/ Copy(t) \/ Free(t)
      PROVE  Totals'
  BY <1>1, <1>5 DEF CallMalloc, CallFree, CallRealloc, Malloc, MallocFails, Copy, Free, table
<1>6. CASE UNCHANGED vars
  BY <1>1, <1>6 DEF vars, table
<1> QED  BY <1>2, <1>3, <1>4, <1>5, <1>6 DEF Next, Step

-----------------------------------------------------------------------------
(* Who owns a block, and what is in the table, at every moment: OwnerInv   *)
(* and Totals always hold.                                                 *)
THEOREM OwnerInvariance == Spec => [](OwnerInv /\ Totals)
<1>1. Init => OwnerInv /\ Totals
  BY InitOwner, EmptySums DEF Init, Totals
<1> QED  BY <1>1, NextOwner, NextTotals, PTL DEF Spec

(* The tracker's variables keep their types; in particular total_allocated *)
(* never goes below zero and the table never grows past its end.           *)
THEOREM TypeCorrect == Spec => []TypeOK
<1>1. OwnerInv /\ Totals => TypeOK
  BY DEF OwnerInv, Flags, Types, Entries, Totals, TypeOK
<1> QED  BY <1>1, OwnerInvariance, PTL

(* A sum taken with the recursion of Accounted is the one of the partial   *)
(* sums: they agree at 0 and there is no least place where they do not.    *)
LEMMA LeastNat ==
    ASSUME NEW T \in SUBSET Nat, T # {}
    PROVE  \E n \in T : \A m \in T : n <= m
<1> DEFINE R == {ss \in Nat \X Nat : ss[1] < ss[2]}
<1>1. IsWellFoundedOn(R, Nat)
  BY NatLessThanWellFounded, Zenon DEF OpToRel
<1> HIDE DEF R
<1>2. PICK n \in T : \A m \in T : ~ (<<m, n>> \in R)
  BY <1>1, WFMin, Zenon
<1>3. \A m \in T : ~ (m < n)
  BY <1>2 DEF R
<1> QED  BY <1>3

LEMMA SumsAccount == Types /\ Totals => Accounted
<1> SUFFICES ASSUME Types, Totals PROVE Accounted
  OBVIOUS
<1> DEFINE n == Len(leaks)
           Sums(f) == f = [i \in 0 .. n |-> IF i = 0 THEN 0 ELSE f[i - 1] + leaks[i].size]
           sum == CHOOSE f : Sums(f)
<1>1. PICK part : PartialSums(part, leaks) /\ total_allocated = part[n]
  BY DEF Totals
<1>2. n \in Nat
  BY DEF Types
<1> HIDE DEF n
<1>3. /\ part \in [0 .. n -> Nat] /\ part[0] = 0
      /\ \A i \in 1 .. n : part[i] = part[i - 1] + leaks[i].size
  BY <1>1 DEF PartialSums, n
<1>4. Sums(part)
  <2>1. \A i \in 0 .. n : part[i] = IF i = 0 THEN 0 ELSE part[i - 1] + leaks[i].size
    BY <1>2, <1>3
  <2> QED  BY <1>3, <2>1
<1>5. Sums(sum)
  BY <1>4
<1> HIDE DEF sum
<1>6. \A i \in 0 .. n : sum[i] = part[i]
  <2> DEFINE T == {i \in 0 .. n : sum[i] # part[i]}
  <2> SUFFICES ASSUME T # {} PROVE FALSE
    OBVIOUS
  <2>1. PICK i \in T : \A j \in T : i <= j
    <3>1. T \in SUBSET Nat
      BY <1>2
    <3> HIDE DEF T
    <3> QED  BY <3>1, LeastNat
  <2>2. i \in 0 .. n /\ sum[i] # part[i]
    OBVIOUS
  <2>3. i # 0
    BY <1>2, <1>3, <1>5, <2>2
  <2>4. i - 1 \in 0 .. n /\ i \in 1 .. n /\ i - 1 \notin T
    BY <1>2, <2>1, <2>2, <2>3
  <2>5. sum[i] = sum[i - 1] + leaks[i].size
    BY <1>5, <2>2, <2>3
  <2>6. part[i] = part[i - 1] + leaks[i].size
    BY <1>3, <2>4
  <2> QED  BY <2>2, <2>4, <2>5, <2>6
<1>7. total_allocated = sum[n]
  BY <1>1, <1>2, <1>6
<1> QED  BY <1>7 DEF Accounted, Totals, sum, n

(* The table agrees with the heap, and its totals with the table, whatever *)
(* the threads do between malloc, free and the mutex (tracked_malloc,      *)
(* tracked_realloc, tracked_free).                                         *)
THEOREM TableAgrees == Spec => []TableExact
<1>1. OwnerInv /\ Totals => TableExact
  BY SumsAccount DEF OwnerInv, InTable, TableExact
<1> QED  BY <1>1, OwnerInvariance, PTL

(* When malloc succeeds, tracked_realloc returns the data of the old block *)
(* exactly if the table knew that block, although it takes the mutex three *)
(* times and other threads may use the table and the heap in between.      *)
(* A block that is not in the table is not copied (memory_opt.c:369-377),  *)
(* and when malloc fails the old block is freed with its data (381).       *)
THEOREM ReallocMoves == Spec => []ReallocMovesTracked
<1>1. OwnerInv => ReallocMovesTracked
  BY DEF OwnerInv, Moved, ReallocMovesTracked
<1> QED  BY <1>1, OwnerInvariance, PTL

(* A block somebody holds is reported by print_memory_leaks unless a block *)
(* met a full table: only blocks in the middle of an operation are missing.*)
THEOREM LeaksReported == Spec => []ReportComplete
<1>1. OwnerInv => ReportComplete
  BY DEF OwnerInv, Watching, Owned, Works, Types, ReportComplete
<1> QED  BY <1>1, OwnerInvariance, PTL

=============================================================================

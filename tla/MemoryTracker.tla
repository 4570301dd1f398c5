--------------------------- MODULE MemoryTracker ---------------------------
(***************************************************************************)
(* The allocation tracker of src/memory_opt.c: tracked_malloc,             *)
(* tracked_realloc and tracked_free keep a table of the live blocks beside *)
(* the heap.  The table is under one mutex, malloc and free are outside    *)
(* it, so a block is in the heap before it is in the table and leaves the  *)
(* table before it leaves the heap, and the heap may reuse the address     *)
(* for another thread in between.                                          *)
(*                                                                         *)
(* A critical section is one step.  tracked_calloc is a tracked_malloc     *)
(* followed by a memset of the caller's own block.  Blocks are addresses   *)
(* with a size; of their contents only matters whether the caller's data   *)
(* is in them.                                                             *)
(***************************************************************************)
EXTENDS Integers, Sequences

CONSTANTS
    Threads,
    Ptrs,           \* addresses of heap blocks
    Sizes,          \* sizes asked for
    Null,           \* the NULL pointer
    TableSize       \* entries of the table (1024 in the code)

ASSUME TrackerAssumption ==
    /\ Sizes \subseteq Nat \ {0}
    /\ TableSize \in Nat
    /\ Null \notin Ptrs /\ Null \notin Threads

VARIABLES
    tracker,            \* global_tracker is not NULL
    leaks,              \* global_tracker->leaks up to count
    total_allocated,
    peak_usage,
    heap,               \* heap[p]: size of the block at p, 0 if there is none
    holder,             \* holder[p]: the thread whose caller may use the block
    filled,             \* the blocks the caller's data is in
    watched,            \* the blocks allocated since the tracker exists
    dropped,            \* history: a block met a full table
    pc,                 \* pc[t]: where thread t is
    call                \* call[t]: arguments and locals of its operation

table == <<tracker, leaks, total_allocated, peak_usage>>
vars == <<table, heap, holder, filled, watched, dropped, pc, call>>

(* ptr: the block to free; new_ptr, size: the block allocated; intact:     *)
(* ptr was in the table and full of data when the operation began.         *)
NoCall == [op |-> "none", ptr |-> Null, new_ptr |-> Null, size |-> 0,
           intact |-> FALSE]
Calls == [op : {"none", "malloc", "realloc", "free"}, ptr : Ptrs \cup {Null},
          new_ptr : Ptrs \cup {Null}, size : Sizes \cup {0}, intact : BOOLEAN]

Init ==
    /\ tracker = FALSE /\ leaks = <<>> /\ total_allocated = 0 /\ peak_usage = 0
    /\ heap = [p \in Ptrs |-> 0]
    /\ holder = [p \in Ptrs |-> Null]
    /\ filled = {} /\ watched = {} /\ dropped = FALSE
    /\ pc = [t \in Threads |-> "idle"]
    /\ call = [t \in Threads |-> NoCall]

Idle == \A t \in Threads : pc[t] = "idle"

Tracked(p) == \E i \in 1 .. Len(leaks) : leaks[i].ptr = p

-----------------------------------------------------------------------------
(* memory_tracker_init and memory_tracker_cleanup; the latter frees the    *)
(* table, so no operation may be under way.                                *)

TrackerInit ==
    /\ ~tracker /\ Idle
    /\ tracker' = TRUE
    /\ leaks' = <<>> /\ total_allocated' = 0 /\ peak_usage' = 0
    /\ watched' = {} /\ dropped' = FALSE
    /\ UNCHANGED <<heap, holder, filled, pc, call>>

TrackerCleanup ==
    /\ tracker /\ Idle
    /\ tracker' = FALSE
    /\ leaks' = <<>> /\ total_allocated' = 0 /\ peak_usage' = 0
    /\ watched' = {} /\ dropped' = FALSE
    /\ UNCHANGED <<heap, holder, filled, pc, call>>

-----------------------------------------------------------------------------
(* The caller's side.                                                      *)

Go(t, place) == pc' = [pc EXCEPT ![t] = place]

CallMalloc(t) ==
    /\ pc[t] = "idle"
    /\ \E n \in Sizes : call' = [call EXCEPT ![t] = [NoCall EXCEPT !.op = "malloc", !.size = n]]
    /\ Go(t, "malloc")
    /\ UNCHANGED <<table, heap, holder, filled, watched, dropped>>

(* A caller that frees or reallocates its block no longer uses it.         *)
CallFree(t) ==
    /\ pc[t] = "idle"
    /\ \E p \in Ptrs :
         /\ holder[p] = t
         /\ call' = [call EXCEPT ![t] = [NoCall EXCEPT !.op = "free", !.ptr = p]]
         /\ holder' = [holder EXCEPT ![p] = Null]
    /\ Go(t, "untrack")
    /\ UNCHANGED <<table, heap, filled, watched, dropped>>

CallRealloc(t) ==
    /\ pc[t] = "idle"
    /\ \E p \in Ptrs, n \in Sizes :
         /\ holder[p] = t
         /\ call' = [call EXCEPT ![t] = [op |-> "realloc", ptr |-> p, new_ptr |-> Null,
                                         size |-> n, intact |-> Tracked(p) /\ p \in filled]]
         /\ holder' = [holder EXCEPT ![p] = Null]
    /\ Go(t, "malloc")
    /\ UNCHANGED <<table, heap, filled, watched, dropped>>

(* The new block goes to the caller, who fills it if it is a fresh one.    *)
Return(t) ==
    /\ holder' = [p \in Ptrs |-> IF p = call[t].new_ptr THEN t ELSE holder[p]]
    /\ call' = [call EXCEPT ![t] = NoCall]
    /\ Go(t, "idle")

-----------------------------------------------------------------------------
(* tracked_malloc: malloc, then the table.                                 *)

Malloc(t) ==
    /\ pc[t] = "malloc"
    /\ \E p \in Ptrs :
         /\ heap[p] = 0
         /\ heap' = [heap EXCEPT ![p] = call[t].size]
         /\ call' = [call EXCEPT ![t].new_ptr = p]
         /\ watched' = IF tracker THEN watched \cup {p} ELSE watched
    /\ Go(t, "insert")
    /\ UNCHANGED <<table, holder, filled, dropped>>

(* malloc returns NULL: so does tracked_malloc; tracked_realloc goes on    *)
(* and frees the old block all the same.                                   *)
MallocFails(t) ==
    /\ pc[t] = "malloc"
    /\ IF call[t].op = "realloc"
       THEN Go(t, "untrack") /\ UNCHANGED <<holder, call>>
       ELSE Return(t)
    /\ UNCHANGED <<table, heap, filled, watched, dropped>>

(* The block enters the table if there is one and it has room.             *)
(* Mutants: a full table is not noticed; tracked_realloc calls malloc.     *)
Enter(t) ==
    /\ leaks' = Append(leaks, [ptr |-> call[t].new_ptr, size |-> call[t].size])
    /\ total_allocated' = total_allocated + call[t].size
    /\ peak_usage' = IF total_allocated' > peak_usage THEN total_allocated' ELSE peak_usage
EnterNot == UNCHANGED <<leaks, total_allocated, peak_usage>>
Entered(t) ==
    /\ pc[t] = "insert"
    /\ dropped' = (dropped \/ (tracker /\ Len(leaks) >= TableSize))
    /\ IF call[t].op = "realloc"
       THEN Go(t, "copy") /\ UNCHANGED <<holder, call, filled>>
       ELSE Return(t) /\ filled' = filled \cup {call[t].new_ptr}
    /\ UNCHANGED <<tracker, heap, watched>>
InsertUnbounded(t) == (IF tracker THEN Enter(t) ELSE EnterNot) /\ Entered(t)
InsertMallocOnly(t) ==
    /\ IF tracker /\ Len(leaks) < TableSize /\ call[t].op = "malloc" THEN Enter(t) ELSE EnterNot
    /\ Entered(t)
Insert(t) ==
    /\ IF tracker /\ Len(leaks) < TableSize THEN Enter(t) ELSE EnterNot
    /\ Entered(t)

-----------------------------------------------------------------------------
(* tracked_realloc: the old block is copied if the table knows its size.   *)

(* Mutant: the search stops before the last entry.                         *)
CopyShort(t) ==
    /\ pc[t] = "copy"
    /\ filled' = IF /\ tracker /\ call[t].ptr \in filled
                    /\ \E i \in 1 .. Len(leaks) - 1 : leaks[i].ptr = call[t].ptr
                 THEN filled \cup {call[t].new_ptr} ELSE filled
    /\ Go(t, "untrack")
    /\ UNCHANGED <<table, heap, holder, watched, dropped, call>>
Copy(t) ==
    /\ pc[t] = "copy"
    /\ filled' = IF tracker /\ Tracked(call[t].ptr) /\ call[t].ptr \in filled
                 THEN filled \cup {call[t].new_ptr} ELSE filled
    /\ Go(t, "untrack")
    /\ UNCHANGED <<table, heap, holder, watched, dropped, call>>

-----------------------------------------------------------------------------
(* tracked_free: the table, where the last entry takes the place of the    *)
(* one that goes, then free.                                               *)

Without(i) == SubSeq([leaks EXCEPT ![i] = leaks[Len(leaks)]], 1, Len(leaks) - 1)

(* Mutant: the size is subtracted after the entry was overwritten.         *)
UntrackSwapped(t) ==
    /\ pc[t] = "untrack"
    /\ IF tracker /\ Tracked(call[t].ptr)
       THEN \E i \in 1 .. Len(leaks) :
              /\ leaks[i].ptr = call[t].ptr
              /\ total_allocated' = total_allocated - leaks[Len(leaks)].size
              /\ leaks' = Without(i)
       ELSE UNCHANGED <<leaks, total_allocated>>
    /\ Go(t, "free")
    /\ UNCHANGED <<tracker, peak_usage, heap, holder, filled, watched, dropped, call>>
Untrack(t) ==
    /\ pc[t] = "untrack"
    /\ IF tracker /\ Tracked(call[t].ptr)
       THEN \E i \in 1 .. Len(leaks) :
              /\ leaks[i].ptr = call[t].ptr
              /\ \A h \in 1 .. i - 1 : leaks[h].ptr # call[t].ptr
              /\ total_allocated' = total_allocated - leaks[i].size
              /\ leaks' = Without(i)
       ELSE UNCHANGED <<leaks, total_allocated>>
    /\ Go(t, "free")
    /\ UNCHANGED <<tracker, peak_usage, heap, holder, filled, watched, dropped, call>>

Free(t) ==
    /\ pc[t] = "free"
    /\ heap' = [heap EXCEPT ![call[t].ptr] = 0]
    /\ filled' = filled \ {call[t].ptr} /\ watched' = watched \ {call[t].ptr}
    /\ Return(t)
    /\ UNCHANGED <<table, dropped>>

-----------------------------------------------------------------------------
Step(t) ==
    \/ Malloc(t) \/ MallocFails(t) \/ Insert(t) \/ Copy(t) \/ Untrack(t) \/ Free(t)

Next ==
    \/ TrackerInit \/ TrackerCleanup
    \/ \E t \in Threads : CallMalloc(t) \/ CallFree(t) \/ CallRealloc(t) \/ Step(t)

Spec == Init /\ [][Next]_vars

-----------------------------------------------------------------------------
(* Properties.                                                             *)

TypeOK ==
    /\ tracker \in BOOLEAN
    /\ leaks \in Seq([ptr : Ptrs, size : Sizes]) /\ Len(leaks) <= TableSize
    /\ total_allocated \in Nat
    /\ peak_usage \in Nat
    /\ heap \in [Ptrs -> Sizes \cup {0}]
    /\ holder \in [Ptrs -> Threads \cup {Null}]
    /\ filled \in SUBSET Ptrs /\ watched \in SUBSET Ptrs /\ dropped \in BOOLEAN
    /\ pc \in [Threads -> {"idle", "malloc", "insert", "copy", "untrack", "free"}]
    /\ call \in [Threads -> Calls]

(* Every entry of the table is a block that is in the heap now, with its   *)
(* size, and no block has two entries, although blocks enter and leave the *)
(* heap outside the mutex and addresses are reused at once: tracked_free   *)
(* never finds, and tracked_realloc never copies by, an outdated entry.    *)
TrackedAreLive ==
    /\ \A i \in 1 .. Len(leaks) : heap[leaks[i].ptr] = leaks[i].size
    /\ \A i, h \in 1 .. Len(leaks) : leaks[i].ptr = leaks[h].ptr => i = h

(* total_allocated is the sum of the sizes in the table after any sequence *)
(* of operations, so that tracked_free never takes it below zero, and      *)
(* peak_usage has seen it.                                                 *)
Accounted ==
    LET sum[i \in 0 .. Len(leaks)] == IF i = 0 THEN 0 ELSE sum[i - 1] + leaks[i].size
    IN  /\ total_allocated = sum[Len(leaks)]
        /\ peak_usage >= total_allocated

(* The table and its totals agree with the heap at every moment, although  *)
(* tracked_malloc and tracked_free change the two in different steps.      *)
TableExact == TrackedAreLive /\ Accounted

(* What tracked_realloc returns holds the data of the old block exactly    *)
(* when that block was in the table, whatever other threads do to the      *)
(* table and the heap between its three critical sections.  A block the    *)
(* table does not know is replaced by one without its data, and when       *)
(* malloc fails (new_ptr = Null) nothing is returned and the data goes     *)
(* with the old block, which is freed all the same.                        *)
ReallocMovesTracked ==
    \A t \in Threads :
        pc[t] \in {"untrack", "free"} /\ call[t].op = "realloc" /\ call[t].new_ptr # Null
            => (call[t].new_ptr \in filled <=> call[t].intact)

(* Every block held by a caller that was allocated under the tracker is in *)
(* the table, so that an empty table means "No memory leaks detected.", as *)
(* print_memory_leaks says: also for blocks that tracked_realloc moved,    *)
(* with all threads at work, and only until a block met a full table.      *)
ReportComplete ==
    tracker /\ ~dropped => \A p \in watched : holder[p] # Null => Tracked(p)

=============================================================================

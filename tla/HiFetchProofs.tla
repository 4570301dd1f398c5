--------------------------- MODULE HiFetchProofs ---------------------------
(***************************************************************************)
(* Proofs, for every set of threads and machines, every number of command  *)
(* buffers and every length of the cache's life, of what HiFetch promises: *)
(* the cache of get_system_info serves whole and fresh records, a command  *)
(* returns its own output, and every record can be displayed.              *)
(***************************************************************************)
EXTENDS HiFetch, FiniteSetTheorems, TLAPS

-----------------------------------------------------------------------------
(* The values of the cache's variables.  The texts of a record are left to *)
(* the gatherers: the argument is about the stamps.                        *)

Heads(m) == {HeadOf(m)} \cup ForeignHeads(m)
Fields == UNION {Heads(m) \cup {TailOf(m), [x \in DOMAIN HeadOf(m) |-> Blank],
                               [x \in DOMAIN TailOf(m) |-> Blank]} : m \in Machines}
Lines(m) == {lspci(m), <<>>} \cup foreign_lines
GpuCounts == {0} \cup UNION {{get_all_gpus(lines) : lines \in Lines(m)} : m \in Machines}
Halves == [stamp : Stamps, own : BOOLEAN, gpu_count : GpuCounts, field : Fields]
Records == [head : Halves, tail : Halves]
Times == StartTime .. MaxTime
Places == {"out", "look", "copy", "gather", "parse", "gpus", "parse_gpus", "publish",
           "publish_rest", "done"}

Types ==
    /\ machine \in Machines
    /\ now \in Times
    /\ mapping \in {"NULL", "MAP_FAILED", "mapped"}
    /\ cached_info \in Records
    /\ last_update \in {0} \cup Times
    /\ cache_mutex \in Threads \cup {NoThread}
    /\ pc \in [Threads -> Places]
    /\ info \in [Threads -> Records]
    /\ current_time \in [Threads -> {0} \cup Times]
    /\ disturbed \in SUBSET Threads

-----------------------------------------------------------------------------
(* The inductive invariant: Types and the following parts.                 *)

(* Nobody is in get_system_info before main initialised the cache, and     *)
(* only mapped memory was ever filled.                                     *)
Pointer ==
    /\ fault = FALSE
    /\ mapping = "NULL" => /\ main_pc \in {"start", "pools", "exit"}
                           /\ \A t \in Threads : pc[t] = "out"
    /\ main_pc \in {"start", "pools"} => mapping = "NULL"
    /\ mapping # "mapped" => last_update = 0

(* Copies are made with the mutex.                                         *)
Locked == \A t \in Threads : pc[t] \in {"copy", "publish_rest"} => cache_mutex = t

(* A gathering reads the machine after it read the clock.                  *)
Gathering ==
    \A t \in Threads :
        /\ pc[t] \in {"gather", "parse", "gpus", "parse_gpus", "publish"} =>
              current_time[t] \in StartTime .. now
        /\ pc[t] \in {"parse", "gpus", "parse_gpus", "publish"} =>
              /\ info[t].head.stamp # NoStamp
              /\ info[t].head.stamp.at >= current_time[t]

(* A record is whole when it is published and when it is returned, and so  *)
(* far as it is copied.                                                    *)
Whole ==
    \A t \in Threads :
        /\ pc[t] \in {"publish", "publish_rest", "done"} =>
              /\ info[t].head.stamp # NoStamp
              /\ info[t].head.stamp = info[t].tail.stamp
        /\ pc[t] = "copy" => last_update # 0 /\ info[t].head.stamp = cached_info.head.stamp
        /\ pc[t] = "publish_rest" => cached_info.head.stamp = info[t].head.stamp

(* The cache is never older than last_update says, and whole unless a      *)
(* thread is just filling it.                                              *)
CacheFresh ==
    last_update # 0 =>
        /\ cached_info.head.stamp # NoStamp
        /\ cached_info.head.stamp.at >= last_update
        /\ (\A t \in Threads : pc[t] # "publish_rest")
              => cached_info.head.stamp = cached_info.tail.stamp

CacheInv == Types /\ Pointer /\ Locked /\ Gathering /\ Whole /\ CacheFresh

-----------------------------------------------------------------------------
(* Facts about the values.                                                 *)

LEMMA StampTypes ==
    /\ NoStamp \in Stamps
    /\ \A t \in Threads, x \in Times : /\ [by |-> t, at |-> x] \in Stamps
                                       /\ [by |-> t, at |-> x] # NoStamp
  BY ClockAssumption DEF Stamps, Times, NoStamp

LEMMA ZeroType == machine \in Machines => Zero \in Records
<1> SUFFICES ASSUME machine \in Machines PROVE Zero \in Records
  OBVIOUS
<1>1. /\ [x \in DOMAIN HeadOf(machine) |-> Blank] \in Fields
      /\ [x \in DOMAIN TailOf(machine) |-> Blank] \in Fields
  BY DEF Fields
<1> QED
  BY <1>1, StampTypes DEF Zero, ZeroHalf, Records, Halves, GpuCounts

(* Steps that leave the cache and get_system_info alone.                   *)
LEMMA FrameInv ==
    ASSUME CacheInv, UNCHANGED info_vars,
           \/ main_pc' = main_pc
           \/ main_pc = "start" /\ main_pc' = "pools"
    PROVE  CacheInv'
<1> USE DEF info_vars
<1>1. Types' /\ Locked' /\ Gathering' /\ Whole' /\ CacheFresh'
  BY DEF CacheInv, Types, Locked, Gathering, Whole, CacheFresh
<1>2. Pointer'
  BY DEF CacheInv, Pointer
<1> QED  BY <1>1, <1>2 DEF CacheInv

LEMMA InitInv == Init => CacheInv
<1> SUFFICES ASSUME Init PROVE CacheInv
  OBVIOUS
<1> USE DEF Init, InfoInit
<1>1. Types
  BY ZeroType, ClockAssumption DEF Types, Times, Places
<1>2. Pointer /\ Locked /\ Gathering /\ Whole /\ CacheFresh
  BY DEF Pointer, Locked, Gathering, Whole, CacheFresh
<1> QED  BY <1>1, <1>2 DEF CacheInv

(* main: init_fast_cache and the call of get_system_info.                  *)
LEMMA MainCacheInv == ASSUME CacheInv, NEW got, MainCache(got) PROVE CacheInv'
<1> USE DEF MainCache, InitFastCache, MainMoves, parsing, CacheInv
<1>1. mapping = "NULL" /\ last_update = 0 /\ \A t \in Threads : pc[t] = "out"
  BY DEF Pointer
<1>2. Types'
  BY ZeroType DEF Types
<1>3. Pointer'
  BY <1>1 DEF Pointer
<1>4. Locked' /\ Gathering' /\ Whole' /\ CacheFresh'
  BY <1>1 DEF Locked, Gathering, Whole, CacheFresh
<1> QED  BY <1>2, <1>3, <1>4

LEMMA GetInv ==
    ASSUME CacheInv, NEW t \in Threads, GetSystemInfo(t), mapping # "NULL",
           main_pc' = main_pc \/ (main_pc = "cache" /\ main_pc' = "get")
    PROVE  CacheInv'
<1> USE DEF GetSystemInfo, Move, parsing, CacheInv
<1>1. Types'
  BY DEF Types, Places
<1>2. Pointer'
  BY DEF Pointer, Types
<1>3. Locked' /\ Gathering' /\ Whole' /\ CacheFresh'
  BY DEF Types, Locked, Gathering, Whole, CacheFresh
<1> QED  BY <1>1, <1>2, <1>3

(* get_system_info, step by step.                                          *)
LEMMA CacheHitInv ==
    ASSUME CacheInv, NEW t \in Threads, CacheHit(t), main_pc' = main_pc
    PROVE  CacheInv'
<1> USE DEF CacheHit, Move, parsing, CacheInv
<1>1. last_update # 0
  BY ClockAssumption DEF Types, Times
<1>a. mapping = "mapped"
  BY <1>1 DEF Pointer
<1>2. Types'
  BY DEF Types, Places, Records
<1>3. Pointer'
  BY <1>a DEF Pointer
<1>4. /\ info'[t].head = cached_info.head
      /\ \A u \in Threads : u # t => info'[u] = info[u] /\ current_time'[u] = current_time[u]
      /\ \A u \in Threads : pc'[u] = IF u = t THEN "copy" ELSE pc[u]
  BY DEF Types, Records
<1>5. \A u \in Threads : pc[u] \notin {"copy", "publish_rest"}
  BY ClockAssumption DEF Locked
<1>6. Locked'
  BY <1>4, <1>5 DEF Locked
<1>7. Gathering' /\ Whole'
  BY <1>1, <1>4, <1>5 DEF Gathering, Whole
<1>8. CacheFresh'
  BY <1>4, <1>5 DEF CacheFresh
<1> QED  BY <1>2, <1>3, <1>6, <1>7, <1>8

LEMMA CopyRestInv ==
    ASSUME CacheInv, NEW t \in Threads, CopyRest(t), main_pc' = main_pc
    PROVE  CacheInv'
<1> USE DEF CopyRest, Move, parsing, CacheInv
<1>1. Types'
  BY DEF Types, Places, Records
<1>2. Pointer'
  BY DEF Pointer, Types
<1>3. /\ info'[t].head = info[t].head /\ info'[t].tail = cached_info.tail
      /\ \A u \in Threads : u # t => info'[u] = info[u]
      /\ \A u \in Threads : pc'[u] = IF u = t THEN "done" ELSE pc[u]
  BY DEF Types, Records
<1>4. cache_mutex = t /\ \A u \in Threads : u # t => pc[u] \notin {"copy", "publish_rest"}
  BY DEF Locked
<1>5. Locked' /\ Gathering'
  BY <1>3, <1>4 DEF Locked, Gathering
<1>6. Whole'
  BY <1>3, <1>4 DEF Whole, CacheFresh
<1>7. CacheFresh'
  BY <1>3, <1>4 DEF CacheFresh
<1> QED  BY <1>1, <1>2, <1>5, <1>6, <1>7

LEMMA CacheMissInv ==
    ASSUME CacheInv, NEW t \in Threads, CacheMiss(t), main_pc' = main_pc
    PROVE  CacheInv'
<1> USE DEF CacheMiss, Move, parsing, CacheInv
<1>1. Types'
  BY ZeroType DEF Types, Places
<1>2. Pointer'
  BY DEF Pointer, Types
<1>3. /\ current_time'[t] = now
      /\ \A u \in Threads : u # t => info'[u] = info[u] /\ current_time'[u] = current_time[u]
      /\ \A u \in Threads : pc'[u] = IF u = t THEN "gather" ELSE pc[u]
  BY DEF Types
<1>4. Locked' /\ Whole'
  BY <1>3 DEF Locked, Whole
<1>5. Gathering'
  BY <1>3, ClockAssumption DEF Gathering, Types, Times
<1>6. CacheFresh'
  BY <1>3 DEF CacheFresh
<1> QED  BY <1>1, <1>2, <1>4, <1>5, <1>6

LEMMA GatherHeadInv ==
    ASSUME CacheInv, NEW t \in Threads, GatherHead(t), main_pc' = main_pc
    PROVE  CacheInv'
<1> USE DEF GatherHead, Move, CacheInv
<1> DEFINE half == [stamp |-> [by |-> t, at |-> now], own |-> TRUE, gpu_count |-> 0,
                    field |-> HeadOf(machine)]
<1>1. HeadOf(machine) \in Fields
  BY DEF Types, Fields, Heads
<1>2. half \in Halves
  BY <1>1, StampTypes DEF Types, Halves, GpuCounts
<1>3. info' = [info EXCEPT ![t].head = half]
  OBVIOUS
<1>4. half.stamp # NoStamp /\ half.stamp.at = now
  BY StampTypes DEF Types
<1> HIDE DEF half
<1>5. Types'
  BY <1>2, <1>3 DEF Types, Places, Records, BeginParse, Disturb
<1>6. Pointer'
  BY DEF Pointer, Types
<1>7. /\ info'[t].head = half
      /\ \A u \in Threads : u # t => info'[u] = info[u]
      /\ \A u \in Threads : pc'[u] = IF u = t THEN "parse" ELSE pc[u]
  BY <1>3 DEF Types, Records
<1>8. Locked' /\ Whole'
  BY <1>7 DEF Locked, Whole
<1>9. Gathering'
  BY <1>4, <1>7, ClockAssumption DEF Gathering, Types, Times
<1>10. CacheFresh'
  BY <1>7 DEF CacheFresh
<1> QED  BY <1>5, <1>6, <1>8, <1>9, <1>10

(* What a parse leaves in the caller's record.                             *)
LEMMA ParseHeadView ==
    ASSUME Types, NEW t \in Threads, ParseHead(t)
    PROVE  /\ info' \in [Threads -> Records]
           /\ info'[t].tail = info[t].tail
           /\ info'[t].head.stamp = info[t].head.stamp
           /\ info'[t].head.field \in {info[t].head.field} \cup ForeignHeads(machine)
           /\ t \notin disturbed => info' = info
           /\ \A u \in Threads : u # t => info'[u] = info[u]
<1>1. CASE t \notin disturbed
  BY <1>1 DEF ParseHead, Types
<1>2. CASE t \in disturbed
  <2>1. PICK f \in ForeignHeads(machine) :
          info' = [info EXCEPT ![t].head.own = FALSE, ![t].head.field = f]
    BY <1>2 DEF ParseHead
  <2>2. f \in Fields
    BY DEF Types, Fields, Heads
  <2> DEFINE half == [info[t].head EXCEPT !.own = FALSE, !.field = f]
  <2>3. info[t] \in Records /\ info[t].head \in Halves
    BY DEF Types, Records
  <2>4. /\ half \in Halves /\ half.stamp = info[t].head.stamp /\ half.field = f
    BY <2>2, <2>3 DEF Halves
  <2>5. info' = [info EXCEPT ![t].head = half]
    BY <2>1, <2>3 DEF Types, Records, Halves
  <2> HIDE DEF half
  <2> QED  BY <1>2, <2>3, <2>4, <2>5 DEF Types, Records
<1> QED  BY <1>1, <1>2

LEMMA ParseHeadInv ==
    ASSUME CacheInv, NEW t \in Threads, ParseHead(t), main_pc' = main_pc
    PROVE  CacheInv'
<1>1. /\ UNCHANGED <<machine, now, mapping, cached_info, last_update, cache_mutex,
                     current_time, fault>>
      /\ pc[t] = "parse" /\ pc' = [pc EXCEPT ![t] = "gpus"]
      /\ disturbed' = (disturbed \cup {u \in Threads : Parses(u)}) \ {t}
  BY DEF ParseHead, Move, Disturb
<1> USE DEF CacheInv
<1>2. Types'
  BY <1>1, ParseHeadView DEF Types, Places
<1>3. Pointer'
  BY <1>1 DEF Pointer, Types
<1>4. /\ \A u \in Threads : pc'[u] = IF u = t THEN "gpus" ELSE pc[u]
      /\ \A u \in Threads : info'[u].head.stamp = info[u].head.stamp
      /\ \A u \in Threads : info'[u].tail = info[u].tail
  BY <1>1, ParseHeadView DEF Types
<1>5. Locked' /\ Gathering' /\ Whole' /\ CacheFresh'
  BY <1>1, <1>4 DEF Locked, Gathering, Whole, CacheFresh
<1> QED  BY <1>2, <1>3, <1>5

LEMMA BeginGpusInv ==
    ASSUME CacheInv, NEW t \in Threads, NEW own \in BOOLEAN, BeginGpus(t, own),
           main_pc' = main_pc
    PROVE  CacheInv'
<1> USE DEF BeginGpus, BeginParse, Disturb, Move, CacheInv
<1>1. Types'
  BY DEF Types, Places, Records, Halves
<1>2. Pointer'
  BY DEF Pointer, Types
<1>3. /\ info'[t].head = info[t].head
      /\ \A u \in Threads : u # t => info'[u] = info[u]
      /\ \A u \in Threads : pc'[u] = IF u = t THEN "parse_gpus" ELSE pc[u]
  BY DEF Types, Records
<1>4. Locked' /\ Gathering' /\ Whole' /\ CacheFresh'
  BY <1>3 DEF Locked, Gathering, Whole, CacheFresh
<1> QED  BY <1>1, <1>2, <1>4

LEMMA GatherTailInv ==
    ASSUME CacheInv, NEW t \in Threads, NEW from \in {"gpus", "parse_gpus"},
           NEW own \in BOOLEAN, NEW lines \in Lines(machine),
           GatherTail(t, from, own, lines), main_pc' = main_pc,
           disturbed' \in SUBSET Threads
    PROVE  CacheInv'
<1> USE DEF GatherTail, Move, CacheInv
<1> DEFINE half == [stamp |-> info[t].head.stamp, own |-> own,
                    gpu_count |-> get_all_gpus(lines), field |-> TailOf(machine)]
<1>1. TailOf(machine) \in Fields
  BY DEF Types, Fields
<1>2. get_all_gpus(lines) \in GpuCounts
  BY DEF Types, GpuCounts
<1>3. half \in Halves
  BY <1>1, <1>2 DEF Types, Records, Halves
<1>4. info' = [info EXCEPT ![t].tail = half]
  OBVIOUS
<1>5. half.stamp = info[t].head.stamp
  OBVIOUS
<1> HIDE DEF half
<1>6. Types'
  BY <1>3, <1>4 DEF Types, Places, Records
<1>7. Pointer'
  BY DEF Pointer, Types
<1>8. /\ info'[t].head = info[t].head /\ info'[t].tail = half
      /\ \A u \in Threads : u # t => info'[u] = info[u]
      /\ \A u \in Threads : pc'[u] = IF u = t THEN "publish" ELSE pc[u]
  BY <1>4 DEF Types, Records
<1>9. Locked' /\ Gathering' /\ Whole'
  BY <1>5, <1>8 DEF Locked, Gathering, Whole
<1>10. CacheFresh'
  BY <1>8 DEF CacheFresh
<1> QED  BY <1>6, <1>7, <1>9, <1>10

(* The rest of a record is gathered, with or without lines to parse.       *)
LEMMA TailView ==
    ASSUME Types, NEW t \in Threads, NoGpus(t) \/ ParseGpus(t)
    PROVE  \E from \in {"gpus", "parse_gpus"}, own \in BOOLEAN, lines \in Lines(machine) :
             /\ GatherTail(t, from, own, lines)
             /\ ~own => from = "parse_gpus" /\ (t \in disturbed \/ ~info[t].tail.own)
<1>1. CASE NoGpus(t)
  BY <1>1 DEF NoGpus, Lines
<1>2. CASE ParseGpus(t)
  <2>1. CASE t \notin disturbed /\ info[t].tail.own
    BY <1>2, <2>1 DEF ParseGpus, Lines
  <2>2. CASE ~(t \notin disturbed /\ info[t].tail.own)
    BY <1>2, <2>2 DEF ParseGpus, Lines
  <2> QED  BY <2>1, <2>2
<1> QED  BY <1>1, <1>2

LEMMA TailInv ==
    ASSUME CacheInv, NEW t \in Threads, NoGpus(t) \/ ParseGpus(t), main_pc' = main_pc
    PROVE  CacheInv'
<1>1. disturbed' \in SUBSET Threads
  BY DEF NoGpus, ParseGpus, Disturb, CacheInv, Types
<1> QED  BY <1>1, TailView, GatherTailInv DEF CacheInv

LEMMA PublishInv ==
    ASSUME CacheInv, NEW t \in Threads, Publish(t), main_pc' = main_pc
    PROVE  CacheInv'
<1> USE DEF Publish, PublishAs, Move, parsing, CacheInv
<1>1. mapping = "mapped"
  BY DEF Pointer, Types
<1>2. current_time[t] \in Times
  BY ClockAssumption DEF Gathering, Types, Times
<1>3. Types'
  BY <1>2 DEF Types, Places, Records
<1>4. Pointer'
  BY <1>1 DEF Pointer
<1>5. /\ cached_info'.head = info[t].head
      /\ \A u \in Threads : pc'[u] = IF u = t THEN "publish_rest" ELSE pc[u]
  BY DEF Types, Records
<1>6. \A u \in Threads : pc[u] \notin {"copy", "publish_rest"}
  BY ClockAssumption DEF Locked
<1>7. Locked' /\ Gathering'
  BY <1>5, <1>6 DEF Locked, Gathering
<1>8. Whole'
  BY <1>5, <1>6 DEF Whole
<1>9. CacheFresh'
  BY <1>5 DEF CacheFresh, Gathering
<1> QED  BY <1>3, <1>4, <1>7, <1>8, <1>9

LEMMA PublishRestInv ==
    ASSUME CacheInv, NEW t \in Threads, PublishRest(t), main_pc' = main_pc
    PROVE  CacheInv'
<1> USE DEF PublishRest, Move, parsing, CacheInv
<1>1. Types'
  BY DEF Types, Places, Records
<1>2. Pointer'
  BY DEF Pointer, Types
<1>3. /\ cached_info'.head = cached_info.head /\ cached_info'.tail = info[t].tail
      /\ \A u \in Threads : pc'[u] = IF u = t THEN "done" ELSE pc[u]
  BY DEF Types, Records
<1>4. \A u \in Threads : u # t => pc[u] \notin {"copy", "publish_rest"}
  BY DEF Locked
<1>5. Locked' /\ Gathering' /\ Whole'
  BY <1>3, <1>4 DEF Locked, Gathering, Whole
<1>6. CacheFresh'
  BY <1>3 DEF CacheFresh, Whole
<1> QED  BY <1>1, <1>2, <1>5, <1>6

LEMMA NoPublishInv ==
    ASSUME CacheInv, NEW t \in Threads, NoPublish(t), main_pc' = main_pc
    PROVE  CacheInv'
<1> USE DEF NoPublish, Move, parsing, CacheInv
<1>1. Types'
  BY DEF Types, Places
<1>2. Pointer' /\ Locked' /\ Gathering' /\ Whole' /\ CacheFresh'
  BY DEF Types, Pointer, Locked, Gathering, Whole, CacheFresh
<1> QED  BY <1>1, <1>2

(* The caller is done with its record.                                     *)
LEMMA ReturnInv ==
    ASSUME CacheInv, NEW t \in Threads, Return(t), main_pc' = main_pc
    PROVE  CacheInv'
<1> USE DEF Return, Move, parsing, CacheInv
<1>1. Types'
  BY ZeroType DEF Types, Places
<1>2. Pointer'
  BY DEF Pointer, Types
<1>3. /\ \A u \in Threads : u # t => info'[u] = info[u] /\ current_time'[u] = current_time[u]
      /\ \A u \in Threads : pc'[u] = IF u = t THEN "out" ELSE pc[u]
  BY DEF Types
<1>4. Locked' /\ Gathering' /\ Whole' /\ CacheFresh'
  BY <1>3 DEF Locked, Gathering, Whole, CacheFresh
<1> QED  BY <1>1, <1>2, <1>4

LEMMA TickInv == ASSUME CacheInv, Tick, main_pc' = main_pc PROVE CacheInv'
<1> USE DEF Tick, parsing, CacheInv
<1>1. Types'
  BY ClockAssumption DEF Types, Times
<1>2. Pointer' /\ Locked' /\ Whole' /\ CacheFresh'
  BY DEF Pointer, Locked, Whole, CacheFresh
<1>3. Gathering'
  BY ClockAssumption DEF Gathering, Types, Times
<1> QED  BY <1>1, <1>2, <1>3

(* The end of the process.                                                 *)
LEMMA ExitInv == ASSUME CacheInv, Exit PROVE CacheInv'
<1> USE DEF Exit, InfoExit
<1>1. Zero \in Records /\ Zero' = Zero
  BY ZeroType DEF CacheInv, Types, Zero
<1>2. Types'
  BY <1>1, ClockAssumption DEF CacheInv, Types, Times, Places
<1>3. Pointer' /\ Locked' /\ Gathering' /\ Whole' /\ CacheFresh'
  BY DEF Pointer, Locked, Gathering, Whole, CacheFresh
<1> QED  BY <1>2, <1>3 DEF CacheInv

(* Every step of every thread, and of the clock.                           *)
LEMMA ThreadInv ==
    ASSUME CacheInv, NEW t \in Threads, ThreadStep(t)
    PROVE  CacheInv'
<1>1. CASE GpuCommand(t)
  BY <1>1, FrameInv DEF GpuCommand
<1>2. CASE GpuLines(t)
  <2>1. main_pc' = main_pc
    BY <1>2 DEF GpuLines
  <2>2. (text[taken[t]] = ticket[t]) \in BOOLEAN
    OBVIOUS
  <2> QED  BY <1>2, <2>1, <2>2, TailInv, BeginGpusInv DEF GpuLines
<1>3. CASE InfoStep(t) /\ UNCHANGED <<cmd_vars, main_pc, calls, running>>
  BY <1>3, CacheHitInv, CopyRestInv, CacheMissInv, GatherHeadInv, ParseHeadInv, TailInv,
     PublishInv, PublishRestInv, NoPublishInv DEF InfoStep
<1>4. CASE CmdStep(t) /\ UNCHANGED <<info_vars, main_pc, calls, running>>
  BY <1>4, FrameInv
<1> QED  BY <1>1, <1>2, <1>3, <1>4 DEF ThreadStep

LEMMA NextInv == CacheInv /\ [Next]_vars => CacheInv'
<1> SUFFICES ASSUME CacheInv, [Next]_vars PROVE CacheInv'
  OBVIOUS
<1>1. CASE MainStep
  <2>1. CASE MainPools
    BY <2>1, FrameInv DEF MainPools, MainMoves
  <2>2. CASE \E got \in {"mapped", "MAP_FAILED"} : MainCache(got)
    BY <2>2, MainCacheInv
  <2>3. CASE MainGet
    <3>1. mapping # "NULL"
      BY <2>3 DEF MainGet, MainMoves, CacheInv, Pointer
    <3> QED  BY <2>3, <3>1, GetInv, MainAssumption DEF MainGet, MainMoves
  <2>4. CASE MainDisplay
    BY <2>4, ExitInv DEF MainDisplay
  <2> QED  BY <1>1, <2>1, <2>2, <2>3, <2>4, ThreadInv, MainAssumption DEF MainStep
<1>2. ASSUME NEW t \in Others, OtherStep(t) \/ OtherGets(t) \/ OtherCommand(t) PROVE CacheInv'
  <2>1. t \in Threads
    BY DEF Others
  <2>2. CASE OtherReturns(t)
    <3>1. main_pc' = main_pc
      BY <2>2 DEF OtherReturns
    <3>2. CASE Return(t)
      BY <2>1, <3>1, <3>2, ReturnInv
    <3>3. CASE UNCHANGED info_vars
      BY <3>1, <3>3, FrameInv
    <3> QED  BY <2>2, <3>2, <3>3 DEF OtherReturns
  <2>3. CASE OtherGets(t)
    <3>1. GetSystemInfo(t) /\ mapping # "NULL" /\ main_pc' = main_pc
      BY <2>3 DEF OtherGets
    <3> QED  BY <2>1, <3>1, GetInv
  <2>4. CASE OtherCommand(t)
    BY <2>4, FrameInv DEF OtherCommand
  <2> QED  BY <1>2, <2>1, <2>2, <2>3, <2>4, ThreadInv DEF OtherStep
<1>3. CASE SignalHandler
  BY <1>3, ExitInv DEF SignalHandler
<1>4. CASE Tick /\ UNCHANGED <<cmd_vars, main_pc, calls, running>>
  BY <1>4, TickInv
<1>5. CASE UNCHANGED vars
  BY <1>5, FrameInv DEF vars
<1> QED  BY <1>1, <1>2, <1>3, <1>4, <1>5 DEF Next

-----------------------------------------------------------------------------
(* The locking and time-keeping of get_system_info: CacheInv always holds. *)
THEOREM CacheInvariance == Spec => []CacheInv
  BY InitInv, NextInv, PTL DEF Spec

(* get_system_info never reads or writes its cache through NULL or         *)
(* MAP_FAILED, on any machine and with any number of threads.              *)
THEOREM OnlyMapped == Spec => []OnlyMappedMemory
<1>1. CacheInv => OnlyMappedMemory
  BY DEF CacheInv, Pointer, OnlyMappedMemory
<1> QED  BY <1>1, CacheInvariance, PTL

(* A record that get_system_info serves from the cache was read from the   *)
(* machine less than Second before, whoever published it and whenever.     *)
THEOREM ServedIsFresh == Spec => ServedFresh
<1> DEFINE Young == \A t \in Threads : (pc[t] = "look" /\ pc'[t] = "copy")
                      => /\ info'[t].head.stamp # NoStamp
                         /\ now - info'[t].head.stamp.at < Second
<1>1. ASSUME CacheInv, CacheInv', [Next]_vars PROVE [Young]_info_vars
  <2> SUFFICES ASSUME NEW t \in Threads, pc[t] = "look", pc'[t] = "copy"
               PROVE  /\ info'[t].head.stamp # NoStamp
                      /\ now - info'[t].head.stamp.at < Second
    OBVIOUS
  <2>1. pc' # pc
    OBVIOUS
  <2>2. ~Exit
    BY DEF Exit, InfoExit
  <2>3. PICK u \in Threads : \/ GetSystemInfo(u) \/ InfoStep(u) \/ Return(u) \/ NoGpus(u)
                            \/ \E own : BeginGpus(u, own)
    BY <1>1, <2>1, <2>2, MainAssumption
    DEF Next, MainStep, MainPools, MainCache, InitFastCache, MainGet, MainDisplay,
        ThreadStep, GpuCommand, GpuLines, Others, OtherStep, OtherGets, OtherCommand,
        OtherReturns, SignalHandler, Tick, vars, info_vars
  <2>a. PICK place : pc' = [pc EXCEPT ![u] = place] /\ (place = "copy" => CacheHit(u))
    BY <1>1, <2>3
    DEF GetSystemInfo, InfoStep, Return, GatherTail, CopyRest, CacheMiss, GatherHead,
        ParseHead, ParseGpus, BeginGpus, NoGpus, Publish, PublishAs, PublishRest,
        NoPublish, CacheHit, Move
  <2>b. CacheHit(t)
    BY <1>1, <2>a DEF CacheInv, Types
  <2>4. last_update' # 0 /\ info'[t].head.stamp = cached_info'.head.stamp
    BY <1>1 DEF CacheInv, Whole
  <2>5. info'[t].head.stamp # NoStamp /\ info'[t].head.stamp.at >= last_update
    BY <1>1, <2>b, <2>4 DEF CacheInv, CacheFresh, CacheHit
  <2>6. info'[t].head.stamp \in Stamps
    BY <1>1 DEF CacheInv, Types, Records, Halves
  <2>7. info'[t].head.stamp.at \in Int /\ now \in Int /\ last_update \in Int
    BY <1>1, <2>5, <2>6, ClockAssumption DEF CacheInv, Types, Stamps, Times
  <2> QED  BY <2>b, <2>5, <2>7, ClockAssumption DEF CacheHit
<1> QED  BY <1>1, CacheInvariance, PTL DEF Spec, ServedFresh

-----------------------------------------------------------------------------
(* The command buffers.  A buffer is told by how many commands took one    *)
(* since: as long as these are fewer than the buffers, no two commands     *)
(* under way have the same.                                                *)

CmdPlaces == {"idle", "fill", "fill_and_take", "take", "wipe", "run", "held", "nothing"}

CmdTypes ==
    /\ cmd_buffer_pool \in [Slots -> Slots \cup {Null}]
    /\ pool_index \in Slots
    /\ DOMAIN text \subseteq Buffers /\ text \in [DOMAIN text -> Nat]
    /\ cmd_pc \in [Threads -> CmdPlaces]
    /\ ticket \in [Threads -> Nat]
    /\ taken \in [Threads -> DOMAIN text \cup {Null}]
    /\ started \in Nat /\ fills \in Nat

(* The pool is allocated before a buffer is taken, and once: each buffer   *)
(* is in its slot.                                                         *)
Filled ==
    /\ \A t \in Threads : cmd_pc[t] \in {"take", "wipe", "run", "held", "nothing"}
                            => pool_initialized
    /\ ~pool_initialized => fills = 0 /\ \A i \in Slots : cmd_buffer_pool[i] = Null
    /\ \A i \in Slots : cmd_buffer_pool[i] \in {i, Null}
    /\ DOMAIN text = {Fallback} \cup {i \in Slots : cmd_buffer_pool[i] = i}

(* The buffer taken d commands before the newest.                          *)
Back(d) == IF d < pool_index THEN pool_index - 1 - d ELSE pool_index - 1 - d + NBufs

Ticketed ==
    /\ \A t \in Threads : InUse(t) => ticket[t] \in 1 .. started
    /\ \A t, u \in Threads : InUse(t) /\ InUse(u) /\ ticket[t] = ticket[u] => t = u

Near ==
    ~lapped => \A t \in Threads : InUse(t) =>
        /\ started - ticket[t] < NBufs
        /\ taken[t] \in {Fallback, Back(started - ticket[t])}

(* The fallback is with one command at a time unless it was crowded.       *)
Alone ==
    /\ \A t \in Threads : InUse(t) => taken[t] \in DOMAIN text
    /\ \A t \in Threads : cmd_pc[t] = "wipe" => taken[t] = Fallback
    /\ ~crowded => \A t, u \in Threads :
         InUse(t) /\ InUse(u) /\ taken[t] = Fallback /\ taken[u] = Fallback => t = u

CmdInv == CmdTypes /\ Filled /\ Ticketed /\ Near /\ Alone /\ OwnText

LEMMA NextSlot == \A p \in Slots : (p + 1) % NBufs = IF p + 1 = NBufs THEN 0 ELSE p + 1
  BY BufferAssumption DEF Slots

(* As long as the ring was not lapped and the fallback not crowded, the    *)
(* buffers in use are distinct.                                            *)
LEMMA Distinct ==
    ASSUME CmdTypes, Ticketed, Near, Alone, NEW t \in Threads, NEW u \in Threads, t # u,
           InUse(t), InUse(u), IF taken[t] = Fallback THEN ~crowded ELSE ~lapped
    PROVE  taken[t] # taken[u]
<1>1. CASE taken[t] = Fallback
  BY <1>1 DEF Alone
<1>2. CASE taken[t] # Fallback
  <2> DEFINE d == started - ticket[t]
             e == started - ticket[u]
  <2>1. d \in 0 .. NBufs - 1 /\ e \in 0 .. NBufs - 1 /\ d # e
    BY <1>2, BufferAssumption DEF CmdTypes, Ticketed, Near
  <2>2. taken[t] = Back(d) /\ taken[u] \in {Fallback, Back(e)}
    BY <1>2 DEF Near
  <2> HIDE DEF d, e
  <2>3. Back(d) # Back(e)
    BY <2>1, BufferAssumption DEF Back, CmdTypes, Slots
  <2> QED  BY <1>2, <2>2, <2>3
<1> QED  BY <1>1, <1>2

LEMMA CmdInitInv == CmdInit => CmdInv
<1> SUFFICES ASSUME CmdInit PROVE CmdInv
  OBVIOUS
<1>1. CmdTypes /\ Filled
  BY BufferAssumption
  DEF CmdInit, CmdTypes, CmdPlaces, Filled, Slots, Buffers, Fallback, Null, NoText
<1>2. Ticketed /\ Near /\ Alone /\ OwnText
  BY DEF CmdInit, Ticketed, Near, Alone, OwnText, InUse
<1> QED  BY <1>1, <1>2 DEF CmdInv

(* A thread moves in execute_cmd_fast without a buffer, or lets it go.     *)
LEMMA MoveInv ==
    ASSUME CmdInv, NEW t \in Threads,
           NEW place \in {"idle", "fill", "fill_and_take", "take", "nothing"},
           cmd_pc' = [cmd_pc EXCEPT ![t] = place],
           place \in {"take", "nothing"} => pool_initialized,
           UNCHANGED <<cmd_buffer_pool, pool_index, pool_initialized, text, started, history>>,
           \A u \in Threads : u # t => ticket'[u] = ticket[u] /\ taken'[u] = taken[u],
           ticket' \in [Threads -> Nat], taken' \in [Threads -> DOMAIN text \cup {Null}]
    PROVE  CmdInv'
<1> CmdTypes /\ Filled /\ Ticketed /\ Near /\ Alone /\ OwnText
  BY DEF CmdInv
<1> USE DEF history
<1>1. CmdTypes'
  BY DEF CmdTypes, CmdPlaces
<1>2. \A u \in Threads : cmd_pc'[u] = IF u = t THEN place ELSE cmd_pc[u]
  BY DEF CmdTypes
<1>3. Filled'
  BY <1>2 DEF Filled
<1>4. \A u \in Threads : InUse(u)' => InUse(u) /\ u # t
  BY <1>2 DEF InUse
<1>5. Ticketed'
  BY <1>4 DEF Ticketed
<1>6. Near'
  BY <1>4 DEF Near, Back
<1>7. Alone'
  BY <1>2, <1>4 DEF Alone
<1>8. OwnText'
  BY <1>2 DEF OwnText
<1> QED  BY <1>1, <1>3, <1>5, <1>6, <1>7, <1>8 DEF CmdInv

LEMMA FillPoolInv ==
    ASSUME CmdInv, NEW t \in Threads, NEW failed \in SUBSET MayFail, FillPool(t, failed)
    PROVE  CmdInv'
<1> CmdTypes /\ Filled /\ Ticketed /\ Near /\ Alone /\ OwnText
  BY DEF CmdInv
<1>1. PICK place \in {"idle", "take"} : cmd_pc' = [cmd_pc EXCEPT ![t] = place]
  BY DEF FillPool, FillAgain, AfterFill, Goto
<1>2. \A u \in Threads : cmd_pc[u] \notin {"take", "wipe", "run", "held", "nothing"}
  BY DEF Filled, FillPool
<1>3. \A u \in Threads : cmd_pc'[u] = IF u = t THEN place ELSE cmd_pc[u]
  BY <1>1 DEF CmdTypes
<1>4. \A u \in Threads : ~InUse(u)'
  BY <1>2, <1>3 DEF InUse
<1>5. pool_initialized' /\ fills = 0 /\ fills' = 1
  BY DEF FillPool, FillAgain, Filled
<1>6. \A i \in Slots : Fresh(i) = i
  BY <1>5, BufferAssumption DEF Fresh, Slots
<1>7. /\ cmd_buffer_pool' = [i \in Slots |-> IF i \in failed THEN Null ELSE i]
      /\ \A i \in Slots : i # Null
  BY <1>6 DEF FillPool, FillAgain, Null, Slots
<1> DEFINE new == Slots \ failed
<1>8. {Fresh(i) : i \in Slots \ failed} = new
  BY <1>6
<1>9. /\ DOMAIN text = {Fallback}
      /\ text' = [b \in DOMAIN text \cup new |-> IF b \in new THEN NoText ELSE text[b]]
  BY <1>7, <1>8 DEF FillPool, FillAgain, Filled
<1>10. CmdTypes'
  <2>1. DOMAIN text' \subseteq Buffers /\ text' \in [DOMAIN text' -> Nat]
    BY <1>9 DEF CmdTypes, NoText, Buffers
  <2>2. taken' \in [Threads -> DOMAIN text' \cup {Null}]
    BY <1>9 DEF CmdTypes, FillPool, FillAgain
  <2>3. UNCHANGED <<pool_index, ticket, started>>
    BY DEF FillPool, FillAgain
  <2> QED  BY <1>1, <1>5, <1>7, <2>1, <2>2, <2>3 DEF CmdTypes, CmdPlaces
<1>11. Filled'
  BY <1>5, <1>7, <1>9 DEF Filled
<1>12. Ticketed' /\ Near' /\ Alone' /\ OwnText'
  BY <1>4 DEF Ticketed, Near, Alone, OwnText, InUse
<1> QED  BY <1>10, <1>11, <1>12 DEF CmdInv

LEMMA TakeBufferInv == ASSUME CmdInv, NEW t \in Threads, TakeBuffer(t) PROVE CmdInv'
<1> CmdTypes /\ Filled /\ Ticketed /\ Near /\ Alone /\ OwnText
  BY DEF CmdInv
<1> UNCHANGED <<cmd_buffer_pool, pool_initialized, text, fills>>
  BY DEF TakeBuffer, Take
<1>1. PICK b \in {Fallback, pool_index}, place \in {"wipe", "run"} :
        /\ taken' = [taken EXCEPT ![t] = b] /\ b \in DOMAIN text
        /\ cmd_pc' = [cmd_pc EXCEPT ![t] = place] /\ (place = "wipe" => b = Fallback)
        /\ crowded' = (crowded \/ (b = Fallback /\ \E u \in Threads :
                                     InUse(u) /\ taken[u] = Fallback))
  <2>1. pool_index \in Slots /\ pool_index # Null /\ pool_index # Fallback
    BY DEF CmdTypes, Null, Fallback, Slots
  <2>2. CASE cmd_buffer_pool[pool_index] = Null
    BY <2>2 DEF TakeBuffer, Take, Filled, Goto
  <2>3. CASE cmd_buffer_pool[pool_index] = pool_index
    BY <2>1, <2>3 DEF TakeBuffer, Take, Filled, Goto
  <2> QED  BY <2>1, <2>2, <2>3 DEF Filled
<1>2. /\ cmd_pc[t] = "take" /\ started' = started + 1
      /\ ticket' = [ticket EXCEPT ![t] = started + 1]
      /\ pool_index' = (pool_index + 1) % NBufs
  BY DEF TakeBuffer, Take, Goto
<1>3. pool_index' = IF pool_index + 1 = NBufs THEN 0 ELSE pool_index + 1
  BY <1>2, NextSlot DEF CmdTypes
<1>5. CmdTypes'
  <2>1. pool_index' \in Slots
    BY <1>3, BufferAssumption DEF CmdTypes, Slots
  <2>2. taken' \in [Threads -> DOMAIN text \cup {Null}]
    BY <1>1 DEF CmdTypes
  <2>3. cmd_pc' \in [Threads -> CmdPlaces]
    BY <1>1 DEF CmdTypes, CmdPlaces
  <2>4. ticket' \in [Threads -> Nat] /\ started' \in Nat
    BY <1>2 DEF CmdTypes
  <2>5. DOMAIN text' = DOMAIN text
    OBVIOUS
  <2> QED  BY <2>1, <2>2, <2>3, <2>4, <2>5 DEF CmdTypes
<1>6. /\ \A u \in Threads : cmd_pc'[u] = IF u = t THEN place ELSE cmd_pc[u]
      /\ \A u \in Threads : ticket'[u] = IF u = t THEN started + 1 ELSE ticket[u]
      /\ \A u \in Threads : taken'[u] = IF u = t THEN b ELSE taken[u]
  BY <1>1, <1>2 DEF CmdTypes
<1>7. \A u \in Threads : InUse(u)' <=> u = t \/ InUse(u)
  BY <1>6 DEF InUse
<1>8. ~InUse(t)
  BY <1>2 DEF InUse
<1>9. Filled'
  BY <1>2, <1>6 DEF Filled
<1>10. Ticketed'
  <2>1. \A u \in Threads : InUse(u)' => ticket'[u] \in 1 .. started'
    BY <1>2, <1>6, <1>7 DEF Ticketed, CmdTypes
  <2>2. \A u \in Threads : InUse(u) => ticket[u] # started + 1
    BY DEF Ticketed, CmdTypes
  <2>3. \A u, w \in Threads : InUse(u)' /\ InUse(w)' /\ ticket'[u] = ticket'[w] => u = w
    BY <1>6, <1>7, <2>2 DEF Ticketed
  <2> QED  BY <2>1, <2>3 DEF Ticketed
<1>11. Near'
  <2> SUFFICES ASSUME ~lapped', NEW u \in Threads, InUse(u)'
               PROVE  /\ started' - ticket'[u] < NBufs
                      /\ taken'[u] \in {Fallback, Back(started - ticket[u])'}
    BY DEF Near
  <2>1. ~lapped /\ \A w \in Threads : InUse(w) => ~(started + 1 - ticket[w] >= NBufs)
    BY DEF TakeBuffer, Take
  <2>2. CASE u = t
    <3>1. started' - ticket'[u] = 0 /\ taken'[u] = b
      BY <1>2, <1>6, <2>2 DEF CmdTypes
    <3>2. \A d : d = 0 => Back(d)' = pool_index
      BY <1>3, BufferAssumption DEF Back, CmdTypes, Slots
    <3> QED  BY <1>1, <3>1, <3>2, BufferAssumption
  <2>3. CASE u # t
    <3>1. InUse(u) /\ ticket[u] \in 1 .. started
      BY <1>7, <2>3 DEF Ticketed
    <3> DEFINE d == started - ticket[u]
    <3>2. /\ started' - ticket'[u] = d + 1 /\ d \in Nat /\ taken'[u] = taken[u]
      BY <1>2, <1>6, <2>3, <3>1 DEF CmdTypes
    <3>3. d + 1 < NBufs
      BY <1>2, <2>1, <3>1, BufferAssumption DEF CmdTypes
    <3>4. taken[u] \in {Fallback, Back(d)}
      BY <2>1, <3>1 DEF Near
    <3> HIDE DEF d
    <3>5. \A e : e = d + 1 => Back(e)' = Back(d)
      BY <1>3, <3>2, <3>3, BufferAssumption DEF Back, CmdTypes, Slots
    <3> QED  BY <3>2, <3>3, <3>4, <3>5
  <2> QED  BY <2>2, <2>3
<1>12. Alone'
  <2>1. \A u \in Threads : InUse(u)' => taken'[u] \in DOMAIN text
    BY <1>1, <1>6, <1>7 DEF Alone
  <2>2. \A u \in Threads : cmd_pc'[u] = "wipe" => taken'[u] = Fallback
    BY <1>1, <1>6 DEF Alone
  <2>3. ~crowded' => ~crowded /\ (b = Fallback => \A u \in Threads :
                                    InUse(u) => taken[u] # Fallback)
    BY <1>1
  <2>4. ~crowded' => \A u, w \in Threads : InUse(u)' /\ InUse(w)' /\ taken'[u] = Fallback
                                             /\ taken'[w] = Fallback => u = w
    BY <1>6, <1>7, <2>3 DEF Alone
  <2> QED  BY <2>1, <2>2, <2>4 DEF Alone
<1>13. OwnText'
  <2>1. (lapped => lapped') /\ (crowded => crowded')
    BY DEF TakeBuffer, Take
  <2> QED  BY <1>1, <1>6, <2>1 DEF OwnText
<1> QED  BY <1>5, <1>9, <1>10, <1>11, <1>12, <1>13 DEF CmdInv

(* A command writes to its buffer: it wipes the fallback, or reads.        *)
LEMMA WriteInv ==
    ASSUME CmdInv, NEW t \in Threads, NEW n \in {ticket[t], NoText},
           NEW from \in {"wipe", "run"}, NEW place \in {"run", "held", "nothing"},
           cmd_pc[t] = from, cmd_pc' = [cmd_pc EXCEPT ![t] = place],
           text' = [text EXCEPT ![taken[t]] = n], place = "held" => n = ticket[t],
           UNCHANGED <<cmd_buffer_pool, pool_index, pool_initialized, ticket, taken,
                       started, history>>
    PROVE  CmdInv'
<1> CmdTypes /\ Filled /\ Ticketed /\ Near /\ Alone /\ OwnText
  BY DEF CmdInv
<1> USE DEF history
<1>1. \A u \in Threads : cmd_pc'[u] = IF u = t THEN place ELSE cmd_pc[u]
  BY DEF CmdTypes
<1>2. n \in Nat
  BY DEF CmdTypes, NoText
<1>3. CmdTypes'
  BY <1>2 DEF CmdTypes, CmdPlaces
<1>4. Filled'
  BY <1>1 DEF Filled
<1>5. InUse(t) /\ \A u \in Threads : InUse(u)' => InUse(u)
  BY <1>1 DEF InUse
<1>6. Ticketed' /\ Near'
  BY <1>5 DEF Ticketed, Near, Back
<1>7. Alone'
  BY <1>1, <1>5 DEF Alone
<1>8. OwnText'
  <2> SUFFICES ASSUME NEW u \in Threads, cmd_pc'[u] = "held",
                      IF taken[u] = Fallback THEN ~crowded ELSE ~lapped
               PROVE  text'[taken[u]] = ticket[u]
    BY DEF OwnText
  <2>1. InUse(u) /\ taken[u] \in DOMAIN text
    BY <1>5 DEF InUse, Alone
  <2>2. CASE u = t
    BY <1>1, <2>1, <2>2 DEF CmdTypes
  <2>3. CASE u # t
    <3>1. taken[u] # taken[t]
      BY <1>5, <2>1, <2>3, Distinct
    <3>2. text[taken[u]] = ticket[u]
      BY <1>1, <2>3 DEF OwnText
    <3> QED  BY <2>1, <3>1, <3>2 DEF CmdTypes
  <2> QED  BY <2>2, <2>3
<1> QED  BY <1>3, <1>4, <1>6, <1>7, <1>8 DEF CmdInv

LEMMA RunCommandInv ==
    ASSUME CmdInv, NEW t \in Threads, NEW some \in BOOLEAN, RunCommand(t, some) PROVE CmdInv'
<1>1. CASE some
  BY <1>1, WriteInv DEF RunCommand, Goto
<1>2. CASE ~some
  BY <1>2, WriteInv DEF RunCommand, Goto
<1> QED  BY <1>1, <1>2

LEMMA WipeInv == ASSUME CmdInv, NEW t \in Threads, WipeFallback(t) PROVE CmdInv'
<1>1. taken[t] = Fallback
  BY DEF WipeFallback, Goto, CmdInv, Alone
<1> QED  BY <1>1, WriteInv DEF WipeFallback, Goto

LEMMA CmdFrame == CmdInv /\ UNCHANGED cmd_vars => CmdInv'
<1> SUFFICES ASSUME CmdInv, UNCHANGED cmd_vars PROVE CmdInv'
  OBVIOUS
<1> UNCHANGED <<cmd_buffer_pool, pool_index, pool_initialized, text, cmd_pc, ticket,
                taken, started, fills, lapped, crowded>>
  BY DEF cmd_vars
<1> QED  BY DEF CmdInv, CmdTypes, Filled, Ticketed, Near, Back, Alone, InUse, OwnText

LEMMA OptimizeInv ==
    ASSUME CmdInv, NEW t \in Threads, NEW on \in {"idle", "take"}, OptimizeMemoryPools(t, on)
    PROVE  CmdInv'
<1>1. PICK place \in {"idle", "take", "fill", "fill_and_take"} :
        cmd_pc' = [cmd_pc EXCEPT ![t] = place] /\ (place = "take" => pool_initialized)
  BY DEF OptimizeMemoryPools
<1> QED  BY <1>1, MoveInv DEF OptimizeMemoryPools, CmdInv, CmdTypes

LEMMA ReleaseInv == ASSUME CmdInv, NEW t \in Threads, Release(t) PROVE CmdInv'
<1>1. CmdTypes
  BY DEF CmdInv
<1>2. ticket' \in [Threads -> Nat] /\ taken' \in [Threads -> DOMAIN text \cup {Null}]
  BY <1>1 DEF Release, CmdTypes, NoText
<1>3. \A u \in Threads : u # t => ticket'[u] = ticket[u] /\ taken'[u] = taken[u]
  BY <1>1 DEF Release, CmdTypes
<1> QED  BY <1>2, <1>3, MoveInv DEF Release

LEMMA CmdStepInv == ASSUME CmdInv, NEW t \in Threads, CmdStep(t) PROVE CmdInv'
<1>1. CASE FillDone(t)
  <2>1. PICK place \in {"idle", "take"} : cmd_pc' = [cmd_pc EXCEPT ![t] = place]
    BY <1>1 DEF FillDone, AfterFill, Goto
  <2> QED  BY <1>1, <2>1, MoveInv DEF FillDone, CmdInv, CmdTypes
<1>2. CASE PopenFails(t)
  <2>1. pool_initialized
    BY <1>2 DEF PopenFails, Goto, CmdInv, Filled
  <2> QED  BY <1>2, <2>1, MoveInv DEF PopenFails, Goto, CmdInv, CmdTypes
<1> QED  BY <1>1, <1>2, FillPoolInv, TakeBufferInv, WipeInv, RunCommandInv DEF CmdStep

(* The end of the process, and the start of it.                            *)
LEMMA CmdExitInv == CmdExit => CmdInv'
<1> SUFFICES ASSUME CmdExit PROVE CmdInv'
  OBVIOUS
<1>1. CmdTypes' /\ Filled'
  BY BufferAssumption
  DEF CmdExit, CmdTypes, CmdPlaces, Filled, Slots, Buffers, Fallback, Null, NoText
<1>2. Ticketed' /\ Near' /\ Alone' /\ OwnText'
  BY DEF CmdExit, Ticketed, Near, Alone, OwnText, InUse
<1> QED  BY <1>1, <1>2 DEF CmdInv

(* Every step of the program, as the command buffers see it.               *)
LEMMA CmdView ==
    ASSUME [Next]_vars
    PROVE  \/ UNCHANGED cmd_vars
           \/ Exit /\ CmdExit
           \/ \E t \in Threads : \/ \E on \in {"idle", "take"} : OptimizeMemoryPools(t, on)
                                 \/ Release(t) \/ CmdStep(t)
<1>1. CASE MainStep
  BY <1>1, MainAssumption
  DEF MainStep, MainPools, MainCache, MainGet, MainDisplay, ThreadStep, GpuCommand, GpuLines,
      ExecuteCmdFast, Exit
<1>2. ASSUME NEW t \in Others, OtherStep(t) \/ OtherGets(t) \/ OtherCommand(t)
      PROVE  \/ UNCHANGED cmd_vars
             \/ \E on \in {"idle", "take"} : OptimizeMemoryPools(t, on)
             \/ Release(t) \/ CmdStep(t)
  BY <1>2
  DEF OtherStep, OtherGets, OtherCommand, OtherReturns, ThreadStep, GpuCommand, GpuLines,
      ExecuteCmdFast
<1> QED  BY <1>1, <1>2 DEF Next, SignalHandler, Exit, Tick, vars, Others

LEMMA CmdNextInv == CmdInv /\ [Next]_vars => CmdInv'
  BY CmdView, CmdFrame, OptimizeInv, ReleaseInv, CmdStepInv, CmdExitInv

THEOREM CmdInvariance == Spec => []CmdInv
<1>1. Init => CmdInv
  BY CmdInitInv DEF Init
<1> QED  BY <1>1, CmdNextInv, PTL DEF Spec

(* A caller of execute_cmd_fast works on the output of its own command     *)
(* unless the ring was lapped, or has the fallback unless that was shared, *)
(* and the pool is allocated once, for every number of buffers and         *)
(* whichever of them got no memory.                                        *)
THEOREM OutputIsOwn == Spec => []OwnOutput
<1>1. CmdInv => NoBufferLost
  BY DEF CmdInv, Filled, NoBufferLost
<1>2. CmdInv => OwnOutput
  BY <1>1 DEF CmdInv, OwnOutput
<1> QED  BY <1>2, CmdInvariance, PTL

-----------------------------------------------------------------------------
(* The lines of a record.  As long as no parse began within another's, at  *)
(* most one thread parses, and nobody disturbs it; with the command's own  *)
(* output, what is gathered is then the gatherer's own.                    *)

OwnRecord(r) == r.head.own /\ r.tail.own
OwnRecords == OwnRecord(cached_info) /\ \A t \in Threads : OwnRecord(info[t])

Mine ==
    /\ ~overlapped =>
         /\ disturbed = {}
         /\ \A t, u \in Threads : Parses(t) /\ Parses(u) => t = u
    /\ ~overlapped /\ ~lapped /\ ~crowded => OwnRecords

(* Every step of the program, as get_system_info sees it.                  *)
LEMMA InfoView ==
    ASSUME CacheInv, [Next]_vars
    PROVE  \/ \E t \in Threads : \/ GetSystemInfo(t) \/ CacheHit(t) \/ CopyRest(t) \/ CacheMiss(t)
                                 \/ GatherHead(t) \/ ParseHead(t) \/ NoGpus(t) \/ ParseGpus(t)
                                 \/ Publish(t) \/ PublishRest(t) \/ NoPublish(t) \/ Return(t)
                                 \/ cmd_pc[t] = "held" /\ BeginGpus(t, text[taken[t]] = ticket[t])
           \/ mapping = "NULL" /\ \E got \in {"mapped", "MAP_FAILED"} : InitFastCache(got)
           \/ Exit \/ Tick \/ UNCHANGED info_vars
<1>1. ASSUME NEW t \in Threads, ThreadStep(t)
      PROVE  \/ NoGpus(t)
             \/ cmd_pc[t] = "held" /\ BeginGpus(t, text[taken[t]] = ticket[t])
             \/ InfoStep(t)
             \/ UNCHANGED info_vars
  BY <1>1 DEF ThreadStep, GpuCommand, GpuLines
<1>2. CASE MainStep
  <2>1. CASE ThreadStep(Main)
    BY <1>1, <2>1, MainAssumption DEF InfoStep
  <2>2. CASE ~ThreadStep(Main)
    BY <1>2, <2>2, MainAssumption
    DEF MainStep, MainPools, MainGet, MainDisplay, MainCache, MainMoves, CacheInv, Pointer
  <2> QED  BY <2>1, <2>2
<1>3. ASSUME NEW t \in Others, OtherStep(t) \/ OtherGets(t) \/ OtherCommand(t)
      PROVE  \/ t \in Threads /\ ThreadStep(t)
             \/ t \in Threads /\ (GetSystemInfo(t) \/ Return(t))
             \/ UNCHANGED info_vars
  BY <1>3 DEF Others, OtherStep, OtherReturns, OtherGets, OtherCommand
<1>4. CASE \E t \in Others : OtherStep(t) \/ OtherGets(t) \/ OtherCommand(t)
  BY <1>1, <1>3, <1>4 DEF InfoStep
<1>5. CASE SignalHandler \/ (Tick /\ UNCHANGED <<cmd_vars, main_pc, calls, running>>) \/ UNCHANGED vars
  BY <1>5 DEF SignalHandler, vars
<1> QED  BY <1>2, <1>4, <1>5 DEF Next

(* While the process lives, what was lapped or crowded stays so.           *)
LEMMA StaysLapped ==
    ASSUME [Next]_vars, ~Exit
    PROVE  (lapped => lapped') /\ (crowded => crowded')
<1>1. CASE \E t \in Threads : TakeBuffer(t)
  BY <1>1, Zenon DEF TakeBuffer, Take
<1>2. CASE lapped' = lapped /\ crowded' = crowded
  BY <1>2, Zenon
<1>3. (lapped' = lapped /\ crowded' = crowded) \/ \E t \in Threads : TakeBuffer(t)
  BY CmdView
  DEF cmd_vars, history, OptimizeMemoryPools, Release, CmdStep, FillDone, FillPool, FillAgain,
      WipeFallback, RunCommand, PopenFails
<1> QED  BY <1>1, <1>2, <1>3, Zenon

(* Steps that begin no parse, and those that do.                           *)
LEMMA MineFrame ==
    ASSUME Mine, UNCHANGED parsing, lapped => lapped', crowded => crowded',
           \A t \in Threads : Parses(t)' => Parses(t),
           OwnRecords => OwnRecords'
    PROVE  Mine'
  BY DEF Mine, parsing

LEMMA MineParse ==
    ASSUME Mine, NEW t \in Threads, BeginParse(t), lapped => lapped', crowded => crowded',
           \A u \in Threads : u # t /\ Parses(u)' => Parses(u),
           OwnRecords /\ ~overlapped /\ ~lapped /\ ~crowded => OwnRecords'
    PROVE  Mine'
<1>1. ASSUME ~overlapped'
      PROVE  ~overlapped /\ \A u \in Threads : Parses(u) => u = t
  BY <1>1 DEF BeginParse
<1>2. ASSUME ~overlapped' PROVE disturbed' = {}
  BY <1>1, <1>2 DEF Mine, BeginParse, Disturb
<1>3. ASSUME ~overlapped'
      PROVE  \A u, w \in Threads : Parses(u)' /\ Parses(w)' => u = w
  BY <1>1, <1>3
<1> QED  BY <1>1, <1>2, <1>3 DEF Mine

LEMMA MineNext == CacheInv /\ CmdInv /\ Mine /\ [Next]_vars => Mine'
<1> SUFFICES ASSUME CacheInv, CmdInv, Mine, [Next]_vars PROVE Mine'
  OBVIOUS
<1> USE DEF OwnRecords, OwnRecord
<1>1. CASE Exit
  BY <1>1 DEF Exit, InfoExit, CmdExit, Zero, ZeroHalf, Mine, Parses
<1>a. ASSUME ~Exit PROVE (lapped => lapped') /\ (crowded => crowded')
  BY <1>a, StaysLapped
<1>2. ASSUME ~Exit, NEW t \in Threads, GetSystemInfo(t) \/ CacheMiss(t) \/ NoPublish(t) \/ Return(t)
      PROVE  Mine'
  <2>1. UNCHANGED parsing /\ \A u \in Threads : Parses(u)' => Parses(u)
    BY <1>2 DEF GetSystemInfo, CacheMiss, NoPublish, Return, Move, Parses, CacheInv, Types
  <2>2. /\ cached_info' = cached_info
        /\ \A u \in Threads : info'[u] \in {info[u], Zero}
    BY <1>2 DEF GetSystemInfo, CacheMiss, NoPublish, Return, CacheInv, Types
  <2>3. Zero.head.own /\ Zero.tail.own
    BY DEF Zero, ZeroHalf
  <2>4. OwnRecords => OwnRecords'
    BY <2>2, <2>3
  <2> QED  BY <1>a, <1>2, <2>1, <2>4, MineFrame
<1>3. ASSUME ~Exit, NEW t \in Threads, CacheHit(t) \/ CopyRest(t) PROVE Mine'
  <2>1. UNCHANGED parsing /\ \A u \in Threads : Parses(u)' => Parses(u)
    BY <1>3 DEF CacheHit, CopyRest, Move, Parses, CacheInv, Types
  <2>2. /\ cached_info' = cached_info
        /\ \A u \in Threads : /\ info'[u].head \in {info[u].head, cached_info.head}
                              /\ info'[u].tail \in {info[u].tail, cached_info.tail}
    BY <1>3 DEF CacheHit, CopyRest, CacheInv, Types, Records
  <2>3. OwnRecords => OwnRecords'
    BY <2>2
  <2> QED  BY <1>a, <1>3, <2>1, <2>3, MineFrame
<1>4. ASSUME ~Exit, NEW t \in Threads, Publish(t) \/ PublishRest(t) PROVE Mine'
  <2>1. UNCHANGED parsing /\ \A u \in Threads : Parses(u)' => Parses(u)
    BY <1>4 DEF Publish, PublishAs, PublishRest, Move, Parses, CacheInv, Types
  <2>2. /\ info' = info
        /\ cached_info'.head \in {cached_info.head, info[t].head}
        /\ cached_info'.tail \in {cached_info.tail, info[t].tail}
    BY <1>4 DEF Publish, PublishAs, PublishRest, CacheInv, Types, Records
  <2>3. OwnRecords => OwnRecords'
    BY <2>2
  <2> QED  BY <1>a, <1>4, <2>1, <2>3, MineFrame
<1>5. ASSUME ~Exit, NEW t \in Threads, GatherHead(t) PROVE Mine'
  <2>1. \A u \in Threads : u # t /\ Parses(u)' => Parses(u)
    BY <1>5 DEF GatherHead, Move, Parses, CacheInv, Types
  <2>2. /\ cached_info' = cached_info /\ info'[t].head.own /\ info'[t].tail = info[t].tail
        /\ \A u \in Threads : u # t => info'[u] = info[u]
    BY <1>5 DEF GatherHead, CacheInv, Types, Records
  <2>3. OwnRecords => OwnRecords'
    BY <2>2
  <2> QED  BY <1>a, <1>5, <2>1, <2>3, MineParse DEF GatherHead
<1>6. ASSUME ~Exit, NEW t \in Threads, ParseHead(t) PROVE Mine'
  <2>1. /\ pc[t] = "parse" /\ pc' = [pc EXCEPT ![t] = "gpus"] /\ cached_info' = cached_info
        /\ overlapped' = overlapped
        /\ disturbed' = (disturbed \cup {u \in Threads : Parses(u)}) \ {t}
    BY <1>6 DEF ParseHead, Move, Disturb
  <2>2. ASSUME ~overlapped
        PROVE  /\ info' = info /\ disturbed' = {}
               /\ \A u, w \in Threads : Parses(u)' /\ Parses(w)' => u = w
    <3>1. disturbed = {} /\ \A u \in Threads : Parses(u) => u = t
      BY <2>1, <2>2 DEF Mine, Parses
    <3>2. info' = info
      BY <1>6, <3>1 DEF ParseHead
    <3>3. \A u \in Threads : Parses(u)' => Parses(u)
      BY <2>1 DEF Parses, CacheInv, Types
    <3> QED  BY <2>1, <3>1, <3>2, <3>3
  <2> QED  BY <1>a, <1>6, <2>1, <2>2 DEF Mine
<1>7. ASSUME ~Exit, NEW t \in Threads, NoGpus(t) PROVE Mine'
  <2>1. UNCHANGED parsing /\ \A u \in Threads : Parses(u)' => Parses(u)
    BY <1>7 DEF NoGpus, GatherTail, Move, Parses, parsing, CacheInv, Types
  <2>2. /\ cached_info' = cached_info /\ info'[t].tail.own /\ info'[t].head = info[t].head
        /\ \A u \in Threads : u # t => info'[u] = info[u]
    BY <1>7 DEF NoGpus, GatherTail, CacheInv, Types, Records
  <2>3. OwnRecords => OwnRecords'
    BY <2>2
  <2> QED  BY <1>a, <1>7, <2>1, <2>3, MineFrame
<1>8. ASSUME ~Exit, NEW t \in Threads, ParseGpus(t) PROVE Mine'
  <2>1. PICK from \in {"gpus", "parse_gpus"}, own \in BOOLEAN, lines \in Lines(machine) :
          /\ GatherTail(t, from, own, lines)
          /\ ~own => from = "parse_gpus" /\ (t \in disturbed \/ ~info[t].tail.own)
    BY <1>8, TailView DEF CacheInv
  <2>2. /\ pc[t] = "parse_gpus" /\ pc' = [pc EXCEPT ![t] = "publish"]
        /\ overlapped' = overlapped /\ cached_info' = cached_info
        /\ disturbed' = (disturbed \cup {u \in Threads : Parses(u)}) \ {t}
    BY <1>8 DEF ParseGpus, GatherTail, Move, Disturb
  <2>3. /\ info'[t].tail.own = own /\ info'[t].head = info[t].head
        /\ \A u \in Threads : u # t => info'[u] = info[u]
    BY <2>1 DEF GatherTail, CacheInv, Types, Records
  <2>4. ASSUME ~overlapped
        PROVE  /\ disturbed = {} /\ disturbed' = {}
               /\ \A u, w \in Threads : Parses(u)' /\ Parses(w)' => u = w
    <3>1. disturbed = {} /\ \A u \in Threads : Parses(u) => u = t
      BY <2>2, <2>4 DEF Mine, Parses
    <3>2. \A u \in Threads : Parses(u)' => Parses(u)
      BY <2>2 DEF Parses, CacheInv, Types
    <3> QED  BY <2>2, <3>1, <3>2
  <2>5. ASSUME ~overlapped, OwnRecords PROVE OwnRecords'
    BY <2>1, <2>2, <2>3, <2>4, <2>5
  <2> QED  BY <1>a, <1>8, <2>2, <2>4, <2>5 DEF Mine
<1>9. ASSUME ~Exit, NEW t \in Threads, cmd_pc[t] = "held",
             BeginGpus(t, text[taken[t]] = ticket[t])
      PROVE  Mine'
  <2>1. \A u \in Threads : u # t /\ Parses(u)' => Parses(u)
    BY <1>9 DEF BeginGpus, Move, Parses, CacheInv, Types
  <2>2. /\ cached_info' = cached_info
        /\ info'[t].head = info[t].head /\ info'[t].tail.own = (text[taken[t]] = ticket[t])
        /\ \A u \in Threads : u # t => info'[u] = info[u]
    BY <1>9 DEF BeginGpus, CacheInv, Types, Records, Halves
  <2>3. ~lapped /\ ~crowded => text[taken[t]] = ticket[t]
    BY <1>9 DEF CmdInv, OwnText
  <2>4. OwnRecords /\ ~overlapped /\ ~lapped /\ ~crowded => OwnRecords'
    BY <2>2, <2>3
  <2> QED  BY <1>a, <1>9, <2>1, <2>4, MineParse DEF BeginGpus
<1>10. ASSUME ~Exit, NEW got \in {"mapped", "MAP_FAILED"}, InitFastCache(got) PROVE Mine'
  <2>1. OwnRecords => OwnRecords'
    BY <1>10 DEF InitFastCache, Zero, ZeroHalf
  <2> QED  BY <1>a, <1>10, <2>1, MineFrame DEF InitFastCache, Parses
<1>11. CASE ~Exit /\ (Tick \/ UNCHANGED info_vars)
  BY <1>a, <1>11, MineFrame DEF Tick, info_vars, parsing, Parses
<1> QED  BY <1>1, <1>2, <1>3, <1>4, <1>5, <1>6, <1>7, <1>8, <1>9, <1>10, <1>11, InfoView

(* No caller of get_system_info gets a record put together from two        *)
(* gatherings, however the threads that gather, publish and copy overlap;  *)
(* and what was parsed for it are its own lines, unless a parse began      *)
(* within another thread's, or its command had no buffer of its own.       *)
THEOREM RecordsWhole == Spec => []OneGathering
<1>1. Init => Mine
  BY DEF Init, InfoInit, Mine, Parses, OwnRecords, OwnRecord, Zero, ZeroHalf
<1>2. CacheInv /\ CmdInv /\ Mine => OneGathering
  BY DEF CacheInv, Whole, Mine, OwnRecords, OwnRecord, OneGathering
<1> QED  BY <1>1, <1>2, MineNext, CacheInvariance, CmdInvariance, PTL DEF Spec

-----------------------------------------------------------------------------
(* The bound on commands: main and the others count each command they run  *)
(* before they run it.                                                     *)

(* Where a thread is in execute_cmd_fast goes with where it is in          *)
(* get_system_info and in main.                                            *)
Control ==
    /\ main_pc \in {"start", "pools", "cache", "get", "exit"}
    /\ main_pc = "exit" => running = FALSE
    /\ main_pc \in {"start", "pools", "cache"} => pc[Main] = "out"
    /\ main_pc \in {"start", "cache"} => cmd_pc[Main] = "idle"
    /\ main_pc = "pools" => cmd_pc[Main] \in {"idle", "fill"}
    /\ main_pc = "get" => pc[Main] # "out" /\ cmd_pc[Main] # "fill"
    /\ \A t \in Others : cmd_pc[t] # "fill"
    /\ \A t \in Threads : pc[t] \notin {"out", "gpus"} => cmd_pc[t] = "idle"

(* The threads that have counted a command whose buffer is not taken yet.  *)
Pending ==
    {t \in Threads :
        \/ cmd_pc[t] \in {"fill_and_take", "take"}
        \/ pc[t] \in {"look", "gather", "parse"}
        \/ pc[t] = "gpus" /\ cmd_pc[t] = "idle"
        \/ t = Main /\ main_pc \in {"start", "pools", "cache"}}

Budget == calls \in 1 .. MaxCommands /\ started + Cardinality(Pending) <= calls

BudgetInv == Control /\ Budget

LEMMA PendingSize ==
    ASSUME NEW P, NEW Q, P \subseteq Threads, Q \subseteq Threads
    PROVE  /\ Cardinality(P) \in Nat /\ Cardinality(Q) \in Nat
           /\ Q \subseteq P => Cardinality(Q) <= Cardinality(P)
           /\ \A t \in P : Q \subseteq P \ {t} => Cardinality(Q) + 1 <= Cardinality(P)
           /\ \A t : Q \subseteq P \cup {t} => Cardinality(Q) <= Cardinality(P) + 1
<1>1. IsFiniteSet(P) /\ IsFiniteSet(Q)
  BY MainAssumption, FS_Subset
<1>2. Cardinality(P) \in Nat /\ Cardinality(Q) \in Nat
  BY <1>1, FS_CardinalityType
<1>3. Q \subseteq P => Cardinality(Q) <= Cardinality(P)
  BY <1>1, FS_Subset
<1>4. ASSUME NEW t \in P, Q \subseteq P \ {t} PROVE Cardinality(Q) + 1 <= Cardinality(P)
  <2>1. IsFiniteSet(P \ {t}) /\ Cardinality(P \ {t}) = Cardinality(P) - 1
    BY <1>1, FS_RemoveElement
  <2>2. Cardinality(Q) <= Cardinality(P \ {t})
    BY <1>4, <2>1, FS_Subset
  <2> QED  BY <1>2, <2>1, <2>2
<1>5. ASSUME NEW t, Q \subseteq P \cup {t} PROVE Cardinality(Q) <= Cardinality(P) + 1
  <2>1. /\ IsFiniteSet(P \cup {t})
        /\ Cardinality(P \cup {t}) = Cardinality(P) \/ Cardinality(P \cup {t}) = Cardinality(P) + 1
    BY <1>1, FS_AddElement
  <2>2. Cardinality(Q) <= Cardinality(P \cup {t})
    BY <1>5, <2>1, FS_Subset
  <2> QED  BY <1>2, <2>1, <2>2
<1> QED  BY <1>2, <1>3, <1>4, <1>5

(* Nothing was started or called, and nobody has anything new to start.    *)
LEMMA LessPending ==
    ASSUME Budget, started \in Nat, Pending' \subseteq Pending, UNCHANGED <<started, calls>>
    PROVE  Budget'
<1> DEFINE p == Cardinality(Pending)
           q == Cardinality(Pending')
<1>1. p \in Nat /\ q \in Nat /\ q <= p /\ calls \in Int
  BY PendingSize DEF Pending, Budget
<1>2. started + p <= calls /\ calls \in 1 .. MaxCommands
  BY DEF Budget
<1> HIDE DEF p, q
<1>3. started + q <= calls
  BY <1>1, <1>2
<1> QED  BY <1>2, <1>3 DEF Budget, q

(* Whether thread t is pending at the places p and q.                      *)
Waits(t, p, q) ==
    \/ q \in {"fill_and_take", "take"} \/ p \in {"look", "gather", "parse"}
    \/ p = "gpus" /\ q = "idle"
    \/ t = Main /\ main_pc \in {"start", "pools", "cache"}

(* A step of thread t from its places to the places p and q.               *)
LEMMA PlaceInv ==
    ASSUME BudgetInv, Types, CmdTypes, NEW t \in Threads, NEW p, NEW q,
           pc' = [pc EXCEPT ![t] = p], cmd_pc' = [cmd_pc EXCEPT ![t] = q],
           UNCHANGED <<main_pc, running>>, running,
           p \notin {"out", "gpus"} => q = "idle",
           t \in Others => q # "fill",
           t = Main => \/ main_pc = "get" /\ p # "out" /\ q # "fill"
                       \/ main_pc = "pools" /\ p = "out" /\ q \in {"idle", "fill"},
           \/ UNCHANGED <<started, calls>> /\ (Waits(t, p, q) => t \in Pending)
           \/ started' = started + 1 /\ calls' = calls /\ t \in Pending /\ ~Waits(t, p, q)
           \/ started' = started /\ calls' = calls + 1 /\ calls < MaxCommands
    PROVE  BudgetInv'
<1> Control /\ Budget /\ started \in Nat
  BY DEF BudgetInv, CmdTypes
<1>1. /\ \A u \in Threads : pc'[u] = IF u = t THEN p ELSE pc[u]
      /\ \A u \in Threads : cmd_pc'[u] = IF u = t THEN q ELSE cmd_pc[u]
  BY DEF Types, CmdTypes
<1>2. Control'
  BY <1>1, MainAssumption DEF Control, Others
<1>3. /\ \A u \in Threads : u # t => (u \in Pending' <=> u \in Pending)
      /\ t \in Pending' <=> Waits(t, p, q)
  BY <1>1 DEF Pending, Waits
<1>4. Pending \subseteq Threads /\ Pending' \subseteq Threads
  BY DEF Pending
<1> DEFINE m == Cardinality(Pending)
           n == Cardinality(Pending')
<1>5. /\ m \in Nat /\ n \in Nat /\ n <= m + 1
      /\ (Waits(t, p, q) => t \in Pending) => n <= m
      /\ t \in Pending /\ ~Waits(t, p, q) => n + 1 <= m
  <2>1. (Waits(t, p, q) => t \in Pending) => Pending' \subseteq Pending
    BY <1>3, <1>4
  <2>2. t \in Pending /\ ~Waits(t, p, q) => Pending' \subseteq Pending \ {t}
    BY <1>3, <1>4
  <2>3. Pending' \subseteq Pending \cup {t}
    BY <1>3, <1>4
  <2> QED  BY <1>4, <2>1, <2>2, <2>3, PendingSize
<1>6. started + m <= calls /\ calls \in Nat /\ calls >= 1 /\ calls <= MaxCommands
  BY BufferAssumption DEF Budget
<1> HIDE DEF m, n
<1>7. started' + n <= calls' /\ calls' \in 1 .. MaxCommands
  <2>1. CASE UNCHANGED <<started, calls>> /\ (Waits(t, p, q) => t \in Pending)
    BY <1>5, <1>6, <2>1, BufferAssumption
  <2>2. CASE started' = started + 1 /\ calls' = calls /\ t \in Pending /\ ~Waits(t, p, q)
    BY <1>5, <1>6, <2>2, BufferAssumption
  <2>3. CASE started' = started /\ calls' = calls + 1 /\ calls < MaxCommands
    BY <1>5, <1>6, <2>3, BufferAssumption
  <2> QED  BY <2>1, <2>2, <2>3
<1>8. Budget'
  BY <1>7 DEF Budget, n
<1> QED  BY <1>2, <1>8 DEF BudgetInv

LEMMA ThreadBudget ==
    ASSUME BudgetInv, Types, CmdTypes, running, main_pc # "exit",
           NEW t \in Threads, t = Main => main_pc # "start", ThreadStep(t)
    PROVE  BudgetInv'
<1> Control
  BY DEF BudgetInv
<1>1. UNCHANGED <<main_pc, running, calls>>
  BY DEF ThreadStep, GpuCommand, GpuLines
<1>2. /\ pc' = pc => pc' = [pc EXCEPT ![t] = pc[t]]
      /\ cmd_pc' = cmd_pc => cmd_pc' = [cmd_pc EXCEPT ![t] = cmd_pc[t]]
  BY DEF Types, CmdTypes
<1>3. /\ t = Main => \/ main_pc = "get" /\ pc[t] # "out"
                     \/ main_pc \in {"pools", "cache"} /\ pc[t] = "out"
      /\ t = Main /\ pc[t] = "out" => cmd_pc[t] \in {"idle", "fill"}
      /\ t = Main /\ main_pc = "cache" => cmd_pc[t] = "idle"
      /\ t = Main /\ main_pc = "get" => cmd_pc[t] # "fill"
      /\ t \in Others => cmd_pc[t] # "fill"
      /\ pc[t] \notin {"out", "gpus"} => cmd_pc[t] = "idle"
  BY DEF Control
<1>4. CASE GpuCommand(t)
  <2>1. PICK q \in {"take", "fill_and_take"} : cmd_pc' = [cmd_pc EXCEPT ![t] = q]
    BY <1>4 DEF GpuCommand, ExecuteCmdFast, OptimizeMemoryPools
  <2>2. pc[t] = "gpus" /\ cmd_pc[t] = "idle" /\ pc' = pc /\ started' = started /\ calls' = calls
    BY <1>4 DEF GpuCommand, ExecuteCmdFast, OptimizeMemoryPools, info_vars
  <2>3. t \in Pending
    BY <2>2 DEF Pending
  <2> QED  BY <1>1, <1>2, <1>3, <2>1, <2>2, <2>3, PlaceInv DEF Waits
<1>5. CASE GpuLines(t)
  <2>1. PICK p \in {"publish", "parse_gpus"} :
          /\ pc[t] = "gpus" /\ pc' = [pc EXCEPT ![t] = p]
          /\ cmd_pc' = [cmd_pc EXCEPT ![t] = "idle"] /\ started' = started
    BY <1>5 DEF GpuLines, Release, NoGpus, BeginGpus, GatherTail, Move
  <2>2. t = Main => main_pc = "get"
    BY <1>3, <2>1
  <2>3. ~Waits(t, p, "idle")
    BY <2>2 DEF Waits
  <2> QED  BY <1>1, <2>1, <2>2, <2>3, PlaceInv DEF Waits
<1>6. CASE InfoStep(t) /\ UNCHANGED <<cmd_vars, main_pc, calls, running>>
  <2>1. cmd_pc' = [cmd_pc EXCEPT ![t] = cmd_pc[t]] /\ started' = started
    BY <1>2, <1>6 DEF cmd_vars
  <2>2. PICK p \in {"copy", "done", "gather", "parse", "gpus", "publish", "publish_rest"} :
          /\ pc' = [pc EXCEPT ![t] = p]
          /\ pc[t] \in {"look", "copy", "gather", "parse", "parse_gpus", "publish",
                        "publish_rest"}
          /\ p \in {"gather", "parse", "gpus"} => pc[t] \in {"look", "gather", "parse"}
    BY <1>6
    DEF InfoStep, CacheHit, CopyRest, CacheMiss, GatherHead, ParseHead, ParseGpus, GatherTail,
        Publish, PublishAs, PublishRest, NoPublish, Move
  <2>3. cmd_pc[t] = "idle" /\ (t = Main => main_pc = "get")
    BY <1>3, <2>2
  <2>4. p \in {"gather", "parse", "gpus"} => t \in Pending
    BY <2>2 DEF Pending
  <2> QED  BY <1>1, <2>1, <2>2, <2>3, <2>4, PlaceInv DEF Waits
<1>7. CASE CmdStep(t) /\ UNCHANGED <<info_vars, main_pc, calls, running>>
  <2>1. pc' = [pc EXCEPT ![t] = pc[t]]
    BY <1>2, <1>7 DEF info_vars
  <2>2. CASE FillDone(t) \/ \E failed \in SUBSET MayFail : FillPool(t, failed)
    <3>1. PICK q \in {"idle", "take"} :
            /\ cmd_pc' = [cmd_pc EXCEPT ![t] = q] /\ started' = started
            /\ q = "idle" => cmd_pc[t] = "fill"
            /\ q = "take" => cmd_pc[t] = "fill_and_take"
      BY <2>2 DEF FillDone, FillPool, FillAgain, AfterFill, Goto
    <3>2. pc[t] \in {"out", "gpus"}
      BY <1>3, <3>1
    <3>3. q = "take" => t \in Pending
      BY <3>1 DEF Pending
    <3>4. q = "idle" => t = Main /\ main_pc = "pools" /\ pc[t] = "out"
      BY <1>3, <3>1 DEF Others
    <3>5. t = Main /\ main_pc = "pools" => t \in Pending
      BY DEF Pending
    <3>6. Waits(t, pc[t], q) => t \in Pending
      BY <1>3, <3>1, <3>2, <3>3, <3>4, <3>5 DEF Waits
    <3>7. t = Main => \/ main_pc = "get" /\ pc[t] # "out" /\ q # "fill"
                      \/ main_pc = "pools" /\ pc[t] = "out" /\ q \in {"idle", "fill"}
      BY <1>3, <3>1, <3>4
    <3> QED  BY <1>1, <2>1, <3>1, <3>2, <3>6, <3>7, PlaceInv DEF Waits
  <2>3. CASE \/ TakeBuffer(t) \/ WipeFallback(t) \/ PopenFails(t)
             \/ \E some \in BOOLEAN : RunCommand(t, some)
    <3>1. PICK q \in {"wipe", "run", "held", "nothing"} :
            /\ cmd_pc' = [cmd_pc EXCEPT ![t] = q]
            /\ \/ cmd_pc[t] = "take" /\ started' = started + 1
               \/ cmd_pc[t] \in {"wipe", "run"} /\ started' = started
      BY <2>3 DEF TakeBuffer, Take, WipeFallback, PopenFails, RunCommand, Goto
    <3>2. pc[t] \in {"out", "gpus"} /\ (t = Main => main_pc = "get" /\ pc[t] # "out")
      BY <1>3, <3>1
    <3>3. cmd_pc[t] = "take" => t \in Pending
      BY DEF Pending
    <3>4. ~Waits(t, pc[t], q)
      BY <3>1, <3>2 DEF Waits
    <3> QED  BY <1>1, <2>1, <3>1, <3>2, <3>3, <3>4, PlaceInv DEF Waits
  <2> QED  BY <1>7, <2>2, <2>3 DEF CmdStep
<1> QED  BY <1>4, <1>5, <1>6, <1>7 DEF ThreadStep

LEMMA ExitBudget == ASSUME Exit PROVE BudgetInv'
<1>1. Control'
  BY MainAssumption DEF Exit, InfoExit, CmdExit, Control, Others
<1>2. Pending' = {} /\ started' = 0 /\ calls' = 1
  BY DEF Exit, InfoExit, CmdExit, Pending
<1>3. Budget'
  BY <1>2, FS_EmptySet, MainAssumption, BufferAssumption DEF Budget
<1> QED  BY <1>1, <1>3 DEF BudgetInv

LEMMA MainBudget ==
    ASSUME BudgetInv, Types, CmdTypes, running, main_pc # "exit", MainStep
    PROVE  BudgetInv'
<1> Control /\ Budget /\ started \in Nat /\ Main \in Threads
  BY MainAssumption DEF BudgetInv, CmdTypes
<1>1. CASE MainPools
  <2>1. PICK q \in {"idle", "fill"} : cmd_pc' = [cmd_pc EXCEPT ![Main] = q]
    BY <1>1 DEF MainPools, OptimizeMemoryPools
  <2>2. /\ main_pc = "start" /\ main_pc' = "pools"
        /\ UNCHANGED <<pc, running, started, calls>>
    BY <1>1 DEF MainPools, MainMoves, OptimizeMemoryPools, info_vars
  <2>3. \A u \in Threads : cmd_pc'[u] = IF u = Main THEN q ELSE cmd_pc[u]
    BY <2>1 DEF CmdTypes
  <2>4. Control'
    BY <2>2, <2>3 DEF Control, Others
  <2>5. Pending' \subseteq Pending
    BY <2>2, <2>3 DEF Pending
  <2> QED  BY <2>2, <2>4, <2>5, LessPending DEF BudgetInv
<1>2. CASE \E got \in {"mapped", "MAP_FAILED"} : MainCache(got)
  <2>1. /\ main_pc = "pools" /\ main_pc' = "cache" /\ cmd_pc[Main] = "idle"
        /\ UNCHANGED <<pc, cmd_pc, running, started, calls>>
    BY <1>2 DEF MainCache, MainMoves, InitFastCache, cmd_vars
  <2>2. Control'
    BY <2>1 DEF Control, Others
  <2>3. Pending' \subseteq Pending
    BY <2>1 DEF Pending
  <2> QED  BY <2>1, <2>2, <2>3, LessPending DEF BudgetInv
<1>3. CASE MainGet
  <2>1. /\ main_pc = "cache" /\ main_pc' = "get" /\ pc' = [pc EXCEPT ![Main] = "look"]
        /\ UNCHANGED <<cmd_pc, running, started, calls>>
    BY <1>3 DEF MainGet, MainMoves, GetSystemInfo, Move, cmd_vars
  <2>2. \A u \in Threads : pc'[u] = IF u = Main THEN "look" ELSE pc[u]
    BY <2>1 DEF Types
  <2>3. Control'
    BY <2>1, <2>2 DEF Control, Others
  <2>4. Pending' \subseteq Pending
    BY <2>1, <2>2 DEF Pending
  <2> QED  BY <2>1, <2>3, <2>4, LessPending DEF BudgetInv
<1>4. CASE MainDisplay
  BY <1>4, ExitBudget DEF MainDisplay
<1>5. CASE ThreadStep(Main)
  <2>1. main_pc # "start"
    BY <1>5
    DEF ThreadStep, GpuCommand, GpuLines, NoGpus, BeginGpus, GatherTail, InfoStep, CacheHit,
        CopyRest, CacheMiss, GatherHead, ParseHead, ParseGpus, Publish, PublishAs, PublishRest,
        NoPublish, Move, CmdStep, FillDone, FillPool, FillAgain, AfterFill, TakeBuffer, Take,
        WipeFallback, RunCommand, PopenFails, Goto, Control
  <2> QED  BY <1>5, <2>1, ThreadBudget
<1> QED  BY <1>1, <1>2, <1>3, <1>4, <1>5 DEF MainStep

LEMMA OtherBudget ==
    ASSUME BudgetInv, Types, CmdTypes, running, main_pc # "exit", NEW t \in Others,
           OtherStep(t) \/ OtherGets(t) \/ OtherCommand(t)
    PROVE  BudgetInv'
<1> Control /\ t \in Threads /\ t # Main
  BY DEF BudgetInv, Others
<1>1. /\ pc' = pc => pc' = [pc EXCEPT ![t] = pc[t]]
      /\ cmd_pc' = cmd_pc => cmd_pc' = [cmd_pc EXCEPT ![t] = cmd_pc[t]]
      /\ cmd_pc[t] # "fill" /\ (pc[t] \notin {"out", "gpus"} => cmd_pc[t] = "idle")
  BY DEF Types, CmdTypes, Control
<1>2. CASE OtherReturns(t)
  <2>1. UNCHANGED <<main_pc, calls, running, started>>
    BY <1>2 DEF OtherReturns, cmd_vars, Release
  <2>2. CASE Return(t) /\ UNCHANGED cmd_vars
    <3>1. pc[t] = "done" /\ pc' = [pc EXCEPT ![t] = "out"] /\ cmd_pc' = cmd_pc
      BY <2>2 DEF Return, Move, cmd_vars
    <3> QED  BY <1>1, <2>1, <3>1, PlaceInv DEF Waits
  <2>3. CASE pc[t] = "out" /\ Release(t) /\ UNCHANGED info_vars
    <3>1. pc[t] = "out" /\ pc' = pc /\ cmd_pc' = [cmd_pc EXCEPT ![t] = "idle"]
      BY <2>3 DEF Release, info_vars
    <3>2. pc' = [pc EXCEPT ![t] = "out"]
      BY <1>1, <3>1
    <3> QED  BY <2>1, <3>1, <3>2, PlaceInv DEF Waits
  <2> QED  BY <1>2, <2>2, <2>3 DEF OtherReturns
<1>3. CASE OtherGets(t)
  <2>1. /\ pc' = [pc EXCEPT ![t] = "look"] /\ cmd_pc[t] = "idle" /\ cmd_pc' = cmd_pc
        /\ calls < MaxCommands /\ calls' = calls + 1
        /\ UNCHANGED <<main_pc, running, started>>
    BY <1>3 DEF OtherGets, GetSystemInfo, Move, cmd_vars
  <2> QED  BY <1>1, <2>1, PlaceInv DEF Waits
<1>4. CASE OtherCommand(t)
  <2>1. PICK q \in {"take", "fill_and_take"} : cmd_pc' = [cmd_pc EXCEPT ![t] = q]
    BY <1>4 DEF OtherCommand, ExecuteCmdFast, OptimizeMemoryPools
  <2>2. /\ pc[t] = "out" /\ pc' = pc /\ calls < MaxCommands /\ calls' = calls + 1
        /\ UNCHANGED <<main_pc, running, started>>
    BY <1>4 DEF OtherCommand, ExecuteCmdFast, OptimizeMemoryPools, info_vars
  <2> QED  BY <1>1, <2>1, <2>2, PlaceInv DEF Waits
<1> QED  BY <1>2, <1>3, <1>4, ThreadBudget DEF OtherStep

LEMMA BudgetNext == BudgetInv /\ Types /\ CmdTypes /\ [Next]_vars => BudgetInv'
<1> SUFFICES ASSUME BudgetInv, Types, CmdTypes, [Next]_vars PROVE BudgetInv'
  OBVIOUS
<1> Control /\ Budget /\ started \in Nat
  BY DEF BudgetInv, CmdTypes
<1>1. CASE SignalHandler
  BY <1>1, ExitBudget DEF SignalHandler
<1>2. CASE UNCHANGED vars \/ (Tick /\ UNCHANGED <<cmd_vars, main_pc, calls, running>>)
  <2>1. UNCHANGED <<main_pc, running, pc, cmd_pc, started, calls>>
    BY <1>2 DEF vars, Tick, info_vars, cmd_vars
  <2> QED  BY <2>1 DEF BudgetInv, Control, Budget, Pending
<1>3. running => main_pc # "exit"
  BY DEF Control
<1> QED  BY <1>1, <1>2, <1>3, MainBudget, OtherBudget DEF Next

(* Tickets and texts are numbers of commands that took a buffer.           *)
Numbered ==
    /\ \A t \in Threads : ticket[t] \in 0 .. started
    /\ \A b \in DOMAIN text : text[b] \in 0 .. started

LEMMA NumberedNext == CmdTypes /\ Numbered /\ [Next]_vars => Numbered'
<1> SUFFICES ASSUME CmdTypes, Numbered, [Next]_vars PROVE Numbered'
  OBVIOUS
<1> USE DEF NoText
<1>a. CASE CmdExit
  BY <1>a DEF Numbered, CmdExit
<1>1. CASE UNCHANGED cmd_vars
  BY <1>1 DEF Numbered, cmd_vars
<1>2. ASSUME NEW t \in Threads, NEW on, OptimizeMemoryPools(t, on) PROVE Numbered'
  BY <1>2 DEF Numbered, OptimizeMemoryPools
<1>3. ASSUME NEW t \in Threads, Release(t) PROVE Numbered'
  BY <1>3 DEF Numbered, Release, CmdTypes
<1>4. ASSUME NEW t \in Threads, CmdStep(t) PROVE Numbered'
  <2>1. CASE FillDone(t) \/ PopenFails(t)
    BY <2>1 DEF Numbered, FillDone, PopenFails
  <2>2. ASSUME NEW failed \in SUBSET MayFail, FillPool(t, failed) PROVE Numbered'
    BY <2>2 DEF Numbered, FillPool, FillAgain, CmdTypes
  <2>3. CASE TakeBuffer(t)
    <3>1. /\ started' = started + 1 /\ ticket' = [ticket EXCEPT ![t] = started + 1]
          /\ text' = text
      BY <2>3 DEF TakeBuffer, Take
    <3> QED  BY <3>1 DEF Numbered, CmdTypes
  <2>5. CASE WipeFallback(t)
    BY <2>5 DEF WipeFallback, Numbered, CmdTypes
  <2>4. ASSUME NEW some \in BOOLEAN, RunCommand(t, some) PROVE Numbered'
    <3>1. PICK n \in {ticket[t], NoText} : text' = [text EXCEPT ![taken[t]] = n]
      BY <2>4 DEF RunCommand
    <3>2. UNCHANGED <<started, ticket>>
      BY <2>4 DEF RunCommand
    <3> QED  BY <3>1, <3>2 DEF Numbered, CmdTypes
  <2> QED  BY <1>4, <2>1, <2>2, <2>3, <2>4, <2>5 DEF CmdStep
<1> QED  BY <1>a, <1>1, <1>2, <1>3, <1>4, CmdView

(* The flags are Boolean.                                                  *)
Flags ==
    /\ pool_initialized \in BOOLEAN /\ lapped \in BOOLEAN /\ crowded \in BOOLEAN
    /\ overlapped \in BOOLEAN /\ running \in BOOLEAN

LEMMA FlagsNext == CacheInv /\ Flags /\ [Next]_vars => Flags'
<1> SUFFICES ASSUME CacheInv, Flags, [Next]_vars PROVE Flags'
  OBVIOUS
<1>1. CASE Exit
  BY <1>1, Zenon DEF Exit, InfoExit, CmdExit, Flags
<1>2. CASE ~Exit
  <2>1. running' = running
    BY <1>2
    DEF Next, MainStep, MainPools, MainCache, MainGet, MainDisplay, ThreadStep, GpuCommand,
        GpuLines, OtherStep, OtherReturns, OtherGets, OtherCommand, SignalHandler, vars
  <2>2. pool_initialized' \in {pool_initialized, TRUE}
    BY <1>2, CmdView
    DEF cmd_vars, OptimizeMemoryPools, Release, CmdStep, FillDone, FillPool, FillAgain,
        TakeBuffer, Take, WipeFallback, RunCommand, PopenFails
  <2>3. lapped' \in BOOLEAN /\ crowded' \in BOOLEAN
    <3>1. CASE \E t \in Threads : TakeBuffer(t)
      BY <3>1, Zenon DEF TakeBuffer, Take
    <3>2. CASE lapped' = lapped /\ crowded' = crowded
      BY <3>2, Zenon DEF Flags
    <3>3. (lapped' = lapped /\ crowded' = crowded) \/ \E t \in Threads : TakeBuffer(t)
      BY <1>2, CmdView
      DEF cmd_vars, history, OptimizeMemoryPools, Release, CmdStep, FillDone, FillPool,
          FillAgain, WipeFallback, RunCommand, PopenFails
    <3> QED  BY <3>1, <3>2, <3>3
  <2>4. overlapped' \in BOOLEAN
    <3>1. CASE \E t \in Threads : BeginParse(t)
      BY <3>1, Zenon DEF BeginParse
    <3>2. CASE overlapped' = overlapped
      BY <3>2, Zenon DEF Flags
    <3>3. overlapped' = overlapped \/ \E t \in Threads : BeginParse(t)
      BY <1>2, InfoView
      DEF GetSystemInfo, CacheHit, CopyRest, CacheMiss, GatherHead, ParseHead, NoGpus, ParseGpus,
          GatherTail, BeginGpus, Publish, PublishAs, PublishRest, NoPublish, Return,
          InitFastCache, Tick, info_vars, parsing
    <3> QED  BY <3>1, <3>2, <3>3
  <2>5. pool_initialized' \in BOOLEAN
    BY <2>2, Zenon DEF Flags
  <2> QED  BY <2>1, <2>3, <2>4, <2>5, Zenon DEF Flags
<1> QED  BY <1>1, <1>2

(* Every variable of the program has its type; no command is begun beyond  *)
(* the bound, since each is counted before it takes a buffer.              *)
THEOREM TypeCorrect == Spec => []TypeOK
<1> DEFINE I == CacheInv /\ CmdInv /\ BudgetInv /\ Numbered /\ Flags
<1>1. Init => I
  <2> SUFFICES ASSUME Init PROVE I
    OBVIOUS
  <2>1. CacheInv /\ CmdInv
    BY InitInv, CmdInitInv DEF Init
  <2>2. Control
    BY MainAssumption DEF Init, InfoInit, CmdInit, Control, Others
  <2>3. Pending = {Main} /\ started = 0 /\ calls = 1
    BY MainAssumption DEF Init, InfoInit, CmdInit, Pending
  <2>4. Budget
    BY <2>3, FS_Singleton, MainAssumption, BufferAssumption DEF Budget
  <2>5. Numbered
    BY DEF Init, CmdInit, Numbered, NoText
  <2>6. Flags
    BY Zenon DEF Init, InfoInit, CmdInit, Flags
  <2> QED  BY <2>1, <2>2, <2>4, <2>5, <2>6 DEF BudgetInv
<1>2. I /\ [Next]_vars => I'
  BY NextInv, CmdNextInv, BudgetNext, NumberedNext, FlagsNext DEF CacheInv, CmdInv
<1>3. I => TypeOK
  <2> SUFFICES ASSUME I PROVE TypeOK
    OBVIOUS
  <2>1. InfoTypeOK
    <3>1. cached_info \in Records /\ \A t \in Threads : info[t] \in Records
      BY DEF CacheInv, Types
    <3>2. \A r \in Records : {r.head.stamp, r.tail.stamp} \subseteq Stamps
      BY DEF Records, Halves
    <3>3. \A r \in {cached_info} \cup {info[t] : t \in Threads} :
             {r.head.stamp, r.tail.stamp} \subseteq Stamps
      BY <3>1, <3>2
    <3>4. fault \in BOOLEAN
      BY Zenon DEF CacheInv, Pointer
    <3>5. /\ machine \in Machines /\ now \in StartTime .. MaxTime
          /\ mapping \in {"NULL", "MAP_FAILED", "mapped"}
          /\ last_update \in {0} \cup StartTime .. MaxTime
          /\ cache_mutex \in Threads \cup {NoThread}
          /\ current_time \in [Threads -> {0} \cup StartTime .. MaxTime]
      BY DEF CacheInv, Types, Times
    <3>6. pc \in [Threads -> {"out", "look", "copy", "gather", "parse", "gpus",
                             "parse_gpus", "publish", "publish_rest", "done"}]
      BY DEF CacheInv, Types, Places
    <3>7. disturbed \in SUBSET Threads /\ overlapped \in BOOLEAN
      BY DEF CacheInv, Types, Flags
    <3> QED  BY <3>3, <3>4, <3>5, <3>6, <3>7 DEF InfoTypeOK
  <2>2. started \in 0 .. MaxCommands /\ calls \in 1 .. MaxCommands
    <3>1. Cardinality(Pending) \in Nat /\ started \in Nat
      BY PendingSize DEF Pending, CmdInv, CmdTypes
    <3> QED  BY <3>1, BufferAssumption DEF BudgetInv, Budget
  <2>3. /\ ticket \in [Threads -> 0 .. MaxCommands]
        /\ text \in [DOMAIN text -> 0 .. MaxCommands]
    BY <2>2, BufferAssumption DEF Numbered, CmdInv, CmdTypes
  <2>4. /\ cmd_buffer_pool \in [Slots -> Nat \cup {Null}] /\ pool_index \in Slots
        /\ DOMAIN text \subseteq Nat \cup {Fallback}
    BY BufferAssumption DEF CmdInv, CmdTypes, Slots, Buffers
  <2>5. /\ taken \in [Threads -> DOMAIN text \cup {Null}] /\ fills \in Nat
        /\ cmd_pc \in [Threads -> {"idle", "fill", "fill_and_take", "take", "wipe",
                                   "run", "held", "nothing"}]
    BY DEF CmdInv, CmdTypes, CmdPlaces
  <2>6. CmdTypeOK
    BY <2>2, <2>3, <2>4, <2>5 DEF CmdTypeOK, Flags
  <2> QED  BY <2>1, <2>2, <2>6 DEF TypeOK, BudgetInv, Control, Flags
<1> QED  BY <1>1, <1>2, <1>3, PTL DEF Spec

-----------------------------------------------------------------------------
(* What is displayed: a record has the texts of this machine, as far as it *)
(* has been filled, and the cache has them when it has been filled.        *)

OwnHead(r) == r.head.field \in Heads(machine)
OwnTail(r) == r.tail.field = TailOf(machine) /\ r.tail.gpu_count \in 1 .. MAX_GPUS
Texts ==
    /\ \A t \in Threads :
          /\ pc[t] \in {"copy", "parse", "gpus", "parse_gpus", "publish", "publish_rest",
                        "done"} => OwnHead(info[t])
          /\ pc[t] \in {"publish", "publish_rest", "done"} => OwnTail(info[t])
          /\ pc[t] = "copy" => last_update # 0
          /\ pc[t] = "publish_rest" => last_update # 0
    /\ last_update # 0 =>
          /\ OwnHead(cached_info)
          /\ (\A t \in Threads : pc[t] # "publish_rest") => OwnTail(cached_info)

(* get_all_gpus never counts more rows than info->gpu has, and at least    *)
(* one.                                                                    *)
LEMMA GpuCount ==
    ASSUME NEW m \in Machines, NEW lines \in Lines(m)
    PROVE  get_all_gpus(lines) \in 1 .. MAX_GPUS
<1> DEFINE fitting == {i \in DOMAIN lines : lines[i] = "short"}
<1>1. \E n \in Nat : DOMAIN lines = 1 .. n
  <2>1. CASE lines = <<>>
    BY <2>1
  <2>2. CASE lines = lspci(m)
    <3>1. m.lspci \in Seq({"short", "long"}) /\ Len(m.lspci) \in Nat
      BY MachineAssumption
    <3>2. Min({HeadLines, Len(m.lspci)}) \in {HeadLines, Len(m.lspci)}
          /\ Min({HeadLines, Len(m.lspci)}) <= Len(m.lspci)
      BY <3>1, RowsAssumption DEF Min
    <3> DEFINE n == Min({HeadLines, Len(m.lspci)})
    <3>3. n \in Nat /\ n <= Len(m.lspci)
      BY <3>1, <3>2, RowsAssumption
    <3> HIDE DEF n
    <3>4. DOMAIN SubSeq(m.lspci, 1, n) = 1 .. n
      BY <3>1, <3>3
    <3> QED  BY <2>2, <3>3, <3>4 DEF lspci, n
  <2>3. CASE lines \in foreign_lines
    BY <2>3, RowsAssumption DEF foreign_lines
  <2> QED  BY <2>1, <2>2, <2>3 DEF Lines
<1>2. PICK n \in Nat : DOMAIN lines = 1 .. n
  BY <1>1
<1>3. IsFiniteSet(1 .. n)
  BY FS_Interval
<1>4. fitting \subseteq 1 .. n
  BY <1>2
<1>5. Cardinality(fitting) \in Nat
  <2> HIDE DEF fitting
  <2> QED  BY <1>3, <1>4, FS_Subset, FS_CardinalityType
<1> DEFINE c == Cardinality(fitting)
<1>6. get_all_gpus(lines) = Max({1, Min({c, MAX_GPUS})})
  BY DEF get_all_gpus
<1>7. c \in Nat /\ MAX_GPUS \in Nat \ {0}
  BY <1>5, RowsAssumption
<1> HIDE DEF c
<1>8. Min({c, MAX_GPUS}) \in {c, MAX_GPUS} /\ Min({c, MAX_GPUS}) <= MAX_GPUS
  BY <1>7 DEF Min
<1> DEFINE least == Min({c, MAX_GPUS})
<1>9. least \in Nat /\ least <= MAX_GPUS
  BY <1>7, <1>8
<1> HIDE DEF least
<1>10. Max({1, least}) \in 1 .. MAX_GPUS
  BY <1>7, <1>9 DEF Max
<1> QED  BY <1>6, <1>10 DEF least

LEMMA TextsNext == CacheInv /\ Texts /\ [Next]_vars => Texts'
<1> SUFFICES ASSUME CacheInv, Texts, [Next]_vars PROVE Texts'
  OBVIOUS
<1> USE DEF OwnHead, OwnTail
<1>1. ASSUME NEW t \in Threads, GetSystemInfo(t) \/ CacheMiss(t) \/ NoPublish(t) \/ Return(t)
      PROVE  Texts'
  <2>1. /\ machine' = machine /\ cached_info' = cached_info /\ last_update' = last_update
        /\ \A u \in Threads : u # t => pc'[u] = pc[u] /\ info'[u] = info[u]
        /\ pc[t] # "publish_rest"
        /\ \/ pc'[t] \in {"look", "gather", "out"}
           \/ pc[t] = "publish" /\ pc'[t] = "done" /\ info'[t] = info[t]
    BY <1>1 DEF GetSystemInfo, CacheMiss, NoPublish, Return, Move, CacheInv, Types
  <2> QED  BY <2>1 DEF Texts
<1>2. ASSUME NEW t \in Threads, CacheHit(t) PROVE Texts'
  <2>1. last_update # 0
    BY <1>2, ClockAssumption DEF CacheHit, CacheInv, Types, Times
  <2>2. /\ machine' = machine /\ cached_info' = cached_info /\ last_update' = last_update
        /\ \A u \in Threads : u # t => pc'[u] = pc[u] /\ info'[u] = info[u]
        /\ pc[t] # "publish_rest" /\ pc'[t] = "copy"
        /\ info'[t].head = cached_info.head
    BY <1>2 DEF CacheHit, Move, CacheInv, Types, Records
  <2> QED  BY <2>1, <2>2 DEF Texts
<1>3. ASSUME NEW t \in Threads, CopyRest(t) PROVE Texts'
  <2>1. \A u \in Threads : pc[u] # "publish_rest"
    BY <1>3 DEF CopyRest, Move, CacheInv, Locked
  <2>2. /\ machine' = machine /\ cached_info' = cached_info /\ last_update' = last_update
        /\ \A u \in Threads : u # t => pc'[u] = pc[u] /\ info'[u] = info[u]
        /\ pc[t] = "copy" /\ pc'[t] = "done"
        /\ info'[t].head = info[t].head /\ info'[t].tail = cached_info.tail
    BY <1>3 DEF CopyRest, Move, CacheInv, Types, Records
  <2> QED  BY <2>1, <2>2 DEF Texts
<1>4. ASSUME NEW t \in Threads, GatherHead(t) PROVE Texts'
  <2>1. /\ machine' = machine /\ cached_info' = cached_info /\ last_update' = last_update
        /\ \A u \in Threads : u # t => pc'[u] = pc[u] /\ info'[u] = info[u]
        /\ pc[t] = "gather" /\ pc'[t] = "parse"
        /\ info'[t].head.field = HeadOf(machine)
    BY <1>4 DEF GatherHead, Move, CacheInv, Types, Records
  <2> QED  BY <2>1 DEF Texts, Heads
<1>a. ASSUME NEW t \in Threads, ParseHead(t) PROVE Texts'
  <2>1. /\ machine' = machine /\ cached_info' = cached_info /\ last_update' = last_update
        /\ \A u \in Threads : u # t => pc'[u] = pc[u]
        /\ pc[t] = "parse" /\ pc'[t] = "gpus"
    BY <1>a DEF ParseHead, Move, CacheInv, Types
  <2>2. /\ info'[t].head.field \in {info[t].head.field} \cup ForeignHeads(machine)
        /\ \A u \in Threads : u # t => info'[u] = info[u]
    BY <1>a, ParseHeadView DEF CacheInv
  <2> QED  BY <2>1, <2>2 DEF Texts, Heads
<1>b. ASSUME NEW t \in Threads, NEW own \in BOOLEAN, BeginGpus(t, own) PROVE Texts'
  <2>1. /\ machine' = machine /\ cached_info' = cached_info /\ last_update' = last_update
        /\ \A u \in Threads : u # t => pc'[u] = pc[u] /\ info'[u] = info[u]
        /\ pc[t] = "gpus" /\ pc'[t] = "parse_gpus"
        /\ info'[t].head = info[t].head
    BY <1>b DEF BeginGpus, Move, CacheInv, Types, Records
  <2> QED  BY <2>1 DEF Texts
<1>5. ASSUME NEW t \in Threads, NoGpus(t) \/ ParseGpus(t) PROVE Texts'
  <2>1. PICK from \in {"gpus", "parse_gpus"}, own \in BOOLEAN, lines \in Lines(machine) :
          GatherTail(t, from, own, lines)
    BY <1>5, TailView DEF CacheInv
  <2>2. get_all_gpus(lines) \in 1 .. MAX_GPUS
    BY GpuCount DEF CacheInv, Types
  <2>3. /\ machine' = machine /\ cached_info' = cached_info /\ last_update' = last_update
        /\ \A u \in Threads : u # t => pc'[u] = pc[u] /\ info'[u] = info[u]
        /\ pc[t] = from /\ pc'[t] = "publish"
        /\ info'[t].head = info[t].head
        /\ info'[t].tail.field = TailOf(machine)
        /\ info'[t].tail.gpu_count = get_all_gpus(lines)
    BY <2>1 DEF GatherTail, Move, CacheInv, Types, Records
  <2> QED  BY <2>2, <2>3 DEF Texts
<1>6. ASSUME NEW t \in Threads, Publish(t) PROVE Texts'
  <2>1. current_time[t] # 0
    BY <1>6, ClockAssumption DEF Publish, PublishAs, Move, CacheInv, Gathering, Types, Times
  <2>2. /\ machine' = machine /\ cached_info'.head = info[t].head
        /\ last_update' = current_time[t] /\ info' = info
        /\ \A u \in Threads : u # t => pc'[u] = pc[u]
        /\ pc[t] = "publish" /\ pc'[t] = "publish_rest"
    BY <1>6 DEF Publish, PublishAs, Move, CacheInv, Types, Records
  <2> QED  BY <2>1, <2>2 DEF Texts
<1>7. ASSUME NEW t \in Threads, PublishRest(t) PROVE Texts'
  <2>1. /\ machine' = machine /\ last_update' = last_update /\ info' = info
        /\ cached_info'.head = cached_info.head /\ cached_info'.tail = info[t].tail
        /\ \A u \in Threads : u # t => pc'[u] = pc[u]
        /\ pc[t] = "publish_rest" /\ pc'[t] = "done"
    BY <1>7 DEF PublishRest, Move, CacheInv, Types, Records
  <2> QED  BY <2>1 DEF Texts
<1>8. ASSUME mapping = "NULL", NEW got, InitFastCache(got) PROVE Texts'
  <2>1. last_update = 0 /\ \A t \in Threads : pc[t] = "out"
    BY <1>8 DEF CacheInv, Pointer
  <2> QED  BY <1>8, <2>1 DEF InitFastCache, Texts
<1>9. CASE Tick \/ UNCHANGED info_vars
  BY <1>9 DEF Tick, info_vars, Texts
<1>10. CASE Exit
  BY <1>10 DEF Exit, InfoExit, Texts
<1>11. \A t \in Threads : (text[taken[t]] = ticket[t]) \in BOOLEAN
  OBVIOUS
<1> QED  BY <1>1, <1>2, <1>3, <1>4, <1>a, <1>b, <1>5, <1>6, <1>7, <1>8, <1>9, <1>10, <1>11, InfoView

(* No gatherer leaves a field without a text, and none finds a theme.      *)
LEMMA FieldsFilled ==
    ASSUME NEW m \in Machines, EnvironmentFilled(m), m.meminfo # "none"
    PROVE  /\ \A h \in Heads(m) : \A x \in DOMAIN h : h[x] # Blank
           /\ \A x \in DOMAIN TailOf(m) : TailOf(m)[x] # Blank
<1> USE DEF Known, Foreign, Unknown, Blank, Unset, IfSet
<1>1. \A x \in DOMAIN HeadOf(m) : HeadOf(m)[x] # Blank
  <2>1. /\ get_hostname(m) # "" /\ get_username(m) # "" /\ get_os_info(m) # ""
        /\ get_kernel(m) # "" /\ get_uptime(m) # "" /\ get_shell(m) # ""
    BY DEF get_hostname, get_username, get_os_info, get_kernel, get_uptime, get_shell,
           EnvironmentFilled
  <2>2. /\ get_cpu_info(m).model # "" /\ get_memory_info(m) # "" /\ get_swap_info(m) # ""
        /\ get_disk_info(m) # ""
    BY DEF get_cpu_info, get_memory_info, get_swap_info, get_disk_info
  <2>3. DOMAIN HeadOf(m) = {"hostname", "username", "os_name", "kernel", "uptime",
                              "shell", "cpu_model", "memory", "swap", "disk"}
    BY DEF HeadOf
  <2>4. /\ HeadOf(m).hostname = get_hostname(m) /\ HeadOf(m).username = get_username(m)
        /\ HeadOf(m).os_name = get_os_info(m) /\ HeadOf(m).kernel = get_kernel(m)
        /\ HeadOf(m).uptime = get_uptime(m) /\ HeadOf(m).shell = get_shell(m)
        /\ HeadOf(m).cpu_model = get_cpu_info(m).model /\ HeadOf(m).memory = get_memory_info(m)
        /\ HeadOf(m).swap = get_swap_info(m) /\ HeadOf(m).disk = get_disk_info(m)
    BY DEF HeadOf
  <2> QED  BY <2>1, <2>2, <2>3, <2>4
<1>2. \A x \in DOMAIN TailOf(m) : TailOf(m)[x] # Blank
  <2>1. /\ get_packages(m) # "" /\ get_desktop_info(m).de # "" /\ get_desktop_info(m).wm # ""
        /\ get_detailed_theme_info(m) # "" /\ get_terminal_info(m) # ""
    BY DEF get_packages, get_desktop_info, get_detailed_theme_info, get_terminal_info,
           EnvironmentFilled
  <2>2. get_network_info(m) # "" /\ get_display_info(m) # "" /\ get_locale_info(m) # ""
    BY DEF get_network_info, get_display_info, get_locale_info, EnvironmentFilled
  <2>3. get_battery_info(m) # ""
    BY MachineAssumption DEF get_battery_info
  <2>4. DOMAIN TailOf(m) = {"packages", "de", "wm", "wm_theme", "gtk_theme",
                              "icon_theme", "font", "cursor_theme", "terminal", "local_ip",
                              "battery", "display", "locale"}
    BY DEF TailOf
  <2>5. /\ TailOf(m).packages = get_packages(m) /\ TailOf(m).de = get_desktop_info(m).de
        /\ TailOf(m).wm = get_desktop_info(m).wm /\ TailOf(m).wm_theme = get_detailed_theme_info(m)
        /\ TailOf(m).gtk_theme = get_detailed_theme_info(m) /\ TailOf(m).icon_theme = get_detailed_theme_info(m)
        /\ TailOf(m).font = get_detailed_theme_info(m) /\ TailOf(m).cursor_theme = get_detailed_theme_info(m)
        /\ TailOf(m).terminal = get_terminal_info(m) /\ TailOf(m).local_ip = get_network_info(m)
        /\ TailOf(m).battery = get_battery_info(m) /\ TailOf(m).display = get_display_info(m)
        /\ TailOf(m).locale = get_locale_info(m)
    BY DEF TailOf
  <2> QED  BY <2>1, <2>2, <2>3, <2>4, <2>5
<1>3. \A h \in ForeignHeads(m) : \A x \in DOMAIN h : h[x] # Blank
  <2>1. foreign_cpu_model(m) # "" /\ foreign_memory(m) # "" /\ "" \notin foreign_swap(m)
    BY DEF foreign_cpu_model, foreign_memory, foreign_swap, get_cpu_info, get_memory_info
  <2>2. \A h \in ForeignHeads(m) :
          \E s \in foreign_swap(m) :
            h = [HeadOf(m) EXCEPT !.cpu_model = foreign_cpu_model(m),
                                  !.memory = foreign_memory(m), !.swap = s]
    BY DEF ForeignHeads
  <2>3. "cpu_model" \in DOMAIN HeadOf(m) /\ "memory" \in DOMAIN HeadOf(m)
        /\ "swap" \in DOMAIN HeadOf(m)
    BY DEF HeadOf
  <2>4. \A h \in ForeignHeads(m) :
          /\ DOMAIN h = DOMAIN HeadOf(m)
          /\ \A x \in DOMAIN h : \/ h[x] = HeadOf(m)[x]
                                \/ h[x] \in {foreign_cpu_model(m), foreign_memory(m)}
                                \/ h[x] \in foreign_swap(m)
    BY <2>2, <2>3, Zenon DEF HeadOf
  <2> QED  BY <1>1, <2>1, <2>4
<1> QED  BY <1>1, <1>2, <1>3 DEF Heads

LEMMA LineCount ==
    ASSUME Texts, NEW t \in Threads, pc[t] = "done"
    PROVE  InfoCount(info[t]) <= MaxLines
<1>1. /\ info[t].tail.field = TailOf(machine)
      /\ info[t].tail.gpu_count \in 1 .. MAX_GPUS
  BY DEF Texts, OwnTail
<1> DEFINE themes == {"wm_theme", "gtk_theme", "icon_theme", "font", "cursor_theme"}
<1>2. {k \in themes : info[t].tail.field[k] # Unknown} = {}
  BY <1>1 DEF TailOf, get_detailed_theme_info
<1>3. Cardinality({k \in themes : info[t].tail.field[k] # Unknown}) = 0
  BY <1>2, FS_EmptySet
<1> DEFINE swap == IF info[t].head.field.swap # "No swap" THEN 1 ELSE 0
<1>4. InfoCount(info[t]) = 12 + Cardinality({k \in themes : info[t].tail.field[k] # Unknown})
                              + 2 + info[t].tail.gpu_count + 1 + swap + 4 + 2 + 2
  BY DEF InfoCount
<1>5. swap \in 0 .. 1
  OBVIOUS
<1> HIDE DEF swap, themes
<1> QED  BY <1>1, <1>3, <1>4, <1>5, LinesAssumption, RowsAssumption

(* Every record that get_system_info returns, served or gathered, on any   *)
(* machine and with any number of threads, fits into formatted_info, and   *)
(* each of its lines has a text where the environment has.                 *)
THEOREM RecordsAreDisplayable == Spec => []Displayable
<1>1. Init => CacheInv /\ Texts
  <2>1. Init => Texts
    BY DEF Init, InfoInit, Texts
  <2> QED  BY <2>1, InitInv
<1>2. CacheInv /\ Texts /\ [Next]_vars => (CacheInv /\ Texts)'
  BY NextInv, TextsNext
<1>3. CacheInv /\ Texts => Displayable
  <2> SUFFICES ASSUME CacheInv, Texts, NEW t \in Threads, pc[t] = "done"
               PROVE  /\ InfoCount(info[t]) <= MaxLines
                      /\ (EnvironmentFilled(machine) /\ machine.meminfo # "none")
                         => /\ \A x \in DOMAIN info[t].head.field : info[t].head.field[x] # Blank
                            /\ \A x \in DOMAIN info[t].tail.field : info[t].tail.field[x] # Blank
                            /\ info[t].tail.gpu_count \in 1 .. MAX_GPUS
    BY DEF Displayable, LinesFit, ShownFieldsFilled
  <2>1. OwnHead(info[t]) /\ OwnTail(info[t]) /\ machine \in Machines
    BY DEF Texts, CacheInv, Types
  <2> QED  BY <2>1, LineCount, FieldsFilled DEF OwnHead, OwnTail
<1> QED  BY <1>1, <1>2, <1>3, PTL DEF Spec

=============================================================================

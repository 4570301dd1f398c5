----------------------------- MODULE SystemInfo -----------------------------
(***************************************************************************)
(* get_system_info of src/sysinfo.c: the record of the last gathering is   *)
(* kept in a mapped area for a second.  The mutex is held for the look at  *)
(* the cache and again for the copy into it, and not while the record is   *)
(* gathered.  Copies of a record are made in two steps, of its two halves, *)
(* so that a copy without the mutex would show.                            *)
(*                                                                         *)
(* Gathering threads share the position of strtok, which is the process's, *)
(* and the buffer of read_sysfs_string.  A parse is two steps, the first   *)
(* call of strtok and the further ones; it reads the lines it began with   *)
(* only if no other thread came between.                                   *)
(***************************************************************************)
EXTENDS CommandBuffers, Gatherers

CONSTANTS
    NoThread,           \* the mutex is free
    Machines,           \* the machines the program may run on
    Second,             \* the 1000000 microseconds of the cache's life
    StartTime,          \* the monotonic clock when the program starts
    MaxTime             \* bound on the clock

(* CLOCK_MONOTONIC counts from boot; last_update = 0.0 stands for "never"  *)
(* only if the program does not run in the first second after it.          *)
ASSUME ClockAssumption ==
    /\ NoThread \notin Threads
    /\ {Second, StartTime, MaxTime} \subseteq Nat
    /\ Second > 0 /\ Second <= StartTime /\ StartTime <= MaxTime

(* The lines lspci prints fit into a row or do not, and the kernel names   *)
(* the state of a battery, if it has a file for it.                        *)
ASSUME MachineAssumption ==
    \A m \in Machines : m.lspci \in Seq({"short", "long"}) /\ m.status # Blank

VARIABLES
    machine,
    now,                \* get_time_microseconds()
    mapping,            \* the pointer cached_info
    cached_info,        \* the memory it points to
    last_update,
    cache_mutex,
    pc,                 \* pc[t]: where t is in get_system_info
    info,               \* info[t]: the record t fills
    current_time,       \* current_time[t]: the local variable
    disturbed,          \* threads whose parse was continued by another thread
    overlapped,         \* history: a parse began during one of another thread
    fault               \* memory that is not mapped was read or written

info_vars == <<machine, now, mapping, cached_info, last_update, cache_mutex, pc,
               info, current_time, disturbed, overlapped, fault>>
parsing == <<disturbed, overlapped>>

(* A half is stamped, as history, with the time the gathering began to     *)
(* read the machine and the thread that did it, and whether the lines that *)
(* were parsed for it are its own; a half of zero bytes has no stamp.      *)
NoStamp == [by |-> NoThread, at |-> 0]
ZeroHalf(f) == [stamp |-> NoStamp, own |-> TRUE, gpu_count |-> 0,
                field |-> [x \in DOMAIN f |-> Blank]]
Zero == [head |-> ZeroHalf(HeadOf(machine)), tail |-> ZeroHalf(TailOf(machine))]

InfoInit ==
    /\ machine \in Machines
    /\ now = StartTime
    /\ mapping = "NULL"
    /\ cached_info = Zero
    /\ last_update = 0
    /\ cache_mutex = NoThread
    /\ pc = [t \in Threads |-> "out"]
    /\ info = [t \in Threads |-> Zero]
    /\ current_time = [t \in Threads |-> 0]
    /\ disturbed = {} /\ overlapped = FALSE
    /\ fault = FALSE

Move(t, from, to) == pc[t] = from /\ pc' = [pc EXCEPT ![t] = to]

(* init_fast_cache: under RLIMIT_AS, mmap may fail.                        *)
InitFastCache(got) ==
    /\ got \in {"mapped", "MAP_FAILED"}
    /\ mapping' = got
    /\ cached_info' = Zero
    /\ UNCHANGED <<machine, now, last_update, cache_mutex, pc, info,
                   current_time, parsing, fault>>

GetSystemInfo(t) ==
    /\ Move(t, "out", "look")
    /\ UNCHANGED <<machine, now, mapping, cached_info, last_update, cache_mutex,
                   info, current_time, parsing, fault>>

(* With the mutex: a record younger than a second is copied, else the      *)
(* caller's record is wiped and gathered.                                  *)
CacheHit(t) ==
    /\ cache_mutex = NoThread
    /\ mapping # "NULL" /\ now - last_update < Second
    /\ Move(t, "look", "copy")
    /\ cache_mutex' = t
    /\ info' = [info EXCEPT ![t].head = cached_info.head]
    /\ fault' = (fault \/ mapping = "MAP_FAILED")
    /\ current_time' = [current_time EXCEPT ![t] = now]
    /\ UNCHANGED <<machine, now, mapping, cached_info, last_update, parsing>>

CopyRest(t) ==
    /\ Move(t, "copy", "done")
    /\ info' = [info EXCEPT ![t].tail = cached_info.tail]
    /\ cache_mutex' = NoThread
    /\ UNCHANGED <<machine, now, mapping, cached_info, last_update,
                   current_time, parsing, fault>>

CacheMiss(t) ==
    /\ cache_mutex = NoThread
    /\ mapping = "NULL" \/ now - last_update >= Second
    /\ Move(t, "look", "gather")
    /\ info' = [info EXCEPT ![t] = Zero]
    /\ current_time' = [current_time EXCEPT ![t] = now]
    /\ UNCHANGED <<machine, now, mapping, cached_info, last_update, cache_mutex,
                   parsing, fault>>

(* strtok or read_sysfs_string, called by t: the position or buffer of any *)
(* other thread in the middle of a parse is gone.  The first call of a     *)
(* parse begins anew.                                                      *)
Parses(t) == pc[t] \in {"parse", "parse_gpus"}
Disturb(t) == disturbed' = (disturbed \cup {u \in Threads : Parses(u)}) \ {t}
BeginParse(t) ==
    /\ Disturb(t)
    /\ overlapped' = (overlapped \/ \E u \in Threads \ {t} : Parses(u))

(* get_hostname .. get_disk_info; get_cpu_info, get_memory_info and        *)
(* get_swap_info go on to parse.                                           *)
GatherHead(t) ==
    /\ Move(t, "gather", "parse")
    /\ BeginParse(t)
    /\ info' = [info EXCEPT ![t].head =
                  [stamp |-> [by |-> t, at |-> now], own |-> TRUE, gpu_count |-> 0,
                   field |-> HeadOf(machine)]]
    /\ UNCHANGED <<machine, now, mapping, cached_info, last_update, cache_mutex,
                   current_time, fault>>

ParseHead(t) ==
    /\ Move(t, "parse", "gpus")
    /\ Disturb(t)
    /\ IF t \notin disturbed
       THEN info' = info
       ELSE \E f \in ForeignHeads(machine) :
              info' = [info EXCEPT ![t].head.own = FALSE, ![t].head.field = f]
    /\ UNCHANGED <<machine, now, mapping, cached_info, last_update, cache_mutex,
                   current_time, overlapped, fault>>

(* get_all_gpus, without output (own = TRUE, no lines) or from its lines,  *)
(* and the gatherers after it.                                             *)
GatherTail(t, from, own, lines) ==
    /\ Move(t, from, "publish")
    /\ info' = [info EXCEPT ![t].tail =
                  [stamp |-> info[t].head.stamp, own |-> own,
                   gpu_count |-> get_all_gpus(lines), field |-> TailOf(machine)]]
    /\ UNCHANGED <<machine, now, mapping, cached_info, last_update, cache_mutex,
                   current_time, overlapped, fault>>

NoGpus(t) == GatherTail(t, "gpus", TRUE, <<>>) /\ UNCHANGED disturbed

(* The output is copied at once; own says whether it is the command's.     *)
BeginGpus(t, own) ==
    /\ Move(t, "gpus", "parse_gpus")
    /\ BeginParse(t)
    /\ info' = [info EXCEPT ![t].tail.own = own]
    /\ UNCHANGED <<machine, now, mapping, cached_info, last_update, cache_mutex,
                   current_time, fault>>

ParseGpus(t) ==
    /\ Disturb(t)
    /\ IF t \notin disturbed /\ info[t].tail.own
       THEN GatherTail(t, "parse_gpus", TRUE, lspci(machine))
       ELSE \E lines \in foreign_lines : GatherTail(t, "parse_gpus", FALSE, lines)

(* With the mutex: the record goes into the cache with the time at which   *)
(* the call began.                                                         *)
(* Mutants: the time of publication; no mutex; no test of the pointer.     *)
PublishAs(t, lock, time) ==
    /\ Move(t, "publish", "publish_rest")
    /\ cache_mutex' = lock
    /\ cached_info' = [cached_info EXCEPT !.head = info[t].head]
    /\ fault' = (fault \/ mapping # "mapped")
    /\ last_update' = time
    /\ UNCHANGED <<machine, now, mapping, info, current_time, parsing>>

PublishNow(t) ==
    cache_mutex = NoThread /\ mapping # "MAP_FAILED" /\ PublishAs(t, t, now)
PublishUnlocked(t) ==
    mapping # "MAP_FAILED" /\ PublishAs(t, cache_mutex, current_time[t])
PublishUntested(t) ==
    cache_mutex = NoThread /\ PublishAs(t, t, current_time[t])
Publish(t) ==
    cache_mutex = NoThread /\ mapping # "MAP_FAILED" /\ PublishAs(t, t, current_time[t])

(* Mutant: the mutex is kept.                                              *)
PublishRestLocked(t) ==
    /\ Move(t, "publish_rest", "done")
    /\ cached_info' = [cached_info EXCEPT !.tail = info[t].tail]
    /\ UNCHANGED <<machine, now, mapping, last_update, cache_mutex, info,
                   current_time, parsing, fault>>
PublishRest(t) ==
    /\ Move(t, "publish_rest", "done")
    /\ cached_info' = [cached_info EXCEPT !.tail = info[t].tail]
    /\ cache_mutex' = NoThread
    /\ UNCHANGED <<machine, now, mapping, last_update, info, current_time, parsing,
                   fault>>

NoPublish(t) ==
    /\ cache_mutex = NoThread /\ mapping = "MAP_FAILED"
    /\ Move(t, "publish", "done")
    /\ UNCHANGED <<machine, now, mapping, cached_info, last_update, cache_mutex,
                   info, current_time, parsing, fault>>

(* The caller is done with the record.                                     *)
Return(t) ==
    /\ Move(t, "done", "out")
    /\ info' = [info EXCEPT ![t] = Zero]
    /\ current_time' = [current_time EXCEPT ![t] = 0]
    /\ UNCHANGED <<machine, now, mapping, cached_info, last_update, cache_mutex,
                   parsing, fault>>

(* The process ends, and its memory with it.                               *)
InfoExit ==
    /\ machine' = machine /\ now' = StartTime
    /\ mapping' = "NULL" /\ cached_info' = Zero /\ last_update' = 0
    /\ cache_mutex' = NoThread /\ disturbed' = {} /\ overlapped' = FALSE
    /\ pc' = [t \in Threads |-> "out"]
    /\ info' = [t \in Threads |-> Zero]
    /\ current_time' = [t \in Threads |-> 0]
    /\ fault' = FALSE

Tick ==
    /\ now < MaxTime
    /\ now' = now + 1
    /\ UNCHANGED <<machine, mapping, cached_info, last_update, cache_mutex, pc,
                   info, current_time, parsing, fault>>

InfoStep(t) ==
    \/ CacheHit(t) \/ CopyRest(t) \/ CacheMiss(t)
    \/ GatherHead(t) \/ ParseHead(t) \/ ParseGpus(t)
    \/ Publish(t) \/ PublishRest(t) \/ NoPublish(t)

Stamps == {NoStamp} \cup [by : Threads, at : StartTime .. MaxTime]

InfoTypeOK ==
    /\ machine \in Machines
    /\ now \in StartTime .. MaxTime
    /\ mapping \in {"NULL", "MAP_FAILED", "mapped"}
    /\ last_update \in {0} \cup StartTime .. MaxTime
    /\ cache_mutex \in Threads \cup {NoThread}
    /\ pc \in [Threads -> {"out", "look", "copy", "gather", "parse", "gpus",
                           "parse_gpus", "publish", "publish_rest", "done"}]
    /\ current_time \in [Threads -> {0} \cup StartTime .. MaxTime]
    /\ disturbed \in SUBSET Threads /\ overlapped \in BOOLEAN
    /\ fault \in BOOLEAN
    /\ \A r \in {cached_info} \cup {info[t] : t \in Threads} :
        {r.head.stamp, r.tail.stamp} \subseteq Stamps

(***************************************************************************)
(* Properties.                                                             *)
(***************************************************************************)

(* What the cache serves was read from the machine less than a second ago, *)
(* in whatever order threads that gather at the same time publish, and     *)
(* however long they take (last_update travels with the record).           *)
ServedFresh ==
    [][\A t \in Threads : (pc[t] = "look" /\ pc'[t] = "copy")
        => /\ info'[t].head.stamp # NoStamp
           /\ now - info'[t].head.stamp.at < Second]_info_vars

(* A record that get_system_info returns is of one gathering: no caller    *)
(* sees one half of a record and the other half of another, however the    *)
(* threads overlap.  And its lines are those of its own files and command, *)
(* served or gathered, unless a parse once began within one of another     *)
(* thread (then strtok and read_sysfs_string mix the two), or the command  *)
(* buffers were lapped or the fallback shared.                             *)
OneGathering ==
    \A t \in Threads : pc[t] = "done" =>
        /\ info[t].head.stamp = info[t].tail.stamp /\ info[t].head.stamp # NoStamp
        /\ ~overlapped /\ ~lapped /\ ~crowded => info[t].head.own /\ info[t].tail.own

(* The cache is read and written only through a pointer to mapped memory,  *)
(* although the read tests for NULL and the write for MAP_FAILED only.     *)
OnlyMappedMemory == ~fault

=============================================================================

------------------------------- MODULE Rates --------------------------------
(***************************************************************************)
(* Rates computed from counters: the CPU share of processes (get_processes *)
(* of src/process.c), the transfers of disks and network interfaces        *)
(* (get_io_performance, get_network_performance of src/performance.c, one  *)
(* algorithm on two files) and page faults (get_memory_performance).  The  *)
(* counter of the previous scan is kept per position in the listing, not   *)
(* per object.                                                             *)
(***************************************************************************)
EXTENDS Integers, Sequences, FiniteSets, SequencesExt

CONSTANTS
    Objects,            \* processes, disks or interfaces
    Slots,              \* MAX_PROCESSES, 16
    Width,              \* unsigned differences are modulo Width
    MaxCount, MaxTime   \* bounds: counters, clock

ASSUME RatesAssumption ==
    /\ IsFiniteSet(Objects)
    /\ Slots \in Nat \ {0} /\ MaxCount \in Nat /\ MaxTime \in Nat \ {0}
    /\ Width \in Nat /\ Width > MaxCount

VARIABLES
    sampler,            \* which of the functions is called
    now, counter,
    list,               \* what the running scan has still to look at
    scanning,
    snapshot,           \* /proc/diskstats, /proc/net/dev, /proc/vmstat as read
    total,              \* total_jiffies of the running scan
    prev,               \* prev_process_time, prev_reads, ..., prev_faults
    prev_time,          \* prev_total_jiffies, prev_time; 0 before the first
    count,
    shown,              \* the rate computed last
    was,                \* history: counter and time of an object's last sample
    listed, before      \* history: the objects of this and of the last scan

rates_vars == <<sampler, now, counter, list, scanning, snapshot, total, prev,
                prev_time, count, shown, was, listed, before>>

NoRate == [of |-> "none"]

RatesInit ==
    /\ sampler \in {"processes", "disks", "interfaces", "faults"}
    /\ now = 1 /\ counter = [o \in Objects |-> 0]
    /\ list = <<>> /\ scanning = FALSE /\ snapshot = counter /\ total = 0
    /\ prev = [i \in 0 .. Slots - 1 |-> 0] /\ prev_time = 0 /\ count = 0
    /\ shown = NoRate
    /\ was = [o \in Objects |-> [value |-> 0, time |-> 0]]
    /\ listed = <<>> /\ before = <<>>

(* Time passes and objects work, also while a scan runs.                   *)
Tick ==
    /\ now < MaxTime /\ now' = now + 1
    /\ UNCHANGED <<sampler, counter, list, scanning, snapshot, total, prev,
                   prev_time, count, shown, was, listed, before>>
Work(o) ==
    /\ counter[o] < MaxCount /\ counter' = [counter EXCEPT ![o] = @ + 1]
    /\ UNCHANGED <<sampler, now, list, scanning, snapshot, total, prev,
                   prev_time, count, shown, was, listed, before>>

(* A scan begins.  The device files are read as a whole; get_processes     *)
(* reads the machine's time first (0 if it cannot) and the processes one   *)
(* by one.                                                                 *)
BeginScan(objects, jiffies) ==
    /\ ~scanning /\ scanning' = TRUE
    /\ list' = objects
    /\ snapshot' = IF sampler = "processes" THEN snapshot ELSE counter
    /\ total' = jiffies
    /\ count' = 0 /\ listed' = <<>> /\ before' = listed /\ shown' = NoRate
    /\ UNCHANGED <<sampler, now, counter, prev, prev_time, was>>

(* get_processes cannot open /proc: it returns with the machine's time     *)
(* read, and keeps nothing of it.                                          *)
OpendirFails(jiffies) ==
    /\ sampler = "processes" /\ ~scanning
    /\ total' = jiffies
    /\ UNCHANGED <<sampler, now, counter, list, scanning, snapshot, prev,
                   prev_time, count, shown, was, listed, before>>

Growth(value, slot) == (value - prev[slot]) % Width

(* What is kept of a sample.  Mutant: the time is kept once only.          *)
KeepCounter(value) == prev' = [prev EXCEPT ![count] = value]
KeepFirstTime == prev_time' = IF prev_time = 0 THEN now ELSE prev_time
KeepTime == prev_time' = now

Looking(s) == sampler = s /\ scanning /\ list # <<>> /\ count < Slots

Sampled(value, growth, over) ==
    LET o == Head(list) IN
    /\ shown' = [of |-> o, slot |-> count + 1, growth |-> growth, over |-> over,
                 own |-> value - was[o].value, since |-> now - was[o].time]
    /\ KeepCounter(value)
    /\ count' = count + 1
    /\ was' = [was EXCEPT ![o] = [value |-> value, time |-> now]]
    /\ listed' = Append(listed, o)
    /\ list' = Tail(list)
    /\ UNCHANGED <<sampler, now, counter, scanning, snapshot, total, before>>

(* get_processes: one process.                                             *)
SampleProcess ==
    /\ Looking("processes")
    /\ LET value == counter[Head(list)] IN
       IF prev_time > 0 /\ total > prev_time
       THEN Sampled(value, Growth(value, count), total - prev_time)
       ELSE Sampled(value, 0, 0)
    /\ UNCHANGED prev_time

(* One device with traffic; a device without any has no slot.  One         *)
(* previous time serves all slots.                                         *)
SampleDevice ==
    /\ LET value == snapshot[Head(list)] IN
       /\ value > 0
       /\ IF prev_time > 0
          THEN Sampled(value, Growth(value, count), now - prev_time)
          ELSE Sampled(value, 0, 0)
    /\ KeepTime
SkipDevice ==
    /\ snapshot[Head(list)] = 0
    /\ list' = Tail(list)
    /\ UNCHANGED <<sampler, now, counter, scanning, snapshot, total, prev,
                   prev_time, count, shown, was, listed, before>>

get_io_performance == Looking("disks") /\ (SampleDevice \/ SkipDevice)
get_network_performance == Looking("interfaces") /\ (SampleDevice \/ SkipDevice)

(* The page faults of the machine.                                         *)
get_memory_performance ==
    /\ Looking("faults")
    /\ LET value == snapshot[Head(list)] IN
       IF prev_time > 0
       THEN Sampled(value, Growth(value, count), now - prev_time)
       ELSE Sampled(value, 0, 0)
    /\ KeepTime

EndScan ==
    /\ scanning /\ scanning' = FALSE
    /\ list = <<>> \/ count = Slots
    /\ list' = <<>> /\ shown' = NoRate
    /\ prev_time' = IF sampler = "processes" THEN total ELSE prev_time
    /\ UNCHANGED <<sampler, now, counter, snapshot, total, prev, count, was,
                   listed, before>>

(* The listings a scan may meet: one object for page faults.               *)
Listings ==
    {s \in SetToAllKPermutations(Objects) :
        sampler = "faults" => s = <<CHOOSE o \in Objects : TRUE>>}

RatesNext ==
    \/ Tick
    \/ \E o \in Objects : Work(o)
    \/ \E s \in Listings, jiffies \in IF sampler = "processes" THEN {0, now} ELSE {0} :
          BeginScan(s, jiffies)
    \/ \E jiffies \in {0, now} : OpendirFails(jiffies)
    \/ SampleProcess \/ get_io_performance \/ get_network_performance
    \/ get_memory_performance
    \/ EndScan

RatesTypeOK ==
    /\ counter \in [Objects -> 0 .. MaxCount] /\ snapshot \in [Objects -> 0 .. MaxCount]
    /\ now \in 1 .. MaxTime /\ prev_time \in 0 .. MaxTime /\ total \in 0 .. MaxTime
    /\ prev \in [0 .. Slots - 1 -> 0 .. MaxCount] /\ count \in 0 .. Slots

Measured == shown # NoRate /\ shown.over > 0
SameSlot == shown.slot \in DOMAIN before /\ before[shown.slot] = shown.of

(* The rate shown for a process or device is computed from its own growth  *)
(* if it stood at the same place of the previous listing; only a listing   *)
(* that changed before it can charge it with the work of another.          *)
OwnGrowth == (Measured /\ SameSlot) => shown.growth = shown.own

(* The rates of disks and interfaces divide by at most the time since the  *)
(* device was last measured, and by exactly that time when it is the only  *)
(* one: traffic is never understated.                                      *)
NotUnderstated ==
    (Measured /\ sampler # "processes" /\ SameSlot) =>
        /\ shown.over <= shown.since
        /\ Len(before) = 1 /\ shown.slot = 1 => shown.over = shown.since

(* A rate is of one object: its own growth over, at most, its own time,    *)
(* with counters and times that are kept by position (get_processes,       *)
(* get_io_performance, get_network_performance, get_memory_performance).   *)
OwnRate == OwnGrowth /\ NotUnderstated

=============================================================================

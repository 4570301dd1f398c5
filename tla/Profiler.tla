------------------------------ MODULE Profiler ------------------------------
(***************************************************************************)
(* The profiler of src/profiler.c: threads report the functions they enter *)
(* and leave, the profiler keeps a profile per thread and one table of     *)
(* events, and a thread of its own adds samples to the same table.         *)
(*                                                                         *)
(* Every operation but the sampling runs under profiler_mutex; a critical  *)
(* section that adds no event is one step.  The sampling thread calls      *)
(* add_profile_event without the mutex, so that its accesses to            *)
(* event_count are steps of their own: the test against MAX_SAMPLES, the   *)
(* load and the store of event_count++, and then the event is filled.      *)
(*                                                                         *)
(* What C leaves undefined ends the run, with the fault that ended it: a   *)
(* NULL profiler is used, a thread that was never made is waited for, an   *)
(* event is written past the end of the table, over the thread profiles.   *)
(*                                                                         *)
(* The statistics of a function are all derived from its execution_time,   *)
(* so that is kept, beside the true one, during an exit.                   *)
(***************************************************************************)
EXTENDS Integers, Sequences, FiniteSets

CONSTANTS
    Threads,        \* the profiled threads
    Main,           \* the one that starts, stops and resets the profiler
    Sampler,        \* the profiling thread
    Nobody,         \* no thread
    Functions,
    Id,             \* Id[t]: (int)pthread_self() of thread t
    MAX_SAMPLES, MAX_THREADS, MAX_FUNCTIONS,    \* sizes of the tables
    StartTime,      \* the time when the program starts, in microseconds
    MaxTurns,       \* bound: ticks of the clock and samples taken, together
    MaxDepth        \* bound: open calls per thread

ASSUME ProfilerAssumption ==
    /\ Main \in Threads
    /\ Sampler \notin Threads /\ Nobody \notin Threads \cup {Sampler}
    /\ Id \in [Threads -> Int]
    /\ MAX_SAMPLES \in Nat \ {0} /\ MAX_THREADS \in Nat /\ MAX_FUNCTIONS \in Nat
    /\ StartTime \in Nat \ {0} /\ MaxTurns \in Nat /\ MaxDepth \in Nat

VARIABLES
    profiler,           \* global_profiler is not NULL
    is_profiling,
    running,            \* profiling_thread_running
    threads,            \* the thread profiles up to thread_count
    events, event_count,
    mutex,              \* holder of profiler_mutex across steps
    pc,                 \* pc[p]: where thread p is
    event,              \* event[p]: the event p is adding, and its index
    calls,              \* calls[t]: the calls thread t is in, innermost last
    measured,           \* measured[t]: during an exit, its execution_time and the true one
    rounds,             \* samples taken
    clock,              \* get_time_microseconds
    fault               \* what ended the program, "none" while it runs

tables == <<threads, events, event_count>>
control == <<profiler, is_profiling, running>>
vars == <<control, tables, mutex, pc, event, calls, measured, rounds, clock, fault>>

Procs == Threads \cup {Sampler}
NoName == "none"

NoEvent == [event_type |-> "none", function_name |-> NoName, thread_id |-> 0,
            timestamp |-> 0]
(* Only ENTER events are looked up again; of the others the place counts.  *)
OtherEvent == [NoEvent EXCEPT !.event_type = "other"]
NoEvents == [i \in 1 .. MAX_SAMPLES |-> NoEvent]
NotAdding == [event_type |-> "none", function_name |-> NoName, index |-> 0]
NotMeasured == [sure |-> FALSE, execution_time |-> 0, true_time |-> 0]

Init ==
    /\ profiler = FALSE /\ is_profiling = FALSE /\ running = FALSE
    /\ threads = <<>> /\ events = NoEvents /\ event_count = 0
    /\ mutex = Nobody
    /\ pc = [p \in Procs |-> IF p = Sampler THEN "none" ELSE "idle"]
    /\ event = [p \in Procs |-> NotAdding]
    /\ calls = [t \in Threads |-> <<>>]
    /\ measured = [t \in Threads |-> NotMeasured]
    /\ rounds = 0 /\ clock = StartTime
    /\ fault = "none"

Go(p, place) == pc' = [pc EXCEPT ![p] = place]

(* The first profile of thread t, 0 if it has none.                        *)
IsProfileOf(i, t) ==
    /\ threads[i].thread_id = t
    /\ \A h \in 1 .. i - 1 : threads[h].thread_id # t
Profile(t) ==
    IF \E i \in 1 .. Len(threads) : IsProfileOf(i, t)
    THEN CHOOSE i \in 1 .. Len(threads) : IsProfileOf(i, t) ELSE 0

-----------------------------------------------------------------------------
(* What ends the program; it changes nothing any more.                     *)
Fails(f) ==
    /\ fault' = f
    /\ UNCHANGED <<control, tables, mutex, pc, event, calls, measured, rounds, clock>>

(* profiler_start: profiler_init if there is none, then the flag, then the *)
(* profiling thread.                                                       *)
Start ==
    /\ pc[Main] = "idle" /\ mutex = Nobody
    /\ profiler' = TRUE /\ is_profiling' = TRUE
    /\ Go(Main, "spawn")
    /\ UNCHANGED <<running, tables, mutex, event, calls, measured, rounds, clock, fault>>

(* profiler_init found no memory: the flag is set through NULL.            *)
StartFails ==
    /\ pc[Main] = "idle" /\ mutex = Nobody /\ ~profiler
    /\ Fails("no profiler")

(* pthread_create may fail: the thread then counts as running all the same. *)
StartThread(created) ==
    /\ pc[Main] = "spawn"
    /\ running' = TRUE
    /\ pc' = [pc EXCEPT ![Main] = "idle",
                        ![Sampler] = IF running \/ ~created THEN @ ELSE "loop"]
    /\ UNCHANGED <<profiler, is_profiling, tables, mutex, event, calls, measured, rounds,
                   clock, fault>>

(* profiler_stop, on its own or from profiler_cleanup: the flag, then the  *)
(* profiling thread is told and waited for.                                *)
Stop(after) ==
    /\ pc[Main] = "idle" /\ mutex = Nobody /\ profiler
    /\ is_profiling' = FALSE
    /\ Go(Main, after)
    /\ UNCHANGED <<profiler, running, tables, mutex, event, calls, measured, rounds, clock,
                   fault>>

(* Mutant: the profiling thread is not told.                               *)
StopThreadUntold ==
    /\ pc[Main] \in {"halt", "halt, free"}
    /\ Go(Main, IF ~running THEN IF pc[Main] = "halt" THEN "idle" ELSE "free"
                ELSE IF pc[Main] = "halt" THEN "join" ELSE "join, free")
    /\ UNCHANGED <<control, tables, mutex, event, calls, measured, rounds, clock, fault>>
(* Mutant: the profiling thread is told and not waited for.                *)
StopThreadUnjoined ==
    /\ pc[Main] \in {"halt", "halt, free"}
    /\ running' = FALSE
    /\ Go(Main, IF pc[Main] = "halt" THEN "idle" ELSE "free")
    /\ UNCHANGED <<profiler, is_profiling, tables, mutex, event, calls, measured, rounds,
                   clock, fault>>
StopThread ==
    /\ pc[Main] \in {"halt", "halt, free"}
    /\ running' = FALSE
    /\ Go(Main, IF ~running THEN IF pc[Main] = "halt" THEN "idle" ELSE "free"
                ELSE IF pc[Main] = "halt" THEN "join" ELSE "join, free")
    /\ UNCHANGED <<profiler, is_profiling, tables, mutex, event, calls, measured, rounds,
                   clock, fault>>

(* The wait ends once the thread has; if there is none, it ends at once    *)
(* with an error nobody looks at, or not at all (JoinFails).               *)
Join ==
    /\ pc[Main] \in {"join", "join, free"} /\ pc[Sampler] \in {"none", "ended"}
    /\ pc' = [pc EXCEPT ![Main] = IF pc[Main] = "join" THEN "idle" ELSE "free",
                        ![Sampler] = "none"]
    /\ UNCHANGED <<control, tables, mutex, event, calls, measured, rounds, clock, fault>>

JoinFails ==
    /\ pc[Main] \in {"join", "join, free"} /\ pc[Sampler] = "none"
    /\ Fails("no thread")

(* The end of profiler_cleanup; no other thread may be in the profiler.    *)
Free ==
    /\ pc[Main] = "free" /\ \A t \in Threads \ {Main} : pc[t] = "idle"
    /\ profiler' = FALSE
    /\ threads' = <<>> /\ events' = NoEvents /\ event_count' = 0
    /\ Go(Main, "idle")
    /\ UNCHANGED <<is_profiling, running, mutex, event, calls, measured, rounds, clock, fault>>

Reset ==
    /\ pc[Main] = "idle" /\ mutex = Nobody /\ profiler
    /\ threads' = <<>> /\ events' = NoEvents /\ event_count' = 0
    /\ UNCHANGED <<control, mutex, pc, event, calls, measured, rounds, clock, fault>>

-----------------------------------------------------------------------------
(* profile_function_enter and profile_function_exit                        *)

(* With one more call, of f, in the calls s.  An inner call of the same    *)
(* function makes the outer one hard to measure.                           *)
Called(s, f) ==
    Append([i \in DOMAIN s |-> [s[i] EXCEPT !.sure = s[i].sure /\ s[i].name # f]],
           [name |-> f, sure |-> FALSE, since |-> 0])

(* The function's side of a call: it is inside, whether profiled or not.   *)
Enter(t, f) ==
    /\ pc[t] = "idle" /\ Len(calls[t]) < MaxDepth
    /\ calls' = [calls EXCEPT ![t] = Called(calls[t], f)]
    /\ Go(t, IF profiler /\ is_profiling THEN "enter" ELSE "idle")
    /\ UNCHANGED <<control, tables, mutex, event, measured, rounds, clock, fault>>

Exit(t) ==
    /\ pc[t] = "idle" /\ calls[t] # <<>>
    /\ IF profiler /\ is_profiling
       THEN Go(t, "exit") /\ UNCHANGED calls
       ELSE /\ calls' = [calls EXCEPT ![t] = SubSeq(@, 1, Len(@) - 1)]
            /\ UNCHANGED pc
    /\ UNCHANGED <<control, tables, mutex, event, measured, rounds, clock, fault>>

Current(t) == calls[t][Len(calls[t])]

(* The profile of the thread and the function in it are made if they are   *)
(* missing and there is room; without both nothing is recorded.            *)
WithThread(t) ==
    IF Profile(t) = 0 /\ Len(threads) < MAX_THREADS
    THEN Append(threads, [thread_id |-> t, functions |-> {}])
    ELSE threads
HasRoom(i, f, ts) ==
    f \in ts[i].functions \/ Cardinality(ts[i].functions) < MAX_FUNCTIONS

EnterLocked(t) ==
    /\ pc[t] = "enter" /\ mutex = Nobody
    /\ LET ts == WithThread(t)
           i  == IF Profile(t) # 0 THEN Profile(t) ELSE Len(ts)
           ok == Len(ts) > 0 /\ ts[i].thread_id = t /\ HasRoom(i, Current(t).name, ts)
       IN  IF ok
           THEN /\ threads' = [ts EXCEPT ![i].functions = @ \cup {Current(t).name}]
                /\ event' = [event EXCEPT ![t] = [event_type |-> "ENTER",
                                function_name |-> Current(t).name, index |-> 0]]
                /\ mutex' = t /\ Go(t, "add")
           ELSE threads' = ts /\ Go(t, "idle") /\ UNCHANGED <<event, mutex>>
    /\ UNCHANGED <<control, events, event_count, calls, measured, rounds, clock, fault>>

(* The newest ENTER of the function by the thread, as far as the table has *)
(* it: 0 if it does not.  A thread is known by its truncated id; what lies *)
(* past the table is no ENTER.                                             *)
(* Mutant: the thread is not compared.                                     *)
IsEnterAnyThread(e, t) ==
    e.event_type = "ENTER" /\ e.function_name = Current(t).name
IsEnter(e, t) ==
    e.event_type = "ENTER" /\ e.function_name = Current(t).name /\ e.thread_id = Id[t]
Enters(t) == {i \in DOMAIN events : i <= event_count /\ IsEnter(events[i], t)}
(* Mutant: the table is searched from its start.                           *)
EnterTimeOldest(t) ==
    LET found == Enters(t)
    IN  IF found = {} THEN 0
        ELSE events[CHOOSE i \in found : \A h \in found : h >= i].timestamp
EnterTime(t) ==
    LET found == Enters(t)
    IN  IF found = {} THEN 0
        ELSE events[CHOOSE i \in found : \A h \in found : h <= i].timestamp

ExitLocked(t) ==
    /\ pc[t] = "exit" /\ mutex = Nobody
    /\ calls' = [calls EXCEPT ![t] = SubSeq(@, 1, Len(@) - 1)]
    /\ IF Profile(t) # 0 /\ Current(t).name \in threads[Profile(t)].functions
       THEN /\ measured' = [measured EXCEPT ![t] =
                 [sure |-> Current(t).sure, execution_time |-> clock - EnterTime(t),
                  true_time |-> clock - Current(t).since]]
            /\ event' = [event EXCEPT ![t] = [event_type |-> "EXIT",
                            function_name |-> Current(t).name, index |-> 0]]
            /\ mutex' = t /\ Go(t, "add")
       ELSE Go(t, "idle") /\ UNCHANGED <<measured, event, mutex>>
    /\ UNCHANGED <<control, tables, rounds, clock, fault>>

(* profile_thread_start makes a profile whether there is one or not.  What *)
(* profile_thread_end sets, is_active and cpu_time, only the report reads. *)
ThreadStart(t) ==
    /\ pc[t] = "idle" /\ mutex = Nobody /\ profiler /\ Len(threads) < MAX_THREADS
    /\ threads' = Append(threads, [thread_id |-> t, functions |-> {}])
    /\ UNCHANGED <<control, events, event_count, mutex, pc, event, calls, measured, rounds,
                   clock, fault>>

-----------------------------------------------------------------------------
(* add_profile_event                                                       *)

(* Back in the caller: a thread releases the mutex, the profiling thread   *)
(* goes on from the first of its two events to the second.                 *)
Added(p) ==
    IF p \in Threads
    THEN /\ Go(p, "idle") /\ mutex' = Nobody
         /\ event' = [event EXCEPT ![p] = NotAdding]
         /\ measured' = [measured EXCEPT ![p] = NotMeasured]
    ELSE /\ UNCHANGED <<mutex, measured>>
         /\ IF event[p].event_type = "SAMPLE"
            THEN /\ event' = [event EXCEPT ![p] = [event_type |-> "MEMORY",
                                 function_name |-> NoName, index |-> 0]]
                 /\ Go(p, "add")
            ELSE event' = [event EXCEPT ![p] = NotAdding] /\ Go(p, "loop")

(* Mutant: the table is taken to have one entry more.                      *)
AddTestPastEnd(p) ==
    /\ pc[p] = "add"
    /\ event_count <= MAX_SAMPLES
    /\ Go(p, "read")
    /\ UNCHANGED <<control, tables, mutex, event, calls, measured, rounds, clock, fault>>
AddTest(p) ==
    /\ pc[p] = "add"
    /\ event_count < MAX_SAMPLES
    /\ Go(p, "read")
    /\ UNCHANGED <<control, tables, mutex, event, calls, measured, rounds, clock, fault>>

AddFull(p) ==
    /\ pc[p] = "add"
    /\ event_count >= MAX_SAMPLES
    /\ Added(p)
    /\ UNCHANGED <<control, tables, calls, rounds, clock, fault>>

AddRead(p) ==
    /\ pc[p] = "read"
    /\ event' = [event EXCEPT ![p].index = event_count + 1]
    /\ Go(p, "store")
    /\ UNCHANGED <<control, tables, mutex, calls, measured, rounds, clock, fault>>

AddStore(p) ==
    /\ pc[p] = "store"
    /\ event_count' = event[p].index
    /\ Go(p, "fill")
    /\ UNCHANGED <<control, threads, events, mutex, event, calls, measured, rounds, clock,
                   fault>>

AddFill(p) ==
    /\ pc[p] = "fill" /\ event[p].index <= MAX_SAMPLES
    /\ events' = [events EXCEPT ![event[p].index] =
         IF event[p].event_type = "ENTER"
         THEN [event_type |-> "ENTER", function_name |-> event[p].function_name,
               thread_id |-> Id[p], timestamp |-> clock]
         ELSE OtherEvent]
    /\ calls' = IF event[p].event_type = "ENTER"
                THEN [calls EXCEPT ![p][Len(calls[p])] = [@ EXCEPT !.sure = TRUE, !.since = clock]]
                ELSE calls
    /\ Added(p)
    /\ UNCHANGED <<control, threads, event_count, rounds, clock, fault>>

AddOverrun(p) ==
    /\ pc[p] = "fill" /\ event[p].index > MAX_SAMPLES
    /\ Fails("overrun")

-----------------------------------------------------------------------------
(* profiling_thread_func and sample_system_state, without the mutex.       *)

Turns == clock - StartTime + rounds

SamplerSamples ==
    /\ pc[Sampler] = "loop" /\ running /\ is_profiling /\ Turns < MaxTurns
    /\ rounds' = rounds + 1
    /\ event' = [event EXCEPT ![Sampler] = [event_type |-> "SAMPLE",
                    function_name |-> NoName, index |-> 0]]
    /\ Go(Sampler, "add")
    /\ UNCHANGED <<control, tables, mutex, calls, measured, clock, fault>>

SamplerEnds ==
    /\ pc[Sampler] = "loop" /\ ~running
    /\ Go(Sampler, "ended")
    /\ UNCHANGED <<control, tables, mutex, event, calls, measured, rounds, clock, fault>>

Tick ==
    /\ Turns < MaxTurns
    /\ clock' = clock + 1
    /\ UNCHANGED <<control, tables, mutex, pc, event, calls, measured, rounds, fault>>

-----------------------------------------------------------------------------
(* What a thread does once it is in the profiler.                          *)
Step(p) ==
    AddTest(p) \/ AddFull(p) \/ AddRead(p) \/ AddStore(p) \/ AddFill(p) \/ AddOverrun(p)
Sampling == fault = "none" /\ (SamplerSamples \/ SamplerEnds \/ Step(Sampler))
Joining == fault = "none" /\ (Join \/ JoinFails)

Calling ==
    \/ Start \/ StartFails \/ \E created \in BOOLEAN : StartThread(created)
    \/ Stop("halt") \/ Stop("halt, free") \/ StopThread \/ Free \/ Reset
    \/ \E t \in Threads :
         \/ \E f \in Functions : Enter(t, f)
         \/ Exit(t) \/ EnterLocked(t) \/ ExitLocked(t) \/ ThreadStart(t)
         \/ Step(t)

Ended == fault # "none" /\ UNCHANGED vars

Next == (fault = "none" /\ (Calling \/ Tick)) \/ Joining \/ Sampling \/ Ended

Spec == Init /\ [][Next]_vars

(* The profiling thread runs, and a thread that waits for it in            *)
(* stop_profiling_thread goes on once it ended.  Nobody has to call the    *)
(* profiler, and no one has to get the mutex ahead of others.              *)
FairSpec == Spec /\ WF_vars(Sampling) /\ WF_vars(Joining)

-----------------------------------------------------------------------------
(* Properties.                                                             *)

(* Until the profiling thread takes a sample, no event is written past the *)
(* table.  From then on it adds events without the mutex, and it and a     *)
(* thread that holds it may pass the test before either advances           *)
(* event_count: the program then writes past the table, and event_count    *)
(* exceeds it by two at most.                                              *)
TypeOK ==
    /\ profiler \in BOOLEAN /\ is_profiling \in BOOLEAN /\ running \in BOOLEAN
    /\ threads \in Seq([thread_id : Threads, functions : SUBSET Functions])
    /\ Len(threads) <= MAX_THREADS
    /\ event_count \in 0 .. MAX_SAMPLES + 2
    /\ \A p \in Procs : event[p].index \in 0 .. MAX_SAMPLES + 2
    /\ rounds = 0 => /\ event_count <= MAX_SAMPLES /\ fault # "overrun"
                     /\ \A p \in Procs : event[p].index <= MAX_SAMPLES
    /\ fault \in {"none", "no profiler", "no thread", "overrun"}
    /\ mutex \in Threads \cup {Nobody}
    /\ pc \in [Procs -> {"none", "idle", "spawn", "halt", "halt, free", "join", "join, free",
                         "free", "enter", "exit", "add", "read", "store", "fill", "loop",
                         "ended"}]

(* The profiling thread is gone before profiler_cleanup frees what it      *)
(* writes to, in every order of starting, stopping and cleaning up, also   *)
(* when pthread_create failed.                                             *)
SamplerHasProfiler == pc[Sampler] \notin {"none", "ended"} => profiler

(* Until the profiling thread takes a sample, the execution_time of a call *)
(* is the time since its own ENTER event, if that was recorded and the     *)
(* function did not call itself meanwhile: not that of another thread in   *)
(* the same function, nor of an earlier call, nor of before a reset.  The  *)
(* thread must have no id in common with another, of the 32 bits of it     *)
(* that are compared.                                                      *)
ExactTimes ==
    \A t \in Threads :
        /\ rounds = 0 /\ measured[t].sure
        /\ \A u \in Threads \ {t} : Id[u] # Id[t]
        => measured[t].execution_time = measured[t].true_time

(* profiler_stop and profiler_cleanup come to an end once they wait for    *)
(* the profiling thread, whatever it is doing, unless the program does.    *)
StopReturns ==
    pc[Main] \in {"join", "join, free"} ~> pc[Main] \in {"idle", "free"} \/ fault # "none"

-----------------------------------------------------------------------------
(* What the code says of itself, and does not do.                          *)

(* "Top Functions by Execution Time" (generate_profile_report): no call    *)
(* took longer than the program has been running.                          *)
TimesPossible ==
    \A t \in Threads : measured[t].execution_time <= clock - StartTime

=============================================================================

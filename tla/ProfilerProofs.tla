--------------------------- MODULE ProfilerProofs ---------------------------
(***************************************************************************)
(* Proofs, for every set of threads and functions and every size of the    *)
(* tables, of what the profiler promises.                                  *)
(*                                                                         *)
(* While no sample was taken, every event is added under profiler_mutex,   *)
(* so that the events behind event_count are blank and the newest ENTER of *)
(* a call that is known to be profiled is its own.  The profiling thread   *)
(* breaks that, and it never outlives the profiler.                        *)
(*                                                                         *)
(* How far event_count can get past the table then is a matter of who is   *)
(* about to write there: while nobody is, event_count is within the table, *)
(* and of the two who may add at once neither gets to read it again.       *)
(***************************************************************************)
EXTENDS Profiler, SequenceTheorems, WellFoundedInduction, TLAPS

-----------------------------------------------------------------------------
(* The inductive invariant.                                                *)

Places == {"none", "idle", "spawn", "halt", "halt, free", "join", "join, free",
           "free", "enter", "exit", "add", "read", "store", "fill", "loop", "ended"}
Calls == [name : Functions, sure : BOOLEAN, since : Nat]
Profiles == [thread_id : Threads, functions : SUBSET Functions]
Events == [event_type : {"none", "ENTER", "EXIT", "SAMPLE", "MEMORY"},
           function_name : Functions \cup {NoName}, index : Nat]
Slots == 1 .. MAX_SAMPLES
Adding == {"add", "read", "store", "fill"}

Types ==
    /\ threads \in Seq(Profiles) /\ Len(threads) <= MAX_THREADS
    /\ DOMAIN events = Slots /\ event_count \in Nat
    /\ mutex \in Threads \cup {Nobody}
    /\ pc \in [Procs -> Places]
    /\ event \in [Procs -> Events]
    /\ calls \in [Threads -> Seq(Calls)]
    /\ DOMAIN measured = Threads
    /\ rounds \in Nat /\ clock \in Nat

Flags == profiler \in BOOLEAN /\ is_profiling \in BOOLEAN /\ running \in BOOLEAN

(* Only Main's stopping makes the profiling thread end, and it waits.      *)
NotRunning == {"none", "ended"}
Lifetime ==
    /\ SamplerHasProfiler
    /\ pc[Main] \in {"spawn", "halt", "halt, free", "join", "join, free", "free"} => profiler
    /\ pc[Sampler] \notin NotRunning => running \/ pc[Main] \in {"join", "join, free"}
    /\ pc[Sampler] = "ended" => pc[Main] \in {"join", "join, free"}
    /\ pc[Main] \in {"join", "join, free", "free"} => ~running
    /\ pc[Sampler] \in {"none", "loop", "ended"} \cup Adding

(* The mutex is held while an event is added, and what is added is known.  *)
Locked ==
    /\ \A t \in Threads : pc[t] \in Adding <=> mutex = t
    /\ \A t \in Threads : pc[t] \in {"enter", "exit"} => calls[t] # <<>>
    /\ \A t \in Threads : pc[t] = "enter" => ~Current(t).sure
    /\ \A t \in Threads :
         pc[t] \in Adding =>
            /\ event[t].event_type \in {"ENTER", "EXIT"}
            /\ event[t].event_type = "ENTER" =>
                 /\ calls[t] # <<>> /\ ~Current(t).sure
                 /\ event[t].function_name = Current(t).name
    /\ event[Sampler].event_type # "ENTER"
    /\ \A p \in Procs : pc[p] \in {"store", "fill"} => event[p].index \in Nat \ {0}

(* Of the calls of one function only the innermost may be sure.            *)
Innermost ==
    \A t \in Threads : \A i, j \in 1 .. Len(calls[t]) :
        i < j /\ calls[t][i].name = calls[t][j].name => ~calls[t][i].sure

(* No event lies behind event_count, nor in the slot that is being filled. *)
Blank ==
    /\ event_count <= MAX_SAMPLES
    /\ \A i \in Slots : i > event_count => events[i] = NoEvent
    /\ \A t \in Threads :
         /\ pc[t] \in {"read", "store"} => event_count < MAX_SAMPLES
         /\ pc[t] = "store" => event[t].index = event_count + 1
         /\ pc[t] = "fill" => event[t].index = event_count /\ events[event_count] = NoEvent

(* The profile of the thread, the first of its own, has the function.      *)
KnownIn(ts, t, f) ==
    \E i \in 1 .. Len(ts) : /\ ts[i].thread_id = t /\ f \in ts[i].functions
                             /\ \A h \in 1 .. i - 1 : ts[h].thread_id # t
Known(t, f) == KnownIn(threads, t, f)

EnterOf(e, t, f) == e.event_type = "ENTER" /\ e.function_name = f /\ e.thread_id = Id[t]

(* The newest ENTER of the function by the thread has this time.           *)
Entered(t, f, time) ==
    \E i \in 1 .. event_count :
        /\ EnterOf(events[i], t, f) /\ events[i].timestamp = time
        /\ \A h \in 1 .. event_count : EnterOf(events[h], t, f) => h <= i
Unmistaken(t) == \A u \in Threads \ {t} : Id[u] # Id[t]
Recorded ==
    \A t \in Threads : \A i \in 1 .. Len(calls[t]) :
        Unmistaken(t) /\ calls[t][i].sure /\ Known(t, calls[t][i].name)
           => Entered(t, calls[t][i].name, calls[t][i].since)

Exact ==
    rounds = 0 =>
        /\ pc[Sampler] \in {"none", "loop", "ended"}
        /\ Blank /\ Recorded
        /\ ExactTimes

ProfilerInv == Flags /\ Types /\ Lifetime /\ Locked /\ Innermost /\ Exact

-----------------------------------------------------------------------------
(* A set of numbers has a least element.                                   *)
LEMMA LeastOf ==
    ASSUME NEW S \in SUBSET Nat, S # {}
    PROVE  \E n \in S : \A m \in S : n <= m
<1> DEFINE R == {ss \in Nat \X Nat : ss[1] < ss[2]}
<1>1. IsWellFoundedOn(R, Nat)
  BY NatLessThanWellFounded, Zenon DEF OpToRel
<1> HIDE DEF R
<1>2. PICK n \in S : \A m \in S : ~(<<m, n>> \in R)
  BY <1>1, WFMin, Zenon
<1>3. \A m \in S : ~(m < n)
  BY <1>2 DEF R
<1> QED  BY <1>3

-----------------------------------------------------------------------------
(* Facts about the tables.                                                 *)

(* The profile that is found is the first one of the thread.               *)
LEMMA ProfileFound ==
    ASSUME NEW t \in Threads, threads \in Seq(Profiles)
    PROVE  /\ Profile(t) # 0 => Profile(t) \in 1 .. Len(threads) /\ IsProfileOf(Profile(t), t)
           /\ Profile(t) = 0 => \A i \in 1 .. Len(threads) : threads[i].thread_id # t
<1>1. CASE \E i \in 1 .. Len(threads) : IsProfileOf(i, t)
  BY <1>1 DEF Profile
<1>2. CASE ~\E i \in 1 .. Len(threads) : IsProfileOf(i, t)
  <2> DEFINE S == {i \in 1 .. Len(threads) : threads[i].thread_id = t}
  <2>1. Profile(t) = 0
    BY <1>2 DEF Profile
  <2>2. ASSUME S # {} PROVE FALSE
    <3>1. S \in SUBSET Nat
      OBVIOUS
    <3>2. PICK i \in S : \A h \in S : i <= h
      <4> HIDE DEF S
      <4> QED  BY <2>2, <3>1, LeastOf
    <3>3. \A h \in 1 .. i - 1 : h \in 1 .. Len(threads) /\ ~(i <= h)
      BY <3>2
    <3>4. IsProfileOf(i, t)
      BY <3>2, <3>3 DEF IsProfileOf
    <3> QED  BY <1>2, <3>2, <3>4
  <2> QED  BY <2>1, <2>2
<1> QED  BY <1>1, <1>2

(* A sequence without its last element, and with one more.                 *)
LEMMA Prefix ==
    ASSUME NEW S, NEW s \in Seq(S), NEW n \in Nat, n <= Len(s)
    PROVE  /\ SubSeq(s, 1, n) \in Seq(S)
           /\ Len(SubSeq(s, 1, n)) = n
           /\ \A h \in 1 .. n : SubSeq(s, 1, n)[h] = s[h]
  OBVIOUS

LEMMA ShorterCalls ==
    ASSUME NEW s \in Seq(Calls), s # <<>>
    PROVE  /\ SubSeq(s, 1, Len(s) - 1) \in Seq(Calls)
           /\ Len(SubSeq(s, 1, Len(s) - 1)) = Len(s) - 1
           /\ Len(s) \in 1 .. Len(s)
           /\ \A i \in 1 .. Len(s) - 1 : /\ SubSeq(s, 1, Len(s) - 1)[i] = s[i]
                                         /\ i \in 1 .. Len(s)
<1>1. Len(s) \in Nat \ {0}
  OBVIOUS
<1>2. Len(s) - 1 \in Nat /\ Len(s) - 1 <= Len(s)
  BY <1>1
<1>3. \A i \in 1 .. Len(s) - 1 : i \in 1 .. Len(s)
  BY <1>1
<1>4. PICK n \in Nat : n = Len(s) - 1
  BY <1>2
<1>5. /\ SubSeq(s, 1, n) \in Seq(Calls) /\ Len(SubSeq(s, 1, n)) = n
      /\ \A h \in 1 .. n : SubSeq(s, 1, n)[h] = s[h]
  BY <1>2, <1>4, Prefix, Zenon
<1>6. Len(s) \in 1 .. Len(s)
  BY <1>1
<1> QED  BY <1>3, <1>4, <1>5, <1>6, Zenon

(* With one more profile at the end, of thread t, the others know what     *)
(* they knew, and t does unless it had none.                               *)
LEMMA KnownAppend ==
    ASSUME NEW ts \in Seq(Profiles), NEW r \in Profiles, NEW us, us = Append(ts, r)
    PROVE  /\ us \in Seq(Profiles) /\ Len(us) = Len(ts) + 1
           /\ us[Len(us)] = r
           /\ \A t, f : KnownIn(us, t, f) =>
                 KnownIn(ts, t, f) \/ (t = r.thread_id /\ f \in r.functions)
<1>1. Len(ts) \in Nat
  OBVIOUS
<1>2. /\ us \in Seq(Profiles) /\ Len(us) = Len(ts) + 1
      /\ \A i \in 1 .. Len(ts) + 1 : us[i] = IF i = Len(ts) + 1 THEN r ELSE ts[i]
  BY <1>1
<1>3. ASSUME NEW t, NEW f, KnownIn(us, t, f), ~KnownIn(ts, t, f)
      PROVE  t = r.thread_id /\ f \in r.functions
  <2>1. PICK i \in 1 .. Len(ts) + 1 :
           /\ us[i].thread_id = t /\ f \in us[i].functions
           /\ \A h \in 1 .. i - 1 : us[h].thread_id # t
    BY <1>2, <1>3 DEF KnownIn
  <2>2. CASE i = Len(ts) + 1
    BY <1>2, <2>1, <2>2
  <2>3. CASE i # Len(ts) + 1
    <3>1. i \in 1 .. Len(ts) /\ \A h \in 1 .. i - 1 : h \in 1 .. Len(ts)
      BY <1>1, <2>3
    <3>2. us[i] = ts[i] /\ \A h \in 1 .. i - 1 : us[h] = ts[h]
      BY <1>1, <1>2, <2>3, <3>1
    <3> QED  BY <1>3, <2>1, <3>1, <3>2 DEF KnownIn
  <2> QED  BY <2>2, <2>3
<1>4. us[Len(us)] = r
  BY <1>1, <1>2
<1> QED  BY <1>2, <1>3, <1>4

(* With a function more in a profile, only its thread may know more.       *)
WithFunction(ts, i, g) == [ts EXCEPT ![i].functions = @ \cup {g}]
LEMMA KnownMore ==
    ASSUME NEW ts \in Seq(Profiles), NEW i \in 1 .. Len(ts), NEW g \in Functions,
           NEW us, us = WithFunction(ts, i, g)
    PROVE  /\ us \in Seq(Profiles) /\ Len(us) = Len(ts)
           /\ \A t, f : KnownIn(us, t, f) =>
                 KnownIn(ts, t, f) \/ (t = ts[i].thread_id /\ f = g)
<1> DEFINE r == [ts[i] EXCEPT !.functions = ts[i].functions \cup {g}]
<1>1. ts[i] \in Profiles
  OBVIOUS
<1>2. /\ r \in Profiles /\ r.thread_id = ts[i].thread_id
      /\ r.functions = ts[i].functions \cup {g}
  BY <1>1 DEF Profiles
<1>3. us = [ts EXCEPT ![i] = r]
  BY DEF WithFunction
<1> HIDE DEF r
<1> PICK rr \in Profiles : rr = r
  BY <1>2
<1>4. /\ us \in Seq(Profiles) /\ Len(us) = Len(ts)
      /\ \A h \in 1 .. Len(ts) : us[h] = IF h = i THEN rr ELSE ts[h]
  <2>1. us = [ts EXCEPT ![i] = rr]
    BY <1>3
  <2>2. /\ us \in Seq(Profiles) /\ Len(us) = Len(ts)
        /\ \A h \in 1 .. Len(ts) : us[h] = IF h = i THEN rr ELSE ts[h]
    BY ONLY <2>1, ts \in Seq(Profiles), i \in 1 .. Len(ts), rr \in Profiles
  <2> QED  BY <2>2
<1>5. \A h \in 1 .. Len(ts) :
         /\ us[h].thread_id = ts[h].thread_id
         /\ us[h].functions = IF h = i THEN ts[h].functions \cup {g} ELSE ts[h].functions
  <2>1. rr.thread_id = ts[i].thread_id /\ rr.functions = ts[i].functions \cup {g}
    BY <1>2
  <2>2. ASSUME NEW h \in 1 .. Len(ts)
        PROVE  /\ us[h].thread_id = ts[h].thread_id
               /\ us[h].functions = IF h = i THEN ts[h].functions \cup {g}
                                             ELSE ts[h].functions
    <3>1. CASE h = i
      BY ONLY <1>4, <2>1, <3>1, h \in 1 .. Len(ts)
    <3>2. CASE h # i
      BY ONLY <1>4, <3>2, h \in 1 .. Len(ts)
    <3> QED  BY <3>1, <3>2
  <2> QED  BY <2>2
<1>6. ASSUME NEW t, NEW f, KnownIn(us, t, f), ~KnownIn(ts, t, f)
      PROVE  t = ts[i].thread_id /\ f = g
  <2>1. PICK j \in 1 .. Len(ts) :
           /\ us[j].thread_id = t /\ f \in us[j].functions
           /\ \A h \in 1 .. j - 1 : us[h].thread_id # t
    BY <1>4, <1>6 DEF KnownIn
  <2>2. \A h \in 1 .. j - 1 : h \in 1 .. Len(ts)
    OBVIOUS
  <2>3. ts[j].thread_id = t /\ \A h \in 1 .. j - 1 : ts[h].thread_id # t
    BY <1>5, <2>1, <2>2
  <2>4. f \notin ts[j].functions
    BY <1>6, <2>3 DEF KnownIn
  <2> QED  BY <1>5, <2>1, <2>3, <2>4
<1> QED  BY <1>4, <1>6

-----------------------------------------------------------------------------
(* Starting and stopping.                                                  *)

Profiled == Adding \cup {"enter", "exit"}

(* Where nothing is profiled, the places do not matter.                    *)
LEMMA OnlyPlaces ==
    ASSUME Locked, Innermost, Exact,
           UNCHANGED <<tables, mutex, event, calls, measured, rounds>>,
           \A p \in Procs : \/ pc'[p] = pc[p]
                            \/ pc[p] \notin Profiled /\ pc'[p] \notin Profiled,
           pc'[Sampler] \in {pc[Sampler], "none", "loop", "ended"}
    PROVE  Locked' /\ Innermost' /\ Exact'
<1> UNCHANGED <<threads, events, event_count, mutex, event, calls, measured, rounds>>
  BY DEF tables
<1>1. \A t \in Threads : Current(t)' = Current(t)
  BY DEF Current
<1>2. \A p \in Procs : pc'[p] \in Profiled \/ pc[p] \in Profiled => pc'[p] = pc[p]
  OBVIOUS
<1>3. \A p \in Procs : /\ pc'[p] \in Adding <=> pc[p] \in Adding
                       /\ pc'[p] \in {"enter", "exit"} => pc'[p] = pc[p]
                       /\ pc'[p] \in Adding => pc'[p] = pc[p]
  BY <1>2 DEF Profiled
<1>4. \A t \in Threads : t \in Procs
  BY DEF Procs
<1>5. Locked'
  BY <1>1, <1>3, <1>4 DEF Locked, Adding
<1>6. Innermost'
  BY DEF Innermost
<1>7. Recorded => Recorded'
  BY DEF Recorded, Known, KnownIn, Entered, EnterOf
<1>8. Blank => Blank'
  BY <1>3, <1>4 DEF Blank, Adding
<1>9. ExactTimes => ExactTimes'
  BY DEF ExactTimes
<1> QED  BY <1>5, <1>6, <1>7, <1>8, <1>9 DEF Exact

LEMMA StartKeeps ==
    ASSUME ProfilerInv, Start
    PROVE  ProfilerInv'
<1> Flags /\ Types /\ Lifetime /\ Locked /\ Innermost /\ Exact
  BY DEF ProfilerInv
<1>1. /\ pc' \in [Procs -> Places] /\ pc'[Main] = "spawn" /\ pc'[Sampler] = pc[Sampler]
      /\ \A p \in Procs : \/ pc'[p] = pc[p]
                          \/ pc[p] \notin Profiled /\ pc'[p] \notin Profiled
  BY ProfilerAssumption DEF Start, Go, Types, Places, Procs, Profiled, Adding
<1>2. Flags'
  BY DEF Flags, Start
<1>3. Types'
  BY <1>1 DEF Types, Start, tables
<1>4. profiler' /\ running' = running /\ pc[Main] = "idle"
  BY DEF Start
<1>5. Lifetime'
  BY <1>1, <1>4 DEF Lifetime, SamplerHasProfiler, NotRunning
<1>6. Locked' /\ Innermost' /\ Exact'
  BY <1>1, OnlyPlaces DEF Start
<1> QED  BY <1>2, <1>3, <1>5, <1>6 DEF ProfilerInv

LEMMA StartThreadKeeps ==
    ASSUME ProfilerInv, NEW created \in BOOLEAN, StartThread(created)
    PROVE  ProfilerInv'
<1> Flags /\ Types /\ Lifetime /\ Locked /\ Innermost /\ Exact
  BY DEF ProfilerInv
<1>1. Main \in Procs /\ Sampler \in Procs /\ Main # Sampler
  BY ProfilerAssumption DEF Procs
<1>2. /\ pc[Main] = "spawn" /\ running'
      /\ pc'[Main] = "idle"
      /\ pc'[Sampler] = IF running \/ ~created THEN pc[Sampler] ELSE "loop"
      /\ \A p \in Procs \ {Main, Sampler} : pc'[p] = pc[p]
  BY <1>1 DEF StartThread, Types
<1>3. pc[Sampler] \in Places /\ pc' \in [Procs -> Places]
  BY <1>1 DEF StartThread, Types, Places
<1>4. ~running => pc[Sampler] = "none"
  BY <1>2 DEF Lifetime, NotRunning
<1>5. \A p \in Procs : \/ pc'[p] = pc[p]
                       \/ pc[p] \notin Profiled /\ pc'[p] \notin Profiled
  BY <1>2, <1>4 DEF Profiled, Adding
<1>6. Flags'
  BY DEF Flags, StartThread
<1>7. Types'
  BY <1>3 DEF Types, StartThread, tables
<1>8. profiler' = profiler /\ profiler
  BY <1>2 DEF StartThread, Lifetime
<1>10. Lifetime'
  BY <1>2, <1>4, <1>8 DEF Lifetime, SamplerHasProfiler, NotRunning, Adding
<1>11. Locked' /\ Innermost' /\ Exact'
  BY <1>2, <1>5, OnlyPlaces DEF StartThread
<1> QED  BY <1>6, <1>7, <1>10, <1>11 DEF ProfilerInv

LEMMA StopKeeps ==
    ASSUME ProfilerInv, NEW after \in {"halt", "halt, free"}, Stop(after)
    PROVE  ProfilerInv'
<1> Flags /\ Types /\ Lifetime /\ Locked /\ Innermost /\ Exact
  BY DEF ProfilerInv
<1>1. /\ pc' \in [Procs -> Places] /\ pc'[Main] = after /\ pc'[Sampler] = pc[Sampler]
      /\ \A p \in Procs : \/ pc'[p] = pc[p]
                          \/ pc[p] \notin Profiled /\ pc'[p] \notin Profiled
  BY ProfilerAssumption DEF Stop, Go, Types, Places, Procs, Profiled, Adding
<1>2. Flags'
  BY DEF Flags, Stop
<1>3. Types'
  BY <1>1 DEF Types, Stop, tables
<1>4. profiler /\ profiler' = profiler /\ running' = running /\ pc[Main] = "idle"
  BY DEF Stop
<1>5. Lifetime'
  BY <1>1, <1>4 DEF Lifetime, SamplerHasProfiler, NotRunning
<1>6. Locked' /\ Innermost' /\ Exact'
  BY <1>1, OnlyPlaces DEF Stop
<1> QED  BY <1>2, <1>3, <1>5, <1>6 DEF ProfilerInv

LEMMA StopThreadKeeps ==
    ASSUME ProfilerInv, StopThread
    PROVE  ProfilerInv'
<1> Flags /\ Types /\ Lifetime /\ Locked /\ Innermost /\ Exact
  BY DEF ProfilerInv
<1>1. /\ pc' \in [Procs -> Places] /\ pc'[Sampler] = pc[Sampler]
      /\ pc'[Main] \in {"join", "join, free"} \cup (IF running THEN {} ELSE {"idle", "free"})
      /\ \A p \in Procs : \/ pc'[p] = pc[p]
                          \/ pc[p] \notin Profiled /\ pc'[p] \notin Profiled
  BY ProfilerAssumption DEF StopThread, Go, Types, Places, Procs, Profiled, Adding
<1>2. Flags'
  BY DEF Flags, StopThread
<1>3. Types'
  BY <1>1 DEF Types, StopThread, tables
<1>4. profiler' = profiler /\ ~running' /\ pc[Main] \in {"halt", "halt, free"}
  BY DEF StopThread
<1>5. profiler /\ (~running => pc[Sampler] = "none")
  BY <1>4 DEF Lifetime, NotRunning
<1>6. Lifetime'
  BY <1>1, <1>4, <1>5 DEF Lifetime, SamplerHasProfiler, NotRunning
<1>7. Locked' /\ Innermost' /\ Exact'
  BY <1>1, OnlyPlaces DEF StopThread
<1> QED  BY <1>2, <1>3, <1>6, <1>7 DEF ProfilerInv

LEMMA JoinKeeps ==
    ASSUME ProfilerInv, Join
    PROVE  ProfilerInv'
<1> Flags /\ Types /\ Lifetime /\ Locked /\ Innermost /\ Exact
  BY DEF ProfilerInv
<1>1. /\ pc' \in [Procs -> Places] /\ pc'[Sampler] = "none" /\ pc[Sampler] \in NotRunning
      /\ pc'[Main] \in {"idle", "free"}
      /\ \A p \in Procs : \/ pc'[p] = pc[p]
                          \/ pc[p] \notin Profiled /\ pc'[p] \notin Profiled
  BY ProfilerAssumption DEF Join, Go, Types, Places, Procs, Profiled, Adding, NotRunning
<1>2. Flags'
  BY DEF Flags, Join, control
<1>3. Types'
  BY <1>1 DEF Types, Join, tables
<1>4. /\ profiler' = profiler /\ running' = running
      /\ pc[Main] \in {"join", "join, free"}
  BY DEF Join, control
<1>5. Lifetime'
  BY <1>1, <1>4 DEF Lifetime, SamplerHasProfiler, NotRunning
<1>6. Locked' /\ Innermost' /\ Exact'
  BY <1>1, OnlyPlaces DEF Join
<1> QED  BY <1>2, <1>3, <1>5, <1>6 DEF ProfilerInv

LEMMA SamplerEndsKeeps ==
    ASSUME ProfilerInv, SamplerEnds
    PROVE  ProfilerInv'
<1> Flags /\ Types /\ Lifetime /\ Locked /\ Innermost /\ Exact
  BY DEF ProfilerInv
<1>1. /\ pc' \in [Procs -> Places] /\ pc'[Sampler] = "ended" /\ pc[Sampler] = "loop" /\ pc'[Main] = pc[Main]
      /\ \A p \in Procs : \/ pc'[p] = pc[p]
                          \/ pc[p] \notin Profiled /\ pc'[p] \notin Profiled
  BY ProfilerAssumption DEF SamplerEnds, Go, Types, Places, Procs, Profiled, Adding
<1>2. Flags'
  BY DEF Flags, SamplerEnds, control
<1>3. Types'
  BY <1>1 DEF Types, SamplerEnds, tables
<1>4. profiler' = profiler /\ running' = running /\ ~running
  BY DEF SamplerEnds, control
<1>5. Lifetime'
  BY <1>1, <1>4 DEF Lifetime, SamplerHasProfiler, NotRunning
<1>6. Locked' /\ Innermost' /\ Exact'
  BY <1>1, OnlyPlaces DEF SamplerEnds
<1> QED  BY <1>2, <1>3, <1>5, <1>6 DEF ProfilerInv

LEMMA TickKeeps ==
    ASSUME ProfilerInv, Tick
    PROVE  ProfilerInv'
<1> Flags /\ Types /\ Lifetime /\ Locked /\ Innermost /\ Exact
  BY DEF ProfilerInv
<1>1. Flags'
  BY DEF Flags, Tick, control
<1>2. Types'
  BY DEF Types, Tick, tables
<1>3. Lifetime'
  BY DEF Lifetime, SamplerHasProfiler, NotRunning, Tick, control
<1>4. Locked' /\ Innermost' /\ Exact'
  BY OnlyPlaces DEF Tick
<1> QED  BY <1>1, <1>2, <1>3, <1>4 DEF ProfilerInv

-----------------------------------------------------------------------------
(* Emptying the tables, and a profile for a thread.                        *)

(* Emptied tables record nothing, and nothing is known.                    *)
LEMMA Emptied ==
    ASSUME Types, Exact,
           threads' = <<>>, events' = NoEvents, event_count' = 0,
           UNCHANGED <<event, calls, measured, rounds>>,
           \A t \in Threads : pc'[t] \notin Adding,
           pc'[Sampler] = pc[Sampler]
    PROVE  Exact' /\ threads' \in Seq(Profiles) /\ Len(threads') = 0 /\ DOMAIN events' = Slots
<1>1. Len(threads') = 0 /\ threads' \in Seq(Profiles)
  OBVIOUS
<1>2. DOMAIN events' = Slots /\ \A i \in Slots : events'[i] = NoEvent
  BY DEF NoEvents, Slots
<1>3. Blank'
  BY <1>2, ProfilerAssumption DEF Blank, Adding
<1>4. \A t \in Threads : \A f : ~Known(t, f)'
  BY <1>1 DEF Known, KnownIn
<1>5. Recorded'
  BY <1>4 DEF Recorded
<1>6. ExactTimes => ExactTimes'
  BY DEF ExactTimes
<1> QED  BY <1>1, <1>2, <1>3, <1>5, <1>6 DEF Exact

LEMMA FreeKeeps ==
    ASSUME ProfilerInv, Free
    PROVE  ProfilerInv'
<1> Flags /\ Types /\ Lifetime /\ Locked /\ Innermost /\ Exact
  BY DEF ProfilerInv
<1>1. /\ pc' \in [Procs -> Places] /\ pc'[Sampler] = pc[Sampler] /\ pc'[Main] = "idle"
      /\ \A p \in Procs : \/ pc'[p] = pc[p]
                          \/ pc[p] \notin Profiled /\ pc'[p] \notin Profiled
      /\ \A t \in Threads : pc'[t] = "idle"
  BY ProfilerAssumption DEF Free, Go, Types, Places, Procs, Profiled, Adding
<1>2. /\ threads' = <<>> /\ events' = NoEvents /\ event_count' = 0
      /\ UNCHANGED <<is_profiling, running, mutex, event, calls, measured, rounds, clock>>
      /\ profiler' = FALSE /\ pc[Main] = "free"
  BY DEF Free
<1>3. Flags'
  BY <1>2 DEF Flags
<1>4. /\ Exact' /\ threads' \in Seq(Profiles) /\ Len(threads') = 0 /\ DOMAIN events' = Slots
  BY <1>1, <1>2, Emptied DEF Adding
<1>5. Types'
  BY <1>1, <1>2, <1>4, ProfilerAssumption DEF Types
<1>6. pc[Sampler] = "none" /\ ~running
  BY <1>2 DEF Lifetime, NotRunning
<1>7. Lifetime'
  BY <1>1, <1>2, <1>6 DEF Lifetime, SamplerHasProfiler, NotRunning
<1>8. \A t \in Threads : pc[t] \notin Adding /\ t \in Procs /\ Sampler \in Procs
  BY <1>2 DEF Free, Procs, Adding
<1>9. Locked'
  <2>1. \A t \in Threads : mutex' # t
    BY <1>2, <1>8 DEF Locked
  <2>2. event'[Sampler].event_type # "ENTER"
    BY <1>2 DEF Locked
  <2>3. \A p \in Procs : p \in Threads \/ p = Sampler
    BY DEF Procs
  <2>4. pc'[Sampler] = "none"
    BY <1>1, <1>6
  <2> QED  BY <1>1, <2>1, <2>2, <2>3, <2>4 DEF Locked, Adding
<1>10. Innermost'
  BY <1>2 DEF Innermost
<1> QED  BY <1>3, <1>4, <1>5, <1>7, <1>9, <1>10 DEF ProfilerInv

LEMMA ResetKeeps ==
    ASSUME ProfilerInv, Reset
    PROVE  ProfilerInv'
<1> Flags /\ Types /\ Lifetime /\ Locked /\ Innermost /\ Exact
  BY DEF ProfilerInv
<1>1. /\ threads' = <<>> /\ events' = NoEvents /\ event_count' = 0 /\ mutex = Nobody
      /\ UNCHANGED <<profiler, is_profiling, running>>
      /\ UNCHANGED <<mutex, pc, event, calls, measured, rounds, clock>>
  BY DEF Reset, control
<1>2. \A t \in Threads : pc[t] \notin Adding
  BY <1>1, ProfilerAssumption DEF Locked
<1>3. Flags'
  BY <1>1 DEF Flags
<1>4. /\ Exact' /\ threads' \in Seq(Profiles) /\ Len(threads') = 0 /\ DOMAIN events' = Slots
  BY <1>1, <1>2, Emptied
<1>5. Types'
  BY <1>1, <1>4, ProfilerAssumption DEF Types
<1>6. Lifetime'
  BY <1>1 DEF Lifetime, SamplerHasProfiler, NotRunning
<1>7. Locked'
  BY <1>1 DEF Locked, Current
<1>8. Innermost'
  BY <1>1 DEF Innermost
<1> QED  BY <1>3, <1>4, <1>5, <1>6, <1>7, <1>8 DEF ProfilerInv

(* What is recorded stays so when the calls that rely on it did before.    *)
LEMMA RecordedKept ==
    ASSUME Recorded, UNCHANGED <<events, event_count>>,
           \A t \in Threads : \A i \in 1 .. Len(calls'[t]) : \A f :
              calls'[t][i].sure /\ calls'[t][i].name = f /\ Known(t, f)' =>
                 /\ i \in 1 .. Len(calls[t]) /\ calls[t][i].sure /\ calls[t][i].name = f
                 /\ calls[t][i].since = calls'[t][i].since
                 /\ Known(t, f)
    PROVE  Recorded'
<1>1. ASSUME NEW t \in Threads, NEW i \in 1 .. Len(calls'[t]), NEW f, f = calls'[t][i].name,
             NEW time, time = calls'[t][i].since, calls'[t][i].sure, Known(t, f)',
             Unmistaken(t)
      PROVE  Entered(t, f, time)'
  <2>1. /\ i \in 1 .. Len(calls[t]) /\ calls[t][i].sure /\ calls[t][i].name = f
        /\ calls[t][i].since = time /\ Known(t, f)
    BY <1>1
  <2>2. Entered(t, f, time)
    BY <1>1, <2>1 DEF Recorded
  <2> QED  BY <2>2 DEF Entered, EnterOf
<1> QED  BY <1>1 DEF Recorded

LEMMA ThreadStartKeeps ==
    ASSUME ProfilerInv, NEW t \in Threads, ThreadStart(t)
    PROVE  ProfilerInv'
<1> Flags /\ Types /\ Lifetime /\ Locked /\ Innermost /\ Exact
  BY DEF ProfilerInv
<1> DEFINE r == [thread_id |-> t, functions |-> {}]
<1>1. /\ UNCHANGED <<profiler, is_profiling, running>>
      /\ UNCHANGED <<events, event_count, mutex, pc, event, calls, measured, rounds, clock>>
      /\ threads' = Append(threads, r) /\ Len(threads) < MAX_THREADS
  BY DEF ThreadStart, control
<1>2. r \in Profiles /\ r.functions = {} /\ threads \in Seq(Profiles)
  BY DEF Profiles, Types
<1> HIDE DEF r
<1>3. /\ threads' \in Seq(Profiles) /\ Len(threads') = Len(threads) + 1
      /\ \A u \in Threads : \A f : Known(u, f)' => Known(u, f)
  <2>1. PICK ts, us : ts = threads /\ us = threads'
    OBVIOUS
  <2>2. /\ us \in Seq(Profiles) /\ Len(us) = Len(ts) + 1
        /\ \A u \in Threads : \A f : KnownIn(us, u, f) => KnownIn(ts, u, f)
    BY <1>1, <1>2, <2>1, KnownAppend
  <2> QED  BY <2>1, <2>2 DEF Known
<1>4. Flags'
  BY <1>1 DEF Flags
<1>5. Len(threads') <= MAX_THREADS
  BY <1>1, <1>2, <1>3, ProfilerAssumption
<1>6. Types'
  BY <1>1, <1>3, <1>5 DEF Types
<1>7. Lifetime'
  BY <1>1 DEF Lifetime, SamplerHasProfiler, NotRunning
<1>8. Locked'
  BY <1>1 DEF Locked, Current
<1>9. Innermost'
  BY <1>1 DEF Innermost
<1>10. Recorded => Recorded'
  BY <1>1, <1>3, RecordedKept
<1>11. (Blank => Blank') /\ (ExactTimes => ExactTimes')
  BY <1>1 DEF Blank, ExactTimes
<1>12. Exact'
  BY <1>1, <1>10, <1>11 DEF Exact
<1> QED  BY <1>4, <1>6, <1>7, <1>8, <1>9, <1>12 DEF ProfilerInv

-----------------------------------------------------------------------------
(* Calling and returning.                                                  *)

(* The innermost call is a new one, and the calls of its function around   *)
(* it are no longer sure.                                                  *)
LEMMA Entering ==
    ASSUME NEW s \in Seq(Calls), NEW f \in Functions, NEW u, u = Called(s, f)
    PROVE  /\ u \in Seq(Calls) /\ Len(u) = Len(s) + 1 /\ u # <<>>
           /\ u[Len(s) + 1].name = f /\ ~u[Len(s) + 1].sure
           /\ \A i \in 1 .. Len(s) :
                 /\ u[i].name = s[i].name /\ u[i].since = s[i].since
                 /\ u[i].sure => s[i].sure /\ s[i].name # f
<1> DEFINE outer == [i \in DOMAIN s |-> [s[i] EXCEPT !.sure = s[i].sure /\ s[i].name # f]]
           inner == [name |-> f, sure |-> FALSE, since |-> 0]
<1>1. \A i \in 1 .. Len(s) : s[i] \in Calls
  OBVIOUS
<1>2. inner \in Calls /\ inner.name = f /\ ~inner.sure
  BY DEF Calls
<1>3. DOMAIN s = 1 .. Len(s) /\ Len(s) \in Nat
  OBVIOUS
<1>4. \A i \in 1 .. Len(s) :
         /\ outer[i] \in Calls
         /\ outer[i].name = s[i].name /\ outer[i].since = s[i].since
         /\ outer[i].sure => s[i].sure /\ s[i].name # f
  <2>1. ASSUME NEW i \in 1 .. Len(s), NEW c \in Calls, c = s[i]
        PROVE  /\ [c EXCEPT !.sure = c.sure /\ c.name # f] \in Calls
               /\ [c EXCEPT !.sure = c.sure /\ c.name # f].name = c.name
               /\ [c EXCEPT !.sure = c.sure /\ c.name # f].since = c.since
               /\ [c EXCEPT !.sure = c.sure /\ c.name # f].sure => c.sure /\ c.name # f
    BY DEF Calls
  <2> QED  BY <1>1, <1>3, <2>1
<1>5. \A i \in 1 .. Len(s) : outer[i] \in Calls
  BY <1>4
<1>6. outer = [i \in 1 .. Len(s) |-> outer[i]]
  BY <1>3, Zenon
<1> HIDE DEF outer, inner
<1>7. outer \in Seq(Calls) /\ Len(outer) = Len(s)
  <2>1. outer \in [1 .. Len(s) -> Calls]
    BY <1>5, <1>6, Zenon
  <2> QED  BY <1>3, <2>1
<1>8. u = Append(outer, inner)
  BY DEF outer, inner, Called
<1>9. /\ u \in Seq(Calls) /\ Len(u) = Len(s) + 1
      /\ u[Len(s) + 1] = inner
      /\ \A i \in 1 .. Len(s) : u[i] = outer[i]
  <2>1. PICK o \in Seq(Calls), c \in Calls : o = outer /\ c = inner
    BY <1>2, <1>7
  <2>2. Len(o) = Len(s) /\ u = Append(o, c)
    BY <1>7, <1>8, <2>1
  <2>3. /\ u \in Seq(Calls) /\ Len(u) = Len(s) + 1
        /\ u[Len(s) + 1] = c
        /\ \A i \in 1 .. Len(s) : u[i] = o[i]
    BY ONLY <1>3, <2>2, o \in Seq(Calls), c \in Calls
  <2> QED  BY <2>1, <2>3
<1> QED  BY <1>2, <1>3, <1>4, <1>9

(* One thread that adds no event calls or returns.                         *)
LEMMA LockedKept ==
    ASSUME Locked, NEW t \in Threads, UNCHANGED <<mutex, event>>,
           pc[t] \notin Adding, pc'[t] \notin Adding,
           \A p \in Procs : p # t => pc'[p] = pc[p],
           \A x \in Threads \ {t} : calls'[x] = calls[x],
           pc'[t] \in {"enter", "exit"} => calls'[t] # <<>>,
           pc'[t] = "enter" => ~calls'[t][Len(calls'[t])].sure
    PROVE  Locked'
<1>1. Sampler \in Procs /\ Sampler # t /\ Threads \subseteq Procs
  BY ProfilerAssumption DEF Procs
<1>2. \A x \in Threads \ {t} : Current(x)' = Current(x) /\ pc'[x] = pc[x]
  BY <1>1 DEF Current
<1>3. Current(t)' = calls'[t][Len(calls'[t])]
  BY DEF Current
<1>4. \A p \in Procs : pc'[p] \in {"store", "fill"} => pc'[p] = pc[p]
  BY DEF Adding
<1>5. \A x \in Threads : pc'[x] \in Adding <=> mutex' = x
  BY <1>2 DEF Locked
<1>6. \A x \in Threads : pc'[x] \in {"enter", "exit"} => calls'[x] # <<>>
  BY <1>2 DEF Locked
<1>7. \A x \in Threads : pc'[x] = "enter" => ~Current(x)'.sure
  BY <1>2, <1>3 DEF Locked
<1>8. \A x \in Threads :
         pc'[x] \in Adding =>
            /\ event'[x].event_type \in {"ENTER", "EXIT"}
            /\ event'[x].event_type = "ENTER" =>
                 /\ calls'[x] # <<>> /\ ~Current(x)'.sure
                 /\ event'[x].function_name = Current(x)'.name
  BY <1>2 DEF Locked
<1>9. event'[Sampler].event_type # "ENTER"
  BY DEF Locked
<1>10. \A p \in Procs : pc'[p] \in {"store", "fill"} => event'[p].index \in Nat \ {0}
  BY <1>4 DEF Locked
<1> QED  BY <1>5, <1>6, <1>7, <1>8, <1>9, <1>10 DEF Locked

LEMMA EnterKeeps ==
    ASSUME ProfilerInv, NEW t \in Threads, NEW f \in Functions, Enter(t, f)
    PROVE  ProfilerInv'
<1> Flags /\ Types /\ Lifetime /\ Locked /\ Innermost /\ Exact
  BY DEF ProfilerInv
<1>0. t \in Procs /\ t # Sampler /\ Main \in Procs /\ Sampler \in Procs /\ Threads \subseteq Procs
  BY ProfilerAssumption DEF Procs
<1>1. /\ UNCHANGED <<profiler, is_profiling, running>>
      /\ UNCHANGED <<threads, events, event_count, mutex, event, measured, rounds, clock>>
      /\ pc[t] = "idle"
  BY DEF Enter, control, tables
<1>2. /\ pc'[t] \in {"enter", "idle"} /\ pc' \in [Procs -> Places]
      /\ \A p \in Procs : p # t => pc'[p] = pc[p]
  BY <1>0 DEF Enter, Go, Types, Places
<1>3. PICK s \in Seq(Calls) : s = calls[t]
  BY DEF Types
<1>4. PICK u : u = Called(s, f) /\ calls' = [calls EXCEPT ![t] = u]
  BY <1>3 DEF Enter
<1>5. /\ u \in Seq(Calls) /\ Len(u) = Len(s) + 1 /\ u # <<>>
      /\ u[Len(s) + 1].name = f /\ ~u[Len(s) + 1].sure
      /\ \A i \in 1 .. Len(s) :
            /\ u[i].name = s[i].name /\ u[i].since = s[i].since
            /\ u[i].sure => s[i].sure /\ s[i].name # f
  BY <1>4, Entering
<1>6. /\ calls' \in [Threads -> Seq(Calls)] /\ calls'[t] = u
      /\ \A x \in Threads \ {t} : calls'[x] = calls[x]
  BY <1>4, <1>5 DEF Types
<1>7. Len(s) \in Nat
  BY <1>3
<1>8. Flags'
  BY <1>1 DEF Flags
<1>9. Types'
  BY <1>1, <1>2, <1>6 DEF Types
<1>10. Lifetime'
  BY <1>0, <1>1, <1>2 DEF Lifetime, SamplerHasProfiler, NotRunning
<1>11. Locked'
  <2>1. ~u[Len(u)].sure
    BY <1>5
  <2>2. pc'[t] \notin Adding /\ pc[t] \notin Adding
    BY <1>1, <1>2 DEF Adding
  <2> QED  BY <1>1, <1>2, <1>5, <1>6, <2>1, <2>2, LockedKept
<1>12. Innermost'
  <2>1. ASSUME NEW i \in 1 .. Len(u), NEW j \in 1 .. Len(u), i < j, u[i].name = u[j].name
        PROVE  ~u[i].sure
    <3>1. i \in 1 .. Len(s)
      BY <1>5, <1>7, <2>1
    <3>2. CASE j = Len(s) + 1
      BY <1>5, <2>1, <3>1, <3>2
    <3>3. CASE j # Len(s) + 1
      <4>1. j \in 1 .. Len(s)
        BY <1>5, <1>7, <3>3
      <4>2. s[i].name = s[j].name
        BY <1>5, <2>1, <3>1, <4>1
      <4> QED  BY <1>3, <1>5, <2>1, <3>1, <4>1, <4>2 DEF Innermost
    <3> QED  BY <3>2, <3>3
  <2> QED  BY <1>6, <2>1 DEF Innermost
<1>13. Recorded => Recorded'
  <2>1. \A x, g : Known(x, g)' => Known(x, g)
    BY <1>1 DEF Known, KnownIn
  <2>2. ASSUME NEW i \in 1 .. Len(u), u[i].sure
        PROVE  /\ i \in 1 .. Len(s) /\ s[i].sure
               /\ u[i].name = s[i].name /\ u[i].since = s[i].since
    <3>1. i \in 1 .. Len(s)
      BY <1>5, <1>7, <2>2
    <3> QED  BY <1>5, <2>2, <3>1
  <2> QED  BY <1>1, <1>3, <1>6, <2>1, <2>2, RecordedKept
<1>14. Blank => Blank'
  BY <1>0, <1>1, <1>2 DEF Blank
<1>15. ExactTimes => ExactTimes'
  BY <1>1 DEF ExactTimes
<1>16. Exact'
  BY <1>0, <1>1, <1>2, <1>13, <1>14, <1>15 DEF Exact
<1> QED  BY <1>8, <1>9, <1>10, <1>11, <1>12, <1>16 DEF ProfilerInv

(* Without its innermost call.                                             *)
LEMMA Leaving ==
    ASSUME Types, Innermost, NEW t \in Threads, calls[t] # <<>>,
           calls' = [calls EXCEPT ![t] = SubSeq(@, 1, Len(@) - 1)]
    PROVE  /\ calls' \in [Threads -> Seq(Calls)]
           /\ \A x \in Threads \ {t} : calls'[x] = calls[x]
           /\ \A x \in Threads : \A i \in 1 .. Len(calls'[x]) :
                 i \in 1 .. Len(calls[x]) /\ calls'[x][i] = calls[x][i]
           /\ Innermost'
<1>1. PICK s \in Seq(Calls) : s = calls[t]
  BY DEF Types
<1>2. PICK u : u = SubSeq(s, 1, Len(s) - 1)
  OBVIOUS
<1>3. /\ u \in Seq(Calls) /\ Len(u) = Len(s) - 1
      /\ \A i \in 1 .. Len(s) - 1 : u[i] = s[i] /\ i \in 1 .. Len(s)
  BY <1>1, <1>2, ShorterCalls
<1>4. calls' = [calls EXCEPT ![t] = u]
  BY <1>1, <1>2
<1>5. /\ calls' \in [Threads -> Seq(Calls)] /\ calls'[t] = u
      /\ \A x \in Threads \ {t} : calls'[x] = calls[x]
  BY <1>3, <1>4 DEF Types
<1>6. \A x \in Threads : \A i \in 1 .. Len(calls'[x]) :
         i \in 1 .. Len(calls[x]) /\ calls'[x][i] = calls[x][i]
  BY <1>1, <1>3, <1>5
<1>7. Innermost'
  BY <1>6 DEF Innermost
<1> QED  BY <1>5, <1>6, <1>7

LEMMA ExitKeeps ==
    ASSUME ProfilerInv, NEW t \in Threads, Exit(t)
    PROVE  ProfilerInv'
<1> Flags /\ Types /\ Lifetime /\ Locked /\ Innermost /\ Exact
  BY DEF ProfilerInv
<1>0. t \in Procs /\ t # Sampler /\ Main \in Procs /\ Sampler \in Procs /\ Threads \subseteq Procs
  BY ProfilerAssumption DEF Procs
<1>1. /\ UNCHANGED <<profiler, is_profiling, running>>
      /\ UNCHANGED <<threads, events, event_count, mutex, event, measured, rounds, clock>>
      /\ pc[t] = "idle" /\ calls[t] # <<>>
  BY DEF Exit, control, tables
<1>2. /\ pc'[t] \in {"exit", "idle"} /\ pc' \in [Procs -> Places]
      /\ \A p \in Procs : p # t => pc'[p] = pc[p]
  BY <1>0, <1>1 DEF Exit, Go, Types, Places
<1>3. /\ calls' \in [Threads -> Seq(Calls)]
      /\ \A x \in Threads \ {t} : calls'[x] = calls[x]
      /\ \A x \in Threads : \A i \in 1 .. Len(calls'[x]) :
            i \in 1 .. Len(calls[x]) /\ calls'[x][i] = calls[x][i]
      /\ Innermost'
      /\ pc'[t] = "exit" => calls'[t] = calls[t]
  <2>1. CASE profiler /\ is_profiling
    <3>1. calls' = calls
      BY <2>1 DEF Exit
    <3> QED  BY <3>1 DEF Types, Innermost
  <2>2. CASE ~(profiler /\ is_profiling)
    <3>1. calls' = [calls EXCEPT ![t] = SubSeq(@, 1, Len(@) - 1)] /\ pc' = pc
      BY <2>2 DEF Exit
    <3> QED  BY <1>1, <3>1, Leaving
  <2> QED  BY <2>1, <2>2
<1>4. Flags'
  BY <1>1 DEF Flags
<1>5. Types'
  BY <1>1, <1>2, <1>3 DEF Types
<1>6. Lifetime'
  BY <1>0, <1>1, <1>2 DEF Lifetime, SamplerHasProfiler, NotRunning
<1>7. Locked'
  <2>1. pc'[t] \notin Adding /\ pc[t] \notin Adding /\ pc'[t] # "enter"
    BY <1>1, <1>2 DEF Adding
  <2> QED  BY <1>1, <1>2, <1>3, <2>1, LockedKept
<1>8. Recorded => Recorded'
  <2>1. \A x, g : Known(x, g)' => Known(x, g)
    BY <1>1 DEF Known, KnownIn
  <2> QED  BY <1>1, <1>3, <2>1, RecordedKept
<1>9. (Blank => Blank') /\ (ExactTimes => ExactTimes')
  BY <1>0, <1>1, <1>2 DEF Blank, ExactTimes
<1>10. Exact'
  BY <1>0, <1>1, <1>2, <1>8, <1>9 DEF Exact
<1> QED  BY <1>3, <1>4, <1>5, <1>6, <1>7, <1>10 DEF ProfilerInv

-----------------------------------------------------------------------------
(* The critical sections that begin an event.                              *)

(* A thread takes the mutex with an event to add.                          *)
LEMMA LockedTaken ==
    ASSUME Types, Locked, NEW t \in Threads, mutex = Nobody, mutex' = t,
           pc' = [pc EXCEPT ![t] = "add"],
           \A p \in Procs : p # t => event'[p] = event[p],
           event'[t].event_type \in {"ENTER", "EXIT"},
           event'[t].event_type = "ENTER" =>
              /\ calls'[t] # <<>> /\ ~calls'[t][Len(calls'[t])].sure
              /\ event'[t].function_name = calls'[t][Len(calls'[t])].name,
           \A x \in Threads \ {t} : calls'[x] = calls[x]
    PROVE  Locked'
<1>1. Sampler \in Procs /\ Sampler # t /\ Threads \subseteq Procs /\ t \in Procs
  BY ProfilerAssumption DEF Procs
<1>2. pc'[t] = "add" /\ \A p \in Procs : p # t => pc'[p] = pc[p]
  BY <1>1 DEF Types
<1>3. \A x \in Threads \ {t} :
         Current(x)' = Current(x) /\ pc'[x] = pc[x] /\ event'[x] = event[x]
  BY <1>1, <1>2 DEF Current
<1>4. Current(t)' = calls'[t][Len(calls'[t])]
  BY DEF Current
<1>5. \A x \in Threads : pc[x] \notin Adding
  BY ProfilerAssumption DEF Locked
<1>6. \A x \in Threads : pc'[x] \in Adding <=> mutex' = x
  BY <1>2, <1>3, <1>5 DEF Adding
<1>7. \A x \in Threads : pc'[x] \in {"enter", "exit"} => calls'[x] # <<>>
  BY <1>2, <1>3 DEF Locked
<1>8. \A x \in Threads : pc'[x] = "enter" => ~Current(x)'.sure
  BY <1>2, <1>3 DEF Locked
<1>9. \A x \in Threads :
         pc'[x] \in Adding =>
            /\ event'[x].event_type \in {"ENTER", "EXIT"}
            /\ event'[x].event_type = "ENTER" =>
                 /\ calls'[x] # <<>> /\ ~Current(x)'.sure
                 /\ event'[x].function_name = Current(x)'.name
  BY <1>3, <1>4, <1>5
<1>10. event'[Sampler].event_type # "ENTER"
  BY <1>1 DEF Locked
<1>11. \A p \in Procs : pc'[p] \in {"store", "fill"} => event'[p].index \in Nat \ {0}
  BY <1>2 DEF Locked
<1> QED  BY <1>6, <1>7, <1>8, <1>9, <1>10, <1>11 DEF Locked

(* The profile that profile_function_enter uses, and the function in it.   *)
LEMMA Profiling ==
    ASSUME Types, NEW t \in Threads, NEW f \in Functions,
           NEW ts, ts = WithThread(t),
           NEW i, i = IF Profile(t) # 0 THEN Profile(t) ELSE Len(ts)
    PROVE  /\ ts \in Seq(Profiles) /\ Len(ts) <= MAX_THREADS
           /\ \A x, g : KnownIn(ts, x, g) => Known(x, g)
           /\ Len(ts) > 0 => i \in 1 .. Len(ts)
<1>1. threads \in Seq(Profiles) /\ Len(threads) \in Nat /\ Len(threads) <= MAX_THREADS
  BY DEF Types
<1>2. Profile(t) # 0 => Profile(t) \in 1 .. Len(threads)
  BY <1>1, ProfileFound
<1>3. CASE Profile(t) = 0 /\ Len(threads) < MAX_THREADS
  <2>1. PICK r \in Profiles : r = [thread_id |-> t, functions |-> {}]
    BY DEF Profiles
  <2>2. r.functions = {}
    BY <2>1
  <2>3. PICK old : old = threads
    OBVIOUS
  <2>4. ts = Append(old, r)
    BY <1>3, <2>1, <2>3 DEF WithThread
  <2>5. /\ ts \in Seq(Profiles) /\ Len(ts) = Len(old) + 1
        /\ \A x, g : KnownIn(ts, x, g) => KnownIn(old, x, g)
    BY <1>1, <2>2, <2>3, <2>4, KnownAppend
  <2>6. Len(ts) <= MAX_THREADS /\ i = Len(ts) /\ Len(ts) \in 1 .. Len(ts)
    BY <1>1, <1>3, <2>3, <2>5, ProfilerAssumption
  <2> QED  BY <2>3, <2>5, <2>6 DEF Known
<1>4. CASE ~(Profile(t) = 0 /\ Len(threads) < MAX_THREADS)
  <2>1. ts = threads
    BY <1>4 DEF WithThread
  <2> QED  BY <1>1, <1>2, <2>1 DEF Known
<1> QED  BY <1>3, <1>4

LEMMA EnterLockedKeeps ==
    ASSUME ProfilerInv, NEW t \in Threads, EnterLocked(t)
    PROVE  ProfilerInv'
<1> Flags /\ Types /\ Lifetime /\ Locked /\ Innermost /\ Exact
  BY DEF ProfilerInv
<1>0. t \in Procs /\ t # Sampler /\ Main \in Procs /\ Sampler \in Procs /\ Threads \subseteq Procs
  BY ProfilerAssumption DEF Procs
<1>1. /\ UNCHANGED <<profiler, is_profiling, running>>
      /\ UNCHANGED <<events, event_count, calls, measured, rounds, clock>>
      /\ pc[t] = "enter" /\ mutex = Nobody
  BY DEF EnterLocked, control
<1>2. calls[t] # <<>> /\ ~Current(t).sure
  BY <1>1 DEF Locked
<1>3. PICK s \in Seq(Calls) : s = calls[t]
  BY DEF Types
<1>4. Len(s) \in 1 .. Len(s) /\ s[Len(s)] \in Calls /\ s[Len(s)] = Current(t)
  BY <1>2, <1>3 DEF Current
<1>5. PICK f \in Functions : f = Current(t).name
  BY <1>4 DEF Calls
<1>6. PICK ts : ts = WithThread(t)
  OBVIOUS
<1>7. PICK i : i = IF Profile(t) # 0 THEN Profile(t) ELSE Len(ts)
  OBVIOUS
<1>8. /\ ts \in Seq(Profiles) /\ Len(ts) <= MAX_THREADS
      /\ \A x, g : KnownIn(ts, x, g) => Known(x, g)
      /\ Len(ts) > 0 => i \in 1 .. Len(ts)
  BY <1>6, <1>7, Profiling
<1>9. \/ /\ threads' = [ts EXCEPT ![i].functions = @ \cup {f}]
         /\ Len(ts) > 0 /\ ts[i].thread_id = t
         /\ event' = [event EXCEPT ![t] = [event_type |-> "ENTER",
                         function_name |-> f, index |-> 0]]
         /\ mutex' = t /\ pc' = [pc EXCEPT ![t] = "add"]
      \/ /\ threads' = ts /\ pc' = [pc EXCEPT ![t] = "idle"]
         /\ UNCHANGED <<event, mutex>>
  BY <1>5, <1>6, <1>7, Zenon DEF EnterLocked, Go
<1>10. /\ pc'[t] \in {"add", "idle"} /\ pc' \in [Procs -> Places]
       /\ \A p \in Procs : p # t => pc'[p] = pc[p]
  BY <1>0, <1>9 DEF Types, Places
<1>11. /\ threads' \in Seq(Profiles) /\ Len(threads') <= MAX_THREADS
       /\ \A x, g : Known(x, g)' => Known(x, g) \/ (x = t /\ g = f)
  <2>1. PICK us : us = threads'
    OBVIOUS
  <2>2. CASE us = ts
    BY <1>8, <2>1, <2>2 DEF Known
  <2>3. CASE us # ts
    <3>1. us = WithFunction(ts, i, f) /\ Len(ts) > 0 /\ ts[i].thread_id = t
      BY <1>9, <2>1, <2>3 DEF WithFunction
    <3>2. /\ us \in Seq(Profiles) /\ Len(us) = Len(ts)
          /\ \A x, g : KnownIn(us, x, g) => KnownIn(ts, x, g) \/ (x = t /\ g = f)
      <4>1. ts \in Seq(Profiles) /\ i \in 1 .. Len(ts)
        BY <1>8, <3>1
      <4>2. /\ us \in Seq(Profiles) /\ Len(us) = Len(ts)
            /\ \A x, g : KnownIn(us, x, g) =>
                  KnownIn(ts, x, g) \/ (x = ts[i].thread_id /\ g = f)
        BY ONLY <3>1, <4>1, f \in Functions, KnownMore
      <4> QED  BY <3>1, <4>2
    <3> QED  BY <1>8, <2>1, <3>2 DEF Known
  <2> QED  BY <2>2, <2>3
<1>12. /\ event' \in [Procs -> Events] /\ mutex' \in Threads \cup {Nobody}
       /\ \A p \in Procs : p # t => event'[p] = event[p]
  <2>1. [event_type |-> "ENTER", function_name |-> f, index |-> 0] \in Events
    BY ProfilerAssumption DEF Events
  <2> QED  BY <1>0, <1>9, <2>1 DEF Types
<1>13. Flags'
  BY <1>1 DEF Flags
<1>14. Types'
  BY <1>1, <1>10, <1>11, <1>12 DEF Types
<1>15. Lifetime'
  BY <1>0, <1>1, <1>10 DEF Lifetime, SamplerHasProfiler, NotRunning
<1>16. Locked'
  <2>1. CASE mutex' = t
    <3>1. /\ event'[t].event_type = "ENTER" /\ event'[t].function_name = f
          /\ pc' = [pc EXCEPT ![t] = "add"]
      BY <1>0, <1>1, <1>9, <2>1, ProfilerAssumption DEF Types
    <3>2. calls'[t] # <<>> /\ calls'[t][Len(calls'[t])] = Current(t)
      BY <1>1, <1>2 DEF Current
    <3> QED  BY <1>1, <1>2, <1>5, <1>12, <2>1, <3>1, <3>2, LockedTaken
  <2>2. CASE mutex' # t
    <3>1. UNCHANGED <<event, mutex>> /\ pc' = [pc EXCEPT ![t] = "idle"]
      BY <1>9, <2>2
    <3>2. pc'[t] = "idle"
      BY <1>0, <3>1 DEF Types
    <3> QED  BY <1>1, <1>10, <3>1, <3>2, LockedKept DEF Adding
  <2> QED  BY <2>1, <2>2
<1>17. Innermost'
  BY <1>1 DEF Innermost
<1>18. Recorded => Recorded'
  <2>1. \A h \in 1 .. Len(calls[t]) : calls[t][h].sure => calls[t][h].name # f
    <3>1. ASSUME NEW h \in 1 .. Len(s), s[h].sure, s[h].name = f PROVE FALSE
      <4>1. h # Len(s)
        BY <1>2, <1>4, <3>1
      <4>2. h < Len(s)
        BY <1>3, <4>1
      <4>3. s[h].name = s[Len(s)].name
        BY <1>4, <1>5, <3>1
      <4> QED  BY <1>3, <1>4, <3>1, <4>2, <4>3 DEF Innermost
    <3> QED  BY <1>3, <3>1
  <2> QED  BY <1>1, <1>11, <2>1, RecordedKept
<1>19. Blank => Blank'
  BY <1>0, <1>1, <1>10, <1>12 DEF Blank
<1>20. ExactTimes => ExactTimes'
  BY <1>1 DEF ExactTimes
<1>21. Exact'
  BY <1>0, <1>1, <1>10, <1>18, <1>19, <1>20 DEF Exact
<1> QED  BY <1>13, <1>14, <1>15, <1>16, <1>17, <1>21 DEF ProfilerInv

(* The newest ENTER of the current call, where one is recorded.            *)
LEMMA EnterTimeFound ==
    ASSUME Types, NEW t \in Threads, NEW f, f = Current(t).name, NEW time, Entered(t, f, time),
           event_count <= MAX_SAMPLES
    PROVE  EnterTime(t) = time
<1> DEFINE found == Enters(t)
           newest == CHOOSE i \in found : \A h \in found : h <= i
<1>1. PICK i \in 1 .. event_count :
         /\ EnterOf(events[i], t, f) /\ events[i].timestamp = time
         /\ \A h \in 1 .. event_count : EnterOf(events[h], t, f) => h <= i
  BY DEF Entered
<1>2. event_count \in Nat
  BY ProfilerAssumption DEF Types
<1>3. \A h : h \in found <=> h \in 1 .. event_count /\ EnterOf(events[h], t, f)
  BY <1>2, ProfilerAssumption DEF Enters, IsEnter, EnterOf, Types, Slots
<1>4. EnterTime(t) = IF found = {} THEN 0 ELSE events[newest].timestamp
  BY DEF EnterTime
<1> HIDE DEF found
<1>5. i \in found /\ \A h \in found : h <= i
  BY <1>1, <1>3
<1>6. newest \in found /\ \A h \in found : h <= newest
  BY <1>5
<1>7. \A h \in found : h \in Nat
  BY <1>2, <1>3
<1>8. newest = i
  <2> HIDE DEF newest
  <2> QED  BY <1>5, <1>6, <1>7
<1> QED  BY <1>1, <1>4, <1>5, <1>8

LEMMA ExitLockedKeeps ==
    ASSUME ProfilerInv, NEW t \in Threads, ExitLocked(t)
    PROVE  ProfilerInv'
<1> Flags /\ Types /\ Lifetime /\ Locked /\ Innermost /\ Exact
  BY DEF ProfilerInv
<1>0. t \in Procs /\ t # Sampler /\ Main \in Procs /\ Sampler \in Procs /\ Threads \subseteq Procs
  BY ProfilerAssumption DEF Procs
<1>1. /\ UNCHANGED <<profiler, is_profiling, running>>
      /\ UNCHANGED <<threads, events, event_count, rounds, clock>>
      /\ pc[t] = "exit" /\ mutex = Nobody
      /\ calls' = [calls EXCEPT ![t] = SubSeq(@, 1, Len(@) - 1)]
  BY DEF ExitLocked, control, tables
<1>2. calls[t] # <<>>
  BY <1>1 DEF Locked
<1>3. PICK s \in Seq(Calls) : s = calls[t]
  BY DEF Types
<1>4. Len(s) \in 1 .. Len(s) /\ s[Len(s)] \in Calls /\ s[Len(s)] = Current(t)
  BY <1>2, <1>3 DEF Current
<1>5. PICK f \in Functions : f = Current(t).name
  BY <1>4 DEF Calls
<1>6. /\ calls' \in [Threads -> Seq(Calls)]
      /\ \A x \in Threads \ {t} : calls'[x] = calls[x]
      /\ \A x \in Threads : \A i \in 1 .. Len(calls'[x]) :
            i \in 1 .. Len(calls[x]) /\ calls'[x][i] = calls[x][i]
      /\ Innermost'
  BY <1>1, <1>2, Leaving
<1>7. \/ /\ Profile(t) # 0 /\ f \in threads[Profile(t)].functions
         /\ measured' = [measured EXCEPT ![t] =
               [sure |-> Current(t).sure, execution_time |-> clock - EnterTime(t),
                true_time |-> clock - Current(t).since]]
         /\ event' = [event EXCEPT ![t] = [event_type |-> "EXIT",
                         function_name |-> f, index |-> 0]]
         /\ mutex' = t /\ pc' = [pc EXCEPT ![t] = "add"]
      \/ pc' = [pc EXCEPT ![t] = "idle"] /\ UNCHANGED <<measured, event, mutex>>
  BY <1>5, Zenon DEF ExitLocked, Go
<1>8. /\ pc'[t] \in {"add", "idle"} /\ pc' \in [Procs -> Places]
      /\ \A p \in Procs : p # t => pc'[p] = pc[p]
  BY <1>0, <1>7 DEF Types, Places
<1>9. /\ event' \in [Procs -> Events] /\ mutex' \in Threads \cup {Nobody}
      /\ \A p \in Procs : p # t => event'[p] = event[p]
  <2>1. [event_type |-> "EXIT", function_name |-> f, index |-> 0] \in Events
    BY ProfilerAssumption DEF Events
  <2> QED  BY <1>0, <1>7, <2>1 DEF Types
<1>10. DOMAIN measured' = Threads
  BY <1>7 DEF Types
<1>11. Flags'
  BY <1>1 DEF Flags
<1>12. Types'
  BY <1>1, <1>6, <1>8, <1>9, <1>10 DEF Types
<1>13. Lifetime'
  BY <1>0, <1>1, <1>8 DEF Lifetime, SamplerHasProfiler, NotRunning
<1>14. Locked'
  <2>1. CASE mutex' = t
    <3>1. event'[t].event_type = "EXIT" /\ pc' = [pc EXCEPT ![t] = "add"]
      BY <1>0, <1>1, <1>7, <2>1, ProfilerAssumption DEF Types
    <3> QED  BY <1>1, <1>6, <1>9, <2>1, <3>1, LockedTaken
  <2>2. CASE mutex' # t
    <3>1. UNCHANGED <<event, mutex>> /\ pc' = [pc EXCEPT ![t] = "idle"]
      BY <1>7, <2>2
    <3>2. pc'[t] = "idle"
      BY <1>0, <3>1 DEF Types
    <3> QED  BY <1>1, <1>6, <1>8, <3>1, <3>2, LockedKept DEF Adding
  <2> QED  BY <2>1, <2>2
<1>15. Recorded => Recorded'
  <2>1. \A x, g : Known(x, g)' => Known(x, g)
    BY <1>1 DEF Known, KnownIn
  <2> QED  BY <1>1, <1>6, <2>1, RecordedKept
<1>16. Blank => Blank'
  BY <1>0, <1>1, <1>8, <1>9 DEF Blank
<1>17. Blank /\ Recorded /\ ExactTimes => (rounds = 0 => ExactTimes')
  <2> SUFFICES ASSUME Blank, Recorded, ExactTimes, rounds = 0 PROVE ExactTimes'
    OBVIOUS
  <2>1. \A x \in Threads : measured[x].sure /\ Unmistaken(x) =>
           measured[x].execution_time = measured[x].true_time
    BY DEF ExactTimes, Unmistaken
  <2>2. CASE measured' = measured
    BY <1>1, <2>1, <2>2 DEF ExactTimes, Unmistaken
  <2>3. CASE measured' # measured
    <3>1. /\ measured'[t].sure = Current(t).sure
          /\ measured'[t].execution_time = clock - EnterTime(t)
          /\ measured'[t].true_time = clock - Current(t).since
          /\ \A x \in Threads \ {t} : measured'[x] = measured[x]
          /\ Profile(t) # 0 /\ f \in threads[Profile(t)].functions
      BY <1>7, <2>3 DEF Types
    <3>2. ASSUME Current(t).sure, Unmistaken(t)
          PROVE  measured'[t].execution_time = measured'[t].true_time
      <4>1. Known(t, f)
        <5>1. Profile(t) \in 1 .. Len(threads) /\ IsProfileOf(Profile(t), t)
          BY <3>1, ProfileFound DEF Types
        <5> QED  BY <3>1, <5>1 DEF Known, KnownIn, IsProfileOf
      <4>2. Entered(t, f, Current(t).since)
        BY <1>3, <1>4, <1>5, <3>2, <4>1 DEF Recorded
      <4>3. EnterTime(t) = Current(t).since
        BY <1>5, <4>2, EnterTimeFound DEF Blank
      <4> QED  BY <3>1, <4>3
    <3> QED  BY <2>1, <3>1, <3>2 DEF ExactTimes, Unmistaken
  <2> QED  BY <2>2, <2>3
<1>18. Exact'
  BY <1>0, <1>1, <1>8, <1>15, <1>16, <1>17 DEF Exact
<1> QED  BY <1>6, <1>11, <1>12, <1>13, <1>14, <1>18 DEF ProfilerInv

-----------------------------------------------------------------------------
(* Adding an event.                                                        *)

(* The profiling thread adds events only once a sample is taken, and a     *)
(* thread has the mutex when it does.                                      *)
LEMMA AddingAlone ==
    ASSUME Types, Locked, Exact, NEW p \in Procs, pc[p] \in Adding
    PROVE  /\ p = Sampler => rounds # 0
           /\ p \in Threads => mutex = p /\ \A x \in Threads \ {p} : pc[x] \notin Adding
           /\ p = Sampler \/ p \in Threads
           /\ Sampler \in Procs /\ Sampler \notin Threads /\ Threads \subseteq Procs
           /\ Main \in Threads
<1>1. p = Sampler \/ p \in Threads
  BY DEF Procs
<1>2. Sampler \in Procs /\ Sampler \notin Threads /\ Threads \subseteq Procs /\ Main \in Threads
  BY ProfilerAssumption DEF Procs
<1>3. p = Sampler => rounds # 0
  BY DEF Exact, Adding
<1>4. p \in Threads => mutex = p /\ \A x \in Threads \ {p} : pc[x] \notin Adding
  BY DEF Locked
<1> QED  BY <1>1, <1>2, <1>3, <1>4

(* Where an event goes on: the mutex stays with the thread that adds it.   *)
LEMMA LockedOn ==
    ASSUME Locked, NEW p \in Procs, UNCHANGED <<mutex, calls>>,
           pc[p] \in Adding, pc'[p] \in Adding,
           \A q \in Procs : q # p => pc'[q] = pc[q] /\ event'[q] = event[q],
           event'[p].event_type = event[p].event_type,
           event'[p].function_name = event[p].function_name,
           pc'[p] \in {"store", "fill"} => event'[p].index \in Nat \ {0}
    PROVE  Locked'
<1>1. Sampler \in Procs /\ Threads \subseteq Procs
  BY DEF Procs
<1>2. \A x \in Threads : Current(x)' = Current(x)
  BY DEF Current
<1>3. \A q \in Procs : /\ event'[q].event_type = event[q].event_type
                       /\ event'[q].function_name = event[q].function_name
                       /\ pc'[q] \in Adding <=> pc[q] \in Adding
                       /\ pc'[q] \notin Adding => pc'[q] = pc[q]
  OBVIOUS
<1>4. \A x \in Threads : pc'[x] \in Adding <=> mutex' = x
  BY <1>1, <1>3 DEF Locked
<1>5. \A x \in Threads : pc'[x] \in {"enter", "exit"} => calls'[x] # <<>>
  BY <1>1, <1>3 DEF Locked, Adding
<1>6. \A x \in Threads : pc'[x] = "enter" => ~Current(x)'.sure
  BY <1>1, <1>2, <1>3 DEF Locked, Adding
<1>7. \A x \in Threads :
         pc'[x] \in Adding =>
            /\ event'[x].event_type \in {"ENTER", "EXIT"}
            /\ event'[x].event_type = "ENTER" =>
                 /\ calls'[x] # <<>> /\ ~Current(x)'.sure
                 /\ event'[x].function_name = Current(x)'.name
  BY <1>1, <1>2, <1>3 DEF Locked
<1>8. event'[Sampler].event_type # "ENTER"
  BY <1>1, <1>3 DEF Locked
<1>9. \A q \in Procs : pc'[q] \in {"store", "fill"} => event'[q].index \in Nat \ {0}
  BY DEF Locked
<1> QED  BY <1>4, <1>5, <1>6, <1>7, <1>8, <1>9 DEF Locked

LEMMA AddTestKeeps ==
    ASSUME ProfilerInv, NEW p \in Procs, AddTest(p)
    PROVE  ProfilerInv'
<1> Flags /\ Types /\ Lifetime /\ Locked /\ Innermost /\ Exact
  BY DEF ProfilerInv
<1>1. /\ UNCHANGED <<profiler, is_profiling, running>>
      /\ UNCHANGED <<threads, events, event_count, mutex, event, calls, measured, rounds, clock>>
      /\ pc[p] = "add" /\ event_count < MAX_SAMPLES
      /\ pc' = [pc EXCEPT ![p] = "read"]
  BY DEF AddTest, control, tables, Go
<1>2. /\ p = Sampler => rounds # 0
      /\ p \in Threads => mutex = p /\ \A x \in Threads \ {p} : pc[x] \notin Adding
      /\ p = Sampler \/ p \in Threads
      /\ Sampler \in Procs /\ Sampler \notin Threads /\ Threads \subseteq Procs
      /\ Main \in Threads
  BY <1>1, AddingAlone DEF Adding
<1>3. /\ pc' \in [Procs -> Places] /\ pc'[p] = "read"
      /\ \A q \in Procs : q # p => pc'[q] = pc[q]
  BY <1>1 DEF Types, Places
<1>4. Flags'
  BY <1>1 DEF Flags
<1>5. Types'
  BY <1>1, <1>3 DEF Types
<1>6. Lifetime'
  BY <1>1, <1>2, <1>3 DEF Lifetime, SamplerHasProfiler, NotRunning, Adding
<1>7. Locked'
  BY <1>1, <1>3, LockedOn DEF Adding
<1>8. Innermost'
  BY <1>1 DEF Innermost
<1>9. Exact'
  <2>1. CASE p = Sampler
    BY <1>1, <1>2, <2>1 DEF Exact
  <2>2. CASE p \in Threads
    <3>1. Recorded => Recorded'
      BY <1>1 DEF Recorded, Known, KnownIn, Entered, EnterOf
    <3>2. ExactTimes => ExactTimes'
      BY <1>1 DEF ExactTimes
    <3>3. Blank => Blank'
      BY <1>1, <1>2, <1>3, <2>2 DEF Blank, Adding
    <3>4. pc'[Sampler] = pc[Sampler]
      BY <1>2, <1>3, <2>2
    <3> QED  BY <1>1, <3>1, <3>2, <3>3, <3>4 DEF Exact
  <2> QED  BY <1>2, <2>1, <2>2
<1> QED  BY <1>4, <1>5, <1>6, <1>7, <1>8, <1>9 DEF ProfilerInv

LEMMA AddReadKeeps ==
    ASSUME ProfilerInv, NEW p \in Procs, AddRead(p)
    PROVE  ProfilerInv'
<1> Flags /\ Types /\ Lifetime /\ Locked /\ Innermost /\ Exact
  BY DEF ProfilerInv
<1>0. event_count \in Nat /\ MAX_SAMPLES \in Nat
  BY ProfilerAssumption DEF Types
<1>1. /\ UNCHANGED <<profiler, is_profiling, running>>
      /\ UNCHANGED <<threads, events, event_count, mutex, calls, measured, rounds, clock>>
      /\ pc[p] = "read"
      /\ event' = [event EXCEPT ![p].index = event_count + 1]
      /\ pc' = [pc EXCEPT ![p] = "store"]
  BY DEF AddRead, control, tables, Go
<1>2. /\ p = Sampler => rounds # 0
      /\ p \in Threads => mutex = p /\ \A x \in Threads \ {p} : pc[x] \notin Adding
      /\ p = Sampler \/ p \in Threads
      /\ Sampler \in Procs /\ Sampler \notin Threads /\ Threads \subseteq Procs
      /\ Main \in Threads
  BY <1>1, AddingAlone DEF Adding
<1>3. /\ pc' \in [Procs -> Places] /\ pc'[p] = "store"
      /\ \A q \in Procs : q # p => pc'[q] = pc[q]
  BY <1>1 DEF Types, Places
<1>4. /\ event' \in [Procs -> Events] /\ event'[p].index = event_count + 1
      /\ event'[p].event_type = event[p].event_type
      /\ event'[p].function_name = event[p].function_name
      /\ \A q \in Procs : q # p => event'[q] = event[q]
  <2>1. event[p] \in Events
    BY DEF Types
  <2>2. PICK e \in Events :
           /\ e = [event[p] EXCEPT !.index = event_count + 1] /\ e.index = event_count + 1
           /\ e.event_type = event[p].event_type /\ e.function_name = event[p].function_name
    <3>1. PICK b \in Events, n \in Nat : b = event[p] /\ n = event_count + 1
      BY <1>0, <2>1
    <3>2. /\ [b EXCEPT !.index = n] \in Events /\ [b EXCEPT !.index = n].index = n
          /\ [b EXCEPT !.index = n].event_type = b.event_type
          /\ [b EXCEPT !.index = n].function_name = b.function_name
      BY ONLY b \in Events, n \in Nat DEF Events
    <3> QED  BY <3>1, <3>2
  <2>3. event' = [event EXCEPT ![p] = e]
    BY <1>1, <2>2
  <2> QED  BY <2>2, <2>3 DEF Types
<1>5. Flags'
  BY <1>1 DEF Flags
<1>6. Types'
  BY <1>1, <1>3, <1>4 DEF Types
<1>7. Lifetime'
  BY <1>1, <1>2, <1>3 DEF Lifetime, SamplerHasProfiler, NotRunning, Adding
<1>8. Locked'
  <2>1. event'[p].index \in Nat \ {0}
    BY <1>0, <1>4
  <2> QED  BY <1>1, <1>3, <1>4, <2>1, LockedOn DEF Adding
<1>9. Innermost'
  BY <1>1 DEF Innermost
<1>10. Exact'
  <2>1. CASE p = Sampler
    BY <1>1, <1>2, <2>1 DEF Exact
  <2>2. CASE p \in Threads
    <3>1. Recorded => Recorded'
      BY <1>1 DEF Recorded, Known, KnownIn, Entered, EnterOf
    <3>2. ExactTimes => ExactTimes'
      BY <1>1 DEF ExactTimes
    <3>3. Blank => Blank'
      BY <1>1, <1>2, <1>3, <1>4, <2>2 DEF Blank, Adding
    <3>4. pc'[Sampler] = pc[Sampler]
      BY <1>2, <1>3, <2>2
    <3> QED  BY <1>1, <3>1, <3>2, <3>3, <3>4 DEF Exact
  <2> QED  BY <1>2, <2>1, <2>2
<1> QED  BY <1>5, <1>6, <1>7, <1>8, <1>9, <1>10 DEF ProfilerInv

LEMMA AddStoreKeeps ==
    ASSUME ProfilerInv, NEW p \in Procs, AddStore(p)
    PROVE  ProfilerInv'
<1> Flags /\ Types /\ Lifetime /\ Locked /\ Innermost /\ Exact
  BY DEF ProfilerInv
<1>0. event_count \in Nat /\ MAX_SAMPLES \in Nat
  BY ProfilerAssumption DEF Types
<1>1. /\ UNCHANGED <<profiler, is_profiling, running>>
      /\ UNCHANGED <<threads, events, mutex, event, calls, measured, rounds, clock>>
      /\ pc[p] = "store" /\ event_count' = event[p].index
      /\ pc' = [pc EXCEPT ![p] = "fill"]
  BY DEF AddStore, control, Go
<1>2. /\ p = Sampler => rounds # 0
      /\ p \in Threads => mutex = p /\ \A x \in Threads \ {p} : pc[x] \notin Adding
      /\ p = Sampler \/ p \in Threads
      /\ Sampler \in Procs /\ Sampler \notin Threads /\ Threads \subseteq Procs
      /\ Main \in Threads
  BY <1>1, AddingAlone DEF Adding
<1>3. /\ pc' \in [Procs -> Places] /\ pc'[p] = "fill"
      /\ \A q \in Procs : q # p => pc'[q] = pc[q]
  BY <1>1 DEF Types, Places
<1>4. event_count' \in Nat \ {0}
  BY <1>1 DEF Locked
<1>5. Flags'
  BY <1>1 DEF Flags
<1>7. Types'
  BY <1>1, <1>3, <1>4 DEF Types
<1>8. Lifetime'
  BY <1>1, <1>2, <1>3 DEF Lifetime, SamplerHasProfiler, NotRunning, Adding
<1>9. Locked'
  <2>1. event'[p].index \in Nat \ {0}
    BY <1>1, <1>4
  <2>2. pc'[p] \in Adding /\ pc[p] \in Adding
    BY <1>1, <1>3 DEF Adding
  <2> QED  BY <1>1, <1>3, <2>1, <2>2, LockedOn
<1>10. Innermost'
  BY <1>1 DEF Innermost
<1>11. Exact'
  <2>1. CASE p = Sampler
    BY <1>1, <1>2, <2>1 DEF Exact
  <2>2. CASE p \in Threads
    <3> SUFFICES ASSUME rounds = 0 PROVE Exact'
      BY <1>1 DEF Exact
    <3>1. Blank /\ Recorded /\ ExactTimes /\ pc[Sampler] \in {"none", "loop", "ended"}
      BY DEF Exact
    <3>2. /\ event_count' = event_count + 1 /\ events[event_count + 1] = NoEvent
          /\ event_count' <= MAX_SAMPLES
      <4>1. event_count' = event_count + 1 /\ event_count < MAX_SAMPLES
        BY <1>1, <2>2, <3>1 DEF Blank
      <4> QED  BY <1>0, <3>1, <4>1 DEF Blank, Slots
    <3>3. Blank'
      <4>1. \A i \in Slots : i > event_count' => events'[i] = NoEvent
        BY <1>0, <1>1, <3>1, <3>2 DEF Blank, Slots
      <4>2. \A x \in Threads : pc'[x] \notin {"read", "store"} /\ (pc'[x] = "fill" => x = p)
        BY <1>2, <1>3, <2>2 DEF Adding
      <4> QED  BY <1>1, <3>2, <4>1, <4>2 DEF Blank
    <3>4. \A t, f, time : Entered(t, f, time) => Entered(t, f, time)'
      <4>1. \A t, f : ~EnterOf(events'[event_count + 1], t, f)
        BY <1>1, <3>2 DEF EnterOf, NoEvent
      <4>2. \A i : i \in 1 .. event_count' <=> i \in 1 .. event_count \/ i = event_count + 1
        BY <1>0, <3>2
      <4>3. \A i, t, f : EnterOf(events'[i], t, f) <=> EnterOf(events[i], t, f)
        BY <1>1
      <4>4. ASSUME NEW t, NEW f, NEW time, Entered(t, f, time) PROVE Entered(t, f, time)'
        <5>1. PICK i \in 1 .. event_count :
                 /\ EnterOf(events[i], t, f) /\ events[i].timestamp = time
                 /\ \A h \in 1 .. event_count : EnterOf(events[h], t, f) => h <= i
          BY <4>4 DEF Entered
        <5>2. \A h \in 1 .. event_count' : EnterOf(events'[h], t, f) => h <= i
          BY <4>1, <4>2, <4>3, <5>1
        <5>3. i \in 1 .. event_count' /\ EnterOf(events'[i], t, f) /\ events'[i].timestamp = time
          BY <1>1, <4>2, <4>3, <5>1
        <5> QED  BY <5>2, <5>3 DEF Entered, EnterOf
      <4> QED  BY <4>4
    <3>5. Recorded'
      <4>1. \A t, f : Known(t, f)' <=> Known(t, f)
        BY <1>1 DEF Known, KnownIn
      <4>2. ASSUME NEW t \in Threads, NEW i \in 1 .. Len(calls'[t]),
                   NEW f, f = calls'[t][i].name, NEW time, time = calls'[t][i].since,
                   calls'[t][i].sure, Known(t, f)', Unmistaken(t)
            PROVE  Entered(t, f, time)'
        <5>1. Entered(t, f, time)
          BY <1>1, <3>1, <4>1, <4>2 DEF Recorded
        <5> QED  BY <3>4, <5>1
      <4> QED  BY <4>2 DEF Recorded
    <3>6. ExactTimes'
      BY <1>1, <3>1 DEF ExactTimes
    <3>7. pc'[Sampler] \in {"none", "loop", "ended"}
      BY <1>2, <1>3, <2>2, <3>1
    <3> QED  BY <3>3, <3>5, <3>6, <3>7 DEF Exact
  <2> QED  BY <1>2, <2>1, <2>2
<1> QED  BY <1>5, <1>7, <1>8, <1>9, <1>10, <1>11 DEF ProfilerInv

(* Back in the caller.                                                     *)
LEMMA BackInCaller ==
    ASSUME Types, Locked, NEW p \in Procs, pc[p] \in Adding, Added(p),
           \A x \in Threads \ {p} : calls'[x] = calls[x]
    PROVE  /\ pc' \in [Procs -> Places] /\ event' \in [Procs -> Events]
           /\ mutex' \in Threads \cup {Nobody} /\ DOMAIN measured' = Threads
           /\ \A q \in Procs : q # p => pc'[q] = pc[q] /\ event'[q] = event[q]
           /\ p \in Threads => pc'[p] = "idle" /\ ~measured'[p].sure
           /\ \A x \in Threads \ {p} : measured'[x] = measured[x]
           /\ p = Sampler => pc'[p] \in {"loop", "add"}
           /\ Locked'
<1>1. /\ p = Sampler \/ p \in Threads
      /\ p \in Threads => mutex = p
      /\ \A x \in Threads \ {p} : mutex = p => pc[x] \notin Adding
      /\ Sampler \in Procs /\ Sampler \notin Threads /\ Threads \subseteq Procs
  BY ProfilerAssumption DEF Procs, Locked
<1>2. NotAdding \in Events /\ NotAdding.event_type # "ENTER"
  BY ProfilerAssumption DEF NotAdding, Events
<1>3. PICK memory \in Events :
         /\ memory = [event_type |-> "MEMORY", function_name |-> NoName, index |-> 0]
         /\ memory.event_type # "ENTER"
  <2>1. [event_type |-> "MEMORY", function_name |-> NoName, index |-> 0] \in Events
    BY ProfilerAssumption DEF Events
  <2> QED  BY <2>1
<1>4. /\ pc' \in [Procs -> Places] /\ event' \in [Procs -> Events]
      /\ mutex' \in Threads \cup {Nobody} /\ DOMAIN measured' = Threads
      /\ \A q \in Procs : q # p => pc'[q] = pc[q] /\ event'[q] = event[q]
      /\ p \in Threads => pc'[p] = "idle" /\ ~measured'[p].sure /\ mutex' = Nobody
      /\ \A x \in Threads \ {p} : measured'[x] = measured[x]
      /\ p = Sampler => /\ pc'[p] \in {"loop", "add"} /\ mutex' = mutex
                        /\ event'[p].event_type # "ENTER"
  <2>1. CASE p \in Threads
    <3>1. /\ pc' = [pc EXCEPT ![p] = "idle"] /\ mutex' = Nobody
          /\ event' = [event EXCEPT ![p] = NotAdding]
          /\ measured' = [measured EXCEPT ![p] = NotMeasured]
      BY <2>1 DEF Added, Go
    <3>2. ~NotMeasured.sure
      BY DEF NotMeasured
    <3> HIDE DEF NotMeasured
    <3> QED  BY <1>1, <1>2, <2>1, <3>1, <3>2 DEF Types, Places
  <2>2. CASE p \notin Threads
    <3>1. /\ UNCHANGED <<mutex, measured>>
          /\ \/ pc' = [pc EXCEPT ![p] = "add"] /\ event' = [event EXCEPT ![p] = memory]
             \/ pc' = [pc EXCEPT ![p] = "loop"] /\ event' = [event EXCEPT ![p] = NotAdding]
      BY <1>3, <2>2 DEF Added, Go
    <3> QED  BY <1>1, <1>2, <1>3, <2>2, <3>1 DEF Types, Places
  <2> QED  BY <2>1, <2>2
<1>5. Locked'
  <2>1. \A x \in Threads \ {p} : /\ Current(x)' = Current(x) /\ calls'[x] = calls[x]
                                 /\ pc'[x] = pc[x] /\ event'[x] = event[x]
    BY <1>1, <1>4 DEF Current
  <2>2. p \in Threads => pc'[p] = "idle"
    BY <1>4
  <2>3. \A x \in Threads : pc'[x] \in Adding <=> mutex' = x
    <3>1. CASE p \in Threads
      BY <1>1, <1>4, <2>1, <3>1, ProfilerAssumption DEF Adding
    <3>2. CASE p = Sampler
      BY <1>1, <1>4, <2>1, <3>2 DEF Locked
    <3> QED  BY <1>1, <3>1, <3>2
  <2>4. \A x \in Threads : pc'[x] \in {"enter", "exit"} => calls'[x] # <<>>
    BY <2>1, <2>2 DEF Locked
  <2>5. \A x \in Threads : pc'[x] = "enter" => ~Current(x)'.sure
    BY <2>1, <2>2 DEF Locked
  <2>6. \A x \in Threads :
           pc'[x] \in Adding =>
              /\ event'[x].event_type \in {"ENTER", "EXIT"}
              /\ event'[x].event_type = "ENTER" =>
                   /\ calls'[x] # <<>> /\ ~Current(x)'.sure
                   /\ event'[x].function_name = Current(x)'.name
    BY <2>1, <2>2 DEF Locked, Adding
  <2>7. event'[Sampler].event_type # "ENTER"
    BY <1>1, <1>4 DEF Locked
  <2>8. \A q \in Procs : pc'[q] \in {"store", "fill"} => event'[q].index \in Nat \ {0}
    BY <1>1, <1>4 DEF Locked
  <2> QED  BY <2>3, <2>4, <2>5, <2>6, <2>7, <2>8 DEF Locked
<1> QED  BY <1>4, <1>5

LEMMA AddFullKeeps ==
    ASSUME ProfilerInv, NEW p \in Procs, AddFull(p)
    PROVE  ProfilerInv'
<1> Flags /\ Types /\ Lifetime /\ Locked /\ Innermost /\ Exact
  BY DEF ProfilerInv
<1>1. /\ UNCHANGED <<profiler, is_profiling, running>>
      /\ UNCHANGED <<threads, events, event_count, calls, rounds, clock>>
      /\ pc[p] = "add" /\ pc[p] \in Adding /\ Added(p)
  BY DEF AddFull, control, tables, Adding
<1>2. /\ p = Sampler => rounds # 0
      /\ p \in Threads => mutex = p /\ \A x \in Threads \ {p} : pc[x] \notin Adding
      /\ p = Sampler \/ p \in Threads
      /\ Sampler \in Procs /\ Sampler \notin Threads /\ Threads \subseteq Procs
      /\ Main \in Threads
  BY <1>1, AddingAlone
<1>3. /\ pc' \in [Procs -> Places] /\ event' \in [Procs -> Events]
      /\ mutex' \in Threads \cup {Nobody} /\ DOMAIN measured' = Threads
      /\ \A q \in Procs : q # p => pc'[q] = pc[q] /\ event'[q] = event[q]
      /\ p \in Threads => pc'[p] = "idle" /\ ~measured'[p].sure
      /\ \A x \in Threads \ {p} : measured'[x] = measured[x]
      /\ p = Sampler => pc'[p] \in {"loop", "add"}
      /\ Locked'
  BY <1>1, BackInCaller
<1>4. Flags'
  BY <1>1 DEF Flags
<1>5. Types'
  BY <1>1, <1>3 DEF Types
<1>6. Lifetime'
  BY <1>1, <1>2, <1>3 DEF Lifetime, SamplerHasProfiler, NotRunning, Adding
<1>7. Innermost'
  BY <1>1 DEF Innermost
<1>8. Exact'
  <2>1. CASE p = Sampler
    BY <1>1, <1>2, <2>1 DEF Exact
  <2>2. CASE p \in Threads
    <3>1. Recorded => Recorded'
      BY <1>1 DEF Recorded, Known, KnownIn, Entered, EnterOf
    <3>2. ExactTimes /\ rounds = 0 => ExactTimes'
      BY <1>1, <1>3, <2>2 DEF ExactTimes
    <3>3. Blank => Blank'
      BY <1>1, <1>2, <1>3, <2>2 DEF Blank
    <3>4. pc'[Sampler] = pc[Sampler]
      BY <1>2, <1>3, <2>2
    <3> QED  BY <1>1, <3>1, <3>2, <3>3, <3>4 DEF Exact
  <2> QED  BY <1>2, <2>1, <2>2
<1> QED  BY <1>3, <1>4, <1>5, <1>6, <1>7, <1>8 DEF ProfilerInv

(* An ENTER makes the innermost call sure, since now.                      *)
LEMMA NowSure ==
    ASSUME Types, Innermost, NEW t \in Threads, calls[t] # <<>>,
           calls' = [calls EXCEPT ![t][Len(calls[t])] =
                        [@ EXCEPT !.sure = TRUE, !.since = clock]]
    PROVE  /\ calls' \in [Threads -> Seq(Calls)]
           /\ \A x \in Threads \ {t} : calls'[x] = calls[x]
           /\ Len(calls'[t]) = Len(calls[t]) /\ Len(calls[t]) \in 1 .. Len(calls[t])
           /\ calls'[t][Len(calls[t])].name = Current(t).name
           /\ calls'[t][Len(calls[t])].since = clock
           /\ \A i \in 1 .. Len(calls[t]) :
                 i # Len(calls[t]) => calls'[t][i] = calls[t][i] /\ i < Len(calls[t])
           /\ Innermost'
<1>0. PICK s \in Seq(Calls) : s = calls[t]
  BY DEF Types
<1>1. PICK n \in Nat : s = calls[t] /\ n = Len(s)
  BY <1>0
<1>2. n \in 1 .. n /\ n \in Nat
  BY <1>1
<1>3. PICK c \in Calls : c = s[n]
  BY <1>1, <1>2
<1>4. PICK e : e = [c EXCEPT !.sure = TRUE, !.since = clock]
  OBVIOUS
<1>5. e \in Calls /\ e.name = c.name /\ e.since = clock
  BY <1>4 DEF Types, Calls
<1>6. PICK u : u = [s EXCEPT ![n] = e]
  OBVIOUS
<1>7. calls' = [calls EXCEPT ![t] = u]
  BY <1>1, <1>3, <1>4, <1>6
<1>8. /\ u \in Seq(Calls) /\ Len(u) = n
      /\ \A i \in 1 .. n : u[i] = IF i = n THEN e ELSE s[i]
  BY ONLY <1>1, <1>2, <1>5, <1>6, s \in Seq(Calls)
<1>9. /\ calls' \in [Threads -> Seq(Calls)] /\ calls'[t] = u
      /\ \A x \in Threads \ {t} : calls'[x] = calls[x]
  BY <1>7, <1>8 DEF Types
<1>10. Current(t) = c
  BY <1>1, <1>3 DEF Current
<1>11. \A i \in 1 .. n : i # n => u[i] = s[i] /\ i < n
  BY <1>2, <1>8
<1>12. u[n].name = c.name /\ u[n].since = clock
  BY <1>2, <1>5, <1>8
<1>13. Innermost'
  <2>1. ASSUME NEW i \in 1 .. n, NEW j \in 1 .. n, i < j, u[i].name = u[j].name
        PROVE  ~u[i].sure
    <3>1. i # n /\ u[i] = s[i] /\ u[j].name = s[j].name
      BY <1>2, <1>3, <1>8, <1>11, <1>12, <2>1
    <3> QED  BY <1>1, <2>1, <3>1 DEF Innermost
  <2> QED  BY <1>8, <1>9, <2>1 DEF Innermost
<1> QED  BY <1>1, <1>2, <1>8, <1>9, <1>10, <1>11, <1>12, <1>13

(* What a call entered stays the newest while no ENTER of it is added.     *)
LEMMA SameEnters ==
    ASSUME event_count' = event_count, NEW t, NEW f, NEW time, Entered(t, f, time),
           \A h \in 1 .. event_count :
              /\ EnterOf(events'[h], t, f) => EnterOf(events[h], t, f)
              /\ EnterOf(events[h], t, f) => events'[h] = events[h]
    PROVE  Entered(t, f, time)'
<1>1. PICK i \in 1 .. event_count :
         /\ EnterOf(events[i], t, f) /\ events[i].timestamp = time
         /\ \A h \in 1 .. event_count : EnterOf(events[h], t, f) => h <= i
  BY DEF Entered
<1>2. EnterOf(events'[i], t, f) /\ events'[i].timestamp = time
  BY <1>1
<1>3. \A h \in 1 .. event_count : EnterOf(events'[h], t, f) => h <= i
  BY <1>1
<1> QED  BY <1>1, <1>2, <1>3 DEF Entered, EnterOf

LEMMA AddFillKeeps ==
    ASSUME ProfilerInv, NEW p \in Procs, AddFill(p)
    PROVE  ProfilerInv'
<1> Flags /\ Types /\ Lifetime /\ Locked /\ Innermost /\ Exact
  BY DEF ProfilerInv
<1>0. event_count \in Nat /\ MAX_SAMPLES \in Nat /\ DOMAIN events = Slots
  BY ProfilerAssumption DEF Types
<1>1. PICK n, e : /\ n = event[p].index
                  /\ e = IF event[p].event_type = "ENTER"
                         THEN [event_type |-> "ENTER", function_name |-> event[p].function_name,
                               thread_id |-> Id[p], timestamp |-> clock]
                         ELSE OtherEvent
                  /\ events' = [events EXCEPT ![n] = e]
  BY Zenon DEF AddFill
<1>2. /\ UNCHANGED <<profiler, is_profiling, running>>
      /\ UNCHANGED <<threads, event_count, rounds, clock>>
      /\ pc[p] = "fill" /\ pc[p] \in Adding /\ Added(p)
  BY DEF AddFill, control, Adding
<1>3. /\ p = Sampler => rounds # 0
      /\ p \in Threads => mutex = p /\ \A x \in Threads \ {p} : pc[x] \notin Adding
      /\ p = Sampler \/ p \in Threads
      /\ Sampler \in Procs /\ Sampler \notin Threads /\ Threads \subseteq Procs
      /\ Main \in Threads
  BY <1>2, AddingAlone
<1>4. n \in Slots
  BY <1>0, <1>1, <1>2 DEF Locked, AddFill, Slots
<1>5. DOMAIN events' = Slots /\ events'[n] = e /\ \A i \in Slots : i # n => events'[i] = events[i]
  BY <1>0, <1>1, <1>4
<1>6. event[p].event_type = "ENTER" =>
         /\ p \in Threads /\ calls[p] # <<>> /\ event[p].function_name = Current(p).name
         /\ calls' = [calls EXCEPT ![p][Len(calls[p])] =
                         [@ EXCEPT !.sure = TRUE, !.since = clock]]
  BY <1>2, <1>3 DEF Locked, AddFill
<1>7. event[p].event_type # "ENTER" => calls' = calls
  BY DEF AddFill
<1>8. event[p].event_type = "ENTER" =>
         /\ calls' \in [Threads -> Seq(Calls)]
         /\ \A x \in Threads \ {p} : calls'[x] = calls[x]
         /\ Len(calls'[p]) = Len(calls[p]) /\ Len(calls[p]) \in 1 .. Len(calls[p])
         /\ calls'[p][Len(calls[p])].name = Current(p).name
         /\ calls'[p][Len(calls[p])].since = clock
         /\ \A i \in 1 .. Len(calls[p]) :
               i # Len(calls[p]) => calls'[p][i] = calls[p][i] /\ i < Len(calls[p])
         /\ Innermost'
  BY <1>6, NowSure
<1>9. /\ calls' \in [Threads -> Seq(Calls)] /\ Innermost'
      /\ \A x \in Threads \ {p} : calls'[x] = calls[x]
  BY <1>7, <1>8 DEF Types, Innermost
<1>10. /\ pc' \in [Procs -> Places] /\ event' \in [Procs -> Events]
       /\ mutex' \in Threads \cup {Nobody} /\ DOMAIN measured' = Threads
       /\ \A q \in Procs : q # p => pc'[q] = pc[q] /\ event'[q] = event[q]
       /\ p \in Threads => pc'[p] = "idle" /\ ~measured'[p].sure
       /\ \A x \in Threads \ {p} : measured'[x] = measured[x]
       /\ p = Sampler => pc'[p] \in {"loop", "add"}
       /\ Locked'
  BY <1>2, <1>9, BackInCaller
<1>11. Flags'
  BY <1>2 DEF Flags
<1>12. Types'
  BY <1>2, <1>5, <1>9, <1>10 DEF Types
<1>13. Lifetime'
  BY <1>2, <1>3, <1>10 DEF Lifetime, SamplerHasProfiler, NotRunning, Adding
<1>14. Exact'
  <2>1. CASE p = Sampler
    BY <1>2, <1>3, <2>1 DEF Exact
  <2>2. CASE p \in Threads
    <3> SUFFICES ASSUME rounds = 0 PROVE Exact'
      BY <1>2 DEF Exact
    <3>1. Blank /\ Recorded /\ ExactTimes /\ pc[Sampler] \in {"none", "loop", "ended"}
      BY DEF Exact
    <3>2. n = event_count /\ events[n] = NoEvent
      BY <1>1, <1>2, <2>2, <3>1 DEF Blank
    <3>3. Blank'
      <4>1. \A i \in Slots : i > event_count' => events'[i] = NoEvent
        BY <1>0, <1>2, <1>5, <3>1, <3>2 DEF Blank, Slots
      <4>2. \A x \in Threads : pc'[x] \notin {"read", "store", "fill"}
        BY <1>3, <1>10, <2>2 DEF Adding
      <4> QED  BY <1>2, <3>1, <4>1, <4>2 DEF Blank
    <3>4. \A h \in 1 .. event_count : h \in Slots
      BY <1>0, <1>4, <3>2 DEF Slots
    <3>5. ASSUME NEW t, NEW f, NEW time, Entered(t, f, time), ~EnterOf(e, t, f)
          PROVE  Entered(t, f, time)'
      <4>1. ~EnterOf(events[n], t, f)
        BY <3>2 DEF EnterOf, NoEvent
      <4>2. \A h \in 1 .. event_count :
               /\ EnterOf(events'[h], t, f) => EnterOf(events[h], t, f)
               /\ EnterOf(events[h], t, f) => events'[h] = events[h]
        BY <1>5, <3>4, <3>5, <4>1
      <4> QED  BY <1>2, <3>5, <4>2, SameEnters
    <3>6. Recorded'
      <4>1. \A t, f : Known(t, f)' <=> Known(t, f)
        BY <1>2 DEF Known, KnownIn
      <4>2. ASSUME NEW t \in Threads, NEW i \in 1 .. Len(calls'[t]),
                   NEW f, f = calls'[t][i].name, NEW time, time = calls'[t][i].since,
                   calls'[t][i].sure, Known(t, f)', Unmistaken(t)
            PROVE  Entered(t, f, time)'
        <5>1. CASE event[p].event_type # "ENTER"
          <6>1. Entered(t, f, time)
            BY <1>7, <3>1, <4>1, <4>2, <5>1 DEF Recorded
          <6>2. ~EnterOf(e, t, f)
            BY <1>1, <5>1 DEF EnterOf, OtherEvent, NoEvent
          <6> QED  BY <3>5, <6>1, <6>2
        <5>2. CASE event[p].event_type = "ENTER" /\ t # p
          <6>1. Entered(t, f, time)
            BY <1>9, <3>1, <4>1, <4>2, <5>2 DEF Recorded
          <6>2. ~EnterOf(e, t, f)
            BY <1>1, <2>2, <4>2, <5>2 DEF EnterOf, Unmistaken
          <6> QED  BY <3>5, <6>1, <6>2
        <5>3. CASE event[p].event_type = "ENTER" /\ t = p /\ i # Len(calls[p])
          <6>1. /\ i \in 1 .. Len(calls[p]) /\ calls'[p][i] = calls[p][i]
                /\ i < Len(calls[p]) /\ Len(calls[p]) \in 1 .. Len(calls'[p])
            BY <1>8, <4>2, <5>3
          <6>2. Entered(t, f, time)
            BY <3>1, <4>1, <4>2, <5>3, <6>1 DEF Recorded
          <6>3. f # Current(p).name
            BY <1>8, <4>2, <5>3, <6>1 DEF Innermost
          <6>4. ~EnterOf(e, t, f)
            BY <1>1, <1>6, <5>3, <6>3 DEF EnterOf
          <6> QED  BY <3>5, <6>2, <6>4
        <5>4. CASE event[p].event_type = "ENTER" /\ t = p /\ i = Len(calls[p])
          <6>1. f = Current(p).name /\ time = clock
            BY <1>8, <4>2, <5>4
          <6>2. EnterOf(e, t, f) /\ e.timestamp = time
            BY <1>1, <1>6, <5>4, <6>1 DEF EnterOf
          <6>3. n \in 1 .. event_count'
            BY <1>2, <1>4, <3>2 DEF Slots
          <6>4. \A h \in 1 .. event_count' : h <= n
            BY <1>2, <3>2
          <6>5. EnterOf(events'[n], t, f) /\ events'[n].timestamp = time
            BY <1>5, <6>2
          <6> QED  BY <6>3, <6>4, <6>5 DEF Entered, EnterOf
        <5> QED  BY <5>1, <5>2, <5>3, <5>4
      <4> QED  BY <4>2 DEF Recorded
    <3>7. ExactTimes'
      BY <1>2, <1>10, <2>2, <3>1 DEF ExactTimes
    <3>8. pc'[Sampler] \in {"none", "loop", "ended"}
      BY <1>3, <1>10, <2>2, <3>1
    <3> QED  BY <3>3, <3>6, <3>7, <3>8 DEF Exact
  <2> QED  BY <1>3, <2>1, <2>2
<1> QED  BY <1>9, <1>10, <1>11, <1>12, <1>13, <1>14 DEF ProfilerInv

LEMMA SamplerSamplesKeeps ==
    ASSUME ProfilerInv, SamplerSamples
    PROVE  ProfilerInv'
<1> Flags /\ Types /\ Lifetime /\ Locked /\ Innermost /\ Exact
  BY DEF ProfilerInv
<1>1. Sampler \in Procs /\ Sampler \notin Threads /\ Threads \subseteq Procs /\ Main \in Threads
  BY ProfilerAssumption DEF Procs
<1>2. PICK sample \in Events :
         /\ sample = [event_type |-> "SAMPLE", function_name |-> NoName, index |-> 0]
         /\ sample.event_type # "ENTER"
  <2>1. [event_type |-> "SAMPLE", function_name |-> NoName, index |-> 0] \in Events
    BY ProfilerAssumption DEF Events
  <2> QED  BY <2>1
<1>3. /\ UNCHANGED <<profiler, is_profiling, running>>
      /\ UNCHANGED <<threads, events, event_count, mutex, calls, measured, clock>>
      /\ pc[Sampler] = "loop" /\ running /\ rounds' = rounds + 1
      /\ event' = [event EXCEPT ![Sampler] = sample]
      /\ pc' = [pc EXCEPT ![Sampler] = "add"]
  BY <1>2 DEF SamplerSamples, control, tables, Go
<1>4. /\ pc' \in [Procs -> Places] /\ pc'[Sampler] = "add"
      /\ event' \in [Procs -> Events] /\ event'[Sampler].event_type # "ENTER"
      /\ \A p \in Procs : p # Sampler => pc'[p] = pc[p] /\ event'[p] = event[p]
  BY <1>1, <1>2, <1>3 DEF Types, Places
<1>5. rounds' \in Nat /\ rounds' # 0
  BY <1>3 DEF Types
<1>6. Flags'
  BY <1>3 DEF Flags
<1>7. Types'
  BY <1>3, <1>4, <1>5 DEF Types
<1>8. Lifetime'
  BY <1>1, <1>3, <1>4 DEF Lifetime, SamplerHasProfiler, NotRunning, Adding
<1>9. Locked'
  <2>1. \A t \in Threads : /\ pc'[t] = pc[t] /\ event'[t] = event[t]
                           /\ calls'[t] = calls[t] /\ Current(t)' = Current(t)
    BY <1>1, <1>3, <1>4 DEF Current
  <2>2. \A p \in Procs : pc'[p] \in {"store", "fill"} => event'[p].index \in Nat \ {0}
    BY <1>4 DEF Locked
  <2> QED  BY <1>3, <1>4, <2>1, <2>2 DEF Locked
<1>10. Innermost'
  BY <1>3 DEF Innermost
<1>11. Exact'
  BY <1>5 DEF Exact
<1> QED  BY <1>6, <1>7, <1>8, <1>9, <1>10, <1>11 DEF ProfilerInv

-----------------------------------------------------------------------------
(* The invariant holds, whoever is profiled and however often.             *)
LEMMA InitKeeps ==
    Init => ProfilerInv
<1> SUFFICES ASSUME Init PROVE ProfilerInv
  OBVIOUS
<1>1. Main \in Threads /\ Sampler \notin Threads /\ Nobody \notin Threads /\ Procs = Threads \cup {Sampler}
  BY ProfilerAssumption DEF Procs
<1>2. /\ threads = <<>> /\ events = NoEvents /\ event_count = 0 /\ mutex = Nobody
      /\ pc = [p \in Procs |-> IF p = Sampler THEN "none" ELSE "idle"]
      /\ event = [p \in Procs |-> NotAdding]
      /\ calls = [t \in Threads |-> <<>>]
      /\ measured = [t \in Threads |-> NotMeasured]
      /\ rounds = 0 /\ clock = StartTime
  BY DEF Init
<1>3. /\ pc \in [Procs -> Places] /\ pc[Sampler] = "none" /\ \A t \in Threads : pc[t] = "idle"
  BY <1>1, <1>2 DEF Places
<1>4. NotAdding \in Events /\ NotAdding.event_type # "ENTER"
  BY ProfilerAssumption DEF NotAdding, Events
<1>5. DOMAIN events = Slots /\ \A i \in Slots : events[i] = NoEvent
  BY <1>2 DEF NoEvents, Slots
<1>6. \A t \in Threads : calls[t] = <<>> /\ Len(calls[t]) = 0
  BY <1>2
<1>7. Flags
  BY DEF Flags, Init
<1>8. Types
  <2>1. threads \in Seq(Profiles) /\ Len(threads) = 0 /\ event_count \in Nat
    BY <1>2, ProfilerAssumption
  <2>2. event \in [Procs -> Events] /\ calls \in [Threads -> Seq(Calls)]
    BY <1>2, <1>4
  <2>3. DOMAIN measured = Threads /\ rounds \in Nat /\ clock \in Nat
    BY <1>2, ProfilerAssumption
  <2> QED  BY <1>2, <1>3, <1>5, <2>1, <2>2, <2>3, ProfilerAssumption DEF Types
<1>9. Lifetime
  BY <1>1, <1>3 DEF Lifetime, SamplerHasProfiler, NotRunning, Init
<1>10. Locked
  <2>1. \A p \in Procs : pc[p] \in {"none", "idle"} /\ event[p].event_type # "ENTER"
    BY <1>1, <1>2, <1>3, <1>4
  <2>2. \A t \in Threads : mutex # t
    BY <1>1, <1>2
  <2> QED  BY <1>1, <1>3, <2>1, <2>2 DEF Locked, Adding
<1>11. Innermost
  BY <1>6 DEF Innermost
<1>12. Exact
  <2>1. Blank
    BY <1>2, <1>3, <1>5, ProfilerAssumption DEF Blank
  <2>2. Recorded
    BY <1>6 DEF Recorded
  <2>3. ExactTimes
    BY <1>2 DEF ExactTimes, NotMeasured
  <2> QED  BY <1>3, <2>1, <2>2, <2>3 DEF Exact
<1> QED  BY <1>7, <1>8, <1>9, <1>10, <1>11, <1>12 DEF ProfilerInv

(* What ends the program leaves everything else as it was.                 *)
LEMMA SameKeeps ==
    ASSUME ProfilerInv, UNCHANGED <<control, tables, mutex, pc, event, calls, measured,
                                    rounds, clock>>
    PROVE  ProfilerInv'
<1> Flags /\ Types /\ Lifetime /\ Locked /\ Innermost /\ Exact
  BY DEF ProfilerInv
<1> UNCHANGED <<profiler, is_profiling, running, threads, events, event_count, mutex, pc, event,
                calls, measured, rounds, clock>>
  BY DEF control, tables
<1>1. Flags'
  BY DEF Flags
<1>2. Types'
  BY DEF Types
<1>3. Lifetime'
  BY DEF Lifetime, SamplerHasProfiler
<1>4. Locked' /\ Innermost' /\ Exact'
  BY OnlyPlaces DEF tables
<1> QED  BY <1>1, <1>2, <1>3, <1>4 DEF ProfilerInv

LEMMA StepKeeps ==
    ASSUME ProfilerInv, NEW p \in Procs, Step(p)
    PROVE  ProfilerInv'
<1>1. CASE AddTest(p) \/ AddRead(p)
  BY <1>1, AddTestKeeps, AddReadKeeps
<1>2. CASE AddFull(p)
  BY <1>2, AddFullKeeps
<1>3. CASE AddStore(p)
  BY <1>3, AddStoreKeeps
<1>4. CASE AddFill(p)
  BY <1>4, AddFillKeeps
<1>5. CASE AddOverrun(p)
  BY <1>5, SameKeeps DEF AddOverrun, Fails
<1> QED  BY <1>1, <1>2, <1>3, <1>4, <1>5 DEF Step

LEMMA NextKeeps ==
    ASSUME ProfilerInv, Next
    PROVE  ProfilerInv'
<1>1. CASE Start \/ \E created \in BOOLEAN : StartThread(created)
  BY <1>1, StartKeeps, StartThreadKeeps
<1>2. CASE Stop("halt") \/ Stop("halt, free")
  BY <1>2, StopKeeps
<1>3. CASE StopThread \/ Join
  BY <1>3, StopThreadKeeps, JoinKeeps
<1>4. CASE Free \/ Reset
  BY <1>4, FreeKeeps, ResetKeeps
<1>5. ASSUME NEW t \in Threads,
             \/ \E f \in Functions : Enter(t, f)
             \/ Exit(t) \/ EnterLocked(t) \/ ExitLocked(t) \/ ThreadStart(t)
             \/ Step(t)
      PROVE  ProfilerInv'
  <2>1. CASE \E f \in Functions : Enter(t, f)
    BY <2>1, EnterKeeps
  <2>2. CASE Exit(t)
    BY <2>2, ExitKeeps
  <2>3. CASE EnterLocked(t)
    BY <2>3, EnterLockedKeeps
  <2>4. CASE ExitLocked(t)
    BY <2>4, ExitLockedKeeps
  <2>5. CASE ThreadStart(t)
    BY <2>5, ThreadStartKeeps
  <2>6. CASE Step(t)
    BY <2>6, StepKeeps DEF Procs
  <2> QED  BY <1>5, <2>1, <2>2, <2>3, <2>4, <2>5, <2>6
<1>6. CASE Sampling
  <2>1. CASE SamplerSamples
    BY <2>1, SamplerSamplesKeeps
  <2>2. CASE SamplerEnds
    BY <2>2, SamplerEndsKeeps
  <2>3. CASE Step(Sampler)
    BY <2>3, StepKeeps DEF Procs
  <2> QED  BY <1>6, <2>1, <2>2, <2>3 DEF Sampling
<1>7. CASE Tick
  BY <1>7, TickKeeps
<1>8. CASE StartFails \/ JoinFails
  BY <1>8, SameKeeps DEF StartFails, JoinFails, Fails
<1>9. CASE Ended
  BY <1>9, SameKeeps DEF Ended, vars
<1> QED  BY <1>1, <1>2, <1>3, <1>4, <1>5, <1>6, <1>7, <1>8, <1>9 DEF Next, Calling, Joining

(* The events, the calls and the places fit together in every state: the   *)
(* invariant that profile_function_enter, profile_function_exit, the       *)
(* control functions and the profiling thread all keep.                    *)
THEOREM ProfilerInvariance == Spec => []ProfilerInv
<1>1. Init => ProfilerInv
  BY InitKeeps
<1>2. ProfilerInv /\ [Next]_vars => ProfilerInv'
  BY NextKeeps, SameKeeps DEF vars
<1> QED  BY <1>1, <1>2, PTL DEF Spec

-----------------------------------------------------------------------------
(* How far past the table event_count gets.                                *)

(* About to write past the table, which is the last thing p does.          *)
Doomed(p) == pc[p] \in {"store", "fill"} /\ event[p].index > MAX_SAMPLES

(* Beyond the table somebody is doomed, and one further two are: a thread  *)
(* and the profiling thread.                                               *)
Beyond ==
    /\ event_count > MAX_SAMPLES => \E p \in Procs : Doomed(p)
    /\ \A p \in Procs : event_count > MAX_SAMPLES + 1 \/ event[p].index > MAX_SAMPLES + 1
                       => Doomed(Sampler) /\ \E t \in Threads : Doomed(t)
    /\ event_count <= MAX_SAMPLES + 2
    /\ \A p \in Procs : event[p].index <= MAX_SAMPLES + 2

Within ==
    rounds = 0 => /\ event_count <= MAX_SAMPLES /\ fault # "overrun"
                  /\ \A p \in Procs : event[p].index <= MAX_SAMPLES

Faults == {"none", "no profiler", "no thread", "overrun"}
PastInv == Beyond /\ Within /\ fault \in Faults

(* Where nobody's index grows and nobody doomed gets away.                 *)
LEMMA BeyondKept ==
    ASSUME ProfilerInv, Beyond, event_count' \in {0, event_count},
           \A p \in Procs : /\ event'[p].index \in {0, event[p].index}
                            /\ Doomed(p) => Doomed(p)'
    PROVE  Beyond'
<1>1. MAX_SAMPLES \in Nat /\ Sampler \in Procs /\ Threads \subseteq Procs
  BY ProfilerAssumption DEF Procs
<1>2. \A p \in Procs : event[p].index \in Nat /\ event_count \in Nat
  BY DEF ProfilerInv, Types, Events
<1>3. event_count' > MAX_SAMPLES => \E p \in Procs : Doomed(p)'
  BY <1>1, <1>2 DEF Beyond
<1>4. ASSUME NEW p \in Procs, event_count' > MAX_SAMPLES + 1 \/ event'[p].index > MAX_SAMPLES + 1
      PROVE  Doomed(Sampler)' /\ \E t \in Threads : Doomed(t)'
  <2>1. event_count > MAX_SAMPLES + 1 \/ event[p].index > MAX_SAMPLES + 1
    BY <1>1, <1>2, <1>4
  <2> QED  BY <1>1, <2>1 DEF Beyond
<1>5. /\ event_count' <= MAX_SAMPLES + 2
      /\ \A p \in Procs : event'[p].index <= MAX_SAMPLES + 2
  BY <1>1, <1>2 DEF Beyond
<1> QED  BY <1>3, <1>4, <1>5 DEF Beyond

(* While no sample is taken only the holder of the mutex adds.             *)
LEMMA AddReadPast ==
    ASSUME ProfilerInv, PastInv, NEW p \in Procs, AddRead(p)
    PROVE  PastInv'
<1> Types /\ Locked /\ Exact /\ Beyond /\ Within
  BY DEF ProfilerInv, PastInv
<1>1. /\ UNCHANGED <<event_count, rounds, fault>>
      /\ pc[p] = "read"
      /\ event' = [event EXCEPT ![p].index = event_count + 1]
      /\ pc' = [pc EXCEPT ![p] = "store"]
  BY DEF AddRead, tables, Go
<1>2. /\ MAX_SAMPLES \in Nat /\ event_count \in Nat
      /\ Sampler \in Procs /\ Threads \subseteq Procs
      /\ \A q \in Procs : q \in Threads \/ q = Sampler
      /\ \A q \in Procs : event[q].index \in Nat
  BY ProfilerAssumption DEF Procs, Types, Events
<1>3. /\ pc'[p] = "store" /\ event'[p].index = event_count + 1
      /\ \A q \in Procs : q # p => pc'[q] = pc[q] /\ event'[q] = event[q]
  BY <1>1 DEF Types, Events
<1>4. \A q \in Procs : Doomed(q) => q # p /\ Doomed(q)'
  BY <1>1, <1>3 DEF Doomed
<1>5. event_count > MAX_SAMPLES => Doomed(p)'
  BY <1>2, <1>3 DEF Doomed
<1>6. ~(Doomed(Sampler) /\ \E t \in Threads : Doomed(t))
  <2> SUFFICES ASSUME Doomed(Sampler), NEW t \in Threads, Doomed(t) PROVE FALSE
    OBVIOUS
  <2>1. p \in Threads /\ p # t
    BY <1>2, <1>4
  <2>2. pc[p] \in Adding /\ pc[t] \in Adding
    BY <1>1 DEF Doomed, Adding
  <2> QED  BY <2>1, <2>2 DEF Locked
<1>7. event_count <= MAX_SAMPLES + 1 /\ \A q \in Procs : event[q].index <= MAX_SAMPLES + 1
  BY <1>2, <1>6 DEF Beyond
<1>8. event_count > MAX_SAMPLES => Doomed(Sampler)' /\ \E t \in Threads : Doomed(t)'
  <2> SUFFICES ASSUME event_count > MAX_SAMPLES
               PROVE  Doomed(Sampler)' /\ \E t \in Threads : Doomed(t)'
    OBVIOUS
  <2>1. PICK q \in Procs : Doomed(q)
    BY DEF Beyond
  <2>2. q # p /\ Doomed(q)' /\ Doomed(p)'
    BY <1>4, <1>5, <2>1
  <2>3. ~(p \in Threads /\ q \in Threads)
    <3>1. pc[p] \in Adding /\ pc[q] \in Adding
      BY <1>1, <2>1 DEF Doomed, Adding
    <3> QED  BY <2>2, <3>1 DEF Locked
  <2> QED  BY <1>2, <2>2, <2>3
<1>9. Beyond'
  <2>1. event_count' > MAX_SAMPLES => \E q \in Procs : Doomed(q)'
    BY <1>1, <1>5
  <2>2. \A q \in Procs : event_count' > MAX_SAMPLES + 1 \/ event'[q].index > MAX_SAMPLES + 1
           => Doomed(Sampler)' /\ \E t \in Threads : Doomed(t)'
    BY <1>1, <1>2, <1>3, <1>7, <1>8
  <2>3. event_count' <= MAX_SAMPLES + 2 /\ \A q \in Procs : event'[q].index <= MAX_SAMPLES + 2
    BY <1>1, <1>2, <1>3, <1>7
  <2> QED  BY <2>1, <2>2, <2>3 DEF Beyond
<1>10. Within'
  <2>1. rounds = 0 => p \in Threads /\ event_count < MAX_SAMPLES
    BY <1>1, <1>2 DEF Exact, Blank, Adding
  <2> QED  BY <1>1, <1>2, <1>3, <2>1 DEF Within
<1> QED  BY <1>1, <1>9, <1>10 DEF PastInv

LEMMA AddStorePast ==
    ASSUME ProfilerInv, PastInv, NEW p \in Procs, AddStore(p)
    PROVE  PastInv'
<1> Types /\ Beyond /\ Within
  BY DEF ProfilerInv, PastInv
<1>1. /\ UNCHANGED <<event, rounds, fault>>
      /\ pc[p] = "store" /\ event_count' = event[p].index
      /\ pc' = [pc EXCEPT ![p] = "fill"]
  BY DEF AddStore, Go
<1>2. /\ MAX_SAMPLES \in Nat /\ event[p].index \in Nat
      /\ Sampler \in Procs /\ Threads \subseteq Procs
  BY ProfilerAssumption DEF Procs, Types, Events
<1>3. pc'[p] = "fill" /\ \A q \in Procs : q # p => pc'[q] = pc[q]
  BY <1>1 DEF Types
<1>4. \A q \in Procs : Doomed(q)' <=> Doomed(q)
  BY <1>1, <1>3 DEF Doomed
<1>5. Beyond'
  <2>1. event_count' > MAX_SAMPLES => Doomed(p)
    BY <1>1 DEF Doomed
  <2>2. \A q \in Procs : event_count' > MAX_SAMPLES + 1 \/ event'[q].index > MAX_SAMPLES + 1
           => Doomed(Sampler)' /\ \E t \in Threads : Doomed(t)'
    BY <1>1, <1>2, <1>4 DEF Beyond
  <2>3. event_count' <= MAX_SAMPLES + 2 /\ \A q \in Procs : event'[q].index <= MAX_SAMPLES + 2
    BY <1>1 DEF Beyond
  <2> QED  BY <1>4, <2>1, <2>2, <2>3 DEF Beyond
<1>6. Within'
  BY <1>1 DEF Within
<1> QED  BY <1>1, <1>5, <1>6 DEF PastInv

(* Whoever comes back from adding was not doomed.                          *)
LEMMA BackPast ==
    ASSUME ProfilerInv, PastInv, NEW p \in Procs, ~Doomed(p), Added(p),
           UNCHANGED <<event_count, rounds, fault>>
    PROVE  PastInv'
<1> Types /\ Beyond /\ Within
  BY DEF ProfilerInv, PastInv
<1>1. \A q \in Procs : q # p => pc'[q] = pc[q] /\ event'[q] = event[q]
  BY DEF Added, Go, Types
<1>2. event'[p].index = 0
  BY DEF Added, Types, NotAdding
<1>3. Beyond'
  BY <1>1, <1>2, BeyondKept DEF Doomed
<1>4. Within'
  BY <1>1, <1>2, ProfilerAssumption DEF Within
<1> QED  BY <1>3, <1>4 DEF PastInv

LEMMA StepPast ==
    ASSUME ProfilerInv, PastInv, NEW p \in Procs, Step(p)
    PROVE  PastInv'
<1> Types /\ Beyond /\ Within /\ MAX_SAMPLES \in Nat /\ event[p].index \in Nat
  BY ProfilerAssumption DEF ProfilerInv, PastInv, Types, Events
<1>1. CASE AddTest(p)
  <2>1. /\ UNCHANGED <<event_count, event, rounds, fault>> /\ pc[p] = "add"
        /\ \A q \in Procs : q # p => pc'[q] = pc[q]
    BY <1>1 DEF AddTest, tables, Go, Types
  <2>2. Beyond'
    BY <2>1, BeyondKept DEF Doomed
  <2> QED  BY <2>1, <2>2 DEF PastInv, Within
<1>2. CASE AddFull(p)
  <2>1. pc[p] = "add" /\ Added(p) /\ UNCHANGED <<event_count, rounds, fault>>
    BY <1>2 DEF AddFull, tables
  <2> QED  BY <2>1, BackPast DEF Doomed
<1>3. CASE AddRead(p)
  BY <1>3, AddReadPast
<1>4. CASE AddStore(p)
  BY <1>4, AddStorePast
<1>5. CASE AddFill(p)
  <2>1. /\ event[p].index <= MAX_SAMPLES /\ Added(p)
        /\ UNCHANGED <<event_count, rounds, fault>>
    BY <1>5 DEF AddFill
  <2> QED  BY <2>1, BackPast DEF Doomed
<1>6. CASE AddOverrun(p)
  <2>1. /\ UNCHANGED <<event_count, event, pc, rounds>> /\ fault' = "overrun"
        /\ event[p].index > MAX_SAMPLES
    BY <1>6 DEF AddOverrun, Fails, tables
  <2>2. Beyond'
    BY <2>1, BeyondKept DEF Doomed
  <2>3. rounds # 0
    BY <2>1 DEF Within
  <2> QED  BY <2>1, <2>2, <2>3 DEF PastInv, Within, Faults
<1> QED  BY <1>1, <1>2, <1>3, <1>4, <1>5, <1>6 DEF Step

(* Where nobody is at adding an event but those who were.                  *)
LEMMA ElsewherePast ==
    ASSUME ProfilerInv, PastInv, event_count' \in {0, event_count},
           \A p \in Procs : /\ event'[p].index \in {0, event[p].index}
                            /\ pc[p] \in Adding => pc'[p] = pc[p] /\ event'[p] = event[p],
           rounds' = rounds \/ rounds' # 0, fault' \in {fault, "no profiler", "no thread"}
    PROVE  PastInv'
<1>1. Beyond'
  BY BeyondKept DEF PastInv, Doomed, Adding
<1>2. Within'
  <2> SUFFICES ASSUME rounds' = 0
               PROVE  /\ event_count' <= MAX_SAMPLES /\ fault' # "overrun"
                      /\ \A p \in Procs : event'[p].index <= MAX_SAMPLES
    BY DEF Within
  <2>1. rounds = 0
    OBVIOUS
  <2>2. /\ event_count <= MAX_SAMPLES /\ fault # "overrun"
        /\ \A p \in Procs : event[p].index <= MAX_SAMPLES
    BY <2>1 DEF PastInv, Within
  <2>3. MAX_SAMPLES \in Nat
    BY ProfilerAssumption
  <2>4. ASSUME NEW p \in Procs PROVE event'[p].index <= MAX_SAMPLES
    <3>1. event'[p].index = 0 \/ event'[p].index = event[p].index
      OBVIOUS
    <3> QED  BY ONLY <2>2, <2>3, <3>1, p \in Procs
  <2>5. event_count' <= MAX_SAMPLES
    <3>1. event_count' = 0 \/ event_count' = event_count
      OBVIOUS
    <3> QED  BY ONLY <2>2, <2>3, <3>1
  <2>6. fault' # "overrun"
    BY <2>2
  <2> QED  BY <2>4, <2>5, <2>6
<1> QED  BY <1>1, <1>2 DEF PastInv, Faults

LEMMA CallPast ==
    ASSUME ProfilerInv, PastInv, NEW t \in Threads,
           \/ \E f \in Functions : Enter(t, f)
           \/ Exit(t) \/ EnterLocked(t) \/ ExitLocked(t) \/ ThreadStart(t)
    PROVE  PastInv'
<1>1. pc[t] \notin Adding /\ t \in Procs /\ UNCHANGED <<event_count, rounds, fault>>
  BY DEF Enter, Exit, EnterLocked, ExitLocked, ThreadStart, Adding, Procs, tables
<1>2. pc' = pc \/ \E place : pc' = [pc EXCEPT ![t] = place]
  BY Zenon DEF Enter, Exit, EnterLocked, ExitLocked, ThreadStart, Go
<1>3. event' = event \/ \E kind, name : event' = [event EXCEPT ![t] =
         [event_type |-> kind, function_name |-> name, index |-> 0]]
  BY Zenon DEF Enter, Exit, EnterLocked, ExitLocked, ThreadStart
<1>4. pc \in [Procs -> Places] /\ event \in [Procs -> Events]
  BY DEF ProfilerInv, Types
<1>5. \A p \in Procs : p # t => pc'[p] = pc[p] /\ event'[p] = event[p]
  BY <1>1, <1>2, <1>3, <1>4
<1>6. event'[t].index \in {0, event[t].index}
  BY <1>1, <1>3, <1>4
<1> QED  BY <1>1, <1>5, <1>6, ElsewherePast

LEMMA NextPast ==
    ASSUME ProfilerInv, PastInv, Next
    PROVE  PastInv'
<1>0. /\ pc \in [Procs -> Places] /\ event \in [Procs -> Events]
      /\ Main \in Procs /\ Sampler \in Procs /\ Main # Sampler
      /\ \A t \in Threads : t \in Procs /\ (pc[t] \in Adding <=> mutex = t)
      /\ rounds \in Nat /\ \A p \in Procs : p \in Threads \/ p = Sampler
  BY ProfilerAssumption DEF ProfilerInv, Types, Locked, Procs
<1>1. CASE \/ Start \/ (\E created \in BOOLEAN : StartThread(created))
           \/ Stop("halt") \/ Stop("halt, free") \/ StopThread \/ Join
  <2>1. UNCHANGED <<event_count, event, rounds, fault>> /\ pc[Main] \notin Adding
    BY <1>1 DEF Start, StartThread, Stop, StopThread, Join, tables, Adding
  <2>2. \A p \in Procs : p # Main /\ pc[p] \in Adding => pc'[p] = pc[p]
    <3>1. CASE \E created \in BOOLEAN : StartThread(created)
      BY <1>0, <3>1 DEF StartThread, ProfilerInv, Lifetime, NotRunning, Adding
    <3>2. CASE Join
      BY <1>0, <3>2 DEF Join, Adding
    <3>3. CASE Start \/ Stop("halt") \/ Stop("halt, free") \/ StopThread
      BY <1>0, <3>3 DEF Start, Stop, StopThread, Go
    <3> QED  BY <1>1, <3>1, <3>2, <3>3
  <2> QED  BY <2>1, <2>2, ElsewherePast
<1>2. CASE Free \/ Reset
  <2>1. event_count' = 0 /\ UNCHANGED <<event, rounds, fault>>
    BY <1>2 DEF Free, Reset
  <2>2. \A p \in Procs : pc[p] \in Adding => pc'[p] = pc[p]
    BY <1>0, <1>2 DEF Free, Reset, Go, Adding
  <2> QED  BY <2>1, <2>2, ElsewherePast
<1>3. CASE Tick \/ SamplerEnds
  <2>1. UNCHANGED <<event_count, event, rounds, fault>>
    BY <1>3 DEF Tick, SamplerEnds, tables
  <2>2. \A p \in Procs : pc[p] \in Adding => pc'[p] = pc[p]
    BY <1>0, <1>3 DEF Tick, SamplerEnds, Go, Adding
  <2> QED  BY <2>1, <2>2, ElsewherePast
<1>4. CASE SamplerSamples
  <2>1. UNCHANGED <<event_count, fault>> /\ rounds' # 0 /\ pc[Sampler] = "loop"
    BY <1>0, <1>4 DEF SamplerSamples, tables
  <2>2. \A p \in Procs : /\ event'[p].index \in {0, event[p].index}
                         /\ pc[p] \in Adding => pc'[p] = pc[p] /\ event'[p] = event[p]
    BY <1>0, <1>4, <2>1 DEF SamplerSamples, Go, Adding
  <2> QED  BY <2>1, <2>2, ElsewherePast
<1>5. CASE StartFails \/ JoinFails
  <2>1. /\ UNCHANGED <<event_count, event, pc, rounds>>
        /\ fault' \in {"no profiler", "no thread"}
    BY <1>5 DEF StartFails, JoinFails, Fails, tables
  <2> QED  BY <2>1, ElsewherePast DEF Faults
<1>6. CASE Ended
  <2>1. UNCHANGED <<event_count, event, pc, rounds, fault>>
    BY <1>6 DEF Ended, vars, tables
  <2> QED  BY <2>1, ElsewherePast
<1>7. ASSUME NEW p \in Procs, Step(p) PROVE PastInv'
  BY <1>7, StepPast
<1>8. ASSUME NEW t \in Threads,
             \/ \E f \in Functions : Enter(t, f)
             \/ Exit(t) \/ EnterLocked(t) \/ ExitLocked(t) \/ ThreadStart(t)
      PROVE  PastInv'
  BY <1>8, CallPast
<1> QED  BY <1>0, <1>1, <1>2, <1>3, <1>4, <1>5, <1>6, <1>7, <1>8
         DEF Next, Calling, Joining, Sampling

LEMMA InitPast ==
    Init => PastInv
<1> SUFFICES ASSUME Init PROVE PastInv
  OBVIOUS
<1>1. \A p \in Procs : event[p].index = 0
  BY DEF Init, NotAdding
<1>2. event_count = 0 /\ fault = "none" /\ MAX_SAMPLES \in Nat
  BY ProfilerAssumption DEF Init
<1> QED  BY <1>1, <1>2 DEF PastInv, Beyond, Within, Faults

THEOREM PastInvariance == Spec => []PastInv
<1>1. Init => PastInv
  BY InitPast
<1>2. ProfilerInv /\ PastInv /\ [Next]_vars => PastInv'
  <2> SUFFICES ASSUME ProfilerInv, PastInv, UNCHANGED vars PROVE PastInv'
    BY NextPast
  <2>1. UNCHANGED <<event_count, event, pc, rounds, fault>>
    BY DEF vars, tables
  <2> QED  BY <2>1, ElsewherePast
<1> QED  BY <1>1, <1>2, ProfilerInvariance, PTL DEF Spec

(* Until a sample is taken no event is written past the table, and         *)
(* event_count never exceeds it by more than the two that may be adding    *)
(* at once, with and without profiler_mutex.                               *)
THEOREM TypeCorrect == Spec => []TypeOK
<1>1. ProfilerInv /\ PastInv => TypeOK
  <2> SUFFICES ASSUME ProfilerInv, PastInv PROVE TypeOK
    OBVIOUS
  <2>1. profiler \in BOOLEAN /\ is_profiling \in BOOLEAN /\ running \in BOOLEAN
    BY DEF ProfilerInv, Flags
  <2>2. /\ threads \in Seq([thread_id : Threads, functions : SUBSET Functions])
        /\ Len(threads) <= MAX_THREADS
    BY DEF ProfilerInv, Types, Profiles
  <2>3. \A p \in Procs : event[p].index \in 0 .. MAX_SAMPLES + 2
    BY ProfilerAssumption DEF ProfilerInv, Types, Events, PastInv, Beyond
  <2>4. event_count \in 0 .. MAX_SAMPLES + 2 /\ mutex \in Threads \cup {Nobody}
    BY ProfilerAssumption DEF ProfilerInv, Types, PastInv, Beyond
  <2>6. Within /\ fault \in Faults
    BY DEF PastInv
  <2>5. pc \in [Procs -> Places]
    BY DEF ProfilerInv, Types
  <2> QED  BY <2>1, <2>2, <2>3, <2>4, <2>5, <2>6 DEF TypeOK, Places, Within, Faults
<1> QED  BY <1>1, ProfilerInvariance, PastInvariance, PTL

(* profiler_cleanup never frees the tables under the profiling thread:     *)
(* stop_profiling_thread has told it and waited for it before.             *)
THEOREM SamplerGoesFirst == Spec => []SamplerHasProfiler
<1>1. ProfilerInv => SamplerHasProfiler
  BY DEF ProfilerInv, Lifetime
<1> QED  BY <1>1, ProfilerInvariance, PTL

(* The execution_time that profile_function_exit records is that of the    *)
(* call, as long as the profiling thread has added nothing.                *)
THEOREM TimesExact == Spec => []ExactTimes
<1>1. ProfilerInv => ExactTimes
  BY DEF ProfilerInv, Exact, ExactTimes
<1> QED  BY <1>1, ProfilerInvariance, PTL

=============================================================================

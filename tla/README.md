# TLA+ models of HiFetch

HiFetch is two Linux programs and a set of support files in C: `hifetch` prints a
summary of the system once, `hitop` is an interactive process monitor.
`memory_opt.c`, `profiler.c`, `performance.c`, `network.c`, `hardware.c` and
`advanced_display.c` are libraries for them that the Makefile does not link yet.
This directory models the parts that keep state from one operation to the next, in
both programs and in the libraries.
Paths below are relative to the repository (`src/src/x.c` in `PROJECT.json` is
`src/x.c` here).

## Inventory

| Part | State | Operations | What is hard | Correct means |
|---|---|---|---|---|
| hitop loop (`hitop.c`, `process.c`) | fixed array of processes, count, cursor, scroll position, sort key, filter, flags | rescan, in-place filter, sort, draw, one key per turn, three dialogs, signals | cursor and scroll position outlive the list they point into | the list is exact; the cursor is visible and on a listed process; a signal goes to what the user saw; quit always works |
| hitop CPU and memory samples (`process.c`, `hitop.c`) | counters of the last scan, per slot; history rings | read `/proc/stat`, `/proc/meminfo`, draw the graphs | slots change owner; array edges; unsigned differences; rings that wrap | percentages are of one process and in range; graphs are in order |
| cache (`memory_opt.c`) | 256 chains with a mutex each, two atomic counters | set, get, delete, sweep | threads; counters outside the mutex; a get that unlocks before it deletes; failing malloc | unique keys, right answers, right counters, no lock kept |
| memory pool (`memory_opt.c`) | mapped area, free and used lists of descriptors, counter | create, alloc (first fit, split), free, destroy | relinking between lists; a descriptor that cannot be allocated | no byte given out twice; no block lost; every walk ends |
| memory tracker (`memory_opt.c`) | table of 1024 live blocks, totals | tracked malloc, calloc, realloc, free | heap and table change in different critical sections; addresses are reused; the table fills | the table says what is live |
| profiler (`profiler.c`) | event table, profile per thread, flags, a thread of its own | start, stop, cleanup, reset, enter, exit, thread start and end, sample | the sampling thread takes no mutex; stop and cleanup against a running thread; full tables; allocations and threads that fail | times are of the right call; nothing is used after it is freed |
| command buffers, sysfs reader (`utils.c`) | ring of 256 buffers behind a once-only flag, one static buffer | run a command, read a file | results alias each other; the flag is tested without the mutex | a result is that of its own command for as long as the ring promises |
| system information (`sysinfo.c`, `main.c`) | one cached record and its time | `get_system_info`, 19 gatherers | gathering outside the mutex, with `strtok` and one sysfs buffer for the process; a cache that may be absent; missing files | what is served is of one gathering, younger than a second and has a text in every field |
| performance, benchmarks (`performance.c`) | previous counters per slot, benchmark table | rates, start and end, a comparison of two programs | one `prev_time` for all slots; equal names | rates of one device, never understated; the right verdict |
| network, hardware (`network.c`, `hardware.c`) | arrays with counts, slots, the sysfs buffer | scans, tests of hosts | slots filled and not kept, nothing cleared between scans; all texts pass through one buffer | texts of the own device where it has them, and never those of another slot; no array overrun |
| display (`ascii.c`) | an array of 32 lines | `display_system_info` | the number of lines depends on the machine | they fit |
| security, SIMD, advanced display (`advanced_display.c`, `security.c`, `simd_optimizations.c`) | none | formatting, string tests, vector copies | bytes | outside these models |

The parts meet in few places: `main` of `hifetch` calls the command buffers, the cache of
`sysinfo.c` and the display (`HiFetch` composes them); `hitop` calls the process list functions and `utils.c`;
`print_memory_stats` reads the counters of cache, pool and tracker without their
locks; the profiler's threads share its tables. Everything else is called in sequence.
`PROJECT.json` lists every hazard at its line, with the property that would catch it.

## Modules

| Module | Models | Checked by |
|---|---|---|
| `HiTop` | `main` of `hitop.c` with `get_processes`, `display_processes`, `handle_input` and the dialogs | `MC_HiTop` |
| `HiTopProofs` | theorems about `HiTop` | TLAPS |
| `ExpiringMap` | abstract: a map whose entries may vanish | through `Cache` |
| `Cache` | `cache_set`, `cache_get`, `cache_delete`, `cache_cleanup_expired` | `MC_Cache` |
| `CacheProofs` | theorems about `Cache`, and that it implements `ExpiringMap` | TLAPS |
| `MemoryPool` | `pool_create`, `pool_alloc`, `pool_free`, `pool_destroy` | `MC_MemoryPool` |
| `MemoryPoolProofs` | theorems about `MemoryPool` | TLAPS |
| `MemoryTracker` | `memory_tracker_*`, `tracked_*` | `MC_MemoryTracker` |
| `MemoryTrackerProofs` | theorems about `MemoryTracker` | TLAPS |
| `Profiler` | `profiler.c` without the reports | `MC_Profiler` |
| `ProfilerProofs` | theorems about `Profiler` | TLAPS |
| `CommandBuffers` | `optimize_memory_pools`, `execute_cmd_fast` | through `HiFetch` |
| `Gatherers` | the gatherers of `sysinfo.c`, as functions of a machine | through `HiFetch` |
| `SystemInfo` | `init_fast_cache`, `get_system_info` | through `HiFetch` |
| `HiFetch` | `main.c`, the lines of `display_system_info`; composes the three above | `MC_HiFetch` |
| `HiFetchProofs` | theorems about `HiFetch` and its parts | TLAPS |
| `Scanning` | arrays, counts and the buffer of `read_sysfs_string` | through `Scans` |
| `Hardware` | the lists of `detect_hardware` | through `Scans` |
| `NetworkInfo` | the scans and tests of `network.c` | through `Scans` |
| `Scans` | composes the two: they share the buffer | `MC_Scans` |
| `ScansProofs` | theorems about `Scans` and its parts | TLAPS |
| `Rates` | per-slot rates of `get_processes`, `get_io_performance`, `get_network_performance`, `get_memory_performance` | through `Measurements` |
| `Sampling` | `get_cpu_info`, `get_mem_info`, `update_history`, the columns of the graphs | through `Measurements` |
| `Benchmarks` | the benchmark table, `compare_with_fastfetch` | through `Measurements` |
| `Measurements` | one of the three above at a time (they share no state) | `MC_Measurements` |
| `MeasurementsProofs` | theorems about `Measurements` and its parts | TLAPS |

Definitions with a comment that begins "Mutant:" are wrong versions of the
definition that follows them. They are used by nothing; they document which mistake each
property would notice (`PROJECT.json`, "mutants").

### HiTop

One turn of the loop is `Scan`, `FilterEntry`*, `FilterDone`, `Sort`, `Display` and one
action for the key (`HandleInput` collects them). An entry of the array is the pid of its
process; 0 is an entry never filled. The filter is a set of pids that match, names are
ranks, and the CPU and memory columns, new in every scan, allow any order. The dialogs are
places of their own (`kill_dialog`, `help_wait`), because a signal may arrive in them.
`SelectedEntry` is any value when the cursor is before the array: the C program reads what
happens to be there.

### Cache and ExpiringMap

A thread takes the mutex of a bucket (`Lock`), walks the chain (`Search`), and then does
one of the actions of its operation; unlocking is part of the action where the code unlocks.
The atomic counters are steps of their own (`AddItems`, `AddMemory`, `SubItems`,
`SubMemory`). `time()` is `Tick`. A failed replacement leaves an item with `NULL` data, and the get
that reads through it ends the process (pc "dead"). Keys longer than 127 bytes are
modelled by `Stored`, the key as the item keeps it. `total_memory` wraps at `SIZE_RANGE`.
A thread that is between operations holds no lock (`NoLockKept`).
`ImplementsMap` is the refinement: the store of a key is the data of its item.
`resized` remembers that data was replaced by data of another size, which `total_memory` misses.
`CountersExact` is about the living process: after a get has read through `NULL`, the updates that other threads had under
way are never made.

### MemoryPool

The lists are links (`next`), with the two heads as places like any descriptor, because
`MemBlock **current` may point at either; the failing split makes them share elements, which
sequences could not show. One visit is one step. A request that no block can serve goes to
`malloc`. `starved` remembers that a descriptor could not be allocated; most properties are about runs in which none
failed. `FreeInvalid` and `DestroyInvalid` (a pool address handed to `free`, a descriptor freed twice) end
the run.

### MemoryTracker

`malloc` and `free` are steps outside the critical sections, so another thread may get an
address between its `free` and anything else. `holder` is the thread whose caller may use
a block: a caller frees only what it holds, and once. `filled` says whether the caller's
data is in a block; `intact` remembers, from the call of `tracked_realloc`, whether the old block was in the table and
filled. `watched` are the live blocks allocated while there was a tracker, `dropped` remembers that
one of them met a full table.

### Profiler

Each thread is in a stack of calls (`calls`, what really happens) and reports them.
`add_profile_event` is four steps, because the sampling thread comes to it without the mutex: the test of `event_count` (`AddTest`,
`AddFull`), its load (`AddRead`) and its store (`AddStore`) in `event_count++`, and the filling of the entry (`AddFill`). That is the code
as it is written, and a compiler may do it so; one that loads the counter once, as optimisers tend to, has fewer interleavings.
`measured` has, during an exit, the execution time the code computes next to the true one. An event knows its thread by
`(int)pthread_self()`, which is not one to one: `Id` is any function from threads to integers, and `ExactTimes` speaks of threads
whose id no other thread has. Of events other than ENTER only the place in the table is kept, since nothing
looks them up, and `profile_thread_end` is left out, because only the report reads what it sets. One thread, `Main`, starts and
stops; `Free` waits until the others are out of the profiler, which the code leaves to its
callers: a thread that waits for the mutex while another cleans up would go on with a freed profiler.

What the C language leaves undefined ends the run, and `fault` says what it was: the profiler that `profiler_init` could not allocate is used
(`StartFails`), a thread that `pthread_create` did not make is waited for (`JoinFails`; `Join` is the case that it returns an error), an event is
written past the table (`AddOverrun`).

### CommandBuffers, Gatherers, SystemInfo, HiFetch

`cmd_pc` is a thread's place in `execute_cmd_fast`; what is done with `pool_mutex` is one step, the test of
`pool_initialized` without it is another. A command has a number (`ticket`), and a buffer's text is the number of the
command it came from, so that a result that was overwritten shows. `lapped` remembers that a command began while one
256 (`NBufs`) before it was still in use: from then on results may be overwritten, as the ring is built. Buffers are numbered in the order of their
allocation, so that a second allocation (`FillAgain`, which the second test of the flag prevents) would give new buffers and leave the old ones, with
their text, to those who hold them. The fallback is wiped in a step of its own (`WipeFallback`), after the mutex was given up; `crowded` remembers that it was
taken while somebody else had it.

`pc` is a thread's place in `get_system_info`. A record has two halves, stamped with the time and thread that gathered
them; both copies, into and out of the cache, are two steps, so that a missing mutex would show as a mixed record.
Gathering is not under the mutex, and `strtok` keeps one position for the process, as `read_sysfs_string` keeps one buffer. So a parse is two steps: it begins
(`GatherHead`, `BeginGpus`) and it goes on (`ParseHead`, `ParseGpus`). If a parse of another thread began or went on in between, the thread is in
`disturbed`, and the texts it parses are anything that lines of another file may give (`ForeignHeads`, `foreign_lines`); `own`, in each half, says that this did not happen, and that the output of
`lspci` was that of the own command. `overlapped` remembers that two parses ran at once.
Only the texts that `strtok` or that buffer decide are affected: processor, memory, swap, the graphics cards. The further calls of `strtok` in
one parse are one step, as are the parses of the processor, memory and swap: with three or more threads finer interleavings exist, but their outcome is the same, foreign lines for all who
overlap. What `strtok` writes, a zero byte at the end of a line in whatever memory its position points to, which may be the stack of a function that has returned, is not modelled. The
pointer is `NULL`, `MAP_FAILED` or mapped, and `fault` remembers an access through one of the former. A gatherer is a function from a machine (what the
kernel, files and environment answer) to the text class of its field. `main` runs beside threads that run commands and, after `init_fast_cache`, ask for the
system information; a signal may end the process at any point (`Exit`: nothing of its memory is left). The clock starts at least a second after boot: before that, `last_update = 0.0` would
pass for a fresh record.

### Scanning, Hardware, NetworkInfo, Scans

One entry of a list is one step, which threads the one static buffer through all the reads the code makes for it. A file is a text, blank, empty or not readable;
an empty one leaves the buffer and counts as read. `last` is the row the entry got together with the entry, so that properties can compare
them. Rows hold which text is where, not the text. In `NetworkInfo` a field of an interface holds the name of the interface it was written for.
A scan of interfaces sets `interface_count` to 0 and clears nothing, so the slots begin as the caller left them (`given`: cleared, or any text, `Left`), and the lists of interfaces and of routes may be scanned
again and again into the same `NetworkInfo`; `former` has, for each slot, the interfaces that were written to it. `default_gateway` is treated the same way (`gateway_before`). Once the scans have gone on to lists that do not use
the slots or the gateway, their content is dropped, since nothing reads it again. `Nics` and `Addresses` are what the machine may have: an entry of `Addresses` is one entry of `getifaddrs` with what the files of its interface answer.

### Rates, Sampling, Benchmarks

`Rates` is one algorithm on four sources (`sampler`): the counter and the slot's previous value, with unsigned differences modulo `Width`. `was` is, as history, what
was really seen of an object at its last sample. A `get_processes` that cannot open `/proc` leaves everything but its own
reading of the time (`OpendirFails`). `Sampling` stores sample numbers in the rings, so that the order of the columns shows; a row behind
`prev_cpu_times` gives any value. `Benchmarks` runs `compare_with_fastfetch` on the table, with other entries in it and repeatedly.

## Runs

| Run | Shows |
|---|---|
| `hitop` | `TypeOK`, `ListExact`, `CursorVisible`, `EffectsOnProcesses`, `KeysStayInList`, `QuitExits`, `Refreshes` hold |
| `hitop_kill_target` | violated: the kill dialog asks about a process of an earlier scan |
| `hitop_help` | violated: the help window is never drawn |
| `cache` | `TypeOK`, `UniqueKeys`, `NoLockKept`, `CountersExact`, `SweepSparesLive`, `ImplementsMap` hold; the memory part of `CountersExact` until data is replaced by data of another size |
| `tracker` | `TypeOK`, `TableExact`, `ReallocMovesTracked` hold; `ReportComplete` holds until a block meets a full table |
| `pool` | `TypeOK`, `GrantsSound`, `ListsExact`, `WalksEnd` hold; what is given out lies in the pool whatever fails, the rest holds until a descriptor cannot be allocated |
| `profiler` | `SamplerHasProfiler`, `StopReturns` hold; `TypeOK`: until the first sample the table is not overrun, from then on by two entries at most before the program ends; `ExactTimes` holds until the first sample |
| `profiler_race` | violated: a sample overwrites an ENTER, and a call takes longer than the program has run |
| `hifetch` | `TypeOK`, `OwnOutput` (buffers: until the ring is lapped or the fallback shared), `OneGathering` (both halves are of one gathering; its lines are its own until two parses overlap), `OnlyMappedMemory`, `ServedFresh` (cache), `Displayable` and `MainExits` hold |
| `scans` | `TypeOK` (no overrun), `OwnData`, `SummariesRight` hold, also when interfaces and routes are scanned again |
| `hardware_vendor` | violated: a graphics card is listed under another vendor, because its vendor id was overwritten in the static buffer |
| `measurements` | `TypeOK`, `OwnRate`, `GraphsInOrder`, `UsageInRange`, `VerdictRight` hold |

`CountersExact`, `TableExact`, `GrantsSound`, `ListsExact`, `OwnData`, `SummariesRight`, `OwnRate`, `OwnOutput` and `Displayable` are conjunctions of
two named parts each, which the modules state and comment one by one.

Every violated run is a finding in `PROJECT.json`, with the line of the repository it
disagrees with. Smaller disagreements without a run:

* the footer (`hitop.c:204`) says `k/j:up/down`; the code moves up on `j` and down on
  `k`, as the help window (`process.c:484`) says;
* nothing looks at `MAX_CACHED_ITEMS` (`memory_opt.h:15`), and a key of more than 127 bytes
  is cut when stored (`memory_opt.c:79`) and never found again, so setting it again and again adds items;
* "Active Threads" (`profiler.c:272`) is `thread_count`, which counts ended threads too;
* End on an empty list puts the cursor on row -1 (`process.c:279`), which the next redraw reads (`TypeOK` allows it);
* `cache_set` that replaces data by data of another size leaves `total_memory` (`memory_opt.c:65`), the exception in
  `MemoryAccounted`;
* a block that meets a full tracker table is never reported: "No memory leaks detected." (`memory_opt.c:398`), the
  exception in `ReportComplete`;
* a descriptor that `pool_alloc` cannot allocate (`memory_opt.c:245`) leaves its block in the free list, and the next
  request gets the same bytes; `GrantsDisjoint` and the others hold until then;
* `tracked_realloc` frees the old block also when the new one could not be allocated (`memory_opt.c:381`), and does not copy a block the table does not know
  (`memory_opt.c:369`): the data is lost (`ReallocMovesTracked` says when it is not);
* the sampling thread tests `event_count` (`profiler.c:181`) and increments it (`profiler.c:183`) without the mutex, so that an event may be written past the table, over the thread profiles
  (`AddOverrun`);
* `profiler_start` uses the profiler that `profiler_init` could not allocate (`profiler.c:15`, `38`), and `stop_profiling_thread` waits for a thread that `pthread_create` did not make (`profiler.c:256`, `264`);
* `profile_function_exit` compares `(int)pthread_self()` (`profiler.c:146`): two threads with one truncated id are measured from each other's ENTER;
* `get_system_info` gathers outside its mutex with `strtok` and the buffer of `read_sysfs_string` (`sysinfo.c:122`, `134`): two threads that gather at once mix their lines. `hifetch`
  itself gathers in one thread;
* commands that got no buffer share one fallback (`utils.c:139`), which the second wipes while the first still uses it;
* a request near `SIZE_MAX` is rounded to 0 bytes (`memory_opt.c:236`);
* the network cards' vendor (`hardware.c:103` on) is compared after the buffer was overwritten, like that of the graphics cards;
* an empty sysfs file shows what the static buffer held before (the exception in `OwnTexts`);
* disk names of more than four characters, those of NVMe drives, are skipped (`hardware.c:180`), and power sensors are listed as
  voltages, since `_input` contains `in`;
* nothing is cleared between the interfaces that use a slot, of one scan or of two (`network.c:7`, `15`): where an interface has no address, driver or network, that of a former one, or what the
  caller left, is shown (`OwnFields` says exactly which);
* without a default route among those read the gateway of an earlier scan stays (`network.c:137`), and a default route behind the last row is not read (`GatewayOfDefault`);
* the round-trip times of `run_traceroute` are read from the word "ms" and not from the number before it, so they are 0;
* with several default routes the last one of the table is shown, not the one in use;
* the second device's rate is divided by the time since the first device of the same scan (`performance.c:194`): too high, never too low
  (`NotUnderstated`);
* `compare_with_fastfetch` averages durations that all count from the first run; with equal run times the verdict is right
  all the same (`VerdictRight`), the averages are not;
* the memory graph leaves out the two newest samples (`GraphsInOrder`);
* `display_system_info` has 32 rows and no test; they suffice because no theme is ever looked up (`LinesFit`).

### Bounds and why they are enough

* `HiTop`: three processes and an array of two, so the array runs full; a page of two; terminals
  with no row, one and two rows for processes, so the cursor leaves the screen in both directions; a filter that
  hides some. The proofs remove these bounds.
* `Cache`: two threads, two keys in one bucket (every conflict is in one chain) and a second, empty
  bucket (the sweep goes from lock to lock), data of two sizes, a clock two ticks past 0 with a timeout of one.
  No key is cut, so `MaxChain` is never reached.
* `MemoryTracker`: two threads, three addresses and a table of two, so it runs full while
  an address is reused. All counters are bounded by these.
* `MemoryPool`: 64 bytes with the real descriptor size of 32 split into at most four blocks, and there are four
  descriptors (TLC would report a deadlock if a split found none); three callers with two
  sizes, of which one is not a multiple of 8. Each caller holds one block. The requests are small: the
  rounding of sizes near `SIZE_MAX` is outside them.
* `Profiler`: two threads and the profiling thread, one function, a table of three events, so that enter, exit and enter of one thread fit and a search meets
  the ENTER of an earlier call; both threads may be recorded in the same function. `MaxTurns` (1) bounds ticks and samples together: a call takes one tick in a behaviour without a sample, and one sample overruns the
  table in another. `MaxDepth` (1) bounds open calls. The case that `ExactTimes` leaves out, a function that calls itself, needs `MaxDepth` 2. The two ids differ; the theorem is about any ids.

* `HiFetch`: main and one more thread, two buffers of which one may get no memory, three commands (so the ring is
  lapped and the fallback shared), a machine where nearly nothing answers, so that most texts are the ones fallen back to, with swap and with more graphics cards than `head` lets through; the cache lives
  one tick and the clock has two values, so a record is served or outdated while others gather. `ForeignCounts`: foreign lines are nine, more than there are rows for graphics cards, so that all 32 rows of the display are used. Other machines differ in
  the texts only; the theorems are about all of them.
* `Scans`: arrays of two rows and lists of three entries, so every array runs full; three texts, of which one vendor id is known to all lists,
  one to some and one to none; six entries of `getifaddrs`, of interfaces with and without each field, up, down and the loopback. A list of interfaces or routes may be scanned any number of times; between other lists only the buffer is kept, and it only between hardware lists.
* `Measurements`: two objects in every order and number, counters up to two modulo four, four ticks; a memory of two units; two CPU rows and three CPUs, so the
  row behind the array and the CPU beyond it are met; a ring of four with a graph of three and six samples, so it wraps; a table of six benchmarks that two comparisons of two
  runs overfill.

### Fairness

* `HiTop`: weak fairness of the program's own step. `timeout(1000)` makes every `getch`
  return, so no key is needed for the loop to go on. Nothing is assumed about keys or signals.
  The filter prompt is one step: a user who types on for ever is left out.
* `MemoryPool`: the walk that holds the mutex goes on. Nobody has to call an operation.
* `Profiler`: the sampling thread runs, and a thread that waits for it goes on once it has ended. No thread has to win
  the mutex.

* `HiFetch`: every thread that has begun a call goes on when it can (weak fairness of each). The mutexes are held for
  one or two steps and are free again and again, and main competes with threads that make finitely many calls. Commands end.

`Cache` needs none: `NoLockKept` says of every state that a bucket's mutex is held only by a thread that
is on a path that releases it.

## Proofs

Every invariant and every action property that a passing run checks is also a theorem, for all values of the
constants that the named assumptions allow; `ImplementsMap`, the refinement, is one too. Each proof
has the same form: an inductive invariant, one lemma per action or group of similar actions that preserves it, one theorem
`Spec => []Inv`, and the properties from it. Two techniques recur:

* Sums and counts over data of any length are not unfolded by induction over the data. A count is a cardinality, which
  changes by one when an element comes or goes (`CacheProofs`, `MemoryPoolProofs`, `HiFetchProofs`). A sum along an array is stated
  by its partial sums, a function with `f[0] = 0` and `f[i] = f[i-1] + a[i]` (`MemoryTrackerProofs`).
* Where the code stops at the first thing that fits (a table search, the newest ENTER), the proof takes the least element of a set of numbers, which
  exists because `<` on the naturals is well-founded.

### HiTopProofs

`HiTopProofs` proves, for every array length, page, set of processes, filter and set of terminal heights
allowed by the assumptions of `HiTop` (array and page not empty, pids positive, the empty
filter matches all):

* `TypeCorrect`: `TypeOK`, in particular the cursor and scroll position stay between -1 and
  the last array entry;
* `ListIsExact`: what is shown is what matched, each process once;
* `CursorIsVisible`, `EffectsAreOnProcesses`, and the action property `KeysKeepCursorInList`.

All rest on `Invariance`, `Spec => []IndInv`. `IndInv` adds to `TypeOK` what the properties
take for granted: the filter loop writes at or below where it reads (`LoopBounds`); what it kept together with
the matching part of what is left to read is the matching part of this scan, each once
(`FilterLoop`), which is `ListExact` in the middle of the loop and becomes it at its end
(`Exact`); the entries up to the cursor were filled by some scan (`Filled`), although the
list may have shrunk, which is why no key ever reaches pid 0 (`Targets`); and the drawn rows
reach the cursor (`CursorRow`). There is one lemma per action or group of similar actions, and one step per
conjunct the action can disturb. The sort enters as what `qsort` guarantees: a bijection of the positions.

### CacheProofs

For every finite set of threads, every set of keys, number of buckets and hash function: `TypeCorrect`,
`LocksReleased` (`NoLockKept`), `OneItemPerKey` (`UniqueKeys`), `CountersAreExact` (`CountersExact`), the action property
`SweepSpares` and the refinement `CacheIsMap`. The invariant `CacheInv` rests on the mutexes: who is at work in a bucket
holds its mutex and no other mutex is held (`Locking`), so that what a search has found (`Position`: the item it wants, or that there is none)
stays true until the thread lets go. Without `Position` a set could insert a key that another thread has just inserted. `Operation` types the locals, `InPlace` says
that a key has its item in its own bucket, and one only. `Tallies` and `Counted` say, with the cardinality of the set of places in the chains, that the counters and the chains differ by exactly the
updates that threads still owe; lengths in bytes are counted as sets of bytes, and the wrap of `size_t` is one lemma on sums modulo `SIZE_RANGE`.

`UniqueKeys` and the refinement are properties of keys that fit an item: both name that condition
(`ShortKeys` in the refinement), because a key that is cut is never found again. In the refinement every step of `Cache` is shown to be one of `Ask`, `Put`,
`Answer`, `Vanish` or a stutter of `ExpiringMap`.

`CountersExact` used to be stated of all states, and the proof attempt failed at the get that ends the process
while a thread in *another* bucket is about to count; the instance of the run has one occupied bucket and could not show it. TLC confirmed it with two. The
invariant now speaks of a process that lives.

### MemoryTrackerProofs

For every set of threads, addresses and sizes and every table: `TypeCorrect`, `TableAgrees` (`TableExact`),
`ReallocMoves` (`ReallocMovesTracked`), `LeaksReported` (`ReportComplete`). `OwnerInv` is about ownership: a block that exists is in the hands of one caller or
of one operation (`Owned`), what an operation knows of its blocks at each place (`Locals`), and a block enters the table after it was allocated and leaves it before it is freed (`InTable`). That is why the address of an entry cannot be allocated anew: `tracked_free` takes the entry out before
it frees. `Moved` follows the data through a `tracked_realloc`: until the copy the new block is empty, after it it is filled exactly when the old one was known and full; `Watching` the blocks a report has to show.

### MemoryPoolProofs

For every pool size, set of callers, descriptors and requests: `TypeCorrect`, `GrantsAreSound` (`GrantsSound`), `ListsAreExact`
(`ListsExact`). In `PoolInv`, `Types`, `Walking` and `Fitting` (every descriptor lies in the pool, aligned) hold whatever fails. `Books` holds until a descriptor could
not be allocated: every descriptor has exactly one link to it, links stay on the list the `in_use` flag says and a rank falls along them, so there is no ring
(`Links`, `Side`); descriptors cover disjoint bytes (`Apart`); who holds a part of the pool has a used descriptor of his own, and a used descriptor is held or being given back (`Owned`); and the counter is the number of bytes used descriptors cover
(`Counted`). The walk in progress stands on the list of its operation (`Side`), so that relinking behind it moves a descriptor to the right list. `PoolAssumption` asks for a pool of a multiple of 8 bytes;
sizes are natural numbers, so a request that wraps in the rounding is outside the theorems as it is outside the run.

### ProfilerProofs

For every set of threads, functions, ids and table sizes: `TypeCorrect`, `SamplerGoesFirst`
(`SamplerHasProfiler`), `TimesExact` (`ExactTimes`). `ProfilerInv` adds to the types that only Main's stopping ends the profiling thread, and waits for it (`Lifetime`), who
has the mutex at which place (`Locked`), and, for the times, that until the first sample the events behind `event_count` and in the slot that is being filled are blank (`Blank`) and every open call
that is known to be profiled, of a thread whose id is its own (`Unmistaken`), has its ENTER in the table, and the newest of that function and thread is its own (`Innermost`, `Exact`).

`TypeCorrect` bounds how far `event_count` gets past the table once the sampling thread takes part. Two can add at a time: the thread with the mutex and the sampling thread. Past the table
one of them is about to write there, and two past it both are (`Beyond`); the program ends when one does, before it tests the count again. Until the first sample the count and every loaded index stay within the
table (`Within`).

### HiFetchProofs

For every finite set of threads, set of machines, number of buffers, foreign lines and length of a "second": `TypeCorrect`, `OutputIsOwn` (`OwnOutput`), `OnlyMapped` (`OnlyMappedMemory`),
`RecordsWhole` (`OneGathering`), `RecordsAreDisplayable` (`Displayable`) and the action property `ServedIsFresh` (`ServedFresh`).

* The cache: `CacheInv` adds that nobody is in `get_system_info`
  before `init_fast_cache` and only mapped memory was ever published (`Pointer`), that the two-step copies are made with the mutex
  (`Locked`), that a gathering reads the machine after it read the clock (`Gathering`), that a record is whole when it is
  published or returned and agrees with the cache while it is copied (`Whole`), and that the cache is never older than
  `last_update` says (`CacheFresh`), which is where the time taken *before* gathering matters. For this part the texts of a record are left opaque: the
  argument is about their stamps. It rests on `ClockAssumption` (the program does not run in the first second after
  boot, which is what makes `last_update = 0.0` mean "never").
* The buffers: `CmdInv` tells the buffer of a command from the number of commands begun since (`Near`, `Back`). Two commands of the same buffer are at least
  `NBufs` apart, and before that the ring is not lapped. `Filled` says that the pool is allocated once, so that the buffer at a place is that place's or none, and `Alone` that the fallback is with one command at a time until it is crowded.
* Whose lines: `Mine`. Until two parses overlap, nobody is disturbed and one thread at most is in a parse; then, and while buffers are neither lapped nor shared, both halves of every record, also of the cached one, are of the own lines.
* The texts: `Texts` says of every record, in the cache and in the hands of a thread, that each half is what the gatherers make of this machine, or of foreign lines on it, or still blank before it is
  gathered, so that what is displayed has a text in every field. That it fits is `LineCount` with `LinesAssumption`: 24 lines and one for each of `MAX_GPUS` cards fill the 32 rows
  of `formatted_info`, with none to spare.

### ScansProofs

For every length of lists and arrays, all texts, gateways and latencies: `TypeCorrect`, `DataIsOwn` (`OwnData`), `SummariesAreRight`
(`SummariesRight`). The invariant is `Rows` with, for each phase, what later entries and later lists rely on: `OwnTexts` and `OwnFields` themselves, that every
text in a slot is what the caller left or belongs to an interface that was written to this slot (`Slots`), that the gateway is one of the default routes read or the one from before (`Routing`), and that a sum of latencies lies between the least and the greatest answer
times their number (`Summed`), from which the average does.

### MeasurementsProofs

For every number of rows, slots, CPUs, objects, samples and benchmarks: `TypeCorrect`, `RatesAreOwn` (`OwnRate`), `GraphsOrdered` (`GraphsInOrder`), `UsageIsPercentage`
(`UsageInRange`), `VerdictsRight` (`VerdictRight`). The three parts share no state and have an invariant each. `SamplingInv`: a row of `prev_cpu_times` lies in the past of its CPU, so
that no difference is negative (`RowsBehind`), and the slot d places back in the ring holds the sample d places back (`Recorded`). `RatesInv`: an object is listed once, its slot keeps its
last counter while the listing does not move, and counters and clock only grow (`Once`, `Kept`, `Growing`, `Timed`); the counter is recovered from its value modulo `Width` because it
has grown by less. `BenchInv`: there is room (`Room`), and the durations of both programs are linear in the number of the run with a common offset (`Alike`), which
is why averages that are wrong still compare right.

### Only model-checked

`QuitExits`, `Refreshes`, `WalksEnd`, `StopReturns` and `MainExits` are liveness properties: fairness and `ENABLED` are outside the prover. Some things are definitions of
the models and not theorems about the code: what `qsort` guarantees enters as "a bijection of the positions", and the parsing of a file
as the class of its text.

## Not modelled

Text: the parsing of `/proc` and `/sys`, formatting, colours, ASCII art; `advanced_display.c`, which is nothing else. Byte-level code:
`simd_optimizations.c`, `security.c`, the string helpers of `utils.c`: no state, and every property would be about bytes. `cache_destroy`,
which must not run beside anything else. The stress tests (busy loops), the port scan, the public address and the kernel settings of
`optimize_memory_usage`: single system calls whose results are printed. The resource limits of `main.c`, set once. The reports only read; the
properties say what they would print.

## Plan

Each group of modules has one passing run with all its properties, and the violated runs are the disagreements
that matter most. All safety and action properties are proved. Left:

1. Requests near `SIZE_MAX` in `MemoryPool`, whose rounding to 0 bytes is now outside its bounds.
2. An abstract allocator that `MemoryPool` implements until a descriptor could not be allocated (take free bytes, give them back), proved from `PoolInv` as
   `CacheIsMap` is from `CacheInv`; the same for `SystemInfo` (one fresh record, atomically read).
3. The finer conditions under which exceptions of a property (`resized`, `starved`, `lapped`, `overlapped`) cannot occur, as theorems: for
   example that values of one size never set `resized`.

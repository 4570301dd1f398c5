----------------------------- MODULE Benchmarks -----------------------------
(***************************************************************************)
(* The benchmark table of src/performance.c and compare_with_fastfetch,    *)
(* which times Runs runs of two programs.  start_benchmark appends an      *)
(* entry, end_benchmark closes the FIRST entry of the name: from the       *)
(* second run on a duration counts from the start of the first run.        *)
(***************************************************************************)
EXTENDS Integers, Sequences, FiniteSets, FiniteSetsExt

CONSTANTS
    MaxBenchmarks,      \* MAX_BENCHMARKS
    Runs,               \* runs of each program, 5
    RunTimes,           \* how long a run may take
    MaxComparisons      \* bound: calls of compare_with_fastfetch

ASSUME BenchmarksAssumption == MaxBenchmarks \in Nat /\ Runs \in Nat \ {0} /\ RunTimes \subseteq Nat

Programs == <<"sysfetch_run", "fastfetch_run">>

VARIABLES
    benchmarks,         \* name, start_time, duration; those in use
    clock,
    program, run,       \* where the comparison is; program 0: none is running
    times,              \* sysfetch_times, fastfetch_times
    verdict,            \* what the last comparison returned
    comparisons,
    took                \* history: how long the runs of each program took

bench_vars == <<benchmarks, clock, program, run, times, verdict, comparisons, took>>

Unset == -1             \* an element of the arrays that was never assigned
NoTimes == [p \in 1 .. 2 |-> [i \in 1 .. Runs |-> Unset]]

BenchInit ==
    /\ benchmarks = <<>> /\ clock = 0 /\ program = 0 /\ run = 1
    /\ times = NoTimes /\ verdict = Unset /\ comparisons = 0
    /\ took = [p \in 1 .. 2 |-> {}]

start_benchmark(table, name, t) ==
    IF Len(table) >= MaxBenchmarks THEN table
    ELSE Append(table, [name |-> name, start_time |-> t, duration |-> 0])

(* Mutant: the entry last started is closed, whatever its name, so that    *)
(* the one read afterwards is that of the first run.                       *)
end_last_benchmark(table, name, t) ==
    IF table = <<>> THEN table
    ELSE [table EXCEPT ![Len(table)].duration = t - table[Len(table)].start_time]

Entries(table, name) == {i \in DOMAIN table : table[i].name = name}
end_benchmark(table, name, t) ==
    IF Entries(table, name) = {} THEN table
    ELSE [table EXCEPT ![Min(Entries(table, name))].duration =
              t - table[Min(Entries(table, name))].start_time]

(* The caller may have started other benchmarks before.                    *)
OtherBenchmark ==
    /\ program = 0 /\ comparisons = 0 /\ Len(benchmarks) < MaxBenchmarks
    /\ benchmarks' = start_benchmark(benchmarks, "other", clock)
    /\ UNCHANGED <<clock, program, run, times, verdict, comparisons, took>>

BeginComparison(pause) ==
    /\ program = 0 /\ comparisons < MaxComparisons
    /\ comparisons' = comparisons + 1
    /\ clock' = clock + pause
    /\ benchmarks' = start_benchmark(benchmarks, "sysfetch_total", clock')
    /\ program' = 1 /\ run' = 1
    /\ times' = NoTimes /\ verdict' = Unset
    /\ UNCHANGED took

(* One run, and the first entry of its name is looked up.                  *)
Run(d) ==
    LET name  == Programs[program]
        begun == start_benchmark(benchmarks, name, clock)
        ended == end_benchmark(begun, name, clock + d) IN
    /\ program \in {1, 2}
    /\ benchmarks' = ended
    /\ clock' = clock + d
    /\ times' = IF Entries(ended, name) = {} THEN times
                ELSE [times EXCEPT ![program][run] =
                          ended[Min(Entries(ended, name))].duration]
    /\ took' = [took EXCEPT ![program] = @ \cup {d}]
    /\ run' = IF run = Runs THEN 1 ELSE run + 1
    /\ program' = IF run = Runs THEN program + 1 ELSE program
    /\ UNCHANGED <<verdict, comparisons>>

Total(ts) ==
    LET sum[i \in 0 .. Runs] == IF i = 0 THEN 0 ELSE sum[i - 1] + ts[i]
    IN  sum[Runs]

(* The averages are compared; with an element that was never assigned      *)
(* either outcome is possible.                                             *)
EndComparison(guess) ==
    /\ program = 3 /\ program' = 0
    /\ verdict' = IF \E p \in 1 .. 2 : \E i \in 1 .. Runs : times[p][i] = Unset
                  THEN guess
                  ELSE IF Total(times[1]) < Total(times[2]) THEN 1 ELSE 0
    /\ UNCHANGED <<benchmarks, clock, run, times, comparisons, took>>

BenchNext ==
    \/ OtherBenchmark
    \/ \E pause \in {0} \cup RunTimes : BeginComparison(pause)
    \/ \E d \in RunTimes : Run(d)
    \/ \E guess \in {0, 1} : EndComparison(guess)

BenchTypeOK ==
    /\ Len(benchmarks) <= MaxBenchmarks
    /\ program \in 0 .. 3 /\ run \in 1 .. Runs
    /\ verdict \in {Unset, 0, 1}

Constant(p) == Cardinality(took[p]) = 1
HadRoom == \A p \in 1 .. 2 : Entries(benchmarks, Programs[p]) # {}

(* If every run of a program takes the same time, compare_with_fastfetch   *)
(* returns 1 exactly if sysfetch is the faster: although the durations     *)
(* add up the earlier runs, and in a repeated comparison all that happened *)
(* since the first, both programs are charged alike.  That needs a table   *)
(* with room for the first run of both.                                    *)
VerdictRight ==
    (verdict # Unset /\ HadRoom /\ Constant(1) /\ Constant(2)) =>
        (verdict = 1 <=> Max(took[1]) < Max(took[2]))

=============================================================================

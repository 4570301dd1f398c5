------------------------------ MODULE Sampling ------------------------------
(***************************************************************************)
(* The machine's CPU and memory usage in hitop: get_cpu_info and           *)
(* get_mem_info of src/process.c, the ring buffers they fill and the       *)
(* columns draw_cpu_graph and draw_mem_graph take from them.               *)
(*                                                                         *)
(* A ring buffer holds the number of the sample instead of its value.      *)
(***************************************************************************)
EXTENDS Integers, Sequences, FiniteSets

CONSTANTS
    MaxCores,           \* MAX_CPU_CORES
    Cpus,               \* the CPUs a machine may have
    HistorySize,        \* HISTORY_SIZE
    GraphWidth,         \* GRAPH_WIDTH
    MemTotal,           \* MemTotal of /proc/meminfo
    MaxJiffies,         \* bound: a CPU's time
    MaxSamples          \* bound

ASSUME SamplingAssumption ==
    /\ MaxCores \in Nat \ {0} /\ Cpus \subseteq Nat
    /\ GraphWidth \in 2 .. HistorySize /\ HistorySize \in Nat
    /\ MemTotal \in Nat \ {0}

VARIABLES
    graph,              \* "cpu" or "mem": which of the two is followed
    jiffies,            \* /proc/stat: [work, total] of the machine and the CPUs
    rows,               \* prev_cpu_times
    total_usage, usage, cores,
    meminfo,            \* total and available of MemInfo
    usage_percent,
    history, history_pos,
    samples,            \* samples entered so far
    overrun,            \* history: a row behind the array was used
    online              \* history: the CPUs met

sampling_vars == <<graph, jiffies, rows, total_usage, usage, cores, meminfo,
                   usage_percent, history, history_pos, samples, overrun, online>>

Machine == -1
Zero == [work |-> 0, total |-> 0]
Garbage == {0, 1000}    \* what a row behind the array may give

Rowed(on) == {c \in on : c < MaxCores}

SamplingInit ==
    /\ graph \in {"cpu", "mem"}
    /\ jiffies = [c \in Rowed(Cpus) \cup {Machine} |-> Zero]
    /\ rows = [r \in 0 .. MaxCores - 1 |-> Zero]
    /\ total_usage = 0 /\ usage = [c \in 0 .. MaxCores - 1 |-> 0] /\ cores = 0
    /\ meminfo = [total |-> 0, available |-> 0] /\ usage_percent = 0
    /\ history = [i \in 0 .. HistorySize - 1 |-> 0] /\ history_pos = 0
    /\ samples = 0 /\ overrun = FALSE /\ online = {}

(* update_history.                                                         *)
(* Mutants: the position wraps one slot early, or not at all.              *)
NextPosUnwrapped(pos) == pos + 1
NextPosEarly(pos) == (pos + 1) % (HistorySize - 1)
NextPos(pos) == (pos + 1) % HistorySize
update_history ==
    /\ samples < MaxSamples /\ samples' = samples + 1
    /\ history' = [history EXCEPT ![history_pos] = samples + 1]
    /\ history_pos' = NextPos(history_pos)

(* The CPUs run, or idle, for a while.                                     *)
Elapse(c, work) ==
    /\ graph = "cpu" /\ jiffies[c].total < MaxJiffies
    /\ jiffies' = [jiffies EXCEPT ![c] = [work |-> @.work + work, total |-> @.total + 1]]
    /\ UNCHANGED <<graph, rows, total_usage, usage, cores, meminfo, usage_percent,
                   history, history_pos, samples, overrun, online>>

(* The share of work since the row was written.                            *)
Share(row, t) ==
    IF t.total > row.total THEN (100 * (t.work - row.work)) \div (t.total - row.total) ELSE 0

(* Mutant: CPU n has the row of CPU n - 1, CPU 0 that of the machine.      *)
RowOfBefore(c) == c
RowOf(c) == c + 1

(* get_cpu_info, with the lines of the CPUs in on: those from MaxCores on  *)
(* are passed over, and the row of CPU MaxCores - 1 is not in the array.   *)
get_cpu_info(on, garbage) ==
    /\ graph = "cpu"
    /\ total_usage' = IF rows[0].total > 0 THEN Share(rows[0], jiffies[Machine]) ELSE 0
    /\ usage' = [c \in DOMAIN usage |->
                    IF c \notin on THEN usage[c]
                    ELSE IF RowOf(c) \notin DOMAIN rows THEN garbage
                    ELSE IF rows[RowOf(c)].total > 0 THEN Share(rows[RowOf(c)], jiffies[c])
                    ELSE usage[c]]
    /\ rows' = [r \in DOMAIN rows |->
                    IF \E c \in Rowed(on) : RowOf(c) = r
                    THEN jiffies[CHOOSE c \in Rowed(on) : RowOf(c) = r]
                    ELSE IF r = 0 THEN jiffies[Machine] ELSE rows[r]]
    /\ cores' = IF Rowed(on) = {} THEN 0
                ELSE (CHOOSE c \in Rowed(on) : \A d \in Rowed(on) : d <= c) + 1
    /\ overrun' = (overrun \/ \E c \in Rowed(on) : RowOf(c) \notin DOMAIN rows)
    /\ online' = online \cup on
    /\ update_history
    /\ UNCHANGED <<graph, jiffies, meminfo, usage_percent>>

(* get_mem_info: a line that is missing leaves its field as it was.        *)
get_mem_info(total, available) ==
    /\ graph = "mem"
    /\ meminfo' = [total |-> total,
                   available |-> IF available = -1 THEN meminfo.available ELSE available]
    /\ usage_percent' = IF total > 0 THEN (100 * (total - meminfo'.available)) \div total ELSE 0
    /\ update_history
    /\ UNCHANGED <<graph, jiffies, rows, total_usage, usage, cores, overrun, online>>

SamplingNext ==
    \/ \E c \in Rowed(Cpus) \cup {Machine}, work \in {0, 1} : Elapse(c, work)
    \/ \E on \in SUBSET Cpus, garbage \in Garbage : get_cpu_info(on, garbage)
    \/ \E available \in -1 .. MemTotal : get_mem_info(MemTotal, available)

(* The columns of the two graphs, left to right.                           *)
FirstColumn == (history_pos - GraphWidth + HistorySize) % HistorySize
draw_cpu_graph == [j \in 0 .. GraphWidth - 1 |-> history[(FirstColumn + j) % HistorySize]]
draw_mem_graph == [j \in 0 .. GraphWidth - 3 |-> history[(FirstColumn + j) % HistorySize]]

SamplingTypeOK ==
    /\ history_pos \in 0 .. HistorySize - 1
    /\ \A r \in DOMAIN rows : rows[r].work <= rows[r].total
    /\ cores \in 0 .. MaxCores

(* Column j of a graph of n columns shows this sample, 0 if there was none.*)
Sample(k) == IF k > 0 THEN k ELSE 0

(* The last column of the CPU graph is the newest sample and each column   *)
(* to the left the one before, also when the ring buffer has wrapped.  The *)
(* memory graph, two columns narrower, begins with the same sample: it     *)
(* leaves out the two newest.                                              *)
GraphsInOrder ==
    IF graph = "cpu"
    THEN \A j \in DOMAIN draw_cpu_graph :
            draw_cpu_graph[j] = Sample(samples - (GraphWidth - 1 - j))
    ELSE \A j \in DOMAIN draw_mem_graph :
            draw_mem_graph[j] = Sample(samples - (GraphWidth - 1 - j))

(* Every usage is a percentage, although CPUs come and go between samples, *)
(* and no row behind prev_cpu_times is used, unless CPU MAX_CPU_CORES - 1  *)
(* exists.  Memory, too, if MemAvailable is missing.                       *)
UsageInRange ==
    /\ total_usage \in 0 .. 100 /\ usage_percent \in 0 .. 100
    /\ MaxCores - 1 \notin online => ~overrun /\ \A c \in DOMAIN usage : usage[c] \in 0 .. 100

=============================================================================

---------------------------- MODULE Measurements ----------------------------
(***************************************************************************)
(* What the programs measure over time: rates, the machine's usage and     *)
(* benchmarks.  The parts share no state; a behaviour follows one of them. *)
(***************************************************************************)
EXTENDS Rates, Sampling, Benchmarks

VARIABLE part

vars == <<part, rates_vars, sampling_vars, bench_vars>>

(* The other parts stay in their first state. *)
Init ==
    /\ part \in {"rates", "sampling", "benchmarks"}
    /\ RatesInit /\ SamplingInit /\ BenchInit
    /\ part # "rates" => sampler = "disks"
    /\ part # "sampling" => graph = "cpu"

Next ==
    /\ part' = part
    /\ \/ part = "rates" /\ RatesNext /\ UNCHANGED <<sampling_vars, bench_vars>>
       \/ part = "sampling" /\ SamplingNext /\ UNCHANGED <<rates_vars, bench_vars>>
       \/ part = "benchmarks" /\ BenchNext /\ UNCHANGED <<rates_vars, sampling_vars>>

Spec == Init /\ [][Next]_vars

(* Every variable has its type, and arrays are used within their bounds.   *)
TypeOK == RatesTypeOK /\ SamplingTypeOK /\ BenchTypeOK

=============================================================================

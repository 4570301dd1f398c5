---------------------------- MODULE MC_Profiler ----------------------------
(* Instance of Profiler for TLC: two threads whose ids differ.             *)
EXTENDS Profiler

MCId == [t \in Threads |-> IF t = Main THEN 1 ELSE 2]

=============================================================================

------------------------------ MODULE MC_HiTop ------------------------------
(* Instance of HiTop for TLC: more processes than the array holds, a page  *)
(* of two rows, terminals with no, one and two rows for processes, a       *)
(* filter that hides some of them.                                         *)
EXTENDS HiTop

MCPids == 1 .. 3
MCRows == {4, 7, 8}
MCMatch == [f \in {"", "some"} |-> IF f = "" THEN MCPids ELSE {2, 3}]
MCUser == [p \in MCPids |-> p % 2]
MCCommand == [p \in MCPids |-> -p]

=============================================================================

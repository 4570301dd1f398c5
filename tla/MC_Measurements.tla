--------------------------- MODULE MC_Measurements --------------------------
(* Instance of Measurements for TLC. *)
EXTENDS Measurements

CONSTANTS a, b

=============================================================================

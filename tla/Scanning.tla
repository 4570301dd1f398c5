------------------------------ MODULE Scanning ------------------------------
(***************************************************************************)
(* What the scans of src/hardware.c and src/network.c share: they go       *)
(* through a list, enter what they keep in the next slot of an array, and  *)
(* read small files with read_sysfs_string (src/utils.c), which returns a  *)
(* pointer to one static buffer: every read changes what the pointers of   *)
(* all earlier reads point to.                                             *)
(*                                                                         *)
(* One entry of a list is one step.  What it enters is kept, with the      *)
(* entry it came from, until the next step.  Texts are model values.       *)
(***************************************************************************)
EXTENDS Integers, Sequences, FiniteSets

CONSTANTS
    Texts,              \* what files may hold
    MaxListed,          \* rows of the arrays
    MaxEntries          \* bound: entries of a list

None == "none"                      \* no text was written
Unreadable == "unreadable"          \* open or read fails
Empty == "empty"                    \* read returns no byte
Spaces == "spaces"                  \* nothing is left after trim_string
Nothing == "nothing"                \* the empty string
Number == "number"                  \* a number that nobody asks for again
Files == Texts \cup {Unreadable, Empty, Spaces}

ASSUME ScanAssumption ==
    /\ MaxListed \in Nat /\ MaxEntries \in Nat
    /\ Texts \cap {None, Unreadable, Empty, Spaces, Nothing, Number} = {}

VARIABLES
    phase,              \* the list that is scanned
    sysfs,              \* the static buffer of read_sysfs_string
    count,              \* rows in use
    seen,               \* entries of the list looked at
    last                \* the row the last entry got, with the entry

scan_vars == <<phase, sysfs, count, seen, last>>

NotListed == [of |-> None]

(* The buffer after read_file_fast (and trim_string), and whether          *)
(* read_sysfs_string returns a pointer to it.  A file without a byte       *)
(* leaves the buffer as it was, and counts as read.                        *)
read_file_fast(b, f) == CASE f \in {Unreadable, Empty} -> b
                          [] f = Spaces -> Nothing
                          [] OTHER -> f
read_sysfs_string(b, f) == f # Unreadable /\ read_file_fast(b, f) # Nothing

(* read_sysfs_int and read_sysfs_float: the number in the buffer, or 0.    *)
read_sysfs_number(b, f) == IF read_sysfs_string(b, f) THEN read_file_fast(b, f) ELSE None

(* The next entry of list p; at the end of a list the next one is scanned. *)
Entry(p) == phase = p /\ seen < MaxEntries /\ seen' = seen + 1 /\ phase' = phase
List(row) == last' = row /\ count' = count + 1
Skip == last' = NotListed /\ count' = count
EndOf(p, next) ==
    /\ phase = p /\ phase' = next
    /\ count' = 0 /\ seen' = 0 /\ last' = NotListed

ScanInit == phase = "cpu" /\ sysfs = Nothing /\ count = 0 /\ seen = 0 /\ last = NotListed

=============================================================================

---------------------------- MODULE HiTopProofs ----------------------------
(***************************************************************************)
(* Proofs, for every array length, page, set of processes, filters and     *)
(* terminal heights, of the safety properties of HiTop.                    *)
(***************************************************************************)
EXTENDS HiTop, TLAPS

-----------------------------------------------------------------------------
(* The inductive invariant: TypeOK and the following parts.                *)

(* The locals of get_processes: the filter loop writes at or below where   *)
(* it reads.                                                               *)
LoopBounds ==
    /\ filtered_count <= j /\ j <= scanned
    /\ pc # "filter" => scanned = 0
    /\ pc = "filter" => fresh
    /\ fresh => pc \in {"filter", "sort", "display"}

(* The entries that a scan filled: the list itself, the entries read in    *)
(* this scan, and everything up to the cursor.                             *)
Filled ==
    \A s \in Slots : (s < count \/ s < scanned \/ (s <= selected /\ selected > 0))
                        => processes[s] \in Pids

(* In the filter loop, what was kept and the matching rest of what was     *)
(* read are together the matching processes of this scan, each once.       *)
FilterLoop ==
    pc = "filter" =>
        /\ \A p \in Pids :
             p \in seen /\ p \in Match[filter] <=>
                \/ \E s \in 0 .. filtered_count - 1 : processes[s] = p
                \/ p \in Match[filter] /\ \E s \in j .. scanned - 1 : processes[s] = p
        /\ \A a, b \in (0 .. filtered_count - 1) \cup (j .. scanned - 1) :
             processes[a] = processes[b] => a = b
        /\ filter = NoFilter => j = 0

(* Between the filter loop and the screen the list is exact.               *)
Exact ==
    fresh /\ pc \in {"sort", "display"} =>
        /\ \A p \in Pids : p \in seen /\ p \in Match[filter] <=>
                              \E s \in 0 .. count - 1 : processes[s] = p
        /\ \A a, b \in 0 .. count - 1 : processes[a] = processes[b] => a = b

(* The rows of the screen reach the cursor.                                *)
CursorRow ==
    pc = "input" /\ display_count > 0 =>
        offset <= selected /\ selected < offset + display_count

(* What the dialog and the effects are about.                              *)
Targets ==
    /\ effect # NoEffect => pc = "loop"
    /\ effect # NoEffect /\ selected >= 0 => effect.pid \in Pids
    /\ pc = "kill_dialog" /\ selected >= 0 => target \in Pids

IndInv == TypeOK /\ LoopBounds /\ Filled /\ FilterLoop /\ Exact /\ CursorRow /\ Targets

-----------------------------------------------------------------------------
USE DEF Slots, Entries, Places, plist, locals, screen

(* No effect is an effect.                                                 *)
LEMMA NoEffectType == NoEffect \in Effects
  BY DEF NoEffect, Effects

(* init_hitop establishes the invariant.                                   *)
LEMMA InitInv == Init => IndInv
<1> SUFFICES ASSUME Init PROVE IndInv
  OBVIOUS
<1>1. TypeOK
  <2>1. /\ reverse \in BOOLEAN /\ running \in BOOLEAN /\ show_help \in BOOLEAN
        /\ fresh \in BOOLEAN /\ help_drawn \in BOOLEAN
    BY DEF Init
  <2> QED
    BY <2>1, SizesAssumption, FilterAssumption, NoEffectType
    DEF Init, TypeOK, SORT_CPU
<1>2. LoopBounds /\ FilterLoop /\ Exact /\ CursorRow /\ Targets
  BY DEF Init, LoopBounds, FilterLoop, Exact, CursorRow, Targets, NoEffect
<1>3. Filled
  BY SizesAssumption DEF Init, Filled
<1> QED  BY <1>1, <1>2, <1>3 DEF IndInv

(* main's loop head: leaving, or going on with the list as it is.          *)
LEMMA LoopHeadInv == IndInv /\ (Exit \/ ScanFails) => IndInv'
<1> SUFFICES ASSUME IndInv, Exit \/ ScanFails PROVE IndInv'
  OBVIOUS
<1>1. TypeOK'
  <2>1. help_drawn' \in BOOLEAN
    BY DEF Exit, ScanFails
  <2> QED  BY <2>1, NoEffectType DEF Exit, ScanFails, IndInv, TypeOK
<1>2. LoopBounds' /\ Filled' /\ FilterLoop' /\ CursorRow' /\ Targets'
  BY DEF Exit, ScanFails, IndInv, LoopBounds, Filled, FilterLoop, CursorRow,
         Targets, NoEffect
<1>3. Exact'
  BY DEF Exit, ScanFails, IndInv, TypeOK, LoopBounds, Exact
<1> QED  BY <1>1, <1>2, <1>3 DEF IndInv

(* The readdir loop of get_processes.                                      *)
LEMMA ScanInv == IndInv /\ Scan => IndInv'
<1> SUFFICES ASSUME IndInv, Scan PROVE IndInv'
  OBVIOUS
<1>1. PICK i \in 0 .. MAX_PROCESSES : \E listing \in [0 .. i - 1 -> Pids] :
         /\ \A a, b \in 0 .. i - 1 : a < b => listing[a] < listing[b]
         /\ seen' = Range(listing)
         /\ scanned' = i
         /\ processes' = [s \in Slots |-> IF s < i THEN listing[s] ELSE processes[s]]
  BY DEF Scan, ReadProc
<1>2. PICK listing \in [0 .. i - 1 -> Pids] :
         /\ \A a, b \in 0 .. i - 1 : a < b => listing[a] < listing[b]
         /\ seen' = Range(listing)
         /\ scanned' = i
         /\ processes' = [s \in Slots |-> IF s < i THEN listing[s] ELSE processes[s]]
  BY <1>1
<1>3. TypeOK'
  <2>1. fresh' \in BOOLEAN /\ help_drawn' \in BOOLEAN
    BY DEF Scan, ReadProc
  <2>2. processes' \in [Slots -> Entries] /\ seen' \in SUBSET Pids
    BY <1>2, SizesAssumption DEF IndInv, TypeOK, Range
  <2> QED
    BY <1>2, <2>1, <2>2, SizesAssumption, NoEffectType
    DEF IndInv, TypeOK, Scan, ReadProc
<1>4. LoopBounds'
  BY <1>2, SizesAssumption DEF IndInv, TypeOK, LoopBounds, Scan, ReadProc
<1>5. Filled'
  BY <1>2, SizesAssumption DEF IndInv, TypeOK, LoopBounds, Filled, Scan, ReadProc
<1>6. FilterLoop'
  <2>1. j' = 0 /\ filtered_count' = 0
    BY SizesAssumption DEF IndInv, TypeOK, LoopBounds, Scan, ReadProc
  <2>2. \A s \in 0 .. i - 1 : processes'[s] = listing[s]
    BY <1>2, SizesAssumption
  <2>3. \A p \in Pids : p \in seen' <=> \E s \in 0 .. i - 1 : processes'[s] = p
    BY <1>2, <2>2 DEF Range
  <2>4. \A a, b \in 0 .. i - 1 : processes'[a] = processes'[b] => a = b
    <3> SUFFICES ASSUME NEW a \in 0 .. i - 1, NEW b \in 0 .. i - 1,
                        listing[a] = listing[b], a < b
                 PROVE  FALSE
      BY <2>2
    <3>1. listing[a] < listing[b]
      BY <1>2
    <3>2. listing[a] \in Nat
      BY PidsAssumption
    <3> QED  BY <3>1, <3>2
  <2>5. \A p \in Pids :
          p \in seen' /\ p \in Match[filter] <=>
            \/ \E s \in 0 .. 0 - 1 : processes'[s] = p
            \/ p \in Match[filter] /\ \E s \in 0 .. i - 1 : processes'[s] = p
    BY <2>3
  <2>6. \A a, b \in (0 .. 0 - 1) \cup (0 .. i - 1) :
          processes'[a] = processes'[b] => a = b
    BY <2>4
  <2>7. filter' = filter
    BY DEF Scan, ReadProc
  <2> QED  BY <1>2, <2>1, <2>5, <2>6, <2>7 DEF FilterLoop
<1>7. Exact' /\ CursorRow' /\ Targets'
  BY DEF IndInv, Exact, CursorRow, Targets, Scan, ReadProc, NoEffect
<1> QED  BY <1>3, <1>4, <1>5, <1>6, <1>7 DEF IndInv

(* One turn of the filter loop of get_processes.                           *)
LEMMA FilterEntryInv == IndInv /\ FilterEntry => IndInv'
<1> SUFFICES ASSUME IndInv, FilterEntry PROVE IndInv'
  OBVIOUS
<1>1. /\ filtered_count \in 0 .. MAX_PROCESSES - 1 /\ j \in 0 .. MAX_PROCESSES - 1
      /\ scanned \in 0 .. MAX_PROCESSES /\ filtered_count <= j /\ j < scanned
      /\ processes[j] \in Pids /\ j' = j + 1
      /\ pc = "filter" /\ pc' = "filter" /\ filter # NoFilter
      /\ UNCHANGED <<filter, seen, scanned>>
  BY SizesAssumption DEF IndInv, TypeOK, LoopBounds, Filled, FilterEntry
<1>2. TypeOK'
  BY <1>1, SizesAssumption DEF IndInv, TypeOK, FilterEntry
<1>3. LoopBounds'
  BY <1>1, SizesAssumption DEF IndInv, TypeOK, LoopBounds, FilterEntry
<1>4. Filled'
  BY <1>1, SizesAssumption DEF IndInv, TypeOK, Filled, FilterEntry
<1>5. FilterLoop'
  <2>1. CASE processes[j] \in Match[filter]
    <3>1. /\ processes' = [processes EXCEPT ![filtered_count] = processes[j]]
          /\ filtered_count' = filtered_count + 1
      BY <2>1 DEF FilterEntry
    <3>2. /\ processes'[filtered_count] = processes[j]
          /\ \A s \in Slots : s # filtered_count => processes'[s] = processes[s]
      BY <1>1, <3>1 DEF IndInv, TypeOK
    <3>3. \A p \in Pids :
            p \in seen /\ p \in Match[filter] <=>
              \/ \E s \in 0 .. filtered_count : processes'[s] = p
              \/ p \in Match[filter] /\ \E s \in j + 1 .. scanned - 1 : processes'[s] = p
      BY <1>1, <2>1, <3>2, SizesAssumption DEF IndInv, FilterLoop
    <3>4. \A a, b \in (0 .. filtered_count) \cup (j + 1 .. scanned - 1) :
            processes'[a] = processes'[b] => a = b
      BY <1>1, <3>2, SizesAssumption DEF IndInv, FilterLoop
    <3> QED  BY <1>1, <3>1, <3>3, <3>4 DEF FilterLoop
  <2>2. CASE processes[j] \notin Match[filter]
    <3>1. UNCHANGED <<processes, filtered_count>>
      BY <2>2 DEF FilterEntry
    <3>2. \A p \in Pids :
            p \in seen /\ p \in Match[filter] <=>
              \/ \E s \in 0 .. filtered_count - 1 : processes[s] = p
              \/ p \in Match[filter] /\ \E s \in j + 1 .. scanned - 1 : processes[s] = p
      BY <1>1, <2>2, SizesAssumption DEF IndInv, FilterLoop
    <3>3. \A a, b \in (0 .. filtered_count - 1) \cup (j + 1 .. scanned - 1) :
            processes[a] = processes[b] => a = b
      BY <1>1, SizesAssumption DEF IndInv, FilterLoop
    <3> QED  BY <1>1, <3>1, <3>2, <3>3 DEF FilterLoop
  <2> QED  BY <2>1, <2>2
<1>6. Exact' /\ CursorRow' /\ Targets'
  BY <1>1 DEF IndInv, Exact, CursorRow, Targets, FilterEntry
<1> QED  BY <1>2, <1>3, <1>4, <1>5, <1>6 DEF IndInv

(* The end of the filter loop: the new length of the list.                 *)
LEMMA FilterDoneInv == IndInv /\ FilterDone => IndInv'
<1> SUFFICES ASSUME IndInv, FilterDone PROVE IndInv'
  OBVIOUS
<1>1. TypeOK' /\ LoopBounds'
  BY SizesAssumption DEF IndInv, TypeOK, LoopBounds, FilterDone
<1>2. Filled'
  BY SizesAssumption DEF IndInv, TypeOK, LoopBounds, Filled, FilterDone
<1>3. Exact'
  <2>1. CASE filter = NoFilter
    BY <2>1, FilterAssumption
    DEF IndInv, TypeOK, LoopBounds, FilterLoop, Exact, FilterDone
  <2>2. CASE filter # NoFilter
    BY <2>2 DEF IndInv, TypeOK, LoopBounds, FilterLoop, Exact, FilterDone
  <2> QED  BY <2>1, <2>2
<1>4. FilterLoop' /\ CursorRow' /\ Targets'
  BY DEF IndInv, FilterLoop, CursorRow, Targets, FilterDone
<1> QED  BY <1>1, <1>2, <1>3, <1>4 DEF IndInv

(* qsort of the list.                                                      *)
LEMMA SortInv == IndInv /\ Sort => IndInv'
<1> SUFFICES ASSUME IndInv, Sort PROVE IndInv'
  OBVIOUS
<1>1. PICK perm \in Bijection(0 .. count - 1, 0 .. count - 1) :
        processes' = [s \in Slots |-> IF s < count THEN processes[perm[s]]
                                      ELSE processes[s]]
  BY DEF Sort
<1>2. /\ \A s \in 0 .. count - 1 : perm[s] \in 0 .. count - 1
      /\ \A a, b \in 0 .. count - 1 : perm[a] = perm[b] => a = b
      /\ \A s \in 0 .. count - 1 : \E r \in 0 .. count - 1 : perm[r] = s
  BY <1>1 DEF Bijection, Injection, Surjection, IsInjective
<1>3. count \in 0 .. MAX_PROCESSES /\ count' = count
  BY DEF IndInv, TypeOK, Sort
<1>4. /\ \A s \in 0 .. count - 1 : processes'[s] = processes[perm[s]]
      /\ \A s \in Slots : s >= count => processes'[s] = processes[s]
  BY <1>1, <1>3, SizesAssumption
<1>5. TypeOK'
  <2>1. processes' \in [Slots -> Entries]
    <3>1. ASSUME NEW s \in Slots, s < count PROVE processes[perm[s]] \in Entries
      <4>1. s \in 0 .. count - 1
        BY <1>3, <3>1, SizesAssumption
      <4>2. perm[s] \in Slots
        BY <1>2, <1>3, <4>1, SizesAssumption
      <4> QED  BY <4>2 DEF IndInv, TypeOK
    <3> QED  BY <1>1, <3>1 DEF IndInv, TypeOK
  <2> QED  BY <2>1 DEF IndInv, TypeOK, Sort
<1>6. LoopBounds' /\ FilterLoop' /\ CursorRow' /\ Targets'
  BY DEF IndInv, LoopBounds, FilterLoop, CursorRow, Targets, Sort
<1>7. Filled'
  <2>1. scanned' = scanned /\ scanned = 0 /\ selected' = selected
    BY DEF IndInv, LoopBounds, Sort
  <2>2. \A s \in 0 .. count - 1 : processes'[s] \in Pids
    <3> TAKE s \in 0 .. count - 1
    <3>1. perm[s] \in Slots /\ perm[s] < count
      BY <1>2, <1>3, SizesAssumption
    <3> QED  BY <1>4, <3>1 DEF IndInv, Filled
  <2> QED  BY <1>3, <1>4, <2>1, <2>2, SizesAssumption DEF IndInv, Filled
<1>8. Exact'
  <2> SUFFICES ASSUME fresh
               PROVE  /\ \A p \in Pids : p \in seen /\ p \in Match[filter] <=>
                             \E s \in 0 .. count - 1 : processes'[s] = p
                      /\ \A a, b \in 0 .. count - 1 :
                             processes'[a] = processes'[b] => a = b
    BY <1>3 DEF Exact, Sort
  <2>1. /\ \A p \in Pids : p \in seen /\ p \in Match[filter] <=>
             \E s \in 0 .. count - 1 : processes[s] = p
        /\ \A a, b \in 0 .. count - 1 : processes[a] = processes[b] => a = b
    BY DEF IndInv, Exact, Sort
  <2>2. \A p : (\E s \in 0 .. count - 1 : processes[s] = p)
                 <=> (\E s \in 0 .. count - 1 : processes'[s] = p)
    <3> TAKE p
    <3>1. ASSUME NEW s \in 0 .. count - 1, processes[s] = p
          PROVE  \E r \in 0 .. count - 1 : processes'[r] = p
      <4>1. PICK r \in 0 .. count - 1 : perm[r] = s
        BY <1>2
      <4> QED  BY <1>4, <3>1, <4>1
    <3>2. ASSUME NEW s \in 0 .. count - 1, processes'[s] = p
          PROVE  \E r \in 0 .. count - 1 : processes[r] = p
      BY <1>2, <1>4, <3>2
    <3> QED  BY <3>1, <3>2
  <2>3. \A a, b \in 0 .. count - 1 : processes'[a] = processes'[b] => a = b
    <3> TAKE a, b \in 0 .. count - 1
    <3> HAVE processes'[a] = processes'[b]
    <3>1. processes[perm[a]] = processes[perm[b]]
      BY <1>4
    <3>2. perm[a] = perm[b]
      BY <1>2, <2>1, <3>1
    <3> QED  BY <1>2, <3>2
  <2> QED  BY <2>1, <2>2, <2>3
<1> QED  BY <1>5, <1>6, <1>7, <1>8 DEF IndInv

(* display_processes: the scroll position.                                 *)
LEMMA DisplayInv == IndInv /\ Display => IndInv'
<1> SUFFICES ASSUME IndInv, Display PROVE IndInv'
  OBVIOUS
<1>1. PICK dc \in Int : display_count' = dc /\ offset' = Scrolled(offset, dc)
  <2>1. PICK max_y \in Rows :
          LET dc == IF max_y - 6 > count THEN count ELSE max_y - 6
          IN  display_count' = dc /\ offset' = Scrolled(offset, dc)
    BY DEF Display
  <2>2. max_y \in Nat /\ count \in Nat
    BY RowsAssumption, SizesAssumption DEF IndInv, TypeOK
  <2> QED  BY <2>1, <2>2
<1>2. /\ offset \in -1 .. MAX_PROCESSES - 1 /\ selected \in -1 .. MAX_PROCESSES - 1
      /\ selected' = selected
  BY DEF IndInv, TypeOK, Display
<1>3. offset' \in -1 .. MAX_PROCESSES - 1
  BY <1>1, <1>2, SizesAssumption DEF Scrolled
<1>4. TypeOK'
  <2>1. fresh' \in BOOLEAN /\ help_drawn' \in BOOLEAN
    BY DEF Display, IndInv, TypeOK
  <2> QED  BY <1>1, <1>3, <2>1 DEF IndInv, TypeOK, Display
<1>5. CursorRow'
  BY <1>1, <1>2, SizesAssumption DEF CursorRow, Scrolled
<1>6. LoopBounds' /\ Filled' /\ FilterLoop' /\ Exact' /\ Targets'
  BY DEF IndInv, LoopBounds, Filled, FilterLoop, Exact, Targets, Display
<1> QED  BY <1>4, <1>5, <1>6 DEF IndInv

(* A cursor key: the new row is in the list, or up to the old one.         *)
LEMMA MoveInv ==
    ASSUME IndInv, NEW row \in -1 .. MAX_PROCESSES - 1, MoveTo(row),
           row < count \/ row <= selected \/ row <= 0
    PROVE  IndInv'
<1>1. TypeOK' /\ LoopBounds' /\ FilterLoop' /\ Exact' /\ CursorRow' /\ Targets'
  BY DEF IndInv, TypeOK, LoopBounds, FilterLoop, Exact, CursorRow, Targets, MoveTo
<1>2. Filled'
  BY SizesAssumption DEF IndInv, TypeOK, LoopBounds, Filled, MoveTo
<1> QED  BY <1>1, <1>2 DEF IndInv

LEMMA CursorKeysInv ==
    IndInv /\ (Up \/ Down \/ PageUp \/ PageDown \/ Home \/ End) => IndInv'
<1> SUFFICES ASSUME IndInv, Up \/ Down \/ PageUp \/ PageDown \/ Home \/ End
             PROVE  IndInv'
  OBVIOUS
<1>1. /\ selected \in -1 .. MAX_PROCESSES - 1 /\ count \in 0 .. MAX_PROCESSES
      /\ MAX_PROCESSES \in Nat \ {0} /\ PAGE \in Nat \ {0}
  BY SizesAssumption DEF IndInv, TypeOK
<1>2. \E row \in -1 .. MAX_PROCESSES - 1 :
        MoveTo(row) /\ (row < count \/ row <= selected \/ row <= 0)
  <2>1. CASE Up        BY <1>1, <2>1 DEF Up
  <2>2. CASE Down      BY <1>1, <2>2 DEF Down
  <2>3. CASE PageUp    BY <1>1, <2>3 DEF PageUp
  <2>4. CASE PageDown  BY <1>1, <2>4 DEF PageDown
  <2>5. CASE Home      BY <1>1, <2>5 DEF Home
  <2>6. CASE End       BY <1>1, <2>6 DEF End
  <2> QED  BY <2>1, <2>2, <2>3, <2>4, <2>5, <2>6
<1> QED  BY <1>2, MoveInv

(* The keys that change how the next scan filters and sorts, the help key, *)
(* quitting and signals: the list and the cursor are left alone.           *)
LEMMA OtherKeysInv ==
    IndInv /\ (NoKey \/ Quit \/ ChangeSort \/ Reverse \/ ClearFilter \/ AskFilter
                \/ Help \/ HelpKey) => IndInv'
<1> SUFFICES ASSUME IndInv, NoKey \/ Quit \/ ChangeSort \/ Reverse \/ ClearFilter
                            \/ AskFilter \/ Help \/ HelpKey
             PROVE  IndInv'
  OBVIOUS
<1> USE DEF NoKey, Quit, ChangeSort, Reverse, ClearFilter, AskFilter, Help, HelpKey
<1>1. running' \in BOOLEAN /\ show_help' \in BOOLEAN /\ reverse' \in BOOLEAN
  BY DEF IndInv, TypeOK
<1>2. TypeOK'
  BY <1>1, FilterAssumption DEF IndInv, TypeOK
<1>3. LoopBounds' /\ Filled' /\ FilterLoop' /\ Exact' /\ CursorRow' /\ Targets'
  BY DEF IndInv, LoopBounds, Filled, FilterLoop, Exact, CursorRow, Targets
<1> QED  BY <1>2, <1>3 DEF IndInv

(* The keys that act on the process under the cursor.                      *)
LEMMA ActInv == IndInv /\ (AskKill \/ ConfirmKill \/ CancelKill \/ Renice) => IndInv'
<1> SUFFICES ASSUME IndInv, AskKill \/ ConfirmKill \/ CancelKill \/ Renice
             PROVE  IndInv'
  OBVIOUS
<1> USE DEF AskKill, ConfirmKill, CancelKill, Renice
<1>1. SelectedEntry \subseteq Entries
  BY DEF IndInv, TypeOK, SelectedEntry
<1>2. pc = "input" /\ count > 0 /\ selected >= 0 => SelectedEntry \subseteq Pids
  BY SizesAssumption DEF IndInv, TypeOK, Filled, SelectedEntry
<1>3. /\ effect' \in Effects /\ target' \in Entries
      /\ effect' # NoEffect => pc' = "loop"
      /\ effect' # NoEffect /\ selected >= 0 => effect'.pid \in Pids
      /\ pc' = "kill_dialog" /\ selected >= 0 => target' \in Pids
  <2>1. CASE AskKill
    BY <1>1, <1>2, <2>1 DEF IndInv, TypeOK, Targets
  <2>2. CASE ConfirmKill
    BY <2>2, NoEffectType DEF IndInv, TypeOK, Targets, Effects
  <2>3. CASE CancelKill
    BY <2>3 DEF IndInv, TypeOK, Targets
  <2>4. CASE Renice
    BY <1>1, <1>2, <2>4 DEF IndInv, TypeOK, Targets, Effects
  <2> QED  BY <2>1, <2>2, <2>3, <2>4
<1>4. TypeOK'
  BY <1>3 DEF IndInv, TypeOK
<1>5. LoopBounds' /\ Filled' /\ FilterLoop' /\ Exact' /\ CursorRow'
  BY DEF IndInv, LoopBounds, Filled, FilterLoop, Exact, CursorRow
<1>6. Targets'
  BY <1>3 DEF Targets
<1> QED  BY <1>4, <1>5, <1>6 DEF IndInv

(* Signals, and steps that change nothing.                                 *)
LEMMA SignalInv == IndInv /\ (Signal \/ UNCHANGED vars) => IndInv'
<1> SUFFICES ASSUME IndInv, Signal \/ UNCHANGED vars PROVE IndInv'
  OBVIOUS
<1>1. running' \in BOOLEAN
  BY DEF IndInv, TypeOK, Signal, vars
<1>2. TypeOK'
  BY <1>1 DEF IndInv, TypeOK, Signal, vars
<1>3. LoopBounds' /\ Filled' /\ FilterLoop' /\ Exact' /\ CursorRow' /\ Targets'
  BY DEF IndInv, LoopBounds, Filled, FilterLoop, Exact, CursorRow, Targets,
         Signal, vars
<1> QED  BY <1>2, <1>3 DEF IndInv

-----------------------------------------------------------------------------
(* The invariant holds in every state of hitop's main loop.                *)
THEOREM Invariance == Spec => []IndInv
<1>1. IndInv /\ [Next]_vars => IndInv'
  BY LoopHeadInv, ScanInv, FilterEntryInv, FilterDoneInv, SortInv, DisplayInv,
     CursorKeysInv, OtherKeysInv, ActInv, SignalInv
  DEF Next, Step, HandleInput, Terminated
<1> QED  BY InitInv, <1>1, PTL DEF Spec

(* The cursor, the scroll position and the list length never leave the     *)
(* array of get_processes, except that the first two may be -1.            *)
THEOREM TypeCorrect == Spec => []TypeOK
<1>1. IndInv => TypeOK
  BY DEF IndInv
<1> QED  BY Invariance, <1>1, PTL

(* get_processes hands display_processes exactly the matching processes.   *)
THEOREM ListIsExact == Spec => []ListExact
<1>1. ASSUME IndInv PROVE ListExact
  <2> SUFFICES ASSUME fresh, pc = "display"
               PROVE  {processes[s] : s \in 0 .. count - 1} = seen \cap Match[filter]
    BY <1>1 DEF IndInv, Exact, ListExact
  <2>1. \A p \in Pids : p \in seen /\ p \in Match[filter] <=>
                           \E s \in 0 .. count - 1 : processes[s] = p
    BY <1>1 DEF IndInv, Exact
  <2>2. \A s \in 0 .. count - 1 : processes[s] \in Pids
    BY <1>1, SizesAssumption DEF IndInv, TypeOK, Filled
  <2>3. seen \subseteq Pids
    BY <1>1 DEF IndInv, TypeOK
  <2> QED  BY <2>1, <2>2, <2>3
<1> QED  BY Invariance, <1>1, PTL

(* display_processes keeps a cursor that is in the list on the screen.     *)
THEOREM CursorIsVisible == Spec => []CursorVisible
<1>1. IndInv => CursorVisible
  BY SizesAssumption DEF IndInv, TypeOK, CursorRow, CursorVisible, Drawn
<1> QED  BY Invariance, <1>1, PTL

(* kill and renice never reach pid 0 through a cursor in the array.        *)
THEOREM EffectsAreOnProcesses == Spec => []EffectsOnProcesses
<1>1. IndInv => EffectsOnProcesses
  BY DEF IndInv, Targets, EffectsOnProcesses, NoEffect
<1> QED  BY Invariance, <1>1, PTL

(* No key of handle_input takes a cursor off the list.                     *)
THEOREM KeysKeepCursorInList == Spec => KeysStayInList
<1>1. ASSUME IndInv, [Next]_vars
      PROVE  [pc = "input" /\ selected \in 0 .. count - 1
                => selected' \in 0 .. count - 1]_vars
  <2> SUFFICES ASSUME Next, pc = "input", selected \in 0 .. count - 1
               PROVE  selected' \in 0 .. count - 1
    BY <1>1
  <2>1. count \in Nat /\ selected \in Int /\ PAGE \in Nat
    BY <1>1, SizesAssumption DEF IndInv, TypeOK
  <2>2. CASE Up \/ Down \/ PageUp \/ PageDown \/ Home \/ End
    BY <2>1, <2>2 DEF Up, Down, PageUp, PageDown, Home, End, MoveTo
  <2>3. CASE UNCHANGED selected
    BY <2>3
  <2>4. \/ Up \/ Down \/ PageUp \/ PageDown \/ Home \/ End
        \/ UNCHANGED selected
    BY DEF Next, Step, HandleInput, Exit, ScanFails, Scan, ReadProc, FilterEntry,
           FilterDone, Sort, Display, NoKey, Quit, ChangeSort, Reverse,
           ClearFilter, AskFilter, AskKill, Renice, Help, ConfirmKill,
           CancelKill, HelpKey, Signal, Terminated, vars
  <2> QED  BY <2>2, <2>3, <2>4
<1> QED  BY Invariance, <1>1, PTL DEF Spec, KeysStayInList

=============================================================================

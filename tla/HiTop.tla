------------------------------- MODULE HiTop -------------------------------
(***************************************************************************)
(* The main loop of hitop: main() of src/hitop.c with get_processes(),     *)
(* display_processes(), handle_input() and the dialogs of src/process.c.   *)
(*                                                                         *)
(* One turn of the loop rescans /proc into the fixed array `processes`,    *)
(* drops in place what the filter hides, sorts, draws, and handles one key *)
(* (or the 1 s timeout of getch).  The cursor `selected` and the scroll    *)
(* position `offset` survive from turn to turn, the list under them does   *)
(* not.  A process entry is abstracted to its pid; the percentages, which  *)
(* change from scan to scan, only decide an arbitrary order.               *)
(***************************************************************************)
EXTENDS Integers, Functions

CONSTANTS
    Pids,           \* process ids that may appear in /proc
    MAX_PROCESSES,  \* length of the array `processes`
    PAGE,           \* step of PgUp and PgDn (10 in the code)
    Rows,           \* terminal heights getmaxyx may report
    Filters,        \* filter strings
    NoFilter,       \* the empty filter
    Match,          \* Match[f]: the pids whose command or user contains f
    User,           \* rank of a process' user name under strcmp
    Command         \* rank of a process' command under strcmp

ASSUME PidsAssumption == Pids \subseteq Nat \ {0}
ASSUME SizesAssumption == MAX_PROCESSES \in Nat \ {0} /\ PAGE \in Nat \ {0}
ASSUME RowsAssumption == Rows \subseteq Nat
ASSUME FilterAssumption ==
    /\ NoFilter \in Filters
    /\ Match \in [Filters -> SUBSET Pids]
    /\ Match[NoFilter] = Pids
ASSUME RankAssumption == User \in [Pids -> Int] /\ Command \in [Pids -> Int]

VARIABLES
    processes,      \* plist.processes, 0 in an entry that was never filled
    count,          \* plist.count
    selected,       \* plist.selected
    offset,         \* plist.offset
    sort_by,        \* plist.sort_by
    reverse,        \* plist.reverse
    filter,         \* plist.filter
    running,        \* cleared by `q` and by the signal handler
    show_help,      \* the global flag of the help window
    pc,             \* where the program is
    seen,           \* get_processes: the processes this scan of /proc read
    scanned,        \* get_processes: i, the entries read in this scan
    j,              \* get_processes: next entry the filter loop looks at
    filtered_count, \* get_processes: entries the filter loop kept
    fresh,          \* get_processes: opendir worked, the list is of this turn
    display_count,  \* display_processes: rows for processes, may be negative
    help_drawn,     \* the help window is on the screen
    target,         \* show_kill_dialog: the pid asked about, 0 outside it
    effect          \* what the last key did to another process

plist == <<processes, count, selected, offset, sort_by, reverse, filter>>
locals == <<seen, scanned, j, filtered_count, fresh>>
screen == <<display_count, help_drawn>>
vars == <<plist, locals, screen, running, show_help, pc, target, effect>>

Slots == 0 .. MAX_PROCESSES - 1
Entries == Pids \cup {0}
Effects == [kind : {"none", "kill", "renice"}, pid : Entries]
NoEffect == [kind |-> "none", pid |-> 0]

SORT_PID == 0
SORT_USER == 1
SORT_CPU == 2
SORT_MEM == 3
SORT_COMMAND == 4

-----------------------------------------------------------------------------
(* init_hitop: everything zeroed, sorted by CPU, descending.               *)

Init ==
    /\ processes = [s \in Slots |-> 0]
    /\ count = 0 /\ selected = 0 /\ offset = 0
    /\ sort_by = SORT_CPU /\ reverse = TRUE
    /\ filter = NoFilter
    /\ running = TRUE /\ show_help = FALSE
    /\ pc = "loop"
    /\ seen = {} /\ scanned = 0 /\ j = 0 /\ filtered_count = 0 /\ fresh = FALSE
    /\ display_count = 0 /\ help_drawn = FALSE
    /\ target = 0 /\ effect = NoEffect

-----------------------------------------------------------------------------
(* main: the loop test, then the screen is cleared or given back.          *)

Exit ==
    /\ pc = "loop" /\ ~running
    /\ display_count' = 0 /\ help_drawn' = FALSE
    /\ effect' = NoEffect
    /\ pc' = "exited"
    /\ UNCHANGED <<plist, locals, running, show_help, target>>

(* get_processes: opendir("/proc") fails, the list stays as it is.         *)
ScanFails ==
    /\ pc = "loop" /\ running
    /\ display_count' = 0 /\ help_drawn' = FALSE
    /\ effect' = NoEffect
    /\ pc' = "display"
    /\ UNCHANGED <<plist, locals, running, show_help, target>>

(* get_processes: the readdir loop overwrites the first entries of the     *)
(* array with what can be read of /proc, which the kernel lists by         *)
(* increasing pid, until the array is full.                                *)
ReadProc ==
    /\ pc = "loop"
    /\ \E i \in 0 .. MAX_PROCESSES : \E listing \in [0 .. i - 1 -> Pids] :
         /\ \A a, b \in 0 .. i - 1 : a < b => listing[a] < listing[b]
         /\ seen' = Range(listing)
         /\ scanned' = i
         /\ processes' = [s \in Slots |-> IF s < i THEN listing[s] ELSE processes[s]]
    /\ fresh' = TRUE
    /\ display_count' = 0 /\ help_drawn' = FALSE
    /\ effect' = NoEffect
    /\ pc' = "filter"
    /\ UNCHANGED <<count, selected, offset, sort_by, reverse, filter, j,
                   filtered_count, running, show_help, target>>

(* Mutant: the loop goes on after a quit.                                  *)
ScanForever == ReadProc
Scan == running /\ ReadProc

(* get_processes: one turn of the filter loop.  A kept entry is copied     *)
(* down, the original stays where it was.                                  *)
FilterEntry ==
    /\ pc = "filter" /\ filter # NoFilter /\ j < scanned
    /\ IF processes[j] \in Match[filter]
       THEN /\ processes' = [processes EXCEPT ![filtered_count] = processes[j]]
            /\ filtered_count' = filtered_count + 1
       ELSE UNCHANGED <<processes, filtered_count>>
    /\ j' = j + 1
    /\ UNCHANGED <<count, selected, offset, sort_by, reverse, filter, seen,
                   scanned, fresh, screen, running, show_help, pc, target, effect>>

(* Mutant: the count of the entries read is kept.                          *)
FilterDoneUncounted ==
    /\ pc = "filter" /\ (filter = NoFilter \/ j = scanned)
    /\ count' = scanned
    /\ scanned' = 0 /\ j' = 0 /\ filtered_count' = 0
    /\ pc' = "sort"
    /\ UNCHANGED <<processes, selected, offset, sort_by, reverse, filter, seen,
                   fresh, screen, running, show_help, target, effect>>
FilterDone ==
    /\ pc = "filter"
    /\ \/ filter = NoFilter /\ count' = scanned
       \/ filter # NoFilter /\ j = scanned /\ count' = filtered_count
    /\ scanned' = 0 /\ j' = 0 /\ filtered_count' = 0
    /\ pc' = "sort"
    /\ UNCHANGED <<processes, selected, offset, sort_by, reverse, filter, seen,
                   fresh, screen, running, show_help, target, effect>>

-----------------------------------------------------------------------------
(* compare_processes.  CPU and memory percentages are not modelled: they   *)
(* make any two processes compare either way.                              *)

SortKey(p) == CASE sort_by = SORT_PID -> p
                [] sort_by = SORT_USER -> User[p]
                [] sort_by = SORT_COMMAND -> Command[p]
                [] sort_by \in {SORT_CPU, SORT_MEM} -> 0

NotAfter(p, q) == IF reverse THEN SortKey(p) >= SortKey(q)
                             ELSE SortKey(p) <= SortKey(q)

(* qsort of the first count entries: some permutation in order.            *)
Sort ==
    /\ pc = "sort"
    /\ \E perm \in Bijection(0 .. count - 1, 0 .. count - 1) :
         /\ \A a, b \in 0 .. count - 1 :
              a < b => NotAfter(processes[perm[a]], processes[perm[b]])
         /\ processes' = [s \in Slots |-> IF s < count THEN processes[perm[s]]
                                          ELSE processes[s]]
    /\ pc' = "display"
    /\ UNCHANGED <<count, selected, offset, sort_by, reverse, filter, locals,
                   screen, running, show_help, target, effect>>

-----------------------------------------------------------------------------
(* display_processes, and main's help window on top of it.                 *)

(* Mutant: the row after the last one counts as on the screen.             *)
ScrolledLate(off, dc) ==
    LET down == IF selected > off + dc THEN selected - dc + 1 ELSE off
    IN  IF selected < down THEN selected ELSE down
Scrolled(off, dc) ==
    LET down == IF selected >= off + dc THEN selected - dc + 1 ELSE off
    IN  IF selected < down THEN selected ELSE down

Display ==
    /\ pc = "display"
    /\ \E max_y \in Rows :
         LET dc == IF max_y - 6 > count THEN count ELSE max_y - 6
         IN  /\ display_count' = dc
             /\ offset' = Scrolled(offset, dc)
    /\ help_drawn' = show_help
    /\ seen' = {} /\ fresh' = FALSE
    /\ pc' = "input"
    /\ UNCHANGED <<processes, count, selected, sort_by, reverse, filter, scanned,
                   j, filtered_count, running, show_help, target, effect>>

(* The rows the drawing loop reads: it stops at the end of the list, and   *)
(* nothing stops it before the start.                                      *)
Drawn == {r \in offset .. offset + display_count - 1 : r < count}

-----------------------------------------------------------------------------
(* handle_input: one action per case.                                      *)

(* No key within the second, a key without a case, or F5: nothing happens. *)
NoKey ==
    /\ pc = "input"
    /\ pc' = "loop"
    /\ UNCHANGED <<plist, locals, screen, running, show_help, target, effect>>

Quit ==
    /\ pc = "input"
    /\ running' = FALSE
    /\ pc' = "loop"
    /\ UNCHANGED <<plist, locals, screen, show_help, target, effect>>

MoveTo(row) ==
    /\ pc = "input"
    /\ selected' = row
    /\ pc' = "loop"
    /\ UNCHANGED <<processes, count, offset, sort_by, reverse, filter, locals,
                   screen, running, show_help, target, effect>>

(* Mutants DownPastEnd, PageDownPastEnd: off by one at the end of the list. *)
Up == MoveTo(IF selected > 0 THEN selected - 1 ELSE selected)
DownPastEnd == MoveTo(IF selected < count THEN selected + 1 ELSE selected)
Down == MoveTo(IF selected < count - 1 THEN selected + 1 ELSE selected)
PageUp == MoveTo(IF selected > PAGE THEN selected - PAGE ELSE 0)
PageDownPastEnd ==
    MoveTo(IF selected + PAGE <= count THEN selected + PAGE ELSE count - 1)
PageDown == MoveTo(IF selected + PAGE < count THEN selected + PAGE ELSE count - 1)
Home == MoveTo(0)
End == MoveTo(count - 1)

ChangeSort ==
    /\ pc = "input"
    /\ sort_by' = (sort_by + 1) % 5
    /\ pc' = "loop"
    /\ UNCHANGED <<processes, count, selected, offset, reverse, filter, locals,
                   screen, running, show_help, target, effect>>

Reverse ==
    /\ pc = "input"
    /\ reverse' = ~reverse
    /\ pc' = "loop"
    /\ UNCHANGED <<processes, count, selected, offset, sort_by, filter, locals,
                   screen, running, show_help, target, effect>>

ClearFilter ==
    /\ pc = "input"
    /\ filter' = NoFilter
    /\ pc' = "loop"
    /\ UNCHANGED <<processes, count, selected, offset, sort_by, reverse, locals,
                   screen, running, show_help, target, effect>>

(* filter_processes: the dialog replaces the filter by what was typed.     *)
AskFilter ==
    /\ pc = "input"
    /\ filter' \in Filters
    /\ pc' = "loop"
    /\ UNCHANGED <<processes, count, selected, offset, sort_by, reverse, locals,
                   screen, running, show_help, target, effect>>

(* processes[selected].pid; the entry before the array is whatever memory  *)
(* happens to hold there.                                                  *)
SelectedEntry == IF selected \in Slots THEN {processes[selected]} ELSE Entries

(* `x`: the pid is copied and the dialog waits for an answer.              *)
AskKill ==
    /\ pc = "input" /\ count > 0
    /\ target' \in SelectedEntry
    /\ pc' = "kill_dialog"
    /\ UNCHANGED <<plist, locals, screen, running, show_help, effect>>

(* show_kill_dialog, `y`: SIGTERM to the target, unless it is 0.          *)
ConfirmKill ==
    /\ pc = "kill_dialog"
    /\ effect' = IF target > 0 THEN [kind |-> "kill", pid |-> target] ELSE NoEffect
    /\ target' = 0
    /\ pc' = "loop"
    /\ UNCHANGED <<plist, locals, screen, running, show_help>>

(* show_kill_dialog, any other key or the timeout.                         *)
CancelKill ==
    /\ pc = "kill_dialog"
    /\ target' = 0
    /\ pc' = "loop"
    /\ UNCHANGED <<plist, locals, screen, running, show_help, effect>>

(* `+` and `-`: renice at once, without a dialog and whatever the pid.     *)
Renice ==
    /\ pc = "input" /\ count > 0
    /\ \E pid \in SelectedEntry : effect' = [kind |-> "renice", pid |-> pid]
    /\ pc' = "loop"
    /\ UNCHANGED <<plist, locals, screen, running, show_help, target>>

(* `h`: the flag is flipped; when it is now set, wait for another key.     *)
Help ==
    /\ pc = "input"
    /\ show_help' = ~show_help
    /\ pc' = IF show_help' THEN "help_wait" ELSE "loop"
    /\ UNCHANGED <<plist, locals, screen, running, target, effect>>

(* Mutant: the next key is read without a redraw.                          *)
HelpKeyNoRedraw ==
    /\ pc = "help_wait"
    /\ show_help' = FALSE
    /\ pc' = "input"
    /\ UNCHANGED <<plist, locals, screen, running, target, effect>>
HelpKey ==
    /\ pc = "help_wait"
    /\ show_help' = FALSE
    /\ pc' = "loop"
    /\ UNCHANGED <<plist, locals, screen, running, target, effect>>

-----------------------------------------------------------------------------
(* signal_handler: SIGINT or SIGTERM, between any two steps.               *)
Signal ==
    /\ pc # "exited"
    /\ running' = FALSE
    /\ UNCHANGED <<plist, locals, screen, show_help, pc, target, effect>>

HandleInput == \/ NoKey \/ Quit \/ Up \/ Down \/ PageUp \/ PageDown \/ Home
               \/ End \/ ChangeSort \/ Reverse \/ ClearFilter \/ AskFilter
               \/ AskKill \/ Renice \/ Help

Step == \/ Exit \/ ScanFails \/ Scan \/ FilterEntry \/ FilterDone \/ Sort
        \/ Display \/ HandleInput \/ ConfirmKill \/ CancelKill \/ HelpKey

Terminated == pc = "exited" /\ UNCHANGED vars

Next == Step \/ Signal \/ Terminated

(* The program runs on: every getch returns within its second.             *)
Spec == Init /\ [][Next]_vars /\ WF_vars(Step)

-----------------------------------------------------------------------------
(* Properties.                                                             *)

Places == {"loop", "filter", "sort", "display", "input", "kill_dialog",
           "help_wait", "exited"}

(* Every variable stays in its type: the cursor and the scroll position    *)
(* are never past the array of handle_input and display_processes, though  *)
(* they may stand one before its start.                                    *)
TypeOK ==
    /\ processes \in [Slots -> Entries]
    /\ count \in 0 .. MAX_PROCESSES
    /\ selected \in -1 .. MAX_PROCESSES - 1
    /\ offset \in -1 .. MAX_PROCESSES - 1
    /\ sort_by \in 0 .. 4
    /\ reverse \in BOOLEAN
    /\ filter \in Filters
    /\ running \in BOOLEAN /\ show_help \in BOOLEAN
    /\ pc \in Places
    /\ seen \in SUBSET Pids
    /\ scanned \in 0 .. MAX_PROCESSES
    /\ j \in 0 .. MAX_PROCESSES
    /\ filtered_count \in 0 .. MAX_PROCESSES
    /\ fresh \in BOOLEAN
    /\ display_count \in Int
    /\ help_drawn \in BOOLEAN
    /\ target \in Entries
    /\ effect \in Effects

(* When a scan went through, the list handed to display_processes and then *)
(* to handle_input holds exactly the processes read that match the filter, each     *)
(* once: the in-place filter loop of get_processes loses none, keeps none  *)
(* too many and duplicates none, and qsort keeps them.                     *)
ListExact ==
    fresh /\ pc = "display" =>
        /\ {processes[s] : s \in 0 .. count - 1} = seen \cap Match[filter]
        /\ \A a, b \in 0 .. count - 1 :
             processes[a] = processes[b] => a = b

(* While handle_input waits for a key, a cursor that is on a listed        *)
(* process is on a row display_processes drew, however the list and the    *)
(* terminal changed since the last turn, if there is room for a row.       *)
CursorVisible ==
    pc = "input" /\ display_count > 0 /\ selected \in 0 .. count - 1
        => selected \in Drawn

(* A pid that is signalled or reniced was listed once: a cursor left       *)
(* behind the end of a shrunken list reads a process of an earlier scan,   *)
(* never the zeroed entry (pid 0 is hitop's own process group to renice),  *)
(* as long as the cursor is not before the array.                          *)
EffectsOnProcesses ==
    effect.kind # "none" /\ selected >= 0 => effect.pid \in Pids

(* No key moves a cursor that is on a listed process off the list: the     *)
(* page and cursor arithmetic of handle_input stays in 0 .. count - 1.     *)
KeysStayInList ==
    [][pc = "input" /\ selected \in 0 .. count - 1
         => selected' \in 0 .. count - 1]_vars

(* A quit key or a signal, at whatever moment and in whatever dialog, ends *)
(* the program.                                                            *)
QuitExits == ~running ~> pc = "exited"

(* The screen is redrawn again and again, whatever the user does, until    *)
(* the program ends.                                                       *)
Refreshes == []<>(pc = "display" \/ pc = "exited")

-----------------------------------------------------------------------------
(* What hitop says of itself, and does not do.                             *)

(* "x or Del - Kill selected process" (help text): the process the kill    *)
(* dialog asks about is one of the list, even if the cursor was never      *)
(* moved before the list.                                                  *)
KillTargetListed ==
    pc = "kill_dialog" /\ selected >= 0 => \E s \in 0 .. count - 1 : target = processes[s]

(* "h or F1 - Toggle this help" and "Press any key to close" (help text):  *)
(* while the help key waits for that key, the window is on the screen.     *)
HelpOnScreen == pc = "help_wait" => help_drawn

=============================================================================

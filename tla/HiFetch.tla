------------------------------ MODULE HiFetch -------------------------------
(***************************************************************************)
(* The hifetch program: main of src/main.c, which sets up the command      *)
(* buffers and the cache, gathers the system information and displays it   *)
(* (display_system_info of src/ascii.c), next to other threads of the      *)
(* process that use the same functions.  Those call execute_cmd at any     *)
(* time, and get_system_info once main has initialised the cache.          *)
(***************************************************************************)
EXTENDS SystemInfo

CONSTANTS
    Main,               \* the thread that runs main
    MaxLines            \* rows of formatted_info

(* main gathers once, which runs a command: calls counts it.               *)
ASSUME MainAssumption == Main \in Threads /\ IsFiniteSet(Threads) /\ MaxCommands > 0

(* formatted_info has 32 rows and info->gpu 8.                             *)
ASSUME LinesAssumption == MaxLines \in Nat /\ 24 + MAX_GPUS <= MaxLines

VARIABLES
    main_pc,            \* where main is
    calls,              \* commands and gatherings begun, up to MaxCommands
    running             \* the process has not exited

vars == <<info_vars, cmd_vars, main_pc, calls, running>>

Others == Threads \ {Main}

Init == InfoInit /\ CmdInit /\ main_pc = "start" /\ calls = 1 /\ running = TRUE

MainMoves(from, to) == main_pc = from /\ main_pc' = to

(***************************************************************************)
(* main: optimize_memory_pools, init_fast_cache, get_system_info,          *)
(* display_system_info.                                                    *)
(***************************************************************************)
MainPools ==
    /\ MainMoves("start", "pools")
    /\ OptimizeMemoryPools(Main, "idle")
    /\ UNCHANGED <<info_vars, calls, running>>

MainCache(got) ==
    /\ MainMoves("pools", "cache")
    /\ cmd_pc[Main] = "idle"
    /\ InitFastCache(got)
    /\ UNCHANGED <<cmd_vars, calls, running>>

MainGet ==
    /\ MainMoves("cache", "get")
    /\ GetSystemInfo(Main)
    /\ UNCHANGED <<cmd_vars, calls, running>>

(* The lines display_system_info formats before it prints them; its array  *)
(* has MaxLines rows and no test.  Themes have a line each only if known.  *)
InfoCount(r) ==
    LET themes == {"wm_theme", "gtk_theme", "icon_theme", "font", "cursor_theme"}
        Line(yes) == IF yes THEN 1 ELSE 0 IN
    12 + Cardinality({k \in themes : r.tail.field[k] # Unknown}) + 2 + r.tail.gpu_count
       + 1 + Line(r.head.field.swap # "No swap") + 4 + 2 + 2

(* The end of the process: nothing of its memory is left.                  *)
Exit ==
    /\ main_pc' = "exit" /\ running' = FALSE
    /\ InfoExit /\ CmdExit /\ calls' = 1

MainDisplay == main_pc = "get" /\ pc[Main] = "done" /\ Exit

(* SIGINT, SIGTERM or SIGABRT: signal_handler exits wherever main is.      *)
SignalHandler == Exit

(***************************************************************************)
(* Steps of any thread.                                                    *)
(***************************************************************************)
OtherGets(t) ==
    /\ t \in Others
    /\ mapping # "NULL"
    /\ calls < MaxCommands /\ calls' = calls + 1
    /\ cmd_pc[t] = "idle"
    /\ GetSystemInfo(t)
    /\ UNCHANGED <<cmd_vars, main_pc, running>>

(* cache_command_output, get_public_ip_info and others: run and copy.      *)
OtherCommand(t) ==
    /\ t \in Others /\ pc[t] = "out"
    /\ calls < MaxCommands /\ calls' = calls + 1
    /\ ExecuteCmdFast(t)
    /\ UNCHANGED <<info_vars, main_pc, running>>

OtherReturns(t) ==
    /\ t \in Others
    /\ \/ Return(t) /\ UNCHANGED cmd_vars
       \/ pc[t] = "out" /\ Release(t) /\ UNCHANGED info_vars
    /\ UNCHANGED <<main_pc, calls, running>>

GpuCommand(t) ==
    /\ pc[t] = "gpus"
    /\ ExecuteCmdFast(t)
    /\ UNCHANGED <<info_vars, main_pc, calls, running>>

(* The output is copied at once, that of another command if the buffer was *)
(* taken over; NULL if there was none.                                     *)
GpuLines(t) ==
    /\ Release(t)
    /\ \/ cmd_pc[t] = "nothing" /\ NoGpus(t)
       \/ cmd_pc[t] = "held" /\ BeginGpus(t, text[taken[t]] = ticket[t])
    /\ UNCHANGED <<main_pc, calls, running>>

ThreadStep(t) ==
    \/ GpuCommand(t)
    \/ GpuLines(t)
    \/ InfoStep(t) /\ UNCHANGED <<cmd_vars, main_pc, calls, running>>
    \/ CmdStep(t) /\ UNCHANGED <<info_vars, main_pc, calls, running>>

MainStep ==
    \/ MainPools
    \/ \E got \in {"mapped", "MAP_FAILED"} : MainCache(got)
    \/ MainGet
    \/ MainDisplay
    \/ ThreadStep(Main)

OtherStep(t) == OtherReturns(t) \/ ThreadStep(t)

Next ==
    /\ running
    /\ \/ MainStep
       \/ \E t \in Others : OtherStep(t) \/ OtherGets(t) \/ OtherCommand(t)
       \/ SignalHandler
       \/ Tick /\ UNCHANGED <<cmd_vars, main_pc, calls, running>>

Spec == Init /\ [][Next]_vars

(* Every thread runs on when it can; no one has to call anything, no       *)
(* signal has to come.                                                     *)
FairSpec ==
    /\ Spec
    /\ WF_vars(running /\ MainStep)
    /\ \A t \in Others : WF_vars(running /\ OtherStep(t))

TypeOK ==
    /\ InfoTypeOK /\ CmdTypeOK
    /\ main_pc \in {"start", "pools", "cache", "get", "exit"}
    /\ calls \in 1 .. MaxCommands
    /\ running \in BOOLEAN

(***************************************************************************)
(* Properties.                                                             *)
(***************************************************************************)

(* The lines of every record that can be displayed fit in formatted_info   *)
(* (display_system_info), which has a row for each GPU lspci can list and  *)
(* none to spare for themes.                                               *)
LinesFit == \A t \in Threads : pc[t] = "done" => InfoCount(info[t]) <= MaxLines

(* Every field of a returned record has a text, served or gathered, on a   *)
(* machine whose environment holds no empty variables and whose            *)
(* /proc/meminfo can be read.                                              *)
ShownFieldsFilled ==
    \A t \in Threads :
        (pc[t] = "done" /\ EnvironmentFilled(machine) /\ machine.meminfo # "none")
        => /\ \A x \in DOMAIN info[t].head.field : info[t].head.field[x] # Blank
           /\ \A x \in DOMAIN info[t].tail.field : info[t].tail.field[x] # Blank
           /\ info[t].tail.gpu_count \in 1 .. MAX_GPUS

(* display_system_info can show every record that get_system_info returns, *)
(* served or gathered: its lines fit, and each has its text.               *)
Displayable == LinesFit /\ ShownFieldsFilled

(* hifetch ends: main comes through the two mutexes and the command        *)
(* whatever the other threads do and whichever allocations fail.           *)
MainExits == <>(main_pc = "exit")

=============================================================================

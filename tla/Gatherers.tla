----------------------------- MODULE Gatherers ------------------------------
(***************************************************************************)
(* The gatherers of src/sysinfo.c: what get_system_info writes into a      *)
(* SystemInfo for a given machine.  A machine is a record of what the      *)
(* kernel, the file system and the environment answer; a field is Known    *)
(* (text taken from the machine), one of the texts the code falls back to, *)
(* or Blank.  Formatting is left out.                                      *)
(***************************************************************************)
EXTENDS Integers, Sequences, FiniteSets, FiniteSetsExt

CONSTANTS
    MAX_GPUS,           \* rows of info->gpu
    HeadLines,          \* the lines "head" lets through of lspci's output
    ForeignCounts       \* bound: how many lines not its own strtok may find

ASSUME RowsAssumption ==
    MAX_GPUS \in Nat \ {0} /\ HeadLines \in Nat /\ ForeignCounts \subseteq Nat

Known == "known"
Foreign == "foreign"                \* text out of lines of another thread
Unknown == "Unknown"
Blank == ""
Unset == "unset"                    \* getenv returns NULL
Env == {Unset, Blank, Known}        \* an environment variable
IfSet(e, default) == IF e # Unset THEN e ELSE default

get_hostname(m) == IF m.gethostname THEN Known ELSE "unknown"

(* Only USER is tested for being empty.                                    *)
get_username(m) == IF m.USER = Known THEN Known ELSE "unknown"

get_os_info(m) == IF m.os_release = "named" THEN Known ELSE "Linux"
get_kernel(m) == IF m.uname THEN Known ELSE Unknown
get_uptime(m) == IF m.sysinfo THEN Known ELSE Unknown

(* The text after the last slash, which may be empty.                      *)
get_shell(m) == IfSet(m.SHELL, "unknown")

(* The number of cores and, if either file can be read, the frequency are  *)
(* appended: the field is never blank.                                     *)
get_cpu_info(m) ==
    [model |-> IF m.cpuinfo = "model" THEN Known ELSE "Unknown CPU",
     freq  |-> m.scaling_cur_freq \/ m.cpuinfo_max_freq]

(* /proc/meminfo: not readable, without MemAvailable, or with both and     *)
(* with or without swap.  Not readable, it leaves swap as it was.          *)
get_memory_info(m) == IF m.meminfo \in {"none", "no_available"} THEN Unknown ELSE Known
get_swap_info(m) ==
    CASE m.meminfo = "none" -> Blank
      [] m.meminfo = "swap" -> Known
      [] OTHER              -> "No swap"

(* When another thread parses at the same time, lines may come from its    *)
(* file or from memory it has left.  Of a file that can be read, strtok may *)
(* then find the lines looked for or not: the text is some text, Foreign,  *)
(* but for swap, where no total leaves "No swap".                          *)
foreign_cpu_model(m) == IF m.cpuinfo = "none" THEN get_cpu_info(m).model ELSE Foreign
foreign_memory(m) == IF m.meminfo = "none" THEN get_memory_info(m) ELSE Foreign
foreign_swap(m) == IF m.meminfo = "none" THEN {get_swap_info(m)} ELSE {Foreign, "No swap"}

get_disk_info(m) == IF m.statvfs THEN Known ELSE Unknown

(* The GPU lines of a command's output: those too long for a row are       *)
(* skipped, and without any there is one row, "Unknown GPU".               *)
get_all_gpus(lines) ==
    LET fitting == {i \in DOMAIN lines : lines[i] = "short"} IN
    Max({1, Min({Cardinality(fitting), MAX_GPUS})})

(* Lines that are not those of the command.                                *)
foreign_lines == {[i \in 1 .. n |-> "short"] : n \in ForeignCounts}

(* What "lspci | grep | head" prints.                                      *)
lspci(m) == SubSeq(m.lspci, 1, Min({HeadLines, Len(m.lspci)}))

(* Directory entries; two of /snap are no packages, and a user's flatpaks  *)
(* are looked for only if USER is set.                                     *)
get_packages(m) ==
    LET flatpak == m.flatpak + (IF m.USER # Unset THEN m.user_flatpak ELSE 0) IN
    IF m.pacman > 0 \/ flatpak > 0 \/ m.snap - 2 > 0 THEN Known ELSE Unknown

get_desktop_info(m) ==
    [de |-> IfSet(m.XDG_CURRENT_DESKTOP, IfSet(m.DESKTOP_SESSION, Unknown)),
     wm |-> IF m.WAYLAND_DISPLAY THEN "Wayland" ELSE "X11"]

(* None of the themes and fonts is looked up: the text of each.            *)
(* Mutant: they are.                                                       *)
get_known_themes(m) == Known
get_detailed_theme_info(m) == Unknown

get_terminal_info(m) == IfSet(m.TERM_PROGRAM, IfSet(m.TERMINAL, Unknown))

get_network_info(m) ==
    CASE m.wlan0 = "up" -> "WiFi: Connected"
      [] m.wlan0 # "up" /\ m.eth0 = "up" -> "Ethernet: Connected"
      [] OTHER -> "Network: Disconnected"

(* The first adapter file that can be read decides whether AC is connected.*)
get_battery_info(m) ==
    LET status == IF m.status = "none" THEN Unknown ELSE m.status
        adapters == SelectSeq(m.adapters, LAMBDA a : a # "none")
        ac_connected == adapters # <<>> /\ Head(adapters) = "online" IN
    CASE ~m.capacity -> "No battery"
      [] m.capacity /\ ac_connected /\ status \notin {"Full", "Charging"} -> "AC Connected"
      [] OTHER -> status

get_display_info(m) ==
    IF m.WAYLAND_DISPLAY THEN "Wayland" ELSE IF m.DISPLAY THEN "X11" ELSE "TTY"

get_locale_info(m) == IfSet(m.LANG, Unknown)

(***************************************************************************)
(* The record, in the two halves that are gathered before and after the    *)
(* command of get_all_gpus.                                                *)
(***************************************************************************)
HeadOf(m) ==
    [hostname |-> get_hostname(m), username |-> get_username(m),
     os_name |-> get_os_info(m), kernel |-> get_kernel(m),
     uptime |-> get_uptime(m), shell |-> get_shell(m),
     cpu_model |-> get_cpu_info(m).model, memory |-> get_memory_info(m),
     swap |-> get_swap_info(m), disk |-> get_disk_info(m)]

(* The first half after parsing lines of another thread.                   *)
ForeignHeads(m) ==
    {[HeadOf(m) EXCEPT !.cpu_model = foreign_cpu_model(m), !.memory = foreign_memory(m),
                       !.swap = s] : s \in foreign_swap(m)}

TailOf(m) ==
    [packages |-> get_packages(m), de |-> get_desktop_info(m).de,
     wm |-> get_desktop_info(m).wm,
     wm_theme |-> get_detailed_theme_info(m), gtk_theme |-> get_detailed_theme_info(m),
     icon_theme |-> get_detailed_theme_info(m), font |-> get_detailed_theme_info(m),
     cursor_theme |-> get_detailed_theme_info(m),
     terminal |-> get_terminal_info(m), local_ip |-> get_network_info(m),
     battery |-> get_battery_info(m), display |-> get_display_info(m),
     locale |-> get_locale_info(m)]

(* Variables that are copied without a test for being empty.               *)
EnvironmentFilled(m) ==
    /\ m.SHELL # Blank /\ m.LANG # Blank
    /\ get_desktop_info(m).de # Blank
    /\ get_terminal_info(m) # Blank

=============================================================================

----------------------------- MODULE MC_HiFetch -----------------------------
(* Instance of HiFetch for TLC: main and one more thread, two command      *)
(* buffers, and a machine where almost nothing answers, so that most texts *)
(* are those the gatherers fall back to, but with swap and more graphics   *)
(* cards than head lets through, so that the lines are as many as can be.  *)
EXTENDS HiFetch

MCMachines ==
    {[gethostname |-> FALSE, USER |-> Blank, os_release |-> "no_name", uname |-> FALSE,
      sysinfo |-> FALSE, SHELL |-> Unset, cpuinfo |-> "no_model", scaling_cur_freq |-> FALSE,
      cpuinfo_max_freq |-> FALSE, meminfo |-> "swap", statvfs |-> FALSE,
      lspci |-> <<"short", "long", "short", "short", "short">>, pacman |-> 0, flatpak |-> 0,
      user_flatpak |-> 0, snap |-> 2, XDG_CURRENT_DESKTOP |-> Unset,
      DESKTOP_SESSION |-> Known, WAYLAND_DISPLAY |-> FALSE, DISPLAY |-> FALSE,
      TERM_PROGRAM |-> Unset, TERMINAL |-> Unset, wlan0 |-> "down", eth0 |-> "up",
      capacity |-> TRUE, status |-> "none", adapters |-> <<"none", "offline">>,
      LANG |-> Unset]}

=============================================================================

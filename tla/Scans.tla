------------------------------- MODULE Scans --------------------------------
(***************************************************************************)
(* detect_hardware followed by the scans of the network, by one caller:    *)
(* they share the static buffer of read_sysfs_string.                      *)
(***************************************************************************)
EXTENDS Hardware, NetworkInfo

vars == <<scan_vars, sensor_count, net_vars>>

Init == ScanInit /\ HardwareInit /\ NetInit

Next ==
    \/ HardwareStep /\ UNCHANGED net_vars
    \/ NetworkStep /\ UNCHANGED sensor_count

Spec == Init /\ [][Next]_vars

(* Rows show what was read for their own entry, in every list of           *)
(* detect_hardware and scan_network_interfaces: the shared buffer and the  *)
(* slots that are filled again bring in nothing of another entry, with the *)
(* exceptions that OwnTexts and OwnFields state.                           *)
OwnData == OwnTexts /\ OwnFields

Names == Nics \cup {None, Left}
(* No list grows beyond its array.                                         *)
TypeOK ==
    /\ phase \in {"cpu", "gpu", "network", "audio", "storage", "sensors",
                  "interfaces", "routes", "connections", "dns", "traceroute", "hosts", "done"}
    /\ sysfs \in Texts \cup {Nothing, Number}
    /\ count \in 0 .. MaxListed
    /\ sensor_count \in [SensorArrays -> 0 .. MaxListed]
    /\ seen \in Nat
    /\ interfaces \in [IfaceSlots -> [name : Names, ip : Names, mac : Names,
                                     driver : Names, stats : Names,
                                     is_wireless : BOOLEAN, essid : Names]]
    /\ given \in {None, Left} /\ former \in [IfaceSlots -> SUBSET Nics]
    /\ {default_gateway, gateway_before} \subseteq Gateways \cup {None, Left}
    /\ defaults \subseteq Gateways
    /\ successful_pings \in 0 .. Hosts /\ total_latency \in Nat
    /\ internet_latency \in Int /\ answers \subseteq Latencies

=============================================================================

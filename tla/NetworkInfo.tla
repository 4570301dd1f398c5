---------------------------- MODULE NetworkInfo -----------------------------
(***************************************************************************)
(* The lists of src/network.c: interfaces, routes, connections, name       *)
(* servers and the hops of a route.  A scan sets the count of its list to  *)
(* 0 and clears nothing else: the NetworkInfo holds what its caller or an  *)
(* earlier scan left in it.                                                *)
(***************************************************************************)
EXTENDS Scanning, FiniteSetsExt

CONSTANTS
    Nics,               \* the names of interfaces
    Addresses,          \* what getifaddrs may list, with the files of each
    Gateways,
    Latencies,          \* what ping prints for a time, 0 and -1 (nothing) included
    Hosts               \* hosts a test tries

Left == "left"                      \* text that the caller left

ASSUME NetAssumption ==
    /\ Hosts \in Nat /\ Latencies \subseteq Int
    /\ Addresses \subseteq [name : Nics, up : BOOLEAN, inet : BOOLEAN, address : BOOLEAN,
                            driver : BOOLEAN, wireless : {"no", "yes", "associated"}]
    /\ (Nics \cup Gateways) \cap {None, Left} = {}

VARIABLES
    interfaces,         \* interfaces[i]: slot i of the array
    former,             \* history: former[i]: interfaces that slot i held
    given,              \* history: what the caller left in every text
    default_gateway,
    gateway_before,     \* history: default_gateway when the scan began
    defaults,           \* history: the gateways of the default routes read
    total_latency, successful_pings, internet_latency,
    answers             \* history: the times of the hosts that answered

test_vars == <<total_latency, successful_pings, internet_latency, answers>>
slot_vars == <<interfaces, former, given>>
route_vars == <<default_gateway, gateway_before, defaults>>
net_vars == <<slot_vars, route_vars, test_vars>>

(* A field holds the name of the interface it belongs to.                  *)
IfaceSlots == 0 .. MaxListed - 1
UnscannedInterface(text) ==
    [name |-> text, ip |-> text, mac |-> text, driver |-> text, stats |-> text,
     is_wireless |-> FALSE, essid |-> text]

(* A NetworkInfo that was cleared, or not.                                 *)
NetInit ==
    /\ given \in {None, Left}
    /\ interfaces = [i \in IfaceSlots |-> UnscannedInterface(given)]
    /\ former = [i \in IfaceSlots |-> {}]
    /\ default_gateway = given /\ gateway_before = given
    /\ defaults = {}
    /\ total_latency = 0 /\ successful_pings = 0 /\ answers = {}
    /\ internet_latency = 0

(* get_wireless_info: the name of the network is written only if iwconfig  *)
(* prints one.                                                             *)
get_wireless_info(iface, a) ==
    [iface EXCEPT !.is_wireless = (a.wireless # "no"),
                  !.essid = IF a.wireless = "associated" THEN a.name ELSE @]

(* Every counter is written, with 0 if its file cannot be read.            *)
get_network_statistics(iface) == [iface EXCEPT !.stats = iface.name]

(* scan_network_interfaces: one address of an interface.  The slot is      *)
(* filled before it is known whether the interface is kept, and what is    *)
(* not known of it is not written.                                         *)
(* Mutant: the counters are read before the name is written.               *)
WrittenTo(slot, a) ==
    [slot EXCEPT !.ip = IF a.inet THEN a.name ELSE @,
                 !.mac = IF a.address THEN a.name ELSE @,
                 !.driver = IF a.driver THEN a.name ELSE @]
FilledEarly(a) ==
    LET counted == get_network_statistics(interfaces[count]) IN
    get_wireless_info(WrittenTo([counted EXCEPT !.name = a.name], a), a)
Filled(a) ==
    LET named == [interfaces[count] EXCEPT !.name = a.name] IN
    get_wireless_info(get_network_statistics(WrittenTo(named, a)), a)

(* An entry of getifaddrs without an address changes nothing.  The files   *)
(* read on the way pass through the static buffer and are used at once;    *)
(* the last one is a counter.                                              *)
Kept(a) == a.name # "lo" /\ a.up
Interface(a) ==
    /\ Entry("interfaces") /\ count < MaxListed
    /\ interfaces' = [interfaces EXCEPT ![count] = Filled(a)]
    /\ former' = [former EXCEPT ![count] = @ \cup {a.name}]
    /\ IF Kept(a)
       THEN List([of |-> "interfaces", entry |-> a, iface |-> Filled(a),
                  former |-> former[count]])
       ELSE Skip
    /\ sysfs' = Number
    /\ UNCHANGED <<given, route_vars, test_vars>>

(* scan_routing_table: a line of /proc/net/route.  The gateway of the last *)
(* default route is kept.                                                  *)
(* Mutant: that of the last route is.                                      *)
RouteGatewayAny(r) == r.gateway
RouteGateway(r) == IF r.destination = 0 THEN r.gateway ELSE default_gateway
RouteLine(r) ==
    /\ Entry("routes") /\ count < MaxListed
    /\ IF r.parses
       THEN /\ List([of |-> "routes", is_default |-> r.destination = 0])
            /\ default_gateway' = RouteGateway(r)
            /\ defaults' = IF r.destination = 0 THEN defaults \cup {r.gateway} ELSE defaults
       ELSE Skip /\ UNCHANGED <<default_gateway, defaults>>
    /\ UNCHANGED <<sysfs, slot_vars, gateway_before, test_vars>>

(* scan_active_connections: a line of /proc/net/tcp, with the state's      *)
(* number; 1 is ESTABLISHED, 10 is LISTEN.                                 *)
ConnectionLine(parses, state) ==
    /\ Entry("connections") /\ count < MaxListed
    /\ IF parses
       THEN List([of |-> "connections",
                  state |-> CASE state = 1 -> "ESTABLISHED" [] state = 10 -> "LISTEN"
                              [] state \in 2 .. 9 \cup {11} -> "OTHER"
                              [] OTHER -> "UNKNOWN"])
       ELSE Skip
    /\ UNCHANGED <<sysfs, net_vars>>

(* ping_host: the number the command prints, -1 if it prints nothing; a    *)
(* time of 0 counts as no answer.  resolve_hostname succeeds or not, and   *)
(* its time is positive.                                                   *)
Answered(latency) == latency > 0

(* detect_dns_servers: a nameserver line is listed and pinged.             *)
ResolvLine(nameserver, latency) ==
    /\ Entry("dns") /\ count < MaxListed
    /\ IF nameserver THEN List([of |-> "dns", is_working |-> Answered(latency)]) ELSE Skip
    /\ UNCHANGED <<sysfs, net_vars>>

(* run_traceroute: the header and lines without a hop or an address leave  *)
(* the count.  Of the three words after the address those with "ms" in     *)
(* them are taken for times; the number is the word before.                *)
TracerouteLine(line, words) ==
    /\ Entry("traceroute") /\ count < MaxListed
    /\ IF line = "hop"
       THEN List([of |-> "traceroute", hop |-> count + 1,
                  rtt_ms |-> [i \in 1 .. 3 |-> IF words[i] = "ms" THEN 0 ELSE -1]])
       ELSE Skip
    /\ UNCHANGED <<sysfs, net_vars>>

(* test_internet_connectivity and test_dns_resolution: the mean over the   *)
(* hosts that answered.                                                    *)
(* Mutant: over all hosts.                                                 *)
TestHost(latency) ==
    /\ phase = "hosts" /\ seen < Hosts /\ seen' = seen + 1
    /\ total_latency' = total_latency + (IF Answered(latency) THEN latency ELSE 0)
    /\ successful_pings' = successful_pings + (IF Answered(latency) THEN 1 ELSE 0)
    /\ answers' = IF Answered(latency) THEN answers \cup {latency} ELSE answers
    /\ UNCHANGED <<phase, sysfs, count, last, slot_vars, route_vars, internet_latency>>
MeanOfAll == IF successful_pings > 0 THEN total_latency \div Hosts ELSE -1
Mean == IF successful_pings > 0 THEN total_latency \div successful_pings ELSE -1
EndOfTest ==
    /\ seen = Hosts /\ EndOf("hosts", "done")
    /\ internet_latency' = Mean
    /\ UNCHANGED <<sysfs, slot_vars, route_vars, total_latency, successful_pings, answers>>

Routes == [parses : BOOLEAN, destination : {0, 1}, gateway : Gateways]
Hops == {<<"number", "ms", "number">>, <<"star", "star", "star">>}

NetworkStep ==
    \/ \E a \in Addresses : Interface(a)
    \/ \E r \in Routes : RouteLine(r)
    \/ \E parses \in BOOLEAN, state \in 0 .. 12 : ConnectionLine(parses, state)
    \/ \E nameserver \in BOOLEAN, latency \in Latencies : ResolvLine(nameserver, latency)
    \/ \E line \in {"header", "hop", "short"}, words \in Hops : TracerouteLine(line, words)
    \/ \E latency \in Latencies : TestHost(latency)
    \/ EndOfTest
    \/ /\ \/ EndOf("connections", "dns") \/ EndOf("dns", "traceroute")
          \/ EndOf("traceroute", "hosts")
       /\ UNCHANGED <<sysfs, net_vars>>
    (* The interfaces are scanned again, into the same slots, or the routes  *)
    (* are next; these do not use the slots, and what is in them is dropped. *)
    \/ /\ \/ EndOf("interfaces", "interfaces") /\ UNCHANGED <<interfaces, former>>
          \/ /\ EndOf("interfaces", "routes")
             /\ interfaces' = [i \in IfaceSlots |-> UnscannedInterface(given)]
             /\ former' = [i \in IfaceSlots |-> {}]
       /\ UNCHANGED <<sysfs, given, route_vars, test_vars>>
    (* Routes scanned again keep the gateway; the next lists do not use it.  *)
    \/ /\ \/ EndOf("routes", "routes") /\ UNCHANGED default_gateway
          \/ EndOf("routes", "connections") /\ default_gateway' = given
       /\ gateway_before' = default_gateway' /\ defaults' = {}
       /\ UNCHANGED <<sysfs, slot_vars, test_vars>>

(***************************************************************************)
(* Properties.                                                             *)
(***************************************************************************)

(* A listed interface is shown with its own name and counters, and with    *)
(* its own address, driver and network as far as it has them.  What it has *)
(* not is not cleared (scan_network_interfaces): there it shows what the   *)
(* caller left, or what belongs to an interface that had the very slot     *)
(* before, in an earlier scan or in this one without being listed (the     *)
(* loopback, one that is down); to none of any other slot.                 *)
Has(a, x) == CASE x = "ip" -> a.inet [] x = "mac" -> a.address [] x = "driver" -> a.driver
               [] x = "essid" -> a.wireless = "associated" [] x \in {"name", "stats"} -> TRUE
OwnFields ==
    last.of = "interfaces" =>
        /\ last.iface.is_wireless = (last.entry.wireless # "no")
        /\ \A x \in {"name", "ip", "mac", "driver", "stats", "essid"} :
             last.iface[x] \in IF Has(last.entry, x) THEN {last.entry.name}
                              ELSE {given} \cup last.former

(* The gateway shown is that of a default route the scan read, that is, of *)
(* those in the first rows the table has place for; a default route after  *)
(* them is not shown.  Without one, the gateway that an earlier scan or    *)
(* the caller left stays there (scan_routing_table clears nothing).        *)
GatewayOfDefault ==
    IF defaults = {} THEN default_gateway = gateway_before ELSE default_gateway \in defaults

(* The latency shown lies between those of the hosts that answered, however *)
(* many did not, and is -1 only if none did.                               *)
LatencyOfAnswers ==
    phase = "done" =>
        IF answers = {} THEN internet_latency = -1
        ELSE internet_latency \in Min(answers) .. Max(answers)

(* The two fields that sum up a list (scan_routing_table,                  *)
(* test_internet_connectivity) are about the entries that count in it,     *)
(* whatever other entries come before, between or after them, and however  *)
(* often the list is scanned.                                              *)
SummariesRight == GatewayOfDefault /\ LatencyOfAnswers

=============================================================================

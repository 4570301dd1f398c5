---------------------------- MODULE ScansProofs ----------------------------
(***************************************************************************)
(* Proofs, for every length of the lists and the arrays, all texts, all    *)
(* gateways and all latencies, that the scans stay within their arrays,    *)
(* show data of their own entries and sum up the lists right.              *)
(***************************************************************************)
EXTENDS Scans, WellFoundedInduction, TLAPS

-----------------------------------------------------------------------------
(* The inductive invariant.                                                *)

Buffers == Texts \cup {Nothing, Number}
HardwareLists == {"cpu", "gpu", "network", "audio", "storage", "sensors"}
NetworkLists == {"interfaces", "routes", "connections", "dns", "traceroute", "hosts", "done"}

Rows ==
    /\ phase \in HardwareLists \cup NetworkLists
    /\ sysfs \in Buffers
    /\ count \in 0 .. MaxListed
    /\ seen \in Nat
    /\ sensor_count \in [SensorArrays -> 0 .. MaxListed]

Rows1 == [name : Names, ip : Names, mac : Names, driver : Names, stats : Names,
          is_wireless : BOOLEAN, essid : Names]

TextFields == {"name", "ip", "mac", "driver", "stats", "essid"}

(* What a slot holds is what the caller left, or of an interface it held.  *)
Slots ==
    /\ interfaces \in [IfaceSlots -> Rows1] /\ former \in [IfaceSlots -> SUBSET Nics]
    /\ given \in {None, Left}
    /\ \A i \in IfaceSlots, x \in TextFields : interfaces[i][x] \in {given} \cup former[i]

Routing == /\ {default_gateway, gateway_before} \subseteq Gateways \cup {None, Left}
           /\ defaults \subseteq Gateways
           /\ GatewayOfDefault

(* The sum lies between the bounds of the answers times their number.      *)
Summed ==
    /\ total_latency \in Nat /\ successful_pings \in 0 .. Hosts /\ answers \subseteq Latencies
    /\ successful_pings = 0 <=> answers = {}
    /\ \A x \in answers : x \in Nat /\ x > 0 /\ x <= total_latency
    /\ \A low \in Nat : (\A x \in answers : low <= x) => low * successful_pings <= total_latency
    /\ \A high \in Nat : (\A x \in answers : x <= high) => total_latency <= high * successful_pings

(* The test of the hosts is the last list.                                 *)
Testing ==
    /\ phase \notin {"hosts", "done"} => total_latency = 0 /\ successful_pings = 0 /\ answers = {}
    /\ phase = "hosts" => successful_pings <= seen /\ seen <= Hosts
    /\ phase = "done" => internet_latency = Mean
    /\ internet_latency \in Int

ScansInv == Rows /\ OwnTexts /\ OwnFields /\ Slots /\ Routing /\ Summed /\ Testing

-----------------------------------------------------------------------------
(* The buffer.                                                             *)

(* A file that is not empty is shown by its own text or not at all,        *)
(* whatever the buffer held.                                               *)
LEMMA Reads ==
    ASSUME NEW b, NEW f \in Files, f # Empty
    PROVE  /\ read_sysfs_string(b, f) <=> f \in Texts
           /\ f \in Texts => read_file_fast(b, f) = f
           /\ read_sysfs_number(b, f) = Text(f)
<1>1. CASE f \in Texts
  <2>1. f \notin {Unreadable, Empty, Spaces, Nothing}
    BY <1>1, ScanAssumption
  <2> QED  BY <1>1, <2>1 DEF read_sysfs_string, read_file_fast, read_sysfs_number, Text
<1>2. CASE f \notin Texts
  <2>1. f = Unreadable \/ f = Spaces
    BY <1>2 DEF Files
  <2>2. ~read_sysfs_string(b, f)
    BY <2>1 DEF read_sysfs_string, read_file_fast, Spaces, Unreadable, Empty
  <2> QED  BY <1>2, <2>2 DEF read_sysfs_number, Text
<1> QED  BY <1>1, <1>2

LEMMA BufferTyped ==
    ASSUME NEW b \in Buffers, NEW f \in Files
    PROVE  read_file_fast(b, f) \in Buffers
  BY DEF read_file_fast, Buffers, Files

-----------------------------------------------------------------------------
(* The hardware lists.                                                     *)

(* What every one of them leaves to the lists of the network.              *)
Ends == /\ phase \in HardwareLists /\ phase' \in HardwareLists \cup {"interfaces"}
        /\ last'.of \in {None, "gpu", "network", "audio", "storage", "sensors"}

LEMMA NetworkCardKeeps ==
    ASSUME Rows, NEW c \in NetworkCards, NetworkCard(c), UNCHANGED sensor_count
    PROVE  Rows' /\ OwnTexts' /\ Ends
<1>1. PICK b1, b2 : b1 = read_file_fast(sysfs, c.vendor) /\ b2 = read_file_fast(b1, c.device)
  OBVIOUS
<1>2. /\ c.vendor \in Files /\ c.device \in Files /\ c.speed \in Files
      /\ DOMAIN c = {"device_dir", "vendor", "device", "speed"}
  BY DEF NetworkCards
<1>3. /\ Entry("network") /\ count < MaxListed
      /\ sysfs' = IF c.device_dir = "yes" THEN read_file_fast(b2, c.speed) ELSE sysfs
  BY <1>1 DEF NetworkCard
<1>4. \/ /\ count' = count + 1 /\ last'.of = "network" /\ last'.entry = c
         /\ last'.speed = read_sysfs_number(b2, c.speed)
      \/ last' = NotListed /\ count' = count
  BY <1>1 DEF NetworkCard, List, Skip
<1>5. Rows'
  <2>1. b1 \in Buffers
    BY <1>1, <1>2, BufferTyped DEF Rows
  <2>2. b2 \in Buffers
    BY <1>1, <1>2, <2>1, BufferTyped
  <2>3. sysfs' \in Buffers
    BY <1>2, <1>3, <2>2, BufferTyped DEF Rows
  <2> QED  BY <1>3, <1>4, <2>3, ScanAssumption DEF Rows, Entry
<1>6. OwnTexts'
  <2>0. last'.of = "network" \/ last'.of = "none"
    BY <1>4 DEF NotListed, None
  <2> SUFFICES ASSUME last'.of = "network", Written(last'.entry)
               PROVE  last'.speed = Text(last'.entry.speed)
    BY <2>0 DEF OwnTexts
  <2>1. last'.entry = c /\ last'.speed = read_sysfs_number(b2, c.speed)
    BY <1>4 DEF NotListed, None
  <2>2. c.speed # Empty
    BY <1>2, <2>1 DEF Written
  <2> QED  BY <1>2, <2>1, <2>2, Reads
<1> QED  BY <1>3, <1>4, <1>5, <1>6 DEF Ends, Entry, HardwareLists, NotListed

LEMMA AudioCardKeeps ==
    ASSUME Rows, NEW c \in AudioCards, AudioCard(c), UNCHANGED sensor_count
    PROVE  Rows' /\ OwnTexts' /\ Ends
<1>1. PICK b1, b2 : b1 = read_file_fast(sysfs, c.id) /\ b2 = read_file_fast(b1, c.vendor)
  OBVIOUS
<1>2. c.id \in Files /\ c.vendor \in Files /\ DOMAIN c = {"id", "vendor"}
  BY DEF AudioCards
<1>3. /\ Entry("audio") /\ count < MaxListed /\ (sysfs' = b1 \/ sysfs' = b2)
  BY <1>1 DEF AudioCard
<1>4. \/ /\ read_sysfs_string(sysfs, c.id)
         /\ count' = count + 1 /\ last'.of = "audio" /\ last'.entry = c /\ last'.model = b1
         /\ last'.vendor = IF read_sysfs_string(b1, c.vendor) THEN Vendor("audio", b2) ELSE None
      \/ last' = NotListed /\ count' = count
  BY <1>1 DEF AudioCard, AudioRow, List, Skip
<1>5. Rows'
  <2>1. b1 \in Buffers
    BY <1>1, <1>2, BufferTyped DEF Rows
  <2>2. b2 \in Buffers
    BY <1>1, <1>2, <2>1, BufferTyped
  <2> QED  BY <1>3, <1>4, <2>1, <2>2, ScanAssumption DEF Rows, Entry
<1>6. OwnTexts'
  <2>0. last'.of = "audio" \/ last'.of = "none"
    BY <1>4 DEF NotListed, None
  <2> SUFFICES ASSUME last'.of = "audio", Written(last'.entry)
               PROVE  /\ last'.model = Text(last'.entry.id)
                      /\ last'.vendor = NamedVendor("audio", last'.entry.vendor)
    BY <2>0 DEF OwnTexts
  <2>1. /\ last'.entry = c /\ last'.model = b1 /\ read_sysfs_string(sysfs, c.id)
        /\ last'.vendor = IF read_sysfs_string(b1, c.vendor) THEN Vendor("audio", b2) ELSE None
    BY <1>4 DEF NotListed, None
  <2>2. c.id # Empty /\ c.vendor # Empty
    BY <1>2, <2>1 DEF Written
  <2>3. c.id \in Texts /\ b1 = c.id
    BY <1>1, <1>2, <2>1, <2>2, Reads
  <2>4. /\ read_sysfs_string(b1, c.vendor) <=> c.vendor \in Texts
        /\ c.vendor \in Texts => b2 = c.vendor
    BY <1>1, <1>2, <2>2, Reads
  <2> QED  BY <2>1, <2>3, <2>4 DEF Text, NamedVendor
<1> QED  BY <1>3, <1>4, <1>5, <1>6 DEF Ends, Entry, HardwareLists, NotListed

LEMMA BlockDeviceKeeps ==
    ASSUME Rows, NEW d \in BlockDevices, BlockDevice(d), UNCHANGED sensor_count
    PROVE  Rows' /\ OwnTexts' /\ Ends
<1>1. PICK b1, b2 : b1 = read_file_fast(sysfs, d.model) /\ b2 = read_file_fast(b1, d.vendor)
  OBVIOUS
<1>2. /\ d.model \in Files /\ d.vendor \in Files /\ d.rotational \in Files
      /\ DOMAIN d = {"name", "model", "vendor", "rotational"}
  BY DEF BlockDevices
<1>3. /\ Entry("storage") /\ count < MaxListed
      /\ sysfs' \in {sysfs, b1, read_file_fast(b2, d.rotational)}
  BY <1>1 DEF BlockDevice, BlockDeviceUnbounded
<1>4. \/ /\ read_sysfs_string(sysfs, d.model)
         /\ count' = count + 1 /\ last'.of = "storage" /\ last'.entry = d /\ last'.model = b1
         /\ last'.vendor = IF read_sysfs_string(b1, d.vendor) THEN b2 ELSE None
         /\ last'.rotational = read_sysfs_number(b2, d.rotational)
      \/ last' = NotListed /\ count' = count
  BY <1>1 DEF BlockDevice, BlockDeviceUnbounded, List, Skip
<1>5. Rows'
  <2>1. b1 \in Buffers
    BY <1>1, <1>2, BufferTyped DEF Rows
  <2>2. b2 \in Buffers
    BY <1>1, <1>2, <2>1, BufferTyped
  <2>3. sysfs' \in Buffers
    BY <1>2, <1>3, <2>1, <2>2, BufferTyped DEF Rows
  <2> QED  BY <1>3, <1>4, <2>3, ScanAssumption DEF Rows, Entry
<1>6. OwnTexts'
  <2>0. last'.of = "storage" \/ last'.of = "none"
    BY <1>4 DEF NotListed, None
  <2> SUFFICES ASSUME last'.of = "storage", Written(last'.entry)
               PROVE  /\ last'.model = Text(last'.entry.model)
                      /\ last'.vendor = Text(last'.entry.vendor)
                      /\ last'.rotational = Text(last'.entry.rotational)
    BY <2>0 DEF OwnTexts
  <2>1. /\ last'.entry = d /\ last'.model = b1 /\ read_sysfs_string(sysfs, d.model)
        /\ last'.vendor = IF read_sysfs_string(b1, d.vendor) THEN b2 ELSE None
        /\ last'.rotational = read_sysfs_number(b2, d.rotational)
    BY <1>4 DEF NotListed, None
  <2>2. d.model # Empty /\ d.vendor # Empty /\ d.rotational # Empty
    BY <1>2, <2>1 DEF Written
  <2>3. d.model \in Texts /\ b1 = d.model
    BY <1>1, <1>2, <2>1, <2>2, Reads
  <2>4. /\ read_sysfs_string(b1, d.vendor) <=> d.vendor \in Texts
        /\ d.vendor \in Texts => b2 = d.vendor
        /\ read_sysfs_number(b2, d.rotational) = Text(d.rotational)
    BY <1>1, <1>2, <2>2, Reads
  <2> QED  BY <2>1, <2>3, <2>4 DEF Text
<1> QED  BY <1>3, <1>4, <1>5, <1>6 DEF Ends, Entry, HardwareLists, NotListed

LEMMA SensorKeeps ==
    ASSUME Rows, NEW s \in Sensors, Sensor(s)
    PROVE  Rows' /\ OwnTexts' /\ Ends
<1>1. PICK b1, b2, n : /\ b1 = read_file_fast(sysfs, s.value) /\ b2 = read_file_fast(b1, s.label)
                       /\ n = sensor_count[Array(s)]
  OBVIOUS
<1>2. /\ s.value \in Files /\ s.label \in Files /\ DOMAIN s = {"kind", "value", "label"}
      /\ s.kind \in {"temp", "fan", "in", "power"}
      /\ Array(s) \in SensorArrays /\ (s.kind # "power" => Array(s) = s.kind)
  BY DEF Sensors, Array, SensorArrays
<1>3. /\ Entry("sensors") /\ count' = count
      /\ \/ /\ n < MaxListed /\ sysfs' = b2
            /\ sensor_count' = [sensor_count EXCEPT ![Array(s)] = n + 1]
            /\ last'.of = "sensors" /\ last'.entry = s /\ last'.array = Array(s)
            /\ last'.value = read_sysfs_number(sysfs, s.value)
            /\ last'.label = IF read_sysfs_string(b1, s.label) THEN b2 ELSE None
         \/ last' = NotListed /\ UNCHANGED <<sysfs, sensor_count>>
  BY <1>1 DEF Sensor
<1>4. Rows'
  <2>1. b1 \in Buffers
    BY <1>1, <1>2, BufferTyped DEF Rows
  <2>2. b2 \in Buffers
    BY <1>1, <1>2, <2>1, BufferTyped
  <2>3. n \in 0 .. MaxListed /\ (n < MaxListed => n + 1 \in 0 .. MaxListed)
    BY <1>1, <1>2, ScanAssumption DEF Rows
  <2>4. sensor_count' \in [SensorArrays -> 0 .. MaxListed]
    BY <1>2, <1>3, <2>3 DEF Rows
  <2> QED  BY <1>3, <2>2, <2>4 DEF Rows, Entry
<1>5. OwnTexts'
  <2>0. last'.of = "sensors" \/ last'.of = "none"
    BY <1>3 DEF NotListed, None
  <2> SUFFICES ASSUME last'.of = "sensors", Written(last'.entry)
               PROVE  /\ last'.value = Text(last'.entry.value)
                      /\ last'.label = Text(last'.entry.label)
                      /\ last'.entry.kind # "power" => last'.array = last'.entry.kind
    BY <2>0 DEF OwnTexts
  <2>1. /\ last'.entry = s /\ last'.array = Array(s)
        /\ last'.value = read_sysfs_number(sysfs, s.value)
        /\ last'.label = IF read_sysfs_string(b1, s.label) THEN b2 ELSE None
    BY <1>3 DEF NotListed, None
  <2>2. s.value # Empty /\ s.label # Empty
    BY <1>2, <2>1 DEF Written
  <2>3. /\ read_sysfs_string(b1, s.label) <=> s.label \in Texts
        /\ s.label \in Texts => b2 = s.label
        /\ read_sysfs_number(sysfs, s.value) = Text(s.value)
    BY <1>1, <1>2, <2>2, Reads
  <2> QED  BY <1>2, <2>1, <2>3 DEF Text
<1> QED  BY <1>3, <1>4, <1>5 DEF Ends, Entry, HardwareLists, NotListed

(* Graphics cards and the ends of the lists show nothing of the others.    *)
LEMMA OtherHardwareKeeps ==
    ASSUME Rows, UNCHANGED sensor_count,
           \/ \E temp \in Files : CpuHardware(temp)
           \/ \E c \in GpuCards : GpuCard(c)
           \/ /\ \/ EndOf("gpu", "network") \/ EndOf("network", "audio")
                 \/ EndOf("audio", "storage") \/ EndOf("storage", "sensors")
              /\ UNCHANGED sysfs
    PROVE  Rows' /\ OwnTexts' /\ Ends
<1>1. ASSUME NEW temp \in Files, CpuHardware(temp) PROVE Rows' /\ OwnTexts' /\ Ends
  <2>1. EndOf("cpu", "gpu") /\ sysfs' = read_file_fast(sysfs, temp)
    BY <1>1 DEF CpuHardware
  <2>2. sysfs' \in Buffers
    BY <2>1, BufferTyped DEF Rows
  <2> QED  BY <2>1, <2>2, ScanAssumption
           DEF Rows, EndOf, OwnTexts, NotListed, None, Ends, HardwareLists
<1>2. ASSUME NEW c \in GpuCards, GpuCard(c) PROVE Rows' /\ OwnTexts' /\ Ends
  <2>1. PICK b1, b2, b3 : /\ b1 = read_file_fast(sysfs, c.vendor)
                          /\ b2 = read_file_fast(b1, c.device)
                          /\ b3 = read_file_fast(b2, c.subsystem)
    OBVIOUS
  <2>2. c.vendor \in Files /\ c.device \in Files /\ c.subsystem \in Files
    BY DEF GpuCards
  <2>3. Entry("gpu") /\ count < MaxListed /\ sysfs' \in {b2, b3}
    BY <1>2, <2>1 DEF GpuCard
  <2>4. \/ last'.of = "gpu" /\ count' = count + 1
        \/ last'.of = "none" /\ count' = count
    BY <1>2, <2>1 DEF GpuCard, List, Skip, NotListed, None
  <2>5. b1 \in Buffers
    BY <2>1, <2>2, BufferTyped DEF Rows
  <2>6. b2 \in Buffers
    BY <2>1, <2>2, <2>5, BufferTyped
  <2>7. b3 \in Buffers
    BY <2>1, <2>2, <2>6, BufferTyped
  <2>8. Rows'
    BY <2>3, <2>4, <2>6, <2>7, ScanAssumption DEF Rows, Entry
  <2>9. OwnTexts'
    BY <2>4 DEF OwnTexts
  <2> QED  BY <2>3, <2>4, <2>8, <2>9 DEF Ends, Entry, HardwareLists, None
<1>3. ASSUME \/ EndOf("gpu", "network") \/ EndOf("network", "audio")
             \/ EndOf("audio", "storage") \/ EndOf("storage", "sensors"),
             UNCHANGED sysfs
      PROVE  Rows' /\ OwnTexts' /\ Ends
  <2>1. /\ phase \in HardwareLists /\ phase' \in HardwareLists
        /\ count' = 0 /\ seen' = 0 /\ last'.of = "none"
    BY <1>3 DEF EndOf, HardwareLists, NotListed, None
  <2>2. Rows'
    BY <1>3, <2>1, ScanAssumption DEF Rows
  <2> QED  BY <2>1, <2>2 DEF OwnTexts, Ends, None
<1> QED  BY <1>1, <1>2, <1>3

LEMMA HardwareKeeps ==
    ASSUME Rows, HardwareStep
    PROVE  Rows' /\ OwnTexts' /\ Ends
<1>1. CASE EndOf("sensors", "interfaces") /\ sysfs' = Nothing
           /\ sensor_count' = [a \in SensorArrays |-> 0]
  BY <1>1, ScanAssumption
     DEF Rows, EndOf, OwnTexts, NotListed, None, Ends, HardwareLists, NetworkLists, Buffers
<1> QED  BY <1>1, NetworkCardKeeps, AudioCardKeeps, BlockDeviceKeeps, SensorKeeps,
            OtherHardwareKeeps DEF HardwareStep


-----------------------------------------------------------------------------
(* The network lists: rows, slots and gateway.                             *)

(* What an interface has is written to its slot, the rest stays.           *)
LEMMA FilledFields ==
    ASSUME NEW a \in Addresses, NEW row \in Rows1, row = interfaces[count]
    PROVE  /\ Filled(a) \in Rows1
           /\ Filled(a).is_wireless = (a.wireless # "no")
           /\ \A x \in TextFields : Filled(a)[x] = IF Has(a, x) THEN a.name ELSE row[x]
<1>1. /\ a.name \in Names /\ a.inet \in BOOLEAN /\ a.address \in BOOLEAN /\ a.driver \in BOOLEAN
      /\ a.wireless \in {"no", "yes", "associated"}
  BY NetAssumption DEF Names
<1>2. PICK named : named = [row EXCEPT !.name = a.name]
  OBVIOUS
<1>3. PICK has : has = [named EXCEPT !.ip = IF a.inet THEN a.name ELSE @,
                      !.mac = IF a.address THEN a.name ELSE @,
                      !.driver = IF a.driver THEN a.name ELSE @]
  OBVIOUS
<1>4. /\ has \in Rows1 /\ has.name = a.name
      /\ has.ip = IF a.inet THEN a.name ELSE row.ip
      /\ has.mac = IF a.address THEN a.name ELSE row.mac
      /\ has.driver = IF a.driver THEN a.name ELSE row.driver
      /\ has.essid = row.essid
  BY <1>1, <1>2, <1>3 DEF Rows1
<1>5. PICK counted : counted = [has EXCEPT !.stats = has.name]
  OBVIOUS
<1>6. /\ counted \in Rows1 /\ counted.name = a.name /\ counted.ip = has.ip
      /\ counted.mac = has.mac /\ counted.driver = has.driver
      /\ counted.essid = has.essid /\ counted.stats = a.name
  BY <1>4, <1>5 DEF Rows1
<1>7. PICK full : full = [counted EXCEPT !.is_wireless = (a.wireless # "no"),
                       !.essid = IF a.wireless = "associated" THEN a.name ELSE @]
  OBVIOUS
<1>8. full \in Rows1 /\ full.name = a.name /\ full.ip = counted.ip /\ full.mac = counted.mac
      /\ full.driver = counted.driver /\ full.stats = counted.stats
      /\ full.is_wireless = (a.wireless # "no")
      /\ full.essid = IF a.wireless = "associated" THEN a.name ELSE counted.essid
  BY <1>1, <1>6, <1>7 DEF Rows1
<1>9. Filled(a) = full
  BY <1>2, <1>3, <1>5, <1>7 DEF Filled, WrittenTo, get_network_statistics, get_wireless_info
<1>10. \A x \in TextFields : full[x] = IF Has(a, x) THEN a.name ELSE row[x]
  BY <1>4, <1>6, <1>8 DEF TextFields, Has
<1> QED  BY <1>8, <1>9, <1>10

LEMMA UnscannedTyped ==
    ASSUME NEW text \in {None, Left}
    PROVE  /\ UnscannedInterface(text) \in Rows1
           /\ \A x \in TextFields : UnscannedInterface(text)[x] = text
  BY DEF UnscannedInterface, Rows1, Names, TextFields

LEMMA InterfaceKeeps ==
    ASSUME Rows, Slots, NEW a \in Addresses, Interface(a), UNCHANGED sensor_count
    PROVE  Rows' /\ OwnTexts' /\ OwnFields' /\ Slots'
<1>1. /\ Entry("interfaces") /\ count < MaxListed /\ sysfs' = Number
      /\ interfaces' = [interfaces EXCEPT ![count] = Filled(a)]
      /\ former' = [former EXCEPT ![count] = @ \cup {a.name}] /\ given' = given
  BY DEF Interface
<1>2. \/ /\ count' = count + 1
         /\ last' = [of |-> "interfaces", entry |-> a, iface |-> Filled(a),
                     former |-> former[count]]
      \/ last' = NotListed /\ count' = count
  BY DEF Interface, List, Skip
<1>3. \/ last'.of = "none"
      \/ /\ last'.of = "interfaces" /\ last'.entry = a /\ last'.iface = Filled(a)
         /\ last'.former = former[count]
  BY <1>2 DEF NotListed, None
<1>4. PICK row : row = interfaces[count]
  OBVIOUS
<1>5. /\ count \in IfaceSlots /\ row \in Rows1 /\ a.name \in Nics
      /\ \A x \in TextFields : row[x] \in {given} \cup former[count]
  BY <1>1, <1>4, ScanAssumption, NetAssumption DEF Rows, Slots, IfaceSlots
<1>6. /\ Filled(a) \in Rows1
      /\ Filled(a).is_wireless = (a.wireless # "no")
      /\ \A x \in TextFields : Filled(a)[x] = IF Has(a, x) THEN a.name ELSE row[x]
  BY <1>4, <1>5, FilledFields
<1>7. Rows'
  BY <1>1, <1>2, ScanAssumption DEF Rows, Entry, Buffers
<1>8. OwnTexts'
  BY <1>3 DEF OwnTexts
<1>9. OwnFields'
  <2> SUFFICES ASSUME last'.of = "interfaces"
               PROVE  /\ last'.iface.is_wireless = (last'.entry.wireless # "no")
                      /\ \A x \in TextFields :
                           last'.iface[x] \in IF Has(last'.entry, x) THEN {last'.entry.name}
                                             ELSE {given} \cup last'.former
    BY <1>1 DEF OwnFields, TextFields
  <2> QED  BY <1>3, <1>5, <1>6
<1>10. Slots'
  <2>1. interfaces' \in [IfaceSlots -> Rows1] /\ former' \in [IfaceSlots -> SUBSET Nics]
    BY <1>1, <1>5, <1>6 DEF Slots
  <2>2. ASSUME NEW i \in IfaceSlots, NEW x \in TextFields
        PROVE  interfaces'[i][x] \in {given} \cup former'[i]
    <3>1. CASE i = count
      BY <1>1, <1>5, <1>6, <3>1 DEF Slots
    <3>2. CASE i # count
      BY <1>1, <3>2 DEF Slots
    <3> QED  BY <3>1, <3>2
  <2> QED  BY <1>1, <2>1, <2>2 DEF Slots
<1> QED  BY <1>7, <1>8, <1>9, <1>10

(* What the lists after the interfaces' do to the rows.                    *)
Later == /\ phase' \in NetworkLists
         /\ last'.of \in {None, "routes", "connections", "dns", "traceroute"}

LEMMA LaterKeeps ==
    ASSUME Rows, Slots, Later, UNCHANGED <<sysfs, sensor_count, given>>,
           count' \in 0 .. MaxListed, seen' \in Nat,
           \/ UNCHANGED <<interfaces, former>>
           \/ /\ interfaces' = [i \in IfaceSlots |-> UnscannedInterface(given)]
              /\ former' = [i \in IfaceSlots |-> {}]
    PROVE  Rows' /\ OwnTexts' /\ OwnFields' /\ Slots'
<1>1. Rows'
  BY DEF Rows, Later
<1>2. OwnTexts' /\ OwnFields'
  BY DEF OwnTexts, OwnFields, Later, None
<1>3. Slots'
  <2>1. CASE UNCHANGED <<interfaces, former>>
    BY <2>1 DEF Slots
  <2>2. CASE /\ interfaces' = [i \in IfaceSlots |-> UnscannedInterface(given)]
             /\ former' = [i \in IfaceSlots |-> {}]
    BY <2>2, UnscannedTyped DEF Slots
  <2> QED  BY <2>1, <2>2
<1> QED  BY <1>1, <1>2, <1>3

-----------------------------------------------------------------------------
(* The hosts.                                                              *)

LEMMA Product ==
    ASSUME NEW x \in Nat, NEW s \in Nat
    PROVE  x * s \in Nat /\ x * (s + 1) = x * s + x
  OBVIOUS

LEMMA TestHostKeeps ==
    ASSUME Rows, Summed, Testing, NEW latency \in Latencies, TestHost(latency)
    PROVE  Summed' /\ Testing'
<1>1. /\ phase = "hosts" /\ phase' = "hosts" /\ seen < Hosts /\ seen' = seen + 1
      /\ seen \in Nat /\ Hosts \in Nat /\ successful_pings <= seen /\ latency \in Int
      /\ total_latency \in Nat /\ successful_pings \in Nat /\ internet_latency' \in Int
  BY NetAssumption DEF TestHost, Rows, Summed, Testing
<1>2. CASE ~Answered(latency)
  <2>1. UNCHANGED <<total_latency, successful_pings, answers>>
    BY <1>1, <1>2 DEF TestHost
  <2>2. Summed'
    BY <2>1 DEF Summed
  <2>3. Testing'
    BY <1>1, <2>1 DEF Testing
  <2> QED  BY <2>2, <2>3
<1>3. CASE Answered(latency)
  <2>1. /\ latency \in Nat /\ latency > 0 /\ total_latency' = total_latency + latency
        /\ successful_pings' = successful_pings + 1 /\ answers' = answers \cup {latency}
    BY <1>1, <1>3 DEF TestHost, Answered
  <2>2. \A x \in answers' : x \in Nat /\ x > 0 /\ x <= total_latency'
    BY <1>1, <2>1 DEF Summed
  <2>3. ASSUME NEW low \in Nat, \A x \in answers' : low <= x
        PROVE  low * successful_pings' <= total_latency'
    <3>1. low * successful_pings <= total_latency /\ low <= latency
      BY <2>1, <2>3 DEF Summed
    <3>2. low * (successful_pings + 1) = low * successful_pings + low
          /\ low * successful_pings \in Nat
      BY <1>1, Product
    <3> QED  BY <1>1, <2>1, <3>1, <3>2
  <2>4. ASSUME NEW high \in Nat, \A x \in answers' : x <= high
        PROVE  total_latency' <= high * successful_pings'
    <3>1. total_latency <= high * successful_pings /\ latency <= high
      BY <2>1, <2>4 DEF Summed
    <3>2. high * (successful_pings + 1) = high * successful_pings + high
          /\ high * successful_pings \in Nat
      BY <1>1, Product
    <3> QED  BY <1>1, <2>1, <3>1, <3>2
  <2>5. Summed'
    <3>1. total_latency' \in Nat /\ successful_pings' \in 0 .. Hosts /\ answers' \subseteq Latencies
      BY <1>1, <2>1 DEF Summed
    <3>2. successful_pings' # 0 /\ answers' # {}
      BY <1>1, <2>1
    <3> QED  BY <2>2, <2>3, <2>4, <3>1, <3>2 DEF Summed
  <2>6. Testing'
    BY <1>1, <2>1 DEF Testing
  <2> QED  BY <2>5, <2>6
<1> QED  BY <1>2, <1>3

(* The lists before the hosts, and the beginning and the end of the test.  *)
LEMMA SumStays ==
    ASSUME Summed, Testing, UNCHANGED <<total_latency, successful_pings, answers>>,
           \/ phase' \notin {"hosts", "done"} /\ phase \notin {"hosts", "done"}
              /\ UNCHANGED internet_latency
           \/ phase = "traceroute" /\ phase' = "hosts" /\ seen' = 0 /\ UNCHANGED internet_latency
           \/ phase = "hosts" /\ phase' = "done" /\ internet_latency' = Mean
    PROVE  Summed' /\ Testing'
<1>1. Summed'
  BY DEF Summed
<1>2. Mean \in Int /\ Mean' = Mean
  BY DEF Summed, Mean
<1>3. Testing'
  BY <1>2, NetAssumption DEF Testing
<1> QED  BY <1>1, <1>3

-----------------------------------------------------------------------------
(* The steps together.                                                     *)

LEMMA RoutingStays ==
    ASSUME Routing, UNCHANGED route_vars
    PROVE  Routing'
  BY DEF Routing, GatewayOfDefault, route_vars

LEMMA InterfaceInv ==
    ASSUME ScansInv, NEW a \in Addresses, Interface(a), UNCHANGED sensor_count
    PROVE  ScansInv'
<1>1. Rows' /\ OwnTexts' /\ OwnFields' /\ Slots'
  BY InterfaceKeeps DEF ScansInv
<1>2. /\ UNCHANGED <<route_vars, total_latency, successful_pings, answers, internet_latency>>
      /\ phase = "interfaces" /\ phase' = "interfaces"
  BY DEF Interface, Entry, test_vars
<1>3. Routing'
  BY <1>2, RoutingStays DEF ScansInv
<1>4. Summed' /\ Testing'
  BY <1>2, SumStays DEF ScansInv
<1> QED  BY <1>1, <1>3, <1>4 DEF ScansInv

LEMMA RouteLineInv ==
    ASSUME ScansInv, NEW r \in Routes, RouteLine(r), UNCHANGED sensor_count
    PROVE  ScansInv'
<1>1. /\ phase = "routes" /\ phase' = "routes" /\ seen' = seen + 1 /\ count < MaxListed
      /\ UNCHANGED <<sysfs, interfaces, former, given, gateway_before, total_latency,
                     successful_pings, answers, internet_latency>>
  BY DEF RouteLine, Entry, slot_vars, test_vars
<1>2. last'.of \in {None, "routes"} /\ count' \in {count, count + 1}
  BY DEF RouteLine, List, Skip, NotListed
<1>3. count' \in 0 .. MaxListed /\ seen' \in Nat
  BY <1>1, <1>2, ScanAssumption DEF ScansInv, Rows
<1>4. Rows' /\ OwnTexts' /\ OwnFields' /\ Slots'
  <2>1. Later
    BY <1>1, <1>2 DEF Later, NetworkLists
  <2> QED  BY <1>1, <1>3, <2>1, LaterKeeps DEF ScansInv
<1>5. Routing'
  <2>1. r.gateway \in Gateways
    BY DEF Routes
  <2>2. CASE r.parses /\ r.destination = 0
    <3>1. default_gateway' = r.gateway /\ defaults' = defaults \cup {r.gateway}
      BY <2>2 DEF RouteLine, RouteGateway
    <3> QED  BY <1>1, <2>1, <3>1 DEF ScansInv, Routing, GatewayOfDefault
  <2>3. CASE ~(r.parses /\ r.destination = 0)
    <3>1. UNCHANGED route_vars
      BY <1>1, <2>3 DEF RouteLine, RouteGateway, route_vars
    <3> QED  BY <3>1, RoutingStays DEF ScansInv
  <2> QED  BY <2>2, <2>3
<1>6. Summed' /\ Testing'
  BY <1>1, SumStays DEF ScansInv
<1> QED  BY <1>4, <1>5, <1>6 DEF ScansInv

(* Connections, name servers and hops.                                     *)
LEMMA LineInv ==
    ASSUME ScansInv, NEW p \in {"connections", "dns", "traceroute"}, Entry(p),
           count < MaxListed, UNCHANGED <<sysfs, sensor_count, net_vars>>,
           \/ last'.of = p /\ count' = count + 1
           \/ last'.of = None /\ count' = count
    PROVE  ScansInv'
<1>1. /\ phase = p /\ phase' = p /\ seen' = seen + 1
      /\ UNCHANGED <<interfaces, former, given, route_vars, total_latency,
                     successful_pings, answers, internet_latency>>
  BY DEF Entry, net_vars, slot_vars, test_vars
<1>2. count' \in 0 .. MaxListed /\ seen' \in Nat
  BY <1>1, ScanAssumption DEF ScansInv, Rows
<1>3. Rows' /\ OwnTexts' /\ OwnFields' /\ Slots'
  <2>1. Later
    BY <1>1 DEF Later, NetworkLists
  <2> QED  BY <1>1, <1>2, <2>1, LaterKeeps DEF ScansInv
<1>4. Routing'
  BY <1>1, RoutingStays DEF ScansInv
<1>5. Summed' /\ Testing'
  BY <1>1, SumStays DEF ScansInv
<1> QED  BY <1>3, <1>4, <1>5 DEF ScansInv

LEMMA HostInv ==
    ASSUME ScansInv, NEW latency \in Latencies, TestHost(latency), UNCHANGED sensor_count
    PROVE  ScansInv'
<1>1. /\ phase = "hosts" /\ seen' = seen + 1
      /\ UNCHANGED <<phase, sysfs, count, last, interfaces, former, given, route_vars>>
  BY DEF TestHost, slot_vars
<1>2. Rows'
  BY <1>1 DEF ScansInv, Rows
<1>3. OwnTexts' /\ OwnFields'
  BY <1>1 DEF ScansInv, OwnTexts, OwnFields
<1>4. Slots'
  BY <1>1 DEF ScansInv, Slots
<1>5. Routing'
  BY <1>1, RoutingStays DEF ScansInv
<1>6. Summed' /\ Testing'
  BY TestHostKeeps DEF ScansInv
<1> QED  BY <1>2, <1>3, <1>4, <1>5, <1>6 DEF ScansInv

LEMMA EndInv ==
    ASSUME ScansInv, UNCHANGED <<sysfs, sensor_count>>,
           \/ EndOfTest
           \/ /\ \/ EndOf("connections", "dns") \/ EndOf("dns", "traceroute")
                 \/ EndOf("traceroute", "hosts")
              /\ UNCHANGED net_vars
           \/ /\ \/ EndOf("interfaces", "interfaces") /\ UNCHANGED <<interfaces, former>>
                 \/ /\ EndOf("interfaces", "routes")
                    /\ interfaces' = [i \in IfaceSlots |-> UnscannedInterface(given)]
                    /\ former' = [i \in IfaceSlots |-> {}]
              /\ UNCHANGED <<given, route_vars, test_vars>>
           \/ /\ \/ EndOf("routes", "routes") /\ UNCHANGED default_gateway
                 \/ EndOf("routes", "connections") /\ default_gateway' = given
              /\ gateway_before' = default_gateway' /\ defaults' = {}
              /\ UNCHANGED <<slot_vars, test_vars>>
    PROVE  ScansInv'
<1>1. /\ count' = 0 /\ seen' = 0 /\ last'.of = None
      /\ phase \in NetworkLists /\ phase' \in NetworkLists /\ given' = given
  BY DEF EndOfTest, EndOf, NetworkLists, NotListed, net_vars, slot_vars
<1>2. Rows' /\ OwnTexts' /\ OwnFields' /\ Slots'
  <2>1. Later
    BY <1>1 DEF Later
  <2>2. \/ UNCHANGED <<interfaces, former>>
        \/ /\ interfaces' = [i \in IfaceSlots |-> UnscannedInterface(given)]
           /\ former' = [i \in IfaceSlots |-> {}]
    BY DEF EndOfTest, net_vars, slot_vars
  <2>3. count' \in 0 .. MaxListed /\ seen' \in Nat
    BY <1>1, ScanAssumption
  <2> QED  BY <1>1, <2>1, <2>2, <2>3, LaterKeeps DEF ScansInv
<1>3. Routing'
  <2>1. CASE /\ default_gateway' \in {default_gateway, given}
             /\ gateway_before' = default_gateway' /\ defaults' = {}
    BY <2>1 DEF ScansInv, Slots, Routing, GatewayOfDefault
  <2>2. CASE UNCHANGED route_vars
    BY <2>2, RoutingStays DEF ScansInv
  <2> QED  BY <2>1, <2>2 DEF EndOfTest, net_vars
<1>4. Summed' /\ Testing'
  <2>1. UNCHANGED <<total_latency, successful_pings, answers>>
    BY DEF EndOfTest, net_vars, test_vars
  <2>2. \/ phase' \notin {"hosts", "done"} /\ phase \notin {"hosts", "done"}
           /\ UNCHANGED internet_latency
        \/ phase = "traceroute" /\ phase' = "hosts" /\ seen' = 0 /\ UNCHANGED internet_latency
        \/ phase = "hosts" /\ phase' = "done" /\ internet_latency' = Mean
    BY DEF EndOfTest, EndOf, net_vars, test_vars
  <2> QED  BY <2>1, <2>2, SumStays DEF ScansInv
<1> QED  BY <1>2, <1>3, <1>4 DEF ScansInv

LEMMA NetworkInv ==
    ASSUME ScansInv, NetworkStep, UNCHANGED sensor_count
    PROVE  ScansInv'
<1>1. ASSUME NEW parses \in BOOLEAN, NEW state \in 0 .. 12, ConnectionLine(parses, state)
      PROVE  ScansInv'
  <2>1. /\ Entry("connections") /\ count < MaxListed /\ UNCHANGED <<sysfs, net_vars>>
        /\ \/ last'.of = "connections" /\ count' = count + 1
           \/ last'.of = None /\ count' = count
    BY <1>1 DEF ConnectionLine, List, Skip, NotListed
  <2> QED  BY <2>1, LineInv
<1>2. ASSUME NEW nameserver \in BOOLEAN, NEW latency \in Latencies, ResolvLine(nameserver, latency)
      PROVE  ScansInv'
  <2>1. /\ Entry("dns") /\ count < MaxListed /\ UNCHANGED <<sysfs, net_vars>>
        /\ \/ last'.of = "dns" /\ count' = count + 1
           \/ last'.of = None /\ count' = count
    BY <1>2 DEF ResolvLine, List, Skip, NotListed
  <2> QED  BY <2>1, LineInv
<1>3. ASSUME NEW line \in {"header", "hop", "short"}, NEW words \in Hops,
             TracerouteLine(line, words)
      PROVE  ScansInv'
  <2>1. /\ Entry("traceroute") /\ count < MaxListed /\ UNCHANGED <<sysfs, net_vars>>
        /\ \/ last'.of = "traceroute" /\ count' = count + 1
           \/ last'.of = None /\ count' = count
    BY <1>3 DEF TracerouteLine, List, Skip, NotListed
  <2> QED  BY <2>1, LineInv
<1>4. CASE EndOfTest
  <2>1. UNCHANGED sysfs
    BY <1>4 DEF EndOfTest
  <2> QED  BY <1>4, <2>1, EndInv
<1>5. CASE /\ \/ EndOf("connections", "dns") \/ EndOf("dns", "traceroute")
              \/ EndOf("traceroute", "hosts")
           /\ UNCHANGED <<sysfs, net_vars>>
  BY <1>5, EndInv
<1>6. CASE /\ \/ EndOf("interfaces", "interfaces") /\ UNCHANGED <<interfaces, former>>
              \/ /\ EndOf("interfaces", "routes")
                 /\ interfaces' = [i \in IfaceSlots |-> UnscannedInterface(given)]
                 /\ former' = [i \in IfaceSlots |-> {}]
           /\ UNCHANGED <<sysfs, given, route_vars, test_vars>>
  BY <1>6, EndInv
<1>7. CASE /\ \/ EndOf("routes", "routes") /\ UNCHANGED default_gateway
              \/ EndOf("routes", "connections") /\ default_gateway' = given
           /\ gateway_before' = default_gateway' /\ defaults' = {}
           /\ UNCHANGED <<sysfs, slot_vars, test_vars>>
  BY <1>7, EndInv
<1> QED  BY <1>1, <1>2, <1>3, <1>4, <1>5, <1>6, <1>7, InterfaceInv, RouteLineInv, HostInv
         DEF NetworkStep

LEMMA HardwareInv ==
    ASSUME ScansInv, HardwareStep, UNCHANGED net_vars
    PROVE  ScansInv'
<1>1. Rows' /\ OwnTexts' /\ Ends
  BY HardwareKeeps DEF ScansInv
<1>2. /\ phase \notin NetworkLists /\ phase' \notin {"hosts", "done"}
      /\ UNCHANGED <<interfaces, former, given, route_vars, total_latency,
                     successful_pings, answers, internet_latency>>
  BY <1>1 DEF Ends, HardwareLists, NetworkLists, net_vars, slot_vars, test_vars
<1>3. OwnFields'
  BY <1>1 DEF Ends, OwnFields, None
<1>4. Slots'
  BY <1>2 DEF ScansInv, Slots, NetworkLists
<1>5. Routing'
  BY <1>2, RoutingStays DEF ScansInv
<1>6. Summed' /\ Testing'
  BY <1>2, SumStays DEF ScansInv, NetworkLists
<1> QED  BY <1>1, <1>3, <1>4, <1>5, <1>6 DEF ScansInv

THEOREM ScansInvariance == Spec => []ScansInv
<1>1. Init => ScansInv
  <2> SUFFICES ASSUME Init PROVE ScansInv
    OBVIOUS
  <2> USE DEF Init, ScanInit, HardwareInit, NetInit
  <2>1. Rows
    BY ScanAssumption DEF Rows, HardwareLists, Buffers
  <2>2. OwnTexts /\ OwnFields
    BY DEF OwnTexts, OwnFields, NotListed, None
  <2>3. Slots
    BY UnscannedTyped DEF Slots
  <2>4. Routing
    BY DEF Routing, GatewayOfDefault
  <2>5. Summed
    BY NetAssumption DEF Summed
  <2>6. Testing
    BY DEF Testing
  <2> QED  BY <2>1, <2>2, <2>3, <2>4, <2>5, <2>6 DEF ScansInv
<1>2. ScansInv /\ [Next]_vars => ScansInv'
  <2> SUFFICES ASSUME ScansInv, [Next]_vars PROVE ScansInv'
    OBVIOUS
  <2>1. CASE UNCHANGED vars
    <3>1. UNCHANGED <<phase, sysfs, count, seen, last, sensor_count, interfaces, former,
                      given, route_vars, total_latency, successful_pings, answers,
                      internet_latency>>
      BY <2>1 DEF vars, scan_vars, net_vars, slot_vars, test_vars
    <3>2. Rows' /\ Slots'
      BY <3>1 DEF ScansInv, Rows, Slots
    <3>3. OwnTexts' /\ OwnFields'
      BY <3>1 DEF ScansInv, OwnTexts, OwnFields
    <3>4. Routing' /\ Summed'
      BY <3>1, RoutingStays DEF ScansInv, Summed
    <3>5. Testing'
      BY <3>1 DEF ScansInv, Testing, Mean
    <3> QED  BY <3>2, <3>3, <3>4, <3>5 DEF ScansInv
  <2> QED  BY <2>1, HardwareInv, NetworkInv DEF Next
<1> QED  BY <1>1, <1>2, PTL DEF Spec

-----------------------------------------------------------------------------
(* The properties.                                                         *)

(* No list grows beyond its array, and every field keeps its type.         *)
THEOREM TypeCorrect == Spec => []TypeOK
<1>1. ScansInv => TypeOK
  BY DEF ScansInv, Rows, Slots, Routing, Summed, Testing, TypeOK, Buffers, Rows1,
         HardwareLists, NetworkLists
<1> QED  BY <1>1, ScansInvariance, PTL

(* Rows show what was read for their own entry: whatever the shared buffer *)
(* held before, a file that has a byte brings its own text or nothing; and *)
(* what an interface has is shown for it, whatever its slot held before,   *)
(* what it has not being what was left in that slot, however often the     *)
(* interfaces are scanned.                                                 *)
THEOREM DataIsOwn == Spec => []OwnData
<1>1. ScansInv => OwnData
  BY DEF ScansInv, OwnData
<1> QED  BY <1>1, ScansInvariance, PTL

(* A set of numbers has a least element.                                   *)
LEMMA LeastOf ==
    ASSUME NEW S \in SUBSET Nat, S # {}
    PROVE  \E n \in S : \A m \in S : n <= m
<1> DEFINE Less == {pair \in Nat \X Nat : pair[1] < pair[2]}
<1>1. IsWellFoundedOn(Less, Nat)
  BY NatLessThanWellFounded, Zenon DEF OpToRel
<1> HIDE DEF Less
<1>2. PICK n \in S : \A m \in S : ~(<<m, n>> \in Less)
  BY <1>1, WFMin, Zenon
<1>3. \A m \in S : ~(m < n)
  BY <1>2 DEF Less
<1> QED  BY <1>3

(* A bounded set of numbers has a least and a greatest element.            *)
LEMMA MinMax ==
    ASSUME NEW S \in SUBSET Nat, S # {}, NEW bound \in Nat, \A x \in S : x <= bound
    PROVE  /\ Min(S) \in S /\ \A x \in S : Min(S) <= x
           /\ Max(S) \in S /\ \A x \in S : x <= Max(S)
<1>1. \E n \in S : \A x \in S : n <= x
  BY LeastOf
<1>2. \E n \in S : \A x \in S : n >= x
  <2> DEFINE Below == {bound - x : x \in S}
  <2>1. Below \in SUBSET Nat /\ Below # {}
    <3>1. \A x \in S : x \in Nat /\ bound - x \in Nat
      OBVIOUS
    <3> QED  BY <3>1
  <2>2. PICK least \in Below : \A y \in Below : least <= y
    <3> HIDE DEF Below
    <3> QED  BY <2>1, LeastOf
  <2>3. PICK n \in S : least = bound - n
    OBVIOUS
  <2>4. \A x \in S : bound - n <= bound - x
    BY <2>2, <2>3
  <2>5. ASSUME NEW x \in S
        PROVE  n >= x
    <3>1. bound \in Nat /\ n \in Nat /\ x \in Nat /\ bound - n <= bound - x
      BY <2>4
    <3> HIDE DEF Below
    <3> QED  BY <3>1
  <2> QED  BY <2>5
<1>3. Min(S) \in S /\ \A x \in S : Min(S) <= x
  BY <1>1 DEF Min
<1>4. Max(S) \in S /\ \A x \in S : x <= Max(S)
  BY <1>2 DEF Max
<1> QED  BY <1>3, <1>4

(* What lies between multiples of s, divided by s.                         *)
LEMMA Quotient ==
    ASSUME NEW total \in Nat, NEW s \in Nat, s > 0, NEW low \in Nat, NEW high \in Nat,
           low * s <= total, total <= high * s
    PROVE  total \div s \in low .. high
  OBVIOUS

(* The gateway shown is of a default route that the scan read, or, without *)
(* one, what was there before the scan; and the latency lies               *)
(* between those of the hosts that answered: the sum is divided by their   *)
(* number, not by the number of hosts.                                     *)
THEOREM SummariesAreRight == Spec => []SummariesRight
<1>1. ScansInv => SummariesRight
  <2> SUFFICES ASSUME ScansInv PROVE SummariesRight
    OBVIOUS
  <2>1. LatencyOfAnswers
    <3> SUFFICES ASSUME phase = "done"
                 PROVE  IF answers = {} THEN internet_latency = -1
                        ELSE internet_latency \in Min(answers) .. Max(answers)
      BY DEF LatencyOfAnswers
    <3>1. Summed /\ internet_latency = Mean
      BY DEF ScansInv, Testing
    <3>2. CASE answers = {}
      BY <3>1, <3>2 DEF Summed, Mean
    <3>3. CASE answers # {}
      <4>1. answers \in SUBSET Nat /\ total_latency \in Nat /\ \A x \in answers : x <= total_latency
        BY <3>1 DEF Summed
      <4>2. PICK low, high : low = Min(answers) /\ high = Max(answers)
        OBVIOUS
      <4>3. /\ low \in answers /\ \A x \in answers : low <= x
            /\ high \in answers /\ \A x \in answers : x <= high
        BY <3>3, <4>1, <4>2, MinMax
      <4>4. low \in Nat /\ high \in Nat
        BY <4>1, <4>3
      <4>5. low * successful_pings <= total_latency /\ total_latency <= high * successful_pings
        BY <3>1, <4>3, <4>4 DEF Summed
      <4>6. successful_pings \in Nat /\ successful_pings > 0
        <5>1. successful_pings \in Nat
          BY <3>1, NetAssumption DEF Summed
        <5>2. successful_pings # 0
          BY <3>1, <3>3 DEF Summed
        <5> QED  BY <5>1, <5>2
      <4>7. total_latency \div successful_pings \in low .. high
        BY <4>1, <4>4, <4>5, <4>6, Quotient
      <4>8. Mean = total_latency \div successful_pings
        BY <4>6 DEF Mean
      <4> QED  BY <3>1, <3>3, <4>2, <4>7, <4>8
    <3> QED  BY <3>2, <3>3
  <2> QED  BY <2>1 DEF ScansInv, Routing, SummariesRight
<1> QED  BY <1>1, ScansInvariance, PTL

=============================================================================

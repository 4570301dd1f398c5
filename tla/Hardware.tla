------------------------------ MODULE Hardware ------------------------------
(***************************************************************************)
(* detect_hardware of src/hardware.c, list by list.                        *)
(***************************************************************************)
EXTENDS Scanning

CONSTANT Vendor(_, _)   \* the name a list gives to a PCI vendor id, or "Unknown"

VARIABLE sensor_count   \* temp_count, fan_count, voltage_count

SensorArrays == {"temp", "fan", "in"}
HardwareInit == sensor_count = [a \in SensorArrays |-> 0]

(* get_cpu_hardware reads one file with read_sysfs_float, the temperature. *)
CpuHardware(temp) ==
    /\ EndOf("cpu", "gpu")
    /\ sysfs' = read_file_fast(sysfs, temp)

(* get_gpu_hardware: vendor_id and device_id point to the same buffer,     *)
(* which holds the device's id when the vendor is compared, and the        *)
(* subsystem's when the model is put together.                             *)
GpuCard(c) ==
    LET b1 == read_file_fast(sysfs, c.vendor)
        b2 == read_file_fast(b1, c.device)
        b3 == read_file_fast(b2, c.subsystem)
        listed == read_sysfs_string(sysfs, c.vendor) /\ read_sysfs_string(b1, c.device) IN
    /\ Entry("gpu") /\ count < MaxListed
    /\ sysfs' = IF listed THEN b3 ELSE b2
    /\ IF listed
       THEN List([of |-> "gpu", entry |-> c, vendor |-> Vendor("gpu", b2),
                  model |-> IF read_sysfs_string(b2, c.subsystem) THEN <<b3, b3>> ELSE <<b3>>])
       ELSE Skip

(* get_network_hardware: every interface with a device is listed; vendor   *)
(* and model as above.                                                     *)
NetworkCard(c) ==
    LET b1 == read_file_fast(sysfs, c.vendor)
        b2 == read_file_fast(b1, c.device)
        known == read_sysfs_string(sysfs, c.vendor) /\ read_sysfs_string(b1, c.device) IN
    /\ Entry("network") /\ count < MaxListed
    /\ sysfs' = IF c.device_dir = "yes" THEN read_file_fast(b2, c.speed) ELSE sysfs
    /\ IF c.device_dir = "yes"
       THEN List([of |-> "network", entry |-> c,
                  vendor |-> IF known THEN Vendor("network", b2) ELSE None,
                  model |-> IF known THEN b2 ELSE None,
                  speed |-> read_sysfs_number(b2, c.speed)])
       ELSE Skip

(* get_audio_hardware copies the id before it reads the vendor.            *)
(* Mutant: it copies the id at the end.                                    *)
AudioRowLate(c, model, b1, b2) ==
    [of |-> "audio", entry |-> c, model |-> b2,
     vendor |-> IF read_sysfs_string(b1, c.vendor) THEN Vendor("audio", b2) ELSE None]
AudioRow(c, model, b1, b2) ==
    [of |-> "audio", entry |-> c, model |-> model,
     vendor |-> IF read_sysfs_string(b1, c.vendor) THEN Vendor("audio", b2) ELSE None]
AudioCard(c) ==
    LET b1 == read_file_fast(sysfs, c.id)
        b2 == read_file_fast(b1, c.vendor)
        listed == read_sysfs_string(sysfs, c.id) IN
    /\ Entry("audio") /\ count < MaxListed
    /\ sysfs' = IF listed THEN b2 ELSE b1
    /\ IF listed THEN List(AudioRow(c, b1, b1, b2)) ELSE Skip

(* scan_block_devices: names longer than four characters are skipped, and  *)
(* so are devices without a model.                                         *)
(* Mutant: the array's bound is not tested.                                *)
BlockDeviceUnbounded(d) ==
    LET b1 == read_file_fast(sysfs, d.model)
        b2 == read_file_fast(b1, d.vendor)
        listed == d.name = "short" /\ read_sysfs_string(sysfs, d.model) IN
    /\ Entry("storage")
    /\ sysfs' = IF d.name = "long" THEN sysfs
                ELSE IF listed THEN read_file_fast(b2, d.rotational) ELSE b1
    /\ IF listed
       THEN List([of |-> "storage", entry |-> d, model |-> b1,
                  vendor |-> IF read_sysfs_string(b1, d.vendor) THEN b2 ELSE None,
                  rotational |-> read_sysfs_number(b2, d.rotational)])
       ELSE Skip
BlockDevice(d) == count < MaxListed /\ BlockDeviceUnbounded(d)

(* read_hwmon_sensors, one file *_input.  What is neither temperature nor  *)
(* fan is taken for a voltage: "_input" itself contains "in".  A sensor    *)
(* without a label is numbered in its array.                               *)
Array(s) == IF s.kind \in {"temp", "fan"} THEN s.kind ELSE "in"
Sensor(s) ==
    LET b1 == read_file_fast(sysfs, s.value)
        b2 == read_file_fast(b1, s.label)
        n  == sensor_count[Array(s)] IN
    /\ Entry("sensors") /\ count' = count
    /\ IF n < MaxListed
       THEN /\ sysfs' = b2
            /\ sensor_count' = [sensor_count EXCEPT ![Array(s)] = n + 1]
            /\ last' = [of |-> "sensors", entry |-> s, array |-> Array(s),
                        value |-> read_sysfs_number(sysfs, s.value),
                        label |-> IF read_sysfs_string(b1, s.label) THEN b2 ELSE None]
       ELSE last' = NotListed /\ UNCHANGED <<sysfs, sensor_count>>

GpuCards == [vendor : Files, device : Files, subsystem : Files]
NetworkCards == [device_dir : {"yes", "no"}, vendor : Files, device : Files, speed : Files]
AudioCards == [id : Files, vendor : Files]
BlockDevices == [name : {"short", "long"}, model : Files, vendor : Files, rotational : Files]
Sensors == [kind : {"temp", "fan", "in", "power"}, value : Files, label : Files]

HardwareStep ==
    \/ \E s \in Sensors : Sensor(s)
    \/ /\ \/ \E temp \in Files : CpuHardware(temp)
          \/ \E c \in GpuCards : GpuCard(c)
          \/ \E c \in NetworkCards : NetworkCard(c)
          \/ \E c \in AudioCards : AudioCard(c)
          \/ \E d \in BlockDevices : BlockDevice(d)
          \/ /\ \/ EndOf("gpu", "network") \/ EndOf("network", "audio")
                \/ EndOf("audio", "storage") \/ EndOf("storage", "sensors")
             /\ UNCHANGED sysfs
       /\ UNCHANGED sensor_count
    (* No later list uses what the sensors left. *)
    \/ EndOf("sensors", "interfaces") /\ sysfs' = Nothing
       /\ sensor_count' = [a \in SensorArrays |-> 0]

(***************************************************************************)
(* Properties.                                                             *)
(***************************************************************************)

(* The text of a file as it is shown: nothing if it cannot be read or is   *)
(* blank.                                                                  *)
Text(f) == IF f \in Texts THEN f ELSE None
NamedVendor(list, f) == IF f \in Texts THEN Vendor(list, f) ELSE None
Written(c) == \A x \in DOMAIN c : c[x] # Empty

(* Audio cards, disks, sensors and the speed of network cards are listed   *)
(* with the contents of their own files, although all of them pass through *)
(* one buffer that also holds what the entries before left there.  Only a  *)
(* file without a byte gives away an older text.                           *)
OwnTexts ==
    (last.of \in {"network", "audio", "storage", "sensors"} /\ Written(last.entry)) =>
        LET c == last.entry IN
        CASE last.of = "audio" -> last.model = Text(c.id) /\ last.vendor = NamedVendor("audio", c.vendor)
          [] last.of = "storage" -> /\ last.model = Text(c.model)
                                    /\ last.vendor = Text(c.vendor)
                                    /\ last.rotational = Text(c.rotational)
          [] last.of = "sensors" -> /\ last.value = Text(c.value)
                                    /\ last.label = Text(c.label)
                                    /\ c.kind # "power" => last.array = c.kind
          [] last.of = "network" -> last.speed = Text(c.speed)

(* A graphics card is listed under the name of its vendor: the comparison  *)
(* of get_gpu_hardware is with vendor ids.                                 *)
GpuVendorNamed ==
    (last.of = "gpu" /\ Written(last.entry)) => last.vendor = NamedVendor("gpu", last.entry.vendor)

=============================================================================

------------------------------ MODULE MC_Scans ------------------------------
(* Instance of Scans for TLC: arrays of two rows, lists of three entries.  *)
EXTENDS Scans

(* One text is a vendor id the graphics and the sound lists know, one an   *)
(* id that all three know, the last is no vendor's.                        *)
MCVendor(list, id) ==
    CASE id = "0x8086" -> "Intel"
      [] id = "0x10de" /\ list # "network" -> "NVIDIA"
      [] OTHER -> "Unknown"
(* An interface with everything, up and down; others without an address or *)
(* a driver; a wireless one, connected or not.                             *)
MCNic(name, up, inet, address, driver, wireless) ==
    [name |-> name, up |-> up, inet |-> inet, address |-> address,
     driver |-> driver, wireless |-> wireless]
MCAddresses ==
    {MCNic("lo", TRUE, TRUE, TRUE, FALSE, "no"),
     MCNic("eth0", TRUE, TRUE, TRUE, TRUE, "no"), MCNic("eth0", FALSE, FALSE, TRUE, TRUE, "no"),
     MCNic("tun0", TRUE, TRUE, FALSE, FALSE, "no"),
     MCNic("wlan0", TRUE, FALSE, TRUE, TRUE, "associated"),
     MCNic("wlan0", TRUE, FALSE, TRUE, TRUE, "yes")}
MCLatencies == {-1, 0, 3, 10}

=============================================================================

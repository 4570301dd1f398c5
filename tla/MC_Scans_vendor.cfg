SPECIFICATION Spec
CONSTANTS
    Texts = {"0x8086", "0x10de", "0x1234"}
    Vendor <- MCVendor
    MaxListed = 2
    MaxEntries = 3
    Nics = {"lo", "eth0", "tun0", "wlan0"}
    Addresses <- MCAddresses
    Gateways = {"g1", "g2"}
    Latencies <- MCLatencies
    Hosts = 4
INVARIANTS
    GpuVendorNamed
CHECK_DEADLOCK FALSE

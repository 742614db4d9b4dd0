-------------------------------- MODULE Pci --------------------------------
(***************************************************************************)
(* The PCI scan of src/src/pci.rs.  scan_bus asks every device number of   *)
(* every bus for its function 0, and the other functions only when the     *)
(* header of function 0 says there are any; check_function remembers the   *)
(* NVMe, the xHCI and the Ethernet controller and turns on their access to *)
(* memory.  Configuration space is four bytes per register, an absent      *)
(* function reads as all ones.                                             *)
(***************************************************************************)
EXTENDS Integers, Sequences, FiniteSets

CONSTANTS
    Buses, Devices, Functions,   \* numbers of each, 256, 32 and 8
    BarBits,                     \* width of a register, 32
    Machines                     \* possible [<<bus, dev, func>> -> function]

Ones == 255
Absent == [r \in {0, 4, 8, 12} |-> <<Ones, Ones, Ones, Ones>>]
Locations == (0 .. Buses - 1) \X (0 .. Devices - 1) \X (0 .. Functions - 1)
None == [at |-> <<>>]

VARIABLES
    machine,   \* the functions: configuration registers and base addresses
    command,   \* the command register of each function
    place,     \* scan_bus: the next bus and device
    found      \* NVME_DEVICE, XHCI_DEVICE and ETHERNET_DEVICE

pciVars == <<machine, command, place, found>>

read_config_32(f, offset) == machine[f].config[offset - (offset % 4)]
read_config_16(f, offset) ==
    LET low == (offset % 4) - (offset % 2) IN SubSeq(read_config_32(f, offset), low + 1, low + 2)
read_config_8(f, offset) == read_config_32(f, offset)[(offset % 4) + 1]

VendorId(f) == read_config_16(f, 0)
Present(f) == VendorId(f) # <<Ones, Ones>>

PCI_CLASS_STORAGE == 1
PCI_SUBCLASS_NVME == 8
PCI_PROG_IF_NVME == 2
PCI_CLASS_SERIAL_BUS == 12
PCI_SUBCLASS_USB == 3
PCI_PROG_IF_XHCI == 48
PCI_CLASS_NETWORK == 2
PCI_SUBCLASS_ETHERNET == 0

(* The three tests of check_function, at most one of which holds.          *)
ClassOf(f) == <<read_config_8(f, 11), read_config_8(f, 10)>>
KindOf(f) ==
    {k \in {"nvme", "xhci", "ethernet"} :
        CASE k = "nvme" -> ClassOf(f) = <<PCI_CLASS_STORAGE, PCI_SUBCLASS_NVME>>
                           /\ read_config_8(f, 9) = PCI_PROG_IF_NVME
          [] k = "xhci" -> ClassOf(f) = <<PCI_CLASS_SERIAL_BUS, PCI_SUBCLASS_USB>>
                           /\ read_config_8(f, 9) = PCI_PROG_IF_XHCI
          [] OTHER -> ClassOf(f) = <<PCI_CLASS_NETWORK, PCI_SUBCLASS_ETHERNET>>}

(* The functions check_device hands to check_function, in that order.      *)
MultiFunction(bus, dev) == read_config_8(<<bus, dev, 0>>, 14) >= 128
Checked(bus, dev) ==
    SelectSeq([n \in 1 .. Functions |-> <<bus, dev, n - 1>>],
              LAMBDA f : /\ Present(<<bus, dev, 0>>)
                         /\ f[3] = 0 \/ MultiFunction(bus, dev)
                         /\ Present(f))

PciDevice(f) == [at |-> f, bar0 |-> machine[f].bar0, bar1 |-> machine[f].bar1]

(* check_function on each of them: a later device takes the place of an    *)
(* earlier one of its kind; every one of them may access memory.           *)
MasterOn(fs) == {fs[n] : n \in {m \in DOMAIN fs : KindOf(fs[m]) # {}}}
FoundNow(kind, fs) ==
    LET ns == {n \in DOMAIN fs : kind \in KindOf(fs[n])}
    IN  IF ns = {} THEN found[kind] ELSE PciDevice(fs[CHOOSE n \in ns : \A m \in ns : m <= n])

(* The next device of scan_bus, and the one after it.                      *)
NextDevice(p) == IF p[2] + 1 < Devices THEN <<p[1], p[2] + 1>> ELSE <<p[1] + 1, 0>>

check_device ==
    /\ place[1] < Buses
    /\ LET fs == Checked(place[1], place[2])
       IN  /\ found' = [k \in DOMAIN found |-> FoundNow(k, fs)]
           /\ command' = [f \in Locations |->
                            command[f] \cup (IF f \in MasterOn(fs) THEN {"memory", "master"} ELSE {})]
    /\ place' = NextDevice(place)
    /\ UNCHANGED machine

PciInit ==
    /\ machine \in Machines
    /\ command = [f \in Locations |-> {}]
    /\ place = <<0, 0>>
    /\ found = [k \in {"nvme", "xhci", "ethernet"} |-> None]

PciNext == check_device
PciSpec == PciInit /\ [][PciNext]_pciVars

(* The address a driver uses: the low register without its four flag bits, *)
(* and the high register when the flags say the address has 64 bits.       *)
mmio_bar0_wide(device) == device.bar0 - (device.bar0 % 16) + device.bar1 * 2 ^ BarBits
mmio_bar0(device) ==
    LET base == device.bar0 - (device.bar0 % 16)
    IN  IF (device.bar0 \div 2) % 4 = 2 THEN base + device.bar1 * 2 ^ BarBits ELSE base

(* The NVMe driver takes the high register whatever the flags say; the     *)
(* two registers of such a controller are always one address.              *)
nvme_bar(device) == device.bar0 - (device.bar0 % 16) + device.bar1 * 2 ^ BarBits

-----------------------------------------------------------------------------
Scanned == place[1] = Buses
Earlier(f, g) == \E n \in 1 .. 3 : f[n] < g[n] /\ \A m \in 1 .. n - 1 : f[m] = g[m]

(* What the machine really has at f: a function 0 that answers, and for    *)
(* another function also a header that announces it.                       *)
Real(f) == machine[f].kind # "absent" /\ machine[<<f[1], f[2], 0>>].kind # "absent"
           /\ (f[3] = 0 \/ machine[<<f[1], f[2], 0>>].multi)

(* After the scan each driver is given the last controller of its kind     *)
(* that the machine has, in bus order, and no other function: nothing is   *)
(* missed behind a multi-function header, nothing is invented behind one   *)
(* that has none.                                                          *)
FindsLast ==
    Scanned => \A k \in DOMAIN found :
        LET real == {f \in Locations : Real(f) /\ machine[f].kind = k}
        IN  IF real = {} THEN found[k] = None
            ELSE /\ found[k].at \in real
                 /\ \A f \in real \ {found[k].at} : Earlier(f, found[k].at)

(* The driver's controller can access memory, and no function that is not  *)
(* one of the three kinds was given access to it.                          *)
MastersAreOurs ==
    /\ \A k \in DOMAIN found : found[k] # None => command[found[k].at] = {"memory", "master"}
    /\ \A f \in Locations : command[f] # {} => machine[f].kind \in DOMAIN found

(* Each driver maps the address the firmware assigned to its controller,   *)
(* above 4 GiB too, although the address is put together in two ways.      *)
MmioIsAssigned == \A k \in DOMAIN found : found[k] # None =>
    machine[found[k].at].address =
        IF k = "nvme" THEN nvme_bar(found[k]) ELSE mmio_bar0(found[k])

(* What scan_bus leaves the drivers with: the right controller, allowed to *)
(* access memory, at its address.                                          *)
ControllersReady == FindsLast /\ MastersAreOurs /\ MmioIsAssigned
=============================================================================

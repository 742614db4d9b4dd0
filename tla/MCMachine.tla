----------------------------- MODULE MCMachine -----------------------------
(***************************************************************************)
(* Parts of the kernel that share no state, checked in one run: the        *)
(* boot processor's use of memory, the start of the other processors, the  *)
(* PCI scan, the disk driver, the network driver, the checksum and the     *)
(* rings of the USB controller.  A behaviour runs one of them, chosen at   *)
(* the start; the others stay in one of their initial states.              *)
(***************************************************************************)
EXTENDS MCBoot, ApStart, Pci, Nvme, Network, Checksum, XhciRings

VARIABLE part

(* MADTs: with foreign entries, a disabled processor, a broken entry, one  *)
(* processor, more processors than the table holds.                        *)
Lapic(id, on) == [type |-> "lapic", len |-> 8, left |-> 8, id |-> id, enabled |-> on]
Other(len) == [type |-> "other", len |-> len, left |-> 10, id |-> 0, enabled |-> FALSE]
MCMadts ==
    {<<Lapic(1, TRUE), Other(10), Lapic(0, TRUE), Lapic(2, TRUE), Lapic(3, TRUE)>>,
     <<Lapic(0, TRUE), Lapic(3, FALSE), Lapic(1, TRUE), Other(0), Lapic(2, TRUE)>>,
     <<Lapic(2, TRUE), Lapic(1, TRUE), Other(12), Lapic(3, TRUE)>>,
     <<Lapic(1, TRUE)>>,
     <<Lapic(5, TRUE), Lapic(2, TRUE), Lapic(3, TRUE), Lapic(0, TRUE), Lapic(1, TRUE)>>}

(* Two devices with two functions each.  The register after a 32-bit base  *)
(* address is one of its own, in use where the kind has one; NVMe always   *)
(* has a 64-bit base address.                                              *)
ClassRegister(kind) ==
    CASE kind = "nvme" -> <<0, 2, 8, 1>>
      [] kind = "xhci" -> <<0, 48, 3, 12>>
      [] kind = "ethernet" -> <<0, 0, 0, 2>>
      [] OTHER -> <<0, 32, 3, 12>>
Wide(kind, address) == kind = "nvme" \/ address >= 2 ^ BarBits
Function(kind, multi, address) ==
    [kind |-> kind, multi |-> multi, address |-> address,
     config |-> IF kind = "absent" THEN Absent
                ELSE (0 :> <<1, 2, 3, 4>>) @@ (4 :> <<0, 0, 0, 0>>)
                     @@ (8 :> ClassRegister(kind))
                     @@ (12 :> <<0, 0, IF multi THEN 128 ELSE 0, 0>>),
     bar0 |-> (address % 2 ^ BarBits) + (IF Wide(kind, address) THEN 4 ELSE 0),
     bar1 |-> IF Wide(kind, address) THEN address \div 2 ^ BarBits ELSE 3]
MCMachines ==
    {[f \in Locations |-> Function(kinds[2 * f[2] + f[3] + 1], f \in multi,
                                   IF f[3] = 0 THEN 32 ELSE 208)] :
        kinds \in {first \o second : first \in [1 .. 2 -> {"nvme", "xhci", "ethernet", "absent"}],
                                     second \in [1 .. 2 -> {"nvme", "ehci", "absent"}]},
        multi \in SUBSET {<<0, 0, 0>>, <<0, 1, 0>>}}

(* Without good tables all controllers are there; the files differ only    *)
(* where both are, and are whole elsewhere.                                *)
GoodTables == Madt = 3 /\ acpi.checksum
AllFound == Cardinality(controllers) = 3
DiffersInOne ==
    /\ GoodTables \/ AllFound
    /\ (GoodTables /\ AllFound) \/ file = Kef(TRUE, 2, TRUE)

(* A part of its own for each kind of frame that the handler answers: in a *)
(* behaviour the card receives frames of that kind, and others.            *)
ForMe == {"arp_for_me", "ping_for_me"}
Received(kind) == \A i \in Desc : rx'[i].frame \in {kind, "other", NoFrame}

MCPackets == UNION {[1 .. n -> {0, 1, 255}] : n \in 1 .. 6}

-----------------------------------------------------------------------------
AnyMachine == CHOOSE m \in MCMachines : TRUE
AnyPacket == CHOOSE p \in MCPackets : TRUE
Only(p, set) == IF part = p THEN set ELSE {CHOOSE x \in set : TRUE}

MCInit ==
    /\ part \in {"boot", "processors", "pci", "nvme", "checksum", "trb", "event", "key"} \cup ForMe
    /\ memory_map \in Only("boot", MCMemoryMaps) /\ acpi \in Only("boot", MCRsdps)
    /\ controllers \in Only("boot", MCFound)
    /\ file \in Only("boot", MCFiles)
    /\ part = "boot" => DiffersInOne
    /\ madt \in Only("processors", MCMadts)
    /\ machine \in IF part = "pci" THEN MCMachines ELSE {AnyMachine}
    /\ en \in Only("nvme", BOOLEAN)
    /\ data \in IF part = "checksum" THEN MCPackets ELSE {AnyPacket}
    /\ BootInit /\ ApInit /\ PciInit /\ NvmeInit /\ NetInit
    /\ ChecksumInit /\ RingsInit

RingsStep ==
    \/ part = "trb" /\ TrbStep
    \/ part = "event" /\ EventStep
    \/ part = "key" /\ KeyStep

BootPart == part = "boot" /\ BootNext
            /\ UNCHANGED <<part, apVars, pciVars,
                           nvmeVars, netVars, checksumVars, ringsVars>>
ApPart(step) == part = "processors" /\ step
            /\ UNCHANGED <<part, bootVars, pciVars,
                           nvmeVars, netVars, checksumVars, ringsVars>>
PciPart == part = "pci" /\ PciNext
            /\ UNCHANGED <<part, bootVars, apVars,
                           nvmeVars, netVars, checksumVars, ringsVars>>
NvmePart(step) == part = "nvme" /\ step
            /\ UNCHANGED <<part, bootVars, apVars,
                           pciVars, netVars, checksumVars, ringsVars>>
NetPart == part \in ForMe /\ NetNext /\ Received(part)
            /\ UNCHANGED <<part, bootVars, apVars,
                           pciVars, nvmeVars, checksumVars, ringsVars>>
ChecksumPart == part = "checksum" /\ ChecksumNext
            /\ UNCHANGED <<part, bootVars, apVars,
                           pciVars, nvmeVars, netVars, ringsVars>>
RingsPart == RingsStep
            /\ UNCHANGED <<part, bootVars, apVars,
                           pciVars, nvmeVars, netVars, checksumVars>>

MCNext == \/ BootPart \/ ApPart(ApNext) \/ PciPart \/ NvmePart(NvmeNext)
          \/ NetPart \/ ChecksumPart \/ RingsPart

MCVars == <<part, bootVars, apVars, pciVars, nvmeVars, netVars,
            checksumVars, ringsVars>>

(* The fairness of BootSpec, ApSpec and NvmeFairness, each for its part.   *)
(* As the part does not change, steps of different parts can be one action *)
(* here: it is enabled when the step of the part chosen is.                *)
MCSpec ==
    /\ MCInit /\ [][MCNext]_MCVars
    /\ WF_MCVars(BootPart \/ ApPart(BspStep) \/ NvmePart(DriverStep))
    /\ WF_MCVars(NvmePart(ShutdownStep)) /\ WF_MCVars(NvmePart(DeviceStep))

(* Every index and pointer of the part that runs stays in its range.       *)
MachineTypeOK ==
    /\ part = "boot" => BootTypeOK
    /\ part = "processors" => ApTypeOK
    /\ part = "nvme" => NvmeTypeOK
    /\ part \in ForMe => NetTypeOK

(* Nothing gets stuck: boot comes to an end, in the scheduler or with a    *)
(* panic (BootEnds); the boot processor gets past start_all_aps whatever   *)
(* the others do (BspGoesOn); a call of the disk driver returns unless the *)
(* machine is shut down (CallReturns).                                     *)
PartsGoOn ==
    \/ part \in {"boot", "processors"}
    \/ part = "nvme" /\ npc # "idle"
    ~> \/ part = "boot" /\ BootOver
       \/ part = "processors" /\ bsp = "done"
       \/ part = "nvme" /\ (npc = "idle" \/ shn)
=============================================================================

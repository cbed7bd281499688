------------------------------ MODULE Platform ------------------------------
(***************************************************************************)
(* How the machine is found out. Five parts share only the call counter:   *)
(*   - init_architecture's probes (src/arch/x86_64/mod.rs): the scan of    *)
(*     PCI bus 0 into the platform registry, and what the boot phases say  *)
(*     of the CPU, the chipset, the disks and the keyboards;               *)
(*     mirage-pci's enumerate and mirage-platform's discovery see the same *)
(*     bus;                                                                *)
(*   - the base address registers of a function;                           *)
(*   - the walk of a function's capabilities to the IOMMU's;               *)
(*   - mirage-amd-iommu: domains, DMA mappings, the device table and the   *)
(*     command buffer;                                                     *)
(*   - mirage-hw: MMIO regions and DMA buffers.                            *)
(* What AHCI, USB and PS/2 bring-up come to is chosen: AhciDriver,         *)
(* UsbStack and Input say how they get there.                              *)
(***************************************************************************)
EXTENDS SequencesExt, FiniteSetsExt

CONSTANTS DEVICES, FUNCTIONS, REGISTRY, Buses,   \* the machines, the registry's size
          BARS, HOPS, Offsets,                   \* registers; steps of the walk, its offsets
          PAGE, MAX_U64, TABLE, Domains, Ids,    \* IOMMU units of address; table size
          None, MaxCalls

VARIABLES pc, bus, rsdp, cpu, place, registry, scanned, phases, outcome, events,
          raw, capabilities,
          domains, table, commands, polls, iommu_answer,
          region, access,
          calls

machineVars == <<pc, bus, rsdp, cpu, place, registry, scanned, phases, outcome, events>>
iommuVars == <<domains, table, commands, polls, iommu_answer>>

Call == calls < MaxCalls /\ calls' = calls + 1

-----------------------------------------------------------------------------
(* The probes *)

\* Function 0 of a device says whether there are more functions; the functions
\* of the bus in the order they are visited.
Locations == [i \in 1..(DEVICES * FUNCTIONS) |-> <<(i - 1) \div FUNCTIONS, (i - 1) % FUNCTIONS>>]

\* Places in the registry that are not on the bus.
Cpu == 0
Rsdp == -1
I8042 == -2

\* A bus has at each location None or what is there: its kind, and whether the
\* device says it has several functions.
AmdKinds == {"amd-xhci", "iommu"}
IsXhci(kind) == kind \in {"xhci", "amd-xhci"}

PhaseNames == {"Amd64Cpu", "RyzenCpu", "RyzenTopology", "AmdSoc", "AmdIommu", "AcpiTables", "AmdGpuRenoir",
               "AmdXhci", "Nvme", "NvmeNamespace", "Ahci", "SataDisk", "Atapi", "OpticalDisk", "M2Storage",
               "I8042", "Ps2Keyboard", "Xhci", "UsbCore", "UsbHid", "UsbKeyboard", "EcHotkeys", "Input"}

\* configure_interrupts has skipped AcpiTables before the probes run.
MachineInit ==
    /\ pc = "cpu" /\ place = 1 /\ cpu = None /\ rsdp \in BOOLEAN
    /\ bus \in Buses
    /\ registry = <<>> /\ scanned = <<>>
    /\ phases = [p \in PhaseNames |-> IF p = "AcpiTables" THEN "Skipped" ELSE "Pending"]
    /\ outcome = None /\ events = None

\* PlatformRegistry::register: one entry a location, in the order of finding.
register(reg, device) ==
    IF (\E i \in DOMAIN reg : reg[i].at = device.at) \/ Len(reg) >= REGISTRY THEN reg
    ELSE Append(reg, device)

\* mark_boot_phase_detected
Detects(device) ==
    CASE device.kind = "cpu" -> {"Amd64Cpu"}
      [] device.kind = "ryzen" -> {"Amd64Cpu", "RyzenCpu"}
      [] device.kind = "nvme" -> {"Nvme"}
      [] device.kind = "ahci" -> {"Ahci"}
      [] device.kind = "gpu" -> {"AmdGpuRenoir"}
      [] device.kind = "amd-xhci" -> {"AmdXhci", "Xhci"}
      [] device.kind = "i8042" -> {"I8042"}
      [] device.kind = "acpi" -> {"AcpiTables"}
      [] OTHER -> {}

\* register_platform_device: only what was entered is announced.
Announced(ph, reg, device) ==
    [p \in PhaseNames |-> IF register(reg, device) # reg /\ p \in Detects(device) THEN "Detected" ELSE ph[p]]

register_platform_device(device) ==
    /\ registry' = register(registry, device)
    /\ phases' = Announced(phases, registry, device)

probe_cpu ==
    /\ pc = "cpu"
    /\ cpu' \in {"intel", "amd", "ryzen", "ryzen-odd"}
    /\ register_platform_device([at |-> Cpu, kind |-> IF cpu' \in {"ryzen", "ryzen-odd"} THEN "ryzen" ELSE "cpu"])
    /\ pc' = "scan"
    /\ UNCHANGED <<bus, rsdp, place, scanned, outcome, events>>

\* Functions other than the first are looked at where the first says so.
Visited(i) ==
    \/ Locations[i][2] = 0
    \/ LET first == bus[i - Locations[i][2]] IN first # None /\ first.multi

scan_pci_devices ==
    /\ pc = "scan"
    /\ IF place \in DOMAIN bus
       THEN /\ place' = place + 1
            /\ IF Visited(place) /\ bus[place] # None
               THEN /\ register_platform_device([at |-> place, kind |-> bus[place].kind])
                    /\ scanned' = Append(scanned, place)
               ELSE UNCHANGED <<registry, phases, scanned>>
            /\ UNCHANGED pc
       ELSE pc' = "report" /\ UNCHANGED <<place, registry, phases, scanned>>
    /\ UNCHANGED <<bus, rsdp, cpu, outcome, events>>

Found(reg, kinds) == \E i \in DOMAIN reg : reg[i].kind \in kinds

\* find_xhci gives the first one entered.
FirstXhci(reg) ==
    LET found == SelectSeq(reg, LAMBDA d : IsXhci(d.kind))
    IN  IF found = <<>> THEN None ELSE Head(found).kind

\* The rest of initialize_platform_probes.
initialize_platform_probes ==
    /\ pc = "report" /\ pc' = "storage"
    /\ LET acpi == [at |-> Rsdp, kind |-> "acpi"]
           reg == IF rsdp THEN register(registry, acpi) ELSE registry
           ph == IF rsdp THEN Announced(phases, registry, acpi) ELSE phases
           ryzen == cpu \in {"ryzen", "ryzen-odd"}
           soc == Found(reg, AmdKinds)
       IN  /\ registry' = reg
           /\ phases' =
                [ph EXCEPT
                   !["Amd64Cpu"] = IF cpu = "intel" THEN "Skipped" ELSE "Ok",
                   !["RyzenCpu"] = IF ryzen THEN "Ok" ELSE "Skipped",
                   !["RyzenTopology"] = CASE cpu = "ryzen" -> "Ok" [] cpu = "ryzen-odd" -> "Detected"
                                          [] OTHER -> "Skipped",
                   !["AmdSoc"] = IF soc THEN "Detected" ELSE "Skipped",
                   !["AmdIommu"] = IF rsdp /\ soc THEN "Stub" ELSE "Skipped",
                   !["AcpiTables"] = IF rsdp THEN "Ok" ELSE "Skipped",
                   !["AmdGpuRenoir"] = IF Found(reg, {"gpu"}) THEN "Detected" ELSE "Skipped",
                   !["AmdXhci"] = IF FirstXhci(reg) = "amd-xhci" THEN "Detected" ELSE "Skipped"]
    /\ UNCHANGED <<bus, rsdp, cpu, place, scanned, outcome, events>>

\* What bring_up_first_sata_disk may come to: a SATA disk, optical media, neither.
AhciOutcomes ==
    {o \in [status : {"Online", "NoDisk", "Failed"}, sata : BOOLEAN, media : BOOLEAN] :
        o.status = "Online" <=> (o.sata \/ o.media)}

StoragePhases(ph, nvme, ahci, o) ==
    LET optical == IF o.media THEN "Online" ELSE "Skipped"
        disks == IF ~ahci THEN [Ahci |-> "Skipped", SataDisk |-> "Skipped", Atapi |-> "Skipped",
                                OpticalDisk |-> "Skipped"]
                 ELSE IF o.status = "Failed"
                 THEN [Ahci |-> "Failed", SataDisk |-> "Skipped", Atapi |-> ph["Atapi"],
                       OpticalDisk |-> ph["OpticalDisk"]]
                 ELSE [Ahci |-> IF o.status = "Online" THEN "Online" ELSE "Ok",
                       SataDisk |-> IF o.sata THEN "Online" ELSE "Skipped",
                       Atapi |-> optical, OpticalDisk |-> optical]
    IN  [p \in PhaseNames |->
           IF p \in DOMAIN disks THEN disks[p]
           ELSE CASE p = "Nvme" -> IF nvme THEN "Failed" ELSE "Skipped"
                  [] p = "NvmeNamespace" -> "Skipped"
                  [] p = "M2Storage" -> IF ahci /\ o.sata THEN "Online" ELSE "Skipped"
                  [] OTHER -> ph[p]]

initialize_storage_hardware ==
    /\ pc = "storage" /\ pc' = "input"
    /\ \E o \in AhciOutcomes :
         /\ outcome' = [ahci |-> o, keyboards |-> {}]
         /\ phases' = StoragePhases(phases, Found(registry, {"nvme"}), Found(registry, {"ahci"}), o)
    /\ UNCHANGED <<bus, rsdp, cpu, place, registry, scanned, events>>

UsbPhases == <<"Xhci", "UsbCore", "UsbHid", "UsbKeyboard">>

\* mark_driver_phase for the modules up of the USB stack, and the one that stopped it.
initialize_input_hardware ==
    /\ pc = "input" /\ pc' = "done"
    /\ \E ps2 \in BOOLEAN, up \in IF FirstXhci(registry) = None THEN {0} ELSE 0..4,
          stop \in {"Skipped", "Failed"}, ec \in BOOLEAN :
         /\ FirstXhci(registry) = None => stop = "Skipped"
         /\ ec => rsdp
         /\ LET i8042 == [at |-> I8042, kind |-> "i8042"]
                usb(p) == LET i == CHOOSE i \in 1..4 : UsbPhases[i] = p
                          IN  IF i <= up THEN "Online" ELSE IF i = up + 1 THEN stop ELSE "Skipped"
            IN  /\ registry' = register(registry, i8042)
                /\ outcome' = [outcome EXCEPT !.keyboards =
                                 {k \in {"ps2", "usb", "ec"} : CASE k = "ps2" -> ps2 [] k = "usb" -> up = 4 [] OTHER -> ec}]
                /\ phases' = [p \in PhaseNames |->
                                CASE p = "I8042" -> "Ok"
                                  [] p = "Ps2Keyboard" -> IF ps2 THEN "Ok" ELSE "Degraded"
                                  [] p \in Range(UsbPhases) -> usb(p)
                                  [] p = "EcHotkeys" -> IF ec THEN "Ok" ELSE "Skipped"
                                  [] p = "Input" -> IF ps2 \/ up = 4 \/ ec THEN "Ok" ELSE "Skipped"
                                  [] OTHER -> phases[p]]
    /\ UNCHANGED <<bus, rsdp, cpu, place, scanned, events>>

\* PciBus::enumerate reads only ordinary headers: a bridge among the functions it
\* visits ends it with an error. PlatformService::discover_pci_bus then enters the
\* functions, and tells the supervisor of each candidate; IOMMUs come last.
Listed == SelectSeq([i \in DOMAIN bus |-> i], LAMBDA i : Visited(i) /\ bus[i] # None)
Role(kind) ==
    CASE kind = "ahci" -> "AhciStorage"
      [] kind = "nvme" -> "NvmeStorage"
      [] IsXhci(kind) -> "XhciUsb"
      [] kind = "gpu" -> "AmdGpuDisplay"
      [] OTHER -> None

discover_pci_bus ==
    /\ pc = "done" /\ pc' = "discovered"
    /\ LET candidates == SelectSeq(Listed, LAMBDA i : Role(bus[i].kind) # None)
           iommus == SelectSeq(Listed, LAMBDA i : bus[i].kind = "iommu")
           told == [i \in DOMAIN candidates |-> <<candidates[i], Role(bus[candidates[i]].kind)>>]
       IN  events' = IF \E i \in Range(Listed) : bus[i].kind = "bridge" THEN [answer |-> "UnsupportedHeaderType"]
                     ELSE [answer |-> "Ok",
                           list |-> told \o FlattenSeq([i \in DOMAIN iommus |->
                                       <<<<iommus[i], "AmdIommu">>, <<iommus[i], "IommuCapability">>>>]),
                           registry |-> FoldLeft(LAMBDA reg, i : register(reg, [at |-> i, kind |-> bus[i].kind]),
                                                 <<[at |-> Cpu, kind |-> "cpu"]>>, Listed)]
    /\ UNCHANGED <<bus, rsdp, cpu, place, registry, scanned, phases, outcome>>

MachineNext ==
    probe_cpu \/ scan_pci_devices \/ initialize_platform_probes \/ initialize_storage_hardware
    \/ initialize_input_hardware \/ discover_pci_bus

\* The registry has each function that was found, once, in the order of the bus,
\* as long as there is room. When the probes are over a phase says a disk, a
\* chipset, a GPU or a keyboard is there exactly when it is; the AMD xHCI only
\* when no other xHCI came first. And discovery tells of every candidate once,
\* the ones the full registry turned away included.
MachineReported ==
    LET entered(P(_)) == \E i \in DOMAIN registry : P(registry[i].kind)
        pci == SelectSeq(registry, LAMBDA d : d.at \in DOMAIN Locations)
    IN  /\ pci = [i \in 1..Len(pci) |-> [at |-> scanned[i], kind |-> bus[scanned[i]].kind]]
        /\ Len(pci) = Min({Len(scanned), REGISTRY - 1})
        /\ pc \in {"done", "discovered"} =>
             /\ phases["Nvme"] = "Failed" <=> entered(LAMBDA k : k = "nvme")
             /\ phases["SataDisk"] = "Online" <=> entered(LAMBDA k : k = "ahci") /\ outcome.ahci.sata
             /\ phases["M2Storage"] = phases["SataDisk"]
             /\ phases["AmdGpuRenoir"] = "Detected" <=> entered(LAMBDA k : k = "gpu")
             /\ phases["AmdXhci"] = "Detected" => entered(LAMBDA k : k = "amd-xhci")
             /\ entered(LAMBDA k : k = "amd-xhci") /\ ~entered(LAMBDA k : k = "xhci") => phases["AmdXhci"] = "Detected"
             /\ phases["AcpiTables"] = "Ok" <=> rsdp
             /\ phases["Input"] = "Ok" <=> outcome.keyboards # {}
             /\ "Pending" \in Range(phases) => phases["Ahci"] = "Failed"
        /\ pc = "discovered" /\ events.answer = "Ok" =>
             /\ \A i \in Range(scanned) :
                  Cardinality({j \in DOMAIN events.list : events.list[j][1] = i}) =
                     IF bus[i].kind = "iommu" THEN 2 ELSE 1
             /\ SelectSeq(events.registry, LAMBDA d : d.at # Cpu) = pci

-----------------------------------------------------------------------------
(* Base address registers *)

Registers == {"none", "io", "memory32", "memory64", "reserved"}

BarInit == raw = [values |-> None, probed |-> None, parsed |-> None]

\* pci_probe_bars of the kernel, from register i on: a 64-bit one takes the next.
pci_probe_bars(values) ==
    LET from[i \in 0..(BARS + 1)] ==
            IF i >= BARS THEN <<>>
            ELSE CASE values[i] = "none" -> <<"none">> \o from[i + 1]
                   [] values[i] = "io" -> <<"io">> \o from[i + 1]
                   [] values[i] = "memory64" /\ i + 1 < BARS -> <<"memory64", "none">> \o from[i + 2]
                   [] OTHER -> <<"memory32">> \o from[i + 1]
    IN  from[0]

\* PciBar::from_config_raw in PciHeader::parse: a reserved type is an error.
parse_header(values) ==
    LET from[i \in 0..(BARS + 1)] ==
            IF i >= BARS THEN <<>>
            ELSE IF values[i] = "reserved" THEN None
            ELSE LET two == values[i] = "memory64" /\ i + 1 < BARS
                     rest == from[IF two THEN i + 2 ELSE i + 1]
                 IN  IF rest = None THEN None
                     ELSE (IF two THEN <<"memory64", "none">> ELSE <<values[i]>>) \o rest
    IN  from[0]

decode ==
    /\ raw.values = None
    /\ \E values \in [0..(BARS - 1) -> Registers] :
         raw' = [values |-> values, probed |-> pci_probe_bars(values), parsed |-> parse_header(values)]

\* The upper half of a 64-bit register is never taken for a register of its own,
\* every other register is decoded, and the kernel's probe and mirage-pci agree
\* on every function mirage-pci accepts, but for a 64-bit register in the last
\* place, which the kernel takes for a 32-bit one.
BarsAgree ==
    raw.values # None =>
      LET upper(i) == \E j \in 0..(i - 1) :
                         /\ \A k \in j..(i - 1) : raw.values[k] = "memory64"
                         /\ (i - j) % 2 = 1
                         /\ j = 0 \/ raw.values[j - 1] # "memory64"
      IN  \A i \in 0..(BARS - 1) :
            /\ raw.probed[i + 1] # "none" <=> raw.values[i] # "none" /\ ~upper(i)
            /\ raw.parsed # None =>
                 \/ raw.parsed[i + 1] = raw.probed[i + 1]
                 \/ i = BARS - 1 /\ raw.parsed[i + 1] = "memory64" /\ raw.probed[i + 1] = "memory32"

-----------------------------------------------------------------------------
(* The capability list of a PCI function *)

\* The first offset, and at each offset what is there and the next one; 0 ends.
CapabilityInit == capabilities = [list |-> None, answer |-> None]

Lists == [first : Offsets \cup {0}, at : [Offsets -> [iommu : BOOLEAN, next : Offsets \cup {0}]]]

NotFound == 0
Malformed == -1

parse_iommu_capability(list) ==
    LET from[hops \in 0..HOPS, offset \in Offsets \cup {0}] ==
            IF hops = HOPS THEN Malformed
            ELSE IF offset = 0 THEN NotFound
            ELSE IF list.at[offset].iommu THEN offset
            ELSE from[hops + 1, list.at[offset].next]
    IN  from[0, list.first]

walk ==
    /\ capabilities.list = None
    /\ \E list \in Lists : capabilities' = [list |-> list, answer |-> parse_iommu_capability(list)]

\* Whatever the list looks like, loops included, the walk ends; it finds an IOMMU
\* exactly when one can be reached, as no list is longer than HOPS.
WalkFinds ==
    capabilities.list # None =>
      LET list == capabilities.list
          closed == {S \in SUBSET Offsets : /\ list.first \in S \cup {0}
                                            /\ \A c \in S : list.at[c].next \in S \cup {0}}
          reached == {o \in Offsets : \A S \in closed : o \in S}
      IN  /\ capabilities.answer > 0 => capabilities.answer \in reached /\ list.at[capabilities.answer].iommu
          /\ capabilities.answer <= 0 => \A o \in reached : ~list.at[o].iommu

-----------------------------------------------------------------------------
(* mirage-amd-iommu *)

IommuInit ==
    /\ domains = [d \in Domains |-> None]
    /\ table = [i \in 0..(TABLE - 1) |-> None]
    /\ commands = <<>> /\ polls = <<>> /\ iommu_answer = "none"

Answer(a) == iommu_answer' = a

create_domain ==
    /\ Call
    /\ \E d \in Domains :
         IF domains[d] # None THEN Answer("DomainAlreadyExists") /\ UNCHANGED domains
         ELSE Answer("Ok") /\ domains' = [domains EXCEPT ![d] = [mappings |-> <<>>, devices |-> {}]]
    /\ UNCHANGED <<table, commands, polls>>

Overflows(m) == m.start + m.length > MAX_U64
Overlap(m, n) == m.start < n.start + n.length /\ n.start < m.start + m.length

\* The existing mappings in turn: an end that overflows is found in the comparison.
OverlapAnswer(mappings, m) ==
    LET first == SelectInSeq(mappings, LAMBDA n : Overflows(n) \/ Overflows(m) \/ Overlap(n, m))
    IN  IF first = 0 THEN "Ok"
        ELSE IF Overflows(mappings[first]) \/ Overflows(m) THEN "InvalidMapping" ELSE "MappingOverlap"

map_dma_region ==
    /\ Call
    /\ \E d \in {d \in Domains : domains[d] # None}, start \in 0..MAX_U64, length \in 0..MAX_U64, authority \in BOOLEAN :
         LET m == [start |-> start, length |-> length]
             a == IF length = 0 \/ start % PAGE # 0 THEN "InvalidMapping"
                  ELSE IF ~authority THEN "DmaDenied" ELSE OverlapAnswer(domains[d].mappings, m)
         IN  /\ Answer(a)
             /\ domains' = IF a = "Ok" THEN [domains EXCEPT ![d].mappings = Append(@, m)] ELSE domains
    /\ UNCHANGED <<table, commands, polls>>

unmap_dma_region ==
    /\ Call
    /\ \E d \in {d \in Domains : domains[d] # None}, start \in 0..MAX_U64, length \in 0..MAX_U64 :
         LET i == SelectInSeq(domains[d].mappings, LAMBDA n : n = [start |-> start, length |-> length])
         IN  /\ Answer(IF i = 0 THEN "MappingNotFound" ELSE "Ok")
             /\ domains' = IF i = 0 THEN domains ELSE [domains EXCEPT ![d].mappings = RemoveAt(@, i)]
    /\ UNCHANGED <<table, commands, polls>>

\* The domain lists the device before the table has it, and whether or not it
\* comes to have it.
assign_device_to_domain ==
    /\ Call
    /\ \E id \in Ids, d \in Domains, aligned \in BOOLEAN :
         IF domains[d] = None THEN Answer("DomainNotFound") /\ UNCHANGED <<domains, table>>
         ELSE LET a == IF ~aligned THEN "InvalidDeviceTableEntry"
                       ELSE IF id \notin DOMAIN table THEN "DeviceTableTooSmall" ELSE "Ok"
              IN  /\ Answer(a)
                  /\ domains' = [domains EXCEPT ![d].devices = @ \cup {id}]
                  /\ table' = IF a = "Ok" THEN [table EXCEPT ![id] = d] ELSE table
    /\ UNCHANGED <<commands, polls>>

submit_with_completion ==
    /\ Call
    /\ \E n \in 0..2 : commands' = Append(commands, [polls_remaining |-> n, completed |-> FALSE])
    /\ polls' = Append(polls, [needs |-> commands'[Len(commands')].polls_remaining, made |-> 0])
    /\ Answer("Ok")
    /\ UNCHANGED <<domains, table>>

\* One poll: a completed command stays so.
Polled(c) ==
    IF c.completed THEN c
    ELSE IF c.polls_remaining = 0 THEN [c EXCEPT !.completed = TRUE]
    ELSE [c EXCEPT !.polls_remaining = @ - 1]

\* wait_for_completion polls until the answer is Completed, timeout times at most.
wait_for_completion ==
    /\ Call
    /\ \E ticket \in 1..(Len(commands) + 1), timeout \in 0..2 :
         IF ticket \notin DOMAIN commands
         THEN Answer(IF timeout = 0 THEN "CommandTimeout" ELSE "UnknownCommand") /\ UNCHANGED <<commands, polls>>
         ELSE LET state[n \in 0..timeout] == IF n = 0 THEN commands[ticket] ELSE Polled(state[n - 1])
                  done == {n \in 1..timeout : state[n].completed}
                  n == IF done = {} THEN timeout ELSE Min(done)
              IN  /\ Answer(IF done = {} THEN "CommandTimeout" ELSE "Ok")
                  /\ commands' = [commands EXCEPT ![ticket] = state[n]]
                  /\ polls' = [polls EXCEPT ![ticket].made = @ + n]
    /\ UNCHANGED <<domains, table>>

IommuNext ==
    create_domain \/ map_dma_region \/ unmap_dma_region \/ assign_device_to_domain
    \/ submit_with_completion \/ wait_for_completion

\* The mappings of a domain never overlap, and one whose end overflows is alone
\* in it; a device the table gives to a domain is one the domain lists; a command
\* is complete exactly when it was polled often enough, over all the waits for it.
IommuSound ==
    /\ \A d \in Domains : domains[d] # None =>
         \A i, j \in DOMAIN domains[d].mappings : i # j =>
            /\ ~Overflows(domains[d].mappings[i])
            /\ ~Overlap(domains[d].mappings[i], domains[d].mappings[j])
    /\ \A i \in DOMAIN table : table[i] # None => domains[table[i]] # None /\ i \in domains[table[i]].devices
    /\ \A i \in DOMAIN commands : commands[i].completed <=> polls[i].made > polls[i].needs

-----------------------------------------------------------------------------
(* mirage-hw *)

HardwareInit == region = None /\ access = None

\* MmioRegion::new and, with pages, DmaBuffer::new.
new_region ==
    /\ region = None
    /\ \E phys \in 0..MAX_U64, virt \in 0..MAX_U64, length \in 0..MAX_U64, dma \in BOOLEAN, authority \in BOOLEAN :
         /\ length > 0
         /\ dma => phys % PAGE = 0 /\ virt % PAGE = 0 /\ length % PAGE = 0
         /\ phys + length <= MAX_U64 /\ virt + length <= MAX_U64
         /\ authority
         /\ region' = [phys |-> phys, virt |-> virt, length |-> length, dma |-> dma]
    /\ UNCHANGED access

access_ptr(offset, width) ==
    IF offset + width > MAX_U64 THEN [answer |-> "RangeOverflow"]
    ELSE IF offset + width > region.length THEN [answer |-> "OutOfRange"]
    ELSE IF offset % width # 0 THEN [answer |-> "MisalignedAccess"]
    ELSE [answer |-> "Ok", from |-> region.virt + offset, width |-> width]

touch ==
    /\ region # None /\ ~region.dma /\ access = None
    /\ \E offset \in 0..MAX_U64, width \in {1, 2, 4} : access' = access_ptr(offset, width)
    /\ UNCHANGED region

HardwareNext == new_region \/ touch

\* A register access never leaves the region it was granted, and is aligned when
\* the region's mapping is.
AccessesStayInside ==
    access # None /\ access.answer = "Ok" =>
      /\ access.from >= region.virt /\ access.from + access.width <= region.virt + region.length
      /\ region.virt % 4 = 0 => access.from % access.width = 0
=============================================================================

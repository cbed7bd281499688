----------------------------- MODULE MCDevices -----------------------------
(***************************************************************************)
(* The drivers: disk and USB controllers, the kernel's AHCI disk and USB   *)
(* keyboard stack, the PS/2 keyboard with the common input queue, the      *)
(* device table, the screens and the discovery of the machine; one of them *)
(* per behaviour. calls counts the calls of the part that runs.            *)
(***************************************************************************)
EXTENDS Integers, FiniteSets, Sequences

CONSTANTS None,
          Parts     \* the parts a run explores

VARIABLES part, calls,
          sq, cq, popped, ports, identified, next_slot, command_ring, event_ring, next_tag,
          issued, answer, kind, authority, state, devices, hotplug_events, plugs, blocks, descriptors,
          implemented, attached, disk_port, disk_status, registered, frames, disk_held, disk_pc,
          disk_request, buffer, device, ci, err, disk_answer,
          usb_status, usb_phase, usb_pc, usb_todo, waiting, xhci, ctl, slot, id, usb_devices, hids,
          storage, dcbaa, usb_port, tally, cursor, usb_ring, hw, executing, event, transfer, primed,
          report, pressed, sent, slipped, foreign, silent,
          irq_mode, set, decoder, own, queue, dropped, busy_drops, state_lock, queue_lock, todo,
          attempt, pc, byte, pending, budget, requeue, out, owed, phys, strokes, stamp, taken,
          forgotten, disturbed, shuffled,
          registry, next_id, framebuffer, gpu, held, step, table_attempt, wanted, present, missed,
          result, serial, accepted, delivered, request, geometry, memory, column, row, rendering,
          ui_cleared, online, grid, ring, sequence, entry, interrupted, pushed, display, tried,
          machine_pc, bus, rsdp, cpu, place, platform, scanned, phases, outcome, events,
          raw, capabilities, domains, table, commands, polls, iommu_answer, region, access

queueVars == <<sq, cq, popped>>
portVars == <<ports, identified, next_slot>>
ringVars == <<command_ring, event_ring, next_tag>>
mockVars == <<kind, authority, state, devices, hotplug_events, plugs, blocks>>
controllerVars == <<queueVars, portVars, ringVars, mockVars, issued, answer, descriptors>>
diskVars == <<implemented, attached, disk_port, disk_status, registered, frames, disk_held, disk_pc,
              disk_request, buffer, device, ci, err, disk_answer>>
usbVars == <<usb_status, usb_phase, usb_pc, usb_todo, waiting, xhci, ctl, slot, id, usb_devices, hids,
             storage, dcbaa, usb_port, tally, cursor, usb_ring, hw, executing, event, transfer, primed,
             report, pressed, sent, slipped, foreign, silent>>
inputVars == <<irq_mode, set, decoder, own, queue, dropped, busy_drops, state_lock, queue_lock, todo,
               attempt, pc, byte, pending, budget, requeue, out, owed, phys, strokes, stamp, taken,
               forgotten, disturbed, shuffled>>
tableVars == <<registry, next_id, framebuffer, gpu, held, step, table_attempt, wanted, present,
               missed, result>>
serialVars == <<serial, accepted, delivered>>
screenVars == <<geometry, memory, column, row, rendering, ui_cleared, online, grid>>
logVars == <<ring, sequence, entry, interrupted, pushed>>
displayVars == <<display, tried>>
deviceVars == <<tableVars, serialVars, request, screenVars, logVars, displayVars>>
machineVars == <<machine_pc, bus, rsdp, cpu, place, platform, scanned, phases, outcome, events>>
iommuVars == <<domains, table, commands, polls, iommu_answer>>
platformVars == <<machineVars, raw, capabilities, iommuVars, region, access>>
vars == <<part, calls, controllerVars, diskVars, usbVars, inputVars, deviceVars, platformVars>>

-----------------------------------------------------------------------------
Ctl == INSTANCE Controllers WITH
    DEPTH <- 3, SLOTS <- 2, MAX_TAG <- 3, Ports <- {0, 1}, Addresses <- {1, 2}, MaxCalls <- 6

\* A port takes four of the five frames.
Disk == INSTANCE AhciDriver WITH
    PORTS <- 2, MAX_U64 <- 3, BOUNCE <- 2, Counts <- 0..3, Sizes <- {0, 3}, FRAMES <- 5, MaxCalls <- 2,
    port <- disk_port, status <- disk_status, held <- disk_held, pc <- disk_pc,
    request <- disk_request, answer <- disk_answer

\* Two keyboards, a command ring that wraps, and DMA addresses that run out.
Usb == INSTANCE UsbStack WITH
    PORTS <- 3, MAX_DEVICES <- 2, MAX_HIDS <- 2, RING <- 3, BUDGET <- 34, Keys <- {1, 2}, MaxReports <- 2,
    status <- usb_status, phase <- usb_phase, pc <- usb_pc, todo <- usb_todo, devices <- usb_devices,
    port <- usb_port, ring <- usb_ring

\* A keyboard that answers during its initialization, at once or when told again.
Handshake == INSTANCE Input WITH
    Keys <- {"esc", "up", "shift"}, Extended <- {"up"}, CAPACITY <- 2, REQUEUE <- 1, LIMIT <- 2,
    RETRIES <- 2, Replies <- {"answers", "resend"}, Modes <- {FALSE}, Calls <- {}, MaxStrokes <- 1

\* A keyboard that is typed on while the kernel polls and interrupts come.
Typing == INSTANCE Input WITH
    Keys <- {"esc", "up"}, Extended <- {"up"}, CAPACITY <- 2, REQUEUE <- 1, LIMIT <- 2,
    RETRIES <- 2, Replies <- {"silent"}, Modes <- BOOLEAN,
    Calls <- {"take", "read", "escape", "hotkey"}, MaxStrokes <- 3

\* Screens with and without a margin right, below and behind the rows, one too
\* small for a cell, and one whose pitch is too short.
Size(width, height, pitch) == [width |-> width, height |-> height, pitch |-> pitch]

Dev == INSTANCE Devices WITH
    MAX <- 9, Real <- <<"uart", "ps2", "ahci">>, RETRIES <- 2, Infos <- {"a", "b"}, CAPACITY <- 3,
    SECTOR <- 2, SECTORS <- 2, MAX_U64 <- 7, CELL <- 2, TAB <- 2, BPP <- 2, Chars <- {"x", "y"},
    LOG <- 3, MaxCalls <- 5, attempt <- table_attempt,
    Geometries <- {Size(4, 4, 9), Size(5, 5, 10), Size(1, 3, 3), Size(4, 2, 8), Size(2, 6, 4), Size(2, 6, 3)}

\* Two devices of two functions on the bus: storage before and behind another
\* function, AMD's xHCI before, behind and without another one, and functions
\* that only show when the first one says there are more.
F(k, multi) == [kind |-> k, multi |-> multi]

AllBuses ==
    {<<a, b, c, d>> :
        a \in {None, F("ahci", FALSE), F("nvme", FALSE), F("xhci", TRUE), F("bridge", TRUE)},
        b \in {None, F("amd-xhci", FALSE)},
        c \in {None, F("amd-xhci", FALSE), F("gpu", TRUE), F("iommu", TRUE), F("ahci", TRUE)},
        d \in {None, F("nvme", FALSE)}}

Plat == INSTANCE Platform WITH
    DEVICES <- 2, FUNCTIONS <- 2, REGISTRY <- 4, Buses <- AllBuses, BARS <- 4, HOPS <- 3,
    Offsets <- 1..3, PAGE <- 2, MAX_U64 <- 7, TABLE <- 2, Domains <- {"d", "e"}, Ids <- 0..2,
    MaxCalls <- 4, pc <- machine_pc, registry <- platform

-----------------------------------------------------------------------------
\* A component that is not the part that runs stays in one state.
Init ==
    /\ part \in Parts
    /\ calls = 0 /\ issued = 0 /\ answer = None
    /\ Ctl!QueueInit /\ Ctl!XhciInit
    /\ IF part = "ports" THEN Ctl!AhciInit ELSE ports = <<>> /\ identified = {} /\ next_slot = 0
    /\ IF part = "mock" THEN Ctl!MockInit
       ELSE /\ kind = None /\ authority = None /\ state = None /\ devices = None
            /\ hotplug_events = 0 /\ plugs = 0 /\ blocks = None
    /\ IF part = "descriptors" THEN Ctl!DescriptorInit ELSE descriptors = <<>>
    /\ IF part = "disk" THEN Disk!AhciInit
       ELSE /\ implemented = {} /\ attached = None /\ disk_port = 0 /\ disk_status = None
            /\ registered = None /\ frames = 0 /\ disk_held = 0 /\ disk_pc = "platform"
            /\ disk_request = None /\ buffer = None /\ device = None /\ ci = FALSE /\ err = FALSE
            /\ disk_answer = None
    /\ Usb!UsbInit
    /\ IF part = "typing" THEN Typing!InputInit ELSE Handshake!InputInit
    /\ Dev!TableInit /\ Dev!SerialInit /\ Dev!RequestInit /\ Dev!LogInit
    /\ IF part = "screen" THEN Dev!ScreenInit
       ELSE /\ geometry = None /\ memory = None /\ column = 0 /\ row = 0 /\ grid = None
            /\ rendering = None /\ ui_cleared = FALSE /\ online = FALSE
    /\ IF part = "display" THEN Dev!DisplayInit ELSE display = None /\ tried = None
    /\ IF part = "machine" THEN Plat!MachineInit
       ELSE /\ machine_pc = "off" /\ bus = None /\ rsdp = FALSE /\ cpu = None /\ place = 1
            /\ platform = <<>> /\ scanned = <<>> /\ phases = None /\ outcome = None /\ events = None
    /\ Plat!BarInit /\ Plat!CapabilityInit /\ Plat!IommuInit /\ Plat!HardwareInit

ControllerNext ==
    /\ \/ part = "queues" /\ Ctl!QueueNext /\ UNCHANGED <<portVars, ringVars, mockVars, descriptors>>
       \/ part = "ports" /\ Ctl!AhciNext /\ UNCHANGED <<queueVars, ringVars, mockVars, descriptors>>
       \/ part = "rings" /\ Ctl!bot_scsi /\ UNCHANGED <<queueVars, portVars, mockVars, descriptors>>
       \/ part = "mock" /\ Ctl!MockNext /\ UNCHANGED <<queueVars, portVars, ringVars, descriptors>>
       \/ part = "descriptors" /\ Ctl!parse /\ UNCHANGED <<queueVars, portVars, ringVars, mockVars, issued>>
    /\ UNCHANGED <<diskVars, usbVars, inputVars, deviceVars, platformVars>>

KeyboardNext ==
    /\ \/ part = "usb" /\ Usb!UsbNext /\ UNCHANGED inputVars
       \/ part = "handshake" /\ Handshake!InputNext /\ UNCHANGED usbVars
       \/ part = "typing" /\ Typing!InputNext /\ UNCHANGED usbVars
    /\ UNCHANGED <<calls, controllerVars, diskVars, deviceVars, platformVars>>

DeviceNext ==
    /\ \/ part = "table" /\ Dev!TableNext
          /\ UNCHANGED <<serialVars, request, screenVars, logVars, displayVars>>
       \/ part = "serial" /\ Dev!SerialNext
          /\ UNCHANGED <<tableVars, request, screenVars, logVars, displayVars>>
       \/ part = "sectors" /\ Dev!transfer
          /\ UNCHANGED <<tableVars, serialVars, screenVars, logVars, displayVars>>
       \/ part = "screen" /\ Dev!ScreenNext
          /\ UNCHANGED <<tableVars, serialVars, request, logVars, displayVars, calls>>
       \/ part = "log" /\ Dev!LogNext
          /\ UNCHANGED <<tableVars, serialVars, request, screenVars, displayVars>>
       \/ part = "display" /\ Dev!DisplayNext
          /\ UNCHANGED <<tableVars, serialVars, request, screenVars, logVars>>
    /\ UNCHANGED <<controllerVars, diskVars, usbVars, inputVars, platformVars>>

PlatformNext ==
    /\ \/ part = "machine" /\ Plat!MachineNext
          /\ UNCHANGED <<raw, capabilities, iommuVars, region, access, calls>>
       \/ part = "bars" /\ Plat!decode
          /\ UNCHANGED <<machineVars, capabilities, iommuVars, region, access, calls>>
       \/ part = "capabilities" /\ Plat!walk
          /\ UNCHANGED <<machineVars, raw, iommuVars, region, access, calls>>
       \/ part = "iommu" /\ Plat!IommuNext
          /\ UNCHANGED <<machineVars, raw, capabilities, region, access>>
       \/ part = "mmio" /\ Plat!HardwareNext
          /\ UNCHANGED <<machineVars, raw, capabilities, iommuVars, calls>>
    /\ UNCHANGED <<controllerVars, diskVars, usbVars, inputVars, deviceVars>>

Next ==
    /\ UNCHANGED part
    /\ \/ ControllerNext
       \/ /\ part = "disk" /\ Disk!AhciNext
          /\ UNCHANGED <<controllerVars, usbVars, inputVars, deviceVars, platformVars>>
       \/ KeyboardNext
       \/ DeviceNext
       \/ PlatformNext

Spec == Init /\ [][Next]_vars

-----------------------------------------------------------------------------
\* A disk read that succeeds hands out the blocks it asked for, also after
\* commands that timed out and ended late (ahci.rs read_blocks); the disk that is
\* registered is the first there is. The controller crates move data only with
\* authority and while online, announce each plug once, leave no command in a slot
\* and no event in the ring for the next call, count heads, tails and phases right
\* round their rings, and find the USB storage interface exactly when there is one.
DiskDataSound ==
    /\ part = "disk" => Disk!ReadsItsOwn /\ Disk!FirstIsRegistered
    /\ part = "queues" => Ctl!QueueSound
    /\ part = "ports" => Ctl!SlotsFree
    /\ part = "rings" => Ctl!EventsMatched
    /\ part = "mock" => Ctl!AuthorityFirst
    /\ part = "descriptors" => Ctl!InterfaceFound

\* The events published add up to the keys of the last report and, on PS/2, to the
\* keys held down as soon as every byte was seen, whatever was answered late; each
\* event made is queued, delivered or counted as lost, in order unless the debug
\* key was searched; a USB module is online only with the one below, and driver
\* and controller stay at the same place of the command ring.
KeysReachTheQueue ==
    /\ part = "usb" => Usb!ModulesStack /\ Usb!InStep /\ Usb!KeysTracked
    /\ part = "handshake" => Handshake!EventsAccounted /\ Handshake!KeysDecoded /\ Handshake!InOrder
    /\ part = "typing" => Typing!EventsAccounted /\ Typing!KeysDecoded /\ Typing!InOrder

\* The screen shows what was written as a terminal would, on every geometry, and
\* nothing outside it is touched; the serial bytes and the boot log come out in
\* order; the device table has each driver once; transfers, register accesses and
\* DMA mappings stay in their range; displays change only with a live capability;
\* and the boot phases tell exactly the hardware that the scans found.
DevicesTellTheTruth ==
    /\ part = "screen" => Dev!ScreenShows
    /\ part = "table" => Dev!InstallSound
    /\ part = "serial" => Dev!SerialSound
    /\ part = "sectors" => Dev!TransfersFit
    /\ part = "log" => Dev!LogSound
    /\ part = "display" => Dev!DisplaySound
    /\ part = "machine" => Plat!MachineReported
    /\ part = "bars" => Plat!BarsAgree
    /\ part = "capabilities" => Plat!WalkFinds
    /\ part = "iommu" => Plat!IommuSound
    /\ part = "mmio" => Plat!AccessesStayInside
=============================================================================

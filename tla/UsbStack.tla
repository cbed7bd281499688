------------------------------ MODULE UsbStack ------------------------------
(***************************************************************************)
(* The boot USB stack, arch/x86_64/xhci_keyboard.rs: four driver modules   *)
(* run one after the other (xHCI host, USB core, HID, keyboard), each only *)
(* when the boot phase of the one before came up.                          *)
(*                                                                         *)
(* The controller is external and behaves as the driver expects: it takes  *)
(* the command at its own place of the command ring when it likes, and     *)
(* puts every event in the first entry of the event ring.  The driver      *)
(* clears that entry before each request, waits a bounded time, and keeps  *)
(* its place in the ring only when the request succeeded.  Every address   *)
(* handed to the controller is charged to a ledger that is never credited. *)
(***************************************************************************)
EXTENDS Integers, Sequences, FiniteSets, SequencesExt, FiniteSetsExt

CONSTANTS PORTS,        \* root ports of the controller
          MAX_DEVICES,  \* MAX_USB_DEVICES
          MAX_HIDS,     \* MAX_HID_DEVICES
          RING,         \* usable entries of the command ring (31)
          BUDGET,       \* addresses the DMA ledger can account for
          Keys,         \* keys of a keyboard
          None,
          MaxReports    \* reports the keyboards send

VARIABLES status, phase,   \* DriverRegistry; the boot phases, by module
          pc,              \* the module that is running
          todo,            \* what is left of the work on one device
          waiting,         \* None, "command" or "transfer"
          xhci,            \* UsbDriverStackState::xhci: the stored controller
          ctl,             \* the copy a module works on
          slot, id,        \* of the device being worked on
          devices, hids, storage, dcbaa,
          port, tally,     \* where the port scan is; what it saw
          cursor,          \* XhciEarlyDmaArena
          ring, hw,        \* command ring; the controller's place in it
          executing,       \* the command the controller has taken
          event,           \* first entry of the event ring
          transfer,        \* slot whose control transfer is under way
          primed,          \* device ids whose report transfer is under way
          report,          \* USB_INTERRUPT_REPORT_BUFFER by device id
          pressed,         \* keys held down, as the published events tell it
          sent,            \* reports sent so far
          slipped,         \* a command timed out or failed
          foreign,         \* a command was answered by another one's event
          silent           \* device ids whose report transfer failed

stackVars == <<status, phase, xhci, devices, hids, storage>>
driveVars == <<pc, todo, waiting, ctl, slot, id, dcbaa, port, tally, cursor>>
wireVars == <<ring, hw, executing, event, transfer, primed, report, silent>>
pastVars == <<pressed, sent, slipped, foreign>>

Modules == <<"xhci", "core", "hid", "kbd">>

\* Keys of a report: its array has six entries, here two.
Reports == [1..2 -> Keys \cup {0}]
Down(r) == {r[i] : i \in DOMAIN r} \ {0}
NoReport == [i \in 1..2 |-> 0]

UsbInit ==
    /\ status = [m \in Range(Modules) |-> "Registered"]
    /\ phase = [m \in Range(Modules) |-> "Pending"]
    /\ pc = "xhci" /\ todo = <<>> /\ waiting = None
    /\ xhci = None /\ ctl = None /\ slot = 0 /\ id = 0
    /\ devices = <<>> /\ hids = <<>> /\ storage = 0 /\ dcbaa = <<>>
    /\ port = 0 /\ tally = [connected |-> 0, address |-> FALSE, descriptor |-> FALSE]
    /\ cursor = 0
    /\ ring = [i \in 0..(RING - 1) |-> None]
    /\ hw = [index |-> 0, cycle |-> TRUE, slots |-> 0]
    /\ executing = None /\ event = None /\ transfer = 0
    /\ primed = {} /\ silent = {}
    /\ report = [d \in 1..MAX_DEVICES |-> NoReport]
    /\ pressed = [d \in 1..MAX_DEVICES |-> {}]
    /\ sent = 0 /\ slipped = FALSE /\ foreign = FALSE

-----------------------------------------------------------------------------
(* run_dependency_gated_module *)

Dependency == [xhci |-> None, core |-> "xhci", hid |-> "core", kbd |-> "hid"]
After == [xhci |-> "core", core |-> "hid", hid |-> "kbd", kbd |-> "booted"]

\* A module runs when the phase of its dependency came up.
Gate(m) == Dependency[m] = None \/ phase[Dependency[m]] = "Online"

\* The module is over: its status and its boot phase.
Ended(m, result) ==
    /\ status' = [status EXCEPT ![m] = result]
    /\ phase' = [phase EXCEPT ![m] = result]
    /\ pc' = After[m]
    /\ todo' = <<>> /\ waiting' = None

Skip(m) ==
    /\ pc = m
    /\ todo = <<>> /\ status[m] = "Registered"
    /\ ~Gate(m)
    /\ Ended(m, "Skipped")
    /\ UNCHANGED <<xhci, ctl, slot, id, devices, hids, storage, dcbaa, port, tally, cursor>>
    /\ UNCHANGED wireVars /\ UNCHANGED pastVars

-----------------------------------------------------------------------------
(* XhciEarlyDmaArena: an address costs, and is refused when the budget is spent *)

dma_address(n) == cursor + n <= BUDGET

-----------------------------------------------------------------------------
(* submit_command_and_wait and the control transfers *)

advance(c) ==
    IF c.index + 1 >= RING THEN [index |-> 0, cycle |-> ~c.cycle]
    ELSE [index |-> c.index + 1, cycle |-> c.cycle]

Commands == {"noop", "enable", "address", "configure"}
Transfers == {"device", "header", "configuration", "set_configuration", "set_protocol", "set_idle"}

\* Addresses a step needs before the controller sees it.
Cost(step) ==
    CASE step \in {"address", "configure", "device", "header", "configuration", "prime"} -> 1
      [] step = "contexts" -> 2
      [] OTHER -> 0

\* The event entry is cleared, the command written at the driver's place.
submit_command ==
    /\ todo # <<>> /\ waiting = None
    /\ Head(todo) \in Commands
    /\ dma_address(Cost(Head(todo)))
    /\ cursor' = cursor + Cost(Head(todo))
    /\ event' = None
    /\ ring' = [ring EXCEPT ![ctl.index] = [kind |-> Head(todo), slot |-> slot, port |-> port,
                                            cycle |-> ctl.cycle]]
    /\ waiting' = "command"
    /\ UNCHANGED <<pc, todo, ctl, slot, id, dcbaa, port, tally, hw, executing, transfer, primed,
                   report, silent>>
    /\ UNCHANGED stackVars /\ UNCHANGED pastVars

submit_transfer ==
    /\ todo # <<>> /\ waiting = None
    /\ Head(todo) \in Transfers
    /\ dma_address(Cost(Head(todo)))
    /\ cursor' = cursor + Cost(Head(todo))
    /\ event' = None
    /\ transfer' = slot
    /\ waiting' = "transfer"
    /\ UNCHANGED <<pc, todo, ctl, slot, id, dcbaa, port, tally, ring, hw, executing, primed,
                   report, silent>>
    /\ UNCHANGED stackVars /\ UNCHANGED pastVars

\* The event the driver is waiting for; acknowledging it costs an address.
Awaited ==
    /\ event # None
    /\ event.type = waiting
    /\ waiting = "transfer" => event.slot = slot

\* What a failed step does: the host module fails, the port scan goes on with the
\* next port, and the keyboard module fails and drops what it has configured.
Fail ==
    CASE pc = "core" ->
           /\ tally' = [tally EXCEPT !.address = @ \/ Head(todo) \in {"enable", "address"},
                                     !.descriptor = @ \/ Head(todo) \notin {"enable", "address"}]
           /\ port' = port + 1
           /\ todo' = <<>> /\ waiting' = None
           /\ UNCHANGED <<status, phase, pc>>
      [] pc # "core" -> Ended(pc, "Failed") /\ UNCHANGED <<port, tally>>

\* An answer with success moves the driver's place on; the slot it names is the
\* device's when the command was to enable one (0 is refused).
take_event ==
    /\ Awaited
    /\ dma_address(1)
    /\ cursor' = cursor + 1
    /\ event.ok
    /\ Head(todo) = "enable" => event.slot # 0
    /\ todo' = Tail(todo) /\ waiting' = None
    /\ ctl' = IF waiting = "command" THEN advance(ctl) ELSE ctl
    /\ slot' = IF Head(todo) = "enable" THEN event.slot ELSE slot
    /\ foreign' = (foreign \/ (waiting = "command" /\
                        <<event.of.kind, event.of.port>> # <<Head(todo), port>>))
    /\ UNCHANGED <<pc, id, dcbaa, port, tally, pressed, sent, slipped>>
    /\ UNCHANGED wireVars /\ UNCHANGED stackVars

\* No event within the poll limit, an event that reports an error, no address left.
step_fails ==
    /\ todo # <<>>
    /\ \/ waiting # None /\ ~Awaited /\ UNCHANGED cursor
       \/ waiting # None /\ Awaited /\ ~dma_address(1) /\ UNCHANGED cursor
       \/ waiting # None /\ Awaited /\ dma_address(1) /\ ~event.ok /\ cursor' = cursor + 1
       \/ waiting = None /\ ~dma_address(Cost(Head(todo))) /\ UNCHANGED cursor
    /\ Fail
    /\ slipped' = TRUE
    /\ UNCHANGED <<ctl, slot, id, dcbaa, xhci, devices, hids, storage, pressed, sent, foreign>>
    /\ UNCHANGED wireVars

-----------------------------------------------------------------------------
(* The modules *)

\* XhciHostModule: preflight and init; start is the No-Op command.
xhci_init ==
    /\ pc = "xhci" /\ todo = <<>> /\ status["xhci"] = "Registered"
    /\ \E found \in {"none", "broken", "ready"} :
         CASE found = "none" -> Ended("xhci", "Skipped") /\ UNCHANGED <<xhci, ctl>>
           [] found = "broken" -> Ended("xhci", "Failed") /\ UNCHANGED <<xhci, ctl>>
           [] found = "ready" ->
                /\ xhci' = [index |-> 0, cycle |-> TRUE]
                /\ ctl' = xhci'
                /\ status' = [status EXCEPT !["xhci"] = "Started"]
                /\ todo' = <<"noop">>
                /\ UNCHANGED <<phase, pc, waiting>>
    /\ UNCHANGED <<slot, id, devices, hids, storage, dcbaa, port, tally, cursor>>
    /\ UNCHANGED wireVars /\ UNCHANGED pastVars

xhci_online ==
    /\ pc = "xhci" /\ todo = <<>> /\ status["xhci"] = "Started"
    /\ xhci' = ctl
    /\ Ended("xhci", "Online")
    /\ UNCHANGED <<ctl, slot, id, devices, hids, storage, dcbaa, port, tally, cursor>>
    /\ UNCHANGED wireVars /\ UNCHANGED pastVars

\* UsbCoreModule::init and the start of the port scan.
core_init ==
    /\ pc = "core" /\ todo = <<>> /\ status["core"] = "Registered"
    /\ Gate("core")
    /\ status' = [status EXCEPT !["core"] = "Initialized"]
    /\ ctl' = xhci
    /\ UNCHANGED <<phase, pc, todo, waiting, xhci, slot, id, devices, hids, storage, dcbaa, port,
                   tally, cursor>>
    /\ UNCHANGED wireVars /\ UNCHANGED pastVars

Enumerate == <<"enable", "contexts", "address", "device", "header", "configuration", "record">>

Scanning == pc = "core" /\ todo = <<>> /\ status["core"] = "Initialized"

\* A port of the scan: empty, or reset and enumerated; when the reset fails the
\* module fails and the controller copy is dropped.
scan_port ==
    /\ Scanning
    /\ port < PORTS /\ Len(devices) < MAX_DEVICES
    /\ \E found \in {"empty", "stuck", "reset"} :
         CASE found = "empty" ->
                port' = port + 1 /\ UNCHANGED <<status, phase, pc, todo, waiting, tally, id>>
           [] found = "stuck" -> Ended("core", "Failed") /\ UNCHANGED <<port, tally, id>>
           [] found = "reset" ->
                /\ tally' = [tally EXCEPT !.connected = @ + 1]
                /\ id' = Len(devices) + 1
                /\ todo' = Enumerate
                /\ UNCHANGED <<status, phase, pc, waiting, port>>
    /\ UNCHANGED <<xhci, ctl, slot, devices, hids, storage, dcbaa, cursor>>
    /\ UNCHANGED wireVars /\ UNCHANGED pastVars

\* prepare_device_contexts: two addresses; the slot's entry names the contexts
\* of this device id.
prepare_device_contexts ==
    /\ todo # <<>> /\ waiting = None
    /\ Head(todo) = "contexts"
    /\ dma_address(Cost("contexts"))
    /\ cursor' = cursor + Cost("contexts")
    /\ dcbaa' = [s \in DOMAIN dcbaa \cup {slot} |-> IF s = slot THEN id ELSE dcbaa[s]]
    /\ report' = [report EXCEPT ![id] = NoReport]
    /\ todo' = Tail(todo)
    /\ UNCHANGED <<pc, waiting, ctl, slot, id, port, tally, ring, hw, executing, event, transfer,
                   primed, silent>>
    /\ UNCHANGED stackVars /\ UNCHANGED pastVars

\* scan_configuration_descriptor decides what the device is; add_device.
record_device ==
    /\ todo # <<>>
    /\ Head(todo) = "record"
    /\ \E kind \in {"keyboard", "storage", "neither"} :
          devices' = Append(devices, [id |-> id, slot |-> slot, port |-> port, kind |-> kind])
    /\ port' = port + 1
    /\ todo' = <<>>
    /\ UNCHANGED <<status, phase, xhci, hids, storage, pc, waiting, ctl, slot, id, dcbaa, tally,
                   cursor>>
    /\ UNCHANGED wireVars /\ UNCHANGED pastVars

core_result ==
    /\ Scanning
    /\ port = PORTS \/ Len(devices) = MAX_DEVICES
    /\ xhci' = ctl
    /\ Ended("core", IF devices # <<>> THEN "Online"
                     ELSE IF tally.connected = 0 THEN "Skipped"
                     ELSE IF tally.address \/ tally.descriptor THEN "Failed" ELSE "Skipped")
    /\ UNCHANGED <<ctl, slot, id, devices, hids, storage, dcbaa, port, tally, cursor>>
    /\ UNCHANGED wireVars /\ UNCHANGED pastVars

\* UsbHidModule: the keyboards are claimed, storage is only noted.
hid_module ==
    /\ pc = "hid" /\ status["hid"] = "Registered"
    /\ Gate("hid")
    /\ LET found == SelectSeq(devices, LAMBDA d : d.kind = "keyboard")
           claimed == SubSeq(found, 1, Min({Len(found), MAX_HIDS}))
       IN  /\ hids' = [i \in DOMAIN claimed |->
                         [id |-> claimed[i].id, slot |-> claimed[i].slot, live |-> FALSE,
                          previous |-> NoReport]]
           /\ Ended("hid", IF claimed = <<>> THEN "Skipped" ELSE "Online")
    /\ storage' = Len(SelectSeq(devices, LAMBDA d : d.kind = "storage"))
    /\ UNCHANGED <<xhci, ctl, slot, id, devices, dcbaa, port, tally, cursor>>
    /\ UNCHANGED wireVars /\ UNCHANGED pastVars

\* UsbKeyboardModule::init: each keyboard in turn, on copies of the controller and
\* of the keyboards; port counts the keyboards that are done.
Configure == <<"set_configuration", "set_protocol", "set_idle", "configure", "prime">>

kbd_init ==
    /\ pc = "kbd" /\ todo = <<>> /\ status["kbd"] = "Registered"
    /\ Gate("kbd")
    /\ status' = [status EXCEPT !["kbd"] = "Initialized"]
    /\ ctl' = xhci
    /\ port' = 0
    /\ UNCHANGED <<phase, pc, todo, waiting, xhci, slot, id, devices, hids, storage, dcbaa, tally,
                   cursor>>
    /\ UNCHANGED wireVars /\ UNCHANGED pastVars

configure_keyboard ==
    /\ pc = "kbd" /\ todo = <<>> /\ status["kbd"] = "Initialized"
    /\ port < Len(hids)
    /\ id' = hids[port + 1].id /\ slot' = hids[port + 1].slot
    /\ todo' = Configure
    /\ UNCHANGED <<pc, waiting, ctl, dcbaa, port, tally, cursor>>
    /\ UNCHANGED stackVars /\ UNCHANGED wireVars /\ UNCHANGED pastVars

\* prime_interrupt_in_transfer: the report buffer and the event entry are cleared.
prime_interrupt_in_transfer ==
    /\ todo # <<>> /\ waiting = None
    /\ Head(todo) = "prime"
    /\ dma_address(Cost("prime"))
    /\ cursor' = cursor + Cost("prime")
    /\ report' = [report EXCEPT ![id] = NoReport]
    /\ event' = None
    /\ primed' = primed \cup {id}
    /\ todo' = <<>>
    /\ port' = port + 1
    /\ UNCHANGED <<pc, waiting, ctl, slot, id, dcbaa, tally, ring, hw, executing, transfer, silent>>
    /\ UNCHANGED stackVars /\ UNCHANGED pastVars

kbd_start ==
    /\ pc = "kbd" /\ todo = <<>> /\ status["kbd"] = "Initialized"
    /\ port = Len(hids)
    /\ xhci' = ctl
    /\ hids' = [i \in DOMAIN hids |-> [hids[i] EXCEPT !.live = TRUE]]
    /\ Ended("kbd", "Online")
    /\ UNCHANGED <<ctl, slot, id, devices, storage, dcbaa, port, tally, cursor>>
    /\ UNCHANGED wireVars /\ UNCHANGED pastVars

-----------------------------------------------------------------------------
(* The reports *)

\* diff_hid_boot_reports: releases of keys that are gone, then presses of new ones.
diff_hid_boot_reports(previous, current) ==
    LET Gone(k) == k # 0 /\ k \notin Range(current)
        New(k) == k # 0 /\ k \notin Range(previous)
    IN  [i \in DOMAIN SelectSeq(previous, Gone) |->
            [key |-> SelectSeq(previous, Gone)[i], state |-> "Released"]]
        \o [i \in DOMAIN SelectSeq(current, New) |->
            [key |-> SelectSeq(current, New)[i], state |-> "Pressed"]]

\* publish_keyboard_event, as a consumer that keeps track of the keys sees it.
Publish(held, e) == IF e.state = "Pressed" THEN held \cup {e.key} ELSE held \ {e.key}

Live == {i \in DOMAIN hids : hids[i].live}

\* poll_hid_keyboard_once for the keyboard whose event is there. With an error
\* the transfer is not started again; without an address the event stays.
poll_hid_keyboard_once ==
    /\ pc = "booted"
    /\ event # None /\ event.type = "transfer"
    /\ \E i \in Live :
         /\ event.slot = hids[i].slot
         /\ dma_address(1)
         /\ LET d == hids[i].id
                r == report[d]
            IN  IF ~event.ok
                THEN /\ cursor' = cursor + 1
                     /\ silent' = silent \cup {d}
                     /\ UNCHANGED <<hids, pressed, event, report, primed>>
                ELSE /\ pressed' = [pressed EXCEPT ![d] =
                            FoldLeft(Publish, @, diff_hid_boot_reports(hids[i].previous, r))]
                     /\ hids' = [hids EXCEPT ![i].previous = r]
                     /\ report' = [report EXCEPT ![d] = NoReport]
                     /\ silent' = silent
                     /\ IF dma_address(2)
                        THEN cursor' = cursor + 2 /\ primed' = primed \cup {d} /\ event' = None
                        ELSE cursor' = cursor + 1 /\ UNCHANGED <<primed, event>>
    /\ UNCHANGED <<status, phase, xhci, devices, storage, pc, todo, waiting, ctl, slot, id, dcbaa,
                   port, tally, ring, hw, executing, transfer, sent, slipped, foreign>>

-----------------------------------------------------------------------------
(* External: the controller and the keyboards *)

\* The controller takes the command at its place once its cycle bit is right.
TakeCommand ==
    /\ executing = None
    /\ ring[hw.index] # None
    /\ ring[hw.index].cycle = hw.cycle
    /\ executing' = ring[hw.index]
    /\ hw' = [hw EXCEPT !.index = (@ + 1) % RING,
                        !.cycle = IF hw.index + 1 = RING THEN ~@ ELSE @]
    /\ UNCHANGED <<ring, event, transfer, primed, report, silent>>
    /\ UNCHANGED stackVars /\ UNCHANGED driveVars /\ UNCHANGED pastVars

AnswerCommand ==
    /\ executing # None
    /\ \E ok \in BOOLEAN :
          LET new == IF executing.kind = "enable" /\ ok THEN hw.slots + 1 ELSE hw.slots
          IN  /\ event' = [type |-> "command", ok |-> ok, of |-> executing,
                           slot |-> IF executing.kind = "enable" THEN new ELSE executing.slot]
              /\ hw' = [hw EXCEPT !.slots = new]
    /\ executing' = None
    /\ UNCHANGED <<ring, transfer, primed, report, silent>>
    /\ UNCHANGED stackVars /\ UNCHANGED driveVars /\ UNCHANGED pastVars

AnswerTransfer ==
    /\ transfer # 0
    /\ \E ok \in BOOLEAN : event' = [type |-> "transfer", ok |-> ok, slot |-> transfer]
    /\ transfer' = 0
    /\ UNCHANGED <<ring, hw, executing, primed, report, silent>>
    /\ UNCHANGED stackVars /\ UNCHANGED driveVars /\ UNCHANGED pastVars

SendReport ==
    /\ sent < MaxReports
    /\ sent' = sent + 1
    /\ \E d \in primed, r \in Reports, ok \in BOOLEAN :
          /\ primed' = primed \ {d}
          /\ report' = [report EXCEPT ![d] = IF ok THEN r ELSE @]
          /\ \E i \in DOMAIN hids : hids[i].id = d /\
                event' = [type |-> "transfer", ok |-> ok, slot |-> hids[i].slot]
    /\ UNCHANGED <<ring, hw, executing, transfer, silent, pressed, slipped, foreign>>
    /\ UNCHANGED stackVars /\ UNCHANGED driveVars

UsbNext ==
    \/ \E m \in Range(Modules) : Skip(m)
    \/ submit_command \/ submit_transfer \/ take_event \/ step_fails
    \/ xhci_init \/ xhci_online \/ core_init \/ scan_port \/ prepare_device_contexts
    \/ record_device \/ core_result \/ hid_module \/ kbd_init \/ configure_keyboard
    \/ prime_interrupt_in_transfer \/ kbd_start \/ poll_hid_keyboard_once
    \/ TakeCommand \/ AnswerCommand \/ AnswerTransfer \/ SendReport

-----------------------------------------------------------------------------
\* Whatever fails on the way: a module is online only with the one it rests on, the
\* boot phase says what the registry says, and an online keyboard module has
\* keyboards that are polled.
ModulesStack ==
    /\ \A m \in Range(Modules) :
          phase[m] # "Pending" => phase[m] = status[m]
    /\ \A m \in Range(Modules) \ {"xhci"} :
          status[m] \in {"Initialized", "Online"} => status[Dependency[m]] = "Online"
    /\ status["kbd"] = "Online" => Live # {} /\ Live = DOMAIN hids
    /\ status["core"] = "Online" => devices # <<>> /\ xhci # None

\* As long as no request failed, driver and controller agree on the place in the
\* command ring between two commands, also after it wrapped around, every answer is
\* taken for the command it answers, and no two devices share a slot or a context.
InStep ==
    ~slipped =>
        /\ ~foreign
        /\ ctl # None /\ waiting # "command" =>
              hw.index = ctl.index /\ hw.cycle = ctl.cycle /\ executing = None
        /\ \A i, j \in DOMAIN devices : i # j =>
              devices[i].slot # devices[j].slot /\ devices[i].id # devices[j].id
        /\ \A i \in DOMAIN devices : dcbaa[devices[i].slot] = devices[i].id

\* The events published for a keyboard add up to the keys of its last report, and
\* a single live keyboard can still report, has reported, was in error, or has used
\* up the DMA ledger.
KeysTracked ==
    /\ \A i \in DOMAIN hids : pressed[hids[i].id] = Down(hids[i].previous)
    /\ status["kbd"] = "Online" /\ Len(hids) = 1 =>
          \/ hids[1].id \in primed \cup silent
          \/ event # None /\ event.type = "transfer" /\ event.slot = hids[1].slot
          \/ ~dma_address(2)
=============================================================================

---------------------------- MODULE Controllers ----------------------------
(***************************************************************************)
(* The storage controller services: crates/mirage-nvme, mirage-ahci and    *)
(* mirage-usb, and the capability sets they check (crates/mirage-cap).     *)
(*                                                                         *)
(* Each crate has a mock controller that keeps the data itself, and a      *)
(* driver over shadow registers whose commands complete at once.  The NVMe *)
(* driver refuses to be built (map_registers), so of it only the queues    *)
(* are modelled.  The buffers of the shadow drivers are never filled, so   *)
(* their data is left out.                                                 *)
(***************************************************************************)
EXTENDS Integers, Sequences, FiniteSets, SequencesExt, FiniteSetsExt

CONSTANTS DEPTH,      \* entries of a queue or ring (16)
          SLOTS,      \* command slots of an AHCI port (32)
          MAX_TAG,    \* largest BOT tag (u32)
          Ports,      \* AHCI port numbers
          Addresses,  \* USB addresses, NVMe namespaces, AHCI ports of the mock
          None,
          MaxCalls

VARIABLES sq, cq,       \* the queue pair of an NvmeIoQueue
          popped,       \* completions taken from it
          ports,        \* AhciPortRegisters by port
          identified,   \* ports in AhciController::identifies
          next_slot,
          command_ring, event_ring, next_tag,
          issued,       \* commands the AHCI or xHCI controller was given
          answer,       \* what the last call returned
          kind,         \* which mock controller
          authority,    \* its CapabilitySet
          state, devices, hotplug_events,
          plugs,        \* registrations and removals that succeeded
          blocks,       \* the block devices made of it, None before
          descriptors,  \* the configuration descriptor that is parsed
          calls

queueVars == <<sq, cq, popped>>
mockVars == <<kind, authority, state, devices, hotplug_events, plugs, blocks>>

Call == calls < MaxCalls /\ calls' = calls + 1

-----------------------------------------------------------------------------
(* hw_nvme: the submission and the completion queue *)

QueueInit ==
    /\ sq = [entries |-> 0, tail |-> 0]
    /\ cq = [entries |-> <<>>, head |-> 0, phase |-> TRUE]
    /\ popped = 0

\* Nothing takes entries out of a submission queue: it fills up for good.
sq_submit ==
    /\ Call
    /\ IF sq.entries >= DEPTH - 1 THEN answer' = "QueueFull" /\ UNCHANGED sq
       ELSE answer' = "Ok" /\ sq' = [entries |-> sq.entries + 1, tail |-> (sq.tail + 1) % DEPTH]
    /\ UNCHANGED <<cq, popped>>

cq_push ==
    /\ Call
    /\ IF Len(cq.entries) >= DEPTH THEN answer' = "QueueFull" /\ UNCHANGED cq
       ELSE \E id \in 1..2 : answer' = "Ok" /\ cq' = [cq EXCEPT !.entries = Append(@, id)]
    /\ UNCHANGED <<sq, popped>>

\* The phase the next completion is expected with turns over with the head.
cq_head(head) == (head + 1) % DEPTH
cq_phase(head, phase) == IF cq_head(head) = 0 THEN ~phase ELSE phase

cq_pop ==
    /\ Call
    /\ IF cq.entries = <<>> THEN answer' = "QueueEmpty" /\ UNCHANGED <<cq, popped>>
       ELSE /\ answer' = "Ok"
            /\ cq' = [entries |-> Tail(cq.entries), head |-> cq_head(cq.head),
                      phase |-> cq_phase(cq.head, cq.phase)]
            /\ popped' = popped + 1
    /\ UNCHANGED sq

QueueNext ==
    /\ sq_submit \/ cq_push \/ cq_pop
    /\ UNCHANGED issued

\* The tail and head stand where the number of submissions and completions put
\* them, no more is queued than the ring holds, and the expected phase is that of
\* the lap the completion queue is on.
QueueSound ==
    /\ sq.entries <= DEPTH - 1 /\ sq.tail = sq.entries
    /\ Len(cq.entries) <= DEPTH
    /\ cq.head = popped % DEPTH
    /\ cq.phase = ((popped \div DEPTH) % 2 = 0)

-----------------------------------------------------------------------------
(* hw_ahci: the command slots of the ports *)

AhciInit ==
    /\ \E implemented \in SUBSET Ports :      \* probe_hba: each has an ATA disk
          ports = [p \in implemented |-> [present |-> TRUE, issue |-> {}, interrupt |-> FALSE]]
    /\ identified = {}
    /\ next_slot = 0

\* run_command with alloc_slot: the slot is used up whether the port exists or not.
run_command(port, s) ==
    LET slot == s.next_slot
        t == [s EXCEPT !.next_slot = (slot + 1) % SLOTS]
    IN  IF port \notin DOMAIN s.ports THEN [t EXCEPT !.result = "PortNotFound"]
        ELSE IF ~s.ports[port].present THEN [t EXCEPT !.result = "NoDevice"]
        ELSE LET issuing == s.ports[port].issue \cup {slot}
                 after == issuing \ {slot}
             IN  [t EXCEPT !.ports[port].issue = after, !.ports[port].interrupt = TRUE,
                           !.result = IF slot \in after THEN "Timeout" ELSE "Ok"]

identify_device(port, s) ==
    LET t == run_command(port, s)
    IN  IF t.result # "Ok" THEN t ELSE [t EXCEPT !.identified = @ \cup {port}]

\* read_dma_ext and write_dma_ext: identify_for, the range check, the command.
dma_ext(port, fits, s) ==
    LET t == IF port \in s.identified THEN [s EXCEPT !.result = "Ok"] ELSE identify_device(port, s)
    IN  IF t.result # "Ok" THEN t
        ELSE IF ~fits THEN [t EXCEPT !.result = "OutOfBounds"]
        ELSE run_command(port, t)

Ahci == [ports |-> ports, identified |-> identified, next_slot |-> next_slot, result |-> "Ok"]

AhciBecome(s) ==
    /\ ports' = s.ports /\ identified' = s.identified /\ next_slot' = s.next_slot
    /\ answer' = s.result

AhciNext ==
    /\ Call
    /\ \E port \in Ports :
          \/ AhciBecome(identify_device(port, Ahci))
          \/ \E fits \in BOOLEAN : AhciBecome(dma_ext(port, fits, Ahci))
          \/ AhciBecome(run_command(port, Ahci))         \* flush_cache
    /\ issued' = issued + 1

\* No command is left issued when its call is over, so a slot that comes round
\* again is free, and data only moves on ports that hold a disk that was identified.
SlotsFree ==
    /\ \A p \in DOMAIN ports : ports[p].issue = {} /\ (p \in identified => ports[p].present)
    /\ identified \subseteq DOMAIN ports
    /\ next_slot \in 0..(SLOTS - 1)

-----------------------------------------------------------------------------
(* hw_xhci: the command and the event ring, and the tags of BOT commands *)

XhciInit ==
    /\ command_ring = [entries |-> 0, enqueue |-> 0, dequeue |-> 0, cycle |-> TRUE]
    /\ event_ring = [entries |-> 0, enqueue |-> 0, dequeue |-> 0, cycle |-> TRUE]
    /\ next_tag = 1

ring_push(r) ==
    LET at == (r.enqueue + 1) % DEPTH
    IN  [r EXCEPT !.entries = @ + 1, !.enqueue = at, !.cycle = IF at = 0 THEN ~@ ELSE @]

ring_pop(r) == [r EXCEPT !.entries = @ - 1, !.dequeue = (@ + 1) % DEPTH]

Full(r) == r.entries >= DEPTH - 1

after_tag(tag) == IF tag = MAX_TAG THEN 1 ELSE tag + 1

\* The tag is taken first; nothing takes commands out of the command ring.
bot_scsi ==
    /\ Call
    /\ next_tag' = after_tag(next_tag)
    /\ IF Full(command_ring)
       THEN answer' = "RingFull" /\ UNCHANGED <<command_ring, event_ring>>
       ELSE /\ command_ring' = ring_push(command_ring)
            /\ IF Full(event_ring) THEN answer' = "RingFull" /\ UNCHANGED event_ring
               ELSE answer' = "Ok" /\ event_ring' = ring_pop(ring_push(event_ring))
    /\ issued' = issued + 1

\* The event of a command is taken by the call that gave the command, so none is
\* left for the next one; tags are never 0; and the service stops only when the
\* command ring, which nobody drains, is full.
EventsMatched ==
    /\ event_ring.entries = 0 /\ event_ring.enqueue = event_ring.dequeue
    /\ next_tag # 0
    /\ command_ring.entries = Min({issued, DEPTH - 1})
    /\ event_ring.enqueue = command_ring.entries % DEPTH

-----------------------------------------------------------------------------
(* mirage-cap: CapabilitySet *)

permits(capability, rights) ==
    IF capability.revoked THEN "Revoked"
    ELSE IF rights \subseteq capability.rights THEN "Ok" ELSE "InsufficientRights"

\* The capabilities are tried in order; a revoked one outranks a narrow one.
check(set, object, rights) ==
    LET found == {permits(set[i], rights) : i \in {j \in DOMAIN set : set[j].object = object}}
    IN  CASE "Ok" \in found -> "Ok"
          [] "Ok" \notin found /\ "Revoked" \in found -> "Revoked"
          [] "Ok" \notin found /\ "Revoked" \notin found /\ found # {} -> "InsufficientRights"
          [] OTHER -> "Missing"

Needs == [pci |-> {"Io", "Control", "Read"}, mmio |-> {"Io", "Control", "Read", "Write"},
          dma |-> {"Read", "Write", "Control", "Io"}, irq |-> {"Io", "Control"}]

\* check_hardware_authority, the same four checks in the three crates.
check_hardware_authority(set) ==
    \A object \in DOMAIN Needs : check(set, object, Needs[object]) = "Ok"

-----------------------------------------------------------------------------
(* The mock controllers *)

All == [object : {"pci", "mmio", "dma", "irq"}, rights : {{"Read", "Write", "Control", "Io"}}, revoked : {FALSE}]

\* Full authority; one capability missing, revoked, narrow, or granted anew after
\* it was revoked; with and without the right to talk to the endpoints.
Authorities ==
    LET full == SetToSeq(All)
        dma == CHOOSE c \in All : c.object = "dma"
        less == SelectSeq(full, LAMBDA c : c # dma)
        ipc == [object |-> "ipc", rights |-> {"Send", "Receive"}, revoked |-> FALSE]
    IN  {full, Append(full, ipc), Append(less, ipc), Append(less, [dma EXCEPT !.revoked = TRUE]),
         Append(less, [dma EXCEPT !.rights = {"Read"}]),
         <<[dma EXCEPT !.revoked = TRUE], [dma EXCEPT !.rights = {"Read"}], ipc>> \o full}

\* What a controller has behind an address: whether it is storage (a mass
\* storage class, an implemented port), and how many sectors.
Functions == [address : Addresses, storage : BOOLEAN, sectors : {0, 1}]

MockInit ==
    /\ kind \in {"nvme", "ahci", "usb"}
    /\ authority \in Authorities
    /\ state = "Online"
    /\ devices \in {<<>>} \cup {<<d>> : d \in Functions}
    /\ hotplug_events = 0 /\ plugs = 0
    /\ blocks = None

Available == check_hardware_authority(authority) /\ state = "Online"

set_state ==
    /\ Call
    /\ blocks = None
    /\ \E s \in {"Online", "Offline", "Faulted"} \ {state} : state' = s
    /\ answer' = "Ok"
    /\ UNCHANGED <<kind, authority, devices, hotplug_events, plugs, blocks>>

\* MockUsbController::register_device and unregister_device; the addresses are
\* not compared, so two devices may have the same one.
register_device ==
    /\ Call
    /\ kind = "usb" /\ blocks = None
    /\ Len(devices) < 2
    /\ IF ~Available THEN answer' = "Refused" /\ UNCHANGED <<devices, hotplug_events, plugs>>
       ELSE \E d \in Functions :
              /\ devices' = Append(devices, d)
              /\ hotplug_events' = hotplug_events + 1
              /\ plugs' = plugs + 1
              /\ answer' = "Ok"
    /\ UNCHANGED <<kind, authority, state, blocks>>

At(address) == {i \in DOMAIN devices : devices[i].address = address}

unregister_device ==
    /\ Call
    /\ kind = "usb" /\ blocks = None
    /\ \E address \in Addresses :
         CASE ~Available -> answer' = "Refused" /\ UNCHANGED <<devices, hotplug_events, plugs>>
           [] Available /\ At(address) = {} ->
                answer' = "DeviceNotFound" /\ UNCHANGED <<devices, hotplug_events, plugs>>
           [] OTHER ->
                /\ devices' = RemoveAt(devices, Min(At(address)))
                /\ hotplug_events' = hotplug_events + 1
                /\ plugs' = plugs + 1
                /\ answer' = "Ok"
    /\ UNCHANGED <<kind, authority, state, blocks>>

\* The endpoint's own capability is checked on top of the controller's.
submit_transfer ==
    /\ Call
    /\ kind = "usb" /\ blocks = None
    /\ \E address \in Addresses, has_endpoint \in BOOLEAN :
          answer' = CASE ~check_hardware_authority(authority)
                           \/ check(authority, "ipc", {"Send", "Receive"}) # "Ok" -> "Refused"
                      [] check_hardware_authority(authority)
                           /\ check(authority, "ipc", {"Send", "Receive"}) = "Ok"
                           /\ state # "Online" -> state
                      [] OTHER -> IF At(address) = {} THEN "DeviceNotFound"
                                  ELSE IF has_endpoint THEN "Completed" ELSE "EndpointNotFound"
    /\ UNCHANGED mockVars

\* The storage among the devices. A USB function must be read once before it is
\* used (prove_bot_readiness); one that cannot ends the whole registration, and the
\* controller, which the call consumes, is gone. NVMe looks for one namespace
\* and does not look at the state of the controller.
register_block_devices ==
    /\ Call
    /\ blocks = None
    /\ LET storage == SelectSeq(devices, LAMBDA d : d.storage)
           Made(seq) == [i \in DOMAIN seq |-> [device |-> seq[i], state |-> state,
                            data |-> [s \in 1..seq[i].sectors |-> 0], proven |-> kind = "usb"]]
       IN  CASE kind = "nvme" ->
                  \E address \in Addresses :
                     /\ answer' = IF At(address) = {} THEN "NamespaceNotFound" ELSE "Ok"
                     /\ blocks' = IF At(address) = {} THEN <<>>
                                  ELSE Made(<<devices[Min(At(address))]>>)
             [] kind # "nvme" /\ ~Available -> answer' = "Refused" /\ blocks' = <<>>
             [] kind = "ahci" /\ Available -> answer' = "Ok" /\ blocks' = Made(storage)
             [] kind = "usb" /\ Available ->
                  IF \E i \in DOMAIN storage : storage[i].sectors = 0
                  THEN answer' = "TransportFault" /\ blocks' = <<>>
                  ELSE answer' = "Ok" /\ blocks' = Made(storage)
    /\ devices' = <<>>
    /\ UNCHANGED <<kind, authority, state, hotplug_events, plugs>>

\* read_blocks, write_blocks and flush of a mock block device: authority, the
\* proof of the USB transport, the state it was made with, the range.
BlockResult(b, sector) ==
    CASE ~check_hardware_authority(authority) -> "Refused"
      [] check_hardware_authority(authority) /\ kind = "usb" /\ ~b.proven -> "EndpointNotFound"
      [] check_hardware_authority(authority) /\ (kind = "usb" => b.proven) ->
           IF b.state # "Online" THEN b.state
           ELSE IF sector \notin DOMAIN b.data THEN "OutOfBounds" ELSE "Done"

mock_write ==
    /\ Call
    /\ blocks # None
    /\ \E i \in DOMAIN blocks, sector \in 1..2 :
          /\ answer' = BlockResult(blocks[i], sector)
          /\ blocks' = IF BlockResult(blocks[i], sector) = "Done"
                       THEN [blocks EXCEPT ![i].data[sector] = 1] ELSE blocks
    /\ UNCHANGED <<kind, authority, state, devices, hotplug_events, plugs>>

MockNext ==
    /\ \/ set_state \/ register_device \/ unregister_device \/ submit_transfer
       \/ register_block_devices \/ mock_write
    /\ UNCHANGED issued

\* Whatever the order of plugging, faults and registrations: data reaches a block
\* device only with unrevoked capabilities of sufficient rights for all four
\* resources, a transfer completes only with the endpoint's as well, a device made
\* while the controller was down never accepts data, and each change of the device
\* list was announced once.
AuthorityFirst ==
    LET Holds(object, rights) == \E i \in DOMAIN authority :
            /\ authority[i].object = object /\ ~authority[i].revoked
            /\ rights \subseteq authority[i].rights
        Owns == \A object \in DOMAIN Needs : Holds(object, Needs[object])
    IN  /\ blocks # None => \A i \in DOMAIN blocks :
              \A s \in DOMAIN blocks[i].data : blocks[i].data[s] = 1 =>
                 Owns /\ blocks[i].state = "Online"
        /\ answer = "Completed" => Owns /\ Holds("ipc", {"Send", "Receive"}) /\ state = "Online"
        /\ answer = "Done" => Owns
        /\ hotplug_events = plugs

-----------------------------------------------------------------------------
(* parse_mass_storage_bot_interface *)

\* A descriptor: a mass storage BOT interface, another interface, a bulk endpoint
\* in either direction, anything else, or one whose length is wrong.
Kinds == {"bot", "iface", "in", "out", "other", "bad"}

DescriptorInit == descriptors \in UNION {[1..n -> Kinds] : n \in 0..4}

parse_step(s, i) ==
    LET d == descriptors[i]
        t == CASE d = "bot" -> [s EXCEPT !.active = i, !.bulk_in = 0, !.bulk_out = 0]
               [] d = "iface" -> IF s.bulk_in = 0 \/ s.bulk_out = 0 THEN [s EXCEPT !.active = 0] ELSE s
               [] d = "in" /\ s.active # 0 -> [s EXCEPT !.bulk_in = i]
               [] d = "out" /\ s.active # 0 -> [s EXCEPT !.bulk_out = i]
               [] d = "bad" -> [s EXCEPT !.result = "TransportFault"]
               [] OTHER -> s
    IN  IF s.result # "Going" THEN s
        ELSE IF t.active # 0 /\ t.bulk_in # 0 /\ t.bulk_out # 0 /\ d \in {"in", "out"}
        THEN [t EXCEPT !.result = "Ok"] ELSE t

parse_mass_storage_bot_interface ==
    FoldLeft(parse_step, [active |-> 0, bulk_in |-> 0, bulk_out |-> 0, result |-> "Going"],
             [i \in DOMAIN descriptors |-> i])

parse ==
    /\ answer = None
    /\ answer' = parse_mass_storage_bot_interface
    /\ UNCHANGED <<descriptors, calls>>

\* An interface is found just when one of the descriptors before the first bad
\* one is a BOT interface with a bulk endpoint in each direction before the next
\* interface, and the endpoints returned are that interface's.
InterfaceFound ==
    LET bads == {i \in DOMAIN descriptors : descriptors[i] = "bad"}
        end == IF bads = {} THEN Len(descriptors) ELSE Min(bads) - 1
        Run(i) == {j \in (i + 1)..end :
                      \A k \in (i + 1)..j : descriptors[k] \notin {"bot", "iface"}}
        Whole(i) == /\ descriptors[i] = "bot"
                    /\ \E j \in Run(i) : descriptors[j] = "in"
                    /\ \E j \in Run(i) : descriptors[j] = "out"
        found == {i \in 1..end : Whole(i)}
    IN  answer # None =>
          /\ answer.result = "Ok" <=> found # {}
          /\ answer.result = "Ok" =>
                /\ answer.active = Min(found)
                /\ {answer.bulk_in, answer.bulk_out} \subseteq Run(answer.active)
=============================================================================

----------------------------- MODULE BlockLayer -----------------------------
(***************************************************************************)
(* The block layer: the storage service with its registry, capabilities   *)
(* and hot-plug events (crates/mirage-storage), the request queue and     *)
(* scheduler and the fixed registry (crates/mirage-block), the kernel's   *)
(* registry of named devices (kernel/block.rs) and the two partition       *)
(* table parsers (kernel/partition.rs and scan_partition_table).          *)
(*                                                                         *)
(* These are independent clients of one device interface, so each has its  *)
(* own variables, initial predicate and next-state relation.  Lengths are  *)
(* counted in sectors and a sector holds one value.                       *)
(***************************************************************************)
EXTENDS Integers, Sequences, FiniteSets, SequencesExt, FiniteSetsExt

CONSTANTS Backends,       \* the block devices that may be plugged in
          Ids,            \* their BlockDeviceId
          Sectors,        \* their number of sectors
          ReadOnly,       \* those that advertise read_only
          Values,         \* what a sector may hold
          Starts, Counts, \* the ranges clients ask for
          MAX_U64,        \* the largest block address
          CAPACITY,       \* slots of the two fixed registries
          MAX_ID,         \* the largest u32 device id of the kernel's registry
          MAX_PARTITIONS, \* partitions a table holds
          None,
          MaxCalls        \* calls of a client in one run

VARIABLES hardware,   \* backend -> its state and contents
          devices,    \* StorageDeviceRegistry: id -> backend
          events,     \* StorageService::events
          seen,       \* the registry as the reader of the events knows it
          client,     \* the handle and the capability a client holds
          last,       \* the transfer the client made last
          queue,      \* BlockQueue
          taken,      \* completions the client took, in order
          slots,      \* FixedBlockDeviceRegistry::slots
          len,        \* FixedBlockDeviceRegistry::len
          entries,    \* BlockRegistry::entries
          next_id,    \* BlockRegistry::next_id
          wrapped,    \* whether next_id has been all the way round
          disk,       \* the first sectors of the disk being parsed
          parsed,     \* what the two parsers made of it
          calls

hardwareVars == <<hardware, calls>>
serviceVars == <<devices, events, seen, client, last>>
queueVars == <<queue, taken>>
registryVars == <<slots, len, entries, next_id, wrapped>>
partitionVars == <<disk, parsed>>

HardwareInit ==
    /\ hardware = [b \in Backends |->
          [state |-> "Online", data |-> [s \in 1..Sectors[b] |-> 0]]]
    /\ calls = 0

Call == calls < MaxCalls /\ calls' = calls + 1

-----------------------------------------------------------------------------
(* BlockRange and the checks of the BlockDevice trait *)

\* The first check that fails names the error, as the `?` chains of the code do.
First(checks) ==
    LET bad == {i \in DOMAIN checks : checks[i][1]}
    IN  IF bad = {} THEN "Ok" ELSE checks[Min(bad)][2]

validate_within(range, sectors) ==
    First(<< <<range.count = 0, "EmptyRange">>,
             <<range.start + range.count > MAX_U64, "RangeOverflow">>,
             <<range.start + range.count > sectors, "OutOfBounds">> >>)

ensure_available(state) ==
    CASE state = "Online" -> "Ok"
      [] state = "Offline" -> "DeviceOffline"
      [] state = "Faulted" -> "DeviceFaulted"

Or(first, second) == IF first = "Ok" THEN second ELSE first

validate_read(b, range, length) ==
    Or(ensure_available(hardware[b].state),
       Or(validate_within(range, Sectors[b]),
          IF length = range.count THEN "Ok" ELSE "BufferSizeMismatch"))

validate_write(b, range, length) ==
    Or(ensure_available(hardware[b].state),
       Or(IF b \in ReadOnly THEN "ReadOnly" ELSE "Ok",
          Or(validate_within(range, Sectors[b]),
             IF length = range.count THEN "Ok" ELSE "BufferSizeMismatch")))

\* What a device holds in a range, and holds after a write to it.
Held(b, range) == SubSeq(hardware[b].data, range.start + 1, range.start + range.count)

Written(b, range, value) ==
    [hardware EXCEPT ![b].data =
        [s \in DOMAIN @ |-> IF s - 1 \in range.start..(range.start + range.count - 1)
                            THEN value ELSE @[s]]]

Ranges == [start : Starts, count : Counts]

\* The controller takes a device away, loses it to a fault or brings it back.
Fault ==
    /\ Call
    /\ \E b \in Backends : \E state \in {"Online", "Offline", "Faulted"} \ {hardware[b].state} :
          hardware' = [hardware EXCEPT ![b].state = state]

-----------------------------------------------------------------------------
(* StorageDeviceRegistry and StorageService *)

ServiceInit ==
    /\ devices = [i \in {} |-> None]
    /\ events = <<>>
    /\ seen = [i \in {} |-> None]
    /\ client = [handle |-> None, capability |-> None]
    /\ last = None

Plus(registry, b) ==
    [i \in DOMAIN registry \cup {Ids[b]} |-> IF i = Ids[b] THEN b ELSE registry[i]]

Minus(registry, id) == [i \in DOMAIN registry \ {id} |-> registry[i]]

\* StorageService::register_device on the state [devices, events, ok].
register(s, b) ==
    IF ~s.ok \/ Ids[b] \in DOMAIN s.devices
    THEN [s EXCEPT !.ok = FALSE]
    ELSE [s EXCEPT !.devices = Plus(@, b),
                   !.events = Append(@, [kind |-> "DeviceHotplugged", backend |-> b])]

\* discover_into_service: the controllers of the bus one after the other, each
\* with the devices it exposes; the first one that fails ends the discovery and
\* what was registered before it stays.
discover(bus, failing) ==
    FoldLeft(LAMBDA s, c : IF c \in failing THEN [s EXCEPT !.ok = FALSE] ELSE register(s, c),
             [devices |-> devices, events |-> events, ok |-> TRUE], bus)

discover_into_service ==
    /\ Call
    /\ \E bus \in SetToSeqs(Backends), failing \in SUBSET Backends :
          /\ devices' = discover(bus, failing).devices
          /\ events' = discover(bus, failing).events
    /\ UNCHANGED <<hardware, seen, client, last>>

register_device ==
    /\ Call
    /\ \E b \in Backends :
          LET s == register([devices |-> devices, events |-> events, ok |-> TRUE], b)
          IN  /\ devices' = s.devices
              /\ events' = s.events
              /\ client' = IF s.ok THEN [client EXCEPT !.handle = b] ELSE client
    /\ UNCHANGED <<hardware, seen, last>>

unregister_device ==
    /\ Call
    /\ \E id \in DOMAIN devices :
          /\ devices' = Minus(devices, id)
          /\ events' = Append(events, [kind |-> "DeviceRemoved", id |-> id])
    /\ UNCHANGED <<hardware, seen, client, last>>

\* The registry after an event, as its reader rebuilds it.
Told(registry, event) ==
    IF event.kind = "DeviceHotplugged" THEN Plus(registry, event.backend)
    ELSE Minus(registry, event.id)

next_event ==
    /\ Call
    /\ events # <<>>
    /\ seen' = Told(seen, Head(events))
    /\ events' = Tail(events)
    /\ UNCHANGED <<hardware, devices, client, last>>

grant ==
    /\ Call
    /\ \E id \in DOMAIN devices, access \in {{"Read"}, {"Read", "Write", "Flush"}} :
          client' = [client EXCEPT !.capability =
                        [device_id |-> id, access |-> access, revoked |-> FALSE]]
    /\ UNCHANGED <<hardware, devices, events, seen, last>>

revoke ==
    /\ Call
    /\ client.capability # None
    /\ client' = [client EXCEPT !.capability.revoked = TRUE]
    /\ UNCHANGED <<hardware, devices, events, seen, last>>

permits(capability, id, access) ==
    First(<< <<capability.revoked, "CapabilityRevoked">>,
             <<capability.device_id # id, "AccessDenied">>,
             <<access \notin capability.access, "AccessDenied">> >>)

\* read_vec sizes its buffer by the handle, which keeps the geometry the device
\* had when it was registered; read_blocks takes the caller's buffer.
Buffer(handle, range, length) ==
    IF length # None THEN length ELSE range.count

Transfer(access, range, length) ==
    LET id == Ids[client.handle]
    IN  Or(permits(client.capability, id, access),
        Or(IF length = None THEN validate_within(range, Sectors[client.handle]) ELSE "Ok",
        Or(IF id \in DOMAIN devices THEN "Ok" ELSE "DeviceNotFound",
           CASE access = "Read" ->
                  validate_read(devices[id], range, Buffer(client.handle, range, length))
             [] access = "Write" -> validate_write(devices[id], range, length)
             [] access = "Flush" -> ensure_available(hardware[devices[id]].state))))

\* read_blocks, read_vec, write_blocks and flush of the service.
transfer ==
    /\ Call
    /\ client.handle # None /\ client.capability # None
    /\ \E access \in {"Read", "Write", "Flush"}, range \in Ranges,
          length \in Counts \cup {None}, value \in Values :
          LET id == Ids[client.handle]
              result == Transfer(access, range, length)
          IN  /\ access # "Read" => length # None
              /\ access # "Write" => value = CHOOSE v \in Values : TRUE
              /\ access = "Flush" => /\ range = CHOOSE r \in Ranges : TRUE
                                     /\ length = CHOOSE n \in Counts : TRUE
              /\ last' = [access |-> access, range |-> range, result |-> result,
                          capability |-> client.capability, value |-> value,
                          backend |-> IF id \in DOMAIN devices THEN devices[id] ELSE None,
                          data |-> IF access = "Read" /\ result = "Ok"
                                   THEN Held(devices[id], range) ELSE <<>>]
              /\ hardware' = IF access = "Write" /\ result = "Ok"
                             THEN Written(devices[id], range, value) ELSE hardware
    /\ UNCHANGED <<devices, events, seen, client>>

ServiceNext ==
    \/ Fault /\ UNCHANGED serviceVars
    \/ discover_into_service
    \/ register_device
    \/ unregister_device
    \/ next_event
    \/ grant
    \/ revoke
    \/ transfer

\* The events a reader has not taken yet lead from the registry it knows to the
\* registry there is, whatever part of a discovery failed.
EventsTell == FoldLeft(Told, seen, events) = devices

\* A transfer that succeeds was permitted by a capability for the device that
\* is registered now, stays inside that device however large the device was
\* that the handle was issued for, and returns all the sectors asked for; a
\* read-only device is never written.
TransfersSound ==
    /\ last # None /\ last.result = "Ok" =>
          /\ ~last.capability.revoked
          /\ last.access \in last.capability.access
          /\ last.capability.device_id = Ids[last.backend]
          /\ last.access # "Flush" =>
                last.range.count > 0 /\ last.range.start + last.range.count <= Sectors[last.backend]
          /\ last.access = "Read" => Len(last.data) = last.range.count
    /\ \A b \in ReadOnly : \A s \in 1..Sectors[b] : hardware[b].data[s] = 0

-----------------------------------------------------------------------------
(* BlockQueue and BlockScheduler *)

QueueInit ==
    /\ queue = [next_id |-> 1, pending |-> <<>>, completed |-> <<>>]
    /\ taken = <<>>

Requests ==
    [kind : {"Read"}, range : Ranges] \cup [kind : {"Flush"}]
        \cup [kind : {"Write"}, range : Ranges, length : Counts \ {0}, value : Values \ {0}]

submit ==
    /\ Call
    /\ \E id \in {Ids[b] : b \in Backends}, kind \in Requests :
          queue' = [queue EXCEPT
                       !.next_id = Min({@ + 1, MAX_U64}),
                       !.pending = Append(@, [id |-> queue.next_id, device |-> id, kind |-> kind])]
    /\ UNCHANGED <<hardware, taken>>

\* BlockScheduler::execute: the outcome of a request on the device.
execute(b, request) ==
    LET k == request.kind
    IN  CASE k.kind = "Read" ->
               Or(validate_within(k.range, Sectors[b]), validate_read(b, k.range, k.range.count))
          [] k.kind = "Write" -> validate_write(b, k.range, k.length)
          [] k.kind = "Flush" -> ensure_available(hardware[b].state)

\* The request is gone from the queue whether the device takes it or not.
dispatch_next ==
    /\ Call
    /\ queue.pending # <<>>
    /\ \E b \in Backends :
          LET request == Head(queue.pending)
              result == IF Ids[b] # request.device THEN "DeviceMismatch" ELSE execute(b, request)
          IN  /\ queue' = [queue EXCEPT
                    !.pending = Tail(@),
                    !.completed = Append(@, [id |-> request.id, kind |-> request.kind,
                        backend |-> b, result |-> result,
                        data |-> IF result = "Ok" /\ request.kind.kind = "Read"
                                 THEN Held(b, request.kind.range) ELSE <<>>])]
              /\ hardware' = IF result = "Ok" /\ request.kind.kind = "Write"
                             THEN Written(b, request.kind.range, request.kind.value) ELSE hardware
    /\ UNCHANGED taken

take_completion ==
    /\ Call
    /\ queue.completed # <<>>
    /\ taken' = Append(taken, Head(queue.completed))
    /\ queue' = [queue EXCEPT !.completed = Tail(@)]
    /\ UNCHANGED hardware

QueueNext ==
    \/ Fault /\ UNCHANGED queueVars
    \/ submit
    \/ dispatch_next
    \/ take_completion

\* Every request submitted is completed exactly once, in the order of the
\* submissions, and a read returns what the last write completed before it on
\* that device left there.
CompletedInOrder ==
    LET done == taken \o queue.completed
        ids == [i \in DOMAIN done |-> done[i].id]
                  \o [i \in DOMAIN queue.pending |-> queue.pending[i].id]
        Wrote(i, b, s) == /\ done[i].backend = b /\ done[i].result = "Ok"
                          /\ done[i].kind.kind = "Write"
                          /\ s \in done[i].kind.range.start ..
                                (done[i].kind.range.start + done[i].kind.range.count - 1)
        Expected(i, s) == LET before == {j \in 1..(i - 1) : Wrote(j, done[i].backend, s)}
                          IN  IF before = {} THEN 0 ELSE done[Max(before)].kind.value
    IN  /\ ids = [i \in 1..(queue.next_id - 1) |-> i]
        /\ \A i \in DOMAIN done :
              done[i].result = "Ok" /\ done[i].kind.kind = "Read" =>
                 done[i].data = [n \in 1..done[i].kind.range.count |->
                                    Expected(i, done[i].kind.range.start + n - 1)]

-----------------------------------------------------------------------------
(* FixedBlockDeviceRegistry and the kernel's BlockRegistry *)

RegistryInit ==
    /\ slots = [s \in 1..CAPACITY |-> None]
    /\ len = 0
    /\ entries = [s \in 1..CAPACITY |-> None]
    /\ next_id = 1
    /\ wrapped = FALSE

lookup(id) == \E s \in 1..len : slots[s] # None /\ Ids[slots[s]] = id

\* FixedBlockDeviceRegistry::register; a duplicate id or a full table refuses.
fixed_register ==
    /\ Call
    /\ \E b \in Backends :
          /\ ~lookup(Ids[b]) /\ len < CAPACITY
          /\ slots' = [slots EXCEPT ![len + 1] = b]
    /\ len' = len + 1
    /\ UNCHANGED <<hardware, entries, next_id, wrapped>>

\* FixedBlockDeviceRegistry::unregister moves the later slots down by one.
Closed(at) ==
    [s \in 1..CAPACITY |->
        CASE s < at -> slots[s]
          [] s >= at /\ s < len -> slots[s + 1]
          [] OTHER -> None]

fixed_unregister ==
    /\ Call
    /\ \E s \in 1..len :
          /\ slots' = Closed(s)
          /\ len' = len - 1
    /\ UNCHANGED <<hardware, entries, next_id, wrapped>>

\* BlockRegistry: a device is known by its name, here the backend itself, and
\* gets the next id; ids start again at 1 when the counter is exhausted.
register_named ==
    /\ Call
    /\ \E b \in Backends :
          LET free == {s \in 1..CAPACITY : entries[s] = None}
          IN  /\ Sectors[b] # 0
              /\ \A s \in 1..CAPACITY : entries[s] # None => entries[s].name # b
              /\ free # {}
              /\ entries' = [entries EXCEPT ![Min(free)] = [id |-> next_id, name |-> b]]
    /\ next_id' = IF next_id = MAX_ID THEN 1 ELSE next_id + 1
    /\ wrapped' = (wrapped \/ next_id = MAX_ID)
    /\ UNCHANGED <<hardware, slots, len>>

unregister_named ==
    /\ Call
    /\ \E id \in 1..MAX_ID :
          LET at == {s \in 1..CAPACITY : entries[s] # None /\ entries[s].id = id}
          IN  /\ at # {}
              /\ entries' = [entries EXCEPT ![Min(at)] = None]
    /\ UNCHANGED <<hardware, slots, len, next_id, wrapped>>

RegistryNext ==
    \/ fixed_register
    \/ fixed_unregister
    \/ register_named
    \/ unregister_named

\* The slots of the fixed registry stay packed, so a device that is registered
\* is always found by the scan that stops at `len`, and by one id only one; in
\* the kernel's registry a name is held once, and an id once until the id
\* counter has gone all the way round.
RegistriesSound ==
    /\ \A s \in 1..CAPACITY : slots[s] # None <=> s <= len
    /\ \A s, t \in 1..len : Ids[slots[s]] = Ids[slots[t]] => s = t
    /\ \A s, t \in 1..CAPACITY :
          entries[s] # None /\ entries[t] # None /\ s # t =>
             /\ entries[s].name # entries[t].name
             /\ ~wrapped => entries[s].id # entries[t].id

-----------------------------------------------------------------------------
(* The partition parsers *)

\* A disk: its size, the entries of the MBR (of kind "none" when unused, "ee"
\* when protective), and the GPT header with its entries.
Mbrs ==
    {<<>>} \cup {<<a, b>> : a, b \in
        [kind : {"none", "data", "ee"}, first : {1, 3}, count : {0, 1, 3}]}

Gpts ==
    {None} \cup [crc : BOOLEAN, lba : {2, 9}, first_usable : {1}, last_usable : {2, 5},
                 entries : {<<[used |-> TRUE, first |-> f, last |-> l],
                              [used |-> u, first |-> 2, last |-> 2],
                              [used |-> TRUE, first |-> 1, last |-> 1]>>
                               : f \in {0, 1}, l \in {0, 3}, u \in BOOLEAN}]

Disks == [blocks : {1, 4}, mbr : Mbrs, gpt : Gpts]

Error == [kind |-> "Error", protective |-> FALSE, partitions |-> <<>>]

Used(entry) == entry.kind # "none" /\ entry.count # 0

\* The indices an entry loop keeps, in order, of the entries it finds used.
Kept(used) == SelectSeq([i \in DOMAIN used |-> i], LAMBDA i : used[i])

parse_mbr_sector(d) ==
    LET kept == Kept([i \in DOMAIN d.mbr |-> Used(d.mbr[i])])
    IN  IF d.mbr = <<>> \/ \E i \in Range(kept) : d.mbr[i].first + d.mbr[i].count > d.blocks
        THEN Error
        ELSE [kind |-> "Mbr",
              protective |-> \E i \in Range(kept) : d.mbr[i].kind = "ee",
              partitions |-> [k \in DOMAIN kept |->
                 [index |-> kept[k], first |-> d.mbr[kept[k]].first, count |-> d.mbr[kept[k]].count]]]

\* parse_gpt with parse_gpt_header_and_entries; `crc` stands for both checksums.
parse_gpt(d) ==
    LET g == d.gpt
        kept == Kept([i \in 1..Min({Len(g.entries), MAX_PARTITIONS}) |-> g.entries[i].used])
        Bad(entry) == \/ entry.first < g.first_usable
                      \/ entry.last > g.last_usable
                      \/ entry.last < entry.first
    IN  IF \/ d.blocks < 2
           \/ ~parse_mbr_sector(d).protective
           \/ g = None
        THEN Error
        ELSE IF ~g.crc \/ g.lba >= d.blocks \/ \E i \in Range(kept) : Bad(g.entries[i])
        THEN Error
        ELSE [kind |-> "Gpt", protective |-> TRUE,
              partitions |-> [k \in DOMAIN kept |->
                 [index |-> kept[k], first |-> g.entries[kept[k]].first,
                  count |-> g.entries[kept[k]].last - g.entries[kept[k]].first + 1]]]

parse_partitions(d) ==
    IF parse_gpt(d).kind # "Error" THEN parse_gpt(d) ELSE parse_mbr_sector(d)

\* The storage service's scan: the GPT signature alone decides, and the entries
\* of an MBR are taken as they are.
scan_partition_table(d) ==
    LET kept == Kept([i \in DOMAIN d.mbr |-> Used(d.mbr[i])])
    IN  CASE d.blocks > 1 /\ d.gpt # None -> [kind |-> "Gpt", partitions |-> <<>>]
          [] ~(d.blocks > 1 /\ d.gpt # None) /\ d.mbr # <<>> ->
               [kind |-> "Mbr",
                partitions |-> [k \in DOMAIN kept |->
                   [index |-> kept[k], first |-> d.mbr[kept[k]].first, count |-> d.mbr[kept[k]].count]]]
          [] OTHER -> [kind |-> "Unknown", partitions |-> <<>>]

PartitionInit == disk \in Disks /\ parsed = None

parse ==
    /\ parsed = None
    /\ parsed' = [kernel |-> parse_partitions(disk), service |-> scan_partition_table(disk)]
    /\ UNCHANGED <<hardware, calls, disk>>

\* A table the kernel accepts has its partitions on the disk for an MBR and in
\* the usable area for a GPT, none is empty and no more than fit the table; and
\* a disk on which both parsers find an MBR has the same partitions for both.
PartitionsSound ==
    parsed # None =>
       /\ Len(parsed.kernel.partitions) <= MAX_PARTITIONS
       /\ \A p \in Range(parsed.kernel.partitions) :
             /\ p.count > 0
             /\ parsed.kernel.kind = "Mbr" => p.first + p.count <= disk.blocks
             /\ parsed.kernel.kind = "Gpt" =>
                   p.first >= disk.gpt.first_usable /\ p.first + p.count - 1 <= disk.gpt.last_usable
       /\ parsed.kernel.kind = "Mbr" /\ parsed.service.kind = "Mbr" =>
             parsed.kernel.partitions = parsed.service.partitions
       /\ parsed.kernel.kind = "Gpt" => parsed.service.kind = "Gpt"
=============================================================================

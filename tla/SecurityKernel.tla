--------------------------- MODULE SecurityKernel ---------------------------
(***************************************************************************)
(* The L2 security kernel of src/subkernel/mod.rs: the table of task       *)
(* domains, the table of capability records, and the authorization         *)
(* decisions taken from them, driven the way src/kernel/exec.rs and        *)
(* src/kernel/mod.rs drive them: task creation registers a domain and      *)
(* derives the parent's transferable capabilities, exec registers the task *)
(* again with new credentials, exit revokes everything the task owns.      *)
(*                                                                         *)
(* A label is a level and a set of categories, rights and capability bits  *)
(* are sets. Objects with an identifier are [kind, id]; regions are        *)
(* [kind, base, length]. Capability ids count up from 1 (the 64-bit wrap   *)
(* is out of reach); process ids are never used twice.                     *)
(***************************************************************************)
EXTENDS Integers, FiniteSets, Sequences

CONSTANTS MAX, None, AnyId,
          Categories,   \* of labels
          Setups        \* the tables, processes and credentials in play, see setup

VARIABLES setup,         \* fixed: [records, pids, credentials, ids, calls]
          domains,       \* slot -> [pid, creds] or None
          capabilities,  \* slot -> [id, owner, object, rights, parent] or None
          next_capability_id,
          issued,        \* history: id -> the record, and its owner's credentials
          revoked,       \* history: ids revoked one by one
          sponsor,       \* history: pid -> the creator's credentials, when it has a creator
          promoted,      \* history: pids that executed a signed service daemon
          calls,         \* calls other than creations and exits so far
          lost           \* history: pids whose records were revoked, or never all seeded

vars == <<setup, domains, capabilities, next_capability_id, issued, revoked, sponsor, promoted, calls, lost>>

MAX_CAPABILITY_RECORDS == setup.records
Pids == setup.pids          \* a set of numbers
MaxIds == setup.ids         \* bound on the capability ids handed out
MaxCalls == setup.calls     \* bound on the calls other than creations and exits

DomainSlots == 1 .. MAX
CapSlots == 1 .. MAX_CAPABILITY_RECORDS
Least(S) == CHOOSE i \in S : \A j \in S : i <= j

Rights == {"Read", "Write", "Send", "Receive", "Control", "Transfer", "Revoke"}
IoRights == {"Read", "Write", "Control", "Transfer", "Revoke"}
EndpointRights == {"Send", "Receive", "Transfer", "Revoke"}
ControlRights == {"Control", "Transfer", "Revoke"}
inherited_child(rights) == rights \ {"Revoke"}

\* SecurityLevel, and the labels of the classes: only System has categories.
Level == [Public |-> 0, Internal |-> 1, Confidential |-> 2, System |-> 3]
Label(class) == [level |-> Level[class], categories |-> IF class = "System" THEN Categories ELSE {}]
dominates(a, b) == a.level >= b.level /\ b.categories \subseteq a.categories

CapabilityBits == {"ipc", "spawn", "kernel", "io"}
Credentials == [label : [level : 0 .. 3, categories : SUBSET Categories],
                capabilities : SUBSET CapabilityBits,
                isolation : {"None", "Process", "VirtualMachine"}]

\* The credentials the code and its tests build.
Creds(profile) ==
    LET of(class, caps, isolation) ==
            [label |-> Label(class), capabilities |-> caps, isolation |-> isolation]
    IN CASE profile = "user" -> of("Internal", {"ipc"}, "None")
         [] profile = "sealed" -> of("Confidential", {"ipc"}, "VirtualMachine")
         [] profile = "spawner" -> of("Internal", {"ipc", "spawn"}, "Process")
         [] profile = "launcher" -> of("Internal", {"spawn"}, "Process")
         [] profile = "driver" -> of("Internal", {"ipc", "io"}, "Process")
         [] profile = "kernel" -> of("Internal", {"spawn", "kernel"}, "Process")
         [] profile = "system" -> of("System", {"ipc", "spawn", "kernel", "io"}, "Process")

has_system_privilege(c) == c.label.level = Level["System"] \/ "kernel" \in c.capabilities
can_delegate(c, requested) == /\ dominates(c.label, requested.label)
                              /\ requested.capabilities \subseteq c.capabilities

Object(kind, id) == [kind |-> kind, id |-> id]
Region(kind, base, length) == [kind |-> kind, base |-> base, length |-> length]
RegionKinds == {"DmaRegion", "MmioRegion", "VramRegion", "Framebuffer"}
Top == 4      \* stands for u64::MAX, at which region ends saturate
End(region) == IF region.base + region.length > Top THEN Top ELSE region.base + region.length
Wild == {"IpcEndpoint", "ProcessHandle", "PciDevice", "FsObject", "HotplugController",
         "MemoryObject", "IrqLine"}
Plain == {"ServiceControl", "ModuleLoad", "BlockDeviceRegistry", "DisplayRegistry"}
Ids == Nat \cup {AnyId, None}
Objects == [kind : Wild \cup Plain, id : Ids] \cup [kind : RegionKinds, base : Nat, length : Nat]

\* Mutant: a maximal id grants every kind.
MatchesAnyKind(granted, requested) ==
    granted = requested \/ (granted.kind \in Wild /\ granted.id = AnyId)

\* A region grants any region inside it; a maximal id grants its kind.
capability_object_matches(granted, requested) ==
    \/ granted = requested
    \/ /\ granted.kind \in Wild /\ requested.kind = granted.kind
       /\ granted.id = AnyId
    \/ /\ {granted.kind, requested.kind} \subseteq RegionKinds
       /\ requested.base >= granted.base
       /\ End(requested) <= End(granted)

(* The tables as a record k, threaded through the operations.              *)
Here == [domains |-> domains, caps |-> capabilities, next |-> next_capability_id]
Become(result) ==
    \E k \in {result} :
       /\ domains' = k.domains
       /\ capabilities' = k.caps
       /\ next_capability_id' = k.next

\* The types of the tables.
Entries == [pid : Nat, creds : Credentials]
CapabilityRecords == [id : Nat, owner : Nat, object : Objects, rights : SUBSET Rights,
                      parent : Nat \cup {None}]

ASSUME ConstantsAssumption ==
    /\ MAX \in Nat
    /\ \A s \in Setups : /\ s.records \in Nat
                         /\ s.pids \subseteq Nat
                         /\ s.credentials \subseteq Credentials
    /\ AnyId \notin Nat
    /\ None \notin Nat \cup {AnyId} \cup Credentials \cup Entries \cup CapabilityRecords

DomainOf(k, pid) == {i \in DomainSlots : k.domains[i] # None /\ k.domains[i].pid = pid}
Known(k, pid) == DomainOf(k, pid) # {}
domain(k, pid) == k.domains[Least(DomainOf(k, pid))].creds
Records(k) == {k.caps[i] : i \in {j \in DOMAIN k.caps : k.caps[j] # None}}

has_capability(k, owner, object, right) ==
    \E r \in Records(k) : /\ r.owner = owner
                          /\ capability_object_matches(r.object, object)
                          /\ right \in r.rights
check_capability(k, owner, object, right) ==
    Known(k, owner) /\ has_capability(k, owner, object, right)

\* The place of i among the slots S, and the slot at the n-th place.
Rank(S, i) == Cardinality({j \in S : j <= i})
Nth(S, n) == CHOOSE i \in S : Rank(S, i) = n

FreeSlots(k) == {i \in DOMAIN k.caps : k.caps[i] = None}
NewRecord(k, owner, what, n) ==
    [id |-> k.next + n - 1, owner |-> owner, object |-> what.object, rights |-> what.rights,
     parent |-> what.parent]

\* A sequence of insertions, each into the first free slot, up to the first
\* that finds none: [k, ok].
insert_capability(k, owner, new) ==
    LET free == FreeSlots(k)
        fits == IF Len(new) <= Cardinality(free) THEN Len(new) ELSE Cardinality(free)
    IN [k |-> [domains |-> k.domains,
               caps |-> [i \in DOMAIN k.caps |->
                            IF i \in free /\ Rank(free, i) <= fits
                            THEN NewRecord(k, owner, new[Rank(free, i)], Rank(free, i))
                            ELSE k.caps[i]],
               next |-> k.next + fits],
        ok |-> fits = Len(new)]

\* What a task of these credentials is seeded with, in order.
Seed(kind, id, rights) == [object |-> Object(kind, id), rights |-> rights, parent |-> None]
SeedAll(kind) == [object |-> Region(kind, 0, Top), rights |-> IoRights, parent |-> None]
IpcSeeds(pid, creds) ==
    IF "ipc" \notin creds.capabilities THEN <<>>
    ELSE <<Seed("IpcEndpoint", pid, EndpointRights), Seed("IpcEndpoint", AnyId, EndpointRights)>>
IoSeeds(creds) ==
    IF "io" \notin creds.capabilities THEN <<>>
    ELSE <<Seed("PciDevice", AnyId, IoRights), SeedAll("DmaRegion"),
           Seed("IrqLine", AnyId, IoRights), SeedAll("MmioRegion")>>
SystemSeeds(pid, creds) ==
    IF ~has_system_privilege(creds) THEN <<>>
    ELSE <<Seed("ServiceControl", None, ControlRights), Seed("ModuleLoad", None, ControlRights),
           Seed("ProcessHandle", pid, ControlRights), Seed("ProcessHandle", AnyId, ControlRights),
           Seed("MemoryObject", AnyId, IoRights)>>
Seeds(pid, creds) == IpcSeeds(pid, creds) \o IoSeeds(creds) \o SystemSeeds(pid, creds)

seed_initial_capabilities(k, pid, creds) == insert_capability(k, pid, Seeds(pid, creds))

revoke_all_capabilities(k, owner) ==
    [k EXCEPT !.caps = [i \in DOMAIN k.caps |->
        IF @[i] # None /\ @[i].owner = owner THEN None ELSE @[i]]]

revoke_task(k, pid) ==
    revoke_all_capabilities(
        [k EXCEPT !.domains = [i \in DomainSlots |->
            IF i \in DomainOf(k, pid) THEN None ELSE @[i]]], pid)

\* A known task keeps its old domain when the new seeds do not fit, and none of
\* its records; a new task loses the domain and keeps the seeds that did fit.
register_task(k, pid, creds) ==
    LET entry == [pid |-> pid, creds |-> creds]
        at == Least(DomainOf(k, pid))
        again == seed_initial_capabilities(
                    revoke_all_capabilities([k EXCEPT !.domains[at] = entry], pid), pid, creds)
        free == {i \in DomainSlots : k.domains[i] = None}
        first == seed_initial_capabilities([k EXCEPT !.domains[Least(free)] = entry], pid, creds)
    IN IF Known(k, pid)
       THEN IF again.ok THEN again
            ELSE [k |-> [revoke_all_capabilities(again.k, pid) EXCEPT !.domains = k.domains],
                  ok |-> FALSE]
       ELSE IF free = {} THEN [k |-> k, ok |-> FALSE]
       ELSE IF first.ok THEN first
       ELSE [k |-> [first.k EXCEPT !.domains = k.domains], ok |-> FALSE]

\* What a record hands on.
Child(record) == [object |-> record.object, rights |-> inherited_child(record.rights),
                  parent |-> record.id]

\* Over the records as they were before the first insertion.
derive_inherited_child_capabilities(k, parent, child) ==
    LET given == {i \in DOMAIN k.caps : /\ k.caps[i] # None /\ k.caps[i].owner = parent
                                   /\ "Transfer" \in k.caps[i].rights}
    IN IF ~Known(k, parent) \/ ~Known(k, child) THEN [k |-> k, ok |-> FALSE]
       ELSE insert_capability(k, child, [n \in 1 .. Cardinality(given) |-> Child(k.caps[Nth(given, n)])])

\* Mutant: children survive.
RevokedAlone(k, id) ==
    [k EXCEPT !.caps = [i \in DOMAIN k.caps |-> IF @[i] # None /\ @[i].id = id THEN None ELSE @[i]]]

\* The record and those derived from it directly.
Revoked(k, id) ==
    [k EXCEPT !.caps = [i \in DOMAIN k.caps |->
        IF @[i] # None /\ id \in {@[i].id, @[i].parent} THEN None ELSE @[i]]]

authorize_ipc(k, sender, receiver, class) ==
    /\ Known(k, sender) /\ Known(k, receiver)
    /\ check_capability(k, sender, Object("IpcEndpoint", receiver), "Send")
    /\ "ipc" \in domain(k, sender).capabilities
    /\ dominates(domain(k, sender).label, Label(class))
    /\ dominates(domain(k, receiver).label, Label(class))
    /\ ~(domain(k, sender).isolation = "VirtualMachine" /\ domain(k, receiver).isolation = "None")

authorize_ipc_receive(k, pid) == check_capability(k, pid, Object("IpcEndpoint", pid), "Receive")

authorize_service_control(k, pid) ==
    check_capability(k, pid, Object("ServiceControl", None), "Control")

authorize_credential_update(k, pid) ==
    check_capability(k, pid, Object("ProcessHandle", pid), "Control")

authorize_service_registration(k, pid, class) ==
    authorize_ipc_receive(k, pid) /\ dominates(domain(k, pid).label, Label(class))

authorize_device_enumeration(k, pid) == check_capability(k, pid, Object("PciDevice", AnyId), "Read")

authorize_device_access(k, pid, object, right, class, kernelMode) ==
    /\ check_capability(k, pid, object, right)
    /\ kernelMode => check_capability(k, pid, Object("ModuleLoad", None), "Control")
    /\ dominates(domain(k, pid).label, Label(class))

\* quarantine_events is never raised: enforce_isolation asks for a domain only.
authorize_memory_mapping(k, pid, write, execute) ==
    /\ Known(k, pid)
    /\ ~(write /\ execute)
    /\ execute => has_system_privilege(domain(k, pid))

authorize_spawn(k, parent, requested) ==
    /\ Known(k, parent)
    /\ "spawn" \in domain(k, parent).capabilities
    /\ has_system_privilege(domain(k, parent)) \/ can_delegate(domain(k, parent), requested)

authorize_exec(k, pid, requested, executable, truncated, signed) ==
    /\ Known(k, pid)
    /\ executable /\ ~truncated
    /\ \/ has_system_privilege(domain(k, pid))
       \/ can_delegate(domain(k, pid), requested)
       \/ signed
-----------------------------------------------------------------------------
Used == DOMAIN sponsor
NewPid == Least(Pids \ Used)
With(f, x, y) == [z \in DOMAIN f \cup {x} |-> IF z = x THEN y ELSE f[z]]

\* Every record of k that is new, with the credentials of its owner then and the record
\* its derivation starts at.
Noted(k, past) ==
    LET new == {r \in Records(k) : r.id \notin DOMAIN past}
        of(id) == CHOOSE r \in new : r.id = id
    IN [id \in DOMAIN past \cup {r.id : r \in new} |->
           IF id \in DOMAIN past THEN past[id]
           ELSE [record |-> of(id),
                 creds |-> IF Known(k, of(id).owner) THEN domain(k, of(id).owner) ELSE None,
                 root |-> IF of(id).parent = None THEN id ELSE past[of(id).parent].root]]
Note(k) == issued' = Noted(k, issued)

Called == calls < MaxCalls /\ calls' = calls + 1
Bounded(k) == k.next <= MaxIds + 1

\* create_process_task and create_cloned_process_shell: the parent is asked for
\* first, then the domain is registered, then the parent's records derived; a
\* failed derivation, or a later failure of the creation, revokes the task.
create_process_task(parent, creds, fault) ==
    LET pid == NewPid
        r == register_task(Here, pid, creds)
        d == IF parent = None THEN r ELSE derive_inherited_child_capabilities(r.k, parent, pid)
        k == IF ~r.ok THEN r.k ELSE IF ~d.ok \/ fault THEN revoke_task(d.k, pid) ELSE d.k
    IN /\ Pids # Used
       /\ parent # None => authorize_spawn(Here, parent, creds)
       /\ Bounded(d.k)
       /\ Become(k) /\ Note(k)
       /\ sponsor' = With(sponsor, pid, IF parent = None THEN None ELSE domain(Here, parent))
       /\ lost' = IF r.ok THEN lost ELSE lost \cup {pid}
       /\ UNCHANGED <<setup, revoked, promoted, calls>>

\* exec_task: a failed registration is reported after the image was replaced.
exec_task(pid, creds, signed) ==
    LET r == register_task(Here, pid, creds)
    IN /\ Called
       /\ authorize_exec(Here, pid, creds, TRUE, FALSE, signed)
       /\ Bounded(r.k)
       /\ Become(r.k) /\ Note(r.k)
       /\ promoted' = IF signed /\ r.ok THEN promoted \cup {pid} ELSE promoted
       /\ lost' = IF r.ok THEN lost \ {pid} ELSE lost \cup {pid}
       /\ UNCHANGED <<setup, revoked, sponsor>>

exit_process(pid) ==
    /\ Known(Here, pid)
    /\ Become(revoke_task(Here, pid))
    /\ UNCHANGED <<setup, issued, revoked, sponsor, promoted, calls, lost>>

revoke_task_capabilities(pid) ==
    /\ Called
    /\ Known(Here, pid)
    /\ Become(revoke_all_capabilities(Here, pid))
    /\ lost' = lost \cup {pid}
    /\ UNCHANGED <<setup, issued, revoked, sponsor, promoted>>

grant_capability(owner, object, rights) ==
    LET g == insert_capability(Here, owner, <<[object |-> object, rights |-> rights, parent |-> None]>>)
    IN /\ Called
       /\ Known(Here, owner) /\ g.ok
       /\ Bounded(g.k)
       /\ Become(g.k) /\ Note(g.k)
       /\ UNCHANGED <<setup, revoked, sponsor, promoted, lost>>

revoke_capability(id) ==
    /\ \E r \in Records(Here) : r.id = id
    /\ Called
    /\ Become(Revoked(Here, id))
    /\ revoked' = revoked \cup {id}
    /\ lost' = lost \cup {r.owner : r \in Records(Here) \ Records(Revoked(Here, id))}
    /\ UNCHANGED <<setup, issued, sponsor, promoted>>

transfer_capability(source, target, id) ==
    /\ Called
    /\ Known(Here, source) /\ Known(Here, target)
    /\ \E r \in Records(Here) :
          LET t == insert_capability(Here, target, <<Child(r)>>)
          IN /\ r.id = id /\ r.owner = source /\ "Transfer" \in r.rights
             /\ t.ok
             /\ Bounded(t.k)
             /\ Become(t.k) /\ Note(t.k)
    /\ UNCHANGED <<setup, revoked, sponsor, promoted, lost>>

Granted == Object("PciDevice", 1)

Init ==
    /\ setup \in Setups
    /\ domains = [i \in DomainSlots |-> None]
    /\ capabilities = [i \in CapSlots |-> None]
    /\ next_capability_id = 1
    /\ issued = [id \in {} |-> None]
    /\ revoked = {}
    /\ sponsor = [p \in {} |-> None]
    /\ promoted = {}
    /\ calls = 0
    /\ lost = {}

Next ==
    \/ \E c \in setup.credentials : create_process_task(None, c, FALSE) /\ Used = {}
    \/ \E p \in Used, c \in setup.credentials, fault \in BOOLEAN : create_process_task(p, c, fault)
    \/ \E p \in Used, c \in setup.credentials, signed \in BOOLEAN : exec_task(p, c, signed)
    \/ \E p \in Used : exit_process(p) \/ revoke_task_capabilities(p)
    \/ \E p \in Used : grant_capability(p, Granted, IoRights)
    \/ \E id \in DOMAIN issued : revoke_capability(id)
    \/ \E p, q \in Used, id \in DOMAIN issued : transfer_capability(p, q, id)

Spec == Init /\ [][Next]_vars
-----------------------------------------------------------------------------
Living == {p \in Used : Known(Here, p)}

\* A capability id names one record: no two slots hold the same id and none
\* is at or above the next one to be handed out.
IdsUnique ==
    /\ \A r \in Records(Here) : r.id < next_capability_id
    /\ \A i, j \in CapSlots : i # j /\ capabilities[i] # None /\ capabilities[j] # None
                                => capabilities[i].id # capabilities[j].id

\* Records belong to registered tasks, through creations that fail half-way and
\* revocations, except those of a task whose first registration ran out of
\* slots: register_task leaves them behind.
OwnersKnown == \A r \in Records(Here) : Known(Here, r.owner) \/ r.owner \in lost

\* However it was handed on, a derived record is for its parent's object, never
\* exceeds its parent's rights, and cannot be used to revoke.
Attenuated ==
    \A r \in Records(Here) : r.parent # None =>
        LET from == issued[r.parent].record
        IN r.object = from.object /\ r.rights \subseteq from.rights \ {"Revoke"}

\* A revoked capability is gone for good, with everything derived from it
\* directly; ids are not handed out again.
RevocationHolds == \A r \in Records(Here) : r.id \notin revoked /\ r.parent \notin revoked

\* Spawns and execs, in any number, give a task no more than its creator could
\* delegate, unless it executed a signed service daemon; in particular the
\* descendants of an unprivileged task map no executable memory.
Delegated ==
    \A p \in Living \ promoted :
        sponsor[p] # None /\ ~has_system_privilege(sponsor[p]) =>
            /\ can_delegate(sponsor[p], domain(Here, p))
            /\ \A write \in BOOLEAN : ~authorize_memory_mapping(Here, p, write, TRUE)

\* A task with the IPC capability whose seeds are intact can receive, can own a
\* service of every class its label dominates, and can send to every living
\* task that the labels and the isolation levels allow.
CanCommunicate ==
    \A p \in Living \ lost, class \in DOMAIN Level : "ipc" \in domain(Here, p).capabilities =>
        /\ authorize_ipc_receive(Here, p)
        /\ authorize_service_registration(Here, p, class)
                <=> dominates(domain(Here, p).label, Label(class))
        /\ \A q \in Living : authorize_ipc(Here, p, q, class) <=>
              /\ dominates(domain(Here, p).label, Label(class))
              /\ dominates(domain(Here, q).label, Label(class))
              /\ domain(Here, p).isolation = "VirtualMachine" =>
                    domain(Here, q).isolation # "None"

\* Control of services, credentials and kernel-mode devices, and enumeration
\* of devices, is held only through a chain of derivations that starts at a
\* task whose credentials gave it.
PrivilegesTraced ==
    \A p \in Living :
        LET origins == {issued[issued[r.id].root].creds : r \in {x \in Records(Here) : x.owner = p}}
            privileged == \E c \in origins : c # None /\ has_system_privilege(c)
        IN /\ authorize_service_control(Here, p) => privileged
           /\ authorize_credential_update(Here, p) => privileged
           /\ authorize_device_access(Here, p, Granted, "Read", "Internal", TRUE) => privileged
           /\ authorize_device_enumeration(Here, p) => \E c \in origins : c # None /\ "io" \in c.capabilities

\* Through creations that fail half way, exec, delegation, revocation and exit, capability
\* records are of tasks the broker knows, narrow down what they derive from, vanish with
\* what was revoked, and give any two live tasks the channel their labels allow.
AuthorityBounded ==
    IdsUnique /\ OwnersKnown /\ Attenuated /\ RevocationHolds /\ Delegated /\ CanCommunicate
=============================================================================

----------------------------- MODULE Supervisor -----------------------------
(***************************************************************************)
(* The supervisor of src/supervisor/mod.rs: the services of a manifest are *)
(* started in dependency order, equipped with capabilities and an          *)
(* endpoint, and, when their process exits, stripped and started again.    *)
(*                                                                         *)
(* Of the kernel it has the process table (exited processes keep their     *)
(* slot until the parent waits), the capability records with their owners, *)
(* and the service registry. Startup is one loop of the booting kernel;    *)
(* afterwards processes claim and release devices, exit, and their exit    *)
(* reports are handled in any order. Capability rights are left out; an    *)
(* object stands for the object with its rights.                           *)
(***************************************************************************)
EXTENDS Integers, Sequences, FiniteSets

CONSTANTS Endpoints, Devices, MaxRegistrations, MaxClaims,
          CanClaim,    \* the pairs <<service, device>> can_claim_device_kind accepts
          Order,       \* the services of the manifest, in its order
          Manifests,   \* dependencies, good signatures and restart policies it may have
          Specs,       \* [service -> sequence of capability objects]
          Authority,   \* the object that allows to register endpoints
          PciOf,       \* [device -> the capability object a claim needs]
          MaxProc, MaxCaps, MaxOthers, MaxPid, MaxServiceClaims

VARIABLES manifest,
          others,   \* capability records that other processes hold
          records, procs, caps, registry, next_pid, next_cap,
          pc, idx, made_progress, pending,
          exits,     \* exit reports nobody has handled
          born       \* history: [pid -> what was true when the process was spawned]

kernel == <<procs, caps, registry, next_pid, next_cap>>
loop == <<pc, idx, made_progress, pending>>
vars == <<manifest, others, records, kernel, loop, exits, born>>

Services == {Order[i] : i \in 1 .. Len(Order)}
NoPid == 0
K == [procs |-> procs, caps |-> caps, registry |-> registry, next_pid |-> next_pid,
      next_cap |-> next_cap]
Live(k) == {p \in DOMAIN k.procs : k.procs[p].state = "live"}

-----------------------------------------------------------------------------
(* The registry of src/kernel/services/registry.rs: which process owns an    *)
(* endpoint, and which has claimed a device for a service.                   *)

NewRegistry == [owners |-> {}, claims |-> {}]

Done(r) == [ok |-> TRUE, registry |-> r]
Refused(r) == [ok |-> FALSE, registry |-> r]

OwnerOf(r, service) == {o.owner : o \in {x \in r.owners : x.service = service}}

register(r, service, owner) ==
    IF OwnerOf(r, service) # {}
    THEN IF owner \in OwnerOf(r, service) THEN Done(r) ELSE Refused(r)
    ELSE IF Cardinality(r.owners) = MaxRegistrations THEN Refused(r)
    ELSE Done([r EXCEPT !.owners = @ \cup {[service |-> service, owner |-> owner]}])

claim_device(r, service, owner, device) ==
    LET claim == [service |-> service, owner |-> owner, device |-> device]
    IN CASE <<service, device>> \notin CanClaim -> Refused(r)
         [] OwnerOf(r, service) # {owner} -> Refused(r)
         [] claim \in r.claims -> Done(r)
         [] \E c \in r.claims : c.device = device -> Refused(r)
         [] Cardinality(r.claims) = MaxClaims -> Refused(r)
         [] OTHER -> Done([r EXCEPT !.claims = @ \cup {claim}])

release_device(r, service, owner, device) ==
    LET claim == [service |-> service, owner |-> owner, device |-> device]
    IN IF claim \in r.claims THEN Done([r EXCEPT !.claims = @ \ {claim}]) ELSE Refused(r)

revoke_owner(r, owner) ==
    [owners |-> {o \in r.owners : o.owner # owner},
     claims |-> {c \in r.claims : c.owner # owner}]

-----------------------------------------------------------------------------
(* The kernel calls the supervisor makes, as operations on k.               *)

Room(k) == MaxCaps - others - Cardinality(k.caps)
Fresh(k, owner, object) == [id |-> k.next_cap, owner |-> owner, object |-> object]

grant_task_capability(k, owner, object) ==
    IF owner \notin Live(k) \/ Room(k) = 0 THEN [ok |-> FALSE, k |-> k]
    ELSE [ok |-> TRUE, k |-> [k EXCEPT !.caps = @ \cup {Fresh(k, owner, object)},
                                       !.next_cap = @ + 1]]

revoke_task_capabilities(k, owner) == [k EXCEPT !.caps = {c \in @ : c.owner # owner}]

\* Mutant: one slot of the process table is never used.
SpawnKeepsSlot(k, service, parent) ==
    IF Cardinality(DOMAIN k.procs) = MaxProc - 1 \/ (parent # NoPid /\ parent \notin Live(k))
          \/ Room(k) = 0
    THEN [ok |-> FALSE, k |-> k, pid |-> NoPid]
    ELSE LET pid == k.next_pid
         IN [ok |-> TRUE, pid |-> pid,
             k |-> [k EXCEPT !.procs = [p \in DOMAIN @ \cup {pid} |-> IF p = pid
                                 THEN [state |-> "live", service |-> service, parent |-> parent]
                                 ELSE @[p]],
                             !.next_pid = @ + 1,
                             !.caps = @ \cup {Fresh(k, pid, <<"seed">>)},
                             !.next_cap = @ + 1]]

\* mtss_spawn_task: a slot, a domain derived from the parent's, an initial capability.
mtss_spawn_task(k, service, parent) ==
    IF Cardinality(DOMAIN k.procs) = MaxProc \/ (parent # NoPid /\ parent \notin Live(k))
          \/ Room(k) = 0
    THEN [ok |-> FALSE, k |-> k, pid |-> NoPid]
    ELSE LET pid == k.next_pid
         IN [ok |-> TRUE, pid |-> pid,
             k |-> [k EXCEPT !.procs = [p \in DOMAIN @ \cup {pid} |-> IF p = pid
                                 THEN [state |-> "live", service |-> service, parent |-> parent]
                                 ELSE @[p]],
                             !.next_pid = @ + 1,
                             !.caps = @ \cup {Fresh(k, pid, <<"seed">>)},
                             !.next_cap = @ + 1]]

reset_spawned_service_capabilities(k, pid) ==
    grant_task_capability(revoke_task_capabilities(k, pid), pid, <<"own endpoint">>)

\* Both sides need a domain, the authorizer the right to control services.
register_endpoint(k, authorizer, service, owner) ==
    IF \E c \in k.caps : c.owner = authorizer /\ c.object = Authority
    THEN IF owner \in Live(k)
         THEN LET r == register(k.registry, service, owner)
              IN [ok |-> r.ok, k |-> [k EXCEPT !.registry = r.registry]]
         ELSE [ok |-> FALSE, k |-> k]
    ELSE [ok |-> FALSE, k |-> k]

claim_service_device(k, owner, service, device) ==
    IF \E c \in k.caps : c.owner = owner /\ c.object = PciOf[device]
    THEN LET r == claim_device(k.registry, service, owner, device)
         IN [ok |-> r.ok, k |-> [k EXCEPT !.registry = r.registry]]
    ELSE [ok |-> FALSE, k |-> k]

-----------------------------------------------------------------------------
(* Records.                                                                 *)

pending_record(s) ==
    [state |-> "Created", pid |-> NoPid, assigned |-> [i \in DOMAIN Specs[s] |-> 0],
     endpoint |-> FALSE, devices |-> {}, generation |-> 0]

set_denied(rs, s) == [rs EXCEPT ![s].state = "Denied", ![s].pid = NoPid]

\* Mutant: only the services that have failed are an obstacle.
DependenciesNotFailed(rs, s) ==
    LET deps == manifest.deps[s]
        states == {IF d \in Services THEN rs[d].state ELSE "missing" : d \in deps}
    IN IF states \cap {"Denied", "Crashed", "Stopped", "missing"} # {} THEN "Failed" ELSE "Ready"

\* The list is read in order: what stops it first decides. At most one of a service's
\* dependencies is not running in the manifests here, or both have the same effect.
dependencies_ready(rs, s) ==
    LET deps == manifest.deps[s]
        states == {IF d \in Services THEN rs[d].state ELSE "missing" : d \in deps}
    IN CASE states \subseteq {"Running"} -> "Ready"
         [] states \cap {"Denied", "Crashed", "Stopped", "missing"} # {} -> "Failed"
         [] OTHER -> "Waiting"

\* parent_for, and the parent of dependencies_ready: the first dependency with a process.
parent_for(rs, s) ==
    LET with == {i \in 1 .. Len(Order) : Order[i] \in manifest.deps[s] /\ rs[Order[i]].pid # NoPid}
    IN IF with = {} THEN NoPid
       ELSE rs[Order[CHOOSE i \in with : \A j \in with : i <= j]].pid

\* regrant_record_capabilities: one grant after the other; a refusal leaves the ones
\* before it with the process and none of them in the record.
regrant_record_capabilities(k, s, pid) ==
    LET room == Room(k)
        fits == Len(Specs[s]) <= room
        n == IF fits THEN Len(Specs[s]) ELSE room
    IN [ok |-> fits,
        assigned |-> [i \in DOMAIN Specs[s] |-> IF fits THEN k.next_cap + i - 1
                                                ELSE records[s].assigned[i]],
        k |-> [k EXCEPT !.caps = @ \cup {[id |-> k.next_cap + i - 1, owner |-> pid,
                                          object |-> Specs[s][i]] : i \in 1 .. n},
                        !.next_cap = @ + n]]

Kernel(k) ==
    /\ procs' = k.procs /\ caps' = k.caps /\ registry' = k.registry
    /\ next_pid' = k.next_pid /\ next_cap' = k.next_cap

\* What was true when the process was spawned.
Witness(s, sp) ==
    born' = IF sp.ok THEN [p \in DOMAIN born \cup {sp.pid} |->
                              IF p = sp.pid
                              THEN [service |-> s, signed |-> s \in manifest.signed,
                                    ready |-> \A d \in manifest.deps[s] :
                                                 d \in Services /\ records[d].state = "Running"]
                              ELSE born[p]]
            ELSE born

-----------------------------------------------------------------------------
Init ==
    /\ manifest \in Manifests /\ others \in 0 .. MaxOthers
    /\ records = [s \in Services |-> pending_record(s)]
    /\ procs = [p \in {} |-> 0] /\ caps = {} /\ registry = NewRegistry
    /\ next_pid = 1 /\ next_cap = 1
    /\ pc = "startup" /\ idx = 1 /\ made_progress = FALSE /\ pending = 0
    /\ exits = {}
    /\ born = [p \in {} |-> 0]

\* One launch of spawn_services: validated, spawned, reset, equipped, registered. The
\* result of the endpoint registration is not looked at.
Launch(s) ==
    LET parent == parent_for(records, s)
        sp == mtss_spawn_task(K, s, parent)
        rs == reset_spawned_service_capabilities(sp.k, sp.pid)
        rg == regrant_record_capabilities(rs.k, s, sp.pid)
        ep == IF s \in Endpoints /\ parent # NoPid
              THEN register_endpoint(rg.k, parent, s, sp.pid) ELSE [ok |-> TRUE, k |-> rg.k]
    IN /\ Witness(s, sp)
       /\ CASE ~sp.ok -> records' = set_denied(records, s) /\ Kernel(sp.k)
            [] sp.ok /\ ~rs.ok -> records' = set_denied(records, s) /\ Kernel(rs.k)
            [] sp.ok /\ rs.ok /\ ~rg.ok -> records' = set_denied(records, s) /\ Kernel(rg.k)
            [] OTHER -> /\ records' = [records EXCEPT ![s] =
                              [@ EXCEPT !.state = "Running", !.pid = sp.pid,
                                        !.assigned = rg.assigned, !.endpoint = s \in Endpoints]]
                        /\ Kernel(ep.k)

\* One record of the loop of spawn_services.
visit ==
    LET s == Order[idx]
        ready == dependencies_ready(records, s)
    IN /\ pc = "startup" /\ idx <= Len(Order)
       /\ idx' = idx + 1
       /\ CASE records[s].state # "Created" -> UNCHANGED <<records, kernel, born, made_progress, pending>>
            [] records[s].state = "Created" /\ ready = "Ready" /\ s \in manifest.signed ->
                  Launch(s) /\ made_progress' = TRUE /\ UNCHANGED pending
            [] records[s].state = "Created" /\ ready = "Waiting" ->
                  pending' = pending + 1 /\ UNCHANGED <<records, kernel, born, made_progress>>
            [] OTHER -> /\ records' = set_denied(records, s) /\ made_progress' = TRUE
                        /\ UNCHANGED <<kernel, born, pending>>
       /\ UNCHANGED <<manifest, others, pc, exits>>

\* Mutant: a pass without progress is followed by another one.
EndPassWaits ==
    /\ pc = "startup" /\ idx > Len(Order)
    /\ idx' = 1 /\ made_progress' = FALSE /\ pending' = 0
    /\ pc' = IF pending = 0 THEN "up" ELSE "startup"
    /\ UNCHANGED <<manifest, others, records, kernel, exits, born>>

\* The end of a pass: done, stuck (what waits is denied), or another pass.
end_pass ==
    /\ pc = "startup" /\ idx > Len(Order)
    /\ idx' = 1 /\ made_progress' = FALSE /\ pending' = 0
    /\ pc' = IF pending = 0 \/ ~made_progress THEN "up" ELSE "startup"
    /\ records' = IF pending > 0 /\ ~made_progress
                  THEN [s \in Services |-> IF records[s].state = "Created"
                                           THEN set_denied(records, s)[s] ELSE records[s]]
                  ELSE records
    /\ UNCHANGED <<manifest, others, kernel, exits, born>>

-----------------------------------------------------------------------------
\* syscall_claim_device and syscall_release_device of a service, for its own endpoint.
syscall_claim_device(pid, d) ==
    LET r == claim_service_device(K, pid, procs[pid].service, d)
    IN /\ pc = "up" /\ pid \in Live(K) /\ r.ok
       /\ Kernel(r.k)
       /\ UNCHANGED <<manifest, others, records, loop, exits, born>>

syscall_release_device(pid, d) ==
    LET r == release_device(registry, procs[pid].service, pid, d)
    IN /\ pc = "up" /\ pid \in Live(K) /\ r.ok
       /\ registry' = r.registry
       /\ UNCHANGED <<manifest, others, records, procs, caps, next_pid, next_cap, loop, exits, born>>

\* The supervisor notes a claim to be restored; nothing compares it with the registry.
record_device_claim(s, d) ==
    /\ pc = "up"
    /\ <<s, d>> \in CanClaim /\ d \notin records[s].devices
    /\ Cardinality(records[s].devices) < MaxServiceClaims
    /\ records' = [records EXCEPT ![s].devices = @ \cup {d}]
    /\ UNCHANGED <<manifest, others, kernel, loop, exits, born>>

\* exit_process: the domain and its capabilities go, the slot and the registry stay.
exit_process(pid) ==
    /\ pc = "up" /\ pid \in Live(K)
    /\ procs' = [procs EXCEPT ![pid].state = "zombie"]
    /\ caps' = {c \in caps : c.owner # pid}
    /\ exits' = exits \cup {pid}
    /\ UNCHANGED <<manifest, others, records, registry, next_pid, next_cap, loop, born>>

\* wait4 of the parent frees the slot.
reap(pid) ==
    /\ pc = "up" /\ pid \in DOMAIN procs \ Live(K)
    /\ procs[pid].parent \in Live(K)
    /\ procs' = [p \in DOMAIN procs \ {pid} |-> procs[p]]
    /\ UNCHANGED <<manifest, others, records, caps, registry, next_pid, next_cap, loop, exits, born>>

\* restore_record_claims: the endpoint when there is a parent to authorize it, then the
\* devices; the first refusal ends it and keeps what was done.
restore_record_claims(k, s, pid, parent) ==
    LET ep == IF records[s].endpoint /\ parent # NoPid
              THEN register_endpoint(k, parent, s, pid) ELSE [ok |-> TRUE, k |-> k]
        claims[ds \in SUBSET records[s].devices] ==
            IF ds = {} THEN ep
            ELSE LET d == CHOOSE x \in ds : \A y \in ds : x <= y
                     rest == claims[ds \ {d}]
                 IN IF rest.ok THEN claim_service_device(rest.k, pid, s, d) ELSE rest
    IN IF ep.ok THEN claims[records[s].devices] ELSE ep

\* Release and revocation at the head of handle_process_exit.
Stripped(s, pid) ==
    LET released == {c \in registry.claims : c.owner = pid /\ c.service = s
                                                /\ c.device \in records[s].devices}
    IN [K EXCEPT !.registry = revoke_owner([@ EXCEPT !.claims = @ \ released], pid),
                 !.caps = {c \in @ : c.owner # pid}]

\* respawn_record after the record was marked Restarting.
Respawn(s, k) ==
    LET ready == dependencies_ready(records, s)
        parent == parent_for([records EXCEPT ![s].pid = NoPid], s)
        sp == mtss_spawn_task(k, s, parent)
        rs == reset_spawned_service_capabilities(sp.k, sp.pid)
        rg == regrant_record_capabilities(rs.k, s, sp.pid)
        cl == restore_record_claims(rg.k, s, sp.pid, parent)
        Fail(last) == records' = set_denied(records, s) /\ Kernel(last)
    IN CASE s \notin manifest.signed \/ ready # "Ready" \/ ~sp.ok -> Fail(k) /\ UNCHANGED born
         [] OTHER ->
               /\ Witness(s, sp)
               /\ IF ~rs.ok THEN Fail(rs.k)
                  ELSE IF ~rg.ok THEN Fail(rg.k)
                  ELSE IF ~cl.ok THEN Fail(cl.k)
                  ELSE /\ records' = [records EXCEPT ![s] =
                              [@ EXCEPT !.state = "Running", !.pid = sp.pid,
                                        !.assigned = rg.assigned, !.generation = @ + 1]]
                       /\ Kernel(cl.k)

\* handle_process_exit of a report that belongs to a record, or to none.
handle_process_exit(pid) ==
    LET of == {s \in Services : records[s].pid = pid}
    IN /\ pid \in exits
       /\ exits' = exits \ {pid}
       /\ IF of = {} THEN UNCHANGED <<records, kernel, born>>
          ELSE LET s == CHOOSE x \in of : TRUE
               IN IF s \in manifest.never
                  THEN /\ records' = [records EXCEPT ![s].state = "Stopped", ![s].pid = NoPid]
                       /\ Kernel(Stripped(s, pid))
                       /\ UNCHANGED born
                  ELSE Respawn(s, Stripped(s, pid))
       /\ UNCHANGED <<manifest, others, loop>>

Next ==
    \/ visit
    \/ end_pass
    \/ \E pid \in DOMAIN procs, d \in Devices : syscall_claim_device(pid, d)
    \/ \E pid \in DOMAIN procs, d \in Devices : syscall_release_device(pid, d)
    \/ \E s \in Services, d \in Devices : record_device_claim(s, d)
    \/ \E pid \in DOMAIN procs : next_pid <= MaxPid /\ exit_process(pid)
    \/ \E pid \in DOMAIN procs : reap(pid)
    \/ \E pid \in exits : handle_process_exit(pid)

\* The startup loop runs on; when services exit is up to them.
Spec == Init /\ [][Next]_vars /\ WF_vars(visit) /\ WF_vars(end_pass)

-----------------------------------------------------------------------------
\* A service has at most one live process, also after launches and relaunches that failed
\* half way and left their process behind.
OneInstance ==
    \A p, q \in Live(K) : procs[p].service = procs[q].service => p = q

\* Running means equipped: every capability the record lists is a record of the kernel,
\* for that object, held by that very process.
RunningEquipped ==
    \A s \in Services :
        records[s].state = "Running" /\ records[s].pid \in Live(K) =>
            \A i \in DOMAIN Specs[s] :
                \E c \in caps : /\ c.id = records[s].assigned[i]
                                /\ c.owner = records[s].pid /\ c.object = Specs[s][i]

\* No process was ever spawned for a service with a bad signature or one whose
\* dependencies the supervisor did not hold for running.
LaunchedByPolicy == \A p \in DOMAIN born : born[p].signed /\ born[p].ready

\* A process that is gone holds no capability, and it appears in the registry only until
\* its exit report is handled, or when the supervisor had given its service up.
DeadHoldNothing ==
    /\ \A c \in caps : c.owner \in Live(K)
    /\ \A o \in registry.owners \cup registry.claims :
          \/ o.owner \in Live(K) \cup exits
          \/ records[o.service].state = "Denied"

\* A device is claimed only by the process that owns the endpoint of the service it is
\* claimed for, and by one process at a time.
ClaimsByOwners ==
    /\ \A c \in registry.claims : c.owner \in OwnerOf(registry, c.service)
    /\ \A c, d \in registry.claims : c.device = d.device => c = d

\* When startup is over every service runs or was denied.
StartupResolved == pc = "up" => \A s \in Services : records[s].state \notin {"Created", "Validating", "Launching"}

-----------------------------------------------------------------------------
(* The built-in manifest with the capability bundle of every service. Which  *)
(* signatures are good is open. An object is named by its kind and the       *)
(* device or window it is for.                                               *)

MAX_SERVICE_CAPABILITIES == 9

\* DEFAULT_STARTUP_MANIFEST.
DefaultOrder == <<"l2", "storaged", "usbd", "nvmed", "ahcid", "displayd", "amdgpu-displayd",
                  "networkd", "inputd">>
Names == {DefaultOrder[i] : i \in 1 .. 9}
Daemons == Names \ {"l2"}

\* What does not fit is left out.
assign_capability(caps_, object) ==
    IF Len(caps_) < MAX_SERVICE_CAPABILITIES THEN Append(caps_, object) ELSE caps_

assign_all(caps_, objects) ==
    LET after[i \in 0 .. Len(objects)] ==
            IF i = 0 THEN caps_ ELSE assign_capability(after[i - 1], objects[i])
    IN after[Len(objects)]

\* Bus, registers, and DMA window and interrupt when the policy names them.
assign_pci_mmio_dma_irq_register_bundle(caps_, policy) ==
    assign_all(caps_, << <<"pci", policy.pci>>, <<"mmio", policy.mmio>> >>
                      \o (IF policy.dma THEN << <<"dma", policy.mmio>> >> ELSE <<>>)
                      \o (IF policy.irq THEN << <<"irq", policy.mmio>> >> ELSE <<>>))

assign_block_bundle(caps_, policy) ==
    assign_all(assign_pci_mmio_dma_irq_register_bundle(caps_, policy), << <<"block registry">> >>)
assign_xhci_usb_capability_bundle(caps_, policy) ==
    assign_all(assign_pci_mmio_dma_irq_register_bundle(caps_, policy),
               << <<"hotplug", policy.pci>>, <<"block registry">> >>)
assign_amdgpu_capability_bundle(caps_, policy) ==
    assign_all(assign_pci_mmio_dma_irq_register_bundle(caps_, policy),
               << <<"vram">>, <<"framebuffer">>, <<"display registry">> >>)

Policy(pci, mmio) == [pci |-> pci, mmio |-> mmio, dma |-> TRUE, irq |-> TRUE]

default_capability_specs(s) ==
    LET ep == assign_capability(<<>>, <<"endpoint", s>>)
    IN CASE s = "l2" -> << <<"service control">>, <<"module load">>, <<"any process">>, <<"any memory">> >>
         [] s = "storaged" -> ep
         [] s = "usbd" -> assign_xhci_usb_capability_bundle(ep, Policy(2, "xhci"))
         [] s = "nvmed" -> assign_block_bundle(ep, Policy(7, "nvme"))
         [] s = "ahcid" -> assign_block_bundle(ep, Policy(7, "ahci"))
         [] s = "displayd" -> assign_capability(ep, <<"text buffer">>)
         [] s = "amdgpu-displayd" -> assign_amdgpu_capability_bundle(ep, Policy(3, "gpu"))
         [] s = "networkd" -> assign_pci_mmio_dma_irq_register_bundle(ep, Policy(6, "nic"))
         [] s = "inputd" -> assign_pci_mmio_dma_irq_register_bundle(ep, Policy(2, "input"))

DefaultSpecs == [s \in Names |-> default_capability_specs(s)]
DefaultDeps == [s \in Names |-> IF s = "l2" THEN {} ELSE {"l2"}]

\* service_manifest_signature_valid: the second-level supervisor is not a daemon and needs
\* no signature; which of the daemons have a good one varies.
BadSignatures == {[deps |-> DefaultDeps, signed |-> Names \ bad, never |-> {}] :
                      bad \in SUBSET {"storaged", "nvmed", "displayd", "inputd"}}
=============================================================================

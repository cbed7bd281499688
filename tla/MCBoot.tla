------------------------------- MODULE MCBoot -------------------------------
(***************************************************************************)
(* How the system comes up, on small instances, one part per behaviour:    *)
(* the KSO runner on small graphs and on the graph the kernel ships, the   *)
(* boot sequence of main.rs, the driver dispatcher, the supervisor on a    *)
(* small manifest with crashes and on the built-in one, and the units      *)
(* Spider-rs starts as PID 1.                                              *)
(***************************************************************************)
EXTENDS Integers, Sequences, FiniteSets, TLC

CONSTANT NoProgram

VARIABLES part,
          nodes, runtime, caps, at, progress, outcome, faults, dropped,
          pc, full_boot, policy, statuses, phases, deps, ramfs, next_pid, live, scheduled,
          core, attempted, obstacle,
          registry, table, features, next, report, met,
          manifest, others, records, sprocs, scaps, sregistry, snext_pid, next_cap, spc, idx,
          made_progress, pending, exits, born,
          mode, tree, pid1, rsd, crashes, own, tries

ksoVars == <<nodes, runtime, caps, at, progress, outcome, faults, dropped>>
flowVars == <<pc, full_boot, policy, statuses, phases, deps, ramfs, next_pid, live, scheduled,
              core, attempted, obstacle>>
dispatchVars == <<registry, table, features, next, report, met>>
supVars == <<manifest, others, records, sprocs, scaps, sregistry, snext_pid, next_cap, spc, idx,
             made_progress, pending, exits, born>>
unitVars == <<mode, tree, pid1, rsd, crashes, own, tries>>
vars == <<part, ksoVars, flowVars, dispatchVars, supVars, unitVars>>

-----------------------------------------------------------------------------
\* Three nodes whose edges, wants, capabilities and policy vary independently;
\* node 4 is not in the graph.
Node(after, wants, requires, provides, required, lenient, failure) ==
    [after |-> after, wants |-> wants, requires |-> requires, provides |-> provides,
     required |-> required, allow_missing_wants |-> lenient, failure |-> failure]
Firsts == {Node(a, <<>>, r, <<"a", "d">>, pol[1], FALSE, pol[2]) :
              a \in {<<>>, <<3>>}, r \in {<<>>, <<"b">>},
              pol \in {<<TRUE, "Fatal">>, <<FALSE, "Fatal">>, <<TRUE, "AllowDegraded">>}}
Seconds == {Node(<<>>, w, r, <<"b">>, FALSE, FALSE, "Skip") :
              w \in {<<1>>, <<4, 1>>}, r \in {<<>>, <<"x">>}}
Thirds == {Node(a, <<1>>, <<"a">>, <<"a", "c">>, FALSE, TRUE, "Disable") :
              a \in {<<>>, <<2>>, <<4, 2>>}}
SmallGraphs == {<<n1, n2, n3>> : n1 \in Firsts, n2 \in Seconds, n3 \in Thirds}

Nodes == INSTANCE Kso WITH
    Graphs <- SmallGraphs \cup {<<>>}, Granted <- {"x"}, CapSlots <- 3, MaxFaults <- 2,
    StartResults <- {"Started", "StartedDegraded", "Skipped", "Disabled", "Failed"}

Shipped == INSTANCE Kso WITH
    Graphs <- {Nodes!KSO_NODES}, Granted <- {}, CapSlots <- 48, MaxFaults <- 2,
    StartResults <- {"Started", "Skipped", "Failed"}

\* The phases of the boot sequence with their descriptors, and every policy the
\* PID 1 handoff node can be given.
FlowPhases == {"Framebuffer", "BootRuntime", "RootFs", "Supervisor", "Mtss", "UserspaceLoader",
               "SpiderRs", "Pid1", "SystemDispatcher", "M1Terminal", "Userspace", "BootScreen",
               "IdleLoop"}
DriverPhases == {"AmdSoc", "Nvme", "RootFs"}
Table == INSTANCE BootPhaseTable WITH Phases <- {}, Required <- {}, Weight <- <<>>
Descriptors == Table!DEFAULT_SUBSYSTEM_DESCRIPTORS
RequiredPhases == {p \in DOMAIN Descriptors : Descriptors[p].required}
FlowRequired == RequiredPhases \cap FlowPhases
FlowWeight == [p \in FlowPhases |-> Descriptors[p].weight]
DriverRequired == RequiredPhases \cap DriverPhases
DriverWeight == [p \in DriverPhases |-> Descriptors[p].weight]
Flow == INSTANCE BootFlow WITH
    Phases <- FlowPhases, Required <- FlowRequired, Weight <- FlowWeight,
    MaxServices <- 2, PidPolicies <- [allow_cooperative : BOOLEAN, require_preemption : BOOLEAN]

\* A chipset, a controller behind it, a required file system on the controller, and
\* a second driver that claims the controller's phase.
Services == {"soc", "nvme", "ahci", "rootfs"}
Descriptor ==
    [soc    |-> [name |-> "soc", phase |-> "AmdSoc", gate |-> "hw-amd-chipset", dependencies |-> {}],
     nvme   |-> [name |-> "nvme", phase |-> "Nvme", gate |-> "none", dependencies |-> {"AmdSoc"}],
     ahci   |-> [name |-> "ahci", phase |-> "Nvme", gate |-> "none", dependencies |-> {}],
     rootfs |-> [name |-> "rootfs", phase |-> "RootFs", gate |-> "none",
                 dependencies |-> {"AmdSoc", "Nvme"}]]
Drivers == INSTANCE Dispatch WITH
    Phases <- DriverPhases, Required <- DriverRequired, Weight <- DriverWeight,
    live <- met

-----------------------------------------------------------------------------
\* The second-level supervisor and the two storage drivers that depend on it and may
\* claim the same device. The manifest may have a bad signature, a cycle, a dependency
\* that is not in it, or a service that is not restarted.
Star == [l2 |-> {}, nvmed |-> {"l2"}, ahcid |-> {"l2"}]
Ring == [l2 |-> {}, nvmed |-> {"ahcid"}, ahcid |-> {"nvmed"}]
Missing == [l2 |-> {}, nvmed |-> {"l2"}, ahcid |-> {"usbd"}]
All == {"l2", "nvmed", "ahcid"}
Manifest(needs, signed, never) == [deps |-> needs, signed |-> signed, never |-> never]
SmallManifests ==
    {Manifest(Star, All, {}), Manifest(Star, All, {"ahcid"}), Manifest(Star, All \ {"nvmed"}, {}),
     Manifest(Star, All \ {"l2"}, {}), Manifest(Ring, All, {}), Manifest(Missing, All, {})}

Daemons == INSTANCE Supervisor WITH
    Endpoints <- {"nvmed", "ahcid"}, Devices <- {7}, MaxRegistrations <- 2, MaxClaims <- 1,
    CanClaim <- {<<"nvmed", 7>>, <<"ahcid", 7>>}, Order <- <<"nvmed", "l2", "ahcid">>,
    Manifests <- SmallManifests,
    Specs <- [l2 |-> << <<"service control">> >>, nvmed |-> << <<"pci", 7>>, <<"irq", "nvme">> >>,
              ahcid |-> << <<"pci", 7>> >>],
    Authority <- <<"service control">>, PciOf <- [d \in {7} |-> <<"pci", d>>],
    MaxProc <- 5, MaxCaps <- 8, MaxOthers <- 2, MaxPid <- 5, MaxServiceClaims <- 4,
    procs <- sprocs, caps <- scaps, registry <- sregistry, next_pid <- snext_pid, pc <- spc

\* The built-in manifest: sixteen sets of good signatures, a process table that is one
\* slot too short for all nine services.
TableSize == 8
Default == INSTANCE Supervisor WITH
    Endpoints <- Daemons!Daemons, Devices <- {}, MaxRegistrations <- 16, MaxClaims <- 8,
    CanClaim <- {}, Order <- Daemons!DefaultOrder, Manifests <- Daemons!BadSignatures,
    Specs <- Daemons!DefaultSpecs, Authority <- <<"service control">>,
    PciOf <- [d \in {} |-> <<>>], MaxProc <- TableSize, MaxCaps <- 256, MaxOthers <- 0,
    MaxPid <- 0, MaxServiceClaims <- 4,
    procs <- sprocs, caps <- scaps, registry <- sregistry, next_pid <- snext_pid, pc <- spc

-----------------------------------------------------------------------------
\* The units of a boot, and one more service and a mount. A user directory overrides them
\* with orders, requirements and restart policies of its own, among them a cycle, files
\* that do not parse and a requirement on a service that may fail.
UnitNames == <<"basic.target", "default.target", "extra.service", "m1-terminal.service", "swap.mount">>
UnitKind == [n \in {UnitNames[i] : i \in 1 .. 5} |->
                CASE n \in {"basic.target", "default.target"} -> "target"
                  [] n = "swap.mount" -> "mount"
                  [] OTHER -> "service"]
Section(s) == <<"section", s>>
TargetUnit(lines) == <<Section("Unit")>> \o lines \o <<Section("Target")>>
ServiceUnit(lines, restart, wanted) ==
    <<Section("Unit")>> \o lines \o <<Section("Service"), <<"ExecStart", "prog">>, <<"Restart", restart>>,
                                      Section("Install"), <<"WantedBy", wanted>> >>
BootUnits ==
    "basic.target" :> TargetUnit(<<>>)
    @@ "default.target" :> TargetUnit(<< <<"Wants", {"basic.target", "m1-terminal.service"}>>,
                                         <<"After", {"basic.target"}>> >>)
    @@ "m1-terminal.service" :> ServiceUnit(<< <<"After", {"basic.target"}>>, <<"Wants", {"basic.target"}>> >>,
                                            "no", {"default.target"})
Extra(lines, restart) == "extra.service" :> ServiceUnit(lines, restart, {"basic.target"})
Terminal(lines, restart) == "m1-terminal.service" :> ServiceUnit(lines, restart, {})
Strict == "default.target" :> TargetUnit(<< <<"Requires", {"m1-terminal.service"}>>, <<"Wants", {"swap.mount"}>> >>)
UserUnits ==
    {<<>>, Strict,
     Extra(<< <<"Before", {"default.target"}>> >>, "always"),
     Extra(<<>>, "on-failure") @@ Terminal(<< <<"Requires", {"extra.service"}>> >>, "always")
         @@ Strict @@ "swap.mount" :> TargetUnit(<<>>),
     Extra(<< <<"After", {"m1-terminal.service"}>> >>, "on-failure")
         @@ Terminal(<< <<"After", {"extra.service"}>> >>, "no"),
     Extra(<<>>, "sometimes") @@ "basic.target" :> <<Section("Unit"), <<"junk">> >>}
SystemUnits == {BootUnits, [BootUnits EXCEPT !["basic.target"] = << <<"After", {}>> >>],
                [BootUnits EXCEPT !["m1-terminal.service"] = ServiceUnit(<<>>, "on-failure", {})]}
Units == INSTANCE Spider WITH
    Names <- UnitNames, Kind <- UnitKind, Builtin <- BootUnits, MaxCrashes <- 1, None <- NoProgram,
    Trees <- {[etc |-> e, usr |-> u, run |-> <<>>] : e \in SystemUnits, u \in UserUnits}

-----------------------------------------------------------------------------
\* What is not under way rests in one initial state.
Init ==
    /\ part \in {"small", "shipped", "flow", "dispatch", "daemons", "default", "units"}
    /\ IF part = "shipped" THEN Shipped!Init
       ELSE Nodes!Init /\ (part # "small" => nodes = <<>>)
    /\ Flow!Init /\ (part # "flow" => ~full_boot /\ ~policy.allow_cooperative
                                                 /\ ~policy.require_preemption)
    /\ Drivers!Init /\ (part # "dispatch" => features = {})
    /\ IF part = "default" THEN Default!Init
       ELSE Daemons!Init /\ (part # "daemons" => manifest = Manifest(Star, All, {}) /\ others = 0)
    /\ Units!Init /\ (part # "units" => mode = "pid1" /\ tree.etc = BootUnits /\ tree.usr = <<>>)

KsoStep == UNCHANGED <<part, flowVars, dispatchVars, supVars, unitVars>>
FlowStep == UNCHANGED <<part, ksoVars, dispatchVars, supVars, unitVars>>
DispatchStep == UNCHANGED <<part, ksoVars, flowVars, supVars, unitVars>>
SupervisorStep == UNCHANGED <<part, ksoVars, flowVars, dispatchVars, unitVars>>
UnitStep == UNCHANGED <<part, ksoVars, flowVars, dispatchVars, supVars>>

Next ==
    \/ part = "small" /\ Nodes!Next /\ KsoStep
    \/ part = "shipped" /\ Shipped!Next /\ KsoStep
    \/ part = "flow" /\ Flow!Next /\ FlowStep
    \/ part = "dispatch" /\ Drivers!Next /\ DispatchStep
    \/ part = "daemons" /\ Daemons!Next /\ SupervisorStep
    \/ part = "default" /\ Default!Next /\ SupervisorStep
    \/ part = "units" /\ Units!Next /\ UnitStep

\* Boot is one thread that runs straight through: passes are repeated while they
\* change something, every step of main.rs returns, a dispatch pass goes on, and so do the
\* startup loop of the supervisor and the dispatcher of Spider-rs. When services exit is
\* up to them.
Spec == /\ Init /\ [][Next]_vars
        /\ WF_vars(part = "small" /\ Nodes!run_once /\ KsoStep)
        /\ WF_vars(part = "flow" /\ Flow!Next /\ FlowStep)
        /\ WF_vars(part = "dispatch" /\ Drivers!dispatch_one /\ DispatchStep)
        /\ WF_vars(part = "daemons" /\ (Daemons!visit \/ Daemons!end_pass) /\ SupervisorStep)
        /\ WF_vars(part = "units" /\ Units!dispatcher /\ UnitStep)

-----------------------------------------------------------------------------
\* Whatever the passes of run_once, the grants and the failures: a node was started
\* only behind what it comes after and with the capabilities it requires, the
\* capability table holds what nodes that started provide and misses none of it,
\* and when the runner reports Blocked nothing that could run is left. In the graph of
\* generated.rs no failure of an optional driver keeps a required node down, and when
\* every start succeeds the graph comes up as a whole: it has no cycle, no capability
\* nobody provides, and fits the capability table.
StartupOrdered ==
    /\ part = "small" => /\ Nodes!StartedInOrder /\ Nodes!CapsTruthful
                         /\ Nodes!CapsPublished /\ Nodes!BlockedForReason
    /\ part = "shipped" => Shipped!RequiredComeUp /\ Shipped!WholeGraphStarts

\* The two copies of the PID 1 policy (boot.rs and the launch gate) agree, Spider-rs is
\* launched only when what the gate's flags claim is so, and every phase shows what KSO
\* recorded for its node until the idle loop closes the table with nothing left open; with
\* a display, the screen never hides a failure and ends up showing that table.
HandoffGated ==
    part = "flow" => /\ Flow!PoliciesAgree /\ Flow!LaunchGated
                     /\ Flow!PhasesFollowKso /\ Flow!NothingLeftOpen /\ Flow!ScreenShowsFailures

\* What dispatch_all reports is what the phases show, services start only on top of
\* dependencies that came up, a required service whose dependency is missing fails, and
\* the progress bar is full only when every required phase completed.
DispatchHonest ==
    part = "dispatch" => /\ Drivers!ReportMatchesPhases /\ Drivers!StartsOnLiveDependencies
                         /\ Drivers!MissingDependencyShows /\ Drivers!ProgressHonest

\* Across launches and relaunches that fail half way, a service has at most one live
\* process, was launched only signed and behind its dependencies, holds all it was
\* assigned while its record says Running, and owns the devices it claims; a process that
\* is gone holds no capability, and stays in the registry only until its exit report is
\* handled, or when the supervisor had given its service up.
ServicesSupervised ==
    part = "daemons" => /\ Daemons!OneInstance /\ Daemons!RunningEquipped /\ Daemons!LaunchedByPolicy
                      /\ Daemons!ClaimsByOwners /\ Daemons!StartupResolved /\ Daemons!DeadHoldNothing

\* Every signed service of the built-in manifest runs at the end of startup, as far as
\* the process table goes in manifest order, and no other; a running driver holds the
\* registry object of its kind next to the registers it drives, and owns its endpoint.
ManifestComesUp ==
    part = "default" /\ spc = "up" =>
        /\ \A i \in 1 .. 9 :
              LET s == Daemons!DefaultOrder[i]
                  before == {j \in 1 .. i : Daemons!DefaultOrder[j] \in manifest.signed}
              IN records[s].state =
                     IF s \in manifest.signed /\ Cardinality(before) <= TableSize
                     THEN "Running" ELSE "Denied"
        /\ \A s \in Daemons!Daemons : records[s].state = "Running" =>
              LET held == {c.object : c \in {x \in scaps : x.owner = records[s].pid}}
              IN /\ Default!OwnerOf(sregistry, s) = {records[s].pid}
                 /\ s \in {"nvmed", "ahcid", "usbd"} => <<"block registry">> \in held
                 /\ s = "amdgpu-displayd" => <<"display registry">> \in held
                 /\ s \in {"networkd", "inputd", "usbd", "nvmed", "ahcid"} =>
                       {"pci", "mmio", "dma", "irq"} \subseteq {o[1] : o \in held}

\* Spider-rs starts the units default.target pulls in, each once and behind what it comes
\* after, unless one is missing or some wait for each other; in the end exactly those have
\* failed that depend, through what they require, on a service whose last attempt failed,
\* and a service got a second attempt exactly when its restart policy asks for one.
UnitsOrdered ==
    part = "units" => Units!OrderSound /\ Units!FailuresPropagate /\ Units!RestartsFollowPolicy

Underway ==
    \/ part = "small" /\ ~Nodes!Finished
    \/ part = "flow" /\ pc # "running"
    \/ part = "dispatch" /\ next # 0
    \/ part = "daemons" /\ spc # "up"
    \/ part = "units" /\ rsd.pc \in {"load", "resolve", "unit", "spawn"}

\* Start-up comes to an end whatever fails on the way: the runner stops reporting
\* progress, the boot sequence reaches the idle loop, a dispatch pass is finished, the
\* supervisor's startup ends whatever the dependencies in the manifest, and the dispatcher
\* of Spider-rs gets through its units or waits for one that runs.
BootEnds == Underway ~> ~Underway

\* docs/boot/spider-rs-pid1-handoff.md of the implemented path: with a valid runtime, a
\* running supervisor, an open gate and enough memory, PID 1 becomes runnable.
SpiderBecomesPid1 == part = "flow" => Flow!SpiderBecomesPid1
=============================================================================

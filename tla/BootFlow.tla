------------------------------ MODULE BootFlow ------------------------------
(***************************************************************************)
(* The boot sequence of src/main.rs after the kernel object exists, with   *)
(* the steps src/kernel/kso/state.rs takes in it: the boot runtime is      *)
(* validated, the root file system mounted, the supervisor started, MTSS   *)
(* initialized, and Spider-rs handed to MTSS as PID 1 when the gate opens; *)
(* then the idle loop. Every step reports to the KSO status table and,     *)
(* through kso_transition, to the boot phase manager.                      *)
(*                                                                         *)
(* Of the kernel it has what the handoff touches: the next process id, the *)
(* live processes, the processes the MTSS scheduler knows and the tasks of *)
(* the MTSS core (src/kernel/mod.rs). What firmware, images and memory do  *)
(* is chosen step by step. MTSS may report any readiness: today's kernel   *)
(* reports all but timer and preemption. task_creation_api_ready and       *)
(* mark_runnable_api_ready are both set from api.                          *)
(***************************************************************************)
EXTENDS BootPhaseTable, Sequences

CONSTANTS MaxServices,   \* services of the full manifest
          PidPolicies    \* policies of the PID 1 handoff node

VARIABLES pc, full_boot, policy, statuses, phases, deps, ramfs,
          next_pid, live, scheduled, core,
          attempted,   \* history: the readiness with which Spider-rs was launched
          obstacle     \* history: something outside the kernel's code kept PID 1 back

kernel == <<next_pid, live, scheduled, core>>
vars == <<pc, full_boot, policy, statuses, phases, deps, ramfs, kernel, attempted, obstacle>>

Nodes == {"BootRuntime", "RootFs", "Supervisor", "Mtss", "UserspaceLoader", "SpiderRs",
          "Pid1", "SystemDispatcher", "M1Terminal", "Userspace", "IdleLoop"}
Flags == {"core", "scheduler", "timer", "preemption", "idle", "api"}
NoMtss == [ready |-> {}, failed |-> FALSE]

\* The phase states a KSO state is shown as; Online has three wordings.
Mirror(state) ==
    CASE state \in {"New", "WaitingDeps"} -> {"Pending"}
      [] state = "Starting" -> {"Started"}
      [] state = "Online" -> {"Running", "Online", "Ok"}
      [] OTHER -> {state}

\* kso_transition: the status table, then the boot phase of the node.
kso_transition(r, node, state) ==
    [r EXCEPT !.statuses[node] = state,
              !.phases = boot_phase(@, node, CHOOSE s \in Mirror(state) : TRUE)]

Reports == [statuses |-> statuses, phases |-> phases]
\* A sequence of transitions, <<node, state>>.
ReportAll(seq) ==
    LET after[i \in 0 .. Len(seq)] ==
            IF i = 0 THEN Reports ELSE kso_transition(after[i - 1], seq[i][1], seq[i][2])
    IN statuses' = after[Len(seq)].statuses /\ phases' = after[Len(seq)].phases

-----------------------------------------------------------------------------
\* MtssReadiness::pid1_handoff_blocker.
pid1_handoff_blocker(m) ==
    CASE m.failed -> "MTSS failed"
      [] "core" \notin m.ready -> "MTSS core not ready"
      [] "scheduler" \notin m.ready -> "MTSS scheduler not ready"
      [] "idle" \notin m.ready -> "idle task unavailable"
      [] "api" \notin m.ready -> "task creation API unavailable"
      [] policy.require_preemption /\ "preemption" \notin m.ready ->
            "policy requires preemption before userspace"
      [] "preemption" \notin m.ready /\ ~policy.allow_cooperative ->
            "policy disallows cooperative MTSS before userspace"
      [] OTHER -> "none"

\* Mutant: the readiness of the idle task is not asked for.
DecideWithoutIdle(d) ==
    LET m == [d.mtss EXCEPT !.ready = @ \cup {"idle"}]
    IN CASE ~d.root_fs_online -> "root FS not online"
         [] ~d.supervisor_online -> "supervisor not online"
         [] ~d.spider_rt_available -> "spider runtime unavailable"
         [] OTHER -> pid1_handoff_blocker(m)

\* decide_pid1_handoff of src/boot.rs, which asks the same things in its own order.
decide_pid1_handoff(d) ==
    LET m == d.mtss
    IN CASE m.failed -> "MTSS failed"
         [] ~d.root_fs_online -> "root FS not online"
         [] ~d.supervisor_online -> "supervisor not online"
         [] ~d.spider_rt_available -> "spider runtime unavailable"
         [] "core" \notin m.ready -> "MTSS core not ready"
         [] "scheduler" \notin m.ready -> "MTSS scheduler not ready"
         [] "idle" \notin m.ready -> "idle task unavailable"
         [] "api" \notin m.ready -> "task creation API unavailable"
         [] policy.require_preemption /\ "preemption" \notin m.ready ->
               "policy requires preemption before userspace"
         [] "preemption" \in m.ready \/ policy.allow_cooperative -> "none"
         [] OTHER -> "policy disallows cooperative MTSS before userspace"

\* The gates of maybe_launch_pid1.
launch_blocker(d) ==
    CASE ~d.root_fs_online -> "root FS not online"
      [] ~d.supervisor_online -> "supervisor not online"
      [] pid1_handoff_blocker(d.mtss) # "none" -> pid1_handoff_blocker(d.mtss)
      [] ~d.spider_rt_available -> "spider runtime unavailable"
      [] OTHER -> "none"

-----------------------------------------------------------------------------
Init ==
    /\ pc = "boot_runtime"
    /\ full_boot \in BOOLEAN
    /\ policy \in PidPolicies
    /\ statuses = [n \in Nodes |-> "New"]
    /\ phases = boot_phase(RegisterAll(NewTable, Phases), "Framebuffer", "Online")
    /\ deps = [root_fs_online |-> FALSE, supervisor_online |-> FALSE, mtss |-> NoMtss,
               spider_rt_available |-> FALSE, launch_deferred |-> FALSE,
               spider_elf_ok |-> FALSE, pid1_created |-> FALSE, pid1_runnable |-> FALSE]
    /\ ramfs = FALSE
    /\ next_pid = 1 /\ live = {} /\ scheduled = {} /\ core = {}
    /\ attempted = {}
    /\ obstacle = FALSE

\* kernel_main, the boot runtime: found and valid, found and rejected, or absent.
boot_runtime_validation(found, valid) ==
    LET failed == << <<"BootRuntime", "Failed">>, <<"SpiderRs", "Failed">>,
                     <<"RootFs", "Skipped">>, <<"UserspaceLoader", "Skipped">> >>
    IN /\ pc = "boot_runtime"
       /\ pc' = "rootfs"
       /\ ReportAll(<< <<"BootRuntime", "Starting">> >> \o
             (IF found /\ valid
              THEN << <<"BootRuntime", "Online">>, <<"SpiderRs", "Found">>,
                      <<"SystemDispatcher", "Found">> >>
              ELSE IF found THEN << <<"BootRuntime", "Failed">> >> \o failed ELSE failed))
       /\ ramfs' = (found /\ valid)
       /\ deps' = [deps EXCEPT !.spider_rt_available = found /\ valid]
       /\ obstacle' = ~(found /\ valid)
       /\ UNCHANGED <<full_boot, policy, kernel, attempted>>

\* mount_root_from_boot_sources falls back to the built-in device and never fails.
rootfs_mount ==
    /\ pc = "rootfs"
    /\ pc' = "supervisor"
    /\ ReportAll(IF ramfs THEN << <<"RootFs", "Starting">>, <<"RootFs", "Online">> >>
                 ELSE << <<"RootFs", "Skipped">> >>)
    /\ deps' = [deps EXCEPT !.root_fs_online = ramfs]
    /\ UNCHANGED <<full_boot, policy, ramfs, kernel, attempted, obstacle>>

\* n processes, each with the next id, in the process table and with MTSS.
Spawn(n) ==
    /\ live' = live \cup (next_pid .. next_pid + n - 1)
    /\ scheduled' = scheduled \cup (next_pid .. next_pid + n - 1)
    /\ next_pid' = next_pid + n

\* The full manifest, of which some services may not come up, or the supervisor's own
\* process alone; and what kernel_main reports next.
supervisor_start(n) ==
    LET all_running == n = IF full_boot THEN MaxServices ELSE 1
    IN /\ pc = "supervisor"
       /\ pc' = IF full_boot THEN "mtss" ELSE "smoke"
       /\ n <= IF full_boot THEN MaxServices ELSE 1
       /\ ReportAll(<< <<"Supervisor", "Starting">>,
                       <<"Supervisor", IF all_running THEN "Online" ELSE "Failed">>,
                       <<"Userspace", "WaitingDeps">>, <<"SpiderRs", "WaitingDeps">> >>)
       /\ deps' = [deps EXCEPT !.supervisor_online = all_running]
       /\ Spawn(n)
       /\ obstacle' = (obstacle \/ ~all_running)
       /\ UNCHANGED <<full_boot, policy, ramfs, core, attempted>>

\* The smoke path of a build that is not full-boot: the echo service and its caller.
smoke_path(n) ==
    /\ pc = "smoke"
    /\ pc' = "mtss"
    /\ n <= 2
    /\ Spawn(n)
    /\ UNCHANGED <<full_boot, policy, statuses, phases, deps, ramfs, core, attempted, obstacle>>

\* kernel_mtss_init starts from an empty core and an empty scheduler, then
\* kernel_main copies the report.
mtss_init(report) ==
    LET ready == report.ready
        state == IF report.failed THEN "Failed"
                 ELSE IF ready = Flags THEN "Online"
                 ELSE IF "timer" \notin ready \/ "preemption" \notin ready THEN "Degraded"
                 ELSE "WaitingDeps"
    IN /\ pc = "mtss"
       /\ pc' = "handoff"
       /\ ReportAll(<< <<"Mtss", "Starting">>, <<"Mtss", state>> >>)
       /\ deps' = [deps EXCEPT !.mtss = report]
       /\ scheduled' = {}
       /\ core' = IF report.failed THEN {} ELSE {[id |-> 0, state |-> "Runnable"]}
       /\ UNCHANGED <<full_boot, policy, ramfs, next_pid, live, attempted, obstacle>>

\* admit_pid1_through_mtss. The MTSS core inserts its task before it asks for the
\* preflight, the process comes after it, and the two numbers have to agree.
Admission(outcome) ==
    CASE outcome = "loader" -> [ok |-> FALSE, core |-> core, spawned |-> 0]
      [] outcome = "preflight" ->
            [ok |-> FALSE, core |-> core \cup {[id |-> 1, state |-> "Created"]}, spawned |-> 0]
      [] outcome = "table" ->
            [ok |-> FALSE, core |-> core \cup {[id |-> 1, state |-> "Runnable"]}, spawned |-> 0]
      [] outcome = "admitted" ->
            [ok |-> next_pid = 1, core |-> core \cup {[id |-> 1, state |-> "Runnable"]},
             spawned |-> 1]

Deferred == << <<"UserspaceLoader", "Skipped">>, <<"Userspace", "WaitingDeps">>,
               <<"SystemDispatcher", "WaitingDeps">> >>
Loading == << <<"UserspaceLoader", "Starting">>, <<"UserspaceLoader", "Online">>,
              <<"SpiderRs", "Starting">>, <<"SpiderRs", "Found">> >>
Runnable == << <<"SpiderRs", "Online">>, <<"Pid1", "Degraded">>,
               <<"SystemDispatcher", "Starting">>, <<"SystemDispatcher", "WaitingDeps">>,
               <<"M1Terminal", "WaitingDeps">>, <<"Userspace", "WaitingDeps">> >>

\* maybe_launch_pid1: image read from the runtime, checked, admitted.
maybe_launch_pid1(elf_ok, outcome) ==
    LET a == IF elf_ok THEN Admission(outcome) ELSE Admission("loader")
    IN IF launch_blocker(deps) # "none"
       THEN /\ ReportAll(Deferred)
            /\ deps' = [deps EXCEPT !.launch_deferred = TRUE]
            /\ UNCHANGED <<kernel, attempted, obstacle>>
       ELSE /\ attempted' = {deps}
            /\ ReportAll(Loading \o (IF a.ok THEN Runnable ELSE Deferred))
            /\ deps' = [deps EXCEPT !.launch_deferred = ~a.ok, !.spider_elf_ok = elf_ok,
                                    !.pid1_created = a.ok, !.pid1_runnable = a.ok]
            /\ core' = a.core
            /\ Spawn(a.spawned)
            /\ obstacle' = (obstacle \/ ~elf_ok \/ outcome # "admitted")

\* maybe_retry_pid1_handoff_after_mtss_change, and the Fatal arm of kernel_main.
handoff(elf_ok, outcome) ==
    LET reason == decide_pid1_handoff(deps)
    IN /\ pc = "handoff"
       /\ pc' = "idle"
       /\ IF reason = "none" THEN maybe_launch_pid1(elf_ok, outcome)
          ELSE /\ ReportAll(CASE reason = "MTSS failed" -> << <<"SystemDispatcher", "Failed">> >>
                              [] reason = "root FS not online" ->
                                    << <<"UserspaceLoader", "Skipped">>, <<"SpiderRs", "Skipped">>,
                                       <<"Pid1", "Skipped">>, <<"SystemDispatcher", "WaitingDeps">>,
                                       <<"Userspace", "Skipped">> >>
                              [] OTHER -> Deferred)
               /\ deps' = [deps EXCEPT !.launch_deferred = reason # "MTSS failed"]
               /\ obstacle' = TRUE
               /\ UNCHANGED <<kernel, attempted>>
       /\ UNCHANGED <<full_boot, policy, ramfs>>

\* The boot screen, the idle loop, and the closing of what was never reached.
enter_idle_loop ==
    /\ pc = "idle"
    /\ pc' = "running"
    /\ statuses' = [statuses EXCEPT !["IdleLoop"] = "Online"]
    /\ phases' = boot_phase_validate_no_unresolved(
                      boot_phase(boot_phase(phases, "BootScreen", "Ok"), "IdleLoop", "Running"))
    /\ UNCHANGED <<full_boot, policy, deps, ramfs, kernel, attempted, obstacle>>

MtssReports == [ready : SUBSET Flags, failed : {FALSE}] \cup {[ready |-> {}, failed |-> TRUE]}
Outcomes == {"loader", "preflight", "table", "admitted"}

Next ==
    \/ \E found, valid \in BOOLEAN : boot_runtime_validation(found, valid)
    \/ rootfs_mount
    \/ \E n \in 0 .. MaxServices : supervisor_start(n)
    \/ \E n \in 0 .. 2 : smoke_path(n)
    \/ \E report \in MtssReports : mtss_init(report)
    \/ \E elf_ok \in BOOLEAN, outcome \in Outcomes : handoff(elf_ok, outcome)
    \/ enter_idle_loop

\* One thread runs straight through; every step returns.
Spec == Init /\ [][Next]_vars /\ WF_vars(Next)

-----------------------------------------------------------------------------
\* The two copies of the handoff policy, the one that announces the decision and the one
\* that guards the launch, never disagree on whether Spider-rs may go.
PoliciesAgree == (decide_pid1_handoff(deps) = "none") = (launch_blocker(deps) = "none")

\* The flags the gate reads are true of the machine: Spider-rs is launched only when every
\* service runs, the root is mounted on a valid runtime, and the MTSS core has its idle
\* task and is ready for as much as the policy asks.
LaunchGated ==
    \A d \in attempted :
        /\ ramfs /\ statuses["RootFs"] = "Online" /\ statuses["Supervisor"] = "Online"
        /\ \E t \in core : t.id = 0
        /\ {"core", "scheduler", "idle", "api"} \subseteq d.mtss.ready
        /\ "preemption" \in d.mtss.ready
              \/ (policy.allow_cooperative /\ ~policy.require_preemption)

\* Until the idle loop closes the table, a phase shows what KSO last recorded for its node.
PhasesFollowKso ==
    pc # "running" => \A n \in Nodes : phases.state[n] \in Mirror(statuses[n])

\* When the idle loop runs no phase is left open, and a required phase that was never
\* reached counts as failed.
NothingLeftOpen ==
    pc = "running" =>
        \A p \in Phases : /\ phases.state[p] \notin Unresolved \cup {"Started"}
                          /\ p \in Required => phases.state[p] # "Skipped" \/ p = "RootFs"

\* With a display, no failure is hidden: from the moment a phase has failed the bar on the
\* screen is red, although most transitions do not repaint it; and the screen the idle loop
\* leaves behind is that of the closed table, with a full bar only when nothing failed.
ScreenShowsFailures ==
    framebuffer_ready(phases) =>
        /\ has_failed(phases) => has_failed(phases.screen)
        /\ pc = "running" => /\ Lines(phases.screen) = Lines(phases)
                             /\ progress_percent(phases.screen) = 100 => ~has_failed(phases)

\* What docs/boot/spider-rs-pid1-handoff.md says of the implemented path: with a valid
\* runtime, a running supervisor, an open gate and enough memory, PID 1 becomes runnable.
SpiderBecomesPid1 == pc = "running" /\ ~obstacle => deps.pid1_runnable
=============================================================================

--------------------------- MODULE BootPhaseTable ---------------------------
(***************************************************************************)
(* The boot phase manager of src/kernel/boot_phase.rs as operations on its *)
(* table: which phases the build registered, the state each last reported, *)
(* the phase on show, the progress computed from them, and the boot screen *)
(* of boot_screen.rs, which is repainted at some of the transitions only.  *)
(* Messages, labels and layout are left out.                               *)
(***************************************************************************)
EXTENDS Integers, FiniteSets, TLC

CONSTANTS Phases, Required, Weight   \* of the descriptors below, those that are used

descriptor(required, weight) == [required |-> required, weight |-> weight]
WithWeight(names, required, weight) == [p \in names |-> descriptor(required, weight)]

\* DEFAULT_SUBSYSTEM_DESCRIPTORS, in three parts: the machine, its devices, the system.
MachinePhases ==
    WithWeight({"SeedRs", "BootInfo", "Architecture", "PhysicalAllocator", "KernelMapper",
                "Paging", "Heap", "Memory"}, TRUE, 5)
    @@ WithWeight({"MemoryMap", "Interrupts"}, TRUE, 4)
    @@ WithWeight({"KernelMain", "Serial", "Gdt", "Idt", "Pic"}, TRUE, 3)
    @@ WithWeight({"Framebuffer", "Amd64Cpu", "RyzenCpu", "AmdSoc", "AmdIommu"}, FALSE, 3)
    @@ WithWeight({"RyzenTopology"}, FALSE, 2)
DevicePhases ==
    WithWeight({"Xhci"}, FALSE, 4)
    @@ WithWeight({"AcpiTables", "AmdGpuRenoir", "AmdXhci", "BlockLayer", "Nvme",
                   "NvmeNamespace", "Ahci", "SataDisk", "PartitionLayer", "Qfs", "Ext4",
                   "Ps2Keyboard", "UsbCore"}, FALSE, 3)
    @@ WithWeight({"Thermal", "Battery", "M2Storage", "Atapi", "OpticalDisk", "Mbr", "Gpt",
                   "I8042"}, FALSE, 2)
SystemPhases ==
    WithWeight({"RootFs", "Supervisor", "Mtss"}, TRUE, 5)
    @@ WithWeight({"BootRuntime"}, TRUE, 4)
    @@ WithWeight({"KernelConstructed", "BootInfoApplied", "SupervisorCreated", "IdleLoop"}, TRUE, 3)
    @@ WithWeight({"UsbHid", "UsbKeyboard", "Input", "UserspaceLoader", "Pid1",
                   "SystemDispatcher", "Userspace"}, FALSE, 3)
    @@ WithWeight({"AcpiEc", "EcHotkeys", "SpiderRs", "M1Terminal"}, FALSE, 2)
    @@ WithWeight({"BootScreen"}, FALSE, 1)
DEFAULT_SUBSYSTEM_DESCRIPTORS == MachinePhases @@ DevicePhases @@ SystemPhases

Complete == {"Ok", "Ready", "Online", "Enabled", "Running"}
Partial == {"Skipped", "Detected", "Found", "Stub", "Disabled"}
Unresolved == {"Registered", "Pending"}

NoPhase == [state |-> [p \in Phases |-> "Unregistered"], current |-> "SeedRs"]
NewTable == [state |-> NoPhase.state, current |-> NoPhase.current, screen |-> NoPhase]
Registered(t) == {p \in Phases : t.state[p] # "Unregistered"}

\* A second registration changes nothing.
register(t, p) == IF t.state[p] = "Unregistered" THEN [t EXCEPT !.state[p] = "Registered"] ELSE t

mark_registered_pending(t) ==
    [t EXCEPT !.state = [p \in Phases |-> IF @[p] = "Registered" THEN "Pending" ELSE @[p]]]

\* boot_register_compiled_subsystems.
RegisterAll(t, compiled) ==
    mark_registered_pending([t EXCEPT !.state = [p \in Phases |->
        IF p \in compiled THEN register(t, p).state[p] ELSE t.state[p]]])

\* A phase that was never registered is ignored; KernelConstructed is never on show.
transition(t, p, s) ==
    IF t.state[p] = "Unregistered" THEN t
    ELSE [t EXCEPT !.state[p] = s, !.current = IF p = "KernelConstructed" THEN @ ELSE p]

weighted_progress(p, s) ==
    CASE s \in Complete -> Weight[p]
      [] s \in Partial -> IF p \in Required THEN Weight[p] \div 2 ELSE Weight[p]
      [] s = "Degraded" -> (Weight[p] * 3) \div 4
      [] s = "Started" -> (Weight[p] + 1) \div 2
      [] OTHER -> 0

\* Each sum as a number of pairs, a phase with every number up to its share.
Pairs(p, share) == {p} \X (1 .. share)
progress_percent(t) ==
    LET total == Cardinality(UNION {Pairs(p, Weight[p]) : p \in Registered(t)})
        completed == Cardinality(UNION {Pairs(p, weighted_progress(p, t.state[p])) : p \in Registered(t)})
    IN IF total = 0 THEN 0 ELSE (completed * 100) \div total

has_failed(t) == \E p \in Phases : t.state[p] = "Failed"

\* What never started is closed: failed when it was required, skipped otherwise.
validate_no_unresolved(t) ==
    [t EXCEPT !.state = [p \in Phases |->
        IF @[p] \in Unresolved THEN (IF p \in Required THEN "Failed" ELSE "Skipped") ELSE @[p]]]

-----------------------------------------------------------------------------
\* The phases the screen has a line for, in its five groups.
ScreenPhases ==
    {"SeedRs", "BootInfo", "Architecture", "Serial", "Gdt", "Memory", "Paging", "Heap",
     "Framebuffer", "Idt", "Pic", "Interrupts"}
    \cup {"Nvme", "Ahci", "RootFs"}
    \cup {"I8042", "Ps2Keyboard", "Xhci", "UsbCore", "UsbHid", "UsbKeyboard", "AcpiEc",
          "EcHotkeys", "Input"}
    \cup {"Amd64Cpu", "RyzenCpu", "RyzenTopology", "AmdSoc", "AmdIommu", "AmdGpuRenoir", "AmdXhci"}
    \cup {"Supervisor", "Mtss", "UserspaceLoader", "SpiderRs", "Pid1", "SystemDispatcher",
          "M1Terminal", "Userspace", "IdleLoop"}

\* What the screen shows of a snapshot: a line for every registered phase that has one,
\* and the bar, red once a phase failed.
Lines(t) == [p \in ScreenPhases \cap Registered(t) |-> t.state[p]]

\* render_persistent_boot_screen paints from a snapshot of the table and keeps it.
boot_phase_render_screen(t) == [t EXCEPT !.screen = [state |-> t.state, current |-> t.current]]

framebuffer_ready(t) ==
    "Framebuffer" \in Phases /\ t.state["Framebuffer"] \in Complete \ {"Running"}

Durable == {"BootInfoApplied", "SupervisorCreated", "BootRuntime", "RootFs", "Supervisor", "Mtss",
            "UserspaceLoader", "SpiderRs", "Pid1", "SystemDispatcher", "M1Terminal", "Userspace",
            "IdleLoop"}
is_framebuffer_repaint_milestone(p, s) ==
    \/ p = "BootScreen" \/ s = "Failed"
    \/ p = "Framebuffer" /\ s \in Complete \ {"Running"}
    \/ p \in Durable /\ s \in Complete \cup {"Degraded", "Found", "Stub"}

\* What every boot_phase_* call does: the transition, and the screen at a milestone.
boot_phase(t, p, s) ==
    LET after == transition(t, p, s)
    IN IF /\ t.state[p] # "Unregistered" /\ framebuffer_ready(after)
          /\ is_framebuffer_repaint_milestone(p, s)
       THEN boot_phase_render_screen(after) ELSE after

boot_phase_validate_no_unresolved(t) ==
    LET after == validate_no_unresolved(t)
    IN IF framebuffer_ready(after) THEN boot_phase_render_screen(after) ELSE after
=============================================================================

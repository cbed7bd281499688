-------------------------------- MODULE Kso ---------------------------------
(***************************************************************************)
(* The startup orchestrator of src/kernel/kso: a graph of nodes with       *)
(* ordering edges, wanted nodes and required capabilities, and the runner  *)
(* that starts what is not blocked, pass after pass (runner.rs).           *)
(*                                                                         *)
(* A graph is a sequence of nodes; dependencies are positions in it, and   *)
(* may name a node that is not there. The start function is external: it   *)
(* answers anything in StartResults. One pass visits one node per step, so *)
(* that its answers are chosen as they come; nothing runs in between.      *)
(***************************************************************************)
EXTENDS Integers, Sequences, FiniteSets, TLC

CONSTANTS Graphs,         \* the graphs to run
          Granted,        \* capabilities granted from outside the runner
          CapSlots,       \* length of the capability table
          StartResults,   \* what a start function answers
          MaxFaults       \* bound on the answers other than Started

VARIABLES nodes,      \* the graph, fixed
          runtime,    \* node -> [state, blocker]
          caps,       \* the capabilities in the table
          at,         \* the node a pass visits next, 0 between passes
          progress,   \* of the pass
          outcome,    \* of the last pass, "None" when something was granted since
          faults,     \* answers other than Started so far
          dropped     \* history: capabilities that found no slot

vars == <<nodes, runtime, caps, at, progress, outcome, faults, dropped>>

NoBlocker == [kind |-> "none"]
NodeBlocker(n) == [kind |-> "node", node |-> n]
CapBlocker(c) == [kind |-> "cap", cap |-> c]

Index == DOMAIN nodes
Settled == {"Found", "Online", "Degraded", "Skipped", "Disabled"}
Pending == {"New", "WaitingDeps"}
Least(S) == CHOOSE i \in S : \A j \in S : i <= j

Unsettled(deps) == {i \in DOMAIN deps : runtime[deps[i]].state \notin Settled}
Absent(deps) == {i \in DOMAIN deps : deps[i] \notin Index}

\* Mutant: the capabilities are not looked at.
OrderOnlyBlocker(n) ==
    IF Absent(nodes[n].after) = {} /\ Unsettled(nodes[n].after) # {}
    THEN NodeBlocker(nodes[n].after[Least(Unsettled(nodes[n].after))]) ELSE NoBlocker

\* The first unmet dependency: the nodes it comes after, the capabilities it
\* requires, the nodes it wants. A dependency that is not in the graph ends the
\* search with no blocker, whatever comes behind it.
blocker_for(n) ==
    LET unmet(deps) == Absent(deps) \cup Unsettled([i \in DOMAIN deps |->
                            IF deps[i] \in Index THEN deps[i] ELSE n])
        first(deps) == deps[Least(unmet(deps))]
        missing == {i \in DOMAIN nodes[n].requires : nodes[n].requires[i] \notin caps}
        blocking(deps) == IF first(deps) \in Index THEN NodeBlocker(first(deps)) ELSE NoBlocker
    IN IF unmet(nodes[n].after) # {} THEN blocking(nodes[n].after)
       ELSE IF missing # {} THEN CapBlocker(nodes[n].requires[Least(missing)])
       ELSE IF ~nodes[n].allow_missing_wants /\ unmet(nodes[n].wants) # {}
       THEN blocking(nodes[n].wants)
       ELSE NoBlocker

\* The state a failed start leaves behind, or "Fatal".
failure_state(n) ==
    CASE nodes[n].failure = "AllowDegraded" -> "Degraded"
      [] nodes[n].failure = "Skip" -> "Skipped"
      [] nodes[n].failure = "Disable" -> "Disabled"
      [] OTHER -> IF nodes[n].required THEN "Fatal" ELSE "Failed"

retry_waiting_deps(rt) ==
    [n \in DOMAIN rt |-> IF rt[n].state = "WaitingDeps"
                         THEN [state |-> "New", blocker |-> NoBlocker] ELSE rt[n]]

\* Granting a sequence of capabilities one after the other: what was there or
\* found a slot is held, waiting nodes are tried again after each new one.
Grant(held, new) ==
    LET free == CapSlots - Cardinality(held)
        fresh == SelectSeq(new, LAMBDA c : c \notin held)
        kept == {fresh[i] : i \in {j \in DOMAIN fresh : j <= free}}
    IN [held |-> held \cup kept, lost |-> {fresh[i] : i \in DOMAIN fresh} \ kept,
        retry |-> kept # {}]

grant_capability(c) ==
    LET g == Grant(caps, <<c>>)
    IN /\ at = 0 /\ outcome # "Fatal"
       /\ c \notin caps
       /\ caps' = g.held
       /\ dropped' = dropped \cup g.lost
       /\ runtime' = IF g.retry THEN retry_waiting_deps(runtime) ELSE runtime
       /\ outcome' = IF g.retry THEN "None" ELSE outcome
       /\ UNCHANGED <<nodes, at, progress, faults>>

begin_pass ==
    /\ at = 0 /\ outcome \notin {"Fatal", "Complete"}
    /\ at' = 1
    /\ progress' = FALSE
    /\ UNCHANGED <<nodes, runtime, caps, outcome, faults, dropped>>

\* publish_caps, for the nodes that started.
Published(n, result) ==
    IF result \in {"Started", "StartedDegraded"} THEN Grant(caps, nodes[n].provides)
    ELSE [held |-> caps, lost |-> {}, retry |-> FALSE]

StateAfter(n, result) ==
    CASE result = "Started" -> "Online"
      [] result = "StartedDegraded" -> "Degraded"
      [] result \in {"Skipped", "Disabled"} -> result
      [] result = "Failed" -> failure_state(n)

start(n, result) ==
    LET state == StateAfter(n, result)
        g == Published(n, result)
        entered == [runtime EXCEPT ![n] = [state |-> IF state = "Fatal" THEN "Starting" ELSE state,
                                           blocker |-> NoBlocker]]
    IN /\ result # "Started" => faults < MaxFaults
       /\ faults' = IF result = "Started" THEN faults ELSE faults + 1
       /\ runtime' = IF g.retry THEN retry_waiting_deps(entered) ELSE entered
       /\ caps' = g.held
       /\ dropped' = dropped \cup g.lost
       /\ IF state = "Fatal"
          THEN outcome' = "Fatal" /\ at' = 0 /\ UNCHANGED progress
          ELSE progress' = TRUE /\ at' = at + 1 /\ UNCHANGED outcome
       /\ UNCHANGED nodes

\* One turn of run_once's loop.
visit ==
    /\ at \in Index
    /\ IF runtime[at].state \notin Pending
       THEN at' = at + 1 /\ UNCHANGED <<nodes, runtime, caps, progress, outcome, faults, dropped>>
       ELSE IF blocker_for(at) # NoBlocker
       THEN /\ runtime' = [runtime EXCEPT ![at] = [state |-> "WaitingDeps",
                                                   blocker |-> blocker_for(at)]]
            /\ at' = at + 1
            /\ UNCHANGED <<nodes, caps, progress, outcome, faults, dropped>>
       ELSE \E result \in StartResults : start(at, result)

complete == \A n \in Index : runtime[n].state \notin Pending \cup {"Starting"}

\* Mutant: a pass that changed nothing reports Progress.
EndPassProgress ==
    /\ at = Len(nodes) + 1
    /\ at' = 0
    /\ outcome' = IF complete THEN "Complete" ELSE "Progress"
    /\ UNCHANGED <<nodes, runtime, caps, progress, faults, dropped>>

end_pass ==
    /\ at = Len(nodes) + 1
    /\ at' = 0
    /\ outcome' = IF complete THEN "Complete" ELSE IF progress THEN "Progress" ELSE "Blocked"
    /\ UNCHANGED <<nodes, runtime, caps, progress, faults, dropped>>

Init ==
    /\ nodes \in Graphs
    /\ runtime = [n \in DOMAIN nodes |-> [state |-> "New", blocker |-> NoBlocker]]
    /\ caps = {}
    /\ at = 0
    /\ progress = FALSE
    /\ outcome = "None"
    /\ faults = 0
    /\ dropped = {}

Next == \/ \E c \in Granted : grant_capability(c)
        \/ begin_pass
        \/ visit
        \/ end_pass

\* The boot path runs passes for as long as they can still change something.
run_once == begin_pass \/ visit \/ end_pass
Spec == Init /\ [][Next]_vars /\ WF_vars(run_once)
-----------------------------------------------------------------------------
\* Nodes with every ordering edge inside the graph.
Closed(n) == Absent(nodes[n].after) = {}
Begun == {n \in Index : runtime[n].state \notin Pending}
Finished == at = 0 /\ outcome \in {"Complete", "Blocked", "Fatal"}

\* Whatever the passes, grants and failures, a node was started only behind the
\* nodes it comes after and with the capabilities it requires, and these stay
\* so afterwards.
StartedInOrder ==
    \A n \in Begun : Closed(n) =>
        /\ \A i \in DOMAIN nodes[n].after : runtime[nodes[n].after[i]].state \in Settled
        /\ \A i \in DOMAIN nodes[n].requires : nodes[n].requires[i] \in caps

\* Capabilities are real: each one was granted from outside or is provided by
\* a node that started.
CapsTruthful ==
    \A c \in caps \ Granted : \E n \in Index :
        /\ runtime[n].state \in {"Online", "Degraded"}
        /\ \E i \in DOMAIN nodes[n].provides : nodes[n].provides[i] = c

\* A node that is online has published everything it provides, unless the
\* table was full.
CapsPublished ==
    \A n \in Index : runtime[n].state = "Online" =>
        \A i \in DOMAIN nodes[n].provides : nodes[n].provides[i] \in caps \cup dropped

\* When the runner reports Blocked, every blocker it shows is really unmet, and
\* nothing that could run is left.
BlockedForReason ==
    at = 0 /\ outcome = "Blocked" =>
        /\ \A n \in Index : runtime[n].state = "WaitingDeps" => runtime[n].blocker = blocker_for(n)
        /\ \A n \in Index : runtime[n].state \in Pending => blocker_for(n) # NoBlocker

\* docs/kernel/kso-policy-schema.md: "Optional node failure must not block
\* required boot." Unless a required node is itself skipped or disabled, all
\* of them come up, PID 1's handoff included, whatever the drivers answer.
RequiredComeUp ==
    Finished /\ outcome # "Fatal" /\ (\A n \in Index : nodes[n].required =>
                                        runtime[n].state \notin {"Skipped", "Disabled"})
        => \A n \in Index : nodes[n].required => runtime[n].state \in {"Online", "Degraded"}

\* With every start succeeding the graph comes up as a whole: no cycle, no
\* capability that nobody provides, no capability table that is too short.
WholeGraphStarts ==
    Finished /\ faults = 0 => outcome = "Complete" /\ dropped = {}
-----------------------------------------------------------------------------
(* The startup graph compiled into the kernel (src/kernel/kso/generated.rs,  *)
(* from configs by tools/gen-kso-policy).                                    *)

\* The nodes in table order; a node's id is its position.
Order ==
    <<"AHCI", "ARCHITECTURE", "BLOCK_LAYER", "BOOT_RUNTIME", "BOOTINFO", "FRAMEBUFFER",
      "GDT", "HEAP", "I8042", "IDLELOOP", "IDT", "INPUT", "INTERRUPTS",
      "KERNEL_CONSTRUCTED", "KERNEL_MAIN", "KERNEL_MAPPER", "MEMORY_MAP", "MTSS_PID0",
      "NVME", "PAGING", "PCI", "PHYSICAL_ALLOCATOR", "PIC", "PID1_HANDOFF",
      "PS2_KEYBOARD", "ROOTFS", "SEED_RS", "SERIAL", "SUPERVISOR", "USB_CORE", "USB_HID",
      "USB_KEYBOARD", "USERSPACE_LOADER", "XHCI">>

Id == [name \in {Order[i] : i \in DOMAIN Order} |-> CHOOSE i \in DOMAIN Order : Order[i] = name]

\* Optional drivers tolerate missing wants and degrade; everything else is
\* required and its failure is fatal.
Optional == {"AHCI", "FRAMEBUFFER", "I8042", "INPUT", "NVME", "PCI",
              "PS2_KEYBOARD", "USB_CORE", "USB_HID", "USB_KEYBOARD", "XHCI"}

Edges(after, wants, requires, provides) ==
    [after |-> after, wants |-> wants, requires |-> requires, provides |-> provides]

\* The edges of the first nodes and of the others: ordering, wants, required and
\* provided capabilities.
EdgesToNvme ==
       "AHCI" :> Edges(<<"BLOCK_LAYER", "PCI">>, <<>>,
              <<"pci.bus", "block.layer">>, <<"storage.ahci">>)
    @@ "ARCHITECTURE" :> Edges(<<"KERNEL_MAIN">>, <<>>,
              <<"kernel.main">>, <<"arch.ready">>)
    @@ "BLOCK_LAYER" :> Edges(<<"HEAP">>, <<>>,
              <<"heap.ready">>, <<"block.layer">>)
    @@ "BOOT_RUNTIME" :> Edges(<<"BLOCK_LAYER", "HEAP">>, <<>>,
              <<"block.layer", "heap.ready">>, <<"boot.runtime.validated", "boot.spider_rs_image">>)
    @@ "BOOTINFO" :> Edges(<<"SEED_RS">>, <<>>,
              <<"boot.seed">>, <<"boot.info">>)
    @@ "FRAMEBUFFER" :> Edges(<<"BOOTINFO", "PAGING">>, <<>>,
              <<"boot.info", "paging.ready">>, <<"framebuffer.ready">>)
    @@ "GDT" :> Edges(<<"ARCHITECTURE">>, <<>>,
              <<"arch.ready">>, <<"gdt.ready">>)
    @@ "HEAP" :> Edges(<<"PAGING">>, <<>>,
              <<"paging.ready">>, <<"heap.ready">>)
    @@ "I8042" :> Edges(<<"INTERRUPTS">>, <<>>,
              <<"interrupts.ready">>, <<"i8042.controller">>)
    @@ "IDLELOOP" :> Edges(<<"PID1_HANDOFF">>, <<>>,
              <<"pid1.handoff">>, <<"idleloop.ready">>)
    @@ "IDT" :> Edges(<<"GDT">>, <<>>,
              <<"gdt.ready">>, <<"idt.ready">>)
    @@ "INPUT" :> Edges(<<"PS2_KEYBOARD", "USB_KEYBOARD">>, <<"PS2_KEYBOARD", "USB_KEYBOARD">>,
              <<>>, <<"input.ready">>)
    @@ "INTERRUPTS" :> Edges(<<"IDT", "PIC">>, <<>>,
              <<"pic.ready", "idt.ready">>, <<"interrupts.ready">>)
    @@ "KERNEL_CONSTRUCTED" :> Edges(<<"KERNEL_MAIN">>, <<>>,
              <<"kernel.main">>, <<"kernel.constructed">>)
    @@ "KERNEL_MAIN" :> Edges(<<"BOOTINFO">>, <<>>,
              <<"boot.info">>, <<"kernel.main">>)
    @@ "KERNEL_MAPPER" :> Edges(<<"PHYSICAL_ALLOCATOR">>, <<>>,
              <<"memory.physical_allocator">>, <<"memory.kernel_mapper">>)
    @@ "MEMORY_MAP" :> Edges(<<"BOOTINFO">>, <<>>,
              <<"boot.info">>, <<"memory.map">>)
    @@ "MTSS_PID0" :> Edges(<<"HEAP", "SUPERVISOR">>, <<>>,
              <<"supervisor.ready", "heap.ready">>, <<"mtss.pid0", "mtss.core", "mtss.scheduler", "mtss.cooperative">>)
    @@ "NVME" :> Edges(<<"BLOCK_LAYER", "PCI">>, <<>>,
              <<"pci.bus", "block.layer">>, <<"storage.nvme">>)

EdgesFromPaging ==
       "PAGING" :> Edges(<<"GDT", "KERNEL_MAPPER">>, <<>>,
              <<"memory.kernel_mapper", "gdt.ready">>, <<"paging.ready">>)
    @@ "PCI" :> Edges(<<"INTERRUPTS", "PAGING">>, <<>>,
              <<"paging.ready", "interrupts.ready">>, <<"pci.bus">>)
    @@ "PHYSICAL_ALLOCATOR" :> Edges(<<"MEMORY_MAP">>, <<>>,
              <<"memory.map">>, <<"memory.physical_allocator">>)
    @@ "PIC" :> Edges(<<"IDT">>, <<>>,
              <<"idt.ready">>, <<"pic.ready">>)
    @@ "PID1_HANDOFF" :> Edges(<<"MTSS_PID0", "SUPERVISOR", "USERSPACE_LOADER">>, <<"MTSS_PID0">>,
              <<"boot.spider_rs_image", "supervisor.launch_grants", "mtss.pid0", "mtss.scheduler", "userspace.loader">>, <<"pid1.handoff">>)
    @@ "PS2_KEYBOARD" :> Edges(<<"I8042">>, <<>>,
              <<>>, <<"input.keyboard.ps2">>)
    @@ "ROOTFS" :> Edges(<<"BOOT_RUNTIME">>, <<>>,
              <<"boot.runtime.validated">>, <<"rootfs.mounted">>)
    @@ "SEED_RS" :> Edges(<<>>, <<>>,
              <<>>, <<"boot.seed">>)
    @@ "SERIAL" :> Edges(<<"ARCHITECTURE">>, <<>>,
              <<"arch.ready">>, <<"serial.console">>)
    @@ "SUPERVISOR" :> Edges(<<"INTERRUPTS", "ROOTFS">>, <<>>,
              <<"rootfs.mounted", "interrupts.ready">>, <<"supervisor.ready", "supervisor.launch_grants">>)
    @@ "USB_CORE" :> Edges(<<"XHCI">>, <<"USB_HID">>,
              <<>>, <<"usb.core">>)
    @@ "USB_HID" :> Edges(<<"USB_CORE">>, <<>>,
              <<>>, <<"usb.hid">>)
    @@ "USB_KEYBOARD" :> Edges(<<"USB_HID">>, <<>>,
              <<>>, <<"input.keyboard.usb">>)
    @@ "USERSPACE_LOADER" :> Edges(<<"MTSS_PID0", "ROOTFS">>, <<>>,
              <<"mtss.pid0", "mtss.core", "mtss.scheduler", "rootfs.mounted">>, <<"userspace.loader">>)
    @@ "XHCI" :> Edges(<<"INTERRUPTS", "PCI">>, <<>>,
              <<"pci.bus", "interrupts.ready">>, <<"usb.xhci">>)

EdgesOf == EdgesToNvme @@ EdgesFromPaging

Ids(names) == [i \in DOMAIN names |-> Id[names[i]]]
KSO_NODES ==
    [i \in DOMAIN Order |->
        LET e == EdgesOf[Order[i]]
        IN [after |-> Ids(e.after), wants |-> Ids(e.wants), requires |-> e.requires,
            provides |-> e.provides, required |-> Order[i] \notin Optional,
            allow_missing_wants |-> Order[i] \in Optional,
            failure |-> IF Order[i] \in Optional THEN "AllowDegraded" ELSE "Fatal"]]
=============================================================================

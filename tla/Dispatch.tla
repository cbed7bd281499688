------------------------------ MODULE Dispatch ------------------------------
(***************************************************************************)
(* Mirage-dispatch-rs (src/kernel/dispatch.rs): compiled-in services are   *)
(* registered once per phase and per name, then dispatched one after the   *)
(* other through the feature gate, the dependencies, the probe and the     *)
(* start, each reporting to the boot phase table.  What a probe and a      *)
(* start answer is up to the hardware.                                     *)
(***************************************************************************)
EXTENDS BootPhaseTable, Sequences

CONSTANTS Services, Descriptor   \* Descriptor[s]: name, phase, gate, dependencies

VARIABLES registry,   \* DispatchRegistry: services in the order of registration
          table,      \* the boot phase manager
          features,   \* the features this build has
          next,       \* the index dispatch_all has reached, 0 when it is not running
          report,     \* the DispatchReport
          live        \* history: the dependencies' states when a service was started

vars == <<registry, table, features, next, report, live>>

None == "none"
Phase(s) == Descriptor[s].phase
NewReport == [registered |-> 0, dispatched |-> 0, skipped |-> 0, failed |-> 0]

Init ==
    /\ registry = <<>>
    /\ table = NewTable
    /\ features \in SUBSET ({Descriptor[s].gate : s \in Services} \ {None})
    /\ next = 0
    /\ report = NewReport
    /\ live = [s \in Services |-> {}]

Taken(reg, s) ==
    \E i \in DOMAIN reg : \/ Phase(reg[i]) = Phase(s)
                          \/ Descriptor[reg[i]].name = Descriptor[s].name

DispatchRegister(s) ==
    /\ next = 0
    /\ IF Taken(registry, s) \/ Len(registry) >= Cardinality(Phases)
       THEN UNCHANGED <<registry, table>>
       ELSE /\ registry' = Append(registry, s)
            /\ table' = register(table, Phase(s))
    /\ UNCHANGED <<features, next, report, live>>

dispatch_all ==
    /\ next = 0
    /\ registry # <<>>
    /\ next' = 1
    /\ report' = [NewReport EXCEPT !.registered = Len(registry)]
    /\ UNCHANGED <<registry, table, features, live>>

\* Mutant: a dependency that was skipped is good enough.
SkippedIsReady(t, d) == t.state[d] \in Complete \cup {"Detected", "Stub", "Skipped"}

DependencyReady(t, d) == t.state[d] \in Complete \cup {"Detected", "Stub"}
failed_dependency(t, s) == \E d \in Descriptor[s].dependencies : ~DependencyReady(t, d)

\* The end of one service: what is counted and what its phase shows.
Closed(s, state, dispatched) ==
    /\ table' = boot_phase(table, Phase(s), state)
    /\ report' = [report EXCEPT !.dispatched = IF dispatched THEN @ + 1 ELSE @,
                                !.skipped = IF state = "Skipped" THEN @ + 1 ELSE @,
                                !.failed = IF state = "Failed" THEN @ + 1 ELSE @]

FeatureOff(s) == Descriptor[s].gate # None /\ Descriptor[s].gate \notin features

Refuse(s) ==
    /\ FeatureOff(s) \/ failed_dependency(table, s)
    /\ Closed(s, IF FeatureOff(s) \/ Phase(s) \notin Required THEN "Skipped" ELSE "Failed", FALSE)
    /\ UNCHANGED live

NotPresent(s) ==
    /\ ~FeatureOff(s) /\ ~failed_dependency(table, s)
    /\ Closed(s, "Skipped", FALSE)
    /\ UNCHANGED live

\* Present: the phase is detected, then started, then what start() answered.
Start(s) ==
    /\ ~FeatureOff(s) /\ ~failed_dependency(table, s)
    /\ \E result \in {"Ok", "Skipped", "Stub", "Failed"} :   \* Ok: Online and Enabled too
            Closed(s, result, TRUE)
    /\ live' = [live EXCEPT ![s] = {table.state[d] : d \in Descriptor[s].dependencies}]

dispatch_one ==
    /\ next # 0
    /\ LET s == registry[next] IN Refuse(s) \/ NotPresent(s) \/ Start(s)
    /\ next' = IF next = Len(registry) THEN 0 ELSE next + 1
    /\ UNCHANGED <<registry, features>>

Next == (\E s \in Services : DispatchRegister(s)) \/ dispatch_all \/ dispatch_one

Spec == Init /\ [][Next]_vars /\ WF_vars(dispatch_one)

Done == next = 0 /\ report.registered = Len(registry) /\ registry # <<>>

\* What dispatch_all reports is what the phases show once it is over: as many
\* skipped and failed services as phases in those states, and every other service
\* was started; no service is counted for another's phase.
ReportMatchesPhases ==
    Done => LET In(state) == Cardinality({i \in DOMAIN registry :
                                              table.state[Phase(registry[i])] = state})
            IN /\ report.skipped = In("Skipped")
               /\ report.failed = In("Failed")
               /\ report.dispatched >= report.registered - report.skipped - report.failed

\* A service is started only on top of dependencies that came up: none of them had
\* failed, been skipped, or not reported yet.
StartsOnLiveDependencies ==
    \A s \in Services : live[s] \cap {"Failed", "Skipped", "Registered", "Unregistered"} = {}

\* A required service the build has never goes missing quietly: when something it
\* needs, dispatched before it, did not come up, its own phase fails.
MissingDependencyShows ==
    Done => \A i \in DOMAIN registry : LET s == registry[i] IN
        (/\ Phase(s) \in Required /\ ~FeatureOff(s)
         /\ \E j \in 1 .. i - 1 : /\ Phase(registry[j]) \in Descriptor[s].dependencies
                                  /\ table.state[Phase(registry[j])] \in {"Skipped", "Failed"}) =>
            table.state[Phase(s)] = "Failed"

\* The bar reaches 100 % only when every required phase of the build reported
\* completion: rounding, optional phases and phases that are absent do not push it there.
ProgressHonest ==
    progress_percent(table) = 100 =>
        \A p \in Required \cap Registered(table) : table.state[p] \in Complete
=============================================================================

------------------------------- MODULE Spider -------------------------------
(***************************************************************************)
(* Spider-rs, the first user program (userspace/spider-rs): PID 1 keeps a  *)
(* dispatcher running (start.rs), the dispatcher reads the unit files,     *)
(* orders them for default.target and starts them one after the other      *)
(* (bin_spider_rsd.rs, parser.rs, graph.rs); the manager of manager.rs     *)
(* does the same on a development host. A unit file is a sequence of       *)
(* lines: <<"section", name>>, <<key, value>> or <<"junk">>. What spawn    *)
(* and wait answer is up to the kernel.                                    *)
(***************************************************************************)
EXTENDS Integers, FiniteSets, SequencesExt

CONSTANTS Names,        \* the unit names, in the order of a BTreeMap
          Kind,         \* Kind[n]: the suffix of the name
          Trees,        \* contents of the unit directories: [etc, usr, run : names -> source]
          Builtin,      \* the unit texts compiled into the manager
          None,
          MaxCrashes    \* bound: how often the dispatcher dies

VARIABLES mode,      \* "pid1", or "host" for the diagnostic program on a host
          tree, pid1, rsd, crashes,
          own,       \* history: services whose own last attempt failed
          tries      \* history: attempts per service of this dispatcher

vars == <<mode, tree, pid1, rsd, crashes, own, tries>>

DEFAULT_TARGET == "default.target"
REQUIRED_UNITS == <<"default.target", "basic.target", "m1-terminal.service">>
MAX_RESTARTS == 3
All == {Names[i] : i \in DOMAIN Names}
Sorted(S) == SelectSeq(Names, LAMBDA n : n \in S)

\* The only element of S: The({F(x) : x \in {e}}) is F(e), with e computed once.
The(S) == CHOOSE x \in S : TRUE
Fold(Op(_, _), base, seq) == FoldLeft(LAMBDA acc, x : The({Op(a, x) : a \in {acc}}), base, seq)

-----------------------------------------------------------------------------
\* parse_unit, line by line; after an error nothing counts any more.
RestartPolicies == {"no", "on-failure", "always"}
UnitKinds == {"service", "target", "socket", "timer", "mount", "device", "path"}
Sections == {"Unit", "Service", "Target", "Install"}
NewUnit == [after |-> {}, before |-> {}, requires |-> {}, wants |-> {}, wanted_by |-> {},
            exec |-> None, restart |-> "no", state |-> "Loaded"]

parse_line(p, line) ==
    IF ~p.ok THEN p
    ELSE IF line[1] = "section" THEN [p EXCEPT !.section = line[2], !.ok = line[2] \in Sections]
    ELSE IF line[1] = "junk" \/ p.section = None THEN [p EXCEPT !.ok = FALSE]
    ELSE LET at == <<p.section, line[1]>>
             v == line[2]
         IN CASE at = <<"Unit", "After">> -> [p EXCEPT !.unit.after = v]
              [] at = <<"Unit", "Before">> -> [p EXCEPT !.unit.before = v]
              [] at = <<"Unit", "Requires">> -> [p EXCEPT !.unit.requires = v]
              [] at = <<"Unit", "Wants">> -> [p EXCEPT !.unit.wants = v]
              [] at = <<"Service", "ExecStart">> -> [p EXCEPT !.unit.exec = v]
              [] at = <<"Service", "Restart">> ->
                    [p EXCEPT !.unit.restart = v, !.ok = v \in RestartPolicies]
              [] at = <<"Install", "WantedBy">> -> [p EXCEPT !.unit.wanted_by = v]
              [] OTHER -> p

\* A service has a program, and nothing else has one.
parse_unit(name, source) ==
    The({[p EXCEPT !.ok = @ /\ Kind[name] \in UnitKinds
                            /\ (Kind[name] = "service") = (p.unit.exec # None)] :
           p \in {Fold(parse_line, [section |-> None, unit |-> NewUnit, ok |-> TRUE], source)}})

\* A directory lists names; what cannot be read or parsed leaves the map as it is.
insert_unit(units, name, source) ==
    The({IF p.ok THEN [n \in DOMAIN units \cup {name} |-> IF n = name THEN p.unit ELSE units[n]]
         ELSE units : p \in {parse_unit(name, source)}})

load_dir(units, dir, listed) ==
    Fold(LAMBDA u, n : insert_unit(u, n, dir[n]), units,
             Sorted({n \in listed \cap DOMAIN dir : Kind[n] \in UnitKinds}))

\* load_units: the three units of a boot have to be there and well-formed.
RequiredLoad(t) ==
    \A i \in DOMAIN REQUIRED_UNITS :
        LET n == REQUIRED_UNITS[i] IN n \in DOMAIN t.etc /\ parse_unit(n, t.etc[n]).ok

load_units(t, listed) ==
    LET required == Fold(LAMBDA u, n : insert_unit(u, n, t.etc[n]), <<>>, REQUIRED_UNITS)
    IN load_dir(load_dir(required, t.etc, listed.etc), t.usr, listed.usr)

-----------------------------------------------------------------------------
\* collect_units: the target, what a member requires or wants, and what declares itself
\* wanted by a member.
collect_units(units, target) ==
    LET grow(S) == S \cup UNION {units[n].requires \cup units[n].wants :
                                     n \in S \cap DOMAIN units}
                     \cup {c \in DOMAIN units : units[c].wanted_by \cap S # {}}
    IN Fold(LAMBDA S, n : grow(S), {target}, Names)

\* The edges of add_edge, each counted once.
EdgesOf(units, included) ==
    {<<d, n>> \in included \X included :
        \/ d \in units[n].requires \cup units[n].wants \cup units[n].after
        \/ n \in units[d].before}

\* One turn of the loop over `ready`.
TakeReady(k, edges) ==
    IF k.ready = <<>> THEN k
    ELSE LET n == Head(k.ready)
             deg == [m \in DOMAIN k.indegree |->
                         k.indegree[m] - (IF <<n, m>> \in edges THEN 1 ELSE 0)]
             freed == {m \in DOMAIN deg : <<n, m>> \in edges /\ deg[m] = 0}
         IN [ready |-> Tail(k.ready) \o Sorted(freed), order |-> Append(k.order, n),
             indegree |-> deg]

\* The start-up order of the units included, shorter than they are when some wait for
\* each other.
Ordered(included, edges) ==
    LET degree == [n \in included |-> Cardinality({e \in edges : e[2] = n})]
        first == [ready |-> Sorted({n \in included : degree[n] = 0}), order |-> <<>>,
                  indegree |-> degree]
    IN Fold(LAMBDA k, n : TakeReady(k, edges), first, Names).order

\* resolve_startup_order: <<>> stands for both errors, a missing unit and a cycle.
resolve_startup_order(units, target) ==
    The({IF target \notin DOMAIN units \/ ~(included \subseteq DOMAIN units) THEN <<>>
         ELSE The({IF Len(order) # Cardinality(included) THEN <<>> ELSE order :
                     order \in {Ordered(included, edges) : edges \in {EdgesOf(units, included)}}}) :
           included \in {collect_units(units, target)}})

-----------------------------------------------------------------------------
NoDispatcher == [pc |-> "none", units |-> <<>>, order |-> <<>>, at |-> 0, attempts |-> 0]
NoTries == [n \in All |-> 0]

Init ==
    /\ mode \in {"pid1", "host"}
    /\ tree \in Trees
    /\ pid1 = [pc |-> "spawn", restarts |-> 0]
    /\ rsd = NoDispatcher
    /\ crashes = 0
    /\ own = {}
    /\ tries = NoTries

\* spider_main: a failure is counted up to the limit; past it, and after an exit with 0,
\* the loop yields and tries again.
Again(p) == [p EXCEPT !.pc = "spawn", !.restarts = IF @ < MAX_RESTARTS THEN @ + 1 ELSE @]

pid1_spawn(ok) ==
    /\ mode = "pid1" /\ pid1.pc = "spawn"
    /\ pid1' = IF ok THEN [pid1 EXCEPT !.pc = "wait"] ELSE Again(pid1)
    /\ IF ok THEN rsd' = [NoDispatcher EXCEPT !.pc = "load"] /\ own' = {} /\ tries' = NoTries
       ELSE UNCHANGED <<rsd, own, tries>>
    /\ UNCHANGED <<mode, tree, crashes>>

pid1_wait(status) ==
    /\ pid1.pc = "wait" /\ rsd.pc = "dead"
    /\ pid1' = IF status = "zero" THEN [pid1 EXCEPT !.pc = "spawn"] ELSE Again(pid1)
    /\ UNCHANGED <<mode, tree, rsd, crashes, own, tries>>

\* The dispatcher is killed, wherever it is.
crash ==
    /\ crashes < MaxCrashes
    /\ rsd.pc \notin {"none", "dead"} /\ mode = "pid1"
    /\ rsd' = [rsd EXCEPT !.pc = "dead"]
    /\ crashes' = crashes + 1
    /\ UNCHANGED <<mode, tree, pid1, own, tries>>

\* run: without the required units, or without an order, it only yields.
load(listed) ==
    /\ rsd.pc = "load"
    /\ rsd' = IF RequiredLoad(tree)
              THEN [rsd EXCEPT !.pc = "resolve", !.units = load_units(tree, listed)]
              ELSE [rsd EXCEPT !.pc = "idle"]
    /\ UNCHANGED <<mode, tree, pid1, crashes, own, tries>>

resolve ==
    /\ rsd.pc = "resolve"
    /\ \E order \in {resolve_startup_order(rsd.units, DEFAULT_TARGET)} :
          rsd' = [rsd EXCEPT !.order = order, !.at = 1, !.pc = IF order = <<>> THEN "idle" ELSE "unit"]
    /\ UNCHANGED <<mode, tree, pid1, crashes, own, tries>>

Unit == rsd.order[rsd.at]
Onward(r) == IF r.at = Len(r.order) THEN [r EXCEPT !.pc = "idle"] ELSE [r EXCEPT !.pc = "unit", !.at = @ + 1]
set_state(r, name, state) == [r EXCEPT !.units[name].state = state]
\* Mutant: only a missing unit counts, not one that failed.
required_missing(units, name) == \E d \in units[name].requires : d \notin DOMAIN units

required_failed(units, name) ==
    \E d \in units[name].requires : d \notin DOMAIN units \/ units[d].state = "Failed"

\* start_unit.
start_unit ==
    /\ rsd.pc = "unit"
    /\ rsd' = IF required_failed(rsd.units, Unit) THEN Onward(set_state(rsd, Unit, "Failed"))
              ELSE CASE Kind[Unit] = "target" -> Onward(set_state(rsd, Unit, "Running"))
                     [] Kind[Unit] = "service" ->
                           [set_state(rsd, Unit, "Starting") EXCEPT !.pc = "spawn", !.attempts = 1]
                     [] OTHER -> Onward(set_state(rsd, Unit, "Skipped"))
    /\ UNCHANGED <<mode, tree, pid1, crashes, own, tries>>

\* The end of one attempt of start_service: a second one at most.
Attempted(r, name, state) ==
    LET restart == \/ r.units[name].restart = "on-failure" /\ state = "Failed"
                   \/ r.units[name].restart = "always"
    IN IF restart /\ r.attempts < 2
       THEN [set_state(r, name, "Starting") EXCEPT !.pc = "spawn", !.attempts = @ + 1]
       ELSE Onward(set_state(r, name, state))

Finish(state) ==
    /\ rsd' = Attempted(rsd, Unit, state)
    /\ own' = IF state = "Failed" THEN own \cup {Unit} ELSE own \ {Unit}

spawn_service(ok) ==
    /\ rsd.pc = "spawn"
    /\ tries' = [tries EXCEPT ![Unit] = @ + 1]
    /\ IF ok THEN rsd' = [set_state(rsd, Unit, "Running") EXCEPT !.pc = "wait"] /\ UNCHANGED own
       ELSE Finish("Failed")
    /\ UNCHANGED <<mode, tree, pid1, crashes>>

\* Zero is success; any other status and a failed call are not told apart.
wait_service(status) ==
    /\ rsd.pc = "wait"
    /\ Finish(IF status = "zero" THEN "Exited" ELSE "Failed")
    /\ UNCHANGED <<mode, tree, pid1, crashes, tries>>

-----------------------------------------------------------------------------
\* The host program. A directory that holds a bad unit file ends the loading; what was
\* inserted before stays, and main goes on with it. With no file at all the built-in
\* units, which are there already, are loaded again.
Bad(dir) ==
    {n \in DOMAIN dir : Kind[n] \in UnitKinds \cup {"spider"} /\ ~parse_unit(n, dir[n]).ok}

load_search_paths(units, t, before) ==
    Fold(LAMBDA r, dir : IF ~r.ok THEN r
                             ELSE IF Bad(dir) = {} THEN [r EXCEPT !.units = load_dir(@, dir, All)]
                             ELSE [ok |-> FALSE, units |-> load_dir(r.units, dir, before \ Bad(dir))],
             [ok |-> TRUE, units |-> units], <<t.etc, t.usr, t.run>>).units

with_builtin_units == load_dir(<<>>, Builtin, All)

\* start_plan; a target is reached, a service runs when it could be spawned, and a
\* spawner that only records its calls leaves it skipped.
start_plan(units, order, stub, refused) ==
    Fold(LAMBDA u, n :
                 [u EXCEPT ![n].state =
                     IF \E d \in u[n].requires : d \in DOMAIN u /\ u[d].state = "Failed" THEN "Failed"
                     ELSE CASE Kind[n] = "target" -> "Running"
                            [] Kind[n] = "service" /\ n \in refused -> "Failed"
                            [] Kind[n] = "service" /\ ~stub -> "Running"
                            [] OTHER -> "Skipped"],
             units, order)

host_main(before, stub, refused) ==
    /\ mode = "host" /\ rsd.pc = "none"
    /\ stub => refused = {}
    /\ \E units \in {load_search_paths(with_builtin_units, tree, before)} :
       \E order \in {resolve_startup_order(units, DEFAULT_TARGET)} :
          rsd' = [NoDispatcher EXCEPT !.pc = "idle", !.order = order,
                                      !.units = start_plan(units, order, stub, refused)]
    /\ own' = refused
    /\ UNCHANGED <<mode, tree, pid1, crashes, tries>>

-----------------------------------------------------------------------------
Services == {n \in All : Kind[n] = "service"}
Statuses == {"zero", "other"}

\* What the dispatcher does by itself.
dispatcher ==
    \/ \E listed \in [etc : {All, {}}, usr : SUBSET DOMAIN tree.usr] : load(listed)
    \/ resolve
    \/ start_unit
    \/ \E ok \in BOOLEAN : spawn_service(ok)

Next ==
    \/ dispatcher
    \/ \E ok \in BOOLEAN : pid1_spawn(ok)
    \/ \E status \in Statuses : pid1_wait(status) \/ wait_service(status)
    \/ crash
    \/ \E before, refused \in SUBSET Services, stub \in BOOLEAN : host_main(before, stub, refused)

-----------------------------------------------------------------------------
\* A start-up order names the target and everything it pulls in exactly once, with
\* nothing before what it requires, wants or comes after, and there is one unless a unit
\* is missing or some units wait for each other.
OrderSound ==
    rsd.pc \in {"unit", "spawn", "wait", "idle"} /\ rsd.units # <<>> =>
        LET order == rsd.order
            included == collect_units(rsd.units, DEFAULT_TARGET)
            edges == EdgesOf(rsd.units, included)
            place(n) == CHOOSE i \in DOMAIN order : order[i] = n
            waiting(S) == \A n \in S : \E m \in S : <<m, n>> \in edges
        IN IF order = <<>>
           THEN \/ ~(included \subseteq DOMAIN rsd.units)
                \/ \E S \in SUBSET included \ {{}} : waiting(S)
           ELSE /\ ToSet(order) = included /\ IsInjective(order)
                /\ \A e \in edges : place(e[1]) < place(e[2])

\* When the last unit is done, exactly those units have failed that are, or through what
\* they require depend on, a service whose own last attempt failed; everything else of
\* the plan has been reached, run or skipped, and nothing outside the plan was touched.
FailuresPropagate ==
    rsd.pc = "idle" /\ rsd.order # <<>> =>
        LET u == rsd.units
            planned == ToSet(rsd.order)
            grow(S) == S \cup {n \in planned : u[n].requires \cap S # {}}
            struck == Fold(LAMBDA S, n : grow(S), own \cap planned, Names)
        IN /\ {n \in planned : u[n].state = "Failed"} = struck
           /\ \A n \in planned : u[n].state \in {"Failed", "Running", "Exited", "Skipped"}
           /\ \A n \in DOMAIN u \ planned : u[n].state = "Loaded"

\* A service gets a second attempt exactly when its policy asks for one.
RestartsFollowPolicy ==
    mode = "pid1" /\ rsd.pc = "idle" /\ rsd.order # <<>> =>
        \A n \in Services : tries[n] > 0 =>
            /\ rsd.units[n].restart = "no" => tries[n] = 1
            /\ rsd.units[n].restart = "always" => tries[n] = 2
            /\ rsd.units[n].restart = "on-failure" /\ n \in own => tries[n] = 2
=============================================================================

---------------------------- MODULE AddressSpaces ----------------------------
(***************************************************************************)
(* User address spaces: the table of roots with reference counts and the   *)
(* table of user mappings of src/kernel/memory.rs, driven by the process   *)
(* operations of src/kernel/exec.rs (fork, clone, exec, and their          *)
(* rollbacks) and by exit_process.                                         *)
(*                                                                         *)
(* A mapping is one page backed by one region of the kernel heap (external *)
(* here, modelled in MemoryManager); the page tables are the maps of       *)
(* PageMapSpec. Process ids are never used twice.                          *)
(***************************************************************************)
EXTENDS Integers, FiniteSets, SequencesExt

CONSTANTS MAX_SPACES, MAX_MAPPINGS, None,
          Pids, Roots, Pages, Regions    \* sets of numbers

VARIABLES spaces,     \* slot -> [owner, root, references] or None
          mappings,   \* slot -> [owner, root, at, region] or None
          ptes,       \* root -> page -> region or None, for page tables that exist
          regions,    \* live heap region -> its owner
          proc,       \* pid -> root, for processes that have not exited
          used,       \* pids handed out
          abandoned   \* history: shared roots whose owner exited

vars == <<spaces, mappings, ptes, regions, proc, used, abandoned>>

SpaceSlots == 1 .. MAX_SPACES
MapSlots == 1 .. MAX_MAPPINGS
Least(S) == CHOOSE i \in S : \A j \in S : i <= j
Without(f, S) == [x \in DOMAIN f \ S |-> f[x]]
With(f, x, y) == [z \in DOMAIN f \cup {x} |-> IF z = x THEN y ELSE f[z]]

(* The memory state as a record s, threaded through the operations.        *)
Here == [spaces |-> spaces, mappings |-> mappings, ptes |-> ptes, regions |-> regions]
Become(result) ==
    \E s \in {result} :
       /\ spaces' = s.spaces /\ mappings' = s.mappings
       /\ ptes' = s.ptes /\ regions' = s.regions

\* [s, root], with root None when the table or the frames are exhausted.
create_user_address_space(s, owner) ==
    LET slots == {i \in SpaceSlots : s.spaces[i] = None}
        fresh == Roots \ DOMAIN s.ptes
        root == Least(fresh)
        entry == [owner |-> owner, root |-> root, references |-> 1]
    IN IF fresh = {} \/ slots = {} THEN [s |-> s, root |-> None]
       ELSE [s |-> [s EXCEPT !.spaces[Least(slots)] = entry,
                             !.ptes = With(@, root, [v \in Pages |-> None])],
             root |-> root]

SpaceOf(s, root) == {i \in SpaceSlots : s.spaces[i] # None /\ s.spaces[i].root = root}

\* The caller has seen the root registered; share fails otherwise.
share_user_address_space(s, root) ==
    [s EXCEPT !.spaces[Least(SpaceOf(s, root))].references = @ + 1]

\* Mutant: the reference count is not looked at.
Unregistered(s, root) ==
    LET own == {j \in MapSlots : s.mappings[j] # None /\ s.mappings[j].root = root}
    IN [spaces |-> [i \in SpaceSlots |-> IF i \in SpaceOf(s, root) THEN None ELSE s.spaces[i]],
        mappings |-> [j \in MapSlots |-> IF j \in own THEN None ELSE s.mappings[j]],
        regions |-> Without(s.regions, {s.mappings[j].region : j \in own}),
        ptes |-> Without(s.ptes, {root})]

\* A shared space loses one reference; the last one takes the mappings, their
\* heap regions and the page tables with it. munmap_ptr_for refuses a region
\* that is no longer its owner's.
destroy_user_address_space(s, root) ==
    LET i == Least(SpaceOf(s, root))
        own == {j \in MapSlots : s.mappings[j] # None /\ s.mappings[j].root = root}
        given == {s.mappings[j].region : j \in {k \in own :
                    /\ s.mappings[k].region \in DOMAIN s.regions
                    /\ s.regions[s.mappings[k].region] = s.mappings[k].owner}}
        unmapped == [s EXCEPT !.mappings = [j \in MapSlots |-> IF j \in own THEN None ELSE @[j]],
                              !.regions = Without(@, given)]
    IN IF SpaceOf(s, root) = {} THEN unmapped
       ELSE IF s.spaces[i].references > 1
       THEN [s EXCEPT !.spaces[i].references = @ - 1]
       ELSE [unmapped EXCEPT !.spaces[i] = None, !.ptes = Without(@, {root})]

\* The heap region is taken first, then the page mapped, then the record
\* written; the region goes back when a later step fails, the page table
\* entry stays. fault: no frame for a page table.
mmap_user_fixed(s, owner, root, at, fault) ==
    LET region == Least(Regions \ DOMAIN s.regions)
        slots == {j \in MapSlots : s.mappings[j] = None}
        record == [owner |-> owner, root |-> root, at |-> at, region |-> region]
    IN IF Regions \subseteq DOMAIN s.regions \/ fault THEN [s |-> s, ok |-> FALSE]
       ELSE IF slots = {} THEN [s |-> [s EXCEPT !.ptes[root][at] = region], ok |-> FALSE]
       ELSE [s |-> [s EXCEPT !.regions = With(@, region, owner),
                             !.ptes[root][at] = region,
                             !.mappings[Least(slots)] = record],
             ok |-> TRUE]

\* The parent's mappings, as they were before the copy, one by one. The first
\* failure abandons the child's root half filled.
clone_user_address_space(s, owner, parent_root, fault) ==
    LET c == create_user_address_space(s, owner)
        copy(acc, j) ==
            IF ~acc.ok \/ s.mappings[j] = None \/ s.mappings[j].root # parent_root THEN acc
            ELSE mmap_user_fixed(acc.s, owner, c.root, s.mappings[j].at, fault)
        all == FoldLeft(copy, [s |-> c.s, ok |-> TRUE], [j \in MapSlots |-> j])
    IN IF c.root = None THEN c
       ELSE [s |-> all.s, root |-> IF all.ok THEN c.root ELSE None]

\* Every root the process owns is destroyed once, then its heap regions go.
release_process(s, owner) ==
    LET owned == {i \in SpaceSlots : s.spaces[i] # None /\ s.spaces[i].owner = owner}
        roots == [k \in 1 .. Cardinality(owned) |-> s.spaces[SetToSortSeq(owned, <)[k]].root]
        torn == FoldLeft(destroy_user_address_space, s, roots)
    IN [torn EXCEPT !.regions = Without(@, {r \in DOMAIN @ : @[r] = owner})]
-----------------------------------------------------------------------------
\* Where a creation can fail after the address space has been made:
\* "security": register_task or derive_inherited_child_capabilities refuses,
\* and nothing undoes the address space; "thread": no thread, the space is
\* destroyed; "mtss": the scheduler refuses, which create_process_task and
\* clone_thread answer differently.
Stages == {"security", "thread", "mtss", "none"}

Unused == Pids \ used

\* fork_task through create_process_task.
fork_task(parent, fault, stage) ==
    LET child == Least(Unused)
        c == clone_user_address_space(Here, child, proc[parent], fault)
    IN /\ Unused # {}
       /\ used' = used \cup {child}
       /\ IF c.root = None THEN Become(c.s) /\ UNCHANGED proc
          ELSE CASE stage = "none" -> Become(c.s) /\ proc' = With(proc, child, c.root)
                 [] stage = "thread" -> /\ Become(destroy_user_address_space(c.s, c.root))
                                        /\ UNCHANGED proc
                 [] OTHER -> Become(c.s) /\ UNCHANGED proc
       /\ UNCHANGED abandoned

\* clone_thread with CLONE_VM and without CLONE_THREAD.
clone_shared(parent, stage) ==
    LET child == Least(Unused)
        s == share_user_address_space(Here, proc[parent])
    IN /\ Unused # {}
       /\ SpaceOf(Here, proc[parent]) # {}
       /\ used' = used \cup {child}
       /\ CASE stage = "none" -> Become(s) /\ proc' = With(proc, child, proc[parent])
            [] stage = "security" -> Become(s) /\ UNCHANGED proc
            [] OTHER -> Become(destroy_user_address_space(s, proc[parent])) /\ UNCHANGED proc
       /\ UNCHANGED abandoned

\* load_exec_image into a new root, then exec_task: the old root goes only
\* after the new one is in place.
exec_task(p, fault) ==
    LET c == create_user_address_space(Here, p)
        load(acc, v) == IF ~acc.ok THEN acc ELSE mmap_user_fixed(acc.s, p, c.root, v, fault)
        image == FoldLeft(load, [s |-> c.s, ok |-> TRUE], SetToSortSeq(Pages, <))
    IN /\ IF c.root = None THEN Become(c.s) /\ UNCHANGED proc
          ELSE IF ~image.ok
          THEN Become(destroy_user_address_space(image.s, c.root)) /\ UNCHANGED proc
          ELSE /\ proc' = [proc EXCEPT ![p] = c.root]
               /\ Become(destroy_user_address_space(image.s, proc[p]))
       /\ UNCHANGED <<used, abandoned>>

exit_process(p) ==
    /\ Become(release_process(Here, p))
    /\ proc' = Without(proc, {p})
    /\ abandoned' = abandoned \cup
            {spaces[i].root : i \in {k \in SpaceSlots :
                /\ spaces[k] # None
                /\ spaces[k].owner = p
                /\ \E q \in DOMAIN proc \ {p} : proc[q] = spaces[k].root}}
    /\ UNCHANGED used

\* The first process, with one page mapped.
Init ==
    LET p == Least(Pids)
        c == create_user_address_space(
                [spaces |-> [i \in SpaceSlots |-> None], mappings |-> [j \in MapSlots |-> None],
                 ptes |-> [r \in {} |-> None], regions |-> [r \in {} |-> None]], p)
        s == mmap_user_fixed(c.s, p, c.root, Least(Pages), FALSE).s
    IN /\ spaces = s.spaces
       /\ mappings = s.mappings
       /\ ptes = s.ptes
       /\ regions = s.regions
       /\ proc = With([x \in {} |-> None], p, c.root)
       /\ used = {p}
       /\ abandoned = {}

Next == \E p \in DOMAIN proc :
            \/ \E fault \in BOOLEAN, stage \in Stages : fork_task(p, fault, stage)
            \/ \E stage \in Stages : clone_shared(p, stage)
            \/ \E fault \in BOOLEAN : exec_task(p, fault)
            \/ exit_process(p)

Spec == Init /\ [][Next]_vars
-----------------------------------------------------------------------------
\* Processes whose root nobody has abandoned. When the process that made a
\* shared root exits, release_process destroys the root or frees the regions
\* behind it under the processes that still use it: nothing holds for those.
Sound == {p \in DOMAIN proc : proc[p] \notin abandoned}

\* A running process has page tables: its root stays registered, with at
\* least one reference for each process that uses it, through forks, shared
\* clones, execs and every failure half-way.
RootsReferenced ==
    \A p \in Sound : \E i \in SpaceOf(Here, proc[p]) :
        spaces[i].references >= Cardinality({q \in DOMAIN proc : proc[q] = proc[p]})

\* What a running process can reach is what the mapping table says: each of
\* its page table entries has a record, and the region behind it is still
\* allocated to the record's owner.
PagesBacked ==
    \A p \in Sound, v \in Pages : ptes[proc[p]][v] # None =>
        \E j \in MapSlots : /\ mappings[j] # None
                            /\ mappings[j].root = proc[p]
                            /\ mappings[j].at = v
                            /\ mappings[j].region = ptes[proc[p]][v]
                            /\ mappings[j].region \in DOMAIN regions
                            /\ regions[mappings[j].region] = mappings[j].owner

\* Processes that do not share a root share no memory.
Isolated ==
    \A p, q \in Sound : proc[p] # proc[q] =>
        \A v, w \in Pages : ptes[proc[p]][v] # None => ptes[proc[p]][v] # ptes[proc[q]][w]
=============================================================================

------------------------------- MODULE Paging -------------------------------
(***************************************************************************)
(* The x86_64 page tables of src/arch/x86_64/paging.rs: trees of table     *)
(* frames taken from the physical allocator, one root per address space.   *)
(*                                                                         *)
(* Tables have entries 0 .. Fanout - 1 and the trees three levels instead  *)
(* of four. Entries of the root from KernelHalf on belong to the kernel    *)
(* and are copied from its root when an address space is created. Leaf     *)
(* entries are physical pages; flag bits are left out.                     *)
(***************************************************************************)
EXTENDS Integers, FiniteSets

CONSTANTS TableFrames,       \* the frames tables are made of, numbers
          Fanout, KernelHalf,
          Pages,             \* the virtual page numbers that get mapped
          Physical, None,
          MaxSpaces          \* MAX_ADDRESS_SPACES of the caller, memory.rs

VARIABLES tables,            \* frame -> entry index -> frame, page or None
          free,              \* external: frames of the physical allocator
          roots,             \* user address spaces handed out
          current            \* CURRENT_ADDRESS_SPACE_ROOT

vars == <<tables, free, roots, current>>

Index == 0 .. Fanout - 1
\* The address shifted right by one table's worth of bits per level.
Shifted(v, level) == CASE level = 0 -> v
                       [] level = 1 -> v \div Fanout
                       [] level = 2 -> (v \div Fanout) \div Fanout
index(v, level) == Shifted(v, level) % Fanout
UserPages == {v \in Pages : index(v, 2) < KernelHalf}
KernelPages == Pages \ UserPages
EmptyTable == [i \in Index |-> None]

\* KERNEL_PML4_PHYSICAL: the root the boot loader left, with one kernel slot
\* in use and one that is not.
KernelRoot == 0
KernelTables == {0, 1, 2}

ASSUME PagingAssumption ==
    /\ Fanout \in Nat /\ KernelHalf \in Index
    /\ KernelTables \subseteq TableFrames /\ TableFrames \subseteq Nat
    /\ Pages \subseteq 0 .. Fanout * Fanout * Fanout - 1
    /\ None \notin TableFrames \cup Physical

Lowest(S) == CHOOSE f \in S : \A g \in S : f <= g

\* Mutant: the new table's frame stays in the free pool.
NextTableUnclaimed(t, parent, i) ==
    LET f == Lowest(t.free)
        grown == [t EXCEPT !.tables = [g \in DOMAIN t.tables \cup {f} |->
                                IF g = f THEN EmptyTable
                                ELSE IF g = parent THEN [t.tables[g] EXCEPT ![i] = f]
                                ELSE t.tables[g]]]
    IN IF t.tables[parent][i] # None THEN [t |-> t, table |-> t.tables[parent][i]]
       ELSE IF t.free = {} THEN [t |-> t, table |-> None]
       ELSE [t |-> grown, table |-> f]

\* user_next_table and next_table: the table below entry i, allocated when
\* there is none. t is [tables, free], the result [t, table] with table None
\* when no frame is left.
NextTable(t, parent, i) ==
    LET f == Lowest(t.free)
        grown == [tables |-> [g \in DOMAIN t.tables \cup {f} |->
                                IF g = f THEN EmptyTable
                                ELSE IF g = parent THEN [t.tables[g] EXCEPT ![i] = f]
                                ELSE t.tables[g]],
                  free |-> t.free \ {f}]
    IN IF t.tables[parent][i] # None THEN [t |-> t, table |-> t.tables[parent][i]]
       ELSE IF t.free = {} THEN [t |-> t, table |-> None]
       ELSE [t |-> grown, table |-> f]

\* map_page_inner and map_user_page; failing half-way keeps the tables made
\* so far. `to` is what the leaf entry becomes.
MapPage(t, root, v, to) ==
    LET pd == NextTable(t, root, index(v, 2))
        pt == NextTable(pd.t, pd.table, index(v, 1))
    IN IF pd.table = None THEN pd.t
       ELSE IF pt.table = None THEN pt.t
       ELSE [pt.t EXCEPT !.tables[pt.table][index(v, 0)] = to]

\* user_leaf_table, leaf_table.
LeafTable(ts, root, v) ==
    IF ts[root][index(v, 2)] = None THEN None ELSE ts[ts[root][index(v, 2)]][index(v, 1)]

\* translate_user_page, translate_virt.
Translate(ts, root, v) ==
    LET pt == LeafTable(ts, root, v) IN IF pt = None THEN None ELSE ts[pt][index(v, 0)]

Become(t) == tables' = t.tables /\ free' = t.free
Here == [tables |-> tables, free |-> free]
-----------------------------------------------------------------------------
NewRoot == [i \in Index |-> IF i >= KernelHalf THEN tables[KernelRoot][i] ELSE None]

create_user_address_space ==
    LET f == Lowest(free)
    IN /\ free # {}
       /\ Cardinality(roots) < MaxSpaces
       /\ tables' = [g \in DOMAIN tables \cup {f} |-> IF g = f THEN NewRoot ELSE tables[g]]
       /\ free' = free \ {f}
       /\ roots' = roots \cup {f}
       /\ UNCHANGED current

\* The frames destroy_user_address_space returns besides the root.
TablesBelow(root) ==
    LET pds == {tables[root][i] : i \in 0 .. KernelHalf - 1} \ {None}
    IN pds \cup ((UNION {{tables[d][i] : i \in Index} : d \in pds}) \ {None})

\* memory.rs destroys a root it has just taken from its table, and the
\* kernel's own never; exec_task switches away from the old root first.
destroy_user_address_space(root) ==
    /\ root \in roots
    /\ root # current
    /\ tables' = [g \in DOMAIN tables \ (TablesBelow(root) \cup {root}) |-> tables[g]]
    /\ free' = free \cup TablesBelow(root) \cup {root}
    /\ roots' = roots \ {root}
    /\ UNCHANGED current

map_user_page(root, v, p) ==
    /\ root \in roots
    /\ Become(MapPage(Here, root, v, p))
    /\ UNCHANGED <<roots, current>>

\* Mutant: the entry above is cleared, and the whole table goes with it.
unmap_user_table(root, v) ==
    /\ root \in roots
    /\ Translate(tables, root, v) # None
    /\ tables' = [tables EXCEPT ![LeafTable(tables, root, v)] = EmptyTable]
    /\ UNCHANGED <<free, roots, current>>

unmap_user_page(root, v) ==
    /\ root \in roots
    /\ Translate(tables, root, v) # None
    /\ tables' = [tables EXCEPT ![LeafTable(tables, root, v)][index(v, 0)] = None]
    /\ UNCHANGED <<free, roots, current>>

\* map_page on the active kernel tables.
map_page(v, p) == /\ Become(MapPage(Here, KernelRoot, v, p))
                  /\ UNCHANGED <<roots, current>>

unmap_page(v) ==
    /\ Translate(tables, KernelRoot, v) # None
    /\ tables' = [tables EXCEPT ![LeafTable(tables, KernelRoot, v)][index(v, 0)] = None]
    /\ UNCHANGED <<free, roots, current>>

\* Root 0 stands for the kernel's.
switch_address_space(root) ==
    /\ root \in roots \cup {KernelRoot}
    /\ current # root
    /\ current' = root
    /\ UNCHANGED <<tables, free, roots>>

Init ==
    /\ tables = [f \in KernelTables |->
                    CASE f = KernelRoot -> [EmptyTable EXCEPT ![KernelHalf] = 1]
                      [] f = 1 -> [EmptyTable EXCEPT ![0] = 2]
                      [] OTHER -> EmptyTable]
    /\ free = TableFrames \ KernelTables
    /\ roots = {}
    /\ current = KernelRoot

Next ==
    \/ create_user_address_space
    \/ \E r \in roots : destroy_user_address_space(r)
    \/ \E r \in roots, v \in UserPages : \/ unmap_user_page(r, v)
                                         \/ \E p \in Physical : map_user_page(r, v, p)
    \/ \E v \in KernelPages : unmap_page(v) \/ \E p \in Physical : map_page(v, p)
    \/ \E r \in roots \cup {KernelRoot} : switch_address_space(r)

Spec == Init /\ [][Next]_vars
-----------------------------------------------------------------------------
\* The table frames an address space reaches below the entries in I.
Reached(root, I) ==
    LET pds == {tables[root][i] : i \in I} \ {None}
    IN pds \cup ((UNION {{tables[d][i] : i \in Index} : d \in pds}) \ {None})
Own(root) == {root} \cup Reached(root, 0 .. KernelHalf - 1)
Shared == {KernelRoot} \cup Reached(KernelRoot, Index)

\* The trees are disjoint, no frame in use is free, and no frame is lost:
\* the frames are the free ones, the kernel's tables and each address
\* space's own, also after maps that ran out of frames half-way and after
\* address spaces were destroyed in any order.
FramesPartitioned ==
    /\ \A r \in roots : Own(r) \cap (free \cup Shared) = {}
    /\ \A r, q \in roots : r # q => Own(r) \cap Own(q) = {}
    /\ Shared \cap free = {}
    /\ TableFrames = free \cup Shared \cup UNION {Own(r) : r \in roots}

\* An address space sees a kernel page as the kernel does, or, when the
\* top-level entry was made after its creation, not at all: its copy of the
\* kernel entries never goes stale in another way.
KernelPagesAgree ==
    \A r \in roots, v \in KernelPages :
        tables[r][index(v, 2)] # None => Translate(tables, r, v) = Translate(tables, KernelRoot, v)

\* The page-table trees are disjoint and, with the free frames, make up all frames: no
\* map that ran out of frames half-way and no destruction loses or shares a table; and
\* the kernel's pages look the same from every address space that has them.
TablesPartitioned == FramesPartitioned /\ KernelPagesAgree

\* The user halves implement the abstract page maps: every call changes the
\* one page it names and no other, and a map that runs out of frames changes
\* nothing that can be observed.
PageMaps == INSTANCE PageMapSpec WITH
                Roots <- TableFrames, Pages <- UserPages, Unmapped <- None,
                space <- [r \in roots |-> [v \in UserPages |-> Translate(tables, r, v)]]
ImplementsPageMaps == PageMaps!Spec
=============================================================================

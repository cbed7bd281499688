--------------------------- MODULE FrameAllocator ---------------------------
(***************************************************************************)
(* The physical frame allocator (src/kernel/memory/frame_allocator.rs):    *)
(* a table of regions built from the boot memory map and carved by         *)
(* reservations, and a database with one state per frame derived from it.  *)
(*                                                                         *)
(* Addresses are bytes, PAGE_SIZE of them to a frame; a metadata entry     *)
(* takes one byte. Statistics are recomputed from regions and database by  *)
(* refresh_stats after every operation, so they are not state here.        *)
(***************************************************************************)
EXTENDS Integers, FiniteSets, SequencesExt

CONSTANTS MAX_REGIONS, PAGE_SIZE, None,
          BootMaps,      \* memory maps: sequences of [base, length, kind]
          BootOwned,     \* ranges the boot data names: same shape
          LateRanges     \* ranges reserved after initialisation

VARIABLES regions,       \* slot -> [start, end, kind] or None
          database,      \* frame -> state; the empty function before ingest
          initialized,
          boot,          \* history: the map and the ranges ingested
          late,          \* history: the ranges reserved afterwards
          held,          \* history: frames handed out and not returned
          dropped        \* history: add_region has found no slot

vars == <<regions, database, initialized, boot, late, held, dropped>>

Slots == 1 .. MAX_REGIONS
Frames == DOMAIN database
NoDatabase == [f \in {} |-> "Invalid"]

align_down(a) == a - (a % PAGE_SIZE)
align_up(a) == align_down(a + PAGE_SIZE - 1)
frame_index(a) == a \div PAGE_SIZE
ranges_overlap(r, start, end) == r.start < end /\ start < r.end

\* PhysicalRegionKind::from_boot.
from_boot(kind) ==
    CASE kind \in {"AcpiReclaimable", "AcpiNvs"} -> "Acpi"
      [] kind = "Framebuffer" -> "Mmio"
      [] kind = "KernelAndModules" -> "Kernel"
      [] kind \in {"Usable", "BootloaderReclaimable"} -> kind
      [] OTHER -> "Reserved"

state_for_kind(kind) == CASE kind = "Usable" -> "Free"
                          [] kind = "BootloaderReclaimable" -> kind
                          [] OTHER -> "Reserved"
-----------------------------------------------------------------------------
(* The region table. t is a record [regions, dropped].                     *)
FirstOf(S) == CHOOSE i \in S : \A j \in S : i <= j

\* The first neighbour of the same kind is extended, on one side only; else
\* the first free slot is taken; else the region is lost (callers ignore it).
add_region(t, r) ==
    LET joins(i) == /\ t.regions[i] # None
                    /\ t.regions[i].kind = r.kind
                    /\ t.regions[i].end = r.start \/ r.end = t.regions[i].start
        old == t.regions[FirstOf({i \in Slots : joins(i)})]
        joined == [start |-> IF old.end = r.start THEN old.start ELSE r.start,
                   end |-> IF old.end = r.start THEN r.end ELSE old.end, kind |-> old.kind]
        free == {i \in Slots : t.regions[i] = None}
    IN IF r.start = r.end THEN t
       ELSE IF \E i \in Slots : joins(i)
       THEN [t EXCEPT !.regions[FirstOf({i \in Slots : joins(i)})] = joined]
       ELSE IF free # {} THEN [t EXCEPT !.regions[FirstOf(free)] = r]
       ELSE [t EXCEPT !.dropped = TRUE]

\* One turn of the loop of reserve_range: the region in slot i gives way and
\* what sticks out on either side is added back.
Carve(t, i, start, end) ==
    LET r == t.regions[i]
        gone == [t EXCEPT !.regions[i] = None]
        before == IF r.start < start
                  THEN add_region(gone, [r EXCEPT !.end = start]) ELSE gone
    IN IF end < r.end THEN add_region(before, [r EXCEPT !.start = end]) ELSE before

ReservedFrom(start) == align_down(start)
ReservedTo(start, length) == align_up(start + length)

\* reserve_range on the region table. Only the slots that overlap the range
\* beforehand are carved: a piece that is added back overlaps it no more.
ReserveRegions(t, start, length, kind) ==
    LET s == ReservedFrom(start)
        e == ReservedTo(start, length)
        hit == {i \in Slots : t.regions[i] # None /\ ranges_overlap(t.regions[i], s, e)}
        carve(u, i) == Carve(u, i, s, e)
        carved == FoldLeft(carve, t, SetToSortSeq(hit, <))
    IN IF length = 0 THEN t
       ELSE add_region(carved, [start |-> s, end |-> e, kind |-> kind])

\* The frames of a range that are in the database, as mark_frame_range
\* visits them.
MarkedFrames(count, start, end) ==
    {f \in 0 .. count - 1 : frame_index(align_down(start)) <= f
                            /\ f < frame_index(align_up(end))}
-----------------------------------------------------------------------------
(* ingest_boot_info.                                                       *)
EntryRegion(e) ==
    LET kind == from_boot(e.kind)
        start == IF kind = "Usable" THEN align_up(e.base) ELSE align_down(e.base)
        end == IF kind = "Usable" THEN align_down(e.base + e.length)
               ELSE align_up(e.base + e.length)
    IN [start |-> start, end |-> end, kind |-> kind]

EntryRegions(map) ==
    LET add(t, e) == IF EntryRegion(e).start < EntryRegion(e).end
                     THEN add_region(t, EntryRegion(e)) ELSE t
    IN FoldLeft(add, [regions |-> [i \in Slots |-> None], dropped |-> FALSE], map)

FrameCount(map) ==
    frame_index(FoldLeft(LAMBDA max, e : IF align_up(e.base + e.length) > max
                                         THEN align_up(e.base + e.length) ELSE max, 0, map))

reserve_boot_owned_ranges(t, owned) ==
    FoldLeft(LAMBDA u, r : ReserveRegions(u, r.base, r.length, r.kind), t, owned)

\* Slots of usable regions with room for `bytes` of metadata.
find_metadata_range(t, bytes) ==
    {i \in Slots : /\ t.regions[i] # None
                   /\ t.regions[i].kind = "Usable"
                   /\ t.regions[i].end - t.regions[i].start >= align_up(bytes)}

\* Regions later in the table win where they overlap.
initialize_database(t, count) ==
    LET over(f) == {i \in Slots : t.regions[i] # None /\
                        f \in MarkedFrames(count, t.regions[i].start, t.regions[i].end)}
        last(f) == CHOOSE i \in over(f) : \A j \in over(f) : j <= i
    IN [f \in 0 .. count - 1 |->
            IF over(f) = {} THEN "Invalid" ELSE state_for_kind(t.regions[last(f)].kind)]

\* A failure leaves the regions behind and the allocator uninitialised.
IngestBootInfo(map, owned) ==
    LET count == FrameCount(map)
        t == reserve_boot_owned_ranges(EntryRegions(map), owned)
        room == find_metadata_range(t, count)
        at == t.regions[FirstOf(room)].start
        placed == ReserveRegions(t, at, count, "AllocatorMetadata")
        ok == count > 0 /\ room # {}
    IN /\ boot = <<>>
       /\ regions' = IF ok THEN placed.regions ELSE t.regions
       /\ dropped' = IF ok THEN placed.dropped ELSE t.dropped
       /\ database' = IF ok THEN initialize_database(placed, count) ELSE NoDatabase
       /\ initialized' = ok
       /\ boot' = <<map, owned \o (IF ok THEN <<[base |-> at, length |-> count,
                                                  kind |-> "AllocatorMetadata"]>> ELSE <<>>)>>
       /\ UNCHANGED <<late, held>>
-----------------------------------------------------------------------------
allocate_frame ==
    /\ initialized
    /\ \E f \in Frames : database[f] = "Free"
    /\ LET f == FirstOf({g \in Frames : database[g] = "Free"})
       IN /\ database' = [database EXCEPT ![f] = "Allocated"]
          /\ held' = held \cup {f}
    /\ UNCHANGED <<regions, initialized, boot, late, dropped>>

\* A refused call (double free, foreign frame) changes nothing.
free_frame(f) ==
    /\ initialized
    /\ database[f] = "Allocated"
    /\ database' = [database EXCEPT ![f] = "Free"]
    /\ held' = held \ {f}
    /\ UNCHANGED <<regions, initialized, boot, late, dropped>>

\* Mutant: the database is rebuilt from the carved regions.
RebuiltDatabase(t, r) == initialize_database(t, Cardinality(Frames))

ReservedDatabase(t, r) ==
    LET marked == MarkedFrames(Cardinality(Frames), ReservedFrom(r.base),
                               ReservedTo(r.base, r.length))
    IN [f \in Frames |-> IF f \in marked THEN state_for_kind(r.kind) ELSE database[f]]

\* reserve_physical_range after initialisation.
reserve_range(r) ==
    LET t == ReserveRegions([regions |-> regions, dropped |-> dropped],
                            r.base, r.length, r.kind)
    IN /\ initialized
       /\ r.length > 0
       /\ regions' = t.regions
       /\ dropped' = t.dropped
       /\ database' = ReservedDatabase(t, r)
       /\ late' = late \cup {r}
       /\ UNCHANGED <<initialized, boot, held>>

Init == /\ regions = [i \in Slots |-> None]
        /\ database = NoDatabase
        /\ initialized = FALSE
        /\ boot = <<>>
        /\ late = {}
        /\ held = {}
        /\ dropped = FALSE

Next == \/ \E map \in BootMaps, owned \in BootOwned : IngestBootInfo(map, owned)
        \/ allocate_frame
        \/ \E f \in Frames : free_frame(f)
        \/ \E r \in LateRanges : reserve_range(r)

Spec == Init /\ [][Next]_vars
-----------------------------------------------------------------------------
\* The bytes the allocator must not hand out: those of boot map entries that
\* are not usable, of the ranges the boot data names, of its own metadata,
\* and of the ranges reserved later.
Touches(f, base, length) == f * PAGE_SIZE < base + length /\ base < (f + 1) * PAGE_SIZE
Forbidden(f) ==
    \/ \E i \in DOMAIN boot[1] : /\ boot[1][i].kind # "Usable"
                                 /\ Touches(f, boot[1][i].base, boot[1][i].length)
    \/ \E i \in DOMAIN boot[2] : Touches(f, boot[2][i].base, boot[2][i].length)
    \/ \E r \in late : Touches(f, r.base, r.length)

\* Frames that lie in one usable entry of the boot map.
Usable(f) == \E i \in DOMAIN boot[1] :
                /\ boot[1][i].kind = "Usable"
                /\ boot[1][i].base <= f * PAGE_SIZE
                /\ (f + 1) * PAGE_SIZE <= boot[1][i].base + boot[1][i].length

\* Only frames that are usable memory to the last byte, and that no
\* reservation touches, are ever free or newly allocated, however the map is
\* misaligned, the ranges overlap and the region table overflows. A frame
\* handed out before a late reservation is the one exception: it is Reserved
\* then, and still held.
OnlyUsableIsFree ==
    \A f \in Frames : database[f] \in {"Free", "Allocated"} => Usable(f) /\ ~Forbidden(f)

\* No usable frame is lost while the region table has room: carving and
\* merging regions never forgets a piece.
NoFrameLeaks ==
    ~dropped => \A f \in Frames : Usable(f) /\ ~Forbidden(f) =>
                                    database[f] \in {"Free", "Allocated"}

\* A frame somebody holds is never in the free pool, so allocate_frame does
\* not hand it out twice: late reservations take it from its holder instead.
HeldIsNotFree == \A f \in held : database[f] # "Free"

\* While no region was dropped the live byte counts refresh_stats computes
\* from the regions describe the database: the free and allocated frames are
\* exactly the frames of usable regions.
RegionsMatchDatabase ==
    initialized /\ ~dropped =>
        \A f \in Frames : database[f] \in {"Free", "Allocated"} <=>
            \E i \in Slots : /\ regions[i] # None
                             /\ regions[i].kind = "Usable"
                             /\ ranges_overlap(regions[i], f * PAGE_SIZE, (f + 1) * PAGE_SIZE)
=============================================================================

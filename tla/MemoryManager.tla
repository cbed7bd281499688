---------------------------- MODULE MemoryManager ----------------------------
(***************************************************************************)
(* The kernel heap: MemoryManager of src/kernel/memory.rs (bump pointer,   *)
(* table of allocations, table of free regions) over the backing store     *)
(* that src/kernel/memory/heap.rs commits page by page.                    *)
(*                                                                         *)
(* Offsets are bytes of the heap. WORD is size_of::<usize>(), the unit     *)
(* malloc rounds to, and PAGE_SIZE the unit of mappings and of committed   *)
(* memory. A pointer is the offset it stands for. What bytes hold, and     *)
(* page protections, are left out.                                         *)
(***************************************************************************)
EXTENDS Integers, FiniteSetsExt, SequencesExt

CONSTANTS WORD, PAGE_SIZE, MAX_AREAS, None,
          Owners, Sizes, Aligns,   \* the requests that are made
          StaticBase, StaticBytes, \* the bootstrap heap
          VirtualBase, VirtualBytes, InitialCommit,
          FrameSupply              \* frames the physical allocator has

VARIABLES bump, allocations, free_regions, allocated_bytes, backing,
          heap_ready,              \* HEAP_LAYOUT is set
          frames_left,             \* external: free physical frames
          leaked,                  \* history: insert_free_region dropped one
          padding                  \* history: bytes skipped to align the bump

vars == <<bump, allocations, free_regions, allocated_bytes, backing, heap_ready,
          frames_left, leaked, padding>>

Slots == 1 .. MAX_AREAS
Region(o, s) == [offset |-> o, size |-> s]
End(r) == r.offset + r.size
First(S) == CHOOSE i \in S : \A j \in S : i <= j

\* The only element of S: The({F(x) : x \in {e}}) is F(e), with e computed once.
The(S) == CHOOSE x \in S : TRUE

BaseAddress(b) == CASE b.mode = "Static" -> StaticBase
                    [] b.mode = "Virtual" -> VirtualBase
                    [] OTHER -> 0
Capacity(b) == CASE b.mode = "Static" -> StaticBytes
                 [] b.mode = "Virtual" -> VirtualBytes
                 [] OTHER -> 0

align_up(v, a) == a * ((v + a - 1) \div a)

\* Mutant: the base address is taken to be aligned.
aligned_heap_offset_flat(base, minimum, align) == align_up(minimum, align)

\* The offset, not below minimum, at which the address is aligned; the sum of
\* the two remainders is formed without overflowing.
aligned_heap_offset(base, minimum, align) ==
    LET b == base % align
        o == minimum % align
        current == IF o = 0 THEN b
                   ELSE IF b >= align - o THEN b - (align - o) ELSE b + o
    IN minimum + ((align - current) % align)
-----------------------------------------------------------------------------
(* The manager's state as a record m = [bump, allocations, free_regions,   *)
(* allocated_bytes, backing, frames_left, leaked,                          *)
State == [bump |-> bump, allocations |-> allocations, free_regions |-> free_regions,
          allocated_bytes |-> allocated_bytes, backing |-> backing,
          frames_left |-> frames_left, leaked |-> leaked, padding |-> padding]

Become(result) ==
    \E m \in {result} :
       /\ bump' = m.bump
       /\ allocations' = m.allocations
       /\ free_regions' = m.free_regions
       /\ allocated_bytes' = m.allocated_bytes
       /\ backing' = m.backing
       /\ frames_left' = m.frames_left
       /\ leaked' = m.leaked
       /\ padding' = m.padding
       /\ UNCHANGED heap_ready

\* One pass over the slots: every neighbour met is absorbed, so a neighbour
\* of the merged region that the pass has left behind stays on its own.
Absorb(acc, i) ==
    LET r == acc.free[i]
        n == acc.region
    IN IF r = None THEN acc
       ELSE IF End(r) = n.offset
       THEN [free |-> [acc.free EXCEPT ![i] = None], region |-> Region(r.offset, r.size + n.size)]
       ELSE IF End(n) = r.offset
       THEN [free |-> [acc.free EXCEPT ![i] = None], region |-> Region(n.offset, n.size + r.size)]
       ELSE acc

\* The merged region in the first open slot, or lost.
Filed(m, merged) ==
    LET open == {i \in Slots : merged.free[i] = None}
    IN IF open = {} THEN [m EXCEPT !.leaked = TRUE]
       ELSE [m EXCEPT !.free_regions = [merged.free EXCEPT ![First(open)] = merged.region]]

insert_free_region(m, region) ==
    IF region.size = 0 THEN m
    ELSE The({Filed(m, merged) :
                merged \in {FoldLeft(Absorb, [free |-> m.free_regions, region |-> region],
                                     [i \in Slots |-> i])}})

\* reserve_from_free_list and then the bump pointer: [m, offset], with offset
\* None when there is no room.
reserve(m, size, align) ==
    LET at(o) == aligned_heap_offset(BaseAddress(m.backing), o, align)
        fits == {i \in Slots : /\ m.free_regions[i] # None
                               /\ at(m.free_regions[i].offset) + size <= End(m.free_regions[i])}
        i == First(fits)
        r == m.free_regions[i]
        taken == [m EXCEPT !.free_regions[i] = None]
        before == insert_free_region(taken, Region(r.offset, at(r.offset) - r.offset))
        end == at(m.bump) + size
    IN IF fits # {}
       THEN [m |-> The({insert_free_region(b, Region(at(r.offset) + size,
                                                     End(r) - at(r.offset) - size)) :
                          b \in {before}}),
             offset |-> at(r.offset)]
       ELSE IF end <= Capacity(m.backing)
       THEN [m |-> [m EXCEPT !.bump = end, !.padding = @ + at(m.bump) - m.bump], offset |-> at(m.bump)]
       ELSE [m |-> m, offset |-> None]

\* heap::grow_committed with commit_range: pages are committed one by one and
\* rolled back when the frames run out, so a failure commits nothing. A store
\* that need not grow takes the layout as it is.
grow_committed(m, target) ==
    LET more == (target - m.backing.committed) \div PAGE_SIZE
    IN IF target <= m.backing.committed THEN m
       ELSE IF target > VirtualBytes \/ more > m.frames_left THEN None
       ELSE [m EXCEPT !.backing.committed = target,
                      !.backing.frames = @ + more,
                      !.frames_left = @ - more]

ensure_backing(m, offset, size) ==
    CASE m.backing.mode = "Static" -> m
      [] m.backing.mode = "Disabled" -> None
      [] OTHER -> IF offset + size > VirtualBytes THEN None
                  ELSE grow_committed(m, align_up(offset + size, PAGE_SIZE))

GiveBack(m, offset, size) == insert_free_region(m, Region(offset, size))

\* The block r reserved and b, the manager once it has pages: it is recorded, or given
\* back when there are no pages or no record is free.
Recorded(r, b, owner, size, kind) ==
    LET open == {i \in Slots : b.allocations[i] = None}
        record == [owner |-> owner, offset |-> r.offset, size |-> size, kind |-> kind]
    IN IF b = None THEN [m |-> GiveBack(r.m, r.offset, size), offset |-> None]
       ELSE IF open = {} THEN [m |-> GiveBack(b, r.offset, size), offset |-> None]
       ELSE [m |-> [b EXCEPT !.allocations[First(open)] = record,
                             !.allocated_bytes = @ + size],
             offset |-> r.offset]

Backed(r, owner, size, kind) ==
    IF r.offset = None THEN r
    ELSE The({Recorded(r, b, owner, size, kind) : b \in {ensure_backing(r.m, r.offset, size)}})

\* The common part of malloc_for, malloc_aligned_for and mmap_for. The
\* result is the manager, and the offset or None.
Allocate(m, owner, size, align, kind) ==
    The({Backed(r, owner, size, kind) : r \in {reserve(m, size, align)}})

Held(m, owner, offset) ==
    {i \in Slots : /\ m.allocations[i] # None
                   /\ m.allocations[i].owner = owner
                   /\ m.allocations[i].offset = offset}

\* release: the first record at this offset, if it has the kind and at least
\* the length asked for. A pointer outside the present store is unknown: a
\* disabled heap takes nothing back.
release(m, owner, offset, kind, minimum) ==
    LET i == First(Held(m, owner, offset))
        r == m.allocations[i]
        gone == [m EXCEPT !.allocations[i] = None]
    IN IF offset >= Capacity(m.backing) \/ Held(m, owner, offset) = {}
          \/ r.kind # kind \/ r.size < minimum THEN m
       ELSE [insert_free_region(gone, Region(r.offset, r.size))
               EXCEPT !.allocated_bytes = @ - r.size]
-----------------------------------------------------------------------------
malloc_for(owner, size) == Become(Allocate(State, owner, align_up(size, WORD), WORD, "Heap").m)

malloc_aligned_for(owner, size, align) ==
    Become(Allocate(State, owner, align_up(size, WORD),
                    IF align > WORD THEN align ELSE WORD, "Heap").m)

mmap_for(owner, length) ==
    Become(Allocate(State, owner, align_up(length, PAGE_SIZE), PAGE_SIZE, "Mapping").m)

free_for(owner, offset) == Become(release(State, owner, offset, "Heap", 0))

munmap_ptr_for(owner, offset, length) == Become(release(State, owner, offset, "Mapping", length))

\* The in-place case of realloc_for.
Shrunk(m, i, size) ==
    LET r == m.allocations[i]
        left == r.size - size
    IN [insert_free_region(m, Region(r.offset + size, left))
          EXCEPT !.allocated_bytes = @ - left, !.allocations[i].size = size]

\* realloc_for with a pointer and a size: in place, or a new block and then
\* the old one freed. A failed allocation leaves the old block alone.
realloc_for(owner, offset, size) ==
    LET i == First(Held(State, owner, offset))
        moved == {IF new.offset = None THEN new.m ELSE release(new.m, owner, offset, "Heap", 0) :
                    new \in {Allocate(State, owner, align_up(size, WORD), WORD, "Heap")}}
    IN /\ offset < Capacity(backing)
       /\ Held(State, owner, offset) # {}
       /\ allocations[i].kind = "Heap"
       /\ Become(IF align_up(size, WORD) <= allocations[i].size
                 THEN Shrunk(State, i, align_up(size, WORD))
                 ELSE The(moved))

\* Slot by slot, so that the freed regions merge in table order.
release_process(owner) ==
    LET drop(m, i) ==
            LET r == m.allocations[i]
            IN IF r = None \/ r.owner # owner THEN m
               ELSE [insert_free_region([m EXCEPT !.allocations[i] = None],
                                        Region(r.offset, r.size))
                       EXCEPT !.allocated_bytes = @ - r.size]
    IN Become(FoldLeft(drop, State, [i \in Slots |-> i]))

\* initialize_from_boot_info: the virtual heap replaces the static one only
\* while nothing has been allocated; a failed initialisation disables it.
promote_to_virtual_heap ==
    /\ ~heap_ready
    /\ backing.mode = "Static"
    /\ frames_left * PAGE_SIZE >= InitialCommit
    /\ IF allocated_bytes # 0 \/ bump # 0 THEN UNCHANGED backing
       ELSE backing' = [mode |-> "Virtual", committed |-> InitialCommit,
                        frames |-> InitialCommit \div PAGE_SIZE]
    /\ heap_ready' = TRUE
    /\ frames_left' = frames_left - (InitialCommit \div PAGE_SIZE)
    /\ UNCHANGED <<bump, allocations, free_regions, allocated_bytes, leaked, padding>>

disable_static_heap ==
    /\ ~heap_ready
    /\ backing.mode = "Static"
    /\ backing' = [backing EXCEPT !.mode = "Disabled"]
    /\ UNCHANGED <<bump, allocations, free_regions, allocated_bytes, heap_ready, frames_left,
                   leaked, padding>>

Init == /\ bump = 0
        /\ allocations = [i \in Slots |-> None]
        /\ free_regions = [i \in Slots |-> None]
        /\ allocated_bytes = 0
        /\ backing = [mode |-> "Static", committed |-> 0, frames |-> 0]
        /\ heap_ready = FALSE
        /\ frames_left = FrameSupply
        /\ leaked = FALSE
        /\ padding = 0

Offsets == {allocations[i].offset : i \in {j \in Slots : allocations[j] # None}}

Next ==
    \/ promote_to_virtual_heap
    \/ disable_static_heap
    \/ \E o \in Owners :
        \/ \E s \in Sizes : malloc_for(o, s)
        \/ \E s \in Sizes, a \in Aligns : malloc_aligned_for(o, s, a)
        \/ \E s \in Sizes : mmap_for(o, s)
        \/ \E p \in Offsets : free_for(o, p)
        \/ \E p \in Offsets, s \in Sizes : munmap_ptr_for(o, p, s)
        \/ \E p \in Offsets, s \in Sizes : realloc_for(o, p, s)
        \/ release_process(o)

Spec == Init /\ [][Next]_vars
-----------------------------------------------------------------------------
Live == {i \in Slots : allocations[i] # None}
Spare == {i \in Slots : free_regions[i] # None}
TotalSize(table, I) == FoldSet(LAMBDA i, sum : sum + table[i].size, 0, I)
Apart(r, s) == End(r) <= s.offset \/ End(s) <= r.offset

\* No byte of the heap is in two live blocks, nor in a live block and on the
\* free list, nor on the free list twice, through any sequence of calls and
\* failures (full tables, exhausted frames, shrinking and growing blocks).
BlocksApart ==
    /\ \A i, j \in Live : i # j => Apart(allocations[i], allocations[j])
    /\ \A i, j \in Spare : i # j => Apart(free_regions[i], free_regions[j])
    /\ \A i \in Live, j \in Spare : Apart(allocations[i], free_regions[j])
    /\ \A i \in Live : End(allocations[i]) <= bump
    /\ \A i \in Spare : End(free_regions[i]) <= bump

\* The statistics count exactly the bytes of the live blocks: the saturating
\* subtraction of update_stats_on_free never hides a mismatch.
StatisticsExact ==
    allocated_bytes = TotalSize(allocations, Live)

\* Every live block of the virtual heap lies in committed pages, although a
\* region that failed to be committed goes to the free list and is handed out
\* from there again.
LiveIsCommitted ==
    backing.mode = "Virtual" => \A i \in Live : End(allocations[i]) <= backing.committed

\* Each committed page has exactly one frame: a failed growth returns all it
\* took.
FramesMatchPages ==
    backing.mode = "Virtual" => /\ backing.committed = backing.frames * PAGE_SIZE
                                /\ backing.frames + frames_left = FrameSupply

\* The address of every block is aligned as its kind requires, although the
\* base of the static heap need not be aligned at all.
BlocksAligned ==
    \A i \in Live : (BaseAddress(backing) + allocations[i].offset) %
        (IF allocations[i].kind = "Mapping" THEN PAGE_SIZE ELSE WORD) = 0
        \/ backing.mode = "Disabled"

\* No byte is lost while every free region finds a slot: live blocks, free
\* regions and the padding in front of blocks the bump pointer made add up to
\* the bump pointer, whichever step of an allocation fails.
BytesConserved ==
    ~leaked => bump = padding + TotalSize(allocations, Live) + TotalSize(free_regions, Spare)

=============================================================================

------------------------------ MODULE MCMemory ------------------------------
(***************************************************************************)
(* The four layers of memory management and the program loaders, each on a *)
(* small machine of its own: `part` says which one this behaviour          *)
(* exercises; the others rest.                                             *)
(***************************************************************************)
EXTENDS Paging

CONSTANTS own1, own2

VARIABLES part,
          regions, database, initialized, boot, late, held, dropped,      \* FrameAllocator
          bump, allocations, free_regions, allocated_bytes, backing,      \* MemoryManager
          heap_ready, frames_left, leaked, padding,
          spaces, mappings, ptes, owned, proc, used, abandoned,           \* AddressSpaces
          program, imageRoots, execs                                        \* Loader

frameVars == <<regions, database, initialized, boot, late, held, dropped>>
heapVars == <<bump, allocations, free_regions, allocated_bytes, backing, heap_ready,
              frames_left, leaked, padding>>
spaceVars == <<spaces, mappings, ptes, owned, proc, used, abandoned>>
loadVars == <<program, imageRoots, execs>>

Entry(base, length, kind) == [base |-> base, length |-> length, kind |-> kind]

\* Eight frames of four bytes: aligned and unaligned boundaries, adjacent usable
\* entries, a hole, and entries of which the page rounding leaves nothing.
Maps ==
    { <<Entry(0, 20, "Usable"), Entry(20, 4, "AcpiNvs"), Entry(24, 8, "Usable")>>,
      <<Entry(0, 3, "BadMemory"), Entry(3, 14, "Usable"), Entry(17, 2, "BootloaderReclaimable"),
        Entry(19, 13, "Usable")>>,
      <<Entry(0, 16, "Usable"), Entry(16, 12, "Usable"), Entry(28, 4, "KernelAndModules")>>,
      <<Entry(4, 3, "Usable"), Entry(8, 24, "Reserved")>>,
      <<>> }
BootData ==
    { <<>>,
      <<Entry(9, 2, "Kernel"), Entry(6, 1, "Module")>>,
      <<Entry(4, 4, "Kernel"), Entry(12, 10, "Mmio"), Entry(10, 3, "Kernel")>> }
Late == { Entry(7, 2, "Mmio"), Entry(24, 4, "Reserved"), Entry(20, 5, "Acpi") }

Pmm == INSTANCE FrameAllocator WITH
    MAX_REGIONS <- 4, PAGE_SIZE <- 4, BootMaps <- Maps, BootOwned <- BootData, LateRanges <- Late
Heap == INSTANCE MemoryManager WITH
    WORD <- 2, PAGE_SIZE <- 4, MAX_AREAS <- 2, Owners <- {own1, own2}, Sizes <- {2, 6}, Aligns <- {4},
    StaticBase <- 3, StaticBytes <- 8, VirtualBase <- 16, VirtualBytes <- 16,
    InitialCommit <- 4, FrameSupply <- 2
Spaces == INSTANCE AddressSpaces WITH
    MAX_SPACES <- 3, MAX_MAPPINGS <- 4, Pids <- 1 .. 4, Roots <- 101 .. 103, Pages <- {0, 1},
    Regions <- 11 .. 15, regions <- owned

\* Pages of eight bytes, words of two, 64 addresses, the stack at 32 .. 55. Segments that
\* start in the middle of a page, cross one, share one, end at the limit, lie in the
\* stack, are empty; and each of the reasons to refuse one.
Segment(flags, offset, vaddr, filesz, memsz, align) ==
    [kind |-> "LOAD", flags |-> flags, offset |-> offset, vaddr |-> vaddr,
     filesz |-> filesz, memsz |-> memsz, align |-> align]
Note == [Segment({}, 99, 70, 9, 0, 0) EXCEPT !.kind = "NOTE"]
RX == {"R", "X"}
RW == {"R", "W"}
Text == Segment(RX, 3, 11, 6, 9, 8)
PageOfText == Segment(RX, 0, 8, 8, 8, 8)
Data == Segment(RW, 8, 24, 2, 8, 8)
Layouts ==
    { <<Text>>, <<PageOfText, Data>>, <<Text, Note, Data>>,
      <<Text, Segment(RW, 4, 20, 3, 3, 4)>>,      \* on a page of Text
      <<Text, Segment(RW, 2, 58, 2, 6, 8)>>,      \* up to the limit
      <<Text, Segment(RW, 2, 50, 2, 8, 8)>>,      \* beyond it once relocated
      <<Text, Segment(RW, 0, 40, 1, 4, 8)>>,      \* in the stack
      <<Text, Segment(RW, 0, 32, 1, 24, 8)>>,     \* all of it
      <<Text, Segment(RW, 0, 24, 0, 0, 8)>>, <<Text, Segment({"W"}, 1, 25, 0, 0, 1)>>,
      <<Text, Segment(RW, 0, 24, 4, 2, 8)>>, <<Text, Segment(RW, 8, 24, 9, 9, 8)>>,
      <<Text, Segment(RW, 8, 25, 1, 1, 8)>>, <<Segment(RX, 3, 11, 6, 9, 0)>>,
      <<Data>>, <<Note>>, <<>>, <<PageOfText, Data, Note, Note>>, <<PageOfText, Text, Data>> }
Image(type, entry, phdrs) ==
    [type |-> type, entry |-> entry, phdrs |-> phdrs, phoff |-> 2, size |-> 16, readable |-> 16,
     ident |-> TRUE, regular |-> TRUE, executable |-> TRUE, authorized |-> TRUE, exists |-> TRUE]
Good == Image("EXEC", 12, <<Text, Data>>)
Broken == { [Good EXCEPT !.size = 1], [Good EXCEPT !.ident = FALSE], [Good EXCEPT !.type = "REL"],
            [Good EXCEPT !.phoff = 15], [Good EXCEPT !.readable = 3], [Good EXCEPT !.readable = 8],
            [Good EXCEPT !.regular = FALSE], [Good EXCEPT !.executable = FALSE],
            [Good EXCEPT !.authorized = FALSE], Image("DYN", 60, <<Text>>) }
ExecImages == Broken \cup {Image(t, 12, l) : t \in {"EXEC", "DYN"}, l \in Layouts}
Arguments(argv, envp) == [argv |-> argv, envp |-> envp]
Missing == [Good EXCEPT !.exists = FALSE]
Unrelocatable == Image("DYN", 60, <<Text>>)

Programs == INSTANCE Loader WITH
    proc <- program, spaces <- imageRoots,
    PAGE_SIZE <- 8, WORD <- 2, USER_CANONICAL_LIMIT <- 64, PIE_LOAD_BASE <- 8,
    USER_STACK_BASE <- 32, USER_STACK_SIZE <- 24, USER_STACK_TOP <- 56, Pid1StackSize <- 20,
    ELF_HEADER_SIZE <- 2, MAX_PROGRAM_HEADERS <- 3, MAX_SEGMENTS <- 2,
    MAX_EXEC_ARGS <- 2, MAX_PATH_BYTES <- 5, Pid1Name <- 4, MAX_SPACES <- 2, MaxExecs <- 1,
    Images <- ExecImages,
    Pid1Images <- Broken \cup {Image("EXEC", 12, l) : l \in Layouts}
                         \cup {[Good EXCEPT !.entry = 0], [Good EXCEPT !.entry = 24]},
    Disks <- { <<Missing, Good>>, <<Unrelocatable, [Good EXCEPT !.authorized = FALSE], Good>>,
               <<Unrelocatable, Unrelocatable, Unrelocatable, Good>>, <<Missing, Unrelocatable>> },
    Vectors <- { Arguments(<<>>, <<>>), Arguments(<<0, 2>>, <<1>>),    \* fills the stack
                 Arguments(<<5>>, <<4>>), Arguments(<<6>>, <<>>), Arguments(<<>>, <<1, 0, 0>>) },
    Supplies <- {1, 9}

MCInit == /\ part \in {"frames", "heap", "tables", "spaces", "programs"}
          /\ Pmm!Init /\ Heap!Init /\ Init /\ Spaces!Init /\ Programs!Init

MCNext ==
    /\ UNCHANGED part
    /\ \/ part = "frames" /\ Pmm!Next /\ UNCHANGED <<heapVars, vars, spaceVars, loadVars>>
       \/ part = "heap" /\ Heap!Next /\ UNCHANGED <<frameVars, vars, spaceVars, loadVars>>
       \/ part = "tables" /\ Next /\ UNCHANGED <<frameVars, heapVars, spaceVars, loadVars>>
       \/ part = "spaces" /\ Spaces!Next /\ UNCHANGED <<frameVars, heapVars, vars, loadVars>>
       \/ part = "programs" /\ Programs!Next /\ UNCHANGED <<frameVars, heapVars, vars, spaceVars>>

MCSpec == MCInit /\ [][MCNext]_<<part, frameVars, heapVars, vars, spaceVars, loadVars>>

\* However the boot map is misaligned, the ranges overlap and the region table
\* overflows: only whole usable frames that no reservation touches are handed out, none
\* twice, none is lost while the table has room, and the byte counts computed from the
\* regions describe the frame database.
FramesAccounted ==
    part = "frames" =>
    /\ Pmm!OnlyUsableIsFree /\ Pmm!HeldIsNotFree
    /\ Pmm!NoFrameLeaks /\ Pmm!RegionsMatchDatabase

\* Through every sequence of calls and failures: no byte of the heap is in two blocks or
\* free twice, every live block is aligned and lies in committed pages with one frame
\* each, and blocks, free regions and padding add up to the bump pointer.
HeapSound ==
    part = "heap" =>
    /\ Heap!BlocksApart /\ Heap!BlocksAligned /\ Heap!LiveIsCommitted
    /\ Heap!FramesMatchPages /\ Heap!BytesConserved /\ Heap!StatisticsExact

\* Through forks, shared clones, execs, exits and every failure half-way, a process that
\* has not lost its shared root keeps page tables, each page it reaches is backed by a
\* region still allocated for it, and processes with different roots share no memory.
SpacesIsolated ==
    part = "spaces" => Spaces!RootsReferenced /\ Spaces!PagesBacked /\ Spaces!Isolated

\* Whatever the headers, the arguments and the point of failure: a program starts with
\* every segment that has its pages for itself where the file wants it, an entry it can
\* execute, nothing else mapped and a whole stack, and an exec that fails leaves the
\* caller its program.
ProgramsLoaded ==
    /\ [](part = "programs" => Programs!LoadedAsLinked)
    /\ [][part = "programs" => Programs!FailureChangesNothing]_loadVars
=============================================================================

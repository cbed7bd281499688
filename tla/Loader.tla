------------------------------- MODULE Loader -------------------------------
(***************************************************************************)
(* Program loading: the ELF loader of execve (src/kernel/elf.rs), the      *)
(* stricter one of the first process (src/kernel/userspace/elf_loader.rs   *)
(* and the PID 1 path of src/kernel/mod.rs), and the initial stacks that   *)
(* both of them build.                                                     *)
(*                                                                         *)
(* An address space says what the processor sees at an address (cells) and *)
(* what the table of user mappings says (maps). The bytes of a file are    *)
(* named by their offsets, those of an argument by its number. The heap    *)
(* may refuse a mapping at any point (supply), and a file may turn out     *)
(* shorter than its inode says (readable). AddressSpaces has the sharing   *)
(* and the reference counts of the roots, SecurityKernel authorize_exec.   *)
(***************************************************************************)
EXTENDS Integers, SequencesExt, TLC

CONSTANTS PAGE_SIZE, WORD, USER_CANONICAL_LIMIT, PIE_LOAD_BASE,
          USER_STACK_BASE, USER_STACK_SIZE,       \* of execve
          USER_STACK_TOP, Pid1StackSize,          \* of PID 1
          ELF_HEADER_SIZE, MAX_PROGRAM_HEADERS, MAX_SEGMENTS,
          MAX_EXEC_ARGS, MAX_PATH_BYTES, Pid1Name,   \* Pid1Name: the length of argv[0]
          MAX_SPACES, MaxExecs,                   \* MaxExecs bounds the calls of execve
          Images, Pid1Images, Disks,              \* Disks: what the init candidates are
          Vectors,                                \* [argv, envp], the lengths of the strings
          Supplies, None

VARIABLES proc,      \* the program of the process, or None
          spaces,    \* registered root -> address space
          execs

vars == <<proc, spaces, execs>>

Zero == [of |-> "zero", at |-> 0, idx |-> 0]
AlignDown(a, n) == a - (a % n)
AlignUp(a, n) == AlignDown(a + n - 1, n)
PowerOfTwo(n) == \E k \in 0 .. 6 : n = 2 ^ k
With(f, x, y) == [z \in DOMAIN f \cup {x} |-> IF z = x THEN y ELSE f[z]]
Without(f, x) == [z \in DOMAIN f \ {x} |-> f[z]]
Overlay(f, g) == [z \in DOMAIN f \cup DOMAIN g |-> IF z \in DOMAIN g THEN g[z] ELSE f[z]]

EmptySpace == [cells |-> [a \in {} |-> None], maps |-> <<>>]
NoSpaces == [r \in {} |-> EmptySpace]
FreeRoots(sps) == 1 .. MAX_SPACES \ DOMAIN sps
NewRoot(sps) == CHOOSE r \in FreeRoots(sps) : \A q \in FreeRoots(sps) : r <= q

\* A fixed mapping, zeroed by its caller and filled with bytes; mmap_user_fixed itself
\* replaces what was mapped there and leaves its record.
CanMap(at, len) == len # 0 /\ at % PAGE_SIZE = 0 /\ at + len <= USER_CANONICAL_LIMIT
mmap_user_fixed(space, at, len, prot, bytes) ==
    LET pages == at .. at + AlignUp(len, PAGE_SIZE) - 1
    IN [cells |-> Overlay(space.cells, [a \in pages |->
                     [prot |-> prot, byte |-> IF a \in DOMAIN bytes THEN bytes[a] ELSE Zero]]),
        maps |-> Append(space.maps, [start |-> at, end |-> at + AlignUp(len, PAGE_SIZE), prot |-> prot])]

NoBytes == [a \in {} |-> Zero]
FileBytes(ph, at) ==
    [a \in at .. at + ph.filesz - 1 |-> [of |-> "file", at |-> ph.offset + (a - at), idx |-> 0]]

-----------------------------------------------------------------------------
(* A stack under construction: [sp, bytes, ok]. An error ends the load.    *)

PushAll(base, st, values) ==
    LET sp == st.sp - Len(values) * WORD
        words == [a \in sp .. st.sp - 1 |->
                    [of |-> "word", at |-> values[Len(values) - (a - sp) \div WORD], idx |-> (a - sp) % WORD]]
    IN [sp |-> sp, ok |-> st.ok /\ sp >= base, bytes |-> Overlay(st.bytes, words)]

\* A string is looked at up to its terminator, which must be among the first bytes.
user_cstr(len) == len <= MAX_PATH_BYTES

\* The strings of a vector, below each other, each with its terminator.
copy_vector_strings(st, name, lengths) ==
    LET copied[i \in 0 .. Len(lengths)] ==
          IF i = 0 THEN [st |-> st, ptrs |-> <<>>] ELSE
            LET acc == copied[i - 1]
                sp == acc.st.sp - (lengths[i] + 1)
                text == [a \in sp .. sp + lengths[i] |->
                           IF a = sp + lengths[i] THEN Zero
                           ELSE [of |-> name, at |-> i, idx |-> a - sp]]
            IN [st |-> [sp |-> sp, bytes |-> Overlay(acc.st.bytes, text),
                        ok |-> acc.st.ok /\ user_cstr(lengths[i]) /\ sp >= USER_STACK_BASE],
                ptrs |-> Append(acc.ptrs, sp)]
    IN copied[Len(lengths)]

\* What finish pushes, from the auxiliary vector at the top down to argc.
finish(argv_ptrs, envp_ptrs) ==
    <<0, 0, 0>> \o Reverse(envp_ptrs) \o <<0>> \o Reverse(argv_ptrs) \o <<Len(argv_ptrs)>>

InitialStackBuilder(argv, envp) ==
    LET new == [sp |-> USER_STACK_BASE + USER_STACK_SIZE, bytes |-> NoBytes, ok |-> TRUE]
        a == copy_vector_strings(new, "argv", argv)
        e == copy_vector_strings(a.st, "envp", envp)
    IN PushAll(USER_STACK_BASE, [e.st EXCEPT !.sp = AlignDown(@, 2 * WORD)], finish(a.ptrs, e.ptrs))

MapStack(space, bottom, size, st) ==
    [ok |-> st.ok, sp |-> st.sp, space |-> mmap_user_fixed(space, bottom, size, {"R", "W"}, st.bytes)]

\* build_initial_stack on top of the segments: [ok, space, sp].
build_initial_stack(segments, argv, envp) ==
    IF segments.ok /\ segments.saw_load /\ segments.executable /\ segments.supply > 0
    THEN MapStack(segments.space, USER_STACK_BASE, USER_STACK_SIZE, InitialStackBuilder(argv, envp))
    ELSE [ok |-> FALSE]

-----------------------------------------------------------------------------
(* execve.                                                                 *)

relocated_address(a, type) == IF type = "DYN" THEN PIE_LOAD_BASE + a ELSE a
Relocatable(a, type) == type = "DYN" => PIE_LOAD_BASE + a < USER_CANONICAL_LIMIT

\* A read that the file is too short for is an error.
read_exact(image, offset, len) == offset + len <= image.readable

read_elf_header(image) ==
    /\ image.size >= ELF_HEADER_SIZE /\ read_exact(image, 0, ELF_HEADER_SIZE)
    /\ image.ident /\ image.type \in {"EXEC", "DYN"}
    /\ Len(image.phdrs) \in 1 .. MAX_PROGRAM_HEADERS
    /\ image.phoff + Len(image.phdrs) <= image.size

validate_load_header(ph, size) ==
    /\ ph.memsz >= ph.filesz /\ PowerOfTwo(ph.align)
    /\ ph.vaddr % ph.align = ph.offset % ph.align
    /\ ph.offset + ph.filesz <= size
    /\ ph.vaddr + ph.memsz < USER_CANONICAL_LIMIT

\* One program header after the other: [ok, space, supply, saw_load, executable].
load_elf_segments(image, supply) ==
    LET entry == relocated_address(image.entry, image.type)
        after[k \in 0 .. Len(image.phdrs)] ==
          IF k = 0 THEN [ok |-> TRUE, space |-> EmptySpace, supply |-> supply,
                         saw_load |-> FALSE, executable |-> FALSE] ELSE
            LET acc == after[k - 1]
                ph == image.phdrs[k]
                at == relocated_address(ph.vaddr, image.type)
                start == AlignDown(at, PAGE_SIZE)
                len == AlignUp((at - start) + ph.memsz, PAGE_SIZE)
            IN IF ~acc.ok \/ ~read_exact(image, image.phoff + k - 1, 1) THEN [acc EXCEPT !.ok = FALSE]
               ELSE IF ph.kind # "LOAD" THEN acc
               ELSE IF \/ ~validate_load_header(ph, image.size) \/ ~Relocatable(ph.vaddr, image.type)
                       \/ ~CanMap(start, len) \/ acc.supply = 0
                       \/ (ph.filesz # 0 /\ ~read_exact(image, ph.offset, ph.filesz))
               THEN [acc EXCEPT !.ok = FALSE]
               ELSE [acc EXCEPT !.space = mmap_user_fixed(@, start, len, ph.flags, FileBytes(ph, at)),
                                !.supply = @ - 1,
                                !.saw_load = TRUE,
                                !.executable = @ \/ ("X" \in ph.flags /\ entry \in at .. at + ph.memsz - 1)]
    IN after[Len(image.phdrs)]

\* [ok, kept, space, entry, sp], sps being the registered roots. An entry that cannot be
\* relocated is noticed when the address space is there, and leaves it behind (kept); a
\* later error gives it back.
load_exec_image(sps, image, argv, envp, supply) ==
    LET created == /\ image.regular /\ image.executable /\ read_elf_header(image)
                   /\ FreeRoots(sps) # {}
    IN IF created /\ Relocatable(image.entry, image.type)
       THEN build_initial_stack(load_elf_segments(image, supply), argv, envp)
            @@ [kept |-> FALSE, entry |-> relocated_address(image.entry, image.type)]
       ELSE [ok |-> FALSE, kept |-> created]

Program(root, image, loaded, argv, envp, how) ==
    [root |-> root, entry |-> loaded.entry, sp |-> loaded.sp, image |-> image,
     argv |-> argv, envp |-> envp, how |-> how]

\* exec_task after load_exec_image, on st = [proc, spaces]: the new image is complete, and
\* the request authorized, before the old root goes. A refused request leaves the new
\* root registered.
exec_task(st, image, argv, envp, loaded) ==
    LET root == NewRoot(st.spaces)
        replaced == With(st.spaces, root, loaded.space)
    IN CASE loaded.ok /\ image.authorized ->
              [proc |-> Program(root, image, loaded, argv, envp, "execve"),
               spaces |-> IF st.proc = None THEN replaced ELSE Without(replaced, st.proc.root)]
         [] loaded.ok /\ ~image.authorized -> [st EXCEPT !.spaces = replaced]
         [] loaded.kept -> [st EXCEPT !.spaces = With(@, root, EmptySpace)]
         [] OTHER -> st
Exec(st, image, argv, envp, supply) ==
    exec_task(st, image, argv, envp, load_exec_image(st.spaces, image, argv, envp, supply))

Become(result) == \E st \in {result} : proc' = st.proc /\ spaces' = st.spaces

\* A vector with more than MAX_EXEC_ARGS pointers is truncated.
exec_vector_metadata(vector) == [truncated |-> Len(vector) > MAX_EXEC_ARGS]

\* Truncated vectors are refused before anything is loaded.
syscall_execve(image, argv, envp, supply) ==
    /\ proc # None /\ execs < MaxExecs /\ execs' = execs + 1
    /\ ~exec_vector_metadata(argv).truncated /\ ~exec_vector_metadata(envp).truncated
    /\ Become(Exec([proc |-> proc, spaces |-> spaces], image, argv, envp, supply))

\* exec_bootstrap_path, unless an earlier candidate runs.
Try(st, image, supply) ==
    IF st.proc # None \/ ~image.exists THEN st ELSE Exec(st, image, <<>>, <<>>, supply)

\* bootstrap_userspace_init: a process without a root takes the first candidate that
\* loads; when none does it is terminated, and release_process takes all its roots.
bootstrap_userspace_init(disk, supply) ==
    LET try[k \in 0 .. Len(disk)] ==
          IF k = 0 THEN [proc |-> None, spaces |-> spaces]
          ELSE Try(try[k - 1], disk[k], supply)
    IN /\ proc = None /\ UNCHANGED execs
       /\ \E tried \in {try[Len(disk)]} : Become(IF tried.proc = None THEN [proc |-> None, spaces |-> NoSpaces] ELSE tried)

-----------------------------------------------------------------------------
(* The first process, from an image in memory.                             *)

segment_mapping(seg) ==
    LET start == AlignDown(seg.vaddr, PAGE_SIZE)
    IN [start |-> start, len |-> AlignUp((seg.vaddr - start) + seg.memsz, PAGE_SIZE)]

\* Mutant: the segments are compared byte by byte, not by the pages they take.
overlapping_bytes(a, b) == a.vaddr < b.vaddr + b.memsz /\ b.vaddr < a.vaddr + a.memsz

overlapping_load_segments(a, b) ==
    LET m == segment_mapping(a)
        n == segment_mapping(b)
    IN m.start < n.start + n.len /\ n.start < m.start + m.len

LoadSegments(image) == SelectSeq(image.phdrs, LAMBDA ph : ph.kind = "LOAD")

parse_elf64(image) ==
    LET segments == LoadSegments(image)
    IN /\ image.size >= ELF_HEADER_SIZE /\ image.ident /\ image.type = "EXEC"
       /\ image.entry # 0 /\ image.entry < USER_CANONICAL_LIMIT
       /\ image.phdrs # <<>> /\ image.phoff + Len(image.phdrs) <= image.size
       /\ Len(segments) \in 1 .. MAX_SEGMENTS
       /\ \A k \in DOMAIN segments : LET ph == segments[k] IN
             /\ ph.align > 1 => PowerOfTwo(ph.align) /\ ph.vaddr % ph.align = ph.offset % ph.align
             /\ ph.memsz >= ph.filesz /\ ph.offset + ph.filesz <= image.size
             /\ ph.vaddr + ph.memsz <= USER_CANONICAL_LIMIT
       /\ \A i, j \in DOMAIN segments : i < j => ~overlapping_load_segments(segments[i], segments[j])

validate_elf64(image) ==
    /\ parse_elf64(image)
    /\ \E k \in DOMAIN LoadSegments(image) : LET ph == LoadSegments(image)[k] IN
          "X" \in ph.flags /\ image.entry \in ph.vaddr .. ph.vaddr + ph.memsz - 1

\* Every segment is readable, whatever its flags say: [ok, space, supply].
map_pid1_elf_image(image, supply) ==
    LET segments == LoadSegments(image)
        mapped[k \in 0 .. Len(segments)] ==
          IF k = 0 THEN [ok |-> TRUE, space |-> EmptySpace, supply |-> supply] ELSE
            LET acc == mapped[k - 1]
                ph == segments[k]
                m == segment_mapping(ph)
            IN IF ~acc.ok \/ acc.supply = 0 \/ ~CanMap(m.start, m.len) THEN [acc EXCEPT !.ok = FALSE]
               ELSE [ok |-> TRUE, supply |-> acc.supply - 1,
                     space |-> mmap_user_fixed(acc.space, m.start, m.len,
                                   {"R"} \cup (ph.flags \cap {"W", "X"}), FileBytes(ph, ph.vaddr))]
    IN mapped[Len(segments)]

\* Where allocate_user_stack puts the stack: whole pages below the top.
Pid1Bottom == USER_STACK_TOP - AlignUp(Pid1StackSize, PAGE_SIZE)

\* The first record that holds [a, a + len), or none; a write asks for a writable one.
find_user_mapping(space, a, len, write) ==
    LET holds == {k \in DOMAIN space.maps : /\ space.maps[k].start <= a /\ a + len <= space.maps[k].end
                                            /\ write => "W" \in space.maps[k].prot}
    IN IF holds = {} THEN 0 ELSE CHOOSE k \in holds : \A j \in holds : k <= j
find_user_mapping_protection(space, a, len) ==
    LET k == find_user_mapping(space, a, len, FALSE)
    IN IF k = 0 THEN {} ELSE space.maps[k].prot

\* allocate_user_stack and build_pid1_initial_stack. The builder looks the stack up by its
\* address: where a writable segment spans the whole stack it finds that one, and writes
\* into memory the stack has just hidden.
Pid1Stack(space) ==
    LET argv0 == AlignDown(USER_STACK_TOP, 2 * WORD) - (Pid1Name + 1)
        text == [a \in argv0 .. argv0 + Pid1Name |->
                   IF a = argv0 + Pid1Name THEN Zero ELSE [of |-> "argv", at |-> 1, idx |-> a - argv0]]
        st == PushAll(Pid1Bottom, [sp |-> AlignDown(argv0, 2 * WORD), bytes |-> text, ok |-> TRUE],
                      <<0, 0, 0, 0, argv0, 1>>)
        size == USER_STACK_TOP - Pid1Bottom
        hidden == find_user_mapping(space, Pid1Bottom, size, TRUE) # 0
    IN MapStack(space, Pid1Bottom, size, IF hidden THEN [st EXCEPT !.bytes = NoBytes] ELSE st)

preflight_pid1_user_entry(space, entry, sp) ==
    /\ sp % (2 * WORD) = 0 /\ sp < USER_CANONICAL_LIMIT
    /\ {"R", "X"} \subseteq find_user_mapping_protection(space, entry, 1)
    /\ {"R", "W"} \subseteq find_user_mapping_protection(space, sp - WORD, WORD)

\* bootstrap_spider_rs_pid1_from_image: parsed, mapped, checked, then admitted by the
\* scheduler and the process table. An error after the parsing leaves the root behind.
bootstrap_spider_rs_pid1_from_image(image, supply, admitted) ==
    LET mapped == map_pid1_elf_image(image, supply)
        stack == Pid1Stack(mapped.space)
        ready == /\ mapped.ok /\ mapped.supply > 0 /\ stack.ok
                 /\ preflight_pid1_user_entry(stack.space, image.entry, stack.sp)
    IN /\ proc = None /\ FreeRoots(spaces) # {} /\ validate_elf64(image)
       /\ spaces' = With(spaces, NewRoot(spaces), IF ready THEN stack.space ELSE EmptySpace)
       /\ proc' = IF ~ready \/ ~admitted THEN None
                  ELSE Program(NewRoot(spaces), image, [entry |-> image.entry, sp |-> stack.sp],
                               <<Pid1Name>>, <<>>, "pid1")
       /\ UNCHANGED execs

Init == proc = None /\ spaces = NoSpaces /\ execs = 0

Next ==
    \/ \E d \in Disks, n \in Supplies : bootstrap_userspace_init(d, n)
    \/ \E i \in Pid1Images, n \in Supplies, a \in BOOLEAN : bootstrap_spider_rs_pid1_from_image(i, n, a)
    \/ \E i \in Images, v \in Vectors, n \in Supplies : syscall_execve(i, v.argv, v.envp, n)

Spec == Init /\ [][Next]_vars

-----------------------------------------------------------------------------
(* What a program finds when it starts.                                    *)

Loads(p) == {k \in DOMAIN p.image.phdrs : p.image.phdrs[k].kind = "LOAD"}
StartOf(p, k) == relocated_address(p.image.phdrs[k].vaddr, p.image.type)
PagesOf(p, k) == {a \in 0 .. USER_CANONICAL_LIMIT - 1 :
                    /\ a >= AlignDown(StartOf(p, k), PAGE_SIZE)
                    /\ a < AlignUp(StartOf(p, k) + p.image.phdrs[k].memsz, PAGE_SIZE)}
StackOf(p) == IF p.how = "pid1"
              THEN Pid1Bottom .. USER_STACK_TOP - 1
              ELSE USER_STACK_BASE .. USER_STACK_BASE + USER_STACK_SIZE - 1
ProtOf(p, k) == IF p.how = "pid1" THEN {"R"} \cup p.image.phdrs[k].flags ELSE p.image.phdrs[k].flags

\* The pages of no two segments, and of none and the stack, are the same. The PID 1
\* loader sees to the first, nothing sees to the rest: a later mapping hides the earlier.
OnPagesOfItsOwn(p, k) ==
    /\ PagesOf(p, k) \cap StackOf(p) = {}
    /\ p.how = "execve" => \A j \in Loads(p) \ {k} : PagesOf(p, k) \cap PagesOf(p, j) = {}

SegmentInPlace(p, k) ==
    LET ph == p.image.phdrs[k]
        cells == spaces[p.root].cells
    IN \A i \in 0 .. ph.memsz - 1 :
          /\ StartOf(p, k) + i \in DOMAIN cells
          /\ cells[StartOf(p, k) + i].prot = ProtOf(p, k)
          /\ cells[StartOf(p, k) + i].byte =
                IF i < ph.filesz THEN [of |-> "file", at |-> ph.offset + i, idx |-> 0] ELSE Zero

WordAt(cells, a, v) ==
    \A i \in 0 .. WORD - 1 : a + i \in DOMAIN cells /\ cells[a + i].byte = [of |-> "word", at |-> v, idx |-> i]
StringAt(cells, a, name, i, len) ==
    /\ \A j \in 0 .. len - 1 : cells[a + j].byte = [of |-> name, at |-> i, idx |-> j]
    /\ cells[a + len].byte = Zero
\* The vector that starts at a: pointers to the strings, and a null pointer behind them.
VectorAt(cells, a, name, lengths) ==
    /\ \A i \in DOMAIN lengths : \E q \in DOMAIN cells :
          /\ WordAt(cells, a + (i - 1) * WORD, q)
          /\ StringAt(cells, q, name, i, lengths[i])
    /\ WordAt(cells, a + Len(lengths) * WORD, 0)

SpansStack(p, k) == p.how = "pid1" /\ StackOf(p) \subseteq PagesOf(p, k)
StackInPlace(p) ==
    LET cells == spaces[p.root].cells
        envp == p.sp + (Len(p.argv) + 2) * WORD
        auxv == envp + (Len(p.envp) + 1) * WORD
    IN /\ p.sp .. auxv + 2 * WORD - 1 \subseteq StackOf(p)
       /\ \A a \in StackOf(p) : cells[a].prot = {"R", "W"}
       /\ WordAt(cells, p.sp, Len(p.argv))
       /\ VectorAt(cells, p.sp + WORD, "argv", p.argv) /\ VectorAt(cells, envp, "envp", p.envp)
       /\ WordAt(cells, auxv, 0) /\ WordAt(cells, auxv + WORD, 0)
       /\ p.how = "pid1" => p.sp % (2 * WORD) = 0

\* Every segment that has its pages for itself is where the file wants it, with the
\* protection it asks for and zeros behind what the file holds; the first instruction can
\* be executed; nothing else is mapped; and the stack has argc, both vectors and the end
\* of the auxiliary vector inside it, whole, whatever lengths the arguments have (unless
\* a segment of PID 1 spans the stack).
LoadedAsLinked ==
    proc # None =>
      /\ proc.root \in DOMAIN spaces
      /\ \A k \in Loads(proc) : OnPagesOfItsOwn(proc, k) => SegmentInPlace(proc, k)
      /\ (\A k \in Loads(proc) : OnPagesOfItsOwn(proc, k)) => "X" \in spaces[proc.root].cells[proc.entry].prot
      /\ DOMAIN spaces[proc.root].cells \subseteq
            StackOf(proc) \cup UNION {PagesOf(proc, k) : k \in Loads(proc)}
      /\ (\A k \in Loads(proc) : ~SpansStack(proc, k)) => StackInPlace(proc)

\* An exec that fails, at whatever point, leaves the caller its program as it was.
FailureChangesNothing ==
    proc # None /\ proc' = proc => proc.root \in DOMAIN spaces' /\ spaces'[proc.root] = spaces[proc.root]
=============================================================================

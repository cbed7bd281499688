------------------------------- MODULE RootFs -------------------------------
(***************************************************************************)
(* The root file system: mount_root_from_boot_sources of kernel/mod.rs     *)
(* tries boot modules, then the block devices, then the built-in one; and  *)
(* the ext4 backend (kernel/fs/ext4), which is read-only: mounting, the    *)
(* block map of an inode, reading and listing.                             *)
(*                                                                         *)
(* A source holds an image: nothing, QFS with or without a committed       *)
(* transaction to replay, or ext4 with a feature set. Reads go block by    *)
(* block and the device may refuse each. A byte of the disk is known by    *)
(* its block and its place there.                                          *)
(***************************************************************************)
EXTENDS Integers, FiniteSets, SequencesExt

CONSTANTS BLOCK,          \* bytes of a block
          DIRECT,         \* direct block pointers of an inode (12)
          INDIRECT,       \* pointers in an indirect block
          MAX_DEPTH,      \* index levels that are followed (5)
          Images,         \* what a source can hold
          Files,          \* inodes that are read: see Shape
          None, Zero

VARIABLES sources,       \* the boot modules and devices: [at, image]
          next,          \* the source that is tried next
          root,          \* [kind, source] of the mounted root
          phase,         \* BootPhase::Ext4
          file,          \* the inode that is read
          request,       \* [offset, count] or None
          buffer,        \* what the read has put into the caller's buffer
          status,        \* "idle", "reading", "ok", "error"
          listed, cursor \* names a caller has got from readdir, and its offset

vars == <<sources, next, root, phase, file, request, buffer, status, listed, cursor>>
rootVars == <<sources, next, root, phase>>
readVars == <<file, request, buffer, status>>
listVars == <<listed, cursor>>

-----------------------------------------------------------------------------
(* Mounting *)

\* Ext4FeaturePolicy::analyze. Features are sets; the error, or whether it is read-only.
analyze(image, requested) ==
    IF "incompat" \in image.features \/ "ro_unknown" \in image.features THEN "unsupported"
    ELSE IF requested = "ro" THEN "read_only"
    ELSE IF "journal" \in image.features THEN "needs_replay"
    ELSE IF image.features \cap {"ro_unsafe", "checksums", "compat_unknown"} # {} THEN "read_only"
    ELSE "read_write"

\* Ext4Backend::mount: always read-only; the block size and the root inode are looked at.
ext4_mounts(image) ==
    /\ image.kind = "ext4"
    /\ analyze(image, "ro") = "read_only"
    /\ image.block_ok /\ image.root_dir

\* mount_qfs refreshes and replays first. A boot module takes no writes, so a transaction
\* that would be replayed fails the mount.
qfs_mounts(image, at) == image.kind = "qfs" /\ (at = "module" => ~image.committed)

\* mount_ext4 with the boot phase it reports.
Ext4Phase(image) ==
    IF image.kind # "ext4" THEN "skipped"
    ELSE IF ext4_mounts(image) THEN "online" ELSE "failed"

\* A boot module is tried as QFS first, a device as ext4 first. Nothing is replaced by a
\* mount that fails.
mounts_as(s) ==
    IF s.at = "module" /\ qfs_mounts(s.image, s.at) THEN "qfs"
    ELSE IF ext4_mounts(s.image) THEN "ext4"
    ELSE IF qfs_mounts(s.image, s.at) THEN "qfs"
    ELSE None

mount_source ==
    /\ next <= Len(sources)
    /\ LET s == sources[next]
           kind == mounts_as(s)
           tries_ext4 == ~(s.at = "module" /\ kind = "qfs")
       IN /\ root' = IF kind = None THEN root ELSE [kind |-> kind, source |-> next]
          /\ next' = IF kind = None THEN next + 1 ELSE Len(sources) + 1
          /\ phase' = IF tries_ext4 THEN Ext4Phase(s.image) ELSE phase
    /\ UNCHANGED <<sources, readVars, listVars>>

-----------------------------------------------------------------------------
(* The block map of an inode. A node of the extent tree is                 *)
(* [depth, entries], an entry [logical, len, start] or [logical, leaf].    *)

\* What the inode `f` looks like on disk.
Ext(l, n, s) == [logical |-> l, len |-> n, start |-> s]
Idx(l, b) == [logical |-> l, leaf |-> b]
Leaf(entries) == [depth |-> 0, entries |-> entries]
Shape(f) ==
    CASE f = "extents" -> [map |-> Leaf(<<Ext(0, 1, 20), Ext(2, 2, 30)>>), size |-> 3 * BLOCK + 1]
      [] f = "tree" -> [map |-> [depth |-> 1, entries |-> <<Idx(0, 50), Idx(2, 51)>>], size |-> 4 * BLOCK]
      [] f = "loop" -> [map |-> [depth |-> 1, entries |-> <<Idx(0, 52)>>], size |-> BLOCK]
      [] f = "legacy" -> [map |-> [direct |-> <<21, 0>>, indirect |-> 60],
                          size |-> (DIRECT + INDIRECT + 1) * BLOCK]
Node(b) ==
    CASE b = 50 -> Leaf(<<Ext(0, 2, 40)>>)
      [] b = 51 -> Leaf(<<Ext(3, 1, 45)>>)
      [] b = 52 -> [depth |-> 1, entries |-> <<Idx(0, 52)>>]     \* an index that is its own child
Pointers(b) == IF b = 60 THEN <<22, 0>> ELSE <<>>

\* A physical block, None for a hole, or an error.
Bad == -1

\* The leaf of an extent node that covers a block; None is a hole.
InLeaf(node, l) ==
    LET hits == {i \in DOMAIN node.entries :
                    /\ l >= node.entries[i].logical
                    /\ l < node.entries[i].logical + node.entries[i].len}
    IN IF hits = {} THEN None
       ELSE LET i == CHOOSE i \in hits : \A j \in hits : i <= j
            IN node.entries[i].start + l - node.entries[i].logical

RECURSIVE extent_data_block_for(_, _, _)
\* The last index entry that does not start after the block is followed.
extent_data_block_for(node, l, depth_seen) ==
    LET before == {i \in DOMAIN node.entries : node.entries[i].logical <= l}
    IN IF node.depth = 0 THEN InLeaf(node, l)
       ELSE IF depth_seen >= MAX_DEPTH \/ before = {} THEN Bad
       ELSE extent_data_block_for(Node(node.entries[Max(before)].leaf), l, depth_seen + 1)

NonZero(b) == IF b = 0 THEN None ELSE b

data_block_for(f, l) ==
    LET m == Shape(f).map
    IN IF f # "legacy" THEN extent_data_block_for(m, l, 0)
       ELSE IF l < DIRECT THEN NonZero(m.direct[l + 1])
       ELSE IF l < DIRECT + INDIRECT THEN NonZero(Pointers(m.indirect)[l - DIRECT + 1])
       ELSE Bad

-----------------------------------------------------------------------------
(* Reading *)

Target == LET size == Shape(file).size
          IN IF request.offset >= size THEN 0 ELSE Min({request.count, size - request.offset})

pread(f, offset, count) ==
    /\ status = "idle"
    /\ file' = f /\ request' = [offset |-> offset, count |-> count] /\ buffer' = <<>>
    /\ status' = "reading"
    /\ UNCHANGED <<rootVars, listVars>>

\* Mutant: every chunk starts at the head of its block.
ChunkFromHead(b, at, n) == [i \in 1 .. n |-> IF b = None THEN Zero ELSE <<b, i - 1>>]

\* The bytes one turn of read_inode_data copies: from the block, or zeros for a hole.
Chunk(b, at, n) == [i \in 1 .. n |-> IF b = None THEN Zero ELSE <<b, at + i - 1>>]

\* One turn of read_inode_data.
read_inode_data ==
    LET done == Len(buffer)
        absolute == request.offset + done
        at == absolute % BLOCK
        n == Min({Target - done, BLOCK - at})
        b == data_block_for(file, absolute \div BLOCK)
    IN /\ status = "reading" /\ done < Target
       /\ IF b = Bad THEN status' = "error" /\ UNCHANGED buffer
          ELSE buffer' = buffer \o Chunk(b, at, n) /\ UNCHANGED status
       /\ UNCHANGED <<file, request, rootVars, listVars>>

ReadEnds ==
    /\ status = "reading"
    /\ \/ Len(buffer) = Target /\ status' = "ok"
       \/ Len(buffer) < Target /\ status' = "error"        \* read_sectors fails
    /\ UNCHANGED <<file, request, buffer, rootVars, listVars>>

ReadAgain ==
    /\ status \in {"ok", "error"}
    /\ status' = "idle" /\ request' = None /\ buffer' = <<>>
    /\ UNCHANGED <<file, rootVars, listVars>>

-----------------------------------------------------------------------------
(* Listing. The root directory's entries; inode 0 is a deleted one.        *)

Directory == <<[inode |-> 2, name |-> "."], [inode |-> 0, name |-> "old"], [inode |-> 12, name |-> "x"],
               [inode |-> 0, name |-> "x"], [inode |-> 13, name |-> "y"], [inode |-> 14, name |-> "z"]>>
Live == SelectSeq(Directory, LAMBDA e : e.inode # 0)

vfs_inode_id(n) == IF n = 2 THEN 1 ELSE n

\* readdir_inode: entries are walked from the start and the first `offset` live ones skipped.
readdir_inode(offset, n) == SubSeq(Live, offset + 1, Min({offset + n, Len(Live)}))

find_child(name) ==
    LET hits == {i \in DOMAIN Directory : Directory[i].inode # 0 /\ Directory[i].name = name}
    IN IF hits = {} THEN None ELSE vfs_inode_id(Directory[CHOOSE i \in hits : \A j \in hits : i <= j].inode)

\* A caller pages through the directory, advancing its offset by what it got.
readdir(n) ==
    /\ readdir_inode(cursor, n) # <<>>
    /\ listed' = listed \o readdir_inode(cursor, n)
    /\ cursor' = cursor + Len(readdir_inode(cursor, n))
    /\ UNCHANGED <<rootVars, readVars>>

-----------------------------------------------------------------------------
Init ==
    /\ sources \in {<<[at |-> a, image |-> i], [at |-> "device", image |-> j]>> :
                        a \in {"module", "device"}, i, j \in Images}
    /\ next = 1 /\ root = [kind |-> "qfs", source |-> 0] /\ phase = "pending"
    /\ file = "extents" /\ request = None /\ buffer = <<>> /\ status = "idle"
    /\ listed = <<>> /\ cursor = 0

Next ==
    \/ mount_source
    \/ next > Len(sources) /\ root.kind = "ext4" /\
         \/ \E f \in Files, o \in 0 .. 3 * BLOCK, n \in {1, BLOCK + 1} : pread(f, o, n)
         \/ read_inode_data \/ ReadEnds \/ ReadAgain
         \/ \E n \in 1 .. 3 : readdir(n)

-----------------------------------------------------------------------------
\* The root is the first source that can be mounted, a boot module before a device, and the
\* built-in volume when none can; ext4 is reported online just when it became the root.
RootIsFirst ==
    LET good == {i \in DOMAIN sources : \/ ext4_mounts(sources[i].image)
                                        \/ qfs_mounts(sources[i].image, sources[i].at)}
    IN /\ next > Len(sources) =>
             IF good = {} THEN root.source = 0
             ELSE root.source = CHOOSE i \in good : \A j \in good : i <= j
       /\ phase = "online" <=> root.kind = "ext4"

\* What a byte of the file should be, read off the extents and pointers.
Covers(e, l) == e.logical <= l /\ l < e.logical + e.len
Leaves == [extents |-> Shape("extents").map.entries, tree |-> Node(50).entries \o Node(51).entries,
           legacy |-> <<Ext(0, 1, 21), Ext(DIRECT, 1, 22)>>]
Expected(f, pos) ==
    LET l == pos \div BLOCK
        e == {i \in DOMAIN Leaves[f] : Covers(Leaves[f][i], l)}
    IN IF e = {} THEN Zero
       ELSE LET x == Leaves[f][CHOOSE i \in e : TRUE] IN <<x.start + l - x.logical, pos % BLOCK>>

\* A read gives the bytes of the file at its offset, zeros in the holes, across blocks and
\* to the end of the file; a tree that leads back to itself is an error, not a hang.
ReadsRight ==
    /\ file # "loop" => \A i \in DOMAIN buffer :
                                           buffer[i] = Expected(file, request.offset + i - 1)
    /\ status = "ok" => Len(buffer) = Target /\ (file = "loop" => Target = 0)

\* Paging through a directory lists every live entry once and in order, however large the
\* caller's array, and a name leads to the inode that is listed.
ListsAll ==
    /\ listed = SubSeq(Live, 1, cursor)
    /\ \A i \in DOMAIN listed : find_child(listed[i].name) = vfs_inode_id(listed[i].inode)
=============================================================================

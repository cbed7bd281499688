------------------------------ MODULE Volume ------------------------------
(***************************************************************************)
(* The SSD/USB volume (kernel/fs/ssd_usb) behind the file system calls of  *)
(* kernel/fs/vfs, the open files of kernel/fs/file with their cursor, and  *)
(* the mount table of kernel/fs/mount. Every call that changes the node    *)
(* table ends by writing all of it to the device, node by node; a write    *)
(* that fails ends the call with the memory as it is. The lock is held     *)
(* throughout, so a call is an action. Of a file the size is kept; a       *)
(* permission is whether others than the kernel may write.                 *)
(***************************************************************************)
EXTENDS Integers, FiniteSets, SequencesExt

CONSTANTS MAX_VOLUME_NODES, MAX_FILE_BYTES, Handles, MAX_MOUNTS, Names, None, MaxCalls

VARIABLES nodes,       \* slot -> node or None
          next_inode,
          disk,        \* [next, nodes]: the header's and the nodes' sectors
          ok,          \* whether the last call that wrote to the device returned Ok
          open,        \* handle -> [inode, cursor, mode, opened] or None
          mounts,      \* slot -> [point, fs] or None
          calls

vars == <<nodes, next_inode, disk, ok, open, mounts, calls>>

Slot == 0 .. MAX_VOLUME_NODES - 1
ROOT == 1
Least(S) == CHOOSE i \in S : \A j \in S : i <= j
First(S) == IF S = {} THEN None ELSE Least(S)
Used == {i \in Slot : nodes[i] # None}
free_slot == First(Slot \ Used)
node_index_by_inode(inode) == First({i \in Used : nodes[i].inode = inode})
node_index_by_parent_name(parent, name) ==
    First({i \in Used : nodes[i].parent = parent /\ nodes[i].name = name})

resolve_inode(path) ==
    FoldLeft(LAMBDA cur, name : IF cur = None \/ nodes[cur].kind # "dir" THEN None
                                ELSE node_index_by_parent_name(nodes[cur].inode, name),
             node_index_by_inode(ROOT), path)

\* The directory a path ends in; None when it is not there or no directory.
resolve_parent(path) ==
    LET at == resolve_inode(Front(path))
    IN IF path = <<>> \/ at = None THEN None ELSE IF nodes[at].kind # "dir" THEN None ELSE at

Paths == {<<a>> : a \in Names} \cup {<<a, b>> : a, b \in Names}

-----------------------------------------------------------------------------
\* sync_block_device: the header, then the nodes in order; `done` nodes are written, and
\* anything less than all of them is an error of the device.
sync_block_device(n, next) ==
    \E done \in {-1, 1, MAX_VOLUME_NODES} :
        /\ disk' = IF done = -1 THEN disk
                   ELSE [next |-> next,
                         nodes |-> [i \in Slot |-> IF i < done THEN n[i] ELSE disk.nodes[i]]]
        /\ ok' = (done = MAX_VOLUME_NODES)

Store(n, next) ==
    /\ nodes' = n /\ next_inode' = next
    /\ sync_block_device(n, next)
    /\ calls' = calls + 1

Init ==
    LET n == [i \in Slot |-> IF i = 0 THEN [inode |-> ROOT, parent |-> ROOT, kind |-> "dir", name |-> "",
                                             size |-> 0, links |-> 1, write |-> FALSE, made |-> 0]
                             ELSE None]
    IN /\ nodes = n /\ next_inode = 2
       /\ disk = [next |-> 0, nodes |-> [i \in Slot |-> None]] /\ ok = FALSE
       /\ open = [h \in Handles |-> None] /\ mounts = [m \in 1 .. MAX_MOUNTS |-> None] /\ calls = 0

\* create_node; `made` is a history: which creation the node stems from.
create_node(dir, name, kind, size) ==
    [inode |-> next_inode, parent |-> nodes[dir].inode, kind |-> kind, name |-> name,
     size |-> Min({size, MAX_FILE_BYTES}), links |-> 1, write |-> TRUE, made |-> calls + 1]

Vacant(dir, name) ==
    free_slot # None /\ node_index_by_parent_name(nodes[dir].inode, name) = None

\* open with CREATE of a name that is not there, create_file, mkdir and symlink.
create(path, kind, size) ==
    LET dir == resolve_parent(path)
    IN /\ dir # None /\ Vacant(dir, Last(path))
       /\ Store([nodes EXCEPT ![free_slot] = create_node(dir, Last(path), kind, size)], next_inode + 1)
       /\ UNCHANGED <<open, mounts>>

\* open: what is there, for a mode its permissions allow; APPEND starts at the size it has
\* before TRUNCATE empties it.
open_file(h, path, mode, append, trunc) ==
    LET at == resolve_inode(path)
        n == nodes[at]
    IN /\ at # None /\ open[h] = None
       /\ mode = "rw" => n.kind # "dir" /\ n.write
       /\ open' = [open EXCEPT ![h] = [inode |-> n.inode, cursor |-> IF append THEN n.size ELSE 0,
                                       mode |-> mode, opened |-> n.made]]
       /\ IF trunc /\ mode = "rw"
          THEN Store([nodes EXCEPT ![node_index_by_inode(n.inode)].size = 0], next_inode)
          ELSE UNCHANGED <<nodes, next_inode, disk, ok>> /\ calls' = calls + 1
       /\ UNCHANGED mounts

\* close forgets the handle; the node is not told.
close(h) ==
    /\ open[h] # None
    /\ open' = [open EXCEPT ![h] = None]
    /\ calls' = calls + 1
    /\ UNCHANGED <<nodes, next_inode, disk, ok, mounts>>

\* write at the cursor: what fits, and nothing at all at the end of the room.
write(h, count) ==
    LET at == node_index_by_inode(open[h].inode)
        offset == Min({open[h].cursor, MAX_FILE_BYTES})
        fit == Min({MAX_FILE_BYTES - offset, count})
    IN /\ open[h] # None /\ open[h].mode = "rw"
       /\ at # None
       /\ nodes[at].kind # "dir" /\ fit > 0
       /\ Store([nodes EXCEPT ![at].size = Max({@, offset + fit})], next_inode)
       /\ open' = [open EXCEPT ![h].cursor = IF ok' THEN @ + fit ELSE @]
       /\ UNCHANGED mounts

read(h, count) ==
    LET at == node_index_by_inode(open[h].inode)
    IN /\ open[h] # None
       /\ at # None
       /\ nodes[at].kind # "dir"
       /\ open' = [open EXCEPT ![h].cursor =
                      @ + Min({nodes[at].size - Min({@, nodes[at].size}), count})]
       /\ calls' = calls + 1
       /\ UNCHANGED <<nodes, next_inode, disk, ok, mounts>>

rmdir(path) ==
    LET at == resolve_inode(path)
    IN /\ at # None
       /\ nodes[at].kind = "dir" /\ nodes[at].inode # ROOT
       /\ \A i \in Used : nodes[i].parent = nodes[at].inode => nodes[i].inode = nodes[at].inode
       /\ Store([nodes EXCEPT ![node_index_by_inode(nodes[at].inode)] = None], next_inode)
       /\ UNCHANGED <<open, mounts>>

\* The first node of the inode goes, whichever of its names was given.
unlink(path) ==
    LET at == resolve_inode(path)
    IN /\ at # None
       /\ nodes[at].kind # "dir"
       /\ Store([nodes EXCEPT ![node_index_by_inode(nodes[at].inode)] = None], next_inode)
       /\ UNCHANGED <<open, mounts>>

rename(old, new) ==
    LET from == resolve_parent(old)
        at == node_index_by_parent_name(nodes[from].inode, Last(old))
        dir == resolve_parent(new)
    IN /\ from # None /\ dir # None
       /\ at # None
       /\ node_index_by_parent_name(nodes[dir].inode, Last(new)) = None
       /\ Store([nodes EXCEPT ![at].parent = nodes[dir].inode, ![at].name = Last(new)], next_inode)
       /\ UNCHANGED <<open, mounts>>

\* The new name is a copy of the node; the count goes up on the copy.
link(old, new) ==
    LET at == resolve_inode(old)
        dir == resolve_parent(new)
    IN /\ at # None /\ dir # None
       /\ nodes[at].kind # "dir" /\ Vacant(dir, Last(new))
       /\ Store([nodes EXCEPT ![free_slot] = [nodes[at] EXCEPT !.parent = nodes[dir].inode,
                                                !.name = Last(new), !.links = @ + 1]], next_inode)
       /\ UNCHANGED <<open, mounts>>

\* chmod, chown: the first node of the inode; nobody is refused.
chmod(path, write_bit) ==
    LET at == resolve_inode(path)
    IN /\ at # None
       /\ Store([nodes EXCEPT ![node_index_by_inode(nodes[at].inode)].write = write_bit], next_inode)
       /\ UNCHANGED <<open, mounts>>

truncate(at, size) ==
    /\ at # None /\ size <= MAX_FILE_BYTES
    /\ nodes[at].kind # "dir"
    /\ Store([nodes EXCEPT ![node_index_by_inode(nodes[at].inode)].size = size], next_inode)
    /\ UNCHANGED <<open, mounts>>

fsync == Store(nodes, next_inode) /\ UNCHANGED <<open, mounts>>

-----------------------------------------------------------------------------
(* The mount table *)

mount(point, fs) ==
    LET free == {m \in DOMAIN mounts : mounts[m] = None}
    IN /\ free # {} /\ \A m \in DOMAIN mounts \ free : mounts[m].point # point
       /\ mounts' = [mounts EXCEPT ![Least(free)] = [point |-> point, fs |-> fs]]
       /\ calls' = calls + 1
       /\ UNCHANGED <<nodes, next_inode, disk, ok, open>>

unmount(point) ==
    /\ \E m \in DOMAIN mounts :
          /\ mounts[m] # None
          /\ mounts[m].point = point
          /\ mounts' = [mounts EXCEPT ![m] = None]
    /\ calls' = calls + 1
    /\ UNCHANGED <<nodes, next_inode, disk, ok, open>>

path_matches_mount(path, point) == IsPrefix(point, path)

\* MountTable::resolve walks the slots and keeps the longer of two that match.
resolve(path) ==
    FoldLeft(LAMBDA best, m : IF m = None THEN best
                              ELSE IF /\ path_matches_mount(path, m.point)
                                      /\ IF best = None THEN TRUE ELSE Len(m.point) > Len(best.point)
                                   THEN m ELSE best,
             None, mounts)

Next ==
    /\ calls < MaxCalls
    /\ \/ \E p \in Paths : \/ create(p, "file", 0) \/ create(p, "dir", 0) \/ create(p, "link", MAX_FILE_BYTES + 1)
                           \/ rmdir(p) \/ unlink(p) \/ chmod(p, FALSE) \/ truncate(resolve_inode(p), 1)
                           \/ \E q \in Paths : rename(p, q) \/ link(p, q)
                           \/ \E h \in Handles, m \in {"r", "rw"}, a, t \in BOOLEAN : open_file(h, p, m, a, t)
       \/ \E h \in Handles : \/ close(h) \/ write(h, 2) \/ read(h, 1)
                             \/ open[h] # None /\ truncate(node_index_by_inode(open[h].inode), 0)
       \/ fsync
       \/ \E p \in {<<>>} \cup Paths : mount(p, calls) \/ unmount(p)

-----------------------------------------------------------------------------
\* In a directory a name leads to one node, every node is in a directory that exists, and
\* no file is larger than the room for its bytes.
TreeSound ==
    \A i \in Used :
        /\ \A j \in Used \ {i} : nodes[i].parent = nodes[j].parent => nodes[i].name # nodes[j].name
        /\ \E j \in Used : nodes[j].inode = nodes[i].parent /\ nodes[j].kind = "dir"
        /\ nodes[i].size <= MAX_FILE_BYTES

\* An open file is the file that was opened: once that is unlinked the handle leads nowhere,
\* and never to a file made since.
HandlesStay ==
    \A h \in Handles : open[h] # None =>
        \A i \in Used : nodes[i].inode = open[h].inode => nodes[i].made = open[h].opened

\* After a call that returned Ok the device holds every node as the memory does.
DeviceCurrent == ok => disk.nodes = nodes /\ disk.next = next_inode

\* A path goes to the mounted file system with the longest mount point it lies under.
MountsResolve ==
    \A p \in Paths :
        LET under == {m \in DOMAIN mounts : mounts[m] # None /\ IsPrefix(mounts[m].point, p)}
        IN IF under = {} THEN resolve(p) = None
           ELSE \E m \in under : /\ resolve(p) = mounts[m]
                                 /\ \A k \in under \ {m} : Len(mounts[k].point) < Len(mounts[m].point)
=============================================================================

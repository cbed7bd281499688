----------------------------- MODULE MCStorage -----------------------------
(***************************************************************************)
(* The storage stack: QFS with its journal on a device that can fail and   *)
(* crash, the USB volume with the open files and the mount table, the root *)
(* file system with the ext4 reader, and the block layer below them; one   *)
(* of them per behaviour.                                                  *)
(***************************************************************************)
EXTENDS Integers, FiniteSets, Sequences

CONSTANTS None, Zero,
          Parts     \* the parts a run explores

VARIABLES part,
          inodes, journal, next_tx, next_slot, disk, pc, op, commits, acked, appended, crashes,
          nodes, next_inode, vdisk, ok, open, mounts, vcalls,
          sources, next, root, phase, file, request, buffer, status, listed, cursor,
          hardware, devices, events, seen, client, last, queue, taken, slots, len, entries, next_id,
          wrapped, bdisk, parsed, bcalls

qfsVars == <<inodes, journal, next_tx, next_slot, disk, pc, op, commits, acked, appended, crashes>>
volumeVars == <<nodes, next_inode, vdisk, ok, open, mounts, vcalls>>
rootVars == <<sources, next, root, phase, file, request, buffer, status, listed, cursor>>
hardwareVars == <<hardware, bcalls>>
serviceVars == <<devices, events, seen, client, last>>
queueVars == <<queue, taken>>
registryVars == <<slots, len, entries, next_id, wrapped>>
partitionVars == <<bdisk, parsed>>
blockVars == <<hardwareVars, serviceVars, queueVars, registryVars, partitionVars>>
vars == <<part, qfsVars, volumeVars, rootVars, blockVars>>

-----------------------------------------------------------------------------
\* Two crashes over three transactions; the journal holds one transaction and
\* a half of four records.
Journal == INSTANCE Qfs WITH
    MAX_INODE_RECORDS <- 3, PER_SECTOR <- 2, SLOTS <- 5, INLINE <- 1, Names <- {"a"},
    Callers <- {"owner", "user"}, MaxTx <- 3, MaxCrashes <- 2

\* Names enough for directories below directories, and no crash.
Tree == INSTANCE Qfs WITH
    MAX_INODE_RECORDS <- 4, PER_SECTOR <- 2, SLOTS <- 1, INLINE <- 1, Names <- {"a", "b"},
    Callers <- {"owner", "user"}, MaxTx <- 3, MaxCrashes <- 0

\* A journal that wraps round in the middle of a transaction.
Wrapping == INSTANCE Qfs WITH
    MAX_INODE_RECORDS <- 3, PER_SECTOR <- 2, SLOTS <- 6, INLINE <- 1, Names <- {"a"},
    Callers <- {"owner"}, MaxTx <- 3, MaxCrashes <- 1

\* Three nodes, one open file.
Usb == INSTANCE Volume WITH
    MAX_VOLUME_NODES <- 3, MAX_FILE_BYTES <- 2, Handles <- {1}, MAX_MOUNTS <- 0,
    Names <- {"a", "b"}, MaxCalls <- 4, disk <- vdisk, calls <- vcalls

\* Only the root node, so that the mount table is what changes.
Mounts == INSTANCE Volume WITH
    MAX_VOLUME_NODES <- 1, MAX_FILE_BYTES <- 1, Handles <- {}, MAX_MOUNTS <- 2,
    Names <- {"a", "b"}, MaxCalls <- 4, disk <- vdisk, calls <- vcalls

\* A source that holds nothing, a QFS image with and without a transaction to
\* replay, and ext4 images of which one mounts and three are refused.
Image(kind, committed, features, block_ok, root_dir) ==
    [kind |-> kind, committed |-> committed, features |-> features,
     block_ok |-> block_ok, root_dir |-> root_dir]

Root == INSTANCE RootFs WITH
    BLOCK <- 2, DIRECT <- 2, INDIRECT <- 2, MAX_DEPTH <- 5,
    Files <- {"extents", "tree", "loop", "legacy"},
    Images <- {Image("none", FALSE, {}, TRUE, TRUE), Image("qfs", FALSE, {}, TRUE, TRUE),
               Image("qfs", TRUE, {}, TRUE, TRUE),
               Image("ext4", FALSE, {"journal", "checksums"}, TRUE, TRUE),
               Image("ext4", FALSE, {"incompat"}, TRUE, TRUE),
               Image("ext4", FALSE, {}, FALSE, TRUE), Image("ext4", FALSE, {}, TRUE, FALSE)}

\* The second device comes back under the id of the first, with fewer sectors.
Block == INSTANCE BlockLayer WITH
    Backends <- {1, 2, 3}, Ids <- <<1, 1, 2>>, Sectors <- <<2, 1, 2>>, ReadOnly <- {3},
    Values <- {0, 1}, Starts <- {0, 1, 3}, Counts <- {0, 1, 2}, MAX_U64 <- 4, CAPACITY <- 2,
    MAX_ID <- 3, MAX_PARTITIONS <- 2, MaxCalls <- 5, disk <- bdisk, calls <- bcalls

\* Two devices, and time for two requests to go through the queue.
Queue == INSTANCE BlockLayer WITH
    Backends <- {1, 2}, Ids <- <<1, 2>>, Sectors <- <<2, 1>>, ReadOnly <- {},
    Values <- {0, 1}, Starts <- {0, 1}, Counts <- {1}, MAX_U64 <- 9, CAPACITY <- 2,
    MAX_ID <- 3, MAX_PARTITIONS <- 2, MaxCalls <- 5, disk <- bdisk, calls <- bcalls

\* Parts that do not move in a behaviour stay in one of their initial states.
Init ==
    /\ part \in Parts
    /\ CASE part = "tree" -> Tree!Init
         [] part = "wrapping" -> Wrapping!Init
         [] OTHER -> Journal!Init
    /\ IF part = "mounts" THEN Mounts!Init ELSE Usb!Init
    /\ (IF part = "queue" THEN Queue!HardwareInit ELSE Block!HardwareInit)
    /\ Block!ServiceInit /\ Block!QueueInit /\ Block!RegistryInit
    /\ IF part = "partition" THEN Block!PartitionInit ELSE bdisk = None /\ parsed = None
    /\ Root!Init /\ (part # "root" => \A i \in DOMAIN sources : sources[i] = sources[2]
                                                            /\ sources[i].image.kind = "none")

Next ==
    /\ UNCHANGED part
    /\ \/ /\ \/ part = "journal" /\ Journal!Next
             \/ part = "tree" /\ Tree!Next
             \/ part = "wrapping" /\ Wrapping!Next
          /\ UNCHANGED <<volumeVars, rootVars, blockVars>>
       \/ /\ \/ part = "usb" /\ Usb!Next
             \/ part = "mounts" /\ Mounts!Next
          /\ UNCHANGED <<qfsVars, rootVars, blockVars>>
       \/ /\ part = "root" /\ Root!Next
          /\ UNCHANGED <<qfsVars, volumeVars, blockVars>>
       \/ /\ part = "service" /\ Block!ServiceNext
          /\ UNCHANGED <<qfsVars, volumeVars, rootVars, queueVars, registryVars, partitionVars>>
       \/ /\ part = "queue" /\ Queue!QueueNext
          /\ UNCHANGED <<qfsVars, volumeVars, rootVars, serviceVars, registryVars, partitionVars>>
       \/ /\ part = "registry" /\ Block!RegistryNext
          /\ UNCHANGED <<qfsVars, volumeVars, rootVars, serviceVars, queueVars, partitionVars>>
       \/ /\ part = "partition" /\ Block!parse
          /\ UNCHANGED <<qfsVars, volumeVars, rootVars, serviceVars, queueVars, registryVars>>

Spec == Init /\ [][Next]_vars

-----------------------------------------------------------------------------
\* Whatever crash, failed sector write or half-written transaction came before,
\* a QFS volume that mounts has the inode table of a transaction that committed
\* (kernel/fs/qfs.rs, replay_valid_journal_records).
JournalRecovers == part = "journal" => Journal!RecoversCommitted

\* The names of a QFS tree stay unique in their directory, inode numbers stay
\* with their links, and the table in memory stays well formed; the volume in
\* memory and the one on the device agree after every call that succeeds, open
\* files keep their node, and a path resolves to the longest mount point.
TreesSound ==
    /\ part = "tree" => Tree!TreeSound
    /\ part = "usb" => Usb!TreeSound /\ Usb!HandlesStay /\ Usb!DeviceCurrent
    /\ part = "mounts" => Mounts!MountsResolve

\* The root is the first source that mounts, an ext4 file reads as the blocks its
\* extents name, transfers stay in the device that is registered, requests are
\* completed once and in order, the registries stay consistent with the events
\* they sent, and partitions lie on their disk.
BlocksReachTheirPlace ==
    /\ part = "root" => Root!RootIsFirst /\ Root!ReadsRight /\ Root!ListsAll
    /\ part = "service" => Block!EventsTell /\ Block!TransfersSound
    /\ part = "queue" => Queue!CompletedInOrder
    /\ part = "registry" => Block!RegistriesSound
    /\ part = "partition" => Block!PartitionsSound

\* A volume that mounts has the table of the last transaction whose call
\* returned, or of one that committed after it
\* (kernel/fs/qfs_format.rs, "replay-safe metadata and data updates").
RecoversLast == part = "wrapping" => Wrapping!RecoversLast
=============================================================================

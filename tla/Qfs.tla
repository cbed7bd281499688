-------------------------------- MODULE Qfs --------------------------------
(***************************************************************************)
(* QFS (kernel/fs/qfs, kernel/fs/qfs_format): a table of inode records in  *)
(* memory, of which one sector goes to the disk through a journal of       *)
(* fixed slots. An operation changes the table in memory, then journals    *)
(* the sector: Begin, MetadataWrite with its payload, Commit, and applies  *)
(* it. Mounting replays the journal.                                       *)
(*                                                                         *)
(* Every sector write is a step; at each the device may fail, which ends   *)
(* the call with the memory as it is, and the machine may stop. A checksum *)
(* is the payload it was computed for. No chapter index is ever loaded, so *)
(* bytes past the inline area have no sector and are refused.              *)
(***************************************************************************)
EXTENDS Integers, FiniteSets, SequencesExt

CONSTANTS MAX_INODE_RECORDS,     \* records in memory
          PER_SECTOR,            \* records one sector holds
          SLOTS,                 \* journal slots
          INLINE,                \* bytes kept in a record
          Names, Callers, None, MaxTx, MaxCrashes

VARIABLES inodes,        \* slot -> record or None (QfsState.inodes)
          journal,       \* slot -> record or None, as this mount knows it
          next_tx, next_slot,
          disk,          \* [table, super, rec, pay]: the sectors
          pc,            \* what the call in progress does next
          op,            \* [tx, ok, target, image] of the call in progress
          commits,       \* history: the images whose Commit record reached the disk
          acked,         \* history: length of commits at the last call that returned Ok
          appended,      \* history: record sectors written to the journal
          crashes

vars == <<inodes, journal, next_tx, next_slot, disk, pc, op, commits, acked, appended, crashes>>

Slot == 0 .. SLOTS - 1
ROOT == 1
root == [ino |-> ROOT, par |-> ROOT, kind |-> "dir", name |-> "", links |-> 1, size |-> 0, len |-> 0,
         mode |-> "w"]
Least(S) == CHOOSE i \in S : \A j \in S : i <= j

-----------------------------------------------------------------------------
(* The table in memory *)

Used(c) == {i \in DOMAIN c : c[i] # None}
First(S) == IF S = {} THEN None ELSE Least(S)
inode_slot_by_id(c, ino) == First({i \in Used(c) : c[i].ino = ino})
child_slot_by_name(c, par, name) == First({i \in Used(c) : c[i].par = par /\ c[i].name = name})
free_inode_slot(c) == First(DOMAIN c \ Used(c))
next_inode_id(c) == 1 + Max({ROOT} \cup {c[i].ino : i \in Used(c)})

\* The records of an inode, one for each of its links: link_count counts them, and
\* set_link_count, chmod and truncate change every one.
Records(c, ino) == {i \in Used(c) : c[i].ino = ino}
link_count(c, ino) == Cardinality(Records(c, ino))
set_link_count(c, ino, links) == [i \in DOMAIN c |-> IF i \in Records(c, ino) THEN [c[i] EXCEPT !.links = links] ELSE c[i]]

\* The slot a path leads to; None when a component is missing or no directory.
resolve_inode(c, path) ==
    FoldLeft(LAMBDA cur, name :
                 IF cur = None \/ c[cur].kind # "dir" THEN None
                 ELSE child_slot_by_name(c, c[cur].ino, name),
             inode_slot_by_id(c, ROOT), path)

\* The inode a new entry goes under; whether it is a directory is looked at later.
parent_and_name(c, path) ==
    LET at == resolve_inode(c, Front(path))
    IN IF path = <<>> \/ at = None THEN None ELSE [par |-> c[at].ino, name |-> Last(path)]

\* A permission the credentials `who` have on a record; the kernel has them all.
\* Files made by mkdir are their owner's to write, symbolic links everybody's.
allows(r, who) == who = "kernel" \/ r.mode = "a" \/ (who = "owner" /\ r.mode = "w")

-----------------------------------------------------------------------------
(* The operations: refused before a transaction is begun, or what they do  *)
(* to the table and whether they go on to journal it.                      *)

Refused == [began |-> FALSE]
Failed(c) == [began |-> TRUE, ok |-> FALSE, target |-> "table", cache |-> c]
Done(c) == [began |-> TRUE, ok |-> TRUE, target |-> "table", cache |-> c]

\* Mutant: the name may be taken.
EnterOver(c, at, who) ==
    LET p == inode_slot_by_id(c, at.par)
    IN p # None /\ c[p].kind = "dir" /\ allows(c[p], who)

\* What mkdir, symlink and link ask of the directory a record goes into.
CanEnter(c, at, who) ==
    LET p == inode_slot_by_id(c, at.par)
    IN /\ p # None
       /\ c[p].kind = "dir" /\ allows(c[p], who)
       /\ child_slot_by_name(c, at.par, at.name) = None

Created(c, at, kind, size) ==
    [c EXCEPT ![free_inode_slot(c)] =
        [ino |-> next_inode_id(c), par |-> at.par, kind |-> kind, name |-> at.name, links |-> 1,
         size |-> size, len |-> Min({size, INLINE}), mode |-> IF kind = "dir" THEN "w" ELSE "a"]]

mkdir(c, path, who) ==
    LET at == parent_and_name(c, path)
    IN IF at = None THEN Refused
       ELSE IF ~CanEnter(c, at, who) \/ free_inode_slot(c) = None THEN Failed(c)
       ELSE Done(Created(c, at, "dir", 0))

\* A target longer than the inline area has its record made before the rest is refused.
symlink(c, path, size, who) ==
    LET at == parent_and_name(c, path)
    IN IF at = None THEN Refused
       ELSE IF ~CanEnter(c, at, who) \/ free_inode_slot(c) = None THEN Failed(c)
       ELSE IF size > INLINE THEN Failed(Created(c, at, "link", size))
       ELSE Done(Created(c, at, "link", size))

link(c, old, path, who) ==
    LET src == resolve_inode(c, old)
        at == parent_and_name(c, path)
        count == link_count(c, c[src].ino) + 1
    IN IF src = None \/ at = None THEN Refused
       ELSE IF c[src].kind = "dir" THEN Refused
       ELSE IF ~CanEnter(c, at, who) \/ free_inode_slot(c) = None THEN Failed(c)
       ELSE Done(set_link_count([c EXCEPT ![free_inode_slot(c)] =
                                    [c[src] EXCEPT !.par = at.par, !.name = at.name]],
                                c[src].ino, count))

rmdir(c, path, who) ==
    LET at == resolve_inode(c, path)
        r == c[at]
        p == inode_slot_by_id(c, r.par)
    IN IF at = None THEN Refused
       ELSE IF r.ino = ROOT \/ r.kind # "dir" THEN Refused
       ELSE IF (\E i \in Used(c) : c[i].par = r.ino /\ c[i].ino # r.ino) \/ p = None THEN Failed(c)
       ELSE IF ~allows(c[p], who) THEN Failed(c)
       ELSE Done([c EXCEPT ![child_slot_by_name(c, r.par, r.name)] = None])

unlink(c, path, who) ==
    LET at == resolve_inode(c, path)
        r == c[at]
        p == inode_slot_by_id(c, r.par)
        rest == [c EXCEPT ![child_slot_by_name(c, r.par, r.name)] = None]
    IN IF at = None THEN Refused
       ELSE IF r.kind = "dir" THEN Refused
       ELSE IF p = None THEN Failed(c)
       ELSE IF ~allows(c[p], who) THEN Failed(c)
       ELSE Done(set_link_count(rest, r.ino, link_count(rest, r.ino)))

rename(c, old, new, who) ==
    LET src == resolve_inode(c, old)
        at == parent_and_name(c, new)
        r == c[src]
        p == inode_slot_by_id(c, r.par)
    IN IF src = None \/ at = None THEN Refused
       ELSE IF p = None \/ ~CanEnter(c, at, who) THEN Failed(c)
       ELSE IF ~allows(c[p], who) THEN Failed(c)
       ELSE Done([c EXCEPT ![child_slot_by_name(c, r.par, r.name)].par = at.par,
                           ![child_slot_by_name(c, r.par, r.name)].name = at.name])

\* Bytes go into the first record of the inode only.
pwrite(c, ino, offset, count) ==
    LET at == inode_slot_by_id(c, ino)
        end == offset + count
    IN IF at = None \/ end > INLINE THEN Refused
       ELSE IF c[at].kind = "dir" THEN Refused
       ELSE Done([c EXCEPT ![at].size = Max({@, end}), ![at].len = Max({@, end})])

chmod(c, path, mode, who) ==
    LET at == resolve_inode(c, path)
    IN IF at = None \/ who = "user" THEN Refused
       ELSE Done([i \in DOMAIN c |-> IF i \in Records(c, c[at].ino) THEN [c[i] EXCEPT !.mode = mode] ELSE c[i]])

\* truncate and ftruncate; growing a file is allowed, its new bytes have no sector.
truncate(c, path, size, who) ==
    LET at == resolve_inode(c, path)
    IN IF at = None THEN Refused
       ELSE IF ~allows(c[at], who) THEN Refused
       ELSE Done([i \in DOMAIN c |-> IF i \in Records(c, c[at].ino)
                THEN [c[i] EXCEPT !.size = size, !.len = Min({@, Min({size, INLINE})})] ELSE c[i]])

Paths == {<<a>> : a \in Names} \cup {<<a, a>> : a \in Names}
Calls(c) ==
    UNION {{mkdir(c, p, w), rmdir(c, p, w), unlink(c, p, w), symlink(c, p, INLINE, w),
            symlink(c, p, INLINE + 1, w), chmod(c, p, "r", w), truncate(c, p, 0, w)} :
               p \in Paths, w \in Callers}
    \cup {rename(c, p, q, w) : p \in Paths \cup {<<>>}, q \in Paths, w \in Callers}
    \cup {link(c, p, q, w) : p \in Paths, q \in Paths, w \in Callers}
    \cup {pwrite(c, c[i].ino, 0, n) : i \in Used(c), n \in 1 .. INLINE + 1}
    \* write_superblock_to_block_device journals another sector
    \cup {[Done(c) EXCEPT !.target = "super"]}

-----------------------------------------------------------------------------
(* The journal *)

Image(c, tx) == [tx |-> tx, recs |-> [i \in 0 .. PER_SECTOR - 1 |-> c[i]]]
Parsed(image) ==
    [i \in 0 .. MAX_INODE_RECORDS - 1 |-> IF i < PER_SECTOR THEN image.recs[i] ELSE None]
Superblock == [tx |-> 0, recs |-> <<>>]

\* The records of a scanned journal: which transactions are complete, what comes next.
Has(records, kind, tx) == \E s \in Slot : records[s] # None /\ records[s].kind = kind /\ records[s].tx = tx

\* Mutant: a transaction that began counts as complete, its Commit record is not looked for.
CompleteUncommitted(records, s) == records[s] # None /\ Has(records, "begin", records[s].tx)

Complete(records, s) ==
    records[s] # None /\ records[s].kind = "commit" /\ Has(records, "begin", records[s].tx)

next_journal_slot(records) ==
    LET top == Max({records[s].tx : s \in Slot})
    IN IF \E s \in Slot : records[s] = None THEN Least({s \in Slot : records[s] = None})
       ELSE (Max({s \in Slot : records[s].tx = top}) + 1) % SLOTS

\* apply_transaction_records: the sectors after it; a payload that does not match its
\* checksum stops it.
Writes(records, tx) ==
    {s \in Slot : records[s] # None /\ records[s].kind = "write" /\ records[s].tx = tx}
Mismatch(d, records, tx) == \E s \in Writes(records, tx) : d.pay[s] # records[s].sum
Applied(d, records, tx) ==
    [d EXCEPT !.table = IF \E s \in Writes(records, tx) : records[s].target = "table"
                        THEN d.pay[Max({s \in Writes(records, tx) : records[s].target = "table"})]
                        ELSE @]

\* initialize_image, then the first mount.
Init ==
    LET c == [i \in 0 .. MAX_INODE_RECORDS - 1 |-> IF i = 0 THEN root ELSE None]
    IN /\ inodes = c /\ journal = [s \in Slot |-> None] /\ next_tx = 1 /\ next_slot = 0
       /\ disk = [table |-> Image(c, 0), rec |-> [s \in Slot |-> None],
                  pay |-> [s \in Slot |-> Superblock]]
       /\ pc = "idle" /\ op = None
       /\ commits = <<Image(c, 0)>> /\ acked = 1 /\ appended = 0 /\ crashes = 0

\* The end of append_journal_record: the record is known and the slot taken.
Logged(rec) ==
    /\ journal' = [journal EXCEPT ![next_slot] = rec]
    /\ next_slot' = (next_slot + 1) % SLOTS

\* begin_transaction, and the change of the table in memory under it. A check that fails
\* now leaves its Begin record behind.
Begin(r) ==
    LET rec == [kind |-> "begin", tx |-> next_tx, target |-> None, sum |-> None]
    IN /\ r.began
       /\ next_tx' = next_tx + 1
       /\ disk' = [disk EXCEPT !.rec[next_slot] = rec] /\ appended' = appended + 1
       /\ Logged(rec)
       /\ inodes' = r.cache
       /\ IF r.ok THEN pc' = "record" /\ op' = [tx |-> next_tx, target |-> r.target]
                  ELSE UNCHANGED <<pc, op>>
       /\ UNCHANGED <<commits, acked, crashes>>

\* The transaction number is spent even when its Begin record cannot be written.
BeginFails ==
    /\ pc = "idle" /\ next_tx <= MaxTx
    /\ next_tx' = next_tx + 1
    /\ UNCHANGED <<inodes, journal, next_slot, disk, pc, op, commits, acked, appended, crashes>>

Payload == IF op.target = "table" THEN Image(inodes, op.tx) ELSE Superblock
WriteRecord == [kind |-> "write", tx |-> op.tx, target |-> op.target, sum |-> Payload]

\* journal_write: the record's sector, then the payload's.
journal_record ==
    /\ pc = "record"
    /\ disk' = [disk EXCEPT !.rec[next_slot] = WriteRecord] /\ appended' = appended + 1
    /\ pc' = "payload"
    /\ UNCHANGED <<inodes, journal, next_tx, next_slot, op, commits, acked, crashes>>

journal_payload ==
    /\ pc = "payload"
    /\ disk' = [disk EXCEPT !.pay[next_slot] = Payload]
    /\ Logged(WriteRecord)
    /\ pc' = "commit"
    /\ UNCHANGED <<inodes, next_tx, op, commits, acked, appended, crashes>>

\* commit_transaction: the Commit record, then the payload to its place.
journal_commit ==
    LET rec == [kind |-> "commit", tx |-> op.tx, target |-> None, sum |-> None]
    IN /\ pc = "commit"
       /\ disk' = [disk EXCEPT !.rec[next_slot] = rec] /\ appended' = appended + 1
       /\ Logged(rec)
       /\ pc' = "apply"
       /\ commits' = IF op.target = "table" THEN commits \o <<Image(inodes, op.tx)>> ELSE commits
       /\ UNCHANGED <<inodes, next_tx, op, acked, crashes>>

apply ==
    /\ pc = "apply"
    /\ disk' = Applied(disk, journal, op.tx)
    /\ pc' = "idle" /\ op' = None
    /\ acked' = IF op.target = "table" THEN Len(commits) ELSE acked
    /\ UNCHANGED <<inodes, journal, next_tx, next_slot, commits, appended, crashes>>

\* The device refuses the write a call is about to make: the call returns an error.
DeviceFails ==
    /\ pc \in {"record", "payload", "commit", "apply"}
    /\ pc' = "idle" /\ op' = None
    /\ UNCHANGED <<inodes, journal, next_tx, next_slot, disk, commits, acked, appended, crashes>>

Crash ==
    /\ pc # "down" /\ crashes < MaxCrashes
    /\ crashes' = crashes + 1
    /\ pc' = "down" /\ op' = None
    /\ UNCHANGED <<inodes, journal, next_tx, next_slot, disk, commits, acked, appended>>

\* refresh_from_block_device: the table as it is on disk, then scan_journal.
mount ==
    /\ pc = "down"
    /\ inodes' = Parsed(disk.table) /\ journal' = disk.rec
    /\ pc' = "replay" /\ op' = [at |-> 0]
    /\ UNCHANGED <<next_tx, next_slot, disk, commits, acked, appended, crashes>>

\* replay_valid_journal_records, a slot at a time; a mismatch ends the mount.
replay ==
    /\ pc = "replay" /\ op.at \in Slot
    /\ LET tx == journal[op.at].tx
       IN IF ~Complete(journal, op.at) THEN op' = [at |-> op.at + 1] /\ UNCHANGED <<disk, pc>>
          ELSE IF Mismatch(disk, journal, tx) THEN pc' = "refused" /\ UNCHANGED <<disk, op>>
          ELSE /\ disk' = Applied(disk, journal, tx)
               /\ op' = [at |-> op.at + 1] /\ UNCHANGED pc
    /\ UNCHANGED <<inodes, journal, next_tx, next_slot, commits, acked, appended, crashes>>

\* replay_journal after the replay: the table is read again and the counters are set.
mounted ==
    /\ pc = "replay" /\ op.at = SLOTS
    /\ inodes' = Parsed(disk.table)
    /\ next_tx' = 1 + Max({0} \cup {journal[s].tx : s \in {t \in Slot : journal[t] # None}})
    /\ next_slot' = next_journal_slot(journal)
    /\ pc' = "fresh" /\ op' = None
    /\ UNCHANGED <<journal, disk, commits, acked, appended, crashes>>

\* The mount has returned; calls may come.
serve ==
    /\ pc = "fresh"
    /\ pc' = "idle"
    /\ UNCHANGED <<inodes, journal, next_tx, next_slot, disk, op, commits, acked, appended, crashes>>

Next ==
    \/ pc = "idle" /\ next_tx <= MaxTx /\ \E r \in Calls(inodes) : Begin(r)
    \/ BeginFails \/ journal_record \/ journal_payload \/ journal_commit \/ apply
    \/ DeviceFails \/ Crash \/ mount \/ replay \/ mounted \/ serve

-----------------------------------------------------------------------------
\* In a directory a name leads to one record, and a record never counts fewer links than
\* the inode has records; exactly as many until a mount has dropped records.
TreeSound ==
    \A i \in Used(inodes) :
        /\ \A j \in Used(inodes) \ {i} :
              inodes[i].par = inodes[j].par => inodes[i].name # inodes[j].name
        /\ inodes[i].links >= link_count(inodes, inodes[i].ino)
        /\ crashes = 0 => inodes[i].links = link_count(inodes, inodes[i].ino)

\* A mount is never refused over a transaction that was cut short, and the table it finds is
\* that of one committed transaction. Until the journal has wrapped it is the last one a
\* call was told of, or one whose Commit record came after.
RecoversCommitted ==
    /\ pc # "refused"
    /\ pc = "fresh" =>
          /\ \E k \in 1 .. Len(commits) : disk.table = commits[k] /\ inodes = Parsed(commits[k])
          /\ appended <= SLOTS => \E k \in acked .. Len(commits) : disk.table = commits[k]

\* "Fixed-width journal descriptor for replay-safe metadata and data updates"
\* (qfs_format.rs): a mount gives back the table of the last transaction a call was told of,
\* or a later one.
RecoversLast == pc = "fresh" => \E k \in acked .. Len(commits) : disk.table = commits[k]
=============================================================================

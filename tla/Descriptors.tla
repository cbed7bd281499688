---------------------------- MODULE Descriptors ----------------------------
(***************************************************************************)
(* File descriptors: the table of open file descriptions (kernel/fs/file), *)
(* the descriptor tables of processes (kernel/process) and the descriptor  *)
(* system calls of kernel/mod.rs, with pipes, event counters and sockets.  *)
(*                                                                         *)
(* A call is one action: the kernel is entered one call at a time. What    *)
(* another component decides (a path that does not resolve, an address     *)
(* space that cannot be cloned, a network daemon that refuses) is a choice.*)
(* Bytes written to a pipe are numbered modulo WRAP in the order of the    *)
(* writes, so that their order can be read off the ring.                   *)
(***************************************************************************)
EXTENDS Integers, FiniteSets, SequencesExt

CONSTANTS MAX_OPEN_FILES,         \* slots of the global table
          MAX_FDS,                \* slots of a process's table (the same constant in the code)
          MAX_KERNEL_PIPES, MAX_KERNEL_EVENTFDS, PIPE_BUFFER_BYTES,
          U64_MAX,                \* the largest value of an event counter
          WRAP, None, Pids, MaxCalls

VARIABLES open_files,   \* description -> [object, ref_count] or None
          files,        \* pid -> descriptor table, for processes that have one
          pipes,        \* slot -> [ring, head, len, readers, writers, sent] or None
          eventfds,     \* slot -> [counter, semaphore] or None
          next_socket,  \* next_socket_handle
          stray,        \* history: description -> references of tables that were dropped
          lost_pipes,   \* history: pipes allocated and never attached to a description
          calls

vars == <<open_files, files, pipes, eventfds, next_socket, stray, lost_pipes, calls>>

Descriptions == 0 .. MAX_OPEN_FILES - 1
Fds == 0 .. MAX_FDS - 1
Least(S) == CHOOSE i \in S : \A j \in S : i <= j
Free(table) == {i \in DOMAIN table : table[i] = None}

\* The kernel tables as one record, threaded through the operations of a call.
Here == [open_files |-> open_files, pipes |-> pipes, eventfds |-> eventfds]
Become(result) ==
    \E s \in {result} :
       open_files' = s.open_files /\ pipes' = s.pipes /\ eventfds' = s.eventfds

-----------------------------------------------------------------------------
(* Pipes *)

\* PipeObject::new, with one reader and one writer.
NewPipe == [ring |-> [i \in 0 .. PIPE_BUFFER_BYTES - 1 |-> 0], head |-> 0, len |-> 0,
            readers |-> 1, writers |-> 1, sent |-> 0]

is_readable(p) == p.len > 0 \/ p.writers = 0
is_writable(p) == p.readers > 0 /\ p.len < PIPE_BUFFER_BYTES

\* Mutant: the head stays.
ReadInPlace(p, count) == [p EXCEPT !.len = @ - count]

pipe_read(p, count) ==
    [p EXCEPT !.head = (@ + count) % PIPE_BUFFER_BYTES, !.len = @ - count]

pipe_write(p, count) ==
    LET at(k) == (p.head + p.len + k) % PIPE_BUFFER_BYTES
        byte(i) == {k \in 0 .. count - 1 : at(k) = i}
    IN [p EXCEPT !.ring = [i \in DOMAIN p.ring |->
                              IF byte(i) = {} THEN p.ring[i]
                              ELSE (p.sent + Least(byte(i))) % WRAP],
                 !.len = @ + count, !.sent = (@ + count) % WRAP]

release_pipe_endpoint(s, object) ==
    LET p == s.pipes[object.id]
        q == IF object.dir = "Read" THEN [p EXCEPT !.readers = IF @ = 0 THEN 0 ELSE @ - 1]
             ELSE [p EXCEPT !.writers = IF @ = 0 THEN 0 ELSE @ - 1]
    IN IF p = None THEN s
       ELSE [s EXCEPT !.pipes[object.id] =
                 IF q.readers = 0 /\ q.writers = 0 THEN None ELSE q]

release_eventfd(s, object) == [s EXCEPT !.eventfds[object.id] = None]

-----------------------------------------------------------------------------
(* Open file descriptions *)

Object(kind, id, dir) == [kind |-> kind, id |-> id, dir |-> dir]

\* The caller has seen a free slot; Full otherwise.
insert_object(s, object) ==
    [s EXCEPT !.open_files[Least(Free(s.open_files))] = [object |-> object, ref_count |-> 1]]

\* The caller has seen the description; InvalidDescriptor otherwise.
increment_ref_count(s, d) == [s EXCEPT !.open_files[d].ref_count = @ + 1]

\* FileTable::close and what the last reference releases.
close_open_description(s, d) ==
    LET e == s.open_files[d]
        gone == [s EXCEPT !.open_files[d] = None]
    IN CASE e = None -> s
         [] e # None /\ e.ref_count > 1 -> [s EXCEPT !.open_files[d].ref_count = @ - 1]
         [] OTHER ->
              CASE e.object.kind = "Pipe" -> release_pipe_endpoint(gone, e.object)
                [] e.object.kind = "EventFd" -> release_eventfd(gone, e.object)
                [] OTHER -> gone

\* release_description_ids: one close for each entry, in descriptor order.
release_description_ids(s, closed) ==
    FoldLeft(LAMBDA acc, i : IF closed[i - 1] = None THEN acc
                             ELSE close_open_description(acc, closed[i - 1].description),
             s, [i \in 1 .. MAX_FDS |-> i])

-----------------------------------------------------------------------------
(* Descriptor tables *)

Entry(d, cloexec) == [description |-> d, cloexec |-> cloexec]
NoFiles == [i \in Fds |-> None]

\* open_at_or_above: None when there is no free descriptor from min_fd on.
open_at_or_above(table, min_fd) ==
    LET free == {i \in Free(table) : i >= min_fd} IN IF free = {} THEN None ELSE Least(free)

close_on_exec(table) ==
    LET gone(i) == table[i] # None /\ table[i].cloexec
    IN [kept |-> [i \in Fds |-> IF gone(i) THEN None ELSE table[i]],
        closed |-> [i \in Fds |-> IF gone(i) THEN table[i] ELSE None]]

\* ensure_process_console_descriptors: descriptors 1 and 2 name a console if they name
\* nothing; [s, table, ok], where the table may have grown also when it fails.
ensure_process_console_descriptors(s, table) ==
    FoldLeft(LAMBDA acc, fd :
                 IF ~acc.ok \/ acc.table[fd] # None THEN acc
                 ELSE IF Free(acc.s.open_files) = {} THEN [acc EXCEPT !.ok = FALSE]
                 ELSE [acc EXCEPT !.s = insert_object(@, Object("Console", fd, "-")),
                                  !.table[fd] = Entry(Least(Free(acc.s.open_files)), FALSE)],
             [s |-> s, table |-> table, ok |-> TRUE], <<1, 2>>)

\* inherit_process_file_table: every description the parent names is counted once more,
\* and the ones already counted are given back when one turns out to be gone.
inherit_process_file_table(s, table) ==
    LET named(i) == {j \in 0 .. i - 1 : table[j] # None}
        gone == {i \in named(MAX_FDS) : s.open_files[table[i].description] = None}
        upto == IF gone = {} THEN MAX_FDS ELSE Least(gone)
        times(d) == Cardinality({j \in named(upto) : table[j].description = d})
        counted == [s EXCEPT !.open_files =
                       [d \in Descriptions |-> IF times(d) = 0 THEN @[d]
                                               ELSE [@[d] EXCEPT !.ref_count = @ + times(d)]]]
        prefix == [i \in Fds |-> IF i < upto THEN table[i] ELSE None]
    IN IF gone = {} THEN [s |-> counted, ok |-> TRUE]
       ELSE [s |-> release_description_ids(counted, prefix), ok |-> FALSE]

-----------------------------------------------------------------------------
(* The calls *)

Call(p) == calls < MaxCalls /\ calls' = calls + 1

\* fd_description and fd_object, for a descriptor that names something.
Named(p) == {fd \in Fds : files[p][fd] # None}
fd_description(p, fd) == files[p][fd].description
fd_object(p, fd) == open_files[fd_description(p, fd)].object
Holds(p, fd, kind) ==
    fd \in Named(p) /\ open_files[fd_description(p, fd)] # None /\ fd_object(p, fd).kind = kind

\* insert_object and open, as every call that makes a descriptor chains them: s0 is the
\* state with what the object stands for, full the state a full table leaves behind.
Attach(p, s0, full, object, cloexec) ==
    LET d == Least(Free(s0.open_files))
        s1 == insert_object(s0, object)
        fd == open_at_or_above(files[p], 0)
    IN IF Free(s0.open_files) = {} THEN Become(full) /\ UNCHANGED files
       ELSE IF fd = None THEN Become(close_open_description(s1, d)) /\ UNCHANGED files
       ELSE Become(s1) /\ files' = [files EXCEPT ![p][fd] = Entry(d, cloexec)]

syscall_openat(p, cloexec) ==
    /\ Call(p)
    /\ Attach(p, Here, Here, Object("Regular", 0, "-"), cloexec)
    /\ UNCHANGED <<next_socket, stray, lost_pipes>>

syscall_eventfd(p, initial, semaphore, cloexec) ==
    LET id == Least(Free(eventfds)) IN
    /\ Call(p) /\ Free(eventfds) # {}
    /\ Attach(p, [Here EXCEPT !.eventfds[id] = [counter |-> initial, semaphore |-> semaphore]],
              Here, Object("EventFd", id, "-"), cloexec)
    /\ UNCHANGED <<next_socket, stray, lost_pipes>>

\* socket and accept: the request to the network daemon is sent last, and a descriptor
\* whose request was refused is closed again. The handle is not given back.
syscall_socket(p, delivered) ==
    /\ Call(p)
    /\ next_socket' = next_socket + 1
    /\ IF delivered THEN Attach(p, Here, Here, Object("Socket", next_socket, "-"), FALSE)
       ELSE Become(Here) /\ UNCHANGED files
    /\ UNCHANGED <<stray, lost_pipes>>

syscall_accept(p, fd, delivered) == Holds(p, fd, "Socket") /\ syscall_socket(p, delivered)

RollBack(s, r, w) == close_open_description(close_open_description(s, r), w)

\* pipe2: a pipe, two descriptions, two descriptors. Every failure undoes what was done,
\* but for the first: a full table of descriptions leaves the pipe allocated.
syscall_pipe2(p, cloexec) ==
    LET id == Least(Free(pipes))
        s0 == [Here EXCEPT !.pipes[id] = NewPipe]
        r == Least(Free(open_files))
        s1 == insert_object(s0, Object("Pipe", id, "Read"))
        w == Least(Free(s1.open_files))
        s2 == insert_object(s1, Object("Pipe", id, "Write"))
        rfd == open_at_or_above(files[p], 0)
        t1 == [files[p] EXCEPT ![rfd] = Entry(r, cloexec)]
        wfd == open_at_or_above(t1, 0)
        freed(s) == [s EXCEPT !.pipes[id] = None]
    IN /\ Call(p) /\ Free(pipes) # {}
       /\ UNCHANGED <<next_socket, stray>>
       /\ CASE Free(open_files) = {} ->
                 Become(s0) /\ UNCHANGED files /\ lost_pipes' = lost_pipes \cup {id}
            [] Cardinality(Free(open_files)) = 1 ->
                 Become(freed(close_open_description(s1, r))) /\ UNCHANGED <<files, lost_pipes>>
            [] OTHER ->
                 /\ UNCHANGED lost_pipes
                 /\ IF rfd = None \/ wfd = None
                    THEN Become(freed(RollBack(s2, r, w))) /\ UNCHANGED files
                    ELSE /\ Become(s2)
                         /\ files' = [files EXCEPT ![p] = [t1 EXCEPT ![wfd] = Entry(w, cloexec)]]

\* dup and fcntl(F_DUPFD, F_DUPFD_CLOEXEC).
duplicate_fd(p, old, min_fd, cloexec) ==
    LET d == fd_description(p, old)
        s1 == increment_ref_count(Here, d)
        fd == open_at_or_above(files[p], min_fd)
    IN /\ Call(p) /\ old \in Named(p) /\ open_files[d] # None
       /\ IF fd = None THEN Become(close_open_description(s1, d)) /\ UNCHANGED files
          ELSE Become(s1) /\ files' = [files EXCEPT ![p][fd] = Entry(d, cloexec)]
       /\ UNCHANGED <<next_socket, stray, lost_pipes>>

\* dup2 and dup3: the new reference is counted, then what the new descriptor named before
\* is closed. dup3 refuses old = new, dup2 does nothing.
duplicate_fd_to(p, old, new, cloexec) ==
    LET d == fd_description(p, old)
        s1 == increment_ref_count(Here, d)
        previous == files[p][new]
    IN /\ Call(p) /\ old \in Named(p) /\ open_files[d] # None /\ old # new
       /\ Become(IF previous = None THEN s1 ELSE close_open_description(s1, previous.description))
       /\ files' = [files EXCEPT ![p][new] = Entry(d, cloexec)]
       /\ UNCHANGED <<next_socket, stray, lost_pipes>>

\* fcntl(F_SETFD).
set_flags(p, fd, cloexec) ==
    /\ Call(p) /\ fd \in Named(p)
    /\ files' = [files EXCEPT ![p][fd].cloexec = cloexec]
    /\ UNCHANGED <<open_files, pipes, eventfds, next_socket, stray, lost_pipes>>

syscall_close(p, fd) ==
    /\ Call(p) /\ fd \in Named(p)
    /\ files' = [files EXCEPT ![p][fd] = None]
    /\ Become(close_open_description(Here, fd_description(p, fd)))
    /\ UNCHANGED <<next_socket, stray, lost_pipes>>

\* read from a pipe or an event counter; a call on the wrong end is refused.
syscall_read(p, fd, count) ==
    LET o == fd_object(p, fd)
        e == eventfds[o.id]
    IN /\ Call(p)
       /\ \/ /\ Holds(p, fd, "Pipe") /\ o.dir = "Read" /\ pipes[o.id] # None
             /\ pipes' = [pipes EXCEPT ![o.id] =
                              pipe_read(@, IF count < @.len THEN count ELSE @.len)]
             /\ UNCHANGED eventfds
          \/ /\ Holds(p, fd, "EventFd") /\ e # None /\ e.counter > 0
             /\ eventfds' = [eventfds EXCEPT ![o.id].counter = IF e.semaphore THEN @ - 1 ELSE 0]
             /\ UNCHANGED pipes
       /\ UNCHANGED <<open_files, files, next_socket, stray, lost_pipes>>

room(p, count) == LET r == PIPE_BUFFER_BYTES - p.len IN IF count < r THEN count ELSE r
checked_add(e, value) == IF e + value > U64_MAX THEN None ELSE e + value

\* write to a pipe with readers, or to an event counter that stays within its width.
syscall_write(p, fd, count) ==
    LET o == fd_object(p, fd)
        sum == checked_add(eventfds[o.id].counter, count)
    IN /\ Call(p)
       /\ \/ /\ Holds(p, fd, "Pipe") /\ o.dir = "Write"
             /\ pipes[o.id] # None /\ pipes[o.id].readers > 0
             /\ pipes' = [pipes EXCEPT ![o.id] = pipe_write(@, room(@, count))]
             /\ UNCHANGED eventfds
          \/ /\ Holds(p, fd, "EventFd") /\ eventfds[o.id] # None /\ count # U64_MAX
             /\ sum # None
             /\ eventfds' = [eventfds EXCEPT ![o.id].counter = sum]
             /\ UNCHANGED pipes
       /\ UNCHANGED <<open_files, files, next_socket, stray, lost_pipes>>

\* The descriptor table of a process under creation (create_process_task and
\* create_cloned_process_shell): inherited, given consoles, and released by every failure
\* after that but one. The address space is cloned after inheriting in the first and after
\* the consoles in the second, and the table is dropped as it is when that fails.
References(table, d) == Cardinality({fd \in Fds : table[fd] # None /\ table[fd].description = d})

create_process_task(parent, child, failure) ==
    LET i == inherit_process_file_table(Here, files[parent])
        c == ensure_process_console_descriptors(i.s, files[parent])
        dropped(s, table) ==
            /\ Become(s) /\ UNCHANGED files
            /\ stray' = [d \in Descriptions |-> stray[d] + References(table, d)]
    IN /\ Call(parent) /\ child \in Pids \ DOMAIN files
       /\ UNCHANGED <<next_socket, lost_pipes>>
       /\ CASE ~i.ok -> Become(i.s) /\ UNCHANGED <<files, stray>>
            [] i.ok /\ failure = "clone_user_address_space" -> dropped(i.s, files[parent])
            [] i.ok /\ failure # "clone_user_address_space" /\ ~c.ok ->
                 Become(release_description_ids(c.s, c.table)) /\ UNCHANGED <<files, stray>>
            [] i.ok /\ c.ok /\ failure = "share_user_address_space" -> dropped(c.s, c.table)
            [] i.ok /\ c.ok /\ failure = "later" ->
                 Become(release_description_ids(c.s, c.table)) /\ UNCHANGED <<files, stray>>
            [] OTHER -> /\ Become(c.s) /\ UNCHANGED stray
                        /\ files' = [q \in DOMAIN files \cup {child} |->
                                        IF q = child THEN c.table ELSE files[q]]

\* exec_task closes what is marked before it replaces the image.
exec_task(p) ==
    LET e == close_on_exec(files[p]) IN
    /\ Call(p)
    /\ files' = [files EXCEPT ![p] = e.kept]
    /\ Become(release_description_ids(Here, e.closed))
    /\ UNCHANGED <<next_socket, stray, lost_pipes>>

\* exit_process: release_process_file_table. The table stays with the zombie, empty.
exit_process(p) ==
    /\ Call(p) /\ Cardinality(DOMAIN files) > 1
    /\ files' = [q \in DOMAIN files \ {p} |-> files[q]]
    /\ Become(release_description_ids(Here, files[p]))
    /\ UNCHANGED <<next_socket, stray, lost_pipes>>

\* descriptor_readiness for POLLIN and POLLOUT; other objects are always ready.
Readiness(object) ==
    CASE object.kind = "Pipe" /\ object.dir = "Read" ->
             IF is_readable(pipes[object.id]) THEN {"POLLIN"} ELSE {}
      [] object.kind = "Pipe" /\ object.dir = "Write" ->
             IF is_writable(pipes[object.id]) THEN {"POLLOUT"} ELSE {}
      [] object.kind = "EventFd" ->
             LET e == eventfds[object.id] IN
             (IF e.counter > 0 THEN {"POLLIN"} ELSE {})
                 \cup (IF e.counter <= U64_MAX - 2 THEN {"POLLOUT"} ELSE {})
      [] OTHER -> {"POLLIN", "POLLOUT"}

-----------------------------------------------------------------------------
Failures == {"none", "clone_user_address_space", "share_user_address_space", "later"}

\* One process, with its two consoles, and with a pipe of its own or without.
Init ==
    LET p == Least(Pids)
        none == [open_files |-> [d \in Descriptions |-> None],
                 pipes |-> [i \in 0 .. MAX_KERNEL_PIPES - 1 |-> None],
                 eventfds |-> [i \in 0 .. MAX_KERNEL_EVENTFDS - 1 |-> None]]
        c == ensure_process_console_descriptors(none, NoFiles)
        ends == insert_object(insert_object([c.s EXCEPT !.pipes[0] = NewPipe],
                                            Object("Pipe", 0, "Read")), Object("Pipe", 0, "Write"))
    IN /\ \/ /\ open_files = c.s.open_files /\ pipes = c.s.pipes /\ files = [q \in {p} |-> c.table]
          \/ /\ open_files = ends.open_files /\ pipes = ends.pipes
             /\ files = [q \in {p} |-> [c.table EXCEPT ![0] = Entry(2, TRUE), ![3] = Entry(3, TRUE)]]
       /\ eventfds = none.eventfds
       /\ next_socket = 1 /\ calls = 0
       /\ stray = [d \in Descriptions |-> 0] /\ lost_pipes = {}

\* Flags are varied where exec reads them: on pipes and by fcntl.
Next == \E p \in DOMAIN files :
    \/ syscall_openat(p, FALSE)
    \/ \E x \in BOOLEAN : syscall_pipe2(p, x)
    \/ \E sem \in BOOLEAN : syscall_eventfd(p, IF sem THEN 1 ELSE 0, sem, FALSE)
    \/ \E ok \in BOOLEAN : syscall_socket(p, ok)
    \/ \E fd \in Fds : syscall_accept(p, fd, TRUE) \/ syscall_close(p, fd) \/ set_flags(p, fd, TRUE)
    \/ \E fd \in Fds, min \in {0, MAX_FDS - 1} : duplicate_fd(p, fd, min, FALSE)
    \/ \E fd, new \in Fds : duplicate_fd_to(p, fd, new, FALSE)
    \/ \E fd \in Fds, n \in 1 .. U64_MAX : syscall_read(p, fd, n) \/ syscall_write(p, fd, n)
    \/ \E q \in Pids, f \in Failures : create_process_task(p, q, f)
    \/ exec_task(p) \/ exit_process(p)

Spec == Init /\ [][Next]_vars

-----------------------------------------------------------------------------
\* Every open description is counted exactly: once for each descriptor that names it,
\* in any process, and for the tables that were dropped while counted; a description
\* nobody names is gone, and no descriptor names one that is gone.
RefsCounted ==
    \A d \in Descriptions :
        LET named == Cardinality({pf \in (DOMAIN files) \X Fds :
                        files[pf[1]][pf[2]] # None /\ files[pf[1]][pf[2]].description = d})
        IN IF open_files[d] = None THEN named = 0 /\ stray[d] = 0
           ELSE named + stray[d] = open_files[d].ref_count

\* A pipe has as many readers and writers as descriptions that read and write it, so that
\* end of file and a broken pipe are seen when, and only when, the other side is closed;
\* a description's pipe or event counter exists and is nobody else's.
EndsAttached ==
    LET of(kind, id, dir) == {d \in Descriptions : open_files[d] # None
                                 /\ open_files[d].object = Object(kind, id, dir)}
    IN /\ \A i \in DOMAIN pipes :
            LET r == Cardinality(of("Pipe", i, "Read"))
                w == Cardinality(of("Pipe", i, "Write"))
            IN CASE pipes[i] = None -> r = 0 /\ w = 0
                 [] i \in lost_pipes -> r = 0 /\ w = 0 /\ pipes[i] = NewPipe
                 [] OTHER -> pipes[i].readers = r /\ pipes[i].writers = w /\ r + w > 0
       /\ \A i \in DOMAIN eventfds :
            Cardinality(of("EventFd", i, "-")) = IF eventfds[i] = None THEN 0 ELSE 1

\* The unread bytes of a pipe are the last ones written, in the order of the writes.
BytesInOrder ==
    \A i \in DOMAIN pipes : pipes[i] # None =>
        LET q == pipes[i] IN
        /\ q.len <= PIPE_BUFFER_BYTES
        /\ \A k \in 0 .. q.len - 1 :
              q.ring[(q.head + k) % PIPE_BUFFER_BYTES] = (q.sent - q.len + k) % WRAP

\* What poll calls ready, a call does not refuse: a readable pipe yields a byte or the end
\* of the file, a writable one takes a byte, a readable counter has a value and a writable
\* one takes a step.
ReadyIsHonest ==
    \A d \in Descriptions : open_files[d] # None =>
        LET o == open_files[d].object IN
        /\ o.kind = "Pipe" /\ "POLLIN" \in Readiness(o) =>
              pipes[o.id].len > 0
                 \/ \A e \in Descriptions : open_files[e] # None =>
                        open_files[e].object # Object("Pipe", o.id, "Write")
        /\ o.kind = "Pipe" /\ "POLLOUT" \in Readiness(o) =>
              room(pipes[o.id], 1) = 1 /\ pipes[o.id].readers > 0
        /\ o.kind = "EventFd" /\ "POLLOUT" \in Readiness(o) =>
              checked_add(eventfds[o.id].counter, 1) # None
=============================================================================

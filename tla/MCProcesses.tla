---------------------------- MODULE MCProcesses ----------------------------
(***************************************************************************)
(* What a process owns and how processes relate: the security broker on    *)
(* two sets of credentials, the descriptor tables, and the process tree    *)
(* with its signals and timers; one of them per behaviour.                 *)
(***************************************************************************)
EXTENDS SecurityKernel, ProcessTree

VARIABLES part,
          open_files, files, pipes, eventfds, next_socket, stray, lost_pipes, fcalls   \* Descriptors

fileVars == <<open_files, files, pipes, eventfds, next_socket, stray, lost_pipes, fcalls>>
MCVars == <<part, vars, fileVars, treeVars>>

-----------------------------------------------------------------------------
\* Two domains at a time. Unprivileged credentials with five capability records, so that
\* both tables run full; and credentials that hold privileges, with room for all the
\* records they are seeded with.
Users == [records |-> 5, pids |-> {1, 2, 3}, ids |-> 8, calls |-> 3,
          credentials |-> {Creds(p) : p \in {"user", "sealed", "spawner"}}]
Privileged == [records |-> 12, pids |-> {1, 2}, ids |-> 18, calls |-> 2,
               credentials |-> {Creds(p) : p \in {"user", "kernel", "driver"}}]
UsersAndPrivileged == {Users, Privileged}

\* Five descriptions, four descriptors to a process, two bytes to a pipe: each runs full.
Files == INSTANCE Descriptors WITH
    MAX_OPEN_FILES <- 5, MAX_FDS <- 4, MAX_KERNEL_PIPES <- 2, MAX_KERNEL_EVENTFDS <- 1,
    PIPE_BUFFER_BYTES <- 2, U64_MAX <- 3, WRAP <- 4, Pids <- {1, 2}, MaxCalls <- 4,
    calls <- fcalls

\* The timers of the process tree: one shot, and two periods.
Settings == {[deadline |-> 1, interval |-> 0], [deadline |-> 1, interval |-> 1], [deadline |-> 2, interval |-> 1]}

MCInit ==
    /\ part \in {"security", "files", "tree"}
    /\ Init /\ (part # "security" => setup = Users)
    /\ Files!Init /\ (part # "files" => pipes[0] = None)
    /\ TreeInit

MCNext ==
    /\ UNCHANGED part
    /\ \/ part = "security" /\ Next /\ UNCHANGED <<fileVars, treeVars>>
       \/ part = "files" /\ Files!Next /\ UNCHANGED <<vars, treeVars>>
       \/ part = "tree" /\ TreeNext /\ UNCHANGED <<vars, fileVars>>

MCSpec == MCInit /\ [][MCNext]_MCVars

-----------------------------------------------------------------------------
\* Open descriptions are counted exactly, through dup, fork, exec, exit and calls that fail
\* half way; a pipe is at its end when the other side is closed and not before; bytes come
\* out in the order they went in; and what poll reports as ready can be done.
DescriptorsSound ==
    part = "files" => /\ Files!RefsCounted /\ Files!EndsAttached
                      /\ Files!BytesInOrder /\ Files!ReadyIsHonest
=============================================================================

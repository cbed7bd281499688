---------------------------- MODULE ProcessTree ----------------------------
(***************************************************************************)
(* The process table as a tree: groups, sessions, signals, waiting for     *)
(* children, sleeps and interval timers (kernel/mod.rs, kernel/process.rs, *)
(* kernel/timer.rs). Processes have one thread here; which thread runs is  *)
(* the subject of KernelSched.                                             *)
(*                                                                         *)
(* Time counts ticks. A process that is blocked makes no calls and passes       *)
(* no checkpoint until something readies it.                               *)
(***************************************************************************)
EXTENDS Integers, Sequences

CONSTANTS MAX_PENDING_SIGNALS, SLEEP_CAP, TIMER_CAP, Nil, SIGKILL, SIGTERM, SIGCHLD,
          ProcessIds, Signals, Masks,     \* signals sent, sets of signals masked
          Durations, TimerSettings,       \* of sleeps; [deadline, interval] of timers
          MaxNow, MaxTreeCalls

VARIABLES procs,      \* pid -> its process control block or Nil
          next_pid, sleeps, timers, next_timer_id, now, tree_calls,
          status_of,  \* history: pid -> the status it ended with, 0 or a signal
          answers,    \* history: what wait reported
          deserted    \* history: waiting parents a child of whose group moved away

AllSignals == Signals \cup {SIGKILL, SIGTERM, SIGCHLD}
Waits == [kind : {"Any", "Pid", "Group"}, id : Int]
Blocks == [parent : ProcessIds \cup {Nil}, pgid : ProcessIds, sid : ProcessIds,
           state : {"Ready", "Blocked", "Zombie"}, status : AllSignals \cup {0, Nil},
           pending : [1 .. MAX_PENDING_SIGNALS -> AllSignals \cup {Nil}],
           handled : SUBSET AllSignals, mask : SUBSET AllSignals,
           active : AllSignals \cup {Nil}, wait : Waits \cup {Nil}]
Sleeps == [process : ProcessIds, deadline : Nat]
Timers == [owner : ProcessIds, id : Nat, armed : BOOLEAN, deadline : Nat, interval : Nat,
           first : Nat]

ASSUME TreeAssumption ==
    /\ ProcessIds # {} /\ ProcessIds \subseteq Nat \ {0}
    /\ MAX_PENDING_SIGNALS \in Nat /\ SLEEP_CAP \in Nat /\ TIMER_CAP \in Nat /\ MaxNow \in Nat
    /\ Masks \subseteq SUBSET Signals /\ Durations \subseteq Nat
    /\ TimerSettings \subseteq [deadline : Nat, interval : Nat]
    /\ Nil # 0 /\ Nil \notin ProcessIds \cup AllSignals
    /\ Nil \notin Waits /\ Nil \notin Blocks /\ Nil \notin Sleeps /\ Nil \notin Timers

treeVars == <<procs, next_pid, sleeps, timers, next_timer_id, now, tree_calls, status_of, answers, deserted>>

First(S) == CHOOSE i \in S : \A j \in S : i <= j
Free(table) == {i \in DOMAIN table : table[i] = Nil}
Exists(p) == p \in ProcessIds /\ procs[p] # Nil
Alive(p) == Exists(p) /\ procs[p].state # "Zombie"

-----------------------------------------------------------------------------
(* Pending signals *)

\* PendingSignalQueue::push: the first free slot, Full otherwise.
push(q, signal) == IF Free(q) = {} THEN q ELSE [q EXCEPT ![First(Free(q))] = signal]

\* The slots take_unmasked may take from.
deliverable(q, mask) ==
    {i \in DOMAIN q : q[i] # Nil /\ (q[i] = SIGKILL \/ q[i] \notin mask)}

NoSignals == [i \in 1 .. MAX_PENDING_SIGNALS |-> Nil]

\* queue_signal on the table, nothing when the process is gone.
queue_signal(table, p, signal) ==
    IF p = Nil \/ table[p] = Nil THEN table
    ELSE [table EXCEPT ![p].pending = push(@, signal)]

-----------------------------------------------------------------------------
(* Timers *)

\* The next deadline of a periodic timer that is due.
next_period(t) == [t EXCEPT !.deadline = @ + t.interval * ((now' - t.deadline) \div t.interval + 1)]

expired(t) == IF t.interval > 0 THEN next_period(t) ELSE [t EXCEPT !.armed = FALSE, !.deadline = 0]

Due(t) == t # Nil /\ t.armed /\ t.deadline <= now'

\* allocate_timer_id: the next number its owner does not use.
allocate_timer_id(owner) ==
    LET used == {timers[i].id : i \in {j \in DOMAIN timers :
                                       timers[j] # Nil /\ timers[j].owner = owner}}
    IN First({n \in next_timer_id .. next_timer_id + TIMER_CAP : n \notin used})

\* release_process of the timer manager.
release_sleeps(p) == [i \in DOMAIN sleeps |-> IF sleeps[i] # Nil /\ sleeps[i].process = p
                                              THEN Nil ELSE sleeps[i]]
release_timers(p) == [i \in DOMAIN timers |-> IF timers[i] # Nil /\ timers[i].owner = p
                                              THEN Nil ELSE timers[i]]

-----------------------------------------------------------------------------
(* Waiting *)

\* decode_child_wait_selector and ChildWaitSelector::matches.
decode_child_wait_selector(selector, pgid) ==
    CASE selector = -1 -> [kind |-> "Any", id |-> 0]
      [] selector = 0 -> [kind |-> "Group", id |-> pgid]
      [] selector > 0 -> [kind |-> "Pid", id |-> selector]
      [] OTHER -> [kind |-> "Group", id |-> -selector]

matches(w, p, pgid) == \/ w.kind = "Any"
                       \/ w.kind = "Pid" /\ w.id = p
                       \/ w.kind = "Group" /\ w.id = pgid

\* Mutant: only a wait for any child is ended by an exit.
WakeAnyOnly(table, child) ==
    LET parent == table[child].parent IN
    IF parent = Nil \/ table[parent] = Nil \/ table[parent].wait = Nil
       \/ table[parent].wait.kind # "Any" THEN table
    ELSE [table EXCEPT ![parent].wait = Nil,
                       ![parent].state = IF @ = "Blocked" THEN "Ready" ELSE @]

wake_parent_child_waiters(table, child) ==
    LET parent == table[child].parent IN
    IF parent = Nil \/ table[parent] = Nil \/ table[parent].wait = Nil
       \/ ~matches(table[parent].wait, child, table[child].pgid) THEN table
    ELSE [table EXCEPT ![parent].wait = Nil,
                       ![parent].state = IF @ = "Blocked" THEN "Ready" ELSE @]

\* exit_process, after which the parent has SIGCHLD if there is room for it and is ready
\* if it waited for this child.
Exited(table, p, status) ==
    LET zombie == [table EXCEPT ![p].state = "Zombie", ![p].status = status]
    IN wake_parent_child_waiters(queue_signal(zombie, table[p].parent, SIGCHLD), p)

-----------------------------------------------------------------------------
(* The calls *)

Call(p) == /\ Exists(p) /\ procs[p].state = "Ready"
           /\ tree_calls < MaxTreeCalls /\ tree_calls' = tree_calls + 1

NewPcb(parent, pgid, sid, actions, mask) ==
    [parent |-> parent, pgid |-> pgid, sid |-> sid, state |-> "Ready", status |-> Nil,
     pending |-> NoSignals, handled |-> actions, mask |-> mask, active |-> Nil, wait |-> Nil]

\* create_process_task for fork and spawn, create_cloned_process_shell for clone: group,
\* session and handlers are the parent's; a clone takes the mask of the calling thread and
\* shares handlers if asked to, a fork starts with nothing masked.
create_process(p, kind) ==
    LET parent == procs[p]
        mask == IF kind = "fork" THEN {} ELSE parent.mask
        handlers == IF kind = "clone" THEN {} ELSE parent.handled
    IN /\ Call(p) /\ next_pid \in ProcessIds
       /\ procs' = [procs EXCEPT ![next_pid] =
                       NewPcb(p, parent.pgid, parent.sid, handlers, mask)]
       /\ next_pid' = next_pid + 1
       /\ UNCHANGED <<sleeps, timers, next_timer_id, now, status_of, answers, deserted>>

\* exec: replace_process_image drops pending signals and the one being handled.
replace_process_image(p) ==
    /\ Call(p)
    /\ procs' = [procs EXCEPT ![p].pending = NoSignals, ![p].active = Nil]
    /\ UNCHANGED <<next_pid, sleeps, timers, next_timer_id, now, status_of, answers, deserted>>

Leave(p, status) ==
    /\ procs' = Exited(procs, p, status)
    /\ status_of' = [status_of EXCEPT ![p] = status]
    /\ sleeps' = release_sleeps(p) /\ timers' = release_timers(p)
    /\ UNCHANGED <<next_pid, next_timer_id, now, answers>>

syscall_exit(p) == Call(p) /\ Leave(p, 0) /\ UNCHANGED deserted

\* wait_for_child: a zombie that matches is reaped (the one in the lowest slot); with children that match and no
\* zombie the caller blocks, unless it said WNOHANG.
wait_for_child(p, selector, nohang) ==
    LET w == decode_child_wait_selector(selector, procs[p].pgid)
        children == {c \in ProcessIds : Exists(c) /\ procs[c].parent = p /\ matches(w, c, procs[c].pgid)}
        zombies == {c \in children : procs[c].state = "Zombie"}
    IN /\ Call(p) /\ children # {}
       /\ UNCHANGED <<next_pid, next_timer_id, now, status_of>>
       /\ IF zombies # {}
          THEN \E c \in zombies :
                   /\ procs' = [procs EXCEPT ![c] = Nil, ![p].wait = Nil]
                   /\ answers' = Append(answers, [parent |-> p, pid |-> c,
                                                  status |-> procs[c].status])
                   /\ sleeps' = release_sleeps(c) /\ timers' = release_timers(c)
                   /\ UNCHANGED deserted
          ELSE /\ ~nohang
               /\ procs' = [procs EXCEPT ![p].wait = w, ![p].state = "Blocked"]
               /\ deserted' = deserted \ {p}
               /\ UNCHANGED <<answers, sleeps, timers>>

may_set_group(p, target) ==
    (target = p \/ procs[target].parent = p) /\ procs[target].sid = procs[p].sid

Regroup(target, pgid, sid) ==
    LET parent == procs[target].parent
        left == /\ parent # Nil /\ Exists(parent) /\ procs[parent].wait # Nil
                /\ procs[parent].wait.kind = "Group" /\ procs[parent].wait.id = procs[target].pgid
    IN /\ procs' = [procs EXCEPT ![target].pgid = pgid, ![target].sid = sid]
       /\ deserted' = IF left THEN deserted \cup {parent} ELSE deserted

syscall_setpgid(p, target, pgid) ==
    /\ Call(p) /\ Exists(target) /\ may_set_group(p, target)
    /\ Regroup(target, pgid, procs[target].sid)
    /\ UNCHANGED <<next_pid, sleeps, timers, next_timer_id, now, status_of, answers>>

syscall_setsid(p) ==
    /\ Call(p) /\ procs[p].pgid # p
    /\ Regroup(p, p, p)
    /\ UNCHANGED <<next_pid, sleeps, timers, next_timer_id, now, status_of, answers>>

\* send_signal: a process, a group (selector below zero) or every process (zero).
syscall_kill(p, selector, signal) ==
    LET reached == {q \in ProcessIds : Alive(q) /\ (selector = 0 \/ procs[q].pgid = -selector)}
    IN /\ Call(p)
       /\ procs' = IF selector > 0 THEN queue_signal(procs, selector, signal)
                   ELSE [q \in ProcessIds |-> IF q \in reached
                                        THEN [procs[q] EXCEPT !.pending = push(@, signal)]
                                        ELSE procs[q]]
       /\ UNCHANGED <<next_pid, sleeps, timers, next_timer_id, now, status_of, answers, deserted>>

\* rt_sigaction, rt_sigprocmask and rt_sigreturn.
syscall_rt_sigaction(p, signal, handler) ==
    /\ Call(p)
    /\ procs' = [procs EXCEPT ![p].handled = IF handler THEN @ \cup {signal} ELSE @ \ {signal}]
    /\ UNCHANGED <<next_pid, sleeps, timers, next_timer_id, now, status_of, answers, deserted>>

syscall_rt_sigprocmask(p, how, set) ==
    /\ Call(p)
    /\ procs' = [procs EXCEPT ![p].mask = CASE how = 0 -> @ \cup set
                                            [] how = 1 -> @ \ set
                                            [] OTHER -> set]
    /\ UNCHANGED <<next_pid, sleeps, timers, next_timer_id, now, status_of, answers, deserted>>

syscall_rt_sigreturn(p) ==
    /\ Call(p) /\ procs[p].active # Nil
    /\ procs' = [procs EXCEPT ![p].active = Nil]
    /\ UNCHANGED <<next_pid, sleeps, timers, next_timer_id, now, status_of, answers, deserted>>

\* deliver_signal_checkpoint, before a thread runs and after each of its calls.
deliver_signal_checkpoint(p) ==
    LET slots == deliverable(procs[p].pending, procs[p].mask)
        i == First(slots)
        signal == procs[p].pending[i]
        taken == [procs EXCEPT ![p].pending[i] = Nil]
    IN /\ Exists(p) /\ procs[p].state = "Ready" /\ slots # {}
       /\ UNCHANGED <<tree_calls, deserted>>
       /\ IF signal \in {SIGKILL, SIGTERM} /\ signal \notin procs[p].handled
          THEN /\ procs' = Exited(taken, p, signal)
               /\ status_of' = [status_of EXCEPT ![p] = signal]
               /\ sleeps' = release_sleeps(p) /\ timers' = release_timers(p)
               /\ UNCHANGED <<next_pid, next_timer_id, now, answers>>
          ELSE /\ procs' = [taken EXCEPT ![p].active = signal]
               /\ UNCHANGED <<next_pid, sleeps, timers, next_timer_id, now, status_of, answers>>

\* nanosleep, and poll with a timeout: the sleep is recorded before the caller blocks.
syscall_nanosleep(p, duration) ==
    /\ Call(p) /\ Free(sleeps) # {}
    /\ sleeps' = [sleeps EXCEPT ![First(Free(sleeps))] = [process |-> p, deadline |-> now + duration]]
    /\ procs' = [procs EXCEPT ![p].state = "Blocked"]
    /\ UNCHANGED <<next_pid, timers, next_timer_id, now, status_of, answers, deserted>>

\* timer_create, timer_settime and timer_delete.
create_timer(p) ==
    LET id == allocate_timer_id(p) IN
    /\ Call(p) /\ Free(timers) # {}
    /\ timers' = [timers EXCEPT ![First(Free(timers))] =
                     [owner |-> p, id |-> id, armed |-> FALSE, deadline |-> 0, interval |-> 0,
                      first |-> 0]]
    /\ next_timer_id' = id + 1
    /\ UNCHANGED <<procs, next_pid, sleeps, now, status_of, answers, deserted>>

Mine(p) == {i \in DOMAIN timers : timers[i] # Nil /\ timers[i].owner = p}

set_timer(p, i, deadline, interval) ==
    /\ Call(p) /\ i \in Mine(p)
    /\ timers' = [timers EXCEPT ![i].armed = deadline # 0, ![i].deadline = deadline,
                                ![i].interval = interval, ![i].first = deadline]
    /\ UNCHANGED <<procs, next_pid, sleeps, next_timer_id, now, status_of, answers, deserted>>

delete_timer(p, i) ==
    /\ Call(p) /\ i \in Mine(p)
    /\ timers' = [timers EXCEPT ![i] = Nil]
    /\ UNCHANGED <<procs, next_pid, sleeps, next_timer_id, now, status_of, answers, deserted>>

\* A tick: wake_expired_timeouts drains the sleeps that are due, then the timers, each of
\* which readies its process if it is blocked.
tick ==
    LET slept == {i \in DOMAIN sleeps : sleeps[i] # Nil /\ sleeps[i].deadline <= now'}
        rung == {i \in DOMAIN timers : Due(timers[i])}
        woken == {sleeps[i].process : i \in slept} \cup {timers[i].owner : i \in rung}
    IN /\ now' \in now + 1 .. MaxNow
       /\ sleeps' = [i \in DOMAIN sleeps |-> IF i \in slept THEN Nil ELSE sleeps[i]]
       /\ timers' = [i \in DOMAIN timers |-> IF i \in rung THEN expired(timers[i]) ELSE timers[i]]
       /\ procs' = [p \in ProcessIds |-> IF p \in woken /\ Exists(p) /\ procs[p].state = "Blocked"
                                   THEN [procs[p] EXCEPT !.state = "Ready"] ELSE procs[p]]
       /\ UNCHANGED <<next_pid, next_timer_id, tree_calls, status_of, answers, deserted>>

-----------------------------------------------------------------------------
TreeInit ==
    LET p == First(ProcessIds) IN
    /\ procs = [q \in ProcessIds |-> IF q = p THEN NewPcb(Nil, p, p, {}, {}) ELSE Nil]
    /\ next_pid = p + 1
    /\ sleeps = [i \in 1 .. SLEEP_CAP |-> Nil] /\ timers = [i \in 1 .. TIMER_CAP |-> Nil]
    /\ next_timer_id = 1 /\ now = 0 /\ tree_calls = 0
    /\ status_of = [q \in ProcessIds |-> Nil] /\ answers = <<>> /\ deserted = {}

Selectors == {-1, 0} \cup ProcessIds \cup {-g : g \in ProcessIds}

TreeNext ==
    \/ tick
    \/ \E p \in ProcessIds :
        \/ \E kind \in {"fork", "clone", "clone_sighand"} : create_process(p, kind)
        \/ replace_process_image(p) \/ syscall_exit(p) \/ deliver_signal_checkpoint(p)
        \/ \E sel \in Selectors, nohang \in BOOLEAN : wait_for_child(p, sel, nohang)
        \/ \E t, g \in ProcessIds : syscall_setpgid(p, t, g)
        \/ syscall_setsid(p) \/ syscall_rt_sigreturn(p)
        \/ \E sel \in Selectors, signal \in Signals : syscall_kill(p, sel, signal)
        \/ \E signal \in Signals, handler \in BOOLEAN : syscall_rt_sigaction(p, signal, handler)
        \/ \E how \in 0 .. 2, mask \in Masks : syscall_rt_sigprocmask(p, how, mask)
        \/ \E d \in Durations : syscall_nanosleep(p, d)
        \/ create_timer(p)
        \/ \E i \in DOMAIN timers :
              delete_timer(p, i) \/ \E t \in TimerSettings : set_timer(p, i, t.deadline, t.interval)

TreeSpec == TreeInit /\ [][TreeNext]_treeVars

-----------------------------------------------------------------------------
\* Nobody sleeps for good: a blocked process has a sleep that will run out, or waits for a
\* child that has not exited and whose exit will ready it. The exception is a parent that
\* waits for a group its child has left since.
BlockedHasWaker ==
    \A p \in ProcessIds : Exists(p) /\ procs[p].state = "Blocked" =>
        \/ \E i \in DOMAIN sleeps : sleeps[i] # Nil /\ sleeps[i].process = p
        \/ /\ procs[p].wait # Nil
           /\ \/ p \in deserted
              \/ \E c \in ProcessIds : /\ Alive(c) /\ procs[c].parent = p
                                 /\ matches(procs[p].wait, c, procs[c].pgid)

\* A child's end is reported to its parent, once, with the status it ended with.
ReportedOnce ==
    \A i \in 1 .. Len(answers) :
        /\ answers[i].status = status_of[answers[i].pid] /\ answers[i].status # Nil
        /\ \A j \in 1 .. Len(answers) : answers[i].pid = answers[j].pid => i = j

\* A timer belongs to a process that has not exited and has a number of its own there; one
\* that has rung is next due in the future, a whole number of periods from its first
\* deadline. Sleeps are of processes that have not exited.
TimersKept ==
    /\ \A i \in DOMAIN sleeps : sleeps[i] # Nil => Alive(sleeps[i].process)
    /\ \A i \in DOMAIN timers : timers[i] # Nil =>
        LET t == timers[i] IN
        /\ Alive(t.owner)
        /\ \A j \in Mine(t.owner) : timers[j].id = t.id => i = j
        /\ t.armed /\ t.interval > 0 /\ t.deadline # t.first =>
              t.deadline > now /\ (t.deadline - t.first) % t.interval = 0

\* No process sleeps for good, a child's end is reported once and as it happened, and
\* timers ring on their period and end with their process.
FamiliesSound == BlockedHasWaker /\ ReportedOnce /\ TimersKept
=============================================================================

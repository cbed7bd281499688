---------------------------- MODULE KernelSched ----------------------------
(***************************************************************************)
(* The process and thread life cycle of the kernel on top of MTSS          *)
(* (src/kernel/mod.rs, exec.rs, futex.rs, timer.rs, ipc.rs): scheduling    *)
(* slices, blocking and waking for messages, futexes, sleeps and children, *)
(* creation and exit. One core is online, as after bootstrap.              *)
(*                                                                         *)
(* The state k is a record:                                                *)
(*   mt       the MTSS scheduler (Mtss.tla)                                *)
(*   pending  pending_mtss_decision, a thread or None                      *)
(*   procs    process -> "Ready", "Running", "Blocked", "Zombie" or None   *)
(*   parent   process -> its parent or None                                *)
(*   waiting  process -> has it recorded a child_wait (for any child)      *)
(*   table    thread_table: slot -> [id, process, state] or None           *)
(*   ipc      process -> number of queued messages (Rings.tla)             *)
(*   futex    futex waiters: slot -> [thread, owner, timed] or None        *)
(*   timeouts process -> number of its sleep entries and armed timers       *)
(*   next_pid, next_thread                                                 *)
(* Each kernel function is an operator from states to states; one that can *)
(* fail returns [ok, k]. Security checks pass for live processes, and a    *)
(* futex word lives in its process's own address space.                    *)
(***************************************************************************)
EXTENDS Mtss, SequencesExt

CONSTANTS MSG_DEPTH,    \* capacity of a message queue
          Workloads,    \* bound: sets of what threads do and services call
          MaxTimeouts   \* bound: sleep entries and timers one process has

Pids == TaskIds         \* 1 .. the bound on processes ever created
Tids == ThreadIds       \* 1 .. the bound on threads ever created
TSlots == 1 .. MAX_THREADS

VARIABLES k,
          ops           \* the workload of this behaviour

vars == <<k, ops>>

OK(s) == [ok |-> TRUE, k |-> s]
Fail(s) == [ok |-> FALSE, k |-> s]
-----------------------------------------------------------------------------
(* Tables.                                                                 *)
SlotsOf(s, p) == {i \in TSlots : s.table[i] # None /\ s.table[i].process = p}

locate_thread(s, t) == {i \in TSlots : s.table[i] # None /\ s.table[i].id = t}
HasTcb(s, t) == locate_thread(s, t) # {}
SlotOf(s, t) == CHOOSE i \in locate_thread(s, t) : TRUE
ProcessOf(s, t) == s.table[SlotOf(s, t)].process
SetTcb(s, i, state) == [s EXCEPT !.table[i].state = state]

FreeThreadSlots(s) == {i \in TSlots : s.table[i] = None}
LeastOf(S) == CHOOSE i \in S : \A j \in S : i <= j

Alive(s, p) == s.procs[p] \notin {None, "Zombie"}

has_runnable_thread(s, p) ==
    \E i \in SlotsOf(s, p) : s.table[i].state \in {"Ready", "Running"}

set_process_ready_via_mtss(s, p) ==
    [s EXCEPT !.mt = mark_task_ready(s.mt, p), !.procs[p] = "Ready"]
set_process_running_via_mtss(s, p) ==
    [s EXCEPT !.mt = mark_task_running(s.mt, p), !.procs[p] = "Running"]
set_process_blocked_via_mtss(s, p) ==
    [s EXCEPT !.mt = block_task(s.mt, p), !.procs[p] = "Blocked"]

\* An MTSS call whose error the kernel ignores.
MtssTry(s, ok, mt) == IF ok THEN [s EXCEPT !.mt = mt] ELSE s
-----------------------------------------------------------------------------
(* Blocking and waking.                                                    *)

\* The process and its TCBs; the MTSS threads keep their state and records.
block_process_at_index(s, p) ==
    LET b == set_process_blocked_via_mtss(s, p)
    IN [b EXCEPT !.table = [i \in TSlots |->
            IF i \in SlotsOf(s, p) THEN [s.table[i] EXCEPT !.state = "Blocked"]
            ELSE s.table[i]]]

\* Mutant: nothing is rolled back.
rollback_nothing(s, p, before) == s

rollback_ready_threads(s, p, before) ==
    LET undo(u, i) ==
            LET t == u.table[i].id
                b == SetTcb(u, i, "Blocked")
            IN IF u.table[i].state = "Ready"
               THEN MtssTry(b, SuspendOk(b.mt, t, "Blocked"), Suspend(b.mt, t, "Blocked"))
               ELSE u
        slots == SetToSortSeq({i \in SlotsOf(s, p) : i < before}, <)
    IN FoldLeft(undo, s, slots)

make_threads_ready(s, p) ==
    LET wake(r, i) ==
            LET t == r.k.table[i].id
            IN IF ~r.ok \/ r.k.table[i].state # "Blocked" THEN r
               ELSE IF wake_threadOk(r.k.mt, t)
               THEN OK([SetTcb(r.k, i, "Ready") EXCEPT !.mt = wake_thread(r.k.mt, t)])
               ELSE Fail(rollback_ready_threads(r.k, p, i))
    IN FoldLeft(wake, OK(s), SetToSortSeq(SlotsOf(s, p), <))

\* block_thread: for a futex wait.
KernelBlockThread(s, t) ==
    LET p == ProcessOf(s, t)
        b == SetTcb(s, SlotOf(s, t), "Blocked")
        m == MtssTry(b, SuspendOk(b.mt, t, "Blocked"), Suspend(b.mt, t, "Blocked"))
    IN IF has_runnable_thread(m, p) THEN m ELSE set_process_blocked_via_mtss(m, p)

\* wake_thread: the TCB is marked Ready before MTSS may refuse the wakeup.
KernelWakeThread(s, t) ==
    IF ~HasTcb(s, t) THEN Fail(s)
    ELSE LET i == SlotOf(s, t)
             p == ProcessOf(s, t)
             r == SetTcb(s, i, "Ready")
             m == [r EXCEPT !.mt = wake_thread(r.mt, t)]
         IN IF s.table[i].state # "Blocked" THEN OK(s)
            ELSE IF ~wake_threadOk(r.mt, t) THEN Fail(r)
            ELSE OK(IF m.procs[p] = "Blocked" THEN set_process_ready_via_mtss(m, p) ELSE m)

\* The threads are out of the futex table already; the first failure ends
\* the loop.
wake_futex_threads(s, threads) ==
    LET wake(r, t) == IF r.ok THEN KernelWakeThread(r.k, t) ELSE r
    IN FoldLeft(wake, OK(s), threads).k

\* The threads of the futex slots F, in slot order, taken out of the table.
TakeWaiters(s, F) ==
    LET gone == [i \in TSlots |-> IF i \in F THEN None ELSE s.futex[i]]
        order == SetToSortSeq(F, <)
    IN wake_futex_threads([s EXCEPT !.futex = gone],
                          [j \in DOMAIN order |-> s.futex[order[j]].thread])

\* On a failed wakeup the process is left Ready and its threads Blocked.
wake_process_for_timeout(s, p) ==
    IF s.procs[p] = "Blocked"
    THEN make_threads_ready(set_process_ready_via_mtss(s, p), p).k
    ELSE s
-----------------------------------------------------------------------------
(* Messages.                                                               *)
\* Mutant: the rollback of the push is missing.
send_keeping(s, q) ==
    LET pushed == [s EXCEPT !.ipc[q] = @ + 1]
        woken == make_threads_ready(set_process_ready_via_mtss(pushed, q), q)
    IN IF ~Alive(s, q) \/ s.ipc[q] = MSG_DEPTH THEN Fail(s)
       ELSE IF s.procs[q] # "Blocked" THEN OK(pushed)
       ELSE IF woken.ok THEN woken ELSE Fail(set_process_blocked_via_mtss(woken.k, q))

send_message(s, q) ==
    LET pushed == [s EXCEPT !.ipc[q] = @ + 1]
        woken == make_threads_ready(set_process_ready_via_mtss(pushed, q), q)
        undone == [set_process_blocked_via_mtss(woken.k, q) EXCEPT !.ipc[q] = @ - 1]
    IN IF ~Alive(s, q) \/ s.ipc[q] = MSG_DEPTH THEN Fail(s)
       ELSE IF s.procs[q] # "Blocked" THEN OK(pushed)
       ELSE IF woken.ok THEN woken ELSE Fail(undone)

receive_or_block(s, p) ==
    IF s.ipc[p] > 0 THEN [s EXCEPT !.ipc[p] = @ - 1] ELSE block_process_at_index(s, p)
-----------------------------------------------------------------------------
(* Creation. A failure after mtss_create_task takes back the process and   *)
(* the thread, and leaves what MTSS has been given.                        *)
MtssAdmit(s, p, t, newTask) ==
    LET m1 == IF newTask THEN create_task(s.mt, p) ELSE s.mt
        m2 == create_thread(m1, p, t)
    IN IF newTask /\ ~create_taskOk(s.mt, p) THEN Fail(s)
       ELSE IF ~create_threadOk(m1, p, t) THEN Fail([s EXCEPT !.mt = m1])
       ELSE IF ~enqueue_threadOk(m2, t) THEN Fail([s EXCEPT !.mt = m2])
       ELSE OK([s EXCEPT !.mt = enqueue_thread(m2, t)])

NewTcb(s, p) ==
    LET t == s.next_thread
        i == LeastOf(FreeThreadSlots(s))
    IN [s EXCEPT !.next_thread = t + 1,
                 !.table[i] = [id |-> t, process |-> p, state |-> "Ready"]]

DropTcb(s, t) == [s EXCEPT !.table[SlotOf(s, t)] = None]

create_process_task(s, parent) ==
    LET p == s.next_pid
        t == s.next_thread
        numbered == [s EXCEPT !.next_pid = p + 1]
        filled == NewTcb([numbered EXCEPT !.procs[p] = "Ready", !.parent[p] = parent], p)
        admitted == MtssAdmit(filled, p, t, TRUE)
    IN IF FreeThreadSlots(s) = {} THEN numbered
       ELSE IF admitted.ok THEN admitted.k
       ELSE [DropTcb(admitted.k, t) EXCEPT !.procs[p] = None, !.parent[p] = None]

\* clone_thread within the caller's thread group.
clone_thread(s, p) ==
    LET t == s.next_thread
        admitted == MtssAdmit(NewTcb(s, p), p, t, FALSE)
    IN IF FreeThreadSlots(s) = {} THEN s
       ELSE IF admitted.ok THEN admitted.k ELSE DropTcb(admitted.k, t)

CanSpawn(s) == /\ s.next_pid \in Pids /\ s.next_thread \in Tids
               /\ Cardinality({p \in Pids : s.procs[p] # None}) < MAX_TASKS
CanClone(s) == s.next_thread \in Tids
-----------------------------------------------------------------------------
(* Exit and wait.                                                          *)
wake_parent_child_waiters(s, child) ==
    LET q == s.parent[child]
        cleared == [s EXCEPT !.waiting[q] = FALSE]
        ready == IF s.procs[q] = "Blocked" THEN set_process_ready_via_mtss(cleared, q)
                 ELSE cleared
    IN IF q = None \/ s.procs[q] = None \/ ~s.waiting[q] THEN s
       ELSE make_threads_ready(ready, q).k

\* Mutant: the futex waiters are forgotten.
terminate_thread_waiting(s, t) ==
    [s EXCEPT !.mt = IF exit_threadOk(s.mt, t) THEN exit_thread(s.mt, t) ELSE s.mt,
              !.table[SlotOf(s, t)] = None]

\* terminate_thread, and remove_threads_for_process for each thread.
terminate_thread(s, t) ==
    [s EXCEPT !.mt = IF exit_threadOk(s.mt, t) THEN exit_thread(s.mt, t) ELSE s.mt,
              !.futex = [i \in TSlots |->
                  IF s.futex[i] # None /\ s.futex[i].thread = t THEN None ELSE s.futex[i]],
              !.table[SlotOf(s, t)] = None]

\* Mutant: the timeouts of the process are forgotten.
exit_process_armed(s, p) ==
    LET over == terminate_task(s.mt, p)
        mt == IF ~terminate_taskOk(s.mt, p) THEN s.mt
              ELSE IF reap_taskOk(over, p) THEN reap_task(over, p) ELSE over
        zombie == [s EXCEPT !.procs[p] = "Zombie", !.ipc[p] = 0, !.mt = mt]
        threads == {s.table[i].id : i \in SlotsOf(s, p)}
        gone == FoldLeft(terminate_thread, zombie, SetToSeq(threads))
    IN IF Alive(s, p) THEN wake_parent_child_waiters(gone, p) ELSE s

exit_process(s, p) ==
    LET over == terminate_task(s.mt, p)
        mt == IF ~terminate_taskOk(s.mt, p) THEN s.mt
              ELSE IF reap_taskOk(over, p) THEN reap_task(over, p) ELSE over
        zombie == [s EXCEPT !.procs[p] = "Zombie", !.ipc[p] = 0, !.mt = mt]
        threads == {s.table[i].id : i \in SlotsOf(s, p)}
        gone == FoldLeft(terminate_thread, zombie, SetToSeq(threads))
        freed == [gone EXCEPT !.timeouts[p] = 0,
                              !.futex = [i \in TSlots |->
                                  IF gone.futex[i] # None /\ gone.futex[i].owner = p
                                  THEN None ELSE gone.futex[i]]]
    IN IF Alive(s, p) THEN wake_parent_child_waiters(freed, p) ELSE s

wait_for_child(s, p, t) ==
    LET children == {c \in Pids : s.procs[c] # None /\ s.parent[c] = p}
        zombies == {c \in children : s.procs[c] = "Zombie"}
        c == LeastOf(zombies)
        b == [SetTcb(s, SlotOf(s, t), "Blocked") EXCEPT !.waiting[p] = TRUE]
    IN IF zombies # {}
       THEN [s EXCEPT !.waiting[p] = FALSE, !.procs[c] = None, !.timeouts[c] = 0]
       ELSE IF children = {} THEN s
       ELSE block_process_at_index(
                MtssTry(b, SuspendOk(b.mt, t, "Blocked"), Suspend(b.mt, t, "Blocked")), p)
-----------------------------------------------------------------------------
(* System calls, made by the thread t that runs, of process p.             *)
futex_wait(s, p, t, timed) ==
    LET mine == {i \in TSlots : s.futex[i] # None /\ s.futex[i].thread = t}
        free == {i \in TSlots : s.futex[i] = None}
        i == LeastOf(IF mine # {} THEN mine ELSE free)
        waiter == [thread |-> t, owner |-> p, timed |-> timed]
    IN IF mine \cup free = {} THEN s
       ELSE KernelBlockThread([s EXCEPT !.futex[i] = waiter], t)

\* FUTEX_WAKE with limit 1: the waiter in the lowest slot.
futex_wake(s, p) ==
    LET F == {i \in TSlots : s.futex[i] # None /\ s.futex[i].owner = p}
    IN IF F = {} THEN s ELSE TakeWaiters(s, {LeastOf(F)})

arm_timeout(s, p) == [s EXCEPT !.timeouts[p] = @ + 1]

UserOps == {"slice", "fault", "yield", "receive", "block_ipc", "send", "sleep", "timer",
            "futex_wait", "futex_wait_timed", "futex_wake", "wait4", "exit", "clone",
            "fork"}
ServiceOps == {"service_spawn", "service_send", "service_terminate"}

ASSUME WorkloadsAssumption == Workloads \subseteq SUBSET (UserOps \cup ServiceOps)

Calls == [op : (ops \cap UserOps) \ {"send"}, to : {None}]
         \cup [op : ops \cap {"send"}, to : Pids]

\* The calls within the bounds on ids and timeouts.
InBounds(s, p, call) == CASE call.op = "fork" -> CanSpawn(s)
                          [] call.op = "clone" -> CanClone(s)
                          [] call.op \in {"sleep", "timer"} -> s.timeouts[p] < MaxTimeouts
                          [] OTHER -> TRUE

handle_syscall(s, p, t, call) ==
    CASE call.op = "slice" -> s
      [] call.op = "fault" -> exit_process(s, p)
      [] call.op = "yield" -> SetTcb(s, SlotOf(s, t), "Ready")
      [] call.op = "receive" -> receive_or_block(s, p)
      [] call.op = "block_ipc" -> block_process_at_index(s, p)
      [] call.op = "send" -> send_message(s, call.to).k
      [] call.op = "sleep" -> block_process_at_index(arm_timeout(s, p), p)
      [] call.op = "timer" -> arm_timeout(s, p)
      [] call.op = "futex_wait" -> futex_wait(s, p, t, FALSE)
      [] call.op = "futex_wait_timed" -> futex_wait(s, p, t, TRUE)
      [] call.op = "futex_wake" -> futex_wake(s, p)
      [] call.op = "wait4" -> wait_for_child(s, p, t)
      [] call.op = "exit" -> exit_process(s, p)
      [] call.op = "clone" -> clone_thread(s, p)
      [] call.op = "fork" -> create_process_task(s, p)
-----------------------------------------------------------------------------
(* The scheduler tick.                                                     *)

\* kernel_schedule_next: the deferred decision, else what MTSS picks, if it
\* still has a TCB.
kernel_schedule_next(s) ==
    LET t == PickedThread(s.mt)
        picked == [s EXCEPT !.mt = pick_next(s.mt)]
    IN IF s.pending # None THEN [t |-> s.pending, k |-> [s EXCEPT !.pending = None]]
       ELSE [t |-> IF t # None /\ pick_nextOk(s.mt) /\ HasTcb(s, t) THEN t ELSE None,
             k |-> picked]

\* syscall_trap_target_can_resume.
CanResume(s, p, t) == Alive(s, p) /\ HasTcb(s, t)

\* The end of run_core for the thread in slot i: note that MTSS yields its
\* own current thread, whichever that is.
FinishSlice(s, p, i) ==
    LET held == s.table[i] # None
        r == IF held /\ s.table[i].state = "Running" THEN SetTcb(s, i, "Ready") ELSE s
        q == IF r.procs[p] # "Running" THEN r
             ELSE IF has_runnable_thread(r, p) THEN set_process_ready_via_mtss(r, p)
             ELSE set_process_blocked_via_mtss(r, p)
        mt == yield_current(q.mt)
        next == mt.current
    IN IF ~held \/ r.table[i].state # "Ready" \/ ~yield_currentOk(q.mt) THEN q
       ELSE [q EXCEPT !.mt = mt,
                      !.pending = IF next # None /\ HasTcb(q, next) THEN next ELSE None]

\* run_core on the thread t that kernel_schedule_next returned.
run_core(s, t, call) ==
    LET p == ProcessOf(s, t)
        i == SlotOf(s, t)
        started == IF call.op = "fault" THEN s ELSE SetTcb(s, i, "Running")
        called == handle_syscall(set_process_running_via_mtss(started, p), p, t, call)
        after == kernel_schedule_next(called)
    IN IF call.op \notin {"slice", "fault"} /\ ~CanResume(called, p, t)
       THEN [after.k EXCEPT !.pending = after.t]
       ELSE FinishSlice(called, p, i)

\* kernel_on_timer_tick, whose decision is thrown away, then the timeouts
\* of the processes in `due`, in the order of their entries, and the futex
\* waiters in slots F that have expired. Timers are one-shot.
TimerPart(s, due, F) ==
    LET ticked == [s EXCEPT !.mt = on_timer_tick(s.mt, FALSE)]
        expire(u, p) == wake_process_for_timeout([u EXCEPT !.timeouts[p] = @ - 1], p)
    IN TakeWaiters(FoldLeft(expire, ticked, due), F)

Tick(due, F) ==
    LET next == kernel_schedule_next(TimerPart(k, due, F))
        t == next.t
    IN \/ /\ t = None \/ ~HasTcb(next.k, t)
          /\ k' = next.k
       \/ /\ t # None
          /\ HasTcb(next.k, t)
          /\ \E call \in Calls :
                /\ InBounds(next.k, ProcessOf(next.k, t), call)
                /\ k' = run_core(next.k, t, call)

TickSome == \E due \in SetToAllKPermutations({p \in Pids : k.timeouts[p] > 0}) :
            \E F \in SUBSET {i \in TSlots : k.futex[i] # None /\ k.futex[i].timed} :
                Tick(due, F)

(* Calls into the kernel from the services that run in it.                 *)
Spawn == CanSpawn(k) /\ k' = create_process_task(k, None)
Send(q) == send_message(k, q).ok /\ k' = send_message(k, q).k
SendRefused(q) == Alive(k, q) /\ ~send_message(k, q).ok /\ k' = send_message(k, q).k
TerminateProcess(p) == Alive(k, p) /\ k' = exit_process(k, p)
TerminateThread(t) == HasTcb(k, t) /\ k' = terminate_thread(k, t)

Booted == [mt |-> NewMtss, pending |-> None,
           procs |-> [p \in Pids |-> None], parent |-> [p \in Pids |-> None],
           waiting |-> [p \in Pids |-> FALSE], table |-> [i \in TSlots |-> None],
           ipc |-> [p \in Pids |-> 0], futex |-> [i \in TSlots |-> None],
           timeouts |-> [p \in Pids |-> 0], next_pid |-> 1, next_thread |-> 1]

Init == ops \in Workloads /\ k = create_process_task(Booted, None)

Next == /\ UNCHANGED ops
        /\ \/ TickSome
           \/ "service_spawn" \in ops /\ Spawn
           \/ "service_send" \in ops /\ \E q \in Pids : Send(q) \/ SendRefused(q)
           \/ "service_terminate" \in ops /\ \E p \in Pids : TerminateProcess(p)
           \/ "service_terminate" \in ops /\ \E t \in Tids : TerminateThread(t)

Spec == Init /\ [][Next]_vars
-----------------------------------------------------------------------------
\* The kernel's thread table and MTSS agree: a TCB is unique, belongs to a
\* live process, and MTSS knows its thread, under the same process and not
\* Dead. So a wakeup of a TCB can fail only for want of run queue space.
TcbInMtss ==
    \A i \in TSlots : k.table[i] # None =>
        /\ locate_thread(k, k.table[i].id) = {i}
        /\ Alive(k, k.table[i].process)
        /\ k.mt.threads[k.table[i].id] \notin {None, "Dead"}
        /\ k.mt.task_of[k.table[i].id] = k.table[i].process

\* MTSS never holds a run queue record, or a current thread, for which the
\* kernel has no TCB: a tick is never wasted on a thread that is gone, even
\* though a failed creation leaves its thread behind in the MTSS tables.
QueuedHasTcb ==
    /\ \A t \in Tids : Queued(k.mt.rq, t) => HasTcb(k, t)
    /\ k.mt.current # None => HasTcb(k, k.mt.current)

\* What exit_process leaves of a process: its table entry and nothing else.
\* No thread, queued message, timeout, futex waiter or MTSS entry survives
\* it, and none appears afterwards.
ZombieHoldsNothing ==
    \A p \in Pids : k.procs[p] \in {"Zombie", None} =>
        /\ SlotsOf(k, p) = {}
        /\ k.ipc[p] = 0
        /\ k.timeouts[p] = 0
        /\ \A i \in TSlots : k.futex[i] # None => k.futex[i].owner # p
        /\ k.procs[p] = "Zombie" => k.mt.tasks[p] = None

\* A futex waiter is a thread that exists, and it waits once.
FutexSound ==
    /\ \A i \in TSlots : k.futex[i] # None => HasTcb(k, k.futex[i].thread)
    /\ \A i, j \in TSlots : k.futex[i] # None /\ k.futex[j] # None
                            /\ k.futex[i].thread = k.futex[j].thread => i = j

\* send_message: "Sending to a blocked process is transactional": a refused
\* message changes neither the receiver's queue nor its process and thread
\* states.
SendTransactional ==
    [][\A q \in Pids : SendRefused(q) =>
          UNCHANGED <<k.ipc, k.procs, k.table>>]_k

\* A process is Blocked only while all its threads are: no order of process
\* wide blocks, single wakeups and refused wakeups leaves a Ready or Running
\* thread in it, which would run without the process being woken.
BlockedProcessIsIdle ==
    \A p \in Pids : k.procs[p] = "Blocked" => ~has_runnable_thread(k, p)

\* The decision run_core defers to the next tick is still the thread MTSS
\* takes for current when that tick comes, or the thread has been removed:
\* wakeups, exits and sends in between do not make it stale.
PendingIsCurrent ==
    k.pending # None => k.mt.current = k.pending \/ ~HasTcb(k, k.pending)

\* The kernel's tables, its futex waiters and MTSS never disagree about a thread.
TablesAgree == TcbInMtss /\ QueuedHasTcb /\ FutexSound /\ PendingIsCurrent
=============================================================================

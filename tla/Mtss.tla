-------------------------------- MODULE Mtss --------------------------------
(***************************************************************************)
(* The Mtss scheduler facade (crates/mirage-mtss/src/mtss.rs) as operators *)
(* on its state, so that both its own specification (MtssSpec.tla) and the *)
(* kernel that calls it (KernelSched.tla) use one definition per call.     *)
(*                                                                         *)
(* A state s is a record: current, need_resched, rq (the run queue), tasks *)
(* (task -> state or None) and, per thread, threads (state or None),       *)
(* task_of and timeslice. XOk(s, ...) is the condition under which call X  *)
(* returns Ok, X(s, ...) the state it leaves. Where X changes the state    *)
(* and still returns Err, X says so. Counters, events and priorities,      *)
(* which no decision reads, are left out.                                  *)
(***************************************************************************)
EXTENDS RunQueue, Lifecycle

CONSTANTS TaskIds, ThreadIds,        \* ids the callers use
          MAX_TASKS, MAX_THREADS,    \* table sizes
          DEFAULT_TIMESLICE          \* MtssConfig::default_timeslice

ASSUME MtssAssumption == /\ IsFiniteSet(TaskIds) /\ IsFiniteSet(ThreadIds)
                         /\ None \notin TaskIds \cup ThreadIds
                         /\ None \notin TaskStates \cup ThreadStates
                         /\ MAX_TASKS \in Nat /\ MAX_THREADS \in Nat
                         /\ DEFAULT_TIMESLICE \in Nat

NewMtss == [current      |-> None,
            need_resched |-> FALSE,
            rq           |-> New,
            tasks        |-> [p \in TaskIds |-> None],
            threads      |-> [t \in ThreadIds |-> None],
            task_of      |-> [t \in ThreadIds |-> None],
            timeslice    |-> [t \in ThreadIds |-> 0]]

ThreadsOf(s, p) == {t \in ThreadIds : s.threads[t] # None /\ s.task_of[t] = p}

\* Mutant: the transition is not validated.
ThreadExists(s, t, to) == s.threads[t] # None

ThreadMayBecome(s, t, to) ==
    s.threads[t] # None /\ valid_thread_transition(s.threads[t], to)

\* Mutant: the records stay.
unschedule_current(s, t) == [s EXCEPT !.current = IF s.current = t THEN None ELSE s.current]

unschedule_thread(s, t) ==
    [s EXCEPT !.rq = RemoveThread(s.rq, t),
              !.current = IF s.current = t THEN None ELSE s.current]

\* unschedule_thread for every thread of task p.
UnscheduleTask(s, p) ==
    LET gone == ThreadsOf(s, p)
    IN [s EXCEPT !.rq = RemoveMatching(s.rq, gone),
                 !.current = IF s.current \in gone THEN None ELSE s.current]
-----------------------------------------------------------------------------
create_taskOk(s, p) ==
    /\ s.tasks[p] = None
    /\ Cardinality({q \in TaskIds : s.tasks[q] # None}) < MAX_TASKS

create_task(s, p) == [s EXCEPT !.tasks[p] = "Runnable"]

create_threadOk(s, p, t) ==
    /\ s.threads[t] = None
    /\ s.tasks[p] \in SchedulableTask
    /\ Cardinality({u \in ThreadIds : s.threads[u] # None}) < MAX_THREADS

create_thread(s, p, t) == [s EXCEPT !.threads[t] = "New",
                                    !.task_of[t] = p,
                                    !.timeslice[t] = DEFAULT_TIMESLICE]

\* There is no check that the thread is not queued already.
enqueue_threadOk(s, t) == ~IsFull(s.rq) /\ ThreadMayBecome(s, t, "Ready")

enqueue_thread(s, t) == [s EXCEPT !.threads[t] = "Ready",
                                  !.rq = Enqueue(s.rq, t)]

\* A task that is Blocked stays Blocked, and its thread runs all the same.
dispatch(s, t) ==
    LET p == s.task_of[t]
    IN [s EXCEPT !.threads[t] = "Running",
                 !.timeslice[t] = DEFAULT_TIMESLICE,
                 !.tasks[p] = IF s.tasks[p] = "Runnable" THEN "Running" ELSE s.tasks[p],
                 !.current = t]

\* The record pick_next would take, or None.
PickedThread(s) == IF HasNext(s.rq) THEN s.rq.queue[FirstLive(s.rq)] ELSE None

\* Err when the thread of the record cannot run: the record is gone.
pick_nextOk(s) == LET t == PickedThread(s) IN t = None \/ ThreadMayBecome(s, t, "Running")

pick_next(s) ==
    LET t == PickedThread(s)
        taken == [s EXCEPT !.rq = IF t = None THEN AfterNone(s.rq) ELSE TakeNext(s.rq)]
    IN IF t # None /\ pick_nextOk(s) THEN dispatch(taken, t) ELSE taken

RequeueOk(s, t) == ~IsFull(s.rq) /\ ThreadMayBecome(s, t, "Ready")

ready_current_for_requeue(s, t) ==
    [s EXCEPT !.threads[t] = "Ready",
              !.timeslice[t] = DEFAULT_TIMESLICE,
              !.rq = Enqueue(s.rq, t)]

yield_currentOk(s) == s.current = None \/ RequeueOk(s, s.current)

yield_current(s) ==
    IF s.current = None THEN pick_next(s)
    ELSE IF RequeueOk(s, s.current)
         THEN pick_next(ready_current_for_requeue(s, s.current))
         ELSE s

\* current is given up even when the requeue fails and Err is returned.
requeue_current(s) ==
    LET t == s.current
        left == [s EXCEPT !.current = None]
    IN IF t # None /\ RequeueOk(s, t) THEN ready_current_for_requeue(left, t) ELSE left

reschedule_if_needed(s) ==
    IF s.need_resched THEN yield_current([s EXCEPT !.need_resched = FALSE]) ELSE s

\* Err when current is not Running: nothing but the clock changes. After an
\* expired slice the yield may fail too, and the slice stays used up.
on_timer_tick(s, preemption_disabled) ==
    LET t == s.current
        left == s.timeslice[t] - 1
        charged == [s EXCEPT !.timeslice[t] = IF left < 0 THEN 0 ELSE left]
        expired == charged.timeslice[t] = 0
        marked == [charged EXCEPT !.need_resched = TRUE]
    IN IF t = None \/ s.threads[t] # "Running" THEN s
       ELSE IF ~expired THEN charged
       ELSE IF preemption_disabled THEN marked
       ELSE reschedule_if_needed(marked)
-----------------------------------------------------------------------------
mark_task_running(s, p) ==
    [s EXCEPT !.tasks[p] = IF s.tasks[p] = "Runnable" THEN "Running" ELSE s.tasks[p]]

mark_task_ready(s, p) ==
    [s EXCEPT !.tasks[p] = IF s.tasks[p] \in {"Running", "Blocked"} THEN "Runnable"
                           ELSE s.tasks[p]]

\* Touches the task only: its threads stay queued.
block_task(s, p) ==
    [s EXCEPT !.tasks[p] = IF s.tasks[p] \in {None, "Exited"} THEN s.tasks[p] ELSE "Blocked"]

\* refresh_task_wait_state(p, Blocked).
refresh_task_wait_state(s, p) ==
    LET schedulable == \E t \in ThreadsOf(s, p) : s.threads[t] \in SchedulableThread
    IN [s EXCEPT !.tasks[p] = IF ~schedulable THEN "Blocked"
                              ELSE IF s.tasks[p] = "Running" THEN "Running"
                              ELSE "Runnable"]

\* block_thread (to = Blocked) and sleep_thread (to = Sleeping).
SuspendOk(s, t, to) == ThreadMayBecome(s, t, to)

Suspend(s, t, to) ==
    refresh_task_wait_state([unschedule_thread(s, t) EXCEPT !.threads[t] = to],
                            s.task_of[t])

\* Any thread that may become Ready is accepted, a queued or running one too.
wake_threadOk(s, t) == enqueue_threadOk(s, t)

wake_thread(s, t) ==
    LET p == s.task_of[t]
    IN enqueue_thread([s EXCEPT !.tasks[p] = IF s.tasks[p] = "Blocked" THEN "Runnable"
                                             ELSE s.tasks[p]], t)

terminate_taskOk(s, p) == s.tasks[p] # None

terminate_task(s, p) ==
    [UnscheduleTask(s, p) EXCEPT
        !.tasks[p] = "Exited",
        !.threads = [t \in ThreadIds |-> IF t \in ThreadsOf(s, p) THEN "Dead"
                                         ELSE s.threads[t]]]

exit_threadOk(s, t) == s.threads[t] # None

exit_thread(s, t) == [unschedule_thread(s, t) EXCEPT !.threads[t] = "Dead"]

\* The threads leave the queue with their states unchanged.
contain_taskOk(s, p) == s.tasks[p] \notin {None, "Exited"}

contain_task(s, p) == [UnscheduleTask(s, p) EXCEPT !.tasks[p] = "Blocked"]

reap_taskOk(s, p) == /\ s.tasks[p] = "Exited"
                     /\ \A t \in ThreadsOf(s, p) : s.threads[t] = "Dead"

reap_task(s, p) ==
    LET gone == ThreadsOf(s, p)
        clear(f, none) == [t \in ThreadIds |-> IF t \in gone THEN none ELSE f[t]]
    IN [s EXCEPT !.tasks[p] = None,
                 !.threads = clear(s.threads, None),
                 !.task_of = clear(s.task_of, None),
                 !.timeslice = clear(s.timeslice, 0)]
=============================================================================

------------------------------ MODULE MtssSpec ------------------------------
(***************************************************************************)
(* Mtss driven by a client that may make any call in any order: one action *)
(* per public call. A call that returns Err and changes nothing is not an  *)
(* action.                                                                 *)
(*                                                                         *)
(* The second half proves what the calls preserve, for every number of     *)
(* tasks and threads, every table size and run queue depth. Sound(s) is    *)
(* the inductive invariant: the run queue is counted, a thread in the      *)
(* table has its task there and is Dead when the task has exited, and what *)
(* is queued or current may run. Moves(s, u) says that s may go to u in    *)
(* one call.                                                               *)
(***************************************************************************)
EXTENDS Mtss, TLC, RunQueueProofs

VARIABLE mt

Symmetry == Permutations(TaskIds) \cup Permutations(ThreadIds)

Init == mt = NewMtss

CreateTask(p) == create_taskOk(mt, p) /\ mt' = create_task(mt, p)
CreateThread(p, t) == create_threadOk(mt, p, t) /\ mt' = create_thread(mt, p, t)
EnqueueThread(t) == enqueue_threadOk(mt, t) /\ mt' = enqueue_thread(mt, t)
PickNext == mt' = pick_next(mt)
TimerTick(preemption_disabled) == mt' = on_timer_tick(mt, preemption_disabled)
Reschedule == mt' = reschedule_if_needed(mt)
YieldCurrent == mt' = yield_current(mt)
RequeueCurrent == mt' = requeue_current(mt)
MarkTaskRunning(p) == mt' = mark_task_running(mt, p)
MarkTaskReady(p) == mt' = mark_task_ready(mt, p)
BlockTask(p) == mt' = block_task(mt, p)
SuspendThread(t, to) == SuspendOk(mt, t, to) /\ mt' = Suspend(mt, t, to)
WakeThread(t) == wake_threadOk(mt, t) /\ mt' = wake_thread(mt, t)
TerminateTask(p) == terminate_taskOk(mt, p) /\ mt' = terminate_task(mt, p)
ExitThread(t) == exit_threadOk(mt, t) /\ mt' = exit_thread(mt, t)
ContainTask(p) == contain_taskOk(mt, p) /\ mt' = contain_task(mt, p)
ReapTask(p) == reap_taskOk(mt, p) /\ mt' = reap_task(mt, p)

Next == \/ \E p \in TaskIds : \/ CreateTask(p)
                              \/ \E t \in ThreadIds : CreateThread(p, t)
                              \/ MarkTaskRunning(p)
                              \/ MarkTaskReady(p)
                              \/ BlockTask(p)
                              \/ TerminateTask(p)
                              \/ ContainTask(p)
                              \/ ReapTask(p)
        \/ \E t \in ThreadIds : \/ EnqueueThread(t)
                                \/ \E to \in {"Blocked", "Sleeping"} : SuspendThread(t, to)
                                \/ WakeThread(t)
                                \/ ExitThread(t)
        \/ PickNext
        \/ \E disabled \in BOOLEAN : TimerTick(disabled)
        \/ Reschedule
        \/ YieldCurrent
        \/ RequeueCurrent

Spec == Init /\ [][Next]_mt
-----------------------------------------------------------------------------
Schedulable(t) == /\ mt.threads[t] \in SchedulableThread
                  /\ mt.tasks[mt.task_of[t]] \notin {None, "Exited"}

\* Every record of the run queue names a thread that is in the thread
\* table, Ready or Running, and whose task is in the task table and has not
\* exited. So dispatch never fails on a record: pick_next never loses one to
\* an error, although records are removed in one place and states changed
\* in many.
QueuedSchedulable == \A t \in ThreadIds : Queued(mt.rq, t) => Schedulable(t)

\* The current thread may run too: unscheduling always clears `current`
\* together with the queue records, so no tick charges a reaped thread.
CurrentSchedulable == mt.current # None => Schedulable(mt.current)

\* The threads of a terminated task are Dead and a thread in the table has
\* its task in the table: reap_task always succeeds after terminate_task and
\* releases every slot that belongs to the task.
NoOrphans == \A t \in ThreadIds :
    mt.threads[t] # None =>
        /\ mt.tasks[mt.task_of[t]] # None
        /\ mt.tasks[mt.task_of[t]] = "Exited" => mt.threads[t] = "Dead"

\* No order of calls leaves the run queue or the processor with a thread that may not
\* run, or a thread of a terminated task alive: dispatch never fails on a record, and
\* reap_task succeeds after terminate_task.
NoRecordFails == QueuedSchedulable /\ CurrentSchedulable /\ NoOrphans

\* Whatever one call does to a thread or a task, the net effect is a
\* transition that valid_thread_transition and valid_task_transition accept,
\* or the reap of a Dead thread or an Exited task. In particular a Blocked,
\* Sleeping or Dead thread is never put on the processor.
LifecycleSteps ==
    [][/\ \A t \in ThreadIds : mt.threads[t] # None =>
             IF mt'.threads[t] = None THEN mt.threads[t] = "Dead"
             ELSE valid_thread_transition(mt.threads[t], mt'.threads[t])
       /\ \A p \in TaskIds : mt.tasks[p] # None =>
             IF mt'.tasks[p] = None THEN mt.tasks[p] = "Exited"
             ELSE valid_task_transition(mt.tasks[p], mt'.tasks[p])]_mt

-----------------------------------------------------------------------------
(* The proofs.                                                               *)

Schedulers ==
    [current      : ThreadIds \cup {None},
     need_resched : BOOLEAN,
     rq           : Rings(ThreadIds),
     tasks        : [TaskIds -> {"Runnable", "Running", "Blocked", "Exited", None}],
     threads      : [ThreadIds -> ThreadStates \cup {None}],
     task_of      : [ThreadIds -> TaskIds \cup {None}],
     timeslice    : [ThreadIds -> Nat]]

\* A thread in the table has a task in the table, which has not exited unless
\* the thread is Dead.
Owned(s) ==
    \A t \in ThreadIds : s.threads[t] # None =>
        /\ s.task_of[t] \in TaskIds
        /\ s.tasks[s.task_of[t]] # None
        /\ s.tasks[s.task_of[t]] = "Exited" => s.threads[t] = "Dead"

\* What is queued or current may run.
Runnable(s) ==
    /\ \A t \in ThreadIds : Queued(s.rq, t) => s.threads[t] \in SchedulableThread
    /\ s.current # None => s.threads[s.current] \in SchedulableThread

Sound(s) == s \in Schedulers /\ Counted(ThreadIds, s.rq) /\ Owned(s) /\ Runnable(s)

\* The net effect of a call on every thread and every task.
Moves(s, u) ==
    /\ \A t \in ThreadIds : s.threads[t] # None =>
          IF u.threads[t] = None THEN s.threads[t] = "Dead"
          ELSE valid_thread_transition(s.threads[t], u.threads[t])
    /\ \A p \in TaskIds : s.tasks[p] # None =>
          IF u.tasks[p] = None THEN s.tasks[p] = "Exited"
          ELSE valid_task_transition(s.tasks[p], u.tasks[p])

\* Mtss::new
LEMMA NewSound == Sound(NewMtss)
<1>1. Counted(ThreadIds, New) /\ New \in Rings(ThreadIds)
  BY CountedNew DEF Counted
<1>2. \A t \in ThreadIds : ~Queued(New, t)
  BY QueuedNew, MtssAssumption
<1>3. NewMtss \in Schedulers
  BY <1>1, MtssAssumption DEF NewMtss, Schedulers
<1> QED
  BY <1>1, <1>2, <1>3, MtssAssumption DEF Sound, Owned, Runnable, NewMtss

LEMMA CreateTaskSound ==
  ASSUME NEW s, Sound(s), NEW p \in TaskIds, create_taskOk(s, p)
  PROVE  Sound(create_task(s, p)) /\ Moves(s, create_task(s, p))
<1> DEFINE u == create_task(s, p)
<1>1. u \in Schedulers
  BY DEF Sound, create_task, Schedulers
<1>2. /\ u.rq = s.rq /\ u.current = s.current /\ u.threads = s.threads /\ u.task_of = s.task_of
      /\ u.tasks = [s.tasks EXCEPT ![p] = "Runnable"]
  BY DEF Sound, create_task, Schedulers
<1> HIDE DEF u
<1>3. Owned(u) /\ Runnable(u)
  BY <1>2, MtssAssumption DEF Sound, Schedulers, Owned, Runnable, create_taskOk
<1>4. Moves(s, u)
  BY <1>2 DEF Sound, Schedulers, Moves, create_taskOk, valid_thread_transition, valid_task_transition
<1> QED
  BY <1>1, <1>2, <1>3, <1>4 DEF Sound, u

LEMMA CreateThreadSound ==
  ASSUME NEW s, Sound(s), NEW p \in TaskIds, NEW t \in ThreadIds, create_threadOk(s, p, t)
  PROVE  Sound(create_thread(s, p, t)) /\ Moves(s, create_thread(s, p, t))
<1> DEFINE u == create_thread(s, p, t)
<1>1. u \in Schedulers
  BY MtssAssumption, Zenon DEF Sound, create_thread, Schedulers, ThreadStates
<1>2. /\ u.rq = s.rq /\ u.current = s.current /\ u.tasks = s.tasks
      /\ u.threads = [s.threads EXCEPT ![t] = "New"]
      /\ u.task_of = [s.task_of EXCEPT ![t] = p]
  BY DEF Sound, create_thread, Schedulers
<1> HIDE DEF u
<1>3. Owned(u) /\ Runnable(u)
  BY <1>2, MtssAssumption
  DEF Sound, Schedulers, Owned, Runnable, create_threadOk, SchedulableTask, SchedulableThread,
      TaskStates, ThreadStates
<1>4. Moves(s, u)
  BY <1>2, MtssAssumption
  DEF Sound, Schedulers, Moves, create_threadOk, valid_thread_transition, valid_task_transition
<1> QED
  BY <1>1, <1>2, <1>3, <1>4 DEF Sound, u

\* A thread that may become Ready, and is not in a table row of its own accord
\* Dead, has a task that has not exited.
LEMMA EnqueueSound ==
  ASSUME NEW s, Sound(s), NEW t \in ThreadIds, enqueue_threadOk(s, t)
  PROVE  /\ Sound(enqueue_thread(s, t)) /\ Moves(s, enqueue_thread(s, t))
         /\ enqueue_thread(s, t).tasks = s.tasks
<1> DEFINE u == enqueue_thread(s, t)
<1>1. /\ s.threads[t] # None /\ s.threads[t] # "Dead" /\ ~IsFull(s.rq)
      /\ valid_thread_transition(s.threads[t], "Ready")
  BY DEF enqueue_threadOk, ThreadMayBecome, valid_thread_transition
<1>2. Counted(ThreadIds, Enqueue(s.rq, t))
  BY <1>1, CountedEnqueue DEF Sound
<1>3. u \in Schedulers
  BY <1>2, Zenon DEF Sound, enqueue_thread, Schedulers, ThreadStates, Counted
<1>4. /\ u.rq = Enqueue(s.rq, t) /\ u.current = s.current /\ u.tasks = s.tasks
      /\ u.threads = [s.threads EXCEPT ![t] = "Ready"]
      /\ u.task_of = s.task_of
  BY DEF Sound, enqueue_thread, Schedulers
<1> HIDE DEF u
<1>5. \A r \in ThreadIds : Queued(u.rq, r) => r = t \/ Queued(s.rq, r)
  BY <1>4, QueuedEnqueue DEF Sound
<1>6. Owned(u)
  BY <1>1, <1>4 DEF Sound, Schedulers, Owned
<1>7. Runnable(u)
  BY <1>4, <1>5 DEF Sound, Schedulers, Runnable, SchedulableThread
<1>8. Moves(s, u)
  BY <1>1, <1>4, MtssAssumption
  DEF Sound, Schedulers, Moves, valid_thread_transition, valid_task_transition, ThreadStates
<1> QED
  BY <1>2, <1>3, <1>4, <1>6, <1>7, <1>8 DEF Sound, u

\* `next` on the run queue: the rest of the scheduler is as it was.
Taken(s) == [s EXCEPT !.rq = IF PickedThread(s) = None THEN AfterNone(s.rq) ELSE TakeNext(s.rq)]

LEMMA TakenSound ==
  ASSUME NEW s, Sound(s)
  PROVE  /\ Sound(Taken(s))
         /\ \A f \in {"current", "tasks", "threads", "task_of", "timeslice", "need_resched"} :
               Taken(s)[f] = s[f]
         /\ PickedThread(s) # None =>
               /\ PickedThread(s) \in ThreadIds
               /\ s.threads[PickedThread(s)] \in SchedulableThread
<1> DEFINE u == Taken(s)
           q == IF PickedThread(s) = None THEN AfterNone(s.rq) ELSE TakeNext(s.rq)
<1>1. Counted(ThreadIds, s.rq)
  BY DEF Sound
<1>2. PickedThread(s) # None <=> HasNext(s.rq)
  BY <1>1, QueuedTakeNext DEF PickedThread
<1>3. Counted(ThreadIds, q) /\ \A r \in ThreadIds : Queued(q, r) => Queued(s.rq, r)
  <2>1. CASE HasNext(s.rq)
    <3>1. q = TakeNext(s.rq)
      BY <1>2, <2>1
    <3>2. Counted(ThreadIds, q)
      BY <1>1, <2>1, <3>1, CountedTakeNext
    <3> QED
      BY <1>1, <2>1, <3>1, <3>2, QueuedTakeNext, MtssAssumption
  <2>2. CASE ~HasNext(s.rq)
    <3>1. q = AfterNone(s.rq)
      BY <1>2, <2>2
    <3>2. Counted(ThreadIds, q) /\ q.queue = s.rq.queue
      BY <1>1, <2>2, <3>1, CountedAfterNone
    <3> QED
      BY <3>2 DEF Queued
  <2> QED
    BY <2>1, <2>2
<1>4. u = [s EXCEPT !.rq = q]
  BY DEF Taken
<1> HIDE DEF u, q
<1>5. /\ u \in Schedulers /\ u.rq = q /\ u.current = s.current /\ u.tasks = s.tasks
      /\ u.threads = s.threads /\ u.task_of = s.task_of /\ u.timeslice = s.timeslice
      /\ u.need_resched = s.need_resched
  BY <1>3, <1>4 DEF Sound, Schedulers, Counted
<1>6. Sound(u)
  BY <1>3, <1>5 DEF Sound, Owned, Runnable
<1>7. ASSUME PickedThread(s) # None
      PROVE  PickedThread(s) \in ThreadIds /\ s.threads[PickedThread(s)] \in SchedulableThread
  <2>1. PickedThread(s) \in ThreadIds /\ Queued(s.rq, PickedThread(s))
    BY <1>1, <1>2, <1>7, QueuedTakeNext DEF PickedThread
  <2> QED
    BY <2>1 DEF Sound, Runnable
<1> QED
  BY <1>5, <1>6, <1>7 DEF u

\* pick_next never fails on a record, and puts only a Ready or Running thread
\* on the processor.
LEMMA PickNextSound ==
  ASSUME NEW s, Sound(s)
  PROVE  /\ Sound(pick_next(s)) /\ Moves(s, pick_next(s)) /\ pick_nextOk(s)
         /\ \A t \in ThreadIds : \/ pick_next(s).threads[t] = s.threads[t]
                                 \/ /\ s.threads[t] \in SchedulableThread
                                    /\ pick_next(s).threads[t] = "Running"
         /\ \A p \in TaskIds : \/ pick_next(s).tasks[p] = s.tasks[p]
                               \/ s.tasks[p] = "Runnable" /\ pick_next(s).tasks[p] = "Running"
<1> DEFINE u == pick_next(s)
           t == PickedThread(s)
           v == Taken(s)
<1>1. Sound(v) /\ v.current = s.current /\ v.tasks = s.tasks /\ v.threads = s.threads
      /\ v.task_of = s.task_of /\ v.timeslice = s.timeslice /\ v.need_resched = s.need_resched
  BY TakenSound
<1>2. t # None => t \in ThreadIds /\ s.threads[t] \in SchedulableThread
  BY TakenSound
<1>3. pick_nextOk(s)
  BY <1>2, MtssAssumption
  DEF pick_nextOk, ThreadMayBecome, SchedulableThread, valid_thread_transition, ThreadStates
<1>4. u = IF t # None THEN dispatch(v, t) ELSE v
  BY <1>3 DEF pick_next, Taken
<1> HIDE DEF u, t, v
<1>5. CASE t = None
  BY <1>1, <1>3, <1>4, <1>5
  DEF Moves, valid_thread_transition, valid_task_transition, u
<1>6. CASE t # None
  <2> DEFINE p == s.task_of[t]
  <2>1. t \in ThreadIds /\ s.threads[t] \in SchedulableThread
    BY <1>2, <1>6
  <2>2. p \in TaskIds /\ s.tasks[p] # None /\ s.tasks[p] # "Exited"
    BY <2>1, MtssAssumption DEF Sound, Owned, SchedulableThread, ThreadStates
  <2>3. /\ u \in Schedulers /\ u.rq = v.rq /\ u.current = t /\ u.task_of = s.task_of
        /\ u.threads = [s.threads EXCEPT ![t] = "Running"]
        /\ u.tasks = [s.tasks EXCEPT ![p] = IF s.tasks[p] = "Runnable" THEN "Running"
                                            ELSE s.tasks[p]]
    <3>1. v \in Schedulers /\ s \in Schedulers
      BY <1>1 DEF Sound
    <3>2. u = [v EXCEPT !.threads = [v.threads EXCEPT ![t] = "Running"],
                        !.timeslice = [v.timeslice EXCEPT ![t] = DEFAULT_TIMESLICE],
                        !.tasks = [v.tasks EXCEPT ![p] = IF s.tasks[p] = "Runnable" THEN "Running"
                                                         ELSE s.tasks[p]],
                        !.current = t]
      BY <1>1, <1>4, <1>6, <3>1, Zenon DEF dispatch, Schedulers
    <3>3. /\ [v.threads EXCEPT ![t] = "Running"] \in [ThreadIds -> ThreadStates \cup {None}]
          /\ [v.timeslice EXCEPT ![t] = DEFAULT_TIMESLICE] \in [ThreadIds -> Nat]
          /\ [v.tasks EXCEPT ![p] = IF s.tasks[p] = "Runnable" THEN "Running" ELSE s.tasks[p]]
                \in [TaskIds -> {"Runnable", "Running", "Blocked", "Exited", None}]
      BY <2>1, <2>2, <3>1, MtssAssumption DEF Schedulers, ThreadStates
    <3> QED
      BY <1>1, <2>1, <3>1, <3>2, <3>3, Zenon DEF Schedulers
  <2> HIDE DEF p
  <2>4. Owned(u)
    <3> SUFFICES ASSUME NEW r \in ThreadIds, u.threads[r] # None
                 PROVE  /\ u.task_of[r] \in TaskIds
                        /\ u.tasks[u.task_of[r]] # None
                        /\ u.tasks[u.task_of[r]] = "Exited" => u.threads[r] = "Dead"
      BY DEF Owned
    <3>1. /\ s.threads \in [ThreadIds -> ThreadStates \cup {None}]
          /\ s.tasks \in [TaskIds -> {"Runnable", "Running", "Blocked", "Exited", None}]
      BY DEF Sound, Schedulers
    <3>2. s.threads[r] # None /\ (r # t => u.threads[r] = s.threads[r])
      BY <2>1, <2>3, <3>1, MtssAssumption DEF SchedulableThread, ThreadStates
    <3>3. /\ s.task_of[r] \in TaskIds /\ s.tasks[s.task_of[r]] # None
          /\ s.tasks[s.task_of[r]] = "Exited" => s.threads[r] = "Dead"
      BY <3>2 DEF Sound, Owned
    <3>4. CASE s.task_of[r] = p
      BY <2>2, <2>3, <3>1, <3>4, MtssAssumption DEF TaskStates
    <3>5. CASE s.task_of[r] # p
      BY <2>1, <2>3, <3>1, <3>2, <3>3, <3>5 DEF SchedulableThread
    <3> QED
      BY <3>4, <3>5
  <2>5. Runnable(u)
    BY <1>1, <2>1, <2>3 DEF Sound, Schedulers, Runnable, SchedulableThread
  <2>6. Sound(u)
    BY <1>1, <2>3, <2>4, <2>5 DEF Sound
  <2>7. /\ \A r \in ThreadIds : \/ u.threads[r] = s.threads[r]
                                \/ s.threads[r] \in SchedulableThread /\ u.threads[r] = "Running"
        /\ \A r \in TaskIds : \/ u.tasks[r] = s.tasks[r]
                              \/ s.tasks[r] = "Runnable" /\ u.tasks[r] = "Running"
    BY <2>1, <2>2, <2>3 DEF Sound, Schedulers
  <2>8. Moves(s, u)
    BY <2>7, MtssAssumption
    DEF Moves, SchedulableThread, valid_thread_transition, valid_task_transition,
        ThreadStates, TaskStates
  <2> QED
    BY <1>3, <2>6, <2>7, <2>8 DEF u
<1> QED
  BY <1>5, <1>6

\* The current thread goes back to the run queue.
LEMMA RequeueSound ==
  ASSUME NEW s, Sound(s), NEW t \in ThreadIds, RequeueOk(s, t)
  PROVE  /\ Sound(ready_current_for_requeue(s, t))
         /\ ready_current_for_requeue(s, t).threads = [s.threads EXCEPT ![t] = "Ready"]
         /\ ready_current_for_requeue(s, t).tasks = s.tasks
<1> DEFINE e == enqueue_thread(s, t)
           u == ready_current_for_requeue(s, t)
           ts == [s.timeslice EXCEPT ![t] = DEFAULT_TIMESLICE]
<1>1. Sound(e)
  BY EnqueueSound DEF RequeueOk, enqueue_threadOk
<1>2. s \in Schedulers /\ e \in Schedulers
  BY <1>1 DEF Sound
<1>3. ts \in [ThreadIds -> Nat]
  BY <1>2, MtssAssumption DEF Schedulers
<1>4. u = [e EXCEPT !.timeslice = ts] /\ e.threads = [s.threads EXCEPT ![t] = "Ready"]
      /\ e.tasks = s.tasks
  BY <1>2, Zenon DEF ready_current_for_requeue, enqueue_thread, Schedulers
<1> HIDE DEF e, u, ts
<1>5. /\ u \in Schedulers /\ u.rq = e.rq /\ u.current = e.current /\ u.tasks = e.tasks
      /\ u.threads = e.threads /\ u.task_of = e.task_of
  BY <1>2, <1>3, <1>4, SMTT(30) DEF Schedulers
<1>6. Sound(u)
  BY <1>1, <1>5 DEF Sound, Owned, Runnable
<1> QED
  BY <1>4, <1>5, <1>6 DEF u

\* A yield moves the current thread to Ready or leaves it Running; nobody else
\* leaves the processor.
LEMMA YieldSound ==
  ASSUME NEW s, Sound(s)
  PROVE  Sound(yield_current(s)) /\ Moves(s, yield_current(s))
<1>1. CASE s.current = None
  BY <1>1, PickNextSound DEF yield_current
<1>2. CASE s.current # None /\ ~RequeueOk(s, s.current)
  BY <1>2 DEF yield_current, Moves, valid_thread_transition, valid_task_transition
<1>3. CASE s.current # None /\ RequeueOk(s, s.current)
  <2> DEFINE t == s.current
             r == ready_current_for_requeue(s, t)
             u == pick_next(r)
  <2>1. t \in ThreadIds /\ s.threads[t] \in SchedulableThread
    BY <1>3 DEF Sound, Schedulers, Runnable
  <2>2. Sound(r) /\ r.threads = [s.threads EXCEPT ![t] = "Ready"] /\ r.tasks = s.tasks
    BY <1>3, <2>1, RequeueSound
  <2>3. yield_current(s) = u
    BY <1>3 DEF yield_current
  <2>4. /\ Sound(u)
        /\ \A x \in ThreadIds : \/ u.threads[x] = r.threads[x]
                                \/ r.threads[x] \in SchedulableThread /\ u.threads[x] = "Running"
        /\ \A p \in TaskIds : \/ u.tasks[p] = r.tasks[p]
                              \/ r.tasks[p] = "Runnable" /\ u.tasks[p] = "Running"
    BY <2>2, PickNextSound, Zenon
  <2> HIDE DEF t, r, u
  <2>5. \A x \in ThreadIds : \/ u.threads[x] = s.threads[x]
                             \/ /\ s.threads[x] \in SchedulableThread
                                /\ u.threads[x] \in SchedulableThread
    BY <2>1, <2>2, <2>4 DEF Sound, Schedulers, SchedulableThread
  <2>6. Moves(s, u)
    BY <2>2, <2>4, <2>5, MtssAssumption
    DEF Moves, SchedulableThread, valid_thread_transition, valid_task_transition,
        ThreadStates, TaskStates
  <2> QED
    BY <2>3, <2>4, <2>6
<1> QED
  BY <1>1, <1>2, <1>3

\* Dropping the current thread, setting need_resched or charging the slice
\* touches no thread, task or record.
LEMMA BookkeepingSound ==
  ASSUME NEW s, Sound(s), NEW u, u \in Schedulers,
         u.rq = s.rq, u.tasks = s.tasks, u.threads = s.threads, u.task_of = s.task_of,
         u.current \in {s.current, None}
  PROVE  Sound(u) /\ Moves(s, u)
<1>1. Moves(s, u)
  BY DEF Moves, valid_thread_transition, valid_task_transition
<1> QED
  BY <1>1 DEF Sound, Owned, Runnable

LEMMA RequeueCurrentSound ==
  ASSUME NEW s, Sound(s)
  PROVE  Sound(requeue_current(s)) /\ Moves(s, requeue_current(s))
<1> DEFINE t == s.current
           left == [s EXCEPT !.current = None]
           u == ready_current_for_requeue(left, t)
<1>1. /\ left \in Schedulers /\ left.rq = s.rq /\ left.tasks = s.tasks
      /\ left.threads = s.threads /\ left.task_of = s.task_of /\ left.current = None
  BY DEF Sound, Schedulers
<1>2. Sound(left) /\ Moves(s, left)
  BY <1>1, BookkeepingSound, Zenon
<1>3. CASE t # None /\ RequeueOk(s, t)
  <2>1. t \in ThreadIds /\ RequeueOk(left, t) /\ s.threads[t] \in SchedulableThread
    BY <1>1, <1>3 DEF Sound, Schedulers, Runnable, RequeueOk, ThreadMayBecome
  <2>2. Sound(u) /\ u.threads = [s.threads EXCEPT ![t] = "Ready"] /\ u.tasks = s.tasks
    <3> HIDE DEF left, t
    <3>1. /\ Sound(ready_current_for_requeue(left, t))
          /\ ready_current_for_requeue(left, t).threads = [left.threads EXCEPT ![t] = "Ready"]
          /\ ready_current_for_requeue(left, t).tasks = left.tasks
      BY <1>2, <2>1, RequeueSound
    <3> QED
      BY <1>1, <3>1 DEF u
  <2>3. requeue_current(s) = u
    BY <1>3 DEF requeue_current
  <2> HIDE DEF u, t
  <2>4. Moves(s, u)
    BY <2>1, <2>2, MtssAssumption
    DEF Sound, Schedulers, Moves, SchedulableThread, valid_thread_transition,
        valid_task_transition, ThreadStates
  <2> QED
    BY <2>2, <2>3, <2>4
<1>4. CASE ~(t # None /\ RequeueOk(s, t))
  BY <1>2, <1>4 DEF requeue_current
<1> QED
  BY <1>3, <1>4

LEMMA RescheduleSound ==
  ASSUME NEW s, Sound(s)
  PROVE  Sound(reschedule_if_needed(s)) /\ Moves(s, reschedule_if_needed(s))
<1> DEFINE u == [s EXCEPT !.need_resched = FALSE]
<1>1. /\ u \in Schedulers /\ u.rq = s.rq /\ u.tasks = s.tasks
      /\ u.threads = s.threads /\ u.task_of = s.task_of /\ u.current = s.current
  BY Zenon DEF Sound, Schedulers
<1>2. Sound(u)
  BY <1>1, BookkeepingSound, Zenon
<1>3. Sound(yield_current(u)) /\ Moves(u, yield_current(u))
  BY <1>2, YieldSound
<1>4. Moves(s, yield_current(u))
  BY <1>1, <1>3, Zenon DEF Moves
<1>5. Moves(s, s)
  BY DEF Moves, valid_thread_transition, valid_task_transition
<1> QED
  BY <1>3, <1>4, <1>5 DEF reschedule_if_needed

LEMMA TimerTickSound ==
  ASSUME NEW s, Sound(s), NEW disabled \in BOOLEAN
  PROVE  Sound(on_timer_tick(s, disabled)) /\ Moves(s, on_timer_tick(s, disabled))
<1> DEFINE t == s.current
           left == s.timeslice[t] - 1
           ts == [s.timeslice EXCEPT ![t] = IF left < 0 THEN 0 ELSE left]
           charged == [s EXCEPT !.timeslice = ts]
           marked == [charged EXCEPT !.need_resched = TRUE]
<1>1. Moves(s, s)
  BY DEF Moves, valid_thread_transition, valid_task_transition
<1>2. CASE t = None \/ s.threads[t] # "Running"
  BY <1>1, <1>2 DEF on_timer_tick
<1>3. CASE ~(t = None \/ s.threads[t] # "Running")
  <2>1. s \in Schedulers /\ t \in ThreadIds
    BY <1>3 DEF Sound, Schedulers
  <2>2. ts \in [ThreadIds -> Nat]
    BY <2>1 DEF Schedulers
  <2>3. [s EXCEPT !.timeslice[t] = IF left < 0 THEN 0 ELSE left] = charged
    BY <2>1 DEF Schedulers
  <2> HIDE DEF ts
  <2>4. /\ charged \in Schedulers /\ charged.rq = s.rq /\ charged.tasks = s.tasks
        /\ charged.threads = s.threads /\ charged.task_of = s.task_of
        /\ charged.current = s.current
    BY <2>1, <2>2 DEF Schedulers
  <2>5. /\ marked \in Schedulers /\ marked.rq = s.rq /\ marked.tasks = s.tasks
        /\ marked.threads = s.threads /\ marked.task_of = s.task_of
        /\ marked.current = s.current
    BY <2>1, <2>2, Zenon DEF Schedulers
  <2>6. Sound(charged) /\ Moves(s, charged) /\ Sound(marked) /\ Moves(s, marked)
    BY <2>4, <2>5, BookkeepingSound, Zenon
  <2>7. Sound(reschedule_if_needed(marked)) /\ Moves(marked, reschedule_if_needed(marked))
    BY <2>6, RescheduleSound
  <2>8. Moves(s, reschedule_if_needed(marked))
    BY <2>5, <2>7 DEF Moves
  <2>9. on_timer_tick(s, disabled) \in {charged, marked, reschedule_if_needed(marked)}
    BY <1>3, <2>3, Zenon DEF on_timer_tick
  <2> HIDE DEF charged, marked
  <2> QED
    BY <2>6, <2>7, <2>8, <2>9
<1> QED
  BY <1>2, <1>3

\* mark_task_running, mark_task_ready and block_task move one task along its
\* life cycle, neither into nor out of Exited.
LEMMA TaskStepSound ==
  ASSUME NEW s, Sound(s), NEW p \in TaskIds, NEW to,
         NEW u, u = [s EXCEPT !.tasks[p] = to],
         \/ to = s.tasks[p]
         \/ /\ s.tasks[p] \in {"Runnable", "Running", "Blocked"}
            /\ to \in {"Runnable", "Running", "Blocked"}
            /\ valid_task_transition(s.tasks[p], to)
  PROVE  Sound(u) /\ Moves(s, u)
<1>1. s \in Schedulers /\ to \in {"Runnable", "Running", "Blocked", "Exited", None}
  BY DEF Sound, Schedulers
<1>2. /\ u \in Schedulers /\ u.rq = s.rq /\ u.current = s.current /\ u.threads = s.threads
      /\ u.task_of = s.task_of /\ u.tasks = [s.tasks EXCEPT ![p] = to]
  BY <1>1 DEF Schedulers
<1>3. Owned(u)
  BY <1>1, <1>2, MtssAssumption DEF Sound, Owned, Schedulers, TaskStates
<1>4. Runnable(u)
  BY <1>2 DEF Sound, Runnable
<1>5. Moves(s, u)
  BY <1>1, <1>2, MtssAssumption
  DEF Moves, Schedulers, valid_thread_transition, valid_task_transition, TaskStates
<1> QED
  BY <1>2, <1>3, <1>4, <1>5 DEF Sound

LEMMA MarkTaskSound ==
  ASSUME NEW s, Sound(s), NEW p \in TaskIds
  PROVE  /\ Sound(mark_task_running(s, p)) /\ Moves(s, mark_task_running(s, p))
         /\ Sound(mark_task_ready(s, p)) /\ Moves(s, mark_task_ready(s, p))
         /\ Sound(block_task(s, p)) /\ Moves(s, block_task(s, p))
<1>1. s.tasks[p] \in {"Runnable", "Running", "Blocked", "Exited", None}
  BY DEF Sound, Schedulers
<1>2. Sound(mark_task_running(s, p)) /\ Moves(s, mark_task_running(s, p))
  BY TaskStepSound DEF mark_task_running, valid_task_transition
<1>3. Sound(mark_task_ready(s, p)) /\ Moves(s, mark_task_ready(s, p))
  BY TaskStepSound DEF mark_task_ready, valid_task_transition
<1>4. Sound(block_task(s, p)) /\ Moves(s, block_task(s, p))
  BY <1>1, TaskStepSound DEF block_task, valid_task_transition
<1> QED
  BY <1>2, <1>3, <1>4

\* Taking a set of threads off the run queue and off the processor.
Unscheduled(s, G) == [s EXCEPT !.rq = RemoveMatching(s.rq, G),
                               !.current = IF s.current \in G THEN None ELSE s.current]

LEMMA UnscheduleSound ==
  ASSUME NEW s, Sound(s), NEW G \in SUBSET ThreadIds, NEW u, u = Unscheduled(s, G)
  PROVE  /\ Sound(u)
         /\ u.tasks = s.tasks /\ u.threads = s.threads /\ u.task_of = s.task_of
         /\ u.timeslice = s.timeslice /\ u.need_resched = s.need_resched
         /\ \A t \in G : ~Queued(u.rq, t) /\ u.current # t
         /\ \A t \in ThreadIds : Queued(u.rq, t) => Queued(s.rq, t)
         /\ u.current \in {s.current, None}
<1>1. Counted(ThreadIds, RemoveMatching(s.rq, G))
  BY CountedRemoveMatching DEF Sound
<1>2. \A t \in ThreadIds : Queued(RemoveMatching(s.rq, G), t) => Queued(s.rq, t) /\ t \notin G
  BY QueuedRemove, MtssAssumption DEF Sound
<1>3. /\ u \in Schedulers /\ u.rq = RemoveMatching(s.rq, G)
      /\ u.current = IF s.current \in G THEN None ELSE s.current
      /\ u.tasks = s.tasks /\ u.threads = s.threads /\ u.task_of = s.task_of
      /\ u.timeslice = s.timeslice /\ u.need_resched = s.need_resched
  BY <1>1, Zenon DEF Sound, Schedulers, Counted, Unscheduled
<1>4. Owned(u) /\ Runnable(u)
  BY <1>2, <1>3 DEF Sound, Owned, Runnable
<1>5. \A t \in G : ~Queued(u.rq, t) /\ u.current # t
  BY <1>2, <1>3, MtssAssumption
<1> QED
  BY <1>1, <1>2, <1>3, <1>4, <1>5 DEF Sound

\* A thread that is neither queued nor current may take any state.
SetThread(s, t, to) == [s EXCEPT !.threads[t] = to]

LEMMA SetThreadSound ==
  ASSUME NEW s, Sound(s), NEW t \in ThreadIds, NEW to \in ThreadStates,
         s.threads[t] # None, ~Queued(s.rq, t), s.current # t,
         to # "Dead" => s.threads[t] # "Dead",
         NEW u, u = SetThread(s, t, to)
  PROVE  /\ Sound(u) /\ u.threads = [s.threads EXCEPT ![t] = to]
         /\ u.tasks = s.tasks /\ u.task_of = s.task_of /\ u.rq = s.rq /\ u.current = s.current
<1>1. /\ u \in Schedulers /\ u.threads = [s.threads EXCEPT ![t] = to]
      /\ u.tasks = s.tasks /\ u.task_of = s.task_of /\ u.rq = s.rq /\ u.current = s.current
  BY DEF Sound, Schedulers, SetThread
<1>2. Owned(u)
  BY <1>1, MtssAssumption DEF Sound, Owned, Schedulers
<1>3. Runnable(u)
  BY <1>1 DEF Sound, Runnable, Schedulers
<1> QED
  BY <1>1, <1>2, <1>3 DEF Sound

LEMMA UnscheduleThreadSound ==
  ASSUME NEW s, Sound(s), NEW t \in ThreadIds
  PROVE  /\ Sound(unschedule_thread(s, t))
         /\ unschedule_thread(s, t).tasks = s.tasks
         /\ unschedule_thread(s, t).threads = s.threads
         /\ unschedule_thread(s, t).task_of = s.task_of
         /\ ~Queued(unschedule_thread(s, t).rq, t)
         /\ unschedule_thread(s, t).current # t
<1> DEFINE u == unschedule_thread(s, t)
           G == {t}
<1>1. u = Unscheduled(s, G)
  BY DEF unschedule_thread, RemoveThread, Unscheduled
<1>2. G \in SUBSET ThreadIds /\ t \in G
  OBVIOUS
<1> HIDE DEF u, G
<1>3. /\ Sound(u) /\ u.tasks = s.tasks /\ u.threads = s.threads /\ u.task_of = s.task_of
      /\ \A x \in G : ~Queued(u.rq, x) /\ u.current # x
  BY <1>1, <1>2, UnscheduleSound
<1> QED
  BY <1>2, <1>3 DEF u

\* block_thread and sleep_thread.
LEMMA SuspendSound ==
  ASSUME NEW s, Sound(s), NEW t \in ThreadIds, NEW to \in {"Blocked", "Sleeping"},
         SuspendOk(s, t, to)
  PROVE  Sound(Suspend(s, t, to)) /\ Moves(s, Suspend(s, t, to))
<1> DEFINE v == unschedule_thread(s, t)
           w == [v EXCEPT !.threads[t] = to]
           p == s.task_of[t]
           b == \E x \in ThreadsOf(w, p) : w.threads[x] \in SchedulableThread
           next == IF ~b THEN "Blocked" ELSE IF w.tasks[p] = "Running" THEN "Running"
                   ELSE "Runnable"
           u == Suspend(s, t, to)
<1>1. s.threads[t] # None /\ s.threads[t] # "Dead" /\ valid_thread_transition(s.threads[t], to)
  BY DEF SuspendOk, ThreadMayBecome, valid_thread_transition
<1>2. /\ Sound(v) /\ v.tasks = s.tasks /\ v.threads = s.threads /\ v.task_of = s.task_of
      /\ ~Queued(v.rq, t) /\ v.current # t
  BY UnscheduleThreadSound
<1> HIDE DEF v
<1>3. /\ Sound(w) /\ w.threads = [s.threads EXCEPT ![t] = to] /\ w.tasks = s.tasks
      /\ w.task_of = s.task_of
  <2>1. to \in ThreadStates /\ to # "Dead" /\ w = SetThread(v, t, to)
    BY DEF ThreadStates, SetThread
  <2> HIDE DEF w
  <2> QED
    BY <1>1, <1>2, <2>1, SetThreadSound
<1>4. p \in TaskIds /\ s.tasks[p] # None /\ s.tasks[p] # "Exited"
  BY <1>1 DEF Sound, Owned
<1>5. s.tasks[p] \in {"Runnable", "Running", "Blocked"}
  BY <1>4 DEF Sound, Schedulers
<1>6. u = [w EXCEPT !.tasks[p] = next]
  BY DEF Suspend, refresh_task_wait_state, v
<1> HIDE DEF w, u, p
<1>7. next \in {"Runnable", "Running", "Blocked"} /\ valid_task_transition(w.tasks[p], next)
  BY <1>3, <1>5 DEF valid_task_transition
<1> HIDE DEF next
<1>8. Sound(u) /\ Moves(w, u)
  BY <1>3, <1>4, <1>5, <1>6, <1>7, TaskStepSound
<1>9. u.threads = w.threads
  BY <1>3, <1>6, SMTT(30) DEF Sound, Schedulers
<1>10. Moves(s, u)
  BY <1>1, <1>3, <1>8, <1>9, MtssAssumption
  DEF Moves, Sound, Schedulers, valid_thread_transition, ThreadStates
<1> QED
  BY <1>8, <1>10 DEF u

\* wake_thread, of a thread in any state that may become Ready.
LEMMA WakeSound ==
  ASSUME NEW s, Sound(s), NEW t \in ThreadIds, wake_threadOk(s, t)
  PROVE  Sound(wake_thread(s, t)) /\ Moves(s, wake_thread(s, t))
<1> DEFINE p == s.task_of[t]
           to == IF s.tasks[p] = "Blocked" THEN "Runnable" ELSE s.tasks[p]
           v == [s EXCEPT !.tasks[p] = to]
           u == wake_thread(s, t)
<1>1. s.threads[t] # None /\ s.threads[t] # "Dead" /\ enqueue_threadOk(s, t)
  BY DEF wake_threadOk, enqueue_threadOk, ThreadMayBecome, valid_thread_transition
<1>2. p \in TaskIds
  BY <1>1 DEF Sound, Owned
<1>3. u = enqueue_thread(v, t)
  BY SMTT(30) DEF wake_thread
<1>4. \/ to = s.tasks[p]
      \/ /\ s.tasks[p] \in {"Runnable", "Running", "Blocked"}
         /\ to \in {"Runnable", "Running", "Blocked"}
         /\ valid_task_transition(s.tasks[p], to)
  BY DEF valid_task_transition
<1> HIDE DEF to, p
<1>5. Sound(v) /\ Moves(s, v)
  BY <1>2, <1>4, TaskStepSound
<1>6. v.threads = s.threads /\ v.rq = s.rq
  BY DEF Sound, Schedulers
<1>7. enqueue_threadOk(v, t)
  BY <1>1, <1>6 DEF enqueue_threadOk, ThreadMayBecome
<1> HIDE DEF v, u
<1>8. Sound(u) /\ Moves(v, u) /\ u.tasks = v.tasks
  BY <1>3, <1>5, <1>7, EnqueueSound, SMTT(30)
<1>9. Moves(s, u)
  BY <1>5, <1>6, <1>8 DEF Moves
<1> QED
  BY <1>8, <1>9 DEF u

LEMMA ExitThreadSound ==
  ASSUME NEW s, Sound(s), NEW t \in ThreadIds, exit_threadOk(s, t)
  PROVE  Sound(exit_thread(s, t)) /\ Moves(s, exit_thread(s, t))
<1> DEFINE v == unschedule_thread(s, t)
           u == exit_thread(s, t)
<1>1. s.threads[t] # None
  BY DEF exit_threadOk
<1>2. /\ Sound(v) /\ v.tasks = s.tasks /\ v.threads = s.threads /\ v.task_of = s.task_of
      /\ ~Queued(v.rq, t) /\ v.current # t
  BY UnscheduleThreadSound
<1>3. u = SetThread(v, t, "Dead") /\ "Dead" \in ThreadStates
  BY DEF exit_thread, SetThread, ThreadStates
<1> HIDE DEF u, v
<1>4. Sound(u) /\ u.threads = [s.threads EXCEPT ![t] = "Dead"] /\ u.tasks = s.tasks
  BY <1>1, <1>2, <1>3, SetThreadSound, SMTT(30)
<1>5. Moves(s, u)
  BY <1>4, MtssAssumption
  DEF Moves, Sound, Schedulers, valid_thread_transition, valid_task_transition, ThreadStates
<1> QED
  BY <1>4, <1>5 DEF u

\* unschedule_thread for every thread of a task.
LEMMA UnscheduleTaskSound ==
  ASSUME NEW s, Sound(s), NEW p
  PROVE  /\ Sound(UnscheduleTask(s, p))
         /\ UnscheduleTask(s, p).tasks = s.tasks
         /\ UnscheduleTask(s, p).threads = s.threads
         /\ UnscheduleTask(s, p).task_of = s.task_of
         /\ UnscheduleTask(s, p).timeslice = s.timeslice
         /\ \A t \in ThreadsOf(s, p) : /\ ~Queued(UnscheduleTask(s, p).rq, t)
                                       /\ UnscheduleTask(s, p).current # t
<1> DEFINE G == ThreadsOf(s, p)
           u == UnscheduleTask(s, p)
<1>1. G \in SUBSET ThreadIds /\ u = Unscheduled(s, G)
  BY DEF ThreadsOf, UnscheduleTask, Unscheduled
<1> HIDE DEF u, G
<1>2. /\ Sound(u) /\ u.tasks = s.tasks /\ u.threads = s.threads /\ u.task_of = s.task_of
      /\ u.timeslice = s.timeslice
      /\ \A x \in G : ~Queued(u.rq, x) /\ u.current # x
  BY <1>1, UnscheduleSound
<1> QED
  BY <1>2 DEF u, G

\* terminate_task kills every thread of the task with it.
LEMMA TerminateTaskSound ==
  ASSUME NEW s, Sound(s), NEW p \in TaskIds, terminate_taskOk(s, p)
  PROVE  /\ Sound(terminate_task(s, p)) /\ Moves(s, terminate_task(s, p))
         /\ reap_taskOk(terminate_task(s, p), p)
<1> DEFINE v == UnscheduleTask(s, p)
           G == ThreadsOf(s, p)
           th == [t \in ThreadIds |-> IF t \in G THEN "Dead" ELSE s.threads[t]]
           tk == [s.tasks EXCEPT ![p] = "Exited"]
           u == terminate_task(s, p)
<1>1. /\ Sound(v) /\ v.tasks = s.tasks /\ v.threads = s.threads /\ v.task_of = s.task_of
      /\ \A x \in G : ~Queued(v.rq, x) /\ v.current # x
  BY UnscheduleTaskSound
<1>2. u = [v EXCEPT !.tasks = tk, !.threads = th]
  BY <1>1 DEF terminate_task
<1>3. th \in [ThreadIds -> ThreadStates \cup {None}] /\ s.tasks \in [TaskIds -> {"Runnable", "Running", "Blocked", "Exited", None}]
  BY DEF Sound, Schedulers, ThreadStates
<1>4. tk \in [TaskIds -> {"Runnable", "Running", "Blocked", "Exited", None}]
  BY <1>3
<1>5. \A t \in ThreadIds : t \in G <=> s.threads[t] # None /\ s.task_of[t] = p
  BY DEF ThreadsOf
<1> HIDE DEF v, u, G
<1>6. /\ u \in Schedulers /\ u.rq = v.rq /\ u.current = v.current /\ u.task_of = s.task_of
      /\ u.threads = th /\ u.tasks = tk
  BY <1>1, <1>2, <1>3, <1>4, Zenon DEF Sound, Schedulers
<1>7. Owned(u)
  <2> SUFFICES ASSUME NEW t \in ThreadIds, u.threads[t] # None
               PROVE  /\ u.task_of[t] \in TaskIds
                      /\ u.tasks[u.task_of[t]] # None
                      /\ u.tasks[u.task_of[t]] = "Exited" => u.threads[t] = "Dead"
    BY DEF Owned
  <2>1. s.threads[t] # None
    BY <1>5, <1>6
  <2>2. /\ s.task_of[t] \in TaskIds /\ s.tasks[s.task_of[t]] # None
        /\ s.tasks[s.task_of[t]] = "Exited" => s.threads[t] = "Dead"
    BY <2>1 DEF Sound, Owned
  <2>3. CASE s.task_of[t] = p
    BY <1>3, <1>5, <1>6, <2>1, <2>2, <2>3, MtssAssumption, SMTT(30) DEF TaskStates
  <2>4. CASE s.task_of[t] # p
    BY <1>3, <1>5, <1>6, <2>1, <2>2, <2>4, SMTT(30)
  <2> QED
    BY <2>3, <2>4
<1>8. Runnable(u)
  <2>1. \A t \in ThreadIds : t \notin G => u.threads[t] = s.threads[t]
    BY <1>6
  <2>2. u.current # None => u.current \in ThreadIds
    BY <1>6, SMTT(30) DEF Schedulers
  <2> QED
    BY <1>1, <1>6, <2>1, <2>2 DEF Sound, Runnable
<1>9. Moves(s, u)
  BY <1>3, <1>6, MtssAssumption
  DEF Moves, Sound, Schedulers, valid_thread_transition, valid_task_transition, ThreadStates, TaskStates
<1>10. reap_taskOk(u, p)
  BY <1>3, <1>5, <1>6 DEF reap_taskOk, ThreadsOf
<1> QED
  BY <1>1, <1>6, <1>7, <1>8, <1>9, <1>10 DEF Sound, u

LEMMA ContainTaskSound ==
  ASSUME NEW s, Sound(s), NEW p \in TaskIds, contain_taskOk(s, p)
  PROVE  Sound(contain_task(s, p)) /\ Moves(s, contain_task(s, p))
<1> DEFINE v == UnscheduleTask(s, p)
           u == contain_task(s, p)
<1>1. Sound(v) /\ v.tasks = s.tasks /\ v.threads = s.threads /\ v.task_of = s.task_of
  BY UnscheduleTaskSound
<1>2. u = [v EXCEPT !.tasks[p] = "Blocked"]
  BY DEF contain_task
<1>3. v.tasks[p] \in {"Runnable", "Running", "Blocked"}
  BY <1>1 DEF contain_taskOk, Sound, Schedulers
<1> HIDE DEF v, u
<1>4. Sound(u) /\ Moves(v, u)
  BY <1>1, <1>2, <1>3, TaskStepSound DEF valid_task_transition
<1>5. Moves(s, u)
  BY <1>1, <1>4 DEF Moves
<1> QED
  BY <1>4, <1>5 DEF u

\* reap_task frees the task and all its threads, which are Dead, hence neither
\* queued nor current.
LEMMA ReapTaskSound ==
  ASSUME NEW s, Sound(s), NEW p \in TaskIds, reap_taskOk(s, p)
  PROVE  Sound(reap_task(s, p)) /\ Moves(s, reap_task(s, p))
<1> DEFINE G == ThreadsOf(s, p)
           th == [t \in ThreadIds |-> IF t \in G THEN None ELSE s.threads[t]]
           to == [t \in ThreadIds |-> IF t \in G THEN None ELSE s.task_of[t]]
           ts == [t \in ThreadIds |-> IF t \in G THEN 0 ELSE s.timeslice[t]]
           tk == [s.tasks EXCEPT ![p] = None]
           u == reap_task(s, p)
<1>1. u = [s EXCEPT !.tasks = tk, !.threads = th, !.task_of = to, !.timeslice = ts]
  BY DEF reap_task
<1>2. /\ th \in [ThreadIds -> ThreadStates \cup {None}] /\ to \in [ThreadIds -> TaskIds \cup {None}]
      /\ ts \in [ThreadIds -> Nat]
      /\ tk \in [TaskIds -> {"Runnable", "Running", "Blocked", "Exited", None}]
  BY DEF Sound, Schedulers
<1>3. /\ \A t \in ThreadIds : t \in G <=> s.threads[t] # None /\ s.task_of[t] = p
      /\ \A t \in G : s.threads[t] = "Dead"
      /\ s.tasks[p] = "Exited"
  BY DEF ThreadsOf, reap_taskOk
<1> HIDE DEF u, G
<1>4. /\ u \in Schedulers /\ u.rq = s.rq /\ u.current = s.current /\ u.task_of = to
      /\ u.threads = th /\ u.tasks = tk
  BY <1>1, <1>2, Zenon DEF Sound, Schedulers
<1>5. \A t \in ThreadIds : u.threads[t] # None =>
         t \notin G /\ u.threads[t] = s.threads[t] /\ u.task_of[t] = s.task_of[t] /\ s.task_of[t] # p
  BY <1>3, <1>4
<1>6. Owned(u)
  BY <1>4, <1>5 DEF Sound, Schedulers, Owned
<1>7. \A t \in ThreadIds : s.threads[t] \in SchedulableThread => u.threads[t] = s.threads[t]
  BY <1>3, <1>4 DEF SchedulableThread
<1>8. Runnable(u)
  BY <1>4, <1>7, SMTT(30) DEF Sound, Schedulers, Runnable
<1>9. Moves(s, u)
  BY <1>3, <1>4 DEF Moves, Sound, Schedulers, valid_thread_transition, valid_task_transition
<1> QED
  BY <1>4, <1>6, <1>8, <1>9 DEF Sound, u

-----------------------------------------------------------------------------
(* Any order of calls. *)

\* Every call keeps the scheduler sound and moves threads and tasks along
\* their life cycles.
LEMMA NextSound == Sound(mt) /\ [Next]_mt => Sound(mt') /\ Moves(mt, mt')
<1> SUFFICES ASSUME Sound(mt), [Next]_mt PROVE Sound(mt') /\ Moves(mt, mt')
  OBVIOUS
<1>1. ASSUME NEW p \in TaskIds, CreateTask(p) PROVE Sound(mt') /\ Moves(mt, mt')
  BY <1>1, CreateTaskSound DEF CreateTask
<1>2. ASSUME NEW p \in TaskIds, NEW t \in ThreadIds, CreateThread(p, t)
      PROVE  Sound(mt') /\ Moves(mt, mt')
  BY <1>2, CreateThreadSound DEF CreateThread
<1>3. ASSUME NEW p \in TaskIds, MarkTaskRunning(p) \/ MarkTaskReady(p) \/ BlockTask(p)
      PROVE  Sound(mt') /\ Moves(mt, mt')
  BY <1>3, MarkTaskSound DEF MarkTaskRunning, MarkTaskReady, BlockTask
<1>4. ASSUME NEW p \in TaskIds, TerminateTask(p) PROVE Sound(mt') /\ Moves(mt, mt')
  BY <1>4, TerminateTaskSound DEF TerminateTask
<1>5. ASSUME NEW p \in TaskIds, ContainTask(p) PROVE Sound(mt') /\ Moves(mt, mt')
  BY <1>5, ContainTaskSound DEF ContainTask
<1>6. ASSUME NEW p \in TaskIds, ReapTask(p) PROVE Sound(mt') /\ Moves(mt, mt')
  BY <1>6, ReapTaskSound DEF ReapTask
<1>7. ASSUME NEW t \in ThreadIds, EnqueueThread(t) PROVE Sound(mt') /\ Moves(mt, mt')
  BY <1>7, EnqueueSound DEF EnqueueThread
<1>8. ASSUME NEW t \in ThreadIds, NEW to \in {"Blocked", "Sleeping"}, SuspendThread(t, to)
      PROVE  Sound(mt') /\ Moves(mt, mt')
  BY <1>8, SuspendSound DEF SuspendThread
<1>9. ASSUME NEW t \in ThreadIds, WakeThread(t) PROVE Sound(mt') /\ Moves(mt, mt')
  BY <1>9, WakeSound DEF WakeThread
<1>10. ASSUME NEW t \in ThreadIds, ExitThread(t) PROVE Sound(mt') /\ Moves(mt, mt')
  BY <1>10, ExitThreadSound DEF ExitThread
<1>11. CASE PickNext
  BY <1>11, PickNextSound DEF PickNext
<1>12. ASSUME NEW disabled \in BOOLEAN, TimerTick(disabled) PROVE Sound(mt') /\ Moves(mt, mt')
  BY <1>12, TimerTickSound DEF TimerTick
<1>13. CASE Reschedule
  BY <1>13, RescheduleSound DEF Reschedule
<1>14. CASE YieldCurrent
  BY <1>14, YieldSound DEF YieldCurrent
<1>15. CASE RequeueCurrent
  BY <1>15, RequeueCurrentSound DEF RequeueCurrent
<1>16. CASE UNCHANGED mt
  BY <1>16 DEF Moves, valid_thread_transition, valid_task_transition
<1> QED
  BY <1>1, <1>2, <1>3, <1>4, <1>5, <1>6, <1>7, <1>8, <1>9, <1>10, <1>11, <1>12, <1>13,
     <1>14, <1>15, <1>16 DEF Next

\* The inductive invariant of the scheduler facade.
LEMMA SoundAlways == Spec => []Sound(mt)
<1>1. Init => Sound(mt)
  BY NewSound DEF Init
<1>2. Sound(mt) /\ [Next]_mt => Sound(mt)'
  BY NextSound
<1> QED
  BY <1>1, <1>2, PTL DEF Spec

\* For any number of tasks and threads, any table sizes and run queue depth, and any
\* order of calls: pick_next never fails on a record, the current thread may run, and
\* after terminate_task nothing of the task is left but Dead threads, which reap_task
\* releases.
THEOREM RecordsNeverFail == Spec => []NoRecordFails
<1>1. ASSUME Sound(mt) PROVE NoRecordFails
  <2>1. ASSUME NEW t \in ThreadIds, mt.threads[t] \in SchedulableThread PROVE Schedulable(t)
    BY <1>1, <2>1, MtssAssumption
    DEF Schedulable, Sound, Owned, SchedulableThread, ThreadStates
  <2>2. QueuedSchedulable
    BY <1>1, <2>1 DEF QueuedSchedulable, Sound, Runnable
  <2>3. CurrentSchedulable
    BY <1>1, <2>1 DEF CurrentSchedulable, Sound, Schedulers, Runnable
  <2>4. NoOrphans
    BY <1>1 DEF NoOrphans, Sound, Owned
  <2> QED
    BY <2>2, <2>3, <2>4 DEF NoRecordFails
<1> QED
  BY <1>1, SoundAlways, PTL

\* Whatever a call does to a thread or a task, validated step by step or not at all, its
\* net effect is a transition the life cycle accepts or a reap.
THEOREM LifecycleIsKept == Spec => LifecycleSteps
<1>1. Sound(mt) /\ [Next]_mt =>
         [/\ \A t \in ThreadIds : mt.threads[t] # None =>
               IF mt'.threads[t] = None THEN mt.threads[t] = "Dead"
               ELSE valid_thread_transition(mt.threads[t], mt'.threads[t])
          /\ \A p \in TaskIds : mt.tasks[p] # None =>
               IF mt'.tasks[p] = None THEN mt.tasks[p] = "Exited"
               ELSE valid_task_transition(mt.tasks[p], mt'.tasks[p])]_mt
  BY NextSound DEF Moves
<1> QED
  BY <1>1, SoundAlways, PTL DEF Spec, LifecycleSteps
=============================================================================

------------------------------ MODULE CoreMtss ------------------------------
(***************************************************************************)
(* CoreMtss (crates/mirage-mtss/src/task_core.rs): the task core that      *)
(* admits the first userspace program and round-robins its threads with an *)
(* idle thread as fallback. The tables are partial functions from ids to   *)
(* what the scheduler reads of an entry; a table is full when it has as    *)
(* many entries as slots (nothing is ever removed). The ready ring is a    *)
(* sequence, which Rings.tla shows it to be.                               *)
(***************************************************************************)
EXTENDS Integers, Sequences, FiniteSets, Lifecycle

CONSTANTS TaskSizes, ThreadSizes, ReadySizes,   \* values of the type's const parameters
          MaxSpawns,                            \* bound: ids handed out by spawn_userspace
          None                                  \* Option::None

ASSUME SizesAssumption == /\ TaskSizes \cup ThreadSizes \cup ReadySizes \subseteq Nat \ {0}
                          /\ MaxSpawns \in Nat
ASSUME NoneIsNoId == None \notin Nat

VARIABLES next_pid, next_tid, tasks, threads, ready, current,
          per_cpu_idle_thread, initialized,
          size     \* the const parameters of the instance at hand, which never change

vars == <<next_pid, next_tid, tasks, threads, ready, current,
          per_cpu_idle_thread, initialized, size>>

Sizes == [tasks : TaskSizes, threads : ThreadSizes, ready : ReadySizes]
TASKS == size.tasks
THREADS == size.threads
READY == size.ready

IDLE == 0     \* CoreTaskId::IDLE and CoreThreadId::IDLE

\* Table f with an entry e for id k, in a slot that was free.
Insert(f, k, e) == [x \in DOMAIN f \cup {k} |-> IF x = k THEN e ELSE f[x]]

TaskTableFull == Cardinality(DOMAIN tasks) >= TASKS
ThreadTableFull == Cardinality(DOMAIN threads) >= THREADS

Init == /\ next_pid = 1
        /\ next_tid = 1
        /\ tasks = <<>>
        /\ threads = <<>>
        /\ ready = <<>>
        /\ current = None
        /\ per_cpu_idle_thread = None
        /\ initialized = FALSE
        /\ size \in Sizes

\* init_with_idle on the fresh tables kernel_mtss_init has just made; a
\* second call, or an invalid kernel stack, changes nothing.
InitWithIdle ==
    /\ ~initialized
    /\ tasks' = Insert(tasks, IDLE, [state |-> "Runnable", main_thread |-> IDLE])
    /\ threads' = Insert(threads, IDLE, [state |-> "Ready", task |-> IDLE])
    /\ per_cpu_idle_thread' = IDLE
    /\ initialized' = TRUE
    /\ UNCHANGED <<next_pid, next_tid, ready, current, size>>
-----------------------------------------------------------------------------
(***************************************************************************)
(* spawn_userspace. A bad address space, entry point or stack is refused   *)
(* before anything changes. After that both ids are consumed and the call  *)
(* returns at the first step that fails, keeping what the earlier ones did.*)
(* The kernel spawns only once it has set mtss_initialized.                *)
(***************************************************************************)
\* Mutant: the thread id is not consumed.
AllocateIdsSameTid == /\ initialized
                      /\ next_pid <= MaxSpawns
                      /\ next_pid' = next_pid + 1
                      /\ UNCHANGED <<next_tid, current, per_cpu_idle_thread, initialized, size>>

AllocateIds == /\ initialized
               /\ next_pid <= MaxSpawns
               /\ next_pid' = next_pid + 1
               /\ next_tid' = next_tid + 1
               /\ UNCHANGED <<current, per_cpu_idle_thread, initialized, size>>

InsertTask(s) ==
    /\ ~TaskTableFull
    /\ tasks' = Insert(tasks, next_pid, [state |-> s, main_thread |-> next_tid])

InsertThread(s) ==
    /\ ~ThreadTableFull
    /\ threads' = Insert(threads, next_tid, [state |-> s, task |-> next_pid])

SpawnNoTaskSlot == /\ AllocateIds
                   /\ TaskTableFull
                   /\ UNCHANGED <<tasks, threads, ready>>

SpawnNoThreadSlot == /\ AllocateIds
                     /\ InsertTask("Created")
                     /\ ThreadTableFull
                     /\ UNCHANGED <<threads, ready>>

\* The preflight is incomplete, or the ready queue is full: the task and
\* its thread stay Created and New.
SpawnStaged(preflightComplete) ==
    /\ AllocateIds
    /\ InsertTask("Created")
    /\ InsertThread("New")
    /\ preflightComplete => Len(ready) = READY
    /\ UNCHANGED ready

SpawnRunnable == /\ AllocateIds
                 /\ InsertTask("Runnable")
                 /\ InsertThread("Ready")
                 /\ Len(ready) # READY
                 /\ ready' = Append(ready, next_tid)
-----------------------------------------------------------------------------
(***************************************************************************)
(* schedule_next, which on_timer_tick calls: return_current_to_ready_queue,*)
(* then dequeue_non_idle_runnable or the idle thread, then                 *)
(* mark_thread_running. Before init_with_idle it finds nothing to do.      *)
(***************************************************************************)
Preempted == current # None /\ threads[current].state = "Running"
Requeued == Preempted /\ current # per_cpu_idle_thread

ReturnedThreads == IF Preempted THEN [threads EXCEPT ![current].state = "Ready"] ELSE threads
\* Mutant: the task of the preempted thread stays Running.
ReturnedTasksStale == tasks
ReturnedTasks == IF Preempted THEN [tasks EXCEPT ![threads[current].task].state = "Runnable"]
                 ELSE tasks
\* Mutant: the preempted thread is put back in front.
ReturnedReadyInFront == IF Requeued THEN <<current>> \o ready ELSE ready
ReturnedReady == IF Requeued THEN Append(ready, current) ELSE ready

\* The positions at which the dequeue loop may stop; it drops the others.
Candidates == {k \in 1 .. Len(ReturnedReady) :
                  /\ ReturnedReady[k] # per_cpu_idle_thread
                  /\ ReturnedReady[k] \in DOMAIN threads
                  /\ ReturnedThreads[ReturnedReady[k]].state = "Ready"}

MarkRunning(t) ==
    /\ threads' = [ReturnedThreads EXCEPT ![t].state = "Running"]
    /\ tasks' = [ReturnedTasks EXCEPT ![threads[t].task].state = "Running"]
    /\ current' = t
    /\ UNCHANGED <<next_pid, next_tid, per_cpu_idle_thread, initialized, size>>

\* The preempted thread does not fit into the ready queue: schedule_next
\* returns ReadyQueueFull and leaves it Ready, current and unqueued.
RequeueFull == Requeued /\ Len(ready) = READY

ScheduleRequeueFull ==
    /\ RequeueFull
    /\ threads' = ReturnedThreads
    /\ UNCHANGED <<next_pid, next_tid, tasks, ready, current,
                   per_cpu_idle_thread, initialized, size>>

ScheduleRunnable ==
    /\ initialized
    /\ ~RequeueFull
    /\ \E k \in Candidates :
          /\ \A j \in Candidates : k <= j
          /\ ready' = SubSeq(ReturnedReady, k + 1, Len(ReturnedReady))
          /\ MarkRunning(ReturnedReady[k])

\* Mutant: idle is chosen without looking at the queue.
ScheduleIdleEarly ==
    /\ initialized
    /\ ~RequeueFull
    /\ ready' = ReturnedReady
    /\ MarkRunning(per_cpu_idle_thread)

ScheduleIdle ==
    /\ initialized
    /\ ~RequeueFull
    /\ Candidates = {}
    /\ ready' = <<>>
    /\ MarkRunning(per_cpu_idle_thread)

ScheduleNext == ScheduleRequeueFull \/ ScheduleRunnable \/ ScheduleIdle

\* Mutant: the thread keeps its state.
ExitCurrentStale ==
    /\ current # None
    /\ tasks' = [tasks EXCEPT ![threads[current].task].state = "Exited"]
    /\ current' = None
    /\ UNCHANGED <<next_pid, next_tid, threads, ready, per_cpu_idle_thread, initialized, size>>

ExitCurrent ==
    /\ current # None
    /\ threads' = [threads EXCEPT ![current].state = "Zombie"]
    /\ tasks' = [tasks EXCEPT ![threads[current].task].state = "Exited"]
    /\ current' = None
    /\ UNCHANGED <<next_pid, next_tid, ready, per_cpu_idle_thread, initialized, size>>

Next == \/ InitWithIdle
        \/ SpawnNoTaskSlot
        \/ SpawnNoThreadSlot
        \/ \E preflightComplete \in BOOLEAN : SpawnStaged(preflightComplete)
        \/ SpawnRunnable
        \/ ScheduleRequeueFull
        \/ ScheduleRunnable
        \/ ScheduleIdle
        \/ ExitCurrent

Spec == Init /\ [][Next]_vars

\* Timer interrupts keep arriving and each one runs schedule_next.
FairSpec == Spec /\ WF_vars(ScheduleNext)
-----------------------------------------------------------------------------
TablesOK ==
    /\ next_pid \in Nat \ {0} /\ next_tid \in Nat \ {0}
    /\ DOMAIN tasks \subseteq 0 .. next_pid - 1
    /\ DOMAIN threads \subseteq 0 .. next_tid - 1
    /\ tasks \in [DOMAIN tasks -> [state : TaskStates, main_thread : Nat]]
    /\ threads \in [DOMAIN threads -> [state : ThreadStates, task : DOMAIN tasks]]
    /\ ready \in Seq(DOMAIN threads)
    /\ current \in DOMAIN threads \cup {None}

IdleOK ==
    /\ size \in Sizes
    /\ initialized \in BOOLEAN
    /\ initialized <=> IDLE \in DOMAIN threads
    /\ per_cpu_idle_thread = (IF initialized THEN IDLE ELSE None)

\* Ids, table entries and queue entries have their types, every id in a
\* table was handed out by allocate_pid or allocate_tid, and the idle
\* thread is in the table once init_with_idle has run.
TypeOK == TablesOK /\ IdleOK

\* Every entry of the ready queue is a Ready thread other than idle and
\* other than the current one, and no thread is queued twice: the filter of
\* dequeue_non_idle_runnable never drops an entry, whatever was spawned,
\* preempted or exited before, and a thread never gets two turns per round.
ReadyQueueSound ==
    /\ \A k \in 1 .. Len(ready) :
          ready[k] # IDLE /\ ready[k] # current /\ threads[ready[k]].state = "Ready"
    /\ \A j, k \in 1 .. Len(ready) : ready[j] = ready[k] => j = k

\* At most one thread is Running and it is the one `current` names: no path
\* through schedule_next or exit_current leaves a second thread Running. The
\* current thread is Running, or Ready after a ReadyQueueFull.
RunningIsCurrent ==
    /\ \A t \in DOMAIN threads : threads[t].state = "Running" => current = t
    /\ current # None => threads[current].state \in {"Running", "Ready"}

\* The queue has room for every thread, as in the kernel's instance
\* CoreMtss<MAX_PROCESSES, MAX_THREADS, MAX_THREADS>. With a shorter queue
\* ReadyQueueFull strands the preempted thread.
QueueFitsAll == READY >= THREADS
FitsTogether == QueueFitsAll /\ THREADS >= TASKS

\* No Ready thread is forgotten: each one other than idle is in the ready
\* queue, so that preemption never takes a thread out of the rotation.
NoLostReady ==
    QueueFitsAll =>
        \A t \in DOMAIN threads \ {IDLE} :
            threads[t].state = "Ready" => \E k \in 1 .. Len(ready) : ready[k] = t

\* The scheduler's tables hang together after every call: the two tables refer to each
\* other, the ready queue holds each waiting thread once and nothing else, no more than
\* one thread runs and it is the current one, and no thread that is ready is forgotten.
SchedulerSound == TypeOK /\ ReadyQueueSound /\ RunningIsCurrent /\ NoLostReady

\* A task and its main thread are in corresponding states after every call,
\* although the code updates the two tables separately and returns between
\* the updates, when no table or queue fills before the task table.
TaskFollowsThread ==
    FitsTogether => \A p \in DOMAIN tasks :
        /\ tasks[p].main_thread \in DOMAIN threads
        /\ threads[tasks[p].main_thread].task = p
        /\ <<threads[tasks[p].main_thread].state, tasks[p].state>> \in
              {<<"New", "Created">>, <<"Ready", "Runnable">>,
               <<"Running", "Running">>, <<"Zombie", "Exited">>}

\* The state of a thread that exited, or that was staged without complete
\* preflight checks, never changes again (docs/kernel/
\* mtss-process-lifecycle.md: a task must not become runnable until all
\* preflight checks succeed). The idle thread is the exception: schedule_next
\* falls back to it without looking at its state.
NoResurrection ==
    [][\A t \in DOMAIN threads \ {IDLE} :
          threads[t].state \in {"New", "Zombie"} => threads'[t] = threads[t]]_vars

\* schedule_next falls back to the idle thread only when no other thread
\* could run.
IdleOnlyWhenNothingReady ==
    [][QueueFitsAll /\ ScheduleIdle =>
          \A t \in DOMAIN threads \ {IDLE} :
              threads[t].state \notin {"Ready", "Running"}]_vars

\* Round robin: a Ready thread gets the processor, if timer ticks keep
\* coming and the queue has room for every thread.
RoundRobin ==
    \A t \in 1 .. MaxSpawns :
        (QueueFitsAll /\ t \in DOMAIN threads /\ threads[t].state = "Ready") ~> (current = t)
=============================================================================

--------------------------- MODULE CoreMtssProofs ---------------------------
(***************************************************************************)
(* Proofs about CoreMtss for tables and queues of every size.              *)
(***************************************************************************)
EXTENDS CoreMtss, SequenceTheorems, FiniteSetTheorems, FunctionTheorems, TLAPS

TaskEntry == [state : TaskStates, main_thread : Nat]
ThreadEntry == [state : ThreadStates, task : DOMAIN tasks]

\* The const parameters are positive numbers.
LEMMA SizeFacts ==
  ASSUME TypeOK
  PROVE  TASKS \in Nat \ {0} /\ THREADS \in Nat \ {0} /\ READY \in Nat \ {0}
  BY SizesAssumption DEF TypeOK, IdleOK, Sizes, TASKS, THREADS, READY

\* No call changes them.
LEMMA SizeFixed == [Next]_vars => size' = size
  BY Zenon DEF Next, vars, InitWithIdle, SpawnNoTaskSlot, SpawnNoThreadSlot, SpawnStaged, SpawnRunnable,
         AllocateIds, ScheduleRequeueFull, ScheduleRunnable, ScheduleIdle, MarkRunning, ExitCurrent

\* CoreMtss::new makes empty tables, for which TypeOK holds.
LEMMA InitTypeOK == Init => TypeOK
<1> SUFFICES ASSUME Init PROVE TypeOK
  OBVIOUS
<1>1. DOMAIN tasks = {} /\ DOMAIN threads = {}
  BY DEF Init
<1>2. tasks \in [DOMAIN tasks -> TaskEntry] /\ threads \in [DOMAIN threads -> ThreadEntry]
  BY <1>1 DEF Init
<1>3. TablesOK
  BY <1>1, <1>2 DEF Init, TablesOK, TaskEntry, ThreadEntry
<1>4. IdleOK
  BY <1>1, Zenon DEF Init, IdleOK
<1> QED
  BY <1>3, <1>4 DEF TypeOK

\* What return_current_to_ready_queue leaves.
LEMMA ReturnedType ==
  ASSUME TypeOK
  PROVE  /\ ReturnedThreads \in [DOMAIN threads -> ThreadEntry]
         /\ \A t \in DOMAIN threads : ReturnedThreads[t].task = threads[t].task
         /\ ReturnedTasks \in [DOMAIN tasks -> TaskEntry]
         /\ ReturnedReady \in Seq(DOMAIN threads)
<1>0. ready \in Seq(DOMAIN threads)
  BY DEF TypeOK, TablesOK
<1>1. CASE Preempted
  <2>1. current \in DOMAIN threads /\ threads[current].task \in DOMAIN tasks
    BY <1>1 DEF Preempted, TypeOK, TablesOK
  <2>2. /\ ReturnedThreads \in [DOMAIN threads -> ThreadEntry]
        /\ \A t \in DOMAIN threads : ReturnedThreads[t].task = threads[t].task
    BY <1>1, <2>1, Zenon DEF ReturnedThreads, TypeOK, TablesOK, ThreadEntry, ThreadStates
  <2>3. ReturnedTasks \in [DOMAIN tasks -> TaskEntry]
    BY <1>1, <2>1, Zenon DEF ReturnedTasks, TypeOK, TablesOK, TaskEntry, TaskStates
  <2>4. ReturnedReady \in Seq(DOMAIN threads)
    BY <1>0, <2>1, AppendProperties, Zenon DEF ReturnedReady
  <2> QED
    BY <2>2, <2>3, <2>4
<1>2. CASE ~Preempted
  BY <1>0, <1>2 DEF ReturnedThreads, ReturnedTasks, ReturnedReady, Requeued, TypeOK, TablesOK,
                   TaskEntry, ThreadEntry
<1> QED
  BY <1>1, <1>2

\* mark_thread_running keeps the tables well typed when the thread it
\* marks is in the table.
LEMMA MarkRunningType ==
  ASSUME TypeOK, NEW t \in DOMAIN threads, MarkRunning(t), ready' \in Seq(DOMAIN threads)
  PROVE  TypeOK'
<1>1. threads[t].task \in DOMAIN tasks
  BY DEF TypeOK, TablesOK
<1>2. threads' \in [DOMAIN threads -> ThreadEntry] /\ tasks' \in [DOMAIN tasks -> TaskEntry]
  <2>1. threads' \in [DOMAIN threads -> ThreadEntry]
    BY ReturnedType DEF MarkRunning, ThreadStates, ThreadEntry
  <2>2. tasks' \in [DOMAIN tasks -> TaskEntry]
    BY <1>1, ReturnedType, SMTT(30) DEF MarkRunning, TaskStates, TaskEntry
  <2> QED
    BY <2>1, <2>2
<1>3. DOMAIN threads' = DOMAIN threads /\ DOMAIN tasks' = DOMAIN tasks
  BY <1>2
<1>4. TablesOK'
  BY <1>2, <1>3, Zenon DEF TypeOK, TablesOK, MarkRunning, TaskEntry, ThreadEntry
<1>5. IdleOK'
  BY <1>3 DEF TypeOK, IdleOK, MarkRunning
<1> QED
  BY <1>4, <1>5 DEF TypeOK

\* allocate_pid and allocate_tid hand out positive ids and move on.
LEMMA AllocateType ==
  ASSUME TablesOK, AllocateIds
  PROVE  /\ next_pid' \in Nat \ {0} /\ next_tid' \in Nat \ {0}
         /\ DOMAIN tasks \cup {next_pid} \subseteq 0 .. next_pid' - 1
         /\ DOMAIN threads \cup {next_tid} \subseteq 0 .. next_tid' - 1
  BY SMTT(30) DEF TablesOK, AllocateIds

\* What the inserts of spawn_userspace do to the domains of the two tables.
LEMMA SpawnTables ==
  ASSUME TablesOK, AllocateIds, NEW a \in TaskStates, InsertTask(a),
         NEW b \in ThreadStates, InsertThread(b), ready' \in Seq(DOMAIN threads')
  PROVE  TablesOK'
<1>1. /\ tasks' \in [DOMAIN tasks \cup {next_pid} -> TaskEntry]
      /\ DOMAIN tasks' = DOMAIN tasks \cup {next_pid}
  BY DEF TablesOK, InsertTask, Insert, TaskEntry
<1>2. /\ threads' \in [DOMAIN threads \cup {next_tid} -> [state : ThreadStates, task : DOMAIN tasks']]
      /\ DOMAIN threads' = DOMAIN threads \cup {next_tid}
  BY <1>1 DEF TablesOK, InsertThread, Insert
<1> QED
  BY <1>1, <1>2, AllocateType, Zenon DEF TablesOK, AllocateIds, TaskEntry

\* Every call of CoreMtss preserves TypeOK.
LEMMA NextTypeOK == TypeOK /\ [Next]_vars => TypeOK'
<1> SUFFICES ASSUME TablesOK, IdleOK, [Next]_vars PROVE TablesOK' /\ IdleOK'
  BY DEF TypeOK
<1> USE SizesAssumption, NoneIsNoId
<1>1. CASE InitWithIdle
  <2>1. TablesOK'
    BY <1>1 DEF TablesOK, InitWithIdle, Insert, IDLE, TaskStates, ThreadStates
  <2>2. IdleOK'
    BY <1>1 DEF IdleOK, InitWithIdle, Insert
  <2> QED
    BY <2>1, <2>2
<1>2. CASE SpawnNoTaskSlot
  <2>1. TablesOK'
    BY <1>2, AllocateType, Zenon DEF TablesOK, SpawnNoTaskSlot, AllocateIds
  <2>2. IdleOK'
    BY <1>2 DEF IdleOK, SpawnNoTaskSlot, AllocateIds
  <2> QED
    BY <2>1, <2>2
<1>3. CASE SpawnNoThreadSlot
  <2>1. TablesOK'
    BY <1>3, AllocateType, Zenon DEF TablesOK, SpawnNoThreadSlot, AllocateIds, InsertTask, Insert, TaskStates
  <2>2. IdleOK'
    BY <1>3 DEF IdleOK, SpawnNoThreadSlot, AllocateIds
  <2> QED
    BY <2>1, <2>2
<1>4. ASSUME NEW c \in BOOLEAN, SpawnStaged(c) PROVE TablesOK' /\ IdleOK'
  <2>0. ready' \in Seq(DOMAIN threads')
    BY <1>4 DEF SpawnStaged, InsertThread, Insert, TablesOK
  <2>1. TablesOK'
    BY <1>4, <2>0, SpawnTables DEF SpawnStaged, TaskStates, ThreadStates
  <2>2. IdleOK'
    BY <1>4 DEF TablesOK, IdleOK, SpawnStaged, AllocateIds, InsertThread, Insert, IDLE
  <2> QED
    BY <2>1, <2>2
<1>5. CASE SpawnRunnable
  <2>1. next_tid \in DOMAIN threads' /\ ready \in Seq(DOMAIN threads')
    BY <1>5 DEF SpawnRunnable, InsertThread, Insert, TablesOK
  <2>2. ready' \in Seq(DOMAIN threads')
    BY <1>5, <2>1 DEF SpawnRunnable
  <2>3. TablesOK'
    BY <1>5, <2>2, SpawnTables DEF SpawnRunnable, TaskStates, ThreadStates
  <2>4. IdleOK'
    BY <1>5 DEF TablesOK, IdleOK, SpawnRunnable, AllocateIds, InsertThread, Insert, IDLE
  <2> QED
    BY <2>3, <2>4
<1>6. CASE ScheduleRequeueFull
  <2>1. threads' \in [DOMAIN threads -> ThreadEntry] /\ DOMAIN threads' = DOMAIN threads
    BY <1>6, ReturnedType DEF ScheduleRequeueFull, TypeOK
  <2>2. TablesOK'
    BY <1>6, <2>1 DEF TablesOK, ScheduleRequeueFull, ThreadEntry
  <2>3. IdleOK'
    BY <1>6, <2>1 DEF IdleOK, ScheduleRequeueFull
  <2> QED
    BY <2>2, <2>3
<1>7. CASE ScheduleRunnable
  <2>1. PICK n \in Candidates : /\ ready' = SubSeq(ReturnedReady, n + 1, Len(ReturnedReady))
                                /\ MarkRunning(ReturnedReady[n])
    BY <1>7, Zenon DEF ScheduleRunnable
  <2>2. n \in 1 .. Len(ReturnedReady) /\ ReturnedReady[n] \in DOMAIN threads
    BY DEF Candidates
  <2>3. ready' \in Seq(DOMAIN threads)
    BY <2>1, <2>2, ReturnedType DEF TypeOK
  <2> QED
    BY <2>1, <2>2, <2>3, MarkRunningType DEF TypeOK
<1>8. CASE ScheduleIdle
  <2>1. per_cpu_idle_thread \in DOMAIN threads /\ ready' \in Seq(DOMAIN threads)
    BY <1>8 DEF ScheduleIdle, IdleOK
  <2> QED
    BY <1>8, <2>1, MarkRunningType DEF ScheduleIdle, TypeOK
<1>9. CASE ExitCurrent
  <2>1. current \in DOMAIN threads /\ threads[current].task \in DOMAIN tasks
    BY <1>9 DEF ExitCurrent, TablesOK
  <2>2. threads' \in [DOMAIN threads -> ThreadEntry] /\ DOMAIN threads' = DOMAIN threads
    BY <1>9, <2>1, Zenon DEF TablesOK, ExitCurrent, ThreadEntry, ThreadStates
  <2>3. tasks' \in [DOMAIN tasks -> TaskEntry] /\ DOMAIN tasks' = DOMAIN tasks
    <3> DEFINE p == threads[current].task
    <3>1. tasks \in [DOMAIN tasks -> TaskEntry] /\ p \in DOMAIN tasks
      BY <2>1 DEF TablesOK, TaskEntry
    <3>2. tasks' = [tasks EXCEPT ![p].state = "Exited"]
      BY <1>9 DEF ExitCurrent
    <3> HIDE DEF p
    <3>3. [tasks[p] EXCEPT !.state = "Exited"] \in TaskEntry
      BY <3>1 DEF TaskEntry, TaskStates
    <3> QED
      BY <3>1, <3>2, <3>3
  <2>4. TablesOK'
    BY <1>9, <2>2, <2>3 DEF TablesOK, ExitCurrent, TaskEntry, ThreadEntry
  <2>5. IdleOK'
    BY <1>9, <2>2 DEF IdleOK, ExitCurrent
  <2> QED
    BY <2>4, <2>5
<1>10. CASE UNCHANGED vars
  BY <1>10 DEF TablesOK, IdleOK, vars
<1> QED
  BY <1>1, <1>2, <1>3, <1>4, <1>5, <1>6, <1>7, <1>8, <1>9, <1>10, SMTT(30) DEF Next

\* The data and the tables stay well formed through every call of CoreMtss:
\* ids are fresh when they are inserted and every id queued, current or
\* referred to by a thread is in its table.
THEOREM TypeCorrect == Spec => []TypeOK
<1>1. Init => TypeOK
  BY InitTypeOK
<1>2. TypeOK /\ [Next]_vars => TypeOK'
  BY NextTypeOK
<1> QED
  BY <1>1, <1>2, PTL DEF Spec
-----------------------------------------------------------------------------
(* The ready queue.                                                        *)

\* The entries of the ready queue are threads of the table.
LEMMA ReadyEntries ==
  ASSUME TypeOK
  PROVE  /\ ready \in Seq(DOMAIN threads)
         /\ Len(ready) \in Nat
         /\ \A n \in 1 .. Len(ready) : ready[n] \in DOMAIN threads
<1>1. ready \in Seq(DOMAIN threads)
  BY DEF TypeOK, TablesOK
<1>2. Len(ready) \in Nat
  BY <1>1
<1>3. \A n \in 1 .. Len(ready) : ready[n] \in DOMAIN threads
  BY <1>1
<1> QED
  BY <1>1, <1>2, <1>3

\* The ready queue once the preempted thread has been put back.
LEMMA ReturnedSound ==
  ASSUME TypeOK, ReadyQueueSound
  PROVE  /\ \A n \in 1 .. Len(ReturnedReady) :
               /\ ReturnedReady[n] \in DOMAIN threads
               /\ ReturnedReady[n] # IDLE
               /\ ReturnedThreads[ReturnedReady[n]].state = "Ready"
         /\ \A m, n \in 1 .. Len(ReturnedReady) : ReturnedReady[m] = ReturnedReady[n] => m = n
<1>1. ready \in Seq(DOMAIN threads) /\ \A n \in 1 .. Len(ready) : ready[n] \in DOMAIN threads
  BY ReadyEntries
<1>2. CASE Requeued
  <2>1. current \in DOMAIN threads /\ current # IDLE
    BY <1>2 DEF Requeued, Preempted, TypeOK, TablesOK, IdleOK
  <2>2. /\ Len(ReturnedReady) = Len(ready) + 1
        /\ \A n \in 1 .. Len(ready) : ReturnedReady[n] = ready[n]
        /\ ReturnedReady[Len(ready) + 1] = current
    BY <1>1, <1>2, <2>1, AppendProperties DEF ReturnedReady
  <2>3. /\ ReturnedThreads[current].state = "Ready"
        /\ \A t \in DOMAIN threads \ {current} : ReturnedThreads[t] = threads[t]
    BY <1>2, <2>1 DEF ReturnedThreads, Requeued, TypeOK, TablesOK
  <2>4. Len(ready) \in Nat
    BY <1>1
  <2>5. ASSUME NEW n \in 1 .. Len(ReturnedReady)
        PROVE  \/ n \in 1 .. Len(ready) /\ ReturnedReady[n] = ready[n]
               \/ n = Len(ready) + 1 /\ ReturnedReady[n] = current
    BY <2>2, <2>4
  <2>6. \A n \in 1 .. Len(ready) : /\ ready[n] # IDLE /\ ready[n] # current
                                   /\ threads[ready[n]].state = "Ready"
    BY DEF ReadyQueueSound
  <2>7. \A n \in 1 .. Len(ReturnedReady) :
               /\ ReturnedReady[n] \in DOMAIN threads
               /\ ReturnedReady[n] # IDLE
               /\ ReturnedThreads[ReturnedReady[n]].state = "Ready"
    BY <1>1, <2>1, <2>3, <2>5, <2>6
  <2>8. \A m, n \in 1 .. Len(ReturnedReady) : ReturnedReady[m] = ReturnedReady[n] => m = n
    BY <2>5, <2>6 DEF ReadyQueueSound
  <2> QED
    BY <2>7, <2>8
<1>3. CASE ~Requeued
  <2>1. ReturnedReady = ready
    BY <1>3 DEF ReturnedReady
  <2>2. ASSUME NEW t \in DOMAIN threads, threads[t].state = "Ready"
        PROVE  ReturnedThreads[t].state = "Ready"
    BY <2>2 DEF ReturnedThreads, TypeOK, TablesOK
  <2> QED
    BY <1>1, <2>1, <2>2 DEF ReadyQueueSound
<1> QED
  BY <1>2, <1>3

\* What schedule_next leaves when it takes the entry at position n.
LEMMA ScheduledSound ==
  ASSUME TypeOK, ReadyQueueSound, NEW n \in 1 .. Len(ReturnedReady),
         ready' = SubSeq(ReturnedReady, n + 1, Len(ReturnedReady)),
         MarkRunning(ReturnedReady[n])
  PROVE  ReadyQueueSound'
<1> DEFINE R == ReturnedReady
           L == Len(ReturnedReady)
<1>1. R \in Seq(DOMAIN threads) /\ L \in Nat /\ R[n] \in DOMAIN threads
  BY ReturnedType
<1>2. /\ Len(ready') = L - n
      /\ \A i \in 1 .. L - n : ready'[i] = R[n + i]
  <2>1. n + 1 \in Int /\ L \in Int /\ \A i \in n + 1 .. L : R[i] \in DOMAIN threads
    BY <1>1
  <2>2. ready' = SubSeq(R, n + 1, L) /\ n \in 1 .. L
    OBVIOUS
  <2> HIDE DEF R, L
  <2>3. /\ Len(ready') = IF n + 1 <= L THEN L - (n + 1) + 1 ELSE 0
        /\ \A i \in 1 .. L - (n + 1) + 1 : ready'[i] = R[n + 1 + i - 1]
    BY <2>1, <2>2, SubSeqProperties, SMTT(30)
  <2>4. n \in Nat /\ L \in Nat /\ n <= L
    BY <1>1, <2>2
  <2>5. Len(ready') = L - n /\ L - (n + 1) + 1 = L - n
    BY <2>3, <2>4
  <2>6. ASSUME NEW i \in 1 .. L - n PROVE ready'[i] = R[n + i]
    <3>1. n + 1 + i - 1 = n + i
      BY <2>4
    <3> QED
      BY <2>3, <2>5, <3>1, Zenon
  <2> QED
    BY <2>5, <2>6
<1>3. /\ current' = R[n]
      /\ \A t \in DOMAIN threads \ {R[n]} : threads'[t] = ReturnedThreads[t]
  BY <1>1, ReturnedType DEF MarkRunning
<1>4. ASSUME NEW i \in 1 .. L - n
      PROVE  /\ n + i \in 1 .. L /\ n + i # n
             /\ R[n + i] # R[n] /\ R[n + i] \in DOMAIN threads
             /\ R[n + i] # IDLE /\ ReturnedThreads[R[n + i]].state = "Ready"
  <2>1. n + i \in 1 .. L /\ n + i # n
    BY <1>1
  <2> QED
    BY <2>1, ReturnedSound
<1>5. ASSUME NEW i \in 1 .. L - n, NEW j \in 1 .. L - n, R[n + i] = R[n + j]
      PROVE  i = j
  <2>1. n + i = n + j
    BY <1>4, <1>5, ReturnedSound
  <2> QED
    BY <2>1, <1>1
<1> HIDE DEF R, L
<1>6. ASSUME NEW i \in 1 .. Len(ready')
      PROVE  ready'[i] # IDLE /\ ready'[i] # current' /\ threads'[ready'[i]].state = "Ready"
  <2>1. i \in 1 .. L - n /\ ready'[i] = R[n + i]
    BY <1>2
  <2> QED
    BY <1>3, <1>4, <2>1, Zenon
<1>7. ASSUME NEW i \in 1 .. Len(ready'), NEW j \in 1 .. Len(ready'), ready'[i] = ready'[j]
      PROVE  i = j
  BY <1>2, <1>5, <1>7, Zenon
<1> QED
  BY <1>6, <1>7, Zenon DEF ReadyQueueSound

\* Every call of CoreMtss preserves ReadyQueueSound.
LEMMA NextReadyQueueSound == TypeOK /\ ReadyQueueSound /\ [Next]_vars => ReadyQueueSound'
<1> SUFFICES ASSUME TypeOK, ReadyQueueSound, [Next]_vars PROVE ReadyQueueSound'
  OBVIOUS
<1>0. /\ ready \in Seq(DOMAIN threads) /\ Len(ready) \in Nat
      /\ \A n \in 1 .. Len(ready) : ready[n] \in DOMAIN threads
      /\ \A t \in DOMAIN threads : t \in Nat /\ t # next_tid
      /\ next_tid \in Nat \ {0}
      /\ current # next_tid
  <2>1. \A t \in DOMAIN threads : t \in Nat /\ t # next_tid
    BY DEF TypeOK, TablesOK
  <2>2. next_tid \in Nat \ {0} /\ ready \in Seq(DOMAIN threads)
    BY DEF TypeOK, TablesOK
  <2>3. Len(ready) \in Nat /\ \A n \in 1 .. Len(ready) : ready[n] \in DOMAIN threads
    BY <2>2
  <2>4. current = None \/ current \in DOMAIN threads
    BY DEF TypeOK, TablesOK
  <2> QED
    BY <2>1, <2>2, <2>3, <2>4, NoneIsNoId
<1>1. CASE InitWithIdle
  BY <1>0, <1>1 DEF InitWithIdle, Insert, ReadyQueueSound
<1>2. CASE SpawnNoTaskSlot
  BY <1>2 DEF SpawnNoTaskSlot, AllocateIds, ReadyQueueSound
<1>3. CASE SpawnNoThreadSlot
  BY <1>3 DEF SpawnNoThreadSlot, AllocateIds, ReadyQueueSound
<1>4. ASSUME NEW c \in BOOLEAN, SpawnStaged(c) PROVE ReadyQueueSound'
  BY <1>0, <1>4 DEF SpawnStaged, AllocateIds, InsertThread, Insert, ReadyQueueSound
<1>5. CASE SpawnRunnable
  <2>1. /\ Len(ready') = Len(ready) + 1
        /\ \A n \in 1 .. Len(ready) : ready'[n] = ready[n]
        /\ ready'[Len(ready) + 1] = next_tid
    BY <1>0, <1>5, AppendProperties DEF SpawnRunnable
  <2>2. /\ current' = current
        /\ threads'[next_tid].state = "Ready"
        /\ \A t \in DOMAIN threads : threads'[t] = threads[t]
    BY <1>0, <1>5 DEF SpawnRunnable, AllocateIds, InsertThread, Insert
  <2>3. ASSUME NEW n \in 1 .. Len(ready')
        PROVE  \/ n \in 1 .. Len(ready) /\ ready'[n] = ready[n]
               \/ n = Len(ready) + 1 /\ ready'[n] = next_tid
    BY <1>0, <2>1
  <2> QED
    BY <1>0, <2>2, <2>3, Zenon DEF ReadyQueueSound, IDLE
<1>6. CASE ScheduleRequeueFull
  <2>1. \A t \in DOMAIN threads : threads[t].state = "Ready" => threads'[t].state = "Ready"
    BY <1>6 DEF ScheduleRequeueFull, ReturnedThreads, TypeOK, TablesOK
  <2> QED
    BY <1>0, <1>6, <2>1 DEF ScheduleRequeueFull, ReadyQueueSound
<1>7. CASE ScheduleRunnable
  BY <1>7, ScheduledSound DEF ScheduleRunnable, Candidates
<1>8. CASE ScheduleIdle
  BY <1>8 DEF ScheduleIdle, ReadyQueueSound
<1>9. CASE ExitCurrent
  <2>1. \A t \in DOMAIN threads \ {current} : threads'[t] = threads[t]
    BY <1>9 DEF ExitCurrent, TypeOK, TablesOK
  <2>2. \A n \in 1 .. Len(ready) : ready[n] # None
    BY <1>0, NoneIsNoId
  <2> QED
    BY <1>0, <1>9, <2>1, <2>2 DEF ExitCurrent, ReadyQueueSound
<1>10. CASE UNCHANGED vars
  BY <1>10 DEF ReadyQueueSound, vars
<1> QED
  BY <1>1, <1>2, <1>3, <1>4, <1>5, <1>6, <1>7, <1>8, <1>9, <1>10, SMTT(30) DEF Next

\* The ready queue holds Ready threads only, each one once, never idle and
\* never the current thread, after any sequence of spawns, ticks and exits:
\* the argument is the invariant itself together with TypeOK, since every
\* queued thread is Ready and the thread put back was Running.
THEOREM QueueIsSound == Spec => []ReadyQueueSound
<1>1. Init => ReadyQueueSound
  BY DEF Init, ReadyQueueSound
<1>2. TypeOK /\ ReadyQueueSound /\ [Next]_vars => ReadyQueueSound'
  BY NextReadyQueueSound
<1> QED
  BY <1>1, <1>2, TypeCorrect, PTL DEF Spec
-----------------------------------------------------------------------------
(* The current thread.                                                     *)

\* Putting the preempted thread back leaves no thread Running and touches
\* no other thread.
LEMMA ReturnedNotRunning ==
  ASSUME TypeOK, RunningIsCurrent
  PROVE  \A t \in DOMAIN threads :
            /\ ReturnedThreads[t].state # "Running"
            /\ ReturnedThreads[t] # threads[t] =>
                  t = current /\ threads[t].state = "Running" /\ ReturnedThreads[t].state = "Ready"
<1>1. CASE Preempted
  <2>1. current \in DOMAIN threads /\ threads[current].state = "Running"
    BY <1>1 DEF Preempted, TypeOK, TablesOK
  <2>2. /\ ReturnedThreads[current].state = "Ready"
        /\ \A t \in DOMAIN threads \ {current} : ReturnedThreads[t] = threads[t]
    BY <1>1, <2>1 DEF ReturnedThreads, TypeOK, TablesOK
  <2> QED
    BY <2>1, <2>2 DEF RunningIsCurrent
<1>2. CASE ~Preempted
  <2>1. ReturnedThreads = threads
    BY <1>2 DEF ReturnedThreads
  <2>2. \A t \in DOMAIN threads : t # None
    BY NoneIsNoId DEF TypeOK, TablesOK
  <2> QED
    BY <1>2, <2>1, <2>2 DEF Preempted, RunningIsCurrent
<1> QED
  BY <1>1, <1>2

\* After mark_thread_running the marked thread is the only Running one.
LEMMA MarkRunningCurrent ==
  ASSUME TypeOK, RunningIsCurrent, NEW t \in DOMAIN threads, MarkRunning(t)
  PROVE  /\ RunningIsCurrent'
         /\ threads'[t].state = "Running"
         /\ \A u \in DOMAIN threads \ {t} : threads'[u] = ReturnedThreads[u]
<1>1. /\ threads'[t].state = "Running"
      /\ \A u \in DOMAIN threads \ {t} : threads'[u] = ReturnedThreads[u]
      /\ DOMAIN threads' = DOMAIN threads
      /\ current' = t
  BY ReturnedType, SMTT(30) DEF MarkRunning, ThreadEntry
<1> QED
  BY <1>1, ReturnedNotRunning DEF RunningIsCurrent

\* Every call of CoreMtss preserves RunningIsCurrent.
LEMMA NextRunningIsCurrent == TypeOK /\ RunningIsCurrent /\ [Next]_vars => RunningIsCurrent'
<1> SUFFICES ASSUME TypeOK, RunningIsCurrent, [Next]_vars PROVE RunningIsCurrent'
  OBVIOUS
<1>0. /\ \A t \in DOMAIN threads : t # next_tid
      /\ current # None => current \in DOMAIN threads
  BY DEF TypeOK, TablesOK
<1>1. CASE InitWithIdle
  <2>1. IDLE \notin DOMAIN threads
    BY <1>1 DEF InitWithIdle, TypeOK, IdleOK
  <2> QED
    BY <1>0, <1>1, <2>1 DEF InitWithIdle, Insert, RunningIsCurrent
<1>2. CASE SpawnNoTaskSlot
  BY <1>2 DEF SpawnNoTaskSlot, AllocateIds, RunningIsCurrent
<1>3. CASE SpawnNoThreadSlot
  BY <1>3 DEF SpawnNoThreadSlot, AllocateIds, RunningIsCurrent
<1>4. ASSUME NEW c \in BOOLEAN, SpawnStaged(c) PROVE RunningIsCurrent'
  BY <1>0, <1>4 DEF SpawnStaged, AllocateIds, InsertThread, Insert, RunningIsCurrent
<1>5. CASE SpawnRunnable
  BY <1>0, <1>5 DEF SpawnRunnable, AllocateIds, InsertThread, Insert, RunningIsCurrent
<1>6. CASE ScheduleRequeueFull
  <2>1. threads' = ReturnedThreads /\ current' = current /\ DOMAIN threads' = DOMAIN threads
    BY <1>6, ReturnedType DEF ScheduleRequeueFull
  <2> QED
    BY <1>0, <2>1, ReturnedNotRunning DEF RunningIsCurrent
<1>7. CASE ScheduleRunnable
  BY <1>7, MarkRunningCurrent DEF ScheduleRunnable, Candidates
<1>8. CASE ScheduleIdle
  <2>1. per_cpu_idle_thread \in DOMAIN threads
    BY <1>8 DEF ScheduleIdle, TypeOK, IdleOK
  <2> QED
    BY <1>8, <2>1, MarkRunningCurrent DEF ScheduleIdle
<1>9. CASE ExitCurrent
  <2>1. /\ threads'[current].state = "Zombie"
        /\ \A t \in DOMAIN threads \ {current} : threads'[t] = threads[t]
        /\ DOMAIN threads' = DOMAIN threads
        /\ current' = None
    BY <1>0, <1>9 DEF ExitCurrent, TypeOK, TablesOK
  <2> QED
    BY <1>0, <2>1 DEF RunningIsCurrent
<1>10. CASE UNCHANGED vars
  BY <1>10 DEF RunningIsCurrent, vars
<1> QED
  BY <1>1, <1>2, <1>3, <1>4, <1>5, <1>6, <1>7, <1>8, <1>9, <1>10 DEF Next

\* The processor belongs to one thread: whatever was spawned, preempted or
\* exited, only the current thread is Running. Inductive with TypeOK:
\* return_current_to_ready_queue clears the only Running thread before
\* mark_thread_running sets another.
THEOREM OneRunning == Spec => []RunningIsCurrent
<1>1. Init => RunningIsCurrent
  BY DEF Init, RunningIsCurrent
<1>2. TypeOK /\ RunningIsCurrent /\ [Next]_vars => RunningIsCurrent'
  BY NextRunningIsCurrent
<1> QED
  BY <1>1, <1>2, TypeCorrect, PTL DEF Spec

\* No call changes a thread that has exited or that was staged without its
\* preflight checks: schedule_next and exit_current touch only the current
\* thread, which is Running or Ready, the idle thread, and a queued thread
\* it found Ready.
THEOREM NoThreadResurrected == Spec => NoResurrection
<1> DEFINE Untouched == \A t \in DOMAIN threads \ {IDLE} :
              threads[t].state \in {"New", "Zombie"} => threads'[t] = threads[t]
<1>1. TypeOK /\ RunningIsCurrent /\ [Next]_vars => [Untouched]_vars
  <2> SUFFICES ASSUME TypeOK, RunningIsCurrent, Next PROVE Untouched
    OBVIOUS
  <2>0. /\ \A t \in DOMAIN threads : t # next_tid
        /\ current # None => current \in DOMAIN threads
    BY DEF TypeOK, TablesOK
  <2>1. CASE InitWithIdle
    BY <2>1 DEF InitWithIdle, Insert
  <2>2. CASE SpawnNoTaskSlot \/ SpawnNoThreadSlot
    BY <2>2 DEF SpawnNoTaskSlot, SpawnNoThreadSlot
  <2>3. ASSUME NEW c \in BOOLEAN, SpawnStaged(c) PROVE Untouched
    BY <2>0, <2>3 DEF SpawnStaged, InsertThread, Insert
  <2>4. CASE SpawnRunnable
    BY <2>0, <2>4 DEF SpawnRunnable, InsertThread, Insert
  <2>5. CASE ScheduleRequeueFull
    BY <2>5, ReturnedNotRunning DEF ScheduleRequeueFull
  <2>6. CASE ScheduleRunnable
    <3>1. PICK n \in Candidates : MarkRunning(ReturnedReady[n])
      BY <2>6 DEF ScheduleRunnable
    <3>2. /\ ReturnedReady[n] \in DOMAIN threads
          /\ ReturnedThreads[ReturnedReady[n]].state = "Ready"
      BY DEF Candidates
    <3> QED
      BY <3>1, <3>2, ReturnedNotRunning, MarkRunningCurrent
  <2>7. CASE ScheduleIdle
    <3>1. per_cpu_idle_thread = IDLE /\ IDLE \in DOMAIN threads
      BY <2>7 DEF ScheduleIdle, TypeOK, IdleOK
    <3> QED
      BY <2>7, <3>1, ReturnedNotRunning, MarkRunningCurrent DEF ScheduleIdle
  <2>8. CASE ExitCurrent
    <3>1. \A t \in DOMAIN threads \ {current} : threads'[t] = threads[t]
      BY <2>0, <2>8 DEF ExitCurrent, TypeOK, TablesOK
    <3> QED
      BY <2>0, <2>8, <3>1 DEF ExitCurrent, RunningIsCurrent
  <2> QED
    BY <2>1, <2>2, <2>3, <2>4, <2>5, <2>6, <2>7, <2>8, SMTT(30) DEF Next
<1> QED
  BY <1>1, TypeCorrect, OneRunning, PTL DEF Spec, NoResurrection
-----------------------------------------------------------------------------
(* No Ready thread is lost, when the ready queue has room for every thread.*)

\* The thread table holds at most THREADS entries, and none before
\* init_with_idle.
TableBounded == /\ Cardinality(DOMAIN threads) <= THREADS
                /\ ~initialized => DOMAIN threads = {}

\* The thread table has finitely many entries: its ids are below next_tid.
LEMMA ThreadsFinite ==
  ASSUME TypeOK
  PROVE  IsFiniteSet(DOMAIN threads) /\ Cardinality(DOMAIN threads) \in Nat
<1>1. next_tid \in Nat \ {0} /\ DOMAIN threads \in SUBSET (0 .. next_tid - 1)
  BY DEF TypeOK, TablesOK
<1>2. IsFiniteSet(0 .. next_tid - 1)
  BY <1>1, FS_Interval
<1> QED
  BY <1>1, <1>2, FS_Subset, FS_CardinalityType

\* No call of CoreMtss puts more threads into the table than it has slots.
LEMMA NextTableBounded == TypeOK /\ TableBounded /\ [Next]_vars => TableBounded'
<1> SUFFICES ASSUME TypeOK, TableBounded, [Next]_vars PROVE TableBounded'
  OBVIOUS
<1>0. initialized \in BOOLEAN
  BY DEF TypeOK, IdleOK
<1>1. CASE InitWithIdle
  <2>1. DOMAIN threads' = {} \cup {IDLE} /\ initialized' = TRUE
    BY <1>1 DEF InitWithIdle, TableBounded, Insert
  <2>2. Cardinality(DOMAIN threads') = 1
    BY <2>1, FS_EmptySet, FS_AddElement
  <2> QED
    BY <1>1, <2>1, <2>2, SizeFacts DEF TableBounded, InitWithIdle, THREADS
<1>2. ASSUME AllocateIds, \E st : InsertThread(st) PROVE TableBounded'
  <2>1. DOMAIN threads' = DOMAIN threads \cup {next_tid}
    BY <1>2 DEF InsertThread, Insert
  <2>2. Cardinality(DOMAIN threads) < THREADS
    BY <1>2, ThreadsFinite, SizeFacts DEF InsertThread, ThreadTableFull
  <2> DEFINE D == DOMAIN threads
  <2>3. IsFiniteSet(D) /\ Cardinality(D) \in Nat
    BY ThreadsFinite
  <2>4. next_tid \notin D
    BY DEF TypeOK, TablesOK
  <2> HIDE DEF D
  <2>5. Cardinality(D \cup {next_tid}) = Cardinality(D) + 1
    BY <2>3, <2>4, FS_AddElement
  <2>6. Cardinality(DOMAIN threads') <= THREADS
    BY <2>1, <2>2, <2>3, <2>5, SizeFacts DEF D
  <2> QED
    BY <1>2, <2>6 DEF TableBounded, AllocateIds, THREADS
<1>3. ASSUME DOMAIN threads' = DOMAIN threads, initialized' = initialized, size' = size
      PROVE  TableBounded'
  BY <1>3 DEF TableBounded, THREADS
<1>4. CASE SpawnNoTaskSlot \/ SpawnNoThreadSlot
  BY <1>3, <1>4 DEF SpawnNoTaskSlot, SpawnNoThreadSlot, AllocateIds
<1>5. ASSUME NEW c \in BOOLEAN, SpawnStaged(c) PROVE TableBounded'
  BY <1>2, <1>5 DEF SpawnStaged
<1>6. CASE SpawnRunnable
  BY <1>2, <1>6 DEF SpawnRunnable
<1>7. CASE ScheduleRequeueFull
  BY <1>3, <1>7, ReturnedType DEF ScheduleRequeueFull
<1>8. ASSUME NEW t, MarkRunning(t) PROVE TableBounded'
  <2>1. DOMAIN threads' = DOMAIN threads
    BY <1>8, ReturnedType DEF MarkRunning
  <2> QED
    BY <1>3, <1>8, <2>1 DEF MarkRunning
<1>9. CASE ScheduleRunnable \/ ScheduleIdle
  BY <1>8, <1>9 DEF ScheduleRunnable, ScheduleIdle
<1>10. CASE ExitCurrent
  BY <1>3, <1>10 DEF ExitCurrent
<1>11. CASE UNCHANGED vars
  BY <1>3, <1>11 DEF vars
<1> QED
  BY <1>1, <1>4, <1>5, <1>6, <1>7, <1>9, <1>10, <1>11, SMTT(30) DEF Next

\* The preempted thread fits: the queued threads are distinct and current is
\* none of them, so there are fewer than THREADS of them.
LEMMA RequeueFits ==
  ASSUME QueueFitsAll, TypeOK, TableBounded, ReadyQueueSound
  PROVE  ~RequeueFull
<1> SUFFICES ASSUME Requeued PROVE Len(ready) # READY
  BY DEF RequeueFull
<1> DEFINE D == DOMAIN threads
           Q == 1 .. Len(ready)
<1>1. current \in D /\ IsFiniteSet(D) /\ Cardinality(D) \in Nat /\ Cardinality(D) <= THREADS
  BY ThreadsFinite DEF Requeued, Preempted, TypeOK, TablesOK, TableBounded
<1>2. ready \in Injection(Q, D \ {current})
  <2>1. ready \in [Q -> D]
    BY DEF TypeOK, TablesOK
  <2> QED
    BY <2>1 DEF ReadyQueueSound, Injection, IsInjective
<1>3. Len(ready) \in Nat
  BY DEF TypeOK, TablesOK
<1> HIDE DEF D
<1>4. IsFiniteSet(D \ {current}) /\ Cardinality(D \ {current}) = Cardinality(D) - 1
  BY <1>1, FS_RemoveElement
<1>5. Cardinality(Q) = Len(ready)
  <2>1. Cardinality(Q) = IF 1 > Len(ready) THEN 0 ELSE Len(ready) - 1 + 1
    BY <1>3, FS_Interval, SMTT(30)
  <2> QED
    BY <1>3, <2>1
<1> HIDE DEF Q
<1>6. Cardinality(Q) <= Cardinality(D \ {current})
  BY <1>2, <1>4, FS_Injection
<1>7. Len(ready) <= Cardinality(D) - 1
  BY <1>4, <1>5, <1>6
<1> QED
  BY <1>1, <1>3, <1>7, SizeFacts DEF QueueFitsAll

\* Every Ready thread other than idle is queued once the preempted one is back.
LEMMA ReturnedComplete ==
  ASSUME QueueFitsAll, TypeOK, RunningIsCurrent, NoLostReady,
         NEW t \in DOMAIN threads \ {IDLE}, ReturnedThreads[t].state = "Ready"
  PROVE  \E n \in 1 .. Len(ReturnedReady) : ReturnedReady[n] = t
<1>1. ready \in Seq(DOMAIN threads) /\ Len(ready) \in Nat
  BY DEF TypeOK, TablesOK
<1>2. CASE Requeued
  <2>1. current \in DOMAIN threads
    BY <1>2 DEF Requeued, Preempted, TypeOK, TablesOK
  <2>2. /\ Len(ReturnedReady) = Len(ready) + 1
        /\ \A n \in 1 .. Len(ready) : ReturnedReady[n] = ready[n]
        /\ ReturnedReady[Len(ready) + 1] = current
    BY <1>1, <1>2, <2>1, AppendProperties DEF ReturnedReady
  <2>3. CASE t = current
    BY <1>1, <2>2, <2>3
  <2>4. CASE t # current
    <3>1. PICK n \in 1 .. Len(ready) : ready[n] = t
      BY <2>4, ReturnedNotRunning DEF NoLostReady
    <3>2. n \in 1 .. Len(ReturnedReady)
      BY <1>1, <2>2
    <3> QED
      BY <2>2, <3>1, <3>2
  <2> QED
    BY <2>3, <2>4
<1>3. CASE ~Requeued
  <2>1. threads[t].state = "Ready"
    <3>1. CASE t = current
      <4>1. t # None /\ t # per_cpu_idle_thread
        BY NoneIsNoId DEF TypeOK, TablesOK, IdleOK
      <4>2. threads[t].state # "Running"
        BY <1>3, <3>1, <4>1 DEF Requeued, Preempted
      <4> QED
        BY <4>2, ReturnedNotRunning
    <3>2. CASE t # current
      BY <3>2, ReturnedNotRunning
    <3> QED
      BY <3>1, <3>2
  <2> QED
    BY <1>3, <2>1 DEF NoLostReady, ReturnedReady
<1> QED
  BY <1>2, <1>3

\* Every call of CoreMtss preserves NoLostReady, given the other invariants.
LEMMA NextNoLostReady ==
  ASSUME QueueFitsAll, TypeOK, TableBounded, ReadyQueueSound, RunningIsCurrent,
         NoLostReady, [Next]_vars
  PROVE  NoLostReady'
<1>0. /\ ready \in Seq(DOMAIN threads) /\ Len(ready) \in Nat
      /\ \A t \in DOMAIN threads : t # next_tid
  BY DEF TypeOK, TablesOK
<1>1. CASE InitWithIdle
  BY <1>1 DEF InitWithIdle, Insert, NoLostReady
<1>2. CASE SpawnNoTaskSlot \/ SpawnNoThreadSlot
  BY <1>2 DEF SpawnNoTaskSlot, SpawnNoThreadSlot, NoLostReady
<1>3. ASSUME NEW c \in BOOLEAN, SpawnStaged(c) PROVE NoLostReady'
  BY <1>0, <1>3 DEF SpawnStaged, InsertThread, Insert, NoLostReady
<1>4. CASE SpawnRunnable
  <2>1. /\ Len(ready') = Len(ready) + 1
        /\ \A n \in 1 .. Len(ready) : ready'[n] = ready[n]
        /\ ready'[Len(ready) + 1] = next_tid
    <3>1. ready \in Seq(DOMAIN threads \cup {next_tid})
      BY <1>0
    <3> QED
      BY <1>4, <3>1, AppendProperties DEF SpawnRunnable
  <2>2. /\ DOMAIN threads' = DOMAIN threads \cup {next_tid}
        /\ \A t \in DOMAIN threads : threads'[t] = threads[t]
    BY <1>0, <1>4 DEF SpawnRunnable, InsertThread, Insert
  <2>3. 1 .. Len(ready) \subseteq 1 .. Len(ready') /\ Len(ready) + 1 \in 1 .. Len(ready')
    BY <1>0, <2>1
  <2> QED
    BY <2>1, <2>2, <2>3 DEF NoLostReady
<1>5. CASE ScheduleRequeueFull
  BY <1>5, RequeueFits DEF ScheduleRequeueFull
<1>6. ASSUME initialized
      PROVE  /\ Candidates = 1 .. Len(ReturnedReady)
             /\ per_cpu_idle_thread = IDLE /\ IDLE \in DOMAIN threads
  BY <1>6, ReturnedSound DEF Candidates, TypeOK, IdleOK
<1>7. CASE ScheduleRunnable
  <2>1. PICK n \in Candidates :
           /\ \A j \in Candidates : n <= j
           /\ ready' = SubSeq(ReturnedReady, n + 1, Len(ReturnedReady))
           /\ MarkRunning(ReturnedReady[n])
    BY <1>7, Zenon DEF ScheduleRunnable
  <2>2. ReturnedReady \in Seq(DOMAIN threads) /\ Len(ReturnedReady) \in Nat
    BY ReturnedType
  <2>3. n = 1 /\ 1 \in 1 .. Len(ReturnedReady) /\ ReturnedReady[1] \in DOMAIN threads
    <3>1. Candidates = 1 .. Len(ReturnedReady)
      BY <1>6, <1>7 DEF ScheduleRunnable
    <3>2. n \in 1 .. Len(ReturnedReady) /\ \A j \in 1 .. Len(ReturnedReady) : n <= j
      BY <2>1, <3>1
    <3>3. n = 1 /\ 1 \in 1 .. Len(ReturnedReady)
      BY <2>2, <3>2
    <3> QED
      BY <2>2, <3>3
  <2>4. /\ Len(ready') = Len(ReturnedReady) - 1
        /\ \A i \in 1 .. Len(ready') : ready'[i] = ReturnedReady[i + 1]
    <3> DEFINE R == ReturnedReady
               L == Len(ReturnedReady)
    <3>1. L \in Nat /\ L >= 1 /\ \A i \in 2 .. L : R[i] \in DOMAIN threads
      BY <2>2, <2>3
    <3>2. ready' = SubSeq(R, 2, L)
      BY <2>1, <2>3
    <3> HIDE DEF R, L
    <3>3. /\ Len(ready') = IF 2 <= L THEN L - 2 + 1 ELSE 0
          /\ \A i \in 1 .. L - 2 + 1 : ready'[i] = R[2 + i - 1]
      BY <3>1, <3>2, SubSeqProperties
    <3>4. Len(ready') = L - 1 /\ \A i \in 1 .. L - 1 : ready'[i] = R[i + 1]
      BY <3>1, <3>3
    <3> QED
      BY <3>4 DEF R, L
  <2>5. DOMAIN threads' = DOMAIN threads
    BY <2>1, ReturnedType DEF MarkRunning
  <2>6. ASSUME NEW t \in DOMAIN threads \ {IDLE}, threads'[t].state = "Ready"
        PROVE  \E i \in 1 .. Len(ready') : ready'[i] = t
    <3>1. t # ReturnedReady[1] /\ ReturnedThreads[t].state = "Ready"
      BY <2>1, <2>3, <2>6, MarkRunningCurrent
    <3>2. PICK m \in 1 .. Len(ReturnedReady) : ReturnedReady[m] = t
      BY <3>1, ReturnedComplete
    <3>3. m # 1 /\ m - 1 \in 1 .. Len(ready') /\ (m - 1) + 1 = m
      BY <2>2, <2>4, <3>1, <3>2, SMTT(30)
    <3> QED
      BY <2>4, <3>2, <3>3, Zenon
  <2> QED
    BY <2>5, <2>6 DEF NoLostReady
<1>8. CASE ScheduleIdle
  <2>1. Len(ReturnedReady) \in Nat /\ 1 .. Len(ReturnedReady) = {} /\ IDLE \in DOMAIN threads
    BY <1>6, <1>8, ReturnedType DEF ScheduleIdle
  <2>2. DOMAIN threads' = DOMAIN threads
    BY <1>8, ReturnedType DEF ScheduleIdle, MarkRunning
  <2>3. \A t \in DOMAIN threads \ {IDLE} : threads'[t] = ReturnedThreads[t]
    BY <1>6, <1>8, MarkRunningCurrent DEF ScheduleIdle
  <2> QED
    BY <2>1, <2>2, <2>3, ReturnedComplete DEF NoLostReady
<1>9. CASE ExitCurrent
  <2>1. /\ threads'[current].state = "Zombie" /\ DOMAIN threads' = DOMAIN threads
        /\ \A t \in DOMAIN threads \ {current} : threads'[t] = threads[t]
    BY <1>9 DEF ExitCurrent, TypeOK, TablesOK
  <2> QED
    BY <1>9, <2>1 DEF ExitCurrent, NoLostReady
<1>10. CASE UNCHANGED vars
  BY <1>10 DEF NoLostReady, vars
<1> QED
  BY <1>1, <1>2, <1>3, <1>4, <1>5, <1>7, <1>8, <1>9, <1>10, SMTT(30) DEF Next

\* The thread table never holds more threads than it has slots.
LEMMA BoundedAlways == Spec => []TableBounded
<1>1. Init => TableBounded
  <2> SUFFICES ASSUME Init PROVE TableBounded
    OBVIOUS
  <2>1. DOMAIN threads = {}
    BY DEF Init
  <2> QED
    BY <2>1, FS_EmptySet, InitTypeOK, SizeFacts DEF TableBounded
<1>2. TypeOK /\ TableBounded /\ [Next]_vars => TableBounded'
  BY NextTableBounded
<1> QED
  BY <1>1, <1>2, TypeCorrect, PTL DEF Spec

\* No thread is forgotten by preemption: when READY >= THREADS, as in the
\* kernel's CoreMtss<64, 256, 256>, every Ready thread other than idle is
\* in the ready queue. The requeue in return_current_to_ready_queue cannot
\* fail because the queued threads are distinct and exclude the current one.
THEOREM ReadyNeverLost == Spec => []NoLostReady
<1>1. Init => NoLostReady
  <2> SUFFICES ASSUME Init PROVE NoLostReady
    OBVIOUS
  <2>1. DOMAIN threads = {}
    BY DEF Init
  <2> QED
    BY <2>1 DEF NoLostReady
<1>2. TypeOK /\ TableBounded /\ ReadyQueueSound /\ RunningIsCurrent /\ NoLostReady
         /\ [Next]_vars => NoLostReady'
  <2>1. CASE QueueFitsAll
    BY <2>1, NextNoLostReady
  <2>2. CASE ~QueueFitsAll
    BY <2>2, SizeFixed DEF NoLostReady, QueueFitsAll, READY, THREADS
  <2> QED
    BY <2>1, <2>2
<1> QED
  BY <1>1, <1>2, TypeCorrect, BoundedAlways, QueueIsSound, OneRunning, PTL DEF Spec

\* schedule_next falls back to the idle thread only when no other thread is
\* Ready or Running (docs/kernel/mtss-preemption.md: "selects idle only if
\* no non-idle runnable thread exists"), when READY >= THREADS.
THEOREM IdleIsLastResort == Spec => IdleOnlyWhenNothingReady
<1> DEFINE NothingReady == \A t \in DOMAIN threads \ {IDLE} :
                              threads[t].state \notin {"Ready", "Running"}
<1>1. TypeOK /\ ReadyQueueSound /\ RunningIsCurrent /\ NoLostReady
         => [QueueFitsAll /\ ScheduleIdle => NothingReady]_vars
  <2> SUFFICES ASSUME TypeOK, ReadyQueueSound, RunningIsCurrent, NoLostReady,
                      QueueFitsAll, ScheduleIdle
               PROVE  NothingReady
    OBVIOUS
  <2> SUFFICES ASSUME NEW t \in DOMAIN threads \ {IDLE},
                      threads[t].state \in {"Ready", "Running"}
               PROVE  FALSE
    OBVIOUS
  <2>1. ReturnedThreads[t].state = "Ready"
    <3>1. CASE threads[t].state = "Ready"
      BY <3>1, ReturnedNotRunning
    <3>2. CASE threads[t].state = "Running"
      BY <3>2, ReturnedNotRunning
    <3> QED
      BY <3>1, <3>2
  <2>2. PICK n \in 1 .. Len(ReturnedReady) : ReturnedReady[n] = t
    BY <2>1, ReturnedComplete
  <2>3. per_cpu_idle_thread = IDLE
    BY DEF ScheduleIdle, TypeOK, IdleOK
  <2> QED
    BY <2>1, <2>2, <2>3 DEF ScheduleIdle, Candidates
<1> QED
  BY <1>1, TypeCorrect, QueueIsSound, OneRunning, ReadyNeverLost, PTL
     DEF Spec, IdleOnlyWhenNothingReady

\* For every table size, SchedulerSound holds in every reachable state of CoreMtss; no
\* lost thread is claimed only where the ready queue is as long as the thread table.
THEOREM SchedulerIsSound == Spec => []SchedulerSound
<1>1. Spec => []TypeOK /\ []ReadyQueueSound /\ []RunningIsCurrent /\ []NoLostReady
  BY TypeCorrect, QueueIsSound, OneRunning, ReadyNeverLost
<1>2. TypeOK /\ ReadyQueueSound /\ RunningIsCurrent /\ NoLostReady => SchedulerSound
  BY DEF SchedulerSound
<1> QED
  BY <1>1, <1>2, PTL
-----------------------------------------------------------------------------
(* A task and its main thread. spawn_userspace takes both ids together, so   *)
(* the two tables have the same ids as long as none of the two fills first.  *)

Corresponding(thread, task) == \/ thread = "New" /\ task = "Created"
                               \/ thread = "Ready" /\ task = "Runnable"
                               \/ thread = "Running" /\ task = "Running"
                               \/ thread = "Zombie" /\ task = "Exited"

InStep ==
    /\ next_pid = next_tid
    /\ DOMAIN tasks = DOMAIN threads
    /\ \A p \in DOMAIN threads :
          /\ tasks[p].main_thread = p /\ threads[p].task = p
          /\ Corresponding(threads[p].state, tasks[p].state)

\* spawn_userspace puts a task and its thread, in corresponding states, into both tables.
LEMMA SpawnInStep ==
  ASSUME TypeOK, InStep, AllocateIds, NEW a, NEW b, InsertTask(a), InsertThread(b),
         Corresponding(b, a)
  PROVE  InStep'
<1>1. /\ DOMAIN tasks' = DOMAIN tasks \cup {next_pid} /\ DOMAIN threads' = DOMAIN threads \cup {next_tid}
      /\ next_pid' = next_tid'
  BY DEF InStep, AllocateIds, InsertTask, InsertThread, Insert
<1>2. /\ tasks'[next_pid] = [state |-> a, main_thread |-> next_pid]
      /\ threads'[next_pid] = [state |-> b, task |-> next_pid]
  BY DEF InStep, InsertTask, InsertThread, Insert
<1>3. \A p \in DOMAIN threads : tasks'[p] = tasks[p] /\ threads'[p] = threads[p]
  BY DEF InStep, InsertTask, InsertThread, Insert, TypeOK, TablesOK
<1> QED
  BY <1>1, <1>2, <1>3 DEF InStep

\* return_current_to_ready_queue changes the state of a thread and of its task together.
LEMMA ReturnedInStep ==
  ASSUME TypeOK, InStep
  PROVE  \A p \in DOMAIN threads :
            /\ ReturnedTasks[p].main_thread = p /\ ReturnedThreads[p].task = p
            /\ Corresponding(ReturnedThreads[p].state, ReturnedTasks[p].state)
<1>1. CASE Preempted
  <2>1. current \in DOMAIN threads /\ threads[current].task = current
    BY <1>1 DEF Preempted, TypeOK, TablesOK, InStep
  <2> QED
    BY <1>1, <2>1 DEF ReturnedTasks, ReturnedThreads, InStep, TypeOK, TablesOK, Corresponding
<1>2. CASE ~Preempted
  BY <1>2 DEF ReturnedTasks, ReturnedThreads, InStep
<1> QED
  BY <1>1, <1>2

\* So does mark_thread_running.
LEMMA MarkRunningInStep ==
  ASSUME TypeOK, InStep, NEW t \in DOMAIN threads, MarkRunning(t)
  PROVE  InStep'
<1>1. threads[t].task = t
  BY DEF InStep
<1>2. /\ DOMAIN threads' = DOMAIN threads /\ DOMAIN tasks' = DOMAIN tasks
      /\ \A p \in DOMAIN threads \ {t} : threads'[p] = ReturnedThreads[p] /\ tasks'[p] = ReturnedTasks[p]
  BY <1>1, ReturnedType DEF MarkRunning, InStep
<1>3. /\ threads'[t].state = "Running" /\ threads'[t].task = t
      /\ tasks'[t].state = "Running" /\ tasks'[t].main_thread = t
  BY <1>1, ReturnedType, ReturnedInStep DEF MarkRunning, InStep, ThreadEntry, TaskEntry
<1> QED
  BY <1>2, <1>3, ReturnedInStep DEF InStep, MarkRunning, Corresponding

\* Every call of CoreMtss keeps tasks and threads in step.
LEMMA NextInStep ==
  ASSUME FitsTogether, TypeOK, TableBounded, ReadyQueueSound, InStep, [Next]_vars
  PROVE  InStep'
<1>1. CASE InitWithIdle
  <2>1. DOMAIN threads = DOMAIN tasks /\ IDLE \notin DOMAIN threads
    BY <1>1 DEF InitWithIdle, InStep, TypeOK, IdleOK
  <2> QED
    BY <1>1, <2>1, SMTT(30) DEF InitWithIdle, Insert, InStep, Corresponding, IDLE
<1>2. CASE SpawnNoTaskSlot
  BY <1>2 DEF SpawnNoTaskSlot, AllocateIds, InStep
<1>3. ~SpawnNoThreadSlot
  <2>1. Cardinality(DOMAIN tasks) = Cardinality(DOMAIN threads) /\ Cardinality(DOMAIN threads) \in Nat
    BY ThreadsFinite DEF InStep
  <2> QED
    BY <2>1, SizeFacts DEF SpawnNoThreadSlot, InsertTask, ThreadTableFull, TaskTableFull, FitsTogether
<1>4. ASSUME NEW c \in BOOLEAN, SpawnStaged(c) PROVE InStep'
  BY <1>4, SpawnInStep DEF SpawnStaged, Corresponding
<1>5. CASE SpawnRunnable
  BY <1>5, SpawnInStep DEF SpawnRunnable, Corresponding
<1>6. ~ScheduleRequeueFull
  BY RequeueFits DEF ScheduleRequeueFull, FitsTogether
<1>7. CASE ScheduleRunnable
  <2>1. PICK n \in Candidates : MarkRunning(ReturnedReady[n])
    BY <1>7 DEF ScheduleRunnable
  <2>2. ReturnedReady[n] \in DOMAIN threads
    BY DEF Candidates
  <2> QED
    BY <2>1, <2>2, MarkRunningInStep
<1>8. CASE ScheduleIdle
  <2>1. per_cpu_idle_thread \in DOMAIN threads
    BY <1>8 DEF ScheduleIdle, TypeOK, IdleOK
  <2> QED
    BY <1>8, <2>1, MarkRunningInStep DEF ScheduleIdle
<1>9. CASE ExitCurrent
  <2>1. current \in DOMAIN threads /\ threads[current].task = current
    BY <1>9 DEF ExitCurrent, TypeOK, TablesOK, InStep
  <2>2. /\ DOMAIN threads' = DOMAIN threads /\ DOMAIN tasks' = DOMAIN tasks
        /\ \A p \in DOMAIN threads \ {current} : threads'[p] = threads[p] /\ tasks'[p] = tasks[p]
        /\ threads'[current].state = "Zombie" /\ threads'[current].task = current
        /\ tasks'[current].state = "Exited" /\ tasks'[current].main_thread = current
    BY <1>9, <2>1 DEF ExitCurrent, TypeOK, TablesOK, InStep
  <2> QED
    BY <1>9, <2>1, <2>2 DEF ExitCurrent, InStep, Corresponding
<1>10. CASE UNCHANGED vars
  BY <1>10 DEF vars, InStep
<1> QED
  BY <1>1, <1>2, <1>3, <1>4, <1>5, <1>6, <1>7, <1>8, <1>9, <1>10, SMTT(30) DEF Next

\* For every size of the tables with READY >= THREADS >= TASKS, as in the kernel's
\* CoreMtss<64, 256, 256>, a task and its main thread name each other and are in
\* corresponding states after every call: spawn_userspace never stops between its two
\* inserts, and schedule_next never returns between its two updates.
THEOREM TasksFollowThreads == Spec => []TaskFollowsThread
<1>1. Init => (FitsTogether => InStep)
  <2> SUFFICES ASSUME Init PROVE InStep
    OBVIOUS
  <2>1. DOMAIN threads = {} /\ DOMAIN tasks = {}
    BY DEF Init
  <2> QED
    BY <2>1 DEF Init, InStep
<1>2. TypeOK /\ TableBounded /\ ReadyQueueSound /\ (FitsTogether => InStep) /\ [Next]_vars
         => (FitsTogether => InStep)'
  <2>1. [Next]_vars => (FitsTogether' <=> FitsTogether)
    BY SizeFixed DEF FitsTogether, QueueFitsAll, TASKS, THREADS, READY
  <2> QED
    BY <2>1, NextInStep
<1>3. (FitsTogether => InStep) => TaskFollowsThread
  BY DEF InStep, TaskFollowsThread, Corresponding
<1> QED
  BY <1>1, <1>2, <1>3, TypeCorrect, BoundedAlways, QueueIsSound, PTL DEF Spec
=============================================================================

------------------------- MODULE ProcessTreeProofs -------------------------
(***************************************************************************)
(* The process tree keeps FamiliesSound, for every number of processes,    *)
(* sleeps and timers: the inductive invariant Kept, that every step of     *)
(* TreeNext preserves it, and the theorem.                                 *)
(***************************************************************************)
EXTENDS ProcessTree, TLAPS, NaturalsInduction, WellFoundedInduction

Statuses == AllSignals \cup {0}
Reports == [parent : ProcessIds, pid : ProcessIds, status : Statuses \cup {Nil}]

TreeType ==
    /\ procs \in [ProcessIds -> Blocks \cup {Nil}]
    /\ next_pid \in Nat /\ next_timer_id \in Nat /\ now \in Nat
    /\ sleeps \in [1 .. SLEEP_CAP -> Sleeps \cup {Nil}]
    /\ timers \in [1 .. TIMER_CAP -> Timers \cup {Nil}]
    /\ status_of \in [ProcessIds -> Statuses \cup {Nil}]
    /\ answers \in Seq(Reports)

\* Pids are handed out in order, and a process that has ended left its status behind.
Numbered == \A p \in ProcessIds : Exists(p) => p < next_pid
Ended == \A p \in ProcessIds : Exists(p) /\ procs[p].state = "Zombie" =>
            procs[p].status = status_of[p] /\ status_of[p] # Nil

\* A process wait has reported is gone, and its pid is not handed out again.
Reaped == \A i \in 1 .. Len(answers) :
             /\ procs[answers[i].pid] = Nil /\ answers[i].pid < next_pid

SleepersAlive == \A i \in 1 .. SLEEP_CAP : sleeps[i] # Nil => Alive(sleeps[i].process)

\* Timer numbers are handed out in order; a periodic timer is a whole number of periods
\* after its first deadline, and ahead of the clock once it has rung.
OnPeriod(t) == t.armed /\ t.interval > 0 =>
                  /\ \E k \in Nat : t.deadline = t.first + t.interval * k
                  /\ t.deadline # t.first => t.deadline > now
Owned == \A i \in 1 .. TIMER_CAP : timers[i] # Nil =>
            /\ Alive(timers[i].owner) /\ timers[i].id < next_timer_id
            /\ \A j \in 1 .. TIMER_CAP : timers[j] # Nil /\ timers[j].id = timers[i].id => i = j
Periodic == \A i \in 1 .. TIMER_CAP : timers[i] # Nil => OnPeriod(timers[i])

Kept == /\ TreeType /\ Numbered /\ Ended /\ Reaped /\ ReportedOnce
        /\ SleepersAlive /\ BlockedHasWaker /\ Owned /\ Periodic

-----------------------------------------------------------------------------
(* Facts about the operators.                                                *)

\* A non-empty set of naturals has a least element, which First picks.
LEMMA FirstIs ==
  ASSUME NEW S \in SUBSET Nat, S # {}
  PROVE  First(S) \in S /\ \A m \in S : First(S) <= m
<1> DEFINE R == {ss \in Nat \X Nat : ss[1] < ss[2]}
<1>1. IsWellFoundedOn(R, Nat)
  BY NatLessThanWellFounded, Zenon DEF OpToRel
<1> HIDE DEF R
<1>2. PICK n \in S : \A m \in S : ~(<<m, n>> \in R)
  BY <1>1, WFMin, Zenon
<1>3. ASSUME NEW m \in S PROVE n <= m
  <2>1. m \in Nat /\ n \in Nat /\ (m < n => <<m, n>> \in R)
    BY Zenon DEF R
  <2> QED
    BY <1>2, <2>1
<1> QED
  BY <1>3, Zenon DEF First

Queues == [1 .. MAX_PENDING_SIGNALS -> AllSignals \cup {Nil}]

\* push keeps the type of a queue, and queue_signal that of the table, of which it changes
\* pending signals only.
LEMMA PushType ==
  ASSUME NEW q \in Queues, NEW signal \in AllSignals
  PROVE  push(q, signal) \in Queues
BY Zenon DEF push, Queues

\* Two rows of the process table that agree on what waiting and reaping look at.
Same(a, b) == /\ a = Nil <=> b = Nil
              /\ a # Nil => /\ a.parent = b.parent /\ a.pgid = b.pgid /\ a.state = b.state
                            /\ a.status = b.status /\ a.wait = b.wait
Tables == [ProcessIds -> Blocks \cup {Nil}]
Alike(t, u) == \A q \in ProcessIds : Same(t[q], u[q])

\* queue_signal changes the pending signals of one process and nothing else.
LEMMA QueueType ==
  ASSUME NEW t \in Tables, NEW p \in ProcessIds \cup {Nil}, NEW signal \in AllSignals
  PROVE  queue_signal(t, p, signal) \in Tables /\ Alike(t, queue_signal(t, p, signal))
<1>1. CASE p = Nil \/ t[p] = Nil
  BY <1>1 DEF queue_signal, Alike, Same
<1>2. CASE ~(p = Nil \/ t[p] = Nil)
  <2>1. p \in ProcessIds /\ t[p] \in Blocks
    BY <1>2 DEF Tables
  <2>2. push(t[p].pending, signal) \in Queues
    BY <2>1, PushType DEF Blocks, Queues
  <2> DEFINE row == [t[p] EXCEPT !.pending = push(t[p].pending, signal)]
  <2>3. queue_signal(t, p, signal) = [t EXCEPT ![p] = row]
    BY <1>2, <2>1 DEF queue_signal
  <2>4. row \in Blocks /\ Same(t[p], row)
    BY <2>1, <2>2, TreeAssumption, ZenonT(30) DEF Blocks, Same, Queues
  <2> HIDE DEF row
  <2>5. \A q \in ProcessIds : Same(t[q], t[q])
    BY DEF Same
  <2> QED
    BY <2>1, <2>3, <2>4, <2>5 DEF Tables, Alike
<1> QED
  BY <1>1, <1>2

-----------------------------------------------------------------------------
(* Steps that leave what waiting and reaping look at alone.                  *)

Quiet == /\ procs' \in Tables /\ Alike(procs, procs')
         /\ UNCHANGED <<next_pid, sleeps, timers, next_timer_id, now, status_of, answers, deserted>>

\* Quiet steps keep the invariant.
LEMMA QuietKeeps ==
  ASSUME Kept, Quiet
  PROVE  Kept'
<1> USE DEF Kept
<1>1. TreeType'
  BY DEF Quiet, TreeType, Tables
<1>2. \A q \in ProcessIds : (Exists(q)' <=> Exists(q)) /\ (Alive(q)' <=> Alive(q))
  BY DEF Quiet, Alike, Same, Exists, Alive
<1>3. Numbered' /\ Ended'
  BY <1>2 DEF Numbered, Ended, Quiet, Alike, Same, Exists
<1>4. Reaped' /\ ReportedOnce'
  <2>1. \A i \in 1 .. Len(answers) : answers[i] \in Reports
    BY DEF TreeType
  <2>2. \A i \in 1 .. Len(answers) : answers[i].pid \in ProcessIds
    BY <2>1 DEF Reports
  <2> QED
    BY <2>2 DEF Reaped, ReportedOnce, Quiet, Alike, Same
<1>5. SleepersAlive'
  BY <1>2, TreeAssumption, Zenon DEF SleepersAlive, Quiet, TreeType, Sleeps
<1>6. BlockedHasWaker'
  <2> SUFFICES ASSUME NEW p \in ProcessIds, Exists(p)', procs'[p].state = "Blocked"
               PROVE  \/ \E i \in DOMAIN sleeps : sleeps[i] # Nil /\ sleeps[i].process = p
                      \/ /\ procs'[p].wait # Nil
                         /\ \/ p \in deserted
                            \/ \E c \in ProcessIds : /\ Alive(c)' /\ procs'[c].parent = p
                                                   /\ matches(procs'[p].wait, c, procs'[c].pgid)
    BY DEF BlockedHasWaker, Quiet
  <2>1. Exists(p) /\ procs[p].state = "Blocked" /\ procs'[p].wait = procs[p].wait
    BY <1>2 DEF Quiet, Alike, Same, Exists
  <2>2. \A c \in ProcessIds : Alive(c) => procs'[c].parent = procs[c].parent /\ procs'[c].pgid = procs[c].pgid
    BY DEF Quiet, Alike, Same, Alive, Exists
  <2> QED
    BY <1>2, <2>1, <2>2 DEF BlockedHasWaker
<1>7. Owned'
  BY <1>2, TreeAssumption, Zenon DEF Owned, Quiet, TreeType, Timers
<1>8. Periodic'
  BY DEF Periodic, OnPeriod, Quiet
<1> QED
  BY <1>1, <1>3, <1>4, <1>5, <1>6, <1>7, <1>8

\* A change of one row to one that looks the same to waiting and reaping.
LEMMA RowChange ==
  ASSUME TreeType, NEW p \in ProcessIds, Exists(p), NEW row \in Blocks, Same(procs[p], row),
         NEW t, t = [procs EXCEPT ![p] = row]
  PROVE  t \in Tables /\ Alike(procs, t)
<1>1. \A q \in ProcessIds : Same(procs[q], procs[q])
  BY DEF Same
<1> QED
  BY <1>1 DEF TreeType, Tables, Alike

\* The row of a process that exists.
LEMMA RowType ==
  ASSUME TreeType, NEW p \in ProcessIds, Exists(p)
  PROVE  procs[p] \in Blocks /\ procs[p] # Nil
BY DEF TreeType, Exists

\* The empty queue is a queue.
LEMMA NoSignalsType == NoSignals \in Queues
BY DEF NoSignals, Queues

\* exec, and the calls on handlers, masks and the signal being handled.
LEMMA ExecQuiet ==
  ASSUME TreeType, NEW p \in ProcessIds, replace_process_image(p)
  PROVE  Quiet
<1>1. Exists(p) /\ procs[p] \in Blocks /\ procs[p] # Nil
  BY RowType DEF replace_process_image, Call
<1> DEFINE row == [procs[p] EXCEPT !.pending = NoSignals, !.active = Nil]
<1>2. procs' = [procs EXCEPT ![p] = row]
  <2> DEFINE row1 == [procs[p] EXCEPT !.pending = NoSignals]
             mid == [procs EXCEPT ![p] = row1]
  <2>1. procs' = [mid EXCEPT ![p] = [mid[p] EXCEPT !.active = Nil]]
    BY DEF replace_process_image
  <2>2. mid[p] = row1
    BY DEF TreeType
  <2> HIDE DEF row1
  <2>3. procs' = [procs EXCEPT ![p] = [row1 EXCEPT !.active = Nil]]
    BY <2>1, <2>2, Zenon DEF TreeType
  <2> QED
    BY <2>3 DEF row1
<1>3. row \in Blocks /\ Same(procs[p], row)
  <2>1. row \in Blocks
    BY <1>1, NoSignalsType, Zenon DEF Blocks, Queues
  <2>2. row # Nil
    BY <2>1, TreeAssumption
  <2> QED
    BY <1>1, <2>1, <2>2 DEF Same, Blocks
<1> HIDE DEF row
<1> QED
  BY <1>1, <1>2, <1>3, RowChange, Zenon DEF Quiet, replace_process_image

\* rt_sigaction changes handlers only.
LEMMA ActionQuiet ==
  ASSUME TreeType, NEW p \in ProcessIds, NEW signal \in Signals, NEW handler \in BOOLEAN,
         syscall_rt_sigaction(p, signal, handler)
  PROVE  Quiet
<1>1. Exists(p) /\ procs[p] \in Blocks /\ procs[p] # Nil
  BY RowType DEF syscall_rt_sigaction, Call
<1> DEFINE handled == IF handler THEN procs[p].handled \cup {signal} ELSE procs[p].handled \ {signal}
           row == [procs[p] EXCEPT !.handled = handled]
<1>2. procs' = [procs EXCEPT ![p] = row]
  BY <1>1 DEF syscall_rt_sigaction, TreeType
<1>3. handled \in SUBSET AllSignals
  BY <1>1 DEF Blocks, AllSignals
<1> HIDE DEF handled
<1>4. row \in Blocks /\ Same(procs[p], row)
  <2>1. row \in Blocks
    BY <1>1, <1>3 DEF Blocks
  <2>2. row # Nil
    BY <2>1, TreeAssumption
  <2> QED
    BY <1>1, <2>1, <2>2 DEF Same, Blocks
<1> HIDE DEF row
<1> QED
  BY <1>1, <1>2, <1>4, RowChange, Zenon DEF Quiet, syscall_rt_sigaction

\* rt_sigprocmask changes the mask only.
LEMMA MaskQuiet ==
  ASSUME TreeType, NEW p \in ProcessIds, NEW how \in 0 .. 2, NEW set \in Masks,
         syscall_rt_sigprocmask(p, how, set)
  PROVE  Quiet
<1>1. Exists(p) /\ procs[p] \in Blocks /\ procs[p] # Nil
  BY RowType DEF syscall_rt_sigprocmask, Call
<1> DEFINE mask == CASE how = 0 -> procs[p].mask \cup set
                     [] how = 1 -> procs[p].mask \ set
                     [] OTHER -> set
           row == [procs[p] EXCEPT !.mask = mask]
<1>2. procs' = [procs EXCEPT ![p] = row]
  BY <1>1 DEF syscall_rt_sigprocmask, TreeType
<1>3. mask \in SUBSET AllSignals
  <2>1. procs[p].mask \in SUBSET AllSignals /\ set \in SUBSET AllSignals
    BY <1>1, TreeAssumption DEF Blocks, AllSignals
  <2> QED
    BY <2>1
<1> HIDE DEF mask
<1>4. row \in Blocks /\ Same(procs[p], row)
  <2>1. row \in Blocks
    BY <1>1, <1>3 DEF Blocks
  <2>2. row # Nil
    BY <2>1, TreeAssumption
  <2> QED
    BY <1>1, <2>1, <2>2 DEF Same, Blocks
<1> HIDE DEF row
<1> QED
  BY <1>1, <1>2, <1>4, RowChange, Zenon DEF Quiet, syscall_rt_sigprocmask

\* rt_sigreturn changes the signal being handled only.
LEMMA ReturnQuiet ==
  ASSUME TreeType, NEW p \in ProcessIds, syscall_rt_sigreturn(p)
  PROVE  Quiet
<1>1. Exists(p) /\ procs[p] \in Blocks /\ procs[p] # Nil
  BY RowType DEF syscall_rt_sigreturn, Call
<1> DEFINE row == [procs[p] EXCEPT !.active = Nil]
<1>2. procs' = [procs EXCEPT ![p] = row]
  BY <1>1 DEF syscall_rt_sigreturn, TreeType
<1>3. row \in Blocks /\ Same(procs[p], row)
  <2>1. row \in Blocks
    BY <1>1 DEF Blocks
  <2>2. row # Nil
    BY <2>1, TreeAssumption
  <2> QED
    BY <1>1, <2>1, <2>2 DEF Same, Blocks
<1> HIDE DEF row
<1> QED
  BY <1>1, <1>2, <1>3, RowChange, Zenon DEF Quiet, syscall_rt_sigreturn

\* kill: pending signals of one process, or of all it reaches.
LEMMA KillQuiet ==
  ASSUME TreeType, NEW p \in ProcessIds, NEW sel \in Selectors, NEW signal \in Signals,
         syscall_kill(p, sel, signal)
  PROVE  Quiet
<1>0. signal \in AllSignals /\ procs \in Tables
  BY DEF AllSignals, TreeType, Tables
<1>1. CASE sel > 0
  <2>1. sel \in ProcessIds \cup {Nil}
    BY <1>1, TreeAssumption DEF Selectors
  <2> QED
    BY <1>0, <1>1, <2>1, QueueType, Zenon DEF syscall_kill, Quiet
<1>2. CASE ~(sel > 0)
  <2> DEFINE reached == {q \in ProcessIds : Alive(q) /\ (sel = 0 \/ procs[q].pgid = -sel)}
             row(q) == [procs[q] EXCEPT !.pending = push(@, signal)]
  <2>1. procs' = [q \in ProcessIds |-> IF q \in reached THEN row(q) ELSE procs[q]]
    BY <1>2 DEF syscall_kill
  <2>2. ASSUME NEW q \in reached PROVE row(q) \in Blocks /\ Same(procs[q], row(q))
    <3>1. procs[q] \in Blocks /\ procs[q] # Nil
      BY <2>2, RowType DEF Alive
    <3>2. push(procs[q].pending, signal) \in Queues
      BY <3>1, <1>0, PushType DEF Blocks, Queues
    <3> QED
      BY <3>1, <3>2, TreeAssumption, ZenonT(30) DEF Blocks, Queues, Same
  <2>3. \A q \in ProcessIds : Same(procs[q], procs[q])
    BY DEF Same
  <2> HIDE DEF reached, row
  <2>4. procs' \in Tables /\ Alike(procs, procs')
    BY <2>1, <2>2, <2>3, <1>0 DEF Tables, Alike
  <2> QED
    BY <2>4 DEF syscall_kill, Quiet
<1> QED
  BY <1>1, <1>2

-----------------------------------------------------------------------------
(* Timer calls.                                                              *)

\* What does not look at timers is kept by a step that changes only them.
LEMMA OnlyTimers ==
  ASSUME Kept, timers' \in [1 .. TIMER_CAP -> Timers \cup {Nil}], next_timer_id' \in Nat,
         UNCHANGED <<procs, next_pid, sleeps, now, status_of, answers, deserted>>,
         Owned', Periodic'
  PROVE  Kept'
<1> USE DEF Kept
<1>1. TreeType'
  BY DEF TreeType
<1>2. \A q \in ProcessIds : (Exists(q)' <=> Exists(q)) /\ (Alive(q)' <=> Alive(q))
  BY DEF Exists, Alive
<1>3. Numbered' /\ Ended' /\ Reaped' /\ ReportedOnce'
  BY DEF Numbered, Ended, Reaped, ReportedOnce, Exists
<1>4. SleepersAlive' /\ BlockedHasWaker'
  BY DEF SleepersAlive, BlockedHasWaker, Alive, Exists
<1> QED
  BY <1>1, <1>3, <1>4

\* A number is free as long as numbers are handed out in order.
LEMMA NextNumber ==
  ASSUME TreeType, Owned, NEW p \in ProcessIds
  PROVE  allocate_timer_id(p) = next_timer_id
<1> DEFINE used == {timers[i].id : i \in {j \in DOMAIN timers :
                                          timers[j] # Nil /\ timers[j].owner = p}}
           free == {n \in next_timer_id .. next_timer_id + TIMER_CAP : n \notin used}
<1>1. next_timer_id \in Nat /\ TIMER_CAP \in Nat /\ DOMAIN timers = 1 .. TIMER_CAP
  BY TreeAssumption DEF TreeType
<1>2. \A i \in 1 .. TIMER_CAP : timers[i] # Nil => timers[i].id # next_timer_id
  BY <1>1, SMTT(30) DEF Owned, TreeType, Timers
<1>3. next_timer_id \notin used
  BY <1>1, <1>2
<1> HIDE DEF used
<1>4. next_timer_id \in free /\ free \in SUBSET Nat /\ \A n \in free : n >= next_timer_id
  BY <1>1, <1>3
<1>5. allocate_timer_id(p) = First(free)
  BY DEF allocate_timer_id, used
<1> HIDE DEF free
<1>6. First(free) \in free /\ First(free) <= next_timer_id
  BY <1>4, FirstIs
<1>7. First(free) \in Nat /\ First(free) >= next_timer_id
  BY <1>4, <1>6, Zenon
<1> QED
  BY <1>1, <1>5, <1>6, <1>7

\* timer_create: the new timer is disarmed and has a number of its own.
LEMMA CreateTimerKeeps ==
  ASSUME Kept, NEW p \in ProcessIds, create_timer(p)
  PROVE  Kept'
<1> USE DEF Kept
<1> DEFINE at == First(Free(timers))
           new == [owner |-> p, id |-> next_timer_id, armed |-> FALSE, deadline |-> 0,
                   interval |-> 0, first |-> 0]
<1>1. at \in 1 .. TIMER_CAP /\ timers[at] = Nil
  <2>1. Free(timers) \in SUBSET Nat /\ Free(timers) # {}
    BY DEF create_timer, Free, TreeType
  <2> QED
    BY <2>1, FirstIs, Zenon DEF Free, TreeType
<1>2. timers' = [timers EXCEPT ![at] = new] /\ next_timer_id' = next_timer_id + 1
  BY NextNumber, Zenon DEF create_timer
<1>3. new \in Timers /\ new # Nil
  <2>1. new \in Timers
    BY DEF Timers, TreeType
  <2> QED
    BY <2>1, TreeAssumption, Zenon
<1>4. Alive(p)
  BY DEF create_timer, Call, Alive
<1>5. new.owner = p /\ new.id = next_timer_id /\ ~new.armed
  OBVIOUS
<1> HIDE DEF at, new
<1>6. timers' \in [1 .. TIMER_CAP -> Timers \cup {Nil}] /\ next_timer_id' \in Nat
  <2>1. timers \in [1 .. TIMER_CAP -> Timers \cup {Nil}] /\ next_timer_id \in Nat
    BY DEF TreeType
  <2>2. next_timer_id' \in Nat
    BY <1>2, <2>1
  <2>3. timers' \in [1 .. TIMER_CAP -> Timers \cup {Nil}]
    BY <1>1, <1>2, <1>3, <2>1
  <2> QED
    BY <2>2, <2>3
<1>7. UNCHANGED <<procs, next_pid, sleeps, now, status_of, answers, deserted>>
  BY DEF create_timer
<1>8. \A i \in 1 .. TIMER_CAP : timers'[i] = IF i = at THEN new ELSE timers[i]
  BY <1>1, <1>2 DEF TreeType
<1>9. Periodic'
  BY <1>5, <1>7, <1>8 DEF Periodic, OnPeriod
<1>10. Owned'
  <2>1. \A q : Alive(q)' <=> Alive(q)
    BY <1>7 DEF Alive, Exists
  <2>2. \A i \in 1 .. TIMER_CAP : timers[i] # Nil => timers[i].id \in Nat
    BY DEF TreeType, Timers
  <2> QED
    BY <1>2, <1>3, <1>4, <1>5, <1>8, <2>1, <2>2 DEF Owned, TreeType
<1> QED
  BY <1>6, <1>7, <1>9, <1>10, OnlyTimers

\* timer_settime: the first deadline starts the period anew.
LEMMA SetTimerKeeps ==
  ASSUME Kept, NEW p \in ProcessIds, NEW i \in DOMAIN timers, NEW t \in TimerSettings,
         set_timer(p, i, t.deadline, t.interval)
  PROVE  Kept'
<1> USE DEF Kept
<1>1. i \in 1 .. TIMER_CAP /\ timers[i] # Nil /\ timers[i] \in Timers
  BY DEF set_timer, Mine, TreeType
<1>2. t.deadline \in Nat /\ t.interval \in Nat
  BY TreeAssumption
<1> DEFINE new == [timers[i] EXCEPT !.armed = (t.deadline # 0), !.deadline = t.deadline,
                                    !.interval = t.interval, !.first = t.deadline]
<1>3. timers' = [timers EXCEPT ![i] = new]
  BY <1>1, Zenon DEF set_timer, TreeType
<1>4. new \in Timers /\ new # Nil
  <2>1. new \in Timers
    BY <1>1, <1>2, Zenon DEF Timers
  <2> QED
    BY <2>1, TreeAssumption
<1>5. new.owner = timers[i].owner /\ new.id = timers[i].id /\ new.deadline = new.first
      /\ new.first \in Nat /\ new.interval \in Nat
  BY <1>1, <1>2 DEF Timers
<1> HIDE DEF new
<1>6. timers' \in [1 .. TIMER_CAP -> Timers \cup {Nil}] /\ next_timer_id' \in Nat
  BY <1>3, <1>4 DEF TreeType, set_timer
<1>7. UNCHANGED <<procs, next_pid, sleeps, now, status_of, answers, deserted>> /\ next_timer_id' = next_timer_id
  BY DEF set_timer
<1>8. \A j \in 1 .. TIMER_CAP : timers'[j] = IF i = j THEN new ELSE timers[j]
  BY <1>1, <1>3 DEF TreeType
<1>9. Periodic'
  <2>1. new.deadline = new.first + new.interval * 0
    BY <1>5
  <2>2. (\E k \in Nat : new.deadline = new.first + new.interval * k) /\ new.deadline = new.first
    BY <2>1, <1>5
  <2>3. ASSUME NEW j \in 1 .. TIMER_CAP, timers'[j] # Nil PROVE OnPeriod(timers[j])'
    <3>1. CASE i = j
      BY <3>1, <1>8, <2>2 DEF OnPeriod
    <3>2. CASE i # j
      BY <3>2, <1>7, <1>8, <2>3 DEF Periodic, OnPeriod
    <3> QED
      BY <3>1, <3>2
  <2> QED
    BY <2>3 DEF Periodic
<1>10. Owned'
  <2>1. \A q : Alive(q)' <=> Alive(q)
    BY <1>7 DEF Alive, Exists
  <2> QED
    BY <1>1, <1>4, <1>5, <1>7, <1>8, <2>1 DEF Owned
<1> QED
  BY <1>6, <1>7, <1>9, <1>10, OnlyTimers

\* timer_delete takes one timer away.
LEMMA DeleteTimerKeeps ==
  ASSUME Kept, NEW p \in ProcessIds, NEW i \in DOMAIN timers, delete_timer(p, i)
  PROVE  Kept'
<1> USE DEF Kept
<1>1. timers' \in [1 .. TIMER_CAP -> Timers \cup {Nil}] /\ next_timer_id' \in Nat
  BY DEF delete_timer, TreeType
<1>2. \A j \in 1 .. TIMER_CAP : timers'[j] # Nil => timers'[j] = timers[j]
  BY DEF delete_timer, TreeType
<1>3. UNCHANGED <<procs, next_pid, sleeps, next_timer_id, now, status_of, answers, deserted>>
  BY SMTT(30) DEF delete_timer
<1>4. Periodic'
  BY <1>2, <1>3 DEF Periodic, OnPeriod
<1>5. Owned'
  BY <1>2, <1>3 DEF Owned, Alive, Exists
<1> QED
  BY <1>1, <1>3, <1>4, <1>5, OnlyTimers

-----------------------------------------------------------------------------
(* New processes, and sleeping.                                              *)

\* Timers are kept as long as nobody who has one ends.
LEMMA TimersStay ==
  ASSUME Kept, UNCHANGED <<timers, next_timer_id, now>>,
         \A q \in ProcessIds : Alive(q) => Alive(q)'
  PROVE  Owned' /\ Periodic'
<1>1. \A i \in 1 .. TIMER_CAP : timers[i] # Nil => timers[i].owner \in ProcessIds
  BY DEF Kept, TreeType, Timers
<1>2. Owned'
  BY <1>1 DEF Kept, Owned
<1>3. Periodic'
  BY DEF Kept, Periodic, OnPeriod
<1> QED
  BY <1>2, <1>3

\* What was reported stays so as long as no pid that was reported is handed out again.
LEMMA ReportsStay ==
  ASSUME Kept, UNCHANGED <<answers, status_of>>, next_pid' \in Nat, next_pid <= next_pid',
         \A q \in ProcessIds : procs[q] = Nil /\ q < next_pid => procs'[q] = Nil
  PROVE  Reaped' /\ ReportedOnce'
<1>1. \A i \in 1 .. Len(answers) : answers[i] \in Reports
  BY DEF Kept, TreeType
<1>2. \A i \in 1 .. Len(answers) : answers[i].pid \in ProcessIds /\ answers[i].pid \in Nat
  BY <1>1, TreeAssumption, Zenon DEF Reports
<1>3. Reaped'
  BY <1>2 DEF Kept, Reaped, TreeType
<1>4. ReportedOnce'
  BY DEF Kept, ReportedOnce
<1> QED
  BY <1>3, <1>4

\* fork, spawn and clone: the new pid was nobody's.
LEMMA CreateProcessKeeps ==
  ASSUME Kept, NEW p \in ProcessIds, NEW kind \in {"fork", "clone", "clone_sighand"},
         create_process(p, kind)
  PROVE  Kept'
<1> USE DEF Kept
<1> DEFINE mask == IF kind = "fork" THEN {} ELSE procs[p].mask
           handlers == IF kind = "clone" THEN {} ELSE procs[p].handled
           new == NewPcb(p, procs[p].pgid, procs[p].sid, handlers, mask)
<1>1. procs[p] \in Blocks /\ next_pid \in ProcessIds /\ next_pid \in Nat
  BY RowType, TreeAssumption DEF create_process, Call
<1>2. mask \in SUBSET AllSignals /\ handlers \in SUBSET AllSignals
  BY <1>1 DEF Blocks
<1>3. procs' = [procs EXCEPT ![next_pid] = new] /\ next_pid' = next_pid + 1
  BY DEF create_process
<1> HIDE DEF mask, handlers
<1>4. new \in Blocks
  BY <1>1, <1>2, NoSignalsType DEF NewPcb, Blocks, Queues
<1>5. new # Nil /\ new.state = "Ready"
  BY <1>4, TreeAssumption DEF NewPcb
<1> HIDE DEF new
<1>6. procs[next_pid] = Nil
  BY <1>1 DEF Numbered, Exists
<1>7. \A q \in ProcessIds : procs'[q] = IF q = next_pid THEN new ELSE procs[q]
  BY <1>3 DEF TreeType
<1>8. UNCHANGED <<sleeps, timers, next_timer_id, now, status_of, answers, deserted>>
  BY DEF create_process
<1>9. TreeType'
  <2>1. procs' \in [ProcessIds -> Blocks \cup {Nil}]
    BY <1>1, <1>3, <1>4 DEF TreeType
  <2> QED
    BY <1>1, <1>3, <1>8, <2>1 DEF TreeType
<1>10. \A q \in ProcessIds : Alive(q) => Alive(q)'
  BY <1>6, <1>7 DEF Alive, Exists
<1>11. Owned' /\ Periodic'
  BY <1>8, <1>10, TimersStay
<1>12. Reaped' /\ ReportedOnce'
  BY <1>1, <1>3, <1>7, <1>8, ReportsStay
<1>13. Numbered'
  BY <1>1, <1>3, <1>7, TreeAssumption DEF Numbered, Exists
<1>14. Ended'
  BY <1>5, <1>7, <1>8 DEF Ended, Exists
<1>15. SleepersAlive'
  <2>1. \A i \in 1 .. SLEEP_CAP : sleeps[i] # Nil => sleeps[i].process \in ProcessIds
    BY DEF TreeType, Sleeps
  <2> QED
    BY <1>8, <1>10, <2>1 DEF SleepersAlive
<1>16. BlockedHasWaker'
  <2>1. \A q \in ProcessIds : Exists(q)' /\ procs'[q].state = "Blocked" =>
           q # next_pid /\ Exists(q) /\ procs[q].state = "Blocked"
    BY <1>5, <1>7 DEF Exists
  <2>2. \A c \in ProcessIds : Alive(c) => procs'[c] = procs[c] /\ Alive(c)'
    BY <1>6, <1>7, <1>10 DEF Alive, Exists
  <2> QED
    BY <1>7, <1>8, <2>1, <2>2 DEF BlockedHasWaker
<1> QED
  BY <1>9, <1>11, <1>12, <1>13, <1>14, <1>15, <1>16, SMTT(30)

\* nanosleep: the sleep recorded is what will ready the caller.
LEMMA NanosleepKeeps ==
  ASSUME Kept, NEW p \in ProcessIds, NEW d \in Durations, syscall_nanosleep(p, d)
  PROVE  Kept'
<1> USE DEF Kept
<1> DEFINE at == First(Free(sleeps))
           new == [process |-> p, deadline |-> now + d]
           row == [procs[p] EXCEPT !.state = "Blocked"]
<1>1. at \in 1 .. SLEEP_CAP /\ sleeps[at] = Nil
  <2>1. Free(sleeps) \in SUBSET Nat /\ Free(sleeps) # {}
    BY DEF syscall_nanosleep, Free, TreeType
  <2> QED
    BY <2>1, FirstIs, Zenon DEF Free, TreeType
<1>2. procs[p] \in Blocks /\ procs[p] # Nil /\ procs[p].state = "Ready"
  BY RowType DEF syscall_nanosleep, Call
<1>3. sleeps' = [sleeps EXCEPT ![at] = new] /\ procs' = [procs EXCEPT ![p] = row]
  BY DEF syscall_nanosleep
<1>4. new \in Sleeps /\ new.process = p
  BY TreeAssumption DEF Sleeps, TreeType
<1>5. new # Nil
  BY <1>4, TreeAssumption
<1>6. row \in Blocks
  BY <1>2 DEF Blocks
<1>7. row # Nil /\ row.state = "Blocked" /\ row.parent = procs[p].parent /\ row.pgid = procs[p].pgid
  <2>1. row # Nil
    BY <1>6, TreeAssumption
  <2> QED
    BY <1>2, <2>1 DEF Blocks
<1> HIDE DEF at, new, row
<1>8. \A q \in ProcessIds : procs'[q] = IF q = p THEN row ELSE procs[q]
  BY <1>3 DEF TreeType
<1>9. \A i \in 1 .. SLEEP_CAP : sleeps'[i] = IF i = at THEN new ELSE sleeps[i]
  BY <1>1, <1>3 DEF TreeType
<1>10. UNCHANGED <<next_pid, timers, next_timer_id, now, status_of, answers, deserted>>
  BY DEF syscall_nanosleep
<1>11. TreeType'
  <2>1. procs' \in [ProcessIds -> Blocks \cup {Nil}]
    BY <1>3, <1>6 DEF TreeType
  <2>2. sleeps' \in [1 .. SLEEP_CAP -> Sleeps \cup {Nil}]
    BY <1>1, <1>3, <1>4, SMTT(30) DEF TreeType
  <2> QED
    BY <1>10, <2>1, <2>2 DEF TreeType
<1>12. \A q \in ProcessIds : Alive(q)' <=> Alive(q)
  BY <1>2, <1>7, <1>8 DEF Alive, Exists
<1>13. Owned' /\ Periodic'
  BY <1>10, <1>12, TimersStay, Zenon
<1>14. Reaped' /\ ReportedOnce'
  <2>1. next_pid \in Nat
    BY SMTT(30) DEF TreeType
  <2> QED
    BY <1>2, <1>8, <1>10, <2>1, ReportsStay
<1>15. Numbered' /\ Ended'
  BY <1>2, <1>7, <1>8, <1>10, Zenon DEF Numbered, Ended, Exists
<1>16. SleepersAlive'
  <2>1. \A i \in 1 .. SLEEP_CAP : sleeps[i] # Nil => sleeps[i].process \in ProcessIds
    BY DEF TreeType, Sleeps
  <2>2. Alive(p)
    BY <1>2, Zenon DEF Alive, Exists
  <2> QED
    BY <1>4, <1>9, <1>12, <2>1, <2>2 DEF SleepersAlive
<1>17. BlockedHasWaker'
  <2>0. DOMAIN sleeps = 1 .. SLEEP_CAP /\ DOMAIN sleeps' = 1 .. SLEEP_CAP
    BY <1>11, SMTT(30) DEF TreeType
  <2>1. \A c \in ProcessIds : Alive(c) => /\ Alive(c)' /\ procs'[c].parent = procs[c].parent
                                          /\ procs'[c].pgid = procs[c].pgid
    BY <1>7, <1>8, <1>12, Zenon
  <2>2. \A i \in 1 .. SLEEP_CAP : sleeps[i] # Nil => sleeps'[i] = sleeps[i]
    BY <1>1, <1>9
  <2>3. sleeps'[at] # Nil /\ sleeps'[at].process = p
    BY <1>1, <1>4, <1>5, <1>9
  <2>4. \A q \in ProcessIds : Exists(q)' /\ q # p => Exists(q) /\ procs'[q] = procs[q]
    BY <1>8 DEF Exists
  <2> QED
    BY <1>1, <1>10, <2>0, <2>1, <2>2, <2>3, <2>4 DEF BlockedHasWaker
<1> QED
  BY <1>11, <1>13, <1>14, <1>15, <1>16, <1>17

-----------------------------------------------------------------------------
(* The clock.                                                                *)

\* The next multiple of a period.
LEMMA NextMultiple ==
  ASSUME NEW a \in Nat, NEW i \in Nat, i > 0
  PROVE  a \div i \in Nat /\ i * (a \div i + 1) \in Nat /\ i * (a \div i + 1) > a
<1>1. a \div i \in Nat
  BY SMTT(30)
<1>2. i * ((a \div i) + 1) > a
  BY SMTT(30)
<1> DEFINE q == a \div i
<1> HIDE DEF q
<1>3. q \in Nat => i * (q + 1) \in Nat
  BY SMTT(30)
<1> QED
  BY <1>1, <1>2, <1>3 DEF q

\* Periods add up.
LEMMA Distributes ==
  ASSUME NEW f \in Nat, NEW i \in Nat, NEW k \in Nat, NEW m \in Nat
  PROVE  (f + i * k) + i * m = f + i * (k + m)
BY SMTT(30)

\* A whole number of periods leaves no remainder.
LEMMA WholePeriods ==
  ASSUME NEW f \in Nat, NEW i \in Nat, NEW k \in Nat, i > 0
  PROVE  ((f + i * k) - f) % i = 0
<1>1. (f + i * k) - f = i * k
  BY SMTT(30)
<1>2. (i * k) % i = 0
  BY SMTT(30)
<1> QED
  BY <1>1, <1>2

\* A timer that rings is next due on its period and ahead of the clock.
LEMMA RingsOnPeriod ==
  ASSUME NEW t \in Timers, now' \in Nat, Due(t), OnPeriod(t)
  PROVE  /\ expired(t) \in Timers /\ expired(t).owner = t.owner /\ expired(t).id = t.id
         /\ expired(t).armed /\ expired(t).interval > 0 =>
              /\ \E k \in Nat : expired(t).deadline = expired(t).first + expired(t).interval * k
              /\ expired(t).deadline > now'
<1>1. t.deadline \in Nat /\ t.interval \in Nat /\ t.first \in Nat /\ t.armed /\ t.deadline <= now'
  BY DEF Timers, Due
<1>2. CASE t.interval > 0
  <2> DEFINE a == now' - t.deadline
             m == a \div t.interval + 1
             d == t.deadline + t.interval * m
  <2>1. a \in Nat
    BY <1>1
  <2>2. m \in Nat /\ t.interval * m \in Nat /\ t.interval * m > a
    BY <1>1, <1>2, <2>1, NextMultiple, SMTT(30)
  <2>3. expired(t) = [t EXCEPT !.deadline = d]
    BY <1>2 DEF expired, next_period
  <2>4. PICK k \in Nat : t.deadline = t.first + t.interval * k
    BY <1>1, <1>2 DEF OnPeriod
  <2> HIDE DEF m
  <2>5. d = t.first + t.interval * (k + m) /\ k + m \in Nat
    BY <1>1, <2>2, <2>4, Distributes
  <2>6. d \in Nat /\ d > now'
    BY <1>1, <2>2
  <2> HIDE DEF d, a
  <2>7. /\ expired(t) \in Timers /\ expired(t).owner = t.owner /\ expired(t).id = t.id
        /\ expired(t).deadline = d /\ expired(t).first = t.first
        /\ expired(t).interval = t.interval
    BY <2>3, <2>6 DEF Timers
  <2>8. \E n \in Nat : d = t.first + t.interval * n
    BY <2>5, Zenon
  <2>9. \E n \in Nat : expired(t).deadline = expired(t).first + expired(t).interval * n
    BY <2>7, <2>8
  <2>10. expired(t).deadline > now'
    BY <2>6, <2>7, SMTT(30)
  <2> QED
    BY <2>7, <2>9, <2>10
<1>3. CASE ~(t.interval > 0)
  <2> DEFINE off == [t EXCEPT !.armed = FALSE]
  <2>1. expired(t) = [off EXCEPT !.deadline = 0]
    BY <1>3 DEF expired
  <2>2. off \in Timers
    BY Zenon DEF Timers
  <2>3. off.owner = t.owner /\ off.id = t.id
    BY DEF Timers
  <2>4. off.armed = FALSE
    BY DEF Timers
  <2> HIDE DEF off
  <2>5. expired(t) \in Timers /\ expired(t).owner = off.owner /\ expired(t).id = off.id
    BY <2>1, <2>2 DEF Timers
  <2>6. expired(t).armed = off.armed
    BY <2>1, <2>2 DEF Timers
  <2> QED
    BY <2>3, <2>4, <2>5, <2>6
<1> QED
  BY <1>2, <1>3

\* A tick readies whoever loses a sleep, so those still blocked have theirs.
LEMMA TickKeeps ==
  ASSUME Kept, tick
  PROVE  Kept'
<1> USE DEF Kept
<1> DEFINE slept == {i \in DOMAIN sleeps : sleeps[i] # Nil /\ sleeps[i].deadline <= now'}
           rung == {i \in DOMAIN timers : Due(timers[i])}
           woken == {sleeps[i].process : i \in slept} \cup {timers[i].owner : i \in rung}
           row(p) == [procs[p] EXCEPT !.state = "Ready"]
<1>1. now' \in Nat /\ now' > now
  BY TreeAssumption DEF tick, TreeType
<1>2. DOMAIN sleeps = 1 .. SLEEP_CAP /\ DOMAIN timers = 1 .. TIMER_CAP
  BY DEF TreeType
<1>3. sleeps' = [i \in 1 .. SLEEP_CAP |-> IF i \in slept THEN Nil ELSE sleeps[i]]
  BY <1>2 DEF tick
<1>4. timers' = [i \in 1 .. TIMER_CAP |-> IF i \in rung THEN expired(timers[i]) ELSE timers[i]]
  BY <1>2 DEF tick
<1>5. procs' = [p \in ProcessIds |-> IF p \in woken /\ Exists(p) /\ procs[p].state = "Blocked"
                                     THEN row(p) ELSE procs[p]]
  BY DEF tick
<1>6. UNCHANGED <<next_pid, next_timer_id, status_of, answers, deserted>>
  BY DEF tick
<1>7. ASSUME NEW p \in ProcessIds, Exists(p), procs[p].state = "Blocked"
      PROVE  /\ row(p) \in Blocks /\ row(p) # Nil /\ row(p).state = "Ready"
             /\ row(p).parent = procs[p].parent /\ row(p).pgid = procs[p].pgid
  <2>1. procs[p] \in Blocks
    BY <1>7, RowType
  <2>2. row(p) \in Blocks
    BY <2>1 DEF Blocks
  <2> QED
    BY <2>1, <2>2, TreeAssumption, Zenon DEF Blocks
<1> HIDE DEF row
<1>8. \A i \in 1 .. SLEEP_CAP : sleeps[i] # Nil /\ sleeps[i].process \notin woken => i \notin slept
  BY <1>2
<1>9. \A i \in rung : /\ i \in 1 .. TIMER_CAP /\ timers[i] # Nil /\ timers[i] \in Timers
                      /\ Due(timers[i]) /\ OnPeriod(timers[i])
  BY <1>2, Zenon DEF Periodic, Due, TreeType
<1>10. ASSUME NEW i \in rung
       PROVE  /\ expired(timers[i]) \in Timers /\ expired(timers[i]).owner = timers[i].owner
              /\ expired(timers[i]).id = timers[i].id
              /\ expired(timers[i]).armed /\ expired(timers[i]).interval > 0 =>
                   /\ \E k \in Nat : expired(timers[i]).deadline =
                                       expired(timers[i]).first + expired(timers[i]).interval * k
                   /\ expired(timers[i]).deadline > now'
  BY <1>1, <1>9, RingsOnPeriod, Zenon
<1>11. \A i \in 1 .. TIMER_CAP \ rung : timers[i] # Nil /\ timers[i].armed => timers[i].deadline > now'
  BY <1>1, <1>2, SMTT(30) DEF Due, TreeType, Timers
<1> HIDE DEF slept, rung, woken
<1>12. \A p \in ProcessIds : /\ (procs'[p] = Nil <=> procs[p] = Nil)
                             /\ (procs[p] # Nil => /\ procs'[p].parent = procs[p].parent
                                                   /\ procs'[p].pgid = procs[p].pgid)
  BY <1>5, <1>7 DEF Exists
<1>13. \A p \in ProcessIds : Alive(p)' <=> Alive(p)
  BY <1>5, <1>7 DEF Exists, Alive
<1>14. TreeType'
  <2>1. procs' \in [ProcessIds -> Blocks \cup {Nil}]
    BY <1>5, <1>7 DEF TreeType
  <2>2. sleeps' \in [1 .. SLEEP_CAP -> Sleeps \cup {Nil}]
    BY <1>3 DEF TreeType
  <2>3. timers' \in [1 .. TIMER_CAP -> Timers \cup {Nil}]
    BY <1>4, <1>10 DEF TreeType
  <2> QED
    BY <1>1, <1>6, <2>1, <2>2, <2>3 DEF TreeType
<1>15. Reaped' /\ ReportedOnce'
  <2>1. next_pid \in Nat
    BY SMTT(30) DEF TreeType
  <2> QED
    BY <1>6, <1>12, <2>1, ReportsStay
<1>16. Numbered' /\ Ended'
  BY <1>5, <1>6, <1>7, <1>12 DEF Numbered, Ended, Exists
<1>17. SleepersAlive'
  <2>1. \A i \in 1 .. SLEEP_CAP : sleeps[i] # Nil => sleeps[i].process \in ProcessIds
    BY SMTT(30) DEF TreeType, Sleeps
  <2> QED
    BY <1>3, <1>13, <2>1 DEF SleepersAlive
<1>18. BlockedHasWaker'
  <2>0. DOMAIN sleeps' = 1 .. SLEEP_CAP
    BY <1>14 DEF TreeType
  <2>1. \A q \in ProcessIds : Exists(q)' /\ procs'[q].state = "Blocked" =>
           Exists(q) /\ procs[q].state = "Blocked" /\ q \notin woken /\ procs'[q] = procs[q]
    BY <1>5, <1>7, <1>12 DEF Exists
  <2>2. \A c \in ProcessIds : Alive(c) => /\ Alive(c)' /\ procs'[c].parent = procs[c].parent
                                          /\ procs'[c].pgid = procs[c].pgid
    BY <1>12, <1>13 DEF Alive, Exists
  <2>3. \A i \in 1 .. SLEEP_CAP : sleeps[i] # Nil /\ sleeps[i].process \notin woken =>
           sleeps'[i] = sleeps[i]
    BY <1>3, <1>8, SMTT(30)
  <2> QED
    BY <1>2, <1>6, <2>0, <2>1, <2>2, <2>3 DEF BlockedHasWaker
<1>19. \A i \in 1 .. TIMER_CAP : timers'[i] # Nil =>
          /\ timers[i] # Nil /\ timers'[i].owner = timers[i].owner /\ timers'[i].id = timers[i].id
  BY <1>4, <1>9, <1>10
<1>20. Owned'
  <2>1. \A i \in 1 .. TIMER_CAP : timers[i] # Nil => timers[i].owner \in ProcessIds
    BY DEF TreeType, Timers
  <2> QED
    BY <1>6, <1>13, <1>19, <2>1 DEF Owned
<1>21. Periodic'
  <2> SUFFICES ASSUME NEW i \in 1 .. TIMER_CAP, timers'[i] # Nil PROVE OnPeriod(timers[i])'
    BY DEF Periodic
  <2>1. CASE i \in rung
    BY <1>4, <1>10, <2>1, SMTT(30) DEF OnPeriod
  <2>2. CASE i \notin rung
    BY <1>4, <1>11, <2>2 DEF OnPeriod, Periodic
  <2> QED
    BY <2>1, <2>2
<1> QED
  BY <1>14, <1>15, <1>16, <1>17, <1>18, <1>20, <1>21

-----------------------------------------------------------------------------
(* Groups.                                                                   *)

\* A child that leaves the group its parent waits for is what deserted records.
LEMMA RegroupKeeps ==
  ASSUME Kept, NEW target \in ProcessIds, Exists(target), NEW pgid \in ProcessIds,
         NEW sid \in ProcessIds, Regroup(target, pgid, sid),
         UNCHANGED <<next_pid, sleeps, timers, next_timer_id, now, status_of, answers>>
  PROVE  Kept'
<1> USE DEF Kept
<1>1. procs[target] \in Blocks /\ procs[target] # Nil
  BY RowType
<1> DEFINE row == [procs[target] EXCEPT !.pgid = pgid, !.sid = sid]
<1>2. procs' = [procs EXCEPT ![target] = row]
  <2> DEFINE row1 == [procs[target] EXCEPT !.pgid = pgid]
             mid == [procs EXCEPT ![target] = row1]
  <2>1. procs' = [mid EXCEPT ![target] = [mid[target] EXCEPT !.sid = sid]]
    BY DEF Regroup
  <2>2. mid[target] = row1
    BY DEF TreeType
  <2> HIDE DEF row1
  <2>3. procs' = [procs EXCEPT ![target] = [row1 EXCEPT !.sid = sid]]
    BY <2>1, <2>2, Zenon DEF TreeType
  <2> QED
    BY <2>3 DEF row1
<1>3. row \in Blocks
  BY <1>1, Zenon DEF Blocks
<1>4. row # Nil
  BY <1>3, TreeAssumption
<1>5. /\ row.parent = procs[target].parent /\ row.state = procs[target].state
      /\ row.status = procs[target].status /\ row.wait = procs[target].wait
  BY <1>1 DEF Blocks
<1> HIDE DEF row
<1>6. \A q \in ProcessIds : procs'[q] = IF q = target THEN row ELSE procs[q]
  BY <1>2 DEF TreeType
<1>7. TreeType'
  <2>1. procs' \in [ProcessIds -> Blocks \cup {Nil}]
    BY <1>2, <1>3 DEF TreeType
  <2> QED
    BY <2>1 DEF TreeType
<1>8. \A q \in ProcessIds : (Alive(q)' <=> Alive(q)) /\ (Exists(q)' <=> Exists(q))
  BY <1>1, <1>4, <1>5, <1>6 DEF Alive, Exists
<1>9. Owned' /\ Periodic'
  BY <1>8, TimersStay
<1>10. Reaped' /\ ReportedOnce'
  <2>1. next_pid \in Nat
    BY SMTT(30) DEF TreeType
  <2> QED
    BY <1>1, <1>6, <2>1, ReportsStay
<1>11. Numbered' /\ Ended'
  BY <1>1, <1>5, <1>6, <1>8 DEF Numbered, Ended
<1>12. SleepersAlive'
  <2>1. \A i \in 1 .. SLEEP_CAP : sleeps[i] # Nil => sleeps[i].process \in ProcessIds
    BY SMTT(30) DEF TreeType, Sleeps
  <2> QED
    BY <1>8, <2>1 DEF SleepersAlive
<1>13. BlockedHasWaker'
  <2> SUFFICES ASSUME NEW q \in ProcessIds, Exists(q)', procs'[q].state = "Blocked"
               PROVE  \/ \E i \in DOMAIN sleeps : sleeps[i] # Nil /\ sleeps[i].process = q
                      \/ /\ procs'[q].wait # Nil
                         /\ \/ q \in deserted'
                            \/ \E c \in ProcessIds : /\ Alive(c)' /\ procs'[c].parent = q
                                                   /\ matches(procs'[q].wait, c, procs'[c].pgid)
    BY Zenon DEF BlockedHasWaker
  <2>1. Exists(q) /\ procs[q].state = "Blocked" /\ procs'[q].wait = procs[q].wait
    BY <1>5, <1>6, <1>8, Zenon
  <2>2. deserted \subseteq deserted'
    BY DEF Regroup
  <2>3. CASE \E c \in ProcessIds : Alive(c) /\ procs[c].parent = q /\ matches(procs[q].wait, c, procs[c].pgid)
    <3>1. PICK c \in ProcessIds : Alive(c) /\ procs[c].parent = q /\ matches(procs[q].wait, c, procs[c].pgid)
      BY <2>3, Zenon
    <3>2. Alive(c)' /\ procs'[c].parent = q
      BY <1>5, <1>6, <1>8, <3>1, Zenon
    <3>3. CASE c # target
      BY <1>6, <2>1, <3>1, <3>2, <3>3, Zenon DEF BlockedHasWaker
    <3>4. CASE c = target /\ procs[q].wait # Nil /\ procs[q].wait.kind = "Group" /\ procs[q].wait.id = procs[target].pgid
      <4>1. q # Nil
        BY TreeAssumption, Zenon
      <4>2. q \in deserted'
        BY <2>1, <3>1, <3>4, <4>1 DEF Regroup
      <4> QED
        BY <2>1, <3>4, <4>2
    <3>5. CASE c = target /\ ~(procs[q].wait.kind = "Group" /\ procs[q].wait.id = procs[target].pgid)
      <4>1. matches(procs'[q].wait, c, procs'[c].pgid)
        BY <2>1, <3>1, <3>5, Zenon DEF matches
      <4> QED
        BY <2>1, <3>2, <4>1, Zenon DEF BlockedHasWaker
    <3> QED
      BY <2>1, <3>3, <3>4, <3>5, Zenon DEF BlockedHasWaker
  <2> QED
    BY <2>1, <2>2, <2>3, ZenonT(30) DEF BlockedHasWaker
<1> QED
  BY <1>7, <1>9, <1>10, <1>11, <1>12, <1>13

-----------------------------------------------------------------------------
(* Waiting.                                                                  *)

\* release_process takes the sleeps and timers of one process and no others.
LEMMA ReleaseKeeps ==
  ASSUME Kept, NEW p \in ProcessIds, sleeps' = release_sleeps(p), timers' = release_timers(p),
         UNCHANGED <<next_timer_id, now>>,
         \A q \in ProcessIds : Alive(q) /\ q # p => Alive(q)'
  PROVE  /\ SleepersAlive' /\ Owned' /\ Periodic'
         /\ sleeps' \in [1 .. SLEEP_CAP -> Sleeps \cup {Nil}]
         /\ timers' \in [1 .. TIMER_CAP -> Timers \cup {Nil}]
         /\ \A i \in 1 .. SLEEP_CAP : sleeps[i] # Nil /\ sleeps[i].process # p => sleeps'[i] = sleeps[i]
<1> USE DEF Kept
<1>1. sleeps' = [i \in 1 .. SLEEP_CAP |-> IF sleeps[i] # Nil /\ sleeps[i].process = p
                                          THEN Nil ELSE sleeps[i]]
  BY DEF release_sleeps, TreeType
<1>2. timers' = [i \in 1 .. TIMER_CAP |-> IF timers[i] # Nil /\ timers[i].owner = p
                                          THEN Nil ELSE timers[i]]
  BY SMTT(30) DEF release_timers, TreeType
<1>3. \A i \in 1 .. SLEEP_CAP : sleeps[i] # Nil => sleeps[i].process \in ProcessIds
  BY SMTT(30) DEF TreeType, Sleeps
<1>4. \A i \in 1 .. TIMER_CAP : timers[i] # Nil => timers[i].owner \in ProcessIds
  BY DEF TreeType, Timers
<1>5. sleeps' \in [1 .. SLEEP_CAP -> Sleeps \cup {Nil}]
  BY <1>1, SMTT(30) DEF TreeType
<1>6. timers' \in [1 .. TIMER_CAP -> Timers \cup {Nil}]
  BY <1>2 DEF TreeType
<1>7. SleepersAlive'
  BY <1>1, <1>3 DEF SleepersAlive
<1>8. \A i \in 1 .. TIMER_CAP : timers'[i] # Nil => timers'[i] = timers[i] /\ timers[i].owner # p
  BY <1>2, SMTT(30)
<1>9. Owned'
  BY <1>4, <1>8, SMTT(30) DEF Owned
<1>10. Periodic'
  BY <1>8 DEF Periodic, OnPeriod
<1>11. \A i \in 1 .. SLEEP_CAP : sleeps[i] # Nil /\ sleeps[i].process # p => sleeps'[i] = sleeps[i]
  BY <1>1
<1> QED
  BY <1>5, <1>6, <1>7, <1>9, <1>10, <1>11

\* Selectors decode to waits.
LEMMA SelectorType ==
  ASSUME NEW sel \in Selectors, NEW pgid \in ProcessIds
  PROVE  decode_child_wait_selector(sel, pgid) \in Waits
<1>1. ProcessIds \subseteq Int
  BY TreeAssumption
<1>2. sel \in Int
  BY <1>1 DEF Selectors
<1> QED
  BY <1>1, <1>2 DEF decode_child_wait_selector, Waits

\* The caller found a zombie: its status is reported and it is gone.
LEMMA ReapKeeps ==
  ASSUME Kept, NEW p \in ProcessIds, Exists(p), procs[p].state = "Ready",
         NEW c \in ProcessIds, Exists(c), procs[c].state = "Zombie",
         procs' = [procs EXCEPT ![c] = Nil, ![p].wait = Nil],
         answers' = Append(answers, [parent |-> p, pid |-> c, status |-> procs[c].status]),
         sleeps' = release_sleeps(c), timers' = release_timers(c),
         UNCHANGED <<next_pid, next_timer_id, now, status_of, deserted>>
  PROVE  Kept'
<1> USE DEF Kept
<1>1. procs[p] \in Blocks /\ procs[p] # Nil /\ procs[c] \in Blocks /\ procs[c] # Nil /\ c # p
  BY RowType
<1> DEFINE row == [procs[p] EXCEPT !.wait = Nil]
           new == [parent |-> p, pid |-> c, status |-> procs[c].status]
<1>2. \A q \in ProcessIds : procs'[q] = IF q = c THEN Nil ELSE IF q = p THEN row ELSE procs[q]
  BY <1>1, Zenon DEF TreeType
<1>3. row \in Blocks
  BY <1>1, Zenon DEF Blocks
<1>4. row # Nil /\ row.state = "Ready" /\ row.parent = procs[p].parent /\ row.pgid = procs[p].pgid
  <2>1. row # Nil
    BY <1>3, TreeAssumption, Zenon
  <2> QED
    BY <1>1, <2>1 DEF Blocks
<1>5. DOMAIN procs' = ProcessIds
  BY DEF TreeType
<1>6. procs' \in [ProcessIds -> Blocks \cup {Nil}]
  <2>1. \A q \in ProcessIds : procs'[q] \in Blocks \cup {Nil}
    BY <1>2, <1>3, Zenon DEF TreeType
  <2>2. procs' = [q \in ProcessIds |-> procs'[q]]
    BY <1>5, Zenon DEF TreeType
  <2> QED
    BY <2>1, <2>2, Zenon
<1> HIDE DEF row
<1>7. new \in Reports /\ new.pid = c /\ new.status = status_of[c] /\ status_of[c] # Nil
  <2>1. procs[c].status = status_of[c] /\ status_of[c] # Nil
    BY DEF Ended
  <2>2. status_of[c] \in Statuses \cup {Nil}
    BY DEF TreeType
  <2> QED
    BY <2>1, <2>2 DEF Reports
<1> HIDE DEF new
<1>8. answers' \in Seq(Reports) /\ Len(answers') = Len(answers) + 1
      /\ \A i \in 1 .. Len(answers') : answers'[i] = IF i = Len(answers) + 1 THEN new ELSE answers[i]
  <2>1. answers \in Seq(Reports) /\ answers' = Append(answers, new)
    BY DEF TreeType, new
  <2> QED
    BY <1>7, <2>1
<1>9. \A i \in 1 .. Len(answers) : answers[i].pid \in ProcessIds
  <2>1. \A i \in 1 .. Len(answers) : answers[i] \in Reports
    BY DEF TreeType
  <2> QED
    BY <2>1 DEF Reports
<1>10. \A q \in ProcessIds : Alive(q)' <=> Alive(q)
  BY <1>1, <1>2, <1>4, Zenon DEF Alive, Exists
<1>11. SleepersAlive' /\ Owned' /\ Periodic'
       /\ sleeps' \in [1 .. SLEEP_CAP -> Sleeps \cup {Nil}]
       /\ timers' \in [1 .. TIMER_CAP -> Timers \cup {Nil}]
       /\ \A i \in 1 .. SLEEP_CAP : sleeps[i] # Nil /\ sleeps[i].process # c => sleeps'[i] = sleeps[i]
  BY <1>10, ReleaseKeeps
<1>12. TreeType'
  BY <1>6, <1>8, <1>11, Zenon DEF TreeType
<1>13. Numbered'
  BY <1>1, <1>2 DEF Numbered, Exists
<1>14. Ended'
  <2>1. \A q \in ProcessIds : Exists(q)' /\ procs'[q].state = "Zombie" =>
           Exists(q) /\ procs'[q] = procs[q]
    BY <1>2, <1>4, Zenon DEF Exists
  <2>2. status_of' = status_of
    OBVIOUS
  <2> QED
    BY <2>1, <2>2, Zenon DEF Ended
<1>15. Reaped' /\ ReportedOnce'
  <2>1. c < next_pid
    BY DEF Numbered
  <2>2. Len(answers) \in Nat
    BY DEF TreeType
  <2>3. \A i \in 1 .. Len(answers) : procs[answers[i].pid] = Nil /\ answers[i].pid < next_pid
    BY DEF Reaped
  <2>4. \A i \in 1 .. Len(answers) : answers[i].pid # c /\ procs'[answers[i].pid] = Nil
    BY <1>1, <1>2, <1>9, <2>3, Zenon
  <2>5. Reaped'
    <3>1. next_pid' = next_pid
      OBVIOUS
    <3>2. procs'[c] = Nil
      BY <1>2, Zenon
    <3>3. ASSUME NEW i \in 1 .. Len(answers')
          PROVE  procs'[answers'[i].pid] = Nil /\ answers'[i].pid < next_pid
      <4>1. CASE i = Len(answers) + 1
        <5>1. answers'[i].pid = c
          BY <1>7, <1>8, <4>1
        <5> QED
          BY <2>1, <3>2, <5>1
      <4>2. CASE i # Len(answers) + 1
        <5>1. i \in 1 .. Len(answers) /\ answers'[i] = answers[i]
          BY <1>8, <2>2, <4>2
        <5> QED
          BY <2>3, <2>4, <5>1, Zenon
      <4> QED
        BY <4>1, <4>2
    <3> QED
      BY <3>1, <3>3, Zenon DEF Reaped
  <2>6. ReportedOnce'
    <3>1. \A i \in 1 .. Len(answers') : /\ answers'[i].status = status_of[answers'[i].pid]
                                        /\ answers'[i].status # Nil
      BY <1>7, <1>8, <2>2 DEF ReportedOnce
    <3>2. \A i, j \in 1 .. Len(answers') : answers'[i].pid = answers'[j].pid => i = j
      BY <1>7, <1>8, <2>2, <2>4 DEF ReportedOnce
    <3> QED
      BY <3>1, <3>2 DEF ReportedOnce
  <2> QED
    BY <2>5, <2>6
<1>16. BlockedHasWaker'
  <2>0. DOMAIN sleeps = 1 .. SLEEP_CAP /\ DOMAIN sleeps' = 1 .. SLEEP_CAP
    BY <1>12 DEF TreeType
  <2>1. \A q \in ProcessIds : Exists(q)' /\ procs'[q].state = "Blocked" =>
           q # c /\ q # p /\ Exists(q) /\ procs'[q] = procs[q]
    BY <1>2, <1>4, Zenon DEF Exists
  <2>2. \A d \in ProcessIds : Alive(d) => /\ Alive(d)' /\ procs'[d].parent = procs[d].parent
                                          /\ procs'[d].pgid = procs[d].pgid
    BY <1>2, <1>4, <1>10, Zenon DEF Alive
  <2> QED
    <3> SUFFICES ASSUME NEW q \in ProcessIds, Exists(q)', procs'[q].state = "Blocked"
                 PROVE  \/ \E i \in DOMAIN sleeps' : sleeps'[i] # Nil /\ sleeps'[i].process = q
                        \/ /\ procs'[q].wait # Nil
                           /\ \/ q \in deserted'
                              \/ \E d \in ProcessIds : /\ Alive(d)' /\ procs'[d].parent = q
                                                     /\ matches(procs'[q].wait, d, procs'[d].pgid)
      BY Zenon DEF BlockedHasWaker
    <3>1. q # c /\ Exists(q) /\ procs'[q] = procs[q] /\ procs[q].state = "Blocked"
      BY <2>1, Zenon
    <3>2. CASE \E i \in 1 .. SLEEP_CAP : sleeps[i] # Nil /\ sleeps[i].process = q
      BY <1>11, <2>0, <3>1, <3>2
    <3>3. CASE /\ procs[q].wait # Nil
               /\ \/ q \in deserted
                  \/ \E d \in ProcessIds : /\ Alive(d) /\ procs[d].parent = q
                                         /\ matches(procs[q].wait, d, procs[d].pgid)
      <4>1. deserted' = deserted
        OBVIOUS
      <4> QED
        BY <2>2, <3>1, <3>3, <4>1, Zenon
    <3> QED
      BY <2>0, <3>1, <3>2, <3>3, Zenon DEF BlockedHasWaker
<1> QED
  BY <1>11, <1>12, <1>13, <1>14, <1>15, <1>16

\* The caller blocks: some child it waits for has not exited.
LEMMA BlockKeeps ==
  ASSUME Kept, NEW p \in ProcessIds, Exists(p), procs[p].state = "Ready", NEW w \in Waits,
         NEW c \in ProcessIds, Alive(c), procs[c].parent = p, matches(w, c, procs[c].pgid),
         procs' = [procs EXCEPT ![p].wait = w, ![p].state = "Blocked"],
         deserted' = deserted \ {p},
         UNCHANGED <<next_pid, next_timer_id, now, status_of, answers, sleeps, timers>>
  PROVE  Kept'
<1> USE DEF Kept
<1>1. procs[p] \in Blocks /\ procs[p] # Nil
  BY RowType
<1> DEFINE row == [procs[p] EXCEPT !.wait = w, !.state = "Blocked"]
<1>2. \A q \in ProcessIds : procs'[q] = IF q = p THEN row ELSE procs[q]
  BY <1>1 DEF TreeType
<1>3. row \in Blocks
  BY <1>1, Zenon DEF Blocks
<1>4. /\ row # Nil /\ row.state = "Blocked" /\ row.parent = procs[p].parent
      /\ row.pgid = procs[p].pgid /\ row.wait = w
  <2>1. row # Nil
    BY <1>3, TreeAssumption
  <2> QED
    BY <1>1, <2>1 DEF Blocks
<1> HIDE DEF row
<1>5. procs' \in [ProcessIds -> Blocks \cup {Nil}]
  <2>1. \A q \in ProcessIds : procs'[q] \in Blocks \cup {Nil}
    BY <1>2, <1>3 DEF TreeType
  <2>2. procs' = [q \in ProcessIds |-> procs'[q]]
    BY Zenon DEF TreeType
  <2> QED
    BY <2>1, <2>2, Zenon
<1>6. TreeType'
  BY <1>5 DEF TreeType
<1>7. \A q \in ProcessIds : Alive(q)' <=> Alive(q)
  BY <1>1, <1>2, <1>4, Zenon DEF Alive, Exists
<1>8. Owned' /\ Periodic'
  BY <1>7, TimersStay
<1>9. Reaped' /\ ReportedOnce'
  <2>1. next_pid \in Nat
    BY DEF TreeType
  <2>2. next_pid' \in Nat /\ next_pid <= next_pid' /\ UNCHANGED <<answers, status_of>>
    BY <2>1
  <2>3. \A q \in ProcessIds : procs[q] = Nil /\ q < next_pid => procs'[q] = Nil
    BY <1>1, <1>2, Zenon
  <2> QED
    BY <2>2, <2>3, ReportsStay, Zenon
<1>10. Numbered'
  BY <1>1, <1>2 DEF Numbered, Exists
<1>11. Ended'
  <2>1. \A q \in ProcessIds : Exists(q)' /\ procs'[q].state = "Zombie" =>
           Exists(q) /\ procs'[q] = procs[q]
    BY <1>2, <1>4, Zenon DEF Exists
  <2>2. status_of' = status_of
    OBVIOUS
  <2> QED
    BY <2>1, <2>2, Zenon DEF Ended
<1>12. SleepersAlive'
  <2>1. \A i \in 1 .. SLEEP_CAP : sleeps[i] # Nil => sleeps[i].process \in ProcessIds
    BY DEF TreeType, Sleeps
  <2> QED
    BY <1>7, <2>1 DEF SleepersAlive
<1>13. BlockedHasWaker'
  <2>1. \A d \in ProcessIds : Alive(d) => /\ Alive(d)' /\ procs'[d].parent = procs[d].parent
                                          /\ procs'[d].pgid = procs[d].pgid
    BY <1>2, <1>4, <1>7, Zenon
  <2> SUFFICES ASSUME NEW q \in ProcessIds, Exists(q)', procs'[q].state = "Blocked"
               PROVE  \/ \E i \in DOMAIN sleeps : sleeps[i] # Nil /\ sleeps[i].process = q
                      \/ /\ procs'[q].wait # Nil
                         /\ \/ q \in deserted'
                            \/ \E d \in ProcessIds : /\ Alive(d)' /\ procs'[d].parent = q
                                                   /\ matches(procs'[q].wait, d, procs'[d].pgid)
    BY Zenon DEF BlockedHasWaker
  <2>2. CASE q = p
    <3>1. procs'[q].wait = w /\ w # Nil
      BY <1>2, <1>4, <2>2, TreeAssumption, Zenon
    <3> QED
      BY <2>1, <2>2, <3>1, Zenon
  <2>3. CASE q # p
    <3>1. Exists(q) /\ procs'[q] = procs[q]
      BY <1>2, <2>3, Zenon DEF Exists
    <3>2. q \in deserted => q \in deserted'
      BY <2>3
    <3>3. \/ \E i \in DOMAIN sleeps : sleeps[i] # Nil /\ sleeps[i].process = q
          \/ /\ procs[q].wait # Nil
             /\ \/ q \in deserted
                \/ \E d \in ProcessIds : /\ Alive(d) /\ procs[d].parent = q
                                       /\ matches(procs[q].wait, d, procs[d].pgid)
      <4>1. procs[q].state = "Blocked"
        BY <3>1, Zenon
      <4> QED
        BY <3>1, <4>1, Zenon DEF BlockedHasWaker
    <3> QED
      BY <2>1, <3>1, <3>2, <3>3, Zenon
  <2> QED
    BY <2>2, <2>3, Zenon
<1> QED
  BY <1>6, <1>8, <1>9, <1>10, <1>11, <1>12, <1>13

\* wait_for_child reaps or blocks.
LEMMA WaitKeeps ==
  ASSUME Kept, NEW p \in ProcessIds, NEW sel \in Selectors, NEW nohang \in BOOLEAN,
         wait_for_child(p, sel, nohang)
  PROVE  Kept'
<1> DEFINE w == decode_child_wait_selector(sel, procs[p].pgid)
           children == {c \in ProcessIds : Exists(c) /\ procs[c].parent = p /\ matches(w, c, procs[c].pgid)}
           zombies == {c \in children : procs[c].state = "Zombie"}
<1>1. Exists(p) /\ procs[p].state = "Ready" /\ procs[p] \in Blocks
  BY RowType DEF Kept, wait_for_child, Call
<1>2. w \in Waits
  BY <1>1, SelectorType DEF Blocks
<1>3. /\ children # {}
      /\ UNCHANGED <<next_pid, next_timer_id, now, status_of>>
      /\ IF zombies # {}
         THEN \E c \in zombies :
                   /\ procs' = [procs EXCEPT ![c] = Nil, ![p].wait = Nil]
                   /\ answers' = Append(answers, [parent |-> p, pid |-> c,
                                                  status |-> procs[c].status])
                   /\ sleeps' = release_sleeps(c) /\ timers' = release_timers(c)
                   /\ UNCHANGED deserted
         ELSE /\ ~nohang
              /\ procs' = [procs EXCEPT ![p].wait = w, ![p].state = "Blocked"]
              /\ deserted' = deserted \ {p}
              /\ UNCHANGED <<answers, sleeps, timers>>
  BY Zenon DEF wait_for_child
<1> HIDE DEF w
<1>4. CASE zombies # {}
  <2>1. PICK c \in zombies :
                   /\ procs' = [procs EXCEPT ![c] = Nil, ![p].wait = Nil]
                   /\ answers' = Append(answers, [parent |-> p, pid |-> c,
                                                  status |-> procs[c].status])
                   /\ sleeps' = release_sleeps(c) /\ timers' = release_timers(c)
                   /\ UNCHANGED deserted
    BY <1>3, <1>4, Zenon
  <2>2. c \in ProcessIds /\ Exists(c) /\ procs[c].state = "Zombie"
    BY Zenon
  <2>3. UNCHANGED <<next_pid, next_timer_id, now, status_of, deserted>>
    BY <1>3, <2>1
  <2> QED
    BY <1>1, <2>1, <2>2, <2>3, ReapKeeps, Zenon
<1>5. CASE zombies = {}
  <2>1. PICK c \in children : TRUE
    BY <1>3, Zenon
  <2>2. c \in ProcessIds /\ Alive(c) /\ procs[c].parent = p /\ matches(w, c, procs[c].pgid)
    BY <1>5, <2>1, Zenon DEF Alive
  <2>3. /\ procs' = [procs EXCEPT ![p].wait = w, ![p].state = "Blocked"]
        /\ deserted' = deserted \ {p}
        /\ UNCHANGED <<answers, sleeps, timers>>
    BY <1>3, <1>5, Zenon
  <2>4. UNCHANGED <<next_pid, next_timer_id, now, status_of, answers, sleeps, timers>>
    BY <1>3, <2>3, ZenonT(30)
  <2> QED
    BY <1>1, <1>2, <2>2, <2>3, <2>4, BlockKeeps, Zenon
<1> QED
  BY <1>4, <1>5

-----------------------------------------------------------------------------
(* Exits.                                                                    *)

\* The table after an exit of p: p is a zombie with its status, a parent whose wait its exit
\* ends is no longer blocked, and everyone else is as before.
ExitEffect(t, p, status) ==
    /\ t \in Tables
    /\ t[p].state = "Zombie" /\ t[p].status = status
    /\ \A q \in ProcessIds :
          /\ t[q] = Nil <=> procs[q] = Nil
          /\ procs[q] # Nil => t[q].parent = procs[q].parent /\ t[q].pgid = procs[q].pgid
          /\ procs[q] # Nil /\ q # p =>
                /\ t[q].status = procs[q].status
                /\ t[q].state = "Zombie" <=> procs[q].state = "Zombie"
                /\ t[q].state = "Blocked" =>
                      /\ procs[q].state = "Blocked" /\ t[q].wait = procs[q].wait
                      /\ procs[p].parent = q =>
                            procs[q].wait = Nil \/ ~matches(procs[q].wait, p, procs[p].pgid)

\* wake_parent_child_waiters on a table that has p as a zombie and is otherwise as before.
LEMMA WakeEffect ==
  ASSUME TreeType, NEW p \in ProcessIds, Exists(p), NEW status, NEW t \in Tables,
         t[p] # Nil, t[p].state = "Zombie", t[p].status = status,
         t[p].parent = procs[p].parent, t[p].pgid = procs[p].pgid,
         \A q \in ProcessIds : q # p => Same(procs[q], t[q])
  PROVE  ExitEffect(wake_parent_child_waiters(t, p), p, status)
<1> DEFINE parent == t[p].parent
           u == wake_parent_child_waiters(t, p)
           no == parent = Nil \/ t[parent] = Nil \/ t[parent].wait = Nil
                 \/ ~matches(t[parent].wait, p, t[p].pgid)
<1>1. procs[p] # Nil /\ t[p] \in Blocks
  BY SMTT(30) DEF Exists, Tables
<1>2. CASE no
  <2>1. u = t
    BY <1>2, Zenon DEF wake_parent_child_waiters
  <2>2. ASSUME NEW q \in ProcessIds, q # p, procs[q] # Nil, procs[p].parent = q, t[q].state = "Blocked"
        PROVE  procs[q].wait = Nil \/ ~matches(procs[q].wait, p, procs[p].pgid)
    <3>1. Same(procs[q], t[q]) /\ parent = q /\ q # Nil
      BY <2>2, TreeAssumption, SMTT(30)
    <3>2. t[q] # Nil /\ t[q].wait = procs[q].wait
      BY <2>2, <3>1, SMTT(30) DEF Same
    <3> QED
      BY <1>2, <3>1, <3>2
  <2>3. \A q \in ProcessIds : q # p =>
          /\ t[q] = Nil <=> procs[q] = Nil
          /\ procs[q] # Nil => /\ t[q].parent = procs[q].parent /\ t[q].pgid = procs[q].pgid
                               /\ t[q].status = procs[q].status /\ t[q].state = procs[q].state
                               /\ t[q].wait = procs[q].wait
    BY DEF Same
  <2> HIDE DEF u, no, parent
  <2>4. ExitEffect(t, p, status)
    BY <1>1, <2>2, <2>3, Zenon DEF ExitEffect
  <2> QED
    BY <2>1, <2>4 DEF u
<1>3. CASE ~no
  <2>1. parent \in ProcessIds /\ t[parent] \in Blocks /\ t[parent] # Nil
    BY <1>1, <1>3, Zenon DEF Blocks, Tables
  <2> DEFINE state == IF t[parent].state = "Blocked" THEN "Ready" ELSE t[parent].state
             row1 == [t[parent] EXCEPT !.wait = Nil]
             mid == [t EXCEPT ![parent] = row1]
             row == [row1 EXCEPT !.state = state]
  <2>2. row1 \in Blocks /\ row1.state = t[parent].state
    BY <2>1 DEF Blocks
  <2>3. mid[parent] = row1
    BY <2>1 DEF Tables
  <2>4. u = [mid EXCEPT ![parent] = [mid[parent] EXCEPT !.state =
                IF mid[parent].state = "Blocked" THEN "Ready" ELSE mid[parent].state]]
    BY <1>3, Zenon DEF wake_parent_child_waiters
  <2>5. state \in {"Ready", "Zombie"} /\ (state = "Zombie" <=> t[parent].state = "Zombie")
    BY <2>1 DEF Blocks
  <2>6. u = [mid EXCEPT ![parent] = row]
    BY <2>2, <2>3, <2>4, Zenon
  <2>7. /\ row1.parent = t[parent].parent /\ row1.pgid = t[parent].pgid
        /\ row1.status = t[parent].status
    BY <2>1 DEF Blocks
  <2> HIDE DEF state, row1
  <2>8. row \in Blocks
    BY <2>2, <2>5 DEF Blocks
  <2>9. row # Nil
    BY <2>8, TreeAssumption
  <2>10. /\ row.parent = t[parent].parent /\ row.pgid = t[parent].pgid
         /\ row.status = t[parent].status /\ row.state = state
    BY <2>2, <2>7, SMTT(30) DEF Blocks
  <2> HIDE DEF row
  <2>11. u \in Tables /\ \A q \in ProcessIds : u[q] = IF q = parent THEN row ELSE t[q]
    BY <2>1, <2>2, <2>6, <2>8 DEF Tables
  <2> HIDE DEF u, no, mid, parent
  <2>12. \A q \in ProcessIds : q # p =>
          /\ t[q] = Nil <=> procs[q] = Nil
          /\ procs[q] # Nil => /\ t[q].parent = procs[q].parent /\ t[q].pgid = procs[q].pgid
                               /\ t[q].status = procs[q].status /\ t[q].state = procs[q].state
                               /\ t[q].wait = procs[q].wait
    BY DEF Same
  <2>13. parent = procs[p].parent
    BY SMTT(30) DEF parent
  <2>14. u[p].state = "Zombie" /\ u[p].status = status /\ u[p] # Nil /\ u[p].parent = procs[p].parent
         /\ u[p].pgid = procs[p].pgid
    BY <2>5, <2>9, <2>10, <2>11, SMTT(30)
  <2>15. ExitEffect(u, p, status)
    <3>1. ASSUME NEW q \in ProcessIds, procs[q] # Nil, q # p
          PROVE  /\ u[q].parent = procs[q].parent /\ u[q].pgid = procs[q].pgid
                 /\ u[q].status = procs[q].status
                 /\ u[q].state = "Zombie" <=> procs[q].state = "Zombie"
                 /\ u[q].state = "Blocked" =>
                       q # parent /\ procs[q].state = "Blocked" /\ u[q].wait = procs[q].wait
      <4>1. CASE q = parent
        BY <2>5, <2>10, <2>11, <2>12, <3>1, <4>1, Zenon
      <4>2. CASE q # parent
        BY <2>11, <2>12, <3>1, <4>2, Zenon
      <4> QED
        BY <4>1, <4>2, ZenonT(30)
    <3>2. \A q \in ProcessIds : u[q] = Nil <=> procs[q] = Nil
      BY <1>1, <2>1, <2>9, <2>11, <2>12, <2>14
    <3> QED
      BY <2>11, <2>13, <2>14, <3>1, <3>2, ZenonT(30) DEF ExitEffect
  <2> QED
    BY <2>15 DEF u
<1> QED
  BY <1>2, <1>3

\* exit_process on a table that differs from the present one in pending signals at most.
LEMMA ExitedEffect ==
  ASSUME TreeType, NEW p \in ProcessIds, Exists(p), NEW status \in Statuses,
         NEW t \in Tables, Alike(procs, t)
  PROVE  ExitEffect(Exited(t, p, status), p, status)
<1> DEFINE row1 == [t[p] EXCEPT !.state = "Zombie"]
           mid == [t EXCEPT ![p] = row1]
           row == [row1 EXCEPT !.status = status]
           z == [mid EXCEPT ![p] = row]
           q1 == queue_signal(z, t[p].parent, SIGCHLD)
<1>1. Same(procs[p], t[p]) /\ procs[p] # Nil /\ t[p] # Nil
  BY DEF Alike, Same, Exists
<1>2. t[p] \in Blocks
  BY <1>1 DEF Tables
<1>3. row1 \in Blocks /\ row1.parent = t[p].parent /\ row1.pgid = t[p].pgid /\ row1.state = "Zombie"
  BY <1>2 DEF Blocks
<1>4. mid[p] = row1 /\ mid \in Tables
  BY <1>3 DEF Tables
<1>5. Exited(t, p, status) = wake_parent_child_waiters(q1, p)
  <2>1. [t EXCEPT ![p].state = "Zombie", ![p].status = status] = [mid EXCEPT ![p] = [mid[p] EXCEPT !.status = status]]
    BY Zenon
  <2>2. [t EXCEPT ![p].state = "Zombie", ![p].status = status] = z
    BY <1>4, <2>1, Zenon
  <2> QED
    BY <2>2 DEF Exited
<1> HIDE DEF row1
<1>6. row \in Blocks
  BY <1>3 DEF Blocks, Statuses
<1>7. /\ row # Nil /\ row.parent = t[p].parent /\ row.pgid = t[p].pgid /\ row.state = "Zombie"
      /\ row.status = status
  <2>1. row # Nil
    BY <1>6, TreeAssumption
  <2> QED
    BY <1>3, <2>1 DEF Blocks
<1> HIDE DEF row
<1>8. z \in Tables /\ z[p] = row /\ \A q \in ProcessIds : q # p => z[q] = t[q]
  BY <1>4, <1>6, SMTT(30) DEF Tables
<1> HIDE DEF mid, z
<1>9. t[p].parent \in ProcessIds \cup {Nil} /\ SIGCHLD \in AllSignals
  BY <1>2 DEF Blocks, AllSignals
<1>10. q1 \in Tables /\ Alike(z, q1)
  BY <1>8, <1>9, QueueType, ZenonT(30)
<1> HIDE DEF q1
<1>11. \A q \in ProcessIds : q # p => Same(procs[q], q1[q])
  <2> SUFFICES ASSUME NEW q \in ProcessIds, q # p PROVE Same(procs[q], q1[q])
    BY Zenon
  <2>1. Same(procs[q], t[q]) /\ Same(z[q], q1[q]) /\ z[q] = t[q]
    BY <1>8, <1>10, Zenon DEF Alike
  <2> QED
    BY <2>1, Zenon DEF Same
<1>12. /\ q1[p] # Nil /\ q1[p].state = "Zombie" /\ q1[p].status = status
       /\ q1[p].parent = procs[p].parent /\ q1[p].pgid = procs[p].pgid
  BY <1>1, <1>7, <1>8, <1>10 DEF Alike, Same
<1>13. ExitEffect(wake_parent_child_waiters(q1, p), p, status)
  BY <1>10, <1>11, <1>12, WakeEffect, Zenon
<1> QED
  BY <1>5, <1>13

\* Leaving keeps everything: the children of others are untouched, and a parent that waited
\* for this one is no longer blocked.
LEMMA LeaveKeeps ==
  ASSUME Kept, NEW p \in ProcessIds, Exists(p), procs[p].state = "Ready", NEW status \in Statuses,
         ExitEffect(procs', p, status), status_of' = [status_of EXCEPT ![p] = status],
         sleeps' = release_sleeps(p), timers' = release_timers(p),
         UNCHANGED <<next_pid, next_timer_id, now, answers, deserted>>
  PROVE  Kept'
<1> USE DEF Kept
<1>1. \A q \in ProcessIds : q # p => (Alive(q)' <=> Alive(q))
  BY Zenon DEF ExitEffect, Alive, Exists
<1>2. /\ SleepersAlive' /\ Owned' /\ Periodic'
      /\ sleeps' \in [1 .. SLEEP_CAP -> Sleeps \cup {Nil}]
      /\ timers' \in [1 .. TIMER_CAP -> Timers \cup {Nil}]
      /\ \A i \in 1 .. SLEEP_CAP : sleeps[i] # Nil /\ sleeps[i].process # p => sleeps'[i] = sleeps[i]
  BY <1>1, ReleaseKeeps, ZenonT(30)
<1>3. status # Nil /\ \A q \in ProcessIds : status_of'[q] = IF q = p THEN status ELSE status_of[q]
  BY TreeAssumption, Zenon DEF Statuses, TreeType
<1>4. TreeType'
  BY <1>2, ZenonT(30) DEF TreeType, ExitEffect, Tables
<1>5. Numbered' /\ Ended'
  <2>1. \A q \in ProcessIds : Exists(q)' => Exists(q)
    BY ZenonT(30) DEF ExitEffect, Exists
  <2>2. Numbered'
    BY <2>1, ZenonT(30) DEF Numbered
  <2>3. ASSUME NEW q \in ProcessIds, Exists(q)', procs'[q].state = "Zombie"
        PROVE  procs'[q].status = status_of'[q] /\ status_of'[q] # Nil
    <3>1. CASE q = p
      <4>1. procs'[p].status = status
        BY Zenon DEF ExitEffect
      <4> QED
        BY <1>3, <3>1, <4>1, Zenon
    <3>2. CASE q # p
      <4>1. Exists(q) /\ procs[q].state = "Zombie" /\ procs'[q].status = procs[q].status
        BY <2>3, <3>2, Zenon DEF ExitEffect, Exists
      <4> QED
        BY <1>3, <3>2, <4>1, Zenon DEF Ended
    <3> QED
      BY <3>1, <3>2, ZenonT(30)
  <2> QED
    BY <2>2, <2>3, Zenon DEF Ended
<1>6. \A i \in 1 .. Len(answers) : answers[i].pid \in ProcessIds /\ answers[i].pid # p
  <2>1. \A i \in 1 .. Len(answers) : answers[i] \in Reports
    BY DEF TreeType
  <2> QED
    BY <2>1, Zenon DEF Reports, Reaped, Exists
<1>7. Reaped' /\ ReportedOnce'
  BY <1>3, <1>6, ZenonT(30) DEF Reaped, ReportedOnce, ExitEffect
<1>8. BlockedHasWaker'
  <2>0. DOMAIN sleeps = 1 .. SLEEP_CAP /\ DOMAIN sleeps' = 1 .. SLEEP_CAP
    BY <1>4 DEF TreeType
  <2> SUFFICES ASSUME NEW q \in ProcessIds, Exists(q)', procs'[q].state = "Blocked"
               PROVE  \/ \E i \in DOMAIN sleeps' : sleeps'[i] # Nil /\ sleeps'[i].process = q
                      \/ /\ procs'[q].wait # Nil
                         /\ \/ q \in deserted
                            \/ \E c \in ProcessIds : /\ Alive(c)' /\ procs'[c].parent = q
                                                   /\ matches(procs'[q].wait, c, procs'[c].pgid)
    BY Zenon DEF BlockedHasWaker
  <2>1. q # p
    BY Zenon DEF ExitEffect
  <2>2. /\ Exists(q) /\ procs[q].state = "Blocked" /\ procs'[q].wait = procs[q].wait
        /\ procs[p].parent = q => procs[q].wait = Nil \/ ~matches(procs[q].wait, p, procs[p].pgid)
    BY <2>1, Zenon DEF ExitEffect, Exists
  <2>3. \/ \E i \in 1 .. SLEEP_CAP : sleeps[i] # Nil /\ sleeps[i].process = q
        \/ /\ procs[q].wait # Nil
           /\ \/ q \in deserted
              \/ \E c \in ProcessIds : /\ Alive(c) /\ procs[c].parent = q
                                     /\ matches(procs[q].wait, c, procs[c].pgid)
    BY <2>0, <2>2, Zenon DEF BlockedHasWaker
  <2>4. CASE \E i \in 1 .. SLEEP_CAP : sleeps[i] # Nil /\ sleeps[i].process = q
    BY <1>2, <2>0, <2>1, <2>4, Zenon
  <2>5. ASSUME procs[q].wait # Nil, NEW c \in ProcessIds, Alive(c), procs[c].parent = q,
               matches(procs[q].wait, c, procs[c].pgid)
        PROVE  Alive(c)' /\ procs'[c].parent = q /\ matches(procs'[q].wait, c, procs'[c].pgid)
    <3>1. c # p
      BY <2>2, <2>5, Zenon
    <3>2. procs'[c].parent = procs[c].parent /\ procs'[c].pgid = procs[c].pgid
      BY <2>5, Zenon DEF ExitEffect, Alive, Exists
    <3> QED
      BY <1>1, <2>2, <2>5, <3>1, <3>2, Zenon
  <2> QED
    BY <2>2, <2>3, <2>4, <2>5, Zenon
<1> QED
  BY <1>2, <1>4, <1>5, <1>7, <1>8, Zenon

\* exit leaves with status 0.
LEMMA ExitKeeps ==
  ASSUME Kept, NEW p \in ProcessIds, syscall_exit(p)
  PROVE  Kept'
<1>1. Exists(p) /\ procs[p].state = "Ready"
  BY SMTT(30) DEF syscall_exit, Call
<1>2. procs \in Tables /\ Alike(procs, procs) /\ 0 \in Statuses /\ TreeType
  BY SMTT(30) DEF Kept, TreeType, Tables, Alike, Same, Statuses
<1>3. ExitEffect(procs', p, 0)
  BY <1>1, <1>2, ExitedEffect, Zenon DEF syscall_exit, Leave
<1> QED
  BY <1>1, <1>2, <1>3, LeaveKeeps, Zenon DEF syscall_exit, Leave

\* A signal delivered at a checkpoint ends the process, or is handled or dropped.
LEMMA DeliverKeeps ==
  ASSUME Kept, NEW p \in ProcessIds, deliver_signal_checkpoint(p)
  PROVE  Kept'
<1> DEFINE slots == deliverable(procs[p].pending, procs[p].mask)
           at == First(slots)
           signal == procs[p].pending[at]
           queue == [procs[p].pending EXCEPT ![at] = Nil]
           row == [procs[p] EXCEPT !.pending = queue]
           taken == [procs EXCEPT ![p] = row]
<1>1. Exists(p) /\ procs[p].state = "Ready" /\ procs[p] \in Blocks /\ procs[p] # Nil /\ TreeType /\ slots # {}
  BY RowType, SMTT(30) DEF Kept, deliver_signal_checkpoint
<1>2. procs[p].pending \in Queues
  BY <1>1, Zenon DEF Blocks, Queues
<1>3. at \in 1 .. MAX_PENDING_SIGNALS /\ procs[p].pending[at] # Nil
  <2>0. DOMAIN procs[p].pending = 1 .. MAX_PENDING_SIGNALS
    BY <1>2, Zenon DEF Queues
  <2>1. slots \in SUBSET (1 .. MAX_PENDING_SIGNALS) /\ slots \in SUBSET Nat
    <3>1. slots \in SUBSET (1 .. MAX_PENDING_SIGNALS)
      BY <2>0, ZenonT(30) DEF deliverable
    <3> HIDE DEF slots
    <3> QED
      BY <3>1
  <2>2. at \in slots
    BY <1>1, <2>1, FirstIs, Zenon
  <2> QED
    BY <2>1, <2>2, ZenonT(30) DEF deliverable
<1> HIDE DEF at
<1>4. signal \in AllSignals /\ signal \in Statuses
  BY <1>2, <1>3, Zenon DEF Queues, Statuses
<1>5. queue \in Queues
  BY <1>2, Zenon DEF Queues
<1>6. [procs EXCEPT ![p].pending[at] = Nil] = taken
  BY <1>1 DEF TreeType
<1> HIDE DEF queue
<1>7. row \in Blocks
  BY <1>1, <1>5 DEF Blocks, Queues
<1>8. row # Nil
  BY <1>7, TreeAssumption
<1>9. Same(procs[p], row)
  BY <1>1, <1>8, ZenonT(30) DEF Same, Blocks
<1> HIDE DEF row
<1>10. taken \in Tables /\ Alike(procs, taken)
  BY <1>1, <1>7, <1>9, RowChange, Zenon
<1>11. UNCHANGED deserted
       /\ IF signal \in {SIGKILL, SIGTERM} /\ signal \notin procs[p].handled
          THEN /\ procs' = Exited(taken, p, signal)
               /\ status_of' = [status_of EXCEPT ![p] = signal]
               /\ sleeps' = release_sleeps(p) /\ timers' = release_timers(p)
               /\ UNCHANGED <<next_pid, next_timer_id, now, answers>>
          ELSE /\ procs' = [taken EXCEPT ![p].active = signal]
               /\ UNCHANGED <<next_pid, sleeps, timers, next_timer_id, now, status_of, answers>>
  BY <1>6 DEF deliver_signal_checkpoint, at
<1>12. taken[p] = row
  BY <1>1 DEF TreeType
<1> HIDE DEF signal, taken
<1>13. CASE signal \in {SIGKILL, SIGTERM} /\ signal \notin procs[p].handled
  <2>1. ExitEffect(procs', p, signal)
    BY <1>1, <1>4, <1>10, <1>11, <1>13, ExitedEffect
  <2> QED
    BY <1>1, <1>4, <1>11, <1>13, <2>1, LeaveKeeps
<1>14. CASE ~(signal \in {SIGKILL, SIGTERM} /\ signal \notin procs[p].handled)
  <2> DEFINE row2 == [row EXCEPT !.active = signal]
  <2>1. procs' = [taken EXCEPT ![p] = row2]
    BY <1>10, <1>11, <1>12, <1>14 DEF Tables
  <2>2. row2 \in Blocks
    BY <1>4, <1>7 DEF Blocks
  <2>3. row2 # Nil
    BY <2>2, TreeAssumption
  <2>4. Same(row, row2)
    BY <1>7, <1>8, <2>3, SMTT(30) DEF Same, Blocks
  <2> HIDE DEF row2
  <2>5. procs' \in Tables /\ Alike(procs, procs')
    BY <1>9, <1>10, <1>12, <2>1, <2>2, <2>4 DEF Tables, Alike, Same
  <2>6. Quiet
    BY <1>11, <1>14, <2>5 DEF Quiet
  <2> QED
    BY <2>6, QuietKeeps
<1> QED
  BY <1>13, <1>14, SMTT(30)

-----------------------------------------------------------------------------
(* The theorem.                                                              *)

\* The first process alone.
LEMMA KeptInitially == TreeInit => Kept
<1> SUFFICES ASSUME TreeInit PROVE Kept
  OBVIOUS
<1> DEFINE p == First(ProcessIds)
           new == NewPcb(Nil, p, p, {}, {})
<1>1. p \in ProcessIds /\ p \in Nat
  <2>1. ProcessIds \in SUBSET Nat /\ ProcessIds # {}
    BY TreeAssumption
  <2> QED
    BY <2>1, FirstIs, Zenon
<1>2. /\ procs = [q \in ProcessIds |-> IF q = p THEN new ELSE Nil] /\ next_pid = p + 1
      /\ sleeps = [i \in 1 .. SLEEP_CAP |-> Nil] /\ timers = [i \in 1 .. TIMER_CAP |-> Nil]
      /\ next_timer_id = 1 /\ now = 0
      /\ status_of = [q \in ProcessIds |-> Nil] /\ answers = <<>> /\ deserted = {}
  BY Zenon DEF TreeInit
<1> HIDE DEF p
<1>3. new \in Blocks
  BY <1>1, NoSignalsType DEF NewPcb, Blocks, Queues
<1>4. new # Nil /\ new.state = "Ready"
  BY <1>3, TreeAssumption, Zenon DEF NewPcb
<1> HIDE DEF new
<1>5. TreeType
  BY <1>1, <1>2, <1>3 DEF TreeType
<1>6. Numbered /\ Ended
  BY <1>1, <1>2, <1>4 DEF Numbered, Ended, Exists
<1>7. Reaped /\ ReportedOnce
  BY <1>2 DEF Reaped, ReportedOnce
<1>8. SleepersAlive /\ Owned /\ Periodic
  BY <1>2 DEF SleepersAlive, Owned, Periodic
<1>9. BlockedHasWaker
  BY <1>2, <1>4 DEF BlockedHasWaker, Exists
<1> QED
  BY <1>5, <1>6, <1>7, <1>8, <1>9 DEF Kept

\* One step for each kind of call, delivery and the tick.
LEMMA KeptByEveryStep == Kept /\ [TreeNext]_treeVars => Kept'
<1> SUFFICES ASSUME Kept, [TreeNext]_treeVars PROVE Kept'
  OBVIOUS
<1>0. TreeType
  BY DEF Kept
<1>1. CASE UNCHANGED treeVars
  BY <1>1, ZenonT(30) DEF treeVars, Kept, TreeType, Numbered, Ended, Reaped, ReportedOnce, SleepersAlive,
              BlockedHasWaker, Owned, Periodic, OnPeriod, Alive, Exists
<1>2. CASE tick
  BY <1>2, TickKeeps
<1>3. ASSUME NEW p \in ProcessIds, NEW kind \in {"fork", "clone", "clone_sighand"}, create_process(p, kind)
      PROVE  Kept'
  BY <1>3, CreateProcessKeeps
<1>4. ASSUME NEW p \in ProcessIds, replace_process_image(p) PROVE Kept'
  BY <1>0, <1>4, ExecQuiet, QuietKeeps
<1>5. ASSUME NEW p \in ProcessIds, syscall_exit(p) PROVE Kept'
  BY <1>5, ExitKeeps
<1>6. ASSUME NEW p \in ProcessIds, deliver_signal_checkpoint(p) PROVE Kept'
  BY <1>6, DeliverKeeps
<1>7. ASSUME NEW p \in ProcessIds, NEW sel \in Selectors, NEW nohang \in BOOLEAN,
             wait_for_child(p, sel, nohang)
      PROVE  Kept'
  BY <1>7, WaitKeeps, SMTT(30)
<1>8. ASSUME NEW p \in ProcessIds, NEW t \in ProcessIds, NEW g \in ProcessIds, syscall_setpgid(p, t, g)
      PROVE  Kept'
  <2>1. Exists(t) /\ procs[t].sid \in ProcessIds
    <3>1. Exists(t)
      BY <1>8, Zenon DEF syscall_setpgid
    <3>2. procs[t] \in Blocks
      BY <1>0, <3>1, RowType, Zenon
    <3> QED
      BY <3>1, <3>2, Zenon DEF Blocks
  <2> QED
    BY <1>8, <2>1, RegroupKeeps, ZenonT(30) DEF syscall_setpgid
<1>9. ASSUME NEW p \in ProcessIds, syscall_setsid(p) PROVE Kept'
  BY <1>9, RegroupKeeps, Zenon DEF syscall_setsid, Call
<1>10. ASSUME NEW p \in ProcessIds, syscall_rt_sigreturn(p) PROVE Kept'
  BY <1>0, <1>10, ReturnQuiet, QuietKeeps
<1>11. ASSUME NEW p \in ProcessIds, NEW sel \in Selectors, NEW signal \in Signals,
              syscall_kill(p, sel, signal)
       PROVE  Kept'
  BY <1>0, <1>11, KillQuiet, QuietKeeps
<1>12. ASSUME NEW p \in ProcessIds, NEW signal \in Signals, NEW handler \in BOOLEAN,
              syscall_rt_sigaction(p, signal, handler)
       PROVE  Kept'
  BY <1>0, <1>12, ActionQuiet, QuietKeeps
<1>13. ASSUME NEW p \in ProcessIds, NEW how \in 0 .. 2, NEW mask \in Masks,
              syscall_rt_sigprocmask(p, how, mask)
       PROVE  Kept'
  BY <1>0, <1>13, MaskQuiet, QuietKeeps
<1>14. ASSUME NEW p \in ProcessIds, NEW d \in Durations, syscall_nanosleep(p, d) PROVE Kept'
  BY <1>14, NanosleepKeeps
<1>15. ASSUME NEW p \in ProcessIds, create_timer(p) PROVE Kept'
  BY <1>15, CreateTimerKeeps
<1>16. ASSUME NEW p \in ProcessIds, NEW i \in DOMAIN timers, delete_timer(p, i) PROVE Kept'
  BY <1>16, DeleteTimerKeeps
<1>17. ASSUME NEW p \in ProcessIds, NEW i \in DOMAIN timers, NEW t \in TimerSettings,
              set_timer(p, i, t.deadline, t.interval)
       PROVE  Kept'
  BY <1>17, SetTimerKeeps
<1>18. CASE TreeNext
  BY <1>18, <1>2, <1>3, <1>4, <1>5, <1>6, <1>7, <1>8, <1>9, <1>10, <1>11, <1>12, <1>13, <1>14,
     <1>15, <1>16, <1>17, Zenon DEF TreeNext
<1> QED
  BY <1>1, <1>18

\* The invariant implies what the runs check.
LEMMA KeptIsSound == Kept => FamiliesSound
<1> SUFFICES ASSUME Kept PROVE FamiliesSound
  OBVIOUS
<1> USE DEF Kept
<1>1. DOMAIN sleeps = 1 .. SLEEP_CAP /\ DOMAIN timers = 1 .. TIMER_CAP
  BY SMTT(30) DEF TreeType
<1>2. ASSUME NEW i \in 1 .. TIMER_CAP, timers[i] # Nil
      PROVE  /\ Alive(timers[i].owner)
             /\ \A j \in Mine(timers[i].owner) : timers[j].id = timers[i].id => i = j
             /\ timers[i].armed /\ timers[i].interval > 0 /\ timers[i].deadline # timers[i].first =>
                   /\ timers[i].deadline > now
                   /\ (timers[i].deadline - timers[i].first) % timers[i].interval = 0
  <2>1. timers[i] \in Timers /\ OnPeriod(timers[i])
    BY <1>2, SMTT(30) DEF TreeType, Periodic
  <2>2. timers[i].first \in Nat /\ timers[i].interval \in Nat
    BY <2>1 DEF Timers
  <2>3. Alive(timers[i].owner) /\ \A j \in Mine(timers[i].owner) : timers[j].id = timers[i].id => i = j
    BY <1>1, <1>2 DEF Owned, Mine
  <2>4. ASSUME timers[i].armed, timers[i].interval > 0, timers[i].deadline # timers[i].first
        PROVE  /\ timers[i].deadline > now
               /\ (timers[i].deadline - timers[i].first) % timers[i].interval = 0
    <3>1. PICK k \in Nat : timers[i].deadline = timers[i].first + timers[i].interval * k
      BY <2>1, <2>4, Zenon DEF OnPeriod
    <3>2. timers[i].deadline > now
      BY <2>1, <2>4, Zenon DEF OnPeriod
    <3>3. ((timers[i].first + timers[i].interval * k) - timers[i].first) % timers[i].interval = 0
      BY <2>2, <2>4, WholePeriods, SMTT(30)
    <3> QED
      BY <3>1, <3>2, <3>3
  <2> QED
    BY <2>3, <2>4
<1>3. TimersKept
  BY <1>1, <1>2 DEF TimersKept, SleepersAlive
<1> QED
  BY <1>3 DEF FamiliesSound

\* In every execution of the process tree, whatever its processes call: no process is
\* blocked without something that will ready it (wait_for_child, wake_expired_timeouts and
\* exit_process lose no wake-up), every child's end is reported at most once and with the
\* status it ended with, and sleeps and timers belong to processes that have not exited,
\* with periodic timers due on their period and ahead of the clock.
THEOREM FamiliesStaySound == TreeSpec => []FamiliesSound
<1>1. Kept /\ [TreeNext]_treeVars => Kept'
  BY KeptByEveryStep
<1> QED
  BY <1>1, KeptInitially, KeptIsSound, PTL DEF TreeSpec
=============================================================================

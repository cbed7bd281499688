------------------------------- MODULE Rings -------------------------------
(***************************************************************************)
(* The rings of the kernel, each driven by a client of its own. The run    *)
(* queue of the scheduler (RunQueue.tla), whose records may leave from the *)
(* middle; and the two that are true FIFO queues: the ready queue of       *)
(* CoreMtss (crates/mirage-mtss/src/task_core.rs), which CoreMtss.tla      *)
(* keeps as a sequence because of what is shown here, and the message      *)
(* queue each process receives from (src/kernel/ipc.rs, MessageQueue<N>),  *)
(* from which send_message takes the message pushed last back when it      *)
(* cannot wake the receiver. The rings only store threads and messages.    *)
(***************************************************************************)
EXTENDS RunQueueProofs, Sequences

CONSTANTS Threads,     \* the threads whose records are queued
          ProcessOf    \* the process each record names

ASSUME ThreadsAssumption == None \notin Threads

VARIABLE rq

Processes == {ProcessOf[t] : t \in Threads}

Init == rq = New

\* enqueue / requeue; on a full queue they return RunQueueFull and change
\* nothing.
EnqueueRecord(t) == ~IsFull(rq) /\ rq' = Enqueue(rq, t)

NextRecord == HasNext(rq) /\ rq' = TakeNext(rq)

\* `next` finds nothing although len is not zero.
NextNone == ~HasNext(rq) /\ rq.len # 0 /\ rq' = AfterNone(rq)

RemoveThreadRecords(t) == rq' = RemoveThread(rq, t)

RemoveProcessRecords(p) ==
    rq' = RemoveMatching(rq, {t \in Threads : ProcessOf[t] = p})

Reset == rq' = New

Next == \/ \E t \in Threads : EnqueueRecord(t) \/ RemoveThreadRecords(t)
        \/ NextRecord
        \/ NextNone
        \/ \E p \in Processes : RemoveProcessRecords(p)
        \/ Reset

Spec == Init /\ [][Next]_rq

\* The kernel asks for a record on every scheduler tick (Kernel::run_core
\* calls kernel_schedule_next for each online core).
FairSpec == Spec /\ WF_rq(NextRecord)
-----------------------------------------------------------------------------
\* The ring indices stay in the array and len stays a valid count.
TypeOK == rq \in [queue : [Slots -> Threads \cup {None}],
                  head : Slots, tail : Slots, len : 0 .. MAX]

\* len never falls below the number of records in the ring, whatever mix
\* of enqueue, next and remove_matching led here. Hence the early return
\* `if self.len == 0 { return None }` of next never hides a record, and the
\* decrements of remove_matching never saturate.
LiveWithinLen == Cardinality(Live(rq)) <= rq.len

\* Every record leaves its slot if the scheduler keeps asking: next always
\* moves head forward, so it cannot pass over an occupied slot for ever,
\* even when holes left by remove_matching let new records in ahead of it.
SlotDrains == \A i \in Slots : rq.queue[i] # None ~> rq.queue[i] = None

-----------------------------------------------------------------------------
(* The proofs, for every capacity and every set of threads.                *)

\* Every call on the run queue.
LEMMA CountedNext == Counted(Threads, rq) /\ [Next]_rq => Counted(Threads, rq)'
<1> SUFFICES ASSUME Counted(Threads, rq), [Next]_rq PROVE Counted(Threads, rq')
  OBVIOUS
<1>1. ASSUME NEW t \in Threads, EnqueueRecord(t) PROVE Counted(Threads, rq')
  BY <1>1, CountedEnqueue DEF EnqueueRecord
<1>2. ASSUME NEW t \in Threads, RemoveThreadRecords(t) PROVE Counted(Threads, rq')
  BY <1>2, CountedRemoveMatching DEF RemoveThreadRecords, RemoveThread
<1>3. CASE NextRecord
  BY <1>3, CountedTakeNext DEF NextRecord
<1>4. CASE NextNone
  BY <1>4, CountedAfterNone DEF NextNone
<1>5. ASSUME NEW p \in Processes, RemoveProcessRecords(p) PROVE Counted(Threads, rq')
  BY <1>5, CountedRemoveMatching DEF RemoveProcessRecords
<1>6. CASE Reset
  BY <1>6, CountedNew DEF Reset
<1>7. CASE UNCHANGED rq
  BY <1>7
<1> QED
  BY <1>1, <1>2, <1>3, <1>4, <1>5, <1>6, <1>7 DEF Next

\* The strengthened invariant holds in every reachable state.
LEMMA CountedAlways == Spec => []Counted(Threads, rq)
<1>1. Init => Counted(Threads, rq)
  BY CountedNew DEF Init
<1>2. Counted(Threads, rq) /\ [Next]_rq => Counted(Threads, rq)'
  BY CountedNext
<1> QED
  BY <1>1, <1>2, PTL DEF Spec

\* The ring stays well formed for every capacity: head and tail index the
\* array and len lies between 0 and MAX after any mix of the queue's calls.
THEOREM TypeCorrect == Spec => []TypeOK
<1>1. Counted(Threads, rq) => TypeOK
  BY DEF Counted, Rings, TypeOK
<1> QED
  BY <1>1, CountedAlways, PTL

\* The number of records never exceeds len, whatever mix of enqueue, next,
\* remove_thread, remove_process and reset led here: next never returns
\* None for a queue that holds a record, and the saturating decrements of
\* remove_matching never saturate.
THEOREM LenCoversRecords == Spec => []LiveWithinLen
<1>1. Counted(Threads, rq) => LiveWithinLen
  BY DEF Counted, LiveWithinLen
<1> QED
  BY <1>1, CountedAlways, PTL
-----------------------------------------------------------------------------
(* The two FIFO rings.                                                     *)

CONSTANTS READY, ReadyThreads,   \* the const parameter READY; thread identifiers
          N, Messages,           \* the const parameter N; messages
          Vacant                 \* Option::None in a slot

ASSUME RingsAssumption == READY \in Nat \ {0} /\ N \in Nat \ {0}

VARIABLES ready, ready_head, ready_tail, ready_len,    \* CoreMtss
          buffer, head, tail, len                      \* MessageQueue

readyVars == <<ready, ready_head, ready_tail, ready_len>>
ipcVars == <<buffer, head, tail, len>>

ReadySlots == 0 .. READY - 1
Slots_N == 0 .. N - 1
NoMessages == [i \in Slots_N |-> Vacant]
-----------------------------------------------------------------------------
\* ReadyQueueFull changes nothing.
enqueue(t) == /\ ready_len # READY
              /\ ready' = [ready EXCEPT ![ready_tail] = t]
              /\ ready_tail' = (ready_tail + 1) % READY
              /\ ready_len' = ready_len + 1
              /\ UNCHANGED ready_head

\* ReadyQueueEmpty, for ready_len = 0 or an empty head slot, changes nothing.
dequeue == /\ ready_len # 0
           /\ ready[ready_head] # Vacant
           /\ ready' = [ready EXCEPT ![ready_head] = Vacant]
           /\ ready_head' = (ready_head + 1) % READY
           /\ ready_len' = ready_len - 1
           /\ UNCHANGED ready_tail

ReadyInit == /\ ready = [i \in ReadySlots |-> Vacant]
             /\ ready_head = 0 /\ ready_tail = 0 /\ ready_len = 0

ReadyNext == (\E t \in ReadyThreads : enqueue(t)) \/ dequeue
-----------------------------------------------------------------------------
\* A full queue refuses the message and stays as it is.
push(m) == /\ len # N
           /\ buffer' = [buffer EXCEPT ![tail] = m]
           /\ tail' = (tail + 1) % N
           /\ len' = len + 1
           /\ UNCHANGED head

pop == /\ len # 0
       /\ buffer' = [buffer EXCEPT ![head] = Vacant]
       /\ head' = (head + 1) % N
       /\ len' = len - 1
       /\ UNCHANGED tail

\* Mutant: the slot is cleared before tail is moved back.
RollbackWrongSlot == /\ len # 0
                     /\ buffer' = [buffer EXCEPT ![tail] = Vacant]
                     /\ tail' = (tail + N - 1) % N
                     /\ len' = len - 1
                     /\ UNCHANGED head

rollback_last_push == /\ len # 0
                      /\ tail' = (tail + N - 1) % N
                      /\ buffer' = [buffer EXCEPT ![tail'] = Vacant]
                      /\ len' = len - 1
                      /\ UNCHANGED head

clear == buffer' = NoMessages /\ head' = 0 /\ tail' = 0 /\ len' = 0

IpcInit == buffer = NoMessages /\ head = 0 /\ tail = 0 /\ len = 0

IpcNext == (\E m \in Messages : push(m)) \/ pop \/ rollback_last_push \/ clear

RingsSpec == /\ ReadyInit /\ IpcInit
             /\ [][\/ ReadyNext /\ UNCHANGED ipcVars
                   \/ IpcNext /\ UNCHANGED readyVars]_<<readyVars, ipcVars>>
-----------------------------------------------------------------------------
\* The slot k places after slot h of a ring, and the n entries from h on in the order in
\* which they leave.
At(h, k, cap) == (h + k) % cap
View(b, h, n, cap) == [k \in 1 .. n |-> b[At(h, k - 1, cap)]]

ReadyFifo == INSTANCE FifoQueue WITH
    Records <- ReadyThreads, Capacity <- READY, fifo <- View(ready, ready_head, ready_len, READY)
IpcFifo == INSTANCE FifoQueue WITH
    Records <- Messages, Capacity <- N, fifo <- View(buffer, head, len, N)

\* The ready queue is a FIFO (docs/mtss.md: "FIFO ready queue"), and every call on the
\* message queue does to its messages what its name says: push appends, pop takes the
\* oldest, rollback_last_push takes back the newest and no other, clear empties. Nothing is
\* overwritten, overtaken or handed out twice, wherever head and tail stand in the rings.
RingsAreFifo ==
    /\ ReadyFifo!Spec
    /\ [][/\ \A m \in Messages : push(m) => IpcFifo!Put(m)
          /\ pop => IpcFifo!Take
          /\ rollback_last_push => IpcFifo!Unput
          /\ clear => IpcFifo!Empty]_ipcVars
-----------------------------------------------------------------------------
(* The proof, for every capacity and whatever is stored: both rings are a  *)
(* Ring, tail stands len slots after head, and their operations change the *)
(* view as those of a FIFO.                                                *)

Ring(S, b, h, t, n, cap) ==
    /\ cap \in Nat \ {0} /\ h \in 0 .. cap - 1 /\ n \in 0 .. cap
    /\ t = At(h, n, cap)
    /\ b \in [0 .. cap - 1 -> S \cup {Vacant}]

\* Stepping around the ring: at most one wrap.
LEMMA Wrap ==
  ASSUME NEW cap \in Nat \ {0}, NEW i \in 0 .. cap - 1, NEW k \in 0 .. cap
  PROVE  /\ At(i, k, cap) = IF i + k < cap THEN i + k ELSE i + k - cap
         /\ At(i, k, cap) \in 0 .. cap - 1
BY DEF At

\* What an operation leaves behind: a ring, showing v.
Shows(S, b, h, t, n, cap, v) == Ring(S, b, h, t, n, cap) /\ View(b, h, n, cap) = v

LEMMA PushShows ==
  ASSUME NEW S, NEW b, NEW h, NEW t, NEW n, NEW cap, Ring(S, b, h, t, n, cap), n # cap, NEW x \in S
  PROVE  Shows(S, [b EXCEPT ![t] = x], h, At(t, 1, cap), n + 1, cap, Append(View(b, h, n, cap), x))
<1> DEFINE c == [b EXCEPT ![t] = x]
<1>0. /\ cap \in Nat \ {0} /\ h \in 0 .. cap - 1 /\ n \in 0 .. cap /\ n < cap
      /\ 1 \in 0 .. cap /\ n + 1 \in 0 .. cap /\ t = At(h, n, cap)
  BY DEF Ring
<1>1. t \in 0 .. cap - 1 /\ t = IF h + n < cap THEN h + n ELSE h + n - cap
  BY <1>0, Wrap, Zenon
<1>2. At(t, 1, cap) = At(h, n + 1, cap)
  <2>1. At(t, 1, cap) = IF t + 1 < cap THEN t + 1 ELSE t + 1 - cap
    BY <1>0, <1>1, Wrap, Zenon
  <2>2. At(h, n + 1, cap) = IF h + (n + 1) < cap THEN h + (n + 1) ELSE h + (n + 1) - cap
    BY <1>0, Wrap, Zenon
  <2> QED
    BY <1>0, <1>1, <2>1, <2>2
<1>3. Ring(S, c, h, At(t, 1, cap), n + 1, cap)
  BY <1>1, <1>2 DEF Ring
<1>4. ASSUME NEW k \in 1 .. n PROVE c[At(h, k - 1, cap)] = b[At(h, k - 1, cap)]
  <2>0. k - 1 \in 0 .. cap /\ k - 1 < n
    BY <1>0
  <2>2. /\ At(h, k - 1, cap) \in 0 .. cap - 1
        /\ At(h, k - 1, cap) = IF h + (k - 1) < cap THEN h + (k - 1) ELSE h + (k - 1) - cap
    BY <1>0, <2>0, Wrap, Zenon
  <2>1. At(h, k - 1, cap) \in 0 .. cap - 1 /\ At(h, k - 1, cap) # t
    BY <1>0, <1>1, <2>0, <2>2
  <2> QED
    BY <2>1 DEF Ring
<1>5. c[At(h, n, cap)] = x
  BY <1>1 DEF Ring
<1>6. View(c, h, n + 1, cap) = Append(View(b, h, n, cap), x)
  <2>1. n \in Nat /\ (n + 1) - 1 = n
    BY DEF Ring
  <2>2. ASSUME NEW k \in 1 .. n + 1
        PROVE  c[At(h, k - 1, cap)] = IF k = n + 1 THEN x ELSE b[At(h, k - 1, cap)]
    BY <1>4, <1>5, <2>1
  <2> HIDE DEF c
  <2> QED
    BY <2>1, <2>2 DEF View
<1> QED
  BY <1>3, <1>6, Zenon DEF Shows, c

LEMMA PopShows ==
  ASSUME NEW S, NEW b, NEW h, NEW t, NEW n, NEW cap, Ring(S, b, h, t, n, cap), n # 0
  PROVE  Shows(S, [b EXCEPT ![h] = Vacant], At(h, 1, cap), t, n - 1, cap, Tail(View(b, h, n, cap)))
<1> DEFINE c == [b EXCEPT ![h] = Vacant]
           g == At(h, 1, cap)
<1>0. /\ cap \in Nat \ {0} /\ h \in 0 .. cap - 1 /\ n \in 0 .. cap /\ n > 0
      /\ 1 \in 0 .. cap /\ n - 1 \in 0 .. cap /\ t = At(h, n, cap)
  BY DEF Ring
<1>1. g \in 0 .. cap - 1 /\ g = IF h + 1 < cap THEN h + 1 ELSE h + 1 - cap
  BY <1>0, Wrap, Zenon
<1> HIDE DEF g
<1>2. n - 1 \in 0 .. cap /\ At(g, n - 1, cap) = t
  <2>1. At(g, n - 1, cap) = IF g + (n - 1) < cap THEN g + (n - 1) ELSE g + (n - 1) - cap
    BY <1>0, <1>1, Wrap, Zenon
  <2>2. At(h, n, cap) = IF h + n < cap THEN h + n ELSE h + n - cap
    BY <1>0, Wrap, Zenon
  <2> QED
    BY <1>0, <1>1, <2>1, <2>2
<1>3. Ring(S, c, g, t, n - 1, cap)
  BY <1>1, <1>2 DEF Ring
<1>4. ASSUME NEW k \in 1 .. n - 1 PROVE c[At(g, k - 1, cap)] = b[At(h, k, cap)]
  <2>0. k - 1 \in 0 .. cap /\ k \in 0 .. cap /\ k < cap /\ k > 0
    BY <1>0
  <2>2. At(g, k - 1, cap) = IF g + (k - 1) < cap THEN g + (k - 1) ELSE g + (k - 1) - cap
    BY <1>0, <1>1, <2>0, Wrap, Zenon
  <2>3. /\ At(h, k, cap) = IF h + k < cap THEN h + k ELSE h + k - cap
        /\ At(h, k, cap) \in 0 .. cap - 1
    BY <1>0, <2>0, Wrap, Zenon
  <2>1. At(g, k - 1, cap) = At(h, k, cap) /\ At(h, k, cap) \in 0 .. cap - 1 /\ At(h, k, cap) # h
    BY <1>0, <1>1, <2>0, <2>2, <2>3
  <2> QED
    BY <2>1 DEF Ring
<1>5. View(c, g, n - 1, cap) = Tail(View(b, h, n, cap))
  <2>1. n \in Nat /\ n # 0 /\ \A k \in 1 .. n - 1 : (k + 1) - 1 = k
    BY DEF Ring
  <2> HIDE DEF c
  <2> QED
    BY <1>4, <2>1 DEF View
<1> QED
  BY <1>3, <1>5, Zenon DEF Shows, c, g

LEMMA RollbackShows ==
  ASSUME NEW S, NEW b, NEW h, NEW t, NEW n, NEW cap, Ring(S, b, h, t, n, cap), n # 0,
         NEW u, u = At(t, cap - 1, cap)
  PROVE  Shows(S, [b EXCEPT ![u] = Vacant], h, u, n - 1, cap, SubSeq(View(b, h, n, cap), 1, n - 1))
<1> DEFINE c == [b EXCEPT ![u] = Vacant]
<1>0. /\ cap \in Nat \ {0} /\ h \in 0 .. cap - 1 /\ n \in 0 .. cap /\ n > 0
      /\ cap - 1 \in 0 .. cap /\ n - 1 \in 0 .. cap /\ t = At(h, n, cap)
  BY DEF Ring
<1>1. t \in 0 .. cap - 1 /\ t = IF h + n < cap THEN h + n ELSE h + n - cap
  BY <1>0, Wrap, Zenon
<1>2. u = At(h, n - 1, cap) /\ u \in 0 .. cap - 1
  <2>1. u = IF t + (cap - 1) < cap THEN t + (cap - 1) ELSE t + (cap - 1) - cap
    BY <1>0, <1>1, Wrap, Zenon
  <2>2. /\ At(h, n - 1, cap) = IF h + (n - 1) < cap THEN h + (n - 1) ELSE h + (n - 1) - cap
        /\ At(h, n - 1, cap) \in 0 .. cap - 1
    BY <1>0, <1>1, Wrap, Zenon
  <2> QED
    BY <1>0, <1>1, <2>1, <2>2
<1>3. Ring(S, c, h, u, n - 1, cap)
  BY <1>0, <1>1, <1>2 DEF Ring
<1>4. ASSUME NEW k \in 1 .. n - 1 PROVE c[At(h, k - 1, cap)] = b[At(h, k - 1, cap)]
  <2>0. k - 1 \in 0 .. cap /\ k - 1 < n - 1 /\ n - 1 \in 0 .. cap
    BY <1>0
  <2>2. /\ At(h, k - 1, cap) \in 0 .. cap - 1
        /\ At(h, k - 1, cap) = IF h + (k - 1) < cap THEN h + (k - 1) ELSE h + (k - 1) - cap
    BY <1>0, <2>0, Wrap, Zenon
  <2>3. At(h, n - 1, cap) = IF h + (n - 1) < cap THEN h + (n - 1) ELSE h + (n - 1) - cap
    BY <1>0, <2>0, Wrap, Zenon
  <2>1. At(h, k - 1, cap) \in 0 .. cap - 1 /\ At(h, k - 1, cap) # u
    BY <1>0, <1>2, <2>0, <2>2, <2>3
  <2> QED
    BY <2>1 DEF Ring
<1>5. View(c, h, n - 1, cap) = SubSeq(View(b, h, n, cap), 1, n - 1)
  <2>1. n \in Nat /\ n # 0
    BY DEF Ring
  <2> HIDE DEF c
  <2> QED
    BY <1>4, <2>1 DEF View
<1> QED
  BY <1>3, <1>5, Zenon DEF Shows, c

-----------------------------------------------------------------------------
\* Both rings, as the invariant of the two components.
ReadyRing == Ring(ReadyThreads, ready, ready_head, ready_tail, ready_len, READY)
IpcRing == Ring(Messages, buffer, head, tail, len, N)
ReadyView == View(ready, ready_head, ready_len, READY)
IpcView == View(buffer, head, len, N)

\* A view has as many entries as its ring.
LEMMA ViewLen ==
  ASSUME NEW S, NEW b, NEW h, NEW t, NEW n, NEW cap, Ring(S, b, h, t, n, cap)
  PROVE  Len(View(b, h, n, cap)) = n /\ (n # 0 => View(b, h, n, cap) # <<>>)
BY DEF Ring, View

LEMMA ReadyLen ==
  ASSUME ReadyRing
  PROVE  /\ Len(ReadyView) = ready_len /\ (ready_len # 0 => ReadyView # <<>>)
         /\ ready_len \in 0 .. READY
<1>1. Len(ReadyView) = ready_len /\ (ready_len # 0 => ReadyView # <<>>)
  BY ViewLen DEF ReadyRing, ReadyView
<1>2. ready_len \in 0 .. READY
  BY Zenon DEF ReadyRing, Ring
<1> QED
  BY <1>1, <1>2

LEMMA IpcLen ==
  ASSUME IpcRing
  PROVE  /\ Len(IpcView) = len /\ (len # 0 => IpcView # <<>>)
         /\ len \in 0 .. N
<1>1. Len(IpcView) = len /\ (len # 0 => IpcView # <<>>)
  BY ViewLen DEF IpcRing, IpcView
<1>2. len \in 0 .. N
  BY Zenon DEF IpcRing, Ring
<1> QED
  BY <1>1, <1>2

\* An empty ring.
LEMMA FreshRing ==
  ASSUME NEW S, NEW cap \in Nat \ {0}
  PROVE  Shows(S, [i \in 0 .. cap - 1 |-> Vacant], 0, 0, 0, cap, <<>>)
<1>1. At(0, 0, cap) = 0
  BY DEF At
<1> QED
  BY <1>1 DEF Shows, Ring, View

LEMMA EnqueueShows ==
  ASSUME ReadyRing, NEW t \in ReadyThreads, enqueue(t)
  PROVE  ReadyRing' /\ ReadyView' = Append(ReadyView, t)
<1>1. Shows(ReadyThreads, [ready EXCEPT ![ready_tail] = t], ready_head, At(ready_tail, 1, READY),
            ready_len + 1, READY, Append(ReadyView, t))
  BY PushShows, Zenon DEF ReadyRing, ReadyView, enqueue
<1>2. Shows(ReadyThreads, ready', ready_head', ready_tail', ready_len', READY, Append(ReadyView, t))
  BY <1>1, Zenon DEF enqueue, At
<1> QED
  BY <1>2, Zenon DEF Shows, ReadyRing, ReadyView

LEMMA DequeueShows ==
  ASSUME ReadyRing, dequeue
  PROVE  ReadyRing' /\ ReadyView' = Tail(ReadyView)
<1>1. Shows(ReadyThreads, [ready EXCEPT ![ready_head] = Vacant], At(ready_head, 1, READY), ready_tail,
            ready_len - 1, READY, Tail(ReadyView))
  BY PopShows, Zenon DEF ReadyRing, ReadyView, dequeue
<1>2. Shows(ReadyThreads, ready', ready_head', ready_tail', ready_len', READY, Tail(ReadyView))
  BY <1>1, Zenon DEF dequeue, At
<1> QED
  BY <1>2, Zenon DEF Shows, ReadyRing, ReadyView

LEMMA MessagePushShows ==
  ASSUME IpcRing, NEW m \in Messages, push(m)
  PROVE  IpcRing' /\ IpcView' = Append(IpcView, m)
<1>1. Shows(Messages, [buffer EXCEPT ![tail] = m], head, At(tail, 1, N), len + 1, N, Append(IpcView, m))
  BY PushShows, Zenon DEF IpcRing, IpcView, push
<1>2. Shows(Messages, buffer', head', tail', len', N, Append(IpcView, m))
  BY <1>1, Zenon DEF push, At
<1> QED
  BY <1>2, Zenon DEF Shows, IpcRing, IpcView

LEMMA MessagePopShows ==
  ASSUME IpcRing, pop
  PROVE  IpcRing' /\ IpcView' = Tail(IpcView)
<1>1. Shows(Messages, [buffer EXCEPT ![head] = Vacant], At(head, 1, N), tail, len - 1, N, Tail(IpcView))
  BY PopShows, Zenon DEF IpcRing, IpcView, pop
<1>2. Shows(Messages, buffer', head', tail', len', N, Tail(IpcView))
  BY <1>1, Zenon DEF pop, At
<1> QED
  BY <1>2, Zenon DEF Shows, IpcRing, IpcView

LEMMA MessageRollbackShows ==
  ASSUME IpcRing, rollback_last_push
  PROVE  IpcRing' /\ IpcView' = SubSeq(IpcView, 1, len - 1)
<1>1. tail' = At(tail, N - 1, N)
  <2>1. tail \in Nat /\ N \in Nat \ {0}
    BY Wrap DEF IpcRing, Ring
  <2>2. tail + N - 1 = tail + (N - 1)
    BY <2>1
  <2> QED
    BY <2>2, Zenon DEF rollback_last_push, At
<1>2. Shows(Messages, [buffer EXCEPT ![tail'] = Vacant], head, tail', len - 1, N, SubSeq(IpcView, 1, len - 1))
  BY <1>1, RollbackShows, Zenon DEF IpcRing, IpcView, rollback_last_push
<1>3. Shows(Messages, buffer', head', tail', len', N, SubSeq(IpcView, 1, len - 1))
  BY <1>2, Zenon DEF rollback_last_push
<1> QED
  BY <1>3, Zenon DEF Shows, IpcRing, IpcView

LEMMA ClearShows == clear => IpcRing' /\ IpcView' = <<>>
<1> SUFFICES ASSUME clear PROVE IpcRing' /\ IpcView' = <<>>
  OBVIOUS
<1>1. Shows(Messages, NoMessages, 0, 0, 0, N, <<>>)
  BY FreshRing, RingsAssumption DEF NoMessages, Slots_N
<1>2. Shows(Messages, buffer', head', tail', len', N, <<>>)
  BY <1>1, Zenon DEF clear
<1> QED
  BY <1>2, Zenon DEF Shows, IpcRing, IpcView

\* The ready queue of CoreMtss implements a bounded FIFO, and push, pop, rollback_last_push
\* and clear of the message queue are the FIFO's own operations, for every capacity.
THEOREM RingsStayFifo == RingsSpec => RingsAreFifo
<1> DEFINE Either == \/ ReadyNext /\ UNCHANGED ipcVars
                     \/ IpcNext /\ UNCHANGED readyVars
           Inv == ReadyRing /\ IpcRing
           Calls == /\ \A m \in Messages : push(m) => IpcFifo!Put(m)
                    /\ pop => IpcFifo!Take
                    /\ rollback_last_push => IpcFifo!Unput
                    /\ clear => IpcFifo!Empty
<1>1. ReadyInit /\ IpcInit => Inv /\ ReadyFifo!Init
  <2> SUFFICES ASSUME ReadyInit, IpcInit PROVE Inv /\ ReadyFifo!Init
    OBVIOUS
  <2>1. Shows(ReadyThreads, ready, ready_head, ready_tail, ready_len, READY, <<>>)
    BY FreshRing, RingsAssumption DEF ReadyInit, ReadySlots
  <2>2. Shows(Messages, buffer, head, tail, len, N, <<>>)
    BY FreshRing, RingsAssumption DEF IpcInit, NoMessages, Slots_N
  <2> QED
    BY <2>1, <2>2, Zenon DEF Shows, ReadyRing, IpcRing, ReadyFifo!Init
<1>2. ASSUME ReadyRing, [ReadyNext]_readyVars
      PROVE  ReadyRing' /\ [ReadyFifo!Next]_ReadyView
  <2>1. ASSUME NEW t \in ReadyThreads, enqueue(t) PROVE ReadyRing' /\ ReadyFifo!Put(t)
    <3>1. ready_len < READY /\ Len(ReadyView) = ready_len
      BY <1>2, <2>1, ReadyLen, RingsAssumption DEF enqueue
    <3> QED
      BY <1>2, <2>1, <3>1, EnqueueShows, Zenon DEF ReadyFifo!Put, ReadyView
  <2>2. ASSUME dequeue PROVE ReadyRing' /\ ReadyFifo!Take
    <3>1. ReadyView # <<>>
      BY <1>2, <2>2, ReadyLen, Zenon DEF dequeue
    <3> QED
      BY <1>2, <2>2, <3>1, DequeueShows, Zenon DEF ReadyFifo!Take, ReadyView
  <2>3. CASE UNCHANGED readyVars
    BY <1>2, <2>3 DEF readyVars, ReadyRing, ReadyView
  <2> QED
    BY <1>2, <2>1, <2>2, <2>3, Zenon DEF ReadyNext, ReadyFifo!Next
<1>3. ASSUME IpcRing, [IpcNext]_ipcVars PROVE IpcRing'
  <2>1. ASSUME NEW m \in Messages, push(m) PROVE IpcRing'
    BY <1>3, <2>1, MessagePushShows, Zenon
  <2>2. CASE UNCHANGED ipcVars
    BY <1>3, <2>2 DEF ipcVars, IpcRing
  <2> QED
    BY <1>3, <2>1, <2>2, MessagePopShows, MessageRollbackShows, ClearShows, Zenon DEF IpcNext
<1>4. ASSUME IpcRing PROVE Calls
  <2>1. ASSUME NEW m \in Messages, push(m) PROVE IpcFifo!Put(m)
    <3>1. len < N /\ Len(IpcView) = len
      BY <1>4, <2>1, IpcLen, RingsAssumption DEF push
    <3> QED
      BY <1>4, <2>1, <3>1, MessagePushShows, Zenon DEF IpcFifo!Put, IpcView
  <2>2. ASSUME pop PROVE IpcFifo!Take
    <3>1. IpcView # <<>>
      BY <1>4, <2>2, IpcLen, Zenon DEF pop
    <3> QED
      BY <1>4, <2>2, <3>1, MessagePopShows, Zenon DEF IpcFifo!Take, IpcView
  <2>3. ASSUME rollback_last_push PROVE IpcFifo!Unput
    <3>1. IpcView # <<>> /\ Len(IpcView) = len
      BY <1>4, <2>3, IpcLen, Zenon DEF rollback_last_push
    <3> QED
      BY <1>4, <2>3, <3>1, MessageRollbackShows, Zenon DEF IpcFifo!Unput, IpcView
  <2>4. ASSUME clear PROVE IpcFifo!Empty
    BY <2>4, ClearShows, Zenon DEF IpcFifo!Empty, IpcView
  <2> QED
    BY <2>1, <2>2, <2>3, <2>4, Zenon
<1>5. Inv /\ [Either]_<<readyVars, ipcVars>> =>
          Inv' /\ [ReadyFifo!Next]_(View(ready, ready_head, ready_len, READY)) /\ [Calls]_ipcVars
  <2> SUFFICES ASSUME Inv, [Either]_<<readyVars, ipcVars>>
               PROVE  Inv' /\ [ReadyFifo!Next]_ReadyView /\ [Calls]_ipcVars
    BY Zenon DEF ReadyView
  <2>1. [ReadyNext]_readyVars /\ [IpcNext]_ipcVars
    BY Zenon
  <2> HIDE DEF Calls
  <2> QED
    BY <2>1, <1>2, <1>3, <1>4, Zenon
<1> HIDE DEF Inv
<1> QED
  BY <1>1, <1>5, PTL DEF RingsSpec, RingsAreFifo, ReadyFifo!Spec
=============================================================================

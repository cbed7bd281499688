------------------------------ MODULE RunQueue ------------------------------
(***************************************************************************)
(* The fixed-capacity run queue of MTSS (crates/mirage-mtss/src/           *)
(* run_queue.rs) as operators on a ring q = [queue, head, tail, len].      *)
(* A schedule record is represented by the thread it names: its process is *)
(* a function of the thread and its slice fields are never read back.      *)
(***************************************************************************)
EXTENDS Integers, FiniteSets

CONSTANTS MAX,     \* RUN_QUEUE_DEPTH, the const parameter MAX
          None     \* Option::None

ASSUME MaxAssumption == MAX \in Nat \ {0}

Slots == 0 .. MAX - 1

Step(i, k) == (i + k) % MAX

New == [queue |-> [i \in Slots |-> None], head |-> 0, tail |-> 0, len |-> 0]

\* The slots that hold a record.
Live(q) == {i \in Slots : q.queue[i] # None}

IsFull(q) == q.len = MAX

\* enqueue and requeue on a queue that is not full: the slot at tail is
\* written without looking at what it holds.
Enqueue(q, r) ==
    [queue |-> [q.queue EXCEPT ![q.tail] = r],
     head  |-> q.head,
     tail  |-> Step(q.tail, 1),
     len   |-> q.len + 1]

\* The slot `next` stops at: the first one from head that holds a record.
FirstLive(q) ==
    LET k == CHOOSE k \in Slots :
                /\ q.queue[Step(q.head, k)] # None
                /\ \A j \in 0 .. k - 1 : q.queue[Step(q.head, j)] = None
    IN Step(q.head, k)

HasNext(q) == q.len # 0 /\ Live(q) # {}

\* Mutant: the slot is not cleared.
TakeNextKeeping(q) ==
    [queue |-> q.queue, head |-> Step(FirstLive(q), 1), tail |-> q.tail, len |-> q.len - 1]

\* The queue after a `next` that returns q.queue[FirstLive(q)].
TakeNext(q) ==
    [queue |-> [q.queue EXCEPT ![FirstLive(q)] = None],
     head  |-> Step(FirstLive(q), 1),
     tail  |-> q.tail,
     len   |-> q.len - 1]

\* The queue after a `next` that returns None: a queue whose len is not
\* zero and that holds nothing is reset.
AfterNone(q) ==
    IF q.len = 0 THEN q ELSE [q EXCEPT !.head = 0, !.tail = 0, !.len = 0]

\* Mutant: len is decremented once too often.
RemoveMatchingExtra(q, R) ==
    LET gone == {i \in Live(q) : q.queue[i] \in R}
        left == q.len - Cardinality(gone) - 1
    IN [q EXCEPT !.queue = [i \in Slots |-> IF i \in gone THEN None ELSE q.queue[i]],
                 !.len   = IF left < 0 THEN 0 ELSE left]

\* remove_matching for the records R: clears their slots and leaves head and tail
\* where they are; len is decremented once for each, not below zero.
RemoveMatching(q, R) ==
    LET gone == {i \in Live(q) : q.queue[i] \in R}
        left == q.len - Cardinality(gone)
    IN [q EXCEPT !.queue = [i \in Slots |-> IF i \in gone THEN None ELSE q.queue[i]],
                 !.len   = IF left < 0 THEN 0 ELSE left]

RemoveThread(q, t) == RemoveMatching(q, {t})

Queued(q, t) == \E i \in Slots : q.queue[i] = t
=============================================================================

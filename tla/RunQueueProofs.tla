--------------------------- MODULE RunQueueProofs ---------------------------
(***************************************************************************)
(* What the operations of the run queue do to a ring, for every capacity   *)
(* and every set of threads. Rings and MtssSpec build on it.               *)
(***************************************************************************)
EXTENDS RunQueue, FiniteSetTheorems, WellFoundedInduction, TLAPS

\* Stepping around the ring stays in the array.
LEMMA StepInRing == \A i \in Nat, n \in Nat : Step(i, n) \in Slots
  BY MaxAssumption DEF Step, Slots

\* From head every slot is reached within MAX steps.
LEMMA StepReaches ==
  ASSUME NEW i \in Slots, NEW h \in Slots
  PROVE  \E n \in Slots : Step(h, n) = i
<1>1. CASE h <= i
  <2>1. i - h \in Slots /\ (h + (i - h)) % MAX = i
    BY <1>1, MaxAssumption DEF Slots
  <2> QED
    BY <2>1 DEF Step
<1>2. CASE i < h
  <2>1. i - h + MAX \in Slots /\ h + (i - h + MAX) = i + MAX
    BY <1>2, MaxAssumption DEF Slots
  <2>2. (i + MAX) % MAX = i
    BY MaxAssumption DEF Slots
  <2> QED
    BY <2>1, <2>2 DEF Step
<1> QED
  BY <1>1, <1>2 DEF Slots

\* A non-empty set of naturals has a least element.
LEMMA LeastExists ==
  ASSUME NEW S \in SUBSET Nat, S # {}
  PROVE  \E n \in S : \A m \in S : n <= m
<1> DEFINE R == {ss \in Nat \X Nat : ss[1] < ss[2]}
<1>1. IsWellFoundedOn(R, Nat)
  BY NatLessThanWellFounded, Zenon DEF OpToRel
<1> HIDE DEF R
<1>2. PICK n \in S : \A m \in S : ~(<<m, n>> \in R)
  BY <1>1, WFMin, Zenon
<1>3. ASSUME NEW m \in S PROVE n <= m
  <2>1. m \in Nat /\ n \in Nat /\ (m < n => <<m, n>> \in R)
    BY DEF R
  <2> QED
    BY <1>2, <2>1
<1> QED
  BY <1>3

\* The slot next stops at holds a record.
LEMMA FirstLiveIsLive ==
  ASSUME NEW q, q.head \in Slots, Live(q) # {}
  PROVE  FirstLive(q) \in Live(q)
<1> DEFINE Found(n) == q.queue[Step(q.head, n)] # None
           S == {n \in Slots : Found(n)}
<1>1. S # {} /\ S \subseteq Nat
  <2>1. PICK i \in Slots : q.queue[i] # None
    BY DEF Live
  <2>2. PICK n \in Slots : Step(q.head, n) = i
    BY <2>1, StepReaches, Zenon
  <2> QED
    BY <2>1, <2>2 DEF Slots
<1>2. PICK n \in S : \A m \in S : n <= m
  BY <1>1, LeastExists, Zenon
<1>3. /\ n \in Slots
      /\ q.queue[Step(q.head, n)] # None
      /\ \A j \in 0 .. n - 1 : q.queue[Step(q.head, j)] = None
  <2>1. n \in Slots /\ n \in Nat
    BY <1>2 DEF Slots
  <2>2. \A j \in 0 .. n - 1 : j \in Slots /\ ~(n <= j)
    BY <2>1, MaxAssumption DEF Slots
  <2> QED
    BY <1>2, <2>1, <2>2
<1> DEFINE c == CHOOSE k \in Slots :
                /\ q.queue[Step(q.head, k)] # None
                /\ \A j \in 0 .. k - 1 : q.queue[Step(q.head, j)] = None
<1>4. c \in Slots /\ q.queue[Step(q.head, c)] # None
  BY <1>3
<1>5. FirstLive(q) = Step(q.head, c)
  BY DEF FirstLive
<1>6. Step(q.head, c) \in Slots
  <2>1. q.head \in Nat /\ c \in Nat
    BY <1>4 DEF Slots
  <2> HIDE DEF c
  <2> QED
    BY <2>1, StepInRing
<1> QED
  BY <1>4, <1>5, <1>6 DEF Live

\* The occupied slots are finitely many.
LEMMA LiveFinite ==
  ASSUME NEW q
  PROVE  IsFiniteSet(Live(q)) /\ Cardinality(Live(q)) \in Nat
<1>1. IsFiniteSet(Slots)
  BY MaxAssumption, FS_Interval DEF Slots
<1>2. Live(q) \in SUBSET Slots
  BY DEF Live
<1> QED
  BY <1>1, <1>2, FS_Subset, FS_CardinalityType
-----------------------------------------------------------------------------
(* Each operation keeps the ring well formed and len at least the number   *)
(* of records.                                                             *)
Rings(T) == [queue : [Slots -> T \cup {None}],
             head : Slots, tail : Slots, len : 0 .. MAX]
Counted(T, q) == q \in Rings(T) /\ Cardinality(Live(q)) <= q.len

\* MtssRunQueue::new
LEMMA CountedNew ==
  ASSUME NEW T
  PROVE  Counted(T, New)
<1>1. New \in Rings(T)
  BY MaxAssumption DEF New, Rings, Slots
<1>2. Live(New) = {}
  BY DEF Live, New
<1>3. Cardinality(Live(New)) = 0
  BY <1>2, FS_EmptySet
<1> QED
  BY <1>1, <1>3 DEF Counted, New

\* enqueue on a queue that is not full, even when it overwrites a record.
LEMMA CountedEnqueue ==
  ASSUME NEW T, NEW q, Counted(T, q), ~IsFull(q), NEW t \in T
  PROVE  Counted(T, Enqueue(q, t))
<1> DEFINE e == Enqueue(q, t)
<1>1. q \in Rings(T) /\ q.len \in 0 .. MAX - 1 /\ q.tail \in Slots
  BY MaxAssumption DEF Counted, IsFull, Rings
<1>2. e \in Rings(T) /\ e.len = q.len + 1
  <2>1. Step(q.tail, 1) \in Slots
    <3>1. q.tail \in Nat
      BY <1>1 DEF Slots
    <3> QED
      BY <3>1, StepInRing
  <2>2. [q.queue EXCEPT ![q.tail] = t] \in [Slots -> T \cup {None}]
    BY <1>1 DEF Rings
  <2>3. q.len + 1 \in 0 .. MAX /\ q.head \in Slots
    BY <1>1, MaxAssumption DEF Rings
  <2> QED
    BY <2>1, <2>2, <2>3 DEF Enqueue, Rings
<1>3. Live(e) \in SUBSET (Live(q) \cup {q.tail})
  BY <1>1 DEF Live, Enqueue, Rings
<1> HIDE DEF e
<1>4. /\ IsFiniteSet(Live(q) \cup {q.tail})
      /\ Cardinality(Live(q) \cup {q.tail}) =
            IF q.tail \in Live(q) THEN Cardinality(Live(q)) ELSE Cardinality(Live(q)) + 1
  BY LiveFinite, FS_AddElement
<1>5. Cardinality(Live(e)) <= Cardinality(Live(q) \cup {q.tail})
  BY <1>3, <1>4, FS_Subset
<1>6. Cardinality(Live(q)) \in Nat /\ Cardinality(Live(e)) \in Nat
      /\ Cardinality(Live(q)) <= q.len
  BY LiveFinite DEF Counted
<1>7. Cardinality(Live(e)) <= e.len
  BY <1>1, <1>2, <1>4, <1>5, <1>6
<1> QED
  BY <1>2, <1>7 DEF Counted, e

\* next, when it finds a record.
LEMMA CountedTakeNext ==
  ASSUME NEW T, NEW q, Counted(T, q), HasNext(q)
  PROVE  Counted(T, TakeNext(q))
<1> DEFINE e == TakeNext(q)
           f == FirstLive(q)
<1>1. q \in Rings(T) /\ q.len \in 1 .. MAX /\ f \in Live(q) /\ f \in Slots
  <2>1. q \in Rings(T) /\ q.len # 0 /\ Live(q) # {} /\ q.head \in Slots
    BY DEF Counted, HasNext, Rings
  <2>2. f \in Live(q)
    BY <2>1, FirstLiveIsLive
  <2>3. q.len \in 1 .. MAX
    BY <2>1, MaxAssumption DEF Rings
  <2> QED
    BY <2>1, <2>2, <2>3 DEF Live
<1> HIDE DEF f
<1>2. e \in Rings(T) /\ e.len = q.len - 1
  <2>1. Step(f, 1) \in Slots
    BY <1>1, StepInRing DEF Slots
  <2> QED
    BY <1>1, <2>1, MaxAssumption DEF TakeNext, Rings, f
<1>3. Live(e) = Live(q) \ {f}
  BY <1>1 DEF Live, TakeNext, Rings, f
<1> HIDE DEF e
<1>4. Cardinality(Live(e)) = Cardinality(Live(q)) - 1
  BY <1>1, <1>3, LiveFinite, FS_RemoveElement, Zenon
<1>5. Cardinality(Live(e)) <= e.len
  BY <1>1, <1>2, <1>4, LiveFinite DEF Counted
<1> QED
  BY <1>2, <1>5 DEF Counted, e

\* Clearing a set of occupied slots and decrementing len once for each.
LEMMA CountedRemove ==
  ASSUME NEW T, NEW q, Counted(T, q), NEW G, NEW e,
         e = [q EXCEPT !.queue = [i \in Slots |-> IF i \in G THEN None ELSE q.queue[i]],
                       !.len = IF q.len - Cardinality(G) < 0 THEN 0
                               ELSE q.len - Cardinality(G)],
         G \in SUBSET Live(q)
  PROVE  Counted(T, e)
<1>1. q \in Rings(T) /\ q.len \in 0 .. MAX /\ Cardinality(Live(q)) <= q.len
  BY DEF Counted, Rings
<1>2. /\ IsFiniteSet(G) /\ Cardinality(G) \in Nat /\ Cardinality(G) <= Cardinality(Live(q))
      /\ Cardinality(Live(q)) \in Nat
  BY LiveFinite, FS_Subset, FS_CardinalityType
<1>3. e.len = q.len - Cardinality(G) /\ e.len \in 0 .. MAX
  <2>1. e.len = IF q.len - Cardinality(G) < 0 THEN 0 ELSE q.len - Cardinality(G)
    BY <1>1 DEF Rings
  <2> QED
    BY <1>1, <1>2, <2>1, MaxAssumption
<1>4. e \in Rings(T)
  <2>1. e = [queue |-> [i \in Slots |-> IF i \in G THEN None ELSE q.queue[i]],
             head |-> q.head, tail |-> q.tail, len |-> e.len]
    BY <1>1, <1>3, Zenon DEF Rings
  <2> QED
    BY <1>1, <1>3, <2>1, Zenon DEF Rings
<1>5. Live(e) = Live(q) \ G
  <2>1. \A i \in Slots : e.queue[i] = IF i \in G THEN None ELSE q.queue[i]
    BY <1>1 DEF Rings
  <2> QED
    BY <2>1 DEF Live
<1>6. Cardinality(Live(e)) = Cardinality(Live(q)) - Cardinality(G)
  <2>1. Cardinality(Live(q) \ G) = Cardinality(Live(q)) - Cardinality(Live(q) \cap G)
    BY LiveFinite, FS_Difference, Zenon
  <2>2. Live(q) \cap G = G
    OBVIOUS
  <2> QED
    BY <1>5, <2>1, <2>2, Zenon
<1> QED
  BY <1>1, <1>2, <1>3, <1>4, <1>6 DEF Counted

\* remove_matching
LEMMA CountedRemoveMatching ==
  ASSUME NEW T, NEW q, Counted(T, q), NEW R
  PROVE  Counted(T, RemoveMatching(q, R))
<1> DEFINE G == {i \in Live(q) : q.queue[i] \in R}
<1>1. RemoveMatching(q, R) =
        [q EXCEPT !.queue = [i \in Slots |-> IF i \in G THEN None ELSE q.queue[i]],
                  !.len = IF q.len - Cardinality(G) < 0 THEN 0 ELSE q.len - Cardinality(G)]
  BY DEF RemoveMatching
<1>2. G \in SUBSET Live(q)
  OBVIOUS
<1> HIDE DEF G
<1> QED
  BY <1>1, <1>2, CountedRemove, Zenon

-----------------------------------------------------------------------------
(* What each operation does to the records: it adds the one it is given,   *)
(* takes the one it returns, or removes those that match.                  *)
LEMMA QueuedNew ==
  ASSUME NEW r, r # None
  PROVE  ~Queued(New, r)
  BY DEF Queued, New

\* An enqueue brings in its own record and no other.
LEMMA QueuedEnqueue ==
  ASSUME NEW T, NEW q, Counted(T, q), NEW t, NEW r, Queued(Enqueue(q, t), r)
  PROVE  r = t \/ Queued(q, r)
  BY DEF Queued, Enqueue, Counted, Rings

\* The record `next` returns was queued, and no other comes up.
LEMMA QueuedTakeNext ==
  ASSUME NEW T, NEW q, Counted(T, q), HasNext(q)
  PROVE  /\ q.queue[FirstLive(q)] \in T
         /\ q.queue[FirstLive(q)] # None
         /\ Queued(q, q.queue[FirstLive(q)])
         /\ \A r : Queued(TakeNext(q), r) /\ r # None => Queued(q, r)
<1>1. q.head \in Slots /\ Live(q) # {} /\ q \in Rings(T)
  BY DEF Counted, Rings, HasNext
<1>2. FirstLive(q) \in Live(q)
  BY <1>1, FirstLiveIsLive
<1>3. FirstLive(q) \in Slots /\ q.queue[FirstLive(q)] # None
  BY <1>2 DEF Live
<1>4. q.queue[FirstLive(q)] \in T
  BY <1>1, <1>3 DEF Rings
<1>5. \A r : Queued(TakeNext(q), r) /\ r # None => Queued(q, r)
  <2> DEFINE f == FirstLive(q)
  <2>1. TakeNext(q).queue = [q.queue EXCEPT ![f] = None]
    BY DEF TakeNext
  <2>2. q.queue \in [Slots -> T \cup {None}]
    BY <1>1 DEF Rings
  <2> HIDE DEF f
  <2> QED
    BY <2>1, <2>2 DEF Queued
<1> QED
  BY <1>3, <1>4, <1>5 DEF Queued

\* A `next` that finds nothing leaves the slots alone.
LEMMA CountedAfterNone ==
  ASSUME NEW T, NEW q, Counted(T, q), ~HasNext(q)
  PROVE  Counted(T, AfterNone(q)) /\ AfterNone(q).queue = q.queue
<1>1. CASE q.len = 0
  BY <1>1 DEF AfterNone
<1>2. CASE q.len # 0
  <2>1. Live(q) = {} /\ AfterNone(q) = [q EXCEPT !.head = 0, !.tail = 0, !.len = 0]
    BY <1>2 DEF HasNext, AfterNone
  <2>2. q \in Rings(T) /\ 0 \in Slots /\ 0 \in 0 .. MAX
    BY MaxAssumption DEF Counted, Slots
  <2>3. AfterNone(q) = [queue |-> q.queue, head |-> 0, tail |-> 0, len |-> 0]
    BY <2>1, <2>2, Zenon DEF Rings
  <2>4. AfterNone(q) \in Rings(T) /\ AfterNone(q).len = 0 /\ AfterNone(q).queue = q.queue
    BY <2>2, <2>3 DEF Rings
  <2>5. Live(AfterNone(q)) = {}
    BY <2>1, <2>4 DEF Live
  <2> QED
    BY <2>4, <2>5, FS_EmptySet DEF Counted
<1> QED
  BY <1>1, <1>2

\* remove_matching leaves the records that do not match, and only those.
LEMMA QueuedRemove ==
  ASSUME NEW T, NEW q, Counted(T, q), NEW R, NEW r, r # None,
         Queued(RemoveMatching(q, R), r)
  PROVE  Queued(q, r) /\ r \notin R
<1> DEFINE G == {i \in Live(q) : q.queue[i] \in R}
<1>1. RemoveMatching(q, R).queue = [i \in Slots |-> IF i \in G THEN None ELSE q.queue[i]]
  BY DEF RemoveMatching, Counted, Rings
<1>2. PICK i \in Slots : RemoveMatching(q, R).queue[i] = r
  BY DEF Queued
<1>3. i \notin G /\ q.queue[i] = r
  BY <1>1, <1>2
<1> QED
  BY <1>3 DEF Queued, Live
=============================================================================

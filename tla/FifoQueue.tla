----------------------------- MODULE FifoQueue -----------------------------
(***************************************************************************)
(* What a bounded FIFO queue promises: records leave in the order in which *)
(* they were put in, and an accepted record stays until it is taken.       *)
(* docs/mtss.md promises this of the CoreMtss ready queue.                 *)
(***************************************************************************)
EXTENDS Naturals, Sequences

CONSTANTS Records, Capacity

VARIABLE fifo

Init == fifo = <<>>

Put(r) == /\ Len(fifo) < Capacity
          /\ fifo' = Append(fifo, r)

Take == /\ fifo # <<>>
        /\ fifo' = Tail(fifo)

\* Take back the record put last: only a queue that says so may do it.
Unput == /\ fifo # <<>>
         /\ fifo' = SubSeq(fifo, 1, Len(fifo) - 1)

\* Likewise for withdrawing everything.
Empty == fifo' = <<>>

Next == (\E r \in Records : Put(r)) \/ Take

Spec == Init /\ [][Next]_fifo
=============================================================================

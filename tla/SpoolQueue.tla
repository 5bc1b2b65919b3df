----------------------------- MODULE SpoolQueue -----------------------------
(***************************************************************************)
(* What the agent's disk spool promises: a first-in first-out queue of     *)
(* bounded size, which makes room by dropping its oldest entries, a group  *)
(* at a time and no group that need not go.                                *)
(***************************************************************************)
EXTENDS Naturals, Sequences, FiniteSets

CONSTANTS
  Events,
  Fragment,    \* what a failed write leaves
  SegmentMax,  \* events dropped at a time, at most
  MaxSize      \* entries kept

VARIABLE queue

Init == queue = <<>>

\* The events among entries i to j of the queue.
EventsIn(i, j) == Cardinality({k \in i..j : queue[k] # Fragment})

\* The n oldest entries make room for e: the last group of them had to go,
\* and the rest fits, or is what is being written.
Put(e) ==
  \E n \in 0..Len(queue) :
    /\ queue' = Append(SubSeq(queue, n + 1, Len(queue)), e)
    /\ n > 0 => \E m \in 0..(n - 1) : /\ Len(queue) - m >= MaxSize
                                      /\ EventsIn(m + 1, n) <= SegmentMax
    /\ Len(queue) - n < MaxSize \/ EventsIn(n + 1, Len(queue)) < SegmentMax

\* A write that fails makes no room.
Break == queue' = Append(queue, Fragment)

Next == Break \/ \E e \in Events : Put(e)

Spec == Init /\ [][Next]_queue
=============================================================================

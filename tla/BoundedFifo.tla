---------------------------- MODULE BoundedFifo ----------------------------
(***************************************************************************)
(* What a RingBuffer promises, whatever its synchronisation: a first-in    *)
(* first-out queue of at most Capacity elements, each taken at most once.  *)
(* The rings of SpscRing and MutexRing are shown to implement it.          *)
(***************************************************************************)
EXTENDS Naturals, Sequences

CONSTANTS Capacity,   \* how many elements the queue holds at most
          Value,      \* what is queued
          NoValue     \* stands for an element removed without being read

VARIABLES queue,      \* the elements pushed and not removed
          delivered   \* what the removals returned, oldest first

fifoVars == <<queue, delivered>>

Init == queue = <<>> /\ delivered = <<>>

Push(v) ==
  /\ Len(queue) < Capacity
  /\ queue' = Append(queue, v)
  /\ UNCHANGED delivered

Pop ==
  /\ queue # <<>>
  /\ delivered' = Append(delivered, Head(queue))
  /\ queue' = Tail(queue)

\* Remove the n oldest elements without reading them.
Drop(n) ==
  /\ n <= Len(queue)
  /\ delivered' = delivered \o [i \in 1..n |-> NoValue]
  /\ queue' = SubSeq(queue, n + 1, Len(queue))

Next ==
  \/ \E v \in Value : Push(v)
  \/ Pop
  \/ \E n \in 1..Capacity : Drop(n)

Spec == Init /\ [][Next]_fifoVars
=============================================================================

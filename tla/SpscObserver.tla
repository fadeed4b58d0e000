---------------------------- MODULE SpscObserver ----------------------------
(***************************************************************************)
(* A third thread that watches a running ring with size(), which carries   *)
(* no producer-side or consumer-side restriction.  size() loads tail_      *)
(* first and head_ second, and both threads may run in between.  The loads *)
(* return the newest values here: what the run shows needs no weak memory. *)
(***************************************************************************)
EXTENDS SpscRing

VARIABLES
  oPc,      \* the observer's next step
  oTail,    \* size()'s t
  oSize,    \* the last size() returned, -1 before the first
  held      \* ghost: the numbers of elements the ring has held so far

observer == <<oPc, oTail, oSize>>

ObserverInit == Init /\ oPc = "tail" /\ oTail = 0 /\ oSize = -1 /\ held = {0}

SizeLoadsTail ==
  /\ oPc = "tail"
  /\ oTail' = CurTail /\ oPc' = "head"
  /\ UNCHANGED <<vars, oSize, held>>

SizeLoadsHead ==
  /\ oPc = "head"
  /\ oSize' = Distance(CurHead, oTail) /\ oPc' = "tail"
  /\ UNCHANGED <<vars, oTail, held>>

ObserverNext ==
  \/ Next /\ held' = held \union {Occupancy'} /\ UNCHANGED observer
  \/ SizeLoadsTail
  \/ SizeLoadsHead

ObserverSpec == ObserverInit /\ [][ObserverNext]_<<vars, observer, held>>

\* "Approximate size ... may be slightly stale" (ring_buffer.hpp:89-90): what
\* size() returned is a number of elements the ring held at some moment.
SizeIsOnlyStale == oSize \in {-1} \union held
=============================================================================

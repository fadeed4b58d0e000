---------------------------- MODULE ActorLearner ----------------------------
(***************************************************************************)
(* The concurrent use FastReplayBuffer's documentation announces: an actor *)
(* thread calls add() while a learner thread calls sample(), with no lock  *)
(* in Python.  The bindings hold the GIL, so a call of the ring is one     *)
(* step; the interpreter may switch threads between any two statements.    *)
(* The announcement is about add() and sample(): the actor does not reset. *)
(***************************************************************************)
EXTENDS FastReplayBuffer

VARIABLES
  lPc,      \* the learner's next step
  lSlot,    \* an index of phys_inds
  lPos,     \* the same index of batch_inds
  lSample   \* the transition _get_samples put together

learner == <<lPc, lSlot, lPos, lSample>>

NoSample == [obs |-> Unwritten, action |-> Unwritten, next |-> Unwritten]

LearnerInit == lPc = "idle" /\ lSlot = 0 /\ lPos = 0 /\ lSample = NoSample

\* phys_inds = self._index_ring.sample_indices(batch_size)
SampleIndices ==
  /\ lPc = "idle"
  /\ lSlot' \in SampledSlots
  /\ lPc' = "map"
  /\ UNCHANGED <<vars, lPos, lSample>>

\* batch_inds = ring_view[phys_inds]
MapIndices ==
  /\ lPc = "map"
  /\ lPos' = ringBuf[lSlot]
  /\ lPc' = "get"
  /\ UNCHANGED <<vars, lSlot, lSample>>

\* self._get_samples(batch_inds), as if it read all arrays at once.
GetSamples ==
  /\ lPc = "get"
  /\ lSample' = SampleAt(lPos)
  /\ lPc' = "done"
  /\ UNCHANGED <<vars, lSlot, lPos>>

\* The samples were used; the next call of sample().
Return ==
  /\ lPc = "done"
  /\ lPc' = "idle" /\ lSlot' = 0 /\ lPos' = 0 /\ lSample' = NoSample
  /\ UNCHANGED vars

LearnerNext == SampleIndices \/ MapIndices \/ GetSamples \/ Return

ActorNext ==
  /\ Evict \/ PushIndex \/ StoreObs \/ StoreRest \/ AdvancePos
  /\ UNCHANGED learner

ConcurrentSpec ==
  /\ Init /\ LearnerInit
  /\ [][ActorNext \/ LearnerNext]_<<vars, learner>>

\* "allow a separate learner thread to safely call sample() while the actor
\* thread calls add()": what the learner gets is a transition that was added.
LearnerSeesWholeTransitions ==
  lPc = "done" => \E k \in 0 .. MaxAdd : lSample = Transition(k)
=============================================================================

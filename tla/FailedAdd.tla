----------------------------- MODULE FailedAdd -----------------------------
(***************************************************************************)
(* FastReplayBuffer.add when super().add() raises (an observation of the   *)
(* wrong shape, say) and the caller goes on with the next transition: the  *)
(* position was pushed to the ring, pos did not advance, and the next      *)
(* add() pushes it again.                                                  *)
(***************************************************************************)
EXTENDS FastReplayBuffer

CONSTANT MaxFailures   \* bound: calls of super().add() that raise

ASSUME FailuresAssumption == MaxFailures \in Nat

VARIABLES
  failures,   \* calls of super().add() that raised
  healed      \* ghost: the calls of add() that ended since then, up to a lap

failingVars == <<vars, failures, healed>>

FailingTypeOK ==
  TypeOK /\ failures \in 0 .. MaxFailures /\ healed \in 0 .. Capacity

FailingInit == Init /\ failures = 0 /\ healed = Capacity

\* A step of an add() that does not end it.
Working ==
  /\ Evict \/ PushIndex \/ StoreObs \/ StoreRest
  /\ UNCHANGED <<failures, healed>>

Ends ==
  /\ AdvancePos
  /\ healed' = (IF healed < Capacity THEN healed + 1 ELSE healed)
  /\ UNCHANGED failures

Resets == Reset /\ healed' = Capacity /\ UNCHANGED failures

\* NumPy raises at the first array whose shape does not fit: the observations,
\* the next observations, the actions, or one of the arrays after them.
SuperAddRaises ==
  /\ pc \in {"store", "store_rest", "advance"} /\ failures < MaxFailures
  /\ failures' = failures + 1 /\ healed' = 0
  /\ pc' = "idle"
  /\ \/ UNCHANGED <<obs, nextObs>>
     \/ pc = "store_rest" /\ WriteNext
  /\ UNCHANGED <<ring, pos, full, actions, added, since>>

FailingNext == Working \/ Ends \/ Resets \/ SuperAddRaises

FailingSpec == FailingInit /\ [][FailingNext]_failingVars

----------------------------------------------------------------------------
\* Whatever raised, what sample() can return is a transition added since the
\* last reset, whole, but for one position: the one the last add() failed at,
\* until the next add() has written it.
TornOnlyWhereItFailed ==
  pc = "idle" =>
    \A i \in SampledPositions :
      \/ i = pos /\ healed = 0
      \/ \E k \in (added - since) .. (added - 1) : SampleAt(i) = Transition(k)

\* The positions pushed twice are evicted in turn: a lap after the last failure
\* the ring mirrors SB3's storage again, and the newest transitions are sampled.
MirrorsAfterLap ==
  healed = Capacity => RingMirrorsStorage /\ SamplesAreNewest

----------------------------------------------------------------------------
(* The inductive invariant.  After a failure the ring is ahead of the calls *)
(* that ended, so a slot is told by its distance from the newest one, and   *)
(* what is in it by how many calls ended since the last failure.  Pushed,   *)
(* Evicted and PosInv count the calls that ended, as in FastReplayBuffer.   *)

\* The slot of the i-th newest position in the ring.
Newest(i) == Advance(tail, 0 - i)

\* Without a failure in the last lap the ring holds what it would hold without
\* any; after one, it holds at least the calls that ended since.
SizeInv ==
  /\ pc = "push" => RingSize < Capacity
  /\ IF healed = Capacity
     THEN RingSize = Pushed - Evicted
     ELSE healed <= since /\ healed + (Pushed - since) <= RingSize

\* The positions pushed since the last failure follow one another.
LapInv ==
  \A i \in 1 .. RingSize :
    i <= healed + (Pushed - since) =>
      ringBuf[Newest(i)] = (Pushed - i) % Capacity

\* The ring holds no position that SB3 has not written, but for the one being
\* written or the one whose write failed.
HeldInv ==
  \A i \in 1 .. RingSize :
    LET p == ringBuf[Newest(i)]
    IN  full \/ p < pos \/ (p = pos /\ (healed = 0 \/ Pushed > since))

\* A write that failed may have torn the oldest transition, at pos, no other.
FailingDataInv ==
  IF pc = "idle" /\ healed = 0
  THEN \A k \in Evicted .. (since - 1) : k # since - Capacity => StoredWhole(k)
  ELSE DataInv

FailingIInv ==
  /\ FailingTypeOK
  /\ PosInv
  /\ SizeInv /\ LapInv /\ HeldInv
  /\ OptimizeMemory \/ FailingDataInv
=============================================================================

-------------------------- MODULE FastReplayBuffer --------------------------
(***************************************************************************)
(* FastReplayBuffer (fastreplay_sb3/__init__.py): a Stable-Baselines3      *)
(* ReplayBuffer whose sample() draws its indices from a C++ RingBuffer     *)
(* that add() feeds with the positions it writes.  Capacity is both        *)
(* buffer_size and the capacity of _index_ring.  Calls of the ring are     *)
(* atomic (the bindings hold the GIL); storage is SB3's, and is external.  *)
(*                                                                         *)
(* Transition k of the run goes from observation k to observation k + 1,   *)
(* so a stored transition is whole when its parts agree on k.              *)
(***************************************************************************)
EXTENDS RingOps

CONSTANTS OptimizeMemory,   \* optimize_memory_usage
          MaxAdd            \* bound: calls of add()

ASSUME BufferAssumption == Capacity > 0 /\ OptimizeMemory \in BOOLEAN
ASSUME AddAssumption == MaxAdd \in Nat

VARIABLES
  ringBuf, head, tail,   \* _index_ring
  pos, full,             \* SB3: the next position written, whether it wrapped
  obs, nextObs, actions, \* SB3: the stored arrays (actions stands for the
                         \* rewards, dones and timeouts stored with them)
  pc,                    \* the next step of add()
  added,                 \* calls of add() that ended, the next transition
  since                  \* ghost: the same since the last reset()

ring == <<ringBuf, head, tail>>
storage == <<obs, nextObs, actions>>
vars == <<ring, pos, full, storage, pc, added, since>>

Position == 0 .. (Capacity - 1)
Unwritten == -1

TypeOK ==
  /\ ringBuf \in [Slot -> Position] /\ head \in Slot /\ tail \in Slot
  /\ pos \in Position /\ full \in BOOLEAN
  /\ obs \in [Position -> -1 .. MaxAdd] /\ nextObs \in [Position -> -1 .. MaxAdd]
  /\ actions \in [Position -> -1 .. MaxAdd]
  /\ pc \in {"idle", "push", "store", "store_rest", "advance"}
  /\ added \in 0 .. MaxAdd /\ since \in 0 .. added

\* The buffer of a new RingBuffer, whose head and tail are 0.
NewRing == [s \in Slot |-> 0]

Init ==
  /\ ringBuf = NewRing /\ head = 0 /\ tail = 0
  /\ pos = 0 /\ full = FALSE
  /\ obs = [i \in Position |-> Unwritten]
  /\ nextObs = [i \in Position |-> Unwritten]
  /\ actions = [i \in Position |-> Unwritten]
  /\ pc = "idle" /\ added = 0 /\ since = 0

RingSize == Distance(head, tail)
RingFull == NextSlot(tail) = head

----------------------------------------------------------------------------
(* add(): evict, push the position, then everything super().add() does.    *)

\* Mutant: nothing is evicted from a full ring.
NoEvict ==
  /\ pc = "idle" /\ added < MaxAdd
  /\ pc' = "push"
  /\ UNCHANGED <<ring, pos, full, storage, added, since>>

\* Mutant: it evicts as soon as the push will fill the ring.
EvictEarly ==
  /\ pc = "idle" /\ added < MaxAdd
  /\ head' = (IF RingSize = Capacity - 1 THEN NextSlot(head) ELSE head)
  /\ pc' = "push"
  /\ UNCHANGED <<ringBuf, tail, pos, full, storage, added, since>>

\* if ring.size() == ring.capacity(): ring.pop()
Evict ==
  /\ pc = "idle" /\ added < MaxAdd
  /\ head' = (IF RingSize = Capacity THEN NextSlot(head) ELSE head)
  /\ pc' = "push"
  /\ UNCHANGED <<ringBuf, tail, pos, full, storage, added, since>>

\* ring.push(self.pos), whose result is ignored.
PushIndex ==
  /\ pc = "push"
  /\ IF RingFull
     THEN UNCHANGED <<ringBuf, tail>>
     ELSE /\ ringBuf' = [ringBuf EXCEPT ![tail] = pos]
          /\ tail' = NextSlot(tail)
  /\ pc' = "store"
  /\ UNCHANGED <<head, pos, full, storage, added, since>>

\* super().add() writes observations[pos], ...
StoreObs ==
  /\ pc = "store"
  /\ obs' = [obs EXCEPT ![pos] = added]
  /\ pc' = "store_rest"
  /\ UNCHANGED <<ring, pos, full, nextObs, actions, added, since>>

\* ... then the next observation, which optimize_memory_usage keeps in the
\* observation of the next position, ...
WriteNext ==
  IF OptimizeMemory
  THEN /\ obs' = [obs EXCEPT ![(pos + 1) % Capacity] = added + 1]
       /\ UNCHANGED nextObs
  ELSE /\ nextObs' = [nextObs EXCEPT ![pos] = added + 1]
       /\ UNCHANGED obs

\* ... and the action with the rest, ...
StoreRest ==
  /\ pc = "store_rest"
  /\ WriteNext
  /\ actions' = [actions EXCEPT ![pos] = added]
  /\ pc' = "advance"
  /\ UNCHANGED <<ring, pos, full, added, since>>

\* ... and advances pos.
AdvancePos ==
  /\ pc = "advance"
  /\ pos' = (pos + 1) % Capacity
  /\ full' = (full \/ pos + 1 = Capacity)
  /\ added' = added + 1 /\ since' = since + 1
  /\ pc' = "idle"
  /\ UNCHANGED <<ring, storage>>

\* Mutant: reset() keeps the ring.
ResetStorageOnly ==
  /\ pc = "idle"
  /\ pos' = 0 /\ full' = FALSE /\ since' = 0
  /\ UNCHANGED <<ring, storage, pc, added>>

\* reset(): super().reset() forgets pos and full, not the data; a new ring.
Reset ==
  /\ pc = "idle"
  /\ pos' = 0 /\ full' = FALSE
  /\ ringBuf' = NewRing /\ head' = 0 /\ tail' = 0
  /\ since' = 0
  /\ UNCHANGED <<storage, pc, added>>

Next == Evict \/ PushIndex \/ StoreObs \/ StoreRest \/ AdvancePos \/ Reset

Spec == Init /\ [][Next]_vars

----------------------------------------------------------------------------
(* sample(): sample_indices draws slots of the live ring, whose contents   *)
(* are the positions _get_samples reads.  It changes no state.             *)

\* Mutant: the first slots of the ring, whatever head is (the stale read that
\* sample_indices exists to avoid).
NaiveSlots == {Advance(0, i) : i \in 0 .. (RingSize - 1)}

SampledSlots == {Advance(head, i) : i \in 0 .. (RingSize - 1)}

SampledPositions == {ringBuf[s] : s \in SampledSlots}

\* What _get_samples makes of position i, SB3's encoding of the successor
\* under optimize_memory_usage included.
SampleAt(i) ==
  [obs |-> obs[i], action |-> actions[i],
   next |-> IF OptimizeMemory THEN obs[(i + 1) % Capacity] ELSE nextObs[i]]

\* The transition k, whole.
Transition(k) == [obs |-> k, action |-> k, next |-> k + 1]

----------------------------------------------------------------------------
\* push's result is ignored: it may not be false.
PushIsNeverRefused == pc = "push" => ~RingFull

\* Between calls the ring holds exactly the positions SB3's own sample() would
\* draw from, each once, the oldest first: the one the next add() overwrites
\* is the one it evicts ("mirrors the circular overwrite semantics of SB3").
RingMirrorsStorage ==
  pc = "idle" =>
    /\ SampledPositions = (IF full THEN Position ELSE 0 .. (pos - 1))
    /\ RingSize = (IF full THEN Capacity ELSE pos)
    /\ full => ringBuf[head] = pos

\* What sample() can return is exactly the newest transitions added since the
\* last reset, as many as fit, each whole and as it was added.
SamplesAreNewest ==
  pc = "idle" =>
    LET n == IF since < Capacity THEN since ELSE Capacity
    IN  {SampleAt(i) : i \in SampledPositions}
          = {Transition(k) : k \in (added - n) .. (added - 1)}

\* A drop-in replacement samples no transition that was not added: every one
\* it returns is whole.
SamplesAreWhole ==
  pc = "idle" =>
    \A i \in SampledPositions :
      \E k \in 0 .. (added - 1) : SampleAt(i) = Transition(k)

\* What sample() draws from, oldest first: the positions in the ring but the
\* one of the transition that add() has not stored yet.
WindowSize ==
  IF pc \in {"store", "store_rest", "advance"} THEN RingSize - 1 ELSE RingSize
Window == [i \in 1 .. WindowSize |-> SampleAt(ringBuf[Advance(head, i - 1)])]

Memory == INSTANCE ReplayMemory WITH window <- Window, count <- added

\* "A drop-in replacement": the buffer is a window of the newest transitions,
\* in every step of every call.  add() makes room when it evicts, adds when SB3
\* advances pos, and no other step of it changes what was in the window.
ImplementsReplayMemory ==
  Memory!Init /\ [][Memory!Next]_(Memory!memoryVars)

----------------------------------------------------------------------------
(* The inductive invariant.  The calls of add() since the last reset() are *)
(* numbered from 0: call k pushes position k % Capacity into slot k % Phys, *)
(* two laps of different lengths, and adds transition added - since + k.   *)

Begun == IF pc = "idle" THEN since ELSE since + 1
Pushed == IF pc \in {"idle", "push"} THEN since ELSE since + 1
Evicted == IF Begun > Capacity THEN Begun - Capacity ELSE 0

RingInv ==
  /\ head = Evicted % Phys /\ tail = Pushed % Phys
  /\ \A k \in Evicted .. (Pushed - 1) : ringBuf[k % Phys] = k % Capacity

PosInv ==
  /\ pos = since % Capacity
  /\ full <=> since >= Capacity
  /\ pc # "idle" => added < MaxAdd

\* The transition of call k is where SB3 stored it, whole.
StoredWhole(k) ==
  LET n == added - since + k
  IN  /\ obs[k % Capacity] = n /\ actions[k % Capacity] = n
      /\ nextObs[k % Capacity] = n + 1

\* So are the transitions not evicted, and the parts stored of the one being
\* added.
DataInv ==
  /\ \A k \in Evicted .. (since - 1) : StoredWhole(k)
  /\ pc \in {"store_rest", "advance"} => obs[pos] = added
  /\ pc = "advance" => nextObs[pos] = added + 1 /\ actions[pos] = added

IInv ==
  /\ TypeOK
  /\ RingInv
  /\ PosInv
  /\ OptimizeMemory \/ DataInv
=============================================================================

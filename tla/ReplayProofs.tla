---------------------------- MODULE ReplayProofs ----------------------------
(***************************************************************************)
(* For every capacity and every number of calls, FastReplayBuffer's ring   *)
(* of positions never refuses a push, mirrors SB3's circular storage, and  *)
(* sample() returns the newest transitions whole, so that it implements    *)
(* ReplayMemory.  All follow from the inductive invariant IInv of          *)
(* FastReplayBuffer.                                                       *)
(***************************************************************************)
EXTENDS FastReplayBuffer, RingOpsProofs, SequenceTheorems

(* The counts of calls, in the ranges the index arithmetic needs. *)
LEMMA ReplayCounts ==
  ASSUME TypeOK
  PROVE  /\ Capacity \in Nat \ {0} /\ MaxAdd \in Nat
         /\ added \in Nat /\ since \in Nat /\ since <= added /\ added <= MaxAdd
         /\ Evicted \in Nat /\ Pushed \in Nat
         /\ Evicted <= since /\ since <= Pushed
         /\ Pushed <= Evicted + Capacity
         /\ since <= Evicted + Capacity
         /\ pc # "idle" => since < Evicted + Capacity
<1>1. Capacity \in Nat \ {0} /\ MaxAdd \in Nat
  BY CapacityAssumption, BufferAssumption, AddAssumption
<1>2. added \in Nat /\ since \in Nat /\ since <= added /\ added <= MaxAdd
  BY <1>1 DEF TypeOK
<1>3. CASE pc = "idle"
  BY <1>1, <1>2, <1>3 DEF Evicted, Pushed, Begun
<1>4. CASE pc # "idle"
  BY <1>1, <1>2, <1>4 DEF Evicted, Pushed, Begun
<1> QED
  BY <1>3, <1>4

(* Two counts less than Capacity apart do not share a position. *)
LEMMA SamePosition ==
  ASSUME NEW x \in Int, NEW y \in Int, x % Capacity = y % Capacity,
         x - y < Capacity, y - x < Capacity
  PROVE  x = y
<1>1. Capacity \in Nat \ {0}
  BY CapacityAssumption, BufferAssumption
<1> QED
  BY <1>1, ModInjective

LEMMA ResidueIsPosition ==
  ASSUME NEW x \in Int
  PROVE  x % Capacity \in Position
<1>1. Capacity \in Nat \ {0}
  BY CapacityAssumption, BufferAssumption
<1> QED
  BY <1>1, DivMod DEF Position

(* The element count of the ring is the number pushed and not evicted. *)
LEMMA RingSizeCounts ==
  ASSUME TypeOK, RingInv
  PROVE  RingSize = Pushed - Evicted
<1>1. Evicted \in Int /\ Pushed \in Int /\ Pushed - Evicted \in 0 .. Capacity
  BY ReplayCounts
<1>2. Distance(Evicted % Phys, Pushed % Phys) = Pushed - Evicted
  BY <1>1, DistanceCounts
<1> QED
  BY <1>2 DEF RingSize, RingInv

(* After the eviction the ring has room. *)
LEMMA RoomToPush ==
  ASSUME TypeOK, RingInv, pc = "push"
  PROVE  ~RingFull
<1>1. Evicted \in Int /\ Pushed + 1 \in Int /\ Pushed = since
      /\ Evicted <= since /\ since < Evicted + Capacity /\ since \in Nat
      /\ Capacity \in Nat /\ Pushed \in Int
  BY ReplayCounts DEF Pushed
<1>2. NextSlot(tail) = (Pushed + 1) % Phys
  BY <1>1, AdvanceCounts DEF RingInv, NextSlot
<1>3. SUFFICES ASSUME (Pushed + 1) % Phys = Evicted % Phys
               PROVE  FALSE
  BY <1>2 DEF RingFull, RingInv
<1>4. Pushed + 1 - Evicted <= Capacity /\ Evicted - (Pushed + 1) <= Capacity
  BY <1>1
<1>5. Pushed + 1 = Evicted
  BY <1>1, <1>3, <1>4, SameSlot
<1> QED
  BY <1>1, <1>5

----------------------------------------------------------------------------
LEMMA InitIInv == Init => IInv
<1> SUFFICES ASSUME Init PROVE IInv
  OBVIOUS
<1>1. Capacity \in Nat \ {0} /\ MaxAdd \in Nat /\ Phys \in Nat \ {0}
  BY CapacityAssumption, BufferAssumption, AddAssumption, PhysType
<1>2. 0 % Phys = 0 /\ 0 % Capacity = 0
  BY <1>1
<1>3. 0 \in Slot /\ 0 \in Position
  BY <1>1, PhysType DEF Position
<1>4. TypeOK
  <2>1. -1 \in -1 .. MaxAdd /\ 0 \in 0 .. MaxAdd /\ 0 \in 0 .. 0
    BY <1>1
  <2>2. added \in 0 .. MaxAdd /\ since \in 0 .. added
    BY <2>1 DEF Init
  <2>3. ringBuf \in [Slot -> Position] /\ head \in Slot /\ tail \in Slot
    BY <1>3 DEF Init, NewRing
  <2>4. /\ obs \in [Position -> -1 .. MaxAdd]
        /\ nextObs \in [Position -> -1 .. MaxAdd]
        /\ actions \in [Position -> -1 .. MaxAdd]
    BY <2>1 DEF Init, Unwritten
  <2> QED
    BY <1>3, <2>2, <2>3, <2>4 DEF Init, TypeOK
<1>5. Evicted = 0 /\ Pushed = 0
  BY <1>1 DEF Init, Evicted, Pushed, Begun
<1>6. RingInv
  BY <1>2, <1>5 DEF Init, RingInv
<1>7. PosInv
  BY <1>1, <1>2 DEF Init, PosInv
<1>8. DataInv
  BY <1>5 DEF Init, DataInv
<1> QED
  BY <1>4, <1>6, <1>7, <1>8 DEF IInv

(* What each step does to SB3's storage, whatever the ring holds. *)

(* The first step of add(): the transition it will overwrite leaves the      *)
(* window, so nothing need be known of it any more.                          *)
LEMMA BeginStored ==
  ASSUME TypeOK, PosInv, pc = "idle", added < MaxAdd, pc' \in {"push", "store"},
         UNCHANGED <<pos, full, obs, nextObs, actions, added, since>>
  PROVE  /\ PosInv'
         /\ since \in Nat /\ Capacity \in Nat \ {0}
         /\ Pushed = since
         /\ pc' = "push" => Pushed' = since
         /\ pc' = "store" => Pushed' = since + 1
         /\ Evicted = IF since > Capacity THEN since - Capacity ELSE 0
         /\ Evicted' = IF since + 1 > Capacity THEN since + 1 - Capacity ELSE 0
         /\ (\A k \in Evicted .. (since - 1) :
               k # since - Capacity => StoredWhole(k)) => DataInv'
<1>1. /\ pos' = pos /\ full' = full /\ obs' = obs /\ nextObs' = nextObs
      /\ actions' = actions /\ added' = added /\ since' = since
  OBVIOUS
<1>2. Capacity \in Nat \ {0} /\ since \in Nat /\ Pushed = since
      /\ Evicted = IF since > Capacity THEN since - Capacity ELSE 0
  BY ReplayCounts DEF Pushed, Evicted, Begun
<1>3. Evicted' = IF since + 1 > Capacity THEN since + 1 - Capacity ELSE 0
  <2>1. Begun' = since + 1
    BY <1>1 DEF Begun
  <2>2. Evicted' = IF Begun' > Capacity THEN Begun' - Capacity ELSE 0
    BY DEF Evicted
  <2> QED
    BY <1>2, <2>1, <2>2
<1>4. /\ pc' = "push" => Pushed' = since
      /\ pc' = "store" => Pushed' = since + 1
  BY <1>1 DEF Pushed
<1>5. PosInv'
  BY <1>1 DEF PosInv
<1>6. ASSUME \A k \in Evicted .. (since - 1) :
               k # since - Capacity => StoredWhole(k)
      PROVE  DataInv'
  <2>1. ASSUME NEW k \in Evicted' .. (since' - 1)
        PROVE  StoredWhole(k)'
    <3>1. k \in Evicted .. (since - 1) /\ k # since - Capacity
      BY <1>1, <1>2, <1>3
    <3>2. StoredWhole(k)
      BY <1>6, <3>1
    <3> QED
      BY <1>1, <3>2 DEF StoredWhole
  <2> QED
    BY <2>1 DEF DataInv
<1> QED
  BY <1>2, <1>3, <1>4, <1>5, <1>6

LEMMA StoreObsStored ==
  ASSUME TypeOK, PosInv, StoreObs
  PROVE  /\ TypeOK' /\ PosInv' /\ (DataInv => DataInv')
         /\ Pushed' = Pushed /\ Evicted' = Evicted
<1>1. /\ pc = "store" /\ pc' = "store_rest"
      /\ ringBuf' = ringBuf /\ head' = head /\ tail' = tail
      /\ pos' = pos /\ full' = full
      /\ obs' = [obs EXCEPT ![pos] = added]
      /\ nextObs' = nextObs /\ actions' = actions
      /\ added' = added /\ since' = since
  BY DEF StoreObs, ring
<1>2. Capacity \in Nat \ {0} /\ added \in Nat /\ added <= MaxAdd
      /\ since \in Nat /\ Evicted \in Nat /\ since < Evicted + Capacity
      /\ MaxAdd \in Nat
  BY <1>1, ReplayCounts
<1>3. Pushed' = Pushed /\ Evicted' = Evicted
  BY <1>1 DEF Pushed, Evicted, Begun
<1>4. TypeOK'
  <2>1. added \in -1 .. MaxAdd
    BY <1>2
  <2>2. obs' \in [Position -> -1 .. MaxAdd]
    BY <1>1, <2>1 DEF TypeOK
  <2> QED
    BY <1>1, <2>2 DEF TypeOK
<1>5. PosInv'
  BY <1>1 DEF PosInv
<1>6. ASSUME DataInv PROVE DataInv'
  <2>1. obs \in [Position -> -1 .. MaxAdd] /\ pos \in Position
    BY DEF TypeOK
  <2>2. obs'[pos] = added
    BY <1>1, <2>1
  <2>3. ASSUME NEW k \in Evicted .. (since - 1)
        PROVE  StoredWhole(k)'
    <3>1. k \in Int /\ since \in Int /\ k - since < Capacity
          /\ since - k < Capacity /\ k # since
      BY <1>2
    <3>2. k % Capacity # pos
      BY <3>1, SamePosition DEF PosInv
    <3>3. k % Capacity \in Position
      BY <3>1, ResidueIsPosition
    <3>4. StoredWhole(k)
      BY <1>6 DEF DataInv
    <3> QED
      BY <1>1, <2>1, <3>2, <3>3, <3>4 DEF StoredWhole
  <2> QED
    BY <1>1, <1>3, <2>2, <2>3 DEF DataInv
<1> QED
  BY <1>3, <1>4, <1>5, <1>6

LEMMA StoreRestStored ==
  ASSUME TypeOK, PosInv, StoreRest
  PROVE  /\ TypeOK' /\ PosInv' /\ (~OptimizeMemory /\ DataInv => DataInv')
         /\ Pushed' = Pushed /\ Evicted' = Evicted
<1>1. /\ pc = "store_rest" /\ pc' = "advance"
      /\ ringBuf' = ringBuf /\ head' = head /\ tail' = tail
      /\ pos' = pos /\ full' = full
      /\ actions' = [actions EXCEPT ![pos] = added]
      /\ added' = added /\ since' = since
  BY DEF StoreRest, ring
<1>2. Capacity \in Nat \ {0} /\ added \in Nat /\ added < MaxAdd
      /\ since \in Nat /\ Evicted \in Nat /\ since < Evicted + Capacity
      /\ MaxAdd \in Nat
  BY <1>1, ReplayCounts DEF PosInv
<1>3. Pushed' = Pushed /\ Evicted' = Evicted
  BY <1>1 DEF Pushed, Evicted, Begun
<1>4. /\ obs \in [Position -> -1 .. MaxAdd]
      /\ nextObs \in [Position -> -1 .. MaxAdd]
      /\ actions \in [Position -> -1 .. MaxAdd]
      /\ pos \in Position
  BY DEF TypeOK
<1>5. TypeOK'
  <2>1. added \in -1 .. MaxAdd /\ added + 1 \in -1 .. MaxAdd
    BY <1>2
  <2>2. actions' \in [Position -> -1 .. MaxAdd]
    BY <1>1, <1>4, <2>1
  <2>3. /\ obs' \in [Position -> -1 .. MaxAdd]
        /\ nextObs' \in [Position -> -1 .. MaxAdd]
    BY <1>4, <2>1 DEF StoreRest, WriteNext
  <2> QED
    BY <1>1, <2>2, <2>3 DEF TypeOK
<1>6. PosInv'
  BY <1>1 DEF PosInv
<1>7. ASSUME ~OptimizeMemory, DataInv PROVE DataInv'
  <2>1. nextObs' = [nextObs EXCEPT ![pos] = added + 1] /\ obs' = obs
    BY <1>7 DEF StoreRest, WriteNext
  <2>2. nextObs'[pos] = added + 1 /\ actions'[pos] = added /\ obs'[pos] = added
    BY <1>1, <1>4, <1>7, <2>1 DEF DataInv
  <2>3. ASSUME NEW k \in Evicted .. (since - 1)
        PROVE  StoredWhole(k)'
    <3>1. k \in Int /\ since \in Int /\ k - since < Capacity
          /\ since - k < Capacity /\ k # since
      BY <1>2
    <3>2. k % Capacity # pos
      BY <3>1, SamePosition DEF PosInv
    <3>3. k % Capacity \in Position
      BY <3>1, ResidueIsPosition
    <3>4. StoredWhole(k)
      BY <1>7 DEF DataInv
    <3> QED
      BY <1>1, <1>4, <2>1, <3>2, <3>3, <3>4 DEF StoredWhole
  <2> QED
    BY <1>1, <1>3, <2>2, <2>3 DEF DataInv
<1> QED
  BY <1>3, <1>5, <1>6, <1>7

(* The end of add(): the transition it stored joins those that are whole.    *)
LEMMA AdvancePosStored ==
  ASSUME TypeOK, PosInv, AdvancePos
  PROVE  /\ TypeOK' /\ PosInv' /\ (DataInv => DataInv')
         /\ Pushed' = Pushed /\ Evicted' = Evicted
<1>1. /\ pc = "advance" /\ pc' = "idle"
      /\ ringBuf' = ringBuf /\ head' = head /\ tail' = tail
      /\ obs' = obs /\ nextObs' = nextObs /\ actions' = actions
      /\ pos' = (pos + 1) % Capacity
      /\ full' = (full \/ pos + 1 = Capacity)
      /\ added' = added + 1 /\ since' = since + 1
  BY DEF AdvancePos, ring, storage
<1>2. Capacity \in Nat \ {0} /\ added \in Nat /\ added < MaxAdd
      /\ since \in Nat /\ since <= added /\ MaxAdd \in Nat
      /\ pos = since % Capacity /\ Evicted \in Nat
  BY <1>1, ReplayCounts DEF PosInv
<1>3. Pushed' = Pushed /\ Evicted' = Evicted
  BY <1>1 DEF Pushed, Evicted, Begun
<1>4. pos' = (since + 1) % Capacity
  <2>1. Capacity \in Nat \ {0} /\ since \in Int /\ 1 \in Int
    BY <1>2
  <2>2. ((since % Capacity) + 1) % Capacity = (since + 1) % Capacity
    BY <2>1, ModAdd
  <2> QED
    BY <1>1, <1>2, <2>2
<1>5. TypeOK'
  <2>1. pos' \in Position
    BY <1>2, <1>4, ResidueIsPosition
  <2>2. added + 1 \in 0 .. MaxAdd /\ since + 1 \in 0 .. (added + 1)
    BY <1>2
  <2>3. full' \in BOOLEAN
    BY <1>1
  <2> QED
    BY <1>1, <2>1, <2>2, <2>3 DEF TypeOK
<1>6. full' <=> since + 1 >= Capacity
  <2>1. CASE since >= Capacity
    <3>1. full
      BY <2>1 DEF PosInv
    <3>2. since + 1 >= Capacity
      BY <1>2, <2>1
    <3> QED
      BY <1>1, <3>1, <3>2
  <2>2. CASE since < Capacity
    <3>1. since \in 0 .. (Capacity - 1)
      BY <1>2, <2>2
    <3>2. pos = since
      BY <1>2, <3>1, ModSmall
    <3>3. pos + 1 = Capacity <=> since + 1 >= Capacity
      BY <1>2, <2>2, <3>2
    <3>4. ~(since >= Capacity)
      BY <1>2, <2>2
    <3>5. ~full
      BY <3>4, Zenon DEF PosInv
    <3>6. full' <=> (full \/ pos + 1 = Capacity)
      BY <1>1, Zenon
    <3> QED
      BY <3>3, <3>5, <3>6, Zenon
  <2> QED
    BY <1>2, <2>1, <2>2
<1>7. PosInv'
  BY <1>1, <1>4, <1>6 DEF PosInv
<1>8. ASSUME DataInv PROVE DataInv'
  <2>1. since' - 1 = since /\ added' - since' = added - since
    BY <1>1, <1>2
  <2>2. ASSUME NEW k \in Evicted .. since
        PROVE  StoredWhole(k)'
    <3>1. CASE k = since
      <4>1. obs[pos] = added /\ nextObs[pos] = added + 1 /\ actions[pos] = added
        BY <1>1, <1>8 DEF DataInv
      <4>2. added' - since' + k = added
        BY <1>2, <2>1, <3>1
      <4> QED
        BY <1>1, <1>2, <3>1, <4>1, <4>2 DEF StoredWhole
    <3>2. CASE k # since
      <4>1. k \in Evicted .. (since - 1)
        BY <1>2, <3>2
      <4>2. StoredWhole(k)
        BY <1>8, <4>1 DEF DataInv
      <4> QED
        BY <1>1, <2>1, <4>2 DEF StoredWhole
    <3> QED
      BY <3>1, <3>2
  <2> QED
    BY <1>1, <1>3, <2>1, <2>2 DEF DataInv
<1> QED
  BY <1>3, <1>5, <1>7, <1>8

----------------------------------------------------------------------------
(* The same for the steps that feed the ring, and their effect on it.        *)

LEMMA EvictStored ==
  ASSUME TypeOK, PosInv, Evict
  PROVE  /\ TypeOK' /\ PosInv'
         /\ Pushed = since /\ Pushed' = since
         /\ since \in Nat /\ Capacity \in Nat \ {0}
         /\ Evicted = IF since > Capacity THEN since - Capacity ELSE 0
         /\ Evicted' = IF since + 1 > Capacity THEN since + 1 - Capacity ELSE 0
         /\ (\A k \in Evicted .. (since - 1) :
               k # since - Capacity => StoredWhole(k)) => DataInv'
<1>1. /\ pc = "idle" /\ added < MaxAdd /\ pc' = "push"
      /\ ringBuf' = ringBuf /\ tail' = tail
      /\ UNCHANGED <<pos, full, obs, nextObs, actions, added, since>>
      /\ head' = (IF RingSize = Capacity THEN NextSlot(head) ELSE head)
  BY DEF Evict, storage
<1>2. head' \in Slot
  <2>1. head \in Slot
    BY DEF TypeOK
  <2>2. head \in Int /\ 1 \in Int
    BY <2>1, PhysType
  <2> QED
    BY <1>1, <2>1, <2>2, AdvanceIsSlot DEF NextSlot
<1>3. TypeOK'
  BY <1>1, <1>2 DEF TypeOK
<1> QED
  BY <1>1, <1>3, BeginStored

LEMMA EvictIInv ==
  ASSUME IInv, Evict
  PROVE  IInv'
<1>1. TypeOK /\ RingInv /\ PosInv /\ (OptimizeMemory \/ DataInv)
  BY DEF IInv
<1>2. /\ pc = "idle" /\ ringBuf' = ringBuf /\ tail' = tail
      /\ head' = (IF RingSize = Capacity THEN NextSlot(head) ELSE head)
  BY DEF Evict
<1>3. /\ TypeOK' /\ PosInv' /\ Pushed = since /\ Pushed' = since
      /\ since \in Nat /\ Capacity \in Nat \ {0}
      /\ Evicted = IF since > Capacity THEN since - Capacity ELSE 0
      /\ Evicted' = IF since + 1 > Capacity THEN since + 1 - Capacity ELSE 0
  BY <1>1, EvictStored
<1>4. RingSize = since - Evicted
  BY <1>1, <1>3, RingSizeCounts
<1>5. head' = Evicted' % Phys
  <2>1. CASE since >= Capacity
    <3>1. Evicted \in Int /\ Evicted' = Evicted + 1 /\ RingSize = Capacity
      BY <1>3, <1>4, <2>1
    <3>2. Advance(Evicted % Phys, 1) = (Evicted + 1) % Phys
      BY <3>1, AdvanceCounts
    <3> QED
      BY <1>1, <1>2, <3>1, <3>2 DEF NextSlot, RingInv
  <2>2. CASE since < Capacity
    <3>1. Evicted' = Evicted /\ RingSize # Capacity
      BY <1>3, <1>4, <2>2
    <3> QED
      BY <1>1, <1>2, <3>1 DEF RingInv
  <2> QED
    BY <1>3, <2>1, <2>2
<1>6. RingInv'
  <2>1. tail' = Pushed' % Phys
    BY <1>1, <1>2, <1>3 DEF RingInv
  <2>2. ASSUME NEW k \in Evicted' .. (Pushed' - 1)
        PROVE  ringBuf'[k % Phys] = k % Capacity
    <3>1. k \in Evicted .. (Pushed - 1)
      BY <1>3
    <3> QED
      BY <1>1, <1>2, <3>1 DEF RingInv
  <2> QED
    BY <1>5, <2>1, <2>2 DEF RingInv
<1>7. DataInv => DataInv'
  BY <1>1, EvictStored DEF DataInv
<1> QED
  BY <1>1, <1>3, <1>6, <1>7, BufferAssumption DEF IInv

LEMMA PushIndexStored ==
  ASSUME TypeOK, PosInv, PushIndex
  PROVE  /\ TypeOK' /\ PosInv' /\ (DataInv => DataInv')
         /\ Pushed = since /\ Pushed' = since + 1 /\ Evicted' = Evicted
<1>1. /\ pc = "push" /\ pc' = "store" /\ head' = head /\ pos' = pos
      /\ full' = full /\ obs' = obs /\ nextObs' = nextObs
      /\ actions' = actions /\ added' = added /\ since' = since
  BY DEF PushIndex, storage
<1>2. Pushed = since /\ Pushed' = since + 1 /\ Evicted' = Evicted
  BY <1>1 DEF Pushed, Evicted, Begun
<1>3. tail' \in Slot /\ ringBuf' \in [Slot -> Position]
  <2>1. tail \in Slot /\ pos \in Position /\ ringBuf \in [Slot -> Position]
    BY DEF TypeOK
  <2>2. tail \in Int /\ 1 \in Int
    BY <2>1, PhysType
  <2>3. NextSlot(tail) \in Slot
    BY <2>2, AdvanceIsSlot DEF NextSlot
  <2>4. CASE RingFull
    BY <2>1, <2>4 DEF PushIndex
  <2>5. CASE ~RingFull
    BY <2>1, <2>3, <2>5 DEF PushIndex
  <2> QED
    BY <2>4, <2>5
<1>4. TypeOK'
  BY <1>1, <1>3 DEF TypeOK
<1>5. PosInv'
  BY <1>1 DEF PosInv
<1>6. DataInv => DataInv'
  BY <1>1, <1>2 DEF DataInv, StoredWhole
<1> QED
  BY <1>2, <1>4, <1>5, <1>6

LEMMA PushIndexIInv ==
  ASSUME IInv, PushIndex
  PROVE  IInv'
<1>1. TypeOK /\ RingInv /\ PosInv /\ (OptimizeMemory \/ DataInv)
  BY DEF IInv
<1>2. pc = "push" /\ ~RingFull
  BY <1>1, RoomToPush DEF PushIndex
<1>3. /\ head' = head /\ ringBuf' = [ringBuf EXCEPT ![tail] = pos]
      /\ tail' = NextSlot(tail)
  BY <1>2 DEF PushIndex
<1>4. Capacity \in Nat \ {0} /\ since \in Nat /\ Evicted \in Nat
      /\ Evicted <= since /\ since < Evicted + Capacity
  BY <1>1, <1>2, ReplayCounts
<1>5. /\ TypeOK' /\ PosInv' /\ (DataInv => DataInv')
      /\ Pushed = since /\ Pushed' = since + 1 /\ Evicted' = Evicted
  BY <1>1, PushIndexStored
<1>6. tail = since % Phys /\ head = Evicted % Phys
  BY <1>1, <1>5 DEF RingInv
<1>7. tail' = (since + 1) % Phys
  <2>1. since \in Int /\ 1 \in Int
    BY <1>4
  <2> QED
    BY <1>3, <1>6, <2>1, AdvanceCounts DEF NextSlot
<1>8. RingInv'
  <2>1. ASSUME NEW k \in Evicted .. since
        PROVE  ringBuf'[k % Phys] = k % Capacity
    <3>1. k % Phys \in Slot /\ tail \in Slot /\ ringBuf \in [Slot -> Position]
      BY <1>1, ResidueIsSlot DEF TypeOK
    <3>2. CASE k = since
      BY <1>1, <1>3, <1>6, <3>1, <3>2 DEF PosInv
    <3>3. CASE k # since
      <4>1. k \in Int /\ since \in Int /\ k - since <= Capacity
            /\ since - k <= Capacity /\ k \in Evicted .. (Pushed - 1)
        BY <1>4, <1>5, <3>3
      <4>2. k % Phys # tail
        BY <1>6, <3>3, <4>1, SameSlot
      <4>3. ringBuf[k % Phys] = k % Capacity
        BY <1>1, <4>1 DEF RingInv
      <4> QED
        BY <1>3, <3>1, <4>2, <4>3
    <3> QED
      BY <3>2, <3>3
  <2>2. Pushed' - 1 = since
    BY <1>4, <1>5
  <2> QED
    BY <1>3, <1>5, <1>6, <1>7, <2>1, <2>2 DEF RingInv
<1> QED
  BY <1>1, <1>5, <1>8, BufferAssumption DEF IInv

(* The other steps of add() leave the ring alone. *)
LEMMA RingUntouched ==
  ASSUME RingInv, UNCHANGED ring, Pushed' = Pushed, Evicted' = Evicted
  PROVE  RingInv'
BY DEF RingInv, ring

LEMMA StoreObsIInv ==
  ASSUME IInv, StoreObs
  PROVE  IInv'
<1>1. UNCHANGED ring
  BY DEF StoreObs
<1> QED
  BY <1>1, StoreObsStored, RingUntouched, BufferAssumption DEF IInv

LEMMA StoreRestIInv ==
  ASSUME IInv, StoreRest
  PROVE  IInv'
<1>1. UNCHANGED ring
  BY DEF StoreRest
<1> QED
  BY <1>1, StoreRestStored, RingUntouched, BufferAssumption DEF IInv

LEMMA AdvancePosIInv ==
  ASSUME IInv, AdvancePos
  PROVE  IInv'
<1>1. UNCHANGED ring
  BY DEF AdvancePos
<1> QED
  BY <1>1, AdvancePosStored, RingUntouched, BufferAssumption DEF IInv

(* reset() leads to an empty buffer from whatever the ring and the storage   *)
(* held.                                                                     *)
LEMMA ResetIInv ==
  ASSUME TypeOK, Reset
  PROVE  IInv' /\ DataInv' /\ Pushed' = 0 /\ Evicted' = 0
<1>1. /\ pc = "idle" /\ pc' = "idle"
      /\ ringBuf' = NewRing /\ head' = 0 /\ tail' = 0
      /\ obs' = obs /\ nextObs' = nextObs /\ actions' = actions
      /\ pos' = 0 /\ full' = FALSE /\ added' = added /\ since' = 0
  BY DEF Reset, storage
<1>2. Capacity \in Nat \ {0} /\ Phys \in Nat \ {0} /\ added \in Nat
  BY ReplayCounts, PhysType
<1>3. 0 % Phys = 0 /\ 0 % Capacity = 0
  BY <1>2
<1>4. Begun' = 0
  BY <1>1 DEF Begun
<1>5. Evicted' = 0 /\ Pushed' = 0
  BY <1>1, <1>2, <1>4 DEF Evicted, Pushed
<1>6. TypeOK'
  <2>1. 0 \in Slot /\ 0 \in Position /\ 0 \in 0 .. added
    BY <1>2, PhysType DEF Position
  <2>2. NewRing \in [Slot -> Position]
    BY <2>1 DEF NewRing
  <2> QED
    BY <1>1, <2>1, <2>2 DEF TypeOK
<1>7. RingInv'
  BY <1>1, <1>3, <1>5 DEF RingInv
<1>8. PosInv'
  BY <1>1, <1>2, <1>3 DEF PosInv
<1>9. DataInv'
  BY <1>1, <1>5 DEF DataInv
<1> QED
  BY <1>5, <1>6, <1>7, <1>8, <1>9 DEF IInv

(* A step that changes nothing. *)
LEMMA StutterIInv ==
  ASSUME IInv, UNCHANGED vars
  PROVE  IInv'
<1>1. /\ ringBuf' = ringBuf /\ head' = head /\ tail' = tail
      /\ pos' = pos /\ full' = full /\ obs' = obs /\ nextObs' = nextObs
      /\ actions' = actions /\ pc' = pc /\ added' = added /\ since' = since
  BY DEF vars, ring, storage
<1>2. Begun' = Begun /\ Pushed' = Pushed /\ Evicted' = Evicted
  BY <1>1 DEF Begun, Pushed, Evicted
<1>3. TypeOK' /\ PosInv'
  BY <1>1 DEF IInv, TypeOK, PosInv
<1>4. RingInv'
  BY <1>1, <1>2 DEF IInv, RingInv
<1>5. DataInv => DataInv'
  BY <1>1, <1>2 DEF DataInv, StoredWhole
<1> QED
  BY <1>3, <1>4, <1>5 DEF IInv

(* The strengthening every theorem below rests on. *)
THEOREM Invariance == Spec => []IInv
<1>1. IInv => TypeOK
  BY DEF IInv
<1>2. IInv /\ [Next]_vars => IInv'
  BY <1>1, EvictIInv, PushIndexIInv, StoreObsIInv, StoreRestIInv, AdvancePosIInv,
     ResetIInv, StutterIInv DEF Next
<1> QED
  BY InitIInv, <1>2, PTL DEF Spec

(* Every variable keeps its type: the next position, the indices of the ring *)
(* and the positions it holds stay in range, so no access is out of bounds.  *)
THEOREM TypeCorrect == Spec => []TypeOK
<1>1. IInv => TypeOK
  BY DEF IInv
<1> QED
  BY Invariance, <1>1, PTL

(* add() ignores what push() returns, and loses nothing by it: at every      *)
(* capacity, after the eviction of add() the ring has room for the position. *)
THEOREM PushAccepted == Spec => []PushIsNeverRefused
<1>1. IInv => PushIsNeverRefused
  BY RoomToPush DEF IInv, PushIsNeverRefused
<1> QED
  BY Invariance, <1>1, PTL
----------------------------------------------------------------------------
(* The positions of the calls of add() that ended and were not evicted.      *)
LivePositions == {k % Capacity : k \in Evicted .. (since - 1)}

LEMMA IdleCounts ==
  ASSUME TypeOK, pc = "idle"
  PROVE  /\ Pushed = since /\ since \in Nat /\ Capacity \in Nat \ {0}
         /\ Evicted = IF since > Capacity THEN since - Capacity ELSE 0
         /\ Evicted \in Nat
BY ReplayCounts DEF Pushed, Evicted, Begun

(* Between calls, sample() can draw the positions of the calls of add() that *)
(* were not evicted, and no others.                                          *)
LEMMA SampledPositionsCounts ==
  ASSUME IInv, pc = "idle"
  PROVE  /\ RingSize = since - Evicted
         /\ SampledPositions = LivePositions
         /\ RingSize > 0 => ringBuf[head] = Evicted % Capacity
<1>1. TypeOK /\ RingInv
  BY DEF IInv
<1>2. Pushed = since /\ since \in Nat /\ Evicted \in Nat
  BY <1>1, IdleCounts
<1>3. RingSize = since - Evicted
  BY <1>1, <1>2, RingSizeCounts
<1> DEFINE n == since - Evicted
<1>4. ASSUME NEW i \in 0 .. (n - 1)
      PROVE  ringBuf[Advance(head, i)] = (Evicted + i) % Capacity
  <2>1. Evicted \in Int /\ i \in Int /\ Evicted + i \in Evicted .. (Pushed - 1)
    BY <1>2
  <2>2. Advance(head, i) = (Evicted + i) % Phys
    BY <1>1, <2>1, AdvanceCounts DEF RingInv
  <2> QED
    BY <1>1, <2>1, <2>2 DEF RingInv
<1>5. SampledPositions = {(Evicted + i) % Capacity : i \in 0 .. (n - 1)}
  BY <1>3, <1>4 DEF SampledPositions, SampledSlots
<1>6. {(Evicted + i) % Capacity : i \in 0 .. (n - 1)} = LivePositions
  <2>1. ASSUME NEW i \in 0 .. (n - 1)
        PROVE  Evicted + i \in Evicted .. (since - 1)
    BY <1>2
  <2>2. ASSUME NEW k \in Evicted .. (since - 1)
        PROVE  k - Evicted \in 0 .. (n - 1) /\ Evicted + (k - Evicted) = k
    BY <1>2
  <2> HIDE DEF n
  <2> QED
    BY <2>1, <2>2 DEF LivePositions
<1>7. ASSUME RingSize > 0 PROVE ringBuf[head] = Evicted % Capacity
  <2>1. Evicted \in Evicted .. (Pushed - 1)
    BY <1>2, <1>3, <1>7
  <2> QED
    BY <1>1, <2>1 DEF RingInv
<1> QED
  BY <1>3, <1>5, <1>6, <1>7

(* A full lap of counts covers every position. *)
LEMMA LapCoversPositions ==
  ASSUME NEW e \in Int, Capacity \in Nat \ {0}
  PROVE  {k % Capacity : k \in e .. (e + Capacity - 1)} = Position
<1>1. ASSUME NEW k \in e .. (e + Capacity - 1)
      PROVE  k % Capacity \in Position
  BY ResidueIsPosition
<1>2. ASSUME NEW p \in Position
      PROVE  \E k \in e .. (e + Capacity - 1) : k % Capacity = p
  <2> DEFINE d == (p - e) % Capacity
  <2>1. p \in Int /\ p - e \in Int /\ p \in 0 .. (Capacity - 1)
    BY DEF Position
  <2>2. d \in 0 .. (Capacity - 1)
    BY <2>1, DivMod
  <2>3. (d + e) % Capacity = ((p - e) + e) % Capacity
    BY <2>1, ModAdd
  <2> HIDE DEF d
  <2>4. (p - e) + e = p /\ d + e = e + d
    BY <2>1, <2>2
  <2>5. p % Capacity = p
    BY <2>1, ModSmall
  <2>6. e + d \in e .. (e + Capacity - 1)
    BY <2>2
  <2> QED
    BY <2>3, <2>4, <2>5, <2>6
<1> QED
  BY <1>1, <1>2

(* SB3 wrote the positions of those calls, and no others.                    *)
LEMMA LivePositionsWritten ==
  ASSUME TypeOK, PosInv, pc = "idle"
  PROVE  /\ LivePositions = (IF full THEN Position ELSE 0 .. (pos - 1))
         /\ since - Evicted = (IF full THEN Capacity ELSE pos)
         /\ full => Evicted % Capacity = pos
<1>1. /\ since \in Nat /\ Capacity \in Nat \ {0} /\ Evicted \in Nat
      /\ Evicted = IF since > Capacity THEN since - Capacity ELSE 0
  BY IdleCounts
<1>2. CASE since >= Capacity
  <2>1. full
    BY <1>2, Zenon DEF PosInv
  <2>2. Evicted \in Int /\ since - 1 = Evicted + Capacity - 1
        /\ since - Evicted = Capacity /\ Evicted + Capacity = since
    BY <1>1, <1>2
  <2>3. LivePositions = Position
    BY <1>1, <2>2, LapCoversPositions DEF LivePositions
  <2>4. Evicted % Capacity = pos
    BY <1>1, <2>2, ModPeriod DEF PosInv
  <2> QED
    BY <2>1, <2>2, <2>3, <2>4
<1>3. CASE since < Capacity
  <2>1. ~(since >= Capacity)
    BY <1>1, <1>3
  <2>2. ~full
    BY <2>1, Zenon DEF PosInv
  <2>3. Evicted = 0 /\ since \in 0 .. (Capacity - 1)
    BY <1>1, <1>3
  <2>4. pos = since
    BY <1>1, <2>3, ModSmall DEF PosInv
  <2>5. ASSUME NEW k \in 0 .. (since - 1)
        PROVE  k % Capacity = k
    <3>1. k \in 0 .. (Capacity - 1)
      BY <1>1, <2>3
    <3> QED
      BY <1>1, <3>1, ModSmall
  <2>6. LivePositions = 0 .. (since - 1)
    BY <1>1, <2>3, <2>5 DEF LivePositions
  <2>7. since - Evicted = pos
    BY <1>1, <2>3, <2>4
  <2> QED
    BY <2>2, <2>4, <2>6, <2>7
<1>4. since >= Capacity \/ since < Capacity
  BY <1>1
<1> QED
  BY <1>2, <1>3, <1>4, Zenon

(* Hence a ring of those positions, the oldest at its head, mirrors SB3 ...  *)
LEMMA LiveRingMirrors ==
  ASSUME TypeOK, PosInv, pc = "idle",
         RingSize = since - Evicted, SampledPositions = LivePositions,
         RingSize > 0 => ringBuf[head] = Evicted % Capacity
  PROVE  RingMirrorsStorage
<1>1. /\ LivePositions = (IF full THEN Position ELSE 0 .. (pos - 1))
      /\ since - Evicted = (IF full THEN Capacity ELSE pos)
      /\ full => Evicted % Capacity = pos
  BY LivePositionsWritten
<1>2. full => Capacity > 0 /\ since - Evicted = Capacity
  BY <1>1, IdleCounts
<1> QED
  BY <1>1, <1>2 DEF RingMirrorsStorage

(* ... and with their transitions whole, sample() returns the newest ones.   *)
LEMMA LiveAreNewest ==
  ASSUME ~OptimizeMemory, TypeOK, pc = "idle",
         \A k \in Evicted .. (since - 1) : StoredWhole(k),
         SampledPositions = LivePositions
  PROVE  SamplesAreNewest
<1> SUFFICES ASSUME NEW n, n = IF since < Capacity THEN since ELSE Capacity
             PROVE  {SampleAt(i) : i \in SampledPositions}
                      = {Transition(k) : k \in (added - n) .. (added - 1)}
  BY DEF SamplesAreNewest
<1>1. /\ since \in Nat /\ Capacity \in Nat \ {0}
      /\ Evicted = IF since > Capacity THEN since - Capacity ELSE 0
  BY IdleCounts
<1>2. added \in Nat
  BY ReplayCounts
<1>3. Evicted = since - n /\ n \in Nat
  BY <1>1
<1>4. ASSUME NEW k \in Evicted .. (since - 1)
      PROVE  SampleAt(k % Capacity) = Transition(added - since + k)
  BY DEF StoredWhole, SampleAt, Transition
<1>5. {SampleAt(i) : i \in SampledPositions}
        = {Transition(added - since + k) : k \in Evicted .. (since - 1)}
  BY <1>4 DEF LivePositions
<1>6. ASSUME NEW k \in Evicted .. (since - 1)
      PROVE  added - since + k \in (added - n) .. (added - 1)
  BY <1>1, <1>2, <1>3
<1>7. ASSUME NEW t \in (added - n) .. (added - 1)
      PROVE  /\ t - added + since \in Evicted .. (since - 1)
             /\ added - since + (t - added + since) = t
  BY <1>1, <1>2, <1>3
<1>8. {Transition(added - since + k) : k \in Evicted .. (since - 1)}
        = {Transition(t) : t \in (added - n) .. (added - 1)}
  BY <1>6, <1>7
<1> QED
  BY <1>5, <1>8

(* At every capacity and after every number of calls, resets included, the   *)
(* ring holds between calls exactly the positions SB3's own sample() would   *)
(* draw from, and its oldest element is the position overwritten next.       *)
THEOREM RingMirrors == Spec => []RingMirrorsStorage
<1>1. IInv => RingMirrorsStorage
  <2>1. CASE pc = "idle"
    BY <2>1, SampledPositionsCounts, LiveRingMirrors DEF IInv
  <2>2. CASE pc # "idle"
    BY <2>2 DEF RingMirrorsStorage
  <2> QED
    BY <2>1, <2>2
<1> QED
  BY Invariance, <1>1, PTL

(* With SB3's default storage (optimize_memory_usage False), sample() can    *)
(* return exactly the newest transitions since the last reset, each whole.   *)
(* The assumption is needed: the optimized storage breaks it (run            *)
(* replay_optimized).                                                        *)
THEOREM NewestSampled ==
  ASSUME ~OptimizeMemory
  PROVE  Spec => []SamplesAreNewest
<1>1. IInv => SamplesAreNewest
  <2>1. CASE pc = "idle"
    BY <2>1, SampledPositionsCounts, LiveAreNewest DEF IInv, DataInv
  <2>2. CASE pc # "idle"
    BY <2>2 DEF SamplesAreNewest
  <2> QED
    BY <2>1, <2>2
<1> QED
  BY Invariance, <1>1, PTL

----------------------------------------------------------------------------
(* The refinement of ReplayMemory: the window sample() draws from, which the *)
(* ring and three arrays laid out modulo two different lengths represent, is *)
(* the newest transitions in every step, those within a call of add()        *)
(* included.                                                                 *)

(* n consecutive transitions, the first of them number a. *)
Consecutive(a, n) == [i \in 1 .. n |-> Transition(a + i - 1)]

Transitions == {Transition(k) : k \in Int}

LEMMA ConsecutiveIsSeq ==
  ASSUME NEW a \in Int, NEW n \in Nat
  PROVE  /\ Consecutive(a, n) \in Seq(Transitions)
         /\ Len(Consecutive(a, n)) = n
         /\ \A i \in 1 .. n : Consecutive(a, n)[i] = Transition(a + i - 1)
<1>1. \A i \in 1 .. n : Transition(a + i - 1) \in Transitions
  BY DEF Transitions
<1>2. Consecutive(a, n) \in [1 .. n -> Transitions]
  BY <1>1 DEF Consecutive
<1> QED
  BY <1>2 DEF Consecutive

(* Without its first element it starts one later ... *)
LEMMA ConsecutiveTail ==
  ASSUME NEW a \in Int, NEW n \in Nat \ {0}
  PROVE  Tail(Consecutive(a, n)) = Consecutive(a + 1, n - 1)
<1> DEFINE s == Consecutive(a, n)
           t == Consecutive(a + 1, n - 1)
<1>1. /\ s \in Seq(Transitions) /\ Len(s) = n
      /\ \A i \in 1 .. n : s[i] = Transition(a + i - 1)
  BY ConsecutiveIsSeq
<1>2. /\ t \in Seq(Transitions) /\ Len(t) = n - 1
      /\ \A i \in 1 .. n - 1 : t[i] = Transition((a + 1) + i - 1)
  <2>1. a + 1 \in Int /\ n - 1 \in Nat
    OBVIOUS
  <2> QED
    BY <2>1, ConsecutiveIsSeq
<1> HIDE DEF s, t
<1>3. s # <<>>
  BY <1>1
<1>4. /\ Tail(s) \in Seq(Transitions) /\ Len(Tail(s)) = n - 1
      /\ \A i \in 1 .. n - 1 : Tail(s)[i] = s[i + 1]
  BY <1>1, <1>3, HeadTailProperties
<1>5. ASSUME NEW i \in 1 .. n - 1
      PROVE  Tail(s)[i] = t[i]
  <2>1. i + 1 \in 1 .. n /\ a + (i + 1) - 1 = (a + 1) + i - 1
    OBVIOUS
  <2>2. s[i + 1] = Transition(a + (i + 1) - 1)
    BY <1>1, <2>1
  <2>3. t[i] = Transition((a + 1) + i - 1)
    BY <1>2
  <2> QED
    BY <1>4, <2>1, <2>2, <2>3
<1> QED
  BY <1>2, <1>4, <1>5, SeqEqual DEF s, t

(* ... and the transition after its last one makes it one longer. *)
LEMMA ConsecutiveAppend ==
  ASSUME NEW a \in Int, NEW n \in Nat
  PROVE  Append(Consecutive(a, n), Transition(a + n)) = Consecutive(a, n + 1)
<1> DEFINE s == Consecutive(a, n)
           t == Consecutive(a, n + 1)
           u == Append(s, Transition(a + n))
<1>1. /\ s \in Seq(Transitions) /\ Len(s) = n
      /\ \A i \in 1 .. n : s[i] = Transition(a + i - 1)
  BY ConsecutiveIsSeq
<1>2. /\ t \in Seq(Transitions) /\ Len(t) = n + 1
      /\ \A i \in 1 .. n + 1 : t[i] = Transition(a + i - 1)
  <2>1. n + 1 \in Nat
    OBVIOUS
  <2> QED
    BY <2>1, ConsecutiveIsSeq
<1> HIDE DEF s, t
<1>3. Transition(a + n) \in Transitions
  BY DEF Transitions
<1>4. /\ u \in Seq(Transitions) /\ Len(u) = n + 1
      /\ \A i \in 1 .. n : u[i] = s[i]
      /\ u[n + 1] = Transition(a + n)
  BY <1>1, <1>3, AppendProperties
<1> HIDE DEF u
<1>5. ASSUME NEW i \in 1 .. n + 1
      PROVE  u[i] = t[i]
  <2>1. t[i] = Transition(a + i - 1)
    BY <1>2
  <2>2. CASE i \in 1 .. n
    BY <1>1, <1>4, <2>1, <2>2
  <2>3. CASE i = n + 1
    <3>1. a + i - 1 = a + n
      BY <2>3
    <3> QED
      BY <1>4, <2>1, <2>3, <3>1
  <2> QED
    BY <2>2, <2>3
<1> QED
  BY <1>2, <1>4, <1>5, SeqEqual DEF s, t, u

----------------------------------------------------------------------------
(* In every reachable state the window is the transitions of the calls of    *)
(* add() that ended and were not evicted.                                    *)
Held == Consecutive(added - since + Evicted, since - Evicted)

LEMMA WindowIsHeld ==
  ASSUME ~OptimizeMemory
  PROVE  IInv => Window = Held
<1> SUFFICES ASSUME IInv PROVE Window = Held
  OBVIOUS
<1>1. TypeOK /\ RingInv /\ DataInv
  BY DEF IInv
<1>2. /\ since \in Nat /\ added \in Nat /\ Evicted \in Nat /\ Pushed \in Nat
      /\ Evicted <= since /\ since <= Pushed
  BY <1>1, ReplayCounts
<1>3. WindowSize = since - Evicted
  <2>1. RingSize = Pushed - Evicted
    BY <1>1, RingSizeCounts
  <2>2. pc \in {"idle", "push", "store", "store_rest", "advance"}
    BY <1>1 DEF TypeOK
  <2>3. CASE pc \in {"idle", "push"}
    <3>1. WindowSize = RingSize /\ Pushed = since
      BY <2>3 DEF WindowSize, Pushed
    <3> QED
      BY <2>1, <3>1
  <2>4. CASE pc \in {"store", "store_rest", "advance"}
    <3>1. WindowSize = RingSize - 1 /\ Pushed = since + 1
      BY <2>4 DEF WindowSize, Pushed
    <3> QED
      BY <1>2, <2>1, <3>1
  <2> QED
    BY <2>2, <2>3, <2>4
<1>4. ASSUME NEW i \in 1 .. (since - Evicted)
      PROVE  SampleAt(ringBuf[Advance(head, i - 1)])
               = Transition((added - since + Evicted) + i - 1)
  <2> DEFINE k == Evicted + (i - 1)
  <2>1. /\ i - 1 \in Int /\ Evicted \in Int
        /\ k \in Evicted .. (since - 1) /\ k \in Evicted .. (Pushed - 1)
        /\ added - since + k = (added - since + Evicted) + i - 1
    BY <1>2
  <2>2. Advance(head, i - 1) = k % Phys
    BY <1>1, <2>1, AdvanceCounts DEF RingInv
  <2> HIDE DEF k
  <2>3. ringBuf[k % Phys] = k % Capacity
    BY <1>1, <2>1 DEF RingInv
  <2>4. SampleAt(k % Capacity) = Transition(added - since + k)
    BY <1>1, <2>1 DEF DataInv, StoredWhole, SampleAt, Transition
  <2> QED
    BY <2>1, <2>2, <2>3, <2>4
<1> QED
  BY <1>3, <1>4 DEF Window, Held, Consecutive

LEMMA WindowIsHeldNext ==
  ASSUME ~OptimizeMemory
  PROVE  IInv' => Window' = Held'
<1>1. (IInv => Window = Held)'
  BY WindowIsHeld, PTL
<1> QED
  BY <1>1

(* The numbers a step of the window is about. *)
LEMMA HeldCounts ==
  ASSUME IInv
  PROVE  /\ Capacity \in Nat \ {0} /\ added \in Nat /\ since \in Nat
         /\ Evicted \in Nat
         /\ since - Evicted \in Nat
         /\ since - Evicted <= Capacity
         /\ added - since + Evicted \in Int
         /\ pc # "idle" => since - Evicted < Capacity
<1>1. TypeOK
  BY DEF IInv
<1> QED
  BY <1>1, ReplayCounts

----------------------------------------------------------------------------
(* The eviction of a full ring makes room, any other changes nothing.        *)
LEMMA EvictMakesRoom ==
  ASSUME IInv, Evict, Window = Held, Window' = Held'
  PROVE  Memory!MakeRoom \/ UNCHANGED Memory!memoryVars
<1>1. /\ pc = "idle" /\ pc' = "push" /\ added' = added /\ since' = since
  BY DEF Evict
<1>2. /\ Capacity \in Nat \ {0} /\ added \in Nat /\ since \in Nat
      /\ Evicted \in Nat
  BY HeldCounts
<1>3. Begun = since /\ Begun' = since + 1
  BY <1>1 DEF Begun
<1>4. /\ Evicted = IF Begun > Capacity THEN Begun - Capacity ELSE 0
      /\ Evicted' = IF Begun' > Capacity THEN Begun' - Capacity ELSE 0
  BY DEF Evicted
<1>5. CASE since >= Capacity
  <2>1. Evicted = since - Capacity /\ Evicted' = Evicted + 1
    BY <1>2, <1>3, <1>4, <1>5
  <2> DEFINE a == added - since + Evicted
  <2>2. a \in Int /\ since - Evicted = Capacity
        /\ added' - since' + Evicted' = a + 1 /\ since' - Evicted' = Capacity - 1
    BY <1>1, <1>2, <2>1
  <2>3. Held = Consecutive(a, Capacity)
        /\ Held' = Consecutive(a + 1, Capacity - 1)
    BY <2>2 DEF Held
  <2> HIDE DEF a
  <2>4. Tail(Held) = Held'
    BY <1>2, <2>2, <2>3, ConsecutiveTail
  <2>5. Len(Held) = Capacity
    BY <1>2, <2>2, <2>3, ConsecutiveIsSeq
  <2> QED
    BY <1>1, <2>4, <2>5 DEF Memory!MakeRoom
<1>6. CASE since < Capacity
  <2>1. Evicted = 0 /\ Evicted' = 0
    BY <1>2, <1>3, <1>4, <1>6
  <2>2. Held' = Held
    BY <1>1, <2>1 DEF Held
  <2> QED
    BY <1>1, <2>2 DEF Memory!memoryVars
<1> QED
  BY <1>2, <1>5, <1>6

(* The steps of add() between the eviction and the end write the ring and    *)
(* the arrays, none of it in the window.                                     *)
LEMMA WritesChangeNothing ==
  ASSUME IInv, PushIndex \/ StoreObs \/ StoreRest,
         Window = Held, Window' = Held'
  PROVE  UNCHANGED Memory!memoryVars
<1>1. /\ pc # "idle" /\ pc' # "idle" /\ added' = added /\ since' = since
  BY DEF PushIndex, StoreObs, StoreRest
<1>2. Begun' = Begun
  BY <1>1 DEF Begun
<1>3. Evicted' = Evicted
  BY <1>2 DEF Evicted
<1> QED
  BY <1>1, <1>3 DEF Held, Memory!memoryVars

(* The end of add() adds its transition.                                     *)
LEMMA AdvancePosAdds ==
  ASSUME IInv, AdvancePos, Window = Held, Window' = Held'
  PROVE  Memory!Add
<1>1. /\ pc = "advance" /\ pc' = "idle"
      /\ added' = added + 1 /\ since' = since + 1
  BY DEF AdvancePos
<1>2. /\ Capacity \in Nat \ {0} /\ added \in Nat /\ since \in Nat
      /\ Evicted \in Nat /\ since - Evicted \in Nat
      /\ since - Evicted < Capacity
  BY <1>1, HeldCounts
<1>3. Begun' = Begun
  BY <1>1 DEF Begun
<1>4. Evicted' = Evicted
  BY <1>3 DEF Evicted
<1> DEFINE a == added - since + Evicted
           n == since - Evicted
<1>5. a \in Int /\ n \in Nat /\ a + n = added
      /\ added' - since' + Evicted' = a /\ since' - Evicted' = n + 1
  BY <1>1, <1>2, <1>4
<1>6. Held = Consecutive(a, n) /\ Held' = Consecutive(a, n + 1)
  BY <1>5 DEF Held
<1>7. n < Capacity
  BY <1>2
<1> HIDE DEF a, n
<1>8. Append(Held, Transition(added)) = Held'
  BY <1>5, <1>6, ConsecutiveAppend
<1>9. Len(Held) < Capacity
  BY <1>5, <1>6, <1>7, ConsecutiveIsSeq
<1>10. Memory!Whole(added) = Transition(added)
  BY DEF Memory!Whole, Transition
<1> QED
  BY <1>1, <1>8, <1>9, <1>10 DEF Memory!Add

(* reset() empties the window.                                               *)
LEMMA ResetForgets ==
  ASSUME IInv, Reset, Window' = Held'
  PROVE  Memory!Forget
<1>1. pc' = "idle" /\ added' = added /\ since' = 0
  BY DEF Reset
<1>2. Begun' = 0 /\ Capacity \in Nat \ {0}
  BY <1>1, HeldCounts DEF Begun
<1>3. Evicted' = 0
  BY <1>2 DEF Evicted
<1>4. Held' = Consecutive(added' - since' + Evicted', 0)
  BY <1>1, <1>3 DEF Held
<1>5. Held' = <<>>
  BY <1>4 DEF Consecutive
<1> QED
  BY <1>1, <1>5 DEF Memory!Forget

(* With SB3's default storage the replay buffer implements the window of     *)
(* the newest transitions: a drop-in replacement.                            *)
THEOREM ImplementsMemory ==
  ASSUME ~OptimizeMemory
  PROVE  Spec => ImplementsReplayMemory
<1>1. Init => Memory!Init
  <2> SUFFICES ASSUME Init PROVE Memory!Init
    OBVIOUS
  <2>1. pc = "idle" /\ added = 0 /\ since = 0
    BY DEF Init
  <2>2. IInv
    BY InitIInv
  <2>3. Capacity \in Nat \ {0} /\ Begun = 0
    BY <2>1, <2>2, HeldCounts DEF Begun
  <2>4. Evicted = 0
    BY <2>3 DEF Evicted
  <2>5. Held = Consecutive(0, 0)
    BY <2>1, <2>4 DEF Held
  <2>6. Window = <<>>
    BY <2>2, <2>5, WindowIsHeld DEF Consecutive
  <2> QED
    BY <2>1, <2>6 DEF Memory!Init
<1>2. IInv /\ IInv' /\ [Next]_vars => [Memory!Next]_(Memory!memoryVars)
  <2> SUFFICES ASSUME IInv, IInv', [Next]_vars
               PROVE  Memory!Next \/ UNCHANGED Memory!memoryVars
    OBVIOUS
  <2>1. Window = Held /\ Window' = Held'
    BY WindowIsHeld, WindowIsHeldNext
  <2>2. CASE Evict
    BY <2>1, <2>2, EvictMakesRoom DEF Memory!Next
  <2>3. CASE PushIndex \/ StoreObs \/ StoreRest
    BY <2>1, <2>3, WritesChangeNothing
  <2>4. CASE AdvancePos
    BY <2>1, <2>4, AdvancePosAdds DEF Memory!Next
  <2>5. CASE Reset
    BY <2>1, <2>5, ResetForgets DEF Memory!Next
  <2>6. CASE UNCHANGED vars
    <3>1. pc' = pc /\ added' = added /\ since' = since
      BY <2>6 DEF vars
    <3>2. Begun' = Begun
      BY <3>1 DEF Begun
    <3>3. Evicted' = Evicted
      BY <3>2 DEF Evicted
    <3> QED
      BY <2>1, <3>1, <3>3 DEF Held, Memory!memoryVars
  <2> QED
    BY <2>2, <2>3, <2>4, <2>5, <2>6 DEF Next
<1> QED
  BY <1>1, <1>2, Invariance, PTL DEF Spec, ImplementsReplayMemory
=============================================================================

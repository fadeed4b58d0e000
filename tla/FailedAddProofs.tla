--------------------------- MODULE FailedAddProofs ---------------------------
(***************************************************************************)
(* FailedAdd for every capacity and any number of calls and failures: no   *)
(* push is refused, a failed write tears no position but its own, and the  *)
(* ring mirrors SB3's storage again when a lap of calls has ended since    *)
(* the last failure.                                                       *)
(***************************************************************************)
EXTENDS FailedAdd, ReplayProofs

LEMMA FailingCounts ==
  ASSUME FailingTypeOK
  PROVE  /\ TypeOK /\ Capacity \in Nat \ {0} /\ MaxFailures \in Nat
         /\ failures \in Nat /\ healed \in Nat /\ healed <= Capacity
         /\ head \in Slot /\ tail \in Slot /\ tail \in Int
         /\ RingSize \in 0 .. Capacity
<1>1. /\ TypeOK /\ Capacity \in Nat \ {0} /\ MaxFailures \in Nat
      /\ head \in Slot /\ tail \in Slot
  BY CapacityAssumption, BufferAssumption, FailuresAssumption
     DEF FailingTypeOK, TypeOK
<1>2. RingSize \in 0 .. Capacity
  BY <1>1, DistanceSpans DEF RingSize
<1>3. tail \in Int
  BY <1>1, PhysType
<1> QED
  BY <1>1, <1>2, <1>3 DEF FailingTypeOK

----------------------------------------------------------------------------
(* The ring, from its newest position.                                       *)

(* The slots sample() draws from are the newest ones, as many as there are.  *)
LEMMA SampledAreNewest ==
  ASSUME FailingTypeOK
  PROVE  /\ SampledSlots = {Newest(i) : i \in 1 .. RingSize}
         /\ head = Newest(RingSize)
<1>1. /\ head \in Slot /\ tail \in Slot /\ tail \in Int
      /\ RingSize \in 0 .. Capacity /\ Capacity \in Nat
  BY FailingCounts
<1>2. head = Newest(RingSize)
  BY <1>1, DistanceSpans DEF RingSize, Newest
<1> DEFINE n == RingSize
<1>3. ASSUME NEW i \in 0 .. (n - 1)
      PROVE  n - i \in 1 .. n /\ Advance(head, i) = Newest(n - i)
  <2>1. n - i \in 1 .. n /\ 0 - n \in Int /\ i \in Int
        /\ (0 - n) + i = 0 - (n - i)
    BY <1>1
  <2>2. Advance(Advance(tail, 0 - n), i) = Advance(tail, (0 - n) + i)
    BY <1>1, <2>1, AdvanceTwice
  <2> QED
    BY <1>2, <2>1, <2>2 DEF Newest
<1>4. ASSUME NEW i \in 1 .. n
      PROVE  n - i \in 0 .. (n - 1) /\ n - (n - i) = i
  BY <1>1
<1>5. SampledSlots = {Advance(head, i) : i \in 0 .. (n - 1)}
  BY DEF SampledSlots
<1> HIDE DEF n
<1>6. SampledSlots = {Newest(i) : i \in 1 .. n}
  BY <1>3, <1>4, <1>5
<1> QED
  BY <1>2, <1>6 DEF n

(* A ring of fewer than Capacity positions has room for one more.            *)
LEMMA RoomBySize ==
  ASSUME FailingTypeOK, RingSize < Capacity
  PROVE  ~RingFull
<1>1. /\ tail \in Int /\ RingSize \in 0 .. Capacity /\ Capacity \in Nat
      /\ head = Advance(tail, 0 - RingSize)
  BY FailingCounts, SampledAreNewest DEF Newest
<1>2. SUFFICES ASSUME Advance(tail, 1) = Advance(tail, 0 - RingSize)
               PROVE  FALSE
  BY <1>1 DEF RingFull, NextSlot
<1>3. 1 - (0 - RingSize) <= Capacity /\ (0 - RingSize) - 1 <= Capacity
      /\ 0 - RingSize \in Int /\ 1 \in Int /\ 1 # 0 - RingSize
  BY <1>1
<1> QED
  BY <1>1, <1>2, <1>3, AdvanceInjective

(* An eviction shortens a full ring by its oldest position.                  *)
LEMMA EvictShortens ==
  ASSUME FailingTypeOK, Evict
  PROVE  /\ RingSize' = (IF RingSize = Capacity THEN Capacity - 1 ELSE RingSize)
         /\ ringBuf' = ringBuf /\ \A i : Newest(i)' = Newest(i)
<1>1. /\ head' = (IF RingSize = Capacity THEN NextSlot(head) ELSE head)
      /\ tail' = tail /\ ringBuf' = ringBuf
  BY DEF Evict
<1>2. /\ tail \in Slot /\ tail \in Int /\ Capacity \in Nat \ {0}
      /\ RingSize \in 0 .. Capacity /\ head = Advance(tail, 0 - RingSize)
  BY FailingCounts, SampledAreNewest DEF Newest
<1>3. CASE RingSize = Capacity
  <2>1. 0 - Capacity \in Int /\ 1 \in Int
        /\ (0 - Capacity) + 1 = 0 - (Capacity - 1)
        /\ Capacity - 1 \in 0 .. Capacity
    BY <1>2
  <2>2. Advance(Advance(tail, 0 - Capacity), 1)
          = Advance(tail, (0 - Capacity) + 1)
    BY <1>2, <2>1, AdvanceTwice
  <2>3. head' = Advance(tail, 0 - (Capacity - 1))
    BY <1>1, <1>2, <1>3, <2>1, <2>2 DEF NextSlot
  <2>4. Distance(head', tail) = Capacity - 1
    BY <1>2, <2>1, <2>3, DistanceBack
  <2> QED
    BY <1>1, <1>3, <2>4 DEF RingSize, Newest
<1>4. CASE RingSize # Capacity
  BY <1>1, <1>4 DEF RingSize, Newest
<1> QED
  BY <1>3, <1>4

(* A push into a ring with room lengthens it by the position pushed.         *)
LEMMA PushLengthens ==
  ASSUME FailingTypeOK, PushIndex, RingSize < Capacity
  PROVE  /\ RingSize' = RingSize + 1
         /\ ringBuf'[Newest(1)'] = pos
         /\ \A i \in 2 .. (RingSize + 1) :
              ringBuf'[Newest(i)'] = ringBuf[Newest(i - 1)]
<1>1. /\ head' = head /\ ringBuf' = [ringBuf EXCEPT ![tail] = pos]
      /\ tail' = Advance(tail, 1)
  BY RoomBySize DEF PushIndex, NextSlot
<1>2. /\ tail \in Slot /\ tail \in Int /\ Capacity \in Nat \ {0}
      /\ RingSize \in 0 .. Capacity /\ head = Advance(tail, 0 - RingSize)
      /\ ringBuf \in [Slot -> Position]
  BY FailingCounts, SampledAreNewest DEF Newest, TypeOK
<1>3. \A i \in Int : Newest(i)' = Newest(i - 1)
  <2> TAKE i \in Int
  <2>1. Advance(Advance(tail, 1), 0 - i) = Advance(tail, 1 + (0 - i))
    BY <1>2, AdvanceTwice
  <2>2. 1 + (0 - i) = 0 - (i - 1)
    OBVIOUS
  <2> QED
    BY <1>1, <2>1, <2>2 DEF Newest
<1>4. Newest(0) = tail
  BY <1>2, AdvanceNothing DEF Newest
<1>5. RingSize' = RingSize + 1
  <2>1. RingSize + 1 \in Int /\ RingSize + 1 \in 0 .. Capacity
        /\ (RingSize + 1) - 1 = RingSize
    BY <1>2
  <2>2. head' = Advance(tail', 0 - (RingSize + 1))
    BY <1>1, <1>2, <1>3, <2>1 DEF Newest
  <2>3. tail' \in Slot
    BY <1>1, <1>2, AdvanceIsSlot
  <2>4. Distance(Advance(tail', 0 - (RingSize + 1)), tail') = RingSize + 1
    BY <2>1, <2>3, DistanceBack
  <2> QED
    BY <2>2, <2>4 DEF RingSize
<1>6. ringBuf'[Newest(1)'] = pos
  <2>1. Newest(1)' = tail
    BY <1>3, <1>4
  <2> QED
    BY <1>1, <1>2, <2>1
<1>7. ASSUME NEW i \in 2 .. (RingSize + 1)
      PROVE  ringBuf'[Newest(i)'] = ringBuf[Newest(i - 1)]
  <2>1. i \in Int /\ i - 1 \in 1 .. RingSize /\ i - 1 \in Int
        /\ 0 - (i - 1) \in Int /\ 0 \in Int /\ 0 - (i - 1) # 0
        /\ 0 - (0 - (i - 1)) <= Capacity /\ (0 - (i - 1)) - 0 <= Capacity
    BY <1>2
  <2>2. Newest(i - 1) \in Slot
    BY <1>2, <2>1, AdvanceIsSlot DEF Newest
  <2>3. Newest(i - 1) # tail
    <3>1. SUFFICES ASSUME Advance(tail, 0 - (i - 1)) = Advance(tail, 0)
                   PROVE  FALSE
      BY <1>2, AdvanceNothing DEF Newest
    <3> QED
      BY <1>2, <2>1, <3>1, AdvanceInjective
  <2> QED
    BY <1>1, <1>2, <1>3, <2>1, <2>2, <2>3
<1> QED
  BY <1>5, <1>6, <1>7

----------------------------------------------------------------------------
(* The inductive invariant, step by step.                                    *)

LEMMA FailingInitIInv == FailingInit => FailingIInv
<1> SUFFICES ASSUME FailingInit PROVE FailingIInv
  OBVIOUS
<1>1. TypeOK /\ PosInv /\ RingInv
  BY InitIInv DEF FailingInit, IInv
<1>2. /\ healed = Capacity /\ failures = 0 /\ pc = "idle" /\ since = 0
      /\ Capacity \in Nat \ {0} /\ MaxFailures \in Nat
  BY CapacityAssumption, BufferAssumption, FailuresAssumption
     DEF FailingInit, Init
<1>3. FailingTypeOK
  BY <1>1, <1>2 DEF FailingTypeOK
<1>4. Pushed = 0 /\ Evicted = 0
  BY <1>1, <1>2, IdleCounts
<1>5. RingSize = 0
  BY <1>1, <1>4, RingSizeCounts
<1>6. SizeInv /\ LapInv /\ HeldInv
  BY <1>2, <1>4, <1>5 DEF SizeInv, LapInv, HeldInv
<1>7. FailingDataInv
  BY <1>2, <1>4 DEF FailingDataInv, DataInv
<1> QED
  BY <1>1, <1>3, <1>6, <1>7 DEF FailingIInv

LEMMA EvictFailing ==
  ASSUME FailingIInv, Evict, UNCHANGED <<failures, healed>>
  PROVE  FailingIInv'
<1>1. /\ FailingTypeOK /\ TypeOK /\ PosInv /\ SizeInv /\ LapInv /\ HeldInv
      /\ Capacity \in Nat \ {0} /\ healed \in Nat /\ healed <= Capacity
      /\ RingSize \in 0 .. Capacity
  BY FailingCounts DEF FailingIInv
<1>2. /\ pc = "idle" /\ pc' = "push" /\ pos' = pos /\ full' = full
      /\ since' = since /\ failures' = failures /\ healed' = healed
  BY DEF Evict
<1>3. /\ TypeOK' /\ PosInv' /\ Pushed = since /\ Pushed' = since
      /\ since \in Nat
      /\ Evicted = IF since > Capacity THEN since - Capacity ELSE 0
      /\ Evicted' = IF since + 1 > Capacity THEN since + 1 - Capacity ELSE 0
  BY <1>1, EvictStored
<1>4. /\ RingSize' = (IF RingSize = Capacity THEN Capacity - 1 ELSE RingSize)
      /\ ringBuf' = ringBuf /\ \A i : Newest(i)' = Newest(i)
  BY <1>1, EvictShortens
<1>5. FailingTypeOK'
  BY <1>1, <1>2, <1>3 DEF FailingTypeOK
<1>6. SizeInv'
  <2>1. RingSize' < Capacity
    BY <1>1, <1>4
  <2>2. CASE healed = Capacity
    <3>1. RingSize = since - Evicted
      BY <1>1, <1>3, <2>2 DEF SizeInv
    <3>2. RingSize' = since - Evicted'
      BY <1>1, <1>3, <1>4, <3>1
    <3> QED
      BY <1>2, <1>3, <2>1, <2>2, <3>2 DEF SizeInv
  <2>3. CASE healed # Capacity
    <3>1. healed <= since /\ healed + (since - since) <= RingSize
      BY <1>1, <1>3, <2>3 DEF SizeInv
    <3>2. healed + (since - since) <= RingSize'
      BY <1>1, <1>3, <1>4, <2>3, <3>1
    <3> QED
      BY <1>2, <1>3, <2>1, <2>3, <3>1, <3>2 DEF SizeInv
  <2> QED
    BY <2>2, <2>3
<1>7. \A i \in 1 .. RingSize' : i \in 1 .. RingSize
  BY <1>1, <1>4
<1>8. LapInv'
  BY <1>1, <1>2, <1>3, <1>4, <1>7 DEF LapInv
<1>9. HeldInv'
  BY <1>1, <1>2, <1>3, <1>4, <1>7 DEF HeldInv
<1>10. ASSUME FailingDataInv PROVE FailingDataInv'
  <2>1. \A k \in Evicted .. (since - 1) : k # since - Capacity => StoredWhole(k)
    BY <1>10 DEF FailingDataInv, DataInv
  <2>2. DataInv'
    BY <1>1, <2>1, EvictStored
  <2> QED
    BY <1>2, <2>2 DEF FailingDataInv
<1> QED
  BY <1>3, <1>5, <1>6, <1>8, <1>9, <1>10, BufferAssumption DEF FailingIInv

LEMMA PushIndexFailing ==
  ASSUME FailingIInv, PushIndex, UNCHANGED <<failures, healed>>
  PROVE  FailingIInv'
<1>1. /\ FailingTypeOK /\ TypeOK /\ PosInv /\ SizeInv /\ LapInv /\ HeldInv
      /\ Capacity \in Nat \ {0} /\ healed \in Nat /\ healed <= Capacity
      /\ RingSize \in 0 .. Capacity /\ since \in Nat /\ Evicted \in Nat
  BY FailingCounts, ReplayCounts DEF FailingIInv
<1>2. /\ pc = "push" /\ pc' = "store" /\ pos' = pos /\ full' = full
      /\ since' = since /\ failures' = failures /\ healed' = healed
  BY DEF PushIndex
<1>3. /\ TypeOK' /\ PosInv' /\ Pushed = since /\ Pushed' = since + 1
      /\ Evicted' = Evicted
  BY <1>1, PushIndexStored
<1>4. /\ RingSize' = RingSize + 1
      /\ ringBuf'[Newest(1)'] = pos
      /\ \A i \in 2 .. (RingSize + 1) :
           ringBuf'[Newest(i)'] = ringBuf[Newest(i - 1)]
  BY <1>1, <1>2, PushLengthens DEF SizeInv
<1>5. FailingTypeOK'
  BY <1>1, <1>2, <1>3 DEF FailingTypeOK
<1>6. SizeInv'
  <2>1. CASE healed = Capacity
    <3>1. RingSize = since - Evicted
      BY <1>1, <1>3, <2>1 DEF SizeInv
    <3>2. RingSize' = Pushed' - Evicted'
      BY <1>1, <1>3, <1>4, <3>1
    <3> QED
      BY <1>2, <2>1, <3>2 DEF SizeInv
  <2>2. CASE healed # Capacity
    <3>1. healed <= since /\ healed + (since - since) <= RingSize
      BY <1>1, <1>3, <2>2 DEF SizeInv
    <3>2. healed + (Pushed' - since') <= RingSize'
      BY <1>1, <1>2, <1>3, <1>4, <3>1
    <3> QED
      BY <1>2, <2>2, <3>1, <3>2 DEF SizeInv
  <2> QED
    BY <2>1, <2>2
<1>7. ASSUME NEW i \in 1 .. RingSize'
      PROVE  \/ i = 1
             \/ i \in 2 .. (RingSize + 1) /\ i - 1 \in 1 .. RingSize
  BY <1>1, <1>4
<1>8. LapInv'
  <2> SUFFICES ASSUME NEW i \in 1 .. RingSize', i <= healed + 1
               PROVE  ringBuf'[Newest(i)'] = (since + 1 - i) % Capacity
    BY <1>1, <1>2, <1>3 DEF LapInv
  <2>1. CASE i = 1
    <3>1. since + 1 - i = since
      BY <1>1, <2>1
    <3> QED
      BY <1>1, <1>4, <2>1, <3>1 DEF PosInv
  <2>2. CASE i \in 2 .. (RingSize + 1) /\ i - 1 \in 1 .. RingSize
    <3>1. i - 1 <= healed + (Pushed - since) /\ Pushed - (i - 1) = since + 1 - i
      BY <1>1, <1>3, <2>2
    <3>2. ringBuf[Newest(i - 1)] = (Pushed - (i - 1)) % Capacity
      BY <1>1, <2>2, <3>1 DEF LapInv
    <3> QED
      BY <1>4, <2>2, <3>1, <3>2
  <2> QED
    BY <1>7, <2>1, <2>2
<1>9. HeldInv'
  <2> SUFFICES ASSUME NEW i \in 1 .. RingSize',
                      NEW p, p = ringBuf'[Newest(i)']
               PROVE  full \/ p < pos \/ p = pos
    BY <1>1, <1>2, <1>3 DEF HeldInv
  <2>1. CASE i = 1
    BY <1>4, <2>1
  <2>2. CASE i \in 2 .. (RingSize + 1) /\ i - 1 \in 1 .. RingSize
    BY <1>1, <1>4, <2>2 DEF HeldInv
  <2> QED
    BY <1>7, <2>1, <2>2
<1>10. ASSUME FailingDataInv PROVE FailingDataInv'
  BY <1>1, <1>2, <1>10, PushIndexStored DEF FailingDataInv
<1> QED
  BY <1>3, <1>5, <1>6, <1>8, <1>9, <1>10, BufferAssumption DEF FailingIInv

(* The steps that write SB3's arrays leave the ring and the counts alone.    *)
LEMMA StoreFailing ==
  ASSUME FailingIInv, StoreObs \/ StoreRest, UNCHANGED <<failures, healed>>
  PROVE  FailingIInv'
<1>1. /\ FailingTypeOK /\ TypeOK /\ PosInv /\ SizeInv /\ LapInv /\ HeldInv
  BY FailingCounts DEF FailingIInv
<1>2. /\ pc \in {"store", "store_rest"} /\ pc' \in {"store_rest", "advance"}
      /\ ringBuf' = ringBuf /\ head' = head /\ tail' = tail
      /\ pos' = pos /\ full' = full
      /\ since' = since /\ failures' = failures /\ healed' = healed
  BY DEF StoreObs, StoreRest, ring
<1>3. /\ TypeOK' /\ PosInv' /\ Pushed' = Pushed /\ Evicted' = Evicted
      /\ (~OptimizeMemory /\ DataInv => DataInv')
  BY <1>1, StoreObsStored, StoreRestStored
<1>4. RingSize' = RingSize /\ \A i : Newest(i)' = Newest(i)
  BY <1>2 DEF RingSize, Newest
<1>5. FailingTypeOK'
  BY <1>1, <1>2, <1>3 DEF FailingTypeOK
<1>6. SizeInv'
  BY <1>1, <1>2, <1>3, <1>4 DEF SizeInv
<1>7. LapInv'
  BY <1>1, <1>2, <1>3, <1>4 DEF LapInv
<1>8. HeldInv'
  BY <1>1, <1>2, <1>3, <1>4 DEF HeldInv
<1>9. ASSUME ~OptimizeMemory, FailingDataInv PROVE FailingDataInv'
  BY <1>2, <1>3, <1>9 DEF FailingDataInv
<1> QED
  BY <1>3, <1>5, <1>6, <1>7, <1>8, <1>9 DEF FailingIInv

(* A call that ends brings the ring one call closer to a lap.                *)
LEMMA EndsFailing ==
  ASSUME FailingIInv, Ends
  PROVE  FailingIInv'
<1>1. /\ FailingTypeOK /\ TypeOK /\ PosInv /\ SizeInv /\ LapInv /\ HeldInv
      /\ Capacity \in Nat \ {0} /\ healed \in Nat /\ healed <= Capacity
      /\ RingSize \in 0 .. Capacity /\ since \in Nat /\ Evicted \in Nat
  BY FailingCounts, ReplayCounts DEF FailingIInv
<1>2. /\ AdvancePos /\ pc = "advance" /\ pc' = "idle"
      /\ ringBuf' = ringBuf /\ head' = head /\ tail' = tail
      /\ pos' = (pos + 1) % Capacity
      /\ full' = (full \/ pos + 1 = Capacity)
      /\ since' = since + 1 /\ failures' = failures
      /\ healed' = (IF healed < Capacity THEN healed + 1 ELSE healed)
  BY DEF Ends, AdvancePos, ring
<1>3. /\ TypeOK' /\ PosInv' /\ (DataInv => DataInv')
      /\ Pushed' = Pushed /\ Evicted' = Evicted
  BY <1>1, <1>2, AdvancePosStored
<1>4. /\ Pushed = since + 1
      /\ Evicted = IF since + 1 > Capacity THEN since + 1 - Capacity ELSE 0
  <2>1. Begun = since + 1 /\ Pushed = since + 1
    BY <1>2 DEF Begun, Pushed
  <2> QED
    BY <1>1, <2>1 DEF Evicted
<1>5. RingSize' = RingSize /\ \A i : Newest(i)' = Newest(i)
  BY <1>2 DEF RingSize, Newest
<1>6. FailingTypeOK'
  <2>1. healed' \in 0 .. Capacity
    BY <1>1, <1>2
  <2> QED
    BY <1>1, <1>2, <1>3, <2>1 DEF FailingTypeOK
<1>7. SizeInv'
  <2>1. CASE healed = Capacity
    <3>1. RingSize = Pushed - Evicted /\ healed' = Capacity
      BY <1>1, <1>2, <2>1 DEF SizeInv
    <3> QED
      BY <1>2, <1>3, <1>5, <3>1 DEF SizeInv
  <2>2. CASE healed # Capacity
    <3>1. healed <= since /\ healed + 1 <= RingSize /\ healed' = healed + 1
      BY <1>1, <1>2, <1>4, <2>2 DEF SizeInv
    <3>2. CASE healed' = Capacity
      <4>1. RingSize = Capacity /\ since + 1 - Evicted = Capacity
        BY <1>1, <1>4, <3>1, <3>2
      <4>2. RingSize' = Pushed' - Evicted'
        BY <1>1, <1>3, <1>4, <1>5, <4>1
      <4> QED
        BY <1>2, <3>2, <4>2 DEF SizeInv
    <3>3. CASE healed' # Capacity
      <4>1. healed' <= since' /\ healed' + (Pushed' - since') <= RingSize'
        BY <1>1, <1>2, <1>3, <1>4, <1>5, <3>1
      <4> QED
        BY <1>2, <3>3, <4>1 DEF SizeInv
    <3> QED
      BY <3>2, <3>3
  <2> QED
    BY <2>1, <2>2
<1>8. LapInv'
  <2> SUFFICES ASSUME NEW i \in 1 .. RingSize, i <= healed' + (Pushed - since')
               PROVE  ringBuf[Newest(i)] = (Pushed - i) % Capacity
    BY <1>2, <1>3, <1>5 DEF LapInv
  <2>1. i <= healed + (Pushed - since)
    BY <1>1, <1>2, <1>4
  <2> QED
    BY <1>1, <2>1 DEF LapInv
<1>9. HeldInv'
  <2> SUFFICES ASSUME NEW i \in 1 .. RingSize,
                      NEW p, p = ringBuf[Newest(i)]
               PROVE  full' \/ p < pos'
    BY <1>2, <1>5 DEF HeldInv
  <2>1. /\ pos \in 0 .. (Capacity - 1) /\ p \in Int
        /\ full \/ p < pos \/ p = pos
    <3>1. tail \in Int /\ i \in Int
      BY <1>1, FailingCounts
    <3>2. Newest(i) \in Slot
      BY <3>1, AdvanceIsSlot DEF Newest
    <3> QED
      BY <1>1, <3>2 DEF HeldInv, TypeOK, Position
  <2>2. CASE pos + 1 = Capacity
    BY <1>2, <2>2
  <2>3. CASE pos + 1 # Capacity
    <3>1. pos + 1 \in 0 .. (Capacity - 1)
      BY <1>1, <2>1, <2>3
    <3>2. pos' = pos + 1
      BY <1>1, <1>2, <3>1, ModSmall
    <3>3. full => full'
      BY <1>2
    <3>4. p < pos \/ p = pos => p < pos'
      BY <2>1, <3>2
    <3> QED
      BY <2>1, <3>3, <3>4
  <2> QED
    BY <2>2, <2>3
<1>10. ASSUME FailingDataInv PROVE FailingDataInv'
  <2>1. DataInv'
    BY <1>2, <1>3, <1>10 DEF FailingDataInv
  <2>2. healed' # 0
    BY <1>1, <1>2
  <2> QED
    BY <2>1, <2>2 DEF FailingDataInv
<1> QED
  BY <1>3, <1>6, <1>7, <1>8, <1>9, <1>10, BufferAssumption DEF FailingIInv

LEMMA ResetsFailing ==
  ASSUME FailingIInv, Resets
  PROVE  FailingIInv'
<1>1. /\ FailingTypeOK /\ TypeOK /\ Capacity \in Nat \ {0}
  BY FailingCounts DEF FailingIInv
<1>2. /\ Reset /\ pc' = "idle" /\ head' = 0 /\ tail' = 0 /\ since' = 0
      /\ failures' = failures /\ healed' = Capacity
  BY DEF Resets, Reset
<1>3. /\ TypeOK' /\ PosInv' /\ DataInv' /\ Pushed' = 0 /\ Evicted' = 0
  BY <1>1, <1>2, ResetIInv DEF IInv
<1>4. RingSize' = 0
  <2>1. Phys \in Nat \ {0}
    BY PhysType
  <2>2. (0 - 0 + Phys) % Phys = 0
    BY <2>1
  <2> QED
    BY <1>2, <2>2 DEF RingSize, Distance
<1>5. FailingTypeOK'
  BY <1>1, <1>2, <1>3 DEF FailingTypeOK
<1>6. SizeInv' /\ LapInv' /\ HeldInv'
  BY <1>2, <1>3, <1>4 DEF SizeInv, LapInv, HeldInv
<1>7. FailingDataInv'
  BY <1>1, <1>2, <1>3 DEF FailingDataInv
<1> QED
  BY <1>3, <1>5, <1>6, <1>7 DEF FailingIInv

(* A failure leaves the position it pushed in the ring, and the transition   *)
(* at pos torn, however many of the arrays it had written.                   *)
LEMMA SuperAddRaisesFailing ==
  ASSUME FailingIInv, SuperAddRaises
  PROVE  FailingIInv'
<1>1. /\ FailingTypeOK /\ TypeOK /\ PosInv /\ HeldInv
      /\ Capacity \in Nat \ {0} /\ MaxFailures \in Nat /\ failures \in Nat
      /\ RingSize \in 0 .. Capacity /\ since \in Nat
  BY FailingCounts, ReplayCounts DEF FailingIInv
<1>2. /\ pc \in {"store", "store_rest", "advance"} /\ pc' = "idle"
      /\ ringBuf' = ringBuf /\ head' = head /\ tail' = tail
      /\ pos' = pos /\ full' = full
      /\ UNCHANGED <<obs, nextObs>> \/ WriteNext
      /\ actions' = actions /\ added' = added /\ since' = since
      /\ failures < MaxFailures /\ failures' = failures + 1 /\ healed' = 0
  BY DEF SuperAddRaises, ring
<1>3. /\ Pushed' = since
      /\ Evicted = IF since + 1 > Capacity THEN since + 1 - Capacity ELSE 0
      /\ Evicted' = IF since > Capacity THEN since - Capacity ELSE 0
  <2>1. Begun = since + 1 /\ Begun' = since /\ Pushed' = since
    BY <1>2 DEF Begun, Pushed
  <2>2. Evicted' = IF Begun' > Capacity THEN Begun' - Capacity ELSE 0
    BY DEF Evicted
  <2> QED
    BY <1>1, <2>1, <2>2 DEF Evicted
<1>4. RingSize' = RingSize /\ \A i : Newest(i)' = Newest(i)
  BY <1>2 DEF RingSize, Newest
<1>5. FailingTypeOK'
  <2>1. TypeOK'
    <3>1. /\ added + 1 \in -1 .. MaxAdd
          /\ obs \in [Position -> -1 .. MaxAdd]
          /\ nextObs \in [Position -> -1 .. MaxAdd]
      BY <1>1, <1>2, AddAssumption DEF TypeOK, PosInv
    <3>2. /\ obs' \in [Position -> -1 .. MaxAdd]
          /\ nextObs' \in [Position -> -1 .. MaxAdd]
      BY <1>2, <3>1 DEF WriteNext
    <3> QED
      BY <1>1, <1>2, <3>2 DEF TypeOK
  <2>2. failures' \in 0 .. MaxFailures /\ healed' \in 0 .. Capacity
    BY <1>1, <1>2
  <2> QED
    BY <2>1, <2>2 DEF FailingTypeOK
<1>6. PosInv'
  BY <1>1, <1>2 DEF PosInv
<1>7. SizeInv'
  BY <1>1, <1>2, <1>3, <1>4 DEF SizeInv
<1>8. LapInv'
  BY <1>1, <1>2, <1>3, <1>4 DEF LapInv
<1>9. HeldInv'
  BY <1>1, <1>2, <1>4 DEF HeldInv
<1>10. ASSUME ~OptimizeMemory, FailingDataInv PROVE FailingDataInv'
  <2> SUFFICES ASSUME NEW k \in Evicted' .. (since - 1), k # since - Capacity
               PROVE  StoredWhole(k)'
    BY <1>2 DEF FailingDataInv
  <2>1. k \in Evicted .. (since - 1)
    BY <1>1, <1>3
  <2>2. StoredWhole(k)
    BY <1>2, <1>10, <2>1 DEF FailingDataInv, DataInv
  <2>3. k % Capacity # pos
    <3>1. k \in Int /\ since \in Int /\ k - since < Capacity
          /\ since - k < Capacity /\ k # since
      BY <1>1, <1>3, <2>1
    <3> QED
      BY <1>1, <3>1, SamePosition DEF PosInv
  <2>4. obs'[k % Capacity] = obs[k % Capacity]
        /\ nextObs'[k % Capacity] = nextObs[k % Capacity]
    <3>1. k \in Int
      BY <1>1, <1>3, <2>1
    <3>2. k % Capacity \in Position
      BY <3>1, ResidueIsPosition
    <3>3. nextObs \in [Position -> -1 .. MaxAdd]
      BY <1>1 DEF TypeOK
    <3> QED
      BY <1>2, <1>10, <2>3, <3>2, <3>3 DEF WriteNext
  <2> QED
    BY <1>2, <2>2, <2>4 DEF StoredWhole
<1> QED
  BY <1>5, <1>6, <1>7, <1>8, <1>9, <1>10, BufferAssumption DEF FailingIInv

LEMMA StutterFailing ==
  ASSUME FailingIInv, UNCHANGED failingVars
  PROVE  FailingIInv'
<1>1. /\ ringBuf' = ringBuf /\ head' = head /\ tail' = tail
      /\ pos' = pos /\ full' = full /\ obs' = obs /\ nextObs' = nextObs
      /\ actions' = actions /\ pc' = pc /\ added' = added /\ since' = since
      /\ failures' = failures /\ healed' = healed
  BY DEF failingVars, vars, ring, storage
<1>2. Begun' = Begun /\ Pushed' = Pushed /\ Evicted' = Evicted
  BY <1>1 DEF Begun, Pushed, Evicted
<1>3. RingSize' = RingSize /\ \A i : Newest(i)' = Newest(i)
  BY <1>1 DEF RingSize, Newest
<1>4. FailingTypeOK' /\ PosInv'
  BY <1>1 DEF FailingIInv, FailingTypeOK, TypeOK, PosInv
<1>5. SizeInv' /\ LapInv' /\ HeldInv'
  BY <1>1, <1>2, <1>3 DEF FailingIInv, SizeInv, LapInv, HeldInv
<1>6. FailingDataInv => FailingDataInv'
  BY <1>1, <1>2 DEF FailingDataInv, DataInv, StoredWhole
<1> QED
  BY <1>4, <1>5, <1>6 DEF FailingIInv

(* The invariant that counts the calls since the last failure.               *)
THEOREM FailingInvariance == FailingSpec => []FailingIInv
<1>1. FailingIInv /\ [FailingNext]_failingVars => FailingIInv'
  <2> SUFFICES ASSUME FailingIInv, [FailingNext]_failingVars
               PROVE  FailingIInv'
    OBVIOUS
  <2>1. CASE Working
    BY <2>1, EvictFailing, PushIndexFailing, StoreFailing DEF Working
  <2>2. CASE Ends
    BY <2>2, EndsFailing
  <2>3. CASE Resets
    BY <2>3, ResetsFailing
  <2>4. CASE SuperAddRaises
    BY <2>4, SuperAddRaisesFailing
  <2>5. CASE UNCHANGED failingVars
    BY <2>5, StutterFailing
  <2> QED
    BY <2>1, <2>2, <2>3, <2>4, <2>5 DEF FailingNext
<1> QED
  BY FailingInitIInv, <1>1, PTL DEF FailingSpec

----------------------------------------------------------------------------
(* What follows from it.                                                     *)

(* Whatever raised before, and although positions were pushed twice, the     *)
(* ring has room for the next position after the eviction of add().          *)
THEOREM FailingPushAccepted == FailingSpec => []PushIsNeverRefused
<1>1. FailingIInv => PushIsNeverRefused
  BY RoomBySize DEF FailingIInv, SizeInv, PushIsNeverRefused
<1> QED
  BY FailingInvariance, <1>1, PTL

(* Every variable keeps its type: no index leaves the ring or the arrays.    *)
THEOREM FailingTypeCorrect == FailingSpec => []FailingTypeOK
<1>1. FailingIInv => FailingTypeOK
  BY DEF FailingIInv
<1> QED
  BY FailingInvariance, <1>1, PTL

(* With SB3's default storage, what sample() can return after any failures   *)
(* is a whole transition, but for the position the last add() failed at.     *)
THEOREM TornOnlyThere ==
  ASSUME ~OptimizeMemory
  PROVE  FailingSpec => []TornOnlyWhereItFailed
<1>1. FailingIInv => TornOnlyWhereItFailed
  <2> SUFFICES ASSUME FailingIInv, pc = "idle", NEW p \in SampledPositions,
                      ~(p = pos /\ healed = 0)
               PROVE  \E k \in (added - since) .. (added - 1) :
                        SampleAt(p) = Transition(k)
    BY DEF TornOnlyWhereItFailed
  <2>1. /\ FailingTypeOK /\ TypeOK /\ PosInv /\ HeldInv /\ FailingDataInv
        /\ healed \in Nat /\ tail \in Int /\ RingSize \in 0 .. Capacity
    BY FailingCounts DEF FailingIInv
  <2>2. /\ Pushed = since /\ since \in Nat /\ Capacity \in Nat \ {0}
        /\ Evicted = IF since > Capacity THEN since - Capacity ELSE 0
        /\ Evicted \in Nat /\ added \in Nat
    BY <2>1, IdleCounts, ReplayCounts
  <2>3. PICK i \in 1 .. RingSize : p = ringBuf[Newest(i)]
    BY <2>1, SampledAreNewest DEF SampledPositions
  <2>4. p \in Position
    <3>1. Newest(i) \in Slot
      BY <2>1, AdvanceIsSlot DEF Newest
    <3> QED
      BY <2>1, <2>3, <3>1 DEF TypeOK
  <2>5. full \/ p < pos
    BY <2>1, <2>2, <2>3 DEF HeldInv
  <2>6. p \in LivePositions
    <3>1. LivePositions = (IF full THEN Position ELSE 0 .. (pos - 1))
      BY <2>1, LivePositionsWritten
    <3>2. pos \in Position
      BY <2>1 DEF TypeOK
    <3> QED
      BY <2>2, <2>4, <2>5, <3>1, <3>2 DEF Position
  <2>7. PICK k \in Evicted .. (since - 1) : p = k % Capacity
    BY <2>6 DEF LivePositions
  <2>8. StoredWhole(k)
    <3>1. CASE healed = 0
      <4>1. k # since - Capacity
        <5>1. SUFFICES ASSUME k = since - Capacity PROVE FALSE
          OBVIOUS
        <5>2. k \in Int /\ k + Capacity = since
          BY <2>2, <5>1
        <5>3. p = pos
          BY <2>1, <2>2, <2>7, <5>2, ModPeriod DEF PosInv
        <5> QED
          BY <3>1, <5>3
      <4> QED
        BY <2>1, <3>1, <4>1 DEF FailingDataInv
    <3>2. CASE healed # 0
      BY <2>1, <3>2 DEF FailingDataInv, DataInv
    <3> QED
      BY <3>1, <3>2
  <2>9. added - since + k \in (added - since) .. (added - 1)
    BY <2>2
  <2> QED
    BY <2>7, <2>8, <2>9 DEF StoredWhole, SampleAt, Transition
<1> QED
  BY FailingInvariance, <1>1, PTL

(* A lap of calls after the last failure, with SB3's default storage, the    *)
(* ring mirrors SB3's positions again and sample() returns exactly the       *)
(* newest transitions: no failure has a lasting effect.                      *)
THEOREM MirrorsAgain ==
  ASSUME ~OptimizeMemory
  PROVE  FailingSpec => []MirrorsAfterLap
<1>1. FailingIInv => MirrorsAfterLap
  <2> SUFFICES ASSUME FailingIInv, healed = Capacity
               PROVE  RingMirrorsStorage /\ SamplesAreNewest
    BY DEF MirrorsAfterLap
  <2>1. CASE pc # "idle"
    BY <2>1 DEF RingMirrorsStorage, SamplesAreNewest
  <2>2. CASE pc = "idle"
    <3>1. /\ FailingTypeOK /\ TypeOK /\ PosInv /\ SizeInv /\ LapInv
          /\ RingSize \in 0 .. Capacity
          /\ Capacity \in Nat \ {0}
      BY FailingCounts DEF FailingIInv
    <3>2. Pushed = since /\ since \in Nat /\ Evicted \in Nat
      BY <2>2, <3>1, IdleCounts
    <3>3. RingSize = since - Evicted
      BY <3>1, <3>2 DEF SizeInv
    <3>4. ASSUME NEW i \in 1 .. RingSize
          PROVE  ringBuf[Newest(i)] = (since - i) % Capacity
      <4>1. i <= healed + (Pushed - since)
        BY <3>1, <3>2
      <4> QED
        BY <3>1, <3>2, <4>1 DEF LapInv
    <3>5. SampledPositions = {(since - i) % Capacity : i \in 1 .. RingSize}
      BY <3>1, <3>4, SampledAreNewest DEF SampledPositions
    <3>6. SampledPositions = LivePositions
      <4>1. ASSUME NEW i \in 1 .. RingSize
            PROVE  since - i \in Evicted .. (since - 1)
        BY <3>2, <3>3
      <4>2. ASSUME NEW k \in Evicted .. (since - 1)
            PROVE  since - k \in 1 .. RingSize /\ since - (since - k) = k
        BY <3>2, <3>3
      <4> QED
        BY <3>5, <4>1, <4>2 DEF LivePositions
    <3>7. RingSize > 0 => ringBuf[head] = Evicted % Capacity
      <4>1. RingSize > 0 => RingSize \in 1 .. RingSize /\ since - RingSize = Evicted
        BY <3>1, <3>2, <3>3
      <4> QED
        BY <3>1, <3>4, <4>1, SampledAreNewest
    <3>8. \A k \in Evicted .. (since - 1) : StoredWhole(k)
      BY <3>1 DEF FailingIInv, FailingDataInv, DataInv
    <3> QED
      BY <2>2, <3>1, <3>3, <3>6, <3>7, <3>8, LiveRingMirrors, LiveAreNewest
  <2> QED
    BY <2>1, <2>2
<1> QED
  BY FailingInvariance, <1>1, PTL
=============================================================================

--------------------------- MODULE SpscRingProofs ---------------------------
(***************************************************************************)
(* For every capacity, every set of values and every number of pushes, the *)
(* atomic SPSC ring has no data race on buf_, delivers what was pushed in  *)
(* order, hands out sampled indices that stay live and implements the      *)
(* bounded queue of BoundedFifo.  All follow from the inductive invariant  *)
(* IInv of SpscRing.                                                       *)
(***************************************************************************)
EXTENDS SpscRing, RingOpsProofs, SequenceTheorems

LEMMA SeqElements ==
  ASSUME NEW S, NEW s \in Seq(S)
  PROVE  Len(s) \in Nat /\ \A i \in 1 .. Len(s) : s[i] \in S
OBVIOUS

(* The counts of elements and the two current indices, as IInv bounds them. *)
LEMMA Counts ==
  ASSUME IInv
  PROVE  /\ Len(sent) \in Nat /\ Len(got) \in Nat
         /\ Len(headHist) \in Nat \ {0} /\ Len(popped) = Len(headHist)
         /\ Len(tailHist) = Len(sent) + 1
         /\ Len(got) <= Len(sent) /\ Len(sent) <= Len(got) + Capacity
         /\ CurTail = Len(sent) % Phys /\ CurHead = Len(got) % Phys
         /\ \A k \in 1 .. Len(headHist) :
              popped[k] \in Nat /\ popped[k] <= Len(got)
<1>1. /\ headHist \in Seq(Slot) /\ popped \in Seq(Nat) /\ sent \in Seq(Value)
      /\ got \in Seq(Value \union {NoValue}) /\ Len(popped) = Len(headHist)
      /\ pSeen \in 1 .. Len(headHist) /\ pSync \in 1 .. pSeen
  BY DEF IInv, TypeOK
<1>2. Len(sent) \in Nat /\ Len(got) \in Nat /\ Len(headHist) \in Nat \ {0}
      /\ pSync \in 1 .. Len(headHist)
  BY <1>1, SeqElements
<1>3. Len(tailHist) = Len(sent) + 1 /\ Len(got) <= Len(sent)
  BY DEF IInv, HistoriesInv, DeliveredInOrder
<1>4. ASSUME NEW k \in 1 .. Len(headHist)
      PROVE  popped[k] \in Nat /\ popped[k] <= Len(got)
  <2>1. popped[k] \in Nat
    BY <1>1, SeqElements
  <2>2. Len(headHist) \in 1 .. Len(headHist) /\ k <= Len(headHist)
    BY <1>2
  <2> QED
    BY <2>1, <2>2 DEF IInv, HistoriesInv
<1>5. Len(sent) <= popped[pSync] + Capacity
  BY DEF IInv, ProducerInv
<1>6. Len(sent) <= Len(got) + Capacity
  BY <1>2, <1>4, <1>5, CapacityAssumption
<1>7. CurTail = Len(sent) % Phys
  <2>1. Len(tailHist) \in 1 .. Len(tailHist) /\ Len(tailHist) - 1 = Len(sent)
    BY <1>2, <1>3
  <2> QED
    BY <2>1 DEF CurTail, IInv, HistoriesInv
<1>8. CurHead = Len(got) % Phys
  BY <1>2 DEF CurHead, IInv, HistoriesInv
<1> QED
  BY <1>1, <1>2, <1>3, <1>4, <1>6, <1>7, <1>8

(* The tests of push and pop, on counts: position k of headHist makes the    *)
(* ring look full when Capacity elements were pushed after those it says     *)
(* were removed; position k of tailHist makes it look empty when the last    *)
(* element it publishes was removed.                                         *)
LEMMA LooksFullCounts ==
  ASSUME IInv, NEW k \in pSync .. Len(headHist)
  PROVE  /\ Len(sent) <= popped[k] + Capacity
         /\ LooksFull(k) <=> Len(sent) = popped[k] + Capacity
<1>1. k \in 1 .. Len(headHist) /\ pSync \in 1 .. Len(headHist) /\ pSync <= k
  BY Counts DEF IInv, TypeOK
<1>2. Len(sent) <= popped[k] + Capacity
  <2>1. Len(sent) <= popped[pSync] + Capacity
    BY DEF IInv, ProducerInv
  <2>2. popped[pSync] <= popped[k]
    BY <1>1 DEF IInv, HistoriesInv
  <2>3. /\ popped[pSync] \in Nat /\ popped[k] \in Nat
        /\ Len(sent) \in Nat /\ Capacity \in Nat
    BY <1>1, Counts, CapacityAssumption
  <2> QED
    BY <2>1, <2>2, <2>3
<1>3. NextSlot(CurTail) = (Len(sent) + 1) % Phys
  BY Counts, AdvanceCounts DEF NextSlot
<1>4. headHist[k] = popped[k] % Phys
  BY <1>1 DEF IInv, HistoriesInv
<1>5. popped[k] \in Nat /\ popped[k] <= Len(sent) /\ Len(sent) \in Nat
  BY <1>1, Counts
<1>6. ASSUME Len(sent) = popped[k] + Capacity
      PROVE  (Len(sent) + 1) % Phys = popped[k] % Phys
  <2>1. Len(sent) + 1 = popped[k] + Phys
    BY <1>5, <1>6, PhysType, CapacityAssumption
  <2>2. popped[k] \in Int /\ Phys \in Nat \ {0}
    BY <1>5, PhysType
  <2>3. (popped[k] + Phys) % Phys = popped[k] % Phys
    BY <2>2, ModPeriod
  <2> QED
    BY <2>1, <2>3
<1>7. ASSUME (Len(sent) + 1) % Phys = popped[k] % Phys
      PROVE  Len(sent) = popped[k] + Capacity
  <2> DEFINE a == Len(sent) + 1 - Phys
  <2>1. a \in Int /\ a + Phys = Len(sent) + 1
    BY <1>5, PhysType
  <2>2. a % Phys = popped[k] % Phys
    BY <1>7, <2>1, PhysType, ModPeriod
  <2>3. a - popped[k] < Phys /\ popped[k] - a < Phys
    BY <1>2, <1>5, PhysType, CapacityAssumption
  <2> HIDE DEF a
  <2>4. a = popped[k]
    BY <1>5, <2>1, <2>2, <2>3, PhysType, ModInjective
  <2> QED
    BY <1>5, <2>1, <2>4, PhysType, CapacityAssumption
<1> QED
  BY <1>2, <1>3, <1>4, <1>6, <1>7 DEF LooksFull

LEMMA LooksEmptyCounts ==
  ASSUME IInv, NEW k \in cSeen .. Len(tailHist)
  PROVE  /\ Len(got) <= k - 1 /\ k - 1 <= Len(sent)
         /\ LooksEmpty(k) <=> Len(got) = k - 1
         /\ Distance(CurHead, tailHist[k]) = k - 1 - Len(got)
<1>1. k \in 1 .. Len(tailHist) /\ cSeen <= k /\ cSeen \in Nat
  BY Counts DEF IInv, TypeOK
<1>2. Len(got) <= k - 1 /\ k - 1 <= Len(sent)
  BY <1>1, Counts DEF IInv, ConsumerInv
<1>3. tailHist[k] = (k - 1) % Phys /\ CurHead = Len(got) % Phys
  BY <1>1, Counts DEF IInv, HistoriesInv
<1>4. (k - 1) - Len(got) \in 0 .. Capacity
  BY <1>1, <1>2, Counts, CapacityAssumption
<1>5. Distance(CurHead, tailHist[k]) = (k - 1) - Len(got)
  BY <1>1, <1>3, <1>4, Counts, DistanceCounts
<1>6. ASSUME Len(got) % Phys = (k - 1) % Phys
      PROVE  Len(got) = k - 1
  <2>1. Len(got) - (k - 1) < Phys /\ (k - 1) - Len(got) < Phys
    BY <1>1, <1>4, Counts, PhysType, CapacityAssumption
  <2>2. Len(got) \in Int /\ k - 1 \in Int /\ Phys \in Nat \ {0}
    BY <1>1, Counts, PhysType
  <2> QED
    BY <1>6, <2>1, <2>2, ModInjective
<1> QED
  BY <1>2, <1>3, <1>5, <1>6 DEF LooksEmpty

----------------------------------------------------------------------------
(* IInv holds initially. *)
LEMMA InitIInv == Init => IInv
<1> SUFFICES ASSUME Init PROVE IInv
  OBVIOUS
<1> USE DEF Init
<1>1. 0 \in Slot /\ 0 % Phys = 0
  BY PhysType, CapacityAssumption, ModSmall
<1>2. TypeOK
  BY <1>1, ValueAssumption DEF TypeOK
<1>3. HistoriesInv
  BY <1>1 DEF HistoriesInv
<1>4. ProducerInv
  BY CapacityAssumption DEF ProducerInv
<1>5. ConsumerInv
  BY DEF ConsumerInv
<1>6. DataInv
  BY DEF DataInv
<1>7. ReadInv
  <2> SUFFICES ASSUME NEW q \in (Len(sent) - Phys) .. (Len(sent) - 1)
               PROVE  lastRead[q % Phys] = 0
    BY DEF ReadInv
  <2>1. q \in Int
    BY PhysType
  <2>2. q % Phys \in Slot
    BY <2>1, ResidueIsSlot
  <2> QED
    BY <2>2
<1>8. DeliveredInOrder
  BY DEF DeliveredInOrder
<1> QED
  BY <1>2, <1>3, <1>4, <1>5, <1>6, <1>7, <1>8 DEF IInv

----------------------------------------------------------------------------
(* A load of head_ by the idle producer that changes nothing else: push on a *)
(* full ring, size() and empty().                                            *)
LEMMA ProducerLooks ==
  ASSUME IInv, NEW order, NEW k, pPc = "idle", ProducerLoadsHead(order, k),
         UNCHANGED <<ring, pPc, pTail, pVal, consumer, ghosts>>
  PROVE  IInv'
<1> USE DEF ring, consumer, ghosts
<1>1. /\ pSeen \in 1 .. Len(headHist) /\ pSync \in 1 .. pSeen
      /\ Len(headHist) \in Nat
  BY Counts DEF IInv, TypeOK
<1>2. /\ pSeen' \in 1 .. Len(headHist) /\ pSync' \in 1 .. pSeen'
      /\ pSync <= pSync'
  BY <1>1 DEF ProducerLoadsHead, Synced
<1>3. TypeOK'
  BY <1>2 DEF IInv, TypeOK
<1>4. popped[pSync] \in Nat /\ popped[pSync'] \in Nat
      /\ popped[pSync] <= popped[pSync']
  BY <1>1, <1>2, Counts DEF IInv, HistoriesInv
<1>5. Len(sent) \in Nat /\ Len(sent) <= popped[pSync] + Capacity
  BY Counts DEF IInv, ProducerInv
<1>6. ProducerInv'
  BY <1>4, <1>5, CapacityAssumption DEF ProducerInv
<1>7. HistoriesInv' /\ ConsumerInv' /\ DataInv' /\ ReadInv' /\ DeliveredInOrder'
  BY DEF IInv, HistoriesInv, ConsumerInv, DataInv, ReadInv, DeliveredInOrder
<1> QED
  BY <1>3, <1>6, <1>7 DEF IInv

LEMMA PushBeginKeepsIInv ==
  ASSUME IInv, NEW v \in Value, NEW k, PushBegin(v, k)
  PROVE  IInv'
<1> USE DEF PushBegin, ring, consumer, ghosts
<1>1. /\ pSeen \in 1 .. Len(headHist) /\ pSync \in 1 .. pSeen
      /\ Len(headHist) \in Nat
  BY Counts DEF IInv, TypeOK
<1>2. pSeen' = k /\ pSync' = k /\ k \in pSync .. Len(headHist)
      /\ k \in 1 .. Len(headHist)
  BY <1>1 DEF ProducerLoadsHead, Synced, PushHeadLoad, HeadStore
<1>3. CurTail = Len(sent) % Phys /\ Len(sent) \in Nat
  BY Counts
<1>4. CurTail \in Slot
  BY <1>3, ResidueIsSlot
<1>5. TypeOK'
  <2>1. k \in 1 .. Len(headHist') /\ k \in 1 .. k
    BY <1>1, <1>2
  <2>2. pSeen' \in 1 .. Len(headHist') /\ pSync' \in 1 .. pSeen'
    BY <1>2, <2>1
  <2>3. pPc' = "write" /\ pTail' \in Slot /\ pVal' \in Value
    BY <1>4
  <2> QED
    BY <2>2, <2>3 DEF IInv, TypeOK
<1>6. Len(sent) < popped[k] + Capacity
  <2>1. /\ Len(sent) <= popped[k] + Capacity
        /\ LooksFull(k) <=> Len(sent) = popped[k] + Capacity
    BY <1>2, LooksFullCounts
  <2>2. ~LooksFull(k)
    OBVIOUS
  <2>3. popped[k] \in Nat /\ Capacity \in Nat
    BY <1>2, Counts, CapacityAssumption
  <2> QED
    BY <1>3, <2>1, <2>2, <2>3
<1>7. ProducerInv'
  BY <1>2, <1>3, <1>6, Counts, CapacityAssumption DEF ProducerInv
<1>8. HistoriesInv' /\ ConsumerInv' /\ ReadInv' /\ DeliveredInOrder'
  BY DEF IInv, HistoriesInv, ConsumerInv, ReadInv, DeliveredInOrder
<1>9. DataInv'
  BY DEF IInv, DataInv
<1> QED
  BY <1>5, <1>7, <1>8, <1>9 DEF IInv

LEMMA PushWriteKeepsIInv ==
  ASSUME IInv, PushWrite
  PROVE  IInv'
<1> USE DEF PushWrite, consumer
<1>1. /\ buf \in [Slot -> Value] /\ wroteAt \in [Slot -> Nat]
      /\ pTail \in Slot /\ pVal \in Value /\ pTail = Len(sent) % Phys
  BY DEF IInv, TypeOK, ProducerInv
<1>2. Len(tailHist) + 1 = Len(sent) + 2 /\ Len(sent) \in Nat
  BY Counts
<1>3. TypeOK'
  <2>1. Len(sent) + 2 \in Nat
    BY <1>2
  <2>2. wroteAt' \in [Slot -> Nat]
    BY <1>1, <1>2, <2>1
  <2>3. buf' \in [Slot -> Value] /\ pPc' = "publish"
    BY <1>1
  <2>4. TypeOK
    BY DEF IInv
  <2> QED
    BY <2>2, <2>3, <2>4 DEF TypeOK
<1>4. DataInv'
  <2>1. ASSUME NEW q \in Len(got) .. (Len(sent) - 1)
        PROVE  buf'[q % Phys] = sent[q + 1] /\ wroteAt'[q % Phys] = q + 2
    <3>1. q \in Int /\ Len(sent) - q <= Capacity /\ q - Len(sent) <= Capacity
          /\ q # Len(sent)
      BY Counts, CapacityAssumption
    <3>2. q % Phys # pTail
      BY <1>1, <1>2, <3>1, SameSlot
    <3>3. q % Phys \in Slot
      BY <3>1, ResidueIsSlot
    <3> QED
      BY <1>1, <3>2, <3>3 DEF IInv, DataInv
  <2>2. buf'[pTail] = pVal /\ wroteAt'[pTail] = Len(sent) + 2
    BY <1>1, <1>2
  <2> QED
    BY <2>1, <2>2 DEF DataInv
<1>5. HistoriesInv' /\ ProducerInv' /\ ConsumerInv' /\ ReadInv'
      /\ DeliveredInOrder'
  BY DEF IInv, HistoriesInv, ProducerInv, ConsumerInv, ReadInv,
         DeliveredInOrder
<1> QED
  BY <1>3, <1>4, <1>5 DEF IInv

LEMMA PushPublishKeepsIInv ==
  ASSUME IInv, PushPublish
  PROVE  IInv'
<1> USE DEF PushPublish, consumer
<1> DEFINE P == Len(sent)
<1>1. /\ P \in Nat /\ Len(got) \in Nat /\ Len(got) <= P
      /\ P <= Len(got) + Capacity /\ Len(tailHist) = P + 1
  BY Counts
<1>2. /\ pTail = P % Phys /\ pVal \in Value
      /\ sent \in Seq(Value) /\ tailHist \in Seq(Slot)
      /\ buf[pTail] = pVal /\ wroteAt[pTail] = P + 2
  BY DEF IInv, TypeOK, ProducerInv, DataInv
<1>3. NextSlot(pTail) = (P + 1) % Phys /\ NextSlot(pTail) \in Slot
  <2>1. NextSlot(pTail) = (P + 1) % Phys
    BY <1>1, <1>2, AdvanceCounts DEF NextSlot
  <2>2. P + 1 \in Int
    BY <1>1
  <2> QED
    BY <2>1, <2>2, ResidueIsSlot
<1>4. /\ sent' \in Seq(Value) /\ Len(sent') = P + 1 /\ sent'[P + 1] = pVal
      /\ \A i \in 1 .. P : sent'[i] = sent[i]
  BY <1>2, AppendProperties
<1>5. /\ tailHist' \in Seq(Slot) /\ Len(tailHist') = P + 2
      /\ tailHist'[P + 2] = (P + 1) % Phys
      /\ \A i \in 1 .. P + 1 : tailHist'[i] = tailHist[i]
  BY <1>1, <1>2, <1>3, AppendProperties
<1> HIDE DEF P
<1>6. TypeOK'
  <2>1. cSeen \in 1 .. Len(tailHist')
    BY <1>1, <1>5 DEF IInv, TypeOK
  <2> QED
    BY <1>4, <1>5, <2>1, ValueAssumption DEF IInv, TypeOK
<1>7. HistoriesInv'
  <2>1. \A k \in 1 .. P + 1 : tailHist[k] = (k - 1) % Phys
    BY <1>1 DEF IInv, HistoriesInv
  <2>2. ASSUME NEW k \in 1 .. P + 2 PROVE tailHist'[k] = (k - 1) % Phys
    BY <1>1, <1>5, <2>1
  <2> QED
    BY <1>1, <1>4, <1>5, <2>2 DEF IInv, HistoriesInv
<1>8. ProducerInv'
  <2>1. P < popped[pSync] + Capacity /\ pSync \in 1 .. Len(headHist)
    BY Counts DEF IInv, TypeOK, ProducerInv, P
  <2>2. popped[pSync] \in Nat
    BY <2>1, Counts
  <2> QED
    BY <1>1, <1>4, <2>1, <2>2, CapacityAssumption DEF ProducerInv
<1>9. ConsumerInv'
  <2>1. cPc = "publish" => Len(got) + 1 \in 1 .. P
    <3>1. cSeen \in 1 .. (P + 1) /\ cSync \in 1 .. cSeen
      BY <1>1 DEF IInv, TypeOK
    <3>2. cPc = "publish" => Len(got) < cSync - 1
      BY DEF IInv, ConsumerInv
    <3> QED
      BY <1>1, <3>1, <3>2
  <2>2. cPc = "publish" => sent'[Len(got) + 1] = sent[Len(got) + 1]
    BY <1>4, <2>1
  <2> QED
    BY <2>2 DEF IInv, ConsumerInv
<1>10. DataInv'
  <2>1. ASSUME NEW q \in Len(got) .. P
        PROVE  buf[q % Phys] = sent'[q + 1] /\ wroteAt[q % Phys] = q + 2
    <3>1. CASE q = P
      BY <1>2, <1>4, <3>1
    <3>2. CASE q # P
      <4>1. q \in Len(got) .. (P - 1) /\ q + 1 \in 1 .. P
        BY <1>1, <3>2
      <4> QED
        BY <1>4, <4>1 DEF IInv, DataInv, P
    <3> QED
      BY <3>1, <3>2
  <2> QED
    BY <1>1, <1>4, <2>1 DEF DataInv
<1>11. ReadInv'
  <2>1. ASSUME NEW q \in (P + 1 - Phys) .. P, lastRead[q % Phys] # 0
        PROVE  /\ lastRead[q % Phys] - 1 \in 1 .. Len(headHist)
               /\ popped[lastRead[q % Phys] - 1] <= q
    <3>1. CASE q # P
      <4>1. q \in (P - Phys) .. (P - 1)
        BY <1>1, <3>1, PhysType
      <4> QED
        BY <2>1, <4>1 DEF IInv, ReadInv, P
    <3>2. CASE q = P
      <4> DEFINE p == P - Phys
      <4>1. p \in (P - Phys) .. (P - 1) /\ p \in Int /\ p + Phys = P
        BY <1>1, PhysType, CapacityAssumption
      <4>2. p % Phys = q % Phys
        BY <3>2, <4>1, PhysType, ModPeriod
      <4> HIDE DEF p
      <4>3. /\ lastRead[q % Phys] - 1 \in 1 .. Len(headHist)
            /\ popped[lastRead[q % Phys] - 1] <= p
        BY <2>1, <4>1, <4>2 DEF IInv, ReadInv, P
      <4>4. popped[lastRead[q % Phys] - 1] \in Nat
        BY <4>3, Counts
      <4> QED
        BY <1>1, <3>2, <4>1, <4>3, <4>4, PhysType, CapacityAssumption
    <3> QED
      BY <3>1, <3>2
  <2>2. Len(sent') - Phys = P + 1 - Phys /\ Len(sent') - 1 = P
    BY <1>1, <1>4, PhysType
  <2> QED
    BY <2>1, <2>2 DEF ReadInv
<1>12. DeliveredInOrder'
  <2>1. \A i \in 1 .. Len(got) : got[i] \in {sent'[i], NoValue}
    BY <1>1, <1>4 DEF IInv, DeliveredInOrder
  <2> QED
    BY <1>1, <1>4, <2>1 DEF DeliveredInOrder
<1> QED
  BY <1>6, <1>7, <1>8, <1>9, <1>10, <1>11, <1>12 DEF IInv

----------------------------------------------------------------------------
(* A load of tail_ by the idle consumer that changes nothing else: pop and   *)
(* sample_indices on an empty ring, size() and empty().                      *)
LEMMA ConsumerLooks ==
  ASSUME IInv, NEW order, NEW k, cPc = "idle", ConsumerLoadsTail(order, k),
         UNCHANGED <<ring, producer, cPc, cSlot, cVal, ghosts>>
  PROVE  IInv'
<1> USE DEF ring, producer, ghosts
<1>1. /\ cSeen \in 1 .. Len(tailHist) /\ cSync \in 1 .. cSeen
      /\ Len(tailHist) \in Nat
  BY Counts DEF IInv, TypeOK
<1>2. /\ cSeen' \in 1 .. Len(tailHist) /\ cSync' \in 1 .. cSeen'
      /\ cSeen <= cSeen'
  BY <1>1 DEF ConsumerLoadsTail, Synced
<1>3. TypeOK'
  BY <1>2 DEF IInv, TypeOK
<1>4. ConsumerInv'
  BY <1>1, <1>2, Counts DEF IInv, ConsumerInv
<1>5. HistoriesInv' /\ ProducerInv' /\ DataInv' /\ ReadInv' /\ DeliveredInOrder'
  BY DEF IInv, HistoriesInv, ProducerInv, DataInv, ReadInv, DeliveredInOrder
<1> QED
  BY <1>3, <1>4, <1>5 DEF IInv

LEMMA PopBeginKeepsIInv ==
  ASSUME IInv, NEW wanted \in BOOLEAN, NEW k, PopBegin(wanted, k)
  PROVE  IInv'
<1> USE DEF PopBegin, ring, producer, ghosts
<1>1. /\ cSeen \in 1 .. Len(tailHist) /\ Len(tailHist) \in Nat
      /\ Len(got) \in Nat
  <2>1. cSeen \in 1 .. Len(tailHist)
    BY DEF IInv, TypeOK
  <2>2. Len(got) \in Nat /\ Len(tailHist) = Len(sent) + 1 /\ Len(sent) \in Nat
    BY Counts
  <2> QED
    BY <2>1, <2>2
<1>2. /\ cSeen' = k /\ cSync' = k /\ k \in cSeen .. Len(tailHist)
      /\ k \in 1 .. Len(tailHist) /\ k \in 1 .. k
  BY <1>1 DEF ConsumerLoadsTail, Synced, PopTailLoad, TailStore
<1>3. Len(got) < k - 1
  BY <1>1, <1>2, LooksEmptyCounts
<1>4. cSlot' = Len(got) % Phys /\ cSlot' \in Slot
  <2>1. cSlot' = Len(got) % Phys /\ Len(got) \in Int
    BY Counts
  <2> QED
    BY <2>1, ResidueIsSlot
<1>5. cPc' \in {"read", "publish"} /\ cVal' = cVal
  OBVIOUS
<1>6. TypeOK'
  BY <1>2, <1>4, <1>5 DEF IInv, TypeOK
<1>7. ConsumerInv'
  <2>1. cVal = NoValue
    BY DEF IInv, ConsumerInv
  <2> QED
    BY <1>1, <1>2, <1>3, <1>4, <1>5, <2>1 DEF ConsumerInv
<1>8. HistoriesInv' /\ ProducerInv' /\ DataInv' /\ ReadInv' /\ DeliveredInOrder'
  BY DEF IInv, HistoriesInv, ProducerInv, DataInv, ReadInv, DeliveredInOrder
<1> QED
  BY <1>6, <1>7, <1>8 DEF IInv

(* The consumer reads slot q % Phys of a live element q that it synchronised *)
(* with: the read is of the element's value and is in the ring's window.     *)
LEMMA ReadKeepsReadInv ==
  ASSUME IInv, NEW q \in Len(got) .. (Len(sent) - 1), cSlot = q % Phys,
         lastRead' = [lastRead EXCEPT ![cSlot] = Len(headHist) + 1],
         UNCHANGED <<headHist, popped, sent>>
  PROVE  lastRead' \in [Slot -> Nat] /\ ReadInv'
<1>1. /\ Len(headHist) \in Nat \ {0} /\ Len(sent) \in Nat /\ Len(got) \in Nat
      /\ Len(sent) <= Len(got) + Capacity
  BY Counts
<1>2. lastRead \in [Slot -> Nat] /\ cSlot \in Slot
  BY DEF IInv, TypeOK
<1>3. popped[Len(headHist)] = Len(got)
  BY DEF IInv, HistoriesInv
<1>4. ASSUME NEW p \in (Len(sent) - Phys) .. (Len(sent) - 1),
             lastRead'[p % Phys] # 0
      PROVE  /\ lastRead'[p % Phys] - 1 \in 1 .. Len(headHist)
             /\ popped[lastRead'[p % Phys] - 1] <= p
  <2>1. p \in Int /\ q \in Int /\ p - q <= Capacity /\ q - p <= Capacity
    BY <1>1, PhysType, CapacityAssumption
  <2>2. CASE p % Phys = q % Phys
    <3>1. p = q
      BY <2>1, <2>2, SameSlot
    <3>2. lastRead'[p % Phys] = Len(headHist) + 1
      BY <1>2, <2>2
    <3>3. lastRead'[p % Phys] - 1 = Len(headHist) /\ Len(got) <= q
      BY <1>1, <3>2
    <3> QED
      BY <1>1, <1>3, <3>1, <3>3
  <2>3. CASE p % Phys # q % Phys
    <3>1. p % Phys \in Slot
      BY <2>1, ResidueIsSlot
    <3>2. lastRead'[p % Phys] = lastRead[p % Phys]
      BY <1>2, <2>3, <3>1
    <3> QED
      BY <1>4, <3>2 DEF IInv, ReadInv
  <2> QED
    BY <2>2, <2>3
<1>5. lastRead' \in [Slot -> Nat]
  BY <1>1, <1>2
<1> QED
  BY <1>4, <1>5 DEF ReadInv

(* Where the consumer is about to read lies a live element it synchronised   *)
(* with.                                                                     *)
LEMMA ReadsLiveElement ==
  ASSUME IInv, cPc \in {"read", "sampled"}
  PROVE  \E q \in Len(got) .. (Len(sent) - 1) :
           /\ q <= cSync - 2 /\ cSlot = q % Phys
           /\ (cPc = "read" => q = Len(got))
           /\ buf[cSlot] = sent[q + 1] /\ wroteAt[cSlot] <= cSync
<1>1. /\ Len(sent) \in Nat /\ Len(got) \in Nat
      /\ Len(tailHist) = Len(sent) + 1
  BY Counts
<1>2. cSync \in Int /\ cSync <= Len(sent) + 1
  <2>1. cSeen \in 1 .. (Len(sent) + 1) /\ cSync \in 1 .. cSeen
    BY <1>1 DEF IInv, TypeOK
  <2> QED
    BY <1>1, <2>1
<1>3. PICK q \in Len(got) .. (cSync - 2) :
         cSlot = q % Phys /\ (cPc = "read" => q = Len(got))
  <2>1. CASE cPc = "read"
    <3>1. Len(got) < cSync - 1 /\ cSlot = Len(got) % Phys
      BY <2>1 DEF IInv, ConsumerInv
    <3>2. Len(got) \in Len(got) .. (cSync - 2)
      BY <1>1, <1>2, <3>1
    <3> QED
      BY <3>1, <3>2
  <2>2. CASE cPc = "sampled"
    BY <2>2 DEF IInv, ConsumerInv
  <2> QED
    BY <2>1, <2>2
<1>4. q \in Len(got) .. (Len(sent) - 1) /\ q <= cSync - 2
  BY <1>1, <1>2
<1>5. buf[cSlot] = sent[q + 1] /\ wroteAt[cSlot] = q + 2
  BY <1>3, <1>4 DEF IInv, DataInv
<1> QED
  BY <1>1, <1>2, <1>3, <1>4, <1>5

LEMMA PopReadKeepsIInv ==
  ASSUME IInv, PopRead
  PROVE  IInv'
<1> USE DEF PopRead, ring, producer
<1>1. PICK q \in Len(got) .. (Len(sent) - 1) :
        /\ q <= cSync - 2 /\ cSlot = q % Phys /\ q = Len(got)
        /\ buf[cSlot] = sent[q + 1] /\ wroteAt[cSlot] <= cSync
  BY ReadsLiveElement
<1>2. cVal' = sent[Len(got) + 1]
  BY <1>1 DEF Readable
<1>3. lastRead' \in [Slot -> Nat] /\ ReadInv'
  BY <1>1, ReadKeepsReadInv
<1>4. cVal' \in Value
  <2>1. buf \in [Slot -> Value] /\ cSlot \in Slot
    BY DEF IInv, TypeOK
  <2> QED
    BY <1>1, <1>2, <2>1
<1>5. TypeOK'
  BY <1>3, <1>4 DEF IInv, TypeOK
<1>6. ConsumerInv'
  BY <1>2 DEF IInv, ConsumerInv
<1>7. HistoriesInv' /\ ProducerInv' /\ DataInv' /\ DeliveredInOrder'
  BY DEF IInv, HistoriesInv, ProducerInv, DataInv, DeliveredInOrder
<1> QED
  BY <1>3, <1>5, <1>6, <1>7 DEF IInv

LEMMA SampleBeginKeepsIInv ==
  ASSUME IInv, NEW offset \in Int, NEW k, SampleBegin(offset, k)
  PROVE  IInv'
<1> USE DEF SampleBegin, ring, producer, ghosts
<1>1. cSeen \in 1 .. Len(tailHist)
  BY DEF IInv, TypeOK
<1>2. Len(got) \in Nat /\ Len(tailHist) = Len(sent) + 1 /\ Len(sent) \in Nat
      /\ CurHead = Len(got) % Phys
  BY Counts
<1>3. /\ cSeen' = k /\ cSync' = k /\ k \in cSeen .. Len(tailHist)
  BY DEF ConsumerLoadsTail, Synced, SampleTailLoad, TailStore
<1>4. k \in 1 .. Len(tailHist) /\ k \in 1 .. k
  BY <1>1, <1>2, <1>3
<1>5. offset \in 0 .. (k - 2 - Len(got)) /\ Len(got) <= k - 1
  <2>1. Distance(CurHead, tailHist[k]) = k - 1 - Len(got) /\ Len(got) <= k - 1
    BY <1>3, LooksEmptyCounts
  <2>2. offset \in 0 .. ((k - 1 - Len(got)) - 1)
    BY <2>1 DEF SampleOffsets
  <2> QED
    BY <1>2, <1>4, <2>1, <2>2
<1>6. cSlot' = (Len(got) + offset) % Phys
  BY <1>2, AdvanceCounts
<1>7. cSlot' \in Slot
  <2>1. Len(got) + offset \in Int
    BY <1>2
  <2> QED
    BY <1>6, <2>1, ResidueIsSlot
<1>8. Len(got) + offset \in Len(got) .. (k - 2)
  BY <1>2, <1>4, <1>5
<1>9. cPc' = "sampled" /\ cVal' = cVal
  OBVIOUS
<1>10. TypeOK'
  BY <1>3, <1>4, <1>7, <1>9 DEF IInv, TypeOK
<1>11. ConsumerInv'
  <2>1. cVal = NoValue
    BY DEF IInv, ConsumerInv
  <2>2. \E q \in Len(got) .. (k - 2) : cSlot' = q % Phys
    BY <1>6, <1>8
  <2> QED
    BY <1>3, <1>5, <1>9, <2>1, <2>2 DEF ConsumerInv
<1>12. HistoriesInv' /\ ProducerInv' /\ DataInv' /\ ReadInv' /\ DeliveredInOrder'
  BY DEF IInv, HistoriesInv, ProducerInv, DataInv, ReadInv, DeliveredInOrder
<1> QED
  BY <1>10, <1>11, <1>12 DEF IInv

LEMMA SampleReadKeepsIInv ==
  ASSUME IInv, SampleRead
  PROVE  IInv'
<1> USE DEF SampleRead, ring, producer
<1>1. PICK q \in Len(got) .. (Len(sent) - 1) : cSlot = q % Phys
  BY ReadsLiveElement
<1>2. lastRead' \in [Slot -> Nat] /\ ReadInv'
  BY <1>1, ReadKeepsReadInv
<1>3. TypeOK'
  BY <1>2 DEF IInv, TypeOK
<1>4. ConsumerInv'
  BY DEF IInv, ConsumerInv
<1>5. HistoriesInv' /\ ProducerInv' /\ DataInv' /\ DeliveredInOrder'
  BY DEF IInv, HistoriesInv, ProducerInv, DataInv, DeliveredInOrder
<1> QED
  BY <1>2, <1>3, <1>4, <1>5 DEF IInv

----------------------------------------------------------------------------
(* A store of head_ that removes n elements the consumer has seen, whose     *)
(* removals return what was pushed or nothing: the last step of pop, and     *)
(* advance_head.                                                             *)
LEMMA StoreHeadKeepsIInv ==
  ASSUME IInv, NEW n \in Nat \ {0}, NEW slot, NEW vs,
         slot = (Len(got) + n) % Phys,
         vs \in Seq(Value \union {NoValue}), Len(vs) = n,
         \A i \in 1 .. n : vs[i] \in {sent[Len(got) + i], NoValue},
         Len(got) + n <= cSeen - 1,
         StoreHead(slot, n, vs),
         cPc' = "idle", cVal' = NoValue,
         UNCHANGED <<buf, tailHist, producer, cSlot, cSeen, cSync, wroteAt,
                     lastRead, sent>>
  PROVE  IInv'
<1> USE DEF producer, StoreHead
<1> DEFINE C == Len(got)
           H == Len(headHist)
<1>1. /\ C \in Nat /\ H \in Nat \ {0} /\ Len(sent) \in Nat /\ Len(popped) = H
      /\ Len(tailHist) = Len(sent) + 1 /\ C <= Len(sent)
      /\ \A k \in 1 .. H : popped[k] \in Nat /\ popped[k] <= C
  BY Counts
<1>2. /\ headHist \in Seq(Slot) /\ popped \in Seq(Nat)
      /\ got \in Seq(Value \union {NoValue})
      /\ pSeen \in 1 .. H /\ pSync \in 1 .. pSeen
      /\ cSeen \in 1 .. (Len(sent) + 1)
  BY <1>1 DEF IInv, TypeOK
<1>3. popped[H] = C
  BY DEF IInv, HistoriesInv
<1>4. slot \in Slot
  <2>1. Len(got) + n \in Int
    BY <1>1
  <2> QED
    BY <2>1, ResidueIsSlot
<1>5. /\ headHist' \in Seq(Slot) /\ Len(headHist') = H + 1
      /\ headHist'[H + 1] = slot
      /\ \A k \in 1 .. H : headHist'[k] = headHist[k]
  BY <1>2, <1>4, AppendProperties
<1>6. /\ popped' \in Seq(Nat) /\ Len(popped') = H + 1
      /\ popped'[H + 1] = C + n
      /\ \A k \in 1 .. H : popped'[k] = popped[k]
  <2> DEFINE e == popped[Len(popped)] + n
  <2>1. e \in Nat /\ e = C + n /\ popped' = Append(popped, e)
    BY <1>1, <1>3
  <2> HIDE DEF e, StoreHead
  <2>2. popped \in Seq(Nat) /\ Len(popped) = H
    BY <1>1, <1>2
  <2>3. /\ popped' \in Seq(Nat) /\ Len(popped') = Len(popped) + 1
        /\ popped'[Len(popped) + 1] = e
        /\ \A k \in 1 .. Len(popped) : popped'[k] = popped[k]
    BY <2>1, <2>2, AppendProperties
  <2> QED
    BY <2>1, <2>2, <2>3
<1>7. /\ got' \in Seq(Value \union {NoValue}) /\ Len(got') = C + n
      /\ \A i \in 1 .. (C + n) :
           got'[i] = IF i <= C THEN got[i] ELSE vs[i - C]
  <2>1. got' = got \o vs
    OBVIOUS
  <2> HIDE DEF StoreHead
  <2>2. /\ got \o vs \in Seq(Value \union {NoValue})
        /\ Len(got \o vs) = Len(got) + Len(vs)
        /\ \A i \in 1 .. (Len(got) + Len(vs)) :
             (got \o vs)[i] = IF i <= Len(got) THEN got[i] ELSE vs[i - Len(got)]
    BY <1>2, ConcatProperties
  <2> QED
    BY <2>1, <2>2
<1> HIDE DEF StoreHead
<1>8. C + n <= Len(sent)
  BY <1>1, <1>2
<1> HIDE DEF C, H
<1>9. TypeOK'
  <2>1. pSeen \in 1 .. Len(headHist')
    BY <1>1, <1>2, <1>5
  <2>2. headHist' \in Seq(Slot) /\ popped' \in Seq(Nat)
        /\ Len(popped') = Len(headHist')
    BY <1>5, <1>6
  <2>3. got' \in Seq(Value \union {NoValue})
    BY <1>7
  <2>4. TypeOK
    BY DEF IInv
  <2> HIDE DEF IInv
  <2>5. cPc' \in {"idle", "read", "publish", "sampled"}
        /\ cVal' \in Value \union {NoValue}
    OBVIOUS
  <2> QED
    BY <2>1, <2>2, <2>3, <2>4, <2>5 DEF TypeOK
<1>10. HistoriesInv'
  <2>1. ASSUME NEW k \in 1 .. (H + 1)
        PROVE  headHist'[k] = popped'[k] % Phys
    <3>1. CASE k = H + 1
      BY <1>5, <1>6, <3>1 DEF C
    <3>2. CASE k # H + 1
      <4>1. k \in 1 .. H
        BY <1>1, <3>2
      <4> QED
        BY <1>5, <1>6, <4>1 DEF IInv, HistoriesInv, H
    <3> QED
      BY <3>1, <3>2
  <2>2. ASSUME NEW j \in 1 .. (H + 1), NEW k \in 1 .. (H + 1), j <= k
        PROVE  popped'[j] <= popped'[k]
    <3>0. popped'[H + 1] = C + n /\ C + n \in Nat /\ C \in Nat /\ n \in Nat
      BY <1>1, <1>2, <1>6
    <3>1. CASE k = H + 1 /\ j # H + 1
      <4>1. j \in 1 .. H
        BY <1>1, <3>1
      <4>2. popped[j] \in Nat /\ popped[j] <= C
        BY <1>1, <4>1
      <4>3. popped'[j] = popped[j] /\ popped'[k] = C + n
        BY <1>6, <3>0, <3>1, <4>1
      <4> QED
        BY <3>0, <4>2, <4>3
    <3>2. CASE k = H + 1 /\ j = H + 1
      BY <3>0, <3>2
    <3>3. CASE k # H + 1
      <4>1. k \in 1 .. H /\ j \in 1 .. H
        BY <1>1, <2>2, <3>3
      <4> QED
        BY <1>6, <2>2, <4>1 DEF IInv, HistoriesInv, H
    <3> QED
      BY <3>1, <3>2, <3>3
  <2> QED
    BY <1>1, <1>5, <1>6, <1>7, <2>1, <2>2 DEF IInv, HistoriesInv
<1>11. ProducerInv'
  <2>1. pSync \in 1 .. H
    BY <1>1, <1>2
  <2> QED
    BY <1>6, <2>1 DEF IInv, ProducerInv
<1>12. ConsumerInv'
  BY <1>7 DEF ConsumerInv, C
<1>13. DataInv'
  <2>1. \A q \in (C + n) .. (Len(sent) - 1) : q \in C .. (Len(sent) - 1)
    BY <1>1
  <2> QED
    BY <1>7, <2>1 DEF IInv, DataInv, C
<1>14. ReadInv'
  <2>1. ASSUME NEW q \in (Len(sent) - Phys) .. (Len(sent) - 1),
               lastRead[q % Phys] # 0
        PROVE  /\ lastRead[q % Phys] - 1 \in 1 .. (H + 1)
               /\ popped'[lastRead[q % Phys] - 1] <= q
    <3> DEFINE r == lastRead[q % Phys] - 1
    <3>1. r \in 1 .. H /\ popped[r] <= q
      BY <2>1 DEF IInv, ReadInv, H
    <3> HIDE DEF r
    <3>2. r \in 1 .. (H + 1) /\ popped'[r] <= q
      BY <1>1, <1>6, <3>1
    <3> QED
      BY <3>2 DEF r
  <2> QED
    BY <1>5, <2>1 DEF ReadInv
<1>15. DeliveredInOrder'
  <2>1. ASSUME NEW i \in 1 .. (C + n)
        PROVE  got'[i] \in {sent[i], NoValue}
    <3>1. CASE i <= C
      <4>1. i \in 1 .. C
        BY <1>1, <3>1
      <4> QED
        BY <1>7, <3>1, <4>1 DEF IInv, DeliveredInOrder, C
    <3>2. CASE ~(i <= C)
      <4>1. i - C \in 1 .. n /\ C + (i - C) = i
        BY <1>1, <3>2
      <4> QED
        BY <1>7, <3>2, <4>1 DEF C
    <3> QED
      BY <3>1, <3>2
  <2> QED
    BY <1>7, <1>8, <2>1 DEF DeliveredInOrder
<1> QED
  BY <1>9, <1>10, <1>11, <1>12, <1>13, <1>14, <1>15 DEF IInv

LEMMA PopPublishKeepsIInv ==
  ASSUME IInv, PopPublish
  PROVE  IInv'
<1> USE DEF PopPublish
<1>1. Len(got) \in Nat /\ Len(got) < cSync - 1 /\ cSlot = Len(got) % Phys
      /\ cVal \in {sent[Len(got) + 1], NoValue}
  BY Counts DEF IInv, ConsumerInv
<1>2. cSync \in 1 .. cSeen /\ cSeen \in Int /\ cVal \in Value \union {NoValue}
  BY DEF IInv, TypeOK
<1>3. NextSlot(cSlot) = (Len(got) + 1) % Phys
  BY <1>1, AdvanceCounts DEF NextSlot
<1>4. /\ <<cVal>> \in Seq(Value \union {NoValue}) /\ Len(<<cVal>>) = 1
      /\ \A i \in 1 .. 1 : <<cVal>>[i] \in {sent[Len(got) + i], NoValue}
  BY <1>1, <1>2
<1>5. Len(got) + 1 <= cSeen - 1 /\ 1 \in Nat \ {0}
  BY <1>1, <1>2
<1>6. StoreHead(NextSlot(cSlot), 1, <<cVal>>)
  OBVIOUS
<1>7. /\ cPc' = "idle" /\ cVal' = NoValue
      /\ UNCHANGED <<buf, tailHist, producer, cSlot, cSeen, cSync, wroteAt,
                     lastRead, sent>>
  OBVIOUS
<1> DEFINE vs == <<cVal>>
<1> HIDE DEF vs, PopPublish
<1>8. vs \in Seq(Value \union {NoValue}) /\ Len(vs) = 1
      /\ (\A i \in 1 .. 1 : vs[i] \in {sent[Len(got) + i], NoValue})
      /\ StoreHead(NextSlot(cSlot), 1, vs)
  BY <1>4, <1>6 DEF vs
<1> QED
  BY <1>3, <1>5, <1>7, <1>8, StoreHeadKeepsIInv

LEMMA AdvanceHeadKeepsIInv ==
  ASSUME IInv, NEW n \in 1 .. Capacity, AdvanceHead(n)
  PROVE  IInv'
<1> USE DEF AdvanceHead
<1> DEFINE vs == [i \in 1..n |-> NoValue]
<1>1. Len(got) \in Nat /\ CurHead = Len(got) % Phys /\ n \in Nat \ {0}
      /\ Len(tailHist) \in Nat
  BY Counts, CapacityAssumption
<1>2. cSeen \in cSeen .. Len(tailHist) /\ cSeen \in Int
  BY <1>1 DEF IInv, TypeOK
<1>3. Len(got) + n <= cSeen - 1
  <2>1. Distance(CurHead, tailHist[cSeen]) = cSeen - 1 - Len(got)
    BY <1>2, LooksEmptyCounts
  <2> QED
    BY <1>1, <1>2, <2>1
<1>4. Advance(CurHead, n) = (Len(got) + n) % Phys
  BY <1>1, AdvanceCounts
<1>5. /\ vs \in Seq(Value \union {NoValue}) /\ Len(vs) = n
      /\ \A i \in 1 .. n : vs[i] \in {sent[Len(got) + i], NoValue}
  BY <1>1
<1>6. cVal = NoValue /\ cPc' = "idle" /\ cVal' = cVal
  BY DEF IInv, ConsumerInv, consumer
<1>7. StoreHead(Advance(CurHead, n), n, vs)
      /\ UNCHANGED <<buf, tailHist, producer, cSlot, cSeen, cSync, wroteAt,
                     lastRead, sent>>
  BY DEF consumer
<1> HIDE DEF vs
<1> QED
  BY <1>1, <1>3, <1>4, <1>5, <1>6, <1>7, StoreHeadKeepsIInv
----------------------------------------------------------------------------
(* IInv is inductive. *)
LEMMA NextKeepsIInv == IInv /\ [Next]_vars => IInv'
<1> SUFFICES ASSUME IInv, [Next]_vars PROVE IInv'
  OBVIOUS
<1>1. CASE UNCHANGED vars
  BY <1>1 DEF vars, ring, producer, consumer, ghosts, IInv, TypeOK,
     HistoriesInv, ProducerInv, ConsumerInv, DataInv, ReadInv, DeliveredInOrder
<1>2. ASSUME NEW k \in 1 .. Len(headHist), PushFull(k)
      PROVE  IInv'
  BY <1>2, ProducerLooks DEF PushFull
<1>3. ASSUME NEW k \in 1 .. Len(headHist), NEW v \in Value, PushBegin(v, k)
      PROVE  IInv'
  BY <1>3, PushBeginKeepsIInv
<1>4. CASE PushWrite
  BY <1>4, PushWriteKeepsIInv
<1>5. CASE PushPublish
  BY <1>5, PushPublishKeepsIInv
<1>6. ASSUME NEW k \in 1 .. Len(headHist), ProducerSize(k)
      PROVE  IInv'
  BY <1>6, ProducerLooks DEF ProducerSize
<1>7. ASSUME NEW k \in 1 .. Len(tailHist), PopEmpty(k)
      PROVE  IInv'
  BY <1>7, ConsumerLooks DEF PopEmpty
<1>8. ASSUME NEW wanted \in BOOLEAN, NEW k \in 1 .. Len(tailHist),
             PopBegin(wanted, k)
      PROVE  IInv'
  BY <1>8, PopBeginKeepsIInv
<1>9. CASE PopRead
  BY <1>9, PopReadKeepsIInv
<1>10. CASE PopPublish
  BY <1>10, PopPublishKeepsIInv
<1>11. ASSUME NEW n \in 1 .. Capacity, AdvanceHead(n)
       PROVE  IInv'
  BY <1>11, AdvanceHeadKeepsIInv
<1>12. ASSUME NEW k \in 1 .. Len(tailHist), ConsumerSize(k)
       PROVE  IInv'
  BY <1>12, ConsumerLooks DEF ConsumerSize
<1>13. ASSUME NEW k \in 1 .. Len(tailHist), SampleEmpty(k)
       PROVE  IInv'
  BY <1>13, ConsumerLooks DEF SampleEmpty
<1>14. ASSUME NEW k \in 1 .. Len(tailHist), NEW offset \in 0 .. Capacity,
              SampleBegin(offset, k)
       PROVE  IInv'
  BY <1>14, SampleBeginKeepsIInv
<1>15. CASE SampleRead
  BY <1>15, SampleReadKeepsIInv
<1> QED
  BY <1>1, <1>2, <1>3, <1>4, <1>5, <1>6, <1>7, <1>8, <1>9, <1>10, <1>11, <1>12,
     <1>13, <1>14, <1>15
     DEF Next, PushSteps, PushCall, PopSteps, PopCall

(* Every behaviour of the ring, whatever the threads do and whatever stale   *)
(* values their loads return, satisfies the invariant; in particular its     *)
(* variables keep their types.                                               *)
THEOREM Invariance == Spec => []IInv
<1>1. Init => IInv
  BY InitIInv
<1>2. IInv /\ [Next]_vars => IInv'
  BY NextKeepsIInv
<1> QED
  BY <1>1, <1>2, PTL DEF Spec

THEOREM TypeCorrect == Spec => []TypeOK
<1>1. IInv => TypeOK
  BY DEF IInv
<1> QED
  BY <1>1, Invariance, PTL

(* No access to buf_ by push, pop or the reader of a sampled index is a data *)
(* race: the acquire loads and release stores of head_ and tail_ order every *)
(* two conflicting ones.                                                     *)
THEOREM RaceFree == Spec => []NoDataRace
<1>1. ASSUME IInv PROVE NoDataRace
  <2>1. ASSUME pPc = "write" PROVE lastRead[pTail] <= pSync
    <3> DEFINE p == Len(sent) - Phys
               r == lastRead[pTail]
    <3>1. /\ Len(sent) \in Nat
          /\ \A k \in 1 .. Len(headHist) : popped[k] \in Nat
      BY <1>1, Counts
    <3>2. /\ Len(sent) < popped[pSync] + Capacity
          /\ pTail = Len(sent) % Phys
      BY <1>1, <2>1 DEF IInv, ProducerInv
    <3>a. /\ pSeen \in 1 .. Len(headHist) /\ pSync \in 1 .. pSeen
          /\ lastRead \in [Slot -> Nat] /\ pTail \in Slot
      BY <1>1 DEF IInv, TypeOK
    <3>3. pSync \in 1 .. Len(headHist) /\ lastRead \in [Slot -> Nat]
          /\ pTail \in Slot
      BY <3>a
    <3>4. p \in Int /\ p + Phys = Len(sent)
          /\ p \in (Len(sent) - Phys) .. (Len(sent) - 1)
      BY <3>1, PhysType, CapacityAssumption
    <3>5. p % Phys = pTail
      BY <3>2, <3>4, PhysType, ModPeriod
    <3> HIDE DEF p
    <3>6. CASE r = 0
      BY <3>3, <3>6
    <3>7. CASE r # 0
      <4>1. r - 1 \in 1 .. Len(headHist) /\ popped[r - 1] <= p
        BY <1>1, <3>4, <3>5, <3>7 DEF IInv, ReadInv
      <4>2. popped[r - 1] < popped[pSync]
        <5>1. /\ popped[r - 1] \in Nat /\ popped[pSync] \in Nat
              /\ p = Len(sent) - (Capacity + 1) /\ Capacity \in Nat
          BY <3>1, <3>3, <3>4, <4>1, PhysType, CapacityAssumption
        <5> HIDE DEF r
        <5> QED
          BY <3>1, <3>2, <4>1, <5>1
      <4>3. ~(pSync <= r - 1)
        BY <1>1, <3>1, <3>3, <4>1, <4>2 DEF IInv, HistoriesInv
      <4> QED
        BY <3>3, <4>1, <4>3
    <3> QED
      BY <3>6, <3>7
  <2>2. ASSUME cPc \in {"read", "sampled"} PROVE wroteAt[cSlot] <= cSync
    BY <1>1, <2>2, ReadsLiveElement
  <2> QED
    BY <2>1, <2>2 DEF NoDataRace
<1> QED
  BY <1>1, Invariance, PTL

(* What the consumer gets is what the producer pushed, in order.             *)
THEOREM InOrder == Spec => []DeliveredInOrder
<1>1. IInv => DeliveredInOrder
  BY DEF IInv
<1> QED
  BY <1>1, Invariance, PTL

(* A sampled index names a live element until the caller has read it.        *)
THEOREM SamplesAreLive == Spec => []SampleIsLive
<1>1. ASSUME IInv PROVE SampleIsLive
  <2> SUFFICES ASSUME cPc = "sampled"
               PROVE  \E i \in Len(got) + 1 .. Len(sent) :
                        cSlot = (i - 1) % Phys /\ buf[cSlot] = sent[i]
    BY DEF SampleIsLive
  <2>1. PICK q \in Len(got) .. (Len(sent) - 1) :
          cSlot = q % Phys /\ buf[cSlot] = sent[q + 1]
    BY <1>1, ReadsLiveElement
  <2>2. q + 1 \in Len(got) + 1 .. Len(sent) /\ (q + 1) - 1 = q
    BY <1>1, Counts
  <2> QED
    BY <2>1, <2>2
<1> QED
  BY <1>1, Invariance, PTL

(* size() errs on the safe side for both threads, however stale the index    *)
(* of the other thread is.                                                   *)
THEOREM SizesBracket == Spec => []SizeBrackets
<1>1. ASSUME IInv PROVE SizeBrackets
  <2>1. ASSUME NEW k \in pSeen .. Len(headHist)
        PROVE  Distance(headHist[k], CurTail) \in Occupancy .. Capacity
    <3>1. /\ pSeen \in 1 .. Len(headHist) /\ pSync \in 1 .. pSeen
      BY <1>1 DEF IInv, TypeOK
    <3>2. k \in 1 .. Len(headHist) /\ k \in pSync .. Len(headHist)
      BY <3>1
    <3>3. /\ popped[k] \in Nat /\ popped[k] <= Len(got)
          /\ Len(sent) \in Nat /\ Len(got) \in Nat /\ Len(got) <= Len(sent)
          /\ CurTail = Len(sent) % Phys
      BY <1>1, <3>2, Counts
    <3>4. Len(sent) <= popped[k] + Capacity /\ headHist[k] = popped[k] % Phys
      BY <1>1, <3>2, LooksFullCounts DEF IInv, HistoriesInv
    <3>5. Len(sent) - popped[k] \in 0 .. Capacity
      BY <3>3, <3>4, CapacityAssumption
    <3>6. Distance(headHist[k], CurTail) = Len(sent) - popped[k]
      BY <3>3, <3>4, <3>5, DistanceCounts
    <3> QED
      BY <3>3, <3>5, <3>6 DEF Occupancy
  <2>2. ASSUME NEW k \in cSeen .. Len(tailHist)
        PROVE  Distance(CurHead, tailHist[k]) \in 0 .. Occupancy
    <3>1. /\ Len(got) <= k - 1 /\ k - 1 <= Len(sent)
          /\ Distance(CurHead, tailHist[k]) = k - 1 - Len(got)
      BY <1>1, LooksEmptyCounts
    <3>2. k \in Int /\ Len(got) \in Nat /\ Len(sent) \in Nat
      BY <1>1, Counts
    <3> QED
      BY <3>1, <3>2 DEF Occupancy
  <2> QED
    BY <2>1, <2>2 DEF SizeBrackets
<1> QED
  BY <1>1, Invariance, PTL

(* A thread that saw room, or an element, is not refused afterwards: no      *)
(* later load can make the ring look full, or empty, to it.                  *)
THEOREM ObservationsHold == Spec => []SeenStaysTrue
<1>1. ASSUME IInv PROVE SeenStaysTrue
  <2>1. ASSUME NEW k \in pSeen .. Len(headHist), ~LooksFull(pSeen)
        PROVE  ~LooksFull(k)
    <3>1. /\ pSeen \in 1 .. Len(headHist) /\ pSync \in 1 .. pSeen
      BY <1>1 DEF IInv, TypeOK
    <3>2. /\ k \in pSync .. Len(headHist) /\ pSeen \in pSync .. Len(headHist)
          /\ k \in 1 .. Len(headHist) /\ pSeen <= k
      BY <3>1
    <3>3. popped[pSeen] <= popped[k]
      BY <1>1, <3>1, <3>2 DEF IInv, HistoriesInv
    <3>4. /\ popped[k] \in Nat /\ popped[pSeen] \in Nat /\ Len(sent) \in Nat
      BY <1>1, <3>1, <3>2, Counts
    <3>5. Len(sent) # popped[pSeen] + Capacity
          /\ Len(sent) <= popped[pSeen] + Capacity
      BY <1>1, <2>1, <3>2, LooksFullCounts
    <3>6. Len(sent) # popped[k] + Capacity
      BY <3>3, <3>4, <3>5, CapacityAssumption
    <3> QED
      BY <1>1, <3>2, <3>6, LooksFullCounts
  <2>2. ASSUME NEW k \in cSeen .. Len(tailHist), ~LooksEmpty(cSeen)
        PROVE  ~LooksEmpty(k)
    <3>1. cSeen \in cSeen .. Len(tailHist) /\ cSeen \in Nat
          /\ Len(got) \in Nat
      BY <1>1, Counts DEF IInv, TypeOK
    <3>2. Len(got) # cSeen - 1 /\ Len(got) <= cSeen - 1
      BY <1>1, <2>2, <3>1, LooksEmptyCounts
    <3>3. Len(got) # k - 1
      BY <3>1, <3>2
    <3> QED
      BY <1>1, <3>3, LooksEmptyCounts
  <2> QED
    BY <2>1, <2>2 DEF SeenStaysTrue
<1> QED
  BY <1>1, Invariance, PTL

----------------------------------------------------------------------------
(* The refinement of BoundedFifo.  A step of the ring that stores neither    *)
(* index leaves the queue alone, although it may write buf_; the store of    *)
(* tail_ is the abstract push, the store of head_ the removal.               *)

(* The elements pushed and not removed: what LiveElements reads off the slots. *)
Undelivered == SubSeq(sent, Len(got) + 1, Len(sent))

LEMMA UndeliveredProperties ==
  ASSUME IInv
  PROVE  /\ Undelivered \in Seq(Value)
         /\ Len(Undelivered) = Len(sent) - Len(got)
         /\ Len(Undelivered) \in 0 .. Capacity
         /\ \A i \in 1 .. Len(sent) - Len(got) :
              Undelivered[i] = sent[Len(got) + i]
<1>1. /\ Len(sent) \in Nat /\ Len(got) \in Nat /\ Len(got) <= Len(sent)
      /\ Len(sent) <= Len(got) + Capacity
  BY Counts
<1>2. sent \in Seq(Value)
  BY DEF IInv, TypeOK
<1> DEFINE m == Len(got) + 1
           n == Len(sent)
<1>3. /\ m \in Int /\ n \in Int /\ m \in Nat \ {0} /\ m <= n + 1
      /\ n - m + 1 = Len(sent) - Len(got)
  BY <1>1
<1>4. \A i \in m .. n : sent[i] \in Value
  BY <1>2, <1>3, SeqElements
<1>5. Undelivered = SubSeq(sent, m, n)
  BY DEF Undelivered
<1> HIDE DEF m, n
<1>6. /\ SubSeq(sent, m, n) \in Seq(Value)
      /\ Len(SubSeq(sent, m, n)) = IF m <= n THEN n - m + 1 ELSE 0
      /\ \A i \in 1 .. n - m + 1 : SubSeq(sent, m, n)[i] = sent[m + i - 1]
  BY <1>3, <1>4, SubSeqProperties
<1>7. Len(Undelivered) = Len(sent) - Len(got)
  BY <1>5, <1>1, <1>3, <1>6
<1>8. ASSUME NEW i \in 1 .. Len(sent) - Len(got)
      PROVE  Undelivered[i] = sent[Len(got) + i]
  <2>1. m + i - 1 = Len(got) + i
    BY <1>1 DEF m
  <2> QED
    BY <1>5, <1>3, <1>6, <2>1
<1>9. Undelivered \in Seq(Value)
  BY <1>5, <1>6
<1>10. Len(sent) - Len(got) \in 0 .. Capacity
  BY <1>1, CapacityAssumption
<1> QED
  BY <1>7, <1>8, <1>9, <1>10

(* The live slots, oldest first, hold the elements not yet removed.          *)
LEMMA LiveElementsAre == IInv => LiveElements = Undelivered
<1> SUFFICES ASSUME IInv PROVE LiveElements = Undelivered
  OBVIOUS
<1> DEFINE L == Len(sent) - Len(got)
<1>1. /\ Len(sent) \in Nat /\ Len(got) \in Nat /\ L \in 0 .. Capacity
      /\ CurTail = Len(sent) % Phys /\ CurHead = Len(got) % Phys
  BY Counts, CapacityAssumption
<1>2. Distance(CurHead, CurTail) = L
  BY <1>1, DistanceCounts
<1>3. ASSUME NEW i \in 1 .. L
      PROVE  buf[Advance(CurHead, i - 1)] = Undelivered[i]
  <2> DEFINE q == Len(got) + (i - 1)
  <2>1. /\ i - 1 \in Int /\ Len(got) \in Int
        /\ q \in Len(got) .. (Len(sent) - 1) /\ q + 1 = Len(got) + i
    BY <1>1
  <2>2. Advance(CurHead, i - 1) = q % Phys
    BY <1>1, <2>1, AdvanceCounts
  <2> HIDE DEF q
  <2>3. buf[q % Phys] = sent[q + 1]
    BY <2>1 DEF IInv, DataInv
  <2> QED
    BY <2>1, <2>2, <2>3, UndeliveredProperties
<1> HIDE DEF L
<1>4. LiveElements = [i \in 1 .. L |-> Undelivered[i]]
  BY <1>2, <1>3 DEF LiveElements
<1>5. Undelivered = [i \in 1 .. L |-> Undelivered[i]]
  <2>1. Undelivered \in Seq(Value) /\ Len(Undelivered) = L
    BY UndeliveredProperties DEF L
  <2>2. Undelivered \in [1 .. L -> Value]
    BY <2>1, LenProperties
  <2> QED
    BY <2>2
<1> QED
  BY <1>4, <1>5

LEMMA LiveElementsNext == IInv' => LiveElements' = Undelivered'
<1>1. (IInv => LiveElements = Undelivered)'
  BY LiveElementsAre, PTL
<1> QED
  BY <1>1

----------------------------------------------------------------------------
(* The store of tail_ is the abstract push of the value written before.      *)
LEMMA PushPublishPushes ==
  ASSUME IInv, IInv', PushPublish
  PROVE  Fifo!Push(pVal) /\ pVal \in Value
<1>1. /\ Len(sent) \in Nat /\ Len(got) \in Nat /\ Len(got) <= Len(sent)
  BY Counts
<1>2. sent \in Seq(Value) /\ pVal \in Value /\ pSync \in 1 .. Len(headHist)
  BY Counts DEF IInv, TypeOK
<1>3. sent' = Append(sent, pVal) /\ got' = got
  BY DEF PushPublish
<1>4. Len(sent) < Len(got) + Capacity
  <2>1. Len(sent) < popped[pSync] + Capacity
    BY DEF IInv, ProducerInv, PushPublish
  <2>2. popped[pSync] \in Nat /\ popped[pSync] <= Len(got)
    BY <1>2, Counts
  <2> QED
    BY <1>1, <2>1, <2>2, CapacityAssumption
<1>5. /\ Undelivered \in Seq(Value)
      /\ Len(Undelivered) = Len(sent) - Len(got)
      /\ \A i \in 1 .. Len(sent) - Len(got) : Undelivered[i] = sent[Len(got) + i]
  BY UndeliveredProperties
<1>6. Len(Undelivered) < Capacity
  BY <1>1, <1>4, <1>5, CapacityAssumption
<1>7. Undelivered' = Append(Undelivered, pVal)
  <2> DEFINE m == Len(got) + 1
             n == Len(sent)
             s == Append(sent, pVal)
             u == Append(Undelivered, pVal)
  <2>1. /\ s \in Seq(Value) /\ Len(s) = n + 1 /\ s[n + 1] = pVal
        /\ \A i \in 1 .. n : s[i] = sent[i]
    BY <1>2, AppendProperties
  <2>2. /\ u \in Seq(Value) /\ Len(u) = n - m + 2 /\ u[n - m + 2] = pVal
        /\ \A i \in 1 .. n - m + 1 : u[i] = sent[Len(got) + i]
    <3>1. /\ Len(Undelivered) = n - m + 1
          /\ n - m + 1 = Len(sent) - Len(got)
          /\ n - m + 1 + 1 = n - m + 2
      BY <1>1, <1>5
    <3>2. /\ u \in Seq(Value) /\ Len(u) = Len(Undelivered) + 1
          /\ u[Len(Undelivered) + 1] = pVal
          /\ \A i \in 1 .. Len(Undelivered) : u[i] = Undelivered[i]
      BY <1>2, <1>5, AppendProperties
    <3> HIDE DEF m, n, u
    <3> QED
      BY <1>5, <3>1, <3>2
  <2>3. m \in Nat \ {0} /\ n \in Nat /\ m <= n + 1 /\ n + 1 \in Int /\ m \in Int
    BY <1>1
  <2>4. m = Len(got) + 1
    OBVIOUS
  <2>5. Undelivered' = SubSeq(s, m, n + 1)
    BY <1>3, <2>1 DEF Undelivered
  <2> HIDE DEF s, u, m, n
  <2>6. \A i \in m .. n + 1 : s[i] \in Value
    BY <2>1, <2>3, SeqElements
  <2>7. /\ SubSeq(s, m, n + 1) \in Seq(Value)
        /\ Len(SubSeq(s, m, n + 1)) = IF m <= n + 1 THEN n + 1 - m + 1 ELSE 0
        /\ \A i \in 1 .. n + 1 - m + 1 : SubSeq(s, m, n + 1)[i] = s[m + i - 1]
    BY <2>3, <2>6, SubSeqProperties
  <2>8. Len(SubSeq(s, m, n + 1)) = Len(u) /\ Len(u) = n + 1 - m + 1
    BY <2>2, <2>3, <2>7
  <2>9. ASSUME NEW i \in 1 .. Len(u) PROVE SubSeq(s, m, n + 1)[i] = u[i]
    <3>1. SubSeq(s, m, n + 1)[i] = s[m + i - 1] /\ i \in Nat \ {0}
      BY <2>3, <2>7, <2>8
    <3>2. CASE i = n - m + 2
      <4>1. m + i - 1 = n + 1
        BY <2>3, <3>2
      <4> QED
        BY <2>1, <2>2, <3>1, <3>2, <4>1
    <3>3. CASE i # n - m + 2
      <4>1. i \in 1 .. n - m + 1
        BY <2>2, <2>3, <3>3
      <4>2. m + i - 1 = Len(got) + i /\ m + i - 1 \in 1 .. n
        BY <1>1, <2>3, <2>4, <4>1
      <4> QED
        BY <2>1, <2>2, <3>1, <4>1, <4>2
    <3> QED
      BY <3>2, <3>3
  <2>10. SubSeq(s, m, n + 1) = u
    BY <2>2, <2>7, <2>8, <2>9, SeqEqual
  <2> QED
    BY <2>10, <2>5 DEF u
<1>8. LiveElements = Undelivered /\ LiveElements' = Undelivered'
  BY LiveElementsAre, LiveElementsNext
<1> QED
  BY <1>2, <1>3, <1>6, <1>7, <1>8 DEF Fifo!Push
----------------------------------------------------------------------------
(* Removing n elements unread, or the oldest one, drops that many of the     *)
(* undelivered elements.                                                     *)
LEMMA StoreHeadDrops ==
  ASSUME IInv, IInv', NEW slot, NEW n \in Nat \ {0}, NEW vs,
         n <= Len(sent) - Len(got),
         StoreHead(slot, n, vs), sent' = sent, Len(got') = Len(got) + n
  PROVE  Undelivered' = SubSeq(Undelivered, n + 1, Len(Undelivered))
<1> DEFINE d == Len(sent) - Len(got)
           s == SubSeq(Undelivered, n + 1, d)
<1>1. Len(sent) \in Nat /\ Len(got) \in Nat
  BY Counts
<1>2. /\ Undelivered \in Seq(Value) /\ Len(Undelivered) = d
      /\ \A i \in 1 .. d : Undelivered[i] = sent[Len(got) + i]
  BY UndeliveredProperties
<1>3. sent \in Seq(Value)
  BY DEF IInv, TypeOK
<1>4. d \in Nat /\ n + 1 \in Int /\ n + 1 <= d + 1 /\ d \in Int
  BY <1>1
<1>5. n + 1 \in Nat \ {0}
  BY <1>4
<1>6. \A i \in n + 1 .. d : Undelivered[i] \in Value
  BY <1>2, <1>4, <1>5, SeqElements
<1>7. d = Len(sent) - Len(got)
  OBVIOUS
<1> HIDE DEF d
<1>8. /\ s \in Seq(Value)
      /\ Len(s) = IF n + 1 <= d THEN d - (n + 1) + 1 ELSE 0
      /\ \A i \in 1 .. d - (n + 1) + 1 : s[i] = Undelivered[n + 1 + i - 1]
  BY <1>4, <1>6, SubSeqProperties
<1> DEFINE m == Len(got) + n + 1
           t == SubSeq(sent, m, Len(sent))
<1>9. Undelivered' = t
  BY <1>1 DEF Undelivered
<1>10. /\ m \in Int /\ m \in Nat \ {0} /\ m <= Len(sent) + 1
       /\ Len(sent) - m + 1 = d - n
  BY <1>1, <1>7
<1>11. m = Len(got) + n + 1
  OBVIOUS
<1> HIDE DEF m
<1>12. \A i \in m .. Len(sent) : sent[i] \in Value
  BY <1>1, <1>3, <1>10, SeqElements
<1>13. /\ t \in Seq(Value)
       /\ Len(t) = IF m <= Len(sent) THEN Len(sent) - m + 1 ELSE 0
       /\ \A i \in 1 .. Len(sent) - m + 1 : t[i] = sent[m + i - 1]
  BY <1>1, <1>10, <1>12, SubSeqProperties
<1> HIDE DEF s, t
<1>14. Len(t) = d - n /\ Len(s) = d - n /\ d - (n + 1) + 1 = d - n
  BY <1>1, <1>4, <1>8, <1>10, <1>13
<1>15. ASSUME NEW i \in 1 .. d - n PROVE t[i] = s[i]
  <2>1. /\ i \in Nat \ {0} /\ n + 1 + i - 1 = n + i /\ n + i \in 1 .. d
        /\ m + i - 1 = Len(got) + (n + i)
    BY <1>1, <1>4, <1>11
  <2>2. s[i] = Undelivered[n + i]
    BY <1>8, <1>14, <2>1
  <2>3. t[i] = sent[m + i - 1]
    BY <1>10, <1>13
  <2> QED
    BY <1>2, <2>1, <2>2, <2>3
<1>16. t = s
  BY <1>8, <1>13, <1>14, <1>15, SeqEqual
<1> QED
  BY <1>2, <1>9, <1>16 DEF s

(* advance_head(n) is the abstract removal of n elements unread.             *)
LEMMA AdvanceHeadDrops ==
  ASSUME IInv, IInv', NEW n \in 1 .. Capacity, AdvanceHead(n)
  PROVE  Fifo!Drop(n)
<1>1. /\ cSeen \in cSeen .. Len(tailHist) /\ Len(got) \in Nat
      /\ Len(sent) \in Nat /\ cSeen \in Nat
  <2>1. cSeen \in 1 .. Len(tailHist)
    BY DEF IInv, TypeOK
  <2> QED
    BY <2>1, Counts
<1>2. n <= Len(sent) - Len(got)
  <2>1. cSeen - 1 <= Len(sent)
        /\ Distance(CurHead, tailHist[cSeen]) = cSeen - 1 - Len(got)
    BY <1>1, LooksEmptyCounts
  <2>2. n <= cSeen - 1 - Len(got)
    BY <2>1 DEF AdvanceHead
  <2> QED
    BY <1>1, <2>1, <2>2, CapacityAssumption
<1> DEFINE vs == [i \in 1 .. n |-> NoValue]
<1>3. /\ StoreHead(Advance(CurHead, n), n, vs) /\ sent' = sent
      /\ got' = got \o vs
  BY DEF AdvanceHead, StoreHead
<1>4. vs \in Seq(Value \union {NoValue}) /\ Len(vs) = n
  BY CapacityAssumption
<1>5. got \in Seq(Value \union {NoValue})
  BY DEF IInv, TypeOK
<1> HIDE DEF vs
<1>6. Len(got') = Len(got) + n
  BY <1>3, <1>4, <1>5, ConcatProperties
<1>7. n \in Nat \ {0}
  BY CapacityAssumption
<1>8. Undelivered' = SubSeq(Undelivered, n + 1, Len(Undelivered))
  BY <1>2, <1>3, <1>6, <1>7, StoreHeadDrops
<1>9. LiveElements = Undelivered /\ LiveElements' = Undelivered'
  BY LiveElementsAre, LiveElementsNext
<1>10. n <= Len(Undelivered)
  BY <1>2, UndeliveredProperties
<1> QED
  BY <1>3, <1>8, <1>9, <1>10 DEF Fifo!Drop, vs

(* The store of head_ in pop is the abstract pop when a value was read, and  *)
(* the removal of one element unread when out_val is null.                   *)
LEMMA PopPublishPops ==
  ASSUME IInv, IInv', PopPublish
  PROVE  Fifo!Pop \/ (1 \in 1 .. Capacity /\ Fifo!Drop(1))
<1>1. /\ Len(sent) \in Nat /\ Len(got) \in Nat /\ cSync \in 1 .. cSeen
      /\ cSeen \in 1 .. Len(sent) + 1
  BY Counts DEF IInv, TypeOK
<1>2. Len(got) < Len(sent)
  <2>1. Len(got) < cSync - 1
    BY DEF IInv, ConsumerInv, PopPublish
  <2> QED
    BY <1>1, <2>1
<1>3. StoreHead(NextSlot(cSlot), 1, <<cVal>>) /\ sent' = sent
      /\ got' = got \o <<cVal>>
  BY DEF PopPublish, StoreHead
<1>4. got \in Seq(Value \union {NoValue}) /\ cVal \in Value \union {NoValue}
  BY DEF IInv, TypeOK
<1>5. got' = Append(got, cVal) /\ Len(got') = Len(got) + 1
  BY <1>3, <1>4, AppendIsConcat, AppendProperties
<1>6. 1 <= Len(sent) - Len(got)
  BY <1>1, <1>2
<1>7. Undelivered' = SubSeq(Undelivered, 2, Len(Undelivered))
  <2>1. Undelivered' = SubSeq(Undelivered, 1 + 1, Len(Undelivered))
    BY <1>3, <1>5, <1>6, StoreHeadDrops
  <2> QED
    BY <2>1
<1>8. /\ Undelivered \in Seq(Value) /\ Len(Undelivered) >= 1
      /\ Len(Undelivered) \in 0 .. Capacity
      /\ Undelivered[1] = sent[Len(got) + 1]
  BY <1>1, <1>6, UndeliveredProperties
<1>9. LiveElements = Undelivered /\ LiveElements' = Undelivered'
  BY LiveElementsAre, LiveElementsNext
<1>10. cVal \in {sent[Len(got) + 1], NoValue}
  BY DEF IInv, ConsumerInv, PopPublish
<1>11. Undelivered # <<>>
  BY <1>8
<1>12. CASE cVal = sent[Len(got) + 1]
  <2>1. Head(Undelivered) = cVal
    BY <1>8, <1>11, <1>12
  <2>2. Tail(Undelivered) = SubSeq(Undelivered, 2, Len(Undelivered))
    BY <1>8, <1>11, TailIsSubSeq
  <2> QED
    BY <1>5, <1>7, <1>9, <1>11, <2>1, <2>2 DEF Fifo!Pop
<1>13. CASE cVal = NoValue
  <2>1. <<cVal>> = [i \in 1 .. 1 |-> NoValue]
    BY <1>13
  <2>2. 1 \in 1 .. Capacity
    BY <1>8, CapacityAssumption
  <2>3. /\ 1 <= Len(LiveElements)
        /\ got' = got \o [i \in 1 .. 1 |-> NoValue]
        /\ LiveElements' = SubSeq(LiveElements, 1 + 1, Len(LiveElements))
    BY <1>3, <1>7, <1>8, <1>9, <2>1
  <2> QED
    BY <2>2, <2>3 DEF Fifo!Drop
<1> QED
  BY <1>10, <1>12, <1>13

----------------------------------------------------------------------------
(* A step that leaves sent and got alone is a stutter of the queue.          *)
LEMMA OtherStepsStutter ==
  ASSUME IInv, IInv', UNCHANGED <<sent, got>>
  PROVE  UNCHANGED Fifo!fifoVars
<1>1. LiveElements = Undelivered /\ LiveElements' = Undelivered'
  BY LiveElementsAre, LiveElementsNext
<1>2. Undelivered' = Undelivered
  BY DEF Undelivered
<1> QED
  BY <1>1, <1>2 DEF Fifo!fifoVars

LEMMA StepRefines ==
  IInv /\ IInv' /\ [Next]_vars => [Fifo!Next]_(Fifo!fifoVars)
<1> SUFFICES ASSUME IInv, IInv', [Next]_vars
             PROVE  [Fifo!Next]_(Fifo!fifoVars)
  OBVIOUS
<1> USE DEF ring, producer, consumer, ghosts
<1>1. CASE PushPublish
  BY <1>1, PushPublishPushes DEF Fifo!Next
<1>2. CASE PopPublish
  BY <1>2, PopPublishPops DEF Fifo!Next
<1>3. ASSUME NEW n \in 1 .. Capacity, AdvanceHead(n)
      PROVE  [Fifo!Next]_(Fifo!fifoVars)
  BY <1>3, AdvanceHeadDrops DEF Fifo!Next
<1>4. CASE PushCall \/ PushWrite
  BY <1>4, OtherStepsStutter DEF PushCall, PushFull, PushBegin, PushWrite
<1>5. CASE \E k \in 1 .. Len(headHist) : ProducerSize(k)
  BY <1>5, OtherStepsStutter DEF ProducerSize
<1>6. CASE PopRead \/ \E wanted \in BOOLEAN : PopCall(wanted)
  BY <1>6, OtherStepsStutter DEF PopRead, PopCall, PopEmpty, PopBegin
<1>7. CASE \E k \in 1 .. Len(tailHist) :
             ConsumerSize(k) \/ SampleEmpty(k)
             \/ \E offset \in 0 .. Capacity : SampleBegin(offset, k)
  BY <1>7, OtherStepsStutter DEF ConsumerSize, SampleEmpty, SampleBegin
<1>8. CASE SampleRead
  BY <1>8, OtherStepsStutter DEF SampleRead
<1>9. CASE UNCHANGED vars
  BY <1>9, OtherStepsStutter DEF vars
<1> QED
  BY <1>1, <1>2, <1>3, <1>4, <1>5, <1>6, <1>7, <1>8, <1>9
     DEF Next, PushSteps, PopSteps

LEMMA InitRefines == Init => Fifo!Init
<1> SUFFICES ASSUME Init PROVE LiveElements = <<>> /\ got = <<>>
  BY DEF Fifo!Init
<1>1. IInv
  BY InitIInv
<1>2. Undelivered \in Seq(Value) /\ Len(Undelivered) = 0
  BY <1>1, UndeliveredProperties DEF Init
<1>3. Undelivered = <<>>
  BY <1>2, EmptySeq
<1> QED
  BY <1>1, <1>3, LiveElementsAre DEF Init

(* The lock-free ring is a bounded FIFO queue, whatever its capacity and     *)
(* however stale the loads of the other thread's index are.                  *)
THEOREM ImplementsFifoQueue == Spec => ImplementsFifo
<1>1. Init => Fifo!Init
  BY InitRefines
<1>2. IInv /\ IInv' /\ [Next]_vars => [Fifo!Next]_(Fifo!fifoVars)
  BY StepRefines
<1> QED
  BY <1>1, <1>2, Invariance, PTL DEF Spec, ImplementsFifo
=============================================================================

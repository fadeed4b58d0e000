---------------------------- MODULE PyRingProofs ----------------------------
(***************************************************************************)
(* For every capacity below half of size_t's range and every sequence of   *)
(* calls of the Python class: size() is exact although it passes below     *)
(* zero, the ring holds the live elements in order, and the memory that    *)
(* Python keeps (pop_view's array, an index of sample_indices) keeps what  *)
(* it was given for as long as PyRing says.  All follow from the inductive *)
(* invariant IInv of PyRing.                                               *)
(***************************************************************************)
EXTENDS PyRing, RingOpsProofs, SequenceTheorems

(* size()'s unsigned expression is the distance from head to tail.           *)
THEOREM SizeIsDistance ==
  ASSUME head \in Slot, tail \in Slot
  PROVE  Size = Distance(head, tail)
<1> DEFINE d == tail - head
<1>1. /\ Capacity \in Nat /\ Phys = Capacity + 1 /\ Phys \in Nat \ {0}
      /\ SizeT \in Nat \ {0} /\ 2 * Phys <= SizeT
      /\ head \in 0 .. Capacity /\ tail \in 0 .. Capacity
  BY PhysType, CapacityAssumption, SizeTAssumption
<1>2. d \in Int /\ d <= Capacity /\ d >= 0 - Capacity
  BY <1>1
<1> HIDE DEF d
<1>3. U(U(U(d) + Capacity) + 1) = d + Phys
  <2>1. CASE d >= 0
    <3>1. d \in 0 .. (SizeT - 1) /\ d + Capacity \in 0 .. (SizeT - 1)
          /\ d + Capacity + 1 \in 0 .. (SizeT - 1)
      BY <1>1, <1>2, <2>1
    <3>2. d % SizeT = d
      BY <1>1, <3>1, ModSmall
    <3>3. (d + Capacity) % SizeT = d + Capacity
      BY <1>1, <3>1, ModSmall
    <3>4. (d + Capacity + 1) % SizeT = d + Capacity + 1
      BY <1>1, <3>1, ModSmall
    <3>5. d + Capacity + 1 = d + Phys
      BY <1>1, <1>2
    <3> QED
      BY <3>2, <3>3, <3>4, <3>5 DEF U
  <2>2. CASE d < 0
    <3>1. /\ d + SizeT \in 0 .. (SizeT - 1) /\ -1 \in Int /\ 1 \in Int
          /\ d = SizeT * (-1) + (d + SizeT)
      BY <1>1, <1>2, <2>2
    <3>2. d % SizeT = d + SizeT
      BY <1>1, <1>2, <3>1, ModUnique
    <3>3. /\ d + SizeT + Capacity \in Int /\ d + Capacity \in 0 .. (SizeT - 1)
          /\ d + SizeT + Capacity = SizeT * 1 + (d + Capacity)
      BY <1>1, <1>2, <2>2
    <3>4. (d + SizeT + Capacity) % SizeT = d + Capacity
      BY <1>1, <3>1, <3>3, ModUnique
    <3>5. d + Capacity + 1 \in 0 .. (SizeT - 1) /\ d + Capacity + 1 = d + Phys
      BY <1>1, <1>2, <2>2
    <3>6. (d + Capacity + 1) % SizeT = d + Capacity + 1
      BY <1>1, <3>5, ModSmall
    <3> QED
      BY <3>2, <3>4, <3>5, <3>6 DEF U
  <2> QED
    BY <1>2, <2>1, <2>2
<1>4. Size = (d + Phys) % Phys
  BY <1>3 DEF Size, d
<1> QED
  BY <1>4 DEF Distance, d

----------------------------------------------------------------------------
(* The types, in the form the steps below use.                               *)
LEMMA RingTypes ==
  ASSUME TypeOK
  PROVE  /\ Capacity \in Nat /\ Phys = Capacity + 1 /\ Phys \in Nat \ {0}
         /\ Slot = 0 .. Capacity
         /\ buf \in [Slot -> Value]
         /\ head \in Slot /\ head \in Int /\ tail \in Slot /\ tail \in Int
         /\ live \in Seq(Value) /\ Len(live) \in Nat
         /\ taken \in Seq(Value) /\ Len(taken) \in Nat
         /\ batch.start \in Slot /\ batch.n \in 0 .. Capacity
         /\ spare \in Int /\ spare >= -Capacity /\ spare <= Phys
         /\ sampled.slot \in Slot /\ sampled.value \in Value
         /\ sampled.lasts \in -1 .. Capacity
BY PhysType, CapacityAssumption DEF TypeOK

(* size() counts the live elements.                                          *)
LEMMA SizeIsLen ==
  ASSUME TypeOK, LiveInv
  PROVE  Size = Len(live)
<1>1. /\ head \in Slot /\ tail \in Slot /\ head \in Int /\ Len(live) \in Nat
      /\ Len(live) <= Capacity /\ Capacity \in Nat /\ Phys \in Nat \ {0}
      /\ head \in 0 .. (Phys - 1)
  BY RingTypes DEF LiveInv
<1>2. Size = Distance(head, tail)
  BY <1>1, SizeIsDistance
<1>3. head + Len(live) \in Int
      /\ (head + Len(live)) - head \in 0 .. Capacity
      /\ (head + Len(live)) - head = Len(live)
  BY <1>1
<1>4. Distance(head % Phys, (head + Len(live)) % Phys)
        = (head + Len(live)) - head
  BY <1>1, <1>3, DistanceCounts
<1>5. head % Phys = head
  BY <1>1, ModSmall
<1>6. tail = (head + Len(live)) % Phys
  BY DEF LiveInv, Advance
<1> QED
  BY <1>2, <1>3, <1>4, <1>5, <1>6

(* An element before the tail lies in another slot than the tail.            *)
LEMMA LiveSlotIsNotTail ==
  ASSUME TypeOK, LiveInv, NEW i \in 1 .. Len(live)
  PROVE  Advance(head, i - 1) # tail
<1>1. /\ head \in Int /\ Len(live) \in Int /\ i - 1 \in Int
      /\ (i - 1) - Len(live) <= Capacity /\ Len(live) - (i - 1) <= Capacity
      /\ i - 1 # Len(live)
  <2>1. /\ head \in Int /\ Len(live) \in Nat /\ Capacity \in Nat
        /\ Len(live) <= Capacity
    BY RingTypes DEF LiveInv
  <2> QED
    BY <2>1
<1>2. tail = Advance(head, Len(live))
  BY DEF LiveInv
<1> QED
  BY <1>1, <1>2, AdvanceInjective

(* Nor does a slot that the tail reaches only some pushes later.             *)
LEMMA AheadIsNotTail ==
  ASSUME TypeOK, NEW m \in 1 .. Capacity
  PROVE  Advance(tail, m) # tail
<1>1. /\ tail \in Int /\ tail \in Slot /\ Capacity \in Nat
      /\ m \in Int /\ 0 \in Int /\ m - 0 <= Capacity /\ 0 - m <= Capacity
      /\ m # 0
  BY RingTypes
<1>2. Advance(tail, 0) = tail
  BY <1>1, AdvanceNothing
<1> QED
  BY <1>1, <1>2, AdvanceInjective

----------------------------------------------------------------------------
LEMMA InitIInv == Init => IInv
<1> SUFFICES ASSUME Init PROVE IInv
  OBVIOUS
<1>1. /\ Capacity \in Nat /\ Phys \in Nat \ {0} /\ Phys = Capacity + 1
      /\ 0 \in Slot /\ Slot = 0 .. Capacity /\ Zero \in Value
  BY PhysType, CapacityAssumption, ValueAssumption
<1>2. /\ buf = [s \in Slot |-> Zero] /\ head = 0 /\ tail = 0
      /\ batch = View(0, 0) /\ sampled = Index(0, Zero, -1)
      /\ live = <<>> /\ taken = <<>> /\ spare = 0
  BY DEF Init
<1>3. /\ batch.start = 0 /\ batch.n = 0 /\ batch.copy = <<>>
      /\ sampled.lasts = -1 /\ <<>> \in Seq(Value) /\ Len(live) = 0
  BY <1>2, EmptySeq DEF View, Index
<1>4. sampled \in [slot : Slot, value : Value, lasts : -1 .. Capacity]
  BY <1>1, <1>2 DEF Index
<1>5. TypeOK
  <2>1. buf \in [Slot -> Value] /\ spare \in -Capacity .. Phys
        /\ 0 \in 0 .. Capacity
    BY <1>1, <1>2
  <2> QED
    BY <1>1, <1>2, <1>3, <1>4, <2>1 DEF TypeOK
<1>6. LiveInv
  BY <1>1, <1>2, <1>3, AdvanceNothing DEF LiveInv
<1> QED
  BY <1>2, <1>3, <1>5, <1>6 DEF IInv, CopyInv, ViewInv, SampledInv

----------------------------------------------------------------------------
(* push: the ring has room exactly when it is not full of live elements.     *)
LEMMA PushHasRoom ==
  ASSUME TypeOK, LiveInv, NextSlot(tail) # head
  PROVE  Len(live) < Capacity
<1>1. /\ Capacity \in Nat /\ Len(live) \in Nat /\ Len(live) <= Capacity
      /\ head \in Slot /\ head \in Int /\ Phys \in Nat \ {0}
      /\ Phys = Capacity + 1
  BY RingTypes DEF LiveInv
<1>2. SUFFICES ASSUME Len(live) = Capacity PROVE FALSE
  BY <1>1
<1>3. tail = Advance(head, Capacity)
  BY <1>2 DEF LiveInv
<1>4. Advance(Advance(head, Capacity), 1) = Advance(head, Capacity + 1)
  BY <1>1, AdvanceTwice
<1>5. (head + Phys) % Phys = head % Phys
  BY <1>1, ModPeriod
<1>6. Advance(head, Phys) = Advance(head, 0)
  BY <1>1, <1>5 DEF Advance
<1>7. Advance(head, 0) = head
  BY <1>1, AdvanceNothing
<1> QED
  BY <1>1, <1>3, <1>4, <1>6, <1>7 DEF NextSlot

LEMMA PushIInv ==
  ASSUME IInv, NEW v \in Value, Push(v)
  PROVE  IInv'
<1>1. TypeOK /\ LiveInv /\ CopyInv /\ ViewInv /\ SampledInv
  BY DEF IInv
<1>2. /\ NextSlot(tail) # head
      /\ buf' = [buf EXCEPT ![tail] = v]
      /\ tail' = NextSlot(tail) /\ head' = head
      /\ live' = Append(live, v)
      /\ spare' = (IF spare > -Capacity THEN spare - 1 ELSE spare)
      /\ sampled' = Index(sampled.slot, sampled.value,
                          IF sampled.lasts >= 0 THEN sampled.lasts - 1 ELSE -1)
      /\ batch' = batch /\ taken' = taken
  BY DEF Push
<1>3. /\ Capacity \in Nat /\ Phys = Capacity + 1 /\ Phys \in Nat \ {0}
      /\ buf \in [Slot -> Value] /\ tail \in Slot /\ tail \in Int
      /\ head \in Slot /\ head \in Int
      /\ live \in Seq(Value) /\ Len(live) \in Nat
      /\ batch.n \in 0 .. Capacity /\ batch.start \in Slot
      /\ spare \in Int /\ spare >= -Capacity /\ spare <= Phys
      /\ sampled.slot \in Slot /\ sampled.value \in Value
      /\ sampled.lasts \in -1 .. Capacity
  BY <1>1, RingTypes
<1>4. Len(live) < Capacity
  BY <1>1, <1>2, PushHasRoom
<1>5. /\ live' \in Seq(Value) /\ Len(live') = Len(live) + 1
      /\ \A i \in 1 .. Len(live) : live'[i] = live[i]
      /\ live'[Len(live) + 1] = v
  BY <1>2, <1>3, AppendProperties
<1>6. tail' = Advance(tail, 1) /\ tail' \in Slot
  BY <1>2, <1>3, AdvanceIsSlot DEF NextSlot
<1>7. /\ buf' \in [Slot -> Value] /\ buf'[tail] = v
      /\ \A s \in Slot : s # tail => buf'[s] = buf[s]
  BY <1>2, <1>3
<1>8. /\ sampled' \in [slot : Slot, value : Value, lasts : -1 .. Capacity]
      /\ sampled'.slot = sampled.slot /\ sampled'.value = sampled.value
      /\ sampled'.lasts = IF sampled.lasts >= 0 THEN sampled.lasts - 1 ELSE -1
  <2> DEFINE n == IF sampled.lasts >= 0 THEN sampled.lasts - 1 ELSE -1
  <2>1. n \in -1 .. Capacity
    BY <1>3
  <2> HIDE DEF n
  <2>2. sampled' = Index(sampled.slot, sampled.value, n)
    BY <1>2 DEF n
  <2>3. /\ sampled' \in [slot : Slot, value : Value, lasts : -1 .. Capacity]
        /\ sampled'.slot = sampled.slot /\ sampled'.value = sampled.value
        /\ sampled'.lasts = n
    BY <1>3, <2>1, <2>2 DEF Index
  <2> QED
    BY <2>3 DEF n
<1>9. TypeOK'
  <2>1. spare' \in -Capacity .. Phys
    BY <1>2, <1>3
  <2> QED
    BY <1>1, <1>2, <1>5, <1>6, <1>7, <1>8, <2>1 DEF TypeOK
<1>10. LiveInv'
  <2>1. tail' = Advance(head', Len(live'))
    <3>1. tail = Advance(head, Len(live))
      BY <1>1 DEF LiveInv
    <3>2. Advance(Advance(head, Len(live)), 1) = Advance(head, Len(live) + 1)
      BY <1>3, AdvanceTwice
    <3> QED
      BY <1>2, <1>5, <1>6, <3>1, <3>2
  <2>2. ASSUME NEW i \in 1 .. Len(live')
        PROVE  buf'[Advance(head, i - 1)] = live'[i]
    <3>1. i \in Int /\ i - 1 \in Int /\ i \in 1 .. Len(live) + 1
      BY <1>5
    <3>2. Advance(head, i - 1) \in Slot
      BY <1>3, <3>1, AdvanceIsSlot
    <3>3. CASE i \in 1 .. Len(live)
      <4>1. Advance(head, i - 1) # tail
        BY <1>1, <3>3, LiveSlotIsNotTail
      <4>2. buf[Advance(head, i - 1)] = live[i]
        BY <1>1, <3>3 DEF LiveInv
      <4> QED
        BY <1>5, <1>7, <3>2, <3>3, <4>1, <4>2
    <3>4. CASE i = Len(live) + 1
      <4>1. i - 1 = Len(live)
        BY <1>3, <3>4
      <4>2. Advance(head, i - 1) = tail
        BY <1>1, <4>1 DEF LiveInv
      <4> QED
        BY <1>5, <1>7, <3>4, <4>2
    <3> QED
      BY <1>3, <3>1, <3>3, <3>4
  <2>3. Len(live') <= Capacity
    BY <1>3, <1>4, <1>5
  <2> QED
    BY <1>2, <2>1, <2>2, <2>3 DEF LiveInv
<1>11. CopyInv'
  BY <1>1, <1>2 DEF CopyInv
<1>12. ViewInv'
  <2> SUFFICES ASSUME batch.n # 0
               PROVE  /\ spare' + batch.n <= Phys
                      /\ spare' > -Capacity => Advance(tail', spare') = batch.start
                      /\ \A i \in 1 .. batch.n :
                           spare' + i - 1 >= 0 => buf'[batch.start + i - 1] = taken[i]
    BY <1>1, <1>2 DEF ViewInv
  <2>1. /\ batch.start + batch.n <= Phys /\ spare + batch.n <= Phys
        /\ spare > -Capacity => Advance(tail, spare) = batch.start
        /\ \A i \in 1 .. batch.n :
             spare + i - 1 >= 0 => buf[batch.start + i - 1] = taken[i]
    BY <1>1 DEF ViewInv
  <2>2. spare' + batch.n <= Phys
    BY <1>2, <1>3, <2>1
  <2>3. ASSUME spare' > -Capacity PROVE Advance(tail', spare') = batch.start
    <3>1. spare > -Capacity /\ spare' = spare - 1 /\ 1 + (spare - 1) = spare
          /\ spare - 1 \in Int
      BY <1>2, <1>3, <2>3
    <3>2. Advance(Advance(tail, 1), spare - 1) = Advance(tail, 1 + (spare - 1))
      BY <1>3, <3>1, AdvanceTwice
    <3> QED
      BY <1>6, <2>1, <3>1, <3>2
  <2>4. ASSUME NEW i \in 1 .. batch.n, spare' + i - 1 >= 0
        PROVE  buf'[batch.start + i - 1] = taken[i]
    <3>1. /\ spare > -Capacity /\ spare' = spare - 1
          /\ spare + (i - 1) \in 1 .. Capacity /\ i - 1 \in Int
          /\ spare + i - 1 >= 0
          /\ batch.start + i - 1 \in Slot
          /\ batch.start + i - 1 = batch.start + (i - 1)
      <4>1. /\ i \in Int /\ i >= 1 /\ i <= batch.n /\ batch.n <= Capacity
            /\ batch.start \in 0 .. Capacity /\ spare' \in Int
        BY <1>2, <1>3, RingTypes, <1>1
      <4>2. spare > -Capacity /\ spare' = spare - 1
        BY <1>2, <1>3, <2>4, <4>1
      <4>3. spare + (i - 1) >= 1 /\ spare + (i - 1) <= Capacity
        <5>1. spare + batch.n <= Phys /\ (spare - 1) + i - 1 >= 0
          BY <2>1, <2>4, <4>2
        <5> QED
          BY <1>3, <4>1, <5>1
      <4>4. batch.start + i - 1 \in 0 .. Capacity
        <5>1. /\ batch.start + batch.n <= Phys /\ Phys = Capacity + 1
              /\ batch.n \in 0 .. Capacity /\ Capacity \in Nat
          BY <1>3, <2>1
        <5>2. batch.start \in Int /\ batch.start >= 0
          BY <4>1, <5>1
        <5> QED
          BY <4>1, <5>1, <5>2
      <4>5. Slot = 0 .. Capacity
        BY PhysType
      <4> QED
        BY <1>3, <4>1, <4>2, <4>3, <4>4, <4>5
    <3>2. Advance(Advance(tail, spare), i - 1) = Advance(tail, spare + (i - 1))
      BY <1>3, <3>1, AdvanceTwice
    <3>3. Advance(batch.start, i - 1) = batch.start + i - 1
      BY <1>3, <3>1, ModSmall DEF Advance, Slot
    <3>4. Advance(tail, spare + (i - 1)) # tail
      BY <1>1, <3>1, AheadIsNotTail
    <3>5. batch.start + i - 1 # tail
      BY <2>1, <3>1, <3>2, <3>3, <3>4
    <3> QED
      BY <1>7, <2>1, <3>1, <3>5
  <2> QED
    BY <2>2, <2>3, <2>4
<1>13. SampledInv'
  <2> SUFFICES ASSUME sampled'.lasts >= 0
               PROVE  /\ Advance(tail', sampled'.lasts) = sampled.slot
                      /\ buf'[sampled.slot] = sampled.value
    BY <1>8 DEF SampledInv
  <2>1. /\ sampled.lasts >= 0 /\ sampled.lasts \in 1 .. Capacity
        /\ sampled'.lasts = sampled.lasts - 1 /\ sampled.lasts - 1 \in Int
        /\ 1 + (sampled.lasts - 1) = sampled.lasts
    BY <1>3, <1>8
  <2>2. /\ Advance(tail, sampled.lasts) = sampled.slot
        /\ buf[sampled.slot] = sampled.value
    BY <1>1, <2>1 DEF SampledInv
  <2>3. Advance(Advance(tail, 1), sampled.lasts - 1)
          = Advance(tail, 1 + (sampled.lasts - 1))
    <3>1. tail \in Int /\ 1 \in Int /\ sampled.lasts - 1 \in Int
      BY <1>3, <2>1
    <3> QED
      BY <3>1, AdvanceTwice
  <2>4. sampled.slot # tail
    BY <1>1, <2>1, <2>2, AheadIsNotTail
  <2> QED
    BY <1>3, <1>6, <1>7, <2>1, <2>2, <2>3, <2>4
<1> QED
  BY <1>9, <1>10, <1>11, <1>12, <1>13 DEF IInv

----------------------------------------------------------------------------
(* Removing the first n elements: what is left is where the ring has it.     *)
LEMMA RemovePreservesLive ==
  ASSUME TypeOK, LiveInv, NEW n \in 0 .. Len(live),
         buf' = buf, tail' = tail, head' = Advance(head, n),
         live' \in Seq(Value), Len(live') = Len(live) - n,
         \A i \in 1 .. Len(live) - n : live'[i] = live[n + i]
  PROVE  LiveInv' /\ head' \in Slot
<1>1. /\ head \in Int /\ Len(live) \in Nat /\ n \in Int /\ n >= 0
      /\ n <= Len(live) /\ Len(live) <= Capacity /\ Capacity \in Nat
  BY RingTypes DEF LiveInv
<1>2. Len(live') <= Capacity
  BY <1>1
<1>3. tail' = Advance(head', Len(live'))
  <2>1. Len(live) - n \in Int /\ n + (Len(live) - n) = Len(live)
    BY <1>1
  <2>2. Advance(Advance(head, n), Len(live) - n)
          = Advance(head, n + (Len(live) - n))
    BY <1>1, <2>1, AdvanceTwice
  <2> QED
    BY <2>1, <2>2 DEF LiveInv
<1>4. ASSUME NEW i \in 1 .. Len(live')
      PROVE  buf'[Advance(head', i - 1)] = live'[i]
  <2>1. /\ i \in 1 .. Len(live) - n /\ i - 1 \in Int
        /\ n + i \in 1 .. Len(live) /\ n + (i - 1) = (n + i) - 1
    BY <1>1
  <2>2. Advance(Advance(head, n), i - 1) = Advance(head, n + (i - 1))
    BY <1>1, <2>1, AdvanceTwice
  <2>3. buf[Advance(head, (n + i) - 1)] = live[n + i]
    BY <2>1 DEF LiveInv
  <2> QED
    BY <2>1, <2>2, <2>3
<1>5. head' \in Slot
  BY <1>1, AdvanceIsSlot
<1> QED
  BY <1>2, <1>3, <1>4, <1>5 DEF LiveInv

LEMMA PopIInv ==
  ASSUME IInv, Pop
  PROVE  IInv'
<1>1. TypeOK /\ LiveInv /\ CopyInv /\ ViewInv /\ SampledInv
  BY DEF IInv
<1>2. /\ head # tail /\ head' = NextSlot(head) /\ live' = Tail(live)
      /\ buf' = buf /\ tail' = tail /\ batch' = batch /\ sampled' = sampled
      /\ taken' = taken /\ spare' = spare
  BY DEF Pop
<1>3. /\ head \in Slot /\ head \in Int /\ live \in Seq(Value)
      /\ Len(live) \in Nat /\ tail = Advance(head, Len(live))
  BY <1>1, RingTypes DEF LiveInv
<1>4. Len(live) # 0 /\ live # <<>>
  <2>1. Advance(head, 0) = head
    BY <1>3, AdvanceNothing
  <2> QED
    BY <1>2, <1>3, <2>1, EmptySeq
<1>5. /\ live' \in Seq(Value) /\ Len(live') = Len(live) - 1
      /\ \A i \in 1 .. Len(live') : live'[i] = live[i + 1]
  BY <1>2, <1>3, <1>4, HeadTailProperties
<1>6. 1 \in 0 .. Len(live)
  BY <1>3, <1>4
<1>7. \A i \in 1 .. Len(live) - 1 : live'[i] = live[1 + i]
  <2>1. ASSUME NEW i \in 1 .. Len(live) - 1 PROVE live'[i] = live[1 + i]
    <3>1. i \in 1 .. Len(live') /\ i + 1 = 1 + i
      BY <1>3, <1>5
    <3> QED
      BY <1>5, <3>1
  <2> QED
    BY <2>1
<1>8. LiveInv' /\ head' \in Slot
  BY <1>1, <1>2, <1>5, <1>6, <1>7, RemovePreservesLive DEF NextSlot
<1>9. TypeOK'
  BY <1>1, <1>2, <1>5, <1>8 DEF TypeOK
<1>10. CopyInv' /\ ViewInv' /\ SampledInv'
  BY <1>1, <1>2 DEF CopyInv, ViewInv, SampledInv
<1> QED
  BY <1>8, <1>9, <1>10 DEF IInv

LEMMA WriteSlotIInv ==
  ASSUME IInv, NEW s \in Slot, NEW v \in Value, WriteSlot(s, v)
  PROVE  IInv'
<1>1. TypeOK /\ LiveInv /\ CopyInv /\ ViewInv /\ SampledInv
  BY DEF IInv
<1>2. /\ buf' = [buf EXCEPT ![s] = v]
      /\ live' = [i \in DOMAIN live |->
                    IF Advance(head, i - 1) = s THEN v ELSE live[i]]
      /\ taken' = [i \in DOMAIN taken |->
                    IF i <= batch.n /\ batch.start + i - 1 = s THEN v
                    ELSE taken[i]]
      /\ sampled' = Index(sampled.slot,
                          IF sampled.slot = s THEN v ELSE sampled.value,
                          sampled.lasts)
      /\ head' = head /\ tail' = tail /\ batch' = batch /\ spare' = spare
  BY DEF WriteSlot
<1>3. /\ Capacity \in Nat /\ Phys = Capacity + 1 /\ buf \in [Slot -> Value]
      /\ head \in Int
      /\ live \in Seq(Value) /\ Len(live) \in Nat
      /\ taken \in Seq(Value) /\ Len(taken) \in Nat
      /\ batch.n \in 0 .. Capacity /\ batch.start \in Slot
      /\ sampled.slot \in Slot /\ sampled.value \in Value
      /\ sampled.lasts \in -1 .. Capacity
  BY <1>1, RingTypes
<1>4. /\ buf' \in [Slot -> Value] /\ buf'[s] = v
      /\ \A r \in Slot : r # s => buf'[r] = buf[r]
  BY <1>2, <1>3
<1>5. /\ live' \in Seq(Value) /\ Len(live') = Len(live)
      /\ \A i \in 1 .. Len(live) :
           live'[i] = IF Advance(head, i - 1) = s THEN v ELSE live[i]
  <2>1. DOMAIN live = 1 .. Len(live) /\ \A i \in 1 .. Len(live) : live[i] \in Value
    BY <1>3, LenProperties, ElementOfSeq
  <2>2. live' \in [1 .. Len(live) -> Value]
    BY <1>2, <2>1
  <2> QED
    BY <1>2, <1>3, <2>1, <2>2
<1>6. /\ taken' \in Seq(Value) /\ Len(taken') = Len(taken)
      /\ \A i \in 1 .. Len(taken) :
           taken'[i] = IF i <= batch.n /\ batch.start + i - 1 = s THEN v
                       ELSE taken[i]
  <2>1. DOMAIN taken = 1 .. Len(taken)
        /\ \A i \in 1 .. Len(taken) : taken[i] \in Value
    BY <1>3, LenProperties, ElementOfSeq
  <2>2. taken' \in [1 .. Len(taken) -> Value]
    BY <1>2, <2>1
  <2> QED
    BY <1>2, <1>3, <2>1, <2>2
<1>7. /\ sampled' \in [slot : Slot, value : Value, lasts : -1 .. Capacity]
      /\ sampled'.slot = sampled.slot /\ sampled'.lasts = sampled.lasts
      /\ sampled'.value = IF sampled.slot = s THEN v ELSE sampled.value
  <2> DEFINE w == IF sampled.slot = s THEN v ELSE sampled.value
  <2>1. w \in Value
    BY <1>3
  <2> HIDE DEF w
  <2>2. sampled' = Index(sampled.slot, w, sampled.lasts)
    BY <1>2 DEF w
  <2>3. /\ sampled' \in [slot : Slot, value : Value, lasts : -1 .. Capacity]
        /\ sampled'.slot = sampled.slot /\ sampled'.lasts = sampled.lasts
        /\ sampled'.value = w
    BY <1>3, <2>1, <2>2 DEF Index
  <2> QED
    BY <2>3 DEF w
<1>8. TypeOK'
  BY <1>1, <1>2, <1>4, <1>5, <1>6, <1>7 DEF TypeOK
<1>9. LiveInv'
  <2>1. ASSUME NEW i \in 1 .. Len(live)
        PROVE  buf'[Advance(head, i - 1)] = live'[i]
    <3>1. i - 1 \in Int
      BY <1>3
    <3>2. Advance(head, i - 1) \in Slot
      BY <1>3, <3>1, AdvanceIsSlot
    <3>3. buf[Advance(head, i - 1)] = live[i]
      BY <1>1 DEF LiveInv
    <3> QED
      BY <1>4, <1>5, <3>2, <3>3
  <2> QED
    BY <1>1, <1>2, <1>5, <2>1 DEF LiveInv
<1>10. CopyInv'
  <2> SUFFICES ASSUME batch.n = 0 PROVE taken' = taken
    BY <1>1, <1>2 DEF CopyInv
  <2>1. ASSUME NEW i \in 1 .. Len(taken) PROVE taken'[i] = taken[i]
    <3>1. ~(i <= batch.n)
      BY <1>3
    <3> QED
      BY <1>6, <3>1
  <2> QED
    BY <1>3, <1>6, <2>1, SeqEqual
<1>11. ViewInv'
  <2> SUFFICES ASSUME batch.n # 0
               PROVE  /\ Len(taken') = batch.n
                      /\ \A i \in 1 .. batch.n :
                           spare + i - 1 >= 0 =>
                             buf'[batch.start + i - 1] = taken'[i]
    BY <1>1, <1>2 DEF ViewInv
  <2>1. /\ Len(taken) = batch.n /\ batch.start + batch.n <= Phys
        /\ \A i \in 1 .. batch.n :
             spare + i - 1 >= 0 => buf[batch.start + i - 1] = taken[i]
    BY <1>1 DEF ViewInv
  <2>2. ASSUME NEW i \in 1 .. batch.n, spare + i - 1 >= 0
        PROVE  buf'[batch.start + i - 1] = taken'[i]
    <3>1. i <= batch.n /\ i \in 1 .. Len(taken)
      BY <1>3, <2>1
    <3>2. batch.start + i - 1 \in Slot
      <4>1. Slot = 0 .. Capacity /\ batch.start \in 0 .. Capacity
            /\ i \in Int /\ i >= 1 /\ batch.n \in Int
        BY <1>3, PhysType
      <4>2. /\ batch.start + batch.n <= Phys /\ Phys = Capacity + 1
            /\ Capacity \in Nat
        BY <1>3, <2>1
      <4>3. batch.start + i - 1 \in 0 .. Capacity
        BY <3>1, <4>1, <4>2
      <4> QED
        BY <4>1, <4>3
    <3>3. buf[batch.start + i - 1] = taken[i]
      BY <2>1, <2>2
    <3>4. taken'[i] = IF batch.start + i - 1 = s THEN v ELSE taken[i]
      BY <1>6, <3>1
    <3> QED
      BY <1>4, <3>2, <3>3, <3>4
  <2> QED
    BY <1>6, <2>1, <2>2
<1>12. SampledInv'
  BY <1>1, <1>2, <1>3, <1>4, <1>7 DEF SampledInv
<1> QED
  BY <1>8, <1>9, <1>10, <1>11, <1>12 DEF IInv

----------------------------------------------------------------------------
(* pop_view's two chunks hold the first n live elements.                     *)
LEMMA ChunksAreTaken ==
  ASSUME TypeOK, LiveInv, NEW n \in 0 .. Len(live), ~Contiguous(n)
  PROVE  FirstChunk \o SecondChunk(n) = SubSeq(live, 1, n)
<1> DEFINE first == Phys - head
           c == FirstChunk \o SecondChunk(n)
           t == SubSeq(live, 1, n)
<1>1. /\ Capacity \in Nat /\ Phys = Capacity + 1 /\ Phys \in Nat \ {0}
      /\ head \in 0 .. Capacity /\ head \in Int /\ Slot = 0 .. Capacity
      /\ buf \in [Slot -> Value]
      /\ live \in Seq(Value) /\ Len(live) \in Nat /\ Len(live) <= Capacity
      /\ n \in Nat /\ n <= Len(live) /\ n <= Capacity
  BY RingTypes DEF LiveInv
<1>2. first \in Nat \ {0} /\ n - first \in Nat \ {0} /\ head + n > Phys
      /\ first + (n - first) = n
  BY <1>1 DEF Contiguous
<1>3. FirstChunk \in Seq(Value) /\ Len(FirstChunk) = first
      /\ \A i \in 1 .. first : FirstChunk[i] = buf[head + i - 1]
  <2>1. ASSUME NEW i \in 1 .. first PROVE buf[head + i - 1] \in Value
    <3>1. head + i - 1 \in Slot
      BY <1>1
    <3> QED
      BY <1>1, <3>1
  <2>2. FirstChunk = [i \in 1 .. first |-> buf[head + i - 1]]
    BY DEF FirstChunk
  <2> HIDE DEF first
  <2>3. FirstChunk \in [1 .. first -> Value]
    BY <2>1, <2>2
  <2> QED
    BY <1>2, <2>2, <2>3
<1>4. SecondChunk(n) \in Seq(Value) /\ Len(SecondChunk(n)) = n - first
      /\ \A i \in 1 .. n - first : SecondChunk(n)[i] = buf[i - 1]
  <2>1. ASSUME NEW i \in 1 .. n - first PROVE buf[i - 1] \in Value
    <3>1. i - 1 \in Slot
      BY <1>1
    <3> QED
      BY <1>1, <3>1
  <2>2. SecondChunk(n) = [i \in 1 .. (n - first) |-> buf[i - 1]]
    BY DEF SecondChunk
  <2> HIDE DEF first
  <2>3. SecondChunk(n) \in [1 .. (n - first) -> Value]
    BY <2>1, <2>2
  <2> QED
    BY <1>2, <2>2, <2>3
<1>5. /\ c \in Seq(Value) /\ Len(c) = first + (n - first)
      /\ \A i \in 1 .. first + (n - first) :
           c[i] = IF i <= first THEN FirstChunk[i] ELSE SecondChunk(n)[i - first]
  <2> DEFINE a == FirstChunk
             b == SecondChunk(n)
  <2>1. a \in Seq(Value) /\ b \in Seq(Value)
        /\ Len(a) = first /\ Len(b) = n - first
    BY <1>3, <1>4
  <2> HIDE DEF a, b
  <2>2. /\ a \o b \in Seq(Value) /\ Len(a \o b) = Len(a) + Len(b)
        /\ \A i \in 1 .. Len(a) + Len(b) :
             (a \o b)[i] = IF i <= Len(a) THEN a[i] ELSE b[i - Len(a)]
    BY <2>1, ConcatProperties
  <2> HIDE DEF first
  <2> QED
    BY <2>1, <2>2 DEF a, b
<1>6. t \in Seq(Value) /\ Len(t) = n /\ \A i \in 1 .. n : t[i] = live[i]
  <2>1. /\ 1 \in Int /\ n \in Int /\ n - 1 + 1 = n
        /\ \A i \in 1 .. n : live[i] \in Value
    BY <1>1, ElementOfSeq
  <2>2. /\ t \in Seq(Value) /\ Len(t) = (IF 1 <= n THEN n - 1 + 1 ELSE 0)
        /\ \A i \in 1 .. n - 1 + 1 : t[i] = live[1 + i - 1]
    BY <2>1, SubSeqProperties
  <2> HIDE DEF t
  <2>3. ASSUME NEW i \in 1 .. n PROVE t[i] = live[i]
    <3>1. 1 + i - 1 = i
      OBVIOUS
    <3> QED
      BY <2>1, <2>2, <3>1
  <2> QED
    BY <1>1, <2>2, <2>3
<1> HIDE DEF c, t
<1>7. ASSUME NEW i \in 1 .. n
      PROVE  c[i] = t[i]
  <2>1. i \in Int /\ i - 1 \in Int /\ i \in 1 .. Len(live) /\ i <= n /\ i >= 1
    BY <1>1
  <2>2. buf[Advance(head, i - 1)] = live[i]
    BY <2>1 DEF LiveInv
  <2>3. Advance(head, i - 1) = (head + (i - 1)) % Phys
    BY DEF Advance
  <2>4. CASE i <= first
    <3>1. head + (i - 1) \in 0 .. (Phys - 1) /\ head + (i - 1) = head + i - 1
      BY <1>1, <2>1, <2>4
    <3>2. (head + (i - 1)) % Phys = head + (i - 1)
      BY <1>1, <3>1, ModSmall
    <3>3. i \in 1 .. first
      BY <1>2, <2>1, <2>4
    <3>4. c[i] = FirstChunk[i]
      BY <1>2, <1>5, <2>4
    <3> QED
      BY <1>3, <1>6, <2>2, <2>3, <3>1, <3>2, <3>3, <3>4
  <2>5. CASE ~(i <= first)
    <3> DEFINE r == i - first
    <3>1. /\ r \in 1 .. n - first /\ r - 1 \in 0 .. (Phys - 1)
          /\ head + (i - 1) = Phys * 1 + (r - 1) /\ 1 \in Int
          /\ head + (i - 1) \in Int
      BY <1>1, <1>2, <2>1, <2>5
    <3>2. (head + (i - 1)) % Phys = r - 1
      BY <1>1, <3>1, ModUnique
    <3>3. c[i] = SecondChunk(n)[r]
      BY <1>2, <1>5, <2>5
    <3> HIDE DEF r
    <3> QED
      BY <1>4, <1>6, <2>2, <2>3, <3>1, <3>2, <3>3
  <2> QED
    BY <2>4, <2>5
<1>8. Len(c) = n
  BY <1>2, <1>5
<1>9. c = t
  BY <1>5, <1>6, <1>7, <1>8, SeqEqual
<1> QED
  BY <1>9 DEF c, t

LEMMA PopViewIInv ==
  ASSUME IInv, NEW n \in 0 .. Phys, PopView(n)
  PROVE  IInv'
<1>1. TypeOK /\ LiveInv /\ CopyInv /\ ViewInv /\ SampledInv
  BY DEF IInv
<1>2. /\ n <= Size
      /\ batch' = (IF Contiguous(n) THEN View(head, n)
                   ELSE Copy(FirstChunk \o SecondChunk(n)))
      /\ head' = Advance(head, n)
      /\ taken' = SubSeq(live, 1, n)
      /\ live' = SubSeq(live, n + 1, Len(live))
      /\ spare' = Phys - Size
      /\ buf' = buf /\ tail' = tail /\ sampled' = sampled
  BY DEF PopView, HeadAfter
<1>3. Size = Len(live)
  BY <1>1, SizeIsLen
<1>4. /\ Capacity \in Nat /\ Phys = Capacity + 1 /\ Phys \in Nat \ {0}
      /\ head \in 0 .. Capacity /\ head \in Int /\ Slot = 0 .. Capacity
      /\ head \in Slot /\ tail \in Slot /\ tail \in Int /\ 0 \in Slot
      /\ buf \in [Slot -> Value]
      /\ live \in Seq(Value) /\ Len(live) \in Nat /\ Len(live) <= Capacity
      /\ n \in 0 .. Len(live) /\ n \in Nat /\ n <= Len(live)
  BY <1>1, <1>2, <1>3, RingTypes DEF LiveInv
<1>5. \A i \in 1 .. Len(live) : live[i] \in Value
  BY <1>4, ElementOfSeq
<1>6. /\ taken' \in Seq(Value) /\ Len(taken') = n
      /\ \A i \in 1 .. n : taken'[i] = live[i]
  <2>1. /\ 1 \in Int /\ n \in Int /\ \A i \in 1 .. n : live[i] \in Value
    BY <1>4, <1>5
  <2>2. /\ SubSeq(live, 1, n) \in Seq(Value)
        /\ Len(SubSeq(live, 1, n)) = (IF 1 <= n THEN n - 1 + 1 ELSE 0)
        /\ \A i \in 1 .. n - 1 + 1 : SubSeq(live, 1, n)[i] = live[1 + i - 1]
    BY <2>1, SubSeqProperties
  <2>3. ASSUME NEW i \in 1 .. n PROVE taken'[i] = live[i]
    <3>1. 1 + i - 1 = i /\ i \in 1 .. n - 1 + 1
      BY <1>4
    <3> QED
      BY <1>2, <2>2, <3>1
  <2>4. (IF 1 <= n THEN n - 1 + 1 ELSE 0) = n
    BY <1>4
  <2> QED
    BY <1>2, <2>2, <2>3, <2>4
<1>7. /\ live' \in Seq(Value) /\ Len(live') = Len(live) - n
      /\ \A i \in 1 .. Len(live) - n : live'[i] = live[n + i]
  <2> DEFINE m == n + 1
             l == Len(live)
             u == SubSeq(live, m, l)
  <2>1. /\ m \in Int /\ l \in Int /\ \A i \in m .. l : live[i] \in Value
        /\ l - m + 1 = Len(live) - n
        /\ (IF m <= l THEN l - m + 1 ELSE 0) = Len(live) - n
    BY <1>4, <1>5
  <2>2. live' = u
    BY <1>2
  <2> HIDE DEF m, l
  <2>3. /\ u \in Seq(Value) /\ Len(u) = (IF m <= l THEN l - m + 1 ELSE 0)
        /\ \A i \in 1 .. l - m + 1 : u[i] = live[m + i - 1]
    BY <2>1, SubSeqProperties
  <2> HIDE DEF u
  <2>4. ASSUME NEW i \in 1 .. Len(live) - n PROVE live'[i] = live[n + i]
    <3>1. m + i - 1 = n + i
      BY <1>4 DEF m
    <3> QED
      BY <2>1, <2>2, <2>3, <3>1
  <2> QED
    BY <2>1, <2>2, <2>3, <2>4
<1>8. LiveInv' /\ head' \in Slot
  BY <1>1, <1>2, <1>4, <1>7, RemovePreservesLive
<1>9. spare' = Phys - Len(live) /\ spare' \in Int /\ spare' >= 1
      /\ spare' \in -Capacity .. Phys
  BY <1>2, <1>3, <1>4
<1>10. CASE Contiguous(n)
  <2>1. batch' = View(head, n)
    BY <1>2, <1>10
  <2>2. batch'.start = head /\ batch'.n = n /\ batch'.copy = <<>>
    BY <2>1 DEF View
  <2>3. TypeOK'
    <3>1. <<>> \in Seq(Value) /\ n \in 0 .. Capacity
      BY <1>4, EmptySeq
    <3> QED
      BY <1>1, <1>2, <1>4, <1>6, <1>7, <1>8, <1>9, <2>2, <3>1 DEF TypeOK
  <2>4. CopyInv'
    <3> SUFFICES ASSUME n = 0 PROVE taken' = <<>>
      BY <2>2 DEF CopyInv
    <3> QED
      BY <1>6, EmptySeq
  <2>5. ViewInv'
    <3>1. head + n <= Phys
      BY <1>10 DEF Contiguous
    <3>2. spare' + n <= Phys
      BY <1>4, <1>9
    <3>3. Advance(tail, spare') = head
      <4>1. tail = Advance(head, Len(live))
        BY <1>1 DEF LiveInv
      <4>2. Phys - Len(live) \in Int /\ Len(live) \in Int
            /\ Len(live) + (Phys - Len(live)) = Phys
        BY <1>4
      <4>3. Advance(Advance(head, Len(live)), Phys - Len(live))
              = Advance(head, Len(live) + (Phys - Len(live)))
        BY <1>4, <4>2, AdvanceTwice
      <4>4. (head + Phys) % Phys = head % Phys
        BY <1>4, ModPeriod
      <4>5. head \in 0 .. (Phys - 1)
        BY <1>4
      <4>6. head % Phys = head
        BY <1>4, <4>5, ModSmall
      <4>7. Advance(head, Phys) = head
        BY <4>4, <4>6 DEF Advance
      <4> QED
        BY <1>9, <4>1, <4>2, <4>3, <4>7
    <3>4. ASSUME NEW i \in 1 .. n
          PROVE  buf'[head + i - 1] = taken'[i]
      <4>1. /\ i \in 1 .. Len(live) /\ head + (i - 1) \in 0 .. (Phys - 1)
            /\ head + (i - 1) = head + i - 1
        BY <1>4, <3>1
      <4>2. buf[Advance(head, i - 1)] = live[i]
        BY <1>1, <4>1 DEF LiveInv
      <4>3. (head + (i - 1)) % Phys = head + (i - 1)
        BY <1>4, <4>1, ModSmall
      <4>4. Advance(head, i - 1) = head + i - 1
        BY <4>1, <4>3 DEF Advance
      <4> QED
        BY <1>2, <1>6, <4>2, <4>4
    <3>5. tail' = tail /\ Len(taken') = n
      BY <1>2, <1>6
    <3> QED
      BY <2>2, <3>1, <3>2, <3>3, <3>4, <3>5 DEF ViewInv
  <2>6. SampledInv'
    BY <1>1, <1>2 DEF SampledInv
  <2> QED
    BY <1>8, <2>3, <2>4, <2>5, <2>6 DEF IInv
<1>11. CASE ~Contiguous(n)
  <2>1. batch' = Copy(taken')
    BY <1>1, <1>2, <1>4, <1>11, ChunksAreTaken
  <2>2. batch'.start = 0 /\ batch'.n = 0 /\ batch'.copy = taken'
    BY <2>1 DEF Copy
  <2>3. TypeOK'
    <3>1. 0 \in 0 .. Capacity
      BY <1>4
    <3> QED
      BY <1>1, <1>2, <1>4, <1>6, <1>7, <1>8, <1>9, <2>2, <3>1 DEF TypeOK
  <2>4. CopyInv' /\ ViewInv'
    BY <2>2 DEF CopyInv, ViewInv
  <2>5. SampledInv'
    BY <1>1, <1>2 DEF SampledInv
  <2> QED
    BY <1>8, <2>3, <2>4, <2>5 DEF IInv
<1> QED
  BY <1>10, <1>11

LEMMA SampleIndicesIInv ==
  ASSUME IInv, NEW offset \in 0 .. Capacity, SampleIndices(offset)
  PROVE  IInv'
<1>1. TypeOK /\ LiveInv /\ CopyInv /\ ViewInv /\ SampledInv
  BY DEF IInv
<1>2. /\ offset \in 0 .. (Size - 1)
      /\ sampled' = Index(Advance(head, offset), live[offset + 1],
                          Phys - Size + offset)
      /\ buf' = buf /\ head' = head /\ tail' = tail /\ batch' = batch
      /\ live' = live /\ taken' = taken /\ spare' = spare
  BY DEF SampleIndices, SampledIndex
<1>3. Size = Len(live)
  BY <1>1, SizeIsLen
<1>4. /\ Capacity \in Nat /\ Phys = Capacity + 1 /\ Phys \in Nat \ {0}
      /\ head \in Int /\ live \in Seq(Value)
      /\ Len(live) \in Nat /\ Len(live) <= Capacity
      /\ tail = Advance(head, Len(live))
  BY <1>1, RingTypes DEF LiveInv
<1> DEFINE lasts == Phys - Len(live) + offset
<1>5. /\ offset \in Int /\ offset + 1 \in 1 .. Len(live)
      /\ (offset + 1) - 1 = offset
      /\ lasts \in 0 .. Capacity /\ lasts \in Int
      /\ Len(live) + lasts = Phys + offset /\ Len(live) \in Int
  BY <1>2, <1>3, <1>4
<1> HIDE DEF lasts
<1>6. /\ live[offset + 1] \in Value /\ Advance(head, offset) \in Slot
      /\ buf[Advance(head, offset)] = live[offset + 1]
  <2>1. live[offset + 1] \in Value
    BY <1>4, <1>5, ElementOfSeq
  <2>2. Advance(head, offset) \in Slot
    BY <1>4, <1>5, AdvanceIsSlot
  <2>3. buf[Advance(head, (offset + 1) - 1)] = live[offset + 1]
    BY <1>1, <1>5 DEF LiveInv
  <2> QED
    BY <1>5, <2>1, <2>2, <2>3
<1>7. sampled' = Index(Advance(head, offset), live[offset + 1], lasts)
  BY <1>2, <1>3 DEF lasts
<1>8. /\ sampled' \in [slot : Slot, value : Value, lasts : -1 .. Capacity]
      /\ sampled'.slot = Advance(head, offset)
      /\ sampled'.value = live[offset + 1] /\ sampled'.lasts = lasts
  <2>1. lasts \in -1 .. Capacity
    BY <1>5
  <2> QED
    BY <1>6, <1>7, <2>1 DEF Index
<1>9. Advance(tail, lasts) = Advance(head, offset)
  <2>1. Advance(Advance(head, Len(live)), lasts) = Advance(head, Len(live) + lasts)
    BY <1>4, <1>5, AdvanceTwice
  <2>2. head + offset \in Int /\ head + (Phys + offset) = (head + offset) + Phys
    BY <1>4, <1>5
  <2>3. ((head + offset) + Phys) % Phys = (head + offset) % Phys
    BY <1>4, <2>2, ModPeriod
  <2>4. Advance(head, Phys + offset) = Advance(head, offset)
    BY <2>2, <2>3 DEF Advance
  <2> QED
    BY <1>4, <1>5, <2>1, <2>4
<1>10. TypeOK'
  BY <1>1, <1>2, <1>8 DEF TypeOK
<1>11. LiveInv' /\ CopyInv' /\ ViewInv'
  BY <1>1, <1>2 DEF LiveInv, CopyInv, ViewInv
<1>12. SampledInv'
  BY <1>2, <1>6, <1>8, <1>9 DEF SampledInv
<1> QED
  BY <1>10, <1>11, <1>12 DEF IInv

----------------------------------------------------------------------------
(* The strengthening every theorem below rests on. *)
THEOREM Invariance == Spec => []IInv
<1>1. IInv /\ [Next]_vars => IInv'
  <2> SUFFICES ASSUME IInv, [Next]_vars PROVE IInv'
    OBVIOUS
  <2>1. ASSUME NEW v \in Value, Push(v) PROVE IInv'
    BY <2>1, PushIInv
  <2>2. CASE Pop
    BY <2>2, PopIInv
  <2>3. ASSUME NEW s \in Slot, NEW v \in Value, WriteSlot(s, v) PROVE IInv'
    BY <2>3, WriteSlotIInv
  <2>4. ASSUME NEW n \in 0 .. Phys, PopView(n) PROVE IInv'
    BY <2>4, PopViewIInv
  <2>5. ASSUME NEW offset \in 0 .. Capacity, SampleIndices(offset) PROVE IInv'
    BY <2>5, SampleIndicesIInv
  <2>6. CASE UNCHANGED vars
    BY <2>6 DEF vars, IInv, TypeOK, LiveInv, CopyInv, ViewInv, SampledInv
  <2> QED
    BY <2>1, <2>2, <2>3, <2>4, <2>5, <2>6 DEF Next
<1> QED
  BY InitIInv, <1>1, PTL DEF Spec

(* Every index stays within buf_, every kept index and view too.             *)
THEOREM TypeCorrect == Spec => []TypeOK
<1>1. IInv => TypeOK
  BY DEF IInv
<1> QED
  BY Invariance, <1>1, PTL

(* size() counts the live elements, though its subtraction passes below zero *)
(* in size_t's arithmetic, and the slots from head_ on hold them in order.   *)
THEOREM RingHolds == Spec => []RingHoldsLive
<1>1. IInv => RingHoldsLive
  <2> SUFFICES ASSUME IInv PROVE RingHoldsLive
    OBVIOUS
  <2>1. TypeOK /\ LiveInv /\ DOMAIN live = 1 .. Len(live)
    BY RingTypes, LenProperties DEF IInv
  <2> QED
    BY <2>1, SizeIsLen DEF RingHoldsLive, LiveInv
<1> QED
  BY Invariance, <1>1, PTL

(* pop_view's array, copy or view, keeps each element it removed until the   *)
(* pushes made since come round to its slot.                                 *)
THEOREM BatchKeeps == Spec => []BatchKeepsTaken
<1>1. IInv => BatchKeepsTaken
  <2> SUFFICES ASSUME IInv PROVE BatchKeepsTaken
    OBVIOUS
  <2>1. /\ CopyInv /\ ViewInv /\ taken \in Seq(Value) /\ Len(taken) \in Nat
        /\ DOMAIN taken = 1 .. Len(taken)
        /\ batch.n \in 0 .. Capacity /\ batch.start \in Slot
        /\ Capacity \in Nat /\ Phys = Capacity + 1 /\ Slot = 0 .. Capacity
    BY RingTypes, LenProperties DEF IInv
  <2>2. CASE batch.n = 0
    <3>1. batch.copy = taken
      BY <2>1, <2>2 DEF CopyInv
    <3> QED
      BY <2>1, <2>2, <3>1 DEF BatchKeepsTaken, BatchElement
  <2>3. CASE batch.n # 0
    <3>1. /\ Len(taken) = batch.n /\ batch.copy = <<>> /\ Len(batch.copy) = 0
          /\ batch.start + batch.n <= Phys
          /\ \A i \in 1 .. batch.n :
               spare + i - 1 >= 0 => buf[batch.start + i - 1] = taken[i]
      BY <2>1, <2>3, EmptySeq DEF ViewInv
    <3>2. ASSUME NEW i \in 1 .. batch.n, spare + i - 1 >= 0
          PROVE  BatchElement(i) = {taken[i]}
      <4>1. batch.start + i - 1 \in Slot
        <5>1. batch.start \in Int /\ batch.n \in Int /\ batch.start >= 0
          BY <2>1
        <5>2. batch.start + batch.n <= Phys
          BY <3>1
        <5> QED
          BY <2>1, <5>1, <5>2
      <4>2. buf[batch.start + i - 1] = taken[i]
        BY <3>1, <3>2
      <4> QED
        BY <2>3, <4>1, <4>2 DEF BatchElement, Memory
    <3>3. Len(taken) = batch.n + Len(batch.copy)
      BY <2>1, <3>1
    <3> QED
      BY <2>1, <2>3, <3>1, <3>2, <3>3 DEF BatchKeepsTaken
  <2> QED
    BY <2>2, <2>3
<1> QED
  BY Invariance, <1>1, PTL

(* An index of sample_indices names its element for the pushes it counts.    *)
THEOREM SampledLasts == Spec => []SampledIndexLasts
<1>1. IInv => SampledIndexLasts
  BY DEF IInv, SampledInv, SampledIndexLasts, Gathered
<1> QED
  BY Invariance, <1>1, PTL
=============================================================================

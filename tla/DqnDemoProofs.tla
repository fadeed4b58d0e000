---------------------------- MODULE DqnDemoProofs ----------------------------
(***************************************************************************)
(* Proofs about the demo: its inductive invariant, and from it that the two *)
(* agents train on the same transitions, that no training fails on an empty *)
(* buffer, and what the line "C++ ring" reports.                           *)
(***************************************************************************)
EXTENDS DqnDemo, ReplayProofs, FiniteSetTheorems

LEMMA DemoConstants ==
  /\ TrainFreq \in Nat \ {0} /\ LearningStarts \in Nat /\ ~OptimizeMemory
  /\ MaxTimesteps \in Nat \ {0} /\ MaxAdd \in Nat
  /\ Capacity \in Nat \ {0} /\ Phys \in Nat \ {0} /\ Phys = Capacity + 1
BY DemoAssumption, AddAssumption, CapacityAssumption, BufferAssumption, PhysType

----------------------------------------------------------------------------
(* Arithmetic of whole rollouts of N steps.                                  *)

LEMMA MulSign ==
  ASSUME NEW N \in Nat \ {0}, NEW q \in Int
  PROVE  /\ q >= 1 => N * q >= N
         /\ q <= 0 => N * q <= 0
         /\ q <= -1 => N * q <= 0 - N
OBVIOUS

LEMMA DivMultiple ==
  ASSUME NEW N \in Nat \ {0}, NEW q \in Int
  PROVE  (N * q) \div N = q
<1> DEFINE p == (N * q) \div N
           m == (N * q) % N
<1>1. p \in Int /\ m \in 0 .. (N - 1) /\ N * q = N * p + m
  <2>1. N * q \in Int
    OBVIOUS
  <2> QED
    BY <2>1, DivMod
<1> HIDE DEF p, m
<1>2. N * (q - p) = N * q - N * p
  BY <1>1
<1>3. q - p = 0
  BY <1>1, <1>2, MulBound
<1> QED
  BY <1>1, <1>3 DEF p

(* r whole rollouts are more than t steps as soon as r exceeds the whole     *)
(* rollouts in t.                                                            *)
LEMMA RolloutsExceed ==
  ASSUME NEW N \in Nat \ {0}, NEW t \in Int, NEW r \in Int
  PROVE  N * r > t <=> r > t \div N
<1> DEFINE w == t \div N
           m == t % N
<1>1. w \in Int /\ m \in 0 .. (N - 1) /\ t = N * w + m
  BY DivMod
<1> HIDE DEF w, m
<1>2. N * (r - w) = N * r - N * w /\ r - w \in Int
  BY <1>1
<1>3. CASE r - w >= 1
  BY <1>1, <1>2, <1>3, MulSign DEF w
<1>4. CASE r - w <= 0
  BY <1>1, <1>2, <1>4, MulSign DEF w
<1> QED
  BY <1>1, <1>3, <1>4

(* Rounding t up to whole rollouts.                                          *)
LEMMA RoundUp ==
  ASSUME NEW N \in Nat \ {0}, NEW t \in Int, NEW r \in Int, N * r - N < t
  PROVE  /\ r <= (t + N - 1) \div N
         /\ N * r >= t => r = (t + N - 1) \div N
         /\ (t + N - 1) \div N \in Int
<1> DEFINE q == (t + N - 1) \div N
           m == (t + N - 1) % N
<1>1. q \in Int /\ m \in 0 .. (N - 1) /\ t + N - 1 = N * q + m
  <2>1. t + N - 1 \in Int
    OBVIOUS
  <2> QED
    BY <2>1, DivMod
<1> HIDE DEF q, m
<1>2. N * (r - q) = N * r - N * q /\ r - q \in Int
  BY <1>1
<1>3. r - q <= 0
  BY <1>1, <1>2, MulSign
<1>4. ASSUME N * r >= t PROVE r - q >= 0
  BY <1>1, <1>2, <1>4, MulSign
<1> QED
  BY <1>1, <1>3, <1>4 DEF q

----------------------------------------------------------------------------
(* How many indices of f have each of its values.                            *)
OddsOf(f) ==
  [t \in {f[i] : i \in DOMAIN f} |-> Cardinality({i \in DOMAIN f : f[i] = t})]

\* The transitions e, ..., n - 1, with one index each, and the residues of
\* their numbers.
OnceEach(e, n) == [t \in {Transition(k) : k \in e .. (n - 1)} |-> 1]
Residues(M, e, n) == {k % M : k \in e .. (n - 1)}

(* A function whose values are the transitions e, ..., n - 1, each at the    *)
(* residue of its number, gives each one index.                              *)
LEMMA EachOnce ==
  ASSUME NEW M \in Nat \ {0}, NEW e \in Int, NEW n \in Int, n - e <= M, NEW f,
         DOMAIN f = Residues(M, e, n),
         \A k \in e .. (n - 1) : f[k % M] = Transition(k)
  PROVE  OddsOf(f) = OnceEach(e, n)
<1> USE DEF Residues
<1>1. {f[i] : i \in DOMAIN f} = {Transition(k) : k \in e .. (n - 1)}
  OBVIOUS
<1>2. ASSUME NEW k \in e .. (n - 1)
      PROVE  Cardinality({i \in DOMAIN f : f[i] = Transition(k)}) = 1
  <2>1. ASSUME NEW j \in e .. (n - 1), f[j % M] = Transition(k)
        PROVE  j = k
    <3>1. Transition(j) = Transition(k)
      BY <2>1
    <3> QED
      BY <3>1 DEF Transition
  <2>2. {i \in DOMAIN f : f[i] = Transition(k)} = {k % M}
    BY <2>1
  <2> QED
    BY <2>2, FS_Singleton
<1>3. \A t \in {Transition(k) : k \in e .. (n - 1)} :
        Cardinality({i \in DOMAIN f : f[i] = t}) = 1
  BY <1>2
<1> QED
  BY <1>1, <1>3 DEF OddsOf, OnceEach

(* After t steps of an agent, whichever buffer it has, each of the newest    *)
(* transitions has one index.                                                *)
LEMMA OddsAreNewest ==
  ASSUME DemoTypeOK, BufferInv, pc = "idle"
  PROVE  Odds = NewestOdds(since) /\ (since > 0 => DOMAIN Draws # {})
<1>1. /\ TypeOK /\ PosInv /\ since = added
      /\ \A k \in Evicted .. (since - 1) : StoredWhole(k)
      /\ agent = "FastReplayBuffer" => RingInv
  BY DEF BufferInv, DataInv
<1>2. /\ Pushed = since /\ since \in Nat /\ Capacity \in Nat \ {0}
      /\ Evicted = IF since > Capacity THEN since - Capacity ELSE 0
      /\ Evicted \in Nat
  BY <1>1, IdleCounts
<1>3. since - Evicted <= Capacity /\ since - Evicted <= Phys
      /\ (since > 0 => since - 1 \in Evicted .. (since - 1))
  BY <1>2, DemoConstants
<1>4. NewestOdds(since) = OnceEach(Evicted, since) /\ Odds = OddsOf(Draws)
  BY <1>2 DEF NewestOdds, OnceEach, Odds, OddsOf
<1>5. ASSUME NEW k \in Evicted .. (since - 1)
      PROVE  SampleAt(k % Capacity) = Transition(k)
  <2>1. k \in Int /\ added - since + k = k
    BY <1>1, <1>2
  <2>2. StoredWhole(k)
    BY <1>1
  <2> QED
    BY <2>1, <2>2, DemoConstants DEF StoredWhole, SampleAt, Transition
<1>6. CASE agent = "FastReplayBuffer"
  <2>1. RingInv /\ Draws = [s \in SampledSlots |-> SampleAt(ringBuf[s])]
    BY <1>1, <1>6 DEF Draws
  <2>2. RingSize = since - Evicted /\ head = Evicted % Phys
    BY <1>1, <1>2, <2>1, RingSizeCounts DEF RingInv
  <2>3. ASSUME NEW i \in 0 .. (RingSize - 1)
        PROVE  Advance(head, i) = (Evicted + i) % Phys
               /\ Evicted + i \in Evicted .. (since - 1)
    <3>1. i \in Int /\ Evicted \in Int /\ Evicted + i \in Evicted .. (since - 1)
      BY <1>2, <2>2
    <3>2. Advance(Evicted % Phys, i) = (Evicted + i) % Phys
      BY <3>1, AdvanceCounts
    <3> QED
      BY <2>2, <3>1, <3>2
  <2>4. SampledSlots = {k % Phys : k \in Evicted .. (since - 1)}
    <3>1. ASSUME NEW k \in Evicted .. (since - 1)
          PROVE  k - Evicted \in 0 .. (RingSize - 1)
                 /\ Evicted + (k - Evicted) = k
      BY <1>2, <2>2
    <3>2. ASSUME NEW k \in Evicted .. (since - 1)
          PROVE  k % Phys \in SampledSlots
      <4>1. Advance(head, k - Evicted) = k % Phys
        BY <2>3, <3>1
      <4> QED
        BY <3>1, <4>1 DEF SampledSlots
    <3> QED
      BY <2>3, <3>2 DEF SampledSlots
  <2>5. ASSUME NEW k \in Evicted .. (since - 1)
        PROVE  Draws[k % Phys] = Transition(k)
    <3>1. k \in Evicted .. (Pushed - 1)
      BY <1>2
    <3>2. ringBuf[k % Phys] = k % Capacity
      BY <2>1, <3>1 DEF RingInv
    <3> QED
      BY <1>5, <2>1, <2>4, <3>2
  <2>6. DOMAIN Draws = Residues(Phys, Evicted, since)
    BY <2>1, <2>4 DEF Residues
  <2>7. Odds = NewestOdds(since)
    <3>1. Phys \in Nat \ {0} /\ Evicted \in Int /\ since \in Int
      BY <1>2, DemoConstants
    <3> HIDE DEF Draws
    <3> QED
      BY <1>3, <1>4, <2>5, <2>6, <3>1, EachOnce
  <2> QED
    BY <1>3, <2>6, <2>7 DEF Residues
<1>7. CASE agent # "FastReplayBuffer"
  <2>1. LivePositions = (IF full THEN Position ELSE 0 .. (pos - 1))
    BY <1>1, LivePositionsWritten
  <2>2. Draws = [i \in LivePositions |-> SampleAt(i)]
    BY <1>7, <2>1 DEF Draws
  <2>3. DOMAIN Draws = Residues(Capacity, Evicted, since)
    BY <2>2 DEF LivePositions, Residues
  <2>4. ASSUME NEW k \in Evicted .. (since - 1)
        PROVE  Draws[k % Capacity] = Transition(k)
    BY <1>5, <2>2 DEF LivePositions
  <2>5. Odds = NewestOdds(since)
    <3>1. Capacity \in Nat \ {0} /\ Evicted \in Int /\ since \in Int
      BY <1>2
    <3> HIDE DEF Draws
    <3> QED
      BY <1>3, <1>4, <2>3, <2>4, <3>1, EachOnce
  <2> QED
    BY <1>3, <2>3, <2>5 DEF Residues
<1> QED
  BY <1>6, <1>7
----------------------------------------------------------------------------
(* What each step does to the buffer of the agent being trained.             *)

LEMMA BufferIsIInv ==
  ASSUME BufferInv
  PROVE  /\ TypeOK /\ PosInv /\ DataInv /\ since = added
         /\ agent = "FastReplayBuffer" => IInv
BY DEF BufferInv, IInv

LEMMA BufferStays ==
  ASSUME BufferInv, UNCHANGED vars,
         agent' = agent \/ (agent' = "ReplayBuffer" /\ pc = "idle")
  PROVE  BufferInv' /\ Begun' = Begun
<1>1. /\ ringBuf' = ringBuf /\ head' = head /\ tail' = tail
      /\ pos' = pos /\ full' = full /\ obs' = obs /\ nextObs' = nextObs
      /\ actions' = actions /\ pc' = pc /\ added' = added /\ since' = since
  BY DEF vars, ring, storage
<1>2. Begun' = Begun /\ Pushed' = Pushed /\ Evicted' = Evicted
  BY <1>1 DEF Begun, Pushed, Evicted
<1>3. TypeOK' /\ PosInv'
  BY <1>1 DEF BufferInv, TypeOK, PosInv
<1>4. RingInv => RingInv'
  BY <1>1, <1>2 DEF RingInv
<1>5. DataInv'
  BY <1>1, <1>2 DEF BufferInv, DataInv, StoredWhole
<1> QED
  BY <1>1, <1>2, <1>3, <1>4, <1>5 DEF BufferInv

LEMMA BufferIsNew ==
  ASSUME NewBuffer
  PROVE  BufferInv' /\ Begun' = 0 /\ pc' = "idle"
<1>1. Init'
  BY DEF NewBuffer, Init
<1>2. (Init => IInv)'
  BY InitIInv, PTL
<1>3. IInv'
  BY <1>1, <1>2
<1>4. DataInv'
  BY <1>3, DemoConstants DEF IInv
<1>5. pc' = "idle" /\ since' = 0 /\ added' = 0
  BY DEF NewBuffer
<1> QED
  BY <1>3, <1>4, <1>5 DEF BufferInv, IInv, Begun

(* The steps of add() that both buffers have, and the push of the ring.      *)
LEMMA BufferAdds ==
  ASSUME BufferInv, PushIndex \/ StoreObs \/ StoreRest \/ AdvancePos,
         agent' = agent, agent \in Agents
  PROVE  BufferInv' /\ Begun' = Begun
<1>1. /\ TypeOK /\ PosInv /\ DataInv /\ since = added
      /\ agent = "FastReplayBuffer" => IInv
  BY BufferIsIInv
<1>2. since \in Nat /\ added \in Nat /\ ~OptimizeMemory
  BY <1>1, ReplayCounts, DemoConstants
<1>3. CASE PushIndex
  <2>1. agent = "FastReplayBuffer"
    <3>1. agent # "ReplayBuffer" /\ agent \in Agents
      BY <1>3 DEF BufferInv, PushIndex
    <3> QED
      BY <3>1 DEF Agents
  <2>2. IInv' /\ DataInv' /\ since' = added' /\ pc' = "store" /\ Begun' = Begun
    BY <1>1, <1>3, <2>1, PushIndexIInv, PushIndexStored DEF PushIndex, Begun
  <2> QED
    BY <2>2 DEF BufferInv, IInv
<1>4. CASE StoreObs
  <2>1. /\ TypeOK' /\ PosInv' /\ DataInv'
        /\ agent = "FastReplayBuffer" => IInv'
    BY <1>1, <1>4, StoreObsIInv, StoreObsStored
  <2>2. since' = added' /\ pc' = "store_rest" /\ Begun' = Begun
    BY <1>1, <1>4 DEF StoreObs, Begun
  <2> QED
    BY <2>1, <2>2 DEF BufferInv, IInv
<1>5. CASE StoreRest
  <2>1. /\ TypeOK' /\ PosInv' /\ DataInv'
        /\ agent = "FastReplayBuffer" => IInv'
    BY <1>1, <1>2, <1>5, StoreRestIInv, StoreRestStored
  <2>2. since' = added' /\ pc' = "advance" /\ Begun' = Begun
    BY <1>1, <1>5 DEF StoreRest, Begun
  <2> QED
    BY <2>1, <2>2 DEF BufferInv, IInv
<1>6. CASE AdvancePos
  <2>1. /\ TypeOK' /\ PosInv' /\ DataInv'
        /\ agent = "FastReplayBuffer" => IInv'
    BY <1>1, <1>6, AdvancePosIInv, AdvancePosStored
  <2>2. since' = added' /\ pc' = "idle" /\ Begun' = Begun
    BY <1>1, <1>2, <1>6 DEF AdvancePos, Begun
  <2> QED
    BY <2>1, <2>2 DEF BufferInv, IInv
<1> QED
  BY <1>3, <1>4, <1>5, <1>6

(* The call of add(): the eviction, or the same without a ring.              *)
LEMMA BufferBegins ==
  ASSUME BufferInv, agent' = agent, agent \in Agents,
         IF agent = "FastReplayBuffer" THEN Evict ELSE AddWithoutRing
  PROVE  /\ BufferInv' /\ Begun' = Begun + 1 /\ Begun + 1 <= MaxAdd
         /\ pc = "idle" /\ pc' # "idle" /\ Begun \in Nat
<1>1. /\ TypeOK /\ PosInv /\ DataInv /\ since = added
      /\ agent = "FastReplayBuffer" => IInv
  BY BufferIsIInv
<1>2. since \in Nat /\ added \in Nat /\ ~OptimizeMemory /\ MaxAdd \in Nat
  BY <1>1, ReplayCounts, DemoConstants
<1>3. CASE agent = "FastReplayBuffer"
  <2>1. Evict /\ IInv'
    BY <1>1, <1>3, EvictIInv
  <2>2. /\ pc = "idle" /\ pc' = "push" /\ added < MaxAdd
        /\ since' = since /\ added' = added
    BY <2>1 DEF Evict
  <2>3. DataInv'
    BY <1>2, <2>1 DEF IInv
  <2>4. Begun = since /\ Begun' = since + 1
    BY <2>2 DEF Begun
  <2> QED
    BY <1>1, <1>2, <1>3, <2>1, <2>2, <2>3, <2>4 DEF BufferInv, IInv
<1>4. CASE agent # "FastReplayBuffer"
  <2>1. /\ pc = "idle" /\ pc' = "store" /\ added < MaxAdd
        /\ ringBuf' = ringBuf /\ head' = head /\ tail' = tail
        /\ pos' = pos /\ full' = full /\ obs' = obs /\ nextObs' = nextObs
        /\ actions' = actions /\ added' = added /\ since' = since
    BY <1>4 DEF AddWithoutRing, ring, storage
  <2>2. TypeOK'
    BY <1>1, <2>1 DEF TypeOK
  <2>3. PosInv' /\ DataInv'
    <3>1. \A k \in Evicted .. (since - 1) : StoredWhole(k)
      BY <1>1 DEF DataInv
    <3> QED
      BY <1>1, <2>1, <3>1, BeginStored
  <2>4. Begun = since /\ Begun' = since + 1
    BY <2>1 DEF Begun
  <2> QED
    BY <1>1, <1>2, <1>4, <2>1, <2>2, <2>3, <2>4 DEF BufferInv
<1> QED
  BY <1>3, <1>4
----------------------------------------------------------------------------
(* The steps, counted in rollouts.                                           *)

LEMMA DivNat ==
  ASSUME NEW N \in Nat \ {0}, NEW t \in Nat
  PROVE  t \div N \in Nat
<1> DEFINE w == t \div N
           m == t % N
<1>1. w \in Int /\ m \in 0 .. (N - 1) /\ t = N * w + m
  BY DivMod
<1> HIDE DEF w, m
<1>2. w \in Nat
  BY <1>1, MulSign
<1> QED
  BY <1>2 DEF w

LEMMA DemoCounts ==
  ASSUME DemoTypeOK, BufferInv, StepsInv
  PROVE  /\ total \in Nat \ {0} /\ collected \in 0 .. TrainFreq
         /\ timesteps \in Nat /\ timesteps = Begun /\ Begun <= MaxAdd
         /\ pc = "idle" => timesteps = since
         /\ Rollouts \in Nat /\ RolloutsNeeded \in Nat /\ Warmup \in Nat
         /\ timesteps - collected = TrainFreq * Rollouts
         /\ Rollouts <= RolloutsNeeded
         /\ timesteps - collected >= total => Rollouts = RolloutsNeeded
<1>1. /\ TypeOK /\ total \in Nat \ {0} /\ collected \in 0 .. TrainFreq
      /\ timesteps \in Nat /\ timesteps = Begun
  BY DemoConstants DEF DemoTypeOK, StepsInv
<1>2. TrainFreq \in Nat \ {0} /\ LearningStarts \in Nat /\ MaxAdd \in Nat
  BY DemoConstants
<1>3. since = added /\ since \in Nat /\ added <= MaxAdd
      /\ (pc # "idle" => added < MaxAdd)
  BY <1>1, ReplayCounts DEF BufferInv, PosInv
<1>4. Begun <= MaxAdd /\ (pc = "idle" => timesteps = since)
  BY <1>1, <1>2, <1>3 DEF Begun
<1> DEFINE d == timesteps - collected
<1>5. d \in Int /\ d = TrainFreq * Rollouts /\ d - TrainFreq < total
  BY <1>1, <1>2 DEF StepsInv
<1>6. Rollouts \in Int /\ Warmup \in Int
  BY <1>1, <1>2, <1>5, DivMod DEF Rollouts, Warmup
<1>7. Rollouts \in Nat
  <2>1. d >= 0
    BY <1>1 DEF StepsInv
  <2> QED
    BY <1>2, <1>5, <1>6, <2>1, MulSign
<1>8. Warmup \in Nat
  BY <1>2, DivNat DEF Warmup
<1>9. /\ Rollouts <= RolloutsNeeded
      /\ d >= total => Rollouts = RolloutsNeeded
      /\ RolloutsNeeded \in Int
  BY <1>1, <1>2, <1>5, <1>7, RoundUp DEF RolloutsNeeded
<1> QED
  BY <1>1, <1>4, <1>5, <1>7, <1>8, <1>9
----------------------------------------------------------------------------
(* Every step of the demo preserves the invariant.                           *)

LEMMA InitDemo == DemoInit => DemoIInv
<1> SUFFICES ASSUME DemoInit PROVE DemoIInv
  OBVIOUS
<1>1. /\ TrainFreq \in Nat \ {0} /\ LearningStarts \in Nat /\ ~OptimizeMemory
      /\ MaxTimesteps \in Nat \ {0} /\ MaxAdd \in Nat
  BY DemoConstants
<1>2. IInv /\ since = 0 /\ added = 0 /\ pc = "idle"
  BY InitIInv DEF DemoInit, Init
<1>3. BufferInv
  BY <1>1, <1>2 DEF BufferInv, IInv
<1>4. DemoTypeOK
  BY <1>1, <1>2 DEF DemoTypeOK, DemoInit, IInv, Agents
<1>5. Rollouts = 0
  <2>1. (TrainFreq * 0) \div TrainFreq = 0 /\ timesteps - collected = TrainFreq * 0
    BY <1>1, DivMultiple DEF DemoInit
  <2> QED
    BY <2>1 DEF Rollouts
<1>6. StepsInv
  BY <1>1, <1>2, <1>5 DEF StepsInv, DemoInit, Begun, Ended
<1>7. \A a \in Agents : Trained(a) = 0
  BY DEF Trained, DemoInit, Agents
<1>8. OddsInv
  <2>1. \A a \in Agents : [i \in 1 .. Trained(a) |-> NewestOdds(TrainSteps(i))] = <<>>
    BY <1>7
  <2> QED
    BY <2>1 DEF OddsInv, DemoInit
<1>9. StageInv /\ RingReport
  BY DEF StageInv, RingReport, DemoInit, Ended
<1> QED
  BY <1>3, <1>4, <1>6, <1>8, <1>9 DEF DemoIInv

LEMMA OddsStay ==
  ASSUME OddsInv, odds' = odds, \A a \in Agents : Trained(a)' = Trained(a)
  PROVE  OddsInv'
BY DEF OddsInv

LEMMA ReportStays ==
  ASSUME RingReport, printed' = printed, total' = total
  PROVE  RingReport'
BY DEF RingReport, RolloutsNeeded

\* The facts every step starts from.
Known ==
  /\ TrainFreq \in Nat \ {0} /\ LearningStarts \in Nat /\ MaxAdd \in Nat
  /\ total \in Nat \ {0} /\ collected \in 0 .. TrainFreq
  /\ timesteps \in Nat /\ timesteps = Begun /\ Begun <= MaxAdd
  /\ pc = "idle" => timesteps = since
  /\ Rollouts \in Nat /\ RolloutsNeeded \in Nat /\ Warmup \in Nat
  /\ timesteps - collected = TrainFreq * Rollouts
  /\ Rollouts <= RolloutsNeeded
  /\ timesteps - collected >= total => Rollouts = RolloutsNeeded

LEMMA DemoKnown ==
  ASSUME DemoIInv
  PROVE  /\ Known /\ DemoTypeOK /\ BufferInv /\ StepsInv /\ OddsInv /\ StageInv
         /\ RingReport
BY DemoCounts, DemoConstants DEF DemoIInv, Known

LEMMA ConstructDemo ==
  ASSUME DemoIInv, Construct
  PROVE  DemoIInv'
<1>1. /\ Known /\ DemoTypeOK /\ BufferInv /\ StepsInv /\ OddsInv /\ StageInv
      /\ RingReport
  BY DemoKnown
<1>2. /\ stage = "construct" /\ stage' = "learn" /\ NewBuffer
      /\ timesteps' = 0 /\ agent' = agent /\ total' = total
      /\ collected' = collected /\ rewards' = rewards /\ printed' = printed
      /\ odds' = odds
  BY DEF Construct, results
<1>3. BufferInv' /\ Begun' = 0 /\ pc' = "idle" /\ collected = 0
  BY <1>1, <1>2, BufferIsNew DEF StepsInv
<1>4. DemoTypeOK'
  BY <1>1, <1>2, <1>3 DEF DemoTypeOK, BufferInv, Known
<1>5. Rollouts' = 0
  <2>1. (TrainFreq * 0) \div TrainFreq = 0 /\ timesteps' - collected' = TrainFreq * 0
    BY <1>1, <1>2, <1>3, DivMultiple DEF Known
  <2> QED
    BY <2>1 DEF Rollouts
<1>6. StepsInv'
  BY <1>1, <1>2, <1>3, <1>5 DEF StepsInv, Known, Ended
<1>7. \A a \in Agents : Trained(a)' = Trained(a)
  <2>1. RolloutsNeeded' = RolloutsNeeded
    BY <1>2 DEF RolloutsNeeded
  <2>2. Trainings(0) = 0
    BY <1>1 DEF Trainings, Known
  <2> QED
    BY <1>2, <1>5, <2>1, <2>2 DEF Trained
<1>8. OddsInv' /\ RingReport'
  BY <1>1, <1>2, <1>7, OddsStay, ReportStays
<1>9. StageInv'
  BY <1>1, <1>2 DEF StageInv, Ended
<1> QED
  BY <1>3, <1>4, <1>6, <1>8, <1>9 DEF DemoIInv

LEMMA LearnDemo ==
  ASSUME DemoIInv, Learn
  PROVE  DemoIInv'
<1>1. /\ Known /\ DemoTypeOK /\ BufferInv /\ StepsInv /\ OddsInv /\ StageInv
      /\ RingReport
  BY DemoKnown
<1>2. /\ stage = "learn"
      /\ stage' = (IF timesteps < total THEN "rollout" ELSE "evaluate")
      /\ UNCHANGED vars /\ agent' = agent /\ total' = total
      /\ timesteps' = timesteps /\ collected' = collected
      /\ rewards' = rewards /\ printed' = printed /\ odds' = odds
  BY DEF Learn, progress, results
<1>3. BufferInv' /\ Begun' = Begun /\ pc' = pc
  BY <1>1, <1>2, BufferStays DEF vars
<1>4. DemoTypeOK'
  BY <1>1, <1>2, <1>3 DEF DemoTypeOK, BufferInv
<1>5. Rollouts' = Rollouts /\ RolloutsNeeded' = RolloutsNeeded
  BY <1>2 DEF Rollouts, RolloutsNeeded
<1>6. StepsInv'
  BY <1>1, <1>2, <1>3, <1>5 DEF StepsInv, Known, Ended
<1>7. \A a \in Agents : Trained(a)' = Trained(a)
  BY <1>2, <1>5 DEF Trained
<1>8. OddsInv' /\ RingReport'
  BY <1>1, <1>2, <1>7, OddsStay, ReportStays
<1>9. StageInv'
  BY <1>1, <1>2 DEF StageInv, Ended
<1> QED
  BY <1>3, <1>4, <1>6, <1>8, <1>9 DEF DemoIInv

LEMMA EnvStepDemo ==
  ASSUME DemoIInv, EnvStep
  PROVE  DemoIInv'
<1>1. /\ Known /\ DemoTypeOK /\ BufferInv /\ StepsInv /\ OddsInv /\ StageInv
      /\ RingReport
  BY DemoKnown
<1>2. /\ stage = "rollout" /\ stage' = stage /\ collected < TrainFreq
      /\ IF agent = "FastReplayBuffer" THEN Evict ELSE AddWithoutRing
      /\ timesteps' = timesteps + 1 /\ collected' = collected + 1
      /\ agent' = agent /\ total' = total
      /\ rewards' = rewards /\ printed' = printed /\ odds' = odds
  BY DEF EnvStep, CountedStep, results
<1>3. agent \in Agents
  BY <1>1 DEF DemoTypeOK
<1>4. BufferInv' /\ Begun' = Begun + 1 /\ Begun + 1 <= MaxAdd
  BY <1>1, <1>2, <1>3, BufferBegins
<1>5. /\ timesteps' - collected' = timesteps - collected
      /\ timesteps' \in 0 .. MaxAdd /\ collected' \in 0 .. TrainFreq
  BY <1>1, <1>2, <1>4 DEF Known
<1>6. DemoTypeOK'
  BY <1>1, <1>2, <1>4, <1>5 DEF DemoTypeOK, BufferInv
<1>7. Rollouts' = Rollouts /\ RolloutsNeeded' = RolloutsNeeded
  BY <1>2, <1>5 DEF Rollouts, RolloutsNeeded
<1>8. StepsInv'
  BY <1>1, <1>2, <1>4, <1>5, <1>7 DEF StepsInv, Known, Ended
<1>9. \A a \in Agents : Trained(a)' = Trained(a)
  BY <1>2, <1>7 DEF Trained
<1>10. OddsInv' /\ RingReport'
  BY <1>1, <1>2, <1>9, OddsStay, ReportStays
<1>11. StageInv'
  BY <1>1, <1>2 DEF StageInv, Ended
<1> QED
  BY <1>4, <1>6, <1>8, <1>10, <1>11 DEF DemoIInv

LEMMA AddStepDemo ==
  ASSUME DemoIInv, AddStep
  PROVE  DemoIInv'
<1>1. /\ Known /\ DemoTypeOK /\ BufferInv /\ StepsInv /\ OddsInv /\ StageInv
      /\ RingReport
  BY DemoKnown
<1>2. /\ PushIndex \/ StoreObs \/ StoreRest \/ AdvancePos
      /\ stage' = stage /\ agent' = agent /\ total' = total
      /\ timesteps' = timesteps /\ collected' = collected
      /\ rewards' = rewards /\ printed' = printed /\ odds' = odds
  BY DEF AddStep, progress, results
<1>3. pc # "idle" /\ agent \in Agents
  BY <1>1, <1>2 DEF PushIndex, StoreObs, StoreRest, AdvancePos, DemoTypeOK
<1>4. BufferInv' /\ Begun' = Begun /\ stage = "rollout"
  BY <1>1, <1>2, <1>3, BufferAdds DEF StepsInv
<1>5. DemoTypeOK'
  BY <1>1, <1>2, <1>4 DEF DemoTypeOK, BufferInv
<1>6. Rollouts' = Rollouts /\ RolloutsNeeded' = RolloutsNeeded
  BY <1>2 DEF Rollouts, RolloutsNeeded
<1>7. StepsInv'
  BY <1>1, <1>2, <1>4, <1>6 DEF StepsInv, Ended
<1>8. \A a \in Agents : Trained(a)' = Trained(a)
  BY <1>2, <1>6 DEF Trained
<1>9. OddsInv' /\ RingReport'
  BY <1>1, <1>2, <1>8, OddsStay, ReportStays
<1>10. StageInv'
  BY <1>1, <1>2 DEF StageInv
<1> QED
  BY <1>4, <1>5, <1>7, <1>9, <1>10 DEF DemoIInv

(* A rollout more: there is a training if it made more than learning_starts  *)
(* steps in all.                                                             *)
LEMMA RolloutEndDemo ==
  ASSUME DemoIInv, RolloutEnd
  PROVE  DemoIInv'
<1>1. /\ Known /\ DemoTypeOK /\ BufferInv /\ StepsInv /\ OddsInv /\ StageInv
      /\ RingReport
  BY DemoKnown
<1>2. /\ stage = "rollout" /\ collected = TrainFreq /\ pc = "idle"
      /\ stage' = (IF timesteps > LearningStarts THEN "train" ELSE "learn")
      /\ collected' = 0 /\ UNCHANGED vars /\ agent' = agent
      /\ total' = total /\ timesteps' = timesteps
      /\ rewards' = rewards /\ printed' = printed /\ odds' = odds
  BY DEF RolloutEnd, results
<1>3. BufferInv' /\ Begun' = Begun /\ pc' = pc
  BY <1>1, <1>2, BufferStays DEF vars
<1>4. DemoTypeOK'
  BY <1>1, <1>2, <1>3 DEF DemoTypeOK, BufferInv, Known
<1>5. /\ timesteps' - collected' = TrainFreq * (Rollouts + 1)
      /\ timesteps = TrainFreq * (Rollouts + 1)
      /\ timesteps - collected = timesteps' - collected' - TrainFreq
  BY <1>1, <1>2 DEF Known
<1>6. Rollouts' = Rollouts + 1 /\ RolloutsNeeded' = RolloutsNeeded
  <2>1. (TrainFreq * (Rollouts + 1)) \div TrainFreq = Rollouts + 1
    BY <1>1, DivMultiple DEF Known
  <2> QED
    BY <1>2, <1>5, <2>1 DEF Rollouts, RolloutsNeeded
<1>7. StepsInv'
  BY <1>1, <1>2, <1>3, <1>5, <1>6 DEF StepsInv, Known, Ended
<1>8. \A a \in Agents : Trained(a)' = Trained(a)
  <2>1. timesteps > LearningStarts <=> Rollouts + 1 > Warmup
    BY <1>1, <1>5, RolloutsExceed DEF Known, Warmup
  <2>2. /\ timesteps > LearningStarts =>
             Trainings(Rollouts + 1) - 1 = Trainings(Rollouts)
        /\ ~(timesteps > LearningStarts) =>
             Trainings(Rollouts + 1) = Trainings(Rollouts)
    BY <1>1, <2>1 DEF Trainings, Known
  <2> QED
    BY <1>2, <1>6, <2>2 DEF Trained
<1>9. OddsInv' /\ RingReport'
  BY <1>1, <1>2, <1>8, OddsStay, ReportStays
<1>10. StageInv'
  BY <1>1, <1>2 DEF StageInv, Ended
<1> QED
  BY <1>3, <1>4, <1>7, <1>9, <1>10 DEF DemoIInv
----------------------------------------------------------------------------
(* A training adds the odds of the transitions stored by then.               *)

TrainOdds(n) == [i \in 1 .. n |-> NewestOdds(TrainSteps(i))]

LEMMA AppendTraining ==
  ASSUME NEW n \in Nat
  PROVE  Append(TrainOdds(n), NewestOdds(TrainSteps(n + 1))) = TrainOdds(n + 1)
<1> DEFINE S == {NewestOdds(TrainSteps(i)) : i \in Nat}
           s == TrainOdds(n)
           t == TrainOdds(n + 1)
           e == NewestOdds(TrainSteps(n + 1))
           u == Append(s, e)
<1>1. \A m \in Nat : TrainOdds(m) \in [1 .. m -> S]
  BY DEF TrainOdds
<1>2. s \in Seq(S) /\ Len(s) = n /\ \A i \in 1 .. n : s[i] = NewestOdds(TrainSteps(i))
  <2>1. s \in [1 .. n -> S]
    BY <1>1
  <2> QED
    BY <2>1 DEF TrainOdds
<1>3. t \in Seq(S) /\ Len(t) = n + 1
      /\ \A i \in 1 .. n + 1 : t[i] = NewestOdds(TrainSteps(i))
  <2>1. n + 1 \in Nat
    OBVIOUS
  <2>2. t \in [1 .. n + 1 -> S]
    BY <1>1, <2>1
  <2> QED
    BY <2>1, <2>2 DEF TrainOdds
<1>4. e \in S
  OBVIOUS
<1> HIDE DEF s, t, S
<1>5. u \in Seq(S) /\ Len(u) = n + 1
      /\ (\A i \in 1 .. n : u[i] = s[i]) /\ u[n + 1] = e
  BY <1>2, <1>4, AppendProperties
<1>6. ASSUME NEW i \in 1 .. Len(u)
      PROVE  u[i] = t[i]
  <2>1. CASE i = n + 1
    BY <1>3, <1>5, <2>1
  <2>2. CASE i # n + 1
    <3>1. i \in 1 .. n /\ i \in 1 .. n + 1
      BY <1>5, <2>2
    <3> QED
      BY <1>2, <1>3, <1>5, <3>1
  <2> QED
    BY <2>1, <2>2
<1>7. u = t
  <2> HIDE DEF u
  <2> QED
    BY <1>3, <1>5, <1>6, SeqEqual
<1> QED
  BY <1>7 DEF s, t, u

LEMMA TrainDemo ==
  ASSUME DemoIInv, Train
  PROVE  DemoIInv'
<1>1. /\ Known /\ DemoTypeOK /\ BufferInv /\ StepsInv /\ OddsInv /\ StageInv
      /\ RingReport
  BY DemoKnown
<1>2. /\ stage = "train"
      /\ stage' = (IF DOMAIN Draws = {} THEN "crashed" ELSE "learn")
      /\ odds' = [odds EXCEPT ![agent] = Append(@, Odds)]
      /\ UNCHANGED vars /\ agent' = agent /\ total' = total
      /\ timesteps' = timesteps /\ collected' = collected
      /\ rewards' = rewards /\ printed' = printed
  BY DEF Train, progress
<1>3. BufferInv' /\ Begun' = Begun /\ pc' = pc
  BY <1>1, <1>2, BufferStays DEF vars
<1>4. /\ pc = "idle" /\ collected = 0 /\ timesteps > LearningStarts
      /\ timesteps = since /\ timesteps = TrainFreq * Rollouts
      /\ agent \in Agents
  BY <1>1, <1>2 DEF StepsInv, Known, DemoTypeOK
<1>5. Odds = NewestOdds(since) /\ stage' = "learn"
  <2>1. since > 0
    BY <1>1, <1>4 DEF Known
  <2> QED
    BY <1>1, <1>2, <1>4, <2>1, OddsAreNewest
<1>6. DemoTypeOK'
  BY <1>1, <1>2, <1>3, <1>5 DEF DemoTypeOK, BufferInv
<1>7. Rollouts' = Rollouts /\ RolloutsNeeded' = RolloutsNeeded
  BY <1>2 DEF Rollouts, RolloutsNeeded
<1>8. StepsInv'
  BY <1>1, <1>2, <1>3, <1>5, <1>7 DEF StepsInv, Ended
<1>9. OddsInv'
  <2> DEFINE n == Trained(agent)
  <2>1. Rollouts > Warmup
    BY <1>1, <1>4, RolloutsExceed DEF Known, Warmup
  <2>2. n = Rollouts - Warmup - 1 /\ n \in Nat
        /\ Trained(agent)' = n + 1
    BY <1>1, <1>2, <1>5, <1>7, <2>1 DEF Trained, Trainings, Known
  <2>3. TrainSteps(n + 1) = since
    <3>1. Warmup + (n + 1) = Rollouts
      BY <1>1, <2>2 DEF Known
    <3> QED
      BY <1>4, <3>1 DEF TrainSteps
  <2>4. odds = [a \in Agents |-> TrainOdds(Trained(a))]
    BY <1>1 DEF OddsInv, TrainOdds
  <2>5. odds'[agent] = TrainOdds(n + 1)
    BY <1>2, <1>4, <1>5, <2>2, <2>3, <2>4, AppendTraining
  <2>6. ASSUME NEW a \in Agents, a # agent
        PROVE  odds'[a] = TrainOdds(Trained(a)')
    <3>1. Trained(a)' = Trained(a)
      BY <1>2, <1>7, <2>6 DEF Trained
    <3> QED
      BY <1>2, <2>4, <2>6, <3>1
  <2>7. \A a \in Agents : odds'[a] = TrainOdds(Trained(a)')
    BY <1>2, <2>2, <2>5, <2>6
  <2>8. odds' = [a \in Agents |-> odds'[a]]
    BY <1>2, <2>4
  <2>9. odds' = [a \in Agents |-> TrainOdds(Trained(a)')]
    BY <2>7, <2>8
  <2> QED
    BY <2>9 DEF OddsInv, TrainOdds
<1>10. RingReport'
  BY <1>1, <1>2, ReportStays
<1>11. StageInv'
  BY <1>1, <1>2, <1>5 DEF StageInv, Ended
<1> QED
  BY <1>3, <1>6, <1>8, <1>9, <1>10, <1>11 DEF DemoIInv

(* The first agent is evaluated after exactly the rollouts it needs, and the *)
(* second one starts again.                                                  *)
LEMMA EvaluateDemo ==
  ASSUME DemoIInv, Evaluate
  PROVE  DemoIInv'
<1>1. /\ Known /\ DemoTypeOK /\ BufferInv /\ StepsInv /\ OddsInv /\ StageInv
      /\ RingReport
  BY DemoKnown
<1>2. /\ stage = "evaluate"
      /\ \E solved \in BOOLEAN : rewards' = [rewards EXCEPT ![agent] = solved]
      /\ IF agent = "FastReplayBuffer"
         THEN /\ printed' = <<RingSize, Capacity>>
              /\ agent' = "ReplayBuffer" /\ stage' = "construct"
         ELSE printed' = printed /\ agent' = agent /\ stage' = "summary"
      /\ UNCHANGED vars /\ total' = total
      /\ timesteps' = timesteps /\ collected' = collected /\ odds' = odds
  BY DEF Evaluate, progress
<1>3. /\ pc = "idle" /\ collected = 0 /\ timesteps >= total
      /\ timesteps = since /\ Rollouts = RolloutsNeeded
      /\ since = TrainFreq * RolloutsNeeded
  BY <1>1, <1>2 DEF StepsInv, Known
<1>4. BufferInv' /\ Begun' = Begun /\ pc' = pc
  BY <1>1, <1>2, <1>3, BufferStays DEF vars
<1>5. rewards' \in [Agents -> BOOLEAN]
  BY <1>1, <1>2 DEF DemoTypeOK
<1>6. Rollouts' = Rollouts /\ RolloutsNeeded' = RolloutsNeeded
  BY <1>2 DEF Rollouts, RolloutsNeeded
<1>7. StepsInv'
  BY <1>1, <1>2, <1>3, <1>4, <1>6 DEF StepsInv, Ended
<1>8. CASE agent = "FastReplayBuffer"
  <2>1. /\ RingSize = since - Evicted
        /\ Evicted = IF since > Capacity THEN since - Capacity ELSE 0
        /\ since \in Nat /\ Capacity \in Nat \ {0}
    <3>1. TypeOK /\ RingInv
      BY <1>1, <1>8 DEF BufferInv
    <3> QED
      BY <1>3, <3>1, IdleCounts, RingSizeCounts
  <2>2. RingSize = (IF since >= Capacity THEN Capacity ELSE since)
    BY <2>1
  <2>3. RingReport'
    BY <1>2, <1>3, <1>6, <1>8, <2>2 DEF RingReport
  <2>4. DemoTypeOK'
    <3>1. printed' \in (0 .. Capacity) \X {Capacity}
      BY <1>2, <1>8, <2>1, <2>2
    <3> QED
      BY <1>1, <1>2, <1>4, <1>5, <1>8, <3>1 DEF DemoTypeOK, BufferInv, Agents
  <2>5. \A a \in Agents : Trained(a)' = Trained(a)
    BY <1>2, <1>3, <1>6, <1>8 DEF Trained, Agents
  <2>6. StageInv'
    BY <1>2, <1>8 DEF StageInv, Ended
  <2> QED
    BY <1>1, <1>2, <1>4, <1>7, <2>3, <2>4, <2>5, <2>6, OddsStay DEF DemoIInv
<1>9. CASE agent # "FastReplayBuffer"
  <2>1. DemoTypeOK'
    BY <1>1, <1>2, <1>4, <1>5, <1>9 DEF DemoTypeOK, BufferInv
  <2>2. \A a \in Agents : Trained(a)' = Trained(a)
    BY <1>2, <1>6, <1>9 DEF Trained
  <2>3. OddsInv' /\ RingReport'
    BY <1>1, <1>2, <1>9, <2>2, OddsStay, ReportStays
  <2>4. StageInv'
    BY <1>2, <1>9 DEF StageInv
  <2> QED
    BY <1>4, <1>7, <2>1, <2>3, <2>4 DEF DemoIInv
<1> QED
  BY <1>8, <1>9

LEMMA SummaryDemo ==
  ASSUME DemoIInv, Summary
  PROVE  DemoIInv'
<1>1. /\ Known /\ DemoTypeOK /\ BufferInv /\ StepsInv /\ OddsInv /\ StageInv
      /\ RingReport
  BY DemoKnown
<1>2. /\ stage = "summary" /\ stage' \in Ended
      /\ UNCHANGED vars /\ agent' = agent /\ total' = total
      /\ timesteps' = timesteps /\ collected' = collected
      /\ rewards' = rewards /\ printed' = printed /\ odds' = odds
  BY DEF Summary, progress, results, Ended
<1>3. BufferInv' /\ Begun' = Begun /\ pc' = pc
  BY <1>1, <1>2, BufferStays DEF vars
<1>4. DemoTypeOK'
  BY <1>1, <1>2, <1>3 DEF DemoTypeOK, BufferInv
<1>5. Rollouts' = Rollouts /\ RolloutsNeeded' = RolloutsNeeded
  BY <1>2 DEF Rollouts, RolloutsNeeded
<1>6. StepsInv'
  BY <1>1, <1>2, <1>3, <1>5 DEF StepsInv, Ended
<1>7. \A a \in Agents : Trained(a)' = Trained(a)
  BY <1>2, <1>5 DEF Trained, Ended
<1>8. OddsInv' /\ RingReport'
  BY <1>1, <1>2, <1>7, OddsStay, ReportStays
<1>9. StageInv'
  BY <1>1, <1>2 DEF StageInv, Ended
<1> QED
  BY <1>3, <1>4, <1>6, <1>8, <1>9 DEF DemoIInv

LEMMA StutterDemo ==
  ASSUME DemoIInv, UNCHANGED demoVars
  PROVE  DemoIInv'
<1>1. /\ Known /\ DemoTypeOK /\ BufferInv /\ StepsInv /\ OddsInv /\ StageInv
      /\ RingReport
  BY DemoKnown
<1>2. /\ UNCHANGED vars /\ stage' = stage /\ agent' = agent /\ total' = total
      /\ timesteps' = timesteps /\ collected' = collected
      /\ rewards' = rewards /\ printed' = printed /\ odds' = odds
  BY DEF demoVars, progress, results
<1>3. BufferInv' /\ Begun' = Begun /\ pc' = pc
  BY <1>1, <1>2, BufferStays DEF vars
<1>4. DemoTypeOK'
  BY <1>1, <1>2, <1>3 DEF DemoTypeOK, BufferInv
<1>5. Rollouts' = Rollouts /\ RolloutsNeeded' = RolloutsNeeded
  BY <1>2 DEF Rollouts, RolloutsNeeded
<1>6. StepsInv'
  BY <1>1, <1>2, <1>3, <1>5 DEF StepsInv
<1>7. \A a \in Agents : Trained(a)' = Trained(a)
  BY <1>2, <1>5 DEF Trained
<1>8. OddsInv' /\ RingReport'
  BY <1>1, <1>2, <1>7, OddsStay, ReportStays
<1>9. StageInv'
  BY <1>1, <1>2 DEF StageInv
<1> QED
  BY <1>3, <1>4, <1>6, <1>8, <1>9 DEF DemoIInv

(* In every state of the demo: after t steps the buffer of the agent being   *)
(* trained, whichever it is, holds the newest of t transitions, and every    *)
(* training so far had one index for each of the newest at its time.         *)
THEOREM DemoInvariance == DemoSpec => []DemoIInv
<1>1. DemoIInv /\ [DemoNext]_demoVars => DemoIInv'
  BY ConstructDemo, LearnDemo, EnvStepDemo, AddStepDemo, RolloutEndDemo,
     TrainDemo, EvaluateDemo, SummaryDemo, StutterDemo DEF DemoNext
<1> QED
  BY InitDemo, <1>1, PTL DEF DemoSpec

(* Every variable of the demo keeps its type: the environment steps and the  *)
(* calls of add() never exceed what MaxAdd bounds.                           *)
THEOREM DemoTypeCorrect == DemoSpec => []DemoTypeOK
<1>1. DemoIInv => DemoTypeOK
  BY DEF DemoIInv
<1> QED
  BY DemoInvariance, <1>1, PTL

(* "Two identical DQN agents": for every buffer_size, train_freq,            *)
(* learning_starts and total_timesteps, training number i of the second      *)
(* agent draws from the transitions training number i of the first one drew  *)
(* from, with the same odds, and in the end both trained as often.           *)
THEOREM AgentsAreIdentical == DemoSpec => []SameOdds
<1>1. DemoIInv => SameOdds
  <2> SUFFICES ASSUME DemoIInv PROVE SameOdds
    OBVIOUS
  <2>1. Known /\ DemoTypeOK /\ StepsInv /\ OddsInv /\ StageInv
    BY DemoKnown
  <2>2. "ReplayBuffer" \in Agents /\ "FastReplayBuffer" \in Agents
        /\ agent \in Agents
    BY <2>1 DEF Agents, DemoTypeOK
  <2> DEFINE m == Trained("ReplayBuffer")
             n == Trained("FastReplayBuffer")
  <2>3. odds["ReplayBuffer"] = TrainOdds(m) /\ odds["FastReplayBuffer"] = TrainOdds(n)
    BY <2>1, <2>2 DEF OddsInv, TrainOdds
  <2>4. m \in Nat /\ n \in Nat /\ m <= n /\ (stage \in Ended => m = n)
    <3>1. /\ Rollouts \in Nat /\ RolloutsNeeded \in Nat /\ Warmup \in Nat
          /\ Rollouts <= RolloutsNeeded
          /\ stage = "train" => Rollouts > Warmup
          /\ stage \in Ended => Rollouts = RolloutsNeeded
          /\ stage \in Ended => stage # "construct" /\ stage # "train"
          /\ stage \in Ended => agent # "FastReplayBuffer"
      <4>1. stage = "train" => Rollouts > Warmup
        BY <2>1, RolloutsExceed DEF Known, Warmup, StepsInv
      <4>2. stage \in Ended => timesteps - collected >= total
        BY <2>1 DEF Known, StepsInv, Ended
      <4> QED
        BY <2>1, <4>1, <4>2 DEF Known, StageInv, Ended
    <3>2. \A r \in Nat : Trainings(r) \in Nat /\ (r > Warmup => Trainings(r) >= 1)
      BY <3>1 DEF Trainings
    <3>3. Trainings(Rollouts) <= Trainings(RolloutsNeeded)
      BY <3>1 DEF Trainings
    <3>4. CASE agent = "FastReplayBuffer"
      BY <3>1, <3>2, <3>4 DEF Trained
    <3>5. CASE agent = "ReplayBuffer"
      BY <3>1, <3>2, <3>3, <3>5 DEF Trained
    <3> QED
      BY <2>2, <3>4, <3>5 DEF Agents
  <2>5. \A k \in Nat : Len(TrainOdds(k)) = k
    BY DEF TrainOdds
  <2>6. \A i \in 1 .. m : TrainOdds(m)[i] = TrainOdds(n)[i]
    BY <2>4 DEF TrainOdds
  <2> HIDE DEF m, n
  <2> QED
    BY <2>3, <2>4, <2>5, <2>6 DEF SameOdds
<1> QED
  BY DemoInvariance, <1>1, PTL

(* The ring the first agent's line "C++ ring" reports is full exactly when   *)
(* the steps made reach buffer_size, and counts them otherwise.              *)
THEOREM ReportIsRight == DemoSpec => []RingReport
<1>1. DemoIInv => RingReport
  BY DEF DemoIInv
<1> QED
  BY DemoInvariance, <1>1, PTL

(* No agent trains on an empty buffer: a training comes only after more      *)
(* steps than learning_starts, so after at least one add().                  *)
THEOREM NeverTrainsEmpty == DemoSpec => [](stage # "crashed")
<1>1. DemoIInv => stage # "crashed"
  BY DEF DemoIInv, StageInv
<1> QED
  BY DemoInvariance, <1>1, PTL
=============================================================================

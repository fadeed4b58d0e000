--------------------------- MODULE TrainingProofs ---------------------------
(***************************************************************************)
(* For every train_freq, length of the training, lengths of episodes,      *)
(* number of calls of learn() and of train() that raise: the instrumented  *)
(* loop stores steps of the environment, and the reports made of its       *)
(* timers count what ProfiledTraining says they do.  For every number of   *)
(* trials, the table AbComparison makes of such reports counts it too.     *)
(***************************************************************************)
EXTENDS ProfilingScripts, SequenceTheorems, TLAPS

(* An observation the environment hands out is the one it is in, but for      *)
(* what VecNormalize clipped.                                                *)
LEMMA SeenProperties ==
  ASSUME NEW o \in Observation, o.norm = FALSE, normalize \in BOOLEAN,
         NEW s \in Seen(o)
  PROVE  /\ s \in Observation
         /\ normalize => Unnormalized(s) = [o EXCEPT !.exact = s.exact]
         /\ ~normalize => s = o
<1>1. PICK n \in Nat, t \in Nat, x \in BOOLEAN :
        o = [episode |-> n, step |-> t, norm |-> FALSE, exact |-> x]
  BY DEF Observation
<1>2. CASE normalize
  <2>1. PICK e \in BOOLEAN : s = [o EXCEPT !.norm = TRUE, !.exact = e]
    BY <1>2 DEF Seen, Normalized
  <2>2. s = [episode |-> n, step |-> t, norm |-> TRUE, exact |-> e]
    BY <1>1, <2>1
  <2>3. s \in Observation /\ s.exact = e
    BY <2>2 DEF Observation
  <2>4. PICK u : u = [s EXCEPT !.norm = FALSE]
    OBVIOUS
  <2>5. PICK v : v = [o EXCEPT !.exact = e]
    OBVIOUS
  <2>6. u = [episode |-> n, step |-> t, norm |-> FALSE, exact |-> e]
    BY <2>2, <2>4
  <2>7. v = [episode |-> n, step |-> t, norm |-> FALSE, exact |-> e]
    BY <1>1, <2>5
  <2> QED
    BY <1>2, <2>3, <2>4, <2>5, <2>6, <2>7 DEF Unnormalized
<1>3. CASE ~normalize
  BY <1>3 DEF Seen
<1> QED
  BY <1>2, <1>3

LEMMA ObsProperties ==
  ASSUME NEW e \in Nat, NEW s \in Nat
  PROVE  /\ Obs(e, s) \in Observation /\ Obs(e, s).norm = FALSE
         /\ Obs(e, s).episode = e /\ Obs(e, s).step = s
BY DEF Obs, Observation

LEMMA TransitionProperties ==
  ASSUME NEW from \in Observation, NEW to \in Observation
  PROVE  /\ Transition(from, to) \in [obs : Observation, next : Observation]
         /\ Transition(from, to).obs = from /\ Transition(from, to).next = to
BY DEF Transition

----------------------------------------------------------------------------
(* The types and relations of the clock and of the timers.                   *)
ClockType ==
  /\ now \in Nat /\ timed \in Nat /\ logged \in Nat /\ sampled \in Nat
  /\ wrapper \in [outside : Nat, sample : Nat, train : Nat]
  /\ samples \in Seq(Nat) /\ Len(samples) <= MaxRaises + 1
  /\ trainStart \in Nat /\ inSample \in Nat /\ spent \in Nat

(* What the loop keeps besides them, and where it is.                        *)
LoopType ==
  /\ normalize \in BOOLEAN /\ done \in BOOLEAN
  /\ collected \in 0 .. TrainFreq /\ steps \in 0 .. MaxSteps + TrainFreq
  /\ envObs.norm = FALSE /\ lastOriginal.norm = FALSE /\ nextObs.norm = FALSE
  /\ terminal \in Seq(Observation) /\ Len(terminal) <= 1

LEMMA TypeParts == TypeOK <=> ClockType /\ LoopType
BY DEF TypeOK, ClockType, LoopType

LEMMA PartsNext ==
  ASSUME ClockType', LoopType', ObsInv', ClockInv', CountInv'
  PROVE  IInv'
BY DEF TypeOK, ClockType, LoopType, IInv

LEMMA DurationIsNat ==
  ASSUME NEW d \in Durations
  PROVE  d \in Nat
BY DEF Durations

(* What the wrappers' accumulators are after they were added to.             *)
LEMMA WrapAdds ==
  ASSUME ClockType, NEW o \in Nat, NEW s \in Nat, NEW g \in Nat, Wrap(o, s, g)
  PROVE  /\ wrapper' \in [outside : Nat, sample : Nat, train : Nat]
         /\ wrapper'.outside = wrapper.outside + o
         /\ wrapper'.sample = wrapper.sample + s
         /\ wrapper'.train = wrapper.train + g
         /\ wrapper.outside \in Nat /\ wrapper.sample \in Nat
         /\ wrapper.train \in Nat
<1>1. /\ wrapper.outside \in Nat /\ wrapper.sample \in Nat
      /\ wrapper.train \in Nat
  BY DEF ClockType
<1>2. wrapper' = [outside |-> wrapper.outside + o,
                  sample |-> wrapper.sample + s, train |-> wrapper.train + g]
  BY DEF Wrap, Accumulators
<1> QED
  BY <1>1, <1>2

LEMMA UnwrappedIsWrap ==
  ASSUME ClockType, UNCHANGED wrapper
  PROVE  Wrap(0, 0, 0)
<1>1. /\ wrapper = [outside |-> wrapper.outside, sample |-> wrapper.sample,
                    train |-> wrapper.train]
      /\ wrapper.outside + 0 = wrapper.outside
      /\ wrapper.sample + 0 = wrapper.sample
      /\ wrapper.train + 0 = wrapper.train
  BY DEF ClockType
<1> QED
  BY <1>1 DEF Wrap, Accumulators

(* A step outside of train() that takes d, of which the timers count x, among *)
(* them dump_logs' l, and the wrappers o.                                    *)
LEMMA ClockMoves ==
  ASSUME ClockType, ClockInv, pc \notin InTrain, pc' \notin InTrain,
         NEW d \in Nat, NEW x \in Nat, NEW l \in Nat, NEW o \in Nat,
         now' = now + d, timed' = timed + x, logged' = logged + l,
         Wrap(o, 0, 0), x <= d, o <= d, UNCHANGED <<sampled, training>>
  PROVE  ClockType' /\ ClockInv'
<1>1. /\ now \in Nat /\ timed \in Nat /\ logged \in Nat /\ timed <= now
      /\ UNCHANGED <<sampled, samples, trainStart, inSample, spent>>
  BY DEF ClockType, ClockInv, TimersInv, training
<1> DEFINE wo == wrapper.outside
           ws == wrapper.sample
           wt == wrapper.train
<1>2. /\ wo \in Nat /\ ws \in Nat /\ wt \in Nat
      /\ wo + wt <= now /\ wo + ws <= now
  BY WrapAdds DEF ClockInv, TimersInv
<1>3. /\ wrapper' \in [outside : Nat, sample : Nat, train : Nat]
      /\ wrapper'.outside = wo + o /\ wrapper'.sample = ws + 0
      /\ wrapper'.train = wt + 0
  BY WrapAdds
<1> HIDE DEF wo, ws, wt
<1>4. ClockType'
  BY <1>1, <1>3 DEF ClockType
<1>5. TimersInv'
  <2>1. timed' <= now'
    BY <1>1
  <2>2. (wo + o) + (wt + 0) <= now' /\ (wo + o) + (ws + 0) <= now'
    BY <1>1, <1>2
  <2> QED
    BY <1>3, <2>1, <2>2 DEF TimersInv
<1>6. TrainInv' /\ sampled' = spent'
  BY <1>1 DEF ClockInv, TrainInv
<1> QED
  BY <1>4, <1>5, <1>6 DEF ClockInv

LEMMA ClockStays ==
  ASSUME ClockType, ClockInv, UNCHANGED <<clock, training>>,
         pc' = pc \/ (pc \notin InTrain /\ pc' \notin InTrain)
  PROVE  ClockType' /\ ClockInv'
BY DEF ClockType, ClockInv, TimersInv, TrainInv, clock, training

(* Every section keeps the clock's invariant.                                *)
LEMMA SectionClock ==
  ASSUME ClockType, ClockInv, NEW from, NEW to,
         from \notin InTrain, to \notin InTrain,
         Section(from, to) \/ WrappedSection(from, to)
  PROVE  ClockType' /\ ClockInv' /\ pc = from /\ pc' = to
         /\ UNCHANGED normalize
<1>1. PICK d \in Durations, o \in Nat :
        o <= d /\ Timed(from, to, d) /\ Wrap(o, 0, 0)
  <2>1. CASE Section(from, to)
    <3>1. PICK d \in Durations : Timed(from, to, d)
      BY <2>1 DEF Section
    <3> QED
      BY <2>1, <3>1, UnwrappedIsWrap, DurationIsNat DEF Section
  <2>2. CASE WrappedSection(from, to)
    <3>1. PICK d \in Durations : Timed(from, to, d) /\ Wrap(d, 0, 0)
      BY <2>2 DEF WrappedSection
    <3> QED
      BY <3>1, DurationIsNat
  <2> QED
    BY <2>1, <2>2
<1>2. /\ pc = from /\ pc' = to /\ UNCHANGED normalize
      /\ now' = now + d /\ timed' = timed + d /\ logged' = logged
      /\ UNCHANGED <<sampled, training>> /\ logged \in Nat
  BY <1>1 DEF Timed, ClockType
<1>3. d \in Nat /\ o \in Nat /\ 0 \in Nat /\ o <= d /\ d <= d
      /\ logged' = logged + 0
  BY <1>1, <1>2, DurationIsNat
<1> QED
  BY <1>1, <1>2, <1>3, ClockMoves

(* So does the code between two timers.                                      *)
LEMMA UntimedClock ==
  ASSUME ClockType, ClockInv, pc \notin InTrain, pc' \notin InTrain,
         NEW d \in Durations, now' = now + d,
         UNCHANGED <<timed, logged, sampled, wrapper, training>>
  PROVE  ClockType' /\ ClockInv'
<1>1. timed \in Nat /\ logged \in Nat /\ d \in Nat
  BY DurationIsNat DEF ClockType
<1>2. /\ Wrap(0, 0, 0) /\ timed' = timed + 0 /\ logged' = logged + 0
      /\ 0 \in Nat /\ 0 <= d
  BY <1>1, UnwrappedIsWrap
<1> QED
  BY <1>1, <1>2, ClockMoves

(* episode_bookkeeping counts dump_logs' time once, within its own.          *)
LEMMA EpisodeBookkeepingClock ==
  ASSUME ClockType, ClockInv, EpisodeBookkeeping
  PROVE  ClockType' /\ ClockInv'
<1>1. PICK d \in Durations, l \in Durations :
        now' = now + d + l /\ timed' = timed + d + l /\ logged' = logged + l
  BY DEF EpisodeBookkeeping
<1> DEFINE e == d + l
<1>2. now \in Nat /\ timed \in Nat /\ d \in Nat /\ l \in Nat
  BY DurationIsNat DEF ClockType
<1>3. now' = now + e /\ timed' = timed + e /\ e \in Nat
      /\ e <= e /\ 0 <= e /\ 0 \in Nat
  BY <1>1, <1>2
<1>4. /\ UNCHANGED <<sampled, wrapper, training>>
      /\ pc = "episode_bookkeeping" /\ pc' = "loop"
  BY DEF EpisodeBookkeeping
<1>5. Wrap(0, 0, 0) /\ pc \notin InTrain /\ pc' \notin InTrain
  BY <1>4, UnwrappedIsWrap DEF InTrain
<1> HIDE DEF e
<1> QED
  BY <1>1, <1>2, <1>3, <1>4, <1>5, ClockMoves

(* train() makes an accumulator of its own, over those that calls of it that *)
(* raised left behind, ...                                                   *)
LEMMA TrainBeginsClock ==
  ASSUME ClockType, ClockInv, TrainBegins
  PROVE  ClockType' /\ ClockInv'
<1>1. /\ pc = "train" /\ pc' = "sample" /\ trainStart' = now
      /\ samples' = Append(samples, 0)
      /\ UNCHANGED <<now, timed, logged, sampled, wrapper, inSample, spent>>
  BY DEF TrainBegins, clock
<1>2. samples \in Seq(Nat) /\ Len(samples) <= MaxRaises /\ inSample = 0
  BY <1>1 DEF ClockType, ClockInv, TrainInv, InTrain
<1>3. /\ samples' \in Seq(Nat) /\ Len(samples') = Len(samples) + 1
      /\ samples' # <<>> /\ samples'[Len(samples')] = 0
  BY <1>1, <1>2
<1>4. ClockType'
  BY <1>1, <1>2, <1>3, RaisesAssumption DEF ClockType
<1>5. TimersInv' /\ sampled' = spent'
  BY <1>1 DEF ClockInv, TimersInv
<1>6. TrainInv'
  BY <1>1, <1>2, <1>3 DEF ClockType, ClockInv, TimersInv, TrainInv, InTrain
<1> QED
  BY <1>4, <1>5, <1>6 DEF ClockInv

(* ... which a sample() that returned adds to once, as to each of the others, *)
LEMMA SampleClock ==
  ASSUME ClockType, ClockInv, Sample
  PROVE  ClockType' /\ ClockInv'
<1>1. PICK d \in Durations :
        /\ now' = now + d /\ samples' = TimedSample(d)
        /\ inSample' = inSample + d /\ Wrap(0, d, 0)
  BY DEF Sample
<1>2. /\ pc = "sample" /\ pc' = "optimize"
      /\ UNCHANGED <<timed, logged, sampled, trainStart, spent>>
  BY DEF Sample
<1>3. /\ d \in Nat /\ now \in Nat /\ timed \in Nat /\ inSample \in Nat
      /\ trainStart \in Nat /\ samples \in Seq(Nat)
      /\ Len(samples) <= MaxRaises + 1
  BY DurationIsNat DEF ClockType
<1>4. /\ samples # <<>> /\ samples[Len(samples)] = inSample
      /\ trainStart <= now /\ timed <= trainStart
      /\ wrapper.outside + wrapper.train <= trainStart
      /\ wrapper.outside + wrapper.sample <= now
  BY <1>2 DEF ClockInv, TimersInv, TrainInv, InTrain
<1>5. /\ samples' \in Seq(Nat) /\ Len(samples') = Len(samples)
      /\ samples' # <<>> /\ samples'[Len(samples')] = inSample'
  <2>1. Len(samples) \in Nat \ {0}
    BY <1>3, <1>4
  <2>2. samples' = [i \in 1 .. Len(samples) |-> samples[i] + d]
    BY <1>1 DEF TimedSample
  <2>3. \A i \in 1 .. Len(samples) : samples[i] + d \in Nat
    BY <1>3
  <2>4. samples' \in Seq(Nat) /\ Len(samples') = Len(samples)
    BY <2>1, <2>2, <2>3
  <2>5. samples'[Len(samples')] = samples[Len(samples)] + d
    BY <2>1, <2>2, <2>4
  <2> QED
    BY <1>1, <1>4, <2>1, <2>4, <2>5
<1> DEFINE wo == wrapper.outside
           ws == wrapper.sample
           wt == wrapper.train
<1>6. /\ wrapper' \in [outside : Nat, sample : Nat, train : Nat]
      /\ wrapper'.outside = wo + 0 /\ wrapper'.sample = ws + d
      /\ wrapper'.train = wt + 0
      /\ wo \in Nat /\ ws \in Nat /\ wt \in Nat
      /\ wo + wt <= trainStart /\ wo + ws <= now
  BY <1>1, <1>3, <1>4, WrapAdds
<1> HIDE DEF wo, ws, wt
<1>7. ClockType'
  BY <1>1, <1>2, <1>3, <1>5, <1>6 DEF ClockType
<1>8. /\ timed' <= now' /\ trainStart' <= now' /\ timed' <= trainStart'
      /\ (wo + 0) + (wt + 0) <= trainStart' /\ (wo + 0) + (wt + 0) <= now'
      /\ (wo + 0) + (ws + d) <= now'
  BY <1>1, <1>2, <1>3, <1>4, <1>6
<1>9. TimersInv' /\ TrainInv'
  BY <1>2, <1>5, <1>6, <1>8 DEF TimersInv, TrainInv, InTrain
<1> QED
  BY <1>2, <1>7, <1>9 DEF ClockInv

LEMMA OptimizeClock ==
  ASSUME ClockType, ClockInv, Optimize
  PROVE  ClockType' /\ ClockInv'
<1>1. PICK d \in Durations : now' = now + d
  BY DEF Optimize
<1>2. /\ pc \in InTrain /\ pc' \in InTrain
      /\ UNCHANGED <<timed, logged, sampled, wrapper, samples, trainStart,
                     inSample, spent>>
  BY DEF Optimize, InTrain, training
<1>3. d \in Nat /\ now \in Nat /\ timed \in Nat /\ trainStart \in Nat
      /\ wrapper.outside + wrapper.sample \in Nat
      /\ wrapper.outside + wrapper.train \in Nat
  BY DurationIsNat DEF ClockType
<1>4. ClockType'
  BY <1>1, <1>2, <1>3 DEF ClockType
<1>5. TimersInv'
  BY <1>1, <1>2, <1>3 DEF ClockInv, TimersInv
<1>6. TrainInv'
  BY <1>1, <1>2, <1>3 DEF ClockInv, TrainInv
<1> QED
  BY <1>2, <1>4, <1>5, <1>6 DEF ClockInv

(* ... so that at its end buffer_sample gets the time sample() took, and both *)
(* timers together the time since t_total.                                   *)
LEMMA TrainEndsClock ==
  ASSUME ClockType, ClockInv, TrainEnds
  PROVE  ClockType' /\ ClockInv'
<1>1. /\ pc = "train_end" /\ pc' \in {"rollout", "report"}
      /\ samples' = SubSeq(samples, 1, Len(samples) - 1)
      /\ trainStart' = 0 /\ inSample' = 0 /\ spent' = spent + inSample
      /\ now' = now /\ logged' = logged
  BY DEF TrainEnds
<1>2. /\ now \in Nat /\ timed \in Nat /\ sampled \in Nat /\ inSample \in Nat
      /\ trainStart \in Nat /\ spent \in Nat /\ samples \in Seq(Nat)
      /\ Len(samples) <= MaxRaises + 1
  BY DEF ClockType
<1>3. /\ samples # <<>> /\ samples[Len(samples)] = inSample
      /\ trainStart <= now /\ timed <= trainStart
      /\ wrapper.outside + wrapper.train <= trainStart
      /\ wrapper.outside + wrapper.sample <= now /\ sampled = spent
  BY <1>1 DEF ClockInv, TimersInv, TrainInv, InTrain
<1> DEFINE total == now - trainStart
<1>4. /\ sampled' = sampled + inSample
      /\ timed' = timed + inSample + (total - inSample) /\ Wrap(0, 0, total)
  BY <1>3 DEF TrainEnds
<1>5. total \in Nat /\ timed' = timed + total /\ timed' <= now
      /\ timed' \in Nat
  BY <1>2, <1>3, <1>4
<1>6. samples' \in Seq(Nat) /\ Len(samples') = Len(samples) - 1
      /\ Len(samples) \in Nat /\ Len(samples') <= MaxRaises
  <2> DEFINE n == Len(samples)
  <2>1. n \in Nat \ {0}
    BY <1>2, <1>3
  <2> HIDE DEF n
  <2>2. n - 1 \in 0 .. n /\ n - 1 <= MaxRaises
    BY <1>2, <2>1, RaisesAssumption DEF n
  <2>3. samples' \in Seq(Nat) /\ Len(samples') = n - 1
    <3>1. samples' = SubSeq(samples, 1, n - 1)
      BY <1>1 DEF n
    <3>2. 1 \in Int /\ n - 1 \in Int /\ \A i \in 1 .. n - 1 : samples[i] \in Nat
      BY <1>2, <2>1 DEF n
    <3> QED
      BY <2>1, <3>1, <3>2, SubSeqProperties
  <2> QED
    BY <2>1, <2>2, <2>3 DEF n
<1> DEFINE wo == wrapper.outside
           ws == wrapper.sample
           wt == wrapper.train
<1>7. /\ wrapper' \in [outside : Nat, sample : Nat, train : Nat]
      /\ wrapper'.outside = wo + 0 /\ wrapper'.sample = ws + 0
      /\ wrapper'.train = wt + total
      /\ wo \in Nat /\ ws \in Nat /\ wt \in Nat
      /\ wo + wt <= trainStart /\ wo + ws <= now
  BY <1>3, <1>4, <1>5, WrapAdds
<1> HIDE DEF wo, ws, wt
<1>8. ClockType'
  BY <1>1, <1>2, <1>4, <1>5, <1>6, <1>7, RaisesAssumption DEF ClockType
<1>9. (wo + 0) + (wt + total) <= now /\ (wo + 0) + (ws + 0) <= now
  BY <1>2, <1>7
<1> HIDE DEF total
<1>10. TimersInv'
  BY <1>1, <1>5, <1>7, <1>9 DEF TimersInv
<1>11. TrainInv' /\ sampled' = spent'
  BY <1>1, <1>3, <1>4, <1>6 DEF TrainInv, InTrain
<1> QED
  BY <1>8, <1>10, <1>11 DEF ClockInv

(* A train() that raises leaves its accumulator, and no timer counts it.     *)
LEMMA TrainRaisesClock ==
  ASSUME ClockType, ClockInv, TrainRaises
  PROVE  ClockType' /\ ClockInv'
<1>1. PICK d \in Durations : now' = now + d
  BY DEF TrainRaises
<1>2. /\ pc' = "learn" /\ Len(samples) <= MaxRaises
      /\ trainStart' = 0 /\ inSample' = 0
      /\ UNCHANGED <<timed, logged, sampled, wrapper, samples, spent>>
  BY DEF TrainRaises
<1>3. d \in Nat /\ now \in Nat /\ timed \in Nat
      /\ wrapper.outside + wrapper.sample \in Nat
      /\ wrapper.outside + wrapper.train \in Nat
  BY DurationIsNat DEF ClockType
<1>4. ClockType'
  BY <1>1, <1>2, <1>3 DEF ClockType
<1>5. TimersInv'
  BY <1>1, <1>2, <1>3 DEF ClockInv, TimersInv
<1>6. TrainInv' /\ sampled' = spent'
  BY <1>2 DEF ClockInv, TrainInv, InTrain
<1> QED
  BY <1>4, <1>5, <1>6 DEF ClockInv

----------------------------------------------------------------------------
LEMMA InitIInv == Init => IInv
<1> SUFFICES ASSUME Init PROVE IInv
  OBVIOUS
<1>1. /\ TrainFreq \in Nat \ {0} /\ MaxSteps \in Nat /\ MaxRaises \in Nat
  BY TrainAssumption, StepsAssumption, RaisesAssumption
<1>2. Obs(0, 0) \in Observation /\ Obs(0, 0).norm = FALSE
  BY ObsProperties
<1>3. /\ envObs = Obs(0, 0) /\ lastOriginal = envObs /\ nextObs = envObs
      /\ stepped = Transition(envObs, envObs) /\ pc = "learn"
      /\ normalize \in BOOLEAN /\ done = FALSE /\ terminal = <<>>
      /\ collected = 0 /\ steps = 0
      /\ now = 0 /\ timed = 0 /\ logged = 0 /\ sampled = 0
      /\ wrapper = [outside |-> 0, sample |-> 0, train |-> 0]
      /\ samples = <<>> /\ trainStart = 0 /\ inSample = 0 /\ spent = 0
  BY DEF Init, Accumulators
<1>4. ClockType
  <2>1. <<>> \in Seq(Nat) /\ Len(<<>>) = 0
    OBVIOUS
  <2> QED
    BY <1>1, <1>3, <2>1 DEF ClockType
<1>5. ClockInv
  BY <1>1, <1>3 DEF ClockInv, TimersInv, TrainInv, InTrain
<1>6. LoopType /\ CountInv
  <2>1. done \in BOOLEAN /\ envObs.norm = FALSE /\ lastOriginal.norm = FALSE
        /\ nextObs.norm = FALSE
    BY <1>2, <1>3
  <2>2. collected \in 0 .. TrainFreq /\ steps \in 0 .. MaxSteps + TrainFreq
        /\ steps <= MaxSteps + collected
    BY <1>1, <1>3
  <2>3. terminal \in Seq(Observation) /\ Len(terminal) <= 1
    BY <1>3
  <2> QED
    BY <1>3, <2>1, <2>2, <2>3 DEF LoopType, CountInv
<1>7. ObsInv
  <2>1. /\ stepped.obs = envObs /\ stepped.next = envObs
        /\ stepped \in [obs : Observation, next : Observation]
    BY <1>2, <1>3, TransitionProperties
  <2> QED
    BY <1>2, <1>3, <2>1 DEF ObsInv
<1> QED
  BY <1>4, <1>5, <1>6, <1>7, TypeParts DEF IInv

(* A step that leaves the observations alone and goes on with them.          *)
LEMMA ObsStay ==
  ASSUME ObsInv, UNCHANGED <<observations, normalize>>,
         pc' \in {"rollout", "loop", "policy_inference", "env_step",
                  "episode_bookkeeping", "rollout_end", "train", "sample",
                  "optimize", "train_end"} =>
           pc \in {"rollout", "loop", "policy_inference", "env_step",
                   "episode_bookkeeping", "rollout_end", "train", "sample",
                   "optimize", "train_end"},
         pc' \in {"bookkeeping", "callback_on_step", "preprocess"} =>
           pc \in {"bookkeeping", "callback_on_step"},
         pc' \notin {"buffer_add", "postprocess"}
  PROVE  ObsInv'
<1>1. UNCHANGED <<envObs, newObs, done, terminal, lastObs, lastOriginal, nextObs,
                  stored, stepped>>
  BY DEF observations
<1>2. /\ BeforeStep' <=> BeforeStep
      /\ AfterStep' <=> AfterStep
  BY <1>1 DEF BeforeStep, AfterStep, Seen
<1>3. /\ envObs' \in Observation /\ lastOriginal' \in Observation
      /\ envObs'.norm = FALSE
      /\ stepped' \in [obs : Observation, next : Observation]
      /\ stepped'.obs.norm = FALSE /\ stepped'.next.norm = FALSE
  BY <1>1 DEF ObsInv
<1>4. /\ pc \in {"rollout", "loop", "policy_inference", "env_step",
                 "episode_bookkeeping", "rollout_end", "train", "sample",
                 "optimize", "train_end"} => BeforeStep
      /\ pc \in {"bookkeeping", "callback_on_step", "preprocess"} => AfterStep
  BY DEF ObsInv
<1> QED
  BY <1>2, <1>3, <1>4 DEF ObsInv

LEMMA LoopStays ==
  ASSUME LoopType, UNCHANGED <<observations, normalize>>,
         collected' \in 0 .. TrainFreq, steps' \in 0 .. MaxSteps + TrainFreq
  PROVE  LoopType'
BY DEF LoopType, observations

(* learn() starts from a reset environment, whatever came before.            *)
LEMMA LearnIInv ==
  ASSUME IInv, Learn
  PROVE  IInv'
<1>1. ClockType /\ LoopType /\ ObsInv /\ ClockInv
  BY TypeParts DEF IInv
<1>2. ClockType' /\ ClockInv'
  <2>1. pc \notin InTrain /\ pc' \notin InTrain
    BY DEF Learn, InTrain
  <2>2. UNCHANGED <<clock, training>>
    BY DEF Learn
  <2> QED
    BY <1>1, <2>1, <2>2, ClockStays
<1>3. /\ pc' = "rollout" /\ envObs' = Obs(envObs.episode + 1, 0)
      /\ lastObs' \in Seen(envObs') /\ lastOriginal' = envObs'
      /\ collected' = 0 /\ steps' = 0
      /\ UNCHANGED <<normalize, done, terminal, nextObs, stored, stepped>>
  BY DEF Learn
<1>4. envObs' \in Observation /\ envObs'.norm = FALSE
  <2>1. envObs.episode + 1 \in Nat
    BY <1>1 DEF ObsInv, Observation
  <2> QED
    BY <1>3, <2>1, ObsProperties
<1>5. LoopType' /\ CountInv'
  <2>1. 0 \in 0 .. TrainFreq /\ 0 \in 0 .. MaxSteps + TrainFreq
        /\ 0 <= MaxSteps + 0
    BY TrainAssumption, StepsAssumption
  <2> QED
    BY <1>1, <1>3, <1>4, <2>1 DEF LoopType, CountInv
<1>6. BeforeStep'
  BY <1>3 DEF BeforeStep, Seen
<1>7. ObsInv'
  BY <1>1, <1>3, <1>4, <1>6 DEF ObsInv
<1> QED
  BY <1>2, <1>5, <1>7, PartsNext

(* env.step(): the observation the action was chosen in is now the last one; *)
(* what it led to is in new_obs, or in terminal when the episode is over.    *)
LEMMA EnvStepIInv ==
  ASSUME IInv, EnvStep
  PROVE  IInv'
<1>1. ClockType /\ LoopType /\ ObsInv /\ ClockInv /\ CountInv
  BY TypeParts DEF IInv
<1>2. /\ ClockType' /\ ClockInv' /\ pc = "env_step" /\ pc' = "bookkeeping"
      /\ UNCHANGED normalize
  BY <1>1, SectionClock DEF EnvStep, InTrain
<1> DEFINE after == Obs(envObs.episode, envObs.step + 1)
<1>3. /\ done' \in BOOLEAN
      /\ envObs' = (IF done' THEN Obs(after.episode + 1, 0) ELSE after)
      /\ newObs' \in Seen(envObs')
      /\ terminal' \in IF done' THEN {<<o>> : o \in Seen(after)} ELSE {<<>>}
      /\ stepped' = Transition(envObs, after)
      /\ UNCHANGED <<lastObs, lastOriginal, nextObs, stored, collected, steps>>
  BY DEF EnvStep, progress
<1>4. /\ envObs \in Observation /\ envObs.norm = FALSE
      /\ lastOriginal \in Observation /\ BeforeStep
      /\ envObs.episode \in Nat /\ envObs.step + 1 \in Nat /\ 0 \in Nat
      /\ envObs.episode + 1 \in Nat /\ normalize \in BOOLEAN
  BY <1>1, <1>2 DEF ObsInv, LoopType, Observation
<1>5. /\ after \in Observation /\ after.norm = FALSE
      /\ after.episode = envObs.episode
  BY <1>4, ObsProperties
<1>6. /\ stepped'.obs = envObs /\ stepped'.next = after
      /\ stepped' \in [obs : Observation, next : Observation]
  BY <1>3, <1>4, <1>5, TransitionProperties
<1>7. /\ envObs' \in Observation /\ envObs'.norm = FALSE
      /\ ~done' => envObs' = after
  <2>1. /\ Obs(envObs.episode + 1, 0) \in Observation
        /\ Obs(envObs.episode + 1, 0).norm = FALSE
    BY <1>4, ObsProperties
  <2>2. CASE done'
    <3>1. envObs' = Obs(envObs.episode + 1, 0)
      BY <1>3, <1>5, <2>2
    <3> QED
      BY <2>1, <2>2, <3>1
  <2>3. CASE ~done'
    <3>1. envObs' = after
      BY <1>3, <2>3
    <3> QED
      BY <1>5, <3>1
  <2> QED
    BY <2>2, <2>3
<1> HIDE DEF after
<1>8. terminal' \in Seq(Observation) /\ Len(terminal') <= 1
  <2>1. CASE done'
    <3>1. PICK o \in Seen(after) : terminal' = <<o>>
      BY <1>3, <2>1
    <3>2. o \in Observation
      BY <1>4, <1>5, <3>1, SeenProperties
    <3> QED
      BY <3>1, <3>2
  <2>2. CASE ~done'
    BY <1>3, <2>2
  <2> QED
    BY <2>1, <2>2
<1>9. AfterStep'
  <2>1. lastObs' \in Seen(envObs) /\ (normalize => lastOriginal' = envObs)
    BY <1>3, <1>4 DEF BeforeStep
  <2> QED
    BY <1>2, <1>3, <1>6, <1>7, <2>1 DEF AfterStep, Seen
<1>10. ObsInv'
  BY <1>2, <1>3, <1>4, <1>5, <1>6, <1>7, <1>9 DEF ObsInv
<1>11. LoopType' /\ CountInv'
  BY <1>1, <1>2, <1>3, <1>7, <1>8 DEF LoopType, CountInv
<1> QED
  BY <1>2, <1>10, <1>11, PartsNext

(* Preprocessing finds the step's two observations, un-normalised, also when *)
(* new_obs is already the next episode's first.                              *)
LEMMA PreprocessIInv ==
  ASSUME IInv, Preprocess
  PROVE  IInv'
<1>1. ClockType /\ LoopType /\ ObsInv /\ ClockInv /\ CountInv
  BY TypeParts DEF IInv
<1>2. /\ ClockType' /\ ClockInv' /\ pc = "preprocess" /\ pc' = "buffer_add"
      /\ UNCHANGED normalize
  BY <1>1, SectionClock DEF Preprocess, InTrain
<1>3. /\ UNCHANGED <<envObs, newObs, done, terminal, lastObs, stored, stepped,
                     collected, steps>>
      /\ normalize => lastOriginal' = lastOriginal
                      /\ nextObs' = IF HasTerminal THEN Terminal ELSE envObs
      /\ ~normalize => lastOriginal' = lastObs
                       /\ nextObs' = IF HasTerminal THEN Terminal ELSE newObs
  BY DEF Preprocess, CopyNext, OriginalObs, progress
<1>4. /\ lastObs \in Seen(stepped.obs)
      /\ normalize => lastOriginal = stepped.obs
      /\ newObs \in Seen(envObs)
      /\ envObs \in Observation /\ envObs.norm = FALSE
      /\ stepped.obs \in Observation /\ stepped.obs.norm = FALSE
      /\ stepped.next \in Observation /\ stepped.next.norm = FALSE
  BY <1>1, <1>2 DEF ObsInv, AfterStep
<1>5. normalize \in BOOLEAN /\ done \in BOOLEAN
  BY <1>1 DEF LoopType
<1>6. lastOriginal' = stepped.obs
  <2>1. ~normalize => lastObs = stepped.obs
    BY <1>4, <1>5, SeenProperties
  <2> QED
    BY <1>3, <1>4, <2>1
<1>7. nextObs' = NextStored /\ NextStored.norm = FALSE
  <2>1. CASE done
    <3>1. PICK o \in Seen(stepped.next) : terminal = <<o>>
      BY <1>1, <1>2, <2>1 DEF ObsInv, AfterStep
    <3>2. /\ normalize => Unnormalized(o) = [stepped.next EXCEPT !.exact = o.exact]
          /\ ~normalize => o = stepped.next
      BY <1>4, <1>5, SeenProperties
    <3>3. terminal # <<>> /\ terminal[1] = o
      BY <3>1
    <3>4. nextObs' = (IF normalize THEN Unnormalized(o) ELSE o)
      BY <1>3, <2>1, <3>3 DEF HasTerminal, Terminal
    <3>5. [stepped.next EXCEPT !.exact = o.exact].norm = FALSE
      BY <1>4 DEF Observation
    <3> QED
      BY <1>4, <1>5, <2>1, <3>2, <3>3, <3>4, <3>5 DEF NextStored
  <2>2. CASE ~done
    <3>1. envObs = stepped.next
      BY <1>1, <1>2, <2>2 DEF ObsInv, AfterStep
    <3>2. ~normalize => newObs = stepped.next
      BY <1>4, <1>5, <3>1, SeenProperties
    <3> QED
      BY <1>3, <1>4, <2>2, <3>1, <3>2 DEF HasTerminal, NextStored
  <2> QED
    BY <1>5, <2>1, <2>2
<1>8. NextStored' = NextStored
  BY <1>2, <1>3 DEF NextStored
<1>9. Prepared'
  BY <1>2, <1>3, <1>4, <1>6, <1>7, <1>8 DEF Prepared, Seen
<1>10. ObsInv'
  BY <1>1, <1>2, <1>3, <1>4, <1>6, <1>9 DEF ObsInv
<1>11. LoopType' /\ CountInv'
  BY <1>1, <1>2, <1>3, <1>4, <1>6, <1>7 DEF LoopType, CountInv
<1> QED
  BY <1>2, <1>10, <1>11, PartsNext

LEMMA BufferAddIInv ==
  ASSUME IInv, BufferAdd
  PROVE  IInv'
<1>1. ClockType /\ LoopType /\ ObsInv /\ ClockInv /\ CountInv
  BY TypeParts DEF IInv
<1>2. /\ ClockType' /\ ClockInv' /\ pc = "buffer_add" /\ pc' = "postprocess"
      /\ UNCHANGED normalize
  BY <1>1, SectionClock DEF BufferAdd, InTrain
<1>3. /\ stored' = Transition(lastOriginal, nextObs)
      /\ UNCHANGED <<envObs, newObs, done, terminal, lastObs, lastOriginal,
                     nextObs, stepped, collected, steps>>
  BY DEF BufferAdd, progress
<1>4. Prepared
  BY <1>1, <1>2 DEF ObsInv
<1>5. NextStored' = NextStored
  BY <1>2, <1>3 DEF NextStored
<1>6. Prepared' /\ stored' = Transition(stepped.obs, NextStored)'
  BY <1>2, <1>3, <1>4, <1>5 DEF Prepared, Seen, Transition
<1>7. ObsInv'
  BY <1>1, <1>2, <1>3, <1>6 DEF ObsInv
<1>8. LoopType' /\ CountInv'
  BY <1>1, <1>2, <1>3 DEF LoopType, CountInv
<1> QED
  BY <1>2, <1>7, <1>8, PartsNext

LEMMA PostprocessIInv ==
  ASSUME IInv, Postprocess
  PROVE  IInv'
<1>1. ClockType /\ LoopType /\ ObsInv /\ ClockInv /\ CountInv
  BY TypeParts DEF IInv
<1>2. /\ ClockType' /\ ClockInv' /\ pc = "postprocess"
      /\ pc' = "episode_bookkeeping" /\ UNCHANGED normalize
  BY <1>1, SectionClock DEF Postprocess, InTrain
<1>3. /\ lastObs' = newObs
      /\ lastOriginal' = (IF normalize THEN envObs ELSE lastOriginal)
      /\ UNCHANGED <<envObs, newObs, done, terminal, nextObs, stored, stepped,
                     collected, steps>>
  BY DEF Postprocess, RememberObs, OriginalObs, progress
<1>4. newObs \in Seen(envObs) /\ envObs \in Observation /\ envObs.norm = FALSE
      /\ lastOriginal \in Observation /\ lastOriginal.norm = FALSE
  BY <1>1, <1>2 DEF ObsInv, Prepared, LoopType
<1>5. /\ lastOriginal' \in Observation /\ lastOriginal'.norm = FALSE
      /\ normalize => lastOriginal' = envObs
  BY <1>3, <1>4
<1>6. BeforeStep'
  BY <1>2, <1>3, <1>4, <1>5 DEF BeforeStep, Seen
<1>7. ObsInv'
  BY <1>1, <1>2, <1>3, <1>5, <1>6 DEF ObsInv
<1>8. LoopType' /\ CountInv'
  BY <1>1, <1>2, <1>3, <1>5 DEF LoopType, CountInv
<1> QED
  BY <1>2, <1>7, <1>8, PartsNext

----------------------------------------------------------------------------
(* The sections that only pass time, and those that count steps.             *)
LEMMA RolloutStartIInv ==
  ASSUME IInv, RolloutStart
  PROVE  IInv'
<1>1. ClockType /\ LoopType /\ ObsInv /\ ClockInv /\ CountInv
  BY TypeParts DEF IInv
<1>2. /\ ClockType' /\ ClockInv' /\ pc = "rollout" /\ pc' = "loop"
      /\ UNCHANGED normalize
  BY <1>1, SectionClock DEF RolloutStart, InTrain
<1>3. steps < MaxSteps /\ collected' = 0 /\ steps' = steps
      /\ UNCHANGED observations
  BY DEF RolloutStart
<1>4. /\ collected' \in 0 .. TrainFreq /\ steps' \in 0 .. MaxSteps + TrainFreq
      /\ steps' <= MaxSteps + collected'
  <2>1. steps \in Nat /\ steps <= MaxSteps + TrainFreq
    BY <1>1, TrainAssumption, StepsAssumption DEF LoopType
  <2> QED
    BY <1>3, <2>1, TrainAssumption, StepsAssumption
<1>5. ObsInv' /\ LoopType'
  BY <1>1, <1>2, <1>3, <1>4, ObsStay, LoopStays
<1> QED
  BY <1>2, <1>4, <1>5, PartsNext DEF CountInv

LEMMA LoopIInv ==
  ASSUME IInv, Loop
  PROVE  IInv'
<1>1. ClockType /\ LoopType /\ ObsInv /\ ClockInv /\ CountInv
  BY TypeParts DEF IInv
<1>2. /\ pc = "loop" /\ pc' \in {"policy_inference", "rollout_end"}
      /\ pc' = "policy_inference" => collected < TrainFreq
      /\ UNCHANGED <<normalize, observations, collected, steps, timed, logged,
                     sampled, wrapper, training>>
  BY DEF Loop, ShouldCollect, progress
<1>3. ClockType' /\ ClockInv'
  <2>1. PICK d \in Durations : now' = now + d
    BY DEF Loop
  <2>2. pc \notin InTrain /\ pc' \notin InTrain
    BY <1>2 DEF InTrain
  <2> QED
    BY <1>1, <1>2, <2>1, <2>2, UntimedClock
<1>4. ObsInv' /\ LoopType'
  <2>1. collected' \in 0 .. TrainFreq /\ steps' \in 0 .. MaxSteps + TrainFreq
    BY <1>1, <1>2 DEF LoopType
  <2> QED
    BY <1>1, <1>2, <2>1, ObsStay, LoopStays
<1>5. CountInv'
  BY <1>1, <1>2 DEF CountInv
<1> QED
  BY <1>3, <1>4, <1>5, PartsNext

LEMMA BookkeepingIInv ==
  ASSUME IInv, Bookkeeping
  PROVE  IInv'
<1>1. ClockType /\ LoopType /\ ObsInv /\ ClockInv /\ CountInv
  BY TypeParts DEF IInv
<1>2. /\ ClockType' /\ ClockInv' /\ pc = "bookkeeping"
      /\ pc' = "callback_on_step" /\ UNCHANGED normalize
  BY <1>1, SectionClock DEF Bookkeeping, InTrain
<1>3. steps' = steps + 1 /\ collected' = collected + 1 /\ UNCHANGED observations
  BY DEF Bookkeeping
<1>4. /\ collected' \in 0 .. TrainFreq /\ steps' \in 0 .. MaxSteps + TrainFreq
      /\ steps' <= MaxSteps + collected'
  <2>1. /\ collected < TrainFreq /\ collected \in Nat /\ steps \in Nat
        /\ steps <= MaxSteps + collected
    BY <1>1, <1>2, TrainAssumption, StepsAssumption DEF LoopType, CountInv
  <2> QED
    BY <1>3, <2>1, TrainAssumption, StepsAssumption
<1>5. ObsInv' /\ LoopType'
  BY <1>1, <1>2, <1>3, <1>4, ObsStay, LoopStays
<1> QED
  BY <1>2, <1>4, <1>5, PartsNext DEF CountInv

(* The steps that keep both counts.                                          *)
LEMMA CountsStay ==
  ASSUME LoopType, ObsInv, CountInv,
         UNCHANGED <<observations, progress, normalize>>,
         \/ pc' \in {"learn", "report"}
         \/ pc = "policy_inference" /\ pc' = "env_step"
         \/ pc = "callback_on_step" /\ pc' = "preprocess"
         \/ pc \in {"episode_bookkeeping", "rollout_end", "train", "sample",
                    "optimize", "train_end"}
            /\ pc' \in {"loop", "train", "rollout", "sample", "optimize",
                        "train_end"}
  PROVE  LoopType' /\ ObsInv' /\ CountInv'
<1>1. collected' = collected /\ steps' = steps
  BY DEF progress
<1>2. collected' \in 0 .. TrainFreq /\ steps' \in 0 .. MaxSteps + TrainFreq
  BY <1>1 DEF LoopType
<1>3. ObsInv'
  BY ObsStay
<1>4. CountInv'
  BY <1>1 DEF CountInv
<1> QED
  BY <1>2, <1>3, <1>4, LoopStays

LEMMA PassingIInv ==
  ASSUME IInv,
         \/ PolicyInference \/ CallbackGoesOn \/ CallbackStops
         \/ EpisodeBookkeeping \/ RolloutEnd
  PROVE  IInv'
<1>1. ClockType /\ LoopType /\ ObsInv /\ ClockInv /\ CountInv
  BY TypeParts DEF IInv
<1>2. UNCHANGED <<observations, progress, normalize>>
  BY DEF PolicyInference, CallbackGoesOn, CallbackStops, EpisodeBookkeeping,
         RolloutEnd, Section, Timed
<1>3. \/ pc' \in {"learn", "report"}
      \/ pc = "policy_inference" /\ pc' = "env_step"
      \/ pc = "callback_on_step" /\ pc' = "preprocess"
      \/ pc \in {"episode_bookkeeping", "rollout_end"}
         /\ pc' \in {"loop", "train", "rollout"}
  BY DEF PolicyInference, CallbackGoesOn, CallbackStops, EpisodeBookkeeping,
         RolloutEnd, Section, Timed
<1>4. ClockType' /\ ClockInv'
  <2>1. CASE PolicyInference
    BY <1>1, <2>1, SectionClock DEF PolicyInference, InTrain
  <2>2. CASE CallbackGoesOn
    BY <1>1, <2>2, SectionClock DEF CallbackGoesOn, InTrain
  <2>3. CASE RolloutEnd
    <3>1. PICK next \in {"train", "rollout", "report"} :
            Section("rollout_end", next)
      BY <2>3 DEF RolloutEnd
    <3> QED
      BY <1>1, <3>1, SectionClock DEF InTrain
  <2>4. CASE CallbackStops
    <3>1. PICK d \in Durations : now' = now + d
      BY <2>4 DEF CallbackStops
    <3>2. /\ pc \notin InTrain /\ pc' \notin InTrain
          /\ UNCHANGED <<timed, logged, sampled, wrapper, training>>
      BY <2>4 DEF CallbackStops, InTrain
    <3> QED
      BY <1>1, <3>1, <3>2, UntimedClock
  <2>5. CASE EpisodeBookkeeping
    BY <1>1, <2>5, EpisodeBookkeepingClock
  <2> QED
    BY <2>1, <2>2, <2>3, <2>4, <2>5
<1> QED
  BY <1>1, <1>2, <1>3, <1>4, CountsStay, PartsNext

LEMMA TrainIInv ==
  ASSUME IInv, Train
  PROVE  IInv'
<1>1. ClockType /\ LoopType /\ ObsInv /\ ClockInv /\ CountInv
  BY TypeParts DEF IInv
<1>2. UNCHANGED <<observations, progress, normalize>>
  BY DEF Train, TrainBegins, Sample, Optimize, TrainEnds, TrainRaises
<1>3. \/ pc' \in {"learn", "report"}
      \/ pc \in {"train", "sample", "optimize", "train_end"}
         /\ pc' \in {"rollout", "sample", "optimize", "train_end"}
  BY DEF Train, TrainBegins, Sample, Optimize, TrainEnds, TrainRaises
<1>4. ClockType' /\ ClockInv'
  BY <1>1, TrainBeginsClock, SampleClock, OptimizeClock, TrainEndsClock,
     TrainRaisesClock DEF Train
<1> QED
  BY <1>1, <1>2, <1>3, <1>4, CountsStay, PartsNext

----------------------------------------------------------------------------
(* The strengthening every theorem below rests on.                           *)
THEOREM Invariance == Spec => []IInv
<1>1. IInv /\ [Next]_vars => IInv'
  <2> SUFFICES ASSUME IInv, [Next]_vars PROVE IInv'
    OBVIOUS
  <2>1. CASE UNCHANGED vars
    <3>1. UNCHANGED <<pc, normalize, observations, progress, clock, training>>
      BY <2>1 DEF vars
    <3>2. ClockType' /\ ClockInv'
      BY <3>1, ClockStays, TypeParts DEF IInv
    <3>3. LoopType' /\ CountInv'
      BY <3>1, TypeParts DEF observations, progress, IInv, LoopType, CountInv
    <3>4. UNCHANGED <<envObs, newObs, done, terminal, lastObs, lastOriginal,
                      nextObs, stored, stepped>>
      BY <3>1 DEF observations
    <3>5. /\ BeforeStep' <=> BeforeStep
          /\ AfterStep' <=> AfterStep
          /\ Prepared' <=> Prepared
          /\ NextStored' = NextStored
      BY <3>1, <3>4 DEF BeforeStep, AfterStep, Prepared, NextStored, Seen
    <3>6. ObsInv'
      BY <3>1, <3>4, <3>5 DEF IInv, ObsInv, Transition
    <3> QED
      BY <3>2, <3>3, <3>6, PartsNext
  <2> QED
    BY <2>1, LearnIInv, RolloutStartIInv, LoopIInv, EnvStepIInv,
       BookkeepingIInv, PreprocessIInv, BufferAddIInv, PostprocessIInv,
       PassingIInv, TrainIInv DEF Next, Rollout
<1> QED
  BY InitIInv, <1>1, PTL DEF Spec

THEOREM TypeCorrect == Spec => []TypeOK
<1>1. IInv => TypeOK
  BY DEF IInv
<1> QED
  BY Invariance, <1>1, PTL

(* What the loop hands to the buffer is one step of the environment, across  *)
(* ends of episodes, normalisation, early stops and calls of learn().        *)
THEOREM StoresSteps == Spec => []StoredIsEnvStep
<1>1. IInv => StoredIsEnvStep
  BY DEF IInv, ObsInv, StoredIsEnvStep
<1> QED
  BY Invariance, <1>1, PTL

(* buffer_sample's timer is the time spent in sample() by the calls of       *)
(* train() that returned, however many timed_sample calls that raised left   *)
(* around it: each of them adds to an accumulator nobody reads any more.     *)
THEOREM SamplingCounts == Spec => []SamplingTimedOnce
<1>1. IInv => SamplingTimedOnce
  BY DEF IInv, ClockInv, SamplingTimedOnce
<1> QED
  BY Invariance, <1>1, PTL

(* The wrappers' table adds up to the wall time exactly.                     *)
THEOREM WrapperCounts == Spec => []WrapperReportIsWallTime
<1>1. IInv => WrapperReportIsWallTime
  <2> SUFFICES ASSUME IInv PROVE WrapperReportIsWallTime
    OBVIOUS
  <2> DEFINE wo == wrapper.outside
             ws == wrapper.sample
             wt == wrapper.train
  <2>1. /\ now \in Nat /\ wo \in Nat /\ ws \in Nat /\ wt \in Nat
        /\ wo + wt <= now /\ wo + ws <= now
    BY DEF IInv, TypeOK, ClockInv, TimersInv
  <2>2. NetGradTime = (IF wt > ws THEN wt - ws ELSE 0)
        /\ WrapperTotal = wo + ws + NetGradTime
    BY DEF NetGradTime, WrapperTotal
  <2> HIDE DEF wo, ws, wt
  <2>3. WrapperTotal \in Nat /\ WrapperTotal <= now
    BY <2>1, <2>2
  <2> QED
    BY <2>1, <2>3 DEF WrapperReportIsWallTime, OtherTime
<1> QED
  BY Invariance, <1>1, PTL

----------------------------------------------------------------------------
(* Whichever script was started, it behaves as its own specification says and *)
(* leaves the other's variables as they were: the theorems about each hold.  *)
THEOREM ScriptsBehave == ScriptsSpec => Spec /\ AbSpec
<1>1. ScriptsInit => Init /\ AbInit
  BY DEF ScriptsInit
<1>2. [ScriptsNext]_<<script, vars, abVars>> => [Next]_vars /\ [AbNext]_abVars
  BY DEF ScriptsNext, GranularProfile, Comparison
<1> QED
  BY <1>1, <1>2, PTL DEF ScriptsSpec, Spec, AbSpec

----------------------------------------------------------------------------
(* The A/B comparison, for every number of trials and whatever the trainings *)
(* record.                                                                   *)

Timers == UNION {[keys -> Nat] : keys \in SUBSET AllTimers}
Results == {r \in [wall : Nat, timers : Timers] : Balanced(r)}

LEMMA AllTimersAre ==
  AllTimers = {"buffer_add", "buffer_sample", "gradient_optimization",
               "episode_bookkeeping", "dump_logs", "python_loop_overhead"}
BY DEF AllTimers, LoopTimers, TrainTimers, LogTimers

LEMMA TimersAre ==
  ASSUME NEW t
  PROVE  t \in Timers <=> IsTimers(t)
<1>1. ASSUME t \in Timers PROVE IsTimers(t)
  BY <1>1 DEF Timers, IsTimers
<1>2. ASSUME IsTimers(t) PROVE t \in Timers
  BY <1>2 DEF Timers, IsTimers
<1> QED
  BY <1>1, <1>2

LEMMA ResultsAre ==
  ASSUME NEW r
  PROVE  r \in Results <=> IsResult(r)
<1>1. ASSUME r \in Results PROVE IsResult(r)
  BY <1>1, TimersAre DEF Results, IsResult
<1>2. ASSUME IsResult(r) PROVE r \in Results
  BY <1>2, TimersAre DEF Results, IsResult
<1> QED
  BY <1>1, <1>2

LEMMA ResultsSeq ==
  ASSUME NEW s
  PROVE  s \in Seq(Results) <=> AreResults(s)
<1>1. ASSUME s \in Seq(Results) PROVE AreResults(s)
  <2>1. \A i \in DOMAIN s : s[i] \in Results
    BY <1>1
  <2>2. s \in Seq({s[i] : i \in DOMAIN s})
    <3>1. Len(s) \in Nat /\ s \in [1 .. Len(s) -> Results]
      BY <1>1
    <3>2. s \in [1 .. Len(s) -> {s[i] : i \in DOMAIN s}]
      BY <3>1
    <3> QED
      BY <3>1, <3>2
  <2> QED
    BY <2>1, <2>2, ResultsAre DEF AreResults
<1>2. ASSUME AreResults(s) PROVE s \in Seq(Results)
  <2>1. s \in Seq({s[i] : i \in DOMAIN s}) /\ \A i \in DOMAIN s : s[i] \in Results
    BY <1>2, ResultsAre DEF AreResults
  <2>2. Len(s) \in Nat /\ DOMAIN s = 1 .. Len(s)
        /\ s \in [1 .. Len(s) -> {s[i] : i \in DOMAIN s}]
    BY <2>1
  <2>3. s \in [1 .. Len(s) -> Results]
    BY <2>1, <2>2
  <2> QED
    BY <2>2, <2>3
<1> QED
  BY <1>1, <1>2

(* The sum of the timers, key by key.                                        *)
LEMMA TimeIsNat ==
  ASSUME NEW t \in Timers, NEW key
  PROVE  Time(t, key) \in Nat
BY TimersAre DEF IsTimers, Time

LEMMA TotalIs ==
  ASSUME NEW t
  PROVE  TotalTime(t)
           = Time(t, "buffer_add") + Time(t, "buffer_sample")
               + Time(t, "gradient_optimization")
               + Time(t, "episode_bookkeeping") + Time(t, "dump_logs")
               + Time(t, "python_loop_overhead")
BY DEF TotalTime, SumOver, Time

(* Adding timers key by key adds their totals.                               *)
LEMMA SumIsTimers ==
  ASSUME NEW t \in Timers, NEW u \in Timers
  PROVE  /\ SumTimers(t, u) \in Timers
         /\ DOMAIN SumTimers(t, u) = DOMAIN t \union DOMAIN u
         /\ \A key : Time(SumTimers(t, u), key) = Time(t, key) + Time(u, key)
         /\ TotalTime(SumTimers(t, u)) = TotalTime(t) + TotalTime(u)
<1>1. IsTimers(t) /\ IsTimers(u)
  BY TimersAre
<1>2. \A key : Time(t, key) \in Nat /\ Time(u, key) \in Nat
  BY TimeIsNat
<1>3. DOMAIN SumTimers(t, u) = DOMAIN t \union DOMAIN u
  BY DEF SumTimers
<1>4. SumTimers(t, u) \in Timers
  <2>1. SumTimers(t, u) \in [DOMAIN t \union DOMAIN u -> Nat]
    BY <1>2 DEF SumTimers
  <2>2. IsTimers(SumTimers(t, u))
    BY <1>1, <1>3, <2>1 DEF IsTimers
  <2> QED
    BY <2>2, TimersAre
<1>5. ASSUME NEW key
      PROVE  Time(SumTimers(t, u), key) = Time(t, key) + Time(u, key)
  <2>1. CASE key \in DOMAIN t \union DOMAIN u
    BY <1>3, <2>1 DEF SumTimers, Time
  <2>2. CASE key \notin DOMAIN t \union DOMAIN u
    BY <1>3, <2>2 DEF Time
  <2> QED
    BY <2>1, <2>2
<1>6. TotalTime(SumTimers(t, u)) = TotalTime(t) + TotalTime(u)
  BY <1>2, <1>5, TotalIs
<1> QED
  BY <1>3, <1>4, <1>5, <1>6

(* So the sum of two balanced results is balanced.                           *)
LEMMA AddIsResult ==
  ASSUME NEW a \in Results, NEW b \in Results
  PROVE  AddResult(a, b) \in Results
<1>1. /\ a.wall \in Nat /\ b.wall \in Nat
      /\ a.timers \in Timers /\ b.timers \in Timers
      /\ Balanced(a) /\ Balanced(b)
  BY DEF Results
<1> DEFINE t == SumTimers(a.timers, b.timers)
<1>2. /\ t \in Timers
      /\ Time(t, "dump_logs") = Time(a.timers, "dump_logs") + Time(b.timers, "dump_logs")
      /\ TotalTime(t) = TotalTime(a.timers) + TotalTime(b.timers)
  <2>1. \A key : Time(t, key) = Time(a.timers, key) + Time(b.timers, key)
    BY <1>1, SumIsTimers
  <2> QED
    BY <1>1, <2>1, SumIsTimers
<1>3. /\ Time(a.timers, "dump_logs") \in Nat /\ Time(b.timers, "dump_logs") \in Nat
  BY <1>1, TimeIsNat
<1> HIDE DEF t
<1>4. AddResult(a, b) = [wall |-> a.wall + b.wall, timers |-> t]
  BY DEF AddResult, t
<1>5. Balanced([wall |-> a.wall + b.wall, timers |-> t])
  BY <1>1, <1>2, <1>3 DEF Balanced
<1>6. [wall |-> a.wall + b.wall, timers |-> t] \in [wall : Nat, timers : Timers]
  BY <1>1, <1>2
<1> QED
  BY <1>4, <1>5, <1>6 DEF Results

LEMMA NothingIsResult == Nothing \in Results
<1> DEFINE t == [key \in {} |-> 0]
<1>1. t \in [{} -> Nat] /\ DOMAIN t = {}
  OBVIOUS
<1>2. t \in Timers
  BY <1>1, TimersAre DEF IsTimers
<1>3. \A key : Time(t, key) = 0
  BY <1>1 DEF Time
<1> HIDE DEF t
<1>4. TotalTime(t) = 0
  BY <1>3, TotalIs
<1>5. Nothing = [wall |-> 0, timers |-> t]
  BY DEF Nothing, t
<1> QED
  BY <1>2, <1>3, <1>4, <1>5 DEF Results, Balanced

(* Whatever a training records, its overhead makes it a balanced result.     *)
LEMMA TrainingIsResult ==
  ASSUME NEW t \in Recorded, NEW idle \in 0 .. MaxTime,
         NEW wall, wall = TotalTime(t) - Time(t, "dump_logs") + idle
  PROVE  [wall |-> wall, timers |-> WithOverhead(t, wall)] \in Results
<1>1. PICK more \in Optional : t \in [LoopTimers \union more -> 1 .. MaxTime]
  BY DEF Recorded
<1>2. /\ DOMAIN t \subseteq AllTimers /\ t \in [DOMAIN t -> Nat]
      /\ "python_loop_overhead" \notin DOMAIN t
  <2>1. DOMAIN t = LoopTimers \union more
    BY <1>1
  <2>2. \A key \in DOMAIN t : t[key] \in Nat
    BY <1>1, TrialsAssumption
  <2>3. DOMAIN t \subseteq AllTimers
    BY <2>1 DEF AllTimers, Optional
  <2>4. "python_loop_overhead" \notin DOMAIN t
    BY <2>1 DEF Optional, LoopTimers, TrainTimers, LogTimers
  <2>5. t = [key \in DOMAIN t |-> t[key]]
    BY <1>1
  <2> QED
    BY <2>2, <2>3, <2>4, <2>5
<1>3. t \in Timers
  BY <1>2, TimersAre DEF IsTimers
<1> DEFINE accounted == TotalTime(t)
           overhead == IF wall > accounted THEN wall - accounted ELSE 0
           u == WithOverhead(t, wall)
<1>4. /\ \A key : Time(t, key) \in Nat
      /\ Time(t, "python_loop_overhead") = 0
  BY <1>2, <1>3, TimeIsNat DEF Time
<1>5. /\ accounted \in Nat /\ idle \in Nat /\ wall \in Nat /\ overhead \in Nat
      /\ accounted + overhead \in wall .. (wall + Time(t, "dump_logs"))
  <2>1. idle \in Nat
    BY TrialsAssumption
  <2>2. accounted \in Nat /\ Time(t, "dump_logs") <= accounted
    BY <1>4, TotalIs
  <2>3. wall \in Nat
    BY <1>4, <2>1, <2>2
  <2> QED
    BY <1>4, <2>1, <2>2, <2>3
<1>6. u = [key \in DOMAIN t \union {"python_loop_overhead"} |->
             IF key \in DOMAIN t THEN t[key] ELSE overhead]
  BY DEF WithOverhead
<1> HIDE DEF accounted, overhead, u
<1>7. u \in Timers
  <2>1. DOMAIN u \subseteq AllTimers
    BY <1>2, <1>6 DEF AllTimers
  <2>2. u \in [DOMAIN u -> Nat]
    BY <1>2, <1>5, <1>6
  <2> QED
    BY <2>1, <2>2, TimersAre DEF IsTimers
<1>8. /\ Time(u, "python_loop_overhead") = overhead
      /\ \A key : key # "python_loop_overhead" => Time(u, key) = Time(t, key)
  BY <1>2, <1>6 DEF Time
<1>9. TotalTime(u) = accounted + overhead
  BY <1>4, <1>5, <1>8, TotalIs DEF accounted
<1>10. Balanced([wall |-> wall, timers |-> u])
  BY <1>5, <1>8, <1>9 DEF Balanced
<1> QED
  BY <1>5, <1>7, <1>10 DEF Results, u

LEMMA RunIsResult ==
  ASSUME NEW s, NEW u, AreResults(s),
         \E timers \in Recorded, idle \in 0 .. MaxTime :
           LET wall == TotalTime(timers) - Time(timers, "dump_logs") + idle
           IN  u = Append(s, [wall |-> wall,
                              timers |-> WithOverhead(timers, wall)])
  PROVE  AreResults(u) /\ Len(s) \in Nat /\ Len(u) = Len(s) + 1
<1>1. \E r \in Results : u = Append(s, r)
  BY TrainingIsResult
<1>2. s \in Seq(Results)
  BY ResultsSeq
<1>3. u \in Seq(Results) /\ Len(s) \in Nat /\ Len(u) = Len(s) + 1
  BY <1>1, <1>2
<1> QED
  BY <1>3, ResultsSeq

----------------------------------------------------------------------------
(* In every state of the script the trials alternate, the averages are made  *)
(* of all of them, and every result and every sum of results is balanced: its *)
(* timers add up to its wall time, dump_logs alone being counted twice.      *)
THEOREM AbInvariance == AbSpec => []AbIInv
<1>1. AbInit => AbIInv
  <2> SUFFICES ASSUME AbInit PROVE AbIInv
    OBVIOUS
  <2>1. AreResults(<<>>)
    <3>1. <<>> \in Seq(Results)
      OBVIOUS
    <3> QED
      BY <3>1, ResultsSeq
  <2>2. IsResult(Nothing)
    BY NothingIsResult, ResultsAre
  <2> QED
    BY <2>1, <2>2, TrialsAssumption DEF AbInit, AbIInv
<1>2. AbIInv /\ [AbNext]_abVars => AbIInv'
  <2> SUFFICES ASSUME AbIInv, [AbNext]_abVars PROVE AbIInv'
    OBVIOUS
  <2>1. sb3 \in Seq(Results) /\ fr \in Seq(Results) /\ NumTrials \in Nat \ {0}
        /\ Len(sb3) \in Nat /\ Len(fr) \in Nat
    BY ResultsSeq, TrialsAssumption DEF AbIInv
  <2>2. CASE RunSb3
    <3>1. AreResults(sb3') /\ Len(sb3') = Len(sb3) + 1
      BY <2>2, RunIsResult DEF RunSb3, RunOne, AbIInv
    <3> QED
      BY <2>1, <2>2, <3>1 DEF RunSb3, AbIInv
  <2>3. CASE RunFastReplay
    <3>1. AreResults(fr') /\ Len(fr') = Len(fr) + 1
      BY <2>3, RunIsResult DEF RunFastReplay, RunOne, AbIInv
    <3> QED
      BY <2>1, <2>3, <3>1 DEF RunFastReplay, AbIInv
  <2>4. CASE Average
    <3>1. averaged \in Nat /\ averaged + 1 \in 1 .. NumTrials
          /\ averaged + 1 \in 1 .. Len(sb3) /\ averaged + 1 \in 1 .. Len(fr)
      BY <2>1, <2>4 DEF Average, AbIInv
    <3>2. sb3[averaged + 1] \in Results /\ fr[averaged + 1] \in Results
          /\ avgA \in Results /\ avgB \in Results
      BY <2>1, <3>1, ResultsAre DEF AbIInv
    <3>3. IsResult(avgA') /\ IsResult(avgB')
      BY <2>4, <3>2, AddIsResult, ResultsAre DEF Average
    <3> QED
      BY <2>1, <2>4, <3>1, <3>3 DEF Average, AbIInv
  <2>5. CASE UNCHANGED abVars
    BY <2>5 DEF abVars, AbIInv
  <2> QED
    BY <2>2, <2>3, <2>4, <2>5 DEF AbNext
<1> QED
  BY <1>1, <1>2, PTL DEF AbSpec

(* The categories of a column of timers add up to the timers.                *)
LEMMA CategoryTimes ==
  ASSUME NEW t \in Timers
  PROVE  /\ \A cat : Time(Categories(t), cat) \in Nat
         /\ Time(Categories(t), "BufferAdd") = Time(t, "buffer_add")
         /\ Time(Categories(t), "BufferSample") = Time(t, "buffer_sample")
         /\ Time(Categories(t), "Gradient") = Time(t, "gradient_optimization")
         /\ Time(Categories(t), "FrameworkOverhead")
              = Time(t, "episode_bookkeeping") + Time(t, "dump_logs")
         /\ Time(Categories(t), "PythonInterpreter")
              = Time(t, "python_loop_overhead")
<1> DEFINE c == Categories(t)
           in(cat) == {key \in DOMAIN t : Category[key] = cat}
<1>1. /\ DOMAIN t \subseteq AllTimers
      /\ \A key : Time(t, key) \in Nat
  BY TimersAre, TimeIsNat DEF IsTimers
<1>2. ASSUME NEW cat
      PROVE  Time(c, cat) = SumOver(t, in(cat))
  <2>1. CASE cat \in DOMAIN c
    BY <2>1 DEF Time, Categories
  <2>2. CASE cat \notin DOMAIN c
    <3>1. in(cat) = {}
      BY <2>2 DEF Categories
    <3>2. SumOver(t, {}) = 0
      BY DEF SumOver
    <3> QED
      BY <2>2, <3>1, <3>2 DEF Time
  <2> QED
    BY <2>1, <2>2
<1>3. /\ Category["buffer_add"] = "BufferAdd"
      /\ Category["buffer_sample"] = "BufferSample"
      /\ Category["gradient_optimization"] = "Gradient"
      /\ Category["episode_bookkeeping"] = "FrameworkOverhead"
      /\ Category["dump_logs"] = "FrameworkOverhead"
      /\ Category["python_loop_overhead"] = "PythonInterpreter"
  BY DEF Category
<1>4. ASSUME NEW cat, NEW key
      PROVE  (IF key \in in(cat) THEN Time(t, key) ELSE 0)
               = (IF Category[key] = cat THEN Time(t, key) ELSE 0)
  BY DEF Time
<1>5. ASSUME NEW cat
      PROVE  Time(c, cat)
               = (IF "BufferAdd" = cat THEN Time(t, "buffer_add") ELSE 0)
                 + (IF "BufferSample" = cat THEN Time(t, "buffer_sample") ELSE 0)
                 + (IF "Gradient" = cat
                    THEN Time(t, "gradient_optimization") ELSE 0)
                 + (IF "FrameworkOverhead" = cat
                    THEN Time(t, "episode_bookkeeping") ELSE 0)
                 + (IF "FrameworkOverhead" = cat THEN Time(t, "dump_logs") ELSE 0)
                 + (IF "PythonInterpreter" = cat
                    THEN Time(t, "python_loop_overhead") ELSE 0)
  <2> HIDE DEF in
  <2> QED
    BY <1>2, <1>3, <1>4 DEF SumOver
<1> HIDE DEF c, in
<1>6. /\ Time(t, "buffer_add") \in Nat /\ Time(t, "buffer_sample") \in Nat
      /\ Time(t, "gradient_optimization") \in Nat
      /\ Time(t, "episode_bookkeeping") \in Nat /\ Time(t, "dump_logs") \in Nat
      /\ Time(t, "python_loop_overhead") \in Nat
  BY <1>1
<1>7. ASSUME NEW cat PROVE Time(c, cat) \in Nat
  BY <1>5, <1>6
<1>8. Time(c, "BufferAdd") = Time(t, "buffer_add")
  BY <1>5, <1>6
<1>9. Time(c, "BufferSample") = Time(t, "buffer_sample")
  BY <1>5, <1>6
<1>10. Time(c, "Gradient") = Time(t, "gradient_optimization")
  BY <1>5, <1>6
<1>11. Time(c, "FrameworkOverhead")
         = Time(t, "episode_bookkeeping") + Time(t, "dump_logs")
  BY <1>5, <1>6
<1>12. Time(c, "PythonInterpreter") = Time(t, "python_loop_overhead")
  BY <1>5, <1>6
<1> QED
  BY <1>7, <1>8, <1>9, <1>10, <1>11, <1>12 DEF c

LEMMA CategoriesAddUp ==
  ASSUME NEW t \in Timers
  PROVE  ColumnTotal(Categories(t)) = TotalTime(t)
<1>1. \A key : Time(t, key) \in Nat
  BY TimeIsNat
<1>2. ColumnTotal(Categories(t))
        = Time(t, "buffer_add") + Time(t, "buffer_sample")
            + Time(t, "gradient_optimization")
            + (Time(t, "episode_bookkeeping") + Time(t, "dump_logs"))
            + Time(t, "python_loop_overhead")
  BY CategoryTimes DEF ColumnTotal
<1> QED
  BY <1>1, <1>2, TotalIs

(* The averaged decomposition of each buffer adds up to its averaged wall    *)
(* time, dump_logs alone being counted twice, whichever timers ran in which  *)
(* of the trials.                                                            *)
THEOREM AveragesDecompose == AbSpec => []AveragesAddUp
<1>1. AbIInv => AveragesAddUp
  <2> SUFFICES ASSUME AbIInv, NEW avg \in {avgA, avgB}
               PROVE  ColumnTotal(Categories(avg.timers)) \in
                        avg.wall .. (avg.wall + Time(avg.timers, "dump_logs"))
    BY DEF AveragesAddUp
  <2>1. avg.timers \in Timers /\ Balanced(avg)
    BY ResultsAre DEF AbIInv, Results
  <2> QED
    BY <2>1, CategoriesAddUp DEF Balanced
<1> QED
  BY AbInvariance, <1>1, PTL

(* The rows of the table, those only one of the buffers has included, add up *)
(* to the difference of the averaged wall times, but for what dump_logs took *)
(* of either.                                                                *)
THEOREM DiffsDecompose == AbSpec => []DiffsExplainTotal
<1>1. AbIInv => DiffsExplainTotal
  <2> DEFINE logsA == Time(avgA.timers, "dump_logs")
             logsB == Time(avgB.timers, "dump_logs")
  <2> SUFFICES ASSUME AbIInv
               PROVE  ColumnTotal(Diffs) - (avgB.wall - avgA.wall) \in
                        (0 - logsA) .. logsB
    BY DEF DiffsExplainTotal
  <2>1. /\ avgA.timers \in Timers /\ Balanced(avgA) /\ avgA.wall \in Nat
        /\ avgB.timers \in Timers /\ Balanced(avgB) /\ avgB.wall \in Nat
    BY ResultsAre DEF AbIInv, Results
  <2> DEFINE a == Categories(avgA.timers)
             b == Categories(avgB.timers)
  <2>2. /\ logsA \in Nat /\ ColumnTotal(a) \in avgA.wall .. (avgA.wall + logsA)
        /\ logsB \in Nat /\ ColumnTotal(b) \in avgB.wall .. (avgB.wall + logsB)
    BY <2>1, CategoriesAddUp, TimeIsNat DEF Balanced
  <2>3. ASSUME NEW cat PROVE Time(Diffs, cat) = Time(b, cat) - Time(a, cat)
    <3>1. Diffs = [d \in DOMAIN a \union DOMAIN b |-> Time(b, d) - Time(a, d)]
      BY DEF Diffs, Rows
    <3> HIDE DEF a, b
    <3>2. CASE cat \in DOMAIN a \union DOMAIN b
      BY <3>1, <3>2 DEF Time
    <3>3. CASE cat \notin DOMAIN a \union DOMAIN b
      BY <3>1, <3>3 DEF Time
    <3> QED
      BY <3>2, <3>3
  <2>4. \A cat : Time(a, cat) \in Nat /\ Time(b, cat) \in Nat
    BY <2>1, CategoryTimes
  <2> HIDE DEF a, b, logsA, logsB
  <2>5. ColumnTotal(Diffs) = ColumnTotal(b) - ColumnTotal(a)
    <3>1. /\ Time(a, "BufferAdd") \in Nat /\ Time(a, "BufferSample") \in Nat
          /\ Time(a, "Gradient") \in Nat /\ Time(a, "FrameworkOverhead") \in Nat
          /\ Time(a, "PythonInterpreter") \in Nat
          /\ Time(b, "BufferAdd") \in Nat /\ Time(b, "BufferSample") \in Nat
          /\ Time(b, "Gradient") \in Nat /\ Time(b, "FrameworkOverhead") \in Nat
          /\ Time(b, "PythonInterpreter") \in Nat
      BY <2>4
    <3> QED
      BY <2>3, <3>1 DEF ColumnTotal
  <2> QED
    BY <2>1, <2>2, <2>5
<1> QED
  BY AbInvariance, <1>1, PTL
=============================================================================

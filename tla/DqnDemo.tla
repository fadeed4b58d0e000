------------------------------ MODULE DqnDemo ------------------------------
(***************************************************************************)
(* examples/sb3_dqn_demo.py: one DQN agent is trained with FastReplayBuffer *)
(* and a second one with SB3's own ReplayBuffer, and their rewards are     *)
(* compared.  The variables of FastReplayBuffer are the replay buffer of   *)
(* the agent being trained; SB3's own buffer is the same without the ring. *)
(* learn() and evaluate_policy() are SB3's, and external: one environment, *)
(* one call of sample() per training.                                      *)
(***************************************************************************)
EXTENDS FastReplayBuffer, FiniteSets, Sequences

CONSTANTS TrainFreq,       \* train_freq, in steps
          LearningStarts,  \* learning_starts
          MaxTimesteps     \* bound: total_timesteps

ASSUME DemoAssumption ==
  /\ ~OptimizeMemory
  /\ TrainFreq \in Nat \ {0} /\ LearningStarts \in Nat
  /\ MaxTimesteps \in Nat \ {0} /\ MaxAdd >= MaxTimesteps + TrainFreq - 1

VARIABLES
  stage,      \* what the demo does next, or how it ended
  agent,      \* the replay_buffer_class of train_and_evaluate()
  total,      \* total_timesteps
  timesteps,  \* num_timesteps
  collected,  \* num_collected_steps, a local variable: 0 between rollouts
  rewards,    \* of each agent, whether its mean reward is 200 or more
  printed,    \* the line "C++ ring": the ring's size and capacity
  odds        \* ghost: for each agent and training, the transitions sample()
              \* could draw and how many of its indices draw each

progress == <<total, timesteps, collected>>
results == <<rewards, printed, odds>>
demoVars == <<vars, stage, agent, progress, results>>

Agents == {"FastReplayBuffer", "ReplayBuffer"}
Ended == {"valid_drop_in", "more_timesteps"}

DemoTypeOK ==
  /\ TypeOK
  /\ stage \in {"construct", "learn", "rollout", "train", "evaluate", "summary",
                "crashed"} \cup Ended
  /\ agent \in Agents /\ total \in 1 .. MaxTimesteps
  /\ timesteps \in 0 .. MaxAdd /\ collected \in 0 .. TrainFreq
  /\ rewards \in [Agents -> BOOLEAN]
  /\ printed = <<>> \/ printed \in (0 .. Capacity) \X {Capacity}

DemoInit ==
  /\ Init
  /\ stage = "construct" /\ agent = "FastReplayBuffer"
  /\ total \in 1 .. MaxTimesteps /\ timesteps = 0 /\ collected = 0
  /\ rewards = [a \in Agents |-> FALSE] /\ printed = <<>>
  /\ odds = [a \in Agents |-> <<>>]

----------------------------------------------------------------------------
NewBuffer ==
  LET unwritten == [i \in Position |-> Unwritten]
  IN  /\ ringBuf' = NewRing /\ head' = 0 /\ tail' = 0
      /\ pos' = 0 /\ full' = FALSE
      /\ obs' = unwritten /\ nextObs' = unwritten /\ actions' = unwritten
      /\ pc' = "idle" /\ added' = 0 /\ since' = 0

\* model = DQN(...): a new model has a new buffer.
Construct ==
  /\ stage = "construct" /\ stage' = "learn"
  /\ NewBuffer
  /\ timesteps' = 0
  /\ UNCHANGED <<agent, total, collected, results>>

\* model.learn(total_timesteps) collects whole rollouts until it has enough.
Learn ==
  /\ stage = "learn"
  /\ stage' = (IF timesteps < total THEN "rollout" ELSE "evaluate")
  /\ UNCHANGED <<vars, agent, progress, results>>

\* SB3's own add() has no ring to feed.
AddWithoutRing ==
  /\ pc = "idle" /\ added < MaxAdd
  /\ pc' = "store"
  /\ UNCHANGED <<ring, pos, full, storage, added, since>>

\* Mutant: the step is not counted.
UncountedStep == timesteps

CountedStep == timesteps + 1

\* A step of the environment, counted before add() is called with it.
EnvStep ==
  /\ stage = "rollout" /\ collected < TrainFreq
  /\ IF agent = "FastReplayBuffer" THEN Evict ELSE AddWithoutRing
  /\ timesteps' = CountedStep /\ collected' = collected + 1
  /\ UNCHANGED <<stage, agent, total, results>>

\* The rest of add().
AddStep ==
  /\ PushIndex \/ StoreObs \/ StoreRest \/ AdvancePos
  /\ UNCHANGED <<stage, agent, progress, results>>

RolloutEnd ==
  /\ stage = "rollout" /\ collected = TrainFreq /\ pc = "idle"
  /\ stage' = (IF timesteps > LearningStarts THEN "train" ELSE "learn")
  /\ collected' = 0
  /\ UNCHANGED <<vars, agent, total, timesteps, results>>

\* What each index sample() can draw stands for: a slot of the ring, or a
\* position SB3 wrote.
Draws ==
  IF agent = "FastReplayBuffer"
  THEN [s \in SampledSlots |-> SampleAt(ringBuf[s])]
  ELSE [i \in (IF full THEN Position ELSE 0 .. (pos - 1)) |-> SampleAt(i)]

Odds ==
  [t \in {Draws[i] : i \in DOMAIN Draws} |->
     Cardinality({i \in DOMAIN Draws : Draws[i] = t})]

\* train(): one gradient step on a batch; both buffers throw if they have
\* nothing to sample.
Train ==
  /\ stage = "train"
  /\ stage' = (IF DOMAIN Draws = {} THEN "crashed" ELSE "learn")
  /\ odds' = [odds EXCEPT ![agent] = Append(@, Odds)]
  /\ UNCHANGED <<vars, agent, progress, rewards, printed>>

\* evaluate_policy(), whose reward may be anything, then the lines printed: only
\* FastReplayBuffer has a ring_size.
Evaluate ==
  /\ stage = "evaluate"
  /\ \E solved \in BOOLEAN : rewards' = [rewards EXCEPT ![agent] = solved]
  /\ IF agent = "FastReplayBuffer"
     THEN /\ printed' = <<RingSize, Capacity>>
          /\ agent' = "ReplayBuffer" /\ stage' = "construct"
     ELSE UNCHANGED <<printed, agent>> /\ stage' = "summary"
  /\ UNCHANGED <<vars, progress, odds>>

Summary ==
  /\ stage = "summary"
  /\ stage' = (IF \A a \in Agents : rewards[a] THEN "valid_drop_in"
               ELSE "more_timesteps")
  /\ UNCHANGED <<vars, agent, progress, results>>

DemoNext ==
  \/ Construct \/ Learn \/ EnvStep \/ AddStep \/ RolloutEnd
  \/ Train \/ Evaluate \/ Summary

\* A sequential script: it takes its next step as long as there is one.
DemoSpec == DemoInit /\ [][DemoNext]_demoVars /\ WF_demoVars(DemoNext)

----------------------------------------------------------------------------
\* "two identical DQN agents", as far as the buffers go: in every training the
\* second agent draws from the same transitions as the first one did in the
\* training of the same number, each with the same odds.
SameOdds ==
  /\ \A i \in 1 .. Len(odds["ReplayBuffer"]) :
       odds["ReplayBuffer"][i] = odds["FastReplayBuffer"][i]
  /\ stage \in Ended =>
       Len(odds["ReplayBuffer"]) = Len(odds["FastReplayBuffer"])

\* Rollouts are collected whole until total_timesteps are reached.
RolloutsNeeded == (total + TrainFreq - 1) \div TrainFreq

\* The "C++ ring" printed is full exactly when the steps made, total_timesteps
\* rounded up to whole rollouts, reach buffer_size (in the demo they are equal),
\* and counts them otherwise.
RingReport ==
  LET made == TrainFreq * RolloutsNeeded
  IN  printed # <<>> =>
        printed[1] = (IF made >= Capacity THEN Capacity ELSE made)

\* The demo comes to its verdict: it trains on no empty buffer, and no rollout
\* or learn() goes on for ever.
DemoEnds == <>(stage \in Ended)

----------------------------------------------------------------------------
(* The inductive invariant.  Training number i of an agent draws from what  *)
(* it stored in the first TrainSteps(i) steps, whichever buffer it has.      *)

\* The rollouts collected, the one in progress not counted.
Rollouts == (timesteps - collected) \div TrainFreq

\* The last rollout after which there is no training yet.
Warmup == LearningStarts \div TrainFreq

TrainSteps(i) == TrainFreq * (Warmup + i)

Trainings(r) == IF r > Warmup THEN r - Warmup ELSE 0

\* Each of the newest transitions after t steps, as many as fit, with one index.
NewestOdds(t) ==
  [s \in {Transition(k) : k \in (IF t > Capacity THEN t - Capacity ELSE 0)
                                  .. (t - 1)} |-> 1]

\* The trainings of each agent so far.
Trained(a) ==
  IF a # agent THEN IF a = "ReplayBuffer" THEN 0 ELSE Trainings(RolloutsNeeded)
  ELSE IF stage = "construct" THEN 0
  ELSE IF stage = "train" THEN Trainings(Rollouts) - 1
  ELSE Trainings(Rollouts)

\* Only FastReplayBuffer's ring is in step with SB3's storage: SB3's own buffer
\* has none.
BufferInv ==
  /\ TypeOK /\ PosInv /\ DataInv /\ since = added
  /\ agent = "FastReplayBuffer" => RingInv
  /\ agent = "ReplayBuffer" => pc # "push"

StepsInv ==
  /\ timesteps = Begun /\ collected <= timesteps
  /\ timesteps - collected = TrainFreq * Rollouts
  /\ timesteps - collected - TrainFreq < total
  /\ stage = "rollout" => timesteps - collected < total
  /\ stage # "rollout" => pc = "idle" /\ collected = 0
  /\ stage = "train" => timesteps > LearningStarts
  /\ stage \in {"evaluate", "summary"} \cup Ended => timesteps >= total

OddsInv ==
  odds = [a \in Agents |-> [i \in 1 .. Trained(a) |-> NewestOdds(TrainSteps(i))]]

StageInv ==
  /\ stage # "crashed"
  /\ agent = "FastReplayBuffer" =>
       printed = <<>> /\ stage \notin {"summary"} \cup Ended

DemoIInv ==
  /\ DemoTypeOK
  /\ BufferInv
  /\ StepsInv
  /\ OddsInv
  /\ StageInv
  /\ RingReport
=============================================================================

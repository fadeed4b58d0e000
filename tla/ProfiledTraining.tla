-------------------------- MODULE ProfiledTraining --------------------------
(***************************************************************************)
(* GranularProfiledDQN (benchmarks/profiling/scripts/sb3_granular_profile  *)
(* .py): SB3's off-policy training loop rewritten with a timer around each *)
(* operation, the transitions it hands to replay_buffer.add(), and the     *)
(* report made of the timers.  One environment; learn() is SB3's.          *)
(*                                                                         *)
(* An operation takes 0 or 1 units of time, and so does the code between   *)
(* two timers.  timed is the sum of all timers but dump_logs, which runs   *)
(* inside another timed section.  An observation is the step of an episode *)
(* it was made at, whether VecNormalize normalised it, and whether it is   *)
(* exact: VecNormalize clips what it normalises, for good.                 *)
(*                                                                         *)
(* sb3_profile.py times the same loop from outside, by wrappers of the     *)
(* environment, the buffer and train(); wrapper holds its accumulators.    *)
(***************************************************************************)
EXTENDS Integers, Sequences

CONSTANTS TrainFreq,      \* train_freq, in steps
          MaxSteps,       \* bound: no rollout begins after so many steps
          MaxEpisodeLen,  \* bound: steps of an episode
          MaxEpisodes,    \* bound: learn() is not called after so many
          MaxRaises,      \* bound: calls of train() that raise
          MaxNow          \* bound: the units of time that pass

ASSUME TrainAssumption == TrainFreq \in Nat \ {0}
ASSUME StepsAssumption ==
  MaxSteps \in Nat /\ MaxEpisodes \in Nat /\ MaxEpisodeLen \in Nat \ {0}
ASSUME RaisesAssumption == MaxRaises \in Nat
ASSUME NowAssumption == MaxNow \in Nat

VARIABLES
  pc,                      \* the next section
  normalize,               \* there is a _vec_normalize_env
  envObs,                  \* the observation the environment is in
  newObs, done, terminal,  \* what env.step returned: new_obs, dones, and
                           \* infos' terminal_observation, <<>> if None
  lastObs, lastOriginal,   \* _last_obs, _last_original_obs
  nextObs,                 \* next_obs
  stored,                  \* the arguments of the last replay_buffer.add()
  collected,               \* num_collected_steps
  steps,                   \* num_timesteps
  now, timed, logged,      \* perf_counter(); the timers; dump_logs' timer
  sampled,                 \* of the timers, buffer_sample
  wrapper,                 \* sb3_profile.py: total_step_time plus
                           \* total_add_time, total_sample_time and
                           \* total_train_time
  samples,                 \* the sample_time_acc of each timed_sample that
                           \* replay_buffer.sample is wrapped in, one around
                           \* the other, the outermost last
  trainStart,              \* t_total, in train()
  stepped,                 \* ghost: the last environment step
  inSample,                \* ghost: the time sample() took in this train()
  spent                    \* ghost: and in all calls of train() that returned

observations == <<envObs, newObs, done, terminal, lastObs, lastOriginal,
                  nextObs, stored, stepped>>
training == <<samples, trainStart, inSample, spent>>
clock == <<now, timed, logged, sampled, wrapper>>
progress == <<collected, steps>>
vars == <<pc, normalize, observations, progress, clock, training>>

Obs(episode, step) ==
  [episode |-> episode, step |-> step, norm |-> FALSE, exact |-> TRUE]

\* VecNormalize's normalize_obs, which may clip, and unnormalize_obs.
Normalized(obs) == {[obs EXCEPT !.norm = TRUE, !.exact = e] : e \in BOOLEAN}
Unnormalized(obs) == [obs EXCEPT !.norm = FALSE]

\* An observation as the environment hands it out.
Seen(obs) == IF normalize THEN Normalized(obs) ELSE {obs}

Transition(from, to) == [obs |-> from, next |-> to]
Accumulators(outside, sample, train) ==
  [outside |-> outside, sample |-> sample, train |-> train]

Init ==
  /\ pc = "learn" /\ normalize \in BOOLEAN
  /\ envObs = Obs(0, 0)
  /\ newObs = envObs /\ done = FALSE /\ terminal = <<>>
  /\ lastObs = envObs /\ lastOriginal = envObs
  /\ nextObs = envObs /\ stored = Transition(envObs, envObs)
  /\ stepped = stored
  /\ collected = 0 /\ steps = 0
  /\ now = 0 /\ timed = 0 /\ logged = 0 /\ sampled = 0
  /\ wrapper = Accumulators(0, 0, 0)
  /\ samples = <<>> /\ trainStart = 0 /\ inSample = 0 /\ spent = 0

----------------------------------------------------------------------------
\* The time one thing may take.
Durations == IF now < MaxNow THEN 0..1 ELSE {0}

\* A section runs for d between its _tick and its _tock, then comes the next.
Timed(from, to, d) ==
  /\ pc = from /\ pc' = to
  /\ now' = now + d /\ timed' = timed + d
  /\ UNCHANGED <<normalize, logged, sampled, training>>

Section(from, to) ==
  /\ \E d \in Durations : Timed(from, to, d)
  /\ UNCHANGED wrapper

\* The wrappers add to their accumulators.
Wrap(outside, sample, train) ==
  wrapper' = Accumulators(wrapper.outside + outside, wrapper.sample + sample,
                          wrapper.train + train)

\* A section that is env.step() or replay_buffer.add(), which a wrapper times.
WrappedSection(from, to) ==
  \E d \in Durations :
    /\ Timed(from, to, d)
    /\ Wrap(d, 0, 0)

\* learn() is called, with reset_num_timesteps as it is by default: SB3 resets
\* the environment, remembers its observation and counts from 0.
Learn ==
  /\ pc \in {"learn", "report"} /\ envObs.episode < MaxEpisodes
  /\ pc' = "rollout"
  /\ envObs' = Obs(envObs.episode + 1, 0)
  /\ lastObs' \in Seen(envObs')
  /\ lastOriginal' = envObs'
  /\ collected' = 0 /\ steps' = 0
  /\ UNCHANGED <<normalize, newObs, done, terminal, nextObs, stored, stepped,
                 clock, training>>

\* on_rollout_start
RolloutStart ==
  /\ steps < MaxSteps
  /\ Section("rollout", "loop")
  /\ collected' = 0
  /\ UNCHANGED <<observations, steps>>

\* Mutant: one step more than train_freq.
ShouldCollectOneMore == collected <= TrainFreq

\* should_collect_more_steps
ShouldCollect == collected < TrainFreq

\* The loop's condition, and the interpreter's own time.
Loop ==
  /\ pc = "loop"
  /\ pc' = (IF ShouldCollect THEN "policy_inference" ELSE "rollout_end")
  /\ \E d \in Durations : now' = now + d
  /\ UNCHANGED <<normalize, observations, progress, timed, logged, sampled,
                 wrapper, training>>

PolicyInference ==
  /\ Section("policy_inference", "env_step")
  /\ UNCHANGED <<observations, progress>>

\* A VecEnv resets an environment that is done: new_obs is then the next
\* episode's first observation, the last one is in infos.
EnvStep ==
  /\ WrappedSection("env_step", "bookkeeping")
  /\ LET after == Obs(envObs.episode, envObs.step + 1)
     IN  /\ done' \in IF after.step = MaxEpisodeLen THEN {TRUE} ELSE BOOLEAN
         /\ envObs' = (IF done' THEN Obs(after.episode + 1, 0) ELSE after)
         /\ newObs' \in Seen(envObs')
         /\ terminal' \in IF done' THEN {<<o>> : o \in Seen(after)} ELSE {<<>>}
         /\ stepped' = Transition(envObs, after)
  /\ UNCHANGED <<lastObs, lastOriginal, nextObs, stored, progress>>

Bookkeeping ==
  /\ Section("bookkeeping", "callback_on_step")
  /\ steps' = steps + 1 /\ collected' = collected + 1
  /\ UNCHANGED observations

CallbackGoesOn ==
  /\ Section("callback_on_step", "preprocess")
  /\ UNCHANGED <<observations, progress>>

\* on_step returns False: collect_rollouts returns before the _tock, and
\* before the transition is stored.
CallbackStops ==
  /\ pc = "callback_on_step" /\ pc' = "report"
  /\ \E d \in Durations : now' = now + d
  /\ UNCHANGED <<normalize, observations, progress, timed, logged, sampled,
                 wrapper, training>>

\* The terminal observation, if env.step returned one, in next_obs.
HasTerminal == done /\ terminal # <<>>
Terminal == IF normalize THEN Unnormalized(terminal[1]) ELSE terminal[1]

\* Mutant: next_obs is new_obs_ itself, which is new_obs if nothing
\* normalises, and the terminal observation is written into both.
NoDeepcopy(new) ==
  /\ nextObs' = (IF HasTerminal THEN Terminal ELSE new)
  /\ newObs' = (IF HasTerminal /\ ~normalize THEN Terminal ELSE newObs)

\* next_obs: a copy of the new observation, or the terminal one.
CopyNext(new) ==
  /\ nextObs' = (IF HasTerminal THEN Terminal ELSE new)
  /\ UNCHANGED newObs

\* VecNormalize's get_original_obs: what the environment itself returned last.
OriginalObs == envObs

\* Preprocessing, after the info buffer's update.
Preprocess ==
  /\ Section("preprocess", "buffer_add")
  /\ IF normalize
     THEN UNCHANGED lastOriginal /\ CopyNext(OriginalObs)
     ELSE lastOriginal' = lastObs /\ CopyNext(newObs)
  /\ UNCHANGED <<envObs, done, terminal, lastObs, stored, stepped, progress>>

BufferAdd ==
  /\ WrappedSection("buffer_add", "postprocess")
  /\ stored' = Transition(lastOriginal, nextObs)
  /\ UNCHANGED <<envObs, newObs, done, terminal, lastObs, lastOriginal, nextObs,
                 stepped, progress>>

RememberObs ==
  /\ lastObs' = newObs
  /\ lastOriginal' = (IF normalize THEN OriginalObs ELSE lastOriginal)

Postprocess ==
  /\ Section("postprocess", "episode_bookkeeping")
  /\ RememberObs
  /\ UNCHANGED <<envObs, newObs, done, terminal, nextObs, stored, stepped,
                 progress>>

\* Progress, _on_step and the episodes' bookkeeping; a finished episode may
\* be one whose number log_interval divides, which dumps the logs within it.
EpisodeBookkeeping ==
  /\ pc = "episode_bookkeeping" /\ pc' = "loop"
  /\ \E d \in Durations, l \in Durations :
       /\ l > 0 => done
       /\ now' = now + d + l
       /\ timed' = timed + d + l
       /\ logged' = logged + l
  /\ UNCHANGED <<normalize, observations, progress, sampled, wrapper, training>>

\* on_rollout_end; learn() trains once learning_starts steps were made, and
\* returns when it made as many steps as it was asked for.
RolloutEnd ==
  /\ \E next \in {"train", "rollout", "report"} : Section("rollout_end", next)
  /\ UNCHANGED <<observations, progress>>

\* train(): t_total, and replay_buffer.sample is wrapped in a timed_sample with
\* a sample_time_acc of its own.
TrainBegins ==
  /\ pc = "train" /\ pc' = "sample"
  /\ trainStart' = now
  /\ samples' = Append(samples, 0)
  /\ UNCHANGED <<normalize, observations, progress, clock, inSample, spent>>

\* Mutant: sample_time_acc is one for all calls (an attribute that train() sets
\* to 0), and every timed_sample around sample() adds to it.
SharedAccumulator(d) ==
  [samples EXCEPT ![Len(samples)] = @ + Len(samples) * d]

\* A sample() that took d returns through every timed_sample around it; each
\* adds to the sample_time_acc of the call of train() that made it.
TimedSample(d) == [i \in 1 .. Len(samples) |-> samples[i] + d]

\* super().train() draws a batch, ...
Sample ==
  /\ pc = "sample" /\ pc' = "optimize"
  /\ \E d \in Durations :
       /\ now' = now + d
       /\ samples' = TimedSample(d)
       /\ inSample' = inSample + d
       /\ Wrap(0, d, 0)
  /\ UNCHANGED <<normalize, observations, progress, timed, logged, sampled,
                 trainStart, spent>>

\* ... makes a step with it, and so on gradient_steps times.
Optimize ==
  /\ pc = "optimize" /\ pc' \in {"sample", "train_end"}
  /\ \E d \in Durations : now' = now + d
  /\ UNCHANGED <<normalize, observations, progress, timed, logged, sampled,
                 wrapper, training>>

\* The end of train(): replay_buffer.sample is the original_sample again, and
\* the time since t_total goes to buffer_sample as far as this call's
\* sample_time_acc has it, to gradient_optimization for the rest.
TrainEnds ==
  /\ pc = "train_end" /\ pc' \in {"rollout", "report"}
  /\ LET total_train == now - trainStart
         sample_time_acc == samples[Len(samples)]
     IN  /\ sampled' = sampled + sample_time_acc
         /\ timed' = timed + sample_time_acc + (total_train - sample_time_acc)
         /\ Wrap(0, 0, total_train)
  /\ samples' = SubSeq(samples, 1, Len(samples) - 1)
  /\ trainStart' = 0 /\ inSample' = 0 /\ spent' = spent + inSample
  /\ UNCHANGED <<normalize, observations, progress, now, logged>>

\* super().train() raises, in sample() or after it: no timer counts the time,
\* the timed_sample stays where it is, and learn() raises; the caller may call
\* it again.
TrainRaises ==
  /\ pc \in {"sample", "optimize"} /\ Len(samples) <= MaxRaises
  /\ pc' = "learn"
  /\ \E d \in Durations : now' = now + d
  /\ trainStart' = 0 /\ inSample' = 0
  /\ UNCHANGED <<normalize, observations, progress, timed, logged, sampled,
                 wrapper, samples, spent>>

Train == TrainBegins \/ Sample \/ Optimize \/ TrainEnds \/ TrainRaises

Rollout ==
  \/ RolloutStart \/ Loop \/ PolicyInference \/ EnvStep \/ Bookkeeping
  \/ CallbackGoesOn \/ CallbackStops \/ Preprocess \/ BufferAdd
  \/ Postprocess \/ EpisodeBookkeeping \/ RolloutEnd

Next == Learn \/ Rollout \/ Train

Spec == Init /\ [][Next]_vars

----------------------------------------------------------------------------
Accounted == timed + logged

\* python_loop_overhead
Overhead == IF now > Accounted THEN now - Accounted ELSE 0

\* Mutant: sb3_profile.py does not take the sampling out of train().
GrossGradTime == wrapper.train

\* net_grad_time, other_time
NetGradTime ==
  IF wrapper.train > wrapper.sample THEN wrapper.train - wrapper.sample ELSE 0
WrapperTotal == wrapper.outside + wrapper.sample + NetGradTime
OtherTime == IF now > WrapperTotal THEN now - WrapperTotal ELSE 0

Observation == [episode : Nat, step : Nat, norm : BOOLEAN, exact : BOOLEAN]

TypeOK ==
  /\ normalize \in BOOLEAN /\ done \in BOOLEAN
  /\ collected \in 0 .. TrainFreq /\ steps \in 0 .. MaxSteps + TrainFreq
  /\ envObs.norm = FALSE /\ lastOriginal.norm = FALSE /\ nextObs.norm = FALSE
  /\ terminal \in Seq(Observation) /\ Len(terminal) <= 1
  /\ now \in Nat /\ timed \in Nat /\ logged \in Nat /\ sampled \in Nat
  /\ wrapper \in [outside : Nat, sample : Nat, train : Nat]
  /\ samples \in Seq(Nat) /\ Len(samples) <= MaxRaises + 1
  /\ trainStart \in Nat /\ inSample \in Nat /\ spent \in Nat

\* The agent has caught up with the environment ...
BeforeStep ==
  /\ lastObs \in Seen(envObs)
  /\ normalize => lastOriginal = envObs

\* ... is one step behind it, which env.step() returned ...
AfterStep ==
  /\ lastObs \in Seen(stepped.obs)
  /\ normalize => lastOriginal = stepped.obs
  /\ newObs \in Seen(envObs)
  /\ IF done THEN terminal \in {<<o>> : o \in Seen(stepped.next)}
             ELSE envObs = stepped.next

\* The step's next observation as it is stored: that of the last step of an
\* episode has been normalised and back, and may have been clipped.
NextStored ==
  IF normalize /\ done THEN [stepped.next EXCEPT !.exact = terminal[1].exact]
                       ELSE stepped.next

\* ... or has put together, or stored, that step.
Prepared ==
  /\ lastOriginal = stepped.obs /\ nextObs = NextStored
  /\ newObs \in Seen(envObs)

\* Where each observation is, section by section.
ObsInv ==
  /\ envObs \in Observation /\ lastOriginal \in Observation
  /\ envObs.norm = FALSE
  /\ stepped \in [obs : Observation, next : Observation]
  /\ stepped.obs.norm = FALSE /\ stepped.next.norm = FALSE
  /\ pc \in {"rollout", "loop", "policy_inference", "env_step",
             "episode_bookkeeping", "rollout_end", "train", "sample",
             "optimize", "train_end"} => BeforeStep
  /\ pc \in {"bookkeeping", "callback_on_step", "preprocess"} => AfterStep
  /\ pc \in {"buffer_add", "postprocess"} => Prepared
  /\ pc = "postprocess" => stored = Transition(stepped.obs, NextStored)

\* The timers never run ahead of the clock, one by one or together.
TimersInv ==
  /\ timed <= now
  /\ wrapper.outside + wrapper.train <= now
  /\ wrapper.outside + wrapper.sample <= now

InTrain == {"sample", "optimize", "train_end"}

\* In train() they stopped when it began, and the accumulator it made has timed
\* its sample() alone; those of the calls that raised are under it, MaxRaises
\* at most.
TrainInv ==
  IF pc \in InTrain
  THEN /\ samples # <<>> /\ samples[Len(samples)] = inSample
       /\ trainStart <= now /\ timed <= trainStart
       /\ wrapper.outside + wrapper.train <= trainStart
  ELSE Len(samples) <= MaxRaises /\ inSample = 0

ClockInv == TimersInv /\ TrainInv /\ sampled = spent

\* A rollout begins before the last step that may begin one.
CountInv ==
  /\ pc \in {"policy_inference", "env_step", "bookkeeping"} =>
       collected < TrainFreq
  /\ steps <= MaxSteps + collected

\* The strengthening of the properties below that every step preserves.
IInv == TypeOK /\ ObsInv /\ ClockInv /\ CountInv

\* What the loop stores is one step of the environment: the observation the
\* action was chosen in and the one it led to, in the same episode and not
\* normalised, across ends of episodes and calls of learn().  Only the last
\* observation of an episode may lack what VecNormalize clipped off it.
StoredIsEnvStep ==
  pc = "postprocess" => stored = Transition(stepped.obs, NextStored)

\* buffer_sample's timer is the time spent in sample() by the calls of train()
\* that returned, each time counted once, although sample() is still wrapped in
\* the timed_sample of every call that raised.
SamplingTimedOnce == sampled = spent

\* The components of sb3_profile.py's table add up to its total wall time
\* exactly, although sample() runs inside train().
WrapperReportIsWallTime == WrapperTotal + OtherTime = now

\* The decomposition "fully accounts for 100% of wall-clock time with NO
\* residual overhead bucket" (the script's docstring).
FullyAccounted == pc = "report" => Accounted = now /\ Overhead = 0
=============================================================================

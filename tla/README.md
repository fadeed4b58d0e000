# FastReplay in TLA+

FastReplay (`../src`) is a ring buffer for reinforcement learning: a C++
single-producer single-consumer queue synchronised by two atomics, Python
bindings that expose its memory to NumPy, and a replay buffer for
Stable-Baselines3 that keeps its indices in such a ring. This directory holds
TLA+ models of it, the TLC configurations that check them on small instances,
and theorems that TLAPS proves for every capacity and every number of calls: about
both rings, their Python class, the replay buffer, also when its `add` fails, the
demo, the instrumented training loop and the table that compares two trainings.

## The system

| Component | Source | State | Operations | Model |
| --- | --- | --- | --- | --- |
| lock-free `RingBuffer` | `include/fastreplay/ring_buffer.hpp` | `buf_` (capacity + 1 ints), atomics `head_`, `tail_` | `push`, `pop`, `advance_head`, `size`, `empty`, `sample_indices` | `SpscRing`, `SpscObserver`, `SpscStress` |
| mutex `RingBuffer` | `include/fastreplay/ring_buffer_mutex.hpp`, `src/fastreplay_baseline.cpp` | the same fields, plain, and `mtx_` | `push`, `pop`, `size`, `empty` | `MutexRing` |
| Python bindings | `src/fastreplay.cpp` | the ring, and the arrays that alias its memory | the above, `pop_view`, `sample_indices`, the buffer protocol | `PyRing` |
| `FastReplayBuffer` | `fastreplay_sb3/__init__.py` | an index ring beside SB3's `pos`, `full` and arrays | `add`, `reset`, `sample` | `FastReplayBuffer`, `FailedAdd`, `ActorLearner` |
| training profiles | `benchmarks/profiling/scripts/sb3_granular_profile.py`, `sb3_profile.py` | timers, the observations carried from step to step | `collect_rollouts`, `train`, the reports | `ProfiledTraining` |
| A/B comparison | `benchmarks/profiling/scripts/sb3_ab_comparison.py` | the results of the trials so far | alternating trainings, averages, the table | `AbComparison` |
| demo | `examples/sb3_dqn_demo.py` | the agent in training and its replay buffer | `train_and_evaluate` for both buffers, the summary | `DqnDemo` |
| stress test | `tests/test_stub.cpp`, `ConcurrentSPSC` | two spinning loops | | `SpscStress` |

How they interact. The producer thread (`push`) and the consumer thread (`pop`,
`sample_indices`, `advance_head`) share `buf_` and meet only at `head_` and
`tail_`. The bindings call the ring with the GIL held, so Python calls are
ordered, but the arrays they return share its memory with later calls.
`FastReplayBuffer.add` evicts and pushes a position in the ring and then calls
SB3's `add`; `sample` asks the ring for slots, reads positions from its memory
and lets SB3 gather the data. The profiled training loops call `add` and
`sample` of whichever buffer they are given.

What is hard: plain accesses to `buf_` ordered only by acquire and release;
decisions on stale loads; a size made of two loads; indices and views used after
the call that returned them; wrap-around, where full and empty differ by one
slot; two records of the same positions (the ring, and SB3's `pos` and `full`)
that must stay in step over laps, resets and failures. `PROJECT.json` lists the
hazards at their lines, with the properties that watch them.

## The modules

- `RingOps`: the index arithmetic all rings share, with the capacity and its
  assumption (any natural number, 0 included).
- `BoundedFifo`: what a ring promises, a FIFO queue of bounded length with a
  history of what the removals returned. `SpscRing` and `MutexRing` implement it.
- `ReplayMemory`: what a replay buffer promises, a window of the newest
  transitions, each whole. `FastReplayBuffer` implements it.
- `SpscRing`: the lock-free ring; the centre of the project.
- `SpscStress`, `SpscObserver`: `SpscRing` under the stress test's two loops with
  fairness, and with a third thread that calls `size()`.
- `MutexRing`: the mutex ring with any number of threads.
- `PyRing`: the Python class, and arrays that outlive the call.
- `FastReplayBuffer`, `FailedAdd`, `ActorLearner`: the replay buffer; the same
  with a `super().add()` that raises; the same with a second thread in `sample()`.
- `ProfiledTraining`: the instrumented training loop.
- `AbComparison`: the trials of the A/B script and the averages it compares.
- `ProfilingScripts`: the two together, of which a user starts one; one run checks both.
- `DqnDemo`: the demo, which trains an agent with each buffer and compares them.
- `RingOpsProofs`, `SpscRingProofs`, `MutexRingProofs`, `PyRingProofs`,
  `ReplayProofs`, `FailedAddProofs`, `DqnDemoProofs`, `TrainingProofs`: the theorems,
  those of `AbComparison` and `ProfilingScripts` in the last.

`SpscRing`, `MutexRing`, `PyRing` and `FastReplayBuffer` extend `RingOps`;
`SpscStress` and `SpscObserver` compose `SpscRing` with a driver; `FailedAdd`,
`ActorLearner` and `DqnDemo` compose `FastReplayBuffer` with a failing caller, a
learner and a training.

### `SpscRing`: the memory model

Each atomic is its modification order: `headHist` and `tailHist` are the sequences
of the values stored, so the current `head_` is the last of `headHist`. Only the
consumer stores `head_` and only the producer `tail_`, so a thread's own load
returns the last value. The other thread's load may return any value not older
than the last it saw (`pSeen`, `cSeen`: positions in these sequences): this is
coherence, and it lets loads be as stale as C++ allows. An acquire load of a
release store at position k makes everything sequenced before that store happen
before what follows the load: the thread has then *synchronised with* k (`pSync`,
`cSync`). The memory orders are definitions of their own (`PushHeadLoad`,
`TailStore`, ...), and weakening one is a mutant that TLC catches.

Accesses to `buf_` are separate steps. `wroteAt[s]` is the position of the store of
`tail_` that publishes the last write of slot s, `lastRead[s]` the position of the
store of `head_` that follows its last read. A read races unless the consumer has
synchronised with `wroteAt`, and a racing read may return any value (`Readable`); a
write races unless the producer has synchronised with `lastRead`. `NoDataRace` says
neither happens.

The model executes each thread in program order. It has no load that returns a
value not yet stored; C++ allows none here that matters, since each thread stores
its own index after the loads and the branch its value depends on. The position
used as "publishes" is the thread's next store of its own index, since that is
the next release operation in program order. `pop(nullptr)` and
`advance_head` return `NoValue`. `advance_head(n)` takes an `n` of at most the size
the consumer last saw, as its only caller `pop_view` does. `sample_indices` returns a
batch; one index stands for each, and it is read before the consumer's next call.

| Action | Code |
| --- | --- |
| `PushFull`, `PushBegin` | `push`: the loads and the test (lines 50-58) |
| `PushWrite`, `PushPublish` | `buf_[cur_tail] = value` (59), the store of `tail_` (60-65) |
| `PopEmpty`, `PopBegin`, `PopRead`, `PopPublish` | `pop`: test (71-77), read unless null (78-80), store of `head_` (82-86) |
| `AdvanceHead` | `advance_head` (39-45) |
| `SampleEmpty`, `SampleBegin`, `SampleRead` | `sample_indices` (119-148) and the caller's read |
| `ProducerSize`, `ConsumerSize` | `size`, `empty` (89-105) by either thread |

### The other models

`MutexRing`: a call is `Call`, `Lock`, then the statements of the operation under
the lock (`Answer` for an early return or a size, `Proceed`, `PushWrite` /
`PopRead`, `PushTail` / `PopHead`), then `Unlock`, the end of the lock_guard's scope.
`IInv` says that the mutex belongs to the one thread past its lock_guard (`MutexInv`),
that the room or the element it found is still there while it works (`WorkInv`), and
that its value is on the way into, or out of, the right slot (`ArgInv`).

`PyRing`: one step per binding call, since the bindings hold the GIL; `size()` is
computed as the code does, in unsigned arithmetic modulo `SizeT`. `sampled` is an index `sample_indices` returned,
kept by the caller over later calls (as `sample_pipeline_bench.py` keeps thousands);
its ghost `lasts` counts down the pushes until its slot is rewritten. `batch` is the last array `pop_view` returned:
an address range of `buf_` when contiguous, the copied ints otherwise. An address
past the end reads anything (`Memory`). `WriteSlot` is a write through
`np.asarray(rb)` or through a view. `spare` counts down the pushes until the first
removed slot is rewritten, and stops at -Capacity, where all are; nothing else
needs a bound. Calls that are refused (False, None, an exception) change nothing and
are no action.

`FastReplayBuffer`: `add` is `Evict`, `PushIndex`, then SB3's `StoreObs`, `StoreRest`,
`AdvancePos`; `Reset` is `reset`; `sample` changes nothing and is the operators
`SampledSlots`, `SampledPositions` and `SampleAt`. The k-th transition goes from
observation k to k + 1, so `Transition(k)` tells a whole transition from a mixture.
SB3's `add`, `_get_samples` and `reset` are external, modelled from what
`FastReplayBuffer` inherits and its tests (`tests/test_sb3_compat.py`) assert of it.
SB3 passes `max(buffer_size // n_envs, 1)` positions, so the capacity is positive.

`FailedAdd`: `super().add()` may raise at any of its steps: before it writes, between the
writes of the arrays, or after those of this model. The position was already
pushed, and is pushed again by the next call, so the ring runs a call ahead of `pos`;
`MirrorsAfterLap` says that it mirrors SB3's storage again a lap after the last failure,
`TornOnlyWhereItFailed` that until then no position but the one that failed is torn.

`ProfiledTraining`: the sections of `collect_rollouts` in their order, each taking 0
or 1 units of time. An observation is an episode, a step in it, whether
`VecNormalize` normalised it, and whether it is exact: `VecNormalize` clips what it
normalises, so the terminal observation, which the loop un-normalises, may differ from
what the environment returned (`NextStored`). `terminal` is empty when `infos` has none.
`timed` sums all timers but `dump_logs`, `sampled` is `buffer_sample`'s; `wrapper` holds
the accumulators of `sb3_profile.py`, which times the same loop by wrappers. `train()`
is `TrainBegins`, which wraps `replay_buffer.sample` in a `timed_sample` with an
accumulator of its own, any number of `Sample` and `Optimize` (`gradient_steps`), and
`TrainEnds`, which puts `original_sample` back and reads the accumulator. `samples` is
the stack of these closures' accumulators: `TimedSample` adds the time of a `sample()` to
each of them, for each calls the one below it. `TrainRaises`, in or after a `sample()`,
leaves the closure on the stack. The ghosts `inSample` and `spent` measure the time in
`sample()` from outside. One environment; SB3's `learn` is external and resets the
environment, as it does unless it is asked not to.

`AbComparison`: one training is one step that leaves any timers `ProfiledTraining`
allows: disjoint shares of the wall time, but for `dump_logs`; entries of `train` and
`dump_logs` only if these ran. Of the timers every training has, `buffer_add` and
`episode_bookkeeping` stand for all. Averages are numerators over the number of trials,
and `Average` adds one trial of each buffer to them: the code sums key by key, after
the last trial too, and the sums are the same.

`DqnDemo`: `stage` walks through `train_and_evaluate` for either buffer: construct, learn
(rollouts of train_freq steps, a training once learning_starts is passed), evaluate,
then the summary. The state of `FastReplayBuffer` is the replay buffer of the agent in
training; SB3's own buffer is the same without the ring. An `add()` is one step here,
since nothing runs beside it. `odds` records, for each training, what `sample()` could
draw and how many of its indices draw each transition; a `sample()` of an empty buffer
ends in the stage `crashed`. Rewards are any. `optimize_memory_usage` is off, as in the script.

## What the runs check

| Run | Instance | Shows |
| --- | --- | --- |
| `spsc_ring` | Capacity 2, values {0, 1}, 5 pushes | `NoDataRace`; `DeliveredInOrder`; `SampleIsLive`; `SizeBrackets` (the producer never sees fewer elements than there are, the consumer never more); `SeenStaysTrue` (room or an element, once seen, stays until acted on); the inductive invariant `IInv`; the ring implements `BoundedFifo` |
| `spsc_stress` | Capacity 4, values 0..11 | both loops of `ConcurrentSPSC` end and its assertions hold |
| `spsc_observer` | Capacity 3, 4 pushes | *violation*: a third thread's `size()` returns a number the ring never held |
| `mutex_ring` | 3 threads, 2 calls each, Capacity 2 | one thread at a time in the lock (`IInv`); implements `BoundedFifo`; every call returns |
| `py_ring` | Capacity 2, values {0, 1}, `SizeT` 8 | the ring holds the live elements, as many as `size()` says; a batch keeps what it removed, and a kept index what it was drawn for, until the pushes come round; `IInv` |
| `replay_buffer` | Capacity 3, 13 calls of `add` | pushes are never refused; the ring mirrors SB3's positions; samples are the newest transitions, whole; implements `ReplayMemory`; the inductive invariant `IInv` |
| `replay_optimized` | Capacity 3, 9 calls | *violation*: with `optimize_memory_usage` a mixture of two transitions is sampled |
| `replay_failed_add` | Capacity 3, 9 calls, 3 of them raise | no push is refused; only the position that failed is torn; the ring mirrors the storage again after a lap; the inductive invariant `FailingIInv` |
| `actor_learner` | 5 calls, a learner | *violation*: a learner reads a transition that is not written |
| `profiling_scripts` | the loop: train_freq 2, rollouts begun in the first 2 steps, 5 episodes of up to 2 steps, 2 trainings raise, 4 units of time; the comparison: 2 trials of each buffer, times of 1 | stored transitions are environment steps; `buffer_sample` is the time spent in `sample()` by the trainings that returned, counted once (`SamplingTimedOnce`); the wrappers' table adds up; `IInv`. Averages add up to the averaged wall time, the table's differences to its difference, but for `dump_logs`, also when a timer ran in some trials only; the trials alternate, and every result and sum of results is balanced (`AbIInv`) |
| `profiled_report` | the loop alone, the same bounds | *violation*: the report of the timers leaves time to its residual bucket |
| `dqn_demo` | Capacity 4, every total_timesteps up to 12, train_freq 2, learning_starts 3 | both agents draw the same transitions with the same odds (`SameOdds`); the ring's size printed is right, at the boundary total_timesteps = buffer_size too (`RingReport`); the demo comes to its verdict and never crashes (`DemoEnds`); the inductive invariant `DemoIInv` |

Why the bounds are enough. Capacity 2 has three slots: an empty, a partly filled and
a full ring at each of three offsets, and both orders of wrap-around. Five pushes
in `spsc_ring` take every slot through a second lap, which is when a stale index meets a slot that
was reused. Two values tell a stale element from the right one. Three threads put
two on the same side of the mutex ring. The replay buffer has four ring slots
and three positions, so the two laps drift apart and meet again after 12
transitions; 13 calls pass that point. Nine calls in `replay_failed_add` let three
failures fall into one lap, or one each into three, and still end a lap later; three
laps of 4 positions in `dqn_demo` put total_timesteps below, at and above buffer_size
and at every offset to train_freq. `SizeT` 8 is the least power of two above two laps
of 3 slots, and 3 does not divide it, as no odd number of slots divides 2 ^ 64. Two
trainings that raise nest three closures, the third that of a training that returns, and
four units of time pass in any four of the sections; five episodes are more than the
calls of `learn` those trainings need. With two trials a timer may be missing from the
first, the second, both or neither. The theorems below have none of
these bounds.

Fairness. `SpscStress` assumes that each thread keeps being scheduled and that a
store becomes visible to the other thread's loads in the end, which the C++ standard
asks of atomics; it is weak fairness of each thread's turn, where a turn that
reloads the same value is a stuttering step and does not count. `MutexRing`
assumes weak fairness of each thread inside a call. It assumes none of `Call`, and
only weak fairness of `Lock`, since `std::mutex` is not fair; that every call
returns then rests on the number of calls being finite. `DqnDemo` is one sequential
script: it assumes that its next step is taken, and ends because total_timesteps is
finite.

Runs that may stop (a bound on calls or steps is reached) set `CHECK_DEADLOCK FALSE`;
`SpscRing` and `PyRing` are checked for deadlock.

## What is proved

All theorems hold for every value of the constants; the bounds on calls are
arbitrary numbers in them.

`RingOpsProofs` proves the arithmetic: the slot of position q moved on by n is the
slot of q + n (`AdvanceCounts`), and `size()`'s expression gives the number of
elements between two positions at most Capacity apart (`DistanceCounts`). The
lemmas about `%` that this rests on are proved there from division.

`SpscRingProofs` proves, for every `Capacity \in Nat`, every set of values and every
bound on the pushes, that the specification of `SpscRing` satisfies `IInv`, and from
it `TypeOK`, `NoDataRace`, `DeliveredInOrder`, `SampleIsLive`, `SizeBrackets` and
`SeenStaysTrue`.

The argument. None of these is inductive: `NoDataRace` says nothing of how far the
two threads are apart. `IInv` numbers the elements in the order they are pushed;
element q goes to slot q modulo the number of slots.
- `HistoriesInv`: the k-th value of `tailHist` is (k - 1) mod slots, and a value of
  `headHist` is the number of elements removed when it was stored, mod slots.
- `ProducerInv`: the producer is never more than Capacity ahead of the removals it
  has *synchronised with*, and strictly less inside `push`.
- `ConsumerInv`: the consumer removes only what it has seen, and reads only what it
  has synchronised with.
- `DataInv`: live slots hold their elements and record the position that published
  them; two live elements never share a slot, since they are less than a lap apart.
- `ReadInv`: the last read of a slot came before the removal of the last element in
  it. With `ProducerInv` this gives the producer's half of `NoDataRace`.
- `DeliveredInOrder`, which needs `DataInv` and feeds back into it.

The same module proves `ImplementsFifoQueue`: the specification implies
`ImplementsFifo`, the refinement of `BoundedFifo`. Under `IInv` the live slots, oldest
first, are the elements numbered `Len(got)` to `Len(sent) - 1` (`LiveElementsAre`), so a
step that changes neither `sent` nor `got` is a stutter of the queue, although it may
write `buf_`; the store of `tail_` is the abstract push, with room because of
`ProducerInv`; the store of `head_` is a pop when the value read is the oldest
element, which `ConsumerInv` says it is, and a removal unread otherwise.

`ReplayProofs` proves of `FastReplayBuffer`, for every positive capacity and every
number of calls, `TypeOK`, `PushIsNeverRefused`, `RingMirrorsStorage` and, when
`optimize_memory_usage` is off, `SamplesAreNewest` (with it on, the run
`replay_optimized` refutes what would remain of it). The properties about samples
speak of the moments between calls; their strengthening, this module's own `IInv`,
follows a call of `add` through its steps. It numbers the calls since the last
`reset`: `RingInv` says that call k pushed position k mod capacity into slot k mod
(capacity + 1), two laps that drift apart; `PosInv` ties SB3's `pos` and `full` to the
number of calls; `DataInv` says that every transition not evicted is whole where SB3
stored it, and how much of the one being added is there. Two calls not evicted are
less than a lap apart on either circle (`SameSlot`, `SamePosition`), so no write
touches another's slot or position, and a full lap of calls covers every position
(`LapCoversPositions`).

It also proves `ImplementsMemory`: without `optimize_memory_usage` the
specification implies `ImplementsReplayMemory`, the refinement of `ReplayMemory`. By
`IInv` the transitions at the live indices, oldest first, are a run of consecutive
numbers (`WindowIsHeld`): `Evict` is the abstract `MakeRoom`, `AdvancePos`, which ends
`add`, the abstract `Add`, and the steps between them stutter.

`FailedAddProofs` proves of `FailedAdd`, for any number of failures, `FailingIInv`, and
from it `PushIsNeverRefused`, `FailingTypeOK` and, without `optimize_memory_usage`,
`TornOnlyWhereItFailed` and `MirrorsAfterLap`. A failure ends the correspondence between
the number of a call and its slot, on which `RingInv` rests: the ring has taken more
pushes than there were calls that ended. `FailingIInv` therefore counts slots back from
the newest. `LapInv` says that the i-th newest slot holds the position of the i-th newest
call, as far back as calls ended since the last failure (`healed`); `SizeInv` that the
ring is at least that long, and that without a failure in the last lap it has exactly the
length it would have had without any; `HeldInv`, on which `TornOnlyWhereItFailed` rests,
that no slot holds a position SB3 has not written, but for the one being written or whose
write failed. Each push shifts the newest slots by one and adds one in front (`PushLengthens`), each eviction
takes one off the far end (`EvictShortens`), so a lap of calls that end replaces every
slot. The lemmas on SB3's storage are those of `ReplayProofs`, which ask nothing of the
ring.

`DqnDemoProofs` proves of `DqnDemo`, for every buffer_size, train_freq, learning_starts
and total_timesteps, `DemoIInv`, and from it `DemoTypeOK`, `SameOdds`, `RingReport` and
`NeverTrainsEmpty`: the exception of `sample()` on an empty buffer never ends the demo.
`SameOdds` compares a training with one that is long past, of a buffer that is gone, so
the invariant says what every training drew: `OddsInv` gives the odds of the i-th
training of either agent as those of the newest transitions after `TrainSteps(i)` steps,
each with one index, and the number of trainings so far from the number of rollouts.
`BufferInv` holds of either buffer; what it says of the ring it says of the agent that
has one. `OddsAreNewest` derives the odds from it by way of the slots of the ring for one agent,
SB3's positions for the other (`EachOnce`: the transitions in the window are distinct). The
rest is the rounding of steps to rollouts (`RolloutsExceed`, `RoundUp`).

`MutexRingProofs` proves `IInv` of `MutexRing`, hence `TypeOK`, and `ImplementsFifoQueue`.
`OthersWait` is the heart of it: a step inside the lock leaves every other thread
outside, with its operation and argument. The rest is the arithmetic of one index
that moves on (`TailMovesOn`, `HeadMovesOn`): the queue read off the slots gains or loses
one element, and `push`'s early write goes to the slot that is not live.

`PyRingProofs` proves of `PyRing`, for every capacity with two laps below `SizeT`,
`SizeIsDistance` (the unsigned expression of `size()` is exact although `t - h` passes
below zero), `IInv`, and from it `TypeOK`, `RingHoldsLive`, `BatchKeepsTaken` and
`SampledIndexLasts`. `LiveInv` says that the slots from `head_` on hold the live elements
in order; `ViewInv` and `SampledInv` tie the ghosts to the memory: `tail_` reaches the
first slot of the view after `spare` pushes, and the slot of the kept index after
`lasts`, and until then both hold what they held. `RingHoldsLive` is not inductive alone,
nor are the promises about aliased memory without the place of `tail_`.

`TrainingProofs` proves of `ProfiledTraining`, for every train_freq and length of the
training, `IInv`, and from it `TypeOK`, `StoredIsEnvStep`, `SamplingTimedOnce` and
`WrapperReportIsWallTime`. `ObsInv` follows the observations
through a step: before `env.step()` the remembered one is the environment's, after it
they are the two ends of that step, or of the step that ended the episode, until
preprocessing has put together the pair to store. `TimersInv` bounds the timers by the
clock, the wrappers' nested ones separately; `TrainInv` says that within `train()` they
stand where they stood when it began, and that the accumulator on top of the stack has
timed this call's `sample()` and nothing else, whatever lies under it.

It proves of `AbComparison`, for every number of trials and every length of them,
`AbIInv`, and from it `AveragesAddUp` and `DiffsExplainTotal`: the `Diff` column exceeds the
difference of the wall times by at most the second buffer's `dump_logs` and falls short of
it by at most the first's. Results whose timers add up
to their wall time, but for `dump_logs`, are closed under the sum of timers that counts a
missing one as 0 (`AddIsResult`), and `CATEGORY_MAP` gives every timer one category, so
the rows regroup the total (`CategoriesAddUp`). `ScriptsBehave` carries both sets of
theorems over to `ProfilingScripts`.

Assumed: the named assumptions of the modules (`CapacityAssumption`,
`ValueAssumption`, `BoundAssumption`, `SizeTAssumption`, `ThreadAssumption`,
`CallsAssumption`, `BufferAssumption`, `AddAssumption`, `TrainAssumption`,
`StepsAssumption`, `RaisesAssumption`, `NowAssumption`, `FailuresAssumption`, `DemoAssumption`,
`TrialsAssumption`), which TLC evaluates in the runs, and
`~OptimizeMemory` where a theorem says so. Nothing else is taken on trust.

Model-checked only: liveness, which TLAPS cannot prove under fairness (`CallsReturn`,
`DemoEnds`, and `StressTestPasses`, which says that the stress test ends with its
assertions true); every safety property of a passing run is a theorem.

## Disagreements met

Four runs end in a violation; `PROJECT.json` quotes the line each refutes.
1. `size()` by a third thread is not "slightly stale": it can be a number that was
   never true (`ring_buffer.hpp:89`).
2. `FastReplayBuffer` with `optimize_memory_usage` samples position `pos` of a full
   buffer, which SB3 leaves out (`__init__.py:126`).
3. The index is pushed before the data is written, though the comment says after
   (`__init__.py:90`), so the announced concurrent use is not safe.
4. The granular profile "fully accounts for 100% of wall-clock time with NO residual
   "overhead" bucket" (`sb3_granular_profile.py:4-6`), but its report adds one,
   `python_loop_overhead` (line 286), and it is not empty: the loop itself and a callback
   that stops the rollout run in no timer.

Worth knowing, though no line of the repository says otherwise of just these:
- a `super().add()` that raises leaves a position in the ring that was not stored, and
  the next call pushes it a second time: it can be sampled with its old data, and
  twice as often, for up to a lap (`replay_failed_add` shows that it is no worse);
- `dump_logs` is timed twice, on its own and within `episode_bookkeeping`
  (`sb3_granular_profile.py:185-188`), so the timers may add up to more than the wall time
  as well as to less; the A/B script, whose default trainings dump logs every fourth
  episode, puts both into one category, and `AveragesAddUp` and `DiffsExplainTotal` state
  its table with that excess;
- `sample_indices` draws from a generator of its own, seeded by the hardware: the
  `seed=42` of the demo and of the profiles does not reach it, so two runs with
  `FastReplayBuffer` differ. What agrees with SB3 are the odds (`SameOdds`).

## Not modelled

The micro-benchmarks are sequential clients that time calls, and `PyRing` allows every
sequence of calls they make. The tests are read as a reference. The printing of the
reports, the charts, the JSON files, the call counts beside the timers, and the build
have no behaviour of interest.

Within the models:
- `capacity = SIZE_MAX`, where `capacity + 1` is 0: `SizeTAssumption` leaves it out,
  since the code's remainders have no value there;
- another thread during a binding call: the bindings never release the GIL, so no such
  interleaving exists, although `pop_view` reads `tail_` relaxed before it reads `buf_`;
- the random generator (a draw is any index in range) and Python reference counts;
- several environments in one `VecEnv` and dictionary observations in the profiled
  loop, which the scripts never use; the first definition of `train` in
  `sb3_granular_profile.py`, which the second replaces;
- `learn()` with `reset_num_timesteps=False`.

## Plan

1. Done: all components that keep state are modelled; both rings and the replay buffer
   implement their abstract specifications, by proof; every safety property that holds
   is proved.
2. Prove next: the assertions of the stress test, as a safety property of `SpscStress`
   over the proofs of `SpscRing`; what remains true of `optimize_memory_usage` (the
   position it may tear is `pos` alone) and of a learner beside `add`.
3. Model next: `learn()` going on without a reset; several environments in one `VecEnv`;
   `FastReplayBuffer` over `SpscRing` instead of an atomic ring, for an `add` that
   publishes after it writes.

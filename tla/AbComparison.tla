---------------------------- MODULE AbComparison ----------------------------
(***************************************************************************)
(* benchmarks/profiling/scripts/sb3_ab_comparison.py: trainings with SB3's *)
(* ReplayBuffer and with FastReplayBuffer in turn, and the table made of   *)
(* the averages of their timers.  What one training records is what        *)
(* ProfiledTraining says of the same loop: the timers share its wall time  *)
(* but for dump_logs, which runs inside another timed section.  A timer    *)
(* that never ran has no entry.  The script's trials all run as long and   *)
(* record the same timers, dump_logs among them; avg_timers and            *)
(* print_comparison take any mix, and so do the trials here.  Of the       *)
(* timers the loop always records, two stand for all.                      *)
(* Averages are in units of 1 / NumTrials, and summed trial by trial.      *)
(***************************************************************************)
EXTENDS Integers, Sequences

CONSTANTS NumTrials,   \* args.trials
          MaxTime      \* bound: units of time a timer adds up to

ASSUME TrialsAssumption == NumTrials \in Nat \ {0} /\ MaxTime \in Nat \ {0}

VARIABLES
  sb3, fr,     \* sb3_results, fr_results: a wall time and timers each
  avgA, avgB,  \* avg_wall_a and avg_timers_a; avg_wall_b and avg_timers_b
  averaged     \* the trials they count so far

abVars == <<sb3, fr, avgA, avgB, averaged>>

LoopTimers == {"buffer_add", "episode_bookkeeping"}
TrainTimers == {"buffer_sample", "gradient_optimization"}
LogTimers == {"dump_logs"}

\* CATEGORY_MAP
Category ==
  [buffer_add |-> "BufferAdd", buffer_sample |-> "BufferSample",
   gradient_optimization |-> "Gradient",
   episode_bookkeeping |-> "FrameworkOverhead",
   dump_logs |-> "FrameworkOverhead",
   python_loop_overhead |-> "PythonInterpreter"]

\* timers.get(key, 0)
Time(timers, key) == IF key \in DOMAIN timers THEN timers[key] ELSE 0

\* sum() over the keys of timers that are in keys.
SumOver(timers, keys) ==
  LET time(key) == IF key \in keys THEN Time(timers, key) ELSE 0
  IN  time("buffer_add") + time("buffer_sample") + time("gradient_optimization")
        + time("episode_bookkeeping") + time("dump_logs")
        + time("python_loop_overhead")

\* sum(timers.values())
TotalTime(timers) == SumOver(timers, DOMAIN timers)

\* What a training may leave in model.timers: train() did not run if it ended
\* before learning_starts, nor dump_logs without log_interval episodes.
Optional == {{}, TrainTimers, LogTimers, TrainTimers \union LogTimers}
Recorded ==
  {t \in UNION {[LoopTimers \union more -> 1 .. MaxTime] : more \in Optional} :
     Time(t, "dump_logs") <= t["episode_bookkeeping"]}

\* run_one's last step: the time no timer covers becomes a timer.
WithOverhead(timers, wall) ==
  LET accounted == TotalTime(timers)
      overhead == IF wall > accounted THEN wall - accounted ELSE 0
  IN  [key \in DOMAIN timers \union {"python_loop_overhead"} |->
         IF key \in DOMAIN timers THEN timers[key] ELSE overhead]

\* run_one: a training that spends idle units outside all timers.
RunOne(results) ==
  \E timers \in Recorded, idle \in 0 .. MaxTime :
    LET wall == TotalTime(timers) - Time(timers, "dump_logs") + idle
    IN  results' = Append(results, [wall |-> wall,
                                    timers |-> WithOverhead(timers, wall)])

Nothing == [wall |-> 0, timers |-> [key \in {} |-> 0]]

AbInit ==
  /\ sb3 = <<>> /\ fr = <<>>
  /\ avgA = Nothing /\ avgB = Nothing /\ averaged = 0

\* Mutant: all trials of A come before those of B.
RunSb3First ==
  Len(sb3) < NumTrials /\ RunOne(sb3) /\ UNCHANGED <<fr, avgA, avgB, averaged>>

RunSb3 ==
  /\ Len(sb3) = Len(fr) /\ Len(fr) < NumTrials
  /\ RunOne(sb3) /\ UNCHANGED <<fr, avgA, avgB, averaged>>

RunFastReplay ==
  /\ Len(fr) < Len(sb3)
  /\ RunOne(fr) /\ UNCHANGED <<sb3, avgA, avgB, averaged>>

\* Mutant: avg_timers takes the keys of the first trial.
SumOfFirst(timers, more) ==
  [key \in IF DOMAIN timers = {} THEN DOMAIN more ELSE DOMAIN timers |->
     Time(timers, key) + Time(more, key)]

\* avg_timers: the keys of all trials, each counting 0 where it is missing.
SumTimers(timers, more) ==
  [key \in DOMAIN timers \union DOMAIN more |->
     Time(timers, key) + Time(more, key)]

AddResult(avg, result) ==
  [wall |-> avg.wall + result.wall,
   timers |-> SumTimers(avg.timers, result.timers)]

Average ==
  /\ Len(fr) = NumTrials /\ averaged < NumTrials
  /\ averaged' = averaged + 1
  /\ avgA' = AddResult(avgA, sb3[averaged + 1])
  /\ avgB' = AddResult(avgB, fr[averaged + 1])
  /\ UNCHANGED <<sb3, fr>>

AbNext == RunSb3 \/ RunFastReplay \/ Average

AbSpec == AbInit /\ [][AbNext]_abVars

----------------------------------------------------------------------------
\* aggregate_categories, of which print_comparison makes a dictionary
Categories(timers) ==
  [cat \in {Category[key] : key \in DOMAIN timers} |->
     SumOver(timers, {key \in DOMAIN timers : Category[key] = cat})]

\* Mutant: the rows are the categories of the first column.
RowsOfFirst(a, b) == DOMAIN a

\* all_cats
Rows(a, b) == DOMAIN a \union DOMAIN b

\* The column Diff of print_comparison.
Diffs ==
  LET a == Categories(avgA.timers)
      b == Categories(avgB.timers)
  IN  [cat \in Rows(a, b) |-> Time(b, cat) - Time(a, cat)]

\* The sum of a column of the table.
ColumnTotal(column) ==
  Time(column, "BufferAdd") + Time(column, "BufferSample")
    + Time(column, "Gradient") + Time(column, "FrameworkOverhead")
    + Time(column, "PythonInterpreter")

Finished == averaged = NumTrials

\* The averaged decomposition of each buffer adds up to its averaged wall time,
\* also when a timer ran in some of the trials only; dump_logs alone may be
\* counted twice.
AveragesAddUp ==
  Finished =>
    \A avg \in {avgA, avgB} :
      ColumnTotal(Categories(avg.timers)) \in
        avg.wall .. (avg.wall + Time(avg.timers, "dump_logs"))

\* The rows of the table explain the difference of the wall times, whatever
\* timers only one of the buffers has: they miss it by what dump_logs took of
\* either buffer's trials, no more, since that time is in its column twice.
DiffsExplainTotal ==
  Finished =>
    ColumnTotal(Diffs) - (avgB.wall - avgA.wall) \in
      (0 - Time(avgA.timers, "dump_logs")) .. Time(avgB.timers, "dump_logs")

----------------------------------------------------------------------------
(* The inductive invariant: what holds of one training holds of their sum.   *)

AllTimers == LoopTimers \union TrainTimers \union LogTimers
               \union {"python_loop_overhead"}
IsTimers(t) == DOMAIN t \subseteq AllTimers /\ t \in [DOMAIN t -> Nat]

\* The timers add up to the wall time, or to as much more as dump_logs took.
Balanced(result) ==
  TotalTime(result.timers) \in
    result.wall .. (result.wall + Time(result.timers, "dump_logs"))

IsResult(r) ==
  /\ r \in [wall : Nat, timers : {r.timers}] /\ IsTimers(r.timers)
  /\ Balanced(r)

AreResults(results) ==
  /\ results \in Seq({results[i] : i \in DOMAIN results})
  /\ \A i \in DOMAIN results : IsResult(results[i])

\* The trials alternate, so that a drift of the machine meets both buffers
\* ("Interleaved ABAB order to reduce systematic bias"), and the averages are
\* made of all of them; every result, and every sum of results, is balanced.
AbIInv ==
  /\ Len(sb3) - Len(fr) \in {0, 1} /\ Len(sb3) <= NumTrials
  /\ averaged \in 0 .. NumTrials /\ (averaged > 0 => Len(fr) = NumTrials)
  /\ AreResults(sb3) /\ AreResults(fr)
  /\ IsResult(avgA) /\ IsResult(avgB)
=============================================================================

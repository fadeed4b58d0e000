-------------------------- MODULE ProfilingScripts --------------------------
(***************************************************************************)
(* The scripts of benchmarks/profiling/scripts, of which a user starts one *)
(* (their `if __name__ == "__main__"`): the instrumented training, or the  *)
(* comparison of such trainings, whose environment has no VecNormalize.    *)
(* Each is a process of its own, so a behaviour is one of ProfiledTraining *)
(* or one of AbComparison, with the other's variables at rest.             *)
(***************************************************************************)
EXTENDS ProfiledTraining, AbComparison

VARIABLE script   \* the script that was started

ScriptsInit ==
  /\ Init /\ AbInit
  /\ script \in {"sb3_granular_profile", "sb3_ab_comparison"}
  /\ script = "sb3_ab_comparison" => ~normalize

GranularProfile ==
  /\ script = "sb3_granular_profile" /\ Next
  /\ UNCHANGED <<script, abVars>>

Comparison ==
  /\ script = "sb3_ab_comparison" /\ AbNext
  /\ UNCHANGED <<script, vars>>

ScriptsNext == GranularProfile \/ Comparison

ScriptsSpec == ScriptsInit /\ [][ScriptsNext]_<<script, vars, abVars>>
=============================================================================

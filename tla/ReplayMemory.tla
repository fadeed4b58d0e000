---------------------------- MODULE ReplayMemory ----------------------------
(***************************************************************************)
(* What a Stable-Baselines3 replay buffer promises, whatever finds its     *)
(* indices: sample() draws from a window of the last transitions added, at *)
(* most Capacity of them, each as it was added.  A full window makes room  *)
(* for a transition before it takes it.  FastReplayBuffer is shown to      *)
(* implement it.                                                           *)
(***************************************************************************)
EXTENDS Naturals, Sequences

CONSTANT Capacity   \* how many transitions the window holds at most

VARIABLES window,   \* what sample() draws from, oldest first
          count     \* the transitions added so far

memoryVars == <<window, count>>

\* The transition from observation k to observation k + 1, whole.
Whole(k) == [obs |-> k, action |-> k, next |-> k + 1]

Init == window = <<>> /\ count = 0

MakeRoom ==
  /\ Len(window) = Capacity
  /\ window' = Tail(window)
  /\ UNCHANGED count

Add ==
  /\ Len(window) < Capacity
  /\ window' = Append(window, Whole(count))
  /\ count' = count + 1

\* reset()
Forget ==
  /\ window' = <<>>
  /\ UNCHANGED count

Next == MakeRoom \/ Add \/ Forget

Spec == Init /\ [][Next]_memoryVars
=============================================================================

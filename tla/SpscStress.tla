----------------------------- MODULE SpscStress -----------------------------
(***************************************************************************)
(* The driver of tests/test_stub.cpp's ConcurrentSPSC: a producer thread   *)
(* that pushes 0, 1, ... N - 1 and a consumer thread that pops N values,   *)
(* each spinning on its call until it returns true.  Value is 0 .. MaxPush *)
(* - 1 here, with N = MaxPush.                                             *)
(***************************************************************************)
EXTENDS SpscRing

ASSUME DriverAssumption == Value = 0 .. (MaxPush - 1)

\* while (!rb.push(i)): one turn of the producer's loop.
ProducerTurn ==
  /\ Len(sent) < MaxPush
  /\ \/ \E k \in 1 .. Len(headHist) :
          PushFull(k) \/ PushBegin(Len(sent), k)
     \/ PushWrite
     \/ PushPublish

\* while (!rb.pop(&val)), then received.push_back(val).
ConsumerTurn ==
  /\ Len(got) < MaxPush
  /\ PopSteps(TRUE)

StressNext == ProducerTurn \/ ConsumerTurn

\* Each thread keeps being scheduled, and a store is not hidden from the other
\* thread's loads for ever (C++ asks it of atomics): a turn that would change
\* something, if only by seeing a newer head_ or tail_, is taken in the end.
StressSpec ==
  /\ Init /\ [][StressNext]_vars
  /\ WF_vars(ProducerTurn) /\ WF_vars(ConsumerTurn)

----------------------------------------------------------------------------
\* The stress test ends, and then its assertions hold: N values were received
\* in the order they were pushed and the ring is empty.
StressTestPasses ==
  <>[](/\ got = [i \in 1 .. MaxPush |-> i - 1]
       /\ CurHead = CurTail)
=============================================================================

----------------------------- MODULE MutexRing -----------------------------
(***************************************************************************)
(* fastreplay_baseline::RingBuffer (include/fastreplay/ring_buffer_mutex   *)
(* .hpp): the same ring with every operation under one std::mutex, called  *)
(* by any number of threads.  A call takes the lock, works on the plain    *)
(* fields one statement at a time and releases the lock when its           *)
(* lock_guard goes out of scope, on the early returns too.                 *)
(***************************************************************************)
EXTENDS RingOps, Sequences, FiniteSets

CONSTANTS Thread, Value, Zero, NoValue,
          Nobody,       \* the owner of the free mutex
          MaxCalls      \* bound: calls made by each thread

ASSUME ThreadAssumption == IsFiniteSet(Thread) /\ Nobody \notin Thread
ASSUME ValueAssumption == Zero \in Value /\ NoValue \notin Value
ASSUME CallsAssumption == MaxCalls \in Nat

Op == {"push", "pop", "pop_null", "size"}

VARIABLES
  buf, head, tail,   \* buf_, head_, tail_
  mtx,               \* mtx_: the thread that owns it, or Nobody
  op,                \* per thread: the operation it called last
  pc,                \* per thread: the next step of that call
  arg,               \* per thread: push's value, or what pop read
  calls,             \* per thread: calls begun
  delivered          \* ghost: what the removals returned

vars == <<buf, head, tail, mtx, op, pc, arg, calls, delivered>>

TypeOK ==
  /\ buf \in [Slot -> Value] /\ head \in Slot /\ tail \in Slot
  /\ mtx \in Thread \union {Nobody}
  /\ op \in [Thread -> Op]
  /\ pc \in [Thread -> {"idle", "lock", "test", "data", "index", "unlock"}]
  /\ arg \in [Thread -> Value \union {NoValue}]
  /\ calls \in [Thread -> 0 .. MaxCalls]
  /\ delivered \in Seq(Value \union {NoValue})

Init ==
  /\ buf = [s \in Slot |-> Zero] /\ head = 0 /\ tail = 0
  /\ mtx = Nobody
  /\ op = [t \in Thread |-> "size"] /\ pc = [t \in Thread |-> "idle"]
  /\ arg = [t \in Thread |-> NoValue]
  /\ calls = [t \in Thread |-> 0]
  /\ delivered = <<>>

Goto(t, step) == pc' = [pc EXCEPT ![t] = step]

\* Thread t calls operation o; v is push's value.
Call(t, o, v) ==
  /\ pc[t] = "idle" /\ calls[t] < MaxCalls
  /\ o = "push" <=> v # NoValue
  /\ calls' = [calls EXCEPT ![t] = @ + 1]
  /\ op' = [op EXCEPT ![t] = o] /\ arg' = [arg EXCEPT ![t] = v]
  /\ Goto(t, "lock")
  /\ UNCHANGED <<buf, head, tail, mtx, delivered>>

\* Mutant: the lock_guard is left out.
LockNothing(t) ==
  /\ pc[t] = "lock"
  /\ mtx' = t /\ Goto(t, "test")
  /\ UNCHANGED <<buf, head, tail, op, arg, calls, delivered>>

\* std::lock_guard<std::mutex> lock(mtx_)
Lock(t) ==
  /\ pc[t] = "lock" /\ mtx = Nobody
  /\ mtx' = t /\ Goto(t, "test")
  /\ UNCHANGED <<buf, head, tail, op, arg, calls, delivered>>

\* Mutant: a refused call returns without unlocking, as lock() and unlock()
\* written by hand easily do.
UnlockIfDone(t) ==
  /\ pc[t] = "unlock"
  /\ mtx' = (IF op[t] = "push" /\ NextSlot(tail) = head THEN mtx ELSE Nobody)
  /\ Goto(t, "idle") /\ arg' = [arg EXCEPT ![t] = NoValue]
  /\ UNCHANGED <<buf, head, tail, op, calls, delivered>>

Unlock(t) ==
  /\ pc[t] = "unlock"
  /\ mtx' = Nobody
  /\ Goto(t, "idle") /\ arg' = [arg EXCEPT ![t] = NoValue]
  /\ UNCHANGED <<buf, head, tail, op, calls, delivered>>

\* The operation returns at once, push on a full ring and pop on an empty one
\* with false, size() and empty() with their answer.
Answer(t) ==
  /\ pc[t] = "test"
  /\ \/ op[t] = "push" /\ NextSlot(tail) = head
     \/ op[t] \in {"pop", "pop_null"} /\ head = tail
     \/ op[t] = "size"
  /\ Goto(t, "unlock")
  /\ UNCHANGED <<buf, head, tail, mtx, op, arg, calls, delivered>>

\* push has room; pop has an element, which it skips if out_val is null.
Proceed(t) ==
  /\ pc[t] = "test"
  /\ \/ op[t] = "push" /\ NextSlot(tail) # head /\ Goto(t, "data")
     \/ op[t] = "pop" /\ head # tail /\ Goto(t, "data")
     \/ op[t] = "pop_null" /\ head # tail /\ Goto(t, "index")
  /\ UNCHANGED <<buf, head, tail, mtx, op, arg, calls, delivered>>

PushWrite(t) ==
  /\ pc[t] = "data" /\ op[t] = "push"
  /\ buf' = [buf EXCEPT ![tail] = arg[t]]
  /\ Goto(t, "index")
  /\ UNCHANGED <<head, tail, mtx, op, arg, calls, delivered>>

PopRead(t) ==
  /\ pc[t] = "data" /\ op[t] = "pop"
  /\ arg' = [arg EXCEPT ![t] = buf[head]]
  /\ Goto(t, "index")
  /\ UNCHANGED <<buf, head, tail, mtx, op, calls, delivered>>

PushTail(t) ==
  /\ pc[t] = "index" /\ op[t] = "push"
  /\ tail' = NextSlot(tail)
  /\ Goto(t, "unlock")
  /\ UNCHANGED <<buf, head, mtx, op, arg, calls, delivered>>

PopHead(t) ==
  /\ pc[t] = "index" /\ op[t] # "push"
  /\ head' = NextSlot(head)
  /\ delivered' = Append(delivered, arg[t])
  /\ Goto(t, "unlock")
  /\ UNCHANGED <<buf, tail, mtx, op, arg, calls>>

Work(t) ==
  \/ Answer(t) \/ Proceed(t)
  \/ PushWrite(t) \/ PopRead(t) \/ PushTail(t) \/ PopHead(t)

Next ==
  \E t \in Thread :
    \/ \E o \in Op, v \in Value \union {NoValue} : Call(t, o, v)
    \/ Lock(t) \/ Work(t) \/ Unlock(t)

\* A thread inside a call keeps running.  std::mutex promises no fairness:
\* Lock is taken in the end only if the mutex stays free, and the calls are
\* finitely many.
Spec == Init /\ [][Next]_vars
             /\ \A t \in Thread : WF_vars(Lock(t)) /\ WF_vars(Work(t) \/ Unlock(t))

----------------------------------------------------------------------------
LiveElements ==
  [i \in 1 .. Distance(head, tail) |-> buf[Advance(head, i - 1)]]

\* Thread t is between its lock_guard's two ends.
Holds(t) == pc[t] \in {"test", "data", "index", "unlock"}

MutexInv == \A t \in Thread : Holds(t) <=> mtx = t

\* What a call found when it tested is still so while it works.
WorkInv ==
  \A t \in Thread :
    /\ pc[t] \in {"data", "index"} =>
         \/ op[t] = "push" /\ NextSlot(tail) # head
         \/ op[t] \in {"pop", "pop_null"} /\ head # tail
    /\ pc[t] = "data" => op[t] # "pop_null"

\* The value on its way into a slot, or out of one.
ArgInv ==
  \A t \in Thread :
    /\ op[t] = "push" /\ pc[t] \in {"lock", "test", "data"} => arg[t] \in Value
    /\ op[t] = "pop_null" /\ pc[t] \in {"lock", "test", "index"} =>
         arg[t] = NoValue
    /\ op[t] = "push" /\ pc[t] = "index" => arg[t] = buf[tail]
    /\ op[t] = "pop" /\ pc[t] = "index" => arg[t] = buf[head]

\* One thread at a time is past its lock_guard, and the slot and the value it
\* works with stay what they were when it tested: the inductive invariant.
IInv == TypeOK /\ MutexInv /\ WorkInv /\ ArgInv

Fifo == INSTANCE BoundedFifo WITH queue <- LiveElements

\* With any number of threads on both sides the locked ring is a bounded FIFO
\* queue: a push takes effect at tail_, a removal at head_.
ImplementsFifo == Fifo!Init /\ [][Fifo!Next]_(Fifo!fifoVars)

\* Every call returns, the refused ones too: no path leaves the mutex locked.
CallsReturn == \A t \in Thread : (pc[t] # "idle") ~> (pc[t] = "idle")
=============================================================================

-------------------------- MODULE MutexRingProofs --------------------------
(***************************************************************************)
(* For every capacity, every finite set of threads and every number of     *)
(* calls: the mutex ring keeps its threads apart, and implements the       *)
(* bounded FIFO queue of BoundedFifo.  A call takes effect where it stores *)
(* head_ or tail_; every other step leaves the queue alone.                *)
(***************************************************************************)
EXTENDS MutexRing, RingOpsProofs, SequenceTheorems

LEMMA Types ==
  ASSUME TypeOK
  PROVE  /\ Capacity \in Nat /\ Phys = Capacity + 1 /\ Phys \in Nat \ {0}
         /\ Slot = 0 .. Capacity
         /\ buf \in [Slot -> Value]
         /\ head \in Slot /\ head \in Int /\ tail \in Slot /\ tail \in Int
BY PhysType, CapacityAssumption DEF TypeOK

(* A step of a thread in its call touches no other thread's program counter. *)
LEMMA GotoMoves ==
  ASSUME TypeOK, NEW t \in Thread, NEW step \in
           {"idle", "lock", "test", "data", "index", "unlock"}, Goto(t, step)
  PROVE  /\ pc'[t] = step /\ \A u \in Thread : u # t => pc'[u] = pc[u]
         /\ pc' \in [Thread -> {"idle", "lock", "test", "data", "index", "unlock"}]
BY DEF TypeOK, Goto

LEMMA InitIInv == Init => IInv
<1> SUFFICES ASSUME Init PROVE IInv
  OBVIOUS
<1>1. 0 \in Slot /\ MaxCalls \in Nat /\ Zero \in Value /\ Nobody \notin Thread
  BY PhysType, CapacityAssumption, CallsAssumption, ValueAssumption,
     ThreadAssumption
<1>2. TypeOK
  BY <1>1, EmptySeq DEF Init, TypeOK, Op
<1>3. \A t \in Thread : pc[t] = "idle" /\ mtx # t
  BY <1>1 DEF Init
<1> QED
  BY <1>2, <1>3 DEF IInv, MutexInv, Holds, WorkInv, ArgInv

----------------------------------------------------------------------------
(* The steps outside the lock.                                               *)
LEMMA CallIInv ==
  ASSUME IInv, NEW t \in Thread, NEW o \in Op, NEW v \in Value \union {NoValue},
         Call(t, o, v)
  PROVE  IInv'
<1>1. TypeOK /\ MutexInv /\ WorkInv /\ ArgInv
  BY DEF IInv
<1>2. /\ pc[t] = "idle" /\ calls[t] < MaxCalls /\ (o = "push" <=> v # NoValue)
      /\ calls' = [calls EXCEPT ![t] = @ + 1]
      /\ op' = [op EXCEPT ![t] = o] /\ arg' = [arg EXCEPT ![t] = v]
      /\ Goto(t, "lock")
      /\ UNCHANGED <<buf, head, tail, mtx, delivered>>
  BY DEF Call
<1>3. /\ pc'[t] = "lock" /\ \A u \in Thread : u # t => pc'[u] = pc[u]
      /\ pc' \in [Thread -> {"idle", "lock", "test", "data", "index", "unlock"}]
  BY <1>1, <1>2, GotoMoves
<1>4. /\ op'[t] = o /\ arg'[t] = v
      /\ \A u \in Thread : u # t => op'[u] = op[u] /\ arg'[u] = arg[u]
      /\ op' \in [Thread -> Op] /\ arg' \in [Thread -> Value \union {NoValue}]
  BY <1>1, <1>2 DEF TypeOK
<1>5. calls' \in [Thread -> 0 .. MaxCalls]
  BY <1>1, <1>2, CallsAssumption DEF TypeOK
<1>6. TypeOK'
  BY <1>1, <1>2, <1>3, <1>4, <1>5 DEF TypeOK
<1>7. MutexInv'
  BY <1>1, <1>2, <1>3 DEF MutexInv, Holds
<1>8. WorkInv'
  BY <1>1, <1>2, <1>3, <1>4 DEF WorkInv
<1>9. ArgInv'
  BY <1>1, <1>2, <1>3, <1>4 DEF ArgInv
<1> QED
  BY <1>6, <1>7, <1>8, <1>9 DEF IInv

LEMMA LockIInv ==
  ASSUME IInv, NEW t \in Thread, Lock(t)
  PROVE  IInv'
<1>1. TypeOK /\ MutexInv /\ WorkInv /\ ArgInv
  BY DEF IInv
<1>2. /\ pc[t] = "lock" /\ mtx = Nobody /\ mtx' = t /\ Goto(t, "test")
      /\ UNCHANGED <<buf, head, tail, op, arg, calls, delivered>>
  BY DEF Lock
<1>3. /\ pc'[t] = "test" /\ \A u \in Thread : u # t => pc'[u] = pc[u]
      /\ pc' \in [Thread -> {"idle", "lock", "test", "data", "index", "unlock"}]
  BY <1>1, <1>2, GotoMoves
<1>4. TypeOK'
  BY <1>1, <1>2, <1>3 DEF TypeOK
<1>5. MutexInv'
  BY <1>1, <1>2, <1>3, ThreadAssumption DEF MutexInv, Holds
<1>6. WorkInv'
  BY <1>1, <1>2, <1>3 DEF WorkInv
<1>7. ArgInv'
  BY <1>1, <1>2, <1>3 DEF ArgInv
<1> QED
  BY <1>4, <1>5, <1>6, <1>7 DEF IInv

LEMMA UnlockIInv ==
  ASSUME IInv, NEW t \in Thread, Unlock(t)
  PROVE  IInv'
<1>1. TypeOK /\ MutexInv /\ WorkInv /\ ArgInv
  BY DEF IInv
<1>2. /\ pc[t] = "unlock" /\ mtx' = Nobody /\ Goto(t, "idle")
      /\ arg' = [arg EXCEPT ![t] = NoValue]
      /\ UNCHANGED <<buf, head, tail, op, calls, delivered>>
  BY DEF Unlock
<1>3. /\ pc'[t] = "idle" /\ \A u \in Thread : u # t => pc'[u] = pc[u]
      /\ pc' \in [Thread -> {"idle", "lock", "test", "data", "index", "unlock"}]
  BY <1>1, <1>2, GotoMoves
<1>4. /\ \A u \in Thread : u # t => arg'[u] = arg[u]
      /\ arg' \in [Thread -> Value \union {NoValue}]
  BY <1>1, <1>2 DEF TypeOK
<1>5. TypeOK'
  BY <1>1, <1>2, <1>3, <1>4 DEF TypeOK
<1>6. MutexInv'
  BY <1>1, <1>2, <1>3, ThreadAssumption DEF MutexInv, Holds
<1>7. WorkInv'
  BY <1>1, <1>2, <1>3 DEF WorkInv
<1>8. ArgInv'
  BY <1>1, <1>2, <1>3, <1>4 DEF ArgInv
<1> QED
  BY <1>5, <1>6, <1>7, <1>8 DEF IInv

----------------------------------------------------------------------------
(* A thread that works holds the mutex; nobody else is past its lock_guard.  *)
LEMMA Alone ==
  ASSUME MutexInv, NEW t \in Thread, Holds(t)
  PROVE  mtx = t /\ \A u \in Thread : u # t => ~Holds(u)
BY DEF MutexInv

(* So a step in the lock disturbs no other thread: it stays outside, with    *)
(* the operation and the argument it had.                                    *)
LEMMA OthersWait ==
  ASSUME IInv, NEW t \in Thread, Holds(t), mtx' = mtx,
         NEW step \in {"data", "index", "unlock"}, Goto(t, step),
         \A u \in Thread : u # t => op'[u] = op[u] /\ arg'[u] = arg[u]
  PROVE  /\ MutexInv' /\ pc'[t] = step
         /\ pc' \in [Thread -> {"idle", "lock", "test", "data", "index", "unlock"}]
         /\ \A u \in Thread : u # t =>
              /\ pc'[u] \notin {"test", "data", "index"}
              /\ op'[u] = "push" /\ pc'[u] = "lock" => arg'[u] \in Value
              /\ op'[u] = "pop_null" /\ pc'[u] = "lock" => arg'[u] = NoValue
<1>1. TypeOK /\ MutexInv /\ ArgInv
  BY DEF IInv
<1>2. /\ pc'[t] = step /\ \A u \in Thread : u # t => pc'[u] = pc[u]
      /\ pc' \in [Thread -> {"idle", "lock", "test", "data", "index", "unlock"}]
  BY <1>1, GotoMoves
<1>3. mtx = t /\ \A u \in Thread : u # t => ~Holds(u)
  BY <1>1, Alone
<1>4. MutexInv'
  BY <1>1, <1>2, <1>3 DEF MutexInv, Holds
<1>5. \A u \in Thread : u # t => pc'[u] \notin {"test", "data", "index"}
  BY <1>2, <1>3 DEF Holds
<1> QED
  BY <1>1, <1>2, <1>4, <1>5 DEF ArgInv

(* Answer and Proceed change only the program counter.                       *)
LEMMA TestIInv ==
  ASSUME IInv, NEW t \in Thread, Answer(t) \/ Proceed(t)
  PROVE  IInv'
<1>1. TypeOK /\ MutexInv /\ WorkInv /\ ArgInv
  BY DEF IInv
<1>2. pc[t] = "test" /\ Holds(t)
      /\ UNCHANGED <<buf, head, tail, mtx, op, arg, calls, delivered>>
  BY DEF Answer, Proceed, Holds
<1>3. PICK step \in {"data", "index", "unlock"} :
        /\ Goto(t, step)
        /\ step \in {"data", "index"} =>
             \/ op[t] = "push" /\ NextSlot(tail) # head
             \/ op[t] \in {"pop", "pop_null"} /\ head # tail
        /\ step = "data" => op[t] # "pop_null"
        /\ step = "index" => op[t] = "pop_null"
  BY DEF Answer, Proceed
<1>4. /\ MutexInv' /\ pc'[t] = step
      /\ pc' \in [Thread -> {"idle", "lock", "test", "data", "index", "unlock"}]
      /\ \A u \in Thread : u # t =>
           /\ pc'[u] \notin {"test", "data", "index"}
           /\ op'[u] = "push" /\ pc'[u] = "lock" => arg'[u] \in Value
           /\ op'[u] = "pop_null" /\ pc'[u] = "lock" => arg'[u] = NoValue
  BY <1>2, <1>3, OthersWait
<1>5. TypeOK'
  BY <1>1, <1>2, <1>4 DEF TypeOK
<1>6. WorkInv'
  BY <1>2, <1>3, <1>4 DEF WorkInv
<1>7. ArgInv'
  <2>1. /\ op[t] = "push" => arg[t] \in Value
        /\ op[t] = "pop_null" => arg[t] = NoValue
    BY <1>1, <1>2 DEF ArgInv
  <2> QED
    BY <1>2, <1>3, <1>4, <2>1 DEF ArgInv
<1> QED
  BY <1>4, <1>5, <1>6, <1>7 DEF IInv

LEMMA PushWriteIInv ==
  ASSUME IInv, NEW t \in Thread, PushWrite(t)
  PROVE  IInv'
<1>1. TypeOK /\ WorkInv /\ ArgInv
  BY DEF IInv
<1>2. /\ pc[t] = "data" /\ op[t] = "push" /\ Holds(t)
      /\ buf' = [buf EXCEPT ![tail] = arg[t]] /\ Goto(t, "index")
      /\ UNCHANGED <<head, tail, mtx, op, arg, calls, delivered>>
  BY DEF PushWrite, Holds
<1>3. /\ MutexInv' /\ pc'[t] = "index"
      /\ pc' \in [Thread -> {"idle", "lock", "test", "data", "index", "unlock"}]
      /\ \A u \in Thread : u # t =>
           /\ pc'[u] \notin {"test", "data", "index"}
           /\ op'[u] = "push" /\ pc'[u] = "lock" => arg'[u] \in Value
           /\ op'[u] = "pop_null" /\ pc'[u] = "lock" => arg'[u] = NoValue
  BY <1>2, OthersWait
<1>4. /\ arg[t] \in Value /\ NextSlot(tail) # head
      /\ buf' \in [Slot -> Value] /\ buf'[tail] = arg[t]
  <2>1. arg[t] \in Value /\ NextSlot(tail) # head
    BY <1>1, <1>2 DEF ArgInv, WorkInv
  <2> QED
    BY <1>1, <1>2, <2>1, Types
<1>5. TypeOK'
  BY <1>1, <1>2, <1>3, <1>4 DEF TypeOK
<1>6. WorkInv' /\ ArgInv'
  BY <1>2, <1>3, <1>4 DEF WorkInv, ArgInv
<1> QED
  BY <1>3, <1>5, <1>6 DEF IInv

LEMMA PopReadIInv ==
  ASSUME IInv, NEW t \in Thread, PopRead(t)
  PROVE  IInv'
<1>1. TypeOK /\ WorkInv /\ ArgInv
  BY DEF IInv
<1>2. /\ pc[t] = "data" /\ op[t] = "pop" /\ Holds(t)
      /\ arg' = [arg EXCEPT ![t] = buf[head]] /\ Goto(t, "index")
      /\ UNCHANGED <<buf, head, tail, mtx, op, calls, delivered>>
  BY DEF PopRead, Holds
<1>3. /\ arg'[t] = buf[head] /\ \A u \in Thread : u # t => arg'[u] = arg[u]
      /\ arg' \in [Thread -> Value \union {NoValue}]
  <2>1. buf[head] \in Value
    BY <1>1, Types
  <2> QED
    BY <1>1, <1>2, <2>1 DEF TypeOK
<1>4. /\ MutexInv' /\ pc'[t] = "index"
      /\ pc' \in [Thread -> {"idle", "lock", "test", "data", "index", "unlock"}]
      /\ \A u \in Thread : u # t =>
           /\ pc'[u] \notin {"test", "data", "index"}
           /\ op'[u] = "push" /\ pc'[u] = "lock" => arg'[u] \in Value
           /\ op'[u] = "pop_null" /\ pc'[u] = "lock" => arg'[u] = NoValue
  BY <1>2, <1>3, OthersWait
<1>5. TypeOK'
  BY <1>1, <1>2, <1>3, <1>4 DEF TypeOK
<1>6. head # tail
  BY <1>1, <1>2 DEF WorkInv
<1>7. WorkInv' /\ ArgInv'
  BY <1>2, <1>3, <1>4, <1>6 DEF WorkInv, ArgInv
<1> QED
  BY <1>4, <1>5, <1>7 DEF IInv

(* PushTail and PopHead move an index on and are done with their work.       *)
LEMMA StoreIndexIInv ==
  ASSUME IInv, NEW t \in Thread, PushTail(t) \/ PopHead(t)
  PROVE  IInv'
<1>1. TypeOK
  BY DEF IInv
<1>2. /\ pc[t] = "index" /\ Holds(t) /\ Goto(t, "unlock")
      /\ UNCHANGED <<buf, mtx, op, arg, calls>>
      /\ tail' \in {tail, NextSlot(tail)} /\ head' \in {head, NextSlot(head)}
      /\ delivered' \in {delivered, Append(delivered, arg[t])}
  BY DEF PushTail, PopHead, Holds
<1>3. /\ MutexInv' /\ pc'[t] = "unlock"
      /\ pc' \in [Thread -> {"idle", "lock", "test", "data", "index", "unlock"}]
      /\ \A u \in Thread : u # t =>
           /\ pc'[u] \notin {"test", "data", "index"}
           /\ op'[u] = "push" /\ pc'[u] = "lock" => arg'[u] \in Value
           /\ op'[u] = "pop_null" /\ pc'[u] = "lock" => arg'[u] = NoValue
  BY <1>2, OthersWait
<1>4. tail' \in Slot /\ head' \in Slot
  <2>1. head \in Slot /\ head \in Int /\ tail \in Slot /\ tail \in Int /\ 1 \in Int
    BY <1>1, Types
  <2>2. Advance(tail, 1) \in Slot /\ Advance(head, 1) \in Slot
    BY <2>1, AdvanceIsSlot
  <2> QED
    BY <1>2, <2>1, <2>2 DEF NextSlot
<1>5. delivered' \in Seq(Value \union {NoValue})
  <2>1. /\ arg[t] \in Value \union {NoValue}
        /\ delivered \in Seq(Value \union {NoValue})
    BY <1>1 DEF TypeOK
  <2>2. Append(delivered, arg[t]) \in Seq(Value \union {NoValue})
    BY <2>1, AppendProperties
  <2> QED
    BY <1>2, <2>1, <2>2
<1>6. TypeOK'
  BY <1>1, <1>2, <1>3, <1>4, <1>5 DEF TypeOK
<1>7. WorkInv' /\ ArgInv'
  BY <1>2, <1>3 DEF WorkInv, ArgInv
<1> QED
  BY <1>3, <1>6, <1>7 DEF IInv

(* The mutex is held by the one thread past its lock_guard, and the slot it  *)
(* works with stays as it found it.                                          *)
THEOREM Invariance == Spec => []IInv
<1>1. IInv /\ [Next]_vars => IInv'
  <2> SUFFICES ASSUME IInv, [Next]_vars PROVE IInv'
    OBVIOUS
  <2>1. ASSUME NEW t \in Thread, NEW o \in Op, NEW v \in Value \union {NoValue},
               Call(t, o, v)
        PROVE  IInv'
    BY <2>1, CallIInv
  <2>2. ASSUME NEW t \in Thread, Lock(t) \/ Unlock(t) PROVE IInv'
    BY <2>2, LockIInv, UnlockIInv
  <2>3. ASSUME NEW t \in Thread, Work(t) PROVE IInv'
    BY <2>3, TestIInv, PushWriteIInv, PopReadIInv, StoreIndexIInv DEF Work
  <2>4. CASE UNCHANGED vars
    BY <2>4 DEF vars, IInv, TypeOK, MutexInv, Holds, WorkInv, ArgInv
  <2> QED
    BY <2>1, <2>2, <2>3, <2>4 DEF Next
<1> QED
  BY InitIInv, <1>1, PTL DEF Spec

(* Indices stay within buf_, however calls of any threads interleave.        *)
THEOREM TypeCorrect == Spec => []TypeOK
<1>1. IInv => TypeOK
  BY DEF IInv
<1> QED
  BY Invariance, <1>1, PTL

----------------------------------------------------------------------------
(* How far tail_ is ahead of head_, and what moving one of them on does.     *)
LEMMA DistanceLeads ==
  ASSUME NEW h \in Slot, NEW t \in Slot
  PROVE  /\ Distance(h, t) \in 0 .. Capacity
         /\ Advance(h, Distance(h, t)) = t
<1>1. /\ Capacity \in Nat /\ Phys = Capacity + 1 /\ Phys \in Nat \ {0}
      /\ h \in 0 .. (Phys - 1) /\ t \in 0 .. (Phys - 1) /\ h \in Int /\ t \in Int
      /\ t - h + Phys \in Int
  BY PhysType, CapacityAssumption
<1>2. Distance(h, t) \in 0 .. (Phys - 1)
  BY <1>1, DivMod DEF Distance
<1>3. (((t - h + Phys) % Phys) + h) % Phys = (t - h + Phys + h) % Phys
  BY <1>1, ModAdd
<1>4. t - h + Phys + h = t + Phys
  BY <1>1
<1>5. (t + Phys) % Phys = t % Phys
  BY <1>1, ModPeriod
<1>6. t % Phys = t
  BY <1>1, ModSmall
<1>7. (Distance(h, t) + h) % Phys = t
  BY <1>3, <1>4, <1>5, <1>6 DEF Distance
<1>8. Distance(h, t) \in 0 .. Capacity /\ Distance(h, t) + h = h + Distance(h, t)
  BY <1>1, <1>2
<1> QED
  BY <1>7, <1>8 DEF Advance

(* The distance is the only number of steps below a lap that leads there.    *)
LEMMA DistanceIs ==
  ASSUME NEW h \in Slot, NEW t \in Slot, NEW n \in 0 .. Capacity,
         Advance(h, n) = t
  PROVE  Distance(h, t) = n
<1> DEFINE d == Distance(h, t)
<1>1. d \in 0 .. Capacity /\ Advance(h, d) = t
  BY DistanceLeads
<1>2. Capacity \in Nat /\ h \in Int
  BY PhysType, CapacityAssumption
<1> HIDE DEF d
<1>3. d \in Int /\ n \in Int /\ d - n <= Capacity /\ n - d <= Capacity
  BY <1>1, <1>2
<1>4. d = n
  BY <1>1, <1>2, <1>3, AdvanceInjective
<1> QED
  BY <1>4 DEF d

LEMMA TailMovesOn ==
  ASSUME NEW h \in Slot, NEW t \in Slot, NextSlot(t) # h
  PROVE  /\ Distance(h, t) < Capacity
         /\ Distance(h, NextSlot(t)) = Distance(h, t) + 1
<1> DEFINE d == Distance(h, t)
<1>1. d \in 0 .. Capacity /\ Advance(h, d) = t
  BY DistanceLeads
<1>2. /\ Capacity \in Nat /\ Phys = Capacity + 1 /\ Phys \in Nat \ {0}
      /\ h \in 0 .. (Phys - 1) /\ h \in Int /\ t \in Int
  BY PhysType, CapacityAssumption
<1> HIDE DEF d
<1>3. d \in Int /\ 1 \in Int /\ d + 1 \in Int
  BY <1>1, <1>2
<1>4. Advance(h, d + 1) = NextSlot(t)
  BY <1>1, <1>2, <1>3, AdvanceTwice DEF NextSlot
<1>5. d # Capacity
  <2> SUFFICES ASSUME d = Capacity PROVE FALSE
    OBVIOUS
  <2>1. d + 1 = Phys
    BY <1>2
  <2>2. (h + Phys) % Phys = h % Phys
    BY <1>2, ModPeriod
  <2>3. h % Phys = h
    BY <1>2, ModSmall
  <2>4. Advance(h, Phys) = h
    BY <2>2, <2>3 DEF Advance
  <2> QED
    BY <1>4, <2>1, <2>4
<1>6. d < Capacity /\ d + 1 \in 0 .. Capacity
  BY <1>1, <1>2, <1>5
<1>7. NextSlot(t) \in Slot
  BY <1>2, <1>3, AdvanceIsSlot DEF NextSlot
<1>8. Distance(h, NextSlot(t)) = d + 1
  BY <1>4, <1>6, <1>7, DistanceIs
<1> QED
  BY <1>6, <1>8 DEF d

LEMMA HeadMovesOn ==
  ASSUME NEW h \in Slot, NEW t \in Slot, h # t
  PROVE  /\ Distance(h, t) > 0
         /\ Distance(NextSlot(h), t) = Distance(h, t) - 1
<1> DEFINE d == Distance(h, t)
<1>1. d \in 0 .. Capacity /\ Advance(h, d) = t
  BY DistanceLeads
<1>2. Capacity \in Nat /\ h \in Int
  BY PhysType, CapacityAssumption
<1> HIDE DEF d
<1>3. d # 0
  BY <1>1, AdvanceNothing
<1>4. /\ d > 0 /\ d - 1 \in 0 .. Capacity /\ d - 1 \in Int /\ 1 \in Int
      /\ 1 + (d - 1) = d
  BY <1>1, <1>2, <1>3
<1>5. Advance(Advance(h, 1), d - 1) = Advance(h, 1 + (d - 1))
  BY <1>2, <1>4, AdvanceTwice
<1>6. Advance(NextSlot(h), d - 1) = t
  BY <1>1, <1>4, <1>5 DEF NextSlot
<1>7. NextSlot(h) \in Slot
  BY <1>2, <1>4, AdvanceIsSlot DEF NextSlot
<1>8. Distance(NextSlot(h), t) = d - 1
  BY <1>4, <1>6, <1>7, DistanceIs
<1> QED
  BY <1>4, <1>8 DEF d

(* The slots read off as a queue.                                            *)
LEMMA QueueProperties ==
  ASSUME TypeOK
  PROVE  /\ LiveElements \in Seq(Value)
         /\ Len(LiveElements) = Distance(head, tail)
         /\ Distance(head, tail) \in 0 .. Capacity
         /\ \A i \in 1 .. Distance(head, tail) :
              LiveElements[i] = buf[Advance(head, i - 1)]
<1> DEFINE d == Distance(head, tail)
<1>1. d \in 0 .. Capacity
  BY Types, DistanceLeads
<1>2. d \in Nat
  BY <1>1, Types
<1>3. LiveElements = [i \in 1 .. d |-> buf[Advance(head, i - 1)]]
  BY DEF LiveElements
<1> HIDE DEF d
<1>4. ASSUME NEW i \in 1 .. d PROVE buf[Advance(head, i - 1)] \in Value
  <2>1. i - 1 \in Int
    BY <1>2
  <2>2. Advance(head, i - 1) \in Slot
    BY <2>1, Types, AdvanceIsSlot
  <2> QED
    BY <2>2, Types
<1>5. LiveElements \in [1 .. d -> Value]
  BY <1>3, <1>4
<1>6. LiveElements \in Seq(Value) /\ Len(LiveElements) = d
  BY <1>2, <1>5
<1> QED
  BY <1>1, <1>3, <1>6 DEF d

LEMMA QueuePropertiesNext ==
  ASSUME TypeOK'
  PROVE  /\ LiveElements' \in Seq(Value)
         /\ Len(LiveElements') = Distance(head', tail')
         /\ Distance(head', tail') \in 0 .. Capacity
         /\ \A i \in 1 .. Distance(head', tail') :
              LiveElements'[i] = buf'[Advance(head', i - 1)]
<1>1. (TypeOK => /\ LiveElements \in Seq(Value)
                 /\ Len(LiveElements) = Distance(head, tail)
                 /\ Distance(head, tail) \in 0 .. Capacity
                 /\ \A i \in 1 .. Distance(head, tail) :
                      LiveElements[i] = buf[Advance(head, i - 1)])'
  BY QueueProperties, PTL
<1> QED
  BY <1>1

----------------------------------------------------------------------------
(* The store of tail_ is the abstract push of the argument.                  *)
LEMMA PushTailPushes ==
  ASSUME IInv, IInv', NEW t \in Thread, PushTail(t)
  PROVE  arg[t] \in Value /\ Fifo!Push(arg[t])
<1> DEFINE d == Distance(head, tail)
<1>1. TypeOK /\ TypeOK'
  BY DEF IInv
<1>2. /\ pc[t] = "index" /\ op[t] = "push" /\ tail' = NextSlot(tail)
      /\ UNCHANGED <<buf, head, delivered>>
  BY DEF PushTail
<1>3. /\ NextSlot(tail) # head /\ arg[t] = buf[tail]
      /\ head \in Slot /\ tail \in Slot /\ head \in Int /\ tail \in Int
      /\ buf[tail] \in Value /\ Capacity \in Nat
  BY <1>1, <1>2, Types DEF IInv, WorkInv, ArgInv
<1>4. d < Capacity /\ Distance(head', tail') = d + 1
  BY <1>2, <1>3, TailMovesOn
<1>5. Advance(head, d) = tail
  BY <1>3, DistanceLeads
<1>6. /\ LiveElements \in Seq(Value) /\ Len(LiveElements) = d
      /\ d \in 0 .. Capacity
      /\ \A i \in 1 .. d : LiveElements[i] = buf[Advance(head, i - 1)]
  BY <1>1, QueueProperties
<1>7. /\ LiveElements' \in Seq(Value) /\ Len(LiveElements') = d + 1
      /\ \A i \in 1 .. d + 1 : LiveElements'[i] = buf[Advance(head, i - 1)]
  BY <1>1, <1>2, <1>4, QueuePropertiesNext
<1> HIDE DEF d
<1> DEFINE q == Append(LiveElements, arg[t])
<1>8. /\ q \in Seq(Value) /\ Len(q) = d + 1 /\ q[d + 1] = arg[t]
      /\ \A i \in 1 .. d : q[i] = LiveElements[i]
  BY <1>3, <1>6, AppendProperties
<1> HIDE DEF q
<1>9. ASSUME NEW i \in 1 .. d + 1 PROVE LiveElements'[i] = q[i]
  <2>1. CASE i = d + 1
    <3>1. i - 1 = d
      BY <1>6, <2>1
    <3> QED
      BY <1>3, <1>5, <1>7, <1>8, <2>1, <3>1
  <2>2. CASE i # d + 1
    <3>1. i \in 1 .. d
      BY <1>6, <2>2
    <3> QED
      BY <1>6, <1>7, <1>8, <3>1
  <2> QED
    BY <2>1, <2>2
<1>10. LiveElements' = q
  BY <1>7, <1>8, <1>9, SeqEqual
<1> QED
  BY <1>2, <1>3, <1>4, <1>6, <1>10 DEF Fifo!Push, q

(* The store of head_ is the abstract pop, or, when out_val is null, the     *)
(* removal of one element unread.                                            *)
LEMMA PopHeadPops ==
  ASSUME IInv, IInv', NEW t \in Thread, PopHead(t)
  PROVE  Fifo!Pop \/ (1 \in 1 .. Capacity /\ Fifo!Drop(1))
<1> DEFINE d == Distance(head, tail)
<1>1. TypeOK /\ TypeOK'
  BY DEF IInv
<1>2. /\ pc[t] = "index" /\ op[t] # "push" /\ head' = NextSlot(head)
      /\ delivered' = Append(delivered, arg[t])
      /\ UNCHANGED <<buf, tail>>
  BY DEF PopHead
<1>3. /\ head # tail /\ op[t] \in {"pop", "pop_null"}
      /\ head \in Slot /\ tail \in Slot /\ head \in Int /\ tail \in Int
      /\ Capacity \in Nat
  BY <1>1, <1>2, Types DEF IInv, WorkInv
<1>4. d > 0 /\ Distance(head', tail') = d - 1
  BY <1>2, <1>3, HeadMovesOn
<1>5. /\ LiveElements \in Seq(Value) /\ Len(LiveElements) = d
      /\ d \in 0 .. Capacity
      /\ \A i \in 1 .. d : LiveElements[i] = buf[Advance(head, i - 1)]
  BY <1>1, QueueProperties
<1>6. /\ LiveElements' \in Seq(Value) /\ Len(LiveElements') = d - 1
      /\ \A i \in 1 .. d - 1 : LiveElements'[i] = buf[Advance(head', i - 1)]
  BY <1>1, <1>2, <1>4, QueuePropertiesNext
<1> HIDE DEF d
<1>7. LiveElements # <<>> /\ d \in Nat \ {0}
  BY <1>3, <1>4, <1>5, EmptySeq
<1> DEFINE q == Tail(LiveElements)
<1>8. /\ q \in Seq(Value) /\ Len(q) = d - 1
      /\ \A i \in 1 .. d - 1 : q[i] = LiveElements[i + 1]
      /\ q = SubSeq(LiveElements, 2, Len(LiveElements))
  BY <1>5, <1>7, HeadTailProperties, TailIsSubSeq
<1> HIDE DEF q
<1>9. ASSUME NEW i \in 1 .. d - 1 PROVE LiveElements'[i] = q[i]
  <2>1. /\ i + 1 \in 1 .. d /\ (i + 1) - 1 = i /\ i - 1 \in Int /\ 1 \in Int
        /\ 1 + (i - 1) = i
    BY <1>7
  <2>2. Advance(head', i - 1) = Advance(head, i)
    BY <1>2, <1>3, <2>1, AdvanceTwice DEF NextSlot
  <2>3. LiveElements[i + 1] = buf[Advance(head, i)]
    BY <1>5, <2>1
  <2> QED
    BY <1>6, <1>8, <2>2, <2>3
<1>10. LiveElements' = q
  BY <1>6, <1>8, <1>9, SeqEqual
<1>11. delivered \in Seq(Value \union {NoValue})
  BY <1>1 DEF TypeOK
<1>12. CASE op[t] = "pop"
  <2>1. arg[t] = buf[head]
    BY <1>2, <1>12 DEF IInv, ArgInv
  <2>2. LiveElements[1] = buf[Advance(head, 1 - 1)] /\ 1 - 1 = 0
    BY <1>5, <1>7
  <2>3. Head(LiveElements) = buf[head]
    BY <1>3, <1>5, <1>7, <2>2, AdvanceNothing
  <2> QED
    BY <1>2, <1>7, <1>10, <2>1, <2>3 DEF Fifo!Pop, q
<1>13. CASE op[t] = "pop_null"
  <2>1. arg[t] = NoValue
    BY <1>2, <1>13 DEF IInv, ArgInv
  <2>2. Append(delivered, NoValue) = delivered \o <<NoValue>>
    BY <1>11, AppendIsConcat
  <2>3. <<NoValue>> = [i \in 1 .. 1 |-> NoValue]
    OBVIOUS
  <2>4. 1 \in 1 .. Capacity /\ 1 <= Len(LiveElements) /\ 1 + 1 = 2
    BY <1>3, <1>4, <1>5, <1>7
  <2> QED
    BY <1>2, <1>8, <1>10, <2>1, <2>2, <2>3, <2>4 DEF Fifo!Drop
<1> QED
  BY <1>3, <1>12, <1>13

(* push's write goes to the free slot at tail_, which holds no element.      *)
LEMMA PushWriteStutters ==
  ASSUME IInv, IInv', NEW t \in Thread, PushWrite(t)
  PROVE  UNCHANGED Fifo!fifoVars
<1> DEFINE d == Distance(head, tail)
<1>1. TypeOK /\ TypeOK'
  BY DEF IInv
<1>2. buf' = [buf EXCEPT ![tail] = arg[t]] /\ UNCHANGED <<head, tail, delivered>>
  BY DEF PushWrite
<1>3. /\ head \in Slot /\ tail \in Slot /\ head \in Int /\ Capacity \in Nat
      /\ buf \in [Slot -> Value]
  BY <1>1, Types
<1>4. Advance(head, d) = tail
  BY <1>3, DistanceLeads
<1>5. /\ LiveElements \in Seq(Value) /\ Len(LiveElements) = d
      /\ d \in 0 .. Capacity
      /\ \A i \in 1 .. d : LiveElements[i] = buf[Advance(head, i - 1)]
  BY <1>1, QueueProperties
<1>6. /\ LiveElements' \in Seq(Value) /\ Len(LiveElements') = d
      /\ \A i \in 1 .. d : LiveElements'[i] = buf'[Advance(head, i - 1)]
  BY <1>1, <1>2, QueuePropertiesNext
<1> HIDE DEF d
<1>7. ASSUME NEW i \in 1 .. d PROVE LiveElements'[i] = LiveElements[i]
  <2>1. /\ i - 1 \in Int /\ d \in Int /\ i - 1 # d
        /\ (i - 1) - d <= Capacity /\ d - (i - 1) <= Capacity
    BY <1>3, <1>5
  <2>2. Advance(head, i - 1) # tail /\ Advance(head, i - 1) \in Slot
    BY <1>3, <1>4, <2>1, AdvanceInjective, AdvanceIsSlot
  <2>3. buf'[Advance(head, i - 1)] = buf[Advance(head, i - 1)]
    BY <1>2, <1>3, <2>2
  <2> QED
    BY <1>5, <1>6, <2>3
<1>8. LiveElements' = LiveElements
  BY <1>5, <1>6, <1>7, SeqEqual
<1> QED
  BY <1>2, <1>8 DEF Fifo!fifoVars

(* The mutex ring is a bounded FIFO queue, for any threads on either side.   *)
THEOREM ImplementsFifoQueue == Spec => ImplementsFifo
<1>1. Init => Fifo!Init
  <2> SUFFICES ASSUME Init PROVE LiveElements = <<>> /\ delivered = <<>>
    BY DEF Fifo!Init
  <2>1. TypeOK /\ head = 0 /\ tail = 0 /\ 0 \in Slot
    BY InitIInv, Types DEF IInv, Init
  <2>2. Distance(head, tail) = 0
    <3>1. 0 \in 0 .. Capacity /\ Advance(0, 0) = 0
      BY <2>1, AdvanceNothing, CapacityAssumption
    <3> QED
      BY <2>1, <3>1, DistanceIs
  <2>3. LiveElements \in Seq(Value) /\ Len(LiveElements) = 0
    BY <2>1, <2>2, QueueProperties
  <2> QED
    BY <2>3, EmptySeq DEF Init
<1>2. IInv /\ IInv' /\ [Next]_vars => [Fifo!Next]_(Fifo!fifoVars)
  <2> SUFFICES ASSUME IInv, IInv', [Next]_vars
               PROVE  [Fifo!Next]_(Fifo!fifoVars)
    OBVIOUS
  <2>1. ASSUME UNCHANGED <<buf, head, tail, delivered>>
        PROVE  UNCHANGED Fifo!fifoVars
    BY <2>1 DEF Fifo!fifoVars, LiveElements
  <2>2. ASSUME NEW t \in Thread, PushTail(t) PROVE Fifo!Next
    BY <2>2, PushTailPushes DEF Fifo!Next
  <2>3. ASSUME NEW t \in Thread, PopHead(t) PROVE Fifo!Next
    BY <2>3, PopHeadPops DEF Fifo!Next
  <2>4. ASSUME NEW t \in Thread, PushWrite(t) PROVE UNCHANGED Fifo!fifoVars
    BY <2>4, PushWriteStutters
  <2>5. ASSUME NEW t \in Thread, NEW o \in Op, NEW v \in Value \union {NoValue},
               Call(t, o, v)
        PROVE  UNCHANGED Fifo!fifoVars
    BY <2>1, <2>5 DEF Call
  <2>6. ASSUME NEW t \in Thread,
               Lock(t) \/ Unlock(t) \/ Answer(t) \/ Proceed(t) \/ PopRead(t)
        PROVE  UNCHANGED Fifo!fifoVars
    BY <2>1, <2>6 DEF Lock, Unlock, Answer, Proceed, PopRead
  <2>7. CASE UNCHANGED vars
    BY <2>1, <2>7 DEF vars
  <2> QED
    BY <2>2, <2>3, <2>4, <2>5, <2>6, <2>7 DEF Next, Work
<1> QED
  BY <1>1, <1>2, Invariance, PTL DEF Spec, ImplementsFifo
=============================================================================

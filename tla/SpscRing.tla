------------------------------ MODULE SpscRing ------------------------------
(***************************************************************************)
(* fastreplay::RingBuffer (include/fastreplay/ring_buffer.hpp): one        *)
(* producer thread calls push, one consumer thread calls pop,              *)
(* sample_indices and advance_head, both may call size() and empty(), and  *)
(* only the two atomics head_ and tail_ order them.                        *)
(*                                                                         *)
(* The C++ memory model is part of the model.  An atomic is the sequence   *)
(* of the values stored to it (its modification order): headHist, tailHist *)
(* with the initial value first.  A load by the thread that stores it      *)
(* returns the last value; a load by the other thread may return any value *)
(* not older than the last one that thread saw (coherence), and an acquire *)
(* load of a release store also makes what came before that store happen   *)
(* before what follows the load.  pSeen and cSeen are the positions the    *)
(* two threads have seen, pSync and cSync those they synchronised with.    *)
(* A non-atomic access to buf_ is a step of its own: wroteAt and lastRead  *)
(* hold, for each slot, the position of the store that publishes its last  *)
(* write and last read, so an access races when the thread that makes it   *)
(* has not synchronised with that position.  A racing read may return      *)
(* anything.                                                               *)
(***************************************************************************)
EXTENDS RingOps, Sequences

CONSTANTS Value,      \* the ints pushed
          Zero,       \* what std::vector<int> starts with
          NoValue,    \* no int: pop(nullptr) and advance_head return none
          MaxPush     \* bound: successful pushes in a behaviour

ASSUME ValueAssumption == Zero \in Value /\ NoValue \notin Value
ASSUME BoundAssumption == MaxPush \in Nat

VARIABLES
  buf,        \* buf_
  headHist, tailHist,    \* the values stored to head_ and to tail_
  pPc, pTail, pVal,      \* push: its next step, cur_tail and value
  pSeen, pSync,          \* positions of headHist the producer saw, synced with
  cPc, cSlot, cVal,      \* pop or sampling: next step, index read, value read
  cSeen, cSync,          \* positions of tailHist the consumer saw, synced with
  wroteAt, lastRead,     \* per slot: position publishing its last write, read
  popped,     \* ghost: elements removed when headHist's i-th value was stored
  sent, got   \* ghosts: the values pushed; what the removals returned

ring == <<buf, headHist, tailHist>>
producer == <<pPc, pTail, pVal, pSeen, pSync>>
consumer == <<cPc, cSlot, cVal, cSeen, cSync>>
ghosts == <<wroteAt, lastRead, popped, sent, got>>
vars == <<ring, producer, consumer, ghosts>>

CurHead == headHist[Len(headHist)]
CurTail == tailHist[Len(tailHist)]

TypeOK ==
  /\ buf \in [Slot -> Value]
  /\ headHist \in Seq(Slot) /\ tailHist \in Seq(Slot)
  /\ pPc \in {"idle", "write", "publish"} /\ pTail \in Slot /\ pVal \in Value
  /\ pSeen \in 1 .. Len(headHist) /\ pSync \in 1 .. pSeen
  /\ cPc \in {"idle", "read", "publish", "sampled"} /\ cSlot \in Slot
  /\ cVal \in Value \union {NoValue}
  /\ cSeen \in 1 .. Len(tailHist) /\ cSync \in 1 .. cSeen
  /\ wroteAt \in [Slot -> Nat] /\ lastRead \in [Slot -> Nat]
  /\ popped \in Seq(Nat) /\ Len(popped) = Len(headHist)
  /\ sent \in Seq(Value) /\ got \in Seq(Value \union {NoValue})

Init ==
  /\ buf = [s \in Slot |-> Zero]
  /\ headHist = <<0>> /\ tailHist = <<0>>
  /\ pPc = "idle" /\ pTail = 0 /\ pVal = Zero /\ pSeen = 1 /\ pSync = 1
  /\ cPc = "idle" /\ cSlot = 0 /\ cVal = NoValue /\ cSeen = 1 /\ cSync = 1
  /\ wroteAt = [s \in Slot |-> 0] /\ lastRead = [s \in Slot |-> 0]
  /\ popped = <<0>> /\ sent = <<>> /\ got = <<>>

----------------------------------------------------------------------------
(* The memory orders of the loads and stores that meet across threads.     *)

\* Mutants: an acquire load or a release store weakened to relaxed.
RelaxedLoad == "relaxed"
RelaxedStore == "relaxed"

PushHeadLoad == "acquire"
TailStore == "release"
PopTailLoad == "acquire"
HeadStore == "release"
SampleTailLoad == "acquire"

\* The position a load of position k leaves its thread synchronised with.
Synced(load, store, k, before) ==
  IF load = "acquire" /\ store = "release" THEN k ELSE before

ProducerLoadsHead(order, k) ==
  /\ k \in pSeen .. Len(headHist)
  /\ pSeen' = k
  /\ pSync' = Synced(order, HeadStore, k, pSync)

ConsumerLoadsTail(order, k) ==
  /\ k \in cSeen .. Len(tailHist)
  /\ cSeen' = k
  /\ cSync' = Synced(order, TailStore, k, cSync)

\* Mutants: the test that the ring is full, or empty, is forgotten.
LooksFullNever(k) == FALSE
LooksEmptyNever(k) == FALSE

\* What the two threads conclude from the value at position k.
LooksFull(k) == NextSlot(CurTail) = headHist[k]
LooksEmpty(k) == CurHead = tailHist[k]

----------------------------------------------------------------------------
(* push(value): the two loads and the test, the write to buf_, the store.  *)

\* The ring looks full, perhaps because the head_ loaded is stale.
PushFull(k) ==
  /\ pPc = "idle"
  /\ ProducerLoadsHead(PushHeadLoad, k)
  /\ LooksFull(k)
  /\ UNCHANGED <<ring, pPc, pTail, pVal, consumer, ghosts>>

PushBegin(v, k) ==
  /\ pPc = "idle"
  /\ Len(sent) < MaxPush
  /\ ProducerLoadsHead(PushHeadLoad, k)
  /\ ~LooksFull(k)
  /\ pPc' = "write" /\ pTail' = CurTail /\ pVal' = v
  /\ UNCHANGED <<ring, consumer, ghosts>>

PushWrite ==
  /\ pPc = "write"
  /\ buf' = [buf EXCEPT ![pTail] = pVal]
  /\ wroteAt' = [wroteAt EXCEPT ![pTail] = Len(tailHist) + 1]
  /\ pPc' = "publish"
  /\ UNCHANGED <<headHist, tailHist, pTail, pVal, pSeen, pSync, consumer,
                 lastRead, popped, sent, got>>

PushPublish ==
  /\ pPc = "publish"
  /\ tailHist' = Append(tailHist, NextSlot(pTail))
  /\ sent' = Append(sent, pVal)
  /\ pPc' = "idle" /\ pVal' = Zero
  /\ UNCHANGED <<buf, headHist, pTail, pSeen, pSync, consumer, wroteAt,
                 lastRead, popped, got>>

\* size() or empty() called by the producer: its own tail_, a relaxed head_.
ProducerSize(k) ==
  /\ pPc = "idle"
  /\ ProducerLoadsHead("relaxed", k)
  /\ UNCHANGED <<ring, pPc, pTail, pVal, consumer, ghosts>>

----------------------------------------------------------------------------
(* pop(out_val): the two loads and the test, the read of buf_ unless       *)
(* out_val is null, the store of head_.                                    *)

\* The ring looks empty, perhaps because the tail_ loaded is stale.
PopEmpty(k) ==
  /\ cPc = "idle"
  /\ ConsumerLoadsTail(PopTailLoad, k)
  /\ LooksEmpty(k)
  /\ UNCHANGED <<ring, producer, cPc, cSlot, cVal, ghosts>>

\* wanted: out_val is not null.
PopBegin(wanted, k) ==
  /\ cPc = "idle"
  /\ ConsumerLoadsTail(PopTailLoad, k)
  /\ ~LooksEmpty(k)
  /\ cPc' = (IF wanted THEN "read" ELSE "publish")
  /\ cSlot' = CurHead
  /\ UNCHANGED <<ring, producer, cVal, ghosts>>

\* What the consumer may read in slot s: any value if the read is a race.
Readable(s) == IF wroteAt[s] <= cSync THEN {buf[s]} ELSE Value

PopRead ==
  /\ cPc = "read"
  /\ cVal' \in Readable(cSlot)
  /\ lastRead' = [lastRead EXCEPT ![cSlot] = Len(headHist) + 1]
  /\ cPc' = "publish"
  /\ UNCHANGED <<ring, producer, cSlot, cSeen, cSync, wroteAt, popped, sent,
                 got>>

\* head_ is stored after n removals, which return the values in vs.
StoreHead(slot, n, vs) ==
  /\ headHist' = Append(headHist, slot)
  /\ popped' = Append(popped, popped[Len(popped)] + n)
  /\ got' = got \o vs

PopPublish ==
  /\ cPc = "publish"
  /\ StoreHead(NextSlot(cSlot), 1, <<cVal>>)
  /\ cPc' = "idle" /\ cVal' = NoValue
  /\ UNCHANGED <<buf, tailHist, producer, cSlot, cSeen, cSync, wroteAt,
                 lastRead, sent>>

\* advance_head(n), for an n of at most the size the consumer last saw, as
\* pop_view calls it (n = 0 stores the same head_ again and is left out).
AdvanceHead(n) ==
  /\ cPc = "idle"
  /\ n <= Distance(CurHead, tailHist[cSeen])
  /\ StoreHead(Advance(CurHead, n), n, [i \in 1..n |-> NoValue])
  /\ UNCHANGED <<buf, tailHist, producer, consumer, wroteAt, lastRead, sent>>

\* size() or empty() called by the consumer: a relaxed tail_, its own head_.
ConsumerSize(k) ==
  /\ cPc = "idle"
  /\ ConsumerLoadsTail("relaxed", k)
  /\ UNCHANGED <<ring, producer, cPc, cSlot, cVal, ghosts>>

\* Mutant: the sampled offset may be n itself.
SampleOffsetsInclusive(n) == 0 .. n

\* dist(0, n - 1)
SampleOffsets(n) == 0 .. (n - 1)

\* sample_indices returns a batch; one of its indices stands for each.  An
\* empty ring throws and changes nothing but what was seen.
SampleEmpty(k) ==
  /\ cPc = "idle"
  /\ ConsumerLoadsTail(SampleTailLoad, k)
  /\ Distance(CurHead, tailHist[k]) = 0
  /\ UNCHANGED <<ring, producer, cPc, cSlot, cVal, ghosts>>

SampleBegin(offset, k) ==
  /\ cPc = "idle"
  /\ ConsumerLoadsTail(SampleTailLoad, k)
  /\ Distance(CurHead, tailHist[k]) # 0
  /\ offset \in SampleOffsets(Distance(CurHead, tailHist[k]))
  /\ cPc' = "sampled" /\ cSlot' = Advance(CurHead, offset)
  /\ UNCHANGED <<ring, producer, cVal, ghosts>>

\* The caller reads buf_ at the sampled index before it calls anything else.
SampleRead ==
  /\ cPc = "sampled"
  /\ lastRead' = [lastRead EXCEPT ![cSlot] = Len(headHist) + 1]
  /\ cPc' = "idle"
  /\ UNCHANGED <<ring, producer, cSlot, cVal, cSeen, cSync, wroteAt, popped,
                 sent, got>>

----------------------------------------------------------------------------
PushCall == \E k \in 1 .. Len(headHist) :
               PushFull(k) \/ \E v \in Value : PushBegin(v, k)
PopCall(wanted) == \E k \in 1 .. Len(tailHist) :
                      PopEmpty(k) \/ PopBegin(wanted, k)
PushSteps == PushCall \/ PushWrite \/ PushPublish
PopSteps(wanted) == PopCall(wanted) \/ PopRead \/ PopPublish

Next ==
  \/ PushSteps
  \/ \E k \in 1 .. Len(headHist) : ProducerSize(k)
  \/ \E wanted \in BOOLEAN : PopSteps(wanted)
  \/ \E n \in 1 .. Capacity : AdvanceHead(n)
  \/ \E k \in 1 .. Len(tailHist) :
        ConsumerSize(k) \/ SampleEmpty(k)
        \/ \E offset \in 0 .. Capacity : SampleBegin(offset, k)
  \/ SampleRead

Spec == Init /\ [][Next]_vars

----------------------------------------------------------------------------
Occupancy == Len(sent) - Len(got)

\* No access to buf_ is a data race: the producer writes a slot only after
\* the consumer's last read of it happened before, and the consumer, popping
\* or reading a sampled index, reads a slot only after its last write did
\* (the Release and Acquire comments of push and pop, README's TSan claim).
NoDataRace ==
  /\ pPc = "write" => lastRead[pTail] <= pSync
  /\ cPc \in {"read", "sampled"} => wroteAt[cSlot] <= cSync

\* What pop returned is what was pushed, in order, nothing lost or twice.
DeliveredInOrder ==
  /\ Len(got) <= Len(sent)
  /\ \A i \in 1 .. Len(got) : got[i] \in {sent[i], NoValue}

\* From the moment sample_indices returned it until it is read, a sampled
\* index names a slot that still holds an element pushed and not removed,
\* whatever the producer pushes meanwhile.
SampleIsLive ==
  cPc = "sampled" =>
    \E i \in Len(got) + 1 .. Len(sent) :
      cSlot = (i - 1) % Phys /\ buf[cSlot] = sent[i]

\* size() errs on the safe side: the producer never sees fewer elements than
\* there are (nor more than fit), the consumer never sees more.
SizeBrackets ==
  /\ \A k \in pSeen .. Len(headHist) :
        Distance(headHist[k], CurTail) \in Occupancy .. Capacity
  /\ \A k \in cSeen .. Len(tailHist) :
        Distance(CurHead, tailHist[k]) \in 0 .. Occupancy

\* What a thread saw stays true until it acts on it: once the producer has
\* seen room, no later load of head_ makes the ring look full, and once the
\* consumer has seen an element, none of tail_ makes the ring look empty.
SeenStaysTrue ==
  /\ ~LooksFull(pSeen) => \A k \in pSeen .. Len(headHist) : ~LooksFull(k)
  /\ ~LooksEmpty(cSeen) => \A k \in cSeen .. Len(tailHist) : ~LooksEmpty(k)

\* The ring's live slots, oldest first.
LiveElements ==
  [i \in 1 .. Distance(CurHead, CurTail) |-> buf[Advance(CurHead, i - 1)]]

Fifo == INSTANCE BoundedFifo WITH queue <- LiveElements, delivered <- got

\* The lock-free ring is a bounded FIFO queue: every push takes effect at its
\* store of tail_, every removal at its store of head_.
ImplementsFifo == Fifo!Init /\ [][Fifo!Next]_(Fifo!fifoVars)

----------------------------------------------------------------------------
(* The inductive invariant.  Elements are numbered from 0 in the order they *)
(* are pushed: element q goes to slot q % Phys, the store of tail_ at       *)
(* position q + 2 publishes it, and elements Len(got) .. Len(sent) - 1 are  *)
(* the live ones.                                                           *)

HistoriesInv ==
  /\ Len(tailHist) = Len(sent) + 1
  /\ \A k \in 1 .. Len(tailHist) : tailHist[k] = (k - 1) % Phys
  /\ \A k \in 1 .. Len(headHist) : headHist[k] = popped[k] % Phys
  /\ \A j, k \in 1 .. Len(headHist) : j <= k => popped[j] <= popped[k]
  /\ popped[Len(headHist)] = Len(got)

\* The producer's next slot is one the consumer is known to have left.
ProducerInv ==
  /\ Len(sent) <= popped[pSync] + Capacity
  /\ pPc # "idle" => /\ Len(sent) < popped[pSync] + Capacity
                     /\ pTail = Len(sent) % Phys

\* The consumer removes nothing it has not seen, reads nothing it has not
\* synchronised with.
ConsumerInv ==
  /\ Len(got) <= cSeen - 1
  /\ cPc \in {"read", "publish"} => /\ Len(got) < cSync - 1
                                    /\ cSlot = Len(got) % Phys
  /\ cPc = "publish" => cVal \in {sent[Len(got) + 1], NoValue}
  /\ cPc # "publish" => cVal = NoValue
  /\ cPc = "sampled" => \E q \in Len(got) .. (cSync - 2) : cSlot = q % Phys

\* Live slots hold their elements, and say where they were published.
DataInv ==
  /\ \A q \in Len(got) .. (Len(sent) - 1) :
       buf[q % Phys] = sent[q + 1] /\ wroteAt[q % Phys] = q + 2
  /\ pPc = "publish" => buf[pTail] = pVal /\ wroteAt[pTail] = Len(sent) + 2

\* The last read of a slot was before the removal of the last element in it:
\* the store of head_ that publishes the read comes right after one that
\* left that element in the ring.
ReadInv ==
  \A q \in (Len(sent) - Phys) .. (Len(sent) - 1) :
    LET r == lastRead[q % Phys]
    IN  r # 0 => r - 1 \in 1 .. Len(headHist) /\ popped[r - 1] <= q

IInv ==
  /\ TypeOK
  /\ HistoriesInv
  /\ ProducerInv
  /\ ConsumerInv
  /\ DataInv
  /\ ReadInv
  /\ DeliveredInOrder
=============================================================================

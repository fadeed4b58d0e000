------------------------------- MODULE PyRing -------------------------------
(***************************************************************************)
(* The Python class fastreplay.RingBuffer (src/fastreplay.cpp).  A call of *)
(* a binding holds the GIL, so it is one step, whichever Python thread     *)
(* makes it.  What lives on between the calls is memory: np.asarray(rb) is *)
(* buf_ itself, and so is the array pop_view returns when the range does   *)
(* not wrap, although its elements were removed: pushes go on underneath.  *)
(***************************************************************************)
EXTENDS RingOps, Sequences

CONSTANTS Value,   \* the ints pushed, and what memory outside buf_ may hold
          Zero,    \* what std::vector<int> starts with
          SizeT    \* how many values a size_t has, 2^64 in the builds

ASSUME ValueAssumption == Zero \in Value

\* A std::vector<int> of Phys elements was allocated, which takes four bytes
\* each: a longer one throws.  (Capacity = SizeT - 1, whose Phys is 0 in the
\* program, is allocated too; no model of this module stands for it.)
ASSUME SizeTAssumption == SizeT \in Nat /\ 2 * Phys <= SizeT

VARIABLES
  buf, head, tail,   \* buf_, head_, tail_
  batch,             \* the array the last pop_view returned: n ints from
                     \* buf_.data() + start on if a view, else the ints copied
  sampled,           \* an index sample_indices returned, which the caller
                     \* keeps; ghosts: the element it was drawn for, and
                     \* the pushes until that may change
  live,              \* ghost: the elements pushed and not removed
  taken,             \* ghost: the elements the last pop_view removed
  spare              \* ghost: the pushes until the first of them may change

vars == <<buf, head, tail, batch, sampled, live, taken, spare>>

View(start, n) == [start |-> start, n |-> n, copy |-> <<>>]
Copy(ints) == [start |-> 0, n |-> 0, copy |-> ints]
Index(slot, value, lasts) == [slot |-> slot, value |-> value, lasts |-> lasts]

TypeOK ==
  /\ buf \in [Slot -> Value] /\ head \in Slot /\ tail \in Slot
  /\ batch.start \in Slot /\ batch.n \in 0 .. Capacity
  /\ batch.copy \in Seq(Value)
  /\ sampled \in [slot : Slot, value : Value, lasts : -1 .. Capacity]
  /\ live \in Seq(Value) /\ taken \in Seq(Value) /\ spare \in -Capacity .. Phys

Init ==
  /\ buf = [s \in Slot |-> Zero] /\ head = 0 /\ tail = 0
  /\ batch = View(0, 0) /\ sampled = Index(0, Zero, -1)
  /\ live = <<>> /\ taken = <<>> /\ spare = 0

U(x) == x % SizeT

\* Mutant: the difference is not corrected, as it would not have to be if it
\* were signed.
SizeUncorrected == U(tail - head) % Phys

\* size(): (t - h + capacity_ + 1) % (capacity_ + 1), in unsigned arithmetic.
Size == U(U(U(tail - head) + Capacity) + 1) % Phys

\* push(v) on a ring with room; on a full one it returns False.
Push(v) ==
  /\ NextSlot(tail) # head
  /\ buf' = [buf EXCEPT ![tail] = v]
  /\ tail' = NextSlot(tail)
  /\ live' = Append(live, v)
  /\ spare' = (IF spare > -Capacity THEN spare - 1 ELSE spare)
  /\ sampled' = Index(sampled.slot, sampled.value,
                      IF sampled.lasts >= 0 THEN sampled.lasts - 1 ELSE -1)
  /\ UNCHANGED <<head, batch, taken>>

\* pop() on a ring with an element, which it returns; else it returns None.
Pop ==
  /\ head # tail
  /\ head' = NextSlot(head)
  /\ live' = Tail(live)
  /\ UNCHANGED <<buf, tail, batch, sampled, taken, spare>>

\* arr = np.asarray(rb); arr[s] = v.  A write through a view is one of these.
WriteSlot(s, v) ==
  /\ buf' = [buf EXCEPT ![s] = v]
  /\ live' = [i \in DOMAIN live |->
                IF Advance(head, i - 1) = s THEN v ELSE live[i]]
  /\ taken' = [i \in DOMAIN taken |->
                IF i <= batch.n /\ batch.start + i - 1 = s THEN v ELSE taken[i]]
  /\ sampled' = Index(sampled.slot,
                      IF sampled.slot = s THEN v ELSE sampled.value,
                      sampled.lasts)
  /\ UNCHANGED <<head, tail, batch, spare>>

----------------------------------------------------------------------------
(* pop_view(n): more than size() throws and changes nothing.               *)

\* Mutant: a range one longer than what is left of buf_ is contiguous.
ContiguousOffByOne(n) == head + n <= Phys + 1

\* current_head + n <= phys_capacity
Contiguous(n) == head + n <= Phys

\* Memory at buf_.data() + a: anything outside buf_.
Memory(a) == IF a \in Slot THEN {buf[a]} ELSE Value

FirstChunk == [i \in 1 .. (Phys - head) |-> buf[head + i - 1]]
SecondChunk(n) == [i \in 1 .. (n - (Phys - head)) |-> buf[i - 1]]

\* Mutant: the branch that copies forgets advance_head.
HeadAfterViewOnly(n) == IF Contiguous(n) THEN Advance(head, n) ELSE head

\* advance_head(n), which both branches call.
HeadAfter(n) == Advance(head, n)

PopView(n) ==
  /\ n <= Size
  /\ batch' = (IF Contiguous(n) THEN View(head, n)
               ELSE Copy(FirstChunk \o SecondChunk(n)))
  /\ head' = HeadAfter(n)
  /\ taken' = SubSeq(live, 1, n)
  /\ live' = SubSeq(live, n + 1, Len(live))
  /\ spare' = Phys - Size
  /\ UNCHANGED <<buf, tail, sampled>>

----------------------------------------------------------------------------
(* sample_indices(batch_size): an empty ring throws and changes nothing.    *)
(* One of the indices stands for each.                                      *)

\* Mutant: the index is the offset, as if the head were at slot 0.
OffsetAsIndex(offset) == offset

\* (h + offset) % phys
SampledIndex(offset) == Advance(head, offset)

\* The index of the element with offset others before it: the free slots, the
\* spare one among them, and the slots of those others go first.
SampleIndices(offset) ==
  /\ offset \in 0 .. (Size - 1)
  /\ sampled' = Index(SampledIndex(offset), live[offset + 1],
                      Phys - Size + offset)
  /\ UNCHANGED <<buf, head, tail, batch, live, taken, spare>>

\* view[inds]: what the caller finds at the index it kept.
Gathered == buf[sampled.slot]

Next ==
  \/ \E v \in Value : Push(v)
  \/ Pop
  \/ \E s \in Slot, v \in Value : WriteSlot(s, v)
  \/ \E n \in 0 .. Phys : PopView(n)
  \/ \E offset \in 0 .. Capacity : SampleIndices(offset)

Spec == Init /\ [][Next]_vars

----------------------------------------------------------------------------
\* The ints Python may find in element i of the array.
BatchElement(i) ==
  IF batch.n = 0 THEN {batch.copy[i]} ELSE Memory(batch.start + i - 1)

\* The ring holds the elements pushed and not removed, oldest first, with what
\* was written to them through NumPy, pop_view and pop taking them in turn.
RingHoldsLive ==
  /\ Size = Len(live)
  /\ \A i \in DOMAIN live : buf[Advance(head, i - 1)] = live[i]

\* pop_view's array has the elements it removed, and keeps each of them until
\* the pushes come round to its slot: the free slots there were at the call,
\* the spare one among them, and the elements taken before it go first.  A
\* copy keeps them for ever.
BatchKeepsTaken ==
  /\ Len(taken) = batch.n + Len(batch.copy)
  /\ \A i \in DOMAIN taken :
       (batch.n = 0 \/ spare + i - 1 >= 0) => BatchElement(i) = {taken[i]}

\* An index of sample_indices that the caller keeps names the element it was
\* drawn for, whatever is removed meanwhile, for as many pushes as there were
\* free slots (the spare one among them) and older elements: the element itself
\* may be gone from the ring long before its slot is rewritten.
SampledIndexLasts == sampled.lasts >= 0 => Gathered = sampled.value

----------------------------------------------------------------------------
(* The inductive invariant: where the tail is, seen from the head, from the *)
(* first slot of a view and from a sampled slot.                            *)

LiveInv ==
  /\ Len(live) <= Capacity
  /\ tail = Advance(head, Len(live))
  /\ \A i \in 1 .. Len(live) : buf[Advance(head, i - 1)] = live[i]

CopyInv == batch.n = 0 => batch.copy = taken

\* As long as spare is counted, the pushes reach the view's first slot after
\* that many; spare + batch.n <= Phys, so they reach each slot only once.
ViewInv ==
  batch.n # 0 =>
    /\ Len(taken) = batch.n /\ batch.copy = <<>>
    /\ batch.start + batch.n <= Phys /\ spare + batch.n <= Phys
    /\ spare > -Capacity => Advance(tail, spare) = batch.start
    /\ \A i \in 1 .. batch.n :
         spare + i - 1 >= 0 => buf[batch.start + i - 1] = taken[i]

SampledInv ==
  sampled.lasts >= 0 =>
    /\ Advance(tail, sampled.lasts) = sampled.slot
    /\ buf[sampled.slot] = sampled.value

IInv == TypeOK /\ LiveInv /\ CopyInv /\ ViewInv /\ SampledInv
=============================================================================

------------------------------ MODULE RingOps ------------------------------
(***************************************************************************)
(* The index arithmetic every ring of the repository uses: positions are   *)
(* taken modulo the number of physical slots, one more than the capacity,  *)
(* so that a full ring (next tail = head) is not an empty one (tail =      *)
(* head).  Both RingBuffer classes (ring_buffer.hpp, ring_buffer_mutex.hpp) *)
(* write these expressions out at each use.                                *)
(***************************************************************************)
EXTENDS Integers

CONSTANT Capacity   \* capacity_

ASSUME CapacityAssumption == Capacity \in Nat

\* The number of elements of buf_.
Phys == Capacity + 1

Slot == 0 .. (Phys - 1)

\* Mutant: the modulus is the capacity, as if no slot were spare.
AdvanceNoSpare(i, n) == (i + n) % Capacity

\* advance_head's index: i moved n slots on.
Advance(i, n) == (i + n) % Phys

\* Mutants: no wrap-around, or none of the last slot.
NextSlotNoWrap(i) == i + 1
NextSlotStuck(i) == IF i = Capacity THEN i ELSE i + 1

NextSlot(i) == Advance(i, 1)

\* Mutant: the same in size().
DistanceNoSpare(h, t) == (t - h + Capacity) % Capacity

\* size(): how many elements lie between a head index and a tail index.
Distance(h, t) == (t - h + Phys) % Phys
=============================================================================

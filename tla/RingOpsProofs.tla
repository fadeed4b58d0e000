--------------------------- MODULE RingOpsProofs ---------------------------
(***************************************************************************)
(* What the index arithmetic of RingOps computes, for every capacity, when *)
(* positions are the residues of ever-growing counts.                      *)
(***************************************************************************)
EXTENDS RingOps, TLAPS

LEMMA PhysType == Phys \in Nat \ {0} /\ Phys = Capacity + 1 /\ Slot = 0 .. Capacity
BY CapacityAssumption DEF Phys, Slot

LEMMA DivMod ==
  ASSUME NEW N \in Nat \ {0}, NEW a \in Int
  PROVE  /\ (a % N) \in 0 .. (N - 1)
         /\ (a \div N) \in Int
         /\ a = N * (a \div N) + (a % N)
OBVIOUS

LEMMA MulBound ==
  ASSUME NEW N \in Nat \ {0}, NEW q \in Int, N * q < N, N * q > 0 - N
  PROVE  q = 0
OBVIOUS

(* Two counts less than N apart have the same residue only if they are equal. *)
LEMMA ModInjective ==
  ASSUME NEW N \in Nat \ {0}, NEW a \in Int, NEW b \in Int,
         a % N = b % N, a - b < N, b - a < N
  PROVE  a = b
<1> DEFINE p == a \div N
           q == b \div N
<1>1. p \in Int /\ a = N * p + (a % N) /\ (a % N) \in Int
  BY DivMod
<1>2. q \in Int /\ b = N * q + (b % N) /\ (b % N) \in Int
  BY DivMod
<1> HIDE DEF p, q
<1>3. N * (p - q) = N * p - N * q
  BY <1>1, <1>2
<1>4. a - b = N * (p - q)
  BY <1>1, <1>2, <1>3
<1>5. p - q = 0
  BY <1>1, <1>2, <1>4, MulBound
<1> QED
  BY <1>1, <1>2, <1>5

(* A remainder is the only one in range. *)
LEMMA ModUnique ==
  ASSUME NEW N \in Nat \ {0}, NEW a \in Int, NEW q \in Int,
         NEW r \in 0 .. (N - 1), a = N * q + r
  PROVE  a % N = r
<1> DEFINE p == a \div N
           s == a % N
<1>1. p \in Int /\ s \in 0 .. (N - 1) /\ a = N * p + s
  BY DivMod
<1> HIDE DEF p, s
<1>2. N * (p - q) = N * p - N * q
  BY <1>1
<1>3. N * (p - q) = r - s
  BY <1>1, <1>2
<1>4. p - q = 0
  BY <1>1, <1>3, MulBound
<1>5. s = r
  BY <1>1, <1>4
<1> QED
  BY <1>5 DEF s

(* Adding before or after taking the residue gives the same residue. *)
LEMMA ModAdd ==
  ASSUME NEW N \in Nat \ {0}, NEW a \in Int, NEW n \in Int
  PROVE  ((a % N) + n) % N = (a + n) % N
<1> DEFINE p == a \div N
           b == (a % N) + n
           q == b \div N
           s == b % N
<1>1. p \in Int /\ (a % N) \in Int /\ a = N * p + (a % N)
  BY DivMod
<1>2. b \in Int
  BY <1>1
<1>3. q \in Int /\ s \in 0 .. (N - 1) /\ b = N * q + s
  BY <1>2, DivMod
<1>4. a + n = N * p + b
  BY <1>1
<1> HIDE DEF p, b, q, s
<1>5. N * (p + q) = N * p + N * q
  BY <1>1, <1>3
<1>6. a + n = N * (p + q) + s
  BY <1>1, <1>2, <1>3, <1>4, <1>5
<1>7. p + q \in Int /\ a + n \in Int
  BY <1>1, <1>3
<1>8. (a + n) % N = s
  BY <1>3, <1>6, <1>7, ModUnique
<1> QED
  BY <1>8 DEF b, s

(* The residue has period N. *)
LEMMA ModPeriod ==
  ASSUME NEW N \in Nat \ {0}, NEW a \in Int
  PROVE  (a + N) % N = a % N
<1> DEFINE p == a \div N
           s == a % N
<1>1. p \in Int /\ s \in 0 .. (N - 1) /\ a = N * p + s
  BY DivMod
<1> HIDE DEF p, s
<1>2. N * (p + 1) = N * p + N
  BY <1>1
<1>3. a + N = N * (p + 1) + s /\ p + 1 \in Int /\ a + N \in Int
  BY <1>1, <1>2
<1>4. (a + N) % N = s
  BY <1>1, <1>3, ModUnique
<1> QED
  BY <1>4 DEF s

(* Residues in range are their own. *)
LEMMA ModSmall ==
  ASSUME NEW N \in Nat \ {0}, NEW a \in 0 .. (N - 1)
  PROVE  a % N = a
OBVIOUS

LEMMA ResidueIsSlot ==
  ASSUME NEW x \in Int
  PROVE  x % Phys \in Slot
<1>1. Phys \in Nat \ {0}
  BY PhysType
<1> QED
  BY <1>1, DivMod DEF Slot

(* Counts less than Phys apart with the same slot are equal. *)
LEMMA SameSlot ==
  ASSUME NEW x \in Int, NEW y \in Int, x % Phys = y % Phys,
         x - y <= Capacity, y - x <= Capacity
  PROVE  x = y
<1>1. x - y < Phys /\ y - x < Phys /\ Phys \in Nat \ {0}
  BY PhysType, CapacityAssumption
<1> QED
  BY <1>1, ModInjective

(* The index arithmetic of the code, on the residues of two counts: moving   *)
(* on an index is counting on, and the distance of two indices is the        *)
(* difference of the counts as long as that fits the ring.                   *)
THEOREM AdvanceCounts ==
  ASSUME NEW x \in Int, NEW n \in Int
  PROVE  Advance(x % Phys, n) = (x + n) % Phys
BY PhysType, ModAdd DEF Advance

THEOREM DistanceCounts ==
  ASSUME NEW x \in Int, NEW y \in Int, y - x \in 0 .. Capacity
  PROVE  Distance(x % Phys, y % Phys) = y - x
<1> DEFINE N == Phys
           h == x % N
           t == y % N
           p == x \div N
           c == N - h
<1>1. N \in Nat \ {0} /\ N = Capacity + 1
  BY PhysType
<1> HIDE DEF N
<1>a. N \in Nat \ {0}
  BY <1>1
<1>b. h \in 0 .. (N - 1) /\ p \in Int /\ x = N * p + h
  BY <1>a, DivMod
<1>c. t \in 0 .. (N - 1)
  BY <1>a, DivMod
<1>2. h \in Int /\ p \in Int /\ x = N * p + h /\ t \in Int
  BY <1>a, <1>b, <1>c
<1>3. c \in Int
  BY <1>1, <1>2
<1>4. (t + c) % N = (y + c) % N
  BY <1>1, <1>3, ModAdd
<1>5. c + h = N
  BY <1>1, <1>2
<1> HIDE DEF h, t, p, c
<1>6. N * (p + 1) = N * p + N
  BY <1>1, <1>2
<1>7. y + c = N * (p + 1) + (y - x)
  BY <1>1, <1>2, <1>3, <1>5, <1>6
<1>8. /\ y - x \in 0 .. (N - 1)
      /\ p + 1 \in Int
      /\ y + c \in Int
  BY <1>1, <1>2, <1>3, CapacityAssumption
<1>9. (y + c) % N = y - x
  BY <1>1, <1>7, <1>8, ModUnique
<1>10. t - h + N = t + c
  BY <1>1, <1>2, <1>5, <1>3
<1> QED
  BY <1>4, <1>9, <1>10 DEF Distance, h, t, N

LEMMA AdvanceIsSlot ==
  ASSUME NEW x \in Int, NEW n \in Int
  PROVE  Advance(x, n) \in Slot
<1>1. x + n \in Int
  OBVIOUS
<1> QED
  BY <1>1, ResidueIsSlot DEF Advance

(* Moving on by m and then by n is moving on by m + n.                       *)
LEMMA AdvanceTwice ==
  ASSUME NEW x \in Int, NEW m \in Int, NEW n \in Int
  PROVE  Advance(Advance(x, m), n) = Advance(x, m + n)
<1>1. x + m \in Int /\ (x + m) + n = x + (m + n)
  OBVIOUS
<1>2. Advance((x + m) % Phys, n) = ((x + m) + n) % Phys
  BY <1>1, AdvanceCounts
<1> QED
  BY <1>1, <1>2 DEF Advance

LEMMA AdvanceNothing ==
  ASSUME NEW s \in Slot
  PROVE  Advance(s, 0) = s
<1>1. s \in 0 .. (Phys - 1) /\ Phys \in Nat \ {0} /\ s + 0 = s
  BY PhysType DEF Slot
<1>2. s % Phys = s
  BY <1>1, ModSmall
<1> QED
  BY <1>1, <1>2 DEF Advance

(* Different distances below a lap lead to different slots.                  *)
LEMMA AdvanceInjective ==
  ASSUME NEW x \in Int, NEW m \in Int, NEW n \in Int,
         m - n <= Capacity, n - m <= Capacity, Advance(x, m) = Advance(x, n)
  PROVE  m = n
<1>1. /\ x + m \in Int /\ x + n \in Int
      /\ (x + m) - (x + n) = m - n /\ (x + n) - (x + m) = n - m
  OBVIOUS
<1>2. x + m = x + n
  BY <1>1, SameSlot DEF Advance
<1> QED
  BY <1>2

(* Two indices of a ring are as far apart as size() says, whichever wrapped. *)
LEMMA DistanceSpans ==
  ASSUME NEW h \in Slot, NEW t \in Slot
  PROVE  /\ Distance(h, t) \in 0 .. Capacity
         /\ Advance(h, Distance(h, t)) = t
         /\ h = Advance(t, 0 - Distance(h, t))
<1> DEFINE x == t - h + Phys
           d == x % Phys
<1>1. /\ Phys \in Nat \ {0} /\ Slot = 0 .. Capacity /\ Phys = Capacity + 1
      /\ Capacity \in Nat
  BY PhysType, CapacityAssumption
<1>2. h \in Int /\ t \in Int /\ x \in Int /\ t \in 0 .. (Phys - 1)
  BY <1>1
<1>3. d \in 0 .. (Phys - 1)
  BY <1>1, <1>2, DivMod
<1>4. d \in 0 .. Capacity /\ d \in Int /\ 0 - d \in Int
  BY <1>1, <1>3
<1>5. Advance(h, d) = t
  <2>1. (d + h) % Phys = (x + h) % Phys
    BY <1>1, <1>2, ModAdd
  <2>2. x + h = t + Phys
    BY <1>1, <1>2
  <2>3. (t + Phys) % Phys = t % Phys /\ t % Phys = t
    BY <1>1, <1>2, ModPeriod, ModSmall
  <2> HIDE DEF d, x
  <2>4. h + d = d + h
    BY <1>2, <1>4
  <2> QED
    BY <2>1, <2>2, <2>3, <2>4 DEF Advance
<1> HIDE DEF d, x
<1>6. Advance(t, 0 - d) = h
  <2>1. Advance(Advance(h, d), 0 - d) = Advance(h, d + (0 - d))
    BY <1>2, <1>4, AdvanceTwice
  <2>2. d + (0 - d) = 0
    BY <1>4
  <2> QED
    BY <1>5, <2>1, <2>2, AdvanceNothing
<1> QED
  BY <1>4, <1>5, <1>6 DEF Distance, d, x

(* A ring that ends at t and holds n elements has size() n.                  *)
LEMMA DistanceBack ==
  ASSUME NEW t \in Slot, NEW n \in 0 .. Capacity
  PROVE  Distance(Advance(t, 0 - n), t) = n
<1>1. t \in Int /\ t \in 0 .. (Phys - 1) /\ Phys \in Nat \ {0}
  BY PhysType, CapacityAssumption
<1>2. t - n \in Int /\ t - (t - n) \in 0 .. Capacity /\ t - (t - n) = n
      /\ t + (0 - n) = t - n
  BY <1>1
<1>3. Distance((t - n) % Phys, t % Phys) = t - (t - n)
  BY <1>1, <1>2, DistanceCounts
<1>4. t % Phys = t
  BY <1>1, ModSmall
<1> QED
  BY <1>2, <1>3, <1>4 DEF Advance
=============================================================================

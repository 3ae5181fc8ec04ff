---------------------------- MODULE DeviceProofs ----------------------------
(***************************************************************************)
(* Proofs about the devices the engine's loops read and write.  The ring   *)
(* under the CoreAudio device is a queue, and its callbacks find it, for   *)
(* every capacity, batch and period and through every wrap of the indices. *)
(* The lock of the RAVENNA backend does what it is for, whatever the       *)
(* number of restarts, faults and waits.                                   *)
(***************************************************************************)
EXTENDS CoreAudioDevice, RavennaBackend, SequenceTheorems, TLAPS

----------------------------------------------------------------------------
(* The CoreAudio device: remainders *)

LEMMA Quotient ==
  ASSUME NEW n \in Nat \ {0}, NEW a \in Int
  PROVE  /\ a \div n \in Int /\ a % n \in 0 .. n - 1
         /\ a = n * (a \div n) + (a % n)
  BY SMT

LEMMA Spread ==
  ASSUME NEW n \in Nat \ {0}, NEW d \in Int, d >= 1
  PROVE  n * d >= n
  BY SMT

\* A number has one remainder.
LEMMA RemainderIsUnique ==
  ASSUME NEW n \in Nat \ {0}, NEW q \in Int, NEW r \in 0 .. n - 1,
         NEW p \in Int, NEW s \in 0 .. n - 1, n * q + r = n * p + s
  PROVE  r = s
<1>1. ASSUME NEW x \in Int, NEW y \in Int, NEW t \in 0 .. n - 1, NEW u \in 0 .. n - 1,
             x > y
      PROVE  n * x + t # n * y + u
  <2>1. n * (x - y) >= n
    BY <1>1, Spread
  <2>2. n * (x - y) = n * x - n * y
    BY SMT
  <2>3. n * x \in Int /\ n * y \in Int
    BY SMT
  <2> QED
    BY <2>1, <2>2, <2>3
<1>2. ~(q > p) /\ ~(p > q)
  BY <1>1
<1>3. q = p
  BY <1>2
<1> QED
  BY <1>3

LEMMA Remainder ==
  ASSUME NEW n \in Nat \ {0}, NEW q \in Int, NEW r \in 0 .. n - 1, NEW a \in Int,
         a = n * q + r
  PROVE  a % n = r
<1>1. /\ a \div n \in Int /\ a % n \in 0 .. n - 1
      /\ n * q + r = n * (a \div n) + (a % n)
  BY Quotient
<1> QED
  BY <1>1, RemainderIsUnique

\* What an addition that goes round at most once comes to.
LEMMA SumRound ==
  ASSUME NEW n \in Nat \ {0}, NEW a \in Int, NEW b \in 0 .. n
  PROVE  (a + b) % n = IF (a % n) + b < n THEN (a % n) + b ELSE (a % n) + b - n
<1> DEFINE q == a \div n
           r == a % n
<1>1. q \in Int /\ r \in 0 .. n - 1 /\ a = n * q + r
  BY Quotient
<1>2. n * (q + 1) = n * q + n /\ n * q \in Int
  BY <1>1, SMT
<1> HIDE DEF q, r
<1>3. CASE r + b < n
  <2>1. a + b = n * q + (r + b) /\ r + b \in 0 .. n - 1
    BY <1>1, <1>2, <1>3
  <2>2. (a + b) % n = r + b
    BY <1>1, <2>1, Remainder
  <2> QED
    BY <1>3, <2>2 DEF r
<1>4. CASE ~(r + b < n)
  <2>1. a + b = n * (q + 1) + (r + b - n) /\ r + b - n \in 0 .. n - 1
    BY <1>1, <1>2, <1>4
  <2>2. q + 1 \in Int /\ a + b \in Int
    BY <1>1
  <2>3. \A k \in Int, t \in 0 .. n - 1, c \in Int : c = n * k + t => c % n = t
    BY Remainder, Zenon
  <2>4. (a + b) % n = r + b - n
    BY ONLY <2>1, <2>2, <2>3, Zenon
  <2> QED
    BY <1>4, <2>4 DEF r
<1> QED
  BY <1>3, <1>4 DEF r

LEMMA SmallRemainder ==
  ASSUME NEW n \in Nat \ {0}, NEW a \in 0 .. n - 1
  PROVE  a % n = a
<1>1. a = n * 0 + a
  BY SMT
<1> QED
  BY <1>1, Remainder

\* A whole round more changes nothing.
LEMMA WholeRounds ==
  ASSUME NEW n \in Nat \ {0}, NEW a \in Int, NEW m \in Int, m % n = 0
  PROVE  (a - m) % n = a % n
<1> DEFINE q == a \div n
           k == m \div n
           r == a % n
<1>1. q \in Int /\ r \in 0 .. n - 1 /\ a = n * q + r
  BY Quotient
<1>2. k \in Int /\ m = n * k
  BY Quotient
<1>3. n * (q - k) = n * q - n * k /\ n * q \in Int /\ n * k \in Int
  BY <1>1, <1>2, SMT
<1> HIDE DEF q, k, r
<1>4. a - m = n * (q - k) + r
  BY <1>1, <1>2, <1>3
<1>5. a - m \in Int /\ q - k \in Int
  BY <1>1, <1>2
<1>6. (a - m) % n = r
  BY <1>1, <1>4, <1>5, Remainder
<1> QED
  BY <1>6 DEF r

----------------------------------------------------------------------------
(* Indices and slots *)

Indices == 0 .. IndexModulus - 1
Slots == 0 .. Capacity - 1

LEMMA Sizes ==
  /\ Capacity \in Nat \ {0} /\ Capacity >= 2 /\ IndexModulus \in Nat \ {0}
  /\ IndexModulus > Capacity /\ IndexModulus % Capacity = 0
  BY CapacityAssumption, IndexModulusAssumption

LEMMA AdvanceRounds ==
  ASSUME NEW x \in Indices, NEW n \in 0 .. Capacity
  PROVE  /\ Advance(x, n) = IF x + n < IndexModulus THEN x + n ELSE x + n - IndexModulus
         /\ Advance(x, n) \in Indices
<1>1. x \in Int /\ x \in 0 .. IndexModulus - 1 /\ n \in 0 .. IndexModulus
  BY Sizes DEF Indices
<1>2. x % IndexModulus = x
  BY <1>1, Sizes, SmallRemainder
<1>3. (x + n) % IndexModulus = IF x + n < IndexModulus THEN x + n ELSE x + n - IndexModulus
  BY <1>1, <1>2, Sizes, SumRound
<1> QED
  BY <1>1, <1>3, Sizes DEF Advance, Indices

LEMMA SlotRounds ==
  ASSUME NEW x \in Indices, NEW n \in 0 .. Capacity
  PROVE  /\ x % Capacity \in Slots
         /\ SlotFrom(x, n) = IF (x % Capacity) + n < Capacity THEN (x % Capacity) + n
                             ELSE (x % Capacity) + n - Capacity
         /\ SlotFrom(x, n) \in Slots
         /\ SlotFrom(x, n) = (x + n) % Capacity
<1> DEFINE r == x % Capacity
<1>1. x \in Int /\ r \in 0 .. Capacity - 1
  BY Sizes, Quotient DEF Indices
<1>2. r % Capacity = r
  BY <1>1, Sizes, SmallRemainder
<1>3. (x + n) % Capacity = IF r + n < Capacity THEN r + n ELSE r + n - Capacity
  BY <1>1, Sizes, SumRound
<1>4. (r + n) % Capacity = IF (r % Capacity) + n < Capacity THEN (r % Capacity) + n
                           ELSE (r % Capacity) + n - Capacity
  <2> HIDE DEF r
  <2> QED
    BY <1>1, Sizes, SumRound
<1>5. SlotFrom(x, n) = (r + n) % Capacity
  BY DEF SlotFrom
<1> HIDE DEF r
<1>6. (r + n) % Capacity = IF r + n < Capacity THEN r + n ELSE r + n - Capacity
  BY <1>2, <1>4
<1> QED
  BY <1>1, <1>3, <1>5, <1>6, Sizes DEF r, Slots

\* Less than a ring apart, two frames are in different slots.
LEMMA SlotsAreApart ==
  ASSUME NEW x \in Indices, NEW i \in Slots, NEW j \in Slots,
         SlotFrom(x, i) = SlotFrom(x, j)
  PROVE  i = j
<1>1. i \in 0 .. Capacity /\ j \in 0 .. Capacity
  BY Sizes DEF Slots
<1>2. x % Capacity \in 0 .. Capacity - 1
  BY <1>1, SlotRounds DEF Slots
<1>3. /\ SlotFrom(x, i) = IF (x % Capacity) + i < Capacity THEN (x % Capacity) + i
                          ELSE (x % Capacity) + i - Capacity
      /\ SlotFrom(x, j) = IF (x % Capacity) + j < Capacity THEN (x % Capacity) + j
                          ELSE (x % Capacity) + j - Capacity
  BY <1>1, SlotRounds
<1> DEFINE r == x % Capacity
<1> HIDE DEF r
<1>4. r \in 0 .. Capacity - 1
  BY <1>2 DEF r
<1>5. /\ SlotFrom(x, i) = IF r + i < Capacity THEN r + i ELSE r + i - Capacity
      /\ SlotFrom(x, j) = IF r + j < Capacity THEN r + j ELSE r + j - Capacity
  BY <1>3 DEF r
<1>6. (IF r + i < Capacity THEN r + i ELSE r + i - Capacity)
        = (IF r + j < Capacity THEN r + j ELSE r + j - Capacity)
  BY <1>5
<1> QED
  BY <1>4, <1>6, Sizes DEF Slots

\* From an index that has moved, the same slots and the same frames.
LEMMA Shift ==
  ASSUME NEW x \in Indices, NEW m \in Nat, NEW n \in Nat, m + n <= Capacity
  PROVE  /\ SlotFrom(Advance(x, m), n) = SlotFrom(x, m + n)
         /\ Advance(Advance(x, m), n) = Advance(x, m + n)
<1> DEFINE y == Advance(x, m)
<1>1. m \in 0 .. Capacity /\ n \in 0 .. Capacity /\ m + n \in 0 .. Capacity
  BY Sizes
<1>2. y \in Indices /\ y = IF x + m < IndexModulus THEN x + m ELSE x + m - IndexModulus
  BY <1>1, AdvanceRounds
<1> HIDE DEF y
<1>3. /\ Advance(y, n) = IF y + n < IndexModulus THEN y + n ELSE y + n - IndexModulus
      /\ Advance(x, m + n) = IF x + (m + n) < IndexModulus THEN x + (m + n)
                             ELSE x + (m + n) - IndexModulus
  BY <1>1, <1>2, AdvanceRounds
<1>4. Advance(y, n) = Advance(x, m + n)
  BY <1>1, <1>2, <1>3, Sizes DEF Indices
<1>5. SlotFrom(y, n) = (y + n) % Capacity /\ SlotFrom(x, m + n) = (x + (m + n)) % Capacity
  <2>1. SlotFrom(y, n) = (y + n) % Capacity
    BY <1>1, <1>2, SlotRounds
  <2>2. SlotFrom(x, m + n) = (x + (m + n)) % Capacity
    BY <1>1, SlotRounds
  <2> QED
    BY <2>1, <2>2
<1>6. ((x + (m + n)) - IndexModulus) % Capacity = (x + (m + n)) % Capacity
  <2>1. x + (m + n) \in Int /\ IndexModulus \in Int
    BY <1>1, Sizes DEF Indices
  <2>2. Capacity \in Nat \ {0} /\ IndexModulus % Capacity = 0
    BY Sizes
  <2>3. \A c \in Int, k \in Int : k % Capacity = 0 => (c - k) % Capacity = c % Capacity
    BY ONLY <2>2, WholeRounds, Zenon
  <2> QED
    BY <2>1, <2>2, <2>3, Zenon
<1>7. y + n = x + (m + n) \/ y + n = (x + (m + n)) - IndexModulus
  BY <1>1, <1>2, Sizes DEF Indices
<1>8. (y + n) % Capacity = (x + (m + n)) % Capacity
  BY ONLY <1>6, <1>7, Zenon
<1> QED
  BY <1>4, <1>5, <1>8 DEF y

\* Between two indices, in arithmetic that wraps.
LEMMA Difference ==
  ASSUME NEW r \in Indices, NEW w \in Indices
  PROVE  /\ (w - r) % IndexModulus = IF w >= r THEN w - r ELSE w - r + IndexModulus
         /\ (w - r) % IndexModulus \in Indices
<1>1. r \in Int /\ w \in Int /\ w - r \in Int
  BY Sizes DEF Indices
<1>2. CASE w >= r
  <2>1. w - r \in 0 .. IndexModulus - 1
    BY <1>2, Sizes DEF Indices
  <2>2. (w - r) % IndexModulus = w - r
    BY <2>1, Sizes, SmallRemainder
  <2> QED
    BY <1>2, <2>1, <2>2 DEF Indices
<1>3. CASE ~(w >= r)
  <2>1. w - r = IndexModulus * (-1) + (w - r + IndexModulus)
    BY <1>1, Sizes, SMT
  <2>2. w - r + IndexModulus \in 0 .. IndexModulus - 1
    BY <1>3, Sizes DEF Indices
  <2>3. (w - r) % IndexModulus = w - r + IndexModulus
    BY <1>1, <2>1, <2>2, Sizes, Remainder
  <2> QED
    BY <1>3, <2>2, <2>3 DEF Indices
<1> QED
  BY <1>2, <1>3
\* An index that moves on changes what is between the two by as much.
LEMMA DifferenceMoves ==
  ASSUME NEW r \in Indices, NEW w \in Indices, NEW n \in 0 .. Capacity, NEW u,
         u = (w - r) % IndexModulus
  PROVE  /\ u \in Indices /\ (u <= Capacity => w = Advance(r, u))
         /\ u + n <= Capacity => (Advance(w, n) - r) % IndexModulus = u + n
         /\ n <= u => (w - Advance(r, n)) % IndexModulus = u - n
<1>1. u \in Indices /\ u = IF w >= r THEN w - r ELSE w - r + IndexModulus
  BY Difference
<1>2. r \in 0 .. IndexModulus - 1 /\ w \in 0 .. IndexModulus - 1 /\ u \in 0 .. IndexModulus - 1
  BY <1>1 DEF Indices
<1>3. u <= Capacity => w = Advance(r, u)
  <2> SUFFICES ASSUME u <= Capacity PROVE w = Advance(r, u)
    OBVIOUS
  <2>1. Advance(r, u) = IF r + u < IndexModulus THEN r + u ELSE r + u - IndexModulus
    <3>1. u \in 0 .. Capacity
      BY <1>2, Sizes
    <3> QED
      BY <3>1, AdvanceRounds
  <2> QED
    BY <1>1, <1>2, <2>1, Sizes
<1>4. u + n <= Capacity => (Advance(w, n) - r) % IndexModulus = u + n
  <2> SUFFICES ASSUME u + n <= Capacity PROVE (Advance(w, n) - r) % IndexModulus = u + n
    OBVIOUS
  <2> DEFINE v == Advance(w, n)
  <2>1. v \in Indices /\ v = IF w + n < IndexModulus THEN w + n ELSE w + n - IndexModulus
    BY AdvanceRounds
  <2> HIDE DEF v
  <2>2. (v - r) % IndexModulus = IF v >= r THEN v - r ELSE v - r + IndexModulus
    BY <2>1, Difference
  <2>3. (v - r) % IndexModulus = u + n
    BY <1>1, <1>2, <2>1, <2>2, Sizes
  <2> QED
    BY <2>3 DEF v
<1>5. n <= u => (w - Advance(r, n)) % IndexModulus = u - n
  <2> SUFFICES ASSUME n <= u PROVE (w - Advance(r, n)) % IndexModulus = u - n
    OBVIOUS
  <2> DEFINE v == Advance(r, n)
  <2>1. v \in Indices /\ v = IF r + n < IndexModulus THEN r + n ELSE r + n - IndexModulus
    BY AdvanceRounds
  <2> HIDE DEF v
  <2>2. (w - v) % IndexModulus = IF w >= v THEN w - v ELSE w - v + IndexModulus
    BY <2>1, Difference
  <2>3. (w - v) % IndexModulus = u - n
    BY <1>1, <1>2, <2>1, <2>2, Sizes
  <2> QED
    BY <2>3 DEF v
<1> QED
  BY <1>1, <1>3, <1>4, <1>5

----------------------------------------------------------------------------
(* The ring *)

\* What is under way on either side: it has the room, or the frames, it needs,
\* and each frame copied is the one its index stands for.
CopiesAreTrue ==
  /\ writing <= Capacity - Used /\ reading <= Used
  /\ \A i \in 0 .. written - 1 : storage[SlotFrom(writeIndex, i)] = Advance(writeIndex, i)
  /\ \A i \in 0 .. Len(destination) - 1 : destination[i + 1] = Advance(readIndex, i)

RingProofInv == RingTypeOK /\ PublishedIsStable /\ CopiesAreTrue

LEMMA UsedFacts ==
  ASSUME RingTypeOK
  PROVE  /\ readIndex \in Indices /\ writeIndex \in Indices
         /\ Used \in 0 .. Capacity /\ writeIndex = Advance(readIndex, Used)
<1>1. readIndex \in Indices /\ writeIndex \in Indices /\ Used <= Capacity
  BY DEF RingTypeOK, Indices
<1>2. 0 \in 0 .. Capacity
  BY Sizes
<1>3. Used \in Indices /\ writeIndex = Advance(readIndex, Used)
  BY <1>1, <1>2, DifferenceMoves DEF Used
<1> QED
  BY <1>1, <1>3, Sizes DEF Indices

\* From the write index on, the frames come after those between the two.
LEMMA PastTheUsed ==
  ASSUME RingTypeOK, NEW n \in Nat, Used + n <= Capacity
  PROVE  /\ SlotFrom(writeIndex, n) = SlotFrom(readIndex, Used + n)
         /\ Advance(writeIndex, n) = Advance(readIndex, Used + n)
<1>1. /\ readIndex \in Indices /\ Used \in Nat /\ writeIndex = Advance(readIndex, Used)
  BY UsedFacts, Sizes
<1>2. \A m \in Nat : m + n <= Capacity =>
        /\ SlotFrom(Advance(readIndex, m), n) = SlotFrom(readIndex, m + n)
        /\ Advance(Advance(readIndex, m), n) = Advance(readIndex, m + n)
  BY <1>1, Shift
<1> QED
  BY <1>1, <1>2

LEMMA InitRingInv == RingInit => RingProofInv
<1> SUFFICES ASSUME RingInit PROVE RingProofInv
  OBVIOUS
<1> USE DEF RingInit
<1>1. 0 \in Indices /\ 0 \in 0 .. Capacity
  BY Sizes DEF Indices
<1>2. Used = 0
  <2>1. (0 - 0) % IndexModulus = 0
    BY <1>1, Difference
  <2> QED
    BY <2>1 DEF Used
<1>3. RingTypeOK
  BY <1>1, <1>2, Sizes, BoundsAssumption DEF RingTypeOK, Indices
<1>4. PublishedIsStable
  BY <1>2 DEF PublishedIsStable
<1>5. CopiesAreTrue
  BY <1>2, Sizes DEF CopiesAreTrue
<1> QED
  BY <1>3, <1>4, <1>5 DEF RingProofInv

LEMMA LeastOf ==
  ASSUME NEW a \in Nat, NEW b \in Nat
  PROVE  Least(a, b) \in Nat /\ Least(a, b) <= a /\ Least(a, b) <= b
  BY DEF Least

LEMMA CountedIsBounded ==
  ASSUME NEW c \in 0 .. CountCap, NEW n \in Nat
  PROVE  Counted(c, n) \in 0 .. CountCap
  BY BoundsAssumption DEF Counted, Least

LEMMA WriteBeginsKeepsRing ==
  ASSUME RingProofInv, NEW n \in 1 .. MaxBatch, WriteBegins(n)
  PROVE  RingProofInv'
<1>1. Used \in 0 .. Capacity /\ Used' = Used
  BY UsedFacts DEF RingProofInv, WriteBegins, consumerVars, Used
<1>2. n \in Nat /\ Room \in Nat /\ Room = Capacity - Used
  BY <1>1, Sizes, BoundsAssumption DEF Room
<1>3. writing' \in Nat /\ writing' <= n /\ writing' <= Room
  BY <1>2, LeastOf DEF WriteBegins
<1>4. dropped' \in 0 .. CountCap
  <2>1. n - Least(n, Room) \in Nat
    BY <1>2 DEF Least
  <2> QED
    BY <2>1, CountedIsBounded DEF WriteBegins, RingProofInv, RingTypeOK
<1>5. RingTypeOK'
  BY <1>1, <1>3, <1>4, BoundsAssumption
     DEF RingProofInv, RingTypeOK, WriteBegins, consumerVars
<1>6. PublishedIsStable'
  BY <1>1 DEF RingProofInv, PublishedIsStable, WriteBegins, consumerVars
<1>7. CopiesAreTrue'
  BY <1>1, <1>2, <1>3 DEF RingProofInv, CopiesAreTrue, WriteBegins, consumerVars
<1> QED
  BY <1>5, <1>6, <1>7 DEF RingProofInv

\* The slot copied into is in no frame published, and in none copied before.
LEMMA CopyInKeepsRing ==
  ASSUME RingProofInv, CopyIn
  PROVE  RingProofInv'
<1> DEFINE slot == SlotFrom(writeIndex, written)
           frame == Advance(writeIndex, written)
<1>1. /\ Used \in 0 .. Capacity /\ readIndex \in Indices /\ writeIndex \in Indices
      /\ Used' = Used
  BY UsedFacts DEF RingProofInv, CopyIn, consumerVars, Used
<1>2. /\ written \in Nat /\ writing \in Nat /\ written < writing
      /\ Used + written < Capacity /\ written \in 0 .. Capacity /\ written \in Slots
  BY <1>1, Sizes, BoundsAssumption
     DEF RingProofInv, RingTypeOK, CopiesAreTrue, CopyIn, Slots
<1>3. slot \in Slots /\ frame \in Indices
  BY <1>1, <1>2, SlotRounds, AdvanceRounds
<1>4. slot = SlotFrom(readIndex, Used + written)
  <2>1. Used + written <= Capacity
    BY <1>1, <1>2, Sizes
  <2> QED
    BY <1>2, <2>1, PastTheUsed DEF RingProofInv
<1>5. /\ storage' = [storage EXCEPT ![slot] = frame] /\ written' = written + 1
      /\ storage \in [Slots -> Indices]
      /\ UNCHANGED <<writeIndex, writing, dropped, consumerVars>>
  BY DEF CopyIn, RingProofInv, RingTypeOK, Slots, Indices
<1> HIDE DEF slot, frame
<1>6. /\ storage' \in [Slots -> Indices] /\ storage'[slot] = frame
      /\ \A k \in Slots : k # slot => storage'[k] = storage[k]
  BY <1>3, <1>5
<1>7. RingTypeOK'
  BY <1>1, <1>2, <1>5, <1>6
     DEF RingProofInv, RingTypeOK, Slots, Indices, consumerVars
<1>8. PublishedIsStable'
  <2> SUFFICES ASSUME NEW i \in 0 .. Used - 1
               PROVE  storage'[SlotFrom(readIndex, i)] = Advance(readIndex, i)
    BY <1>1, <1>5 DEF PublishedIsStable, consumerVars
  <2>1. i \in Slots /\ Used + written \in Slots /\ i # Used + written /\ i \in 0 .. Capacity
    BY <1>1, <1>2, Sizes DEF Slots
  <2>2. SlotFrom(readIndex, i) # slot /\ SlotFrom(readIndex, i) \in Slots
    BY <1>1, <1>4, <2>1, SlotsAreApart, SlotRounds
  <2> QED
    BY <1>6, <2>2 DEF RingProofInv, PublishedIsStable
<1>9. CopiesAreTrue'
  <2>1. ASSUME NEW i \in 0 .. written
        PROVE  storage'[SlotFrom(writeIndex, i)] = Advance(writeIndex, i)
    <3>1. CASE i = written
      BY <1>6, <3>1 DEF slot, frame
    <3>2. CASE i # written
      <4>1. i \in 0 .. written - 1 /\ i \in Slots /\ i \in 0 .. Capacity
        BY <1>2, <3>2, Sizes DEF Slots
      <4>2. SlotFrom(writeIndex, i) # slot /\ SlotFrom(writeIndex, i) \in Slots
        BY <1>1, <1>2, <3>2, <4>1, SlotsAreApart, SlotRounds DEF slot
      <4> QED
        BY <1>6, <4>1, <4>2 DEF RingProofInv, CopiesAreTrue
    <3> QED
      BY <3>1, <3>2
  <2>2. written' - 1 = written
    BY <1>2, <1>5
  <2> QED
    BY <1>1, <1>5, <2>1, <2>2 DEF RingProofInv, CopiesAreTrue, consumerVars
<1> QED
  BY <1>7, <1>8, <1>9 DEF RingProofInv
\* The write index moves over the frames copied, which become published.
LEMMA WritePublishesKeepsRing ==
  ASSUME RingProofInv, WritePublishes
  PROVE  RingProofInv' /\ Used' = Used + writing
<1>1. /\ Used \in 0 .. Capacity /\ readIndex \in Indices /\ writeIndex \in Indices
  BY UsedFacts DEF RingProofInv
<1>2. /\ writing \in Nat /\ written = writing /\ Used + writing <= Capacity
      /\ writing \in 0 .. Capacity
  BY <1>1, Sizes, BoundsAssumption
     DEF RingProofInv, RingTypeOK, CopiesAreTrue, WritePublishes
<1>3. /\ writeIndex' = Advance(writeIndex, writing) /\ writing' = 0 /\ written' = 0
      /\ UNCHANGED <<storage, dropped, readIndex, reading, destination, underrun, got>>
  BY DEF WritePublishes, consumerVars
<1>4. writeIndex' \in Indices
  BY <1>1, <1>2, <1>3, AdvanceRounds
<1>5. Used' = Used + writing
  <2>1. (Advance(writeIndex, writing) - readIndex) % IndexModulus = Used + writing
    BY <1>1, <1>2, DifferenceMoves DEF Used
  <2> QED
    BY <1>3, <2>1 DEF Used
<1>6. RingTypeOK'
  BY <1>1, <1>2, <1>3, <1>4, <1>5, BoundsAssumption DEF RingProofInv, RingTypeOK, Indices
<1>7. PublishedIsStable'
  <2> SUFFICES ASSUME NEW i \in 0 .. (Used + writing) - 1
               PROVE  storage[SlotFrom(readIndex, i)] = Advance(readIndex, i)
    BY <1>3, <1>5 DEF PublishedIsStable
  <2>1. CASE i < Used
    <3>1. i \in 0 .. Used - 1
      BY <1>1, <2>1
    <3> QED
      BY <3>1 DEF RingProofInv, PublishedIsStable
  <2>2. CASE i >= Used
    <3> DEFINE k == i - Used
    <3>1. k \in Nat /\ k \in 0 .. written - 1 /\ Used + k = i /\ Used + k <= Capacity
      BY <1>1, <1>2, <2>2, Sizes
    <3> HIDE DEF k
    <3>2. /\ SlotFrom(writeIndex, k) = SlotFrom(readIndex, i)
          /\ Advance(writeIndex, k) = Advance(readIndex, i)
      BY <3>1, PastTheUsed DEF RingProofInv
    <3>3. storage[SlotFrom(writeIndex, k)] = Advance(writeIndex, k)
      BY <3>1 DEF RingProofInv, CopiesAreTrue
    <3> QED
      BY <3>2, <3>3
  <2> QED
    BY <1>1, <1>2, <2>1, <2>2
<1>8. CopiesAreTrue'
  BY <1>1, <1>2, <1>3, <1>5, Sizes, BoundsAssumption
     DEF RingProofInv, RingTypeOK, CopiesAreTrue
<1> QED
  BY <1>5, <1>6, <1>7, <1>8 DEF RingProofInv

LEMMA ReadBeginsKeepsRing ==
  ASSUME RingProofInv, NEW n \in 1 .. MaxBatch, ReadBegins(n)
  PROVE  RingProofInv'
<1>1. Used \in 0 .. Capacity /\ Used' = Used
  BY UsedFacts DEF RingProofInv, ReadBegins, producerVars, Used
<1>2. n \in Nat /\ Available \in Nat /\ Available = Used
  BY <1>1, Sizes, BoundsAssumption DEF Available
<1>3. reading' \in Nat /\ reading' <= n /\ reading' <= Used
  BY <1>2, LeastOf DEF ReadBegins
<1>4. underrun' \in 0 .. CountCap
  <2>1. n - Least(n, Available) \in Nat
    BY <1>2 DEF Least
  <2> QED
    BY <2>1, CountedIsBounded DEF ReadBegins, RingProofInv, RingTypeOK
<1>5. RingTypeOK'
  BY <1>1, <1>3, <1>4, BoundsAssumption
     DEF RingProofInv, RingTypeOK, ReadBegins, producerVars
<1>6. PublishedIsStable'
  BY <1>1 DEF RingProofInv, PublishedIsStable, ReadBegins, producerVars
<1>7. CopiesAreTrue'
  BY <1>1, <1>2, <1>3 DEF RingProofInv, CopiesAreTrue, ReadBegins, producerVars
<1> QED
  BY <1>5, <1>6, <1>7 DEF RingProofInv

\* The frame copied out is one that was published, so it is the one it should be.
LEMMA CopyOutKeepsRing ==
  ASSUME RingProofInv, CopyOut
  PROVE  RingProofInv'
<1> DEFINE n == Len(destination)
           slot == SlotFrom(readIndex, n)
           frame == storage[slot]
<1>1. /\ Used \in 0 .. Capacity /\ readIndex \in Indices /\ Used' = Used
  BY UsedFacts DEF RingProofInv, CopyOut, producerVars, Used
<1>2. /\ destination \in Seq(Indices) /\ n \in Nat /\ reading \in Nat /\ n < reading
      /\ n \in 0 .. Used - 1 /\ n \in 0 .. Capacity
  BY <1>1, Sizes, BoundsAssumption
     DEF RingProofInv, RingTypeOK, CopiesAreTrue, CopyOut, Indices
<1>3. frame = Advance(readIndex, n)
  BY <1>2 DEF RingProofInv, PublishedIsStable
<1>4. frame \in Indices
  BY <1>1, <1>2, <1>3, AdvanceRounds
<1>5. /\ destination' = Append(destination, frame)
      /\ UNCHANGED <<readIndex, reading, underrun, got, producerVars>>
  BY DEF CopyOut
<1> HIDE DEF frame, slot, n
<1>6. /\ destination' \in Seq(Indices) /\ Len(destination') = n + 1
      /\ destination'[n + 1] = frame
      /\ \A i \in 1 .. n : destination'[i] = destination[i]
  BY <1>2, <1>4, <1>5 DEF n
<1>7. RingTypeOK'
  BY <1>1, <1>2, <1>5, <1>6
     DEF RingProofInv, RingTypeOK, Indices, producerVars
<1>8. PublishedIsStable'
  BY <1>1, <1>5 DEF RingProofInv, PublishedIsStable, producerVars
<1>9. CopiesAreTrue'
  <2>1. ASSUME NEW i \in 0 .. n PROVE destination'[i + 1] = Advance(readIndex, i)
    <3>1. CASE i = n
      BY <1>3, <1>6, <3>1
    <3>2. CASE i # n
      <4>1. i \in 0 .. n - 1 /\ i + 1 \in 1 .. n
        BY <1>2, <3>2
      <4> QED
        BY <1>6, <4>1 DEF RingProofInv, CopiesAreTrue, n
    <3> QED
      BY <3>1, <3>2
  <2>2. Len(destination') - 1 = n
    BY <1>2, <1>6
  <2> QED
    BY <1>1, <1>5, <2>1, <2>2 DEF RingProofInv, CopiesAreTrue, producerVars
<1> QED
  BY <1>7, <1>8, <1>9 DEF RingProofInv

\* The read index moves over the frames read, which leave the ring.
LEMMA ReadPublishesKeepsRing ==
  ASSUME RingProofInv, ReadPublishes
  PROVE  RingProofInv' /\ Used' = Used - reading
<1>1. /\ Used \in 0 .. Capacity /\ readIndex \in Indices /\ writeIndex \in Indices
  BY UsedFacts DEF RingProofInv
<1>2. reading \in Nat /\ reading <= Used /\ reading \in 0 .. Capacity
  BY <1>1, Sizes, BoundsAssumption DEF RingProofInv, RingTypeOK, CopiesAreTrue
<1>3. /\ readIndex' = Advance(readIndex, reading) /\ reading' = 0 /\ destination' = <<>>
      /\ UNCHANGED <<writeIndex, storage, writing, written, dropped, underrun>>
  BY DEF ReadPublishes, producerVars
<1>4. readIndex' \in Indices
  BY <1>1, <1>2, <1>3, AdvanceRounds
<1>5. Used' = Used - reading
  <2>1. (writeIndex - Advance(readIndex, reading)) % IndexModulus = Used - reading
    BY <1>1, <1>2, DifferenceMoves DEF Used
  <2> QED
    BY <1>3, <2>1 DEF Used
<1>6. RingTypeOK'
  <2>1. destination' \in Seq(0 .. IndexModulus - 1) /\ Len(destination') = 0
    BY <1>3
  <2>2. Used' <= Capacity
    BY <1>1, <1>2, <1>5, Sizes
  <2>3. reading' \in 0 .. MaxBatch /\ Len(destination') <= reading'
    BY <1>3, <2>1, BoundsAssumption
  <2> QED
    BY <1>3, <1>4, <2>1, <2>2, <2>3 DEF RingProofInv, RingTypeOK, Indices
<1>7. PublishedIsStable'
  <2> SUFFICES ASSUME NEW i \in 0 .. Used - reading - 1
               PROVE  storage[SlotFrom(readIndex', i)] = Advance(readIndex', i)
    BY <1>3, <1>5 DEF PublishedIsStable
  <2>1. i \in Nat /\ reading + i <= Capacity /\ reading + i \in 0 .. Used - 1
    BY <1>1, <1>2, Sizes
  <2>2. /\ SlotFrom(readIndex', i) = SlotFrom(readIndex, reading + i)
        /\ Advance(readIndex', i) = Advance(readIndex, reading + i)
    BY <1>1, <1>2, <1>3, <2>1, Shift
  <2> QED
    BY <2>1, <2>2 DEF RingProofInv, PublishedIsStable
<1>8. CopiesAreTrue'
  BY <1>1, <1>2, <1>3, <1>5, Sizes, BoundsAssumption
     DEF RingProofInv, RingTypeOK, CopiesAreTrue
<1> QED
  BY <1>5, <1>6, <1>7, <1>8 DEF RingProofInv
----------------------------------------------------------------------------
(* The device *)

\* A callback is that of a unit that runs, and a unit has rings.
UnitsAreBacked ==
  /\ \A d \in Directions : InCallback(d) => unit[d] = "running"
  /\ (\E d \in Directions : unit[d] # "none") =>
       ringsOpen /\ stage \in {"sized", "open", "closing"}
  /\ stage \in {"sized", "open"} => ringsOpen

DeviceProofInv == RingProofInv /\ DeviceTypeOK /\ UnitsAreBacked

LEMMA InitIsProofInv == DeviceInit => DeviceProofInv
<1>1. DeviceInit => DeviceTypeOK /\ UnitsAreBacked
  BY DEF DeviceInit, RingInit, DeviceTypeOK, UnitsAreBacked, InCallback, Directions
<1> QED
  BY <1>1, InitRingInv DEF DeviceInit, DeviceProofInv

LEMMA RingIsLeft ==
  ASSUME RingProofInv, UNCHANGED ringVars
  PROVE  RingProofInv' /\ InCallback("output")' = InCallback("output")
  BY DEF ringVars, producerVars, consumerVars, RingProofInv, RingTypeOK, PublishedIsStable,
         CopiesAreTrue, Used, InCallback

LEMMA NextKeepsInv ==
  ASSUME DeviceProofInv, [DeviceNext]_vars
  PROVE  DeviceProofInv'
<1> USE DEF DeviceProofInv
<1>1. CASE OpenStep \/ OpenFails \/ CloseBegins
  <2>1. UNCHANGED <<ringVars, capturing, writer, carried>>
    BY <1>1 DEF OpenStep, SizesRings, Opened, CreatesUnit, StartsUnit, OpenFails, CloseBegins
  <2>2. DeviceTypeOK'
    BY <1>1, <2>1 DEF OpenStep, SizesRings, Opened, CreatesUnit, StartsUnit, OpenFails,
                      CloseBegins, DeviceTypeOK
  <2>3. \A d \in Directions : InCallback(d)' = InCallback(d)
    BY <2>1 DEF ringVars, consumerVars, InCallback
  <2>4. UnitsAreBacked'
    BY <1>1, <2>3 DEF OpenStep, SizesRings, Opened, CreatesUnit, StartsUnit, OpenFails,
                      CloseBegins, DeviceTypeOK, UnitsAreBacked
  <2> QED
    BY <2>1, <2>2, <2>4, RingIsLeft
<1>2. CASE CloseStep
  <2>1. UNCHANGED <<ringVars, capturing, writer, carried>>
    BY <1>2 DEF CloseStep, ClosesRings, StopsUnit
  <2>2. DeviceTypeOK'
    BY <1>2, <2>1 DEF CloseStep, ClosesRings, StopsUnit, DeviceTypeOK
  <2>3. \A d \in Directions : InCallback(d)' = InCallback(d)
    BY <2>1 DEF ringVars, consumerVars, InCallback
  <2>4. UnitsAreBacked'
    BY <1>2, <2>3 DEF CloseStep, ClosesRings, StopsUnit, DeviceTypeOK, UnitsAreBacked
  <2> QED
    BY <2>1, <2>2, <2>4, RingIsLeft
<1>3. CASE OutputCalls \/ OutputPlays
  <2>1. UNCHANGED <<deviceVars, capturing, writer>>
    BY <1>3 DEF OutputCalls, OutputPlays
  <2>2. RingProofInv'
    BY <1>3, ReadBeginsKeepsRing, CopyOutKeepsRing, ReadPublishesKeepsRing
       DEF OutputCalls, OutputPlays
  <2>3. reading' # 0 => unit["output"] = "running"
    BY <1>3 DEF OutputCalls, OutputPlays, CopyOut, ReadPublishes, UnitsAreBacked,
                InCallback, Directions
  <2>4. DeviceTypeOK' /\ UnitsAreBacked'
    BY <2>1, <2>3 DEF deviceVars, DeviceTypeOK, UnitsAreBacked, InCallback, Directions
  <2> QED
    BY <2>2, <2>4
<1>4. CASE InputCalls \/ InputReturns
  <2>1. UNCHANGED <<ringVars, deviceVars, writer>>
    BY <1>4 DEF InputCalls, InputReturns
  <2>2. reading' = reading
    BY <2>1 DEF ringVars, consumerVars
  <2>3. DeviceTypeOK'
    BY <1>4, <2>1 DEF InputCalls, InputReturns, deviceVars, DeviceTypeOK
  <2>4. UnitsAreBacked'
    BY <1>4, <2>1, <2>2
       DEF InputCalls, InputReturns, deviceVars, UnitsAreBacked, InCallback, Directions
  <2> QED
    BY <2>1, <2>3, <2>4, RingIsLeft
<1>5. CASE WriteCalls \/ WriteStep
  <2>1. UNCHANGED <<deviceVars, capturing>> /\ reading' = reading
    BY <1>5 DEF WriteCalls, WriteStep, DeadlinePasses, WriteOffers, WriteCopies,
                WriteReturns, WriteBegins, CopyIn, WritePublishes, ringVars, consumerVars
  <2>2. RingProofInv'
    BY <1>5, PeriodAssumption, RingIsLeft, WriteBeginsKeepsRing, CopyInKeepsRing,
       WritePublishesKeepsRing
       DEF WriteCalls, WriteStep, DeadlinePasses, WriteOffers, WriteCopies, WriteReturns
  <2>3. writer' \in {"idle", "waiting", "late", "copying"}
    BY <1>5 DEF WriteCalls, WriteStep, DeadlinePasses, WriteOffers, WriteCopies,
                WriteReturns, DeviceTypeOK
  <2>4. DeviceTypeOK' /\ UnitsAreBacked'
    BY <2>1, <2>3 DEF deviceVars, DeviceTypeOK, UnitsAreBacked, InCallback
  <2> QED
    BY <2>2, <2>4
<1>6. CASE UNCHANGED vars
  <2>1. UNCHANGED <<ringVars, deviceVars, capturing, writer>>
    BY <1>6 DEF vars
  <2>2. DeviceTypeOK' /\ UnitsAreBacked'
    BY <2>1 DEF deviceVars, ringVars, consumerVars, DeviceTypeOK, UnitsAreBacked, InCallback
  <2> QED
    BY <2>1, <2>2, RingIsLeft
<1> QED
  BY <1>1, <1>2, <1>3, <1>4, <1>5, <1>6 DEF DeviceNext

LEMMA AlwaysProofInv == FairDeviceSpec => []DeviceProofInv
  BY InitIsProofInv, NextKeepsInv, PTL DEF FairDeviceSpec

(* Through every opening that fails half-way and every close, what was     *)
(* published in the ring stays until it is read, and a callback finds its  *)
(* ring (coreaudio_backend.cpp:173, float_ring.hpp:21).                    *)
THEOREM DeviceAlwaysInv == FairDeviceSpec => []DeviceInv
<1>1. DeviceProofInv => DeviceInv
  BY DEF DeviceProofInv, RingProofInv, UnitsAreBacked, DeviceInv, RingInv, CallbackFindsRing
<1> QED
  BY <1>1, AlwaysProofInv, PTL
----------------------------------------------------------------------------
(* The queue *)

\* The frames that follow an index, as the queue holds them.
Stretch(x, n) == [i \in 1 .. n |-> Advance(x, i - 1)]
RingQueue == [i \in 1 .. Used |-> storage[SlotFrom(readIndex, i - 1)]]

LEMMA StretchIsSeq ==
  ASSUME NEW x \in Indices, NEW n \in 0 .. Capacity
  PROVE  /\ Stretch(x, n) \in Seq(Indices) /\ Len(Stretch(x, n)) = n
         /\ \A i \in 1 .. n : Stretch(x, n)[i] = Advance(x, i - 1)
<1>1. n \in Nat
  BY Sizes
<1>2. \A i \in 1 .. n : Advance(x, i - 1) \in Indices
  <2>1. \A i \in 1 .. n : i - 1 \in 0 .. Capacity
    BY Sizes
  <2> QED
    BY <2>1, AdvanceRounds
<1>3. Stretch(x, n) \in [1 .. n -> Indices]
  BY <1>2 DEF Stretch
<1>4. Stretch(x, n) \in Seq(Indices)
  BY <1>1, <1>3, SeqDef
<1>5. Len(Stretch(x, n)) = n
  BY <1>1, <1>3, <1>4, LenProperties
<1> QED
  BY <1>4, <1>5 DEF Stretch

LEMMA RingQueueIsStretch == RingProofInv => RingQueue = Stretch(readIndex, Used)
<1> SUFFICES ASSUME RingProofInv PROVE RingQueue = Stretch(readIndex, Used)
  OBVIOUS
<1>1. Used \in 0 .. Capacity
  BY UsedFacts DEF RingProofInv
<1>2. \A i \in 1 .. Used : i - 1 \in 0 .. Used - 1
  BY <1>1, Sizes
<1>3. \A i \in 1 .. Used : storage[SlotFrom(readIndex, i - 1)] = Advance(readIndex, i - 1)
  BY <1>2 DEF RingProofInv, PublishedIsStable
<1> QED
  BY <1>3 DEF RingQueue, Stretch

\* A stretch that goes on is the stretch and what follows.
LEMMA StretchGoesOn ==
  ASSUME NEW x \in Indices, NEW m \in Nat, NEW n \in Nat, m + n <= Capacity
  PROVE  Stretch(x, m + n) = Stretch(x, m) \o Stretch(Advance(x, m), n)
<1> DEFINE y == Advance(x, m)
<1>1. m \in 0 .. Capacity /\ n \in 0 .. Capacity /\ m + n \in 0 .. Capacity
  BY Sizes
<1>2. y \in Indices
  BY <1>1, AdvanceRounds
<1> HIDE DEF y
<1> DEFINE a == Stretch(x, m)
           b == Stretch(y, n)
           c == Stretch(x, m + n)
<1>3. /\ a \in Seq(Indices) /\ Len(a) = m
      /\ \A i \in 1 .. m : a[i] = Advance(x, i - 1)
  BY <1>1, StretchIsSeq
<1>4. /\ b \in Seq(Indices) /\ Len(b) = n
      /\ \A i \in 1 .. n : b[i] = Advance(y, i - 1)
  BY <1>1, <1>2, StretchIsSeq
<1>5. /\ c \in Seq(Indices) /\ Len(c) = m + n
      /\ \A i \in 1 .. m + n : c[i] = Advance(x, i - 1)
  BY <1>1, StretchIsSeq
<1> HIDE DEF a, b, c
<1>6. /\ a \o b \in Seq(Indices) /\ Len(a \o b) = m + n
      /\ \A i \in 1 .. m + n : (a \o b)[i] = IF i <= m THEN a[i] ELSE b[i - m]
  BY <1>3, <1>4, ConcatProperties
<1>7. ASSUME NEW i \in 1 .. m + n PROVE c[i] = (a \o b)[i]
  <2>1. CASE i <= m
    <3>1. i \in 1 .. m
      BY <2>1
    <3> QED
      BY <1>3, <1>5, <1>6, <2>1, <3>1
  <2>2. CASE ~(i <= m)
    <3> DEFINE k == i - m
    <3>1. k \in 1 .. n /\ k - 1 \in Nat /\ m + (k - 1) <= Capacity /\ m + (k - 1) = i - 1
      BY <1>1, <2>2, Sizes
    <3>2. Advance(y, k - 1) = Advance(x, i - 1)
      BY <3>1, Shift DEF y
    <3>3. (a \o b)[i] = b[k] /\ c[i] = Advance(x, i - 1)
      BY <1>5, <1>6, <2>2
    <3>4. b[k] = Advance(y, k - 1)
      BY <1>4, <3>1
    <3> QED
      BY <3>2, <3>3, <3>4
  <2> QED
    BY <2>1, <2>2
<1>8. c = a \o b
  BY <1>5, <1>6, <1>7, SeqEqual
<1> QED
  BY <1>8 DEF a, b, c, y

LEMMA StretchIsConsecutive ==
  ASSUME NEW x \in Indices, NEW n \in 0 .. Capacity
  PROVE  Queue!Consecutive(Stretch(x, n))
<1> SUFFICES ASSUME NEW i \in 1 .. n - 1
             PROVE  Stretch(x, n)[i + 1] = (Stretch(x, n)[i] + 1) % IndexModulus
  BY StretchIsSeq DEF Queue!Consecutive, Queue!NextFrame
<1>1. /\ i \in 1 .. n /\ i + 1 \in 1 .. n /\ (i + 1) - 1 = i
      /\ i - 1 \in Nat /\ (i - 1) + 1 = i /\ i <= Capacity
  BY Sizes
<1>2. Stretch(x, n)[i + 1] = Advance(x, i) /\ Stretch(x, n)[i] = Advance(x, i - 1)
  BY <1>1, StretchIsSeq
<1>3. Advance(Advance(x, i - 1), 1) = Advance(x, i)
  <2>1. \A m \in Nat : m + 1 <= Capacity =>
          Advance(Advance(x, m), 1) = Advance(x, m + 1)
    BY Shift
  <2> QED
    BY <1>1, <2>1
<1> QED
  BY <1>2, <1>3 DEF Advance

\* The two halves of a stretch are its SubSeqs.
LEMMA StretchSplits ==
  ASSUME NEW x \in Indices, NEW m \in Nat, NEW n \in Nat, m + n <= Capacity
  PROVE  /\ SubSeq(Stretch(x, m + n), 1, m) = Stretch(x, m)
         /\ SubSeq(Stretch(x, m + n), m + 1, m + n) = Stretch(Advance(x, m), n)
<1> DEFINE y == Advance(x, m)
<1>1. m \in 0 .. Capacity /\ n \in 0 .. Capacity /\ m + n \in 0 .. Capacity
  BY Sizes
<1>2. y \in Indices
  BY <1>1, AdvanceRounds
<1> DEFINE a == Stretch(x, m)
           b == Stretch(y, n)
<1>3. a \in Seq(Indices) /\ Len(a) = m
  BY <1>1, StretchIsSeq
<1>4. b \in Seq(Indices) /\ Len(b) = n
  BY <1>1, <1>2, StretchIsSeq
<1>5. Stretch(x, m + n) = a \o b
  BY StretchGoesOn
<1> HIDE DEF a, b, y
<1>6. SubSeq(a \o b, 1, m) = a /\ SubSeq(a \o b, m + 1, m + n) = b
  <2> DEFINE c == a \o b
  <2>1. /\ c \in Seq(Indices) /\ Len(c) = m + n
        /\ \A i \in 1 .. m + n : c[i] = IF i <= m THEN a[i] ELSE b[i - m]
    BY <1>3, <1>4, ConcatProperties
  <2> HIDE DEF c
  <2>2. \A i \in 1 .. m + n : c[i] \in Indices
    BY <2>1, ElementOfSeq
  <2> DEFINE d == SubSeq(c, 1, m)
             e == SubSeq(c, m + 1, m + n)
  <2>3. d \in Seq(Indices) /\ Len(d) = m /\ \A i \in 1 .. m : d[i] = c[i]
    <3>1. \A i \in 1 .. m : c[i] \in Indices
      BY <2>2
    <3>2. /\ d \in Seq(Indices) /\ Len(d) = IF 1 <= m THEN m - 1 + 1 ELSE 0
          /\ \A i \in 1 .. m - 1 + 1 : d[i] = c[1 + i - 1]
      BY <3>1, SubSeqProperties
    <3> QED
      BY <3>2
  <2>4. e \in Seq(Indices) /\ Len(e) = n /\ \A i \in 1 .. n : e[i] = c[m + i]
    <3>1. \A i \in m + 1 .. m + n : c[i] \in Indices
      BY <2>2
    <3>2. /\ e \in Seq(Indices)
          /\ Len(e) = IF m + 1 <= m + n THEN (m + n) - (m + 1) + 1 ELSE 0
          /\ \A i \in 1 .. (m + n) - (m + 1) + 1 : e[i] = c[(m + 1) + i - 1]
      BY <3>1, SubSeqProperties
    <3> QED
      BY <3>2
  <2> HIDE DEF d, e
  <2>5. d = a
    BY <1>3, <2>1, <2>3, SeqEqual
  <2>6. e = b
    BY <1>4, <2>1, <2>4, SeqEqual
  <2> QED
    BY <2>5, <2>6 DEF d, e, c
<1> QED
  BY <1>5, <1>6 DEF a, b, y
----------------------------------------------------------------------------
(* The ring is a queue *)

\* A write's publication puts the frames it copied.
LEMMA PublicationIsPut ==
  ASSUME RingProofInv, WritePublishes
  PROVE  Queue!Put
<1>1. /\ Used \in 0 .. Capacity /\ readIndex \in Indices /\ writeIndex \in Indices
      /\ writeIndex = Advance(readIndex, Used)
  BY UsedFacts DEF RingProofInv
<1>2. /\ writing \in Nat /\ writing # 0 /\ Used + writing <= Capacity
      /\ writeIndex' = Advance(writeIndex, writing)
      /\ UNCHANGED <<readIndex, got>>
  BY <1>1, Sizes, BoundsAssumption
     DEF RingProofInv, RingTypeOK, CopiesAreTrue, WritePublishes, consumerVars
<1>3. RingProofInv' /\ Used' = Used + writing
  BY WritePublishesKeepsRing
<1>4. RingQueue = Stretch(readIndex, Used)
  BY RingQueueIsStretch
<1>5. RingQueue' = Stretch(readIndex, Used + writing)
  <2>1. (RingQueue = Stretch(readIndex, Used))'
    BY <1>3, RingQueueIsStretch, PTL
  <2> QED
    BY <1>2, <1>3, <2>1
<1>6. RingQueue' = RingQueue \o Stretch(writeIndex, writing)
  <2>1. Used \in Nat
    BY <1>1, Sizes
  <2>2. Stretch(readIndex, Used + writing)
          = Stretch(readIndex, Used) \o Stretch(Advance(readIndex, Used), writing)
    BY <1>1, <1>2, <2>1, StretchGoesOn
  <2> QED
    BY <1>1, <1>4, <1>5, <2>2
<1>7. Stretch(writeIndex, writing) = [i \in 1 .. writing |-> (writeIndex + i - 1) % IndexModulus]
  BY DEF Stretch, Advance
<1>8. Queue!Consecutive(RingQueue')
  <2>1. Used + writing \in 0 .. Capacity
    BY <1>1, <1>2, Sizes
  <2> QED
    BY <1>1, <1>5, <2>1, StretchIsConsecutive
<1>9. writing \in 1 .. Capacity - Len(RingQueue) /\ writeIndex \in 0 .. IndexModulus - 1
  <2>1. Len(RingQueue) = Used
    BY <1>1, <1>4, StretchIsSeq
  <2> QED
    BY <1>1, <1>2, <2>1, Sizes DEF Indices
<1> QED
  BY <1>2, <1>6, <1>7, <1>8, <1>9 DEF Queue!Put, RingQueue

\* A read's publication gets the oldest frames.
LEMMA PublicationIsGet ==
  ASSUME RingProofInv, ReadPublishes
  PROVE  Queue!Get
<1>1. Used \in 0 .. Capacity /\ readIndex \in Indices
  BY UsedFacts DEF RingProofInv
<1>2. /\ reading \in Nat /\ reading # 0 /\ reading <= Used /\ Len(destination) = reading
      /\ destination \in Seq(Indices)
      /\ readIndex' = Advance(readIndex, reading) /\ got' = destination
  BY <1>1, Sizes, BoundsAssumption
     DEF RingProofInv, RingTypeOK, CopiesAreTrue, ReadPublishes, Indices
<1>3. RingProofInv' /\ Used' = Used - reading
  BY ReadPublishesKeepsRing
<1> DEFINE left == Used - reading
<1>4. left \in Nat /\ reading + left = Used /\ Used <= Capacity /\ reading \in 0 .. Capacity
  BY <1>1, <1>2, Sizes
<1>5. RingQueue = Stretch(readIndex, Used)
  BY RingQueueIsStretch
<1>6. RingQueue' = Stretch(Advance(readIndex, reading), left)
  <2>1. (RingQueue = Stretch(readIndex, Used))'
    BY <1>3, RingQueueIsStretch, PTL
  <2> QED
    BY <1>2, <1>3, <2>1
<1>7. Len(RingQueue) = Used
  BY <1>1, <1>5, StretchIsSeq
<1>8. /\ SubSeq(RingQueue, 1, reading) = Stretch(readIndex, reading)
      /\ SubSeq(RingQueue, reading + 1, Used) = RingQueue'
  <2> HIDE DEF left
  <2>1. /\ SubSeq(Stretch(readIndex, reading + left), 1, reading) = Stretch(readIndex, reading)
        /\ SubSeq(Stretch(readIndex, reading + left), reading + 1, reading + left)
             = Stretch(Advance(readIndex, reading), left)
    BY <1>1, <1>2, <1>4, StretchSplits
  <2> QED
    BY <1>4, <1>5, <1>6, <2>1
<1>9. destination = Stretch(readIndex, reading)
  <2>1. /\ Stretch(readIndex, reading) \in Seq(Indices)
        /\ Len(Stretch(readIndex, reading)) = reading
        /\ \A i \in 1 .. reading : Stretch(readIndex, reading)[i] = Advance(readIndex, i - 1)
    BY <1>1, <1>4, StretchIsSeq
  <2>2. ASSUME NEW i \in 1 .. reading PROVE destination[i] = Advance(readIndex, i - 1)
    <3> DEFINE k == i - 1
    <3>1. k \in 0 .. Len(destination) - 1 /\ k + 1 = i
      BY <1>2
    <3> HIDE DEF k
    <3>2. destination[k + 1] = Advance(readIndex, k)
      BY <3>1 DEF RingProofInv, CopiesAreTrue
    <3> QED
      BY <3>1, <3>2 DEF k
  <2> QED
    BY <1>2, <2>1, <2>2, SeqEqual
<1>10. reading \in 1 .. Len(RingQueue)
  BY <1>1, <1>2, <1>7
<1> QED
  BY <1>2, <1>7, <1>8, <1>9, <1>10 DEF Queue!Get, RingQueue

\* The other steps of the ring change nothing that is published.
LEMMA TheRestIsInvisible ==
  ASSUME RingProofInv,
         \/ UNCHANGED ringVars
         \/ \E n \in 1 .. MaxBatch : WriteBegins(n) \/ ReadBegins(n)
         \/ CopyIn \/ CopyOut
  PROVE  UNCHANGED <<RingQueue, got>>
<1>1. RingProofInv' /\ UNCHANGED <<readIndex, writeIndex, got>>
  BY RingIsLeft, WriteBeginsKeepsRing, ReadBeginsKeepsRing, CopyInKeepsRing, CopyOutKeepsRing
     DEF ringVars, producerVars, consumerVars, WriteBegins, ReadBegins, CopyIn, CopyOut
<1>2. Used' = Used
  BY <1>1 DEF Used
<1>3. RingQueue = Stretch(readIndex, Used)
  BY RingQueueIsStretch
<1>4. (RingQueue = Stretch(readIndex, Used))'
  BY <1>1, RingQueueIsStretch, PTL
<1> QED
  BY <1>1, <1>2, <1>3, <1>4

LEMMA StepIsQueueStep ==
  ASSUME DeviceProofInv, [DeviceNext]_vars
  PROVE  [Queue!Put \/ Queue!Get]_Queue!queueVars
<1>1. RingProofInv
  BY DEF DeviceProofInv
<1>2. CASE WritePublishes
  BY <1>1, <1>2, PublicationIsPut
<1>3. CASE ReadPublishes
  BY <1>1, <1>3, PublicationIsGet
<1>4. CASE ~WritePublishes /\ ~ReadPublishes
  <2>1. \/ UNCHANGED ringVars
        \/ \E n \in 1 .. MaxBatch : WriteBegins(n) \/ ReadBegins(n)
        \/ CopyIn \/ CopyOut
    BY <1>4, PeriodAssumption
       DEF DeviceNext, OpenStep, SizesRings, Opened, CreatesUnit, StartsUnit, OpenFails,
           CloseBegins, CloseStep, ClosesRings, StopsUnit, OutputCalls, OutputPlays,
           InputCalls, InputReturns, WriteCalls, WriteStep, DeadlinePasses, WriteOffers,
           WriteCopies, WriteReturns, vars
  <2>2. UNCHANGED <<RingQueue, got>>
    BY <1>1, <2>1, TheRestIsInvisible
  <2> QED
    BY <2>2 DEF Queue!queueVars, RingQueue
<1> QED
  BY <1>2, <1>3, <1>4

(* "free-running frame counters, so full and empty are distinguishable"    *)
(* (float_ring.hpp:20): however the copies of the two sides interleave,    *)
(* frames come out once each and in the order they went in.                *)
THEOREM RingImplementsQueue == FairDeviceSpec => ImplementsAudioQueue
<1>1. DeviceInit => Queue!QueueInit
  <2> SUFFICES ASSUME DeviceInit PROVE Queue!QueueInit
    OBVIOUS
  <2>1. RingProofInv /\ readIndex = 0 /\ writeIndex = 0 /\ got = <<>>
    BY InitRingInv DEF DeviceInit, RingInit
  <2>2. Used = 0
    <3>1. 0 \in Indices
      BY Sizes DEF Indices
    <3>2. (0 - 0) % IndexModulus = 0
      BY <3>1, Difference
    <3> QED
      BY <2>1, <3>2 DEF Used
  <2>3. RingQueue = <<>>
    BY <2>2 DEF RingQueue
  <2> QED
    BY <2>1, <2>3 DEF Queue!QueueInit, RingQueue
<1>2. DeviceProofInv /\ [DeviceNext]_vars => [Queue!Put \/ Queue!Get]_Queue!queueVars
  BY StepIsQueueStep
<1> QED
  BY <1>1, <1>2, AlwaysProofInv, PTL DEF FairDeviceSpec, ImplementsAudioQueue, Queue!QueueSpec
----------------------------------------------------------------------------
(* The lock of the RAVENNA backend *)

(* A step inside a call changes one thread's place, never to "reopening"   *)
(* and never to "inside": the lock is as it was.                           *)
LEMMA QuietStepKeepsTheLock ==
  ASSUME BackendTypeOK, FreedOnlyWhenQuiet,
         NEW d \in Streams,
         NEW place \in {"idle", "called", "stalled", "locking", "ended"},
         Goes(d, place)
  PROVE  FreedOnlyWhenQuiet'
<1>1. at' = [at EXCEPT ![d] = place] /\ DOMAIN at = Streams
  BY DEF Goes, BackendTypeOK
<1>2. CASE d = "capture"
  BY <1>1, <1>2 DEF FreedOnlyWhenQuiet, Streams
<1>3. CASE d = "playback"
  BY <1>1, <1>3 DEF FreedOnlyWhenQuiet, Streams
<1>4. QED
  BY <1>2, <1>3 DEF Streams

\* The device is found open with both streams, in every role.
LEMMA InitIsInv == ASSUME BackendInit PROVE BackendInv
<1>1. BackendTypeOK
  <2>1. 0 \in 0 .. StallWaits /\ 0 \in 0 .. MaxRestarts /\ 0 \in 0 .. MaxFaults
    BY StallWaitsAssumption, MaxRestartsAssumption, MaxFaultsAssumption
  <2>2. QED
    BY <2>1 DEF BackendInit, BackendTypeOK
<1>2. FreedOnlyWhenQuiet /\ OpenMeansBoth
  BY DEF BackendInit, FreedOnlyWhenQuiet, OpenMeansBoth, Streams
<1>3. QED
  BY <1>1, <1>2 DEF BackendInv

\* Every step of a read or a write keeps the invariant.
LEMMA CallKeepsInv ==
  ASSUME BackendInv, NEW d \in Streams, CallStep(d)
  PROVE  BackendInv'
<1> USE DEF BackendInv
<1>1. CASE Calls(d)
  <2>1. Goes(d, "called")
    BY <1>1 DEF Calls, Quietly
  <2>2. FreedOnlyWhenQuiet'
    BY <2>1, QuietStepKeepsTheLock
  <2>3. BackendTypeOK' /\ OpenMeansBoth'
    BY <1>1 DEF Calls, Quietly, Goes, BackendTypeOK, OpenMeansBoth, handleVars, driverVars
  <2>4. QED
    BY <2>2, <2>3
<1>2. CASE TakesShared(d)
  <2>1. at' = [at EXCEPT ![d] = "inside"] /\ at["capture"] # "reopening"
    BY <1>2 DEF TakesShared, Quietly, Goes, Streams
  <2>2. FreedOnlyWhenQuiet'
    BY <2>1 DEF FreedOnlyWhenQuiet, BackendTypeOK, Streams
  <2>3. BackendTypeOK' /\ OpenMeansBoth'
    BY <1>2 DEF TakesShared, Quietly, Goes, BackendTypeOK, OpenMeansBoth, handleVars,
                driverVars
  <2>4. QED
    BY <2>2, <2>3
<1>3. CASE UsesNull(d)
  BY <1>3 DEF UsesNull, BackendTypeOK, FreedOnlyWhenQuiet, OpenMeansBoth, driverVars,
              Streams
<1>4. CASE Moves(d)
  <2>1. Goes(d, "idle")
    BY <1>4 DEF Moves
  <2>2. FreedOnlyWhenQuiet'
    BY <2>1, QuietStepKeepsTheLock
  <2>3. BackendTypeOK' /\ OpenMeansBoth'
    BY <1>4, StallWaitsAssumption DEF Moves, Goes, BackendTypeOK, OpenMeansBoth, driverVars
  <2>4. QED
    BY <2>2, <2>3
<1>5. CASE Recovers(d)
  <2>1. Goes(d, "idle")
    BY <1>5 DEF Recovers, Quietly
  <2>2. FreedOnlyWhenQuiet'
    BY <2>1, QuietStepKeepsTheLock
  <2>3. PICK state \in {"xrun", "prepared", "running"} :
           /\ handle' = [handle EXCEPT ![d] = state]
           /\ Spends(IF state = "running" THEN 0 ELSE 1)
    BY <1>5 DEF Recovers
  <2>4. faults' \in 0 .. MaxFaults
    BY <2>3, MaxFaultsAssumption DEF Spends, BackendTypeOK
  <2>5. BackendTypeOK'
    BY <1>5, <2>3, <2>4 DEF Recovers, Quietly, Goes, BackendTypeOK, driverVars
  <2>6. OpenMeansBoth'
    BY <1>5, <2>3 DEF Recovers, BackendTypeOK, OpenMeansBoth
  <2>7. QED
    BY <2>2, <2>5, <2>6
<1>6. CASE Fails(d)
  <2>1. Goes(d, "idle")
    BY <1>6 DEF Fails, Quietly
  <2>2. FreedOnlyWhenQuiet'
    BY <2>1, QuietStepKeepsTheLock
  <2>3. BackendTypeOK' /\ OpenMeansBoth'
    BY <1>6, MaxFaultsAssumption
       DEF Fails, Quietly, Goes, Spends, BackendTypeOK, OpenMeansBoth, handleVars, driverVars
  <2>4. QED
    BY <2>2, <2>3
<1>7. CASE TimesOut(d)
  <2>1. PICK place \in {"stalled", "idle"} : Goes(d, place) /\ moved' = "none"
    BY <1>7 DEF TimesOut, Quietly
  <2>2. FreedOnlyWhenQuiet'
    BY <2>1, QuietStepKeepsTheLock
  <2>3. silent' \in 0 .. StallWaits
    BY <1>7, StallWaitsAssumption DEF TimesOut, BackendTypeOK
  <2>4. BackendTypeOK' /\ OpenMeansBoth'
    BY <1>7, <2>1, <2>3 DEF TimesOut, Goes, BackendTypeOK, OpenMeansBoth, driverVars
  <2>5. QED
    BY <2>2, <2>4
<1>8. QED
  BY <1>1, <1>2, <1>3, <1>4, <1>5, <1>6, <1>7 DEF CallStep

\* So does every step of the reopening.
LEMMA RecoveryKeepsInv ==
  ASSUME BackendInv, Considers \/ Closes \/ Reopens
  PROVE  BackendInv'
<1> USE DEF BackendInv
<1>1. CASE Considers
  <2>1. PICK place \in {"locking", "idle"} : Goes("capture", place) /\ moved' = "none"
    BY <1>1 DEF Considers, Quietly
  <2>2. FreedOnlyWhenQuiet'
    BY <2>1, QuietStepKeepsTheLock DEF Streams
  <2>3. BackendTypeOK' /\ OpenMeansBoth'
    BY <1>1, <2>1
       DEF Considers, Goes, BackendTypeOK, OpenMeansBoth, driverVars, Streams
  <2>4. QED
    BY <2>2, <2>3
<1>2. CASE Closes
  BY <1>2 DEF Closes, Quietly, Goes, BackendTypeOK, FreedOnlyWhenQuiet, OpenMeansBoth,
              driverVars, Streams
<1>3. CASE Reopens
  <2>1. Goes("capture", "idle") /\ moved' = "none"
    BY <1>3 DEF Reopens, Quietly
  <2>2. FreedOnlyWhenQuiet'
    BY <2>1, QuietStepKeepsTheLock DEF Streams
  <2>3. faults' \in 0 .. MaxFaults /\ silent' \in 0 .. StallWaits
    BY <1>3, MaxFaultsAssumption, StallWaitsAssumption
       DEF Reopens, Spends, BackendTypeOK, handleVars
  <2>4. at' = [at EXCEPT !["capture"] = "idle"]
    BY <2>1 DEF Goes
  <2>5. CASE UNCHANGED <<handleVars, armed>>
    BY <1>3, <2>1, <2>2, <2>3, <2>4, <2>5
       DEF Reopens, BackendTypeOK, OpenMeansBoth, handleVars
  <2>6. CASE /\ handle' = [e \in Streams |-> "running"] /\ open' = TRUE
             /\ throttled' = FALSE /\ armed' = TRUE
    <3>1. OpenMeansBoth'
      BY <2>6 DEF OpenMeansBoth
    <3>2. BackendTypeOK'
      BY <1>3, <2>1, <2>3, <2>4, <2>6 DEF Reopens, BackendTypeOK
    <3>3. QED
      BY <2>2, <3>1, <3>2
  <2>7. QED
    BY <1>3, <2>5, <2>6 DEF Reopens
<1>4. QED
  BY <1>1, <1>2, <1>3

\* And so does whatever the driver and the daemon do.
LEMMA DriverKeepsInv ==
  ASSUME BackendInv, DaemonRestarts \/ ClockChanges \/ \E d \in Streams : XRuns(d)
  PROVE  BackendInv'
<1> USE DEF BackendInv
<1>1. CASE DaemonRestarts
  <2>1. restarts' \in 0 .. MaxRestarts
    BY <1>1, MaxRestartsAssumption DEF DaemonRestarts, BackendTypeOK
  <2>2. armed' = FALSE /\ moved' = "none"
    BY <1>1 DEF DaemonRestarts
  <2>3. UNCHANGED <<role, at, handle, open, silent, throttled, clock, faults>>
    BY <1>1 DEF DaemonRestarts, handleVars
  <2>4. QED
    BY <2>1, <2>2, <2>3 DEF BackendTypeOK, FreedOnlyWhenQuiet, OpenMeansBoth
<1>2. CASE ClockChanges
  <2>1. clock' \in BOOLEAN /\ moved' = "none"
    BY <1>2 DEF ClockChanges, BackendTypeOK
  <2>2. QED
    BY <1>2, <2>1
       DEF ClockChanges, BackendTypeOK, FreedOnlyWhenQuiet, OpenMeansBoth, handleVars
<1>3. ASSUME NEW d \in Streams, XRuns(d) PROVE BackendInv'
  BY <1>3, MaxFaultsAssumption
     DEF XRuns, Spends, BackendTypeOK, FreedOnlyWhenQuiet, OpenMeansBoth, driverVars
<1>4. QED
  BY <1>1, <1>2, <1>3

(* No stream is freed while a call is on it, and open_ says what the       *)
(* handles are, through every restart of the daemon, every failure and     *)
(* every reopening (ravenna_backend.cpp:272).                              *)
THEOREM BackendAlwaysInv == BackendSpec => []BackendInv
<1>1. BackendInit => BackendInv
  BY InitIsInv
<1>2. BackendInv /\ [BackendNext]_backendVars => BackendInv'
  <2> SUFFICES ASSUME BackendInv, [BackendNext]_backendVars PROVE BackendInv'
    OBVIOUS
  <2>1. CASE BackendNext
    BY <2>1, CallKeepsInv, RecoveryKeepsInv, DriverKeepsInv DEF BackendNext
  <2>2. CASE UNCHANGED backendVars
    BY <2>2 DEF backendVars, handleVars, driverVars, BackendInv, BackendTypeOK,
                FreedOnlyWhenQuiet, OpenMeansBoth
  <2>3. QED
    BY <2>1, <2>2
<1>3. QED
  BY <1>1, <1>2, PTL DEF BackendSpec

=============================================================================

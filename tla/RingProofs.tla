----------------------------- MODULE RingProofs -----------------------------
(***************************************************************************)
(* Proofs about the ring of a CedGlobalTopic and a reader of it: where     *)
(* the samples are, and what a read finds.  With that, the rate is kept.   *)
(***************************************************************************)
EXTENDS ReaderProofs, WellFoundedInduction

\* Every set of natural numbers has a least one.
LEMMA LeastExists ==
  ASSUME NEW T \in SUBSET Nat, T # {}
  PROVE  \E x \in T : \A y \in T : x <= y
<1> DEFINE R == {p \in Nat \X Nat : p[1] < p[2]}
<1>1. IsWellFoundedOn(R, Nat)
  <2>1. R = OpToRel(<, Nat)
    BY DEF OpToRel
  <2> QED
    BY <2>1, NatLessThanWellFounded, Zenon
<1>2. \A x \in T, y \in T : <<y, x>> \in R <=> y < x
  OBVIOUS
<1> HIDE DEF R
<1>3. PICK x \in T : \A y \in T : ~ (<<y, x>> \in R)
  BY <1>1, WFMin, Zenon
<1>4. \A y \in T : ~ (y < x)
  BY <1>2, <1>3, Zenon
<1>5. \A y \in T : x <= y
  <2> SUFFICES ASSUME NEW y \in T PROVE x <= y
    OBVIOUS
  <2>1. x \in Nat /\ y \in Nat /\ ~ (y < x)
    BY <1>4
  <2> QED
    BY <2>1
<1> QED
  BY <1>5, Zenon

Slots == 0 .. HistorySize - 1

RingType ==
  /\ written \in Nat
  /\ last_write_ \in SeqNums /\ last_read_ \in SeqNums
  /\ history_ \in [Slots -> Nat] /\ srcs_ \in [Slots -> Sources]

\* A number has a slot.
LEMMA SlotType ==
  ASSUME NEW n \in Nat
  PROVE  Slot(n) \in Slots
<1>1. HistorySize \in Nat /\ HistorySize > 0
  BY HistoryAssumption, HalfAssumption
<1> QED
  BY <1>1, DivMod, Zenon DEF Slot, Slots

\* Numbers stay numbers.
LEMMA NumbersType ==
  /\ MAX \in Nat /\ MAX > 0 /\ HistorySize \in 1 .. MAX - 1
  /\ SeqNums \subseteq Nat
  /\ \A a \in SeqNums : Increment(a) \in SeqNums /\ \A b \in SeqNums : Sub(a, b) \in SeqNums
BY HistoryAssumption, HalfAssumption DEF MAX, SeqNums, Increment, Sub

\* The next number, by comparison and by remainder.
LEMMA IncrementIsNext ==
  ASSUME NEW a \in SeqNums
  PROVE  Increment(a) = (a + 1) % MAX
<1>1. MAX \in Nat /\ MAX > 0 /\ a \in Nat /\ a % MAX = a
  <2>1. MAX \in Nat /\ MAX > 0 /\ a \in 0 .. MAX - 1 /\ 0 \in Nat
    BY NumbersType, Zenon DEF SeqNums
  <2>2. (MAX * 0 + a) % MAX = a
    BY <2>1, ModUnique, Zenon
  <2> QED
    BY <2>1, <2>2
<1>2. (a + 1) % MAX = IF (a % MAX) + 1 < MAX THEN (a % MAX) + 1 ELSE (a % MAX) + 1 - MAX
  BY <1>1, ModStep, 1 \in 0 .. MAX, Zenon
<1> QED
  BY <1>1, <1>2 DEF Increment, SeqNums

\* What a search returns: nothing, or the sample fewest steps ahead.
LEMMA SearchResult ==
  ASSUME RingType, NEW from \in SeqNums, NEW access
  PROVE  \/ /\ Steps(from, access) = {}
            /\ Search(from, access) = [rv |-> FALSE, last_read |-> last_write_, number |-> 0]
         \/ \E n \in Steps(from, access) :
              /\ \A m \in Steps(from, access) : n <= m
              /\ Search(from, access) = [rv |-> TRUE, last_read |-> (from + n) % MAX,
                                         number |-> history_[Slot((from + n) % MAX)]]
<1> DEFINE steps == Steps(from, access)
           first == CHOOSE n \in steps : \A m \in steps : n =< m
<1>1. CASE steps = {}
  BY <1>1 DEF Search
<1>2. CASE steps # {}
  <2>1. steps \in SUBSET Nat
    BY NumbersType DEF Steps, Behind, RingType
  <2>2. first \in steps /\ \A m \in steps : first <= m
    <3> HIDE DEF steps
    <3>1. \E x \in steps : \A y \in steps : x <= y
      BY <2>1, <1>2, LeastExists
    <3> QED
      BY <3>1, Zenon
  <2>3. Search(from, access) = [rv |-> TRUE, last_read |-> (from + first) % MAX,
                                number |-> history_[Slot((from + first) % MAX)]]
    BY <1>2, Zenon DEF Search
  <2> HIDE DEF first
  <2> QED
    BY <2>2, <2>3, Zenon
<1> QED
  BY <1>1, <1>2, Zenon

\* A read leaves a number to go on from, and what it takes is a sample of the ring.
LEMMA ReadType ==
  ASSUME RingType, NEW access
  PROVE  /\ read_now(last_read_, access).last_read \in SeqNums
         /\ read_now(last_read_, access).number \in Nat
         /\ Predicate(last_read_, access).last_read \in SeqNums
         /\ Predicate(last_read_, access).number \in Nat
<1>1. \A n \in Nat : n % MAX \in SeqNums /\ history_[Slot(n % MAX)] \in Nat
  <2> SUFFICES ASSUME NEW n \in Nat PROVE n % MAX \in SeqNums /\ history_[Slot(n % MAX)] \in Nat
    BY Zenon
  <2>1. n % MAX \in SeqNums
    BY NumbersType, DivMod, Zenon DEF SeqNums
  <2>2. Slot(n % MAX) \in Slots
    BY <2>1, NumbersType, SlotType, Zenon
  <2> QED
    BY <2>1, <2>2, Zenon DEF RingType
<1>2. ASSUME NEW from \in SeqNums
      PROVE  Search(from, access).last_read \in SeqNums /\ Search(from, access).number \in Nat
  <2>1. CASE Search(from, access) = [rv |-> FALSE, last_read |-> last_write_, number |-> 0]
    BY <2>1 DEF RingType
  <2>2. CASE \E n \in Steps(from, access) :
               Search(from, access) = [rv |-> TRUE, last_read |-> (from + n) % MAX,
                                       number |-> history_[Slot((from + n) % MAX)]]
    <3>1. PICK n \in Steps(from, access) :
                 Search(from, access) = [rv |-> TRUE, last_read |-> (from + n) % MAX,
                                         number |-> history_[Slot((from + n) % MAX)]]
      BY <2>2, Zenon
    <3>2. from + n \in Nat
      BY NumbersType DEF Steps, Behind, RingType
    <3> QED
      BY <3>1, <3>2, <1>1
  <2> QED
    BY <2>1, <2>2, SearchResult
<1>3. Fixed(last_read_) \in SeqNums
  <2>1. HistorySize \in SeqNums
    BY NumbersType DEF SeqNums
  <2> QED
    BY <2>1, NumbersType DEF Fixed, RingType
<1>4. /\ read_now(last_read_, access).last_read \in SeqNums
      /\ read_now(last_read_, access).number \in Nat
  BY <1>2, <1>3 DEF read_now, RingType
<1>5. /\ Predicate(last_read_, access).last_read \in SeqNums
      /\ Predicate(last_read_, access).number \in Nat
  <2>1. Increment(last_read_) \in SeqNums /\ Increment(last_read_) \in Nat
    BY NumbersType, Zenon DEF RingType
  <2>2. history_[Slot(Increment(last_read_))] \in Nat
    BY <2>1, SlotType DEF RingType
  <2> QED
    BY <2>1, <2>2, Zenon DEF Predicate, get_data, RingType
<1> QED
  BY <1>4, <1>5, Zenon

-----------------------------------------------------------------------------
(* Where samples are.                                                      *)

\* A turn round the circle changes nothing.
LEMMA WholeTurns ==
  ASSUME NEW m \in Nat, m > 0, NEW x \in Nat, NEW q \in Nat
  PROVE  (x + m * q) % m = x % m
<1> DEFINE p == x \div m
           r == x % m
<1>1. x = m * p + r /\ r \in 0 .. m - 1 /\ p \in Nat
  BY DivMod, Zenon
<1> HIDE DEF p, r
<1>2. x + m * q = m * (p + q) + r /\ p + q \in Nat
  BY <1>1
<1>3. (m * (p + q) + r) % m = r
  BY <1>1, <1>2, ModUnique, Zenon
<1> QED
  BY <1>2, <1>3, Zenon DEF r

\* The ring's size divides MAX, so that a wrapped number has the slot of the one that is not.
LEMMA SlotOfNumber ==
  ASSUME NEW n \in Nat
  PROVE  Slot(NumberOf(n)) = (n + MAX - 1) % HistorySize
<1> DEFINE c == MAX \div HistorySize
           x == n + MAX - 1
           q == x \div MAX
           r == x % MAX
<1>1. /\ MAX \in Nat /\ MAX > 0 /\ HistorySize \in Nat /\ HistorySize > 0 /\ x \in Nat
      /\ MAX % HistorySize = 0
  BY NumbersType, HistoryAssumption
<1>2. MAX = HistorySize * c /\ c \in Nat
  <2>1. MAX = HistorySize * c + (MAX % HistorySize) /\ c \in Nat
    BY <1>1, DivMod, Zenon
  <2> HIDE DEF c
  <2> QED
    BY <2>1, <1>1
<1>3. x = MAX * q + r /\ r \in 0 .. MAX - 1 /\ q \in Nat
  <2> HIDE DEF x
  <2> QED
    BY <1>1, DivMod, Zenon
<1>4. NumberOf(n) = r
  BY DEF NumberOf
<1> HIDE DEF c, x, q, r
<1>5. r \in Nat /\ c * q \in Nat /\ x = r + HistorySize * (c * q)
  BY <1>1, <1>2, <1>3
<1>6. (r + HistorySize * (c * q)) % HistorySize = r % HistorySize
  BY <1>1, <1>5, WholeTurns, Zenon
<1> QED
  BY <1>4, <1>5, <1>6 DEF Slot, x

\* Samples less than the ring's size apart are in different slots.
LEMMA SlotsDiffer ==
  ASSUME NEW n \in Nat, NEW d \in 1 .. HistorySize - 1
  PROVE  Slot(NumberOf(n)) # Slot(NumberOf(n + d))
<1> DEFINE x == n + MAX - 1
<1>1. HistorySize \in Nat /\ HistorySize > 0 /\ x \in Nat /\ d \in 0 .. HistorySize /\ n + d \in Nat
      /\ (n + d) + MAX - 1 = x + d
  BY NumbersType
<1>2. Slot(NumberOf(n)) = x % HistorySize /\ Slot(NumberOf(n + d)) = (x + d) % HistorySize
  BY <1>1, SlotOfNumber
<1> HIDE DEF x
<1>3. (x + d) % HistorySize = IF (x % HistorySize) + d < HistorySize THEN (x % HistorySize) + d
                              ELSE (x % HistorySize) + d - HistorySize
  BY <1>1, ModStep, Zenon
<1>4. x % HistorySize \in 0 .. HistorySize - 1
  BY <1>1, DivMod, Zenon
<1> QED
  BY <1>1, <1>2, <1>3, <1>4

\* The number of a sample, without the turn that keeps NumberOf from going below zero.
LEMMA NumberOfSample ==
  ASSUME NEW n \in Nat, n > 0
  PROVE  (n - 1) % MAX = NumberOf(n)
<1>1. MAX \in Nat /\ MAX > 0 /\ n - 1 \in Nat /\ 1 \in Nat
  BY NumbersType
<1>2. ((n - 1) + MAX * 1) % MAX = (n - 1) % MAX
  BY <1>1, WholeTurns, Zenon
<1>3. (n - 1) + MAX * 1 = n + MAX - 1
  BY <1>1
<1> QED
  BY <1>2, <1>3 DEF NumberOf

\* How far behind a reader seems to be, and is if that is less than MAX.
LEMMA DistanceSeen ==
  ASSUME NEW pos \in Nat, NEW w \in Nat, pos <= w
  PROVE  /\ Sub(NumberOf(w), NumberOf(pos)) \in 0 .. MAX - 1
         /\ Sub(NumberOf(w), NumberOf(pos)) <= w - pos
         /\ w - pos < MAX => Sub(NumberOf(w), NumberOf(pos)) = w - pos
<1> DEFINE d == w - pos
           q == d \div MAX
           r == d % MAX
           y == pos + r + MAX - 1
<1>1. MAX \in Nat /\ MAX > 0 /\ d \in Nat /\ w = pos + d
  BY NumbersType
<1>2. d = MAX * q + r /\ r \in 0 .. MAX - 1 /\ q \in Nat
  <2> HIDE DEF d
  <2> QED
    BY <1>1, DivMod
<1>3. NumberOf(w) = NumberOf(pos + r)
  <2> HIDE DEF d, q, r
  <2>1. y \in Nat /\ w + MAX - 1 = y + MAX * q
    BY <1>1, <1>2
  <2> HIDE DEF y
  <2>2. (y + MAX * q) % MAX = y % MAX
    BY <2>1, <1>1, <1>2, WholeTurns, Zenon
  <2> QED
    BY <2>1, <2>2 DEF NumberOf, y
<1> HIDE DEF d, q, r
<1>4. Sub(NumberOf(pos + r), NumberOf(pos)) = r
  BY <1>2, SubIsDistance
<1>5. r <= d /\ (d < MAX => r = d)
  <2>1. MAX * q \in Nat
    BY <1>1, <1>2
  <2>2. CASE q = 0
    BY <2>2, <1>1, <1>2
  <2>3. CASE q >= 1
    <3>1. MAX * q >= MAX
      BY <2>3, <1>1, <1>2
    <3> QED
      BY <3>1, <2>1, <1>1, <1>2
  <2> QED
    BY <2>2, <2>3, <1>2
<1> QED
  BY <1>2, <1>3, <1>4, <1>5, Zenon DEF d

\* A number is known by its distance.
LEMMA FromDistance ==
  ASSUME NEW w \in Nat, NEW from \in SeqNums, Sub(NumberOf(w), from) <= w
  PROVE  from = NumberOf(w - Sub(NumberOf(w), from))
<1> DEFINE k == Sub(NumberOf(w), from)
           v == w - k
<1>1. NumberOf(w) \in SeqNums /\ k \in 0 .. MAX - 1
  BY NumberOfType, NumbersType, Zenon DEF SeqNums
<1>2. v \in Nat /\ v + k = w
  BY <1>1
<1>3. NumberOf(v) \in SeqNums /\ Sub(NumberOf(v + k), NumberOf(v)) = k
  <2> HIDE DEF k, v
  <2> QED
    BY <1>1, <1>2, NumberOfType, SubIsDistance, Zenon
<1>4. Sub(NumberOf(w), NumberOf(v)) = Sub(NumberOf(w), from)
  BY <1>2, <1>3, Zenon
<1>5. \A a \in SeqNums, b \in SeqNums, c \in SeqNums : Sub(a, b) = Sub(a, c) => b = c
  BY NumbersType, SMTT(30) DEF Sub, SeqNums
<1> HIDE DEF v, k
<1> QED
  BY <1>1, <1>3, <1>4, <1>5, Zenon DEF v, k

\* A reader further behind than the ring is moved to the oldest sample, and no other.
LEMMA FixedBehind ==
  ASSUME NEW last_read \in SeqNums, last_write_ \in SeqNums
  PROVE  /\ Fixed(last_read) \in SeqNums
         /\ Behind(Fixed(last_read)) =
              IF Behind(last_read) <= HistorySize THEN Behind(last_read) ELSE HistorySize
BY HistoryAssumption, HalfAssumption, SMTT(30) DEF Fixed, Behind, Sub, Le, Gt, Lt, SeqNums, MAX

-----------------------------------------------------------------------------
(* The reader's place.                                                     *)

InRing == {n \in 1 .. written : n > written - HistorySize}

\* The samples are where their numbers say.
Ring ==
  /\ RingType
  /\ last_write_ = NumberOf(written)
  /\ \A n \in InRing : history_[Slot(NumberOf(n))] = n

\* The reader has seen the samples up to pos, and those it may have up to taken.  After a whole
\* turn of MAX samples nobody knows.
At(pos) ==
  /\ last_read_ = NumberOf(pos) /\ taken <= pos
  /\ \/ written - taken > MAX
     \/ \A n \in Readable(read_access_) : n <= taken \/ n > pos

Place == taken \in Nat /\ \E pos \in 0 .. written : At(pos)

\* What is ahead of a number that the ring still covers.
LEMMA Ahead ==
  ASSUME Ring, NEW access, NEW from \in SeqNums, Behind(from) <= written, Behind(from) <= HistorySize,
         NEW n \in 1 .. Behind(from)
  PROVE  LET sample == written - Behind(from) + n
         IN  /\ sample \in 1 .. written /\ (from + n) % MAX = NumberOf(sample)
             /\ history_[Slot((from + n) % MAX)] = sample
             /\ Allows(access, srcs_[Slot((from + n) % MAX)]) <=> sample \in Readable(access)
<1> DEFINE k == Behind(from)
           w0 == written - k
           sample == w0 + n
<1>1. /\ written \in Nat /\ last_write_ = NumberOf(written) /\ last_write_ \in SeqNums
      /\ k = Sub(NumberOf(written), from)
  BY Zenon DEF Ring, RingType, Behind
<1>2. k \in Nat
  BY <1>1, NumbersType, Zenon DEF Behind
<1>3. w0 \in Nat /\ n \in Nat /\ sample \in 1 .. written /\ sample > written - HistorySize
  <2>1. k <= written /\ k <= HistorySize /\ n \in 1 .. k /\ HistorySize \in Nat
    BY NumbersType
  <2> HIDE DEF k
  <2> QED
    BY <2>1, <1>1, <1>2
<1>4. from = NumberOf(w0)
  BY <1>1, FromDistance, Zenon
<1> HIDE DEF k, w0
<1>5. (from + n) % MAX = NumberOf(sample)
  BY <1>3, <1>4, NumberOfPlus, Zenon
<1>6. sample \in InRing /\ (sample - 1) % MAX = NumberOf(sample)
  <2> HIDE DEF sample
  <2> QED
    BY <1>1, <1>3, NumberOfSample DEF InRing
<1>7. history_[Slot(NumberOf(sample))] = sample
  <2> HIDE DEF sample
  <2> QED
    BY <1>6, Zenon DEF Ring
<1>8. sample \in Readable(access) <=> Allows(access, srcs_[Slot(NumberOf(sample))])
  <2> HIDE DEF sample
  <2> QED
    BY <1>3, <1>6, Zenon DEF Readable
<1>9. sample = written - Behind(from) + n
  BY SMTT(30) DEF w0, k
<1> QED
  BY <1>3, <1>5, <1>7, <1>8, <1>9, Zenon

\* A search finds the first sample it may give the reader after the place it starts from.
LEMMA SearchFinds ==
  ASSUME Ring, NEW access, NEW from \in SeqNums, Behind(from) <= written, Behind(from) <= HistorySize
  PROVE  LET got == Search(from, access)
             start == written - Behind(from)
         IN  \/ /\ ~ got.rv /\ got.last_read = NumberOf(written)
                /\ \A m \in Readable(access) : m <= start
             \/ /\ got.rv /\ got.number \in Readable(access) /\ got.number > start
                /\ got.last_read = NumberOf(got.number)
                /\ \A m \in Readable(access) : m <= start \/ m >= got.number
<1> DEFINE got == Search(from, access)
           k == Behind(from)
           start == written - k
<1>1. RingType /\ written \in Nat /\ k \in Nat /\ start \in Nat /\ last_write_ = NumberOf(written)
  <2>1. RingType /\ written \in Nat /\ k \in Nat /\ last_write_ = NumberOf(written)
    BY NumbersType, Zenon DEF Ring, RingType, Behind
  <2>2. k <= written
    BY Zenon
  <2> HIDE DEF k
  <2> QED
    BY <2>1, <2>2
<1>2. ASSUME NEW m \in Readable(access), ~ (m <= start)
      PROVE  m - start \in Steps(from, access) /\ m \in Nat
  <2>1. m \in 1 .. written
    BY DEF Readable
  <2>2. m - start \in 1 .. k /\ start + (m - start) = m
    <3> HIDE DEF k
    <3> QED
      BY <2>1, <1>1, <1>2
  <2>3. Allows(access, srcs_[Slot((from + (m - start)) % MAX)]) <=> start + (m - start) \in Readable(access)
    <3> DEFINE n == m - start
    <3>1. n \in 1 .. Behind(from)
      BY <2>2
    <3> HIDE DEF n
    <3>2. Allows(access, srcs_[Slot((from + n) % MAX)]) <=> written - Behind(from) + n \in Readable(access)
      BY <3>1, Ahead, Zenon
    <3> QED
      BY <3>2, Zenon DEF n
  <2> QED
    BY <2>1, <2>2, <2>3 DEF Steps
<1>3. CASE Steps(from, access) = {} /\ got = [rv |-> FALSE, last_read |-> last_write_, number |-> 0]
  <2>1. \A m \in Readable(access) : m <= start
    BY <1>2, <1>3, SMTT(30)
  <2> QED
    BY <2>1, <1>1, <1>3
<1>4. CASE \E n \in Steps(from, access) :
             /\ \A m \in Steps(from, access) : n <= m
             /\ got = [rv |-> TRUE, last_read |-> (from + n) % MAX,
                       number |-> history_[Slot((from + n) % MAX)]]
  <2>1. PICK n \in Steps(from, access) :
             /\ \A m \in Steps(from, access) : n <= m
             /\ got = [rv |-> TRUE, last_read |-> (from + n) % MAX,
                       number |-> history_[Slot((from + n) % MAX)]]
    BY <1>4, Zenon
  <2>2. n \in 1 .. k /\ Allows(access, srcs_[Slot((from + n) % MAX)])
    BY DEF Steps
  <2> DEFINE sample == start + n
  <2>3. /\ sample \in 1 .. written /\ (from + n) % MAX = NumberOf(sample)
        /\ history_[Slot((from + n) % MAX)] = sample
        /\ Allows(access, srcs_[Slot((from + n) % MAX)]) <=> sample \in Readable(access)
    BY <2>2, Ahead, Zenon
  <2>4. sample > start
    <3> HIDE DEF start
    <3> QED
      BY <2>2, <1>1
  <2>5. ASSUME NEW m \in Readable(access), ~ (m <= start) PROVE m >= sample
    <3>1. n <= m - start /\ m \in Nat
      BY <1>2, <2>1, <2>5, Zenon
    <3> HIDE DEF start
    <3> QED
      BY <3>1, <2>2, <1>1
  <2>6. got.rv /\ got.number = sample /\ got.last_read = NumberOf(sample)
    BY <2>1, <2>3, SMTT(30)
  <2> HIDE DEF sample, got, start
  <2>7. \A m \in Readable(access) : m <= start \/ m >= sample
    BY <2>5
  <2> QED
    BY <2>2, <2>3, <2>4, <2>6, <2>7, SMTT(30) DEF got, start
<1> QED
  BY <1>1, <1>3, <1>4, SearchResult, Zenon

\* What a read that takes nothing leaves behind: seen up to pos, with nothing missed.
Seen(number, taken_) ==
  \E pos \in 0 .. written :
    /\ number = NumberOf(pos) /\ taken_ <= pos
    /\ \/ written - taken_ > MAX
       \/ \A n \in Readable(read_access_) : n <= taken_ \/ n > pos

\* What a read takes is the next sample that the reader may have.
NextOne(number) ==
  \/ written - taken > MAX
  \/ /\ number > taken
     /\ \A n \in Readable(read_access_) : n <= taken \/ n >= number

\* How far behind its place a reader is.
LEMMA PlaceBehind ==
  ASSUME Ring, taken \in Nat, NEW pos \in 0 .. written, At(pos)
  PROVE  /\ written \in Nat /\ last_read_ \in SeqNums /\ last_write_ \in SeqNums
         /\ Behind(last_read_) \in 0 .. MAX - 1 /\ Behind(last_read_) <= written - pos
         /\ last_read_ # last_write_ => Behind(last_read_) > 0
         /\ last_read_ # last_write_ /\ written - taken <= MAX => Behind(last_read_) = written - pos
<1>1. /\ written \in Nat /\ pos \in Nat /\ pos <= written /\ last_read_ \in SeqNums /\ last_write_ \in SeqNums
      /\ last_write_ = NumberOf(written) /\ last_read_ = NumberOf(pos) /\ taken <= pos
  BY DEF Ring, RingType, At
<1> DEFINE b == Behind(last_read_)
<1>2. b \in 0 .. MAX - 1 /\ b <= written - pos /\ (written - pos < MAX => b = written - pos)
  BY <1>1, DistanceSeen, Zenon DEF Behind
<1>3. last_read_ # last_write_ => b > 0
  BY <1>1, NumbersType DEF Behind, Sub, SeqNums
<1>4. ASSUME last_read_ # last_write_, written - taken <= MAX PROVE b = written - pos
  <2>1. CASE written - pos < MAX
    BY <2>1, <1>2
  <2>2. CASE written - pos = MAX
    <3>1. NumberOf(pos + MAX) = NumberOf(pos)
      <4>1. MAX \in 0 .. MAX /\ NumberOf(pos) \in SeqNums
        BY <1>1, NumbersType
      <4>2. NumberOf(pos + MAX) = IF NumberOf(pos) + MAX < MAX THEN NumberOf(pos) + MAX
                                  ELSE NumberOf(pos) + MAX - MAX
        BY <4>1, <1>1, NumberOfStep
      <4>3. NumberOf(pos) \in Nat /\ MAX \in Nat
        BY <4>1, NumbersType, ZenonT(30)
      <4> HIDE DEF b
      <4> QED
        BY <4>2, <4>3
    <3>2. pos + MAX = written
      BY <2>2, <1>1, NumbersType
    <3> QED
      BY <3>1, <3>2, <1>1, <1>4
  <2> HIDE DEF b
  <2> QED
    BY <2>1, <2>2, <1>1, <1>4, NumbersType
<1> QED
  BY <1>1, <1>2, <1>3, <1>4

\* CedGlobalTopic::read without waiting.
LEMMA ReadNow ==
  ASSUME Ring, taken \in Nat, NEW pos \in 0 .. written, At(pos)
  PROVE  LET got == read_now(last_read_, read_access_)
         IN  \/ ~ got.rv /\ Seen(got.last_read, taken)
             \/ /\ got.rv /\ got.number \in Readable(read_access_)
                /\ got.last_read = NumberOf(got.number) /\ NextOne(got.number)
<1> DEFINE got == read_now(last_read_, read_access_)
           from == Fixed(last_read_)
           b == Behind(last_read_)
           k == Behind(from)
           start == written - k
           found == Search(from, read_access_)
<1>1. /\ written \in Nat /\ last_read_ \in SeqNums /\ last_write_ \in SeqNums /\ b \in Nat /\ b <= written - pos
      /\ (last_read_ # last_write_ /\ written - taken <= MAX => b = written - pos)
      /\ pos \in Nat /\ taken <= pos /\ HistorySize \in Nat
  BY PlaceBehind, NumbersType DEF At
<1>2. CASE last_read_ = last_write_
  <2>1. got.rv = FALSE /\ got.last_read = last_read_
    BY <1>2 DEF read_now
  <2> QED
    BY <2>1 DEF Seen, At
<1>3. CASE last_read_ # last_write_
  <2>1. from \in SeqNums /\ k = IF b <= HistorySize THEN b ELSE HistorySize
    BY <1>1, FixedBehind
  <2>2. got = found
    BY <1>3 DEF read_now
  <2> HIDE DEF b, from, got
  <2>3. k <= written /\ k <= HistorySize /\ k \in Nat
    BY <2>1, <1>1, SMTT(30)
  <2>4. \/ /\ ~ found.rv /\ found.last_read = NumberOf(written)
           /\ \A m \in Readable(read_access_) : m <= start
        \/ /\ found.rv /\ found.number \in Readable(read_access_) /\ found.number > start
           /\ found.last_read = NumberOf(found.number)
           /\ \A m \in Readable(read_access_) : m <= start \/ m >= found.number
    BY <2>1, <2>3, SearchFinds
  <2> HIDE DEF found
  <2>5. ASSUME written - taken <= MAX
        PROVE  /\ start >= taken /\ start \in Nat
               /\ \A m \in Readable(read_access_) : m <= taken \/ m > start
    <3>1. b = written - pos
      BY <2>5, <1>1, <1>3, Zenon
    <3>2. start \in Nat /\ start >= pos /\ (start = pos \/ start = written - HistorySize)
      <4> HIDE DEF k
      <4> QED
        BY <3>1, <2>1, <2>3, <1>1
    <3>3. ASSUME NEW m \in Readable(read_access_) PROVE m <= taken \/ m > start
      <4>1. m \in Nat /\ m > written - HistorySize
        BY DEF Readable
      <4>2. m <= taken \/ m > pos
        <5>1. ~ (written - taken > MAX)
          BY <2>5, <1>1, NumbersType
        <5> QED
          BY <5>1 DEF At
      <4> HIDE DEF start
      <4> QED
        BY <4>1, <4>2, <3>2
    <3> HIDE DEF start
    <3> QED
      BY <3>2, <3>3, <1>1
  <2> HIDE DEF start
  <2>6. CASE ~ found.rv
    <3>1. written - taken > MAX \/ \A n \in Readable(read_access_) : n <= taken \/ n > written
      <4> SUFFICES ASSUME ~ (written - taken > MAX), NEW n \in Readable(read_access_) PROVE n <= taken
        OBVIOUS
      <4>1. written - taken <= MAX
        BY <1>1, NumbersType
      <4>2. n <= start /\ n \in Nat
        BY <2>4, <2>6 DEF Readable
      <4> QED
        BY <4>1, <4>2, <2>5
    <3>2. written \in 0 .. written /\ taken <= written
      BY <1>1
    <3> QED
      BY <3>1, <3>2, <2>2, <2>4, <2>6 DEF Seen, got
  <2>7. CASE found.rv
    <3>1. NextOne(found.number)
      <4> SUFFICES ASSUME ~ (written - taken > MAX)
                   PROVE  /\ found.number > taken
                          /\ \A n \in Readable(read_access_) : n <= taken \/ n >= found.number
        BY DEF NextOne
      <4>1. written - taken <= MAX
        BY <1>1, NumbersType
      <4>2. found.number \in Nat /\ found.number > start
        BY <2>4, <2>7 DEF Readable
      <4>3. found.number > taken
        BY <4>1, <4>2, <2>5, <1>1, SMTT(30)
      <4>4. ASSUME NEW n \in Readable(read_access_) PROVE n <= taken \/ n >= found.number
        <5>1. n \in Nat
          BY DEF Readable
        <5> QED
          BY <5>1, <4>1, <2>4, <2>5, <2>7
      <4> QED
        BY <4>3, <4>4
    <3> QED
      BY <3>1, <2>2, <2>4, <2>7, Zenon DEF got
  <2> QED
    BY <2>6, <2>7, Zenon
<1> QED
  BY <1>2, <1>3, Zenon

\* CedGlobalTopic::read waiting: right for a reader that was not lapped, and one that was has
\* missed nothing the ring still holds.
LEMMA ReadWaiting ==
  ASSUME Ring, taken \in Nat, NEW pos \in 0 .. written, At(pos)
  PROVE  LET got == Predicate(last_read_, read_access_)
         IN  \/ (~ got.rv \/ Lapped) /\ Seen(got.last_read, taken)
             \/ /\ got.rv /\ ~ Lapped /\ got.number \in Readable(read_access_)
                /\ got.last_read = NumberOf(got.number) /\ NextOne(got.number)
<1> DEFINE got == Predicate(last_read_, read_access_)
           b == Behind(last_read_)
           sample == written - b + 1
<1>1. /\ written \in Nat /\ last_read_ \in SeqNums /\ b \in Nat /\ b <= written - pos
      /\ (last_read_ # last_write_ => b > 0)
      /\ (last_read_ # last_write_ /\ written - taken <= MAX => b = written - pos)
      /\ pos \in Nat /\ taken <= pos /\ HistorySize \in Nat /\ MAX \in Nat
  BY PlaceBehind, NumbersType DEF At
<1>2. CASE last_read_ = last_write_
  <2>1. got.rv = FALSE /\ got.last_read = last_read_
    BY <1>2 DEF Predicate
  <2> QED
    BY <2>1 DEF Seen, At
<1>3. CASE last_read_ # last_write_
  <2>1. /\ got.rv <=> Allows(read_access_, srcs_[Slot((last_read_ + 1) % MAX)])
        /\ got.last_read = (last_read_ + 1) % MAX
        /\ got.number = history_[Slot((last_read_ + 1) % MAX)]
    <3>1. Increment(last_read_) = (last_read_ + 1) % MAX
      BY <1>1, IncrementIsNext, Zenon
    <3> QED
      BY <3>1, <1>3, Zenon DEF Predicate, get_data
  <2>2. (last_read_ + 1) % MAX = NumberOf(pos + 1)
    BY <1>1, NumberOfPlus, 1 \in Nat, Zenon DEF At
  <2> HIDE DEF got, b
  <2>3. pos + 1 \in 0 .. written /\ taken <= pos + 1
    BY <1>1, <1>3
  <2>4. ASSUME NEW m \in Readable(read_access_), ~ (written - taken > MAX)
        PROVE  m \in Nat /\ m > written - HistorySize /\ (m <= taken \/ m >= pos + 1) /\ b = written - pos
    <3>1. m \in Nat /\ m > written - HistorySize
      BY DEF Readable
    <3>2. m <= taken \/ m > pos
      BY <2>4 DEF At
    <3> QED
      BY <3>1, <3>2, <2>4, <1>1, <1>3
  <2>5. ASSUME \A m \in Readable(read_access_) : written - taken > MAX \/ m # pos + 1
        PROVE  Seen(got.last_read, taken)
    <3>1. written - taken > MAX \/ \A m \in Readable(read_access_) : m <= taken \/ m > pos + 1
      <4> SUFFICES ASSUME ~ (written - taken > MAX), NEW m \in Readable(read_access_), ~ (m <= taken)
                   PROVE  m > pos + 1
        OBVIOUS
      <4>1. m \in Nat /\ m >= pos + 1 /\ m # pos + 1
        BY <2>4, <2>5
      <4> QED
        BY <4>1, <1>1
    <3>2. got.last_read = NumberOf(pos + 1)
      BY <2>1, <2>2
    <3> QED
      BY <3>1, <3>2, <2>3 DEF Seen
  <2>6. CASE Lapped
    <3>1. b > HistorySize
      BY <2>6 DEF Lapped, b
    <3>2. \A m \in Readable(read_access_) : written - taken > MAX \/ m # pos + 1
      BY <3>1, <2>4, <1>1, SMTT(30)
    <3> QED
      BY <3>2, <2>5, <2>6 DEF got
  <2>7. CASE ~ Lapped
    <3>1. b <= HistorySize /\ b <= written /\ 1 \in 1 .. b
      BY <2>7, <1>1, <1>3, SMTT(30) DEF Lapped, b
    <3>2. /\ sample \in 1 .. written /\ (last_read_ + 1) % MAX = NumberOf(sample)
          /\ history_[Slot((last_read_ + 1) % MAX)] = sample
          /\ Allows(read_access_, srcs_[Slot((last_read_ + 1) % MAX)]) <=> sample \in Readable(read_access_)
      BY <3>1, <1>1, Ahead, Zenon DEF b
    <3>3. b = written - pos => sample = pos + 1
      BY <1>1, SMTT(30)
    <3> HIDE DEF sample
    <3>4. CASE got.rv
      <4>1. NextOne(sample)
        <5> SUFFICES ASSUME ~ (written - taken > MAX)
                     PROVE  sample > taken /\ \A n \in Readable(read_access_) : n <= taken \/ n >= sample
          BY DEF NextOne
        <5>1. sample = pos + 1
          BY <3>2, <3>3, <3>4, <2>1, <2>4
        <5> QED
          BY <5>1, <2>4, <1>1
      <4> QED
        BY <4>1, <3>2, <3>4, <2>1, <2>7 DEF got
    <3>5. CASE ~ got.rv
      <4>1. \A m \in Readable(read_access_) : written - taken > MAX \/ m # pos + 1
        BY <3>2, <3>3, <3>5, <2>1, <2>4
      <4> QED
        BY <4>1, <3>5, <2>5 DEF got
    <3> QED
      BY <3>4, <3>5
  <2> QED
    BY <2>6, <2>7, SMTT(30)
<1> QED
  BY <1>2, <1>3

\* A sample written: it takes the slot of the one that leaves the ring.
LEMMA WriteRing ==
  ASSUME Ring, Place, NEW access, NEW src \in Sources, write(access, src),
         UNCHANGED <<last_read_, taken, read_access_>>
  PROVE  Ring' /\ Place'
<1>1. CASE ~ Allows(access, src)
  BY <1>1 DEF write, topicVars, Ring, RingType, InRing, Place, At, Readable
<1>2. CASE Allows(access, src)
  <2> DEFINE new == written + 1
             slot == Slot(NumberOf(new))
  <2>1. /\ written \in Nat /\ new \in Nat /\ new > 0 /\ HistorySize \in Nat /\ HistorySize > 0 /\ MAX \in Nat
        /\ last_write_ \in SeqNums /\ last_write_ = NumberOf(written)
    BY NumbersType DEF Ring, RingType
  <2>2. (last_write_ + 1) % MAX = NumberOf(new) /\ Increment(last_write_) = NumberOf(new)
    BY <2>1, NumberOfPlus, IncrementIsNext, 1 \in Nat
  <2>3. /\ history_' = [history_ EXCEPT ![slot] = new] /\ srcs_' = [srcs_ EXCEPT ![slot] = src]
        /\ last_write_' = NumberOf(new) /\ written' = new
    BY <1>2, <2>2 DEF write
  <2>4. NumberOf(new) \in SeqNums /\ slot \in Slots
    BY <2>1, NumberOfType, NumbersType, SlotType, ZenonT(30)
  <2>5. ASSUME NEW n \in Nat, n > 0, n <= written, n > new - HistorySize
        PROVE  /\ n \in InRing /\ Slot(NumberOf(n)) \in Slots
               /\ history_'[Slot(NumberOf(n))] = n
               /\ srcs_'[Slot((n - 1) % MAX)] = srcs_[Slot((n - 1) % MAX)]
    <3>1. n \in InRing /\ new - n \in 1 .. HistorySize - 1 /\ n + (new - n) = new
      BY <2>1, <2>5 DEF InRing
    <3>2. Slot(NumberOf(n)) # slot
      <4> DEFINE d == new - n
      <4>1. d \in 1 .. HistorySize - 1 /\ n + d = new
        BY <3>1
      <4> HIDE DEF d, new
      <4> QED
        BY <4>1, SlotsDiffer
    <3>3. NumberOf(n) \in Nat /\ Slot(NumberOf(n)) \in Slots /\ (n - 1) % MAX = NumberOf(n)
      BY <2>5, NumberOfType, NumbersType, SlotType, NumberOfSample
    <3> HIDE DEF slot, new
    <3> QED
      BY <3>1, <3>2, <3>3, <2>3, <2>4 DEF Ring, RingType
  <2>6. RingType'
    <3> HIDE DEF slot, new
    <3> QED
      BY <2>1, <2>3, <2>4 DEF Ring, RingType
  <2>7. ASSUME NEW n \in InRing' PROVE history_'[Slot(NumberOf(n))] = n
    <3>1. n \in 1 .. new /\ n > new - HistorySize
      BY <2>3, <2>7 DEF InRing
    <3>2. CASE n = new
      <4> HIDE DEF new
      <4> QED
        BY <3>2, <2>3, <2>4, SMTT(30) DEF Ring, RingType
    <3>3. CASE n # new
      BY <3>1, <3>3, <2>1, <2>5, SMTT(30)
    <3> QED
      BY <3>2, <3>3
  <2>8. Ring'
    BY <2>3, <2>6, <2>7 DEF Ring
  <2>9. Place'
    <3>1. PICK pos \in 0 .. written : At(pos)
      BY DEF Place
    <3>2. taken \in Nat /\ pos \in Nat /\ pos <= written /\ pos \in 0 .. new
      BY <2>1, SMTT(30) DEF Place
    <3>3. ASSUME NEW n \in Readable(read_access_)', n # new PROVE n \in Readable(read_access_)
      <4>1. n \in 1 .. new /\ n > new - HistorySize /\ Allows(read_access_, srcs_'[Slot((n - 1) % MAX)])
        BY <2>3, <3>3 DEF Readable
      <4>2. n \in Nat /\ n > 0 /\ n <= written
        BY <4>1, <3>3, <2>1, SMTT(30)
      <4>3. n \in InRing /\ srcs_'[Slot((n - 1) % MAX)] = srcs_[Slot((n - 1) % MAX)]
        BY <4>1, <4>2, <2>5
      <4> QED
        BY <4>1, <4>3 DEF InRing, Readable
    <3>4. new > pos
      BY <3>2, <2>1
    <3>5. written - taken > MAX => new - taken > MAX
      BY <3>2, <2>1, SMTT(30)
    <3> HIDE DEF new
    <3>6. At(pos)'
      BY <3>1, <3>3, <3>4, <3>5, <2>3, SMTT(30) DEF At
    <3> QED
      BY <3>2, <3>6, <2>3 DEF Place
  <2> QED
    BY <2>8, <2>9
<1> QED
  BY <1>1, <1>2

\* At the start nothing was written and the reader is before the first sample.
LEMMA InitRing == Init => Ring /\ Place
<1> SUFFICES ASSUME Init PROVE Ring /\ Place
  OBVIOUS
<1>1. /\ written = 0 /\ last_write_ = MAX - 1 /\ last_read_ = MAX - 1 /\ taken = 0
      /\ history_ = [i \in Slots |-> 0] /\ srcs_ \in [Slots -> Sources]
  BY DEF Init, TopicInit, Slots
<1>2. MAX \in Nat /\ MAX > 0 /\ MAX - 1 \in 0 .. MAX - 1 /\ 0 \in Nat
  BY NumbersType
<1>3. NumberOf(0) = MAX - 1 /\ MAX - 1 \in SeqNums
  <2>1. (MAX * 0 + (MAX - 1)) % MAX = MAX - 1
    <3> DEFINE r == MAX - 1
    <3>1. r \in 0 .. MAX - 1
      BY <1>2
    <3> HIDE DEF r
    <3>2. (MAX * 0 + r) % MAX = r
      BY <3>1, <1>2, ModUnique
    <3> QED
      BY <3>2 DEF r
  <2>2. MAX * 0 + (MAX - 1) = 0 + MAX - 1
    BY <1>2
  <2> QED
    BY <2>1, <2>2, <1>2 DEF NumberOf, SeqNums
<1>4. InRing = {} /\ Readable(read_access_) = {}
  BY <1>1 DEF InRing, Readable
<1>5. RingType
  BY <1>1, <1>3 DEF RingType
<1>6. 0 \in 0 .. written /\ At(0)
  BY <1>1, <1>3, <1>4 DEF At
<1> QED
  BY <1>1, <1>3, <1>4, <1>5, <1>6 DEF Ring, Place

\* A read that was made.
LEMMA TookRing ==
  ASSUME Ring, Place, NEW last_read \in SeqNums, NEW number, last_read_' = last_read,
         UNCHANGED <<topicVars, read_access_>>,
         \/ taken' = taken /\ Seen(last_read, taken)
         \/ taken' = number /\ number \in Readable(read_access_) /\ last_read = NumberOf(number)
  PROVE  Ring' /\ Place'
<1>1. Ring' /\ UNCHANGED <<written, srcs_>>
  BY DEF Ring, RingType, InRing, topicVars
<1>2. Readable(read_access_)' = Readable(read_access_)
  BY <1>1, SMTT(30) DEF Readable
<1>3. CASE taken' = taken /\ Seen(last_read, taken)
  BY <1>1, <1>2, <1>3, SMTT(30) DEF Seen, Place, At
<1>4. CASE taken' = number /\ number \in Readable(read_access_) /\ last_read = NumberOf(number)
  <2>1. number \in 0 .. written /\ number \in Nat
    BY <1>4 DEF Readable, Ring, RingType
  <2>2. \A n \in Readable(read_access_) : n <= number \/ n > number
    BY <2>1 DEF Readable
  <2>3. \A n \in Readable(read_access_)' : n <= taken' \/ n > number
    BY <2>2, <1>2, <1>4
  <2>4. last_read_' = NumberOf(number) /\ taken' <= number
    BY <2>1, <1>4
  <2> QED
    BY <2>1, <2>3, <2>4, <1>1, <1>4, SMTT(30) DEF Place, At
<1> QED
  BY <1>3, <1>4, SMTT(30)

\* A data reader's read, without waiting and after it.
LEMMA BeginRing ==
  ASSUME Ring, Place, begin_read
  PROVE  Ring' /\ Place'
<1>1. PICK pos \in 0 .. written : At(pos)
  BY SMTT(30) DEF Place
<1>2. taken \in Nat /\ RingType /\ UNCHANGED <<topicVars, read_access_>>
  BY SMTT(30) DEF Place, Ring, begin_read, clientVars
<1>3. CASE object = "DATAREADER"
  <2>read. read_now(last_read_, read_access_).last_read \in SeqNums
    BY <1>2, ReadType, Zenon
  <2> DEFINE got == read_now(last_read_, read_access_)
  <2>1. ced_took(got, FALSE)
    BY <1>3, ZenonT(30) DEF begin_read
  <2>2. last_read_' = got.last_read /\ taken' = IF got.rv THEN got.number ELSE taken
    <3> HIDE DEF got
    <3> QED
      BY <2>1 DEF ced_took
  <2>3. got.last_read \in SeqNums
    BY <2>read, Zenon
  <2>4. \/ ~ got.rv /\ Seen(got.last_read, taken)
        \/ /\ got.rv /\ got.number \in Readable(read_access_)
           /\ got.last_read = NumberOf(got.number) /\ NextOne(got.number)
    BY <1>1, <1>2, ReadNow
  <2> HIDE DEF got
  <2> QED
    BY <2>2, <2>3, <2>4, <1>2, TookRing, SMTT(30)
<1>4. CASE object # "DATAREADER"
  <2>1. last_read_' = last_read_ /\ taken' = taken
    BY <1>4, SMTT(30) DEF begin_read, ced_took
  <2> QED
    BY <2>1, <1>2 DEF Ring, RingType, InRing, Place, At, Readable, topicVars
<1> QED
  BY <1>3, <1>4

\* A reader that waits takes the next sample, or one it cannot know once it was lapped.
LEMMA WaitRing ==
  ASSUME Ring, Place, wait_ced
  PROVE  Ring' /\ Place'
<1>read. Predicate(last_read_, read_access_).last_read \in SeqNums
  BY ReadType, Zenon DEF Ring
<1> DEFINE got == Predicate(last_read_, read_access_)
<1>1. PICK pos \in 0 .. written : At(pos)
  BY DEF Place
<1>2. taken \in Nat /\ RingType /\ UNCHANGED <<topicVars, read_access_>> /\ ced_took(got, Lapped)
  BY DEF Place, Ring, wait_ced, clientVars
<1>3. last_read_' = got.last_read /\ taken' = IF got.rv /\ ~ Lapped THEN got.number ELSE taken
  <2> HIDE DEF got
  <2> QED
    BY <1>2, SMTT(30) DEF ced_took
<1>4. got.last_read \in SeqNums
  BY <1>read, Zenon
<1>5. \/ (~ got.rv \/ Lapped) /\ Seen(got.last_read, taken)
      \/ /\ got.rv /\ ~ Lapped /\ got.number \in Readable(read_access_)
         /\ got.last_read = NumberOf(got.number) /\ NextOne(got.number)
  BY <1>1, <1>2, ReadWaiting
<1> HIDE DEF got
<1> QED
  BY <1>2, <1>3, <1>4, <1>5, TookRing, SMTT(30)

\* All steps.
LEMMA NextRing == Ring /\ Place /\ [Next]_vars => Ring' /\ Place'
<1> SUFFICES ASSUME Ring, Place, [Next]_vars PROVE Ring' /\ Place'
  OBVIOUS
<1>1. CASE write_topic
  <2>1. PICK access \in Accesses, src \in Sources : write(access, src)
    BY <1>1, SMTT(30) DEF write_topic
  <2> QED
    BY <2>1, <1>1, WriteRing DEF write_topic, clientVars
<1>2. CASE UNCHANGED <<topicVars, last_read_, taken, read_access_>>
  BY <1>2, SMTT(30) DEF Ring, RingType, InRing, Place, At, Readable, topicVars
<1>3. CASE read_task /\ ~ begin_read /\ ~ wait_ced
  BY <1>3, <1>2, ZenonT(30) DEF read_task, stopped, wait_reply, consume, awake, push, push_times_out, clientVars
<1>4. CASE processing_thread \/ service \/ tick
  BY <1>4, <1>2, ZenonT(30) DEF processing_thread, process_read_data, join, start_reading, delete_datareader,
                    delete_requester, destroy, process_write_request, record_request, process_acknack,
                    service, tick, clientVars
<1>5. CASE UNCHANGED vars
  BY <1>5, <1>2 DEF vars, clientVars
<1> QED
  BY <1>1, <1>3, <1>4, <1>5, BeginRing, WaitRing DEF Next

\* A reader takes the samples in the order they were written, each once, and misses none but
\* those that left the ring, for every size of ring and for numbers that wrap; the two exceptions
\* are those that TakenInOrder names.
THEOREM OrderOfSamples == Spec => TakenInOrder
<1> DEFINE Take ==
      thread_' = "tokens" /\ thread_ \in {"loop", "waiting"} /\ object = "DATAREADER" =>
       \/ thread_ = "waiting" /\ Lapped
       \/ written - taken > MAX
       \/ /\ data'.number > taken
          /\ data'.number \in Readable(read_access_)
          /\ \A n \in Readable(read_access_) : n <= taken \/ n >= data'.number
<1>1. Ring /\ Place /\ [Next]_vars => [Take]_vars
  <2> SUFFICES ASSUME Ring, Place, Next, thread_' = "tokens", thread_ \in {"loop", "waiting"},
                      object = "DATAREADER"
               PROVE  Take
    OBVIOUS
  <2>1. PICK pos \in 0 .. written : At(pos)
    BY DEF Place
  <2>2. taken \in Nat
    BY SMTT(30) DEF Place
  <2>3. CASE begin_read
    <3>1. /\ read_now(last_read_, read_access_).rv
          /\ data'.number = read_now(last_read_, read_access_).number
      <4> DEFINE got == read_now(last_read_, read_access_)
      <4>1. IF got.rv THEN has_sample(got.number, 1) ELSE thread_' = "waiting"
        BY <2>3, SMTT(30) DEF begin_read
      <4> HIDE DEF got
      <4>2. got.rv /\ data'.number = got.number
        BY <4>1, SMTT(30) DEF has_sample
      <4> QED
        BY <4>2, SMTT(30) DEF got
    <3> QED
      BY <3>1, <2>1, <2>2, ReadNow, SMTT(30) DEF NextOne
  <2>4. CASE wait_ced
    <3>1. /\ Predicate(last_read_, read_access_).rv /\ thread_ = "waiting"
          /\ data'.number = Predicate(last_read_, read_access_).number
      <4> DEFINE got == Predicate(last_read_, read_access_)
      <4>1. \/ got.rv /\ has_sample(got.number, 1)
            \/ UNCHANGED thread_
            \/ end_iteration(message_count)
        BY <2>4, Zenon DEF wait_ced
      <4>2. thread_ = "waiting"
        BY <2>4, Zenon DEF wait_ced
      <4> HIDE DEF got
      <4>3. ~ UNCHANGED thread_
        BY <4>2
      <4>4. ~ end_iteration(message_count)
        BY DEF end_iteration
      <4>5. got.rv /\ data' = [number |-> got.number, request |-> 1]
        BY <4>1, <4>3, <4>4, Zenon DEF has_sample
      <4> QED
        BY <4>2, <4>5, Zenon DEF got
    <3> QED
      BY <3>1, <2>1, <2>2, ReadWaiting, SMTT(30) DEF NextOne
  <2>5. CASE read_task /\ ~ begin_read /\ ~ wait_ced
    BY <2>5, ZenonT(30) DEF read_task, stopped, wait_reply, consume, awake, push, push_times_out
  <2>6. CASE processing_thread \/ write_topic \/ service \/ tick
    BY <2>6, Zenon DEF processing_thread, process_read_data, join, start_reading, delete_datareader,
                delete_requester, destroy, process_write_request, record_request, process_acknack,
                write_topic, service, tick, readerVars
  <2> QED
    BY <2>3, <2>4, <2>5, <2>6, SMTT(30) DEF Next
<1> QED
  BY <1>1, InitRing, NextRing, PTL DEF Spec, TakenInOrder

\* A read with a rate of two octets per second or more never has more under way than its bucket's
\* capacity beyond what time has earned, whatever the sizes, the timeouts and when it is asked.
THEOREM RateKept == Spec => []RateIsKept
<1>1. Ring => FindsSamples
  BY ReadType DEF Ring, FindsSamples
<1> QED
  BY <1>1, BudgetIsKept, InitBudget, NextBudget, InitAsking, NextAsking, InitRing, NextRing, LifeCycle, PTL DEF Spec
=============================================================================

--------------------------- MODULE SeqNumTheorems ---------------------------
(***************************************************************************)
(* What the serial-number arithmetic of SeqNum computes, for every size of *)
(* the number space: the n-th message of a stream has number NumberOf(n),  *)
(* and as long as two positions are at most Half apart, comparing, adding  *)
(* and subtracting their numbers says what comparing, adding and           *)
(* subtracting the positions would.  Then the same for the arithmetic of   *)
(* Fragmentation.                                                          *)
(***************************************************************************)
EXTENDS SeqNum, Fragmentation, TLAPS

\* The sequence number of the n-th message: the first has number 0, and the
\* last number before it is UINT16_MAX, as in the constructors of the streams.
NumberOf(n) == (n + MAX - 1) % MAX

-----------------------------------------------------------------------------
\* Quotient and remainder.
LEMMA DivMod ==
  ASSUME NEW m \in Nat, m > 0, NEW x \in Nat
  PROVE  /\ x = m * (x \div m) + (x % m)
         /\ x % m \in 0..(m - 1)
         /\ x \div m \in Nat
  OBVIOUS

\* The remainder is unique.
LEMMA ModUnique ==
  ASSUME NEW m \in Nat, m > 0, NEW q \in Nat, NEW r \in 0..(m - 1)
  PROVE  (m * q + r) % m = r
<1> DEFINE x == m * q + r
<1> DEFINE p == x \div m
<1> DEFINE s == x % m
<1>0. x \in Nat
  OBVIOUS
<1>1. x = m * p + s /\ s \in 0..(m - 1) /\ p \in Nat
  BY <1>0, DivMod
<1>2. m * (q - p) = s - r
  BY <1>1
<1> HIDE DEF x, p, s
<1>3. q - p < 1
  <2>1. SUFFICES ASSUME q - p >= 1 PROVE FALSE
    BY <1>1
  <2>2. m * (q - p) >= m
    BY <2>1, <1>1
  <2> QED
    BY <2>2, <1>2, <1>1
<1>4. q - p > -1
  <2>1. SUFFICES ASSUME q - p =< -1 PROVE FALSE
    BY <1>1
  <2>2. m * (q - p) =< - m
    BY <2>1, <1>1
  <2> QED
    BY <2>2, <1>2, <1>1
<1>5. q = p
  BY <1>3, <1>4, <1>1
<1>6. s = r
  BY <1>2, <1>5, <1>1
<1> QED
  BY <1>6 DEF s, x

\* Adding after taking the remainder, or before.
LEMMA ModAdd ==
  ASSUME NEW m \in Nat, m > 0, NEW x \in Nat, NEW d \in Nat
  PROVE  ((x % m) + d) % m = (x + d) % m
<1> DEFINE q == x \div m
<1> DEFINE r == x % m
<1> DEFINE p == (r + d) \div m
<1> DEFINE s == (r + d) % m
<1>1. x = m * q + r /\ r \in 0..(m - 1) /\ q \in Nat
  BY DivMod
<1>2. r + d = m * p + s /\ s \in 0..(m - 1) /\ p \in Nat
  BY <1>1, DivMod, r + d \in Nat
<1>3. x + d = m * (q + p) + s
  <2> HIDE DEF q, r, p, s
  <2>1. m * (q + p) = m * q + m * p
    BY <1>1, <1>2
  <2> QED
    BY <2>1, <1>1, <1>2
<1>4. (m * (q + p) + s) % m = s
  <2> HIDE DEF q, r, p, s
  <2> QED
    BY <1>1, <1>2, ModUnique, q + p \in Nat, Zenon
<1> QED
  BY <1>3, <1>4

\* The remainder after adding less than m.
LEMMA ModStep ==
  ASSUME NEW m \in Nat, m > 0, NEW x \in Nat, NEW d \in 0..m
  PROVE  (x + d) % m = IF (x % m) + d < m THEN (x % m) + d ELSE (x % m) + d - m
<1> DEFINE r == x % m
<1>1. r \in 0..(m - 1)
  BY DivMod
<1>2. (x + d) % m = (r + d) % m
  <2>1. d \in Nat
    OBVIOUS
  <2> QED
    BY <2>1, ModAdd, Zenon
<1> HIDE DEF r
<1>3. CASE r + d < m
  <2>1. (m * 0 + (r + d)) % m = r + d
    BY <1>1, <1>3, ModUnique, r + d \in 0..(m - 1), 0 \in Nat
  <2> QED
    BY <2>1, <1>1, <1>2, <1>3 DEF r
<1>4. CASE ~ (r + d < m)
  <2>1. r + d - m \in 0..(m - 1)
    BY <1>1, <1>4
  <2>2. (m * 1 + (r + d - m)) % m = r + d - m
    BY <2>1, ModUnique, 1 \in Nat
  <2>3. m * 1 + (r + d - m) = r + d
    BY <1>1
  <2> QED
    BY <2>2, <2>3, <1>2, <1>4 DEF r
<1> QED
  BY <1>3, <1>4

-----------------------------------------------------------------------------
\* Numbers are 16-bit values.
LEMMA NumberOfType ==
  ASSUME NEW n \in Nat
  PROVE  NumberOf(n) \in SeqNums
<1>1. MAX \in Nat /\ MAX > 0 /\ n + MAX - 1 \in Nat
  BY HalfAssumption DEF MAX
<1> QED
  BY <1>1, DivMod DEF NumberOf, SeqNums

\* The number d messages further on.
LEMMA NumberOfPlus ==
  ASSUME NEW n \in Nat, NEW d \in Nat
  PROVE  (NumberOf(n) + d) % MAX = NumberOf(n + d)
<1>1. MAX \in Nat /\ MAX > 0 /\ n + MAX - 1 \in Nat
  BY HalfAssumption DEF MAX
<1>2. (((n + MAX - 1) % MAX) + d) % MAX = (n + MAX - 1 + d) % MAX
  BY <1>1, ModAdd, Zenon
<1>3. n + MAX - 1 + d = (n + d) + MAX - 1
  BY <1>1
<1> QED
  BY <1>2, <1>3 DEF NumberOf

\* The same in one formula without a remainder, for at most one turn.
LEMMA NumberOfStep ==
  ASSUME NEW n \in Nat, NEW d \in 0..MAX
  PROVE  NumberOf(n + d) = IF NumberOf(n) + d < MAX THEN NumberOf(n) + d
                           ELSE NumberOf(n) + d - MAX
<1>1. MAX \in Nat /\ MAX > 0 /\ n + MAX - 1 \in Nat
  BY HalfAssumption DEF MAX
<1>2. (n + MAX - 1 + d) % MAX = IF ((n + MAX - 1) % MAX) + d < MAX
                                THEN ((n + MAX - 1) % MAX) + d
                                ELSE ((n + MAX - 1) % MAX) + d - MAX
  BY <1>1, ModStep, Zenon
<1>3. n + MAX - 1 + d = (n + d) + MAX - 1
  BY <1>1
<1> QED
  BY <1>2, <1>3 DEF NumberOf

\* operator+= follows the positions, for an addend in ADD_RANGE.
LEMMA AddIsPlus ==
  ASSUME NEW n \in Nat, NEW d \in 0..(Half - 1)
  PROVE  Add(NumberOf(n), d) = NumberOf(n + d)
<1>1. d \in Nat
  BY HalfAssumption
<1> QED
  BY <1>1, NumberOfPlus DEF Add

\* Adding a SeqNum and adding the same int agree.
LEMMA AddSeqIsAdd ==
  ASSUME NEW a \in SeqNums, NEW d \in SeqNums
  PROVE  AddSeq(a, d) = Add(a, d)
  BY HalfAssumption DEF AddSeq, Add, Ge, Le, Gt, Lt, SeqNums, MAX

\* Two positions less than a turn apart have different numbers.
LEMMA NumberOfInjective ==
  ASSUME NEW m \in Nat, NEW n \in Nat, m - n < MAX, n - m < MAX,
         NumberOf(m) = NumberOf(n)
  PROVE  m = n
<1>0. MAX \in Nat
  BY HalfAssumption DEF MAX
<1>1. ASSUME NEW a \in Nat, NEW d \in 1..(MAX - 1)
      PROVE  NumberOf(a + d) # NumberOf(a)
  <2>1. d \in 0..MAX
    BY <1>0
  <2>2. NumberOf(a) \in 0..(MAX - 1)
    BY NumberOfType DEF SeqNums
  <2>3. NumberOf(a + d) = IF NumberOf(a) + d < MAX THEN NumberOf(a) + d
                          ELSE NumberOf(a) + d - MAX
    BY <2>1, NumberOfStep
  <2> QED
    BY <1>0, <2>2, <2>3
<1>2. CASE m < n
  <2>1. n - m \in 1..(MAX - 1) /\ m + (n - m) = n
    BY <1>0, <1>2
  <2>2. NumberOf(m + (n - m)) # NumberOf(m)
    BY <2>1, <1>1
  <2> QED
    BY <2>1, <2>2
<1>3. CASE n < m
  <2>1. m - n \in 1..(MAX - 1) /\ n + (m - n) = m
    BY <1>0, <1>3
  <2>2. NumberOf(n + (m - n)) # NumberOf(n)
    BY <2>1, <1>1
  <2> QED
    BY <2>1, <2>2
<1> QED
  BY <1>2, <1>3

\* operator< on the numbers of two positions, the second d messages further on:
\* it holds exactly when d is neither 0 nor Half or more, and the converse
\* comparison fails up to and including Half.
LEMMA LtForward ==
  ASSUME NEW n \in Nat, NEW d \in 0..Half
  PROVE  /\ Lt(NumberOf(n), NumberOf(n + d)) <=> (d > 0 /\ d < Half)
         /\ ~ Lt(NumberOf(n + d), NumberOf(n))
<1>1. d \in 0..MAX
  BY HalfAssumption DEF MAX
<1>2. NumberOf(n) \in 0..(MAX - 1)
  BY NumberOfType DEF SeqNums
<1>3. NumberOf(n + d) = IF NumberOf(n) + d < MAX THEN NumberOf(n) + d
                        ELSE NumberOf(n) + d - MAX
  BY <1>1, NumberOfStep
<1> QED
  BY <1>2, <1>3, HalfAssumption DEF Lt, MAX

\* operator< compares positions, as long as they are less than Half apart one
\* way and at most Half apart the other way.
THEOREM SerialOrder ==
  ASSUME NEW m \in Nat, NEW n \in Nat, n - m < Half, m - n =< Half
  PROVE  Lt(NumberOf(m), NumberOf(n)) <=> m < n
<1>1. CASE m < n
  <2>1. n - m \in 0..Half /\ m + (n - m) = n
    BY <1>1, HalfAssumption
  <2>2. Lt(NumberOf(m), NumberOf(m + (n - m))) <=> (n - m > 0 /\ n - m < Half)
    BY <2>1, LtForward
  <2> QED
    BY <1>1, <2>1, <2>2
<1>2. CASE ~ (m < n)
  <2>1. m - n \in 0..Half /\ n + (m - n) = m
    BY <1>2, HalfAssumption
  <2>2. ~ Lt(NumberOf(n + (m - n)), NumberOf(n))
    BY <2>1, LtForward
  <2> QED
    BY <1>2, <2>1, <2>2
<1> QED
  BY <1>1, <1>2

\* operator-= gives the distance between two positions less than a turn apart.
LEMMA SubIsDistance ==
  ASSUME NEW n \in Nat, NEW d \in 0..(MAX - 1)
  PROVE  Sub(NumberOf(n + d), NumberOf(n)) = d
<1>0. MAX \in Nat
  BY HalfAssumption DEF MAX
<1>1. d \in 0..MAX
  BY <1>0
<1>2. NumberOf(n) \in 0..(MAX - 1)
  BY NumberOfType DEF SeqNums
<1>3. NumberOf(n + d) = IF NumberOf(n) + d < MAX THEN NumberOf(n) + d
                        ELSE NumberOf(n) + d - MAX
  BY <1>1, NumberOfStep
<1> QED
  BY <1>0, <1>2, <1>3 DEF Sub

-----------------------------------------------------------------------------
(* Fragments. *)

\* Multiplying by a number that is not negative keeps the order.
LEMMA Multiples ==
  ASSUME NEW m \in Nat, NEW a \in Int, NEW b \in Int, a =< b
  PROVE  a * m =< b * m
<1>1. (b - a) * m >= 0
  <2>1. b - a \in Nat
    OBVIOUS
  <2>2. \A d \in Nat : d * m \in Nat
    OBVIOUS
  <2> QED
    BY <2>1, <2>2
<1>2. (b - a) * m = b * m - a * m
  OBVIOUS
<1>3. a * m \in Int /\ b * m \in Int
  OBVIOUS
<1> QED
  BY <1>1, <1>2, <1>3

\* The last turn begins before the end of the submessage and can take the rest.
LEMMA LastTurn ==
  ASSUME NEW size \in Nat \ {0}, NEW max \in Nat \ {0}
  PROVE  LET n == Turns(size, max)
         IN  n \in Nat \ {0} /\ (n - 1) * max < size /\ size =< (n - 1) * max + max
<1> DEFINE n == Turns(size, max)
           x == size + max - 1
           r == x % max
<1>1. x \in Nat /\ x = max * n + r /\ r \in 0 .. max - 1 /\ n \in Nat
  BY DivMod DEF Turns
<1>2. n # 0
  <2> SUFFICES ASSUME n = 0 PROVE FALSE
    OBVIOUS
  <2>1. max * n = 0
    OBVIOUS
  <2> HIDE DEF n, r
  <2> QED
    BY <2>1, <1>1
<1>3. max * n = (n - 1) * max + max
  BY <1>1
<1>4. (n - 1) * max \in Int
  BY <1>1
<1> HIDE DEF n, r
<1>5. (n - 1) * max < size /\ size =< (n - 1) * max + max
  BY <1>1, <1>3, <1>4
<1> QED
  BY <1>1, <1>2, <1>5 DEF n

\* All that the proofs below use of 2^16.
LEMMA Uint16 == UINT16 \in Nat \ {0}
BY SMT DEF UINT16

\* A number that fits in 16 bits is not changed by storing it in them.
LEMMA SmallMod ==
  ASSUME NEW x \in 0 .. UINT16 - 1
  PROVE  x % UINT16 = x
<1>1. UINT16 \in Nat /\ UINT16 > 0 /\ x \in Nat
  BY Uint16
<1>2. (UINT16 * 0 + x) % UINT16 = x
  BY <1>1, ModUnique
<1>3. UINT16 * 0 + x = x
  BY <1>1
<1> QED
  BY <1>2, <1>3, Zenon

\* A turn of the loop that begins at (i - 1) * max takes a whole message when it is
\* not the last one, and the rest when it is; 16 bits hold every number in it.
LEMMA OneTurn ==
  ASSUME NEW size \in 1 .. UINT16 - 1, NEW max \in Nat \ {0},
         NEW i \in 1 .. Turns(size, max)
  PROVE  LET at == (i - 1) * max
             f  == fragment_size(at, size, max)
         IN  /\ at \in Nat /\ at < size
             /\ f \in 1 .. max /\ at + f =< size
             /\ i < Turns(size, max) => f = max /\ at + f = i * max /\ i * max < size
             /\ i = Turns(size, max) => at + f = size
             /\ AfterTurn(at, size, max) = at + f
<1> DEFINE n  == Turns(size, max)
           at == (i - 1) * max
           f  == fragment_size(at, size, max)
<1>1. size \in Nat \ {0} /\ size < UINT16 /\ UINT16 \in Nat \ {0}
  BY Uint16
<1>2. n \in Nat \ {0} /\ (n - 1) * max < size /\ size =< (n - 1) * max + max
  BY <1>1, LastTurn
<1>3. i \in Nat \ {0} /\ i =< n
  BY <1>2
<1> HIDE DEF n
<1>4. at \in Nat /\ i * max \in Nat /\ (n - 1) * max \in Int /\ i * max = at + max
  BY <1>2, <1>3
<1>5. at =< (n - 1) * max
  BY <1>2, <1>3, Multiples
<1>6. i < n => i * max =< (n - 1) * max
  BY <1>2, <1>3, Multiples
<1>7. i = n => at = (n - 1) * max
  OBVIOUS
<1> HIDE DEF at
<1>8. at < size
  BY <1>1, <1>2, <1>4, <1>5
<1>9. f = IF max < size - at THEN max ELSE size - at
  <2>1. (IF max < size - at THEN max ELSE size - at) \in 0 .. UINT16 - 1
    BY <1>1, <1>4, <1>8
  <2>2. \A x \in 0 .. UINT16 - 1 : x % UINT16 = x
    BY SmallMod
  <2> QED
    BY <2>1, <2>2, Zenon DEF fragment_size
<1>10. f \in 1 .. max /\ at + f =< size
  BY <1>1, <1>4, <1>8, <1>9
<1>11. i < n => f = max /\ at + f = i * max /\ i * max < size
  BY <1>1, <1>2, <1>4, <1>6, <1>8, <1>9
<1>12. i = n => at + f = size
  BY <1>1, <1>2, <1>4, <1>7, <1>8, <1>9
<1>13. AfterTurn(at, size, max) = at + f
  <2>1. at + f \in 0 .. UINT16 - 1
    BY <1>1, <1>4, <1>10
  <2>2. \A x \in 0 .. UINT16 - 1 : x % UINT16 = x
    BY SmallMod
  <2> QED
    BY <2>1, <2>2, Zenon DEF AfterTurn
<1> QED
  BY <1>4, <1>8, <1>10, <1>11, <1>12, <1>13, Zenon DEF n, at

\* The fragmentation loop of push_submessage, for a submessage of any size below 2^16
\* octets and any room in a message: it takes Turns(size, max) turns, the i-th one
\* beginning where the one before ended, and stops after the last with the whole
\* submessage cut; no fragment is empty or larger than a message takes; and every
\* octet of the submessage is in one fragment and in no other.
THEOREM FragmentsTile ==
  ASSUME NEW size \in 1 .. UINT16 - 1, NEW max \in Nat \ {0}
  PROVE  LET n       == Turns(size, max)
             At(i)   == (i - 1) * max
             In(p, i) == At(i) < p /\ p =< At(i) + FragmentSizes(size, max)[i]
         IN  /\ n \in Nat \ {0} /\ At(1) = 0
             /\ \A i \in 1 .. n : FragmentSizes(size, max)[i] \in 1 .. max
             /\ \A i \in 1 .. n :
                  /\ Continues(At(i), size)
                  /\ i < n => AfterTurn(At(i), size, max) = At(i + 1)
                  /\ i = n => /\ AfterTurn(At(i), size, max) = size
                             /\ ~ Continues(AfterTurn(At(i), size, max), size)
             /\ \A p \in 1 .. size : \E i \in 1 .. n :
                  In(p, i) /\ \A j \in 1 .. n : In(p, j) => j = i
<1> DEFINE n       == Turns(size, max)
           At(i)   == (i - 1) * max
           F(i)    == fragment_size(At(i), size, max)
<1>1. size \in Nat \ {0} /\ size < UINT16 /\ UINT16 \in Nat \ {0}
  BY Uint16
<1>2. n \in Nat \ {0} /\ At(n) < size /\ size =< At(n) + max
  BY <1>1, LastTurn
<1>3. \A i \in 1 .. n : FragmentSizes(size, max)[i] = F(i)
  BY DEF FragmentSizes
<1>4. ASSUME NEW i \in 1 .. n
      PROVE  /\ At(i) \in Nat /\ At(i) < size
             /\ F(i) \in 1 .. max /\ At(i) + F(i) =< size
             /\ i < n => F(i) = max /\ At(i) + F(i) = i * max /\ i * max < size
             /\ i = n => At(i) + F(i) = size
             /\ AfterTurn(At(i), size, max) = At(i) + F(i)
  BY <1>4, OneTurn
<1> HIDE DEF n, F
<1>5. At(1) = 0
  OBVIOUS
<1>6. \A i \in 1 .. n : At(i + 1) = i * max
  BY <1>2
<1> HIDE DEF At
<1>7. ASSUME NEW i \in 1 .. n
      PROVE  /\ Continues(At(i), size)
             /\ i < n => AfterTurn(At(i), size, max) = At(i + 1)
             /\ i = n => /\ AfterTurn(At(i), size, max) = size
                        /\ ~ Continues(AfterTurn(At(i), size, max), size)
  <2>1. Continues(At(i), size)
    BY <1>4 DEF Continues
  <2>2. i < n => AfterTurn(At(i), size, max) = At(i + 1)
    BY <1>4, <1>6, Zenon
  <2>3. i = n => AfterTurn(At(i), size, max) = size
    BY <1>4, Zenon
  <2>4. ~ Continues(size, size)
    BY <1>1 DEF Continues
  <2> QED
    BY <2>1, <2>2, <2>3, <2>4, Zenon
<1>8. ASSUME NEW p \in 1 .. size
      PROVE  \E i \in 1 .. n : /\ At(i) < p /\ p =< At(i) + F(i)
                              /\ \A j \in 1 .. n : At(j) < p /\ p =< At(j) + F(j) => j = i
  <2> DEFINE q == (p - 1) \div max
             r == (p - 1) % max
             i == q + 1
  <2>1. p - 1 = max * q + r /\ r \in 0 .. max - 1 /\ q \in Nat
    <3>1. p - 1 \in Nat
      BY <1>1
    <3> QED
      BY <3>1, DivMod
  <2> HIDE DEF q, r
  <2>2. max * q = At(i) /\ At(i) \in Nat
    BY <2>1 DEF At
  <2>3. At(i) < p /\ p =< At(i) + max
    BY <2>1, <2>2, <1>1
  <2>4. i \in 1 .. n
    <3> SUFFICES ASSUME n =< q PROVE FALSE
      BY <2>1, <1>2
    <3>1. n * max =< q * max
      BY <1>2, <2>1, Multiples
    <3>2. q * max = At(i) /\ n * max = At(n) + max
      BY <2>1, <1>2 DEF At
    <3>3. At(n) \in Int
      BY <1>2 DEF At
    <3> QED
      BY <3>1, <3>2, <3>3, <2>2, <2>3, <1>1, <1>2
  <2>5. p =< At(i) + F(i)
    <3>1. CASE i = n
      BY <3>1, <2>4, <1>1, <1>4
    <3>2. CASE i < n
      BY <3>2, <2>3, <2>4, <1>4
    <3> QED
      BY <3>1, <3>2, <2>4, <1>2
  <2>6. ASSUME NEW j \in 1 .. n, At(j) < p, p =< At(j) + F(j)
        PROVE  j = i
    <3>1. At(j) \in Nat /\ p =< At(j) + max /\ j \in Nat \ {0}
      BY <2>6, <1>2, <1>1, <1>4
    <3>2. CASE j < i
      <4>1. (j - 1 + 1) * max =< q * max
        BY <3>1, <3>2, <2>1, Multiples
      <4>2. (j - 1 + 1) * max = At(j) + max /\ q * max = At(i)
        BY <3>1, <2>1 DEF At
      <4> QED
        BY <4>1, <4>2, <3>1, <2>2, <2>3, <1>1
    <3>3. CASE i < j
      <4>1. (q + 1) * max =< (j - 1) * max
        BY <3>1, <3>3, <2>1, Multiples
      <4>2. (q + 1) * max = At(i) + max /\ (j - 1) * max = At(j)
        BY <3>1, <2>1 DEF At
      <4> QED
        BY <4>1, <4>2, <3>1, <2>2, <2>3, <2>6, <1>1
    <3> QED
      BY <3>1, <3>2, <3>3, <2>1
  <2> HIDE DEF i
  <2> QED
    BY <2>3, <2>4, <2>5, <2>6, Zenon
<1>9. \A i \in 1 .. n : FragmentSizes(size, max)[i] \in 1 .. max
  BY <1>3, <1>4, Zenon
<1>10. \A p \in 1 .. size : \E i \in 1 .. n :
         /\ At(i) < p /\ p =< At(i) + FragmentSizes(size, max)[i]
         /\ \A j \in 1 .. n :
              At(j) < p /\ p =< At(j) + FragmentSizes(size, max)[j] => j = i
  BY <1>3, <1>8, Zenon
<1> QED
  BY <1>2, <1>5, <1>7, <1>9, <1>10, Zenon DEF n, At

\* The bound of FragmentsTile is the loop's own: with 2^16 octets or more it never
\* stops, because no 16-bit serialized_size reaches the size.
THEOREM LargerNeverEnds ==
  ASSUME NEW size \in Nat, size >= UINT16, NEW max \in Nat \ {0},
         NEW serialized_size \in 0 .. UINT16 - 1
  PROVE  /\ Continues(serialized_size, size)
         /\ AfterTurn(serialized_size, size, max) \in 0 .. UINT16 - 1
<1>1. fragment_size(serialized_size, size, max) \in Nat
  <2>1. \A x \in Nat : x % UINT16 \in Nat
    BY Uint16
  <2>2. (IF max < size - serialized_size THEN max ELSE size - serialized_size) \in Nat
    BY Uint16
  <2> QED
    BY <2>1, <2>2, Zenon DEF fragment_size
<1>2. \A x \in Nat : x % UINT16 \in 0 .. UINT16 - 1
  BY Uint16
<1>3. serialized_size + fragment_size(serialized_size, size, max) \in Nat
  BY <1>1, Uint16
<1>4. AfterTurn(serialized_size, size, max) \in 0 .. UINT16 - 1
  BY <1>2, <1>3, Zenon DEF AfterTurn
<1>5. Continues(serialized_size, size)
  BY Uint16 DEF Continues
<1> QED
  BY <1>4, <1>5
=============================================================================

------------------------------- MODULE SeqNum -------------------------------
(***************************************************************************)
(* Serial-number arithmetic of class SeqNum (utils/SeqNum.hpp): 16-bit     *)
(* numbers that wrap around, ordered by the shorter way round the circle.  *)
(* Half stands for ADD_RANGE[1] + 1 = 2^15, so that MAX = 2 * Half = 2^16. *)
(***************************************************************************)
EXTENDS Integers

CONSTANT Half

ASSUME HalfAssumption == Half \in Nat /\ Half > 1

MAX == 2 * Half

SeqNums == 0..(MAX - 1)

\* operator<: neither a < b nor b < a holds at distance exactly Half.
Lt(a, b) ==
  /\ a # b
  /\ \/ a < b /\ b - a < Half
     \/ a > b /\ a - b > Half

Gt(a, b) == Lt(b, a)

Le(a, b) == ~ Gt(a, b)

Ge(a, b) == ~ Lt(a, b)

\* operator+= with an int: an addend outside ADD_RANGE leaves a unchanged.
Add(a, d) == IF d \in 0..(Half - 1) THEN (a + d) % MAX ELSE a

\* operator+= with a SeqNum: the same range test, in serial order.
AddSeq(a, b) == IF Ge(b, 0) /\ Le(b, Half - 1) THEN (a + b) % MAX ELSE a

\* operator++: by comparison with UINT16_MAX instead of a remainder.
Increment(a) == IF a = MAX - 1 THEN 0 ELSE a + 1

\* operator-= with a SeqNum: always defined, modulo MAX.
Sub(a, b) == IF b > a THEN a - b + MAX ELSE a - b

\* SeqNum(int): the conversion to uint16_t.
FromInt(i) == i % MAX
=============================================================================

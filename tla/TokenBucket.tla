---------------------------- MODULE TokenBucket -----------------------------
(***************************************************************************)
(* Class TokenBucket (utils/TokenBucket.hpp): the rate at which a read     *)
(* may send.  Time is counted in ticks, Second of them to a second; a      *)
(* bucket keeps the ticks since timestamp_ (age) instead of the time       *)
(* itself.  A bucket is never given a capacity by the agent, so that its   *)
(* capacity is its rate and an age of Second fills it.                     *)
(***************************************************************************)
EXTENDS Integers

CONSTANT Second

ASSUME SecondAssumption == Second \in Nat \ {0}

\* SIZE_MAX: a rate nobody reaches.  (rate_ * elapsed overflows 64 bits, and the quotient is still
\* larger than any sample.)
NoRate == 0

\* TokenBucket::TokenBucket
NewBucket(rate) == [rate |-> rate, tokens |-> rate, age |-> 0]

Least(a, b) == IF a < b THEN a ELSE b

\* What the bucket holds age ticks after timestamp_: size_t(rate_ * uint64_t(age) / 1000), of a
\* negative age a number of about 2^64 / 1000.
Tokens(bucket, age) ==
  IF age < 0 THEN bucket.rate ELSE Least(bucket.rate, bucket.tokens + (bucket.rate * age) \div Second)

\* The time to wait for required tokens: 1000 * (tokens_ - required_tokens) is unsigned and
\* wraps below zero, tokens_ being the smaller.  Divided by a rate of at least two it is more than
\* any timeout; a rate of one leaves it as it is, a negative number of milliseconds.
Waiting(bucket, required, timeout) ==
  IF bucket.rate = 1 THEN Least(Second * (bucket.tokens - required), timeout) ELSE timeout

\* Mutant: tokens are handed out without taking them from the bucket.
Bug_NotTaken(bucket, required, timeout) ==
  [granted |-> required <= bucket.rate, bucket |-> bucket, sleep |-> 0]

\* TokenBucket::consume_tokens: whether the tokens are granted, the bucket left and the ticks
\* slept before returning (at most 0: none).  Tokens to come are granted before the sleep.
consume_tokens(bucket, required, timeout) ==
  LET now  == Tokens(bucket, bucket.age)
      wait == Waiting(bucket, required, timeout)
      then == Tokens(bucket, bucket.age + wait)
  IN  CASE bucket.rate = NoRate -> [granted |-> TRUE, bucket |-> bucket, sleep |-> 0]
        [] bucket.rate # NoRate /\ required > bucket.rate ->
             [granted |-> FALSE, bucket |-> bucket, sleep |-> 0]
        [] bucket.rate # NoRate /\ required \in now + 1 .. bucket.rate ->
             [granted |-> then >= required, sleep |-> wait,
              bucket  |-> IF then >= required
                          THEN [bucket EXCEPT !.tokens = then - required, !.age = -wait]
                          ELSE bucket]
        [] OTHER -> [granted |-> TRUE, sleep |-> 0,
                     bucket  |-> [bucket EXCEPT !.tokens = now - required, !.age = 0]]

\* Time passing; a full bucket does not count it.
Older(bucket) == [bucket EXCEPT !.age = Least(Second, @ + 1)]
=============================================================================

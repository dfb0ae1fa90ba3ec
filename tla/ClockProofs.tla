---------------------------- MODULE ClockProofs ----------------------------
(***************************************************************************)
(* What the timers of the program rely on: differences of millis(), which  *)
(* counts modulo m, are right wherever it wraps around in between.         *)
(***************************************************************************)
EXTENDS Integers, TLAPS

\* The time between two readings of a clock.
LEMMA Difference ==
  ASSUME NEW m \in Nat \ {0}, NEW a \in 0 .. m - 1, NEW b \in 0 .. m - 1
  PROVE  (a - b) % m = IF a < b THEN a - b + m ELSE a - b
<1>1. ASSUME NEW x \in 0 .. m - 1 PROVE x % m = x
  OBVIOUS
<1>2. ASSUME NEW x \in -m .. -1 PROVE x % m = x + m
  OBVIOUS
<1>3. CASE a < b
  <2>1. a - b \in -m .. -1
    BY <1>3
  <2> QED BY <1>2, <1>3, <2>1
<1>4. CASE ~(a < b)
  <2>1. a - b \in 0 .. m - 1
    BY <1>4
  <2> QED BY <1>1, <1>4, <2>1
<1> QED BY <1>3, <1>4

\* A clock that goes on for less than a whole round.
LEMMA Advance ==
  ASSUME NEW m \in Nat \ {0}, NEW a \in 0 .. m - 1, NEW d \in 0 .. m - 1
  PROVE  (a + d) % m = IF a + d < m THEN a + d ELSE a + d - m
<1>1. CASE a + d < m
  <2>1. a + d \in 0 .. m - 1
    BY <1>1
  <2> QED BY <1>1, <2>1
<1>2. CASE ~(a + d < m)
  <2>1. a + d - m \in 0 .. m - 1 /\ a + d = 1 * m + (a + d - m)
    BY <1>2
  <2> QED BY <1>2, <2>1
<1> QED BY <1>1, <1>2

\* Unless it reaches m, the difference from an earlier reading grows with the
\* time.
LEMMA DifferenceGrows ==
  ASSUME NEW m \in Nat \ {0}, NEW t \in 0 .. m - 1, NEW since \in 0 .. m - 1,
         NEW d \in Nat, ((t - since) % m) + d < m
  PROVE  (((t + d) % m) - since) % m = ((t - since) % m) + d
<1>1. (t - since) % m = IF t < since THEN t - since + m ELSE t - since
  BY Difference
<1>2. d \in 0 .. m - 1
  BY <1>1
<1> DEFINE u == (t + d) % m
<1>3. u = IF t + d < m THEN t + d ELSE t + d - m
  BY <1>2, Advance
<1> HIDE DEF u
<1>4. u \in 0 .. m - 1
  BY <1>2, <1>3
<1>5. (u - since) % m = IF u < since THEN u - since + m ELSE u - since
  BY <1>4, Difference
<1>6. (u - since) % m = ((t - since) % m) + d
  BY <1>1, <1>2, <1>3, <1>5
<1> QED BY <1>6 DEF u
=============================================================================

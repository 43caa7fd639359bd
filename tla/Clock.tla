------------------------------- MODULE Clock -------------------------------
(***************************************************************************)
(* ticks_to_ns() of src/core/platform/clock.hpp: a count of ticks and a    *)
(* frequency to nanoseconds, in 64-bit integers.  Signed overflow is       *)
(* undefined, so the function is the mathematical one as long as none of   *)
(* its intermediate results leaves the type (Fits).  QPC never produces    *)
(* negative ticks and they are left out.                                   *)
(***************************************************************************)
EXTENDS Integers, TLAPS

Giga == 1000000000

MaxInt64 == 9223372036854775807

whole_seconds(ticks, freq) == ticks \div freq
remainder_ticks(ticks, freq) == ticks % freq

ticks_to_ns(ticks, freq) ==
  whole_seconds(ticks, freq) * Giga + (remainder_ticks(ticks, freq) * Giga) \div freq

\* Every product, and the sum, is an int64_t.
Fits(ticks, freq) ==
  /\ whole_seconds(ticks, freq) * Giga <= MaxInt64
  /\ remainder_ticks(ticks, freq) * Giga <= MaxInt64
  /\ ticks_to_ns(ticks, freq) <= MaxInt64

\* Up to here: 292 years, at frequencies up to 9 GHz.
MaxSeconds == 9223372035
MaxFreq == 9223372036

-----------------------------------------------------------------------------
\* Division is determined by its equation.
LEMMA DivisionIsUnique ==
  ASSUME NEW b \in Nat \ {0}, NEW q \in Nat, NEW s \in Nat, s < b
  PROVE  (q * b + s) \div b = q
<1> DEFINE n == q * b + s
<1>1. n \in Nat
  OBVIOUS
<1> HIDE DEF n
<1>2. n = b * (n \div b) + (n % b) /\ n \div b \in Int /\ n % b \in 0..(b - 1)
  BY <1>1
<1>3. n = q * b + s
  BY DEF n
<1> DEFINE d == n \div b
<1>4. d \in Int /\ b * d <= n /\ n < b * d + b
  BY <1>1, <1>2
<1> HIDE DEF d
<1>5. ~(d < q)
  <2> SUFFICES ASSUME d + 1 <= q PROVE FALSE
    BY <1>4
  <2>1. b * (d + 1) <= b * q
    BY <1>4
  <2> QED BY <2>1, <1>3, <1>4
<1>6. ~(d > q)
  <2> SUFFICES ASSUME q + 1 <= d PROVE FALSE
    BY <1>4
  <2>1. b * (q + 1) <= b * d
    BY <1>4
  <2> QED BY <2>1, <1>3, <1>4
<1> QED BY <1>3, <1>4, <1>5, <1>6 DEF d

\* Splitting the ticks into seconds and a remainder loses nothing: the result is
\* the quotient that the overflowing expression (ticks * 1e9) / freq stands for.
THEOREM TicksToNsExact ==
  ASSUME NEW ticks \in Nat, NEW freq \in Nat \ {0}
  PROVE  ticks_to_ns(ticks, freq) = (ticks * Giga) \div freq
<1> DEFINE w == ticks \div freq
           r == ticks % freq
           x == r * Giga
           q == x \div freq
           s == x % freq
<1>1. w \in Nat /\ r \in Nat /\ r < freq /\ ticks = w * freq + r
  OBVIOUS
<1>2. x \in Nat
  BY <1>1 DEF Giga
<1> HIDE DEF w, r
<1>3. q \in Nat /\ s \in Nat /\ s < freq /\ x = q * freq + s
  <2> HIDE DEF x
  <2> QED BY <1>2
<1> HIDE DEF q, s
<1>4. ticks * Giga = (w * Giga + q) * freq + s
  <2>1. ticks * Giga = (w * freq) * Giga + x
    BY <1>1 DEF Giga
  <2>2. (w * freq) * Giga = (w * Giga) * freq
    BY <1>1 DEF Giga
  <2>3. (w * Giga + q) * freq = (w * Giga) * freq + q * freq
    BY <1>1, <1>3 DEF Giga
  <2> QED BY <2>1, <2>2, <2>3, <1>1, <1>2, <1>3 DEF Giga
<1>5. w * Giga + q \in Nat
  BY <1>1, <1>3 DEF Giga
<1>6. (ticks * Giga) \div freq = w * Giga + q
  <2> DEFINE p == w * Giga + q
  <2>1. p \in Nat
    BY <1>5
  <2> HIDE DEF p
  <2>2. (p * freq + s) \div freq = p
    BY <2>1, <1>3, DivisionIsUnique
  <2> QED BY <2>2, <1>4 DEF p
<1> QED BY <1>6 DEF ticks_to_ns, whole_seconds, remainder_ticks, w, r, q

\* No intermediate result of ticks_to_ns() overflows, "for uptimes past a
\* century", as the comment above it claims.
THEOREM TicksToNsFits ==
  ASSUME NEW ticks \in Nat, NEW freq \in Nat \ {0}, freq <= MaxFreq,
         ticks \div freq <= MaxSeconds
  PROVE  Fits(ticks, freq)
<1> DEFINE w == ticks \div freq
           r == ticks % freq
           x == r * Giga
           q == x \div freq
<1>1. w \in Nat /\ w <= MaxSeconds /\ r \in Nat /\ r < freq
  OBVIOUS
<1> HIDE DEF w, r
<1>2. w * Giga <= MaxInt64 - Giga
  BY SMT, <1>1 DEF MaxSeconds, Giga, MaxInt64
<1>3. x \in Nat /\ x <= MaxInt64 /\ x < freq * Giga
  <2>1. r < MaxFreq
    BY SMT, <1>1 DEF MaxFreq
  <2> QED BY SMT, <2>1, <1>1 DEF MaxFreq, Giga, MaxInt64
<1>4. q \in Int /\ q * freq <= x
  <2> HIDE DEF x
  <2> QED BY <1>3
<1> HIDE DEF x, q
<1>5. q < Giga
  <2> SUFFICES ASSUME q >= Giga PROVE FALSE
    BY SMT, <1>4 DEF Giga
  <2>1. q * freq >= Giga * freq
    BY SMT, <1>4 DEF Giga
  <2> QED BY SMT, <2>1, <1>3, <1>4 DEF Giga
<1>6. w * Giga + q <= MaxInt64
  BY SMT, <1>1, <1>2, <1>4, <1>5 DEF Giga, MaxInt64
<1> QED
  BY SMT, <1>1, <1>2, <1>3, <1>6
  DEF Fits, ticks_to_ns, whole_seconds, remainder_ticks, w, r, x, q, MaxInt64, Giga

\* An interval between two readings of the counter is never negative.
THEOREM TicksToNsMonotonic ==
  ASSUME NEW s \in Nat, NEW t \in Nat, NEW freq \in Nat \ {0}, s <= t
  PROVE  ticks_to_ns(s, freq) <= ticks_to_ns(t, freq)
<1> DEFINE m == s * Giga
           n == t * Giga
<1>1. m \in Nat /\ n \in Nat /\ m <= n
  BY DEF Giga
<1> HIDE DEF m, n
<1>2. /\ m \div freq \in Int /\ n \div freq \in Int
      /\ freq * (m \div freq) <= m
      /\ n < freq * (n \div freq) + freq
  BY <1>1
<1> DEFINE a == m \div freq
           b == n \div freq
<1>3. a \in Int /\ b \in Int /\ freq * a < freq * b + freq
  BY <1>1, <1>2
<1> HIDE DEF a, b
<1>4. a <= b
  <2> SUFFICES ASSUME b + 1 <= a PROVE FALSE
    BY <1>3
  <2>1. freq * (b + 1) <= freq * a
    BY <1>3
  <2> QED BY <2>1, <1>3
<1> QED BY <1>4, TicksToNsExact DEF a, b, m, n

=============================================================================

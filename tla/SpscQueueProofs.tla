-------------------------- MODULE SpscQueueProofs --------------------------
(***************************************************************************)
(* Proofs about SpscQueue for every Capacity, every Modulus that is a      *)
(* multiple of it and at least twice as large, and every set of values.    *)
(***************************************************************************)
EXTENDS SpscQueue, SequenceTheorems, TLAPS

-----------------------------------------------------------------------------
(* Arithmetic of the counters *)

\* Quotient and remainder are unique.
LEMMA DivModUnique ==
  ASSUME NEW b \in Nat \ {0},
         NEW q1 \in Int, NEW r1 \in 0..(b-1),
         NEW q2 \in Int, NEW r2 \in 0..(b-1),
         b * q1 + r1 = b * q2 + r2
  PROVE  q1 = q2 /\ r1 = r2
<1>1. b * (q1 - q2) = r2 - r1
  OBVIOUS
<1>2. CASE q1 - q2 >= 1
  <2>1. b * (q1 - q2) >= b
    BY <1>2
  <2> QED
    BY <2>1, <1>1
<1>3. CASE q1 - q2 <= -1
  <2>1. b * (q1 - q2) <= -b
    BY <1>3
  <2> QED
    BY <2>1, <1>1
<1> QED
  BY <1>1, <1>2, <1>3

\* What subtraction of two counters computes, without the modulus.
LEMMA SubValue ==
  ASSUME NEW a \in Counter, NEW b \in Counter
  PROVE  /\ Sub(a, b) = IF a >= b THEN a - b ELSE a - b + Modulus
         /\ Sub(a, b) \in Counter
  BY CapacityAssumption DEF Counter, Sub

\* What adding less than a lap to a counter computes, without the modulus.
LEMMA AddValue ==
  ASSUME NEW a \in Counter, NEW k \in 0..Modulus
  PROVE  /\ (a + k) % Modulus = IF a + k < Modulus THEN a + k ELSE a + k - Modulus
         /\ (a + k) % Modulus \in Counter
  BY CapacityAssumption DEF Counter

\* What incrementing a counter computes, without the modulus.
LEMMA IncValue ==
  ASSUME NEW a \in Counter
  PROVE  /\ Inc(a) = IF a + 1 = Modulus THEN 0 ELSE a + 1
         /\ Inc(a) \in Counter
  BY CapacityAssumption DEF Counter, Inc

\* A wrapped counter selects the element the unwrapped one would have selected.
LEMMA SlotOfMod ==
  ASSUME NEW x \in 0..(2 * Modulus - 1)
  PROVE  Slot(x % Modulus) = x % Capacity
<1>1. PICK k \in Nat : Modulus = Capacity * k
  <2>1. Modulus = Capacity * (Modulus \div Capacity)
    BY CapacityAssumption
  <2>2. Modulus \div Capacity \in Nat
    BY CapacityAssumption
  <2> QED
    BY <2>1, <2>2
<1>2. CASE x < Modulus
  BY <1>2, CapacityAssumption DEF Slot
<1>3. CASE x >= Modulus
  <2>1. x % Modulus = x - Modulus
    BY <1>3, CapacityAssumption
  <2>2. x = Capacity * (x \div Capacity) + (x % Capacity)
    BY CapacityAssumption
  <2>3. x - Modulus = Capacity * ((x - Modulus) \div Capacity) + ((x - Modulus) % Capacity)
    BY CapacityAssumption
  <2>4. x = Capacity * (((x - Modulus) \div Capacity) + k) + ((x - Modulus) % Capacity)
    BY <1>1, <2>3, CapacityAssumption
  <2> DEFINE q1 == x \div Capacity
             q2 == ((x - Modulus) \div Capacity) + k
             r1 == x % Capacity
             r2 == (x - Modulus) % Capacity
  <2>5. /\ q1 \in Int /\ q2 \in Int
        /\ r1 \in 0..(Capacity - 1) /\ r2 \in 0..(Capacity - 1)
    BY CapacityAssumption, <1>1
  <2>6. Capacity * q1 + r1 = Capacity * q2 + r2
    BY <2>2, <2>4
  <2> HIDE DEF q1, q2, r1, r2
  <2>7. r1 = r2
    BY <2>5, <2>6, DivModUnique, CapacityAssumption
  <2> QED
    BY <2>1, <2>7 DEF Slot, r1, r2
<1> QED
  BY <1>2, <1>3, CapacityAssumption

\* Two positions less than Capacity apart are different elements of the array.
LEMMA NoAlias ==
  ASSUME NEW x \in Nat, NEW y \in Nat, x < y, y < x + Capacity
  PROVE  x % Capacity # y % Capacity
<1> SUFFICES ASSUME x % Capacity = y % Capacity
             PROVE  FALSE
  OBVIOUS
<1>1. /\ x = Capacity * (x \div Capacity) + (x % Capacity)
      /\ y = Capacity * (y \div Capacity) + (y % Capacity)
      /\ x \div Capacity \in Int /\ y \div Capacity \in Int
  BY CapacityAssumption
<1> DEFINE d == (y \div Capacity) - (x \div Capacity)
<1>2. y - x = Capacity * d
  BY <1>1, CapacityAssumption
<1>3. d \in Int
  BY <1>1
<1> HIDE DEF d
<1>4. CASE d <= 0
  <2>1. Capacity * d <= 0
    BY <1>3, <1>4, CapacityAssumption
  <2> QED
    BY <1>2, <2>1
<1>5. CASE d >= 1
  <2>1. Capacity * d >= Capacity
    BY <1>3, <1>5, CapacityAssumption
  <2> QED
    BY <1>2, <2>1, CapacityAssumption
<1> QED
  BY <1>3, <1>4, <1>5

-----------------------------------------------------------------------------
(* Type correctness *)

\* A load of the other thread's counter returns a counter, at least as recent as
\* the one last seen and at most as recent as the current one.
LEMMA VisibleValue ==
  ASSUME NEW seen \in Counter, NEW current \in Counter,
         NEW c \in Visible(seen, current)
  PROVE  /\ c \in Counter
         /\ Sub(c, seen) + Sub(current, c) = Sub(current, seen)
<1>1. PICK k \in 0..Sub(current, seen) : c = (seen + k) % Modulus
  BY DEF Visible
<1>2. Sub(current, seen) \in Counter
  BY SubValue
<1>3. k \in 0..Modulus
  BY <1>2, CapacityAssumption DEF Counter
<1>4. c \in Counter
  BY <1>1, <1>3, AddValue
<1>5. c = IF seen + k < Modulus THEN seen + k ELSE seen + k - Modulus
  BY <1>1, <1>3, AddValue
<1>6. /\ Sub(c, seen) = IF c >= seen THEN c - seen ELSE c - seen + Modulus
      /\ Sub(current, c) = IF current >= c THEN current - c ELSE current - c + Modulus
      /\ Sub(current, seen) =
           IF current >= seen THEN current - seen ELSE current - seen + Modulus
  BY <1>4, SubValue
<1>7. /\ seen \in Int /\ current \in Int /\ c \in Int /\ k \in Int /\ Modulus \in Int
      /\ 0 <= seen /\ seen < Modulus /\ 0 <= current /\ current < Modulus
      /\ 0 <= c /\ c < Modulus /\ 0 <= k
  BY <1>3, <1>4, CapacityAssumption DEF Counter
<1>8. k <= Sub(current, seen)
  BY <1>2, CapacityAssumption DEF Counter
<1> QED
  BY <1>4, <1>5, <1>6, <1>7, <1>8

\* A counter selects an element of the array.
LEMMA SlotType ==
  ASSUME NEW c \in Counter
  PROVE  Slot(c) \in Cells
  BY CapacityAssumption DEF Counter, Cells, Slot

\* A new queue has its types.
LEMMA TypeInit == Init => TypeOK
<1>1. 0 \in Counter
  BY CapacityAssumption DEF Counter
<1> QED
  BY <1>1, Zenon DEF Init, TypeOK, Elements

\* Every step of every thread keeps them.
LEMMA TypeStep == TypeOK /\ [Next]_vars => TypeOK'
<1> SUFFICES ASSUME TypeOK, [Next]_vars
             PROVE  TypeOK'
  OBVIOUS
<1> USE DEF TypeOK, producerVars, consumerVars, observerVars
<1>1. ASSUME NEW v \in Values, PushCall(v)
      PROVE  TypeOK'
  BY <1>1 DEF PushCall, Elements
<1>2. CASE PushLoad
  BY <1>2, VisibleValue, Zenon DEF PushLoad, Full, Elements
<1>3. CASE PushWrite
  BY <1>3, SlotType DEF PushWrite
<1>4. CASE PushThrow
  BY <1>4, SlotType, Zenon DEF PushThrow, Elements
<1>5. CASE PushPublish
  BY <1>5, IncValue DEF PushPublish, Elements
<1>6. CASE PopCall
  BY <1>6 DEF PopCall, Elements
<1>7. CASE PopLoad
  BY <1>7, VisibleValue DEF PopLoad, Empty
<1>8. CASE PopMove
  BY <1>8, SlotType DEF PopMove
<1>9. CASE PopPublish
  BY <1>9, IncValue DEF PopPublish
<1>10. CASE SizeByProducer
  BY <1>10, VisibleValue, SubValue DEF SizeByProducer, Size
<1>11. CASE SizeByConsumer
  BY <1>11, VisibleValue, SubValue DEF SizeByConsumer, Size
<1>12. CASE SizeLoadHead
  BY <1>12 DEF SizeLoadHead
<1>13. CASE SizeLoadTail
  BY <1>13, SubValue, CapacityAssumption DEF SizeLoadTail, Size, Counter
<1>14. CASE UNCHANGED vars
  BY <1>14 DEF vars
<1> QED
  BY <1>1, <1>2, <1>3, <1>4, <1>5, <1>6, <1>7, <1>8, <1>9, <1>10, <1>11,
     <1>12, <1>13, <1>14 DEF Next, Producer, Consumer, Observer

\* The counters stay machine integers and the array is never indexed out of
\* bounds, for every capacity and every counter width.
THEOREM TypeCorrect == Spec => []TypeOK
  BY TypeInit, TypeStep, PTL DEF Spec

-----------------------------------------------------------------------------
(* The inductive invariant *)

\* A counter is an integer of one lap.
LEMMA CounterRange ==
  ASSUME NEW a \in Counter
  PROVE  a \in Int /\ 0 <= a /\ a < Modulus /\ Modulus \in Int
  BY CapacityAssumption DEF Counter

\* Counting from b, a is Sub(a, b) steps ahead.
LEMMA AddSub ==
  ASSUME NEW a \in Counter, NEW b \in Counter
  PROVE  (b + Sub(a, b)) % Modulus = a
<1>1. Sub(a, b) = IF a >= b THEN a - b ELSE a - b + Modulus
  BY SubValue
<1>2. Sub(a, b) \in 0..Modulus
  BY <1>1, CounterRange
<1>3. (b + Sub(a, b)) % Modulus =
         IF b + Sub(a, b) < Modulus THEN b + Sub(a, b) ELSE b + Sub(a, b) - Modulus
  BY <1>2, AddValue
<1> QED
  BY <1>1, <1>3, CounterRange

\* Incrementing the minuend of two counters less than a lap apart.
LEMMA SubInc ==
  ASSUME NEW a \in Counter, NEW b \in Counter, Sub(a, b) < Modulus - 1
  PROVE  Sub(Inc(a), b) = Sub(a, b) + 1
<1> DEFINE i == Inc(a)
<1>1. i \in Counter /\ i = IF a + 1 = Modulus THEN 0 ELSE a + 1
  BY IncValue
<1> HIDE DEF i
<1>2. /\ Sub(a, b) = IF a >= b THEN a - b ELSE a - b + Modulus
      /\ Sub(i, b) = IF i >= b THEN i - b ELSE i - b + Modulus
  BY <1>1, SubValue
<1>3. Sub(i, b) = Sub(a, b) + 1
  BY <1>1, <1>2, CounterRange
<1> QED
  BY <1>3 DEF i

\* Incrementing the subtrahend of two counters that differ.
LEMMA IncSub ==
  ASSUME NEW a \in Counter, NEW b \in Counter, Sub(a, b) > 0
  PROVE  Sub(a, Inc(b)) = Sub(a, b) - 1
<1> DEFINE i == Inc(b)
<1>1. i \in Counter /\ i = IF b + 1 = Modulus THEN 0 ELSE b + 1
  BY IncValue
<1> HIDE DEF i
<1>2. /\ Sub(a, b) = IF a >= b THEN a - b ELSE a - b + Modulus
      /\ Sub(a, i) = IF a >= i THEN a - i ELSE a - i + Modulus
  BY <1>1, SubValue
<1>3. Sub(a, i) = Sub(a, b) - 1
  BY <1>1, <1>2, CounterRange
<1> QED
  BY <1>3 DEF i

\* Two counters are equal exactly when their difference is 0.
LEMMA SubZero ==
  ASSUME NEW a \in Counter, NEW b \in Counter
  PROVE  Sub(a, b) = 0 <=> a = b
<1>1. Sub(a, b) = IF a >= b THEN a - b ELSE a - b + Modulus
  BY SubValue
<1> QED
  BY <1>1, CounterRange

\* Distances add up as long as they stay within a lap.
LEMMA Chain ==
  ASSUME NEW a \in Counter, NEW b \in Counter, NEW c \in Counter,
         Sub(b, a) + Sub(c, b) < Modulus
  PROVE  Sub(c, a) = Sub(b, a) + Sub(c, b)
<1>1. /\ Sub(c, a) = IF c >= a THEN c - a ELSE c - a + Modulus
      /\ Sub(b, a) = IF b >= a THEN b - a ELSE b - a + Modulus
      /\ Sub(c, b) = IF c >= b THEN c - b ELSE c - b + Modulus
  BY SubValue
<1> QED
  BY <1>1, CounterRange

\* A counter on the way from a to c splits the distance.
LEMMA ChainSplit ==
  ASSUME NEW a \in Counter, NEW b \in Counter, NEW c \in Counter,
         Sub(b, a) <= Sub(c, a)
  PROVE  Sub(c, b) = Sub(c, a) - Sub(b, a)
<1>1. /\ Sub(c, a) = IF c >= a THEN c - a ELSE c - a + Modulus
      /\ Sub(b, a) = IF b >= a THEN b - a ELSE b - a + Modulus
      /\ Sub(c, b) = IF c >= b THEN c - b ELSE c - b + Modulus
  BY SubValue
<1> QED
  BY <1>1, CounterRange

\* Adding in two steps or in one is the same.
LEMMA AddAdd ==
  ASSUME NEW a \in Counter, NEW i \in Nat, NEW j \in Nat, i + j < Modulus
  PROVE  (((a + i) % Modulus) + j) % Modulus = (a + (i + j)) % Modulus
<1> DEFINE b == (a + i) % Modulus
<1>1. i \in 0..Modulus /\ j \in 0..Modulus /\ i + j \in 0..Modulus
  BY CapacityAssumption
<1>2. b \in Counter /\ b = IF a + i < Modulus THEN a + i ELSE a + i - Modulus
  BY <1>1, AddValue
<1> HIDE DEF b
<1>3. /\ (b + j) % Modulus = IF b + j < Modulus THEN b + j ELSE b + j - Modulus
      /\ (a + (i + j)) % Modulus =
           IF a + (i + j) < Modulus THEN a + (i + j) ELSE a + (i + j) - Modulus
  BY <1>1, <1>2, AddValue
<1>4. (b + j) % Modulus = (a + (i + j)) % Modulus
  BY <1>1, <1>2, <1>3, CounterRange
<1> QED
  BY <1>4 DEF b

\* Positions i and j ahead of a counter, i before j and less than a capacity
\* apart, are different elements of the array.
LEMMA DistinctSlots ==
  ASSUME NEW a \in Counter, NEW i \in Nat, NEW j \in Nat,
         i < j, j < i + Capacity, j < Modulus
  PROVE  Slot((a + i) % Modulus) # Slot((a + j) % Modulus)
<1>1. a + i \in 0..(2 * Modulus - 1) /\ a + j \in 0..(2 * Modulus - 1)
  BY CounterRange
<1>2. /\ Slot((a + i) % Modulus) = (a + i) % Capacity
      /\ Slot((a + j) % Modulus) = (a + j) % Capacity
  BY <1>1, SlotOfMod
<1>3. a + i \in Nat /\ a + j \in Nat /\ a + i < a + j /\ a + j < (a + i) + Capacity
  BY CounterRange, CapacityAssumption
<1> QED
  BY <1>2, <1>3, NoAlias

\* A new queue satisfies the inductive invariant.
LEMMA IndInit == Init => IndInv
<1> SUFFICES ASSUME Init
             PROVE  IndInv
  OBVIOUS
<1>1. TypeOK
  BY TypeInit
<1>2. 0 \in Counter /\ Sub(0, 0) = 0
  BY CapacityAssumption, SubValue DEF Counter
<1>3. CountersInOrder
  BY <1>2, CapacityAssumption DEF Init, CountersInOrder
<1>4. TestsStillHold /\ LocalsHeld
  BY DEF Init, TestsStillHold, LocalsHeld
<1>5. SizeInRange
  BY CapacityAssumption DEF Init, SizeInRange
<1> QED
  BY <1>1, <1>3, <1>4, <1>5 DEF IndInv

\* The distances the invariant speaks of are natural numbers.
LEMMA Distances ==
  ASSUME TypeOK
  PROVE  /\ Sub(tail, ptail) \in Nat /\ Sub(chead, tail) \in Nat
         /\ Sub(head, chead) \in Nat /\ Sub(head, ptail) \in Nat
         /\ Sub(head, tail) \in Nat
<1>1. \A a, b \in Counter : Sub(a, b) \in Nat
  BY SubValue, CapacityAssumption DEF Counter
<1> QED
  BY <1>1 DEF TypeOK

\* The order of the counters keeps the two threads at different elements.
LEMMA OrderImpliesNoDataRace ==
  ASSUME TypeOK, CountersInOrder, TestsStillHold
  PROVE  NoDataRace
<1> DEFINE a == Sub(tail, ptail)
           b == Sub(chead, tail)
           n == Sub(head, ptail)
<1>1. a \in Nat /\ b \in Nat /\ n \in Nat /\ a + b <= n /\ n <= Capacity
  BY Distances DEF CountersInOrder
<1>2. ptail \in Counter /\ tail = (ptail + a) % Modulus /\ head = (ptail + n) % Modulus
  BY AddSub DEF TypeOK
<1> HIDE DEF a, b, n
<1>3. ASSUME NEW p \in ProducerOwns, NEW c \in ConsumerOwns
      PROVE  Slot(p) # Slot(c)
  <2>1. PICK k \in 0..(Capacity - n - 1) : p = (head + k) % Modulus
    BY DEF ProducerOwns, n
  <2>2. PICK j \in 0..(b - 1) : c = (tail + j) % Modulus
    BY DEF ConsumerOwns, b
  <2>3. /\ k \in Nat /\ j \in Nat /\ n + k < Modulus /\ a + j < Modulus
        /\ a + j < n + k /\ n + k < (a + j) + Capacity
        /\ n + k \in Nat /\ a + j \in Nat
    BY <1>1, CapacityAssumption
  <2>4. p = (ptail + (n + k)) % Modulus
    BY <1>1, <1>2, <2>1, <2>3, AddAdd
  <2>5. c = (ptail + (a + j)) % Modulus
    BY <1>1, <1>2, <2>2, <2>3, AddAdd
  <2> QED
    BY <1>2, <2>3, <2>4, <2>5, DistinctSlots
<1>4. ASSUME ppc \in {"write", "publish"}
      PROVE  head \in ProducerOwns
  <2>1. n < Capacity
    BY <1>4 DEF TestsStillHold, n
  <2>2. 0 \in 0..(Capacity - n - 1)
    BY <1>1, <2>1, CapacityAssumption
  <2>3. head = (head + 0) % Modulus
    BY AddValue, CounterRange DEF TypeOK
  <2> QED
    BY <2>2, <2>3 DEF ProducerOwns, n
<1>5. ASSUME cpc \in {"move", "publish"}
      PROVE  tail \in ConsumerOwns
  <2>1. b > 0
    BY <1>5 DEF TestsStillHold, b
  <2>2. 0 \in 0..(b - 1)
    BY <1>1, <2>1
  <2>3. tail = (tail + 0) % Modulus
    BY AddValue, CounterRange DEF TypeOK
  <2> QED
    BY <2>2, <2>3 DEF ConsumerOwns, b
<1> QED
  BY <1>3, <1>4, <1>5 DEF NoDataRace

\* A fresh load of tail_ moves the producer's view forward within the order.
LEMMA ProducerLoads ==
  ASSUME TypeOK, CountersInOrder,
         NEW c \in Visible(ptail, tail)
  PROVE  /\ c \in Counter
         /\ Sub(tail, c) + Sub(chead, tail) + Sub(head, chead) = Sub(head, c)
         /\ Sub(head, c) \in 0..Capacity
<1>1. /\ c \in Counter
      /\ Sub(c, ptail) + Sub(tail, c) = Sub(tail, ptail)
  BY VisibleValue DEF TypeOK
<1>2. Sub(c, ptail) \in Nat /\ Sub(tail, c) \in Nat
  BY <1>1, SubValue, CounterRange DEF TypeOK
<1>3. Sub(c, ptail) <= Sub(head, ptail)
  BY <1>1, <1>2, Distances DEF CountersInOrder
<1>4. Sub(head, c) = Sub(head, ptail) - Sub(c, ptail)
  BY <1>1, <1>3, ChainSplit DEF TypeOK
<1> QED
  BY <1>1, <1>2, <1>3, <1>4, Distances, CapacityAssumption DEF CountersInOrder

\* A fresh load of head_ moves the consumer's view forward within the order.
LEMMA ConsumerLoads ==
  ASSUME TypeOK, CountersInOrder,
         NEW c \in Visible(chead, head)
  PROVE  /\ c \in Counter
         /\ Sub(tail, ptail) + Sub(c, tail) + Sub(head, c) = Sub(head, ptail)
         /\ Sub(c, tail) \in 0..Capacity
<1>1. /\ c \in Counter
      /\ Sub(c, chead) + Sub(head, c) = Sub(head, chead)
  BY VisibleValue DEF TypeOK
<1>2. Sub(c, chead) \in Nat /\ Sub(head, c) \in Nat
  BY <1>1, SubValue, CounterRange DEF TypeOK
<1>3. Sub(chead, tail) + Sub(c, chead) < Modulus
  BY <1>1, <1>2, Distances, CapacityAssumption DEF CountersInOrder
<1>4. Sub(c, tail) = Sub(chead, tail) + Sub(c, chead)
  BY <1>1, <1>3, Chain DEF TypeOK
<1> QED
  BY <1>1, <1>2, <1>4, Distances, CapacityAssumption DEF CountersInOrder

\* Steps that change neither a counter nor a view keep them in order.
LEMMA OrderKept ==
  ASSUME CountersInOrder, UNCHANGED <<head, tail, ptail, chead>>
  PROVE  CountersInOrder'
  BY DEF CountersInOrder

\* Every step of every thread keeps the inductive invariant.
LEMMA IndStep == IndInv /\ [Next]_vars => IndInv'
<1> SUFFICES ASSUME IndInv, [Next]_vars
             PROVE  IndInv'
  OBVIOUS
<1> USE DEF producerVars, consumerVars, observerVars
<1>0. TypeOK /\ CountersInOrder /\ TestsStillHold /\ LocalsHeld /\ SizeInRange
  BY DEF IndInv
<1>t. TypeOK'
  BY <1>0, TypeStep
<1>r. NoDataRace
  BY <1>0, OrderImpliesNoDataRace
<1>1. ASSUME NEW v \in Values, PushCall(v)
      PROVE  IndInv'
  <2>1. CountersInOrder'
    BY <1>0, <1>1, OrderKept DEF PushCall
  <2> QED
    BY <1>0, <1>1, <1>t, <2>1, ValuesAssumption
    DEF IndInv, PushCall, TestsStillHold, LocalsHeld, SizeInRange
<1>2. CASE PushLoad
  <2>1. ptail' \in Visible(ptail, tail)
    BY <1>2 DEF PushLoad, Full
  <2>2. CountersInOrder'
    BY <1>0, <1>2, <2>1, ProducerLoads, CapacityAssumption DEF PushLoad, Full, CountersInOrder
  <2>3. TestsStillHold'
    <3>1. Sub(head, ptail') \in Nat /\ Capacity \in Nat
      BY <1>0, <2>1, ProducerLoads, CapacityAssumption
    <3> QED
      BY <1>0, <1>2, <3>1 DEF PushLoad, Full, TestsStillHold
  <2> QED
    BY <1>0, <1>2, <1>t, <2>2, <2>3 DEF IndInv, PushLoad, Full, LocalsHeld, SizeInRange
<1>3. CASE PushWrite
  <2>1. CountersInOrder'
    BY <1>0, <1>3, OrderKept DEF PushWrite
  <2>2. TestsStillHold'
    BY <1>0, <1>3 DEF PushWrite, TestsStillHold
  <2>3. LocalsHeld'
    BY <1>0, <1>3, SlotType DEF PushWrite, LocalsHeld, TypeOK
  <2> QED
    BY <1>0, <1>3, <1>t, <2>1, <2>2, <2>3 DEF IndInv, PushWrite, SizeInRange
<1>4. CASE PushThrow
  <2>1. CountersInOrder'
    BY <1>0, <1>4, OrderKept DEF PushThrow
  <2> QED
    BY <1>0, <1>4, <1>t, <2>1
    DEF IndInv, PushThrow, TestsStillHold, LocalsHeld, SizeInRange
<1>5. CASE PushPublish
  <2>1. Sub(head, ptail) < Capacity /\ head \in Counter /\ ptail \in Counter /\ chead \in Counter
    BY <1>0, <1>5 DEF PushPublish, TestsStillHold, TypeOK
  <2>2. Sub(head, ptail) < Modulus - 1 /\ Sub(head, chead) < Modulus - 1
    BY <1>0, <2>1, Distances, CapacityAssumption DEF CountersInOrder
  <2>3. Sub(head', ptail) = Sub(head, ptail) + 1 /\ Sub(head', chead) = Sub(head, chead) + 1
    BY <1>5, <2>1, <2>2, SubInc DEF PushPublish
  <2>4. CountersInOrder'
    BY <1>0, <1>5, <2>1, <2>3, Distances, CapacityAssumption
    DEF PushPublish, CountersInOrder
  <2> QED
    BY <1>0, <1>5, <1>t, <2>4
    DEF IndInv, PushPublish, TestsStillHold, LocalsHeld, SizeInRange
<1>6. CASE PopCall
  <2>1. CountersInOrder'
    BY <1>0, <1>6, OrderKept DEF PopCall
  <2> QED
    BY <1>0, <1>6, <1>t, <2>1
    DEF IndInv, PopCall, TestsStillHold, LocalsHeld, SizeInRange
<1>7. CASE PopLoad
  <2>1. chead' \in Visible(chead, head)
    BY <1>7 DEF PopLoad, Empty
  <2>2. CountersInOrder'
    BY <1>0, <1>7, <2>1, ConsumerLoads DEF PopLoad, Empty, CountersInOrder
  <2>3. cpc' = "move" => Sub(chead', tail) > 0
    <3>1. Sub(chead', tail) \in Nat /\ chead' \in Counter /\ tail \in Counter
      BY <1>0, <2>1, ConsumerLoads DEF TypeOK
    <3>2. cpc' = "move" => chead' # tail
      BY <1>7 DEF PopLoad, Empty
    <3> QED
      BY <3>1, <3>2, SubZero
  <2>4. TestsStillHold'
    BY <1>0, <1>7, <2>3 DEF PopLoad, Empty, TestsStillHold
  <2> QED
    BY <1>0, <1>7, <1>t, <2>2, <2>4 DEF IndInv, PopLoad, Empty, LocalsHeld, SizeInRange
<1>8. CASE PopMove
  <2>1. CountersInOrder'
    BY <1>0, <1>8, OrderKept DEF PopMove
  <2>2. TestsStillHold'
    BY <1>0, <1>8 DEF PopMove, TestsStillHold
  <2>3. ppc = "publish" => Slot(head) # Slot(tail)
    BY <1>8, <1>r DEF PopMove, NoDataRace
  <2>4. LocalsHeld'
    BY <1>0, <1>8, <2>3, SlotType DEF PopMove, LocalsHeld, TypeOK
  <2> QED
    BY <1>0, <1>8, <1>t, <2>1, <2>2, <2>4 DEF IndInv, PopMove, SizeInRange
<1>9. CASE PopPublish
  <2>1. Sub(chead, tail) > 0 /\ tail \in Counter /\ ptail \in Counter /\ chead \in Counter
    BY <1>0, <1>9 DEF PopPublish, TestsStillHold, TypeOK
  <2>2. Sub(tail, ptail) < Modulus - 1
    BY <1>0, <2>1, Distances, CapacityAssumption DEF CountersInOrder
  <2>3. Sub(tail', ptail) = Sub(tail, ptail) + 1 /\ Sub(chead, tail') = Sub(chead, tail) - 1
    BY <1>9, <2>1, <2>2, SubInc, IncSub DEF PopPublish
  <2>4. CountersInOrder'
    BY <1>0, <1>9, <2>3, Distances DEF PopPublish, CountersInOrder
  <2> QED
    BY <1>0, <1>9, <1>t, <2>4
    DEF IndInv, PopPublish, TestsStillHold, LocalsHeld, SizeInRange
<1>10. CASE SizeByProducer
  <2>1. ptail' \in Visible(ptail, tail)
    BY <1>10 DEF SizeByProducer, Size
  <2>2. CountersInOrder'
    BY <1>0, <1>10, <2>1, ProducerLoads, CapacityAssumption DEF SizeByProducer, Size, CountersInOrder
  <2>3. SizeInRange'
    BY <1>0, <1>10, <2>1, ProducerLoads DEF SizeByProducer, Size, SizeInRange
  <2> QED
    BY <1>0, <1>10, <1>t, <2>2, <2>3
    DEF IndInv, SizeByProducer, Size, TestsStillHold, LocalsHeld
<1>11. CASE SizeByConsumer
  <2>1. chead' \in Visible(chead, head)
    BY <1>11 DEF SizeByConsumer, Size
  <2>2. CountersInOrder'
    BY <1>0, <1>11, <2>1, ConsumerLoads DEF SizeByConsumer, Size, CountersInOrder
  <2>3. SizeInRange'
    BY <1>0, <1>11, <2>1, ConsumerLoads DEF SizeByConsumer, Size, SizeInRange
  <2> QED
    BY <1>0, <1>11, <1>t, <2>2, <2>3
    DEF IndInv, SizeByConsumer, Size, TestsStillHold, LocalsHeld
<1>12. CASE SizeLoadHead
  <2>1. CountersInOrder'
    BY <1>0, <1>12, OrderKept DEF SizeLoadHead
  <2> QED
    BY <1>0, <1>12, <1>t, <2>1
    DEF IndInv, SizeLoadHead, TestsStillHold, LocalsHeld, SizeInRange
<1>13. CASE SizeLoadTail
  <2>1. CountersInOrder'
    BY <1>0, <1>13, OrderKept DEF SizeLoadTail, Size
  <2> QED
    BY <1>0, <1>13, <1>t, <2>1
    DEF IndInv, SizeLoadTail, Size, TestsStillHold, LocalsHeld, SizeInRange
<1>14. CASE UNCHANGED vars
  <2>1. CountersInOrder'
    BY <1>0, <1>14, OrderKept DEF vars
  <2> QED
    BY <1>0, <1>14, <1>t, <2>1
    DEF IndInv, vars, TestsStillHold, LocalsHeld, SizeInRange
<1> QED
  BY <1>1, <1>2, <1>3, <1>4, <1>5, <1>6, <1>7, <1>8, <1>9, <1>10, <1>11,
     <1>12, <1>13, <1>14 DEF Next, Producer, Consumer, Observer

\* The inductive invariant holds in every reachable state: the four counters and
\* views stay in order, within one capacity, and a test made before a step still
\* holds after it.
THEOREM Inductive == Spec => []IndInv
  BY IndInit, IndStep, PTL DEF Spec

\* The two threads never touch the same element of the array without an
\* acquire/release pair in between, for every capacity and counter width.
THEOREM RaceFree == Spec => []NoDataRace
<1>1. IndInv => NoDataRace
  BY OrderImpliesNoDataRace DEF IndInv
<1> QED
  BY <1>1, Inductive, PTL

\* size_approx called by the producer or the consumer returns a possible size.
THEOREM SizeIsPossible == Spec => []SizeInRange
<1>1. IndInv => SizeInRange
  BY DEF IndInv
<1> QED
  BY <1>1, Inductive, PTL

-----------------------------------------------------------------------------
(* SpscQueue implements BoundedFifo *)

\* A function on 1..n with the entries of a sequence of length n is the sequence.
LEMMA SameSequence ==
  ASSUME NEW S, NEW t \in Seq(S), NEW f \in [1..Len(t) -> S],
         \A i \in 1..Len(t) : f[i] = t[i]
  PROVE  f = t
<1>1. t \in [1..Len(t) -> S]
  BY LenProperties
<1> QED
  BY <1>1

\* The array index of the i-th oldest element.
Cell(i) == Slot((tail + (i - 1)) % Modulus)

\* Contents is a sequence of as many elements as the counters are apart.
LEMMA ContentsShape ==
  ASSUME IndInv
  PROVE  /\ Sub(head, tail) \in 0..Capacity
         /\ Contents \in Seq(Elements)
         /\ Len(Contents) = Sub(head, tail)
         /\ DOMAIN Contents = 1..Sub(head, tail)
         /\ cpc \in {"move", "publish"} => Sub(head, tail) > 0
         /\ ppc \in {"write", "publish"} => Sub(head, tail) < Capacity
<1> DEFINE n == Sub(head, tail)
<1>1. n = Sub(chead, tail) + Sub(head, chead)
  <2>1. Sub(chead, tail) + Sub(head, chead) < Modulus
    BY Distances, CapacityAssumption DEF IndInv, CountersInOrder
  <2> QED
    BY <2>1, Chain DEF IndInv, TypeOK
<1>2. n \in Nat
  BY Distances DEF IndInv
<1>3. n \in 0..Capacity
  BY <1>1, <1>2, Distances, CapacityAssumption DEF IndInv, CountersInOrder
<1>4. cpc \in {"move", "publish"} => n > 0
  BY <1>1, Distances DEF IndInv, TestsStillHold
<1>5. ppc \in {"write", "publish"} => n < Capacity
  BY <1>1, Distances, CapacityAssumption DEF IndInv, TestsStillHold, CountersInOrder
<1>6. ASSUME NEW i \in 1..n
      PROVE  Cell(i) \in Cells
  <2>1. (tail + (i - 1)) % Modulus \in Counter
    BY <1>2, CounterRange, CapacityAssumption DEF IndInv, TypeOK, Counter
  <2> QED
    BY <2>1, SlotType DEF Cell
<1>7. Contents \in [1..n -> Elements]
  BY <1>6 DEF Contents, Cell, IndInv, TypeOK
<1> QED
  BY <1>2, <1>3, <1>4, <1>5, <1>7

\* The cells of the elements inside are different from each other and, when the
\* producer is at the array, from the cell it writes.
LEMMA CellsDiffer ==
  ASSUME IndInv
  PROVE  /\ \A i \in 2..Sub(head, tail) : Cell(i) # Slot(tail)
         /\ ppc \in {"write", "publish"} =>
              \A i \in 1..Sub(head, tail) : Cell(i) # Slot(head)
<1> DEFINE n == Sub(head, tail)
<1>1. /\ n \in 0..Capacity /\ tail \in Counter /\ head \in Counter
      /\ Capacity < Modulus /\ Capacity \in Nat
  BY ContentsShape, CapacityAssumption DEF IndInv, TypeOK
<1>2. (tail + 0) % Modulus = tail /\ (tail + n) % Modulus = head
  BY <1>1, AddValue, AddSub, CounterRange
<1>3. ppc \in {"write", "publish"} => n < Capacity
  BY ContentsShape
<1> HIDE DEF n
<1>4. ASSUME NEW i \in 2..n
      PROVE  Cell(i) # Slot(tail)
  <2>1. i - 1 \in Nat /\ 0 < i - 1 /\ i - 1 < 0 + Capacity /\ i - 1 < Modulus
    BY <1>1, CapacityAssumption
  <2>2. Slot((tail + 0) % Modulus) # Slot((tail + (i - 1)) % Modulus)
    BY <1>1, <2>1, DistinctSlots
  <2> QED
    BY <1>2, <2>2 DEF Cell
<1>5. ASSUME n < Capacity, NEW i \in 1..n
      PROVE  Cell(i) # Slot(head)
  <2>1. i - 1 \in Nat /\ n \in Nat /\ i - 1 < n /\ n < (i - 1) + Capacity /\ n < Modulus
    BY <1>1, <1>5, CapacityAssumption
  <2>2. Slot((tail + (i - 1)) % Modulus) # Slot((tail + n) % Modulus)
    BY <1>1, <2>1, DistinctSlots
  <2> QED
    BY <1>2, <2>2 DEF Cell
<1> QED
  BY <1>3, <1>4, <1>5 DEF n

\* Writing the element at head_ does not change what is inside.
LEMMA WriteKeepsContents ==
  ASSUME IndInv, ppc = "write", NEW w \in Elements,
         buffer' = [buffer EXCEPT ![Slot(head)] = w],
         UNCHANGED <<head, tail, cpc, result>>
  PROVE  Contents' = Contents
<1>1. \A i \in 1..Sub(head, tail) : Cell(i) # Slot(head)
  BY CellsDiffer
<1>2. Sub(head, tail)' = Sub(head, tail)
  BY DEF Sub
<1>3. \A i \in 1..Sub(head, tail) : buffer'[Cell(i)] = buffer[Cell(i)]
  BY <1>1 DEF IndInv, TypeOK
<1> QED
  BY <1>2, <1>3 DEF Contents, Cell

\* Moving the oldest element into result does not change what is inside.
LEMMA MoveKeepsContents ==
  ASSUME IndInv, PopMove
  PROVE  Contents' = Contents
<1>1. \A i \in 2..Sub(head, tail) : Cell(i) # Slot(tail)
  BY CellsDiffer
<1>2. Sub(head, tail)' = Sub(head, tail)
  BY DEF PopMove, Sub
<1>3. \A i \in 2..Sub(head, tail) : buffer'[Cell(i)] = buffer[Cell(i)]
  BY <1>1 DEF IndInv, TypeOK, PopMove
<1>4. Cell(1) = Slot(tail)
  BY AddValue, CounterRange, CapacityAssumption DEF Cell, IndInv, TypeOK
<1>5. Sub(head, tail) \in Nat
  BY ContentsShape
<1>6. \A i \in 1..Sub(head, tail) : i = 1 \/ i \in 2..Sub(head, tail)
  BY <1>5
<1>7. tail' = tail /\ cpc = "move" /\ cpc' = "publish" /\ result' = buffer[Slot(tail)]
  BY DEF PopMove
<1> DEFINE Old(i) == IF i = 1 /\ cpc = "publish" THEN result ELSE buffer[Cell(i)]
           New(i) == IF i = 1 /\ cpc' = "publish" THEN result' ELSE buffer'[Cell(i)]
<1>8. \A i \in 1..Sub(head, tail) : Old(i) = New(i)
  BY <1>3, <1>4, <1>6, <1>7
<1>9. /\ Contents = [i \in 1..Sub(head, tail) |-> Old(i)]
      /\ Contents' = [i \in 1..Sub(head, tail) |-> New(i)]
  BY <1>2, <1>7 DEF Contents, Cell
<1> QED
  BY <1>8, <1>9

\* Publishing head_ appends the pushed value.
LEMMA PublishAppends ==
  ASSUME IndInv, PushPublish
  PROVE  Contents' = Append(Contents, value)
<1> DEFINE n == Sub(head, tail)
<1>1. /\ n \in 0..Capacity /\ n < Capacity /\ tail \in Counter /\ head \in Counter
      /\ Contents \in Seq(Elements) /\ Len(Contents) = n /\ (cpc = "publish" => n > 0)
  BY ContentsShape DEF PushPublish, IndInv, TypeOK
<1>2. Sub(head', tail) = n + 1
  BY <1>1, SubInc, CapacityAssumption DEF PushPublish
<1> HIDE DEF n
<1>3. buffer[Cell(n + 1)] = value
  <2>1. (tail + n) % Modulus = head
    BY <1>1, AddSub DEF n
  <2>2. (n + 1) - 1 = n
    BY <1>1
  <2>3. buffer[Slot(head)] = value
    BY DEF IndInv, LocalsHeld, PushPublish
  <2> QED
    BY <2>1, <2>2, <2>3 DEF Cell
<1>4. Contents' = [i \in 1..(n + 1) |-> IF i = 1 /\ cpc = "publish" THEN result ELSE buffer[Cell(i)]]
  BY <1>2 DEF Contents, Cell, PushPublish, consumerVars
<1>5. Contents = [i \in 1..n |-> IF i = 1 /\ cpc = "publish" THEN result ELSE buffer[Cell(i)]]
  BY DEF Contents, Cell, n
<1>6. ~(n + 1 = 1 /\ cpc = "publish")
  BY <1>1
<1>7. value \in Elements
  BY DEF IndInv, TypeOK
<1>8. /\ Append(Contents, value) \in Seq(Elements)
      /\ Len(Append(Contents, value)) = n + 1
      /\ \A i \in 1..n : Append(Contents, value)[i] = Contents[i]
      /\ Append(Contents, value)[n + 1] = value
  BY <1>1, <1>7
<1>9. \A i \in 1..(n + 1) : Contents'[i] = Append(Contents, value)[i]
  <2> SUFFICES ASSUME NEW i \in 1..(n + 1)
               PROVE  Contents'[i] = Append(Contents, value)[i]
    BY Zenon
  <2>1. CASE i = n + 1
    BY <1>3, <1>4, <1>6, <1>8, <2>1
  <2>2. CASE i # n + 1
    <3>1. i \in 1..n
      BY <1>1, <2>2
    <3> QED
      BY <3>1, <1>4, <1>5, <1>8, Zenon
  <2> QED
    BY <2>1, <2>2, Zenon
<1>10. \A i \in 1..(n + 1) : Append(Contents, value)[i] \in Elements
  BY <1>8, ElementOfSeq
<1>11. Contents' \in [1..(n + 1) -> Elements]
  BY <1>4, <1>9, <1>10, Zenon
<1> QED
  BY <1>8, <1>9, <1>11, SameSequence

\* Publishing tail_ removes the oldest element, which result holds.
LEMMA PublishRemoves ==
  ASSUME IndInv, PopPublish
  PROVE  Contents # << >> /\ Contents' = Tail(Contents) /\ result = Head(Contents)
<1> DEFINE n == Sub(head, tail)
<1>1. /\ n \in 0..Capacity /\ n > 0 /\ tail \in Counter /\ head \in Counter
      /\ Contents \in Seq(Elements) /\ Len(Contents) = n
  BY ContentsShape DEF PopPublish, IndInv, TypeOK
<1>2. Sub(head, tail') = n - 1
  BY <1>1, IncSub DEF PopPublish
<1> HIDE DEF n
<1>3. \A i \in 1..(n - 1) : Slot((tail' + (i - 1)) % Modulus) = Cell(i + 1)
  <2> TAKE i \in 1..(n - 1)
  <2>1. /\ 1 \in Nat /\ i - 1 \in Nat /\ 1 + (i - 1) < Modulus
        /\ 1 + (i - 1) = (i + 1) - 1
    BY <1>1, CapacityAssumption
  <2>2. (((tail + 1) % Modulus) + (i - 1)) % Modulus = (tail + (1 + (i - 1))) % Modulus
    BY <1>1, <2>1, AddAdd
  <2> QED
    BY <2>1, <2>2 DEF Cell, PopPublish, Inc
<1>4. Contents' = [i \in 1..(n - 1) |-> buffer[Cell(i + 1)]]
  BY <1>2, <1>3 DEF Contents, PopPublish
<1>5. Contents = [i \in 1..n |-> IF i = 1 THEN result ELSE buffer[Cell(i)]]
  BY DEF Contents, Cell, n, PopPublish
<1>6. /\ Contents # << >>
      /\ Head(Contents) = Contents[1]
      /\ Tail(Contents) \in Seq(Elements)
      /\ Len(Tail(Contents)) = n - 1
      /\ \A i \in 1..(n - 1) : Tail(Contents)[i] = Contents[i + 1]
  BY <1>1
<1>7. Contents[1] = result
  BY <1>1, <1>5
<1>8. \A i \in 1..(n - 1) : Contents[i + 1] = buffer[Cell(i + 1)]
  BY <1>1, <1>5
<1>9. \A i \in 1..(n - 1) : Contents'[i] = Tail(Contents)[i]
  BY <1>4, <1>6, <1>8
<1>10. \A i \in 1..(n - 1) : Tail(Contents)[i] \in Elements
  BY <1>6, ElementOfSeq
<1>11. Contents' \in [1..(n - 1) -> Elements]
  BY <1>4, <1>9, <1>10, Zenon
<1>12. Contents' = Tail(Contents)
  BY <1>6, <1>9, <1>11, SameSequence
<1> QED
  BY <1>6, <1>7, <1>12

\* A new queue is an empty bounded FIFO.
LEMMA RefinementInit == Init => Fifo!Init
<1> SUFFICES ASSUME Init
             PROVE  Fifo!Init
  OBVIOUS
<1>1. IndInv
  BY IndInit
<1>2. Sub(head, tail) = 0
  BY SubValue, CapacityAssumption DEF Init, Counter
<1>3. Contents = << >>
  BY <1>1, <1>2, ContentsShape
<1> QED
  BY <1>3 DEF Init, Fifo!Init

\* Steps that leave the counters, the array and the consumer alone leave what is
\* inside alone.
LEMMA ContentsKept ==
  ASSUME UNCHANGED <<head, tail, buffer, cpc, result>>
  PROVE  Contents' = Contents
  BY DEF Contents, Sub, Slot

\* Outside of the last step of try_pop what is inside depends only on the
\* counters and the array.
LEMMA ContentsOutsidePop ==
  ASSUME UNCHANGED <<head, tail, buffer>>, cpc # "publish", cpc' # "publish"
  PROVE  Contents' = Contents
  BY DEF Contents, Sub, Slot

\* Every step of the ring buffer is a step of the FIFO or a stutter.
LEMMA RefinementStep == IndInv /\ [Next]_vars => [Fifo!Next]_(Fifo!vars)
<1> SUFFICES ASSUME IndInv, [Next]_vars
             PROVE  [Fifo!Next]_(Fifo!vars)
  OBVIOUS
<1> USE DEF producerVars, consumerVars, observerVars
<1>0. /\ TypeOK /\ LocalsHeld
      /\ Len(Contents) = Sub(head, tail)
      /\ ppc \in {"write", "publish"} => Sub(head, tail) < Capacity
  BY ContentsShape DEF IndInv
<1>1. ASSUME NEW v \in Values, PushCall(v)
      PROVE  Fifo!CallPush(v)
  <2>1. Contents' = Contents
    BY <1>1, ContentsKept DEF PushCall
  <2> QED
    BY <1>0, <1>1, <2>1 DEF PushCall, LocalsHeld, Fifo!CallPush
<1>2. CASE PushLoad
  <2>1. Contents' = Contents
    BY <1>2, ContentsKept DEF PushLoad, Full
  <2>2. CASE ppc' = "idle"
    <3>1. Fifo!Refuse
      BY <1>0, <1>2, <2>1, <2>2 DEF PushLoad, Full, LocalsHeld, Fifo!Refuse
    <3> QED
      BY <3>1 DEF Fifo!Next
  <2>3. CASE ppc' = "write"
    BY <1>2, <2>1, <2>3 DEF PushLoad, Full, Fifo!vars
  <2> QED
    BY <1>2, <2>2, <2>3 DEF PushLoad, Full
<1>3. CASE PushWrite
  <2>1. Contents' = Contents
    BY <1>0, <1>3, WriteKeepsContents, Zenon DEF PushWrite, TypeOK
  <2> QED
    BY <1>3, <2>1 DEF PushWrite, Fifo!vars
<1>4. CASE PushThrow
  <2>1. Contents' = Contents
    BY <1>4, WriteKeepsContents, Zenon DEF PushThrow
  <2>2. Fifo!Refuse
    BY <1>0, <1>4, <2>1 DEF PushThrow, LocalsHeld, Fifo!Refuse
  <2> QED
    BY <2>2 DEF Fifo!Next
<1>5. CASE PushPublish
  <2>1. Contents' = Append(Contents, value)
    BY <1>5, PublishAppends
  <2>2. Fifo!Enqueue
    BY <1>0, <1>5, <2>1 DEF PushPublish, LocalsHeld, Fifo!Enqueue
  <2> QED
    BY <2>2 DEF Fifo!Next
<1>6. CASE PopCall
  <2>1. Contents' = Contents
    BY <1>6, ContentsOutsidePop DEF PopCall
  <2>2. Fifo!CallPop
    BY <1>6, <2>1 DEF PopCall, Fifo!CallPop
  <2> QED
    BY <2>2 DEF Fifo!Next
<1>7. CASE PopLoad
  <2>1. Contents' = Contents
    BY <1>7, ContentsOutsidePop DEF PopLoad, Empty
  <2>2. CASE cpc' = "idle"
    <3>1. Fifo!ComeBackEmpty
      BY <1>7, <2>1, <2>2 DEF PopLoad, Empty, Fifo!ComeBackEmpty
    <3> QED
      BY <3>1 DEF Fifo!Next
  <2>3. CASE cpc' = "move"
    BY <1>7, <2>1, <2>3 DEF PopLoad, Empty, Fifo!vars
  <2> QED
    BY <1>7, <2>2, <2>3 DEF PopLoad, Empty
<1>8. CASE PopMove
  <2>1. Contents' = Contents
    BY <1>8, MoveKeepsContents
  <2> QED
    BY <1>0, <1>8, <2>1 DEF PopMove, LocalsHeld, Fifo!vars
<1>9. CASE PopPublish
  <2>1. Contents # << >> /\ Contents' = Tail(Contents) /\ result = Head(Contents)
    BY <1>9, PublishRemoves
  <2>2. Fifo!Dequeue
    BY <1>9, <2>1 DEF PopPublish, Fifo!Dequeue
  <2> QED
    BY <2>2 DEF Fifo!Next
<1>10. CASE SizeByProducer
  <2>1. Contents' = Contents
    BY <1>10, ContentsKept DEF SizeByProducer, Size
  <2> QED
    BY <1>10, <2>1 DEF SizeByProducer, Size, Fifo!vars
<1>11. CASE SizeByConsumer
  <2>1. Contents' = Contents
    BY <1>11, ContentsKept DEF SizeByConsumer, Size
  <2> QED
    BY <1>11, <2>1 DEF SizeByConsumer, Size, Fifo!vars
<1>12. CASE SizeLoadHead
  <2>1. Contents' = Contents
    BY <1>12, ContentsKept DEF SizeLoadHead
  <2> QED
    BY <1>12, <2>1 DEF SizeLoadHead, Fifo!vars
<1>13. CASE SizeLoadTail
  <2>1. Contents' = Contents
    BY <1>13, ContentsKept DEF SizeLoadTail, Size
  <2> QED
    BY <1>13, <2>1 DEF SizeLoadTail, Size, Fifo!vars
<1>14. CASE UNCHANGED vars
  <2>1. Contents' = Contents
    BY <1>14, ContentsKept DEF vars
  <2> QED
    BY <1>14, <2>1 DEF vars, Fifo!vars
<1> QED
  BY <1>1, <1>2, <1>3, <1>4, <1>5, <1>6, <1>7, <1>8, <1>9, <1>10, <1>11,
     <1>12, <1>13, <1>14 DEF Next, Producer, Consumer, Observer, Fifo!Next

\* try_push and try_pop implement the bounded FIFO queue: every step of the two
\* threads is a step of BoundedFifo or leaves it unchanged, whatever the capacity
\* and the counter width.
THEOREM FifoRefinement == Spec => ImplementsFifo
  BY Inductive, RefinementInit, RefinementStep, PTL DEF Spec, ImplementsFifo, Fifo!Spec

=============================================================================

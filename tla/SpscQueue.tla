----------------------------- MODULE SpscQueue -----------------------------
(***************************************************************************)
(* SpscQueue<T, Capacity> of include/bintrade/core/spsc_queue.hpp: one     *)
(* producer thread calls try_push, one consumer thread calls try_pop, and  *)
(* the two share nothing but two counters and an array.                    *)
(*                                                                         *)
(* head_ and tail_ are size_t counters that are never reduced: they wrap   *)
(* around at Modulus (2^64 in the build).  Every atomic access, and every  *)
(* access to the array, is a step of its own.                              *)
(*                                                                         *)
(* An acquire load of the other thread's counter may return any value the  *)
(* counter has had since the value this thread last saw (C++ read-read     *)
(* coherence), so ptail and chead are both the local variables of the      *)
(* code and the threads' views of memory.                                  *)
(***************************************************************************)
EXTENDS Integers, Sequences

CONSTANTS
  Values,       \* the elements T that are pushed
  NoValue,      \* std::nullopt and the initial array element
  Capacity,
  Modulus       \* the counters are unsigned integers modulo this

\* Both are powers of two, and the array of Capacity elements fits in memory.
ASSUME CapacityAssumption ==
  /\ Capacity \in Nat \ {0}
  /\ Modulus \in Nat
  /\ Modulus % Capacity = 0
  /\ Modulus >= 2 * Capacity

ASSUME ValuesAssumption == Values # {} /\ NoValue \notin Values

VARIABLES
  head,      \* head_
  tail,      \* tail_
  buffer,    \* buffer_
  ppc,       \* where the producer is in try_push
  value,     \* its argument
  ptail,     \* the value of tail_ it has loaded
  accepted,  \* what its last call returned
  cpc,       \* where the consumer is in try_pop
  chead,     \* the value of head_ it has loaded
  result,    \* the local variable result, later what the call returned
  opc,       \* where a third thread is in size_approx
  ohead,     \* the value of head_ it has loaded, later what the call returned
  size       \* what the last size_approx by one of the two threads returned

producerVars == <<ppc, value, ptail, accepted>>
consumerVars == <<cpc, chead, result>>
observerVars == <<opc, ohead, size>>
vars == <<head, tail, buffer, producerVars, consumerVars, observerVars>>

Counter == 0..(Modulus - 1)
Cells == 0..(Capacity - 1)
Elements == Values \cup {NoValue}

\* size_t arithmetic.
\* Mutant: the counter does not wrap.
IncNoWrap(c) == c + 1

Inc(c) == (c + 1) % Modulus
Sub(a, b) == (a - b) % Modulus

\* Mutant: the mask is one bit short.
SlotShortMask(c) == c % (Capacity - 1)

\* c & k_mask, for a power of two.
Slot(c) == c % Capacity

\* The values a load may return: from the one last seen to the current one.
Visible(seen, current) == {(seen + k) % Modulus : k \in 0..Sub(current, seen)}

Init ==
  /\ head = 0
  /\ tail = 0
  /\ buffer = [i \in Cells |-> NoValue]
  /\ ppc = "idle"
  /\ value = NoValue
  /\ ptail = 0
  /\ accepted = FALSE
  /\ cpc = "idle"
  /\ chead = 0
  /\ result = NoValue
  /\ opc = "idle"
  /\ ohead = 0
  /\ size = 0

-----------------------------------------------------------------------------
(* try_push *)

PushCall(v) ==
  /\ ppc = "idle"
  /\ ppc' = "load"
  /\ value' = v
  /\ UNCHANGED <<head, tail, buffer, ptail, accepted, consumerVars, observerVars>>

\* Mutant: the full test lets one element too many in.
FullOffByOne(h, t) == Sub(h, t) > Capacity

Full(h, t) == Sub(h, t) >= Capacity

\* The producer alone writes head_, so its relaxed load of it is exact.
PushLoad ==
  /\ ppc = "load"
  /\ ptail' \in Visible(ptail, tail)
  /\ \/ /\ Full(head, ptail')
        /\ ppc' = "idle"
        /\ value' = NoValue
        /\ accepted' = FALSE
     \/ /\ ~Full(head, ptail')
        /\ ppc' = "write"
        /\ UNCHANGED <<value, accepted>>
  /\ UNCHANGED <<head, tail, buffer, consumerVars, observerVars>>

PushWrite ==
  /\ ppc = "write"
  /\ buffer' = [buffer EXCEPT ![Slot(head)] = value]
  /\ ppc' = "publish"
  /\ UNCHANGED <<head, tail, value, ptail, accepted, consumerVars, observerVars>>

\* The copying overload is noexcept only when T's copy assignment is: the
\* assignment may throw, which leaves the element unspecified and ends the call.
PushThrow ==
  /\ ppc = "write"
  /\ \E w \in Elements : buffer' = [buffer EXCEPT ![Slot(head)] = w]
  /\ ppc' = "idle"
  /\ value' = NoValue
  /\ accepted' = FALSE
  /\ UNCHANGED <<head, tail, ptail, consumerVars, observerVars>>

PushPublish ==
  /\ ppc = "publish"
  /\ head' = Inc(head)
  /\ ppc' = "idle"
  /\ value' = NoValue
  /\ accepted' = TRUE
  /\ UNCHANGED <<tail, buffer, ptail, consumerVars, observerVars>>

-----------------------------------------------------------------------------
(* try_pop *)

PopCall ==
  /\ cpc = "idle"
  /\ cpc' = "load"
  /\ result' = NoValue
  /\ UNCHANGED <<head, tail, buffer, chead, producerVars, observerVars>>

\* Mutant: the last element counts as an empty queue.
EmptyOffByOne(h, t) == Sub(h, t) <= 1

Empty(h, t) == t = h

PopLoad ==
  /\ cpc = "load"
  /\ chead' \in Visible(chead, head)
  /\ \/ /\ Empty(chead', tail)
        /\ cpc' = "idle"
     \/ /\ ~Empty(chead', tail)
        /\ cpc' = "move"
  /\ UNCHANGED <<head, tail, buffer, result, producerVars, observerVars>>

\* The element is moved from: what is left in the array is unspecified.
PopMove ==
  /\ cpc = "move"
  /\ result' = buffer[Slot(tail)]
  /\ \E w \in Elements : buffer' = [buffer EXCEPT ![Slot(tail)] = w]
  /\ cpc' = "publish"
  /\ UNCHANGED <<head, tail, chead, producerVars, observerVars>>

PopPublish ==
  /\ cpc = "publish"
  /\ tail' = Inc(tail)
  /\ cpc' = "idle"
  /\ UNCHANGED <<head, buffer, chead, result, producerVars, observerVars>>

-----------------------------------------------------------------------------
(* size_approx, and empty which compares its result with 0 *)

\* Mutant: the operands of the subtraction are swapped.
SizeSwapped(h, t) == Sub(t, h)

Size(h, t) == Sub(h, t)

SizeByProducer ==
  /\ ppc = "idle"
  /\ ptail' \in Visible(ptail, tail)
  /\ size' = Size(head, ptail')
  /\ UNCHANGED <<head, tail, buffer, ppc, value, accepted, consumerVars, opc, ohead>>

SizeByConsumer ==
  /\ cpc = "idle"
  /\ chead' \in Visible(chead, head)
  /\ size' = Size(chead', tail)
  /\ UNCHANGED <<head, tail, buffer, producerVars, cpc, result, opc, ohead>>

\* A third thread's two loads; both return the latest value here.
SizeLoadHead ==
  /\ opc # "loaded"
  /\ ohead' = head
  /\ opc' = "loaded"
  /\ UNCHANGED <<head, tail, buffer, producerVars, consumerVars, size>>

SizeLoadTail ==
  /\ opc = "loaded"
  /\ ohead' = Size(ohead, tail)
  /\ opc' = "returned"
  /\ UNCHANGED <<head, tail, buffer, producerVars, consumerVars, size>>

-----------------------------------------------------------------------------

Producer ==
  \/ \E v \in Values : PushCall(v)
  \/ PushLoad
  \/ PushWrite
  \/ PushThrow
  \/ PushPublish
  \/ SizeByProducer

Consumer ==
  \/ PopCall
  \/ PopLoad
  \/ PopMove
  \/ PopPublish
  \/ SizeByConsumer

Observer == SizeLoadHead \/ SizeLoadTail

Next == Producer \/ Consumer \/ Observer

Spec == Init /\ [][Next]_vars

(***************************************************************************)
(* The consumer thread of the streams calls try_pop in a loop and keeps    *)
(* running; a store becomes visible to a thread that keeps loading.        *)
(***************************************************************************)
Fairness ==
  /\ WF_vars(PopCall)
  /\ WF_vars(PopLoad)
  /\ SF_vars(PopLoad /\ chead' = head)
  /\ WF_vars(PopMove)
  /\ WF_vars(PopPublish)

FairSpec == Spec /\ Fairness

-----------------------------------------------------------------------------
(* Properties *)

\* Every variable keeps its type: the counters stay machine integers and the
\* array is never indexed outside 0..Capacity-1.
TypeOK ==
  /\ head \in Counter
  /\ tail \in Counter
  /\ buffer \in [Cells -> Elements]
  /\ ppc \in {"idle", "load", "write", "publish"}
  /\ value \in Elements
  /\ ptail \in Counter
  /\ accepted \in BOOLEAN
  /\ cpc \in {"idle", "load", "move", "publish"}
  /\ chead \in Counter
  /\ result \in Elements
  /\ opc \in {"idle", "loaded", "returned"}
  /\ ohead \in Counter
  /\ size \in Counter

\* The positions each thread may access without hearing from the other again.
ProducerOwns == {(head + k) % Modulus : k \in 0..(Capacity - Sub(head, ptail) - 1)}
ConsumerOwns == {(tail + k) % Modulus : k \in 0..(Sub(chead, tail) - 1)}

\* No element of the array can be touched by both threads without an
\* acquire/release pair in between, which is what "No other synchronization is
\* required between the two threads" claims: the elements the producer may
\* still write on what it has seen of tail_ are none of those the consumer may
\* still move from on what it has seen of head_, and each is inside its own
\* share whenever it is at the array.
NoDataRace ==
  /\ \A p \in ProducerOwns : \A c \in ConsumerOwns : Slot(p) # Slot(c)
  /\ ppc \in {"write", "publish"} => head \in ProducerOwns
  /\ cpc \in {"move", "publish"} => tail \in ConsumerOwns

\* size_approx called by the producer or the consumer returns a number of
\* elements the queue can hold, also when the counters have wrapped around.
SizeInRange == size \in 0..Capacity

\* The same for a third thread, which "Approximate number of elements" (line 103)
\* does not exclude.  It does not hold: a push and a pop between the two loads
\* leave tail_ ahead of the loaded head_, and the difference wraps around.
SizeInRangeForThird == opc = "returned" => ohead \in 0..Capacity

\* The elements inside, oldest first: from tail_ up to head_.  While the
\* consumer holds the oldest one outside the array, it is result.
Contents ==
  [i \in 1..Sub(head, tail) |->
     IF i = 1 /\ cpc = "publish" THEN result
     ELSE buffer[Slot((tail + (i - 1)) % Modulus)]]

Fifo == INSTANCE BoundedFifo WITH
  queue <- Contents,
  pushing <- value,
  accepted <- accepted,
  popping <- (cpc # "idle"),
  popped <- IF cpc = "publish" THEN NoValue ELSE result

\* try_push and try_pop implement a bounded FIFO queue: nothing is lost,
\* duplicated or reordered between the two, and a refused push has no effect.
ImplementsFifo == Fifo!Spec

\* An element that is in the queue is eventually taken out by a consumer that
\* keeps calling try_pop.
OldestIsTaken == \A c \in Counter : (tail = c /\ head # c) ~> (tail # c)

-----------------------------------------------------------------------------
(* The inductive invariant behind NoDataRace, SizeInRange and ImplementsFifo *)

\* Around the ring come, in this order and within one capacity of each other,
\* tail_ as the producer has seen it, tail_, head_ as the consumer has seen it
\* and head_.
CountersInOrder ==
  /\ Sub(tail, ptail) + Sub(chead, tail) + Sub(head, chead) = Sub(head, ptail)
  /\ Sub(head, ptail) <= Capacity

\* A thread past its test still has what the test found: room for the producer,
\* an element for the consumer.
TestsStillHold ==
  /\ ppc \in {"write", "publish"} => Sub(head, ptail) < Capacity
  /\ cpc \in {"move", "publish"} => Sub(chead, tail) > 0

\* What the local variables hold at each point of the two calls.
LocalsHeld ==
  /\ value = NoValue <=> ppc = "idle"
  /\ ppc = "publish" => buffer[Slot(head)] = value
  /\ cpc \in {"load", "move"} => result = NoValue

IndInv ==
  /\ TypeOK
  /\ CountersInOrder
  /\ TestsStillHold
  /\ LocalsHeld
  /\ SizeInRange

=============================================================================

---------------------------- MODULE BoundedFifo ----------------------------
(***************************************************************************)
(* What a bounded single-producer single-consumer queue promises: values   *)
(* come out once each, in the order in which they were accepted, and at    *)
(* most Capacity of them are inside.  A push may be refused and a pop may  *)
(* come back empty-handed because the other thread's latest step need not  *)
(* be visible yet; neither then changes the queue.                         *)
(***************************************************************************)
EXTENDS Naturals, Sequences

CONSTANTS
  Values,    \* the elements that are pushed
  NoValue,   \* std::nullopt, and the contents of a moved-from element
  Capacity   \* the largest number of elements inside

VARIABLES
  queue,     \* the accepted elements not yet taken, oldest first
  pushing,   \* the value of the push in progress, NoValue when there is none
  accepted,  \* what the last finished push returned
  popping,   \* is a pop in progress?
  popped     \* what the last finished pop returned, if no pop has begun since

vars == <<queue, pushing, accepted, popping, popped>>

Init ==
  /\ queue = << >>
  /\ pushing = NoValue
  /\ accepted = FALSE
  /\ popping = FALSE
  /\ popped = NoValue

CallPush(v) ==
  /\ pushing = NoValue
  /\ pushing' = v
  /\ UNCHANGED <<queue, accepted, popping, popped>>

Enqueue ==
  /\ pushing # NoValue
  /\ Len(queue) < Capacity
  /\ queue' = Append(queue, pushing)
  /\ pushing' = NoValue
  /\ accepted' = TRUE
  /\ UNCHANGED <<popping, popped>>

Refuse ==
  /\ pushing # NoValue
  /\ pushing' = NoValue
  /\ accepted' = FALSE
  /\ UNCHANGED <<queue, popping, popped>>

CallPop ==
  /\ ~popping
  /\ popping' = TRUE
  /\ popped' = NoValue
  /\ UNCHANGED <<queue, pushing, accepted>>

Dequeue ==
  /\ popping
  /\ queue # << >>
  /\ queue' = Tail(queue)
  /\ popped' = Head(queue)
  /\ popping' = FALSE
  /\ UNCHANGED <<pushing, accepted>>

ComeBackEmpty ==
  /\ popping
  /\ popping' = FALSE
  /\ UNCHANGED <<queue, pushing, accepted, popped>>

Next ==
  \/ \E v \in Values : CallPush(v)
  \/ Enqueue
  \/ Refuse
  \/ CallPop
  \/ Dequeue
  \/ ComeBackEmpty

Spec == Init /\ [][Next]_vars

=============================================================================

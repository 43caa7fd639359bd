--------------------------- MODULE QueuedDispatch ---------------------------
(***************************************************************************)
(* QueueState, start_consumer() and stop_consumer() of the streams in      *)
(* DispatchMode::Queued (src/ws/market_stream.cpp and, with the same code, *)
(* src/ws/user_stream.cpp): the I/O thread pushes raw messages into a      *)
(* queue, a consumer thread takes them out and dispatches them.            *)
(*                                                                         *)
(* SpscQueue implements a bounded FIFO (module SpscQueue), so a push and a *)
(* pop are single steps here.  A push that is refused because the          *)
(* producer's view of the consumer is old counts as made a little earlier, *)
(* when the queue was full.                                                *)
(***************************************************************************)
EXTENDS Naturals, Sequences

CONSTANT QueueCapacity   \* k_queue_capacity

ASSUME QueueAssumption == QueueCapacity \in Nat \ {0}

VARIABLES
  queueState,  \* queue_state_: none, live, or freed with its owner
  queue,       \* the messages inside
  running,     \* running
  consumer,    \* where the consumer thread is
  joinable,    \* consumer_thread.joinable()
  taken,       \* the message it dispatches, as a sequence of at most one
  fate         \* fine, or how the process came to grief

queueVars == <<queueState, queue, running, consumer, joinable, taken>>

\* What becomes of a message that is dispatched: whether a callback is called
\* with it, given the event types that reach one.  The histories of the streams
\* are made of these.
Outcome(m, events) == [n |-> m.n, called |-> m.e \in events]
Outcomes(s, events) == [i \in DOMAIN s |-> Outcome(s[i], events)]

QueueInit ==
  /\ queueState = "none"
  /\ queue = <<>>
  /\ running = FALSE
  /\ consumer = "none"
  /\ joinable = FALSE
  /\ taken = <<>>

\* try_push() by the I/O thread; its result is ignored.
Pushed(q, m) == IF Len(q) < QueueCapacity THEN Append(q, m) ELSE q

\* Assigning a thread that is still joinable ends the process.
StartConsumer ==
  /\ queueState' = "live"
  /\ running' = TRUE
  /\ IF joinable
     THEN fate' = "terminated" /\ UNCHANGED <<consumer, joinable>>
     ELSE fate' = fate /\ consumer' = "test" /\ joinable' = TRUE
  /\ UNCHANGED <<queue, taken>>

\* Mutated: the consumer is left to itself.
MustJoinNever == FALSE

\* stop_consumer() joins only a consumer that it told to stop.
MustJoin == queueState = "live" /\ running

\* Mutated: the store is forgotten.
SignalStopForgotten == UNCHANGED queueVars

SignalStop ==
  /\ running' = (running /\ ~MustJoin)
  /\ UNCHANGED <<queueState, queue, consumer, joinable, taken>>

\* Mutated: the thread is detached.
JoinConsumerDetached ==
  /\ joinable' = FALSE
  /\ UNCHANGED <<queueState, queue, running, consumer, taken>>

JoinConsumer ==
  /\ joinable => consumer = "exited"
  /\ joinable' = FALSE
  /\ UNCHANGED <<queueState, queue, running, consumer, taken>>

\* Mutated: the consumer leaves without draining the queue.
OnceStoppedLeaves == "exited"

OnceStopped == "drain"

ConsumerTests ==
  /\ consumer = "test"
  /\ consumer' = IF running THEN "pop" ELSE OnceStopped
  /\ UNCHANGED <<queueState, queue, running, joinable, taken>>

\* Mutated: the consumer takes the message that was pushed last.
ConsumerPopsLast ==
  /\ queue # <<>>
  /\ \/ consumer = "pop" /\ consumer' = "dispatch"
     \/ consumer = "drain" /\ consumer' = "dispatchLast"
  /\ taken' = <<queue[Len(queue)]>>
  /\ queue' = SubSeq(queue, 1, Len(queue) - 1)
  /\ UNCHANGED <<queueState, running, joinable>>

\* try_pop(), in the loop and in the drain that follows it.
ConsumerPops ==
  /\ queue # <<>>
  /\ \/ consumer = "pop" /\ consumer' = "dispatch"
     \/ consumer = "drain" /\ consumer' = "dispatchLast"
  /\ taken' = <<Head(queue)>>
  /\ queue' = Tail(queue)
  /\ UNCHANGED <<queueState, running, joinable>>

ConsumerFindsNothing ==
  /\ queue = <<>>
  /\ \/ consumer = "pop" /\ consumer' = "test"
     \/ consumer = "drain" /\ consumer' = "exited"
  /\ UNCHANGED <<queueState, queue, running, joinable, taken>>

\* The consumer holds a pointer to the queue.
FateOfConsumer == IF queueState = "live" THEN fate ELSE "undefined"

\* The dispatch of the message returns.
ConsumerGoesOn ==
  /\ \/ consumer = "dispatch" /\ consumer' = "test"
     \/ consumer = "dispatchLast" /\ consumer' = "drain"
  /\ taken' = <<>>
  /\ UNCHANGED <<queueState, queue, running, joinable>>

=============================================================================

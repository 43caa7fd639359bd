----------------------------- MODULE UserStream -----------------------------
(***************************************************************************)
(* bintrade::ws::UserStream (src/ws/user_stream.cpp) and its variant       *)
(* TypedUserStream, over the session of ws::Client and the queue of        *)
(* DispatchMode::Queued: the application's thread, the keep-alive thread,  *)
(* the consumer thread and the I/O thread, and the listen keys the         *)
(* exchange holds for the account.                                         *)
(*                                                                         *)
(* Every listen key is a number, 0 the empty string.  A call of the REST   *)
(* API is one step: it succeeds, it is refused, or it is carried out and   *)
(* its answer is lost.  The 25 minutes of the keep-alive timer pass at any *)
(* moment.                                                                 *)
(***************************************************************************)
EXTENDS QueuedDispatch, WsSession

CONSTANTS
  Callbacks,    \* the choices of callbacks to set, or of methods of a handler
  AppMay,       \* the departures from the plain life cycle it may make
  MaxStarts,    \* bound on the calls of start()
  MaxMessages   \* bound on the messages that arrive

Events == {"executionReport", "outboundAccountPosition"}

ASSUME UserAssumption ==
  /\ Callbacks \subseteq SUBSET Events
  /\ AppMay \subseteq {"restart", "dropStarted", "stopInCallback"}
  /\ {MaxStarts, MaxMessages} \subseteq Nat

VARIABLES
  handles,     \* the callbacks that are set, or the methods a handler has
  credentials, \* credentials_.has_credentials()
  app,         \* where the application's thread is
  careless,    \* the departures it has made
  begun,       \* start() was called and no stop() has returned since
  starts,      \* how many times start() was called
  mode,        \* dispatch_mode_
  started,     \* started_
  listenKey,   \* listen_key_
  keepAlive,   \* where the keep-alive thread is
  kaJoinable,  \* keep_alive_thread_.joinable()
  stopKA,      \* stop_keep_alive_
  live,        \* the keys that the exchange holds for this stream
  lost,        \* the keys it holds and whose answer the stream never had
  handler,     \* on_message: none, queue, inline, or destroyed
  inbox,       \* the message the I/O thread handles, a sequence of at most one
  arrived,     \* how many messages have arrived
  kept,        \* what is due to the messages on_message kept, in order
  received     \* what became of those that were dispatched, in order

setVars == <<handles, credentials, mode, started, begun>>
keyVars == <<listenKey, live, lost>>
kaVars == <<keepAlive, kaJoinable, stopKA>>
messageVars == <<handler, inbox, arrived, kept, received>>
vars == <<setVars, app, careless, starts, keyVars, kaVars, messageVars,
          queueVars, sessionVars, fate>>

\* do_dispatch(), by table: which of the two callbacks an event goes to, if it
\* is set.  Anything else, and text that does not parse, is left aside.
Dispatch(m) == Outcome(m, Events \cap handles)

Init ==
  /\ SessionInit /\ QueueInit /\ fate = "fine"
  /\ handles \in Callbacks
  /\ credentials \in BOOLEAN /\ mode = "Inline" /\ started = FALSE
  /\ begun = FALSE
  /\ app = "idle" /\ careless = {} /\ starts = 0
  /\ listenKey = 0 /\ live = {} /\ lost = {}
  /\ keepAlive = "none" /\ kaJoinable = FALSE /\ stopKA = FALSE
  /\ handler = "none" /\ inbox = <<>>
  /\ arrived = 0 /\ kept = <<>> /\ received = <<>>

Fine == fate = "fine"

AppGoes(from, to) == Fine /\ app = from /\ app' = to

\* A step of a plain application, or a departure that AppMay allows.
Plainly(plain, departure) ==
  /\ plain \/ departure \in AppMay
  /\ careless' = IF plain THEN careless ELSE careless \cup {departure}

-----------------------------------------------------------------------------
(***************************************************************************)
(* start().                                                                *)
(***************************************************************************)
SetDispatchMode ==
  /\ Fine /\ app = "idle"
  /\ ~started
  /\ mode' = "Queued"
  /\ UNCHANGED <<handles, credentials, started, begun, app, careless, starts,
                 keyVars, kaVars, messageVars, queueVars, sessionVars, fate>>

\* create_listen_key(): a fresh key, an error with or without a key made, or
\* an answer that names no key.
CreateListenKey ==
  LET fresh == starts'
  IN  \/ /\ listenKey' = fresh /\ live' = live \cup {fresh}
         /\ app' = "starting" /\ lost' = lost
      \/ /\ app' = "idle" /\ listenKey' = listenKey
         /\ \/ UNCHANGED <<live, lost>>
            \/ live' = live \cup {fresh} /\ lost' = lost \cup {fresh}
      \/ /\ app' = "idle" /\ listenKey' = 0
         /\ UNCHANGED <<live, lost>>

Start ==
  /\ Fine /\ app = "idle"
  /\ credentials
  /\ starts < MaxStarts
  /\ starts' = starts + 1
  /\ Plainly(~begun, "restart")
  /\ started' = TRUE /\ begun' = TRUE
  /\ CreateListenKey
  /\ UNCHANGED <<handles, credentials, mode, kaVars, messageVars,
                 queueVars, sessionVars, fate>>

\* The callback is installed and, in queued mode, the consumer started; then
\* connect() begins, which ends the process if a thread exists already.
StartConnects ==
  /\ AppGoes("starting", "connecting")
  /\ IF mode = "Queued"
     THEN handler' = "queue" /\ StartConsumer
     ELSE /\ handler' = "inline"
          /\ fate' = IF thread = "none" THEN "fine" ELSE "terminated"
          /\ UNCHANGED queueVars
  /\ IF fate' = "fine" THEN ConnectCalls ELSE UNCHANGED sessionVars
  /\ UNCHANGED <<setVars, careless, starts, keyVars, kaVars, inbox, arrived, kept,
                 received>>

StartFails ==
  /\ AppGoes("connecting", "idle")
  /\ ConnectThrows
  /\ UNCHANGED <<setVars, careless, starts, keyVars, kaVars, messageVars, queueVars,
                 fate>>

\* connect() returns and the keep-alive thread is started.
StartReturns ==
  /\ AppGoes("connecting", "idle")
  /\ ConnectReturns
  /\ stopKA' = FALSE
  /\ keepAlive' = "testing" /\ kaJoinable' = TRUE
  /\ fate' = IF kaJoinable THEN "terminated" ELSE fate
  /\ UNCHANGED <<setVars, careless, starts, keyVars, messageVars, queueVars>>

-----------------------------------------------------------------------------
(***************************************************************************)
(* The keep-alive thread.  It holds the mutex when it tests, gives it up   *)
(* when it waits, and renews without it.                                   *)
(***************************************************************************)
KeepAliveTests ==
  /\ Fine
  /\ keepAlive = "testing"
  /\ keepAlive' = IF stopKA THEN "exited" ELSE "waiting"
  /\ UNCHANGED <<setVars, app, careless, starts, keyVars, kaJoinable, stopKA,
                 messageVars, queueVars, sessionVars, fate>>

\* wait_until() returns: notified (the predicate holds) or timed out.
KeepAliveWakes ==
  /\ Fine
  /\ keepAlive = "waiting"
  /\ keepAlive' = IF stopKA THEN "testing" ELSE "renewing"
  /\ UNCHANGED <<setVars, app, careless, starts, keyVars, kaJoinable, stopKA,
                 messageVars, queueVars, sessionVars, fate>>

\* keep_alive() and renew_listen_key().  The exchange may refuse, and refuses a
\* key it does not hold; the exception leaves the thread.
Renewed(k) == k = 0 \/ k \in live

KeepAliveRenews ==
  /\ Fine
  /\ keepAlive = "renewing"
  /\ \/ Renewed(listenKey) /\ keepAlive' = "testing" /\ fate' = fate
     \/ /\ listenKey # 0
        /\ keepAlive' = "exited"
        /\ fate' = IF listenKey \in live THEN "refused" ELSE "terminated"
  /\ UNCHANGED <<setVars, app, careless, starts, keyVars, kaJoinable, stopKA,
                 messageVars, queueVars, sessionVars>>

KeepAlive == KeepAliveTests \/ KeepAliveWakes \/ KeepAliveRenews

-----------------------------------------------------------------------------
(***************************************************************************)
(* stop().                                                                 *)
(***************************************************************************)
Unchanged(rest) == UNCHANGED <<handles, credentials, mode, started, starts, inbox,
                               arrived, kept, received, fate, rest>>

Stays(rest) == Unchanged(<<begun, careless, handler, rest>>)

Stop ==
  /\ Fine /\ app = "idle"
  /\ app' = IF MustJoin THEN "joinConsumer" ELSE "signal"
  /\ SignalStop
  /\ Stays(<<keyVars, kaVars, sessionVars>>)

StopJoinsConsumer ==
  /\ AppGoes("joinConsumer", "signal")
  /\ JoinConsumer
  /\ Stays(<<keyVars, kaVars, sessionVars>>)

StopSignals ==
  /\ AppGoes("signal", "joinKeepAlive")
  /\ keepAlive # "testing"
  /\ stopKA' = TRUE
  /\ Stays(<<keyVars, keepAlive, kaJoinable, queueVars, sessionVars>>)

\* Mutated: the thread is detached instead of joined.
JoinedKeepAliveDetached == kaJoinable' = FALSE

JoinedKeepAlive ==
  /\ kaJoinable => keepAlive = "exited"
  /\ kaJoinable' = FALSE

StopJoinsKeepAlive ==
  /\ AppGoes("joinKeepAlive", "deleting")
  /\ JoinedKeepAlive
  /\ Stays(<<keyVars, keepAlive, stopKA, queueVars, sessionVars>>)

\* Mutated: the key is forgotten, not deleted.
StopDeletesNothing ==
  /\ AppGoes("deleting", "closing")
  /\ listenKey' = 0
  /\ UNCHANGED <<live, lost>>
  /\ Stays(<<kaVars, queueVars, sessionVars>>)

\* delete_listen_key(): a failure is logged.
StopDeletes ==
  /\ AppGoes("deleting", "closing")
  /\ listenKey' = 0
  /\ \/ live' = live \ {listenKey} /\ lost' = lost
     \/ /\ listenKey # 0
        /\ live' = live /\ lost' = lost \cup {listenKey}
  /\ Stays(<<kaVars, queueVars, sessionVars>>)

StopDisconnects ==
  /\ AppGoes("closing", "disconnecting")
  /\ DisconnectCalls
  /\ Stays(<<keyVars, kaVars, queueVars>>)

StopReturns ==
  /\ AppGoes("disconnecting", "idle")
  /\ DisconnectReturns
  /\ begun' = FALSE
  /\ Unchanged(<<careless, handler, keyVars, kaVars, queueVars>>)

-----------------------------------------------------------------------------
(***************************************************************************)
(* The destructor: ~UserStream() ends the consumer; then the members go,   *)
(* keep_alive_thread_ first and queue_state_ later (a thread that is still *)
(* joinable ends the process), and ~Client destroys on_message before ws,  *)
(* which alone ends the I/O thread.                                        *)
(***************************************************************************)
Destroy ==
  /\ Fine /\ app = "idle"
  /\ Plainly(~begun, "dropStarted")
  /\ app' = IF MustJoin THEN "~joinConsumer" ELSE "~members"
  /\ SignalStop
  /\ Unchanged(<<begun, handler, keyVars, kaVars, sessionVars>>)

DestroyJoins ==
  /\ AppGoes("~joinConsumer", "~members")
  /\ JoinConsumer
  /\ Stays(<<keyVars, kaVars, sessionVars>>)

DestroyMembers ==
  /\ AppGoes("~members", "~unhook")
  /\ fate' = IF kaJoinable \/ joinable THEN "terminated" ELSE fate
  /\ queueState' = IF queueState = "live" THEN "freed" ELSE queueState
  /\ UNCHANGED <<setVars, careless, starts, keyVars, kaVars, messageVars, queue,
                 running, consumer, joinable, taken, sessionVars>>

DestroyUnhooks ==
  /\ AppGoes("~unhook", "~close")
  /\ handler' = "destroyed"
  /\ Unchanged(<<begun, careless, keyVars, kaVars, queueVars, sessionVars>>)

DestroyDisconnects ==
  /\ AppGoes("~close", "~disconnect")
  /\ DisconnectCalls
  /\ Stays(<<keyVars, kaVars, queueVars>>)

DestroyEnds ==
  /\ AppGoes("~disconnect", "gone")
  /\ DisconnectReturns
  /\ Stays(<<keyVars, kaVars, queueVars>>)

\* The steps of stop() and of the destructor, which once begun are carried on.
Winding ==
  \/ StopJoinsConsumer \/ StopSignals \/ StopJoinsKeepAlive \/ StopDeletes
  \/ StopDisconnects \/ StopReturns
  \/ DestroyJoins \/ DestroyMembers \/ DestroyUnhooks \/ DestroyDisconnects
  \/ DestroyEnds

-----------------------------------------------------------------------------
(***************************************************************************)
(* The I/O thread and the consumer.                                        *)
(***************************************************************************)
MessageArrives ==
  /\ Fine /\ arrived < MaxMessages
  /\ DeliversMessage
  /\ arrived' = arrived + 1
  /\ \E e \in Events \cup {"other"} : inbox' = <<[n |-> arrived + 1, e |-> e]>>
  /\ UNCHANGED <<setVars, app, careless, starts, keyVars, kaVars, handler, kept,
                 received, queueVars, fate>>

HandlerDefined ==
  /\ handler # "destroyed"
  /\ handler = "queue" => queueState = "live"

Queued(m) ==
  /\ queue' = Pushed(queue, m)
  /\ kept' = IF queue' # queue THEN Append(kept, Outcome(m, handles)) ELSE kept
  /\ received' = received

Inlined(m) ==
  /\ received' = Append(received, Dispatch(m))
  /\ kept' = Append(kept, Outcome(m, handles))
  /\ queue' = queue

HandleMessage ==
  /\ Fine /\ inbox # <<>>
  /\ CallbackReturns
  /\ inbox' = <<>>
  /\ \/ /\ HandlerDefined
        /\ fate' = fate
        /\ \/ handler = "queue" /\ Queued(inbox[1])
           \/ handler = "inline" /\ Inlined(inbox[1])
     \/ /\ ~HandlerDefined
        /\ fate' = "undefined"
        /\ UNCHANGED <<queue, kept, received>>
  /\ UNCHANGED <<setVars, app, careless, starts, keyVars, kaVars, handler, arrived,
                 queueState, running, consumer, joinable, taken>>

SessionGoesOn ==
  /\ Fine
  /\ Dialled("ok") \/ Dialled("error") \/ LoopHalts \/ LoopEnds
  /\ UNCHANGED <<setVars, app, careless, starts, keyVars, kaVars, messageVars,
                 queueVars, fate>>

Consume ==
  /\ Fine
  /\ \/ (ConsumerTests \/ ConsumerPops \/ ConsumerFindsNothing)
        /\ received' = received
     \/ ConsumerGoesOn /\ received' = Append(received, Dispatch(taken[1]))
  /\ fate' = FateOfConsumer
  /\ UNCHANGED <<setVars, app, careless, starts, keyVars, kaVars, handler, inbox,
                 arrived, kept, sessionVars>>

\* A callback on the consumer thread calls stop(): running is cleared, joining
\* itself throws, and do_dispatch() catches what the callback let go.
ConsumerStops ==
  /\ Fine
  /\ consumer \in {"dispatch", "dispatchLast"} /\ Dispatch(taken[1]).called
  /\ MustJoin
  /\ Plainly(FALSE, "stopInCallback")
  /\ SignalStop
  /\ UNCHANGED <<setVars, app, starts, keyVars, kaVars, messageVars, sessionVars,
                 fate>>

Next ==
  \/ SetDispatchMode \/ Start \/ StartConnects \/ StartFails \/ StartReturns
  \/ Stop \/ Destroy \/ Winding
  \/ KeepAlive \/ MessageArrives \/ HandleMessage \/ SessionGoesOn
  \/ Consume \/ ConsumerStops

Spec == Init /\ [][Next]_vars

(***************************************************************************)
(* Once stop() or the destructor has begun it goes on, and every thread    *)
(* that it waits for and that can move moves, the timer's included; the    *)
(* session's loop ends once disconnect() is called, as in module           *)
(* MarketStream.  Nothing obliges the application to call, start() to      *)
(* return or a message to arrive.                                          *)
(***************************************************************************)
Fairness ==
  /\ WF_vars(Winding)
  /\ SF_vars(StopSignals)
  /\ WF_vars(KeepAlive)
  /\ WF_vars(HandleMessage)
  /\ SF_vars(SessionGoesOn /\ thread' = "exited")
  /\ WF_vars(Consume)

FairSpec == Spec /\ Fairness

-----------------------------------------------------------------------------
(***************************************************************************)
(* Properties.                                                             *)
(***************************************************************************)
\* The type of every variable.
TypeOK ==
  /\ app \in {"idle", "starting", "connecting", "joinConsumer", "signal",
              "joinKeepAlive", "deleting", "closing", "disconnecting",
              "~joinConsumer", "~members", "~unhook", "~close", "~disconnect",
              "gone"}
  /\ {credentials, started, begun, stopKA, kaJoinable} \subseteq BOOLEAN
  /\ mode \in {"Inline", "Queued"}
  /\ keepAlive \in {"none", "testing", "waiting", "renewing", "exited"}
  /\ handler \in {"none", "queue", "inline", "destroyed"}
  /\ listenKey \in 0..MaxStarts
  /\ live \subseteq 1..MaxStarts /\ lost \subseteq live
  /\ Len(queue) <= QueueCapacity
  /\ fate \in {"fine", "terminated", "undefined", "refused"}

\* stop() has returned, or nothing was started.
AtRest == app = "idle" /\ ~begun

\* What the keep-alive thread renews is a key that the exchange holds for this
\* stream: stop() has not yet deleted or cleared it.  Since the thread reads
\* listen_key_ without the mutex, it is the joins that make this true.
RenewsLiveKey ==
  keepAlive = "renewing" /\ fate = "fine" /\ careless = {} => listenKey \in live

\* When stop() has returned the exchange holds no key of this stream, other
\* than those whose creation was never answered or whose deletion failed.
KeysAreReturned == AtRest /\ careless = {} => live = lost

\* When stop() has returned no thread of the stream runs.
RestIsQuiet ==
  AtRest /\ careless = {} =>
    /\ thread = "none"
    /\ consumer \in {"none", "exited"}
    /\ keepAlive \in {"none", "exited"}

\* A program that calls stop() before it starts a stream again or destroys it,
\* and not in a callback, never meets undefined behaviour and is never terminated
\* by the library, but for a renewal that the exchange refuses.  One that departs
\* from this may be terminated; only where it destroys a started stream can a
\* thread use what is gone.
PlainUseIsSafe ==
  /\ careless = {} => fate \in {"fine", "refused"}
  /\ fate = "undefined" => "dropStarted" \in careless

\* Every message that on_message kept is dispatched once and in the order of
\* arrival, also past a stop() and a later start(), and a callback is called with
\* exactly the events whose callback is set; the rest of them is in the queue or
\* being dispatched.  A message that arrived is not kept only where a queue was
\* filled: none is lost inline, and none before QueueCapacity were kept.
InOrder ==
  fate = "fine" =>
    /\ kept = received \o Outcomes(taken \o queue, handles)
    /\ \A i, j \in DOMAIN kept : i < j => kept[i].n < kept[j].n
    /\ \/ Len(kept) + Len(inbox) = arrived
       \/ mode = "Queued" /\ Len(kept) >= QueueCapacity

\* stop() returns.
StopEnds ==
  (app \in {"joinConsumer", "signal"} /\ careless = {}) ~> (AtRest \/ fate # "fine")

\* The drain leaves nothing behind: when stop() has returned, every event that
\* was kept has been dispatched.
StoppedIsDrained == AtRest /\ fate = "fine" => received = kept

\* A key that cannot be renewed does not end the process.
RefusalIsSurvived == fate # "refused"

=============================================================================

---------------------------- MODULE MarketStream ----------------------------
(***************************************************************************)
(* bintrade::ws::MarketStream (src/ws/market_stream.cpp) and its variant   *)
(* TypedMarketStream, over the session of ws::Client and the queue of      *)
(* DispatchMode::Queued: the application's thread, the I/O thread and the  *)
(* consumer thread, from the construction of a stream to its destruction.  *)
(*                                                                         *)
(* A message is its place in the order of arrival and its event type; the  *)
(* fields of an event are the subject of module Models.                    *)
(***************************************************************************)
EXTENDS QueuedDispatch, WsSession, Functions

CONSTANTS
  Methods,      \* the subscriptions whose method a typed handler has
  AppMay,       \* the departures from the plain life cycle it may make
  MaxMessages   \* bound on the messages that arrive

ASSUME MarketAssumption ==
  /\ Methods \subseteq {"trades", "klines", "ticker", "depth"}
  /\ AppMay \subseteq {"resubscribe", "move", "dropConnected"}
  /\ MaxMessages \in Nat

VARIABLES
  typed,       \* the stream is a TypedMarketStream
  app,         \* where the application's thread is
  careless,    \* the departures it has made
  mode,        \* dispatch_mode_
  subscribed,  \* subscribed_
  handler,     \* on_message: none, queue, inline, or destroyed
  kind,        \* the subscription the dispatch function is for
  moved,       \* the object whose address the handler holds was moved from
  path,        \* what connect() asked the exchange for
  inbox,       \* the message the I/O thread handles, a sequence of at most one
  arrived,     \* how many messages have arrived
  kept,        \* what is due to the messages on_message kept, in order
  received     \* what became of those that were dispatched, in order

streamVars == <<typed, app, careless, mode, subscribed, handler, kind, moved, path>>
messageVars == <<inbox, arrived, kept, received>>
vars == <<streamVars, messageVars, queueVars, sessionVars, fate>>

Kinds == {"trades", "klines", "ticker", "depth"}

\* lower(): the exchange knows its streams by lower-case names only.
Lower == [s \in {"BTCUSDT", "btcusdt"} |-> "btcusdt"]

StreamName(k, symbol) ==
  <<Lower[symbol],
    CASE k = "trades" -> "@trade"
      [] k = "klines" -> "@kline_1h"
      [] k = "ticker" -> "@ticker"
      [] k = "depth"  -> "@depth">>

\* The event types the exchange sends on its streams.
SentOn(p) ==
  CASE p = <<"btcusdt", "@trade">>    -> {"trade"}
    [] p = <<"btcusdt", "@kline_1h">> -> {"kline"}
    [] p = <<"btcusdt", "@ticker">>   -> {"24hrTicker"}
    [] p = <<"btcusdt", "@depth">>    -> {"depthUpdate"}
    [] OTHER -> {}

\* The event type a dispatch function lets through.
EventOf(k) ==
  CASE k = "trades" -> "trade"
    [] k = "klines" -> "kline"
    [] k = "ticker" -> "24hrTicker"
    [] k = "depth"  -> "depthUpdate"

\* A typed handler is called only if it has the method.
HasMethod == typed => kind \in Methods

\* dispatch_fn(): whether a message reaches the callback.  One that does not
\* parse and an event of another type are left aside.
Dispatch(m) == Outcome(m, IF HasMethod THEN {EventOf(kind)} ELSE {})

Init ==
  /\ SessionInit /\ QueueInit /\ fate = "fine"
  /\ typed \in BOOLEAN /\ app = "idle" /\ careless = {}
  /\ mode = "Inline" /\ subscribed = FALSE
  /\ handler = "none" /\ kind = "trades" /\ moved = FALSE
  /\ path = <<>>
  /\ inbox = <<>> /\ arrived = 0 /\ kept = <<>> /\ received = <<>>

-----------------------------------------------------------------------------
(***************************************************************************)
(* The application's thread.                                               *)
(***************************************************************************)
Idle == app = "idle" /\ call = "none" /\ fate = "fine"

\* A step of a plain application, or a departure that AppMay allows.
Plainly(plain, departure) ==
  /\ plain \/ departure \in AppMay
  /\ careless' = IF plain THEN careless ELSE careless \cup {departure}

SetDispatchMode ==
  /\ Idle /\ ~typed
  /\ ~subscribed
  /\ mode' = "Queued"
  /\ UNCHANGED <<typed, app, careless, subscribed, handler, kind, moved, path, messageVars,
                 queueVars, sessionVars, fate>>

\* The four subscribe functions: the dispatch function is installed, and then
\* connect() is called.  In queued mode the consumer starts before connect();
\* a session that has a thread already ends the process in connect().
Subscribe(k, symbol) ==
  /\ Idle /\ ~typed
  /\ Plainly(~subscribed, "resubscribe")
  /\ subscribed' = TRUE
  /\ kind' = k
  /\ path' = StreamName(k, symbol)
  /\ IF mode = "Queued"
     THEN handler' = "queue" /\ StartConsumer
     ELSE /\ handler' = "inline"
          /\ fate' = IF thread = "none" THEN "fine" ELSE "terminated"
          /\ UNCHANGED queueVars
  /\ IF fate' = "fine" THEN ConnectCalls ELSE UNCHANGED sessionVars
  /\ UNCHANGED <<typed, app, mode, moved, messageVars>>

TypedSubscribe(k, symbol) ==
  /\ Idle /\ typed
  /\ Plainly(handler = "none", "resubscribe")
  /\ kind' = k
  /\ path' = StreamName(k, symbol)
  /\ handler' = "inline"
  /\ IF thread = "none"
     THEN fate' = "fine" /\ ConnectCalls
     ELSE fate' = "terminated" /\ UNCHANGED sessionVars
  /\ UNCHANGED <<typed, app, mode, subscribed, moved, messageVars, queueVars>>

\* Client::disconnect().
Disconnect ==
  /\ Idle /\ DisconnectCalls
  /\ UNCHANGED <<streamVars, messageVars, queueVars, fate>>

\* The move constructor: impl_ and queue_state_ change their owner, and the
\* handler keeps the address of the old one.
Move ==
  /\ Idle
  /\ Plainly(handler = "none", "move")
  /\ moved' = (moved \/ handler # "none")
  /\ UNCHANGED <<typed, app, mode, subscribed, handler, kind, path, messageVars,
                 queueVars, sessionVars, fate>>

SessionReturns ==
  /\ fate = "fine"
  /\ app = "idle"
  /\ ConnectReturns \/ ConnectThrows \/ DisconnectReturns
  /\ UNCHANGED <<streamVars, messageVars, queueVars, fate>>

(***************************************************************************)
(* The destructor: ~MarketStream() ends the consumer, queue_state_ is      *)
(* freed (a joinable thread in it ends the process), then ~Client destroys *)
(* Impl, in which on_message goes before ws, and only ws ends the I/O      *)
(* thread.                                                                 *)
(***************************************************************************)
AppGoes(from, to) ==
  /\ fate = "fine" /\ app = from /\ app' = to
  /\ careless' = careless

Unchanged(rest) == UNCHANGED <<typed, mode, subscribed, kind, moved, path, messageVars,
                               fate, rest>>

Destroy ==
  /\ Idle
  /\ Plainly(thread = "none", "dropConnected")
  /\ app' = IF MustJoin THEN "joining" ELSE "freeing"
  /\ SignalStop
  /\ Unchanged(<<handler, sessionVars>>)

DestroyJoins ==
  /\ AppGoes("joining", "freeing")
  /\ JoinConsumer
  /\ Unchanged(<<handler, sessionVars>>)

DestroyFrees ==
  /\ AppGoes("freeing", "unhooking")
  /\ queueState' = IF queueState = "live" THEN "freed" ELSE queueState
  /\ fate' = IF joinable THEN "terminated" ELSE fate
  /\ UNCHANGED <<typed, mode, subscribed, kind, moved, path, messageVars, handler,
                 queue, running, consumer, joinable, taken, sessionVars>>

DestroyUnhooks ==
  /\ AppGoes("unhooking", "closing")
  /\ handler' = "destroyed"
  /\ Unchanged(<<queueVars, sessionVars>>)

DestroyDisconnects ==
  /\ AppGoes("closing", "disconnecting")
  /\ DisconnectCalls
  /\ Unchanged(<<handler, queueVars>>)

DestroyEnds ==
  /\ AppGoes("disconnecting", "gone")
  /\ DisconnectReturns
  /\ Unchanged(<<handler, queueVars>>)

Application ==
  \/ SetDispatchMode \/ Disconnect \/ Move \/ SessionReturns
  \/ \E k \in Kinds, symbol \in DOMAIN Lower :
       Subscribe(k, symbol) \/ TypedSubscribe(k, symbol)
  \/ Destroy \/ DestroyJoins \/ DestroyFrees \/ DestroyUnhooks
  \/ DestroyDisconnects \/ DestroyEnds

-----------------------------------------------------------------------------
(***************************************************************************)
(* The I/O thread.                                                         *)
(***************************************************************************)
\* The events the application subscribed to and has a callback for.
Wanted == IF HasMethod THEN SentOn(path) ELSE {}

\* A message of the exchange arrives: an event of the stream, or one that the
\* stream does not ask for (an answer, an error, text that does not parse).
MessageArrives ==
  /\ fate = "fine" /\ arrived < MaxMessages
  /\ DeliversMessage
  /\ arrived' = arrived + 1
  /\ \E e \in SentOn(path) \cup {"other"} : inbox' = <<[n |-> arrived + 1, e |-> e]>>
  /\ UNCHANGED <<streamVars, kept, received, queueVars, fate>>

\* The installed handler.  Through an object that was moved from, a function
\* that was destroyed or a queue that was freed, anything may happen.
HandlerDefined ==
  /\ ~moved
  /\ handler # "destroyed"
  /\ handler = "queue" => queueState = "live"

Queued(m) ==
  /\ queue' = Pushed(queue, m)
  /\ kept' = IF queue' # queue THEN Append(kept, Outcome(m, Wanted)) ELSE kept
  /\ received' = received

Inlined(m) ==
  /\ received' = Append(received, Dispatch(m))
  /\ kept' = Append(kept, Outcome(m, Wanted))
  /\ queue' = queue

HandleMessage ==
  /\ fate = "fine" /\ inbox # <<>>
  /\ CallbackReturns
  /\ inbox' = <<>>
  /\ \/ /\ HandlerDefined
        /\ fate' = fate
        /\ \/ handler = "queue" /\ Queued(inbox[1])
           \/ handler = "inline" /\ Inlined(inbox[1])
     \/ /\ ~HandlerDefined
        /\ fate' = "undefined"
        /\ UNCHANGED <<queue, kept, received>>
  /\ UNCHANGED <<streamVars, arrived, queueState, running, consumer, joinable,
                 taken>>

\* The steps of the session that the stream does not see.
SessionGoesOn ==
  /\ fate = "fine"
  /\ Dialled("ok") \/ Dialled("error") \/ LoopHalts \/ LoopEnds
  /\ UNCHANGED <<streamVars, messageVars, queueVars, fate>>

-----------------------------------------------------------------------------
(***************************************************************************)
(* The consumer thread.                                                    *)
(***************************************************************************)
Consume ==
  /\ fate = "fine"
  /\ \/ (ConsumerTests \/ ConsumerPops \/ ConsumerFindsNothing)
        /\ received' = received
     \/ ConsumerGoesOn /\ received' = Append(received, Dispatch(taken[1]))
  /\ fate' = FateOfConsumer
  /\ UNCHANGED <<streamVars, inbox, arrived, kept, sessionVars>>

Next ==
  Application \/ MessageArrives \/ HandleMessage \/ SessionGoesOn \/ Consume

Spec == Init /\ [][Next]_vars

(***************************************************************************)
(* Every thread that can move moves.  The session's loop ends once         *)
(* disconnect() is called, as module WebSocketClient shows of its own      *)
(* steps (DisconnectReturns there).                                        *)
(***************************************************************************)
Fairness ==
  /\ WF_vars(SessionReturns)
  /\ WF_vars(DestroyJoins \/ DestroyFrees \/ DestroyUnhooks
             \/ DestroyDisconnects \/ DestroyEnds)
  /\ WF_vars(HandleMessage)
  /\ WF_vars(thread = "dialling" /\ SessionGoesOn)
  /\ SF_vars(SessionGoesOn /\ thread' = "exited")
  /\ WF_vars(Consume)

FairSpec == Spec /\ Fairness

-----------------------------------------------------------------------------
(***************************************************************************)
(* Properties.                                                             *)
(***************************************************************************)
\* The type of every variable.
TypeOK ==
  /\ typed \in BOOLEAN
  /\ app \in {"idle", "joining", "freeing", "unhooking", "closing",
              "disconnecting", "gone"}
  /\ careless \subseteq AppMay
  /\ mode \in {"Inline", "Queued"}
  /\ handler \in {"none", "queue", "inline", "destroyed"}
  /\ kind \in Kinds
  /\ {subscribed, moved, running, joinable, halted} \subseteq BOOLEAN
  /\ arrived \in 0..MaxMessages
  /\ Len(queue) <= QueueCapacity
  /\ Len(taken) <= 1 /\ Len(inbox) <= 1
  /\ consumer \in {"none", "test", "pop", "dispatch", "drain", "dispatchLast",
                   "exited"}
  /\ queueState \in {"none", "live", "freed"}
  /\ fate \in {"fine", "terminated", "undefined"}

\* Every message that on_message kept is dispatched once and in the order of
\* arrival, and the callback is called with exactly the events of the subscribed
\* stream; the rest of them waits in the queue or is being dispatched.  A message
\* that arrived is not kept only where a queue was filled: none is lost inline,
\* and none before QueueCapacity were kept.  This holds of the event types
\* against what the exchange sends on each stream, of the inline and the queued
\* path, and of the drain.
InOrder ==
  fate = "fine" =>
    /\ kept = received \o Outcomes(taken \o queue, Wanted)
    /\ \A i, j \in DOMAIN kept : i < j => kept[i].n < kept[j].n
    /\ \/ Len(kept) + Len(inbox) = arrived
       \/ mode = "Queued" /\ Len(kept) >= QueueCapacity

\* A program that subscribes once, does not move a subscribed stream and calls
\* disconnect() before it destroys one never meets undefined behaviour and is
\* never terminated by the library.  Of one that departs from this, only a second
\* subscription can end the process, and it does nothing worse; only a move of a
\* subscribed stream or the destruction of a connected one can make a thread use
\* what is gone.
PlainUseIsSafe ==
  /\ careless = {} => fate = "fine"
  /\ fate = "terminated" => "resubscribe" \in careless
  /\ fate = "undefined" => careless \cap {"move", "dropConnected"} # {}

\* When the destructor returns no thread is left that could call the program,
\* and the drain has left nothing behind: in a plain program every message that
\* was kept has been dispatched.
GoneIsQuiet ==
  app = "gone" => /\ thread = "none" /\ consumer \in {"none", "exited"}
                  /\ careless = {} => received = kept

\* In a plain program every event that on_message kept reaches the callback,
\* even when disconnect() and the destructor come first.
KeptIsDelivered ==
  \A n \in 1..MaxMessages :
    LET Event == [n |-> n, called |-> TRUE]
    IN  (Event \in Range(kept)) ~> (Event \in Range(received) \/ careless # {})

\* The destructor returns.
DestructionEnds == (app = "joining") ~> (app = "gone" \/ fate # "fine")

\* Destroying a stream, connected or not, is clean: no thread uses what the
\* destructor has already freed.
DestructionIsClean == fate # "undefined"

=============================================================================

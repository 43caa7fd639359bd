------------------------- MODULE MarketStreamProofs -------------------------
(***************************************************************************)
(* Proofs about MarketStream, plain and typed, for every capacity of the   *)
(* queue and any number of messages: messages are dispatched once and in   *)
(* order, no thread outlives the destructor, and a program that subscribes *)
(* once, does not move a subscribed stream and disconnects before it       *)
(* destroys one is safe and is given all that was kept for it.             *)
(***************************************************************************)
EXTENDS MarketStream, SequenceTheorems, TLAPS

USE DEF Idle, AppGoes, streamVars, messageVars

-----------------------------------------------------------------------------
(* The invariant *)

\* However the stream is used, a consumer that runs can be joined, and past
\* stop_consumer() the destructor goes on only without one.
Joined ==
  /\ consumer \notin {"none", "exited"} => joinable
  /\ app = "unhooking" => ~joinable \/ fate # "fine"
  /\ app \in {"closing", "disconnecting", "gone"} => ~joinable
  /\ app = "gone" => thread = "none"

\* Nothing was subscribed to yet.
Unused == IF typed THEN handler = "none" ELSE ~subscribed

\* In plain use every thread has what it uses.
Plain ==
  careless = {} =>
    /\ fate = "fine"
    /\ ~moved
    /\ Unused => thread = "none" /\ ~joinable
    /\ app # "idle" => thread = "none"
    /\ running => joinable
    /\ joinable => queueState = "live" /\ (running \/ app = "joining")
    /\ app \in {"joining", "freeing"} => ~running
    /\ thread # "none" => /\ handler \in {"queue", "inline"}
                          /\ handler = "queue" => queueState = "live"

\* Without a second subscription no joinable thread is assigned or destroyed.
Single ==
  "resubscribe" \notin careless =>
    /\ fate # "terminated"
    /\ Unused => thread = "none" /\ ~joinable
    /\ running => joinable
    /\ joinable => queueState = "live" /\ (running \/ app = "joining")
    /\ app \in {"joining", "freeing"} => ~running

\* Without a move and with disconnect() before the destructor, subscribed to
\* once or more often, what a thread uses is there.
Settled ==
  "move" \notin careless /\ "dropConnected" \notin careless =>
    /\ fate # "undefined"
    /\ ~moved
    /\ app # "idle" => thread = "none"
    /\ joinable /\ fate = "fine" => queueState = "live"
    /\ thread # "none" => /\ handler \in {"queue", "inline"}
                          /\ handler = "queue" => queueState = "live"

-----------------------------------------------------------------------------
(* The steps *)

\* Every step keeps the consumer joinable until it is joined.
LEMMA JoinedStep ==
  ASSUME Joined, [Next]_vars
  PROVE  Joined'
<1>1. CASE Application
  <2>1. CASE SetDispatchMode
    BY <2>1 DEF SetDispatchMode, queueVars, sessionVars, Joined
  <2>2. CASE Disconnect
    BY <2>2 DEF Disconnect, DisconnectCalls, queueVars, sessionVars, Joined
  <2>3. CASE Move
    BY <2>3 DEF Move, Plainly, queueVars, sessionVars, Joined
  <2>4. CASE SessionReturns
    BY <2>4 DEF SessionReturns, ConnectReturns, ConnectThrows,
       DisconnectReturns, queueVars, sessionVars, Joined
  <2>5. CASE \E k \in Kinds, symbol \in DOMAIN Lower :
              Subscribe(k, symbol) \/ TypedSubscribe(k, symbol)
    BY <2>5 DEF Subscribe, TypedSubscribe, Plainly, StartConsumer,
       ConnectCalls, queueVars, sessionVars, Joined
  <2>6. CASE Destroy
    BY <2>6 DEF Destroy, Plainly, Unchanged, MustJoin, SignalStop, queueVars,
       sessionVars, Joined
  <2>7. CASE DestroyJoins
    BY <2>7 DEF DestroyJoins, Unchanged, JoinConsumer, queueVars, sessionVars,
       Joined
  <2>8. CASE DestroyFrees
    BY <2>8 DEF DestroyFrees, queueVars, sessionVars, Joined
  <2>9. CASE DestroyUnhooks
    BY <2>9 DEF DestroyUnhooks, Unchanged, queueVars, sessionVars, Joined
  <2>10. CASE DestroyDisconnects
    BY <2>10 DEF DestroyDisconnects, Unchanged, DisconnectCalls, queueVars,
       sessionVars, Joined
  <2>11. CASE DestroyEnds
    BY <2>11 DEF DestroyEnds, Unchanged, DisconnectReturns, queueVars,
       sessionVars, Joined
  <2> QED BY <1>1, <2>1, <2>2, <2>3, <2>4, <2>5, <2>6, <2>7, <2>8, <2>9, <2>10,
     <2>11 DEF Application
<1>2. CASE MessageArrives
  BY <1>2 DEF MessageArrives, DeliversMessage, queueVars, sessionVars, Joined
<1>3. CASE HandleMessage
  BY <1>3 DEF HandleMessage, HandlerDefined, Queued, Inlined, CallbackReturns,
     queueVars, sessionVars, Joined
<1>4. CASE SessionGoesOn
  BY <1>4 DEF SessionGoesOn, Dialled, LoopHalts, LoopEnds, queueVars,
     sessionVars, Joined
<1>5. CASE Consume
  BY <1>5 DEF Consume, ConsumerTests, OnceStopped, ConsumerPops,
     ConsumerFindsNothing, ConsumerGoesOn, FateOfConsumer, queueVars,
     sessionVars, Joined
<1>6. CASE UNCHANGED vars
  BY <1>6 DEF vars, queueVars, sessionVars, Joined
<1> QED BY <1>1, <1>2, <1>3, <1>4, <1>5, <1>6 DEF Next

\* A departure from the plain life cycle is not taken back.
LEMMA StaysCareless ==
  ASSUME [Next]_vars
  PROVE  careless \subseteq careless'
<1>1. CASE Application
  <2>1. CASE SetDispatchMode
    BY <2>1 DEF SetDispatchMode, queueVars, sessionVars
  <2>2. CASE Disconnect
    BY <2>2 DEF Disconnect, DisconnectCalls, queueVars, sessionVars
  <2>3. CASE Move
    BY <2>3 DEF Move, Plainly, queueVars, sessionVars
  <2>4. CASE SessionReturns
    BY <2>4 DEF SessionReturns, ConnectReturns, ConnectThrows,
       DisconnectReturns, queueVars, sessionVars
  <2>5. CASE \E k \in Kinds, symbol \in DOMAIN Lower :
              Subscribe(k, symbol) \/ TypedSubscribe(k, symbol)
    BY <2>5 DEF Subscribe, TypedSubscribe, Plainly, StartConsumer,
       ConnectCalls, queueVars, sessionVars
  <2>6. CASE Destroy
    BY <2>6 DEF Destroy, Plainly, Unchanged, MustJoin, SignalStop, queueVars,
       sessionVars
  <2>7. CASE DestroyJoins
    BY <2>7 DEF DestroyJoins, Unchanged, JoinConsumer, queueVars, sessionVars
  <2>8. CASE DestroyFrees
    BY <2>8 DEF DestroyFrees, queueVars, sessionVars
  <2>9. CASE DestroyUnhooks
    BY <2>9 DEF DestroyUnhooks, Unchanged, queueVars, sessionVars
  <2>10. CASE DestroyDisconnects
    BY <2>10 DEF DestroyDisconnects, Unchanged, DisconnectCalls, queueVars,
       sessionVars
  <2>11. CASE DestroyEnds
    BY <2>11 DEF DestroyEnds, Unchanged, DisconnectReturns, queueVars,
       sessionVars
  <2> QED BY <1>1, <2>1, <2>2, <2>3, <2>4, <2>5, <2>6, <2>7, <2>8, <2>9, <2>10,
     <2>11 DEF Application
<1>2. CASE MessageArrives
  BY <1>2 DEF MessageArrives, DeliversMessage, queueVars, sessionVars
<1>3. CASE HandleMessage
  BY <1>3 DEF HandleMessage, HandlerDefined, Queued, Inlined, CallbackReturns,
     queueVars, sessionVars
<1>4. CASE SessionGoesOn
  BY <1>4 DEF SessionGoesOn, Dialled, LoopHalts, LoopEnds, queueVars,
     sessionVars
<1>5. CASE Consume
  BY <1>5 DEF Consume, ConsumerTests, OnceStopped, ConsumerPops,
     ConsumerFindsNothing, ConsumerGoesOn, FateOfConsumer, queueVars,
     sessionVars
<1>6. CASE UNCHANGED vars
  BY <1>6 DEF vars, queueVars, sessionVars
<1> QED BY <1>1, <1>2, <1>3, <1>4, <1>5, <1>6 DEF Next

\* So a program that is plain after a step was plain before it.
LEMMA StaysPlain ==
  ASSUME [Next]_vars, careless' = {}
  PROVE  careless = {}
  BY StaysCareless

\* Every step of a plain program keeps it safe.
LEMMA PlainStep ==
  ASSUME Plain, Joined, careless = {}, [Next]_vars
  PROVE  Plain'
<1>1. CASE Application
  <2>1. CASE SetDispatchMode
    BY <2>1 DEF SetDispatchMode, queueVars, sessionVars, Plain, Joined, Unused
  <2>2. CASE Disconnect
    BY <2>2 DEF Disconnect, DisconnectCalls, queueVars, sessionVars, Plain,
       Joined, Unused
  <2>3. CASE Move
    BY <2>3, Zenon DEF Move, Plainly, queueVars, sessionVars, Plain, Joined, Unused
  <2>4. CASE SessionReturns
    BY <2>4 DEF SessionReturns, ConnectReturns, ConnectThrows,
       DisconnectReturns, queueVars, sessionVars, Plain, Joined, Unused
  <2>5. CASE \E k \in Kinds, symbol \in DOMAIN Lower :
              Subscribe(k, symbol) \/ TypedSubscribe(k, symbol)
    BY <2>5 DEF Subscribe, TypedSubscribe, Plainly, StartConsumer,
       ConnectCalls, queueVars, sessionVars, Plain, Joined, Unused
  <2>6. CASE Destroy
    BY <2>6, Zenon DEF Destroy, Plainly, Unchanged, MustJoin, SignalStop, queueVars,
       sessionVars, Plain, Joined, Unused
  <2>7. CASE DestroyJoins
    BY <2>7 DEF DestroyJoins, Unchanged, JoinConsumer, queueVars, sessionVars,
       Plain, Joined, Unused
  <2>8. CASE DestroyFrees
    BY <2>8 DEF DestroyFrees, queueVars, sessionVars, Plain, Joined, Unused
  <2>9. CASE DestroyUnhooks
    BY <2>9 DEF DestroyUnhooks, Unchanged, queueVars, sessionVars, Plain,
       Joined, Unused
  <2>10. CASE DestroyDisconnects
    BY <2>10 DEF DestroyDisconnects, Unchanged, DisconnectCalls, queueVars,
       sessionVars, Plain, Joined, Unused
  <2>11. CASE DestroyEnds
    BY <2>11 DEF DestroyEnds, Unchanged, DisconnectReturns, queueVars,
       sessionVars, Plain, Joined, Unused
  <2> QED BY <1>1, <2>1, <2>2, <2>3, <2>4, <2>5, <2>6, <2>7, <2>8, <2>9, <2>10,
     <2>11 DEF Application
<1>2. CASE MessageArrives
  BY <1>2 DEF MessageArrives, DeliversMessage, queueVars, sessionVars, Plain,
     Joined, Unused
<1>3. CASE HandleMessage
  BY <1>3 DEF HandleMessage, HandlerDefined, Queued, Inlined, CallbackReturns,
     queueVars, sessionVars, Plain, Joined, Unused
<1>4. CASE SessionGoesOn
  BY <1>4 DEF SessionGoesOn, Dialled, LoopHalts, LoopEnds, queueVars,
     sessionVars, Plain, Joined, Unused
<1>5. CASE Consume
  BY <1>5 DEF Consume, ConsumerTests, OnceStopped, ConsumerPops,
     ConsumerFindsNothing, ConsumerGoesOn, FateOfConsumer, queueVars,
     sessionVars, Plain, Joined, Unused
<1>6. CASE UNCHANGED vars
  BY <1>6 DEF vars, queueVars, sessionVars, Plain, Joined, Unused
<1> QED BY <1>1, <1>2, <1>3, <1>4, <1>5, <1>6 DEF Next

\* Every step without a second subscription ends no process.
LEMMA SingleStep ==
  ASSUME Single, Joined, "resubscribe" \notin careless, "resubscribe" \notin careless', [Next]_vars
  PROVE  Single'
<1>1. CASE Application
  <2>1. CASE SetDispatchMode
    BY <2>1 DEF SetDispatchMode, queueVars, sessionVars, Single, Joined, Unused
  <2>2. CASE Disconnect
    BY <2>2 DEF Disconnect, DisconnectCalls, queueVars, sessionVars, Single, Joined, Unused
  <2>3. CASE Move
    BY <2>3, Zenon DEF Move, Plainly, queueVars, sessionVars, Single, Joined, Unused
  <2>4. CASE SessionReturns
    BY <2>4 DEF SessionReturns, ConnectReturns, ConnectThrows,
       DisconnectReturns, queueVars, sessionVars, Single, Joined, Unused
  <2>5. CASE \E k \in Kinds, symbol \in DOMAIN Lower :
              Subscribe(k, symbol) \/ TypedSubscribe(k, symbol)
    BY <2>5 DEF Subscribe, TypedSubscribe, Plainly, StartConsumer,
       ConnectCalls, queueVars, sessionVars, Single, Joined, Unused
  <2>6. CASE Destroy
    BY <2>6, Zenon DEF Destroy, Plainly, Unchanged, MustJoin, SignalStop, queueVars,
       sessionVars, Single, Joined, Unused
  <2>7. CASE DestroyJoins
    BY <2>7 DEF DestroyJoins, Unchanged, JoinConsumer, queueVars, sessionVars,
       Single, Joined, Unused
  <2>8. CASE DestroyFrees
    BY <2>8 DEF DestroyFrees, queueVars, sessionVars, Single, Joined, Unused
  <2>9. CASE DestroyUnhooks
    BY <2>9 DEF DestroyUnhooks, Unchanged, queueVars, sessionVars, Single, Joined, Unused
  <2>10. CASE DestroyDisconnects
    BY <2>10 DEF DestroyDisconnects, Unchanged, DisconnectCalls, queueVars,
       sessionVars, Single, Joined, Unused
  <2>11. CASE DestroyEnds
    BY <2>11 DEF DestroyEnds, Unchanged, DisconnectReturns, queueVars,
       sessionVars, Single, Joined, Unused
  <2> QED BY <1>1, <2>1, <2>2, <2>3, <2>4, <2>5, <2>6, <2>7, <2>8, <2>9, <2>10,
     <2>11 DEF Application
<1>2. CASE MessageArrives
  BY <1>2 DEF MessageArrives, DeliversMessage, queueVars, sessionVars, Single, Joined, Unused
<1>3. CASE HandleMessage
  BY <1>3 DEF HandleMessage, HandlerDefined, Queued, Inlined, CallbackReturns,
     queueVars, sessionVars, Single, Joined, Unused
<1>4. CASE SessionGoesOn
  BY <1>4 DEF SessionGoesOn, Dialled, LoopHalts, LoopEnds, queueVars,
     sessionVars, Single, Joined, Unused
<1>5. CASE Consume
  BY <1>5 DEF Consume, ConsumerTests, OnceStopped, ConsumerPops,
     ConsumerFindsNothing, ConsumerGoesOn, FateOfConsumer, queueVars,
     sessionVars, Single, Joined, Unused
<1>6. CASE UNCHANGED vars
  BY <1>6 DEF vars, queueVars, sessionVars, Single, Joined, Unused
<1> QED BY <1>1, <1>2, <1>3, <1>4, <1>5, <1>6 DEF Next

\* Every step without a move or an early destruction leaves what is used.
LEMMA SettledStep ==
  ASSUME Settled, Joined,
         "move" \notin careless, "move" \notin careless',
         "dropConnected" \notin careless, "dropConnected" \notin careless', [Next]_vars
  PROVE  Settled'
<1>1. CASE Application
  <2>1. CASE SetDispatchMode
    BY <2>1 DEF SetDispatchMode, queueVars, sessionVars, Settled, Joined, Unused
  <2>2. CASE Disconnect
    BY <2>2 DEF Disconnect, DisconnectCalls, queueVars, sessionVars, Settled, Joined, Unused
  <2>3. CASE Move
    BY <2>3, Zenon DEF Move, Plainly, queueVars, sessionVars, Settled, Joined, Unused
  <2>4. CASE SessionReturns
    BY <2>4 DEF SessionReturns, ConnectReturns, ConnectThrows,
       DisconnectReturns, queueVars, sessionVars, Settled, Joined, Unused
  <2>5. CASE \E k \in Kinds, symbol \in DOMAIN Lower :
              Subscribe(k, symbol) \/ TypedSubscribe(k, symbol)
    BY <2>5 DEF Subscribe, TypedSubscribe, Plainly, StartConsumer,
       ConnectCalls, queueVars, sessionVars, Settled, Joined, Unused
  <2>6. CASE Destroy
    BY <2>6, Zenon DEF Destroy, Plainly, Unchanged, MustJoin, SignalStop, queueVars,
       sessionVars, Settled, Joined, Unused
  <2>7. CASE DestroyJoins
    BY <2>7 DEF DestroyJoins, Unchanged, JoinConsumer, queueVars, sessionVars,
       Settled, Joined, Unused
  <2>8. CASE DestroyFrees
    BY <2>8 DEF DestroyFrees, queueVars, sessionVars, Settled, Joined, Unused
  <2>9. CASE DestroyUnhooks
    BY <2>9 DEF DestroyUnhooks, Unchanged, queueVars, sessionVars, Settled, Joined, Unused
  <2>10. CASE DestroyDisconnects
    BY <2>10 DEF DestroyDisconnects, Unchanged, DisconnectCalls, queueVars,
       sessionVars, Settled, Joined, Unused
  <2>11. CASE DestroyEnds
    BY <2>11 DEF DestroyEnds, Unchanged, DisconnectReturns, queueVars,
       sessionVars, Settled, Joined, Unused
  <2> QED BY <1>1, <2>1, <2>2, <2>3, <2>4, <2>5, <2>6, <2>7, <2>8, <2>9, <2>10,
     <2>11 DEF Application
<1>2. CASE MessageArrives
  BY <1>2 DEF MessageArrives, DeliversMessage, queueVars, sessionVars, Settled, Joined, Unused
<1>3. CASE HandleMessage
  BY <1>3 DEF HandleMessage, HandlerDefined, Queued, Inlined, CallbackReturns,
     queueVars, sessionVars, Settled, Joined, Unused
<1>4. CASE SessionGoesOn
  BY <1>4 DEF SessionGoesOn, Dialled, LoopHalts, LoopEnds, queueVars,
     sessionVars, Settled, Joined, Unused
<1>5. CASE Consume
  BY <1>5 DEF Consume, ConsumerTests, OnceStopped, ConsumerPops,
     ConsumerFindsNothing, ConsumerGoesOn, FateOfConsumer, queueVars,
     sessionVars, Settled, Joined, Unused
<1>6. CASE UNCHANGED vars
  BY <1>6 DEF vars, queueVars, sessionVars, Settled, Joined, Unused
<1> QED BY <1>1, <1>2, <1>3, <1>4, <1>5, <1>6 DEF Next

-----------------------------------------------------------------------------
(* The theorems *)

\* However the stream is used, a consumer that runs can be joined.
THEOREM JoinedInOrder == Spec => []Joined
<1>1. Init => Joined
  BY DEF Init, QueueInit, Joined
<1>2. Joined /\ [Next]_vars => Joined'
  BY JoinedStep
<1> QED BY <1>1, <1>2, PTL DEF Spec

\* In plain use every thread has what it uses.
THEOREM PlainInOrder == Spec => []Plain
<1>1. Init => Plain
  BY DEF Init, SessionInit, QueueInit, Plain
<1>2. Plain /\ Joined /\ [Next]_vars => Plain'
  <2> SUFFICES ASSUME Plain, Joined, [Next]_vars PROVE Plain'
    OBVIOUS
  <2>1. CASE careless' = {}
    BY <2>1, StaysPlain, PlainStep
  <2>2. CASE careless' # {}
    BY <2>2 DEF Plain
  <2> QED BY <2>1, <2>2
<1> QED BY <1>1, <1>2, JoinedInOrder, PTL DEF Spec

\* A second subscription alone ends the process.
THEOREM SingleInOrder == Spec => []Single
<1>1. Init => Single
  BY DEF Init, SessionInit, QueueInit, Single
<1>2. Single /\ Joined /\ [Next]_vars => Single'
  <2> SUFFICES ASSUME Single, Joined, [Next]_vars,
                      "resubscribe" \notin careless'
               PROVE  Single'
    BY Zenon DEF Single
  <2>1. "resubscribe" \notin careless
    BY StaysCareless
  <2> QED BY <2>1, SingleStep
<1> QED BY <1>1, <1>2, JoinedInOrder, PTL DEF Spec

\* A move and an early destruction alone take away what a thread uses.
THEOREM SettledInOrder == Spec => []Settled
<1>1. Init => Settled
  BY DEF Init, SessionInit, QueueInit, Settled
<1>2. Settled /\ Joined /\ [Next]_vars => Settled'
  <2> SUFFICES ASSUME Settled, Joined, [Next]_vars,
                      "move" \notin careless', "dropConnected" \notin careless'
               PROVE  Settled'
    BY Zenon DEF Settled
  <2>1. "move" \notin careless /\ "dropConnected" \notin careless
    BY StaysCareless
  <2> QED BY <2>1, SettledStep
<1> QED BY <1>1, <1>2, JoinedInOrder, PTL DEF Spec

\* A program that subscribes once, does not move a subscribed stream and calls
\* disconnect() before it destroys one is not terminated and meets no undefined
\* behaviour, inline or queued, plain or typed.  Any other is terminated only
\* after a second subscription, and meets undefined behaviour only after a move
\* or the destruction of a connected stream.
THEOREM PlainUseSafe == Spec => []PlainUseIsSafe
<1>1. Plain /\ Single /\ Settled => PlainUseIsSafe
  BY DEF Plain, Single, Settled, PlainUseIsSafe
<1> QED BY <1>1, PlainInOrder, SingleInOrder, SettledInOrder, PTL

-----------------------------------------------------------------------------
(* Messages and what becomes of them *)

Messages == [n : Nat, e : {"trade", "kline", "24hrTicker", "depthUpdate", "other"}]
Histories == [n : Nat, called : BOOLEAN]

\* What becomes of messages, one after another.
LEMMA OutcomesOf ==
  ASSUME NEW s \in Seq(Messages), NEW m \in Messages, NEW events
  PROVE  /\ Outcome(m, events) \in Histories
         /\ Outcomes(s, events) \in Seq(Histories)
         /\ Outcomes(<<>>, events) = <<>>
         /\ Outcomes(Append(s, m), events)
              = Append(Outcomes(s, events), Outcome(m, events))
         /\ Outcomes(<<m>> \o s, events)
              = <<Outcome(m, events)>> \o Outcomes(s, events)
<1>1. \A x \in Messages : Outcome(x, events) \in Histories
  BY DEF Outcome, Messages, Histories
<1> HIDE DEF Outcome
<1>2. Outcomes(s, events) \in Seq(Histories) /\ Len(Outcomes(s, events)) = Len(s)
  BY <1>1 DEF Outcomes
<1>3. Outcomes(<<>>, events) = <<>>
  BY DEF Outcomes
<1>4. Outcomes(Append(s, m), events)
        = Append(Outcomes(s, events), Outcome(m, events))
  BY <1>1, <1>2 DEF Outcomes
<1>5. Outcomes(<<m>> \o s, events)
        = <<Outcome(m, events)>> \o Outcomes(s, events)
  BY <1>1, <1>2 DEF Outcomes
<1> QED BY <1>1, <1>2, <1>3, <1>4, <1>5

\* An element between two sequences belongs to either.
LEMMA AppendToBoth ==
  ASSUME NEW S, NEW r \in Seq(S), NEW s \in Seq(S), NEW x \in S
  PROVE  /\ Append(r \o s, x) = r \o Append(s, x)
         /\ r \o (<<x>> \o s) = Append(r, x) \o s
<1>1. <<x>> \in Seq(S) /\ r \o s \in Seq(S)
  OBVIOUS
<1>2. Append(r \o s, x) = r \o (s \o <<x>>)
  BY <1>1, AppendIsConcat, ConcatAssociative
<1>3. s \o <<x>> = Append(s, x) /\ r \o <<x>> = Append(r, x)
  BY AppendIsConcat
<1>4. r \o (<<x>> \o s) = (r \o <<x>>) \o s
  BY <1>1, ConcatAssociative
<1> QED BY <1>2, <1>3, <1>4, Zenon

\* A stream sends the events that its dispatch function lets through.
LEMMA EventsMatch ==
  ASSUME NEW k \in Kinds, NEW symbol \in DOMAIN Lower
  PROVE  StreamName(k, symbol) # <<>> /\ SentOn(StreamName(k, symbol)) = {EventOf(k)}
  BY DEF Kinds, Lower, StreamName, SentOn, EventOf

-----------------------------------------------------------------------------
(* The dispatch of the messages *)

\* Which threads there are, and for which stream, while the process is well.
Wired ==
  fate = "fine" =>
    /\ mode \in {"Inline", "Queued"}
    /\ consumer # "none" => mode = "Queued"
    /\ handler = "queue" => mode = "Queued"
    /\ handler = "inline" => mode = "Inline"
    /\ typed => mode = "Inline"
    /\ ~typed /\ ~subscribed => handler \in {"none", "destroyed"}
    /\ app = "idle" /\ ~joinable => consumer = "none" /\ handler # "queue"
    /\ path = <<>> => handler \in {"none", "destroyed"} /\ consumer = "none"
    /\ path # <<>> => SentOn(path) = {EventOf(kind)}
    /\ inbox # <<>> => thread = "message"

\* The messages are where these threads put them, and in order.
Ordered ==
  fate = "fine" =>
    /\ arrived \in Nat
    /\ inbox = <<>> \/ \E m \in Messages : inbox = <<m>>
    /\ queue \in Seq(Messages)
    /\ IF consumer \in {"dispatch", "dispatchLast"}
       THEN \E m \in Messages : taken = <<m>>
       ELSE taken = <<>>
    /\ kept \in Seq(Histories) /\ received \in Seq(Histories)
    /\ mode = "Inline" => queue = <<>>
    /\ app = "idle" /\ ~joinable => queue = <<>>
    /\ kept = received \o Outcomes(taken \o queue, Wanted)

\* Every step keeps the threads so.
LEMMA WiredStep ==
  ASSUME Joined, Wired, [Next]_vars
  PROVE  Wired'
<1>1. CASE Application
  <2>1. CASE SetDispatchMode
    BY <2>1 DEF SetDispatchMode, queueVars, sessionVars, Joined, Wired
  <2>2. CASE Disconnect
    BY <2>2 DEF Disconnect, DisconnectCalls, queueVars, sessionVars, Joined, Wired
  <2>3. CASE Move
    BY <2>3 DEF Move, Plainly, queueVars, sessionVars, Joined, Wired
  <2>4. CASE SessionReturns
    BY <2>4 DEF SessionReturns, ConnectReturns, ConnectThrows,
       DisconnectReturns, queueVars, sessionVars, Joined, Wired
  <2>5. ASSUME NEW k \in Kinds, NEW symbol \in DOMAIN Lower, Subscribe(k, symbol)
        PROVE  Wired'
    <3>1. path' # <<>> /\ SentOn(path') = {EventOf(kind')}
      BY <2>5, EventsMatch DEF Subscribe
    <3> QED BY <2>5, <3>1 DEF Subscribe, Plainly, StartConsumer, ConnectCalls,
       queueVars, sessionVars, Joined, Wired
  <2>6. ASSUME NEW k \in Kinds, NEW symbol \in DOMAIN Lower, TypedSubscribe(k, symbol)
        PROVE  Wired'
    <3>1. path' # <<>> /\ SentOn(path') = {EventOf(kind')}
      BY <2>6, EventsMatch DEF TypedSubscribe
    <3> QED BY <2>6, <3>1 DEF TypedSubscribe, Plainly, ConnectCalls,
       queueVars, sessionVars, Joined, Wired
  <2>7. CASE Destroy \/ DestroyJoins
    BY <2>7 DEF Destroy, DestroyJoins, Plainly, Unchanged, MustJoin, SignalStop,
       JoinConsumer, queueVars, sessionVars, Joined, Wired
  <2>8. CASE DestroyFrees
    BY <2>8 DEF DestroyFrees, queueVars, sessionVars, Joined, Wired
  <2>9. CASE DestroyUnhooks
    BY <2>9 DEF DestroyUnhooks, Unchanged, queueVars, sessionVars, Joined, Wired
  <2>10. CASE DestroyDisconnects \/ DestroyEnds
    BY <2>10 DEF DestroyDisconnects, DestroyEnds, Unchanged, DisconnectCalls,
       DisconnectReturns, queueVars, sessionVars, Joined, Wired
  <2> QED BY <1>1, <2>1, <2>2, <2>3, <2>4, <2>5, <2>6, <2>7, <2>8, <2>9, <2>10
     DEF Application
<1>2. CASE MessageArrives
  BY <1>2 DEF MessageArrives, DeliversMessage, queueVars, sessionVars, Wired
<1>3. CASE HandleMessage
  BY <1>3 DEF HandleMessage, HandlerDefined, Queued, Inlined, CallbackReturns,
     queueVars, sessionVars, Wired
<1>4. CASE SessionGoesOn
  BY <1>4 DEF SessionGoesOn, Dialled, LoopHalts, LoopEnds, queueVars,
     sessionVars, Wired
<1>5. CASE Consume
  BY <1>5 DEF Consume, ConsumerTests, OnceStopped, ConsumerPops,
     ConsumerFindsNothing, ConsumerGoesOn, FateOfConsumer, queueVars,
     sessionVars, Wired
<1>6. CASE UNCHANGED vars
  BY <1>6 DEF vars, queueVars, sessionVars, Wired
<1> QED BY <1>1, <1>2, <1>3, <1>4, <1>5, <1>6 DEF Next

\* A step that leaves the messages where they are.
LEMMA OrderedFrame ==
  ASSUME Ordered, fate = "fine", mode' = mode \/ mode' = "Queued",
         UNCHANGED <<queue, taken, kept, received, inbox, arrived, typed, kind, path>>,
         app' = "idle" /\ ~joinable' => app = "idle" /\ ~joinable,
         consumer' = consumer \/ {consumer, consumer'} \cap {"dispatch", "dispatchLast"} = {}
  PROVE  Ordered'
<1>1. Wanted' = Wanted
  BY DEF Wanted, HasMethod
<1> HIDE DEF Wanted
<1> QED BY <1>1, Zenon DEF Ordered

\* While nothing is kept the outcomes are none.
LEMMA NothingPending ==
  ASSUME kept = received \o Outcomes(taken \o queue, Wanted), taken = <<>>, queue = <<>>,
         received \in Seq(Histories)
  PROVE  kept = received
<1>1. Outcomes(<<>>, Wanted) = <<>>
  BY DEF Outcomes
<1> QED BY <1>1

\* Where a message is dispatched, what it gets is what is due to it.
LEMMA DispatchIsDue ==
  ASSUME path # <<>>, path # <<>> => SentOn(path) = {EventOf(kind)}
  PROVE  \A m : Dispatch(m) = Outcome(m, Wanted)
  BY Zenon DEF Dispatch, Wanted

\* A subscription finds nothing pending.
LEMMA SubscribeOrdered ==
  ASSUME Joined, Wired, Ordered, NEW k \in Kinds, NEW symbol \in DOMAIN Lower,
         Subscribe(k, symbol) \/ TypedSubscribe(k, symbol)
  PROVE  Ordered'
<1> SUFFICES ASSUME fate' = "fine" PROVE Ordered'
  BY DEF Ordered
<1>1. /\ fate = "fine" /\ app = "idle" /\ app' = app /\ mode' = mode
      /\ UNCHANGED <<queue, taken, kept, received, inbox, arrived>>
  BY DEF Subscribe, TypedSubscribe, StartConsumer, queueVars
<1>2. /\ queue = <<>> /\ taken = <<>>
      /\ consumer' \notin {"dispatch", "dispatchLast"}
  <2>1. CASE mode = "Queued"
    <3>1. Subscribe(k, symbol) /\ ~joinable /\ consumer' = "test"
      BY <1>1, <2>1 DEF Subscribe, TypedSubscribe, StartConsumer, Wired
    <3> QED BY <1>1, <3>1 DEF Wired, Ordered
  <2>2. CASE mode = "Inline"
    <3>1. consumer = "none" /\ consumer' = consumer
      BY <1>1, <2>2 DEF Subscribe, TypedSubscribe, queueVars, Wired
    <3> QED BY <1>1, <2>2, <3>1 DEF Ordered
  <2> QED BY <1>1, <2>1, <2>2 DEF Wired
<1>3. kept = received /\ received \in Seq(Histories) /\ arrived \in Nat
      /\ (inbox = <<>> \/ \E m \in Messages : inbox = <<m>>)
  BY <1>1, <1>2, NothingPending DEF Ordered
<1>4. Outcomes(<<>>, Wanted') = <<>> /\ <<>> \in Seq(Messages) /\ <<>> \o <<>> = <<>>
  BY DEF Outcomes
<1> HIDE DEF Wanted
<1> QED BY <1>1, <1>2, <1>3, <1>4 DEF Ordered

\* The handler appends a message to what is pending, or dispatches it when
\* nothing is.
LEMMA HandleOrdered ==
  ASSUME Wired, Ordered, HandleMessage
  PROVE  Ordered'
<1> SUFFICES ASSUME fate' = "fine" PROVE Ordered'
  BY DEF Ordered
<1> DEFINE m == inbox[1]
           pending == taken \o queue
<1>1. /\ fate = "fine" /\ inbox # <<>> /\ inbox' = <<>>
      /\ (handler = "queue" /\ Queued(m)) \/ (handler = "inline" /\ Inlined(m))
      /\ UNCHANGED <<typed, app, mode, kind, path, arrived, consumer, joinable, taken>>
  BY DEF HandleMessage
<1>2. m \in Messages /\ queue \in Seq(Messages) /\ taken \in Seq(Messages)
      /\ kept \in Seq(Histories) /\ received \in Seq(Histories) /\ arrived \in Nat
      /\ kept = received \o Outcomes(pending, Wanted)
  <2>1. PICK x \in Messages : inbox = <<x>>
    BY <1>1 DEF Ordered
  <2>2. taken = <<>> \/ \E y \in Messages : taken = <<y>>
    BY <1>1 DEF Ordered
  <2>3. m \in Messages
    BY <2>1
  <2>4. taken \in Seq(Messages)
    <3>1. <<>> \in Seq(Messages) /\ \A y \in Messages : <<y>> \in Seq(Messages)
      OBVIOUS
    <3> QED BY <2>2, <3>1, Zenon
  <2> HIDE DEF m, Wanted
  <2> QED BY <1>1, <2>3, <2>4 DEF Ordered
<1>3. Wanted' = Wanted
  BY <1>1 DEF Wanted, HasMethod
<1>4. \A x : Dispatch(x) = Outcome(x, Wanted)
  BY <1>1, DispatchIsDue DEF Wired
<1> HIDE DEF Wanted, m
<1>5. /\ Outcome(m, Wanted) \in Histories /\ Outcomes(pending, Wanted) \in Seq(Histories)
      /\ Outcomes(Append(pending, m), Wanted)
           = Append(Outcomes(pending, Wanted), Outcome(m, Wanted))
  <2>1. pending \in Seq(Messages)
    BY <1>2
  <2> HIDE DEF pending
  <2> QED BY <1>2, <2>1, OutcomesOf, Zenon
<1>6. CASE handler = "queue" /\ Queued(m)
  <2>1. CASE queue' = queue
    BY <1>1, <1>2, <1>3, <1>6, <2>1 DEF Queued, Ordered
  <2>2. CASE queue' # queue
    <3>1. /\ queue' = Append(queue, m) /\ kept' = Append(kept, Outcome(m, Wanted))
          /\ received' = received
      BY <1>6, <2>2 DEF Queued, Pushed
    <3>2. taken' \o queue' = Append(pending, m)
      BY <1>1, <1>2, <3>1
    <3>3. queue' \in Seq(Messages) /\ kept' \in Seq(Histories)
      BY <1>2, <1>5, <3>1
    <3>4. kept' = received' \o Outcomes(taken' \o queue', Wanted')
      <4> HIDE DEF pending
      <4> DEFINE now == Outcomes(pending, Wanted)
                 last == Outcome(m, Wanted)
      <4>1. Append(received \o now, last) = received \o Append(now, last)
        BY <1>2, <1>5, AppendToBoth
      <4> QED BY <1>2, <1>3, <1>5, <3>1, <3>2, <4>1, Zenon
    <3>5. mode = "Queued" /\ ~(app = "idle" /\ ~joinable)
      BY <1>1, <1>6 DEF Wired
    <3> HIDE DEF pending
    <3> QED BY <1>1, <1>2, <3>1, <3>3, <3>4, <3>5 DEF Ordered
  <2> QED BY <2>1, <2>2
<1>7. CASE handler = "inline" /\ Inlined(m)
  <2>1. queue = <<>> /\ taken = <<>> /\ consumer = "none"
    BY <1>1, <1>7 DEF Wired, Ordered
  <2>2. kept = received
    BY <1>2, <2>1, NothingPending
  <2>3. /\ received' = Append(received, Outcome(m, Wanted))
        /\ kept' = Append(kept, Outcome(m, Wanted)) /\ queue' = queue
    BY <1>4, <1>7 DEF Inlined
  <2>4. received' \in Seq(Histories)
    BY <1>2, <1>5, <2>3
  <2>5. Outcomes(<<>>, Wanted') = <<>> /\ <<>> \in Seq(Messages) /\ <<>> \o <<>> = <<>>
    BY DEF Outcomes
  <2> HIDE DEF pending
  <2> QED BY <1>1, <1>2, <2>1, <2>2, <2>3, <2>4, <2>5 DEF Ordered
<1> QED BY <1>1, <1>6, <1>7

\* The consumer takes the first of what is pending, and dispatches it.
LEMMA ConsumeOrdered ==
  ASSUME Wired, Ordered, Consume
  PROVE  Ordered'
<1> SUFFICES ASSUME fate' = "fine" PROVE Ordered'
  BY DEF Ordered
<1>1. /\ fate = "fine"
      /\ UNCHANGED <<typed, app, mode, kind, path, inbox, arrived, kept, joinable>>
  BY DEF Consume, ConsumerTests, ConsumerPops, ConsumerFindsNothing, ConsumerGoesOn
<1>2. Wanted' = Wanted
  BY <1>1 DEF Wanted, HasMethod
<1>3. CASE ConsumerTests \/ ConsumerFindsNothing
  <2>1. UNCHANGED <<queue, taken, received>>
    BY <1>3 DEF Consume, ConsumerTests, ConsumerFindsNothing, ConsumerPops,
       ConsumerGoesOn
  <2>2. {consumer, consumer'} \cap {"dispatch", "dispatchLast"} = {}
    BY <1>3 DEF ConsumerTests, ConsumerFindsNothing, OnceStopped
  <2> QED BY <1>1, <2>1, <2>2, OrderedFrame
<1>4. CASE ConsumerPops
  <2>1. received' = received /\ consumer \notin {"dispatch", "dispatchLast"}
        /\ consumer' \in {"dispatch", "dispatchLast"}
    BY <1>4 DEF Consume, ConsumerPops, ConsumerGoesOn
  <2>2. queue # <<>> /\ taken' = <<Head(queue)>> /\ queue' = Tail(queue)
    BY <1>4 DEF ConsumerPops
  <2>3. queue \in Seq(Messages) /\ taken = <<>>
    BY <1>1, <2>1 DEF Ordered
  <2>4. /\ taken' \o queue' = taken \o queue /\ queue' \in Seq(Messages)
        /\ Head(queue) \in Messages
    BY <2>2, <2>3
  <2>5. kept' = received' \o Outcomes(taken' \o queue', Wanted')
    BY <1>1, <1>2, <2>1, <2>4 DEF Ordered
  <2> HIDE DEF Wanted
  <2> QED BY <1>1, <2>1, <2>2, <2>4, <2>5, Zenon DEF Ordered
<1>5. CASE ConsumerGoesOn /\ received' = Append(received, Dispatch(taken[1]))
  <2>1. /\ consumer \in {"dispatch", "dispatchLast"} /\ taken' = <<>> /\ queue' = queue
        /\ consumer' \notin {"dispatch", "dispatchLast"}
    BY <1>5 DEF ConsumerGoesOn
  <2>2. PICK m \in Messages : taken = <<m>>
    BY <1>1, <2>1 DEF Ordered
  <2>3. \A x : Dispatch(x) = Outcome(x, Wanted)
    BY <1>1, <2>1, DispatchIsDue DEF Wired
  <2>4. received' = Append(received, Outcome(m, Wanted))
    BY <1>5, <2>2, <2>3
  <2> HIDE DEF Wanted
  <2>5. /\ queue \in Seq(Messages) /\ received \in Seq(Histories)
        /\ kept = received \o Outcomes(<<m>> \o queue, Wanted)
    BY <1>1, <2>2, Zenon DEF Ordered
  <2>6. /\ Outcome(m, Wanted) \in Histories /\ Outcomes(queue, Wanted) \in Seq(Histories)
        /\ Outcomes(<<m>> \o queue, Wanted)
             = <<Outcome(m, Wanted)>> \o Outcomes(queue, Wanted)
    BY <2>5, OutcomesOf, Zenon
  <2>7. kept' = received' \o Outcomes(taken' \o queue', Wanted')
    <3> DEFINE first == Outcome(m, Wanted)
               rest == Outcomes(queue, Wanted)
    <3>1. received \o (<<first>> \o rest) = Append(received, first) \o rest
      <4>1. received \in Seq(Histories) /\ first \in Histories /\ rest \in Seq(Histories)
        BY <2>5, <2>6
      <4> HIDE DEF first, rest
      <4> QED BY <4>1, AppendToBoth
    <3>2. taken' \o queue' = queue
      BY <2>1, <2>5
    <3> QED BY <1>1, <1>2, <2>4, <2>5, <2>6, <3>1, <3>2, Zenon
  <2>8. received' \in Seq(Histories)
    BY <2>4, <2>5, <2>6
  <2> QED BY <1>1, <2>1, <2>5, <2>7, <2>8, Zenon DEF Ordered
<1> QED BY <1>3, <1>4, <1>5 DEF Consume

\* Every step keeps the messages in order.
LEMMA OrderedStep ==
  ASSUME Joined, Wired, Ordered, [Next]_vars
  PROVE  Ordered'
<1>1. CASE Application
  <2>1. CASE SetDispatchMode \/ Disconnect \/ Move \/ SessionReturns
    <3> DEFINE Still == /\ fate = "fine" /\ mode' \in {mode, "Queued"}
                        /\ UNCHANGED <<queue, taken, kept, received, inbox, arrived>>
                        /\ UNCHANGED <<typed, kind, path, app, joinable, consumer>>
    <3>1. ASSUME SetDispatchMode PROVE Still
      BY <3>1 DEF SetDispatchMode, Idle, queueVars, messageVars
    <3>2. ASSUME Disconnect PROVE Still
      BY <3>2 DEF Disconnect, Idle, queueVars, messageVars, streamVars
    <3>3. ASSUME Move PROVE Still
      BY <3>3 DEF Move, Idle, queueVars, messageVars
    <3>4. ASSUME SessionReturns PROVE Still
      BY <3>4 DEF SessionReturns, queueVars, messageVars, streamVars
    <3>5. Still
      BY <2>1, <3>1, <3>2, <3>3, <3>4
    <3> QED BY <3>5, OrderedFrame
  <2>2. CASE \E k \in Kinds, symbol \in DOMAIN Lower :
               Subscribe(k, symbol) \/ TypedSubscribe(k, symbol)
    BY <2>2, SubscribeOrdered
  <2>3. CASE Destroy \/ DestroyJoins
    BY <2>3, OrderedFrame DEF Destroy, DestroyJoins, Unchanged, SignalStop,
       JoinConsumer
  <2>4. CASE DestroyFrees
    BY <2>4, OrderedFrame DEF DestroyFrees
  <2>5. CASE DestroyUnhooks \/ DestroyDisconnects \/ DestroyEnds
    BY <2>5, OrderedFrame DEF DestroyUnhooks, DestroyDisconnects, DestroyEnds,
       Unchanged, queueVars
  <2> QED BY <1>1, <2>1, <2>2, <2>3, <2>4, <2>5 DEF Application
<1>2. CASE MessageArrives
  <2>1. PICK e \in SentOn(path) \cup {"other"} : inbox' = <<[n |-> arrived + 1, e |-> e]>>
    BY <1>2 DEF MessageArrives
  <2>2. SentOn(path) \subseteq {"trade", "kline", "24hrTicker", "depthUpdate"}
    BY DEF SentOn
  <2>3. Wanted' = Wanted
    BY <1>2 DEF MessageArrives, Wanted, HasMethod
  <2>4. arrived' \in Nat /\ \E m \in Messages : inbox' = <<m>>
    BY <1>2, <2>1, <2>2 DEF MessageArrives, Ordered, Messages
  <2> HIDE DEF Wanted
  <2> QED BY <1>2, <2>3, <2>4 DEF MessageArrives, queueVars, Ordered
<1>3. CASE HandleMessage
  BY <1>3, HandleOrdered
<1>4. CASE SessionGoesOn
  BY <1>4, OrderedFrame DEF SessionGoesOn, queueVars
<1>5. CASE Consume
  BY <1>5, ConsumeOrdered
<1>6. CASE UNCHANGED vars
  <2>1. CASE fate = "fine"
    BY <1>6, <2>1, OrderedFrame DEF vars, queueVars
  <2>2. CASE fate # "fine"
    BY <1>6, <2>2 DEF vars, Ordered
  <2> QED BY <2>1, <2>2
<1> QED BY <1>1, <1>2, <1>3, <1>4, <1>5, <1>6 DEF Next

\* Every message is where the threads put it.
THEOREM MessagesInOrder == Spec => [](Wired /\ Ordered)
<1>1. Init => Wired /\ Ordered
  <2>1. Outcomes(<<>>, Wanted) = <<>> /\ <<>> \in Seq(Messages)
        /\ <<>> \in Seq(Histories) /\ <<>> \o <<>> = <<>>
    BY DEF Outcomes
  <2> HIDE DEF Wanted
  <2> QED BY <2>1 DEF Init, QueueInit, SessionInit, Wired, Ordered
<1>2. Joined /\ Wired /\ Ordered /\ [Next]_vars => Wired' /\ Ordered'
  BY WiredStep, OrderedStep
<1> QED BY <1>1, <1>2, JoinedInOrder, PTL DEF Spec

-----------------------------------------------------------------------------
(* What arrived and what was kept *)

\* The messages are numbered as they arrive, and what is kept grows in that
\* order; a message is passed over only once a queue was filled.
Accounted ==
  fate = "fine" =>
    /\ inbox # <<>> => inbox[1].n = arrived
    /\ \A i \in DOMAIN kept : kept[i].n + Len(inbox) <= arrived
    /\ \A i, j \in DOMAIN kept : i < j => kept[i].n < kept[j].n
    /\ \/ Len(kept) + Len(inbox) = arrived
       \/ mode = "Queued" /\ Len(kept) >= QueueCapacity

\* What waits in the queue was kept.
LEMMA QueueWasKept ==
  ASSUME Ordered, fate = "fine"
  PROVE  Len(queue) <= Len(kept)
<1>1. taken \in Seq(Messages) /\ queue \in Seq(Messages) /\ received \in Seq(Histories)
  <2>1. taken = <<>> \/ \E m \in Messages : taken = <<m>>
    BY DEF Ordered
  <2>2. <<>> \in Seq(Messages) /\ \A y \in Messages : <<y>> \in Seq(Messages)
    OBVIOUS
  <2>3. taken \in Seq(Messages)
    BY <2>1, <2>2, Zenon
  <2> QED BY <2>3 DEF Ordered
<1> DEFINE pending == taken \o queue
           due == Outcomes(pending, Wanted)
<1>2. pending \in Seq(Messages) /\ Len(pending) = Len(taken) + Len(queue)
  BY <1>1
<1>3. due \in Seq(Histories) /\ Len(due) = Len(pending)
  <2> HIDE DEF pending
  <2>1. \A x \in Messages : Outcome(x, Wanted) \in Histories
    BY DEF Outcome, Messages, Histories
  <2> HIDE DEF Outcome, Wanted
  <2> QED BY <1>2, <2>1 DEF Outcomes
<1>4. kept = received \o due
  BY DEF Ordered
<1> HIDE DEF pending, due
<1> QED BY <1>1, <1>2, <1>3, <1>4

\* What is kept is numbered.
LEMMA Numbered ==
  ASSUME NEW s \in Seq(Histories)
  PROVE  \A i \in DOMAIN s : s[i].n \in Nat
<1>1. \A i \in DOMAIN s : s[i] \in Histories
  OBVIOUS
<1>2. \A h \in Histories : h.n \in Nat
  BY DEF Histories
<1> QED BY <1>1, <1>2

\* A message that is kept comes last.
LEMMA KeepsLast ==
  ASSUME Accounted, Ordered, fate = "fine", inbox # <<>>, inbox' = <<>>,
         UNCHANGED <<arrived, mode>>, NEW h \in Histories, h.n = inbox[1].n,
         kept' = Append(kept, h)
  PROVE  Accounted'
<1>1. /\ arrived \in Nat /\ kept \in Seq(Histories) /\ Len(inbox) = 1
      /\ h.n = arrived /\ \A i \in DOMAIN kept : kept[i].n \in Nat
  <2>1. arrived \in Nat /\ kept \in Seq(Histories)
    BY DEF Ordered
  <2>2. Len(inbox) = 1
    BY DEF Ordered
  <2>3. h.n = arrived
    BY DEF Accounted
  <2> QED BY <2>1, <2>2, <2>3, Numbered
<1>2. /\ Len(kept') = Len(kept) + 1 /\ DOMAIN kept' = 1..(Len(kept) + 1)
      /\ DOMAIN kept = 1..Len(kept) /\ Len(kept) \in Nat
      /\ kept'[Len(kept) + 1] = h
      /\ \A i \in 1..Len(kept) : kept'[i] = kept[i]
  BY <1>1
<1>3. \A i \in DOMAIN kept' : kept'[i].n + Len(inbox') <= arrived'
  BY <1>1, <1>2 DEF Accounted
<1>4. \A i, j \in DOMAIN kept' : i < j => kept'[i].n < kept'[j].n
  BY <1>1, <1>2 DEF Accounted
<1>5. \/ Len(kept') + Len(inbox') = arrived'
      \/ mode' = "Queued" /\ Len(kept') >= QueueCapacity
  BY <1>1, <1>2, QueueAssumption DEF Accounted
<1> QED BY <1>3, <1>4, <1>5 DEF Accounted

\* The handler keeps the message, unless the queue is full.
LEMMA HandleAccounted ==
  ASSUME Wired, Ordered, Accounted, HandleMessage
  PROVE  Accounted'
<1> SUFFICES ASSUME fate' = "fine" PROVE Accounted'
  BY DEF Accounted
<1> DEFINE m == inbox[1]
<1>1. /\ fate = "fine" /\ inbox # <<>> /\ inbox' = <<>>
      /\ (handler = "queue" /\ Queued(m)) \/ (handler = "inline" /\ Inlined(m))
      /\ UNCHANGED <<arrived, mode>>
  BY DEF HandleMessage
<1>2. m \in Messages /\ Len(inbox) = 1
  BY <1>1 DEF Ordered
<1> DEFINE h == Outcome(m, Wanted)
<1>3. h \in Histories /\ h.n = m.n
  BY <1>2 DEF Outcome, Messages, Histories
<1> HIDE DEF m, h
<1>4. CASE kept' = Append(kept, h)
  BY <1>1, <1>3, <1>4, KeepsLast DEF m
<1>5. CASE kept' # Append(kept, h)
  <2>1. handler = "queue" /\ kept' = kept /\ Pushed(queue, m) = queue
    BY <1>1, <1>5 DEF Queued, Inlined, h
  <2>2. Len(queue) >= QueueCapacity /\ queue \in Seq(Messages)
    BY <1>1, <1>2, <2>1, QueueAssumption DEF Pushed, Ordered
  <2>3. mode = "Queued" /\ Len(kept) >= QueueCapacity
    BY <1>1, <2>1, <2>2, QueueWasKept, QueueAssumption DEF Wired, Ordered
  <2>4. arrived \in Nat /\ \A i \in DOMAIN kept : kept[i].n \in Nat
    BY <1>1, Numbered DEF Ordered
  <2>5. \A i \in DOMAIN kept' : kept'[i].n + Len(inbox') <= arrived'
    BY <1>1, <1>2, <2>1, <2>4 DEF Accounted
  <2> QED BY <1>1, <2>1, <2>3, <2>5 DEF Accounted
<1> QED BY <1>4, <1>5

\* A message that arrives has the next number.
LEMMA ArrivalAccounted ==
  ASSUME Wired, Ordered, Accounted, MessageArrives
  PROVE  Accounted'
<1>1. /\ fate = "fine" /\ thread = "loop" /\ arrived' = arrived + 1
      /\ UNCHANGED <<kept, mode>>
  BY DEF MessageArrives, DeliversMessage
<1>2. inbox = <<>> /\ arrived \in Nat /\ kept \in Seq(Histories)
  BY <1>1 DEF Wired, Ordered, Accounted
<1>3. inbox' # <<>> /\ inbox'[1].n = arrived + 1 /\ Len(inbox') = 1
  BY DEF MessageArrives
<1>4. \A i \in DOMAIN kept : kept[i].n \in Nat
  BY <1>2, Numbered
<1>5. \A i \in DOMAIN kept' : kept'[i].n + Len(inbox') <= arrived'
  BY <1>1, <1>2, <1>3, <1>4 DEF Accounted
<1>6. \/ Len(kept') + Len(inbox') = arrived'
      \/ mode' = "Queued" /\ Len(kept') >= QueueCapacity
  BY <1>1, <1>2, <1>3 DEF Accounted
<1> QED BY <1>1, <1>3, <1>5, <1>6 DEF Accounted

\* A step that leaves the messages where they are.
LEMMA AccountedFrame ==
  ASSUME Accounted, fate = "fine", mode' = mode \/ mode' = "Queued",
         UNCHANGED <<kept, inbox, arrived>>
  PROVE  Accounted'
  BY DEF Accounted

\* Every step keeps count.
LEMMA AccountedStep ==
  ASSUME Wired, Ordered, Accounted, [Next]_vars
  PROVE  Accounted'
<1>1. CASE Application
  <2> DEFINE Still == /\ fate = "fine" /\ (mode' = mode \/ mode' = "Queued")
                      /\ UNCHANGED <<kept, inbox, arrived>>
  <2>1. ASSUME SetDispatchMode \/ Disconnect \/ Move \/ SessionReturns PROVE Still
    BY <2>1 DEF SetDispatchMode, Disconnect, Move, SessionReturns
  <2>2. ASSUME \E k \in Kinds, symbol \in DOMAIN Lower :
                 Subscribe(k, symbol) \/ TypedSubscribe(k, symbol)
        PROVE  Still
    BY <2>2 DEF Subscribe, TypedSubscribe
  <2>3. ASSUME Destroy \/ DestroyJoins \/ DestroyFrees PROVE Still
    BY <2>3 DEF Destroy, DestroyJoins, DestroyFrees, Unchanged
  <2>4. ASSUME DestroyUnhooks \/ DestroyDisconnects \/ DestroyEnds PROVE Still
    BY <2>4 DEF DestroyUnhooks, DestroyDisconnects, DestroyEnds, Unchanged
  <2>5. Still
    BY <1>1, <2>1, <2>2, <2>3, <2>4, Zenon DEF Application
  <2> QED BY <2>5, AccountedFrame
<1>2. CASE MessageArrives
  BY <1>2, ArrivalAccounted
<1>3. CASE HandleMessage
  BY <1>3, HandleAccounted
<1>4. CASE SessionGoesOn
  BY <1>4, AccountedFrame DEF SessionGoesOn
<1>5. CASE Consume
  BY <1>5, AccountedFrame DEF Consume
<1>6. CASE UNCHANGED vars
  <2>1. CASE fate = "fine"
    BY <1>6, <2>1, AccountedFrame DEF vars
  <2>2. CASE fate # "fine"
    BY <1>6, <2>2 DEF vars, Accounted
  <2> QED BY <2>1, <2>2
<1> QED BY <1>1, <1>2, <1>3, <1>4, <1>5, <1>6 DEF Next

\* However the stream is used, as long as the process is well every message that
\* on_message kept is dispatched once and in the order of arrival, inline, by
\* the consumer or in the drain, and the callback is called with exactly the
\* events of the stream that was subscribed to, of whatever kind; and no message
\* is lost but to a queue that was filled.
THEOREM DispatchedInOrder == Spec => []InOrder
<1>1. Init => Accounted
  BY DEF Init, Accounted
<1>2. Wired /\ Ordered /\ Accounted /\ [Next]_vars => Accounted'
  BY AccountedStep
<1>3. Ordered /\ Accounted => InOrder
  <2> HIDE DEF Wanted
  <2> QED BY DEF Ordered, Accounted, InOrder
<1> QED BY <1>1, <1>2, <1>3, MessagesInOrder, PTL DEF Spec

-----------------------------------------------------------------------------
(* The drain *)

\* In plain use the consumer leaves its loop only when nothing can be added to
\* the queue any more, and leaves the queue empty.
Drained ==
  careless = {} =>
    /\ handler = "queue" => consumer # "none"
    /\ consumer = "none" => queue = <<>>
    /\ consumer \in {"drain", "dispatchLast"} => ~running
    /\ consumer = "exited" => queue = <<>> /\ app # "idle"

\* Every step of a plain program keeps it so.
LEMMA DrainedStep ==
  ASSUME Drained, Plain, Plain', Joined, Wired, careless = {}, careless' = {}, [Next]_vars
  PROVE  Drained'
<1>0. fate = "fine" /\ fate' = "fine"
  BY DEF Plain
<1>1. CASE Application
  <2>1. CASE SetDispatchMode \/ Disconnect \/ Move \/ SessionReturns
    BY <2>1 DEF SetDispatchMode, Disconnect, DisconnectCalls, Move, SessionReturns,
       queueVars, Drained
  <2>2. ASSUME NEW k \in Kinds, NEW symbol \in DOMAIN Lower,
               Subscribe(k, symbol) \/ TypedSubscribe(k, symbol)
        PROVE  Drained'
    BY <1>0, <2>2 DEF Subscribe, TypedSubscribe, Plainly, StartConsumer, queueVars,
       Drained, Plain, Unused, Joined, Wired
  <2>3. CASE Destroy \/ DestroyJoins
    BY <2>3, Zenon DEF Destroy, DestroyJoins, Unchanged, SignalStop, JoinConsumer, Drained
  <2>4. CASE DestroyFrees
    BY <2>4 DEF DestroyFrees, Drained
  <2>5. CASE DestroyUnhooks \/ DestroyDisconnects \/ DestroyEnds
    BY <2>5 DEF DestroyUnhooks, DestroyDisconnects, DestroyEnds, Unchanged,
       queueVars, Drained
  <2> QED BY <1>1, <2>1, <2>2, <2>3, <2>4, <2>5 DEF Application
<1>2. CASE MessageArrives
  BY <1>2 DEF MessageArrives, queueVars, Drained
<1>3. CASE HandleMessage
  BY <1>0, <1>3 DEF HandleMessage, CallbackReturns, Queued, Inlined, Drained, Plain
<1>4. CASE SessionGoesOn
  BY <1>4 DEF SessionGoesOn, queueVars, Drained
<1>5. CASE Consume
  <2>1. UNCHANGED <<app, handler, running>>
    BY <1>5 DEF Consume, ConsumerTests, ConsumerPops, ConsumerFindsNothing,
       ConsumerGoesOn
  <2>2. CASE ConsumerTests
    BY <2>1, <2>2 DEF ConsumerTests, OnceStopped, Drained
  <2>3. CASE ConsumerPops
    BY <2>1, <2>3 DEF ConsumerPops, Drained
  <2>4. CASE ConsumerFindsNothing
    BY <2>1, <2>4 DEF ConsumerFindsNothing, Drained, Plain, Joined
  <2>5. CASE ConsumerGoesOn
    BY <2>1, <2>5 DEF ConsumerGoesOn, Drained
  <2> QED BY <1>5, <2>2, <2>3, <2>4, <2>5 DEF Consume
<1>6. CASE UNCHANGED vars
  BY <1>6 DEF vars, queueVars, Drained
<1> QED BY <1>1, <1>2, <1>3, <1>4, <1>5, <1>6 DEF Next

\* When the destructor returns no thread of the stream is left, whatever the
\* program did before, and a plain program has been given everything that was
\* kept for it.
THEOREM NothingIsLeft == Spec => []GoneIsQuiet
<1>1. Init => Drained
  BY DEF Init, QueueInit, Drained
<1>2. Drained /\ Plain /\ Plain' /\ Joined /\ Wired /\ [Next]_vars => Drained'
  <2> SUFFICES ASSUME Drained, Plain, Plain', Joined, Wired, [Next]_vars PROVE Drained'
    OBVIOUS
  <2>1. CASE careless' = {}
    BY <2>1, StaysPlain, DrainedStep
  <2>2. CASE careless' # {}
    BY <2>2 DEF Drained
  <2> QED BY <2>1, <2>2
<1>3. Joined /\ Plain /\ Drained /\ Ordered => GoneIsQuiet
  <2> SUFFICES ASSUME Joined, Plain, Drained, Ordered, app = "gone" PROVE GoneIsQuiet
    BY DEF GoneIsQuiet
  <2>1. thread = "none" /\ consumer \in {"none", "exited"}
    BY DEF Joined
  <2>2. ASSUME careless = {} PROVE received = kept
    <3>1. fate = "fine" /\ queue = <<>>
      BY <2>1, <2>2 DEF Plain, Drained
    <3>2. /\ taken = <<>> /\ received \in Seq(Histories)
          /\ kept = received \o Outcomes(taken \o queue, Wanted)
      BY <2>1, <3>1 DEF Ordered
    <3> QED BY <3>1, <3>2, NothingPending
  <2> QED BY <2>1, <2>2 DEF GoneIsQuiet
<1> QED BY <1>1, <1>2, <1>3, JoinedInOrder, PlainInOrder, MessagesInOrder, PTL DEF Spec

=============================================================================

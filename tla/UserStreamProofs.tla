-------------------------- MODULE UserStreamProofs --------------------------
(***************************************************************************)
(* Proofs about UserStream: what stop() and the joins in it give a program *)
(* that stops a stream before it starts it again or destroys it, and the   *)
(* order in which messages are dispatched however it is used, for every    *)
(* capacity of the queue and any number of starts and messages.            *)
(***************************************************************************)
EXTENDS UserStream, SequenceTheorems, TLAPS

USE DEF Fine, AppGoes, setVars, keyVars, kaVars, messageVars

-----------------------------------------------------------------------------
(* The invariant *)

\* Nothing of an earlier start is left.
Quiet == ~running /\ ~kaJoinable /\ listenKey = 0 /\ thread = "none"

\* Where stop() or the destructor has got to tells what has been put back.
Progress ==
  /\ app # "~joinConsumer"
  /\ ~begun => Quiet
  /\ app \in {"~members", "~unhook", "~close", "~disconnect", "gone"} => ~begun
  /\ app = "starting" =>
       ~running /\ ~kaJoinable /\ thread = "none" /\ listenKey # 0
  /\ app = "connecting" => ~kaJoinable /\ listenKey # 0
  /\ app \in {"joinConsumer", "signal", "joinKeepAlive", "deleting", "closing",
              "disconnecting"} => ~running
  /\ app \in {"deleting", "closing", "disconnecting"} => ~kaJoinable
  /\ app \in {"closing", "disconnecting"} => listenKey = 0

\* A thread that runs can be joined, and what it uses is there.
Threads ==
  /\ running => joinable
  /\ joinable => queueState = "live" /\ (running \/ app = "joinConsumer")
  /\ consumer \notin {"none", "exited"} => joinable
  /\ keepAlive \notin {"none", "exited"} => kaJoinable
  /\ kaJoinable => listenKey # 0
  /\ thread # "none" => /\ handler \in {"queue", "inline"}
                        /\ handler = "queue" => queueState = "live"

\* The exchange holds the stream's key and those it cannot know of.
Keys ==
  /\ starts \in Nat
  /\ live \subseteq 1..starts /\ lost \subseteq live
  /\ live \ lost = {listenKey} \ {0}

Plain ==
  careless = {} =>
    /\ fate \in {"fine", "refused"}
    /\ Progress /\ Threads /\ Keys

\* Without the destruction of a started stream, whatever else the program does,
\* what a thread uses is there.
Settled ==
  "dropStarted" \notin careless =>
    /\ fate # "undefined"
    /\ fate = "fine" =>
         /\ app \in {"~joinConsumer", "~members", "~unhook", "~close",
                    "~disconnect", "gone"} => thread = "none"
         /\ app = "idle" /\ ~begun => thread = "none"
         /\ app \in {"starting", "connecting"} => begun
         /\ consumer \notin {"none", "exited"} => joinable
         /\ joinable => queueState = "live"
         /\ thread # "none" => /\ handler \in {"queue", "inline"}
                               /\ handler = "queue" => queueState = "live"

-----------------------------------------------------------------------------
(* The actions, by who takes them *)

Starting == SetDispatchMode \/ Start \/ StartConnects \/ StartFails \/
            StartReturns

Stopping == Stop \/ StopJoinsConsumer \/ StopSignals \/ StopJoinsKeepAlive \/
            StopDeletes \/ StopDisconnects \/ StopReturns

Destroying == Destroy \/ DestroyJoins \/ DestroyMembers \/ DestroyUnhooks \/
              DestroyDisconnects \/ DestroyEnds

Keeping == KeepAliveTests \/ KeepAliveWakes \/ KeepAliveRenews

Delivering == MessageArrives \/ HandleMessage \/ SessionGoesOn

Consuming == Consume \/ ConsumerStops

\* Next is these six.
LEMMA NextIsOneOf ==
  Next => Starting \/ Stopping \/ Destroying \/ Keeping \/ Delivering \/ Consuming
  BY DEF Next, Winding, KeepAlive, Starting, Stopping, Destroying, Keeping,
     Delivering, Consuming

\* A departure from the plain life cycle is not taken back.
LEMMA StaysCareless ==
  ASSUME [Next]_vars
  PROVE  careless \subseteq careless'
<1>1. CASE Starting
  BY <1>1 DEF Starting, SetDispatchMode, Start, StartConnects, StartFails,
     StartReturns, Plainly, CreateListenKey, StartConsumer, ConnectCalls,
     ConnectThrows, ConnectReturns, queueVars, sessionVars
<1>2. CASE Stopping
  BY <1>2 DEF Stopping, Stop, StopJoinsConsumer, StopSignals,
     StopJoinsKeepAlive, StopDeletes, StopDisconnects, StopReturns, Stays,
     Unchanged, MustJoin, SignalStop, JoinConsumer, JoinedKeepAlive,
     DisconnectCalls, DisconnectReturns, queueVars, sessionVars
<1>3. CASE Destroying
  BY <1>3 DEF Destroying, Destroy, DestroyJoins, DestroyMembers,
     DestroyUnhooks, DestroyDisconnects, DestroyEnds, Plainly, Unchanged,
     MustJoin, SignalStop, Stays, JoinConsumer, DisconnectCalls,
     DisconnectReturns, queueVars, sessionVars
<1>4. CASE Keeping
  BY <1>4 DEF Keeping, KeepAliveTests, KeepAliveWakes, KeepAliveRenews,
     Renewed, queueVars, sessionVars
<1>5. CASE Delivering
  BY <1>5 DEF Delivering, MessageArrives, HandleMessage, SessionGoesOn,
     DeliversMessage, HandlerDefined, Queued, Inlined, CallbackReturns,
     Dialled, LoopHalts, LoopEnds, queueVars, sessionVars
<1>6. CASE Consuming
  BY <1>6 DEF Consuming, Consume, ConsumerStops, ConsumerTests, OnceStopped,
     ConsumerPops, ConsumerFindsNothing, ConsumerGoesOn, FateOfConsumer,
     Plainly, SignalStop, MustJoin, queueVars, sessionVars
<1>7. CASE UNCHANGED vars
  BY <1>7 DEF vars, queueVars, sessionVars
<1> QED BY NextIsOneOf, <1>1, <1>2, <1>3, <1>4, <1>5, <1>6, <1>7

\* So a program that is plain after a step was plain before it.
LEMMA StaysPlain ==
  ASSUME [Next]_vars, careless' = {}
  PROVE  careless = {}
  BY StaysCareless

\* No step of a plain program ends it, but for a refused renewal.
LEMMA FateStep ==
  ASSUME Plain, careless = {}, careless' = {}, [Next]_vars
  PROVE  fate' \in {"fine", "refused"}
<1>1. CASE Starting
  <2>1. CASE SetDispatchMode
    BY <2>1 DEF SetDispatchMode, queueVars, sessionVars, Plain, Progress,
       Threads, Keys, Quiet
  <2>2. CASE Start
    BY <2>2 DEF Start, Plainly, CreateListenKey, queueVars, sessionVars, Plain,
       Progress, Threads, Keys, Quiet
  <2>3. CASE StartConnects
    BY <2>3 DEF StartConnects, StartConsumer, ConnectCalls, queueVars,
       sessionVars, Plain, Progress, Threads, Keys, Quiet
  <2>4. CASE StartFails
    BY <2>4 DEF StartFails, ConnectThrows, queueVars, sessionVars, Plain,
       Progress, Threads, Keys, Quiet
  <2>5. CASE StartReturns
    BY <2>5 DEF StartReturns, ConnectReturns, queueVars, sessionVars, Plain,
       Progress, Threads, Keys, Quiet
  <2> QED BY <1>1, <2>1, <2>2, <2>3, <2>4, <2>5 DEF Starting
<1>2. CASE Stopping
  <2>1. CASE Stop
    BY <2>1 DEF Stop, Stays, Unchanged, MustJoin, SignalStop, queueVars,
       sessionVars, Plain, Progress, Threads, Keys, Quiet
  <2>2. CASE StopJoinsConsumer
    BY <2>2 DEF StopJoinsConsumer, Stays, Unchanged, JoinConsumer, queueVars,
       sessionVars, Plain, Progress, Threads, Keys, Quiet
  <2>3. CASE StopSignals
    BY <2>3 DEF StopSignals, Stays, Unchanged, queueVars, sessionVars, Plain,
       Progress, Threads, Keys, Quiet
  <2>4. CASE StopJoinsKeepAlive
    BY <2>4 DEF StopJoinsKeepAlive, Stays, Unchanged, JoinedKeepAlive,
       queueVars, sessionVars, Plain, Progress, Threads, Keys, Quiet
  <2>5. CASE StopDeletes
    BY <2>5 DEF StopDeletes, Stays, Unchanged, queueVars, sessionVars, Plain,
       Progress, Threads, Keys, Quiet
  <2>6. CASE StopDisconnects
    BY <2>6 DEF StopDisconnects, Stays, Unchanged, DisconnectCalls, queueVars,
       sessionVars, Plain, Progress, Threads, Keys, Quiet
  <2>7. CASE StopReturns
    BY <2>7 DEF StopReturns, Unchanged, DisconnectReturns, queueVars,
       sessionVars, Plain, Progress, Threads, Keys, Quiet
  <2> QED BY <1>2, <2>1, <2>2, <2>3, <2>4, <2>5, <2>6, <2>7 DEF Stopping
<1>3. CASE Destroying
  <2>1. CASE Destroy
    BY <2>1 DEF Destroy, Plainly, Unchanged, MustJoin, SignalStop, queueVars,
       sessionVars, Plain, Progress, Threads, Keys, Quiet
  <2>2. CASE DestroyJoins
    BY <2>2 DEF DestroyJoins, Stays, Unchanged, JoinConsumer, queueVars,
       sessionVars, Plain, Progress, Threads, Keys, Quiet
  <2>3. CASE DestroyMembers
    BY <2>3 DEF DestroyMembers, queueVars, sessionVars, Plain, Progress,
       Threads, Keys, Quiet
  <2>4. CASE DestroyUnhooks
    BY <2>4 DEF DestroyUnhooks, Unchanged, queueVars, sessionVars, Plain,
       Progress, Threads, Keys, Quiet
  <2>5. CASE DestroyDisconnects
    BY <2>5 DEF DestroyDisconnects, Stays, Unchanged, DisconnectCalls,
       queueVars, sessionVars, Plain, Progress, Threads, Keys, Quiet
  <2>6. CASE DestroyEnds
    BY <2>6 DEF DestroyEnds, Stays, Unchanged, DisconnectReturns, queueVars,
       sessionVars, Plain, Progress, Threads, Keys, Quiet
  <2> QED BY <1>3, <2>1, <2>2, <2>3, <2>4, <2>5, <2>6 DEF Destroying
<1>4. CASE Keeping
  BY <1>4 DEF Keeping, KeepAliveTests, KeepAliveWakes, KeepAliveRenews,
     Renewed, queueVars, sessionVars, Plain, Progress, Threads, Keys, Quiet
<1>5. CASE Delivering
  BY <1>5 DEF Delivering, MessageArrives, HandleMessage, SessionGoesOn,
     DeliversMessage, HandlerDefined, Queued, Inlined, CallbackReturns,
     Dialled, LoopHalts, LoopEnds, queueVars, sessionVars, Plain, Progress,
     Threads, Keys, Quiet
<1>6. CASE Consuming
  BY <1>6 DEF Consuming, Consume, ConsumerStops, ConsumerTests, OnceStopped,
     ConsumerPops, ConsumerFindsNothing, ConsumerGoesOn, FateOfConsumer,
     Plainly, SignalStop, MustJoin, queueVars, sessionVars, Plain, Progress,
     Threads, Keys, Quiet
<1>7. CASE UNCHANGED vars
  BY <1>7 DEF vars, queueVars, sessionVars, Plain, Progress, Threads, Keys,
     Quiet
<1> QED BY NextIsOneOf, <1>1, <1>2, <1>3, <1>4, <1>5, <1>6, <1>7

\* stop() and the destructor put back what start() made, in their order.
LEMMA ProgressStep ==
  ASSUME Plain, careless = {}, careless' = {}, [Next]_vars
  PROVE  Progress'
<1>1. CASE Starting
  <2>1. CASE SetDispatchMode
    BY <2>1 DEF SetDispatchMode, queueVars, sessionVars, Plain, Progress,
       Threads, Keys, Quiet
  <2>2. CASE Start
    BY <2>2 DEF Start, Plainly, CreateListenKey, queueVars, sessionVars, Plain,
       Progress, Threads, Keys, Quiet
  <2>3. CASE StartConnects
    BY <2>3 DEF StartConnects, StartConsumer, ConnectCalls, queueVars,
       sessionVars, Plain, Progress, Threads, Keys, Quiet
  <2>4. CASE StartFails
    BY <2>4 DEF StartFails, ConnectThrows, queueVars, sessionVars, Plain,
       Progress, Threads, Keys, Quiet
  <2>5. CASE StartReturns
    BY <2>5 DEF StartReturns, ConnectReturns, queueVars, sessionVars, Plain,
       Progress, Threads, Keys, Quiet
  <2> QED BY <1>1, <2>1, <2>2, <2>3, <2>4, <2>5 DEF Starting
<1>2. CASE Stopping
  <2>1. CASE Stop
    BY <2>1, Zenon DEF Stop, Stays, Unchanged, MustJoin, SignalStop, queueVars,
       sessionVars, Plain, Progress, Threads, Keys, Quiet
  <2>2. CASE StopJoinsConsumer
    BY <2>2 DEF StopJoinsConsumer, Stays, Unchanged, JoinConsumer, queueVars,
       sessionVars, Plain, Progress, Threads, Keys, Quiet
  <2>3. CASE StopSignals
    BY <2>3 DEF StopSignals, Stays, Unchanged, queueVars, sessionVars, Plain,
       Progress, Threads, Keys, Quiet
  <2>4. CASE StopJoinsKeepAlive
    BY <2>4 DEF StopJoinsKeepAlive, Stays, Unchanged, JoinedKeepAlive,
       queueVars, sessionVars, Plain, Progress, Threads, Keys, Quiet
  <2>5. CASE StopDeletes
    BY <2>5 DEF StopDeletes, Stays, Unchanged, queueVars, sessionVars, Plain,
       Progress, Threads, Keys, Quiet
  <2>6. CASE StopDisconnects
    BY <2>6 DEF StopDisconnects, Stays, Unchanged, DisconnectCalls, queueVars,
       sessionVars, Plain, Progress, Threads, Keys, Quiet
  <2>7. CASE StopReturns
    BY <2>7 DEF StopReturns, Unchanged, DisconnectReturns, queueVars,
       sessionVars, Plain, Progress, Threads, Keys, Quiet
  <2> QED BY <1>2, <2>1, <2>2, <2>3, <2>4, <2>5, <2>6, <2>7 DEF Stopping
<1>3. CASE Destroying
  <2>1. CASE Destroy
    BY <2>1, Zenon DEF Destroy, Plainly, Unchanged, MustJoin, SignalStop, queueVars,
       sessionVars, Plain, Progress, Threads, Keys, Quiet
  <2>2. CASE DestroyJoins
    BY <2>2 DEF DestroyJoins, Stays, Unchanged, JoinConsumer, queueVars,
       sessionVars, Plain, Progress, Threads, Keys, Quiet
  <2>3. CASE DestroyMembers
    BY <2>3 DEF DestroyMembers, queueVars, sessionVars, Plain, Progress,
       Threads, Keys, Quiet
  <2>4. CASE DestroyUnhooks
    BY <2>4 DEF DestroyUnhooks, Unchanged, queueVars, sessionVars, Plain,
       Progress, Threads, Keys, Quiet
  <2>5. CASE DestroyDisconnects
    BY <2>5 DEF DestroyDisconnects, Stays, Unchanged, DisconnectCalls,
       queueVars, sessionVars, Plain, Progress, Threads, Keys, Quiet
  <2>6. CASE DestroyEnds
    BY <2>6 DEF DestroyEnds, Stays, Unchanged, DisconnectReturns, queueVars,
       sessionVars, Plain, Progress, Threads, Keys, Quiet
  <2> QED BY <1>3, <2>1, <2>2, <2>3, <2>4, <2>5, <2>6 DEF Destroying
<1>4. CASE Keeping
  BY <1>4 DEF Keeping, KeepAliveTests, KeepAliveWakes, KeepAliveRenews,
     Renewed, queueVars, sessionVars, Plain, Progress, Threads, Keys, Quiet
<1>5. CASE Delivering
  BY <1>5 DEF Delivering, MessageArrives, HandleMessage, SessionGoesOn,
     DeliversMessage, HandlerDefined, Queued, Inlined, CallbackReturns,
     Dialled, LoopHalts, LoopEnds, queueVars, sessionVars, Plain, Progress,
     Threads, Keys, Quiet
<1>6. CASE Consuming
  BY <1>6 DEF Consuming, Consume, ConsumerStops, ConsumerTests, OnceStopped,
     ConsumerPops, ConsumerFindsNothing, ConsumerGoesOn, FateOfConsumer,
     Plainly, SignalStop, MustJoin, queueVars, sessionVars, Plain, Progress,
     Threads, Keys, Quiet
<1>7. CASE UNCHANGED vars
  BY <1>7 DEF vars, queueVars, sessionVars, Plain, Progress, Threads, Keys,
     Quiet
<1> QED BY NextIsOneOf, <1>1, <1>2, <1>3, <1>4, <1>5, <1>6, <1>7

\* No thread outlives what it uses.
LEMMA ThreadsStep ==
  ASSUME Plain, careless = {}, careless' = {}, [Next]_vars
  PROVE  Threads'
<1>1. CASE Starting
  <2>1. CASE SetDispatchMode
    BY <2>1 DEF SetDispatchMode, queueVars, sessionVars, Plain, Progress,
       Threads, Keys, Quiet
  <2>2. CASE Start
    BY <2>2 DEF Start, Plainly, CreateListenKey, queueVars, sessionVars, Plain,
       Progress, Threads, Keys, Quiet
  <2>3. CASE StartConnects
    BY <2>3 DEF StartConnects, StartConsumer, ConnectCalls, queueVars,
       sessionVars, Plain, Progress, Threads, Keys, Quiet
  <2>4. CASE StartFails
    BY <2>4 DEF StartFails, ConnectThrows, queueVars, sessionVars, Plain,
       Progress, Threads, Keys, Quiet
  <2>5. CASE StartReturns
    BY <2>5 DEF StartReturns, ConnectReturns, queueVars, sessionVars, Plain,
       Progress, Threads, Keys, Quiet
  <2> QED BY <1>1, <2>1, <2>2, <2>3, <2>4, <2>5 DEF Starting
<1>2. CASE Stopping
  <2>1. CASE Stop
    BY <2>1, Zenon DEF Stop, Stays, Unchanged, MustJoin, SignalStop, queueVars,
       sessionVars, Plain, Progress, Threads, Keys, Quiet
  <2>2. CASE StopJoinsConsumer
    BY <2>2 DEF StopJoinsConsumer, Stays, Unchanged, JoinConsumer, queueVars,
       sessionVars, Plain, Progress, Threads, Keys, Quiet
  <2>3. CASE StopSignals
    BY <2>3 DEF StopSignals, Stays, Unchanged, queueVars, sessionVars, Plain,
       Progress, Threads, Keys, Quiet
  <2>4. CASE StopJoinsKeepAlive
    BY <2>4 DEF StopJoinsKeepAlive, Stays, Unchanged, JoinedKeepAlive,
       queueVars, sessionVars, Plain, Progress, Threads, Keys, Quiet
  <2>5. CASE StopDeletes
    BY <2>5 DEF StopDeletes, Stays, Unchanged, queueVars, sessionVars, Plain,
       Progress, Threads, Keys, Quiet
  <2>6. CASE StopDisconnects
    BY <2>6 DEF StopDisconnects, Stays, Unchanged, DisconnectCalls, queueVars,
       sessionVars, Plain, Progress, Threads, Keys, Quiet
  <2>7. CASE StopReturns
    BY <2>7 DEF StopReturns, Unchanged, DisconnectReturns, queueVars,
       sessionVars, Plain, Progress, Threads, Keys, Quiet
  <2> QED BY <1>2, <2>1, <2>2, <2>3, <2>4, <2>5, <2>6, <2>7 DEF Stopping
<1>3. CASE Destroying
  <2>1. CASE Destroy
    BY <2>1, Zenon DEF Destroy, Plainly, Unchanged, MustJoin, SignalStop, queueVars,
       sessionVars, Plain, Progress, Threads, Keys, Quiet
  <2>2. CASE DestroyJoins
    BY <2>2 DEF DestroyJoins, Stays, Unchanged, JoinConsumer, queueVars,
       sessionVars, Plain, Progress, Threads, Keys, Quiet
  <2>3. CASE DestroyMembers
    BY <2>3 DEF DestroyMembers, queueVars, sessionVars, Plain, Progress,
       Threads, Keys, Quiet
  <2>4. CASE DestroyUnhooks
    BY <2>4 DEF DestroyUnhooks, Unchanged, queueVars, sessionVars, Plain,
       Progress, Threads, Keys, Quiet
  <2>5. CASE DestroyDisconnects
    BY <2>5 DEF DestroyDisconnects, Stays, Unchanged, DisconnectCalls,
       queueVars, sessionVars, Plain, Progress, Threads, Keys, Quiet
  <2>6. CASE DestroyEnds
    BY <2>6 DEF DestroyEnds, Stays, Unchanged, DisconnectReturns, queueVars,
       sessionVars, Plain, Progress, Threads, Keys, Quiet
  <2> QED BY <1>3, <2>1, <2>2, <2>3, <2>4, <2>5, <2>6 DEF Destroying
<1>4. CASE Keeping
  BY <1>4 DEF Keeping, KeepAliveTests, KeepAliveWakes, KeepAliveRenews,
     Renewed, queueVars, sessionVars, Plain, Progress, Threads, Keys, Quiet
<1>5. CASE Delivering
  BY <1>5 DEF Delivering, MessageArrives, HandleMessage, SessionGoesOn,
     DeliversMessage, HandlerDefined, Queued, Inlined, CallbackReturns,
     Dialled, LoopHalts, LoopEnds, queueVars, sessionVars, Plain, Progress,
     Threads, Keys, Quiet
<1>6. CASE Consuming
  BY <1>6 DEF Consuming, Consume, ConsumerStops, ConsumerTests, OnceStopped,
     ConsumerPops, ConsumerFindsNothing, ConsumerGoesOn, FateOfConsumer,
     Plainly, SignalStop, MustJoin, queueVars, sessionVars, Plain, Progress,
     Threads, Keys, Quiet
<1>7. CASE UNCHANGED vars
  BY <1>7 DEF vars, queueVars, sessionVars, Plain, Progress, Threads, Keys,
     Quiet
<1> QED BY NextIsOneOf, <1>1, <1>2, <1>3, <1>4, <1>5, <1>6, <1>7

\* Every key is created, held and deleted once.
LEMMA KeysStep ==
  ASSUME Plain, careless = {}, careless' = {}, [Next]_vars
  PROVE  Keys'
<1>1. CASE Starting
  <2>1. CASE SetDispatchMode
    BY <2>1 DEF SetDispatchMode, queueVars, sessionVars, Plain, Progress,
       Threads, Keys, Quiet
  <2>2. CASE Start
    BY <2>2 DEF Start, Plainly, CreateListenKey, queueVars, sessionVars, Plain,
       Progress, Threads, Keys, Quiet
  <2>3. CASE StartConnects
    BY <2>3 DEF StartConnects, StartConsumer, ConnectCalls, queueVars,
       sessionVars, Plain, Progress, Threads, Keys, Quiet
  <2>4. CASE StartFails
    BY <2>4 DEF StartFails, ConnectThrows, queueVars, sessionVars, Plain,
       Progress, Threads, Keys, Quiet
  <2>5. CASE StartReturns
    BY <2>5 DEF StartReturns, ConnectReturns, queueVars, sessionVars, Plain,
       Progress, Threads, Keys, Quiet
  <2> QED BY <1>1, <2>1, <2>2, <2>3, <2>4, <2>5 DEF Starting
<1>2. CASE Stopping
  <2>1. CASE Stop
    BY <2>1 DEF Stop, Stays, Unchanged, MustJoin, SignalStop, queueVars,
       sessionVars, Plain, Progress, Threads, Keys, Quiet
  <2>2. CASE StopJoinsConsumer
    BY <2>2 DEF StopJoinsConsumer, Stays, Unchanged, JoinConsumer, queueVars,
       sessionVars, Plain, Progress, Threads, Keys, Quiet
  <2>3. CASE StopSignals
    BY <2>3 DEF StopSignals, Stays, Unchanged, queueVars, sessionVars, Plain,
       Progress, Threads, Keys, Quiet
  <2>4. CASE StopJoinsKeepAlive
    BY <2>4 DEF StopJoinsKeepAlive, Stays, Unchanged, JoinedKeepAlive,
       queueVars, sessionVars, Plain, Progress, Threads, Keys, Quiet
  <2>5. CASE StopDeletes
    BY <2>5 DEF StopDeletes, Stays, Unchanged, queueVars, sessionVars, Plain,
       Progress, Threads, Keys, Quiet
  <2>6. CASE StopDisconnects
    BY <2>6 DEF StopDisconnects, Stays, Unchanged, DisconnectCalls, queueVars,
       sessionVars, Plain, Progress, Threads, Keys, Quiet
  <2>7. CASE StopReturns
    BY <2>7 DEF StopReturns, Unchanged, DisconnectReturns, queueVars,
       sessionVars, Plain, Progress, Threads, Keys, Quiet
  <2> QED BY <1>2, <2>1, <2>2, <2>3, <2>4, <2>5, <2>6, <2>7 DEF Stopping
<1>3. CASE Destroying
  BY <1>3 DEF Destroying, Destroy, DestroyJoins, DestroyMembers,
     DestroyUnhooks, DestroyDisconnects, DestroyEnds, Plainly, Unchanged,
     MustJoin, SignalStop, Stays, JoinConsumer, DisconnectCalls,
     DisconnectReturns, queueVars, sessionVars, Plain, Progress, Threads, Keys,
     Quiet
<1>4. CASE Keeping
  BY <1>4 DEF Keeping, KeepAliveTests, KeepAliveWakes, KeepAliveRenews,
     Renewed, queueVars, sessionVars, Plain, Progress, Threads, Keys, Quiet
<1>5. CASE Delivering
  BY <1>5 DEF Delivering, MessageArrives, HandleMessage, SessionGoesOn,
     DeliversMessage, HandlerDefined, Queued, Inlined, CallbackReturns,
     Dialled, LoopHalts, LoopEnds, queueVars, sessionVars, Plain, Progress,
     Threads, Keys, Quiet
<1>6. CASE Consuming
  BY <1>6 DEF Consuming, Consume, ConsumerStops, ConsumerTests, OnceStopped,
     ConsumerPops, ConsumerFindsNothing, ConsumerGoesOn, FateOfConsumer,
     Plainly, SignalStop, MustJoin, queueVars, sessionVars, Plain, Progress,
     Threads, Keys, Quiet
<1>7. CASE UNCHANGED vars
  BY <1>7 DEF vars, queueVars, sessionVars, Plain, Progress, Threads, Keys,
     Quiet
<1> QED BY NextIsOneOf, <1>1, <1>2, <1>3, <1>4, <1>5, <1>6, <1>7

\* No step but the destruction of a started stream takes away what is used.
LEMMA SettledStep ==
  ASSUME Settled, "dropStarted" \notin careless, "dropStarted" \notin careless',
         [Next]_vars
  PROVE  Settled'
<1>1. CASE Starting
  <2>1. CASE SetDispatchMode
    BY <2>1 DEF SetDispatchMode, queueVars, sessionVars, Settled
  <2>2. CASE Start
    BY <2>2 DEF Start, Plainly, CreateListenKey, queueVars, sessionVars, Settled
  <2>3. CASE StartConnects
    BY <2>3 DEF StartConnects, StartConsumer, ConnectCalls, queueVars,
       sessionVars, Settled
  <2>4. CASE StartFails
    BY <2>4 DEF StartFails, ConnectThrows, queueVars, sessionVars, Settled
  <2>5. CASE StartReturns
    BY <2>5 DEF StartReturns, ConnectReturns, queueVars, sessionVars, Settled
  <2> QED BY <1>1, <2>1, <2>2, <2>3, <2>4, <2>5 DEF Starting
<1>2. CASE Stopping
  <2>1. CASE Stop
    BY <2>1 DEF Stop, Stays, Unchanged, MustJoin, SignalStop, queueVars,
       sessionVars, Settled
  <2>2. CASE StopJoinsConsumer
    BY <2>2 DEF StopJoinsConsumer, Stays, Unchanged, JoinConsumer, queueVars,
       sessionVars, Settled
  <2>3. CASE StopSignals
    BY <2>3 DEF StopSignals, Stays, Unchanged, queueVars, sessionVars, Settled
  <2>4. CASE StopJoinsKeepAlive
    BY <2>4 DEF StopJoinsKeepAlive, Stays, Unchanged, JoinedKeepAlive,
       queueVars, sessionVars, Settled
  <2>5. CASE StopDeletes
    BY <2>5 DEF StopDeletes, Stays, Unchanged, queueVars, sessionVars, Settled
  <2>6. CASE StopDisconnects
    BY <2>6 DEF StopDisconnects, Stays, Unchanged, DisconnectCalls, queueVars,
       sessionVars, Settled
  <2>7. CASE StopReturns
    BY <2>7 DEF StopReturns, Unchanged, DisconnectReturns, queueVars,
       sessionVars, Settled
  <2> QED BY <1>2, <2>1, <2>2, <2>3, <2>4, <2>5, <2>6, <2>7 DEF Stopping
<1>3. CASE Destroying
  <2>1. CASE Destroy
    BY <2>1 DEF Destroy, Plainly, Unchanged, MustJoin, SignalStop, queueVars,
       sessionVars, Settled
  <2>2. CASE DestroyJoins
    BY <2>2 DEF DestroyJoins, Stays, Unchanged, JoinConsumer, queueVars,
       sessionVars, Settled
  <2>3. CASE DestroyMembers
    BY <2>3 DEF DestroyMembers, queueVars, sessionVars, Settled
  <2>4. CASE DestroyUnhooks
    BY <2>4 DEF DestroyUnhooks, Unchanged, queueVars, sessionVars, Settled
  <2>5. CASE DestroyDisconnects
    BY <2>5 DEF DestroyDisconnects, Stays, Unchanged, DisconnectCalls,
       queueVars, sessionVars, Settled
  <2>6. CASE DestroyEnds
    BY <2>6 DEF DestroyEnds, Stays, Unchanged, DisconnectReturns, queueVars,
       sessionVars, Settled
  <2> QED BY <1>3, <2>1, <2>2, <2>3, <2>4, <2>5, <2>6 DEF Destroying
<1>4. CASE Keeping
  BY <1>4 DEF Keeping, KeepAliveTests, KeepAliveWakes, KeepAliveRenews,
     Renewed, queueVars, sessionVars, Settled
<1>5. CASE Delivering
  BY <1>5 DEF Delivering, MessageArrives, HandleMessage, SessionGoesOn,
     DeliversMessage, HandlerDefined, Queued, Inlined, CallbackReturns,
     Dialled, LoopHalts, LoopEnds, queueVars, sessionVars, Settled
<1>6. CASE Consuming
  BY <1>6 DEF Consuming, Consume, ConsumerStops, ConsumerTests, OnceStopped,
     ConsumerPops, ConsumerFindsNothing, ConsumerGoesOn, FateOfConsumer,
     Plainly, SignalStop, MustJoin, queueVars, sessionVars, Settled
<1>7. CASE UNCHANGED vars
  BY <1>7 DEF vars, queueVars, sessionVars, Settled
<1> QED BY NextIsOneOf, <1>1, <1>2, <1>3, <1>4, <1>5, <1>6, <1>7

\* The invariant, for every capacity and any number of starts and messages: in a
\* program that stops a stream before it starts it again or destroys it, stop()
\* has always put back what it has passed, and no thread is without what it uses.
THEOREM PlainUseInOrder == Spec => []Plain
<1>1. Init => Plain
  BY DEF Init, SessionInit, QueueInit, Plain, Progress, Threads, Keys, Quiet
<1>2. Plain /\ [Next]_vars => Plain'
  <2> SUFFICES ASSUME Plain, [Next]_vars, careless' = {}
               PROVE  /\ fate' \in {"fine", "refused"}
                      /\ Progress' /\ Threads' /\ Keys'
    BY DEF Plain
  <2>1. careless = {}
    BY StaysPlain
  <2> QED BY <2>1, FateStep, ProgressStep, ThreadsStep, KeysStep
<1> QED BY <1>1, <1>2, PTL DEF Spec

\* Only the destruction of a started stream takes away what a thread uses.
THEOREM SettledInOrder == Spec => []Settled
<1>1. Init => Settled
  BY DEF Init, SessionInit, QueueInit, Settled
<1>2. Settled /\ [Next]_vars => Settled'
  <2> SUFFICES ASSUME Settled, [Next]_vars, "dropStarted" \notin careless'
               PROVE  Settled'
    BY Zenon DEF Settled
  <2>1. "dropStarted" \notin careless
    BY StaysCareless
  <2> QED BY <2>1, SettledStep
<1> QED BY <1>1, <1>2, PTL DEF Spec

\* Such a program is never terminated and meets no undefined behaviour, unless
\* the exchange refuses to renew a key; and one that starts a stream again or
\* stops it in a callback may be terminated and meets no undefined behaviour.
THEOREM PlainUseSafe == Spec => []PlainUseIsSafe
<1>1. Plain /\ Settled => PlainUseIsSafe
  BY DEF Plain, Settled, PlainUseIsSafe
<1> QED BY <1>1, PlainUseInOrder, SettledInOrder, PTL

\* The keep-alive thread reads listen_key_ without the mutex and still only
\* renews a key that the exchange holds.
THEOREM OnlyLiveKeysRenewed == Spec => []RenewsLiveKey
<1>1. Plain => RenewsLiveKey
  BY DEF Plain, Threads, Keys, RenewsLiveKey
<1> QED BY <1>1, PlainUseInOrder, PTL

\* stop() gives every key back that it can know of.
THEOREM StopReturnsKeys == Spec => []KeysAreReturned
<1>1. Plain => KeysAreReturned
  BY DEF Plain, Progress, Quiet, Keys, KeysAreReturned, AtRest
<1> QED BY <1>1, PlainUseInOrder, PTL

\* stop() leaves no thread.
THEOREM StopLeavesNoThread == Spec => []RestIsQuiet
<1>1. Plain => RestIsQuiet
  BY DEF Plain, Progress, Quiet, Threads, RestIsQuiet, AtRest
<1> QED BY <1>1, PlainUseInOrder, PTL

-----------------------------------------------------------------------------
(* Messages and what becomes of them *)

Messages == [n : Nat, e : Events \cup {"other"}]
Histories == [n : Nat, called : BOOLEAN]

\* What becomes of messages, one after another.
LEMMA OutcomesOf ==
  ASSUME NEW s \in Seq(Messages), NEW m \in Messages, NEW events
  PROVE  /\ Outcome(m, events) \in Histories
         /\ Outcomes(s, events) \in Seq(Histories)
         /\ Outcomes(<<>>, events) = <<>>
         /\ Outcomes(Append(s, m), events)
              = Append(Outcomes(s, events), Outcome(m, events))
         /\ Outcomes(<<m>> \o s, events)
              = <<Outcome(m, events)>> \o Outcomes(s, events)
<1>1. \A x \in Messages : Outcome(x, events) \in Histories
  BY DEF Outcome, Messages, Histories
<1> HIDE DEF Outcome
<1>2. Outcomes(s, events) \in Seq(Histories) /\ Len(Outcomes(s, events)) = Len(s)
  BY <1>1 DEF Outcomes
<1>3. Outcomes(<<>>, events) = <<>>
  BY DEF Outcomes
<1>4. Outcomes(Append(s, m), events)
        = Append(Outcomes(s, events), Outcome(m, events))
  BY <1>1, <1>2 DEF Outcomes
<1>5. Outcomes(<<m>> \o s, events)
        = <<Outcome(m, events)>> \o Outcomes(s, events)
  BY <1>1, <1>2 DEF Outcomes
<1> QED BY <1>1, <1>2, <1>3, <1>4, <1>5

\* An element between two sequences belongs to either.
LEMMA AppendToBoth ==
  ASSUME NEW S, NEW r \in Seq(S), NEW s \in Seq(S), NEW x \in S
  PROVE  /\ Append(r \o s, x) = r \o Append(s, x)
         /\ r \o (<<x>> \o s) = Append(r, x) \o s
<1>1. <<x>> \in Seq(S) /\ r \o s \in Seq(S)
  OBVIOUS
<1>2. Append(r \o s, x) = r \o (s \o <<x>>)
  BY <1>1, AppendIsConcat, ConcatAssociative
<1>3. s \o <<x>> = Append(s, x) /\ r \o <<x>> = Append(r, x)
  BY AppendIsConcat
<1>4. r \o (<<x>> \o s) = (r \o <<x>>) \o s
  BY <1>1, ConcatAssociative
<1> QED BY <1>2, <1>3, <1>4, Zenon

-----------------------------------------------------------------------------
(* The dispatch of the messages *)

\* While the process is well, however the stream is used: a consumer that runs
\* can be joined, there is one only in queued mode, and the mode is not changed
\* once a handler is installed.
Wired ==
  fate = "fine" =>
    /\ handles \subseteq Events
    /\ mode \in {"Inline", "Queued"}
    /\ consumer \notin {"none", "exited"} => joinable
    /\ consumer # "none" => mode = "Queued"
    /\ handler = "queue" => mode = "Queued"
    /\ handler = "inline" => mode = "Inline"
    /\ ~started => handler \in {"none", "destroyed"} /\ app # "starting"

\* The messages are where these threads put them, and in order.
Ordered ==
  fate = "fine" =>
    /\ arrived \in Nat
    /\ inbox = <<>> \/ \E m \in Messages : inbox = <<m>>
    /\ queue \in Seq(Messages)
    /\ IF consumer \in {"dispatch", "dispatchLast"}
       THEN \E m \in Messages : taken = <<m>>
       ELSE taken = <<>>
    /\ kept \in Seq(Histories) /\ received \in Seq(Histories)
    /\ mode = "Inline" => queue = <<>>
    /\ kept = received \o Outcomes(taken \o queue, handles)

\* Every step keeps the threads so.
LEMMA WiredStep ==
  ASSUME Wired, [Next]_vars
  PROVE  Wired'
<1>1. CASE Starting
  BY <1>1 DEF Starting, SetDispatchMode, Start, StartConnects, StartFails,
     StartReturns, CreateListenKey, StartConsumer, queueVars, Wired
<1>2. CASE Stopping
  BY <1>2 DEF Stopping, Stop, StopJoinsConsumer, StopSignals,
     StopJoinsKeepAlive, StopDeletes, StopDisconnects, StopReturns, Stays,
     Unchanged, MustJoin, SignalStop, JoinConsumer, queueVars, Wired
<1>3. CASE Destroying
  BY <1>3 DEF Destroying, Destroy, DestroyJoins, DestroyMembers,
     DestroyUnhooks, DestroyDisconnects, DestroyEnds, Unchanged,
     MustJoin, SignalStop, Stays, JoinConsumer, queueVars, Wired
<1>4. CASE Keeping
  BY <1>4 DEF Keeping, KeepAliveTests, KeepAliveWakes, KeepAliveRenews, queueVars,
     Wired
<1>5. CASE Delivering
  BY <1>5 DEF Delivering, MessageArrives, HandleMessage, SessionGoesOn, queueVars,
     Wired
<1>6. CASE Consuming
  BY <1>6, Zenon DEF Consuming, Consume, ConsumerStops, ConsumerTests, OnceStopped,
     ConsumerPops, ConsumerFindsNothing, ConsumerGoesOn, FateOfConsumer,
     SignalStop, MustJoin, queueVars, Wired
<1>7. CASE UNCHANGED vars
  BY <1>7 DEF vars, queueVars, Wired
<1> QED BY NextIsOneOf, <1>1, <1>2, <1>3, <1>4, <1>5, <1>6, <1>7

\* A step that leaves the messages where they are.
LEMMA OrderedFrame ==
  ASSUME Ordered, fate = "fine", mode' = mode \/ mode' = "Queued",
         UNCHANGED <<queue, taken, kept, received, inbox, arrived, handles>>,
         consumer' = consumer \/ {consumer, consumer'} \cap {"dispatch", "dispatchLast"} = {}
  PROVE  Ordered'
  BY Zenon DEF Ordered

\* While nothing is kept the outcomes are none.
LEMMA NothingPending ==
  ASSUME kept = received \o Outcomes(taken \o queue, handles), taken = <<>>, queue = <<>>,
         received \in Seq(Histories)
  PROVE  kept = received
<1>1. Outcomes(<<>>, handles) = <<>>
  BY DEF Outcomes
<1> QED BY <1>1

\* The handler appends a message to what is pending, or dispatches it when
\* nothing is.
LEMMA HandleOrdered ==
  ASSUME Wired, Ordered, HandleMessage
  PROVE  Ordered'
<1> SUFFICES ASSUME fate' = "fine" PROVE Ordered'
  BY DEF Ordered
<1> DEFINE m == inbox[1]
           pending == taken \o queue
<1>1. /\ fate = "fine" /\ inbox # <<>> /\ inbox' = <<>>
      /\ (handler = "queue" /\ Queued(m)) \/ (handler = "inline" /\ Inlined(m))
      /\ UNCHANGED <<handles, app, mode, arrived, consumer, joinable, taken>>
  BY DEF HandleMessage
<1>2. m \in Messages /\ queue \in Seq(Messages) /\ taken \in Seq(Messages)
      /\ kept \in Seq(Histories) /\ received \in Seq(Histories) /\ arrived \in Nat
      /\ kept = received \o Outcomes(pending, handles)
  <2>1. PICK x \in Messages : inbox = <<x>>
    BY <1>1 DEF Ordered
  <2>2. taken = <<>> \/ \E y \in Messages : taken = <<y>>
    BY <1>1 DEF Ordered
  <2>3. m \in Messages
    BY <2>1
  <2>4. taken \in Seq(Messages)
    <3>1. <<>> \in Seq(Messages) /\ \A y \in Messages : <<y>> \in Seq(Messages)
      OBVIOUS
    <3> QED BY <2>2, <3>1, Zenon
  <2> HIDE DEF m
  <2> QED BY <1>1, <2>3, <2>4 DEF Ordered
<1>3. handles' = handles
  BY <1>1
<1>4. \A x : Dispatch(x) = Outcome(x, handles)
  BY <1>1, Zenon DEF Wired, Dispatch
<1> HIDE DEF m
<1>5. /\ Outcome(m, handles) \in Histories /\ Outcomes(pending, handles) \in Seq(Histories)
      /\ Outcomes(Append(pending, m), handles)
           = Append(Outcomes(pending, handles), Outcome(m, handles))
  <2>1. pending \in Seq(Messages)
    BY <1>2
  <2> HIDE DEF pending
  <2> QED BY <1>2, <2>1, OutcomesOf, Zenon
<1>6. CASE handler = "queue" /\ Queued(m)
  <2>1. CASE queue' = queue
    BY <1>1, <1>2, <1>3, <1>6, <2>1 DEF Queued, Ordered
  <2>2. CASE queue' # queue
    <3>1. /\ queue' = Append(queue, m) /\ kept' = Append(kept, Outcome(m, handles))
          /\ received' = received
      BY <1>6, <2>2 DEF Queued, Pushed
    <3>2. taken' \o queue' = Append(pending, m)
      BY <1>1, <1>2, <3>1
    <3>3. queue' \in Seq(Messages) /\ kept' \in Seq(Histories)
      BY <1>2, <1>5, <3>1
    <3>4. kept' = received' \o Outcomes(taken' \o queue', handles')
      <4> HIDE DEF pending
      <4> DEFINE now == Outcomes(pending, handles)
                 last == Outcome(m, handles)
      <4>1. Append(received \o now, last) = received \o Append(now, last)
        BY <1>2, <1>5, AppendToBoth
      <4> QED BY <1>2, <1>3, <1>5, <3>1, <3>2, <4>1, Zenon
    <3>5. mode = "Queued"
      BY <1>1, <1>6 DEF Wired
    <3> HIDE DEF pending
    <3> QED BY <1>1, <1>2, <3>1, <3>3, <3>4, <3>5 DEF Ordered
  <2> QED BY <2>1, <2>2
<1>7. CASE handler = "inline" /\ Inlined(m)
  <2>1. queue = <<>> /\ taken = <<>> /\ consumer = "none"
    BY <1>1, <1>7 DEF Wired, Ordered
  <2>2. kept = received
    BY <1>2, <2>1, NothingPending
  <2>3. /\ received' = Append(received, Outcome(m, handles))
        /\ kept' = Append(kept, Outcome(m, handles)) /\ queue' = queue
    BY <1>4, <1>7 DEF Inlined
  <2>4. received' \in Seq(Histories)
    BY <1>2, <1>5, <2>3
  <2>5. Outcomes(<<>>, handles') = <<>> /\ <<>> \in Seq(Messages) /\ <<>> \o <<>> = <<>>
    BY DEF Outcomes
  <2> HIDE DEF pending
  <2> QED BY <1>1, <1>2, <2>1, <2>2, <2>3, <2>4, <2>5 DEF Ordered
<1> QED BY <1>1, <1>6, <1>7

\* The consumer takes the first of what is pending, and dispatches it.
LEMMA ConsumeOrdered ==
  ASSUME Wired, Ordered, Consume
  PROVE  Ordered'
<1> SUFFICES ASSUME fate' = "fine" PROVE Ordered'
  BY DEF Ordered
<1>1. /\ fate = "fine"
      /\ UNCHANGED <<handles, app, mode, inbox, arrived, kept, joinable>>
  BY DEF Consume, ConsumerTests, ConsumerPops, ConsumerFindsNothing, ConsumerGoesOn
<1>2. handles' = handles
  BY <1>1
<1>3. CASE ConsumerTests \/ ConsumerFindsNothing
  <2>1. UNCHANGED <<queue, taken, received>>
    BY <1>3 DEF Consume, ConsumerTests, ConsumerFindsNothing, ConsumerPops,
       ConsumerGoesOn
  <2>2. {consumer, consumer'} \cap {"dispatch", "dispatchLast"} = {}
    BY <1>3 DEF ConsumerTests, ConsumerFindsNothing, OnceStopped
  <2> QED BY <1>1, <2>1, <2>2, OrderedFrame
<1>4. CASE ConsumerPops
  <2>1. received' = received /\ consumer \notin {"dispatch", "dispatchLast"}
        /\ consumer' \in {"dispatch", "dispatchLast"}
    BY <1>4 DEF Consume, ConsumerPops, ConsumerGoesOn
  <2>2. queue # <<>> /\ taken' = <<Head(queue)>> /\ queue' = Tail(queue)
    BY <1>4 DEF ConsumerPops
  <2>3. queue \in Seq(Messages) /\ taken = <<>>
    BY <1>1, <2>1 DEF Ordered
  <2>4. /\ taken' \o queue' = taken \o queue /\ queue' \in Seq(Messages)
        /\ Head(queue) \in Messages
    BY <2>2, <2>3
  <2>5. kept' = received' \o Outcomes(taken' \o queue', handles')
    BY <1>1, <1>2, <2>1, <2>4 DEF Ordered
  <2> QED BY <1>1, <2>1, <2>2, <2>4, <2>5, Zenon DEF Ordered
<1>5. CASE ConsumerGoesOn /\ received' = Append(received, Dispatch(taken[1]))
  <2>1. /\ consumer \in {"dispatch", "dispatchLast"} /\ taken' = <<>> /\ queue' = queue
        /\ consumer' \notin {"dispatch", "dispatchLast"}
    BY <1>5 DEF ConsumerGoesOn
  <2>2. PICK m \in Messages : taken = <<m>>
    BY <1>1, <2>1 DEF Ordered
  <2>3. \A x : Dispatch(x) = Outcome(x, handles)
    BY <1>1 DEF Wired, Dispatch
  <2>4. received' = Append(received, Outcome(m, handles))
    BY <1>5, <2>2, <2>3
  <2>5. /\ queue \in Seq(Messages) /\ received \in Seq(Histories)
        /\ kept = received \o Outcomes(<<m>> \o queue, handles)
    BY <1>1, <2>2, Zenon DEF Ordered
  <2>6. /\ Outcome(m, handles) \in Histories /\ Outcomes(queue, handles) \in Seq(Histories)
        /\ Outcomes(<<m>> \o queue, handles)
             = <<Outcome(m, handles)>> \o Outcomes(queue, handles)
    BY <2>5, OutcomesOf, Zenon
  <2>7. kept' = received' \o Outcomes(taken' \o queue', handles')
    <3> DEFINE first == Outcome(m, handles)
               rest == Outcomes(queue, handles)
    <3>1. received \o (<<first>> \o rest) = Append(received, first) \o rest
      <4>1. received \in Seq(Histories) /\ first \in Histories /\ rest \in Seq(Histories)
        BY <2>5, <2>6
      <4> HIDE DEF first, rest
      <4> QED BY <4>1, AppendToBoth
    <3>2. taken' \o queue' = queue
      BY <2>1, <2>5
    <3> QED BY <1>1, <1>2, <2>4, <2>5, <2>6, <3>1, <3>2, Zenon
  <2>8. received' \in Seq(Histories)
    BY <2>4, <2>5, <2>6
  <2> QED BY <1>1, <2>1, <2>5, <2>7, <2>8, Zenon DEF Ordered
<1> QED BY <1>3, <1>4, <1>5 DEF Consume

\* Every step keeps the messages in order.
LEMMA OrderedStep ==
  ASSUME Wired, Ordered, [Next]_vars
  PROVE  Ordered'
<1>1. CASE Starting
  <2>1. CASE StartConnects
    <3> SUFFICES ASSUME fate' = "fine" PROVE Ordered'
      BY DEF Ordered
    <3>1. /\ fate = "fine" /\ mode' = mode
          /\ UNCHANGED <<queue, taken, kept, received, inbox, arrived, handles>>
      BY <2>1 DEF StartConnects, StartConsumer, queueVars
    <3>2. consumer' = consumer
          \/ {consumer, consumer'} \cap {"dispatch", "dispatchLast"} = {}
      BY <2>1, <3>1 DEF StartConnects, StartConsumer, queueVars, Wired
    <3> QED BY <3>1, <3>2, OrderedFrame
  <2>2. CASE SetDispatchMode \/ Start \/ StartFails \/ StartReturns
    BY <2>2, OrderedFrame DEF SetDispatchMode, Start, StartFails, StartReturns,
       queueVars
  <2> QED BY <1>1, <2>1, <2>2 DEF Starting
<1>2. CASE Stopping
  BY <1>2, OrderedFrame, Zenon DEF Stopping, Stop, StopJoinsConsumer, StopSignals,
     StopJoinsKeepAlive, StopDeletes, StopDisconnects, StopReturns, Stays,
     Unchanged, SignalStop, JoinConsumer, queueVars
<1>3. CASE Destroying
  BY <1>3, OrderedFrame DEF Destroying, Destroy, DestroyJoins, DestroyMembers,
     DestroyUnhooks, DestroyDisconnects, DestroyEnds, Unchanged, SignalStop, Stays,
     JoinConsumer, queueVars
<1>4. CASE Keeping
  BY <1>4, OrderedFrame, Zenon DEF Keeping, KeepAliveTests, KeepAliveWakes,
     KeepAliveRenews, queueVars
<1>5. CASE MessageArrives
  <2>1. PICK e \in Events \cup {"other"} : inbox' = <<[n |-> arrived + 1, e |-> e]>>
    BY <1>5 DEF MessageArrives
  <2>2. arrived' \in Nat /\ \E m \in Messages : inbox' = <<m>>
    BY <1>5, <2>1 DEF MessageArrives, Ordered, Messages
  <2> QED BY <1>5, <2>2 DEF MessageArrives, queueVars, Ordered
<1>6. CASE HandleMessage
  BY <1>6, HandleOrdered
<1>7. CASE SessionGoesOn
  BY <1>7, OrderedFrame DEF SessionGoesOn, queueVars
<1>8. CASE Consume
  BY <1>8, ConsumeOrdered
<1>9. CASE ConsumerStops
  BY <1>9, OrderedFrame DEF ConsumerStops, SignalStop
<1>10. CASE UNCHANGED vars
  <2>1. CASE fate = "fine"
    BY <1>10, <2>1, OrderedFrame DEF vars, queueVars
  <2>2. CASE fate # "fine"
    BY <1>10, <2>2 DEF vars, Ordered
  <2> QED BY <2>1, <2>2
<1> QED BY NextIsOneOf, <1>1, <1>2, <1>3, <1>4, <1>5, <1>6, <1>7, <1>8, <1>9, <1>10
   DEF Delivering, Consuming

-----------------------------------------------------------------------------
(* What arrived and what was kept *)

\* The messages are numbered as they arrive, and what is kept grows in that
\* order; a message is passed over only once a queue was filled.
Accounted ==
  fate = "fine" =>
    /\ inbox # <<>> => thread = "message"
    /\ inbox # <<>> => inbox[1].n = arrived
    /\ \A i \in DOMAIN kept : kept[i].n + Len(inbox) <= arrived
    /\ \A i, j \in DOMAIN kept : i < j => kept[i].n < kept[j].n
    /\ \/ Len(kept) + Len(inbox) = arrived
       \/ mode = "Queued" /\ Len(kept) >= QueueCapacity

\* What waits in the queue was kept.
LEMMA QueueWasKept ==
  ASSUME Ordered, fate = "fine"
  PROVE  Len(queue) <= Len(kept)
<1>1. taken \in Seq(Messages) /\ queue \in Seq(Messages) /\ received \in Seq(Histories)
  <2>1. taken = <<>> \/ \E m \in Messages : taken = <<m>>
    BY DEF Ordered
  <2>2. <<>> \in Seq(Messages) /\ \A y \in Messages : <<y>> \in Seq(Messages)
    OBVIOUS
  <2>3. taken \in Seq(Messages)
    BY <2>1, <2>2, Zenon
  <2> QED BY <2>3 DEF Ordered
<1> DEFINE pending == taken \o queue
           due == Outcomes(pending, handles)
<1>2. pending \in Seq(Messages) /\ Len(pending) = Len(taken) + Len(queue)
  BY <1>1
<1>3. due \in Seq(Histories) /\ Len(due) = Len(pending)
  <2> HIDE DEF pending
  <2>1. \A x \in Messages : Outcome(x, handles) \in Histories
    BY DEF Outcome, Messages, Histories
  <2> HIDE DEF Outcome
  <2> QED BY <1>2, <2>1 DEF Outcomes
<1>4. kept = received \o due
  BY DEF Ordered
<1> HIDE DEF pending, due
<1> QED BY <1>1, <1>2, <1>3, <1>4

\* What is kept is numbered.
LEMMA Numbered ==
  ASSUME NEW s \in Seq(Histories)
  PROVE  \A i \in DOMAIN s : s[i].n \in Nat
<1>1. \A i \in DOMAIN s : s[i] \in Histories
  OBVIOUS
<1>2. \A h \in Histories : h.n \in Nat
  BY DEF Histories
<1> QED BY <1>1, <1>2

\* A message that is kept comes last.
LEMMA KeepsLast ==
  ASSUME Accounted, Ordered, fate = "fine", inbox # <<>>, inbox' = <<>>,
         UNCHANGED <<arrived, mode>>, NEW h \in Histories, h.n = inbox[1].n,
         kept' = Append(kept, h)
  PROVE  Accounted'
<1>1. /\ arrived \in Nat /\ kept \in Seq(Histories) /\ Len(inbox) = 1
      /\ h.n = arrived /\ \A i \in DOMAIN kept : kept[i].n \in Nat
  <2>1. arrived \in Nat /\ kept \in Seq(Histories)
    BY DEF Ordered
  <2>2. Len(inbox) = 1
    BY DEF Ordered
  <2>3. h.n = arrived
    BY DEF Accounted
  <2> QED BY <2>1, <2>2, <2>3, Numbered
<1>2. /\ Len(kept') = Len(kept) + 1 /\ DOMAIN kept' = 1..(Len(kept) + 1)
      /\ DOMAIN kept = 1..Len(kept) /\ Len(kept) \in Nat
      /\ kept'[Len(kept) + 1] = h
      /\ \A i \in 1..Len(kept) : kept'[i] = kept[i]
  BY <1>1
<1>3. \A i \in DOMAIN kept' : kept'[i].n + Len(inbox') <= arrived'
  BY <1>1, <1>2 DEF Accounted
<1>4. \A i, j \in DOMAIN kept' : i < j => kept'[i].n < kept'[j].n
  BY <1>1, <1>2 DEF Accounted
<1>5. \/ Len(kept') + Len(inbox') = arrived'
      \/ mode' = "Queued" /\ Len(kept') >= QueueCapacity
  BY <1>1, <1>2, QueueAssumption DEF Accounted
<1> QED BY <1>3, <1>4, <1>5 DEF Accounted

\* The handler keeps the message, unless the queue is full.
LEMMA HandleAccounted ==
  ASSUME Wired, Ordered, Accounted, HandleMessage
  PROVE  Accounted'
<1> SUFFICES ASSUME fate' = "fine" PROVE Accounted'
  BY DEF Accounted
<1> DEFINE m == inbox[1]
<1>1. /\ fate = "fine" /\ inbox # <<>> /\ inbox' = <<>>
      /\ (handler = "queue" /\ Queued(m)) \/ (handler = "inline" /\ Inlined(m))
      /\ UNCHANGED <<arrived, mode>>
  BY DEF HandleMessage
<1>2. m \in Messages /\ Len(inbox) = 1
  BY <1>1 DEF Ordered
<1> DEFINE h == Outcome(m, handles)
<1>3. h \in Histories /\ h.n = m.n
  BY <1>2 DEF Outcome, Messages, Histories
<1> HIDE DEF m, h
<1>4. CASE kept' = Append(kept, h)
  BY <1>1, <1>3, <1>4, KeepsLast DEF m
<1>5. CASE kept' # Append(kept, h)
  <2>1. handler = "queue" /\ kept' = kept /\ Pushed(queue, m) = queue
    BY <1>1, <1>5 DEF Queued, Inlined, h
  <2>2. Len(queue) >= QueueCapacity /\ queue \in Seq(Messages)
    BY <1>1, <1>2, <2>1, QueueAssumption DEF Pushed, Ordered
  <2>3. mode = "Queued" /\ Len(kept) >= QueueCapacity
    BY <1>1, <2>1, <2>2, QueueWasKept, QueueAssumption DEF Wired, Ordered
  <2>4. arrived \in Nat /\ \A i \in DOMAIN kept : kept[i].n \in Nat
    BY <1>1, Numbered DEF Ordered
  <2>5. \A i \in DOMAIN kept' : kept'[i].n + Len(inbox') <= arrived'
    BY <1>1, <1>2, <2>1, <2>4 DEF Accounted
  <2> QED BY <1>1, <2>1, <2>3, <2>5 DEF Accounted
<1> QED BY <1>4, <1>5

\* A message that arrives has the next number.
LEMMA ArrivalAccounted ==
  ASSUME Wired, Ordered, Accounted, MessageArrives
  PROVE  Accounted'
<1>1. /\ fate = "fine" /\ thread = "loop" /\ arrived' = arrived + 1
      /\ UNCHANGED <<kept, mode>>
  BY DEF MessageArrives, DeliversMessage
<1>2. inbox = <<>> /\ arrived \in Nat /\ kept \in Seq(Histories)
  BY <1>1 DEF Wired, Ordered, Accounted
<1>3. inbox' # <<>> /\ inbox'[1].n = arrived + 1 /\ Len(inbox') = 1
  BY DEF MessageArrives
<1>4. \A i \in DOMAIN kept : kept[i].n \in Nat
  BY <1>2, Numbered
<1>5. \A i \in DOMAIN kept' : kept'[i].n + Len(inbox') <= arrived'
  BY <1>1, <1>2, <1>3, <1>4 DEF Accounted
<1>6. \/ Len(kept') + Len(inbox') = arrived'
      \/ mode' = "Queued" /\ Len(kept') >= QueueCapacity
  BY <1>1, <1>2, <1>3 DEF Accounted
<1>7. thread' = "message"
  BY DEF MessageArrives, DeliversMessage
<1> QED BY <1>1, <1>3, <1>5, <1>6, <1>7 DEF Accounted

\* A step that leaves the messages where they are.
LEMMA AccountedFrame ==
  ASSUME Accounted, fate = "fine", mode' = mode \/ mode' = "Queued",
         UNCHANGED <<kept, inbox, arrived>>, thread = "message" => thread' = "message"
  PROVE  Accounted'
  BY DEF Accounted

\* Every step keeps count.
LEMMA AccountedStep ==
  ASSUME Wired, Ordered, Accounted, [Next]_vars
  PROVE  Accounted'
<1> DEFINE Still == /\ fate = "fine" /\ (mode' = mode \/ mode' = "Queued")
                    /\ UNCHANGED <<kept, inbox, arrived>>
                    /\ thread = "message" => thread' = "message"
<1>1. ASSUME Starting PROVE Still
  BY <1>1 DEF Starting, SetDispatchMode, Start, StartConnects, StartFails,
     StartReturns, ConnectCalls, ConnectThrows, ConnectReturns, sessionVars
<1>2. ASSUME Stopping PROVE Still
  BY <1>2 DEF Stopping, Stop, StopJoinsConsumer, StopSignals, StopJoinsKeepAlive,
     StopDeletes, StopDisconnects, StopReturns, Stays, Unchanged, DisconnectCalls,
     DisconnectReturns, sessionVars
<1>3. ASSUME Destroying PROVE Still
  BY <1>3 DEF Destroying, Destroy, DestroyJoins, DestroyMembers, DestroyUnhooks,
     DestroyDisconnects, DestroyEnds, Stays, Unchanged, DisconnectCalls,
     DisconnectReturns, sessionVars
<1>4. ASSUME Keeping PROVE Still
  BY <1>4 DEF Keeping, KeepAliveTests, KeepAliveWakes, KeepAliveRenews, sessionVars
<1>5. CASE MessageArrives
  BY <1>5, ArrivalAccounted
<1>6. CASE HandleMessage
  BY <1>6, HandleAccounted
<1>7. ASSUME SessionGoesOn PROVE Still
  BY <1>7 DEF SessionGoesOn, Dialled, LoopHalts, LoopEnds
<1>8. ASSUME Consuming PROVE Still
  <2>1. CASE Consume
    BY <2>1 DEF Consume, sessionVars
  <2>2. CASE ConsumerStops
    BY <2>2, Zenon DEF ConsumerStops, sessionVars
  <2> QED BY <1>8, <2>1, <2>2 DEF Consuming
<1>9. CASE UNCHANGED vars
  <2>1. CASE fate = "fine"
    BY <1>9, <2>1, AccountedFrame DEF vars, sessionVars
  <2>2. CASE fate # "fine"
    BY <1>9, <2>2 DEF vars, Accounted
  <2> QED BY <2>1, <2>2
<1>10. Still => Accounted'
  BY AccountedFrame
<1> HIDE DEF Still
<1> QED BY NextIsOneOf, <1>1, <1>2, <1>3, <1>4, <1>5, <1>6, <1>7, <1>8, <1>9, <1>10,
   Zenon DEF Delivering

\* However the stream is used, as long as the process is well every message that
\* on_message kept is dispatched once and in the order of arrival, inline, by
\* the consumer, in the drain or after a later start(), and a callback is called
\* with exactly the events whose callback is set; and no message is lost but to a
\* queue that was filled.
THEOREM DispatchedInOrder == Spec => []InOrder
<1>1. Init => Wired /\ Ordered /\ Accounted
  <2>1. Outcomes(<<>>, handles) = <<>> /\ <<>> \in Seq(Messages)
        /\ <<>> \in Seq(Histories) /\ <<>> \o <<>> = <<>>
    BY DEF Outcomes
  <2>2. Init => Wired /\ Ordered
    BY <2>1, UserAssumption DEF Init, QueueInit, Wired, Ordered
  <2>3. Init => Accounted
    BY DEF Init, Accounted
  <2> QED BY <2>2, <2>3
<1>2. Wired /\ Ordered /\ Accounted /\ [Next]_vars => Wired' /\ Ordered' /\ Accounted'
  BY WiredStep, OrderedStep, AccountedStep
<1>3. Ordered /\ Accounted => InOrder
  BY DEF Ordered, Accounted, InOrder
<1> QED BY <1>1, <1>2, <1>3, PTL DEF Spec

=============================================================================

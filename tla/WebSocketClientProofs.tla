----------------------- MODULE WebSocketClientProofs -----------------------
(***************************************************************************)
(* Proofs about WebSocketClient, for every configuration and whatever the  *)
(* bounds on calls, losses and handlers that TLC needs.  The invariants    *)
(* are proved one after the other, each from those before it; a lemma has  *)
(* one case for each of the four parts of Next.                            *)
(***************************************************************************)
EXTENDS WebSocketClient, SequenceTheorems, TLAPS

USE DEF AppGoes, IoGoes, CallsBack, appVars, flagVars, queueVars, pingVars,
        ioVars, netVars

-----------------------------------------------------------------------------
(* Types *)

Control ==
  /\ app \in {"ready", "waiting", "failed", "using", "disconnecting",
              "cancelling", "posting", "joining", "dead"}
  /\ sender \in {"idle", "posting"}
  /\ outcome \in {"none", "ok", "error"}
  /\ io \in {"none", "connect", "reading", "rereading", "arming", "loop",
             "callback", "retrying", "dial", "dialling", "pinging", "exited",
             "dead"}
  /\ after \in {"loop", "rereading", "retrying", "dial"}

Flags ==
  {connected, shouldStop, gaveUp, stopped, pingArmed, open, link} \subseteq BOOLEAN

Counts ==
  /\ calls \in 0..MaxCalls
  /\ pingDue \in 0..MaxDue
  /\ losses \in 0..MaxLosses

Reads == reads \in [waiting : Nat, failed : Nat, data : Nat]

Total == reads.waiting + reads.failed + reads.data

\* A chain of reconnects that has an attempt left.
Pending == {c \in Chain : c.attempt < MaxReconnectAttempts}

\* The I/O thread has taken a chain from a timer and the attempt is not over.
Trying == io \in {"dial", "dialling"} \/ (io = "callback" /\ after = "dial")

Queues ==
  /\ posted \in Seq({"send", "close"})
  /\ timers \in Seq(Pending)
  /\ chain \in Chain
  /\ Trying => chain \in Pending

Types == Control /\ Flags /\ Counts /\ Reads /\ Queues

\* The bounds are numbers.
LEMMA BoundsType ==
  /\ MaxCalls \in Nat /\ MaxLosses \in Nat
  /\ MaxPosted \in Nat /\ MaxDue \in Nat
  BY EnvironmentAssumption

\* The timers without one that expired.
LEMMA WithoutType ==
  ASSUME NEW S, NEW t \in Seq(S), NEW i \in DOMAIN t
  PROVE  /\ Without(t, i) \in Seq(S) /\ Len(Without(t, i)) = Len(t) - 1
         /\ t[i] \in S
<1> DEFINE n == Len(t)
           a == SubSeq(t, 1, i - 1)
           b == SubSeq(t, i + 1, n)
<1>1. n \in Nat /\ i \in 1..n /\ t[i] \in S
  OBVIOUS
<1>2. a \in Seq(S) /\ Len(a) = i - 1
  BY <1>1
<1>3. b \in Seq(S) /\ Len(b) = n - i
  BY <1>1
<1> HIDE DEF a, b
<1>4. a \o b \in Seq(S) /\ Len(a \o b) = Len(a) + Len(b)
  BY <1>2, <1>3, ConcatProperties
<1>5. Len(a) + Len(b) = n - 1
  BY <1>1, <1>2, <1>3
<1> QED BY <1>1, <1>4, <1>5 DEF Without, a, b

\* A chain of reconnects starts with the configured interval, and an attempt
\* that failed leads to the next of its chain.
LEMMA ChainType ==
  /\ FirstTry \in Chain
  /\ \A c \in Pending : c \in Chain /\ NextTry(c) \in Chain
  BY ConfigAssumption DEF Pending, Chain, FirstTry, NextTry, DelayCap

\* A new stream fails the reads of the old one; none is lost.
LEMMA NewStreamKeeps ==
  ASSUME Reads, NewStream
  PROVE  Reads' /\ Total' = Total
<1>1. /\ reads'.waiting = 0 /\ reads'.failed = reads.failed + reads.waiting
      /\ reads'.data = reads.data
      /\ reads' = [waiting |-> 0, failed |-> reads.failed + reads.waiting,
                   data |-> reads.data]
  BY Zenon DEF Reads, NewStream
<1> QED BY <1>1 DEF Reads, Total

\* do_read() starts one read unless the client stops.
LEMMA DoReadAdds ==
  ASSUME Reads, DoRead
  PROVE  Reads' /\ Total' = IF shouldStop THEN Total ELSE Total + 1
<1>1. CASE shouldStop
  BY <1>1 DEF DoRead, Reads, Total
<1>2. CASE ~shouldStop
  <2>1. reads' = [waiting |-> reads.waiting + 1, failed |-> reads.failed,
                  data |-> reads.data]
    BY <1>2 DEF DoRead, Reads
  <2> QED BY <1>2, <2>1 DEF Reads, Total
<1> QED BY <1>1, <1>2

\* A read that ends still counts until its handler has run.
LEMMA ReadEndsKeeps ==
  ASSUME Reads, ReadEnds
  PROVE  Reads' /\ Total' = Total
<1>1. \/ reads' = [waiting |-> reads.waiting - 1, failed |-> reads.failed,
                   data |-> reads.data + 1]
      \/ reads' = [waiting |-> reads.waiting - 1, failed |-> reads.failed + 1,
                   data |-> reads.data]
  BY Zenon DEF ReadEnds, Reads
<1>2. reads.waiting - 1 \in Nat
  BY DEF ReadEnds, Reads
<1> QED BY <1>1, <1>2 DEF Reads, Total

\* handle_read() uses up one.
LEMMA HandleTakes ==
  ASSUME Reads, HandleRead \/ HandleReadError
  PROVE  Reads' /\ Total' = Total - 1 /\ Total' \in Nat
<1>1. CASE HandleRead
  <2>1. reads' = [waiting |-> reads.waiting, failed |-> reads.failed,
                  data |-> reads.data - 1] /\ reads.data - 1 \in Nat
    BY <1>1 DEF HandleRead, Reads
  <2> QED BY <2>1 DEF Reads, Total
<1>2. CASE HandleReadError
  <2>1. reads' = [waiting |-> reads.waiting, failed |-> reads.failed - 1,
                  data |-> reads.data] /\ reads.failed - 1 \in Nat
    BY <1>2 DEF HandleReadError, Taken, Reads
  <2> QED BY <2>1 DEF Reads, Total
<1> QED BY <1>1, <1>2

\* Every thread is at one of its places.
LEMMA ControlStep ==
  ASSUME Control, [Next]_vars
  PROVE  Control'
<1>1. CASE Application
  BY <1>1 DEF Application, Connect, ConnectAgain, ConnectReturns,
     ConnectThrows, DisconnectCall, DisconnectStore, DisconnectCancel,
     DisconnectPost, DisconnectJoin, SendCheck, SendPost, Control
<1>2. CASE Straight
  BY <1>2 DEF Straight, ConnectOk, ConnectFail, DoRead, DoPingTimer,
     CallbackReturns, CallbackDisconnects, AttemptReconnect, Dial, DialOk,
     DialFail, PingOk, PingFail, ErrorNotified, ConnectedNoMore, Control
<1>3. CASE Handler
  BY <1>3 DEF Handler, HandleRead, HandleReadError, HandlePing,
     HandleReconnect, HandleSend, HandleClose, RunReturns, AfterMessage,
     AfterError, Running, Control
<1>4. CASE Environment
  BY <1>4 DEF Environment, LinkBreaks, ReadEnds, PingTimerExpires, Control
<1>5. CASE UNCHANGED vars
  BY <1>5 DEF vars, Control
<1> QED BY <1>1, <1>2, <1>3, <1>4, <1>5 DEF Next

\* The flags are Boolean.
LEMMA FlagsStep ==
  ASSUME Flags, [Next]_vars
  PROVE  Flags'
<1>1. CASE Application
  BY <1>1, Zenon DEF Application, Connect, ConnectAgain, ConnectReturns,
     ConnectThrows, DisconnectCall, DisconnectStore, DisconnectCancel,
     DisconnectPost, DisconnectJoin, SendCheck, SendPost, Flags
<1>2. CASE Straight
  BY <1>2, Zenon DEF Straight, ConnectOk, ConnectFail, DoRead, DoPingTimer,
     CallbackReturns, CallbackDisconnects, AttemptReconnect, Dial, DialOk,
     DialFail, PingOk, PingFail, ErrorNotified, ConnectedNoMore, Flags
<1>3. CASE Handler
  BY <1>3, Zenon DEF Handler, HandleRead, HandleReadError, HandlePing,
     HandleReconnect, HandleSend, HandleClose, RunReturns, AfterMessage,
     AfterError, Running, Flags
<1>4. CASE Environment
  BY <1>4, Zenon DEF Environment, LinkBreaks, ReadEnds, PingTimerExpires, Flags
<1>5. CASE UNCHANGED vars
  BY <1>5 DEF vars, Flags
<1> QED BY <1>1, <1>2, <1>3, <1>4, <1>5 DEF Next

\* The counters are within their bounds.
LEMMA CountsStep ==
  ASSUME Counts, [Next]_vars
  PROVE  Counts'
<1>1. CASE Application
  BY <1>1, BoundsType DEF Application, Connect, ConnectAgain, ConnectReturns,
     ConnectThrows, DisconnectCall, DisconnectStore, DisconnectCancel,
     DisconnectPost, DisconnectJoin, SendCheck, SendPost, Counts
<1>2. CASE Straight
  BY <1>2, BoundsType DEF Straight, ConnectOk, ConnectFail, DoRead,
     DoPingTimer, CallbackReturns, CallbackDisconnects, AttemptReconnect,
     Dial, DialOk, DialFail, PingOk, PingFail, ErrorNotified, ConnectedNoMore,
     Counts
<1>3. CASE Handler
  BY <1>3, BoundsType DEF Handler, HandleRead, HandleReadError, HandlePing,
     HandleReconnect, HandleSend, HandleClose, RunReturns, AfterMessage,
     AfterError, Running, Counts
<1>4. CASE Environment
  BY <1>4, BoundsType DEF Environment, LinkBreaks, ReadEnds, PingTimerExpires,
     Counts
<1>5. CASE UNCHANGED vars
  BY <1>5 DEF vars, Counts
<1> QED BY <1>1, <1>2, <1>3, <1>4, <1>5 DEF Next

\* The reads are counted.
LEMMA ReadsStep ==
  ASSUME Reads, [Next]_vars
  PROVE  Reads'
<1>1. CASE Application
  BY <1>1 DEF Application, Connect, ConnectAgain, ConnectReturns,
     ConnectThrows, DisconnectCall, DisconnectStore, DisconnectCancel,
     DisconnectPost, DisconnectJoin, SendCheck, SendPost, Reads
<1>2. CASE Straight
  <2>1. CASE ConnectOk \/ ConnectFail \/ Dial
    BY <2>1, NewStreamKeeps DEF ConnectOk, ConnectFail, Dial
  <2>2. CASE DoRead
    BY <2>2, DoReadAdds
  <2>3. CASE DoPingTimer \/ CallbackReturns \/ CallbackDisconnects \/
            AttemptReconnect \/ DialOk \/ DialFail \/ PingOk \/ PingFail
    BY <2>3 DEF DoPingTimer, CallbackReturns, CallbackDisconnects,
       AttemptReconnect, DialOk, DialFail, PingOk, PingFail, ErrorNotified,
       ConnectedNoMore, Reads
  <2> QED BY <1>2, <2>1, <2>2, <2>3 DEF Straight
<1>3. CASE Handler
  <2>1. CASE HandleRead \/ HandleReadError
    BY <2>1, HandleTakes
  <2>2. CASE HandlePing \/ HandleReconnect \/ HandleSend \/ HandleClose \/
            RunReturns
    BY <2>2 DEF HandlePing, HandleReconnect, HandleSend, HandleClose,
       RunReturns, AfterMessage, AfterError, Running, Reads
  <2> QED BY <1>3, <2>1, <2>2 DEF Handler
<1>4. CASE Environment
  <2>1. CASE ReadEnds
    BY <2>1, ReadEndsKeeps
  <2>2. CASE LinkBreaks \/ PingTimerExpires
    BY <2>2 DEF LinkBreaks, PingTimerExpires, Reads
  <2> QED BY <1>4, <2>1, <2>2 DEF Environment
<1>5. CASE UNCHANGED vars
  BY <1>5 DEF vars, Reads
<1> QED BY <1>1, <1>2, <1>3, <1>4, <1>5 DEF Next

\* A function posted, and one taken from the queue.
LEMMA PostType ==
  ASSUME NEW p \in Seq({"send", "close"})
  PROVE  /\ \A f \in {"send", "close"} : Append(p, f) \in Seq({"send", "close"})
         /\ p # <<>> => Tail(p) \in Seq({"send", "close"})
  OBVIOUS

\* The queues hold what was put there, and no chain counts too far.
LEMMA QueuesStep ==
  ASSUME Queues, Control, [Next]_vars
  PROVE  Queues'
<1>1. CASE Application
  <2>1. CASE DisconnectPost \/ SendPost
    BY <2>1, PostType DEF DisconnectPost, SendPost, WithClose, Queues, Trying
  <2>2. CASE Connect \/ ConnectAgain \/ ConnectReturns \/ ConnectThrows \/
            DisconnectCall \/ DisconnectStore \/ DisconnectCancel \/
            DisconnectJoin \/ SendCheck
    BY <2>2 DEF Connect, ConnectAgain, ConnectReturns, ConnectThrows,
       DisconnectCall, DisconnectStore, DisconnectCancel, DisconnectJoin,
       SendCheck, Queues, Trying
  <2> QED BY <1>1, <2>1, <2>2 DEF Application
<1>2. CASE Straight
  <2>1. CASE CallbackDisconnects
    BY <2>1, PostType DEF CallbackDisconnects, WithClose, Queues, Trying, Control
  <2>2. CASE AttemptReconnect
    <3>1. CASE ~shouldStop /\ ~Exhausted(chain)
      <4>1. chain \in Pending
        BY <3>1, ConfigAssumption DEF Queues, Exhausted, Pending, Chain
      <4>2. timers' = Append(timers, chain)
        BY <2>2, <3>1 DEF AttemptReconnect
      <4> QED BY <2>2, <3>1, <4>1, <4>2 DEF AttemptReconnect, Queues, Trying
    <3>2. CASE shouldStop \/ Exhausted(chain)
      BY <2>2, <3>2 DEF AttemptReconnect, Queues, Trying
    <3> QED BY <3>1, <3>2
  <2>3. CASE DialFail
    BY <2>3, ChainType DEF DialFail, Queues, Trying
  <2>4. CASE PingFail
    BY <2>4, ChainType DEF PingFail, Queues, Trying
  <2>5. CASE ConnectOk \/ ConnectFail \/ DoRead \/ DoPingTimer \/
            CallbackReturns \/ Dial \/ DialOk \/ PingOk
    BY <2>5 DEF ConnectOk, ConnectFail, DoRead, DoPingTimer, CallbackReturns,
       Dial, DialOk, PingOk, ErrorNotified, ConnectedNoMore, Queues, Trying,
       Control
  <2> QED BY <1>2, <2>1, <2>2, <2>3, <2>4, <2>5 DEF Straight
<1>3. CASE Handler
  <2>1. CASE HandleReadError
    BY <2>1, ChainType DEF HandleReadError, AfterError, Running, Queues, Trying
  <2>2. CASE HandleReconnect
    <3>1. PICK i \in DOMAIN timers :
            /\ timers' = Without(timers, i)
            /\ IF shouldStop THEN UNCHANGED ioVars
               ELSE CallsBack("dial") /\ chain' = timers[i]
      BY <2>2 DEF HandleReconnect
    <3>2. timers' \in Seq(Pending) /\ timers[i] \in Pending
      BY <3>1, WithoutType DEF Queues
    <3>3. chain' \in Chain /\ (Trying' => chain' \in Pending)
      BY <2>2, <3>1, <3>2, ChainType DEF HandleReconnect, Running, Queues, Trying
    <3> QED BY <2>2, <3>2, <3>3 DEF HandleReconnect, Queues
  <2>3. CASE HandleSend \/ HandleClose
    BY <2>3, PostType DEF HandleSend, HandleClose, Running, Queues, Trying
  <2>4. CASE HandleRead \/ HandlePing \/ RunReturns
    BY <2>4 DEF HandleRead, HandlePing, RunReturns, AfterMessage, AfterError,
       Running, Queues, Trying
  <2> QED BY <1>3, <2>1, <2>2, <2>3, <2>4 DEF Handler
<1>4. CASE Environment
  BY <1>4 DEF Environment, LinkBreaks, ReadEnds, PingTimerExpires, Queues,
     Trying
<1>5. CASE UNCHANGED vars
  BY <1>5 DEF vars, Queues, Trying
<1> QED BY <1>1, <1>2, <1>3, <1>4, <1>5 DEF Next

\* Everything has its type at first.
LEMMA InitTypes == Init => Types
<1> SUFFICES ASSUME Init PROVE Types
  OBVIOUS
<1>1. Control /\ Flags
  BY Zenon DEF Init, Control, Flags
<1>2. Counts
  BY BoundsType DEF Init, Counts
<1>3. Reads
  BY DEF Init, Reads
<1>4. Queues
  BY ChainType DEF Init, Queues, Trying
<1> QED BY <1>1, <1>2, <1>3, <1>4 DEF Types

\* Everything keeps its type.
THEOREM TypesKept == Spec => []Types
<1>1. Types /\ [Next]_vars => Types'
  BY ControlStep, FlagsStep, CountsStep, ReadsStep, QueuesStep DEF Types
<1> QED BY <1>1, InitTypes, PTL DEF Spec

\* For every configuration the variables keep their types, and no chain of
\* reconnects counts beyond max_reconnect_attempts.
THEOREM TypeCorrect == Spec => []TypeOK
<1>1. Types => TypeOK
  <2> SUFFICES ASSUME Types PROVE TypeOK
    OBVIOUS
  <2>1. timers \in Seq(Chain)
    BY DEF Types, Queues, Pending
  <2> QED BY <2>1 DEF Types, Control, Flags, Counts, Reads, Queues, TypeOK
<1> QED BY <1>1, TypesKept, PTL

-----------------------------------------------------------------------------
(* The stream behind connected *)

\* Only a handshake sets connected, and a new stream is dialled or open.
LEMMA OpenStep ==
  ASSUME ConnectedIsOpen, [Next]_vars
  PROVE  ConnectedIsOpen'
<1>1. CASE Application
  BY <1>1, Zenon DEF Application, Connect, ConnectAgain, ConnectReturns,
     ConnectThrows, DisconnectCall, DisconnectStore, DisconnectCancel,
     DisconnectPost, DisconnectJoin, SendCheck, SendPost, ConnectedIsOpen
<1>2. CASE Straight
  BY <1>2, Zenon DEF Straight, ConnectOk, ConnectFail, DoRead, DoPingTimer,
     CallbackReturns, CallbackDisconnects, AttemptReconnect, Dial, DialOk,
     DialFail, PingOk, PingFail, ErrorNotified, ConnectedNoMore,
     ConnectedIsOpen
<1>3. CASE Handler
  BY <1>3, Zenon DEF Handler, HandleRead, HandleReadError, HandlePing,
     HandleReconnect, HandleSend, HandleClose, RunReturns, AfterMessage,
     AfterError, Running, ConnectedIsOpen
<1>4. CASE Environment
  BY <1>4, Zenon DEF Environment, LinkBreaks, ReadEnds, PingTimerExpires,
     ConnectedIsOpen
<1>5. CASE UNCHANGED vars
  BY <1>5 DEF vars, ConnectedIsOpen
<1> QED BY <1>1, <1>2, <1>3, <1>4, <1>5 DEF Next

\* For every configuration, with reuse and disconnects in callbacks: while the
\* loop runs, connected is set only on a stream that completed its handshake.
THEOREM AlwaysOpen == Spec => []ConnectedIsOpen
<1>1. Init => ConnectedIsOpen
  BY DEF Init, ConnectedIsOpen
<1>2. ConnectedIsOpen /\ [Next]_vars => ConnectedIsOpen'
  BY OpenStep
<1> QED BY <1>1, <1>2, PTL DEF Spec

-----------------------------------------------------------------------------
(* The session that the streams are built on *)

\* How the threads stand to each other.  The I/O thread exists from connect() to
\* its join, calls back only in its loop, and disconnect() has set should_stop.
Together ==
  /\ app = "ready" => io = "none"
  /\ app \in {"waiting", "failed", "using"} => io # "none"
  /\ app = "dead" <=> io = "dead"
  /\ app = "failed" => outcome = "error"
  /\ app \in {"disconnecting", "cancelling", "posting", "joining"} => shouldStop
  /\ io = "connect" => outcome = "none"
  /\ io \in {"callback", "retrying", "dial", "dialling", "pinging"} => ~stopped

\* Every step keeps that relation.
LEMMA TogetherStep ==
  ASSUME Together, Control, [Next]_vars
  PROVE  Together'
<1>1. CASE Application
  BY <1>1 DEF Application, Connect, ConnectAgain, ConnectReturns,
     ConnectThrows, DisconnectCall, DisconnectStore, DisconnectCancel,
     DisconnectPost, DisconnectJoin, SendCheck, SendPost, Together, Control
<1>2. CASE Straight
  BY <1>2 DEF Straight, ConnectOk, ConnectFail, DoRead, DoPingTimer,
     CallbackReturns, CallbackDisconnects, AttemptReconnect, Dial, DialOk,
     DialFail, PingOk, PingFail, ErrorNotified, ConnectedNoMore, Together,
     Control
<1>3. CASE Handler
  BY <1>3 DEF Handler, HandleRead, HandleReadError, HandlePing,
     HandleReconnect, HandleSend, HandleClose, RunReturns, AfterMessage,
     AfterError, Running, Together, Control
<1>4. CASE Environment
  BY <1>4 DEF Environment, LinkBreaks, ReadEnds, PingTimerExpires, Together,
     Control
<1>5. CASE UNCHANGED vars
  BY <1>5 DEF vars, Together, Control
<1> QED BY <1>1, <1>2, <1>3, <1>4, <1>5 DEF Next

\* A step of the client is one of the session's, or changes nothing there.
LEMMA SessionStep ==
  ASSUME Together, Control, [Next]_vars
  PROVE  [Session!SessionNext]_(Session!sessionVars)
<1> USE DEF Together, Control, SessionCall, SessionThread, Session!sessionVars
<1>1. CASE Connect
  <2>1. Session!ConnectCalls
    BY <1>1 DEF Connect, Session!ConnectCalls
  <2> QED BY <2>1 DEF Session!SessionNext
<1>2. CASE ConnectAgain
  <2>1. Session!ProcessEnds
    BY <1>2 DEF ConnectAgain, Session!ProcessEnds
  <2> QED BY <2>1 DEF Session!SessionNext
<1>3. CASE ConnectReturns
  <2>1. \/ Session!ConnectReturns
        \/ UNCHANGED Session!sessionVars
    BY <1>3 DEF ConnectReturns, Session!ConnectReturns
  <2> QED BY <2>1 DEF Session!SessionNext
<1>4. CASE ConnectThrows
  <2>1. Session!ConnectThrows
    BY <1>4 DEF ConnectThrows, Session!ConnectThrows
  <2> QED BY <2>1 DEF Session!SessionNext
<1>5. CASE DisconnectCall
  <2>1. Session!DisconnectCalls
    BY <1>5 DEF DisconnectCall, Session!DisconnectCalls
  <2> QED BY <2>1 DEF Session!SessionNext
<1>6. CASE DisconnectCancel
  <2>1. \/ Session!ProcessEnds
        \/ UNCHANGED Session!sessionVars
    BY <1>6 DEF DisconnectCancel, Session!ProcessEnds
  <2> QED BY <2>1 DEF Session!SessionNext
<1>7. CASE DisconnectJoin
  <2>1. Session!DisconnectReturns
    BY <1>7 DEF DisconnectJoin, Session!DisconnectReturns
  <2> QED BY <2>1 DEF Session!SessionNext
<1>8. CASE ConnectOk \/ ConnectFail
  <2>1. Session!Dialled(outcome') /\ outcome' \in {"ok", "error"}
    BY <1>8 DEF ConnectOk, ConnectFail, ErrorNotified, Session!Dialled
  <2> QED BY <2>1 DEF Session!SessionNext
<1>9. CASE CallbackReturns
  <2>1. Session!CallbackReturns
    BY <1>9 DEF CallbackReturns, Session!CallbackReturns
  <2> QED BY <2>1 DEF Session!SessionNext
<1>10. CASE CallbackDisconnects
  <2>1. \/ Session!CallbackReturns
        \/ Session!ProcessEnds
    BY <1>10 DEF CallbackDisconnects, Session!CallbackReturns,
       Session!ProcessEnds
  <2> QED BY <2>1 DEF Session!SessionNext
<1>11. CASE AttemptReconnect \/ HandleReadError \/ HandleReconnect \/ HandleSend
  <2>1. \/ Session!ReportsError
        \/ UNCHANGED Session!sessionVars
    BY <1>11 DEF AttemptReconnect, HandleReadError, AfterError, Running,
       HandleReconnect, HandleSend, Session!ReportsError
  <2> QED BY <2>1 DEF Session!SessionNext
<1>12. CASE DialFail \/ PingFail
  <2>1. Session!ReportsError
    BY <1>12 DEF DialFail, PingFail, Session!ReportsError
  <2> QED BY <2>1 DEF Session!SessionNext
<1>13. CASE HandleRead
  <2>1. \/ Session!DeliversMessage
        \/ UNCHANGED Session!sessionVars
    BY <1>13 DEF HandleRead, AfterMessage, Running, Session!DeliversMessage
  <2> QED BY <2>1 DEF Session!SessionNext
<1>14. CASE HandleClose
  <2>1. Session!LoopHalts
    BY <1>14 DEF HandleClose, Running, Session!LoopHalts
  <2> QED BY <2>1 DEF Session!SessionNext
<1>15. CASE RunReturns
  <2>1. Session!LoopEnds
    BY <1>15 DEF RunReturns, Session!LoopEnds
  <2> QED BY <2>1 DEF Session!SessionNext
<1>16. CASE DisconnectStore \/ DisconnectPost \/ SendCheck \/ SendPost \/
           DoRead \/ DoPingTimer \/ Dial \/ DialOk \/ PingOk \/ HandlePing \/
           LinkBreaks \/ ReadEnds \/ PingTimerExpires
  BY <1>16 DEF DisconnectStore, DisconnectPost, SendCheck, SendPost, DoRead,
     DoPingTimer, Dial, DialOk, PingOk, HandlePing, LinkBreaks, ReadEnds,
     PingTimerExpires, Running
<1>17. CASE UNCHANGED vars
  BY <1>17 DEF vars
<1> QED BY <1>1, <1>2, <1>3, <1>4, <1>5, <1>6, <1>7, <1>8, <1>9, <1>10, <1>11,
           <1>12, <1>13, <1>14, <1>15, <1>16, <1>17, Zenon
           DEF Next, Application, Straight, Handler, Environment

\* The client implements WsSession, on which the streams' models are built: for
\* every configuration and any use of connect(), disconnect() and send(), one I/O
\* thread calls back, one callback at a time, no message once disconnect() has
\* begun, and no thread is left when it has returned.
THEOREM SessionRefinement == Spec => ImplementsSession
<1>1. Init => Together /\ Session!SessionInit
  BY DEF Init, Together, Session!SessionInit, SessionCall, SessionThread
<1>2. Together /\ Types /\ [Next]_vars => Together'
  BY TogetherStep DEF Types
<1>3. Together /\ Types /\ [Next]_vars => [Session!SessionNext]_(Session!sessionVars)
  BY SessionStep DEF Types
<1> QED BY <1>1, <1>2, <1>3, TypesKept, PTL
           DEF Spec, ImplementsSession, Session!SessionSpec

-----------------------------------------------------------------------------
(* A client that is connected once *)

\* Before its first call the client is as it was made.
Fresh ==
  calls = 0 =>
    /\ app = "ready" /\ io = "none" /\ sender = "idle"
    /\ ~connected /\ ~stopped /\ posted = <<>>
    /\ Total = 0 /\ timers = <<>>

\* In its loop, or on the way back there, a connected client has a read; one
\* that goes to reconnect is not connected.
Listening ==
  /\ connected /\ ~shouldStop =>
       \/ Total > 0
       \/ /\ io \notin {"loop", "arming", "pinging"}
          /\ ~(io = "callback" /\ after = "loop")
  /\ io = "retrying" \/ (io = "callback" /\ after = "retrying") => ~connected

\* Its loop is stopped by disconnect(), or ends for want of work when the client
\* is not connected.
Ended ==
  app # "dead" =>
    /\ \A i \in DOMAIN posted : posted[i] = "close" => shouldStop
    /\ stopped => shouldStop \/ io = "exited"
    /\ app = "failed" => shouldStop
    /\ app \in {"waiting", "using"} /\ connected /\ ~shouldStop => io # "exited"

\* The number of reads is one.
LEMMA TotalType ==
  ASSUME Reads
  PROVE  Total \in Nat /\ (Total = 0 => reads.waiting = 0)
  BY DEF Reads, Total

\* Nothing happens before the first call.
LEMMA FreshStep ==
  ASSUME Fresh, Types, [Next]_vars
  PROVE  Fresh'
<1> USE DEF Types, Control
<1>1. CASE Application
  BY <1>1, BoundsType DEF Application, Connect, ConnectAgain, ConnectReturns,
     ConnectThrows, DisconnectCall, DisconnectStore, DisconnectCancel,
     DisconnectPost, DisconnectJoin, SendCheck, SendPost, Fresh, Counts, Total
<1>2. CASE Straight
  BY <1>2 DEF Straight, ConnectOk, ConnectFail, DoRead, DoPingTimer,
     CallbackReturns, CallbackDisconnects, AttemptReconnect, Dial, DialOk,
     DialFail, PingOk, PingFail, ErrorNotified, ConnectedNoMore, Fresh, Total
<1>3. CASE Handler
  BY <1>3 DEF Handler, HandleRead, HandleReadError, HandlePing,
     HandleReconnect, HandleSend, HandleClose, RunReturns, AfterMessage,
     AfterError, Running, Fresh, Total
<1>4. CASE Environment
  <2>1. CASE ReadEnds
    BY <2>1, ReadEndsKeeps DEF ReadEnds, Fresh
  <2>2. CASE LinkBreaks \/ PingTimerExpires
    BY <2>2 DEF LinkBreaks, PingTimerExpires, Fresh, Total
  <2> QED BY <1>4, <2>1, <2>2 DEF Environment
<1>5. CASE UNCHANGED vars
  BY <1>5 DEF vars, Fresh, Total
<1> QED BY <1>1, <1>2, <1>3, <1>4, <1>5 DEF Next

\* Every handler that uses up a read starts one, or finds the client not
\* connected.
LEMMA ListeningStep ==
  ASSUME Listening, Types, [Next]_vars
  PROVE  Listening'
<1> USE DEF Types
<1>1. CASE Application
  <2>1. Total' = Total
    BY <1>1 DEF Application, Connect, ConnectAgain, ConnectReturns, ConnectThrows,
       DisconnectCall, DisconnectStore, DisconnectCancel, DisconnectPost,
       DisconnectJoin, SendCheck, SendPost, Total
  <2>2. CASE Connect \/ ConnectAgain
    BY <2>2 DEF Connect, ConnectAgain, Listening
  <2>3. CASE ConnectReturns
    BY <2>1, <2>3, Zenon DEF ConnectReturns, Listening
  <2>4. CASE ConnectThrows \/ DisconnectCall \/ DisconnectStore \/
            DisconnectCancel \/ DisconnectPost \/ DisconnectJoin \/ SendCheck
            \/ SendPost
    BY <2>1, <2>4 DEF ConnectThrows, DisconnectCall, DisconnectStore,
       DisconnectCancel, DisconnectPost, DisconnectJoin, SendCheck, SendPost,
       Listening
  <2> QED BY <1>1, <2>2, <2>3, <2>4 DEF Application
<1>2. CASE Straight
  <2>1. CASE ConnectOk \/ ConnectFail \/ Dial
    BY <2>1, NewStreamKeeps DEF ConnectOk, ConnectFail, Dial, Listening
  <2>2. CASE DoRead
    BY <2>2, DoReadAdds, TotalType DEF DoRead, Listening
  <2>3. CASE DoPingTimer \/ CallbackReturns \/ CallbackDisconnects \/
            AttemptReconnect \/ DialOk \/ DialFail \/ PingOk \/ PingFail
    BY <2>3 DEF DoPingTimer, CallbackReturns, CallbackDisconnects,
       AttemptReconnect, DialOk, DialFail, PingOk, PingFail, ErrorNotified,
       ConnectedNoMore, Listening, Total, Control
  <2> QED BY <1>2, <2>1, <2>2, <2>3 DEF Straight
<1>3. CASE Handler
  <2>1. CASE HandleRead \/ HandleReadError
    BY <2>1 DEF HandleRead, HandleReadError, AfterMessage, AfterError, Running,
       Listening
  <2>2. CASE HandlePing \/ HandleReconnect \/ HandleSend \/ HandleClose \/
            RunReturns
    BY <2>2 DEF HandlePing, HandleReconnect, HandleSend, HandleClose,
       RunReturns, AfterMessage, AfterError, Running, Listening, Total
  <2> QED BY <1>3, <2>1, <2>2 DEF Handler
<1>4. CASE Environment
  <2>1. CASE ReadEnds
    BY <2>1, ReadEndsKeeps DEF ReadEnds, Listening
  <2>2. CASE LinkBreaks \/ PingTimerExpires
    BY <2>2 DEF LinkBreaks, PingTimerExpires, Listening, Total
  <2> QED BY <1>4, <2>1, <2>2 DEF Environment
<1>5. CASE UNCHANGED vars
  BY <1>5 DEF vars, Listening, Total
<1> QED BY <1>1, <1>2, <1>3, <1>4, <1>5 DEF Next

\* Every step keeps that, if connect() is not called again after a session.
LEMMA EndedStep ==
  ASSUME "reuse" \notin AppMay, Ended, Fresh, Listening, Together, Types, [Next]_vars
  PROVE  Ended'
<1> USE DEF Types, Queues
<1>1. CASE Application
  <2>1. CASE Connect
    BY <2>1 DEF Connect, Ended, Fresh
  <2>2. CASE DisconnectPost \/ SendPost
    BY <2>2 DEF DisconnectPost, SendPost, WithClose, Ended, Together
  <2>3. CASE ConnectAgain \/ ConnectReturns \/ ConnectThrows \/ DisconnectCall
            \/ DisconnectStore \/ DisconnectCancel \/ DisconnectJoin \/
            SendCheck
    BY <2>3, Zenon DEF ConnectAgain, ConnectReturns, ConnectThrows, DisconnectCall,
       DisconnectStore, DisconnectCancel, DisconnectJoin, SendCheck, Ended,
       Together, Control
  <2> QED BY <1>1, <2>1, <2>2, <2>3 DEF Application
<1>2. CASE Straight
  <2>1. CASE CallbackDisconnects
    BY <2>1 DEF CallbackDisconnects, Ended, Together, Control
  <2>2. CASE ConnectOk \/ ConnectFail \/ DoRead \/ DoPingTimer \/
            CallbackReturns \/ AttemptReconnect \/ Dial \/ DialOk \/ DialFail
            \/ PingOk \/ PingFail
    BY <2>2, Zenon DEF ConnectOk, ConnectFail, DoRead, DoPingTimer, CallbackReturns,
       AttemptReconnect, Dial, DialOk, DialFail, PingOk, PingFail,
       ErrorNotified, ConnectedNoMore, Ended, Together, Control
  <2> QED BY <1>2, <2>1, <2>2 DEF Straight
<1>3. CASE Handler
  <2>1. CASE HandleSend \/ HandleClose
    BY <2>1 DEF HandleSend, HandleClose, Running, Ended, Together
  <2>2. CASE RunReturns
    BY <2>2, TotalType DEF RunReturns, NoWork, Ended, Together, Listening, Total, Reads, Counts
  <2>3. CASE HandleRead \/ HandleReadError \/ HandlePing \/ HandleReconnect
    BY <2>3 DEF HandleRead, HandleReadError, HandlePing, HandleReconnect,
       AfterMessage, AfterError, Running, Ended, Together
  <2> QED BY <1>3, <2>1, <2>2, <2>3 DEF Handler
<1>4. CASE Environment
  BY <1>4 DEF Environment, LinkBreaks, ReadEnds, PingTimerExpires, Ended
<1>5. CASE UNCHANGED vars
  BY <1>5 DEF vars, Ended
<1> QED BY <1>1, <1>2, <1>3, <1>4, <1>5 DEF Next

\* What connect() started is served until disconnect(), for every configuration
\* and whichever of ping and read notices a loss, as long as the client is not
\* connected again after a session.
THEOREM ServedOnce ==
  ASSUME "reuse" \notin AppMay
  PROVE  Spec => []ConnectedIsServed
<1> DEFINE I == Types /\ Together /\ Fresh /\ Listening /\ Ended
<1>1. Init => I
  <2> SUFFICES ASSUME Init PROVE I
    OBVIOUS
  <2>1. Together /\ Fresh /\ Listening /\ Ended
    BY DEF Init, Together, Fresh, Listening, Ended, Total
  <2> QED BY <2>1, InitTypes
<1>2. I /\ [Next]_vars => I'
  <2> SUFFICES ASSUME I, [Next]_vars PROVE I'
    OBVIOUS
  <2>1. Types'
    BY ControlStep, FlagsStep, CountsStep, ReadsStep, QueuesStep DEF Types
  <2>2. Together' /\ Fresh' /\ Listening'
    BY TogetherStep, FreshStep, ListeningStep DEF Types
  <2>3. Ended'
    BY EndedStep
  <2> QED BY <2>1, <2>2, <2>3
<1>3. I => ConnectedIsServed
  BY DEF Listening, Ended, Total, ConnectedIsServed
<1> HIDE DEF I
<1> QED BY <1>1, <1>2, <1>3, PTL DEF Spec

\* Something carries the session on in the I/O thread itself.
Carries ==
  \/ io \in {"reading", "rereading", "retrying", "dial", "dialling"}
  \/ io = "callback" /\ after # "loop"

One ==
  /\ io = "connect" => Total = 0 /\ Len(timers) = 0
  /\ ~pingMayFail => /\ Total + Len(timers) <= 1
                     /\ Carries => Total + Len(timers) = 0

\* Every handler hands the session on to one successor.
LEMMA OneStep ==
  ASSUME "reuse" \notin AppMay, One, Fresh, Types, [Next]_vars
  PROVE  One'
<1> USE DEF Types
<1>0. Total \in Nat /\ Len(timers) \in Nat
  BY TotalType DEF Queues
<1>1. CASE Application
  <2>1. UNCHANGED <<timers, pingMayFail>> /\ Total' = Total
    BY <1>1, Zenon DEF Application, Connect, ConnectAgain, ConnectReturns, ConnectThrows,
       DisconnectCall, DisconnectStore, DisconnectCancel, DisconnectPost,
       DisconnectJoin, SendCheck, SendPost, Total
  <2>2. CASE Connect
    BY <2>1, <2>2 DEF Connect, Fresh, One, Carries
  <2>3. CASE ConnectAgain \/ ConnectReturns \/ ConnectThrows \/ DisconnectCall
            \/ DisconnectStore \/ DisconnectCancel \/ DisconnectPost \/
            DisconnectJoin \/ SendCheck \/ SendPost
    BY <2>1, <2>3, Zenon DEF ConnectAgain, ConnectReturns, ConnectThrows, DisconnectCall,
       DisconnectStore, DisconnectCancel, DisconnectPost, DisconnectJoin,
       SendCheck, SendPost, One, Carries
  <2> QED BY <1>1, <2>2, <2>3 DEF Application
<1>2. CASE Straight
  <2>1. CASE ConnectOk \/ ConnectFail \/ Dial
    BY <2>1, NewStreamKeeps DEF ConnectOk, ConnectFail, Dial, One, Carries
  <2>2. CASE DoRead
    BY <2>2, DoReadAdds, TotalType DEF DoRead, One, Carries
  <2>3. CASE AttemptReconnect
    <3>1. Total' = Total
      BY <2>3 DEF AttemptReconnect, Total
    <3>2. Len(timers') = Len(timers) \/ Len(timers') = Len(timers) + 1
      BY <2>3 DEF AttemptReconnect, Queues
    <3> QED BY <2>3, <3>1, <3>2, TotalType DEF AttemptReconnect, One, Carries
  <2>4. CASE DoPingTimer \/ CallbackReturns \/ CallbackDisconnects \/ DialOk \/
            DialFail \/ PingOk \/ PingFail
    BY <2>4 DEF DoPingTimer, CallbackReturns, CallbackDisconnects, DialOk,
       DialFail, PingOk, PingFail, ErrorNotified, ConnectedNoMore, One, Carries,
       Total, Control
  <2> QED BY <1>2, <2>1, <2>2, <2>3, <2>4 DEF Straight
<1>3. CASE Handler
  <2>1. CASE HandleRead \/ HandleReadError
    <3>1. UNCHANGED <<timers, pingMayFail>> /\ io = "loop" /\ io' # "connect"
      BY <2>1 DEF HandleRead, HandleReadError, AfterMessage, Running
    <3>2. Total' \in Nat /\ Total' = Total - 1
      BY <2>1, HandleTakes
    <3> QED BY <1>0, <3>1, <3>2 DEF One
  <2>2. CASE HandleReconnect
    <3>1. Len(timers') = Len(timers) - 1
      BY <2>2, WithoutType DEF HandleReconnect, Queues
    <3>2. Total' = Total /\ Len(timers) \in Nat /\ Len(timers') \in Nat
      BY <2>2, QueuesStep DEF HandleReconnect, Queues, Total
    <3> QED BY <2>2, <3>1, <3>2, TotalType DEF HandleReconnect, Running, One, Carries
  <2>3. CASE HandlePing \/ HandleSend \/ HandleClose \/ RunReturns
    BY <2>3 DEF HandlePing, HandleSend, HandleClose, RunReturns, AfterMessage,
       AfterError, Running, One, Carries, Total
  <2> QED BY <1>3, <2>1, <2>2, <2>3 DEF Handler
<1>4. CASE Environment
  <2>1. CASE ReadEnds
    BY <2>1, ReadEndsKeeps DEF ReadEnds, One, Carries
  <2>2. CASE LinkBreaks \/ PingTimerExpires
    BY <2>2 DEF LinkBreaks, PingTimerExpires, One, Carries, Total
  <2> QED BY <1>4, <2>1, <2>2 DEF Environment
<1>5. CASE UNCHANGED vars
  BY <1>5 DEF vars, One, Carries, Total
<1> QED BY <1>1, <1>2, <1>3, <1>4, <1>5 DEF Next

\* When the read notices every loss, one thing at a time carries the session on:
\* for every configuration there is never a second chain of reconnects, as long
\* as the client is not connected again after a session.
THEOREM OneChain ==
  ASSUME "reuse" \notin AppMay
  PROVE  Spec => []OneLifeline
<1> DEFINE I == Types /\ Fresh /\ One
<1>1. Init => I
  <2> SUFFICES ASSUME Init PROVE I
    OBVIOUS
  <2>1. Fresh /\ One
    BY DEF Init, Fresh, One, Carries, Total
  <2> QED BY <2>1, InitTypes
<1>2. I /\ [Next]_vars => I'
  <2> SUFFICES ASSUME I, [Next]_vars PROVE I'
    OBVIOUS
  <2>1. Types'
    BY ControlStep, FlagsStep, CountsStep, ReadsStep, QueuesStep DEF Types
  <2> QED BY <2>1, FreshStep, OneStep
<1>3. I => OneLifeline
  BY TotalType DEF Types, Queues, One, Carries, Total, OneLifeline, Lifelines
<1> HIDE DEF I
<1> QED BY <1>1, <1>2, <1>3, PTL DEF Spec

-----------------------------------------------------------------------------
(* The delays *)

\* The chains whose delay is that of their attempt.
Scheduled ==
  {c \in [attempt : Nat, delay : Nat] : c.delay = BackoffDelay(c.attempt)}

\* The first delay is the interval, and doubling a delay up to the cap gives the
\* next.
LEMMA BackoffDoubles ==
  /\ BackoffDelay(0) = ReconnectInterval
  /\ \A n \in Nat :
       /\ BackoffDelay(n) \in Nat
       /\ BackoffDelay(n + 1) = IF BackoffDelay(n) * 2 < DelayCap
                                THEN BackoffDelay(n) * 2 ELSE DelayCap
<1> DEFINE I == ReconnectInterval
<1>1. I \in Nat \ {0}
  BY ConfigAssumption
<1>2. 2^0 = 1 /\ 2^1 = 2 /\ 2^2 = 4 /\ 2^3 = 8 /\ 2^4 = 16 /\ 2^5 = 32
  OBVIOUS
<1> HIDE DEF I
<1>3. /\ BackoffDelay(0) = I
      /\ BackoffDelay(1) = IF I * 2 < 60 THEN I * 2 ELSE 60
      /\ BackoffDelay(2) = IF I * 4 < 60 THEN I * 4 ELSE 60
      /\ BackoffDelay(3) = IF I * 8 < 60 THEN I * 8 ELSE 60
      /\ BackoffDelay(4) = IF I * 16 < 60 THEN I * 16 ELSE 60
      /\ BackoffDelay(5) = IF I * 32 < 60 THEN I * 32 ELSE 60
  BY <1>1, <1>2 DEF BackoffDelay, DelayCap, I
<1>4. \A n \in Nat : n >= 6 => BackoffDelay(n) = 60
  BY DEF BackoffDelay, DelayCap
<1>5. ASSUME NEW n \in Nat
      PROVE  /\ BackoffDelay(n) \in Nat
             /\ BackoffDelay(n + 1) = IF BackoffDelay(n) * 2 < DelayCap
                                      THEN BackoffDelay(n) * 2 ELSE DelayCap
  <2>1. CASE n >= 6
    BY <1>4, <2>1 DEF DelayCap
  <2>2. CASE n = 5
    BY <1>1, <1>3, <1>4, <2>2 DEF DelayCap
  <2>3. CASE n \in 0..4
    BY <1>1, <1>3, <2>3 DEF DelayCap
  <2> QED BY <2>1, <2>2, <2>3
<1> QED BY <1>3, <1>5 DEF I

\* So a chain of reconnects is on schedule when it starts and after every
\* attempt that failed.
LEMMA ChainSchedule ==
  FirstTry \in Scheduled /\ \A c \in Scheduled : NextTry(c) \in Scheduled
<1>1. FirstTry \in Scheduled
  BY BackoffDoubles, ConfigAssumption DEF FirstTry, Scheduled
<1>2. ASSUME NEW c \in Scheduled PROVE NextTry(c) \in Scheduled
  BY <1>2, BackoffDoubles DEF NextTry, Scheduled, DelayCap
<1> QED BY <1>1, <1>2

\* The chain the I/O thread works on and all that wait are on schedule.
OnSchedule == chain \in Scheduled /\ timers \in Seq(Scheduled)

\* Every step keeps them so.
LEMMA ScheduleStep ==
  ASSUME OnSchedule, [Next]_vars
  PROVE  OnSchedule'
<1>1. CASE Application
  BY <1>1 DEF Application, Connect, ConnectAgain, ConnectReturns, ConnectThrows,
     DisconnectCall, DisconnectStore, DisconnectCancel, DisconnectPost,
     DisconnectJoin, SendCheck, SendPost, OnSchedule
<1>2. CASE Straight
  <2>1. CASE AttemptReconnect
    BY <2>1 DEF AttemptReconnect, OnSchedule
  <2>2. CASE DialFail \/ PingFail
    BY <2>2, ChainSchedule DEF DialFail, PingFail, OnSchedule
  <2>3. CASE ConnectOk \/ ConnectFail \/ DoRead \/ DoPingTimer \/
            CallbackReturns \/ CallbackDisconnects \/ Dial \/ DialOk \/ PingOk
    BY <2>3 DEF ConnectOk, ConnectFail, DoRead, DoPingTimer, CallbackReturns,
       CallbackDisconnects, Dial, DialOk, PingOk, OnSchedule
  <2> QED BY <1>2, <2>1, <2>2, <2>3 DEF Straight
<1>3. CASE Handler
  <2>1. CASE HandleReadError
    BY <2>1, ChainSchedule DEF HandleReadError, OnSchedule
  <2>2. CASE HandleReconnect
    <3>1. PICK i \in DOMAIN timers :
            /\ timers' = Without(timers, i)
            /\ IF shouldStop THEN UNCHANGED ioVars
               ELSE CallsBack("dial") /\ chain' = timers[i]
      BY <2>2 DEF HandleReconnect
    <3>2. timers' \in Seq(Scheduled) /\ timers[i] \in Scheduled
      BY <3>1, WithoutType DEF OnSchedule
    <3> QED BY <3>1, <3>2 DEF OnSchedule
  <2>3. CASE HandleRead \/ HandlePing \/ HandleSend \/ HandleClose \/ RunReturns
    BY <2>3 DEF HandleRead, HandlePing, HandleSend, HandleClose, RunReturns,
       OnSchedule
  <2> QED BY <1>3, <2>1, <2>2, <2>3 DEF Handler
<1>4. CASE Environment
  BY <1>4 DEF Environment, LinkBreaks, ReadEnds, PingTimerExpires, OnSchedule
<1>5. CASE UNCHANGED vars
  BY <1>5 DEF vars, OnSchedule
<1> QED BY <1>1, <1>2, <1>3, <1>4, <1>5 DEF Next

\* For every interval and any number of attempts a reconnect timer waits as the
\* header says, however the connections break and the chains overlap.
THEOREM BackoffHolds == Spec => []BackoffSchedule
<1>1. Init => OnSchedule
  BY ChainSchedule DEF Init, OnSchedule
<1>2. OnSchedule /\ [Next]_vars => OnSchedule'
  BY ScheduleStep
<1>3. OnSchedule => BackoffSchedule
  BY DEF OnSchedule, Scheduled, BackoffSchedule
<1> QED BY <1>1, <1>2, <1>3, PTL DEF Spec

=============================================================================

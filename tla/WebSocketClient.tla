--------------------------- MODULE WebSocketClient ---------------------------
(***************************************************************************)
(* bintrade::ws::detail::WebSocketClient (src/ws/detail/websocket_client   *)
(* .cpp): an application thread that calls connect(), disconnect() and     *)
(* send(), and the I/O thread that runs do_connect() and then ioc.run().   *)
(*                                                                         *)
(* A handler is cut into steps where another thread can see the            *)
(* difference: at its blocking network calls, at the callbacks into the    *)
(* application, and around the unsynchronised member ping_timer.  The      *)
(* network answers a blocking call in any way; time is abstracted to the   *)
(* order in which timers expire, so the jitter of a delay (lines 67-72)    *)
(* is left out and a pending timer may expire at any moment.               *)
(***************************************************************************)
EXTENDS Integers, Sequences

CONSTANTS
  PingMayFail,           \* the values of pingMayFail to consider
  MaxReconnectAttempts,  \* config.max_reconnect_attempts
  ReconnectInterval,     \* config.reconnect_interval, in seconds
  AppMay,                \* what the application does beyond one plain session
  MaxCalls,              \* bound on the calls of connect() and disconnect()
  MaxLosses,             \* bound on the connections the network breaks
  MaxPosted,             \* bound on the sends waiting in the io_context
  MaxDue                 \* bound on the expired ping timers in the io_context

ASSUME ConfigAssumption ==
  MaxReconnectAttempts \in Nat /\ ReconnectInterval \in Nat \ {0}

ASSUME EnvironmentAssumption ==
  /\ PingMayFail \subseteq BOOLEAN
  /\ AppMay \subseteq {"reuse", "connectAgain", "disconnectInCallback"}
  /\ {MaxCalls, MaxLosses, MaxPosted, MaxDue} \subseteq Nat

VARIABLES
  pingMayFail, \* a ping may fail before the pending read does
  app,         \* where the controlling thread is in connect() or disconnect()
  calls,       \* how many of those calls it has made
  sender,      \* where a thread in send() is
  connected,   \* connected
  shouldStop,  \* should_stop
  outcome,     \* connect_done and connect_error
  gaveUp,      \* the last chain of reconnects used up its attempts
  stopped,     \* the io_context's stopped flag, which nothing restarts
  posted,      \* the functions posted to the io_context
  reads,       \* asynchronous reads: waiting, failed and completed with data
  pingArmed,   \* ping_timer waits
  pingDue,     \* expired ping timers whose handler has not run yet
  timers,      \* the reconnect timers that wait
  io,          \* where the I/O thread is
  after,       \* what it does when the callback it is in returns
  chain,       \* the attempt and delay of the reconnect handler it runs
  open,        \* the current stream completed its handshake
  link,        \* the current stream's connection is unbroken
  losses       \* how many connections have broken

appVars == <<app, calls, sender>>
flagVars == <<connected, shouldStop, outcome, gaveUp>>
pingVars == <<pingArmed, pingDue>>
queueVars == <<stopped, posted, reads, pingVars, timers>>
ioVars == <<io, after, chain>>
netVars == <<open, link, losses, pingMayFail>>
vars == <<appVars, flagVars, queueVars, ioVars, netVars>>

DelayCap == 60

Chain == [attempt : 0..MaxReconnectAttempts, delay : Nat]

FirstTry == [attempt |-> 0, delay |-> ReconnectInterval]

\* Mutated: without the cap.
NextTryNoCap(c) == [attempt |-> c.attempt + 1, delay |-> c.delay * 2]

\* The parameters of attempt_reconnect() after an attempt that failed.
NextTry(c) ==
  [attempt |-> c.attempt + 1,
   delay |-> IF c.delay * 2 < DelayCap THEN c.delay * 2 ELSE DelayCap]

\* A timer that expired is gone.
Without(t, i) == SubSeq(t, 1, i - 1) \o SubSeq(t, i + 1, Len(t))

Init ==
  /\ app = "ready" /\ calls = 0 /\ sender = "idle"
  /\ connected = FALSE /\ shouldStop = FALSE /\ outcome = "none"
  /\ gaveUp = FALSE
  /\ stopped = FALSE /\ posted = <<>> /\ timers = <<>>
  /\ reads = [waiting |-> 0, failed |-> 0, data |-> 0]
  /\ pingArmed = FALSE /\ pingDue = 0
  /\ io = "none" /\ after = "loop" /\ chain = FirstTry
  /\ open = FALSE /\ link = FALSE /\ losses = 0
  /\ pingMayFail \in PingMayFail

-----------------------------------------------------------------------------
(***************************************************************************)
(* The application's threads.                                              *)
(***************************************************************************)
AppGoes(from, to) == app = from /\ app' = to

\* connect() up to its wait.  A plain application connects once.
Connect ==
  /\ AppGoes("ready", "waiting")
  /\ calls = 0 \/ "reuse" \in AppMay
  /\ calls < MaxCalls
  /\ calls' = calls + 1
  /\ shouldStop' = FALSE
  /\ outcome' = "none"
  /\ io' = "connect"
  /\ UNCHANGED <<sender, connected, gaveUp, queueVars, after, chain, netVars>>

\* connect() on a client that has an I/O thread: assigning io_thread, which is
\* joinable, ends the process.
ConnectAgain ==
  /\ AppGoes("using", "dead")
  /\ "connectAgain" \in AppMay
  /\ io' = "dead"
  /\ shouldStop' = FALSE
  /\ outcome' = "none"
  /\ UNCHANGED <<calls, sender, connected, gaveUp, queueVars, after, chain, netVars>>

\* The wait of connect() ends; an error sets should_stop and joins.
ConnectReturns ==
  /\ outcome # "none"
  /\ AppGoes("waiting", IF outcome = "ok" THEN "using" ELSE "failed")
  /\ shouldStop' = (shouldStop \/ outcome = "error")
  /\ UNCHANGED <<calls, sender, connected, outcome, gaveUp, queueVars, ioVars,
                 netVars>>

ConnectThrows ==
  /\ AppGoes("failed", "ready")
  /\ io = "exited"
  /\ io' = "none"
  /\ UNCHANGED <<calls, sender, flagVars, queueVars, after, chain, netVars>>

\* disconnect(), also the destructor's: its two stores, the timer, the post and
\* the join.
DisconnectCall ==
  /\ app \in {"ready", "using"}
  /\ app' = "disconnecting"
  /\ calls < MaxCalls
  /\ calls' = calls + 1
  /\ shouldStop' = TRUE
  /\ UNCHANGED <<sender, connected, outcome, gaveUp, queueVars, ioVars, netVars>>

DisconnectStore ==
  /\ AppGoes("disconnecting", "cancelling")
  /\ connected' = FALSE
  /\ UNCHANGED <<calls, sender, shouldStop, outcome, gaveUp, queueVars, ioVars,
                 netVars>>

\* While the I/O thread assigns ping_timer the read of it is undefined: it may
\* find either timer, or one that has been destroyed.
DisconnectCancel ==
  /\ \/ /\ AppGoes("cancelling", "posting")
        /\ pingArmed' = FALSE
        /\ io' = io
     \/ /\ AppGoes("cancelling", "dead")
        /\ io = "arming"
        /\ io' = "dead"
        /\ pingArmed' = pingArmed
  /\ UNCHANGED <<calls, sender, flagVars, stopped, posted, reads, pingDue, timers,
                 after, chain, netVars>>

\* Mutated: nothing is posted.
WithCloseForgotten(p) == p

WithClose(p) == Append(p, "close")

DisconnectPost ==
  /\ AppGoes("posting", "joining")
  /\ posted' = WithClose(posted)
  /\ UNCHANGED <<calls, sender, flagVars, stopped, reads, pingVars, timers, ioVars,
                 netVars>>

\* Mutated: the thread is detached.
DisconnectJoinDetached ==
  /\ AppGoes("joining", "ready")
  /\ UNCHANGED <<calls, sender, flagVars, queueVars, ioVars, netVars>>

DisconnectJoin ==
  /\ AppGoes("joining", "ready")
  /\ io \in {"none", "exited"}
  /\ io' = "none"
  /\ UNCHANGED <<calls, sender, flagVars, queueVars, after, chain, netVars>>

\* send(), by any thread: the test of is_connected(), then the post.  A call
\* that finds the client disconnected throws and changes nothing.
SendCheck ==
  /\ sender = "idle" /\ io # "dead"
  /\ connected
  /\ Len(posted) < MaxPosted
  /\ sender' = "posting"
  /\ UNCHANGED <<app, calls, flagVars, queueVars, ioVars, netVars>>

SendPost ==
  /\ sender = "posting" /\ io # "dead"
  /\ sender' = "idle"
  /\ posted' = Append(posted, "send")
  /\ UNCHANGED <<app, calls, flagVars, stopped, reads, pingVars, timers, ioVars,
                 netVars>>

Application ==
  \/ Connect \/ ConnectAgain \/ ConnectReturns \/ ConnectThrows
  \/ DisconnectCall \/ DisconnectStore \/ DisconnectCancel
  \/ DisconnectPost \/ DisconnectJoin
  \/ SendCheck \/ SendPost

-----------------------------------------------------------------------------
(***************************************************************************)
(* The I/O thread outside the loop.  A new stream replaces the old one in  *)
(* ws; the reads that waited on the old one complete with an error.        *)
(***************************************************************************)
IoGoes(from, to) == io = from /\ io' = to

\* The application is called, and when it returns the thread goes on at next.
CallsBack(next) == io' = "callback" /\ after' = next

NewStream == reads' = [reads EXCEPT !.waiting = 0, !.failed = @ + reads.waiting]

\* do_connect(), the handshake succeeds.
ConnectOk ==
  /\ IoGoes("connect", "reading")
  /\ NewStream
  /\ open' = TRUE /\ link' = TRUE
  /\ connected' = TRUE
  /\ gaveUp' = FALSE
  /\ outcome' = "ok"
  /\ UNCHANGED <<appVars, shouldStop, stopped, posted, pingVars, timers, after,
                 chain, losses, pingMayFail>>

\* Mutated: the error path does not call notify_connect().
ErrorNotNotified == outcome

ErrorNotified == "error"

\* do_connect(), a step of it throws.
ConnectFail ==
  /\ IoGoes("connect", "loop")
  /\ NewStream
  /\ open' = FALSE /\ link' = FALSE
  /\ connected' = FALSE
  /\ outcome' = ErrorNotified
  /\ UNCHANGED <<appVars, shouldStop, gaveUp, stopped, posted, pingVars, timers,
                 after, chain, losses, pingMayFail>>

\* do_read(), called after a handshake (next: do_ping_timer()) or at the end of
\* handle_read() (next: the loop).
DoRead ==
  /\ IoGoes("reading", "arming") \/ IoGoes("rereading", "loop")
  /\ reads' = IF shouldStop THEN reads ELSE [reads EXCEPT !.waiting = @ + 1]
  /\ UNCHANGED <<appVars, flagVars, stopped, posted, pingVars, timers, after,
                 chain, netVars>>

\* do_ping_timer(): a new timer; the old one, if it waits, is cancelled.
DoPingTimer ==
  /\ IoGoes("arming", "loop")
  /\ pingArmed' = TRUE
  /\ UNCHANGED <<appVars, flagVars, stopped, posted, reads, pingDue, timers, after,
                 chain, netVars>>

\* A callback of the application returns.
CallbackReturns ==
  /\ IoGoes("callback", after)
  /\ UNCHANGED <<appVars, flagVars, queueVars, after, chain, netVars>>

\* A callback calls disconnect(): the thread joins itself and std::thread::join
\* throws.  Either the callback catches that (the streams' dispatch functions
\* do), or it leaves ioc.run() and the thread.
CallbackDisconnects ==
  /\ "disconnectInCallback" \in AppMay
  /\ \/ IoGoes("callback", after) /\ app' = app
     \/ IoGoes("callback", "dead") /\ app' = "dead"
  /\ shouldStop' = TRUE
  /\ connected' = FALSE
  /\ pingArmed' = FALSE
  /\ posted' = WithClose(posted)
  /\ UNCHANGED <<calls, sender, outcome, gaveUp, stopped, reads, pingDue, timers,
                 after, chain, netVars>>

\* Mutated: one attempt too many.
ExhaustedLate(c) == c.attempt > MaxReconnectAttempts

Exhausted(c) == c.attempt >= MaxReconnectAttempts

\* attempt_reconnect(chain.attempt, chain.delay).
AttemptReconnect ==
  /\ io = "retrying"
  /\ \/ /\ shouldStop
        /\ io' = "loop"
        /\ UNCHANGED <<after, gaveUp, timers>>
     \/ /\ ~shouldStop /\ Exhausted(chain)
        /\ CallsBack("loop")
        /\ gaveUp' = TRUE
        /\ timers' = timers
     \/ /\ ~shouldStop /\ ~Exhausted(chain)
        /\ io' = "loop"
        /\ timers' = Append(timers, chain)
        /\ UNCHANGED <<after, gaveUp>>
  /\ UNCHANGED <<appVars, connected, shouldStop, outcome, stopped, posted, reads,
                 pingVars, chain, netVars>>

\* The reconnect handler from make_unique to the handshake.
Dial ==
  /\ IoGoes("dial", "dialling")
  /\ NewStream
  /\ open' = FALSE /\ link' = FALSE
  /\ UNCHANGED <<appVars, flagVars, stopped, posted, pingVars, timers, after,
                 chain, losses, pingMayFail>>

DialOk ==
  /\ IoGoes("dialling", "reading")
  /\ open' = TRUE /\ link' = TRUE
  /\ connected' = TRUE
  /\ gaveUp' = FALSE
  /\ UNCHANGED <<appVars, shouldStop, outcome, queueVars, after, chain, losses, pingMayFail>>

\* Mutated: a failed attempt leaves connected as it was.
ConnectedStill == connected

ConnectedNoMore == FALSE

DialFail ==
  /\ io = "dialling"
  /\ CallsBack("retrying")
  /\ chain' = NextTry(chain)
  /\ connected' = ConnectedNoMore
  /\ UNCHANGED <<appVars, shouldStop, outcome, gaveUp, queueVars, netVars>>

\* The blocking ping of the ping handler.
PingOk ==
  /\ IoGoes("pinging", "arming")
  /\ UNCHANGED <<appVars, flagVars, queueVars, after, chain, netVars>>

PingFail ==
  /\ io = "pinging"
  /\ pingMayFail /\ ~link
  /\ CallsBack("retrying")
  /\ chain' = FirstTry
  /\ connected' = FALSE
  /\ UNCHANGED <<appVars, shouldStop, outcome, gaveUp, queueVars, netVars>>

Straight ==
  \/ ConnectOk \/ ConnectFail \/ DoRead \/ DoPingTimer
  \/ CallbackReturns \/ CallbackDisconnects \/ AttemptReconnect
  \/ Dial \/ DialOk \/ DialFail \/ PingOk \/ PingFail

-----------------------------------------------------------------------------
(***************************************************************************)
(* ioc.run(): the loop runs the handlers that are ready, one at a time, in *)
(* any order (a post overtakes no post).                                   *)
(***************************************************************************)
Running == io = "loop" /\ ~stopped

\* Mutated: a frame that is not text ends handle_read() without do_read().
AfterMessageMaybe == {"rereading", "loop"}

AfterMessage == {"rereading"}

\* handle_read() of a message: the callback, then do_read().
HandleRead ==
  /\ Running
  /\ reads.data > 0
  /\ reads' = [reads EXCEPT !.data = @ - 1]
  /\ IF shouldStop THEN UNCHANGED <<io, after>>
     ELSE \E next \in AfterMessage : CallsBack(next)
  /\ UNCHANGED <<appVars, flagVars, stopped, posted, pingVars, timers, chain,
                 netVars>>

\* Mutated: no reconnect is started.
AfterErrorNothing == "loop"

AfterError == "retrying"

\* Mutated: without its return the error branch goes on to do_read().
TakenAndReread(r) == [r EXCEPT !.failed = @ - 1, !.waiting = @ + 1]

Taken(r) == [r EXCEPT !.failed = @ - 1]

\* handle_read() of an error: on_error, then attempt_reconnect(0).
HandleReadError ==
  /\ Running
  /\ reads.failed > 0
  /\ reads' = Taken(reads)
  /\ IF shouldStop THEN UNCHANGED <<connected, ioVars>>
     ELSE CallsBack(AfterError) /\ chain' = FirstTry /\ connected' = FALSE
  /\ UNCHANGED <<appVars, shouldStop, outcome, gaveUp, stopped, posted, pingVars,
                 timers, netVars>>

\* The ping timer's handler.
HandlePing ==
  /\ Running
  /\ pingDue > 0
  /\ pingDue' = pingDue - 1
  /\ io' = CASE shouldStop -> "loop"
             [] ~shouldStop /\ connected -> "pinging"
             [] ~shouldStop /\ ~connected -> "arming"
  /\ UNCHANGED <<appVars, flagVars, stopped, posted, reads, pingArmed, timers,
                 after, chain, netVars>>

\* The reconnect timer's handler up to its first callback.
HandleReconnect ==
  /\ Running
  /\ \E i \in DOMAIN timers :
       /\ timers' = Without(timers, i)
       /\ IF shouldStop THEN UNCHANGED ioVars
          ELSE CallsBack("dial") /\ chain' = timers[i]
  /\ UNCHANGED <<appVars, flagVars, stopped, posted, reads, pingVars, netVars>>

\* The function send() posted.  A write on a broken connection may fail, which
\* is reported and nothing more.
HandleSend ==
  /\ Running
  /\ posted # <<>> /\ Head(posted) = "send"
  /\ posted' = Tail(posted)
  /\ \/ UNCHANGED <<io, after>>
     \/ connected /\ ~link /\ CallsBack("loop")
  /\ UNCHANGED <<appVars, flagVars, stopped, reads, pingVars, timers, chain,
                 netVars>>

\* The function disconnect() posted: close_stream() and ioc.stop().
HandleClose ==
  /\ Running
  /\ posted # <<>> /\ Head(posted) = "close"
  /\ posted' = Tail(posted)
  /\ open' = FALSE /\ link' = FALSE
  /\ stopped' = TRUE
  /\ UNCHANGED <<appVars, flagVars, reads, pingVars, timers, ioVars, losses, pingMayFail>>

\* run() returns when it is stopped or has no work, and then is stopped; the
\* thread ends.
NoWork ==
  /\ reads.waiting + reads.failed + reads.data + pingDue = 0
  /\ ~pingArmed
  /\ timers = <<>> /\ posted = <<>>

RunReturns ==
  /\ IoGoes("loop", "exited")
  /\ stopped \/ NoWork
  /\ stopped' = TRUE
  /\ UNCHANGED <<appVars, flagVars, posted, reads, pingVars, timers, after, chain,
                 netVars>>

Handler ==
  \/ HandleRead \/ HandleReadError \/ HandlePing \/ HandleReconnect
  \/ HandleSend \/ HandleClose \/ RunReturns

-----------------------------------------------------------------------------
(***************************************************************************)
(* The network and the clock.                                              *)
(***************************************************************************)
LinkBreaks ==
  /\ link /\ losses < MaxLosses
  /\ link' = FALSE
  /\ losses' = losses + 1
  /\ UNCHANGED <<appVars, flagVars, queueVars, ioVars, open, pingMayFail>>

ReadEnds ==
  /\ io # "dead"
  /\ reads.waiting > 0
  /\ reads' = IF link
              THEN [reads EXCEPT !.waiting = @ - 1, !.data = @ + 1]
              ELSE [reads EXCEPT !.waiting = @ - 1, !.failed = @ + 1]
  /\ UNCHANGED <<appVars, flagVars, stopped, posted, pingVars, timers, ioVars,
                 netVars>>

PingTimerExpires ==
  /\ pingArmed /\ io # "dead"
  /\ pingDue < MaxDue
  /\ pingArmed' = FALSE
  /\ pingDue' = pingDue + 1
  /\ UNCHANGED <<appVars, flagVars, stopped, posted, reads, timers, ioVars,
                 netVars>>

Environment == LinkBreaks \/ ReadEnds \/ PingTimerExpires

Next == Application \/ Straight \/ Handler \/ Environment

Spec == Init /\ [][Next]_vars

(***************************************************************************)
(* A thread that can move moves.  Every blocking call of the network is    *)
(* assumed to return: expires_after() does not bound synchronous calls, so *)
(* this rests on the peer and the operating system, not on the code.       *)
(* The io_context's queue is first in, first out, so a handler             *)
(* that is ready again and again is run: strong fairness.  A read on a     *)
(* broken connection completes.  Nothing obliges the application to call,  *)
(* the network to break or a message to arrive.                            *)
(***************************************************************************)
Fairness ==
  /\ WF_vars(ConnectReturns \/ ConnectThrows)
  /\ WF_vars(DisconnectStore \/ DisconnectCancel \/ DisconnectPost
             \/ DisconnectJoin)
  /\ WF_vars(Straight)
  /\ WF_vars(RunReturns)
  /\ SF_vars(HandleReadError)
  /\ SF_vars(HandleReconnect)
  /\ SF_vars(HandleSend \/ HandleClose)
  /\ SF_vars(~link /\ ReadEnds)

FairSpec == Spec /\ Fairness

-----------------------------------------------------------------------------
(***************************************************************************)
(* Properties.                                                             *)
(***************************************************************************)
\* The process has been terminated, by an exception or by undefined behaviour.
Dead == io = "dead"

\* The type of every variable; no chain of reconnects counts beyond
\* max_reconnect_attempts.
TypeOK ==
  /\ app \in {"ready", "waiting", "failed", "using", "disconnecting",
              "cancelling", "posting", "joining", "dead"}
  /\ calls \in 0..MaxCalls
  /\ sender \in {"idle", "posting"}
  /\ connected \in BOOLEAN
  /\ shouldStop \in BOOLEAN
  /\ outcome \in {"none", "ok", "error"}
  /\ stopped \in BOOLEAN
  /\ posted \in Seq({"send", "close"})
  /\ pingArmed \in BOOLEAN
  /\ io \in {"none", "connect", "reading", "rereading", "arming", "loop",
             "callback", "retrying", "dial", "dialling", "pinging", "exited",
             "dead"}
  /\ after \in {"loop", "rereading", "retrying", "dial"}
  /\ chain \in Chain
  /\ reads \in [waiting : Nat, failed : Nat, data : Nat]
  /\ pingDue \in 0..MaxDue
  /\ timers \in Seq(Chain)
  /\ gaveUp \in BOOLEAN
  /\ open \in BOOLEAN
  /\ link \in BOOLEAN
  /\ losses \in 0..MaxLosses

\* Whatever runs in the loop while connected is set (a send's write, a ping, a
\* read) meets a stream that completed its handshake: connected is never left
\* set on a stream that a reconnect replaced and could not open.
ConnectedIsOpen ==
  connected /\ ~stopped /\ io \notin {"connect", "dialling", "dead"} => open

\* Between connect() and disconnect(), whoever calls it, a client that says it
\* is connected is listening: its I/O thread lives, and when it is in its loop a
\* read waits or has completed and will be handled.  Otherwise no message, and
\* no loss of the connection, would ever be seen again.
ConnectedIsServed ==
  connected /\ app = "using" /\ ~shouldStop =>
    /\ io # "exited"
    /\ io = "loop" => reads.waiting + reads.failed + reads.data > 0

\* Every reconnect timer waits as the header says (lines 22-25): the interval
\* before the first attempt, doubled for each later one, at most DelayCap, which
\* six doublings of a second are past already.
BackoffDelay(n) ==
  LET doubled == ReconnectInterval * 2^n
  IN  IF n = 0 \/ (n < 6 /\ doubled < DelayCap) THEN doubled ELSE DelayCap

BackoffSchedule ==
  \A i \in DOMAIN timers : timers[i].delay = BackoffDelay(timers[i].attempt)

\* One thing at a time carries the session on: a read, its completion, a
\* reconnect timer, or a handler of theirs.  With two, two chains of reconnects
\* replace each other's streams.
Lifelines ==
  reads.waiting + reads.failed + reads.data + Len(timers)
    + (IF \/ io \in {"reading", "rereading", "retrying", "dial", "dialling"}
          \/ io = "callback" /\ after # "loop"
       THEN 1 ELSE 0)

OneLifeline == ~pingMayFail => Lifelines <= 1

\* disconnect() returns (or the process has died of the race on ping_timer).
DisconnectReturns == app = "disconnecting" ~> (app = "ready" \/ Dead)

\* connect() returns or throws.
ConnectEnds == app = "waiting" ~> (app \in {"using", "ready"} \/ Dead)

\* A lost connection comes back, or the client says that it gave up.
LossIsHandled ==
  (app = "using" /\ ~connected) ~> (connected \/ gaveUp \/ app # "using")

\* Once the network stops breaking connections the client settles: connected,
\* or given up, or disconnected by the application.
Settled == connected \/ gaveUp \/ app # "using"

Settles == <>[](pingMayFail \/ Settled)

\* The same whether the ping or the read notices a broken connection first.
AlwaysSettles == <>[]Settled

\* The application never dies in a call of this class.
StaysAlive == ~Dead

\* No access to ping_timer by disconnect() meets an assignment by the I/O
\* thread.
NoTimerRace == ~(app = "cancelling" /\ io = "arming")

\* After disconnect() (or a failed connect()) is_connected() is false.
ClosedIsClosed == app = "ready" => ~connected

(***************************************************************************)
(* What the streams rely on: the client is a WsSession.                    *)
(***************************************************************************)
SessionCall ==
  CASE app \in {"ready", "using"} -> "none"
    [] app \in {"waiting", "failed"} -> "connect"
    [] app = "dead" -> "dead"
    [] OTHER -> "disconnect"

SessionThread ==
  CASE io \in {"none", "exited", "dead"} -> io
    [] io = "connect" -> "dialling"
    [] io = "callback" /\ after = "rereading" -> "message"
    [] io = "callback" /\ after # "rereading" -> "error"
    [] OTHER -> "loop"

Session == INSTANCE WsSession WITH
  call <- SessionCall, thread <- SessionThread, dialled <- outcome, halted <- stopped

\* The client keeps the promise that the streams are built on: one I/O thread,
\* callbacks one at a time and only on it, no message once disconnect() has
\* begun, and none of its threads left when disconnect() has returned.
ImplementsSession == Session!SessionSpec

=============================================================================

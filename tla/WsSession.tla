----------------------------- MODULE WsSession -----------------------------
(***************************************************************************)
(* What bintrade::ws::Client (src/ws/client.cpp) promises the streams that *)
(* derive from it, apart from the network: at most one I/O thread, which   *)
(* calls the application back one message at a time, from within connect() *)
(* until disconnect() has joined it.  ws::Client forwards every call to    *)
(* WebSocketClient, and the module of that name implements this one.       *)
(*                                                                         *)
(* The promise is as weak as the code's: a loop that ended is never        *)
(* restarted (halted), so a later connect() may succeed and then nothing   *)
(* calls back, and connect() while a thread exists ends the process.       *)
(***************************************************************************)
VARIABLES
  call,     \* the call the controlling thread is in
  thread,   \* the I/O thread
  dialled,  \* what the first attempt to connect came to
  halted    \* the event loop has returned

sessionVars == <<call, thread, dialled, halted>>

SessionInit ==
  /\ call = "none"
  /\ thread = "none"
  /\ dialled = "none"
  /\ halted = FALSE

\* connect() starts the thread and waits for the first attempt.
ConnectCalls ==
  /\ call = "none" /\ call' = "connect"
  /\ thread = "none" /\ thread' = "dialling"
  /\ dialled' = "none"
  /\ halted' = halted

Dialled(result) ==
  /\ thread = "dialling" /\ thread' = "loop"
  /\ dialled' = result
  /\ UNCHANGED <<call, halted>>

ConnectReturns ==
  /\ call = "connect" /\ call' = "none"
  /\ dialled = "ok"
  /\ UNCHANGED <<thread, dialled, halted>>

\* A connect() that failed joins the thread and throws.
ConnectThrows ==
  /\ call = "connect" /\ call' = "none"
  /\ dialled = "error"
  /\ thread = "exited" /\ thread' = "none"
  /\ UNCHANGED <<dialled, halted>>

DisconnectCalls ==
  /\ call = "none" /\ call' = "disconnect"
  /\ UNCHANGED <<thread, dialled, halted>>

DisconnectReturns ==
  /\ call = "disconnect" /\ call' = "none"
  /\ thread \in {"none", "exited"} /\ thread' = "none"
  /\ UNCHANGED <<dialled, halted>>

\* handle_read() finds should_stop clear and goes on to on_message: the step is
\* the test.  disconnect() may begin before the handler is entered, which is a
\* later step of the stream's, and before it returns.
DeliversMessage ==
  /\ thread = "loop" /\ thread' = "message"
  /\ ~halted /\ call # "disconnect"
  /\ UNCHANGED <<call, dialled, halted>>

\* A handler calls on_error.
ReportsError ==
  /\ thread = "loop" /\ thread' = "error"
  /\ ~halted
  /\ UNCHANGED <<call, dialled, halted>>

CallbackReturns ==
  /\ thread \in {"message", "error"} /\ thread' = "loop"
  /\ UNCHANGED <<call, dialled, halted>>

\* Stopped by the function disconnect() posted, or out of work.
LoopHalts ==
  /\ thread = "loop" /\ ~halted
  /\ halted' = TRUE
  /\ UNCHANGED <<call, thread, dialled>>

LoopEnds ==
  /\ thread = "loop" /\ thread' = "exited"
  /\ halted' = TRUE
  /\ UNCHANGED <<call, dialled>>

\* The process ends: connect() while a thread exists, disconnect() out of a
\* callback that lets its exception escape, or the race on ping_timer.
ProcessEnds ==
  /\ thread \notin {"none", "dead"} /\ thread' = "dead"
  /\ call' = "dead"
  /\ dialled' \in {dialled, "none"}
  /\ halted' = halted

SessionNext ==
  \/ ConnectCalls \/ (\E r \in {"ok", "error"} : Dialled(r))
  \/ ConnectReturns \/ ConnectThrows
  \/ DisconnectCalls \/ DisconnectReturns
  \/ DeliversMessage \/ ReportsError \/ CallbackReturns
  \/ LoopHalts \/ LoopEnds \/ ProcessEnds

SessionSpec == SessionInit /\ [][SessionNext]_sessionVars

=============================================================================

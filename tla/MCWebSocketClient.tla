------------------------- MODULE MCWebSocketClient -------------------------
(***************************************************************************)
(* WebSocketClient for TLC: an interval of 25 s with three attempts passes *)
(* through a doubled delay (50 s) and a capped one (60 s).                 *)
(***************************************************************************)
EXTENDS WebSocketClient

PingFails == {TRUE}
ReadFails == {FALSE}
EitherFails == BOOLEAN

NoExtras == {}
Reuse == {"reuse"}
Extras == {"connectAgain", "disconnectInCallback"}

=============================================================================

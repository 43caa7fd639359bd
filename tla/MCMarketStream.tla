--------------------------- MODULE MCMarketStream ---------------------------
(***************************************************************************)
(* MarketStream for TLC: four messages and a queue of two, so that the     *)
(* order of those that wait shows, and one is refused while two wait and   *)
(* another is being dispatched.                                            *)
(***************************************************************************)
EXTENDS MarketStream

SomeMethods == {"trades", "ticker"}
Everything == {"resubscribe", "move", "dropConnected"}
DropConnected == {"dropConnected"}

=============================================================================

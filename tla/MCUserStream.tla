---------------------------- MODULE MCUserStream ----------------------------
(***************************************************************************)
(* UserStream for TLC: two starts, so that a stopped stream is started     *)
(* again, and three messages for a queue of two, so that the order shows   *)
(* and one may be refused.  One callback is set and the other is not.      *)
(***************************************************************************)
EXTENDS UserStream

OnlyReports == {{"executionReport"}}
Everything == {"restart", "dropStarted", "stopInCallback"}
Nothing == {}

=============================================================================

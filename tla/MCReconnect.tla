----------------------------- MODULE MCReconnect -----------------------------
(* Reconnect with a few calls and targets. *)
EXTENDS Reconnect
=============================================================================

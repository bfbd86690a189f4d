----------------------------- MODULE MCWsSession -----------------------------
(***************************************************************************)
(* Instances of WsSession for TLC: alice connects twice, and the sessions  *)
(* overlap.                                                                *)
(***************************************************************************)
EXTENDS WsSession, TLC

CONSTANTS s1, s2, alice

Reconnect == s1 :> alice @@ s2 :> alice
=============================================================================

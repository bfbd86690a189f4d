----------------------------- MODULE MCLivePush -----------------------------
(***************************************************************************)
(* Instances of LivePush for TLC: a session of alice on two channels, with *)
(* a Send buffer of two messages.                                          *)
(***************************************************************************)
EXTENDS LivePush, TLC

CONSTANTS s1, alice, bob

Alice == s1 :> alice
=============================================================================

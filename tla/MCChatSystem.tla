---------------------------- MODULE MCChatSystem ----------------------------
(***************************************************************************)
(* Instances of ChatSystem for TLC: alice reads what bob, and in one of    *)
(* them she herself, send, in pages of one message.  There the second ID   *)
(* goes to one of three messages: rows have different IDs.                 *)
(***************************************************************************)
EXTENDS ChatSystem, TLC

CONSTANTS s1, general, random, alice, bob

From(i, c, u) == [id |-> i, conv |-> c, sender |-> u]

Talk == {From(1, general, bob), From(2, general, bob), From(2, general, alice),
         From(2, random, bob)}
Bobs == {From(1, general, bob), From(2, general, bob)}

OneSession == s1 :> alice
NoSession == <<>>
=============================================================================

-------------------------- MODULE MCMessageService --------------------------
(***************************************************************************)
(* Instances of MessageService for TLC.  r1 and r2 use one idempotency     *)
(* key: two attempts of one user, or two users whose clients chose the     *)
(* same key.                                                               *)
(***************************************************************************)
EXTENDS MessageService, TLC

CONSTANTS r1, r2, n1, general, alice, bob, k1

Attempt(user) == [conv |-> general, sender |-> user, key |-> k1]

SameUser == r1 :> Attempt(alice) @@ r2 :> Attempt(alice)
TwoUsers == r1 :> Attempt(alice) @@ r2 :> Attempt(bob)

(* The processes are alike, so the one that gets r1 may be called n1.      *)
RoutedInit == Init /\ at[r1] = n1

RoutedSpec == RoutedInit /\ [][Next]_vars /\ Fairness
=============================================================================

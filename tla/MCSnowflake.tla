----------------------------- MODULE MCSnowflake -----------------------------
(***************************************************************************)
(* Instances of Snowflake for TLC: process n1 has no WORKER_ID and so the  *)
(* default one; that of n2, 263 in integers of 8 bits, wraps to 7, outside *)
(* the 10-bit range (scaled down to 0..1), and NewGenerator clamps it.     *)
(***************************************************************************)
EXTENDS Config, TLC

CONSTANTS n1, n2, c1, c2

TwoNodes == {n1, n2}
OneNode == {n1}

Environment == n1 :> <<>> @@ n2 :> <<2, 6, 3>>

TwoWorkerIDs == [n \in TwoNodes |-> LoadWorkerID(Environment[n])]
OneWorkerID == [n \in OneNode |-> LoadWorkerID(Environment[n])]

(* A sign, the ends of the digits, 2, and the character after '9'.         *)
Characters == {-3, 0, 1, 2, 9, 10}
=============================================================================

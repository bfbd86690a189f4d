------------------------------ MODULE IdOracle ------------------------------
(***************************************************************************)
(* What the rest of TeamChat relies on when it draws an ID: one process    *)
(* (node) never hands out the same ID twice, its IDs only grow, and no two *)
(* nodes share one.  Nothing is promised about the order of IDs drawn on   *)
(* different nodes.  Snowflake.tla implements this specification and       *)
(* MessageService.tla draws its message IDs from it.                       *)
(***************************************************************************)
EXTENDS Naturals, Sequences

CONSTANTS
    Nodes,      \* processes that own a generator
    IDs         \* the numbers an ID may be

VARIABLE
    issued      \* issued[n]: every ID node n has handed out, oldest first

Init == issued = [n \in Nodes |-> <<>>]

(* Every ID that some other node has handed out.                           *)
TakenElsewhere(n) ==
    {id \in IDs : \E m \in Nodes \ {n} :
                    \E i \in DOMAIN issued[m] : issued[m][i] = id}

Issue(n, id) ==
    /\ \A i \in DOMAIN issued[n] : issued[n][i] < id
    /\ id \notin TakenElsewhere(n)
    /\ issued' = [issued EXCEPT ![n] = Append(@, id)]

Next == \E n \in Nodes, id \in IDs : Issue(n, id)

Spec == Init /\ [][Next]_issued

=============================================================================

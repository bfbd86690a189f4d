----------------------------- MODULE BestEffort -----------------------------
(***************************************************************************)
(* What the live path promises: a session is shown broadcasts that others  *)
(* made after it subscribed, within a channel in their order and none      *)
(* twice.  It need not be shown any of them.  A message that Redis was     *)
(* given twice is two broadcasts, and may be shown twice.                  *)
(*                                                                         *)
(* LivePush implements this specification, and ChatSystem relies on it.    *)
(***************************************************************************)
EXTENDS Integers, Sequences

CONSTANTS Sessions, Channels, UserID, Message

VARIABLES
    published,  \* broadcasts in the order Redis made them
    since,      \* since[s][c]: broadcasts made when s subscribed to c, or -1
    wire        \* wire[s]: numbers of the broadcasts s was shown, oldest first

Init ==
    /\ published = <<>>
    /\ since = [s \in Sessions |-> [c \in Channels |-> -1]]
    /\ wire = [s \in Sessions |-> <<>>]

Publish(m) == published' = Append(published, m) /\ UNCHANGED <<since, wire>>

Join(s, c) ==
    /\ since[s][c] = -1
    /\ since' = [since EXCEPT ![s][c] = Len(published)]
    /\ UNCHANGED <<published, wire>>

(* All that s was shown of the channel was published before number i.      *)
InOrder(s, i) ==
    \A k \in DOMAIN wire[s] :
        published[wire[s][k]].conv = published[i].conv => wire[s][k] < i

Show(s, i) ==
    /\ published[i].sender # UserID[s]
    /\ since[s][published[i].conv] \in 0..(i - 1)
    /\ InOrder(s, i)
    /\ wire' = [wire EXCEPT ![s] = Append(@, i)]
    /\ UNCHANGED <<published, since>>

Next ==
    \/ \E m \in Message : Publish(m)
    \/ \E s \in Sessions : \/ \E c \in Channels : Join(s, c)
                           \/ \E i \in DOMAIN published : Show(s, i)

Spec == Init /\ [][Next]_<<published, since, wire>>

=============================================================================

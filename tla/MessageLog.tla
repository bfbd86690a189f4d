----------------------------- MODULE MessageLog -----------------------------
(***************************************************************************)
(* What POST /messages promises to those who read: a message is stored     *)
(* under an ID of its own, then perhaps broadcast, and its sender may be   *)
(* told that it was accepted only when it has been both.  Stored messages  *)
(* appear in any order of their IDs.  One call of PUBLISH may broadcast a  *)
(* message several times, since go-redis sends the command again when the  *)
(* reply is lost, but not more often than it tries.                        *)
(*                                                                         *)
(* MessageService implements this specification, and the readers of        *)
(* DeltaSync and ChatSystem are checked against it.                        *)
(***************************************************************************)
EXTENDS Naturals, Sequences, FiniteSets

CONSTANTS
    Message,        \* records with fields id, conv and sender
    MaxBroadcasts   \* attempts of one PUBLISH: its retries and the first

ASSUME BroadcastBound == MaxBroadcasts \in Nat

VARIABLES
    messages,   \* MySQL: rows of messages
    published,  \* Redis: messages in the order of their broadcast
    accepted    \* messages whose sender was answered 202

Init == messages = {} /\ published = <<>> /\ accepted = {}

Broadcasts == {published[i] : i \in DOMAIN published}

(* The places in the order of broadcasts at which m stands.                *)
Copies(m) == {i \in DOMAIN published : published[i] = m}

Store(m) ==
    /\ \A x \in messages : x.id # m.id
    /\ messages' = messages \cup {m}
    /\ UNCHANGED <<published, accepted>>

(* Faulty variant: publish first, then persist.                            *)
MayBroadcastUnstored(m) == Cardinality(Copies(m)) < MaxBroadcasts

MayBroadcast(m) == m \in messages /\ Cardinality(Copies(m)) < MaxBroadcasts

Broadcast(m) ==
    /\ MayBroadcast(m)
    /\ published' = Append(published, m)
    /\ accepted' \in {accepted, accepted \cup {m}}
    /\ UNCHANGED messages

Next == \E m \in Message : Store(m) \/ Broadcast(m)

Spec == Init /\ [][Next]_<<messages, published, accepted>>

=============================================================================

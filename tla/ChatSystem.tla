----------------------------- MODULE ChatSystem -----------------------------
(***************************************************************************)
(* A client of the whole system: it learns of messages from its WebSocket  *)
(* sessions (BestEffort), from the 202s to its own POSTs (MessageLog) and  *)
(* from delta-sync (DeltaSync), and keeps all of them in one store, whose  *)
(* highest ID per channel is the cursor of its next sync.                  *)
(***************************************************************************)
EXTENDS DeltaSync

CONSTANTS
    Sessions,   \* WebSocket sessions of the clients, one after another
    UserID      \* UserID[s]: the client of session s

ASSUME ChatAssumption == UserID \in [Sessions -> Readers]

VARIABLES
    since, wire,    \* the sessions, see BestEffort
    pushed          \* history: pushed[u]: what u learnt other than by a sync

chatVars == <<vars, since, wire, pushed>>

Live == INSTANCE BestEffort

ChatTypeOK ==
    /\ SyncTypeOK
    /\ since \in [Sessions -> [Channels -> -1..Len(published)]]
    /\ wire \in [Sessions -> Seq(DOMAIN published)]
    /\ \A u \in Readers : pushed[u] \subseteq held[u]

ChatInit ==
    /\ SyncInit /\ Live!Init
    /\ pushed = [u \in Readers |-> {}]

(* Client u puts m into its store; it may have it already.                 *)
Learn(u, m) ==
    /\ held' = [held EXCEPT ![u] = @ \cup {m}]
    /\ pushed' = [pushed EXCEPT ![u] = @ \cup ({m} \ held[u])]
    /\ UNCHANGED <<logVars, sync, failures>>

(* listenToRedis of session s has subscribed to channel c.                 *)
Connect(s, c) == Live!Join(s, c) /\ UNCHANGED <<vars, pushed>>

(* Broadcast number i reaches the client over the socket.                  *)
Receive(s, i) == Live!Show(s, i) /\ Learn(UserID[s], published[i])

(* The client reads its 202, which carries the message and its ID.         *)
ReadAccepted(u, m) ==
    /\ m.sender = u /\ m \notin held[u]
    /\ Learn(u, m)
    /\ UNCHANGED <<since, wire>>

ChatNext ==
    \/ SyncNext /\ UNCHANGED <<since, wire, pushed>>
    \/ \E s \in Sessions : \/ \E c \in Channels : Connect(s, c)
                           \/ \E i \in DOMAIN published : Receive(s, i)
    \/ \E u \in Readers, m \in accepted : ReadAccepted(u, m)

(* Clients keep asking and the server goes on with a sync that it has;     *)
(* nothing is assumed of senders and sockets.                              *)
ChatFairness ==
    \A u \in Readers : WF_chatVars(SyncStep(u) /\ UNCHANGED <<since, wire, pushed>>)

ChatSpec == ChatInit /\ [][ChatNext]_chatVars /\ ChatFairness

(* No INSERT commits after that of a higher ID.                            *)
CommitsInOrder ==
    \A m \in messages' \ messages : \A x \in messages : x.id < m.id

OrderedSpec == ChatInit /\ [][ChatNext /\ CommitsInOrder]_chatVars /\ ChatFairness

-----------------------------------------------------------------------------
(* Properties                                                              *)

(* A message that a client will never be given (its cursor has passed it)  *)
(* has one of two causes: a message with a higher ID that the client holds *)
(* was committed before it, or reached the client by its socket or its     *)
(* 202.  Paging, failed syncs and the loop over channels cost nothing, nor *)
(* do two sessions, a late subscription or a missed broadcast by itself.   *)
LossHasCause ==
    \A u \in Readers, c \in Channels : \A m \in PassedOver(u, c) :
        \E h \in In(c, held[u]) :
            h.id > m.id /\ (h \in pushed[u] \/ CommittedAfter(m, h))

(* message_service.go of a message that is stored and not broadcast: it    *)
(* "will be fetched via delta-sync on reconnect".  Stated of clients that  *)
(* sync for ever, and of messages whose broadcast never comes.             *)
RecoveredBySync ==
    \A u \in Readers, i \in IDs :
        (\E m \in messages \ Broadcasts : m.id = i) ~>
            (\E m \in held[u] \cup Broadcasts : m.id = i)

=============================================================================

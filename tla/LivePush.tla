------------------------------ MODULE LivePush ------------------------------
(***************************************************************************)
(* The live path of a message inside a ws-worker:                          *)
(*                                                                         *)
(*    Redis PUBLISH -> subscription -> listenToRedis -> Send -> writePump  *)
(*                                                                         *)
(* One listenToRedis goroutine per channel feeds the session's single Send *)
(* buffer, which never makes it wait: a message that finds the buffer full *)
(* is dropped.  Redis, go-redis and the socket are external.               *)
(*                                                                         *)
(* What travels here is a broadcast.  Nothing on this path looks at the ID *)
(* of the message in it, so a broadcast is identified by its number: two   *)
(* PUBLISHes of one message are two broadcasts.                            *)
(***************************************************************************)
EXTENDS Integers, Sequences, SequencesExt

CONSTANTS
    Sessions, Users, Channels,
    UserID,         \* UserID[s]: the user of session s
    sendBuffer,     \* capacity of Send, 256 in the code
    MaxPublished    \* bound: broadcasts

ASSUME LiveAssumption ==
    /\ UserID \in [Sessions -> Users]
    /\ sendBuffer \in Nat \ {0} /\ MaxPublished \in Nat

VARIABLES
    published,  \* broadcasts in the order Redis made them; no. i has ID i
    sub,        \* sub[s][c]: "off", "on" (subscribed) or "over" (goroutine ended)
    since,      \* history: since[s][c]: Len(published) at the subscription, or -1
    msgCh,      \* msgCh[s][c]: received for the subscription, not yet handled
    Send,       \* Send[s]: the outbound buffer
    wire,       \* wire[s]: messages written to the socket
    ctx,        \* sessions whose context is not cancelled
    up,         \* sessions whose connection is not closed
    writing,    \* sessions whose writePump runs
    received,   \* history: received[s]: messages Redis delivered to s
    dropped,    \* history: dropped[s]: messages that found Send[s] full
    torn        \* history: torn[s]: messages whose WriteJSON failed

redis == <<published, sub, since>>
link == <<ctx, up, writing>>
lost == <<dropped, torn>>
vars == <<redis, msgCh, Send, wire, link, received, lost>>

Message == [id : 1..MaxPublished, conv : Channels, sender : Users]

TypeOK ==
    /\ published \in Seq(Message)
    /\ sub \in [Sessions -> [Channels -> {"off", "on", "over"}]]
    /\ since \in [Sessions -> [Channels -> -1..MaxPublished]]
    /\ msgCh \in [Sessions -> [Channels -> Seq(Message)]]
    /\ Send \in [Sessions -> Seq(Message)]
    /\ \A s \in Sessions : Len(Send[s]) <= sendBuffer
    /\ wire \in [Sessions -> Seq(Message)]
    /\ ctx \subseteq Sessions
    /\ up \subseteq Sessions
    /\ writing \subseteq Sessions
    /\ received \in [Sessions -> SUBSET Message]
    /\ dropped \in [Sessions -> SUBSET Message]
    /\ torn \in [Sessions -> SUBSET Message]

Init ==
    /\ published = <<>>
    /\ sub = [s \in Sessions |-> [c \in Channels |-> "off"]]
    /\ since = [s \in Sessions |-> [c \in Channels |-> -1]]
    /\ msgCh = [s \in Sessions |-> [c \in Channels |-> <<>>]]
    /\ Send = [s \in Sessions |-> <<>>]
    /\ wire = [s \in Sessions |-> <<>>]
    /\ ctx = Sessions
    /\ up = Sessions
    /\ writing = Sessions
    /\ received = [s \in Sessions |-> {}]
    /\ dropped = [s \in Sessions |-> {}]
    /\ torn = [s \in Sessions |-> {}]

-----------------------------------------------------------------------------
(* Redis                                                                   *)

(* rdb.Subscribe takes effect for channel c.                               *)
Subscribe(s, c) ==
    /\ sub[s][c] = "off"
    /\ sub' = [sub EXCEPT ![s][c] = "on"]
    /\ since' = [since EXCEPT ![s][c] = Len(published)]
    /\ UNCHANGED <<published, msgCh, Send, wire, link, received, lost>>

Subscribers(c) == {s \in Sessions : sub[s][c] = "on"}

(* Some api-server publishes to chat:room:c.  A subscriber may miss it:    *)
(* its Redis connection may be down at that moment.                        *)
Publish(c, u) ==
    /\ Len(published) < MaxPublished
    /\ LET m == [id |-> Len(published) + 1, conv |-> c, sender |-> u] IN
       /\ published' = Append(published, m)
       /\ \E got \in SUBSET Subscribers(c) :
             /\ msgCh' = [s \in Sessions |-> [msgCh[s] EXCEPT ![c] =
                            IF s \in got THEN Append(@, m) ELSE @]]
             /\ received' = [s \in Sessions |-> received[s] \cup {x \in {m} : s \in got}]
    /\ UNCHANGED <<sub, since, Send, wire, link, lost>>

-----------------------------------------------------------------------------
(* listenToRedis                                                           *)

NextMsg(s, c) == Head(msgCh[s][c])

Own(s, c) == NextMsg(s, c).sender = UserID[s]

(* The goroutine takes the next message from its subscription.             *)
Take(s, c) ==
    /\ sub[s][c] = "on" /\ msgCh[s][c] # <<>>
    /\ msgCh' = [msgCh EXCEPT ![s][c] = Tail(@)]
    /\ UNCHANGED <<redis, wire, link, received, torn>>

(* The user's own message is not echoed.                                   *)
SkipOwn(s, c) == Take(s, c) /\ Own(s, c) /\ UNCHANGED <<Send, dropped>>

(* Faulty variant: the capacity is checked off by one.                     *)
HasRoomForOneMore(s) == Len(Send[s]) <= sendBuffer

HasRoom(s) == Len(Send[s]) < sendBuffer

(* Faulty variant: the newest message goes out first.                      *)
EnqueuedFirst(s, m) == <<m>> \o Send[s]

Enqueued(s, m) == Append(Send[s], m)

(* case c.Send <- domainMsg                                                *)
Forward(s, c) ==
    /\ Take(s, c) /\ ~Own(s, c) /\ HasRoom(s)
    /\ Send' = [Send EXCEPT ![s] = Enqueued(s, NextMsg(s, c))]
    /\ UNCHANGED dropped

(* Faulty variant: without the default case the send waits for room.       *)
DropNever(s, c) == FALSE

(* default: the buffer is full and the message is dropped.                 *)
Drop(s, c) ==
    /\ Take(s, c) /\ ~Own(s, c) /\ ~HasRoom(s)
    /\ dropped' = [dropped EXCEPT ![s] = @ \cup {NextMsg(s, c)}]
    /\ UNCHANGED Send

(* listenToRedis sees ctx.Done().  While a message is ready too, select    *)
(* may choose either, so Forward and Drop remain possible until then.      *)
Unsubscribe(s, c) ==
    /\ s \notin ctx /\ sub[s][c] # "over"
    /\ sub' = [sub EXCEPT ![s][c] = "over"]
    /\ UNCHANGED <<published, since, msgCh, Send, wire, link, received, lost>>

-----------------------------------------------------------------------------
(* writePump and readPump                                                  *)

(* Faulty variant: the writer empties the buffer and writes its oldest.    *)
BufferCleared(s) == <<>>

BufferRest(s) == Tail(Send[s])

(* writePump takes a message from Send.                                    *)
Dequeue(s) ==
    /\ s \in writing /\ Send[s] # <<>>
    /\ Send' = [Send EXCEPT ![s] = BufferRest(s)]
    /\ UNCHANGED <<redis, msgCh, received, dropped>>

(* WriteJSON succeeds.                                                     *)
Write(s) ==
    /\ Dequeue(s) /\ s \in up
    /\ wire' = [wire EXCEPT ![s] = Append(@, Head(Send[s]))]
    /\ UNCHANGED <<link, torn>>

(* writePump ends, and with it the context and the connection.             *)
WriterEnds(s) ==
    /\ writing' = writing \ {s}
    /\ ctx' = ctx \ {s}
    /\ up' = up \ {s}

(* WriteJSON fails, and the message it had taken from Send is lost.        *)
WriteFails(s) ==
    /\ Dequeue(s) /\ WriterEnds(s)
    /\ torn' = [torn EXCEPT ![s] = @ \cup {Head(Send[s])}]
    /\ UNCHANGED wire

(* A ping fails: what is in Send stays there.                              *)
PingFails(s) ==
    /\ s \in writing /\ WriterEnds(s)
    /\ UNCHANGED <<redis, msgCh, Send, wire, received, lost>>

(* readPump ends: it cancels the context.                                  *)
Cancel(s) ==
    /\ s \in ctx
    /\ ctx' = ctx \ {s}
    /\ UNCHANGED <<redis, msgCh, Send, wire, up, writing, received, lost>>

(* Then it closes the connection, which writePump finds out at its next    *)
(* write; until then writePump may go on.                                  *)
Disconnect(s) ==
    /\ s \notin ctx /\ s \in up
    /\ up' = up \ {s}
    /\ UNCHANGED <<redis, msgCh, Send, wire, ctx, writing, received, lost>>

-----------------------------------------------------------------------------
Listen(s, c) == SkipOwn(s, c) \/ Forward(s, c) \/ Drop(s, c)

Next ==
    \/ \E c \in Channels, u \in Users : Publish(c, u)
    \/ \E s \in Sessions : \/ Write(s) \/ WriteFails(s) \/ PingFails(s)
                           \/ Cancel(s) \/ Disconnect(s)
                           \/ \E c \in Channels : \/ Subscribe(s, c)
                                                  \/ Listen(s, c)
                                                  \/ Unsubscribe(s, c)

(* The listener goroutines run; the writers may be stuck in a slow socket. *)
Fairness == \A s \in Sessions, c \in Channels :
               WF_vars(Listen(s, c)) /\ WF_vars(Unsubscribe(s, c))

Spec == Init /\ [][Next]_vars

FairSpec == Spec /\ Fairness

-----------------------------------------------------------------------------
(* Properties                                                              *)

(* The broadcasts written to the socket of each session, by their numbers. *)
Shown == [s \in Sessions |-> [k \in DOMAIN wire[s] |-> wire[s][k].id]]

Live == INSTANCE BestEffort WITH wire <- Shown

(* Although several goroutines share its buffer and messages are dropped,  *)
(* missed and torn on the way, a session is shown only what others         *)
(* published after it subscribed, in the order of each channel and no      *)
(* broadcast twice.                                                        *)
ImplementsBestEffort == Live!Spec

Waiting(s) == UNION {Range(msgCh[s][c]) : c \in Channels}

(* Between Redis and the socket a session loses a message in two ways      *)
(* only, a full buffer or the write that ends it, and by the second at     *)
(* most one.  Whatever else it receives and did not send itself is on the  *)
(* wire, buffered or waiting, in exactly one of these places.              *)
NothingVanishes ==
    \A s \in Sessions :
        LET places == <<Range(wire[s]), Range(Send[s]), Waiting(s), dropped[s], torn[s]>>
            own == {m \in received[s] : m.sender = UserID[s]}
        IN  /\ received[s] = own \cup UNION Range(places)
            /\ \A i, j \in DOMAIN places : i # j => places[i] \cap places[j] = {}
            /\ own \cap ((UNION Range(places)) \ Waiting(s)) = {}
            /\ \A m, n \in torn[s] : m = n

(* A slow or stuck client delays nobody: what a subscription has received  *)
(* is taken from it whether or not the session's writer ever writes again. *)
ListenerNeverBlocks ==
    \A s \in Sessions, c \in Channels :
        (msgCh[s][c] # <<>>) ~> (msgCh[s][c] = <<>> \/ sub[s][c] = "over")

=============================================================================

------------------------------ MODULE WsSession ------------------------------
(***************************************************************************)
(* One ws-worker process: the Hub, and for every WebSocket connection the  *)
(* goroutines that ServeWS starts and their common context.  A session is  *)
(* one connection attempt, so a user who reconnects has several.           *)
(*                                                                         *)
(* ServeWS:  new -> upgraded -> fetched -> registered -> served            *)
(* readPump: run -> unregister -> close -> exited                          *)
(*                                                                         *)
(* Every method of the Hub holds its mutex from end to end and is one      *)
(* step.  What the goroutines carry is the subject of LivePush.            *)
(***************************************************************************)
EXTENDS Naturals, FiniteSets

CONSTANTS
    Sessions,   \* connection attempts
    Users,
    UserID,     \* UserID[s]: the user_id of the query string
    Channels,
    NoSession   \* no entry in the Hub's map

ASSUME SessionAssumption ==
    UserID \in [Sessions -> Users] /\ NoSession \notin Sessions

VARIABLES
    stage,      \* stage[s]: how far ServeWS has come
    conn,       \* conn[s]: the server's end of the socket
    gone,       \* sessions whose peer hung up, died, stalled or sent nonsense
    cancelled,  \* sessions whose context is cancelled
    subs,       \* subs[s]: channels GetChannelIDsByUser returned
    reader,     \* reader[s]: where readPump is
    writer,     \* writer[s]: where writePump is
    listening,  \* listening[s]: channels with a running listenToRedis
    clients,    \* the Hub's map from users to sessions
    worker,     \* "up", "drained" (Hub.Shutdown ran), "closed" or "exited"
    newest      \* history: newest[u] is the last session of u to register

goroutines == <<reader, writer, listening>>
hub == <<clients, newest>>
vars == <<stage, conn, gone, cancelled, subs, goroutines, worker, hub>>

TypeOK ==
    /\ stage \in [Sessions -> {"new", "upgraded", "fetched", "registered",
                               "served", "failed"}]
    /\ conn \in [Sessions -> {"none", "open", "closed"}]
    /\ gone \subseteq Sessions
    /\ cancelled \subseteq Sessions
    /\ subs \in [Sessions -> SUBSET Channels]
    /\ reader \in [Sessions -> {"none", "run", "unregister", "close", "exited"}]
    /\ writer \in [Sessions -> {"none", "run", "exited"}]
    /\ listening \in [Sessions -> SUBSET Channels]
    /\ clients \in [Users -> Sessions \cup {NoSession}]
    /\ worker \in {"up", "drained", "closed", "exited"}
    /\ newest \in [Users -> Sessions \cup {NoSession}]

Init ==
    /\ stage = [s \in Sessions |-> "new"]
    /\ conn = [s \in Sessions |-> "none"]
    /\ gone = {}
    /\ cancelled = {}
    /\ subs = [s \in Sessions |-> {}]
    /\ reader = [s \in Sessions |-> "none"]
    /\ writer = [s \in Sessions |-> "none"]
    /\ listening = [s \in Sessions |-> {}]
    /\ clients = [u \in Users |-> NoSession]
    /\ worker = "up"
    /\ newest = [u \in Users |-> NoSession]

(* The context, the connection and the Hub's map after a session's step.   *)
(* Faulty variants: cancel() is not deferred; the connection is not        *)
(* closed; the map is keyed by connection; delete(h.clients, c.UserID)     *)
(* whoever the entry belongs to.                                           *)
CancelForgotten(s) == cancelled
LeftOpen(s) == conn
RegisteredByConn(s) ==
    [x \in DOMAIN clients \cup {s} |-> IF x = s THEN s ELSE clients[x]]
UserDeleted(s) == [clients EXCEPT ![UserID[s]] = NoSession]

Cancelled(s) == cancelled \cup {s}

Closed(s) == [conn EXCEPT ![s] = "closed"]

(* Hub.Register: the entry of an older session of the user is overwritten. *)
WithClient(s) == [clients EXCEPT ![UserID[s]] = s]

(* Hub.Unregister: delete the entry only if it is this very session's.     *)
WithoutClient(s) ==
    [clients EXCEPT ![UserID[s]] = IF @ = s THEN NoSession ELSE @]

-----------------------------------------------------------------------------
(* ServeWS                                                                 *)

At(s, from, to) ==
    /\ worker # "exited"
    /\ stage[s] = from
    /\ stage' = [stage EXCEPT ![s] = to]
    /\ UNCHANGED <<gone, worker>>

(* upgrader.Upgrade succeeds; the listener is open until srv.Close().      *)
Upgrade(s) ==
    /\ worker # "closed" /\ At(s, "new", "upgraded")
    /\ conn' = [conn EXCEPT ![s] = "open"]
    /\ UNCHANGED <<cancelled, subs, goroutines, hub>>

(* No user_id, or no valid handshake.                                      *)
UpgradeFails(s) ==
    /\ worker # "closed" /\ At(s, "new", "failed")
    /\ UNCHANGED <<conn, cancelled, subs, goroutines, hub>>

(* GetChannelIDsByUser: whatever the user's memberships are at this moment. *)
FetchChannels(s) ==
    /\ At(s, "upgraded", "fetched")
    /\ \E cs \in SUBSET Channels : subs' = [subs EXCEPT ![s] = cs]
    /\ UNCHANGED <<conn, cancelled, goroutines, hub>>

(* The query fails: close the connection and cancel the context.           *)
FetchFails(s) ==
    /\ At(s, "upgraded", "failed")
    /\ conn' = Closed(s) /\ cancelled' = Cancelled(s)
    /\ UNCHANGED <<subs, goroutines, hub>>

Register(s) ==
    /\ At(s, "fetched", "registered")
    /\ clients' = WithClient(s)
    /\ newest' = [newest EXCEPT ![UserID[s]] = s]
    /\ UNCHANGED <<conn, cancelled, subs, goroutines>>

(* go readPump, go writePump and one go listenToRedis per channel.  One    *)
(* step: a goroutine that starts later than it does here, perhaps when the *)
(* context is cancelled already, takes the same steps later.               *)
Spawn(s) ==
    /\ At(s, "registered", "served")
    /\ reader' = [reader EXCEPT ![s] = "run"]
    /\ writer' = [writer EXCEPT ![s] = "run"]
    /\ listening' = [listening EXCEPT ![s] = subs[s]]
    /\ UNCHANGED <<conn, cancelled, subs, hub>>

-----------------------------------------------------------------------------
(* The goroutines                                                          *)

Reader(s, from, to) ==
    /\ reader[s] = from
    /\ reader' = [reader EXCEPT ![s] = to]
    /\ UNCHANGED <<stage, gone, subs, writer, listening, worker, newest>>

Broken(s) == s \in gone \/ conn[s] = "closed"

(* ReadMessage returns an error: the peer hung up, the read deadline of    *)
(* pongWait passed, or the connection was closed here.                     *)
ReadFails(s) ==
    /\ Reader(s, "run", "unregister") /\ Broken(s)
    /\ cancelled' = Cancelled(s)
    /\ UNCHANGED <<conn, clients>>

Unregister(s) ==
    /\ Reader(s, "unregister", "close")
    /\ clients' = WithoutClient(s)
    /\ UNCHANGED <<conn, cancelled>>

ReaderCloses(s) ==
    /\ Reader(s, "close", "exited")
    /\ conn' = Closed(s)
    /\ UNCHANGED <<cancelled, clients>>

(* A write or a ping fails: writePump cancels the context and closes.  A   *)
(* dead peer need not make it fail, for the kernel still buffers.          *)
WriteFails(s) ==
    /\ writer[s] = "run" /\ Broken(s)
    /\ writer' = [writer EXCEPT ![s] = "exited"]
    /\ cancelled' = Cancelled(s) /\ conn' = Closed(s)
    /\ UNCHANGED <<stage, gone, subs, reader, listening, worker, hub>>

(* listenToRedis sees ctx.Done() and closes its subscription.              *)
ListenerStops(s, c) ==
    /\ s \in cancelled /\ c \in listening[s]
    /\ listening' = [listening EXCEPT ![s] = @ \ {c}]
    /\ UNCHANGED <<stage, conn, gone, cancelled, subs, reader, writer, worker, hub>>

(* The client closes its end, crashes, or the network in between fails.    *)
PeerGone(s) ==
    /\ worker # "exited" /\ conn[s] = "open" /\ s \notin gone
    /\ gone' = gone \cup {s}
    /\ UNCHANGED <<stage, conn, cancelled, subs, goroutines, worker, hub>>

-----------------------------------------------------------------------------
(* SIGTERM or SIGINT in main()                                             *)

Registered == {clients[u] : u \in Users} \ {NoSession}

(* Hub.Shutdown: close every connection in the map and empty it.           *)
HubShutdown ==
    /\ worker = "up"
    /\ worker' = "drained"
    /\ conn' = [s \in Sessions |-> IF s \in Registered THEN "closed" ELSE conn[s]]
    /\ clients' = [u \in Users |-> NoSession]
    /\ UNCHANGED <<stage, gone, cancelled, subs, goroutines, newest>>

(* srv.Close: the listener closes; upgraded connections are not its own.   *)
ServerClose ==
    /\ worker = "drained"
    /\ worker' = "closed"
    /\ UNCHANGED <<stage, conn, gone, cancelled, subs, goroutines, hub>>

(* ListenAndServe returns, and the process ends with all its goroutines.   *)
Exit ==
    /\ worker = "closed"
    /\ worker' = "exited"
    /\ stage' = [s \in Sessions |-> IF stage[s] = "served" THEN "served" ELSE "failed"]
    /\ conn' = [s \in Sessions |-> IF conn[s] = "none" THEN "none" ELSE "closed"]
    /\ reader' = [s \in Sessions |-> IF reader[s] = "none" THEN "none" ELSE "exited"]
    /\ writer' = [s \in Sessions |-> IF writer[s] = "none" THEN "none" ELSE "exited"]
    /\ listening' = [s \in Sessions |-> {}]
    /\ clients' = [u \in Users |-> NoSession]
    /\ UNCHANGED <<gone, cancelled, subs, newest>>

-----------------------------------------------------------------------------
Serve(s) ==
    FetchChannels(s) \/ FetchFails(s) \/ Register(s) \/ Spawn(s)

Goroutine(s) ==
    \/ ReadFails(s) \/ Unregister(s) \/ ReaderCloses(s)
    \/ \E c \in Channels : ListenerStops(s, c)

Next ==
    \/ \E s \in Sessions : \/ Upgrade(s) \/ UpgradeFails(s) \/ Serve(s)
                           \/ Goroutine(s) \/ WriteFails(s) \/ PeerGone(s)
    \/ HubShutdown \/ ServerClose \/ Exit

(* The handler and the goroutines run; the read deadline makes ReadFails   *)
(* certain once the peer is gone; and the ping ticker makes a write, which *)
(* is certain to fail only once this side has closed the connection.       *)
Fairness ==
    \A s \in Sessions :
        /\ WF_vars(Serve(s))
        /\ WF_vars(ReadFails(s)) /\ WF_vars(Unregister(s)) /\ WF_vars(ReaderCloses(s))
        /\ \A c \in Channels : WF_vars(ListenerStops(s, c))
        /\ WF_vars(conn[s] = "closed" /\ WriteFails(s))

Spec == Init /\ [][Next]_vars

FairSpec == Spec /\ Fairness

-----------------------------------------------------------------------------
(* Properties                                                              *)

(* A session that has goroutines, or may still get them, has a connection, *)
(* and one whose goroutines end has a cancelled context.                   *)
SessionShape ==
    \A s \in Sessions :
        /\ stage[s] \in {"upgraded", "fetched", "registered", "served"}
              => conn[s] # "none"
        /\ stage[s] # "served" => reader[s] = "none" /\ writer[s] = "none"
                                  /\ listening[s] = {}
        /\ worker # "exited" /\ (writer[s] = "exited" \/ reader[s] \notin {"none", "run"})
              => s \in cancelled

(* No socket is left open by a ServeWS that gave up or by a goroutine that *)
(* ended.                                                                  *)
NoSocketLeak ==
    \A s \in Sessions :
        stage[s] = "failed" \/ reader[s] = "exited" \/ writer[s] = "exited"
            => conn[s] # "open"

(* Until shutdown the Hub knows exactly the newest session of each user,   *)
(* from its registration until its readPump unregisters it: a session that *)
(* ends late, after the user has reconnected, does not remove the new one, *)
(* and none is left behind in the map.                                     *)
HubTracksNewest ==
    worker = "up" =>
        \A u \in Users :
            clients[u] = IF newest[u] # NoSession /\ reader[newest[u]] \in {"none", "run", "unregister"}
                         THEN newest[u] ELSE NoSession

Ended(s) == reader[s] = "exited" /\ writer[s] = "exited" /\ listening[s] = {}

(* Whichever goroutine notices first, a session whose peer is gone or      *)
(* whose connection is closed loses its reader, its writer and all its     *)
(* Redis listeners: no goroutine leaks.                                    *)
NoGoroutineLeak ==
    \A s \in Sessions :
        (stage[s] = "served" /\ (s \in gone \/ conn[s] = "closed")) ~> Ended(s)

(* hub.go of Shutdown: it "gracefully closes every open WebSocket          *)
(* connection".  Stated of the sessions whose peer and goroutines live.    *)
ShutdownClosesAll ==
    [][HubShutdown => \A s \in Sessions :
          reader[s] = "run" /\ s \notin gone => conn'[s] = "closed"]_vars

=============================================================================

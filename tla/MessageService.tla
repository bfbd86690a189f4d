--------------------------- MODULE MessageService ---------------------------
(***************************************************************************)
(* POST /api/v1/messages: MessageHandler.HandleSendMessage and             *)
(* MessageService.SendMessage, running concurrently on several api-server  *)
(* processes that share one MySQL and one Redis.  A request passes         *)
(*                                                                         *)
(*    new -> lock -> member -> id -> insert -> publish -> done             *)
(*                                                                         *)
(* and each arrow is one round trip (or the ID generator), so every other  *)
(* request, membership change, lock expiry and process failure may happen  *)
(* in between.  MySQL and Redis are external: a call may succeed, fail     *)
(* without effect, or take effect and still report an error.  main() makes *)
(* the Redis client with default options, so go-redis sends a command      *)
(* whose reply is lost again by itself, up to MaxRetries times, and the    *)
(* handler sees the answer to the last attempt only.                       *)
(*                                                                         *)
(* epoch, window and vouched are history variables: nothing reads them     *)
(* but the properties.                                                     *)
(***************************************************************************)
EXTENDS Integers, Sequences, FiniteSets

CONSTANTS
    Nodes,          \* api-server processes
    Requests,       \* POSTs that clients send; a retry is a request of its own
    Channels, Users,
    Keys,           \* values of X-Idempotency-Key
    NoKey,          \* the header is absent
    Post,           \* Post[r]: conversation, sender and key of request r
    MaxRetries,     \* redis.Options.MaxRetries, by default 3
    MaxID,          \* bound: IDs are 1..MaxID
    MaxExpiries     \* bound: how often an idempotency key may expire

ASSUME KeysAssumption == NoKey \notin Keys

ASSUME PostAssumption ==
    Post \in [Requests -> [conv : Channels, sender : Users, key : Keys \cup {NoKey}]]

ASSUME MessageBounds == MaxRetries \in Nat /\ MaxID \in Nat /\ MaxExpiries \in Nat

VARIABLES
    pc,         \* pc[r]: the step that request r takes next
    reply,      \* reply[r]: status its client got; "cut" is a lost connection
    at,         \* at[r]: the process the request is routed to
    id,         \* id[r]: msg.ID, 0 until it is assigned
    retries,    \* retries[r]: how often go-redis has re-sent r's latest command
    node,       \* node[n]: "up", "closing" (srv.Close() called) or "down"
    members,    \* MySQL: rows <<channel, user>> of channel_members
    messages,   \* MySQL: rows of messages
    locks,      \* Redis: idempotency keys that are set
    published,  \* Redis: every message published, in order
    issued,     \* IDs each process has drawn (see IdOracle)
    epoch,      \* epoch[k]: how often key k has expired
    window,     \* window[r]: epoch[k] when r acquired its key k, else -1
    vouched     \* requests whose sender was a member at some moment of theirs

reqVars == <<pc, reply, id, retries, window, vouched>>
redisVars == <<locks, published, epoch>>
vars == <<reqVars, redisVars, at, node, members, messages, issued>>

IDs == 1..MaxID
Oracle == INSTANCE IdOracle

Conv(r) == Post[r].conv
Sender(r) == Post[r].sender
Key(r) == Post[r].key
Msg(r) == [id |-> id[r], conv |-> Conv(r), sender |-> Sender(r)]

Steps == {"new", "lock", "member", "id", "insert", "publish", "done"}
Replies == {"none", "202", "400", "403", "409", "500", "cut"}
Message == [id : IDs, conv : Channels, sender : Users]

TypeOK ==
    /\ pc \in [Requests -> Steps]
    /\ reply \in [Requests -> Replies]
    /\ at \in [Requests -> Nodes]
    /\ id \in [Requests -> 0..MaxID]
    /\ retries \in [Requests -> 0..MaxRetries]
    /\ node \in [Nodes -> {"up", "closing", "down"}]
    /\ members \subseteq Channels \X Users
    /\ messages \subseteq Message
    /\ locks \subseteq Keys
    /\ published \in Seq(Message)
    /\ issued \in [Nodes -> Seq(IDs)]
    /\ epoch \in [Keys -> 0..MaxExpiries]
    /\ window \in [Requests -> -1..MaxExpiries]
    /\ vouched \subseteq Requests

Init ==
    /\ pc = [r \in Requests |-> "new"]
    /\ reply = [r \in Requests |-> "none"]
    /\ at \in [Requests -> Nodes]
    /\ id = [r \in Requests |-> 0]
    /\ retries = [r \in Requests |-> 0]
    /\ node = [n \in Nodes |-> "up"]
    /\ members \in SUBSET (Channels \X Users)
    /\ messages = {}
    /\ locks = {}
    /\ published = <<>>
    /\ Oracle!Init
    /\ epoch = [k \in Keys |-> 0]
    /\ window = [r \in Requests |-> -1]
    /\ vouched = {}

-----------------------------------------------------------------------------
(* The handler.  It keeps running after srv.Close() until the process is   *)
(* gone, but its client's connection is closed.                            *)

Runs(r, step) == pc[r] = step /\ node[at[r]] # "down"

Goto(r, step) == pc' = [pc EXCEPT ![r] = step] /\ UNCHANGED reply

Reply(r, status) ==
    /\ pc' = [pc EXCEPT ![r] = "done"]
    /\ reply' = [reply EXCEPT ![r] = IF node[at[r]] = "up" THEN status ELSE "cut"]

(* Faulty variant: whatever SendMessage returns is taken for a duplicate.  *)
AlwaysConflict(err) == "409"

(* The switch of HandleSendMessage over the error of SendMessage.          *)
StatusOf(err) ==
    CASE err = "ErrDuplicateRequest" -> "409"
      [] err = "ErrNotMember" -> "403"
      [] OTHER -> "500"

(* Faulty variant: the arguments are swapped.                              *)
SwappedRow(c, u) == <<u, c>>

(* A row of channel_members.                                               *)
Row(c, u) == <<c, u>>

(* Faulty variant: any row for the channel will do.                        *)
ChannelHasMembers(r) == \E u \in Users : Row(Conv(r), u) \in members

IsMember(r) == Row(Conv(r), Sender(r)) \in members

Arrives(r) ==
    /\ pc[r] = "new" /\ node[at[r]] = "up"
    /\ UNCHANGED <<redisVars, at, id, retries, window, node, members, messages, issued>>

(* HandleSendMessage decodes the body and calls SendMessage.               *)
Receive(r) ==
    /\ Arrives(r)
    /\ Goto(r, IF Key(r) = NoKey THEN "member" ELSE "lock")
    /\ vouched' = IF <<Conv(r), Sender(r)>> \in members THEN vouched \cup {r} ELSE vouched

(* Wrong method (405, not told apart here), bad body or an empty field.    *)
ReceiveInvalid(r) == Arrives(r) /\ Reply(r, "400") /\ UNCHANGED vouched

AtLock(r) ==
    /\ Runs(r, "lock")
    /\ UNCHANGED <<published, epoch, at, id, vouched, node, members, messages, issued>>

(* Faulty variant: SET without NX.                                         *)
KeyIgnored(r) == TRUE

KeyFree(r) == Key(r) \notin locks

(* The reply to an attempt is lost and go-redis makes another.             *)
Resend(r) ==
    /\ retries[r] < MaxRetries
    /\ retries' = [retries EXCEPT ![r] = @ + 1]
    /\ UNCHANGED <<pc, reply>>

(* SET NX is sent again, whether or not it had set the key by then.        *)
LockResent(r) ==
    /\ AtLock(r) /\ Resend(r)
    /\ locks' \in {locks, locks \cup {Key(r)}}
    /\ UNCHANGED window

(* AcquireIdempotencyLock: SET NX created the key.                         *)
LockAcquired(r) ==
    /\ AtLock(r) /\ KeyFree(r)
    /\ locks' = locks \cup {Key(r)}
    /\ window' = [window EXCEPT ![r] = epoch[Key(r)]]
    /\ retries' = [retries EXCEPT ![r] = 0]
    /\ Goto(r, "member")

(* AcquireIdempotencyLock: the key exists, perhaps because an attempt of   *)
(* this very call has set it.                                              *)
LockHeld(r) ==
    /\ AtLock(r) /\ ~KeyFree(r)
    /\ Reply(r, StatusOf("ErrDuplicateRequest"))
    /\ UNCHANGED <<locks, retries, window>>

(* Redis fails for good (the last attempt did, or the client hung up),     *)
(* whether or not it set the key before it did.                            *)
LockFails(r) ==
    /\ AtLock(r)
    /\ locks' \in {locks, locks \cup {Key(r)}}
    /\ Reply(r, StatusOf("redis"))
    /\ UNCHANGED <<retries, window>>

AtMember(r) ==
    /\ Runs(r, "member")
    /\ UNCHANGED <<published, epoch, at, id, retries, window, vouched, node, members,
                   messages, issued>>

(* IsMember finds the row.                                                 *)
MemberFound(r) ==
    AtMember(r) /\ IsMember(r) /\ Goto(r, "id") /\ UNCHANGED locks

(* Faulty variant: release the key and start over until the row is there.  *)
MemberAwaited(r) ==
    AtMember(r) /\ ~IsMember(r) /\ locks' = locks \ {Key(r)} /\ Goto(r, "lock")

(* IsMember finds no row.                                                  *)
MemberMissing(r) ==
    AtMember(r) /\ ~IsMember(r) /\ Reply(r, StatusOf("ErrNotMember")) /\ UNCHANGED locks

(* The membership query fails.                                             *)
MemberFails(r) ==
    AtMember(r) /\ Reply(r, StatusOf("mysql")) /\ UNCHANGED locks

(* Bound: the highest IDs are left to the requests that still need one.    *)
RoomLeft(i) == i <= MaxID + 1 - Cardinality({s \in Requests : id[s] = 0})

(* Faulty variant: two processes with one WORKER_ID (each counts alone).   *)
DrawAlone(n, i) ==
    /\ \A j \in DOMAIN issued[n] : issued[n][j] < i
    /\ issued' = [issued EXCEPT ![n] = Append(@, i)]

Draw(n, i) == Oracle!Issue(n, i)

(* msg.ID = s.snowflake.Next()                                             *)
AssignID(r) ==
    /\ Runs(r, "id")
    /\ \E i \in IDs : RoomLeft(i) /\ Draw(at[r], i) /\ id' = [id EXCEPT ![r] = i]
    /\ Goto(r, "insert")
    /\ UNCHANGED <<redisVars, at, retries, window, vouched, node, members, messages>>

AtInsert(r) ==
    /\ Runs(r, "insert")
    /\ UNCHANGED <<redisVars, at, id, retries, window, vouched, node, members, issued>>

(* INSERT INTO messages                                                    *)
Insert(r) ==
    AtInsert(r) /\ messages' = messages \cup {Msg(r)} /\ Goto(r, "publish")

(* MySQL fails, whether or not the row was committed before it did.        *)
InsertFails(r) ==
    /\ AtInsert(r)
    /\ messages' \in {messages, messages \cup {Msg(r)}}
    /\ Reply(r, StatusOf("mysql"))

AtPublish(r) ==
    /\ Runs(r, "publish")
    /\ UNCHANGED <<locks, epoch, at, id, window, vouched, node, members, messages, issued>>

(* broker.Publish succeeds, then 202 with the stored message.              *)
Publish(r) ==
    /\ AtPublish(r)
    /\ published' = Append(published, Msg(r))
    /\ Reply(r, "202")
    /\ UNCHANGED retries

(* An attempt has no answer, whether or not it published the message.      *)
MaybePublished(r) ==
    AtPublish(r) /\ published' \in {published, Append(published, Msg(r))}

(* Faulty variant: SendMessage repeats a failed Publish, and the retries   *)
(* of each call count anew.                                                *)
PublishLooped(r) ==
    Len(published) < 3 /\ MaybePublished(r) /\ UNCHANGED <<pc, reply, retries>>

(* PUBLISH is sent again, whether or not the message was published.        *)
PublishResent(r) == MaybePublished(r) /\ Resend(r)

(* Faulty variant: the error is logged and forgotten.                      *)
PublishErrorIgnored(r) == MaybePublished(r) /\ Reply(r, "202") /\ UNCHANGED retries

(* Redis fails for good.                                                   *)
PublishFails(r) ==
    MaybePublished(r) /\ Reply(r, StatusOf("redis")) /\ UNCHANGED retries

Handle(r) ==
    \/ LockAcquired(r) \/ LockHeld(r) \/ LockResent(r) \/ LockFails(r)
    \/ MemberFound(r) \/ MemberMissing(r) \/ MemberFails(r)
    \/ AssignID(r)
    \/ Insert(r) \/ InsertFails(r)
    \/ Publish(r) \/ PublishResent(r) \/ PublishFails(r)

-----------------------------------------------------------------------------
(* What happens around the handler                                         *)

(* POST /channels/{id}/members, idempotent through INSERT IGNORE.          *)
AddMember(c, u) ==
    /\ members' = members \cup {Row(c, u)}
    /\ vouched' = vouched \cup {r \in Requests : pc[r] # "new" /\ Conv(r) = c
                                                            /\ Sender(r) = u}
    /\ UNCHANGED <<redisVars, pc, reply, at, id, retries, window, node, messages, issued>>

(* DELETE /channels/{id}/members/{userID}                                  *)
RemoveMember(c, u) ==
    /\ members' = members \ {Row(c, u)}
    /\ UNCHANGED <<reqVars, redisVars, at, node, messages, issued>>

(* 30 s after SET NX (or with a Redis restart) the key is gone.            *)
ExpireLock(k) ==
    /\ k \in locks /\ epoch[k] < MaxExpiries
    /\ locks' = locks \ {k}
    /\ epoch' = [epoch EXCEPT ![k] = @ + 1]
    /\ UNCHANGED <<reqVars, published, at, node, members, messages, issued>>

(* SIGTERM or SIGINT: srv.Close() closes the listener and every connection. *)
Shutdown(n) ==
    /\ node[n] = "up"
    /\ node' = [node EXCEPT ![n] = "closing"]
    /\ UNCHANGED <<reqVars, redisVars, at, members, messages, issued>>

InFlight(n) == {r \in Requests : at[r] = n /\ pc[r] \notin {"new", "done"}}

(* The process ends and its handlers with it, wherever they are.           *)
Halt(n) ==
    /\ node' = [node EXCEPT ![n] = "down"]
    /\ pc' = [r \in Requests |-> IF r \in InFlight(n) THEN "done" ELSE pc[r]]
    /\ reply' = [r \in Requests |-> IF r \in InFlight(n) THEN "cut" ELSE reply[r]]
    /\ UNCHANGED <<redisVars, at, id, retries, window, vouched, members, messages, issued>>

(* main() returns once ListenAndServe has: it waits for no handler.        *)
Exit(n) == node[n] = "closing" /\ Halt(n)

Crash(n) == node[n] = "up" /\ Halt(n)

Start(n) ==
    /\ node[n] = "down"
    /\ node' = [node EXCEPT ![n] = "up"]
    /\ UNCHANGED <<reqVars, redisVars, at, members, messages, issued>>

-----------------------------------------------------------------------------
(* Everything but process failures.                                        *)
OrderlyNext ==
    \/ \E r \in Requests : Receive(r) \/ ReceiveInvalid(r) \/ Handle(r)
    \/ \E c \in Channels, u \in Users : AddMember(c, u) \/ RemoveMember(c, u)
    \/ \E k \in Keys : ExpireLock(k)
    \/ \E n \in Nodes : Shutdown(n) \/ Exit(n) \/ Start(n)

Next == OrderlyNext \/ \E n \in Nodes : Crash(n)

(* A goroutine that can run does run, and every attempt of a call ends.    *)
Fairness == \A r \in Requests : WF_vars(Handle(r))

Spec == Init /\ [][Next]_vars

FairSpec == Spec /\ Fairness

(* Processes end only by SIGTERM or SIGINT.                                *)
OrderlySpec == Init /\ [][OrderlyNext]_vars

-----------------------------------------------------------------------------
(* Properties                                                              *)

Stored(r) == \E m \in messages : m.id = id[r]

Accepted == {Msg(r) : r \in {q \in Requests : reply[q] = "202"}}

Log == INSTANCE MessageLog
           WITH accepted <- Accepted, MaxBroadcasts <- MaxRetries + 1

(* Requests racing, failing half-way and dying with their process still    *)
(* implement the log that readers rely on: each message is stored under a  *)
(* fresh ID before it is broadcast, is broadcast at most once per attempt  *)
(* of its PUBLISH, and is answered 202 in a step that broadcasts it.       *)
ImplementsLog == Log!Spec

(* A client that got 202 Accepted has its message stored and broadcast.    *)
AcceptedIsDelivered ==
    \A r \in Requests : reply[r] = "202" =>
        /\ Stored(r)
        /\ \E i \in DOMAIN published : published[i] = Msg(r)

(* Each row is the message of one request, whose client was not refused:   *)
(* after 400, 403 or 409 the message does not appear all the same.         *)
RowsWereNotRefused ==
    \A m \in messages : \E r \in Requests :
        /\ Msg(r) = m /\ \A s \in Requests \ {r} : Msg(s) # m
        /\ reply[r] \notin {"400", "403", "409"}

(* Requests with one idempotency key store at most one message per         *)
(* lifetime of that key in Redis, even when a handler outlives the key     *)
(* and stores its message after a retry has.                               *)
OncePerWindow ==
    \A r, s \in Requests :
        r # s /\ Key(r) = Key(s) /\ Key(r) # NoKey /\ Stored(r) /\ Stored(s)
            => window[r] # window[s]

(* Request s got past the guard, or was told that it failed there.         *)
Claimed(s) == window[s] >= 0 \/ reply[s] \in {"500", "cut"}

(* 409 goes to a request that is a repetition of another with its key, or  *)
(* whose own SET NX was sent twice, or that came after one whose SET NX    *)
(* was: there is no other way to be refused as a duplicate.                *)
ConflictHasCause ==
    \A r \in Requests : reply[r] = "409" =>
        \/ retries[r] > 0
        \/ \E s \in Requests \ {r} :
              Key(s) = Key(r) /\ (Claimed(s) \/ retries[s] > 0)

(* The sender of a stored message was a member of its channel at some      *)
(* moment between the arrival of the request and the INSERT, however       *)
(* memberships change meanwhile.                                           *)
SenderWasMember ==
    \A r \in Requests : Stored(r) => r \in vouched

(* No INSERT meets a row with its primary key, so the ID assigned steps    *)
(* earlier, perhaps on another process, is still free.                     *)
PrimaryKeyFree ==
    \A r \in Requests : pc[r] = "insert" => ~Stored(r)

(* Every request that reached a process is answered, or its connection is  *)
(* cut: no handler waits for a key, a member or another request.           *)
EveryRequestAnswered ==
    \A r \in Requests : (pc[r] # "new") ~> (pc[r] = "done")

(* What main.go says of SIGTERM: "in-flight requests are not dropped".     *)
InFlightNotDropped == \A r \in Requests : reply[r] # "cut"

=============================================================================

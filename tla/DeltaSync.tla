------------------------------ MODULE DeltaSync ------------------------------
(***************************************************************************)
(* POST /api/v1/sync/deltas beside concurrent senders: SyncService and     *)
(* MessageRepository.GetMessagesSince read the messages table while the    *)
(* senders of MessageLog, which MessageService implements, fill it.        *)
(*                                                                         *)
(* The client is external.  It does what HandleDeltaSync asks of it: "the  *)
(* client sends the highest message ID it has locally for each channel",   *)
(* merges the answer, and asks again.                                      *)
(***************************************************************************)
EXTENDS MessageLog, FiniteSets, FiniteSetsExt

CONSTANTS
    Channels,
    Readers,    \* clients that catch up through delta-sync
    NoSync,     \* the client has no request in progress
    PageSize,   \* LIMIT of the query, 100 in the code
    MaxFailures \* bound: how many syncs of a client may fail

ASSUME SyncAssumption ==
    /\ \A m \in Message : m.id \in Nat \ {0} /\ m.conv \in Channels
    /\ PageSize \in Nat \ {0} /\ MaxFailures \in Nat

VARIABLES
    held,       \* held[u]: messages client u has
    sync,       \* sync[u]: u's request: its catchUpMap (after), the channels
                \* SyncDeltas has still to reach (todo), what it collected (deltas)
    failures,   \* failures[u]: syncs of u that failed
    log         \* history: rows of messages in the order of their commit

logVars == <<messages, published, accepted, log>>
vars == <<logVars, held, sync, failures>>

IDs == {m.id : m \in Message}
SyncState == [after : [Channels -> IDs \cup {0}],
              todo : SUBSET Channels, deltas : SUBSET messages]

SyncTypeOK ==
    /\ messages \subseteq Message
    /\ held \in [Readers -> SUBSET messages]
    /\ \A u \in Readers : sync[u] = NoSync \/ sync[u] \in SyncState
    /\ failures \in [Readers -> 0..MaxFailures]
    /\ log \in Seq(messages)

SyncInit ==
    /\ Init
    /\ held = [u \in Readers |-> {}]
    /\ sync = [u \in Readers |-> NoSync]
    /\ failures = [u \in Readers |-> 0]
    /\ log = <<>>

In(c, rows) == {m \in rows : m.conv = c}

(* The highest ID that client u holds of channel c, 0 if it holds none.    *)
Cursor(u, c) == Max({0} \cup {m.id : m \in In(c, held[u])})

(* Faulty variants: ORDER BY id DESC; WHERE id >= ?; one row too many.     *)
LastPage(c, lastMsgID) ==
    LET rows == {m \in In(c, messages) : m.id > lastMsgID}
    IN  {m \in rows : Cardinality({x \in rows : x.id > m.id}) < PageSize}
PageFrom(c, lastMsgID) ==
    LET rows == {m \in In(c, messages) : m.id >= lastMsgID}
    IN  {m \in rows : Cardinality({x \in rows : x.id < m.id}) < PageSize}

PageAndOneMore(c, lastMsgID) ==
    LET rows == {m \in In(c, messages) : m.id > lastMsgID}
    IN  {m \in rows : Cardinality({x \in rows : x.id < m.id}) <= PageSize}

(* WHERE conversation_id = ? AND id > ? ORDER BY id ASC LIMIT PageSize     *)
GetMessagesSince(c, lastMsgID) ==
    LET rows == {m \in In(c, messages) : m.id > lastMsgID}
    IN  {m \in rows : Cardinality({x \in rows : x.id < m.id}) < PageSize}

(* The client posts { channel: highest ID held }.                          *)
Ask(u) ==
    /\ sync[u] = NoSync
    /\ sync' = [sync EXCEPT ![u] = [after |-> [c \in Channels |-> Cursor(u, c)],
                                    todo |-> Channels, deltas |-> {}]]
    /\ UNCHANGED <<logVars, held, failures>>

(* One round of the loop in SyncDeltas; a Go map is walked in any order.   *)
SyncChannel(u, c) ==
    /\ sync[u] # NoSync /\ c \in sync[u].todo
    /\ sync' = [sync EXCEPT ![u].todo = @ \ {c},
                            ![u].deltas = @ \cup GetMessagesSince(c, sync[u].after[c])]
    /\ UNCHANGED <<logVars, held, failures>>

(* A query fails, or the process does: the client gets no delta at all.    *)
SyncFails(u) ==
    /\ sync[u] # NoSync /\ failures[u] < MaxFailures
    /\ sync' = [sync EXCEPT ![u] = NoSync]
    /\ failures' = [failures EXCEPT ![u] = @ + 1]
    /\ UNCHANGED <<logVars, held>>

(* 200 OK; the client merges what it got by ID.                            *)
SyncReturns(u) ==
    /\ sync[u] # NoSync /\ sync[u].todo = {}
    /\ held' = [held EXCEPT ![u] = @ \cup sync[u].deltas]
    /\ sync' = [sync EXCEPT ![u] = NoSync]
    /\ UNCHANGED <<logVars, failures>>

(* A step of the senders, with the history of commits.  The 202s to those  *)
(* who are no clients here are not recorded: nobody reads them.            *)
SenderStep ==
    /\ Next
    /\ \A m \in accepted' : m.sender \in Readers
    /\ \/ messages' = messages /\ UNCHANGED log
       \/ \E m \in messages' \ messages : log' = Append(log, m)
    /\ UNCHANGED <<held, sync, failures>>

SyncStep(u) ==
    \/ Ask(u)
    \/ \E c \in Channels : SyncChannel(u, c)
    \/ SyncReturns(u)

SyncNext ==
    \/ SenderStep
    \/ \E u \in Readers : SyncStep(u) \/ SyncFails(u)

SyncSpec == SyncInit /\ [][SyncNext]_vars

-----------------------------------------------------------------------------
(* Properties                                                              *)

(* Row m was committed after row h.                                        *)
CommittedAfter(m, h) ==
    \E i, j \in DOMAIN log : i < j /\ log[i] = h /\ log[j] = m

(* What client u lacks although its cursor has passed it: no delta-sync    *)
(* that it starts from now on will return it.                              *)
PassedOver(u, c) ==
    {m \in In(c, messages) : m \notin held[u] /\ m.id < Cursor(u, c)}

(* The answer to a sync has at most one page of each channel, however many *)
(* messages are stored while SyncDeltas goes through the channels.         *)
OnePagePerChannel ==
    \A u \in Readers, c \in Channels :
        sync[u] # NoSync => Cardinality(In(c, sync[u].deltas)) <= PageSize

(* However many pages it takes, a client that keeps asking gets every      *)
(* stored message that its cursor has not passed over.                     *)
CatchesUp ==
    \A u \in Readers, i \in IDs :
        (\E m \in messages : m.id = i) ~>
            (\E m \in messages : m.id = i /\ (m \in held[u] \/ m \in PassedOver(u, m.conv)))

(* document/08_guarantees.md: "a client eventually receives every message  *)
(* for its channels".                                                      *)
EventuallyReceived ==
    \A u \in Readers, i \in IDs :
        (\E m \in messages : m.id = i) ~> (\E m \in held[u] : m.id = i)

=============================================================================

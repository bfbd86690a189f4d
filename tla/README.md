# TeamChat backend: TLA+ verification

TLA+ models of the TeamChat backend, TLC configurations that check them on small
instances, and TLAPS proofs of all their safety properties for every instance.
`PROJECT.json` holds the machine-readable index: which definition models which
source lines, the runs, the faulty variants that each property is known to
catch, the findings, the hazards and the theorems.

## 1. The system

Two kinds of process share one MySQL and one Redis.

```
 client --POST /messages-----> api-server --SET NX----> Redis   (idempotency key)
                                          --SELECT----> MySQL   (membership)
                                          --INSERT----> MySQL   (message, ID from Snowflake)
                                          --PUBLISH---> Redis --> ws-worker --> client (WebSocket)
 client --POST /sync/deltas--> api-server --SELECT----> MySQL   (messages after a cursor)
 client --POST /users, /channels, members-> api-server -> MySQL
```

| Component | State | Operations | What makes it correct |
|---|---|---|---|
| Snowflake generator (`shared/snowflake`) | `lastStamp`, `sequence`, a mutex; the wall clock | `Next` | IDs unique over all processes and growing within one; the busy wait ends |
| Message ingestion (`message_handler.go`, `message_service.go`) | the local state of every request in progress | `POST /messages` | stored before broadcast, broadcast at most once per attempt of `PUBLISH`, 202 means both, members only, one message per key and window, every request answered |
| Idempotency cache (`cache_repo.go`) | Redis keys with a TTL of 30 s | `AcquireIdempotencyLock` | one holder per lifetime of a key |
| Membership (`channel_repo.go`, `channel_service.go`) | rows of `channel_members` | add, remove, `IsMember`, `GetChannelIDsByUser` | gates the INSERT |
| Broker (`redis_pubsub.go`) | none (Redis Pub/Sub) | `Publish` | one call broadcasts its message at most once per attempt of the client library |
| Delta sync (`sync_service.go`, `msg_repo.go`) | none; the client keeps cursors | `POST /sync/deltas` | a client that keeps asking misses nothing |
| api-server process (`main.go`) | up, closing, down | start, SIGTERM | requests in flight finish |
| Hub (`hub.go`) | map from user to session | `Register`, `Unregister`, `Shutdown` | knows the newest live session of each user, closes all at shutdown |
| WebSocket session (`ws_handler.go`, `client.go`) | connection, context, goroutines | `ServeWS`, `readPump`, `writePump`, `listenToRedis` | no goroutine outlives its connection |
| Live push (`client.go`) | the `Send` buffer | receive, forward, drop, write | order per channel, no broadcast shown twice, never blocks |
| Users and channels (`user_service.go`, `channel_service.go`) | rows of `users`, `conversations` | create, get, list | one owner per name, a created channel is found by its members, a DM has two |
| Configuration (`config.go`) | none | `Load`, `getEnvInt64` | a number is read as that number, anything else as the default |
| MySQL pool, domain types, schema, deployment | - | - | not modelled, see section 7 |

What is hard here, and hard to test:

- every handler is a sequence of round trips to MySQL and Redis, so that any
  other request, membership change, expiry or crash may fall in between;
- each of these calls may take effect and still report an error;
- the Redis client sends a command again when its reply is lost, without telling
  the handler;
- IDs are assigned before the row is committed, so commits are not in ID order;
- three or more goroutines per WebSocket end for different reasons in different
  orders, while the same user reconnects;
- a client learns of messages in three ways (socket, 202, delta-sync) that share
  one cursor;
- buffers, pages, integers, sequence numbers and key lifetimes are bounded.

`PROJECT.json` lists these hazards one by one, at the line where each bites,
with the properties that would catch it going wrong.

## 2. Modules

| Module | Models | Built on |
|---|---|---|
| `IdOracle` | what the users of the generator rely on (abstract specification) | |
| `Snowflake` | `Generator.Next()` on several processes with several goroutines | implements `IdOracle` |
| `Config` | `Load` and `getEnvInt64` as operators | extends `Snowflake`, whose instances read their worker IDs through it |
| `MessageLog` | what the readers of messages rely on (abstract specification) | |
| `MessageService` | `HandleSendMessage`, `SendMessage`, idempotency key, membership, process life | draws IDs from `IdOracle`, implements `MessageLog` |
| `DeltaSync` | `HandleDeltaSync`, `SyncDeltas`, `GetMessagesSince` and a client that catches up | extends `MessageLog`: syncs run beside senders |
| `WsSession` | `ServeWS`, Hub, the life of a session's goroutines, shutdown of the ws-worker | |
| `BestEffort` | what a client may expect of the live path (abstract specification) | |
| `LivePush` | what a session's goroutines carry from Redis to the socket | implements `BestEffort` |
| `ChatSystem` | a client with socket, 202s and syncs | composes `DeltaSync` (hence `MessageLog`) with `BestEffort` |
| `Directory` | users, channels, members | |
| `SnowflakeProofs`, `ConfigProofs`, `MessageServiceProofs`, `LivePushProofs`, `ChatSystemProofs`, `WsSessionProofs`, `DirectoryProofs` | theorems | each extends the module it is about |
| `MC*` | constants for TLC | |

The three abstract specifications are the joints of the project. A component is
shown to implement the one it offers and uses only the one it is offered:

```
 Snowflake => IdOracle --> MessageService => MessageLog --+--> DeltaSync --> ChatSystem
                                             LivePush => BestEffort -----------^
```

All three arrows `=>` are proved, and checked on an instance. The arrows `-->` are
uses: `MessageService` and `ChatSystem` contain the actions of the abstract
specification they are built on, so what is proved of them holds for whatever
implements it.

Each module with faulty variants (named so in their comments) defines them right
before the operator they corrupt. They are part of no specification; they show
that a property can fail.

### Snowflake

One step is one call of `Next()`, except that a call which exhausts its
millisecond takes two (`NextExhausted`, `SpinEnds`): between them the goroutine
holds the mutex and spins, the clock ticks and other goroutines block. The packed
ID is a mixed-radix sum of the three fields, which is what the shifts compute
while the fields do not overlap; the 42 bits left for the timestamp last for some
139 years after 2024, so `MaxClock` is taken below the point where the shift would
overflow. `Restart` builds a fresh generator. It requires that the millisecond
of the last ID has passed: `main()` opens and pings MySQL over the network
before it builds the generator, and starting a process takes longer than a
millisecond. `Rewind` (the wall clock is set back) is left out of `Next` and used
only by `RewindSpec`. That processes have different worker IDs after clamping
(`UniqueWorkers`) is the deployment rule stated in `config.go`.

### Config

A value of the environment is a sequence of characters, each written as its
distance from `'0'`. `Rounds(v)` is the loop of the parser: a recursive function that
gives `n` after each round, with arithmetic that wraps around at `HalfRange` (2^63 in
the code). `WorkerIDAsConfigured` compares its result with the number that the digits
denote, each times its place value, and follows it into the IDs that are handed out.
`EnvironmentAssumption` is what `main()` does: the number `Load` read is the number
handed to `NewGenerator`. The early return inside the loop and a test of all
characters before it give the same result, for the loop has no other effect.

### MessageService

`pc[r]` is the next step of request `r`: `new, lock, member, id, insert, publish,
done`. Every call to MySQL or Redis has an action for each outcome; the
`...Fails` actions let the call take effect or not. `Reply` yields the status
the handler writes, or `cut` when the connection was closed by `srv.Close()` or
the process is gone. A client that hangs up cancels the request's context, which
makes a later call fail: this is one of the failures the `...Fails` actions allow.
A failed call has its effect, if it has one, at the moment it fails. A client's retry
is a request of its own with the same key.

The retries of the Redis client are another matter. `main()` makes it with default
options, under which go-redis (v9.0.5, not part of the repository) sends a command
whose reply is lost again, up to three times, and returns the answer to the last
attempt only. `LockResent` and `PublishResent` are attempts that are given up, with or
without effect; `retries[r]` counts those of the latest command of `r` and `MaxRetries`
bounds them. So a request may find the key that its own `SET NX` has set and be
answered 409, and a message may be broadcast more than once and be answered 202.

`epoch`, `window` and `vouched` are history variables. 405 is not told apart from 400.

`MessageLog` is what remains for a reader: a set of stored messages, a sequence of
broadcasts and the messages acknowledged with 202. A message is broadcast at most
`MaxBroadcasts` times, which is `MaxRetries + 1` here. The refinement mapping is the
identity on the first two, and `Accepted` collects the messages of the requests
answered 202.

### DeltaSync and ChatSystem

The client is external and modelled as the comment on `HandleDeltaSync` asks: it
sends the highest ID it holds per channel, merges the answer, and asks again.
`SyncChannel` is one round of the loop, with one query, and messages are stored
between rounds. `log` records commits in their order.

`ChatSystem` adds the two other ways in which that client learns of messages: what
its sessions show it (`BestEffort`) and its own 202s, whose body carries the ID "so
the client can use the ID for future delta-sync requests" (`message_handler.go:98`).
All three fill one store, and the store decides the cursor. `pushed` remembers what
came by socket or 202. `OnePagePerChannel` bounds the answer to a sync. `LossHasCause`
states exactly when a client loses a message for good. A message that is broadcast
twice may be shown twice, which the client's merge by ID absorbs. `OrderedSpec` supposes that rows commit in the order of their IDs, so that
`chat_gap` is about the live path and not about late commits.

### WsSession and LivePush

`WsSession` follows one connection attempt through `ServeWS` and its goroutines
through their deferred calls, one step per call that another goroutine can
observe. Hub methods hold the mutex from end to end and are one step. `LivePush`
follows the messages. Two branches of `client.go` are unreachable and have no
action: `Send` is never closed, and what `Publish` marshals always unmarshals.
`LivePush.Publish` may miss a subscriber, as Redis Pub/Sub may. `since` records when a
session subscribed, which is what `BestEffort` needs to say that nothing older is
shown. What travels there is a broadcast, known by its number, and `BestEffort` speaks
of broadcasts: none is shown twice, but two broadcasts of one message may both be.
The deferred calls of `readPump` are two steps, `Cancel` and `Disconnect`, so that the
writer may still write, and listeners stop, in between.

### Directory

Registration looks up and then inserts; the UNIQUE index decides a race. Channel
creation inserts the channel and then one member at a time with INSERT IGNORE,
which skips a row whose user does not exist. IDs come from the generator, so a
user or channel is identified with the request that makes it. The GET handlers are
operators on the tables; the properties are stated through them.

## 3. Runs

Passing runs:

| Run | Instance | Shows |
|---|---|---|
| `snowflake` | 2 processes x 2 goroutines, 2 sequence numbers per ms, 3 ms, one default worker ID and one that wraps and is clamped; strings of up to 4 characters, integers of 8 bits; fair | `GeneratorInvariant`, refinement of `IdOracle`, `SpinTerminates`, `WorkerIDAsConfigured` |
| `send` | 2 processes, 2 users with one key, 1 expiry, 1 retry per Redis command, memberships changing; fair | refinement of `MessageLog`, `AcceptedIsDelivered`, `OncePerWindow`, `ConflictHasCause`, `SenderWasMember`, `PrimaryKeyFree`, `RowsWereNotRefused`, `EveryRequestAnswered` |
| `chat` | 1 client with 1 session, 2 channels, 2 messages of which the second is another's in the same or the other channel or its own, 2 broadcasts each, pages of 1, 1 failed sync; fair syncs | `LossHasCause`, `OnePagePerChannel`, `CatchesUp` |
| `ws_sessions` | 2 sessions of 1 user, 2 channels; fair | `SessionShape`, `NoSocketLeak`, `HubTracksNewest`, `NoGoroutineLeak` |
| `live_push` | 1 session, 2 channels, 3 broadcasts, buffer of 2; fair listeners | refinement of `BestEffort`, `NothingVanishes`, `ListenerNeverBlocks` |
| `directory` | 3 registrations (2 of one name), 2 creations | `OneOwnerPerName`, `CreatedIsListed` |

All of them also check the type invariant.

Runs that refute what the repository says of itself:

| Run | The repository says | The code does |
|---|---|---|
| `snowflake_rewind` | the generator stalls when the clock goes back (`snowflake.go:65`) | it follows the clock back and repeats an ID |
| `send_drain` | in-flight requests are not dropped (`main.go:106`) | `srv.Close()` cuts them |
| `sync_every_message` | a client eventually receives every message (`08_guarantees.md:30`) | a row committed after one with a higher ID is never returned to a client that has the latter |
| `chat_gap` | a message stored but not broadcast is recovered by delta-sync (`message_service.go:94`, `08_guarantees.md:17`) | not if the socket shows the client a later message of the channel before it syncs: its cursor then lies beyond the gap |
| `ws_shutdown` | Shutdown closes every open connection (`hub.go:66`) | not one whose map entry a second connection has overwritten |
| `directory_dm` | a DM is between exactly two users (`conversation.go:12`) | a creator outside the list becomes a third |

Some disagreements are visible in the models without a run of their own:

- 409 is documented as "duplicate `X-Idempotency-Key` (already processed)"
  (`05_api_reference.md:107`). A key whose request got 403 answers 409 to the retry
  (`LockHeld` after `MemberMissing`; `08_guarantees.md:54` admits it), and a lone request
  may get it when its own `SET NX` was sent twice (`LockResent`, `LockHeld`).
- The real-time path has "no duplicates" (`08_guarantees.md:29`), but a `PUBLISH` that was
  sent twice (`PublishResent`, `Publish`) shows a client its message twice.
- "The creator is always enrolled" (`03_hld_data_flows.md:198`), but not if it is no
  registered user: INSERT IGNORE skips its row and 201 is answered (`MemberRow`).
- A username in use is answered 409 (`05_api_reference.md:28`), but the loser of a race
  for it gets 500 (`InsertUserRefused`).
- A MySQL error during channel creation is answered 400 (`InsertChannelFails`,
  `EnrolFails`).

The second halves of the first two rest on what go-redis does by default with a lost
reply; a client made with `MaxRetries: -1` would show neither.

### Bounds, and why they are enough

- `MaxSequence = 1`, `MaxClock = 3`: a millisecond is exhausted after two IDs, and
  there are milliseconds before, during and after the wait.
- `MaxExpiries = 1`: a key is acquired in two windows, with a handler of the first
  still running in the second.
- `MaxRetries = 1` (3 in the code) in `send`: a command is sent again once, with or
  without effect before. More retries repeat the same step. `MaxBroadcasts = 2` in
  `chat` is what that makes of one `PUBLISH`.
- `RoutedSpec` calls the process that gets the first request `n1`: processes are alike,
  so this loses no case.
- `MaxID` leaves room for gaps and for IDs of two processes in either order.
  `RoomLeft` keeps the highest IDs for the requests that still need one, so that
  the bound never blocks a handler.
- `HalfRange = 128` (8 bits) with four digits: values wrap several times, through negative
  numbers and back into the range of worker IDs.
- `PageSize = 1` with two messages in one channel: a full page with a rest. The second
  message may go to the other channel instead, which keeps the loop over channels honest.
- One session is enough in `chat`: a second one of the same client shows it messages
  that the first may show too, in the same order per channel.
- `sendBuffer = 2` with three broadcasts: reordering and overflow both happen.
- two sessions of one user suffice for overlap: entries of different users do not
  interact in the Hub.
- No run uses symmetry: most check liveness.

`CHECK_DEADLOCK FALSE` is set where the instance really stops: when the clock or
the supply of messages ends, or the ws-worker has exited.

### Fairness, and why the code justifies it

- `Snowflake`: the wall clock ticks, and the spinning goroutine, which needs
  nothing else, is scheduled.
- `MessageService`: a runnable handler runs, and a call to MySQL or Redis returns
  with some outcome, each attempt of a Redis command included. No particular outcome is fair, and neither arrivals, expiry,
  membership changes nor process steps are.
- `ChatSystem`: the client keeps asking and the server goes on with its request;
  failures are bounded by `MaxFailures` and not fair. Senders, broadcasts, sockets
  and 202s are not fair at all.
- `WsSession`: the handler and goroutines run. `ReadFails` is fair because the
  read deadline of 60 s makes `ReadMessage` fail once no pong arrives; `WriteFails`
  only once this side has closed the connection, because the ping ticker then
  writes to a closed connection. A peer that is merely gone guarantees no failing
  write.
- `LivePush`: only listeners. The writer may be stuck for ever.

## 4. Proofs

The theorems hold for every number of processes, goroutines, requests, users and
keys and every value of the bounds, under the named assumptions of the modules.

`SnowflakeProofs`:

- `TypeCorrect`, `GeneratorSafe`: `GeneratorInvariant` is inductive together with
  the type invariant. "All IDs differ" is not inductive: nothing in it excludes an
  old ID ahead of the generator. The invariant therefore relates each issued ID to
  the position of the generator: behind the clock, or in the current millisecond
  with a sequence number not above the counter, or, during the busy wait, not
  later than `lastStamp`; and at most one goroutine spins, with counter zero.
- `Refinement`: `Snowflake` implements `IdOracle`. Within a process a new ID is
  larger because everything issued lies behind; across processes IDs differ
  because `Pack` is injective and worker IDs are distinct (`UniqueWorkers`).
- `RewindStaysLocal`, `OnlyRewindsGoBack`: what is left when the clock may be set back
  (`RewindSpec`, which has no restarts). Processes still never collide, and an ID is not
  above the one before it only if the clock reads less than `lastStamp`.
  `GeneratorInvariant` does not survive a rewind; `RewindInv` keeps what does: each ID
  has its process's worker field (`Stamped`), and `lastStamp` and `sequence` are those
  of the newest ID (`NewestHeld`).

`MessageServiceProofs`:

- `TypeCorrect`;
- `Idempotent` (`OncePerWindow`): two requests that hold a key in the same window
  are equal, because a window that some request acquired in the current epoch has
  its key still set;
- `MembershipGated` (`SenderWasMember`): a request past the membership check is
  vouched for, and requests before it are whenever their row is present;
- `DeliverySafe`, `InsertsAreFresh`: a request in the steps `insert` and `publish`
  owns an ID that its process has issued and no other request has; what is stored
  has the ID of exactly one request at `publish` or `done`, and what is
  published is stored and belongs to such a request. `CopiesInv` counts: at `publish` a
  message has at most as many broadcasts as attempts were given up, and at the end at
  most one more, hence `MaxRetries + 1` (`OnceAnAttempt`);
- `RefinesLog` (`ImplementsLog`): `MessageService` implements `MessageLog`. It rests on
  the invariants above: an INSERT finds its ID free because IDs are owned, a
  broadcast finds its row stored because it is at `publish`, and finds room for itself
  because of `CopiesInv`. Each other step leaves messages, broadcasts and the set `Accepted` alone;
- `ConflictsHaveCause` (`ConflictHasCause`): every key that is set was set by a request
  that still has its window, was told of a failure or has had its `SET NX` sent again
  (`Tried`), and a request at the guard itself can only be the last of these;
- `HandlersMoveForward` (`OnlyForward`): a handler only moves on to a later step
  (`Following`), its reply is written once and its ID drawn once. This is the safety half
  of `EveryRequestAnswered` (fairness supplies the rest), and it means that no
  shutdown or crash takes back a 202: those cut only requests in progress;
- `RefusalsStoreNothing` (`RowsWereNotRefused`): refusals are answered before an ID is
  drawn (`RefusedInv`), and every row has exactly one owner.

`PrimaryKeyFree` closes a loop: the model's INSERT has no duplicate-key outcome,
and the theorem shows that none is left out.

`ConfigProofs`:

- `IDsCarryWorkerID` (`WorkerStamped`): the worker field of every ID is the worker
  ID of its process. It follows from `GeneratorInvariant` and from what division
  and remainder make of a packed ID: neither the timestamp nor the sequence number
  reaches the worker field.
- `ConfiguredIDs` (`WorkerIDAsConfigured`): that field is the number that the string in
  the environment denotes, taken modulo the width of the integer, the default if the
  string is no number, or 0 where `NewGenerator` clamps it; for strings of any length
  and integers of any width. The loop invariant is `RoundsCongruent`: the value after
  `i` rounds, times the place value of digit `i`, is congruent to what the first `i`
  digits contribute to the number denoted. Both the loop and the sum are recursive
  functions, whose defining equations are proved by well-founded induction, stated for
  a set of naturals (`InductionTo`) because the provers cannot instantiate the library's
  induction theorems. `Wrap` changes a value by multiples of `2 * HalfRange` only
  (`WrapCongruent`), and one such value lies in the range (`OneInRange`).

`LivePushProofs`, on the invariant `LiveInv`:

- `TypeCorrect`, together with `Numbered`: the ID of a broadcast is its place in
  `published`.
- `NoMessageVanishes` (`NothingVanishes`): the books of a session (`Account`). That
  a message is in one place only is not inductive, since nothing in it keeps a
  listener from forwarding what the session has handled before. `QueueOrder`
  excludes this: what waits at a subscription is later, within its channel, than
  everything handled.
- `LiveIsBestEffort` (`ImplementsBestEffort`): a step of the writer is a step `Show`
  of `BestEffort`, because `wire`, `Send` and `msgCh` of a channel, put one after the
  other, are in the order of publication (`QueueOrder`, `BufferOrder`), and because
  Redis delivers only what was published after the subscription (`Joined`,
  `Genuine`). Every other step publishes, subscribes or leaves all that alone.
- `SocketsAreInOrder` (`ShownInOrder`): the same as an invariant of the socket.

`ChatSystemProofs`, on the invariant `ChatInv`:

- `ChatTypeCorrect`.
- `LossesHaveCause` (`LossHasCause`): whatever a client lacks below its cursor was
  overtaken by a message of that channel that was pushed to it, or that was
  committed before the missing one although its ID is higher. The property speaks
  of the cursor and of clients between syncs; the invariant `GapsHaveCause` speaks of
  every message held, and `SyncInv` of syncs in progress: their cursors are IDs of
  messages held (`AfterHeld`), and a collected page has no hole but for late commits
  (`PagesDense`). The latter is the heart of the argument. It holds because a page is
  the lowest `PageSize` rows above the cursor (`PageIsDense`, by cardinality), because
  rows come to the table only at the end of the history (`CommitIsLast`), and because
  merging a page keeps whatever else the client holds.
- `OrderedCommitsLoseToPushes` (`OnlyPushesCost`): under `OrderedSpec`, which supposes
  commits in the order of their IDs, the second cause disappears. `chat_gap` shows that
  the first remains.
- `LossesAreForGood` (`LossIsForGood`): a message that the cursor has passed, and that
  no sync in progress may still return, stays lost unless it is pushed after all.
  With `LossesHaveCause` this settles when delta-sync recovers a message. The
  argument is that cursors never go back (`CursorGrows`) and that a sync starts from
  the cursor.

- `AnswersAreLimited` (`OnePagePerChannel`): a page has at most `PageSize` rows, because all
  of it but its highest row is below that row and fewer than `PageSize` rows are
  (`PageIsLimited`); and SyncDeltas reads a channel once, so that what it has still to
  reach has contributed nothing (`AnswerInv`).
- `CursorsAdvance` (`CursorsOnlyAdvance`): stores and cursors only grow.
- `ComposesBoth`: the composition implements `MessageLog` and `BestEffort` together,
  with one `published` for both, so the two refinements below it fit together.

The highest ID of a finite set exists by well-founded induction on the naturals
(`MaxExists`, `CursorIsHighest`).

`WsSessionProofs`:

- `TypeCorrect`, `ShapeHolds` (`SessionShape`).
- `HubIsCurrent` (`HubTracksNewest`): inductive together with these and `NewestOwn`: the
  newest session of a user is the user's own. Otherwise `Unregister`, which deletes
  from its own user's entry only, might leave a dead session behind in another's.
- `NoDeadEntry` (`LiveEntries`): after the shutdown too, an entry of the map is a session of
  its user that has not unregistered itself.
- `NewestAreClosed` (`ShutdownClosesNewest`): what Hub.Shutdown does achieve. The run
  `ws_shutdown` shows what it does not.
- `SocketsAreClosed` (`NoSocketLeak`): no socket is left open by a `ServeWS` that gave up
  or by a pump that ended. It needs that a session before its upgrade has neither a
  socket nor an entry that Shutdown would find (`Untouched`).
- `SessionsWindDown` (`OnlyWindsDown`): contexts stay cancelled, sockets closed and
  listeners stopped, and an ended session stays ended: the safety half of
  `NoGoroutineLeak`.

`DirectoryProofs`:

- `TypeCorrect`.
- `NamesHaveOneOwner` (`OneOwnerPerName`): the UNIQUE index gives the first part; for the
  replies, `Progress` says that a request in progress has none and that a registration
  before its INSERT has no row. Users are never deleted, so an answer stays true.
- `CreatedChannelsAreListed` (`CreatedIsListed`): while a creation enrols, each
  user asked for and registered when the channel was made is a member, was removed,
  or is still to be enrolled (`Enrolling`). `InitialMembersAsked` relates the list the
  loop runs over to the request: its members and its creator, appended or not.
- `NobodyEntersUnasked` (`OnlyAskedEnter`): a row is written by AddMember, or by the
  creation of its channel for a user that it asked for, since the rest of the loop is
  always a part of the request (`AskedInv`).
- `DMsGrowByAdding` (`DMsAsCreated`): under `CreationSpec`, which is `Spec` without AddMember,
  a DM has at most two members if its creator is listed and three otherwise. So
  `directory_dm` has two causes, the appended creator and AddMember, and no third.

## 5. Only model-checked

- Liveness: `SpinTerminates`, `EveryRequestAnswered`, `CatchesUp`, `NoGoroutineLeak` and
  `ListenerNeverBlocks`. The prover supports neither fairness nor ENABLED.
- The six runs that expect a violation: a counterexample is its own proof.

Every other property that a run checks is a theorem.

## 6. Plan

Every component with state of its own is modelled, and every safety property of the
runs is proved, as is what remains true of the claims that the runs refute. What may
still be added:

1. Restarts in `RewindSpec`: how far a clock may be set back across a restart before
   IDs repeat.
2. A catch-up bound: how many syncs a client needs to reach the end of a channel that
   grows no more.

## 7. Not modelled

- MySQL pool settings, build and deployment files.
- `ActiveCount`, used in a log line only, and logging.
- `UpsertForTest`, which only tests call.
- Contents, timestamps and formatting of messages. `AckFrame` is declared in the
  source but used nowhere.
- MySQL, Redis and go-redis themselves: they are modelled by what the code sees. Of
  go-redis this includes the retries of commands; a late effect of an attempt that was
  given up (after the next attempt, or after the failure of the call) is not modelled.
- Two processes with one worker ID: `UniqueWorkers` assumes the deployment rule.

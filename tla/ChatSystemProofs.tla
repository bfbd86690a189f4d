-------------------------- MODULE ChatSystemProofs --------------------------
(***************************************************************************)
(* Proofs about a client of the whole system, for every set of messages,   *)
(* channels, clients and sessions and every size of a page.                *)
(***************************************************************************)
EXTENDS ChatSystem, FiniteSetTheorems, SequenceTheorems, WellFoundedInduction, TLAPS

(* A bounded nonempty set of naturals has a greatest element.              *)
LEMMA MaxExists ==
    ASSUME NEW S \in SUBSET Nat, S # {}, NEW n \in Nat, \A x \in S : x <= n
    PROVE  Max(S) \in S /\ \A x \in S : x <= Max(S)
<1> DEFINE bounds == {k \in Nat : \A x \in S : x <= k}
<1>1. PICK k \in bounds : \A j \in bounds : ~(j < k)
  <2>1. bounds \subseteq Nat /\ bounds # {}
    OBVIOUS
  <2>2. \E k \in bounds : \A j \in bounds : <<j, k>> \notin OpToRel(<, Nat)
    <3> HIDE DEF bounds
    <3> QED
      BY <2>1, NatLessThanWellFounded, WFMin
  <2> QED
    BY <2>1, <2>2 DEF OpToRel
<1>2. k \in S
  <2> SUFFICES ASSUME k \notin S PROVE FALSE
    OBVIOUS
  <2>1. k \in Nat /\ \A x \in S : x \in Nat /\ x <= k /\ x # k
    BY <1>1
  <2>2. k - 1 \in bounds
    <3>1. PICK x \in S : TRUE
      OBVIOUS
    <3>2. k - 1 \in Nat
      BY <2>1, <3>1
    <3>3. \A y \in S : y <= k - 1
      BY <2>1
    <3> QED
      BY <3>2, <3>3
  <2> QED
    BY <1>1, <2>2
<1>3. \E x \in S : \A y \in S : x >= y
  BY <1>2
<1>4. Max(S) \in S /\ \A y \in S : Max(S) >= y
  BY <1>3 DEF Max
<1> QED
  BY <1>4

-----------------------------------------------------------------------------
(* The inductive invariant                                                 *)

(* The variables that DeltaSync and ChatSystem update are functions on the *)
(* clients, and what is broadcast, accepted or pushed is stored.           *)
Shape ==
    /\ sync = [u \in Readers |-> sync[u]]
    /\ pushed \in [Readers -> SUBSET messages]
    /\ published \in Seq(messages)
    /\ accepted \subseteq messages

(* The table is finite, an ID names one row, and the history has them all. *)
Table ==
    /\ IsFiniteSet(messages)
    /\ \E n \in Nat : \A m \in messages : m.id <= n
    /\ \A m, x \in messages : m.id = x.id => m = x
    /\ \A m \in messages : \E i \in DOMAIN log : log[i] = m

(* Client u, not its cursor, is asked: whatever it lacks below a message   *)
(* it holds has a cause.                                                   *)
Cause(u, m) ==
    \E h \in held[u] : /\ h.conv = m.conv /\ h.id > m.id
                       /\ h \in pushed[u] \/ CommittedAfter(m, h)

GapsHaveCause(u) ==
    \A m \in messages, x \in held[u] :
        m \notin held[u] /\ m.conv = x.conv /\ m.id < x.id => Cause(u, m)

(* The cursors of a sync in progress are IDs of messages the client holds; *)
(* what it has collected is above them, and below a message it has         *)
(* collected it lacks only what is at or below the cursor or was committed *)
(* later.                                                                  *)
AfterHeld(u) ==
    \A c \in Channels : sync[u].after[c] = 0
        \/ \E h \in held[u] : h.conv = c /\ h.id = sync[u].after[c]

DeltasAbove(u) == \A h \in sync[u].deltas : h.id > sync[u].after[h.conv]

PagesDense(u) ==
    \A h \in sync[u].deltas, m \in messages :
        m.conv = h.conv /\ m.id < h.id =>
            \/ m \in sync[u].deltas
            \/ m.id <= sync[u].after[h.conv]
            \/ CommittedAfter(m, h)

SyncInv(u) ==
    sync[u] # NoSync => AfterHeld(u) /\ DeltasAbove(u) /\ PagesDense(u)

StoreInv == ChatTypeOK /\ Shape /\ Table

ChatInv == StoreInv /\ \A u \in Readers : GapsHaveCause(u) /\ SyncInv(u)

(* Stored messages have positive IDs and a channel.                        *)
LEMMA Stored ==
    ASSUME StoreInv, NEW m \in messages
    PROVE  m \in Message /\ m.id \in Nat \ {0} /\ m.conv \in Channels
  BY SyncAssumption DEF StoreInv, ChatTypeOK, SyncTypeOK

-----------------------------------------------------------------------------
(* Cursor and GetMessagesSince                                             *)

(* The cursor of a channel is 0 or the ID of a message held, and no        *)
(* message that the client holds of the channel is above it.               *)
LEMMA CursorIsHighest ==
    ASSUME StoreInv, NEW u \in Readers, NEW c \in Channels
    PROVE  /\ Cursor(u, c) \in Nat /\ Cursor(u, c) \in IDs \cup {0}
           /\ Cursor(u, c) = 0 \/ \E h \in held[u] : h.conv = c /\ h.id = Cursor(u, c)
           /\ \A h \in held[u] : h.conv = c => h.id <= Cursor(u, c)
<1> DEFINE ids == {m.id : m \in In(c, held[u])}
           S == {0} \cup ids
<1>1. held[u] \subseteq messages
  BY DEF StoreInv, ChatTypeOK, SyncTypeOK
<1>2. S \in SUBSET Nat /\ S # {}
  BY <1>1, Stored DEF In
<1>3. PICK n \in Nat : \A m \in messages : m.id <= n
  BY DEF StoreInv, Table
<1>4. \A x \in S : x <= n
  BY <1>1, <1>3 DEF In
<1>5. Max(S) \in S /\ \A x \in S : x <= Max(S)
  <2> HIDE DEF S
  <2> QED
    BY <1>2, <1>4, MaxExists
<1>6. Cursor(u, c) = Max(S)
  BY DEF Cursor
<1>7. \A h \in held[u] : h.conv = c => h.id \in S
  BY DEF In
<1>8. \A x \in S : x = 0 \/ \E h \in held[u] : h.conv = c /\ h.id = x
  BY DEF In
<1>9. \A h \in held[u] : h.id \in IDs
  BY <1>1, Stored DEF IDs
<1> HIDE DEF S
<1> QED
  BY <1>2, <1>5, <1>6, <1>7, <1>8, <1>9

(* A page is of its channel and above the cursor, and leaves out no row    *)
(* between the cursor and a row it contains.                               *)
LEMMA PageIsDense ==
    ASSUME StoreInv, NEW c \in Channels, NEW after \in Nat
    PROVE  /\ GetMessagesSince(c, after) \subseteq messages
           /\ \A h \in GetMessagesSince(c, after) : h.conv = c /\ h.id > after
           /\ \A h \in GetMessagesSince(c, after), m \in messages :
                 m.conv = c /\ m.id > after /\ m.id < h.id
                    => m \in GetMessagesSince(c, after)
<1> DEFINE rows == {m \in In(c, messages) : m.id > after}
           below(m) == {x \in rows : x.id < m.id}
<1>1. GetMessagesSince(c, after) = {m \in rows : Cardinality(below(m)) < PageSize}
  BY DEF GetMessagesSince
<1>2. rows \subseteq messages /\ \A m \in rows : m.conv = c /\ m.id > after
  BY DEF In
<1>3. ASSUME NEW h \in rows, NEW m \in rows, m.id < h.id,
             Cardinality(below(h)) < PageSize
      PROVE  Cardinality(below(m)) < PageSize
  <2>1. IsFiniteSet(below(h))
    <3>1. below(h) \in SUBSET messages /\ IsFiniteSet(messages)
      BY <1>2 DEF StoreInv, Table
    <3> HIDE DEF below
    <3> QED
      BY <3>1, FS_Subset
  <2>2. below(m) \in SUBSET below(h)
    <3>1. \A x \in rows : x.id \in Nat
      BY <1>2, Stored
    <3> HIDE DEF rows
    <3> QED
      BY <1>3, <3>1
  <2> HIDE DEF below
  <2>3. Cardinality(below(m)) <= Cardinality(below(h)) /\ IsFiniteSet(below(m))
    BY <2>1, <2>2, FS_Subset
  <2>4. Cardinality(below(m)) \in Nat /\ Cardinality(below(h)) \in Nat
    BY <2>1, <2>3, FS_CardinalityType
  <2> QED
    BY <1>3, <2>3, <2>4, SyncAssumption
<1>4. \A m \in messages : m.conv = c /\ m.id > after => m \in rows
  BY DEF In
<1> HIDE DEF rows, below
<1> QED
  BY <1>1, <1>2, <1>3, <1>4

-----------------------------------------------------------------------------
(* Initial states                                                          *)

(* Nothing is stored, held or asked for at the start.                      *)
LEMMA InitChat == ChatInit => ChatInv
<1> SUFFICES ASSUME ChatInit PROVE ChatInv
  OBVIOUS
<1> USE DEF ChatInit, SyncInit, Init, Live!Init
<1>1. ChatTypeOK
  <2>1. Len(<<>>) = 0 /\ <<>> \in Seq(messages)
    OBVIOUS
  <2>2. since \in [Sessions -> [Channels -> -1..Len(published)]]
    BY <2>1
  <2>3. wire \in [Sessions -> Seq(DOMAIN published)] /\ log \in Seq(messages)
    BY <2>1
  <2>4. SyncTypeOK
    BY <2>3, SyncAssumption DEF SyncTypeOK
  <2> QED
    BY <2>2, <2>3, <2>4 DEF ChatTypeOK
<1>2. Shape
  BY DEF Shape
<1>3. Table
  BY FS_EmptySet DEF Table
<1>4. \A u \in Readers : GapsHaveCause(u) /\ SyncInv(u)
  BY DEF GapsHaveCause, SyncInv
<1> QED
  BY <1>1, <1>2, <1>3, <1>4 DEF ChatInv, StoreInv

-----------------------------------------------------------------------------
(* Steps of the senders                                                    *)

readerVars == <<held, sync, failures, since, wire, pushed>>

(* What Store does, with the history of commits.                           *)
Commit(m) ==
    /\ m \in Message \ messages /\ \A x \in messages : x.id # m.id
    /\ messages' = messages \cup {m} /\ log' = Append(log, m)
    /\ UNCHANGED <<published, accepted, readerVars>>

(* What Broadcast does.                                                    *)
Announce(m) ==
    /\ m \in messages
    /\ published' = Append(published, m) /\ accepted' \subseteq accepted \cup {m}
    /\ UNCHANGED <<messages, log, readerVars>>

(* A step of the senders stores one message or broadcasts one.             *)
LEMMA SenderSteps ==
    ASSUME StoreInv, SenderStep, UNCHANGED <<since, wire, pushed>>
    PROVE  \E m \in Message : Commit(m) \/ Announce(m)
<1>1. PICK m \in Message : Store(m) \/ Broadcast(m)
  BY DEF SenderStep, Next
<1>2. CASE Store(m)
  <2>1. m \notin messages /\ messages' = messages \cup {m}
    BY <1>2 DEF Store
  <2>2. log' = Append(log, m)
    BY <2>1 DEF SenderStep
  <2> QED
    BY <1>2, <2>1, <2>2 DEF Store, Commit, SenderStep, readerVars
<1>3. CASE Broadcast(m)
  <2>1. messages' = messages /\ UNCHANGED log
    BY <1>3 DEF Broadcast, SenderStep
  <2> QED
    BY <1>3, <2>1 DEF Broadcast, MayBroadcast, Announce, SenderStep, readerVars
<1> QED
  BY <1>1, <1>2, <1>3

(* A commit is the last in the history: those before it stay in order, and *)
(* all rows precede it.                                                    *)
LEMMA CommitIsLast ==
    ASSUME StoreInv, NEW m, Commit(m)
    PROVE  /\ \A a, b : CommittedAfter(a, b) => CommittedAfter(a, b)'
           /\ \A b \in messages : CommittedAfter(m, b)'
           /\ \A x \in messages' : \E i \in DOMAIN log' : log'[i] = x
<1>1. /\ log \in Seq(messages) /\ messages' = messages \cup {m}
      /\ log' = Append(log, m)
      /\ \A b \in messages : \E i \in DOMAIN log : log[i] = b
  BY DEF StoreInv, ChatTypeOK, SyncTypeOK, Table, Commit
<1>2. log \in Seq(messages')
  BY <1>1, SeqMonotonic
<1>3. /\ Len(log) \in Nat /\ DOMAIN log = 1..Len(log)
      /\ DOMAIN log' = 1..(Len(log) + 1)
      /\ \A i \in 1..Len(log) : log'[i] = log[i]
      /\ log'[Len(log) + 1] = m
  BY <1>1, <1>2, AppendProperties, LenProperties
<1>4. \A a, b : CommittedAfter(a, b) => CommittedAfter(a, b)'
  BY <1>3 DEF CommittedAfter
<1>5. ASSUME NEW b \in messages
      PROVE  CommittedAfter(m, b)'
  <2>1. PICK i \in 1..Len(log) : log[i] = b
    BY <1>1, <1>3
  <2>2. i \in DOMAIN log' /\ Len(log) + 1 \in DOMAIN log' /\ i < Len(log) + 1
    BY <1>3
  <2> QED
    BY <1>3, <2>1, <2>2 DEF CommittedAfter
<1>6. \A x \in messages' : \E i \in DOMAIN log' : log'[i] = x
  BY <1>1, <1>3
<1> QED
  BY <1>4, <1>5, <1>6

(* A commit keeps the types, and the table finite with unique IDs.         *)
LEMMA CommitStore ==
    ASSUME StoreInv, NEW m, Commit(m)
    PROVE  StoreInv'
<1>1. /\ m \in Message /\ m.id \in Nat
      /\ messages' = messages \cup {m} /\ log' = Append(log, m)
      /\ messages \subseteq messages'
      /\ UNCHANGED <<published, accepted, held, sync, failures, since, wire, pushed>>
  BY SyncAssumption DEF Commit, readerVars
<1>2. Seq(messages) \subseteq Seq(messages')
  BY <1>1, SeqMonotonic
<1>3. log' \in Seq(messages')
  <2>1. log \in Seq(messages') /\ m \in messages'
    BY <1>1, <1>2 DEF StoreInv, ChatTypeOK, SyncTypeOK
  <2> QED
    BY <1>1, <2>1, AppendProperties
<1>4. ASSUME NEW u \in Readers, sync[u] # NoSync
      PROVE  sync[u] \in SyncState'
  BY <1>1, <1>4 DEF StoreInv, ChatTypeOK, SyncTypeOK, SyncState
<1>5. SyncTypeOK'
  <2>1. held' \in [Readers -> SUBSET messages']
    BY <1>1 DEF StoreInv, ChatTypeOK, SyncTypeOK
  <2>2. \A u \in Readers : sync'[u] = NoSync \/ sync'[u] \in SyncState'
    BY <1>1, <1>4
  <2> QED
    BY <1>1, <1>3, <2>1, <2>2 DEF StoreInv, ChatTypeOK, SyncTypeOK
<1>6. ChatTypeOK'
  <2>1. wire' \in [Sessions -> Seq(DOMAIN published')]
    BY <1>1 DEF StoreInv, ChatTypeOK
  <2> QED
    BY <1>1, <1>5, <2>1 DEF StoreInv, ChatTypeOK
<1>7. Shape'
  BY <1>1, <1>2 DEF StoreInv, Shape
<1>8. IsFiniteSet(messages')
  BY <1>1, FS_AddElement DEF StoreInv, Table
<1>9. \E n \in Nat : \A x \in messages' : x.id <= n
  <2>1. PICK n \in Nat : \A x \in messages : x.id <= n
    BY DEF StoreInv, Table
  <2>2. \A x \in messages : x.id \in Nat
    BY Stored
  <2>3. n + m.id \in Nat /\ \A x \in messages' : x.id <= n + m.id
    BY <1>1, <2>1, <2>2
  <2> QED
    BY <2>3
<1>10. \A y, x \in messages' : y.id = x.id => y = x
  BY <1>1 DEF StoreInv, Table, Commit
<1>11. Table'
  BY <1>8, <1>9, <1>10, CommitIsLast DEF Table
<1> QED
  BY <1>6, <1>7, <1>11 DEF StoreInv

(* A message committed below one that a client holds, or has collected, is *)
(* committed after it.                                                     *)
LEMMA CommitClient ==
    ASSUME ChatInv, NEW m, Commit(m), NEW u \in Readers
    PROVE  GapsHaveCause(u)' /\ SyncInv(u)'
<1>1. /\ messages' = messages \cup {m}
      /\ UNCHANGED <<held, sync, pushed>>
  BY DEF Commit, readerVars
<1>2. /\ \A a, b : CommittedAfter(a, b) => CommittedAfter(a, b)'
      /\ \A b \in messages : CommittedAfter(m, b)'
  BY CommitIsLast DEF ChatInv
<1>3. StoreInv /\ GapsHaveCause(u) /\ SyncInv(u)
  BY DEF ChatInv
<1>4. held[u] \subseteq messages
  BY <1>3 DEF StoreInv, ChatTypeOK, SyncTypeOK
<1>5. m.id \in Nat /\ \A x \in messages : x.id \in Nat
  BY <1>3, Stored, SyncAssumption DEF Commit
<1>6. \A a : Cause(u, a) => Cause(u, a)'
  BY <1>1, <1>2 DEF Cause
<1>7. GapsHaveCause(u)'
  <2>1. SUFFICES ASSUME NEW a \in messages', NEW x \in held[u], a \notin held[u],
                        a.conv = x.conv, a.id < x.id
                 PROVE  Cause(u, a)'
    BY <1>1 DEF GapsHaveCause
  <2>2. CASE a \in messages
    BY <1>3, <1>6, <2>1, <2>2 DEF GapsHaveCause
  <2>3. CASE a = m
    <3>1. CommittedAfter(a, x)' /\ x.id > a.id
      BY <1>2, <1>4, <1>5, <2>1, <2>3
    <3> QED
      BY <1>1, <2>1, <3>1 DEF Cause
  <2> QED
    BY <1>1, <2>1, <2>2, <2>3
<1>8. SyncInv(u)'
  <2>1. SUFFICES ASSUME sync[u] # NoSync
                 PROVE  AfterHeld(u)' /\ DeltasAbove(u)' /\ PagesDense(u)'
    BY <1>1 DEF SyncInv
  <2>2. AfterHeld(u) /\ DeltasAbove(u) /\ PagesDense(u)
    BY <1>3, <2>1 DEF SyncInv
  <2>3. AfterHeld(u)' /\ DeltasAbove(u)'
    BY <1>1, <2>2 DEF AfterHeld, DeltasAbove
  <2>4. sync[u].deltas \subseteq messages
    BY <1>3, <2>1 DEF StoreInv, ChatTypeOK, SyncTypeOK, SyncState
  <2>5. PagesDense(u)'
    BY <1>1, <1>2, <2>2, <2>4 DEF PagesDense
  <2> QED
    BY <2>3, <2>5
<1> QED
  BY <1>7, <1>8

(* A broadcast changes nothing that a client has.                          *)
LEMMA AnnounceStep ==
    ASSUME ChatInv, NEW m, Announce(m)
    PROVE  ChatInv'
<1>1. /\ m \in messages
      /\ published' = Append(published, m) /\ accepted' \subseteq accepted \cup {m}
      /\ UNCHANGED <<messages, log, held, sync, failures, since, wire, pushed>>
  BY DEF Announce, readerVars
<1>2. ChatTypeOK /\ Shape /\ Table
  BY DEF ChatInv, StoreInv
<1>3. /\ published' \in Seq(messages)
      /\ Len(published) \in Nat /\ Len(published') = Len(published) + 1
  BY <1>1, <1>2, AppendProperties, LenProperties DEF Shape
<1>4. SyncTypeOK'
  BY <1>1, <1>2 DEF ChatTypeOK, SyncTypeOK, SyncState
<1>5. since' \in [Sessions -> [Channels -> -1..Len(published')]]
  <2>1. -1..Len(published) \subseteq -1..Len(published')
    BY <1>3
  <2> QED
    BY <1>1, <1>2, <2>1 DEF ChatTypeOK
<1>6. ChatTypeOK' /\ Shape' /\ Table'
  <2>1. DOMAIN published \subseteq DOMAIN published'
    BY <1>2, <1>3, LenProperties DEF Shape
  <2>2. Seq(DOMAIN published) \subseteq Seq(DOMAIN published')
    BY <2>1, SeqMonotonic
  <2>3. wire' \in [Sessions -> Seq(DOMAIN published')]
    BY <1>1, <1>2, <2>2 DEF ChatTypeOK
  <2> QED
    BY <1>1, <1>2, <1>3, <1>4, <1>5, <2>3 DEF ChatTypeOK, Shape, Table
<1>7. \A u \in Readers : GapsHaveCause(u)' /\ SyncInv(u)'
  BY <1>1 DEF ChatInv, GapsHaveCause, Cause, CommittedAfter, SyncInv, AfterHeld,
         DeltasAbove, PagesDense
<1> QED
  BY <1>6, <1>7 DEF ChatInv, StoreInv

-----------------------------------------------------------------------------
(* Steps of the clients                                                    *)

(* A step that leaves the table alone keeps what is said of it.            *)
LEMMA TableUnchanged ==
    ASSUME StoreInv, UNCHANGED <<messages, published, accepted, log>>,
           SyncTypeOK', sync' = [u \in Readers |-> sync'[u]],
           since' \in [Sessions -> [Channels -> -1..Len(published)]],
           wire' \in [Sessions -> Seq(DOMAIN published)],
           pushed' \in [Readers -> SUBSET messages],
           \A u \in Readers : pushed'[u] \subseteq held'[u]
    PROVE  StoreInv'
  BY DEF StoreInv, ChatTypeOK, Shape, Table

(* A client that a step does not concern keeps its invariant.              *)
LEMMA ClientUnchanged ==
    ASSUME NEW u \in Readers, GapsHaveCause(u), SyncInv(u),
           UNCHANGED <<messages, log>>,
           held'[u] = held[u], sync'[u] = sync[u], pushed'[u] = pushed[u]
    PROVE  GapsHaveCause(u)' /\ SyncInv(u)'
  BY DEF GapsHaveCause, Cause, CommittedAfter, SyncInv, AfterHeld, DeltasAbove,
         PagesDense

(* What a client knows of gaps depends on what it holds, not on its sync.  *)
LEMMA GapsUnchanged ==
    ASSUME NEW u \in Readers, GapsHaveCause(u),
           UNCHANGED <<messages, log>>, held'[u] = held[u], pushed'[u] = pushed[u]
    PROVE  GapsHaveCause(u)'
  BY DEF GapsHaveCause, Cause, CommittedAfter

(* Ask: the cursors are those of messages held.                            *)
LEMMA AskStep ==
    ASSUME ChatInv, NEW u \in Readers, Ask(u), UNCHANGED <<since, wire, pushed>>
    PROVE  ChatInv'
<1> DEFINE request == [after |-> [c \in Channels |-> Cursor(u, c)],
                       todo |-> Channels, deltas |-> {}]
<1>1. /\ StoreInv /\ ChatTypeOK /\ SyncTypeOK /\ Shape
      /\ \A v \in Readers : GapsHaveCause(v) /\ SyncInv(v)
  BY DEF ChatInv, StoreInv, ChatTypeOK
<1>2. /\ sync' = [sync EXCEPT ![u] = request]
      /\ UNCHANGED <<messages, published, accepted, log, held, failures>>
  BY DEF Ask, logVars
<1>3. /\ sync' = [v \in Readers |-> sync'[v]] /\ sync'[u] = request
      /\ \A v \in Readers : v # u => sync'[v] = sync[v]
  BY <1>1, <1>2 DEF Shape
<1>4. request \in SyncState
  <2>1. \A c \in Channels : Cursor(u, c) \in IDs \cup {0}
    BY <1>1, CursorIsHighest
  <2> QED
    BY <2>1 DEF SyncState
<1>5. SyncTypeOK'
  BY <1>1, <1>2, <1>3, <1>4 DEF SyncTypeOK, SyncState
<1>6. StoreInv'
  BY <1>1, <1>2, <1>3, <1>5, TableUnchanged DEF ChatTypeOK, Shape
<1>7. AfterHeld(u)'
  <2>1. \A c \in Channels : \/ Cursor(u, c) = 0
                            \/ \E h \in held[u] : h.conv = c /\ h.id = Cursor(u, c)
    BY <1>1, CursorIsHighest
  <2> QED
    BY <1>2, <1>3, <2>1 DEF AfterHeld
<1>8. DeltasAbove(u)' /\ PagesDense(u)'
  BY <1>3 DEF DeltasAbove, PagesDense
<1>9. ASSUME NEW v \in Readers
      PROVE  GapsHaveCause(v)' /\ SyncInv(v)'
  <2>1. CASE v = u
    BY <1>1, <1>2, <1>7, <1>8, <2>1, GapsUnchanged DEF SyncInv
  <2>2. CASE v # u
    BY <1>1, <1>2, <1>3, <2>2, ClientUnchanged
  <2> QED
    BY <2>1, <2>2
<1> QED
  BY <1>6, <1>9 DEF ChatInv

(* SyncChannel: a page adds no gap above its channel's cursor.             *)
LEMMA SyncChannelStep ==
    ASSUME ChatInv, NEW u \in Readers, NEW c \in Channels, SyncChannel(u, c),
           UNCHANGED <<since, wire, pushed>>
    PROVE  ChatInv'
<1> DEFINE after == sync[u].after
           page == GetMessagesSince(c, after[c])
           reached == [after |-> after, todo |-> sync[u].todo \ {c},
                       deltas |-> sync[u].deltas \cup page]
<1>1. /\ StoreInv /\ ChatTypeOK /\ SyncTypeOK /\ Shape
      /\ \A v \in Readers : GapsHaveCause(v) /\ SyncInv(v)
  BY DEF ChatInv, StoreInv, ChatTypeOK
<1>2. /\ sync[u] # NoSync
      /\ UNCHANGED <<messages, published, accepted, log, held, failures>>
  BY DEF SyncChannel, logVars
<1>3. /\ sync[u] \in SyncState
      /\ after \in [Channels -> IDs \cup {0}] /\ sync[u].deltas \subseteq messages
      /\ sync[u].todo \subseteq Channels
  BY <1>1, <1>2 DEF SyncTypeOK, SyncState
<1>4. /\ sync' = [v \in Readers |-> sync'[v]] /\ sync'[u] = reached
      /\ \A v \in Readers : v # u => sync'[v] = sync[v]
  BY <1>1, <1>3 DEF SyncChannel, Shape, SyncState
<1>5. after[c] \in Nat
  BY <1>3, SyncAssumption DEF IDs
<1>6. /\ page \subseteq messages
      /\ \A h \in page : h.conv = c /\ h.id > after[c]
      /\ \A h \in page, m \in messages :
            m.conv = c /\ m.id > after[c] /\ m.id < h.id => m \in page
  BY <1>1, <1>5, PageIsDense
<1> HIDE DEF page
<1>7. reached \in SyncState
  BY <1>3, <1>6 DEF SyncState
<1>8. SyncTypeOK'
  BY <1>1, <1>2, <1>4, <1>7 DEF SyncTypeOK, SyncState
<1>9. StoreInv'
  BY <1>1, <1>2, <1>4, <1>8, TableUnchanged DEF ChatTypeOK, Shape
<1>10. AfterHeld(u) /\ DeltasAbove(u) /\ PagesDense(u)
  BY <1>1, <1>2 DEF SyncInv
<1>11. AfterHeld(u)' /\ DeltasAbove(u)'
  <2>1. \A h \in sync[u].deltas \cup page : h.id > after[h.conv]
    BY <1>6, <1>10 DEF DeltasAbove
  <2> QED
    BY <1>2, <1>4, <1>10, <2>1 DEF AfterHeld, DeltasAbove
<1>12. PagesDense(u)'
  <2>1. SUFFICES ASSUME NEW h \in sync[u].deltas \cup page, NEW m \in messages,
                        m.conv = h.conv, m.id < h.id
                 PROVE  \/ m \in sync[u].deltas \cup page
                        \/ m.id <= after[h.conv]
                        \/ CommittedAfter(m, h)
    BY <1>2, <1>4 DEF PagesDense, CommittedAfter
  <2>2. CASE h \in sync[u].deltas
    BY <1>10, <2>1, <2>2 DEF PagesDense
  <2>3. CASE h \in page
    <3>1. m.id \in Nat
      BY <1>1, Stored
    <3> QED
      BY <1>5, <1>6, <2>1, <2>3, <3>1
  <2> QED
    BY <2>1, <2>2, <2>3
<1>13. ASSUME NEW v \in Readers
       PROVE  GapsHaveCause(v)' /\ SyncInv(v)'
  <2>1. CASE v = u
    BY <1>1, <1>2, <1>11, <1>12, <2>1, GapsUnchanged DEF SyncInv
  <2>2. CASE v # u
    BY <1>1, <1>2, <1>4, <2>2, ClientUnchanged
  <2> QED
    BY <2>1, <2>2
<1> QED
  BY <1>9, <1>13 DEF ChatInv

(* SyncFails: the client keeps what it has and forgets the request.        *)
LEMMA SyncFailsStep ==
    ASSUME ChatInv, NEW u \in Readers, SyncFails(u), UNCHANGED <<since, wire, pushed>>
    PROVE  ChatInv'
<1>1. /\ StoreInv /\ ChatTypeOK /\ SyncTypeOK /\ Shape
      /\ \A v \in Readers : GapsHaveCause(v) /\ SyncInv(v)
  BY DEF ChatInv, StoreInv, ChatTypeOK
<1>2. /\ sync' = [v \in Readers |-> sync'[v]] /\ sync'[u] = NoSync
      /\ \A v \in Readers : v # u => sync'[v] = sync[v]
      /\ UNCHANGED <<messages, published, accepted, log, held>>
  BY <1>1 DEF SyncFails, Shape, logVars
<1>3. SyncTypeOK'
  <2>1. failures' \in [Readers -> 0..MaxFailures]
    <3>1. failures[u] + 1 \in 0..MaxFailures
      BY <1>1, SyncAssumption DEF SyncFails, SyncTypeOK
    <3> QED
      BY <1>1, <3>1 DEF SyncFails, SyncTypeOK
  <2> QED
    BY <1>1, <1>2, <2>1 DEF SyncTypeOK, SyncState
<1>4. StoreInv'
  BY <1>1, <1>2, <1>3, TableUnchanged DEF ChatTypeOK, Shape
<1>5. ASSUME NEW v \in Readers
      PROVE  GapsHaveCause(v)' /\ SyncInv(v)'
  <2>1. CASE v = u
    BY <1>1, <1>2, <2>1, GapsUnchanged DEF SyncInv
  <2>2. CASE v # u
    BY <1>1, <1>2, <2>2, ClientUnchanged
  <2> QED
    BY <2>1, <2>2
<1> QED
  BY <1>4, <1>5 DEF ChatInv

(* SyncReturns: what the client lacks below what it collected was below    *)
(* its cursor before, or was committed later.                              *)
LEMMA SyncReturnsStep ==
    ASSUME ChatInv, NEW u \in Readers, SyncReturns(u), UNCHANGED <<since, wire, pushed>>
    PROVE  ChatInv'
<1> DEFINE deltas == sync[u].deltas
<1>1. /\ StoreInv /\ ChatTypeOK /\ SyncTypeOK /\ Shape /\ Table
      /\ \A v \in Readers : GapsHaveCause(v) /\ SyncInv(v)
  BY DEF ChatInv, StoreInv, ChatTypeOK
<1>2. /\ sync[u] # NoSync /\ held[u] \subseteq messages /\ deltas \subseteq messages
      /\ sync[u].after \in [Channels -> IDs \cup {0}]
  BY <1>1 DEF SyncReturns, SyncTypeOK, SyncState
<1>3. /\ sync' = [v \in Readers |-> sync'[v]] /\ sync'[u] = NoSync
      /\ held'[u] = held[u] \cup deltas
      /\ \A v \in Readers : v # u => sync'[v] = sync[v] /\ held'[v] = held[v]
      /\ held' \in [Readers -> SUBSET messages]
      /\ UNCHANGED <<messages, published, accepted, log, failures>>
  BY <1>1, <1>2 DEF SyncReturns, Shape, SyncTypeOK, logVars
<1>4. AfterHeld(u) /\ PagesDense(u)
  BY <1>1, <1>2 DEF SyncInv
<1> HIDE DEF deltas
<1>5. SyncTypeOK'
  BY <1>1, <1>3 DEF SyncTypeOK, SyncState
<1>6. \A v \in Readers : pushed'[v] \subseteq held'[v]
  BY <1>1, <1>3 DEF ChatTypeOK
<1>7. StoreInv'
  BY <1>1, <1>3, <1>5, <1>6, TableUnchanged DEF ChatTypeOK, Shape
<1>8. GapsHaveCause(u)'
  <2>1. SUFFICES ASSUME NEW m \in messages, NEW x \in held'[u], m \notin held'[u],
                        m.conv = x.conv, m.id < x.id
                 PROVE  Cause(u, m)'
    BY <1>3 DEF GapsHaveCause
  <2>2. Cause(u, m) => Cause(u, m)'
    BY <1>3 DEF Cause, CommittedAfter
  <2>3. CASE x \in held[u]
    BY <1>1, <1>3, <2>1, <2>2, <2>3 DEF GapsHaveCause
  <2>4. CASE x \in deltas
    <3>1. \/ m.id <= sync[u].after[m.conv] \/ CommittedAfter(m, x)
      BY <1>3, <1>4, <2>1, <2>4 DEF PagesDense, deltas
    <3>2. m.id \in Nat \ {0} /\ x.id \in Nat /\ m.conv \in Channels
      BY <1>1, <1>2, <2>4, Stored
    <3>3. CASE CommittedAfter(m, x)
      <4>1. CommittedAfter(m, x)' /\ x.id > m.id
        BY <1>3, <2>1, <3>2, <3>3 DEF CommittedAfter
      <4> QED
        BY <2>1, <4>1 DEF Cause
    <3>4. CASE m.id <= sync[u].after[m.conv]
      <4>1. sync[u].after[m.conv] # 0
        BY <3>2, <3>4
      <4>2. PICK h \in held[u] : h.conv = m.conv /\ h.id = sync[u].after[m.conv]
        BY <1>4, <3>2, <4>1 DEF AfterHeld
      <4>3. h.id \in Nat /\ h # m
        BY <1>1, <1>2, <1>3, <2>1, <4>2, Stored
      <4>4. m.id < h.id
        BY <1>1, <1>2, <3>2, <3>4, <4>2, <4>3 DEF Table
      <4> QED
        BY <1>1, <1>3, <2>1, <2>2, <4>2, <4>4 DEF GapsHaveCause
    <3> QED
      BY <3>1, <3>3, <3>4
  <2> QED
    BY <1>3, <2>1, <2>3, <2>4
<1>9. ASSUME NEW v \in Readers
      PROVE  GapsHaveCause(v)' /\ SyncInv(v)'
  <2>1. CASE v = u
    BY <1>3, <1>8, <2>1 DEF SyncInv
  <2>2. CASE v # u
    BY <1>1, <1>3, <2>2, ClientUnchanged
  <2> QED
    BY <2>1, <2>2
<1> QED
  BY <1>7, <1>9 DEF ChatInv

(* Learn: a message that was new to the client is its own cause.           *)
LEMMA LearnStep ==
    ASSUME ChatInv, NEW u \in Readers, NEW m \in messages, Learn(u, m),
           since' \in [Sessions -> [Channels -> -1..Len(published)]],
           wire' \in [Sessions -> Seq(DOMAIN published)]
    PROVE  ChatInv'
<1>1. /\ StoreInv /\ ChatTypeOK /\ SyncTypeOK /\ Shape
      /\ \A v \in Readers : GapsHaveCause(v) /\ SyncInv(v)
  BY DEF ChatInv, StoreInv, ChatTypeOK
<1>2. /\ held' \in [Readers -> SUBSET messages]
      /\ pushed' \in [Readers -> SUBSET messages]
      /\ held'[u] = held[u] \cup {m} /\ pushed'[u] = pushed[u] \cup ({m} \ held[u])
      /\ \A v \in Readers : v # u => held'[v] = held[v] /\ pushed'[v] = pushed[v]
      /\ UNCHANGED <<messages, published, accepted, log, sync, failures>>
  BY <1>1 DEF Learn, SyncTypeOK, Shape, logVars
<1>3. SyncTypeOK'
  BY <1>1, <1>2 DEF SyncTypeOK, SyncState
<1>4. \A v \in Readers : pushed'[v] \subseteq held'[v]
  BY <1>1, <1>2 DEF ChatTypeOK
<1>5. StoreInv'
  BY <1>1, <1>2, <1>3, <1>4, TableUnchanged DEF Shape
<1>6. GapsHaveCause(u)'
  <2>1. SUFFICES ASSUME NEW a \in messages, NEW x \in held'[u], a \notin held'[u],
                        a.conv = x.conv, a.id < x.id
                 PROVE  Cause(u, a)'
    BY <1>2 DEF GapsHaveCause
  <2>2. Cause(u, a) => Cause(u, a)'
    BY <1>2 DEF Cause, CommittedAfter
  <2>3. CASE x \in held[u]
    BY <1>1, <1>2, <2>1, <2>2, <2>3 DEF GapsHaveCause
  <2>4. CASE x = m /\ x \notin held[u]
    <3>1. x \in pushed'[u] /\ x.id > a.id
      BY <1>1, <1>2, <2>1, <2>4, Stored
    <3> QED
      BY <2>1, <3>1 DEF Cause
  <2> QED
    BY <1>2, <2>1, <2>3, <2>4
<1>7. SyncInv(u)'
  BY <1>1, <1>2 DEF SyncInv, AfterHeld, DeltasAbove, PagesDense, CommittedAfter
<1>8. ASSUME NEW v \in Readers
      PROVE  GapsHaveCause(v)' /\ SyncInv(v)'
  <2>1. CASE v = u
    BY <1>6, <1>7, <2>1
  <2>2. CASE v # u
    BY <1>1, <1>2, <2>2, ClientUnchanged
  <2> QED
    BY <2>1, <2>2
<1> QED
  BY <1>5, <1>8 DEF ChatInv

(* A subscription of a session concerns no store.                          *)
LEMMA ConnectStep ==
    ASSUME ChatInv, NEW s \in Sessions, NEW c \in Channels, Connect(s, c)
    PROVE  ChatInv'
<1>1. /\ StoreInv /\ ChatTypeOK /\ SyncTypeOK /\ Shape
      /\ \A v \in Readers : GapsHaveCause(v) /\ SyncInv(v)
  BY DEF ChatInv, StoreInv, ChatTypeOK
<1>2. /\ since' = [since EXCEPT ![s][c] = Len(published)]
      /\ UNCHANGED <<wire, pushed, held, sync, failures>>
      /\ UNCHANGED <<messages, published, accepted, log>>
  BY DEF Connect, Live!Join, vars, logVars
<1>3. Len(published) \in -1..Len(published)
  BY <1>1, LenProperties DEF Shape
<1>4. since' \in [Sessions -> [Channels -> -1..Len(published)]]
  BY <1>1, <1>2, <1>3 DEF ChatTypeOK
<1>5. SyncTypeOK'
  BY <1>1, <1>2 DEF SyncTypeOK, SyncState
<1>6. StoreInv'
  BY <1>1, <1>2, <1>4, <1>5, TableUnchanged DEF ChatTypeOK, Shape
<1>7. \A v \in Readers : GapsHaveCause(v)' /\ SyncInv(v)'
  BY <1>1, <1>2, ClientUnchanged
<1> QED
  BY <1>6, <1>7 DEF ChatInv

(* Every step preserves the invariant.                                     *)
LEMMA StepChat ==
    ASSUME ChatInv, [ChatNext]_chatVars
    PROVE  ChatInv'
<1>1. /\ StoreInv /\ ChatTypeOK /\ SyncTypeOK /\ Shape
      /\ \A v \in Readers : GapsHaveCause(v) /\ SyncInv(v)
  BY DEF ChatInv, StoreInv, ChatTypeOK
<1>2. CASE UNCHANGED chatVars
  <2>1. UNCHANGED <<messages, published, accepted, log, held, sync, failures,
                    since, wire, pushed>>
    BY <1>2 DEF chatVars, vars, logVars
  <2>2. SyncTypeOK'
    BY <1>1, <2>1 DEF SyncTypeOK, SyncState
  <2>3. StoreInv'
    BY <1>1, <2>1, <2>2, TableUnchanged DEF ChatTypeOK, Shape
  <2>4. \A v \in Readers : GapsHaveCause(v)' /\ SyncInv(v)'
    BY <1>1, <2>1, ClientUnchanged
  <2> QED
    BY <2>3, <2>4 DEF ChatInv
<1>3. CASE SenderStep /\ UNCHANGED <<since, wire, pushed>>
  <2>1. PICK m \in Message : Commit(m) \/ Announce(m)
    BY <1>1, <1>3, SenderSteps
  <2>2. CASE Commit(m)
    BY <1>1, <2>2, CommitStore, CommitClient DEF ChatInv
  <2>3. CASE Announce(m)
    BY <2>3, AnnounceStep
  <2> QED
    BY <2>1, <2>2, <2>3
<1>4. ASSUME NEW u \in Readers, SyncStep(u) \/ SyncFails(u),
             UNCHANGED <<since, wire, pushed>>
      PROVE  ChatInv'
  BY <1>4, AskStep, SyncChannelStep, SyncFailsStep, SyncReturnsStep DEF SyncStep
<1>5. ASSUME NEW s \in Sessions, NEW c \in Channels, Connect(s, c)
      PROVE  ChatInv'
  BY <1>5, ConnectStep
<1>6. ASSUME NEW s \in Sessions, NEW i \in DOMAIN published, Receive(s, i)
      PROVE  ChatInv'
  <2>1. published[i] \in messages /\ UserID[s] \in Readers
    BY <1>1, ChatAssumption, ElementOfSeq, LenProperties DEF Shape
  <2>2. since' \in [Sessions -> [Channels -> -1..Len(published)]]
    BY <1>1, <1>6 DEF Receive, Live!Show, ChatTypeOK
  <2>3. wire' \in [Sessions -> Seq(DOMAIN published)]
    <3>1. wire' = [wire EXCEPT ![s] = Append(wire[s], i)]
      BY <1>6 DEF Receive, Live!Show
    <3>2. Append(wire[s], i) \in Seq(DOMAIN published)
      BY <1>1, <1>6, AppendProperties DEF ChatTypeOK
    <3> QED
      BY <1>1, <3>1, <3>2 DEF ChatTypeOK
  <2> QED
    BY <1>6, <2>1, <2>2, <2>3, LearnStep DEF Receive
<1>7. ASSUME NEW u \in Readers, NEW m \in accepted, ReadAccepted(u, m)
      PROVE  ChatInv'
  <2>1. m \in messages
    BY <1>1 DEF Shape
  <2> QED
    BY <1>1, <1>7, <2>1, LearnStep DEF ReadAccepted, ChatTypeOK
<1> QED
  BY <1>2, <1>3, <1>4, <1>5, <1>6, <1>7 DEF ChatNext, SyncNext

-----------------------------------------------------------------------------
(* Theorems                                                                *)

(* Every variable keeps its type in every reachable state: what a client   *)
(* holds, has asked for or was shown is in the messages table.             *)
THEOREM ChatTypeCorrect == ChatSpec => []ChatTypeOK
<1>1. ChatInit => ChatInv
  BY InitChat
<1>2. ChatInv /\ [ChatNext]_chatVars => ChatInv'
  BY StepChat
<1>3. ChatInv => ChatTypeOK
  BY DEF ChatInv, StoreInv
<1> QED
  BY <1>1, <1>2, <1>3, PTL DEF ChatSpec

(* A message that the cursor has passed is below one that is held.         *)
LEMMA PassedBelowHeld ==
    ASSUME ChatInv, NEW u \in Readers, NEW c \in Channels,
           NEW m \in PassedOver(u, c)
    PROVE  m \in messages /\ m.conv = c /\ Cause(u, m)
<1>1. StoreInv /\ GapsHaveCause(u)
  BY DEF ChatInv
<1>2. m \in messages /\ m.conv = c /\ m \notin held[u] /\ m.id < Cursor(u, c)
  BY DEF PassedOver, In
<1>3. Cursor(u, c) # 0
  BY <1>1, <1>2, Stored
<1>4. PICK h \in held[u] : h.conv = c /\ h.id = Cursor(u, c)
  BY <1>1, <1>3, CursorIsHighest
<1> QED
  BY <1>1, <1>2, <1>4 DEF GapsHaveCause

(* A client's cursor passes over a message for two reasons only: one with  *)
(* a higher ID was committed first, or reached the client by its socket or *)
(* a 202.  Whatever the size of a page, the failures of syncs and the      *)
(* order in which the channels are read, delta-sync itself loses nothing.  *)
THEOREM LossesHaveCause == ChatSpec => []LossHasCause
<1>1. ChatInit => ChatInv
  BY InitChat
<1>2. ChatInv /\ [ChatNext]_chatVars => ChatInv'
  BY StepChat
<1>3. ChatInv => LossHasCause
  BY PassedBelowHeld DEF LossHasCause, Cause, In
<1> QED
  BY <1>1, <1>2, <1>3, PTL DEF ChatSpec

-----------------------------------------------------------------------------
(* Commits in the order of their IDs                                       *)

(* The history is sorted.                                                  *)
LogSorted == \A i, j \in DOMAIN log : i < j => log[i].id < log[j].id

(* A client that the cursor of a channel has cost a message has been       *)
(* pushed a later one of that channel.                                     *)
OnlyPushesCost ==
    \A u \in Readers, c \in Channels : \A m \in PassedOver(u, c) :
        \E h \in In(c, pushed[u]) : h.id > m.id

(* If the INSERTs commit in the order of their IDs, the history is sorted. *)
LEMMA StepSorted ==
    ASSUME ChatInv, LogSorted, [ChatNext /\ CommitsInOrder]_chatVars
    PROVE  LogSorted'
<1>1. StoreInv /\ log \in Seq(messages)
  BY DEF ChatInv, StoreInv, ChatTypeOK, SyncTypeOK
<1>2. CASE UNCHANGED log
  BY <1>2 DEF LogSorted
<1>3. ASSUME NEW m \in Message, Commit(m), CommitsInOrder
      PROVE  LogSorted'
  <2>1. /\ log' = Append(log, m) /\ m \in messages' /\ m \notin messages
        /\ messages \subseteq messages'
    BY <1>3 DEF Commit
  <2>2. \A x \in messages : x.id < m.id
    BY <1>3, <2>1 DEF CommitsInOrder
  <2>3. log \in Seq(messages')
    BY <1>1, <2>1, SeqMonotonic
  <2>4. /\ Len(log) \in Nat /\ DOMAIN log = 1..Len(log)
        /\ DOMAIN log' = 1..(Len(log) + 1)
        /\ \A i \in 1..Len(log) : log'[i] = log[i] /\ log[i] \in messages
        /\ log'[Len(log) + 1] = m
    BY <1>1, <2>1, <2>3, AppendProperties, LenProperties, ElementOfSeq
  <2> QED
    BY <2>2, <2>4 DEF LogSorted
<1>4. \/ UNCHANGED log
      \/ \E m \in Message : Commit(m) /\ CommitsInOrder
  <2>1. CASE UNCHANGED chatVars
    BY <2>1 DEF chatVars, vars, logVars
  <2>2. CASE SenderStep /\ UNCHANGED <<since, wire, pushed>> /\ CommitsInOrder
    BY <1>1, <2>2, SenderSteps DEF Announce
  <2>3. ASSUME NEW u \in Readers, SyncStep(u) \/ SyncFails(u)
        PROVE  UNCHANGED log
    BY <2>3 DEF SyncStep, Ask, SyncChannel, SyncReturns, SyncFails, logVars
  <2>4. ASSUME NEW s \in Sessions, NEW c \in Channels, Connect(s, c)
        PROVE  UNCHANGED log
    BY <2>4 DEF Connect, vars, logVars
  <2>5. ASSUME NEW u, NEW m, Learn(u, m)
        PROVE  UNCHANGED log
    BY <2>5 DEF Learn, logVars
  <2> QED
    BY <2>1, <2>2, <2>3, <2>4, <2>5 DEF ChatNext, SyncNext, Receive, ReadAccepted
<1> QED
  BY <1>2, <1>3, <1>4

(* In a sorted history a row committed later has the higher ID, which      *)
(* leaves pushes as the only cause.                                        *)
LEMMA SortedLeavesPushes == ChatInv /\ LogSorted => OnlyPushesCost
<1> SUFFICES ASSUME ChatInv, LogSorted, NEW u \in Readers, NEW c \in Channels,
                    NEW m \in PassedOver(u, c)
             PROVE  \E h \in In(c, pushed[u]) : h.id > m.id
  BY DEF OnlyPushesCost
<1>1. m \in messages /\ m.conv = c /\ Cause(u, m)
  BY PassedBelowHeld
<1>2. PICK h \in held[u] : /\ h.conv = m.conv /\ h.id > m.id
                           /\ h \in pushed[u] \/ CommittedAfter(m, h)
  BY <1>1 DEF Cause
<1>3. h \in messages
  BY DEF ChatInv, StoreInv, ChatTypeOK, SyncTypeOK
<1>4. m.id \in Nat /\ h.id \in Nat
  BY <1>1, <1>3, Stored DEF ChatInv
<1>5. ~CommittedAfter(m, h)
  BY <1>2, <1>4 DEF LogSorted, CommittedAfter
<1> QED
  BY <1>1, <1>2, <1>5 DEF In

(* If the INSERTs commit in the order of their IDs, a client that learns   *)
(* of messages by delta-sync alone is never passed over, and any other     *)
(* only where a push or a 202 moved its cursor.                            *)
THEOREM OrderedCommitsLoseToPushes == OrderedSpec => []OnlyPushesCost
<1> DEFINE I == ChatInv /\ LogSorted
<1>1. ChatInit => I
  BY InitChat DEF ChatInit, SyncInit, LogSorted
<1>2. I /\ [ChatNext /\ CommitsInOrder]_chatVars => I'
  BY StepChat, StepSorted
<1>3. I => OnlyPushesCost
  BY SortedLeavesPushes
<1> HIDE DEF I
<1> QED
  BY <1>1, <1>2, <1>3, PTL DEF OrderedSpec

-----------------------------------------------------------------------------
(* A loss is for good                                                      *)

(* What the cursor of client u has passed and no sync in progress has      *)
(* asked for.                                                              *)
Lost(u, c) == {m \in PassedOver(u, c) : sync[u] = NoSync \/ m.id <= sync[u].after[c]}

(* A lost message stays lost unless it is pushed to the client after all.  *)
LossIsForGood ==
    [][\A u \in Readers, c \in Channels : Lost(u, c) \subseteq Lost(u, c)' \cup pushed'[u]]_chatVars

(* What CursorIsHighest says of the cursor, in the state after a step.     *)
CursorBound ==
    \A u \in Readers, c \in Channels :
        /\ Cursor(u, c) \in Nat
        /\ \A h \in held[u] : h.conv = c => h.id <= Cursor(u, c)

(* The cursor of the next state is above everything held then.             *)
LEMMA CursorBoundNext == StoreInv' => CursorBound'
<1>1. StoreInv => CursorBound
  BY CursorIsHighest DEF CursorBound
<1> QED
  BY <1>1, PTL

(* The store of a client only grows, and its cursors with it.              *)
LEMMA CursorGrows ==
    ASSUME StoreInv, StoreInv', NEW u \in Readers, NEW c \in Channels,
           held[u] \subseteq held'[u]
    PROVE  Cursor(u, c) \in Nat /\ Cursor(u, c)' \in Nat /\ Cursor(u, c) <= Cursor(u, c)'
<1>1. /\ Cursor(u, c) \in Nat
      /\ Cursor(u, c) = 0 \/ \E h \in held[u] : h.conv = c /\ h.id = Cursor(u, c)
  BY CursorIsHighest
<1>2. /\ Cursor(u, c)' \in Nat
      /\ \A h \in held'[u] : h.conv = c => h.id <= Cursor(u, c)'
  BY CursorBoundNext DEF CursorBound
<1> QED
  BY <1>1, <1>2

(* A step keeps rows and what a client holds; a sync that starts asks      *)
(* beyond the cursor; and one that returns brings what was asked for.      *)
LEMMA StepLost ==
    ASSUME ChatInv, [ChatNext]_chatVars, NEW u \in Readers, NEW c \in Channels
    PROVE  Lost(u, c) \subseteq Lost(u, c)' \cup pushed'[u]
<1>1. StoreInv /\ StoreInv' /\ SyncInv(u) /\ ChatTypeOK /\ SyncTypeOK /\ Shape
  BY StepChat DEF ChatInv, StoreInv, ChatTypeOK
<1>2. SUFFICES ASSUME NEW m \in Lost(u, c), m \notin pushed'[u]
               PROVE  m \in Lost(u, c)'
  OBVIOUS
<1>3. /\ m \in messages /\ m.conv = c /\ m \notin held[u] /\ m.id < Cursor(u, c)
      /\ sync[u] = NoSync \/ m.id <= sync[u].after[c]
  BY DEF Lost, PassedOver, In
<1>4. m.id \in Nat
  BY <1>1, <1>3, Stored
<1>5. ASSUME messages \subseteq messages', held[u] \subseteq held'[u], m \notin held'[u],
             sync'[u] = NoSync \/ m.id <= sync'[u].after[c]
      PROVE  m \in Lost(u, c)'
  <2>1. m.id < Cursor(u, c)'
    BY <1>1, <1>3, <1>4, <1>5, CursorGrows
  <2> QED
    BY <1>3, <1>5, <2>1 DEF Lost, PassedOver, In
<1>6. CASE UNCHANGED chatVars
  BY <1>3, <1>5, <1>6 DEF chatVars, vars, logVars
<1>7. CASE SenderStep /\ UNCHANGED <<since, wire, pushed>>
  BY <1>1, <1>3, <1>5, <1>7, SenderSteps DEF Commit, Announce, readerVars
<1>8. ASSUME NEW v \in Readers, Ask(v)
      PROVE  m \in Lost(u, c)'
  <2>1. UNCHANGED <<messages, held>>
    BY <1>8 DEF Ask, logVars
  <2>2. v = u => sync'[u].after[c] = Cursor(u, c)
    BY <1>1, <1>8 DEF Ask, Shape
  <2>3. v # u => sync'[u] = sync[u]
    BY <1>1, <1>8 DEF Ask, Shape
  <2>4. Cursor(u, c) \in Nat
    BY <1>1, CursorIsHighest
  <2> QED
    BY <1>3, <1>4, <1>5, <2>1, <2>2, <2>3, <2>4
<1>9. ASSUME NEW v \in Readers, NEW d \in Channels, SyncChannel(v, d)
      PROVE  m \in Lost(u, c)'
  <2>1. UNCHANGED <<messages, held>> /\ (v # u => sync'[u] = sync[u])
    BY <1>1, <1>9 DEF SyncChannel, logVars, Shape
  <2>2. v = u => sync[u] # NoSync /\ sync'[u].after = sync[u].after
    <3>1. v = u => sync[u] # NoSync /\ sync[u] \in SyncState
      BY <1>1, <1>9 DEF SyncChannel, SyncTypeOK
    <3> QED
      BY <1>1, <1>9, <3>1 DEF SyncChannel, Shape, SyncState
  <2> QED
    BY <1>3, <1>5, <2>1, <2>2
<1>10. ASSUME NEW v \in Readers, SyncFails(v)
       PROVE  m \in Lost(u, c)'
  <2>1. UNCHANGED <<messages, held>> /\ sync'[u] \in {sync[u], NoSync}
    BY <1>1, <1>10 DEF SyncFails, logVars, Shape
  <2> QED
    BY <1>3, <1>5, <2>1
<1>11. ASSUME NEW v \in Readers, SyncReturns(v)
       PROVE  m \in Lost(u, c)'
  <2>1. CASE v # u
    <3>1. UNCHANGED messages /\ held'[u] = held[u] /\ sync'[u] = sync[u]
      BY <1>1, <1>11, <2>1 DEF SyncReturns, logVars, Shape, SyncTypeOK
    <3> QED
      BY <1>3, <1>5, <3>1
  <2>2. CASE v = u
    <3>1. /\ UNCHANGED messages /\ sync[u] # NoSync /\ sync'[u] = NoSync
          /\ held'[u] = held[u] \cup sync[u].deltas
      BY <1>1, <1>11, <2>2 DEF SyncReturns, logVars, Shape, SyncTypeOK
    <3>2. sync[u].after[c] \in Nat
      <4>1. sync[u].after[c] \in IDs \cup {0}
        BY <1>1, <3>1 DEF SyncTypeOK, SyncState
      <4> QED
        BY <4>1, SyncAssumption DEF IDs
    <3>3. m \notin sync[u].deltas
      BY <1>1, <1>3, <1>4, <3>1, <3>2 DEF SyncInv, DeltasAbove
    <3> QED
      BY <1>3, <1>5, <3>1, <3>3
  <2> QED
    BY <2>1, <2>2
<1>12. ASSUME NEW s \in Sessions, NEW d \in Channels, Connect(s, d)
       PROVE  m \in Lost(u, c)'
  BY <1>3, <1>5, <1>12 DEF Connect, vars, logVars
<1>13. ASSUME NEW v \in Readers, NEW x, Learn(v, x)
       PROVE  m \in Lost(u, c)'
  <2>1. UNCHANGED <<messages, sync>>
    BY <1>13 DEF Learn, logVars
  <2>2. /\ v # u => held'[u] = held[u]
        /\ v = u => held'[u] = held[u] \cup {x} /\ pushed'[u] = pushed[u] \cup ({x} \ held[u])
    BY <1>1, <1>13 DEF Learn, SyncTypeOK, Shape
  <2>3. held[u] \subseteq held'[u] /\ m \notin held'[u]
    BY <1>2, <1>3, <2>2
  <2> QED
    BY <1>3, <1>5, <2>1, <2>3
<1> QED
  <2>1. \A s \in Sessions : UserID[s] \in Readers
    BY ChatAssumption
  <2> QED
    BY <1>6, <1>7, <1>8, <1>9, <1>10, <1>11, <1>12, <1>13, <2>1
    DEF ChatNext, SyncNext, SyncStep, Receive, ReadAccepted

(* Once the cursor has passed a message and no sync asks for it, however   *)
(* long the client goes on syncing only a push can still bring it.         *)
THEOREM LossesAreForGood == ChatSpec => LossIsForGood
<1> DEFINE A == \A u \in Readers, c \in Channels :
                   Lost(u, c) \subseteq Lost(u, c)' \cup pushed'[u]
<1>1. ChatInit => ChatInv
  BY InitChat
<1>2. ChatInv /\ [ChatNext]_chatVars => ChatInv'
  BY StepChat
<1>3. ChatInv /\ [ChatNext]_chatVars => [A]_chatVars
  BY StepLost
<1> HIDE DEF A
<1>4. ChatSpec => [][A]_chatVars
  BY <1>1, <1>2, <1>3, PTL DEF ChatSpec
<1> QED
  BY <1>4 DEF LossIsForGood, A

-----------------------------------------------------------------------------
(* The size of an answer                                                   *)

(* A page has at most PageSize messages: all of it but its highest is      *)
(* below that one, and fewer than PageSize rows are.                       *)
LEMMA PageIsLimited ==
    ASSUME StoreInv, NEW c \in Channels, NEW after \in Nat
    PROVE  Cardinality(GetMessagesSince(c, after)) <= PageSize
<1> DEFINE page == GetMessagesSince(c, after)
           rows == {m \in In(c, messages) : m.id > after}
           below(m) == {x \in rows : x.id < m.id}
           ids == {m.id : m \in page}
<1>1. page = {m \in rows : Cardinality(below(m)) < PageSize}
  BY DEF GetMessagesSince
<1>2. rows \subseteq messages /\ IsFiniteSet(messages)
  BY DEF In, StoreInv, Table
<1>3. \A m \in rows : m.id \in Nat
  BY <1>2, Stored
<1>4. PageSize \in Nat \ {0}
  BY SyncAssumption
<1>5. CASE page = {}
  BY <1>4, <1>5, FS_EmptySet
<1>6. CASE page # {}
  <2>1. page \subseteq rows
    BY <1>1
  <2>2. ids \in SUBSET Nat /\ ids # {}
    <3> HIDE DEF page, rows
    <3> QED
      BY <1>3, <1>6, <2>1
  <2>3. PICK n \in Nat : \A m \in messages : m.id <= n
    BY DEF StoreInv, Table
  <2>4. \A x \in ids : x <= n
    <3> HIDE DEF page, rows
    <3> QED
      BY <1>2, <2>1, <2>3
  <2>5. PICK top \in page : \A x \in page : x.id <= top.id
    <3>1. Max(ids) \in ids /\ \A x \in ids : x <= Max(ids)
      <4> HIDE DEF ids
      <4> QED
        BY <2>2, <2>4, MaxExists
    <3> HIDE DEF page
    <3> QED
      BY <3>1
  <2>6. below(top) \in SUBSET messages /\ IsFiniteSet(below(top))
    <3>1. below(top) \in SUBSET messages
      BY <1>2
    <3> HIDE DEF below
    <3> QED
      BY <1>2, <3>1, FS_Subset
  <2>7. Cardinality(below(top)) < PageSize /\ Cardinality(below(top)) \in Nat
    <3>1. Cardinality(below(top)) < PageSize
      BY <1>1, <2>5
    <3> HIDE DEF below
    <3> QED
      BY <2>6, <3>1, FS_CardinalityType
  <2>8. page \in SUBSET (below(top) \cup {top})
    <3>1. \A x \in page : x \in rows /\ x \in messages
      BY <1>2, <2>1
    <3>2. \A x \in page : x.id = top.id => x = top
      BY <2>5, <3>1 DEF StoreInv, Table
    <3>3. \A x \in page : x.id < top.id \/ x.id = top.id
      <4> HIDE DEF page, rows
      <4> QED
        BY <1>3, <2>5, <3>1
    <3>4. \A x \in rows : x.id < top.id => x \in below(top)
      OBVIOUS
    <3> HIDE DEF page, rows, below
    <3> QED
      BY <3>1, <3>2, <3>3, <3>4
  <2> HIDE DEF page, below
  <2>9. /\ IsFiniteSet(below(top) \cup {top})
        /\ Cardinality(below(top) \cup {top}) <= Cardinality(below(top)) + 1
        /\ Cardinality(below(top) \cup {top}) \in Nat
    <3>1. /\ IsFiniteSet(below(top) \cup {top})
          /\ Cardinality(below(top) \cup {top}) =
               IF top \in below(top) THEN Cardinality(below(top))
                                     ELSE Cardinality(below(top)) + 1
      BY <2>6, FS_AddElement
    <3> QED
      BY <2>7, <3>1
  <2>10. IsFiniteSet(page) /\ Cardinality(page) <= Cardinality(below(top) \cup {top})
    BY <2>8, <2>9, FS_Subset
  <2>11. Cardinality(page) \in Nat
    BY <2>10, FS_CardinalityType
  <2>12. Cardinality(page) <= PageSize
    BY <1>4, <2>7, <2>9, <2>10, <2>11
  <2> QED
    BY <2>12 DEF page
<1> QED
  BY <1>5, <1>6

(* A sync has one page of the channels it has read, and nothing yet of     *)
(* those it has still to reach.                                            *)
AnswerInv ==
    \A u \in Readers, c \in Channels : sync[u] # NoSync =>
        /\ c \in sync[u].todo => In(c, sync[u].deltas) = {}
        /\ Cardinality(In(c, sync[u].deltas)) <= PageSize

(* SyncChannel adds one page to a channel that had none; no other step     *)
(* adds to an answer.                                                      *)
LEMMA StepAnswer ==
    ASSUME ChatInv, AnswerInv, [ChatNext]_chatVars
    PROVE  AnswerInv'
<1>1. StoreInv /\ ChatTypeOK /\ SyncTypeOK /\ Shape /\ PageSize \in Nat \ {0}
  BY SyncAssumption DEF ChatInv, StoreInv, ChatTypeOK
<1>2. ASSUME \A u \in Readers : sync'[u] \in {sync[u], NoSync}
      PROVE  AnswerInv'
  BY <1>2 DEF AnswerInv, In
<1>3. CASE UNCHANGED sync
  BY <1>2, <1>3
<1>4. ASSUME NEW v \in Readers, Ask(v)
      PROVE  AnswerInv'
  <2>1. \A u \in Readers : u = v \/ sync'[u] = sync[u]
    BY <1>1, <1>4 DEF Ask, Shape
  <2>2. sync'[v].deltas = {}
    BY <1>1, <1>4 DEF Ask, Shape
  <2>3. \A c \in Channels : In(c, {}) = {} /\ Cardinality({}) = 0
    BY FS_EmptySet DEF In
  <2>4. ASSUME NEW u \in Readers, NEW c \in Channels, sync'[u] # NoSync
        PROVE  /\ c \in sync'[u].todo => In(c, sync'[u].deltas) = {}
               /\ Cardinality(In(c, sync'[u].deltas)) <= PageSize
    <3>1. CASE u = v
      <4>1. In(c, sync'[u].deltas) = {} /\ Cardinality({}) = 0
        BY <2>2, <2>3, <3>1
      <4> QED
        BY <1>1, <4>1
    <3>2. CASE u # v
      BY <2>1, <2>4, <3>2 DEF AnswerInv
    <3> QED
      BY <3>1, <3>2
  <2> QED
    BY <2>4 DEF AnswerInv, In
<1>5. ASSUME NEW v \in Readers, NEW d \in Channels, SyncChannel(v, d)
      PROVE  AnswerInv'
  <2> DEFINE page == GetMessagesSince(d, sync[v].after[d])
  <2>1. /\ sync[v] # NoSync /\ sync[v] \in SyncState /\ d \in sync[v].todo
    BY <1>1, <1>5 DEF SyncChannel, SyncTypeOK
  <2>2. /\ \A u \in Readers : u = v \/ sync'[u] = sync[u]
        /\ sync'[v].todo = sync[v].todo \ {d}
        /\ sync'[v].deltas = sync[v].deltas \cup page
    BY <1>1, <1>5, <2>1 DEF SyncChannel, Shape, SyncState
  <2>3. sync[v].after[d] \in Nat
    BY <2>1, SyncAssumption DEF SyncState, IDs
  <2>4. (\A h \in page : h.conv = d) /\ Cardinality(page) <= PageSize
    BY <1>1, <2>3, PageIsDense, PageIsLimited
  <2>5. In(d, sync[v].deltas) = {}
    BY <2>1 DEF AnswerInv
  <2> HIDE DEF page
  <2>6. ASSUME NEW c \in Channels
        PROVE  /\ c \in sync'[v].todo => In(c, sync'[v].deltas) = {}
               /\ Cardinality(In(c, sync'[v].deltas)) <= PageSize
    <3>1. CASE c = d
      <4>1. In(c, sync[v].deltas \cup page) = page
        BY <2>4, <2>5, <3>1 DEF In
      <4> QED
        BY <2>2, <2>4, <3>1, <4>1
    <3>2. CASE c # d
      <4>1. In(c, sync[v].deltas \cup page) = In(c, sync[v].deltas)
        BY <2>4, <3>2 DEF In
      <4> QED
        BY <2>1, <2>2, <4>1 DEF AnswerInv
    <3> QED
      BY <3>1, <3>2
  <2>7. ASSUME NEW u \in Readers, NEW c \in Channels, sync'[u] # NoSync
        PROVE  /\ c \in sync'[u].todo => In(c, sync'[u].deltas) = {}
               /\ Cardinality(In(c, sync'[u].deltas)) <= PageSize
    <3>1. CASE u = v
      BY <2>6, <3>1
    <3>2. CASE u # v
      BY <2>2, <2>7, <3>2 DEF AnswerInv
    <3> QED
      BY <3>1, <3>2
  <2> QED
    BY <2>7 DEF AnswerInv, In
<1>6. ASSUME NEW v \in Readers, SyncFails(v) \/ SyncReturns(v)
      PROVE  AnswerInv'
  BY <1>1, <1>2, <1>6 DEF SyncFails, SyncReturns, Shape
<1>7. CASE UNCHANGED chatVars \/ SenderStep
  BY <1>3, <1>7 DEF chatVars, vars, SenderStep
<1>8. ASSUME NEW s \in Sessions, NEW c \in Channels, Connect(s, c)
      PROVE  AnswerInv'
  BY <1>3, <1>8 DEF Connect, vars
<1>9. ASSUME NEW v, NEW m, Learn(v, m)
      PROVE  AnswerInv'
  BY <1>3, <1>9 DEF Learn
<1> QED
  BY <1>4, <1>5, <1>6, <1>7, <1>8, <1>9
  DEF ChatNext, SyncNext, SyncStep, Receive, ReadAccepted

(* The answer to a sync is at most one page per channel, for every size of *)
(* the table and of the page.                                              *)
THEOREM AnswersAreLimited == ChatSpec => []OnePagePerChannel
<1> DEFINE I == ChatInv /\ AnswerInv
<1>1. ChatInit => I
  BY InitChat DEF ChatInit, SyncInit, AnswerInv
<1>2. I /\ [ChatNext]_chatVars => I'
  BY StepChat, StepAnswer
<1>3. I => OnePagePerChannel
  BY DEF AnswerInv, OnePagePerChannel
<1> HIDE DEF I
<1> QED
  BY <1>1, <1>2, <1>3, PTL DEF ChatSpec

-----------------------------------------------------------------------------
(* Cursors, and the two specifications that the composition rests on       *)

(* A client forgets nothing, so no sync asks for less than an earlier one. *)
CursorsOnlyAdvance ==
    [][\A u \in Readers : /\ held[u] \subseteq held'[u]
                          /\ \A c \in Channels : Cursor(u, c) <= Cursor(u, c)']_chatVars

(* No step takes a message from a client.                                  *)
LEMMA StepHeld ==
    ASSUME ChatInv, [ChatNext]_chatVars, NEW u \in Readers
    PROVE  held[u] \subseteq held'[u]
<1>1. held \in [Readers -> SUBSET messages]
  BY DEF ChatInv, StoreInv, ChatTypeOK, SyncTypeOK
<1>2. CASE UNCHANGED held
  BY <1>2
<1>3. ASSUME NEW v \in Readers, SyncReturns(v)
      PROVE  held[u] \subseteq held'[u]
  BY <1>1, <1>3 DEF SyncReturns
<1>4. ASSUME NEW v \in Readers, Ask(v) \/ (\E c \in Channels : SyncChannel(v, c)) \/ SyncFails(v)
      PROVE  UNCHANGED held
  BY <1>4 DEF Ask, SyncChannel, SyncFails
<1>5. ASSUME NEW v, NEW m, Learn(v, m)
      PROVE  held[u] \subseteq held'[u]
  BY <1>1, <1>5 DEF Learn
<1>6. ASSUME NEW s \in Sessions, NEW c \in Channels, Connect(s, c)
      PROVE  UNCHANGED held
  BY <1>6 DEF Connect, vars
<1>7. CASE UNCHANGED chatVars \/ SenderStep
  BY <1>2, <1>7 DEF chatVars, vars, SenderStep
<1> QED
  BY <1>2, <1>3, <1>4, <1>5, <1>6, <1>7
  DEF ChatNext, SyncNext, SyncStep, Receive, ReadAccepted

(* A client's stores and cursors only grow, whatever is pushed, answered   *)
(* out of order or fails.                                                  *)
THEOREM CursorsAdvance == ChatSpec => CursorsOnlyAdvance
<1> DEFINE A == \A u \in Readers : /\ held[u] \subseteq held'[u]
                                   /\ \A c \in Channels : Cursor(u, c) <= Cursor(u, c)'
<1>1. ChatInit => ChatInv
  BY InitChat
<1>2. ChatInv /\ [ChatNext]_chatVars => ChatInv'
  BY StepChat
<1>3. ChatInv /\ [ChatNext]_chatVars => [A]_chatVars
  <2> SUFFICES ASSUME ChatInv, [ChatNext]_chatVars, NEW u \in Readers
               PROVE  /\ held[u] \subseteq held'[u]
                      /\ \A c \in Channels : Cursor(u, c) <= Cursor(u, c)'
    OBVIOUS
  <2>1. StoreInv /\ StoreInv'
    BY StepChat DEF ChatInv
  <2>2. held[u] \subseteq held'[u]
    BY StepHeld
  <2> QED
    BY <2>1, <2>2, CursorGrows
<1> HIDE DEF A
<1>4. ChatSpec => [][A]_chatVars
  BY <1>1, <1>2, <1>3, PTL DEF ChatSpec
<1> QED
  BY <1>4 DEF CursorsOnlyAdvance, A

(* A step of the composition is a step of MessageLog and one of            *)
(* BestEffort, or leaves that part alone.                                  *)
LEMMA StepOfBoth ==
    ASSUME [ChatNext]_chatVars
    PROVE  /\ [Next]_<<messages, published, accepted>>
           /\ [Live!Next]_<<published, since, wire>>
<1> USE DEF logVars
<1>1. CASE UNCHANGED chatVars
  BY <1>1 DEF chatVars, vars
<1>2. CASE SenderStep /\ UNCHANGED <<since, wire, pushed>>
  <2>1. Next
    BY <1>2 DEF SenderStep
  <2>2. PICK m \in Message : Store(m) \/ Broadcast(m)
    BY <2>1 DEF Next
  <2>3. UNCHANGED published \/ Live!Publish(m)
    BY <1>2, <2>2 DEF Store, Broadcast, Live!Publish
  <2> QED
    BY <1>2, <2>1, <2>3 DEF Live!Next
<1>3. ASSUME NEW u \in Readers, SyncStep(u) \/ SyncFails(u), UNCHANGED <<since, wire, pushed>>
      PROVE  UNCHANGED <<messages, published, accepted, since, wire>>
  BY <1>3 DEF SyncStep, Ask, SyncChannel, SyncReturns, SyncFails
<1>4. ASSUME NEW s \in Sessions, NEW c \in Channels, Connect(s, c)
      PROVE  Live!Next /\ UNCHANGED <<messages, published, accepted>>
  BY <1>4 DEF Connect, vars, Live!Next
<1>5. ASSUME NEW s \in Sessions, NEW i \in DOMAIN published, Receive(s, i)
      PROVE  Live!Next /\ UNCHANGED <<messages, published, accepted>>
  BY <1>5 DEF Receive, Learn, Live!Next
<1>6. ASSUME NEW u \in Readers, NEW m \in accepted, ReadAccepted(u, m)
      PROVE  UNCHANGED <<messages, published, accepted, since, wire>>
  BY <1>6 DEF ReadAccepted, Learn
<1> QED
  BY <1>1, <1>2, <1>3, <1>4, <1>5, <1>6 DEF ChatNext, SyncNext

(* The composition implements both specifications it is made of, with one  *)
(* published for both: readers, cursors and syncs disturb neither, and so  *)
(* what MessageService and LivePush are proved to implement is what the    *)
(* clients of ChatSystem see.                                              *)
THEOREM ComposesBoth == ChatSpec => Spec /\ Live!Spec
<1>1. ChatInit => Init /\ Live!Init
  BY DEF ChatInit, SyncInit
<1>2. [ChatNext]_chatVars => /\ [Next]_<<messages, published, accepted>>
                             /\ [Live!Next]_<<published, since, wire>>
  BY StepOfBoth
<1> QED
  BY <1>1, <1>2, PTL DEF ChatSpec, Spec, Live!Spec

=============================================================================

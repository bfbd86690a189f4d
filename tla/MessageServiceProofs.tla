------------------------ MODULE MessageServiceProofs ------------------------
(***************************************************************************)
(* Proofs about the message pipeline for every set of processes, requests, *)
(* users, channels and keys, and for every assignment of keys to requests. *)
(***************************************************************************)
EXTENDS MessageService, FiniteSetTheorems, TLAPS

(* What Redis broadcasts is in MySQL: a client never sees live a message   *)
(* that delta-sync would not return.                                       *)
PersistBeforePublish ==
    \A i \in DOMAIN published : published[i] \in messages

(* A message is broadcast at most once per attempt of its one PUBLISH: the *)
(* first and the retries that go-redis makes of it.                        *)
OnceAnAttempt ==
    \A m \in Message : Cardinality(Log!Copies(m)) <= MaxRetries + 1

(* A request that has its ID makes a well-formed message.                  *)
LEMMA MsgType ==
    ASSUME TypeOK, NEW r \in Requests, id[r] # 0
    PROVE  Msg(r) \in Message
  BY PostAssumption, MessageBounds DEF TypeOK, Msg, Conv, Sender, Message, IDs

-----------------------------------------------------------------------------
(* Types, and what the step of a request says about its key and its ID     *)

StepInv ==
    \A r \in Requests :
        /\ pc[r] = "lock" => Key(r) \in Keys
        /\ pc[r] \in {"insert", "publish"} => id[r] # 0
        /\ pc[r] \in {"new", "lock", "member", "id"} => id[r] = 0

(* The initial values have their types.                                    *)
LEMMA InitTypes == Init => TypeOK /\ StepInv
  BY PostAssumption, MessageBounds
  DEF Init, TypeOK, StepInv, Oracle!Init, Steps, Replies

(* go-redis gives up after MaxRetries retries.                             *)
LEMMA ResendTypes ==
    ASSUME TypeOK, NEW r \in Requests, Resend(r)
    PROVE  /\ retries' \in [Requests -> 0..MaxRetries]
           /\ retries'[r] = retries[r] + 1
           /\ \A s \in Requests \ {r} : retries'[s] = retries[s]
  BY MessageBounds DEF TypeOK, Resend

(* No step leaves the types, and only AssignID gives a request its ID.     *)
LEMMA StepTypes ==
    ASSUME TypeOK, StepInv, [Next]_vars
    PROVE  TypeOK' /\ StepInv'
<1> USE PostAssumption, MessageBounds
<1>1. CASE UNCHANGED vars
  BY <1>1 DEF vars, reqVars, redisVars, TypeOK, StepInv
<1>2. ASSUME NEW r \in Requests, Receive(r) \/ ReceiveInvalid(r)
      PROVE  TypeOK' /\ StepInv'
  <2>1. Key(r) \in Keys \cup {NoKey}
    BY DEF Key
  <2> QED
    BY <1>2, <2>1 DEF Receive, ReceiveInvalid, Goto, Reply, TypeOK, StepInv,
                      Steps, Replies, redisVars, Arrives
<1>3. ASSUME NEW r \in Requests,
             LockAcquired(r) \/ LockHeld(r) \/ LockResent(r) \/ LockFails(r)
      PROVE  TypeOK' /\ StepInv'
  <2>1. Key(r) \in Keys
    BY <1>3 DEF LockAcquired, LockHeld, LockResent, LockFails, Runs, StepInv, AtLock,
                KeyFree, StatusOf
  <2>2. CASE LockAcquired(r)
    <3>1. epoch[Key(r)] \in -1..MaxExpiries
      BY <2>1 DEF TypeOK
    <3>2. window' \in [Requests -> -1..MaxExpiries]
      BY <2>2, <3>1 DEF LockAcquired, TypeOK, AtLock, KeyFree
    <3> QED
      BY <2>1, <2>2, <3>2 DEF LockAcquired, Runs, Goto, TypeOK, StepInv, Steps,
                              AtLock, KeyFree
  <2>3. CASE LockHeld(r)
    BY <2>3 DEF LockHeld, Runs, Reply, TypeOK, StepInv, Steps, Replies,
                redisVars, AtLock, KeyFree, StatusOf
  <2>4. CASE LockFails(r)
    BY <2>1, <2>4 DEF LockFails, Runs, Reply, TypeOK, StepInv, Steps, Replies,
                      AtLock, StatusOf
  <2>5. CASE LockResent(r)
    BY <2>1, <2>5, ResendTypes DEF LockResent, Resend, Runs, TypeOK, StepInv, AtLock
  <2> QED
    BY <1>3, <2>2, <2>3, <2>4, <2>5
<1>4. ASSUME NEW r \in Requests,
             MemberFound(r) \/ MemberMissing(r) \/ MemberFails(r)
      PROVE  TypeOK' /\ StepInv'
  BY <1>4 DEF MemberFound, MemberMissing, MemberFails, Runs, Goto, Reply,
              TypeOK, StepInv, Steps, Replies, redisVars, AtMember, StatusOf
<1>5. ASSUME NEW r \in Requests, AssignID(r)
      PROVE  TypeOK' /\ StepInv'
  <2>1. PICK i \in IDs : Oracle!Issue(at[r], i) /\ id' = [id EXCEPT ![r] = i]
    BY <1>5 DEF AssignID, Draw
  <2>2. issued' \in [Nodes -> Seq(IDs)]
    BY <2>1 DEF Oracle!Issue, TypeOK
  <2> QED
    BY <1>5, <2>1, <2>2 DEF AssignID, Runs, Goto, TypeOK, StepInv, Steps,
                            Replies, redisVars, IDs, Draw
<1>6. ASSUME NEW r \in Requests, Insert(r) \/ InsertFails(r)
      PROVE  TypeOK' /\ StepInv'
  <2>1. Msg(r) \in Message
    BY <1>6, MsgType DEF Insert, InsertFails, Runs, StepInv, AtInsert, StatusOf
  <2> QED
    BY <1>6, <2>1 DEF Insert, InsertFails, Runs, Goto, Reply, TypeOK, StepInv,
                      Steps, Replies, redisVars, AtInsert, StatusOf
<1>7. ASSUME NEW r \in Requests, Publish(r) \/ PublishResent(r) \/ PublishFails(r)
      PROVE  TypeOK' /\ StepInv'
  <2>1. Msg(r) \in Message
    BY <1>7, MsgType DEF Publish, PublishResent, PublishFails, Runs, StepInv, AtPublish,
                         MaybePublished, StatusOf
  <2>2. published' \in Seq(Message)
    <3> DEFINE m == Msg(r)
    <3>1. published' = published \/ published' = Append(published, m)
      BY <1>7 DEF Publish, PublishResent, PublishFails, AtPublish, MaybePublished,
                  StatusOf
    <3>2. m \in Message
      BY <2>1
    <3>3. published \in Seq(Message)
      BY DEF TypeOK
    <3> HIDE DEF m
    <3> QED
      BY <3>1, <3>2, <3>3
  <2>3. CASE Publish(r) \/ PublishFails(r)
    BY <2>2, <2>3 DEF Publish, PublishFails, Runs, Reply, TypeOK, StepInv,
                      Steps, Replies, AtPublish, MaybePublished, StatusOf
  <2>4. CASE PublishResent(r)
    BY <2>2, <2>4, ResendTypes DEF PublishResent, Resend, TypeOK, StepInv, AtPublish,
                                   MaybePublished
  <2> QED
    BY <1>7, <2>3, <2>4
<1>8. ASSUME NEW c \in Channels, NEW u \in Users,
             AddMember(c, u) \/ RemoveMember(c, u)
      PROVE  TypeOK' /\ StepInv'
  BY <1>8 DEF AddMember, RemoveMember, TypeOK, StepInv, reqVars, redisVars, Row
<1>9. ASSUME NEW k \in Keys, ExpireLock(k)
      PROVE  TypeOK' /\ StepInv'
  BY <1>9 DEF ExpireLock, TypeOK, StepInv, reqVars
<1>10. ASSUME NEW n \in Nodes, Shutdown(n) \/ Start(n)
       PROVE  TypeOK' /\ StepInv'
  BY <1>10 DEF Shutdown, Start, TypeOK, StepInv, reqVars, redisVars
<1>11. ASSUME NEW n \in Nodes, Exit(n) \/ Crash(n)
       PROVE  TypeOK' /\ StepInv'
  <2>1. /\ node' = [node EXCEPT ![n] = "down"]
        /\ pc' = [r \in Requests |-> IF r \in InFlight(n) THEN "done" ELSE pc[r]]
        /\ reply' = [r \in Requests |-> IF r \in InFlight(n) THEN "cut" ELSE reply[r]]
        /\ UNCHANGED <<redisVars, at, id, retries, window, vouched, members, messages,
                       issued>>
    BY <1>11 DEF Exit, Crash, Halt
  <2> QED
    BY <2>1 DEF TypeOK, StepInv, Steps, Replies, redisVars
<1> QED
  BY <1>1, <1>2, <1>3, <1>4, <1>5, <1>6, <1>7, <1>8, <1>9, <1>10, <1>11
  DEF Next, OrderlyNext, Handle

(* Every variable keeps its type in every reachable state.                 *)
THEOREM TypeCorrect == Spec => []TypeOK
<1>1. Init => TypeOK /\ StepInv
  BY InitTypes
<1>2. (TypeOK /\ StepInv) /\ [Next]_vars => (TypeOK /\ StepInv)'
  BY StepTypes
<1> QED
  BY <1>1, <1>2, PTL DEF Spec

-----------------------------------------------------------------------------
(* At most one message per idempotency key and lifetime of the key         *)

(* No two requests acquired a key in one lifetime of it; a key acquired in *)
(* its present lifetime is still set in Redis; and a request with a key    *)
(* got past the guard only by acquiring it.                                *)
WindowInv ==
    /\ \A r, s \in Requests :
          r # s /\ Key(r) = Key(s) /\ window[r] >= 0 /\ window[s] >= 0
              => window[r] # window[s]
    /\ \A r \in Requests : window[r] >= 0 =>
          /\ Key(r) \in Keys
          /\ window[r] <= epoch[Key(r)]
          /\ window[r] = epoch[Key(r)] => Key(r) \in locks
    /\ \A r \in Requests :
          /\ Key(r) # NoKey
          /\ pc[r] \in {"member", "id", "insert", "publish"} \/ id[r] # 0
          => window[r] >= 0

(* No step breaks the window invariant.                                    *)
LEMMA StepWindow ==
    ASSUME TypeOK, StepInv, WindowInv, [Next]_vars
    PROVE  WindowInv'
<1> USE MessageBounds
<1>1. CASE UNCHANGED vars
  BY <1>1 DEF vars, reqVars, redisVars, WindowInv
<1>2. ASSUME NEW r \in Requests, LockAcquired(r)
      PROVE  WindowInv'
  <2>1. Key(r) \in Keys /\ epoch[Key(r)] \in Nat /\ Key(r) \notin locks
    BY <1>2 DEF LockAcquired, Runs, StepInv, TypeOK, AtLock, KeyFree
  <2>2. \A s \in Requests : Key(s) = Key(r) /\ window[s] >= 0
                               => window[s] # epoch[Key(r)]
    BY <2>1 DEF WindowInv
  <2>3. /\ window' = [window EXCEPT ![r] = epoch[Key(r)]]
        /\ locks' = locks \cup {Key(r)}
        /\ pc' = [pc EXCEPT ![r] = "member"]
        /\ UNCHANGED <<epoch, id>>
    BY <1>2 DEF LockAcquired, Goto, AtLock, KeyFree
  <2>4. window \in [Requests -> -1..MaxExpiries] /\ pc \in [Requests -> Steps]
    BY DEF TypeOK
  <2> QED
    BY <2>1, <2>2, <2>3, <2>4 DEF WindowInv
<1>3. ASSUME NEW k \in Keys, ExpireLock(k)
      PROVE  WindowInv'
  <2>1. \A r \in Requests : window[r] >= 0 => window[r] \in Nat
    BY DEF TypeOK
  <2>2. epoch \in [Keys -> 0..MaxExpiries]
    BY DEF TypeOK
  <2> QED
    BY <1>3, <2>1, <2>2 DEF ExpireLock, WindowInv, reqVars
<1>4. ASSUME NEW r \in Requests,
             \/ Receive(r) \/ ReceiveInvalid(r)
             \/ LockHeld(r) \/ LockResent(r) \/ LockFails(r)
             \/ MemberFound(r) \/ MemberMissing(r) \/ MemberFails(r)
             \/ Insert(r) \/ InsertFails(r)
             \/ Publish(r) \/ PublishResent(r) \/ PublishFails(r)
      PROVE  WindowInv'
  <2>1. /\ UNCHANGED <<epoch, window, id>> /\ locks \subseteq locks'
        /\ \A s \in Requests \ {r} : pc'[s] = pc[s]
    BY <1>4 DEF LockResent, PublishResent, Resend, Receive, ReceiveInvalid, LockHeld, LockFails, MemberFound,
                MemberMissing, MemberFails, Insert, InsertFails, Publish,
                PublishFails, Goto, Reply, redisVars, TypeOK, Arrives, AtLock,
                KeyFree, StatusOf, AtMember, AtInsert, AtPublish, MaybePublished
  <2>2. \/ pc'[r] \in {"lock", "done"}
        \/ pc'[r] = "member" /\ Key(r) = NoKey
        \/ pc[r] \in {"member", "insert", "publish"}
    BY <1>4 DEF LockResent, PublishResent, Resend, Receive, ReceiveInvalid, LockHeld, LockFails, MemberFound,
                MemberMissing, MemberFails, Insert, InsertFails, Publish,
                PublishFails, Goto, Reply, Runs, TypeOK, Arrives, AtLock,
                KeyFree, StatusOf, AtMember, AtInsert, AtPublish, MaybePublished
  <2> QED
    BY <2>1, <2>2 DEF WindowInv
<1>5. ASSUME NEW r \in Requests, AssignID(r)
      PROVE  WindowInv'
  <2>1. /\ pc[r] = "id" /\ UNCHANGED <<epoch, window, locks>>
        /\ \A s \in Requests \ {r} : pc'[s] = pc[s] /\ id'[s] = id[s]
    BY <1>5 DEF AssignID, Runs, Goto, redisVars, TypeOK, Draw
  <2> QED
    BY <2>1 DEF WindowInv
<1>6. ASSUME NEW c \in Channels, NEW u \in Users,
             AddMember(c, u) \/ RemoveMember(c, u)
      PROVE  WindowInv'
  BY <1>6 DEF AddMember, RemoveMember, WindowInv, reqVars, redisVars, Row
<1>7. ASSUME NEW n \in Nodes, Shutdown(n) \/ Start(n)
      PROVE  WindowInv'
  BY <1>7 DEF Shutdown, Start, WindowInv, reqVars, redisVars
<1>8. ASSUME NEW n \in Nodes, Exit(n) \/ Crash(n)
      PROVE  WindowInv'
  <2>1. /\ UNCHANGED <<epoch, window, locks, id>>
        /\ \A s \in Requests : pc'[s] = pc[s] \/ pc'[s] = "done"
    BY <1>8 DEF Exit, Crash, Halt, redisVars
  <2> QED
    BY <2>1 DEF WindowInv
<1> QED
  BY <1>1, <1>2, <1>3, <1>4, <1>5, <1>6, <1>7, <1>8 DEF Next, OrderlyNext, Handle

(* Requests that share an idempotency key store at most one message in one *)
(* lifetime of the key, for any number of requests, processes and          *)
(* expiries, even if a handler outlives its key.                           *)
THEOREM Idempotent == Spec => []OncePerWindow
<1> DEFINE I == TypeOK /\ StepInv /\ WindowInv
<1>1. Init => I
  <2>1. Init => WindowInv
    BY DEF Init, WindowInv
  <2> QED
    BY <2>1, InitTypes
<1>2. I /\ [Next]_vars => I'
  BY StepTypes, StepWindow
<1>3. I => OncePerWindow
  <2> SUFFICES ASSUME TypeOK, WindowInv, NEW r \in Requests, NEW s \in Requests,
                      r # s, Key(r) = Key(s), Key(r) # NoKey, Stored(r), Stored(s)
               PROVE  window[r] # window[s]
    BY DEF OncePerWindow
  <2>1. \A m \in messages : m.id # 0
    BY MessageBounds DEF TypeOK, Message, IDs
  <2>2. id[r] # 0 /\ id[s] # 0
    BY <2>1 DEF Stored
  <2>3. window[r] >= 0 /\ window[s] >= 0
    BY <2>2 DEF WindowInv
  <2> QED
    BY <2>3 DEF WindowInv
<1> HIDE DEF I
<1> QED
  BY <1>1, <1>2, <1>3, PTL DEF Spec

-----------------------------------------------------------------------------
(* Senders are members                                                     *)

(* A request past the membership check is vouched for, and so is one       *)
(* before it whose sender is a member now.                                 *)
MemberInv ==
    \A r \in Requests :
        /\ pc[r] \in {"id", "insert", "publish"} \/ id[r] # 0 => r \in vouched
        /\ pc[r] \in {"lock", "member"} /\ IsMember(r) => r \in vouched

(* No step breaks the membership invariant.                                *)
LEMMA StepMember ==
    ASSUME TypeOK, StepInv, MemberInv, [Next]_vars
    PROVE  MemberInv'
<1> USE MessageBounds
<1>1. CASE UNCHANGED vars
  BY <1>1 DEF vars, reqVars, redisVars, MemberInv, IsMember, Row
<1>2. ASSUME NEW r \in Requests, Receive(r)
      PROVE  MemberInv'
  <2>1. /\ UNCHANGED <<id, members>> /\ pc[r] = "new"
        /\ vouched' = IF IsMember(r) THEN vouched \cup {r} ELSE vouched
        /\ pc'[r] \in {"lock", "member"}
        /\ \A s \in Requests \ {r} : pc'[s] = pc[s]
    BY <1>2 DEF Receive, Goto, TypeOK, Arrives, IsMember, Row
  <2>2. id[r] = 0
    BY <2>1 DEF StepInv
  <2> QED
    BY <2>1, <2>2 DEF MemberInv, IsMember, Row
<1>3. ASSUME NEW r \in Requests,
             \/ ReceiveInvalid(r)
             \/ LockAcquired(r) \/ LockHeld(r) \/ LockResent(r) \/ LockFails(r)
             \/ MemberMissing(r) \/ MemberFails(r) \/ Insert(r) \/ InsertFails(r)
             \/ Publish(r) \/ PublishResent(r) \/ PublishFails(r)
      PROVE  MemberInv'
  <2>1. /\ UNCHANGED <<id, members, vouched>>
        /\ \A s \in Requests \ {r} : pc'[s] = pc[s]
    BY <1>3 DEF ReceiveInvalid, LockAcquired, LockHeld, LockFails, LockResent,
                PublishResent, Resend,
                MemberMissing, MemberFails, Insert, InsertFails, Publish,
                PublishFails, Goto, Reply, TypeOK, Arrives, AtLock, KeyFree,
                StatusOf, AtMember, AtInsert, AtPublish, MaybePublished
  <2>2. \/ pc'[r] = "done" \/ pc'[r] = pc[r]
        \/ pc[r] = "lock" /\ pc'[r] = "member"
        \/ pc[r] = "insert" /\ pc'[r] = "publish"
    BY <1>3 DEF ReceiveInvalid, LockAcquired, LockHeld, LockFails, LockResent,
                PublishResent, Resend,
                MemberMissing, MemberFails, Insert, InsertFails, Publish,
                PublishFails, Goto, Reply, Runs, TypeOK, Arrives, AtLock,
                KeyFree, StatusOf, AtMember, AtInsert, AtPublish, MaybePublished
  <2> QED
    BY <2>1, <2>2 DEF MemberInv, IsMember, Row
<1>4. ASSUME NEW r \in Requests, MemberFound(r)
      PROVE  MemberInv'
  <2>1. /\ pc[r] = "member" /\ IsMember(r) /\ pc'[r] = "id"
        /\ UNCHANGED <<id, members, vouched>>
        /\ \A s \in Requests \ {r} : pc'[s] = pc[s]
    BY <1>4 DEF MemberFound, Runs, Goto, TypeOK, AtMember
  <2> QED
    BY <2>1 DEF MemberInv, IsMember, Row
<1>5. ASSUME NEW r \in Requests, AssignID(r)
      PROVE  MemberInv'
  <2>1. /\ pc[r] = "id" /\ pc'[r] = "insert" /\ UNCHANGED <<members, vouched>>
        /\ \A s \in Requests \ {r} : pc'[s] = pc[s] /\ id'[s] = id[s]
    BY <1>5 DEF AssignID, Runs, Goto, TypeOK, Draw
  <2> QED
    BY <2>1 DEF MemberInv, IsMember, Row
<1>6. ASSUME NEW c \in Channels, NEW u \in Users, AddMember(c, u)
      PROVE  MemberInv'
  <2>1. /\ UNCHANGED <<pc, id>> /\ vouched \subseteq vouched'
        /\ \A r \in Requests :
              pc[r] # "new" /\ Conv(r) = c /\ Sender(r) = u => r \in vouched'
    BY <1>6 DEF AddMember, Row
  <2>2. \A r \in Requests :
           IsMember(r)' => IsMember(r) \/ (Conv(r) = c /\ Sender(r) = u)
    BY <1>6 DEF AddMember, IsMember, Row
  <2> QED
    BY <2>1, <2>2 DEF MemberInv
<1>7. ASSUME NEW c \in Channels, NEW u \in Users, RemoveMember(c, u)
      PROVE  MemberInv'
  <2>1. UNCHANGED <<pc, id, vouched>> /\ members' \subseteq members
    BY <1>7 DEF RemoveMember, reqVars, Row
  <2> QED
    BY <2>1 DEF MemberInv, IsMember, Row
<1>8. ASSUME NEW k \in Keys, ExpireLock(k)
      PROVE  MemberInv'
  BY <1>8 DEF ExpireLock, MemberInv, IsMember, reqVars, Row
<1>9. ASSUME NEW n \in Nodes, Shutdown(n) \/ Start(n)
      PROVE  MemberInv'
  BY <1>9 DEF Shutdown, Start, MemberInv, IsMember, reqVars, Row
<1>10. ASSUME NEW n \in Nodes, Exit(n) \/ Crash(n)
       PROVE  MemberInv'
  <2>1. /\ UNCHANGED <<id, vouched, members>>
        /\ \A s \in Requests : pc'[s] = pc[s] \/ pc'[s] = "done"
    BY <1>10 DEF Exit, Crash, Halt
  <2> QED
    BY <2>1 DEF MemberInv, IsMember, Row
<1> QED
  BY <1>1, <1>2, <1>3, <1>4, <1>5, <1>6, <1>7, <1>8, <1>9, <1>10
  DEF Next, OrderlyNext, Handle

(* However memberships change while a request is on its way, a message is  *)
(* stored only if its sender was a member of the channel at some moment of *)
(* the request.                                                            *)
THEOREM MembershipGated == Spec => []SenderWasMember
<1> DEFINE I == TypeOK /\ StepInv /\ MemberInv
<1>1. Init => I
  <2>1. Init => MemberInv
    BY DEF Init, MemberInv
  <2> QED
    BY <2>1, InitTypes
<1>2. I /\ [Next]_vars => I'
  BY StepTypes, StepMember
<1>3. I => SenderWasMember
  <2> SUFFICES ASSUME TypeOK, MemberInv, NEW r \in Requests, Stored(r)
               PROVE  r \in vouched
    BY DEF SenderWasMember
  <2>1. id[r] # 0
    BY MessageBounds DEF Stored, TypeOK, Message, IDs
  <2> QED
    BY <2>1 DEF MemberInv
<1> HIDE DEF I
<1> QED
  BY <1>1, <1>2, <1>3, PTL DEF Spec

-----------------------------------------------------------------------------
(* IDs, rows and broadcasts                                                *)

Owns(r, m) == id[r] # 0 /\ m = Msg(r)

(* An ID belongs to one request, which drew it on its own process; a row   *)
(* or a broadcast belongs to a request that has got that far.              *)
OwnerInv ==
    /\ \A r \in Requests : id[r] # 0 =>
          \E j \in DOMAIN issued[at[r]] : issued[at[r]][j] = id[r]
    /\ \A r, s \in Requests : id[r] # 0 /\ id[r] = id[s] => r = s
    /\ \A m \in messages : \E r \in Requests :
          Owns(r, m) /\ pc[r] \in {"publish", "done"}
    /\ \A r \in Requests : pc[r] = "publish" => Msg(r) \in messages
    /\ \A i \in DOMAIN published : \E r \in Requests :
          Owns(r, published[i]) /\ pc[r] \in {"publish", "done"}
    /\ \A r \in Requests : pc[r] # "done" => reply[r] = "none"

(* A message has been broadcast by the attempts that were given up, and    *)
(* perhaps by the last one.                                                *)
CopiesInv ==
    \A r \in Requests : id[r] # 0 =>
        Cardinality(Log!Copies(Msg(r)))
            <= IF pc[r] = "publish" THEN retries[r] ELSE MaxRetries + 1

DeliveryInv ==
    OwnerInv /\ PersistBeforePublish /\ CopiesInv /\ AcceptedIsDelivered

(* A message has finitely many broadcasts, none at first.                  *)
LEMMA CopiesFinite ==
    ASSUME published \in Seq(Message), NEW m
    PROVE  IsFiniteSet(Log!Copies(m))
<1>1. DOMAIN published = 1..Len(published) /\ Len(published) \in Nat
  OBVIOUS
<1>2. IsFiniteSet(1..Len(published))
  BY <1>1, FS_Interval
<1>3. Log!Copies(m) \subseteq 1..Len(published)
  BY <1>1 DEF Log!Copies
<1> QED
  BY <1>2, <1>3, FS_Subset

(* Appending a broadcast adds one to those of its message and none to      *)
(* those of another.                                                       *)
LEMMA CopiesGrow ==
    ASSUME NEW seq \in Seq(Message), NEW x \in Message, NEW m
    PROVE  /\ m # x => {i \in DOMAIN Append(seq, x) : Append(seq, x)[i] = m}
                          = {i \in DOMAIN seq : seq[i] = m}
           /\ m = x => Cardinality({i \in DOMAIN Append(seq, x) : Append(seq, x)[i] = m})
                         = Cardinality({i \in DOMAIN seq : seq[i] = m}) + 1
<1> DEFINE Places(q) == {i \in DOMAIN q : q[i] = m}
           new == Append(seq, x)
<1>1. /\ DOMAIN seq = 1..Len(seq) /\ Len(seq) \in Nat
      /\ DOMAIN new = 1..(Len(seq) + 1) /\ new[Len(seq) + 1] = x
      /\ \A i \in 1..Len(seq) : new[i] = seq[i]
  OBVIOUS
<1> HIDE DEF new
<1>2. ASSUME m # x
      PROVE  Places(new) = Places(seq)
  BY <1>1, <1>2
<1>3. ASSUME m = x
      PROVE  Cardinality(Places(new)) = Cardinality(Places(seq)) + 1
  <2>1. /\ Places(new) = Places(seq) \cup {Len(seq) + 1}
        /\ Len(seq) + 1 \notin Places(seq)
    BY <1>1, <1>3
  <2>2. IsFiniteSet(1..Len(seq)) /\ Places(seq) \subseteq 1..Len(seq)
    BY <1>1, FS_Interval
  <2>3. IsFiniteSet(Places(seq))
    BY <2>2, FS_Subset
  <2> HIDE DEF Places
  <2> QED
    BY <2>1, <2>3, FS_AddElement
<1> QED
  BY <1>2, <1>3 DEF new

(* The log counts as everybody does.                                       *)
LEMMA LogCounts == \A S : Log!Cardinality(S) = Cardinality(S)
  BY DEF Log!Cardinality, Cardinality

(* Nobody has broadcast the message of a request that has not stored it.   *)
LEMMA NoCopiesYet ==
    ASSUME OwnerInv, NEW r \in Requests, id[r] # 0, pc[r] \notin {"publish", "done"}
    PROVE  Cardinality(Log!Copies(Msg(r))) = 0
<1>1. ASSUME NEW i \in DOMAIN published, published[i] = Msg(r)
      PROVE  FALSE
  <2>1. PICK s \in Requests : Owns(s, published[i]) /\ pc[s] \in {"publish", "done"}
    BY DEF OwnerInv
  <2>2. id[s] = id[r]
    BY <1>1, <2>1 DEF Owns, Msg
  <2>3. s = r
    BY <2>2 DEF OwnerInv
  <2> QED
    BY <2>1, <2>3
<1>2. Log!Copies(Msg(r)) = {}
  BY <1>1 DEF Log!Copies
<1> QED
  BY <1>2, FS_EmptySet

(* Before the first request there is nothing to own.                       *)
LEMMA InitDelivery == Init => DeliveryInv
<1>1. Init => OwnerInv
  BY DEF Init, OwnerInv
<1>2. Init => PersistBeforePublish /\ CopiesInv /\ AcceptedIsDelivered
  BY DEF Init, PersistBeforePublish, CopiesInv, AcceptedIsDelivered
<1> QED
  BY <1>1, <1>2 DEF DeliveryInv

(* A step that assigns no ID and neither stores nor publishes, and gives   *)
(* no 202, keeps the delivery invariant.                                   *)
LEMMA QuietStep ==
    ASSUME TypeOK, StepInv, DeliveryInv,
           UNCHANGED <<id, at, issued, messages, published>>,
           \A r \in Requests : retries'[r] = retries[r] \/ pc[r] = "lock",
           \A r \in Requests :
              \/ pc'[r] = pc[r] /\ reply'[r] = reply[r]
              \/ pc[r] # "done" /\ pc'[r] = "done" /\ reply'[r] # "202"
              \/ /\ pc[r] \in {"new", "lock", "member"} /\ reply'[r] = reply[r]
                 /\ pc'[r] \in {"lock", "member", "id"}
    PROVE  DeliveryInv'
<1>1. \A r \in Requests : Msg(r)' = Msg(r)
  BY DEF Msg, Conv, Sender
<1>2. \A r \in Requests : \A m : Owns(r, m)' <=> Owns(r, m)
  BY <1>1 DEF Owns
<1>3. \A r \in Requests : pc[r] \in {"new", "lock", "member"} => id[r] = 0
  BY DEF StepInv
<1>4. OwnerInv'
  <2>1. \A m \in messages : \E r \in Requests :
           Owns(r, m)' /\ pc'[r] \in {"publish", "done"}
    <3> SUFFICES ASSUME NEW m \in messages
                 PROVE  \E r \in Requests : Owns(r, m)' /\ pc'[r] \in {"publish", "done"}
      OBVIOUS
    <3>1. PICK r \in Requests : Owns(r, m) /\ pc[r] \in {"publish", "done"}
      BY DEF DeliveryInv, OwnerInv
    <3>2. pc'[r] \in {"publish", "done"}
      BY <3>1
    <3> QED
      BY <1>2, <3>1, <3>2
  <2>2. \A i \in DOMAIN published : \E r \in Requests :
           Owns(r, published[i])' /\ pc'[r] \in {"publish", "done"}
    <3> SUFFICES ASSUME NEW i \in DOMAIN published
                 PROVE  \E r \in Requests :
                          Owns(r, published[i])' /\ pc'[r] \in {"publish", "done"}
      OBVIOUS
    <3>1. PICK r \in Requests : Owns(r, published[i]) /\ pc[r] \in {"publish", "done"}
      BY DEF DeliveryInv, OwnerInv
    <3>2. pc'[r] \in {"publish", "done"}
      BY <3>1
    <3> QED
      BY <1>2, <3>1, <3>2
  <2>3. \A r \in Requests : pc'[r] = "publish" => Msg(r)' \in messages
    BY <1>1 DEF DeliveryInv, OwnerInv
  <2>4. \A r \in Requests : pc'[r] # "done" => reply'[r] = "none"
    BY DEF DeliveryInv, OwnerInv
  <2> QED
    BY <2>1, <2>2, <2>3, <2>4 DEF DeliveryInv, OwnerInv
<1>5. (PersistBeforePublish /\ CopiesInv)'
  <2>1. PersistBeforePublish'
    BY DEF DeliveryInv, PersistBeforePublish
  <2>2. ASSUME NEW r \in Requests, id[r] # 0
        PROVE  Cardinality(Log!Copies(Msg(r)))
                  <= IF pc'[r] = "publish" THEN retries'[r] ELSE MaxRetries + 1
    <3> DEFINE c == Cardinality(Log!Copies(Msg(r)))
    <3>1. c <= IF pc[r] = "publish" THEN retries[r] ELSE MaxRetries + 1
      BY <2>2 DEF DeliveryInv, CopiesInv
    <3>2. retries[r] \in 0..MaxRetries /\ c \in Nat
      BY CopiesFinite, FS_CardinalityType DEF TypeOK
    <3>3. \/ pc'[r] = pc[r] /\ (pc[r] = "publish" => retries'[r] = retries[r])
          \/ pc'[r] = "done"
      BY <1>3, <2>2
    <3> HIDE DEF c
    <3>4. c <= IF pc'[r] = "publish" THEN retries'[r] ELSE MaxRetries + 1
      BY <3>1, <3>2, <3>3, MessageBounds
    <3> QED
      BY <3>4 DEF c
  <2>3. \A r \in Requests : Log!Copies(Msg(r))' = Log!Copies(Msg(r))
    BY <1>1 DEF Log!Copies
  <2>4. CopiesInv'
    BY <2>2, <2>3 DEF CopiesInv
  <2> QED
    BY <2>1, <2>4
<1>6. AcceptedIsDelivered'
  <2>1. \A r \in Requests : reply'[r] = "202" => reply[r] = "202"
    OBVIOUS
  <2> QED
    BY <1>1, <2>1 DEF DeliveryInv, AcceptedIsDelivered, Stored
<1> QED
  BY <1>4, <1>5, <1>6 DEF DeliveryInv

(* The ID that AssignID draws belongs to no other request.                 *)
LEMMA AssignKeeps ==
    ASSUME TypeOK, StepInv, DeliveryInv, NEW r \in Requests, AssignID(r)
    PROVE  DeliveryInv'
<1>1. PICK i \in IDs : Oracle!Issue(at[r], i) /\ id' = [id EXCEPT ![r] = i]
  BY DEF AssignID, Draw
<1>2. /\ UNCHANGED <<at, messages, published, reply>>
      /\ pc[r] = "id" /\ pc' = [pc EXCEPT ![r] = "insert"]
  BY DEF AssignID, Goto, Runs, redisVars, Draw
<1>3. i # 0 /\ id'[r] = i /\ \A s \in Requests \ {r} : id'[s] = id[s]
  BY <1>1, MessageBounds DEF TypeOK, IDs
<1>4. /\ issued \in [Nodes -> Seq(IDs)] /\ at[r] \in Nodes
      /\ issued' = [issued EXCEPT ![at[r]] = Append(@, i)]
  BY <1>1 DEF TypeOK, Oracle!Issue
<1>5. \A n \in Nodes : \A j \in DOMAIN issued[n] :
         j \in DOMAIN issued'[n] /\ issued'[n][j] = issued[n][j]
  BY <1>4
<1>6. \E j \in DOMAIN issued'[at[r]] : issued'[at[r]][j] = i
  <2>1. /\ Len(issued[at[r]]) + 1 \in DOMAIN issued'[at[r]]
        /\ issued'[at[r]][Len(issued[at[r]]) + 1] = i
    BY <1>4
  <2> QED
    BY <2>1
<1>7. \A n \in Nodes : \A j \in DOMAIN issued[n] : issued[n][j] # i
  <2> SUFFICES ASSUME NEW n \in Nodes, NEW j \in DOMAIN issued[n],
                      issued[n][j] = i
               PROVE  FALSE
    OBVIOUS
  <2>1. CASE n = at[r]
    <3>1. issued[n][j] < i
      BY <1>1, <2>1 DEF Oracle!Issue
    <3> QED
      BY <3>1, MessageBounds DEF IDs
  <2>2. CASE n # at[r]
    BY <1>1, <2>2 DEF Oracle!Issue, Oracle!TakenElsewhere
  <2> QED
    BY <2>1, <2>2
<1>8. \A s \in Requests : id[s] # i
  <2> SUFFICES ASSUME NEW s \in Requests, id[s] = i
               PROVE  FALSE
    OBVIOUS
  <2>1. PICK j \in DOMAIN issued[at[s]] : issued[at[s]][j] = id[s]
    BY <1>3 DEF DeliveryInv, OwnerInv
  <2>2. at[s] \in Nodes
    BY DEF TypeOK
  <2> QED
    BY <1>7, <2>1, <2>2
<1>9. id[r] = 0
  BY <1>2 DEF StepInv
<1>10. \A s \in Requests \ {r} : Msg(s)' = Msg(s) /\ pc'[s] = pc[s]
  BY <1>2, <1>3 DEF Msg, Conv, Sender, TypeOK
<1>11. \A s \in Requests : \A m : Owns(s, m) => s # r /\ Owns(s, m)'
  BY <1>3, <1>9, <1>10 DEF Owns
<1>12. pc'[r] = "insert"
  BY <1>2 DEF TypeOK
<1>13. OwnerInv'
  <2>1. \A s \in Requests : id'[s] # 0 =>
           \E j \in DOMAIN issued'[at'[s]] : issued'[at'[s]][j] = id'[s]
    <3> SUFFICES ASSUME NEW s \in Requests, id'[s] # 0
                 PROVE  \E j \in DOMAIN issued'[at[s]] : issued'[at[s]][j] = id'[s]
      BY <1>2
    <3>1. CASE s = r
      BY <1>3, <1>6, <3>1
    <3>2. CASE s # r
      <4>1. PICK j \in DOMAIN issued[at[s]] : issued[at[s]][j] = id[s]
        BY <1>3, <3>2 DEF DeliveryInv, OwnerInv
      <4>2. at[s] \in Nodes
        BY DEF TypeOK
      <4> QED
        BY <1>3, <1>5, <3>2, <4>1, <4>2
    <3> QED
      BY <3>1, <3>2
  <2>2. \A s, t \in Requests : id'[s] # 0 /\ id'[s] = id'[t] => s = t
    BY <1>3, <1>8 DEF DeliveryInv, OwnerInv
  <2>3. \A m \in messages : \E s \in Requests :
           Owns(s, m)' /\ pc'[s] \in {"publish", "done"}
    BY <1>10, <1>11 DEF DeliveryInv, OwnerInv
  <2>4. \A j \in DOMAIN published : \E s \in Requests :
           id'[s] # 0 /\ published[j] = Msg(s)' /\ pc'[s] \in {"publish", "done"}
    <3> SUFFICES ASSUME NEW j \in DOMAIN published
                 PROVE  \E s \in Requests : /\ id'[s] # 0 /\ published[j] = Msg(s)'
                                             /\ pc'[s] \in {"publish", "done"}
      OBVIOUS
    <3>1. PICK s \in Requests : Owns(s, published[j]) /\ pc[s] \in {"publish", "done"}
      BY DEF DeliveryInv, OwnerInv
    <3>2. s # r
      BY <1>2, <3>1
    <3> QED
      BY <1>3, <1>10, <3>1, <3>2 DEF Owns
  <2>5. \A s \in Requests : pc'[s] = "publish" => Msg(s)' \in messages
    BY <1>10, <1>12 DEF DeliveryInv, OwnerInv
  <2>6. \A s \in Requests : pc'[s] # "done" => reply[s] = "none"
    BY <1>2, <1>10 DEF DeliveryInv, OwnerInv
  <2> QED
    BY <1>2, <2>1, <2>2, <2>3, <2>4, <2>5, <2>6 DEF OwnerInv, Owns
<1>14. (PersistBeforePublish /\ CopiesInv)'
  <2>1. PersistBeforePublish'
    BY <1>2 DEF DeliveryInv, PersistBeforePublish
  <2>2. ASSUME NEW s \in Requests, id'[s] # 0
        PROVE  Cardinality(Log!Copies(Msg(s)))'
                  <= IF pc'[s] = "publish" THEN retries'[s] ELSE MaxRetries + 1
    <3>1. CASE s = r
      <4>1. Msg(s)'.id = i
        BY <1>3, <3>1 DEF Msg
      <4>2. \A j \in DOMAIN published : published[j].id # i
        BY <1>8 DEF DeliveryInv, OwnerInv, Owns, Msg
      <4>3. Log!Copies(Msg(s))' = {}
        BY <1>2, <4>1, <4>2 DEF Log!Copies
      <4>4. Cardinality(Log!Copies(Msg(s)))' = 0
        BY <4>3, FS_EmptySet
      <4> QED
        BY <1>12, <3>1, <4>4, MessageBounds
    <3>2. CASE s # r
      <4>1. Log!Copies(Msg(s))' = Log!Copies(Msg(s))
        BY <1>2, <1>10, <3>2 DEF Log!Copies
      <4>2. id[s] # 0 /\ pc'[s] = pc[s] /\ retries' = retries
        BY <1>3, <1>10, <2>2, <3>2 DEF AssignID
      <4> QED
        BY <4>1, <4>2 DEF DeliveryInv, CopiesInv
    <3> QED
      BY <3>1, <3>2
  <2>3. CopiesInv'
    BY <2>2 DEF CopiesInv
  <2> QED
    BY <2>1, <2>3
<1>15. AcceptedIsDelivered'
  <2>1. \A s \in Requests : reply'[s] = "202" => s # r /\ reply[s] = "202"
    BY <1>2 DEF DeliveryInv, OwnerInv
  <2> QED
    BY <1>2, <1>3, <1>10, <2>1 DEF DeliveryInv, AcceptedIsDelivered, Stored
<1> QED
  BY <1>13, <1>14, <1>15 DEF DeliveryInv

(* Storing the row of a request that holds its own ID.                     *)
LEMMA InsertKeeps ==
    ASSUME TypeOK, StepInv, DeliveryInv, NEW r \in Requests,
           Insert(r) \/ InsertFails(r)
    PROVE  DeliveryInv'
<1>1. /\ UNCHANGED <<id, at, issued, published, retries>> /\ pc[r] = "insert"
      /\ messages \subseteq messages' /\ messages' \subseteq messages \cup {Msg(r)}
      /\ \A s \in Requests \ {r} : pc'[s] = pc[s] /\ reply'[s] = reply[s]
  BY DEF Insert, InsertFails, Runs, Goto, Reply, redisVars, TypeOK, AtInsert,
         StatusOf
<1>2. \/ pc'[r] = "publish" /\ Msg(r) \in messages' /\ reply'[r] = reply[r]
      \/ pc'[r] = "done" /\ reply'[r] # "202"
  BY DEF Insert, InsertFails, Goto, Reply, TypeOK, AtInsert, StatusOf
<1>3. id[r] # 0 /\ reply[r] = "none"
  BY <1>1 DEF StepInv, DeliveryInv, OwnerInv
<1>4. \A s \in Requests : Msg(s)' = Msg(s)
  BY <1>1 DEF Msg, Conv, Sender
<1>5. \A s \in Requests : \A m : Owns(s, m)' <=> Owns(s, m)
  BY <1>1, <1>4 DEF Owns
<1>6. Owns(r, Msg(r))
  BY <1>3 DEF Owns
<1>7. OwnerInv'
  <2>1. \A m \in messages' : \E s \in Requests :
           Owns(s, m)' /\ pc'[s] \in {"publish", "done"}
    <3> SUFFICES ASSUME NEW m \in messages'
                 PROVE  \E s \in Requests : Owns(s, m)' /\ pc'[s] \in {"publish", "done"}
      OBVIOUS
    <3>1. CASE m \in messages
      <4>1. PICK s \in Requests : Owns(s, m) /\ pc[s] \in {"publish", "done"}
        BY <3>1 DEF DeliveryInv, OwnerInv
      <4> QED
        BY <1>1, <1>5, <4>1
    <3>2. CASE m = Msg(r)
      BY <1>2, <1>5, <1>6, <3>2
    <3> QED
      BY <1>1, <3>1, <3>2
  <2>2. \A j \in DOMAIN published : \E s \in Requests :
           Owns(s, published[j])' /\ pc'[s] \in {"publish", "done"}
    <3> SUFFICES ASSUME NEW j \in DOMAIN published
                 PROVE  \E s \in Requests :
                          Owns(s, published[j])' /\ pc'[s] \in {"publish", "done"}
      OBVIOUS
    <3>1. PICK s \in Requests : Owns(s, published[j]) /\ pc[s] \in {"publish", "done"}
      BY DEF DeliveryInv, OwnerInv
    <3> QED
      BY <1>1, <1>5, <3>1
  <2>3. \A s \in Requests : pc'[s] = "publish" => Msg(s)' \in messages'
    BY <1>1, <1>2, <1>4 DEF DeliveryInv, OwnerInv
  <2>4. \A s \in Requests : pc'[s] # "done" => reply'[s] = "none"
    BY <1>1, <1>2, <1>3 DEF DeliveryInv, OwnerInv
  <2> QED
    BY <1>1, <2>1, <2>2, <2>3, <2>4 DEF DeliveryInv, OwnerInv
<1>8. (PersistBeforePublish /\ CopiesInv)'
  <2>1. PersistBeforePublish'
    BY <1>1 DEF DeliveryInv, PersistBeforePublish
  <2>2. \A s \in Requests : Log!Copies(Msg(s))' = Log!Copies(Msg(s))
    BY <1>1, <1>4 DEF Log!Copies
  <2>3. Cardinality(Log!Copies(Msg(r))) = 0
    BY <1>1, <1>3, NoCopiesYet DEF DeliveryInv
  <2>4. retries[r] \in 0..MaxRetries
    BY DEF TypeOK
  <2>5. CopiesInv'
    BY <1>1, <2>2, <2>3, <2>4, MessageBounds DEF DeliveryInv, CopiesInv
  <2> QED
    BY <2>1, <2>5
<1>9. AcceptedIsDelivered'
  <2>1. \A s \in Requests : reply'[s] = "202" => reply[s] = "202"
    BY <1>1, <1>2
  <2> QED
    BY <1>1, <1>4, <2>1 DEF DeliveryInv, AcceptedIsDelivered, Stored
<1> QED
  BY <1>7, <1>8, <1>9 DEF DeliveryInv

(* Publishing a stored message, once more if an attempt got no answer.     *)
LEMMA PublishKeeps ==
    ASSUME TypeOK, StepInv, DeliveryInv, NEW r \in Requests,
           Publish(r) \/ PublishResent(r) \/ PublishFails(r)
    PROVE  DeliveryInv'
<1>1. /\ UNCHANGED <<id, at, issued, messages>> /\ pc[r] = "publish"
      /\ \A s \in Requests \ {r} : /\ pc'[s] = pc[s] /\ reply'[s] = reply[s]
                                     /\ retries'[s] = retries[s]
  BY ResendTypes
  DEF Publish, PublishResent, PublishFails, Runs, Reply, TypeOK, AtPublish,
      MaybePublished, StatusOf, Resend
<1>2. \A s \in Requests : Msg(s)' = Msg(s)
  BY <1>1 DEF Msg, Conv, Sender
<1>3. \A s \in Requests : \A m : Owns(s, m)' <=> Owns(s, m)
  BY <1>1, <1>2 DEF Owns
<1>4. id[r] # 0 /\ Msg(r) \in messages /\ Msg(r).id = id[r] /\ Owns(r, Msg(r))
  BY <1>1 DEF StepInv, DeliveryInv, OwnerInv, Msg, Owns
<1>5. \/ pc'[r] = "done"
      \/ pc'[r] = "publish" /\ reply'[r] = reply[r] /\ retries'[r] = retries[r] + 1
  BY <1>1, ResendTypes
  DEF Publish, PublishResent, PublishFails, Reply, TypeOK, Resend
<1>6. published \in Seq(Message) /\ Msg(r) \in Message
  BY <1>4, MsgType DEF TypeOK
<1>7. \/ published' = published /\ reply'[r] # "202"
      \/ published' = Append(published, Msg(r))
  <2>1. reply[r] = "none"
    BY <1>1 DEF DeliveryInv, OwnerInv
  <2> QED
    BY <2>1 DEF Publish, PublishResent, PublishFails, Reply, Resend, TypeOK, AtPublish,
                MaybePublished, StatusOf
<1>8. \A j \in DOMAIN published' :
         \/ j \in DOMAIN published /\ published'[j] = published[j]
         \/ /\ published'[j] = Msg(r)
            /\ \A k \in DOMAIN published' :
                  k = j \/ (k \in DOMAIN published /\ published'[k] = published[k])
  <2> DEFINE m == Msg(r)
  <2>1. m \in Message /\ (published' = published \/ published' = Append(published, m))
    BY <1>6, <1>7
  <2> HIDE DEF m
  <2>2. CASE published' = published
    BY <2>2
  <2>3. CASE published' = Append(published, m)
    <3>1. \A j \in DOMAIN published' :
             \/ j \in DOMAIN published /\ published'[j] = published[j]
             \/ j = Len(published) + 1 /\ published'[j] = m
      BY <1>6, <2>1, <2>3
    <3>2. ASSUME NEW j \in DOMAIN published', j = Len(published) + 1,
                 NEW k \in DOMAIN published', k # j
          PROVE  k \in DOMAIN published /\ published'[k] = published[k]
      BY <3>1, <3>2
    <3>3. TAKE j \in DOMAIN published'
    <3>4. m = Msg(r)
      BY DEF m
    <3>5. CASE j = Len(published) + 1
      <4>1. \A k \in DOMAIN published' :
               k = j \/ (k \in DOMAIN published /\ published'[k] = published[k])
        BY <3>2, <3>5
      <4>2. published'[j] = Msg(r)
        BY <1>6, <2>1, <2>3, <3>4, <3>5
      <4> QED
        BY <4>1, <4>2
    <3>6. CASE j # Len(published) + 1
      BY <3>1, <3>6
    <3> QED
      BY <3>5, <3>6
  <2> QED
    BY <2>1, <2>2, <2>3
<1>9. OwnerInv'
  <2>1. \A m \in messages : \E s \in Requests :
           Owns(s, m)' /\ pc'[s] \in {"publish", "done"}
    <3> SUFFICES ASSUME NEW m \in messages
                 PROVE  \E s \in Requests : Owns(s, m)' /\ pc'[s] \in {"publish", "done"}
      OBVIOUS
    <3>1. PICK s \in Requests : Owns(s, m) /\ pc[s] \in {"publish", "done"}
      BY DEF DeliveryInv, OwnerInv
    <3> QED
      BY <1>1, <1>3, <1>5, <3>1
  <2>2. \A j \in DOMAIN published' : \E s \in Requests :
           /\ id'[s] # 0 /\ published'[j] = Msg(s)'
           /\ pc'[s] \in {"publish", "done"}
    <3> SUFFICES ASSUME NEW j \in DOMAIN published'
                 PROVE  \E s \in Requests : /\ id'[s] # 0 /\ published'[j] = Msg(s)'
                                             /\ pc'[s] \in {"publish", "done"}
      OBVIOUS
    <3>1. CASE j \in DOMAIN published /\ published'[j] = published[j]
      <4>1. PICK s \in Requests : Owns(s, published[j]) /\ pc[s] \in {"publish", "done"}
        BY <3>1 DEF DeliveryInv, OwnerInv
      <4>2. pc'[s] \in {"publish", "done"}
        BY <1>1, <1>5, <4>1
      <4> QED
        BY <1>1, <1>2, <3>1, <4>1, <4>2 DEF Owns
    <3>2. CASE published'[j] = Msg(r)
      BY <1>1, <1>2, <1>4, <1>5, <3>2
    <3> QED
      BY <1>8, <3>1, <3>2
  <2>3. \A s \in Requests : pc'[s] = "publish" => Msg(s)' \in messages
    BY <1>1, <1>2 DEF DeliveryInv, OwnerInv
  <2>4. \A s \in Requests : pc'[s] # "done" => reply'[s] = "none"
    BY <1>1, <1>5 DEF DeliveryInv, OwnerInv
  <2> QED
    BY <1>1, <2>1, <2>2, <2>3, <2>4 DEF DeliveryInv, OwnerInv, Owns
<1>10. PersistBeforePublish'
  BY <1>1, <1>4, <1>8 DEF DeliveryInv, PersistBeforePublish
<1>11. CopiesInv'
  <2> SUFFICES ASSUME NEW s \in Requests, id[s] # 0, NEW m, m = Msg(s)
               PROVE  Cardinality({j \in DOMAIN published' : published'[j] = m})
                         <= IF pc'[s] = "publish" THEN retries'[s] ELSE MaxRetries + 1
    BY <1>1, <1>2 DEF CopiesInv, Log!Copies
  <2> DEFINE c == Cardinality({j \in DOMAIN published : published[j] = m})
             d == Cardinality({j \in DOMAIN published' : published'[j] = m})
  <2>1. /\ c <= IF pc[s] = "publish" THEN retries[s] ELSE MaxRetries + 1
        /\ retries[s] \in 0..MaxRetries /\ c \in Nat
    BY <1>6, CopiesFinite, FS_CardinalityType
    DEF TypeOK, DeliveryInv, CopiesInv, Log!Copies
  <2>2. d = c \/ (s = r /\ d = c + 1)
    <3> DEFINE x == Msg(r)
    <3>1. CASE published' = published
      BY <3>1
    <3>2. CASE published' = Append(published, x)
      <4>1. x \in Message /\ (m = x => s = r)
        BY <1>4, <1>6 DEF DeliveryInv, OwnerInv, Msg
      <4> HIDE DEF x
      <4> DEFINE new == Append(published, x)
      <4>2. /\ m # x => {j \in DOMAIN new : new[j] = m}
                           = {j \in DOMAIN published : published[j] = m}
            /\ m = x => Cardinality({j \in DOMAIN new : new[j] = m}) = c + 1
        <5>1. published \in Seq(Message) /\ x \in Message
          BY <1>6, <4>1
        <5> QED
          BY ONLY <5>1, CopiesGrow, Zenon
      <4>3. published' = new
        BY <3>2
      <4> HIDE DEF new
      <4> QED
        BY <4>1, <4>2, <4>3
    <3> QED
      BY <1>7, <3>1, <3>2
  <2> HIDE DEF c, d
  <2>3. d <= IF pc'[s] = "publish" THEN retries'[s] ELSE MaxRetries + 1
    <3>1. CASE s = r
      BY <1>1, <1>5, <2>1, <2>2, <3>1, MessageBounds
    <3>2. CASE s # r
      BY <1>1, <2>1, <2>2, <3>2
    <3> QED
      BY <3>1, <3>2
  <2> QED
    BY <2>3 DEF d
<1>12. AcceptedIsDelivered'
  <2> SUFFICES ASSUME NEW s \in Requests, reply'[s] = "202"
               PROVE  /\ \E m \in messages : m.id = id[s]
                      /\ \E j \in DOMAIN published' : published'[j] = Msg(s)
    BY <1>1, <1>2 DEF AcceptedIsDelivered, Stored
  <2>1. CASE s = r
    <3> DEFINE m == Msg(r)
    <3>1. published' = Append(published, m) /\ m \in Message
      BY <1>6, <1>7, <2>1
    <3> HIDE DEF m
    <3>2. Len(published) + 1 \in DOMAIN published'
          /\ published'[Len(published) + 1] = m
      BY <1>6, <3>1
    <3> QED
      BY <1>4, <2>1, <3>2 DEF m
  <2>2. CASE s # r
    <3>1. Stored(s) /\ \E j \in DOMAIN published : published[j] = Msg(s)
      BY <1>1, <2>2 DEF DeliveryInv, AcceptedIsDelivered
    <3>2. \A j \in DOMAIN published :
             j \in DOMAIN published' /\ published'[j] = published[j]
      <4> DEFINE m == Msg(r)
      <4>1. m \in Message /\ (published' = published \/ published' = Append(published, m))
        BY <1>6, <1>7
      <4> HIDE DEF m
      <4> QED
        BY <1>6, <4>1
    <3> QED
      BY <3>1, <3>2 DEF Stored
  <2> QED
    BY <2>1, <2>2
<1> QED
  BY <1>9, <1>10, <1>11, <1>12 DEF DeliveryInv

(* No step breaks the delivery invariant.                                  *)
LEMMA StepDelivery ==
    ASSUME TypeOK, StepInv, DeliveryInv, [Next]_vars
    PROVE  DeliveryInv'
<1>1. CASE UNCHANGED vars
  <2>1. UNCHANGED <<id, at, issued, messages, published, pc, reply, retries>>
    BY <1>1 DEF vars, reqVars, redisVars
  <2> QED
    BY <2>1, QuietStep
<1>2. ASSUME NEW r \in Requests,
             \/ Receive(r) \/ LockAcquired(r) \/ LockResent(r) \/ MemberFound(r)
      PROVE  DeliveryInv'
  <2>1. /\ UNCHANGED <<id, at, issued, messages, published, reply>>
        /\ pc[r] \in {"new", "lock", "member"}
        /\ pc'[r] \in {"lock", "member", "id"}
        /\ retries'[r] = retries[r] \/ pc[r] = "lock"
        /\ \A s \in Requests \ {r} : pc'[s] = pc[s] /\ retries'[s] = retries[s]
    BY <1>2 DEF Receive, LockAcquired, LockResent, Resend, MemberFound, Goto, Runs,
                redisVars, TypeOK, Arrives, AtLock, KeyFree, AtMember
  <2> QED
    BY <2>1, QuietStep
<1>3. ASSUME NEW r \in Requests,
             \/ ReceiveInvalid(r) \/ LockHeld(r) \/ LockFails(r)
             \/ MemberMissing(r) \/ MemberFails(r)
      PROVE  DeliveryInv'
  <2>1. /\ UNCHANGED <<id, at, issued, messages, published, retries>>
        /\ pc[r] # "done" /\ pc'[r] = "done" /\ reply'[r] # "202"
        /\ \A s \in Requests \ {r} : pc'[s] = pc[s] /\ reply'[s] = reply[s]
    BY <1>3 DEF ReceiveInvalid, LockHeld, LockFails, MemberMissing, MemberFails,
                Reply, Runs, redisVars, TypeOK, Arrives, AtLock, KeyFree,
                StatusOf, AtMember
  <2> QED
    BY <2>1, QuietStep
<1>4. ASSUME NEW r \in Requests, AssignID(r)
      PROVE  DeliveryInv'
  BY <1>4, AssignKeeps
<1>5. ASSUME NEW r \in Requests, Insert(r) \/ InsertFails(r)
      PROVE  DeliveryInv'
  BY <1>5, InsertKeeps
<1>6. ASSUME NEW r \in Requests, Publish(r) \/ PublishResent(r) \/ PublishFails(r)
      PROVE  DeliveryInv'
  BY <1>6, PublishKeeps
<1>7. ASSUME NEW c \in Channels, NEW u \in Users,
             AddMember(c, u) \/ RemoveMember(c, u)
      PROVE  DeliveryInv'
  <2>1. UNCHANGED <<id, at, issued, messages, published, pc, reply, retries>>
    BY <1>7 DEF AddMember, RemoveMember, reqVars, redisVars, Row
  <2> QED
    BY <2>1, QuietStep
<1>8. ASSUME NEW k \in Keys, ExpireLock(k)
      PROVE  DeliveryInv'
  <2>1. UNCHANGED <<id, at, issued, messages, published, pc, reply, retries>>
    BY <1>8 DEF ExpireLock, reqVars
  <2> QED
    BY <2>1, QuietStep
<1>9. ASSUME NEW n \in Nodes, Shutdown(n) \/ Start(n)
      PROVE  DeliveryInv'
  <2>1. UNCHANGED <<id, at, issued, messages, published, pc, reply, retries>>
    BY <1>9 DEF Shutdown, Start, reqVars, redisVars
  <2> QED
    BY <2>1, QuietStep
<1>10. ASSUME NEW n \in Nodes, Exit(n) \/ Crash(n)
       PROVE  DeliveryInv'
  <2>1. /\ UNCHANGED <<id, at, issued, messages, published, retries>>
        /\ \A s \in Requests :
              \/ pc'[s] = pc[s] /\ reply'[s] = reply[s]
              \/ pc[s] # "done" /\ pc'[s] = "done" /\ reply'[s] # "202"
    BY <1>10 DEF Exit, Crash, Halt, InFlight, redisVars
  <2> QED
    BY <2>1, QuietStep
<1> QED
  BY <1>1, <1>2, <1>3, <1>4, <1>5, <1>6, <1>7, <1>8, <1>9, <1>10
  DEF Next, OrderlyNext, Handle

(* Everything broadcast is stored, is broadcast at most once per attempt   *)
(* of the one PUBLISH that its request makes, and a 202 means stored and   *)
(* broadcast, through every failure of MySQL, Redis and the processes.     *)
THEOREM DeliverySafe ==
    Spec => [](PersistBeforePublish /\ OnceAnAttempt /\ AcceptedIsDelivered)
<1> DEFINE I == TypeOK /\ StepInv /\ DeliveryInv
<1>1. Init => I
  BY InitTypes, InitDelivery
<1>2. I /\ [Next]_vars => I'
  BY StepTypes, StepDelivery
<1>3. I => PersistBeforePublish /\ OnceAnAttempt /\ AcceptedIsDelivered
  <2> SUFFICES ASSUME TypeOK, DeliveryInv, NEW m \in Message
               PROVE  Cardinality(Log!Copies(m)) <= MaxRetries + 1
    BY DEF DeliveryInv, OnceAnAttempt
  <2>1. CASE Log!Copies(m) = {}
    BY <2>1, FS_EmptySet, MessageBounds
  <2>2. CASE Log!Copies(m) # {}
    <3>1. PICK i \in DOMAIN published : published[i] = m
      BY <2>2 DEF Log!Copies
    <3>2. PICK r \in Requests : id[r] # 0 /\ Msg(r) = m
      BY <3>1 DEF DeliveryInv, OwnerInv, Owns
    <3> DEFINE c == Cardinality(Log!Copies(m))
    <3>3. /\ c <= IF pc[r] = "publish" THEN retries[r] ELSE MaxRetries + 1
          /\ retries[r] \in 0..MaxRetries /\ c \in Nat
      BY <3>2, CopiesFinite, FS_CardinalityType DEF TypeOK, DeliveryInv, CopiesInv
    <3> HIDE DEF c
    <3>4. c <= MaxRetries + 1
      BY <3>3, MessageBounds
    <3> QED
      BY <3>4 DEF c
  <2> QED
    BY <2>1, <2>2
<1> HIDE DEF I
<1> QED
  BY <1>1, <1>2, <1>3, PTL DEF Spec

(* No INSERT meets a row with its ID, so the model's INSERT, which knows   *)
(* no duplicate-key error, leaves none out.                                *)
THEOREM InsertsAreFresh == Spec => []PrimaryKeyFree
<1> DEFINE I == TypeOK /\ StepInv /\ DeliveryInv
<1>1. Init => I
  BY InitTypes, InitDelivery
<1>2. I /\ [Next]_vars => I'
  BY StepTypes, StepDelivery
<1>3. I => PrimaryKeyFree
  <2> SUFFICES ASSUME StepInv, OwnerInv, NEW r \in Requests,
                      pc[r] = "insert", NEW m \in messages, m.id = id[r]
               PROVE  FALSE
    BY DEF DeliveryInv, PrimaryKeyFree, Stored
  <2>1. PICK s \in Requests : Owns(s, m) /\ pc[s] \in {"publish", "done"}
    BY DEF OwnerInv
  <2>2. id[s] # 0 /\ id[s] = id[r]
    BY <2>1 DEF Owns, Msg
  <2>3. s = r
    BY <2>2 DEF OwnerInv
  <2> QED
    BY <2>1, <2>3
<1> HIDE DEF I
<1> QED
  BY <1>1, <1>2, <1>3, PTL DEF Spec

-----------------------------------------------------------------------------
(* The log that readers see                                                *)

(* Who was accepted depends on the 202s and on their IDs alone.            *)
LEMMA AcceptedSame ==
    ASSUME \A r \in Requests : /\ reply'[r] = "202" <=> reply[r] = "202"
                               /\ reply[r] = "202" => id'[r] = id[r]
    PROVE  Accepted' = Accepted
<1>1. \A r \in Requests : reply[r] = "202" => Msg(r)' = Msg(r)
  BY DEF Msg, Conv, Sender
<1> QED
  BY <1>1 DEF Accepted

(* A step that neither stores nor broadcasts changes nothing of the log.   *)
LEMMA LogStutters ==
    ASSUME UNCHANGED <<messages, published>>,
           \A r \in Requests : /\ reply'[r] = "202" <=> reply[r] = "202"
                               /\ reply[r] = "202" => id'[r] = id[r]
    PROVE  UNCHANGED <<messages, published, Accepted>>
  BY AcceptedSame

(* An INSERT that takes effect stores a message under a fresh ID.          *)
LEMMA InsertStores ==
    ASSUME TypeOK, StepInv, DeliveryInv, NEW r \in Requests,
           Insert(r) \/ InsertFails(r)
    PROVE  [Log!Next]_<<messages, published, Accepted>>
<1>1. /\ pc[r] = "insert" /\ UNCHANGED <<id, published>>
      /\ messages' = messages \/ messages' = messages \cup {Msg(r)}
      /\ reply'[r] # "202" /\ \A s \in Requests \ {r} : reply'[s] = reply[s]
  <2>1. reply[r] = "none"
    BY DEF Insert, InsertFails, AtInsert, Runs, DeliveryInv, OwnerInv
  <2> QED
    BY <2>1 DEF Insert, InsertFails, AtInsert, Runs, Goto, Reply, StatusOf, redisVars, TypeOK
<1>2. reply[r] = "none"
  BY <1>1 DEF DeliveryInv, OwnerInv
<1>3. Accepted' = Accepted
  BY <1>1, <1>2, AcceptedSame
<1>4. Msg(r) \in Message
  BY <1>1, MsgType DEF StepInv
<1>5. ASSUME NEW m \in messages
      PROVE  m.id # Msg(r).id
  <2>1. PICK s \in Requests : Owns(s, m) /\ pc[s] \in {"publish", "done"}
    BY DEF DeliveryInv, OwnerInv
  <2>2. id[s] # 0 /\ m.id = id[s] /\ s # r
    BY <1>1, <2>1 DEF Owns, Msg
  <2>3. id[s] # id[r]
    BY <2>2 DEF DeliveryInv, OwnerInv
  <2> QED
    BY <2>2, <2>3 DEF Msg
<1>6. CASE messages' = messages
  BY <1>1, <1>3, <1>6
<1>7. CASE messages' = messages \cup {Msg(r)}
  <2>1. Log!Store(Msg(r))
    BY <1>1, <1>3, <1>5, <1>7 DEF Log!Store
  <2> QED
    BY <1>4, <2>1 DEF Log!Next
<1> QED
  BY <1>1, <1>6, <1>7

(* A PUBLISH that takes effect broadcasts a stored message, not more often *)
(* than it may, and only such a step may answer 202.                       *)
LEMMA PublishBroadcasts ==
    ASSUME TypeOK, StepInv, DeliveryInv, NEW r \in Requests,
           Publish(r) \/ PublishResent(r) \/ PublishFails(r)
    PROVE  [Log!Next]_<<messages, published, Accepted>>
<1> DEFINE m == Msg(r)
<1>1. /\ pc[r] = "publish" /\ UNCHANGED <<id, messages>>
      /\ \/ published' = Append(published, m)
         \/ published' = published /\ reply'[r] # "202"
      /\ \A s \in Requests \ {r} : reply'[s] = reply[s]
  <2>1. reply[r] = "none"
    BY DEF Publish, PublishResent, PublishFails, MaybePublished, AtPublish, Runs,
           DeliveryInv, OwnerInv
  <2> QED
    BY <2>1 DEF Publish, PublishResent, PublishFails, MaybePublished, AtPublish, Runs,
                Reply, Resend, StatusOf, TypeOK
<1>2. reply[r] = "none"
  BY <1>1 DEF DeliveryInv, OwnerInv
<1>3. m \in Message /\ m \in messages
  BY <1>1, MsgType DEF StepInv, DeliveryInv, OwnerInv
<1>4. Log!MayBroadcast(m)
  <2> DEFINE c == Cardinality(Log!Copies(m))
  <2>1. c <= retries[r] /\ retries[r] \in 0..MaxRetries /\ c \in Nat
    BY <1>1, CopiesFinite, FS_CardinalityType
    DEF TypeOK, StepInv, DeliveryInv, CopiesInv
  <2> HIDE DEF c
  <2>2. c < MaxRetries + 1
    BY <2>1, MessageBounds
  <2> QED
    BY <1>3, <2>2, LogCounts DEF c, Log!MayBroadcast
<1>5. \A s \in Requests : Msg(s)' = Msg(s)
  BY <1>1 DEF Msg, Conv, Sender
<1>6. CASE reply'[r] # "202"
  <2>1. Accepted' = Accepted
    BY <1>1, <1>2, <1>6, AcceptedSame
  <2>2. CASE published' = published
    BY <1>1, <2>1, <2>2
  <2>3. CASE published' = Append(published, m)
    <3>1. Log!Broadcast(m)
      BY <1>1, <1>3, <1>4, <2>1, <2>3 DEF Log!Broadcast
    <3> QED
      BY <1>3, <3>1 DEF Log!Next
  <2> QED
    BY <1>1, <2>2, <2>3
<1>7. CASE reply'[r] = "202"
  <2>1. Accepted' = Accepted \cup {m}
    BY <1>1, <1>2, <1>5, <1>7 DEF Accepted
  <2>2. Log!Broadcast(m)
    BY <1>1, <1>3, <1>4, <1>7, <2>1 DEF Log!Broadcast
  <2> QED
    BY <1>3, <2>2 DEF Log!Next
<1> QED
  BY <1>6, <1>7

(* Every step of the service is a step of the log or changes nothing of it. *)
LEMMA StepLog ==
    ASSUME TypeOK, StepInv, DeliveryInv, [Next]_vars
    PROVE  [Log!Next]_<<messages, published, Accepted>>
<1>1. CASE UNCHANGED vars
  BY <1>1, LogStutters DEF vars, reqVars, redisVars
<1>2. ASSUME NEW r \in Requests,
             \/ Receive(r) \/ ReceiveInvalid(r)
             \/ LockAcquired(r) \/ LockHeld(r) \/ LockResent(r) \/ LockFails(r)
             \/ MemberFound(r) \/ MemberMissing(r) \/ MemberFails(r)
             \/ AssignID(r)
      PROVE  UNCHANGED <<messages, published, Accepted>>
  <2>1. /\ pc[r] # "done" /\ UNCHANGED <<messages, published>> /\ reply'[r] # "202"
        /\ \A s \in Requests \ {r} : reply'[s] = reply[s] /\ id'[s] = id[s]
    <3>1. pc[r] # "done"
      BY <1>2 DEF Receive, ReceiveInvalid, Arrives, LockAcquired, LockHeld, LockFails,
                  LockResent, AtLock, MemberFound, MemberMissing, MemberFails, AtMember, AssignID, Runs
    <3>2. reply[r] = "none"
      BY <3>1 DEF DeliveryInv, OwnerInv
    <3> QED
      BY <1>2, <3>1, <3>2
      DEF Receive, ReceiveInvalid, Arrives, LockAcquired, LockHeld, LockFails, AtLock,
          LockResent, Resend, MemberFound, MemberMissing, MemberFails, AtMember, AssignID, Goto, Reply,
          StatusOf, redisVars, TypeOK
  <2>2. reply[r] = "none"
    BY <2>1 DEF DeliveryInv, OwnerInv
  <2> QED
    BY <2>1, <2>2, LogStutters
<1>3. ASSUME NEW c \in Channels, NEW u \in Users,
             AddMember(c, u) \/ RemoveMember(c, u)
      PROVE  UNCHANGED <<messages, published, Accepted>>
  BY <1>3, LogStutters DEF AddMember, RemoveMember, reqVars, redisVars
<1>4. ASSUME NEW k \in Keys, ExpireLock(k)
      PROVE  UNCHANGED <<messages, published, Accepted>>
  BY <1>4, LogStutters DEF ExpireLock, reqVars
<1>5. ASSUME NEW n \in Nodes, Shutdown(n) \/ Start(n)
      PROVE  UNCHANGED <<messages, published, Accepted>>
  BY <1>5, LogStutters DEF Shutdown, Start, reqVars, redisVars
<1>6. ASSUME NEW n \in Nodes, Exit(n) \/ Crash(n)
      PROVE  UNCHANGED <<messages, published, Accepted>>
  <2>1. /\ UNCHANGED <<messages, published, id>>
        /\ \A s \in Requests : \/ reply'[s] = reply[s]
                               \/ pc[s] # "done" /\ reply'[s] = "cut"
    BY <1>6 DEF Exit, Crash, Halt, InFlight, redisVars
  <2>2. \A s \in Requests : pc[s] # "done" => reply[s] = "none"
    BY DEF DeliveryInv, OwnerInv
  <2> QED
    BY <2>1, <2>2, LogStutters
<1> QED
  BY <1>1, <1>2, <1>3, <1>4, <1>5, <1>6, InsertStores, PublishBroadcasts
  DEF Next, OrderlyNext, Handle

(* For any number of processes, requests and keys, the service implements  *)
(* the log that its readers rely on: stored under a fresh ID, then         *)
(* broadcast at most once per attempt of its PUBLISH, then perhaps         *)
(* answered 202.                                                           *)
THEOREM RefinesLog == Spec => ImplementsLog
<1> DEFINE I == TypeOK /\ StepInv /\ DeliveryInv
<1>1. Init => I /\ Log!Init
  <2>1. Init => Log!Init
    BY DEF Init, Log!Init, Accepted
  <2> QED
    BY <2>1, InitTypes, InitDelivery
<1>2. I /\ [Next]_vars => I'
  BY StepTypes, StepDelivery
<1>3. I /\ [Next]_vars => [Log!Next]_<<messages, published, Accepted>>
  BY StepLog
<1> HIDE DEF I
<1> QED
  BY <1>1, <1>2, <1>3, PTL DEF Spec, ImplementsLog, Log!Spec

-----------------------------------------------------------------------------
(* A conflict has a cause                                                  *)

(* Request s may have set its key.                                         *)
Tried(s) == Claimed(s) \/ retries[s] > 0

(* Every key set in Redis has a request that may have set it, and a        *)
(* request at or before the guard has claimed nothing.                     *)
ConflictInv ==
    /\ \A k \in locks : \E s \in Requests : Key(s) = k /\ Tried(s)
    /\ \A r \in Requests : pc[r] \in {"new", "lock"} => window[r] = -1
    /\ \A r \in Requests : pc[r] # "done" => reply[r] = "none"
    /\ ConflictHasCause

(* A step that takes no key, answers no 409 and leaves nobody at the guard *)
(* keeps the conflict invariant.                                           *)
LEMMA UnlockedStep ==
    ASSUME TypeOK, ConflictInv, locks' \subseteq locks, UNCHANGED window,
           \A r \in Requests : retries[r] > 0 => retries'[r] > 0,
           \A r \in Requests :
              \/ pc'[r] = pc[r] /\ reply'[r] = reply[r]
              \/ pc[r] # "done" /\ pc'[r] = "done" /\ reply'[r] # "409"
              \/ pc[r] # "done" /\ pc'[r] # "done" /\ reply'[r] = reply[r]
                 /\ (pc'[r] = "lock" => pc[r] = "new") /\ pc'[r] # "new"
    PROVE  ConflictInv'
<1>1. \A s \in Requests : Tried(s) => Tried(s)'
  BY DEF Claimed, Tried, ConflictInv
<1>2. \A r \in Requests : reply'[r] = "409" => reply[r] = "409"
  OBVIOUS
<1>3. ConflictHasCause'
  BY <1>1, <1>2 DEF ConflictInv, ConflictHasCause, Tried
<1> QED
  BY <1>1, <1>3 DEF ConflictInv

(* No step breaks the conflict invariant.                                  *)
LEMMA StepConflict ==
    ASSUME TypeOK, StepInv, ConflictInv, [Next]_vars
    PROVE  ConflictInv'
<1> USE MessageBounds
<1>1. CASE UNCHANGED vars
  <2>1. UNCHANGED <<locks, window, pc, reply, retries>>
    BY <1>1 DEF vars, reqVars, redisVars
  <2> QED
    BY <2>1, UnlockedStep
<1>2. ASSUME NEW r \in Requests, LockAcquired(r)
      PROVE  ConflictInv'
  <2>1. /\ pc[r] = "lock" /\ pc'[r] = "member" /\ UNCHANGED reply
        /\ window'[r] >= 0 /\ locks' = locks \cup {Key(r)}
        /\ \A s \in Requests \ {r} : /\ pc'[s] = pc[s] /\ window'[s] = window[s]
                                       /\ retries'[s] = retries[s]
    BY <1>2 DEF LockAcquired, Runs, Goto, TypeOK, StepInv, AtLock, KeyFree
  <2>2. Tried(r)' /\ \A s \in Requests : Tried(s) => Tried(s)'
    BY <2>1 DEF Claimed, Tried
  <2>3. \A k \in locks' : \E s \in Requests : Key(s) = k /\ Tried(s)'
    BY <2>1, <2>2 DEF ConflictInv
  <2>4. ConflictHasCause'
    BY <2>1, <2>2 DEF ConflictInv, ConflictHasCause, Tried
  <2> QED
    BY <2>1, <2>3, <2>4 DEF ConflictInv
<1>3. ASSUME NEW r \in Requests, LockFails(r)
      PROVE  ConflictInv'
  <2>1. /\ pc[r] = "lock" /\ pc'[r] = "done" /\ UNCHANGED <<window, retries>>
        /\ reply'[r] \in {"500", "cut"} /\ locks' \subseteq locks \cup {Key(r)}
        /\ \A s \in Requests \ {r} : pc'[s] = pc[s] /\ reply'[s] = reply[s]
    BY <1>3 DEF LockFails, Runs, Reply, TypeOK, AtLock, StatusOf
  <2>2. Tried(r)' /\ \A s \in Requests : Tried(s) => Tried(s)'
    BY <2>1 DEF Claimed, Tried
  <2>3. \A k \in locks' : \E s \in Requests : Key(s) = k /\ Tried(s)'
    BY <2>1, <2>2 DEF ConflictInv
  <2>4. ConflictHasCause'
    BY <2>1, <2>2 DEF ConflictInv, ConflictHasCause, Tried
  <2> QED
    BY <2>1, <2>3, <2>4 DEF ConflictInv
<1>4. ASSUME NEW r \in Requests, LockHeld(r)
      PROVE  ConflictInv'
  <2>1. /\ pc[r] = "lock" /\ pc'[r] = "done" /\ UNCHANGED <<window, locks, retries>>
        /\ Key(r) \in locks
        /\ \A s \in Requests \ {r} : pc'[s] = pc[s] /\ reply'[s] = reply[s]
    BY <1>4 DEF LockHeld, Runs, Reply, redisVars, TypeOK, AtLock, KeyFree,
                StatusOf
  <2>2. ~Claimed(r)
    BY <2>1 DEF Claimed, ConflictInv
  <2>3. \A s \in Requests : Tried(s) => (s # r \/ retries'[r] > 0) /\ Tried(s)'
    BY <2>1, <2>2 DEF Claimed, Tried
  <2>4. \A k \in locks' : \E s \in Requests : Key(s) = k /\ Tried(s)'
    BY <2>1, <2>3 DEF ConflictInv
  <2>5. \/ retries'[r] > 0
        \/ \E s \in Requests \ {r} : Key(s) = Key(r) /\ Tried(s)'
    BY <2>1, <2>3 DEF ConflictInv
  <2>6. ConflictHasCause'
    BY <2>1, <2>3, <2>5 DEF ConflictInv, ConflictHasCause, Tried
  <2> QED
    BY <2>1, <2>4, <2>6 DEF ConflictInv
<1>5. ASSUME NEW r \in Requests,
             \/ Receive(r) \/ ReceiveInvalid(r)
             \/ MemberFound(r) \/ MemberMissing(r) \/ MemberFails(r)
             \/ AssignID(r) \/ Insert(r) \/ InsertFails(r)
             \/ Publish(r) \/ PublishResent(r) \/ PublishFails(r)
      PROVE  ConflictInv'
  <2>1. /\ UNCHANGED <<window, locks>>
        /\ \A s \in Requests \ {r} : pc'[s] = pc[s] /\ reply'[s] = reply[s]
        /\ pc[r] # "done"
    BY <1>5 DEF Receive, ReceiveInvalid, MemberFound, MemberMissing,
                MemberFails, AssignID, Insert, InsertFails, Publish, PublishResent,
                PublishFails, Resend, Goto, Reply, Runs, redisVars, TypeOK, Arrives,
                AtMember, StatusOf, Draw, AtInsert, AtPublish, MaybePublished
  <2>2. \/ pc'[r] = "done" /\ reply'[r] # "409"
        \/ /\ pc'[r] \in {"lock", "member", "id", "insert", "publish"}
           /\ reply'[r] = reply[r] /\ (pc'[r] = "lock" => pc[r] = "new")
    BY <1>5 DEF Receive, ReceiveInvalid, MemberFound, MemberMissing,
                MemberFails, AssignID, Insert, InsertFails, Publish,
                PublishResent, PublishFails, Resend, Goto, Reply, Runs, TypeOK, Arrives, AtMember,
                StatusOf, Draw, AtInsert, AtPublish, MaybePublished
  <2>3. \A s \in Requests : retries[s] > 0 => retries'[s] > 0
    <3>1. CASE PublishResent(r)
      <4>1. retries[r] \in Nat
        BY DEF TypeOK
      <4> QED
        BY <3>1, <4>1, ResendTypes DEF PublishResent
    <3>2. CASE ~PublishResent(r)
      BY <1>5, <3>2 DEF Receive, ReceiveInvalid, Arrives, MemberFound, MemberMissing,
                        MemberFails, AtMember, AssignID, Insert, InsertFails, AtInsert,
                        Publish, PublishFails
    <3> QED
      BY <3>1, <3>2
  <2> QED
    BY <2>1, <2>2, <2>3, UnlockedStep
<1>6. ASSUME NEW c \in Channels, NEW u \in Users,
             AddMember(c, u) \/ RemoveMember(c, u)
      PROVE  ConflictInv'
  <2>1. UNCHANGED <<locks, window, pc, reply, retries>>
    BY <1>6 DEF AddMember, RemoveMember, reqVars, redisVars, Row
  <2> QED
    BY <2>1, UnlockedStep
<1>7. ASSUME NEW k \in Keys, ExpireLock(k)
      PROVE  ConflictInv'
  <2>1. UNCHANGED <<window, pc, reply, retries>> /\ locks' \subseteq locks
    BY <1>7 DEF ExpireLock, reqVars
  <2> QED
    BY <2>1, UnlockedStep
<1>8. ASSUME NEW n \in Nodes, Shutdown(n) \/ Start(n)
      PROVE  ConflictInv'
  <2>1. UNCHANGED <<locks, window, pc, reply, retries>>
    BY <1>8 DEF Shutdown, Start, reqVars, redisVars
  <2> QED
    BY <2>1, UnlockedStep
<1>9. ASSUME NEW n \in Nodes, Exit(n) \/ Crash(n)
      PROVE  ConflictInv'
  <2>1. /\ UNCHANGED <<locks, window, retries>>
        /\ \A s \in Requests :
              \/ pc'[s] = pc[s] /\ reply'[s] = reply[s]
              \/ pc[s] # "done" /\ pc'[s] = "done" /\ reply'[s] # "409"
    BY <1>9 DEF Exit, Crash, Halt, InFlight, redisVars
  <2> QED
    BY <2>1, UnlockedStep
<1>10. ASSUME NEW r \in Requests, LockResent(r)
       PROVE  ConflictInv'
  <2>1. /\ UNCHANGED <<pc, reply, window>> /\ locks' \subseteq locks \cup {Key(r)}
        /\ retries'[r] > 0
        /\ \A s \in Requests : retries[s] > 0 => retries'[s] > 0
    BY <1>10, ResendTypes DEF LockResent, AtLock, Resend, TypeOK
  <2>2. Tried(r)' /\ \A s \in Requests : Tried(s) => Tried(s)'
    BY <2>1 DEF Claimed, Tried
  <2>3. \A k \in locks' : \E s \in Requests : Key(s) = k /\ Tried(s)'
    BY <2>1, <2>2 DEF ConflictInv
  <2>4. ConflictHasCause'
    BY <2>1, <2>2 DEF ConflictInv, ConflictHasCause, Tried
  <2> QED
    BY <2>1, <2>3, <2>4 DEF ConflictInv
<1> QED
  BY <1>1, <1>2, <1>3, <1>4, <1>5, <1>6, <1>7, <1>8, <1>9, <1>10
  DEF Next, OrderlyNext, Handle

(* A request is answered 409 only if its own SET NX was sent again, or if  *)
(* another with its key got past the guard, failed there, or had its SET   *)
(* NX sent again.                                                          *)
THEOREM ConflictsHaveCause == Spec => []ConflictHasCause
<1> DEFINE I == TypeOK /\ StepInv /\ ConflictInv
<1>1. Init => I
  <2>1. Init => ConflictInv
    BY DEF Init, ConflictInv, ConflictHasCause
  <2> QED
    BY <2>1, InitTypes
<1>2. I /\ [Next]_vars => I'
  BY StepTypes, StepConflict
<1>3. I => ConflictHasCause
  BY DEF ConflictInv
<1> HIDE DEF I
<1> QED
  BY <1>1, <1>2, <1>3, PTL DEF Spec

-----------------------------------------------------------------------------
(* One answer, and no row behind a refusal                                 *)

(* The steps that may follow each step of the handler.                     *)
Following ==
    [new |-> {"lock", "member", "done"}, lock |-> {"member", "done"},
     member |-> {"id", "done"}, id |-> {"insert", "done"},
     insert |-> {"publish", "done"}, publish |-> {"done"}, done |-> {}]

(* Statuses that tell the client that its message was not taken.           *)
Refusals == {"400", "403", "409"}

(* A handler never goes back, so it ends after six calls at most; its      *)
(* client is answered once, by its last step; and its ID is never redrawn. *)
OnlyForward ==
    [][\A r \in Requests :
          /\ pc'[r] # pc[r] => pc'[r] \in Following[pc[r]]
          /\ reply'[r] # reply[r] =>
                reply[r] = "none" /\ pc[r] # "done" /\ pc'[r] = "done"
          /\ id'[r] # id[r] => id[r] = 0 /\ pc[r] = "id"]_vars

(* A refused request has no ID, and has ended.                             *)
RefusedInv ==
    \A r \in Requests : /\ reply[r] \in Refusals => id[r] = 0
                        /\ pc[r] # "done" => reply[r] = "none"

(* One request takes one step of its handler: it goes on without an        *)
(* answer, or it is answered, and it is refused only before it has an ID.  *)
Advances(r) ==
    \/ /\ pc'[r] = pc[r] /\ reply'[r] = reply[r] /\ id'[r] = id[r]
    \/ /\ pc[r] # "done" /\ pc'[r] \in Following[pc[r]] \ {"done"}
       /\ reply'[r] = reply[r]
       /\ id'[r] = id[r] \/ (id[r] = 0 /\ pc[r] = "id")
    \/ /\ pc[r] # "done" /\ pc'[r] = "done" /\ id'[r] = id[r]
       /\ reply'[r] \in Refusals => pc[r] \in {"new", "lock", "member"}

(* A handler that goes on, or answers, leaves the others where they are.   *)
LEMMA GotoAdvances ==
    ASSUME TypeOK, NEW r \in Requests, NEW step, Goto(r, step), UNCHANGED id,
           step \in Following[pc[r]] \ {"done"}, pc[r] # "done", NEW q \in Requests
    PROVE  Advances(q)
<1>1. pc'[q] = (IF q = r THEN step ELSE pc[q]) /\ reply' = reply /\ id' = id
  BY DEF Goto, TypeOK
<1>2. CASE q = r
  BY <1>1, <1>2, Zenon DEF Advances
<1>3. CASE q # r
  BY <1>1, <1>3 DEF Advances
<1> QED
  BY <1>2, <1>3

(* The same for its last step.                                             *)
LEMMA ReplyAdvances ==
    ASSUME TypeOK, NEW r \in Requests, NEW status, Reply(r, status), UNCHANGED id,
           pc[r] # "done", NEW q \in Requests,
           status \in Refusals => pc[r] \in {"new", "lock", "member"}
    PROVE  Advances(q)
<1>1. "cut" \notin Refusals
  BY DEF Refusals
<1>2. /\ pc'[q] = IF q = r THEN "done" ELSE pc[q]
      /\ q # r => reply'[q] = reply[q]
      /\ q = r => reply'[q] \in {status, "cut"}
  BY DEF Reply, TypeOK
<1> QED
  BY <1>1, <1>2 DEF Advances

(* Whatever happens, each handler stays where it is or advances.           *)
LEMMA StepAdvances ==
    ASSUME TypeOK, StepInv, [Next]_vars, NEW q \in Requests
    PROVE  Advances(q)
<1>1. /\ Following["new"] = {"lock", "member", "done"} /\ Following["lock"] = {"member", "done"}
      /\ Following["member"] = {"id", "done"} /\ Following["id"] = {"insert", "done"}
      /\ Following["insert"] = {"publish", "done"} /\ Following["publish"] = {"done"}
  BY DEF Following
<1>2. CASE UNCHANGED <<pc, reply, id>>
  BY <1>2 DEF Advances
<1>3. ASSUME NEW r \in Requests, Receive(r) \/ ReceiveInvalid(r)
      PROVE  Advances(q)
  <2>1. pc[r] = "new" /\ UNCHANGED id
    BY <1>3 DEF Receive, ReceiveInvalid, Arrives
  <2>2. Goto(r, "lock") \/ Goto(r, "member") \/ Reply(r, "400")
    BY <1>3 DEF Receive, ReceiveInvalid
  <2> QED
    BY <1>1, <2>1, <2>2, GotoAdvances, ReplyAdvances
<1>4. ASSUME NEW r \in Requests, LockAcquired(r) \/ LockHeld(r) \/ LockFails(r)
      PROVE  Advances(q)
  <2>1. pc[r] = "lock" /\ UNCHANGED id
    BY <1>4 DEF LockAcquired, LockHeld, LockFails, AtLock, Runs
  <2>2. Goto(r, "member") \/ \E err : Reply(r, StatusOf(err))
    BY <1>4 DEF LockAcquired, LockHeld, LockFails
  <2> QED
    BY <1>1, <2>1, <2>2, GotoAdvances, ReplyAdvances
<1>5. ASSUME NEW r \in Requests, MemberFound(r) \/ MemberMissing(r) \/ MemberFails(r)
      PROVE  Advances(q)
  <2>1. pc[r] = "member" /\ UNCHANGED id
    BY <1>5 DEF MemberFound, MemberMissing, MemberFails, AtMember, Runs
  <2>2. Goto(r, "id") \/ \E err : Reply(r, StatusOf(err))
    BY <1>5 DEF MemberFound, MemberMissing, MemberFails
  <2> QED
    BY <1>1, <2>1, <2>2, GotoAdvances, ReplyAdvances
<1>6. ASSUME NEW r \in Requests, AssignID(r)
      PROVE  Advances(q)
  <2>1. PICK i \in IDs : id' = [id EXCEPT ![r] = i]
    BY <1>6 DEF AssignID
  <2>2. pc[r] = "id" /\ id[r] = 0
    BY <1>6 DEF AssignID, Runs, StepInv
  <2> QED
    BY <1>1, <1>6, <2>1, <2>2 DEF AssignID, Goto, Advances, TypeOK
<1>7. ASSUME NEW r \in Requests, Insert(r) \/ InsertFails(r)
      PROVE  Advances(q)
  <2>1. pc[r] = "insert" /\ UNCHANGED id
    BY <1>7 DEF Insert, InsertFails, AtInsert, Runs
  <2>2. Goto(r, "publish") \/ Reply(r, "500")
    BY <1>7 DEF Insert, InsertFails, StatusOf
  <2>3. "500" \notin Refusals
    BY DEF Refusals
  <2> QED
    BY <1>1, <2>1, <2>2, <2>3, GotoAdvances, ReplyAdvances
<1>8. ASSUME NEW r \in Requests, Publish(r) \/ PublishFails(r)
      PROVE  Advances(q)
  <2>1. pc[r] = "publish" /\ UNCHANGED id
    BY <1>8 DEF Publish, PublishFails, MaybePublished, AtPublish, Runs
  <2>2. Reply(r, "202") \/ Reply(r, "500")
    BY <1>8 DEF Publish, PublishFails, StatusOf
  <2>3. "202" \notin Refusals /\ "500" \notin Refusals
    BY DEF Refusals
  <2> QED
    BY <1>1, <2>1, <2>2, <2>3, ReplyAdvances
<1>9. ASSUME NEW n \in Nodes, Exit(n) \/ Crash(n)
      PROVE  Advances(q)
  BY <1>9 DEF Exit, Crash, Halt, InFlight, Advances, Refusals
<1>10. ASSUME NEW c \in Channels, NEW u \in Users, AddMember(c, u) \/ RemoveMember(c, u)
       PROVE  Advances(q)
  BY <1>2, <1>10 DEF AddMember, RemoveMember, reqVars
<1>11. ASSUME \/ UNCHANGED vars \/ \E k \in Keys : ExpireLock(k)
              \/ \E n \in Nodes : Shutdown(n) \/ Start(n)
       PROVE  Advances(q)
  BY <1>2, <1>11 DEF vars, ExpireLock, Shutdown, Start, reqVars
<1>12. ASSUME NEW r \in Requests, LockResent(r) \/ PublishResent(r)
       PROVE  Advances(q)
  BY <1>2, <1>12 DEF LockResent, AtLock, PublishResent, MaybePublished, AtPublish, Resend
<1> QED
  BY <1>3, <1>4, <1>5, <1>6, <1>7, <1>8, <1>9, <1>10, <1>11, <1>12
  DEF Next, OrderlyNext, Handle

(* No step breaks it: whoever is refused has no ID, and nobody draws one   *)
(* after its last step.                                                    *)
LEMMA StepRefused ==
    ASSUME TypeOK, StepInv, RefusedInv, [Next]_vars
    PROVE  RefusedInv'
<1> SUFFICES ASSUME NEW r \in Requests
             PROVE  /\ reply'[r] \in Refusals => id'[r] = 0
                    /\ pc'[r] # "done" => reply'[r] = "none"
  BY DEF RefusedInv
<1>1. Advances(r)
  BY StepAdvances
<1>2. "none" \notin Refusals
  BY DEF Refusals
<1> QED
  BY <1>1, <1>2 DEF Advances, RefusedInv, StepInv

(* Handlers only move forward and are answered once, for any number of     *)
(* requests and processes and with every failure.  Together with the       *)
(* fairness of FairSpec this is why EveryRequestAnswered holds.            *)
THEOREM HandlersMoveForward == Spec => OnlyForward
<1> DEFINE I == TypeOK /\ StepInv /\ RefusedInv
           A == \A r \in Requests :
                   /\ pc'[r] # pc[r] => pc'[r] \in Following[pc[r]]
                   /\ reply'[r] # reply[r] =>
                         reply[r] = "none" /\ pc[r] # "done" /\ pc'[r] = "done"
                   /\ id'[r] # id[r] => id[r] = 0 /\ pc[r] = "id"
<1>1. Init => I
  BY InitTypes DEF Init, RefusedInv, Refusals
<1>2. I /\ [Next]_vars => I'
  BY StepTypes, StepRefused
<1>3. I /\ [Next]_vars => [A]_vars
  <2> SUFFICES ASSUME TypeOK, StepInv, RefusedInv, [Next]_vars, NEW r \in Requests
               PROVE  /\ pc'[r] # pc[r] => pc'[r] \in Following[pc[r]]
                      /\ reply'[r] # reply[r] =>
                            reply[r] = "none" /\ pc[r] # "done" /\ pc'[r] = "done"
                      /\ id'[r] # id[r] => id[r] = 0 /\ pc[r] = "id"
    OBVIOUS
  <2>1. Advances(r)
    BY StepAdvances
  <2>2. \A step \in Steps \ {"done"} : "done" \in Following[step]
    BY DEF Steps, Following
  <2>3. pc[r] \in Steps
    BY DEF TypeOK
  <2> QED
    BY <2>1, <2>2, <2>3 DEF Advances, RefusedInv
<1> HIDE DEF I, A
<1>4. Spec => [][A]_vars
  BY <1>1, <1>2, <1>3, PTL DEF Spec
<1> QED
  BY <1>4 DEF OnlyForward, A

(* A message that is stored has one request behind it, and its client was  *)
(* not told that it was refused.                                           *)
THEOREM RefusalsStoreNothing == Spec => []RowsWereNotRefused
<1> DEFINE I == TypeOK /\ StepInv /\ DeliveryInv /\ RefusedInv
<1>1. Init => I
  BY InitTypes, InitDelivery DEF Init, RefusedInv, Refusals
<1>2. I /\ [Next]_vars => I'
  BY StepTypes, StepDelivery, StepRefused
<1>3. I => RowsWereNotRefused
  <2> SUFFICES ASSUME OwnerInv, RefusedInv, NEW m \in messages
               PROVE  \E r \in Requests :
                         /\ Msg(r) = m /\ \A s \in Requests \ {r} : Msg(s) # m
                         /\ reply[r] \notin Refusals
    BY DEF RowsWereNotRefused, DeliveryInv, Refusals
  <2>1. PICK r \in Requests : id[r] # 0 /\ Msg(r) = m
    BY DEF OwnerInv, Owns
  <2>2. ASSUME NEW s \in Requests, Msg(s) = m
        PROVE  s = r
    <3>1. id[s] = id[r]
      BY <2>1, <2>2 DEF Msg
    <3> QED
      BY <2>1, <3>1 DEF OwnerInv
  <2>3. reply[r] \notin Refusals
    BY <2>1 DEF RefusedInv
  <2> QED
    BY <2>1, <2>2, <2>3
<1> HIDE DEF I
<1> QED
  BY <1>1, <1>2, <1>3, PTL DEF Spec

=============================================================================

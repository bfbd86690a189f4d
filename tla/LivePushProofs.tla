--------------------------- MODULE LivePushProofs ---------------------------
(***************************************************************************)
(* Proofs about the live path inside a ws-worker, for every set of         *)
(* sessions, users and channels, every capacity of the Send buffer and     *)
(* every number of messages.                                               *)
(***************************************************************************)
EXTENDS LivePush, SequenceTheorems, TLAPS

(* Within each channel the messages of a sequence have increasing IDs.     *)
Ordered(seq) ==
    \A i, j \in DOMAIN seq :
        i < j /\ seq[i].conv = seq[j].conv => seq[i].id < seq[j].id

(* Every message of S that is of a channel of T comes before those in T.   *)
Before(S, T) == \A m \in S, n \in T : m.conv = n.conv => m.id < n.id

(* The ID of a message is its place among the published ones.              *)
Numbered == \A i \in DOMAIN published : published[i].id = i

(* What the listeners of session s took from Redis and did not skip.       *)
Handled(s) == Range(wire[s]) \cup Range(Send[s]) \cup dropped[s] \cup torn[s]

-----------------------------------------------------------------------------
(* Sequences of messages                                                   *)

(* Append adds one element.                                                *)
LEMMA RangeAppend ==
    ASSUME NEW S, NEW seq \in Seq(S), NEW m \in S
    PROVE  Range(Append(seq, m)) = Range(seq) \cup {m}
<1>1. /\ Len(seq) \in Nat /\ DOMAIN seq = 1..Len(seq)
      /\ DOMAIN Append(seq, m) = 1..(Len(seq) + 1)
      /\ \A i \in 1..Len(seq) : Append(seq, m)[i] = seq[i]
      /\ Append(seq, m)[Len(seq) + 1] = m
  BY AppendProperties, LenProperties
<1>2. Range(Append(seq, m)) \subseteq Range(seq) \cup {m}
  BY <1>1 DEF Range
<1>3. Range(seq) \cup {m} \subseteq Range(Append(seq, m))
  BY <1>1 DEF Range
<1> QED
  BY <1>2, <1>3

(* Tail takes the head away.                                               *)
LEMMA RangeTail ==
    ASSUME NEW S, NEW seq \in Seq(S), seq # <<>>
    PROVE  /\ Head(seq) \in S /\ Tail(seq) \in Seq(S)
           /\ Range(seq) = {Head(seq)} \cup Range(Tail(seq))
<1>1. /\ Len(seq) \in Nat \ {0} /\ DOMAIN seq = 1..Len(seq)
      /\ Head(seq) = seq[1] /\ Head(seq) \in S
      /\ Tail(seq) \in Seq(S)
      /\ DOMAIN Tail(seq) = 1..(Len(seq) - 1)
      /\ \A i \in 1..(Len(seq) - 1) : Tail(seq)[i] = seq[i + 1]
  BY HeadTailProperties, EmptySeq, LenProperties
<1>2. Range(seq) \subseteq {Head(seq)} \cup Range(Tail(seq))
  <2>1. SUFFICES ASSUME NEW i \in DOMAIN seq, i # 1
                 PROVE  seq[i] \in Range(Tail(seq))
    BY <1>1 DEF Range
  <2>2. i - 1 \in DOMAIN Tail(seq) /\ Tail(seq)[i - 1] = seq[i]
    BY <1>1, <2>1
  <2> QED
    BY <2>2 DEF Range
<1>3. Range(Tail(seq)) \subseteq Range(seq)
  BY <1>1 DEF Range
<1>4. Head(seq) \in Range(seq)
  BY <1>1 DEF Range
<1> QED
  BY <1>1, <1>2, <1>3, <1>4

(* An ordered sequence stays so when a later message is appended.          *)
LEMMA OrderedAppend ==
    ASSUME NEW seq \in Seq(Message), NEW m \in Message,
           Ordered(seq), Before(Range(seq), {m})
    PROVE  Ordered(Append(seq, m))
<1>1. /\ Len(seq) \in Nat /\ DOMAIN seq = 1..Len(seq)
      /\ DOMAIN Append(seq, m) = 1..(Len(seq) + 1)
      /\ \A i \in 1..Len(seq) : Append(seq, m)[i] = seq[i]
      /\ Append(seq, m)[Len(seq) + 1] = m
  BY AppendProperties, LenProperties
<1>2. \A i \in DOMAIN seq : seq[i].conv = m.conv => seq[i].id < m.id
  BY DEF Before, Range
<1> QED
  BY <1>1, <1>2 DEF Ordered

(* The head of an ordered sequence comes before the rest, which is ordered. *)
LEMMA OrderedTail ==
    ASSUME NEW seq \in Seq(Message), seq # <<>>, Ordered(seq)
    PROVE  Ordered(Tail(seq)) /\ Before({Head(seq)}, Range(Tail(seq)))
<1>1. /\ Len(seq) \in Nat \ {0} /\ DOMAIN seq = 1..Len(seq)
      /\ Head(seq) = seq[1]
      /\ DOMAIN Tail(seq) = 1..(Len(seq) - 1)
      /\ \A i \in 1..(Len(seq) - 1) : Tail(seq)[i] = seq[i + 1]
  BY HeadTailProperties, EmptySeq, LenProperties
<1>2. Ordered(Tail(seq))
  BY <1>1 DEF Ordered
<1>3. \A i \in 1..(Len(seq) - 1) : seq[1].conv = seq[i + 1].conv => seq[1].id < seq[i + 1].id
  BY <1>1 DEF Ordered
<1> QED
  BY <1>1, <1>2, <1>3 DEF Before, Range

-----------------------------------------------------------------------------
(* Types                                                                   *)

(* The initial values have their types.                                    *)
LEMMA InitTypes == Init => TypeOK /\ Numbered
  BY LiveAssumption, EmptySeq DEF Init, TypeOK, Numbered

(* Publish makes a well-formed message.                                    *)
LEMMA PublishType ==
    ASSUME TypeOK, NEW c \in Channels, NEW u \in Users,
           Len(published) < MaxPublished
    PROVE  /\ Len(published) \in Nat /\ Len(published) + 1 \in 1..MaxPublished
           /\ [id |-> Len(published) + 1, conv |-> c, sender |-> u] \in Message
<1>1. Len(published) \in Nat
  BY LenProperties DEF TypeOK
<1> QED
  BY <1>1, LiveAssumption DEF Message

(* The message a listener takes is well-formed.                            *)
LEMMA TakeType ==
    ASSUME TypeOK, NEW s \in Sessions, NEW c \in Channels, Take(s, c)
    PROVE  /\ NextMsg(s, c) \in Message
           /\ Tail(msgCh[s][c]) \in Seq(Message)
  BY RangeTail DEF TypeOK, Take, NextMsg

(* No step leaves the types, and Send never exceeds its capacity.          *)
LEMMA StepTypes ==
    ASSUME TypeOK, Numbered, [Next]_vars
    PROVE  TypeOK' /\ Numbered'
<1> USE LiveAssumption DEF TypeOK, Numbered, redis, link, lost
<1>1. CASE UNCHANGED vars
  BY <1>1 DEF vars
<1>2. ASSUME NEW c \in Channels, NEW u \in Users, Publish(c, u)
      PROVE  TypeOK' /\ Numbered'
  <2> DEFINE m == [id |-> Len(published) + 1, conv |-> c, sender |-> u]
  <2>1. m \in Message
    BY <1>2, PublishType DEF Publish
  <2>2. PICK got \in SUBSET Subscribers(c) :
          /\ published' = Append(published, m)
          /\ msgCh' = [s \in Sessions |-> [msgCh[s] EXCEPT ![c] =
                         IF s \in got THEN Append(@, m) ELSE @]]
          /\ received' = [s \in Sessions |-> received[s] \cup {x \in {m} : s \in got}]
          /\ UNCHANGED <<sub, since, Send, wire, link, lost>>
    BY <1>2 DEF Publish
  <2> HIDE DEF m
  <2>3. published' \in Seq(Message) /\ Numbered'
    <3>1. m.id = Len(published) + 1
      BY DEF m
    <3>2. /\ Len(published) \in Nat /\ DOMAIN published = 1..Len(published)
          /\ published' \in Seq(Message)
          /\ DOMAIN published' = 1..(Len(published) + 1)
          /\ \A i \in 1..Len(published) : published'[i] = published[i]
          /\ published'[Len(published) + 1] = m
      BY <2>1, <2>2, AppendProperties, LenProperties
    <3>3. ASSUME NEW i \in 1..(Len(published) + 1)
          PROVE  published'[i].id = i
      <4>1. CASE i \in 1..Len(published)
        BY <3>2, <4>1
      <4>2. CASE i = Len(published) + 1
        BY <3>1, <3>2, <4>2
      <4> QED
        BY <3>2, <4>1, <4>2
    <3> QED
      BY <3>2, <3>3
  <2>4. msgCh' \in [Sessions -> [Channels -> Seq(Message)]]
    BY <2>1, <2>2
  <2>5. received' \in [Sessions -> SUBSET Message]
    BY <2>1, <2>2
  <2> QED
    BY <2>2, <2>3, <2>4, <2>5
<1>3. ASSUME NEW s \in Sessions, NEW c \in Channels, Subscribe(s, c)
      PROVE  TypeOK' /\ Numbered'
  <2>1. Len(published) \in 0..MaxPublished
    <3>1. Len(published) \in Nat /\ DOMAIN published = 1..Len(published)
      BY LenProperties
    <3>2. CASE Len(published) = 0
      BY <3>2
    <3>3. CASE Len(published) # 0
      <4>1. Len(published) \in DOMAIN published
        BY <3>1, <3>3
      <4>2. published[Len(published)] \in Message
        BY <4>1, ElementOfSeq, <3>1
      <4>3. published[Len(published)].id \in 1..MaxPublished
        BY <4>2 DEF Message
      <4>4. published[Len(published)].id = Len(published)
        BY <4>1
      <4> QED
        BY <3>1, <4>3, <4>4
    <3> QED
      BY <3>2, <3>3
  <2> QED
    BY <1>3, <2>1 DEF Subscribe
<1>4. ASSUME NEW s \in Sessions, NEW c \in Channels, Listen(s, c)
      PROVE  TypeOK' /\ Numbered'
  <2>0. Take(s, c)
    BY <1>4 DEF Listen, SkipOwn, Forward, Drop
  <2>1. NextMsg(s, c) \in Message /\ Tail(msgCh[s][c]) \in Seq(Message)
    BY <2>0, TakeType
  <2>2. msgCh' \in [Sessions -> [Channels -> Seq(Message)]]
    BY <2>0, <2>1 DEF Take
  <2>3. CASE SkipOwn(s, c)
    BY <2>2, <2>3 DEF SkipOwn, Take
  <2>4. CASE Forward(s, c)
    <3>1. Send' = [Send EXCEPT ![s] = Append(Send[s], NextMsg(s, c))]
      BY <2>4 DEF Forward, Enqueued
    <3>2. /\ Append(Send[s], NextMsg(s, c)) \in Seq(Message)
          /\ Len(Append(Send[s], NextMsg(s, c))) = Len(Send[s]) + 1
          /\ Len(Send[s]) \in Nat
      BY <2>1, AppendProperties, LenProperties
    <3>3. Len(Send[s]) < sendBuffer
      BY <2>4 DEF Forward, HasRoom
    <3>4. /\ Send' \in [Sessions -> Seq(Message)]
          /\ \A t \in Sessions : Len(Send'[t]) <= sendBuffer
      BY <3>1, <3>2, <3>3
    <3> QED
      BY <2>2, <2>4, <3>4 DEF Forward, Take
  <2>5. CASE Drop(s, c)
    BY <2>1, <2>2, <2>5 DEF Drop, Take
  <2> QED
    BY <1>4, <2>3, <2>4, <2>5 DEF Listen
<1>5. ASSUME NEW s \in Sessions, NEW c \in Channels, Unsubscribe(s, c)
      PROVE  TypeOK' /\ Numbered'
  BY <1>5 DEF Unsubscribe
<1>6. ASSUME NEW s \in Sessions, Write(s) \/ WriteFails(s)
      PROVE  TypeOK' /\ Numbered'
  <2>1. Send[s] # <<>> /\ Send' = [Send EXCEPT ![s] = Tail(Send[s])]
    BY <1>6 DEF Write, WriteFails, Dequeue, BufferRest
  <2>2. /\ Head(Send[s]) \in Message /\ Tail(Send[s]) \in Seq(Message)
        /\ Len(Send[s]) \in Nat /\ Len(Tail(Send[s])) = Len(Send[s]) - 1
    BY <2>1, HeadTailProperties, LenProperties
  <2>3. /\ Send' \in [Sessions -> Seq(Message)]
        /\ \A t \in Sessions : Len(Send'[t]) <= sendBuffer
    BY <2>1, <2>2
  <2>4. Append(wire[s], Head(Send[s])) \in Seq(Message)
    BY <2>2, AppendProperties
  <2>5. CASE Write(s)
    BY <2>3, <2>4, <2>5 DEF Write, Dequeue
  <2>6. CASE WriteFails(s)
    BY <2>2, <2>3, <2>6 DEF WriteFails, Dequeue, WriterEnds
  <2> QED
    BY <1>6, <2>5, <2>6
<1>7. ASSUME NEW s \in Sessions, PingFails(s) \/ Cancel(s) \/ Disconnect(s)
      PROVE  TypeOK' /\ Numbered'
  BY <1>7 DEF PingFails, Cancel, Disconnect, WriterEnds
<1> QED
  BY <1>1, <1>2, <1>3, <1>4, <1>5, <1>6, <1>7 DEF Next

(* Every variable keeps its type in every reachable state; in particular   *)
(* Send never holds more than its capacity.                                *)
THEOREM TypeCorrect == Spec => []TypeOK
<1> DEFINE I == TypeOK /\ Numbered
<1>1. Init => I
  BY InitTypes
<1>2. I /\ [Next]_vars => I'
  BY StepTypes
<1>3. I => TypeOK
  OBVIOUS
<1> HIDE DEF I
<1> QED
  BY <1>1, <1>2, <1>3, PTL DEF Spec

-----------------------------------------------------------------------------
(* The inductive invariant                                                 *)

(* A session that has not subscribed has no starting point; one that       *)
(* listens to a channel started at what was published by then.             *)
Joined(s) ==
    \A c \in Channels :
        /\ sub[s][c] = "off" => since[s][c] = -1
        /\ sub[s][c] = "on" => since[s][c] \in 0..Len(published)

(* What Redis delivered was published after the subscription.              *)
Genuine(s) ==
    \A m \in received[s] :
        /\ m.id \in DOMAIN published /\ published[m.id] = m
        /\ since[s][m.conv] \in 0..(m.id - 1)

(* A subscription holds the messages of its channel in order, all of them  *)
(* later than what its listener has handled.                               *)
QueueOrder(s) ==
    \A c \in Channels :
        /\ \A m \in Range(msgCh[s][c]) : m.conv = c /\ m \in received[s]
        /\ Ordered(msgCh[s][c])
        /\ Before(Handled(s), Range(msgCh[s][c]))

(* So does the buffer, within each channel, after what was written.        *)
BufferOrder(s) ==
    /\ Ordered(wire[s]) /\ Ordered(Send[s])
    /\ Before(Range(wire[s]), Range(Send[s]))

(* The books of a session: what was received is its own, waiting or        *)
(* handled, and what was handled is in one place.                          *)
Account(s) ==
    /\ Handled(s) \subseteq received[s]
    /\ \A m \in Handled(s) : m.sender # UserID[s]
    /\ \A m \in received[s] :
          \/ m.sender = UserID[s] \/ m \in Handled(s)
          \/ \E c \in Channels : m \in Range(msgCh[s][c])
    /\ Range(wire[s]) \cap (Range(Send[s]) \cup dropped[s] \cup torn[s]) = {}
    /\ Range(Send[s]) \cap (dropped[s] \cup torn[s]) = {}
    /\ dropped[s] \cap torn[s] = {}
    /\ \A m, n \in torn[s] : m = n
    /\ torn[s] # {} => s \notin writing

SessionInv(s) ==
    Joined(s) /\ Genuine(s) /\ QueueOrder(s) /\ BufferOrder(s) /\ Account(s)

LiveInv == TypeOK /\ Numbered /\ \A s \in Sessions : SessionInv(s)

(* Nothing is received at the start.                                       *)
LEMMA InitLive == Init => LiveInv
<1> SUFFICES ASSUME Init PROVE LiveInv
  OBVIOUS
<1>1. TypeOK /\ Numbered
  BY InitTypes
<1>2. Range(<<>>) = {} /\ DOMAIN (<<>>) = {}
  BY EmptySeq DEF Range
<1>3. ASSUME NEW s \in Sessions
      PROVE  SessionInv(s)
  BY <1>2 DEF Init, SessionInv, Joined, Genuine, QueueOrder, BufferOrder, Account,
              Handled, Ordered, Before
<1> QED
  BY <1>1, <1>3 DEF LiveInv

(* A step of others leaves a session's invariant alone.                    *)
LEMMA Frame ==
    ASSUME NEW t \in Sessions, SessionInv(t),
           UNCHANGED published,
           sub'[t] = sub[t], since'[t] = since[t], msgCh'[t] = msgCh[t],
           Send'[t] = Send[t], wire'[t] = wire[t], received'[t] = received[t],
           dropped'[t] = dropped[t], torn'[t] = torn[t],
           t \in writing' => t \in writing
    PROVE  SessionInv(t)'
  BY DEF SessionInv, Joined, Genuine, QueueOrder, BufferOrder, Account, Handled

(* Publish: the new message is later than every other, and those who get   *)
(* it have subscribed before.                                              *)
LEMMA PublishStep ==
    ASSUME LiveInv, NEW c \in Channels, NEW u \in Users, Publish(c, u),
           NEW s \in Sessions
    PROVE  SessionInv(s)'
<1> DEFINE m == [id |-> Len(published) + 1, conv |-> c, sender |-> u]
<1>1. /\ Len(published) \in Nat /\ m \in Message
      /\ m.id = Len(published) + 1 /\ m.conv = c
  BY PublishType DEF Publish, LiveInv
<1>2. PICK got \in SUBSET Subscribers(c) :
        /\ published' = Append(published, m)
        /\ msgCh' = [t \in Sessions |-> [msgCh[t] EXCEPT ![c] =
                       IF t \in got THEN Append(@, m) ELSE @]]
        /\ received' = [t \in Sessions |-> received[t] \cup {x \in {m} : t \in got}]
        /\ UNCHANGED <<sub, since, Send, wire, link, lost>>
  BY DEF Publish
<1> HIDE DEF m
<1>3. TypeOK /\ SessionInv(s)
  BY DEF LiveInv
<1>4. /\ DOMAIN published = 1..Len(published)
      /\ DOMAIN published' = 1..(Len(published) + 1)
      /\ Len(published') = Len(published) + 1
      /\ \A i \in 1..Len(published) : published'[i] = published[i]
      /\ published'[Len(published) + 1] = m
  BY <1>1, <1>2, <1>3, AppendProperties, LenProperties DEF TypeOK
<1>5. Joined(s)'
  BY <1>1, <1>2, <1>3, <1>4 DEF SessionInv, Joined
<1>6. /\ Handled(s)' = Handled(s)
      /\ sub'[s] = sub[s] /\ since'[s] = since[s] /\ Send'[s] = Send[s]
      /\ wire'[s] = wire[s] /\ dropped'[s] = dropped[s] /\ torn'[s] = torn[s]
      /\ writing' = writing
  BY <1>2 DEF Handled, link, lost
<1>7. BufferOrder(s)'
  BY <1>3, <1>6 DEF SessionInv, BufferOrder
<1>8. \A n \in received[s] : n \in Message /\ n.id < m.id
  BY <1>1, <1>3, <1>4 DEF SessionInv, Genuine, TypeOK
<1>9. CASE s \in got
  <2>1. /\ received'[s] = received[s] \cup {m}
        /\ msgCh'[s][c] = Append(msgCh[s][c], m)
        /\ \A d \in Channels : d # c => msgCh'[s][d] = msgCh[s][d]
        /\ msgCh[s][c] \in Seq(Message)
    BY <1>2, <1>3, <1>9 DEF TypeOK
  <2>2. Range(msgCh'[s][c]) = Range(msgCh[s][c]) \cup {m}
    BY <1>1, <2>1, RangeAppend
  <2>3. since[s][c] \in 0..Len(published)
    BY <1>2, <1>3, <1>9 DEF Subscribers, SessionInv, Joined
  <2>4. Genuine(s)'
    BY <1>1, <1>3, <1>4, <1>6, <2>1, <2>3 DEF SessionInv, Genuine
  <2>5. Before(Range(msgCh[s][c]), {m}) /\ Before(Handled(s), {m})
    BY <1>3, <1>8 DEF SessionInv, QueueOrder, Account, Before
  <2>6. Ordered(msgCh'[s][c])
    BY <1>1, <1>3, <2>1, <2>5, OrderedAppend DEF SessionInv, QueueOrder
  <2>7. Before(Handled(s), Range(msgCh'[s][c]))
    BY <1>3, <2>2, <2>5 DEF SessionInv, QueueOrder, Before
  <2>8. QueueOrder(s)'
    BY <1>1, <1>3, <1>6, <2>1, <2>2, <2>6, <2>7 DEF SessionInv, QueueOrder
  <2>9. Account(s)'
    <3>1. ASSUME NEW n \in received'[s]
          PROVE  \/ n.sender = UserID[s] \/ n \in Handled(s)
                 \/ \E d \in Channels : n \in Range(msgCh'[s][d])
      BY <1>3, <2>1, <2>2, <3>1 DEF SessionInv, Account
    <3> QED
      BY <1>3, <1>6, <2>1, <3>1 DEF SessionInv, Account
  <2> QED
    BY <1>5, <1>7, <2>4, <2>8, <2>9 DEF SessionInv
<1>10. CASE s \notin got
  <2>1. received'[s] = received[s] /\ msgCh'[s] = msgCh[s]
    BY <1>2, <1>3, <1>10 DEF TypeOK
  <2>2. Genuine(s)'
    BY <1>1, <1>3, <1>4, <1>6, <2>1 DEF SessionInv, Genuine
  <2>3. QueueOrder(s)' /\ Account(s)'
    BY <1>3, <1>6, <2>1 DEF SessionInv, QueueOrder, Account
  <2> QED
    BY <1>5, <1>7, <2>2, <2>3 DEF SessionInv
<1> QED
  BY <1>9, <1>10

(* Subscribe: whoever subscribes has received nothing of the channel yet.  *)
LEMMA SubscribeStep ==
    ASSUME LiveInv, NEW s \in Sessions, NEW c \in Channels, Subscribe(s, c)
    PROVE  SessionInv(s)'
<1>1. TypeOK /\ SessionInv(s) /\ Len(published) \in Nat
  BY LenProperties DEF LiveInv, TypeOK
<1>2. /\ sub[s][c] = "off" /\ sub'[s][c] = "on" /\ since'[s][c] = Len(published)
      /\ \A d \in Channels : d # c => since'[s][d] = since[s][d]
                                       /\ sub'[s][d] = sub[s][d]
      /\ UNCHANGED <<published, msgCh, Send, wire, writing, received, dropped, torn>>
  BY <1>1 DEF Subscribe, TypeOK, link, lost
<1>3. Joined(s)'
  BY <1>1, <1>2 DEF SessionInv, Joined
<1>4. \A m \in received[s] : m.conv \in Channels /\ m.conv # c
  <2>1. \A m \in received[s] : m \in Message
    BY <1>1 DEF TypeOK
  <2>2. \A m \in received[s] : m.conv \in Channels /\ since[s][m.conv] # -1
    BY <1>1, <2>1 DEF SessionInv, Genuine, Message
  <2> QED
    BY <1>1, <1>2, <2>2 DEF SessionInv, Joined
<1>5. Genuine(s)'
  BY <1>1, <1>2, <1>4 DEF SessionInv, Genuine
<1>6. QueueOrder(s)' /\ BufferOrder(s)' /\ Account(s)'
  BY <1>1, <1>2 DEF SessionInv, QueueOrder, BufferOrder, Account, Handled
<1> QED
  BY <1>3, <1>5, <1>6 DEF SessionInv

(* What a listener takes is the oldest of its channel, later than all that *)
(* was handled of it, and received.                                        *)
LEMMA TakeStep ==
    ASSUME LiveInv, NEW s \in Sessions, NEW c \in Channels, Take(s, c),
           NEW m, m = NextMsg(s, c)
    PROVE  /\ m \in Message /\ m \in received[s] /\ m.conv = c
           /\ Range(msgCh[s][c]) = {m} \cup Range(msgCh'[s][c])
           /\ \A d \in Channels : d # c => msgCh'[s][d] = msgCh[s][d]
           /\ Ordered(msgCh'[s][c])
           /\ Before({m}, Range(msgCh'[s][c])) /\ Before(Handled(s), {m})
           /\ m \notin Handled(s)
<1>1. TypeOK /\ SessionInv(s)
  BY DEF LiveInv
<1>2. /\ msgCh[s][c] \in Seq(Message) /\ msgCh[s][c] # <<>>
      /\ msgCh'[s][c] = Tail(msgCh[s][c]) /\ m = Head(msgCh[s][c])
      /\ \A d \in Channels : d # c => msgCh'[s][d] = msgCh[s][d]
  BY <1>1 DEF Take, TypeOK, NextMsg
<1>3. m \in Message /\ Range(msgCh[s][c]) = {m} \cup Range(msgCh'[s][c])
  BY <1>2, RangeTail
<1>4. Ordered(msgCh'[s][c]) /\ Before({m}, Range(msgCh'[s][c]))
  BY <1>1, <1>2, OrderedTail DEF SessionInv, QueueOrder
<1>5. m.conv = c /\ m \in received[s] /\ Before(Handled(s), {m})
  BY <1>1, <1>3 DEF SessionInv, QueueOrder, Before
<1>6. m \notin Handled(s)
  BY <1>3, <1>5 DEF Before, Message
<1> QED
  BY <1>2, <1>3, <1>4, <1>5, <1>6

(* SkipOwn, Forward and Drop: the message taken is skipped, or it moves to *)
(* the end of the buffer or to the dropped ones.                           *)
LEMMA ListenStep ==
    ASSUME LiveInv, NEW s \in Sessions, NEW c \in Channels, Listen(s, c)
    PROVE  SessionInv(s)'
<1> DEFINE m == NextMsg(s, c)
<1>1. TypeOK /\ SessionInv(s)
  BY DEF LiveInv
<1>2. Take(s, c)
  BY DEF Listen, SkipOwn, Forward, Drop
<1>3. /\ m \in Message /\ m \in received[s] /\ m.conv = c
      /\ Range(msgCh[s][c]) = {m} \cup Range(msgCh'[s][c])
      /\ \A d \in Channels : d # c => msgCh'[s][d] = msgCh[s][d]
      /\ Ordered(msgCh'[s][c])
      /\ Before({m}, Range(msgCh'[s][c])) /\ Before(Handled(s), {m})
      /\ m \notin Handled(s)
  BY <1>2, TakeStep
<1>4. /\ m.sender = UserID[s] => UNCHANGED <<Send, dropped>>
      /\ m.sender # UserID[s] =>
            \/ Send' = [Send EXCEPT ![s] = Append(Send[s], m)] /\ UNCHANGED dropped
            \/ dropped' = [dropped EXCEPT ![s] = @ \cup {m}] /\ UNCHANGED Send
  BY DEF Listen, SkipOwn, Forward, Drop, Own, Enqueued
<1>5. UNCHANGED <<published, sub, since, wire, writing, received, torn>>
  BY <1>2 DEF Take, redis, link
<1> HIDE DEF m
<1>6. Joined(s)' /\ Genuine(s)'
  BY <1>1, <1>5 DEF SessionInv, Joined, Genuine
<1>7. CASE m.sender = UserID[s]
  <2>1. Handled(s)' = Handled(s) /\ Send'[s] = Send[s] /\ dropped'[s] = dropped[s]
    BY <1>4, <1>5, <1>7 DEF Handled
  <2>2. QueueOrder(s)'
    BY <1>1, <1>3, <1>5, <2>1 DEF SessionInv, QueueOrder, Before
  <2>3. BufferOrder(s)'
    BY <1>1, <1>5, <2>1 DEF SessionInv, BufferOrder
  <2>4. Account(s)'
    BY <1>1, <1>3, <1>5, <1>7, <2>1 DEF SessionInv, Account
  <2> QED
    BY <1>6, <2>2, <2>3, <2>4 DEF SessionInv
<1>8. CASE m.sender # UserID[s]
  <2>1. \/ Range(Send'[s]) = Range(Send[s]) \cup {m} /\ dropped'[s] = dropped[s]
        \/ Send'[s] = Send[s] /\ dropped'[s] = dropped[s] \cup {m}
    <3>1. Send[s] \in Seq(Message)
      BY <1>1 DEF TypeOK
    <3>2. Range(Append(Send[s], m)) = Range(Send[s]) \cup {m}
      BY <1>3, <3>1, RangeAppend
    <3>3. \/ Send'[s] = Append(Send[s], m) /\ dropped'[s] = dropped[s]
          \/ Send'[s] = Send[s] /\ dropped'[s] = dropped[s] \cup {m}
      BY <1>1, <1>4, <1>8 DEF TypeOK
    <3> QED
      BY <3>2, <3>3
  <2>2. Handled(s)' = Handled(s) \cup {m}
    BY <1>5, <2>1 DEF Handled
  <2>3. Before(Handled(s)', Range(msgCh'[s][c]))
    BY <1>1, <1>3, <2>2 DEF SessionInv, QueueOrder, Before
  <2>4. \A d \in Channels : d # c => Before(Handled(s)', Range(msgCh'[s][d]))
    BY <1>1, <1>3, <2>2 DEF SessionInv, QueueOrder, Before
  <2>5. QueueOrder(s)'
    BY <1>1, <1>3, <1>5, <2>3, <2>4 DEF SessionInv, QueueOrder
  <2>6. Before(Range(Send[s]), {m}) /\ Before(Range(wire[s]), {m})
    BY <1>3 DEF Handled, Before
  <2>7. Before(Range(wire[s]), Range(Send'[s]))
    BY <1>1, <2>1, <2>6 DEF SessionInv, BufferOrder, Before
  <2>8. Ordered(Send'[s])
    <3>1. Send[s] \in Seq(Message) /\ Ordered(Send[s])
      BY <1>1 DEF TypeOK, SessionInv, BufferOrder
    <3>2. Ordered(Append(Send[s], m))
      BY <1>3, <2>6, <3>1, OrderedAppend
    <3>3. Send'[s] \in {Send[s], Append(Send[s], m)}
      BY <1>1, <1>4, <1>8 DEF TypeOK
    <3> QED
      BY <3>1, <3>2, <3>3
  <2>9. BufferOrder(s)'
    BY <1>1, <1>5, <2>7, <2>8 DEF SessionInv, BufferOrder
  <2>10. Account(s)'
    <3>1. ASSUME NEW n \in received[s]
          PROVE  \/ n.sender = UserID[s] \/ n \in Handled(s)'
                 \/ \E d \in Channels : n \in Range(msgCh'[s][d])
      BY <1>1, <1>3, <2>2 DEF SessionInv, Account
    <3>2. /\ Range(wire[s]) \cap (Range(Send'[s]) \cup dropped'[s] \cup torn[s]) = {}
          /\ Range(Send'[s]) \cap (dropped'[s] \cup torn[s]) = {}
          /\ dropped'[s] \cap torn[s] = {}
      BY <1>1, <1>3, <2>1 DEF SessionInv, Account, Handled
    <3> QED
      BY <1>1, <1>3, <1>5, <1>8, <2>2, <3>1, <3>2 DEF SessionInv, Account
  <2> QED
    BY <1>6, <2>5, <2>9, <2>10 DEF SessionInv
<1> QED
  BY <1>7, <1>8

(* Write and WriteFails: the oldest message of the buffer moves to the     *)
(* wire, or is torn and the last that the session's writer takes.          *)
LEMMA DequeueStep ==
    ASSUME LiveInv, NEW s \in Sessions, Write(s) \/ WriteFails(s)
    PROVE  SessionInv(s)'
<1> DEFINE m == Head(Send[s])
<1>1. TypeOK /\ SessionInv(s)
  BY DEF LiveInv
<1>2. /\ s \in writing /\ Send[s] # <<>> /\ Send'[s] = Tail(Send[s])
      /\ UNCHANGED <<published, sub, since, msgCh, received, dropped>>
  BY <1>1 DEF Write, WriteFails, Dequeue, BufferRest, TypeOK, redis
<1>3. Send[s] \in Seq(Message) /\ wire[s] \in Seq(Message)
  BY <1>1 DEF TypeOK
<1>4. m \in Message /\ Range(Send[s]) = {m} \cup Range(Send'[s])
  BY <1>2, <1>3, RangeTail
<1>5. Ordered(Send'[s]) /\ Before({m}, Range(Send'[s]))
  BY <1>1, <1>2, <1>3, OrderedTail DEF SessionInv, BufferOrder
<1>6. \/ wire'[s] = Append(wire[s], m) /\ UNCHANGED <<torn, writing>>
      \/ UNCHANGED wire /\ torn'[s] = torn[s] \cup {m} /\ writing' = writing \ {s}
  BY <1>1 DEF Write, WriteFails, WriterEnds, TypeOK, link
<1> HIDE DEF m
<1>7. \/ Range(wire'[s]) = Range(wire[s]) \cup {m} /\ UNCHANGED <<torn, writing>>
      \/ Range(wire'[s]) = Range(wire[s]) /\ torn'[s] = torn[s] \cup {m}
         /\ writing' = writing \ {s}
  <2>1. Range(Append(wire[s], m)) = Range(wire[s]) \cup {m}
    BY <1>3, <1>4, RangeAppend
  <2> QED
    BY <1>6, <2>1
<1>8. Handled(s)' = Handled(s)
  BY <1>2, <1>4, <1>7 DEF Handled
<1>9. m \notin Range(Send'[s])
  BY <1>4, <1>5 DEF Before, Message
<1>10. torn[s] = {}
  BY <1>1, <1>2 DEF SessionInv, Account
<1>11. Joined(s)' /\ Genuine(s)' /\ QueueOrder(s)'
  BY <1>1, <1>2, <1>8 DEF SessionInv, Joined, Genuine, QueueOrder
<1>12. BufferOrder(s)'
  <2>1. Ordered(wire[s]) /\ Before(Range(wire[s]), {m})
    BY <1>1, <1>4 DEF SessionInv, BufferOrder, Before
  <2>2. Ordered(Append(wire[s], m))
    BY <1>3, <1>4, <2>1, OrderedAppend
  <2>3. Ordered(wire'[s])
    BY <1>6, <2>1, <2>2
  <2>4. Before(Range(wire'[s]), Range(Send'[s]))
    BY <1>1, <1>4, <1>5, <1>7 DEF SessionInv, BufferOrder, Before
  <2> QED
    BY <1>5, <2>3, <2>4 DEF BufferOrder
<1>13. /\ Range(wire'[s]) \cap (Range(Send'[s]) \cup dropped[s] \cup torn'[s]) = {}
       /\ Range(Send'[s]) \cap (dropped[s] \cup torn'[s]) = {}
       /\ dropped[s] \cap torn'[s] = {}
  BY <1>1, <1>4, <1>7, <1>9 DEF SessionInv, Account
<1>14. (\A n, o \in torn'[s] : n = o) /\ (torn'[s] # {} => s \notin writing')
  BY <1>7, <1>10
<1>15. Account(s)'
  BY <1>1, <1>2, <1>8, <1>13, <1>14 DEF SessionInv, Account
<1> QED
  BY <1>11, <1>12, <1>15 DEF SessionInv

(* Every step preserves the invariant of every session.                    *)
LEMMA StepLive ==
    ASSUME LiveInv, [Next]_vars
    PROVE  LiveInv'
<1>1. TypeOK' /\ Numbered'
  BY StepTypes DEF LiveInv
<1>2. SUFFICES ASSUME NEW t \in Sessions
               PROVE  SessionInv(t)'
  BY <1>1 DEF LiveInv
<1>3. TypeOK /\ SessionInv(t)
  BY DEF LiveInv
<1>4. CASE UNCHANGED vars
  BY <1>3, <1>4, Frame DEF vars, redis, link, lost
<1>5. ASSUME NEW c \in Channels, NEW u \in Users, Publish(c, u)
      PROVE  SessionInv(t)'
  BY <1>5, PublishStep
<1>6. ASSUME NEW s \in Sessions, NEW c \in Channels, Subscribe(s, c)
      PROVE  SessionInv(t)'
  <2>1. CASE s = t
    BY <1>6, <2>1, SubscribeStep
  <2>2. CASE s # t
    BY <1>3, <1>6, <2>2, Frame DEF Subscribe, TypeOK, link, lost
  <2> QED
    BY <2>1, <2>2
<1>7. ASSUME NEW s \in Sessions, NEW c \in Channels, Listen(s, c)
      PROVE  SessionInv(t)'
  <2>1. CASE s = t
    BY <1>7, <2>1, ListenStep
  <2>2. CASE s # t
    <3>1. /\ msgCh'[t] = msgCh[t] /\ Send'[t] = Send[t] /\ dropped'[t] = dropped[t]
          /\ UNCHANGED <<published, sub, since, wire, writing, received, torn>>
      BY <1>3, <1>7, <2>2 DEF Listen, SkipOwn, Forward, Drop, Take, TypeOK, redis, link
    <3> QED
      BY <1>3, <3>1, Frame
  <2> QED
    BY <2>1, <2>2
<1>8. ASSUME NEW s \in Sessions, NEW c \in Channels, Unsubscribe(s, c)
      PROVE  SessionInv(t)'
  <2>1. /\ \A d \in Channels : sub'[t][d] \in {sub[t][d], "over"}
        /\ UNCHANGED <<published, since, msgCh, Send, wire, writing, received,
                       dropped, torn>>
    BY <1>3, <1>8 DEF Unsubscribe, TypeOK, link, lost
  <2> QED
    BY <1>3, <2>1 DEF SessionInv, Joined, Genuine, QueueOrder, BufferOrder, Account,
                      Handled
<1>9. ASSUME NEW s \in Sessions, Write(s) \/ WriteFails(s)
      PROVE  SessionInv(t)'
  <2>1. CASE s = t
    BY <1>9, <2>1, DequeueStep
  <2>2. CASE s # t
    <3>1. /\ Send'[t] = Send[t] /\ wire'[t] = wire[t] /\ torn'[t] = torn[t]
          /\ UNCHANGED <<published, sub, since, msgCh, received, dropped>>
          /\ t \in writing' => t \in writing
      BY <1>3, <1>9, <2>2 DEF Write, WriteFails, Dequeue, WriterEnds, TypeOK, redis,
                              link
    <3> QED
      BY <1>3, <3>1, Frame
  <2> QED
    BY <2>1, <2>2
<1>10. ASSUME NEW s \in Sessions, PingFails(s) \/ Cancel(s) \/ Disconnect(s)
       PROVE  SessionInv(t)'
  <2>1. /\ UNCHANGED <<published, sub, since, msgCh, Send, wire, received, dropped,
                       torn>>
        /\ t \in writing' => t \in writing
    BY <1>10 DEF PingFails, Cancel, Disconnect, WriterEnds, redis, lost
  <2> QED
    BY <1>3, <2>1, Frame
<1> QED
  BY <1>4, <1>5, <1>6, <1>7, <1>8, <1>9, <1>10 DEF Next

-----------------------------------------------------------------------------
(* No message vanishes                                                     *)

(* The books of every session balance.                                     *)
LEMMA AccountBalances == LiveInv => NothingVanishes
<1> SUFFICES ASSUME LiveInv, NEW s \in Sessions
             PROVE
        LET places == <<Range(wire[s]), Range(Send[s]), Waiting(s), dropped[s], torn[s]>>
            own == {m \in received[s] : m.sender = UserID[s]}
        IN  /\ received[s] = own \cup UNION Range(places)
            /\ \A i, j \in DOMAIN places : i # j => places[i] \cap places[j] = {}
            /\ own \cap ((UNION Range(places)) \ Waiting(s)) = {}
            /\ \A m, n \in torn[s] : m = n
  BY DEF NothingVanishes
<1> DEFINE W == Range(wire[s])
           B == Range(Send[s])
           Q == Waiting(s)
           D == dropped[s]
           T == torn[s]
           places == <<W, B, Q, D, T>>
           own == {m \in received[s] : m.sender = UserID[s]}
           all == UNION Range(places)
<1>1. TypeOK /\ SessionInv(s)
  BY DEF LiveInv
<1>2. Handled(s) = W \cup B \cup D \cup T
  BY DEF Handled
<1>3. Q \subseteq received[s] /\ Q \cap Handled(s) = {}
  <2>1. SUFFICES ASSUME NEW c \in Channels, NEW m \in Range(msgCh[s][c])
                 PROVE  m \in received[s] /\ m \notin Handled(s)
    BY DEF Waiting
  <2>2. m \in received[s] /\ Before(Handled(s), Range(msgCh[s][c]))
    BY <1>1 DEF SessionInv, QueueOrder
  <2>3. m.id \in Int
    BY <1>1, <2>2 DEF TypeOK, Message
  <2> QED
    BY <2>2, <2>3 DEF Before
<1>4. received[s] = own \cup Handled(s) \cup Q
  <2>1. \A m \in received[s] : m \in own \cup Handled(s) \cup Q
    BY <1>1 DEF SessionInv, Account, Waiting
  <2> QED
    BY <1>1, <1>3, <2>1 DEF SessionInv, Account
<1>5. /\ W \cap (B \cup D \cup T) = {} /\ B \cap (D \cup T) = {} /\ D \cap T = {}
      /\ \A m, n \in T : m = n
      /\ own \cap Handled(s) = {}
  BY <1>1 DEF SessionInv, Account
<1> HIDE DEF W, B, Q, D, T, own
<1>6. DOMAIN places = 1..5 /\ places[1] = W /\ places[2] = B /\ places[3] = Q
      /\ places[4] = D /\ places[5] = T
  OBVIOUS
<1>7. all = W \cup B \cup Q \cup D \cup T
  <2>1. Range(places) = {W, B, Q, D, T}
    <3>1. Range(places) \subseteq {W, B, Q, D, T}
      BY <1>6 DEF Range
    <3>2. /\ W \in Range(places) /\ B \in Range(places) /\ Q \in Range(places)
          /\ D \in Range(places) /\ T \in Range(places)
      BY <1>6 DEF Range
    <3> QED
      BY <3>1, <3>2
  <2> QED
    BY <2>1
<1>8. \A i, j \in DOMAIN places : i # j => places[i] \cap places[j] = {}
  BY <1>2, <1>3, <1>5, <1>6
<1> HIDE DEF all
<1>9. received[s] = own \cup all /\ own \cap (all \ Q) = {}
  BY <1>2, <1>3, <1>4, <1>5, <1>7
<1> QED
  BY <1>5, <1>8, <1>9 DEF W, B, Q, D, T, own, all

(* However full the buffer and whatever ends the session, a message Redis  *)
(* delivered is in exactly one place, and is lost only to a full buffer or *)
(* to the one write that failed.                                           *)
THEOREM NoMessageVanishes == Spec => []NothingVanishes
<1>1. Init => LiveInv
  BY InitLive
<1>2. LiveInv /\ [Next]_vars => LiveInv'
  BY StepLive
<1>3. LiveInv => NothingVanishes
  BY AccountBalances
<1> QED
  BY <1>1, <1>2, <1>3, PTL DEF Spec

-----------------------------------------------------------------------------
(* Refinement of BestEffort                                                *)

(* The IDs of a sequence of messages after one more.                       *)
LEMMA IDsOfAppend ==
    ASSUME NEW q \in Seq(Message), NEW m \in Message
    PROVE  [k \in DOMAIN Append(q, m) |-> Append(q, m)[k].id]
             = Append([k \in DOMAIN q |-> q[k].id], m.id)
<1> DEFINE ids == [k \in DOMAIN q |-> q[k].id]
           longer == [k \in DOMAIN Append(q, m) |-> Append(q, m)[k].id]
<1>1. /\ Len(q) \in Nat /\ DOMAIN q = 1..Len(q)
      /\ DOMAIN Append(q, m) = 1..(Len(q) + 1)
      /\ \A k \in 1..Len(q) : Append(q, m)[k] = q[k]
      /\ Append(q, m)[Len(q) + 1] = m
  OBVIOUS
<1>2. \A x \in Message : x.id \in 1..MaxPublished
  BY DEF Message
<1>3. ids \in Seq(1..MaxPublished) /\ Len(ids) = Len(q)
  <2>1. ids \in [1..Len(q) -> 1..MaxPublished]
    BY <1>1, <1>2
  <2> QED
    BY <1>1, <2>1
<1>4. /\ Append(ids, m.id) \in Seq(1..MaxPublished)
      /\ DOMAIN Append(ids, m.id) = 1..(Len(q) + 1)
      /\ \A k \in 1..Len(q) : Append(ids, m.id)[k] = ids[k]
      /\ Append(ids, m.id)[Len(q) + 1] = m.id
  <2> HIDE DEF ids
  <2>1. m.id \in 1..MaxPublished
    BY <1>2
  <2> QED
    BY <1>1, <1>3, <2>1
<1>5. \A k \in 1..(Len(q) + 1) : longer[k] = Append(ids, m.id)[k]
  <2> SUFFICES ASSUME NEW k \in 1..(Len(q) + 1)
               PROVE  longer[k] = Append(ids, m.id)[k]
    OBVIOUS
  <2>1. longer[k] = Append(q, m)[k].id
    BY <1>1
  <2>2. CASE k \in 1..Len(q)
    BY <1>1, <1>4, <2>1, <2>2
  <2>3. CASE k = Len(q) + 1
    BY <1>1, <1>4, <2>1, <2>3
  <2> QED
    BY <1>1, <2>2, <2>3
<1> QED
  BY <1>1, <1>4, <1>5

(* Writing the oldest message of the buffer shows the session a message    *)
(* that others published after it subscribed, later than every other it    *)
(* was shown of the channel.                                               *)
LEMMA WriteShows ==
    ASSUME LiveInv, NEW s \in Sessions, Write(s)
    PROVE  \E i \in DOMAIN published : Live!Show(s, i)
<1> DEFINE m == Head(Send[s])
<1>1. TypeOK /\ SessionInv(s)
  BY DEF LiveInv
<1>2. /\ Send[s] \in Seq(Message) /\ Send[s] # <<>>
      /\ wire \in [Sessions -> Seq(Message)]
      /\ wire' = [wire EXCEPT ![s] = Append(@, m)]
      /\ UNCHANGED <<published, since>>
  BY <1>1 DEF Write, Dequeue, TypeOK, redis
<1>3. m \in Message /\ m \in Range(Send[s])
  BY <1>2, RangeTail
<1> HIDE DEF m
<1>4. m \in Handled(s) /\ m \in received[s] /\ m.sender # UserID[s]
  BY <1>1, <1>3 DEF Handled, SessionInv, Account
<1>5. /\ m.id \in DOMAIN published /\ published[m.id] = m
      /\ since[s][m.conv] \in 0..(m.id - 1)
  BY <1>1, <1>4 DEF SessionInv, Genuine
<1>6. Live!InOrder(s, m.id)
  <2>0. \A k \in DOMAIN wire[s] : published[wire[s][k].id] = wire[s][k]
    <3> SUFFICES ASSUME NEW k \in DOMAIN wire[s]
                 PROVE  published[wire[s][k].id] = wire[s][k]
      OBVIOUS
    <3>1. wire[s][k] \in Range(wire[s])
      BY DEF Range
    <3>2. wire[s][k] \in received[s]
      BY <1>1, <3>1 DEF Handled, SessionInv, Account
    <3> QED
      BY <1>1, <3>2 DEF SessionInv, Genuine
  <2>1. SUFFICES ASSUME NEW k \in DOMAIN wire[s], wire[s][k].conv = m.conv
                 PROVE  wire[s][k].id < m.id
    BY <1>5, <2>0 DEF Live!InOrder, Shown
  <2>2. wire[s][k] \in Range(wire[s])
    BY DEF Range
  <2> QED
    BY <1>1, <1>3, <2>1, <2>2 DEF SessionInv, BufferOrder, Before
<1>7. Shown' = [Shown EXCEPT ![s] = Append(@, m.id)]
  <2>1. ASSUME NEW q \in Seq(Message)
        PROVE  [k \in DOMAIN Append(q, m) |-> Append(q, m)[k].id]
                 = Append([k \in DOMAIN q |-> q[k].id], m.id)
    BY <1>3, <2>1, IDsOfAppend
  <2>2. wire'[s] = Append(wire[s], m) /\ \A t \in Sessions \ {s} : wire'[t] = wire[t]
    BY <1>2
  <2>3. wire[s] \in Seq(Message)
    BY <1>2
  <2>4. [k \in DOMAIN wire'[s] |-> wire'[s][k].id] = Append(Shown[s], m.id)
    BY <2>1, <2>2, <2>3 DEF Shown
  <2> QED
    BY <2>2, <2>4 DEF Shown
<1> QED
  BY <1>2, <1>4, <1>5, <1>6, <1>7 DEF Live!Show

(* Every step of the live path is a step of BestEffort or leaves what it   *)
(* speaks of alone.                                                        *)
LEMMA StepRefines ==
    ASSUME LiveInv, [Next]_vars
    PROVE  [Live!Next]_<<published, since, Shown>>
<1>1. CASE UNCHANGED vars
  BY <1>1 DEF vars, redis, Shown
<1>2. ASSUME NEW c \in Channels, NEW u \in Users, Publish(c, u)
      PROVE  Live!Next
  <2> DEFINE m == [id |-> Len(published) + 1, conv |-> c, sender |-> u]
  <2>1. m \in Message
    BY <1>2, PublishType DEF Publish, LiveInv
  <2>2. Live!Publish(m)
    BY <1>2 DEF Publish, Live!Publish, Shown
  <2> HIDE DEF m
  <2> QED
    BY <2>1, <2>2 DEF Live!Next
<1>3. ASSUME NEW s \in Sessions, NEW c \in Channels, Subscribe(s, c)
      PROVE  Live!Next
  <2>1. since[s][c] = -1
    BY <1>3 DEF Subscribe, LiveInv, SessionInv, Joined
  <2>2. Live!Join(s, c)
    BY <1>3, <2>1 DEF Subscribe, Live!Join, Shown
  <2> QED
    BY <2>2 DEF Live!Next
<1>4. ASSUME NEW s \in Sessions, Write(s)
      PROVE  Live!Next
  BY <1>4, WriteShows DEF Live!Next
<1>5. ASSUME NEW s \in Sessions, NEW c \in Channels,
             Listen(s, c) \/ Unsubscribe(s, c)
      PROVE  UNCHANGED <<published, since, wire>>
  BY <1>5 DEF Listen, SkipOwn, Forward, Drop, Take, Unsubscribe, redis
<1>6. ASSUME NEW s \in Sessions, WriteFails(s) \/ PingFails(s) \/ Cancel(s) \/ Disconnect(s)
      PROVE  UNCHANGED <<published, since, wire>>
  BY <1>6 DEF WriteFails, PingFails, Cancel, Disconnect,
              Dequeue, redis
<1> QED
  BY <1>1, <1>2, <1>3, <1>4, <1>5, <1>6 DEF Next, Shown

(* The live path implements BestEffort: although several goroutines share  *)
(* its buffer, a session is shown only what others published after it      *)
(* subscribed, in the order of each channel and no broadcast twice.        *)
THEOREM LiveIsBestEffort == Spec => ImplementsBestEffort
<1>1. Init => LiveInv
  BY InitLive
<1>2. LiveInv /\ [Next]_vars => LiveInv'
  BY StepLive
<1>3. Init => Live!Init
  <2>1. \A s \in Sessions : [k \in DOMAIN <<>> |-> wire[s][k].id] = <<>>
    OBVIOUS
  <2> QED
    BY <2>1 DEF Init, Live!Init, Shown
<1>4. LiveInv /\ [Next]_vars => [Live!Next]_<<published, since, Shown>>
  BY StepRefines
<1> QED
  BY <1>1, <1>2, <1>3, <1>4, PTL DEF Spec, ImplementsBestEffort, Live!Spec

-----------------------------------------------------------------------------
(* What the client of a session sees                                       *)

(* The messages on a socket: others' ones, published after the session     *)
(* subscribed to their channel, and within a channel in the order of their *)
(* publication, so no broadcast appears twice.                             *)
ShownInOrder ==
    \A s \in Sessions :
        /\ \A i, j \in DOMAIN wire[s] :
              i < j /\ wire[s][i].conv = wire[s][j].conv => wire[s][i].id < wire[s][j].id
        /\ \A i \in DOMAIN wire[s] :
              /\ wire[s][i].sender # UserID[s]
              /\ published[wire[s][i].id] = wire[s][i]
              /\ since[s][wire[s][i].conv] \in 0..(wire[s][i].id - 1)

(* No interleaving of a session's listeners and its writer shows its       *)
(* client a channel out of order, a broadcast twice, an echo of its own or *)
(* one from before the subscription.                                       *)
THEOREM SocketsAreInOrder == Spec => []ShownInOrder
<1>1. Init => LiveInv
  BY InitLive
<1>2. LiveInv /\ [Next]_vars => LiveInv'
  BY StepLive
<1>3. LiveInv => ShownInOrder
  <2>1. SUFFICES ASSUME LiveInv, NEW s \in Sessions
                 PROVE  /\ Ordered(wire[s])
                        /\ \A i \in DOMAIN wire[s] :
                              /\ wire[s][i].sender # UserID[s]
                              /\ published[wire[s][i].id] = wire[s][i]
                              /\ since[s][wire[s][i].conv] \in 0..(wire[s][i].id - 1)
    BY DEF ShownInOrder, Ordered
  <2>2. SessionInv(s)
    BY <2>1 DEF LiveInv
  <2>3. \A i \in DOMAIN wire[s] : wire[s][i] \in Handled(s)
    BY DEF Handled, Range
  <2> QED
    BY <2>2, <2>3 DEF SessionInv, BufferOrder, Account, Genuine
<1> QED
  BY <1>1, <1>2, <1>3, PTL DEF Spec

=============================================================================

--------------------------- MODULE DirectoryProofs ---------------------------
(***************************************************************************)
(* Proofs about users and channels, for every set of registrations, names  *)
(* and creations and for every content of the requests.                    *)
(***************************************************************************)
EXTENDS Directory, SequenceTheorems, FiniteSetTheorems, TLAPS

(* The users a creation asks for: its member_ids and its creator.          *)
Asked(k) == ToSet(Request[k].memberIDs) \cup {Request[k].createdBy}

(* A request that is being handled has no answer, and a registration that  *)
(* has not been inserted has no row.                                       *)
Progress ==
    /\ \A q \in Calls : pc[q] # "done" => reply[q] = "none"
    /\ \A r \in Registrations : pc[r] \in {"new", "insert"} => r \notin users

(* While a creation enrols, its channel is there, and every user it asks   *)
(* for that was registered when it started is a member, was removed, or is *)
(* still to be enrolled.                                                   *)
Enrolling ==
    \A k \in Creations : pc[k] = "enrol" =>
        /\ k \in channels
        /\ known[k] \subseteq users
        /\ \A u \in Asked(k) \cap known[k] :
              <<k, u>> \in members \/ <<k, u>> \in removed \/ u \in ToSet(todo[k])

-----------------------------------------------------------------------------
(* Sequences of users                                                      *)

(* Every member of a nonempty sequence is its head or is in its tail.      *)
LEMMA ToSetTail ==
    ASSUME NEW S, NEW seq \in Seq(S), seq # <<>>
    PROVE  ToSet(seq) \subseteq {Head(seq)} \cup ToSet(Tail(seq))
<1>1. /\ Len(seq) \in Nat \ {0}
      /\ Tail(seq) \in Seq(S)
      /\ Len(Tail(seq)) = Len(seq) - 1
      /\ \A i \in 1..(Len(seq) - 1) : Tail(seq)[i] = seq[i + 1]
  BY HeadTailProperties, EmptySeq, LenProperties
<1>2. SUFFICES ASSUME NEW i \in DOMAIN seq, seq[i] # Head(seq)
               PROVE  seq[i] \in ToSet(Tail(seq))
  BY DEF ToSet
<1>3. i \in 2..Len(seq)
  BY <1>1, <1>2
<1>4. i - 1 \in 1..(Len(seq) - 1) /\ Tail(seq)[i - 1] = seq[i]
  BY <1>1, <1>3
<1>5. i - 1 \in DOMAIN Tail(seq)
  BY <1>1, <1>4, LenProperties
<1> QED
  BY <1>4, <1>5 DEF ToSet

(* The loop of a creation runs over registrations, and over all of them    *)
(* that the request asks for, the creator included.                        *)
LEMMA InitialMembersAsked ==
    ASSUME NEW k \in Creations
    PROVE  /\ InitialMembers(k) \in Seq(Registrations)
           /\ Asked(k) \subseteq ToSet(InitialMembers(k))
<1> DEFINE ids == Request[k].memberIDs
           by == Request[k].createdBy
<1>1. ids \in Seq(Registrations) /\ by \in Registrations
  BY DirectoryAssumption
<1>2. Len(ids) \in Nat /\ DOMAIN ids = 1..Len(ids)
  BY <1>1, LenProperties
<1>3. CASE Contains(ids, by)
  <2>1. InitialMembers(k) = ids
    BY <1>3 DEF InitialMembers
  <2>2. by \in ToSet(ids)
    BY <1>2, <1>3 DEF Contains, ToSet
  <2> QED
    BY <1>1, <2>1, <2>2 DEF Asked
<1>4. CASE ~Contains(ids, by)
  <2>1. InitialMembers(k) = Append(ids, by)
    BY <1>4 DEF InitialMembers
  <2> HIDE DEF ids, by
  <2>2. /\ Append(ids, by) \in Seq(Registrations)
        /\ DOMAIN Append(ids, by) = 1..(Len(ids) + 1)
        /\ \A i \in 1..Len(ids) : Append(ids, by)[i] = ids[i]
        /\ Append(ids, by)[Len(ids) + 1] = by
    BY <1>1, <1>2, AppendProperties, LenProperties
  <2>3. ToSet(ids) \subseteq ToSet(Append(ids, by))
    BY <1>2, <2>2 DEF ToSet
  <2>4. by \in ToSet(Append(ids, by))
    BY <1>2, <2>2 DEF ToSet
  <2> QED
    BY <2>1, <2>2, <2>3, <2>4 DEF Asked, ids, by
<1> QED
  BY <1>3, <1>4

-----------------------------------------------------------------------------
(* Types                                                                   *)

(* The initial values have their types.                                    *)
LEMMA InitTypes == Init => TypeOK
  BY EmptySeq DEF Init, TypeOK

(* No step leaves the types; a row of channel_members always has a row of  *)
(* conversations and a row of users behind it.                             *)
LEMMA StepTypes ==
    ASSUME TypeOK, [Next]_vars
    PROVE  TypeOK'
<1> USE DEF TypeOK, Calls, rows, history
<1>1. CASE UNCHANGED vars
  BY <1>1 DEF vars
<1>2. ASSUME NEW r \in Registrations,
             RegisterInvalid(r) \/ NameFree(r) \/ NameTaken(r) \/ NameCheckFails(r)
      PROVE  TypeOK'
  BY <1>2 DEF RegisterInvalid, NameFree, NameTaken, NameCheckFails, Reads, Goto,
              Reply
<1>3. ASSUME NEW r \in Registrations,
             InsertUser(r) \/ InsertUserRefused(r) \/ InsertUserFails(r)
      PROVE  TypeOK'
  BY <1>3 DEF InsertUser, InsertUserRefused, InsertUserFails, UserInserted, Reads,
              Reply
<1>4. ASSUME NEW k \in Creations, CreateRejected(k) \/ Created(k)
      PROVE  TypeOK'
  BY <1>4 DEF CreateRejected, Created, Reads, Reply
<1>5. ASSUME NEW k \in Creations, InsertChannel(k) \/ InsertChannelFails(k)
      PROVE  TypeOK'
  BY <1>5, InitialMembersAsked DEF InsertChannel, InsertChannelFails, Goto, Reply
<1>6. ASSUME NEW k \in Creations, Enrol(k) \/ EnrolFails(k)
      PROVE  TypeOK'
  <2>1. Tail(todo[k]) \in Seq(Registrations)
    BY <1>6, HeadTailProperties DEF Enrol, EnrolFails
  <2> QED
    BY <1>6, <2>1 DEF Enrol, EnrolFails, MemberRow, Reply
<1>7. ASSUME NEW k \in Creations, NEW u \in Registrations,
             AddMember(k, u) \/ RemoveMember(k, u)
      PROVE  TypeOK'
  BY <1>7 DEF AddMember, RemoveMember, MemberRow
<1>8. ASSUME NEW q \in Calls, Cut(q)
      PROVE  TypeOK'
  BY <1>8 DEF Cut, Reads, Reply
<1> QED
  BY <1>1, <1>2, <1>3, <1>4, <1>5, <1>6, <1>7, <1>8
  DEF Next, ReliableNext, Failure

(* Every variable keeps its type in every reachable state: the foreign     *)
(* keys of channel_members hold through every failure.                     *)
THEOREM TypeCorrect == Spec => []TypeOK
<1>1. Init => TypeOK
  BY InitTypes
<1>2. TypeOK /\ [Next]_vars => TypeOK'
  BY StepTypes
<1> QED
  BY <1>1, <1>2, PTL DEF Spec

-----------------------------------------------------------------------------
(* Registration                                                            *)

(* Nothing is answered and nothing is stored at the start.                 *)
LEMMA InitNames == Init => Progress /\ OneOwnerPerName
  BY DEF Init, Progress, OneOwnerPerName, Calls

(* The UNIQUE index, not the look-up before it, keeps a name's owner the   *)
(* only one; a refused registration is answered before it is inserted.     *)
LEMMA StepNames ==
    ASSUME TypeOK, Progress, OneOwnerPerName, [Next]_vars
    PROVE  Progress' /\ OneOwnerPerName'
<1> USE DirectoryAssumption
    DEF TypeOK, Progress, OneOwnerPerName, Calls, rows, history, HandleUserByID,
        UserByID
<1>1. CASE UNCHANGED vars
  BY <1>1 DEF vars
<1>2. ASSUME NEW r \in Registrations,
             RegisterInvalid(r) \/ NameFree(r) \/ NameTaken(r) \/ NameCheckFails(r)
      PROVE  Progress' /\ OneOwnerPerName'
  BY <1>2 DEF RegisterInvalid, NameFree, NameTaken, NameCheckFails, Reads, Goto,
              Reply, UsernameExists
<1>3. ASSUME NEW r \in Registrations,
             InsertUser(r) \/ InsertUserRefused(r) \/ InsertUserFails(r)
      PROVE  Progress' /\ OneOwnerPerName'
  <2>1. PICK status \in {"201", "500"} :
          /\ Reply(r, status)
          /\ \/ UserInserted(r)
             \/ status = "500" /\ Reads(r, "insert")
    BY <1>3 DEF InsertUser, InsertUserRefused, InsertUserFails
  <2>2. CASE UserInserted(r)
    <3>1. /\ users' = users \cup {r}
          /\ \A u \in users : Username[u] # Username[r]
          /\ reply[r] = "none"
      BY <2>2 DEF UserInserted, UsernameExists
    <3>2. Progress'
      BY <2>1, <3>1 DEF Reply
    <3>3. \A u, v \in users' : Username[u] = Username[v] => u = v
      BY <3>1
    <3>4. ASSUME NEW q \in Registrations
          PROVE  /\ reply'[q] = "201" => q \in users'
                 /\ reply'[q] = "409" =>
                       q \notin users' /\ \E u \in users' : Username[u] = Username[q]
      BY <2>1, <3>1 DEF Reply
    <3> QED
      BY <3>2, <3>3, <3>4
  <2>3. CASE status = "500" /\ Reads(r, "insert")
    BY <2>1, <2>3 DEF Reads, Reply
  <2> QED
    BY <2>1, <2>2, <2>3
<1>4. ASSUME NEW k \in Creations,
             \/ CreateRejected(k) \/ Created(k)
             \/ InsertChannel(k) \/ InsertChannelFails(k)
             \/ Enrol(k) \/ EnrolFails(k)
      PROVE  Progress' /\ OneOwnerPerName'
  BY <1>4 DEF CreateRejected, Created, InsertChannel, InsertChannelFails, Enrol,
              EnrolFails, Reads, Goto, Reply
<1>5. ASSUME NEW k \in Creations, NEW u \in Registrations,
             AddMember(k, u) \/ RemoveMember(k, u)
      PROVE  Progress' /\ OneOwnerPerName'
  BY <1>5 DEF AddMember, RemoveMember
<1>6. ASSUME NEW q \in Calls, Cut(q)
      PROVE  Progress' /\ OneOwnerPerName'
  BY <1>6 DEF Cut, Reads, Reply
<1> QED
  BY <1>1, <1>2, <1>3, <1>4, <1>5, <1>6 DEF Next, ReliableNext, Failure

(* However registrations overlap and fail, a name has one owner; whoever   *)
(* was answered 201 has its row, and whoever was answered 409 has none.    *)
THEOREM NamesHaveOneOwner == Spec => []OneOwnerPerName
<1> DEFINE I == TypeOK /\ Progress /\ OneOwnerPerName
<1>1. Init => I
  BY InitTypes, InitNames
<1>2. I /\ [Next]_vars => I'
  BY StepTypes, StepNames
<1>3. I => OneOwnerPerName
  OBVIOUS
<1> HIDE DEF I
<1> QED
  BY <1>1, <1>2, <1>3, PTL DEF Spec

-----------------------------------------------------------------------------
(* Creation of a channel                                                   *)

(* No channel is being made at the start.                                  *)
LEMMA InitListed == Init => Enrolling /\ CreatedIsListed
  BY DEF Init, Enrolling, CreatedIsListed, Calls

(* Each round of the loop turns one user to be enrolled into a member, and *)
(* only RemoveMember takes a row away, which it records.                   *)
LEMMA StepListed ==
    ASSUME TypeOK, Progress, Enrolling, CreatedIsListed, [Next]_vars
    PROVE  Enrolling' /\ CreatedIsListed'
<1> USE DirectoryAssumption
    DEF TypeOK, Enrolling, CreatedIsListed, Calls, rows, history, GetChannel,
        ChannelByID, listChannels, GetByUser, Asked
<1>1. CASE UNCHANGED vars
  BY <1>1 DEF vars
<1>2. ASSUME NEW r \in Registrations,
             \/ RegisterInvalid(r) \/ NameFree(r) \/ NameTaken(r)
             \/ NameCheckFails(r) \/ InsertUser(r) \/ InsertUserRefused(r)
             \/ InsertUserFails(r)
      PROVE  Enrolling' /\ CreatedIsListed'
  <2>1. /\ \A k \in Creations : pc'[k] = pc[k] /\ reply'[k] = reply[k]
        /\ users \subseteq users'
        /\ UNCHANGED <<channels, members, todo, history>>
    BY <1>2 DEF RegisterInvalid, NameFree, NameTaken, NameCheckFails, InsertUser,
                InsertUserRefused, InsertUserFails, UserInserted, Reads, Goto, Reply
  <2> QED
    BY <2>1
<1>3. ASSUME NEW k \in Creations, CreateRejected(k)
      PROVE  Enrolling' /\ CreatedIsListed'
  BY <1>3 DEF CreateRejected, Reads, Reply
<1>4. ASSUME NEW k \in Creations, Created(k)
      PROVE  Enrolling' /\ CreatedIsListed'
  <2>1. ToSet(todo[k]) = {}
    BY <1>4, EmptySeq DEF Created, ToSet
  <2> QED
    BY <1>4, <2>1 DEF Created, Reads, Reply
<1>5. ASSUME NEW k \in Creations, InsertChannel(k)
      PROVE  Enrolling' /\ CreatedIsListed'
  <2>1. reply[k] = "none"
    BY <1>5 DEF InsertChannel, Progress
  <2>2. Asked(k) \subseteq ToSet(todo'[k])
    BY <1>5, InitialMembersAsked DEF InsertChannel
  <2> QED
    BY <1>5, <2>1, <2>2 DEF InsertChannel, Goto
<1>6. ASSUME NEW k \in Creations, InsertChannelFails(k)
      PROVE  Enrolling' /\ CreatedIsListed'
  BY <1>6 DEF InsertChannelFails, Reply
<1>7. ASSUME NEW k \in Creations, Enrol(k)
      PROVE  Enrolling' /\ CreatedIsListed'
  <2>1. ToSet(todo[k]) \subseteq {Head(todo[k])} \cup ToSet(todo'[k])
    BY <1>7, ToSetTail DEF Enrol
  <2>2. \A u \in {Head(todo[k])} \cap users : <<k, u>> \in members'
    BY <1>7 DEF Enrol, MemberRow
  <2>3. reply[k] = "none"
    BY <1>7 DEF Enrol, Progress
  <2> QED
    BY <1>7, <2>1, <2>2, <2>3 DEF Enrol
<1>8. ASSUME NEW k \in Creations, EnrolFails(k)
      PROVE  Enrolling' /\ CreatedIsListed'
  BY <1>8 DEF EnrolFails, Reply
<1>9. ASSUME NEW k \in Creations, NEW u \in Registrations,
             AddMember(k, u) \/ RemoveMember(k, u)
      PROVE  Enrolling' /\ CreatedIsListed'
  BY <1>9 DEF AddMember, RemoveMember
<1>10. ASSUME NEW q \in Calls, Cut(q)
       PROVE  Enrolling' /\ CreatedIsListed'
  BY <1>10 DEF Cut, Reads, Reply
<1> QED
  BY <1>1, <1>2, <1>3, <1>4, <1>5, <1>6, <1>7, <1>8, <1>9, <1>10
  DEF Next, ReliableNext, Failure

(* A creation answered 201 made a channel that everybody it asked for, and *)
(* who was registered when it started, finds in the list until removed,    *)
(* whatever other requests did between its inserts.                        *)
THEOREM CreatedChannelsAreListed == Spec => []CreatedIsListed
<1> DEFINE I == TypeOK /\ Progress /\ OneOwnerPerName /\ Enrolling /\ CreatedIsListed
<1>1. Init => I
  BY InitTypes, InitNames, InitListed
<1>2. I /\ [Next]_vars => I'
  BY StepTypes, StepNames, StepListed
<1>3. I => CreatedIsListed
  OBVIOUS
<1> HIDE DEF I
<1> QED
  BY <1>1, <1>2, <1>3, PTL DEF Spec

-----------------------------------------------------------------------------
(* Who gets into a channel                                                 *)

(* A row of channel_members is written by AddMember, or by the creation of *)
(* its channel for a user that the creation asked for: the rest of a loop  *)
(* is never that of another request.                                       *)
OnlyAskedEnter ==
    [][\A k \in Creations, u \in Registrations :
          <<k, u>> \in members' \ members =>
              AddMember(k, u) \/ (pc[k] = "enrol" /\ u \in Asked(k))]_vars

(* Every operation but POST /channels/{id}/members.                        *)
CreationSpec ==
    Init /\ [][Next /\ ~\E k \in Creations, u \in Registrations : AddMember(k, u)]_vars

(* The members that a DM gets from its creation: the two it lists, and its *)
(* creator if it is not one of them.                                       *)
DMsAsCreated ==
    \A k \in channels : Request[k].type = "DM" =>
        LET size == Cardinality({u \in users : <<k, u>> \in members}) IN
        size <= IF Contains(Request[k].memberIDs, Request[k].createdBy) THEN 2 ELSE 3

(* What is still to be enrolled was asked for, and every channel passed    *)
(* the checks of CreateChannel.                                            *)
AskedInv ==
    /\ \A k \in Creations : ToSet(todo[k]) \subseteq Asked(k)
    /\ \A k \in channels : ValidRequest(k)

(* All members of a channel were asked for by its creation.                *)
MembersAsked == \A k \in Creations, u \in Registrations : <<k, u>> \in members => u \in Asked(k)

(* The head and the tail of a sequence have nothing else.                  *)
LEMMA HeadTailWithin ==
    ASSUME NEW S, NEW seq \in Seq(S), seq # <<>>
    PROVE  Head(seq) \in ToSet(seq) /\ ToSet(Tail(seq)) \subseteq ToSet(seq)
<1>1. /\ Len(seq) \in Nat \ {0} /\ DOMAIN seq = 1..Len(seq)
      /\ Head(seq) = seq[1]
      /\ DOMAIN Tail(seq) = 1..(Len(seq) - 1)
      /\ \A i \in 1..(Len(seq) - 1) : Tail(seq)[i] = seq[i + 1]
  BY HeadTailProperties, EmptySeq, LenProperties
<1>2. 1 \in DOMAIN seq /\ \A i \in 1..(Len(seq) - 1) : i + 1 \in DOMAIN seq
  BY <1>1
<1> QED
  BY <1>1, <1>2 DEF ToSet

(* The loop of a creation runs over nobody else.                           *)
LEMMA InitialMembersWithin ==
    ASSUME NEW k \in Creations
    PROVE  ToSet(InitialMembers(k)) \subseteq Asked(k)
<1> DEFINE ids == Request[k].memberIDs
           by == Request[k].createdBy
<1>1. ids \in Seq(Registrations) /\ by \in Registrations
  BY DirectoryAssumption
<1>2. ASSUME ~Contains(ids, by)
      PROVE  ToSet(Append(ids, by)) \subseteq ToSet(ids) \cup {by}
  <2> HIDE DEF ids, by
  <2>1. /\ Len(ids) \in Nat /\ DOMAIN ids = 1..Len(ids)
        /\ DOMAIN Append(ids, by) = 1..(Len(ids) + 1)
        /\ \A i \in 1..Len(ids) : Append(ids, by)[i] = ids[i]
        /\ Append(ids, by)[Len(ids) + 1] = by
    BY <1>1, AppendProperties, LenProperties
  <2>2. \A i \in 1..(Len(ids) + 1) : i \in 1..Len(ids) \/ i = Len(ids) + 1
    BY <2>1
  <2> QED
    BY <2>1, <2>2 DEF ToSet
<1> QED
  BY <1>2 DEF InitialMembers, Asked

(* Nothing is left to enrol at the start.                                  *)
LEMMA InitAsked == Init => AskedInv /\ MembersAsked
<1>1. ToSet(<<>>) = {}
  BY EmptySeq DEF ToSet
<1> QED
  BY <1>1 DEF Init, AskedInv, MembersAsked

(* A creation enrols from its own request, and a new row is that of its    *)
(* loop or of AddMember.                                                   *)
LEMMA StepAsked ==
    ASSUME TypeOK, AskedInv, [Next]_vars
    PROVE  /\ AskedInv'
           /\ \A k \in Creations, u \in Registrations :
                 <<k, u>> \in members' \ members =>
                     AddMember(k, u) \/ (pc[k] = "enrol" /\ u \in Asked(k))
<1> DEFINE Entered(k, u) == <<k, u>> \in members' \ members =>
                               AddMember(k, u) \/ (pc[k] = "enrol" /\ u \in Asked(k))
           Goal == AskedInv' /\ \A k \in Creations, u \in Registrations : Entered(k, u)
<1> SUFFICES Goal
  OBVIOUS
<1>1. ASSUME UNCHANGED <<todo, channels>>, members' \subseteq members
      PROVE  Goal
  BY <1>1 DEF AskedInv
<1>2. CASE UNCHANGED vars
  BY <1>1, <1>2 DEF vars, rows
<1>3. ASSUME NEW r \in Registrations,
             \/ RegisterInvalid(r) \/ NameFree(r) \/ NameTaken(r)
             \/ NameCheckFails(r) \/ InsertUser(r) \/ InsertUserRefused(r)
             \/ InsertUserFails(r)
      PROVE  Goal
  <2>1. UNCHANGED <<todo, channels, members>>
    BY <1>3 DEF RegisterInvalid, NameFree, NameTaken, NameCheckFails, InsertUser,
                InsertUserRefused, InsertUserFails, UserInserted, Reads, rows
  <2> QED
    BY <1>1, <2>1
<1>4. ASSUME NEW k \in Creations, CreateRejected(k) \/ Created(k)
      PROVE  Goal
  BY <1>1, <1>4 DEF CreateRejected, Created, Reads, rows
<1>5. ASSUME NEW k \in Creations, InsertChannel(k)
      PROVE  Goal
  <2>1. /\ ValidRequest(k) /\ channels' = channels \cup {k} /\ UNCHANGED members
        /\ \A j \in Creations : todo'[j] = IF j = k THEN InitialMembers(k) ELSE todo[j]
    BY <1>5 DEF InsertChannel, TypeOK
  <2> QED
    BY <2>1, InitialMembersWithin DEF AskedInv, ValidRequest
<1>6. ASSUME NEW k \in Creations, InsertChannelFails(k)
      PROVE  Goal
  <2>1. ValidRequest(k) /\ channels' \subseteq channels \cup {k} /\ UNCHANGED <<members, todo>>
    BY <1>6 DEF InsertChannelFails
  <2> QED
    BY <2>1 DEF AskedInv, ValidRequest
<1>7. ASSUME NEW k \in Creations, Enrol(k) \/ EnrolFails(k)
      PROVE  Goal
  <2>1. /\ pc[k] = "enrol" /\ todo[k] \in Seq(Registrations) /\ todo[k] # <<>>
        /\ members' \subseteq members \cup {<<k, Head(todo[k])>>}
        /\ UNCHANGED channels
        /\ \A j \in Creations : todo'[j] \in {todo[j], IF j = k THEN Tail(todo[k]) ELSE todo[j]}
    BY <1>7 DEF Enrol, EnrolFails, MemberRow, TypeOK
  <2>2. Head(todo[k]) \in Asked(k) /\ ToSet(Tail(todo[k])) \subseteq Asked(k)
    BY <2>1, HeadTailWithin DEF AskedInv
  <2> QED
    BY <2>1, <2>2 DEF AskedInv
<1>8. ASSUME NEW k \in Creations, NEW u \in Registrations, AddMember(k, u)
      PROVE  Goal
  <2>1. UNCHANGED <<todo, channels>> /\ members' \subseteq members \cup {<<k, u>>}
    BY <1>8 DEF AddMember, MemberRow
  <2> QED
    BY <1>8, <2>1 DEF AskedInv
<1>9. ASSUME NEW k \in Creations, NEW u \in Registrations, RemoveMember(k, u)
      PROVE  Goal
  BY <1>1, <1>9 DEF RemoveMember
<1>10. ASSUME NEW q \in Calls, Cut(q)
       PROVE  Goal
  BY <1>1, <1>10 DEF Cut, Reads, rows
<1> QED
  BY <1>2, <1>3, <1>4, <1>5, <1>6, <1>7, <1>8, <1>9, <1>10
  DEF Next, ReliableNext, Failure

(* Nobody gets into a channel unasked, however creations overlap and       *)
(* wherever they break off.                                                *)
THEOREM NobodyEntersUnasked == Spec => OnlyAskedEnter
<1> DEFINE I == TypeOK /\ AskedInv
           A == \A k \in Creations, u \in Registrations :
                   <<k, u>> \in members' \ members =>
                       AddMember(k, u) \/ (pc[k] = "enrol" /\ u \in Asked(k))
<1>1. Init => I
  BY InitTypes, InitAsked
<1>2. I /\ [Next]_vars => I' /\ [A]_vars
  BY StepTypes, StepAsked
<1> HIDE DEF I, A
<1>3. Spec => [][A]_vars
  BY <1>1, <1>2, PTL DEF Spec
<1> QED
  BY <1>3 DEF OnlyAskedEnter, A

(* A set of at most two, and one of at most three.                         *)
LEMMA SmallSets ==
    ASSUME NEW a, NEW b, NEW c
    PROVE  /\ \A T \in SUBSET {a, b} : Cardinality(T) <= 2
           /\ \A T \in SUBSET {a, b, c} : Cardinality(T) <= 3
<1>1. IsFiniteSet({a}) /\ Cardinality({a}) = 1
  BY FS_Singleton
<1>2. IsFiniteSet({a} \cup {b}) /\ Cardinality({a} \cup {b}) \in {1, 2}
  BY <1>1, FS_AddElement
<1>3. /\ IsFiniteSet(({a} \cup {b}) \cup {c})
      /\ Cardinality(({a} \cup {b}) \cup {c}) \in {1, 2, 3}
  BY <1>2, FS_AddElement
<1>4. {a, b} = {a} \cup {b} /\ {a, b, c} = ({a} \cup {b}) \cup {c}
  OBVIOUS
<1>5. ASSUME NEW T \in SUBSET {a, b}
      PROVE  Cardinality(T) <= 2
  <2>1. IsFiniteSet(T) /\ Cardinality(T) <= Cardinality({a} \cup {b})
    BY <1>2, <1>4, FS_Subset
  <2>2. Cardinality(T) \in Nat
    BY <2>1, FS_CardinalityType
  <2> QED
    BY <1>2, <2>1, <2>2
<1>6. ASSUME NEW T \in SUBSET {a, b, c}
      PROVE  Cardinality(T) <= 3
  <2>1. IsFiniteSet(T) /\ Cardinality(T) <= Cardinality(({a} \cup {b}) \cup {c})
    BY <1>3, <1>4, FS_Subset
  <2>2. Cardinality(T) \in Nat
    BY <2>1, FS_CardinalityType
  <2> QED
    BY <1>3, <2>1, <2>2
<1> QED
  BY <1>5, <1>6

(* Without AddMember a DM has at most the two users it lists, and its      *)
(* creator besides: AtMostTwoInDM fails through these two causes only.     *)
THEOREM DMsGrowByAdding == CreationSpec => []DMsAsCreated
<1> DEFINE N == Next /\ ~\E k \in Creations, u \in Registrations : AddMember(k, u)
           I == TypeOK /\ AskedInv /\ MembersAsked
<1>1. Init => I
  BY InitTypes, InitAsked
<1>2. I /\ [N]_vars => I'
  <2> SUFFICES ASSUME TypeOK, AskedInv, MembersAsked, [N]_vars
               PROVE  I'
    OBVIOUS
  <2>1. [Next]_vars
    OBVIOUS
  <2>2. TypeOK' /\ AskedInv'
    BY <2>1, StepTypes, StepAsked
  <2>3. \A k \in Creations, u \in Registrations :
           <<k, u>> \in members' => <<k, u>> \in members \/ u \in Asked(k)
    <3>1. CASE UNCHANGED vars
      BY <3>1 DEF vars, rows
    <3>2. CASE N
      BY <2>1, <3>2, StepAsked
    <3> QED
      BY <3>1, <3>2
  <2>4. MembersAsked'
    BY <2>3 DEF MembersAsked
  <2> QED
    BY <2>2, <2>4
<1>3. I => DMsAsCreated
  <2> SUFFICES ASSUME TypeOK, AskedInv, MembersAsked,
                      NEW k \in channels, Request[k].type = "DM"
               PROVE  Cardinality({u \in users : <<k, u>> \in members})
                        <= IF Contains(Request[k].memberIDs, Request[k].createdBy)
                           THEN 2 ELSE 3
    BY DEF DMsAsCreated
  <2> DEFINE ids == Request[k].memberIDs
             by == Request[k].createdBy
             T == {u \in users : <<k, u>> \in members}
  <2>1. k \in Creations /\ ids \in Seq(Registrations) /\ Len(ids) = 2
    BY DirectoryAssumption DEF TypeOK, AskedInv, ValidRequest
  <2>2. DOMAIN ids = 1..2
    BY <2>1, LenProperties
  <2>3. ToSet(ids) = {ids[1], ids[2]}
    <3>1. 1..2 = {1, 2}
      OBVIOUS
    <3> QED
      BY <2>2, <3>1 DEF ToSet
  <2>4. T \subseteq ToSet(ids) \cup {by}
    BY <2>1 DEF TypeOK, MembersAsked, Asked
  <2>5. Contains(ids, by) => by \in ToSet(ids)
    BY <2>1, LenProperties DEF Contains, ToSet
  <2>6. T \in SUBSET {ids[1], ids[2], by} /\ (Contains(ids, by) => T \in SUBSET {ids[1], ids[2]})
    BY <2>3, <2>4, <2>5
  <2> HIDE DEF ids, by, T
  <2>7. Cardinality(T) <= 3 /\ (Contains(ids, by) => Cardinality(T) <= 2)
    BY <2>6, SmallSets
  <2>8. Cardinality(T) <= IF Contains(ids, by) THEN 2 ELSE 3
    BY <2>7
  <2> QED
    BY <2>8 DEF ids, by, T
<1> HIDE DEF I, N
<1>4. Init /\ [][N]_vars => []DMsAsCreated
  BY <1>1, <1>2, <1>3, PTL
<1> QED
  BY <1>4 DEF CreationSpec, N

=============================================================================

----------------------------- MODULE Directory -----------------------------
(***************************************************************************)
(* Users and channels: POST /api/v1/users, POST /api/v1/channels and the   *)
(* members of a channel.  Neither operation is a transaction: a            *)
(* registration looks the name up and then inserts it, a creation inserts  *)
(* the channel and then its members one by one, and every other request    *)
(* may come in between.                                                    *)
(*                                                                         *)
(* A user or channel gets its ID from the generator (IdOracle), so it is   *)
(* identified here with the request that makes it.  MySQL is external: the *)
(* UNIQUE index on usernames and the foreign keys of channel_members are   *)
(* its own, and a call may fail before or after its effect.                *)
(***************************************************************************)
EXTENDS Naturals, Sequences, FiniteSets, SequencesExt

CONSTANTS
    Registrations,  \* POSTs to /users
    Names,
    Username,       \* Username[r]: the name of registration r, trimmed
    Creations,      \* POSTs to /channels
    Request         \* Request[k]: type, creator and member_ids of creation k

ASSUME DirectoryAssumption ==
    /\ Registrations \cap Creations = {}
    /\ Username \in [Registrations -> Names]
    /\ Request \in [Creations -> [type : {"DM", "GROUP", "OTHER"},
                                  createdBy : Registrations,
                                  memberIDs : Seq(Registrations)]]

Calls == Registrations \cup Creations

VARIABLES
    pc,         \* pc[q]: the step that request q takes next
    reply,      \* reply[q]: status its client got; "cut" is a lost connection
    users,      \* MySQL: rows of users
    channels,   \* MySQL: rows of conversations
    members,    \* MySQL: rows <<channel, user>> of channel_members
    todo,       \* todo[k]: members that creation k has still to enrol
    known,      \* history: known[k]: users when channel k was inserted
    removed     \* history: every row that was deleted

rows == <<users, channels, members>>
history == <<known, removed>>
vars == <<pc, reply, rows, todo, history>>

TypeOK ==
    /\ pc \in [Calls -> {"new", "insert", "enrol", "done"}]
    /\ reply \in [Calls -> {"none", "201", "400", "409", "500", "cut"}]
    /\ users \subseteq Registrations
    /\ channels \subseteq Creations
    /\ members \subseteq channels \X users
    /\ todo \in [Creations -> Seq(Registrations)]
    /\ known \in [Creations -> SUBSET Registrations]
    /\ removed \subseteq Creations \X Registrations

Init ==
    /\ pc = [q \in Calls |-> "new"]
    /\ reply = [q \in Calls |-> "none"]
    /\ users = {} /\ channels = {} /\ members = {}
    /\ todo = [k \in Creations |-> <<>>]
    /\ known = [k \in Creations |-> {}]
    /\ removed = {}

Goto(q, step) == pc' = [pc EXCEPT ![q] = step] /\ UNCHANGED reply

Reply(q, status) ==
    /\ pc' = [pc EXCEPT ![q] = "done"]
    /\ reply' = [reply EXCEPT ![q] = status]

(* Request q is at this step, and its next one changes no row.             *)
Reads(q, step) == pc[q] = step /\ UNCHANGED <<rows, todo, history>>

(* The process dies with the request.                                      *)
Cut(q) == \E step \in {"new", "insert", "enrol"} : Reads(q, step) /\ Reply(q, "cut")

-----------------------------------------------------------------------------
(* What the GET handlers answer                                            *)

(* SELECT ... WHERE id = ?: the row, if there is one.                      *)
UserByID(u) == {u} \cap users
ChannelByID(k) == {k} \cap channels

(* GET /users/{id}, GET /channels/{id}: no row is 404.                     *)
HandleUserByID(u) == IF UserByID(u) = {} THEN "404" ELSE "200"

GetChannel(k) == IF ChannelByID(k) = {} THEN "404" ELSE "200"

(* Conversations joined with the rows of u in channel_members.             *)
GetByUser(u) == {k \in channels : <<k, u>> \in members}

(* GET /channels?user_id=                                                  *)
listChannels(u) == GetByUser(u)

-----------------------------------------------------------------------------
(* POST /api/v1/users                                                      *)

(* Faulty variant: count >= 0.                                             *)
CountNotNegative(name) == TRUE

UsernameExists(name) == \E u \in users : Username[u] = name

(* Wrong method (405, not told apart here), bad body or a blank name.      *)
RegisterInvalid(r) == Reads(r, "new") /\ Reply(r, "400")

NameFree(r) ==
    Reads(r, "new") /\ ~UsernameExists(Username[r]) /\ Goto(r, "insert")

(* ErrUsernameTaken                                                        *)
NameTaken(r) ==
    Reads(r, "new") /\ UsernameExists(Username[r]) /\ Reply(r, "409")

NameCheckFails(r) == Reads(r, "new") /\ Reply(r, "500")

(* INSERT INTO users                                                       *)
UserInserted(r) ==
    /\ pc[r] = "insert" /\ ~UsernameExists(Username[r])
    /\ users' = users \cup {r}
    /\ UNCHANGED <<channels, members, todo, history>>

InsertUser(r) == UserInserted(r) /\ Reply(r, "201")

(* The UNIQUE index refuses a name inserted since it was looked up.        *)
InsertUserRefused(r) ==
    Reads(r, "insert") /\ UsernameExists(Username[r]) /\ Reply(r, "500")

(* MySQL fails, whether or not the row was committed before it did.        *)
InsertUserFails(r) ==
    (UserInserted(r) \/ Reads(r, "insert")) /\ Reply(r, "500")

-----------------------------------------------------------------------------
(* POST /api/v1/channels                                                   *)

(* The type is known, and a DM lists two member IDs.                       *)
ValidRequest(k) ==
    /\ Request[k].type \in {"DM", "GROUP"}
    /\ Request[k].type = "DM" => Len(Request[k].memberIDs) = 2

(* Faulty variant: the creator is not appended.                            *)
ListedMembers(k) == Request[k].memberIDs

(* memberIDs, with the creator appended if it is not among them.           *)
InitialMembers(k) ==
    LET ids == Request[k].memberIDs IN
    IF Contains(ids, Request[k].createdBy) THEN ids
                                           ELSE Append(ids, Request[k].createdBy)

(* CreateChannel refuses the request; a malformed body or one without      *)
(* created_by is of type "OTHER" here.                                     *)
CreateRejected(k) == Reads(k, "new") /\ ~ValidRequest(k) /\ Reply(k, "400")

(* INSERT INTO conversations; members follow.                              *)
InsertChannel(k) ==
    /\ pc[k] = "new" /\ ValidRequest(k)
    /\ channels' = channels \cup {k}
    /\ todo' = [todo EXCEPT ![k] = InitialMembers(k)]
    /\ known' = [known EXCEPT ![k] = users]
    /\ Goto(k, "enrol")
    /\ UNCHANGED <<users, members, removed>>

(* Every error of CreateChannel is answered 400, those of MySQL too.       *)
InsertChannelFails(k) ==
    /\ pc[k] = "new" /\ ValidRequest(k)
    /\ channels' \in {channels, channels \cup {k}}
    /\ Reply(k, "400")
    /\ UNCHANGED <<users, members, todo, history>>

(* Faulty variant: the row is written whether or not its user exists.      *)
AnyMemberRow(k, u) == {<<k, u>>}

(* INSERT IGNORE skips a row whose user or channel does not exist.         *)
MemberRow(k, u) == {<<k, u>>} \cap (channels \X users)

(* One round of the loop over memberIDs.                                   *)
Enrol(k) ==
    /\ pc[k] = "enrol" /\ todo[k] # <<>>
    /\ members' = members \cup MemberRow(k, Head(todo[k]))
    /\ todo' = [todo EXCEPT ![k] = Tail(@)]
    /\ UNCHANGED <<pc, reply, users, channels, history>>

EnrolFails(k) ==
    /\ pc[k] = "enrol" /\ todo[k] # <<>>
    /\ members' \in {members, members \cup MemberRow(k, Head(todo[k]))}
    /\ Reply(k, "400")
    /\ UNCHANGED <<users, channels, todo, history>>

Created(k) == Reads(k, "enrol") /\ todo[k] = <<>> /\ Reply(k, "201")

-----------------------------------------------------------------------------
(* POST and DELETE under /api/v1/channels/{id}/members                     *)

AddMember(k, u) ==
    /\ members' = members \cup MemberRow(k, u)
    /\ UNCHANGED <<pc, reply, users, channels, todo, history>>

RemoveMember(k, u) ==
    /\ members' = members \ {<<k, u>>}
    /\ removed' = removed \cup ({<<k, u>>} \cap members)
    /\ UNCHANGED <<pc, reply, users, channels, todo, known>>

-----------------------------------------------------------------------------
(* Every operation while MySQL and the process do not fail.                *)
ReliableNext ==
    \/ \E r \in Registrations :
          RegisterInvalid(r) \/ NameFree(r) \/ NameTaken(r) \/ InsertUser(r) \/ InsertUserRefused(r)
    \/ \E k \in Creations :
          CreateRejected(k) \/ InsertChannel(k) \/ Enrol(k) \/ Created(k)
    \/ \E k \in Creations, u \in Registrations : AddMember(k, u) \/ RemoveMember(k, u)

Failure ==
    \/ \E r \in Registrations : NameCheckFails(r) \/ InsertUserFails(r)
    \/ \E k \in Creations : InsertChannelFails(k) \/ EnrolFails(k)
    \/ \E q \in Calls : Cut(q)

Next == ReliableNext \/ Failure

Spec == Init /\ [][Next]_vars

ReliableSpec == Init /\ [][ReliableNext]_vars

-----------------------------------------------------------------------------
(* Properties                                                              *)

(* However registrations overlap and fail, a name has one owner: whoever   *)
(* got 201 finds itself under its ID from then on, and whoever got 409     *)
(* does not, because somebody else has the name.                           *)
OneOwnerPerName ==
    /\ \A u, v \in users : Username[u] = Username[v] => u = v
    /\ \A r \in Registrations :
          /\ reply[r] = "201" => HandleUserByID(r) = "200"
          /\ reply[r] = "409" => /\ HandleUserByID(r) = "404"
                                /\ \E u \in users : Username[u] = Username[r]

(* A channel answered 201 can be fetched, and its creator and all listed   *)
(* members that were registered when it was made find it in their list,    *)
(* but for those removed since, although the rows are inserted one by one  *)
(* beside other requests.                                                  *)
CreatedIsListed ==
    \A k \in Creations : reply[k] = "201" =>
        /\ GetChannel(k) = "200"
        /\ \A u \in (ToSet(Request[k].memberIDs) \cup {Request[k].createdBy}) \cap known[k] :
              k \in listChannels(u) \/ <<k, u>> \in removed

(* domain/conversation.go: a DM is "between exactly two users"; here, it   *)
(* never has more.                                                         *)
AtMostTwoInDM ==
    \A k \in channels : Request[k].type = "DM" =>
        Cardinality({u \in users : <<k, u>> \in members}) <= 2

=============================================================================

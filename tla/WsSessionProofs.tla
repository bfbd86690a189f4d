--------------------------- MODULE WsSessionProofs ---------------------------
(***************************************************************************)
(* Proofs about the ws-worker's sessions and its Hub, for every set of     *)
(* connections, users and channels.                                        *)
(***************************************************************************)
EXTENDS WsSession, TLAPS

(* The newest session of a user is the user's own.                         *)
NewestOwn == \A u \in Users : newest[u] # NoSession => UserID[newest[u]] = u

-----------------------------------------------------------------------------
(* Types                                                                   *)

(* The initial values have their types.                                    *)
LEMMA InitTypes == Init => TypeOK
  BY SessionAssumption DEF Init, TypeOK

(* No step leaves the types.                                               *)
LEMMA StepTypes ==
    ASSUME TypeOK, [Next]_vars
    PROVE  TypeOK'
<1> USE SessionAssumption DEF TypeOK, goroutines, hub
<1>1. CASE UNCHANGED vars
  BY <1>1 DEF vars
<1>2. ASSUME NEW s \in Sessions, Upgrade(s) \/ UpgradeFails(s)
      PROVE  TypeOK'
  BY <1>2 DEF Upgrade, UpgradeFails, At
<1>3. ASSUME NEW s \in Sessions, FetchChannels(s) \/ FetchFails(s)
      PROVE  TypeOK'
  BY <1>3 DEF FetchChannels, FetchFails, At, Closed, Cancelled
<1>4. ASSUME NEW s \in Sessions, Register(s) \/ Spawn(s)
      PROVE  TypeOK'
  BY <1>4 DEF Register, Spawn, At, WithClient
<1>5. ASSUME NEW s \in Sessions, ReadFails(s) \/ Unregister(s) \/ ReaderCloses(s)
      PROVE  TypeOK'
  BY <1>5 DEF ReadFails, Unregister, ReaderCloses, Reader, Cancelled, Closed,
              WithoutClient
<1>6. ASSUME NEW s \in Sessions, NEW c \in Channels, ListenerStops(s, c)
      PROVE  TypeOK'
  BY <1>6 DEF ListenerStops
<1>7. ASSUME NEW s \in Sessions, WriteFails(s) \/ PeerGone(s)
      PROVE  TypeOK'
  BY <1>7 DEF WriteFails, PeerGone, Cancelled, Closed
<1>8. CASE HubShutdown \/ ServerClose
  BY <1>8 DEF HubShutdown, ServerClose
<1>9. CASE Exit
  BY <1>9 DEF Exit
<1> QED
  BY <1>1, <1>2, <1>3, <1>4, <1>5, <1>6, <1>7, <1>8, <1>9
  DEF Next, Serve, Goroutine

(* Every variable keeps its type in every reachable state.                 *)
THEOREM TypeCorrect == Spec => []TypeOK
<1>1. Init => TypeOK
  BY InitTypes
<1>2. TypeOK /\ [Next]_vars => TypeOK'
  BY StepTypes
<1> QED
  BY <1>1, <1>2, PTL DEF Spec

-----------------------------------------------------------------------------
(* The goroutines of a session, its connection and its context             *)

(* No session has a goroutine before ServeWS starts it.                    *)
LEMMA InitShape == Init => SessionShape
  BY DEF Init, SessionShape

(* Each step leaves connection, goroutines and context in agreement: the   *)
(* goroutine that ends cancels the context first or finds it cancelled.    *)
LEMMA StepShape ==
    ASSUME TypeOK, SessionShape, [Next]_vars
    PROVE  SessionShape'
<1> USE SessionAssumption DEF TypeOK, SessionShape, goroutines, hub
<1>1. CASE UNCHANGED vars
  BY <1>1 DEF vars
<1>2. ASSUME NEW s \in Sessions, Upgrade(s) \/ UpgradeFails(s)
      PROVE  SessionShape'
  BY <1>2 DEF Upgrade, UpgradeFails, At
<1>3. ASSUME NEW s \in Sessions, FetchChannels(s) \/ FetchFails(s)
      PROVE  SessionShape'
  BY <1>3 DEF FetchChannels, FetchFails, At, Closed, Cancelled
<1>4. ASSUME NEW s \in Sessions, Register(s) \/ Spawn(s)
      PROVE  SessionShape'
  BY <1>4 DEF Register, Spawn, At
<1>5. ASSUME NEW s \in Sessions, ReadFails(s) \/ Unregister(s) \/ ReaderCloses(s)
      PROVE  SessionShape'
  BY <1>5 DEF ReadFails, Unregister, ReaderCloses, Reader, Cancelled, Closed
<1>6. ASSUME NEW s \in Sessions, NEW c \in Channels, ListenerStops(s, c)
      PROVE  SessionShape'
  BY <1>6 DEF ListenerStops
<1>7. ASSUME NEW s \in Sessions, WriteFails(s) \/ PeerGone(s)
      PROVE  SessionShape'
  BY <1>7 DEF WriteFails, PeerGone, Cancelled, Closed
<1>8. CASE HubShutdown \/ ServerClose
  BY <1>8 DEF HubShutdown, ServerClose
<1>9. CASE Exit
  BY <1>9 DEF Exit
<1> QED
  BY <1>1, <1>2, <1>3, <1>4, <1>5, <1>6, <1>7, <1>8, <1>9
  DEF Next, Serve, Goroutine

(* In every reachable state a session that has goroutines, or may still    *)
(* get them, has a connection, and one whose goroutines end has had its    *)
(* context cancelled, so that every listener will see ctx.Done().          *)
THEOREM ShapeHolds == Spec => []SessionShape
<1> DEFINE I == TypeOK /\ SessionShape
<1>1. Init => I
  BY InitTypes, InitShape
<1>2. I /\ [Next]_vars => I'
  BY StepTypes, StepShape
<1>3. I => SessionShape
  OBVIOUS
<1> HIDE DEF I
<1> QED
  BY <1>1, <1>2, <1>3, PTL DEF Spec

-----------------------------------------------------------------------------
(* The Hub's map                                                           *)

(* The Hub starts empty.                                                   *)
LEMMA InitHub == Init => HubTracksNewest /\ NewestOwn
  BY DEF Init, HubTracksNewest, NewestOwn

(* Register replaces the entry of the user and of no other; Unregister     *)
(* deletes an entry only if it is the session's own.                       *)
LEMMA StepHub ==
    ASSUME TypeOK, SessionShape, HubTracksNewest, NewestOwn, [Next]_vars
    PROVE  HubTracksNewest' /\ NewestOwn'
<1> USE SessionAssumption
    DEF TypeOK, HubTracksNewest, NewestOwn, goroutines, hub
<1>1. CASE UNCHANGED vars
  BY <1>1 DEF vars
<1>2. ASSUME NEW s \in Sessions,
             Upgrade(s) \/ UpgradeFails(s) \/ FetchChannels(s) \/ FetchFails(s)
      PROVE  HubTracksNewest' /\ NewestOwn'
  BY <1>2 DEF Upgrade, UpgradeFails, FetchChannels, FetchFails, At
<1>3. ASSUME NEW s \in Sessions, Register(s)
      PROVE  HubTracksNewest' /\ NewestOwn'
  <2>1. reader[s] = "none"
    BY <1>3 DEF Register, At, SessionShape
  <2>2. NewestOwn'
    BY <1>3 DEF Register, At
  <2>3. ASSUME worker' = "up", NEW u \in Users
        PROVE  clients'[u] =
                 IF newest'[u] # NoSession
                    /\ reader'[newest'[u]] \in {"none", "run", "unregister"}
                 THEN newest'[u] ELSE NoSession
    <3>1. CASE u = UserID[s]
      BY <1>3, <2>1, <3>1 DEF Register, At, WithClient
    <3>2. CASE u # UserID[s]
      BY <1>3, <2>3, <3>2 DEF Register, At, WithClient
    <3> QED
      BY <3>1, <3>2
  <2> QED
    BY <2>2, <2>3
<1>4. ASSUME NEW s \in Sessions, Spawn(s)
      PROVE  HubTracksNewest' /\ NewestOwn'
  <2>1. reader[s] = "none"
    BY <1>4 DEF Spawn, At, SessionShape
  <2> QED
    BY <1>4, <2>1 DEF Spawn, At
<1>5. ASSUME NEW s \in Sessions, ReadFails(s)
      PROVE  HubTracksNewest' /\ NewestOwn'
  BY <1>5 DEF ReadFails, Reader
<1>6. ASSUME NEW s \in Sessions, Unregister(s)
      PROVE  HubTracksNewest' /\ NewestOwn'
  <2>1. NewestOwn'
    BY <1>6 DEF Unregister, Reader
  <2>2. ASSUME worker' = "up", NEW u \in Users
        PROVE  clients'[u] =
                 IF newest'[u] # NoSession
                    /\ reader'[newest'[u]] \in {"none", "run", "unregister"}
                 THEN newest'[u] ELSE NoSession
    <3>1. CASE u = UserID[s]
      BY <1>6, <2>2, <3>1 DEF Unregister, Reader, WithoutClient
    <3>2. CASE u # UserID[s]
      BY <1>6, <2>2, <3>2 DEF Unregister, Reader, WithoutClient
    <3> QED
      BY <3>1, <3>2
  <2> QED
    BY <2>1, <2>2
<1>7. ASSUME NEW s \in Sessions, ReaderCloses(s)
      PROVE  HubTracksNewest' /\ NewestOwn'
  BY <1>7 DEF ReaderCloses, Reader
<1>8. ASSUME NEW s \in Sessions, NEW c \in Channels, ListenerStops(s, c)
      PROVE  HubTracksNewest' /\ NewestOwn'
  BY <1>8 DEF ListenerStops
<1>9. ASSUME NEW s \in Sessions, WriteFails(s) \/ PeerGone(s)
      PROVE  HubTracksNewest' /\ NewestOwn'
  BY <1>9 DEF WriteFails, PeerGone
<1>10. CASE HubShutdown \/ ServerClose \/ Exit
  BY <1>10 DEF HubShutdown, ServerClose, Exit
<1> QED
  BY <1>1, <1>2, <1>3, <1>4, <1>5, <1>6, <1>7, <1>8, <1>9, <1>10
  DEF Next, Serve, Goroutine

(* Until shutdown the Hub's entry of a user is exactly its newest session, *)
(* from Register until that session's own readPump unregisters it: however *)
(* late an older connection ends, it never removes a newer one.            *)
THEOREM HubIsCurrent == Spec => []HubTracksNewest
<1> DEFINE I == TypeOK /\ SessionShape /\ HubTracksNewest /\ NewestOwn
<1>1. Init => I
  BY InitTypes, InitShape, InitHub
<1>2. I /\ [Next]_vars => I'
  BY StepTypes, StepShape, StepHub
<1>3. I => HubTracksNewest
  OBVIOUS
<1> HIDE DEF I
<1> QED
  BY <1>1, <1>2, <1>3, PTL DEF Spec

-----------------------------------------------------------------------------
(* Dead entries, and shutdown                                              *)

(* An entry of the Hub is a session of its user whose readPump has not     *)
(* unregistered it, after Hub.Shutdown too.                                *)
LiveEntries ==
    \A u \in Users : clients[u] # NoSession =>
        /\ UserID[clients[u]] = u
        /\ reader[clients[u]] \in {"none", "run", "unregister"}

(* A session enters the map before its readPump starts and leaves it when  *)
(* its readPump unregisters it, unless it was replaced before.             *)
LEMMA StepEntries ==
    ASSUME TypeOK, SessionShape, LiveEntries, [Next]_vars
    PROVE  LiveEntries'
<1> USE SessionAssumption DEF TypeOK, LiveEntries, goroutines, hub
<1>1. CASE UNCHANGED vars
  BY <1>1 DEF vars
<1>2. ASSUME NEW s \in Sessions,
             Upgrade(s) \/ UpgradeFails(s) \/ FetchChannels(s) \/ FetchFails(s)
      PROVE  LiveEntries'
  BY <1>2 DEF Upgrade, UpgradeFails, FetchChannels, FetchFails, At
<1>3. ASSUME NEW s \in Sessions, Register(s)
      PROVE  LiveEntries'
  <2>1. reader[s] = "none"
    BY <1>3 DEF Register, At, SessionShape
  <2> QED
    BY <1>3, <2>1 DEF Register, At, WithClient
<1>4. ASSUME NEW s \in Sessions, Spawn(s)
      PROVE  LiveEntries'
  BY <1>4 DEF Spawn, At
<1>5. ASSUME NEW s \in Sessions, ReadFails(s)
      PROVE  LiveEntries'
  BY <1>5 DEF ReadFails, Reader
<1>6. ASSUME NEW s \in Sessions, Unregister(s)
      PROVE  LiveEntries'
  <2>1. \A u \in Users : clients'[u] # NoSession =>
                         clients'[u] = clients[u] /\ clients[u] # s
    BY <1>6 DEF Unregister, WithoutClient
  <2> QED
    BY <1>6, <2>1 DEF Unregister, Reader
<1>7. ASSUME NEW s \in Sessions, ReaderCloses(s)
      PROVE  LiveEntries'
  BY <1>7 DEF ReaderCloses, Reader
<1>8. ASSUME NEW s \in Sessions, NEW c \in Channels, ListenerStops(s, c)
      PROVE  LiveEntries'
  BY <1>8 DEF ListenerStops
<1>9. ASSUME NEW s \in Sessions, WriteFails(s) \/ PeerGone(s)
      PROVE  LiveEntries'
  BY <1>9 DEF WriteFails, PeerGone
<1>10. CASE HubShutdown \/ ServerClose \/ Exit
  BY <1>10 DEF HubShutdown, ServerClose, Exit
<1> QED
  BY <1>1, <1>2, <1>3, <1>4, <1>5, <1>6, <1>7, <1>8, <1>9, <1>10
  DEF Next, Serve, Goroutine

(* The map never keeps a session that has unregistered itself, nor one of  *)
(* another user, before, during and after the shutdown.                    *)
THEOREM NoDeadEntry == Spec => []LiveEntries
<1> DEFINE I == TypeOK /\ SessionShape /\ LiveEntries
<1>1. Init => I
  BY InitTypes, InitShape DEF Init, LiveEntries
<1>2. I /\ [Next]_vars => I'
  BY StepTypes, StepShape, StepEntries
<1>3. I => LiveEntries
  OBVIOUS
<1> HIDE DEF I
<1> QED
  BY <1>1, <1>2, <1>3, PTL DEF Spec

(* What Hub.Shutdown closes for certain: the newest session of every user, *)
(* unless its own readPump has unregistered it.                            *)
ShutdownClosesNewest ==
    [][HubShutdown => \A u \in Users :
          newest[u] # NoSession /\ reader[newest[u]] \in {"none", "run", "unregister"}
             => conn'[newest[u]] = "closed"]_vars

(* Hub.Shutdown reaches the newest session of every user.  The sessions it *)
(* misses, which ShutdownClosesAll is about, were replaced by a newer one. *)
THEOREM NewestAreClosed == Spec => ShutdownClosesNewest
<1> DEFINE I == TypeOK /\ SessionShape /\ HubTracksNewest /\ NewestOwn
           A == HubShutdown => \A u \in Users :
                   newest[u] # NoSession
                   /\ reader[newest[u]] \in {"none", "run", "unregister"}
                      => conn'[newest[u]] = "closed"
<1>1. Init => I
  BY InitTypes, InitShape, InitHub
<1>2. I /\ [Next]_vars => I'
  BY StepTypes, StepShape, StepHub
<1>3. I => A
  <2>1. SUFFICES ASSUME I, HubShutdown, NEW u \in Users, newest[u] # NoSession,
                        reader[newest[u]] \in {"none", "run", "unregister"}
                 PROVE  conn'[newest[u]] = "closed"
    OBVIOUS
  <2>2. clients[u] = newest[u] /\ newest[u] \in Sessions
    BY <2>1 DEF HubShutdown, HubTracksNewest, TypeOK
  <2>3. newest[u] \in Registered
    BY <2>1, <2>2 DEF Registered
  <2> QED
    BY <2>1, <2>2, <2>3 DEF HubShutdown
<1>4. I /\ [Next]_vars => [A]_vars
  BY <1>3
<1> HIDE DEF I, A
<1>5. Spec => [][A]_vars
  BY <1>1, <1>2, <1>4, PTL DEF Spec
<1> QED
  BY <1>5 DEF ShutdownClosesNewest, A

-----------------------------------------------------------------------------
(* Sessions end for good                                                   *)

(* A session that has not been upgraded has no socket and no entry.        *)
Untouched ==
    \A s \in Sessions : stage[s] = "new" =>
        conn[s] = "none" /\ \A u \in Users : clients[u] # s

(* A cancelled context stays cancelled and a closed socket closed, ServeWS *)
(* starts no listener once it has returned, and a session whose goroutines *)
(* have all ended never gets another.                                      *)
OnlyWindsDown ==
    [][/\ cancelled \subseteq cancelled'
       /\ \A s \in Sessions :
             /\ conn[s] = "closed" => conn'[s] = "closed"
             /\ stage[s] = "served" => /\ stage'[s] = "served"
                                       /\ listening'[s] \subseteq listening[s]
             /\ writer[s] = "exited" => writer'[s] = "exited"
             /\ Ended(s) => Ended(s)']_vars

(* Nothing has started at the start.                                       *)
LEMMA InitClosed == Init => NoSocketLeak /\ Untouched
  BY SessionAssumption DEF Init, NoSocketLeak, Untouched

(* Whoever ends closes the socket in that step or finds it closed, and     *)
(* nobody opens one again.                                                 *)
LEMMA StepClosed ==
    ASSUME TypeOK, SessionShape, NoSocketLeak, Untouched, [Next]_vars
    PROVE  NoSocketLeak' /\ Untouched'
<1> USE SessionAssumption DEF TypeOK, NoSocketLeak, Untouched, goroutines, hub
<1>1. CASE UNCHANGED vars
  BY <1>1 DEF vars
<1>2. ASSUME NEW s \in Sessions, Upgrade(s) \/ UpgradeFails(s)
      PROVE  NoSocketLeak' /\ Untouched'
  <2>1. reader[s] = "none" /\ writer[s] = "none"
    BY <1>2 DEF Upgrade, UpgradeFails, At, SessionShape
  <2> QED
    BY <1>2, <2>1 DEF Upgrade, UpgradeFails, At
<1>3. ASSUME NEW s \in Sessions, FetchChannels(s) \/ FetchFails(s)
      PROVE  NoSocketLeak' /\ Untouched'
  BY <1>3 DEF FetchChannels, FetchFails, At, Closed
<1>4. ASSUME NEW s \in Sessions, Register(s) \/ Spawn(s)
      PROVE  NoSocketLeak' /\ Untouched'
  BY <1>4 DEF Register, Spawn, At, WithClient
<1>5. ASSUME NEW s \in Sessions, ReadFails(s) \/ Unregister(s) \/ ReaderCloses(s)
      PROVE  NoSocketLeak' /\ Untouched'
  <2>1. stage[s] # "new"
    BY <1>5 DEF ReadFails, Unregister, ReaderCloses, Reader, SessionShape
  <2>2. \A u \in Users : clients'[u] \in {clients[u], NoSession}
    BY <1>5 DEF ReadFails, Unregister, ReaderCloses, WithoutClient
  <2> QED
    BY <1>5, <2>1, <2>2 DEF ReadFails, Unregister, ReaderCloses, Reader, Closed
<1>6. ASSUME NEW s \in Sessions, NEW c \in Channels, ListenerStops(s, c)
      PROVE  NoSocketLeak' /\ Untouched'
  BY <1>6 DEF ListenerStops
<1>7. ASSUME NEW s \in Sessions, WriteFails(s) \/ PeerGone(s)
      PROVE  NoSocketLeak' /\ Untouched'
  <2>1. WriteFails(s) => stage[s] # "new"
    BY DEF WriteFails, SessionShape
  <2> QED
    BY <1>7, <2>1 DEF WriteFails, PeerGone, Closed
<1>8. CASE HubShutdown \/ ServerClose
  BY <1>8 DEF HubShutdown, ServerClose, Registered
<1>9. CASE Exit
  BY <1>9 DEF Exit
<1> QED
  BY <1>1, <1>2, <1>3, <1>4, <1>5, <1>6, <1>7, <1>8, <1>9
  DEF Next, Serve, Goroutine

(* Sockets end with the goroutines that serve them, for any number of      *)
(* sessions: every way out of ServeWS, readPump and writePump closes.      *)
THEOREM SocketsAreClosed == Spec => []NoSocketLeak
<1> DEFINE I == TypeOK /\ SessionShape /\ NoSocketLeak /\ Untouched
<1>1. Init => I
  BY InitTypes, InitShape, InitClosed
<1>2. I /\ [Next]_vars => I'
  BY StepTypes, StepShape, StepClosed
<1>3. I => NoSocketLeak
  OBVIOUS
<1> HIDE DEF I
<1> QED
  BY <1>1, <1>2, <1>3, PTL DEF Spec

(* No step brings anything of a session back.                              *)
LEMMA StepWindsDown ==
    ASSUME TypeOK, SessionShape, Untouched, [Next]_vars
    PROVE  /\ cancelled \subseteq cancelled'
           /\ \A s \in Sessions :
                 /\ conn[s] = "closed" => conn'[s] = "closed"
                 /\ stage[s] = "served" => /\ stage'[s] = "served"
                                           /\ listening'[s] \subseteq listening[s]
                 /\ writer[s] = "exited" => writer'[s] = "exited"
                 /\ Ended(s) => Ended(s)'
<1> DEFINE Down(s) == /\ conn[s] = "closed" => conn'[s] = "closed"
                      /\ stage[s] = "served" => /\ stage'[s] = "served"
                                                /\ listening'[s] \subseteq listening[s]
                      /\ writer[s] = "exited" => writer'[s] = "exited"
                      /\ Ended(s) => Ended(s)'
<1> SUFFICES cancelled \subseteq cancelled' /\ \A s \in Sessions : Down(s)
  OBVIOUS
<1> USE SessionAssumption DEF TypeOK, goroutines, Ended
<1>1. CASE UNCHANGED vars
  BY <1>1 DEF vars
<1>2. ASSUME NEW s \in Sessions, Upgrade(s) \/ UpgradeFails(s)
      PROVE  cancelled \subseteq cancelled' /\ \A t \in Sessions : Down(t)
  BY <1>2 DEF Upgrade, UpgradeFails, At, Untouched
<1>3. ASSUME NEW s \in Sessions, Serve(s)
      PROVE  cancelled \subseteq cancelled' /\ \A t \in Sessions : Down(t)
  <2>1. CASE FetchChannels(s) \/ FetchFails(s) \/ Register(s)
    BY <2>1 DEF FetchChannels, FetchFails, Register, At, Closed, Cancelled
  <2>2. CASE Spawn(s)
    <3>1. reader[s] = "none" /\ writer[s] = "none"
      BY <2>2 DEF Spawn, At, SessionShape
    <3> QED
      BY <2>2, <3>1 DEF Spawn, At
  <2> QED
    BY <1>3, <2>1, <2>2 DEF Serve
<1>4. ASSUME NEW s \in Sessions, ReadFails(s) \/ Unregister(s) \/ ReaderCloses(s)
      PROVE  cancelled \subseteq cancelled' /\ \A t \in Sessions : Down(t)
  BY <1>4 DEF ReadFails, Unregister, ReaderCloses, Reader, Cancelled, Closed
<1>5. ASSUME NEW s \in Sessions, NEW c \in Channels, ListenerStops(s, c)
      PROVE  cancelled \subseteq cancelled' /\ \A t \in Sessions : Down(t)
  BY <1>5 DEF ListenerStops
<1>6. ASSUME NEW s \in Sessions, WriteFails(s) \/ PeerGone(s)
      PROVE  cancelled \subseteq cancelled' /\ \A t \in Sessions : Down(t)
  BY <1>6 DEF WriteFails, PeerGone, Cancelled, Closed
<1>7. CASE HubShutdown \/ ServerClose
  BY <1>7 DEF HubShutdown, ServerClose
<1>8. CASE Exit
  BY <1>8 DEF Exit
<1> QED
  BY <1>1, <1>2, <1>3, <1>4, <1>5, <1>6, <1>7, <1>8 DEF Next, Goroutine

(* Sessions only wind down: the progress that NoGoroutineLeak speaks of is *)
(* never undone, so a session that has ended stays ended.                  *)
THEOREM SessionsWindDown == Spec => OnlyWindsDown
<1> DEFINE I == TypeOK /\ SessionShape /\ NoSocketLeak /\ Untouched
           A == /\ cancelled \subseteq cancelled'
                /\ \A s \in Sessions :
                      /\ conn[s] = "closed" => conn'[s] = "closed"
                      /\ stage[s] = "served" => /\ stage'[s] = "served"
                                                /\ listening'[s] \subseteq listening[s]
                      /\ writer[s] = "exited" => writer'[s] = "exited"
                      /\ Ended(s) => Ended(s)'
<1>1. Init => I
  BY InitTypes, InitShape, InitClosed
<1>2. I /\ [Next]_vars => I'
  BY StepTypes, StepShape, StepClosed
<1>3. I /\ [Next]_vars => [A]_vars
  BY StepWindsDown
<1> HIDE DEF I, A
<1>4. Spec => [][A]_vars
  BY <1>1, <1>2, <1>3, PTL DEF Spec
<1> QED
  BY <1>4 DEF OnlyWindsDown, A

=============================================================================

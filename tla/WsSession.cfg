\* Two overlapping sessions of one user.
SPECIFICATION FairSpec
CONSTANTS
    s1 = s1
    s2 = s2
    alice = alice
    NoSession = NoSession
    Sessions = {s1, s2}
    Users = {alice}
    UserID <- Reconnect
    Channels = {general, random}
INVARIANTS TypeOK SessionShape NoSocketLeak HubTracksNewest
PROPERTY NoGoroutineLeak
CHECK_DEADLOCK FALSE

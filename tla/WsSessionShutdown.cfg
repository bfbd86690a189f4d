\* Shutdown while a user has two connections.
SPECIFICATION FairSpec
CONSTANTS
    s1 = s1
    s2 = s2
    alice = alice
    NoSession = NoSession
    Sessions = {s1, s2}
    Users = {alice}
    UserID <- Reconnect
    Channels = {general, random}
PROPERTY ShutdownClosesAll
CHECK_DEADLOCK FALSE

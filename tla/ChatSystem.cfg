\* A client with a socket, 202s and delta-sync, on two channels.
SPECIFICATION ChatSpec
CONSTANTS
    s1 = s1
    general = general
    random = random
    alice = alice
    bob = bob
    NoSync = NoSync
    Readers = {alice}
    PageSize = 1
    MaxFailures = 1
    Message <- Talk
    MaxBroadcasts = 2
    Channels = {general, random}
    Sessions = {s1}
    UserID <- OneSession
INVARIANTS ChatTypeOK LossHasCause OnePagePerChannel
PROPERTY CatchesUp

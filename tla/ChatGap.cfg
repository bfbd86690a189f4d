\* A client with a socket; INSERTs commit in the order of their IDs.
SPECIFICATION OrderedSpec
CONSTANTS
    s1 = s1
    general = general
    random = random
    alice = alice
    bob = bob
    NoSync = NoSync
    Readers = {alice}
    PageSize = 1
    MaxFailures = 1
    Message <- Bobs
    MaxBroadcasts = 2
    Channels = {general}
    Sessions = {s1}
    UserID <- OneSession
PROPERTY RecoveredBySync

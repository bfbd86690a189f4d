\* A client without a socket; INSERTs may commit out of ID order.
SPECIFICATION ChatSpec
CONSTANTS
    s1 = s1
    general = general
    random = random
    alice = alice
    bob = bob
    NoSync = NoSync
    Readers = {alice}
    PageSize = 1
    MaxFailures = 1
    Message <- Bobs
    MaxBroadcasts = 2
    Channels = {general}
    Sessions = {}
    UserID <- NoSession
PROPERTY EventuallyReceived

\* SIGTERM with a request in flight.
SPECIFICATION OrderlySpec
CONSTANTS
    r1 = r1
    r2 = r2
    n1 = n1
    general = general
    alice = alice
    bob = bob
    k1 = k1
    NoKey = NoKey
    Nodes = {n1}
    Requests = {r1, r2}
    Channels = {general}
    Users = {alice}
    Keys = {k1}
    Post <- SameUser
    MaxID = 2
    MaxExpiries = 1
    MaxRetries = 1
INVARIANT InFlightNotDropped

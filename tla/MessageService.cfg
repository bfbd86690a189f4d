\* Two requests with one key, from two users, on two processes.
SPECIFICATION RoutedSpec
CONSTANTS
    r1 = r1
    r2 = r2
    n1 = n1
    general = general
    alice = alice
    bob = bob
    k1 = k1
    NoKey = NoKey
    Nodes = {n1, n2}
    Requests = {r1, r2}
    Channels = {general}
    Users = {alice, bob}
    Keys = {k1}
    Post <- TwoUsers
    MaxID = 3
    MaxExpiries = 1
    MaxRetries = 1
INVARIANTS TypeOK AcceptedIsDelivered OncePerWindow ConflictHasCause
           SenderWasMember PrimaryKeyFree RowsWereNotRefused
PROPERTIES ImplementsLog EveryRequestAnswered

\* One session on two channels: order, duplicates, drops and stuck writers.
SPECIFICATION FairSpec
CONSTANTS
    s1 = s1
    alice = alice
    bob = bob
    Sessions = {s1}
    Users = {alice, bob}
    Channels = {general, random}
    UserID <- Alice
    sendBuffer = 2
    MaxPublished = 3
INVARIANTS TypeOK NothingVanishes
PROPERTIES ImplementsBestEffort ListenerNeverBlocks
CHECK_DEADLOCK FALSE

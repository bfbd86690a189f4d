\* A DM between two users, made by a third.
SPECIFICATION ReliableSpec
CONSTANTS
    r1 = r1
    r2 = r2
    r3 = r3
    group = group
    dm = dm
    other = other
    alice = alice
    bob = bob
    Registrations = {r1, r2, r3}
    Names = {r1, r2, r3}
    Username <- AllDifferent
    Creations = {dm}
    Request <- OneDM
INVARIANT AtMostTwoInDM

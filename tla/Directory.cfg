\* Overlapping registrations and creations, with failures.
SPECIFICATION Spec
CONSTANTS
    r1 = r1
    r2 = r2
    r3 = r3
    group = group
    dm = dm
    other = other
    alice = alice
    bob = bob
    Registrations = {r1, r2, r3}
    Names = {alice, bob}
    Username <- SameName
    Creations = {group, other}
    Request <- GroupAndOther
INVARIANTS TypeOK OneOwnerPerName CreatedIsListed

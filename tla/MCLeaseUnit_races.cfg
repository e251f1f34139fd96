\* Every handler of a lease document interleaved with every other.
SPECIFICATION Spec
CONSTANTS
    Handlers = {h1, h2}
    Leases = {l1}
    Units = {u1}
    l1 = l1
    l2 = l2
    u1 = u1
    UnitOf <- MCUnitOf1
    Required = 2
    MaxPaid = 3
    MayCrash = TRUE
    Ops <- KeptOps
INVARIANT ActiveIsSignedAndPaid
CHECK_DEADLOCK FALSE

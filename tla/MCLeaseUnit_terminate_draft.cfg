\* A competing draft is terminated.
SPECIFICATION Spec
CONSTANTS
    Handlers = {h1}
    Leases = {l1, l2}
    Units = {u1}
    l1 = l1
    l2 = l2
    u1 = u1
    UnitOf <- MCUnitOf
    Required = 1
    MaxPaid = 1
    MayCrash = FALSE
    Ops <- CloseOps
INVARIANT ActiveIsOccupied
CHECK_DEADLOCK FALSE

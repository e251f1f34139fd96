\* The requests of two leases of one unit, one after the other.
SPECIFICATION Spec
CONSTANTS
    Handlers = {h1}
    Leases = {l1, l2}
    Units = {u1}
    l1 = l1
    l2 = l2
    u1 = u1
    UnitOf <- MCUnitOf
    Required = 2
    MaxPaid = 3
    MayCrash = FALSE
    Ops <- AllOps
INVARIANT PaidAndSignedIsActive
PROPERTY TerminatedIsFinal
CHECK_DEADLOCK FALSE

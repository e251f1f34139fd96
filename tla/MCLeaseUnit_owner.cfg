\* Two owners activate, reserve and release at once; processes die.
SPECIFICATION Spec
CONSTANTS
    Handlers = {h1, h2}
    Leases = {l1, l2}
    Units = {u1}
    l1 = l1
    l2 = l2
    u1 = u1
    UnitOf <- MCUnitOf
    Required = 1
    MaxPaid = 1
    MayCrash = TRUE
    Ops <- OwnerOps
INVARIANTS TypeOK AtMostOneActive ActiveIsOccupied
CHECK_DEADLOCK FALSE

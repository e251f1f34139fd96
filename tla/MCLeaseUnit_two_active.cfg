\* Two tenants sign and pay for one unit, one request after the other.
SPECIFICATION Spec
CONSTANTS
    Handlers = {h1}
    Leases = {l1, l2}
    Units = {u1}
    l1 = l1
    l2 = l2
    u1 = u1
    UnitOf <- MCUnitOf
    Required = 1
    MaxPaid = 1
    MayCrash = FALSE
    Ops <- TenantOps
INVARIANT AtMostOneActive
CHECK_DEADLOCK FALSE

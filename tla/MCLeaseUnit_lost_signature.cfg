\* One tenant signs while the payment comes in.
SPECIFICATION Spec
CONSTANTS
    Handlers = {h1, h2}
    Leases = {l1}
    Units = {u1}
    l1 = l1
    l2 = l2
    u1 = u1
    UnitOf <- MCUnitOf1
    Required = 1
    MaxPaid = 1
    MayCrash = FALSE
    Ops <- TenantOps
INVARIANT PaidAndSignedIsActive
CHECK_DEADLOCK FALSE

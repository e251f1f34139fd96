SPECIFICATION Spec
CHECK_DEADLOCK FALSE
CONSTANTS
  Manual = {m1}
  Workers = {w1}
  Leases = {l1}
  Properties = {p1}
  PropertyOf <- MCOneProperty
  Metered = {l1}
  Orphans = {}
  Prefetch = 2
  MaxFaults = 1
  MaxErrors = 0
  MaxDryRuns = 0
INVARIANT MeteredInvoicesHaveTickets

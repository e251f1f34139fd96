SPECIFICATION Spec
CHECK_DEADLOCK FALSE
CONSTANTS
  Manual = {m1}
  Workers = {w1}
  Leases = {l1}
  Properties = {p1}
  PropertyOf <- MCOneProperty
  Metered = {}
  Orphans = {}
  Prefetch = 2
  MaxFaults = 0
  MaxErrors = 0
  MaxDryRuns = 1
INVARIANT SkipsOnlyBilledMonths

SPECIFICATION FairSpec
CHECK_DEADLOCK FALSE
CONSTANTS
  Manual = {m1}
  Workers = {w1}
  Leases = {l1}
  Properties = {p1}
  PropertyOf <- MCOneProperty
  Metered = {l1}
  Orphans = {}
  Prefetch = 1
  MaxFaults = 1
  MaxErrors = 1
  MaxDryRuns = 1
PROPERTIES BilledOrReported RequestsKept

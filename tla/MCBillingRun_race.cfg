SPECIFICATION Spec
CHECK_DEADLOCK FALSE
CONSTANTS
  Manual = {m1}
  Workers = {w1}
  Leases = {l1, l2, l3}
  Properties = {p1}
  PropertyOf <- MCOneProperty
  Metered = {l1}
  Orphans = {l3}
  Prefetch = 2
  MaxFaults = 0
  MaxErrors = 0
  MaxDryRuns = 0
INVARIANT TypeOK
INVARIANT OneInvoicePerLease
INVARIANT DistinctReferences
INVARIANT CompletedRunBilledAll

SPECIFICATION Spec
CONSTANTS
  Calls = {c1}
  Jobs = {j1}
  Notices = {webhook, verify}
  None = None
  Funds = 3
  Hold = 2
  TopUp = 1
  Costs = {1}
  MaxLines = 1
  MaxQueue = 1
  MaxFaults = 0
INVARIANTS CreditedOnce
CHECK_DEADLOCK FALSE

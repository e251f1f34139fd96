SPECIFICATION FairSpec
CONSTANTS
  Calls = {c1}
  Jobs = {j1}
  Notices = {}
  None = None
  Funds = 3
  Hold = 2
  TopUp = 1
  Costs = {1}
  MaxLines = 2
  MaxQueue = 1
  MaxFaults = 1
PROPERTIES AlwaysReturned
CHECK_DEADLOCK FALSE

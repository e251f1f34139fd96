SPECIFICATION FairSpec
CONSTANTS
  Calls = {c1}
  Jobs = {j1, j2}
  Notices = {webhook}
  None = None
  Funds = 3
  Hold = 2
  TopUp = 1
  Costs = {1, 3}
  MaxLines = 2
  MaxQueue = 1
  MaxFaults = 1
INVARIANTS TypeOK NeverOvercharged AmountsAddUp
PROPERTIES HoldReturned RunEnds
CHECK_DEADLOCK FALSE

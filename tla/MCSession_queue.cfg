SPECIFICATION FairSpec
CONSTANTS
  t1 = t1  t2 = t2  c1 = c1  c2 = c2  r1 = r1  r2 = r2  r3 = r3  s1 = s1  s2 = s2
  None = None  Refused = Refused
  Tabs = {t1, t2}
  Clients = {c1, c2}
  TabOf <- TwoTabs
  Requests = {r1, r2, r3}
  ClientOf <- Split
  Wrong = {r1}
  Sessions = {s1}
  NoRefresh = {}
  MaxEpoch = 1
  MaxFaults = 1
INVARIANTS TypeOK OneRefresh NobodyStranded
PROPERTIES EveryRequestSettles KeptWhileHonoured
CHECK_DEADLOCK FALSE

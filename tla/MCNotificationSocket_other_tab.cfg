SPECIFICATION FairSpec
CONSTANTS
  None = None
  Sockets = {w1, w2, w3, w4}
  Calls = {}
  OtherTabs = TRUE
  MaxNotifications = 2
  MaxRetry = 2
  MaxFaults = 2
PROPERTY AlwaysReconnects
CHECK_DEADLOCK FALSE

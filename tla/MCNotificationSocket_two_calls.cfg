SPECIFICATION FairSpec
CONSTANTS
  None = None
  Sockets = {w1, w2, w3, w4}
  Calls = {a, b}
  OtherTabs = TRUE
  MaxNotifications = 2
  MaxRetry = 2
  MaxFaults = 0
INVARIANT PanelIsOneCall
CHECK_DEADLOCK FALSE

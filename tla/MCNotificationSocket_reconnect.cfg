SPECIFICATION FairSpec
CONSTANTS
  None = None
  Sockets = {w1, w2, w3, w4}
  Calls = {a}
  OtherTabs = TRUE
  MaxNotifications = 2
  MaxRetry = 2
  MaxFaults = 2
INVARIANTS TypeOK OneConnection ShownOnce EndedStaysClosed
PROPERTY Reconnects
CHECK_DEADLOCK FALSE

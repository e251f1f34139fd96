\* A run the scheduler published, and a broker restart.
SPECIFICATION FairSpec
CONSTANTS
    Messages = {m1}
    Consumers = {c1}
    Prefetch = 1
    Poison = {}
    Transient = {m1}
    MaxFaults = 1
PROPERTY EveryMessageHandled
CHECK_DEADLOCK FALSE

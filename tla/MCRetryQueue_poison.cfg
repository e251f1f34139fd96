\* A message whose handler always raises.
SPECIFICATION FairSpec
CONSTANTS
    Messages = {m1}
    Consumers = {c1}
    Prefetch = 1
    Poison = {m1}
    Transient = {}
    MaxFaults = 0
PROPERTY PoisonIsParked
CHECK_DEADLOCK FALSE

\* Two workers, one poison and one transient message, crashes and restarts.
SPECIFICATION FairSpec
CONSTANTS
    Messages = {m1, m2, m3, m4}
    Consumers = {c1, c2}
    Prefetch = 1
    Poison = {m3}
    Transient = {m4}
    MaxFaults = 2
INVARIANTS QTypeOK DeliveredOnceAtATime
PROPERTIES KeepsPromise
CHECK_DEADLOCK FALSE

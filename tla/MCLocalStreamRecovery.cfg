\* Connections fail, the tab is hidden, the budget of retries runs out.
SPECIFICATION FairSpec
CONSTANTS
    s1 = s1
    s2 = s2
    s3 = s3
    s4 = s4
    s5 = s5
    i1 = i1
    i2 = i2
    Sockets = {s1, s2, s3, s4, s5}
    NoSocket = NoSocket
    Slots = {i1}
    MaxAttempts = 1
    MaxFaults = 1
INVARIANTS StreamInductive ReconnectingIsDriven SubscriptionsAreCarried
PROPERTIES Recovers
CHECK_DEADLOCK FALSE

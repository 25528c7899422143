\* One phone; a link falls silent, a deadline passes or the relay restarts.
SPECIFICATION FairSpec
CONSTANTS
    w1 = w1
    w2 = w2
    f1 = f1
    f2 = f2
    ServerSockets = {w1, w2}
    PhoneSockets = {f1}
    NoSocket = NoSocket
    MaxFaults = 1
    Strict = TRUE
    MaxSettings = 2
INVARIANTS OneRegistration WaitingIsRegistered
PROPERTIES ServerReturns SpokenIsSettled
CHECK_DEADLOCK FALSE

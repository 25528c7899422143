\* Two phones compete for a server whose settings change.
SPECIFICATION Spec
CONSTANTS
    w1 = w1
    w2 = w2
    f1 = f1
    f2 = f2
    ServerSockets = {w1, w2}
    PhoneSockets = {f1, f2}
    NoSocket = NoSocket
    MaxFaults = 0
    Strict = TRUE
    MaxSettings = 2
SYMMETRY PhoneSymmetry
INVARIANTS PairingExact FramesStayInPair RemoteInductive
CHECK_DEADLOCK FALSE

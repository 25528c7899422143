\* One hosted creation, retries, and restarts whose pids may be reused.
SPECIFICATION Spec
CONSTANTS
    c1 = c1
    c2 = c2
    n1 = n1
    n2 = n2
    s1 = s1
    s2 = s2
    r1 = r1
    r2 = r2
    r3 = r3
    c3 = c3
    NoNative = NoNative
    NoCreation = NoCreation
    Creations = {c1}
    Intent <- AllInput
    Natives = {n1}
    Scopes = {s1}
    NativeScope <- NativesInOneScope
    DispatchScope <- OneScope
    RetryKeys = {1, 2, 3}
    MaxAttempts = 3
    MaxLives = 2
    Runs = {r1, r2, r3}
    Hosted = {c1}
    MaxWorkers = 2
    MaxStarts = 16
    QueueLimit = 1
    PidReuse = TRUE
SYMMETRY CallSymmetry
INVARIANTS NeverReplayed OnlyRefusedAreRetried CreationInductive EvidenceIsTrue
PROPERTIES ConsumedIsFinal

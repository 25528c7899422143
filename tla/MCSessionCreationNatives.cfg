\* A first message and a copy in one namespace, one worker, a restart.
SPECIFICATION FairSpec
CONSTANTS
    c1 = c1
    c2 = c2
    n1 = n1
    n2 = n2
    s1 = s1
    s2 = s2
    r1 = r1
    r2 = r2
    r3 = r3
    c3 = c3
    NoNative = NoNative
    NoCreation = NoCreation
    Creations = {c1, c2}
    Intent <- InputAndCopy
    Natives = {n1, n2}
    Scopes = {s1}
    NativeScope <- NativesInOneScope
    DispatchScope <- OneScope
    RetryKeys = {}
    MaxAttempts = 1
    MaxLives = 2
    Runs = {r1, r2}
    Hosted = {}
    MaxWorkers = 1
    MaxStarts = 16
    QueueLimit = 0
    PidReuse = FALSE
INVARIANTS NativeBelongsToItsSession AllocationCoversDoubt
PROPERTIES CreationsSettle

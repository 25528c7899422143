\* Three creations, three calls at a time, two workers and a queue of one.
SPECIFICATION Spec
CONSTANTS
    c1 = c1
    c2 = c2
    n1 = n1
    n2 = n2
    s1 = s1
    s2 = s2
    r1 = r1
    r2 = r2
    r3 = r3
    c3 = c3
    NoNative = NoNative
    NoCreation = NoCreation
    Creations = {c1, c2, c3}
    Intent <- AllInput
    Natives = {n1}
    Scopes = {s1}
    NativeScope <- NativesInOneScope
    DispatchScope <- OneScope
    RetryKeys = {}
    MaxAttempts = 1
    MaxLives = 1
    Runs = {r1, r2, r3}
    Hosted = {}
    MaxWorkers = 2
    MaxStarts = 16
    QueueLimit = 1
    PidReuse = FALSE
SYMMETRY CreationSymmetry
INVARIANTS SomeoneAnswers OwnedIsNotUncertain WorkersBounded
PROPERTIES ImplementsLedger

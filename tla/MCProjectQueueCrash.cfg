\* Two projects of one item each: retries, a launch that fails after its
\* delivery, and a crash at any point, which comes back paused.
SPECIFICATION Spec
CONSTANTS
    p1 = p1
    p2 = p2
    i1 = i1
    i2 = i2
    cmd = cmd
    None = None
    Projects = {p1, p2}
    Items = {i1, i2}
    ProjectOf <- ItemEach
    MaxStartupFailures = 1
    MaxRetries = 1
    Commands = {}
    Promotable = {}
    Forcible = {FALSE}
    Pausable = {}
    Targetable = {"existing", "new"}
    Disturbances = {"activity"}
    MaxReservations = 0
    MaxCrashes = 1
    MaxSaveFailures = 0
    MaxLateFailures = 1
SYMMETRY PairSymmetry
INVARIANTS RedeliveriesExplained BacklogWaitsForUser
PROPERTIES ResumeReachesOthers
CHECK_DEADLOCK FALSE

\* One project, two items: users edit, pause and start items around the run
\* and a failing save.
SPECIFICATION Spec
CONSTANTS
    p1 = p1
    p2 = p2
    i1 = i1
    i2 = i2
    cmd = cmd
    None = None
    Projects = {p1}
    Items = {i1, i2}
    ProjectOf <- OneProject
    MaxStartupFailures = 1
    MaxRetries = 0
    Commands = {}
    Promotable = {i1, i2}
    Forcible = {FALSE}
    Pausable = {"manual"}
    Targetable = {"existing", "new"}
    Disturbances = {"creation"}
    MaxReservations = 0
    MaxCrashes = 0
    MaxSaveFailures = 1
    MaxLateFailures = 0
SYMMETRY ItemSymmetry
INVARIANTS QueueInductive QueueWellFormed FileFollowsMemory
    AdmittedItemKeepsItsSession ClaimHeld DispatchingIsOwned EmptyQueueRuns
CHECK_DEADLOCK FALSE

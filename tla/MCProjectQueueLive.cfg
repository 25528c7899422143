\* One item: everything that may interrupt its promotion, and a failing save.
SPECIFICATION FairSpec
CONSTANTS
    p1 = p1
    p2 = p2
    i1 = i1
    i2 = i2
    cmd = cmd
    None = None
    Projects = {p1}
    Items = {i1}
    ProjectOf <- OneProject
    MaxStartupFailures = 1
    MaxRetries = 0
    Commands = {cmd}
    Promotable = {i1}
    Forcible = {TRUE}
    Pausable = {}
    Targetable = {"existing"}
    Disturbances = {"turn", "external", "hold", "activity", "dispose"}
    MaxReservations = 1
    MaxCrashes = 0
    MaxSaveFailures = 1
    MaxLateFailures = 0
PROPERTIES BlockedAttemptReturns RunsSettle UserStartWins ReadinessProved
CHECK_DEADLOCK FALSE

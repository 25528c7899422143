\* Doc: the backlog survives the restart.
SPECIFICATION Spec
CONSTANTS
    p1 = p1
    p2 = p2
    i1 = i1
    i2 = i2
    cmd = cmd
    None = None
    Projects = {p1}
    Items = {i1, i2}
    ProjectOf <- OneProject
    MaxStartupFailures = 1
    MaxRetries = 0
    Commands = {}
    Promotable = {}
    Forcible = {FALSE}
    Pausable = {}
    Targetable = {"existing", "new"}
    Disturbances = {}
    MaxReservations = 0
    MaxCrashes = 1
    MaxSaveFailures = 1
    MaxLateFailures = 0
PROPERTIES BacklogSurvivesRestart
CHECK_DEADLOCK FALSE

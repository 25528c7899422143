\* Doc: no replacement may claim the session of an unverified process.
SPECIFICATION Spec
CONSTANTS
    c1 = c1
    c2 = c2
    p1 = p1
    p2 = p2
    Calls = {c1, c2}
    Processes = {p1, p2}
    NoCall = NoCall
    NoProcess = NoProcess
    AtCapacity = {FALSE}
PROPERTIES UnverifiedKeepsSession

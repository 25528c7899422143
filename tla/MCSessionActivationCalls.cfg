\* Two requests of any kind at a time, with and without a free worker.
SPECIFICATION FairSpec
CONSTANTS
    c1 = c1
    c2 = c2
    p1 = p1
    p2 = p2
    Calls = {c1, c2}
    Processes = {p1, p2}
    NoCall = NoCall
    NoProcess = NoProcess
    AtCapacity = {TRUE, FALSE}
INVARIANTS SessionInductive OneProvider
PROPERTIES WaitsEnd

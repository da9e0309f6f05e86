SPECIFICATION FairHostSpec
CONSTANTS
    Callers = {c1, c2}
    Devices = {d1}
    Ports = {p1, p2}
    Snapshots = {s1}
    None = None
    MaxSequence = 1
    MaxRevision = 3
    MaxFaults = 1
    MaxCrashes = 0
    Requests = {"connect", "observe", "wait", "refAction", "global", "close", "get"}
PROPERTIES
    EveryRequestAnswered
    CloseShutsDown
\* The daemon rests when it was closed, and when a bound is used up.
CHECK_DEADLOCK FALSE

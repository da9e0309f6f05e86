SPECIFICATION HostSpec
CONSTANTS
    Callers = {c1, c2}
    Devices = {d1, d2}
    Ports = {p1, p2}
    Snapshots = {s1}
    None = None
    MaxSequence = 2
    MaxRevision = 3
    MaxFaults = 1
    MaxCrashes = 1
    Requests = {"connect", "observe", "screenshot", "listApps", "wait", "refAction", "open", "global", "close", "get"}
SYMMETRY Interchangeable
INVARIANTS
    HostTypeOK
    OneCommandAtATime
    OneDevice
    TransportsAccountedFor
    ReadyIsLive
PROPERTIES
    LedgerSpec
\* The daemon rests when it was closed, and when a bound is used up.
CHECK_DEADLOCK FALSE

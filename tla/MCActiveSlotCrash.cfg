SPECIFICATION SlotSpec
CONSTANTS
    Daemons = {d1, d2, d3}
    Owners = {o1}
    None = None
    MaxProcesses = 3
    MaxFailures = 0
    MaxStops = 0
    MaxCrashes = 1
    MaxTimeouts = 0
    QuietExits = TRUE
SYMMETRY Interchangeable
INVARIANT
    OneRuntime
CHECK_DEADLOCK FALSE

SPECIFICATION SlotSpec
CONSTANTS
    Daemons = {d1, d2}
    Owners = {o1, o2}
    None = None
    MaxProcesses = 2
    MaxFailures = 1
    MaxStops = 2
    MaxCrashes = 2
    MaxTimeouts = 2
    QuietExits = FALSE
SYMMETRY Interchangeable
INVARIANTS
    TypeOK
    OneInSection
    OneRuntime
    RuntimeIsFound
CHECK_DEADLOCK FALSE

SPECIFICATION DiscoverySpec
CONSTANTS
    Daemons = {d1, d2, d3, d4}
    Owners = {o1}
    None = None
    MaxProcesses = 2
    MaxFailures = 0
    MaxStops = 1
    MaxCrashes = 1
    MaxTimeouts = 1
    MaxTroubles = 1
    QuietExits = FALSE
PROPERTIES
    NeverLockedOut

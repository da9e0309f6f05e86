SPECIFICATION Spec
CONSTANTS
    Callers = {c1, c2}
    Devices = {d1}
    Ports = {p1, p2}
    Snapshots = {s1, s2}
    None = None
    MaxSequence = 1
    MaxRevision = 2
    MaxFaults = 1
    MaxCrashes = 1
SYMMETRY CallersAndPorts
INVARIANTS
    TypeOK
    NothingOutlivesItsLifecycle
    AuthoritativeScreenIsPublished
    SequenceIsPersisted
    StaleReadyHasNoDevice
\* The kernel rests when every call has ended and a bound is reached.
CHECK_DEADLOCK FALSE

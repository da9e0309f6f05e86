SPECIFICATION ObservationSpec
CONSTANTS
    Capacity = 2
    Cooldown = 1
    Contexts = {1, 2}
    None = None
    Kinds = {"window"}
    Loops = {"settle", "idle", "change"}
    Policy <- Ticks
    MaxClock = 4
    MaxChanges = 2
    MaxResets = 2
    MaxLives = 1
INVARIANTS
    LoopTypeOK
    NoSilentGap
    NoChangeForgotten
    OneTimer
    NoSleeperWithNews
    ConsumedIsSeen
    StableIsQuiet
PROPERTIES
    CursorHearsReset
    LoopEnds
\* The loop has ended and the bounds of the agent are used up.
CHECK_DEADLOCK FALSE

\* CHECK_DEADLOCK FALSE: the screens of a session are bounded.
CHECK_DEADLOCK FALSE
CONSTANTS
    SubmitLabels = {"Send"}
    GlobalNames = {"Frame"}
    FormClasses = {"Form"}
    UIs <- MovingUIs
    Snapshot <- MovingSnapshot
    Compiled <- MovingCompiled
    Commands <- MovingCommands
    Capabilities = {"tap", "longTap", "type", "node", "scroll", "global", "openApp", "openUrl"}
    MaxSeen = 5
    MaxDamage = 1
SPECIFICATION Spec
INVARIANTS
    RefsFaithful
    NewestSource
PROPERTIES
    RefsStay

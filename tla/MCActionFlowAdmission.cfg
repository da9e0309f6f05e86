\* CHECK_DEADLOCK FALSE: the screens of a session are bounded.
CHECK_DEADLOCK FALSE
CONSTANTS
    SubmitLabels = {"Send"}
    GlobalNames = {"Frame"}
    FormClasses = {"Form"}
    UIs <- MCUIs
    Snapshot <- MCSnapshot
    Compiled <- MCCompiled
    Commands <- MCCommands
    Capabilities = {"tap", "longTap", "type", "node", "scroll", "global", "openApp", "openUrl"}
    MaxSeen = 4
    MaxDamage = 1
SPECIFICATION Spec
INVARIANTS
    AdmissibleOnReturn

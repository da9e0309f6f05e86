SPECIFICATION Spec
CONSTANTS
    NoScreen = NoScreen
    Carries <- MCCarries
    Clients <- MCClients
    Requests <- MCRequests
    Screens <- MCScreens
    MaxRuns = 3
    MaxKills = 1
INVARIANTS
    AnswersFit
    ContinuityTruthful
    ShownTruthful
\* every invocation is over
CHECK_DEADLOCK FALSE

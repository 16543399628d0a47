CONSTANTS
    Threads = {"pty", "trust", "head", "conn"}
    ChatThread = "conn"
    Mode <- MCModes
    Keys <- MCKeys
    Labels <- MCLabels
    Texts = {"x"}
    Refs <- MCRefs
    NoText = "no text"
    AskTTL = 2
    ApprovalTTL = 2
    KeyTTL = 1
    Stall = 1
    MaxPrompts = 1
    MaxTime = 2
    MaxUpdates = 2
    MaxRestarts = 1
SPECIFICATION FairSpec
PROPERTY UpdateHandled
INVARIANTS ApprovedOnce OneOutcome
CHECK_DEADLOCK FALSE

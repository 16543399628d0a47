CONSTANTS
    MaxTurns = 3
    MaxFinals = 2
    MaxAgain = 1
    MaxRuns = 2
    Modes = {"codex", "interactive", "process"}
SPECIFICATION FairSpec
INVARIANTS WorkedOnce NoVainWait ContinuesConversation HintNeverDecides
PROPERTY KeepsContract
CHECK_DEADLOCK FALSE

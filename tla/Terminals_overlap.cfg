CONSTANTS
    Daemon = "daemon"
    Runs = {"r1", "r2"}
    Procs = {"daemon", "r1", "r2"}
    Names = {"n1", "n2"}
    Launches = {"n1"}
    ClaudeRuns = {"r2"}
    RunName <- MCRunName
    Texts <- MCTexts
    Limits <- MCLimits
    MaxSessions = 2
    MaxLines = 2
    History = 2
    MaxWire = 2
SPECIFICATION Spec
INVARIANTS DrivesNeverOverlap
CHECK_DEADLOCK FALSE

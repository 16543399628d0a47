CONSTANTS
    MaxEvents = 4
    MaxConnects = 4
    MaxCrashes = 1
    Oversized <- MCOversized
SPECIFICATION SenderFairSpec
INVARIANTS AloneKeepsAll SentOnce
PROPERTIES DiskDrains
CHECK_DEADLOCK FALSE

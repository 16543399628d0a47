CONSTANTS
    MaxLines = 2
    MaxDrives = 1
    MaxTails = 2
    Roles <- MCTurns
SPECIFICATION TailFairSpec
INVARIANTS NoEcho OnceInOrder
PROPERTIES HeldUserTurnsReplayed TurnArrives
CHECK_DEADLOCK FALSE

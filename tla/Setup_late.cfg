CONSTANTS
    Bots = {"bot1", "bot2"}
    Chats = {"group1"}
    Users = {"me"}
    None = "none"
    TokenTTL = 1
    MaxRequests = 4
    Limits <- MCLimits
SPECIFICATION Spec
INVARIANTS NoLateWrite
CHECK_DEADLOCK FALSE

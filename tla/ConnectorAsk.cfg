CONSTANTS
    Threads = {"t1", "t2"}
    Agents = {"a1", "a2"}
    Workers = {"w1", "w2"}
    Keys <- MCKeys
    Labels <- MCLabels
    Texts <- MCTexts
    Refs = {"none"}
    NoRef = "none"
    NoText = "no text"
    AnyThread = "any thread"
    Nothing = "nothing"
    Menus <- MCMenus
    ThreadOf <- MCOwnThreads
    TTL <- MCTTL
    Timeout <- MCTimeout
    MaxPrompts = 2
    MaxTime = 2
SPECIFICATION FairSpec
INVARIANTS FailClosed AgentHearsOperator
PROPERTIES AnswerIsFinal SleepingClientHears WaitEnds
CHECK_DEADLOCK FALSE

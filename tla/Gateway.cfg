CONSTANTS
    Threads = {"session", "t1", "t2"}
    Session = "session"
    Keys <- MCKeys
    Labels <- MCLabels
    Texts = {"1", "no", "/stop"}
    Slashes = {"/stop"}
    Refs = {"ref"}
    NoText = "no text"
    Chats = {"me"}
    Recipient = "me"
    Number <- MCNumber
    Aliases <- MCAliases
    Menu <- MCMenu
    HasModel = {"session"}
    QuestionTTL = 1
    Batch = 2
    MaxPrompts = 2
    MaxTurns = 3
    MaxTime = 1
    MaxMessages = 2
    Limits <- MCLimits
SPECIFICATION GatewayFairSpec
INVARIANTS SentOnceInOrder RecordedIsTheAnswer OneThreadPerChat
PROPERTY OutboxDrains
CHECK_DEADLOCK FALSE

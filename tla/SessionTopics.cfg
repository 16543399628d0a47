CONSTANTS
    Sessions = {"S"}
    Callers = {"s1", "s2", "s3"}
    SessionOf <- MCSessionOf
    ConnectorOf <- MCConnectorOf
    NoSession = "no session"
    Keys = {"k1"}
    NoKey = "no key"
    QueueMax = 2
    MaxFrames = 3
    MaxConns = 2
    MaxTrouble = 2
    MaxArrivals = 4
SPECIFICATION Spec
INVARIANTS OneThreadPerSession OneTopicPerThread PacedDriveIsOneMessage LinePostedOnce UserTurnShown ClosedIsDrained
CHECK_DEADLOCK FALSE

SPECIFICATION Spec
CONSTANTS
    u1 = u1
    Users = {u1}
    Requests = {1, 2}
    Sender <- MCSender
    Body <- MCBody
    Window = 2
    Limit = 1
    MaxDelay = 0
    MaxTime = 2
    MaxFaults = 1
    MaxInt64 = 127
    Decimals = 4
    MaxQuantity = 15
    PostgresAttempts = 2
    TopicAttempts = 1
    Sockets = {s1}
INVARIANTS TypeOK StopIsGraceful
PROPERTY StopsAfterSignal
CHECK_DEADLOCK FALSE

SPECIFICATION GatewaySpec
CONSTANTS
    u1 = u1
    u2 = u2
    Users = {u1, u2}
    Requests = {1, 2, 3}
    Sender <- MCSender
    Body <- MCBody
    Window = 3
    Limit = 1
    MaxDelay = 2
    MaxTime = 7
    MaxFaults = 2
    MaxInt64 = 127
    Decimals = 4
    MaxQuantity = 15
INVARIANTS QuotaHolds RefusedHadTheirQuota AnswersAreTrue LocksAreExact
CHECK_DEADLOCK FALSE

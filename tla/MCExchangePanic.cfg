SPECIFICATION Spec
CONSTANTS
    u1 = u1
    u2 = u2
    Users = {u1, u2}
    OrderIds = {1, 2, 3, 4}
    Prices = {1}
    Quantities = {1, 2, 3}
    Decimals = 1
    Offers <- OnePrice
    Opening <- Funded
    Deposits <- NoDeposits
    MaxSupply = 5
    MaxBacklog = 2
    MaxFaults = 1
INVARIANT SettlementsNeverPanic
CHECK_DEADLOCK FALSE

SPECIFICATION Spec
CONSTANTS
    u1 = u1
    u2 = u2
    Users = {u1, u2}
    OrderIds = {1, 2}
    Prices = {1, 2, 3}
    Quantities = {1, 2}
    Decimals = 2
    Offers <- Small
    Opening <- Funded
    Deposits <- NoDeposits
    MaxSupply = 5
    MaxBacklog = 2
    MaxFaults = 0
INVARIANT BookIsRecoverable
CHECK_DEADLOCK FALSE

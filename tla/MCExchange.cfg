SPECIFICATION Spec
CONSTANTS
    u1 = u1
    u2 = u2
    Users = {u1, u2}
    OrderIds = {1, 2, 3}
    Prices = {1, 2, 3}
    Quantities = {1, 2}
    Decimals = 2
    Offers <- Small
    Opening <- Funded
    Deposits <- OneCoin
    MaxSupply = 5
    MaxBacklog = 3
    MaxFaults = 1
INVARIANTS TypeOK DatabaseConserves CacheMatchesDatabase MemoryIsAccepted StatusesTellTheBook
PROPERTY TerminalIsFinal
CHECK_DEADLOCK FALSE

SPECIFICATION BookSpec
CONSTANTS
    Users = {u1, u2}
    OrderIds = {o1, o2, o3, o4}
    Prices = {1, 2}
    Quantities = {1, 2}
    Decimals = 1
    NoOrder = NoOrder
SYMMETRY Symmetry
INVARIANT BookTypeOK
PROPERTY ImplementsPriceTime
\* Every order id is used once, so the market falls silent in the end.
CHECK_DEADLOCK FALSE

SPECIFICATION Spec
CONSTANTS
    Users = {u1, u2}
    OrderIds = {o1, o2, o3}
    Prices = {2, 3}
    Quantities = {1}
    Decimals = 1
    NoOrder = NoOrder
    Amounts = {3}
    MaxSupply = 6
SYMMETRY Symmetry
INVARIANT FundsAreReleased
CHECK_DEADLOCK FALSE

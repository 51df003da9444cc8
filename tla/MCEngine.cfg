SPECIFICATION Spec
CONSTANTS
    Users = {u1, u2}
    OrderIds = {o1, o2, o3}
    Prices = {2, 3}
    Quantities = {1, 3}
    Decimals = 3
    NoOrder = NoOrder
    Amounts = {3}
    MaxSupply = 6
SYMMETRY Symmetry
INVARIANTS TypeOK NoPanic MoneyIsConserved ReservesAreSound
CHECK_DEADLOCK FALSE

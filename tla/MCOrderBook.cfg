SPECIFICATION Spec
CONSTANTS
    Users = {u1, u2}
    OrderIds = {o1, o2, o3}
    Prices = {1, 2, 3}
    Quantities = {1, 2}
    Decimals = 1
    Nodes = {n1, n2, n3}
    Nil = Nil
    NoData = NoData
    NoOrder = NoOrder
INVARIANTS TypeOK LevelsAreQueues SnapshotShowsTheBook PoolIsDisjoint
PROPERTIES ImplementsLimitBook PlaceOrderReturns
CHECK_DEADLOCK FALSE

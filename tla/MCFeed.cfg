SPECIFICATION Spec
CONSTANTS
    Clients = {c1}
    SendBuffer = 1
    TradeBuffer = 1
    Nothing = Nothing
    MaxChanges = 2
    MaxFaults = 1
INVARIANTS TypeOK ChannelsCloseOnce RestIsCurrent TradesAreWritten
PROPERTIES SnapshotsAdvance DeadClientsLeave ChangesAreShown
CHECK_DEADLOCK FALSE

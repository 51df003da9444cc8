SPECIFICATION Spec
CONSTANTS
    MaxCommands = 3
    Cancellations = {2}
    Limit = 2
    MaxFaults = 1
INVARIANTS TypeOK ProcessedArePublished PublishedAreCommitted CommittedAreHandled CausalOrder NoFaultNoDuplicate NoWakeupIsLost
PROPERTY ImplementsDelivery

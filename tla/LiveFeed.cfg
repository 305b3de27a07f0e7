SPECIFICATION Spec
CONSTANTS
    Seeded = 1
    MaxWrites = 2
    MaxFaults = 1
    Limit = 2
    Buffer = 1
    None = None
INVARIANTS OneSocket FeedKeepsUp
PROPERTIES Heals Reconnects BroadcastReturns
CHECK_DEADLOCK FALSE

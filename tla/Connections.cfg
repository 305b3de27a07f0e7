SPECIFICATION Spec
CONSTANTS
    Asked = {1, 2}
    MaxFlips = 2
    MaxDeaths = 1
    MaxWrites = 2
INVARIANTS ReadyTruthful NodesUnique
PROPERTIES BootsAnyway OutageShows
CHECK_DEADLOCK FALSE

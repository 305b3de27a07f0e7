SPECIFICATION Spec
CONSTANTS
    Threshold = 160
    Cent = 10
    None = None
    Ids <- MCIds
    Tables <- MCTables
    Outputs <- MCOutputs
INVARIANTS FusionIsMean ResolvesNearest LevelsAgree
PROPERTIES ScoresConsistent

SPECIFICATION Spec
CONSTANTS
    m1 = m1
    m2 = m2
    legit = legit
    a1 = a1
    a2 = a2
    blank = blank
    Sample <- MCSample
    Mules <- MCMules
    Accounts <- MCAccounts
    Donor <- MCDonor
    Enough = 2
    GraphLimit = 2
    MaxRuns = 2
    MaxEvents = 2
    MaxFaults = 1
    None = None
SYMMETRY MCSymmetry
INVARIANTS SampleOnce CompleteMeansUsable AlertedShown ShownHaveRows
CHECK_DEADLOCK FALSE

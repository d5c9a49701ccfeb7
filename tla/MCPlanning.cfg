SPECIFICATION PlanSpec
CONSTANTS
    N = 3
    VarNames <- MCVarNames
    Collections <- MCCollections
INVARIANTS
    TypeOK
    PlannedOnce
    SourceInEarlierLevel
    NeverBesideItsSource
    WellOrderedNeverStuck
    LevelsAreEager
    AcceptsPresentable
    RejectsWithReason
    AcceptedNeverStuck

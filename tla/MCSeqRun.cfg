SPECIFICATION Spec
CONSTANTS
    N = 3
    VarNames <- MCVarNames
    Collections <- MCCollections
    OptionSets <- MCOptions
    Answers <- MCAnswers
    Filters <- MCFilters
INVARIANTS
    SeesLatestValue
    NothingVanishes
    ValidatedNeverUnresolved
    FailFastStops
    SavedIsWhole
    AttemptsAreSends
PROPERTIES
    NeverResent
    Returns
    ImplementsContract

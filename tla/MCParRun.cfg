SPECIFICATION Spec
CONSTANTS
    N = 3
    VarNames <- MCVarNames
    Collections <- MCCollections
    OptionSets <- MCOptions
    Answers <- MCAnswers
    Filters <- MCFilters
INVARIANTS
    StartsAfterSources
    SeesLevelsBefore
    SeesSequentialValues
    NothingVanishes
    FailFastStopsLevels
PROPERTIES
    Returns
    ImplementsContract

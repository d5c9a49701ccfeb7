SPECIFICATION CommandSpec
CONSTANTS
    N = 2
    VarNames <- MCVarNames
    Collections <- MCCollections
    OptionSets <- MCOptions
    Answers <- MCAnswers
    Filters <- MCFilters
    CommandOptions <- MCCommandOptions
INVARIANTS
    ZeroMeansPassed
    OneBlamesTheApi

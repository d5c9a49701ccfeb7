SPECIFICATION Spec
CONSTANTS
    Exact = 16
    ExpFrom = 10
    PartOf <- MCPartOf
    LengthOf <- MCLengthOf
    Responses <- MCResponses
    Specs <- MCSpecs
INVARIANTS
    NothingPassesUnread
    OppositesDisagree
    EqIsExact

SPECIFICATION Spec
CONSTANTS
    Savers = {s1, s2, s3}
    Seconds = {1, 2}
    MaxSuffix = 3
    Settings <- MCInTurn
    None = None
SYMMETRY SaverSymmetry
INVARIANT
    RemovesOldest

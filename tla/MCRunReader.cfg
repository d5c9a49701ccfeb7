SPECIFICATION HistorySpec
CONSTANTS
    Savers = {s1, s2, s3}
    Seconds = {1, 2}
    MaxSuffix = 2
    Settings <- MCSettings
    None = None
    Limit = 1
    Beside = 2
SYMMETRY SaverSymmetry
INVARIANTS
    ArtifactsWhole
    NewestSurvive
    RotationBounded
    AcknowledgedReadable
    IndexAgrees
    ShowsAcknowledged
    EntriesExplained

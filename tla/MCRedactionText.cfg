SPECIFICATION Spec
CONSTANTS
    Letters <- MCLetters
    Configs <- MCConfigs
    Sources <- MCSources
    Fields <- MCFields
    Common <- MCCommon
    MinSecretLen = 2
INVARIANTS
    TextOnlyScrubbed

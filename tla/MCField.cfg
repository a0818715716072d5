SPECIFICATION Spec
CONSTANTS
    MaxCands = 3
    Parallel = 2
    Tries = 1
    Turns = 1
    Band <- MCBand
    Stale <- MCClean
    Ported <- MCPortless
INVARIANTS
    LiveRunnersTracked
    ExhaustiveOnFailure
    LosersReaped
PROPERTIES
    CheaperBandsFirst
    PassStands

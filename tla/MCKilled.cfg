SPECIFICATION Spec
CONSTANTS
    MaxCands = 2
    Parallel = 2
    Tries = 1
    Turns = 1
    Band <- MCBand
    Stale <- MCClean
    Ported <- MCPortless
INVARIANTS
    KilledRaceReapsAll

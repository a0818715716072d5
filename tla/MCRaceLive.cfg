SPECIFICATION FairSpec
CONSTANTS
    MaxCands = 2
    Parallel = 2
    Tries = 2
    Turns = 1
    Band <- MCBand
    Stale <- MCClean
    Ported <- MCPorted
INVARIANTS
    WinnerReleased
PROPERTIES
    RaceReturns
    PassIsCrowned

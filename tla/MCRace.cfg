SPECIFICATION Spec
CONSTANTS
    MaxCands = 2
    Parallel = 2
    Tries = 2
    Turns = 2
    Band <- MCBand
    Stale <- MCStale
    Ported <- MCPortless
INVARIANTS
    TypeOK
    CrownIsGenuine
    WinnerReleased
    PromotionIsGenuine
PROPERTIES
    ImplementsCrown
    ImplementsChain
    OnlyTicksRepeat

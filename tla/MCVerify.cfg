SPECIFICATION FairSpec
CONSTANTS
    MaxChecks = 3
    Deadline = 6
    Hold = 4
    Grace = 1
    Poll = 1
    MaxCost = 3
INVARIANTS
    TypeOK
    PassIsHeld
    LatePassSurvives
    FailureHasEvidence
PROPERTIES
    SteadyPasses
    SettledSpends
    SettledEnds
CHECK_DEADLOCK FALSE

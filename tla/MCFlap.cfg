SPECIFICATION FairSpec
CONSTANTS
    MaxChecks = 2
    Deadline = 4
    Hold = 2
    Grace = 1
    Poll = 1
    MaxCost = 2
PROPERTIES
    DeadlineEnds
CHECK_DEADLOCK FALSE

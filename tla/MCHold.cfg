SPECIFICATION Spec
CONSTANTS
    MaxChecks = 2
    Deadline = 4
    Hold = 2
    Grace = 1
    Poll = 1
    MaxCost = 2
INVARIANTS
    HeldThroughout
CHECK_DEADLOCK FALSE

CONSTANTS
    Plans = {"one", "two", "far"}
    Ports <- ThreePorts
    Rounds = 1
    AgentTurns = 1
    InfraCap = 1
    ExtraCap = 1
    Stack = "one"
    Turns = 2
    MaxRuns = 3
SPECIFICATION FairSpec
CHECK_DEADLOCK FALSE
INVARIANTS TypeOK PassIsReplayed RebootBootsIt NothingUnseenIsKept ProvedUnlessRanOut
PROPERTIES ImplementsChain EachStepSpends RunEnds

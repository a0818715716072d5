CONSTANTS
    Slots = {"pkg", "source"}
    Scouted = {}
    Intents = {"serve"}
    Overrides = {}
    Answers <- FullAnswers
    Fallback = {"guess"}
    Web = {"web"}
    ScoutTurns = 2
    MaxRoutes = 1
    MaxRuns = 2
SPECIFICATION Spec
CHECK_DEADLOCK FALSE
INVARIANTS TypeOK PlansServeTarget SilenceBlocksNothing PkgHasTheSharedPlan

CONSTANTS
    Slots = {"pkg"}
    Scouted = {"source"}
    Intents = {"serve"}
    Overrides = {}
    Answers <- ServeAnswers
    Fallback = {}
    Web = {"web"}
    ScoutTurns = 2
    MaxRoutes = 1
    MaxRuns = 2
SPECIFICATION Spec
CHECK_DEADLOCK FALSE
INVARIANTS ReplayServesTarget OwnMethodOrNothing
PROPERTIES CachedScanIsWhole SettledRouteBootsItsLine PlannersSpend

\* Plans of two and three steps, so that two tools run before an answer (the third
\* step of a turn hands it over); the recursion limit at its bound.
CONSTANTS
    Tools <- Selling
    MaxPlan = 2
    MaxSteps = 3
    RecursionLimit = 13
SPECIFICATION FairSpec
CHECK_DEADLOCK FALSE
INVARIANTS HandOverIsReal EvidenceIsTrue NeverSilent OrdersAudited WithinRecursionLimit NoStalePlan
PROPERTIES TurnEnds

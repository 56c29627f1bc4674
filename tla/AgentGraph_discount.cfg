\* graph.test.ts:1657
CONSTANTS
    Tools <- Asking
    MaxPlan = 2
    MaxSteps = 3
    RecursionLimit = 13
SPECIFICATION Spec
CHECK_DEADLOCK FALSE
INVARIANTS DiscountEscalated

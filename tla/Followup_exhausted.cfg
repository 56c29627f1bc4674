\* followupWorker.ts:12-20
CONSTANTS
    t1 = t1
    t2 = t2
    f1 = f1
    f2 = f2
    f3 = f3
    e1 = e1
    e2 = e2
    none = none
    NoOne = none
    Turns <- OneTurn
    Followups <- OneFollowup
    Workers <- OneWorker
    Attempts = 2
    MaxStalls = 1
SPECIFICATION Spec
CHECK_DEADLOCK FALSE
PROPERTIES FailedOnlyWhenExhausted

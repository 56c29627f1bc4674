\* One job that is delivered again beside two turns, one after the other; or three calls
\* of scheduleFollowup, a turn and an execution.
CONSTANTS
    t1 = t1
    t2 = t2
    f1 = f1
    f2 = f2
    f3 = f3
    e1 = e1
    e2 = e2
    none = none
    NoOne = none
    Turns <- TwoTurns
    Followups <- ThreeFollowups
    Workers <- TwoWorkers
    Attempts = 1
    MaxStalls = 1
SPECIFICATION ScenariosSpec
CHECK_DEADLOCK FALSE
INVARIANTS OneScheduled SentOnceIfExecuted LocksEndWithTheConversation OneOpenEscalation LostOnlyToReminder
PROPERTIES SentOnlyWhenDue OutcomeIsFinal EscalationRecorded

\* Two conversations, two messages, one activity each, under fairness.
CONSTANTS
    MaxSockets = 2
    MaxMessages = 2
    MaxActivities = 1
    BatchSize = 2
    Tools <- TwoTools
    Reports = {"planning"}
SPECIFICATION FairSpec
CHECK_DEADLOCK FALSE
INVARIANTS TypeOK OneTurnAtATime OneConversation AnswersFollow PanelIsTrue NoHiddenSocket NoAnswerLost
PROPERTIES PendingEnds

----------------------------- MODULE MCFollowup -----------------------------
\* Instances of Followup for TLC.
EXTENDS Followup, TLC

CONSTANTS t1, t2, f1, f2, f3, e1, e2, none

OneTurn == {t1}
TwoTurns == {t1, t2}
OneFollowup == {f1}
TwoFollowups == {f1, f2}
ThreeFollowups == {f1, f2, f3}
OneWorker == {e1}
TwoWorkers == {e1, e2}

\* Names are given in the order in which they are used: they are all alike.
Numbered ==
    /\ spc'[f2] # "idle" => spc'[f1] # "idle"
    /\ tpc'[t2] # "idle" => tpc'[t1] # "idle"
    /\ wpc[e2] = "idle" /\ wpc'[e2] # "idle" => wpc[e1] # "idle"

\* One reminder, with everything that may happen to it, beside two turns.
OneReminder == spc'[f2] = "idle" /\ spc'[f3] = "idle"

\* Three calls of scheduleFollowup beside a turn and an execution that neither
\* fails nor stalls.  The first two may race; the third comes once two reminders
\* have cut in on the turn.
ThreeCalls ==
    /\ spc'[f3] # "idle" => /\ row[f1] = "executed" /\ row[f2] = "executed"
                           /\ tpc[t1] \notin {"idle", "messages"}
                           /\ Cardinality(log) >= seen[t1] + 2
    /\ tpc'[t2] = "idle"
    /\ wpc'[e2] = "idle" /\ wpc'[e1] # "error"
    /\ \A f \in Followups : stalls'[f] = 0 /\ job'[f] # "failed"

ScenariosSpec == Init /\ [][Next /\ Numbered /\ (OneReminder \/ ThreeCalls)]_vars
=============================================================================

------------------------------ MODULE Followup ------------------------------
(***************************************************************************)
(* Reminders of an abandoned conversation: scheduleFollowup (followup.ts)  *)
(* writes a row and then enqueues its job; the worker (followupWorker.ts,  *)
(* followupExecution.ts) takes jobs from a BullMQ queue that delivers at   *)
(* least once, and sends the reminder if it is still due.  They share the  *)
(* conversation with the turns of its chat.                                *)
(***************************************************************************)
EXTENDS Conversation

CONSTANTS
    Workers,     \* executions of the job processor that may run at a time
    Attempts,    \* attempts of a job: followupQueue.ts
    MaxStalls    \* times BullMQ hands a stalled job to another execution

ASSUME FollowupAssumption ==
    /\ Workers \cap (Turns \cup Followups \cup {NoOne}) = {}
    /\ Attempts \in Nat \ {0}
    /\ MaxStalls \in Nat

VARIABLES
    row,        \* status of each row of followups
    rowLock,    \* who holds the row FOR UPDATE
    spc,        \* where the call of scheduleFollowup that drew this id is
    confirmed,  \* history: followups a caller was told are scheduled
    job,        \* state of the job in the queue
    owner,      \* the execution the queue takes for the one that runs the job
    starts,     \* job.attemptsStarted
    failures,   \* job.attemptsMade
    stalls,     \* times the job stalled
    wpc,        \* where each execution is
    task,       \* the followup an execution works on
    attempt,    \* its job.attemptsStarted, as it was when the job was taken
    heard,      \* history: turns that arrived once the row was there, and were recorded
    pending,    \* history: per running turn, the rows there when it arrived
    cutIn       \* history: turns during which a reminder was sent

followupVars == <<row, rowLock, spc, confirmed>>
queueVars == <<job, owner, starts, failures, stalls>>
historyVars == <<heard, pending, cutIn>>
workerVars == <<wpc, task, attempt>>
vars == <<conversationVars, followupVars, queueVars, workerVars, historyVars>>

Rows == {"none", "scheduled", "executed", "cancelled", "failed"}
JobStates == {"none", "waiting", "active", "completed", "failed"}

\* now(), at the start of a transaction.
Now == {f \in Followups : spc[f] # "idle"}

-----------------------------------------------------------------------------
\* scheduleFollowup; the call is named by the id it draws

SGoto(f, step) == spc' = [spc EXCEPT ![f] = step]

\* created_at is the time of this BEGIN.
BeginSchedule(f) ==
    /\ spc[f] = "idle"
    /\ SGoto(f, "lock")
    /\ UNCHANGED <<conversationVars, row, rowLock, confirmed, queueVars, workerVars, historyVars>>

\* Mutated form: the conversation is read without FOR UPDATE.
LockForScheduleNot(f) ==
    /\ spc[f] = "lock"
    /\ SGoto(f, "check")
    /\ UNCHANGED <<conversationVars, row, rowLock, confirmed, queueVars, workerVars, historyVars>>

LockForSchedule(f) ==
    /\ spc[f] = "lock"
    /\ Lock(f)
    /\ SGoto(f, "check")
    /\ UNCHANGED <<rowVars, began, tpc, turnVars, row, rowLock, confirmed,
                   queueVars, workerVars, historyVars>>

Open == status = "active" /\ ~ordered /\ escalations = 0

Scheduled == {f \in Followups : row[f] = "scheduled"}

\* Refused; or answered with the row that is already scheduled.
CheckSchedule(f) ==
    /\ spc[f] = "check"
    /\ \/ /\ Open
          /\ Scheduled = {}
          /\ SGoto(f, "insert")
          /\ UNCHANGED <<LocksHeld, confirmed>>
       \/ /\ ~(Open /\ Scheduled = {})
          /\ SGoto(f, "done")
          /\ Release(f)
          /\ confirmed' = IF Open THEN confirmed \cup Scheduled ELSE confirmed
    /\ UNCHANGED <<rowVars, began, tpc, turnVars, row, rowLock, queueVars, workerVars, historyVars>>

CommitSchedule(f) ==
    /\ spc[f] = "insert"
    /\ row' = [row EXCEPT ![f] = "scheduled"]
    /\ SGoto(f, "enqueue")
    /\ Release(f)
    /\ UNCHANGED <<rowVars, began, tpc, turnVars, rowLock, confirmed, queueVars, workerVars, historyVars>>

Enqueue(f) ==
    /\ spc[f] = "enqueue"
    /\ job' = [job EXCEPT ![f] = "waiting"]
    /\ confirmed' = confirmed \cup {f}
    /\ SGoto(f, "done")
    /\ UNCHANGED <<conversationVars, row, rowLock, owner, starts, failures, stalls,
                   workerVars, historyVars>>

\* Redis refuses, or takes the job and its answer is lost.
EnqueueFails(f) ==
    /\ spc[f] = "enqueue"
    /\ \E state \in {"none", "waiting"} : job' = [job EXCEPT ![f] = state]
    /\ SGoto(f, "unschedule")
    /\ UNCHANGED <<conversationVars, row, rowLock, confirmed, owner, starts, failures,
                   stalls, workerVars, historyVars>>

\* UPDATE ... SET status = 'failed' WHERE id = f AND status = 'scheduled'.
\* Mutated form: WHERE id = f.
MarkFailedAnyway(f) ==
    /\ rowLock[f] = NoOne
    /\ row' = [row EXCEPT ![f] = "failed"]

MarkFailed(f) ==
    /\ rowLock[f] = NoOne
    /\ row' = [row EXCEPT ![f] = IF row[f] = "scheduled" THEN "failed" ELSE row[f]]

\* Best effort: the UPDATE may fail too.
Unschedule(f) ==
    /\ spc[f] = "unschedule"
    /\ SGoto(f, "done")
    /\ MarkFailed(f) \/ UNCHANGED row
    /\ UNCHANGED <<conversationVars, rowLock, confirmed, queueVars, workerVars, historyVars>>

\* An error or the death of the process; before the COMMIT it rolls back.
AbandonSchedule(f) ==
    /\ spc[f] \notin {"idle", "done"}
    /\ SGoto(f, "done")
    /\ Release(f)
    /\ UNCHANGED <<rowVars, began, tpc, turnVars, row, rowLock, confirmed,
                   queueVars, workerVars, historyVars>>

-----------------------------------------------------------------------------
\* The queue (BullMQ)

\* The state of a job changes, and what it counts with it; a job that has ended
\* counts nothing any more.
SetJob(f, state, failed, stalled) ==
    LET over == state \in {"completed", "failed"} IN
    /\ job' = [job EXCEPT ![f] = state]
    /\ owner' = [owner EXCEPT ![f] = NoOne]
    /\ starts' = [starts EXCEPT ![f] = IF over THEN 0 ELSE @]
    /\ failures' = [failures EXCEPT ![f] = IF over THEN 0 ELSE @ + failed]
    /\ stalls' = [stalls EXCEPT ![f] = IF over THEN 0 ELSE @ + stalled]

\* Execution e ends with its job; an execution the queue has given up on can no
\* longer move the job.
EndJob(e, state, failed) ==
    IF owner[task[e]] = e THEN SetJob(task[e], state, failed, 0) ELSE UNCHANGED queueVars

\* A job whose execution does not renew its lock goes to another execution, or
\* for good to the failed ones.
Stall(f) ==
    /\ job[f] = "active"
    /\ SetJob(f, IF stalls[f] < MaxStalls THEN "waiting" ELSE "failed", 0, 1)
    /\ UNCHANGED <<conversationVars, followupVars, workerVars, historyVars>>

-----------------------------------------------------------------------------
\* The worker

WGoto(e, step) == wpc' = [wpc EXCEPT ![e] = step]

Take(e, f) ==
    /\ wpc[e] = "idle"
    /\ job[f] = "waiting"
    /\ job' = [job EXCEPT ![f] = "active"]
    /\ owner' = [owner EXCEPT ![f] = e]
    /\ starts' = [starts EXCEPT ![f] = @ + 1]
    /\ task' = [task EXCEPT ![e] = f]
    /\ attempt' = [attempt EXCEPT ![e] = starts[f] + 1]
    /\ WGoto(e, "preflight")
    /\ UNCHANGED <<conversationVars, followupVars, failures, stalls, historyVars>>

ReleaseRow(e) == rowLock' = [f \in Followups |-> IF rowLock[f] = e THEN NoOne ELSE rowLock[f]]

\* Back to waiting for jobs; the transaction and its locks are gone.
Forget(e) ==
    /\ WGoto(e, "idle")
    /\ task' = [task EXCEPT ![e] = NoOne]
    /\ attempt' = [attempt EXCEPT ![e] = 0]
    /\ began' = [began EXCEPT ![e] = {}]
    /\ Release(e)
    /\ ReleaseRow(e)

Leave(e) == Forget(e) /\ EndJob(e, "completed", 0)

\* Mutated form: only the conversation's status is looked at.
DueByStatus(f) == status = "active"

\* Still to be sent: checkEligibility.
Due(f) == Open /\ f \notin updatedAt

\* It reads the conversation without a lock, in several statements: as what makes
\* a reminder not due never goes away, its verdict is the one of one of them.
Preflight(e) ==
    LET f == task[e] IN
    /\ wpc[e] = "preflight"
    /\ rowLock[f] = NoOne
    /\ \/ /\ row[f] = "scheduled" /\ Due(f)
          /\ WGoto(e, "generate")
          /\ UNCHANGED <<row, rowLock, task, attempt, began, LocksHeld, queueVars>>
       \/ /\ ~(row[f] = "scheduled" /\ Due(f))
          /\ row' = [row EXCEPT ![f] = IF row[f] = "scheduled" THEN "cancelled" ELSE row[f]]
          /\ Leave(e)
    /\ UNCHANGED <<rowVars, tpc, turnVars, spc, confirmed, historyVars>>

\* The model writes the reminder, without any lock; BEGIN of the final transaction.
Generate(e) ==
    /\ wpc[e] = "generate"
    /\ began' = [began EXCEPT ![e] = Now]
    /\ WGoto(e, "lockRow")
    /\ UNCHANGED <<rowVars, LocksHeld, tpc, turnVars, followupVars, queueVars, task, attempt, historyVars>>

\* Mutated form: the row's status is not looked at again.
LockFollowupUnseen(e) ==
    LET f == task[e] IN
    /\ wpc[e] = "lockRow"
    /\ rowLock[f] = NoOne
    /\ rowLock' = [rowLock EXCEPT ![f] = e]
    /\ WGoto(e, "lockConversation")
    /\ UNCHANGED <<conversationVars, row, spc, confirmed, queueVars, task, attempt, historyVars>>

LockFollowup(e) ==
    LET f == task[e] IN
    /\ wpc[e] = "lockRow"
    /\ rowLock[f] = NoOne
    /\ \/ /\ row[f] = "scheduled"
          /\ rowLock' = [rowLock EXCEPT ![f] = e]
          /\ WGoto(e, "lockConversation")
          /\ UNCHANGED <<LocksHeld, began, task, attempt, queueVars>>
       \/ /\ row[f] # "scheduled"
          /\ Leave(e)
    /\ UNCHANGED <<rowVars, tpc, turnVars, row, spc, confirmed, historyVars>>

\* Mutated form: as in the pre-flight, without FOR UPDATE.
LockConversationNot(e) ==
    /\ wpc[e] = "lockConversation"
    /\ WGoto(e, "check")
    /\ UNCHANGED <<conversationVars, followupVars, queueVars, task, attempt, historyVars>>

LockConversation(e) ==
    /\ wpc[e] = "lockConversation"
    /\ Lock(e)
    /\ WGoto(e, "check")
    /\ UNCHANGED <<rowVars, began, tpc, turnVars, followupVars, queueVars, task, attempt, historyVars>>

CheckDue(e) ==
    LET f == task[e] IN
    /\ wpc[e] = "check"
    /\ \/ /\ Due(f)
          /\ WGoto(e, "send")
          /\ UNCHANGED <<row, rowLock, LocksHeld, began, task, attempt, queueVars>>
       \/ /\ ~Due(f)
          /\ row' = [row EXCEPT ![f] = "cancelled"]
          /\ Leave(e)
    /\ UNCHANGED <<rowVars, tpc, turnVars, spc, confirmed, historyVars>>

Reminder(f) ==
    [by |-> f, role |-> "assistant", rank |-> 1 + Cardinality({m \in log : m.by = f})]

\* The COMMIT of message, row and conversation; its acknowledgement may be lost.
Send(e) ==
    LET f == task[e] IN
    /\ wpc[e] = "send"
    /\ log' = log \cup {Reminder(f)}
    /\ row' = [row EXCEPT ![f] = "executed"]
    /\ updatedAt' = began[e]
    /\ cutIn' = cutIn \cup {t \in Turns : Running(t) /\ tpc[t] # "messages"}
    /\ \/ Leave(e)
       \/ /\ WGoto(e, "error")
          /\ Release(e)
          /\ rowLock' = [rowLock EXCEPT ![f] = NoOne]
          /\ UNCHANGED <<task, attempt, began, queueVars>>
    /\ UNCHANGED <<status, escalations, ordered, tpc, turnVars, spc, confirmed,
                   heard, pending>>

\* A technical error: database, model, time-out, integrity.  What the
\* transaction did is rolled back.  Mutated form: without ROLLBACK.
BreakWithoutRollback(e) ==
    /\ wpc[e] \notin {"idle", "error", "report"}
    /\ WGoto(e, "error")
    /\ UNCHANGED <<conversationVars, followupVars, queueVars, task, attempt, historyVars>>

Break(e) ==
    /\ wpc[e] \notin {"idle", "error", "report"}
    /\ WGoto(e, "error")
    /\ Release(e)
    /\ ReleaseRow(e)
    /\ UNCHANGED <<rowVars, began, tpc, turnVars, row, spc, confirmed, queueVars, task, attempt, historyVars>>

\* Best effort, on what attemptsStarted says is the last attempt.
HandleError(e) ==
    LET f == task[e] IN
    /\ wpc[e] = "error"
    /\ WGoto(e, "report")
    /\ IF attempt[e] >= Attempts THEN MarkFailed(f) \/ UNCHANGED row ELSE UNCHANGED row
    /\ UNCHANGED <<conversationVars, rowLock, spc, confirmed, queueVars, task, attempt, historyVars>>

\* The processor rethrows: BullMQ counts the failure and tries again, or not.
Rethrow(e) ==
    LET f == task[e] IN
    /\ wpc[e] = "report"
    /\ Forget(e)
    /\ EndJob(e, IF failures[f] + 1 < Attempts THEN "waiting" ELSE "failed", 1)
    /\ UNCHANGED <<rowVars, tpc, turnVars, row, spc, confirmed, historyVars>>

\* The worker process dies; the queue finds out: Stall.
Die(e) ==
    /\ wpc[e] # "idle"
    /\ Forget(e)
    /\ UNCHANGED <<rowVars, tpc, turnVars, row, spc, confirmed, queueVars, historyVars>>

-----------------------------------------------------------------------------
\* Turns beside the reminders

\* History: the rows that are there when the turn arrives ...
TurnArrives(t) ==
    /\ Arrive(t)
    /\ pending' = [pending EXCEPT ![t] = {f \in Followups : row[f] # "none"}]
    /\ UNCHANGED <<followupVars, queueVars, workerVars, heard, cutIn>>

\* ... have heard of it once it is recorded.
TurnMoves(t) ==
    /\ TurnStep(t, Now)
    /\ heard' = IF tpc[t] = "commit" THEN heard \cup pending[t] ELSE heard
    /\ pending' = IF tpc[t] = "commit" THEN [pending EXCEPT ![t] = {}] ELSE pending
    /\ UNCHANGED <<followupVars, queueVars, workerVars, cutIn>>

TurnFails(t) ==
    /\ Abandon(t)
    /\ pending' = [pending EXCEPT ![t] = {}]
    /\ UNCHANGED <<followupVars, queueVars, workerVars, heard, cutIn>>

-----------------------------------------------------------------------------
Init ==
    /\ ConversationInit
    /\ began = [x \in Turns \cup Workers |-> {}]
    /\ row = [f \in Followups |-> "none"]
    /\ rowLock = [f \in Followups |-> NoOne]
    /\ spc = [f \in Followups |-> "idle"]
    /\ confirmed = {}
    /\ job = [f \in Followups |-> "none"]
    /\ owner = [f \in Followups |-> NoOne]
    /\ starts = [f \in Followups |-> 0]
    /\ failures = [f \in Followups |-> 0]
    /\ stalls = [f \in Followups |-> 0]
    /\ wpc = [e \in Workers |-> "idle"]
    /\ task = [e \in Workers |-> NoOne]
    /\ attempt = [e \in Workers |-> 0]
    /\ heard = {}
    /\ pending = [t \in Turns |-> {}]
    /\ cutIn = {}

ScheduleStep(f) ==
    \/ LockForSchedule(f)
    \/ CheckSchedule(f)
    \/ CommitSchedule(f)
    \/ Enqueue(f)
    \/ EnqueueFails(f)
    \/ Unschedule(f)

ExecutionStep(e) ==
    \/ \E f \in Followups : Take(e, f)
    \/ Preflight(e)
    \/ Generate(e)
    \/ LockFollowup(e)
    \/ LockConversation(e)
    \/ CheckDue(e)
    \/ Send(e)
    \/ HandleError(e)
    \/ Rethrow(e)

Next ==
    \/ \E t \in Turns : TurnArrives(t) \/ TurnMoves(t) \/ TurnFails(t)
    \/ \E f \in Followups : BeginSchedule(f) \/ ScheduleStep(f) \/ AbandonSchedule(f) \/ Stall(f)
    \/ \E e \in Workers : ExecutionStep(e) \/ Break(e) \/ Die(e)

Spec == Init /\ [][Next]_vars

\* A statement runs unless it waits for a lock, and PostgreSQL grants locks in
\* the order they were asked for; BullMQ looks for jobs whose execution is gone.
\* Errors, deaths, new messages and new calls owe nobody anything.
Orphaned(f) == job[f] = "active" /\ \A e \in Workers : task[e] # f

Fairness ==
    /\ \A t \in Turns : SF_vars(TurnMoves(t))
    /\ \A f \in Followups : SF_vars(ScheduleStep(f)) /\ WF_vars(Orphaned(f) /\ Stall(f))
    /\ \A e \in Workers : SF_vars(ExecutionStep(e))

FairSpec == Spec /\ Fairness

-----------------------------------------------------------------------------
\* Properties

\* The type of the state; what the queue counts of a job stays in its bounds.
TypeOK ==
    /\ ConversationTypeOK
    /\ writer \in Turns \cup Followups \cup Workers \cup {NoOne}
    /\ sharers \subseteq Turns
    /\ began \in [Turns \cup Workers -> Time]
    /\ row \in [Followups -> Rows]
    /\ rowLock \in [Followups -> Workers \cup {NoOne}]
    /\ spc \in [Followups -> {"idle", "lock", "check", "insert", "enqueue", "unschedule", "done"}]
    /\ confirmed \subseteq Followups
    /\ job \in [Followups -> JobStates]
    /\ owner \in [Followups -> Workers \cup {NoOne}]
    /\ starts \in [Followups -> 0..(Attempts + MaxStalls)]
    /\ failures \in [Followups -> 0..(Attempts - 1)]
    /\ stalls \in [Followups -> 0..MaxStalls]
    /\ wpc \in [Workers -> {"idle", "preflight", "generate", "lockRow", "lockConversation", "check",
                            "send", "error", "report"}]
    /\ task \in [Workers -> Followups \cup {NoOne}]
    /\ attempt \in [Workers -> 0..(Attempts + MaxStalls)]
    /\ heard \subseteq Followups /\ pending \in [Turns -> SUBSET Followups] /\ cutIn \subseteq Turns

\* At most one reminder is waiting to be sent (followup.ts:88-93).
OneScheduled == Cardinality(Scheduled) <= 1

\* However often its job is delivered, retried or taken over, a followup sends
\* one reminder if its row says executed, and none if it does not.
Reminders(f) == {m \in log : m.by = f}
SentOnceIfExecuted ==
    \A f \in Followups : Cardinality(Reminders(f)) = IF row[f] = "executed" THEN 1 ELSE 0

\* A reminder is committed only into a conversation that is active, without any
\* order or open escalation on record, and not after a turn that arrived when it
\* was already scheduled (followupExecution.ts:117-134).
SentOnlyWhenDue ==
    [][\A f \in Followups : Reminders(f)' # Reminders(f) => Open /\ f \notin heard]_vars

\* A row that is executed, cancelled or failed stays what it is: two executions,
\* an enqueue error and the last attempt's bookkeeping race for it.
OutcomeIsFinal ==
    [][\A f \in Followups : row[f] \notin {"none", "scheduled"} => row'[f] = row[f]]_vars

\* Turns repeat an escalation that is still open, they never add a second one.
OneOpenEscalation == escalations <= 1

\* An escalation outlives the turn that raised it: even if that turn was never
\* recorded, the next one that is leaves the conversation escalated
\* (conversation.ts:190-196).
EscalationRecorded ==
    [][\A t \in Turns :
          tpc[t] = "commit" /\ tpc'[t] = "recorded" /\ escalations > 0 => status' = "escalated"]_vars

\* The customer's words are missing from the record of a turn only if a reminder
\* was sent while the turn ran.
CustomerHeard(t) == \E m \in log : m.by = t /\ m.role = "customer"
LostOnlyToReminder ==
    \A t \in Turns : tpc[t] = "recorded" => CustomerHeard(t) \/ t \in cutIn

\* Who waits for whom, for the conversation and for followups rows.
Waits(x, y) ==
    \/ /\ x \in Turns /\ tpc[x] \in {"escalate", "lock"}
       /\ y = writer \/ y \in sharers
    \/ x \in Turns /\ tpc[x] = "tools" /\ y = writer
    \/ /\ x \in Followups /\ spc[x] = "lock"
       /\ y = writer \/ y \in sharers
    \/ /\ x \in Workers /\ wpc[x] = "lockConversation"
       /\ y = writer \/ y \in sharers
    \/ x \in Workers /\ wpc[x] \in {"preflight", "lockRow", "error"} /\ y = rowLock[task[x]]
    \/ x \in Followups /\ spc[x] = "unschedule" /\ y = rowLock[x]

\* Everybody who waits, waits for somebody who can go on: the conversation is
\* always locked last (followupExecution.ts:132-134).
LocksEndWithTheConversation ==
    \A x, y \in Turns \cup Followups \cup Workers :
        Waits(x, y) =>
            \A z \in Turns \cup Followups \cup Workers : Waits(y, z) => \A u \in Turns \cup Followups \cup Workers : ~Waits(z, u)

\* Retries are bounded: every job ends, whatever attempts fail or stall.
JobsEnd == \A f \in Followups : job[f] = "waiting" ~> job[f] \in {"completed", "failed"}

\* What the docs, comments and tests say and the code does not keep.

\* No false confirmation of a scheduled reminder (design.md:616): a followup that
\* somebody was told is scheduled has a job.
NoFalseConfirmation == \A f \in confirmed : spc[f] = "done" => job[f] # "none"

\* The customer's message survives to the record of its turn (graph.test.ts:2069,
\* conversation.ts:198-200).
CustomerAlwaysHeard == \A t \in Turns : tpc[t] = "recorded" => CustomerHeard(t)

\* Messages are recorded in order (conversation.test.ts:337): the next turn reads
\* an answer after what it answers.
HistoryInOrder ==
    \A m, n \in log :
        m.by = n.by /\ m.role = "customer" /\ n.role = "assistant" => m.rank < n.rank

\* The processor marks a row failed only on a job's last attempt, never before a
\* failure that BullMQ will retry (followupWorker.ts:12-20).
FailedOnlyWhenExhausted ==
    [][\A e \in Workers :
          /\ wpc[e] = "error" /\ wpc'[e] = "report"
          /\ owner[task[e]] = e
          /\ row' # row
          => failures[task[e]] + 1 >= Attempts]_vars
=============================================================================

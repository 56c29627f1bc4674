--------------------------- MODULE FollowupProofs ---------------------------
(***************************************************************************)
(* Reminders, turns and the conversation they share, for any number of     *)
(* turns, calls of scheduleFollowup and executions, any number of attempts *)
(* and of stalls.                                                          *)
(***************************************************************************)
EXTENDS Followup, FiniteSetTheorems, SequenceTheorems, TLAPS

\* Who holds the conversation FOR UPDATE, and who holds the row of a followup.
TurnWrites(t) == tpc[t] \in {"escalating", "count", "commit"}
CallWrites(f) == spc[f] \in {"check", "insert"}
ExecutionWrites(e) == wpc[e] \in {"check", "send"}
HasRow(e) == wpc[e] \in {"lockConversation", "check", "send"}

ConversationLock ==
    /\ \A t \in Turns : TurnWrites(t) <=> writer = t
    /\ \A f \in Followups : CallWrites(f) <=> writer = f
    /\ \A e \in Workers : ExecutionWrites(e) <=> writer = e
    /\ \A t \in Turns : tpc[t] = "ordering" <=> t \in sharers
    /\ writer # NoOne => sharers = {}

RowHolders ==
    /\ \A e \in Workers : wpc[e] # "idle" => task[e] \in Followups
    /\ \A e \in Workers, f \in Followups : rowLock[f] = e <=> task[e] = f /\ HasRow(e)

RowLocks ==
    /\ RowHolders
    /\ \A f \in Followups : rowLock[f] # NoOne => row[f] = "scheduled"

\* A row is written before its job is.
RowBeforeJob ==
    /\ \A f \in Followups : spc[f] \in {"idle", "lock", "check", "insert"} => row[f] = "none"
    /\ \A f \in Followups : spc[f] \in {"enqueue", "unschedule"} => row[f] # "none"
    /\ \A f \in Followups : spc[f] = "enqueue" => job[f] = "none"
    /\ \A f \in Followups : job[f] # "none" => row[f] # "none"
    /\ \A e \in Workers : wpc[e] # "idle" => row[task[e]] # "none"

OneRow ==
    /\ \A f, g \in Followups : row[f] = "scheduled" /\ row[g] = "scheduled" => f = g
    /\ \A f \in Followups : spc[f] = "insert" => Scheduled = {}

\* What a stall or a failure leaves behind of a job.
JobCounts ==
    /\ \A f \in Followups : owner[f] # NoOne => job[f] = "active"
    /\ \A f \in Followups : starts[f] <= failures[f] + stalls[f] + (IF job[f] = "active" THEN 1 ELSE 0)

OneReminderOf(f) == [by |-> f, role |-> "assistant", rank |-> 1]
RemindersOf ==
    /\ IsFiniteSet(log)
    /\ \A f \in Followups : Reminders(f) = IF row[f] = "executed" THEN {OneReminderOf(f)} ELSE {}

OneTurnRuns == \A t, u \in Turns : Running(t) /\ Running(u) => t = u

\* What a turn has heard of is older than what it writes.
HeardInTime ==
    /\ \A f \in heard : row[f] # "none"
    /\ \A t \in Turns : \A f \in pending[t] : row[f] # "none"
    /\ \A t \in Turns : tpc[t] \in {"lock", "count", "commit"} => heard \cup pending[t] \subseteq began[t]
    /\ \A f \in heard : row[f] = "scheduled" => f \in updatedAt

StillDue == \A e \in Workers : wpc[e] = "send" => Due(task[e])

Loaded(t) == Running(t) /\ tpc[t] \notin {"messages", "openEscalation"}
EscalationKnown ==
    /\ escalations <= 1
    /\ \A t \in Turns : Loaded(t) /\ escalations > 0 => raised[t] = TRUE

\* What a turn no reminder cut in on has loaded is what is recorded.
Exchange == <<"customer", "assistant">>
WordsKept ==
    /\ \A t \in Turns : seen[t] <= Cardinality(log)
    /\ \A t \in Turns : Running(t) /\ tpc[t] # "messages" /\ t \notin cutIn => seen[t] = Cardinality(log)
    /\ \A t \in Turns : tpc[t] \in {"persist", "lock", "count", "commit"} => said[t] = Exchange
    /\ \A t \in Turns : tpc[t] = "commit" /\ t \notin cutIn => tail[t] = Exchange
    /\ LostOnlyToReminder

IInv == TypeOK /\ ConversationLock /\ RowLocks /\ RowBeforeJob /\ OneRow /\ JobCounts /\ RemindersOf
        /\ OneTurnRuns /\ HeardInTime /\ StillDue /\ EscalationKnown /\ WordsKept

-----------------------------------------------------------------------------
\* Types, by who changes them

Steps == {"idle", "lock", "check", "insert", "enqueue", "unschedule", "done"}
ExecutionSteps == {"idle", "preflight", "generate", "lockRow", "lockConversation", "check",
                   "send", "error", "report"}

LockTypes ==
    /\ writer \in Turns \cup Followups \cup Workers \cup {NoOne}
    /\ sharers \subseteq Turns
    /\ began \in [Turns \cup Workers -> Time]

RowTypes ==
    /\ row \in [Followups -> Rows]
    /\ rowLock \in [Followups -> Workers \cup {NoOne}]
    /\ spc \in [Followups -> Steps]
    /\ confirmed \subseteq Followups

QueueTypes ==
    /\ job \in [Followups -> JobStates]
    /\ owner \in [Followups -> Workers \cup {NoOne}]
    /\ starts \in [Followups -> 0..(Attempts + MaxStalls)]
    /\ failures \in [Followups -> 0..(Attempts - 1)]
    /\ stalls \in [Followups -> 0..MaxStalls]

WorkerTypes ==
    /\ wpc \in [Workers -> ExecutionSteps]
    /\ task \in [Workers -> Followups \cup {NoOne}]
    /\ attempt \in [Workers -> 0..(Attempts + MaxStalls)]

HistoryTypes ==
    heard \subseteq Followups /\ pending \in [Turns -> SUBSET Followups] /\ cutIn \subseteq Turns

LEMMA TypesByPart ==
    TypeOK <=> ConversationTypeOK /\ LockTypes /\ RowTypes /\ QueueTypes /\ WorkerTypes /\ HistoryTypes
  BY DEF TypeOK, LockTypes, RowTypes, QueueTypes, WorkerTypes, HistoryTypes, Steps, ExecutionSteps

LEMMA Distinct ==
    /\ NoOne \notin Turns \cup Followups \cup Workers
    /\ Turns \cap Followups = {} /\ Turns \cap Workers = {} /\ Followups \cap Workers = {}
  BY ConversationAssumption, FollowupAssumption

LEMMA NowIsATime == Now \in Time
  BY DEF Now, Time

-----------------------------------------------------------------------------
\* The steps of turns leave reminders alone, and the other way round

TurnActs(t) == TurnArrives(t) \/ TurnMoves(t) \/ TurnFails(t)
CallActs(f) == BeginSchedule(f) \/ ScheduleStep(f) \/ AbandonSchedule(f)
ExecutionActs(e) == ExecutionStep(e) \/ Break(e) \/ Die(e)

LEMMA WhoActs ==
    ASSUME [Next]_vars
    PROVE  \/ \E t \in Turns : TurnActs(t)
           \/ \E f \in Followups : CallActs(f) \/ Stall(f)
           \/ \E e \in Workers : ExecutionActs(e)
           \/ UNCHANGED vars
  BY DEF Next, TurnActs, CallActs, ExecutionActs

LEMMA TurnFrame ==
    ASSUME NEW t \in Turns, TurnActs(t)
    PROVE  UNCHANGED <<followupVars, queueVars, workerVars, cutIn>>
  BY DEF TurnActs, TurnArrives, TurnMoves, TurnFails

LEMMA CallFrame ==
    ASSUME NEW f \in Followups, CallActs(f)
    PROVE  UNCHANGED <<rowVars, began, tpc, turnVars, rowLock, owner, starts, failures, stalls,
                       workerVars, historyVars>>
  BY DEF CallActs, ScheduleStep, BeginSchedule, LockForSchedule, CheckSchedule, CommitSchedule,
         Enqueue, EnqueueFails, Unschedule, AbandonSchedule, conversationVars, followupVars, queueVars

LEMMA ExecutionFrame ==
    ASSUME NEW e \in Workers, ExecutionActs(e)
    PROVE  UNCHANGED <<status, escalations, ordered, tpc, turnVars, spc, confirmed, heard, pending>>
  BY DEF ExecutionActs, ExecutionStep, Take, Preflight, Generate, LockFollowup, LockConversation,
         CheckDue, Send, HandleError, Rethrow, Break, Die, Leave, Forget,
         conversationVars, followupVars, rowVars, historyVars

-----------------------------------------------------------------------------
\* What a turn records

LEMMA TailOf ==
    ASSUME NEW k \in 0..2
    PROVE  LET tl == SubSeq(Exchange, k + 1, Len(Exchange)) IN
           tl \in Utterances /\ (k = 0 => tl = Exchange)
  <1>1. Len(Exchange) = 2 /\ Exchange \in Seq(Roles)
    BY DEF Exchange, Roles
  <1>2. CASE k = 0
    <2>1. SubSeq(Exchange, 1, 2) = Exchange
      BY <1>1, SubSeqFull
    <2> QED
      BY <1>1, <1>2, <2>1 DEF Utterances, Exchange
  <1>3. CASE k = 1
    <2>1. 2 \in 1..Len(Exchange) /\ 2 \in 2..Len(Exchange)
      BY <1>1
    <2>2. SubSeq(Exchange, 2, 2) = SubSeq(Exchange, 2, 1) \o <<Exchange[2]>>
      BY <1>1, <2>1, SubSeqRecursiveSecond
    <2>3. SubSeq(Exchange, 2, 1) = <<>>
      BY SubSeqEmpty
    <2>4. Exchange[2] = "assistant"
      BY DEF Exchange
    <2>5. <<>> \o <<"assistant">> = <<"assistant">>
      OBVIOUS
    <2>6. SubSeq(Exchange, 2, 2) = <<"assistant">>
      BY <2>2, <2>3, <2>4, <2>5
    <2> QED
      BY <1>1, <1>3, <2>6 DEF Utterances
  <1>4. CASE k = 2
    <2>1. SubSeq(Exchange, 3, 2) = <<>>
      BY <1>1, SubSeqEmpty
    <2> QED
      BY <1>1, <1>4, <2>1 DEF Utterances
  <1> QED
    BY <1>2, <1>3, <1>4

LEMMA InsertedTyped ==
    ASSUME NEW t \in Turns, NEW order, tail \in [Turns -> Utterances]
    PROVE  /\ Inserted(t, order) \subseteq Message
           /\ IsFiniteSet(Inserted(t, order))
           /\ \A m \in Inserted(t, order) : m.by = t
           /\ tail[t] = Exchange => \E m \in Inserted(t, order) : m.role = "customer"
  <1> DEFINE msg(i) == [by |-> t, role |-> tail[t][i], rank |-> IF order = "asSaid" THEN i ELSE 3 - i]
  <1>1. tail[t] \in Utterances
    OBVIOUS
  <1>2. DOMAIN tail[t] \subseteq 1..2 /\ \A i \in DOMAIN tail[t] : tail[t][i] \in Roles
    BY <1>1 DEF Utterances, Roles
  <1>3. Inserted(t, order) = {msg(i) : i \in DOMAIN tail[t]}
    BY DEF Inserted
  <1>4. \A i \in 1..2 : (IF order = "asSaid" THEN i ELSE 3 - i) \in Nat \ {0}
    OBVIOUS
  <1>5. \A i \in DOMAIN tail[t] : msg(i) \in Message
    BY <1>2, <1>4 DEF Message
  <1>6. \A i \in DOMAIN tail[t] : msg(i).by = t /\ msg(i).role = tail[t][i]
    OBVIOUS
  <1>7. IsFiniteSet(Inserted(t, order))
    <2>1. Inserted(t, order) \subseteq {msg(1), msg(2)}
      BY <1>2, <1>3
    <2> HIDE DEF msg
    <2>2. IsFiniteSet({msg(1)}) /\ {msg(1), msg(2)} = {msg(1)} \cup {msg(2)}
      BY FS_Singleton
    <2>3. IsFiniteSet({msg(1), msg(2)})
      BY <2>2, FS_AddElement
    <2> QED
      BY <2>1, <2>3, FS_Subset
  <1>8. ASSUME tail[t] = Exchange PROVE \E m \in Inserted(t, order) : m.role = "customer"
    <2>1. 1 \in DOMAIN tail[t] /\ tail[t][1] = "customer"
      BY <1>8 DEF Exchange
    <2> QED
      BY <1>3, <1>6, <2>1
  <1> QED
    BY <1>3, <1>5, <1>6, <1>7, <1>8

-----------------------------------------------------------------------------
\* Types of the conversation

LEMMA Unlocked ==
    ASSUME NEW x \in Turns \cup Followups \cup Workers, LockTypes, Release(x)
    PROVE  writer' \in Turns \cup Followups \cup Workers \cup {NoOne} /\ sharers' \subseteq Turns
  BY DEF LockTypes, Release

LEMMA EndTurnTyped ==
    ASSUME NEW t \in Turns, NEW step \in TurnSteps, ConversationTypeOK, LockTypes, EndTurn(t, step)
    PROVE  /\ LockTypes'
           /\ tpc' \in [Turns -> TurnSteps]
           /\ seen' \in [Turns -> Nat]
           /\ raised' \in [Turns -> BOOLEAN]
           /\ said' \in [Turns -> Utterances]
           /\ tail' \in [Turns -> Utterances]
  <1>1. <<>> \in Utterances
    BY DEF Utterances
  <1>2. {} \in Time
    BY DEF Time
  <1>3. began' \in [Turns \cup Workers -> Time]
    BY <1>2 DEF EndTurn, LockTypes
  <1>4. tpc' \in [Turns -> TurnSteps] /\ seen' \in [Turns -> Nat] /\ raised' \in [Turns -> BOOLEAN]
    BY DEF EndTurn, Goto, ConversationTypeOK
  <1>5. said' \in [Turns -> Utterances] /\ tail' \in [Turns -> Utterances]
    BY <1>1 DEF EndTurn, ConversationTypeOK
  <1>6. LockTypes'
    BY <1>3, Unlocked DEF EndTurn, LockTypes
  <1> QED
    BY <1>4, <1>5, <1>6

\* What a turn that has not been cut in on more than twice records.
LEMMA CountedTail ==
    ASSUME IInv, NEW t \in Turns, CountMessages(t)
    PROVE  /\ tail' \in [Turns -> Utterances]
           /\ t \notin cutIn => tail'[t] = Exchange
  <1>1. said[t] = Exchange /\ tail \in [Turns -> Utterances] /\ seen[t] \in Nat
    BY DEF IInv, WordsKept, CountMessages, TypeOK, ConversationTypeOK
  <1>2. Cardinality(log) \in Nat
    BY FS_CardinalityType DEF IInv, RemindersOf
  <1>3. Len(Exchange) = 2
    BY DEF Exchange
  <1>4. /\ seen[t] <= Cardinality(log) /\ Cardinality(log) <= seen[t] + 2
        /\ t \notin cutIn => seen[t] = Cardinality(log)
    BY <1>1, <1>3 DEF IInv, WordsKept, CountMessages, Running
  <1> DEFINE k == Cardinality(log) - seen[t]
  <1>5. k \in 0..2 /\ (t \notin cutIn => k = 0)
    BY <1>1, <1>2, <1>4
  <1>6. tail' = [tail EXCEPT ![t] = SubSeq(Exchange, k + 1, Len(Exchange))]
    BY <1>1 DEF CountMessages
  <1> HIDE DEF k
  <1> QED
    BY <1>1, <1>5, <1>6, TailOf

LEMMA TurnTypes ==
    ASSUME IInv, NEW t \in Turns, TurnActs(t)
    PROVE  ConversationTypeOK' /\ LockTypes' /\ HistoryTypes'
  <1>0. ConversationTypeOK /\ LockTypes /\ HistoryTypes /\ RowTypes
    BY TypesByPart DEF IInv
  <1>1. HistoryTypes'
    BY <1>0 DEF TurnActs, TurnArrives, TurnMoves, TurnFails, HistoryTypes
  <1>2. CASE Abandon(t)
    <2>1. EndTurn(t, "failed") /\ "failed" \in TurnSteps
      BY <1>2 DEF Abandon, TurnSteps
    <2> QED
      BY <1>0, <1>1, <1>2, <2>1, EndTurnTyped DEF Abandon, rowVars, ConversationTypeOK
  <1>3. CASE RejectHistory(t)
    <2>1. EndTurn(t, "failed") /\ "failed" \in TurnSteps
      BY <1>3 DEF RejectHistory, TurnSteps
    <2> QED
      BY <1>0, <1>1, <1>3, <2>1, EndTurnTyped DEF RejectHistory, rowVars, ConversationTypeOK
  <1>4. CASE CommitPersist(t)
    <2>1. EndTurn(t, "recorded") /\ "recorded" \in TurnSteps
      BY <1>4 DEF CommitPersist, TurnSteps
    <2>2. log' \subseteq Message
      BY <1>0, <1>4, InsertedTyped DEF CommitPersist, ConversationTypeOK
    <2>3. status' \in Statuses /\ updatedAt' \in Time
      BY <1>0, <1>4 DEF CommitPersist, ConversationTypeOK, LockTypes, Statuses
    <2> QED
      BY <1>0, <1>1, <1>4, <2>1, <2>2, <2>3, EndTurnTyped DEF CommitPersist, ConversationTypeOK
  <1>5. CASE CountMessages(t)
    BY <1>0, <1>1, <1>5, CountedTail
    DEF CountMessages, Goto, TurnSteps, ConversationTypeOK, LockTypes, rowVars, LocksHeld
  <1>6. CASE LoadMessages(t)
    <2>1. Cardinality(log) \in Nat
      BY FS_CardinalityType DEF IInv, RemindersOf
    <2> QED
      BY <1>0, <1>1, <1>6, <2>1
      DEF LoadMessages, Goto, TurnSteps, ConversationTypeOK, LockTypes, rowVars, LocksHeld
  <1>7. CASE LoadEscalation(t)
    <2>1. (escalations > 0) \in BOOLEAN
      OBVIOUS
    <2>2. raised' \in [Turns -> BOOLEAN]
      BY <1>0, <1>7, <2>1, Zenon DEF LoadEscalation, ConversationTypeOK
    <2> QED
      BY <1>0, <1>1, <1>7, <2>2
      DEF LoadEscalation, Goto, TurnSteps, ConversationTypeOK, LockTypes, rowVars, LocksHeld
  <1>8. CASE Arrive(t) \/ Judge(t) \/ BeginPersist(t, Now)
    BY <1>0, <1>1, <1>8, NowIsATime
    DEF Arrive, Judge, BeginPersist, Goto, TurnSteps, ConversationTypeOK, LockTypes, rowVars, turnVars, LocksHeld
  <1>9. CASE PlaceOrder(t) \/ CommitOrder(t) \/ LockForEscalation(t) \/ LockForPersist(t)
    BY <1>0, <1>1, <1>9, Unlocked
    DEF PlaceOrder, CommitOrder, LockForEscalation, LockForPersist, Share, Lock, Goto, TurnSteps,
        ConversationTypeOK, LockTypes, rowVars, turnVars
  <1>10. CASE Escalate(t)
    <2>1. raised' \in [Turns -> BOOLEAN] /\ tpc' \in [Turns -> TurnSteps] /\ escalations' \in Nat
      BY <1>0, <1>10 DEF Escalate, Goto, TurnSteps, ConversationTypeOK
    <2> QED
      BY <1>0, <1>1, <1>10, <2>1, Unlocked DEF Escalate, ConversationTypeOK, LockTypes
  <1>11. CASE Respond(t)
    <2>1. said' \in [Turns -> Utterances] /\ tpc' \in [Turns -> TurnSteps]
      BY <1>0, <1>11 DEF Respond, Goto, TurnSteps, Utterances, ConversationTypeOK
    <2> QED
      BY <1>0, <1>1, <1>11, <2>1 DEF Respond, ConversationTypeOK, LockTypes, rowVars, LocksHeld
  <1> QED
    BY <1>2, <1>3, <1>4, <1>5, <1>6, <1>7, <1>8, <1>9, <1>10, <1>11
    DEF TurnActs, TurnArrives, TurnMoves, TurnFails, TurnStep

-----------------------------------------------------------------------------
\* Types of the rows, the executions and the queue

QueueInv == QueueTypes /\ JobCounts

LEMMA CallTypes ==
    ASSUME IInv, NEW f \in Followups, CallActs(f)
    PROVE  ConversationTypeOK' /\ LockTypes' /\ RowTypes' /\ WorkerTypes' /\ HistoryTypes'
  <1>0. ConversationTypeOK /\ LockTypes /\ RowTypes /\ WorkerTypes /\ HistoryTypes
    BY TypesByPart DEF IInv
  <1>1. ConversationTypeOK' /\ WorkerTypes' /\ HistoryTypes'
    BY <1>0, CallFrame DEF ConversationTypeOK, WorkerTypes, HistoryTypes, rowVars, turnVars, workerVars, historyVars
  <1>2. LockTypes'
    <2>1. began' = began
      BY CallFrame
    <2>2. CASE UNCHANGED LocksHeld
      BY <1>0, <2>1, <2>2 DEF LockTypes, LocksHeld
    <2>3. CASE Lock(f) \/ Release(f)
      BY <1>0, <2>1, <2>3, Unlocked DEF LockTypes, Lock
    <2> QED
      BY <2>2, <2>3
      DEF CallActs, ScheduleStep, BeginSchedule, LockForSchedule, CheckSchedule, CommitSchedule,
          Enqueue, EnqueueFails, Unschedule, AbandonSchedule, conversationVars, LocksHeld
  <1>3. RowTypes'
    <2>1. spc' \in [Followups -> Steps]
      BY <1>0
      DEF CallActs, ScheduleStep, BeginSchedule, LockForSchedule, CheckSchedule, CommitSchedule,
          Enqueue, EnqueueFails, Unschedule, AbandonSchedule, SGoto, Steps, RowTypes
    <2>2. row' \in [Followups -> Rows]
      BY <1>0
      DEF CallActs, ScheduleStep, BeginSchedule, LockForSchedule, CheckSchedule, CommitSchedule,
          Enqueue, EnqueueFails, Unschedule, AbandonSchedule, MarkFailed, Rows, RowTypes
    <2>3. confirmed' \subseteq Followups
      BY <1>0
      DEF CallActs, ScheduleStep, BeginSchedule, LockForSchedule, CheckSchedule, CommitSchedule,
          Enqueue, EnqueueFails, Unschedule, AbandonSchedule, Scheduled, RowTypes
    <2> QED
      BY <1>0, <2>1, <2>2, <2>3, CallFrame DEF RowTypes
  <1> QED
    BY <1>1, <1>2, <1>3

LEMMA JobSet ==
    ASSUME QueueInv, NEW f \in Followups, NEW state \in JobStates \ {"active"},
           NEW failed \in {0, 1}, NEW stalled \in {0, 1}, SetJob(f, state, failed, stalled),
           job[f] = "active",
           state = "waiting" => /\ failed + stalled = 1
                                /\ failures[f] + failed < Attempts
                                /\ stalls[f] + stalled <= MaxStalls,
           state \in {"waiting", "completed", "failed"}
    PROVE  QueueInv'
  <1>1. /\ starts[f] \in Nat /\ failures[f] \in Nat /\ stalls[f] \in Nat
        /\ starts[f] <= failures[f] + stalls[f] + 1
        /\ Attempts \in Nat \ {0} /\ MaxStalls \in Nat
    BY FollowupAssumption DEF QueueInv, QueueTypes, JobCounts
  <1> DEFINE over == state \in {"completed", "failed"}
             st == IF over THEN 0 ELSE starts[f]
             fa == IF over THEN 0 ELSE failures[f] + failed
             sl == IF over THEN 0 ELSE stalls[f] + stalled
  <1>2. /\ job' = [job EXCEPT ![f] = state]
        /\ owner' = [owner EXCEPT ![f] = NoOne]
        /\ starts' = [starts EXCEPT ![f] = st]
        /\ failures' = [failures EXCEPT ![f] = fa]
        /\ stalls' = [stalls EXCEPT ![f] = sl]
    BY DEF SetJob
  <1>3. /\ st \in 0..(Attempts + MaxStalls) /\ fa \in 0..(Attempts - 1) /\ sl \in 0..MaxStalls
        /\ st <= fa + sl
    BY <1>1 DEF QueueInv, QueueTypes
  <1> HIDE DEF st, fa, sl
  <1>4. QueueTypes'
    BY <1>2, <1>3 DEF QueueInv, QueueTypes
  <1>5. \A g \in Followups : owner'[g] # NoOne => job'[g] = "active"
    BY <1>2 DEF QueueInv, QueueTypes, JobCounts
  <1>6. \A g \in Followups : starts'[g] <= failures'[g] + stalls'[g] + (IF job'[g] = "active" THEN 1 ELSE 0)
    <2> TAKE g \in Followups
    <2>1. CASE g = f
      <3>1. starts'[g] = st /\ failures'[g] = fa /\ stalls'[g] = sl /\ job'[g] # "active"
        BY <1>2, <2>1 DEF QueueInv, QueueTypes
      <3> QED
        BY <1>3, <3>1
    <2>2. CASE g # f
      <3>1. starts'[g] = starts[g] /\ failures'[g] = failures[g] /\ stalls'[g] = stalls[g] /\ job'[g] = job[g]
        BY <1>2, <2>2 DEF QueueInv, QueueTypes
      <3> QED
        BY <3>1 DEF QueueInv, JobCounts
    <2> QED
      BY <2>1, <2>2
  <1> QED
    BY <1>4, <1>5, <1>6 DEF QueueInv, JobCounts

LEMMA QueueKept == QueueInv /\ UNCHANGED queueVars => QueueInv'
  BY DEF QueueInv, QueueTypes, JobCounts, queueVars

LEMMA Working ==
    ASSUME IInv, NEW e \in Workers, wpc[e] # "idle"
    PROVE  /\ task[e] \in Followups
           /\ owner[task[e]] = e => job[task[e]] = "active"
  BY Distinct DEF IInv, RowLocks, RowHolders, JobCounts

LEMMA Left ==
    ASSUME IInv, NEW e \in Workers, wpc[e] # "idle", Leave(e)
    PROVE  QueueInv'
  <1>1. QueueInv
    BY TypesByPart DEF IInv, QueueInv
  <1>2. CASE owner[task[e]] = e
    <2>1. SetJob(task[e], "completed", 0, 0)
      BY <1>2 DEF Leave, EndJob
    <2> QED
      BY <1>1, <1>2, <2>1, Working, JobSet DEF JobStates
  <1>3. CASE owner[task[e]] # e
    BY <1>1, <1>3, QueueKept DEF Leave, EndJob
  <1> QED
    BY <1>2, <1>3

LEMMA Rethrown ==
    ASSUME IInv, NEW e \in Workers, Rethrow(e)
    PROVE  QueueInv'
  <1> DEFINE f == task[e]
             state == IF failures[f] + 1 < Attempts THEN "waiting" ELSE "failed"
  <1>1. QueueInv
    BY TypesByPart DEF IInv, QueueInv
  <1>2. wpc[e] # "idle" /\ EndJob(e, state, 1)
    BY DEF Rethrow
  <1>3. f \in Followups
    BY <1>2, Working
  <1>4. stalls[f] \in 0..MaxStalls /\ MaxStalls \in Nat
    BY <1>1, <1>3, FollowupAssumption DEF QueueInv, QueueTypes
  <1>5. CASE owner[f] = e
    <2>1. SetJob(f, state, 1, 0) /\ job[f] = "active"
      BY <1>2, <1>5, Working DEF EndJob
    <2>2. state \in JobStates \ {"active"} /\ state \in {"waiting", "completed", "failed"}
      BY DEF JobStates
    <2>3. state = "waiting" => failures[f] + 1 < Attempts /\ stalls[f] + 0 <= MaxStalls
      BY <1>4
    <2> QED
      BY <1>1, <1>3, <2>1, <2>2, <2>3, JobSet
  <1>6. CASE owner[f] # e
    BY <1>1, <1>2, <1>6, QueueKept DEF EndJob
  <1> QED
    BY <1>5, <1>6

LEMMA Stalled ==
    ASSUME IInv, NEW f \in Followups, Stall(f)
    PROVE  QueueInv'
  <1> DEFINE state == IF stalls[f] < MaxStalls THEN "waiting" ELSE "failed"
  <1>1. QueueInv
    BY TypesByPart DEF IInv, QueueInv
  <1>2. stalls[f] \in 0..MaxStalls /\ failures[f] \in 0..(Attempts - 1) /\ MaxStalls \in Nat /\ Attempts \in Nat \ {0}
    BY <1>1, FollowupAssumption DEF QueueInv, QueueTypes
  <1>3. SetJob(f, state, 0, 1) /\ job[f] = "active"
    BY DEF Stall
  <1>4. state \in JobStates \ {"active"} /\ state \in {"waiting", "completed", "failed"}
    BY DEF JobStates
  <1>5. state = "waiting" => failures[f] + 0 < Attempts /\ stalls[f] + 1 <= MaxStalls
    BY <1>2
  <1> QED
    BY <1>1, <1>3, <1>4, <1>5, JobSet

LEMMA Taken ==
    ASSUME IInv, NEW e \in Workers, NEW f \in Followups, Take(e, f)
    PROVE  QueueInv' /\ WorkerTypes'
  <1>1. QueueInv /\ WorkerTypes
    BY TypesByPart DEF IInv, QueueInv
  <1>2. /\ starts[f] \in Nat /\ failures[f] \in 0..(Attempts - 1) /\ stalls[f] \in 0..MaxStalls
        /\ starts[f] <= failures[f] + stalls[f]
        /\ Attempts \in Nat \ {0} /\ MaxStalls \in Nat
    BY <1>1, FollowupAssumption DEF QueueInv, QueueTypes, JobCounts, Take
  <1>3. starts[f] + 1 \in 0..(Attempts + MaxStalls)
    BY <1>2
  <1> DEFINE st == starts[f] + 1
  <1>4. starts' = [starts EXCEPT ![f] = st] /\ attempt' = [attempt EXCEPT ![e] = st]
    BY DEF Take
  <1> HIDE DEF st
  <1>5. QueueTypes'
    BY <1>1, <1>3, <1>4 DEF Take, QueueInv, QueueTypes, JobStates, st
  <1>6. WorkerTypes'
    BY <1>1, <1>3, <1>4 DEF Take, WGoto, WorkerTypes, ExecutionSteps, st
  <1>7. \A g \in Followups : owner'[g] # NoOne => job'[g] = "active"
    BY <1>1 DEF Take, QueueInv, QueueTypes, JobCounts
  <1>8. \A g \in Followups : starts'[g] <= failures'[g] + stalls'[g] + (IF job'[g] = "active" THEN 1 ELSE 0)
    <2> TAKE g \in Followups
    <2>1. CASE g = f
      <3>1. starts'[g] = starts[f] + 1 /\ failures'[g] = failures[f] /\ stalls'[g] = stalls[f] /\ job'[g] = "active"
        BY <1>1, <1>4, <2>1 DEF Take, QueueInv, QueueTypes, st
      <3> QED
        BY <1>2, <3>1
    <2>2. CASE g # f
      <3>1. starts'[g] = starts[g] /\ failures'[g] = failures[g] /\ stalls'[g] = stalls[g] /\ job'[g] = job[g]
        BY <1>1, <1>4, <2>2 DEF Take, QueueInv, QueueTypes
      <3> QED
        BY <1>1, <3>1 DEF QueueInv, JobCounts
    <2> QED
      BY <2>1, <2>2
  <1> QED
    BY <1>5, <1>6, <1>7, <1>8 DEF QueueInv, JobCounts

LEMMA Enqueued ==
    ASSUME IInv, NEW f \in Followups, Enqueue(f) \/ EnqueueFails(f)
    PROVE  QueueInv'
  <1>1. QueueInv
    BY TypesByPart DEF IInv, QueueInv
  <1>2. job[f] = "none"
    BY DEF Enqueue, EnqueueFails, IInv, RowBeforeJob
  <1>3. PICK state \in {"none", "waiting"} : job' = [job EXCEPT ![f] = state]
    BY DEF Enqueue, EnqueueFails
  <1>4. UNCHANGED <<owner, starts, failures, stalls>>
    BY DEF Enqueue, EnqueueFails
  <1>5. QueueTypes'
    BY <1>1, <1>3, <1>4 DEF QueueInv, QueueTypes, JobStates
  <1>6. \A g \in Followups : owner'[g] # NoOne => job'[g] = "active"
    BY <1>1, <1>2, <1>3, <1>4 DEF QueueInv, QueueTypes, JobCounts
  <1>7. \A g \in Followups : job'[g] = "active" <=> job[g] = "active"
    BY <1>1, <1>2, <1>3 DEF QueueInv, QueueTypes
  <1>8. \A g \in Followups : starts[g] <= failures[g] + stalls[g] + (IF job'[g] = "active" THEN 1 ELSE 0)
    BY <1>1, <1>7 DEF QueueInv, JobCounts
  <1> QED
    BY <1>4, <1>5, <1>6, <1>8 DEF QueueInv, JobCounts

LEMMA QueueNext == IInv /\ [Next]_vars => QueueInv'
  <1> SUFFICES ASSUME IInv, [Next]_vars PROVE QueueInv'
    OBVIOUS
  <1>0. QueueInv
    BY TypesByPart DEF IInv, QueueInv
  <1>1. ASSUME NEW t \in Turns, TurnActs(t) PROVE QueueInv'
    BY <1>0, <1>1, TurnFrame, QueueKept
  <1>2. ASSUME NEW f \in Followups, CallActs(f) PROVE QueueInv'
    <2>1. CASE Enqueue(f) \/ EnqueueFails(f)
      BY <2>1, Enqueued
    <2>2. CASE BeginSchedule(f) \/ LockForSchedule(f) \/ CheckSchedule(f) \/ CommitSchedule(f)
               \/ Unschedule(f) \/ AbandonSchedule(f)
      BY <1>0, <2>2, QueueKept
      DEF BeginSchedule, LockForSchedule, CheckSchedule, CommitSchedule, Unschedule, AbandonSchedule
    <2> QED
      BY <1>2, <2>1, <2>2 DEF CallActs, ScheduleStep
  <1>3. ASSUME NEW f \in Followups, Stall(f) PROVE QueueInv'
    BY <1>3, Stalled
  <1>4. ASSUME NEW e \in Workers, ExecutionActs(e) PROVE QueueInv'
    <2>1. CASE \E f \in Followups : Take(e, f)
      BY <2>1, Taken
    <2>2. CASE Preflight(e) \/ LockFollowup(e) \/ CheckDue(e) \/ Send(e)
      BY <1>0, <2>2, QueueKept, Left DEF Preflight, LockFollowup, CheckDue, Send, WGoto
    <2>3. CASE Rethrow(e)
      BY <2>3, Rethrown
    <2>4. CASE Generate(e) \/ LockConversation(e) \/ HandleError(e) \/ Break(e) \/ Die(e)
      BY <1>0, <2>4, QueueKept DEF Generate, LockConversation, HandleError, Break, Die
    <2> QED
      BY <1>4, <2>1, <2>2, <2>3, <2>4 DEF ExecutionActs, ExecutionStep
  <1>5. CASE UNCHANGED vars
    BY <1>0, <1>5, QueueKept DEF vars
  <1> QED
    BY <1>1, <1>2, <1>3, <1>4, <1>5, WhoActs

LEMMA Forgotten ==
    ASSUME LockTypes, RowTypes, WorkerTypes, NEW e \in Workers, Forget(e)
    PROVE  LockTypes' /\ WorkerTypes' /\ rowLock' \in [Followups -> Workers \cup {NoOne}]
  <1>1. {} \in Time
    BY DEF Time
  <1>2. LockTypes'
    BY <1>1, Unlocked DEF Forget, LockTypes
  <1>3. 0 \in 0..(Attempts + MaxStalls)
    BY FollowupAssumption
  <1>4. WorkerTypes'
    BY <1>3 DEF Forget, WGoto, WorkerTypes, ExecutionSteps
  <1>5. rowLock' \in [Followups -> Workers \cup {NoOne}]
    BY DEF Forget, ReleaseRow, RowTypes
  <1> QED
    BY <1>2, <1>4, <1>5

LEMMA ReminderTyped ==
    ASSUME IInv, NEW f \in Followups
    PROVE  Reminder(f) \in Message
  <1> DEFINE sent == {m \in log : m.by = f}
  <1>1. IsFiniteSet(sent)
    BY FS_Subset DEF IInv, RemindersOf
  <1>2. Cardinality(sent) \in Nat
    BY <1>1, FS_CardinalityType
  <1> HIDE DEF sent
  <1>3. 1 + Cardinality(sent) \in Nat \ {0}
    BY <1>2
  <1>4. Reminder(f) = [by |-> f, role |-> "assistant", rank |-> 1 + Cardinality(sent)]
    BY DEF Reminder, sent
  <1> QED
    BY <1>3, <1>4 DEF Message, Roles

LEMMA ExecutionTypes ==
    ASSUME IInv, NEW e \in Workers, ExecutionActs(e)
    PROVE  ConversationTypeOK' /\ LockTypes' /\ RowTypes' /\ WorkerTypes' /\ HistoryTypes'
  <1>0. ConversationTypeOK /\ LockTypes /\ RowTypes /\ WorkerTypes /\ HistoryTypes
    BY TypesByPart DEF IInv
  <1>1. ASSUME UNCHANGED rowVars, UNCHANGED <<tpc, turnVars>> PROVE ConversationTypeOK'
    BY <1>0, <1>1 DEF ConversationTypeOK, rowVars, turnVars
  <1>2. ASSUME UNCHANGED historyVars PROVE HistoryTypes'
    BY <1>0, <1>2 DEF HistoryTypes, historyVars
  <1>3. ASSUME UNCHANGED <<began, LocksHeld>> PROVE LockTypes'
    BY <1>0, <1>3 DEF LockTypes, LocksHeld
  <1>4. CASE \E f \in Followups : Take(e, f)
    <2>1. WorkerTypes'
      BY <1>4, Taken
    <2> QED
      BY <1>0, <1>1, <1>2, <1>3, <1>4, <2>1 DEF Take, conversationVars, followupVars, LocksHeld, RowTypes
  <1>5. CASE Preflight(e)
    <2>1. task[e] \in Followups
      BY <1>5, Working DEF Preflight
    <2>2. row' \in [Followups -> Rows]
      BY <1>0, <1>5, <2>1 DEF Preflight, RowTypes, Rows
    <2>3. LockTypes' /\ WorkerTypes' /\ rowLock' \in [Followups -> Workers \cup {NoOne}]
      <3>1. CASE Leave(e)
        BY <1>0, <3>1, Forgotten DEF Leave
      <3>2. CASE WGoto(e, "generate") /\ UNCHANGED <<rowLock, task, attempt, began, LocksHeld>>
        BY <1>0, <1>3, <3>2 DEF WGoto, WorkerTypes, RowTypes, ExecutionSteps
      <3> QED
        BY <1>5, <3>1, <3>2 DEF Preflight
    <2> QED
      BY <1>0, <1>1, <1>2, <1>5, <2>2, <2>3 DEF Preflight, RowTypes
  <1>6. CASE LockFollowup(e)
    <2>1. LockTypes' /\ WorkerTypes' /\ rowLock' \in [Followups -> Workers \cup {NoOne}]
      <3>1. CASE Leave(e)
        BY <1>0, <3>1, Forgotten DEF Leave
      <3>2. CASE /\ WGoto(e, "lockConversation") /\ rowLock' = [rowLock EXCEPT ![task[e]] = e]
                 /\ UNCHANGED <<task, attempt, began, LocksHeld>>
        BY <1>0, <1>3, <3>2 DEF WGoto, WorkerTypes, RowTypes, ExecutionSteps
      <3> QED
        BY <1>6, <3>1, <3>2 DEF LockFollowup
    <2> QED
      BY <1>0, <1>1, <1>2, <1>6, <2>1 DEF LockFollowup, RowTypes
  <1>7. CASE CheckDue(e)
    <2>1. row' \in [Followups -> Rows]
      BY <1>0, <1>7 DEF CheckDue, RowTypes, Rows
    <2>2. LockTypes' /\ WorkerTypes' /\ rowLock' \in [Followups -> Workers \cup {NoOne}]
      <3>1. CASE Leave(e)
        BY <1>0, <3>1, Forgotten DEF Leave
      <3>2. CASE WGoto(e, "send") /\ UNCHANGED <<rowLock, task, attempt, began, LocksHeld>>
        BY <1>0, <1>3, <3>2 DEF WGoto, WorkerTypes, RowTypes, ExecutionSteps
      <3> QED
        BY <1>7, <3>1, <3>2 DEF CheckDue
    <2> QED
      BY <1>0, <1>1, <1>2, <1>7, <2>1, <2>2 DEF CheckDue, RowTypes
  <1>8. CASE Send(e)
    <2>1. task[e] \in Followups
      BY <1>8, Working DEF Send
    <2>2. row' \in [Followups -> Rows]
      BY <1>0, <1>8 DEF Send, RowTypes, Rows
    <2>3. LockTypes' /\ WorkerTypes' /\ rowLock' \in [Followups -> Workers \cup {NoOne}]
      <3>1. CASE Leave(e)
        BY <1>0, <3>1, Forgotten DEF Leave
      <3>2. CASE /\ WGoto(e, "error") /\ Release(e) /\ rowLock' = [rowLock EXCEPT ![task[e]] = NoOne]
                 /\ UNCHANGED <<task, attempt, began>>
        <4>1. LockTypes'
          BY <1>0, <3>2, Unlocked DEF LockTypes
        <4> QED
          BY <1>0, <3>2, <4>1 DEF WGoto, WorkerTypes, RowTypes, ExecutionSteps
      <3> QED
        BY <1>8, <3>1, <3>2 DEF Send
    <2>4. log' \subseteq Message /\ updatedAt' \in Time
      BY <1>0, <1>8, <2>1, ReminderTyped DEF Send, ConversationTypeOK, LockTypes
    <2>5. ConversationTypeOK'
      BY <1>0, <1>8, <2>4 DEF Send, ConversationTypeOK, turnVars
    <2>6. HistoryTypes'
      BY <1>0, <1>8 DEF Send, HistoryTypes
    <2> QED
      BY <1>0, <1>8, <2>2, <2>3, <2>5, <2>6 DEF Send, RowTypes
  <1>9. CASE Generate(e)
    <2>1. LockTypes'
      BY <1>0, <1>9, NowIsATime DEF Generate, LockTypes, LocksHeld
    <2> QED
      BY <1>0, <1>1, <1>2, <1>9, <2>1
      DEF Generate, WGoto, WorkerTypes, ExecutionSteps, RowTypes, followupVars
  <1>10. CASE LockConversation(e)
    <2>1. LockTypes'
      BY <1>0, <1>10 DEF LockConversation, Lock, LockTypes
    <2> QED
      BY <1>0, <1>1, <1>2, <1>10, <2>1
      DEF LockConversation, WGoto, WorkerTypes, ExecutionSteps, RowTypes, followupVars
  <1>11. CASE Break(e)
    <2>1. LockTypes'
      BY <1>0, <1>11, Unlocked DEF Break, LockTypes
    <2> QED
      BY <1>0, <1>1, <1>2, <1>11, <2>1 DEF Break, ReleaseRow, WGoto, WorkerTypes, ExecutionSteps, RowTypes
  <1>12. CASE HandleError(e)
    <2>1. row' \in [Followups -> Rows]
      BY <1>0, <1>12 DEF HandleError, MarkFailed, RowTypes, Rows
    <2>2. ConversationTypeOK' /\ LockTypes' /\ HistoryTypes'
      BY <1>1, <1>2, <1>3, <1>12 DEF HandleError, conversationVars, LocksHeld
    <2> QED
      BY <1>0, <1>12, <2>1, <2>2 DEF HandleError, WGoto, WorkerTypes, ExecutionSteps, RowTypes
  <1>13. CASE Rethrow(e) \/ Die(e)
    <2>1. Forget(e)
      BY <1>13 DEF Rethrow, Die
    <2>2. LockTypes' /\ WorkerTypes' /\ rowLock' \in [Followups -> Workers \cup {NoOne}]
      BY <1>0, <2>1, Forgotten
    <2> QED
      BY <1>0, <1>1, <1>2, <1>13, <2>2 DEF Rethrow, Die, RowTypes
  <1> QED
    BY <1>4, <1>5, <1>6, <1>7, <1>8, <1>9, <1>10, <1>11, <1>12, <1>13 DEF ExecutionActs, ExecutionStep

LEMMA TypesNext == IInv /\ [Next]_vars => TypeOK'
  <1> SUFFICES ASSUME IInv, [Next]_vars PROVE TypeOK'
    OBVIOUS
  <1>0. ConversationTypeOK /\ LockTypes /\ RowTypes /\ WorkerTypes /\ HistoryTypes
    BY TypesByPart DEF IInv
  <1>1. QueueTypes'
    BY QueueNext DEF QueueInv
  <1> DEFINE rest == ConversationTypeOK /\ LockTypes /\ RowTypes /\ WorkerTypes /\ HistoryTypes
  <1>2. ASSUME NEW t \in Turns, TurnActs(t) PROVE rest'
    BY <1>0, <1>2, TurnTypes, TurnFrame DEF RowTypes, WorkerTypes, followupVars, workerVars
  <1>3. ASSUME NEW f \in Followups, CallActs(f) PROVE rest'
    BY <1>3, CallTypes
  <1>4. ASSUME NEW e \in Workers, ExecutionActs(e) PROVE rest'
    BY <1>4, ExecutionTypes
  <1>5. ASSUME \/ UNCHANGED vars 
               \/ \E f \in Followups : Stall(f)
        PROVE  rest'
    BY <1>0, <1>5
    DEF Stall, vars, conversationVars, rowVars, turnVars, followupVars, workerVars, historyVars,
        ConversationTypeOK, LockTypes, RowTypes, WorkerTypes, HistoryTypes
  <1>6. rest'
    BY <1>2, <1>3, <1>4, <1>5, WhoActs
  <1> QED
    BY <1>1, <1>6, TypesByPart DEF TypeOK, ConversationTypeOK, LockTypes, RowTypes, QueueTypes, WorkerTypes,
       HistoryTypes, Steps, ExecutionSteps

-----------------------------------------------------------------------------
\* The conversation's lock is held by who is at a step that holds it

LEMMA Typed ==
    IInv => tpc \in [Turns -> TurnSteps] /\ spc \in [Followups -> Steps] /\ wpc \in [Workers -> ExecutionSteps]
  BY DEF IInv, TypeOK, ConversationTypeOK, Steps, ExecutionSteps

LEMMA TurnLocks ==
    ASSUME IInv, NEW t \in Turns, TurnActs(t)
    PROVE  ConversationLock'
  <1>0. ConversationLock /\ UNCHANGED <<spc, wpc>>
    BY TurnFrame DEF IInv, followupVars, workerVars
  <1>1. CASE Arrive(t) \/ LoadMessages(t) \/ LoadEscalation(t) \/ Judge(t) \/ Respond(t) \/ BeginPersist(t, Now) \/ CountMessages(t)
    BY <1>0, Typed, <1>1
    DEF Arrive, LoadMessages, LoadEscalation, Judge, Respond, BeginPersist, CountMessages, LocksHeld,
        Goto, ConversationLock, TurnWrites, CallWrites, ExecutionWrites
  <1>2. CASE LockForEscalation(t) \/ LockForPersist(t)
    BY <1>0, Typed, <1>2, Distinct
    DEF LockForEscalation, LockForPersist, Lock, RowFree, Goto, ConversationLock, TurnWrites, CallWrites, ExecutionWrites
  <1>3. CASE PlaceOrder(t)
    BY <1>0, Typed, <1>3 DEF PlaceOrder, Share, Goto, ConversationLock, TurnWrites, CallWrites, ExecutionWrites
  <1>4. ASSUME Release(t), NEW step \in {"tools", "respond", "failed", "recorded"}, Goto(t, step) PROVE ConversationLock'
    BY <1>0, Typed, <1>4, Distinct DEF Release, Goto, ConversationLock, TurnWrites, CallWrites, ExecutionWrites
  <1>5. CASE CommitOrder(t) \/ Escalate(t) \/ RejectHistory(t) \/ CommitPersist(t) \/ Abandon(t)
    BY <1>4, <1>5 DEF CommitOrder, Escalate, RejectHistory, CommitPersist, Abandon, EndTurn
  <1> QED
    BY <1>1, <1>2, <1>3, <1>5 DEF TurnActs, TurnArrives, TurnMoves, TurnFails, TurnStep

LEMMA CallLocks ==
    ASSUME IInv, NEW f \in Followups, CallActs(f)
    PROVE  ConversationLock'
  <1>0. ConversationLock /\ UNCHANGED <<tpc, wpc>>
    BY CallFrame DEF IInv, workerVars
  <1>1. CASE BeginSchedule(f) \/ Enqueue(f) \/ EnqueueFails(f) \/ Unschedule(f)
    BY <1>0, Typed, <1>1
    DEF BeginSchedule, Enqueue, EnqueueFails, Unschedule, conversationVars,
        SGoto, ConversationLock, TurnWrites, CallWrites, ExecutionWrites
  <1>2. CASE LockForSchedule(f)
    BY <1>0, Typed, <1>2, Distinct
    DEF LockForSchedule, Lock, RowFree, SGoto, ConversationLock, TurnWrites, CallWrites, ExecutionWrites
  <1>3. ASSUME Release(f), NEW step \in {"done", "enqueue"}, SGoto(f, step) PROVE ConversationLock'
    BY <1>0, Typed, <1>3, Distinct DEF Release, SGoto, ConversationLock, TurnWrites, CallWrites, ExecutionWrites
  <1>4. CASE CheckSchedule(f) /\ SGoto(f, "insert") /\ UNCHANGED LocksHeld
    BY <1>0, Typed, <1>4
    DEF CheckSchedule, LocksHeld, SGoto, ConversationLock, TurnWrites, CallWrites, ExecutionWrites
  <1>5. CASE CheckSchedule(f)
    BY <1>3, <1>4, <1>5 DEF CheckSchedule
  <1>6. CASE CommitSchedule(f) \/ AbandonSchedule(f)
    BY <1>3, <1>6 DEF CommitSchedule, AbandonSchedule
  <1> QED
    BY <1>1, <1>2, <1>5, <1>6 DEF CallActs, ScheduleStep

LEMMA ExecutionLocks ==
    ASSUME IInv, NEW e \in Workers, ExecutionActs(e)
    PROVE  ConversationLock'
  <1>0. ConversationLock /\ UNCHANGED <<tpc, spc>>
    BY ExecutionFrame DEF IInv
  <1>1. ASSUME UNCHANGED LocksHeld, NEW step, WGoto(e, step), step \in {"check", "send"} <=> ExecutionWrites(e)
        PROVE  ConversationLock'
    BY <1>0, Typed, <1>1 DEF LocksHeld, WGoto, ConversationLock, TurnWrites, CallWrites, ExecutionWrites
  <1>2. ASSUME Release(e), NEW step, WGoto(e, step), step \notin {"check", "send"}
        PROVE  ConversationLock'
    BY <1>0, Typed, <1>2, Distinct DEF Release, WGoto, ConversationLock, TurnWrites, CallWrites, ExecutionWrites
  <1>3. CASE \E f \in Followups : Take(e, f)
    BY <1>1, <1>3 DEF Take, conversationVars, LocksHeld, ExecutionWrites
  <1>4. CASE Generate(e) \/ HandleError(e)
    BY <1>1, <1>4 DEF Generate, HandleError, conversationVars, LocksHeld, ExecutionWrites
  <1>5. CASE Preflight(e) \/ LockFollowup(e) \/ CheckDue(e)
    BY <1>1, <1>2, <1>5 DEF Preflight, LockFollowup, CheckDue, Leave, Forget, LocksHeld, ExecutionWrites
  <1>6. CASE Send(e) \/ Rethrow(e) \/ Break(e) \/ Die(e)
    BY <1>2, <1>6 DEF Send, Rethrow, Break, Die, Leave, Forget
  <1>7. CASE LockConversation(e)
    BY <1>0, Typed, <1>7, Distinct
    DEF LockConversation, Lock, RowFree, WGoto, ConversationLock, TurnWrites, CallWrites, ExecutionWrites
  <1> QED
    BY <1>3, <1>4, <1>5, <1>6, <1>7 DEF ExecutionActs, ExecutionStep

LEMMA LocksNext == IInv /\ [Next]_vars => ConversationLock'
  <1> SUFFICES ASSUME IInv, [Next]_vars PROVE ConversationLock'
    OBVIOUS
  <1>1. ASSUME \/ UNCHANGED vars
               \/ \E f \in Followups : Stall(f)
        PROVE  ConversationLock'
    BY <1>1
    DEF Stall, vars, conversationVars, followupVars, workerVars, IInv, ConversationLock, TurnWrites, CallWrites,
        ExecutionWrites
  <1> QED
    BY <1>1, TurnLocks, CallLocks, ExecutionLocks, WhoActs

-----------------------------------------------------------------------------
\* Rows: who may lock one, and who may change it

LEMMA RowTyped ==
    IInv => /\ row \in [Followups -> Rows]
            /\ rowLock \in [Followups -> Workers \cup {NoOne}]
            /\ task \in [Workers -> Followups \cup {NoOne}]
            /\ job \in [Followups -> JobStates]
  BY DEF IInv, TypeOK

\* A row is written by the call that inserts it, and from then on only while it
\* is scheduled, by whoever finds it unlocked or has locked it.
RowKept(f) == row'[f] = row[f]
RowInserted(f) == row[f] = "none" /\ row'[f] = "scheduled" /\ CommitSchedule(f)
RowEnded(f) ==
    /\ row[f] = "scheduled"
    /\ row'[f] \in {"executed", "cancelled", "failed"}
    /\ rowLock[f] = NoOne \/ rowLock'[f] = NoOne
    /\ \A g \in Followups : g # f => row'[g] = row[g]

LEMMA CallRows ==
    ASSUME IInv, NEW f \in Followups, CallActs(f), NEW g \in Followups
    PROVE  RowKept(g) \/ RowInserted(g) \/ RowEnded(g)
  <1>1. CASE CommitSchedule(f)
    BY <1>1, RowTyped DEF CommitSchedule, IInv, RowBeforeJob, RowKept, RowInserted
  <1>2. CASE Unschedule(f)
    BY <1>2, RowTyped DEF Unschedule, MarkFailed, RowKept, RowEnded
  <1>3. CASE ~CommitSchedule(f) /\ ~Unschedule(f)
    BY <1>3 DEF CallActs, ScheduleStep, BeginSchedule, LockForSchedule, CheckSchedule,
                Enqueue, EnqueueFails, AbandonSchedule, followupVars, RowKept
  <1> QED
    BY <1>1, <1>2, <1>3

LEMMA ExecutionRows ==
    ASSUME IInv, NEW e \in Workers, ExecutionActs(e), NEW g \in Followups
    PROVE  RowKept(g) \/ RowEnded(g)
  <1>1. CASE Preflight(e)
    <2>1. task[e] \in Followups /\ rowLock[task[e]] = NoOne
      BY <1>1, Working DEF Preflight
    <2> QED
      BY <1>1, <2>1, RowTyped DEF Preflight, RowKept, RowEnded
  <1>2. CASE CheckDue(e) \/ Send(e)
    <2>1. task[e] \in Followups /\ rowLock[task[e]] = e /\ e # NoOne
      BY <1>2, Working, Distinct DEF CheckDue, Send, IInv, RowLocks, RowHolders, HasRow
    <2>2. row[task[e]] = "scheduled"
      BY <2>1 DEF IInv, RowLocks
    <2>3. UNCHANGED row \/ rowLock'[task[e]] = NoOne
      BY <1>2, <2>1, RowTyped DEF CheckDue, Send, Leave, Forget, ReleaseRow
    <2> QED
      BY <1>2, <2>1, <2>2, <2>3, RowTyped DEF CheckDue, Send, RowKept, RowEnded
  <1>3. CASE HandleError(e)
    <2>1. task[e] \in Followups
      BY <1>3, Working DEF HandleError
    <2> QED
      BY <1>3, <2>1, RowTyped DEF HandleError, MarkFailed, RowKept, RowEnded
  <1>4. CASE ~Preflight(e) /\ ~CheckDue(e) /\ ~Send(e) /\ ~HandleError(e)
    BY <1>4 DEF ExecutionActs, ExecutionStep, Take, Generate, LockFollowup, LockConversation,
                Rethrow, Break, Die, followupVars, RowKept
  <1> QED
    BY <1>1, <1>2, <1>3, <1>4

LEMMA RowMoves ==
    ASSUME IInv, [Next]_vars, NEW f \in Followups
    PROVE  RowKept(f) \/ RowInserted(f) \/ RowEnded(f)
  <1>1. ASSUME \/ UNCHANGED vars
               \/ \E g \in Followups : Stall(g)
               \/ \E t \in Turns : TurnActs(t)
        PROVE  RowKept(f)
    BY <1>1, TurnFrame DEF Stall, vars, followupVars, RowKept
  <1> QED
    BY <1>1, CallRows, ExecutionRows, WhoActs

LEMMA RowLocksNext == IInv /\ [Next]_vars => RowLocks'
  <1> SUFFICES ASSUME IInv, [Next]_vars PROVE RowLocks'
    OBVIOUS
  <1>0. RowLocks
    BY DEF IInv
  <1>1. ASSUME UNCHANGED <<wpc, task, rowLock>> PROVE RowLocks'
    <2>1. \A f \in Followups : rowLock[f] # NoOne => row'[f] = "scheduled"
      BY <1>0, <1>1, RowMoves DEF RowLocks, RowKept, RowInserted, RowEnded
    <2> QED
      BY <1>0, <1>1, <2>1 DEF RowLocks, RowHolders, HasRow
  <1>2. ASSUME NEW e \in Workers, ExecutionActs(e) PROVE RowLocks'
    <2>1. RowHolders'
      <3>0. NoOne \notin Workers /\ NoOne \notin Followups
        BY Distinct
      <3>1. CASE \E f \in Followups : Take(e, f)
        BY <1>0, <3>1, Typed, RowTyped DEF Take, WGoto, followupVars, RowLocks, RowHolders, HasRow
      <3>2. ASSUME Forget(e) PROVE RowHolders'
        BY <1>0, <3>0, <3>2, Typed, RowTyped DEF Forget, ReleaseRow, WGoto, RowLocks, RowHolders, HasRow
      <3>3. CASE Generate(e) \/ LockConversation(e) \/ HandleError(e)
        BY <1>0, <3>3, Typed
        DEF Generate, LockConversation, HandleError, WGoto, followupVars, RowLocks, RowHolders, HasRow
      <3>4. CASE LockFollowup(e)
        BY <1>0, <3>0, <3>2, <3>4, Typed, RowTyped DEF LockFollowup, Leave, WGoto, RowLocks, RowHolders, HasRow
      <3>5. CASE Preflight(e)
        BY <1>0, <3>2, <3>5, Typed DEF Preflight, Leave, WGoto, RowLocks, RowHolders, HasRow
      <3>6. CASE CheckDue(e)
        BY <1>0, <3>2, <3>6, Typed DEF CheckDue, Leave, WGoto, RowLocks, RowHolders, HasRow
      <3>7. CASE Send(e)
        BY <1>0, <3>0, <3>2, <3>7, Typed, RowTyped DEF Send, Leave, WGoto, RowLocks, RowHolders, HasRow
      <3>8. CASE Break(e)
        BY <1>0, <3>0, <3>8, Typed, RowTyped DEF Break, ReleaseRow, WGoto, RowLocks, RowHolders, HasRow
      <3>9. CASE Rethrow(e) \/ Die(e)
        BY <3>2, <3>9 DEF Rethrow, Die
      <3> QED
        BY <1>2, <3>1, <3>3, <3>4, <3>5, <3>6, <3>7, <3>8, <3>9 DEF ExecutionActs, ExecutionStep
    <2>2. ASSUME NEW f \in Followups, rowLock'[f] # NoOne PROVE row'[f] = "scheduled"
      <3>1. CASE RowEnded(f)
        <4>1. rowLock[f] = NoOne
          BY <2>2, <3>1 DEF RowEnded
        <4>2. PICK d \in Workers : rowLock'[f] = d
          BY <2>2, RowTyped, TypesNext DEF TypeOK
        <4>3. HasRow(d)' /\ task'[d] = f
          BY <2>1, <4>2 DEF RowHolders
        <4> QED
          BY <1>0, <1>2, <2>2, <3>1, <4>1, <4>2, <4>3, Typed, RowTyped
          DEF ExecutionActs, ExecutionStep, Take, Preflight, Generate, LockFollowup, LockConversation,
              CheckDue, Send, HandleError, Rethrow, Break, Die, Leave, Forget, ReleaseRow, followupVars, RowEnded
      <3>2. CASE RowKept(f)
        <4>1. CASE rowLock[f] # NoOne
          BY <1>0, <3>2, <4>1 DEF RowLocks, RowKept
        <4>2. CASE rowLock[f] = NoOne
          <5>1. rowLock' # rowLock /\ rowLock'[f] # rowLock[f]
            BY <2>2, <4>2
          <5>2. LockFollowup(e) /\ f = task[e] /\ row[f] = "scheduled"
            BY <1>2, <2>2, <4>2, <5>1, RowTyped
            DEF ExecutionActs, ExecutionStep, Take, Preflight, Generate, LockFollowup, LockConversation,
                CheckDue, Send, HandleError, Rethrow, Break, Die, Leave, Forget, ReleaseRow, followupVars
          <5> QED
            BY <3>2, <5>2 DEF RowKept
        <4> QED
          BY <4>1, <4>2
      <3> QED
        BY <1>2, <3>1, <3>2, ExecutionRows
    <2> QED
      BY <2>1, <2>2 DEF RowLocks
  <1>3. ASSUME \/ UNCHANGED vars
               \/ \E g \in Followups : Stall(g)
               \/ \E t \in Turns : TurnActs(t)
               \/ \E g \in Followups : CallActs(g)
        PROVE  UNCHANGED <<wpc, task, rowLock>>
    BY <1>3, TurnFrame, CallFrame DEF Stall, vars, followupVars, workerVars
  <1> QED
    BY <1>1, <1>2, <1>3, WhoActs

LEMMA NeverErased ==
    ASSUME IInv, [Next]_vars, NEW f \in Followups, row[f] # "none"
    PROVE  row'[f] # "none"
  BY RowMoves DEF RowKept, RowInserted, RowEnded

\* A job appears once its row is committed.
LEMMA JobMoves ==
    ASSUME IInv, [Next]_vars, NEW f \in Followups, job[f] = "none"
    PROVE  job'[f] = "none" \/ (spc[f] = "enqueue" /\ spc'[f] # "enqueue")
  <1>1. ASSUME NEW g \in Followups, CallActs(g)
        PROVE  job'[f] = "none" \/ (spc[f] = "enqueue" /\ spc'[f] # "enqueue")
    BY <1>1, RowTyped, Typed
    DEF CallActs, ScheduleStep, BeginSchedule, LockForSchedule, CheckSchedule, CommitSchedule,
        Enqueue, EnqueueFails, Unschedule, AbandonSchedule, SGoto, queueVars
  <1>2. ASSUME NEW g \in Followups, Stall(g) PROVE job'[f] = "none"
    BY <1>2, RowTyped DEF Stall, SetJob
  <1>3. ASSUME NEW e \in Workers, ExecutionActs(e) PROVE job'[f] = "none"
    <2>1. CASE \E g \in Followups : Take(e, g)
      BY <2>1, RowTyped DEF Take
    <2>2. ASSUME NEW state, NEW failed, wpc[e] # "idle", EndJob(e, state, failed) PROVE job'[f] = "none"
      BY <2>2, RowTyped, Working DEF EndJob, SetJob, queueVars
    <2>3. CASE Preflight(e) \/ LockFollowup(e) \/ CheckDue(e) \/ Send(e)
      BY <2>2, <2>3 DEF Preflight, LockFollowup, CheckDue, Send, Leave, queueVars
    <2>4. CASE Rethrow(e)
      BY <2>2, <2>4 DEF Rethrow
    <2>5. CASE Generate(e) \/ LockConversation(e) \/ HandleError(e) \/ Break(e) \/ Die(e)
      BY <2>5 DEF Generate, LockConversation, HandleError, Break, Die, queueVars
    <2> QED
      BY <1>3, <2>1, <2>3, <2>4, <2>5 DEF ExecutionActs, ExecutionStep
  <1>4. ASSUME UNCHANGED queueVars PROVE job'[f] = "none"
    BY <1>4 DEF queueVars
  <1> QED
    BY <1>1, <1>2, <1>3, <1>4, WhoActs, TurnFrame DEF vars

CallMoves(f) ==
    \/ spc'[f] = spc[f]
    \/ spc[f] \notin {"enqueue", "unschedule", "done"} /\ spc'[f] \in {"lock", "check", "insert"}
    \/ CommitSchedule(f)
    \/ spc[f] = "enqueue" /\ spc'[f] = "unschedule"
    \/ spc'[f] = "done"

LEMMA RowBeforeJobNext == IInv /\ [Next]_vars => RowBeforeJob'
  <1> SUFFICES ASSUME IInv, [Next]_vars PROVE RowBeforeJob'
    OBVIOUS
  <1>0. RowBeforeJob
    BY DEF IInv
  <1>1. ASSUME NEW f \in Followups
        PROVE  CallMoves(f)
    <2>1. ASSUME NEW g \in Followups, CallActs(g) PROVE CallMoves(f)
      BY <2>1, Typed
      DEF CallMoves, CallActs, ScheduleStep, BeginSchedule, LockForSchedule, CheckSchedule, CommitSchedule,
          Enqueue, EnqueueFails, Unschedule, AbandonSchedule, SGoto
    <2>2. ASSUME \/ UNCHANGED vars
                 \/ \E g \in Followups : Stall(g)
                 \/ \E t \in Turns : TurnActs(t)
                 \/ \E e \in Workers : ExecutionActs(e)
          PROVE  UNCHANGED spc
      BY <2>2, TurnFrame, ExecutionFrame DEF Stall, vars, followupVars
    <2> QED
      BY <2>1, <2>2, WhoActs DEF CallMoves
  <1>2. \A f \in Followups : spc'[f] \in {"idle", "lock", "check", "insert"} => row'[f] = "none"
    <2> SUFFICES ASSUME NEW f \in Followups, spc'[f] \in {"idle", "lock", "check", "insert"}
                 PROVE  row'[f] = "none"
      OBVIOUS
    <2>1. ~CommitSchedule(f)
      BY Typed DEF CommitSchedule, SGoto
    <2>2. row[f] = "none"
      BY <1>0, <1>1, <2>1, Typed DEF RowBeforeJob, CallMoves, Steps
    <2> QED
      BY <2>1, <2>2, RowMoves DEF RowKept, RowInserted, RowEnded
  <1>3. \A f \in Followups : spc'[f] \in {"enqueue", "unschedule"} => row'[f] # "none"
    BY <1>0, <1>1, NeverErased, RowTyped DEF RowBeforeJob, CallMoves, CommitSchedule
  <1>4. \A f \in Followups : spc'[f] = "enqueue" => job'[f] = "none"
    BY <1>0, <1>1, JobMoves DEF RowBeforeJob, CallMoves, CommitSchedule, queueVars
  <1>5. \A f \in Followups : job'[f] # "none" => row'[f] # "none"
    BY <1>0, JobMoves, NeverErased DEF RowBeforeJob
  <1>6. \A e \in Workers : wpc'[e] # "idle" => row'[task'[e]] # "none"
    <2> SUFFICES ASSUME NEW e \in Workers, wpc'[e] # "idle" PROVE row'[task'[e]] # "none"
      OBVIOUS
    <2>1. CASE wpc[e] # "idle" /\ task'[e] = task[e]
      BY <1>0, <2>1, Working, NeverErased DEF RowBeforeJob
    <2>2. CASE ~(wpc[e] # "idle" /\ task'[e] = task[e])
      <3>1. ASSUME NEW d \in Workers, ExecutionActs(d)
            PROVE  \E f \in Followups : Take(e, f)
        <4>1. wpc'[e] # wpc[e] \/ task'[e] # task[e]
          BY <2>2
        <4>2. wpc[e] # "idle" => ~Forget(e)
          BY Typed DEF Forget, WGoto
        <4>3. d = e
          BY <3>1, <4>1, Typed, RowTyped
          DEF ExecutionActs, ExecutionStep, Take, Preflight, Generate, LockFollowup, LockConversation,
              CheckDue, Send, HandleError, Rethrow, Break, Die, Leave, Forget, WGoto
        <4> QED
          BY <2>2, <3>1, <4>2, <4>3, Typed, RowTyped
          DEF ExecutionActs, ExecutionStep, Preflight, Generate, LockFollowup, LockConversation,
              CheckDue, Send, HandleError, Rethrow, Break, Die, Leave, Forget, WGoto
      <3>2. ASSUME \/ UNCHANGED vars
                   \/ \E g \in Followups : Stall(g)
                   \/ \E t \in Turns : TurnActs(t)
                   \/ \E g \in Followups : CallActs(g)
            PROVE  FALSE
        BY <2>2, <3>2, TurnFrame, CallFrame DEF Stall, vars, workerVars
      <3>3. PICK f \in Followups : Take(e, f)
        BY <3>1, <3>2, WhoActs
      <3>4. task'[e] = f /\ job[f] = "waiting"
        BY <3>3, RowTyped DEF Take
      <3> QED
        BY <1>0, <3>4, NeverErased DEF RowBeforeJob
    <2> QED
      BY <2>1, <2>2
  <1> QED
    BY <1>2, <1>3, <1>4, <1>5, <1>6 DEF RowBeforeJob

LEMMA OneRowNext == IInv /\ [Next]_vars => OneRow'
  <1> SUFFICES ASSUME IInv, [Next]_vars PROVE OneRow'
    OBVIOUS
  <1>0. OneRow
    BY DEF IInv
  <1>1. \A f \in Followups : row'[f] = "scheduled" => row[f] = "scheduled" \/ CommitSchedule(f)
    BY RowMoves DEF RowKept, RowInserted, RowEnded
  <1>2. ASSUME NEW f \in Followups, CommitSchedule(f)
        PROVE  \A g \in Followups : row'[g] = "scheduled" => g = f
    BY <1>0, <1>2, RowTyped DEF CommitSchedule, OneRow, Scheduled
  <1>3. ASSUME NEW f \in Followups, spc'[f] = "insert" PROVE Scheduled' = {}
    <2>1. CASE CheckSchedule(f) /\ UNCHANGED row /\ Scheduled = {}
      BY <2>1 DEF Scheduled
    <2>2. CASE ~(CheckSchedule(f) /\ UNCHANGED row /\ Scheduled = {})
      <3>1. spc[f] = "insert"
        <4>1. ASSUME NEW g \in Followups, CallActs(g) PROVE spc[f] = "insert"
          BY <1>3, <2>2, <4>1, Typed
          DEF CallActs, ScheduleStep, BeginSchedule, LockForSchedule, CheckSchedule, CommitSchedule,
              Enqueue, EnqueueFails, Unschedule, AbandonSchedule, SGoto
        <4>2. ASSUME \/ UNCHANGED vars
                     \/ \E g \in Followups : Stall(g)
                     \/ \E t \in Turns : TurnActs(t)
                     \/ \E e \in Workers : ExecutionActs(e)
              PROVE  UNCHANGED spc
          BY <4>2, TurnFrame, ExecutionFrame DEF Stall, vars, followupVars
        <4> QED
          BY <1>3, <4>1, <4>2, WhoActs
      <3>2. Scheduled = {} /\ writer = f
        BY <1>0, <3>1 DEF OneRow, IInv, ConversationLock, CallWrites
      <3>3. ASSUME NEW g \in Followups, CommitSchedule(g) PROVE FALSE
        <4>1. writer = g
          BY <3>3 DEF CommitSchedule, IInv, ConversationLock, CallWrites
        <4> QED
          BY <1>3, <3>2, <3>3, <4>1, Typed DEF CommitSchedule, SGoto
      <3> QED
        BY <1>1, <3>2, <3>3 DEF Scheduled
    <2> QED
      BY <2>1, <2>2
  <1>4. \A f, g \in Followups : row'[f] = "scheduled" /\ row'[g] = "scheduled" => f = g
    BY <1>0, <1>1, <1>2 DEF OneRow
  <1> QED
    BY <1>3, <1>4 DEF OneRow

-----------------------------------------------------------------------------
\* A reminder and its row are written together

LEMMA LogMoves ==
    ASSUME IInv, [Next]_vars
    PROVE  \/ UNCHANGED log
           \/ \E t \in Turns : CommitPersist(t) /\ TurnActs(t)
           \/ \E e \in Workers : Send(e) /\ ExecutionActs(e)
  <1>1. ASSUME NEW t \in Turns, TurnActs(t) PROVE UNCHANGED log \/ CommitPersist(t)
    BY <1>1
    DEF TurnActs, TurnArrives, TurnMoves, TurnFails, TurnStep, Arrive, LoadMessages, LoadEscalation,
        PlaceOrder, CommitOrder, Judge, LockForEscalation, Escalate, Respond, BeginPersist, LockForPersist,
        RejectHistory, CountMessages, Abandon, rowVars
  <1>2. ASSUME NEW e \in Workers, ExecutionActs(e) PROVE UNCHANGED log \/ Send(e)
    BY <1>2
    DEF ExecutionActs, ExecutionStep, Take, Preflight, Generate, LockFollowup, LockConversation,
        CheckDue, HandleError, Rethrow, Break, Die, conversationVars, rowVars
  <1>3. ASSUME \/ UNCHANGED vars
               \/ \E f \in Followups : Stall(f)
               \/ \E f \in Followups : CallActs(f)
        PROVE  UNCHANGED log
    BY <1>3, CallFrame DEF Stall, vars, conversationVars, rowVars
  <1> QED
    BY <1>1, <1>2, <1>3, WhoActs

LEMMA SentAre ==
    ASSUME IInv, NEW e \in Workers, Send(e)
    PROVE  /\ task[e] \in Followups /\ row[task[e]] = "scheduled"
           /\ Reminders(task[e]) = {}
           /\ log' = log \cup {OneReminderOf(task[e])}
           /\ row' = [row EXCEPT ![task[e]] = "executed"]
  <1>1. task[e] \in Followups /\ rowLock[task[e]] = e /\ e # NoOne
    BY Working, Distinct DEF Send, IInv, RowLocks, RowHolders, HasRow
  <1>2. row[task[e]] = "scheduled"
    BY <1>1 DEF IInv, RowLocks
  <1>3. Reminders(task[e]) = {}
    BY <1>1, <1>2 DEF IInv, RemindersOf
  <1>4. Reminder(task[e]) = OneReminderOf(task[e])
    <2>1. Cardinality(Reminders(task[e])) = 0
      BY <1>3, FS_EmptySet
    <2> QED
      BY <2>1 DEF Reminder, Reminders, OneReminderOf
  <1> QED
    BY <1>1, <1>2, <1>3, <1>4 DEF Send

LEMMA ExecutedBySend ==
    ASSUME IInv, [Next]_vars, NEW f \in Followups, row'[f] = "executed", row[f] # "executed"
    PROVE  \E e \in Workers : Send(e)
  <1>2. \A g \in Followups : CallActs(g) => row'[f] # "executed"
    BY RowTyped
    DEF CallActs, ScheduleStep, BeginSchedule, LockForSchedule, CheckSchedule, CommitSchedule,
        Enqueue, EnqueueFails, Unschedule, AbandonSchedule, MarkFailed, followupVars
  <1>3. ASSUME NEW e \in Workers, ExecutionActs(e) PROVE Send(e)
    BY <1>3, RowTyped
    DEF ExecutionActs, ExecutionStep, Take, Preflight, Generate, LockFollowup, LockConversation,
        CheckDue, HandleError, MarkFailed, Rethrow, Break, Die, followupVars
  <1>4. ASSUME \/ UNCHANGED vars
               \/ \E g \in Followups : Stall(g)
               \/ \E t \in Turns : TurnActs(t)
        PROVE  UNCHANGED row
    BY <1>4, TurnFrame DEF Stall, vars, followupVars
  <1> QED
    BY <1>2, <1>3, <1>4, WhoActs

LEMMA RemindersNext == IInv /\ [Next]_vars => RemindersOf'
  <1> SUFFICES ASSUME IInv, [Next]_vars PROVE RemindersOf'
    OBVIOUS
  <1>0. RemindersOf
    BY DEF IInv
  <1>1. ASSUME ~\E e \in Workers : Send(e) PROVE \A f \in Followups : row'[f] = "executed" <=> row[f] = "executed"
    BY <1>1, ExecutedBySend, RowMoves DEF RowKept, RowInserted, RowEnded
  <1>2. CASE \E t \in Turns : CommitPersist(t) /\ TurnActs(t)
    <2>1. PICK t \in Turns : CommitPersist(t) /\ TurnActs(t)
      BY <1>2
    <2>2. PICK order \in {"asSaid", "reversed"} : log' = log \cup Inserted(t, order)
      BY <2>1 DEF CommitPersist
    <2>3. IsFiniteSet(Inserted(t, order)) /\ \A m \in Inserted(t, order) : m.by = t
      BY InsertedTyped DEF IInv, TypeOK, ConversationTypeOK
    <2>4. \A f \in Followups : Reminders(f)' = Reminders(f)
      BY <2>2, <2>3, Distinct DEF Reminders
    <2>5. IsFiniteSet(log')
      BY <1>0, <2>2, <2>3, FS_Union DEF RemindersOf
    <2>6. UNCHANGED row
      BY <2>1, TurnFrame DEF followupVars
    <2> QED
      BY <1>0, <2>4, <2>5, <2>6 DEF RemindersOf
  <1>3. CASE \E e \in Workers : Send(e)
    <2>1. PICK e \in Workers : Send(e)
      BY <1>3
    <2> DEFINE f == task[e]
    <2>2. /\ f \in Followups
          /\ Reminders(f) = {}
          /\ log' = log \cup {OneReminderOf(f)}
          /\ row' = [row EXCEPT ![f] = "executed"]
      BY <2>1, SentAre
    <2>3. IsFiniteSet(log')
      BY <1>0, <2>2, FS_AddElement DEF RemindersOf
    <2>4. \A g \in Followups : Reminders(g)' = IF g = f THEN {OneReminderOf(f)} ELSE Reminders(g)
      BY <2>2 DEF Reminders, OneReminderOf
    <2>5. \A g \in Followups : row'[g] = IF g = f THEN "executed" ELSE row[g]
      BY <2>2, RowTyped
    <2> QED
      BY <1>0, <2>3, <2>4, <2>5 DEF RemindersOf
  <1>4. CASE UNCHANGED log /\ ~\E e \in Workers : Send(e)
    BY <1>0, <1>1, <1>4 DEF RemindersOf, Reminders
  <1> QED
    BY <1>2, <1>3, <1>4, LogMoves

-----------------------------------------------------------------------------
\* Turns, one at a time

\* A step of t leaves the other turns what they are.
LEMMA OneTurnMoves ==
    ASSUME IInv, NEW t \in Turns, TurnActs(t), NEW u \in Turns, u # t
    PROVE  /\ tpc'[u] = tpc[u] /\ began'[u] = began[u] /\ seen'[u] = seen[u] /\ raised'[u] = raised[u]
           /\ said'[u] = said[u] /\ tail'[u] = tail[u] /\ pending'[u] = pending[u]
           /\ ~Running(u) /\ ~Running(u)'
  <1>1. /\ tpc \in [Turns -> TurnSteps] /\ began \in [Turns \cup Workers -> Time]
        /\ seen \in [Turns -> Nat] /\ raised \in [Turns -> BOOLEAN]
        /\ said \in [Turns -> Utterances] /\ tail \in [Turns -> Utterances]
        /\ pending \in [Turns -> SUBSET Followups]
    BY DEF IInv, TypeOK, ConversationTypeOK
  <1>2. pending'[u] = pending[u]
    BY <1>1 DEF TurnActs, TurnArrives, TurnMoves, TurnFails
  <1>3. tpc'[u] = tpc[u] /\ seen'[u] = seen[u]
    BY <1>1
    DEF TurnActs, TurnArrives, TurnMoves, TurnFails, TurnStep, Arrive, LoadMessages, LoadEscalation,
        PlaceOrder, CommitOrder, Judge, LockForEscalation, Escalate, Respond, BeginPersist, LockForPersist,
        RejectHistory, CountMessages, CommitPersist, Abandon, EndTurn, Goto, turnVars
  <1>4. began'[u] = began[u] /\ raised'[u] = raised[u]
    BY <1>1
    DEF TurnActs, TurnArrives, TurnMoves, TurnFails, TurnStep, Arrive, LoadMessages, LoadEscalation,
        PlaceOrder, CommitOrder, Judge, LockForEscalation, Escalate, Respond, BeginPersist, LockForPersist,
        RejectHistory, CountMessages, CommitPersist, Abandon, EndTurn, turnVars
  <1>5. said'[u] = said[u] /\ tail'[u] = tail[u]
    BY <1>1
    DEF TurnActs, TurnArrives, TurnMoves, TurnFails, TurnStep, Arrive, LoadMessages, LoadEscalation,
        PlaceOrder, CommitOrder, Judge, LockForEscalation, Escalate, Respond, BeginPersist, LockForPersist,
        RejectHistory, CountMessages, CommitPersist, Abandon, EndTurn, turnVars
  <1>6. Running(t) \/ Arrive(t)
    BY DEF TurnActs, TurnArrives, TurnMoves, TurnFails, TurnStep, LoadMessages, LoadEscalation,
           PlaceOrder, CommitOrder, Judge, LockForEscalation, Escalate, Respond, BeginPersist, LockForPersist,
           RejectHistory, CountMessages, CommitPersist, Abandon, Running
  <1>7. ~Running(u)
    BY <1>6 DEF IInv, OneTurnRuns, Arrive
  <1> QED
    BY <1>2, <1>3, <1>4, <1>5, <1>7 DEF Running

LEMMA OneTurnNext == IInv /\ [Next]_vars => OneTurnRuns'
  <1> SUFFICES ASSUME IInv, [Next]_vars PROVE OneTurnRuns'
    OBVIOUS
  <1>1. ASSUME NEW t \in Turns, TurnActs(t) PROVE OneTurnRuns'
    BY <1>1, OneTurnMoves DEF OneTurnRuns, Running
  <1>2. ASSUME \/ UNCHANGED vars
               \/ \E f \in Followups : CallActs(f) \/ Stall(f)
               \/ \E e \in Workers : ExecutionActs(e)
        PROVE  UNCHANGED tpc
    BY <1>2, CallFrame, ExecutionFrame DEF Stall, vars, conversationVars
  <1> QED
    BY <1>1, <1>2, WhoActs DEF IInv, OneTurnRuns, Running

\* Nobody but the turn and the execution themselves changes what they began.
LEMMA BeganKept ==
    ASSUME IInv, [Next]_vars, NEW t \in Turns, ~TurnActs(t)
    PROVE  began'[t] = began[t]
  <1>0. began \in [Turns \cup Workers -> Time]
    BY DEF IInv, TypeOK
  <1>1. ASSUME NEW e \in Workers, ExecutionActs(e) PROVE began'[t] = began[t]
    BY <1>0, <1>1, Distinct
    DEF ExecutionActs, ExecutionStep, Take, Preflight, Generate, LockFollowup, LockConversation,
        CheckDue, Send, HandleError, Rethrow, Break, Die, Leave, Forget, conversationVars
  <1>2. ASSUME \/ UNCHANGED vars
               \/ \E f \in Followups : CallActs(f) \/ Stall(f)
        PROVE  UNCHANGED began
    BY <1>2, CallFrame DEF Stall, vars, conversationVars
  <1>3. ASSUME NEW u \in Turns, TurnActs(u) PROVE began'[t] = began[t]
    BY <1>3, OneTurnMoves
  <1> QED
    BY <1>1, <1>2, <1>3, WhoActs

LEMMA HeardMoves ==
    ASSUME IInv, [Next]_vars
    PROVE  \/ UNCHANGED <<heard, pending, tpc>>
           \/ \E t \in Turns : TurnActs(t)
  BY WhoActs, CallFrame, ExecutionFrame DEF Stall, vars, historyVars, conversationVars

LEMMA RowIsSeen ==
    ASSUME IInv, NEW f \in Followups, row[f] # "none"
    PROVE  f \in Now
  BY DEF IInv, RowBeforeJob, Now

LEMMA HeardNext == IInv /\ [Next]_vars => HeardInTime'
  <1> SUFFICES ASSUME IInv, [Next]_vars PROVE HeardInTime'
    OBVIOUS
  <1>0. /\ HeardInTime
        /\ heard \subseteq Followups /\ pending \in [Turns -> SUBSET Followups]
        /\ began \in [Turns \cup Workers -> Time]
    BY DEF IInv, TypeOK
  <1>1. (\A f \in heard : row'[f] # "none") /\ (\A t \in Turns : \A f \in pending[t] : row'[f] # "none")
    BY <1>0, NeverErased DEF HeardInTime
  <1>2. ASSUME NEW t \in Turns, TurnActs(t)
        PROVE  /\ \A f \in heard' : row'[f] # "none"
               /\ \A u \in Turns : \A f \in pending'[u] : row'[f] # "none"
    BY <1>0, <1>1, <1>2, TurnFrame DEF TurnActs, TurnArrives, TurnMoves, TurnFails, followupVars
  <1>3. ASSUME NEW t \in Turns, TurnActs(t), NEW u \in Turns, tpc'[u] \in {"lock", "count", "commit"}
        PROVE  heard' \cup pending'[u] \subseteq began'[u]
    <2>1. u = t
      BY <1>3, OneTurnMoves DEF Running
    <2>2. TurnMoves(t) /\ TurnStep(t, Now) /\ tpc[t] # "commit"
      BY <1>3, <2>1, Typed
      DEF TurnActs, TurnArrives, TurnMoves, TurnFails, Arrive, Abandon, TurnStep, EndTurn, Goto,
          LoadMessages, LoadEscalation, PlaceOrder, CommitOrder, Judge, LockForEscalation, Escalate, Respond,
          BeginPersist, LockForPersist, RejectHistory, CountMessages, CommitPersist
    <2>3. UNCHANGED <<heard, pending>>
      BY <2>2 DEF TurnMoves
    <2>4. CASE BeginPersist(t, Now)
      <3>1. began'[t] = Now
        BY <1>0, <2>4 DEF BeginPersist
      <3>2. heard \cup pending[t] \subseteq Now
        BY <1>0, RowIsSeen DEF HeardInTime
      <3> QED
        BY <2>1, <2>3, <3>1, <3>2
    <2>5. CASE ~BeginPersist(t, Now)
      <3>1. tpc[t] \in {"lock", "count", "commit"} /\ began'[t] = began[t]
        BY <1>0, <1>3, <2>1, <2>2, <2>5, Typed
        DEF TurnStep, EndTurn, Goto,
            LoadMessages, LoadEscalation, PlaceOrder, CommitOrder, Judge, LockForEscalation, Escalate, Respond,
            LockForPersist, RejectHistory, CountMessages, CommitPersist
      <3> QED
        BY <1>0, <2>1, <2>3, <3>1 DEF HeardInTime
    <2> QED
      BY <2>4, <2>5
  <1>4. ASSUME UNCHANGED <<heard, pending, tpc>>, NEW u \in Turns, tpc'[u] \in {"lock", "count", "commit"},
               ~\E t \in Turns : TurnActs(t)
        PROVE  heard' \cup pending'[u] \subseteq began'[u]
    BY <1>0, <1>4, BeganKept DEF HeardInTime
  <1>5. ASSUME NEW f \in heard', row'[f] = "scheduled" PROVE f \in updatedAt'
    <2>1. CASE \E t \in Turns : CommitPersist(t) /\ TurnActs(t)
      <3>1. PICK t \in Turns : CommitPersist(t) /\ TurnActs(t)
        BY <2>1
      <3>2. heard' \subseteq heard \cup pending[t] /\ tpc[t] = "commit"
        BY <3>1 DEF TurnActs, TurnArrives, TurnMoves, TurnFails, CommitPersist
      <3>3. updatedAt' = began[t]
        BY <3>1 DEF CommitPersist
      <3> QED
        BY <1>0, <1>5, <3>2, <3>3 DEF HeardInTime
    <2>2. CASE ~\E t \in Turns : CommitPersist(t) /\ TurnActs(t)
      <3>1. heard' = heard
        BY <2>2, HeardMoves, Typed
        DEF TurnActs, TurnArrives, TurnMoves, TurnFails, TurnStep,
            LoadMessages, LoadEscalation, PlaceOrder, CommitOrder, Judge, LockForEscalation, Escalate, Respond,
            BeginPersist, LockForPersist, RejectHistory, CountMessages
      <3>2. f \in Followups /\ row[f] # "none" /\ row[f] = "scheduled"
        BY <1>0, <1>5, <3>1, RowMoves DEF HeardInTime, RowKept, RowInserted, RowEnded
      <3>3. \A e \in Workers : ~Send(e)
        BY <1>5, <3>2, SentAre, RowTyped DEF IInv, OneRow
      <3>4. UNCHANGED updatedAt
        <4>1. ASSUME NEW t \in Turns, TurnActs(t) PROVE UNCHANGED updatedAt
          BY <2>2, <4>1
          DEF TurnActs, TurnArrives, TurnMoves, TurnFails, TurnStep, Arrive, LoadMessages, LoadEscalation,
              PlaceOrder, CommitOrder, Judge, LockForEscalation, Escalate, Respond, BeginPersist, LockForPersist,
              RejectHistory, CountMessages, Abandon, rowVars
        <4>2. ASSUME NEW e \in Workers, ExecutionActs(e) PROVE UNCHANGED updatedAt
          BY <3>3, <4>2
          DEF ExecutionActs, ExecutionStep, Take, Preflight, Generate, LockFollowup, LockConversation,
              CheckDue, HandleError, Rethrow, Break, Die, conversationVars, rowVars
        <4>3. ASSUME \/ UNCHANGED vars
                     \/ \E g \in Followups : CallActs(g) \/ Stall(g)
              PROVE  UNCHANGED updatedAt
          BY <4>3, CallFrame DEF Stall, vars, conversationVars, rowVars
        <4> QED
          BY <4>1, <4>2, <4>3, WhoActs
      <3> QED
        BY <1>0, <1>5, <3>1, <3>2, <3>4 DEF HeardInTime
    <2> QED
      BY <2>1, <2>2
  <1>6. CASE \E t \in Turns : TurnActs(t)
    BY <1>2, <1>3, <1>5, <1>6 DEF HeardInTime
  <1>7. CASE ~\E t \in Turns : TurnActs(t)
    BY <1>1, <1>4, <1>5, <1>7, HeardMoves DEF HeardInTime
  <1> QED
    BY <1>6, <1>7

-----------------------------------------------------------------------------
\* What was checked under the lock holds until the reminder is written

LEMMA WriterAlone ==
    ASSUME IInv, [Next]_vars, NEW e \in Workers, writer = e, ~Send(e)
    PROVE  UNCHANGED <<status, updatedAt, escalations, ordered>>
  <1>0. ConversationLock /\ e \notin Turns /\ e # NoOne /\ e \notin Followups
    BY Distinct DEF IInv
  <1>1. ASSUME NEW t \in Turns, TurnActs(t) PROVE UNCHANGED <<status, updatedAt, escalations, ordered>>
    <2>1. ~TurnWrites(t) /\ tpc[t] # "ordering"
      BY <1>0 DEF ConversationLock
    <2> QED
      BY <1>1, <2>1
      DEF TurnActs, TurnArrives, TurnMoves, TurnFails, TurnStep, Arrive, LoadMessages, LoadEscalation,
          PlaceOrder, CommitOrder, Judge, LockForEscalation, Escalate, Respond, BeginPersist, LockForPersist,
          RejectHistory, CountMessages, CommitPersist, Abandon, rowVars, TurnWrites
  <1>2. ASSUME NEW d \in Workers, ExecutionActs(d) PROVE UNCHANGED <<status, updatedAt, escalations, ordered>>
    <2>1. ~Send(d)
      BY <1>0 DEF ConversationLock, ExecutionWrites, Send
    <2> QED
      BY <1>2, <2>1, ExecutionFrame
      DEF ExecutionActs, ExecutionStep, Take, Preflight, Generate, LockFollowup, LockConversation,
          CheckDue, HandleError, Rethrow, Break, Die, conversationVars, rowVars
  <1>3. ASSUME \/ UNCHANGED vars
               \/ \E g \in Followups : CallActs(g) \/ Stall(g)
        PROVE  UNCHANGED <<status, updatedAt, escalations, ordered>>
    BY <1>3, CallFrame DEF Stall, vars, conversationVars, rowVars
  <1> QED
    BY <1>1, <1>2, <1>3, WhoActs

LEMMA StillDueNext == IInv /\ [Next]_vars => StillDue'
  <1> SUFFICES ASSUME IInv, [Next]_vars, NEW e \in Workers, wpc'[e] = "send" PROVE Due(task[e])'
    BY DEF StillDue
  <1>1. CASE wpc[e] = "send"
    <2>1. writer = e /\ Due(task[e])
      BY <1>1 DEF IInv, ConversationLock, ExecutionWrites, StillDue
    <2>2. ASSUME Send(e) PROVE FALSE
      BY <2>2, Typed DEF Send, Leave, Forget, WGoto
    <2>3. task'[e] = task[e]
      <3>1. ASSUME NEW d \in Workers, ExecutionActs(d) PROVE task'[e] = task[e]
        BY <1>1, <3>1, Typed, RowTyped
        DEF ExecutionActs, ExecutionStep, Take, Preflight, Generate, LockFollowup, LockConversation,
            CheckDue, Send, HandleError, Rethrow, Break, Die, Leave, Forget, WGoto
      <3>2. ASSUME \/ UNCHANGED vars
                   \/ \E g \in Followups : CallActs(g) \/ Stall(g)
                   \/ \E t \in Turns : TurnActs(t)
            PROVE  task'[e] = task[e]
        BY <3>2, CallFrame, TurnFrame DEF Stall, vars, workerVars
      <3> QED
        BY <3>1, <3>2, WhoActs
    <2> QED
      BY <2>1, <2>2, <2>3, WriterAlone DEF Due, Open
  <1>2. CASE wpc[e] # "send"
    <2>1. ASSUME NEW d \in Workers, ExecutionActs(d) PROVE CheckDue(e) /\ Due(task[e]) /\ UNCHANGED <<rowVars, task>>
      BY <1>2, <2>1, Typed
      DEF ExecutionActs, ExecutionStep, Take, Preflight, Generate, LockFollowup, LockConversation,
          CheckDue, Send, HandleError, Rethrow, Break, Die, Leave, Forget, WGoto
    <2>2. ASSUME \/ UNCHANGED vars
                 \/ \E g \in Followups : CallActs(g) \/ Stall(g)
                 \/ \E t \in Turns : TurnActs(t)
          PROVE  FALSE
      BY <1>2, <2>2, CallFrame, TurnFrame DEF Stall, vars, workerVars
    <2> QED
      BY <2>1, <2>2, WhoActs DEF Due, Open, rowVars
  <1> QED
    BY <1>1, <1>2

-----------------------------------------------------------------------------
\* Escalations and words

LEMMA EscalationNext == IInv /\ [Next]_vars => EscalationKnown'
  <1> SUFFICES ASSUME IInv, [Next]_vars PROVE EscalationKnown'
    OBVIOUS
  <1>0. EscalationKnown /\ raised \in [Turns -> BOOLEAN] /\ escalations \in Nat
    BY DEF IInv, TypeOK, ConversationTypeOK
  <1>1. ASSUME \/ UNCHANGED vars
               \/ \E f \in Followups : CallActs(f) \/ Stall(f)
               \/ \E e \in Workers : ExecutionActs(e)
        PROVE  EscalationKnown'
    <2>1. UNCHANGED <<escalations, raised, tpc>>
      BY <1>1, CallFrame, ExecutionFrame DEF Stall, vars, conversationVars, rowVars, turnVars
    <2> QED
      BY <1>0, <2>1 DEF EscalationKnown, Loaded, Running
  <1>2. ASSUME NEW t \in Turns, TurnActs(t) PROVE EscalationKnown'
    <2>1. escalations' = escalations \/ Escalate(t)
      BY <1>2
      DEF TurnActs, TurnArrives, TurnMoves, TurnFails, TurnStep, Arrive, LoadMessages, LoadEscalation,
          PlaceOrder, CommitOrder, Judge, LockForEscalation, Respond, BeginPersist, LockForPersist,
          RejectHistory, CountMessages, CommitPersist, Abandon, rowVars
    <2>2. escalations' <= 1
      BY <1>0, <2>1 DEF Escalate, EscalationKnown
    <2>3. ASSUME Loaded(t)', escalations' > 0 PROVE raised'[t] = TRUE
      <3>1. CASE Escalate(t)
        BY <1>0, <3>1 DEF Escalate
      <3>2. CASE LoadEscalation(t)
        <4>1. raised' = [raised EXCEPT ![t] = escalations > 0] /\ escalations' = escalations
          BY <3>2 DEF LoadEscalation, rowVars
        <4>2. (escalations > 0) = TRUE
          BY <2>3, <4>1
        <4>3. raised' = [raised EXCEPT ![t] = TRUE]
          BY <4>1, <4>2
        <4> QED
          BY <1>0, <4>3
      <3>3. CASE ~Escalate(t) /\ ~LoadEscalation(t)
        <4>1. Loaded(t) /\ escalations > 0
          BY <1>2, <2>1, <2>3, <3>3, Typed
          DEF Loaded, Running, TurnActs, TurnArrives, TurnMoves, TurnFails, TurnStep, Arrive, LoadMessages,
              PlaceOrder, CommitOrder, Judge, LockForEscalation, Respond, BeginPersist, LockForPersist,
              RejectHistory, CountMessages, CommitPersist, Abandon, EndTurn, Goto
        <4>2. raised' = raised
          BY <1>2, <2>3, <3>3, Typed
          DEF Loaded, Running, TurnActs, TurnArrives, TurnMoves, TurnFails, TurnStep, Arrive, LoadMessages,
              PlaceOrder, CommitOrder, Judge, LockForEscalation, Respond, BeginPersist, LockForPersist,
              RejectHistory, CountMessages, CommitPersist, Abandon, EndTurn, Goto, turnVars
        <4> QED
          BY <1>0, <4>1, <4>2 DEF EscalationKnown, Loaded
      <3> QED
        BY <3>1, <3>2, <3>3
    <2>4. \A u \in Turns : Loaded(u)' => u = t
      BY <1>2, OneTurnMoves DEF Loaded
    <2> QED
      BY <2>2, <2>3, <2>4 DEF EscalationKnown, Loaded
  <1> QED
    BY <1>1, <1>2, WhoActs

LEMMA LogGrows ==
    ASSUME IInv, [Next]_vars
    PROVE  /\ log \subseteq log'
           /\ Cardinality(log) \in Nat /\ Cardinality(log') \in Nat
           /\ Cardinality(log) <= Cardinality(log')
  <1>1. log \subseteq log'
    BY LogMoves DEF CommitPersist, Send
  <1>2. IsFiniteSet(log) /\ IsFiniteSet(log')
    BY RemindersNext DEF IInv, RemindersOf
  <1> QED
    BY <1>1, <1>2, FS_Subset, FS_CardinalityType

LEMMA WordsNext == IInv /\ [Next]_vars => WordsKept'
  <1> SUFFICES ASSUME IInv, [Next]_vars PROVE WordsKept'
    OBVIOUS
  <1>0. /\ WordsKept /\ seen \in [Turns -> Nat] /\ said \in [Turns -> Utterances] /\ tail \in [Turns -> Utterances]
        /\ cutIn \subseteq Turns
    BY DEF IInv, TypeOK, ConversationTypeOK
  <1>1. \A t \in Turns : CustomerHeard(t) => CustomerHeard(t)'
    BY LogGrows DEF CustomerHeard
  <1>2. ASSUME \/ UNCHANGED vars
               \/ \E f \in Followups : CallActs(f) \/ Stall(f)
               \/ \E e \in Workers : ExecutionActs(e)
        PROVE  WordsKept'
    <2>1. UNCHANGED <<seen, said, tail, tpc>>
      BY <1>2, CallFrame, ExecutionFrame DEF Stall, vars, conversationVars, turnVars
    <2>2. cutIn \subseteq cutIn'
      BY <1>2, CallFrame
      DEF Stall, vars, historyVars, ExecutionActs, ExecutionStep, Take, Preflight, Generate, LockFollowup,
          LockConversation, CheckDue, Send, HandleError, Rethrow, Break, Die
    <2>3. UNCHANGED log \/ \A t \in Turns : Running(t) /\ tpc[t] # "messages" => t \in cutIn'
      <3>1. ASSUME NEW e \in Workers, Send(e) PROVE \A t \in Turns : Running(t) /\ tpc[t] # "messages" => t \in cutIn'
        BY <3>1 DEF Send
      <3>2. ASSUME NEW t \in Turns, CommitPersist(t) PROVE FALSE
        BY <2>1, <3>2, Typed DEF CommitPersist, EndTurn, Goto
      <3> QED
        BY <3>1, <3>2, LogMoves
    <2>4. \A t \in Turns : seen'[t] <= Cardinality(log')
      BY <1>0, <2>1, LogGrows DEF WordsKept
    <2>5. \A t \in Turns : (Running(t) /\ tpc[t] # "messages" /\ t \notin cutIn)' => seen'[t] = Cardinality(log')
      BY <1>0, <2>1, <2>2, <2>3 DEF WordsKept, Running
    <2>6. LostOnlyToReminder'
      BY <1>0, <1>1, <2>1, <2>2 DEF WordsKept, LostOnlyToReminder
    <2> QED
      BY <1>0, <2>1, <2>2, <2>4, <2>5, <2>6 DEF WordsKept
  <1>3. ASSUME NEW t \in Turns, TurnActs(t) PROVE WordsKept'
    <2>0. UNCHANGED cutIn /\ Cardinality(log) \in Nat
      BY <1>3, TurnFrame, LogGrows
    <2>1. \A u \in Turns : u # t => tpc'[u] = tpc[u] /\ seen'[u] = seen[u] /\ ~Running(u)'
      BY <1>3, OneTurnMoves
    <2>2. seen'[t] = seen[t] \/ seen'[t] = 0 \/ (LoadMessages(t) /\ seen'[t] = Cardinality(log))
      BY <1>0, <1>3
      DEF TurnActs, TurnArrives, TurnMoves, TurnFails, TurnStep, Arrive, LoadMessages, LoadEscalation,
          PlaceOrder, CommitOrder, Judge, LockForEscalation, Escalate, Respond, BeginPersist, LockForPersist,
          RejectHistory, CountMessages, CommitPersist, Abandon, EndTurn, turnVars
    <2>3. \A u \in Turns : seen'[u] <= Cardinality(log')
      BY <1>0, <2>0, <2>1, <2>2, LogGrows DEF WordsKept
    <2>4. ASSUME Running(t)', tpc'[t] # "messages", t \notin cutIn PROVE seen'[t] = Cardinality(log')
      <3>1. CASE LoadMessages(t)
        BY <1>0, <3>1 DEF LoadMessages, rowVars
      <3>2. CASE ~LoadMessages(t)
        <4>1. Running(t) /\ tpc[t] # "messages" /\ UNCHANGED <<log, seen>>
          BY <1>3, <2>4, <3>2, Typed
          DEF Running, TurnActs, TurnArrives, TurnMoves, TurnFails, TurnStep, Arrive, LoadEscalation,
              PlaceOrder, CommitOrder, Judge, LockForEscalation, Escalate, Respond, BeginPersist, LockForPersist,
              RejectHistory, CountMessages, CommitPersist, Abandon, EndTurn, Goto, turnVars, rowVars
        <4> QED
          BY <1>0, <2>4, <4>1 DEF WordsKept
      <3> QED
        BY <3>1, <3>2
    <2>5. ASSUME tpc'[t] \in {"persist", "lock", "count", "commit"} PROVE said'[t] = Exchange
      <3>1. CASE Respond(t)
        BY <1>0, <3>1 DEF Respond, Exchange
      <3>2. CASE ~Respond(t)
        <4>1. tpc[t] \in {"persist", "lock", "count", "commit"} /\ UNCHANGED said
          BY <1>3, <2>5, <3>2, Typed
          DEF TurnActs, TurnArrives, TurnMoves, TurnFails, TurnStep, Arrive, LoadMessages, LoadEscalation,
              PlaceOrder, CommitOrder, Judge, LockForEscalation, Escalate, BeginPersist, LockForPersist,
              RejectHistory, CountMessages, CommitPersist, Abandon, EndTurn, Goto, turnVars
        <4> QED
          BY <1>0, <4>1 DEF WordsKept
      <3> QED
        BY <3>1, <3>2
    <2>6. ASSUME tpc'[t] = "commit", t \notin cutIn PROVE tail'[t] = Exchange
      <3>1. CountMessages(t)
        BY <1>3, <2>6, Typed
        DEF TurnActs, TurnArrives, TurnMoves, TurnFails, TurnStep, Arrive, LoadMessages, LoadEscalation,
            PlaceOrder, CommitOrder, Judge, LockForEscalation, Escalate, Respond, BeginPersist, LockForPersist,
            RejectHistory, CommitPersist, Abandon, EndTurn, Goto
      <3> QED
        BY <2>6, <3>1, CountedTail
    <2>7. ASSUME tpc'[t] = "recorded" PROVE CustomerHeard(t)' \/ t \in cutIn
      <3>1. CommitPersist(t)
        BY <1>3, <2>7, Typed
        DEF TurnActs, TurnArrives, TurnMoves, TurnFails, TurnStep, Arrive, LoadMessages, LoadEscalation,
            PlaceOrder, CommitOrder, Judge, LockForEscalation, Escalate, Respond, BeginPersist, LockForPersist,
            RejectHistory, CountMessages, Abandon, EndTurn, Goto, Running
      <3>2. PICK order \in {"asSaid", "reversed"} : log' = log \cup Inserted(t, order)
        BY <3>1 DEF CommitPersist
      <3>3. t \in cutIn \/ tail[t] = Exchange
        BY <1>0, <3>1 DEF WordsKept, CommitPersist
      <3> QED
        BY <1>0, <3>2, <3>3, InsertedTyped DEF CustomerHeard
    <2>8. LostOnlyToReminder'
      BY <1>0, <1>1, <2>0, <2>1, <2>7 DEF WordsKept, LostOnlyToReminder
    <2>9. \A u \in Turns : u # t => tpc'[u] \notin {"persist", "lock", "count", "commit"}
      BY <2>1 DEF Running
    <2> QED
      BY <2>0, <2>1, <2>3, <2>4, <2>5, <2>6, <2>8, <2>9 DEF WordsKept
  <1> QED
    BY <1>2, <1>3, WhoActs

-----------------------------------------------------------------------------
\* The invariant

LEMMA InitInv == Init => IInv
  <1> SUFFICES ASSUME Init PROVE IInv
    OBVIOUS
  <1>1. TypeOK
    <2>1. {} \in Time /\ <<>> \in Utterances /\ 0 \in 0..(Attempts + MaxStalls) /\ 0 \in 0..(Attempts - 1) /\ 0 \in 0..MaxStalls
      BY FollowupAssumption DEF Time, Utterances
    <2>2. ConversationTypeOK
      BY <2>1 DEF Init, ConversationInit, ConversationTypeOK, Statuses, TurnSteps, Time
    <2> QED
      BY <2>1, <2>2 DEF Init, ConversationInit, TypeOK, Rows, JobStates
  <1>2. ConversationLock /\ RowLocks /\ RowBeforeJob /\ OneTurnRuns /\ StillDue /\ HeardInTime
    BY Distinct
    DEF Init, ConversationInit, ConversationLock, TurnWrites, CallWrites, ExecutionWrites, RowLocks, RowHolders,
        HasRow, RowBeforeJob, OneTurnRuns, Running, StillDue, HeardInTime
  <1>3. OneRow
    BY DEF Init, OneRow, Scheduled
  <1>4. JobCounts
    BY DEF Init, JobCounts
  <1>5. RemindersOf
    BY FS_EmptySet DEF Init, ConversationInit, RemindersOf, Reminders
  <1>6. EscalationKnown
    BY DEF Init, ConversationInit, EscalationKnown, Loaded, Running
  <1>7. WordsKept
    BY FS_EmptySet DEF Init, ConversationInit, WordsKept, LostOnlyToReminder, Running
  <1> QED
    BY <1>1, <1>2, <1>3, <1>4, <1>5, <1>6, <1>7 DEF IInv

LEMMA NextInv == IInv /\ [Next]_vars => IInv'
  BY TypesNext, LocksNext, RowLocksNext, RowBeforeJobNext, OneRowNext, QueueNext, RemindersNext, OneTurnNext,
     HeardNext, StillDueNext, EscalationNext, WordsNext
  DEF IInv, QueueInv

\* Whatever the number of turns, calls, executions, attempts and stalls: who holds
\* the conversation and each row, what a job counts, how rows, reminders and the
\* words of the turns hang together.
THEOREM Invariant == Spec => []IInv
  BY InitInv, NextInv, PTL DEF Spec

\* The state has its type, and what the queue counts of a job stays in the bounds
\* the attempts and the stalls give it (followupQueue.ts, followupWorker.ts).
THEOREM FollowupTypeCorrect == Spec => []TypeOK
  <1>1. IInv => TypeOK
    BY DEF IInv
  <1> QED
    BY <1>1, Invariant, PTL

\* However many calls race, at most one reminder is scheduled (followup.ts:88-93):
\* the check and the INSERT are under the conversation's lock.
THEOREM OneIsScheduled == Spec => []OneScheduled
  <1>1. IInv => OneScheduled
    <2> SUFFICES ASSUME IInv PROVE Cardinality(Scheduled) <= 1
      BY DEF OneScheduled
    <2>1. CASE Scheduled = {}
      BY <2>1, FS_EmptySet
    <2>2. ASSUME NEW f \in Scheduled PROVE Cardinality(Scheduled) = 1
      <3>1. Scheduled = {f}
        BY <2>2 DEF Scheduled, IInv, OneRow
      <3> QED
        BY <3>1, FS_Singleton
    <2> QED
      BY <2>1, <2>2
  <1> QED
    BY <1>1, Invariant, PTL

\* However often a job is delivered, retried or taken over, its followup has sent
\* one reminder if its row says executed, and none otherwise
\* (followupExecution.ts:363-384).
THEOREM SentOnce == Spec => []SentOnceIfExecuted
  <1>1. IInv => SentOnceIfExecuted
    BY FS_EmptySet, FS_Singleton DEF IInv, RemindersOf, SentOnceIfExecuted
  <1> QED
    BY <1>1, Invariant, PTL

\* A reminder is only committed into a conversation that is active, without order
\* or open escalation, and that no turn was recorded in since the row is there
\* (followupExecution.ts:117-134, 346-384).
THEOREM OnlyWhenDue == Spec => SentOnlyWhenDue
  <1>1. ASSUME IInv, [Next]_vars, NEW f \in Followups, Reminders(f)' # Reminders(f)
        PROVE  Open /\ f \notin heard
    <2>1. ~UNCHANGED log
      BY <1>1 DEF Reminders
    <2>2. ASSUME NEW t \in Turns, CommitPersist(t) PROVE FALSE
      <3>1. PICK order \in {"asSaid", "reversed"} : log' = log \cup Inserted(t, order)
        BY <2>2 DEF CommitPersist
      <3>2. \A m \in Inserted(t, order) : m.by = t
        BY <1>1, InsertedTyped DEF IInv, TypeOK, ConversationTypeOK
      <3> QED
        BY <1>1, <3>1, <3>2, Distinct DEF Reminders
    <2>3. PICK e \in Workers : Send(e)
      BY <1>1, <2>1, <2>2, LogMoves
    <2>4. task[e] = f
      BY <1>1, <2>3, SentAre DEF Reminders, OneReminderOf
    <2>5. row[f] = "scheduled"
      BY <1>1, <2>3, <2>4, SentAre
    <2>6. Due(f)
      BY <1>1, <2>3, <2>4 DEF Send, IInv, StillDue
    <2> QED
      BY <1>1, <2>5, <2>6 DEF Due, IInv, HeardInTime
  <1>2. IInv /\ [Next]_vars => [\A f \in Followups : Reminders(f)' # Reminders(f) => Open /\ f \notin heard]_vars
    BY <1>1
  <1> QED
    BY <1>2, Invariant, PTL DEF Spec, SentOnlyWhenDue

\* The outcome of a followup is final: executions, enqueue errors and the
\* bookkeeping of last attempts find the row scheduled, or leave it
\* (followupExecution.ts:93-115, followup.ts:187-194).
THEOREM OutcomeStays == Spec => OutcomeIsFinal
  <1>1. IInv /\ [Next]_vars => \A f \in Followups : row[f] \notin {"none", "scheduled"} => row'[f] = row[f]
    BY RowMoves DEF RowKept, RowInserted, RowEnded
  <1>2. IInv /\ [Next]_vars => [\A f \in Followups : row[f] \notin {"none", "scheduled"} => row'[f] = row[f]]_vars
    BY <1>1
  <1> QED
    BY <1>2, Invariant, PTL DEF Spec, OutcomeIsFinal

\* Turns that follow each other, also after one that failed with its escalation
\* committed, never open a second one (escalation.ts:86-117).  Turns of a
\* conversation do not overlap: OneTurnRuns is part of the invariant.
THEOREM NoSecondEscalation == Spec => []OneOpenEscalation
  <1>1. IInv => OneOpenEscalation
    BY DEF IInv, EscalationKnown, OneOpenEscalation
  <1> QED
    BY <1>1, Invariant, PTL

\* A turn that is recorded while an escalation is open leaves the conversation
\* escalated, whoever raised it (conversation.ts:149-161, 190-196).
THEOREM EscalationIsRecorded == Spec => EscalationRecorded
  <1>1. ASSUME IInv, [Next]_vars, NEW t \in Turns, tpc[t] = "commit", tpc'[t] = "recorded", escalations > 0
        PROVE  status' = "escalated"
    <2>1. raised[t] = TRUE
      BY <1>1 DEF IInv, EscalationKnown, Loaded, Running
    <2>2. TurnActs(t)
      <3>1. ASSUME NEW u \in Turns, TurnActs(u), u # t PROVE FALSE
        BY <1>1, <3>1, OneTurnMoves
      <3>2. ASSUME \/ UNCHANGED vars
                   \/ \E f \in Followups : CallActs(f) \/ Stall(f)
                   \/ \E e \in Workers : ExecutionActs(e)
            PROVE  UNCHANGED tpc
        BY <3>2, CallFrame, ExecutionFrame DEF Stall, vars, conversationVars
      <3> QED
        BY <1>1, <3>1, <3>2, WhoActs
    <2>3. CommitPersist(t)
      BY <1>1, <2>2, Typed
      DEF TurnActs, TurnArrives, TurnMoves, TurnFails, TurnStep, Arrive, LoadMessages, LoadEscalation,
          PlaceOrder, CommitOrder, Judge, LockForEscalation, Escalate, Respond, BeginPersist, LockForPersist,
          RejectHistory, CountMessages, Abandon, EndTurn, Goto
    <2> QED
      BY <2>1, <2>3 DEF CommitPersist
  <1>2. IInv /\ [Next]_vars => [\A t \in Turns :
          tpc[t] = "commit" /\ tpc'[t] = "recorded" /\ escalations > 0 => status' = "escalated"]_vars
    BY <1>1
  <1> QED
    BY <1>2, Invariant, PTL DEF Spec, EscalationRecorded

\* The words of the customer are missing from a recorded turn only if a reminder
\* was sent into it (conversation.ts:245-259).
THEOREM WordsLostOnlyToReminder == Spec => []LostOnlyToReminder
  <1>1. IInv => LostOnlyToReminder
    BY DEF IInv, WordsKept
  <1> QED
    BY <1>1, Invariant, PTL

\* Whoever waits, waits for somebody who waits for nobody or for the holder of the
\* conversation, who waits for nobody: rows first, the conversation last
\* (followupExecution.ts:132-134).
THEOREM NoCircleOfLocks == Spec => []LocksEndWithTheConversation
  <1> DEFINE Parties == Turns \cup Followups \cup Workers
  <1>1. ASSUME IInv, NEW y \in Parties, y = writer \/ y \in sharers, NEW z \in Parties, Waits(y, z) PROVE FALSE
    BY <1>1, Distinct
    DEF Waits, IInv, TypeOK, ConversationLock, TurnWrites, CallWrites, ExecutionWrites
  <1>2. ASSUME IInv, NEW x \in Parties, NEW y \in Parties, Waits(x, y), y # writer, y \notin sharers
        PROVE  y \in Workers /\ HasRow(y)
    <2>1. \E f \in Followups : y = rowLock[f]
      <3>1. CASE x \in Workers /\ wpc[x] \in {"preflight", "lockRow", "error"} /\ y = rowLock[task[x]]
        BY <1>2, <3>1, Working
      <3>2. CASE x \in Followups /\ spc[x] = "unschedule" /\ y = rowLock[x]
        BY <3>2
      <3> QED
        BY <1>2, <3>1, <3>2 DEF Waits
    <2> QED
      BY <1>2, <2>1, RowTyped, Distinct DEF IInv, RowLocks, RowHolders
  <1>3. ASSUME IInv, NEW y \in Workers, HasRow(y), NEW z \in Parties, Waits(y, z)
        PROVE  z = writer \/ z \in sharers
    BY <1>3, Distinct DEF Waits, HasRow
  <1>4. IInv => LocksEndWithTheConversation
    BY <1>1, <1>2, <1>3 DEF LocksEndWithTheConversation
  <1> QED
    BY <1>4, Invariant, PTL
=============================================================================

---------------------------- MODULE Conversation ----------------------------
(***************************************************************************)
(* One conversation and the turns of its chat: what the agent graph reads  *)
(* (graph.ts, conversation.ts), the orders and escalations its tools write *)
(* (order.ts, escalation.ts), and the transaction that records the turn.   *)
(* The conversations row is the lock everybody meets at.                   *)
(***************************************************************************)
EXTENDS Integers, FiniteSets, Sequences

CONSTANTS
    Turns,       \* customer messages, each handled by one turn of the graph
    Followups,   \* identifiers scheduleFollowup may draw
    NoOne

ASSUME ConversationAssumption ==
    /\ IsFiniteSet(Turns) /\ IsFiniteSet(Followups)
    /\ Turns \cap Followups = {}
    /\ NoOne \notin Turns \cup Followups

VARIABLES
    status,       \* conversations.status
    updatedAt,    \* conversations.updated_at
    log,          \* rows of messages
    escalations,  \* open rows of escalations
    ordered,      \* is there an order of this conversation?
    writer,       \* who holds the conversations row FOR UPDATE
    sharers,      \* who holds it FOR KEY SHARE
    began,        \* now() of a transaction in progress
    tpc,          \* where each turn is
    seen,         \* number of messages the turn loaded
    raised,       \* state.escalationId # null in the turn
    said,         \* the messages of the turn itself
    tail          \* messages the recording transaction inserts

rowVars == <<status, updatedAt, log, escalations, ordered>>
turnVars == <<seen, raised, said, tail>>
conversationVars == <<rowVars, writer, sharers, began, tpc, turnVars>>

-----------------------------------------------------------------------------
\* Time

\* now() is the start of the transaction.  It is only ever compared with the
\* creation time of a followup, so a time is the set of the followups whose
\* transaction had started by then: At > created_at of f iff f \in At.
Time == SUBSET Followups

\* Rows

Roles == {"customer", "assistant"}

\* Rows of one transaction share created_at and are read back in the order of
\* their random ids: rank.
Message == [by: Turns \cup Followups, role: Roles, rank: Nat \ {0}]

Statuses == {"active", "escalated", "completed"}

-----------------------------------------------------------------------------
\* The lock on the conversations row

RowFree == writer = NoOne /\ sharers = {}

Lock(x) == RowFree /\ writer' = x /\ UNCHANGED sharers

\* A foreign key to conversations: any number of them, none beside a writer.
Share(x) == writer = NoOne /\ sharers' = sharers \cup {x} /\ UNCHANGED writer

Release(x) ==
    /\ writer' = IF writer = x THEN NoOne ELSE writer
    /\ sharers' = sharers \ {x}

LocksHeld == <<writer, sharers>>

-----------------------------------------------------------------------------
\* A turn

Goto(t, step) == tpc' = [tpc EXCEPT ![t] = step]

Running(t) == tpc[t] \notin {"idle", "recorded", "failed"}

\* The end of a turn: its transaction, its locks and its state are gone.
EndTurn(t, step) ==
    /\ Goto(t, step)
    /\ Release(t)
    /\ began' = [began EXCEPT ![t] = {}]
    /\ seen' = [seen EXCEPT ![t] = 0]
    /\ raised' = [raised EXCEPT ![t] = FALSE]
    /\ said' = [said EXCEPT ![t] = <<>>]
    /\ tail' = [tail EXCEPT ![t] = <<>>]

\* The socket serves one message at a time (busy).
Arrive(t) ==
    /\ tpc[t] = "idle"
    /\ \A u \in Turns : ~Running(u)
    /\ Goto(t, "messages")
    /\ UNCHANGED <<rowVars, LocksHeld, began, turnVars>>

\* loadContext: statements of their own on the pool, without a transaction.
LoadMessages(t) ==
    /\ tpc[t] = "messages"
    /\ seen' = [seen EXCEPT ![t] = Cardinality(log)]
    /\ Goto(t, "openEscalation")
    /\ UNCHANGED <<rowVars, LocksHeld, began, raised, said, tail>>

\* Mutated form: only what the turn itself raises is known.
LoadEscalationNot(t) ==
    /\ tpc[t] = "openEscalation"
    /\ Goto(t, "tools")
    /\ UNCHANGED <<rowVars, LocksHeld, began, turnVars>>

LoadEscalation(t) ==
    /\ tpc[t] = "openEscalation"
    /\ raised' = [raised EXCEPT ![t] = escalations > 0]
    /\ Goto(t, "tools")
    /\ UNCHANGED <<rowVars, LocksHeld, began, seen, said, tail>>

\* CREATE_ORDER: the INSERT of the order holds the conversation FOR KEY SHARE
\* until the COMMIT.  Mutated form: no foreign key.
PlaceOrderUnreferenced(t) ==
    /\ tpc[t] = "tools"
    /\ Goto(t, "ordering")
    /\ UNCHANGED <<rowVars, LocksHeld, began, turnVars>>

PlaceOrder(t) ==
    /\ tpc[t] = "tools"
    /\ Share(t)
    /\ Goto(t, "ordering")
    /\ UNCHANGED <<rowVars, began, turnVars>>

\* Mutated form: the connection goes back to the pool without a COMMIT.
CommitOrderHolding(t) ==
    /\ tpc[t] = "ordering"
    /\ Goto(t, "tools")
    /\ UNCHANGED <<rowVars, LocksHeld, began, turnVars>>

CommitOrder(t) ==
    /\ tpc[t] = "ordering"
    /\ ordered' = TRUE
    /\ Release(t)
    /\ Goto(t, "tools")
    /\ UNCHANGED <<status, updatedAt, log, escalations, began, turnVars>>

\* The guardrails end the tool loop with an escalation to a human, or not.
Judge(t) ==
    /\ tpc[t] = "tools"
    /\ \E step \in {"escalate", "respond"} : Goto(t, step)
    /\ UNCHANGED <<rowVars, LocksHeld, began, turnVars>>

\* createEscalation
LockForEscalation(t) ==
    /\ tpc[t] = "escalate"
    /\ Lock(t)
    /\ Goto(t, "escalating")
    /\ UNCHANGED <<rowVars, began, turnVars>>

\* Mutated form: no look-up of an open escalation.
EscalateAnew(t) ==
    /\ tpc[t] = "escalating"
    /\ escalations' = escalations + 1
    /\ raised' = [raised EXCEPT ![t] = TRUE]
    /\ Release(t)
    /\ Goto(t, "respond")
    /\ UNCHANGED <<status, updatedAt, log, ordered, began, seen, said, tail>>

Escalate(t) ==
    /\ tpc[t] = "escalating"
    /\ escalations' = IF escalations = 0 THEN 1 ELSE escalations
    /\ raised' = [raised EXCEPT ![t] = TRUE]
    /\ Release(t)
    /\ Goto(t, "respond")
    /\ UNCHANGED <<status, updatedAt, log, ordered, began, seen, said, tail>>

\* The responder always has an answer: the model's, or a canned one.
Respond(t) ==
    /\ tpc[t] = "respond"
    /\ said' = [said EXCEPT ![t] = <<"customer", "assistant">>]
    /\ Goto(t, "persist")
    /\ UNCHANGED <<rowVars, LocksHeld, began, seen, raised, tail>>

\* persistConversation: BEGIN, whose time now() is ...
BeginPersist(t, now) ==
    /\ tpc[t] = "persist"
    /\ began' = [began EXCEPT ![t] = now]
    /\ Goto(t, "lock")
    /\ UNCHANGED <<rowVars, LocksHeld, turnVars>>

LockForPersist(t) ==
    /\ tpc[t] = "lock"
    /\ Lock(t)
    /\ Goto(t, "count")
    /\ UNCHANGED <<rowVars, began, turnVars>>

\* A turn that records nothing: an error, or the death of the process, anywhere
\* in it.
Abandon(t) ==
    /\ Running(t)
    /\ EndTurn(t, "failed")
    /\ UNCHANGED rowVars

\* Mutated form: the history the turn loaded is not counted out.
CountMessagesFromStart(t) ==
    /\ tpc[t] = "count"
    /\ tail' = [tail EXCEPT ![t] = SubSeq(said[t], Cardinality(log) + 1, Len(said[t]))]
    /\ Goto(t, "commit")
    /\ UNCHANGED <<rowVars, LocksHeld, began, seen, raised, said>>

\* A history longer than what the turn loaded and said is an error.
RejectHistory(t) ==
    /\ tpc[t] = "count"
    /\ Cardinality(log) > seen[t] + Len(said[t])
    /\ EndTurn(t, "failed")
    /\ UNCHANGED rowVars

\* messages.slice(dbCount) of the loaded history and the turn's own messages.
CountMessages(t) ==
    /\ tpc[t] = "count"
    /\ Cardinality(log) <= seen[t] + Len(said[t])
    /\ tail' = [tail EXCEPT ![t] = SubSeq(said[t], Cardinality(log) - seen[t] + 1, Len(said[t]))]
    /\ Goto(t, "commit")
    /\ UNCHANGED <<rowVars, LocksHeld, began, seen, raised, said>>

Inserted(t, order) ==
    {[by |-> t, role |-> tail[t][i], rank |-> IF order = "asSaid" THEN i ELSE 3 - i] :
        i \in DOMAIN tail[t]}

CommitPersist(t) ==
    /\ tpc[t] = "commit"
    /\ \E order \in {"asSaid", "reversed"} : log' = log \cup Inserted(t, order)
    /\ status' = IF raised[t] THEN "escalated" ELSE status
    /\ updatedAt' = began[t]
    /\ EndTurn(t, "recorded")
    /\ UNCHANGED <<escalations, ordered>>

-----------------------------------------------------------------------------
ConversationInit ==
    /\ status = "active"
    /\ updatedAt = {}
    /\ log = {}
    /\ escalations = 0
    /\ ordered = FALSE
    /\ writer = NoOne
    /\ sharers = {}
    /\ tpc = [t \in Turns |-> "idle"]
    /\ seen = [t \in Turns |-> 0]
    /\ raised = [t \in Turns |-> FALSE]
    /\ said = [t \in Turns |-> <<>>]
    /\ tail = [t \in Turns |-> <<>>]

\* The steps of a turn once its message arrived, the start of the recording
\* transaction at time now among them.
TurnStep(t, now) ==
    \/ LoadMessages(t)
    \/ LoadEscalation(t)
    \/ PlaceOrder(t)
    \/ CommitOrder(t)
    \/ Judge(t)
    \/ LockForEscalation(t)
    \/ Escalate(t)
    \/ Respond(t)
    \/ BeginPersist(t, now)
    \/ LockForPersist(t)
    \/ RejectHistory(t)
    \/ CountMessages(t)
    \/ CommitPersist(t)

TurnSteps == {"idle", "messages", "openEscalation", "tools", "ordering", "escalate", "escalating",
              "respond", "persist", "lock", "count", "commit", "recorded", "failed"}

Utterances == {<<>>, <<"assistant">>, <<"customer", "assistant">>}

ConversationTypeOK ==
    /\ status \in Statuses
    /\ updatedAt \in Time
    /\ log \subseteq Message
    /\ escalations \in Nat
    /\ ordered \in BOOLEAN
    /\ tpc \in [Turns -> TurnSteps]
    /\ seen \in [Turns -> Nat]
    /\ raised \in [Turns -> BOOLEAN]
    /\ said \in [Turns -> Utterances]
    /\ tail \in [Turns -> Utterances]
=============================================================================

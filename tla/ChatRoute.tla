----------------------------- MODULE ChatRoute -----------------------------
(* The server's end of the chat, routes/chat.ts: one handler per WebSocket,   *)
(* with the promise of its session, its busy flag and its turns, and the      *)
(* connection itself, which delivers in order until it is closed or cut.      *)
(*                                                                            *)
(* An action is what runs between two awaits.  The graph of a turn is what    *)
(* its sink hears of it (AgentGraph has the rest): statuses, guardrail        *)
(* decisions, tools that start and end, then an answer, none, or an error.    *)
EXTENDS Integers, Sequences, FiniteSets

CONSTANTS
    MaxSockets,     \* bound: WebSockets the browser opens
    MaxMessages,    \* bound: messages the customer sends
    MaxActivities,  \* bound: activities of one turn
    BatchSize,      \* MAX_AGENT_EVENT_BATCH_SIZE, 128
    Tools,          \* tools the turns run
    Reports         \* statuses and guardrail categories the turns report

\* What the server may name in a frame.
AgentStatuses == {"loading_context", "planning", "escalating_to_human", "saving_conversation"}
EventTools ==
    {"searchProducts", "getAvailability", "findAlternatives", "getApplicablePromotion",
     "getDeliveryOptions", "createCart", "addCartItem", "updateCartItem", "removeCartItem",
     "validateDiscount", "createOrder"}
EventCategories ==
    {"ambiguous_product", "stock_unverified", "promotion_unverified", "delivery_unverified",
     "unsupported_restock", "automation_limit", "unverifiable_result", "discount_unverified",
     "discount_limit_exceeded"}

ASSUME ChatAssumption ==
    /\ MaxSockets \in Nat /\ MaxMessages \in Nat /\ MaxActivities \in Nat
    /\ BatchSize \in Nat \ {0}
    /\ Tools \subseteq EventTools
    /\ Reports \subseteq AgentStatuses \cup EventCategories

Sockets == 1..MaxSockets
Messages == 1..MaxMessages
NoSocket == 0

VARIABLES
    ready,      \* readyState of each WebSocket in the browser
    link,       \* readyState of its other end in the server
    toServer,   \* messages on the way to the server, CloseFrame last
    toClient,   \* frames on the way to the browser
    session,    \* sessionPromise of the handler: none, or what it is settled with
    busy,       \* busy flag of the handler
    rows,       \* rows of conversations inserted for the socket
    turn        \* what became of each message

wire == <<ready, link, toServer, toClient>>
handler == <<session, busy, rows>>

CloseFrame == 0
Open == [kind |-> "open", of |-> 0, name |-> "none", state |-> "none"]
Close == [Open EXCEPT !.kind = "close"]
Answer(m) == [Open EXCEPT !.kind = "agent.message", !.of = m]
Error(m, code) == [Open EXCEPT !.kind = "agent.error", !.of = m, !.name = code]
Activity(m, name, state) ==
    [kind |-> "activity", of |-> m, name |-> name, state |-> state]

ErrorCodes ==
    {"customer_not_found", "busy", "graph_error", "no_assistant_response", "session_error"}
Frames ==
    {Open, Close} \cup {Answer(m) : m \in Messages}
    \cup {Error(m, c) : m \in Messages, c \in ErrorCodes}
    \cup {Activity(m, n, "info") : m \in Messages, n \in Reports}
    \cup {Activity(m, t, x) : m \in Messages, t \in Tools, x \in {"started", "completed", "failed"}}

\* Stages at which a turn is under way.
Running == {"findCustomer", "insertConversation", "graph", "throwing", "audit"}

Unsent == [on |-> NoSocket, stage |-> "unsent", tool |-> "none", left |-> MaxActivities,
           audit |-> 0, reply |-> "none"]

RouteTypeOK ==
    /\ ready \in [Sockets -> {"none", "connecting", "open", "closing", "closed"}]
    /\ link \in [Sockets -> {"none", "open", "closing", "closed"}]
    /\ toServer \in [Sockets -> Seq(Messages \cup {CloseFrame})]
    /\ toClient \in [Sockets -> Seq(Frames)]
    /\ session \in [Sockets -> {"none", "created", "customer_not_found"}]
    /\ busy \in [Sockets -> BOOLEAN]
    /\ rows \in [Sockets -> Nat]
    /\ turn \in [Messages ->
        [on : Sockets \cup {NoSocket},
         stage : {"unsent", "sent", "done"} \cup Running,
         tool : Tools \cup {"none"}, left : 0..MaxActivities, audit : 0..BatchSize,
         reply : {"none", "answered"} \cup ErrorCodes]]

RouteInit ==
    /\ ready = [s \in Sockets |-> "none"]
    /\ link = [s \in Sockets |-> "none"]
    /\ toServer = [s \in Sockets |-> << >>]
    /\ toClient = [s \in Sockets |-> << >>]
    /\ session = [s \in Sockets |-> "none"]
    /\ busy = [s \in Sockets |-> FALSE]
    /\ rows = [s \in Sockets |-> 0]
    /\ turn = [m \in Messages |-> Unsent]

---------------------------------------------------------------------------
\* The connection.

\* toClient with the frames f sent on s: nothing is sent on a socket that is not open,
\* and a browser that is closing its end no longer listens.
Sent(s, f) ==
    IF link[s] = "open" /\ ready[s] \in {"connecting", "open"}
    THEN [toClient EXCEPT ![s] = @ \o f]
    ELSE toClient

\* The upgrade request of a socket is answered, or fails.
Accept(s) ==
    /\ ready[s] = "connecting" /\ link[s] = "none"
    /\ \/ link' = [link EXCEPT ![s] = "open"] /\ toClient' = [toClient EXCEPT ![s] = <<Open>>]
       \/ link' = [link EXCEPT ![s] = "closed"] /\ toClient' = [toClient EXCEPT ![s] = <<Close>>]
    /\ UNCHANGED <<ready, toServer, handler, turn>>

\* The connection breaks: what was on the way to the server is lost, and some of what was
\* on the way to the browser.
Cut(s) ==
    /\ link[s] \in {"open", "closing"}
    /\ \A i \in DOMAIN toClient[s] : toClient[s][i] # Close
    /\ ready[s] # "closed"
    /\ \E n \in 0..Len(toClient[s]) :
         toClient' = [toClient EXCEPT ![s] = Append(SubSeq(@, 1, n), Close)]
    /\ link' = [link EXCEPT ![s] = "closed"]
    /\ toServer' = [toServer EXCEPT ![s] = << >>]
    /\ UNCHANGED <<ready, handler, turn>>

\* The browser's close arrives, and is answered unless it is itself the answer.
HearClose(s) ==
    /\ toServer[s] # << >> /\ Head(toServer[s]) = CloseFrame
    /\ link' = [link EXCEPT ![s] = "closed"]
    /\ toServer' = [toServer EXCEPT ![s] = << >>]
    /\ toClient' = IF link[s] = "open" THEN [toClient EXCEPT ![s] = Append(@, Close)] ELSE toClient
    /\ UNCHANGED <<ready, handler, turn>>

---------------------------------------------------------------------------
\* A message arrives.

Received(s, m) ==
    /\ toServer[s] # << >> /\ Head(toServer[s]) = m
    /\ toServer' = [toServer EXCEPT ![s] = Tail(@)]

Refuse(s, m) ==
    /\ Received(s, m)
    /\ busy[s]
    /\ turn' = [turn EXCEPT ![m].stage = "done", ![m].reply = "busy"]
    /\ toClient' = Sent(s, <<Error(m, "busy")>>)
    /\ UNCHANGED <<ready, link, handler>>

\* The customer is unknown: an error, and the socket is closed (once).
TurnAway(s, m) ==
    /\ turn' = [turn EXCEPT ![m].stage = "done", ![m].reply = "customer_not_found"]
    /\ toClient' = Sent(s, <<Error(m, "customer_not_found"), Close>>)
    /\ link' = [link EXCEPT ![s] = IF @ = "open" THEN "closing" ELSE @]
    /\ busy' = [busy EXCEPT ![s] = FALSE]

\* Mutated form of Begin: the busy flag is not looked at.
BeginAlways(s, m) ==
    /\ Received(s, m)
    /\ session[s] # "customer_not_found"
    /\ busy' = [busy EXCEPT ![s] = TRUE]
    /\ turn' = [turn EXCEPT ![m].stage =
                  IF session[s] = "created" THEN "graph" ELSE "findCustomer"]
    /\ UNCHANGED <<toClient, link, ready, session, rows>>

\* Mutated form of Begin: a session for every message.
BeginAnew(s, m) ==
    /\ Received(s, m)
    /\ ~busy[s]
    /\ session[s] # "customer_not_found"
    /\ busy' = [busy EXCEPT ![s] = TRUE]
    /\ turn' = [turn EXCEPT ![m].stage = "findCustomer"]
    /\ UNCHANGED <<toClient, link, ready, session, rows>>

\* getSession: a settled promise is used again, else a session is created.
Begin(s, m) ==
    /\ Received(s, m)
    /\ ~busy[s]
    /\ \/ /\ session[s] = "customer_not_found"
          /\ TurnAway(s, m)
       \/ /\ session[s] # "customer_not_found"
          /\ busy' = [busy EXCEPT ![s] = TRUE]
          /\ turn' = [turn EXCEPT ![m].stage =
                        IF session[s] = "created" THEN "graph" ELSE "findCustomer"]
          /\ UNCHANGED <<toClient, link>>
    /\ UNCHANGED <<ready, session, rows>>

---------------------------------------------------------------------------
\* createChatSession: two statements, no transaction.

\* A statement fails or times out: the promise is dropped and the turn ends.
SessionError(m) ==
    LET s == turn[m].on IN
    /\ turn' = [turn EXCEPT ![m].stage = "done", ![m].reply = "session_error"]
    /\ toClient' = Sent(s, <<Error(m, "session_error")>>)
    /\ busy' = [busy EXCEPT ![s] = FALSE]
    /\ UNCHANGED <<ready, link, toServer, session>>

FindCustomer(m) ==
    LET s == turn[m].on IN
    /\ turn[m].stage = "findCustomer"
    /\ \/ SessionError(m)
       \/ /\ session' = [session EXCEPT ![s] = "customer_not_found"]
          /\ TurnAway(s, m)
          /\ UNCHANGED <<ready, toServer>>
       \/ /\ turn' = [turn EXCEPT ![m].stage = "insertConversation"]
          /\ UNCHANGED <<wire, session, busy>>
    /\ UNCHANGED rows

\* The row may be there although the statement failed: a time-out does not cancel it.
InsertConversation(m) ==
    LET s == turn[m].on IN
    /\ turn[m].stage = "insertConversation"
    /\ \/ /\ SessionError(m)
          /\ \E n \in {0, 1} : rows' = [rows EXCEPT ![s] = @ + n]
       \/ /\ rows' = [rows EXCEPT ![s] = @ + 1]
          /\ session' = [session EXCEPT ![s] = "created"]
          /\ turn' = [turn EXCEPT ![m].stage = "graph"]
          /\ UNCHANGED <<wire, busy>>

---------------------------------------------------------------------------
\* The graph, as the sink hears it.

\* Mutated form of Batched: the activity is let in while there is any room.
BatchedAny(a, n) == IF a < BatchSize THEN a + n ELSE a

\* The records of an activity enter the batch whole or not at all.
Batched(a, n) == IF n <= BatchSize - a THEN a + n ELSE a

\* The sink: a frame, and n audit records.
Hear(m, frame, n) ==
    /\ toClient' = Sent(turn[m].on, <<frame>>)
    /\ turn' = [turn EXCEPT ![m] = [turn[m] EXCEPT
                  !.audit = Batched(@, n),
                  !.left = IF frame.state \in {"info", "started"} THEN @ - 1 ELSE @,
                  !.tool = IF frame.state = "started" THEN frame.name ELSE "none",
                  !.stage = IF frame.state = "failed" THEN "throwing" ELSE @]]
    /\ UNCHANGED <<ready, link, toServer, handler>>

InGraph(m) == turn[m].stage = "graph"
Idle(m) == InGraph(m) /\ turn[m].tool = "none"

\* A status leaves a record; a guardrail decision only if it is not plain consent.
Report(m) ==
    /\ Idle(m) /\ turn[m].left > 0
    /\ \E x \in Reports, n \in {0, 1} :
         /\ x \in AgentStatuses => n = 1
         /\ Hear(m, Activity(m, x, "info"), n)

StartTool(m) ==
    /\ Idle(m) /\ turn[m].left > 0
    /\ \E t \in Tools : Hear(m, Activity(m, t, "started"), 1)

\* A tool that threw ends the graph.  A placed order leaves two records.
EndTool(m) ==
    LET t == turn[m].tool IN
    /\ InGraph(m) /\ t # "none"
    /\ \/ \E n \in {1, 2} : (n = 2 => t = "createOrder") /\ Hear(m, Activity(m, t, "completed"), n)
       \/ Hear(m, Activity(m, t, "failed"), 1)

\* The reply is sent, then the batch is written if there is one; only then is the socket free.
Reply(m, reply, frame) ==
    LET s == turn[m].on
        batch == turn[m].audit > 0 IN
    /\ toClient' = Sent(s, <<frame>>)
    /\ turn' = [turn EXCEPT ![m].reply = reply, ![m].stage = IF batch THEN "audit" ELSE "done"]
    /\ busy' = [busy EXCEPT ![s] = batch]
    /\ UNCHANGED <<ready, link, toServer, session, rows>>

EndGraph(m) ==
    \/ Idle(m) /\ Reply(m, "answered", Answer(m))
    \/ Idle(m) /\ Reply(m, "no_assistant_response", Error(m, "no_assistant_response"))
    \/ (Idle(m) \/ turn[m].stage = "throwing") /\ Reply(m, "graph_error", Error(m, "graph_error"))

\* persistAgentEvents succeeds or fails; either way the turn is over.
Persist(m) ==
    /\ turn[m].stage = "audit"
    /\ turn' = [turn EXCEPT ![m].stage = "done"]
    /\ busy' = [busy EXCEPT ![turn[m].on] = FALSE]
    /\ UNCHANGED <<wire, session, rows>>

Arrive(s) == \E m \in Messages : Refuse(s, m) \/ Begin(s, m)
TurnStep(m) ==
    \/ FindCustomer(m) \/ InsertConversation(m)
    \/ Report(m) \/ StartTool(m) \/ EndTool(m) \/ EndGraph(m) \/ Persist(m)

---------------------------------------------------------------------------
\* One handler never runs two turns at once, whatever the browser sends and however turns
\* end (the busy flag, chat.ts:130-155 and 228).
OneTurnAtATime ==
    \A s \in Sockets :
        LET under == {m \in Messages : turn[m].on = s /\ turn[m].stage \in Running} IN
        Cardinality(under) <= 1 /\ (busy[s] <=> under # {})

\* A socket's messages go to one conversation: beyond it there are only rows of attempts
\* that were answered with session_error (getSession, chat.ts:132-141).
OneConversation ==
    \A s \in Sockets :
        rows[s] <= Cardinality({m \in Messages : turn[m].on = s /\ turn[m].reply = "session_error"})
                   + (IF session[s] = "created" THEN 1 ELSE 0)
=============================================================================

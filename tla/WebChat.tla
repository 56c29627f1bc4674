------------------------------ MODULE WebChat ------------------------------
(* The browser's end of the chat, apps/web: the state and the event handlers  *)
(* of App.tsx, and what chat.ts makes of the server's frames; together with   *)
(* ChatRoute, the chat from the customer's keyboard to the graph and back.    *)
EXTENDS ChatRoute, FiniteSetsExt

VARIABLES
    persona,    \* whether a persona is selected
    current,    \* socketRef
    connection, \* connectionState
    pending,    \* waiting for an answer: nothing can be sent
    turnId,     \* currentTurnIdRef
    transcript, \* messages: who wrote, and which message it is or answers
    activity,   \* the panel of the agent's activity
    misread     \* history: a frame of this conversation was rejected

shown == <<connection, pending, turnId, transcript, activity, misread>>
browser == <<persona, current, shown>>
vars == <<wire, handler, turn, browser>>

\* What the browser knows the names of.
PublicToolNames ==
    {"searchProducts", "getAvailability", "findAlternatives", "getApplicablePromotion",
     "getDeliveryOptions", "createCart", "addCartItem", "createOrder"}
GuardrailCategories ==
    {"ambiguous_product", "stock_unverified", "promotion_unverified", "delivery_unverified",
     "unsupported_restock", "automation_limit", "unverifiable_result"}

\* parseServerFrame: whether a frame is not null after parsing.
Understood(frame) ==
    frame.kind = "activity" => frame.name \in AgentStatuses \cup PublicToolNames \cup GuardrailCategories

Item(frame) ==
    [turnId |-> turnId, of |-> frame.of, name |-> frame.name,
     state |-> IF frame.state = "started" THEN "running" ELSE frame.state]

TypeOK ==
    /\ RouteTypeOK
    /\ persona \in BOOLEAN
    /\ current \in Sockets \cup {NoSocket}
    /\ connection \in {"idle", "connecting", "open", "closed"}
    /\ pending \in BOOLEAN
    /\ turnId \in 0..MaxMessages
    /\ transcript \in Seq([role : {"customer", "assistant"}, of : Messages])
    /\ activity \in Seq([turnId : 1..MaxMessages, of : Messages, name : Tools \cup Reports,
                         state : {"info", "running", "completed", "failed"}])
    /\ misread \in BOOLEAN

Init ==
    /\ RouteInit
    /\ persona = FALSE
    /\ current = NoSocket
    /\ connection = "idle"
    /\ pending = FALSE
    /\ turnId = 0
    /\ transcript = << >>
    /\ activity = << >>
    /\ misread = FALSE

\* socketGenerationRef changes only together with socketRef, so one of them is enough.
IsCurrentSocket(s) == current = s

---------------------------------------------------------------------------
\* What the customer does.

\* retireActiveSocket: the readyStates after it, and the close it puts on the wire.  The
\* browser forgets the frames that have not been delivered.
IsLive == current # NoSocket /\ ready[current] \in {"connecting", "open"}
RetiredReady == IF IsLive THEN [ready EXCEPT ![current] = "closing"] ELSE ready
RetireWire ==
    IF ~IsLive THEN UNCHANGED <<link, toServer, toClient>>
    ELSE /\ link' = [link EXCEPT ![current] = IF @ = "none" THEN "closed" ELSE @]
         /\ toServer' = IF link[current] \in {"open", "closing"}
                        THEN [toServer EXCEPT ![current] = Append(@, CloseFrame)] ELSE toServer
         /\ toClient' = [toClient EXCEPT ![current] =
              IF link[current] = "none" \/ \E i \in DOMAIN @ : @[i] = Close THEN <<Close>> ELSE << >>]

\* Mutated form of ClearConversation: the transcript is kept.
ClearAllButTranscript ==
    /\ UNCHANGED transcript
    /\ pending' = FALSE
    /\ activity' = << >>
    /\ turnId' = 0
    /\ misread' = FALSE

ClearConversation ==
    /\ transcript' = << >>
    /\ pending' = FALSE
    /\ activity' = << >>
    /\ turnId' = 0
    /\ misread' = FALSE

HandlePersonaChange ==
    /\ RetireWire
    /\ ready' = RetiredReady
    /\ ClearConversation
    /\ persona' \in BOOLEAN
    /\ current' = NoSocket
    /\ connection' = "idle"
    /\ UNCHANGED <<handler, turn>>

\* The button is disabled while a connection is being opened.  The WebSocket's constructor may
\* throw (a bad VITE_WS_URL).
StartConversation ==
    /\ persona
    /\ connection # "connecting"
    /\ RetireWire
    /\ ClearConversation
    /\ \/ \E s \in Sockets :
            /\ ready[s] = "none"
            /\ \A r \in Sockets : r < s => ready[r] # "none"
            /\ ready' = [RetiredReady EXCEPT ![s] = "connecting"]
            /\ current' = s
            /\ connection' = "connecting"
       \/ /\ ready' = RetiredReady
          /\ current' = NoSocket
          /\ connection' = "closed"
    /\ UNCHANGED <<handler, turn, persona>>

\* send() throws on a connecting socket only, so it does not throw here.
SendDraft ==
    \E m \in Messages :
        /\ turn[m] = Unsent
        /\ \A n \in Messages : n < m => turn[n] # Unsent
        /\ current # NoSocket /\ ready[current] = "open" /\ ~pending
        /\ transcript' = Append(transcript, [role |-> "customer", of |-> m])
        /\ pending' = TRUE
        /\ turnId' = turnId + 1
        /\ turn' = [turn EXCEPT ![m].on = current, ![m].stage = "sent"]
        /\ toServer' = IF link[current] = "closed" THEN toServer
                       ELSE [toServer EXCEPT ![current] = Append(@, m)]
        /\ UNCHANGED <<ready, link, toClient, handler, persona, current, connection,
                       activity, misread>>

---------------------------------------------------------------------------
\* Events of a WebSocket.

\* Mutated form of ApplyActivityFrame: every end is an item of its own.
AppendActivityFrame(items, frame) == Append(items, Item(frame))

\* applyActivityFrame: the end of a tool updates its last running item of this turn.
ApplyActivityFrame(items, frame) ==
    LET item == Item(frame)
        started == {i \in DOMAIN items :
            items[i].name = item.name /\ items[i].turnId = item.turnId /\ items[i].state = "running"}
    IN IF item.state \in {"completed", "failed"} /\ started # {}
       THEN [items EXCEPT ![Max(started)].state = item.state]
       ELSE Append(items, item)

OnOpen(s) ==
    /\ toClient[s] # << >> /\ Head(toClient[s]) = Open
    /\ toClient' = [toClient EXCEPT ![s] = Tail(@)]
    /\ ready' = [ready EXCEPT ![s] = "open"]
    /\ connection' = IF IsCurrentSocket(s) THEN "open" ELSE connection
    /\ UNCHANGED <<link, toServer, handler, turn, persona, current, pending, turnId, transcript,
                   activity, misread>>

\* Mutated form of KeepsPending: every error leaves the wait to the answer.
KeepsPendingOnErrors(frame) == Understood(frame) /\ frame.kind # "agent.message"

\* Frames after which the customer goes on waiting: activity, and a refusal as busy.
KeepsPending(frame) ==
    /\ Understood(frame)
    /\ frame.kind = "activity" \/ frame.name = "busy"

\* Mutated form of TranscriptAfter: an answer is shown only while one is waited for.
TranscriptIfPending(frame) ==
    IF frame.kind = "agent.message" /\ pending
    THEN Append(transcript, [role |-> "assistant", of |-> frame.of])
    ELSE transcript

\* The transcript after a frame.
TranscriptAfter(frame) ==
    IF frame.kind = "agent.message"
    THEN Append(transcript, [role |-> "assistant", of |-> frame.of])
    ELSE transcript

\* onmessage on the current socket.
Show(frame) ==
    /\ pending' = (pending /\ KeepsPending(frame))
    /\ misread' = (misread \/ ~Understood(frame))
    /\ transcript' = TranscriptAfter(frame)
    /\ activity' = IF frame.kind = "activity" /\ Understood(frame) /\ turnId # 0
                   THEN ApplyActivityFrame(activity, frame) ELSE activity
    /\ UNCHANGED <<connection, turnId>>

OnMessage(s) ==
    /\ ready[s] = "open"
    /\ toClient[s] # << >> /\ Head(toClient[s]) # Close
    /\ toClient' = [toClient EXCEPT ![s] = Tail(@)]
    /\ IF IsCurrentSocket(s) THEN Show(Head(toClient[s])) ELSE UNCHANGED shown
    /\ UNCHANGED <<ready, link, toServer, handler, turn, persona, current>>

\* Mutated form of OnClose: a socket that was retired closes the conversation that replaced it.
OnCloseOfAny(s) ==
    /\ toClient[s] # << >> /\ Head(toClient[s]) = Close
    /\ toClient' = [toClient EXCEPT ![s] = << >>]
    /\ ready' = [ready EXCEPT ![s] = "closed"]
    /\ toServer' = IF link[s] = "closing" /\ ready[s] = "open"
                   THEN [toServer EXCEPT ![s] = Append(@, CloseFrame)] ELSE toServer
    /\ current' = NoSocket
    /\ connection' = "closed"
    /\ pending' = FALSE
    /\ UNCHANGED <<link, handler, turn, persona, turnId, transcript, activity, misread>>

\* onclose, after onerror if the connection failed: together they do what onclose does.
OnClose(s) ==
    /\ toClient[s] # << >> /\ Head(toClient[s]) = Close
    /\ toClient' = [toClient EXCEPT ![s] = << >>]
    /\ ready' = [ready EXCEPT ![s] = "closed"]
    /\ toServer' = IF link[s] = "closing" /\ ready[s] = "open"
                   THEN [toServer EXCEPT ![s] = Append(@, CloseFrame)] ELSE toServer
    /\ IF IsCurrentSocket(s)
       THEN /\ current' = NoSocket
            /\ connection' = "closed"
            /\ pending' = FALSE
       ELSE UNCHANGED <<current, connection, pending>>
    /\ UNCHANGED <<link, handler, turn, persona, turnId, transcript, activity, misread>>

---------------------------------------------------------------------------
\* What the connection, the server and the browser do of their own accord.
Server ==
    /\ \/ \E s \in Sockets : Accept(s) \/ HearClose(s) \/ Arrive(s)
       \/ \E m \in Messages : TurnStep(m)
    /\ UNCHANGED browser

Browser == \E s \in Sockets : OnOpen(s) \/ OnMessage(s) \/ OnClose(s)

Next ==
    \/ Server \/ Browser
    \/ HandlePersonaChange \/ StartConversation \/ SendDraft
    \/ \E s \in Sockets : Cut(s) /\ UNCHANGED browser

Spec == Init /\ [][Next]_vars

\* What is on the wire arrives (or the connection is cut), events are handled, statements
\* have time-outs and a turn ends (AgentGraph!TurnEnds): all of it together never stands
\* still while something is left to do.  The customer may do nothing, and nothing need break.
Fairness == WF_vars(Server \/ Browser)

FairSpec == Spec /\ Fairness

---------------------------------------------------------------------------
\* Properties.

Asked == {transcript[i].of : i \in {j \in DOMAIN transcript : transcript[j].role = "customer"}}

\* Each answer on the screen stands directly under the message it answers, and it is the only
\* one - as long as every frame was understood: a rejected frame frees the composer in the
\* middle of a turn (App.tsx:116-120).  At any rate its message is above it.
AnswersFollow ==
    \A i \in DOMAIN transcript : transcript[i].role = "assistant" =>
        LET of == transcript[i].of IN
        /\ \E j \in 1..(i - 1) : transcript[j] = [role |-> "customer", of |-> of]
        /\ \A j \in 1..(i - 1) : transcript[j] # transcript[i]
        /\ ~misread => transcript[i - 1] = [role |-> "customer", of |-> of]

\* The panel files an activity under the turn it belongs to, and when the customer may write
\* again no tool is shown as running (applyActivityFrame and the turn counter), as long as
\* every frame was understood.
PanelIsTrue ==
    ~misread =>
        /\ \A i \in DOMAIN activity :
             activity[i].turnId = Cardinality({m \in Asked : m <= activity[i].of})
        /\ connection = "open" /\ ~pending =>
             \A i \in DOMAIN activity : activity[i].state # "running"

\* A screen that says it is not connected has no connection left open: a retired socket never
\* takes down the conversation that replaced it (isCurrentSocket, App.tsx:98-156).
NoHiddenSocket ==
    \A s \in Sockets : ready[s] \in {"connecting", "open"} =>
        current = s /\ connection = ready[s]

\* An answer is never lost on a connection that holds: it is on the screen or on its way.
NoAnswerLost ==
    \A m \in Messages :
        (/\ turn[m].reply = "answered" /\ turn[m].on = current
         /\ ready[current] = "open" /\ link[current] = "open")
        => \/ \E i \in DOMAIN transcript : transcript[i] = [role |-> "assistant", of |-> m]
           \/ \E i \in DOMAIN toClient[current] : toClient[current][i] = Answer(m)

\* The customer can write again after every message, but for one: a message that was refused as
\* busy may block the composer for good (App.tsx:134).
PendingEnds ==
    pending ~> \/ ~pending
               \/ \E m \in Asked : turn[m].reply = "busy" /\ \A n \in Asked : n <= m
=============================================================================

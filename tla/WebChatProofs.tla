---------------------------- MODULE WebChatProofs ----------------------------
(***************************************************************************)
(* The chat from the keyboard to the graph and back, for any number of     *)
(* WebSockets, messages, activities, tools and any size of the batch.      *)
(***************************************************************************)
EXTENDS WebChat, FiniteSetTheorems, SequenceTheorems, TLAPS

-----------------------------------------------------------------------------
\* The server

Unreplied == {"unsent", "sent", "findCustomer", "insertConversation", "graph", "throwing"}

TurnShape ==
    \A m \in Messages :
        /\ turn[m].stage = "unsent" => turn[m] = Unsent
        /\ turn[m].stage # "unsent" => turn[m].on \in Sockets /\ ready[turn[m].on] \notin {"none", "connecting"}
        /\ turn[m].reply = "none" <=> turn[m].stage \in Unreplied
        /\ turn[m].tool # "none" => turn[m].stage = "graph"

\* Messages are sent in the order of their numbers.
SentInOrder == \A m, n \in Messages : turn[m].stage = "unsent" /\ m < n => turn[n].stage = "unsent"

\* What is on the way to the server was sent there, once.
OnTheWay ==
    \A s \in Sockets : \A i \in DOMAIN toServer[s] : toServer[s][i] # CloseFrame =>
        /\ turn[toServer[s][i]].on = s /\ turn[toServer[s][i]].stage = "sent"
        /\ \A j \in DOMAIN toServer[s] : toServer[s][j] = toServer[s][i] => j = i

At(m, s) == turn[m].on = s /\ turn[m].stage \in Running
BusyWithOne ==
    \A s \in Sockets :
        /\ \A m, n \in Messages : At(m, s) /\ At(n, s) => m = n
        /\ busy[s] = TRUE <=> \E m \in Messages : At(m, s)

SessionOnce ==
    \A m \in Messages :
        turn[m].stage \in {"findCustomer", "insertConversation"} => session[turn[m].on] = "none"

-----------------------------------------------------------------------------
\* The connection

Ends(frame) == frame.kind \in {"agent.message", "agent.error"}
OfTurn(frame) == frame.kind \notin {"open", "close"}

\* A socket in the browser opens once and closes last; a retired one has nothing to say but that.
ConnectedAt(s) ==
    /\ ready[s] = "none" => link[s] = "none" /\ toClient[s] = << >>
    /\ link[s] = "none" => toClient[s] = << >> \/ toClient[s] = <<Close>>
    /\ link[s] = "none" /\ ready[s] = "connecting" => toClient[s] = << >>
    /\ ready[s] = "open" => link[s] # "none"
    /\ ready[s] \in {"connecting", "open"} /\ link[s] \in {"closing", "closed"} =>
          toClient[s] # << >> /\ toClient[s][Len(toClient[s])] = Close
    /\ \A i \in DOMAIN toClient[s] : toClient[s][i] = Open => i = 1 /\ ready[s] = "connecting"
    /\ \A i \in DOMAIN toClient[s] : toClient[s][i] = Close => i = Len(toClient[s]) /\ link[s] # "open"
    /\ s # current => /\ ready[s] \notin {"connecting", "open"}
                      /\ \A i \in DOMAIN toClient[s] : toClient[s][i] = Close

\* The browser says that it closes when it does.
ClosingAt(s) ==
    \A i \in DOMAIN toServer[s] : toServer[s][i] = CloseFrame => ready[s] \in {"closing", "closed"}

Connections == \A s \in Sockets : ConnectedAt(s) /\ ClosingAt(s)

CurrentShown ==
    IF current = NoSocket
    THEN connection \in {"idle", "closed"}
    ELSE connection \in {"connecting", "open"} /\ ready[current] = connection

\* Frames of a turn come from its socket, and its answer or error is the last of them.
FramesOfTurns ==
    \A s \in Sockets : \A i \in DOMAIN toClient[s] : OfTurn(toClient[s][i]) =>
        LET m == toClient[s][i].of IN
        /\ m \in Messages /\ turn[m].on = s
        /\ Ends(toClient[s][i]) => /\ turn[m].reply # "none"
                                   /\ \A j \in DOMAIN toClient[s] : j > i => toClient[s][j].of # m
        /\ toClient[s][i].kind = "agent.message" => turn[m].reply = "answered"

-----------------------------------------------------------------------------
\* The screen

Said(i, role, m) == transcript[i] = [role |-> role, of |-> m]
Answered(m) == \E i \in DOMAIN transcript : Said(i, "assistant", m)

Screen ==
    /\ turnId = Cardinality(Asked)
    /\ \A m \in Asked : turn[m].stage # "unsent"
    /\ current # NoSocket => \A m \in Messages : turn[m].on = current <=> m \in Asked
    /\ \A m \in Messages : Answered(m) =>
          /\ m \in Asked /\ turn[m].reply = "answered"
          /\ \A s \in Sockets : \A i \in DOMAIN toClient[s] : toClient[s][i].of # m
    /\ \A m \in Messages, i \in DOMAIN activity : activity[i].of = m => turn[m].stage # "unsent"

\* The message the customer sent last.
Latest(m) == m \in Asked /\ \A n \in Asked : n <= m

\* Who waits, waits for the last message: all the others have had their answer or error.
OnlyTheLatest ==
    ~misread /\ current # NoSocket =>
        /\ \A i \in DOMAIN toClient[current] :
              OfTurn(toClient[current][i]) => pending = TRUE /\ Latest(toClient[current][i].of)
        /\ \A m \in Messages : turn[m].on = current /\ turn[m].reply = "none" => pending = TRUE /\ Latest(m)
        /\ pending = TRUE =>
              /\ transcript # << >>
              /\ \E m \in Messages : Said(Len(transcript), "customer", m) /\ Latest(m)

Finishes(frame, name) == (frame.name = name /\ frame.state \in {"completed", "failed"}) \/ frame = Close

\* At most one tool is shown as running, and its end is the next that arrives.
OneToolRuns ==
    ~misread /\ current # NoSocket =>
        LET frames == toClient[current] IN
        /\ \A i \in DOMAIN activity : activity[i].state = "running" =>
              /\ Latest(activity[i].of) /\ activity[i].turnId = turnId /\ pending = TRUE
              /\ \A j \in DOMAIN activity : activity[j].state = "running" => j = i
              /\ IF frames = << >> THEN turn[activity[i].of].tool = activity[i].name
                                   ELSE Finishes(frames[1], activity[i].name)
        /\ \A i \in DOMAIN frames : frames[i].state = "started" =>
              IF i = Len(frames) THEN turn[frames[i].of].tool = frames[i].name
                                 ELSE Finishes(frames[i + 1], frames[i].name)

Filed ==
    ~misread => \A i \in DOMAIN activity :
        activity[i].turnId = Cardinality({m \in Asked : m <= activity[i].of})

IInv ==
    /\ TypeOK
    /\ TurnShape /\ SentInOrder /\ OnTheWay /\ BusyWithOne /\ SessionOnce /\ OneConversation
    /\ Connections /\ CurrentShown /\ FramesOfTurns
    /\ Screen /\ AnswersFollow /\ OnlyTheLatest /\ OneToolRuns /\ Filed /\ NoAnswerLost

-----------------------------------------------------------------------------
\* Frames

Turn == [on : Sockets \cup {NoSocket},
         stage : {"unsent", "sent", "done"} \cup Running,
         tool : Tools \cup {"none"}, left : 0..MaxActivities, audit : 0..BatchSize,
         reply : {"none", "answered"} \cup ErrorCodes]

WireTypes ==
    /\ ready \in [Sockets -> {"none", "connecting", "open", "closing", "closed"}]
    /\ link \in [Sockets -> {"none", "open", "closing", "closed"}]
    /\ toServer \in [Sockets -> Seq(Messages \cup {CloseFrame})]
    /\ toClient \in [Sockets -> Seq(Frames)]

HandlerTypes ==
    /\ session \in [Sockets -> {"none", "created", "customer_not_found"}]
    /\ busy \in [Sockets -> BOOLEAN]
    /\ rows \in [Sockets -> Nat]

Line == [role : {"customer", "assistant"}, of : Messages]
Panel == [turnId : 1..MaxMessages, of : Messages, name : Tools \cup Reports,
          state : {"info", "running", "completed", "failed"}]

ScreenTypes ==
    /\ persona \in BOOLEAN
    /\ current \in Sockets \cup {NoSocket}
    /\ connection \in {"idle", "connecting", "open", "closed"}
    /\ pending \in BOOLEAN
    /\ turnId \in 0..MaxMessages
    /\ transcript \in Seq(Line)
    /\ activity \in Seq(Panel)
    /\ misread \in BOOLEAN

LEMMA TypesByPart == TypeOK <=> WireTypes /\ HandlerTypes /\ turn \in [Messages -> Turn] /\ ScreenTypes
  BY DEF TypeOK, RouteTypeOK, WireTypes, HandlerTypes, ScreenTypes, Turn, Line, Panel

LEMMA Numbers ==
    /\ 0 \notin Sockets /\ 0 \notin Messages /\ Sockets \subseteq Nat /\ Messages \subseteq Nat
    /\ NoSocket \notin Sockets /\ CloseFrame \notin Messages
    /\ IsFiniteSet(Messages)
  BY FS_Interval, ChatAssumption DEF Sockets, Messages, NoSocket, CloseFrame

LEMMA OpenAndClose ==
    /\ Open = [kind |-> "open", of |-> 0, name |-> "none", state |-> "none"]
    /\ Close = [kind |-> "close", of |-> 0, name |-> "none", state |-> "none"]
    /\ Open \in Frames /\ Close \in Frames /\ Open # Close
  BY DEF Open, Close, Frames

LEMMA AnswerIs ==
    ASSUME NEW m \in Messages
    PROVE  /\ Answer(m) \in Frames
           /\ Answer(m).kind = "agent.message" /\ Answer(m).of = m /\ Answer(m).name = "none" /\ Answer(m).state = "none"
  <1>1. Answer(m) \in Frames
    BY DEF Frames
  <1>2. Answer(m).kind = "agent.message" /\ Answer(m).of = m /\ Answer(m).name = "none" /\ Answer(m).state = "none"
    BY DEF Answer, Open
  <1> QED
    BY <1>1, <1>2

LEMMA ErrorIs ==
    ASSUME NEW m \in Messages, NEW c \in ErrorCodes
    PROVE  /\ Error(m, c) \in Frames
           /\ Error(m, c).kind = "agent.error" /\ Error(m, c).of = m /\ Error(m, c).name = c /\ Error(m, c).state = "none"
  <1>1. Error(m, c) \in Frames
    BY DEF Frames
  <1>2. Error(m, c).kind = "agent.error" /\ Error(m, c).of = m /\ Error(m, c).name = c /\ Error(m, c).state = "none"
    BY DEF Error, Open
  <1> QED
    BY <1>1, <1>2

LEMMA FrameShape ==
    ASSUME NEW f \in Frames
    PROVE  \/ f = Open \/ f = Close
           \/ \E m \in Messages : f = Answer(m)
           \/ \E m \in Messages, c \in ErrorCodes : f = Error(m, c)
           \/ \E m \in Messages, n \in Reports : f = Activity(m, n, "info")
           \/ \E m \in Messages, t \in Tools, x \in {"started", "completed", "failed"} : f = Activity(m, t, x)
  BY DEF Frames

LEMMA FrameKinds ==
    ASSUME NEW f \in Frames
    PROVE  /\ OfTurn(f) => f.of \in Messages
           /\ ~OfTurn(f) => (f = Open \/ f = Close) /\ f.of = 0 /\ f.state = "none"
           /\ f.kind = "agent.message" => f = Answer(f.of)
           /\ Ends(f) => OfTurn(f) /\ f.state = "none"
           /\ f.kind = "activity" => /\ f.name \in Tools \cup Reports
                                     /\ f.state \in {"info", "started", "completed", "failed"}
           /\ f.kind \in {"open", "close", "agent.message", "agent.error", "activity"}
           /\ f = Close => f.kind = "close"
  <1>1. CASE f = Open \/ f = Close
    BY <1>1, OpenAndClose DEF OfTurn, Ends
  <1>2. ASSUME NEW m \in Messages, f = Answer(m) PROVE f.of = m /\ f.kind = "agent.message" /\ f.state = "none"
    BY <1>2, AnswerIs
  <1>3. ASSUME NEW m \in Messages, NEW c \in ErrorCodes, f = Error(m, c)
        PROVE  f.of = m /\ f.kind = "agent.error" /\ f.state = "none"
    BY <1>3, ErrorIs
  <1>4. ASSUME NEW m \in Messages, NEW n \in Reports, f = Activity(m, n, "info")
        PROVE  f.of = m /\ f.kind = "activity" /\ f.name = n /\ f.state = "info"
    BY <1>4 DEF Activity
  <1>5. ASSUME NEW m \in Messages, NEW t \in Tools, NEW x \in {"started", "completed", "failed"},
               f = Activity(m, t, x)
        PROVE  f.of = m /\ f.kind = "activity" /\ f.name = t /\ f.state = x
    BY <1>5 DEF Activity
  <1>6. CASE \E m \in Messages : f = Answer(m)
    BY <1>2, <1>6, OpenAndClose DEF OfTurn, Ends
  <1>7. CASE \E m \in Messages, c \in ErrorCodes : f = Error(m, c)
    BY <1>3, <1>7, OpenAndClose DEF OfTurn, Ends
  <1>8. CASE \E m \in Messages, n \in Reports : f = Activity(m, n, "info")
    BY <1>4, <1>8, OpenAndClose DEF OfTurn, Ends
  <1>9. CASE \E m \in Messages, t \in Tools, x \in {"started", "completed", "failed"} : f = Activity(m, t, x)
    BY <1>5, <1>9, OpenAndClose DEF OfTurn, Ends
  <1> QED
    BY <1>1, <1>6, <1>7, <1>8, <1>9, FrameShape

-----------------------------------------------------------------------------
\* What a step of the server is to the browser

\* Only turn m moves.
Moves(m) ==
    /\ UNCHANGED <<ready, browser>>
    /\ turn' \in [Messages -> Turn]
    /\ \A n \in Messages : n # m => turn'[n] = turn[n]
    /\ turn[m].stage # "unsent" /\ turn'[m].stage \notin {"unsent", "sent"}
    /\ turn'[m].on = turn[m].on
    /\ turn'[m].reply = "none" <=> turn'[m].stage \in Unreplied
    /\ turn'[m].tool # "none" => turn'[m].stage = "graph"

\* Nothing is said, ...
Silently(m) ==
    /\ Moves(m)
    /\ UNCHANGED <<toClient, link>>
    /\ turn'[m].reply = turn[m].reply
    /\ turn'[m].tool = "none" /\ turn[m].tool = "none"

\* ... the sink reports an activity, ...
Tells(m, f) ==
    /\ Moves(m)
    /\ toClient' = Sent(turn[m].on, <<f>>) /\ UNCHANGED link
    /\ f \in Frames /\ f.kind = "activity" /\ f.of = m
    /\ turn[m].reply = "none" /\ turn'[m].reply = "none"
    /\ \/ f.state = "info" /\ turn[m].tool = "none" /\ turn'[m].tool = "none"
       \/ f.state = "started" /\ turn[m].tool = "none" /\ turn'[m].tool = f.name
       \/ f.state \in {"completed", "failed"} /\ turn[m].tool = f.name /\ turn'[m].tool = "none"

\* ... or the message has its answer, and the customer who is unknown is shown the door.
Concludes(m, f) ==
    /\ Moves(m)
    /\ f \in Frames /\ Ends(f) /\ f.of = m
    /\ turn[m].reply = "none" /\ turn'[m].reply # "none"
    /\ turn[m].tool = "none" /\ turn'[m].tool = "none"
    /\ turn'[m].reply = "answered" <=> f = Answer(m)
    /\ \/ toClient' = Sent(turn[m].on, <<f>>) /\ UNCHANGED link
       \/ /\ toClient' = Sent(turn[m].on, <<f, Close>>)
          /\ link' = [link EXCEPT ![turn[m].on] = IF @ = "open" THEN "closing" ELSE @]

Serves(m) ==
    Silently(m) \/ \E f \in Frames : Tells(m, f) \/ Concludes(m, f)

\* The turn ends with an error that is not the graph's.
LEMMA Refused ==
    ASSUME IInv, NEW m \in Messages, NEW c \in ErrorCodes \ {"graph_error", "no_assistant_response"},
           turn[m].stage \in {"sent", "findCustomer", "insertConversation"},
           turn' = [turn EXCEPT ![m].stage = "done", ![m].reply = c],
           UNCHANGED <<ready, browser>>,
           \/ toClient' = Sent(turn[m].on, <<Error(m, c)>>) /\ UNCHANGED link
           \/ /\ toClient' = Sent(turn[m].on, <<Error(m, c), Close>>)
              /\ link' = [link EXCEPT ![turn[m].on] = IF @ = "open" THEN "closing" ELSE @]
    PROVE  \E f \in Frames : Concludes(m, f)
  <1>1. turn \in [Messages -> Turn]
    BY TypesByPart DEF IInv
  <1>2. Error(m, c) \in Frames /\ Error(m, c).kind = "agent.error" /\ Error(m, c).of = m
    BY ErrorIs
  <1>3. Error(m, c) # Answer(m) /\ c \notin {"none", "answered"}
    BY <1>2, AnswerIs DEF ErrorCodes
  <1>4. turn[m].tool = "none" /\ turn[m].reply = "none"
    BY DEF IInv, TurnShape, Unreplied
  <1>5. /\ turn'[m].stage = "done" /\ turn'[m].reply = c
        /\ turn'[m].on = turn[m].on /\ turn'[m].tool = "none"
    BY <1>1, <1>4 DEF Turn
  <1>6. turn' \in [Messages -> Turn]
    <2>1. [turn[m] EXCEPT !.stage = "done", !.reply = c] \in Turn
      <3>1. turn[m] \in Turn /\ c \in ErrorCodes
        BY <1>1
      <3> QED
        BY <3>1 DEF Turn
    <2>2. turn' = [turn EXCEPT ![m] = [turn[m] EXCEPT !.stage = "done", !.reply = c]]
      BY <1>1
    <2> HIDE DEF Turn
    <2> QED
      BY <1>1, <2>1, <2>2
  <1>7. Moves(m)
    BY <1>1, <1>3, <1>5, <1>6 DEF Moves, Unreplied
  <1> QED
    BY <1>2, <1>3, <1>4, <1>5, <1>7 DEF Concludes, Ends

\* The turn goes on to a step of its own.
LEMMA WentOn ==
    ASSUME IInv, NEW m \in Messages, NEW stage \in {"findCustomer", "insertConversation", "graph"},
           turn[m].stage \in {"sent", "findCustomer", "insertConversation"},
           turn' = [turn EXCEPT ![m].stage = stage],
           UNCHANGED <<ready, browser, toClient, link>>
    PROVE  Silently(m)
  <1>1. turn \in [Messages -> Turn]
    BY TypesByPart DEF IInv
  <1>2. turn[m].tool = "none" /\ turn[m].reply = "none"
    BY DEF IInv, TurnShape, Unreplied
  <1>3. /\ turn'[m].stage = stage /\ turn'[m].reply = turn[m].reply
        /\ turn'[m].on = turn[m].on /\ turn'[m].tool = turn[m].tool
    BY <1>1 DEF Turn
  <1>4. turn' \in [Messages -> Turn]
    BY <1>1 DEF Turn, Running
  <1> QED
    BY <1>1, <1>2, <1>3, <1>4 DEF Silently, Moves, Unreplied

LEMMA ReceivedIs ==
    ASSUME IInv, NEW s \in Sockets, NEW m \in Messages, Received(s, m)
    PROVE  turn[m].on = s /\ turn[m].stage = "sent" /\ turn[m].reply = "none"
  <1>1. toServer[s] \in Seq(Messages \cup {CloseFrame})
    BY DEF IInv, TypeOK, RouteTypeOK
  <1>2. 1 \in DOMAIN toServer[s] /\ toServer[s][1] = m
    BY <1>1 DEF Received
  <1> QED
    BY <1>2, Numbers DEF IInv, OnTheWay, TurnShape, Unreplied

LEMMA SomeCodes ==
    {"busy", "customer_not_found", "session_error"} \subseteq ErrorCodes \ {"graph_error", "no_assistant_response"}
  BY DEF ErrorCodes

LEMMA RefuseServes ==
    ASSUME IInv, NEW s \in Sockets, NEW m \in Messages, Refuse(s, m), UNCHANGED browser
    PROVE  Serves(m)
  <1>1. turn[m].on = s /\ turn[m].stage = "sent"
    BY ReceivedIs DEF Refuse
  <1>2. PICK c \in ErrorCodes \ {"graph_error", "no_assistant_response"} : c = "busy"
    BY SomeCodes
  <1>3. turn' = [turn EXCEPT ![m].stage = "done", ![m].reply = c]
    BY <1>2 DEF Refuse
  <1>4. toClient' = Sent(turn[m].on, <<Error(m, c)>>) /\ UNCHANGED link /\ UNCHANGED <<ready, browser>>
    BY <1>1, <1>2 DEF Refuse
  <1>5. \E f \in Frames : Concludes(m, f)
    BY <1>1, <1>3, <1>4, Refused
  <1> QED
    BY <1>5 DEF Serves

LEMMA TurnAwayServes ==
    ASSUME IInv, NEW m \in Messages, turn[m].stage \in {"sent", "findCustomer", "insertConversation"},
           TurnAway(turn[m].on, m), UNCHANGED <<ready, browser>>
    PROVE  Serves(m)
  <1>1. PICK c \in ErrorCodes \ {"graph_error", "no_assistant_response"} : c = "customer_not_found"
    BY SomeCodes
  <1>2. turn' = [turn EXCEPT ![m].stage = "done", ![m].reply = c]
    BY <1>1 DEF TurnAway
  <1>3. /\ toClient' = Sent(turn[m].on, <<Error(m, c), Close>>)
        /\ link' = [link EXCEPT ![turn[m].on] = IF @ = "open" THEN "closing" ELSE @]
    BY <1>1 DEF TurnAway
  <1>4. \E f \in Frames : Concludes(m, f)
    BY <1>2, <1>3, Refused
  <1> QED
    BY <1>4 DEF Serves

LEMMA BeginServes ==
    ASSUME IInv, NEW s \in Sockets, NEW m \in Messages, Begin(s, m), UNCHANGED browser
    PROVE  Serves(m)
  <1>1. turn[m].on = s /\ turn[m].stage = "sent" /\ UNCHANGED ready
    BY ReceivedIs DEF Begin
  <1>2. CASE TurnAway(s, m)
    BY <1>1, <1>2, TurnAwayServes
  <1>3. CASE ~TurnAway(s, m)
    <2>1. PICK stage \in {"findCustomer", "insertConversation", "graph"} :
              stage = IF session[s] = "created" THEN "graph" ELSE "findCustomer"
      OBVIOUS
    <2>2. turn' = [turn EXCEPT ![m].stage = stage] /\ UNCHANGED <<toClient, link>>
      BY <1>3, <2>1 DEF Begin
    <2>3. Silently(m)
      BY <1>1, <2>2, WentOn
    <2> QED
      BY <2>3 DEF Serves
  <1> QED
    BY <1>2, <1>3

LEMMA SessionServes ==
    ASSUME IInv, NEW m \in Messages, FindCustomer(m) \/ InsertConversation(m), UNCHANGED browser
    PROVE  Serves(m)
  <1>1. turn[m].stage \in {"sent", "findCustomer", "insertConversation"}
    BY DEF FindCustomer, InsertConversation
  <1>2. CASE SessionError(m)
    <2>1. PICK c \in ErrorCodes \ {"graph_error", "no_assistant_response"} : c = "session_error"
      BY SomeCodes
    <2>2. turn' = [turn EXCEPT ![m].stage = "done", ![m].reply = c]
      BY <1>2, <2>1 DEF SessionError
    <2>3. toClient' = Sent(turn[m].on, <<Error(m, c)>>) /\ UNCHANGED link /\ UNCHANGED <<ready, browser>>
      BY <1>2, <2>1 DEF SessionError
    <2>4. \E f \in Frames : Concludes(m, f)
      BY <1>1, <2>2, <2>3, Refused
    <2> QED
      BY <2>4 DEF Serves
  <1>3. CASE TurnAway(turn[m].on, m) /\ UNCHANGED ready
    BY <1>1, <1>3, TurnAwayServes
  <1>4. ASSUME NEW stage \in {"insertConversation", "graph"},
               turn' = [turn EXCEPT ![m].stage = stage], UNCHANGED wire
        PROVE  Serves(m)
    <2>1. UNCHANGED <<ready, browser, toClient, link>>
      BY <1>4 DEF wire
    <2>2. Silently(m)
      BY <1>1, <1>4, <2>1, WentOn
    <2> QED
      BY <2>2 DEF Serves
  <1>5. CASE turn' = [turn EXCEPT ![m].stage = "insertConversation"] /\ UNCHANGED wire
    BY <1>4, <1>5
  <1>6. CASE turn' = [turn EXCEPT ![m].stage = "graph"] /\ UNCHANGED wire
    BY <1>4, <1>6
  <1> QED
    BY <1>2, <1>3, <1>5, <1>6 DEF FindCustomer, InsertConversation

LEMMA BatchedFits ==
    ASSUME NEW a \in 0..BatchSize, NEW n \in Nat
    PROVE  Batched(a, n) \in 0..BatchSize
  BY ChatAssumption DEF Batched

LEMMA ActivityIs ==
    ASSUME NEW m \in Messages, NEW name, NEW state
    PROVE  /\ Activity(m, name, state).kind = "activity" /\ Activity(m, name, state).of = m
           /\ Activity(m, name, state).name = name /\ Activity(m, name, state).state = state
  BY DEF Activity

\* What the sink hears.
LEMMA HearTells ==
    ASSUME IInv, NEW m \in Messages, NEW f \in Frames, NEW n \in Nat, Hear(m, f, n), UNCHANGED browser,
           f.kind = "activity", f.of = m, turn[m].stage = "graph",
           \/ f.state = "info" /\ turn[m].tool = "none" /\ turn[m].left > 0
           \/ f.state = "started" /\ f.name \in Tools /\ turn[m].tool = "none" /\ turn[m].left > 0
           \/ f.state \in {"completed", "failed"} /\ turn[m].tool = f.name
    PROVE  Tells(m, f)
  <1>1. turn \in [Messages -> Turn] /\ turn[m] \in Turn
    BY TypesByPart DEF IInv
  <1>2. turn[m].reply = "none"
    BY DEF IInv, TurnShape, Unreplied
  <1>3. turn[m].left \in 0..MaxActivities /\ turn[m].audit \in 0..BatchSize /\ MaxActivities \in Nat
    BY <1>1, ChatAssumption DEF Turn
  <1>4. PICK left, audit, tool, stage :
          /\ left = IF f.state \in {"info", "started"} THEN turn[m].left - 1 ELSE turn[m].left
          /\ audit = Batched(turn[m].audit, n)
          /\ tool = IF f.state = "started" THEN f.name ELSE "none"
          /\ stage = IF f.state = "failed" THEN "throwing" ELSE turn[m].stage
    OBVIOUS
  <1>5. left \in 0..MaxActivities
    BY <1>3, <1>4
  <1>6. audit \in 0..BatchSize
    BY <1>3, <1>4, BatchedFits
  <1>7. tool \in Tools \cup {"none"} /\ stage \in {"graph", "throwing"}
    BY <1>4
  <1>8. turn' = [turn EXCEPT ![m] = [turn[m] EXCEPT !.audit = audit, !.left = left, !.tool = tool, !.stage = stage]]
    BY <1>4 DEF Hear
  <1>9. /\ turn'[m].on = turn[m].on /\ turn'[m].reply = "none"
        /\ turn'[m].tool = tool /\ turn'[m].stage = stage
    BY <1>1, <1>2, <1>8 DEF Turn
  <1>10. turn' \in [Messages -> Turn]
    BY <1>1, <1>5, <1>6, <1>7, <1>8 DEF Turn, Running
  <1>11. \A k \in Messages : k # m => turn'[k] = turn[k]
    BY <1>1, <1>8
  <1>12. UNCHANGED <<ready, link>> /\ toClient' = Sent(turn[m].on, <<f>>)
    BY DEF Hear
  <1>13. Moves(m)
    <2>1. turn'[m].tool # "none" => turn'[m].stage = "graph"
      BY <1>4, <1>9
    <2> QED
      BY <1>7, <1>9, <1>10, <1>11, <1>12, <2>1 DEF Moves, Unreplied
  <1> QED
    BY <1>2, <1>4, <1>9, <1>12, <1>13 DEF Tells

LEMMA ActivityFrames ==
    ASSUME NEW m \in Messages
    PROVE  /\ \A x \in Reports : Activity(m, x, "info") \in Frames
           /\ \A t \in Tools : /\ Activity(m, t, "started") \in Frames
                               /\ Activity(m, t, "completed") \in Frames /\ Activity(m, t, "failed") \in Frames
  BY DEF Frames

LEMMA GraphServes ==
    ASSUME IInv, NEW m \in Messages, Report(m) \/ StartTool(m) \/ EndTool(m), UNCHANGED browser
    PROVE  Serves(m)
  <1>1. turn[m] \in Turn
    BY TypesByPart DEF IInv
  <1>2. CASE Report(m)
    <2>1. PICK x \in Reports, n \in {0, 1} : Hear(m, Activity(m, x, "info"), n)
      BY <1>2 DEF Report
    <2>2. Activity(m, x, "info") \in Frames
      BY ActivityFrames
    <2>3. PICK f \in Frames : f = Activity(m, x, "info")
      BY <2>2
    <2>4. f.kind = "activity" /\ f.of = m /\ f.state = "info"
      BY <2>3, ActivityIs
    <2>5. turn[m].stage = "graph" /\ turn[m].tool = "none" /\ turn[m].left > 0 /\ n \in Nat
      BY <1>2 DEF Report, Idle, InGraph
    <2>6. Hear(m, f, n)
      BY <2>1, <2>3
    <2>7. Tells(m, f)
      BY <2>4, <2>5, <2>6, HearTells
    <2> QED
      BY <2>7 DEF Serves
  <1>3. CASE StartTool(m)
    <2>1. PICK t \in Tools : Hear(m, Activity(m, t, "started"), 1)
      BY <1>3 DEF StartTool
    <2>2. Activity(m, t, "started") \in Frames
      BY ActivityFrames
    <2>3. PICK f \in Frames : f = Activity(m, t, "started")
      BY <2>2
    <2>4. f.kind = "activity" /\ f.of = m /\ f.state = "started" /\ f.name \in Tools
      BY <2>3, ActivityIs
    <2>5. turn[m].stage = "graph" /\ turn[m].tool = "none" /\ turn[m].left > 0
      BY <1>3 DEF StartTool, Idle, InGraph
    <2>6. Hear(m, f, 1) /\ 1 \in Nat
      BY <2>1, <2>3
    <2>7. Tells(m, f)
      BY <2>4, <2>5, <2>6, HearTells
    <2> QED
      BY <2>7 DEF Serves
  <1>4. CASE EndTool(m)
    <2>1. PICK t : t = turn[m].tool
      OBVIOUS
    <2>2. t \in Tools /\ turn[m].stage = "graph"
      BY <1>1, <1>4, <2>1 DEF EndTool, InGraph, Turn
    <2>3. PICK state \in {"completed", "failed"}, n \in {1, 2} : Hear(m, Activity(m, t, state), n)
      BY <1>4, <2>1 DEF EndTool
    <2>4. Activity(m, t, state) \in Frames
      BY <2>2, ActivityFrames
    <2>5. PICK f \in Frames : f = Activity(m, t, state)
      BY <2>4
    <2>6. f.kind = "activity" /\ f.of = m /\ f.state = state /\ f.name = t
      BY <2>5, ActivityIs
    <2>7. Hear(m, f, n) /\ n \in Nat
      BY <2>3, <2>5
    <2>8. Tells(m, f)
      BY <2>1, <2>2, <2>6, <2>7, HearTells
    <2> QED
      BY <2>8 DEF Serves
  <1> QED
    BY <1>2, <1>3, <1>4

LEMMA ReplyConcludes ==
    ASSUME IInv, NEW m \in Messages, NEW f \in Frames,
           NEW reply \in {"answered", "no_assistant_response", "graph_error"},
           Reply(m, reply, f), UNCHANGED browser,
           Idle(m) \/ turn[m].stage = "throwing",
           Ends(f), f.of = m, reply = "answered" <=> f = Answer(m)
    PROVE  Concludes(m, f)
  <1>1. turn \in [Messages -> Turn] /\ turn[m] \in Turn
    BY TypesByPart DEF IInv
  <1>2. turn[m].stage \in {"graph", "throwing"} /\ turn[m].tool = "none" /\ turn[m].reply = "none"
    BY DEF Idle, InGraph, IInv, TurnShape, Unreplied
  <1>3. PICK stage \in {"audit", "done"} : stage = IF turn[m].audit > 0 THEN "audit" ELSE "done"
    OBVIOUS
  <1>4. turn' = [turn EXCEPT ![m].reply = reply, ![m].stage = stage]
    BY <1>3 DEF Reply
  <1>5. /\ turn'[m].on = turn[m].on /\ turn'[m].tool = "none" /\ turn'[m].reply = reply
        /\ turn'[m].stage = stage
    BY <1>1, <1>2, <1>4 DEF Turn
  <1>6. turn' \in [Messages -> Turn]
    <2>1. reply \in {"none", "answered"} \cup ErrorCodes /\ stage \in {"unsent", "sent", "done"} \cup Running
      BY DEF Running, ErrorCodes
    <2>2. [turn[m] EXCEPT !.reply = reply, !.stage = stage] \in Turn
      BY <1>1, <2>1 DEF Turn
    <2>3. turn' = [turn EXCEPT ![m] = [turn[m] EXCEPT !.reply = reply, !.stage = stage]]
      BY <1>4
    <2> QED
      BY <1>1, <2>2, <2>3
  <1>7. \A k \in Messages : k # m => turn'[k] = turn[k]
    BY <1>1, <1>4
  <1>8. UNCHANGED <<ready, link>> /\ toClient' = Sent(turn[m].on, <<f>>)
    BY DEF Reply
  <1>9. Moves(m)
    BY <1>2, <1>5, <1>6, <1>7, <1>8 DEF Moves, Unreplied
  <1> QED
    BY <1>2, <1>5, <1>8, <1>9 DEF Concludes

LEMMA EndServes ==
    ASSUME IInv, NEW m \in Messages, EndGraph(m) \/ Persist(m), UNCHANGED browser
    PROVE  Serves(m)
  <1>1. turn \in [Messages -> Turn] /\ turn[m] \in Turn
    BY TypesByPart DEF IInv
  <1>2. CASE Idle(m) /\ Reply(m, "answered", Answer(m))
    <2>1. Answer(m) \in Frames /\ Ends(Answer(m)) /\ Answer(m).of = m
      BY AnswerIs DEF Ends
    <2>2. Concludes(m, Answer(m))
      BY <1>2, <2>1, ReplyConcludes
    <2> QED
      BY <2>1, <2>2 DEF Serves
  <1>3. ASSUME NEW c \in {"no_assistant_response", "graph_error"}, Reply(m, c, Error(m, c)),
               Idle(m) \/ turn[m].stage = "throwing"
        PROVE  Serves(m)
    <2>1. c \in ErrorCodes
      BY DEF ErrorCodes
    <2>2. Error(m, c) \in Frames /\ Ends(Error(m, c)) /\ Error(m, c).of = m
      BY <2>1, ErrorIs DEF Ends
    <2>3. Error(m, c) # Answer(m)
      BY <2>1, ErrorIs, AnswerIs
    <2>4. Concludes(m, Error(m, c))
      BY <1>3, <2>2, <2>3, ReplyConcludes
    <2> QED
      BY <2>2, <2>4 DEF Serves
  <1>4. CASE Persist(m)
    <2>1. turn' = [turn EXCEPT ![m].stage = "done"] /\ UNCHANGED <<ready, link, toClient>>
      BY <1>4 DEF Persist, wire
    <2>2. turn[m].stage = "audit" /\ turn[m].tool = "none" /\ turn[m].reply # "none"
      BY <1>4 DEF Persist, IInv, TurnShape, Unreplied
    <2>3. /\ turn'[m].on = turn[m].on /\ turn'[m].tool = "none" /\ turn'[m].reply = turn[m].reply
          /\ turn'[m].stage = "done"
      BY <1>1, <2>1, <2>2 DEF Turn
    <2>4. turn' \in [Messages -> Turn]
      BY <1>1, <2>1 DEF Turn
    <2>5. Silently(m)
      BY <1>1, <2>1, <2>2, <2>3, <2>4 DEF Silently, Moves, Unreplied
    <2> QED
      BY <2>5 DEF Serves
  <1> QED
    BY <1>2, <1>3, <1>4 DEF EndGraph

\* The steps of the server, seen from the browser.
LEMMA ServerServes ==
    ASSUME IInv, NEW m \in Messages,
           TurnStep(m) \/ (\E s \in Sockets : Refuse(s, m) \/ Begin(s, m)), UNCHANGED browser
    PROVE  Serves(m)
  BY RefuseServes, BeginServes, SessionServes, GraphServes, EndServes DEF TurnStep

-----------------------------------------------------------------------------
\* Sequences, element by element

LEMMA TailOf ==
    ASSUME NEW S, NEW q \in Seq(S), q # << >>
    PROVE  /\ Tail(q) \in Seq(S) /\ Len(q) \in Nat \ {0} /\ Len(Tail(q)) = Len(q) - 1
           /\ 1 \in DOMAIN q /\ q[1] = Head(q) /\ Head(q) \in S
           /\ DOMAIN Tail(q) = 1..(Len(q) - 1) /\ DOMAIN q = 1..Len(q)
           /\ \A i \in DOMAIN Tail(q) : i + 1 \in DOMAIN q /\ Tail(q)[i] = q[i + 1]
  OBVIOUS

LEMMA AppendOf ==
    ASSUME NEW S, NEW q \in Seq(S), NEW e \in S
    PROVE  /\ Append(q, e) \in Seq(S) /\ Len(q) \in Nat /\ Len(Append(q, e)) = Len(q) + 1
           /\ DOMAIN Append(q, e) = 1..(Len(q) + 1) /\ DOMAIN q = 1..Len(q)
           /\ \A i \in 1..Len(q) : Append(q, e)[i] = q[i]
           /\ Append(q, e)[Len(q) + 1] = e
           /\ Append(q, e) # << >>
  OBVIOUS

LEMMA PrefixOf ==
    ASSUME NEW S, NEW q \in Seq(S), NEW e \in S, NEW n \in 0..Len(q)
    PROVE  LET p == Append(SubSeq(q, 1, n), e) IN
           /\ p \in Seq(S) /\ Len(p) = n + 1 /\ DOMAIN p = 1..(n + 1) /\ DOMAIN q = 1..Len(q)
           /\ \A i \in 1..n : p[i] = q[i]
           /\ p[n + 1] = e
  <1> DEFINE b == SubSeq(q, 1, n)
  <1>1. Len(q) \in Nat /\ \A i \in 1..n : q[i] \in S
    BY LenProperties, ElementOfSeq
  <1>2. b \in Seq(S) /\ Len(b) = n
    BY <1>1, SubSeqProperties
  <1>3. \A i \in 1..n : b[i] = q[i]
    BY <1>1, SubSeqProperties
  <1> HIDE DEF b
  <1>4. /\ Append(b, e) \in Seq(S) /\ Len(Append(b, e)) = n + 1
        /\ DOMAIN Append(b, e) = 1..(n + 1)
        /\ \A i \in 1..n : Append(b, e)[i] = q[i]
        /\ Append(b, e)[n + 1] = e
    BY <1>1, <1>2, <1>3, AppendOf
  <1>5. DOMAIN q = 1..Len(q)
    OBVIOUS
  <1> QED
    BY <1>4, <1>5 DEF b

-----------------------------------------------------------------------------
\* Frames sent

IsShown(s) == ready[s] \in {"connecting", "open"}

Appended(s, fs) ==
    /\ \A r \in Sockets : r # s => toClient'[r] = toClient[r]
    /\ Len(toClient[s]) \in Nat /\ DOMAIN toClient[s] = 1..Len(toClient[s])
    /\ Len(toClient'[s]) = Len(toClient[s]) + Len(fs)
    /\ DOMAIN toClient'[s] = 1..(Len(toClient[s]) + Len(fs))
    /\ \A i \in 1..Len(toClient[s]) : toClient'[s][i] = toClient[s][i]
    /\ \A i \in 1..Len(fs) : toClient'[s][Len(toClient[s]) + i] = fs[i]

LEMMA Sending ==
    ASSUME WireTypes, NEW s \in Sockets, NEW fs \in Seq(Frames), toClient' = Sent(s, fs)
    PROVE  /\ toClient' \in [Sockets -> Seq(Frames)]
           /\ \/ ~(link[s] = "open" /\ IsShown(s)) /\ toClient' = toClient
              \/ link[s] = "open" /\ IsShown(s) /\ Appended(s, fs)
  <1>1. toClient \in [Sockets -> Seq(Frames)] /\ toClient[s] \in Seq(Frames)
    BY DEF WireTypes
  <1>2. /\ toClient[s] \o fs \in Seq(Frames)
        /\ Len(toClient[s] \o fs) = Len(toClient[s]) + Len(fs)
        /\ Len(toClient[s]) \in Nat /\ Len(fs) \in Nat
        /\ DOMAIN (toClient[s] \o fs) = 1..(Len(toClient[s]) + Len(fs))
    BY <1>1, ConcatProperties, LenProperties
  <1>3. \A i \in 1..Len(toClient[s]) : (toClient[s] \o fs)[i] = toClient[s][i]
    BY <1>1, <1>2, ConcatProperties
  <1>4. \A i \in 1..Len(fs) : (toClient[s] \o fs)[Len(toClient[s]) + i] = fs[i]
    BY <1>1, <1>2, ConcatProperties
  <1>5. CASE link[s] = "open" /\ IsShown(s)
    <2>1. toClient' = [toClient EXCEPT ![s] = toClient[s] \o fs]
      BY <1>5 DEF Sent, IsShown
    <2>2. PICK q \in Seq(Frames) : q = toClient[s] \o fs
      BY <1>2
    <2>3. toClient' = [toClient EXCEPT ![s] = q]
      BY <2>1, <2>2
    <2>4. toClient'[s] = q /\ \A r \in Sockets : r # s => toClient'[r] = toClient[r]
      BY <1>1, <2>3
    <2>5. toClient' \in [Sockets -> Seq(Frames)]
      BY <1>1, <2>3
    <2>6. DOMAIN toClient[s] = 1..Len(toClient[s])
      BY <1>1, LenProperties
    <2>7. Appended(s, fs)
      BY <1>2, <1>3, <1>4, <2>2, <2>4, <2>6 DEF Appended
    <2> QED
      BY <1>5, <2>5, <2>7
  <1>6. CASE ~(link[s] = "open" /\ IsShown(s))
    BY <1>1, <1>6 DEF Sent, IsShown
  <1> QED
    BY <1>5, <1>6

\* A socket that is shown and open has not been closed.
LEMMA NoCloseYet ==
    ASSUME IInv, NEW s \in Sockets, link[s] = "open"
    PROVE  \A i \in DOMAIN toClient[s] : toClient[s][i] # Close
  BY DEF IInv, Connections, ConnectedAt, ClosingAt

LEMMA Typed ==
    ASSUME IInv
    PROVE  /\ WireTypes /\ HandlerTypes /\ ScreenTypes
           /\ turn \in [Messages -> Turn] /\ \A m \in Messages : turn[m] \in Turn
           /\ \A s \in Sockets : /\ toClient[s] \in Seq(Frames) /\ Len(toClient[s]) \in Nat
                                 /\ DOMAIN toClient[s] = 1..Len(toClient[s])
                                 /\ \A i \in DOMAIN toClient[s] : toClient[s][i] \in Frames
                                 /\ toServer[s] \in Seq(Messages \cup {CloseFrame})
           /\ \A m \in Messages : turn[m].stage # "unsent" => turn[m].on \in Sockets
  <1>1. WireTypes /\ HandlerTypes /\ ScreenTypes /\ turn \in [Messages -> Turn]
    BY TypesByPart DEF IInv
  <1>2. \A s \in Sockets : toClient[s] \in Seq(Frames) /\ toServer[s] \in Seq(Messages \cup {CloseFrame})
    BY <1>1 DEF WireTypes
  <1>3. \A s \in Sockets : /\ Len(toClient[s]) \in Nat
                           /\ DOMAIN toClient[s] = 1..Len(toClient[s])
                           /\ \A i \in DOMAIN toClient[s] : toClient[s][i] \in Frames
    BY <1>2, LenProperties, ElementOfSeq
  <1>4. \A m \in Messages : turn[m].stage # "unsent" => turn[m].on \in Sockets
    BY DEF IInv, TurnShape
  <1> QED
    BY <1>1, <1>2, <1>3, <1>4

\* What a served turn sends to the browser.
Unheard(m) == toClient' = toClient /\ ~(link[turn[m].on] = "open" /\ IsShown(turn[m].on))
HeardOnly(m, fs) ==
    link[turn[m].on] = "open" /\ IsShown(turn[m].on) /\ Appended(turn[m].on, fs)

LEMMA ServeSends ==
    ASSUME IInv, NEW m \in Messages, NEW f \in Frames, Tells(m, f) \/ Concludes(m, f)
    PROVE  /\ toClient' \in [Sockets -> Seq(Frames)]
           /\ link' \in [Sockets -> {"none", "open", "closing", "closed"}]
           /\ \A r \in Sockets : r # turn[m].on => link'[r] = link[r]
           /\ turn[m].on \in Sockets
           /\ \/ Unheard(m) /\ (link'[turn[m].on] = link[turn[m].on] \/ (link[turn[m].on] = "open" /\ link'[turn[m].on] = "closing"))
              \/ HeardOnly(m, <<f>>) /\ UNCHANGED link
              \/ /\ HeardOnly(m, <<f, Close>>) /\ link'[turn[m].on] = "closing" /\ Concludes(m, f)
  <1>1. turn[m].on \in Sockets /\ WireTypes
    BY Typed DEF Tells, Concludes, Moves
  <1>2. <<f>> \in Seq(Frames) /\ <<f, Close>> \in Seq(Frames)
    BY OpenAndClose
  <1>3. CASE toClient' = Sent(turn[m].on, <<f>>) /\ UNCHANGED link
    BY <1>1, <1>2, <1>3, Sending DEF Unheard, HeardOnly, WireTypes
  <1>4. CASE /\ Concludes(m, f)
             /\ toClient' = Sent(turn[m].on, <<f, Close>>)
             /\ link' = [link EXCEPT ![turn[m].on] = IF @ = "open" THEN "closing" ELSE @]
    <2>1. link' \in [Sockets -> {"none", "open", "closing", "closed"}]
      BY <1>1, <1>4 DEF WireTypes
    <2>2. \A r \in Sockets : r # turn[m].on => link'[r] = link[r]
      BY <1>1, <1>4 DEF WireTypes
    <2>3. link'[turn[m].on] = IF link[turn[m].on] = "open" THEN "closing" ELSE link[turn[m].on]
      BY <1>1, <1>4 DEF WireTypes
    <2> QED
      BY <1>1, <1>2, <1>4, <2>1, <2>2, <2>3, Sending DEF Unheard, HeardOnly
  <1> QED
    BY <1>3, <1>4 DEF Tells, Concludes

-----------------------------------------------------------------------------
\* Types

LEMMA ServeTypes ==
    ASSUME IInv, NEW m \in Messages, Serves(m),
           toServer' \in [Sockets -> Seq(Messages \cup {CloseFrame})], HandlerTypes'
    PROVE  TypeOK'
  <1>1. Moves(m)
    BY DEF Serves, Silently, Tells, Concludes
  <1>2. toClient' \in [Sockets -> Seq(Frames)] /\ link' \in [Sockets -> {"none", "open", "closing", "closed"}]
    <2>1. CASE Silently(m)
      BY <2>1, Typed DEF Silently, WireTypes
    <2>2. CASE ~Silently(m)
      BY <2>2, ServeSends DEF Serves
    <2> QED
      BY <2>1, <2>2
  <1>3. WireTypes' /\ ScreenTypes' /\ turn' \in [Messages -> Turn]
    BY <1>1, <1>2, Typed DEF Moves, WireTypes, ScreenTypes, browser, shown
  <1> QED
    <2>1. WireTypes' /\ HandlerTypes' /\ turn' \in [Messages -> Turn] /\ ScreenTypes'
      BY <1>3
    <2> QED
      BY <2>1 DEF TypeOK, RouteTypeOK, WireTypes, HandlerTypes, ScreenTypes, Turn, Line, Panel

LEMMA ReceivedTypes ==
    ASSUME IInv, NEW s \in Sockets, NEW m \in Messages, Received(s, m)
    PROVE  toServer' \in [Sockets -> Seq(Messages \cup {CloseFrame})]
  <1>1. Tail(toServer[s]) \in Seq(Messages \cup {CloseFrame})
    BY Typed, TailOf DEF Received
  <1> QED
    BY <1>1, Typed DEF Received, WireTypes

LEMMA ArriveTypes ==
    ASSUME IInv, NEW s \in Sockets, NEW m \in Messages, Refuse(s, m) \/ Begin(s, m), UNCHANGED browser
    PROVE  TypeOK'
  <1>1. toServer' \in [Sockets -> Seq(Messages \cup {CloseFrame})]
    BY ReceivedTypes DEF Refuse, Begin
  <1>2. HandlerTypes'
    BY Typed DEF Refuse, Begin, TurnAway, handler, HandlerTypes
  <1> QED
    BY <1>1, <1>2, ServerServes, ServeTypes

LEMMA TurnStepTypes ==
    ASSUME IInv, NEW m \in Messages, TurnStep(m), UNCHANGED browser
    PROVE  TypeOK'
  <1>0. HandlerTypes /\ WireTypes
    BY Typed
  <1>1. UNCHANGED toServer
    BY DEF TurnStep, FindCustomer, InsertConversation, SessionError, TurnAway, Report, StartTool, EndTool,
           Hear, EndGraph, Reply, Persist, wire
  <1>2. HandlerTypes'
    <2>1. CASE FindCustomer(m)
      BY <2>1, <1>0 DEF FindCustomer, SessionError, TurnAway, HandlerTypes
    <2>2. CASE InsertConversation(m)
      <3>1. turn[m].on \in Sockets
        BY <2>2, Typed DEF InsertConversation
      <3>2. PICK n \in {0, 1} : rows' = [rows EXCEPT ![turn[m].on] = @ + n]
        BY <2>2 DEF InsertConversation
      <3>3. rows' \in [Sockets -> Nat]
        BY <1>0, <3>1, <3>2 DEF HandlerTypes
      <3> QED
        BY <2>2, <3>3, <1>0 DEF InsertConversation, SessionError, HandlerTypes
    <2>3. CASE Report(m) \/ StartTool(m) \/ EndTool(m)
      BY <2>3, <1>0 DEF Report, StartTool, EndTool, Hear, handler, HandlerTypes
    <2>4. CASE EndGraph(m)
      <3>1. UNCHANGED <<session, rows>>
        BY <2>4 DEF EndGraph, Reply
      <3>2. busy' = [busy EXCEPT ![turn[m].on] = turn[m].audit > 0]
        BY <2>4 DEF EndGraph, Reply
      <3>3. (turn[m].audit > 0) \in BOOLEAN
        OBVIOUS
      <3>4. PICK b \in BOOLEAN : b = (turn[m].audit > 0)
        BY <3>3
      <3>5. busy' = [busy EXCEPT ![turn[m].on] = b]
        BY <3>2, <3>4
      <3>6. busy' \in [Sockets -> BOOLEAN]
        BY <3>5, <1>0 DEF HandlerTypes
      <3> QED
        BY <3>1, <3>6, <1>0 DEF HandlerTypes
    <2>5. CASE Persist(m)
      BY <2>5, <1>0 DEF Persist, HandlerTypes
    <2> QED
      BY <2>1, <2>2, <2>3, <2>4, <2>5 DEF TurnStep
  <1> QED
    BY <1>0, <1>1, <1>2, ServerServes, ServeTypes DEF WireTypes

-----------------------------------------------------------------------------
\* What the connection does

\* The frames of s are cut off after n of them, and the close follows.
CutAt(s, n) ==
    /\ link'[s] = "closed"
    /\ n \in 0..Len(toClient[s])
    /\ DOMAIN toClient'[s] = 1..(n + 1) /\ Len(toClient'[s]) = n + 1
    /\ \A i \in 1..n : toClient'[s][i] = toClient[s][i]
    /\ \A i \in 1..n : toClient[s][i] # Close
    /\ toClient'[s][n + 1] = Close

Opened(s) ==
    /\ link[s] = "none" /\ ready[s] = "connecting" /\ link'[s] = "open"
    /\ toClient[s] = << >> /\ toClient'[s] = <<Open>>

LinkFrame(s) ==
    /\ UNCHANGED <<ready, turn, handler>>
    /\ \A r \in Sockets : r # s => toClient'[r] = toClient[r] /\ link'[r] = link[r] /\ toServer'[r] = toServer[r]
    /\ toServer'[s] = toServer[s] \/ toServer'[s] = << >>
    /\ WireTypes'

Links(s) ==
    /\ LinkFrame(s)
    /\ \/ Opened(s)
       \/ \E n \in Nat : CutAt(s, n) /\ (link[s] # "none" \/ ready[s] = "connecting")
       \/ toClient' = toClient /\ link'[s] = "closed" /\ ready[s] \in {"closing", "closed"}

LEMMA AcceptLinks ==
    ASSUME IInv, NEW s \in Sockets, Accept(s)
    PROVE  Links(s)
  <1>0. WireTypes /\ toClient[s] = << >>
    BY Typed DEF IInv, Connections, ConnectedAt, ClosingAt, Accept
  <1>1. <<Open>> \in Seq(Frames) /\ <<Close>> \in Seq(Frames)
    BY OpenAndClose
  <1>2. CASE link' = [link EXCEPT ![s] = "open"] /\ toClient' = [toClient EXCEPT ![s] = <<Open>>]
    <2>1. link'[s] = "open" /\ toClient'[s] = <<Open>>
      BY <1>0, <1>2 DEF WireTypes
    <2>2. LinkFrame(s)
      BY <1>0, <1>1, <1>2 DEF WireTypes, Accept, LinkFrame
    <2> QED
      BY <1>0, <2>1, <2>2 DEF Accept, Links, Opened
  <1>3. CASE link' = [link EXCEPT ![s] = "closed"] /\ toClient' = [toClient EXCEPT ![s] = <<Close>>]
    <2>1. link'[s] = "closed" /\ toClient'[s] = <<Close>>
      BY <1>0, <1>3 DEF WireTypes
    <2>2. LinkFrame(s)
      BY <1>0, <1>1, <1>3 DEF WireTypes, Accept, LinkFrame
    <2>3. CutAt(s, 0)
      BY <1>0, <2>1 DEF CutAt
    <2> QED
      BY <2>2, <2>3 DEF Accept, Links
  <1> QED
    BY <1>2, <1>3 DEF Accept

LEMMA CutLinks ==
    ASSUME IInv, NEW s \in Sockets, Cut(s)
    PROVE  Links(s)
  <1>0. WireTypes /\ toClient[s] \in Seq(Frames) /\ DOMAIN toClient[s] = 1..Len(toClient[s]) /\ Len(toClient[s]) \in Nat
    BY Typed
  <1>1. PICK n \in 0..Len(toClient[s]) : toClient' = [toClient EXCEPT ![s] = Append(SubSeq(toClient[s], 1, n), Close)]
    BY DEF Cut
  <1>2. PICK p : p = Append(SubSeq(toClient[s], 1, n), Close)
    OBVIOUS
  <1>3. /\ p \in Seq(Frames) /\ Len(p) = n + 1 /\ DOMAIN p = 1..(n + 1)
        /\ \A i \in 1..n : p[i] = toClient[s][i]
        /\ p[n + 1] = Close
    BY <1>0, <1>2, PrefixOf, OpenAndClose
  <1>4. toClient'[s] = p /\ \A r \in Sockets : r # s => toClient'[r] = toClient[r]
    BY <1>0, <1>1, <1>2 DEF WireTypes
  <1>5. toClient' \in [Sockets -> Seq(Frames)]
    BY <1>0, <1>1, <1>2, <1>3 DEF WireTypes
  <1>6. LinkFrame(s)
    BY <1>0, <1>4, <1>5 DEF WireTypes, Cut, LinkFrame
  <1>7. CutAt(s, n)
    <2>1. link'[s] = "closed"
      BY <1>0 DEF Cut, WireTypes
    <2>2. \A i \in 1..n : toClient[s][i] # Close
      BY <1>0 DEF Cut
    <2> QED
      BY <1>3, <1>4, <2>1, <2>2 DEF CutAt
  <1> QED
    BY <1>6, <1>7 DEF Cut, Links

LEMMA HearCloseLinks ==
    ASSUME IInv, NEW s \in Sockets, HearClose(s)
    PROVE  Links(s)
  <1>0. WireTypes /\ toClient[s] \in Seq(Frames) /\ DOMAIN toClient[s] = 1..Len(toClient[s]) /\ Len(toClient[s]) \in Nat
    BY Typed
  <1>1. ready[s] \in {"closing", "closed"}
    <2>1. 1 \in DOMAIN toServer[s] /\ toServer[s][1] = CloseFrame
      BY TailOf, Typed DEF HearClose
    <2> QED
      BY <2>1 DEF IInv, Connections, ConnectedAt, ClosingAt
  <1>2. CASE link[s] = "open"
    <2>1. PICK p : p = Append(toClient[s], Close)
      OBVIOUS
    <2>2. /\ p \in Seq(Frames) /\ Len(p) = Len(toClient[s]) + 1 /\ DOMAIN p = 1..(Len(toClient[s]) + 1)
          /\ \A i \in 1..Len(toClient[s]) : p[i] = toClient[s][i]
          /\ p[Len(toClient[s]) + 1] = Close
      BY <1>0, <2>1, AppendOf, OpenAndClose
    <2>3. toClient' = [toClient EXCEPT ![s] = p]
      BY <1>2, <2>1 DEF HearClose
    <2>4. toClient'[s] = p /\ \A r \in Sockets : r # s => toClient'[r] = toClient[r]
      BY <1>0, <2>3 DEF WireTypes
    <2>5. toClient' \in [Sockets -> Seq(Frames)]
      BY <1>0, <2>2, <2>3 DEF WireTypes
    <2>6. LinkFrame(s)
      BY <1>0, <2>4, <2>5 DEF WireTypes, HearClose, LinkFrame
    <2>7. CutAt(s, Len(toClient[s]))
      BY <1>0, <1>2, <2>2, <2>4, NoCloseYet DEF CutAt, HearClose, WireTypes
    <2> QED
      BY <1>0, <1>2, <2>6, <2>7 DEF Links
  <1>3. CASE link[s] # "open"
    <2>1. LinkFrame(s)
      BY <1>0, <1>3 DEF WireTypes, HearClose, LinkFrame
    <2>2. link'[s] = "closed" /\ toClient' = toClient
      BY <1>0, <1>3 DEF HearClose, WireTypes
    <2> QED
      BY <1>1, <2>1, <2>2 DEF Links
  <1> QED
    BY <1>2, <1>3

LEMMA LinkTypes ==
    ASSUME IInv, NEW s \in Sockets, Links(s), UNCHANGED browser
    PROVE  TypeOK'
  <1>1. WireTypes' /\ HandlerTypes' /\ turn' \in [Messages -> Turn] /\ ScreenTypes'
    BY Typed DEF Links, LinkFrame, HandlerTypes, handler, ScreenTypes, browser, shown
  <1> QED
    BY <1>1 DEF TypeOK, RouteTypeOK, WireTypes, HandlerTypes, ScreenTypes, Turn, Line, Panel

-----------------------------------------------------------------------------
\* The transcript

AskedOf(t) == {t[i].of : i \in {j \in DOMAIN t : t[j].role = "customer"}}

LEMMA AskedIs == Asked = AskedOf(transcript) /\ Asked' = AskedOf(transcript')
  BY DEF Asked, AskedOf

LEMMA AskedMembers ==
    ASSUME NEW t \in Seq(Line)
    PROVE  /\ AskedOf(t) = {m \in Messages : \E i \in DOMAIN t : t[i] = [role |-> "customer", of |-> m]}
           /\ AskedOf(t) \subseteq Messages
           /\ IsFiniteSet(AskedOf(t)) /\ Cardinality(AskedOf(t)) \in 0..MaxMessages
           /\ Cardinality(AskedOf(t)) = 0 <=> AskedOf(t) = {}
  <1>1. \A i \in DOMAIN t : t[i] \in Line
    OBVIOUS
  <1>2. \A i \in DOMAIN t : /\ t[i].of \in Messages
                            /\ t[i].role = "customer" => t[i] = [role |-> "customer", of |-> t[i].of]
    BY <1>1 DEF Line
  <1>3. AskedOf(t) = {m \in Messages : \E i \in DOMAIN t : t[i] = [role |-> "customer", of |-> m]}
    BY <1>2 DEF AskedOf
  <1>4. AskedOf(t) \in SUBSET Messages
    BY <1>3
  <1>5. IsFiniteSet(Messages) /\ Cardinality(Messages) = MaxMessages
    <2>1. MaxMessages \in Nat /\ 1 \in Int
      BY ChatAssumption
    <2> QED
      BY <2>1, FS_Interval DEF Messages
  <1>6. IsFiniteSet(AskedOf(t)) /\ Cardinality(AskedOf(t)) <= MaxMessages
    BY <1>4, <1>5, FS_Subset
  <1>7. Cardinality(AskedOf(t)) \in Nat
    BY <1>6, FS_CardinalityType
  <1>8. Cardinality(AskedOf(t)) = 0 <=> AskedOf(t) = {}
    BY <1>6, FS_EmptySet
  <1> QED
    BY <1>3, <1>4, <1>6, <1>7, <1>8, ChatAssumption

LEMMA AskedAfter ==
    ASSUME NEW t \in Seq(Line), NEW l \in Line
    PROVE  AskedOf(Append(t, l)) = IF l.role = "customer" THEN AskedOf(t) \cup {l.of} ELSE AskedOf(t)
  <1>1. PICK u : u = Append(t, l)
    OBVIOUS
  <1>2. /\ u \in Seq(Line) /\ Len(t) \in Nat
        /\ DOMAIN u = 1..(Len(t) + 1) /\ DOMAIN t = 1..Len(t)
        /\ \A i \in 1..Len(t) : u[i] = t[i]
        /\ u[Len(t) + 1] = l
    BY <1>1, AppendOf
  <1>3. \A x : x \in AskedOf(u) <=> x \in (IF l.role = "customer" THEN AskedOf(t) \cup {l.of} ELSE AskedOf(t))
    BY <1>2 DEF AskedOf
  <1> QED
    BY <1>1, <1>3

LEMMA LineIs ==
    ASSUME NEW m \in Messages, NEW role \in {"customer", "assistant"}
    PROVE  LET l == [role |-> role, of |-> m] IN l \in Line /\ l.role = role /\ l.of = m
  BY DEF Line

-----------------------------------------------------------------------------
\* What the browser does with a frame

Popped(s) ==
    /\ toClient' \in [Sockets -> Seq(Frames)]
    /\ \A r \in Sockets : r # s => toClient'[r] = toClient[r]
    /\ Len(toClient[s]) \in Nat \ {0} /\ DOMAIN toClient[s] = 1..Len(toClient[s])
    /\ Len(toClient'[s]) = Len(toClient[s]) - 1
    /\ DOMAIN toClient'[s] = 1..(Len(toClient[s]) - 1)
    /\ \A i \in DOMAIN toClient'[s] : toClient'[s][i] = toClient[s][i + 1]

LEMMA Popping ==
    ASSUME IInv, NEW s \in Sockets, toClient[s] # << >>, toClient' = [toClient EXCEPT ![s] = Tail(@)]
    PROVE  Popped(s) /\ 1 \in DOMAIN toClient[s] /\ toClient[s][1] = Head(toClient[s]) /\ Head(toClient[s]) \in Frames
  <1>1. toClient[s] \in Seq(Frames) /\ toClient \in [Sockets -> Seq(Frames)]
    BY Typed DEF WireTypes
  <1>2. PICK q : q = Tail(toClient[s])
    OBVIOUS
  <1>3. /\ q \in Seq(Frames) /\ Len(toClient[s]) \in Nat \ {0} /\ Len(q) = Len(toClient[s]) - 1
        /\ 1 \in DOMAIN toClient[s] /\ toClient[s][1] = Head(toClient[s]) /\ Head(toClient[s]) \in Frames
        /\ DOMAIN q = 1..(Len(toClient[s]) - 1) /\ DOMAIN toClient[s] = 1..Len(toClient[s])
        /\ \A i \in DOMAIN q : q[i] = toClient[s][i + 1]
    BY <1>1, <1>2, TailOf
  <1>4. toClient' = [toClient EXCEPT ![s] = q]
    BY <1>2
  <1>5. toClient'[s] = q /\ toClient' \in [Sockets -> Seq(Frames)] /\ \A r \in Sockets : r # s => toClient'[r] = toClient[r]
    BY <1>1, <1>3, <1>4
  <1> QED
    BY <1>3, <1>5 DEF Popped

\* A socket that opens is the current one, and so is one that still delivers frames of turns.
LEMMA OpenIsCurrent ==
    ASSUME IInv, NEW s \in Sockets, OnOpen(s)
    PROVE  /\ s = current /\ ready[s] = "connecting" /\ Popped(s) /\ toClient[s][1] = Open
           /\ connection' = "open"
  <1>1. Popped(s) /\ 1 \in DOMAIN toClient[s] /\ toClient[s][1] = Open
    BY Popping DEF OnOpen
  <1>2. ready[s] = "connecting"
    BY <1>1 DEF IInv, Connections, ConnectedAt, ClosingAt
  <1>3. s = current
    BY <1>2 DEF IInv, Connections, ConnectedAt, ClosingAt
  <1> QED
    BY <1>1, <1>2, <1>3 DEF OnOpen, IsCurrentSocket

LEMMA MessageIsCurrent ==
    ASSUME IInv, NEW s \in Sockets, OnMessage(s)
    PROVE  /\ s = current /\ Popped(s)
           /\ \E f \in Frames : f = toClient[s][1] /\ 1 \in DOMAIN toClient[s] /\ OfTurn(f) /\ Show(f)
  <1>1. Popped(s) /\ 1 \in DOMAIN toClient[s] /\ toClient[s][1] = Head(toClient[s]) /\ Head(toClient[s]) \in Frames
    BY Popping DEF OnMessage
  <1>2. Head(toClient[s]) # Open /\ Head(toClient[s]) # Close
    BY <1>1 DEF OnMessage, IInv, Connections, ConnectedAt, ClosingAt
  <1>3. s = current
    BY <1>1, <1>2 DEF IInv, Connections, ConnectedAt, ClosingAt
  <1>4. OfTurn(Head(toClient[s]))
    BY <1>1, <1>2, FrameKinds
  <1>5. Show(Head(toClient[s]))
    BY <1>3 DEF OnMessage, IsCurrentSocket
  <1> QED
    BY <1>1, <1>3, <1>4, <1>5

\* The panel after a frame: an item more, or the last running item of the tool has its end.
Updated(f) ==
    \E k \in DOMAIN activity :
        /\ activity[k].state = "running"
        /\ DOMAIN activity' = DOMAIN activity
        /\ \A i \in DOMAIN activity : i # k => activity'[i] = activity[i]
        /\ activity'[k].turnId = activity[k].turnId /\ activity'[k].of = activity[k].of
        /\ activity'[k].name = activity[k].name /\ activity'[k].state = f.state

Added(f) ==
    /\ Len(activity) \in Nat /\ DOMAIN activity = 1..Len(activity) /\ DOMAIN activity' = 1..(Len(activity) + 1)
    /\ \A i \in DOMAIN activity : activity'[i] = activity[i]
    /\ LET item == activity'[Len(activity) + 1] IN
       /\ item.turnId = turnId /\ item.of = f.of /\ item.name = f.name
       /\ item.state = IF f.state = "started" THEN "running" ELSE f.state
    /\ f.state \in {"completed", "failed"} =>
          \A i \in DOMAIN activity : ~(activity[i].name = f.name /\ activity[i].turnId = turnId /\ activity[i].state = "running")

PanelGrows(f) ==
    /\ activity' \in Seq(Panel)
    /\ \A i \in DOMAIN activity' :
          \/ /\ i \in DOMAIN activity
             /\ activity'[i].of = activity[i].of /\ activity'[i].turnId = activity[i].turnId
          \/ activity'[i].of = f.of /\ activity'[i].turnId = turnId

LEMMA ItemIs ==
    ASSUME IInv, NEW f \in Frames, f.kind = "activity", turnId # 0
    PROVE  /\ Item(f) \in Panel /\ Item(f).turnId = turnId /\ Item(f).of = f.of /\ Item(f).name = f.name
           /\ Item(f).state = IF f.state = "started" THEN "running" ELSE f.state
  <1>1. f.of \in Messages /\ f.name \in Tools \cup Reports /\ f.state \in {"info", "started", "completed", "failed"}
    BY FrameKinds DEF OfTurn
  <1>2. turnId \in 1..MaxMessages
    BY Typed, ChatAssumption DEF ScreenTypes
  <1> QED
    BY <1>1, <1>2 DEF Item, Panel

LEMMA PanelAdded ==
    ASSUME IInv, NEW f \in Frames, f.kind = "activity", turnId # 0, activity' = Append(activity, Item(f))
    PROVE  /\ PanelGrows(f)
           /\ Len(activity) \in Nat /\ DOMAIN activity = 1..Len(activity) /\ DOMAIN activity' = 1..(Len(activity) + 1)
           /\ \A i \in DOMAIN activity : activity'[i] = activity[i]
           /\ activity'[Len(activity) + 1] = Item(f)
  <1>1. activity \in Seq(Panel)
    BY Typed DEF ScreenTypes
  <1>2. Item(f) \in Panel /\ Item(f).turnId = turnId /\ Item(f).of = f.of
    BY ItemIs
  <1>3. /\ activity' \in Seq(Panel) /\ Len(activity) \in Nat
        /\ DOMAIN activity' = 1..(Len(activity) + 1) /\ DOMAIN activity = 1..Len(activity)
        /\ \A i \in 1..Len(activity) : activity'[i] = activity[i]
        /\ activity'[Len(activity) + 1] = Item(f)
    BY <1>1, <1>2, AppendOf
  <1>4. \A i \in DOMAIN activity' : i \in DOMAIN activity \/ i = Len(activity) + 1
    BY <1>3
  <1> QED
    BY <1>2, <1>3, <1>4 DEF PanelGrows

LEMMA PanelUpdated ==
    ASSUME IInv, NEW state \in {"completed", "failed"}, NEW f, NEW k, activity' = [activity EXCEPT ![k].state = state]
    PROVE  /\ PanelGrows(f)
           /\ DOMAIN activity' = DOMAIN activity
           /\ \A i \in DOMAIN activity : i # k => activity'[i] = activity[i]
           /\ k \in DOMAIN activity =>
                 /\ activity'[k].turnId = activity[k].turnId /\ activity'[k].of = activity[k].of
                 /\ activity'[k].name = activity[k].name /\ activity'[k].state = state
  <1>1. activity \in Seq(Panel)
    BY Typed DEF ScreenTypes
  <1>2. Len(activity) \in Nat /\ DOMAIN activity = 1..Len(activity) /\ \A i \in DOMAIN activity : activity[i] \in Panel
    BY <1>1, LenProperties, ElementOfSeq
  <1>3. CASE k \in DOMAIN activity
    <2>1. PICK e : e = [activity[k] EXCEPT !.state = state]
      OBVIOUS
    <2>2. e \in Panel /\ e.turnId = activity[k].turnId /\ e.of = activity[k].of /\ e.name = activity[k].name /\ e.state = state
      BY <1>2, <1>3, <2>1 DEF Panel
    <2>3. activity' = [activity EXCEPT ![k] = e]
      BY <2>1
    <2>4. activity' \in Seq(Panel)
      BY <1>1, <1>2, <1>3, <2>2, <2>3, ExceptSeq
    <2>5. DOMAIN activity' = DOMAIN activity /\ activity'[k] = e
          /\ \A i \in DOMAIN activity : i # k => activity'[i] = activity[i]
      BY <1>1, <1>2, <1>3, <2>3
    <2> QED
      BY <1>3, <2>2, <2>4, <2>5 DEF PanelGrows
  <1>4. CASE k \notin DOMAIN activity
    <2>1. activity' = activity
      BY <1>1, <1>2, <1>4
    <2> QED
      BY <1>1, <1>4, <2>1 DEF PanelGrows
  <1> QED
    BY <1>3, <1>4

LEMMA PanelAfter ==
    ASSUME IInv, NEW f \in Frames, f.kind = "activity", turnId # 0, activity' = ApplyActivityFrame(activity, f)
    PROVE  PanelGrows(f)
  <1>1. Item(f).state \in {"completed", "failed"} \/ activity' = Append(activity, Item(f))
    BY DEF ApplyActivityFrame
  <1>2. CASE activity' = Append(activity, Item(f))
    BY <1>2, PanelAdded
  <1>3. CASE activity' # Append(activity, Item(f))
    <2>1. PICK state \in {"completed", "failed"} : state = Item(f).state
      BY <1>1, <1>3
    <2>2. PICK started : activity' = [activity EXCEPT ![Max(started)].state = state]
      BY <1>3, <2>1 DEF ApplyActivityFrame
    <2>3. PICK k : k = Max(started)
      OBVIOUS
    <2>4. activity' = [activity EXCEPT ![k].state = state]
      BY <2>2, <2>3
    <2> QED
      BY <2>4, PanelUpdated
  <1> QED
    BY <1>2, <1>3

\* With at most one item running, the last one is that one.
LEMMA OnePanel ==
    ASSUME IInv, NEW f \in Frames, f.kind = "activity", turnId # 0, activity' = ApplyActivityFrame(activity, f),
           \A i, j \in DOMAIN activity : activity[i].state = "running" /\ activity[j].state = "running" => i = j
    PROVE  (f.state \in {"completed", "failed"} /\ Updated(f)) \/ Added(f)
  <1>1. /\ Item(f).turnId = turnId /\ Item(f).of = f.of /\ Item(f).name = f.name
        /\ Item(f).state = IF f.state = "started" THEN "running" ELSE f.state
    BY ItemIs
  <1>2. PICK started : started = {i \in DOMAIN activity :
            activity[i].name = f.name /\ activity[i].turnId = turnId /\ activity[i].state = "running"}
    OBVIOUS
  <1>3. activity' = IF Item(f).state \in {"completed", "failed"} /\ started # {}
                    THEN [activity EXCEPT ![Max(started)].state = Item(f).state]
                    ELSE Append(activity, Item(f))
    BY <1>1, <1>2 DEF ApplyActivityFrame
  <1>4. CASE f.state \in {"completed", "failed"} /\ started # {}
    <2>1. PICK k \in DOMAIN activity : started = {k} /\ activity[k].state = "running"
      BY <1>2, <1>4
    <2>2. k \in Int
      BY Typed, LenProperties DEF ScreenTypes
    <2>3. Max(started) = k
      BY <2>1, <2>2 DEF Max
    <2>4. activity' = [activity EXCEPT ![k].state = f.state]
      BY <1>1, <1>3, <1>4, <2>3
    <2>5. Updated(f)
      BY <1>4, <2>1, <2>4, PanelUpdated DEF Updated
    <2> QED
      BY <1>4, <2>5
  <1>5. CASE ~(f.state \in {"completed", "failed"} /\ started # {})
    <2>1. activity' = Append(activity, Item(f))
      BY <1>1, <1>3, <1>5
    <2>2. Added(f)
      BY <1>1, <1>2, <1>5, <2>1, PanelAdded DEF Added
    <2> QED
      BY <2>2
  <1> QED
    BY <1>4, <1>5

\* A retired socket says only that it is closed.
Retires ==
    /\ link' \in [Sockets -> {"none", "open", "closing", "closed"}]
    /\ toServer' \in [Sockets -> Seq(Messages \cup {CloseFrame})]
    /\ toClient' \in [Sockets -> Seq(Frames)]
    /\ \A r \in Sockets : r # current \/ ~IsLive =>
          link'[r] = link[r] /\ toServer'[r] = toServer[r] /\ toClient'[r] = toClient[r]
    /\ IsLive =>
          /\ link'[current] = IF link[current] = "none" THEN "closed" ELSE link[current]
          /\ toServer'[current] = toServer[current] \/ toServer'[current] = Append(toServer[current], CloseFrame)
          /\ toClient'[current] = << >> \/ (toClient'[current] = <<Close>> /\ link'[current] # "open")

LEMMA RetireMoves ==
    ASSUME IInv, RetireWire
    PROVE  Retires
  <1>0. WireTypes /\ current \in Sockets \cup {NoSocket}
    BY Typed DEF ScreenTypes
  <1>1. CASE ~IsLive
    BY <1>0, <1>1 DEF RetireWire, Retires, WireTypes
  <1>2. CASE IsLive
    <2>0. current \in Sockets
      BY <1>0, <1>2 DEF IsLive
    <2>1. PICK q : q = IF link[current] = "none" \/ \E i \in DOMAIN toClient[current] : toClient[current][i] = Close
                       THEN <<Close>> ELSE << >>
      OBVIOUS
    <2>2. q \in Seq(Frames) /\ (q = << >> \/ q = <<Close>>)
      BY <2>1, OpenAndClose
    <2>3. toClient' = [toClient EXCEPT ![current] = q]
      BY <1>2, <2>1 DEF RetireWire
    <2>4. link' = [link EXCEPT ![current] = IF link[current] = "none" THEN "closed" ELSE link[current]]
      BY <1>2 DEF RetireWire
    <2>5. /\ link' \in [Sockets -> {"none", "open", "closing", "closed"}]
          /\ link'[current] = IF link[current] = "none" THEN "closed" ELSE link[current]
          /\ \A r \in Sockets : r # current => link'[r] = link[r]
      BY <1>0, <2>0, <2>4 DEF WireTypes
    <2>6. /\ toClient' \in [Sockets -> Seq(Frames)] /\ toClient'[current] = q
          /\ \A r \in Sockets : r # current => toClient'[r] = toClient[r]
      BY <1>0, <2>0, <2>2, <2>3 DEF WireTypes
    <2>7. q = <<Close>> => link'[current] # "open"
      <3>1. CASE link[current] = "none"
        BY <2>5, <3>1
      <3>2. CASE \E i \in DOMAIN toClient[current] : toClient[current][i] = Close
        BY <2>0, <2>5, <3>2 DEF IInv, Connections, ConnectedAt, ClosingAt
      <3>3. CASE q = << >>
        BY <3>3
      <3> QED
        BY <2>1, <3>1, <3>2, <3>3
    <2>8. PICK t : t = Append(toServer[current], CloseFrame)
      OBVIOUS
    <2>9. t \in Seq(Messages \cup {CloseFrame})
      BY <2>0, <2>8, Typed, AppendOf
    <2>10. toServer' = toServer \/ toServer' = [toServer EXCEPT ![current] = t]
      BY <1>2, <2>8 DEF RetireWire
    <2>11. /\ toServer' \in [Sockets -> Seq(Messages \cup {CloseFrame})]
           /\ toServer'[current] = toServer[current] \/ toServer'[current] = t
           /\ \A r \in Sockets : r # current => toServer'[r] = toServer[r]
      BY <1>0, <2>0, <2>9, <2>10 DEF WireTypes
    <2> QED
      BY <1>2, <2>2, <2>5, <2>6, <2>7, <2>8, <2>11 DEF Retires
  <1> QED
    BY <1>1, <1>2

\* What the customer starts anew.
Anew ==
    /\ RetireWire /\ ClearConversation /\ UNCHANGED <<handler, turn>>
    /\ persona' \in BOOLEAN
    /\ \/ /\ current' = NoSocket /\ connection' \in {"idle", "closed"} /\ ready' = RetiredReady
       \/ /\ connection' = "connecting" /\ current' \in Sockets /\ ready[current'] = "none"
          /\ ready' = [RetiredReady EXCEPT ![current'] = "connecting"]

LEMMA CustomerStartsAnew ==
    ASSUME IInv, HandlePersonaChange \/ StartConversation
    PROVE  Anew
  <1>1. CASE HandlePersonaChange
    BY <1>1 DEF HandlePersonaChange, Anew
  <1>2. CASE StartConversation
    <2>1. persona \in BOOLEAN
      BY Typed DEF ScreenTypes
    <2>2. RetireWire /\ ClearConversation /\ UNCHANGED <<handler, turn, persona>>
      BY <1>2 DEF StartConversation
    <2>3. \/ \E s \in Sockets : ready[s] = "none" /\ ready' = [RetiredReady EXCEPT ![s] = "connecting"]
                                /\ current' = s /\ connection' = "connecting"
          \/ ready' = RetiredReady /\ current' = NoSocket /\ connection' = "closed"
      BY <1>2 DEF StartConversation
    <2> QED
      BY <2>1, <2>2, <2>3 DEF Anew
  <1> QED
    BY <1>1, <1>2

LEMMA RetiredReadyIs ==
    ASSUME IInv
    PROVE  /\ RetiredReady \in [Sockets -> {"none", "connecting", "open", "closing", "closed"}]
           /\ \A r \in Sockets : /\ r # current \/ ~IsLive => RetiredReady[r] = ready[r]
                                 /\ r = current /\ IsLive => RetiredReady[r] = "closing"
                                 /\ RetiredReady[r] \notin {"connecting", "open"}
                                 /\ RetiredReady[r] = "none" <=> ready[r] = "none"
  <1>1. ready \in [Sockets -> {"none", "connecting", "open", "closing", "closed"}] /\ current \in Sockets \cup {NoSocket}
    BY Typed DEF WireTypes, ScreenTypes
  <1>2. \A r \in Sockets : /\ r # current \/ ~IsLive => RetiredReady[r] = ready[r]
                           /\ r = current /\ IsLive => RetiredReady[r] = "closing"
    BY <1>1 DEF RetiredReady
  <1>3. \A r \in Sockets : RetiredReady[r] \notin {"connecting", "open"}
    BY <1>1, <1>2, Numbers DEF IInv, Connections, ConnectedAt, IsLive
  <1>4. \A r \in Sockets : RetiredReady[r] = "none" <=> ready[r] = "none"
    BY <1>1, <1>2 DEF IsLive
  <1>5. RetiredReady \in [Sockets -> {"none", "connecting", "open", "closing", "closed"}]
    BY <1>1 DEF RetiredReady
  <1> QED
    BY <1>2, <1>3, <1>4, <1>5

\* The ready states after it.
LEMMA AnewReady ==
    ASSUME IInv, Anew
    PROVE  /\ ready' \in [Sockets -> {"none", "connecting", "open", "closing", "closed"}]
           /\ \A r \in Sockets :
                 /\ r = current' => ready[r] = "none" /\ ready'[r] = "connecting"
                 /\ r # current' => ready'[r] = RetiredReady[r]
  <1>1. CASE current' = NoSocket /\ ready' = RetiredReady
    BY <1>1, RetiredReadyIs, Numbers
  <1>2. CASE current' \in Sockets /\ ready[current'] = "none" /\ ready' = [RetiredReady EXCEPT ![current'] = "connecting"]
    BY <1>2, RetiredReadyIs
  <1> QED
    BY <1>1, <1>2 DEF Anew

\* Types, all of them
TypesAfter == WireTypes' /\ HandlerTypes' /\ turn' \in [Messages -> Turn] /\ ScreenTypes'

LEMMA TypesTogether == TypesAfter => TypeOK'
  BY DEF TypesAfter, TypeOK, RouteTypeOK, WireTypes, HandlerTypes, ScreenTypes, Turn, Line, Panel

LEMMA HandlersKept == IInv /\ UNCHANGED handler => HandlerTypes'
  BY Typed DEF handler, HandlerTypes

LEMMA OnOpenTypes ==
    ASSUME IInv, NEW s \in Sockets, OnOpen(s)
    PROVE  TypesAfter
  <1>1. toClient' \in [Sockets -> Seq(Frames)]
    BY OpenIsCurrent DEF Popped
  <1>2. WireTypes'
    BY <1>1, Typed DEF OnOpen, WireTypes
  <1>3. ScreenTypes'
    BY Typed DEF OnOpen, ScreenTypes
  <1> QED
    BY <1>2, <1>3, Typed, HandlersKept DEF OnOpen, TypesAfter

LEMMA OnMessageTypes ==
    ASSUME IInv, NEW s \in Sockets, OnMessage(s)
    PROVE  TypesAfter
  <1>1. PICK f \in Frames : OfTurn(f) /\ Show(f)
    BY MessageIsCurrent
  <1>2. WireTypes'
    BY MessageIsCurrent, Typed DEF OnMessage, WireTypes, Popped
  <1>3. turn' \in [Messages -> Turn] /\ HandlerTypes'
    BY Typed, HandlersKept DEF OnMessage
  <1>4. transcript' \in Seq(Line)
    <2>1. transcript \in Seq(Line)
      BY Typed DEF ScreenTypes
    <2>2. [role |-> "assistant", of |-> f.of] \in Line
      BY <1>1, FrameKinds DEF Line
    <2> QED
      BY <1>1, <2>1, <2>2, AppendOf DEF Show, TranscriptAfter
  <1>5. activity' \in Seq(Panel)
    <2>1. CASE f.kind = "activity" /\ Understood(f) /\ turnId # 0
      BY <1>1, <2>1, PanelAfter DEF Show, PanelGrows
    <2>2. CASE ~(f.kind = "activity" /\ Understood(f) /\ turnId # 0)
      BY <1>1, <2>2, Typed DEF Show, ScreenTypes
    <2> QED
      BY <2>1, <2>2
  <1>6. pending' \in BOOLEAN /\ misread' \in BOOLEAN
    <2>1. pending' = (pending /\ KeepsPending(f)) /\ misread' = (misread \/ ~Understood(f))
      BY <1>1 DEF Show
    <2> QED
      BY <2>1
  <1>7. persona' \in BOOLEAN /\ current' \in Sockets \cup {NoSocket}
        /\ connection' \in {"idle", "connecting", "open", "closed"} /\ turnId' \in 0..MaxMessages
    BY <1>1, Typed DEF OnMessage, Show, ScreenTypes
  <1> QED
    BY <1>2, <1>3, <1>4, <1>5, <1>6, <1>7 DEF TypesAfter, ScreenTypes

LEMMA OnCloseTypes ==
    ASSUME IInv, NEW s \in Sockets, OnClose(s)
    PROVE  TypesAfter
  <1>0. WireTypes
    BY Typed
  <1>1. PICK t : t = Append(toServer[s], CloseFrame)
    OBVIOUS
  <1>2. t \in Seq(Messages \cup {CloseFrame})
    BY <1>1, Typed, AppendOf
  <1>3. toServer' = toServer \/ toServer' = [toServer EXCEPT ![s] = t]
    BY <1>1 DEF OnClose
  <1>4. toServer' \in [Sockets -> Seq(Messages \cup {CloseFrame})]
    BY <1>0, <1>2, <1>3 DEF WireTypes
  <1>5. toClient' \in [Sockets -> Seq(Frames)] /\ ready' \in [Sockets -> {"none", "connecting", "open", "closing", "closed"}]
    BY <1>0 DEF WireTypes, OnClose
  <1>6. WireTypes'
    BY <1>0, <1>4, <1>5 DEF WireTypes, OnClose
  <1>7. ScreenTypes'
    BY Typed DEF OnClose, ScreenTypes, NoSocket
  <1> QED
    BY <1>6, <1>7, Typed, HandlersKept DEF OnClose, TypesAfter

LEMMA AnewTypes ==
    ASSUME IInv, Anew
    PROVE  TypesAfter
  <1>1. WireTypes'
    BY AnewReady, RetireMoves DEF Anew, Retires, WireTypes
  <1>2. << >> \in Seq(Line) /\ << >> \in Seq(Panel)
    BY EmptySeq
  <1>3. transcript' \in Seq(Line) /\ activity' \in Seq(Panel) /\ pending' \in BOOLEAN /\ misread' \in BOOLEAN /\ turnId' = 0
    BY <1>2 DEF Anew, ClearConversation
  <1>4. persona' \in BOOLEAN /\ current' \in Sockets \cup {NoSocket} /\ connection' \in {"idle", "connecting", "open", "closed"}
    BY DEF Anew
  <1>5. 0 \in 0..MaxMessages
    BY ChatAssumption
  <1>6. ScreenTypes'
    BY <1>3, <1>4, <1>5 DEF ScreenTypes
  <1> QED
    BY <1>1, <1>6, Typed, HandlersKept DEF Anew, TypesAfter

\* What the customer sends is new.
Sends(m) ==
    /\ turn[m] = Unsent /\ turn[m].stage = "unsent" /\ m \notin Asked
    /\ \A n \in Messages : n < m => turn[n].stage # "unsent"
    /\ \A n \in Asked : n <= m
    /\ current \in Sockets /\ ready[current] = "open" /\ pending # TRUE
    /\ transcript' = Append(transcript, [role |-> "customer", of |-> m]) /\ transcript' \in Seq(Line)
    /\ pending' = TRUE /\ turnId' = turnId + 1
    /\ turn' \in [Messages -> Turn]
    /\ turn'[m].on = current /\ turn'[m].stage = "sent" /\ turn'[m].tool = "none" /\ turn'[m].reply = "none"
    /\ \A n \in Messages : n # m => turn'[n] = turn[n]
    /\ toServer' = toServer \/ toServer' = [toServer EXCEPT ![current] = Append(toServer[current], m)]
    /\ Asked' = Asked \cup {m} /\ Cardinality(Asked') = Cardinality(Asked) + 1

LEMMA SendIs ==
    ASSUME IInv, SendDraft
    PROVE  \E m \in Messages : Sends(m)
  <1>0. current \in Sockets \cup {NoSocket} /\ transcript \in Seq(Line) /\ turn \in [Messages -> Turn] /\ WireTypes
        /\ pending \in BOOLEAN
    BY Typed DEF ScreenTypes
  <1>1. PICK m \in Messages :
        /\ turn[m] = Unsent
        /\ \A n \in Messages : n < m => turn[n] # Unsent
        /\ current # NoSocket /\ ready[current] = "open" /\ ~pending
        /\ transcript' = Append(transcript, [role |-> "customer", of |-> m])
        /\ pending' = TRUE
        /\ turnId' = turnId + 1
        /\ turn' = [turn EXCEPT ![m].on = current, ![m].stage = "sent"]
        /\ toServer' = IF link[current] = "closed" THEN toServer
                       ELSE [toServer EXCEPT ![current] = Append(@, m)]
    BY DEF SendDraft
  <1>2. turn[m].stage = "unsent" /\ turn[m].tool = "none" /\ turn[m].reply = "none"
    BY <1>1 DEF Unsent
  <1>3. \A n \in Messages : n < m => turn[n].stage # "unsent"
    BY <1>1 DEF IInv, TurnShape
  <1>4. m \notin Asked /\ \A n \in Asked : turn[n].stage # "unsent"
    BY <1>2 DEF IInv, Screen
  <1>5. Asked \subseteq Messages /\ IsFiniteSet(Asked)
    BY <1>0, AskedIs, AskedMembers
  <1>6. \A n \in Asked : n <= m
    BY <1>2, <1>4, <1>5, Numbers DEF IInv, SentInOrder
  <1>7. PICK l : l = [role |-> "customer", of |-> m]
    OBVIOUS
  <1>71. l \in Line /\ l.role = "customer" /\ l.of = m
    BY <1>7, LineIs
  <1>8. transcript' \in Seq(Line) /\ Asked' = Asked \cup {m}
    <2>1. transcript' = Append(transcript, l)
      BY <1>1, <1>7
    <2>2. transcript' \in Seq(Line)
      BY <1>0, <1>71, <2>1, AppendOf
    <2>3. AskedOf(Append(transcript, l)) = AskedOf(transcript) \cup {m}
      BY <1>0, <1>71, AskedAfter
    <2> QED
      BY <2>1, <2>2, <2>3, AskedIs
  <1>9. Cardinality(Asked') = Cardinality(Asked) + 1
    BY <1>4, <1>5, <1>8, FS_AddElement
  <1>10. current \in Sockets /\ pending # TRUE
    BY <1>0, <1>1
  <1>11. /\ turn'[m].on = current /\ turn'[m].stage = "sent" /\ turn'[m].tool = "none" /\ turn'[m].reply = "none"
         /\ \A n \in Messages : n # m => turn'[n] = turn[n]
    BY <1>0, <1>1, <1>2 DEF Turn
  <1>12. turn' \in [Messages -> Turn]
    <2>1. turn[m] \in Turn
      BY <1>0
    <2>2. [turn[m] EXCEPT !.on = current, !.stage = "sent"] \in Turn
      BY <1>10, <2>1 DEF Turn
    <2>3. turn' = [turn EXCEPT ![m] = [turn[m] EXCEPT !.on = current, !.stage = "sent"]]
      BY <1>1
    <2> QED
      BY <1>0, <2>2, <2>3
  <1>13. toServer' = toServer \/ toServer' = [toServer EXCEPT ![current] = Append(toServer[current], m)]
    BY <1>1
  <1>14. Sends(m)
    BY <1>1, <1>2, <1>3, <1>4, <1>6, <1>8, <1>9, <1>10, <1>11, <1>12, <1>13 DEF Sends
  <1> QED
    BY <1>14

LEMMA SendTypes ==
    ASSUME IInv, SendDraft
    PROVE  TypesAfter
  <1>0. PICK m \in Messages : Sends(m)
    BY SendIs
  <1>1. /\ current \in Sockets
        /\ transcript' \in Seq(Line) /\ pending' = TRUE /\ turnId' = turnId + 1
        /\ turn' \in [Messages -> Turn]
        /\ toServer' = toServer \/ toServer' = [toServer EXCEPT ![current] = Append(toServer[current], m)]
        /\ Cardinality(Asked') = Cardinality(Asked) + 1
    BY <1>0 DEF Sends
  <1>2. PICK t : t = Append(toServer[current], m)
    OBVIOUS
  <1>3. t \in Seq(Messages \cup {CloseFrame})
    BY <1>1, <1>2, Typed, AppendOf
  <1>4. toServer' \in [Sockets -> Seq(Messages \cup {CloseFrame})]
    BY <1>1, <1>2, <1>3, Typed DEF WireTypes
  <1>5. WireTypes'
    BY <1>4, Typed DEF WireTypes, SendDraft
  <1>6. turnId' \in 0..MaxMessages
    <2>1. Cardinality(Asked') \in 0..MaxMessages
      BY <1>1, AskedIs, AskedMembers
    <2> QED
      BY <1>1, <2>1 DEF IInv, Screen
  <1>7. ScreenTypes'
    BY <1>1, <1>6, Typed DEF ScreenTypes, SendDraft
  <1> QED
    BY <1>1, <1>5, <1>7, HandlersKept DEF SendDraft, TypesAfter

-----------------------------------------------------------------------------
\* The steps, as the rest of the proof takes them

TurnMoves(m) == TurnStep(m) /\ UNCHANGED browser
Arrives(s, m) == (Refuse(s, m) \/ Begin(s, m)) /\ UNCHANGED browser

LEMMA Steps ==
    ASSUME IInv, [Next]_vars
    PROVE  \/ \E m \in Messages : TurnMoves(m)
           \/ \E s \in Sockets, m \in Messages : Arrives(s, m)
           \/ \E s \in Sockets : Links(s) /\ UNCHANGED browser
           \/ \E s \in Sockets : OnOpen(s)
           \/ \E s \in Sockets : OnMessage(s)
           \/ \E s \in Sockets : OnClose(s)
           \/ Anew
           \/ SendDraft
           \/ UNCHANGED vars
  <1>1. CASE Server
    BY <1>1, AcceptLinks, HearCloseLinks DEF Server, Arrive, TurnMoves, Arrives
  <1>2. CASE Browser
    BY <1>2 DEF Browser
  <1>3. CASE HandlePersonaChange \/ StartConversation
    BY <1>3, CustomerStartsAnew
  <1>4. CASE SendDraft
    BY <1>4
  <1>5. CASE \E s \in Sockets : Cut(s) /\ UNCHANGED browser
    BY <1>5, CutLinks
  <1> QED
    BY <1>1, <1>2, <1>3, <1>4, <1>5 DEF Next

LEMMA TurnMovesServe ==
    ASSUME IInv, NEW m \in Messages, TurnMoves(m) \/ \E s \in Sockets : Arrives(s, m)
    PROVE  Serves(m) /\ Moves(m)
  <1>1. Serves(m)
    BY ServerServes DEF TurnMoves, Arrives
  <1> QED
    BY <1>1 DEF Serves, Silently, Tells, Concludes

LEMMA TypesNext == IInv /\ [Next]_vars => TypeOK'
  <1> SUFFICES ASSUME IInv, [Next]_vars PROVE TypeOK'
    OBVIOUS
  <1>1. ASSUME NEW m \in Messages, TurnMoves(m) PROVE TypeOK'
    BY <1>1, TurnStepTypes DEF TurnMoves
  <1>2. ASSUME NEW s \in Sockets, NEW m \in Messages, Arrives(s, m) PROVE TypeOK'
    BY <1>2, ArriveTypes DEF Arrives
  <1>3. ASSUME NEW s \in Sockets, Links(s), UNCHANGED browser PROVE TypeOK'
    BY <1>3, LinkTypes
  <1>4. ASSUME NEW s \in Sockets, OnOpen(s) \/ OnMessage(s) \/ OnClose(s) PROVE TypeOK'
    BY <1>4, OnOpenTypes, OnMessageTypes, OnCloseTypes, TypesTogether
  <1>5. CASE Anew \/ SendDraft
    BY <1>5, AnewTypes, SendTypes, TypesTogether
  <1>6. CASE UNCHANGED vars
    <2>1. TypesAfter
      BY <1>6, Typed DEF vars, wire, handler, browser, shown, TypesAfter, WireTypes, HandlerTypes, ScreenTypes
    <2> QED
      BY <2>1, TypesTogether
  <1> QED
    BY <1>1, <1>2, <1>3, <1>4, <1>5, <1>6, Steps

-----------------------------------------------------------------------------
\* The turns

\* Ready states only go on: what has been open is not opened again.
LEMMA ReadyMoves ==
    ASSUME IInv, Anew \/ (\E s \in Sockets : OnOpen(s) \/ OnClose(s)), NEW r \in Sockets,
           ready[r] \notin {"none", "connecting"}
    PROVE  ready'[r] \notin {"none", "connecting"}
  <1>1. CASE Anew
    BY <1>1, AnewReady, RetiredReadyIs
  <1>2. ASSUME NEW s \in Sockets, OnOpen(s) \/ OnClose(s) PROVE ready'[r] \notin {"none", "connecting"}
    BY <1>2, Typed DEF OnOpen, OnClose, WireTypes
  <1> QED
    BY <1>1, <1>2

LEMMA TurnsKept ==
    ASSUME IInv,
           \/ \E s \in Sockets : Links(s) \/ OnOpen(s) \/ OnMessage(s) \/ OnClose(s)
           \/ Anew \/ UNCHANGED vars
    PROVE  UNCHANGED turn
  BY DEF Links, LinkFrame, OnOpen, OnMessage, OnClose, Anew, vars

LEMMA TurnShapeNext == IInv /\ [Next]_vars => TurnShape'
  <1> SUFFICES ASSUME IInv, [Next]_vars, NEW m \in Messages
               PROVE  /\ turn'[m].stage = "unsent" => turn'[m] = Unsent
                      /\ turn'[m].stage # "unsent" => turn'[m].on \in Sockets /\ ready'[turn'[m].on] \notin {"none", "connecting"}
                      /\ turn'[m].reply = "none" <=> turn'[m].stage \in Unreplied
                      /\ turn'[m].tool # "none" => turn'[m].stage = "graph"
    BY DEF TurnShape, Unreplied, Unsent
  <1>0. TurnShape
    BY DEF IInv
  <1>1. ASSUME NEW n \in Messages, Moves(n)
        PROVE  /\ turn'[m].stage = "unsent" => turn'[m] = Unsent
               /\ turn'[m].stage # "unsent" => turn'[m].on \in Sockets /\ ready'[turn'[m].on] \notin {"none", "connecting"}
               /\ turn'[m].reply = "none" <=> turn'[m].stage \in Unreplied
               /\ turn'[m].tool # "none" => turn'[m].stage = "graph"
    BY <1>0, <1>1 DEF Moves, TurnShape
  <1>2. CASE UNCHANGED <<turn, ready>>
    BY <1>0, <1>2 DEF TurnShape
  <1>3. CASE Anew \/ (\E s \in Sockets : OnOpen(s) \/ OnClose(s))
    BY <1>0, <1>3, TurnsKept, ReadyMoves DEF TurnShape
  <1>4. CASE SendDraft
    <2>1. PICK n \in Messages : Sends(n)
      BY <1>4, SendIs
    <2>2. UNCHANGED ready
      BY <1>4 DEF SendDraft
    <2>3. CASE n # m
      BY <1>0, <2>1, <2>2, <2>3 DEF Sends, TurnShape
    <2>4. CASE n = m
      BY <2>1, <2>2, <2>4 DEF Sends, Unreplied
    <2> QED
      BY <2>3, <2>4
  <1> QED
    BY <1>1, <1>2, <1>3, <1>4, Steps, TurnMovesServe DEF Links, LinkFrame, OnMessage, vars, wire

LEMMA SentInOrderNext == IInv /\ [Next]_vars => SentInOrder'
  <1> SUFFICES ASSUME IInv, [Next]_vars, NEW a \in Messages, NEW b \in Messages, turn'[a].stage = "unsent", a < b
               PROVE  turn'[b].stage = "unsent"
    BY DEF SentInOrder
  <1>0. SentInOrder
    BY DEF IInv
  <1>1. ASSUME NEW n \in Messages, Moves(n) PROVE turn'[b].stage = "unsent"
    BY <1>0, <1>1 DEF Moves, SentInOrder
  <1>2. CASE UNCHANGED turn
    BY <1>0, <1>2 DEF SentInOrder
  <1>3. CASE SendDraft
    <2>1. PICK n \in Messages : Sends(n)
      BY <1>3, SendIs
    <2> QED
      BY <1>0, <2>1, Numbers DEF Sends, SentInOrder
  <1> QED
    BY <1>1, <1>2, <1>3, Steps, TurnMovesServe, TurnsKept

-----------------------------------------------------------------------------
\* What is on the way to the server

\* A queue from which an entry has been taken, or to which a close has been added, ...
LEMMA QueueShrinks ==
    ASSUME IInv, NEW s \in Sockets, NEW k \in Nat, toServer'[s] \in Seq(Messages \cup {CloseFrame}),
           \A i \in DOMAIN toServer'[s] : toServer'[s][i] # CloseFrame =>
              /\ i + k \in DOMAIN toServer[s] /\ toServer'[s][i] = toServer[s][i + k]
              /\ turn'[toServer[s][i + k]] = turn[toServer[s][i + k]]
    PROVE  \A i \in DOMAIN toServer'[s] : toServer'[s][i] # CloseFrame =>
              /\ turn'[toServer'[s][i]].on = s /\ turn'[toServer'[s][i]].stage = "sent"
              /\ \A j \in DOMAIN toServer'[s] : toServer'[s][j] = toServer'[s][i] => j = i
  <1> SUFFICES ASSUME NEW i \in DOMAIN toServer'[s], toServer'[s][i] # CloseFrame
               PROVE  /\ turn'[toServer'[s][i]].on = s /\ turn'[toServer'[s][i]].stage = "sent"
                      /\ \A j \in DOMAIN toServer'[s] : toServer'[s][j] = toServer'[s][i] => j = i
    OBVIOUS
  <1>0. DOMAIN toServer'[s] \subseteq Nat
    OBVIOUS
  <1> QED
    BY <1>0 DEF IInv, OnTheWay

OnTheWayAt(s) ==
    \A i \in DOMAIN toServer[s] : toServer[s][i] # CloseFrame =>
        /\ turn[toServer[s][i]].on = s /\ turn[toServer[s][i]].stage = "sent"
        /\ \A j \in DOMAIN toServer[s] : toServer[s][j] = toServer[s][i] => j = i

LEMMA QueueClosed ==
    ASSUME IInv, NEW s \in Sockets, UNCHANGED turn, toServer'[s] \in Seq(Messages \cup {CloseFrame}),
           \/ toServer'[s] = toServer[s] \/ toServer'[s] = << >>
           \/ toServer'[s] = Append(toServer[s], CloseFrame)
    PROVE  OnTheWayAt(s)'
  <1>1. toServer[s] \in Seq(Messages \cup {CloseFrame})
    BY Typed
  <1>2. \A i \in DOMAIN toServer'[s] : toServer'[s][i] # CloseFrame =>
              /\ i + 0 \in DOMAIN toServer[s] /\ toServer'[s][i] = toServer[s][i + 0]
              /\ turn'[toServer[s][i + 0]] = turn[toServer[s][i + 0]]
    <2>1. CASE toServer'[s] = toServer[s]
      BY <1>1, <2>1
    <2>2. CASE toServer'[s] = << >>
      BY <2>2
    <2>3. CASE toServer'[s] = Append(toServer[s], CloseFrame)
      BY <1>1, <2>3, AppendOf
    <2> QED
      BY <2>1, <2>2, <2>3
  <1> QED
    BY <1>2, QueueShrinks DEF OnTheWayAt

\* ... and one in which nothing has moved but what was not in it.
LEMMA QueueStays ==
    ASSUME IInv, NEW s \in Sockets, NEW m \in Messages, toServer'[s] = toServer[s],
           \A n \in Messages : n # m => turn'[n] = turn[n],
           turn[m].on # s \/ turn[m].stage # "sent"
    PROVE  OnTheWayAt(s)'
  <1>1. toServer[s] \in Seq(Messages \cup {CloseFrame}) /\ \A i \in DOMAIN toServer[s] : toServer[s][i] \in Messages \cup {CloseFrame}
    BY Typed, ElementOfSeq
  <1>2. \A i \in DOMAIN toServer[s] : toServer[s][i] # CloseFrame => toServer[s][i] # m
    BY DEF IInv, OnTheWay
  <1> QED
    BY <1>1, <1>2 DEF OnTheWayAt, IInv, OnTheWay

LEMMA OnTheWayNext == IInv /\ [Next]_vars => OnTheWay'
  <1> SUFFICES ASSUME IInv, [Next]_vars, NEW s \in Sockets PROVE OnTheWayAt(s)'
    BY DEF OnTheWay, OnTheWayAt
  <1>0. toServer'[s] \in Seq(Messages \cup {CloseFrame})
    BY TypesNext DEF TypeOK, RouteTypeOK
  <1>1. ASSUME NEW m \in Messages, TurnMoves(m) PROVE OnTheWayAt(s)'
    <2>1. UNCHANGED toServer
      BY <1>1 DEF TurnMoves, TurnStep, FindCustomer, InsertConversation, SessionError, TurnAway, Report, StartTool,
                  EndTool, Hear, EndGraph, Reply, Persist, wire
    <2>2. turn[m].stage # "sent"
      BY <1>1 DEF TurnMoves, TurnStep, FindCustomer, InsertConversation, Report, StartTool,
                  EndTool, EndGraph, Persist, Idle, InGraph
    <2>3. Moves(m)
      BY <1>1, TurnMovesServe
    <2> QED
      BY <2>1, <2>2, <2>3, QueueStays DEF Moves
  <1>2. ASSUME NEW r \in Sockets, NEW m \in Messages, Arrives(r, m) PROVE OnTheWayAt(s)'
    <2>1. Received(r, m)
      BY <1>2 DEF Arrives, Refuse, Begin
    <2>2. turn[m].on = r /\ Moves(m)
      BY <1>2, <2>1, ReceivedIs, TurnMovesServe
    <2>3. CASE r # s
      <3>1. toServer'[s] = toServer[s]
        BY <2>1, <2>3, Typed DEF Received, WireTypes
      <3> QED
        BY <2>2, <2>3, <3>1, QueueStays DEF Moves
    <2>4. CASE r = s
      <3>1. /\ toServer[s] # << >> /\ toServer[s] \in Seq(Messages \cup {CloseFrame}) /\ Head(toServer[s]) = m
            /\ toServer'[s] = Tail(toServer[s])
        BY <2>1, <2>4, Typed DEF Received, WireTypes
      <3>2. /\ 1 \in DOMAIN toServer[s] /\ toServer[s][1] = m
            /\ Len(toServer[s]) \in Nat \ {0} /\ DOMAIN toServer'[s] = 1..(Len(toServer[s]) - 1)
            /\ \A i \in DOMAIN toServer'[s] : i + 1 \in DOMAIN toServer[s] /\ toServer'[s][i] = toServer[s][i + 1]
        BY <3>1, TailOf
      <3>3. \A i \in DOMAIN toServer[s] : toServer[s][i] \in Messages \cup {CloseFrame}
        BY <3>1, ElementOfSeq
      <3>4. m # CloseFrame
        BY Numbers
      <3>5. \A j \in DOMAIN toServer[s] : toServer[s][j] = m => j = 1
        BY <3>2, <3>4 DEF IInv, OnTheWay
      <3>6. \A i \in DOMAIN toServer'[s] : toServer'[s][i] # CloseFrame =>
              /\ i + 1 \in DOMAIN toServer[s] /\ toServer'[s][i] = toServer[s][i + 1]
              /\ turn'[toServer[s][i + 1]] = turn[toServer[s][i + 1]]
        BY <2>2, <3>2, <3>3, <3>5 DEF Moves
      <3> QED
        BY <1>0, <3>6, QueueShrinks DEF OnTheWayAt
    <2> QED
      BY <2>3, <2>4
  <1>3. ASSUME NEW r \in Sockets, Links(r) PROVE OnTheWayAt(s)'
    BY <1>0, <1>3, QueueClosed DEF Links, LinkFrame
  <1>4. ASSUME NEW r \in Sockets, OnOpen(r) \/ OnMessage(r) PROVE OnTheWayAt(s)'
    BY <1>0, <1>4, QueueClosed DEF OnOpen, OnMessage
  <1>5. ASSUME NEW r \in Sockets, OnClose(r) PROVE OnTheWayAt(s)'
    <2>1. toServer'[s] = toServer[s] \/ toServer'[s] = Append(toServer[s], CloseFrame)
      BY <1>5, Typed DEF OnClose, WireTypes
    <2> QED
      BY <1>0, <1>5, <2>1, QueueClosed DEF OnClose
  <1>6. CASE Anew
    <2>1. Retires /\ UNCHANGED turn
      BY <1>6, RetireMoves DEF Anew
    <2>2. toServer'[s] = toServer[s] \/ toServer'[s] = Append(toServer[s], CloseFrame)
      BY <2>1 DEF Retires
    <2> QED
      BY <1>0, <2>1, <2>2, QueueClosed
  <1>7. CASE SendDraft
    <2>1. PICK m \in Messages : Sends(m)
      BY <1>7, SendIs
    <2>2. /\ turn[m].stage = "unsent" /\ current \in Sockets
          /\ turn'[m].on = current /\ turn'[m].stage = "sent"
          /\ \A n \in Messages : n # m => turn'[n] = turn[n]
          /\ toServer' = toServer \/ toServer' = [toServer EXCEPT ![current] = Append(toServer[current], m)]
      BY <2>1 DEF Sends
    <2>3. CASE toServer'[s] = toServer[s]
      BY <2>2, <2>3, QueueStays
    <2>4. CASE toServer'[s] # toServer[s]
      <3>1. s = current /\ toServer'[s] = Append(toServer[s], m)
        BY <2>2, <2>4, Typed DEF WireTypes
      <3>2. toServer[s] \in Seq(Messages \cup {CloseFrame})
        BY Typed
      <3>3. /\ Len(toServer[s]) \in Nat /\ DOMAIN toServer'[s] = 1..(Len(toServer[s]) + 1) /\ DOMAIN toServer[s] = 1..Len(toServer[s])
            /\ \A i \in 1..Len(toServer[s]) : toServer'[s][i] = toServer[s][i]
            /\ toServer'[s][Len(toServer[s]) + 1] = m
        BY <3>1, <3>2, AppendOf
      <3>4. \A i \in DOMAIN toServer[s] : toServer[s][i] # m /\ toServer[s][i] \in Messages \cup {CloseFrame}
        BY <2>2, <3>2, ElementOfSeq, Numbers DEF IInv, OnTheWay
      <3>5. \A i \in DOMAIN toServer[s] : toServer[s][i] # CloseFrame =>
                turn'[toServer[s][i]] = turn[toServer[s][i]]
        BY <2>2, <3>4
      <3> QED
        BY <2>2, <3>1, <3>3, <3>4, <3>5 DEF OnTheWayAt, IInv, OnTheWay
    <2> QED
      BY <2>3, <2>4
  <1>8. CASE UNCHANGED vars
    BY <1>0, <1>8, QueueClosed DEF vars, wire
  <1> QED
    BY <1>1, <1>2, <1>3, <1>4, <1>5, <1>6, <1>7, <1>8, Steps

-----------------------------------------------------------------------------
\* The handler

\* A step under way keeps the socket busy, a step that ends the turn frees it.
Occupies(m) ==
    /\ turn[m].stage \in Running
    /\ \/ turn'[m].stage \in Running /\ busy' = busy
       \/ turn'[m].stage \in Running /\ busy' = [busy EXCEPT ![turn[m].on] = TRUE]
       \/ turn'[m].stage = "done" /\ busy' = [busy EXCEPT ![turn[m].on] = FALSE]

LEMMA TurnOccupies ==
    ASSUME IInv, NEW m \in Messages, TurnMoves(m)
    PROVE  Occupies(m)
  <1>0. turn \in [Messages -> Turn] /\ turn[m] \in Turn
    BY Typed
  <1>1. ASSUME NEW c, turn' = [turn EXCEPT ![m].stage = "done", ![m].reply = c] PROVE turn'[m].stage = "done"
    BY <1>0, <1>1 DEF Turn
  <1>2. ASSUME NEW stage, turn' = [turn EXCEPT ![m].stage = stage] PROVE turn'[m].stage = stage
    BY <1>0, <1>2 DEF Turn
  <1>3. CASE FindCustomer(m)
    <2>1. turn[m].stage \in Running
      BY <1>3 DEF FindCustomer, Running
    <2>2. CASE SessionError(m)
      BY <2>1, <2>2, <1>1 DEF SessionError, Occupies
    <2>3. CASE TurnAway(turn[m].on, m)
      BY <2>1, <2>3, <1>1 DEF TurnAway, Occupies
    <2>4. CASE turn' = [turn EXCEPT ![m].stage = "insertConversation"] /\ UNCHANGED <<wire, session, busy>>
      BY <2>1, <2>4, <1>2 DEF Occupies, Running
    <2> QED
      BY <1>3, <2>2, <2>3, <2>4 DEF FindCustomer
  <1>4. CASE InsertConversation(m)
    <2>1. turn[m].stage \in Running
      BY <1>4 DEF InsertConversation, Running
    <2>2. CASE SessionError(m)
      BY <2>1, <2>2, <1>1 DEF SessionError, Occupies
    <2>3. CASE turn' = [turn EXCEPT ![m].stage = "graph"] /\ UNCHANGED <<wire, busy>>
      BY <2>1, <2>3, <1>2 DEF Occupies, Running
    <2> QED
      BY <1>4, <2>2, <2>3 DEF InsertConversation
  <1>5. CASE Report(m) \/ StartTool(m) \/ EndTool(m)
    <2>1. turn[m].stage = "graph"
      BY <1>5 DEF Report, StartTool, EndTool, Idle, InGraph
    <2>2. PICK f, n : Hear(m, f, n)
      BY <1>5 DEF Report, StartTool, EndTool
    <2>3. turn'[m].stage \in {"graph", "throwing"}
      BY <1>0, <2>1, <2>2 DEF Hear, Turn
    <2> QED
      BY <2>1, <2>2, <2>3 DEF Hear, handler, Occupies, Running
  <1>6. CASE EndGraph(m)
    <2>1. turn[m].stage \in {"graph", "throwing"}
      BY <1>6 DEF EndGraph, Idle, InGraph
    <2>2. PICK reply, f : Reply(m, reply, f)
      BY <1>6 DEF EndGraph
    <2>3. CASE turn[m].audit > 0
      <3>1. turn' = [turn EXCEPT ![m].reply = reply, ![m].stage = "audit"] /\ busy' = [busy EXCEPT ![turn[m].on] = TRUE]
        <4>1. PICK batch \in BOOLEAN : batch = (turn[m].audit > 0) /\ batch = TRUE
          BY <2>3
        <4>2. /\ busy' = [busy EXCEPT ![turn[m].on] = batch]
              /\ turn' = [turn EXCEPT ![m].reply = reply, ![m].stage = IF batch THEN "audit" ELSE "done"]
          BY <2>2, <4>1 DEF Reply
        <4> QED
          BY <4>1, <4>2
      <3>2. turn'[m].stage = "audit"
        BY <1>0, <3>1 DEF Turn
      <3> QED
        BY <2>1, <3>1, <3>2 DEF Occupies, Running
    <2>4. CASE ~(turn[m].audit > 0)
      <3>1. turn' = [turn EXCEPT ![m].reply = reply, ![m].stage = "done"] /\ busy' = [busy EXCEPT ![turn[m].on] = FALSE]
        <4>0. (turn[m].audit > 0) \in BOOLEAN
          OBVIOUS
        <4>1. PICK batch \in BOOLEAN : batch = (turn[m].audit > 0)
          BY <4>0
        <4>2. batch = FALSE
          BY <2>4, <4>1
        <4>3. /\ busy' = [busy EXCEPT ![turn[m].on] = batch]
              /\ turn' = [turn EXCEPT ![m].reply = reply, ![m].stage = IF batch THEN "audit" ELSE "done"]
          BY <2>2, <4>1 DEF Reply
        <4> QED
          BY <4>2, <4>3
      <3>2. turn'[m].stage = "done"
        BY <1>0, <3>1 DEF Turn
      <3> QED
        BY <2>1, <3>1, <3>2 DEF Occupies, Running
    <2> QED
      BY <2>3, <2>4
  <1>7. CASE Persist(m)
    BY <1>2, <1>7 DEF Persist, Occupies, Running
  <1> QED
    BY <1>3, <1>4, <1>5, <1>6, <1>7 DEF TurnMoves, TurnStep

\* An arrival is turned away or begins a turn on a socket that has none.
Starts(s, m) ==
    /\ turn[m].on = s /\ turn[m].stage = "sent" /\ turn[m].reply = "none" /\ Moves(m)
    /\ UNCHANGED <<session, rows>>
    /\ \/ turn'[m].stage = "done" /\ turn'[m].reply # "session_error" /\ busy' = busy
       \/ turn'[m].stage = "done" /\ turn'[m].reply # "session_error" /\ busy' = [busy EXCEPT ![s] = FALSE] /\ ~busy[s]
       \/ /\ turn'[m].stage \in {"findCustomer", "graph"} /\ turn'[m].reply = "none"
          /\ turn'[m].stage = "findCustomer" => session[s] = "none"
          /\ busy' = [busy EXCEPT ![s] = TRUE] /\ ~busy[s]

LEMMA ArrivalStarts ==
    ASSUME IInv, NEW s \in Sockets, NEW m \in Messages, Arrives(s, m)
    PROVE  Starts(s, m)
  <1>0. turn \in [Messages -> Turn] /\ turn[m] \in Turn /\ session[s] \in {"none", "created", "customer_not_found"}
    BY Typed DEF HandlerTypes
  <1>1. turn[m].on = s /\ turn[m].stage = "sent" /\ turn[m].reply = "none" /\ Moves(m)
    BY ReceivedIs, TurnMovesServe DEF Arrives, Refuse, Begin
  <1>2. CASE Refuse(s, m)
    <2>1. turn'[m].stage = "done" /\ turn'[m].reply = "busy" /\ UNCHANGED handler
      BY <1>0, <1>2 DEF Refuse, Turn
    <2> QED
      BY <1>1, <2>1 DEF Starts, handler
  <1>3. CASE Begin(s, m) /\ TurnAway(s, m)
    <2>1. turn'[m].stage = "done" /\ turn'[m].reply = "customer_not_found" /\ busy' = [busy EXCEPT ![s] = FALSE]
      BY <1>0, <1>3 DEF TurnAway, Turn
    <2> QED
      BY <1>1, <1>3, <2>1 DEF Starts, Begin
  <1>4. CASE Begin(s, m) /\ ~TurnAway(s, m)
    <2>1. PICK stage \in {"findCustomer", "graph"} : stage = IF session[s] = "created" THEN "graph" ELSE "findCustomer"
      OBVIOUS
    <2>2. turn' = [turn EXCEPT ![m].stage = stage] /\ session[s] # "customer_not_found" /\ busy' = [busy EXCEPT ![s] = TRUE]
      BY <1>4, <2>1 DEF Begin
    <2>3. turn'[m].stage = stage /\ turn'[m].reply = "none"
      BY <1>0, <1>1, <2>2 DEF Turn
    <2> QED
      BY <1>0, <1>1, <1>4, <2>1, <2>2, <2>3 DEF Starts, Begin
  <1> QED
    BY <1>2, <1>3, <1>4 DEF Arrives

LEMMA HandlersStay ==
    ASSUME IInv,
           \/ \E s \in Sockets : Links(s) \/ OnOpen(s) \/ OnMessage(s) \/ OnClose(s)
           \/ Anew \/ UNCHANGED vars
    PROVE  UNCHANGED <<turn, session, busy, rows>>
  BY DEF Links, LinkFrame, OnOpen, OnMessage, OnClose, Anew, vars, handler

LEMMA SendHandlers ==
    ASSUME IInv, SendDraft
    PROVE  UNCHANGED <<session, busy, rows>>
  BY DEF SendDraft, handler

LEMMA BusyNext == IInv /\ [Next]_vars => BusyWithOne'
  <1> SUFFICES ASSUME IInv, [Next]_vars, NEW s \in Sockets
               PROVE  /\ \A m, n \in Messages : At(m, s)' /\ At(n, s)' => m = n
                      /\ busy'[s] = TRUE <=> \E m \in Messages : At(m, s)'
    BY DEF BusyWithOne, At
  <1>0. BusyWithOne /\ busy \in [Sockets -> BOOLEAN]
    BY Typed DEF IInv, HandlerTypes
  <1>1. ASSUME NEW k \in Messages, TurnMoves(k)
        PROVE  /\ \A m, n \in Messages : At(m, s)' /\ At(n, s)' => m = n
               /\ busy'[s] = TRUE <=> \E m \in Messages : At(m, s)'
    <2>1. Occupies(k) /\ Moves(k)
      BY <1>1, TurnOccupies, TurnMovesServe
    <2>2. turn[k].on \in Sockets
      BY <2>1, Typed DEF Occupies, Running
    <2>3. At(k, turn[k].on) /\ turn'[k].on = turn[k].on
      BY <2>1 DEF At, Occupies, Moves
    <2>4. \A n \in Messages : n # k => (At(n, s)' <=> At(n, s))
      BY <2>1 DEF At, Moves
    <2>5. \A n \in Messages : n # k /\ turn[k].on = s => ~At(n, s)
      BY <1>0, <2>3 DEF BusyWithOne
    <2>6. busy[turn[k].on] = TRUE
      BY <1>0, <2>2, <2>3 DEF BusyWithOne
    <2>7. CASE turn[k].on # s
      <3>1. ~At(k, s) /\ ~At(k, s)'
        BY <2>3, <2>7 DEF At
      <3>2. busy'[s] = busy[s]
        BY <1>0, <2>1, <2>7 DEF Occupies
      <3> QED
        BY <1>0, <2>4, <3>1, <3>2 DEF BusyWithOne
    <2>8. CASE turn[k].on = s /\ turn'[k].stage \in Running
      <3>1. At(k, s)' /\ busy'[s] = TRUE
        BY <1>0, <2>1, <2>3, <2>6, <2>8 DEF At, Occupies, Running
      <3> QED
        BY <2>4, <2>5, <2>8, <3>1
    <2>9. CASE turn[k].on = s /\ turn'[k].stage \notin Running
      <3>1. ~At(k, s)' /\ busy'[s] = FALSE
        BY <1>0, <2>1, <2>9 DEF At, Occupies
      <3> QED
        BY <2>4, <2>5, <2>9, <3>1
    <2> QED
      BY <2>7, <2>8, <2>9
  <1>2. ASSUME NEW r \in Sockets, NEW k \in Messages, Arrives(r, k)
        PROVE  /\ \A m, n \in Messages : At(m, s)' /\ At(n, s)' => m = n
               /\ busy'[s] = TRUE <=> \E m \in Messages : At(m, s)'
    <2>1. Starts(r, k) /\ Moves(k)
      BY <1>2, ArrivalStarts DEF Starts
    <2>2. turn[k].on = r /\ turn'[k].on = r /\ ~At(k, s)
      BY <2>1 DEF Starts, Moves, At, Running
    <2>3. \A n \in Messages : n # k => (At(n, s)' <=> At(n, s))
      BY <2>1 DEF At, Moves
    <2>4. CASE turn'[k].stage = "done"
      <3>1. ~At(k, s)'
        BY <2>4 DEF At, Running
      <3>2. busy'[s] = busy[s]
        BY <1>0, <2>1, <2>4 DEF Starts
      <3> QED
        BY <1>0, <2>2, <2>3, <3>1, <3>2 DEF BusyWithOne
    <2>5. CASE turn'[k].stage # "done"
      <3>1. busy' = [busy EXCEPT ![r] = TRUE] /\ ~busy[r] /\ turn'[k].stage \in Running
        BY <2>1, <2>5 DEF Starts, Running
      <3>2. CASE r = s
        <4>1. \A n \in Messages : ~At(n, s)
          BY <1>0, <3>1, <3>2 DEF BusyWithOne
        <4>2. At(k, s)' /\ busy'[s] = TRUE
          BY <1>0, <2>2, <3>1, <3>2 DEF At
        <4> QED
          BY <2>3, <4>1, <4>2
      <3>3. CASE r # s
        <4>1. ~At(k, s)' /\ busy'[s] = busy[s]
          BY <1>0, <2>2, <3>1, <3>3 DEF At
        <4> QED
          BY <1>0, <2>2, <2>3, <4>1 DEF BusyWithOne
      <3> QED
        BY <3>2, <3>3
    <2> QED
      BY <2>4, <2>5
  <1>3. CASE UNCHANGED <<turn, busy>>
    BY <1>0, <1>3 DEF BusyWithOne, At
  <1>4. CASE SendDraft
    <2>1. PICK k \in Messages : Sends(k)
      BY <1>4, SendIs
    <2>2. ~At(k, s) /\ ~At(k, s)' /\ \A n \in Messages : n # k => (At(n, s)' <=> At(n, s))
      BY <2>1 DEF Sends, At, Running
    <2> QED
      BY <1>0, <1>4, <2>2, SendHandlers DEF BusyWithOne
  <1> QED
    BY <1>1, <1>2, <1>3, <1>4, Steps, HandlersStay

\* What a step of a turn does to the session of its socket.
Sessions(m) ==
    LET s == turn[m].on IN
    \/ /\ UNCHANGED <<session, rows>>
       /\ turn'[m].stage \in {"findCustomer", "insertConversation"} =>
             turn[m].stage \in {"findCustomer", "insertConversation"}
    \/ /\ turn[m].stage = "findCustomer" /\ turn'[m].stage = "done"
       /\ session' = [session EXCEPT ![s] = "customer_not_found"] /\ UNCHANGED rows
    \/ /\ turn[m].stage = "insertConversation" /\ turn'[m].stage = "graph"
       /\ session' = [session EXCEPT ![s] = "created"] /\ rows' = [rows EXCEPT ![s] = @ + 1]
    \/ /\ turn[m].stage = "insertConversation" /\ turn'[m].stage = "done" /\ turn'[m].reply = "session_error"
       /\ \E n \in {0, 1} : rows' = [rows EXCEPT ![s] = @ + n]
       /\ UNCHANGED session

LEMMA TurnSessions ==
    ASSUME IInv, NEW m \in Messages, TurnMoves(m)
    PROVE  Sessions(m)
  <1>0. turn \in [Messages -> Turn] /\ turn[m] \in Turn
    BY Typed
  <1>1. ASSUME NEW c, turn' = [turn EXCEPT ![m].stage = "done", ![m].reply = c]
        PROVE  turn'[m].stage = "done" /\ turn'[m].reply = c
    BY <1>0, <1>1 DEF Turn
  <1>2. ASSUME NEW stage, turn' = [turn EXCEPT ![m].stage = stage] PROVE turn'[m].stage = stage
    BY <1>0, <1>2 DEF Turn
  <1>3. CASE FindCustomer(m)
    <2>1. CASE SessionError(m)
      BY <1>3, <2>1, <1>1 DEF FindCustomer, SessionError, Sessions
    <2>2. CASE session' = [session EXCEPT ![turn[m].on] = "customer_not_found"] /\ TurnAway(turn[m].on, m)
      BY <1>3, <2>2, <1>1 DEF FindCustomer, TurnAway, Sessions
    <2>3. CASE turn' = [turn EXCEPT ![m].stage = "insertConversation"] /\ UNCHANGED <<wire, session, busy>>
      BY <1>3, <2>3, <1>2 DEF FindCustomer, Sessions
    <2> QED
      BY <1>3, <2>1, <2>2, <2>3 DEF FindCustomer
  <1>4. CASE InsertConversation(m)
    <2>1. CASE SessionError(m) /\ \E n \in {0, 1} : rows' = [rows EXCEPT ![turn[m].on] = @ + n]
      BY <1>4, <2>1, <1>1 DEF InsertConversation, SessionError, Sessions
    <2>2. CASE /\ rows' = [rows EXCEPT ![turn[m].on] = @ + 1] /\ session' = [session EXCEPT ![turn[m].on] = "created"]
               /\ turn' = [turn EXCEPT ![m].stage = "graph"]
      BY <1>4, <2>2, <1>2 DEF InsertConversation, Sessions
    <2> QED
      BY <1>4, <2>1, <2>2 DEF InsertConversation
  <1>5. CASE Report(m) \/ StartTool(m) \/ EndTool(m)
    <2>1. turn[m].stage = "graph"
      BY <1>5 DEF Report, StartTool, EndTool, Idle, InGraph
    <2>2. PICK f, n : Hear(m, f, n)
      BY <1>5 DEF Report, StartTool, EndTool
    <2>3. turn'[m].stage \in {"graph", "throwing"}
      BY <1>0, <2>1, <2>2 DEF Hear, Turn
    <2> QED
      BY <2>2, <2>3 DEF Hear, handler, Sessions
  <1>6. CASE EndGraph(m)
    <2>1. PICK reply, f : Reply(m, reply, f)
      BY <1>6 DEF EndGraph
    <2>2. PICK stage \in {"audit", "done"} : stage = IF turn[m].audit > 0 THEN "audit" ELSE "done"
      OBVIOUS
    <2>3. turn' = [turn EXCEPT ![m].reply = reply, ![m].stage = stage]
      BY <2>1, <2>2 DEF Reply
    <2>4. turn'[m].stage = stage
      BY <1>0, <2>3 DEF Turn
    <2> QED
      BY <2>1, <2>2, <2>4 DEF Reply, Sessions
  <1>7. CASE Persist(m)
    BY <1>2, <1>7 DEF Persist, Sessions
  <1> QED
    BY <1>3, <1>4, <1>5, <1>6, <1>7 DEF TurnMoves, TurnStep

LEMMA SessionOnceNext == IInv /\ [Next]_vars => SessionOnce'
  <1> SUFFICES ASSUME IInv, [Next]_vars, NEW n \in Messages,
                      turn'[n].stage \in {"findCustomer", "insertConversation"}
               PROVE  session'[turn'[n].on] = "none"
    BY DEF SessionOnce
  <1>0. SessionOnce /\ session \in [Sockets -> {"none", "created", "customer_not_found"}]
    BY Typed DEF IInv, HandlerTypes
  <1>1. ASSUME NEW k \in Messages, TurnMoves(k) PROVE session'[turn'[n].on] = "none"
    <2>1. Sessions(k) /\ Moves(k) /\ Occupies(k)
      BY <1>1, TurnSessions, TurnMovesServe, TurnOccupies
    <2>2. CASE n = k
      BY <1>0, <2>1, <2>2 DEF Sessions, Moves, SessionOnce
    <2>3. CASE n # k
      <3>1. turn'[n] = turn[n] /\ turn[n].stage \in Running /\ turn[n].stage # "unsent" /\ turn[k].stage # "unsent"
        BY <2>1, <2>3 DEF Moves, Running
      <3>2. turn[n].on \in Sockets /\ turn[k].on \in Sockets
        BY <3>1, Typed
      <3>3. turn[n].on # turn[k].on
        <4>1. SUFFICES ASSUME turn[n].on = turn[k].on PROVE FALSE
          OBVIOUS
        <4>2. At(n, turn[n].on) /\ At(k, turn[n].on)
          BY <2>1, <3>1, <4>1 DEF At, Occupies
        <4> QED
          BY <2>3, <3>2, <4>2 DEF IInv, BusyWithOne
      <3>4. session'[turn[n].on] = session[turn[n].on]
        BY <1>0, <2>1, <3>2, <3>3 DEF Sessions
      <3> QED
        BY <1>0, <3>1, <3>4 DEF SessionOnce
    <2> QED
      BY <2>2, <2>3
  <1>2. ASSUME NEW r \in Sockets, NEW k \in Messages, Arrives(r, k) PROVE session'[turn'[n].on] = "none"
    <2>1. Starts(r, k)
      BY <1>2, ArrivalStarts
    <2> QED
      BY <1>0, <2>1 DEF Starts, Moves, SessionOnce
  <1>3. CASE UNCHANGED <<turn, session>>
    BY <1>0, <1>3 DEF SessionOnce
  <1>4. CASE SendDraft
    <2>1. PICK k \in Messages : Sends(k)
      BY <1>4, SendIs
    <2> QED
      BY <1>0, <1>4, <2>1, SendHandlers DEF Sends, SessionOnce
  <1> QED
    BY <1>1, <1>2, <1>3, <1>4, Steps, HandlersStay

Failed(s) == {m \in Messages : turn[m].on = s /\ turn[m].reply = "session_error"}

LEMMA FailedFinite ==
    /\ \A s : IsFiniteSet(Failed(s)) /\ Cardinality(Failed(s)) \in Nat
    /\ \A s : IsFiniteSet(Failed(s)') /\ Cardinality(Failed(s)') \in Nat
  <1>1. \A s : Failed(s) \in SUBSET Messages /\ Failed(s)' \in SUBSET Messages
    BY DEF Failed
  <1> QED
    BY <1>1, Numbers, FS_Subset, FS_CardinalityType

LEMMA FailedGrows ==
    ASSUME NEW s, Failed(s) \subseteq Failed(s)'
    PROVE  Cardinality(Failed(s)) <= Cardinality(Failed(s)')
  BY FailedFinite, FS_Subset

LEMMA OneConversationNext == IInv /\ [Next]_vars => OneConversation'
  <1> SUFFICES ASSUME IInv, [Next]_vars, NEW s \in Sockets
               PROVE  rows'[s] <= Cardinality(Failed(s)') + (IF session'[s] = "created" THEN 1 ELSE 0)
    BY DEF OneConversation, Failed
  <1>0. /\ rows[s] <= Cardinality(Failed(s)) + (IF session[s] = "created" THEN 1 ELSE 0)
        /\ rows \in [Sockets -> Nat] /\ session \in [Sockets -> {"none", "created", "customer_not_found"}]
    BY Typed DEF IInv, OneConversation, Failed, HandlerTypes
  <1>1. ASSUME Failed(s) \subseteq Failed(s)', rows'[s] = rows[s], session'[s] = session[s]
        PROVE  rows'[s] <= Cardinality(Failed(s)') + (IF session'[s] = "created" THEN 1 ELSE 0)
    BY <1>0, <1>1, FailedFinite, FailedGrows
  <1>2. ASSUME NEW k \in Messages, Moves(k), turn[k].reply = "none" \/ turn'[k].reply = turn[k].reply
        PROVE  Failed(s) \subseteq Failed(s)'
    BY <1>2 DEF Moves, Failed
  <1>3. ASSUME NEW k \in Messages, TurnMoves(k)
        PROVE  rows'[s] <= Cardinality(Failed(s)') + (IF session'[s] = "created" THEN 1 ELSE 0)
    <2>1. Sessions(k) /\ Moves(k) /\ Serves(k) /\ Occupies(k)
      BY <1>3, TurnSessions, TurnMovesServe, TurnOccupies
    <2>2. turn[k].reply = "none" \/ turn'[k].reply = turn[k].reply
      BY <2>1 DEF Serves, Silently, Tells, Concludes
    <2>3. Failed(s) \subseteq Failed(s)' /\ Cardinality(Failed(s)) <= Cardinality(Failed(s)')
      BY <1>2, <2>1, <2>2, FailedGrows
    <2>4. turn[k].on \in Sockets
      BY <2>1, Typed DEF Moves
    <2>5. CASE turn[k].on # s
      <3>1. rows'[s] = rows[s] /\ session'[s] = session[s]
        BY <1>0, <2>1, <2>4, <2>5 DEF Sessions
      <3> QED
        BY <1>1, <2>3, <3>1
    <2>6. CASE turn[k].on = s
      <3>1. CASE UNCHANGED <<session, rows>>
        BY <1>1, <2>3, <3>1
      <3>2. CASE turn[k].stage \in {"findCustomer", "insertConversation"}
        <4>1. session[s] = "none"
          BY <2>6, <3>2 DEF IInv, SessionOnce
        <4>2. CASE session' = [session EXCEPT ![s] = "customer_not_found"] /\ UNCHANGED rows
          <5>1. session'[s] = "customer_not_found"
            BY <1>0, <4>2
          <5> QED
            BY <1>0, <2>3, <4>1, <4>2, <5>1, FailedFinite
        <4>3. CASE session' = [session EXCEPT ![s] = "created"] /\ rows' = [rows EXCEPT ![s] = @ + 1]
          <5>1. session'[s] = "created" /\ rows'[s] = rows[s] + 1
            BY <1>0, <4>3
          <5> QED
            BY <1>0, <2>3, <4>1, <5>1, FailedFinite
        <4>4. CASE /\ turn'[k].reply = "session_error" /\ turn[k].stage = "insertConversation" /\ UNCHANGED session
                   /\ \E n \in {0, 1} : rows' = [rows EXCEPT ![s] = @ + n]
          <5>1. turn[k].reply = "none"
            BY <4>4 DEF IInv, TurnShape, Unreplied
          <5>2. Failed(s)' = Failed(s) \cup {k} /\ k \notin Failed(s)
            BY <2>1, <2>6, <4>4, <5>1 DEF Failed, Moves
          <5>3. Cardinality(Failed(s)') = Cardinality(Failed(s)) + 1
            BY <5>2, FailedFinite, FS_AddElement
          <5>4. rows'[s] \in Nat /\ rows'[s] <= rows[s] + 1
            BY <1>0, <4>4
          <5> QED
            BY <1>0, <4>1, <4>4, <5>3, <5>4, FailedFinite
        <4> QED
          BY <2>1, <2>6, <3>1, <4>2, <4>3, <4>4 DEF Sessions
      <3> QED
        BY <2>1, <3>1, <3>2 DEF Sessions
    <2> QED
      BY <2>5, <2>6
  <1>4. ASSUME NEW r \in Sockets, NEW k \in Messages, Arrives(r, k)
        PROVE  rows'[s] <= Cardinality(Failed(s)') + (IF session'[s] = "created" THEN 1 ELSE 0)
    <2>1. Starts(r, k)
      BY <1>4, ArrivalStarts
    <2>2. Failed(s) \subseteq Failed(s)'
      BY <1>2, <2>1 DEF Starts
    <2> QED
      BY <1>1, <2>1, <2>2 DEF Starts
  <1>5. CASE UNCHANGED <<turn, session, rows>>
    BY <1>1, <1>5 DEF Failed
  <1>6. CASE SendDraft
    <2>1. PICK k \in Messages : Sends(k)
      BY <1>6, SendIs
    <2>2. Failed(s) \subseteq Failed(s)'
      BY <2>1 DEF Failed, Sends, Unsent
    <2> QED
      BY <1>1, <1>6, <2>2, SendHandlers
  <1> QED
    BY <1>3, <1>4, <1>5, <1>6, Steps, HandlersStay

-----------------------------------------------------------------------------
\* The connections

LEMMA Connected ==
    ASSUME IInv, NEW s \in Sockets
    PROVE  ConnectedAt(s) /\ ClosingAt(s)
  BY DEF IInv, Connections

LEMMA ConnectedKept ==
    ASSUME IInv, NEW s \in Sockets, ready'[s] = ready[s], link'[s] = link[s], toClient'[s] = toClient[s], current' = current
    PROVE  ConnectedAt(s)'
  BY Connected DEF ConnectedAt

LEMMA ServeConnected ==
    ASSUME IInv, NEW m \in Messages, Serves(m), NEW s \in Sockets
    PROVE  ConnectedAt(s)'
  <1>0. Moves(m) /\ UNCHANGED <<ready, current>>
    BY DEF Serves, Silently, Tells, Concludes, Moves, browser
  <1>1. CASE Silently(m)
    BY <1>0, <1>1, ConnectedKept DEF Silently
  <1>2. ASSUME NEW f \in Frames, Tells(m, f) \/ Concludes(m, f)
        PROVE  ConnectedAt(s)'
    <2>1. /\ \A r \in Sockets : r # turn[m].on => link'[r] = link[r]
          /\ turn[m].on \in Sockets
          /\ \/ Unheard(m) /\ (link'[turn[m].on] = link[turn[m].on] \/ (link[turn[m].on] = "open" /\ link'[turn[m].on] = "closing"))
             \/ HeardOnly(m, <<f>>) /\ UNCHANGED link
             \/ HeardOnly(m, <<f, Close>>) /\ link'[turn[m].on] = "closing"
      BY <1>2, ServeSends
    <2>2. f # Open /\ f # Close
      BY <1>2, OpenAndClose DEF Tells, Concludes, Ends
    <2>3. CASE s # turn[m].on
      <3>1. link'[s] = link[s] /\ toClient'[s] = toClient[s]
        BY <2>1, <2>3 DEF Unheard, HeardOnly, Appended
      <3> QED
        BY <1>0, <3>1, ConnectedKept
    <2>4. CASE s = turn[m].on /\ Unheard(m)
      <3>1. CASE link'[s] = link[s]
        BY <1>0, <2>4, <3>1, ConnectedKept DEF Unheard
      <3>2. CASE link[s] = "open" /\ link'[s] = "closing"
        BY <1>0, <2>4, <3>2, Connected DEF ConnectedAt, Unheard, IsShown
      <3> QED
        BY <2>1, <2>4, <3>1, <3>2 DEF Unheard, HeardOnly
    <2>5. ASSUME s = turn[m].on, HeardOnly(m, <<f>>), UNCHANGED link PROVE ConnectedAt(s)'
      <3>1. link[s] = "open" /\ IsShown(s) /\ Appended(s, <<f>>)
        BY <2>5 DEF HeardOnly
      <3>2. s = current /\ \A i \in DOMAIN toClient[s] : toClient[s][i] # Close
        BY <3>1, Connected DEF ConnectedAt, IsShown
      <3>3. /\ Len(toClient[s]) \in Nat /\ DOMAIN toClient[s] = 1..Len(toClient[s])
            /\ DOMAIN toClient'[s] = 1..(Len(toClient[s]) + 1)
            /\ \A i \in 1..Len(toClient[s]) : toClient'[s][i] = toClient[s][i]
            /\ toClient'[s][Len(toClient[s]) + 1] = f
        BY <3>1 DEF Appended
      <3>4. \A i \in DOMAIN toClient'[s] : toClient'[s][i] # Close /\ (toClient'[s][i] = Open => i \in DOMAIN toClient[s] /\ toClient[s][i] = Open)
        BY <2>2, <3>2, <3>3
      <3> QED
        BY <1>0, <2>5, <3>1, <3>2, <3>4, Connected DEF ConnectedAt, IsShown
    <2>6. ASSUME s = turn[m].on, HeardOnly(m, <<f, Close>>), link'[s] = "closing" PROVE ConnectedAt(s)'
      <3>1. link[s] = "open" /\ IsShown(s) /\ Appended(s, <<f, Close>>)
        BY <2>6 DEF HeardOnly
      <3>2. s = current /\ \A i \in DOMAIN toClient[s] : toClient[s][i] # Close
        BY <3>1, Connected DEF ConnectedAt, IsShown
      <3>3. /\ Len(toClient[s]) \in Nat /\ DOMAIN toClient[s] = 1..Len(toClient[s])
            /\ DOMAIN toClient'[s] = 1..(Len(toClient[s]) + 2) /\ Len(toClient'[s]) = Len(toClient[s]) + 2
            /\ \A i \in 1..Len(toClient[s]) : toClient'[s][i] = toClient[s][i]
            /\ toClient'[s][Len(toClient[s]) + 1] = f /\ toClient'[s][Len(toClient[s]) + 2] = Close
        BY <3>1 DEF Appended
      <3>4. \A i \in DOMAIN toClient'[s] :
              /\ toClient'[s][i] = Close => i = Len(toClient'[s])
              /\ toClient'[s][i] = Open => i \in DOMAIN toClient[s] /\ toClient[s][i] = Open
        <4> SUFFICES ASSUME NEW i \in DOMAIN toClient'[s]
                     PROVE  /\ toClient'[s][i] = Close => i = Len(toClient'[s])
                            /\ toClient'[s][i] = Open => i \in DOMAIN toClient[s] /\ toClient[s][i] = Open
          OBVIOUS
        <4>1. CASE i \in DOMAIN toClient[s]
          BY <3>2, <3>3, <4>1
        <4>2. CASE i \notin DOMAIN toClient[s]
          <5>1. i = Len(toClient[s]) + 1 \/ i = Len(toClient[s]) + 2
            BY <3>3, <4>2
          <5> QED
            BY <2>2, <3>3, <5>1, OpenAndClose
        <4> QED
          BY <4>1, <4>2
      <3>5. toClient'[s] # << >> /\ toClient'[s][Len(toClient'[s])] = Close
        BY <3>3
      <3> QED
        BY <1>0, <2>6, <3>1, <3>2, <3>4, <3>5, Connected DEF ConnectedAt, IsShown
    <2> QED
      BY <2>1, <2>3, <2>4, <2>5, <2>6
  <1> QED
    BY <1>1, <1>2 DEF Serves

LEMMA LinkConnected ==
    ASSUME IInv, NEW r \in Sockets, Links(r), UNCHANGED browser, NEW s \in Sockets
    PROVE  ConnectedAt(s)'
  <1>0. UNCHANGED <<ready, current>>
    BY DEF Links, LinkFrame, browser
  <1>1. CASE s # r
    <2>1. link'[s] = link[s] /\ toClient'[s] = toClient[s]
      BY <1>1 DEF Links, LinkFrame
    <2> QED
      BY <1>0, <2>1, ConnectedKept
  <1>2. CASE s = r /\ Opened(s)
    <2>1. \A i \in DOMAIN toClient'[s] : i = 1 /\ toClient'[s][i] = Open
      BY <1>2 DEF Opened
    <2> QED
      BY <1>0, <1>2, <2>1, Connected, OpenAndClose DEF ConnectedAt, Opened
  <1>3. ASSUME s = r, NEW n \in Nat, CutAt(s, n), link[s] # "none" \/ ready[s] = "connecting"
        PROVE  ConnectedAt(s)'
    <2>1. /\ link'[s] = "closed" /\ n \in 0..Len(toClient[s])
          /\ DOMAIN toClient'[s] = 1..(n + 1) /\ Len(toClient'[s]) = n + 1
          /\ \A i \in 1..n : toClient'[s][i] = toClient[s][i]
          /\ \A i \in 1..n : toClient[s][i] # Close
          /\ toClient'[s][n + 1] = Close
      BY <1>3 DEF CutAt
    <2>2. DOMAIN toClient[s] = 1..Len(toClient[s]) /\ Len(toClient[s]) \in Nat
      BY Typed
    <2>3. \A i \in DOMAIN toClient'[s] :
              /\ toClient'[s][i] = Close => i = Len(toClient'[s])
              /\ toClient'[s][i] = Open => i \in DOMAIN toClient[s] /\ toClient[s][i] = Open
      BY <2>1, <2>2, OpenAndClose
    <2>4. toClient'[s] # << >> /\ toClient'[s][Len(toClient'[s])] = Close
      BY <2>1
    <2>5. s # current => \A i \in DOMAIN toClient'[s] : toClient'[s][i] = Close
      BY <2>1, <2>2, Connected DEF ConnectedAt
    <2>6. ready[s] # "none"
      BY <1>3, Connected DEF ConnectedAt
    <2> QED
      BY <1>0, <2>1, <2>3, <2>4, <2>5, <2>6, Connected DEF ConnectedAt
  <1>4. CASE s = r /\ toClient' = toClient /\ link'[s] = "closed" /\ ready[s] \in {"closing", "closed"}
    BY <1>0, <1>4, Connected DEF ConnectedAt
  <1> QED
    BY <1>1, <1>2, <1>3, <1>4 DEF Links

LEMMA PopConnected ==
    ASSUME IInv, NEW r \in Sockets, OnOpen(r) \/ OnMessage(r), NEW s \in Sockets
    PROVE  ConnectedAt(s)'
  <1>0. UNCHANGED <<link, current>> /\ r = current /\ Popped(r)
    BY OpenIsCurrent, MessageIsCurrent DEF OnOpen, OnMessage
  <1>1. CASE s # r
    <2>1. toClient'[s] = toClient[s] /\ ready'[s] = ready[s]
      BY <1>0, <1>1, Typed DEF Popped, OnOpen, OnMessage, WireTypes
    <2> QED
      BY <1>0, <2>1, ConnectedKept
  <1>2. CASE s = r
    <2>1. /\ Len(toClient[s]) \in Nat \ {0} /\ DOMAIN toClient[s] = 1..Len(toClient[s])
          /\ Len(toClient'[s]) = Len(toClient[s]) - 1 /\ DOMAIN toClient'[s] = 1..(Len(toClient[s]) - 1)
          /\ \A i \in DOMAIN toClient'[s] : toClient'[s][i] = toClient[s][i + 1]
      BY <1>0, <1>2 DEF Popped
    <2>2. ready'[s] = "open" /\ toClient[s][1] # Close /\ (toClient[s][1] = Open \/ ready[s] = "open")
      <3>1. CASE OnOpen(r)
        BY <1>2, <3>1, OpenIsCurrent, OpenAndClose, Typed DEF OnOpen, WireTypes
      <3>2. CASE OnMessage(r)
        BY <1>2, <3>2, MessageIsCurrent, OpenAndClose DEF OnMessage, OfTurn
      <3> QED
        BY <3>1, <3>2
    <2>3. \A i \in DOMAIN toClient'[s] : i + 1 \in DOMAIN toClient[s] /\ i + 1 # 1
      BY <2>1
    <2>4. \A i \in DOMAIN toClient'[s] : toClient'[s][i] # Open
      BY <2>1, <2>3, Connected DEF ConnectedAt
    <2>5. \A i \in DOMAIN toClient'[s] : toClient'[s][i] = Close => i = Len(toClient'[s]) /\ link[s] # "open"
      <3>1. TAKE i \in DOMAIN toClient'[s]
      <3>2. HAVE toClient'[s][i] = Close
      <3>3. i + 1 \in DOMAIN toClient[s] /\ toClient[s][i + 1] = Close
        BY <2>1, <2>3, <3>2
      <3>4. i + 1 = Len(toClient[s]) /\ link[s] # "open"
        BY <3>3, Connected DEF ConnectedAt
      <3> QED
        BY <2>1, <3>4
    <2>6. link[s] # "none"
      <3>1. SUFFICES ASSUME link[s] = "none" PROVE FALSE
        OBVIOUS
      <3>2. toClient[s] = << >> \/ toClient[s] = <<Close>>
        BY <3>1, Connected DEF ConnectedAt
      <3> QED
        BY <2>1, <2>2, <3>2
    <2>7. link[s] \in {"closing", "closed"} => toClient'[s] # << >> /\ toClient'[s][Len(toClient'[s])] = Close
      <3>1. HAVE link[s] \in {"closing", "closed"}
      <3>2. ready[s] \in {"connecting", "open"}
        BY <1>0, <1>2, <2>2, OpenIsCurrent DEF OnMessage
      <3>3. toClient[s][Len(toClient[s])] = Close
        BY <3>1, <3>2, Connected DEF ConnectedAt
      <3>4. Len(toClient[s]) # 1
        BY <2>2, <3>3
      <3>5. PICK k : k = Len(toClient[s]) - 1
        OBVIOUS
      <3>50. k \in Nat /\ k >= 1
        <4>1. Len(toClient[s]) \in Nat \ {0}
          BY <2>1
        <4>2. PICK n : n = Len(toClient[s])
          OBVIOUS
        <4>3. n \in Nat \ {0} /\ n # 1 /\ k = n - 1
          BY <3>4, <3>5, <4>1, <4>2
        <4> QED
          BY <4>3
      <3>6. DOMAIN toClient'[s] = 1..k /\ Len(toClient'[s]) = k /\ k + 1 = Len(toClient[s])
        BY <2>1, <3>5, <3>50
      <3>7. k \in DOMAIN toClient'[s] /\ toClient'[s][k] = toClient[s][k + 1]
        BY <2>1, <3>50, <3>6
      <3>8. toClient'[s] # << >>
        BY <3>50, <3>6
      <3> QED
        BY <3>3, <3>6, <3>7, <3>8
    <2> QED
      BY <1>0, <1>2, <2>2, <2>4, <2>5, <2>6, <2>7 DEF ConnectedAt
  <1> QED
    BY <1>1, <1>2

LEMMA CloseConnected ==
    ASSUME IInv, NEW r \in Sockets, OnClose(r), NEW s \in Sockets
    PROVE  ConnectedAt(s)'
  <1>0. /\ toClient'[r] = << >> /\ ready'[r] = "closed" /\ UNCHANGED link
        /\ \A t \in Sockets : t # r => toClient'[t] = toClient[t] /\ ready'[t] = ready[t]
        /\ current' = IF r = current THEN NoSocket ELSE current
    BY Typed DEF OnClose, WireTypes, IsCurrentSocket
  <1>1. CASE s = r
    BY <1>0, <1>1, Connected DEF ConnectedAt
  <1>2. CASE s # r
    <2>1. s # current' => s # current
      BY <1>0, <1>2, Numbers
    <2> QED
      BY <1>0, <1>2, <2>1, Connected DEF ConnectedAt
  <1> QED
    BY <1>1, <1>2

LEMMA AnewConnected ==
    ASSUME IInv, Anew, NEW s \in Sockets
    PROVE  ConnectedAt(s)'
  <1>0. Retires
    BY RetireMoves DEF Anew
  <1>1. CASE s = current'
    <2>1. ready[s] = "none" /\ ready'[s] = "connecting"
      BY <1>1, AnewReady
    <2>2. s # current \/ ~IsLive
      BY <2>1 DEF IsLive
    <2>3. link'[s] = link[s] /\ toClient'[s] = toClient[s]
      BY <1>0, <2>2 DEF Retires
    <2>4. link'[s] = "none" /\ toClient'[s] = << >>
      BY <2>1, <2>3, Connected DEF ConnectedAt
    <2> QED
      BY <1>1, <2>1, <2>4 DEF ConnectedAt
  <1>2. CASE s # current'
    <2>1. ready'[s] = RetiredReady[s]
      BY <1>2, AnewReady
    <2>2. CASE s # current \/ ~IsLive
      <3>1. link'[s] = link[s] /\ toClient'[s] = toClient[s] /\ ready'[s] = ready[s]
        BY <1>0, <2>1, <2>2, RetiredReadyIs DEF Retires
      <3>2. s # current
        BY <2>2, Numbers DEF IInv, CurrentShown, IsLive
      <3> QED
        BY <3>1, <3>2, Connected DEF ConnectedAt
    <2>3. CASE s = current /\ IsLive
      <3>1. ready'[s] = "closing"
        BY <2>1, <2>3, RetiredReadyIs
      <3>2. link'[s] # "none" /\ (toClient'[s] = << >> \/ (toClient'[s] = <<Close>> /\ link'[s] # "open"))
        <4>1. link'[s] = IF link[s] = "none" THEN "closed" ELSE link[s]
          BY <1>0, <2>3 DEF Retires
        <4>2. toClient'[s] = << >> \/ (toClient'[s] = <<Close>> /\ link'[s] # "open")
          BY <1>0, <2>3 DEF Retires
        <4> QED
          BY <4>1, <4>2
      <3>3. \A i \in DOMAIN toClient'[s] : toClient'[s][i] = Close /\ i = Len(toClient'[s]) /\ link'[s] # "open"
        <4>1. CASE toClient'[s] = << >>
          BY <4>1
        <4>2. CASE toClient'[s] = <<Close>> /\ link'[s] # "open"
          BY <4>2
        <4> QED
          BY <3>2, <4>1, <4>2
      <3> QED
        BY <3>1, <3>2, <3>3, OpenAndClose DEF ConnectedAt
    <2> QED
      BY <2>2, <2>3
  <1> QED
    BY <1>1, <1>2

LEMMA ConnectedNext ==
    ASSUME IInv, [Next]_vars, NEW s \in Sockets
    PROVE  ConnectedAt(s)'
  <1>1. CASE SendDraft
    BY <1>1, ConnectedKept DEF SendDraft
  <1>2. CASE UNCHANGED vars
    BY <1>2, ConnectedKept DEF vars, wire, browser
  <1> QED
    BY <1>1, <1>2, Steps, TurnMovesServe, ServeConnected, LinkConnected, PopConnected, CloseConnected, AnewConnected

LEMMA ClosingKept ==
    ASSUME IInv, NEW s \in Sockets, toServer'[s] = toServer[s] \/ toServer'[s] = << >>,
           ready'[s] = ready[s] \/ ready'[s] \in {"closing", "closed"}
    PROVE  ClosingAt(s)'
  BY Connected DEF ClosingAt

LEMMA ClosingNext ==
    ASSUME IInv, [Next]_vars, NEW s \in Sockets
    PROVE  ClosingAt(s)'
  <1>0. toServer[s] \in Seq(Messages \cup {CloseFrame})
    BY Typed
  <1>1. ASSUME NEW m \in Messages, TurnMoves(m) PROVE ClosingAt(s)'
    <2>1. UNCHANGED toServer
      BY <1>1 DEF TurnMoves, TurnStep, FindCustomer, InsertConversation, SessionError, TurnAway, Report, StartTool,
                  EndTool, Hear, EndGraph, Reply, Persist, wire
    <2>2. UNCHANGED ready
      BY <1>1, TurnMovesServe DEF Moves
    <2> QED
      BY <2>1, <2>2, ClosingKept
  <1>2. ASSUME NEW r \in Sockets, NEW m \in Messages, Arrives(r, m) PROVE ClosingAt(s)'
    <2>1. Received(r, m) /\ UNCHANGED ready
      BY <1>2, TurnMovesServe DEF Arrives, Refuse, Begin, Moves
    <2>2. CASE r # s
      <3>1. toServer'[s] = toServer[s]
        BY <2>1, <2>2, Typed DEF Received, WireTypes
      <3> QED
        BY <2>1, <3>1, ClosingKept
    <2>3. CASE r = s
      <3>1. toServer[s] # << >> /\ toServer'[s] = Tail(toServer[s])
        BY <2>1, <2>3, Typed DEF Received, WireTypes
      <3>2. \A i \in DOMAIN toServer'[s] : i + 1 \in DOMAIN toServer[s] /\ toServer'[s][i] = toServer[s][i + 1]
        BY <1>0, <3>1, TailOf
      <3> QED
        BY <2>1, <3>2, Connected DEF ClosingAt
    <2> QED
      BY <2>2, <2>3
  <1>3. ASSUME NEW r \in Sockets, Links(r) PROVE ClosingAt(s)'
    <2>1. UNCHANGED ready /\ (toServer'[s] = toServer[s] \/ toServer'[s] = << >>)
      BY <1>3 DEF Links, LinkFrame
    <2> QED
      BY <2>1, ClosingKept
  <1>4. ASSUME NEW r \in Sockets, OnOpen(r) PROVE ClosingAt(s)'
    <2>1. ready[r] = "connecting" /\ UNCHANGED toServer /\ \A t \in Sockets : t # r => ready'[t] = ready[t]
      BY <1>4, OpenIsCurrent, Typed DEF OnOpen, WireTypes
    <2>2. CASE s = r
      BY <2>1, <2>2, Connected DEF ClosingAt
    <2>3. CASE s # r
      BY <2>1, <2>3, ClosingKept
    <2> QED
      BY <2>2, <2>3
  <1>5. ASSUME NEW r \in Sockets, OnMessage(r) PROVE ClosingAt(s)'
    BY <1>5, ClosingKept DEF OnMessage
  <1>6. ASSUME NEW r \in Sockets, OnClose(r) PROVE ClosingAt(s)'
    <2>1. CASE s = r
      <3>1. ready'[s] = "closed"
        BY <1>6, <2>1, Typed DEF OnClose, WireTypes
      <3> QED
        BY <3>1 DEF ClosingAt
    <2>2. CASE s # r
      <3>1. ready'[s] = ready[s] /\ toServer'[s] = toServer[s]
        BY <1>6, <2>2, Typed DEF OnClose, WireTypes
      <3> QED
        BY <3>1, ClosingKept
    <2> QED
      BY <2>1, <2>2
  <1>7. CASE Anew
    <2>1. Retires
      BY <1>7, RetireMoves DEF Anew
    <2>2. CASE s = current'
      <3>1. ready[s] = "none" /\ (s # current \/ ~IsLive)
        BY <1>7, <2>2, AnewReady DEF IsLive
      <3>2. toServer'[s] = toServer[s]
        BY <2>1, <3>1 DEF Retires
      <3> QED
        BY <3>1, <3>2, Connected DEF ClosingAt
    <2>3. CASE s # current'
      <3>1. ready'[s] = RetiredReady[s]
        BY <1>7, <2>3, AnewReady
      <3>2. CASE s = current /\ IsLive
        BY <3>1, <3>2, RetiredReadyIs DEF ClosingAt
      <3>3. CASE s # current \/ ~IsLive
        <4>1. ready'[s] = ready[s] /\ toServer'[s] = toServer[s]
          BY <2>1, <3>1, <3>3, RetiredReadyIs DEF Retires
        <4> QED
          BY <4>1, ClosingKept
      <3> QED
        BY <3>2, <3>3
    <2> QED
      BY <2>2, <2>3
  <1>8. CASE SendDraft
    <2>1. PICK m \in Messages : Sends(m)
      BY <1>8, SendIs
    <2>2. ready' = ready /\ (toServer'[s] = toServer[s] \/ toServer'[s] = Append(toServer[s], m))
      BY <1>8, <2>1, Typed DEF SendDraft, Sends, WireTypes
    <2>3. CASE toServer'[s] = Append(toServer[s], m)
      <3>1. /\ Len(toServer[s]) \in Nat /\ DOMAIN toServer'[s] = 1..(Len(toServer[s]) + 1) /\ DOMAIN toServer[s] = 1..Len(toServer[s])
            /\ \A i \in 1..Len(toServer[s]) : toServer'[s][i] = toServer[s][i]
            /\ toServer'[s][Len(toServer[s]) + 1] = m
        BY <1>0, <2>3, AppendOf
      <3> QED
        BY <2>2, <3>1, Connected, Numbers DEF ClosingAt
    <2> QED
      BY <2>2, <2>3, ClosingKept
  <1>9. CASE UNCHANGED vars
    BY <1>9, ClosingKept DEF vars, wire
  <1> QED
    BY <1>1, <1>2, <1>3, <1>4, <1>5, <1>6, <1>7, <1>8, <1>9, Steps

LEMMA ConnectionsNext == IInv /\ [Next]_vars => Connections'
  BY ConnectedNext, ClosingNext DEF Connections

LEMMA CurrentShownNext == IInv /\ [Next]_vars => CurrentShown'
  <1> SUFFICES ASSUME IInv, [Next]_vars PROVE CurrentShown'
    OBVIOUS
  <1>0. CurrentShown /\ ready \in [Sockets -> {"none", "connecting", "open", "closing", "closed"}]
        /\ current \in Sockets \cup {NoSocket}
    BY Typed DEF IInv, WireTypes, ScreenTypes
  <1>1. CASE UNCHANGED <<ready, current, connection>>
    BY <1>0, <1>1 DEF CurrentShown
  <1>2. ASSUME NEW s \in Sockets, OnOpen(s) PROVE CurrentShown'
    BY <1>0, <1>2, OpenIsCurrent, Numbers DEF CurrentShown, OnOpen
  <1>3. ASSUME NEW s \in Sockets, OnClose(s) PROVE CurrentShown'
    BY <1>0, <1>3 DEF CurrentShown, OnClose, IsCurrentSocket
  <1>4. CASE Anew
    <2>1. CASE current' = NoSocket /\ connection' \in {"idle", "closed"}
      BY <2>1 DEF CurrentShown
    <2>2. CASE connection' = "connecting" /\ current' \in Sockets
      BY <1>4, <2>2, AnewReady, Numbers DEF CurrentShown
    <2> QED
      BY <1>4, <2>1, <2>2 DEF Anew
  <1>5. ASSUME NEW m \in Messages, Moves(m) PROVE UNCHANGED <<ready, current, connection>>
    BY <1>5 DEF Moves, browser, shown
  <1>6. ASSUME NEW s \in Sockets, Links(s), UNCHANGED browser PROVE UNCHANGED <<ready, current, connection>>
    BY <1>6 DEF Links, LinkFrame, browser, shown
  <1>7. ASSUME NEW s \in Sockets, OnMessage(s) PROVE UNCHANGED <<ready, current, connection>>
    BY <1>7 DEF OnMessage, Show, shown
  <1>8. CASE SendDraft \/ UNCHANGED vars
    BY <1>1, <1>8 DEF SendDraft, vars, wire, browser, shown
  <1> QED
    BY <1>1, <1>2, <1>3, <1>4, <1>5, <1>6, <1>7, <1>8, Steps, TurnMovesServe

-----------------------------------------------------------------------------
\* The frames of turns

\* Steps of other actors than the handler bring no frames of turns.
Elsewhere ==
    \/ \E r \in Sockets : Links(r) /\ UNCHANGED browser
    \/ \E r \in Sockets : OnOpen(r) \/ OnMessage(r) \/ OnClose(r)
    \/ Anew \/ SendDraft \/ UNCHANGED vars

Inherited(s, k) ==
    \A i \in DOMAIN toClient'[s] : OfTurn(toClient'[s][i]) =>
        i + k \in DOMAIN toClient[s] /\ toClient[s][i + k] = toClient'[s][i]

LEMMA Inherits ==
    ASSUME IInv, Elsewhere, NEW s \in Sockets
    PROVE  Inherited(s, 0) \/ Inherited(s, 1)
  <1>0. DOMAIN toClient[s] = 1..Len(toClient[s]) /\ Len(toClient[s]) \in Nat
    BY Typed
  <1>1. ASSUME toClient'[s] = toClient[s] PROVE Inherited(s, 0)
    BY <1>0, <1>1 DEF Inherited
  <1>2. ASSUME toClient'[s] = << >> \/ toClient'[s] = <<Close>> \/ toClient'[s] = <<Open>> PROVE Inherited(s, 0)
    <2>1. \A i \in DOMAIN toClient'[s] : toClient'[s][i] \in {Open, Close}
      BY <1>2
    <2> QED
      BY <2>1, OpenAndClose DEF Inherited, OfTurn
  <1>3. ASSUME NEW r \in Sockets, Links(r) PROVE Inherited(s, 0)
    <2>1. CASE s # r
      BY <1>1, <1>3, <2>1 DEF Links, LinkFrame
    <2>2. CASE s = r /\ (Opened(s) \/ toClient' = toClient)
      BY <1>1, <1>2, <2>2 DEF Opened
    <2>3. ASSUME NEW n \in Nat, CutAt(s, n) PROVE Inherited(s, 0)
      <3>1. \A i \in DOMAIN toClient'[s] : i = n + 1 \/ (i \in 1..n /\ i \in DOMAIN toClient[s])
        BY <1>0, <2>3 DEF CutAt
      <3> QED
        BY <2>3, <3>1, OpenAndClose DEF CutAt, Inherited, OfTurn
    <2> QED
      BY <1>3, <2>1, <2>2, <2>3 DEF Links
  <1>4. ASSUME NEW r \in Sockets, Popped(r) PROVE Inherited(s, 0) \/ Inherited(s, 1)
    <2>1. CASE s # r
      BY <1>1, <1>4, <2>1 DEF Popped
    <2>2. CASE s = r
      <3>1. \A i \in DOMAIN toClient'[s] : i + 1 \in DOMAIN toClient[s] /\ toClient'[s][i] = toClient[s][i + 1]
        BY <1>4, <2>2 DEF Popped
      <3> QED
        BY <3>1 DEF Inherited
    <2> QED
      BY <2>1, <2>2
  <1>5. ASSUME NEW r \in Sockets, OnClose(r) PROVE Inherited(s, 0)
    <2>1. toClient'[s] = toClient[s] \/ toClient'[s] = << >>
      BY <1>5, Typed DEF OnClose, WireTypes
    <2> QED
      BY <1>1, <1>2, <2>1
  <1>6. CASE Anew
    <2>1. toClient'[s] = toClient[s] \/ toClient'[s] = << >> \/ toClient'[s] = <<Close>>
      BY <1>6, RetireMoves DEF Anew, Retires
    <2> QED
      BY <1>1, <1>2, <2>1
  <1>7. CASE SendDraft \/ UNCHANGED vars
    BY <1>1, <1>7 DEF SendDraft, vars, wire
  <1> QED
    BY <1>3, <1>4, <1>5, <1>6, <1>7, OpenIsCurrent, MessageIsCurrent DEF Elsewhere

\* No turn but one that is sent has moved.
LEMMA TurnsElsewhere ==
    ASSUME IInv, Elsewhere, NEW m \in Messages
    PROVE  turn'[m] = turn[m] \/ (turn[m].stage = "unsent" /\ Sends(m))
  <1>1. CASE SendDraft
    BY <1>1, SendIs DEF Sends
  <1>2. CASE ~SendDraft
    BY <1>2, TurnsKept DEF Elsewhere
  <1> QED
    BY <1>1, <1>2

FramesAt(s) ==
    \A i \in DOMAIN toClient[s] : OfTurn(toClient[s][i]) =>
        LET m == toClient[s][i].of IN
        /\ m \in Messages /\ turn[m].on = s
        /\ Ends(toClient[s][i]) => /\ turn[m].reply # "none"
                                   /\ \A j \in DOMAIN toClient[s] : j > i => toClient[s][j].of # m
        /\ toClient[s][i].kind = "agent.message" => turn[m].reply = "answered"

LEMMA FramesIs == FramesOfTurns <=> \A s \in Sockets : FramesAt(s)
  BY DEF FramesOfTurns, FramesAt

\* A frame of a turn, and its turn.
LEMMA FrameOf ==
    ASSUME IInv, NEW s \in Sockets, NEW i \in DOMAIN toClient[s], OfTurn(toClient[s][i])
    PROVE  LET m == toClient[s][i].of IN
           /\ m \in Messages /\ turn[m].on = s /\ turn[m].stage # "unsent"
           /\ Ends(toClient[s][i]) => /\ turn[m].reply # "none"
                                      /\ \A j \in DOMAIN toClient[s] : j > i => toClient[s][j].of # m
           /\ toClient[s][i].kind = "agent.message" => turn[m].reply = "answered"
  <1>1. FramesAt(s)
    BY FramesIs DEF IInv
  <1>2. PICK m : m = toClient[s][i].of
    OBVIOUS
  <1>3. m \in Messages /\ turn[m].on = s
    BY <1>1, <1>2 DEF FramesAt
  <1>4. turn[m].stage # "unsent"
    BY <1>3, Numbers DEF IInv, TurnShape, Unsent
  <1> QED
    BY <1>1, <1>2, <1>3, <1>4 DEF FramesAt

LEMMA FramesElsewhere ==
    ASSUME IInv, Elsewhere, NEW s \in Sockets, TypeOK'
    PROVE  FramesAt(s)'
  <1>0. toClient'[s] \in Seq(Frames) /\ DOMAIN toClient'[s] \subseteq Nat /\ \A i \in DOMAIN toClient'[s] : toClient'[s][i] \in Frames
    <2>1. toClient'[s] \in Seq(Frames)
      BY DEF TypeOK, RouteTypeOK
    <2> QED
      BY <2>1, ElementOfSeq, LenProperties
  <1>1. PICK k \in {0, 1} : Inherited(s, k)
    BY Inherits
  <1>2. SUFFICES ASSUME NEW i \in DOMAIN toClient'[s], OfTurn(toClient'[s][i]), NEW m, m = toClient'[s][i].of
                 PROVE  /\ m \in Messages /\ turn'[m].on = s
                        /\ Ends(toClient'[s][i]) => /\ turn'[m].reply # "none"
                                                    /\ \A j \in DOMAIN toClient'[s] : j > i => toClient'[s][j].of # m
                        /\ toClient'[s][i].kind = "agent.message" => turn'[m].reply = "answered"
    BY DEF FramesAt, OfTurn, Ends
  <1>3. i + k \in DOMAIN toClient[s] /\ toClient[s][i + k] = toClient'[s][i]
    BY <1>1, <1>2 DEF Inherited
  <1>4. /\ m \in Messages /\ turn[m].on = s /\ turn[m].stage # "unsent"
        /\ Ends(toClient'[s][i]) => /\ turn[m].reply # "none"
                                    /\ \A j \in DOMAIN toClient[s] : j > i + k => toClient[s][j].of # m
        /\ toClient'[s][i].kind = "agent.message" => turn[m].reply = "answered"
    BY <1>2, <1>3, FrameOf
  <1>5. turn'[m] = turn[m]
    BY <1>4, TurnsElsewhere
  <1>6. ASSUME Ends(toClient'[s][i]), NEW j \in DOMAIN toClient'[s], j > i PROVE toClient'[s][j].of # m
    <2>1. CASE OfTurn(toClient'[s][j])
      <3>1. j + k \in DOMAIN toClient[s] /\ toClient[s][j + k] = toClient'[s][j]
        BY <1>1, <2>1 DEF Inherited
      <3>2. j + k > i + k
        BY <1>0, <1>6
      <3> QED
        BY <1>4, <1>6, <3>1, <3>2
    <2>2. CASE ~OfTurn(toClient'[s][j])
      BY <1>0, <1>4, <2>2, FrameKinds, Numbers
    <2> QED
      BY <2>1, <2>2
  <1> QED
    BY <1>4, <1>5, <1>6

\* What a step of the handler adds to a socket that is shown.
Gains(s, f, n) ==
    /\ s = current /\ ready[s] \in {"connecting", "open"} /\ link[s] = "open"
    /\ \A i \in DOMAIN toClient[s] : toClient[s][i] # Close
    /\ Len(toClient[s]) \in Nat /\ DOMAIN toClient[s] = 1..Len(toClient[s])
    /\ Len(toClient'[s]) = Len(toClient[s]) + n /\ DOMAIN toClient'[s] = 1..(Len(toClient[s]) + n)
    /\ \A i \in DOMAIN toClient[s] : toClient'[s][i] = toClient[s][i]
    /\ toClient'[s][Len(toClient[s]) + 1] = f
    /\ n = 2 => toClient'[s][Len(toClient[s]) + 2] = Close
    /\ \A i \in DOMAIN toClient'[s] :
          i \in DOMAIN toClient[s] \/ i = Len(toClient[s]) + 1 \/ (n = 2 /\ i = Len(toClient[s]) + 2)

Untouched(m, s) ==
    toClient'[s] = toClient[s] /\ (Silently(m) \/ s # turn[m].on \/ ~(link[s] = "open" /\ IsShown(s)))
Speaks(m, s, f) ==
    /\ s = turn[m].on /\ (Tells(m, f) \/ Concludes(m, f))
    /\ Gains(s, f, 1) \/ (Gains(s, f, 2) /\ link'[s] = "closing" /\ Concludes(m, f))

LEMMA ServeGains ==
    ASSUME IInv, NEW m \in Messages, Serves(m), NEW s \in Sockets
    PROVE  Untouched(m, s) \/ \E f \in Frames : Speaks(m, s, f)
  <1>1. CASE Silently(m)
    BY <1>1 DEF Silently, Untouched
  <1>2. ASSUME NEW f \in Frames, Tells(m, f) \/ Concludes(m, f)
        PROVE  Untouched(m, s) \/ Speaks(m, s, f)
    <2>1. \/ Unheard(m)
          \/ HeardOnly(m, <<f>>)
          \/ HeardOnly(m, <<f, Close>>) /\ link'[turn[m].on] = "closing" /\ Concludes(m, f)
      BY <1>2, ServeSends
    <2>2. CASE s # turn[m].on
      BY <2>1, <2>2 DEF Unheard, HeardOnly, Appended, Untouched
    <2>3. CASE Unheard(m) /\ s = turn[m].on
      BY <2>3 DEF Unheard, Untouched
    <2>4. ASSUME s = turn[m].on, NEW fs, HeardOnly(m, fs), NEW n \in {1, 2}, Len(fs) = n, fs[1] = f, n = 2 => fs[2] = Close
          PROVE  Gains(s, f, n)
      <3>1. link[s] = "open" /\ IsShown(s) /\ Appended(s, fs)
        BY <2>4 DEF HeardOnly
      <3>2. s = current /\ \A i \in DOMAIN toClient[s] : toClient[s][i] # Close
        BY <3>1, Connected DEF ConnectedAt, IsShown
      <3>3. /\ Len(toClient[s]) \in Nat /\ DOMAIN toClient[s] = 1..Len(toClient[s])
            /\ Len(toClient'[s]) = Len(toClient[s]) + n /\ DOMAIN toClient'[s] = 1..(Len(toClient[s]) + n)
            /\ \A i \in DOMAIN toClient[s] : toClient'[s][i] = toClient[s][i]
        BY <2>4, <3>1 DEF Appended
      <3>4. \A i \in 1..n : toClient'[s][Len(toClient[s]) + i] = fs[i]
        BY <2>4, <3>1 DEF Appended
      <3>5. toClient'[s][Len(toClient[s]) + 1] = f /\ (n = 2 => toClient'[s][Len(toClient[s]) + 2] = Close)
        BY <2>4, <3>4
      <3>6. \A i \in DOMAIN toClient'[s] :
          i \in DOMAIN toClient[s] \/ i = Len(toClient[s]) + 1 \/ (n = 2 /\ i = Len(toClient[s]) + 2)
        <4>1. PICK a \in Nat : a = Len(toClient[s])
          BY <3>3
        <4>2. DOMAIN toClient[s] = 1..a /\ DOMAIN toClient'[s] = 1..(a + n)
          BY <3>3, <4>1
        <4>3. \A i \in 1..(a + n) : i \in 1..a \/ i = a + 1 \/ (n = 2 /\ i = a + 2)
          BY <2>4, <4>1
        <4> QED
          BY <4>1, <4>2, <4>3
      <3> QED
        BY <3>1, <3>2, <3>3, <3>5, <3>6 DEF Gains, IsShown
    <2>5. CASE s = turn[m].on /\ HeardOnly(m, <<f>>)
      <3>1. Len(<<f>>) = 1 /\ <<f>>[1] = f
        OBVIOUS
      <3>2. Gains(s, f, 1)
        BY <2>4, <2>5, <3>1
      <3> QED
        BY <1>2, <2>5, <3>2 DEF Speaks
    <2>6. CASE s = turn[m].on /\ HeardOnly(m, <<f, Close>>) /\ link'[turn[m].on] = "closing" /\ Concludes(m, f)
      <3>1. Len(<<f, Close>>) = 2 /\ <<f, Close>>[1] = f /\ <<f, Close>>[2] = Close
        OBVIOUS
      <3>2. Gains(s, f, 2)
        BY <2>4, <2>6, <3>1
      <3> QED
        BY <2>6, <3>2 DEF Speaks
    <2> QED
      BY <2>1, <2>2, <2>3, <2>5, <2>6
  <1> QED
    BY <1>1, <1>2 DEF Serves

\* What a served turn keeps, whatever it says.
LEMMA ServeKeeps ==
    ASSUME IInv, NEW m \in Messages, Serves(m)
    PROVE  /\ Moves(m) /\ UNCHANGED <<ready, browser>>
           /\ turn[m].reply # "none" => turn'[m].reply = turn[m].reply
           /\ turn[m].reply = "none" \/ Silently(m)
           /\ \A s \in Sockets : link'[s] = "open" => link[s] = "open"
  <1>1. Moves(m) /\ (turn[m].reply = "none" \/ Silently(m)) /\ (Silently(m) => turn'[m].reply = turn[m].reply)
    BY DEF Serves, Silently, Tells, Concludes
  <1>2. \A s \in Sockets : link'[s] = "open" => link[s] = "open"
    <2>1. CASE Silently(m)
      BY <2>1 DEF Silently
    <2>2. CASE ~Silently(m)
      BY <2>2, ServeSends DEF Serves, Unheard, HeardOnly
    <2> QED
      BY <2>1, <2>2
  <1> QED
    BY <1>1, <1>2 DEF Moves

\* The frame a turn says.
LEMMA SpokenFrame ==
    ASSUME IInv, NEW m \in Messages, NEW s \in Sockets, NEW f \in Frames, Speaks(m, s, f)
    PROVE  /\ f.of = m /\ OfTurn(f) /\ f # Open /\ f # Close /\ turn[m].reply = "none"
           /\ Ends(f) => turn'[m].reply # "none"
           /\ f.kind = "agent.message" => f = Answer(m) /\ turn'[m].reply = "answered"
           /\ turn'[m].reply # "none" => Ends(f)
  <1>1. f.of = m /\ OfTurn(f) /\ turn[m].reply = "none"
    BY OpenAndClose, FrameKinds DEF Speaks, Tells, Concludes, OfTurn
  <1>2. f # Open /\ f # Close
    BY <1>1, OpenAndClose DEF OfTurn
  <1>3. CASE Tells(m, f)
    BY <1>1, <1>2, <1>3 DEF Tells, Ends
  <1>4. CASE Concludes(m, f)
    BY <1>1, <1>2, <1>4, FrameKinds DEF Concludes
  <1> QED
    BY <1>3, <1>4 DEF Speaks

LEMMA FramesServed ==
    ASSUME IInv, NEW m \in Messages, Serves(m), NEW s \in Sockets
    PROVE  FramesAt(s)'
  <1>0. /\ Moves(m) /\ (turn[m].reply # "none" => turn'[m].reply = turn[m].reply)
        /\ DOMAIN toClient[s] = 1..Len(toClient[s]) /\ Len(toClient[s]) \in Nat
    BY ServeKeeps, Typed
  <1>1. ASSUME NEW i \in DOMAIN toClient[s], OfTurn(toClient[s][i]), NEW k, k = toClient[s][i].of
        PROVE  /\ k \in Messages /\ turn'[k].on = s
               /\ Ends(toClient[s][i]) => turn[k].reply # "none" /\ turn'[k].reply # "none" /\ \A j \in DOMAIN toClient[s] : j > i => toClient[s][j].of # k
               /\ toClient[s][i].kind = "agent.message" => turn'[k].reply = "answered"
    <2>1. /\ k \in Messages /\ turn[k].on = s
          /\ Ends(toClient[s][i]) => turn[k].reply # "none" /\ \A j \in DOMAIN toClient[s] : j > i => toClient[s][j].of # k
          /\ toClient[s][i].kind = "agent.message" => turn[k].reply = "answered"
      BY <1>1, FrameOf
    <2>2. turn'[k].on = turn[k].on /\ (turn[k].reply # "none" => turn'[k].reply = turn[k].reply)
      BY <1>0, <2>1 DEF Moves
    <2> QED
      BY <2>1, <2>2
  <1>2. CASE toClient'[s] = toClient[s]
    BY <1>1, <1>2 DEF FramesAt
  <1>3. ASSUME NEW f \in Frames, NEW n \in {1, 2}, Gains(s, f, n), Speaks(m, s, f) PROVE FramesAt(s)'
    <2>1. /\ f.of = m /\ OfTurn(f) /\ turn[m].reply = "none" /\ turn'[m].on = s
          /\ Ends(f) => turn'[m].reply # "none"
          /\ f.kind = "agent.message" => turn'[m].reply = "answered"
      BY <1>0, <1>3, SpokenFrame DEF Speaks, Moves
    <2>2. SUFFICES ASSUME NEW i \in DOMAIN toClient'[s], OfTurn(toClient'[s][i]), NEW k, k = toClient'[s][i].of
                   PROVE  /\ k \in Messages /\ turn'[k].on = s
                          /\ Ends(toClient'[s][i]) => /\ turn'[k].reply # "none"
                                                      /\ \A j \in DOMAIN toClient'[s] : j > i => toClient'[s][j].of # k
                          /\ toClient'[s][i].kind = "agent.message" => turn'[k].reply = "answered"
      BY DEF FramesAt, OfTurn, Ends
    <2>3. CASE i \in DOMAIN toClient[s]
      <3>1. toClient'[s][i] = toClient[s][i]
        BY <1>3, <2>3 DEF Gains
      <3>2. /\ k \in Messages /\ turn'[k].on = s
            /\ Ends(toClient[s][i]) => turn[k].reply # "none" /\ turn'[k].reply # "none" /\ \A j \in DOMAIN toClient[s] : j > i => toClient[s][j].of # k
            /\ toClient[s][i].kind = "agent.message" => turn'[k].reply = "answered"
        BY <1>1, <2>2, <2>3, <3>1
      <3>3. ASSUME Ends(toClient[s][i]), NEW j \in DOMAIN toClient'[s], j > i PROVE toClient'[s][j].of # k
        <4>1. k # m /\ k # 0
          BY <2>1, <3>2, <3>3, Numbers
        <4>2. CASE j \in DOMAIN toClient[s]
          BY <1>3, <3>2, <3>3, <4>2 DEF Gains
        <4>3. CASE j \notin DOMAIN toClient[s]
          BY <1>3, <2>1, <4>1, <4>3, OpenAndClose DEF Gains
        <4> QED
          BY <4>2, <4>3
      <3> QED
        BY <3>1, <3>2, <3>3
    <2>4. CASE i \notin DOMAIN toClient[s]
      <3>1. i = Len(toClient[s]) + 1 /\ toClient'[s][i] = f /\ k = m
        BY <1>3, <2>1, <2>2, <2>4, OpenAndClose DEF Gains, OfTurn
      <3>2. \A j \in DOMAIN toClient'[s] : j > i => toClient'[s][j] = Close
        BY <1>0, <1>3, <3>1 DEF Gains
      <3>3. \A j \in DOMAIN toClient'[s] : j > i => toClient'[s][j].of # k
        BY <3>1, <3>2, OpenAndClose, Numbers
      <3> QED
        BY <2>1, <3>1, <3>3
    <2> QED
      BY <2>3, <2>4
  <1> QED
    BY <1>2, <1>3, ServeGains DEF Untouched, Speaks

LEMMA StepsAre ==
    ASSUME IInv, [Next]_vars
    PROVE  (\E m \in Messages : Serves(m)) \/ Elsewhere
  BY Steps, TurnMovesServe DEF Elsewhere

LEMMA FramesNext == IInv /\ [Next]_vars => FramesOfTurns'
  <1> SUFFICES ASSUME IInv, [Next]_vars, NEW s \in Sockets PROVE FramesAt(s)'
    BY DEF FramesOfTurns, FramesAt
  <1> QED
    BY StepsAre, FramesServed, FramesElsewhere, TypesNext

-----------------------------------------------------------------------------
\* The screen

\* A line more on the screen.
GrownBy(l) ==
    /\ transcript' \in Seq(Line)
    /\ Len(transcript) \in Nat /\ DOMAIN transcript = 1..Len(transcript)
    /\ Len(transcript') = Len(transcript) + 1
    /\ DOMAIN transcript' = 1..(Len(transcript) + 1)
    /\ \A i \in DOMAIN transcript : transcript'[i] = transcript[i]
    /\ transcript'[Len(transcript) + 1] = l
    /\ \A i \in DOMAIN transcript' : i \in DOMAIN transcript \/ i = Len(transcript) + 1

LEMMA Growing ==
    ASSUME IInv, NEW l \in Line, transcript' = Append(transcript, l)
    PROVE  GrownBy(l) /\ Asked' = IF l.role = "customer" THEN Asked \cup {l.of} ELSE Asked
  <1>1. transcript \in Seq(Line)
    BY Typed DEF ScreenTypes
  <1>2. /\ transcript' \in Seq(Line) /\ Len(transcript) \in Nat /\ Len(transcript') = Len(transcript) + 1
        /\ DOMAIN transcript' = 1..(Len(transcript) + 1) /\ DOMAIN transcript = 1..Len(transcript)
        /\ \A i \in 1..Len(transcript) : transcript'[i] = transcript[i]
        /\ transcript'[Len(transcript) + 1] = l
    BY <1>1, AppendOf
  <1>3. AskedOf(transcript') = IF l.role = "customer" THEN AskedOf(transcript) \cup {l.of} ELSE AskedOf(transcript)
    BY <1>1, AskedAfter
  <1> QED
    BY <1>2, <1>3, AskedIs DEF GrownBy

\* The current socket delivers a frame of a turn.
Reads(f) ==
    /\ f \in Frames /\ OfTurn(f) /\ Show(f)
    /\ current \in Sockets /\ 1 \in DOMAIN toClient[current] /\ f = toClient[current][1] /\ Popped(current)
    /\ ready[current] = "open"
    /\ UNCHANGED <<turn, link, ready, toServer, current, connection, turnId, persona>>

LEMMA Reading ==
    ASSUME IInv, NEW s \in Sockets, OnMessage(s)
    PROVE  \E f \in Frames : Reads(f)
  BY MessageIsCurrent DEF OnMessage, Show, Reads

LEMMA ReadTranscript ==
    ASSUME IInv, NEW f \in Frames, Reads(f)
    PROVE  /\ f.of \in Messages /\ turn[f.of].on = current /\ f.of \in Asked /\ turn[f.of].stage # "unsent"
           /\ Asked' = Asked
           /\ \/ /\ f.kind = "agent.message" /\ turn[f.of].reply = "answered"
                 /\ GrownBy([role |-> "assistant", of |-> f.of])
              \/ f.kind # "agent.message" /\ transcript' = transcript
  <1>1. /\ f.of \in Messages /\ turn[f.of].on = current /\ turn[f.of].stage # "unsent"
        /\ f.kind = "agent.message" => turn[f.of].reply = "answered"
    BY FrameOf DEF Reads
  <1>2. f.of \in Asked
    BY <1>1, Numbers DEF IInv, Screen, Reads
  <1>3. CASE f.kind = "agent.message"
    <2>1. PICK l : l = [role |-> "assistant", of |-> f.of]
      OBVIOUS
    <2>2. l \in Line /\ l.role # "customer"
      BY <1>1, <2>1, LineIs
    <2>3. transcript' = Append(transcript, l)
      BY <1>3, <2>1 DEF Reads, Show, TranscriptAfter
    <2>4. GrownBy(l) /\ Asked' = Asked
      BY <2>2, <2>3, Growing
    <2> QED
      BY <1>1, <1>2, <1>3, <2>1, <2>4
  <1>4. CASE f.kind # "agent.message"
    <2>1. transcript' = transcript
      BY <1>4 DEF Reads, Show, TranscriptAfter
    <2> QED
      BY <1>1, <1>2, <1>4, <2>1 DEF Asked
  <1> QED
    BY <1>3, <1>4

LEMMA SendTranscript ==
    ASSUME IInv, NEW m \in Messages, Sends(m)
    PROVE  GrownBy([role |-> "customer", of |-> m])
  <1>1. PICK l : l = [role |-> "customer", of |-> m]
    OBVIOUS
  <1>2. l \in Line
    BY <1>1, LineIs
  <1> QED
    BY <1>1, <1>2, Growing DEF Sends

LEMMA AnewTranscript ==
    ASSUME Anew
    PROVE  /\ transcript' = << >> /\ activity' = << >> /\ turnId' = 0 /\ pending' = FALSE /\ misread' = FALSE
           /\ Asked' = {} /\ UNCHANGED turn
  BY DEF Anew, ClearConversation, Asked

\* No turn has been sent on a socket that is new, or on none.
LEMMA NewSocket ==
    ASSUME IInv, NEW m \in Messages, turn[m].on = NoSocket \/ (turn[m].on \in Sockets /\ ready[turn[m].on] \in {"none", "connecting"})
    PROVE  turn[m].stage = "unsent" /\ turn[m].reply = "none" /\ turn[m].on = NoSocket
  BY Numbers DEF IInv, TurnShape, Unreplied, Unsent

\* What the browser leaves on the screen.
Unread ==
    \/ \E m \in Messages : Serves(m)
    \/ \E r \in Sockets : Links(r) /\ UNCHANGED browser
    \/ \E r \in Sockets : OnOpen(r) \/ OnClose(r)
    \/ UNCHANGED vars

LEMMA UnreadIs ==
    ASSUME IInv, Unread
    PROVE  UNCHANGED <<transcript, activity, turnId, misread>> /\ Asked' = Asked
  <1>1. UNCHANGED <<transcript, activity, turnId, misread>>
    BY ServeKeeps DEF Unread, OnOpen, OnClose, browser, shown, vars
  <1> QED
    BY <1>1 DEF Asked

LEMMA ScreenSteps ==
    ASSUME IInv, [Next]_vars
    PROVE  \/ Unread
           \/ \E f \in Frames : Reads(f)
           \/ Anew
           \/ \E m \in Messages : Sends(m)
  BY Steps, TurnMovesServe, Reading, SendIs DEF Unread

LEMMA TurnGoesOn ==
    ASSUME IInv, [Next]_vars, NEW m \in Messages, turn[m].stage # "unsent"
    PROVE  /\ turn'[m].stage # "unsent" /\ turn'[m].on = turn[m].on
           /\ turn[m].reply # "none" => turn'[m].reply = turn[m].reply
  <1>1. ASSUME NEW k \in Messages, Serves(k)
        PROVE  /\ turn'[m].stage # "unsent" /\ turn'[m].on = turn[m].on
               /\ turn[m].reply # "none" => turn'[m].reply = turn[m].reply
    BY <1>1, ServeKeeps DEF Moves
  <1>2. CASE Elsewhere
    BY <1>2, TurnsElsewhere
  <1> QED
    BY <1>1, <1>2, StepsAre

LEMMA AskedNumbers ==
    ASSUME IInv
    PROVE  Asked \subseteq Messages /\ IsFiniteSet(Asked) /\ Cardinality(Asked) \in 0..MaxMessages
           /\ (Cardinality(Asked) = 0 <=> Asked = {})
  <1>1. transcript \in Seq(Line)
    BY Typed DEF ScreenTypes
  <1> QED
    BY <1>1, AskedIs, AskedMembers

LEMMA CountNext ==
    ASSUME IInv, [Next]_vars
    PROVE  turnId' = Cardinality(Asked')
  <1>0. turnId = Cardinality(Asked)
    BY DEF IInv, Screen
  <1>1. CASE Unread
    BY <1>0, <1>1, UnreadIs
  <1>2. ASSUME NEW f \in Frames, Reads(f) PROVE turnId' = Cardinality(Asked')
    BY <1>0, <1>2, ReadTranscript DEF Reads
  <1>3. CASE Anew
    BY <1>3, AnewTranscript, FS_EmptySet
  <1>4. ASSUME NEW m \in Messages, Sends(m) PROVE turnId' = Cardinality(Asked')
    BY <1>0, <1>4 DEF Sends
  <1> QED
    BY <1>1, <1>2, <1>3, <1>4, ScreenSteps

LEMMA AskedNext ==
    ASSUME IInv, [Next]_vars, NEW m \in Asked'
    PROVE  turn'[m].stage # "unsent"
  <1>0. \A n \in Asked : turn[n].stage # "unsent" /\ n \in Messages
    BY AskedNumbers DEF IInv, Screen
  <1>1. CASE m \in Asked
    BY <1>0, <1>1, TurnGoesOn
  <1>2. CASE m \notin Asked
    <2>1. PICK k \in Messages : Sends(k)
      BY <1>2, ScreenSteps, UnreadIs, ReadTranscript, AnewTranscript
    <2>2. m = k
      BY <1>2, <2>1 DEF Sends
    <2> QED
      BY <2>1, <2>2 DEF Sends
  <1> QED
    BY <1>1, <1>2

LEMMA CurrentMoves ==
    ASSUME IInv, [Next]_vars
    PROVE  \/ current' = current
           \/ current' = NoSocket /\ ~(\E m \in Messages : Sends(m)) /\ ~(\E f \in Frames : Reads(f))
           \/ Anew /\ current' \in Sockets /\ ready[current'] = "none"
  <1>1. ASSUME NEW m \in Messages, Serves(m) PROVE current' = current
    BY <1>1, ServeKeeps DEF browser
  <1>2. ASSUME NEW r \in Sockets, OnClose(r)
        PROVE  current' = current \/ (current' = NoSocket /\ ~(\E m \in Messages : Sends(m)) /\ ~(\E f \in Frames : Reads(f)))
    <2>1. UNCHANGED turn /\ ready'[r] = "closed" /\ (current' = current \/ (r = current /\ current' = NoSocket))
      BY <1>2, Typed DEF OnClose, IsCurrentSocket, WireTypes
    <2>2. ASSUME NEW m \in Messages, Sends(m) PROVE FALSE
      BY <2>1, <2>2 DEF Sends
    <2>3. ASSUME NEW f \in Frames, Reads(f), r = current PROVE FALSE
      BY <2>1, <2>3 DEF Reads
    <2> QED
      BY <2>1, <2>2, <2>3
  <1>3. CASE Anew
    <2>1. ASSUME NEW m \in Messages, Sends(m) PROVE FALSE
      BY <1>3, <2>1, AnewTranscript DEF Sends
    <2>2. ASSUME NEW f \in Frames, Reads(f), current' = NoSocket PROVE FALSE
      BY <2>2, Numbers DEF Reads
    <2> QED
      BY <1>3, <2>1, <2>2 DEF Anew
  <1>4. ASSUME NEW f \in Frames, Reads(f) PROVE current' = current
    BY <1>4 DEF Reads
  <1>5. ASSUME NEW r \in Sockets, Links(r), UNCHANGED browser PROVE current' = current
    BY <1>5 DEF browser
  <1>6. ASSUME NEW r \in Sockets, OnOpen(r) PROVE current' = current
    BY <1>6 DEF OnOpen
  <1>7. CASE SendDraft \/ UNCHANGED vars
    BY <1>7 DEF SendDraft, vars, browser
  <1> QED
    BY <1>1, <1>2, <1>3, <1>4, <1>5, <1>6, <1>7, Steps, TurnMovesServe, Reading

LEMMA CurrentAskedNext ==
    ASSUME IInv, [Next]_vars, current' # NoSocket, NEW m \in Messages
    PROVE  turn'[m].on = current' <=> m \in Asked'
  <1>0. current # NoSocket => \A n \in Messages : turn[n].on = current <=> n \in Asked
    BY DEF IInv, Screen
  <1>1. CASE Anew
    <2>1. current' \in Sockets /\ ready[current'] = "none"
      BY <1>1 DEF Anew
    <2>2. turn[m].on # current'
      BY <2>1, NewSocket, Numbers
    <2> QED
      BY <1>1, <2>2, AnewTranscript
  <1>2. CASE ~Anew
    <2>1. current' = current
      BY <1>2, CurrentMoves
    <2>2. CASE \E k \in Messages : Sends(k)
      <3>1. PICK k \in Messages : Sends(k)
        BY <2>2
      <3>2. CASE m = k
        BY <2>1, <3>1, <3>2 DEF Sends
      <3>3. CASE m # k
        BY <1>0, <2>1, <3>1, <3>3 DEF Sends
      <3> QED
        BY <3>2, <3>3
    <2>3. ASSUME NEW f \in Frames, Reads(f) PROVE turn'[m].on = current' <=> m \in Asked'
      BY <1>0, <2>1, <2>3, ReadTranscript DEF Reads
    <2>4. CASE Unread
      <3>1. Asked' = Asked
        BY <2>4, UnreadIs
      <3>2. turn'[m].on = turn[m].on
        <4>1. ASSUME NEW k \in Messages, Serves(k) PROVE turn'[m].on = turn[m].on
          BY <4>1, ServeKeeps DEF Moves
        <4>2. CASE UNCHANGED turn
          BY <4>2
        <4> QED
          BY <2>4, <4>1, <4>2, TurnsKept DEF Unread
      <3> QED
        BY <1>0, <2>1, <3>1, <3>2
    <2> QED
      BY <1>2, <2>2, <2>3, <2>4, ScreenSteps
  <1> QED
    BY <1>1, <1>2

\* What is answered on the screen was answered there before, or its answer has just been read.
LEMMA AnsweredComes ==
    ASSUME IInv, [Next]_vars, NEW m \in Messages, Answered(m)'
    PROVE  \/ Answered(m) /\ ~Anew
           \/ \E f \in Frames : Reads(f) /\ f.kind = "agent.message" /\ f.of = m
  <1>1. PICK i \in DOMAIN transcript' : transcript'[i] = [role |-> "assistant", of |-> m]
    BY DEF Answered, Said
  <1>2. ~Anew
    <2>1. ASSUME transcript' = << >> PROVE FALSE
      BY <1>1, <2>1
    <2> QED
      BY <2>1, AnewTranscript
  <1>3. CASE Unread
    BY <1>1, <1>2, <1>3, UnreadIs DEF Answered, Said
  <1>4. ASSUME NEW k \in Messages, Sends(k) PROVE Answered(m)
    <2>1. GrownBy([role |-> "customer", of |-> k])
      BY <1>4, SendTranscript
    <2>2. i \in DOMAIN transcript
      BY <1>1, <2>1 DEF GrownBy
    <2> QED
      BY <1>1, <2>1, <2>2 DEF GrownBy, Answered, Said
  <1>5. ASSUME NEW f \in Frames, Reads(f) PROVE Answered(m) \/ (f.kind = "agent.message" /\ f.of = m)
    <2>1. CASE f.kind = "agent.message" /\ GrownBy([role |-> "assistant", of |-> f.of])
      <3>1. CASE i \in DOMAIN transcript
        BY <1>1, <2>1, <3>1 DEF GrownBy, Answered, Said
      <3>2. CASE i = Len(transcript) + 1
        BY <1>1, <2>1, <3>2 DEF GrownBy
      <3> QED
        BY <2>1, <3>1, <3>2 DEF GrownBy
    <2>2. CASE transcript' = transcript
      BY <1>1, <2>2 DEF Answered, Said
    <2>3. (f.kind = "agent.message" /\ GrownBy([role |-> "assistant", of |-> f.of])) \/ transcript' = transcript
      BY <1>5, ReadTranscript
    <2> QED
      BY <2>1, <2>2, <2>3
  <1> QED
    BY <1>2, <1>3, <1>4, <1>5, ScreenSteps

\* Messages of which no frame is on the way
Unspoken(m) == \A s \in Sockets : \A i \in DOMAIN toClient[s] : toClient[s][i].of # m

LEMMA StaysUnspoken ==
    ASSUME IInv, [Next]_vars, NEW m \in Messages, Unspoken(m), turn[m].reply # "none"
    PROVE  Unspoken(m)'
  <1> SUFFICES ASSUME NEW s \in Sockets, NEW i \in DOMAIN toClient'[s] PROVE toClient'[s][i].of # m
    BY DEF Unspoken
  <1>1. m # 0 /\ Close.of = 0
    BY Numbers, OpenAndClose
  <1>2. ASSUME NEW k \in Messages, Serves(k) PROVE toClient'[s][i].of # m
    <2>1. CASE toClient'[s] = toClient[s]
      BY <2>1 DEF Unspoken
    <2>2. ASSUME NEW f \in Frames, Speaks(k, s, f) PROVE toClient'[s][i].of # m
      <3>1. f.of # m
        BY <2>2, SpokenFrame
      <3>2. CASE i \in DOMAIN toClient[s]
        BY <2>2, <3>2 DEF Speaks, Gains, Unspoken
      <3>3. CASE i = Len(toClient[s]) + 1
        BY <2>2, <3>1, <3>3 DEF Speaks, Gains
      <3>4. CASE Gains(s, f, 2) /\ i = Len(toClient[s]) + 2
        BY <1>1, <3>4 DEF Gains
      <3> QED
        BY <2>2, <3>2, <3>3, <3>4 DEF Speaks, Gains
    <2> QED
      BY <1>2, <2>1, <2>2, ServeGains DEF Untouched
  <1>3. CASE Elsewhere
    <2>1. toClient' \in [Sockets -> Seq(Frames)]
      BY TypesNext DEF TypeOK, RouteTypeOK
    <2>2. toClient'[s][i] \in Frames
      BY <2>1
    <2>3. CASE OfTurn(toClient'[s][i])
      <3>1. CASE Inherited(s, 0)
        <4>1. i + 0 \in DOMAIN toClient[s] /\ toClient[s][i + 0] = toClient'[s][i]
          BY <2>3, <3>1 DEF Inherited
        <4> QED
          BY <4>1 DEF Unspoken
      <3>2. CASE Inherited(s, 1)
        <4>1. i + 1 \in DOMAIN toClient[s] /\ toClient[s][i + 1] = toClient'[s][i]
          BY <2>3, <3>2 DEF Inherited
        <4> QED
          BY <4>1 DEF Unspoken
      <3> QED
        BY <1>3, <3>1, <3>2, Inherits
    <2>4. CASE ~OfTurn(toClient'[s][i])
      BY <1>1, <2>2, <2>4, FrameKinds
    <2> QED
      BY <2>3, <2>4
  <1> QED
    BY <1>2, <1>3, StepsAre

LEMMA ReadUnspoken ==
    ASSUME IInv, NEW f \in Frames, Reads(f), f.kind = "agent.message"
    PROVE  Unspoken(f.of)'
  <1> SUFFICES ASSUME NEW s \in Sockets, NEW i \in DOMAIN toClient'[s] PROVE toClient'[s][i].of # f.of
    BY DEF Unspoken
  <1>1. f.of # 0 /\ f.of \in Messages /\ turn[f.of].on = current /\ Ends(f)
    BY ReadTranscript, Numbers DEF Ends
  <1>2. CASE s = current
    <2>1. i \in Nat \ {0} /\ i + 1 \in DOMAIN toClient[current] /\ toClient'[s][i] = toClient[current][i + 1]
      BY <1>2 DEF Reads, Popped
    <2>2. \A j \in DOMAIN toClient[current] : j > 1 => toClient[current][j].of # f.of
      BY <1>1, FrameOf DEF Reads
    <2> QED
      BY <2>1, <2>2
  <1>3. CASE s # current
    <2>1. toClient'[s] = toClient[s]
      BY <1>3 DEF Reads, Popped
    <2>2. CASE OfTurn(toClient[s][i])
      BY <1>1, <1>3, <2>1, <2>2, FrameOf
    <2>3. CASE ~OfTurn(toClient[s][i])
      BY <1>1, <2>1, <2>3, FrameKinds, Typed
    <2> QED
      BY <2>2, <2>3
  <1> QED
    BY <1>2, <1>3

LEMMA AnsweredNext ==
    ASSUME IInv, [Next]_vars, NEW m \in Messages, Answered(m)'
    PROVE  m \in Asked' /\ turn'[m].reply = "answered" /\ Unspoken(m)'
  <1>1. CASE Answered(m) /\ ~Anew
    <2>1. m \in Asked /\ turn[m].reply = "answered" /\ Unspoken(m)
      BY <1>1 DEF IInv, Screen, Unspoken
    <2>2. m \in Asked'
      BY <1>1, <2>1, ScreenSteps, UnreadIs, ReadTranscript DEF Sends
    <2>3. turn[m].stage # "unsent"
      BY <2>1 DEF IInv, Screen
    <2> QED
      BY <2>1, <2>2, <2>3, TurnGoesOn, StaysUnspoken
  <1>2. ASSUME NEW f \in Frames, Reads(f), f.kind = "agent.message", f.of = m
        PROVE  m \in Asked' /\ turn'[m].reply = "answered" /\ Unspoken(m)'
    <2>1. Unspoken(f.of)'
      BY <1>2, ReadUnspoken
    <2>2. Unspoken(m)'
      BY <1>2, <2>1 DEF Unspoken
    <2>3. m \in Asked' /\ turn[m].reply = "answered" /\ turn' = turn
      BY <1>2, ReadTranscript DEF Reads
    <2> QED
      BY <2>2, <2>3
  <1> QED
    BY <1>1, <1>2, AnsweredComes

LEMMA ActivityNext ==
    ASSUME IInv, [Next]_vars, NEW i \in DOMAIN activity', NEW m \in Messages, activity'[i].of = m
    PROVE  turn'[m].stage # "unsent"
  <1>0. \A j \in DOMAIN activity : activity[j].of = m => turn[m].stage # "unsent"
    BY DEF IInv, Screen
  <1>1. CASE activity' = activity
    BY <1>0, <1>1, TurnGoesOn
  <1>2. ASSUME NEW f \in Frames, Reads(f) PROVE turn'[m].stage # "unsent"
    <2>1. turn' = turn /\ turn[f.of].stage # "unsent"
      BY <1>2, ReadTranscript DEF Reads
    <2>2. CASE f.kind = "activity" /\ turnId # 0 /\ activity' = ApplyActivityFrame(activity, f)
      <3>1. PanelGrows(f)
        BY <2>2, PanelAfter
      <3>2. (i \in DOMAIN activity /\ activity[i].of = m) \/ m = f.of
        BY <3>1 DEF PanelGrows
      <3> QED
        BY <1>0, <2>1, <3>2
    <2> QED
      BY <1>0, <1>2, <1>1, <2>1, <2>2 DEF Reads, Show
  <1>3. CASE Anew
    BY <1>3, AnewTranscript
  <1>4. CASE SendDraft
    BY <1>1, <1>4 DEF SendDraft
  <1> QED
    BY <1>1, <1>2, <1>3, <1>4, Steps, UnreadIs, TurnMovesServe, Reading DEF Unread

LEMMA ScreenNext == IInv /\ [Next]_vars => Screen'
  <1> SUFFICES ASSUME IInv, [Next]_vars PROVE Screen'
    OBVIOUS
  <1>1. \A m \in Messages : Answered(m)' =>
          /\ m \in Asked' /\ turn'[m].reply = "answered"
          /\ \A s \in Sockets : \A i \in DOMAIN toClient'[s] : toClient'[s][i].of # m
    BY AnsweredNext DEF Unspoken
  <1>2. current' # NoSocket => \A m \in Messages : turn'[m].on = current' <=> m \in Asked'
    BY CurrentAskedNext
  <1>3. \A m \in Messages, i \in DOMAIN activity' : activity'[i].of = m => turn'[m].stage # "unsent"
    BY ActivityNext
  <1> QED
    BY <1>1, <1>2, <1>3, CountNext, AskedNext DEF Screen

-----------------------------------------------------------------------------
\* No answer is lost

OnItsWay(m) == \E i \in DOMAIN toClient[current] : toClient[current][i] = Answer(m)
Heard(m) == turn[m].reply = "answered" /\ turn[m].on = current /\ ready[current] = "open" /\ link[current] = "open"

LEMMA LostIs == NoAnswerLost <=> \A m \in Messages : Heard(m) => Answered(m) \/ OnItsWay(m)
  BY DEF NoAnswerLost, Heard, Answered, Said, OnItsWay

LEMMA LostIsNext == NoAnswerLost' <=> \A m \in Messages : Heard(m)' => Answered(m)' \/ OnItsWay(m)'
  BY DEF NoAnswerLost, Heard, Answered, Said, OnItsWay

LEMMA AnsweredStays ==
    ASSUME IInv, [Next]_vars, ~Anew, NEW m \in Messages, Answered(m)
    PROVE  Answered(m)'
  <1>1. PICK i \in DOMAIN transcript : transcript[i] = [role |-> "assistant", of |-> m]
    BY DEF Answered, Said
  <1>2. ASSUME NEW l, GrownBy(l) PROVE Answered(m)'
    BY <1>1, <1>2 DEF GrownBy, Answered, Said
  <1>3. ASSUME transcript' = transcript PROVE Answered(m)'
    BY <1>1, <1>3 DEF Answered, Said
  <1>4. ASSUME NEW f \in Frames, Reads(f) PROVE Answered(m)'
    BY <1>2, <1>3, <1>4, ReadTranscript
  <1> QED
    BY <1>2, <1>3, <1>4, ScreenSteps, UnreadIs, SendTranscript

LEMMA AnswerServed ==
    ASSUME IInv, [Next]_vars, NEW m \in Messages, NEW k \in Messages, Serves(k), Heard(m)'
    PROVE  Answered(m)' \/ OnItsWay(m)'
  <1>0. Moves(k) /\ UNCHANGED <<ready, current>>
    BY ServeKeeps DEF browser
  <1>1. turn'[m].on = turn[m].on /\ turn[m].on = current /\ current \in Sockets /\ link[current] = "open" /\ ready[current] = "open"
    <2>1. turn'[m].on = turn[m].on
      BY <1>0 DEF Moves
    <2>2. turn'[m].stage # "unsent"
      BY TurnShapeNext DEF TurnShape, Heard, Unreplied
    <2>3. current \in Sockets
      BY <1>0, <2>1, <2>2, TurnShapeNext DEF TurnShape, Heard
    <2>4. link[current] = "open"
      BY <1>0, <2>3, ServeKeeps DEF Heard
    <2> QED
      BY <1>0, <2>1, <2>3, <2>4 DEF Heard
  <1>2. CASE turn[m].reply = "answered"
    <2>1. Answered(m) \/ OnItsWay(m)
      BY <1>1, <1>2, LostIs DEF IInv, Heard
    <2>2. CASE Answered(m)
      <3>1. ~Anew
        BY <1>0, <1>1 DEF Anew, NoSocket, Sockets
      <3> QED
        BY <2>2, <3>1, AnsweredStays
    <2>3. CASE OnItsWay(m)
      <3>1. PICK i \in DOMAIN toClient[current] : toClient[current][i] = Answer(m)
        BY <2>3 DEF OnItsWay
      <3>2. i \in DOMAIN toClient'[current] /\ toClient'[current][i] = Answer(m)
        BY <1>1, <3>1, ServeGains DEF Untouched, Speaks, Gains
      <3> QED
        BY <1>0, <3>2 DEF OnItsWay
    <2> QED
      BY <2>1, <2>2, <2>3
  <1>3. CASE turn[m].reply # "answered"
    <2>1. k = m /\ turn'[m].reply = "answered"
      BY <1>0, <1>3 DEF Heard, Moves
    <2>2. ~Untouched(m, current)
      BY <1>1, <1>3, <2>1 DEF Untouched, Silently, IsShown
    <2>3. PICK f \in Frames : Speaks(m, current, f)
      BY <1>1, <2>1, <2>2, ServeGains
    <2>4. f = Answer(m)
      BY <2>1, <2>3 DEF Speaks, Tells, Concludes
    <2>5. Len(toClient[current]) + 1 \in DOMAIN toClient'[current] /\ toClient'[current][Len(toClient[current]) + 1] = Answer(m)
      BY <2>3, <2>4 DEF Speaks, Gains
    <2> QED
      BY <1>0, <2>5 DEF OnItsWay
  <1> QED
    BY <1>2, <1>3

LEMMA NoAnswerLostNext == IInv /\ [Next]_vars => NoAnswerLost'
  <1> SUFFICES ASSUME IInv, [Next]_vars, NEW m \in Messages, Heard(m)' PROVE Answered(m)' \/ OnItsWay(m)'
    BY LostIsNext
  <1>0. /\ turn'[m].stage # "unsent" /\ current' = turn'[m].on /\ current' \in Sockets /\ turn'[m].reply = "answered"
        /\ ready'[current'] = "open" /\ link'[current'] = "open"
    BY TurnShapeNext DEF TurnShape, Heard, Unreplied
  <1>01. ASSUME current' = current, ~Anew, UNCHANGED toClient, turn[m].reply = "answered",
                turn[m].on = current, ready[current] = "open", link[current] = "open"
         PROVE  Answered(m)' \/ OnItsWay(m)'
    <2>1. Answered(m) \/ OnItsWay(m)
      BY <1>01, LostIs DEF IInv, Heard
    <2> QED
      BY <1>01, <2>1, AnsweredStays DEF OnItsWay
  <1>1. ASSUME NEW k \in Messages, Serves(k) PROVE Answered(m)' \/ OnItsWay(m)'
    BY <1>1, AnswerServed
  <1>2. CASE Anew
    BY <1>0, <1>2, NewSocket, AnewTranscript DEF Anew
  <1>3. ASSUME NEW f \in Frames, Reads(f) PROVE Answered(m)' \/ OnItsWay(m)'
    <2>1. Heard(m) /\ current' = current /\ ~Anew
      BY <1>0, <1>2, <1>3, Numbers DEF Reads, Heard, Anew
    <2>2. CASE Answered(m)
      BY <2>1, <2>2, AnsweredStays
    <2>3. CASE OnItsWay(m)
      <3>1. PICK i \in DOMAIN toClient[current] : toClient[current][i] = Answer(m)
        BY <2>3 DEF OnItsWay
      <3>2. CASE i = 1
        <4>1. f.kind = "agent.message" /\ f.of = m
          BY <1>3, <3>1, <3>2, AnswerIs DEF Reads
        <4>2. GrownBy([role |-> "assistant", of |-> m])
          BY <1>3, <4>1, ReadTranscript
        <4> QED
          BY <4>2 DEF GrownBy, Answered, Said
      <3>3. CASE i # 1
        <4>1. i - 1 \in DOMAIN toClient'[current] /\ toClient'[current][i - 1] = toClient[current][i]
          BY <1>3, <3>1, <3>3 DEF Reads, Popped
        <4> QED
          BY <2>1, <3>1, <4>1 DEF OnItsWay
      <3> QED
        BY <3>2, <3>3
    <2> QED
      BY <2>1, <2>2, <2>3, LostIs DEF IInv
  <1>4. ASSUME NEW r \in Sockets, Links(r), UNCHANGED browser PROVE Answered(m)' \/ OnItsWay(m)'
    <2>1. current' = current /\ turn' = turn /\ ready' = ready /\ UNCHANGED transcript
      BY <1>4 DEF Links, LinkFrame, browser, shown
    <2>2. r # current
      BY <1>0, <1>4, <2>1 DEF Links, Opened, CutAt
    <2>3. toClient'[current] = toClient[current] /\ link'[current] = link[current]
      BY <1>0, <1>4, <2>1, <2>2 DEF Links, LinkFrame
    <2>4. Heard(m)
      BY <1>0, <2>1, <2>3 DEF Heard
    <2>5. Answered(m) \/ OnItsWay(m)
      BY <2>4, LostIs DEF IInv
    <2> QED
      BY <2>1, <2>3, <2>5 DEF Answered, Said, OnItsWay
  <1>5. ASSUME NEW r \in Sockets, OnOpen(r) PROVE FALSE
    <2>1. r = current /\ ready[current] = "connecting" /\ turn' = turn /\ current' = current
      <3>1. r = current /\ ready[current] = "connecting"
        BY <1>5, OpenIsCurrent
      <3>2. turn' = turn /\ current' = current
        BY <1>5 DEF OnOpen
      <3> QED
        BY <3>1, <3>2
    <2> QED
      BY <1>0, <2>1, NewSocket
  <1>6. ASSUME NEW r \in Sockets, OnClose(r) PROVE Answered(m)' \/ OnItsWay(m)'
    <2>1. current' = current /\ r # current /\ turn' = turn /\ UNCHANGED <<link, transcript>>
      BY <1>0, <1>6, Typed, Numbers DEF OnClose, IsCurrentSocket, WireTypes
    <2>2. toClient'[current] = toClient[current] /\ ready'[current] = ready[current]
      BY <1>0, <1>6, <2>1, Typed DEF OnClose, WireTypes
    <2>3. Heard(m)
      BY <1>0, <2>1, <2>2 DEF Heard
    <2>4. Answered(m) \/ OnItsWay(m)
      BY <2>3, LostIs DEF IInv
    <2> QED
      BY <2>1, <2>2, <2>4 DEF Answered, Said, OnItsWay
  <1>7. CASE SendDraft
    <2>1. PICK k \in Messages : Sends(k)
      BY <1>7, SendIs
    <2>2. turn'[m] = turn[m]
      BY <1>0, <2>1 DEF Sends
    <2>3. UNCHANGED <<toClient, current, link, ready>>
      BY <1>7 DEF SendDraft
    <2> QED
      BY <1>0, <1>01, <1>2, <2>2, <2>3
  <1>8. CASE UNCHANGED vars
    <2>1. UNCHANGED <<toClient, current, link, ready, turn, transcript>>
      BY <1>8 DEF vars, wire, browser, shown
    <2> QED
      BY <1>0, <1>01, <1>2, <2>1
  <1> QED
    BY <1>1, <1>2, <1>3, <1>4, <1>5, <1>6, <1>7, <1>8, Steps, TurnMovesServe, Reading

-----------------------------------------------------------------------------
\* Answers stand under what they answer

FollowsAt(i) ==
    transcript[i].role = "assistant" =>
        LET of == transcript[i].of IN
        /\ \E j \in 1..(i - 1) : transcript[j] = [role |-> "customer", of |-> of]
        /\ \A j \in 1..(i - 1) : transcript[j] # transcript[i]
        /\ ~misread => transcript[i - 1] = [role |-> "customer", of |-> of]

LEMMA FollowsIs == AnswersFollow <=> \A i \in DOMAIN transcript : FollowsAt(i)
  BY DEF AnswersFollow, FollowsAt

LEMMA FollowsIsNext == AnswersFollow' <=> \A i \in DOMAIN transcript' : FollowsAt(i)'
  BY DEF AnswersFollow, FollowsAt

\* A frame that was read was the last message's, if all before it were understood.
LEMMA ReadRightly ==
    ASSUME IInv, NEW f \in Frames, Reads(f)
    PROVE  /\ ~misread' => ~misread /\ Understood(f)
           /\ ~misread => pending = TRUE /\ Latest(f.of)
  <1>1. misread' = (misread \/ ~Understood(f))
    BY DEF Reads, Show
  <1>2. ~misread' => ~misread /\ Understood(f)
    BY <1>1
  <1>3. ~misread => pending = TRUE /\ Latest(f.of)
    BY Numbers DEF Reads, IInv, OnlyTheLatest
  <1> QED
    BY <1>2, <1>3

LEMMA MisreadStays ==
    ASSUME IInv, [Next]_vars, ~Anew
    PROVE  ~misread' => ~misread
  <1>1. ASSUME NEW f \in Frames, Reads(f) PROVE ~misread' => ~misread
    BY <1>1, ReadRightly
  <1>2. CASE misread' = misread
    BY <1>2
  <1>3. CASE SendDraft
    BY <1>2, <1>3 DEF SendDraft
  <1> QED
    BY <1>1, <1>2, <1>3, Steps, TurnMovesServe, Reading, UnreadIs DEF Unread

LEMMA TheLatest ==
    ASSUME IInv, NEW m \in Messages, NEW n \in Messages, Latest(m), Latest(n)
    PROVE  m = n
  BY Numbers DEF Latest

LEMMA LineKept ==
    ASSUME IInv, [Next]_vars, ~Anew, NEW i \in DOMAIN transcript, DOMAIN transcript = 1..Len(transcript), Len(transcript) \in Nat,
           \A j \in DOMAIN transcript : transcript'[j] = transcript[j]
    PROVE  FollowsAt(i)'
  <1>1. FollowsAt(i)
    BY FollowsIs DEF IInv
  <1>2. CASE transcript[i].role # "assistant"
    BY <1>2 DEF FollowsAt
  <1>3. CASE transcript[i].role = "assistant"
    <2>1. PICK k \in 1..(i - 1) : transcript[k] = [role |-> "customer", of |-> transcript[i].of]
      BY <1>1, <1>3 DEF FollowsAt
    <2>2. k \in DOMAIN transcript /\ i - 1 \in DOMAIN transcript
      BY <2>1
    <2>3. \A j \in 1..(i - 1) : transcript'[j] # transcript'[i]
      BY <1>1, <1>3 DEF FollowsAt
    <2>4. ~misread' => transcript'[i - 1] = [role |-> "customer", of |-> transcript'[i].of]
      BY <1>1, <1>3, <2>2, MisreadStays DEF FollowsAt
    <2>5. \E j \in 1..(i - 1) : transcript'[j] = [role |-> "customer", of |-> transcript'[i].of]
      BY <2>1, <2>2
    <2> QED
      BY <2>3, <2>4, <2>5 DEF FollowsAt
  <1> QED
    BY <1>2, <1>3

LEMMA AnswerStands ==
    ASSUME IInv, [Next]_vars, NEW f \in Frames, Reads(f), f.kind = "agent.message",
           GrownBy([role |-> "assistant", of |-> f.of]), NEW n \in Nat, n = Len(transcript) + 1
    PROVE  FollowsAt(n)'
  <1>0. f.of \in Messages /\ f.of \in Asked /\ n - 1 = Len(transcript) /\ Len(transcript) \in Nat
    BY ReadTranscript DEF GrownBy
  <1>00. transcript'[n] = [role |-> "assistant", of |-> f.of]
    BY DEF GrownBy
  <1>1. \E j \in 1..(n - 1) : transcript'[j] = [role |-> "customer", of |-> f.of]
    <2>1. transcript \in Seq(Line)
      BY Typed DEF ScreenTypes
    <2>2. PICK j \in DOMAIN transcript : transcript[j] = [role |-> "customer", of |-> f.of]
      BY <1>0, <2>1, AskedIs, AskedMembers
    <2> QED
      BY <1>0, <2>2 DEF GrownBy
  <1>2. \A j \in 1..(n - 1) : transcript'[j] # transcript'[n]
    <2> SUFFICES ASSUME NEW j \in 1..(n - 1), transcript'[j] = transcript'[n] PROVE FALSE
      OBVIOUS
    <2>1. j \in DOMAIN transcript /\ transcript[j] = [role |-> "assistant", of |-> f.of]
      BY <1>0, <1>00 DEF GrownBy
    <2>2. Answered(f.of)
      BY <2>1 DEF Answered, Said
    <2>3. toClient[current][1].of # f.of
      BY <1>0, <2>2 DEF IInv, Screen, Reads
    <2> QED
      BY <2>3 DEF Reads
  <1>3. ~misread' => transcript'[n - 1] = [role |-> "customer", of |-> f.of]
    <2> SUFFICES ASSUME ~misread' PROVE transcript'[n - 1] = [role |-> "customer", of |-> f.of]
      OBVIOUS
    <2>1. ~misread /\ pending = TRUE /\ Latest(f.of)
      BY ReadRightly
    <2>2. current # NoSocket
      BY Numbers DEF Reads
    <2>3. PICK m \in Messages : Said(Len(transcript), "customer", m) /\ Latest(m)
      BY <2>1, <2>2 DEF IInv, OnlyTheLatest
    <2>4. m = f.of
      BY <1>0, <2>1, <2>3, TheLatest
    <2>5. Len(transcript) \in DOMAIN transcript
      <3>1. transcript # << >>
        BY <2>1, <2>2 DEF IInv, OnlyTheLatest
      <3>2. transcript \in Seq(Line)
        BY Typed DEF ScreenTypes
      <3> QED
        BY <3>1, <3>2
    <2> QED
      BY <1>0, <2>3, <2>4, <2>5 DEF GrownBy, Said
  <1> QED
    BY <1>00, <1>1, <1>2, <1>3 DEF FollowsAt

LEMMA AnswersFollowNext == IInv /\ [Next]_vars => AnswersFollow'
  <1> SUFFICES ASSUME IInv, [Next]_vars, NEW i \in DOMAIN transcript' PROVE FollowsAt(i)'
    BY FollowsIsNext
  <1>0. transcript \in Seq(Line) /\ Len(transcript) \in Nat /\ DOMAIN transcript = 1..Len(transcript)
    BY Typed DEF ScreenTypes
  <1>1. CASE Anew
    <2>1. ASSUME transcript' = << >> PROVE FALSE
      BY <2>1
    <2> QED
      BY <1>1, <2>1, AnewTranscript
  <1>2. ASSUME ~Anew, transcript' = transcript PROVE FollowsAt(i)'
    BY <1>0, <1>2, LineKept
  <1>3. ASSUME ~Anew, NEW f \in Frames, Reads(f) PROVE FollowsAt(i)'
    <2>1. CASE f.kind = "agent.message" /\ GrownBy([role |-> "assistant", of |-> f.of])
      <3>1. CASE i \in DOMAIN transcript
        BY <1>0, <1>3, <2>1, <3>1, LineKept DEF GrownBy
      <3>2. CASE i = Len(transcript) + 1
        BY <1>0, <1>3, <2>1, <3>2, AnswerStands
      <3> QED
        BY <2>1, <3>1, <3>2 DEF GrownBy
    <2>2. (f.kind = "agent.message" /\ GrownBy([role |-> "assistant", of |-> f.of])) \/ transcript' = transcript
      BY <1>3, ReadTranscript
    <2> QED
      BY <1>2, <1>3, <2>1, <2>2
  <1>4. ASSUME ~Anew, NEW m \in Messages, Sends(m) PROVE FollowsAt(i)'
    <2>1. GrownBy([role |-> "customer", of |-> m])
      BY <1>4, SendTranscript
    <2>2. CASE i \in DOMAIN transcript
      BY <1>0, <1>4, <2>1, <2>2, LineKept DEF GrownBy
    <2>3. CASE i = Len(transcript) + 1
      BY <2>1, <2>3 DEF GrownBy, FollowsAt
    <2> QED
      BY <2>1, <2>2, <2>3 DEF GrownBy
  <1> QED
    BY <1>1, <1>2, <1>3, <1>4, ScreenSteps, UnreadIs

-----------------------------------------------------------------------------
\* Who waits, waits for the last message

LatestFrames ==
    \A i \in DOMAIN toClient[current] :
        OfTurn(toClient[current][i]) => pending = TRUE /\ Latest(toClient[current][i].of)
LatestTurns ==
    \A m \in Messages : turn[m].on = current /\ turn[m].reply = "none" => pending = TRUE /\ Latest(m)
PendingLine ==
    pending = TRUE =>
        /\ transcript # << >>
        /\ \E m \in Messages : Said(Len(transcript), "customer", m) /\ Latest(m)

LEMMA LatestIs ==
    /\ OnlyTheLatest <=> (~misread /\ current # NoSocket => LatestFrames /\ LatestTurns /\ PendingLine)
    /\ OnlyTheLatest' <=> (~misread' /\ current' # NoSocket => LatestFrames' /\ LatestTurns' /\ PendingLine')
  BY DEF OnlyTheLatest, LatestFrames, LatestTurns, PendingLine

LEMMA SameLatest ==
    ASSUME Asked' = Asked
    PROVE  \A m : Latest(m)' <=> Latest(m)
  BY DEF Latest

LEMMA ReadPending ==
    ASSUME IInv, NEW f \in Frames, Reads(f), ~misread'
    PROVE  \/ pending' = TRUE /\ (f.kind = "activity" \/ f.kind = "agent.error")
           \/ pending' = FALSE /\ Ends(f)
  <1>1. pending = TRUE /\ Understood(f) /\ OfTurn(f)
    BY ReadRightly DEF Reads
  <1>2. pending' = (pending /\ (f.kind = "activity" \/ f.name = "busy"))
    BY <1>1 DEF Reads, Show, KeepsPending
  <1>3. CASE f.kind = "activity"
    BY <1>1, <1>2, <1>3
  <1>4. CASE f.kind = "agent.message"
    <2>1. f.name # "busy"
      <3>1. PICK m : m = f.of
        OBVIOUS
      <3>2. m \in Messages /\ f = Answer(m)
        BY <1>1, <1>4, <3>1, FrameKinds
      <3> QED
        BY <3>2, AnswerIs
    <2> QED
      BY <1>1, <1>2, <1>4, <2>1 DEF Ends
  <1>5. CASE f.kind = "agent.error"
    BY <1>1, <1>2, <1>5 DEF Ends
  <1> QED
    BY <1>1, <1>3, <1>4, <1>5, FrameKinds DEF OfTurn

LEMMA LatestOnRead ==
    ASSUME IInv, [Next]_vars, NEW f \in Frames, Reads(f), ~misread'
    PROVE  LatestFrames' /\ LatestTurns' /\ PendingLine'
  <1>0. /\ ~misread /\ pending = TRUE /\ Latest(f.of) /\ current # NoSocket /\ current \in Sockets /\ current' = current
        /\ turn' = turn /\ Asked' = Asked /\ f.of \in Messages
    BY ReadRightly, ReadTranscript, Numbers DEF Reads
  <1>1. LatestFrames /\ LatestTurns /\ PendingLine
    BY <1>0, LatestIs DEF IInv
  <1>2. \A m : Latest(m)' <=> Latest(m)
    BY <1>0, SameLatest
  <1>3. \A i \in DOMAIN toClient'[current] : i \in Nat \ {0} /\ i + 1 \in DOMAIN toClient[current] /\ toClient'[current][i] = toClient[current][i + 1]
    BY DEF Reads, Popped
  <1>4. CASE pending' = TRUE /\ (f.kind = "activity" \/ f.kind = "agent.error")
    <2>1. LatestFrames'
      BY <1>0, <1>1, <1>2, <1>3, <1>4 DEF LatestFrames
    <2>2. LatestTurns'
      BY <1>0, <1>1, <1>2, <1>4 DEF LatestTurns
    <2>3. transcript' = transcript
      BY <1>4, ReadTranscript
    <2>4. PendingLine'
      BY <1>0, <1>1, <1>2, <2>3 DEF PendingLine, Said
    <2> QED
      BY <2>1, <2>2, <2>4
  <1>5. CASE pending' = FALSE /\ Ends(f)
    <2>1. /\ turn[f.of].reply # "none"
          /\ \A j \in DOMAIN toClient[current] : j > 1 => toClient[current][j].of # f.of
      BY <1>0, <1>5, FrameOf DEF Reads
    <2>2. ASSUME NEW i \in DOMAIN toClient'[current], OfTurn(toClient'[current][i]) PROVE FALSE
      <3>1. i + 1 \in DOMAIN toClient[current] /\ i + 1 > 1 /\ toClient'[current][i] = toClient[current][i + 1]
        BY <1>3
      <3>2. Latest(toClient[current][i + 1].of) /\ toClient[current][i + 1].of \in Messages
        BY <1>0, <1>1, <2>2, <3>1, FrameOf DEF LatestFrames
      <3>3. toClient[current][i + 1].of = f.of
        BY <1>0, <3>2, TheLatest
      <3> QED
        BY <2>1, <3>1, <3>3
    <2>3. ASSUME NEW m \in Messages, turn[m].on = current, turn[m].reply = "none" PROVE FALSE
      <3>1. Latest(m)
        BY <1>1, <2>3 DEF LatestTurns
      <3>2. m = f.of
        BY <1>0, <3>1, TheLatest
      <3> QED
        BY <2>1, <2>3, <3>2
    <2> QED
      BY <1>0, <1>5, <2>2, <2>3 DEF LatestFrames, LatestTurns, PendingLine
  <1> QED
    BY <1>4, <1>5, ReadPending

LEMMA LatestOnServe ==
    ASSUME IInv, [Next]_vars, NEW k \in Messages, Serves(k), ~misread, current \in Sockets
    PROVE  LatestFrames' /\ LatestTurns' /\ PendingLine'
  <1>0. Moves(k) /\ UNCHANGED <<current, pending, transcript>> /\ Asked' = Asked
    BY ServeKeeps, UnreadIs DEF browser, shown, Unread
  <1>1. LatestFrames /\ LatestTurns /\ PendingLine
    BY Numbers, LatestIs DEF IInv
  <1>2. \A m : Latest(m)' <=> Latest(m)
    BY <1>0, SameLatest
  <1>3. LatestFrames'
    <2> SUFFICES ASSUME NEW i \in DOMAIN toClient'[current], OfTurn(toClient'[current][i])
                 PROVE  pending = TRUE /\ Latest(toClient'[current][i].of)
      BY <1>0, <1>2 DEF LatestFrames
    <2>1. CASE toClient'[current] = toClient[current]
      BY <1>1, <2>1 DEF LatestFrames
    <2>2. ASSUME NEW f \in Frames, Speaks(k, current, f) PROVE pending = TRUE /\ Latest(toClient'[current][i].of)
      <3>1. f.of = k /\ turn[k].reply = "none" /\ turn[k].on = current
        BY <2>2, SpokenFrame DEF Speaks
      <3>2. CASE i \in DOMAIN toClient[current]
        BY <1>1, <2>2, <3>2 DEF LatestFrames, Speaks, Gains
      <3>3. CASE i = Len(toClient[current]) + 1
        BY <1>1, <2>2, <3>1, <3>3 DEF LatestTurns, Speaks, Gains
      <3>4. CASE Gains(current, f, 2) /\ i = Len(toClient[current]) + 2
        BY <3>4, OpenAndClose DEF Gains, OfTurn
      <3> QED
        BY <2>2, <3>2, <3>3, <3>4 DEF Speaks, Gains
    <2> QED
      BY <2>1, <2>2, ServeGains DEF Untouched
  <1>4. LatestTurns'
    <2> SUFFICES ASSUME NEW m \in Messages, turn'[m].on = current, turn'[m].reply = "none"
                 PROVE  pending = TRUE /\ Latest(m)
      BY <1>0, <1>2 DEF LatestTurns
    <2>1. turn[m].on = current /\ turn[m].reply = "none"
      BY <1>0, ServeKeeps DEF Moves
    <2> QED
      BY <1>1, <2>1 DEF LatestTurns
  <1>5. PendingLine'
    BY <1>0, <1>1, <1>2 DEF PendingLine, Said
  <1> QED
    BY <1>3, <1>4, <1>5

\* Nothing is said, sent or read.
LEMMA LatestElsewhere ==
    ASSUME IInv, [Next]_vars, Elsewhere, ~misread, current \in Sockets, UNCHANGED <<turn, current, pending, transcript>>
    PROVE  LatestFrames' /\ LatestTurns' /\ PendingLine'
  <1>1. LatestFrames /\ LatestTurns /\ PendingLine
    BY Numbers, LatestIs DEF IInv
  <1>2. \A m : Latest(m)' <=> Latest(m)
    BY SameLatest DEF Asked
  <1>3. LatestFrames'
    <2> SUFFICES ASSUME NEW i \in DOMAIN toClient'[current], OfTurn(toClient'[current][i])
                 PROVE  pending = TRUE /\ Latest(toClient'[current][i].of)
      BY <1>2 DEF LatestFrames
    <2>1. PICK k \in {0, 1} : Inherited(current, k)
      BY Inherits
    <2>2. i + k \in DOMAIN toClient[current] /\ toClient[current][i + k] = toClient'[current][i]
      BY <2>1 DEF Inherited
    <2> QED
      BY <1>1, <2>2 DEF LatestFrames
  <1> QED
    BY <1>1, <1>2, <1>3 DEF LatestTurns, PendingLine, Said

LEMMA LatestOnSend ==
    ASSUME IInv, [Next]_vars, SendDraft, ~misread
    PROVE  LatestFrames' /\ LatestTurns' /\ PendingLine'
  <1>1. PICK m \in Messages : Sends(m)
    BY SendIs
  <1>2. UNCHANGED <<toClient, current>> /\ current # NoSocket /\ pending # TRUE
    BY <1>1, Numbers DEF SendDraft, Sends
  <1>3. LatestFrames /\ LatestTurns
    BY <1>2, LatestIs DEF IInv
  <1>4. Latest(m)'
    <2>1. Asked' = Asked \cup {m} /\ \A n \in Asked : n <= m
      BY <1>1 DEF Sends
    <2>2. m <= m
      BY Numbers
    <2> QED
      BY <2>1, <2>2 DEF Latest
  <1>5. LatestFrames'
    BY <1>2, <1>3 DEF LatestFrames
  <1>6. LatestTurns'
    BY <1>1, <1>2, <1>3, <1>4 DEF LatestTurns, Sends
  <1>7. PendingLine'
    <2>1. GrownBy([role |-> "customer", of |-> m])
      BY <1>1, SendTranscript
    <2>2. transcript' # << >> /\ Said(Len(transcript), "customer", m)'
      BY <2>1 DEF GrownBy, Said
    <2> QED
      BY <1>4, <2>2 DEF PendingLine
  <1> QED
    BY <1>5, <1>6, <1>7

\* A conversation that begins: no frames, no turns, nothing on the screen.
LEMMA AnewIsEmpty ==
    ASSUME IInv, Anew, current' \in Sockets
    PROVE  toClient'[current'] = << >> /\ \A m \in Messages : turn'[m].on # current'
  <1>1. ready[current'] = "none"
    BY Numbers DEF Anew
  <1>2. toClient[current'] = << >>
    BY <1>1, Connected DEF ConnectedAt
  <1>3. current' # current \/ ~IsLive
    BY <1>1 DEF IsLive
  <1>4. toClient'[current'] = toClient[current']
    BY <1>3, RetireMoves DEF Anew, Retires
  <1>5. \A m \in Messages : turn'[m].on # current'
    BY <1>1, NewSocket, Numbers, AnewTranscript
  <1> QED
    BY <1>2, <1>4, <1>5

LEMMA OnlyTheLatestNext == IInv /\ [Next]_vars => OnlyTheLatest'
  <1> SUFFICES ASSUME IInv, [Next]_vars, ~misread', current' # NoSocket
               PROVE  LatestFrames' /\ LatestTurns' /\ PendingLine'
    BY LatestIs
  <1>0. current' \in Sockets
    BY TypesNext DEF TypeOK
  <1>1. CASE Anew
    <2>1. toClient'[current'] = << >> /\ \A m \in Messages : turn'[m].on # current'
      BY <1>0, <1>1, AnewIsEmpty
    <2>2. pending' = FALSE
      BY <1>1, AnewTranscript
    <2>3. LatestFrames'
      BY <2>1 DEF LatestFrames
    <2> QED
      BY <2>1, <2>2, <2>3 DEF LatestTurns, PendingLine
  <1>2. CASE ~Anew
    <2>1. current' = current /\ ~misread /\ current \in Sockets
      BY <1>0, <1>2, CurrentMoves, MisreadStays
    <2>2. ASSUME NEW f \in Frames, Reads(f) PROVE LatestFrames' /\ LatestTurns' /\ PendingLine'
      BY <2>2, LatestOnRead
    <2>3. ASSUME NEW k \in Messages, Serves(k) PROVE LatestFrames' /\ LatestTurns' /\ PendingLine'
      BY <2>1, <2>3, LatestOnServe
    <2>4. CASE SendDraft
      BY <2>1, <2>4, LatestOnSend
    <2>5. ASSUME NEW r \in Sockets, Links(r), UNCHANGED browser PROVE LatestFrames' /\ LatestTurns' /\ PendingLine'
      BY <2>1, <2>5, LatestElsewhere DEF Elsewhere, Links, LinkFrame, browser, shown
    <2>6. ASSUME NEW r \in Sockets, OnOpen(r) PROVE LatestFrames' /\ LatestTurns' /\ PendingLine'
      <3>1. UNCHANGED <<turn, current, pending, transcript>>
        BY <2>6 DEF OnOpen
      <3> QED
        BY <2>1, <2>6, <3>1, LatestElsewhere DEF Elsewhere
    <2>7. ASSUME NEW r \in Sockets, OnClose(r) PROVE LatestFrames' /\ LatestTurns' /\ PendingLine'
      <3>1. UNCHANGED <<turn, current, pending, transcript>>
        BY <1>0, <2>1, <2>7, Numbers DEF OnClose, IsCurrentSocket
      <3> QED
        BY <2>1, <2>7, <3>1, LatestElsewhere DEF Elsewhere
    <2>8. CASE UNCHANGED vars
      BY <2>1, <2>8, LatestElsewhere DEF Elsewhere, vars, browser, shown
    <2> QED
      BY <1>2, <2>2, <2>3, <2>4, <2>5, <2>6, <2>7, <2>8, Steps, TurnMovesServe, Reading
  <1> QED
    BY <1>1, <1>2

-----------------------------------------------------------------------------
\* Activities are filed under their turns

FiledAt(i) == activity[i].turnId = Cardinality({m \in Asked : m <= activity[i].of})

LEMMA FiledIs ==
    /\ Filed <=> (~misread => \A i \in DOMAIN activity : FiledAt(i))
    /\ Filed' <=> (~misread' => \A i \in DOMAIN activity' : FiledAt(i)')
  BY DEF Filed, FiledAt

\* The frame of an activity that is read is put on the panel.
LEMMA ReadActivity ==
    ASSUME IInv, NEW f \in Frames, Reads(f), ~misread'
    PROVE  /\ turnId # 0 /\ turnId = Cardinality(Asked)
           /\ \/ f.kind = "activity" /\ activity' = ApplyActivityFrame(activity, f)
              \/ Ends(f) /\ activity' = activity
  <1>1. turnId = Cardinality(Asked)
    BY DEF IInv, Screen
  <1>2. f.of \in Asked /\ Asked # {}
    BY ReadTranscript
  <1>3. turnId # 0
    BY <1>1, <1>2, AskedNumbers
  <1>4. Understood(f) /\ OfTurn(f)
    BY ReadRightly DEF Reads
  <1>5. CASE f.kind = "activity"
    BY <1>1, <1>3, <1>4, <1>5 DEF Reads, Show
  <1>6. CASE f.kind # "activity"
    <2>1. Ends(f)
      BY <1>4, <1>6, FrameKinds DEF OfTurn, Ends
    <2>2. activity' = activity
      BY <1>6 DEF Reads, Show
    <2> QED
      BY <1>1, <1>3, <2>1, <2>2
  <1> QED
    BY <1>5, <1>6

LEMMA ActivityTyped ==
    ASSUME IInv
    PROVE  /\ activity \in Seq(Panel) /\ \A i \in DOMAIN activity : activity[i] \in Panel /\ activity[i].of \in Messages
           /\ \A i \in DOMAIN activity : turn[activity[i].of].stage # "unsent"
  <1>1. activity \in Seq(Panel)
    BY Typed DEF ScreenTypes
  <1>2. \A i \in DOMAIN activity : activity[i] \in Panel
    BY <1>1
  <1>3. \A i \in DOMAIN activity : activity[i].of \in Messages
    BY <1>2 DEF Panel
  <1>4. \A i \in DOMAIN activity : turn[activity[i].of].stage # "unsent"
    BY <1>3 DEF IInv, Screen
  <1> QED
    BY <1>1, <1>2, <1>3, <1>4

LEMMA FiledNext == IInv /\ [Next]_vars => Filed'
  <1> SUFFICES ASSUME IInv, [Next]_vars, ~misread', NEW i \in DOMAIN activity' PROVE FiledAt(i)'
    BY FiledIs
  <1>1. CASE Anew
    <2>1. ASSUME activity' = << >> PROVE FALSE
      BY <2>1
    <2> QED
      BY <1>1, <2>1, AnewTranscript
  <1>2. CASE ~Anew
    <2>1. \A j \in DOMAIN activity : FiledAt(j)
      BY <1>2, MisreadStays, FiledIs DEF IInv
    <2>2. ASSUME activity' = activity, Asked' = Asked PROVE FiledAt(i)'
      BY <2>1, <2>2 DEF FiledAt
    <2>3. ASSUME NEW f \in Frames, Reads(f) PROVE FiledAt(i)'
      <3>1. Asked' = Asked /\ Latest(f.of) /\ f.of \in Messages
        BY <2>3, ReadTranscript, ReadRightly
      <3>2. CASE f.kind = "activity" /\ turnId # 0 /\ activity' = ApplyActivityFrame(activity, f)
        <4>1. PanelGrows(f)
          BY <3>2, PanelAfter
        <4>2. CASE i \in DOMAIN activity /\ activity'[i].of = activity[i].of /\ activity'[i].turnId = activity[i].turnId
          BY <2>1, <3>1, <4>2 DEF FiledAt
        <4>3. CASE activity'[i].of = f.of /\ activity'[i].turnId = turnId
          <5>1. {m \in Asked : m <= f.of} = Asked
            BY <3>1 DEF Latest
          <5>2. turnId = Cardinality(Asked)
            BY <2>3, ReadActivity
          <5> QED
            BY <3>1, <4>3, <5>1, <5>2 DEF FiledAt
        <4> QED
          BY <4>1, <4>2, <4>3 DEF PanelGrows
      <3> QED
        BY <2>2, <2>3, <3>1, <3>2, ReadActivity
    <2>4. CASE SendDraft
      <3>1. PICK m \in Messages : Sends(m)
        BY <2>4, SendIs
      <3>2. activity' = activity /\ i \in DOMAIN activity
        BY <2>4 DEF SendDraft
      <3>3. PICK k : k = activity[i].of
        OBVIOUS
      <3>4. k \in Messages /\ turn[m].stage = "unsent" /\ turn[k].stage # "unsent"
        BY <3>1, <3>2, <3>3, ActivityTyped DEF Sends
      <3>5. ~(m <= k)
        <4>1. ~(m < k) /\ m # k
          BY <3>4 DEF IInv, SentInOrder
        <4> QED
          BY <3>4, <4>1, Numbers
      <3>6. {n \in Asked' : n <= k} = {n \in Asked : n <= k}
        <4>1. Asked' = Asked \cup {m}
          BY <3>1 DEF Sends
        <4> QED
          BY <3>5, <4>1
      <3> QED
        BY <2>1, <3>2, <3>3, <3>6 DEF FiledAt
    <2> QED
      BY <1>2, <2>2, <2>3, <2>4, Steps, TurnMovesServe, Reading, UnreadIs DEF Unread
  <1> QED
    BY <1>1, <1>2

-----------------------------------------------------------------------------
\* At most one tool is shown as running

Next1(name, of) ==
    IF toClient[current] = << >> THEN turn[of].tool = name ELSE Finishes(toClient[current][1], name)

RunningAt(i) ==
    activity[i].state = "running" =>
        /\ Latest(activity[i].of) /\ activity[i].turnId = turnId /\ pending = TRUE
        /\ \A j \in DOMAIN activity : activity[j].state = "running" => j = i
        /\ Next1(activity[i].name, activity[i].of)

StartedAt(i) ==
    toClient[current][i].state = "started" =>
        IF i = Len(toClient[current]) THEN turn[toClient[current][i].of].tool = toClient[current][i].name
        ELSE Finishes(toClient[current][i + 1], toClient[current][i].name)

LEMMA RunsIs ==
    /\ OneToolRuns <=> (~misread /\ current # NoSocket =>
          /\ \A i \in DOMAIN activity : RunningAt(i)
          /\ \A i \in DOMAIN toClient[current] : StartedAt(i))
    /\ OneToolRuns' <=> (~misread' /\ current' # NoSocket =>
          /\ \A i \in DOMAIN activity' : RunningAt(i)'
          /\ \A i \in DOMAIN toClient'[current'] : StartedAt(i)')
  BY DEF OneToolRuns, RunningAt, StartedAt, Next1

LEMMA NamesAreTools ==
    /\ "none" \notin Tools \cup Reports
    /\ \A f \in Frames : f.state = "started" => f.name # "none" /\ OfTurn(f) /\ ~Ends(f) /\ f # Close
  <1>1. "none" \notin Tools \cup Reports
    BY ChatAssumption DEF EventTools, AgentStatuses, EventCategories
  <1>2. ASSUME NEW f \in Frames, f.state = "started" PROVE f.name # "none" /\ OfTurn(f) /\ ~Ends(f) /\ f # Close
    <2>1. OfTurn(f) /\ ~Ends(f)
      BY <1>2, FrameKinds
    <2>2. f.kind = "activity"
      BY <2>1, FrameKinds DEF OfTurn, Ends
    <2>3. f.name \in Tools \cup Reports
      BY <2>2, FrameKinds
    <2> QED
      BY <1>1, <2>1, <2>2, <2>3, FrameKinds
  <1> QED
    BY <1>1, <1>2

\* A tool that runs ends with a frame that reaches the browser, or the connection is no longer
\* open and its end is on the way.
LEMMA ToolEnds ==
    ASSUME IInv, NEW k \in Messages, NEW m \in Messages, Serves(k), current \in Sockets,
           turn[m].on = current, turn[m].tool # "none", turn[k].on = current => k = m,
           toClient[current] = << >> \/ toClient[current][Len(toClient[current])] # Close
    PROVE  \/ turn'[m].tool = turn[m].tool /\ toClient'[current] = toClient[current]
           \/ \E f \in Frames : Gains(current, f, 1) /\ Finishes(f, turn[m].tool)
  <1>1. CASE k # m
    <2>1. turn'[m] = turn[m] /\ turn[k].on # current
      BY <1>1, ServeKeeps DEF Moves
    <2>2. toClient'[current] = toClient[current]
      BY <2>1, ServeGains DEF Untouched, Speaks
    <2> QED
      BY <2>1, <2>2
  <1>2. CASE k = m
    <2>1. ~Silently(m) /\ \A f \in Frames : ~Concludes(m, f)
      BY DEF Silently, Concludes
    <2>2. link[current] = "open" /\ IsShown(current)
      <3>1. turn[m].stage # "unsent"
        BY Typed DEF IInv, TurnShape
      <3>2. ready[current] \notin {"none", "connecting"}
        BY <3>1 DEF IInv, TurnShape
      <3>3. ready[current] = "open"
        BY <3>2, Numbers DEF IInv, CurrentShown
      <3>4. link[current] \in {"none", "open", "closing", "closed"}
        BY Typed DEF WireTypes
      <3> QED
        BY <3>3, <3>4, Connected DEF ConnectedAt, IsShown
    <2>3. PICK f \in Frames : Speaks(m, current, f)
      BY <1>2, <2>1, <2>2, ServeGains DEF Untouched
    <2>4. Tells(m, f) /\ Gains(current, f, 1)
      BY <2>1, <2>3 DEF Speaks
    <2>5. Finishes(f, turn[m].tool)
      BY <2>4 DEF Tells, Finishes
    <2> QED
      BY <2>4, <2>5
  <1> QED
    BY <1>1, <1>2

LEMMA RunsOnServe ==
    ASSUME IInv, [Next]_vars, NEW k \in Messages, Serves(k), ~misread, current \in Sockets
    PROVE  /\ \A i \in DOMAIN activity' : RunningAt(i)'
           /\ \A i \in DOMAIN toClient'[current'] : StartedAt(i)'
  <1>0. UNCHANGED <<current, pending, transcript, activity, turnId>> /\ Asked' = Asked
    BY ServeKeeps, UnreadIs DEF browser, shown, Unread
  <1>1. LatestFrames /\ LatestTurns
    BY Numbers, LatestIs DEF IInv
  <1>2. /\ \A i \in DOMAIN activity : RunningAt(i)
        /\ \A i \in DOMAIN toClient[current] : StartedAt(i)
    BY Numbers, RunsIs DEF IInv
  <1>3. \A m : Latest(m)' <=> Latest(m)
    BY <1>0, SameLatest
  <1>4. turn[k].on = current /\ turn[k].reply = "none" => Latest(k)
    BY <1>1 DEF LatestTurns
  <1>5. ASSUME NEW m \in Messages, Latest(m), turn[m].on = current, turn[m].tool # "none",
               toClient[current] = << >> \/ toClient[current][Len(toClient[current])] # Close
        PROVE  \/ turn'[m].tool = turn[m].tool /\ toClient'[current] = toClient[current]
               \/ \E f \in Frames : Gains(current, f, 1) /\ Finishes(f, turn[m].tool)
    <2>1. CASE turn[k].on = current => k = m
      BY <1>5, <2>1, ToolEnds
    <2>2. CASE turn[k].on = current /\ k # m
      <3>1. turn[k].reply # "none"
        BY <1>4, <1>5, <2>2, TheLatest
      <3>2. Silently(k)
        BY <3>1, ServeKeeps
      <3>3. turn'[m] = turn[m] /\ toClient'[current] = toClient[current]
        BY <2>2, <3>2 DEF Silently, Moves
      <3> QED
        BY <3>3
    <2> QED
      BY <2>1, <2>2
  <1>6. ASSUME NEW i \in DOMAIN activity' PROVE RunningAt(i)'
    <2> SUFFICES ASSUME activity[i].state = "running" PROVE Next1(activity[i].name, activity[i].of)'
      BY <1>0, <1>2, <1>3, <1>6 DEF RunningAt
    <2>0. PICK m, name : m = activity[i].of /\ name = activity[i].name
      OBVIOUS
    <2>1. m \in Messages /\ name # "none" /\ Latest(m) /\ turn[m].on = current
      <3>1. Latest(m) /\ m \in Messages /\ activity[i] \in Panel
        BY <1>0, <1>2, <1>6, <2>0, ActivityTyped DEF RunningAt
      <3>2. name # "none"
        BY <2>0, <3>1, NamesAreTools DEF Panel
      <3> QED
        BY <3>1, <3>2, Numbers DEF Latest, IInv, Screen
    <2>2. Next1(name, m)
      BY <1>0, <1>2, <1>6, <2>0 DEF RunningAt
    <2>3. CASE toClient[current] = << >>
      <3>1. turn[m].tool = name
        BY <2>2, <2>3 DEF Next1
      <3>2. CASE turn'[m].tool = turn[m].tool /\ toClient'[current] = toClient[current]
        BY <1>0, <2>0, <2>3, <3>1, <3>2 DEF Next1
      <3>3. ASSUME NEW f \in Frames, Gains(current, f, 1), Finishes(f, turn[m].tool) PROVE Next1(activity[i].name, activity[i].of)'
        <4>1. Len(toClient[current]) = 0
          BY <2>3
        <4>2. toClient'[current][1] = f /\ toClient'[current] # << >>
          BY <3>3, <4>1 DEF Gains
        <4> QED
          BY <1>0, <2>0, <3>1, <3>3, <4>2 DEF Next1
      <3> QED
        BY <1>5, <2>1, <2>3, <3>1, <3>2, <3>3
    <2>4. CASE toClient[current] # << >>
      <3>1. 1 \in DOMAIN toClient[current] /\ Finishes(toClient[current][1], name)
        BY <2>2, <2>4, Typed DEF Next1
      <3>2. toClient'[current] # << >> /\ toClient'[current][1] = toClient[current][1]
        <4>1. CASE toClient'[current] = toClient[current]
          BY <2>4, <4>1
        <4>2. ASSUME NEW f \in Frames, Speaks(k, current, f) PROVE toClient'[current] # << >> /\ toClient'[current][1] = toClient[current][1]
          BY <3>1, <4>2 DEF Speaks, Gains
        <4> QED
          BY <4>1, <4>2, ServeGains DEF Untouched
      <3> QED
        BY <1>0, <2>0, <3>1, <3>2 DEF Next1
    <2> QED
      BY <2>3, <2>4
  <1>7. ASSUME NEW i \in DOMAIN toClient[current] PROVE toClient'[current][i] = toClient[current][i] => StartedAt(i)'
    <2> DEFINE frame == toClient[current][i]
    <2> SUFFICES ASSUME frame.state = "started", toClient'[current][i] = frame PROVE StartedAt(i)'
      BY <1>0 DEF StartedAt
    <2>0. /\ i \in 1..Len(toClient[current]) /\ Len(toClient[current]) \in Nat /\ toClient[current] # << >>
          /\ frame.name # "none" /\ OfTurn(frame) /\ frame # Close
      BY <1>7, Typed, NamesAreTools
    <2>1. frame.of \in Messages /\ Latest(frame.of) /\ turn[frame.of].on = current
      BY <1>1, <1>7, <2>0, FrameOf DEF LatestFrames
    <2>2. CASE i = Len(toClient[current])
      <3>1. turn[frame.of].tool = frame.name
        BY <1>2, <1>7, <2>2 DEF StartedAt
      <3>2. CASE turn'[frame.of].tool = turn[frame.of].tool /\ toClient'[current] = toClient[current]
        BY <1>0, <2>2, <3>1, <3>2 DEF StartedAt
      <3>3. ASSUME NEW f \in Frames, Gains(current, f, 1), Finishes(f, turn[frame.of].tool) PROVE StartedAt(i)'
        <4>1. toClient'[current][i + 1] = f /\ Len(toClient'[current]) = i + 1
          BY <2>2, <3>3 DEF Gains
        <4> QED
          BY <1>0, <2>0, <3>1, <3>3, <4>1 DEF StartedAt
      <3> QED
        BY <1>5, <2>0, <2>1, <2>2, <3>1, <3>2, <3>3
    <2>3. CASE i # Len(toClient[current])
      <3>1. i + 1 \in DOMAIN toClient[current] /\ Finishes(toClient[current][i + 1], frame.name)
        BY <1>2, <1>7, <2>0, <2>3, Typed DEF StartedAt
      <3>2. toClient'[current][i + 1] = toClient[current][i + 1] /\ i # Len(toClient'[current])
        <4>1. CASE toClient'[current] = toClient[current]
          BY <2>3, <4>1
        <4>2. ASSUME NEW f \in Frames, Speaks(k, current, f)
              PROVE  toClient'[current][i + 1] = toClient[current][i + 1] /\ i # Len(toClient'[current])
          <5>1. /\ Len(toClient[current]) \in Nat /\ DOMAIN toClient[current] = 1..Len(toClient[current])
                /\ \A j \in DOMAIN toClient[current] : toClient'[current][j] = toClient[current][j]
                /\ \/ Len(toClient'[current]) = Len(toClient[current]) + 1
                   \/ Len(toClient'[current]) = Len(toClient[current]) + 2
            BY <4>2 DEF Speaks, Gains
          <5> QED
            BY <3>1, <5>1
        <4> QED
          BY <4>1, <4>2, ServeGains DEF Untouched
      <3> QED
        BY <1>0, <3>1, <3>2 DEF StartedAt
    <2> QED
      BY <2>2, <2>3
  <1>8. ASSUME NEW i \in DOMAIN toClient'[current] PROVE StartedAt(i)'
    <2>1. CASE toClient'[current] = toClient[current]
      BY <1>7, <1>8, <2>1
    <2>2. ASSUME NEW f \in Frames, Speaks(k, current, f) PROVE StartedAt(i)'
      <3>1. CASE i \in DOMAIN toClient[current]
        BY <1>7, <2>2, <3>1 DEF Speaks, Gains
      <3>2. CASE i = Len(toClient[current]) + 1
        <4> SUFFICES ASSUME f.state = "started" PROVE StartedAt(i)'
          BY <1>0, <2>2, <3>2 DEF Speaks, Gains, StartedAt
        <4>1. Tells(k, f) /\ Gains(current, f, 1)
          BY <2>2, NamesAreTools DEF Speaks, Concludes
        <4>2. turn'[k].tool = f.name /\ f.of = k
          BY <4>1 DEF Tells
        <4>3. toClient'[current][i] = f /\ i = Len(toClient'[current])
          BY <3>2, <4>1 DEF Gains
        <4> QED
          BY <1>0, <4>2, <4>3 DEF StartedAt
      <3>3. CASE Gains(current, f, 2) /\ i = Len(toClient[current]) + 2
        BY <1>0, <3>3, OpenAndClose DEF Gains, StartedAt
      <3> QED
        BY <1>8, <2>2, <3>1, <3>2, <3>3 DEF Speaks, Gains
    <2> QED
      BY <2>1, <2>2, ServeGains DEF Untouched
  <1> QED
    BY <1>0, <1>6, <1>8

\* Nothing is said and nothing is read on the current socket.
LEMMA RunsKept ==
    ASSUME IInv, ~misread, current \in Sockets, UNCHANGED <<turn, current, pending, turnId, activity, transcript>>,
           toClient'[current] = toClient[current]
    PROVE  /\ \A i \in DOMAIN activity' : RunningAt(i)'
           /\ \A i \in DOMAIN toClient'[current'] : StartedAt(i)'
  <1>1. /\ \A i \in DOMAIN activity : RunningAt(i)
        /\ \A i \in DOMAIN toClient[current] : StartedAt(i)
    BY Numbers, RunsIs DEF IInv
  <1>2. \A m : Latest(m)' <=> Latest(m)
    BY SameLatest DEF Asked
  <1> QED
    BY <1>1, <1>2 DEF RunningAt, StartedAt, Next1

\* The connection breaks.
LEMMA RunsCut ==
    ASSUME IInv, ~misread, current \in Sockets, UNCHANGED <<turn, current, pending, turnId, activity, transcript>>,
           NEW n \in Nat, CutAt(current, n)
    PROVE  /\ \A i \in DOMAIN activity' : RunningAt(i)'
           /\ \A i \in DOMAIN toClient'[current'] : StartedAt(i)'
  <1>1. /\ \A i \in DOMAIN activity : RunningAt(i)
        /\ \A i \in DOMAIN toClient[current] : StartedAt(i)
    BY Numbers, RunsIs DEF IInv
  <1>2. \A m : Latest(m)' <=> Latest(m)
    BY SameLatest DEF Asked
  <1>3. Len(toClient[current]) \in Nat /\ DOMAIN toClient[current] = 1..Len(toClient[current])
    BY Typed
  <1>4. ASSUME NEW i \in DOMAIN activity PROVE RunningAt(i)'
    <2> SUFFICES ASSUME activity[i].state = "running" PROVE Next1(activity[i].name, activity[i].of)'
      BY <1>1, <1>2 DEF RunningAt
    <2>1. Next1(activity[i].name, activity[i].of)
      BY <1>1 DEF RunningAt
    <2>2. toClient'[current] # << >>
      BY DEF CutAt
    <2>3. CASE n = 0
      BY <2>2, <2>3 DEF CutAt, Next1, Finishes
    <2>4. CASE n # 0
      <3>1. toClient[current] # << >> /\ toClient'[current][1] = toClient[current][1]
        BY <1>3, <2>4 DEF CutAt
      <3> QED
        BY <2>1, <2>2, <3>1 DEF Next1
    <2> QED
      BY <2>3, <2>4
  <1>5. ASSUME NEW i \in DOMAIN toClient'[current] PROVE StartedAt(i)'
    <2>1. CASE i = n + 1
      BY <2>1, OpenAndClose DEF CutAt, StartedAt
    <2>2. CASE i \in 1..n
      <3>1. i \in DOMAIN toClient[current] /\ toClient'[current][i] = toClient[current][i] /\ i # Len(toClient'[current])
        BY <1>3, <2>2 DEF CutAt
      <3>2. CASE i = n
        BY <3>1, <3>2 DEF CutAt, StartedAt, Finishes
      <3>3. CASE i # n
        <4>1. i # Len(toClient[current]) /\ toClient'[current][i + 1] = toClient[current][i + 1]
          BY <1>3, <2>2, <3>3 DEF CutAt
        <4> QED
          BY <1>1, <3>1, <4>1 DEF StartedAt
      <3> QED
        BY <3>2, <3>3
    <2> QED
      BY <1>5, <2>1, <2>2 DEF CutAt
  <1> QED
    BY <1>4, <1>5

\* The first frame is taken.
LEMMA StartedShifts ==
    ASSUME IInv, ~misread, current \in Sockets, UNCHANGED <<turn, current>>, Popped(current),
           NEW i \in DOMAIN toClient'[current]
    PROVE  StartedAt(i)'
  <1>1. i + 1 \in DOMAIN toClient[current] /\ toClient'[current][i] = toClient[current][i + 1]
        /\ (i = Len(toClient'[current]) <=> i + 1 = Len(toClient[current]))
    BY DEF Popped
  <1>2. StartedAt(i + 1)
    BY <1>1, Numbers, RunsIs DEF IInv
  <1>3. i # Len(toClient'[current]) => toClient'[current][i + 1] = toClient[current][i + 1 + 1]
    BY DEF Popped
  <1> QED
    BY <1>1, <1>2, <1>3 DEF StartedAt

\* Nothing runs on a socket that has not opened.
LEMMA NothingYet ==
    ASSUME IInv, ~misread, current \in Sockets, ready[current] = "connecting", NEW i \in DOMAIN activity
    PROVE  activity[i].state # "running"
  <1> SUFFICES ASSUME activity[i].state = "running" PROVE FALSE
    OBVIOUS
  <1>1. Latest(activity[i].of) /\ activity[i].of \in Messages
    BY ActivityTyped, Numbers, RunsIs DEF IInv, RunningAt
  <1>2. turn[activity[i].of].on = current
    BY <1>1, Numbers DEF Latest, IInv, Screen
  <1>3. turn[activity[i].of].on = NoSocket
    BY <1>1, <1>2, NewSocket
  <1> QED
    BY <1>2, <1>3, Numbers

LEMMA RunsElsewhere ==
    ASSUME IInv, ~misread, current \in Sockets, current' = current,
           \/ \E r \in Sockets : Links(r) /\ UNCHANGED browser
           \/ \E r \in Sockets : OnOpen(r) \/ OnClose(r)
           \/ UNCHANGED vars
    PROVE  /\ \A i \in DOMAIN activity' : RunningAt(i)'
           /\ \A i \in DOMAIN toClient'[current'] : StartedAt(i)'
  <1>1. ASSUME NEW r \in Sockets, Links(r), UNCHANGED browser
        PROVE  /\ \A i \in DOMAIN activity' : RunningAt(i)'
               /\ \A i \in DOMAIN toClient'[current'] : StartedAt(i)'
    <2>0. UNCHANGED <<turn, current, pending, turnId, activity, transcript>>
      BY <1>1 DEF Links, LinkFrame, browser, shown
    <2>1. CASE toClient'[current] = toClient[current]
      BY <2>0, <2>1, RunsKept
    <2>2. CASE r = current /\ Opened(r)
      <3>1. \A i \in DOMAIN activity' : activity'[i].state # "running"
        BY <2>0, <2>2, NothingYet DEF Opened
      <3>2. toClient'[current] = <<Open>> /\ Open.state # "started"
        BY <2>2, OpenAndClose DEF Opened
      <3>3. \A i \in DOMAIN toClient'[current] : toClient'[current][i].state # "started"
        BY <3>2
      <3> QED
        BY <2>0, <3>1, <3>3 DEF RunningAt, StartedAt
    <2>3. ASSUME NEW n \in Nat, r = current, CutAt(r, n)
          PROVE  /\ \A i \in DOMAIN activity' : RunningAt(i)'
                 /\ \A i \in DOMAIN toClient'[current'] : StartedAt(i)'
      BY <2>0, <2>3, RunsCut
    <2> QED
      BY <1>1, <2>1, <2>2, <2>3 DEF Links, LinkFrame
  <1>2. ASSUME NEW r \in Sockets, OnOpen(r)
        PROVE  /\ \A i \in DOMAIN activity' : RunningAt(i)'
               /\ \A i \in DOMAIN toClient'[current'] : StartedAt(i)'
    <2>1. r = current /\ ready[r] = "connecting" /\ Popped(r)
      BY <1>2, OpenIsCurrent
    <2>2. UNCHANGED <<turn, activity, current>>
      BY <1>2 DEF OnOpen
    <2>3. \A i \in DOMAIN activity' : activity'[i].state # "running"
      BY <2>1, <2>2, NothingYet
    <2> QED
      BY <2>1, <2>2, <2>3, StartedShifts DEF RunningAt
  <1>3. ASSUME NEW r \in Sockets, OnClose(r)
        PROVE  /\ \A i \in DOMAIN activity' : RunningAt(i)'
               /\ \A i \in DOMAIN toClient'[current'] : StartedAt(i)'
    <2>1. r # current /\ UNCHANGED <<turn, pending, turnId, activity, transcript>>
      BY <1>3, Numbers DEF OnClose, IsCurrentSocket
    <2>2. toClient'[current] = toClient[current]
      BY <1>3, <2>1, Typed DEF OnClose, WireTypes
    <2> QED
      BY <2>1, <2>2, RunsKept
  <1>4. CASE UNCHANGED vars
    BY <1>4, RunsKept DEF vars, wire, browser, shown
  <1> QED
    BY <1>1, <1>2, <1>3, <1>4

\* The next frame ends what runs.
LEMMA RunsNow ==
    ASSUME IInv, NEW f \in Frames, Reads(f), ~misread
    PROVE  /\ \A i, j \in DOMAIN activity : activity[i].state = "running" /\ activity[j].state = "running" => i = j
           /\ \A i \in DOMAIN activity : activity[i].state = "running" =>
                 /\ f.kind = "activity" /\ f.state \in {"completed", "failed"}
                 /\ f.name = activity[i].name /\ activity[i].turnId = turnId
  <1>1. \A i \in DOMAIN activity : RunningAt(i)
    BY Numbers, RunsIs DEF IInv, Reads
  <1>2. toClient[current] # << >> /\ toClient[current][1] = f /\ OfTurn(f) /\ f # Close
    BY FrameKinds, OpenAndClose DEF Reads, OfTurn
  <1>3. ASSUME NEW i \in DOMAIN activity, activity[i].state = "running"
        PROVE  f.kind = "activity" /\ f.state \in {"completed", "failed"} /\ f.name = activity[i].name /\ activity[i].turnId = turnId
    <2>1. Finishes(f, activity[i].name) /\ activity[i].turnId = turnId
      BY <1>1, <1>2, <1>3 DEF RunningAt, Next1
    <2>2. f.state \in {"completed", "failed"} /\ f.name = activity[i].name
      BY <1>2, <2>1 DEF Finishes
    <2>3. f.kind = "activity"
      BY <1>2, <2>2, FrameKinds DEF OfTurn, Ends
    <2> QED
      BY <2>1, <2>2, <2>3
  <1>4. \A i, j \in DOMAIN activity : activity[i].state = "running" /\ activity[j].state = "running" => i = j
    BY <1>1 DEF RunningAt
  <1> QED
    BY <1>3, <1>4

LEMMA RunsOnRead ==
    ASSUME IInv, NEW f \in Frames, Reads(f), ~misread'
    PROVE  /\ \A i \in DOMAIN activity' : RunningAt(i)'
           /\ \A i \in DOMAIN toClient'[current'] : StartedAt(i)'
  <1>0. /\ ~misread /\ current' = current /\ current \in Sockets /\ turn' = turn /\ turnId' = turnId
        /\ Popped(current) /\ Latest(f.of) /\ f.of \in Messages /\ Asked' = Asked
    BY ReadRightly, ReadTranscript DEF Reads
  <1>1. \A i \in DOMAIN toClient'[current'] : StartedAt(i)'
    BY <1>0, StartedShifts
  <1>2. \A m : Latest(m)' <=> Latest(m)
    BY <1>0, SameLatest
  <1>3. CASE Ends(f) /\ activity' = activity
    <2>1. \A i \in DOMAIN activity : activity[i].state # "running"
      BY <1>0, <1>3, RunsNow DEF Ends
    <2> QED
      BY <1>1, <1>3, <2>1 DEF RunningAt
  <1>4. CASE f.kind = "activity" /\ activity' = ApplyActivityFrame(activity, f) /\ turnId # 0
    <2>1. (f.state \in {"completed", "failed"} /\ Updated(f)) \/ Added(f)
      BY <1>0, <1>4, RunsNow, OnePanel
    <2>2. pending' = TRUE
      BY <1>4, ReadPending DEF Ends
    <2>3. CASE f.state \in {"completed", "failed"} /\ Updated(f)
      <3>1. \A i \in DOMAIN activity' : activity'[i].state # "running"
        <4>1. PICK k \in DOMAIN activity :
                  /\ activity[k].state = "running"
                  /\ DOMAIN activity' = DOMAIN activity
                  /\ \A i \in DOMAIN activity : i # k => activity'[i] = activity[i]
                  /\ activity'[k].state = f.state
          BY <2>3 DEF Updated
        <4>2. \A i \in DOMAIN activity : i # k => activity[i].state # "running"
          BY <1>0, <4>1, RunsNow
        <4> QED
          BY <2>3, <4>1, <4>2
      <3> QED
        BY <1>1, <3>1 DEF RunningAt
    <2>4. CASE Added(f)
      <3>1. \A i \in DOMAIN activity : activity[i].state # "running"
        BY <1>0, <2>4, RunsNow DEF Added
      <3>2. PICK n \in Nat : n = Len(activity) + 1
        BY <2>4 DEF Added
      <3>3. /\ \A i \in DOMAIN activity' : i = n \/ (i \in DOMAIN activity /\ activity'[i] = activity[i])
            /\ activity'[n].turnId = turnId /\ activity'[n].of = f.of /\ activity'[n].name = f.name
            /\ activity'[n].state = IF f.state = "started" THEN "running" ELSE f.state
        BY <2>4, <3>2 DEF Added
      <3>4. f.state = "running" => FALSE
        BY <1>4, FrameKinds
      <3>5. \A i \in DOMAIN activity' : activity'[i].state = "running" => i = n /\ f.state = "started"
        BY <3>1, <3>3, <3>4
      <3>6. f.state = "started" => Next1(f.name, f.of)'
        <4> SUFFICES ASSUME f.state = "started" PROVE Next1(f.name, f.of)'
          OBVIOUS
        <4>1. StartedAt(1) /\ toClient[current][1] = f
          BY <1>0, Numbers, RunsIs DEF IInv, Reads
        <4>2. CASE toClient'[current] = << >>
          <5>1. 1 = Len(toClient[current])
            BY <1>0, <4>2 DEF Popped
          <5> QED
            BY <1>0, <4>1, <4>2, <5>1 DEF StartedAt, Next1
        <4>3. CASE toClient'[current] # << >>
          <5>1. 1 # Len(toClient[current]) /\ toClient'[current][1] = toClient[current][1 + 1]
            <6>1. toClient'[current] \in Seq(Frames)
              BY <1>0 DEF Popped
            <6>2. Len(toClient'[current]) # 0 /\ Len(toClient'[current]) \in Nat
              BY <4>3, <6>1
            <6>3. /\ Len(toClient[current]) \in Nat /\ Len(toClient'[current]) = Len(toClient[current]) - 1
                  /\ DOMAIN toClient'[current] = 1..(Len(toClient[current]) - 1)
                  /\ \A i \in DOMAIN toClient'[current] : toClient'[current][i] = toClient[current][i + 1]
              BY <1>0 DEF Popped
            <6>4. 1 # Len(toClient[current]) /\ 1 \in DOMAIN toClient'[current]
              <7>1. PICK a : a = Len(toClient[current])
                OBVIOUS
              <7>2. a \in Nat /\ a - 1 # 0 /\ a - 1 \in Nat
                BY <6>2, <6>3, <7>1
              <7>3. a # 1 /\ 1 \in 1..(a - 1)
                BY <7>2
              <7> QED
                BY <6>3, <7>1, <7>3
            <6> QED
              BY <6>3, <6>4
          <5> QED
            BY <1>0, <4>1, <4>3, <5>1 DEF StartedAt, Next1
        <4> QED
          BY <4>2, <4>3
      <3>7. ASSUME NEW i \in DOMAIN activity' PROVE RunningAt(i)'
        <4> SUFFICES ASSUME activity'[i].state = "running" PROVE RunningAt(i)'
          BY DEF RunningAt
        <4>1. i = n /\ f.state = "started"
          BY <3>5, <3>7
        <4>2. activity'[i].of = f.of /\ activity'[i].name = f.name /\ activity'[i].turnId = turnId'
          BY <1>0, <3>3, <4>1
        <4>3. Latest(f.of)' /\ Next1(f.name, f.of)'
          BY <1>0, <1>2, <3>6, <4>1
        <4>4. \A j \in DOMAIN activity' : activity'[j].state = "running" => j = i
          BY <3>5, <4>1
        <4> QED
          BY <2>2, <4>2, <4>3, <4>4 DEF RunningAt, Latest, Next1
      <3> QED
        BY <1>1, <3>7
    <2> QED
      BY <2>1, <2>3, <2>4
  <1> QED
    BY <1>3, <1>4, ReadActivity

LEMMA RunsOnSend ==
    ASSUME IInv, [Next]_vars, SendDraft, ~misread
    PROVE  /\ \A i \in DOMAIN activity' : RunningAt(i)'
           /\ \A i \in DOMAIN toClient'[current'] : StartedAt(i)'
  <1>1. PICK m \in Messages : Sends(m)
    BY SendIs
  <1>2. UNCHANGED <<toClient, current, activity>> /\ current # NoSocket /\ current \in Sockets /\ pending # TRUE
    BY <1>1, Numbers DEF SendDraft, Sends
  <1>3. \A i \in DOMAIN activity : activity[i].state # "running"
    BY <1>2, RunsIs DEF IInv, RunningAt
  <1>4. \A i \in DOMAIN toClient[current] : toClient[current][i].state # "started"
    <2>1. \A i \in DOMAIN toClient[current] : ~OfTurn(toClient[current][i])
      BY <1>2, LatestIs DEF IInv, LatestFrames
    <2> QED
      BY <1>2, <2>1, Typed, NamesAreTools
  <1> QED
    BY <1>2, <1>3, <1>4 DEF RunningAt, StartedAt

LEMMA OneToolRunsNext == IInv /\ [Next]_vars => OneToolRuns'
  <1> SUFFICES ASSUME IInv, [Next]_vars, ~misread', current' # NoSocket
               PROVE  /\ \A i \in DOMAIN activity' : RunningAt(i)'
                      /\ \A i \in DOMAIN toClient'[current'] : StartedAt(i)'
    BY RunsIs
  <1>0. current' \in Sockets
    BY TypesNext DEF TypeOK
  <1>1. CASE Anew
    <2>1. toClient'[current'] = << >>
      BY <1>0, <1>1, AnewIsEmpty
    <2>2. activity' = << >>
      BY <1>1, AnewTranscript
    <2> QED
      BY <2>1, <2>2
  <1>2. CASE ~Anew
    <2>1. current' = current /\ ~misread /\ current \in Sockets
      BY <1>0, <1>2, CurrentMoves, MisreadStays
    <2> QED
      BY <1>2, <2>1, Steps, TurnMovesServe, Reading, RunsOnServe, RunsOnRead, RunsOnSend, RunsElsewhere
  <1> QED
    BY <1>1, <1>2

-----------------------------------------------------------------------------
\* The invariant

LEMMA InitTypes == Init => TypeOK
  <1> SUFFICES ASSUME Init PROVE TypeOK
    OBVIOUS
  <1>1. Unsent \in Turn
    BY ChatAssumption DEF Unsent, Turn
  <1>2. WireTypes /\ HandlerTypes
    BY DEF Init, RouteInit, WireTypes, HandlerTypes
  <1>3. turn \in [Messages -> Turn]
    BY <1>1 DEF Init, RouteInit
  <1>4. << >> \in Seq(Line) /\ << >> \in Seq(Panel) /\ 0 \in 0..MaxMessages
    BY EmptySeq, ChatAssumption
  <1>5. ScreenTypes
    BY <1>4 DEF Init, ScreenTypes
  <1> QED
    BY <1>5, <1>2, <1>3, <1>4, TypesByPart

LEMMA InitInv == Init => IInv
  <1> SUFFICES ASSUME Init PROVE IInv
    OBVIOUS
  <1>1. /\ ready = [s \in Sockets |-> "none"] /\ link = [s \in Sockets |-> "none"]
        /\ toServer = [s \in Sockets |-> << >>] /\ toClient = [s \in Sockets |-> << >>]
        /\ session = [s \in Sockets |-> "none"] /\ busy = [s \in Sockets |-> FALSE]
        /\ rows = [s \in Sockets |-> 0] /\ turn = [m \in Messages |-> Unsent]
    BY DEF Init, RouteInit
  <1>2. /\ current = NoSocket /\ connection = "idle" /\ pending = FALSE /\ turnId = 0
        /\ transcript = << >> /\ activity = << >> /\ misread = FALSE
    BY DEF Init
  <1>3. Unsent.stage = "unsent" /\ Unsent.tool = "none" /\ Unsent.reply = "none" /\ Unsent.on = NoSocket
    BY DEF Unsent
  <1>4. TurnShape /\ SentInOrder /\ SessionOnce
    BY <1>1, <1>3 DEF TurnShape, SentInOrder, SessionOnce, Unreplied
  <1>5. OnTheWay
    BY <1>1 DEF OnTheWay
  <1>6. BusyWithOne
    BY <1>1, <1>3 DEF BusyWithOne, At, Running
  <1>7. OneConversation
    <2> SUFFICES ASSUME NEW s \in Sockets
                 PROVE  rows[s] <= Cardinality(Failed(s)) + (IF session[s] = "created" THEN 1 ELSE 0)
      BY DEF OneConversation, Failed
    <2>1. Cardinality(Failed(s)) \in Nat
      BY FailedFinite
    <2> QED
      BY <1>1, <2>1
  <1>8. Connections /\ CurrentShown
    BY <1>1, <1>2 DEF Connections, ConnectedAt, ClosingAt, CurrentShown
  <1>9. FramesOfTurns
    BY <1>1 DEF FramesOfTurns
  <1>10. Asked = {}
    BY <1>2 DEF Asked
  <1>11. Screen
    BY <1>1, <1>2, <1>10, FS_EmptySet DEF Screen, Answered, Said
  <1>12. AnswersFollow /\ OnlyTheLatest /\ OneToolRuns /\ Filed
    BY <1>2 DEF AnswersFollow, OnlyTheLatest, OneToolRuns, Filed
  <1>13. NoAnswerLost
    BY <1>1, <1>3 DEF NoAnswerLost
  <1> QED
    BY <1>4, <1>5, <1>6, <1>7, <1>8, <1>9, <1>11, <1>12, <1>13, InitTypes DEF IInv

LEMMA NextInv == IInv /\ [Next]_vars => IInv'
  BY TypesNext, TurnShapeNext, SentInOrderNext, OnTheWayNext, BusyNext, SessionOnceNext, OneConversationNext,
     ConnectionsNext, CurrentShownNext, FramesNext, ScreenNext, AnswersFollowNext, OnlyTheLatestNext,
     OneToolRunsNext, FiledNext, NoAnswerLostNext DEF IInv

\* Every state of the chat satisfies the inductive invariant: what is on the wire, in the handlers and
\* on the screen fits together, whatever the customer does and wherever connections break
\* (apps/api/src/routes/chat.ts:103-233, apps/web/src/App.tsx:57-202).
THEOREM Invariant == Spec => []IInv
  <1> QED
    BY InitInv, NextInv, PTL DEF Spec

\* Sockets, frames, turns, transcript and panel keep their types: only frames the route builds are on
\* the wire, and the batch of a turn never exceeds its limit (chat.ts:176-187,
\* MAX_AGENT_EVENT_BATCH_SIZE).
THEOREM ChatTypeCorrect == Spec => []TypeOK
  <1>1. IInv => TypeOK
    BY DEF IInv
  <1> QED
    BY <1>1, Invariant, PTL

\* The busy flag holds turns apart: a handler runs one turn at a time, and the flag says so exactly
\* (chat.ts:130-155 and 228).
THEOREM TurnsExclude == Spec => []OneTurnAtATime
  <1>1. IInv => OneTurnAtATime
    <2> SUFFICES ASSUME IInv, NEW s \in Sockets
                 PROVE  LET under == {m \in Messages : turn[m].on = s /\ turn[m].stage \in Running} IN
                        Cardinality(under) <= 1 /\ (busy[s] <=> under # {})
      BY DEF OneTurnAtATime
    <2>1. PICK under : under = {m \in Messages : At(m, s)}
      OBVIOUS
    <2>2. \A m, n \in under : m = n
      BY <2>1 DEF IInv, BusyWithOne
    <2>3. under # {} <=> busy[s] = TRUE
      BY <2>1 DEF IInv, BusyWithOne
    <2>4. busy[s] \in BOOLEAN
      BY Typed DEF HandlerTypes
    <2>5. Cardinality(under) <= 1
      <3>1. CASE under = {}
        BY <3>1, FS_EmptySet
      <3>2. CASE under # {}
        <4>1. PICK m : under = {m}
          BY <2>2, <3>2
        <4> QED
          BY <4>1, FS_Singleton
      <3> QED
        BY <3>1, <3>2
    <2>6. under = {m \in Messages : turn[m].on = s /\ turn[m].stage \in Running}
      BY <2>1 DEF At
    <2> QED
      BY <2>3, <2>4, <2>5, <2>6
  <1> QED
    BY <1>1, Invariant, PTL

\* The messages of a socket go to one conversation: every other row is left by an attempt whose
\* message was answered with session_error (getSession, chat.ts:132-141).
THEOREM SocketsHaveOneConversation == Spec => []OneConversation
  <1>1. IInv => OneConversation
    BY DEF IInv
  <1> QED
    BY <1>1, Invariant, PTL

\* An answer stands on the screen once, below its message, and directly below it as long as every
\* frame was understood (App.tsx:107-142).
THEOREM AnswersStandWhereTheyBelong == Spec => []AnswersFollow
  <1>1. IInv => AnswersFollow
    BY DEF IInv
  <1> QED
    BY <1>1, Invariant, PTL

\* The panel files what it shows under the right turn, and shows no tool as running when the customer
\* may write again (applyActivityFrame, apps/web/src/chat.ts:320-347), as long as every frame was understood.
THEOREM PanelTellsTheTruth == Spec => []PanelIsTrue
  <1>1. IInv => PanelIsTrue
    <2> SUFFICES ASSUME IInv, ~misread
                 PROVE  /\ \A i \in DOMAIN activity :
                             activity[i].turnId = Cardinality({m \in Asked : m <= activity[i].of})
                        /\ connection = "open" /\ ~pending =>
                             \A i \in DOMAIN activity : activity[i].state # "running"
      BY DEF PanelIsTrue
    <2>1. \A i \in DOMAIN activity : activity[i].turnId = Cardinality({m \in Asked : m <= activity[i].of})
      BY DEF IInv, Filed
    <2>2. connection = "open" => current # NoSocket
      BY DEF IInv, CurrentShown
    <2>3. current # NoSocket => \A i \in DOMAIN activity : activity[i].state = "running" => pending = TRUE
      BY DEF IInv, OneToolRuns
    <2>4. ASSUME connection = "open", ~pending, NEW i \in DOMAIN activity, activity[i].state = "running" PROVE FALSE
      <3>1. pending = TRUE
        BY <2>2, <2>3, <2>4
      <3> QED
        BY <2>4, <3>1
    <2> QED
      BY <2>1, <2>4
  <1> QED
    BY <1>1, Invariant, PTL

\* A screen that says it is not connected has no connection left open, and a retired socket never
\* takes the conversation that replaced it down (isCurrentSocket, App.tsx:98-156).
THEOREM NoSocketIsHidden == Spec => []NoHiddenSocket
  <1>1. IInv => NoHiddenSocket
    <2> SUFFICES ASSUME IInv, NEW s \in Sockets, ready[s] \in {"connecting", "open"}
                 PROVE  current = s /\ connection = ready[s]
      BY DEF NoHiddenSocket
    <2>1. current = s
      BY Connected DEF ConnectedAt
    <2>2. connection = ready[s]
      BY <2>1, Numbers DEF IInv, CurrentShown
    <2> QED
      BY <2>1, <2>2
  <1> QED
    BY <1>1, Invariant, PTL

\* The answer of a turn is on the screen or on its way, as long as its connection holds
\* (chat.ts:200-219, App.tsx:122-130).
THEOREM AnswersArrive == Spec => []NoAnswerLost
  <1>1. IInv => NoAnswerLost
    BY DEF IInv
  <1> QED
    BY <1>1, Invariant, PTL
=============================================================================

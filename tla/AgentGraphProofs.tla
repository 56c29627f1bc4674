-------------------------- MODULE AgentGraphProofs --------------------------
(***************************************************************************)
(* What AgentGraph keeps for any tools, plans, number of steps and         *)
(* recursion limit.                                                        *)
(***************************************************************************)
EXTENDS AgentGraph, SequenceTheorems, TLAPS

Event == [tool : Tools \cup {"none"},
          event : {"tool_called", "tool_succeeded", "tool_failed", "order_created", "escalation_created"}]
EarlyNodes == {"loadContext", "conversation"}
Answered == {"persist", "end"}

\* The super-steps that led to each node.
Counted ==
    /\ node = "loadContext" => visits = 0
    /\ node = "conversation" => visits = 1
    /\ node = "router" => visits = 2 * steps + 2
    /\ node = "tool" => visits = 2 * steps + 3 /\ steps < MaxSteps
    /\ node = "guardrail" => visits <= 2 * MaxSteps + 3
    /\ node = "escalation" => visits <= 2 * MaxSteps + 4
    /\ node = "response" => visits <= 2 * MaxSteps + 5
    /\ node = "persist" => visits <= 2 * MaxSteps + 6
    /\ visits <= 2 * MaxSteps + 7

\* What the planner and the tools have left.
Planned ==
    /\ node \in EarlyNodes => plan = <<>> /\ steps = 0 /\ planned = 0 /\ seen = Nothing
    /\ node = "tool" => plan # <<>> /\ next = plan[1] /\ (seen.ok \/ planned = steps)

\* What the guardrails have decided, and what was done about it.
Decided ==
    /\ node = "escalation" => verdict.handOver
    /\ node = "response" /\ verdict.handOver /\ known => open
    /\ node \notin Answered \cup {"failed"} => reply = "none"
    /\ node \in Answered => reply # "none"
    /\ reply = "escalation" /\ known => open

\* What the state knows of the order and of the escalation, and the database has.
Ordered == node # "failed" => orderId = ordered

Escalated ==
    /\ open => known
    /\ escalationId => open
    /\ node \notin {"loadContext", "end", "failed"} /\ open => escalationId

Reported ==
    /\ audit \in Seq(Event)
    /\ ToolsReported
    /\ OrdersAudited

IInv == TypeOK /\ Counted /\ Planned /\ Decided /\ Ordered /\ Escalated /\ Reported

-----------------------------------------------------------------------------
\* Whatever a tool observes is of the type of lastResult.
LEMMA ObservationsType ==
    ASSUME TypeOK, NEW a \in Tools, NEW o \in Observations(a)
    PROVE  /\ o \in [action : Tools \cup {"none"}, ok : BOOLEAN, kind : Kinds, ref : BOOLEAN]
           /\ o.action = a
  BY DEF Observations

\* A plan of the planner is one of executable and terminal actions.
LEMMA PlansType ==
    ASSUME NEW p \in Plans
    PROVE  /\ p \in Seq(Tools \cup TerminalActions)
           /\ Len(p) <= MaxPlan
           /\ p # <<>> => First(p) = p[1] /\ p[1] \in Tools \cup TerminalActions
           /\ p = <<>> => First(p) = "none"
  <1>1. PICK n \in 0..MaxPlan : p \in [1..n -> Tools \cup TerminalActions]
    BY DEF Plans
  <1>2. p \in Seq(Tools \cup TerminalActions) /\ Len(p) = n
    BY <1>1, AgentAssumption
  <1>3. QED
    BY <1>1, <1>2, AgentAssumption DEF First

LEMMA Initially == Init => IInv
  <1>1. SUFFICES ASSUME Init PROVE IInv
    OBVIOUS
  <1>2. TypeOK
    <2>1. plan \in Seq(Tools \cup TerminalActions) /\ Len(plan) <= MaxPlan + 1
      BY <1>1, AgentAssumption DEF Init
    <2>2. seen \in [action : Tools \cup {"none"}, ok : BOOLEAN, kind : Kinds, ref : BOOLEAN]
      BY <1>1 DEF Init, Nothing, Kinds
    <2>3. verdict \in [authorized : {"null", "true", "false"}, clarify : BOOLEAN, handOver : BOOLEAN]
      BY <1>1 DEF Init, Unjudged
    <2>4. steps \in 0..MaxSteps /\ planned \in 0..MaxSteps /\ visits \in 0..(RecursionLimit + 1)
      BY <1>1, AgentAssumption DEF Init
    <2>5. known \in BOOLEAN /\ open \in BOOLEAN
      BY <1>1 DEF Init
    <2>6. QED
      BY <1>1, <2>1, <2>2, <2>3, <2>4, <2>5 DEF Init, TypeOK, Errors
  <1>3. Counted
    BY <1>1, AgentAssumption DEF Init, Counted
  <1>4. Planned
    BY <1>1 DEF Init, Planned, Nothing, EarlyNodes
  <1>5. Escalated
    <2>1. open = FALSE \/ open = known
      BY <1>1 DEF Init
    <2>2. CASE open = FALSE
      BY <1>1, <2>2 DEF Init, Escalated
    <2>3. CASE open = known
      BY <1>1, <2>3, Zenon DEF Init, Escalated
    <2>4. QED
      BY <2>1, <2>2, <2>3
  <1>6. Decided
    BY <1>1 DEF Init, Decided, Answered
  <1>7. Reported
    BY <1>1 DEF Init, Reported, ToolsReported, OrdersAudited
  <1>8. Ordered
    BY <1>1 DEF Init, Ordered
  <1>9. QED
    BY <1>2, <1>3, <1>4, <1>5, <1>6, <1>7, <1>8 DEF IInv

-----------------------------------------------------------------------------
\* One lemma for each action.

LEMMA LoadContextStep == IInv /\ LoadContext => IInv'
  <1> SUFFICES ASSUME IInv, LoadContext PROVE IInv'
    OBVIOUS
  <1> USE DEF IInv
  <1>1. TypeOK'
    BY AgentAssumption DEF TypeOK, LoadContext, Visit, slots, loop, database, ids
  <1>2. Counted'
    BY AgentAssumption DEF TypeOK, Counted, LoadContext, Visit, loop
  <1>3. Planned'
    BY DEF Planned, LoadContext, Visit, loop, EarlyNodes
  <1>4. Decided'
    BY DEF Decided, Answered, LoadContext, Visit, loop, database, ids
  <1>5. Escalated'
    BY DEF TypeOK, Escalated, LoadContext, Visit, database, ids
  <1>6. Reported'
    BY DEF Reported, ToolsReported, OrdersAudited, LoadContext, database
  <1>7. Ordered'
    BY DEF TypeOK, Ordered, LoadContext, Visit, database, ids
  <1>8. QED
    BY <1>1, <1>2, <1>3, <1>4, <1>5, <1>6, <1>7

LEMMA ExtractStep == IInv /\ Extract => IInv'
  <1> SUFFICES ASSUME IInv, Extract PROVE IInv'
    OBVIOUS
  <1> USE DEF IInv
  <1>1. TypeOK'
    BY AgentAssumption DEF TypeOK, Extract, Visit, Errors, loop, database, ids
  <1>2. Counted'
    BY AgentAssumption DEF TypeOK, Counted, Planned, EarlyNodes, Extract, Visit, loop
  <1>3. Planned'
    BY DEF Planned, Extract, Visit, loop, EarlyNodes
  <1>4. Decided'
    BY DEF Decided, Answered, Extract, Visit, loop, database, ids
  <1>5. Escalated'
    BY DEF Escalated, Extract, Visit, database, ids
  <1>6. Reported'
    BY DEF Reported, ToolsReported, OrdersAudited, Extract, database
  <1>7. Ordered'
    BY DEF TypeOK, Ordered, Extract, Visit, database, ids
  <1>8. QED
    BY <1>1, <1>2, <1>3, <1>4, <1>5, <1>6, <1>7

\* Whichever branch the router takes, the plan it leaves is a plan, and a tool it
\* sends on to is the first of a plan that no failure has overtaken.
LEMMA Decision ==
    ASSUME IInv, Decide
    PROVE  /\ plan' \in Seq(Tools \cup TerminalActions) /\ Len(plan') <= MaxPlan + 1
           /\ next' \in Tools \cup TerminalActions \cup {"none"}
           /\ planned' \in 0..MaxSteps
           /\ lastError' \in Errors
           /\ next' \in ToolActions =>
                 plan' # <<>> /\ next' = plan'[1] /\ next' \in Tools /\ (seen.ok \/ planned' = steps)
  <1> USE AgentAssumption DEF IInv, TypeOK, Errors
  <1> "none" \notin ToolActions /\ TerminalActions \cap ToolActions = {}
    BY DEF ToolActions, TerminalActions
  <1>1. ASSUME NEW a \in TerminalActions, Settle(a)
        PROVE  /\ plan' \in Seq(Tools \cup TerminalActions) /\ Len(plan') <= MaxPlan + 1
               /\ next' = a /\ planned' \in 0..MaxSteps /\ lastError' \in Errors
    BY <1>1 DEF Settle
  <1>2. CASE intent = "out_of_domain"
    BY <1>1, <1>2 DEF Decide, TerminalActions
  <1>3. CASE intent # "out_of_domain" /\ DiscountAwaitsQuantity
    BY <1>1, <1>3 DEF Decide, TerminalActions
  <1>4. CASE StopAtLimit
    BY <1>4 DEF StopAtLimit
  <1>5. CASE Continue /\ plan # <<>> /\ seen.ok
    BY <1>5 DEF Continue, First
  <1>6. CASE PlanFresh
    <2>1. CASE plan' \in Plans /\ next' = First(plan') /\ lastError' = "none"
      BY <1>6, <2>1, PlansType DEF PlanFresh
    <2>2. CASE plan' = <<>> /\ next' = "none" /\ lastError' = "planning"
      BY <1>6, <2>2 DEF PlanFresh
    <2>3. QED
      BY <1>6, <2>1, <2>2 DEF PlanFresh
  <1>7. QED
    BY <1>2, <1>3, <1>4, <1>5, <1>6 DEF Decide

LEMMA RouterStep == IInv /\ Router => IInv'
  <1> SUFFICES ASSUME IInv, Router PROVE IInv'
    OBVIOUS
  <1> USE DEF IInv
  <1>1. Decide /\ node = "router"
    BY DEF Router, Visit
  <1>2. \/ node' = "tool" /\ steps < MaxSteps /\ next' \in ToolActions
        \/ node' = "guardrail"
    BY DEF Router, Visit, ToTool
  <1>3. TypeOK'
    BY <1>1, <1>2, Decision, AgentAssumption DEF TypeOK, Router, Visit, slots, database, ids
  <1>4. Counted'
    BY <1>1, <1>2, AgentAssumption DEF TypeOK, Counted, Router, Visit
  <1>5. Planned'
    BY <1>1, <1>2, Decision DEF Planned, EarlyNodes, Router
  <1>6. Decided'
    BY <1>1, <1>2 DEF Decided, Answered, Router, database, ids
  <1>7. Escalated'
    BY <1>1, <1>2 DEF Escalated, Router, database, ids
  <1>8. Reported'
    BY DEF Reported, ToolsReported, OrdersAudited, Router, database
  <1>9. Ordered'
    BY <1>1 DEF TypeOK, Ordered, Router, Visit, database, ids
  <1>10. QED
    BY <1>3, <1>4, <1>5, <1>6, <1>7, <1>8, <1>9

\* Traces in which every announced tool is reported, and traces with the order.
TraceReported(s) ==
    \A i \in DOMAIN s :
        s[i].event = "tool_called" =>
            i < Len(s) /\ s[i + 1] \in {Succeeded(s[i].tool), Failed(s[i].tool)}

TraceOrdered(s) == \E i \in DOMAIN s : s[i] \in {Order, Failed("CREATE_ORDER")}

\* A call and its report, or an event that announces nothing, keep a trace so.
LEMMA Announced ==
    ASSUME NEW s \in Seq(Event), TraceReported(s), NEW a \in Tools, NEW e \in {Succeeded(a), Failed(a)}
    PROVE  /\ s \o <<Started(a), e>> \in Seq(Event)
           /\ TraceReported(s \o <<Started(a), e>>)
           /\ TraceOrdered(s) => TraceOrdered(s \o <<Started(a), e>>)
           /\ e = Failed("CREATE_ORDER") => TraceOrdered(s \o <<Started(a), e>>)
  <1> DEFINE t == s \o <<Started(a), e>>
  <1>1. Started(a) \in Event /\ e \in Event /\ e.event # "tool_called" /\ Started(a).tool = a
    BY DEF Started, Succeeded, Failed, Event
  <1>2. /\ t \in Seq(Event) /\ Len(t) = Len(s) + 2 /\ DOMAIN t = 1..(Len(s) + 2)
        /\ \A i \in 1..Len(s) : t[i] = s[i]
        /\ t[Len(s) + 1] = Started(a) /\ t[Len(s) + 2] = e
    BY <1>1
  <1>3. DOMAIN s = 1..Len(s) /\ Len(s) \in Nat
    OBVIOUS
  <1> HIDE DEF t
  <1>4. TraceReported(t)
    BY <1>1, <1>2, <1>3 DEF TraceReported
  <1>5. TraceOrdered(s) => TraceOrdered(t)
    BY <1>2, <1>3 DEF TraceOrdered
  <1>6. e = Failed("CREATE_ORDER") => TraceOrdered(t)
    BY <1>2, <1>3 DEF TraceOrdered
  <1>7. QED
    BY <1>2, <1>4, <1>5, <1>6 DEF t

LEMMA Noted ==
    ASSUME NEW s \in Seq(Event), TraceReported(s), NEW e \in Event, e.event # "tool_called"
    PROVE  /\ Append(s, e) \in Seq(Event)
           /\ TraceReported(Append(s, e))
           /\ TraceOrdered(s) \/ e = Order => TraceOrdered(Append(s, e))
  <1> DEFINE t == Append(s, e)
  <1>1. /\ t \in Seq(Event) /\ Len(t) = Len(s) + 1 /\ DOMAIN t = 1..(Len(s) + 1)
        /\ \A i \in 1..Len(s) : t[i] = s[i]
        /\ t[Len(s) + 1] = e
    OBVIOUS
  <1>2. DOMAIN s = 1..Len(s) /\ Len(s) \in Nat
    OBVIOUS
  <1> HIDE DEF t
  <1>3. TraceReported(t)
    BY <1>1, <1>2 DEF TraceReported
  <1>4. TraceOrdered(s) \/ e = Order => TraceOrdered(t)
    BY <1>1, <1>2 DEF TraceOrdered
  <1>5. QED
    BY <1>1, <1>3, <1>4 DEF t

LEMMA ReportedIsTrace ==
    Reported <=> audit \in Seq(Event) /\ TraceReported(audit) /\ (ordered => TraceOrdered(audit))
  BY DEF Reported, ToolsReported, OrdersAudited, TraceReported, TraceOrdered

LEMMA ToolStep == IInv /\ Tool => IInv'
  <1> SUFFICES ASSUME IInv, Tool PROVE IInv'
    OBVIOUS
  <1> USE DEF IInv
  <1>1. /\ node = "tool" /\ node' = "router" /\ next \in Tools
        /\ plan # <<>> /\ steps \in Nat /\ steps < MaxSteps
    BY DEF Tool, Visit, TypeOK, Planned, Counted
  <1>2. /\ seen' \in [action : Tools \cup {"none"}, ok : BOOLEAN, kind : Kinds, ref : BOOLEAN]
        /\ seen'.action = next
    BY <1>1, ObservationsType DEF Tool
  <1>3. plan' \in Seq(Tools \cup TerminalActions) /\ Len(plan') <= MaxPlan + 1
    BY <1>1, AgentAssumption DEF Tool, TypeOK
  <1>4. /\ cart' \in BOOLEAN /\ quantity' \in BOOLEAN /\ ordered' \in BOOLEAN /\ orderId' \in BOOLEAN
        /\ limits' \in BOOLEAN
    BY DEF Tool, TypeOK
  <1>5. TypeOK'
    BY <1>1, <1>2, <1>3, <1>4, AgentAssumption DEF TypeOK, Tool, Visit, ids
  <1>6. Counted'
    BY <1>1, AgentAssumption DEF TypeOK, Counted, Tool, Visit
  <1>7. Planned'
    BY <1>1 DEF Planned, EarlyNodes, Tool
  <1>8. Decided'
    BY <1>1 DEF Decided, Answered, Tool, ids
  <1>9. Escalated'
    BY <1>1 DEF Escalated, Tool, ids
  <1>10. Reported'
    <2> DEFINE s == audit \o <<Started(next), Succeeded(next)>>
               new == next = "CREATE_ORDER" /\ seen'.ok
    <2>1. /\ s \in Seq(Event) /\ TraceReported(s)
          /\ ordered => TraceOrdered(s)
      BY <1>1, Announced, ReportedIsTrace
    <2>2. CASE new
      <3>1. Order \in Event /\ Order.event # "tool_called"
        BY <1>1, <2>2 DEF Order, Event
      <3>2. audit' = Append(s, Order)
        BY <2>1, <2>2, <3>1 DEF Tool
      <3>3. audit' \in Seq(Event) /\ TraceReported(audit') /\ TraceOrdered(audit')
        BY <2>1, <3>1, <3>2, Noted
      <3>4. QED
        BY <3>3 DEF Reported, ToolsReported, OrdersAudited, TraceReported, TraceOrdered
    <2>3. CASE ~new
      <3>1. audit' = s /\ (ordered' => ordered)
        BY <2>1, <2>3 DEF Tool, TypeOK
      <3>2. QED
        BY <2>1, <3>1 DEF Reported, ToolsReported, OrdersAudited, TraceReported, TraceOrdered
    <2>4. QED
      BY <2>2, <2>3
  <1>11. Ordered'
    BY <1>1 DEF TypeOK, Ordered, Tool, Visit, database, ids
  <1>12. QED
    BY <1>5, <1>6, <1>7, <1>8, <1>9, <1>10, <1>11

LEMMA ToolThrowsStep == IInv /\ ToolThrows => IInv'
  <1> SUFFICES ASSUME IInv, ToolThrows PROVE IInv'
    OBVIOUS
  <1> USE DEF IInv
  <1>1. node = "tool" /\ node' = "failed" /\ next \in Tools
    BY DEF ToolThrows, Visit, TypeOK
  <1>2. ordered' \in BOOLEAN
    BY DEF ToolThrows, TypeOK
  <1>3. TypeOK'
    BY <1>1, <1>2, AgentAssumption DEF TypeOK, ToolThrows, Visit, slots, loop, ids
  <1>4. Counted'
    BY <1>1, AgentAssumption DEF TypeOK, Counted, ToolThrows, Visit
  <1>5. Planned'
    BY <1>1 DEF Planned, EarlyNodes, ToolThrows, loop
  <1>6. Decided'
    BY <1>1 DEF Decided, Answered, ToolThrows, loop, ids
  <1>7. Escalated'
    BY <1>1 DEF Escalated, ToolThrows, ids
  <1>8. Reported'
    <2>1. /\ audit' \in Seq(Event) /\ TraceReported(audit')
          /\ ordered \/ next = "CREATE_ORDER" => TraceOrdered(audit')
      BY <1>1, Announced, ReportedIsTrace DEF ToolThrows
    <2>2. ordered' => ordered \/ next = "CREATE_ORDER"
      BY DEF ToolThrows
    <2>3. QED
      BY <2>1, <2>2 DEF Reported, ToolsReported, OrdersAudited, TraceReported, TraceOrdered
  <1>9. Ordered'
    BY <1>1 DEF TypeOK, Ordered, ToolThrows, Visit, database, ids
  <1>10. QED
    BY <1>3, <1>4, <1>5, <1>6, <1>7, <1>8, <1>9

LEMMA GuardrailStep == IInv /\ Guardrail => IInv'
  <1> SUFFICES ASSUME IInv, Guardrail PROVE IInv'
    OBVIOUS
  <1> USE DEF IInv
  <1>1. /\ node = "guardrail"
        /\ node' = IF verdict'.handOver THEN "escalation" ELSE "response"
    BY DEF Guardrail, Visit
  <1>2. verdict' \in {HandOver("false"), HandOver("null"), Unjudged, Clarify, Authorize(FALSE), Authorize(TRUE)}
    BY DEF Guardrail, Judgement
  <1>3. verdict' \in [authorized : {"null", "true", "false"}, clarify : BOOLEAN, handOver : BOOLEAN]
    <2> DEFINE V == [authorized : {"null", "true", "false"}, clarify : BOOLEAN, handOver : BOOLEAN]
    <2>1. Unjudged \in V
      BY DEF Unjudged
    <2>2. HandOver("false") \in V /\ HandOver("null") \in V
      BY DEF HandOver, Unjudged
    <2>3. Authorize(TRUE) \in V /\ Authorize(FALSE) \in V
      BY DEF Authorize, Unjudged
    <2>4. Clarify \in V
      BY <2>3 DEF Clarify
    <2>5. QED
      BY <1>2, <2>1, <2>2, <2>3, <2>4
  <1>4. TypeOK'
    BY <1>1, <1>3, AgentAssumption DEF TypeOK, Guardrail, Visit, slots, loop, database, ids
  <1>5. Counted'
    BY <1>1, AgentAssumption DEF TypeOK, Counted, Guardrail, Visit
  <1>6. Planned'
    BY <1>1 DEF Planned, EarlyNodes, Guardrail, loop
  <1>7. Decided'
    BY <1>1 DEF Decided, Answered, Guardrail, loop, database, ids
  <1>8. Escalated'
    BY <1>1 DEF Escalated, Guardrail, database, ids
  <1>9. Reported'
    BY DEF Reported, ToolsReported, OrdersAudited, Guardrail, database
  <1>10. Ordered'
    BY <1>1 DEF TypeOK, Ordered, Guardrail, Visit, database, ids
  <1>11. QED
    BY <1>4, <1>5, <1>6, <1>7, <1>8, <1>9, <1>10

LEMMA EscalationStep == IInv /\ Escalation => IInv'
  <1> SUFFICES ASSUME IInv, Escalation PROVE IInv'
    OBVIOUS
  <1> USE DEF IInv
  <1>1. node = "escalation" /\ node' = "response"
    BY DEF Escalation, Visit
  <1>2. /\ open' \in BOOLEAN /\ escalationId' \in BOOLEAN /\ lastError' \in Errors
        /\ open' => escalationId'
        /\ known => open'
        /\ ~known => ~open'
    <2>1. CASE known
      BY <2>1 DEF Escalation, TypeOK
    <2>2. CASE ~known
      <3>1. open' = open /\ escalationId' = escalationId /\ ~open
        BY <2>2 DEF Escalation, Escalated
      <3>2. lastError' \in Errors
        BY <2>2 DEF Escalation, Errors
      <3>3. QED
        BY <2>2, <3>1, <3>2 DEF TypeOK
    <2>3. QED
      BY <2>1, <2>2
  <1>3. TypeOK'
    BY <1>1, <1>2, AgentAssumption DEF TypeOK, Escalation, Visit, slots, loop, ids
  <1>4. Counted'
    BY <1>1, AgentAssumption DEF TypeOK, Counted, Escalation, Visit
  <1>5. Planned'
    BY <1>1 DEF Planned, EarlyNodes, Escalation, loop
  <1>6. Decided'
    BY <1>1, <1>2 DEF Decided, Answered, Mode, Escalation, loop, ids
  <1>7. Escalated'
    BY <1>1, <1>2 DEF Escalated, Escalation, ids
  <1>8. Reported'
    <2> DEFINE e == [tool |-> "none", event |-> "escalation_created"]
    <2>1. e \in Event /\ e.event # "tool_called"
      BY DEF Event
    <2>2. audit' = Append(audit, e) \/ audit' = audit
      BY DEF Escalation
    <2>3. /\ audit \in Seq(Event) /\ TraceReported(audit)
          /\ ordered' => TraceOrdered(audit)
      BY ReportedIsTrace DEF Escalation
    <2>4. /\ audit' \in Seq(Event) /\ TraceReported(audit')
          /\ ordered' => TraceOrdered(audit')
      BY <2>1, <2>2, <2>3, Noted
    <2>5. QED
      BY <2>4 DEF Reported, ToolsReported, OrdersAudited, TraceReported, TraceOrdered
  <1>9. Ordered'
    BY <1>1 DEF TypeOK, Ordered, Escalation, Visit, database, ids
  <1>10. QED
    BY <1>3, <1>4, <1>5, <1>6, <1>7, <1>8, <1>9

LEMMA ResponseStep == IInv /\ Response => IInv'
  <1> SUFFICES ASSUME IInv, Response PROVE IInv'
    OBVIOUS
  <1> USE DEF IInv
  <1>1. node = "response" /\ node' = "persist"
    BY DEF Response, Visit
  <1>2. /\ reply' \in {Mode, "fallback"} /\ lastError' \in Errors
        /\ Mode \in {"escalation", "clarification", "grounded"}
    BY DEF Response, TypeOK, Errors, Mode
  <1>3. TypeOK'
    BY <1>1, <1>2, AgentAssumption DEF TypeOK, Response, Visit, slots, loop, database, ids
  <1>4. Counted'
    BY <1>1, AgentAssumption DEF TypeOK, Counted, Response, Visit
  <1>5. Planned'
    BY <1>1 DEF Planned, EarlyNodes, Response, loop
  <1>6. Mode = "escalation" => verdict.handOver
    BY DEF Mode
  <1>7. Decided'
    BY <1>1, <1>2, <1>6 DEF Decided, Answered, Response, loop, database, ids
  <1>8. Escalated'
    BY <1>1 DEF Escalated, Response, database, ids
  <1>9. Reported'
    BY DEF Reported, ToolsReported, OrdersAudited, Response, database
  <1>10. Ordered'
    BY <1>1 DEF TypeOK, Ordered, Response, Visit, database, ids
  <1>11. QED
    BY <1>3, <1>4, <1>5, <1>7, <1>8, <1>9, <1>10

LEMMA PersistStep == IInv /\ Persist => IInv'
  <1> SUFFICES ASSUME IInv, Persist PROVE IInv'
    OBVIOUS
  <1> USE DEF IInv
  <1>1. node = "persist" /\ node' = "end"
    BY DEF Persist, Visit
  <1>2. lastError' \in Errors
    BY DEF Persist, TypeOK, Errors
  <1>3. TypeOK'
    BY <1>1, <1>2, AgentAssumption DEF TypeOK, Persist, Visit, slots, loop, ids
  <1>4. Counted'
    BY <1>1, AgentAssumption DEF TypeOK, Counted, Persist, Visit
  <1>5. Planned'
    BY <1>1 DEF Planned, EarlyNodes, Persist, loop
  <1>6. Decided'
    BY <1>1 DEF Decided, Answered, Persist, loop, ids
  <1>7. Escalated'
    BY <1>1 DEF Escalated, Persist, ids
  <1>8. Reported'
    BY DEF Reported, ToolsReported, OrdersAudited, Persist
  <1>9. Ordered'
    BY <1>1 DEF TypeOK, Ordered, Persist, Visit, database, ids
  <1>10. QED
    BY <1>3, <1>4, <1>5, <1>6, <1>7, <1>8, <1>9

LEMMA ThrowStep == IInv /\ Throw => IInv'
  <1> SUFFICES ASSUME IInv, Throw PROVE IInv'
    OBVIOUS
  <1> USE DEF IInv
  <1>1. /\ node' = "failed" /\ node \notin {"tool", "end", "failed"}
        /\ visits' = IF visits > RecursionLimit THEN visits ELSE visits + 1
    BY DEF Throw, Visit
  <1>2. /\ open' \in BOOLEAN /\ recorded' \in BOOLEAN
        /\ open => open' 
        /\ open' => known
    BY DEF Throw, TypeOK, Escalated
  <1>3. TypeOK'
    BY <1>1, <1>2, AgentAssumption DEF TypeOK, Throw, slots, loop, ids
  <1>4. Counted'
    BY <1>1, AgentAssumption DEF TypeOK, Counted
  <1>5. Planned'
    BY <1>1 DEF Planned, EarlyNodes, Throw, loop
  <1>6. Decided'
    BY <1>1, <1>2 DEF Decided, Answered, Throw, loop, ids
  <1>7. Escalated'
    BY <1>1, <1>2 DEF Escalated, Throw, ids
  <1>8. Reported'
    BY DEF Reported, ToolsReported, OrdersAudited, Throw
  <1>9. Ordered'
    BY <1>1 DEF TypeOK, Ordered, Throw, Visit, database, ids
  <1>10. QED
    BY <1>3, <1>4, <1>5, <1>6, <1>7, <1>8, <1>9

LEMMA Inductive == IInv /\ [Next]_vars => IInv'
  <1>1. ASSUME IInv, UNCHANGED vars PROVE IInv'
    BY <1>1 DEF IInv, TypeOK, Counted, Planned, Decided, Mode, Ordered, Escalated, Reported,
                ToolsReported, OrdersAudited, vars, slots, loop, database, ids
  <1>2. QED
    BY <1>1, LoadContextStep, ExtractStep, RouterStep, ToolStep, ToolThrowsStep, GuardrailStep,
       EscalationStep, ResponseStep, PersistStep, ThrowStep DEF Next, Node

\* The type invariant, for every set of tools and every bound.
THEOREM TypeCorrect == Spec => []TypeOK
  BY Initially, Inductive, PTL DEF Spec, IInv

\* However the planner plans and revises, the limit on the steps ends a turn before
\* LangGraph's own limit, if that is at least 2 * MAX_AGENT_STEPS + 7.
THEOREM EndsBeforeTheLimit == Spec => []WithinRecursionLimit
  <1>1. IInv => WithinRecursionLimit
    BY AgentAssumption DEF IInv, TypeOK, Counted, WithinRecursionLimit
  <1>2. QED
    BY <1>1, Initially, Inductive, PTL DEF Spec

\* A failed observation ends the plan it was part of.
THEOREM PlansAreRevised == Spec => []NoStalePlan
  <1>1. IInv => NoStalePlan
    BY DEF IInv, Planned, NoStalePlan
  <1>2. QED
    BY <1>1, Initially, Inductive, PTL DEF Spec

\* Every announced tool is reported to have ended.
THEOREM ToolsAreReported == Spec => []ToolsReported
  <1>1. IInv => ToolsReported
    BY DEF IInv, Reported
  <1>2. QED
    BY <1>1, Initially, Inductive, PTL DEF Spec

\* No order without a trace.
THEOREM OrdersAreAudited == Spec => []OrdersAudited
  <1>1. IInv => OrdersAudited
    BY DEF IInv, Reported
  <1>2. QED
    BY <1>1, Initially, Inductive, PTL DEF Spec

\* No finished turn without an answer.
THEOREM AlwaysAnswered == Spec => []NeverSilent
  <1>1. IInv => NeverSilent
    BY DEF IInv, Decided, Answered, NeverSilent
  <1>2. QED
    BY <1>1, Initially, Inductive, PTL DEF Spec

\* Who is told of a hand-over has an open escalation.
THEOREM HandOversAreReal == Spec => []HandOverIsReal
  <1>1. IInv => HandOverIsReal
    BY DEF IInv, Decided, Escalated, HandOverIsReal
  <1>2. QED
    BY <1>1, Initially, Inductive, PTL DEF Spec

\* The model that writes an answer is told of the order and of the escalation there is.
THEOREM EvidenceAgrees == Spec => []EvidenceIsTrue
  <1>1. IInv => EvidenceIsTrue
    BY DEF IInv, TypeOK, Ordered, Escalated, GroundingPayload, EvidenceIsTrue
  <1>2. QED
    BY <1>1, Initially, Inductive, PTL DEF Spec
=============================================================================

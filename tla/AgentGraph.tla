----------------------------- MODULE AgentGraph -----------------------------
(***************************************************************************)
(* One turn of the sales agent (graph.ts): context and extraction, then a  *)
(* loop in which a planner, a language model, chooses tools, each followed *)
(* by an observation, until the guardrails judge the last of them and the  *)
(* responder answers or hands over to a human.                             *)
(*                                                                         *)
(* Of the state of the graph the model keeps what its control reads; the   *)
(* planner may return any plan, a tool any of its results.                 *)
(***************************************************************************)
EXTENDS Integers, Sequences

CONSTANTS
    Tools,           \* executable actions of the planner
    MaxPlan,         \* length of its plans
    MaxSteps,        \* MAX_AGENT_STEPS
    RecursionLimit   \* super-steps LangGraph lets a run take

ToolActions ==
    {"SEARCH_PRODUCTS", "CHECK_STOCK", "FIND_ALTERNATIVES", "CHECK_PROMOTION", "CHECK_DELIVERY",
     "CREATE_CART", "ADD_TO_CART", "UPDATE_CART_ITEM", "REMOVE_CART_ITEM", "VALIDATE_DISCOUNT",
     "CREATE_ORDER"}
TerminalActions == {"RESPOND", "ESCALATE"}

\* A turn with an escalation visits seven nodes beside the tool loop.
ASSUME AgentAssumption ==
    /\ Tools \subseteq ToolActions
    /\ MaxPlan \in Nat
    /\ MaxSteps \in Nat \ {0}
    /\ RecursionLimit \in Nat /\ RecursionLimit >= 2 * MaxSteps + 7

VARIABLES
    node,        \* the node to run next
    known,       \* has the thread a conversation?
    intent,      \* what the extraction made of the message
    quantity,    \* is extraction.quantity known?
    cart,        \* is state.cart there?
    plan,        \* activePlan
    next,        \* nextAction
    steps,       \* iterationCount
    seen,        \* lastResult
    lastError,
    verdict,     \* what the guardrails decided
    orderId,
    escalationId,
    reply,       \* the assistant message of the turn
    open,        \* database: has the conversation an open escalation?
    ordered,     \* database: is there the order this turn asked for?
    recorded,    \* database: was the turn recorded?
    audit,       \* the events the route collects for agent_events
    visits,      \* super-steps
    planned,     \* history: steps when the plan was made
    limits       \* history: did a discount need a human?

slots == <<intent, quantity, cart>>
loop == <<plan, next, steps, seen, planned>>
database == <<open, ordered, recorded>>
ids == <<orderId, escalationId>>
vars == <<node, known, slots, loop, lastError, verdict, ids, reply, database, audit, visits, limits>>

-----------------------------------------------------------------------------
Nothing == [action |-> "none", ok |-> TRUE, kind |-> "none", ref |-> FALSE]

Unjudged == [authorized |-> "null", clarify |-> FALSE, handOver |-> FALSE]

\* A node hands over to another one; counted up to one above the limit.
Visit(from, to) ==
    /\ node = from
    /\ node' = to
    /\ visits' = IF visits > RecursionLimit THEN visits ELSE visits + 1

-----------------------------------------------------------------------------
\* Plans

\* A terminal action only at the end (validateTerminalOrdering).
Plans ==
    UNION {{p \in [1..n -> Tools \cup TerminalActions] :
                \A i \in 1..(n - 1) : p[i] \notin TerminalActions} : n \in 0..MaxPlan}

First(p) == IF p = <<>> THEN "none" ELSE p[1]

\* The model plans, or fails: then there is nothing to do.
PlanFresh ==
    /\ planned' = steps
    /\ \/ /\ plan' \in Plans
          /\ next' = First(plan')
          /\ lastError' = "none"
       \/ /\ plan' = <<>>
          /\ next' = "none"
          /\ lastError' = "planning"

Continue ==
    /\ next' = First(plan)
    /\ lastError' = "none"
    /\ UNCHANGED <<plan, planned>>

Settle(action) ==
    /\ plan' = <<action>>
    /\ next' = action
    /\ lastError' = "none"
    /\ planned' = steps

StopAtLimit ==
    /\ next' = "none"
    /\ lastError' = "limit"
    /\ UNCHANGED <<plan, planned>>

-----------------------------------------------------------------------------
\* Nodes before the loop

LoadContext ==
    /\ Visit("loadContext", "conversation")
    /\ \/ /\ known
          /\ cart' \in BOOLEAN
          /\ escalationId' = open
       \/ /\ ~known
          /\ UNCHANGED <<cart, escalationId>>
    /\ UNCHANGED <<known, intent, quantity, loop, lastError, verdict, orderId, reply, database, audit,
                   limits>>

\* conversation: the model extracts intent and slots, or fails.
Extract ==
    /\ Visit("conversation", "router")
    /\ \/ /\ intent' \in {"sales", "out_of_domain"}
          /\ quantity' \in BOOLEAN
          /\ UNCHANGED lastError
       \/ /\ lastError' = "extraction"
          /\ UNCHANGED <<intent, quantity>>
    /\ UNCHANGED <<known, cart, loop, verdict, ids, reply, database, audit, limits>>

-----------------------------------------------------------------------------
\* The loop

\* hasAllowedDiscountAwaitingQuantity
DiscountAwaitsQuantity == seen.kind = "allowed" /\ ~quantity

\* The branches of the router, in its order.  Mutated form: a failed observation
\* does not end the plan.
DecideWithoutRevision ==
    IF intent = "out_of_domain" THEN Settle("ESCALATE")
    ELSE IF DiscountAwaitsQuantity THEN Settle("RESPOND")
    ELSE IF steps >= MaxSteps THEN StopAtLimit
    ELSE IF plan # <<>> THEN Continue
    ELSE PlanFresh

Decide ==
    IF intent = "out_of_domain" THEN Settle("ESCALATE")
    ELSE IF DiscountAwaitsQuantity THEN Settle("RESPOND")
    ELSE IF steps >= MaxSteps THEN StopAtLimit
    ELSE IF plan # <<>> /\ seen.ok THEN Continue
    ELSE PlanFresh

ToTool(action) == steps < MaxSteps /\ action \in ToolActions

Router ==
    /\ Decide
    /\ Visit("router", IF ToTool(next') THEN "tool" ELSE "guardrail")
    /\ UNCHANGED <<known, slots, steps, seen, verdict, ids, reply, database, audit, limits>>

\* Results of a tool, as far as the guardrails read their shape: kind and ok.
Results(a) ==
    CASE a = "SEARCH_PRODUCTS" -> {<<"one", TRUE>>, <<"several", TRUE>>, <<"several", FALSE>>}
      [] a \in {"CHECK_STOCK", "FIND_ALTERNATIVES"} -> {<<"found", TRUE>>, <<"found", FALSE>>, <<"absent", FALSE>>}
      [] a \in {"CHECK_PROMOTION", "CHECK_DELIVERY"} -> {<<"found", TRUE>>, <<"absent", FALSE>>}
      [] a = "VALIDATE_DISCOUNT" -> {<<"allowed", TRUE>>, <<"beyondLimit", FALSE>>, <<"rejected", FALSE>>}
      [] OTHER -> {<<"done", TRUE>>, <<"refused", FALSE>>}

\* The arguments of a tool: the product reference carried on, the cart, ...
HasArguments(a) ==
    /\ a \in {"FIND_ALTERNATIVES", "CHECK_PROMOTION", "VALIDATE_DISCOUNT", "ADD_TO_CART",
              "UPDATE_CART_ITEM", "REMOVE_CART_ITEM"} => seen.ref
    /\ a = "CHECK_STOCK" => seen.ref \/ cart
    /\ a \in {"ADD_TO_CART", "UPDATE_CART_ITEM", "REMOVE_CART_ITEM", "CREATE_ORDER"} => cart
    /\ a \in {"ADD_TO_CART", "UPDATE_CART_ITEM"} => quantity
    /\ a = "CREATE_CART" => known

\* ... and slots the model does not keep: criteria, city, price, payment, which
\* item of the cart.
MayMissOthers(a) ==
    \/ a \in {"SEARCH_PRODUCTS", "CHECK_DELIVERY", "VALIDATE_DISCOUNT", "REMOVE_CART_ITEM", "CREATE_ORDER"}
    \/ a = "CHECK_STOCK" /\ ~seen.ref

\* executeAction: the observation, and the reference it carries on.
Kinds == {"none", "missing", "one", "several", "found", "absent", "done", "refused", "allowed",
          "beyondLimit", "rejected"}

RefAfter(o) ==
    \/ o.kind = "one"
    \/ o.action = "CHECK_STOCK" /\ o.kind # "missing"
    \/ o.kind # "several" /\ seen.ref

Observations(a) ==
    {o \in [action : {a}, ok : BOOLEAN, kind : Kinds, ref : BOOLEAN] :
        /\ \/ HasArguments(a) /\ <<o.kind, o.ok>> \in Results(a)
           \/ (MayMissOthers(a) \/ ~HasArguments(a)) /\ o.kind = "missing" /\ ~o.ok
        /\ o.ref = RefAfter(o)}

\* Events of a tool, of those the route collects for agent_events
Started(a) == [tool |-> a, event |-> "tool_called"]
Succeeded(a) == [tool |-> a, event |-> "tool_succeeded"]
Failed(a) == [tool |-> a, event |-> "tool_failed"]
Order == [tool |-> "CREATE_ORDER", event |-> "order_created"]

\* Mutated form: the step is not counted.
ToolUncounted ==
    /\ Visit("tool", "router")
    /\ seen' \in Observations(next)
    /\ plan' = Tail(plan)
    /\ UNCHANGED <<known, slots, steps, next, planned, lastError, verdict, ids, reply, database,
                   audit, limits>>

\* Mutated form: a tool that is not about an order forgets it.
ToolForgetful ==
    /\ Visit("tool", "router")
    /\ seen' \in Observations(next)
    /\ steps' = steps + 1
    /\ plan' = Tail(plan)
    /\ cart' = (cart \/ (next = "CREATE_CART" /\ seen'.ok))
    /\ quantity' = (quantity \/ (next = "REMOVE_CART_ITEM" /\ seen'.ok))
    /\ ordered' = (ordered \/ (next = "CREATE_ORDER" /\ seen'.ok))
    /\ orderId' = (next = "CREATE_ORDER" /\ seen'.ok)
    /\ audit' = audit \o <<Started(next), Succeeded(next)>>
                      \o (IF next = "CREATE_ORDER" /\ seen'.ok THEN <<Order>> ELSE <<>>)
    /\ limits' = (limits \/ seen'.kind = "beyondLimit")
    /\ UNCHANGED <<known, intent, next, planned, lastError, verdict, escalationId, reply,
                   open, recorded>>

Tool ==
    /\ Visit("tool", "router")
    /\ seen' \in Observations(next)
    /\ steps' = steps + 1
    /\ plan' = Tail(plan)
    /\ cart' = (cart \/ (next = "CREATE_CART" /\ seen'.ok))
    /\ quantity' = (quantity \/ (next = "REMOVE_CART_ITEM" /\ seen'.ok))
    /\ ordered' = (ordered \/ (next = "CREATE_ORDER" /\ seen'.ok))
    /\ orderId' = (orderId \/ (next = "CREATE_ORDER" /\ seen'.ok))
    /\ audit' = audit \o <<Started(next), Succeeded(next)>>
                      \o (IF next = "CREATE_ORDER" /\ seen'.ok THEN <<Order>> ELSE <<>>)
    /\ limits' = (limits \/ seen'.kind = "beyondLimit")
    /\ UNCHANGED <<known, intent, next, planned, lastError, verdict, escalationId, reply,
                   open, recorded>>

\* A tool throws: the turn is over.  The order may have been committed.
\* Mutated form: no event.
ToolThrowsUnreported ==
    /\ Visit("tool", "failed")
    /\ ordered' \in {ordered, ordered \/ next = "CREATE_ORDER"}
    /\ audit' = Append(audit, Started(next))
    /\ UNCHANGED <<known, slots, loop, lastError, verdict, ids, reply, open, recorded, limits>>

ToolThrows ==
    /\ Visit("tool", "failed")
    /\ ordered' \in {ordered, ordered \/ next = "CREATE_ORDER"}
    /\ audit' = audit \o <<Started(next), Failed(next)>>
    /\ UNCHANGED <<known, slots, loop, lastError, verdict, ids, reply, open, recorded, limits>>

-----------------------------------------------------------------------------
\* After the loop

Authorize(yes) == [Unjudged EXCEPT !.authorized = IF yes THEN "true" ELSE "false"]
Clarify == [Authorize(FALSE) EXCEPT !.clarify = TRUE]
HandOver(authorized) == [Unjudged EXCEPT !.authorized = authorized, !.handOver = TRUE]

\* evaluatePerAction
Judgement ==
    CASE seen.kind = "missing" /\ seen.action \in {"SEARCH_PRODUCTS", "CHECK_DELIVERY", "VALIDATE_DISCOUNT"} ->
            Clarify
      [] seen.kind = "missing" /\ seen.action \in {"CHECK_STOCK", "FIND_ALTERNATIVES", "CHECK_PROMOTION"} ->
            Authorize(FALSE)
      [] seen.kind = "several" -> IF next = "RESPOND" THEN Clarify ELSE Unjudged
      [] seen.kind = "absent" /\ seen.action = "CHECK_DELIVERY" -> Clarify
      [] seen.kind \in {"absent", "rejected"} /\ seen.action # "CHECK_DELIVERY" -> Authorize(FALSE)
      [] seen.kind = "beyondLimit" -> HandOver("false")
      [] OTHER -> Authorize(TRUE)

\* evaluateCommercialGuardrails; results of the tools are never malformed.
Guardrail ==
    /\ verdict' = IF lastError = "limit" THEN HandOver("false")
                  ELSE IF next = "ESCALATE" THEN HandOver("null")
                  ELSE IF seen = Nothing THEN Unjudged
                  ELSE Judgement
    /\ Visit("guardrail", IF verdict'.handOver THEN "escalation" ELSE "response")
    /\ UNCHANGED <<known, slots, loop, lastError, ids, reply, database, audit, limits>>

\* Mutated form: the row is there, the state does not know.
EscalationUnnoted ==
    /\ Visit("escalation", "response")
    /\ open' = (open \/ known)
    /\ audit' = IF known THEN Append(audit, [tool |-> "none", event |-> "escalation_created"]) ELSE audit
    /\ UNCHANGED <<known, slots, loop, lastError, ids, verdict, reply, ordered, recorded, limits>>

Escalation ==
    /\ Visit("escalation", "response")
    /\ \/ /\ known
          /\ open' = TRUE
          /\ escalationId' = TRUE
          /\ audit' = Append(audit, [tool |-> "none", event |-> "escalation_created"])
          /\ UNCHANGED lastError
       \/ /\ ~known
          /\ lastError' = "escalation"
          /\ UNCHANGED <<open, escalationId, audit>>
    /\ UNCHANGED <<known, slots, loop, verdict, orderId, reply, ordered, recorded, limits>>

Mode ==
    IF verdict.handOver THEN "escalation"
    ELSE IF verdict.clarify \/ verdict.authorized = "false" THEN "clarification"
    ELSE "grounded"

\* buildGroundingPayload, as far as it is about what has been done: what the model
\* is told before it writes an answer.
GroundingPayload == [orderConfirmed |-> orderId, escalationCreated |-> escalationId]

\* generateResponse.  Mutated form: no answer when the model fails.
ResponseNone ==
    /\ Visit("response", "persist")
    /\ \/ reply' = Mode /\ UNCHANGED lastError
       \/ Mode # "escalation" /\ UNCHANGED reply /\ lastError' = "response"
    /\ UNCHANGED <<known, slots, loop, verdict, ids, database, audit, limits>>

\* Mutated form of Response: nothing is written where a human takes over.
ResponseNotForHumans ==
    /\ Mode # "escalation"
    /\ Visit("response", "persist")
    /\ \/ reply' = Mode /\ UNCHANGED lastError
       \/ reply' = "fallback" /\ lastError' = "response"
    /\ UNCHANGED <<known, slots, loop, verdict, ids, database, audit, limits>>

Response ==
    /\ Visit("response", "persist")
    /\ \/ reply' = Mode /\ UNCHANGED lastError
       \/ Mode # "escalation" /\ reply' = "fallback" /\ lastError' = "response"
    /\ UNCHANGED <<known, slots, loop, verdict, ids, database, audit, limits>>

Persist ==
    /\ Visit("persist", "end")
    /\ recorded' = known
    /\ lastError' = IF ~known /\ lastError = "none" THEN "persist" ELSE lastError
    /\ UNCHANGED <<known, slots, loop, verdict, ids, reply, open, ordered, audit, limits>>

\* Any other error a node does not catch: database, programmer.  A write may
\* have been committed, its acknowledgement lost.
Throw ==
    /\ \E from \in {"loadContext", "conversation", "router", "guardrail", "escalation", "response", "persist"} :
          Visit(from, "failed")
    /\ open' \in {open, open \/ (node = "escalation" /\ known)}
    /\ recorded' \in {recorded, recorded \/ (node = "persist" /\ known)}
    /\ UNCHANGED <<known, slots, loop, lastError, verdict, ids, reply, ordered, audit, limits>>

-----------------------------------------------------------------------------
\* createFreshState
Init ==
    /\ node = "loadContext"
    /\ known \in BOOLEAN
    /\ intent = "unknown" /\ quantity = FALSE /\ cart = FALSE
    /\ plan = <<>> /\ next = "none" /\ steps = 0 /\ seen = Nothing /\ planned = 0
    /\ lastError = "none"
    /\ verdict = Unjudged
    /\ orderId = FALSE /\ escalationId = FALSE
    /\ reply = "none"
    /\ open \in {FALSE, known}
    /\ ordered = FALSE /\ recorded = FALSE
    /\ audit = <<>>
    /\ visits = 0
    /\ limits = FALSE

Node ==
    \/ LoadContext
    \/ Extract
    \/ Router
    \/ Tool
    \/ Guardrail
    \/ Escalation
    \/ Response
    \/ Persist

Next == Node \/ ToolThrows \/ Throw

Spec == Init /\ [][Next]_vars

\* LangGraph runs the next node.  The statements and the language model of a node
\* are timed; a COMMIT is not, it ends with its answer or with its connection.
FairSpec == Spec /\ WF_vars(Node)

-----------------------------------------------------------------------------
\* Properties

Errors == {"none", "extraction", "planning", "limit", "escalation", "response", "persist"}

\* The type of the state; a turn takes no more steps than allowed, and the tool
\* node runs executable actions only.
TypeOK ==
    /\ node \in {"loadContext", "conversation", "router", "tool", "guardrail", "escalation",
                 "response", "persist", "end", "failed"}
    /\ known \in BOOLEAN /\ quantity \in BOOLEAN /\ cart \in BOOLEAN
    /\ intent \in {"unknown", "sales", "out_of_domain"}
    /\ plan \in Seq(Tools \cup TerminalActions) /\ Len(plan) <= MaxPlan + 1
    /\ next \in Tools \cup TerminalActions \cup {"none"}
    /\ steps \in 0..MaxSteps /\ planned \in 0..MaxSteps
    /\ seen \in [action : Tools \cup {"none"}, ok : BOOLEAN, kind : Kinds, ref : BOOLEAN]
    /\ lastError \in Errors
    /\ verdict \in [authorized : {"null", "true", "false"}, clarify : BOOLEAN, handOver : BOOLEAN]
    /\ orderId \in BOOLEAN /\ escalationId \in BOOLEAN /\ limits \in BOOLEAN
    /\ reply \in {"none", "escalation", "clarification", "grounded", "fallback"}
    /\ open \in BOOLEAN /\ ordered \in BOOLEAN /\ recorded \in BOOLEAN
    /\ visits \in 0..(RecursionLimit + 1)
    /\ node = "tool" => next \in Tools

\* LangGraph never stops a turn: the limit on the steps ends it first.
WithinRecursionLimit == visits <= RecursionLimit

\* No tool runs on the strength of a plan that was made before the latest
\* observation failed (graph.ts:250-258).
NoStalePlan == node = "tool" /\ ~seen.ok => planned = steps

\* Every tool that was announced is reported to have ended, also in a turn that
\* fails in the middle of it.
ToolsReported ==
    \A i \in DOMAIN audit :
        audit[i].event = "tool_called" =>
            i < Len(audit) /\ audit[i + 1] \in {Succeeded(audit[i].tool), Failed(audit[i].tool)}

\* An order is in the audit trail, though the turn that placed it may fail later,
\* unless the call of the tool itself failed.
OrdersAudited ==
    ordered => \E i \in DOMAIN audit : audit[i] \in {Order, Failed("CREATE_ORDER")}

\* A finished turn has an answer, whatever the language model did: the route finds
\* an assistant message (chat.ts:197-206).
NeverSilent == node = "end" => reply # "none"

\* The customer is told that a human takes over only when an escalation is open,
\* and the recording transaction is told of every escalation that is open.  A thread
\* without a conversation is exempt: there the customer is told although no
\* escalation can be opened (graph.ts:400-402); the chat starts no such turn.
HandOverIsReal ==
    /\ reply = "escalation" /\ known => open
    /\ node = "persist" /\ open => escalationId

\* The model that writes an answer, be it grounded or asking back, is told of an
\* order exactly when the one this turn asked for is on record (responder.ts:27: "Never
\* claim an order was confirmed unless orderConfirmed is true"), whichever tools ran and
\* failed after it and were observed last, and of an escalation exactly when one is
\* open, if need be since an earlier turn.
EvidenceIsTrue ==
    node = "response" /\ Mode # "escalation" =>
        GroundingPayload = [orderConfirmed |-> ordered, escalationCreated |-> open]

\* Every turn ends.
TurnEnds == <>(node \in {"end", "failed"})

\* What the tests say and the code does not keep.

\* A discount beyond the limit is a human's decision: the turn hands over
\* (graph.test.ts:1657).
DiscountEscalated == node = "end" /\ known /\ limits => verdict.handOver
=============================================================================

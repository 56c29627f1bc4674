# A specification of M3AK

M3AK is a conversational sales agent for a shop: a customer chats over a WebSocket, a
LangGraph agent plans and runs tools against PostgreSQL (catalogue, cart, order), escalates
to a human where the rules demand it, and a worker sends one reminder to a conversation that
fell silent.  These modules specify the parts where a mistake costs an order, a unit of stock
or a customer's words, model-check them with TLC and prove what matters most with TLAPS.

Paths below are relative to `src/apps/`; `PROJECT.json` maps every definition to its lines.

## The system

| part | state it keeps | operations | talks to |
|---|---|---|---|
| chat route (`api/src/routes/chat.ts`) | per socket: the promise of a session, a busy flag | one message at a time through the graph, then the audit rows | graph, events |
| sales graph (`api/src/agent/graph.ts`) | the state of one turn | loadContext, conversation, router, tool, guardrail, escalation, response, persist | models, tools, conversation store |
| planner, guardrails, responder (`api/src/agent/`) | none | plan; judge the last observation; answer or fall back | models |
| action executor (`api/src/agent/actionExecutor.ts`) | none | one tool for one action | catalogue, cart, order, delivery |
| cart (`api/src/cart/cart.ts`) | `carts` with a version, `cart_items` | create, add, update, remove, get | PostgreSQL |
| order (`api/src/order/order.ts`) | `orders`, `order_items`, `products.stock` | createOrder | PostgreSQL |
| conversation store (`api/src/conversation/`) | `conversations`, `messages` | load, record a turn | PostgreSQL |
| escalation (`api/src/escalation/`) | `escalations` | createEscalation | PostgreSQL |
| followup (`api/src/followup/`) | `followups`, a BullMQ job | scheduleFollowup | PostgreSQL, Redis |
| worker (`worker/src/`) | the job in hand | executeFollowup, retries | BullMQ, PostgreSQL, model |
| promotions, alternatives, delivery, products | read-only tables | queries, discount limits, ranking | PostgreSQL |
| pool and timers (`api/src/infrastructure/`) | ten connections, a queue of who waits | connect, release, `withTimeout` | PostgreSQL |
| dashboard (`api/src/dashboard/`, `routes/dashboard.ts`, `web/src/Dashboard.tsx`) | the page's load and its outcome | load, refresh, leave | pool |
| customer memory (`api/src/customer/`) | none | one summary out of six statements | PostgreSQL |
| seed loader (`api/src/db/seed/`) | one transaction | products, history, promotions | PostgreSQL |
| web client (`web/src/App.tsx`, `chat.ts`) | the socket, whether an answer is awaited, transcript and panel | persona, start, send; open, frame, close | chat route |

API and worker are separate processes that meet in PostgreSQL and Redis.  In the database
they meet at four kinds of rows: a cart, a product, a conversation and a followup.  What is hard
is there: transactions of several statements under READ COMMITTED, locks taken with
`FOR UPDATE` and by foreign keys, commits whose acknowledgement is lost, processes that stop
between a COMMIT and what should follow, a queue that delivers at least once, a model that
takes seconds between a check and the write it justifies.  In the graph it is the planner: any
plan of any allowed actions may come, at any revision.  Between browser and route it is the
order of things: a refusal, a close or the frames of a long turn meet a customer who has
sent again, or started again.  In the API process it is also the pool: ten connections for cart
calls that hold one and want another, for a dashboard that takes five at once, and timers that
give up on statements without stopping them.

What makes each part correct, in short:

- cart and order: one order per confirmed cart version, for what the cart shows at the prices it
  shows; stock leaves exactly with orders; nobody waits in a circle; no false answer.
- conversation: what was said is recorded, in order, once; an escalation is recorded even if its
  turn failed.
- followup: one reminder at most, only while the conversation is open and silent; a row's outcome
  is final; a row that is promised is sent or given up on.
- graph: a turn ends, within its limits, with an answer whose author knows of the order and the
  escalation there are, and a hand-over that was made.
- pool: a connection comes back without a transaction; every call ends; what a caller is told is
  what was committed; the page shows the load it asked for last.
- prices and memory: a decision that several statements contribute to is one the shop could
  have taken; a summary shows committed orders only and misses no live one.
- chat: a socket has one conversation and one turn at a time; an answer stands under its
  question; the customer can go on after every message; a replaced connection stays out.

## Modules

| module | models | extends / used by |
|---|---|---|
| `Shop` | what cart and order services promise: atomic edits and orders | refined by `SalesStore` |
| `SalesStore` | `cart.ts`, `order.ts`, statement by statement | `MCSalesStore`, `SalesStoreProofs` |
| `Conversation` | one conversation, its turns as the database sees them | `Followup` |
| `Followup` | scheduling, BullMQ, the worker, beside the turns of `Conversation` | `MCFollowup`, `FollowupProofs` |
| `AgentGraph` | one turn of the graph, node by node | `MCAgentGraph`, `AgentGraphProofs` |
| `ChatRoute` | `routes/chat.ts`, `chatSession.ts`, the sink and batch of `events.ts`, the connection | `WebChat` |
| `WebChat` | the browser, and the chat as a whole | `MCWebChat`, `WebChatProofs` |
| `Pool` | `pg.Pool` as the code uses it, `withTimeout` | `CartPool`, `Dashboard` |
| `CartPool` | the cart service and price look-ups as users of the pool: connections, locks, timers, losses | `Api` |
| `Dashboard` | a load of the dashboard, from page to pool and back | `Api` |
| `Discount` | `promotions.ts`: promotion in force, effective price, the decision | `ReadModels`, `CatalogueProofs` |
| `ReadModels` | price decisions and customer memory, statement by statement, beside sales and the loader | `Api` |
| `Alternatives` | `alternatives.ts`: the ranking | `CatalogueProofs` |
| `Api` | the four above in one process | `MCApi`, `ApiProofs`, `CartPoolProofs` |
| `SalesStoreProofs`, `FollowupProofs`, `WebChatProofs`, `AgentGraphProofs`, `CatalogueProofs`, `ApiProofs`, `CartPoolProofs` | theorems | |

### SalesStore and Shop

One variable for each table that matters (`opened`, `cart`, `stock`, `orders`), and for each call
what its transaction has in hand: the next statement (`pc`), the request, the version and lines
read or about to be written (`draft`), stock and prices read (`quote`), the rest of a loop
(`todo`).  An action is one SQL statement with the code after it up to the next one.  A
transaction's writes stay in `draft` until its COMMIT; statements read what is committed.
Row locks are not variables: who holds a row is read off the program counters
(`HoldsCart`, `LockedRows`, and `SharedRows` for the foreign key of a new line), so a lock
cannot be forgotten by an error path.  `Fail` is every thrown error at every statement;
`CommitOrder` may lose its acknowledgement.  A retry or a double confirmation is a second call
with the same arguments.  `Reprice` moves the effective price of a day, `Reseed` loads the seed
file again.  `addCartItem` reads stock and price on another connection, so `ReadPricing` is not
covered by any lock.

City and payment method are one value, a member of `Terms`; the delivery grid is the set
`Payable` of the terms it accepts.  Money is a number without width: every sum is checked
against 32 bits before anything is written.

`Shop` has four atomic actions and knows neither transactions nor keys: that a cart version is
ordered at most once is its promise.  `SalesStore` implements it under the mapping `Placed`, which
drops the idempotency key of an order and everything in flight: a committed edit is `Edit`, a
committed order `Place`, every other statement a stutter.

### Conversation and Followup

`Conversation` keeps the row of a conversation (`status`, `updatedAt`, open `escalations`,
`ordered`), its messages (`log`), its lock (`writer`, `sharers`) and its turns.  A turn is the graph
as the database sees it: it loads the history in two statements, runs tools, may place orders
(whose foreign key shares the row), may escalate, and records itself under the row's lock with
the slice of its messages that a count of the rows selects.  It may be abandoned at every step.

`Followup` adds `scheduleFollowup` (one call per id it draws: row, COMMIT, then the job), the
queue (a job waits, is active, is taken away from an execution that stalled, is retried up to
`Attempts`, and an execution that lost its job runs on) and the worker's two transactions with
the model's call between them.  A time is the set of followups whose transaction had begun by
then: all the code ever does with times is to compare `updated_at` with `created_at`.

The messages of one transaction share `created_at` and are read back by random id; `rank` is
the place a message is read back at.

### AgentGraph

Of the state of a turn the model keeps what its control reads.  Text, products and prices
are gone; an observation has the action, `ok`, a kind (the shape of the result the guardrails
tell apart) and whether it carries a product reference.  A plan is any sequence of allowed actions
that ends its terminal action, up to `MaxPlan`; `Observations` are the results each tool can
return for the arguments it has.  `limits` and `planned` are history.  The variable `visits`
counts super-steps as LangGraph does, up to one above its limit.  A tool is one step: what it
does in the database is `SalesStore`'s business, whether it did it (`ordered`) is kept, beside
what the state of the turn knows of it (`orderId`).

What the model is told before it writes an answer is the payload of `responder.ts:275`:
`GroundingPayload` keeps whether an order is confirmed and whether an escalation is open, and
`EvidenceIsTrue` says that both are so.  That an answer is *grounded* says less than the name: the
guardrails judge the last observation only, and they authorize nothing and refuse nothing
(`authorized` null) when there was no observation, or when a search found no product
(`guardrails.ts:128-129`, `guardrails.test.ts:155`); the model then answers in the grounded mode from
an empty list.  The fixed texts of a hand-over and of a failed model tell of no order, also if the
turn placed one; and a turn that uses its last step is handed over, although only RESPOND
was left of its plan (`graph.ts:243-248`).

### ChatRoute and WebChat

`ChatRoute` has for each socket the two ends' `readyState` (`ready`, `link`), what is under way
in both directions, and the handler's `session`, `busy` and `rows` it inserted; for each message a
record `turn` of how far it got.  An action is the code between two awaits: `Begin` or `Refuse` when
a message arrives, the two statements of `createChatSession`, an activity heard by the sink, the
end of the graph with the reply, the insert of the batch.  A turn's graph is any sequence of
activities up to `MaxActivities`, then an answer, none, or an error; `AgentGraph` says which.

`WebChat` adds the browser: `HandlePersonaChange`, `StartConversation`, `SendDraft` and the
three events of a socket.  The names the server may send and those the browser knows are the
code's two lists: `Understood` is false for the tools and categories only the server has.
A connection delivers in order; it may fail to open, be closed by either end, or be cut, when
the messages to the server and any number of the last frames are lost.  A browser that closes
its socket delivers nothing more but the close.  `socketGenerationRef` changes only when
`socketRef` does and is left out.  Labels and error texts are left out.

### Pool, CartPool, Dashboard, ReadModels and Api

`Pool` is three variables: who has each connection (`holder`), which connections finish a
statement nobody waits for any more (`adrift`), and the queue.  A connection is asked for
(`Ask`), handed to the first in the queue (`Serve`), given back (`Return`), given up on after
`connectionTimeoutMillis` (`GiveUp`), or left behind by a timer (`Forsake`) until its statement
ends (`Settle`).

`CartPool` has the calls of the cart service again, as users of that pool: `tx` is the
transaction a connection is in, with the lock of its cart or none yet.  `addCartItem` asks for a
second connection while it holds the first and the lock (`LockCart`, `ReadProduct`,
`ReadPromotion`), a price look-up alone has just the second.  `TimeOut` is `withTimeout` at every
statement that has one: the ROLLBACK queues up behind the statement it gave up on, and behind the
lock that statement waits for (`stuck`).  COMMIT and the single INSERT of `createCart` have no
timer, by design.  `Break` is the loss of a connection at any statement, under a COMMIT with
either outcome.  What the statements read and write is `SalesStore`'s.

`Dashboard` has the page and the route: a load asks for all its connections at once, the first
failure is its answer, the other statements go on; the page counts generations, aborts what it
no longer wants, and under StrictMode loads twice.

`Discount` holds the decisions as operators on rows.  `ReadModels` has the calls that use them one
statement at a time: `validateDiscount` reads a product, then the promotions of the day;
`getCustomerMemory` reads six times.  Beside them run `createOrder`'s decrement and the loader,
whose transaction writes products, clears and inserts the history, replaces the promotions and
commits or rolls back.  A file has its own number of past orders for the customer: the loader
clears and inserts the history of all customers, and its cross-check counts them together.
`inForce` and `memory.since` are history: the past orders in the file committed last, and in every
file committed since a call began.  `Alternatives` is the ranking as a set: those that fewer than three come
before.

`Api` puts them side by side, with one pool between calls and loads.  The readers of `ReadModels`
take what a statement answers, not the connection it waits for, which is `CartPool`'s.

## Runs

| run | instance | what it shows | states |
|---|---|---|---|
| `SalesStore_race` | 2 calls, 1 cart, 1 product, 2 prices, quantities 1 and 2, a sold and an unknown ref, 3 terms, cart versions to 2, fair | `OneOrderPerVersion`, `OrderMatchesCart`, `ConflictUnreachable`, `AnswerIsTrue`, `ImplementsShop`, `CallReturns` | 233,184 |
| `SalesStore_stock` | 2 calls, 2 carts, 2 products with one unit each, versions to 2, reseeding | `StockConserved`, `DecrementNeverFails`, `NoWaitCycle` | 962,509 |
| `Followup_reminders` | a job with 2 executions, 1 attempt and 1 stall beside 2 turns; or 3 calls of `scheduleFollowup`, of which 2 race, beside 1 turn and 1 execution | `OneScheduled`, `SentOnceIfExecuted`, `SentOnlyWhenDue`, `OutcomeIsFinal`, `LocksEndWithTheConversation`, `OneOpenEscalation`, `LostOnlyToReminder`, `EscalationRecorded` | 1,403,916 |
| `Followup_jobs` | 1 turn, 1 followup, 1 execution, 3 attempts, 1 stall, fair | `JobsEnd` | 81,158 |
| `AgentGraph_turn` | 7 of the 11 tools, plans of 2, 3 steps, recursion limit 13, fair | `HandOverIsReal`, `EvidenceIsTrue`, `NeverSilent`, `OrdersAudited`, `WithinRecursionLimit`, `NoStalePlan`, `TurnEnds` | 2,186,931 |
| `WebChat_turns` | 2 sockets, 2 messages, 1 activity each (a status, a known and an unknown tool), batches of 2, fair | `OneTurnAtATime`, `OneConversation`, `AnswersFollow`, `PanelIsTrue`, `NoHiddenSocket`, `NoAnswerLost`, `PendingEnds`, `TypeOK` | 136,094 |
| `Api_calls` | 2 connections; 2 calls on 2 carts, a call and a load of 2 statements, or 2 loads; or a loader of 5 files, a sale and one call that reads; fair | `OwnTransaction`, `OutcomeIsTrue`, `CallsEnd`, `PageIsTrue`, `PageSettles`, `DecisionIsRight`, `MemoryIsTrue` | 147,164 |

Five more runs end in a counterexample, one for each finding below.  Every property has a mutant: a
variant of one definition, kept beside it and commented "Mutated form", with which TLC finds
that property violated.

### Why the bounds are enough

- Two calls: the conflicts of `SalesStore` are between two transactions; a third could only
  close a longer circle of waits, which needs a third product too.  The proofs hold for any number.
- Cart versions to 2: a cart is confirmed, changed, confirmed again and confirmed as before.
- Two executions and one stall: an execution that lost its job overlaps with its successor.
  `Followup_jobs` has the code's three attempts, one after the other.
- Three followups: a history grows beyond what a turn holds only after three reminders cut in on it
  (it adds two messages itself).  `Followup_reminders` takes two scenarios of `MCFollowup` together:
  `OneReminder`, with every failure of one job, and `ThreeCalls`, whose executions do not fail and
  whose third call comes once two reminders have cut in on the turn.
  `Numbered` gives names out in order, since they are all alike.
- Three tool steps: a step, a failed observation, a revision, and one more step, with an answer
  after it, since the last step of a turn is handed over; 13 is the recursion limit that
  `2 * MaxSteps + 7` super-steps just reach.  The seven tools are those with results or effects of
  their own; all eleven hold too (8,139,230 states, 3.5 minutes).
- Two sockets and two messages: a conversation that is replaced while its turn runs; a message that
  is sent while the turn of the one before runs, or while its audit rows are written.  Two records
  fit in a batch, so the three of a placed order meet its bound.  Without liveness, the invariants
  hold for two activities (1,031,745 states) and for three messages (3,469,091) too.
- Two connections and two calls: both hold a connection and want another, the smallest pool that
  can be exhausted by calls alone; two statements of a load take it whole.  Scenarios of `MCApi`
  keep calls and readers apart, which share no variable, and leave out two calls beside a load:
  with two connections a third user only waits.
- Five files, with none to three past orders of the customer: without a promotion, with one in force, out of stock, with a condition the code does
  not know, and with a promotion of another list price than the file's own; the one whose promotion
  is dearer than its list price must never be loaded.  A request is below, at and above the
  floor of each.  Every pair of files is met between two statements of a call.
- Named bounds: `MaxVersion`, `MaxPlan`, `MaxSteps`, `RecursionLimit`, `Attempts`, `MaxStalls`,
  `MaxSockets`, `MaxMessages`, `MaxActivities`, `MaxOrders`.
- Deadlock is not checked for `Followup`, `AgentGraph` and `WebChat`, which stop: all turns over,
  all jobs done.  It is checked for `SalesStore` and `Api`.
- Symmetry is over calls, and only in a run without liveness.

### Fairness

`SalesStore!Fairness` and `Followup!Fairness` are strong fairness of the statements of each call:
PostgreSQL queues waiters of a row lock in order, and a call whose lock is granted runs.
`Followup` has weak fairness of BullMQ's look for jobs without an execution.  Nothing else is
fair: errors, time-outs, deaths, new messages and new calls may never come, so no property
leans on a failure.  `AgentGraph!FairSpec` is weak fairness of the nodes: LangGraph runs the next
node, and the statements and model calls of a node have time-outs.  A COMMIT has none, by design:
it ends with its answer or with the loss of its connection, which is the assumption here.  `WebChat!Fairness` is weak fairness of
everything but the customer and broken connections, taken as one action: event loops run, and
a connection delivers what it holds or reports that it is gone (the code sends no pings).
`Api!Fairness`: PostgreSQL ends the statements it has begun, the pool hands out what comes back
(`Serve`, `Settle`), its own timer goes off (`Expire`), and a route that has answered is heard:
weak fairness of each.  The steps of a call are strongly fair, since a row lock may be taken by
others again and again.  Statement timers and broken connections are not fair: `CallsEnd` and
`PageSettles` hold without them.

## Findings

Each is a run that TLC ends with a counterexample.

- `Followup_confirmed`: a call is told `scheduled: true` for a row whose job was never enqueued
  (`followup.ts:178`); the row blocks every later reminder of the conversation.
- `Followup_heard`: a reminder that is sent during a turn makes the turn drop the customer's
  message from the record (`conversation.ts:259`).
- `Followup_order`: a question and its answer share `created_at` and may be read back in
  either order (`conversation.ts:107`).
- `Followup_exhausted`: after a stall the worker gives a row up although attempts are left
  (`followupWorker.ts:32`).
- `AgentGraph_discount`: a discount that needs a human is forgotten if the revised plan runs another
  tool, because only the last observation is judged (`guardrails.ts:275`).

Three more behaviours are written into properties that hold, as the exceptions they need:

- `HandOverIsReal` (`known`): in a thread without a conversation no escalation can be opened
  (`graph.ts:400-402`), and the customer is told of a human all the same.  The chat route opens a
  conversation before it starts a turn, so only another caller of the graph meets this.
- `PendingEnds`: the route answers a message and stays busy until the audit rows are written
  (`chat.ts:214-228`).  A customer who writes at once is refused as busy; the browser goes on
  waiting after that code (`App.tsx:134`), no further frame comes, and the composer stays
  blocked until a new conversation is started.
- `AnswersFollow`, `PanelIsTrue` (`~misread`): the browser rejects frames about `updateCartItem`,
  `removeCartItem`, `validateDiscount` and the two discount categories (`web/src/chat.ts:28-53`
  against `events.ts:15-39`) and frees the composer in the middle of the turn.  The next message
  is refused, the turn's answer stands below it, and a tool may be shown as running for ever.

## Proofs

`tlapm` checks every leaf of the seven modules.  The assumptions are the ones the modules name
(`SalesStoreAssumption`, `ConversationAssumption`, `FollowupAssumption`, `ChatAssumption`,
`AgentAssumption`, `CartPoolAssumption`, `DashboardAssumption`, `ReadModelsAssumption`,
`ApiAssumption`); TLC evaluates them in the runs.  Every safety property of a passing run, invariant
or action property, is a theorem, and so is the refinement.  The inductive invariants are written
as conjunctions of named parts; TLC checked each on the instances of the runs before it was proved.

**SalesStoreProofs** - for any calls, carts, terms and prices, and any finite catalogue.  The
invariants are not inductive: `OneOrderPerVersion` alone says nothing about a transaction between
its look for a prior order and its insert.  `IInv` says for each call, at each statement, what it has
established and which lock keeps it so: under the lock of the cart what was read is current
(`ReadsCurrent`, `EditCurrent`), under those of the products what was found in stock still is
(`Validated`), the loops visit lines of the cart only (`LoopCurrent`) and rows are locked in order
(`LocksInOrder`), and locks are exclusive.  A lemma for each action proves what its own call
establishes; `OtherCall`, and lemmas for each kind of write, that no other call loses anything.  From
`IInv` follow `TypeCorrect`, `ExclusiveLocks`, `OrderedOnce`, `OrdersMatchCarts`, `NoConflict`,
`UnitsRemain`, `AnswersAreTrue`, and `Refinement`: `Spec => ImplementsShop`.
Two more need finite sets, and the induction theorems of the library take an operator, which the
provers cannot instantiate.  `Smallest` takes their place: a nonempty collection of subsets of a
finite set has a smallest member, so what fails for some subset fails for a smallest one.
`NoCircleOfWaits`: of two calls that lock rows, who waits is behind (`WaitsForFurther`), so in every set
of calls the one furthest on waits for nobody in it; and who waits for anything but a product
holds no product.  `StockIsConserved`: the sum over the orders exists (`SumsExist`), does not
depend on the order in which it is taken (`SoldInFirst`, `SoldInAdd`), and grows at a commit by just
what the commit takes from the stock.

**FollowupProofs** - for any turns, calls of `scheduleFollowup` and executions, any number of
attempts and stalls.  `IInv` has: who holds the conversation and each row, read off the program
counters (`ConversationLock`, `RowLocks`); that a row is written before its job (`RowBeforeJob`);
that nobody inserts while a row is scheduled (`OneRow`); how often a job can have been started
(`JobCounts`); which message a row has sent (`RemindersOf`); that what a turn has heard of
began before it writes (`HeardInTime`), which `StillDue` needs between the worker's last check and
its send; that a turn which has loaded knows of an open escalation (`EscalationKnown`: turns follow each
other, since a conversation is served by one socket, so the question is what a turn finds that
an earlier one left); and that a
count of the rows selects the words of this turn unless a reminder cut in (`WordsKept`).
`SentOnce` needs no bound on deliveries: the row's lock and its status decide, not the queue.  From
`IInv` follow `FollowupTypeCorrect`, `OneIsScheduled`, `SentOnce`, `OnlyWhenDue`,
`OutcomeStays`, `NoSecondEscalation`, `EscalationIsRecorded`, `WordsLostOnlyToReminder` and
`NoCircleOfLocks`.

**WebChatProofs** - for any number of sockets, messages and activities, any set of tools, any size of
the batch.  What the customer sees is decided at three places that share no state, so `IInv`
follows a message through them: on the way to the server once and in order (`SentInOrder`,
`OnTheWay`), in one handler that is busy with it (`BusyWithOne`, `SessionOnce`), its frames on the
socket it came from with the answer or error last (`FramesOfTurns`), then on the screen and no longer
on the wire (`Screen`).  `Connections` and `CurrentShown` tie the states of the two ends to
`current` and to what the page says of it.  `OnlyTheLatest` is the heart: as long as no frame was
rejected (`~misread`) all that is under way belongs to the last message, so an answer cannot land
under another question.  `OneToolRuns` says that the end of a tool is the next frame after its
beginning, wherever the two are; `Filed`, that a turn number is a count of messages.  From it
follow `ChatTypeCorrect`, `TurnsExclude`, `SocketsHaveOneConversation`,
`AnswersStandWhereTheyBelong`, `PanelTellsTheTruth`, `NoSocketIsHidden` and `AnswersArrive`.

**AgentGraphProofs** - for any subset of the tools, any plans, any `MAX_AGENT_STEPS` and any
recursion limit of at least `2 * MaxSteps + 7`.  `IInv` has: how many super-steps led to each node
(`Counted`), what plan and observation are when a tool runs (`Planned`), what the guardrails
have decided and was done about it (`Decided`), that the state of a turn knows the order it placed
(`Ordered`) and the escalation that is open, and no other (`Escalated`), and the shape of the audit
events (`Reported`).  One lemma for each action.  From it
follow `EndsBeforeTheLimit`, `PlansAreRevised`, `ToolsAreReported`, `OrdersAreAudited`,
`AlwaysAnswered`, `HandOversAreReal`, `EvidenceAgrees`, `TypeCorrect`.  LangGraph's limit
is 25 unless it is set, so the assumption holds up to `MAX_AGENT_STEPS = 9`; the code accepts any
positive number and checks nothing, which no property here catches.

**CartPoolProofs** - for any number of connections, calls, carts and loads, none of them fair.
`PlacesInv` relates the pool to the calls: a connection is in one hand, nobody waits twice or for
what he has, and where a call stands says what it holds and waits for; each operation of the pool
has a lemma about the two sets `Holds` and `Waits`; a load asks only when nothing of it is left
in either (`ReadsAre`).  On it rest `ApiTypeCorrect` (nobody is in the pool twice), `TxInv`, for
`TransactionsAreOwned`, and `OutcomeInv`, for `OutcomesAreTrue`: before its end a call has
written nothing, and a call that rolls back has failed or been refused.

**ApiProofs** - for any files, each with any history of the customer, any requests and live orders.
`SeedInv`: what is committed always has the whole history of one file and sound promotions, although
the draft of a load does not.  `ReadersInv`: what a call has read at each statement bounds what the
next can find, since live orders and the files in force since it began only become more
(`Agrees`, `OthersAgree`); `DecisionsAreRight` and `MemoriesAreTrue` follow.  That the total of a memory is
at least its latest orders, or its products no fewer, does not follow: a load that gives the
customer fewer past orders between two statements breaks it.  `PageInv` gives `PagesAreTrue`.

**CatalogueProofs** - about the operators, for all arguments: `FloorIsTenPercent`,
`AllowedIsInBounds`, `EscalatedBelowTheFloor` against the percentages they stand for;
`RankingIsTotal` (so what is offered does not depend on the order of rows), `SameModelFirst`,
`NothingBetterLeftOut`.

**Model-checked only**: the liveness properties `CallReturns`, `JobsEnd`, `TurnEnds`, `PendingEnds`,
`CallsEnd` and `PageSettles`; fairness is about ENABLED, which is beyond the prover.  The type
invariants of all five compositions (`SalesStore`, `Followup`, `AgentGraph`, `WebChat`, `Api`) are
proved.

## Not modelled

- Malformed messages and connections without a `customerRef`, which the web client does not
  send, and the death of the API process, which cuts every connection and forgets every session.
- A price read in two statements (`getProductPricingContext`) around a load that raises the list
  price and ends a promotion shallower than the raise: the answer is the old price, which no
  property forbids; `createOrder` takes it again under the lock of the product.
- The pool under `createOrder`, turns and followups: they hold one connection and want no
  second; `withCartTransaction` stands for them.
- The search of products, the figures of the dashboard, the preferences in a memory, money in
  dirhams: read-only, or conversions.
- Prompts, parsing of model answers, HTTP to the models (one request, no retry: it answers or
  fails), CSV parsing, styling; start and stop of the processes, health checks.
- LangGraph's checkpoints: nothing in the repository resumes a run.

## Plan

1. Done: all modules above, and a theorem for every safety property of a passing run.
2. The shutdown of the API and the worker, with what it leaves half done.

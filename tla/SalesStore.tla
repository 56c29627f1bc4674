----------------------------- MODULE SalesStore -----------------------------
(***************************************************************************)
(* The cart service (cart.ts) and the order service (order.ts) over one    *)
(* PostgreSQL database.  Every call is one transaction of a connection;    *)
(* its steps are its SQL statements, its writes stay in a draft until the  *)
(* COMMIT, and the rows it locks are read off its program counter.         *)
(* READ COMMITTED: each statement sees what is committed when it runs.     *)
(***************************************************************************)
EXTENDS Integers, FiniteSets, FiniteSetsExt

CONSTANTS
    Calls,        \* connections that run a call; each serves any number of them
    Carts,        \* identifiers createCart may hand out
    Catalogue,    \* product refs that are sold, numbered in text order
    Refs,         \* product refs a caller may name, sold or not
    Quantities,   \* quantities a caller may name
    Prices,       \* effective prices, in cents
    Terms,        \* a delivery city together with a payment method
    Payable,      \* the terms the delivery grid serves and accepts
    SeedStock,    \* units per product in the merchant's seed file
    MaxVersion    \* bound: a cart at this version is not edited any more

ASSUME SalesStoreAssumption ==
    /\ Catalogue \subseteq Refs /\ IsFiniteSet(Catalogue)
    /\ Refs \subseteq Nat
    /\ Carts # {} /\ Refs # {} /\ Quantities # {} /\ Terms # {}
    /\ Quantities \subseteq Nat \ {0}
    /\ Prices \subseteq Nat
    /\ Payable \subseteq Terms
    /\ SeedStock \in [Catalogue -> Nat]
    /\ MaxVersion \in Nat

VARIABLES
    opened,    \* rows of carts
    cart,      \* version and lines of each cart
    stock,     \* products.stock
    price,     \* effective price: catalogue price or the promotion of the day
    orders,    \* rows of orders with their order_items
    pc,        \* the statement each call runs next, "idle" between calls
    req,       \* what the call in progress was asked
    draft,     \* cart version and lines the transaction has read or written
    quote,     \* stock and price the transaction has read, per product
    todo,      \* products the current loop of createOrder has still to visit
    answer,    \* the order the last finished call was answered with
    supplied   \* history: units per product the seed file ever brought in

storeVars == <<opened, cart, stock, orders>>
callVars == <<pc, req, draft, quote, todo, answer>>
vars == <<opened, cart, stock, price, orders, pc, req, draft, quote, todo, answer, supplied>>

-----------------------------------------------------------------------------
\* Rows

Line == [quantity: Nat, price: Nat]
NoLine == [quantity |-> 0, price |-> 0]
NoLines == [p \in Catalogue |-> NoLine]
Contents == [version: Nat, items: [Catalogue -> Line]]
EmptyCart == [version |-> 0, items |-> NoLines]

\* A product is in the cart iff it has a row of cart_items (quantity > 0).
Lines(items) == {p \in Catalogue : items[p].quantity > 0}

\* The text "cart:<id>:v<version>", injective in both.
IdempotencyKey(k, version) == <<k, version>>

Order == [key: Carts \X Nat, cart: Carts, version: Nat, terms: Terms,
          items: [Catalogue -> Line]]
NoOrder == [terms |-> "none"]

Quote == [stock: Nat, price: Nat]
NoQuotes == [p \in Catalogue |-> [stock |-> 0, price |-> 0]]

Ops == {"add", "update", "remove", "order"}
Request == [op: Ops, cart: Carts, ref: Refs, quantity: Quantities, terms: Terms]
AnyRequest == CHOOSE r \in Request : TRUE

\* Requests that differ only in an argument their operation does not take are
\* the same request.
Requests ==
    {r \in Request :
        /\ r.op = "order" => r.ref = AnyRequest.ref
        /\ r.op \in {"order", "remove"} => r.quantity = AnyRequest.quantity
        /\ r.op # "order" => r.terms = AnyRequest.terms}

CartSteps == {"pricing", "write", "commit"}
OrderSteps == {"replay", "items", "lockRows", "price", "terms", "insert", "decrement", "commit"}
Steps == {"idle", "lockCart"} \cup CartSteps \cup OrderSteps

-----------------------------------------------------------------------------
\* Row locks

\* Mutated form: createOrder reads the cart without FOR UPDATE.
HoldsCartEditsOnly(c, k) ==
    pc[c] \notin {"idle", "lockCart"} /\ req[c].op # "order" /\ req[c].cart = k

\* SELECT ... FROM carts ... FOR UPDATE is held until the transaction ends.
HoldsCart(c, k) == pc[c] \notin {"idle", "lockCart"} /\ req[c].cart = k

\* Mutated form: createOrder locks and validates in one transaction and writes in
\* another.
LockedRowsUntilPriced(c) ==
    {p \in Lines(draft[c].items) :
        /\ req[c].op = "order"
        /\ \/ pc[c] = "price"
           \/ pc[c] = "lockRows" /\ p \notin todo[c]}

\* The rows of products createOrder has locked FOR UPDATE so far.
LockedRows(c) ==
    {p \in Lines(draft[c].items) :
        /\ req[c].op = "order"
        /\ \/ pc[c] = "lockRows" /\ p \notin todo[c]
           \/ pc[c] \in {"price", "terms", "insert", "decrement", "commit"}}

\* A new row of cart_items holds its product FOR KEY SHARE (foreign key
\* cart_items.product_ref) until the transaction ends.
SharedRows(c) ==
    {p \in Catalogue :
        /\ req[c].op = "add" /\ req[c].ref = p
        /\ pc[c] = "commit"
        /\ cart[req[c].cart].items[p].quantity = 0}

CartFree(k) == \A d \in Calls : ~HoldsCart(d, k)
RowLocked(p) == \E d \in Calls : p \in LockedRows(d)
RowShared(p) == \E d \in Calls : p \in SharedRows(d)

-----------------------------------------------------------------------------
\* Beginning and ending a call

Goto(c, step) == pc' = [pc EXCEPT ![c] = step]

\* COMMIT or ROLLBACK, then client.release(): the transaction's reads and
\* drafts are gone, the caller is left with an answer.
Finish(c, result) ==
    /\ Goto(c, "idle")
    /\ draft' = [draft EXCEPT ![c] = EmptyCart]
    /\ quote' = [quote EXCEPT ![c] = NoQuotes]
    /\ todo' = [todo EXCEPT ![c] = {}]
    /\ answer' = [answer EXCEPT ![c] = result]
    /\ req' = [req EXCEPT ![c] = AnyRequest]

\* A call of any operation, with any arguments: a retry is a call with the
\* arguments of an earlier one.  An unconfirmed createOrder never gets here, it
\* returns before it opens a transaction.
Begin(c, r) ==
    /\ pc[c] = "idle"
    /\ r.op # "order" => cart[r.cart].version < MaxVersion
    /\ req' = [req EXCEPT ![c] = r]
    /\ answer' = [answer EXCEPT ![c] = NoOrder]
    /\ Goto(c, "lockCart")
    /\ UNCHANGED <<opened, cart, stock, price, orders, draft, quote, todo, supplied>>

\* A thrown error: a statement or lock timeout, an integrity check, a lost
\* connection, the death of the process.  Nothing the transaction wrote stays.
Fail(c) ==
    /\ pc[c] # "idle"
    /\ Finish(c, NoOrder)
    /\ UNCHANGED <<opened, cart, stock, price, orders, supplied>>

\* A business refusal rolls back too.
Refuse(c) ==
    /\ Finish(c, NoOrder)
    /\ UNCHANGED <<opened, cart, stock, price, orders, supplied>>

FirstStep == [add |-> "pricing", update |-> "write", remove |-> "write", order |-> "replay"]

LockCart(c) ==
    LET k == req[c].cart IN
    /\ pc[c] = "lockCart"
    /\ CartFree(k)
    /\ \/ /\ k \notin opened
          /\ Refuse(c)
       \/ /\ k \in opened
          /\ Goto(c, FirstStep[req[c].op])
          /\ draft' = [draft EXCEPT ![c].version = cart[k].version]
          /\ UNCHANGED <<opened, cart, stock, price, orders, req, quote, todo, answer, supplied>>

-----------------------------------------------------------------------------
\* cart.ts

CreateCart(k) ==
    /\ k \notin opened
    /\ opened' = opened \cup {k}
    /\ UNCHANGED <<cart, stock, price, orders, supplied, callVars>>

\* addCartItem reads stock and price through the pool, on another connection:
\* no lock covers what it reads.
ReadPricing(c) ==
    LET p == req[c].ref IN
    /\ pc[c] = "pricing"
    /\ \/ /\ p \notin Catalogue
          /\ Refuse(c)
       \/ /\ p \in Catalogue
          /\ Goto(c, "write")
          /\ quote' = [quote EXCEPT ![c][p] = [stock |-> stock[p], price |-> price[p]]]
          /\ UNCHANGED <<opened, cart, stock, price, orders, req, draft, todo, answer, supplied>>

\* The transaction now ends in a COMMIT of these lines.
WriteLines(c, items) ==
    /\ Goto(c, "commit")
    /\ draft' = [draft EXCEPT ![c].items = items]
    /\ UNCHANGED <<opened, cart, stock, price, orders, req, quote, todo, answer, supplied>>

\* The whole line is repriced, the units it already held included.
AddItem(c) ==
    LET p == req[c].ref
        items == cart[req[c].cart].items
        total == items[p].quantity + req[c].quantity
    IN  /\ req[c].op = "add"
        /\ pc[c] = "write"
        /\ \/ /\ total > quote[c][p].stock
              /\ Refuse(c)
           \/ /\ total <= quote[c][p].stock
              /\ items[p].quantity = 0 => ~RowLocked(p)
              /\ WriteLines(c, [items EXCEPT ![p] =
                                  [quantity |-> total, price |-> quote[c][p].price]])

\* Checks the stock, keeps the price; an unchanged quantity changes nothing.
UpdateItem(c) ==
    LET p == req[c].ref
        q == req[c].quantity
        items == cart[req[c].cart].items
    IN  /\ req[c].op = "update"
        /\ pc[c] = "write"
        /\ \/ /\ ~(p \in Lines(items) /\ q <= stock[p] /\ q # items[p].quantity)
              /\ Refuse(c)
           \/ /\ p \in Lines(items) /\ q <= stock[p] /\ q # items[p].quantity
              /\ WriteLines(c, [items EXCEPT ![p].quantity = q])

RemoveItem(c) ==
    LET p == req[c].ref
        items == cart[req[c].cart].items
    IN  /\ req[c].op = "remove"
        /\ pc[c] = "write"
        /\ \/ /\ p \notin Lines(items)
              /\ Refuse(c)
           \/ /\ p \in Lines(items)
              /\ WriteLines(c, [items EXCEPT ![p] = NoLine])

\* Mutated form: only a new or a removed line moves the version.
CommitCartKeepingVersion(c) ==
    LET k == req[c].cart IN
    /\ req[c].op # "order"
    /\ pc[c] = "commit"
    /\ cart' = [cart EXCEPT ![k] =
                  [version |-> cart[k].version + (IF req[c].op = "update" THEN 0 ELSE 1),
                   items   |-> draft[c].items]]
    /\ Finish(c, NoOrder)
    /\ UNCHANGED <<opened, stock, price, orders, supplied>>

\* Every write of lines comes with version = version + 1.
CommitCart(c) ==
    LET k == req[c].cart IN
    /\ req[c].op # "order"
    /\ pc[c] = "commit"
    /\ cart' = [cart EXCEPT ![k] = [version |-> cart[k].version + 1, items |-> draft[c].items]]
    /\ Finish(c, NoOrder)
    /\ UNCHANGED <<opened, stock, price, orders, supplied>>

-----------------------------------------------------------------------------
\* order.ts

\* Mutated form: the replay ignores the city and the payment method.
ReplayAnyTerms(c) ==
    LET prior == {o \in orders : o.key = IdempotencyKey(req[c].cart, draft[c].version)}
    IN  IF prior = {} THEN NoOrder ELSE CHOOSE o \in prior : TRUE

\* The order a repeated confirmation is answered with: one on record under the
\* same key and for the same city and payment method, else none.
Replay(c) ==
    LET key == IdempotencyKey(req[c].cart, draft[c].version)
        prior == {o \in orders : o.key = key /\ o.terms = req[c].terms}
    IN  IF prior = {} THEN NoOrder ELSE CHOOSE o \in prior : TRUE

\* Mutated form: the city and the payment method are part of the key.
OnRecordForTerms(c) ==
    \E o \in orders : /\ o.key = IdempotencyKey(req[c].cart, draft[c].version)
                      /\ o.terms = req[c].terms

OnRecord(c) ==
    \E o \in orders : o.key = IdempotencyKey(req[c].cart, draft[c].version)

\* A replay, or a conflict, answers and rolls back before anything is checked.
CheckReplay(c) ==
    /\ pc[c] = "replay"
    /\ \/ /\ OnRecord(c)
          /\ Finish(c, Replay(c))
          /\ UNCHANGED <<opened, cart, stock, price, orders, supplied>>
       \/ /\ ~OnRecord(c)
          /\ Goto(c, "items")
          /\ UNCHANGED <<opened, cart, stock, price, orders, req, draft, quote, todo, answer, supplied>>

ReadItems(c) ==
    LET items == cart[req[c].cart].items IN
    /\ pc[c] = "items"
    /\ \/ /\ Lines(items) = {}
          /\ Refuse(c)
       \/ /\ Lines(items) # {}
          /\ Goto(c, "lockRows")
          /\ draft' = [draft EXCEPT ![c].items = items]
          /\ todo' = [todo EXCEPT ![c] = Lines(items)]
          /\ UNCHANGED <<opened, cart, stock, price, orders, req, quote, answer, supplied>>

\* Mutated form: the rows are locked in the order the cart lists them, and one
\* cart was filled in the opposite order.
NextRowAsListed(c, p) ==
    /\ p \in todo[c]
    /\ \A q \in todo[c] : IF req[c].cart = CHOOSE k \in Carts : TRUE THEN p >= q ELSE p <= q

\* ORDER BY ref FOR UPDATE: the rows are locked one after the other, in ref
\* order, and each is read as it is locked.
NextRow(c, p) == p \in todo[c] /\ \A q \in todo[c] : p <= q

\* Mutated form: the row visited stays on the list.
VisitRowAgain(c, p, step, next) ==
    /\ Goto(c, step)
    /\ UNCHANGED todo

VisitRow(c, p, step, next) ==
    LET rest == todo[c] \ {p} IN
    /\ Goto(c, IF rest = {} THEN next ELSE step)
    /\ todo' = [todo EXCEPT ![c] = IF rest = {} /\ next = "price" THEN Lines(draft[c].items) ELSE rest]

LockRow(c) ==
    /\ pc[c] = "lockRows"
    /\ \E p \in Catalogue :
          /\ NextRow(c, p)
          /\ ~RowLocked(p)
          /\ ~RowShared(p)
          /\ quote' = [quote EXCEPT ![c][p].stock = stock[p]]
          /\ VisitRow(c, p, "lockRows", "price")
    /\ UNCHANGED <<opened, cart, stock, price, orders, req, draft, answer, supplied>>

\* One line's stock and price, read again under the lock: a stock that moved is
\* an integrity error, too little of it a refusal.
StockStands(c, p) ==
    stock[p] = quote[c][p].stock /\ draft[c].items[p].quantity <= stock[p]

PriceRow(c) ==
    /\ pc[c] = "price"
    /\ \E p \in Catalogue :
          /\ NextRow(c, p)
          /\ \/ /\ ~StockStands(c, p)
                /\ Refuse(c)
             \/ /\ StockStands(c, p)
                /\ quote' = [quote EXCEPT ![c][p].price = price[p]]
                /\ VisitRow(c, p, "price", "terms")
                /\ UNCHANGED <<opened, cart, stock, price, orders, req, draft, answer, supplied>>

\* Mutated form: the cart's prices are not compared with the current ones.
PriceChangedNever(c) == FALSE

PriceChanged(c) ==
    \E p \in Lines(draft[c].items) : draft[c].items[p].price # quote[c][p].price

\* price_changed, delivery_not_found, payment_not_allowed_for_delivery_zone.
CheckTerms(c) ==
    /\ pc[c] = "terms"
    /\ \/ /\ PriceChanged(c) \/ req[c].terms \notin Payable
          /\ Refuse(c)
       \/ /\ ~PriceChanged(c) /\ req[c].terms \in Payable
          /\ Goto(c, "insert")
          /\ UNCHANGED <<opened, cart, stock, price, orders, req, draft, quote, todo, answer, supplied>>

\* The order the transaction writes: lines at the prices just read.
NewOrder(c) ==
    [key |-> IdempotencyKey(req[c].cart, draft[c].version),
     cart |-> req[c].cart,
     version |-> draft[c].version,
     terms |-> req[c].terms,
     items |-> [p \in Catalogue |->
                  IF p \in Lines(draft[c].items)
                  THEN [quantity |-> draft[c].items[p].quantity, price |-> quote[c][p].price]
                  ELSE NoLine]]

\* Mutated form: the INSERT commits on its own, before the stock is decremented.
InsertOrderAutocommit(c) ==
    /\ pc[c] = "insert"
    /\ IF OnRecord(c)
       THEN Finish(c, Replay(c)) /\ UNCHANGED orders
       ELSE /\ Goto(c, "decrement")
            /\ orders' = orders \cup {NewOrder(c)}
            /\ UNCHANGED <<req, draft, quote, todo, answer>>
    /\ UNCHANGED <<opened, cart, stock, price, supplied>>

\* INSERT ... ON CONFLICT (idempotency_key) DO NOTHING, and the order's items.
\* On a conflict the call is answered like a replay.
InsertOrder(c) ==
    /\ pc[c] = "insert"
    /\ IF OnRecord(c)
       THEN Finish(c, Replay(c))
       ELSE Goto(c, "decrement") /\ UNCHANGED <<req, draft, quote, todo, answer>>
    /\ UNCHANGED <<opened, cart, stock, price, orders, supplied>>

\* UPDATE products ... WHERE stock >= quantity; no row updated is an error.
CanDecrement(c) == \A p \in Lines(draft[c].items) : draft[c].items[p].quantity <= stock[p]

DecrementStock(c) ==
    /\ pc[c] = "decrement"
    /\ IF CanDecrement(c)
       THEN Goto(c, "commit") /\ UNCHANGED <<req, draft, quote, todo, answer>>
       ELSE Finish(c, NoOrder)
    /\ UNCHANGED <<opened, cart, stock, price, orders, supplied>>

\* The acknowledgement of the COMMIT may be lost: the order stands all the same.
CommitOrder(c) ==
    /\ req[c].op = "order"
    /\ pc[c] = "commit"
    /\ orders' = orders \cup {NewOrder(c)}
    /\ stock' = [p \in Catalogue |-> stock[p] - draft[c].items[p].quantity]
    /\ \E acknowledged \in BOOLEAN :
          Finish(c, IF acknowledged THEN NewOrder(c) ELSE NoOrder)
    /\ UNCHANGED <<opened, cart, price, supplied>>

-----------------------------------------------------------------------------
\* Around the services

\* The effective price of a product moves without any lock of the services:
\* a promotion starts or ends with the day a call is made on.
Reprice(p) ==
    /\ \E new \in Prices \ {price[p]} : price' = [price EXCEPT ![p] = new]
    /\ UNCHANGED <<opened, cart, stock, orders, supplied, callVars>>

\* The seed script run again: the upsert of one product puts back the stock of
\* the merchant's file.  It waits for a row lock like any UPDATE.
Reseed(p) ==
    /\ stock[p] # SeedStock[p]
    /\ ~RowLocked(p)
    /\ stock' = [stock EXCEPT ![p] = SeedStock[p]]
    /\ supplied' = [supplied EXCEPT ![p] = @ + (SeedStock[p] - stock[p])]
    /\ UNCHANGED <<opened, cart, price, orders, callVars>>

-----------------------------------------------------------------------------
Init ==
    /\ opened = {}
    /\ cart = [k \in Carts |-> EmptyCart]
    /\ stock = SeedStock
    /\ price \in [Catalogue -> Prices]
    /\ orders = {}
    /\ pc = [c \in Calls |-> "idle"]
    /\ req = [c \in Calls |-> AnyRequest]
    /\ draft = [c \in Calls |-> EmptyCart]
    /\ quote = [c \in Calls |-> NoQuotes]
    /\ todo = [c \in Calls |-> {}]
    /\ answer = [c \in Calls |-> NoOrder]
    /\ supplied = SeedStock

\* The statements of a call, up to the end of its transaction.
CartStep(c) ==
    \/ ReadPricing(c)
    \/ AddItem(c)
    \/ UpdateItem(c)
    \/ RemoveItem(c)
    \/ CommitCart(c)

OrderStep(c) ==
    \/ CheckReplay(c)
    \/ ReadItems(c)
    \/ LockRow(c)
    \/ PriceRow(c)
    \/ CheckTerms(c)
    \/ InsertOrder(c)
    \/ DecrementStock(c)
    \/ CommitOrder(c)

Step(c) == LockCart(c) \/ CartStep(c) \/ OrderStep(c)

Environment ==
    \/ \E k \in Carts : CreateCart(k)
    \/ \E p \in Catalogue : Reprice(p) \/ Reseed(p)

Next ==
    \/ \E c \in Calls : Step(c) \/ Fail(c)
    \/ \E c \in Calls, r \in Requests : Begin(c, r)
    \/ Environment

Spec == Init /\ [][Next]_vars

\* PostgreSQL grants a row lock in the order it was asked for, and a call runs
\* on unless it waits.  Neither time-outs nor failures are fair: no call needs
\* them to end.
Fairness == \A c \in Calls : SF_vars(Step(c))

FairSpec == Spec /\ Fairness

-----------------------------------------------------------------------------
\* Properties

TypeOK ==
    /\ opened \subseteq Carts
    /\ cart \in [Carts -> Contents]
    /\ stock \in [Catalogue -> Nat]
    /\ price \in [Catalogue -> Prices]
    /\ orders \subseteq Order
    /\ pc \in [Calls -> Steps]
    /\ req \in [Calls -> Request]
    /\ draft \in [Calls -> Contents]
    /\ quote \in [Calls -> [Catalogue -> Quote]]
    /\ todo \in [Calls -> SUBSET Catalogue]
    /\ answer \in [Calls -> Order \cup {NoOrder}]
    /\ supplied \in [Catalogue -> Int]

\* A cart version is ordered at most once, however often the confirmation is
\* repeated, retried after a lost answer or raced (order.ts:157-166).
OneOrderPerVersion ==
    \A o1, o2 \in orders : o1.cart = o2.cart /\ o1.version = o2.version => o1 = o2

\* While a cart stays at the version an order was placed for, the order says
\* exactly what the cart says, prices included; a cart never falls back behind
\* a version that was ordered.
OrderMatchesCart ==
    \A o \in orders :
        /\ o.version <= cart[o.cart].version
        /\ o.version = cart[o.cart].version => o.items = cart[o.cart].items

\* Every unit that left the stock is on exactly one order, and the other way
\* round: no order without its decrement, no decrement without its order.
Sold(p) == MapThenSumSet(LAMBDA o : o.items[p].quantity, orders)
StockConserved == \A p \in Catalogue : stock[p] + Sold(p) = supplied[p]

\* Two transactions never hold one row in conflicting modes.
LocksExclusive ==
    \A c, d \in Calls : c # d =>
        /\ \A k \in Carts : ~(HoldsCart(c, k) /\ HoldsCart(d, k))
        /\ LockedRows(c) \cap (LockedRows(d) \cup SharedRows(d)) = {}

\* The ON CONFLICT fallback is never taken: the cart lock already keeps two
\* calls from deriving the same key (order.ts:424-431).
ConflictUnreachable ==
    \A c \in Calls : req[c].op = "order" /\ pc[c] \in {"insert", "decrement", "commit"} => ~OnRecord(c)

\* The guarded decrement always finds its units: the row locks keep what the
\* validation saw (order.ts:478-491).
DecrementNeverFails ==
    \A c \in Calls : pc[c] \in {"terms", "insert", "decrement"} => CanDecrement(c)

\* Who a call waits for at its next statement.
WaitsFor(c) ==
    CASE pc[c] = "lockCart" -> {d \in Calls \ {c} : HoldsCart(d, req[c].cart)}
      [] pc[c] = "lockRows" -> {d \in Calls \ {c} :
                                     \E p \in LockedRows(d) \cup SharedRows(d) : NextRow(c, p)}
      [] pc[c] = "write" /\ req[c].op = "add" -> {d \in Calls \ {c} : req[c].ref \in LockedRows(d)}
      [] OTHER -> {}

\* No set of calls waits in a circle: locking the products in ref order is
\* enough, across carts and against the foreign-key locks of cart edits.
NoWaitCycle ==
    \A S \in SUBSET Calls : S # {} => \E c \in S : WaitsFor(c) \cap S = {}

\* An answer "created" names an order that is on record and is the one this
\* call asked for: its cart, its city and its payment method.
AnswerIsTrue ==
    [][\A c \in Calls : answer'[c] # answer[c] /\ answer'[c] # NoOrder =>
            /\ answer'[c] \in orders'
            /\ answer'[c].cart = req[c].cart
            /\ answer'[c].terms = req[c].terms]_vars

\* What of an order its customer knows: not the key it is recorded under.
Placed(o) == [cart |-> o.cart, version |-> o.version, terms |-> o.terms, items |-> o.items]

\* The services implement the atomic shop, which has no keys: that a cart version
\* is ordered once is what it promises, the unique key how the code keeps it.
Shop == INSTANCE Shop WITH
    opened <- opened,
    cart   <- cart,
    stock  <- stock,
    orders <- {Placed(o) : o \in orders}
ImplementsShop == Shop!Spec

\* A call that waits for locks gets them and returns, without any time-out.
CallReturns == \A c \in Calls : pc[c] # "idle" ~> pc[c] = "idle"
=============================================================================

----------------------------- MODULE ReadModels -----------------------------
(***************************************************************************)
(* Calls that read the shop in several statements and no transaction: the  *)
(* decision on a discount (promotions.ts) and the memory of a customer     *)
(* (customerMemory.ts), while sales are made and the seed file is loaded   *)
(* again, in one transaction (kenza.ts).  One product and one customer.    *)
(***************************************************************************)
EXTENDS Discount

CONSTANTS
    Files,      \* what the seed files may say: [price, stock, promotions, past]
    Days,
    Requested,  \* prices customers ask for
    MaxOrders   \* bound: live orders of the customer

ASSUME ReadModelsAssumption ==
    /\ Files \subseteq [price: Nat \ {0}, stock: Nat, promotions: SUBSET Promotions, past: Nat]
    /\ \A f \in Files : IsFiniteSet(f.promotions)
    /\ Requested \subseteq Nat
    /\ MaxOrders \in Nat

VARIABLES
    shop,    \* committed: [price, stock, promotions, past]
    draft,   \* the shop as the loader's transaction has it, or {}
    file,    \* what the loader has yet to write, and from where
    orders,  \* live orders of the customer
    wish,    \* a call of validateDiscount
    memory,  \* a call of getCustomerMemory
    inForce  \* history: the customer's past orders in the file committed last

readVars == <<shop, draft, file, orders, wish, memory, inForce>>

Empty == [f \in {} |-> f]

-----------------------------------------------------------------------------
\* kenza.ts: main

\* Mutated form: without BEGIN every statement is committed on its own.
StageAutocommit(d) == draft' = d /\ shop' = d

\* A statement of the transaction.
Stage(d) == draft' = d /\ UNCHANGED shop

Others == <<orders, wish, memory, inForce>>

\* loadPromotions: other files are refused before anything is written.
Sound(f) == \A p \in f.promotions : p.promo <= p.normal /\ p.starts <= p.ends

\* BEGIN; the rows of the products are written first, and stay locked.
LoadProducts(f) ==
    /\ file.step = "none"
    /\ Sound(f)
    /\ Stage([shop EXCEPT !.price = f.price, !.stock = f.stock])
    /\ file' = [step |-> "clear", promotions |-> f.promotions, past |-> f.past]
    /\ UNCHANGED Others

ClearHistory ==
    /\ file.step = "clear"
    /\ Stage([draft EXCEPT !.past = 0])
    /\ file' = [file EXCEPT !.step = "insert"]
    /\ UNCHANGED Others

\* As many past orders of the customer as this file has.
InsertHistory ==
    /\ file.step = "insert"
    /\ Stage([draft EXCEPT !.past = file.past])
    /\ file' = [file EXCEPT !.step = "refresh"]
    /\ UNCHANGED Others

RefreshPromotions ==
    /\ file.step = "refresh"
    /\ Stage([draft EXCEPT !.promotions = file.promotions])
    /\ file' = [file EXCEPT !.step = "check"]
    /\ UNCHANGED Others

NoFile == [step |-> "none", promotions |-> {}, past |-> 0]

\* The cross-checks hold: they count the past orders of all customers together.
CommitSeed ==
    /\ file.step = "check"
    /\ shop' = draft
    /\ draft' = Empty
    /\ file' = NoFile
    /\ inForce' = file.past
    /\ memory' = IF memory.step = "none" THEN memory
                 ELSE [memory EXCEPT !.since = @ \cup {file.past}]
    /\ UNCHANGED <<orders, wish>>

\* A cross-check, a statement or the process fails.
Rollback ==
    /\ file.step # "none"
    /\ draft' = Empty
    /\ file' = NoFile
    /\ UNCHANGED <<shop, Others>>

\* createOrder for the customer, which waits for the row of the product.
Sell ==
    /\ file.step = "none"
    /\ shop.stock > 0
    /\ orders < MaxOrders
    /\ shop' = [shop EXCEPT !.stock = @ - 1]
    /\ orders' = orders + 1
    /\ UNCHANGED <<draft, file, wish, memory, inForce>>

-----------------------------------------------------------------------------
\* validateDiscount

NoWish == [step |-> "none"]

AskDiscount(r, day) ==
    /\ wish.step = "none"
    /\ wish' = [step |-> "product", requested |-> r, day |-> day]
    /\ UNCHANGED <<shop, draft, file, orders, memory, inForce>>

Decided(a, product, active) ==
    wish' = [step |-> "done", requested |-> wish.requested, answer |-> a,
             product |-> product, active |-> active]

\* The first statement; the reference may be nobody's.
ReadRow ==
    /\ wish.step = "product"
    /\ LET row == [price |-> shop.price, stock |-> shop.stock] IN
       \/ wish' = [step |-> "promotions", requested |-> wish.requested, day |-> wish.day,
                   product |-> row]
       \/ Decided("unknown", row, {})
    /\ UNCHANGED <<shop, draft, file, orders, memory, inForce>>

\* The second, and the decision.
ReadPromotions ==
    LET active == Active(shop.promotions, wish.day) IN
    /\ wish.step = "promotions"
    /\ Decided(IF Broken(wish.product, active) THEN "error"
               ELSE Verdict(wish.product, active, wish.requested),
               wish.product, active)
    /\ UNCHANGED <<shop, draft, file, orders, memory, inForce>>

\* The caller has its answer, or a statement failed and the call with it.
EndDiscount ==
    /\ wish.step # "none"
    /\ wish' = NoWish
    /\ UNCHANGED <<shop, draft, file, orders, memory, inForce>>

-----------------------------------------------------------------------------
\* getCustomerMemory

\* The latest order of each kind, and how many of which kind were counted or had
\* their products read.  History: the live orders known when the call began, and
\* the past orders in the files that were in force since.
NoMemory == [step |-> "none", known |-> 0, live |-> 0, past |-> 0, lives |-> 0, total |-> 0,
             products |-> 0, since |-> {}]

\* The row of the customer.
AskMemory ==
    /\ memory.step = "none"
    /\ memory' = [memory EXCEPT !.step = "latest live", !.known = orders, !.since = {inForce}]
    /\ UNCHANGED <<shop, draft, file, orders, wish, inForce>>

\* The latest live order, the latest past one, the two counts, the products.
ReadMemory ==
    /\ \/ /\ memory.step = "latest live"
          /\ memory' = [memory EXCEPT !.step = "latest past", !.live = orders]
       \/ /\ memory.step = "latest past"
          /\ memory' = [memory EXCEPT !.step = "count live", !.past = shop.past]
       \/ /\ memory.step = "count live"
          /\ memory' = [memory EXCEPT !.step = "count past", !.lives = orders]
       \/ /\ memory.step = "count past"
          /\ memory' = [memory EXCEPT !.step = "products", !.total = memory.lives + shop.past]
       \/ /\ memory.step = "products"
          /\ memory' = [memory EXCEPT !.step = "done", !.products = orders + shop.past]
    /\ UNCHANGED <<shop, draft, file, orders, wish, inForce>>

\* The turn has the memory, or fails with a statement.
EndMemory ==
    /\ memory.step # "none"
    /\ memory' = NoMemory
    /\ UNCHANGED <<shop, draft, file, orders, wish, inForce>>

-----------------------------------------------------------------------------
ReadInit ==
    /\ shop \in {f \in Files : Sound(f)}
    /\ inForce = shop.past
    /\ draft = Empty
    /\ file = NoFile
    /\ orders = 0
    /\ wish = NoWish
    /\ memory = NoMemory

ReadNext ==
    \/ \E f \in Files : LoadProducts(f)
    \/ ClearHistory
    \/ InsertHistory
    \/ RefreshPromotions
    \/ CommitSeed
    \/ Rollback
    \/ Sell
    \/ \E r \in Requested, day \in Days : AskDiscount(r, day)
    \/ ReadRow
    \/ ReadPromotions
    \/ EndDiscount
    \/ AskMemory
    \/ ReadMemory
    \/ EndMemory

-----------------------------------------------------------------------------
\* Properties

\* A price is allowed only within ten percent of the list price the call read, or,
\* with a promotion of that list price in force, at its price: never from the
\* list price of one file and the promotion of another (promotions.ts:129-193,
\* 258-310).
DecisionIsRight ==
    wish.step = "done" /\ wish.answer = "allowed" =>
        LET list == wish.product.price
            live == {p \in wish.active : wish.product.stock > 0}
        IN IF live = {}
           THEN wish.requested <= list /\ 10 * wish.requested >= 9 * list
           ELSE \A p \in live : /\ p.normal = list
                               /\ p.condition = StocksLast
                               /\ wish.requested = p.promo

\* The six statements that make up the memory of a customer see live orders that
\* only grow, and past orders of files as they were committed since the call began,
\* never of a load under way or rolled back: no live order on record at the start is
\* missed, the latest is counted, and the total, the latest past order and the
\* products are each of one such file.  So a memory agrees with itself unless a
\* load changed the customer's own history meanwhile (customerMemory.ts:57-170).
MemoryIsTrue ==
    memory.step = "done" =>
        /\ memory.known <= memory.lives /\ memory.live <= memory.lives
        /\ memory.past \in memory.since
        /\ memory.total - memory.lives \in memory.since
        /\ \E past \in memory.since : memory.lives + past <= memory.products
=============================================================================

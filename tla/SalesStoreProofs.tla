-------------------------- MODULE SalesStoreProofs --------------------------
(***************************************************************************)
(* Proofs about SalesStore, for any number of calls, carts and products.   *)
(* The safety properties are proved from one inductive invariant, IInv: it *)
(* says what each transaction has established at each of its statements    *)
(* and that its row locks keep it true until the COMMIT.                   *)
(***************************************************************************)
EXTENDS SalesStore, FiniteSetTheorems, TLAPS

-----------------------------------------------------------------------------
\* The inductive invariant

InTransaction(c) == pc[c] \notin {"idle", "lockCart"}
Ordering(c) == InTransaction(c) /\ req[c].op = "order"

\* Each operation only ever runs its own statements, on an existing cart.
OpSteps(c) ==
    /\ InTransaction(c) => req[c].cart \in opened
    /\ pc[c] = "pricing" => req[c].op = "add"
    /\ pc[c] = "write" => req[c].op # "order"
    /\ pc[c] \in OrderSteps \ {"commit"} => req[c].op = "order"
    /\ pc[c] \in {"write", "commit"} /\ req[c].op = "add" => req[c].ref \in Catalogue

\* A line without quantity is no line.
Canonical(items) == \A p \in Catalogue : items[p].quantity = 0 => items[p] = NoLine

\* A cart edit about to commit changes one line of the cart as it stands.
EditCurrent(c) ==
    pc[c] = "commit" /\ req[c].op # "order" =>
        /\ Canonical(draft[c].items)
        /\ \E p \in Catalogue : \A q \in Catalogue \ {p} :
              draft[c].items[q] = cart[req[c].cart].items[q]

\* What createOrder has read of the cart is what the cart still is.
ReadsCurrent(c) ==
    Ordering(c) =>
        /\ draft[c].version = cart[req[c].cart].version
        /\ pc[c] # "replay" => ~OnRecord(c)
        /\ pc[c] \notin {"replay", "items"} =>
              /\ draft[c].items = cart[req[c].cart].items
              /\ Lines(draft[c].items) # {}

\* The loops of createOrder visit lines of the cart, and stop when none is left.
LoopCurrent(c) ==
    pc[c] \in {"lockRows", "price"} =>
        todo[c] # {} /\ todo[c] \subseteq Lines(draft[c].items)

\* The rows still to be locked come after those that are.
LocksInOrder(c) ==
    pc[c] = "lockRows" =>
        \A p \in Lines(draft[c].items) \ todo[c], q \in todo[c] : p < q

\* What createOrder has validated holds until it commits.
InStock(c, p) == draft[c].items[p].quantity <= stock[p]
Validated(c) ==
    Ordering(c) =>
        /\ pc[c] = "price" => \A p \in Lines(draft[c].items) \ todo[c] : InStock(c, p)
        /\ pc[c] \in {"terms", "insert", "decrement", "commit"} =>
              \A p \in Lines(draft[c].items) : InStock(c, p)
        /\ pc[c] \in {"insert", "decrement", "commit"} => ~PriceChanged(c)

CallInv(c) ==
    /\ OpSteps(c)
    /\ EditCurrent(c)
    /\ ReadsCurrent(c)
    /\ LoopCurrent(c)
    /\ LocksInOrder(c)
    /\ Validated(c)

CartsCanonical == \A k \in Carts : Canonical(cart[k].items)
OrderKeys == \A o \in orders : o.key = IdempotencyKey(o.cart, o.version)

IInv ==
    /\ TypeOK
    /\ \A c \in Calls : CallInv(c)
    /\ LocksExclusive
    /\ CartsCanonical
    /\ OrderKeys
    /\ OneOrderPerVersion
    /\ OrderMatchesCart

-----------------------------------------------------------------------------
\* Steps that leave the store alone

\* The local state of a call.
Local(d) == <<pc[d], req[d], draft[d], quote[d], todo[d]>>

\* A call that neither moves itself nor sees the store move keeps its locks and
\* what it has established.
LEMMA OtherCall ==
    ASSUME NEW d \in Calls, CallInv(d), Local(d)' = Local(d),
           UNCHANGED <<opened, cart, stock, orders>>
    PROVE  /\ CallInv(d)'
           /\ \A k \in Carts : HoldsCart(d, k)' <=> HoldsCart(d, k)
           /\ LockedRows(d)' = LockedRows(d)
           /\ SharedRows(d)' = SharedRows(d)
<1>1. OpSteps(d)'
  BY DEF CallInv, OpSteps, Local, InTransaction
<1>2. EditCurrent(d)'
  BY DEF CallInv, EditCurrent, Local, Canonical
<1>3. ReadsCurrent(d)'
  BY DEF CallInv, ReadsCurrent, Local, Ordering, InTransaction, OnRecord, Lines
<1>4. (LoopCurrent(d) /\ LocksInOrder(d))'
  BY DEF CallInv, LoopCurrent, LocksInOrder, Local, Lines
<1>5. Validated(d)'
  BY DEF CallInv, Validated, Local, Ordering, InTransaction, Lines, InStock, PriceChanged
<1>6. LockedRows(d)' = LockedRows(d)
  BY DEF LockedRows, Local, Lines
<1>7. SharedRows(d)' = SharedRows(d)
  BY DEF SharedRows, Local
<1>8. \A k \in Carts : HoldsCart(d, k)' <=> HoldsCart(d, k)
  BY DEF HoldsCart, Local
<1> QED
  BY <1>1, <1>2, <1>3, <1>4, <1>5, <1>6, <1>7, <1>8 DEF CallInv

\* The locks call c would hold are compatible with those of the other calls.
Compatible(c) ==
    \A d \in Calls \ {c} :
        /\ \A k \in Carts : ~(HoldsCart(c, k) /\ HoldsCart(d, k))
        /\ LockedRows(c) \cap (LockedRows(d) \cup SharedRows(d)) = {}
        /\ SharedRows(c) \cap LockedRows(d) = {}

\* What a statement of call c has to preserve when it leaves the store alone.
LEMMA LocalStep ==
    ASSUME IInv, NEW c \in Calls, TypeOK', CallInv(c)', Compatible(c)',
           \A d \in Calls \ {c} : Local(d)' = Local(d),
           UNCHANGED <<opened, cart, stock, orders>>
    PROVE  IInv'
<1>1. \A d \in Calls \ {c} :
         /\ CallInv(d)'
         /\ \A k \in Carts : HoldsCart(d, k)' <=> HoldsCart(d, k)
         /\ LockedRows(d)' = LockedRows(d)
         /\ SharedRows(d)' = SharedRows(d)
  BY OtherCall DEF IInv
<1>2. \A d \in Calls : CallInv(d)'
  BY <1>1
<1>3. LocksExclusive'
  <2> SUFFICES ASSUME NEW a \in Calls, NEW b \in Calls, a # b
               PROVE  /\ \A k \in Carts : ~(HoldsCart(a, k)' /\ HoldsCart(b, k)')
                      /\ LockedRows(a)' \cap (LockedRows(b)' \cup SharedRows(b)') = {}
    BY DEF LocksExclusive
  <2>1. CASE a = c
    BY <2>1 DEF Compatible
  <2>2. CASE b = c
    BY <2>2 DEF Compatible
  <2>3. CASE a # c /\ b # c
    BY <2>3, <1>1 DEF IInv, LocksExclusive
  <2> QED
    BY <2>1, <2>2, <2>3
<1>4. (CartsCanonical /\ OrderKeys /\ OneOrderPerVersion /\ OrderMatchesCart)'
  BY DEF IInv, CartsCanonical, Canonical, OrderKeys, OneOrderPerVersion, OrderMatchesCart
<1> QED
  BY <1>2, <1>3, <1>4 DEF IInv

LEMMA AnyRequestType == AnyRequest \in Request
<1>1. \E r \in Request : TRUE
  <2>1. PICK k \in Carts, p \in Refs, q \in Quantities, t \in Terms : TRUE
    BY SalesStoreAssumption
  <2>2. [op |-> "add", cart |-> k, ref |-> p, quantity |-> q, terms |-> t] \in Request
    BY DEF Request, Ops
  <2> QED
    BY <2>2
<1> QED
  BY <1>1 DEF AnyRequest

LEMMA NoLinesType == NoLines \in [Catalogue -> Line] /\ EmptyCart \in Contents
BY DEF NoLines, NoLine, Line, EmptyCart, Contents

\* A transaction that ends without a COMMIT leaves nothing behind.
LEMMA RefuseInv ==
    ASSUME IInv, NEW c \in Calls, Refuse(c)
    PROVE  IInv'
<1>1. TypeOK'
  <2>1. NoOrder \in Order \cup {NoOrder}
    OBVIOUS
  <2>2. NoQuotes \in [Catalogue -> Quote]
    BY DEF NoQuotes, Quote
  <2>3. "idle" \in Steps
    BY DEF Steps
  <2> QED
    BY <2>1, <2>2, <2>3, AnyRequestType, NoLinesType DEF IInv, TypeOK, Refuse, Finish, Goto
<1>2. pc'[c] = "idle"
  BY DEF IInv, TypeOK, Refuse, Finish, Goto
<1>3. CallInv(c)'
  BY <1>2 DEF CallInv, OpSteps, EditCurrent, ReadsCurrent, LoopCurrent, LocksInOrder, Validated,
              InTransaction, Ordering, OrderSteps
<1>4. Compatible(c)'
  BY <1>2 DEF Compatible, HoldsCart, LockedRows, SharedRows
<1>5. \A d \in Calls \ {c} : Local(d)' = Local(d)
  BY DEF IInv, TypeOK, Refuse, Finish, Goto, Local
<1> QED
  BY <1>1, <1>3, <1>4, <1>5, LocalStep DEF Refuse

LEMMA BeginInv ==
    ASSUME IInv, NEW c \in Calls, NEW r \in Request, Begin(c, r)
    PROVE  IInv'
<1>1. TypeOK'
  BY DEF IInv, TypeOK, Begin, Goto, Steps
<1>2. pc'[c] = "lockCart"
  BY DEF IInv, TypeOK, Begin, Goto
<1>3. CallInv(c)'
  BY <1>2 DEF CallInv, OpSteps, EditCurrent, ReadsCurrent, LoopCurrent, LocksInOrder, Validated,
              InTransaction, Ordering, OrderSteps
<1>4. Compatible(c)'
  BY <1>2 DEF Compatible, HoldsCart, LockedRows, SharedRows
<1>5. \A d \in Calls \ {c} : Local(d)' = Local(d)
  BY DEF IInv, TypeOK, Begin, Goto, Local
<1> QED
  BY <1>1, <1>3, <1>4, <1>5, LocalStep DEF Begin

LEMMA LockCartInv ==
    ASSUME IInv, NEW c \in Calls, LockCart(c)
    PROVE  IInv'
<1>1. CASE Refuse(c)
  BY <1>1, RefuseInv
<1>2. CASE /\ req[c].cart \in opened
           /\ Goto(c, FirstStep[req[c].op])
           /\ draft' = [draft EXCEPT ![c].version = cart[req[c].cart].version]
           /\ UNCHANGED <<opened, cart, stock, price, orders, req, quote, todo, answer, supplied>>
  <2> DEFINE k == req[c].cart
             step == FirstStep[req[c].op]
  <2>1. k \in Carts /\ req[c].op \in Ops
    BY DEF IInv, TypeOK, Request
  <2>2. /\ req[c].op = "add" => step = "pricing"
        /\ req[c].op = "order" => step = "replay"
        /\ req[c].op \in {"update", "remove"} => step = "write"
    BY DEF FirstStep
  <2>3. step \in {"pricing", "write", "replay"}
    BY <2>1, <2>2 DEF Ops
  <2>4. pc' = [pc EXCEPT ![c] = step] /\ pc'[c] = step
    BY <1>2 DEF Goto, IInv, TypeOK
  <2>5. draft' \in [Calls -> Contents] /\ draft'[c].version = cart[k].version
    <3>1. cart[k].version \in Nat /\ draft \in [Calls -> Contents] /\ draft[c] \in Contents
      BY <2>1 DEF IInv, TypeOK, Contents
    <3>2. [draft[c] EXCEPT !.version = cart[k].version] \in Contents
      BY <3>1 DEF Contents
    <3>3. draft' = [draft EXCEPT ![c] = [draft[c] EXCEPT !.version = cart[k].version]]
      BY <1>2
    <3>4. draft' \in [Calls -> Contents] /\ draft'[c] = [draft[c] EXCEPT !.version = cart[k].version]
      BY <3>1, <3>2, <3>3
    <3> QED
      BY <3>1, <3>4 DEF Contents
  <2>6. TypeOK'
    BY <1>2, <2>3, <2>4, <2>5 DEF IInv, TypeOK, Steps, CartSteps, OrderSteps
  <2>7. CallInv(c)'
    BY <1>2, <2>1, <2>2, <2>3, <2>4, <2>5
    DEF CallInv, OpSteps, EditCurrent, ReadsCurrent, LoopCurrent, LocksInOrder, Validated,
        InTransaction, Ordering, OrderSteps, Ops
  <2>8. \A d \in Calls \ {c} : Local(d)' = Local(d)
    BY <1>2, <2>4 DEF IInv, TypeOK, Local
  <2>9. Compatible(c)'
    <3>1. \A d \in Calls \ {c} : \A j \in Carts : ~(HoldsCart(c, j)' /\ HoldsCart(d, j)')
      BY <1>2, <2>8 DEF LockCart, CartFree, HoldsCart, Local
    <3>2. LockedRows(c)' = {} /\ SharedRows(c)' = {}
      BY <2>3, <2>4 DEF LockedRows, SharedRows
    <3> QED
      BY <3>1, <3>2 DEF Compatible
  <2> QED
    BY <1>2, <2>6, <2>7, <2>8, <2>9, LocalStep
<1> QED
  BY <1>1, <1>2 DEF LockCart

\* A statement that leaves the call in its transaction without new locks.
LEMMA SameLocks ==
    ASSUME IInv, NEW c \in Calls, InTransaction(c), UNCHANGED <<cart, req>>,
           LockedRows(c)' \subseteq LockedRows(c), SharedRows(c)' = SharedRows(c),
           \A d \in Calls \ {c} : Local(d)' = Local(d)
    PROVE  Compatible(c)'
<1>1. \A k \in Carts : HoldsCart(c, k)' => HoldsCart(c, k)
  BY DEF HoldsCart, InTransaction
<1>2. \A d \in Calls \ {c} :
         /\ \A k \in Carts : HoldsCart(d, k)' <=> HoldsCart(d, k)
         /\ LockedRows(d)' = LockedRows(d)
         /\ SharedRows(d)' = SharedRows(d)
  BY DEF HoldsCart, LockedRows, SharedRows, Local, Lines
<1>3. \A d \in Calls \ {c} :
         /\ \A k \in Carts : ~(HoldsCart(c, k) /\ HoldsCart(d, k))
         /\ LockedRows(c) \cap (LockedRows(d) \cup SharedRows(d)) = {}
         /\ LockedRows(d) \cap SharedRows(c) = {}
  BY DEF IInv, LocksExclusive
<1> QED
  BY <1>1, <1>2, <1>3 DEF Compatible

LEMMA ReadPricingInv ==
    ASSUME IInv, NEW c \in Calls, ReadPricing(c)
    PROVE  IInv'
<1>1. CASE Refuse(c)
  BY <1>1, RefuseInv
<1>2. CASE /\ req[c].ref \in Catalogue
           /\ Goto(c, "write")
           /\ quote' = [quote EXCEPT ![c][req[c].ref] =
                          [stock |-> stock[req[c].ref], price |-> price[req[c].ref]]]
           /\ UNCHANGED <<opened, cart, stock, price, orders, req, draft, todo, answer, supplied>>
  <2>1. pc[c] = "pricing" /\ pc' = [pc EXCEPT ![c] = "write"] /\ pc'[c] = "write"
    BY <1>2 DEF ReadPricing, Goto, IInv, TypeOK
  <2>2. quote' \in [Calls -> [Catalogue -> Quote]]
    <3>1. [stock |-> stock[req[c].ref], price |-> price[req[c].ref]] \in Quote
      BY <1>2, SalesStoreAssumption DEF IInv, TypeOK, Quote
    <3> QED
      BY <1>2, <3>1 DEF IInv, TypeOK
  <2>3. TypeOK'
    BY <1>2, <2>1, <2>2 DEF IInv, TypeOK, Steps, CartSteps
  <2>4. OpSteps(c)
    BY DEF IInv, CallInv
  <2>5. req[c].op = "add"
    BY <2>1, <2>4 DEF OpSteps
  <2>6. CallInv(c)'
    BY <1>2, <2>1, <2>4, <2>5
    DEF CallInv, OpSteps, EditCurrent, ReadsCurrent, LoopCurrent, LocksInOrder, Validated,
        InTransaction, Ordering, OrderSteps
  <2>7. \A d \in Calls \ {c} : Local(d)' = Local(d)
    BY <1>2, <2>1 DEF IInv, TypeOK, Local
  <2>8. Compatible(c)'
    BY <1>2, <2>1, <2>7, SameLocks DEF InTransaction, LockedRows, SharedRows, Lines
  <2> QED
    BY <1>2, <2>3, <2>6, <2>7, <2>8, LocalStep
<1> QED
  BY <1>1, <1>2 DEF ReadPricing

\* A cart edit that has written its line only has to commit.
LEMMA WriteLinesInv ==
    ASSUME IInv, NEW c \in Calls, NEW items \in [Catalogue -> Line],
           pc[c] = "write", WriteLines(c, items), Canonical(items),
           \E p \in Catalogue : \A q \in Catalogue \ {p} :
              items[q] = cart[req[c].cart].items[q],
           req[c].op = "add" /\ cart[req[c].cart].items[req[c].ref].quantity = 0
              => ~RowLocked(req[c].ref)
    PROVE  IInv'
<1>1. pc' = [pc EXCEPT ![c] = "commit"] /\ pc'[c] = "commit"
  BY DEF WriteLines, Goto, IInv, TypeOK
<1>2. draft' \in [Calls -> Contents] /\ draft'[c].items = items
  BY DEF WriteLines, IInv, TypeOK, Contents
<1>3. TypeOK'
  BY <1>1, <1>2 DEF IInv, TypeOK, WriteLines, Steps, CartSteps
<1>4. OpSteps(c)
  BY DEF IInv, CallInv
<1>5. req[c].op # "order"
  BY <1>4 DEF OpSteps
<1>6. CallInv(c)'
  <2>1. OpSteps(c)'
    BY <1>1, <1>4, <1>5 DEF OpSteps, WriteLines, InTransaction, OrderSteps
  <2>2. EditCurrent(c)'
    BY <1>2 DEF EditCurrent, WriteLines, Canonical
  <2>3. (ReadsCurrent(c) /\ LoopCurrent(c) /\ LocksInOrder(c) /\ Validated(c))'
    BY <1>1, <1>5 DEF ReadsCurrent, LoopCurrent, LocksInOrder, Validated, Ordering, WriteLines
  <2> QED
    BY <2>1, <2>2, <2>3 DEF CallInv
<1>7. \A d \in Calls \ {c} : Local(d)' = Local(d)
  BY <1>1 DEF IInv, TypeOK, WriteLines, Local
<1>8. Compatible(c)'
  <2>1. \A d \in Calls \ {c} :
           /\ \A k \in Carts : ~(HoldsCart(c, k) /\ HoldsCart(d, k))
           /\ \A k \in Carts : HoldsCart(d, k)' <=> HoldsCart(d, k)
           /\ LockedRows(d)' = LockedRows(d)
    BY <1>7 DEF IInv, LocksExclusive, HoldsCart, LockedRows, Lines, Local
  <2>2. \A k \in Carts : HoldsCart(c, k)' => HoldsCart(c, k)
    BY DEF HoldsCart, WriteLines
  <2>3. LockedRows(c)' = {}
    BY <1>5 DEF LockedRows, WriteLines
  <2>4. \A p \in SharedRows(c)' : ~RowLocked(p)
    BY DEF SharedRows, WriteLines
  <2> QED
    BY <2>1, <2>2, <2>3, <2>4 DEF Compatible, RowLocked
<1> QED
  BY <1>3, <1>6, <1>7, <1>8, LocalStep DEF WriteLines

\* The lines of an existing cart, and of any cart.
LEMMA CartLines ==
    ASSUME IInv, NEW c \in Calls
    PROVE  /\ req[c].cart \in Carts
           /\ cart[req[c].cart].items \in [Catalogue -> Line]
           /\ Canonical(cart[req[c].cart].items)
           /\ req[c].quantity \in Nat \ {0}
BY SalesStoreAssumption DEF IInv, TypeOK, Contents, CartsCanonical, Request

LEMMA AddItemInv ==
    ASSUME IInv, NEW c \in Calls, AddItem(c)
    PROVE  IInv'
<1> DEFINE p == req[c].ref
           items == cart[req[c].cart].items
           total == items[p].quantity + req[c].quantity
           new == [items EXCEPT ![p] = [quantity |-> total, price |-> quote[c][p].price]]
<1>1. CASE Refuse(c)
  BY <1>1, RefuseInv
<1>2. CASE /\ items[p].quantity = 0 => ~RowLocked(p)
           /\ WriteLines(c, new)
  <2>1. p \in Catalogue
    BY DEF IInv, CallInv, OpSteps, AddItem
  <2>2. items \in [Catalogue -> Line] /\ Canonical(items) /\ req[c].quantity \in Nat \ {0}
    BY CartLines
  <2>3. total \in Nat \ {0}
    BY <2>1, <2>2 DEF Line
  <2>4. quote[c][p].price \in Nat
    BY <2>1 DEF IInv, TypeOK, Quote
  <2>5. new \in [Catalogue -> Line]
    BY <2>1, <2>2, <2>3, <2>4 DEF Line
  <2>6. Canonical(new)
    BY <2>1, <2>2, <2>3 DEF Canonical
  <2>7. \A q \in Catalogue \ {p} : new[q] = items[q]
    BY <2>2
  <2> HIDE DEF new
  <2> QED
    BY <1>2, <2>1, <2>5, <2>6, <2>7, WriteLinesInv DEF AddItem
<1> QED
  BY <1>1, <1>2 DEF AddItem

LEMMA UpdateItemInv ==
    ASSUME IInv, NEW c \in Calls, UpdateItem(c)
    PROVE  IInv'
<1> DEFINE p == req[c].ref
           items == cart[req[c].cart].items
           new == [items EXCEPT ![p].quantity = req[c].quantity]
<1>1. CASE Refuse(c)
  BY <1>1, RefuseInv
<1>2. CASE p \in Lines(items) /\ WriteLines(c, new)
  <2>1. p \in Catalogue
    BY <1>2 DEF Lines
  <2>2. items \in [Catalogue -> Line] /\ Canonical(items) /\ req[c].quantity \in Nat \ {0}
    BY CartLines
  <2>3. new \in [Catalogue -> Line]
    BY <2>1, <2>2 DEF Line
  <2>4. new[p].quantity = req[c].quantity
    BY <2>1, <2>2 DEF Line
  <2>5. \A q \in Catalogue \ {p} : new[q] = items[q]
    BY <2>2
  <2>6. Canonical(new)
    BY <2>2, <2>4, <2>5 DEF Canonical
  <2> HIDE DEF new
  <2> QED
    BY <1>2, <2>1, <2>3, <2>5, <2>6, WriteLinesInv DEF UpdateItem
<1> QED
  BY <1>1, <1>2 DEF UpdateItem

LEMMA RemoveItemInv ==
    ASSUME IInv, NEW c \in Calls, RemoveItem(c)
    PROVE  IInv'
<1> DEFINE p == req[c].ref
           items == cart[req[c].cart].items
           new == [items EXCEPT ![p] = NoLine]
<1>1. CASE Refuse(c)
  BY <1>1, RefuseInv
<1>2. CASE p \in Lines(items) /\ WriteLines(c, new)
  <2>1. p \in Catalogue
    BY <1>2 DEF Lines
  <2>2. items \in [Catalogue -> Line] /\ Canonical(items)
    BY CartLines
  <2>3. new \in [Catalogue -> Line] /\ Canonical(new)
    BY <2>1, <2>2 DEF Line, NoLine, Canonical
  <2>4. \A q \in Catalogue \ {p} : new[q] = items[q]
    BY <2>2
  <2> HIDE DEF new
  <2> QED
    BY <1>2, <2>1, <2>3, <2>4, WriteLinesInv DEF RemoveItem
<1> QED
  BY <1>1, <1>2 DEF RemoveItem

LEMMA CheckReplayInv ==
    ASSUME IInv, NEW c \in Calls, CheckReplay(c)
    PROVE  IInv'
<1>1. CASE OnRecord(c) /\ Finish(c, Replay(c)) /\ UNCHANGED <<opened, cart, stock, price, orders, supplied>>
  <2>1. Replay(c) \in Order \cup {NoOrder}
    BY DEF Replay, IInv, TypeOK
  <2>2. TypeOK'
    <3>1. NoQuotes \in [Catalogue -> Quote] /\ "idle" \in Steps
      BY DEF NoQuotes, Quote, Steps
    <3> QED
      BY <1>1, <2>1, <3>1, AnyRequestType, NoLinesType DEF IInv, TypeOK, Finish, Goto
  <2>3. pc'[c] = "idle"
    BY <1>1 DEF IInv, TypeOK, Finish, Goto
  <2>4. CallInv(c)'
    BY <2>3 DEF CallInv, OpSteps, EditCurrent, ReadsCurrent, LoopCurrent, LocksInOrder, Validated,
                InTransaction, Ordering, OrderSteps
  <2>5. Compatible(c)'
    BY <2>3 DEF Compatible, HoldsCart, LockedRows, SharedRows
  <2>6. \A d \in Calls \ {c} : Local(d)' = Local(d)
    BY <1>1 DEF IInv, TypeOK, Finish, Goto, Local
  <2> QED
    BY <1>1, <2>2, <2>4, <2>5, <2>6, LocalStep
<1>2. CASE /\ ~OnRecord(c)
           /\ Goto(c, "items")
           /\ UNCHANGED <<opened, cart, stock, price, orders, req, draft, quote, todo, answer, supplied>>
  <2>1. pc[c] = "replay" /\ pc' = [pc EXCEPT ![c] = "items"] /\ pc'[c] = "items"
    BY <1>2 DEF CheckReplay, Goto, IInv, TypeOK
  <2>2. TypeOK'
    BY <1>2, <2>1 DEF IInv, TypeOK, Steps, OrderSteps
  <2>3. CallInv(c)
    BY DEF IInv
  <2>4. CallInv(c)'
    BY <1>2, <2>1, <2>3
    DEF CallInv, OpSteps, EditCurrent, ReadsCurrent, LoopCurrent, LocksInOrder, Validated,
        InTransaction, Ordering, OrderSteps, OnRecord
  <2>5. \A d \in Calls \ {c} : Local(d)' = Local(d)
    BY <1>2, <2>1 DEF IInv, TypeOK, Local
  <2>6. Compatible(c)'
    BY <1>2, <2>1, <2>5, SameLocks DEF InTransaction, LockedRows, SharedRows, Lines
  <2> QED
    BY <1>2, <2>2, <2>4, <2>5, <2>6, LocalStep
<1> QED
  BY <1>1, <1>2 DEF CheckReplay

LEMMA ReadItemsInv ==
    ASSUME IInv, NEW c \in Calls, ReadItems(c)
    PROVE  IInv'
<1> DEFINE items == cart[req[c].cart].items
<1>1. CASE Refuse(c)
  BY <1>1, RefuseInv
<1>2. CASE /\ Lines(items) # {}
           /\ Goto(c, "lockRows")
           /\ draft' = [draft EXCEPT ![c].items = items]
           /\ todo' = [todo EXCEPT ![c] = Lines(items)]
           /\ UNCHANGED <<opened, cart, stock, price, orders, req, quote, answer, supplied>>
  <2>1. pc[c] = "items" /\ pc' = [pc EXCEPT ![c] = "lockRows"] /\ pc'[c] = "lockRows"
    BY <1>2 DEF ReadItems, Goto, IInv, TypeOK
  <2>2. /\ draft' \in [Calls -> Contents]
        /\ draft'[c].items = items
        /\ draft'[c].version = draft[c].version
    <3>1. items \in [Catalogue -> Line] /\ draft \in [Calls -> Contents] /\ draft[c] \in Contents
      BY CartLines DEF IInv, TypeOK
    <3>2. [draft[c] EXCEPT !.items = items] \in Contents
      BY <3>1 DEF Contents
    <3>3. draft' = [draft EXCEPT ![c] = [draft[c] EXCEPT !.items = items]]
      BY <1>2
    <3>4. draft' \in [Calls -> Contents] /\ draft'[c] = [draft[c] EXCEPT !.items = items]
      BY <3>1, <3>2, <3>3
    <3> QED
      BY <3>1, <3>4 DEF Contents
  <2>3. Lines(items) \subseteq Catalogue
    BY DEF Lines
  <2>4. todo' \in [Calls -> SUBSET Catalogue] /\ todo'[c] = Lines(items)
    BY <1>2, <2>3 DEF IInv, TypeOK
  <2>5. TypeOK'
    BY <1>2, <2>1, <2>2, <2>4 DEF IInv, TypeOK, Steps, OrderSteps
  <2>6. CallInv(c)
    BY DEF IInv
  <2>7. Lines(draft[c].items)' = Lines(items)
    BY <1>2, <2>2 DEF Lines
  <2>8. CallInv(c)'
    <3>1. OpSteps(c)'
      BY <1>2, <2>1, <2>6 DEF CallInv, OpSteps, InTransaction, OrderSteps
    <3>2. ReadsCurrent(c)'
      BY <1>2, <2>1, <2>2, <2>6, <2>7
      DEF CallInv, OpSteps, ReadsCurrent, Ordering, InTransaction, OrderSteps, OnRecord
    <3>3. (EditCurrent(c) /\ LoopCurrent(c) /\ LocksInOrder(c) /\ Validated(c))'
      BY <1>2, <2>1, <2>4, <2>7 DEF EditCurrent, LoopCurrent, LocksInOrder, Validated
    <3> QED
      BY <3>1, <3>2, <3>3 DEF CallInv
  <2>9. \A d \in Calls \ {c} : Local(d)' = Local(d)
    BY <1>2, <2>1 DEF IInv, TypeOK, Local
  <2>10. Compatible(c)'
    <3>1. LockedRows(c)' = {} /\ SharedRows(c)' = SharedRows(c)
      BY <1>2, <2>1, <2>4, <2>7 DEF LockedRows, SharedRows
    <3> QED
      BY <1>2, <2>1, <2>9, <3>1, SameLocks DEF InTransaction
  <2> QED
    BY <1>2, <2>5, <2>8, <2>9, <2>10, LocalStep
<1> QED
  BY <1>1, <1>2 DEF ReadItems

LEMMA LockRowInv ==
    ASSUME IInv, NEW c \in Calls, LockRow(c)
    PROVE  IInv'
<1>1. PICK p \in Catalogue :
        /\ NextRow(c, p)
        /\ ~RowLocked(p)
        /\ ~RowShared(p)
        /\ quote' = [quote EXCEPT ![c][p].stock = stock[p]]
        /\ VisitRow(c, p, "lockRows", "price")
  BY DEF LockRow
<1> DEFINE rest == todo[c] \ {p}
           lines == Lines(draft[c].items)
           step == IF rest = {} THEN "price" ELSE "lockRows"
<1>2. /\ pc[c] = "lockRows"
      /\ UNCHANGED <<opened, cart, stock, price, orders, req, draft, answer, supplied>>
  BY DEF LockRow
<1>3. pc' = [pc EXCEPT ![c] = step] /\ pc'[c] = step
  BY <1>1 DEF VisitRow, Goto, IInv, TypeOK
<1>4. todo' = [todo EXCEPT ![c] = IF rest = {} THEN lines ELSE rest]
  BY <1>1 DEF VisitRow
<1>5. CallInv(c) /\ req[c].op = "order" /\ p \in todo[c] /\ todo[c] \subseteq lines
  BY <1>1, <1>2 DEF IInv, CallInv, OpSteps, OrderSteps, LoopCurrent, NextRow
<1>6. TypeOK'
  <2>1. todo' \in [Calls -> SUBSET Catalogue]
    BY <1>4 DEF IInv, TypeOK, Lines
  <2>2. quote' \in [Calls -> [Catalogue -> Quote]]
    <3>1. [quote[c][p] EXCEPT !.stock = stock[p]] \in Quote
      <4>1. quote[c][p] \in Quote /\ stock[p] \in Nat
        BY DEF IInv, TypeOK
      <4> QED
        BY <4>1 DEF Quote
    <3> QED
      BY <1>1, <3>1 DEF IInv, TypeOK
  <2> QED
    BY <1>2, <1>3, <2>1, <2>2 DEF IInv, TypeOK, Steps, OrderSteps
<1>7. Lines(draft[c].items)' = lines
  BY <1>2 DEF Lines
<1>8. todo'[c] = IF rest = {} THEN lines ELSE rest
  BY <1>4 DEF IInv, TypeOK
<1>9. CallInv(c)'
  <2>1. OpSteps(c)' /\ EditCurrent(c)'
    BY <1>2, <1>3, <1>5 DEF CallInv, OpSteps, EditCurrent, InTransaction, OrderSteps
  <2>2. ReadsCurrent(c)'
    BY <1>2, <1>3, <1>5, <1>7 DEF CallInv, ReadsCurrent, Ordering, InTransaction, OnRecord
  <2>3. LoopCurrent(c)'
    BY <1>5, <1>7, <1>8 DEF LoopCurrent
  <2>5. LocksInOrder(c)'
    <3> SUFFICES ASSUME rest # {}, NEW q \in lines \ rest, NEW r \in rest
                 PROVE  q < r
      BY <1>3, <1>7, <1>8 DEF LocksInOrder
    <3>1. \A u \in lines \ todo[c], v \in todo[c] : u < v
      BY <1>2, <1>5 DEF CallInv, LocksInOrder
    <3>2. p \in Nat /\ q \in Nat /\ r \in Nat
      BY <1>5, SalesStoreAssumption DEF Lines
    <3>3. CASE q = p
      BY <1>1, <3>2, <3>3 DEF NextRow
    <3> QED
      BY <3>1, <3>3
  <2>4. Validated(c)'
    BY <1>3, <1>7, <1>8 DEF Validated
  <2> QED
    BY <2>1, <2>2, <2>3, <2>4, <2>5 DEF CallInv
<1>10. \A d \in Calls \ {c} : Local(d)' = Local(d)
  BY <1>1, <1>2, <1>3, <1>4 DEF IInv, TypeOK, Local
<1>11. Compatible(c)'
  <2>1. LockedRows(c)' = LockedRows(c) \cup {p}
    BY <1>2, <1>3, <1>5, <1>7, <1>8 DEF LockedRows
  <2>2. SharedRows(c)' = {}
    BY <1>2, <1>5 DEF SharedRows
  <2>3. \A d \in Calls \ {c} :
           /\ LockedRows(d)' = LockedRows(d)
           /\ SharedRows(d)' = SharedRows(d)
           /\ \A k \in Carts : HoldsCart(d, k)' <=> HoldsCart(d, k)
    BY <1>2, <1>10 DEF LockedRows, SharedRows, HoldsCart, Local, Lines
  <2>4. \A d \in Calls \ {c} :
           /\ LockedRows(c) \cap (LockedRows(d) \cup SharedRows(d)) = {}
           /\ \A k \in Carts : ~(HoldsCart(c, k) /\ HoldsCart(d, k))
    BY DEF IInv, LocksExclusive
  <2>5. \A k \in Carts : HoldsCart(c, k)' => HoldsCart(c, k)
    BY <1>2, <1>3 DEF HoldsCart
  <2>6. \A d \in Calls \ {c} : p \notin LockedRows(d) /\ p \notin SharedRows(d)
    BY <1>1 DEF RowLocked, RowShared
  <2> QED
    BY <2>1, <2>2, <2>3, <2>4, <2>5, <2>6 DEF Compatible
<1> QED
  BY <1>2, <1>6, <1>9, <1>10, <1>11, LocalStep

LEMMA PriceRowInv ==
    ASSUME IInv, NEW c \in Calls, PriceRow(c)
    PROVE  IInv'
<1>1. CASE Refuse(c)
  BY <1>1, RefuseInv
<1>2. ASSUME NEW p \in Catalogue, NextRow(c, p), StockStands(c, p),
             quote' = [quote EXCEPT ![c][p].price = price[p]],
             VisitRow(c, p, "price", "terms"),
             UNCHANGED <<opened, cart, stock, price, orders, req, draft, answer, supplied>>
      PROVE  IInv'
  <2> DEFINE rest == todo[c] \ {p}
             lines == Lines(draft[c].items)
             step == IF rest = {} THEN "terms" ELSE "price"
  <2>1. pc[c] = "price"
    BY DEF PriceRow
  <2>2. pc' = [pc EXCEPT ![c] = step] /\ pc'[c] = step
    BY <1>2 DEF VisitRow, Goto, IInv, TypeOK
  <2>3. todo' = [todo EXCEPT ![c] = rest] /\ todo'[c] = rest
    BY <1>2 DEF VisitRow, IInv, TypeOK
  <2>4. CallInv(c) /\ req[c].op = "order" /\ p \in todo[c] /\ todo[c] \subseteq lines
    BY <1>2, <2>1 DEF IInv, CallInv, OpSteps, OrderSteps, LoopCurrent, NextRow
  <2>5. TypeOK'
    <3>1. [quote[c][p] EXCEPT !.price = price[p]] \in Quote
      <4>1. quote[c][p] \in Quote /\ price[p] \in Nat
        BY SalesStoreAssumption DEF IInv, TypeOK
      <4> QED
        BY <4>1 DEF Quote
    <3>2. quote' \in [Calls -> [Catalogue -> Quote]]
      BY <1>2, <3>1 DEF IInv, TypeOK
    <3>3. todo' \in [Calls -> SUBSET Catalogue]
      BY <2>3 DEF IInv, TypeOK
    <3> QED
      BY <1>2, <2>2, <3>2, <3>3 DEF IInv, TypeOK, Steps, OrderSteps
  <2>6. Lines(draft[c].items)' = lines
    BY <1>2 DEF Lines
  <2>7. CallInv(c)'
    <3>1. OpSteps(c)' /\ EditCurrent(c)'
      BY <1>2, <2>1, <2>2, <2>4 DEF CallInv, OpSteps, EditCurrent, InTransaction, OrderSteps
    <3>2. ReadsCurrent(c)'
      BY <1>2, <2>1, <2>2, <2>4, <2>6
      DEF CallInv, ReadsCurrent, Ordering, InTransaction, OnRecord
    <3>3. (LoopCurrent(c) /\ LocksInOrder(c))'
      BY <2>2, <2>3, <2>4, <2>6 DEF LoopCurrent, LocksInOrder
    <3>4. Validated(c)'
      BY <1>2, <2>1, <2>2, <2>3, <2>4, <2>6
      DEF CallInv, Validated, Ordering, InTransaction, InStock, StockStands
    <3> QED
      BY <3>1, <3>2, <3>3, <3>4 DEF CallInv
  <2>8. \A d \in Calls \ {c} : Local(d)' = Local(d)
    BY <1>2, <2>2, <2>3 DEF IInv, TypeOK, Local
  <2>9. Compatible(c)'
    <3>1. LockedRows(c)' = LockedRows(c) /\ SharedRows(c)' = SharedRows(c)
      BY <1>2, <2>1, <2>2, <2>6 DEF LockedRows, SharedRows
    <3> QED
      BY <1>2, <2>1, <2>8, <3>1, SameLocks DEF InTransaction
  <2> QED
    BY <1>2, <2>5, <2>7, <2>8, <2>9, LocalStep
<1> QED
  BY <1>1, <1>2 DEF PriceRow

\* The statements of createOrder after its loops only move on.
LEMMA MoveOnInv ==
    ASSUME IInv, NEW c \in Calls, NEW step \in {"insert", "decrement", "commit"},
           req[c].op = "order", pc[c] \in {"terms", "insert", "decrement"},
           step # "insert" \/ ~PriceChanged(c), Goto(c, step),
           pc[c] = "terms" => step = "insert",
           UNCHANGED <<opened, cart, stock, price, orders, req, draft, quote, todo, answer, supplied>>
    PROVE  IInv'
<1>1. pc' = [pc EXCEPT ![c] = step] /\ pc'[c] = step
  BY DEF Goto, IInv, TypeOK
<1>2. TypeOK'
  BY <1>1 DEF IInv, TypeOK, Steps, OrderSteps
<1>3. CallInv(c)
  BY DEF IInv
<1>4. CallInv(c)'
  <2>1. (OpSteps(c) /\ EditCurrent(c) /\ LoopCurrent(c) /\ LocksInOrder(c))'
    BY <1>1, <1>3 DEF CallInv, OpSteps, EditCurrent, LoopCurrent, LocksInOrder, InTransaction
  <2>2. ReadsCurrent(c)'
    BY <1>1, <1>3 DEF CallInv, ReadsCurrent, Ordering, InTransaction, OnRecord, Lines
  <2>3. Validated(c)'
    BY <1>1, <1>3 DEF CallInv, Validated, Ordering, InTransaction, InStock, Lines, PriceChanged
  <2> QED
    BY <2>1, <2>2, <2>3 DEF CallInv
<1>5. \A d \in Calls \ {c} : Local(d)' = Local(d)
  BY <1>1 DEF IInv, TypeOK, Local
<1>6. Compatible(c)'
  <2>1. LockedRows(c)' = LockedRows(c) /\ SharedRows(c)' = SharedRows(c)
    BY <1>1 DEF LockedRows, SharedRows, Lines
  <2> QED
    BY <1>1, <1>5, <2>1, SameLocks DEF InTransaction
<1> QED
  BY <1>2, <1>4, <1>5, <1>6, LocalStep

LEMMA CheckTermsInv ==
    ASSUME IInv, NEW c \in Calls, CheckTerms(c)
    PROVE  IInv'
<1>1. CASE Refuse(c)
  BY <1>1, RefuseInv
<1>2. CASE ~PriceChanged(c) /\ Goto(c, "insert") /\
           UNCHANGED <<opened, cart, stock, price, orders, req, draft, quote, todo, answer, supplied>>
  <2>1. pc[c] = "terms" /\ req[c].op = "order"
    BY DEF CheckTerms, IInv, CallInv, OpSteps, OrderSteps
  <2> QED
    BY <1>2, <2>1, MoveOnInv
<1> QED
  BY <1>1, <1>2 DEF CheckTerms

LEMMA InsertOrderInv ==
    ASSUME IInv, NEW c \in Calls, InsertOrder(c)
    PROVE  ~OnRecord(c) /\ IInv'
<1>1. pc[c] = "insert" /\ req[c].op = "order"
  BY DEF InsertOrder, IInv, CallInv, OpSteps, OrderSteps
<1>2. ~OnRecord(c)
  BY <1>1 DEF IInv, CallInv, ReadsCurrent, Ordering, InTransaction
<1>3. Goto(c, "decrement") /\
      UNCHANGED <<opened, cart, stock, price, orders, req, draft, quote, todo, answer, supplied>>
  BY <1>2 DEF InsertOrder
<1> QED
  BY <1>1, <1>2, <1>3, MoveOnInv

LEMMA DecrementStockInv ==
    ASSUME IInv, NEW c \in Calls, DecrementStock(c)
    PROVE  CanDecrement(c) /\ IInv'
<1>1. pc[c] = "decrement" /\ req[c].op = "order"
  BY DEF DecrementStock, IInv, CallInv, OpSteps, OrderSteps
<1>2. CanDecrement(c)
  BY <1>1 DEF IInv, CallInv, Validated, Ordering, InTransaction, InStock, CanDecrement
<1>3. Goto(c, "commit") /\
      UNCHANGED <<opened, cart, stock, price, orders, req, draft, quote, todo, answer, supplied>>
  BY <1>2 DEF DecrementStock
<1> QED
  BY <1>1, <1>2, <1>3, MoveOnInv

-----------------------------------------------------------------------------
\* Steps that change the store

\* A call that is not in a transaction has established nothing.
LEMMA OutsideTransaction ==
    ASSUME NEW c \in Calls, ~InTransaction(c)
    PROVE  /\ CallInv(c)
           /\ \A k \in Carts : ~HoldsCart(c, k)
           /\ LockedRows(c) = {} /\ SharedRows(c) = {}
BY DEF CallInv, OpSteps, EditCurrent, ReadsCurrent, LoopCurrent, LocksInOrder, Validated, InTransaction,
       Ordering, OrderSteps, HoldsCart, LockedRows, SharedRows

LEMMA CreateCartInv ==
    ASSUME IInv, NEW k \in Carts, CreateCart(k)
    PROVE  IInv'
<1>1. TypeOK'
  BY DEF IInv, TypeOK, CreateCart, callVars
<1>2. ASSUME NEW c \in Calls PROVE CallInv(c)'
  <2>1. CallInv(c)
    BY DEF IInv
  <2>2. OpSteps(c)'
    BY <2>1 DEF CallInv, OpSteps, CreateCart, callVars, InTransaction
  <2>3. (EditCurrent(c) /\ ReadsCurrent(c) /\ LoopCurrent(c) /\ LocksInOrder(c) /\ Validated(c))'
    BY <2>1 DEF CallInv, EditCurrent, ReadsCurrent, LoopCurrent, LocksInOrder, Validated, CreateCart, callVars,
       Canonical, Ordering, InTransaction, OnRecord, Lines, InStock, PriceChanged
  <2> QED
    BY <2>2, <2>3 DEF CallInv
<1>3. LocksExclusive'
  BY DEF IInv, LocksExclusive, HoldsCart, LockedRows, SharedRows, CreateCart, callVars, Lines
<1>4. (CartsCanonical /\ OrderKeys /\ OneOrderPerVersion /\ OrderMatchesCart)'
  BY DEF IInv, CartsCanonical, Canonical, OrderKeys, OneOrderPerVersion, OrderMatchesCart, CreateCart
<1> QED
  BY <1>1, <1>2, <1>3, <1>4 DEF IInv

LEMMA RepriceInv ==
    ASSUME IInv, NEW p \in Catalogue, Reprice(p)
    PROVE  IInv'
<1>1. TypeOK'
  BY DEF IInv, TypeOK, Reprice, callVars
<1>2. ASSUME NEW c \in Calls PROVE CallInv(c)'
  <2>1. CallInv(c) /\ Local(c)' = Local(c) /\ UNCHANGED <<opened, cart, stock, orders>>
    BY DEF IInv, Reprice, callVars, Local
  <2> QED
    BY <2>1, OtherCall
<1>3. LocksExclusive'
  BY DEF IInv, LocksExclusive, HoldsCart, LockedRows, SharedRows, Reprice, callVars, Lines
<1>4. (CartsCanonical /\ OrderKeys /\ OneOrderPerVersion /\ OrderMatchesCart)'
  BY DEF IInv, CartsCanonical, Canonical, OrderKeys, OneOrderPerVersion, OrderMatchesCart, Reprice
<1> QED
  BY <1>1, <1>2, <1>3, <1>4 DEF IInv

\* The lines a call has validated are rows it has locked.
LEMMA ValidatedRows ==
    ASSUME NEW d \in Calls, LoopCurrent(d), Ordering(d),
           pc[d] \in {"price", "terms", "insert", "decrement", "commit"}
    PROVE  LockedRows(d) = Lines(draft[d].items)
BY DEF LockedRows, Ordering

LEMMA ReseedInv ==
    ASSUME IInv, NEW p \in Catalogue, Reseed(p)
    PROVE  IInv'
<1>1. TypeOK'
  <2>1. SeedStock[p] \in Nat /\ stock[p] \in Nat /\ supplied[p] \in Int
    BY SalesStoreAssumption DEF IInv, TypeOK
  <2> QED
    BY <2>1 DEF IInv, TypeOK, Reseed, callVars
<1>2. \A q \in Catalogue \ {p} : stock'[q] = stock[q]
  BY DEF IInv, TypeOK, Reseed
<1>3. ASSUME NEW c \in Calls PROVE CallInv(c)'
  <2>1. CallInv(c)
    BY DEF IInv
  <2>2. OpSteps(c)'
    BY <2>1 DEF CallInv, OpSteps, Reseed, callVars, InTransaction
  <2>3. (EditCurrent(c) /\ ReadsCurrent(c) /\ LoopCurrent(c) /\ LocksInOrder(c))'
    BY <2>1 DEF CallInv, EditCurrent, ReadsCurrent, LoopCurrent, LocksInOrder, Reseed, callVars,
       Canonical, Ordering, InTransaction, OnRecord, Lines
  <2>4. Validated(c)'
    <3>1. CASE Ordering(c) /\ pc[c] \in {"price", "terms", "insert", "decrement", "commit"}
      <4>1. p \notin Lines(draft[c].items)
        BY <2>1, <3>1, ValidatedRows DEF Reseed, RowLocked, CallInv
      <4>2. \A q \in Lines(draft[c].items) : stock'[q] = stock[q]
        BY <1>2, <4>1 DEF Lines
      <4> QED
        BY <2>1, <4>2 DEF CallInv, Validated, Reseed, callVars, Ordering, InTransaction,
           InStock, PriceChanged, Lines
    <3>2. CASE ~(Ordering(c) /\ pc[c] \in {"price", "terms", "insert", "decrement", "commit"})
      BY <3>2 DEF Validated, Ordering, InTransaction, Reseed, callVars
    <3> QED
      BY <3>1, <3>2
  <2> QED
    BY <2>2, <2>3, <2>4 DEF CallInv
<1>4. LocksExclusive'
  BY DEF IInv, LocksExclusive, HoldsCart, LockedRows, SharedRows, Reseed, callVars, Lines
<1>5. (CartsCanonical /\ OrderKeys /\ OneOrderPerVersion /\ OrderMatchesCart)'
  BY DEF IInv, CartsCanonical, Canonical, OrderKeys, OneOrderPerVersion, OrderMatchesCart, Reseed
<1> QED
  BY <1>1, <1>3, <1>4, <1>5 DEF IInv

\* A call whose cart, rows and order are untouched keeps its locks and what it
\* has established, whatever else moves in the store.
LEMMA ApartCall ==
    ASSUME NEW d \in Calls, CallInv(d), Local(d)' = Local(d), UNCHANGED opened,
           InTransaction(d) => cart'[req[d].cart] = cart[req[d].cart],
           InTransaction(d) => (OnRecord(d)' <=> OnRecord(d)),
           \A p \in LockedRows(d) : stock'[p] = stock[p]
    PROVE  /\ CallInv(d)'
           /\ \A k \in Carts : HoldsCart(d, k)' <=> HoldsCart(d, k)
           /\ LockedRows(d)' = LockedRows(d)
           /\ SharedRows(d)' = SharedRows(d)
<1>1. OpSteps(d)'
  BY DEF CallInv, OpSteps, Local, InTransaction
<1>2. EditCurrent(d)'
  BY DEF CallInv, EditCurrent, Local, Canonical, InTransaction
<1>3. ReadsCurrent(d)'
  BY DEF CallInv, ReadsCurrent, Local, Ordering, InTransaction, Lines
<1>4. (LoopCurrent(d) /\ LocksInOrder(d))'
  BY DEF CallInv, LoopCurrent, LocksInOrder, Local, Lines
<1>5. Validated(d)'
  <2>1. CASE Ordering(d) /\ pc[d] \in {"price", "terms", "insert", "decrement", "commit"}
    <3>1. \A p \in Lines(draft[d].items) : stock'[p] = stock[p]
      BY <2>1, ValidatedRows DEF CallInv
    <3> QED
      BY <2>1, <3>1 DEF CallInv, Validated, Local, Ordering, InTransaction, Lines, InStock,
         PriceChanged
  <2>2. CASE ~(Ordering(d) /\ pc[d] \in {"price", "terms", "insert", "decrement", "commit"})
    BY <2>2 DEF Validated, Local, Ordering, InTransaction
  <2> QED
    BY <2>1, <2>2
<1>6. LockedRows(d)' = LockedRows(d)
  BY DEF LockedRows, Local, Lines
<1>7. SharedRows(d)' = SharedRows(d)
  BY DEF SharedRows, Local, InTransaction
<1>8. \A k \in Carts : HoldsCart(d, k)' <=> HoldsCart(d, k)
  BY DEF HoldsCart, Local
<1> QED
  BY <1>1, <1>2, <1>3, <1>4, <1>5, <1>6, <1>7, <1>8 DEF CallInv

\* What a COMMIT of call c has to preserve: c is left without locks, the other
\* calls stay apart from what it wrote.
LEMMA CommitStep ==
    ASSUME IInv, NEW c \in Calls, pc'[c] = "idle",
           \A d \in Calls \ {c} :
              /\ Local(d)' = Local(d)
              /\ InTransaction(d) => cart'[req[d].cart] = cart[req[d].cart]
              /\ InTransaction(d) => (OnRecord(d)' <=> OnRecord(d))
              /\ \A p \in LockedRows(d) : stock'[p] = stock[p],
           UNCHANGED opened
    PROVE  (\A d \in Calls : CallInv(d)') /\ LocksExclusive'
<1>1. \A d \in Calls \ {c} :
         /\ CallInv(d)'
         /\ \A k \in Carts : HoldsCart(d, k)' <=> HoldsCart(d, k)
         /\ LockedRows(d)' = LockedRows(d)
         /\ SharedRows(d)' = SharedRows(d)
  BY ApartCall DEF IInv
<1>2. /\ CallInv(c)'
      /\ \A k \in Carts : ~HoldsCart(c, k)'
      /\ LockedRows(c)' = {} /\ SharedRows(c)' = {}
  BY DEF CallInv, OpSteps, EditCurrent, ReadsCurrent, LoopCurrent, LocksInOrder, Validated, InTransaction,
         Ordering, OrderSteps, HoldsCart, LockedRows, SharedRows
<1>3. LocksExclusive'
  <2> SUFFICES ASSUME NEW a \in Calls, NEW b \in Calls, a # b
               PROVE  /\ \A k \in Carts : ~(HoldsCart(a, k)' /\ HoldsCart(b, k)')
                      /\ LockedRows(a)' \cap (LockedRows(b)' \cup SharedRows(b)') = {}
    BY DEF LocksExclusive
  <2>1. CASE a = c
    BY <2>1, <1>2
  <2>2. CASE b = c
    BY <2>2, <1>2
  <2>3. CASE a # c /\ b # c
    BY <2>3, <1>1 DEF IInv, LocksExclusive
  <2> QED
    BY <2>1, <2>2, <2>3
<1> QED
  BY <1>1, <1>2, <1>3

\* While a call is in its transaction, no other is in one on the same cart.
LEMMA CartsApart ==
    ASSUME IInv, NEW c \in Calls, InTransaction(c), NEW d \in Calls \ {c}, InTransaction(d)
    PROVE  req[d].cart # req[c].cart
BY CartLines DEF IInv, LocksExclusive, HoldsCart, InTransaction

LEMMA CommitCartInv ==
    ASSUME IInv, NEW c \in Calls, CommitCart(c)
    PROVE  IInv'
<1> DEFINE k == req[c].cart
           new == [version |-> cart[k].version + 1, items |-> draft[c].items]
<1>1. /\ req[c].op # "order" /\ pc[c] = "commit" /\ k \in Carts
      /\ cart' = [cart EXCEPT ![k] = new]
      /\ Finish(c, NoOrder)
      /\ UNCHANGED <<opened, stock, price, orders, supplied>>
  BY CartLines DEF CommitCart
<1>2. new \in Contents
  BY <1>1 DEF IInv, TypeOK, Contents
<1>3. TypeOK'
  <2>1. NoOrder \in Order \cup {NoOrder} /\ "idle" \in Steps
    BY DEF Steps
  <2>2. NoQuotes \in [Catalogue -> Quote]
    BY DEF NoQuotes, Quote
  <2>3. cart' \in [Carts -> Contents]
    BY <1>1, <1>2 DEF IInv, TypeOK
  <2> QED
    BY <1>1, <2>1, <2>2, <2>3, AnyRequestType, NoLinesType DEF IInv, TypeOK, Finish, Goto
<1>4. pc'[c] = "idle"
  BY <1>1 DEF IInv, TypeOK, Finish, Goto
<1>5. \A d \in Calls \ {c} : Local(d)' = Local(d)
  BY <1>1 DEF IInv, TypeOK, Finish, Goto, Local
<1>6. cart'[k] = new /\ \A j \in Carts \ {k} : cart'[j] = cart[j]
  BY <1>1 DEF IInv, TypeOK
<1>7. ASSUME NEW d \in Calls \ {c}
      PROVE  /\ InTransaction(d) => cart'[req[d].cart] = cart[req[d].cart]
             /\ OnRecord(d)' <=> OnRecord(d)
  <2>1. InTransaction(d) => req[d].cart # k
    BY <1>1, CartsApart DEF InTransaction
  <2> QED
    BY <1>1, <1>5, <1>6, <2>1, CartLines DEF OnRecord, Local
<1>8. (\A d \in Calls : CallInv(d)') /\ LocksExclusive'
  BY <1>1, <1>4, <1>5, <1>7, CommitStep
<1>9. CartsCanonical'
  BY <1>1, <1>6 DEF IInv, CallInv, EditCurrent, CartsCanonical, Canonical
<1>10. OrderMatchesCart'
  <2>1. cart[k].version \in Nat /\ \A o \in orders : o.version \in Nat /\ o.cart \in Carts
    BY <1>1 DEF IInv, TypeOK, Contents, Order
  <2>2. \A o \in orders : o.cart = k => o.version < new.version
    BY <2>1 DEF IInv, OrderMatchesCart
  <2> QED
    BY <1>1, <1>6, <2>1, <2>2 DEF IInv, OrderMatchesCart
<1>11. (OrderKeys /\ OneOrderPerVersion)'
  BY <1>1 DEF IInv, OrderKeys, OneOrderPerVersion
<1> QED
  BY <1>3, <1>8, <1>9, <1>10, <1>11 DEF IInv

\* An order about to commit is the one its cart stands for, and in stock.
LEMMA CommitsTheCart ==
    ASSUME IInv, NEW c \in Calls, CommitOrder(c)
    PROVE  /\ req[c].cart \in opened /\ req[c].cart \in Carts /\ NewOrder(c) \in Order
           /\ NewOrder(c).cart = req[c].cart
           /\ NewOrder(c).version = cart[req[c].cart].version
           /\ NewOrder(c).items = cart[req[c].cart].items
           /\ NewOrder(c).items = draft[c].items
           /\ Lines(NewOrder(c).items) # {}
           /\ NewOrder(c).key = IdempotencyKey(req[c].cart, NewOrder(c).version)
           /\ ~OnRecord(c)
           /\ \A p \in Catalogue : NewOrder(c).items[p].quantity <= stock[p]
<1> DEFINE k == req[c].cart
           lines == Lines(draft[c].items)
           o == NewOrder(c)
<1>1. /\ req[c].op = "order" /\ pc[c] = "commit" /\ k \in Carts
  BY CartLines DEF CommitOrder
<1>3. CallInv(c) /\ Ordering(c)
  BY <1>1 DEF IInv, Ordering, InTransaction
<1>4. /\ draft[c].version = cart[k].version /\ draft[c].items = cart[k].items
      /\ ~OnRecord(c) /\ ~PriceChanged(c) /\ lines # {}
      /\ \A p \in lines : InStock(c, p)
  BY <1>1, <1>3 DEF CallInv, ReadsCurrent, Validated
<1>5. draft[c].version \in Nat /\ draft[c].items \in [Catalogue -> Line]
  BY DEF IInv, TypeOK, Contents
<1>6. o.items = draft[c].items
  <2>1. o.items = [p \in Catalogue |->
                     IF p \in lines
                     THEN [quantity |-> draft[c].items[p].quantity, price |-> quote[c][p].price]
                     ELSE NoLine]
    BY DEF NewOrder
  <2>2. \A p \in lines : o.items[p] = draft[c].items[p]
    <3> TAKE p \in lines
    <3>1. draft[c].items[p] \in Line /\ draft[c].items[p].price = quote[c][p].price
      BY <1>4, <1>5 DEF PriceChanged, Lines
    <3> QED
      BY <2>1, <3>1 DEF Line, Lines
  <2>3. \A p \in Catalogue \ lines : o.items[p] = draft[c].items[p]
    <3> TAKE p \in Catalogue \ lines
    <3>1. draft[c].items[p].quantity = 0
      BY <1>5 DEF Lines, Line
    <3> QED
      BY <1>1, <1>4, <2>1, <3>1 DEF IInv, CartsCanonical, Canonical
  <2> QED
    BY <1>5, <2>1, <2>2, <2>3
<1>7. o \in Order
  <2>1. req[c].terms \in Terms
    BY DEF IInv, TypeOK, Request
  <2> QED
    BY <1>1, <1>5, <1>6, <2>1 DEF NewOrder, Order, IdempotencyKey
<1>8. \A p \in Catalogue : o.items[p].quantity <= stock[p]
  <2> TAKE p \in Catalogue
  <2>1. draft[c].items[p].quantity \in Nat /\ stock[p] \in Nat
    BY <1>5 DEF Line, IInv, TypeOK
  <2> QED
    BY <1>4, <1>6, <2>1 DEF Lines, InStock
<1>9. k \in opened
  BY <1>3 DEF CallInv, OpSteps, Ordering
<1>10. o.cart = k /\ o.version = draft[c].version /\ o.key = IdempotencyKey(k, draft[c].version)
  BY DEF NewOrder
<1> QED
  BY <1>1, <1>4, <1>6, <1>7, <1>8, <1>9, <1>10

LEMMA CommitOrderInv ==
    ASSUME IInv, NEW c \in Calls, CommitOrder(c)
    PROVE  IInv'
<1> DEFINE k == req[c].cart
           lines == Lines(draft[c].items)
           o == NewOrder(c)
<1>1. /\ req[c].op = "order" /\ pc[c] = "commit" /\ k \in Carts
      /\ orders' = orders \cup {o}
      /\ stock' = [p \in Catalogue |-> stock[p] - draft[c].items[p].quantity]
      /\ UNCHANGED <<opened, cart, price, supplied>>
  BY CartLines DEF CommitOrder
<1>2. PICK result \in {o, NoOrder} : Finish(c, result)
  BY DEF CommitOrder
<1>3. CallInv(c) /\ Ordering(c)
  BY <1>1 DEF IInv, Ordering, InTransaction
<1>4. /\ o.cart = k /\ o.version = cart[k].version /\ o.items = cart[k].items
      /\ o.items = draft[c].items /\ o.key = IdempotencyKey(k, o.version) /\ ~OnRecord(c)
      /\ \A p \in Catalogue : draft[c].items[p].quantity <= stock[p]
  BY CommitsTheCart
<1>5. draft[c].version \in Nat /\ draft[c].items \in [Catalogue -> Line]
  BY DEF IInv, TypeOK, Contents
<1>7. o \in Order
  BY CommitsTheCart
<1>8. TypeOK'
  <2>1. result \in Order \cup {NoOrder} /\ "idle" \in Steps
    BY <1>7 DEF Steps
  <2>2. NoQuotes \in [Catalogue -> Quote]
    BY DEF NoQuotes, Quote
  <2>3. stock' \in [Catalogue -> Nat]
    <3> SUFFICES ASSUME NEW p \in Catalogue
                 PROVE  stock[p] - draft[c].items[p].quantity \in Nat
      BY <1>1
    <3>1. stock[p] \in Nat /\ draft[c].items[p].quantity \in Nat
      BY <1>5 DEF IInv, TypeOK, Line
    <3> QED
      BY <1>4, <3>1
  <2>4. orders' \subseteq Order
    BY <1>1, <1>7 DEF IInv, TypeOK
  <2> QED
    BY <1>1, <1>2, <2>1, <2>2, <2>3, <2>4, AnyRequestType, NoLinesType
    DEF IInv, TypeOK, Finish, Goto
<1>9. pc'[c] = "idle"
  BY <1>2 DEF IInv, TypeOK, Finish, Goto
<1>10. \A d \in Calls \ {c} : Local(d)' = Local(d)
  BY <1>2 DEF IInv, TypeOK, Finish, Goto, Local
<1>11. ASSUME NEW d \in Calls \ {c}
       PROVE  /\ InTransaction(d) => (OnRecord(d)' <=> OnRecord(d))
              /\ \A p \in LockedRows(d) : stock'[p] = stock[p]
  <2>1. ASSUME InTransaction(d) PROVE OnRecord(d)' <=> OnRecord(d)
    <3>1. req[d].cart # k
      BY <1>1, <2>1, CartsApart DEF InTransaction
    <3> QED
      BY <1>1, <1>10, <3>1 DEF OnRecord, Local, NewOrder, IdempotencyKey
  <2>2. LockedRows(c) = lines
    BY <1>1, <1>3, ValidatedRows DEF CallInv
  <2>3. LockedRows(d) \cap lines = {} /\ LockedRows(d) \subseteq Catalogue
    BY <2>2 DEF IInv, LocksExclusive, LockedRows, Lines
  <2>4. \A p \in Catalogue \ lines : draft[c].items[p].quantity = 0 /\ stock[p] \in Nat
    BY <1>5 DEF Lines, Line, IInv, TypeOK
  <2> QED
    BY <1>1, <2>1, <2>3, <2>4
<1>12. (\A d \in Calls : CallInv(d)') /\ LocksExclusive'
  BY <1>1, <1>9, <1>10, <1>11, CommitStep
<1>14. (CartsCanonical /\ OrderKeys)'
  BY <1>1, <1>4 DEF IInv, CartsCanonical, Canonical, OrderKeys
<1>15. OneOrderPerVersion'
  <2>1. \A prior \in orders : prior.key # o.key
    BY <1>4 DEF OnRecord, NewOrder
  <2>2. \A prior \in orders : ~(prior.cart = o.cart /\ prior.version = o.version)
    BY <1>4, <2>1 DEF IInv, OrderKeys
  <2> QED
    BY <1>1, <2>2 DEF IInv, OneOrderPerVersion
<1>16. OrderMatchesCart'
  <2>1. o.version <= cart[o.cart].version /\ o.items = cart[o.cart].items
    BY <1>1, <1>4 DEF IInv, TypeOK, Contents
  <2> HIDE DEF o
  <2> QED
    BY <1>1, <2>1 DEF IInv, OrderMatchesCart
<1> QED
  BY <1>8, <1>12, <1>14, <1>15, <1>16 DEF IInv

-----------------------------------------------------------------------------
\* The theorems

LEMMA InitInv == Init => IInv
<1> SUFFICES ASSUME Init PROVE IInv
  OBVIOUS
<1>1. TypeOK
  <2>1. NoQuotes \in [Catalogue -> Quote] /\ "idle" \in Steps
    BY DEF NoQuotes, Quote, Steps
  <2>2. SeedStock \in [Catalogue -> Int]
    BY SalesStoreAssumption
  <2> QED
    BY <2>1, <2>2, SalesStoreAssumption, AnyRequestType, NoLinesType DEF Init, TypeOK
<1>2. \A c \in Calls : ~InTransaction(c)
  BY DEF Init, InTransaction
<1>3. (\A c \in Calls : CallInv(c)) /\ LocksExclusive
  BY <1>2, OutsideTransaction DEF LocksExclusive
<1>4. CartsCanonical
  BY DEF Init, CartsCanonical, Canonical, EmptyCart, NoLines
<1>5. OrderKeys /\ OneOrderPerVersion /\ OrderMatchesCart
  BY DEF Init, OrderKeys, OneOrderPerVersion, OrderMatchesCart
<1> QED
  BY <1>1, <1>3, <1>4, <1>5 DEF IInv

LEMMA StutterInv == IInv /\ UNCHANGED vars => IInv'
<1> SUFFICES ASSUME IInv, UNCHANGED vars PROVE IInv'
  OBVIOUS
<1>1. TypeOK'
  BY DEF IInv, TypeOK, vars
<1>2. \A c \in Calls : CallInv(c)'
  <2> TAKE c \in Calls
  <2>1. CallInv(c) /\ Local(c)' = Local(c) /\ UNCHANGED <<opened, cart, stock, orders>>
    BY DEF IInv, vars, Local
  <2> QED
    BY <2>1, OtherCall
<1>3. LocksExclusive'
  BY DEF IInv, LocksExclusive, HoldsCart, LockedRows, SharedRows, Lines, vars
<1>4. (CartsCanonical /\ OrderKeys /\ OneOrderPerVersion /\ OrderMatchesCart)'
  BY DEF IInv, CartsCanonical, Canonical, OrderKeys, OneOrderPerVersion, OrderMatchesCart, vars
<1> QED
  BY <1>1, <1>2, <1>3, <1>4 DEF IInv

LEMMA StepInv ==
    ASSUME IInv, NEW c \in Calls, Step(c)
    PROVE  IInv'
<1>1. CASE LockCart(c)
  BY <1>1, LockCartInv
<1>2. CASE ReadPricing(c)
  BY <1>2, ReadPricingInv
<1>3. CASE AddItem(c)
  BY <1>3, AddItemInv
<1>4. CASE UpdateItem(c)
  BY <1>4, UpdateItemInv
<1>5. CASE RemoveItem(c)
  BY <1>5, RemoveItemInv
<1>6. CASE CommitCart(c)
  BY <1>6, CommitCartInv
<1>7. CASE CheckReplay(c)
  BY <1>7, CheckReplayInv
<1>8. CASE ReadItems(c)
  BY <1>8, ReadItemsInv
<1>9. CASE LockRow(c)
  BY <1>9, LockRowInv
<1>10. CASE PriceRow(c)
  BY <1>10, PriceRowInv
<1>11. CASE CheckTerms(c)
  BY <1>11, CheckTermsInv
<1>12. CASE InsertOrder(c)
  BY <1>12, InsertOrderInv
<1>13. CASE DecrementStock(c)
  BY <1>13, DecrementStockInv
<1>14. CASE CommitOrder(c)
  BY <1>14, CommitOrderInv
<1> QED
  BY <1>1, <1>2, <1>3, <1>4, <1>5, <1>6, <1>7, <1>8, <1>9, <1>10, <1>11, <1>12, <1>13, <1>14
  DEF Step, CartStep, OrderStep

LEMMA NextInv == IInv /\ [Next]_vars => IInv'
<1> SUFFICES ASSUME IInv, [Next]_vars PROVE IInv'
  OBVIOUS
<1>1. ASSUME NEW c \in Calls, Step(c) PROVE IInv'
  BY <1>1, StepInv
<1>2. ASSUME NEW c \in Calls, Fail(c) PROVE IInv'
  BY <1>2, RefuseInv DEF Fail, Refuse
<1>3. ASSUME NEW c \in Calls, NEW r \in Requests, Begin(c, r) PROVE IInv'
  BY <1>3, BeginInv DEF Requests
<1>4. ASSUME NEW k \in Carts, CreateCart(k) PROVE IInv'
  BY <1>4, CreateCartInv
<1>5. ASSUME NEW p \in Catalogue, Reprice(p) PROVE IInv'
  BY <1>5, RepriceInv
<1>6. ASSUME NEW p \in Catalogue, Reseed(p) PROVE IInv'
  BY <1>6, ReseedInv
<1>7. CASE UNCHANGED vars
  BY <1>7, StutterInv
<1> QED
  BY <1>1, <1>2, <1>3, <1>4, <1>5, <1>6, <1>7 DEF Next, Environment

\* The inductive invariant holds in every behaviour of the two services.
THEOREM Inductive == Spec => []IInv
BY InitInv, NextInv, PTL DEF Spec

\* Every variable keeps its type; in particular no stock is ever negative,
\* whatever number of connections order the last units (order.ts:478-491).
THEOREM TypeCorrect == Spec => []TypeOK
<1>1. IInv => TypeOK
  BY DEF IInv
<1> QED
  BY <1>1, Inductive, PTL

\* No two transactions hold one row in conflicting modes: the discipline of
\* cart.ts:89-103 and order.ts:269-332.
THEOREM ExclusiveLocks == Spec => []LocksExclusive
<1>1. IInv => LocksExclusive
  BY DEF IInv
<1> QED
  BY <1>1, Inductive, PTL

\* However often a confirmation is repeated, retried after a lost answer or
\* raced, a cart version is ordered at most once (order.ts:157-166).
THEOREM OrderedOnce == Spec => []OneOrderPerVersion
<1>1. IInv => OneOrderPerVersion
  BY DEF IInv
<1> QED
  BY <1>1, Inductive, PTL

\* An order says what the cart said at the version it was placed for, and no
\* cart falls back behind an ordered version.
THEOREM OrdersMatchCarts == Spec => []OrderMatchesCart
<1>1. IInv => OrderMatchesCart
  BY DEF IInv
<1> QED
  BY <1>1, Inductive, PTL

\* The ON CONFLICT branch of createOrder is dead code under the cart lock
\* (order.ts:424-431).
THEOREM NoConflict == Spec => []ConflictUnreachable
<1>1. IInv => ConflictUnreachable
  BY DEF IInv, CallInv, ReadsCurrent, Ordering, InTransaction, ConflictUnreachable
<1> QED
  BY <1>1, Inductive, PTL

\* The guarded UPDATE of products always finds the units the validation saw
\* (order.ts:478-491).
THEOREM UnitsRemain == Spec => []DecrementNeverFails
<1>1. IInv => DecrementNeverFails
  BY DEF IInv, CallInv, OpSteps, OrderSteps, Validated, Ordering, InTransaction, InStock,
         CanDecrement, DecrementNeverFails
<1> QED
  BY <1>1, Inductive, PTL

-----------------------------------------------------------------------------
\* Finite sets.  The induction theorems of the library take an operator and cannot
\* be cited; what they would give is read off a smallest counterexample.

\* A nonempty collection of subsets of a finite set has a smallest member.
LEMMA Smallest ==
    ASSUME NEW S, IsFiniteSet(S), NEW B \in SUBSET SUBSET S, B # {}
    PROVE  \E t \in B : \A u \in B : ~(u \subseteq t /\ u # t)
<1> DEFINE R == StrictSubsetOrdering(S)
<1>1. IsWellFoundedOn(R, SUBSET S)
  BY FS_StrictSubsetOrderingWellFounded, FS_FiniteSubsetsOfFinite
<1>2. PICK t \in B : \A u \in B : <<u, t>> \notin R
  <2> HIDE DEF R
  <2> QED
    BY <1>1, WFMin, Zenon
<1>3. ASSUME NEW u \in B, u \subseteq t, u # t PROVE FALSE
  <2>1. <<u, t>> \in R
    BY <1>3 DEF StrictSubsetOrdering
  <2> QED
    BY <1>2, <2>1
<1> QED
  BY <1>3

-----------------------------------------------------------------------------
\* Waiting

\* The products from a call's next row on: it shrinks as the call advances.
Ahead(c) == {q \in Catalogue : \E r \in todo[c] : r <= q}

\* Of two calls that lock rows, one waits only for a call that is further on.
LEMMA WaitsForFurther ==
    ASSUME IInv, NEW c \in Calls, NEW d \in Calls, pc[c] = "lockRows", pc[d] = "lockRows",
           NEW p \in LockedRows(d), NextRow(c, p)
    PROVE  Ahead(d) \subseteq Ahead(c) /\ Ahead(d) # Ahead(c)
<1>1. p \in Lines(draft[d].items) \ todo[d]
  BY DEF LockedRows
<1>2. \A r \in todo[d] : p < r
  BY <1>1 DEF IInv, CallInv, LocksInOrder
<1>3. p \in Catalogue /\ p \in todo[c] /\ todo[d] \subseteq Catalogue /\ Catalogue \subseteq Nat
  BY <1>1, SalesStoreAssumption DEF Lines, NextRow, IInv, TypeOK
<1>4. p \in Ahead(c)
  BY <1>3 DEF Ahead
<1>5. p \notin Ahead(d)
  <2> SUFFICES ASSUME NEW r \in todo[d], r <= p PROVE FALSE
    BY DEF Ahead
  <2>1. p < r /\ p \in Nat /\ r \in Nat
    BY <1>2, <1>3
  <2> QED
    BY <2>1
<1>6. ASSUME NEW q \in Ahead(d) PROVE q \in Ahead(c)
  <2>1. PICK r \in todo[d] : r <= q
    BY DEF Ahead
  <2>2. p < r /\ p \in Nat /\ r \in Nat /\ q \in Nat /\ q \in Catalogue
    BY <1>2, <1>3 DEF Ahead
  <2>3. p <= q
    BY <2>1, <2>2
  <2> QED
    BY <1>3, <2>2, <2>3 DEF Ahead
<1> QED
  BY <1>4, <1>5, <1>6

\* Among calls that lock rows one is furthest on.
LEMMA FurthestOn ==
    ASSUME NEW S \in SUBSET Calls, S # {}
    PROVE  \E c \in S : \A d \in S : ~(Ahead(d) \subseteq Ahead(c) /\ Ahead(d) # Ahead(c))
<1> DEFINE T == {Ahead(c) : c \in S}
<1>1. T \in SUBSET SUBSET Catalogue /\ T # {}
  BY DEF Ahead
<1>2. IsFiniteSet(Catalogue)
  BY SalesStoreAssumption
<1>3. PICK x \in T : \A y \in T : ~(y \subseteq x /\ y # x)
  <2> HIDE DEF T
  <2> QED
    BY <1>1, <1>2, Smallest
<1>4. PICK c \in S : x = Ahead(c)
  OBVIOUS
<1> QED
  BY <1>3, <1>4

\* In a state of the inductive invariant every set of calls has one that waits for
\* none of the others: the furthest on of those that lock rows, else one that adds
\* a line, else any that waits for a cart.
LEMMA SomeCallRuns ==
    ASSUME IInv, NEW S \in SUBSET Calls, S # {}
    PROVE  \E c \in S : WaitsFor(c) \cap S = {}
<1> DEFINE L == {c \in S : pc[c] = "lockRows"}
<1> SUFFICES ASSUME \A c \in S : pc[c] \in {"lockCart", "lockRows"} \/
                                  (pc[c] = "write" /\ req[c].op = "add")
             PROVE  \E c \in S : WaitsFor(c) \cap S = {}
  BY DEF WaitsFor
<1>1. \A d \in S : d \notin L => LockedRows(d) = {}
  BY DEF LockedRows
<1>2. \A d \in S : SharedRows(d) = {}
  BY DEF SharedRows
<1>3. CASE L # {}
  <2>1. PICK c \in L : \A d \in L : ~(Ahead(d) \subseteq Ahead(c) /\ Ahead(d) # Ahead(c))
    <3>1. L \in SUBSET Calls
      OBVIOUS
    <3> HIDE DEF L
    <3> QED
      BY <1>3, <3>1, FurthestOn
  <2>2. ASSUME NEW d \in S, d \in WaitsFor(c) PROVE FALSE
    <3>1. PICK p \in LockedRows(d) \cup SharedRows(d) : NextRow(c, p)
      BY <2>2 DEF WaitsFor
    <3>2. p \in LockedRows(d) /\ d \in L
      BY <1>1, <1>2, <3>1
    <3> QED
      BY <2>1, <3>1, <3>2, WaitsForFurther
  <2> QED
    BY <2>2
<1>4. ASSUME L = {}, NEW c \in S, pc[c] = "write" PROVE WaitsFor(c) \cap S = {}
  BY <1>1, <1>4 DEF WaitsFor
<1>5. ASSUME L = {}, NEW c \in S, \A d \in S : pc[d] = "lockCart" PROVE WaitsFor(c) \cap S = {}
  BY <1>5 DEF WaitsFor, HoldsCart
<1> QED
  BY <1>3, <1>4, <1>5

\* No set of calls waits in a circle: createOrder locks its products in the order
\* of their refs (order.ts:321-327), and whoever waits for a cart or for the
\* foreign key of a line holds no product.
THEOREM NoCircleOfWaits == Spec => []NoWaitCycle
<1>1. IInv => NoWaitCycle
  BY SomeCallRuns DEF NoWaitCycle
<1> QED
  BY <1>1, Inductive, PTL

-----------------------------------------------------------------------------
\* Sums over the orders

Units(p, o) == o.items[p].quantity
First(s) == CHOOSE o \in s : TRUE

\* The function on the subsets of S that MapThenSumSet chooses.
Sums(p, S, g) ==
    g = [s \in SUBSET S |-> IF s = {} THEN 0 ELSE Units(p, First(s)) + g[s \ {First(s)}]]

SoldIn(p, S) == MapThenSumSet(LAMBDA o : o.items[p].quantity, S)

LEMMA SoldInChooses == ASSUME NEW p, NEW S PROVE SoldIn(p, S) = (CHOOSE g : Sums(p, S, g))[S]
BY DEF SoldIn, MapThenSumSet, MapThenFoldSet, Sums, Units, First

LEMMA SumsUnfold ==
    ASSUME NEW p, NEW S, NEW g, Sums(p, S, g), NEW s \in SUBSET S
    PROVE  /\ s = {} => g[s] = 0
           /\ s # {} => /\ First(s) \in s
                        /\ g[s] = Units(p, First(s)) + g[s \ {First(s)}]
<1>1. g[s] = IF s = {} THEN 0 ELSE Units(p, First(s)) + g[s \ {First(s)}]
  BY Zenon DEF Sums
<1>2. s # {} => First(s) \in s
  BY DEF First
<1> QED
  BY <1>1, <1>2

\* Two such functions agree wherever both are defined.
LEMMA SumsAgree ==
    ASSUME NEW p, NEW U, NEW V, NEW g, NEW h, Sums(p, U, g), Sums(p, V, h),
           NEW s, IsFiniteSet(s), s \subseteq U, s \subseteq V
    PROVE  g[s] = h[s]
<1> DEFINE B == {t \in SUBSET s : g[t] # h[t]}
<1> SUFFICES ASSUME B # {} PROVE FALSE
  OBVIOUS
<1>1. PICK t \in B : \A u \in B : ~(u \subseteq t /\ u # t)
  <2> HIDE DEF B
  <2>1. B \in SUBSET SUBSET s
    BY DEF B
  <2> QED
    BY <2>1, Smallest
<1>2. t \in SUBSET U /\ t \in SUBSET V
  OBVIOUS
<1>3. t # {}
  BY <1>2, SumsUnfold
<1> DEFINE u == t \ {First(t)}
<1>4. First(t) \in t /\ g[t] = Units(p, First(t)) + g[u] /\ h[t] = Units(p, First(t)) + h[u]
  BY <1>2, <1>3, SumsUnfold
<1>5. g[u] = h[u]
  BY <1>1, <1>4
<1> QED
  BY <1>4, <1>5

LEMMA SumsExist ==
    ASSUME NEW p, NEW S, IsFiniteSet(S)
    PROVE  \E g : Sums(p, S, g)
<1> DEFINE B == {t \in SUBSET S : ~\E g : Sums(p, t, g)}
<1> SUFFICES ASSUME B # {} PROVE FALSE
  OBVIOUS
<1>1. PICK t \in B : \A u \in B : ~(u \subseteq t /\ u # t)
  <2> HIDE DEF B
  <2>1. B \in SUBSET SUBSET S
    BY DEF B
  <2> QED
    BY <2>1, Smallest
<1> DEFINE G(u) == CHOOSE g : Sums(p, u, g)
           rest(u) == u \ {First(u)}
           g == [u \in SUBSET t |->
                    IF u = {} THEN 0
                    ELSE IF u = t THEN Units(p, First(t)) + G(rest(t))[rest(t)]
                    ELSE G(u)[u]]
<1>2. ASSUME NEW u \in SUBSET t, u # t PROVE Sums(p, u, G(u))
  <2>1. u \in SUBSET S /\ u \notin B
    BY <1>1, <1>2
  <2>2. \E f : Sums(p, u, f)
    BY <2>1
  <2> QED
    BY <2>2
<1>3. ASSUME NEW u \in SUBSET t, u # {}
      PROVE  First(u) \in u /\ rest(u) \in SUBSET t /\ rest(u) # t /\ IsFiniteSet(rest(u))
  <2>1. First(u) \in u
    BY <1>3 DEF First
  <2>2. rest(u) \in SUBSET S
    OBVIOUS
  <2> QED
    BY <2>1, <2>2, FS_Subset
<1>4. ASSUME NEW u \in SUBSET t, u # {}
      PROVE  g[u] = Units(p, First(u)) + g[rest(u)]
  <2>1. g[rest(u)] = G(rest(u))[rest(u)]
    <3>1. CASE rest(u) = {}
      <4>1. Sums(p, {}, G({}))
        BY <1>2, <1>3, <1>4, <3>1
      <4>2. G({})[{}] = 0
        <5> HIDE DEF G
        <5> QED
          BY <4>1, SumsUnfold
      <4> QED
        BY <3>1, <4>2
    <3>2. CASE rest(u) # {}
      <4> HIDE DEF G, rest
      <4> QED
        BY <1>3, <1>4, <3>2
    <3> QED
      BY <3>1, <3>2
  <2>2. CASE u = t
    <3> HIDE DEF G, rest
    <3> QED
      BY <1>4, <2>1, <2>2
  <2>3. CASE u # t
    <3>1. Sums(p, u, G(u)) /\ Sums(p, rest(u), G(rest(u)))
      BY <1>2, <1>3, <1>4, <2>3
    <3>2. G(u)[u] = Units(p, First(u)) + G(u)[rest(u)]
      <4> HIDE DEF G
      <4> QED
        BY <1>4, <3>1, SumsUnfold
    <3>3. G(u)[rest(u)] = G(rest(u))[rest(u)]
      <4>1. rest(u) \subseteq u /\ rest(u) \subseteq rest(u) /\ IsFiniteSet(rest(u))
        BY <1>3, <1>4
      <4> HIDE DEF G, rest
      <4> QED
        BY <3>1, <4>1, SumsAgree
    <3>4. g[u] = G(u)[u]
      <4> HIDE DEF G
      <4> QED
        BY <1>4, <2>3
    <3> HIDE DEF G, g, rest
    <3> QED
      BY <2>1, <3>2, <3>3, <3>4
  <2> QED
    BY <2>2, <2>3
<1>5. g = [u \in SUBSET t |-> IF u = {} THEN 0 ELSE Units(p, First(u)) + g[rest(u)]]
  <2>1. \A u \in SUBSET t : u = {} => g[u] = 0
    OBVIOUS
  <2>2. \E f : g = [u \in SUBSET t |-> f[u]]
    <3>1. g = [u \in SUBSET t |-> g[u]]
      OBVIOUS
    <3> HIDE DEF g
    <3> QED
      BY <3>1
  <2> HIDE DEF g, rest
  <2> QED
    BY <1>4, <2>1, <2>2
<1>6. Sums(p, t, g)
  <2> HIDE DEF g
  <2> QED
    BY <1>5 DEF Sums
<1> QED
  <2> HIDE DEF g
  <2> QED
    BY <1>6

LEMMA SoldInFirst ==
    ASSUME NEW p, NEW S, IsFiniteSet(S)
    PROVE  /\ S = {} => SoldIn(p, S) = 0
           /\ S # {} => /\ First(S) \in S
                        /\ SoldIn(p, S) = Units(p, First(S)) + SoldIn(p, S \ {First(S)})
<1> DEFINE G(T) == CHOOSE g : Sums(p, T, g)
           rest == S \ {First(S)}
<1>1. ASSUME NEW T \in SUBSET S PROVE IsFiniteSet(T) /\ Sums(p, T, G(T)) /\ SoldIn(p, T) = G(T)[T]
  <2>1. IsFiniteSet(T)
    BY FS_Subset
  <2>2. PICK g : Sums(p, T, g)
    BY <2>1, SumsExist
  <2>3. Sums(p, T, G(T))
    BY <2>2
  <2> QED
    BY <2>1, <2>3, SoldInChooses
<1>2. Sums(p, S, G(S)) /\ Sums(p, rest, G(rest)) /\ IsFiniteSet(rest)
      /\ SoldIn(p, S) = G(S)[S] /\ SoldIn(p, rest) = G(rest)[rest]
  BY <1>1
<1> HIDE DEF G
<1>3. S = {} => SoldIn(p, S) = 0
  BY <1>2, SumsUnfold
<1>4. ASSUME S # {}
      PROVE  First(S) \in S /\ SoldIn(p, S) = Units(p, First(S)) + G(S)[rest]
  <2>1. PICK g : g = G(S)
    OBVIOUS
  <2>2. Sums(p, S, g) /\ S \in SUBSET S
    BY <1>2, <2>1
  <2>3. First(S) \in S /\ g[S] = Units(p, First(S)) + g[S \ {First(S)}]
    BY <1>4, <2>2, SumsUnfold
  <2> QED
    BY <1>2, <2>1, <2>3
<1>5. G(S)[rest] = G(rest)[rest]
  <2>1. rest \subseteq S /\ rest \subseteq rest
    OBVIOUS
  <2> HIDE DEF rest
  <2> QED
    BY <1>2, <2>1, SumsAgree
<1> QED
  BY <1>2, <1>3, <1>4, <1>5

\* The units of a product on a finite set of orders are a number, ...
LEMMA SoldInType ==
    ASSUME NEW p, NEW S, IsFiniteSet(S), \A o \in S : Units(p, o) \in Nat
    PROVE  SoldIn(p, S) \in Nat
<1> DEFINE B == {t \in SUBSET S : SoldIn(p, t) \notin Nat}
<1> SUFFICES ASSUME B # {} PROVE FALSE
  OBVIOUS
<1>1. PICK t \in B : \A u \in B : ~(u \subseteq t /\ u # t)
  <2> HIDE DEF B
  <2>1. B \in SUBSET SUBSET S
    BY DEF B
  <2> QED
    BY <2>1, Smallest
<1> DEFINE u == t \ {First(t)}
<1>2. IsFiniteSet(t)
  BY FS_Subset
<1>3. t # {} /\ First(t) \in t /\ SoldIn(p, t) = Units(p, First(t)) + SoldIn(p, u)
  BY <1>2, SoldInFirst
<1>4. SoldIn(p, u) \in Nat
  BY <1>1, <1>3
<1>5. Units(p, First(t)) \in Nat
  BY <1>3
<1> QED
  BY <1>3, <1>4, <1>5

\* ... the same whichever order is counted last.
LEMMA SoldInRemove ==
    ASSUME NEW p, NEW S, IsFiniteSet(S), \A o \in S : Units(p, o) \in Nat, NEW x \in S
    PROVE  SoldIn(p, S) = Units(p, x) + SoldIn(p, S \ {x})
<1> DEFINE B == {t \in SUBSET S : \E y \in t : SoldIn(p, t) # Units(p, y) + SoldIn(p, t \ {y})}
<1> SUFFICES ASSUME B # {} PROVE FALSE
  OBVIOUS
<1>1. PICK t \in B : \A u \in B : ~(u \subseteq t /\ u # t)
  <2> HIDE DEF B
  <2>1. B \in SUBSET SUBSET S
    BY DEF B
  <2> QED
    BY <2>1, Smallest
<1>2. PICK y \in t : SoldIn(p, t) # Units(p, y) + SoldIn(p, t \ {y})
  OBVIOUS
<1> DEFINE f == First(t)
           both == t \ {f, y}
<1>3. ASSUME NEW T \in SUBSET S PROVE IsFiniteSet(T) /\ SoldIn(p, T) \in Nat
  <2>1. IsFiniteSet(T)
    BY FS_Subset
  <2> QED
    BY <2>1, SoldInType
<1>4. f \in t /\ SoldIn(p, t) = Units(p, f) + SoldIn(p, t \ {f})
  BY <1>3, SoldInFirst
<1>5. f # y
  BY <1>2, <1>4
<1>6. t \ {f} \notin B /\ t \ {y} \notin B
  BY <1>1, <1>4
<1>7. SoldIn(p, t \ {f}) = Units(p, y) + SoldIn(p, both)
  <2>1. y \in t \ {f} /\ (t \ {f}) \ {y} = both
    BY <1>5
  <2> QED
    BY <1>6, <2>1
<1>8. SoldIn(p, t \ {y}) = Units(p, f) + SoldIn(p, both)
  <2>1. f \in t \ {y} /\ (t \ {y}) \ {f} = both
    BY <1>4, <1>5
  <2> QED
    BY <1>6, <2>1
<1>9. SoldIn(p, both) \in Nat /\ Units(p, f) \in Nat /\ Units(p, y) \in Nat
  BY <1>3, <1>4
<1> QED
  BY <1>2, <1>4, <1>7, <1>8, <1>9

\* An order more sells its units and no others.
LEMMA SoldInAdd ==
    ASSUME NEW p, NEW S, IsFiniteSet(S), NEW x, x \notin S,
           \A o \in S \cup {x} : Units(p, o) \in Nat
    PROVE  SoldIn(p, S \cup {x}) = Units(p, x) + SoldIn(p, S)
<1> DEFINE T == S \cup {x}
<1>1. IsFiniteSet(T) /\ T \ {x} = S /\ x \in T
  BY FS_AddElement
<1>2. SoldIn(p, T) = Units(p, x) + SoldIn(p, T \ {x})
  <2>1. \A o \in T : Units(p, o) \in Nat
    OBVIOUS
  <2> HIDE DEF T
  <2> QED
    BY <1>1, <2>1, SoldInRemove
<1> QED
  BY <1>1, <1>2

LEMMA SoldNow ==
    ASSUME NEW p
    PROVE  Sold(p) = SoldIn(p, orders) /\ Sold(p)' = SoldIn(p, orders')
BY DEF Sold, SoldIn, MapThenSumSet, MapThenFoldSet

LEMMA OrderUnits == ASSUME NEW o \in Order, NEW p \in Catalogue PROVE Units(p, o) \in Nat
BY DEF Order, Line, Units

\* Only finitely many orders are ever on record: what StockConserved sums up.
StockInv == IsFiniteSet(orders) /\ StockConserved

LEMMA CommitOrderConserves ==
    ASSUME IInv, StockInv, NEW c \in Calls, CommitOrder(c)
    PROVE  StockInv'
<1> DEFINE o == NewOrder(c)
<1>1. /\ orders' = orders \cup {o}
      /\ stock' = [p \in Catalogue |-> stock[p] - draft[c].items[p].quantity]
      /\ UNCHANGED supplied
  BY DEF CommitOrder
<1>2. o \in Order /\ o.items = draft[c].items /\ o.key = IdempotencyKey(req[c].cart, o.version)
      /\ ~OnRecord(c)
  BY CommitsTheCart
<1>3. o \notin orders
  BY <1>2 DEF OnRecord, NewOrder
<1>4. IsFiniteSet(orders')
  BY <1>1, FS_AddElement DEF StockInv
<1>5. ASSUME NEW p \in Catalogue PROVE stock'[p] + Sold(p)' = supplied'[p]
  <2>1. \A x \in orders \cup {o} : Units(p, x) \in Nat
    BY <1>2, OrderUnits DEF IInv, TypeOK
  <2>2. Sold(p) = SoldIn(p, orders) /\ Sold(p)' = SoldIn(p, orders \cup {o})
    BY <1>1, SoldNow
  <2>3. Sold(p)' = Units(p, o) + Sold(p)
    <3> HIDE DEF o
    <3> QED
      BY <1>3, <2>1, <2>2, SoldInAdd DEF StockInv
  <2>4. stock'[p] = stock[p] - Units(p, o)
    BY <1>1, <1>2 DEF Units
  <2>5. stock[p] \in Nat /\ Units(p, o) \in Nat /\ Sold(p) \in Nat
    BY <2>1, <2>2, SoldInType DEF StockInv, IInv, TypeOK
  <2>6. stock[p] + Sold(p) = supplied[p]
    BY DEF StockInv, StockConserved
  <2> QED
    BY <1>1, <2>3, <2>4, <2>5, <2>6
<1> QED
  BY <1>4, <1>5 DEF StockInv, StockConserved

LEMMA ReseedConserves ==
    ASSUME IInv, StockInv, NEW p \in Catalogue, Reseed(p)
    PROVE  StockInv'
<1>1. orders' = orders /\ stock' = [stock EXCEPT ![p] = SeedStock[p]]
      /\ supplied' = [supplied EXCEPT ![p] = @ + (SeedStock[p] - stock[p])]
  BY DEF Reseed
<1>2. ASSUME NEW q \in Catalogue PROVE stock'[q] + Sold(q)' = supplied'[q]
  <2>1. Sold(q)' = Sold(q)
    BY <1>1, SoldNow
  <2>2. /\ Sold(q) \in Nat /\ stock[q] \in Nat /\ supplied[q] \in Int /\ SeedStock[q] \in Nat
    <3>1. \A x \in orders : Units(q, x) \in Nat
      BY OrderUnits DEF IInv, TypeOK
    <3> QED
      BY <3>1, SoldNow, SoldInType, SalesStoreAssumption DEF StockInv, IInv, TypeOK
  <2>3. stock[q] + Sold(q) = supplied[q]
    BY DEF StockInv, StockConserved
  <2>4. stock'[q] = (IF q = p THEN SeedStock[q] ELSE stock[q])
        /\ supplied'[q] = (IF q = p THEN supplied[q] + (SeedStock[q] - stock[q]) ELSE supplied[q])
    BY <1>1 DEF IInv, TypeOK
  <2> QED
    BY <2>1, <2>2, <2>3, <2>4
<1> QED
  BY <1>1, <1>2 DEF StockInv, StockConserved

LEMMA StockStep == IInv /\ StockInv /\ [Next]_vars => StockInv'
<1> SUFFICES ASSUME IInv, StockInv, [Next]_vars PROVE StockInv'
  OBVIOUS
<1>1. ASSUME NEW c \in Calls, CommitOrder(c) PROVE StockInv'
  BY <1>1, CommitOrderConserves
<1>2. ASSUME NEW p \in Catalogue, Reseed(p) PROVE StockInv'
  BY <1>2, ReseedConserves
<1>3. ASSUME UNCHANGED <<stock, orders, supplied>> PROVE StockInv'
  BY <1>3, SoldNow DEF StockInv, StockConserved
<1>4. ASSUME NEW c \in Calls, Step(c), ~CommitOrder(c) PROVE UNCHANGED <<stock, orders, supplied>>
  BY <1>4 DEF Step, LockCart, CartStep, OrderStep, Refuse, ReadPricing, AddItem, UpdateItem, RemoveItem,
      WriteLines, CommitCart, CheckReplay, ReadItems, LockRow, PriceRow, CheckTerms, InsertOrder,
      DecrementStock
<1>5. ASSUME NEW c \in Calls, Fail(c) PROVE UNCHANGED <<stock, orders, supplied>>
  BY <1>5 DEF Fail
<1>6. ASSUME NEW c \in Calls, NEW r \in Requests, Begin(c, r) PROVE UNCHANGED <<stock, orders, supplied>>
  BY <1>6 DEF Begin
<1>7. ASSUME NEW k \in Carts, CreateCart(k) PROVE UNCHANGED <<stock, orders, supplied>>
  BY <1>7 DEF CreateCart
<1>8. ASSUME NEW p \in Catalogue, Reprice(p) PROVE UNCHANGED <<stock, orders, supplied>>
  BY <1>8 DEF Reprice
<1>9. CASE UNCHANGED vars
  BY <1>3, <1>9 DEF vars
<1> QED
  BY <1>1, <1>2, <1>3, <1>4, <1>5, <1>6, <1>7, <1>8, <1>9 DEF Next, Environment

LEMMA StockInit == Init => StockInv
<1> SUFFICES ASSUME Init PROVE StockInv
  OBVIOUS
<1>1. orders = {} /\ stock = SeedStock /\ supplied = SeedStock
  BY DEF Init
<1>2. IsFiniteSet(orders)
  BY <1>1, FS_EmptySet
<1>3. ASSUME NEW p \in Catalogue PROVE stock[p] + Sold(p) = supplied[p]
  <2>1. Sold(p) = SoldIn(p, orders)
    BY SoldNow
  <2>2. Sold(p) = 0
    BY <1>1, <1>2, <2>1, SoldInFirst
  <2>3. SeedStock[p] \in Nat
    BY SalesStoreAssumption
  <2> QED
    BY <1>1, <2>2, <2>3
<1> QED
  BY <1>2, <1>3 DEF StockInv, StockConserved

\* Every unit that left the stock is on exactly one order, through any number of
\* concurrent confirmations, failures and runs of the seed script: the order, its
\* items and the decrements are one transaction (order.ts:433-493).
THEOREM StockIsConserved == Spec => []StockConserved
<1>1. StockInv => StockConserved
  BY DEF StockInv
<1> QED
  BY <1>1, StockInit, StockStep, Inductive, PTL DEF Spec

-----------------------------------------------------------------------------
\* Answers and refinement

\* A call that ends is answered, no other call is.
LEMMA FinishAnswers ==
    ASSUME IInv, NEW c \in Calls, NEW result, Finish(c, result)
    PROVE  answer'[c] = result /\ \A d \in Calls \ {c} : answer'[d] = answer[d]
BY DEF IInv, TypeOK, Finish

AnsweredTruly(d) ==
    answer'[d] # answer[d] /\ answer'[d] # NoOrder =>
        /\ answer'[d] \in orders'
        /\ answer'[d].cart = req[d].cart
        /\ answer'[d].terms = req[d].terms

LEMMA NoAnswerTrue ==
    ASSUME IInv, NEW c \in Calls, NEW d \in Calls, Finish(c, NoOrder)
    PROVE  AnsweredTruly(d)
BY FinishAnswers DEF AnsweredTruly

LEMMA StepAnswersTruly ==
    ASSUME IInv, NEW c \in Calls, NEW d \in Calls, Step(c)
    PROVE  AnsweredTruly(d)
<1>1. CASE UNCHANGED answer
  BY <1>1 DEF AnsweredTruly
<1>2. CASE Finish(c, NoOrder)
  BY <1>2, NoAnswerTrue
<1>3. CASE CheckReplay(c) /\ OnRecord(c) /\ Finish(c, Replay(c))
  <2>1. /\ answer'[c] = Replay(c)
        /\ \A e \in Calls \ {c} : answer'[e] = answer[e]
        /\ orders' = orders
    BY <1>3, FinishAnswers DEF CheckReplay
  <2>2. Replay(c) # NoOrder =>
          /\ Replay(c) \in orders
          /\ Replay(c).key = IdempotencyKey(req[c].cart, draft[c].version)
          /\ Replay(c).terms = req[c].terms
    BY DEF Replay
  <2>3. Replay(c) # NoOrder => Replay(c).cart = req[c].cart
    BY <2>2 DEF IInv, OrderKeys, IdempotencyKey
  <2> QED
    BY <2>1, <2>2, <2>3 DEF AnsweredTruly
<1>4. CASE CommitOrder(c)
  <2>1. PICK result \in {NewOrder(c), NoOrder} : Finish(c, result)
    BY <1>4 DEF CommitOrder
  <2>2. answer'[c] = result /\ \A e \in Calls \ {c} : answer'[e] = answer[e]
    BY <2>1, FinishAnswers
  <2>3. NewOrder(c) \in orders'
    BY <1>4 DEF CommitOrder
  <2>4. NewOrder(c).cart = req[c].cart /\ NewOrder(c).terms = req[c].terms
    BY DEF NewOrder
  <2> QED
    BY <2>2, <2>3, <2>4 DEF AnsweredTruly
<1>5. CASE InsertOrder(c)
  BY <1>1, <1>5, InsertOrderInv DEF InsertOrder
<1> QED
  BY <1>1, <1>2, <1>3, <1>4, <1>5
  DEF Step, LockCart, CartStep, OrderStep, Refuse, ReadPricing, AddItem, UpdateItem, RemoveItem,
      WriteLines, CommitCart, CheckReplay, ReadItems, LockRow, PriceRow, CheckTerms, DecrementStock

LEMMA NextAnswersTruly ==
    ASSUME IInv, [Next]_vars, NEW d \in Calls
    PROVE  AnsweredTruly(d)
<1>1. ASSUME NEW c \in Calls, Step(c) PROVE AnsweredTruly(d)
  BY <1>1, StepAnswersTruly
<1>2. ASSUME NEW c \in Calls, Fail(c) PROVE AnsweredTruly(d)
  BY <1>2, NoAnswerTrue DEF Fail
<1>3. ASSUME NEW c \in Calls, NEW r \in Requests, Begin(c, r) PROVE AnsweredTruly(d)
  BY <1>3 DEF Begin, AnsweredTruly, IInv, TypeOK
<1>4. CASE Environment \/ UNCHANGED vars
  BY <1>4 DEF Environment, CreateCart, Reprice, Reseed, callVars, vars, AnsweredTruly
<1> QED
  BY <1>1, <1>2, <1>3, <1>4 DEF Next

\* Whoever is answered "created" finds that order on record, for the cart, the
\* city and the payment method it asked for (order.ts:171-247).
THEOREM AnswersAreTrue == Spec => AnswerIsTrue
<1>1. IInv /\ [Next]_vars =>
        [\A c \in Calls : answer'[c] # answer[c] /\ answer'[c] # NoOrder =>
            /\ answer'[c] \in orders'
            /\ answer'[c].cart = req[c].cart
            /\ answer'[c].terms = req[c].terms]_vars
  BY NextAnswersTruly DEF AnsweredTruly
<1> QED
  BY <1>1, Inductive, PTL DEF AnswerIsTrue, Spec

\* Every step of the services is a step of the atomic shop, or none.
LEMMA ShopStep == IInv /\ [Next]_vars => [Shop!Next]_(Shop!vars)
<1> SUFFICES ASSUME IInv, [Next]_vars PROVE [Shop!Next]_(Shop!vars)
  OBVIOUS
<1> USE DEF Shop!vars
<1>1. ASSUME NEW c \in Calls, CommitCart(c) PROVE Shop!Next
  <2> DEFINE k == req[c].cart
             new == [version |-> cart[k].version + 1, items |-> draft[c].items]
  <2>1. /\ pc[c] = "commit" /\ req[c].op # "order" /\ k \in Carts
        /\ cart' = [cart EXCEPT ![k] = new]
        /\ UNCHANGED <<opened, stock, orders>>
    BY <1>1, CartLines DEF CommitCart
  <2>2. /\ k \in opened
        /\ \E p \in Catalogue : \A q \in Catalogue \ {p} : draft[c].items[q] = cart[k].items[q]
    BY <2>1 DEF IInv, CallInv, OpSteps, InTransaction, EditCurrent
  <2>3. cart'[k] = new /\ \A j \in Carts \ {k} : cart'[j] = cart[j]
    BY <2>1 DEF IInv, TypeOK
  <2>4. cart' \in [Carts -> Shop!Contents]
    <3>1. IInv'
      BY <1>1, CommitCartInv
    <3> QED
      BY <3>1 DEF IInv, TypeOK, Contents, Line, Shop!Contents
  <2>5. Shop!Edit(k)
    BY <2>1, <2>2, <2>3, <2>4 DEF Shop!Edit
  <2> QED
    BY <2>1, <2>5 DEF Shop!Next
<1>2. ASSUME NEW c \in Calls, CommitOrder(c) PROVE Shop!Next
  <2> DEFINE o == NewOrder(c)
  <2>1. /\ orders' = orders \cup {o}
        /\ stock' = [p \in Catalogue |-> stock[p] - draft[c].items[p].quantity]
        /\ UNCHANGED <<opened, cart>>
    BY <1>2 DEF CommitOrder
  <2>2. /\ o.cart \in opened /\ o.version = cart[o.cart].version /\ o.items = cart[o.cart].items
        /\ o.items = draft[c].items /\ Lines(o.items) # {}
        /\ o.key = IdempotencyKey(o.cart, o.version) /\ ~OnRecord(c)
        /\ \A p \in Catalogue : o.items[p].quantity <= stock[p]
    BY <1>2, CommitsTheCart
  <2>3. \A other \in orders : <<other.cart, other.version>> # <<o.cart, o.version>>
    BY <2>2 DEF OnRecord, NewOrder, IInv, OrderKeys, IdempotencyKey
  <2> HIDE DEF o
  <2>4. {Placed(x) : x \in orders'} = {Placed(x) : x \in orders} \cup {Placed(o)}
    BY <2>1
  <2>5. \A other \in {Placed(x) : x \in orders} :
           <<other.cart, other.version>> # <<Placed(o).cart, Placed(o).version>>
    BY <2>3 DEF Placed
  <2>6. Shop!Place(Placed(o))
    BY <2>1, <2>2, <2>4, <2>5 DEF Shop!Place, Lines, Shop!Lines, Placed
  <2> QED
    BY <2>4, <2>6 DEF Shop!Next
<1>3. ASSUME NEW k \in Carts, CreateCart(k) PROVE Shop!Next
  BY <1>3 DEF CreateCart, Shop!Next, Shop!Open
<1>4. ASSUME NEW p \in Catalogue, Reseed(p) PROVE Shop!Next
  <2>1. SeedStock[p] \in Nat
    BY SalesStoreAssumption
  <2>2. Shop!Restock(p)
    BY <1>4, <2>1 DEF Reseed, Shop!Restock, IInv, TypeOK
  <2> QED
    BY <2>2 DEF Shop!Next
<1>5. ASSUME NEW c \in Calls, Step(c), ~CommitCart(c), ~CommitOrder(c)
      PROVE  UNCHANGED Shop!vars
  BY <1>5 DEF Step, LockCart, CartStep, OrderStep, Refuse, ReadPricing, AddItem, UpdateItem, RemoveItem,
      WriteLines, CheckReplay, ReadItems, LockRow, PriceRow, CheckTerms, InsertOrder, DecrementStock
<1>6. ASSUME NEW c \in Calls, Fail(c) PROVE UNCHANGED Shop!vars
  BY <1>6 DEF Fail
<1>7. ASSUME NEW c \in Calls, NEW r \in Requests, Begin(c, r) PROVE UNCHANGED Shop!vars
  BY <1>7 DEF Begin
<1>8. ASSUME NEW p \in Catalogue, Reprice(p) PROVE UNCHANGED Shop!vars
  BY <1>8 DEF Reprice
<1>9. CASE UNCHANGED vars
  BY <1>9 DEF vars
<1> QED
  BY <1>1, <1>2, <1>3, <1>4, <1>5, <1>6, <1>7, <1>8, <1>9 DEF Next, Environment

\* The transactions of cart.ts and order.ts implement the atomic shop: each
\* committed edit is one step of it, and so is each committed order.
THEOREM Refinement == Spec => ImplementsShop
<1>1. Init => Shop!Init
  BY SalesStoreAssumption
  DEF Init, Shop!Init, EmptyCart, NoLines, NoLine, Shop!NoLines, Shop!NoLine
<1> QED
  BY <1>1, ShopStep, Inductive, PTL DEF ImplementsShop, Shop!Spec, Spec

=============================================================================

-------------------------------- MODULE Shop --------------------------------
(***************************************************************************)
(* What the cart and order services promise their callers: every cart edit *)
(* and every order placement looks like one atomic step on the database,   *)
(* whatever transactions, row locks, retries and lost answers happen       *)
(* underneath.  SalesStore implements this specification.                  *)
(***************************************************************************)
EXTENDS Integers

CONSTANTS
    Carts,      \* identifiers createCart may hand out
    Catalogue   \* refs of the products that are sold

VARIABLES
    opened,     \* carts that exist
    cart,       \* per cart: its version and its lines
    stock,      \* units left per product
    orders      \* orders on record

vars == <<opened, cart, stock, orders>>

\* The lines of a cart are a function from products to quantity and unit price;
\* a product that is not in the cart has quantity 0.
NoLine == [quantity |-> 0, price |-> 0]
NoLines == [p \in Catalogue |-> NoLine]

Contents ==
    [version: Nat, items: [Catalogue -> [quantity: Nat, price: Nat]]]

Lines(items) == {p \in Catalogue : items[p].quantity > 0}

Init ==
    /\ opened = {}
    /\ cart = [k \in Carts |-> [version |-> 0, items |-> NoLines]]
    /\ stock \in [Catalogue -> Nat]
    /\ orders = {}

Open(k) ==
    /\ k \notin opened
    /\ opened' = opened \cup {k}
    /\ UNCHANGED <<cart, stock, orders>>

\* A cart edit touches at most one line and always moves the cart to its next
\* version: the version is what an order is identified by.
Edit(k) ==
    /\ k \in opened
    /\ cart' \in [Carts -> Contents]
    /\ cart'[k].version = cart[k].version + 1
    /\ \E p \in Catalogue :
          \A q \in Catalogue \ {p} : cart'[k].items[q] = cart[k].items[q]
    /\ \A j \in Carts \ {k} : cart'[j] = cart[j]
    /\ UNCHANGED <<opened, stock, orders>>

\* An order is placed for exactly what its cart holds, at the prices the cart
\* showed, at most once per cart version, and only if every line is in stock;
\* the units leave the stock in the same step.
Place(o) ==
    /\ o.cart \in opened
    /\ o.version = cart[o.cart].version
    /\ o.items = cart[o.cart].items
    /\ Lines(o.items) # {}
    /\ \A other \in orders : <<other.cart, other.version>> # <<o.cart, o.version>>
    /\ \A p \in Catalogue : o.items[p].quantity <= stock[p]
    /\ orders' = orders \cup {o}
    /\ stock' = [p \in Catalogue |-> stock[p] - o.items[p].quantity]
    /\ UNCHANGED <<opened, cart>>

Restock(p) ==
    /\ stock' \in [Catalogue -> Nat]
    /\ \A q \in Catalogue \ {p} : stock'[q] = stock[q]
    /\ UNCHANGED <<opened, cart, orders>>

Next ==
    \/ \E k \in Carts : Open(k) \/ Edit(k)
    \/ \E o \in orders' : Place(o)
    \/ \E p \in Catalogue : Restock(p)

Spec == Init /\ [][Next]_vars

=============================================================================

------------------------------ MODULE CartPool ------------------------------
(***************************************************************************)
(* The calls of the cart service and the price look-ups as users of one    *)
(* pool of connections (postgres.ts): a mutation keeps a connection and    *)
(* the row lock of its cart for its whole transaction, addCartItem wants a *)
(* second connection while it does.  Client-side timers (timeout.ts) give  *)
(* up on a statement and never cancel it.                                  *)
(* What the statements read and write is SalesStore's.                     *)
(***************************************************************************)
EXTENDS Pool

CONSTANTS
    Calls,   \* callers; each makes any number of calls, one after the other
    Carts

ASSUME CartPoolAssumption ==
    /\ Conns # {} /\ Carts # {}
    /\ NoOne \notin Calls \X {"main", "read"}
    /\ {"none", "open"} \cap Carts = {}

VARIABLES
    tx,       \* per connection: no transaction, an open one, or the cart it locks
    carts,    \* rows of carts
    pc,       \* the statement each call runs next, "idle" between calls, "over" at its end
    arg,      \* operation and cart of the call
    answer,   \* how the call ends
    landed    \* history: the calls whose write is committed

callVars == <<tx, carts, pc, arg, answer, landed>>

Ops == {"create", "add", "edit", "quote"}
Args == [op: Ops, cart: Carts]
NoArgs == CHOOSE a \in Args : a.op = "quote"

\* The connection of the transaction, and the one for a look-up beside it.
Main(c) == <<c, "main">>
Read(c) == <<c, "read">>
Callers == Calls \X {"main", "read"}

-----------------------------------------------------------------------------
\* A call

Goto(c, step) == pc' = [pc EXCEPT ![c] = step]
Answer(c, a) == answer' = [answer EXCEPT ![c] = a]
CartFree(k) == \A i \in Conns : tx[i] # k

\* A mutation asks for its connection, a price for that of its first statement.
Begin(c, a) ==
    /\ pc[c] = "idle"
    /\ arg' = [arg EXCEPT ![c] = a]
    /\ \/ a.op = "quote" /\ a = NoArgs /\ Ask(Read(c)) /\ Goto(c, "product")
       \/ a.op = "create" /\ a.cart \notin carts /\ Ask(Main(c)) /\ Goto(c, "insert")
       \/ a.op \in {"add", "edit"} /\ Ask(Main(c)) /\ Goto(c, "begin")
    /\ UNCHANGED <<holder, adrift, tx, carts, answer, landed>>

\* A call ends; its connection is given back as it is.
End(c, a) ==
    /\ Goto(c, "over")
    /\ Answer(c, a)
    /\ Return(Main(c))

\* The caller has the answer.
Leave(c) ==
    /\ pc[c] = "over"
    /\ Goto(c, "idle")
    /\ Answer(c, "none")
    /\ arg' = [arg EXCEPT ![c] = NoArgs]
    /\ landed' = landed \ {c}
    /\ UNCHANGED <<poolVars, tx, carts>>

\* The look-up of a call failed, or ended it: a call in a transaction rolls back.
EndRead(c, a) ==
    /\ Goto(c, IF arg[c].op = "quote" THEN "over" ELSE "undo")
    /\ Answer(c, a)

\* BEGIN
OpenTx(c) ==
    /\ pc[c] = "begin"
    /\ Has(Main(c))
    /\ tx' = [tx EXCEPT ![ConnOf(Main(c))] = "open"]
    /\ Goto(c, "lock")
    /\ UNCHANGED <<poolVars, carts, arg, answer, landed>>

\* SELECT ... FOR UPDATE
LockCart(c) ==
    LET k == arg[c].cart IN
    /\ pc[c] = "lock"
    /\ CartFree(k)
    /\ \/ /\ k \notin carts
          /\ Goto(c, "undo")
          /\ Answer(c, "refused")
          /\ UNCHANGED <<tx, queue>>
       \/ /\ k \in carts
          /\ tx' = [tx EXCEPT ![ConnOf(Main(c))] = k]
          /\ \/ arg[c].op = "add" /\ Goto(c, "product") /\ Ask(Read(c))
             \/ arg[c].op = "edit" /\ Goto(c, "write") /\ UNCHANGED queue
          /\ UNCHANGED answer
    /\ UNCHANGED <<holder, adrift, carts, arg, landed>>

\* The row of the product, on a connection of its own; there may be none.
ReadProduct(c) ==
    /\ pc[c] = "product"
    /\ Has(Read(c))
    /\ Return(Read(c))
    /\ \/ Goto(c, "promotion") /\ Ask(Read(c)) /\ UNCHANGED answer
       \/ EndRead(c, "refused") /\ UNCHANGED queue
    /\ UNCHANGED <<adrift, tx, carts, arg, landed>>

\* The promotions of the day, on another; rows that contradict each other are
\* an error.
ReadPromotion(c) ==
    /\ pc[c] = "promotion"
    /\ Has(Read(c))
    /\ Return(Read(c))
    /\ \/ arg[c].op = "add" /\ Goto(c, "write") /\ UNCHANGED answer
       \/ arg[c].op = "quote" /\ Goto(c, "over") /\ Answer(c, "quoted")
       \/ EndRead(c, "error")
    /\ UNCHANGED <<adrift, queue, tx, carts, arg, landed>>

\* The item, the stock, the writes and the version: a refusal or a COMMIT to come.
Write(c) ==
    /\ pc[c] = "write"
    /\ \/ Goto(c, "commit") /\ UNCHANGED answer
       \/ Goto(c, "undo") /\ Answer(c, "refused")
    /\ UNCHANGED <<poolVars, tx, carts, arg, landed>>

CloseTx(c) == tx' = [tx EXCEPT ![ConnOf(Main(c))] = "none"]

\* Mutated form: the COMMIT is raced against a timer as well.
CommitTimed(c) ==
    /\ pc[c] = "commit"
    /\ landed' = landed \cup {c}
    /\ CloseTx(c)
    /\ End(c, "ok") \/ End(c, "error")
    /\ UNCHANGED <<adrift, queue, carts, arg>>

Commit(c) ==
    /\ pc[c] = "commit"
    /\ landed' = landed \cup {c}
    /\ CloseTx(c)
    /\ End(c, "ok")
    /\ UNCHANGED <<adrift, queue, carts, arg>>

\* Mutated form: a refusal gives the connection back as it is.
UndoErrorsOnly(c) ==
    /\ pc[c] = "undo"
    /\ IF answer[c] = "error" THEN CloseTx(c) ELSE UNCHANGED tx
    /\ End(c, answer[c])
    /\ UNCHANGED <<adrift, queue, carts, arg, landed>>

\* ROLLBACK after a refusal or an error, then release().
Undo(c) ==
    /\ pc[c] = "undo"
    /\ CloseTx(c)
    /\ End(c, answer[c])
    /\ UNCHANGED <<adrift, queue, carts, arg, landed>>

\* createCart is one statement, deliberately without a timer.
Insert(c) ==
    /\ pc[c] = "insert"
    /\ Has(Main(c))
    /\ \/ /\ carts' = carts \cup {arg[c].cart}
          /\ landed' = landed \cup {c}
          /\ End(c, "ok")
       \/ /\ End(c, "refused")
          /\ UNCHANGED <<carts, landed>>
    /\ UNCHANGED <<adrift, queue, tx, arg>>

-----------------------------------------------------------------------------
\* Timers and losses

\* Mutated form: who gets no connection in time asks once more.
ExpireAndRetry(c) ==
    \E u \in {Main(c), Read(c)} :
        /\ Waiting(u)
        /\ queue' = Append(SelectSeq(queue, LAMBDA w : w # u), u)
        /\ UNCHANGED <<holder, adrift, tx, carts, pc, arg, answer, landed>>

\* Who gets no connection in time fails.
Expire(c) ==
    \/ /\ GiveUp(Main(c))
       /\ End(c, "error")
       /\ UNCHANGED <<adrift, tx, carts, arg, landed>>
    \/ /\ GiveUp(Read(c))
       /\ EndRead(c, "error")
       /\ UNCHANGED <<holder, adrift, tx, carts, arg, landed>>

\* withTimeout: the ROLLBACK queues up behind the statement, on its connection.
\* A lock that is waited for is still waited for.
TimeOut(c) ==
    /\ \/ /\ pc[c] = "lock"
          /\ Goto(c, "stuck")
          /\ Answer(c, "error")
          /\ UNCHANGED poolVars
       \/ /\ pc[c] = "write"
          /\ Goto(c, "undo")
          /\ Answer(c, "error")
          /\ UNCHANGED poolVars
       \/ /\ pc[c] \in {"product", "promotion"}
          /\ Forsake(Read(c))
          /\ EndRead(c, "error")
          /\ UNCHANGED queue
    /\ UNCHANGED <<tx, carts, arg, landed>>

\* The lock nobody waits for any more is granted; the ROLLBACK is next.
Unstick(c) ==
    /\ pc[c] = "stuck"
    /\ CartFree(arg[c].cart)
    /\ Goto(c, "undo")
    /\ UNCHANGED <<poolVars, tx, carts, arg, answer, landed>>

\* The connection breaks under a statement: PostgreSQL rolls back, the pool
\* drops the connection.  Under a COMMIT, or an INSERT of its own, nobody knows.
Break(c) ==
    /\ Has(Main(c))
    /\ pc[c] \in {"begin", "lock", "stuck", "write", "undo", "commit", "insert"}
    /\ CloseTx(c)
    /\ IF pc[c] \in {"commit", "insert"}
       THEN /\ End(c, "lost")
            /\ \/ UNCHANGED <<carts, landed>>
               \/ /\ landed' = landed \cup {c}
                  /\ carts' = IF pc[c] = "insert" THEN carts \cup {arg[c].cart} ELSE carts
       ELSE /\ End(c, IF answer[c] = "none" THEN "error" ELSE answer[c])
            /\ UNCHANGED <<carts, landed>>
    /\ UNCHANGED <<adrift, queue, arg>>

-----------------------------------------------------------------------------
CartInit ==
    /\ tx = [i \in Conns |-> "none"]
    /\ carts = {}
    /\ pc = [c \in Calls |-> "idle"]
    /\ arg = [c \in Calls |-> NoArgs]
    /\ answer = [c \in Calls |-> "none"]
    /\ landed = {}

CallStep(c) ==
    \/ OpenTx(c)
    \/ LockCart(c)
    \/ ReadProduct(c)
    \/ ReadPromotion(c)
    \/ Write(c)
    \/ Commit(c)
    \/ Undo(c)
    \/ Insert(c)
    \/ Unstick(c)
    \/ Leave(c)

CartNext ==
    \E c \in Calls :
        \/ \E a \in Args : Begin(c, a)
        \/ CallStep(c)
        \/ Expire(c)
        \/ TimeOut(c)
        \/ Break(c)

Steps == {"idle", "over", "begin", "lock", "stuck", "product", "promotion", "write", "commit",
          "undo", "insert"}
Answers == {"none", "ok", "quoted", "refused", "error", "lost"}

CartTypeOK ==
    /\ tx \in [Conns -> {"none", "open"} \cup Carts]
    /\ carts \subseteq Carts
    /\ pc \in [Calls -> Steps]
    /\ arg \in [Calls -> Args]
    /\ answer \in [Calls -> Answers]
    /\ landed \subseteq Calls

-----------------------------------------------------------------------------
\* Properties

\* A connection is handed on without a transaction, and a transaction belongs to
\* the call that began it, with the lock of that call's cart or none: however a
\* call ends, refused, timed out or cut off (cart.ts:84-103).
OwnTransaction ==
    \A i \in Conns :
        tx[i] # "none" =>
            \E c \in Calls :
                /\ holder[i] = Main(c)
                /\ pc[c] \notin {"idle", "over", "begin", "insert"}
                /\ tx[i] \in {"open", arg[c].cart}

\* The outcome a caller is told is the outcome of the write: no time-out leaves
\* it open, only the loss of the connection does (cart.ts:128-134).
OutcomeIsTrue ==
    \A c \in Calls :
        pc[c] = "over" =>
            /\ answer[c] = "ok" => c \in landed
            /\ answer[c] \in {"refused", "error"} => c \notin landed

\* Calls that hold connections and row locks and wait for more of both never
\* wait for each other for ever (postgres.ts:8, cart.ts:89-103, 204).
CallsEnd == \A c \in Calls : pc[c] # "idle" ~> pc[c] = "idle"
=============================================================================

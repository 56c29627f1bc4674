-------------------------------- MODULE Pool --------------------------------
(***************************************************************************)
(* The one pool of PostgreSQL connections of the API process (postgres.ts) *)
(* and the client-side timer put on statements (timeout.ts).               *)
(***************************************************************************)
EXTENDS Integers, Sequences

CONSTANTS
    Conns,   \* the connections the pool may open
    NoOne

VARIABLES
    holder,  \* who has each connection
    adrift,  \* connections that finish a statement nobody waits for any more
    queue    \* who waits for a connection, in order

poolVars == <<holder, adrift, queue>>

Free(i) == holder[i] = NoOne /\ i \notin adrift
Waiting(u) == \E n \in DOMAIN queue : queue[n] = u
Has(u) == \E i \in Conns : holder[i] = u
ConnOf(u) == CHOOSE i \in Conns : holder[i] = u

-----------------------------------------------------------------------------
\* pg.Pool

\* The first of those who wait gets a connection.
Serve ==
    /\ queue # <<>>
    /\ \E i \in Conns : Free(i) /\ holder' = [holder EXCEPT ![i] = Head(queue)]
    /\ queue' = Tail(queue)
    /\ UNCHANGED adrift

Ask(u) == queue' = Append(queue, u)
Return(u) == holder' = [i \in Conns |-> IF holder[i] = u THEN NoOne ELSE holder[i]]

\* connectionTimeoutMillis: who waited too long for a connection leaves the queue.
GiveUp(u) ==
    \E n \in DOMAIN queue :
        /\ queue[n] = u
        /\ queue' = [m \in 1..(Len(queue) - 1) |-> queue[IF m < n THEN m ELSE m + 1]]

-----------------------------------------------------------------------------
\* withTimeout rejects; the statement goes on, with its connection.

Forsake(u) ==
    /\ Has(u)
    /\ adrift' = adrift \cup {ConnOf(u)}
    /\ Return(u)

\* A statement nobody waits for ends.
Settle(i) ==
    /\ i \in adrift
    /\ adrift' = adrift \ {i}
    /\ UNCHANGED <<holder, queue>>

-----------------------------------------------------------------------------
PoolInit ==
    /\ holder = [i \in Conns |-> NoOne]
    /\ adrift = {}
    /\ queue = <<>>

PoolStep == Serve \/ \E i \in Conns : Settle(i)

\* Nobody is in the pool twice, and what drifts belongs to nobody.
PoolTypeOK(users) ==
    /\ holder \in [Conns -> users \cup {NoOne}]
    /\ adrift \subseteq {i \in Conns : holder[i] = NoOne}
    /\ queue \in Seq(users)
    /\ \A i, j \in Conns : holder[i] = holder[j] /\ holder[i] # NoOne => i = j
    /\ \A u \in users : Has(u) => ~Waiting(u)
=============================================================================

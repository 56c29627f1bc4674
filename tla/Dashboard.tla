----------------------------- MODULE Dashboard -----------------------------
(***************************************************************************)
(* The merchant dashboard: the page (Dashboard.tsx), the route and its     *)
(* statements, which all want a connection of the pool at the same time    *)
(* (dashboard.ts, routes/dashboard.ts).                                    *)
(*                                                                         *)
(* A name of Loads stands for one generation of requests, and is taken     *)
(* again once nothing is left of it.                                       *)
(***************************************************************************)
EXTENDS Pool

CONSTANTS
    Loads,
    Panels   \* how many statements a load makes

ASSUME DashboardAssumption ==
    /\ Panels \in Nat \ {0}
    /\ NoOne \notin Loads \cup (Loads \X (1..Panels))

VARIABLES
    page,      \* the mounted component's state
    current,   \* the load of its current generation, while that is on its way
    awaited,   \* the loads whose promise the component holds
    reply      \* per load: no request, an open one, or the answer nobody read yet

dashVars == <<page, current, awaited, reply>>

Unmounted == [mounted |-> FALSE, loading |-> FALSE, error |-> FALSE, data |-> FALSE]
Fresh == [mounted |-> TRUE, loading |-> TRUE, error |-> FALSE, data |-> FALSE]

Readers == Loads \X (1..Panels)
Reads(l) == [p \in 1..Panels |-> <<l, p>>]
Reading(u) == Waiting(u) \/ Has(u)
Over(l) == reply[l] = "none" /\ l \notin awaited /\ \A p \in 1..Panels : ~Reading(<<l, p>>)

-----------------------------------------------------------------------------
\* The page

\* fetch: the request reaches the route, and all its statements ask at once.
Fetch(l) ==
    /\ reply' = [reply EXCEPT ![l] = "open"]
    /\ queue' = queue \o Reads(l)
    /\ UNCHANGED <<holder, adrift>>

\* The tab is chosen.  Under StrictMode the effect runs twice: the first request
\* is aborted, and may have left.
Mount(l) ==
    /\ ~page.mounted
    /\ page' = Fresh
    /\ \/ /\ Over(l)
          /\ Fetch(l)
          /\ current' = l
          /\ awaited' = {l}
       \/ \E m \in Loads \ {l} :
             /\ Over(l) /\ Over(m)
             /\ reply' = [reply EXCEPT ![l] = "open", ![m] = "open"]
             /\ queue' = queue \o Reads(l) \o Reads(m)
             /\ current' = m
             /\ awaited' = {l, m}
             /\ UNCHANGED <<holder, adrift>>

\* The buttons: one is disabled while a load is on its way, the other not shown.
Refresh(l) ==
    /\ page.mounted /\ ~page.loading
    /\ Over(l)
    /\ Fetch(l)
    /\ page' = [page EXCEPT !.loading = TRUE, !.error = FALSE]
    /\ current' = l
    /\ awaited' = awaited \cup {l}

Dropped(ls) == [l \in Loads |-> IF l \in ls /\ reply[l] # "open" THEN "none" ELSE reply[l]]

\* Another tab: the request is aborted, the route goes on with it.
Unmount ==
    /\ page.mounted
    /\ page' = Unmounted
    /\ current' = NoOne
    /\ reply' = Dropped(awaited)
    /\ awaited' = {}
    /\ UNCHANGED poolVars

\* Mutated form: finally does not look at the generation.
DeliverAnyGeneration(l) ==
    /\ l \in awaited
    /\ awaited' = awaited \ {l}
    /\ reply' = Dropped({l})
    /\ current' = IF l = current THEN NoOne ELSE current
    /\ \/ l # current /\ page' = [page EXCEPT !.loading = FALSE]
       \/ l = current /\ reply[l] = "ok" /\ page' = [page EXCEPT !.loading = FALSE, !.data = TRUE]
       \/ l = current /\ page' = [page EXCEPT !.loading = FALSE, !.data = FALSE, !.error = TRUE]
    /\ UNCHANGED poolVars

\* Mutated form: a failure returns before loading is reset.
DeliverStillLoading(l) ==
    /\ l \in awaited
    /\ awaited' = awaited \ {l}
    /\ reply' = Dropped({l})
    /\ current' = IF l = current THEN NoOne ELSE current
    /\ \/ l # current /\ UNCHANGED page
       \/ l = current /\ reply[l] = "ok" /\ page' = [page EXCEPT !.loading = FALSE, !.data = TRUE]
       \/ l = current /\ page' = [page EXCEPT !.data = FALSE, !.error = TRUE]
    /\ UNCHANGED poolVars

\* The promise of a load ends: an answer of the expected shape, or a 503, a body
\* the page rejects, an abort, a lost connection.
Deliver(l) ==
    /\ l \in awaited
    /\ awaited' = awaited \ {l}
    /\ reply' = Dropped({l})
    /\ current' = IF l = current THEN NoOne ELSE current
    /\ \/ l # current /\ UNCHANGED page
       \/ l = current /\ reply[l] = "ok" /\ page' = [page EXCEPT !.loading = FALSE, !.data = TRUE]
       \/ l = current /\ page' = [page EXCEPT !.loading = FALSE, !.data = FALSE, !.error = TRUE]
    /\ UNCHANGED poolVars

-----------------------------------------------------------------------------
\* The route: the first failure is the answer, the other statements go on.

Respond(l, code) ==
    reply' = [reply EXCEPT ![l] = IF @ # "open" THEN @
                                  ELSE IF l \in awaited THEN code ELSE "none"]

\* A statement ends.  Rows of an unexpected shape fail the load after the last.
QueryEnds(l, p) ==
    /\ Has(<<l, p>>)
    /\ Return(<<l, p>>)
    /\ \/ Respond(l, "failed")
       \/ (\E q \in (1..Panels) \ {p} : Reading(<<l, q>>)) /\ UNCHANGED reply
       \/ (\A q \in (1..Panels) \ {p} : ~Reading(<<l, q>>)) /\ Respond(l, "ok")
    /\ UNCHANGED <<adrift, queue, page, current, awaited>>

\* withTimeout.
QueryTimesOut(l, p) ==
    /\ reply[l] = "open"
    /\ Forsake(<<l, p>>)
    /\ Respond(l, "failed")
    /\ UNCHANGED <<queue, page, current, awaited>>

\* No connection in time.
QueryGivesUp(l, p) ==
    /\ GiveUp(<<l, p>>)
    /\ Respond(l, "failed")
    /\ UNCHANGED <<holder, adrift, page, current, awaited>>

-----------------------------------------------------------------------------
DashInit ==
    /\ page = Unmounted
    /\ current = NoOne
    /\ awaited = {}
    /\ reply = [l \in Loads |-> "none"]

DashNext ==
    \/ \E l \in Loads :
          \/ Mount(l)
          \/ Refresh(l)
          \/ Deliver(l)
          \/ \E p \in 1..Panels :
                QueryEnds(l, p) \/ QueryTimesOut(l, p) \/ QueryGivesUp(l, p)
    \/ Unmount

-----------------------------------------------------------------------------
\* Properties

\* The page says it is loading exactly while the load it asked for last is on
\* its way, and never shows an error above figures (Dashboard.tsx:28-60).
PageIsTrue ==
    /\ page.loading <=> current # NoOne
    /\ current # NoOne => page.mounted /\ current \in awaited
    /\ page.error => ~page.data /\ ~page.loading

\* A load ends, whatever else waits for the pool: the page comes back to figures
\* or to an error with a button (Dashboard.tsx:54-58, dashboard.ts:190-277).
PageSettles == page.loading ~> ~page.loading
=============================================================================

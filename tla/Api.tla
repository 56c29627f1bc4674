-------------------------------- MODULE Api --------------------------------
(***************************************************************************)
(* The rest of the API process: the calls of the cart service and the      *)
(* loads of the dashboard, which compete for its one pool of connections,  *)
(* and the calls that collect what they say from several statements.  The  *)
(* latter are ReadModels' and take what a statement answers, not the       *)
(* connection it waits for.                                                *)
(***************************************************************************)
EXTENDS CartPool, Dashboard, ReadModels

ASSUME ApiAssumption == Calls \cap Loads = {}

vars == <<poolVars, callVars, dashVars, readVars>>

Init == PoolInit /\ CartInit /\ DashInit /\ ReadInit

Next ==
    \/ PoolStep /\ UNCHANGED <<callVars, dashVars, readVars>>
    \/ CartNext /\ UNCHANGED <<dashVars, readVars>>
    \/ DashNext /\ UNCHANGED <<callVars, readVars>>
    \/ ReadNext /\ UNCHANGED <<poolVars, callVars, dashVars>>

Spec == Init /\ [][Next]_vars

-----------------------------------------------------------------------------
\* Fairness: PostgreSQL ends the statements it has begun, the pool hands out
\* what comes back to it and its timers go off.  A call may wait for a row lock
\* that others get again and again, but not for ever.  Nothing says that anybody
\* calls, that a connection breaks, or that a statement's timer beats it.

Answered(l) == reply[l] # "open" /\ Deliver(l)

Fairness ==
    /\ WF_vars(Serve /\ UNCHANGED <<callVars, dashVars, readVars>>)
    /\ \A i \in Conns : WF_vars(Settle(i) /\ UNCHANGED <<callVars, dashVars, readVars>>)
    /\ \A c \in Calls : SF_vars(CallStep(c) /\ UNCHANGED <<dashVars, readVars>>)
    /\ \A c \in Calls : WF_vars(Expire(c) /\ UNCHANGED <<dashVars, readVars>>)
    /\ \A l \in Loads : WF_vars(Answered(l) /\ UNCHANGED <<callVars, readVars>>)
    /\ \A l \in Loads, p \in 1..Panels :
          WF_vars((QueryEnds(l, p) \/ QueryGivesUp(l, p)) /\ UNCHANGED <<callVars, readVars>>)

FairSpec == Spec /\ Fairness

-----------------------------------------------------------------------------
\* The type of the state: every connection is in one hand, and nobody waits for
\* one who has one already.
TypeOK ==
    /\ PoolTypeOK(Callers \cup Readers)
    /\ CartTypeOK
    /\ page \in [mounted : BOOLEAN, loading : BOOLEAN, error : BOOLEAN, data : BOOLEAN]
    /\ current \in Loads \cup {NoOne}
    /\ awaited \subseteq Loads
    /\ reply \in [Loads -> {"none", "open", "ok", "failed"}]
=============================================================================

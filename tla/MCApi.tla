------------------------------- MODULE MCApi -------------------------------
\* Instances of Api for TLC.
EXTENDS Api

CONSTANTS c1, c2, l1, l2, k1, k2, none

MCCalls == {c1, c2}
MCLoads == {l1, l2}
MCCarts == {k1, k2}

Promotion(normal, promo, condition) ==
    [normal |-> normal, promo |-> promo, condition |-> condition, starts |-> 1, ends |-> 1]
Plain == [price |-> 11, stock |-> 1, promotions |-> {}, past |-> 1]
Files4 ==
    {Plain,
     [price |-> 11, stock |-> 1, promotions |-> {Promotion(11, 8, StocksLast)}, past |-> 2],
     [price |-> 15, stock |-> 0, promotions |-> {Promotion(15, 14, StocksLast)}, past |-> 0],
     [price |-> 15, stock |-> 1, promotions |-> {Promotion(15, 14, "on Sundays")}, past |-> 1]}
Files5 == Files4 \cup {[price |-> 9, stock |-> 1, promotions |-> {Promotion(8, 9, StocksLast)}, past |-> 3]}

\* Two calls, two loads, or a call and a load; the names are all alike.
Idle(c) == pc[c] = "idle"
AllOver == \A l \in Loads : Over(l)
PoolScenario ==
    /\ k2 \in carts => k1 \in carts
    /\ ~Idle(c2) => ~page.mounted /\ AllOver
    /\ ~Idle(c1) => Over(l2)

\* A loader and one call that reads.
ReadScenario == wish = NoWish \/ memory = NoMemory

\* The two know nothing of each other, so one rests while the other goes on.
PoolRests == carts = {} /\ page = Unmounted /\ AllOver /\ adrift = {} /\ Idle(c1) /\ Idle(c2)
ReadersRest ==
    /\ shop = Plain /\ inForce = Plain.past
    /\ orders = 0 /\ file = NoFile /\ wish = NoWish /\ memory = NoMemory

Scenarios == PoolScenario /\ ReadScenario /\ (PoolRests \/ ReadersRest)
ScenariosSpec == Init /\ [][Next /\ Scenarios']_vars /\ Fairness
=============================================================================

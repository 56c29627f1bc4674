\* Two calls, a call and a load of two statements, or two loads, on two connections; or a
\* loader of five files and one call that reads.
CONSTANTS
    c1 = c1
    c2 = c2
    k1 = k1
    k2 = k2
    l1 = l1
    l2 = l2
    none = none
    NoOne = none
    Conns = {1, 2}
    Calls <- MCCalls
    Carts <- MCCarts
    Loads <- MCLoads
    Panels = 2
    Files <- Files5
    Days = {1, 2}
    Requested = {8, 9, 10, 14}
    MaxOrders = 1
SPECIFICATION ScenariosSpec
INVARIANTS OwnTransaction OutcomeIsTrue PageIsTrue DecisionIsRight MemoryIsTrue
PROPERTIES CallsEnd PageSettles

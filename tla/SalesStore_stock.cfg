\* Two calls on two carts that compete for the last units of two products.
CONSTANTS
    c1 = c1
    c2 = c2
    k1 = k1
    k2 = k2
    good = good
    other = other
    refused = refused
    Calls <- MCCalls
    Carts <- TwoCarts
    Catalogue = {1, 2}
    Refs = {1, 2}
    Quantities = {1}
    Prices = {5}
    Terms = {good}
    Payable = {good}
    SeedStock <- OneUnit
    MaxVersion = 2
SPECIFICATION Spec
SYMMETRY CallSymmetry
INVARIANTS
    StockConserved
    DecrementNeverFails
    NoWaitCycle

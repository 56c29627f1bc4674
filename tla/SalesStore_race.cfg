\* Two calls on one cart of one product, under fairness.
CONSTANTS
    c1 = c1
    c2 = c2
    k1 = k1
    k2 = k2
    good = good
    other = other
    refused = refused
    Calls <- MCCalls
    Carts <- OneCart
    Catalogue = {1}
    Refs = {1, 9}
    Quantities = {1, 2}
    Prices = {5, 6}
    Terms <- MCTerms
    Payable <- MCPayable
    SeedStock <- TwoUnits
    MaxVersion = 2
SPECIFICATION FairSpec
INVARIANTS
    OneOrderPerVersion
    OrderMatchesCart
    ConflictUnreachable
PROPERTIES
    AnswerIsTrue
    ImplementsShop
    CallReturns

---------------------------- MODULE MCSalesStore ----------------------------
\* Instances of SalesStore for TLC.
EXTENDS SalesStore, TLC

CONSTANTS c1, c2, k1, k2, good, other, refused

MCCalls == {c1, c2}
OneCart == {k1}
TwoCarts == {k1, k2}
MCTerms == {good, other, refused}
MCPayable == {good, other}
OneUnit == [p \in Catalogue |-> 1]
TwoUnits == [p \in Catalogue |-> 2]

CallSymmetry == Permutations(MCCalls)
=============================================================================

----------------------------- MODULE MCWebChat -----------------------------
\* Instances of WebChat for TLC.
EXTENDS WebChat

\* A tool the browser knows and that leaves two records, and one it does not know.
TwoTools == {"createOrder", "validateDiscount"}
=============================================================================

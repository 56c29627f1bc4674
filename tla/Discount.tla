------------------------------ MODULE Discount ------------------------------
(***************************************************************************)
(* What the shop may charge for a product on a day (promotions.ts): the    *)
(* promotion in force, the effective price, and the decision on a price a  *)
(* customer asks for.  Prices are whole centimes.                          *)
(***************************************************************************)
EXTENDS Integers, FiniteSets

\* The only condition the code knows how to honour: while stocks last.
StocksLast == "dans la limite des stocks disponibles"

DiscretionaryPercent == 10

\* Mutated form: rounded down, so that a centime too much is given.
MinimumRoundedDown(base) == (base * (100 - DiscretionaryPercent)) \div 100

\* The lowest price the shop gives on its own: ten percent off, rounded up.
Minimum(base) == (base * (100 - DiscretionaryPercent) + 99) \div 100

-----------------------------------------------------------------------------
\* Rows of a product and of its promotions.
Row == [price: Nat, stock: Nat]
Promotions == [normal: Nat, promo: Nat, condition: STRING, starts: Int, ends: Int]

Active(promotions, day) == {p \in promotions : p.starts <= day /\ day <= p.ends}

\* Rows that contradict each other, or a condition nobody audited, are errors.
\* While nothing is in stock the prices of a promotion are not looked at.
\* Mutated form: nor are they otherwise.
BrokenUnlessAudited(product, active) ==
    \/ Cardinality(active) > 1
    \/ \E p \in active : p.condition # StocksLast

Broken(product, active) ==
    \/ Cardinality(active) > 1
    \/ \E p \in active : p.condition # StocksLast
    \/ product.stock > 0 /\ \E p \in active : p.normal # product.price

Applies(product, active) == active # {} /\ product.stock > 0

PromoPrice(active) == (CHOOSE p \in active : TRUE).promo

\* Effective price: also the base of a discount.
Effective(product, active) ==
    IF Applies(product, active) THEN PromoPrice(active) ELSE product.price

\* Nothing is given on top of a promotion.
Floor(product, active) ==
    IF Applies(product, active) THEN PromoPrice(active) ELSE Minimum(product.price)

\* What validateDiscount answers, for rows that are not broken.
Verdict(product, active, requested) ==
    LET base == Effective(product, active) IN
    CASE requested > base -> "refused"
      [] requested = base -> "allowed"
      [] requested < base /\ requested >= Floor(product, active) -> "allowed"
      [] OTHER -> "escalated"
=============================================================================

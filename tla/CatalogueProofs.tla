-------------------------- MODULE CatalogueProofs --------------------------
(***************************************************************************)
(* What the pricing and ranking operators compute, for every input.        *)
(***************************************************************************)
EXTENDS Discount, Alternatives, FiniteSetTheorems, TLAPS

-----------------------------------------------------------------------------
\* The floor

\* Integer arithmetic makes the ten percent exact: a price is at or above the
\* floor iff the discount is at most ten percent (promotions.ts:92-98).
THEOREM FloorIsTenPercent ==
    ASSUME NEW base \in Nat, NEW requested \in Nat
    PROVE  requested >= Minimum(base) <=> 100 * (base - requested) <= 10 * base
  <1>1. DiscretionaryPercent = 10
    BY DEF DiscretionaryPercent
  <1>2. Minimum(base) = (90 * base + 99) \div 100
    BY <1>1 DEF Minimum
  <1> QED
    BY <1>2, SMTT(30)

\* The floor is a price the product can have: not above the base, and not free.
LEMMA FloorInRange ==
    ASSUME NEW base \in Nat
    PROVE  /\ Minimum(base) \in Nat
           /\ Minimum(base) <= base
           /\ base > 0 => Minimum(base) > 0
  <1>1. Minimum(base) = (90 * base + 99) \div 100
    BY DEF Minimum, DiscretionaryPercent
  <1> QED
    BY <1>1, SMTT(30)

-----------------------------------------------------------------------------
\* The decision

\* The one promotion of rows that are not broken.
LEMMA PromotionInForce ==
    ASSUME NEW product \in Row, NEW active \in SUBSET Promotions,
           Applies(product, active), ~Broken(product, active)
    PROVE  \E p \in active : /\ PromoPrice(active) = p.promo
                             /\ p.normal = product.price
                             /\ p.condition = StocksLast
  <1>1. PICK p \in active : p = CHOOSE q \in active : TRUE
    BY DEF Applies
  <1>2. PromoPrice(active) = p.promo
    BY <1>1 DEF PromoPrice
  <1>3. p.normal = product.price /\ p.condition = StocksLast
    BY DEF Applies, Broken
  <1> QED
    BY <1>2, <1>3

\* What validateDiscount allows without a human: with a promotion its price and
\* nothing below, otherwise at most ten percent off (promotions.ts:258-316).
THEOREM AllowedIsInBounds ==
    ASSUME NEW product \in Row, NEW active \in SUBSET Promotions, NEW requested \in Nat,
           ~Broken(product, active), Verdict(product, active, requested) = "allowed"
    PROVE  \/ /\ Applies(product, active)
              /\ \E p \in active : requested = p.promo /\ p.normal = product.price
           \/ /\ ~Applies(product, active)
              /\ requested <= product.price
              /\ 100 * (product.price - requested) <= 10 * product.price
  <1> DEFINE base == Effective(product, active)
  <1>1. product.price \in Nat
    BY DEF Row
  <1>2. CASE Applies(product, active)
    <2>1. PICK p \in active : PromoPrice(active) = p.promo /\ p.normal = product.price
      BY <1>2, PromotionInForce
    <2>2. p.promo \in Nat
      BY DEF Promotions
    <2>3. base = p.promo /\ Floor(product, active) = p.promo
      BY <1>2, <2>1 DEF Effective, Floor
    <2>4. requested = p.promo
      BY <2>2, <2>3 DEF Verdict
    <2> QED
      BY <1>2, <2>1, <2>4
  <1>3. CASE ~Applies(product, active)
    <2>1. base = product.price /\ Floor(product, active) = Minimum(product.price)
      BY <1>3 DEF Effective, Floor
    <2>2. requested <= product.price /\ requested >= Minimum(product.price)
      BY <1>1, <2>1, FloorInRange DEF Verdict
    <2>3. 100 * (product.price - requested) <= 10 * product.price
      BY <1>1, <2>2, FloorIsTenPercent
    <2> QED
      BY <1>3, <2>2, <2>3
  <1> QED
    BY <1>2, <1>3

\* A human is asked exactly below the floor: no request between the floor and
\* the base is sent away, none below the floor is granted.
THEOREM EscalatedBelowTheFloor ==
    ASSUME NEW product \in Row, NEW active \in SUBSET Promotions, NEW requested \in Nat,
           ~Broken(product, active)
    PROVE  Verdict(product, active, requested) = "escalated" <=> requested < Floor(product, active)
  <1>1. product.price \in Nat
    BY DEF Row
  <1>2. Applies(product, active) => PromoPrice(active) \in Nat
    BY PromotionInForce DEF Promotions
  <1>3. /\ Floor(product, active) \in Nat
        /\ Effective(product, active) \in Nat
        /\ Floor(product, active) <= Effective(product, active)
    BY <1>1, <1>2, FloorInRange DEF Floor, Effective
  <1> QED
    BY <1>3 DEF Verdict

-----------------------------------------------------------------------------
\* The ranking

Article == [ref: Nat, model: STRING, family: STRING, gender: STRING, color: STRING, size: STRING,
            material: STRING, season: STRING, price: Nat, stock: Nat]

LEMMA ScoreInRange ==
    ASSUME NEW source \in Article, NEW c \in Article
    PROVE  /\ Score(source, c) \in Nat
           /\ c.model = source.model <=> Score(source, c) >= 100
  BY DEF Score, Points

LEMMA DistanceIsNat ==
    ASSUME NEW source \in Article, NEW c \in Article
    PROVE  Distance(source, c) \in Nat
  BY DEF Distance, Article

\* Another size or colour of the same model always comes before another model
\* (alternatives.ts:13-14).
THEOREM SameModelFirst ==
    ASSUME NEW source \in Article, NEW a \in Article, NEW b \in Article,
           a.model = source.model, b.model # source.model
    PROVE  Before(source, a, b)
  <1>1. Score(source, a) >= 100 /\ Score(source, a) \in Nat
    BY ScoreInRange
  <1>2. ~(Score(source, b) >= 100) /\ Score(source, b) \in Nat
    BY ScoreInRange
  <1> QED
    BY <1>1, <1>2 DEF Before

\* Of two comparisons in a row the third follows.
LEMMA BeforeTransitive ==
    ASSUME NEW source \in Article, NEW a \in Article, NEW b \in Article, NEW c \in Article,
           Before(source, a, b), Before(source, b, c)
    PROVE  Before(source, a, c)
  <1>1. Score(source, a) \in Nat /\ Score(source, b) \in Nat /\ Score(source, c) \in Nat
    BY ScoreInRange
  <1>2. Distance(source, a) \in Nat /\ Distance(source, b) \in Nat /\ Distance(source, c) \in Nat
    BY DistanceIsNat
  <1>3. /\ a.stock \in Nat /\ b.stock \in Nat /\ c.stock \in Nat
        /\ a.ref \in Nat /\ b.ref \in Nat /\ c.ref \in Nat
    BY DEF Article
  <1> QED
    BY <1>1, <1>2, <1>3 DEF Before

\* Of two products with different refs exactly one comes before the other, so the
\* sort depends neither on the order the rows came in nor on its algorithm
\* (alternatives.ts:38-64).
THEOREM RankingIsTotal ==
    ASSUME NEW source \in Article, NEW a \in Article, NEW b \in Article, a.ref # b.ref
    PROVE  /\ Before(source, a, b) \/ Before(source, b, a)
           /\ ~(Before(source, a, b) /\ Before(source, b, a))
  <1>1. Score(source, a) \in Nat /\ Score(source, b) \in Nat
    BY ScoreInRange
  <1>2. Distance(source, a) \in Nat /\ Distance(source, b) \in Nat
    BY DistanceIsNat
  <1>3. a.stock \in Nat /\ b.stock \in Nat /\ a.ref \in Nat /\ b.ref \in Nat
    BY DEF Article
  <1> QED
    BY <1>1, <1>2, <1>3 DEF Before

\* Nothing better is left out: what comes before an offered product is offered.
THEOREM NothingBetterLeftOut ==
    ASSUME NEW source \in Article, NEW products \in SUBSET Article, IsFiniteSet(products),
           NEW c \in Offered(source, products),
           NEW d \in Candidates(source, products), Before(source, d, c)
    PROVE  d \in Offered(source, products)
  <1> DEFINE Ahead(x) == {e \in Candidates(source, products) : Before(source, e, x)}
  <1>1. c \in Article /\ d \in Article /\ \A e \in Candidates(source, products) : e \in Article
    BY DEF Offered, Candidates
  <1>2. Ahead(d) \subseteq Ahead(c)
    BY <1>1, BeforeTransitive
  <1>3. IsFiniteSet(Ahead(c))
    <2>1. Ahead(c) \subseteq products
      BY DEF Candidates
    <2> QED
      BY <2>1, FS_Subset
  <1>4. Cardinality(Ahead(d)) <= Cardinality(Ahead(c))
    BY <1>2, <1>3, FS_Subset
  <1>5. Cardinality(Ahead(c)) < MaxAlternatives
    BY DEF Offered
  <1>6. Cardinality(Ahead(c)) \in Nat /\ Cardinality(Ahead(d)) \in Nat
    BY <1>2, <1>3, FS_Subset, FS_CardinalityType
  <1>7. Cardinality(Ahead(d)) < MaxAlternatives
    BY <1>4, <1>5, <1>6 DEF MaxAlternatives
  <1> QED
    BY <1>7 DEF Offered
=============================================================================

---------------------------- MODULE Alternatives ----------------------------
(***************************************************************************)
(* What is offered in place of a product that is not to be had             *)
(* (alternatives.ts).  Refs are numbers, in the order of their text.       *)
(***************************************************************************)
EXTENDS Integers, FiniteSets

MaxAlternatives == 3

Points(same, n) == IF same THEN n ELSE 0

Score(source, c) ==
    Points(c.model = source.model, 100)
    + Points(c.color = source.color, 10)
    + Points(c.size = source.size, 10)
    + Points(c.material = source.material, 3)
    + Points(c.season = source.season, 2)

Eligible(source, c) ==
    /\ c.family = source.family
    /\ c.gender = source.gender
    /\ c.stock > 0
    /\ c.ref # source.ref

Distance(source, c) == IF c.price >= source.price THEN c.price - source.price ELSE source.price - c.price

\* a is offered before b: score, then the nearer price, the larger stock, the ref.
Before(source, a, b) ==
    \/ Score(source, a) > Score(source, b)
    \/ /\ Score(source, a) = Score(source, b)
       /\ \/ Distance(source, a) < Distance(source, b)
          \/ /\ Distance(source, a) = Distance(source, b)
             /\ \/ a.stock > b.stock
                \/ a.stock = b.stock /\ a.ref < b.ref

Candidates(source, products) == {c \in products : Eligible(source, c)}

\* Sorted, and cut after the third: those that fewer than three come before.
Offered(source, products) ==
    {c \in Candidates(source, products) :
        Cardinality({d \in Candidates(source, products) : Before(source, d, c)}) < MaxAlternatives}
=============================================================================

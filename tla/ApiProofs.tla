----------------------------- MODULE ApiProofs -----------------------------
(***************************************************************************)
(* The properties of the API's other calls, for any number of them, of     *)
(* connections and of seed files.                                          *)
(***************************************************************************)
EXTENDS Api, FiniteSetTheorems, TLAPS

-----------------------------------------------------------------------------
\* The shop and its loader

ShopOK(s) ==
    /\ s \in [price: Nat, stock: Nat, promotions: SUBSET Promotions, past: Nat]
    /\ IsFiniteSet(s.promotions)

\* What is committed is never half a file; the draft has the history of its file
\* before it can be committed.
SeedInv ==
    /\ ShopOK(shop)
    /\ shop.past = inForce
    /\ file.past \in Nat
    /\ file.step \in {"none", "clear", "insert", "refresh", "check"}
    /\ file.promotions \in SUBSET Promotions /\ IsFiniteSet(file.promotions)
    /\ file.step # "none" => ShopOK(draft)
    /\ file.step \in {"refresh", "check"} => draft.past = file.past
    /\ orders \in Nat

LEMMA FilesOK ==
    ASSUME NEW f \in Files
    PROVE  /\ f.price \in Nat /\ f.stock \in Nat /\ f.past \in Nat /\ ShopOK(f)
           /\ f.promotions \in SUBSET Promotions /\ IsFiniteSet(f.promotions)
  BY ReadModelsAssumption DEF ShopOK

LEMMA SeedStart == Init => SeedInv
  <1> SUFFICES ASSUME Init PROVE SeedInv
    OBVIOUS
  <1>1. shop \in Files /\ inForce = shop.past
    BY DEF Init, ReadInit
  <1>2. ShopOK(shop)
    BY <1>1, FilesOK
  <1>3. file = NoFile /\ orders = 0
    BY DEF Init, ReadInit
  <1>4. IsFiniteSet({})
    BY FS_EmptySet
  <1> QED
    BY <1>1, <1>2, <1>3, <1>4 DEF SeedInv, NoFile

LEMMA SeedRests == SeedInv /\ UNCHANGED <<shop, draft, file, orders, inForce>> => SeedInv'
  BY DEF SeedInv, ShopOK

LEMMA SeedStep == SeedInv /\ ReadNext => SeedInv'
  <1> SUFFICES ASSUME SeedInv, ReadNext PROVE SeedInv'
    OBVIOUS
  <1> USE DEF SeedInv, Stage, Others
  <1>1. ASSUME NEW f \in Files, LoadProducts(f) PROVE SeedInv'
    <2>1. ShopOK(draft')
      BY <1>1, FilesOK DEF LoadProducts, ShopOK
    <2> QED
      BY <1>1, <2>1, FilesOK DEF LoadProducts
  <1>2. CASE ClearHistory
    <2>1. ShopOK(draft')
      BY <1>2 DEF ClearHistory, ShopOK
    <2> QED
      BY <1>2, <2>1 DEF ClearHistory
  <1>3. CASE InsertHistory
    <2>1. ShopOK(draft') /\ draft'.past = file.past
      BY <1>3 DEF InsertHistory, ShopOK
    <2> QED
      BY <1>3, <2>1 DEF InsertHistory
  <1>4. CASE RefreshPromotions
    <2>1. ShopOK(draft') /\ draft'.past = file.past
      BY <1>4 DEF RefreshPromotions, ShopOK
    <2> QED
      BY <1>4, <2>1 DEF RefreshPromotions
  <1>5. CASE CommitSeed
    BY <1>5, FS_EmptySet DEF CommitSeed, NoFile
  <1>6. CASE Rollback
    BY <1>6, FS_EmptySet DEF Rollback, NoFile
  <1>7. CASE Sell
    <2>1. ShopOK(shop') /\ shop'.past = shop.past
      BY <1>7 DEF Sell, ShopOK
    <2> QED
      BY <1>7, <2>1 DEF Sell
  <1>8. ASSUME NEW r \in Requested, NEW day \in Days, AskDiscount(r, day) PROVE SeedInv'
    BY <1>8, SeedRests DEF AskDiscount
  <1>9. CASE ReadRow \/ ReadPromotions \/ EndDiscount \/ AskMemory \/ ReadMemory \/ EndMemory
    BY <1>9, SeedRests DEF ReadRow, ReadPromotions, EndDiscount, AskMemory, ReadMemory, EndMemory
  <1> QED
    BY <1>1, <1>2, <1>3, <1>4, <1>5, <1>6, <1>7, <1>8, <1>9 DEF ReadNext

-----------------------------------------------------------------------------
\* The decision on a discount

WishInv ==
    /\ wish.step \in {"none", "product", "promotions", "done"}
    /\ wish.step \in {"product", "promotions"} => wish.requested \in Nat
    /\ wish.step = "promotions" => wish.product \in Row
    /\ DecisionIsRight

\* Rows that are not broken have one promotion at most.
LEMMA OnePromotion ==
    ASSUME NEW active, IsFiniteSet(active), ~(Cardinality(active) > 1),
           NEW p \in active, NEW q \in active
    PROVE  p = q
  <1> SUFFICES ASSUME p # q PROVE FALSE
    OBVIOUS
  <1>1. IsFiniteSet({p}) /\ Cardinality({p}) = 1
    BY FS_Singleton
  <1>2. IsFiniteSet({p} \cup {q}) /\ Cardinality({p} \cup {q}) = 2
    <2>1. q \notin {p}
      OBVIOUS
    <2>2. Cardinality({p} \cup {q}) = Cardinality({p}) + 1
      BY <1>1, <2>1, FS_AddElement, Zenon
    <2> QED
      BY <1>1, <2>2, FS_AddElement
  <1>3. Cardinality({p} \cup {q}) <= Cardinality(active)
    BY FS_Subset
  <1>4. Cardinality(active) \in Nat
    BY FS_CardinalityType
  <1> QED
    BY <1>2, <1>3, <1>4

\* The decision itself, on the two answers of the shop.
LEMMA VerdictIsRight ==
    ASSUME NEW product \in Row, NEW active \in SUBSET Promotions, IsFiniteSet(active),
           NEW requested \in Nat,
           ~Broken(product, active), Verdict(product, active, requested) = "allowed"
    PROVE  LET live == {p \in active : product.stock > 0} IN
           IF live = {}
           THEN requested <= product.price /\ 10 * requested >= 9 * product.price
           ELSE \A p \in live : /\ p.normal = product.price
                                /\ p.condition = StocksLast
                                /\ requested = p.promo
  <1>1. product.price \in Nat /\ product.stock \in Nat
    BY DEF Row
  <1>2. CASE Applies(product, active)
    <2>1. product.stock > 0 /\ active # {}
      BY <1>2 DEF Applies
    <2>2. ASSUME NEW p \in active
          PROVE  p.normal = product.price /\ p.condition = StocksLast /\ requested = p.promo
      <3>1. PromoPrice(active) = p.promo
        BY OnePromotion DEF PromoPrice, Broken
      <3>2. p.promo \in Nat
        BY DEF Promotions
      <3>3. requested = p.promo
        BY <1>2, <3>1, <3>2 DEF Verdict, Effective, Floor
      <3> QED
        BY <2>1, <3>3 DEF Broken
    <2> QED
      BY <2>1, <2>2
  <1>3. CASE ~Applies(product, active)
    <2>1. {p \in active : product.stock > 0} = {}
      BY <1>3 DEF Applies
    <2>2. Minimum(product.price) = (90 * product.price + 99) \div 100
      BY <1>1 DEF Minimum, DiscretionaryPercent
    <2>3. Minimum(product.price) \in Nat /\ 100 * Minimum(product.price) >= 90 * product.price
      BY <1>1, <2>2, SMTT(30)
    <2>4. requested <= product.price
      BY <1>1, <1>3, <2>3 DEF Verdict, Effective, Floor
    <2>5. requested = product.price \/ requested >= Minimum(product.price)
      BY <1>3 DEF Verdict, Effective, Floor
    <2>6. 10 * requested >= 9 * product.price
      BY <1>1, <2>3, <2>5
    <2> QED
      BY <2>1, <2>4, <2>6
  <1> QED
    BY <1>2, <1>3

LEMMA WishRests == WishInv /\ UNCHANGED wish => WishInv'
  BY DEF WishInv, DecisionIsRight

LEMMA WishStep == SeedInv /\ WishInv /\ ReadNext => WishInv'
  <1> SUFFICES ASSUME SeedInv, WishInv, ReadNext PROVE WishInv'
    OBVIOUS
  <1>1. ASSUME NEW r \in Requested, NEW day \in Days, AskDiscount(r, day) PROVE WishInv'
    BY <1>1, ReadModelsAssumption DEF AskDiscount, WishInv, DecisionIsRight
  <1>2. CASE ReadRow
    <2> DEFINE row == [price |-> shop.price, stock |-> shop.stock]
    <2>1. row \in Row
      BY DEF SeedInv, ShopOK, Row
    <2>2. CASE wish' = [step |-> "promotions", requested |-> wish.requested, day |-> wish.day,
                        product |-> row]
      BY <1>2, <2>1, <2>2 DEF ReadRow, WishInv, DecisionIsRight
    <2>3. CASE Decided("unknown", row, {})
      BY <2>3 DEF Decided, WishInv, DecisionIsRight
    <2> QED
      BY <1>2, <2>2, <2>3 DEF ReadRow
  <1>3. CASE ReadPromotions
    <2> DEFINE active == Active(shop.promotions, wish.day)
               a == IF Broken(wish.product, active) THEN "error"
                    ELSE Verdict(wish.product, active, wish.requested)
    <2>1. wish' = [step |-> "done", requested |-> wish.requested, answer |-> a,
                   product |-> wish.product, active |-> active]
      BY <1>3 DEF ReadPromotions, Decided
    <2>2. wish.product \in Row /\ wish.requested \in Nat
      BY <1>3 DEF ReadPromotions, WishInv
    <2>3. active \in SUBSET Promotions /\ IsFiniteSet(active)
      <3>1. active \subseteq shop.promotions
        BY DEF Active
      <3>2. shop.promotions \in SUBSET Promotions /\ IsFiniteSet(shop.promotions)
        BY DEF SeedInv, ShopOK
      <3> QED
        BY <3>1, <3>2, FS_Subset
    <2>4. DecisionIsRight'
      <3> SUFFICES ASSUME a = "allowed" PROVE DecisionIsRight'
        BY <2>1 DEF DecisionIsRight
      <3>1. ~Broken(wish.product, active) /\ Verdict(wish.product, active, wish.requested) = "allowed"
        OBVIOUS
      <3> HIDE DEF active, a
      <3> QED
        BY <2>1, <2>2, <2>3, <3>1, VerdictIsRight DEF DecisionIsRight
    <2> QED
      BY <2>1, <2>4 DEF WishInv
  <1>4. CASE EndDiscount
    BY <1>4 DEF EndDiscount, NoWish, WishInv, DecisionIsRight
  <1>5. ASSUME NEW f \in Files, LoadProducts(f) PROVE WishInv'
    BY <1>5, WishRests DEF LoadProducts, Others
  <1>6. CASE ClearHistory \/ InsertHistory \/ RefreshPromotions \/ CommitSeed \/ Rollback \/ Sell
             \/ AskMemory \/ ReadMemory \/ EndMemory
    BY <1>6, WishRests DEF ClearHistory, InsertHistory, RefreshPromotions, CommitSeed, Rollback,
                           Sell, AskMemory, ReadMemory, EndMemory, Others
  <1> QED
    BY <1>1, <1>2, <1>3, <1>4, <1>5, <1>6 DEF ReadNext
-----------------------------------------------------------------------------
\* The memory of a customer

\* The stages of a call that come after each statement.
AfterTotal == {"products", "done"}
AfterLives == AfterTotal \cup {"count past"}
AfterPast == AfterLives \cup {"count live"}
AfterLatest == AfterPast \cup {"latest past"}
Stages == AfterLatest \cup {"none", "latest live"}

Memories == [step: Stages, known: Nat, live: Nat, past: Nat, lives: Nat, total: Nat, products: Nat,
             since: SUBSET Nat]

\* What the statements so far have said, when the customer has n live orders and
\* the file in force has f past ones.  Live orders and files in force only add up.
Agrees(step, n, f, known, live, past, lives, total, products, since) ==
    /\ step # "none" => known <= n /\ f \in since
    /\ step \in AfterLatest => live <= n
    /\ step \in AfterPast => past \in since
    /\ step \in AfterLives => lives <= n /\ live <= lives /\ known <= lives
    /\ step \in AfterTotal => \E h \in since : total = lives + h
    /\ step = "done" => \E h \in since : lives + h <= products

MemoryInv ==
    /\ memory \in Memories
    /\ Agrees(memory.step, orders, inForce, memory.known, memory.live, memory.past, memory.lives,
              memory.total, memory.products, memory.since)

\* Each statement keeps the call consistent.
LEMMA StatementsAgree ==
    ASSUME NEW n \in Nat, NEW f \in Nat, NEW known \in Nat, NEW live \in Nat, NEW past \in Nat,
           NEW lives \in Nat, NEW total \in Nat, NEW products \in Nat, NEW since \in SUBSET Nat
    PROVE  /\ Agrees("latest live", n, f, n, live, past, lives, total, products, {f})
           /\ Agrees("latest live", n, f, known, live, past, lives, total, products, since)
              => Agrees("latest past", n, f, known, n, past, lives, total, products, since)
           /\ Agrees("latest past", n, f, known, live, past, lives, total, products, since)
              => Agrees("count live", n, f, known, live, f, lives, total, products, since)
           /\ Agrees("count live", n, f, known, live, past, lives, total, products, since)
              => Agrees("count past", n, f, known, live, past, n, total, products, since)
           /\ Agrees("count past", n, f, known, live, past, lives, total, products, since)
              => Agrees("products", n, f, known, live, past, lives, lives + f, products, since)
           /\ Agrees("products", n, f, known, live, past, lives, total, products, since)
              => Agrees("done", n, f, known, live, past, lives, total, n + f, since)
  BY DEF Agrees, AfterLatest, AfterPast, AfterLives, AfterTotal

\* A sale or a load between two statements takes nothing away.
LEMMA OthersAgree ==
    ASSUME NEW step, NEW n \in Nat, NEW k \in Nat, k >= n, NEW f \in Nat, NEW g \in Nat,
           NEW known \in Nat, NEW live \in Nat, NEW past \in Nat, NEW lives \in Nat,
           NEW total \in Nat, NEW products \in Nat, NEW since \in SUBSET Nat,
           Agrees(step, n, f, known, live, past, lives, total, products, since)
    PROVE  /\ Agrees(step, k, f, known, live, past, lives, total, products, since)
           /\ Agrees(step, n, g, known, live, past, lives, total, products, since \cup {g})
           /\ step = "none" => Agrees(step, n, g, known, live, past, lives, total, products, since)
  <1>1. /\ step # "none" => known <= n /\ f \in since
        /\ step \in AfterLatest => live <= n
        /\ step \in AfterPast => past \in since
        /\ step \in AfterLives => lives <= n /\ live <= lives /\ known <= lives
        /\ step \in AfterTotal => \E h \in since : total = lives + h
        /\ step = "done" => \E h \in since : lives + h <= products
    BY Zenon DEF Agrees
  <1>2. /\ known <= n => known <= k
        /\ live <= n => live <= k
        /\ lives <= n => lives <= k
    OBVIOUS
  <1>3. Agrees(step, k, f, known, live, past, lives, total, products, since)
    BY <1>1, <1>2, Zenon DEF Agrees
  <1>4. Agrees(step, n, g, known, live, past, lives, total, products, since \cup {g})
    BY <1>1, Zenon DEF Agrees
  <1>5. step = "none" => Agrees(step, n, g, known, live, past, lives, total, products, since)
    BY <1>1 DEF Agrees, AfterLatest, AfterPast, AfterLives, AfterTotal
  <1> QED
    BY <1>3, <1>4, <1>5

LEMMA MemoryNumbers ==
    ASSUME NEW m \in Memories
    PROVE  /\ m.known \in Nat /\ m.live \in Nat /\ m.past \in Nat /\ m.since \in SUBSET Nat
           /\ m.lives \in Nat /\ m.total \in Nat /\ m.products \in Nat
  BY DEF Memories

LEMMA MemoryRests ==
    SeedInv /\ MemoryInv /\ UNCHANGED <<memory, inForce>> /\ orders' \in Nat /\ orders' >= orders
    => MemoryInv'
  <1> SUFFICES ASSUME SeedInv, MemoryInv, UNCHANGED <<memory, inForce>>,
                      orders' \in Nat, orders' >= orders
               PROVE  MemoryInv'
    OBVIOUS
  <1>1. orders \in Nat /\ inForce \in Nat
    BY DEF SeedInv, ShopOK
  <1>2. Agrees(memory.step, orders', inForce, memory.known, memory.live, memory.past, memory.lives,
               memory.total, memory.products, memory.since)
    BY <1>1, MemoryNumbers, OthersAgree DEF MemoryInv
  <1> QED
    BY <1>2, Zenon DEF MemoryInv

\* A call whose record is consistent.
LEMMA MemoryIs ==
    ASSUME NEW step \in Stages, orders' = orders, NEW known \in Nat, NEW live \in Nat,
           NEW past \in Nat, NEW lives \in Nat, NEW total \in Nat, NEW products \in Nat,
           NEW since \in SUBSET Nat,
           Agrees(step, orders, inForce', known, live, past, lives, total, products, since),
           memory' = [step |-> step, known |-> known, live |-> live, past |-> past,
                      lives |-> lives, total |-> total, products |-> products, since |-> since]
    PROVE  MemoryInv'
  <1>1. memory' \in Memories
    BY DEF Memories
  <1> QED
    BY <1>1 DEF MemoryInv

LEMMA MemoryStep == SeedInv /\ MemoryInv /\ ReadNext => MemoryInv'
  <1> SUFFICES ASSUME SeedInv, MemoryInv, ReadNext PROVE MemoryInv'
    OBVIOUS
  <1>0. orders \in Nat /\ inForce \in Nat /\ file.past \in Nat /\ shop.past = inForce
    BY DEF SeedInv, ShopOK
  <1>n. /\ memory \in Memories /\ memory.since \in SUBSET Nat
        /\ memory.known \in Nat /\ memory.live \in Nat /\ memory.past \in Nat
        /\ memory.lives \in Nat /\ memory.total \in Nat /\ memory.products \in Nat
    BY MemoryNumbers DEF MemoryInv
  <1>s. AfterLatest \cup {"latest live"} \subseteq Stages
    BY DEF Stages
  <1>v. orders + inForce \in Nat /\ memory.lives + inForce \in Nat /\ {inForce} \in SUBSET Nat
    BY <1>0, <1>n
  <1> USE DEF AfterLatest, AfterPast, AfterLives, AfterTotal
  <1>1. CASE AskMemory
    <2>1. memory' = [step |-> "latest live", known |-> orders, live |-> memory.live, past |-> memory.past,
                     lives |-> memory.lives, total |-> memory.total, products |-> memory.products, since |-> {inForce}]
      BY <1>n, <1>1 DEF AskMemory, Memories
    <2>2. Agrees("latest live", orders, inForce, orders, memory.live, memory.past, memory.lives, memory.total, memory.products, {inForce})
      BY <1>0, <1>n, StatementsAgree
    <2>3. orders' = orders /\ inForce' = inForce
      BY <1>1, Zenon DEF AskMemory
    <2> QED
      BY <1>0, <1>n, <1>s, <1>v, <2>1, <2>2, <2>3, MemoryIs
  <1>2. CASE ReadMemory
    <2>0. orders' = orders /\ inForce' = inForce
      BY <1>2, Zenon DEF ReadMemory
    <2>1. CASE /\ memory.step = "latest live"
              /\ memory' = [memory EXCEPT !.step = "latest past", !.live = orders]
      <3>1. memory' = [step |-> "latest past", known |-> memory.known, live |-> orders, past |-> memory.past,
                       lives |-> memory.lives, total |-> memory.total, products |-> memory.products, since |-> memory.since]
        BY <1>n, <2>1 DEF Memories
      <3>2. Agrees("latest live", orders, inForce, memory.known, memory.live, memory.past, memory.lives, memory.total, memory.products, memory.since)
        BY <2>1 DEF MemoryInv
      <3>3. Agrees("latest past", orders, inForce, memory.known, orders, memory.past, memory.lives, memory.total, memory.products, memory.since)
        BY <1>0, <1>n, <3>2, StatementsAgree
      <3> QED
        BY <1>0, <1>n, <1>s, <1>v, <2>0, <3>1, <3>3, MemoryIs
    <2>2. CASE /\ memory.step = "latest past"
              /\ memory' = [memory EXCEPT !.step = "count live", !.past = inForce]
      <3>1. memory' = [step |-> "count live", known |-> memory.known, live |-> memory.live, past |-> inForce,
                       lives |-> memory.lives, total |-> memory.total, products |-> memory.products, since |-> memory.since]
        BY <1>n, <2>2 DEF Memories
      <3>2. Agrees("latest past", orders, inForce, memory.known, memory.live, memory.past, memory.lives, memory.total, memory.products, memory.since)
        BY <2>2 DEF MemoryInv
      <3>3. Agrees("count live", orders, inForce, memory.known, memory.live, inForce, memory.lives, memory.total, memory.products, memory.since)
        BY <1>0, <1>n, <3>2, StatementsAgree
      <3> QED
        BY <1>0, <1>n, <1>s, <1>v, <2>0, <3>1, <3>3, MemoryIs
    <2>3. CASE /\ memory.step = "count live"
              /\ memory' = [memory EXCEPT !.step = "count past", !.lives = orders]
      <3>1. memory' = [step |-> "count past", known |-> memory.known, live |-> memory.live, past |-> memory.past,
                       lives |-> orders, total |-> memory.total, products |-> memory.products, since |-> memory.since]
        BY <1>n, <2>3 DEF Memories
      <3>2. Agrees("count live", orders, inForce, memory.known, memory.live, memory.past, memory.lives, memory.total, memory.products, memory.since)
        BY <2>3 DEF MemoryInv
      <3>3. Agrees("count past", orders, inForce, memory.known, memory.live, memory.past, orders, memory.total, memory.products, memory.since)
        BY <1>0, <1>n, <3>2, StatementsAgree
      <3> QED
        BY <1>0, <1>n, <1>s, <1>v, <2>0, <3>1, <3>3, MemoryIs
    <2>4. CASE /\ memory.step = "count past"
              /\ memory' = [memory EXCEPT !.step = "products", !.total = memory.lives + inForce]
      <3>1. memory' = [step |-> "products", known |-> memory.known, live |-> memory.live, past |-> memory.past,
                       lives |-> memory.lives, total |-> memory.lives + inForce, products |-> memory.products, since |-> memory.since]
        BY <1>n, <2>4 DEF Memories
      <3>2. Agrees("count past", orders, inForce, memory.known, memory.live, memory.past, memory.lives, memory.total, memory.products, memory.since)
        BY <2>4 DEF MemoryInv
      <3>3. Agrees("products", orders, inForce, memory.known, memory.live, memory.past, memory.lives, memory.lives + inForce, memory.products, memory.since)
        BY <1>0, <1>n, <3>2, StatementsAgree
      <3> QED
        BY <1>0, <1>n, <1>s, <1>v, <2>0, <3>1, <3>3, MemoryIs
    <2>5. CASE /\ memory.step = "products"
              /\ memory' = [memory EXCEPT !.step = "done", !.products = orders + inForce]
      <3>1. memory' = [step |-> "done", known |-> memory.known, live |-> memory.live, past |-> memory.past,
                       lives |-> memory.lives, total |-> memory.total, products |-> orders + inForce, since |-> memory.since]
        BY <1>n, <2>5 DEF Memories
      <3>2. Agrees("products", orders, inForce, memory.known, memory.live, memory.past, memory.lives, memory.total, memory.products, memory.since)
        BY <2>5 DEF MemoryInv
      <3>3. Agrees("done", orders, inForce, memory.known, memory.live, memory.past, memory.lives, memory.total, orders + inForce, memory.since)
        BY <1>0, <1>n, <3>2, StatementsAgree
      <3> QED
        BY <1>0, <1>n, <1>s, <1>v, <2>0, <3>1, <3>3, MemoryIs
    <2> QED
      BY <1>0, <1>2, <2>1, <2>2, <2>3, <2>4, <2>5 DEF ReadMemory
  <1>3. CASE EndMemory
    BY <1>3 DEF EndMemory, NoMemory, MemoryInv, Agrees, Memories, Stages
  <1>4. CASE CommitSeed
    <2>1. orders' = orders /\ inForce' = file.past
      BY <1>4 DEF CommitSeed
    <2>2. CASE memory.step = "none"
      <3>1. memory' = memory
        BY <1>4, <2>2 DEF CommitSeed
      <3>2. Agrees(memory.step, orders, file.past, memory.known, memory.live, memory.past,
                   memory.lives, memory.total, memory.products, memory.since)
        BY <2>2 DEF Agrees
      <3> QED
        BY <1>n, <2>1, <3>1, <3>2, Zenon DEF MemoryInv
    <2>3. CASE memory.step # "none"
      <3>1. memory' = [step |-> memory.step, known |-> memory.known, live |-> memory.live,
                       past |-> memory.past, lives |-> memory.lives, total |-> memory.total,
                       products |-> memory.products, since |-> memory.since \cup {file.past}]
        BY <1>n, <1>4, <2>3 DEF CommitSeed, Memories
      <3>0. Agrees(memory.step, orders, inForce, memory.known, memory.live, memory.past,
                   memory.lives, memory.total, memory.products, memory.since)
        BY DEF MemoryInv
      <3>2. Agrees(memory.step, orders, file.past, memory.known, memory.live, memory.past,
                   memory.lives, memory.total, memory.products, memory.since \cup {file.past})
        BY <1>0, <1>n, <3>0, OthersAgree
      <3>3. memory.since \cup {file.past} \in SUBSET Nat /\ memory.step \in Stages
        BY <1>0, <1>n DEF Memories
      <3> QED
        BY <1>n, <2>1, <3>1, <3>2, <3>3, MemoryIs
    <2> QED
      BY <2>2, <2>3
  <1>5. CASE Sell
    BY <1>0, <1>5, MemoryRests DEF Sell
  <1>6. ASSUME NEW f \in Files, LoadProducts(f) PROVE MemoryInv'
    BY <1>0, <1>6, MemoryRests DEF LoadProducts, Others
  <1>7. ASSUME NEW r \in Requested, NEW day \in Days, AskDiscount(r, day) PROVE MemoryInv'
    BY <1>0, <1>7, MemoryRests DEF AskDiscount
  <1>8. CASE ClearHistory \/ InsertHistory \/ RefreshPromotions \/ Rollback
             \/ ReadRow \/ ReadPromotions \/ EndDiscount
    BY <1>0, <1>8, MemoryRests DEF ClearHistory, InsertHistory, RefreshPromotions,
                                   Rollback, ReadRow, ReadPromotions, EndDiscount, Others
  <1> QED
    BY <1>1, <1>2, <1>3, <1>4, <1>5, <1>6, <1>7, <1>8 DEF ReadNext

-----------------------------------------------------------------------------
\* The theorems on calls that read

ReadersInv == SeedInv /\ WishInv /\ MemoryInv

LEMMA ReadersInvariant == Spec => []ReadersInv
  <1>1. Init => ReadersInv
    <2>1. Init => WishInv
      BY DEF Init, ReadInit, NoWish, WishInv, DecisionIsRight
    <2>2. Init => MemoryInv
      BY DEF Init, ReadInit, NoMemory, MemoryInv, Agrees, Memories, Stages, AfterLatest, AfterPast, AfterLives, AfterTotal
    <2> QED
      BY <2>1, <2>2, SeedStart DEF ReadersInv
  <1>2. ReadersInv /\ [Next]_vars => ReadersInv'
    <2>1. ReadersInv /\ ReadNext => ReadersInv'
      BY SeedStep, WishStep, MemoryStep DEF ReadersInv
    <2>2. ReadersInv /\ UNCHANGED readVars => ReadersInv'
      <3> SUFFICES ASSUME ReadersInv, UNCHANGED readVars PROVE ReadersInv'
        OBVIOUS
      <3>1. orders' \in Nat /\ orders' >= orders
        BY DEF ReadersInv, SeedInv, readVars
      <3> QED
        BY <3>1, SeedRests, WishRests, MemoryRests DEF ReadersInv, readVars
    <2> QED
      BY <2>1, <2>2 DEF Next, vars
  <1> QED
    BY <1>1, <1>2, PTL DEF Spec

\* Whatever is written between its two statements, a decision allows no price
\* below the ten percent of the list price it read, nor one beside the promotion
\* of that list price (promotions.ts:129-193, 258-310).
THEOREM DecisionsAreRight == Spec => []DecisionIsRight
  <1>1. ReadersInv => DecisionIsRight
    BY DEF ReadersInv, WishInv
  <1> QED
    BY <1>1, ReadersInvariant, PTL

\* Whatever is sold or loaded while it is collected, a memory is made of live
\* orders, of which it misses none that was on record when it began, and of past
\* orders of files that were in force meanwhile, never of a load that was not
\* committed (customerMemory.ts:57-170, kenza.ts:509-551).
THEOREM MemoriesAreTrue == Spec => []MemoryIsTrue
  <1>1. ReadersInv => MemoryIsTrue
    <2> SUFFICES ASSUME ReadersInv, memory.step = "done" PROVE MemoryIsTrue
      BY DEF MemoryIsTrue
    <2>1. /\ memory \in Memories
          /\ memory.known <= memory.lives /\ memory.live <= memory.lives
          /\ memory.past \in memory.since
          /\ \E past \in memory.since : memory.lives + past <= memory.products
      BY DEF ReadersInv, MemoryInv, Agrees, AfterPast, AfterLives, AfterTotal
    <2>2. PICK past \in memory.since : memory.total = memory.lives + past
      BY DEF ReadersInv, MemoryInv, Agrees, AfterTotal
    <2>3. past \in Nat /\ memory.lives \in Nat
      BY <2>1 DEF Memories
    <2>4. memory.total - memory.lives = past
      BY <2>2, <2>3
    <2> QED
      BY <2>1, <2>4 DEF MemoryIsTrue
  <1> QED
    BY <1>1, ReadersInvariant, PTL

-----------------------------------------------------------------------------
\* The page

PageInv ==
    /\ page \in [mounted : BOOLEAN, loading : BOOLEAN, error : BOOLEAN, data : BOOLEAN]
    /\ awaited \subseteq Loads
    /\ PageIsTrue

LEMMA PageRests == PageInv /\ UNCHANGED <<page, current, awaited>> => PageInv'
  BY DEF PageInv, PageIsTrue

LEMMA PageStep == PageInv /\ DashNext => PageInv'
  <1> SUFFICES ASSUME PageInv, DashNext PROVE PageInv'
    OBVIOUS
  <1> USE DEF PageInv, PageIsTrue
  <1>0. NoOne \notin Loads
    BY DashboardAssumption
  <1>1. ASSUME NEW l \in Loads, Mount(l) PROVE PageInv'
    <2>1. page' = Fresh /\ \E m \in Loads : current' = m /\ m \in awaited' /\ awaited' \subseteq Loads
      BY <1>1 DEF Mount
    <2> QED
      BY <1>0, <2>1 DEF Fresh
  <1>2. ASSUME NEW l \in Loads, Refresh(l) PROVE PageInv'
    BY <1>0, <1>2 DEF Refresh
  <1>3. CASE Unmount
    BY <1>3 DEF Unmount, Unmounted
  <1>4. ASSUME NEW l \in Loads, Deliver(l) PROVE PageInv'
    <2>1. CASE l # current
      BY <1>4, <2>1 DEF Deliver
    <2>2. CASE l = current
      BY <1>0, <1>4, <2>2 DEF Deliver
    <2> QED
      BY <2>1, <2>2
  <1>5. ASSUME NEW l \in Loads, NEW p \in 1..Panels,
               QueryEnds(l, p) \/ QueryTimesOut(l, p) \/ QueryGivesUp(l, p)
        PROVE  PageInv'
    BY <1>5, PageRests DEF QueryEnds, QueryTimesOut, QueryGivesUp
  <1> QED
    BY <1>1, <1>2, <1>3, <1>4, <1>5 DEF DashNext

\* Of however many requests, aborted or late, the page shows the one it asked for
\* last, and never an error above figures (Dashboard.tsx:28-60).
THEOREM PagesAreTrue == Spec => []PageIsTrue
  <1>1. Init => PageInv
    BY DEF Init, DashInit, Unmounted, PageInv, PageIsTrue
  <1>2. PageInv /\ [Next]_vars => PageInv'
    BY PageStep, PageRests DEF Next, vars, dashVars
  <1>3. PageInv => PageIsTrue
    BY DEF PageInv
  <1> QED
    BY <1>1, <1>2, <1>3, PTL DEF Spec
=============================================================================

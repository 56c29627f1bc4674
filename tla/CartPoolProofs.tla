--------------------------- MODULE CartPoolProofs ---------------------------
(***************************************************************************)
(* Connections and transactions of the pool, for any number of either, of  *)
(* calls and of loads.                                                     *)
(***************************************************************************)
EXTENDS Api, SequenceTheorems, TLAPS

Users == Callers \cup Readers

\* Those who have a connection, and those who wait for one.
Holds == {u \in Users : \E i \in Conns : holder[i] = u}
Waits == {u \in Users : \E n \in DOMAIN queue : queue[n] = u}

HolderOK ==
    /\ holder \in [Conns -> Users \cup {NoOne}]
    /\ \A i, j \in Conns : holder[i] = holder[j] /\ holder[i] # NoOne => i = j

QueueOK ==
    /\ queue \in Seq(Users)
    /\ \A m, n \in DOMAIN queue : queue[m] = queue[n] => m = n

PoolInv == HolderOK /\ QueueOK /\ Holds \cap Waits = {}

-----------------------------------------------------------------------------
\* Who is who

LEMMA Distinct ==
    /\ NoOne \notin Users /\ Callers \subseteq Users /\ Readers \subseteq Users
    /\ Callers \cap Readers = {}
    /\ \A c, d \in Calls : /\ Main(c) \in Callers /\ Read(c) \in Callers
                           /\ Main(c) # Read(d)
                           /\ c # d => Main(c) # Main(d) /\ Read(c) # Read(d)
  <1>1. NoOne \notin Users /\ Callers \subseteq Users /\ Readers \subseteq Users
    BY CartPoolAssumption, DashboardAssumption DEF Callers, Readers, Users
  <1>2. Callers \cap Readers = {}
    BY ApiAssumption DEF Callers, Readers
  <1>3. "main" # "read"
    OBVIOUS
  <1> QED
    BY <1>1, <1>2, <1>3 DEF Callers, Main, Read

-----------------------------------------------------------------------------
\* What the operations of the pool do to the two sets

LEMMA HolderKept == HolderOK /\ UNCHANGED holder => HolderOK' /\ Holds' = Holds
  BY DEF HolderOK, Holds

LEMMA QueueKept == QueueOK /\ UNCHANGED queue => QueueOK' /\ Waits' = Waits
  BY DEF QueueOK, Waits

LEMMA Returned ==
    ASSUME NEW u \in Users, HolderOK, Return(u)
    PROVE  HolderOK' /\ Holds' = Holds \ {u}
  <1>1. \A i \in Conns : holder'[i] = IF holder[i] = u THEN NoOne ELSE holder[i]
    BY DEF Return
  <1>2. holder' \in [Conns -> Users \cup {NoOne}]
    BY DEF Return, HolderOK
  <1>3. HolderOK'
    BY <1>1, <1>2, Distinct DEF HolderOK
  <1>4. Holds' = Holds \ {u}
    BY <1>1, Distinct DEF Holds
  <1> QED
    BY <1>3, <1>4

LEMMA Asked ==
    ASSUME NEW u \in Users, QueueOK, u \notin Waits, Ask(u)
    PROVE  QueueOK' /\ Waits' = Waits \cup {u}
  <1>1. queue \in Seq(Users)
    BY DEF QueueOK
  <1>2. /\ queue' \in Seq(Users)
        /\ DOMAIN queue = 1..Len(queue) /\ Len(queue) \in Nat
        /\ DOMAIN queue' = 1..(Len(queue) + 1)
        /\ \A n \in DOMAIN queue : queue'[n] = queue[n]
        /\ queue'[Len(queue) + 1] = u
    BY <1>1, AppendProperties, LenProperties DEF Ask
  <1>3. \A n \in DOMAIN queue : queue[n] # u
    BY DEF Waits
  <1>4. \A n \in DOMAIN queue' : n \in DOMAIN queue \/ n = Len(queue) + 1
    BY <1>2
  <1>5. QueueOK'
    BY <1>2, <1>3, <1>4 DEF QueueOK
  <1>6. Waits' = Waits \cup {u}
    <2>1. Len(queue) + 1 \in DOMAIN queue' /\ DOMAIN queue \subseteq DOMAIN queue'
      BY <1>2
    <2> QED
      BY <1>2, <1>4, <2>1 DEF Waits
  <1> QED
    BY <1>5, <1>6

\* The place of n's successor moves up by one.
LEMMA GivenUp ==
    ASSUME NEW u \in Users, QueueOK, GiveUp(u)
    PROVE  /\ QueueOK'
           /\ Waits' = Waits \ {u}
           /\ u \in Waits
  <1>1. PICK n \in DOMAIN queue :
           /\ queue[n] = u
           /\ queue' = [m \in 1..(Len(queue) - 1) |-> queue[IF m < n THEN m ELSE m + 1]]
    BY DEF GiveUp
  <1>2. /\ queue \in Seq(Users) /\ Len(queue) \in Nat /\ DOMAIN queue = 1..Len(queue)
        /\ \A m \in DOMAIN queue : queue[m] \in Users
    BY LenProperties, ElementOfSeq DEF QueueOK
  <1>3. Len(queue) - 1 \in Nat /\ n \in 1..Len(queue)
    BY <1>1, <1>2
  <1> DEFINE up(m) == IF m < n THEN m ELSE m + 1
  <1>4. \A m \in 1..(Len(queue) - 1) : up(m) \in 1..Len(queue) /\ up(m) # n
    BY <1>3
  <1>5. DOMAIN queue' = 1..(Len(queue) - 1) /\ \A m \in DOMAIN queue' : queue'[m] = queue[up(m)]
    BY <1>1
  <1>6. queue' \in Seq(Users)
    <2>1. queue' = [m \in 1..(Len(queue) - 1) |-> queue[up(m)]]
      BY <1>1
    <2>2. \A m \in 1..(Len(queue) - 1) : queue[up(m)] \in Users
      BY <1>2, <1>4
    <2> HIDE DEF up
    <2> QED
      BY <1>3, <2>1, <2>2, IsASeq
  <1>7. \A k \in DOMAIN queue : k # n => \E m \in DOMAIN queue' : up(m) = k
    <2> SUFFICES ASSUME NEW k \in 1..Len(queue), k # n
                 PROVE  \E m \in 1..(Len(queue) - 1) : up(m) = k
      BY <1>2, <1>5
    <2>1. CASE k < n
      <3>1. k \in 1..(Len(queue) - 1) /\ up(k) = k
        BY <1>3, <2>1
      <3> QED
        BY <3>1
    <2>2. CASE k > n
      <3>1. k - 1 \in 1..(Len(queue) - 1) /\ up(k - 1) = k
        BY <1>3, <2>2
      <3> QED
        BY <3>1
    <2> QED
      BY <1>3, <2>1, <2>2
  <1>8. \A m, k \in DOMAIN queue' : up(m) = up(k) => m = k
    BY <1>3, <1>5
  <1>9. \A m \in DOMAIN queue' : up(m) \in DOMAIN queue /\ up(m) # n
    BY <1>2, <1>4, <1>5
  <1> HIDE DEF up
  <1>10. QueueOK'
    BY <1>5, <1>6, <1>8, <1>9 DEF QueueOK
  <1>11. Waits' = Waits \ {u}
    <2>1. ASSUME NEW w \in Users, NEW m \in DOMAIN queue', queue'[m] = w
          PROVE  w \in Waits /\ w # u
      BY <1>1, <1>5, <1>9, <2>1 DEF Waits, QueueOK
    <2>2. ASSUME NEW w \in Users, NEW k \in DOMAIN queue, queue[k] = w, w # u
          PROVE  w \in Waits'
      <3>1. PICK m \in DOMAIN queue' : up(m) = k
        BY <1>1, <1>7, <2>2
      <3> QED
        BY <1>5, <2>2, <3>1 DEF Waits
    <2> QED
      BY <2>1, <2>2 DEF Waits
  <1>12. u \in Waits
    BY <1>1 DEF Waits
  <1> QED
    BY <1>10, <1>11, <1>12

\* A load asks for the connections of its statements at once.
LEMMA LoadsAsk ==
    ASSUME QueueOK, NEW s \in Seq(Readers), queue' = queue \o s,
           \A m, n \in DOMAIN s : s[m] = s[n] => m = n,
           \A n \in DOMAIN s : s[n] \notin Waits
    PROVE  QueueOK' /\ Waits' = Waits \cup {s[n] : n \in DOMAIN s}
  <1>1. queue \in Seq(Users) /\ s \in Seq(Users)
    BY SeqMonotonic DEF QueueOK, Users
  <1>2. /\ Len(queue) \in Nat /\ Len(s) \in Nat
        /\ DOMAIN queue = 1..Len(queue) /\ DOMAIN s = 1..Len(s)
        /\ \A n \in DOMAIN s : s[n] \in Users
        /\ \A n \in DOMAIN queue : queue[n] \in Users
    BY <1>1, LenProperties, ElementOfSeq
  <1>3. /\ queue' \in Seq(Users)
        /\ DOMAIN queue' = 1..(Len(queue) + Len(s))
        /\ \A n \in DOMAIN queue' : queue'[n] = IF n <= Len(queue) THEN queue[n] ELSE s[n - Len(queue)]
    BY <1>1, <1>2, ConcatProperties, LenProperties
  <1>4. \A n \in DOMAIN queue : n \in DOMAIN queue' /\ queue'[n] = queue[n]
    BY <1>2, <1>3
  <1>5. \A n \in DOMAIN s : n + Len(queue) \in DOMAIN queue' /\ queue'[n + Len(queue)] = s[n]
    BY <1>2, <1>3
  <1>6. ASSUME NEW n \in DOMAIN queue', n \notin DOMAIN queue
        PROVE  n - Len(queue) \in DOMAIN s /\ queue'[n] = s[n - Len(queue)]
    BY <1>2, <1>3, <1>6
  <1>7. \A m \in DOMAIN queue, n \in DOMAIN s : queue[m] # s[n]
    BY <1>2 DEF Waits
  <1>8. ASSUME NEW m \in DOMAIN queue', NEW n \in DOMAIN queue', queue'[m] = queue'[n] PROVE m = n
    <2>1. CASE m \in DOMAIN queue /\ n \in DOMAIN queue
      BY <1>4, <1>8, <2>1 DEF QueueOK
    <2>2. CASE m \notin DOMAIN queue /\ n \notin DOMAIN queue
      <3>1. m - Len(queue) = n - Len(queue)
        BY <1>6, <1>8, <2>2
      <3> QED
        BY <1>2, <1>3, <3>1
    <2>3. CASE m \in DOMAIN queue /\ n \notin DOMAIN queue
      BY <1>4, <1>6, <1>7, <1>8, <2>3
    <2>4. CASE m \notin DOMAIN queue /\ n \in DOMAIN queue
      BY <1>4, <1>6, <1>7, <1>8, <2>4
    <2> QED
      BY <2>1, <2>2, <2>3, <2>4
  <1>9. QueueOK'
    BY <1>3, <1>8 DEF QueueOK
  <1>10. ASSUME NEW n \in DOMAIN queue' PROVE queue'[n] \in Waits \cup {s[k] : k \in DOMAIN s}
    <2>1. CASE n \in DOMAIN queue
      BY <1>2, <1>4, <2>1 DEF Waits
    <2>2. CASE n \notin DOMAIN queue
      BY <1>6, <2>2
    <2> QED
      BY <2>1, <2>2
  <1>11. Waits \subseteq Waits'
    BY <1>4 DEF Waits
  <1>12. \A n \in DOMAIN s : s[n] \in Waits'
    BY <1>2, <1>5 DEF Waits
  <1>13. Waits' \subseteq Waits \cup {s[n] : n \in DOMAIN s}
    BY <1>10 DEF Waits
  <1> QED
    BY <1>9, <1>11, <1>12, <1>13

LEMMA Served ==
    ASSUME PoolInv, Serve
    PROVE  PoolInv' /\ Holds \subseteq Holds' /\ Waits' \subseteq Waits /\ Holds' \subseteq Holds \cup Waits
  <1>1. PICK i \in Conns : Free(i) /\ holder' = [holder EXCEPT ![i] = Head(queue)]
    BY DEF Serve
  <1>2. /\ queue \in Seq(Users) /\ queue # <<>> /\ queue' = Tail(queue)
        /\ Len(queue) \in Nat /\ DOMAIN queue = 1..Len(queue)
    BY LenProperties DEF Serve, PoolInv, QueueOK
  <1>3. /\ Head(queue) \in Users /\ Head(queue) = queue[1] /\ 1 \in DOMAIN queue
        /\ queue' \in Seq(Users) /\ DOMAIN queue' = 1..(Len(queue) - 1)
        /\ \A n \in DOMAIN queue' : queue'[n] = queue[n + 1] /\ n + 1 \in DOMAIN queue
    BY <1>2, HeadTailProperties, LenProperties, EmptySeq
  <1>4. QueueOK'
    BY <1>3 DEF PoolInv, QueueOK
  <1>5. Waits' \subseteq Waits \ {Head(queue)}
    BY <1>2, <1>3 DEF Waits, PoolInv, QueueOK
  <1>6. Head(queue) \in Waits
    BY <1>3 DEF Waits
  <1>7. holder[i] = NoOne
    BY <1>1 DEF Free
  <1>8. HolderOK'
    BY <1>1, <1>3, <1>6, <1>7, Distinct DEF PoolInv, HolderOK, Holds
  <1>9. Holds \subseteq Holds' /\ Holds' \subseteq Holds \cup {Head(queue)}
    BY <1>1, <1>7, Distinct DEF PoolInv, HolderOK, Holds
  <1> QED
    BY <1>4, <1>5, <1>6, <1>8, <1>9 DEF PoolInv

-----------------------------------------------------------------------------
\* The steps of a call, as the pool sees them

LEMMA UserHas == ASSUME NEW u \in Users PROVE Has(u) <=> u \in Holds
  BY DEF Has, Holds

LEMMA PoolRests ==
    PoolInv /\ UNCHANGED <<holder, queue>> => PoolInv' /\ Holds' = Holds /\ Waits' = Waits
  BY HolderKept, QueueKept DEF PoolInv

LEMMA PoolReturn ==
    ASSUME NEW u \in Users, PoolInv, Return(u), UNCHANGED queue
    PROVE  PoolInv' /\ Holds' = Holds \ {u} /\ Waits' = Waits
  BY Returned, QueueKept DEF PoolInv

LEMMA PoolAsk ==
    ASSUME NEW u \in Users, PoolInv, u \notin Holds \cup Waits, Ask(u), UNCHANGED holder
    PROVE  PoolInv' /\ Holds' = Holds /\ Waits' = Waits \cup {u}
  BY Asked, HolderKept DEF PoolInv

LEMMA PoolReturnAsk ==
    ASSUME NEW u \in Users, PoolInv, u \in Holds, Return(u), Ask(u)
    PROVE  PoolInv' /\ Holds' = Holds \ {u} /\ Waits' = Waits \cup {u}
  <1>1. u \notin Waits
    BY DEF PoolInv
  <1> QED
    BY <1>1, Returned, Asked DEF PoolInv

LEMMA PoolGiveUp ==
    ASSUME NEW u \in Users, PoolInv, GiveUp(u), UNCHANGED holder
    PROVE  PoolInv' /\ Holds' = Holds /\ Waits' = Waits \ {u} /\ u \in Waits
  BY GivenUp, HolderKept DEF PoolInv

LEMMA PoolGiveUpReturn ==
    ASSUME NEW u \in Users, PoolInv, GiveUp(u), Return(u)
    PROVE  PoolInv' /\ Holds' = Holds \ {u} /\ Waits' = Waits \ {u} /\ u \in Waits
  BY GivenUp, Returned DEF PoolInv

-----------------------------------------------------------------------------
\* Where a call is, and what it has

PlaceOf(c) ==
    /\ Main(c) \in Waits => pc[c] \in {"begin", "insert"}
    /\ Main(c) \in Holds => pc[c] \notin {"idle", "over"}
    /\ Read(c) \in Holds \cup Waits => pc[c] \in {"product", "promotion"}
    /\ pc[c] \in {"lock", "stuck", "write", "commit", "undo"} => Main(c) \in Holds
    /\ pc[c] \in {"product", "promotion"} => (Main(c) \in Holds <=> arg[c].op # "quote")

PlacesInv ==
    /\ PoolInv
    /\ pc \in [Calls -> Steps]
    /\ arg \in [Calls -> Args]
    /\ \A c \in Calls : PlaceOf(c)

LEMMA PlacesOfOne ==
    ASSUME PlacesInv, NEW c \in Calls, PoolInv', pc' \in [Calls -> Steps], arg' \in [Calls -> Args],
           \A d \in Calls \ {c} : pc'[d] = pc[d] /\ arg'[d] = arg[d],
           \A u \in Callers \ {Main(c), Read(c)} : /\ u \in Holds' <=> u \in Holds
                                                   /\ u \in Waits' <=> u \in Waits,
           PlaceOf(c)'
    PROVE  PlacesInv'
  <1>1. ASSUME NEW d \in Calls PROVE PlaceOf(d)'
    <2>1. CASE d = c
      BY <2>1
    <2>2. CASE d # c
      <3>1. /\ Main(d) \in Callers \ {Main(c), Read(c)}
            /\ Read(d) \in Callers \ {Main(c), Read(c)}
        BY <2>2, Distinct
      <3> QED
        BY <2>2, <3>1 DEF PlacesInv, PlaceOf
    <2> QED
      BY <2>1, <2>2
  <1> QED
    BY <1>1 DEF PlacesInv

LEMMA PlacesRest ==
    ASSUME PlacesInv, PoolInv', UNCHANGED <<pc, arg>>,
           \A u \in Callers : (u \in Holds' <=> u \in Holds) /\ (u \in Waits' <=> u \in Waits)
    PROVE  PlacesInv'
  <1>1. ASSUME NEW c \in Calls PROVE PlaceOf(c)'
    BY Distinct DEF PlacesInv, PlaceOf
  <1> QED
    BY <1>1 DEF PlacesInv

LEMMA PlacesServed == PlacesInv /\ Serve /\ UNCHANGED <<pc, arg>> => PlacesInv'
  <1> SUFFICES ASSUME PlacesInv, Serve, UNCHANGED <<pc, arg>> PROVE PlacesInv'
    OBVIOUS
  <1>1. PoolInv' /\ Holds \subseteq Holds' /\ Waits' \subseteq Waits /\ Holds' \subseteq Holds \cup Waits
    BY Served DEF PlacesInv
  <1>2. ASSUME NEW c \in Calls PROVE PlaceOf(c)'
    BY <1>1 DEF PlacesInv, PlaceOf
  <1> QED
    BY <1>1, <1>2 DEF PlacesInv

LEMMA NoArgsIs == NoArgs \in Args /\ NoArgs.op = "quote"
  <1>1. \E k \in Carts : TRUE
    BY CartPoolAssumption
  <1>2. PICK k \in Carts : TRUE
    BY <1>1
  <1>3. [op |-> "quote", cart |-> k] \in Args
    BY DEF Args, Ops
  <1>4. \E a \in Args : a.op = "quote"
    BY <1>3
  <1> QED
    BY <1>4 DEF NoArgs

LEMMA PlacesStep == PlacesInv /\ CartNext => PlacesInv'
  <1> SUFFICES ASSUME PlacesInv, CartNext PROVE PlacesInv'
    OBVIOUS
  <1> USE DEF Steps, Goto
  <1>0. ASSUME NEW c \in Calls
        PROVE  /\ pc \in [Calls -> Steps] /\ arg \in [Calls -> Args]
               /\ Main(c) \in Callers /\ Read(c) \in Callers /\ Main(c) # Read(c)
               /\ Main(c) \in Users /\ Read(c) \in Users
               /\ PlaceOf(c) /\ PoolInv
               /\ \A u \in Callers : ~(u \in Holds /\ u \in Waits)
    BY Distinct DEF PlacesInv, PoolInv, Users
  <1>1. ASSUME NEW c \in Calls, NEW a \in Args, Begin(c, a) PROVE PlacesInv'
    <2>1. arg' = [arg EXCEPT ![c] = a] /\ pc[c] = "idle" /\ UNCHANGED holder
      BY <1>1 DEF Begin
    <2>2. /\ Main(c) \notin Holds \cup Waits /\ Read(c) \notin Holds \cup Waits
          /\ arg' \in [Calls -> Args]
          /\ \A d \in Calls \ {c} : arg'[d] = arg[d]
          /\ arg'[c] = a
      BY <1>0, <2>1 DEF PlaceOf
    <2>3. ASSUME a.op = "quote", Ask(Read(c)), Goto(c, "product") PROVE PlacesInv'
      <3>1. PoolInv' /\ Holds' = Holds /\ Waits' = Waits \cup {Read(c)}
        BY <1>0, <2>1, <2>2, <2>3, PoolAsk
      <3>2. PlaceOf(c)'
        BY <1>0, <2>2, <2>3, <3>1 DEF PlaceOf
      <3> QED
        BY <1>0, <2>2, <2>3, <3>1, <3>2, PlacesOfOne
    <2>4. ASSUME NEW step \in {"insert", "begin"}, Ask(Main(c)), Goto(c, step) PROVE PlacesInv'
      <3>1. PoolInv' /\ Holds' = Holds /\ Waits' = Waits \cup {Main(c)}
        BY <1>0, <2>1, <2>2, <2>4, PoolAsk
      <3>2. PlaceOf(c)'
        BY <1>0, <2>2, <2>4, <3>1 DEF PlaceOf
      <3> QED
        BY <1>0, <2>2, <2>4, <3>1, <3>2, PlacesOfOne
    <2> QED
      BY <1>1, <2>3, <2>4 DEF Begin
  <1>2. ASSUME NEW c \in Calls, OpenTx(c) PROVE PlacesInv'
    <2>1. PoolInv' /\ Holds' = Holds /\ Waits' = Waits
      BY <1>0, <1>2, PoolRests DEF OpenTx, poolVars
    <2>2. /\ pc' \in [Calls -> Steps] /\ arg' \in [Calls -> Args]
          /\ \A d \in Calls \ {c} : pc'[d] = pc[d] /\ arg'[d] = arg[d]
      BY <1>0, <1>2 DEF OpenTx
    <2>3. PlaceOf(c)'
      BY <1>0, <1>2, <2>1, UserHas DEF OpenTx, PlaceOf
    <2> QED
      BY <1>0, <2>1, <2>2, <2>3, PlacesOfOne
  <1>5. ASSUME NEW c \in Calls, ReadPromotion(c) PROVE PlacesInv'
    <2>1. PoolInv' /\ Holds' = Holds \ {Read(c)} /\ Waits' = Waits
      BY <1>0, <1>5, PoolReturn DEF ReadPromotion
    <2>2. /\ pc' \in [Calls -> Steps] /\ arg' \in [Calls -> Args]
          /\ \A d \in Calls \ {c} : pc'[d] = pc[d] /\ arg'[d] = arg[d]
      BY <1>0, <1>5 DEF ReadPromotion, EndRead
    <2>3. PlaceOf(c)'
      BY <1>0, <1>5, <2>1, UserHas DEF ReadPromotion, EndRead, PlaceOf
    <2> QED
      BY <1>0, <2>1, <2>2, <2>3, PlacesOfOne
  <1>6. ASSUME NEW c \in Calls, Write(c) PROVE PlacesInv'
    <2>1. PoolInv' /\ Holds' = Holds /\ Waits' = Waits
      BY <1>0, <1>6, PoolRests DEF Write, poolVars
    <2>2. /\ pc' \in [Calls -> Steps] /\ arg' \in [Calls -> Args]
          /\ \A d \in Calls \ {c} : pc'[d] = pc[d] /\ arg'[d] = arg[d]
      BY <1>0, <1>6 DEF Write
    <2>3. PlaceOf(c)'
      BY <1>0, <1>6, <2>1 DEF Write, PlaceOf
    <2> QED
      BY <1>0, <2>1, <2>2, <2>3, PlacesOfOne
  <1>7. ASSUME NEW c \in Calls, Commit(c) PROVE PlacesInv'
    <2>1. PoolInv' /\ Holds' = Holds \ {Main(c)} /\ Waits' = Waits
      BY <1>0, <1>7, PoolReturn DEF Commit, End
    <2>2. /\ pc' \in [Calls -> Steps] /\ arg' \in [Calls -> Args]
          /\ \A d \in Calls \ {c} : pc'[d] = pc[d] /\ arg'[d] = arg[d]
      BY <1>0, <1>7 DEF Commit, End
    <2>3. PlaceOf(c)'
      BY <1>0, <1>7, <2>1 DEF Commit, End, PlaceOf
    <2> QED
      BY <1>0, <2>1, <2>2, <2>3, PlacesOfOne
  <1>8. ASSUME NEW c \in Calls, Undo(c) PROVE PlacesInv'
    <2>1. PoolInv' /\ Holds' = Holds \ {Main(c)} /\ Waits' = Waits
      BY <1>0, <1>8, PoolReturn DEF Undo, End
    <2>2. /\ pc' \in [Calls -> Steps] /\ arg' \in [Calls -> Args]
          /\ \A d \in Calls \ {c} : pc'[d] = pc[d] /\ arg'[d] = arg[d]
      BY <1>0, <1>8 DEF Undo, End
    <2>3. PlaceOf(c)'
      BY <1>0, <1>8, <2>1 DEF Undo, End, PlaceOf
    <2> QED
      BY <1>0, <2>1, <2>2, <2>3, PlacesOfOne
  <1>9. ASSUME NEW c \in Calls, Insert(c) PROVE PlacesInv'
    <2>1. PoolInv' /\ Holds' = Holds \ {Main(c)} /\ Waits' = Waits
      BY <1>0, <1>9, PoolReturn DEF Insert, End
    <2>2. /\ pc' \in [Calls -> Steps] /\ arg' \in [Calls -> Args]
          /\ \A d \in Calls \ {c} : pc'[d] = pc[d] /\ arg'[d] = arg[d]
      BY <1>0, <1>9 DEF Insert, End
    <2>3. PlaceOf(c)'
      BY <1>0, <1>9, <2>1, UserHas DEF Insert, End, PlaceOf
    <2> QED
      BY <1>0, <2>1, <2>2, <2>3, PlacesOfOne
  <1>10. ASSUME NEW c \in Calls, Unstick(c) PROVE PlacesInv'
    <2>1. PoolInv' /\ Holds' = Holds /\ Waits' = Waits
      BY <1>0, <1>10, PoolRests DEF Unstick, poolVars
    <2>2. /\ pc' \in [Calls -> Steps] /\ arg' \in [Calls -> Args]
          /\ \A d \in Calls \ {c} : pc'[d] = pc[d] /\ arg'[d] = arg[d]
      BY <1>0, <1>10 DEF Unstick
    <2>3. PlaceOf(c)'
      BY <1>0, <1>10, <2>1 DEF Unstick, PlaceOf
    <2> QED
      BY <1>0, <2>1, <2>2, <2>3, PlacesOfOne
  <1>11. ASSUME NEW c \in Calls, Leave(c) PROVE PlacesInv'
    <2>1. PoolInv' /\ Holds' = Holds /\ Waits' = Waits
      BY <1>0, <1>11, PoolRests DEF Leave, poolVars
    <2>2. /\ pc' \in [Calls -> Steps] /\ arg' \in [Calls -> Args]
          /\ \A d \in Calls \ {c} : pc'[d] = pc[d] /\ arg'[d] = arg[d]
      BY <1>0, <1>11, NoArgsIs DEF Leave
    <2>3. PlaceOf(c)'
      BY <1>0, <1>11, <2>1 DEF Leave, PlaceOf
    <2> QED
      BY <1>0, <2>1, <2>2, <2>3, PlacesOfOne
  <1>14. ASSUME NEW c \in Calls, Break(c) PROVE PlacesInv'
    <2>1. PoolInv' /\ Holds' = Holds \ {Main(c)} /\ Waits' = Waits
      BY <1>0, <1>14, PoolReturn DEF Break, End
    <2>2. /\ pc' \in [Calls -> Steps] /\ arg' \in [Calls -> Args]
          /\ \A d \in Calls \ {c} : pc'[d] = pc[d] /\ arg'[d] = arg[d]
      BY <1>0, <1>14 DEF Break, End
    <2>3. PlaceOf(c)'
      BY <1>0, <1>14, <2>1, UserHas DEF Break, End, PlaceOf
    <2> QED
      BY <1>0, <2>1, <2>2, <2>3, PlacesOfOne
  <1>3. ASSUME NEW c \in Calls, LockCart(c) PROVE PlacesInv'
    <2>1. /\ pc' \in [Calls -> Steps] /\ arg' \in [Calls -> Args]
          /\ \A d \in Calls \ {c} : pc'[d] = pc[d] /\ arg'[d] = arg[d]
          /\ pc[c] = "lock" /\ Main(c) \in Holds /\ Read(c) \notin Holds \cup Waits
      BY <1>0, <1>3 DEF LockCart, PlaceOf
    <2>2. CASE UNCHANGED queue /\ pc'[c] \in {"undo", "write"}
      <3>1. PoolInv' /\ Holds' = Holds /\ Waits' = Waits
        BY <1>0, <1>3, <2>2, PoolRests DEF LockCart
      <3>2. PlaceOf(c)'
        BY <1>0, <2>1, <2>2, <3>1 DEF PlaceOf
      <3> QED
        BY <1>0, <2>1, <3>1, <3>2, PlacesOfOne
    <2>3. CASE Ask(Read(c)) /\ pc'[c] = "product" /\ arg'[c].op = "add"
      <3>1. PoolInv' /\ Holds' = Holds /\ Waits' = Waits \cup {Read(c)}
        BY <1>0, <1>3, <2>1, <2>3, PoolAsk DEF LockCart
      <3>2. PlaceOf(c)'
        BY <1>0, <2>1, <2>3, <3>1 DEF PlaceOf
      <3> QED
        BY <1>0, <2>1, <3>1, <3>2, PlacesOfOne
    <2> QED
      BY <1>0, <1>3, <2>2, <2>3 DEF LockCart
  <1>4. ASSUME NEW c \in Calls, ReadProduct(c) PROVE PlacesInv'
    <2>1. /\ pc' \in [Calls -> Steps] /\ arg' \in [Calls -> Args]
          /\ \A d \in Calls \ {c} : pc'[d] = pc[d] /\ arg'[d] = arg[d]
          /\ pc[c] = "product" /\ Read(c) \in Holds /\ UNCHANGED arg
      BY <1>0, <1>4, UserHas DEF ReadProduct, EndRead
    <2>2. CASE Goto(c, "promotion") /\ Ask(Read(c))
      <3>1. PoolInv' /\ Holds' = Holds \ {Read(c)} /\ Waits' = Waits \cup {Read(c)}
        BY <1>0, <1>4, <2>1, <2>2, PoolReturnAsk DEF ReadProduct
      <3>2. PlaceOf(c)'
        BY <1>0, <2>1, <2>2, <3>1 DEF PlaceOf
      <3> QED
        BY <1>0, <2>1, <3>1, <3>2, PlacesOfOne
    <2>3. CASE EndRead(c, "refused") /\ UNCHANGED queue
      <3>1. PoolInv' /\ Holds' = Holds \ {Read(c)} /\ Waits' = Waits
        BY <1>0, <1>4, <2>3, PoolReturn DEF ReadProduct
      <3>2. PlaceOf(c)'
        BY <1>0, <2>1, <2>3, <3>1 DEF PlaceOf, EndRead
      <3> QED
        BY <1>0, <2>1, <3>1, <3>2, PlacesOfOne
    <2> QED
      BY <1>4, <2>2, <2>3 DEF ReadProduct
  <1>12. ASSUME NEW c \in Calls, Expire(c) PROVE PlacesInv'
    <2>1. /\ pc' \in [Calls -> Steps] /\ arg' \in [Calls -> Args]
          /\ \A d \in Calls \ {c} : pc'[d] = pc[d] /\ arg'[d] = arg[d]
          /\ UNCHANGED arg
      BY <1>0, <1>12 DEF Expire, End, EndRead
    <2>2. CASE GiveUp(Main(c)) /\ End(c, "error")
      <3>1. /\ PoolInv' /\ Holds' = Holds \ {Main(c)} /\ Waits' = Waits \ {Main(c)}
            /\ Main(c) \in Waits
        BY <1>0, <2>2, PoolGiveUpReturn DEF End
      <3>2. PlaceOf(c)'
        BY <1>0, <2>1, <2>2, <3>1 DEF PlaceOf, End
      <3> QED
        BY <1>0, <2>1, <3>1, <3>2, PlacesOfOne
    <2>3. CASE GiveUp(Read(c)) /\ EndRead(c, "error") /\ UNCHANGED holder
      <3>1. /\ PoolInv' /\ Holds' = Holds /\ Waits' = Waits \ {Read(c)}
            /\ Read(c) \in Waits
        BY <1>0, <2>3, PoolGiveUp
      <3>2. PlaceOf(c)'
        BY <1>0, <2>1, <2>3, <3>1 DEF PlaceOf, EndRead
      <3> QED
        BY <1>0, <2>1, <3>1, <3>2, PlacesOfOne
    <2> QED
      BY <1>12, <2>2, <2>3 DEF Expire
  <1>13. ASSUME NEW c \in Calls, TimeOut(c) PROVE PlacesInv'
    <2>1. /\ pc' \in [Calls -> Steps] /\ arg' \in [Calls -> Args]
          /\ \A d \in Calls \ {c} : pc'[d] = pc[d] /\ arg'[d] = arg[d]
          /\ UNCHANGED arg
      BY <1>0, <1>13 DEF TimeOut, EndRead
    <2>2. CASE pc[c] \in {"lock", "write"} /\ pc'[c] \in {"stuck", "undo"} /\ UNCHANGED poolVars
      <3>1. PoolInv' /\ Holds' = Holds /\ Waits' = Waits
        BY <1>0, <2>2, PoolRests DEF poolVars
      <3>2. PlaceOf(c)'
        BY <1>0, <2>1, <2>2, <3>1 DEF PlaceOf
      <3> QED
        BY <1>0, <2>1, <3>1, <3>2, PlacesOfOne
    <2>3. CASE /\ pc[c] \in {"product", "promotion"}
               /\ Forsake(Read(c)) /\ EndRead(c, "error") /\ UNCHANGED queue
      <3>1. /\ PoolInv' /\ Holds' = Holds \ {Read(c)} /\ Waits' = Waits
            /\ Read(c) \in Holds
        BY <1>0, <2>3, PoolReturn, UserHas DEF Forsake
      <3>2. PlaceOf(c)'
        BY <1>0, <2>1, <2>3, <3>1 DEF PlaceOf, EndRead
      <3> QED
        BY <1>0, <2>1, <3>1, <3>2, PlacesOfOne
    <2> QED
      BY <1>0, <1>13, <2>2, <2>3 DEF TimeOut
  <1> QED
    BY <1>1, <1>2, <1>3, <1>4, <1>5, <1>6, <1>7, <1>8, <1>9, <1>10, <1>11, <1>12, <1>13, <1>14
       DEF CartNext, CallStep

\* A load asks only when nothing of it is left in the pool.
LEMMA ReadsAre ==
    ASSUME NEW l \in Loads
    PROVE  /\ Reads(l) \in Seq(Readers) /\ Len(Reads(l)) = Panels /\ DOMAIN Reads(l) = 1..Panels
           /\ \A p \in 1..Panels : Reads(l)[p] = <<l, p>> /\ <<l, p>> \in Readers
           /\ Over(l) => \A p \in 1..Panels : <<l, p>> \notin Holds \cup Waits
  <1>1. Panels \in Nat /\ \A p \in 1..Panels : <<l, p>> \in Readers
    BY DashboardAssumption DEF Readers
  <1>2. Reads(l) \in Seq(Readers)
    BY <1>1, IsASeq DEF Reads
  <1>3. DOMAIN Reads(l) = 1..Panels /\ \A p \in 1..Panels : Reads(l)[p] = <<l, p>>
    BY DEF Reads
  <1>4. Len(Reads(l)) = Panels
    BY <1>1, <1>2, <1>3, LenProperties
  <1>5. Over(l) => \A p \in 1..Panels : <<l, p>> \notin Holds \cup Waits
    BY DEF Over, Reading, Has, Waiting, Holds, Waits
  <1> QED
    BY <1>1, <1>2, <1>3, <1>4, <1>5

LEMMA PoolLoadsAsk ==
    ASSUME PoolInv, NEW s \in Seq(Readers), queue' = queue \o s, UNCHANGED holder,
           \A m, n \in DOMAIN s : s[m] = s[n] => m = n,
           \A n \in DOMAIN s : s[n] \notin Holds \cup Waits
    PROVE  PoolInv' /\ Holds' = Holds /\ Waits' \cap Callers = Waits \cap Callers
  <1>1. QueueOK' /\ Waits' = Waits \cup {s[n] : n \in DOMAIN s}
    BY LoadsAsk DEF PoolInv
  <1>2. HolderOK' /\ Holds' = Holds
    BY HolderKept DEF PoolInv
  <1>3. \A n \in DOMAIN s : s[n] \notin Callers
    BY Distinct, ElementOfSeq, LenProperties
  <1> QED
    BY <1>1, <1>2, <1>3 DEF PoolInv

\* The loads come and go, whatever the calls have.
LEMMA PoolLoads ==
    ASSUME PoolInv, DashNext
    PROVE  PoolInv' /\ Holds' \cap Callers = Holds \cap Callers /\ Waits' \cap Callers = Waits \cap Callers
  <1>1. ASSUME NEW l \in Loads, Over(l), Fetch(l)
        PROVE  PoolInv' /\ Holds' = Holds /\ Waits' \cap Callers = Waits \cap Callers
    <2>1. ASSUME NEW m \in DOMAIN Reads(l), NEW n \in DOMAIN Reads(l), Reads(l)[m] = Reads(l)[n]
          PROVE  m = n
      <3>1. m \in 1..Panels /\ n \in 1..Panels
        BY ReadsAre
      <3>2. Reads(l)[m] = <<l, m>> /\ Reads(l)[n] = <<l, n>>
        BY <3>1 DEF Reads
      <3>3. <<l, m>> = <<l, n>>
        BY <2>1, <3>2
      <3> QED
        BY <3>1, <3>3
    <2>2. \A n \in DOMAIN Reads(l) : Reads(l)[n] \notin Holds \cup Waits
      BY <1>1, ReadsAre
    <2> QED
      BY <1>1, <2>1, <2>2, ReadsAre, PoolLoadsAsk DEF Fetch
  <1>2. ASSUME NEW l \in Loads, NEW m \in Loads \ {l}, Over(l), Over(m),
               queue' = queue \o Reads(l) \o Reads(m), UNCHANGED holder
        PROVE  PoolInv' /\ Holds' = Holds /\ Waits' \cap Callers = Waits \cap Callers
    <2> DEFINE s == Reads(l) \o Reads(m)
    <2>1. /\ s \in Seq(Readers)
          /\ Panels \in Nat /\ DOMAIN s = 1..(Panels + Panels)
          /\ \A n \in DOMAIN s : s[n] = IF n <= Panels THEN <<l, n>> ELSE <<m, n - Panels>>
      <3>1. Panels \in Nat
        BY DashboardAssumption
      <3>2. /\ s \in Seq(Readers) /\ Len(s) = Panels + Panels
            /\ \A n \in 1..(Panels + Panels) : s[n] = IF n <= Panels THEN Reads(l)[n] ELSE Reads(m)[n - Panels]
        <4>1. /\ Reads(l) \in Seq(Readers) /\ Len(Reads(l)) = Panels
              /\ Reads(m) \in Seq(Readers) /\ Len(Reads(m)) = Panels
          BY ReadsAre
        <4> QED
          BY <4>1, ConcatProperties
      <3>3. DOMAIN s = 1..(Panels + Panels)
        BY <3>2, LenProperties
      <3>4. ASSUME NEW n \in 1..(Panels + Panels)
            PROVE  s[n] = IF n <= Panels THEN <<l, n>> ELSE <<m, n - Panels>>
        <4>1. IF n <= Panels THEN n \in 1..Panels ELSE n - Panels \in 1..Panels
          BY <3>1
        <4> HIDE DEF s
        <4> QED
          BY <3>2, <4>1, ReadsAre
      <3> HIDE DEF s
      <3> QED
        BY <3>1, <3>2, <3>3, <3>4
    <2>2. queue' = queue \o s
      <3>1. queue \in Seq(Users) /\ Reads(l) \in Seq(Users) /\ Reads(m) \in Seq(Users)
        BY ReadsAre, SeqMonotonic DEF PoolInv, QueueOK, Users
      <3> QED
        BY <1>2, <3>1, ConcatAssociative
    <2> HIDE DEF s
    <2>3. ASSUME NEW i \in DOMAIN s, NEW j \in DOMAIN s, s[i] = s[j] PROVE i = j
      <3>1. IF i <= Panels THEN s[i] = <<l, i>> ELSE s[i] = <<m, i - Panels>>
        BY <2>1
      <3>2. IF j <= Panels THEN s[j] = <<l, j>> ELSE s[j] = <<m, j - Panels>>
        BY <2>1
      <3>3. i \in Int /\ j \in Int
        BY <2>1
      <3> QED
        BY <2>1, <2>3, <3>1, <3>2, <3>3
    <2>4. ASSUME NEW n \in DOMAIN s PROVE s[n] \notin Holds \cup Waits
      <3>1. IF n <= Panels THEN n \in 1..Panels ELSE n - Panels \in 1..Panels
        BY <2>1
      <3> QED
        BY <1>2, <2>1, <3>1, ReadsAre
    <2> QED
      BY <1>2, <2>1, <2>2, <2>3, <2>4, PoolLoadsAsk
  <1>3. ASSUME NEW l \in Loads, NEW p \in 1..Panels
        PROVE  <<l, p>> \in Users /\ <<l, p>> \notin Callers
    BY Distinct DEF Readers
  <1>4. ASSUME NEW l \in Loads, Mount(l) PROVE PoolInv' /\ Holds' = Holds /\ Waits' \cap Callers = Waits \cap Callers
    BY <1>1, <1>2, <1>4 DEF Mount
  <1>5. ASSUME NEW l \in Loads, Refresh(l) PROVE PoolInv' /\ Holds' = Holds /\ Waits' \cap Callers = Waits \cap Callers
    BY <1>1, <1>5 DEF Refresh
  <1>6. CASE Unmount \/ \E l \in Loads : Deliver(l)
    BY <1>6, PoolRests DEF Unmount, Deliver, poolVars
  <1>7. ASSUME NEW l \in Loads, NEW p \in 1..Panels, QueryEnds(l, p) \/ QueryTimesOut(l, p)
        PROVE  PoolInv' /\ Holds' \cap Callers = Holds \cap Callers /\ Waits' = Waits
    <2>1. Return(<<l, p>>) /\ UNCHANGED queue
      BY <1>7 DEF QueryEnds, QueryTimesOut, Forsake
    <2> QED
      BY <1>3, <2>1, PoolReturn
  <1>8. ASSUME NEW l \in Loads, NEW p \in 1..Panels, QueryGivesUp(l, p)
        PROVE  PoolInv' /\ Holds' = Holds /\ Waits' \cap Callers = Waits \cap Callers
    <2>1. GiveUp(<<l, p>>) /\ UNCHANGED holder
      BY <1>8 DEF QueryGivesUp
    <2> QED
      BY <1>3, <2>1, PoolGiveUp
  <1> QED
    BY <1>4, <1>5, <1>6, <1>7, <1>8 DEF DashNext

-----------------------------------------------------------------------------
\* The invariant of the places

LEMMA PlacesStart == Init => PlacesInv
  <1> SUFFICES ASSUME Init PROVE PlacesInv
    OBVIOUS
  <1>1. /\ holder = [i \in Conns |-> NoOne] /\ queue = <<>>
        /\ pc = [c \in Calls |-> "idle"] /\ arg = [c \in Calls |-> NoArgs]
    BY DEF Init, PoolInit, CartInit
  <1>2. Holds = {} /\ HolderOK
    BY <1>1, Distinct DEF Holds, HolderOK
  <1>3. Waits = {} /\ QueueOK
    BY <1>1, EmptySeq DEF Waits, QueueOK
  <1>4. \A c \in Calls : PlaceOf(c)
    BY <1>1, <1>2, <1>3 DEF PlaceOf
  <1> QED
    BY <1>1, <1>2, <1>3, <1>4, NoArgsIs DEF PlacesInv, PoolInv, Steps

LEMMA PlacesNext == PlacesInv /\ [Next]_vars => PlacesInv'
  <1> SUFFICES ASSUME PlacesInv, [Next]_vars PROVE PlacesInv'
    OBVIOUS
  <1>1. CASE Serve /\ UNCHANGED callVars
    BY <1>1, PlacesServed DEF callVars
  <1>2. CASE (\E i \in Conns : Settle(i)) /\ UNCHANGED callVars
    BY <1>2, PoolRests, PlacesRest DEF Settle, callVars, PlacesInv
  <1>3. CASE CartNext
    BY <1>3, PlacesStep
  <1>4. CASE DashNext /\ UNCHANGED callVars
    BY <1>4, PoolLoads, PlacesRest DEF callVars, PlacesInv
  <1>5. CASE UNCHANGED <<poolVars, callVars>>
    BY <1>5, PoolRests, PlacesRest DEF poolVars, callVars, PlacesInv
  <1> QED
    BY <1>1, <1>2, <1>3, <1>4, <1>5 DEF Next, PoolStep, vars

-----------------------------------------------------------------------------
\* Transactions

TxInv ==
    /\ tx \in [Conns -> {"none", "open"} \cup Carts]
    /\ OwnTransaction

Outside == {"idle", "over", "begin", "insert"}

\* What is open stays where it is, and its call stays in it.
LEMMA TxStays ==
    ASSUME TxInv, tx' \in [Conns -> {"none", "open"} \cup Carts],
           \A i \in Conns : tx'[i] # "none" => tx'[i] = tx[i] /\ holder'[i] = holder[i],
           \A d \in Calls, i \in Conns :
               tx'[i] # "none" /\ pc[d] \notin Outside /\ holder'[i] = Main(d)
                   => pc'[d] \notin Outside /\ arg'[d] = arg[d]
    PROVE  TxInv'
  <1> SUFFICES ASSUME NEW i \in Conns, tx'[i] # "none"
               PROVE  \E c \in Calls : /\ holder'[i] = Main(c)
                                       /\ pc'[c] \notin Outside
                                       /\ tx'[i] \in {"open", arg'[c].cart}
    BY DEF TxInv, OwnTransaction, Outside
  <1>1. tx'[i] = tx[i] /\ holder'[i] = holder[i]
    OBVIOUS
  <1>2. PICK c \in Calls : /\ holder[i] = Main(c)
                           /\ pc[c] \notin Outside
                           /\ tx[i] \in {"open", arg[c].cart}
    BY <1>1 DEF TxInv, OwnTransaction, Outside
  <1> QED
    BY <1>1, <1>2

\* Who owns an open transaction has a connection, and is not Outside.
LEMMA TxOwner ==
    ASSUME TxInv, NEW i \in Conns, tx[i] # "none"
    PROVE  \E c \in Calls : /\ holder[i] = Main(c) /\ Main(c) \in Holds /\ pc[c] \notin Outside
                            /\ tx[i] \in {"open", arg[c].cart}
  <1>1. PICK c \in Calls : /\ holder[i] = Main(c) /\ pc[c] \notin {"idle", "over", "begin", "insert"}
                           /\ tx[i] \in {"open", arg[c].cart}
    BY DEF TxInv, OwnTransaction
  <1> QED
    BY <1>1, Distinct DEF Holds, Outside

\* Others may give a connection back, or get a free one.
LEMMA TxElsewhere ==
    ASSUME TxInv, UNCHANGED <<tx, pc, arg>>,
           \A i \in Conns : holder[i] \in Callers => holder'[i] = holder[i]
    PROVE  TxInv'
  <1>1. \A i \in Conns : tx'[i] # "none" => tx'[i] = tx[i] /\ holder'[i] = holder[i]
    BY TxOwner, Distinct
  <1> QED
    BY <1>1, TxStays DEF TxInv

\* A call that ends its transaction has the connection for itself.
LEMMA TxClosed ==
    ASSUME TxInv, PlacesInv, NEW c \in Calls, Main(c) \in Holds,
           CloseTx(c), Return(Main(c)), UNCHANGED arg,
           \A d \in Calls \ {c} : pc'[d] = pc[d]
    PROVE  TxInv'
  <1>1. PICK k \in Conns : holder[k] = Main(c)
    BY DEF Holds
  <1>2. k = ConnOf(Main(c)) /\ \A i \in Conns : holder[i] = Main(c) => i = k
    BY <1>1, Distinct DEF ConnOf, PlacesInv, PoolInv, HolderOK
  <1>3. tx \in [Conns -> {"none", "open"} \cup Carts] /\ tx' = [tx EXCEPT ![k] = "none"]
    BY <1>2 DEF CloseTx, TxInv
  <1>4. \A i \in Conns : tx'[i] # "none" => i # k /\ tx'[i] = tx[i] /\ holder[i] # Main(c)
    BY <1>2, <1>3
  <1>5. \A i \in Conns : tx'[i] # "none" => holder'[i] = holder[i]
    BY <1>4 DEF Return
  <1>6. tx' \in [Conns -> {"none", "open"} \cup Carts]
    BY <1>3
  <1>7. \A d \in Calls, i \in Conns :
           tx'[i] # "none" /\ pc[d] \notin Outside /\ holder'[i] = Main(d)
               => pc'[d] \notin Outside /\ arg'[d] = arg[d]
    BY <1>4, <1>5
  <1> QED
    BY <1>4, <1>5, <1>6, <1>7, TxStays

\* A call opens its transaction, or takes the lock of its cart in it.
LEMMA TxOpened ==
    ASSUME TxInv, PlacesInv, NEW c \in Calls, Main(c) \in Holds, UNCHANGED <<holder, arg>>,
           NEW k \in {"open"} \cup Carts, k \in {"open", arg[c].cart},
           tx' = [tx EXCEPT ![ConnOf(Main(c))] = k],
           pc'[c] \notin Outside,
           \A d \in Calls \ {c} : pc'[d] = pc[d]
    PROVE  TxInv'
  <1>1. PICK j \in Conns : holder[j] = Main(c)
    BY DEF Holds
  <1>2. j = ConnOf(Main(c)) /\ \A i \in Conns : holder[i] = Main(c) => i = j
    BY <1>1, Distinct DEF ConnOf, PlacesInv, PoolInv, HolderOK
  <1>3. tx \in [Conns -> {"none", "open"} \cup Carts] /\ tx' = [tx EXCEPT ![j] = k]
    BY <1>2 DEF TxInv
  <1>4. tx' \in [Conns -> {"none", "open"} \cup Carts]
    BY <1>3
  <1>5. ASSUME NEW i \in Conns, tx'[i] # "none"
        PROVE  \E d \in Calls : /\ holder'[i] = Main(d)
                                /\ pc'[d] \notin Outside
                                /\ tx'[i] \in {"open", arg'[d].cart}
    <2>1. CASE i = j
      BY <1>1, <1>3, <2>1
    <2>2. CASE i # j
      <3>1. tx'[i] = tx[i]
        BY <1>3, <2>2
      <3>2. PICK d \in Calls : /\ holder[i] = Main(d) /\ pc[d] \notin Outside
                               /\ tx[i] \in {"open", arg[d].cart}
        BY <1>5, <3>1, TxOwner
      <3>3. pc'[d] \notin Outside
        BY <3>2
      <3> QED
        BY <3>1, <3>2, <3>3
    <2> QED
      BY <2>1, <2>2
  <1> QED
    BY <1>4, <1>5 DEF TxInv, OwnTransaction, Outside

\* A call goes on and leaves its transaction alone: it has none where it ends.
LEMMA TxGoesOn ==
    ASSUME TxInv, NEW c \in Calls, UNCHANGED tx,
           NEW u, u # Main(c) \/ pc[c] \in Outside, \A d \in Calls \ {c} : u # Main(d),
           \A i \in Conns : holder[i] # u => holder'[i] = holder[i],
           \A d \in Calls \ {c} : pc'[d] = pc[d] /\ arg'[d] = arg[d],
           pc[c] \in Outside \/ Main(c) \notin Holds \/ (pc'[c] \notin Outside /\ arg'[c] = arg[c])
    PROVE  TxInv'
  <1>1. ASSUME NEW i \in Conns, tx'[i] # "none"
        PROVE  tx'[i] = tx[i] /\ holder'[i] = holder[i]
    <2>1. PICK d \in Calls : holder[i] = Main(d) /\ pc[d] \notin Outside
      BY <1>1, TxOwner
    <2>2. Main(d) # u
      BY <2>1
    <2> QED
      BY <2>1, <2>2
  <1>2. ASSUME NEW d \in Calls, NEW i \in Conns,
               tx'[i] # "none", pc[d] \notin Outside, holder'[i] = Main(d)
        PROVE  pc'[d] \notin Outside /\ arg'[d] = arg[d]
    <2>1. holder[i] = Main(d)
      BY <1>1, <1>2
    <2>2. Main(d) \in Holds
      BY <2>1, Distinct DEF Holds
    <2> QED
      BY <1>2, <2>2
  <1>3. tx' \in [Conns -> {"none", "open"} \cup Carts]
    BY DEF TxInv
  <1> QED
    BY <1>1, <1>2, <1>3, TxStays

LEMMA TxStep == TxInv /\ PlacesInv /\ CartNext => TxInv'
  <1> SUFFICES ASSUME TxInv, PlacesInv, CartNext PROVE TxInv'
    OBVIOUS
  <1> USE DEF Goto, Outside
  <1>0. ASSUME NEW c \in Calls
        PROVE  /\ pc \in [Calls -> Steps] /\ arg \in [Calls -> Args]
               /\ Main(c) \in Callers /\ Read(c) \in Callers
               /\ Main(c) \in Users /\ Read(c) \in Users
               /\ Main(c) # Read(c)
               /\ \A d \in Calls \ {c} : Main(c) # Main(d) /\ Read(c) # Main(d)
               /\ \A d \in Calls : Read(c) # Main(d)
               /\ PlaceOf(c)
    BY Distinct DEF PlacesInv
  <1>1. ASSUME NEW c \in Calls, NEW a \in Args, Begin(c, a) PROVE TxInv'
    <2>1. /\ UNCHANGED tx
          /\ \A i \in Conns : holder[i] # Read(c) => holder'[i] = holder[i]
          /\ \A d \in Calls \ {c} : pc'[d] = pc[d] /\ arg'[d] = arg[d]
          /\ pc[c] \in Outside \/ Main(c) \notin Holds \/ (pc'[c] \notin Outside /\ arg'[c] = arg[c])
      BY <1>0, <1>1 DEF Begin
    <2> QED
      BY <1>0, <2>1, TxGoesOn
  <1>2. ASSUME NEW c \in Calls, OpenTx(c) PROVE TxInv'
    <2>1. /\ tx' = [tx EXCEPT ![ConnOf(Main(c))] = "open"] /\ UNCHANGED <<holder, arg>>
          /\ pc'[c] = "lock" /\ \A d \in Calls \ {c} : pc'[d] = pc[d]
          /\ Main(c) \in Holds
      BY <1>0, <1>2, UserHas DEF OpenTx, poolVars
    <2> QED
      BY <2>1, TxOpened
  <1>3. ASSUME NEW c \in Calls, LockCart(c) PROVE TxInv'
    <2>1. /\ UNCHANGED <<holder, arg>>
          /\ \A d \in Calls \ {c} : pc'[d] = pc[d]
          /\ Main(c) \in Holds /\ pc'[c] \in {"undo", "product", "write"}
          /\ arg[c].cart \in Carts
      BY <1>0, <1>3 DEF LockCart, PlaceOf, Args
    <2>2. CASE UNCHANGED tx
      BY <1>0, <2>1, <2>2, TxGoesOn
    <2>3. CASE tx' = [tx EXCEPT ![ConnOf(Main(c))] = arg[c].cart]
      BY <2>1, <2>3, TxOpened
    <2> QED
      BY <1>3, <2>2, <2>3 DEF LockCart
  <1>4. ASSUME NEW c \in Calls, ReadProduct(c) PROVE TxInv'
    <2>1. /\ UNCHANGED tx
          /\ \A i \in Conns : holder[i] # Read(c) => holder'[i] = holder[i]
          /\ \A d \in Calls \ {c} : pc'[d] = pc[d] /\ arg'[d] = arg[d]
          /\ pc[c] \in Outside \/ Main(c) \notin Holds \/ (pc'[c] \notin Outside /\ arg'[c] = arg[c])
      BY <1>0, <1>4 DEF ReadProduct, EndRead, Return, PlaceOf
    <2> QED
      BY <1>0, <2>1, TxGoesOn
  <1>5. ASSUME NEW c \in Calls, ReadPromotion(c) PROVE TxInv'
    <2>1. /\ UNCHANGED tx
          /\ \A i \in Conns : holder[i] # Read(c) => holder'[i] = holder[i]
          /\ \A d \in Calls \ {c} : pc'[d] = pc[d] /\ arg'[d] = arg[d]
          /\ pc[c] \in Outside \/ Main(c) \notin Holds \/ (pc'[c] \notin Outside /\ arg'[c] = arg[c])
      BY <1>0, <1>5 DEF ReadPromotion, EndRead, Return, PlaceOf
    <2> QED
      BY <1>0, <2>1, TxGoesOn
  <1>6. ASSUME NEW c \in Calls, Write(c) PROVE TxInv'
    <2>1. /\ UNCHANGED tx
          /\ \A i \in Conns : holder[i] # Read(c) => holder'[i] = holder[i]
          /\ \A d \in Calls \ {c} : pc'[d] = pc[d] /\ arg'[d] = arg[d]
          /\ pc[c] \in Outside \/ Main(c) \notin Holds \/ (pc'[c] \notin Outside /\ arg'[c] = arg[c])
      BY <1>0, <1>6 DEF Write, poolVars
    <2> QED
      BY <1>0, <2>1, TxGoesOn
  <1>7. ASSUME NEW c \in Calls, Commit(c) PROVE TxInv'
    <2>1. /\ Main(c) \in Holds /\ CloseTx(c) /\ Return(Main(c)) /\ UNCHANGED arg
          /\ \A d \in Calls \ {c} : pc'[d] = pc[d]
      BY <1>0, <1>7 DEF Commit, End, PlaceOf
    <2> QED
      BY <2>1, TxClosed
  <1>8. ASSUME NEW c \in Calls, Undo(c) PROVE TxInv'
    <2>1. /\ Main(c) \in Holds /\ CloseTx(c) /\ Return(Main(c)) /\ UNCHANGED arg
          /\ \A d \in Calls \ {c} : pc'[d] = pc[d]
      BY <1>0, <1>8 DEF Undo, End, PlaceOf
    <2> QED
      BY <2>1, TxClosed
  <1>9. ASSUME NEW c \in Calls, Insert(c) PROVE TxInv'
    <2>1. /\ UNCHANGED tx
          /\ \A i \in Conns : holder[i] # Main(c) => holder'[i] = holder[i]
          /\ \A d \in Calls \ {c} : pc'[d] = pc[d] /\ arg'[d] = arg[d]
          /\ pc[c] \in Outside
      BY <1>0, <1>9 DEF Insert, End, Return
    <2> QED
      BY <1>0, <2>1, TxGoesOn
  <1>10. ASSUME NEW c \in Calls, Unstick(c) PROVE TxInv'
    <2>1. /\ UNCHANGED tx
          /\ \A i \in Conns : holder[i] # Read(c) => holder'[i] = holder[i]
          /\ \A d \in Calls \ {c} : pc'[d] = pc[d] /\ arg'[d] = arg[d]
          /\ pc[c] \in Outside \/ Main(c) \notin Holds \/ (pc'[c] \notin Outside /\ arg'[c] = arg[c])
      BY <1>0, <1>10 DEF Unstick, poolVars
    <2> QED
      BY <1>0, <2>1, TxGoesOn
  <1>11. ASSUME NEW c \in Calls, Leave(c) PROVE TxInv'
    <2>1. /\ UNCHANGED tx
          /\ \A i \in Conns : holder[i] # Read(c) => holder'[i] = holder[i]
          /\ \A d \in Calls \ {c} : pc'[d] = pc[d] /\ arg'[d] = arg[d]
          /\ pc[c] \in Outside \/ Main(c) \notin Holds \/ (pc'[c] \notin Outside /\ arg'[c] = arg[c])
      BY <1>0, <1>11 DEF Leave, poolVars
    <2> QED
      BY <1>0, <2>1, TxGoesOn
  <1>12. ASSUME NEW c \in Calls, Expire(c) PROVE TxInv'
    <2>1. CASE GiveUp(Main(c)) /\ End(c, "error") /\ UNCHANGED <<tx, arg>>
      <3>1. pc[c] \in Outside
        BY <1>0, <2>1, PoolGiveUpReturn DEF PlacesInv, End, Users, PlaceOf
      <3>2. /\ \A i \in Conns : holder[i] # Main(c) => holder'[i] = holder[i]
            /\ \A d \in Calls \ {c} : pc'[d] = pc[d] /\ arg'[d] = arg[d]
        BY <1>0, <2>1 DEF End, Return
      <3> QED
        BY <1>0, <2>1, <3>1, <3>2, TxGoesOn
    <2>2. CASE GiveUp(Read(c)) /\ EndRead(c, "error") /\ UNCHANGED <<holder, tx, arg>>
      <3>1. Read(c) \in Waits
        BY <1>0, <2>2, PoolGiveUp DEF PlacesInv, Users
      <3>2. /\ \A d \in Calls \ {c} : pc'[d] = pc[d] /\ arg'[d] = arg[d]
            /\ Main(c) \notin Holds \/ (pc'[c] \notin Outside /\ arg'[c] = arg[c])
        BY <1>0, <2>2, <3>1 DEF EndRead, PlaceOf
      <3> QED
        BY <1>0, <2>2, <3>2, TxGoesOn
    <2> QED
      BY <1>12, <2>1, <2>2 DEF Expire
  <1>13. ASSUME NEW c \in Calls, TimeOut(c) PROVE TxInv'
    <2>1. /\ UNCHANGED tx
          /\ \A i \in Conns : holder[i] # Read(c) => holder'[i] = holder[i]
          /\ \A d \in Calls \ {c} : pc'[d] = pc[d] /\ arg'[d] = arg[d]
          /\ pc[c] \in Outside \/ Main(c) \notin Holds \/ (pc'[c] \notin Outside /\ arg'[c] = arg[c])
      BY <1>0, <1>13 DEF TimeOut, Forsake, EndRead, Return, PlaceOf, poolVars
    <2> QED
      BY <1>0, <2>1, TxGoesOn
  <1>14. ASSUME NEW c \in Calls, Break(c) PROVE TxInv'
    <2>1. /\ Main(c) \in Holds /\ CloseTx(c) /\ Return(Main(c)) /\ UNCHANGED arg
          /\ \A d \in Calls \ {c} : pc'[d] = pc[d]
      BY <1>0, <1>14, UserHas DEF Break, End
    <2> QED
      BY <2>1, TxClosed
  <1> QED
    BY <1>1, <1>2, <1>3, <1>4, <1>5, <1>6, <1>7, <1>8, <1>9, <1>10, <1>11, <1>12, <1>13, <1>14
       DEF CartNext, CallStep

\* The statements of the loads are no transactions, on connections of their own.
LEMMA TxLoads == TxInv /\ DashNext /\ UNCHANGED callVars => TxInv'
  <1> SUFFICES ASSUME TxInv, DashNext, UNCHANGED callVars PROVE TxInv'
    OBVIOUS
  <1>1. ASSUME NEW l \in Loads, NEW p \in 1..Panels, Return(<<l, p>>) PROVE TxInv'
    <2>1. <<l, p>> \notin Callers
      BY Distinct DEF Readers
    <2>2. \A i \in Conns : holder[i] \in Callers => holder'[i] = holder[i]
      BY <1>1, <2>1 DEF Return
    <2> QED
      BY <2>2, TxElsewhere DEF callVars
  <1>2. CASE UNCHANGED holder
    BY <1>2, TxElsewhere DEF callVars
  <1>3. ASSUME NEW l \in Loads, Mount(l) \/ Refresh(l) \/ Deliver(l) PROVE UNCHANGED holder
    BY <1>3 DEF Mount, Refresh, Deliver, Fetch, poolVars
  <1>4. ASSUME NEW l \in Loads, NEW p \in 1..Panels, QueryEnds(l, p) \/ QueryTimesOut(l, p)
        PROVE  Return(<<l, p>>)
    BY <1>4 DEF QueryEnds, QueryTimesOut, Forsake
  <1>5. ASSUME NEW l \in Loads, NEW p \in 1..Panels, QueryGivesUp(l, p) PROVE UNCHANGED holder
    BY <1>5 DEF QueryGivesUp
  <1>6. ASSUME Unmount PROVE UNCHANGED holder
    BY <1>6 DEF Unmount, poolVars
  <1> QED
    BY <1>1, <1>2, <1>3, <1>4, <1>5, <1>6 DEF DashNext

LEMMA TxServed == TxInv /\ Serve /\ UNCHANGED callVars => TxInv'
  <1> SUFFICES ASSUME TxInv, Serve, UNCHANGED callVars PROVE TxInv'
    OBVIOUS
  <1>1. PICK i \in Conns : Free(i) /\ holder' = [holder EXCEPT ![i] = Head(queue)]
    BY DEF Serve
  <1>2. \A j \in Conns : holder[j] \in Callers => holder'[j] = holder[j]
    BY <1>1, Distinct DEF Free
  <1> QED
    BY <1>2, TxElsewhere DEF callVars

LEMMA TxNext == TxInv /\ PlacesInv /\ [Next]_vars => TxInv'
  <1> SUFFICES ASSUME TxInv, PlacesInv, [Next]_vars PROVE TxInv'
    OBVIOUS
  <1>1. CASE Serve /\ UNCHANGED callVars
    BY <1>1, TxServed
  <1>2. CASE (\E i \in Conns : Settle(i)) /\ UNCHANGED callVars
    BY <1>2, TxElsewhere DEF Settle, callVars
  <1>3. CASE CartNext
    BY <1>3, TxStep
  <1>4. CASE DashNext /\ UNCHANGED callVars
    BY <1>4, TxLoads
  <1>5. CASE UNCHANGED <<poolVars, callVars>>
    BY <1>5, TxElsewhere DEF poolVars, callVars
  <1> QED
    BY <1>1, <1>2, <1>3, <1>4, <1>5 DEF Next, PoolStep, vars

\* A connection that is handed on carries no transaction, and one that carries a
\* transaction belongs to the call that began it, whatever timers, refusals and
\* losses come between (cart.ts:84-103).
THEOREM TransactionsAreOwned == Spec => []OwnTransaction
  <1>1. Init => TxInv
    <2> SUFFICES ASSUME Init PROVE TxInv
      OBVIOUS
    <2>1. tx = [i \in Conns |-> "none"]
      BY DEF Init, CartInit
    <2> QED
      BY <2>1 DEF TxInv, OwnTransaction
  <1>2. TxInv => OwnTransaction
    BY DEF TxInv
  <1> QED
    BY <1>1, <1>2, PlacesStart, PlacesNext, TxNext, PTL DEF Spec

-----------------------------------------------------------------------------
\* The outcome of a call

\* Before its end a call has written nothing and refused or failed at most.
OutcomeOf(step, a, w) ==
    /\ step # "over" => ~w /\ a \in {"none", "refused", "error"}
    /\ step \in {"undo", "stuck"} => a # "none"
    /\ step = "over" /\ a = "ok" => w
    /\ step = "over" /\ a \in {"refused", "error"} => ~w

OutcomeInv ==
    /\ pc \in [Calls -> Steps]
    /\ answer \in [Calls -> Answers]
    /\ landed \subseteq Calls
    /\ \A c \in Calls : OutcomeOf(pc[c], answer[c], c \in landed)

LEMMA OutcomeRests == OutcomeInv /\ UNCHANGED <<pc, answer, landed>> => OutcomeInv'
  BY DEF OutcomeInv

\* One call is somewhere else, the others are where they were.
OnlyCall(c) ==
    /\ pc' \in [Calls -> Steps]
    /\ answer' \in [Calls -> Answers]
    /\ landed' \subseteq Calls
    /\ \A d \in Calls \ {c} : pc'[d] = pc[d] /\ answer'[d] = answer[d] /\ (d \in landed' <=> d \in landed)

LEMMA OutcomeOfOne ==
    ASSUME OutcomeInv, NEW c \in Calls, OnlyCall(c), OutcomeOf(pc'[c], answer'[c], c \in landed')
    PROVE  OutcomeInv'
  <1>1. ASSUME NEW d \in Calls PROVE OutcomeOf(pc'[d], answer'[d], d \in landed')
    <2>1. CASE d = c
      BY <2>1
    <2>2. CASE d # c
      <3>1. pc'[d] = pc[d] /\ answer'[d] = answer[d] /\ (d \in landed' <=> d \in landed)
        BY <2>2 DEF OnlyCall
      <3> QED
        BY <3>1 DEF OutcomeInv
    <2> QED
      BY <2>1, <2>2
  <1> QED
    BY <1>1 DEF OutcomeInv, OnlyCall

LEMMA OutcomeStep == OutcomeInv /\ PlacesInv /\ CartNext => OutcomeInv'
  <1> SUFFICES ASSUME OutcomeInv, PlacesInv, CartNext PROVE OutcomeInv'
    OBVIOUS
  <1> USE DEF Steps, Answers, OutcomeOf, Goto, Answer, End, EndRead
  <1>0. ASSUME NEW c \in Calls
        PROVE  /\ pc \in [Calls -> Steps] /\ answer \in [Calls -> Answers]
               /\ landed \subseteq Calls
               /\ OutcomeOf(pc[c], answer[c], c \in landed)
    BY DEF OutcomeInv
  <1>1. ASSUME NEW c \in Calls, NEW a \in Args, Begin(c, a) PROVE OutcomeInv'
    <2>1. OnlyCall(c)
      BY <1>0, <1>1 DEF Begin, OnlyCall
    <2>2. OutcomeOf(pc'[c], answer'[c], c \in landed')
      BY <1>0, <1>1 DEF Begin
    <2> QED
      BY <2>1, <2>2, OutcomeOfOne
  <1>2. ASSUME NEW c \in Calls, OpenTx(c) PROVE OutcomeInv'
    <2>1. OnlyCall(c)
      BY <1>0, <1>2 DEF OpenTx, OnlyCall
    <2>2. OutcomeOf(pc'[c], answer'[c], c \in landed')
      BY <1>0, <1>2 DEF OpenTx
    <2> QED
      BY <2>1, <2>2, OutcomeOfOne
  <1>3. ASSUME NEW c \in Calls, LockCart(c) PROVE OutcomeInv'
    <2>1. OnlyCall(c)
      BY <1>0, <1>3 DEF LockCart, OnlyCall
    <2>2. OutcomeOf(pc'[c], answer'[c], c \in landed')
      BY <1>0, <1>3 DEF LockCart
    <2> QED
      BY <2>1, <2>2, OutcomeOfOne
  <1>4. ASSUME NEW c \in Calls, ReadProduct(c) PROVE OutcomeInv'
    <2>1. OnlyCall(c)
      BY <1>0, <1>4 DEF ReadProduct, OnlyCall
    <2>2. OutcomeOf(pc'[c], answer'[c], c \in landed')
      BY <1>0, <1>4 DEF ReadProduct
    <2> QED
      BY <2>1, <2>2, OutcomeOfOne
  <1>5. ASSUME NEW c \in Calls, ReadPromotion(c) PROVE OutcomeInv'
    <2>1. OnlyCall(c)
      BY <1>0, <1>5 DEF ReadPromotion, OnlyCall
    <2>2. OutcomeOf(pc'[c], answer'[c], c \in landed')
      BY <1>0, <1>5 DEF ReadPromotion
    <2> QED
      BY <2>1, <2>2, OutcomeOfOne
  <1>6. ASSUME NEW c \in Calls, Write(c) PROVE OutcomeInv'
    <2>1. OnlyCall(c)
      BY <1>0, <1>6 DEF Write, OnlyCall
    <2>2. OutcomeOf(pc'[c], answer'[c], c \in landed')
      BY <1>0, <1>6 DEF Write
    <2> QED
      BY <2>1, <2>2, OutcomeOfOne
  <1>7. ASSUME NEW c \in Calls, Commit(c) PROVE OutcomeInv'
    <2>1. OnlyCall(c)
      BY <1>0, <1>7 DEF Commit, OnlyCall
    <2>2. OutcomeOf(pc'[c], answer'[c], c \in landed')
      BY <1>0, <1>7 DEF Commit
    <2> QED
      BY <2>1, <2>2, OutcomeOfOne
  <1>8. ASSUME NEW c \in Calls, Undo(c) PROVE OutcomeInv'
    <2>1. OnlyCall(c)
      BY <1>0, <1>8 DEF Undo, OnlyCall
    <2>2. OutcomeOf(pc'[c], answer'[c], c \in landed')
      BY <1>0, <1>8 DEF Undo
    <2> QED
      BY <2>1, <2>2, OutcomeOfOne
  <1>9. ASSUME NEW c \in Calls, Insert(c) PROVE OutcomeInv'
    <2>1. OnlyCall(c)
      BY <1>0, <1>9 DEF Insert, OnlyCall
    <2>2. OutcomeOf(pc'[c], answer'[c], c \in landed')
      BY <1>0, <1>9 DEF Insert
    <2> QED
      BY <2>1, <2>2, OutcomeOfOne
  <1>10. ASSUME NEW c \in Calls, Unstick(c) PROVE OutcomeInv'
    <2>1. OnlyCall(c)
      BY <1>0, <1>10 DEF Unstick, OnlyCall
    <2>2. OutcomeOf(pc'[c], answer'[c], c \in landed')
      BY <1>0, <1>10 DEF Unstick
    <2> QED
      BY <2>1, <2>2, OutcomeOfOne
  <1>11. ASSUME NEW c \in Calls, Leave(c) PROVE OutcomeInv'
    <2>1. OnlyCall(c)
      BY <1>0, <1>11 DEF Leave, OnlyCall
    <2>2. OutcomeOf(pc'[c], answer'[c], c \in landed')
      BY <1>0, <1>11 DEF Leave
    <2> QED
      BY <2>1, <2>2, OutcomeOfOne
  <1>12. ASSUME NEW c \in Calls, Expire(c) PROVE OutcomeInv'
    <2>1. OnlyCall(c)
      BY <1>0, <1>12 DEF Expire, OnlyCall
    <2>2. pc[c] # "over"
      <3>1. GiveUp(Main(c)) \/ GiveUp(Read(c))
        BY <1>12 DEF Expire
      <3>2. Main(c) \in Waits \/ Read(c) \in Waits
        BY <3>1, Distinct, GivenUp DEF Users, PlacesInv, PoolInv
      <3> QED
        BY <3>2 DEF PlacesInv, PlaceOf
    <2>3. OutcomeOf(pc'[c], answer'[c], c \in landed')
      BY <1>0, <1>12, <2>2 DEF Expire
    <2> QED
      BY <2>1, <2>3, OutcomeOfOne
  <1>13. ASSUME NEW c \in Calls, TimeOut(c) PROVE OutcomeInv'
    <2>1. OnlyCall(c)
      BY <1>0, <1>13 DEF TimeOut, OnlyCall
    <2>2. OutcomeOf(pc'[c], answer'[c], c \in landed')
      BY <1>0, <1>13 DEF TimeOut
    <2> QED
      BY <2>1, <2>2, OutcomeOfOne
  <1>14. ASSUME NEW c \in Calls, Break(c) PROVE OutcomeInv'
    <2>1. OnlyCall(c)
      BY <1>0, <1>14 DEF Break, OnlyCall
    <2>2. OutcomeOf(pc'[c], answer'[c], c \in landed')
      BY <1>0, <1>14 DEF Break
    <2> QED
      BY <2>1, <2>2, OutcomeOfOne
  <1> QED
    BY <1>1, <1>2, <1>3, <1>4, <1>5, <1>6, <1>7, <1>8, <1>9, <1>10, <1>11, <1>12, <1>13, <1>14
       DEF CartNext, CallStep

LEMMA OutcomeNext == OutcomeInv /\ PlacesInv /\ [Next]_vars => OutcomeInv'
  <1> SUFFICES ASSUME OutcomeInv, PlacesInv, [Next]_vars PROVE OutcomeInv'
    OBVIOUS
  <1>1. CASE CartNext
    BY <1>1, OutcomeStep
  <1>2. CASE UNCHANGED callVars
    BY <1>2, OutcomeRests DEF callVars
  <1> QED
    BY <1>1, <1>2 DEF Next, vars

\* Who is told "ok" has written, who is told of a refusal or an error has not:
\* a timer that goes off leaves nothing behind that could still be committed
\* (cart.ts:128-134).
THEOREM OutcomesAreTrue == Spec => []OutcomeIsTrue
  <1>1. Init => OutcomeInv
    <2> SUFFICES ASSUME Init PROVE OutcomeInv
      OBVIOUS
    <2>1. /\ pc = [c \in Calls |-> "idle"] /\ answer = [c \in Calls |-> "none"]
          /\ landed = {}
      BY DEF Init, CartInit
    <2> QED
      BY <2>1 DEF OutcomeInv, OutcomeOf, Steps, Answers
  <1>2. OutcomeInv => OutcomeIsTrue
    BY DEF OutcomeInv, OutcomeOf, OutcomeIsTrue
  <1> QED
    BY <1>1, <1>2, PlacesStart, PlacesNext, OutcomeNext, PTL DEF Spec
-----------------------------------------------------------------------------
\* The type of the state

\* What drifts belongs to nobody.
AdriftInv == adrift \subseteq {i \in Conns : holder[i] = NoOne}

LEMMA AdriftKept ==
    ASSUME AdriftInv, UNCHANGED adrift, UNCHANGED holder \/ \E u : Return(u)
    PROVE  AdriftInv'
  <1>1. \A i \in Conns : holder[i] = NoOne => holder'[i] = NoOne
    BY DEF Return
  <1> QED
    BY <1>1 DEF AdriftInv

LEMMA AdriftForsaken ==
    ASSUME AdriftInv, NEW u, Forsake(u)
    PROVE  AdriftInv'
  <1>1. ConnOf(u) \in Conns /\ holder[ConnOf(u)] = u
    BY DEF Forsake, Has, ConnOf
  <1>2. \A i \in Conns : holder'[i] = IF holder[i] = u THEN NoOne ELSE holder[i]
    BY DEF Forsake, Return
  <1>3. adrift' = adrift \cup {ConnOf(u)}
    BY DEF Forsake
  <1> QED
    BY <1>1, <1>2, <1>3 DEF AdriftInv

LEMMA AdriftCalls == AdriftInv /\ CartNext => AdriftInv'
  <1> SUFFICES ASSUME AdriftInv, NEW c \in Calls,
                      (\E a \in Args : Begin(c, a)) \/ CallStep(c) \/ Expire(c) \/ TimeOut(c) \/ Break(c)
               PROVE  AdriftInv'
    BY DEF CartNext
  <1>1. CASE (\E a \in Args : Begin(c, a)) \/ OpenTx(c) \/ LockCart(c) \/ Write(c) \/ Unstick(c) \/ Leave(c)
    BY <1>1, AdriftKept DEF Begin, OpenTx, LockCart, Write, Unstick, Leave, poolVars
  <1>2. CASE ReadProduct(c) \/ ReadPromotion(c)
    BY <1>2, AdriftKept DEF ReadProduct, ReadPromotion
  <1>3. CASE Commit(c) \/ Undo(c) \/ Insert(c) \/ Break(c)
    BY <1>3, AdriftKept DEF Commit, Undo, Insert, Break, End
  <1>4. CASE Expire(c)
    BY <1>4, AdriftKept DEF Expire, End
  <1>5. CASE TimeOut(c)
    BY <1>5, AdriftKept, AdriftForsaken DEF TimeOut, poolVars
  <1> QED
    BY <1>1, <1>2, <1>3, <1>4, <1>5 DEF CallStep

LEMMA AdriftLoads == AdriftInv /\ DashNext => AdriftInv'
  <1> SUFFICES ASSUME AdriftInv, DashNext PROVE AdriftInv'
    OBVIOUS
  <1>1. CASE Unmount \/ \E l \in Loads : Mount(l) \/ Refresh(l) \/ Deliver(l)
    BY <1>1, AdriftKept DEF Unmount, Mount, Refresh, Deliver, Fetch, poolVars
  <1>2. ASSUME NEW l \in Loads, NEW p \in 1..Panels, QueryEnds(l, p) \/ QueryGivesUp(l, p) PROVE AdriftInv'
    BY <1>2, AdriftKept DEF QueryEnds, QueryGivesUp
  <1>3. ASSUME NEW l \in Loads, NEW p \in 1..Panels, QueryTimesOut(l, p) PROVE AdriftInv'
    BY <1>3, AdriftForsaken DEF QueryTimesOut
  <1> QED
    BY <1>1, <1>2, <1>3 DEF DashNext

LEMMA AdriftServed == AdriftInv /\ PoolStep => AdriftInv'
  <1> SUFFICES ASSUME AdriftInv, PoolStep PROVE AdriftInv'
    OBVIOUS
  <1>1. CASE Serve
    <2>1. PICK i \in Conns : Free(i) /\ holder' = [holder EXCEPT ![i] = Head(queue)]
      BY <1>1 DEF Serve
    <2>2. adrift' = adrift /\ i \notin adrift
      BY <1>1, <2>1 DEF Serve, Free
    <2> QED
      BY <2>1, <2>2 DEF AdriftInv
  <1>2. ASSUME NEW i \in Conns, Settle(i) PROVE AdriftInv'
    BY <1>2 DEF Settle, AdriftInv
  <1> QED
    BY <1>1, <1>2 DEF PoolStep

\* What calls and loads leave behind.
CallTypes == carts \subseteq Carts /\ answer \in [Calls -> Answers] /\ landed \subseteq Calls
PageTypes ==
    /\ page \in [mounted : BOOLEAN, loading : BOOLEAN, error : BOOLEAN, data : BOOLEAN]
    /\ current \in Loads \cup {NoOne}
    /\ awaited \subseteq Loads
    /\ reply \in [Loads -> {"none", "open", "ok", "failed"}]

LEMMA CallTypesStep == CallTypes /\ PlacesInv /\ CartNext => CallTypes'
  <1> SUFFICES ASSUME CallTypes, PlacesInv, NEW c \in Calls,
                      (\E a \in Args : Begin(c, a)) \/ CallStep(c) \/ Expire(c) \/ TimeOut(c) \/ Break(c)
               PROVE  CallTypes'
    BY DEF CartNext
  <1> USE DEF CallTypes, Answers, Answer, End, EndRead
  <1>1. arg[c].cart \in Carts
    BY DEF PlacesInv, Args
  <1>2. CASE (\E a \in Args : Begin(c, a)) \/ OpenTx(c) \/ LockCart(c) \/ Write(c) \/ Unstick(c)
    BY <1>2 DEF Begin, OpenTx, LockCart, Write, Unstick
  <1>3. CASE ReadProduct(c) \/ ReadPromotion(c) \/ Expire(c) \/ TimeOut(c)
    BY <1>3 DEF ReadProduct, ReadPromotion, Expire, TimeOut
  <1>4. CASE Commit(c) \/ Undo(c) \/ Leave(c)
    BY <1>4 DEF Commit, Undo, Leave
  <1>5. CASE Insert(c)
    BY <1>1, <1>5 DEF Insert
  <1>6. CASE Break(c)
    BY <1>1, <1>6 DEF Break
  <1> QED
    BY <1>2, <1>3, <1>4, <1>5, <1>6 DEF CallStep

LEMMA PageTypesStep == PageTypes /\ DashNext => PageTypes'
  <1> SUFFICES ASSUME PageTypes, DashNext PROVE PageTypes'
    OBVIOUS
  <1> USE DEF PageTypes
  <1>1. ASSUME NEW l \in Loads, Mount(l) PROVE PageTypes'
    <2>1. page' = Fresh
      BY <1>1 DEF Mount
    <2>2. current' \in Loads /\ awaited' \subseteq Loads
      BY <1>1 DEF Mount
    <2>3. reply' \in [Loads -> {"none", "open", "ok", "failed"}]
      BY <1>1 DEF Mount, Fetch
    <2> QED
      BY <2>1, <2>2, <2>3 DEF Fresh
  <1>2. ASSUME NEW l \in Loads, Refresh(l) PROVE PageTypes'
    <2>1. page' = [page EXCEPT !.loading = TRUE, !.error = FALSE]
      BY <1>2 DEF Refresh
    <2>2. current' \in Loads /\ awaited' \subseteq Loads /\ reply' = [reply EXCEPT ![l] = "open"]
      BY <1>2 DEF Refresh, Fetch
    <2> QED
      BY <2>1, <2>2
  <1>3. CASE Unmount
    BY <1>3 DEF Unmount, Unmounted, Dropped
  <1>4. ASSUME NEW l \in Loads, Deliver(l) PROVE PageTypes'
    BY <1>4 DEF Deliver, Dropped
  <1>5. ASSUME NEW l \in Loads, NEW p \in 1..Panels,
               QueryEnds(l, p) \/ QueryTimesOut(l, p) \/ QueryGivesUp(l, p)
        PROVE  PageTypes'
    BY <1>5 DEF QueryEnds, QueryTimesOut, QueryGivesUp, Respond
  <1> QED
    BY <1>1, <1>2, <1>3, <1>4, <1>5 DEF DashNext

\* Of however many calls and loads, each connection of the pool is with one of them or with
\* none, drifts with none, and nobody waits who has one or waits already (postgres.ts,
\* timeout.ts): neither a time-out nor a refusal gives a connection back twice.
THEOREM ApiTypeCorrect == Spec => []TypeOK
  <1> DEFINE Inv == AdriftInv /\ CallTypes /\ PageTypes
  <1>1. Init => Inv
    BY DEF Init, PoolInit, CartInit, DashInit, Unmounted, AdriftInv, CallTypes, PageTypes, Answers
  <1>2. Inv /\ PlacesInv /\ [Next]_vars => Inv'
    <2> SUFFICES ASSUME Inv, PlacesInv, [Next]_vars PROVE Inv'
      OBVIOUS
    <2>1. AdriftInv'
      <3>1. CASE UNCHANGED poolVars
        BY <3>1 DEF poolVars, AdriftInv
      <3> QED
        BY <3>1, AdriftCalls, AdriftLoads, AdriftServed DEF Next, vars
    <2>2. CallTypes'
      <3>1. CASE UNCHANGED callVars
        BY <3>1 DEF callVars, CallTypes
      <3> QED
        BY <3>1, CallTypesStep DEF Next, vars
    <2>3. PageTypes'
      <3>1. CASE UNCHANGED dashVars
        BY <3>1 DEF dashVars, PageTypes
      <3> QED
        BY <3>1, PageTypesStep DEF Next, vars
    <2> QED
      BY <2>1, <2>2, <2>3
  <1>3. Inv /\ PlacesInv /\ TxInv => TypeOK
    <2> SUFFICES ASSUME Inv, PlacesInv, TxInv PROVE TypeOK
      OBVIOUS
    <2>1. \A u \in Users : Has(u) => ~Waiting(u)
      BY DEF PlacesInv, PoolInv, Holds, Waits, Has, Waiting
    <2>2. PoolTypeOK(Users)
      BY <2>1 DEF PoolTypeOK, PlacesInv, PoolInv, HolderOK, QueueOK, AdriftInv
    <2>3. CartTypeOK
      BY DEF CartTypeOK, PlacesInv, TxInv, CallTypes
    <2> QED
      BY <2>2, <2>3 DEF TypeOK, Users, PageTypes
  <1>4. Init => TxInv
    BY DEF Init, CartInit, TxInv, OwnTransaction
  <1> QED
    BY <1>1, <1>2, <1>3, <1>4, PlacesStart, PlacesNext, TxNext, PTL DEF Spec
=============================================================================

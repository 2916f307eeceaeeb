------------------------- MODULE RouterTrafficProofs -------------------------
(***************************************************************************)
(* Proofs about RouterTraffic, for every set of documents and all bounds.  *)
(* What is extracted from a document is proved along its walk, in whatever *)
(* order the walk visits the lists; the page's properties use only that a  *)
(* sample fails exactly if it has no clients.                              *)
(***************************************************************************)
EXTENDS RouterTraffic, DataInduction

USE DEF Slots, Spend

-----------------------------------------------------------------------------
(* What is extracted from a document.  A walk visits the objects of its    *)
(* document; the clients after each object follow from those before it;    *)
(* what holds of the clients is carried along the walk by induction.       *)

LEMMA KeyFacts ==
    /\ \A f \in TextFields : DOMAIN TextKeys[f] \subseteq Nat
    /\ \A f \in Rates : DOMAIN RateKeys[f] \subseteq Nat
    /\ {"mac", "ip", "hostname"} = TextFields
    /\ {"downloadBps", "uploadBps", "totalBps", "totalBytes"} \subseteq Rates
<1>1. TextFields = {"mac", "ip", "hostname"}
  BY DEF TextFields, TextKeys
<1>2. /\ DOMAIN TextKeys["mac"] \subseteq Nat
      /\ DOMAIN TextKeys["ip"] \subseteq Nat
      /\ DOMAIN TextKeys["hostname"] \subseteq Nat
  BY DEF TextKeys
<1>3. Rates = {"downloadBps", "uploadBps", "totalBps", "downloadBytes",
               "uploadBytes", "totalBytes"}
  BY DEF Rates, RateKeys
<1>4. /\ DOMAIN RateKeys["downloadBps"] \subseteq Nat
      /\ DOMAIN RateKeys["uploadBps"] \subseteq Nat
      /\ DOMAIN RateKeys["totalBps"] \subseteq Nat
      /\ DOMAIN RateKeys["downloadBytes"] \subseteq Nat
      /\ DOMAIN RateKeys["uploadBytes"] \subseteq Nat
      /\ DOMAIN RateKeys["totalBytes"] \subseteq Nat
  BY DEF RateKeys
<1> QED BY <1>1, <1>2, <1>3, <1>4

(* A number is found if there is one under any of the keys.                *)
LEMMA NumberFacts ==
    ASSUME NEW m, NEW keys, DOMAIN keys \subseteq Nat
    PROVE  /\ FirstNumber(m, keys) # Absent
              <=> \E k \in ToSet(keys) \cap DOMAIN m : m[k].number # Absent
           /\ FirstNumber(m, keys) # Absent =>
                 \E k \in DOMAIN m : FirstNumber(m, keys) = m[k].number
<1> DEFINE hits == {i \in DOMAIN keys :
                     keys[i] \in DOMAIN m /\ m[keys[i]].number # Absent}
<1>1. FirstNumber(m, keys) = IF hits = {} THEN Absent
                             ELSE m[keys[Min(hits)]].number
  BY DEF FirstNumber
<1>2. hits # {} => Min(hits) \in hits
  <2>1. hits \in SUBSET Nat
    OBVIOUS
  <2> HIDE DEF hits
  <2> QED BY <2>1, MinOf
<1>3. hits # {} <=> \E k \in ToSet(keys) \cap DOMAIN m : m[k].number # Absent
  BY DEF ToSet
<1> QED BY <1>1, <1>2, <1>3

LEMMA WalkFacts ==
    ASSUME NEW d \in Documents, NEW walk \in Walks(d)
    PROVE  walk \in Seq(Objects(d)) /\ ToSet(walk) = Objects(d)
<1> DEFINE E == Objects(d)
<1>1. IsFiniteSet(d.lists) /\ \A l \in d.lists : l \in Seq(ToSet(l))
  BY DocumentsAssumption
<1>2. PICK lists \in SetToSeqs(d.lists) :
         walk = <<d.root>> \o FlattenSeq(lists)
  BY DEF Walks
<1>3. lists \in Seq(d.lists) /\ ToSet(lists) = d.lists
  BY <1>1, OrderFacts
<1>4. \A l \in d.lists : l \in Seq(E)
  <2> TAKE l \in d.lists
  <2>1. l \in Seq(ToSet(l)) /\ ToSet(l) \subseteq E
    BY <1>1 DEF Objects
  <2> HIDE DEF E
  <2> QED BY <2>1
<1> HIDE DEF E
<1>5. lists \in Seq(Seq(E))
  BY <1>3, <1>4
<1>6. /\ FlattenSeq(lists) \in Seq(E)
      /\ ToSet(FlattenSeq(lists)) = UNION {ToSet(l) : l \in d.lists}
  BY <1>3, <1>5, FlattenFacts
<1>7. <<d.root>> \in Seq(E) /\ ToSet(<<d.root>>) = {d.root}
  BY DEF E, Objects, ToSet
<1>8. walk \in Seq(E) /\ ToSet(walk) = ToSet(<<d.root>>)
                                     \cup ToSet(FlattenSeq(lists))
  BY <1>2, <1>6, <1>7, JoinFacts
<1> QED BY <1>6, <1>7, <1>8 DEF E, Objects

(* An object that is no client adds nothing; another one adds its client,  *)
(* or completes the one under its key.                                     *)
Added(b, new, c) ==
    LET k == ClientKey(c)
    IN  /\ new = [x \in DOMAIN b \cup {k} |-> new[x]]
        /\ \A x \in DOMAIN b \ {k} : new[x] = b[x]
        /\ new[k] = IF k \in DOMAIN b THEN MergeClient(b[k], c) ELSE c

LEMMA AddFacts ==
    ASSUME NEW b, NEW m
    PROVE  /\ ~IsClient(m) => AddObject(b, m) = b
           /\ IsClient(m) => Added(b, AddObject(b, m), ObjectToClient(m))
BY DEF AddObject, Added

LEMMA ClientFacts ==
    ASSUME NEW m
    PROVE  /\ \A f \in TextFields :
                 ObjectToClient(m).text[f] = FirstString(m, TextKeys[f])
           /\ \A f \in Rates :
                 ObjectToClient(m).rate[f] = FirstNumber(m, RateKeys[f])
           /\ ObjectToClient(m) =
                 [text |-> [f \in TextFields |-> ObjectToClient(m).text[f]],
                  rate |-> [f \in Rates |-> ObjectToClient(m).rate[f]]]
BY DEF ObjectToClient

LEMMA MergeFacts ==
    ASSUME NEW a, NEW b
    PROVE  /\ \A f \in TextFields : MergeClient(a, b).text[f] =
                 IF a.text[f] = "" THEN b.text[f] ELSE a.text[f]
           /\ \A f \in Rates : MergeClient(a, b).rate[f] =
                 IF a.rate[f] = Absent THEN b.rate[f] ELSE a.rate[f]
           /\ MergeClient(a, b) =
                 [text |-> [f \in TextFields |-> MergeClient(a, b).text[f]],
                  rate |-> [f \in Rates |-> MergeClient(a, b).rate[f]]]
BY DEF MergeClient

(* The clients after each object of a walk.                                *)
Extracts(run, walk, n) ==
    run[0] = <<>> /\ \A k \in 1..n : run[k] = AddObject(run[k - 1], walk[k])

LEMMA ExtractRun ==
    ASSUME NEW E, NEW walk \in Seq(E), NEW n \in Nat, n = Len(walk)
    PROVE  \E run : Extracts(run, walk, n) /\ ExtractClients(walk) = run[n]
<1> DEFINE T == {FirstString(walk[k], TextKeys[f]) :
                   k \in 1..n, f \in TextFields}
           R == {FirstNumber(walk[k], RateKeys[f]) : k \in 1..n, f \in Rates}
           C == [text : [TextFields -> T], rate : [Rates -> R]]
           V == UNION {[D -> C] : D \in SUBSET T}
           step == [p \in (1..n) \X V |-> AddObject(p[2], walk[p[1]])]
<1>1. ASSUME NEW k \in 1..n
      PROVE  /\ ObjectToClient(walk[k]) \in C
             /\ ClientKey(ObjectToClient(walk[k])) \in T
  <2> DEFINE m == walk[k]
             c == ObjectToClient(m)
  <2>0. /\ \A f \in TextFields : FirstString(m, TextKeys[f]) \in T
        /\ \A f \in Rates : FirstNumber(m, RateKeys[f]) \in R
    OBVIOUS
  <2> HIDE DEF T, R, m
  <2>1. \A f \in TextFields : c.text[f] \in T
    BY <2>0, ClientFacts
  <2>2. \A f \in Rates : c.rate[f] \in R
    BY <2>0, ClientFacts
  <2>3. c \in C
    <3>1. c = [text |-> [f \in TextFields |-> c.text[f]],
               rate |-> [f \in Rates |-> c.rate[f]]]
      BY ClientFacts
    <3> HIDE DEF c
    <3>2. [f \in TextFields |-> c.text[f]] \in [TextFields -> T]
      BY <2>1
    <3>3. [f \in Rates |-> c.rate[f]] \in [Rates -> R]
      BY <2>2
    <3> QED BY <3>1, <3>2, <3>3
  <2>4. ClientKey(c) \in T
    <3> HIDE DEF c
    <3> QED BY <2>1, KeyFacts DEF ClientKey
  <2> QED BY <2>3, <2>4 DEF m
<1> HIDE DEF T, R
<1>2. \A a, b \in C : MergeClient(a, b) \in C
  <2> SUFFICES ASSUME NEW a \in C, NEW b \in C PROVE MergeClient(a, b) \in C
    OBVIOUS
  <2>0. /\ \A f \in TextFields : a.text[f] \in T /\ b.text[f] \in T
        /\ \A f \in Rates : a.rate[f] \in R /\ b.rate[f] \in R
    OBVIOUS
  <2> HIDE DEF C
  <2>1. \A f \in TextFields : MergeClient(a, b).text[f] \in T
    <3>1. \A f \in TextFields : MergeClient(a, b).text[f] =
             IF a.text[f] = "" THEN b.text[f] ELSE a.text[f]
      BY MergeFacts
    <3> QED BY <2>0, <3>1
  <2>2. \A f \in Rates : MergeClient(a, b).rate[f] \in R
    <3>1. \A f \in Rates : MergeClient(a, b).rate[f] =
             IF a.rate[f] = Absent THEN b.rate[f] ELSE a.rate[f]
      BY MergeFacts
    <3> QED BY <2>0, <3>1
  <2> DEFINE c == MergeClient(a, b)
  <2>3. c = [text |-> [f \in TextFields |-> c.text[f]],
             rate |-> [f \in Rates |-> c.rate[f]]]
    BY MergeFacts
  <2> HIDE DEF c
  <2>4. [f \in TextFields |-> c.text[f]] \in [TextFields -> T]
    BY <2>1 DEF c
  <2>5. [f \in Rates |-> c.rate[f]] \in [Rates -> R]
    BY <2>2 DEF c
  <2> QED BY <2>3, <2>4, <2>5 DEF c, C
<1> HIDE DEF C
<1>3. ASSUME NEW k \in 1..n, NEW b \in V PROVE AddObject(b, walk[k]) \in V
  <2> DEFINE c == ObjectToClient(walk[k])
             key == ClientKey(c)
             a == AddObject(b, walk[k])
  <2>1. b \in [DOMAIN b -> C] /\ DOMAIN b \subseteq T
    OBVIOUS
  <2>2. CASE ~IsClient(walk[k])
    BY <2>2, AddFacts
  <2>3. CASE IsClient(walk[k])
    <3>1. /\ a = [x \in DOMAIN b \cup {key} |-> a[x]]
          /\ \A x \in DOMAIN b \ {key} : a[x] = b[x]
          /\ a[key] = IF key \in DOMAIN b THEN MergeClient(b[key], c) ELSE c
      BY <2>3, AddFacts DEF Added
    <3> HIDE DEF a, c, key
    <3>3. key \in T /\ c \in C
      BY <1>1 DEF key, c
    <3>4. \A x \in DOMAIN b \cup {key} : a[x] \in C
      BY <1>2, <2>1, <3>1, <3>3
    <3>5. a \in [DOMAIN b \cup {key} -> C]
          /\ DOMAIN b \cup {key} \in SUBSET T
      BY <2>1, <3>1, <3>3, <3>4
    <3>6. a \in V
      BY <3>5
    <3> QED BY <3>6 DEF a
  <2> QED BY <2>2, <2>3
<1>4. <<>> \in V
  <2>1. <<>> \in [{} -> C] /\ {} \in SUBSET T
    OBVIOUS
  <2> QED BY <2>1
<1> HIDE DEF V
<1>5. ASSUME NEW k \in 1..n, NEW v \in V
      PROVE  step[<<k, v>>] = AddObject(v, walk[k])
  OBVIOUS
<1> HIDE DEF step
<1>6. StepsIn(step, 1..n, V)
  BY <1>3, <1>5 DEF StepsIn
<1>7. PICK iter \in [SUBSET (1..n) -> V] : FoldsLeft(iter, n, <<>>, step)
  BY <1>4, <1>6, FoldLeftExists
<1> DEFINE fold == CHOOSE g : g = [s \in SUBSET (1..n) |->
                     IF s = {} THEN <<>>
                     ELSE AddObject(g[s \ {Max(s)}], walk[Max(s)])]
<1>8. iter = [s \in SUBSET (1..n) |->
                IF s = {} THEN <<>>
                ELSE AddObject(iter[s \ {Max(s)}], walk[Max(s)])]
  <2>1. ASSUME NEW s \in SUBSET (1..n), s # {}
        PROVE  iter[s] = AddObject(iter[s \ {Max(s)}], walk[Max(s)])
    <3>1. iter[s] = step[<<Max(s), iter[s \ {Max(s)}]>>]
      BY <1>7, <2>1 DEF FoldsLeft
    <3>2. Max(s) \in 1..n
      BY <2>1, PrefixFacts
    <3>3. iter[s \ {Max(s)}] \in V
      OBVIOUS
    <3> QED BY <1>5, <3>1, <3>2, <3>3
  <2>2. iter[{}] = <<>>
    BY <1>7 DEF FoldsLeft
  <2> DEFINE h == [s \in SUBSET (1..n) |->
                     IF s = {} THEN <<>>
                     ELSE AddObject(iter[s \ {Max(s)}], walk[Max(s)])]
  <2>3. \A s \in SUBSET (1..n) : h[s] = iter[s]
    BY <2>1, <2>2
  <2> QED BY <2>3
<1>9. fold = [s \in SUBSET (1..n) |->
                IF s = {} THEN <<>>
                ELSE AddObject(fold[s \ {Max(s)}], walk[Max(s)])]
  BY <1>8
<1>10. ExtractClients(walk) = fold[1..n]
  <2>1. DOMAIN walk = 1..n
    OBVIOUS
  <2> QED BY <2>1 DEF ExtractClients, FoldLeft, MapThenFoldSet
<1> HIDE DEF fold
<1> DEFINE run == [k \in 0..n |-> fold[1..k]]
<1>11. run[0] = <<>> /\ run[n] = fold[1..n]
  <2>1. 1..0 = {} /\ 0 \in 0..n /\ n \in 0..n
    OBVIOUS
  <2>2. fold[{}] = <<>>
    BY <1>9
  <2> QED BY <2>1, <2>2
<1>12. ASSUME NEW k \in 1..n PROVE run[k] = AddObject(run[k - 1], walk[k])
  <2> DEFINE P == 1..k
  <2>1. P \in SUBSET (1..n) /\ P # {} /\ Max(P) = k /\ P \ {k} = 1..k-1
    BY PrefixFacts
  <2>2. k \in 0..n /\ k - 1 \in 0..n
    OBVIOUS
  <2>3. run[k] = fold[P] /\ run[k - 1] = fold[1..k-1]
    BY <2>2
  <2> HIDE DEF P, run
  <2>4. fold[P] = AddObject(fold[P \ {Max(P)}], walk[Max(P)])
    BY <1>9, <2>1
  <2> QED BY <2>1, <2>3, <2>4
<1> HIDE DEF run
<1> QED BY <1>10, <1>11, <1>12 DEF Extracts

(* A rate of some client is a rate of some client object, and the other    *)
(* way round.                                                              *)
Has(clients, f) == \E k \in DOMAIN clients : clients[k].rate[f] # Absent
Gives(m, f) == IsClient(m) /\ FirstNumber(m, RateKeys[f]) # Absent

LEMMA HasStep ==
    ASSUME NEW b, NEW m, NEW f \in Rates
    PROVE  Has(AddObject(b, m), f) <=> Has(b, f) \/ Gives(m, f)
<1>1. CASE ~IsClient(m)
  BY <1>1, AddFacts DEF Gives
<1>2. CASE IsClient(m)
  <2> DEFINE c == ObjectToClient(m)
             key == ClientKey(c)
             a == AddObject(b, m)
  <2>1. /\ a = [x \in DOMAIN b \cup {key} |-> a[x]]
        /\ \A x \in DOMAIN b \ {key} : a[x] = b[x]
        /\ a[key] = IF key \in DOMAIN b THEN MergeClient(b[key], c) ELSE c
    BY <1>2, AddFacts DEF Added
  <2>2. c.rate[f] # Absent <=> Gives(m, f)
    BY <1>2, ClientFacts DEF Gives
  <2> HIDE DEF a, c, key
  <2>3. DOMAIN a = DOMAIN b \cup {key}
    BY <2>1
  <2>4. MergeClient(b[key], c).rate[f] =
           IF b[key].rate[f] = Absent THEN c.rate[f] ELSE b[key].rate[f]
    BY MergeFacts
  <2>5. a[key].rate[f] # Absent
           <=> c.rate[f] # Absent
               \/ (key \in DOMAIN b /\ b[key].rate[f] # Absent)
    BY <2>1, <2>4
  <2>6. Has(a, f) <=> Has(b, f) \/ c.rate[f] # Absent
    BY <2>1, <2>3, <2>5 DEF Has
  <2> QED BY <2>2, <2>6 DEF a
<1> QED BY <1>1, <1>2

LEMMA RatesFound ==
    ASSUME NEW E, NEW walk \in Seq(E), NEW f \in Rates
    PROVE  Has(ExtractClients(walk), f) <=> \E m \in ToSet(walk) : Gives(m, f)
<1> DEFINE n == Len(walk)
<1>0. n \in Nat /\ DOMAIN walk = 1..n
  OBVIOUS
<1>1. PICK run : Extracts(run, walk, n) /\ ExtractClients(walk) = run[n]
  BY <1>0, ExtractRun
<1> HIDE DEF n
<1> DEFINE U == {k \in 0..n :
                   Has(run[k], f) <=> \E i \in 1..k : Gives(walk[i], f)}
<1>2. 0 \in U
  BY <1>0, <1>1 DEF Extracts, Has
<1>3. ASSUME NEW k \in 1..n, k - 1 \in U PROVE k \in U
  <2>1. Has(run[k], f) <=> Has(run[k - 1], f) \/ Gives(walk[k], f)
    BY <1>1, HasStep DEF Extracts
  <2>2. 1..k = 1..k-1 \cup {k} /\ k \in 0..n
    BY <1>0
  <2>3. Has(run[k - 1], f) <=> \E i \in 1..k-1 : Gives(walk[i], f)
    BY <1>3
  <2>4. Has(run[k], f) <=> \E i \in 1..k : Gives(walk[i], f)
    BY <2>1, <2>2, <2>3
  <2> QED BY <2>2, <2>4
<1>4. n \in U
  <2> HIDE DEF U
  <2>1. 0..n \subseteq U
    BY <1>0, <1>2, <1>3, RangeInduction
  <2> QED BY <1>0, <2>1
<1> QED BY <1>0, <1>1, <1>4 DEF ToSet

(* What a probe claims of a document is what the document tells.           *)
LEMMA ClaimsFacts ==
    ASSUME NEW d \in Documents, NEW walk \in Walks(d), NEW f \in Rates
    PROVE  Has(ExtractClients(walk), f) <=> Tells(d, f)
<1>1. walk \in Seq(Objects(d)) /\ ToSet(walk) = Objects(d)
  BY WalkFacts
<1>2. Has(ExtractClients(walk), f) <=> \E m \in Objects(d) : Gives(m, f)
  BY <1>1, RatesFound
<1>3. ASSUME NEW m
      PROVE  Gives(m, f) <=>
               Named(m) /\ \E k \in ToSet(RateKeys[f]) \cap DOMAIN m :
                               m[k].number # Absent
  <2>1. FirstNumber(m, RateKeys[f]) # Absent
           <=> \E k \in ToSet(RateKeys[f]) \cap DOMAIN m : m[k].number # Absent
    BY KeyFacts, NumberFacts
  <2>2. IsClient(m) <=> /\ Named(m)
                        /\ \E g \in Rates : FirstNumber(m, RateKeys[g]) # Absent
    BY ClientFacts DEF IsClient, Named
  <2> QED BY <2>1, <2>2 DEF Gives
<1> QED BY <1>2, <1>3 DEF Tells

LEMMA RateTyped ==
    ASSUME NEW d \in Documents, NEW m \in Objects(d), NEW f \in Rates
    PROVE  FirstNumber(m, RateKeys[f]) \in Nat \cup {Absent, NotANumber}
<1>1. \A k \in DOMAIN m : m[k].number \in Nat \cup {Absent, NotANumber}
  BY DocumentsAssumption
<1> QED BY <1>1, KeyFacts, NumberFacts

(* The clients of any walk are finitely many, and their rates are what a   *)
(* document may hold.                                                      *)
Sound(b) == /\ IsFiniteSet(DOMAIN b)
            /\ \A k \in DOMAIN b : \A f \in Rates : b[k].rate[f] \in Sums

LEMMA SoundStep ==
    ASSUME NEW b, Sound(b), NEW m,
           \A f \in Rates : FirstNumber(m, RateKeys[f]) \in Sums
    PROVE  Sound(AddObject(b, m))
<1>1. CASE ~IsClient(m)
  BY <1>1, AddFacts
<1>2. CASE IsClient(m)
  <2> DEFINE c == ObjectToClient(m)
             key == ClientKey(c)
             a == AddObject(b, m)
  <2>1. /\ a = [x \in DOMAIN b \cup {key} |-> a[x]]
        /\ \A x \in DOMAIN b \ {key} : a[x] = b[x]
        /\ a[key] = IF key \in DOMAIN b THEN MergeClient(b[key], c) ELSE c
    BY <1>2, AddFacts DEF Added
  <2>2. \A f \in Rates : c.rate[f] \in Sums
    BY ClientFacts
  <2> HIDE DEF a, c, key
  <2>3. DOMAIN a = DOMAIN b \cup {key}
    BY <2>1
  <2>4. IsFiniteSet(DOMAIN a)
    BY <2>3, FS_AddElement DEF Sound
  <2>5. ASSUME NEW x \in DOMAIN a, NEW f \in Rates PROVE a[x].rate[f] \in Sums
    <3>1. CASE x # key
      BY <2>1, <2>3, <3>1 DEF Sound
    <3>2. CASE x = key /\ key \notin DOMAIN b
      BY <2>1, <2>2, <3>2
    <3>3. CASE x = key /\ key \in DOMAIN b
      <4>1. MergeClient(b[key], c).rate[f] =
               IF b[key].rate[f] = Absent THEN c.rate[f] ELSE b[key].rate[f]
        BY MergeFacts
      <4>2. a[x] = MergeClient(b[key], c)
        BY <2>1, <3>3
      <4>3. b[key].rate[f] \in Sums
        BY <3>3 DEF Sound
      <4> QED BY <2>2, <4>1, <4>2, <4>3
    <3> QED BY <3>1, <3>2, <3>3
  <2>6. Sound(a)
    BY <2>4, <2>5 DEF Sound
  <2> QED BY <2>6 DEF a
<1> QED BY <1>1, <1>2

LEMMA ClientsSound ==
    ASSUME NEW d \in Documents, NEW walk \in Walks(d)
    PROVE  Sound(ExtractClients(walk))
<1> DEFINE n == Len(walk)
<1>0. /\ walk \in Seq(Objects(d)) /\ n \in Nat /\ DOMAIN walk = 1..n
      /\ \A k \in 1..n : walk[k] \in Objects(d)
  BY WalkFacts
<1>1. PICK run : Extracts(run, walk, n) /\ ExtractClients(walk) = run[n]
  BY <1>0, ExtractRun
<1> HIDE DEF n
<1> DEFINE U == {k \in 0..n : Sound(run[k])}
<1>2. 0 \in U
  <2>1. IsFiniteSet({}) /\ DOMAIN <<>> = {}
    BY FS_EmptySet
  <2> QED BY <1>0, <1>1, <2>1 DEF Extracts, Sound
<1>3. ASSUME NEW k \in 1..n, k - 1 \in U PROVE k \in U
  <2>1. run[k] = AddObject(run[k - 1], walk[k])
    BY <1>1 DEF Extracts
  <2>2. \A f \in Rates : FirstNumber(walk[k], RateKeys[f]) \in Sums
    BY <1>0, RateTyped DEF Sums
  <2>3. Sound(run[k])
    BY <1>3, <2>1, <2>2, SoundStep
  <2> QED BY <1>0, <2>3
<1>4. n \in U
  <2> HIDE DEF U
  <2>1. 0..n \subseteq U
    BY <1>0, <1>2, <1>3, RangeInduction
  <2> QED BY <1>0, <2>1
<1> QED BY <1>1, <1>4

(* The clients that count for a sum.                                       *)
Counted(clients, f) == {k \in DOMAIN clients : clients[k].rate[f] # Absent}

LEMMA SumOfClients ==
    ASSUME NEW clients, NEW f \in Rates,
           ~\E k \in Counted(clients, f) : clients[k].rate[f] = NotANumber,
           IsFiniteSet(Counted(clients, f)), Counted(clients, f) # {},
           \A k \in Counted(clients, f) : clients[k].rate[f] \in Int
    PROVE  \E iter : /\ SumsUp(iter, Counted(clients, f),
                         [k \in Counted(clients, f) |-> clients[k].rate[f]])
                     /\ SumClients(clients, f) = iter[Counted(clients, f)]
<1> DEFINE S == Counted(clients, f)
           v == [k \in S |-> clients[k].rate[f]]
           sum == CHOOSE g : g = [s \in SUBSET S |->
                    IF s = {} THEN 0
                    ELSE clients[CHOOSE x \in s : TRUE].rate[f]
                            + g[s \ {CHOOSE x \in s : TRUE}]]
<1>1. PICK iter \in [SUBSET S -> Int] : SumsUp(iter, S, v)
  <2>1. \A x \in S : v[x] \in Int
    OBVIOUS
  <2> HIDE DEF v, S
  <2> QED BY <2>1, SumExists DEF S
<1>2. SumClients(clients, f) = sum[S]
  <2>1. ~\E k \in S : clients[k].rate[f] = NotANumber
    OBVIOUS
  <2> QED BY <2>1 DEF SumClients, Counted, MapThenSumSet, MapThenFoldSet
<1>3. \A g : g = [s \in SUBSET S |->
                    IF s = {} THEN 0
                    ELSE clients[CHOOSE x \in s : TRUE].rate[f]
                            + g[s \ {CHOOSE x \in s : TRUE}]]
               <=> SumsUp(g, S, v)
  BY DEF SumsUp, OneOf
<1> HIDE DEF S, v
<1>4. SumsUp(sum, S, v)
  <2> DEFINE Sum(g) == g = [s \in SUBSET S |->
                IF s = {} THEN 0
                ELSE clients[CHOOSE x \in s : TRUE].rate[f]
                        + g[s \ {CHOOSE x \in s : TRUE}]]
  <2>1. \A g : Sum(g) <=> SumsUp(g, S, v)
    BY <1>3
  <2>2. sum = CHOOSE g : Sum(g)
    OBVIOUS
  <2> HIDE DEF Sum, sum
  <2>3. Sum(iter)
    BY <1>1, <2>1
  <2>4. Sum(CHOOSE g : Sum(g))
    BY ONLY <2>3
  <2> QED BY <2>1, <2>2, <2>4
<1> HIDE DEF sum
<1> QED BY <1>2, <1>4 DEF S, v

(* A sum is there if some client has the rate; it is a number unless one   *)
(* of those is not.                                                        *)
LEMMA SumFacts ==
    ASSUME NEW c, Sound(c), NEW f \in Rates
    PROVE  /\ SumClients(c, f) \in Sums
           /\ SumClients(c, f) # Absent <=> Has(c, f)
           /\ Marshals(c) => SumClients(c, f) # NotANumber
<1> DEFINE S == Counted(c, f)
           v == [k \in S |-> c[k].rate[f]]
<1>0. Absent # NotANumber /\ Absent \notin Nat /\ NotANumber \notin Nat
  BY DEF Absent, NotANumber
<1>1. CASE S = {}
  <2>1. SumClients(c, f) = Absent /\ ~Has(c, f)
    BY <1>1 DEF SumClients, Counted, Has
  <2> QED BY <1>0, <2>1 DEF Sums
<1>2. CASE S # {} /\ \E k \in S : c[k].rate[f] = NotANumber
  <2>1. SumClients(c, f) = NotANumber /\ Has(c, f)
    BY <1>2 DEF SumClients, Counted, Has
  <2>2. ~Marshals(c)
    BY <1>2 DEF Marshals, Counted
  <2> QED BY <1>0, <2>1, <2>2 DEF Sums
<1>3. CASE S # {} /\ ~\E k \in S : c[k].rate[f] = NotANumber
  <2>1. IsFiniteSet(S)
    <3>1. S \subseteq DOMAIN c /\ IsFiniteSet(DOMAIN c)
      BY DEF Sound, Counted
    <3> HIDE DEF S
    <3> QED BY <3>1, FS_Subset
  <2>2. ASSUME NEW k \in S PROVE c[k].rate[f] \in Nat
    BY <1>3 DEF Sound, Sums, Counted
  <2>3. PICK iter : SumsUp(iter, S, v) /\ SumClients(c, f) = iter[S]
    <3>1. \A k \in Counted(c, f) : c[k].rate[f] \in Int
      <4> TAKE k \in Counted(c, f)
      <4> QED BY <2>2
    <3> QED BY ONLY <1>3, <2>1, <3>1, SumOfClients
  <2>4. iter[S] \in Nat
    <3>1. \A x \in S : v[x] \in Nat /\ v[x] \in Int /\ v[x] <= v[x]
      BY <2>2
    <3>2. S \in SUBSET S /\ SumsUp(iter, S, v)
      BY <2>3
    <3> HIDE DEF v, S
    <3> QED BY <2>1, <3>1, <3>2, SumLess
  <2>5. Has(c, f)
    BY <1>3 DEF Counted, Has
  <2> QED BY <1>0, <2>3, <2>4, <2>5 DEF Sums
<1> QED BY <1>1, <1>2, <1>3

(* The total of a sample.                                                  *)
LEMMA TotalFacts ==
    ASSUME NEW down \in Sums, NEW up \in Sums, NEW total \in Sums
    PROVE  /\ TotalOf(down, up, total) \in Sums
           /\ TotalOf(down, up, total) # Absent
                 <=> total # Absent \/ (down # Absent /\ up # Absent)
           /\ total = Absent /\ Absent \notin {down, up}
                 /\ NotANumber \notin {down, up} =>
                 TotalOf(down, up, total) = down + up
BY DEF TotalOf, Sums, Absent, NotANumber

-----------------------------------------------------------------------------
LEMMA ViewTyped ==
    ASSUME NEW at \in 0..MaxProbes, NEW some \in BOOLEAN,
           NEW error \in Errors, NEW download \in BOOLEAN,
           NEW upload \in BOOLEAN, NEW total \in BOOLEAN,
           NEW down \in Sums, NEW up \in Sums, NEW sum \in Sums
    PROVE  [at |-> at, success |-> some, error |-> error,
            reachable |-> TRUE, authenticated |-> TRUE, list |-> some,
            download |-> download, upload |-> upload, total |-> total,
            downloadBps |-> down, uploadBps |-> up, totalBps |-> sum]
              \in Views
BY DEF Views

(* A probe refuses or has walked a document.                               *)
Refuses(r, view) ==
    r.view = view /\ r.clients = <<>> /\ r.document = NoDocument
Walked(r, d, walk) ==
    /\ r.view = Snapshot(ExtractClients(walk))
    /\ r.clients = ExtractClients(walk) /\ r.document = d

LEMMA ProbeCases ==
    ASSUME NEW r \in ProbeAndCollect
    PROVE  \/ Refuses(r, Refused("incomplete", FALSE))
           \/ Refuses(r, Refused("login", TRUE))
           \/ \E d \in Documents : \E walk \in Walks(d) : Walked(r, d, walk)
<1> DEFINE W == UNION {{d} \X Walks(d) : d \in Documents}
           of(w) == Result(Snapshot(ExtractClients(w[2])),
                           ExtractClients(w[2]), w[1])
<1>1. \A view, clients, d :
         /\ Result(view, clients, d).view = view
         /\ Result(view, clients, d).clients = clients
         /\ Result(view, clients, d).document = d
  BY DEF Result
<1>2. \/ r = Result(Refused("incomplete", FALSE), <<>>, NoDocument)
      \/ r = Result(Refused("login", TRUE), <<>>, NoDocument)
      \/ \E w \in W : r = of(w)
  BY DEF ProbeAndCollect
<1>3. CASE \E w \in W : r = of(w)
  <2> PICK w \in W : r = of(w)
    BY <1>3
  <2>1. PICK d \in Documents : w \in {d} \X Walks(d)
    OBVIOUS
  <2>2. w[1] = d /\ w[2] \in Walks(d)
    BY <2>1
  <2>3. Walked(r, d, w[2])
    BY <1>1, <2>2 DEF Walked
  <2> QED BY <2>2, <2>3
<1>4. ASSUME NEW view, r = Result(view, <<>>, NoDocument)
      PROVE  Refuses(r, view)
  BY <1>1, <1>4 DEF Refuses
<1> HIDE DEF W, of
<1> QED BY <1>2, <1>3, <1>4

(* What is true of the snapshot of any probe.                              *)
LEMMA ProbeFacts ==
    ASSUME TypeOK, clock < MaxProbes, NEW r \in ProbeAndCollect
    PROVE  /\ r.view \in Views /\ r.view.at = clock + 1
           /\ r.view.success \/ r.view.error # ""
           /\ r.view.success => r.view.authenticated
           /\ r.view.reachable \/ r.view.error = "incomplete"
           /\ r.view.success \/ Marshals(r.clients)
<1>1. clock + 1 \in 0..MaxProbes
  BY BoundsAssumption DEF TypeOK
<1>2. /\ Refused("incomplete", FALSE) \in Views
      /\ Refused("login", TRUE) \in Views
  BY <1>1 DEF Refused, NoView, Views, Errors, Sums
<1>3. Marshals(<<>>)
  BY DEF Marshals
<1>4. ASSUME NEW d \in Documents, NEW walk \in Walks(d),
             NEW c, c = ExtractClients(walk)
      PROVE  /\ Snapshot(c) \in Views /\ Snapshot(c).at = clock + 1
             /\ Snapshot(c).success \/ Snapshot(c).error # ""
             /\ Snapshot(c).authenticated /\ Snapshot(c).reachable
             /\ Snapshot(c).success \/ Marshals(c)
  <2> DEFINE download == AnyClientHas(c, {"downloadBps"})
             upload == AnyClientHas(c, {"uploadBps"})
             both == AnyClientHas(c, {"totalBps", "totalBytes"})
             at == clock + 1
  <2>1. /\ download \in BOOLEAN /\ upload \in BOOLEAN /\ both \in BOOLEAN
        /\ at \in 0..MaxProbes
    BY <1>1 DEF AnyClientHas
  <2>2. DOMAIN c = {} => Marshals(c)
    BY DEF Marshals
  <2>3. \A f \in Rates : SumClients(c, f) \in Sums
    BY <1>4, ClientsSound, SumFacts
  <2> DEFINE down == SumClients(c, "downloadBps")
             up == SumClients(c, "uploadBps")
             total == SumClients(c, "totalBps")
  <2>4. /\ down \in Sums /\ up \in Sums /\ total \in Sums
        /\ {"downloadBps", "uploadBps", "totalBps"} \subseteq Rates
    BY <2>3, KeyFacts
  <2> HIDE DEF down, up, total
  <2>5. TotalOf(down, up, total) \in Sums
    BY <2>4, TotalFacts
  <2> DEFINE some == DOMAIN c # {}
             error == IF some THEN "" ELSE "unsupported"
  <2>6. some \in BOOLEAN /\ error \in Errors /\ (some \/ error # "")
    BY DEF Errors
  <2>7. Snapshot(c) =
          [at |-> at, success |-> some, error |-> error,
           reachable |-> TRUE, authenticated |-> TRUE, list |-> some,
           download |-> download, upload |-> upload, total |-> both,
           downloadBps |-> down, uploadBps |-> up,
           totalBps |-> TotalOf(down, up, total)]
    BY <2>4 DEF Snapshot, down, up, total, some, error
  <2> HIDE DEF some, error, download, upload, both, at
  <2>8. Snapshot(c) \in Views
    <3> DEFINE sum == TotalOf(down, up, total)
    <3>1. sum \in Sums
      BY <2>5
    <3> HIDE DEF sum
    <3>2. [at |-> at, success |-> some, error |-> error,
           reachable |-> TRUE, authenticated |-> TRUE, list |-> some,
           download |-> download, upload |-> upload, total |-> both,
           downloadBps |-> down, uploadBps |-> up, totalBps |-> sum] \in Views
      BY <2>1, <2>4, <2>6, <3>1, ViewTyped
    <3> QED BY <2>7, <3>2 DEF sum
  <2>9. /\ Snapshot(c).at = at /\ Snapshot(c).authenticated
        /\ Snapshot(c).reachable
        /\ Snapshot(c).success = some /\ Snapshot(c).error = error
    BY <2>7
  <2> QED BY <2>2, <2>6, <2>8, <2>9 DEF some, at
<1>5. CASE Refuses(r, Refused("incomplete", FALSE))
  <2>1. r.view = Refused("incomplete", FALSE) /\ r.clients = <<>>
    BY <1>5 DEF Refuses
  <2> QED BY <1>2, <1>3, <2>1 DEF Refused, NoView
<1>6. CASE Refuses(r, Refused("login", TRUE))
  <2>1. r.view = Refused("login", TRUE) /\ r.clients = <<>>
    BY <1>6 DEF Refuses
  <2> QED BY <1>2, <1>3, <2>1 DEF Refused, NoView
<1>7. CASE \E d \in Documents : \E walk \in Walks(d) : Walked(r, d, walk)
  <2> PICK d \in Documents : \E walk \in Walks(d) : Walked(r, d, walk)
    BY <1>7
  <2> PICK walk \in Walks(d) : Walked(r, d, walk)
    OBVIOUS
  <2>1. PICK c : c = ExtractClients(walk)
    OBVIOUS
  <2>2. r.view = Snapshot(c) /\ r.clients = c
    BY <2>1 DEF Walked
  <2> QED BY <1>4, <2>1, <2>2
<1> QED BY <1>5, <1>6, <1>7, ProbeCases

-----------------------------------------------------------------------------
(* What any step may do to a request of the page. *)

NewRequest(kind) == [Free EXCEPT !.kind = kind, !.mine = kind = "probe"]

FlightStep(i) ==
    \/ flights'[i] \in {flights[i], [flights[i] EXCEPT !.mine = FALSE],
                        Free, NewRequest("load"), NewRequest("probe")}
    \/ flights'[i] = [flights[i] EXCEPT !.reply = "error", !.collect = FALSE]
    \/ /\ flights[i].kind = "load"
       /\ flights'[i] = [flights[i] EXCEPT !.reply = "settings",
                                          !.collect = settings.collect]
    \/ /\ flights[i].kind = "load"
       /\ rows' = rows
       /\ flights'[i] =
             [flights[i] EXCEPT
                !.reply = "ok", !.collect = FALSE,
                !.view = CurrentRouterTraffic(flights[i].collect)]
    \/ /\ flights[i].kind = "probe" /\ clock < MaxProbes
       /\ \E r \in ProbeAndCollect :
             flights'[i] = [flights[i] EXCEPT
                              !.reply = IF Marshals(r.clients) THEN "ok"
                                                               ELSE "error",
                              !.view = IF Marshals(r.clients) THEN r.view
                                                              ELSE NoView]

(* A request goes into one slot and leaves the others alone.               *)
LEMMA SendFacts ==
    ASSUME NEW f, DOMAIN f = Slots, NEW kind
    PROVE  /\ DOMAIN Send(f, kind) = Slots
           /\ Send(f, kind) = [i \in Slots |-> Send(f, kind)[i]]
           /\ \A i \in Slots : Send(f, kind)[i] \in {f[i], NewRequest(kind)}
BY DEF Send, NewRequest

LEMMA FlightsAdvance ==
    ASSUME TypeOK, Next
    PROVE  /\ flights' = [i \in Slots |-> flights'[i]]
           /\ \A i \in Slots : FlightStep(i)
<1>0. DOMAIN flights = Slots /\ flights = [i \in Slots |-> flights[i]]
  BY DEF TypeOK
<1>1. CASE UNCHANGED flights
  BY <1>0, <1>1 DEF FlightStep
<1>2. CASE \E i \in Slots : ReadSettings(i) \/ ServeCurrent(i)
  BY <1>0, <1>2 DEF ReadSettings, ServeCurrent, FlightStep, server
<1>3. CASE \E i \in Slots : ServeProbe(i)
  <2> PICK i \in Slots : ServeProbe(i)
    BY <1>3
  <2> PICK r \in ProbeAndCollect :
          flights' = [flights EXCEPT
              ![i].reply = IF Marshals(r.clients) THEN "ok" ELSE "error",
              ![i].view = IF Marshals(r.clients) THEN r.view ELSE NoView]
    BY DEF ServeProbe
  <2>1. flights[i].kind = "probe" /\ clock < MaxProbes
    BY DEF ServeProbe, ProbeTakesTime
  <2>2. \A j \in Slots \ {i} : flights'[j] = flights[j]
    BY <1>0
  <2>3. flights'[i] = [flights[i] EXCEPT
              !.reply = IF Marshals(r.clients) THEN "ok" ELSE "error",
              !.view = IF Marshals(r.clients) THEN r.view ELSE NoView]
    BY <1>0
  <2>4. FlightStep(i)
    BY <2>1, <2>3 DEF FlightStep
  <2>5. DOMAIN flights' = Slots /\ flights' = [j \in Slots |-> flights'[j]]
    BY <1>0
  <2> QED BY <2>2, <2>4, <2>5 DEF FlightStep
<1>4. CASE \E i \in Slots : RequestFails(i)
  BY <1>0, <1>4 DEF RequestFails, FlightStep
<1>5. CASE \E i \in Slots : ReceiveLoad(i) \/ ReceiveProbe(i)
  BY <1>0, <1>5 DEF ReceiveLoad, ReceiveProbe, Land, FlightStep
<1>6. CASE \E kind \in {"router", "dashboard"} : Open(kind)
  <2> DEFINE loading == Send(NoFlights, "load")
  <2>1. DOMAIN NoFlights = Slots /\ \A i \in Slots : NoFlights[i] = Free
    BY DEF NoFlights
  <2>2. /\ DOMAIN loading = Slots /\ loading = [i \in Slots |-> loading[i]]
        /\ \A i \in Slots : loading[i] \in {Free, NewRequest("load")}
    BY <2>1, SendFacts
  <2>3. flights' = loading \/ flights' = Send(loading, "probe")
    BY <1>6 DEF Open
  <2> HIDE DEF loading
  <2>4. /\ Send(loading, "probe") = [i \in Slots |-> Send(loading, "probe")[i]]
        /\ \A i \in Slots :
              Send(loading, "probe")[i] \in {loading[i], NewRequest("probe")}
    BY <2>2, SendFacts
  <2> QED BY <2>2, <2>3, <2>4 DEF FlightStep
<1>7. CASE SetRefresh \/ SetHistorical
  <2>1. /\ DOMAIN Orphaned = Slots /\ Orphaned = [i \in Slots |-> Orphaned[i]]
        /\ \A i \in Slots : Orphaned[i] = [flights[i] EXCEPT !.mine = FALSE]
    BY DEF Orphaned
  <2>2. /\ Send(Orphaned, "probe") =
              [i \in Slots |-> Send(Orphaned, "probe")[i]]
        /\ \A i \in Slots :
              Send(Orphaned, "probe")[i] \in {Orphaned[i], NewRequest("probe")}
    BY <2>1, SendFacts
  <2>3. flights' = Orphaned \/ flights' = Send(Orphaned, "probe")
    BY <1>7 DEF SetRefresh, SetHistorical
  <2> QED BY <2>1, <2>2, <2>3 DEF FlightStep
<1>8. CASE Tick \/ Reload
  <2> PICK kind \in {"load", "probe"} : flights' = Send(flights, kind)
    BY <1>8 DEF Tick, Reload
  <2>1. /\ Send(flights, kind) = [i \in Slots |-> Send(flights, kind)[i]]
        /\ \A i \in Slots :
              Send(flights, kind)[i] \in {flights[i], NewRequest(kind)}
    BY <1>0, SendFacts
  <2> QED BY <2>1 DEF FlightStep
<1>9. CASE Crash
  BY <1>0, <1>9 DEF Crash, FlightStep
<1> QED
  BY <1>1, <1>2, <1>3, <1>4, <1>5, <1>6, <1>7, <1>8, <1>9
  DEF Next, LoopStep, CheckRouterTraffic, InsertRouterTraffic, InsertFails,
      Emit, SaveSettings

-----------------------------------------------------------------------------
(* Types, and the times of samples. *)

Times ==
    /\ loop.pc # "idle" => loop.view.at \in 1..clock
    /\ \A j \in DOMAIN rows : rows[j].at \in 1..clock
    /\ loop.pc = "insert" => \A j \in DOMAIN rows : rows[j].at # loop.view.at

TypeInv == TypeOK /\ Times

LEMMA CurrentTyped ==
    ASSUME TypeOK, NEW collect
    PROVE  CurrentRouterTraffic(collect) \in Views
<1>1. NoView \in Views
  BY BoundsAssumption DEF NoView, Views, Errors, Sums
<1>2. \A v \in Views :
         Rebuilt(v) \in Views /\ [v EXCEPT !.error = "disabled"] \in Views
  BY DEF Rebuilt, Views, Errors
<1>3. rows # <<>> => Last(rows) \in Views
  BY DEF TypeOK, Last
<1> QED BY <1>1, <1>2, <1>3 DEF CurrentRouterTraffic

(* What any step may do to the rows and the clock.                         *)
LEMMA RowsAdvance ==
    ASSUME TypeInv, Next
    PROVE  /\ \/ rows' = rows
              \/ /\ rows' = Append(rows, loop.view) /\ clock' = clock
                 /\ loop.pc = "insert" /\ loop'.pc # "insert"
           /\ clock' = clock \/ (clock' = clock + 1 /\ clock < MaxProbes)
<1>1. CASE InsertRouterTraffic
  BY <1>1 DEF InsertRouterTraffic, AfterInsert, LoopIdle, TypeInv, TypeOK
<1>2. CASE CheckRouterTraffic \/ \E i \in Slots : ServeProbe(i)
  BY <1>2 DEF CheckRouterTraffic, ServeProbe, ProbeTakesTime
<1>3. CASE UNCHANGED <<rows, clock>>
  BY <1>3
<1> QED
  BY <1>1, <1>2, <1>3
  DEF Next, LoopStep, InsertFails, Emit, ReadSettings, ServeCurrent,
      RequestFails, ReceiveLoad, ReceiveProbe, Open, SetRefresh,
      SetHistorical, Tick, Reload, SaveSettings, Crash, server

(* What any step may do to the loop.                                       *)
LEMMA LoopAdvance ==
    ASSUME TypeInv, Next
    PROVE  \/ loop' = loop
           \/ loop' = LoopIdle
           \/ loop.pc = "insert" /\ loop' = [loop EXCEPT !.pc = "emit"]
           \/ /\ loop.pc = "idle" /\ clock < MaxProbes /\ clock' = clock + 1
              /\ rows' = rows
              /\ \E r \in ProbeAndCollect :
                    loop' = [pc |-> "insert", view |-> r.view,
                             clients |-> r.clients, document |-> r.document]
<1>1. CASE CheckRouterTraffic
  BY <1>1 DEF CheckRouterTraffic, ProbeTakesTime
<1>2. CASE InsertRouterTraffic \/ InsertFails
  BY <1>2 DEF InsertRouterTraffic, InsertFails, AfterInsert, AfterInsertFails
<1>3. CASE Emit \/ Crash
  BY <1>3 DEF Emit, Crash
<1>4. CASE UNCHANGED loop
  BY <1>4
<1> QED
  BY <1>1, <1>2, <1>3, <1>4
  DEF Next, LoopStep, ReadSettings, ServeCurrent, ServeProbe, RequestFails,
      ReceiveLoad, ReceiveProbe, Open, SetRefresh, SetHistorical, Tick, Reload,
      SaveSettings, server

LEMMA FlightsTyped ==
    ASSUME TypeInv, Next
    PROVE  flights' \in [Slots -> [kind : {"free", "load", "probe"},
                                   mine : BOOLEAN,
                                   reply : {"none", "settings", "ok", "error"},
                                   view : Views, collect : BOOLEAN]]
<1> DEFINE F == [kind : {"free", "load", "probe"}, mine : BOOLEAN,
                 reply : {"none", "settings", "ok", "error"}, view : Views,
                 collect : BOOLEAN]
<1>1. NoView \in Views
  BY BoundsAssumption DEF NoView, Views, Errors, Sums
<1>2. Free \in F /\ NewRequest("load") \in F /\ NewRequest("probe") \in F
  BY <1>1 DEF Free, NewRequest
<1>3. ASSUME NEW i \in Slots PROVE flights'[i] \in F
  <2>1. FlightStep(i) /\ flights[i] \in F
    BY <1>3, FlightsAdvance DEF TypeInv, TypeOK
  <2>2. /\ CurrentRouterTraffic(flights[i].collect) \in Views
        /\ settings.collect \in BOOLEAN
    BY CurrentTyped DEF TypeInv, TypeOK, Settings
  <2>3. clock < MaxProbes => \A r \in ProbeAndCollect : r.view \in Views
    BY ProbeFacts DEF TypeInv
  <2>4. CASE flights'[i] \in {flights[i], [flights[i] EXCEPT !.mine = FALSE],
                              Free, NewRequest("load"), NewRequest("probe"),
                              [flights[i] EXCEPT !.reply = "error",
                                                 !.collect = FALSE],
                              [flights[i] EXCEPT !.reply = "settings",
                                                 !.collect = settings.collect]}
    BY <1>2, <2>1, <2>2, <2>4
  <2>5. CASE flights'[i] =
               [flights[i] EXCEPT
                  !.reply = "ok", !.collect = FALSE,
                  !.view = CurrentRouterTraffic(flights[i].collect)]
    BY <2>1, <2>2, <2>5
  <2>6. CASE clock < MaxProbes /\ \E r \in ProbeAndCollect :
                flights'[i] = [flights[i] EXCEPT
                              !.reply = IF Marshals(r.clients) THEN "ok"
                                                               ELSE "error",
                              !.view = IF Marshals(r.clients) THEN r.view
                                                              ELSE NoView]
    BY <1>1, <2>1, <2>3, <2>6
  <2> QED BY <2>1, <2>4, <2>5, <2>6 DEF FlightStep
<1> QED BY <1>3, FlightsAdvance DEF TypeInv

LEMMA TimesStep ==
    ASSUME TypeInv, Next PROVE Times'
<1>1. clock \in Nat /\ clock' \in Nat /\ clock <= clock'
  BY RowsAdvance DEF TypeInv, TypeOK
<1>2. rows \in Seq(Views)
  BY DEF TypeInv, TypeOK
<1>3. \A j \in DOMAIN rows' : rows'[j].at \in 1..clock'
  <2>1. \A j \in DOMAIN rows : rows[j].at \in 1..clock'
    BY <1>1 DEF TypeInv, Times
  <2>2. CASE rows' = rows
    BY <2>1, <2>2
  <2>3. CASE rows' = Append(rows, loop.view) /\ loop.pc = "insert"
    <3>1. loop.view.at \in 1..clock'
      BY <1>1, <2>3 DEF TypeInv, Times
    <3>2. \A j \in DOMAIN rows' :
             (j \in DOMAIN rows /\ rows'[j] = rows[j]) \/ rows'[j] = loop.view
      BY <1>2, <2>3
    <3> QED BY <2>1, <3>1, <3>2
  <2> QED BY <2>2, <2>3, RowsAdvance
<1>6. CASE loop' = loop
  BY <1>1, <1>3, <1>6, RowsAdvance DEF TypeInv, Times
<1>7. CASE loop' = LoopIdle
  BY <1>3, <1>7 DEF LoopIdle, Times
<1>8. CASE loop.pc = "insert" /\ loop' = [loop EXCEPT !.pc = "emit"]
  <2>1. loop'.pc = "emit" /\ loop'.view = loop.view
    BY <1>8 DEF TypeInv, TypeOK
  <2> QED BY <1>1, <1>3, <1>8, <2>1 DEF TypeInv, Times
<1>9. CASE /\ loop.pc = "idle" /\ clock < MaxProbes /\ clock' = clock + 1
           /\ rows' = rows
           /\ \E r \in ProbeAndCollect :
                    loop' = [pc |-> "insert", view |-> r.view,
                             clients |-> r.clients, document |-> r.document]
  <2> PICK r \in ProbeAndCollect :
             loop' = [pc |-> "insert", view |-> r.view,
                      clients |-> r.clients, document |-> r.document]
    BY <1>9
  <2>1. loop'.view.at = clock + 1
    BY <1>9, ProbeFacts DEF TypeInv
  <2>2. \A j \in DOMAIN rows : rows[j].at # clock + 1
    BY <1>1 DEF TypeInv, Times
  <2> QED BY <1>1, <1>3, <1>9, <2>1, <2>2 DEF Times
<1> QED BY <1>6, <1>7, <1>8, <1>9, LoopAdvance

(* The page shows nothing but views.                                       *)
LEMMA PageTyped ==
    ASSUME TypeInv, Next
    PROVE  page' \in [kind : {"none", "router", "dashboard"},
                      running : BOOLEAN, says : BOOLEAN, error : BOOLEAN,
                      view : Views, late : BOOLEAN]
<1> DEFINE P == [kind : {"none", "router", "dashboard"}, running : BOOLEAN,
                 says : BOOLEAN, error : BOOLEAN, view : Views,
                 late : BOOLEAN]
<1>0. page \in P /\ \A i \in Slots : flights[i].view \in Views
  BY DEF TypeInv, TypeOK
<1>1. CASE UNCHANGED page
  BY <1>0, <1>1
<1>2. CASE \E kind \in {"router", "dashboard"} : Open(kind)
  <2>1. NoView \in Views
    BY BoundsAssumption DEF NoView, Views, Errors, Sums
  <2> QED BY <1>2, <2>1 DEF Open, NoPage
<1>3. CASE SetRefresh \/ SetHistorical
  BY <1>0, <1>3 DEF SetRefresh, SetHistorical
<1>4. CASE \E i \in Slots : ReceiveLoad(i)
  BY <1>0, <1>4 DEF ReceiveLoad
<1>5. CASE \E i \in Slots : ReceiveProbe(i)
  <2>1. \A p \in P : Stopped(p) \in P
    BY DEF Stopped
  <2> PICK i \in Slots : ReceiveProbe(i)
    BY <1>5
  <2>2. [page EXCEPT !.view = flights[i].view] \in P
    BY <1>0
  <2>3. [page EXCEPT !.error = page.kind = "router" \/ page.error] \in P
    BY <1>0
  <2>4. \/ page' = page
        \/ page' = Stopped([page EXCEPT !.error =
                                page.kind = "router" \/ page.error])
        \/ page' = [page EXCEPT !.view = flights[i].view]
        \/ page' = Stopped([page EXCEPT !.view = flights[i].view])
    BY DEF ReceiveProbe
  <2> HIDE DEF P
  <2>5. page' \in P
    BY <1>0, <2>1, <2>2, <2>3, <2>4
  <2> QED BY <2>5 DEF P
<1> QED
  BY <1>1, <1>2, <1>3, <1>4, <1>5
  DEF Next, LoopStep, CheckRouterTraffic, InsertRouterTraffic, InsertFails,
      Emit, ReadSettings, ServeCurrent, ServeProbe, RequestFails, Tick, Reload,
      SaveSettings, Crash, server

LEMMA WarningsTyped ==
    ASSUME TypeInv, Next
    PROVE  warned' \subseteq failed' /\ failed' \subseteq 1..clock'
<1>1. clock \in Nat /\ clock' \in Nat /\ clock <= clock'
  BY RowsAdvance DEF TypeInv, TypeOK
<1>2. warned \subseteq failed /\ failed \subseteq 1..clock
  BY DEF TypeInv, TypeOK
<1>3. CASE UNCHANGED <<warned, failed>>
  BY <1>1, <1>2, <1>3
<1>4. CASE InsertFails \/ Emit
  <2>1. loop.view.at \in 1..clock
    BY <1>4 DEF InsertFails, Emit, TypeInv, Times
  <2> QED BY <1>1, <1>2, <1>4, <2>1 DEF InsertFails, Emit
<1> QED
  BY <1>3, <1>4
  DEF Next, LoopStep, CheckRouterTraffic, InsertRouterTraffic, ReadSettings,
      ServeCurrent, ServeProbe, RequestFails, ReceiveLoad, ReceiveProbe, Open,
      SetRefresh, SetHistorical, Tick, Reload, SaveSettings, Crash, server

(* A step spends at most one of one bound.                                 *)
LEMMA BudgetTyped ==
    ASSUME TypeInv, Next
    PROVE  /\ budget' \in [visits : 0..MaxVisits, faults : 0..MaxFaults]
           /\ budget'.faults <= budget.faults
<1>0. budget \in [visits : 0..MaxVisits, faults : 0..MaxFaults]
  BY DEF TypeInv, TypeOK
<1>1. CASE UNCHANGED budget
  BY <1>0, <1>1, BoundsAssumption
<1>2. CASE \E kind \in {"visits", "faults"} : Spend(kind)
  BY <1>0, <1>2, BoundsAssumption
<1> QED
  BY <1>1, <1>2
  DEF Next, LoopStep, CheckRouterTraffic, InsertRouterTraffic, InsertFails,
      Emit, ReadSettings, ServeCurrent, ServeProbe, RequestFails, ReceiveLoad,
      ReceiveProbe, Open, SetRefresh, SetHistorical, Tick, Reload,
      SaveSettings, Crash

(* No two rows have one time.                                              *)
LEMMA TimesDiffer ==
    ASSUME TypeInv, Next
    PROVE  IsInjective([i \in DOMAIN rows |-> rows[i].at])'
<1>1. rows \in Seq(Views)
  BY DEF TypeInv, TypeOK
<1>2. \A i, j \in DOMAIN rows : rows[i].at = rows[j].at => i = j
  BY DEF TypeInv, TypeOK, IsInjective
<1>3. CASE rows' = rows
  BY <1>2, <1>3 DEF IsInjective
<1>4. CASE rows' = Append(rows, loop.view) /\ loop.pc = "insert"
  <2>1. \A j \in DOMAIN rows : rows[j].at # loop.view.at
    BY <1>4 DEF TypeInv, Times
  <2>2. \A j \in DOMAIN rows' :
           \/ j \in DOMAIN rows /\ rows'[j] = rows[j]
           \/ j = Len(rows) + 1 /\ rows'[j] = loop.view
    BY <1>1, <1>4
  <2>3. \A i, j \in DOMAIN rows' : rows'[i].at = rows'[j].at => i = j
    BY <1>2, <2>1, <2>2
  <2> QED BY <2>3 DEF IsInjective
<1> QED BY <1>3, <1>4, RowsAdvance

LEMMA TypeStep ==
    ASSUME TypeInv, [Next]_vars PROVE TypeInv'
<1>1. CASE UNCHANGED vars
  BY <1>1 DEF vars, TypeInv, TypeOK, Times
<1>2. CASE Next
  <2>1. settings' \in Settings
    BY <1>2
    DEF Next, LoopStep, CheckRouterTraffic, InsertRouterTraffic, InsertFails,
        Emit, ReadSettings, ServeCurrent, ServeProbe, RequestFails, ReceiveLoad,
        ReceiveProbe, Open, SetRefresh, SetHistorical, Tick, Reload,
        SaveSettings, Crash, server, TypeInv, TypeOK
  <2>2. clock' \in 0..MaxProbes
    BY <1>2, RowsAdvance, BoundsAssumption DEF TypeInv, TypeOK
  <2>3. /\ DOMAIN loop' = {"pc", "view", "clients", "document"}
        /\ loop'.pc \in {"idle", "insert", "emit"} /\ loop'.view \in Views
    <3>0. NoView \in Views
      BY BoundsAssumption DEF NoView, Views, Errors, Sums
    <3>1. clock < MaxProbes => \A r \in ProbeAndCollect : r.view \in Views
      BY ProbeFacts DEF TypeInv
    <3> QED
      BY <1>2, <3>0, <3>1, LoopAdvance DEF TypeInv, TypeOK, LoopIdle
  <2>4. rows' \in Seq(Views)
    <3>1. rows \in Seq(Views) /\ Append(rows, loop.view) \in Seq(Views)
      BY DEF TypeInv, TypeOK
    <3> QED BY <1>2, <3>1, RowsAdvance
  <2> QED
    BY <1>2, <2>1, <2>2, <2>3, <2>4, TimesDiffer, TimesStep, FlightsTyped,
       PageTyped, WarningsTyped, BudgetTyped
    DEF TypeInv, TypeOK
<1> QED BY <1>1, <1>2

LEMMA TypeInvCorrect == Spec => []TypeInv
<1>1. Init => TypeInv
  <2> SUFFICES ASSUME Init PROVE TypeInv
    OBVIOUS
  <2>1. NoView \in Views
    BY BoundsAssumption DEF NoView, Views, Errors, Sums
  <2>2. NoFlights \in [Slots -> [kind : {"free", "load", "probe"},
                                 mine : BOOLEAN,
                                 reply : {"none", "settings", "ok", "error"},
                                 view : Views, collect : BOOLEAN]]
    BY <2>1 DEF NoFlights, Free
  <2>3. IsInjective([i \in DOMAIN rows |-> rows[i].at]) /\ rows \in Seq(Views)
    BY DEF Init, IsInjective
  <2> QED BY <2>1, <2>2, <2>3, BoundsAssumption
          DEF Init, TypeInv, TypeOK, Times, LoopIdle, NoPage
<1> QED BY <1>1, TypeStep, PTL DEF Spec

(* Types, and no two stored samples of one probe: TypeOK of the runs.      *)
THEOREM TypeCorrect == Spec => []TypeOK
<1>1. TypeInv => TypeOK
  BY DEF TypeInv
<1> QED BY <1>1, TypeInvCorrect, PTL

-----------------------------------------------------------------------------
(* What the page is told. *)

(* A sample that found clients was logged in, and one that asked at all    *)
(* takes the router for reached.                                           *)
HonestView(v) == /\ v.success => v.authenticated
                 /\ v.reachable \/ v.error = "incomplete"
Honest ==
    /\ loop.pc # "idle" => HonestView(loop.view)
    /\ \A j \in DOMAIN rows : HonestView(rows[j])

ServedInv == TypeInv /\ Honest /\ StoredClaimsNoMore

(* A row, and what it claims, stays.                                       *)
LEMMA RowsStay ==
    ASSUME TypeInv, Next
    PROVE  \A j \in DOMAIN rows : j \in DOMAIN rows' /\ rows'[j] = rows[j]
<1>1. rows \in Seq(Views)
  BY DEF TypeInv, TypeOK
<1> QED BY <1>1, RowsAdvance

Backed(v, rs) ==
    \E j \in DOMAIN rs :
        /\ v = [rs[j] EXCEPT !.reachable = v.reachable,
                             !.authenticated = v.authenticated,
                             !.error = v.error]
        /\ v.authenticated => rs[j].authenticated
        /\ v.reachable => rs[j].reachable \/ rs[j].error = "incomplete"
        /\ v.error \in {rs[j].error, "disabled"}

(* The capability rebuilt from the newest row claims what that row does:   *)
(* a probe that succeeded was authenticated.                               *)
LEMMA CurrentBacked ==
    ASSUME TypeInv, Honest, NEW collect, CurrentRouterTraffic(collect).at # 0
    PROVE  Backed(CurrentRouterTraffic(collect), rows)
<1> DEFINE last == Last(rows)
<1> DEFINE v == CurrentRouterTraffic(collect)
<1>1. rows # <<>>
  BY DEF CurrentRouterTraffic, NoView
<1>2. Len(rows) \in DOMAIN rows /\ last = rows[Len(rows)] /\ last \in Views
  BY <1>1 DEF TypeInv, TypeOK, Last
<1>3. v = Rebuilt(last) \/ v = [Rebuilt(last) EXCEPT !.error = "disabled"]
  BY <1>1 DEF CurrentRouterTraffic
<1> HIDE DEF last, v
<1>4. /\ v = [last EXCEPT !.reachable = v.reachable,
                          !.authenticated = v.authenticated,
                          !.error = v.error]
      /\ v.authenticated = last.success
      /\ v.error \in {last.error, "disabled"}
  BY <1>2, <1>3 DEF Rebuilt, Views
<1>5. HonestView(last)
  BY <1>2 DEF Honest
<1> QED BY <1>2, <1>4, <1>5 DEF Backed, HonestView, v

LEMMA HonestStep ==
    ASSUME TypeInv, Honest, Next PROVE Honest'
<1>1. loop'.pc # "idle" => HonestView(loop'.view)
  <2>1. clock < MaxProbes => \A r \in ProbeAndCollect : HonestView(r.view)
    BY ProbeFacts DEF TypeInv, HonestView
  <2> QED BY <2>1, LoopAdvance DEF Honest, LoopIdle, TypeInv, TypeOK
<1>2. \A j \in DOMAIN rows' : HonestView(rows'[j])
  <2>1. CASE rows' = rows
    BY <2>1 DEF Honest
  <2>2. CASE rows' = Append(rows, loop.view) /\ loop.pc = "insert"
    <3>1. rows \in Seq(Views)
      BY DEF TypeInv, TypeOK
    <3>2. \A j \in DOMAIN rows' :
             (j \in DOMAIN rows /\ rows'[j] = rows[j]) \/ rows'[j] = loop.view
      BY <2>2, <3>1
    <3> QED BY <2>2, <3>2 DEF Honest
  <2> QED BY <2>1, <2>2, RowsAdvance
<1> QED BY <1>1, <1>2 DEF Honest, HonestView

LEMMA StoredStep ==
    ASSUME ServedInv, Next PROVE StoredClaimsNoMore'
<1> SUFFICES ASSUME NEW i \in Slots,
                    flights'[i].kind = "load", flights'[i].view.at # 0
             PROVE  Backed(flights'[i].view, rows')
  BY DEF StoredClaimsNoMore, Backed
<1>0. /\ flights[i] \in [kind : {"free", "load", "probe"}, mine : BOOLEAN,
                         reply : {"none", "settings", "ok", "error"},
                         view : Views, collect : BOOLEAN]
      /\ FlightStep(i) /\ TypeInv /\ Honest
  BY FlightsAdvance DEF ServedInv, TypeInv, TypeOK
<1>1. flights[i].kind = "load" /\ flights[i].view.at # 0 =>
         Backed(flights[i].view, rows')
  <2>1. flights[i].kind = "load" /\ flights[i].view.at # 0 =>
           Backed(flights[i].view, rows)
    BY DEF ServedInv, StoredClaimsNoMore, Backed
  <2> QED BY <1>0, <2>1, RowsStay DEF Backed
<1>2. CASE flights'[i] \in {flights[i], [flights[i] EXCEPT !.mine = FALSE],
                            [flights[i] EXCEPT !.reply = "error",
                                               !.collect = FALSE],
                            [flights[i] EXCEPT !.reply = "settings",
                                               !.collect = settings.collect]}
  BY <1>0, <1>1, <1>2
<1>3. CASE flights'[i] \in {Free, NewRequest("load"), NewRequest("probe")}
  <2>1. NoView.at = 0
    BY DEF NoView
  <2>2. /\ Free.view = NoView /\ NewRequest("load").view = NoView
        /\ NewRequest("probe").view = NoView
    BY DEF Free, NewRequest
  <2> QED BY <1>3, <2>1, <2>2
<1>4. CASE /\ rows' = rows
           /\ flights'[i] =
                [flights[i] EXCEPT
                   !.reply = "ok", !.collect = FALSE,
                   !.view = CurrentRouterTraffic(flights[i].collect)]
  <2>1. flights'[i].view = CurrentRouterTraffic(flights[i].collect)
    BY <1>0, <1>4
  <2> QED BY <1>0, <1>4, <2>1, CurrentBacked
<1>5. CASE flights[i].kind = "probe" /\ flights'[i].kind = flights[i].kind
  BY <1>5
<1> QED BY <1>0, <1>2, <1>3, <1>4, <1>5 DEF FlightStep

(* The page is told nothing of a stored sample that its probe did not      *)
(* know, but that it reached a router, whatever was stored or saved        *)
(* between the two.                                                        *)
THEOREM StoredClaimsNoMoreCorrect == Spec => []StoredClaimsNoMore
<1>1. Init => Honest /\ StoredClaimsNoMore
  <2> SUFFICES ASSUME Init PROVE Honest /\ StoredClaimsNoMore
    OBVIOUS
  <2>1. \A i \in Slots : flights[i].kind = "free"
    BY DEF Init, NoFlights, Free
  <2> QED BY <2>1 DEF Init, Honest, HonestView, StoredClaimsNoMore, LoopIdle
<1>2. TypeInv /\ Honest /\ StoredClaimsNoMore /\ [Next]_vars =>
         (Honest /\ StoredClaimsNoMore)'
  <2>1. CASE UNCHANGED vars
    BY <2>1 DEF vars, Honest, HonestView, StoredClaimsNoMore
  <2>2. CASE Next
    BY <2>2, HonestStep, StoredStep DEF ServedInv
  <2> QED BY <2>1, <2>2
<1> QED BY <1>1, <1>2, TypeInvCorrect, PTL DEF Spec

-----------------------------------------------------------------------------
(* What the page shows after it stopped. *)

(* An answer to a probe says why it is bad.                                *)
ProbesExplain ==
    \A i \in Slots : flights[i].kind = "probe" /\ flights[i].reply = "ok" =>
        flights[i].view.success \/ flights[i].view.error # ""

LEMMA ProbesExplainStep ==
    ASSUME TypeInv, ProbesExplain, Next PROVE ProbesExplain'
<1> SUFFICES ASSUME NEW i \in Slots,
                    flights'[i].kind = "probe", flights'[i].reply = "ok"
             PROVE  flights'[i].view.success \/ flights'[i].view.error # ""
  BY DEF ProbesExplain
<1>0. /\ flights[i] \in [kind : {"free", "load", "probe"}, mine : BOOLEAN,
                         reply : {"none", "settings", "ok", "error"},
                         view : Views, collect : BOOLEAN]
      /\ FlightStep(i)
  BY FlightsAdvance DEF TypeInv, TypeOK
<1>1. CASE flights'[i] \in {flights[i], [flights[i] EXCEPT !.mine = FALSE]}
  BY <1>0, <1>1 DEF ProbesExplain
<1>2. CASE flights'[i] \in {Free, NewRequest("load"), NewRequest("probe"),
                            [flights[i] EXCEPT !.reply = "error",
                                               !.collect = FALSE]}
  <2>1. /\ Free.reply = "none" /\ NewRequest("load").reply = "none"
        /\ NewRequest("probe").reply = "none"
    BY DEF Free, NewRequest
  <2> QED BY <1>0, <1>2, <2>1
<1>3. CASE flights[i].kind = "load" /\ flights'[i].kind = flights[i].kind
  BY <1>3
<1>4. CASE clock < MaxProbes /\ \E r \in ProbeAndCollect :
             flights'[i] = [flights[i] EXCEPT
                              !.reply = IF Marshals(r.clients) THEN "ok"
                                                               ELSE "error",
                              !.view = IF Marshals(r.clients) THEN r.view
                                                              ELSE NoView]
  <2> PICK r \in ProbeAndCollect :
             flights'[i] = [flights[i] EXCEPT
                              !.reply = IF Marshals(r.clients) THEN "ok"
                                                               ELSE "error",
                              !.view = IF Marshals(r.clients) THEN r.view
                                                              ELSE NoView]
    BY <1>4
  <2>1. flights'[i].view = r.view
    BY <1>0
  <2> QED BY <1>4, <2>1, ProbeFacts DEF TypeInv
<1> QED BY <1>0, <1>1, <1>2, <1>3, <1>4 DEF FlightStep

LEMMA StopStep ==
    ASSUME TypeInv, ProbesExplain, StopIsExplained, Next
    PROVE  StopIsExplained'
<1>0. page \in [kind : {"none", "router", "dashboard"}, running : BOOLEAN,
                says : BOOLEAN, error : BOOLEAN, view : Views, late : BOOLEAN]
  BY DEF TypeInv, TypeOK
<1>1. CASE UNCHANGED page
  BY <1>1 DEF StopIsExplained
<1>2. CASE \E kind \in {"router", "dashboard"} : Open(kind)
  BY <1>2 DEF Open, NoPage, StopIsExplained
<1>3. CASE SetRefresh
  BY <1>0, <1>3 DEF SetRefresh, StopIsExplained
<1>4. CASE SetHistorical
  BY <1>0, <1>4 DEF SetHistorical, StopIsExplained
<1>5. CASE \E i \in Slots : ReceiveLoad(i)
  BY <1>0, <1>5 DEF ReceiveLoad, StopIsExplained
<1>6. CASE \E i \in Slots : ReceiveProbe(i)
  <2> PICK i \in Slots : ReceiveProbe(i)
    BY <1>6
  <2>1. CASE Ignored(i)
    BY <2>1 DEF ReceiveProbe, StopIsExplained
  <2>2. CASE ~Ignored(i) /\ flights[i].reply = "error"
    BY <1>0, <2>2 DEF ReceiveProbe, Stopped, StopIsExplained
  <2>3. CASE ~Ignored(i) /\ flights[i].reply = "ok"
    <3>1. page.running /\ flights[i].kind = "probe"
      BY <2>3 DEF Ignored, ReceiveProbe, Landed
    <3>2. Bad(flights[i].view) => flights[i].view.error # ""
      BY <2>3, <3>1 DEF Bad, ProbesExplain
    <3> QED BY <1>0, <2>3, <3>1, <3>2
            DEF ReceiveProbe, Stopped, StopIsExplained
  <2>4. flights[i].reply \in {"ok", "error"}
    BY DEF ReceiveProbe, Landed, Answered
  <2> QED BY <2>1, <2>2, <2>3, <2>4
<1> QED
  BY <1>1, <1>2, <1>3, <1>4, <1>5, <1>6
  DEF Next, LoopStep, CheckRouterTraffic, InsertRouterTraffic, InsertFails,
      Emit, ReadSettings, ServeCurrent, ServeProbe, RequestFails, Tick, Reload,
      SaveSettings, Crash, server

(* A router page that has stopped probing shows the error it stopped for,  *)
(* in whatever order the answers to its requests arrived.                  *)
THEOREM StopIsExplainedCorrect == Spec => []StopIsExplained
<1>1. Init => ProbesExplain /\ StopIsExplained
  <2> SUFFICES ASSUME Init PROVE ProbesExplain /\ StopIsExplained
    OBVIOUS
  <2>1. \A i \in Slots : flights[i].kind = "free"
    BY DEF Init, NoFlights, Free
  <2>2. page.kind = "none"
    BY DEF Init, NoPage
  <2> QED BY <2>1, <2>2 DEF ProbesExplain, StopIsExplained
<1>2. TypeInv /\ ProbesExplain /\ StopIsExplained /\ [Next]_vars =>
         (ProbesExplain /\ StopIsExplained)'
  <2>1. CASE UNCHANGED vars
    BY <2>1 DEF vars, ProbesExplain, StopIsExplained
  <2>2. CASE Next
    BY <2>2, ProbesExplainStep, StopStep
  <2> QED BY <2>1, <2>2
<1> QED BY <1>1, <1>2, TypeInvCorrect, PTL DEF Spec

-----------------------------------------------------------------------------
(* What remains of a failed check. *)

StoredAt(t) == \E j \in DOMAIN rows : rows[j].at = t
Spent == MaxFaults - budget.faults

(* A failed sample can be stored; once its warning is due it is stored, or *)
(* a fault was spent on that.                                              *)
TraceInv ==
    /\ loop.pc = "insert" => loop.view.success \/ Marshals(loop.clients)
    /\ loop.pc = "emit" => StoredAt(loop.view.at) \/ Spent >= 1
    /\ OutboxEnabled /\ Spent <= 1 =>
          \A t \in failed : t \in warned \/ StoredAt(t)

LEMMA TraceStep ==
    ASSUME TypeInv, TraceInv, Next PROVE TraceInv'
<1>0. /\ budget \in [visits : 0..MaxVisits, faults : 0..MaxFaults]
      /\ budget' \in [visits : 0..MaxVisits, faults : 0..MaxFaults]
      /\ MaxFaults \in Nat /\ Spent \in Nat /\ Spent' \in Nat
      /\ Spent <= Spent'
  BY BudgetTyped, BoundsAssumption DEF TypeInv, TypeOK, Spent
<1>1. \A t : StoredAt(t) => StoredAt(t)'
  BY RowsStay DEF StoredAt
<1>2. CASE UNCHANGED <<loop, failed, warned>>
  BY <1>0, <1>1, <1>2 DEF TraceInv
<1>3. CASE CheckRouterTraffic
  <2>1. PICK r \in ProbeAndCollect :
           loop' = [pc |-> "insert", view |-> r.view,
                    clients |-> r.clients, document |-> r.document]
    BY <1>3 DEF CheckRouterTraffic
  <2>2. r.view.success \/ Marshals(r.clients)
    BY <1>3, ProbeFacts DEF CheckRouterTraffic, ProbeTakesTime, TypeInv
  <2>3. /\ loop'.pc = "insert" /\ loop'.view = r.view
        /\ loop'.clients = r.clients
        /\ failed' = failed /\ warned' = warned
    BY <1>3, <2>1 DEF CheckRouterTraffic
  <2>4. Marshals(loop'.clients) = Marshals(loop.clients)'
    BY DEF Marshals
  <2> QED BY <1>0, <1>1, <2>2, <2>3, <2>4 DEF TraceInv
<1>4. CASE InsertRouterTraffic
  <2>1. /\ loop.pc = "insert" /\ failed' = failed /\ warned' = warned
        /\ loop' = IF loop.view.success THEN LoopIdle
                   ELSE [loop EXCEPT !.pc = "emit"]
    BY <1>4 DEF InsertRouterTraffic, AfterInsert
  <2>2. loop'.pc = "emit" =>
          \E j \in DOMAIN rows' : rows'[j].at = loop'.view.at
    <3> SUFFICES ASSUME loop'.pc = "emit"
                 PROVE \E j \in DOMAIN rows' : rows'[j].at = loop'.view.at
      OBVIOUS
    <3>1. ~loop.view.success /\ loop'.view = loop.view
      BY <2>1 DEF LoopIdle, TypeInv, TypeOK
    <3>2. rows' = Append(rows, loop.view) /\ rows \in Seq(Views)
      BY <1>4, <2>1, <3>1 DEF InsertRouterTraffic, TraceInv, TypeInv, TypeOK
    <3>3. Len(rows) + 1 \in DOMAIN rows' /\ rows'[Len(rows) + 1] = loop.view
      BY <3>2
    <3> QED BY <3>1, <3>3
  <2>3. loop'.pc # "insert"
    BY <2>1 DEF LoopIdle, TypeInv, TypeOK
  <2>4. OutboxEnabled /\ Spent' <= 1 =>
           \A t \in failed : t \in warned \/ StoredAt(t)'
    BY <1>0, <1>1 DEF TraceInv
  <2>5. (loop.pc = "emit" => StoredAt(loop.view.at))'
    BY <2>2 DEF StoredAt
  <2> QED BY <2>1, <2>3, <2>4, <2>5 DEF TraceInv
<1>5. CASE InsertFails
  <2>1. Spent' >= 1
    BY <1>0, <1>5 DEF InsertFails, Spent
  <2>2. loop'.pc # "insert" /\ (loop'.pc = "idle" => loop.view.success)
    BY <1>5 DEF InsertFails, AfterInsertFails, AfterInsert, LoopIdle, TypeInv,
                TypeOK
  <2>3. failed' = failed /\ warned' = warned
    BY <1>5, <2>2 DEF InsertFails
  <2> QED BY <1>0, <1>1, <2>1, <2>2, <2>3 DEF TraceInv
<1>6. CASE Emit
  <2>1. /\ loop.pc = "emit" /\ loop' = LoopIdle
        /\ failed' = failed \cup {loop.view.at}
        /\ \/ OutboxEnabled /\ warned' = warned \cup {loop.view.at}
           \/ ~OutboxEnabled /\ warned' = warned
           \/ warned' = warned /\ Spent' = Spent + 1
    BY <1>0, <1>6, OutboxAssumption DEF Emit, Spent
  <2>2. loop'.pc = "idle"
    BY <2>1 DEF LoopIdle
  <2> QED BY <1>0, <1>1, <2>1, <2>2 DEF TraceInv
<1>7. CASE Crash
  <2>1. loop'.pc = "idle" /\ failed' = failed /\ warned' = warned
    BY <1>7 DEF Crash, LoopIdle
  <2> QED BY <1>0, <1>1, <2>1 DEF TraceInv
<1> QED
  BY <1>2, <1>3, <1>4, <1>5, <1>6, <1>7
  DEF Next, LoopStep, ReadSettings, ServeCurrent, ServeProbe, RequestFails,
      ReceiveLoad, ReceiveProbe, Open, SetRefresh, SetHistorical, Tick, Reload,
      SaveSettings, server

(* It takes two faults to leave no trace of a failed check: not even a     *)
(* router whose answer cannot be stored hides one.                         *)
THEOREM FailedRoundLeavesTraceCorrect == Spec => []FailedRoundLeavesTrace
<1>1. Init => TraceInv
  BY DEF Init, TraceInv, LoopIdle
<1>2. TypeInv /\ TraceInv /\ [Next]_vars => TraceInv'
  <2>1. CASE UNCHANGED vars
    BY <2>1 DEF vars, TraceInv, StoredAt, Spent, Marshals
  <2>2. CASE Next
    BY <2>2, TraceStep
  <2> QED BY <2>1, <2>2
<1>3. TraceInv => FailedRoundLeavesTrace
  BY DEF TraceInv, StoredAt, Spent, FailedRoundLeavesTrace
<1> QED BY <1>1, <1>2, <1>3, TypeInvCorrect, PTL DEF Spec

-----------------------------------------------------------------------------
(* The sample at the insert comes from a walk of its document. *)

ClaimsOf(view, clients) ==
    /\ view.download = AnyClientHas(clients, {"downloadBps"})
    /\ view.upload = AnyClientHas(clients, {"uploadBps"})
    /\ view.total = AnyClientHas(clients, {"totalBps", "totalBytes"})
    /\ view.downloadBps = SumClients(clients, "downloadBps")
    /\ view.uploadBps = SumClients(clients, "uploadBps")
    /\ view.totalBps = TotalOf(view.downloadBps, view.uploadBps,
                               SumClients(clients, "totalBps"))
Extracted ==
    Collected =>
        \E d \in Documents : \E walk \in Walks(d) :
            /\ loop.document = d /\ loop.clients = ExtractClients(walk)
            /\ ClaimsOf(loop.view, loop.clients)

LEMMA ExtractedStep ==
    ASSUME TypeInv, Extracted, Next PROVE Extracted'
<1>1. CASE loop' = loop
  BY <1>1 DEF Extracted, Collected, ClaimsOf, AnyClientHas
<1>2. CASE loop' = LoopIdle
  BY <1>2 DEF Extracted, Collected, LoopIdle
<1>3. CASE loop.pc = "insert" /\ loop' = [loop EXCEPT !.pc = "emit"]
  <2>1. loop'.pc = "emit"
    BY <1>3 DEF TypeInv, TypeOK
  <2> QED BY <2>1 DEF Extracted, Collected
<1>4. CASE \E r \in ProbeAndCollect :
              loop' = [pc |-> "insert", view |-> r.view,
                       clients |-> r.clients, document |-> r.document]
  <2> PICK r \in ProbeAndCollect :
         loop' = [pc |-> "insert", view |-> r.view,
                  clients |-> r.clients, document |-> r.document]
    BY <1>4
  <2>1. CASE r.document = NoDocument
    BY <2>1 DEF Extracted, Collected
  <2>2. CASE \E d \in Documents : \E walk \in Walks(d) : Walked(r, d, walk)
    <3> PICK d \in Documents : \E walk \in Walks(d) : Walked(r, d, walk)
      BY <2>2
    <3> PICK walk \in Walks(d) : Walked(r, d, walk)
      OBVIOUS
    <3>1. /\ loop'.document = d /\ loop'.clients = ExtractClients(walk)
          /\ loop'.view = Snapshot(ExtractClients(walk))
      BY DEF Walked
    <3>2. \A c : ClaimsOf(Snapshot(c), c)
      BY KeyFacts DEF ClaimsOf, Snapshot
    <3>3. ClaimsOf(loop'.view, loop'.clients)
      BY <3>1, <3>2
    <3> QED BY <3>1, <3>3 DEF Extracted
  <2>3. \/ r.document = NoDocument
        \/ \E d \in Documents : \E walk \in Walks(d) : Walked(r, d, walk)
    BY ProbeCases DEF Refuses
  <2> QED BY <2>1, <2>2, <2>3
<1> QED BY <1>1, <1>2, <1>3, <1>4, LoopAdvance

(* A sample says that downloads, uploads or totals are available exactly   *)
(* if the answer of the router has them for something with a name, and its *)
(* total is there exactly if that has total rates or both others, whose    *)
(* sum it then is, in whatever order Go ranges over the answer's keys.     *)
THEOREM NothingInventedCorrect == Spec => []NothingInvented
<1>1. Init => Extracted
  BY DEF Init, Extracted, Collected, LoopIdle
<1>2. TypeInv /\ Extracted /\ [Next]_vars => Extracted'
  <2>1. CASE UNCHANGED vars
    BY <2>1 DEF vars, Extracted, Collected, ClaimsOf, AnyClientHas
  <2>2. CASE Next
    BY <2>2, ExtractedStep
  <2> QED BY <2>1, <2>2
<1>3. Extracted => NothingInvented
  <2> SUFFICES ASSUME Extracted, Collected PROVE NothingInvented
    BY DEF NothingInvented
  <2>1. PICK d \in Documents : \E walk \in Walks(d) :
           /\ loop.document = d /\ loop.clients = ExtractClients(walk)
           /\ ClaimsOf(loop.view, loop.clients)
    BY DEF Extracted
  <2>2. PICK walk \in Walks(d) :
           /\ loop.document = d /\ loop.clients = ExtractClients(walk)
           /\ ClaimsOf(loop.view, loop.clients)
    BY <2>1
  <2>3. /\ \A c, f : AnyClientHas(c, {f}) <=> Has(c, f)
        /\ \A c, f, g : AnyClientHas(c, {f, g}) <=> Has(c, f) \/ Has(c, g)
    BY DEF AnyClientHas, Has
  <2>4. \A f \in Rates : Has(loop.clients, f) <=> Tells(loop.document, f)
    BY <2>2, ClaimsFacts
  <2>5. Sound(loop.clients)
    BY <2>2, ClientsSound
  <2>6. \A f \in Rates : /\ SumClients(loop.clients, f) \in Sums
                         /\ SumClients(loop.clients, f) # Absent
                              <=> Tells(loop.document, f)
                         /\ Marshals(loop.clients) =>
                               SumClients(loop.clients, f) # NotANumber
    BY <2>4, <2>5, SumFacts
  <2>7. /\ loop.view.download <=> Tells(loop.document, "downloadBps")
        /\ loop.view.upload <=> Tells(loop.document, "uploadBps")
        /\ loop.view.total <=> \/ Tells(loop.document, "totalBps")
                               \/ Tells(loop.document, "totalBytes")
    BY <2>2, <2>3, <2>4, KeyFacts DEF ClaimsOf
  <2>8. PICK total : total = SumClients(loop.clients, "totalBps")
    OBVIOUS
  <2>9. /\ loop.view.downloadBps \in Sums /\ loop.view.uploadBps \in Sums
        /\ total \in Sums
        /\ loop.view.downloadBps # Absent <=>
              Tells(loop.document, "downloadBps")
        /\ loop.view.uploadBps # Absent <=> Tells(loop.document, "uploadBps")
        /\ total # Absent <=> Tells(loop.document, "totalBps")
        /\ Marshals(loop.clients) => /\ loop.view.downloadBps # NotANumber
                                     /\ loop.view.uploadBps # NotANumber
        /\ loop.view.totalBps = TotalOf(loop.view.downloadBps,
                                        loop.view.uploadBps, total)
    BY <2>2, <2>6, <2>8, KeyFacts DEF ClaimsOf
  <2> QED BY <2>7, <2>9, TotalFacts DEF NothingInvented
<1> QED BY <1>1, <1>2, <1>3, TypeInvCorrect, PTL DEF Spec

-----------------------------------------------------------------------------
(* Every device once.  As long as every client object has its hardware     *)
(* address, the clients are kept under the addresses met so far, and what  *)
(* one of them counts is a number of an object with its address.           *)

MacsOf(O) == {Mac(m) : m \in {o \in O : IsClient(o)}}
Counts(b, key, f, O) ==
    \E m \in O : Mac(m) = key /\ b[key].rate[f] = FirstNumber(m, RateKeys[f])
Tracks(b, O) ==
    /\ DOMAIN b = MacsOf(O)
    /\ \A key \in DOMAIN b : \A f \in Rates :
          b[key].rate[f] # Absent => Counts(b, key, f, O)
Addressed(O) == \A m \in O : IsClient(m) => Mac(m) # ""

LEMMA MacsGrow ==
    ASSUME NEW O, NEW m
    PROVE  MacsOf(O \cup {m}) = IF IsClient(m) THEN MacsOf(O) \cup {Mac(m)}
                                ELSE MacsOf(O)
BY DEF MacsOf

LEMMA CountsGrow ==
    ASSUME NEW a, NEW b, NEW key, NEW f, NEW O, NEW m, Counts(b, key, f, O),
           a[key].rate[f] = b[key].rate[f]
    PROVE  Counts(a, key, f, O \cup {m})
BY DEF Counts

LEMMA TracksStep ==
    ASSUME NEW b, NEW O, Tracks(b, O), NEW m, Addressed({m})
    PROVE  Tracks(AddObject(b, m), O \cup {m})
<1>1. CASE ~IsClient(m)
  <2>1. AddObject(b, m) = b
    BY <1>1, AddFacts
  <2>2. MacsOf(O \cup {m}) = MacsOf(O)
    BY <1>1, MacsGrow
  <2> QED BY <2>1, <2>2, CountsGrow DEF Tracks
<1>2. CASE IsClient(m)
  <2> DEFINE c == ObjectToClient(m)
             key == ClientKey(c)
             a == AddObject(b, m)
  <2>1. /\ a = [x \in DOMAIN b \cup {key} |-> a[x]]
        /\ \A x \in DOMAIN b \ {key} : a[x] = b[x]
        /\ a[key] = IF key \in DOMAIN b THEN MergeClient(b[key], c) ELSE c
    BY <1>2, AddFacts DEF Added
  <2>2. \A f \in Rates : c.rate[f] = FirstNumber(m, RateKeys[f])
    BY ClientFacts
  <2>3. key = Mac(m)
    <3>1. c.text["mac"] = Mac(m)
      BY ClientFacts, KeyFacts DEF Mac
    <3>2. Mac(m) # ""
      BY <1>2 DEF Addressed
    <3> HIDE DEF c
    <3> QED BY <3>1, <3>2 DEF ClientKey
  <2> HIDE DEF a, c, key
  <2>4. DOMAIN a = DOMAIN b \cup {key}
    BY <2>1
  <2>5. DOMAIN a = MacsOf(O \cup {m})
    BY <1>2, <2>3, <2>4, MacsGrow DEF Tracks
  <2>6. ASSUME NEW x \in DOMAIN a, NEW f \in Rates, a[x].rate[f] # Absent
        PROVE  Counts(a, x, f, O \cup {m})
    <3>1. CASE x # key
      <4>1. x \in DOMAIN b /\ a[x].rate[f] = b[x].rate[f]
        BY <2>1, <2>4, <3>1
      <4>2. Counts(b, x, f, O)
        BY <2>6, <4>1 DEF Tracks
      <4> QED BY <4>1, <4>2, CountsGrow
    <3>2. CASE x = key /\ a[x].rate[f] = c.rate[f]
      BY <2>2, <2>3, <3>2 DEF Counts
    <3>3. CASE x = key /\ a[x].rate[f] # c.rate[f]
      <4>1. key \in DOMAIN b /\ a[x] = MergeClient(b[key], c)
        BY <2>1, <3>3
      <4>2. MergeClient(b[key], c).rate[f] =
               IF b[key].rate[f] = Absent THEN c.rate[f] ELSE b[key].rate[f]
        BY MergeFacts
      <4>3. a[x].rate[f] = b[x].rate[f]
        BY <3>3, <4>1, <4>2
      <4>4. Counts(b, x, f, O)
        BY <2>6, <3>3, <4>1, <4>3 DEF Tracks
      <4> QED BY <4>3, <4>4, CountsGrow
    <3> QED BY <3>1, <3>2, <3>3
  <2>7. Tracks(a, O \cup {m})
    BY <2>5, <2>6 DEF Tracks
  <2> QED BY <2>7 DEF a
<1> QED BY <1>1, <1>2

LEMMA DevicesFound ==
    ASSUME NEW E, NEW walk \in Seq(E), Addressed(E)
    PROVE  Tracks(ExtractClients(walk), ToSet(walk))
<1> DEFINE n == Len(walk)
<1>0. /\ n \in Nat /\ DOMAIN walk = 1..n
      /\ \A k \in 1..n : walk[k] \in E
  OBVIOUS
<1>1. PICK run : Extracts(run, walk, n) /\ ExtractClients(walk) = run[n]
  BY <1>0, ExtractRun
<1> HIDE DEF n
<1> DEFINE Met(k) == {walk[i] : i \in 1..k}
           U == {k \in 0..n : Tracks(run[k], Met(k))}
<1>2. 0 \in U
  <2>1. Met(0) = {} /\ 0 \in 0..n
    BY <1>0
  <2>2. run[0] = <<>>
    BY <1>1 DEF Extracts
  <2>3. Tracks(<<>>, {})
    <3>1. MacsOf({}) = {} /\ DOMAIN <<>> = {}
      BY DEF MacsOf
    <3> QED BY <3>1 DEF Tracks
  <2> QED BY <2>1, <2>2, <2>3
<1>3. ASSUME NEW k \in 1..n, k - 1 \in U PROVE k \in U
  <2>1. Met(k) = Met(k - 1) \cup {walk[k]}
    <3>1. 1..k = 1..k-1 \cup {k}
      BY <1>0
    <3> QED BY <3>1
  <2>2. k \in 0..n
    BY <1>0
  <2>3. run[k] = AddObject(run[k - 1], walk[k])
    BY <1>1 DEF Extracts
  <2>4. Tracks(run[k - 1], Met(k - 1))
    BY <1>3
  <2>5. Addressed({walk[k]})
    BY <1>0 DEF Addressed
  <2> HIDE DEF Met
  <2>6. Tracks(AddObject(run[k - 1], walk[k]), Met(k - 1) \cup {walk[k]})
    BY <2>4, <2>5, TracksStep
  <2> QED BY <2>1, <2>2, <2>3, <2>6
<1>4. n \in U
  <2> HIDE DEF U
  <2>1. 0..n \subseteq U
    BY <1>0, <1>2, <1>3, RangeInduction
  <2>2. n \in 0..n
    BY <1>0
  <2> QED BY <2>1, <2>2
<1>5. Met(n) = ToSet(walk)
  BY <1>0 DEF ToSet
<1> HIDE DEF Met
<1> QED BY <1>1, <1>4, <1>5

(* What is summed are the numbers of finitely many objects.                *)
LEMMA ObjectsFinite ==
    ASSUME NEW d \in Documents, NEW walk \in Walks(d)
    PROVE  IsFiniteSet(Objects(d))
<1>1. walk \in Seq(Objects(d)) /\ ToSet(walk) = Objects(d)
  BY WalkFacts
<1> DEFINE n == Len(walk)
<1>2. n \in Nat /\ DOMAIN walk = 1..n /\ IsFiniteSet(1..n)
  BY <1>1, FS_Interval
<1>3. walk \in Surjection(1..n, Objects(d))
  BY <1>1, <1>2 DEF Surjection, ToSet
<1> HIDE DEF n
<1> QED BY <1>2, <1>3, FS_Surjection

(* What the document has for an address.                                   *)
Largest(d, mac, f) == Max(RatesOf(d, mac, f) \cup {0})
LargestSum(d, f, S) ==
    MapThenSumSet(LAMBDA mac : Max(RatesOf(d, mac, f) \cup {0}), S)

LEMMA LargestFacts ==
    ASSUME NEW d \in Documents, NEW walk \in Walks(d), NEW mac, NEW f \in Rates
    PROVE  /\ Largest(d, mac, f) \in Nat
           /\ \A v \in RatesOf(d, mac, f) : v <= Largest(d, mac, f)
<1> DEFINE O == {o \in Objects(d) : Mac(o) = mac}
           R == RatesOf(d, mac, f)
           g == [m \in O |-> FirstNumber(m, RateKeys[f])]
<1>1. IsFiniteSet(O)
  <2>1. O \subseteq Objects(d)
    OBVIOUS
  <2> HIDE DEF O
  <2> QED BY <2>1, ObjectsFinite, FS_Subset
<1>2. IsFiniteSet(R)
  <2>1. g \in Surjection(O, R)
    BY DEF Surjection, RatesOf
  <2> HIDE DEF g, O, R
  <2> QED BY <1>1, <2>1, FS_Surjection
<1>3. R \cup {0} \in SUBSET Int
  BY RateTyped DEF RatesOf, Absent, NotANumber
<1>4. IsFiniteSet(R \cup {0})
  <2> HIDE DEF R
  <2> QED BY <1>2, FS_AddElement
<1> HIDE DEF R
<1>5. /\ Max(R \cup {0}) \in R \cup {0}
      /\ \A v \in R \cup {0} : Max(R \cup {0}) >= v
  BY <1>3, <1>4, MaxOf
<1>6. Largest(d, mac, f) = Max(R \cup {0})
  BY DEF Largest, R
<1> HIDE <1>1, <1>2
<1> QED BY <1>3, <1>5, <1>6 DEF R

LEMMA SumOfLargest ==
    ASSUME NEW d, NEW f, NEW S, IsFiniteSet(S),
           \A mac \in S : Largest(d, mac, f) \in Nat
    PROVE  \E iter :
              /\ SumsUp(iter, S, [mac \in S |-> Largest(d, mac, f)])
              /\ LargestSum(d, f, S) = iter[S]
<1> DEFINE v == [mac \in S |-> Largest(d, mac, f)]
           sum == CHOOSE g : g = [s \in SUBSET S |->
                    IF s = {} THEN 0
                    ELSE Max(RatesOf(d, CHOOSE x \in s : TRUE, f) \cup {0})
                            + g[s \ {CHOOSE x \in s : TRUE}]]
<1>1. PICK iter \in [SUBSET S -> Int] : SumsUp(iter, S, v)
  <2>1. \A x \in S : v[x] \in Int
    OBVIOUS
  <2> HIDE DEF v
  <2> QED BY <2>1, SumExists
<1>2. LargestSum(d, f, S) = sum[S]
  BY DEF LargestSum, MapThenSumSet, MapThenFoldSet
<1>3. \A g : g = [s \in SUBSET S |->
                    IF s = {} THEN 0
                    ELSE Max(RatesOf(d, CHOOSE x \in s : TRUE, f) \cup {0})
                            + g[s \ {CHOOSE x \in s : TRUE}]]
               <=> SumsUp(g, S, v)
  BY DEF SumsUp, OneOf, Largest
<1>4. SumsUp(sum, S, v)
  <2> DEFINE Sum(g) == g = [s \in SUBSET S |->
                IF s = {} THEN 0
                ELSE Max(RatesOf(d, CHOOSE x \in s : TRUE, f) \cup {0})
                        + g[s \ {CHOOSE x \in s : TRUE}]]
  <2>1. \A g : Sum(g) <=> SumsUp(g, S, v)
    BY <1>3
  <2>2. sum = CHOOSE g : Sum(g)
    OBVIOUS
  <2> HIDE DEF Sum, sum, v
  <2>3. Sum(iter)
    BY <1>1, <2>1
  <2>4. Sum(CHOOSE g : Sum(g))
    BY ONLY <2>3
  <2> QED BY <2>1, <2>2, <2>4
<1> HIDE DEF sum
<1> QED BY <1>2, <1>4

LEMMA MacsFinite ==
    ASSUME NEW d \in Documents, NEW walk \in Walks(d)
    PROVE  IsFiniteSet(MacsOf(Objects(d)))
<1> DEFINE O == {o \in Objects(d) : IsClient(o)}
           g == [m \in O |-> Mac(m)]
<1>1. IsFiniteSet(O)
  <2>1. O \subseteq Objects(d)
    OBVIOUS
  <2> HIDE DEF O
  <2> QED BY <2>1, ObjectsFinite, FS_Subset
<1>2. g \in Surjection(O, MacsOf(Objects(d)))
  BY DEF Surjection, MacsOf
<1> HIDE DEF g, O
<1> QED BY <1>1, <1>2, FS_Surjection

LEMMA ClientSum ==
    ASSUME NEW d \in Documents, NEW walk \in Walks(d), NEW c,
           Tracks(c, Objects(d)), Marshals(c), NEW f \in Rates
    PROVE  SumClients(c, f) <= LargestSum(d, f, MacsOf(Objects(d)))
<1> DEFINE S == MacsOf(Objects(d))
           R == Counted(c, f)
           v == [k \in R |-> c[k].rate[f]]
           w == [mac \in S |-> Largest(d, mac, f)]
<1>1. IsFiniteSet(S)
  BY MacsFinite
<1>2. DOMAIN c = S
  BY DEF Tracks
<1>3. R \in SUBSET S /\ IsFiniteSet(R)
  <2>1. R \subseteq S
    BY <1>2 DEF Counted
  <2> HIDE DEF R
  <2> QED BY <1>1, <2>1, FS_Subset
<1>4. \A mac \in S : Largest(d, mac, f) \in Nat
  BY LargestFacts
<1>5. ASSUME NEW k \in R
      PROVE  /\ c[k].rate[f] \in Int
             /\ c[k].rate[f] <= Largest(d, k, f)
  <2>1. k \in DOMAIN c /\ c[k].rate[f] # Absent
    BY DEF Counted
  <2>2. Counts(c, k, f, Objects(d))
    BY <2>1 DEF Tracks
  <2>3. PICK m \in Objects(d) :
           Mac(m) = k /\ c[k].rate[f] = FirstNumber(m, RateKeys[f])
    BY <2>2 DEF Counts
  <2>4. c[k].rate[f] \in Int
    <3>1. c[k].rate[f] \in Nat \cup {Absent, NotANumber}
      BY <2>3, RateTyped
    <3>2. Nat \cup {Absent, NotANumber} \subseteq Int
      BY DEF Absent, NotANumber
    <3> QED BY <3>1, <3>2
  <2>5. c[k].rate[f] \in RatesOf(d, k, f)
    BY <2>3 DEF RatesOf
  <2> QED BY <2>4, <2>5, LargestFacts
<1>6. PICK large : SumsUp(large, S, w) /\ LargestSum(d, f, S) = large[S]
  BY <1>1, <1>4, SumOfLargest
<1>7. CASE R = {}
  <2>1. SumClients(c, f) = Absent
    BY <1>7 DEF SumClients, Counted
  <2>2. large[S] \in Nat
    <3>1. \A x \in S : w[x] \in Nat /\ w[x] \in Int /\ w[x] <= w[x]
      BY <1>4
    <3>2. S \in SUBSET S /\ SumsUp(large, S, w)
      BY <1>6
    <3> HIDE DEF w
    <3> QED BY <1>1, <3>1, <3>2, SumLess
  <2>3. \A x \in Nat : Absent <= x
    BY DEF Absent
  <2> QED BY <1>6, <2>1, <2>2, <2>3
<1>8. CASE R # {}
  <2>1. PICK small : SumsUp(small, R, v) /\ SumClients(c, f) = small[R]
    <3>1. \A k \in Counted(c, f) : c[k].rate[f] \in Int
      <4> TAKE k \in Counted(c, f)
      <4> QED BY <1>5
    <3>2. /\ IsFiniteSet(Counted(c, f)) /\ Counted(c, f) # {}
          /\ ~\E k \in Counted(c, f) : c[k].rate[f] = NotANumber
      BY <1>3, <1>8 DEF Marshals, Counted
    <3> QED BY ONLY <3>1, <3>2, SumOfClients
  <2>2. /\ \A x \in R : v[x] \in Int
        /\ \A x \in S : w[x] \in Nat
        /\ \A x \in R : v[x] <= w[x]
    <3>1. ASSUME NEW x \in R PROVE v[x] \in Int /\ v[x] <= w[x]
      <4>1. v[x] = c[x].rate[f] /\ w[x] = Largest(d, x, f)
        BY <1>3
      <4> QED BY <1>5, <4>1
    <3>2. \A x \in S : w[x] \in Nat
      BY <1>4
    <3> HIDE DEF v, w, R
    <3> QED BY <3>1, <3>2
  <2>3. R \in SUBSET S /\ SumsUp(large, S, w) /\ SumsUp(small, R, v)
    BY <1>3, <1>6, <2>1
  <2> HIDE DEF v, w, R
  <2>4. small[R] <= large[S]
    BY <1>1, <2>2, <2>3, SumLess
  <2> QED BY <1>6, <2>1, <2>4
<1> QED BY <1>7, <1>8

LEMMA EachDeviceOnceFollows == ASSUME Extracted PROVE EachDeviceOnce
<1> DEFINE d == loop.document
           c == loop.clients
           S == MacsOf(Objects(d))
<1> SUFFICES ASSUME Collected, "" \notin S, Marshals(c)
             PROVE  /\ Cardinality(DOMAIN c) = Cardinality(S)
                    /\ \A f \in Rates : SumClients(c, f) <= LargestSum(d, f, S)
  BY DEF EachDeviceOnce, MacsOf, LargestSum
<1>1. PICK e \in Documents : \E walk \in Walks(e) :
         d = e /\ c = ExtractClients(walk)
  BY DEF Extracted
<1>2. PICK walk \in Walks(e) : d = e /\ c = ExtractClients(walk)
  BY <1>1
<1> HIDE DEF d, c, S
<1>3. d \in Documents /\ walk \in Walks(d)
  BY <1>2
<1>4. walk \in Seq(Objects(d)) /\ ToSet(walk) = Objects(d)
  BY <1>3, WalkFacts
<1>5. Addressed(Objects(d))
  BY DEF Addressed, S, MacsOf
<1>6. Tracks(c, Objects(d))
  BY <1>2, <1>4, <1>5, DevicesFound
<1>7. DOMAIN c = S
  BY <1>6 DEF Tracks, S
<1>8. \A f \in Rates : SumClients(c, f) <= LargestSum(d, f, S)
  BY <1>3, <1>6, ClientSum DEF S
<1> QED BY <1>7, <1>8

(* If every client object of an answer has its hardware address, the       *)
(* clients are as many as the addresses, and no total counts a device      *)
(* twice, in whatever order the answer was walked.                         *)
THEOREM EachDeviceOnceCorrect == Spec => []EachDeviceOnce
<1>1. Init => Extracted
  BY DEF Init, Extracted, Collected, LoopIdle
<1>2. TypeInv /\ Extracted /\ [Next]_vars => Extracted'
  <2>1. CASE UNCHANGED vars
    BY <2>1 DEF vars, Extracted, Collected, ClaimsOf, AnyClientHas
  <2>2. CASE Next
    BY <2>2, ExtractedStep
  <2> QED BY <2>1, <2>2
<1>3. Extracted => EachDeviceOnce
  BY EachDeviceOnceFollows
<1> QED BY <1>1, <1>2, <1>3, TypeInvCorrect, PTL DEF Spec

==============================================================================

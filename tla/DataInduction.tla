---------------------------- MODULE DataInduction ----------------------------
(***************************************************************************)
(* Induction and recursion over data, for the operators of the community   *)
(* modules the models use: Min, Max, FoldLeft, FlattenSeq, SetToSeqs and   *)
(* MapThenSumSet.  The induction principles are stated with sets in the    *)
(* place of predicates, and the steps of a fold with functions in the      *)
(* place of operators, so that first-order provers can use them: a caller  *)
(* names the set of the values that have the property.                     *)
(***************************************************************************)
EXTENDS SequencesExt, Integers, WellFoundedInduction, FiniteSetTheorems, TLAPS

-----------------------------------------------------------------------------
(* Natural numbers. *)

Smaller == {p \in Nat \X Nat : p[1] < p[2]}

LEMMA LeastMember ==
    ASSUME NEW T \in SUBSET Nat, T # {}
    PROVE  \E x \in T : \A y \in T : x <= y
<1>1. IsWellFoundedOn(Smaller, Nat)
  BY NatLessThanWellFounded DEF OpToRel, Smaller
<1>2. PICK x \in T : \A y \in T : <<y, x>> \notin Smaller
  BY <1>1, WFMin
<1>3. \A y \in T : ~(y < x)
  BY <1>2 DEF Smaller
<1> QED BY <1>3

(* A set of numbers that has 0 and with each number the next has them all. *)
LEMMA NatSetInduction ==
    ASSUME NEW T, 0 \in T, \A n \in Nat : n \in T => n + 1 \in T
    PROVE  Nat \subseteq T
<1> SUFFICES ASSUME Nat \ T # {} PROVE FALSE
  OBVIOUS
<1>1. PICK n \in Nat \ T : \A y \in Nat \ T : n <= y
  BY LeastMember
<1>2. n # 0 /\ n - 1 \in Nat
  BY <1>1
<1>3. n - 1 \in T
  BY <1>1, <1>2
<1> QED BY <1>1, <1>2, <1>3

(* The same up to a bound.                                                 *)
LEMMA RangeInduction ==
    ASSUME NEW m \in Nat, NEW T, 0 \in T,
           \A n \in 1..m : n - 1 \in T => n \in T
    PROVE  0..m \subseteq T
<1> DEFINE U == T \cup {n \in Nat : n > m}
<1>1. 0 \in U
  OBVIOUS
<1>2. ASSUME NEW n \in Nat, n \in U PROVE n + 1 \in U
  <2>1. CASE n + 1 > m
    BY <2>1
  <2>2. CASE n + 1 \in 1..m
    BY <1>2, <2>2
  <2> QED BY <2>1, <2>2
<1> HIDE DEF U
<1>3. Nat \subseteq U
  BY <1>1, <1>2, NatSetInduction
<1> QED BY <1>3 DEF U

LEMMA MinOf ==
    ASSUME NEW T \in SUBSET Nat, T # {}
    PROVE  Min(T) \in T /\ \A y \in T : Min(T) <= y
BY LeastMember DEF Min

(* A family that has the empty set, and a set when it has the set without  *)
(* any one of its members.                                                 *)
LEMMA SubsetInduction ==
    ASSUME NEW S, IsFiniteSet(S), NEW F, {} \in F,
           \A T \in SUBSET S :
              T # {} /\ (\A x \in T : T \ {x} \in F) => T \in F
    PROVE  SUBSET S \subseteq F
<1> DEFINE N == {n \in Nat : \A T \in SUBSET S : Cardinality(T) = n => T \in F}
<1>0. \A T \in SUBSET S : IsFiniteSet(T) /\ Cardinality(T) \in Nat
  BY FS_Subset, FS_CardinalityType
<1>1. 0 \in N
  BY <1>0, FS_EmptySet
<1>2. ASSUME NEW n \in Nat, n \in N PROVE n + 1 \in N
  <2> SUFFICES ASSUME NEW T \in SUBSET S, Cardinality(T) = n + 1
               PROVE  T \in F
    OBVIOUS
  <2>1. T # {}
    <3>1. Cardinality({}) = 0
      BY FS_EmptySet
    <3> QED BY <3>1
  <2>2. ASSUME NEW x \in T PROVE T \ {x} \in F
    <3>1. Cardinality(T \ {x}) = n
      BY <1>0, FS_RemoveElement
    <3> QED BY <1>2, <3>1
  <2> QED BY <2>1, <2>2
<1> HIDE DEF N
<1>3. Nat \subseteq N
  BY <1>1, <1>2, NatSetInduction
<1> QED BY <1>0, <1>3 DEF N

LEMMA MaxOf ==
    ASSUME NEW T \in SUBSET Int, IsFiniteSet(T), T # {}
    PROVE  Max(T) \in T /\ \A y \in T : Max(T) >= y
<1> DEFINE F == {U \in SUBSET T : U = {} \/ \E x \in U : \A y \in U : x >= y}
<1>1. {} \in F
  OBVIOUS
<1>2. ASSUME NEW U \in SUBSET T, U # {}, \A x \in U : U \ {x} \in F
      PROVE  U \in F
  <2> PICK x \in U : TRUE
    BY <1>2
  <2>1. CASE U \ {x} = {}
    <3>1. \A y \in U : x >= y
      BY <2>1
    <3> QED BY <3>1
  <2>2. CASE \E z \in U \ {x} : \A y \in U \ {x} : z >= y
    <3>1. PICK z \in U \ {x} : \A y \in U \ {x} : z >= y
      BY <2>2
    <3>2. CASE x >= z
      <4>1. \A y \in U : x >= y
        BY <3>1, <3>2
      <4> QED BY <4>1
    <3>3. CASE ~(x >= z)
      <4>1. \A y \in U : z >= y
        BY <3>1, <3>3
      <4> QED BY <4>1
    <3> QED BY <3>2, <3>3
  <2> QED BY <1>2, <2>1, <2>2
<1> HIDE DEF F
<1>3. SUBSET T \subseteq F
  BY <1>1, <1>2, SubsetInduction
<1>4. T \in F
  BY <1>3
<1> QED BY <1>4 DEF F, Max

-----------------------------------------------------------------------------
(* Folds over the subsets of a finite set. *)

(* The function a fold is computed with exists: "pick" chooses the member  *)
(* that is next, "step" adds it to the value of the rest.                  *)
PicksIn(pick, S) == \A T \in SUBSET S : T # {} => pick[T] \in T
StepsIn(step, S, V) == \A x \in S, v \in V : step[<<x, v>>] \in V
FoldsWith(iter, S, base, pick, step) ==
    \A T \in SUBSET S :
        iter[T] = IF T = {} THEN base
                  ELSE step[<<pick[T], iter[T \ {pick[T]}]>>]

LEMMA FoldExists ==
    ASSUME NEW S, IsFiniteSet(S), NEW V, NEW base \in V,
           NEW pick, PicksIn(pick, S), NEW step, StepsIn(step, S, V)
    PROVE  \E iter \in [SUBSET S -> V] : FoldsWith(iter, S, base, pick, step)
<1> DEFINE Below(n) == {T \in SUBSET S : Cardinality(T) <= n}
           Fits(g, n) == \A T \in Below(n) :
                g[T] = IF T = {} THEN base
                       ELSE step[<<pick[T], g[T \ {pick[T]}]>>]
           N == {n \in Nat : \E g \in [Below(n) -> V] : Fits(g, n)}
<1>0. \A T \in SUBSET S : IsFiniteSet(T) /\ Cardinality(T) \in Nat
  BY FS_Subset, FS_CardinalityType
<1>1. 0 \in N
  <2>1. \A T \in Below(0) : T = {}
    BY <1>0, FS_EmptySet
  <2>2. [T \in Below(0) |-> base] \in [Below(0) -> V]
    OBVIOUS
  <2>3. Fits([T \in Below(0) |-> base], 0)
    BY <2>1
  <2> QED BY <2>2, <2>3
<1>2. ASSUME NEW n \in Nat, n \in N PROVE n + 1 \in N
  <2>1. PICK g \in [Below(n) -> V] : Fits(g, n)
    BY <1>2
  <2> DEFINE h == [T \in Below(n + 1) |->
                     IF T = {} THEN base
                     ELSE step[<<pick[T], g[T \ {pick[T]}]>>]]
  <2>2. ASSUME NEW T \in Below(n + 1), T # {}
        PROVE  T \ {pick[T]} \in Below(n)
    <3>1. pick[T] \in T
      BY <2>2 DEF PicksIn
    <3>2. Cardinality(T \ {pick[T]}) = Cardinality(T) - 1
      BY <1>0, <3>1, FS_RemoveElement
    <3> QED BY <1>0, <3>2
  <2>3. \A T \in Below(n) : T \in Below(n + 1) /\ h[T] = g[T]
    <3> TAKE T \in Below(n)
    <3>1. T \in Below(n + 1)
      BY <1>0
    <3> QED BY <2>1, <3>1
  <2>4. h \in [Below(n + 1) -> V]
    <3> SUFFICES ASSUME NEW T \in Below(n + 1), T # {}
                 PROVE  step[<<pick[T], g[T \ {pick[T]}]>>] \in V
      OBVIOUS
    <3>1. g[T \ {pick[T]}] \in V
      BY <2>2
    <3>2. pick[T] \in S
      BY DEF PicksIn
    <3> QED BY <3>1, <3>2 DEF StepsIn
  <2>5. Fits(h, n + 1)
    <3> SUFFICES ASSUME NEW T \in Below(n + 1), T # {}
                 PROVE  g[T \ {pick[T]}] = h[T \ {pick[T]}]
      OBVIOUS
    <3> QED BY <2>2, <2>3
  <2> HIDE DEF h, Below, Fits
  <2> QED BY <2>4, <2>5
<1>3. Cardinality(S) \in N
  <2> HIDE DEF N
  <2>1. Nat \subseteq N
    BY <1>1, <1>2, NatSetInduction
  <2> QED BY <1>0, <2>1
<1>4. Below(Cardinality(S)) = SUBSET S
  <2>1. \A T \in SUBSET S : Cardinality(T) <= Cardinality(S)
    BY FS_Subset
  <2> QED BY <2>1
<1>5. PICK g \in [Below(Cardinality(S)) -> V] : Fits(g, Cardinality(S))
  BY <1>3
<1> QED BY <1>4, <1>5 DEF FoldsWith


(* The sets a fold from left to right goes through are the prefixes.        *)
LEMMA PrefixFacts ==
    ASSUME NEW n \in Nat
    PROVE  /\ IsFiniteSet(1..n) /\ 1..n \in SUBSET (1..n)
           /\ \A T \in SUBSET (1..n) : T # {} => Max(T) \in T
           /\ \A k \in 1..n : /\ 1..k \in SUBSET (1..n) /\ 1..k # {}
                             /\ Max(1..k) = k /\ (1..k) \ {k} = 1..k-1
<1>1. IsFiniteSet(1..n)
  BY FS_Interval
<1>2. ASSUME NEW T \in SUBSET (1..n), T # {}
      PROVE  Max(T) \in T /\ \A y \in T : Max(T) >= y
  <2>1. IsFiniteSet(T)
    BY <1>1, FS_Subset
  <2>2. T \in SUBSET Int
    OBVIOUS
  <2> QED BY <1>2, <2>1, <2>2, MaxOf
<1>3. ASSUME NEW k \in 1..n
      PROVE  /\ 1..k \in SUBSET (1..n) /\ 1..k # {} /\ Max(1..k) = k
             /\ (1..k) \ {k} = 1..k-1
  <2>1. 1..k \in SUBSET (1..n) /\ k \in 1..k
    OBVIOUS
  <2>2. Max(1..k) \in 1..k /\ Max(1..k) >= k
    BY <1>2, <2>1
  <2> QED BY <2>1, <2>2
<1> QED BY <1>1, <1>2, <1>3


(* FoldLeft picks the greatest place.                                      *)
FoldsLeft(iter, n, base, step) ==
    iter = [T \in SUBSET (1..n) |->
              IF T = {} THEN base ELSE step[<<Max(T), iter[T \ {Max(T)}]>>]]

LEMMA FoldLeftExists ==
    ASSUME NEW n \in Nat, NEW V, NEW base \in V, NEW step,
           StepsIn(step, 1..n, V)
    PROVE  \E iter \in [SUBSET (1..n) -> V] : FoldsLeft(iter, n, base, step)
<1> DEFINE pick == [T \in SUBSET (1..n) |-> Max(T)]
<1>1. \A T \in SUBSET (1..n) : pick[T] = Max(T)
  OBVIOUS
<1>2. IsFiniteSet(1..n) /\ PicksIn(pick, 1..n)
  BY <1>1, PrefixFacts DEF PicksIn
<1> HIDE DEF pick
<1>3. PICK iter \in [SUBSET (1..n) -> V] :
         FoldsWith(iter, 1..n, base, pick, step)
  BY <1>2, FoldExists
<1>4. \A T \in SUBSET (1..n) :
         iter[T] = IF T = {} THEN base
                   ELSE step[<<Max(T), iter[T \ {Max(T)}]>>]
  BY <1>1, <1>3 DEF FoldsWith
<1> QED BY <1>4 DEF FoldsLeft

(* The values of its prefixes, one after the other.                        *)
Runs(run, n, base, step) ==
    run[0] = base /\ \A k \in 1..n : run[k] = step[<<k, run[k - 1]>>]

LEMMA FoldLeftRuns ==
    ASSUME NEW n \in Nat, NEW base, NEW step, NEW iter,
           FoldsLeft(iter, n, base, step)
    PROVE  Runs([k \in 0..n |-> iter[1..k]], n, base, step)
<1> DEFINE run == [k \in 0..n |-> iter[1..k]]
<1>1. run[0] = base
  <2>1. 1..0 = {} /\ {} \in SUBSET (1..n)
    OBVIOUS
  <2> QED BY <2>1 DEF FoldsLeft
<1>2. ASSUME NEW k \in 1..n PROVE run[k] = step[<<k, run[k - 1]>>]
  <2> DEFINE P == 1..k
  <2>1. P \in SUBSET (1..n) /\ P # {} /\ Max(P) = k /\ P \ {k} = 1..k-1
    BY PrefixFacts
  <2> HIDE DEF P
  <2>2. iter[P] = step[<<Max(P), iter[P \ {Max(P)}]>>]
    BY <2>1 DEF FoldsLeft
  <2>3. k - 1 \in 0..n /\ k \in 0..n
    OBVIOUS
  <2>4. run[k - 1] = iter[1..k-1] /\ run[k] = iter[P]
    BY <2>3 DEF P
  <2> HIDE DEF run
  <2> QED BY <2>1, <2>2, <2>4
<1> HIDE DEF run
<1> QED BY <1>1, <1>2 DEF Runs, run

LEMMA RunExists ==
    ASSUME NEW n \in Nat, NEW V, NEW base \in V, NEW step,
           StepsIn(step, 1..n, V)
    PROVE  \E run \in [0..n -> V] : Runs(run, n, base, step)
<1>1. PICK iter \in [SUBSET (1..n) -> V] : FoldsLeft(iter, n, base, step)
  BY FoldLeftExists
<1>2. \A k \in 0..n : 1..k \in SUBSET (1..n)
  OBVIOUS
<1>3. [k \in 0..n |-> iter[1..k]] \in [0..n -> V]
  BY <1>2
<1> QED BY <1>1, <1>3, FoldLeftRuns

-----------------------------------------------------------------------------
(* Sequences of sequences. *)

LEMMA NoLength == ASSUME NEW S, NEW s \in Seq(S), Len(s) = 0 PROVE s = <<>>
OBVIOUS

Joins(run, seqs, n) ==
    run[0] = <<>> /\ \A k \in 1..n : run[k] = run[k - 1] \o seqs[k]

LEMMA FlattenRun ==
    ASSUME NEW E, NEW seqs \in Seq(Seq(E)), NEW n \in Nat, n = Len(seqs)
    PROVE  \E run \in [0..n -> Seq(E)] :
              Joins(run, seqs, n) /\ FlattenSeq(seqs) = run[n]
<1> DEFINE step == [p \in (1..n) \X Seq(E) |-> p[2] \o seqs[p[1]]]
<1>0. \A k \in 1..n : seqs[k] \in Seq(E) /\ k - 1 \in 0..n /\ k \in 0..n
  OBVIOUS
<1>1. ASSUME NEW k \in 1..n, NEW v \in Seq(E)
      PROVE  step[<<k, v>>] = v \o seqs[k] /\ step[<<k, v>>] \in Seq(E)
  <2>1. v \o seqs[k] \in Seq(E)
    BY <1>0
  <2> QED BY <2>1
<1> HIDE DEF step
<1>2. <<>> \in Seq(E)
  OBVIOUS
<1>3. PICK run \in [0..n -> Seq(E)] : Runs(run, n, <<>>, step)
  <2>1. StepsIn(step, 1..n, Seq(E))
    BY <1>1 DEF StepsIn
  <2> QED BY <1>2, <2>1, RunExists
<1>4. run[0] = <<>> /\ \A k \in 1..n : run[k] = run[k - 1] \o seqs[k]
  BY <1>0, <1>1, <1>3 DEF Runs
<1>5. CASE n = 0
  <2>1. seqs = <<>>
    BY <1>5, NoLength
  <2>2. FlattenSeq(seqs) = seqs
    BY <1>5 DEF FlattenSeq
  <2> QED BY <1>4, <1>5, <2>1, <2>2 DEF Joins
<1>6. CASE n # 0
  <2> DEFINE flat == CHOOSE f : f = [i \in 1..n |->
                        IF i = 1 THEN seqs[i] ELSE f[i - 1] \o seqs[i]]
             g == [i \in 1..n |-> run[i]]
             U == {k \in 0..n : k = 0 \/ flat[k] = run[k]}
  <2>1. run[1] = seqs[1]
    <3>1. 1 \in 1..n /\ 1 - 1 = 0
      BY <1>6
    <3>2. run[1] = run[0] \o seqs[1]
      BY <1>4, <3>1
    <3>3. seqs[1] \in Seq(E)
      BY <1>0, <3>1
    <3> QED BY <1>4, <3>2, <3>3
  <2>2. ASSUME NEW i \in 1..n
        PROVE  g[i] = IF i = 1 THEN seqs[i] ELSE g[i - 1] \o seqs[i]
    <3>1. i # 1 => i - 1 \in 1..n
      OBVIOUS
    <3>2. run[i] = run[i - 1] \o seqs[i]
      BY <1>4
    <3>3. g[i] = run[i] /\ (i # 1 => g[i - 1] = run[i - 1])
      BY <3>1
    <3> HIDE DEF g
    <3> QED BY <2>1, <3>2, <3>3
  <2>3. g = [i \in 1..n |-> IF i = 1 THEN seqs[i] ELSE g[i - 1] \o seqs[i]]
    <3> DEFINE h == [i \in 1..n |->
                       IF i = 1 THEN seqs[i] ELSE g[i - 1] \o seqs[i]]
    <3>1. \A i \in 1..n : h[i] = g[i]
      BY <2>2
    <3> QED BY <3>1
  <2>4. flat = [i \in 1..n |-> IF i = 1 THEN seqs[i]
                               ELSE flat[i - 1] \o seqs[i]]
    <3> HIDE DEF g
    <3> QED BY <2>3
  <2>5. FlattenSeq(seqs) = flat[n]
    BY <1>6 DEF FlattenSeq
  <2> HIDE DEF flat
  <2>6. 0 \in U
    OBVIOUS
  <2>7. ASSUME NEW k \in 1..n, k - 1 \in U PROVE k \in U
    <3>1. flat[k] = IF k = 1 THEN seqs[k] ELSE flat[k - 1] \o seqs[k]
      BY <2>4
    <3>2. run[k] = run[k - 1] \o seqs[k]
      BY <1>4
    <3>3. k # 1 => flat[k - 1] = run[k - 1]
      BY <2>7
    <3>4. flat[k] = run[k]
      BY <2>1, <3>1, <3>2, <3>3
    <3> QED BY <1>0, <3>4
  <2> HIDE DEF U
  <2>8. 0..n \subseteq U
    BY <2>6, <2>7, RangeInduction
  <2>9. flat[n] = run[n]
    BY <1>6, <2>8 DEF U
  <2> QED BY <1>4, <2>5, <2>9 DEF Joins
<1> QED BY <1>5, <1>6

LEMMA JoinFacts ==
    ASSUME NEW E, NEW a \in Seq(E), NEW b \in Seq(E)
    PROVE  a \o b \in Seq(E) /\ ToSet(a \o b) = ToSet(a) \cup ToSet(b)
<1>1. DOMAIN (a \o b) = 1..Len(a) + Len(b) /\ a \o b \in Seq(E)
  OBVIOUS
<1>2. \A i \in DOMAIN (a \o b) :
         (a \o b)[i] = IF i <= Len(a) THEN a[i] ELSE b[i - Len(a)]
  OBVIOUS
<1>3. \A i \in DOMAIN a : i \in DOMAIN (a \o b) /\ (a \o b)[i] = a[i]
  BY <1>1, <1>2
<1>4. \A i \in DOMAIN b : /\ i + Len(a) \in DOMAIN (a \o b)
                         /\ (a \o b)[i + Len(a)] = b[i]
  BY <1>1, <1>2
<1>5. ToSet(a \o b) \subseteq ToSet(a) \cup ToSet(b)
  BY <1>1, <1>2 DEF ToSet
<1>6. ASSUME NEW x \in ToSet(a) PROVE x \in ToSet(a \o b)
  BY <1>3 DEF ToSet
<1>7. ASSUME NEW x \in ToSet(b) PROVE x \in ToSet(a \o b)
  <2>1. PICK i \in DOMAIN b : x = b[i]
    BY DEF ToSet
  <2>2. /\ i + Len(a) \in DOMAIN (a \o b)
        /\ (a \o b)[i + Len(a)] = x
    BY <1>4, <2>1
  <2> HIDE <1>4
  <2> QED BY <2>2 DEF ToSet
<1> QED BY <1>1, <1>5, <1>6, <1>7

(* A flattened sequence has the members of its parts.                      *)
LEMMA FlattenFacts ==
    ASSUME NEW E, NEW seqs \in Seq(Seq(E))
    PROVE  /\ FlattenSeq(seqs) \in Seq(E)
           /\ ToSet(FlattenSeq(seqs)) = UNION {ToSet(s) : s \in ToSet(seqs)}
<1> DEFINE n == Len(seqs)
<1>0. n \in Nat /\ DOMAIN seqs = 1..n /\ \A k \in 1..n : seqs[k] \in Seq(E)
  OBVIOUS
<1>1. PICK run \in [0..n -> Seq(E)] :
         Joins(run, seqs, n) /\ FlattenSeq(seqs) = run[n]
  <2> HIDE DEF n
  <2> QED BY <1>0, FlattenRun DEF n
<1> DEFINE Part(k) == UNION {ToSet(seqs[i]) : i \in 1..k}
           U == {k \in 0..n : ToSet(run[k]) = Part(k)}
<1> HIDE DEF n
<1>2. 0 \in U
  <2>1. 1..0 = {} /\ 0 \in 0..n
    BY <1>0
  <2> QED BY <1>1, <2>1 DEF ToSet, Joins
<1>3. ASSUME NEW k \in 1..n, k - 1 \in U PROVE k \in U
  <2>0. k - 1 \in 0..n /\ k \in 0..n
    BY <1>0
  <2>1. /\ run[k - 1] \in Seq(E) /\ seqs[k] \in Seq(E)
        /\ run[k] = run[k - 1] \o seqs[k]
    BY <1>0, <1>1, <2>0 DEF Joins
  <2>2. Part(k) = Part(k - 1) \cup ToSet(seqs[k])
    <3>1. 1..k = 1..k-1 \cup {k}
      BY <1>0
    <3> QED BY <3>1
  <2>3. ToSet(run[k]) = ToSet(run[k - 1]) \cup ToSet(seqs[k])
    BY <2>1, JoinFacts
  <2>4. ToSet(run[k - 1]) = Part(k - 1)
    BY <1>3
  <2> HIDE DEF Part
  <2> QED BY <2>0, <2>2, <2>3, <2>4
<1>4. n \in U
  <2> HIDE DEF U
  <2>1. 0..n \subseteq U
    BY <1>0, <1>2, <1>3, RangeInduction
  <2> QED BY <1>0, <2>1
<1>5. {ToSet(seqs[i]) : i \in 1..n} = {ToSet(s) : s \in ToSet(seqs)}
  <2> DEFINE Members(s) == ToSet(s)
  <2>1. {Members(seqs[i]) : i \in 1..n} = {Members(s) : s \in {seqs[i] : i \in 1..n}}
    OBVIOUS
  <2>2. ToSet(seqs) = {seqs[i] : i \in 1..n}
    BY <1>0 DEF ToSet
  <2> QED BY <2>1, <2>2
<1> QED BY <1>0, <1>1, <1>4, <1>5

(* An order of a finite set has each of its members.                       *)
LEMMA OrderFacts ==
    ASSUME NEW S, IsFiniteSet(S), NEW f \in SetToSeqs(S)
    PROVE  f \in Seq(S) /\ ToSet(f) = S
<1> DEFINE n == Cardinality(S)
<1>1. n \in Nat /\ IsFiniteSet(1..n) /\ Cardinality(1..n) = n
  BY FS_CardinalityType, FS_Interval
<1>2. f \in [1..n -> S] /\ \A i, j \in 1..n : i # j => f[i] # f[j]
  BY DEF SetToSeqs
<1>3. f \in Injection(1..n, S)
  BY <1>2 DEF Injection, IsInjective
<1>4. f \in Surjection(1..n, S)
  BY <1>1, <1>3, FS_Injection
<1> HIDE DEF n
<1>5. ToSet(f) = S
  BY <1>2, <1>4 DEF Surjection, ToSet
<1> QED BY <1>1, <1>2, <1>5

-----------------------------------------------------------------------------
(* Sums over the members of a finite set, as MapThenSumSet computes them.  *)

OneOf(T) == CHOOSE x \in T : TRUE
SumsUp(iter, S, w) ==
    iter = [T \in SUBSET S |->
              IF T = {} THEN 0 ELSE w[OneOf(T)] + iter[T \ {OneOf(T)}]]

LEMMA SumExists ==
    ASSUME NEW S, IsFiniteSet(S), NEW w, \A x \in S : w[x] \in Int
    PROVE  \E iter \in [SUBSET S -> Int] : SumsUp(iter, S, w)
<1> DEFINE pick == [T \in SUBSET S |-> OneOf(T)]
           step == [p \in S \X Int |-> w[p[1]] + p[2]]
<1>1. PicksIn(pick, S) /\ \A T \in SUBSET S : pick[T] = OneOf(T)
  BY DEF OneOf, PicksIn
<1>2. StepsIn(step, S, Int)
      /\ \A x \in S, v \in Int : step[<<x, v>>] = w[x] + v
  BY DEF StepsIn
<1> HIDE DEF pick, step
<1>3. PICK iter \in [SUBSET S -> Int] : FoldsWith(iter, S, 0, pick, step)
  <2>1. PicksIn(pick, S) /\ StepsIn(step, S, Int) /\ 0 \in Int
    BY <1>1, <1>2
  <2> HIDE <1>1, <1>2
  <2> QED BY <2>1, FoldExists
<1>4. ASSUME NEW T \in SUBSET S
      PROVE  iter[T] = IF T = {} THEN 0 ELSE w[OneOf(T)] + iter[T \ {OneOf(T)}]
  <2>1. CASE T = {}
    BY <1>3, <2>1 DEF FoldsWith
  <2>2. CASE T # {}
    <3>1. OneOf(T) \in S /\ iter[T \ {OneOf(T)}] \in Int
      BY <2>2 DEF OneOf
    <3>2. iter[T] = step[<<OneOf(T), iter[T \ {OneOf(T)}]>>]
      BY <1>1, <1>3, <2>2 DEF FoldsWith
    <3> QED BY <1>2, <2>2, <3>1, <3>2
  <2> QED BY <2>1, <2>2
<1> QED BY <1>4 DEF SumsUp

LEMMA SumTyped ==
    ASSUME NEW S, IsFiniteSet(S), NEW w, \A x \in S : w[x] \in Int,
           NEW iter, SumsUp(iter, S, w)
    PROVE  \A T \in SUBSET S : iter[T] \in Int
<1> DEFINE F == {T \in SUBSET S : iter[T] \in Int}
<1>1. {} \in F
  BY DEF SumsUp
<1>2. ASSUME NEW T \in SUBSET S, T # {}, \A x \in T : T \ {x} \in F
      PROVE  T \in F
  <2>1. OneOf(T) \in T
    BY <1>2 DEF OneOf
  <2>2. iter[T] = w[OneOf(T)] + iter[T \ {OneOf(T)}]
    BY <1>2 DEF SumsUp
  <2>3. w[OneOf(T)] \in Int /\ iter[T \ {OneOf(T)}] \in Int
    BY <1>2, <2>1
  <2>4. iter[T] \in Int
    BY <2>2, <2>3
  <2> QED BY <2>4
<1> HIDE DEF F
<1>3. SUBSET S \subseteq F
  BY <1>1, <1>2, SubsetInduction
<1> QED BY <1>3 DEF F

(* Members may be added in any order.                                      *)
LEMMA SumAnyOrder ==
    ASSUME NEW S, IsFiniteSet(S), NEW w, \A x \in S : w[x] \in Int,
           NEW iter, SumsUp(iter, S, w)
    PROVE  \A T \in SUBSET S : \A x \in T : iter[T] = w[x] + iter[T \ {x}]
<1> DEFINE F == {T \in SUBSET S : \A x \in T : iter[T] = w[x] + iter[T \ {x}]}
<1>1. {} \in F
  OBVIOUS
<1>2. ASSUME NEW T \in SUBSET S, T # {}, \A x \in T : T \ {x} \in F
      PROVE  T \in F
  <2> DEFINE c == OneOf(T)
  <2>1. c \in T
    BY <1>2 DEF OneOf
  <2>2. iter[T] = w[c] + iter[T \ {c}]
    BY <1>2 DEF SumsUp
  <2> HIDE DEF c
  <2>3. ASSUME NEW x \in T, x # c PROVE iter[T] = w[x] + iter[T \ {x}]
    <3> DEFINE R == T \ {c, x}
    <3>1. (T \ {c}) \ {x} = R /\ (T \ {x}) \ {c} = R
      OBVIOUS
    <3>2. iter[T \ {c}] = w[x] + iter[R]
      BY <1>2, <2>1, <2>3, <3>1
    <3>3. iter[T \ {x}] = w[c] + iter[R]
      BY <1>2, <2>1, <2>3, <3>1
    <3>4. iter[R] \in Int /\ w[c] \in Int /\ w[x] \in Int
      BY <2>1, SumTyped
    <3> DEFINE r == iter[R]
               a == w[c]
               b == w[x]
    <3>5. iter[T] = a + (b + r) /\ iter[T \ {x}] = a + r
      BY <2>2, <3>2, <3>3
    <3>6. a \in Int /\ b \in Int /\ r \in Int
      BY <3>4
    <3> HIDE DEF a, b, r
    <3>7. a + (b + r) = b + (a + r)
      BY <3>6
    <3> QED BY <3>5, <3>7 DEF b
  <2> QED BY <2>2, <2>3
<1> HIDE DEF F
<1>3. SUBSET S \subseteq F
  BY <1>1, <1>2, SubsetInduction
<1> QED BY <1>3 DEF F

(* A sum of less, over fewer members, is not more.                         *)
LEMMA SumLess ==
    ASSUME NEW S, IsFiniteSet(S), NEW R \in SUBSET S,
           NEW v, \A x \in R : v[x] \in Int,
           NEW w, \A x \in S : w[x] \in Nat, \A x \in R : v[x] <= w[x],
           NEW small, SumsUp(small, R, v), NEW large, SumsUp(large, S, w)
    PROVE  small[R] <= large[S] /\ large[S] \in Nat
<1> DEFINE F == {T \in SUBSET S :
                   small[T \cap R] <= large[T] /\ large[T] \in Nat}
<1>0. IsFiniteSet(R) /\ \A x \in S : w[x] \in Int
  BY FS_Subset
<1>1. {} \in F
  <2>1. small[{}] = 0 /\ large[{}] = 0
    BY DEF SumsUp
  <2> QED BY <2>1
<1>2. ASSUME NEW T \in SUBSET S, T # {}, \A x \in T : T \ {x} \in F
      PROVE  T \in F
  <2> PICK x \in T : TRUE
    BY <1>2
  <2>1. large[T] = w[x] + large[T \ {x}]
    BY <1>0, SumAnyOrder
  <2>2. /\ small[(T \ {x}) \cap R] <= large[T \ {x}]
        /\ large[T \ {x}] \in Nat /\ w[x] \in Nat
    BY <1>2
  <2>3. \A U \in SUBSET R : small[U] \in Int
    BY <1>0, SumTyped
  <2>4. small[(T \ {x}) \cap R] \in Int
    BY <2>3
  <2>5. small[T \cap R] <= large[T]
    <3>1. CASE x \in R
      <4>1. (T \cap R) \ {x} = (T \ {x}) \cap R /\ x \in T \cap R
        BY <3>1
      <4>2. small[T \cap R] = v[x] + small[(T \ {x}) \cap R]
        BY <1>0, <4>1, SumAnyOrder
      <4>3. v[x] \in Int /\ v[x] <= w[x]
        BY <3>1
      <4> QED BY <2>1, <2>2, <2>4, <4>2, <4>3
    <3>2. CASE x \notin R
      <4>1. T \cap R = (T \ {x}) \cap R
        BY <3>2
      <4> QED BY <2>1, <2>2, <2>4, <4>1
    <3> QED BY <3>1, <3>2
  <2> QED BY <2>1, <2>2, <2>5
<1> HIDE DEF F
<1>3. SUBSET S \subseteq F
  BY <1>1, <1>2, SubsetInduction
<1>4. S \in F /\ S \cap R = R
  BY <1>3
<1> QED BY <1>4 DEF F

=============================================================================

--------------------------- MODULE DashboardProofs ---------------------------
(***************************************************************************)
(* Proofs about SettingsPage and Dashboard, for every set of fields, texts *)
(* and allowances.  What the folds over lists of names compute is proved   *)
(* along their prefixes, what the queries answer from the texts of times.  *)
(***************************************************************************)
EXTENDS Dashboard, DataInduction

-----------------------------------------------------------------------------
(* Lists of names. *)

LEMMA AddFacts ==
    ASSUME NEW out \in Seq(Texts), NEW v \in Texts
    PROVE  AddName(out, v) \in Seq(Texts) /\ AddLine(out, v) \in Seq(Texts)
<1>1. TrimSpace(v) \in Texts
  BY TextsAssumption DEF TrimSpace
<1>2. Append(out, TrimSpace(v)) \in Seq(Texts)
  BY <1>1
<1>3. /\ AddName(out, v) \in {out, Append(out, TrimSpace(v))}
      /\ AddLine(out, v) \in {out, Append(out, TrimSpace(v))}
  BY DEF AddName, AddLine
<1> HIDE DEF TrimSpace
<1> QED BY <1>2, <1>3

(* The lists that normalizeStringList makes of the prefixes of one.         *)
NameRun(run, s, n) ==
    run[0] = <<>> /\ \A k \in 1..n : run[k] = AddName(run[k - 1], s[k])

LEMMA NamesFold ==
    ASSUME NEW s \in Seq(Texts), NEW n \in Nat, n = Len(s)
    PROVE  \E run : NameRun(run, s, n) /\ normalizeStringList(s) = run[n]
<1> DEFINE V == Seq(Texts)
           step == [p \in (1..n) \X V |-> AddName(p[2], s[p[1]])]
<1>1. ASSUME NEW k \in 1..n, NEW v \in V PROVE AddName(v, s[k]) \in V
  BY AddFacts
<1>2. <<>> \in V
  OBVIOUS
<1> HIDE DEF V
<1>3. ASSUME NEW k \in 1..n, NEW v \in V PROVE step[<<k, v>>] = AddName(v, s[k])
  OBVIOUS
<1> HIDE DEF step
<1>4. StepsIn(step, 1..n, V)
  BY <1>1, <1>3 DEF StepsIn
<1>5. PICK iter \in [SUBSET (1..n) -> V] : FoldsLeft(iter, n, <<>>, step)
  BY <1>2, <1>4, FoldLeftExists
<1> DEFINE fold == CHOOSE g : g = [t \in SUBSET (1..n) |->
                     IF t = {} THEN <<>>
                     ELSE AddName(g[t \ {Max(t)}], s[Max(t)])]
<1>6. iter = [t \in SUBSET (1..n) |->
                IF t = {} THEN <<>> ELSE AddName(iter[t \ {Max(t)}], s[Max(t)])]
  <2>1. ASSUME NEW t \in SUBSET (1..n), t # {}
        PROVE  iter[t] = AddName(iter[t \ {Max(t)}], s[Max(t)])
    <3>1. iter[t] = step[<<Max(t), iter[t \ {Max(t)}]>>]
      BY <1>5, <2>1 DEF FoldsLeft
    <3>2. Max(t) \in 1..n
      BY <2>1, PrefixFacts
    <3>3. iter[t \ {Max(t)}] \in V
      OBVIOUS
    <3> QED BY <1>3, <3>1, <3>2, <3>3
  <2>2. iter[{}] = <<>>
    BY <1>5 DEF FoldsLeft
  <2> DEFINE h == [t \in SUBSET (1..n) |->
                IF t = {} THEN <<>> ELSE AddName(iter[t \ {Max(t)}], s[Max(t)])]
  <2>3. \A t \in SUBSET (1..n) : h[t] = iter[t]
    BY <2>1, <2>2
  <2> QED BY <2>3
<1>7. fold = [t \in SUBSET (1..n) |->
                IF t = {} THEN <<>> ELSE AddName(fold[t \ {Max(t)}], s[Max(t)])]
  BY <1>6
<1>8. normalizeStringList(s) = fold[1..n]
  <2>1. DOMAIN s = 1..n
    OBVIOUS
  <2> QED BY <2>1 DEF normalizeStringList, FoldLeft, MapThenFoldSet
<1> HIDE DEF fold
<1> DEFINE run == [k \in 0..n |-> fold[1..k]]
<1>9. run[0] = <<>> /\ run[n] = fold[1..n]
  <2>1. 1..0 = {} /\ 0 \in 0..n /\ n \in 0..n
    OBVIOUS
  <2>2. fold[{}] = <<>>
    BY <1>7
  <2> QED BY <2>1, <2>2
<1>10. ASSUME NEW k \in 1..n PROVE run[k] = AddName(run[k - 1], s[k])
  <2> DEFINE P == 1..k
  <2>1. P \in SUBSET (1..n) /\ P # {} /\ Max(P) = k /\ P \ {k} = 1..k-1
    BY PrefixFacts
  <2>2. k \in 0..n /\ k - 1 \in 0..n
    OBVIOUS
  <2>3. run[k] = fold[P] /\ run[k - 1] = fold[1..k-1]
    BY <2>2
  <2> HIDE DEF P, run
  <2>4. fold[P] = AddName(fold[P \ {Max(P)}], s[Max(P)])
    BY <1>7, <2>1
  <2> QED BY <2>1, <2>3, <2>4
<1> HIDE DEF run
<1> QED BY <1>8, <1>9, <1>10 DEF NameRun

(* The lists that splitLines makes of the prefixes of one.                  *)
LineRun(run, s, n) ==
    run[0] = <<>> /\ \A k \in 1..n : run[k] = AddLine(run[k - 1], s[k])

LEMMA LinesFold ==
    ASSUME NEW s \in Seq(Texts), NEW n \in Nat, n = Len(s)
    PROVE  \E run : LineRun(run, s, n) /\ splitLines(s) = run[n]
<1> DEFINE V == Seq(Texts)
           step == [p \in (1..n) \X V |-> AddLine(p[2], s[p[1]])]
<1>1. ASSUME NEW k \in 1..n, NEW v \in V PROVE AddLine(v, s[k]) \in V
  BY AddFacts
<1>2. <<>> \in V
  OBVIOUS
<1> HIDE DEF V
<1>3. ASSUME NEW k \in 1..n, NEW v \in V PROVE step[<<k, v>>] = AddLine(v, s[k])
  OBVIOUS
<1> HIDE DEF step
<1>4. StepsIn(step, 1..n, V)
  BY <1>1, <1>3 DEF StepsIn
<1>5. PICK iter \in [SUBSET (1..n) -> V] : FoldsLeft(iter, n, <<>>, step)
  BY <1>2, <1>4, FoldLeftExists
<1> DEFINE fold == CHOOSE g : g = [t \in SUBSET (1..n) |->
                     IF t = {} THEN <<>>
                     ELSE AddLine(g[t \ {Max(t)}], s[Max(t)])]
<1>6. iter = [t \in SUBSET (1..n) |->
                IF t = {} THEN <<>> ELSE AddLine(iter[t \ {Max(t)}], s[Max(t)])]
  <2>1. ASSUME NEW t \in SUBSET (1..n), t # {}
        PROVE  iter[t] = AddLine(iter[t \ {Max(t)}], s[Max(t)])
    <3>1. iter[t] = step[<<Max(t), iter[t \ {Max(t)}]>>]
      BY <1>5, <2>1 DEF FoldsLeft
    <3>2. Max(t) \in 1..n
      BY <2>1, PrefixFacts
    <3>3. iter[t \ {Max(t)}] \in V
      OBVIOUS
    <3> QED BY <1>3, <3>1, <3>2, <3>3
  <2>2. iter[{}] = <<>>
    BY <1>5 DEF FoldsLeft
  <2> DEFINE h == [t \in SUBSET (1..n) |->
                IF t = {} THEN <<>> ELSE AddLine(iter[t \ {Max(t)}], s[Max(t)])]
  <2>3. \A t \in SUBSET (1..n) : h[t] = iter[t]
    BY <2>1, <2>2
  <2> QED BY <2>3
<1>7. fold = [t \in SUBSET (1..n) |->
                IF t = {} THEN <<>> ELSE AddLine(fold[t \ {Max(t)}], s[Max(t)])]
  BY <1>6
<1>8. splitLines(s) = fold[1..n]
  <2>1. DOMAIN s = 1..n
    OBVIOUS
  <2> QED BY <2>1 DEF splitLines, FoldLeft, MapThenFoldSet
<1> HIDE DEF fold
<1> DEFINE run == [k \in 0..n |-> fold[1..k]]
<1>9. run[0] = <<>> /\ run[n] = fold[1..n]
  <2>1. 1..0 = {} /\ 0 \in 0..n /\ n \in 0..n
    OBVIOUS
  <2>2. fold[{}] = <<>>
    BY <1>7
  <2> QED BY <2>1, <2>2
<1>10. ASSUME NEW k \in 1..n PROVE run[k] = AddLine(run[k - 1], s[k])
  <2> DEFINE P == 1..k
  <2>1. P \in SUBSET (1..n) /\ P # {} /\ Max(P) = k /\ P \ {k} = 1..k-1
    BY PrefixFacts
  <2>2. k \in 0..n /\ k - 1 \in 0..n
    OBVIOUS
  <2>3. run[k] = fold[P] /\ run[k - 1] = fold[1..k-1]
    BY <2>2
  <2> HIDE DEF P, run
  <2>4. fold[P] = AddLine(fold[P \ {Max(P)}], s[Max(P)])
    BY <1>7, <2>1
  <2> QED BY <2>1, <2>3, <2>4
<1> HIDE DEF run
<1> QED BY <1>8, <1>9, <1>10 DEF LineRun

(* A list no rule of normalizeStringList applies to.                       *)
IsName(text) == text # "" /\ TrimSpace(text) = text
Tidy(s) ==
    /\ s \in Seq(Texts)
    /\ \A i \in 1..Len(s) : IsName(s[i])
    /\ \A i, j \in 1..Len(s) : s[i] = s[j] => i = j
    /\ Len(s) <= MaxNames

LEMMA AddTidy ==
    ASSUME NEW out, Tidy(out), NEW v \in Texts
    PROVE  Tidy(AddName(out, v))
<1> DEFINE t == TrimSpace(v)
<1>1. t \in Texts /\ TrimSpace(t) = t
  BY TextsAssumption DEF TrimSpace
<1>2. CASE AddName(out, v) = out
  BY <1>2
<1>3. CASE AddName(out, v) # out
  <2>1. Len(out) \in Nat /\ MaxNames \in Nat
    BY NamesAssumption DEF Tidy
  <2>2. /\ AddName(out, v) = Append(out, t) /\ ~Contains(out, t)
        /\ ~(Len(out) >= MaxNames)
    BY <1>3 DEF AddName
  <2>3. t # ""
    BY <1>3 DEF AddName
  <2> HIDE DEF t
  <2> DEFINE a == Append(out, t)
  <2>4. out \in Seq(Texts)
    BY DEF Tidy
  <2>5. /\ a \in Seq(Texts) /\ Len(a) = Len(out) + 1 /\ a[Len(a)] = t
        /\ \A i \in 1..Len(out) : a[i] = out[i]
    BY <1>1, <2>4
  <2> HIDE DEF a
  <2>6. \A i \in 1..Len(a) : i \in 1..Len(out) \/ i = Len(a)
    BY <2>4, <2>5
  <2>7. \A i \in 1..Len(a) : IsName(a[i])
    <3>1. IsName(t)
      BY <1>1, <2>3 DEF IsName
    <3> QED BY <2>5, <2>6, <3>1 DEF Tidy
  <2>8. \A i, j \in 1..Len(a) : a[i] = a[j] => i = j
    BY <2>2, <2>5, <2>6 DEF Tidy, Contains
  <2>9. Len(a) <= MaxNames
    BY <2>1, <2>2, <2>5
  <2>10. Tidy(a)
    BY <2>5, <2>7, <2>8, <2>9 DEF Tidy
  <2> QED BY <2>2, <2>10 DEF a
<1> QED BY <1>2, <1>3

LEMMA NamesTidy ==
    ASSUME NEW s \in Seq(Texts)
    PROVE  Tidy(normalizeStringList(s))
<1> DEFINE n == Len(s)
<1>0. n \in Nat /\ \A k \in 1..n : s[k] \in Texts
  OBVIOUS
<1>1. PICK run : NameRun(run, s, n) /\ normalizeStringList(s) = run[n]
  BY NamesFold
<1> HIDE DEF n
<1> DEFINE U == {k \in 0..n : Tidy(run[k])}
<1>2. 0 \in U
  <2>1. Tidy(<<>>)
    BY NamesAssumption DEF Tidy
  <2> QED BY <1>0, <1>1, <2>1 DEF NameRun
<1>3. ASSUME NEW k \in 1..n, k - 1 \in U PROVE k \in U
  <2>1. Tidy(run[k])
    BY <1>0, <1>1, <1>3, AddTidy DEF NameRun
  <2> QED BY <1>0, <2>1
<1>4. n \in U
  <2> HIDE DEF U
  <2>1. 0..n \subseteq U
    BY <1>0, <1>2, <1>3, RangeInduction
  <2> QED BY <1>0, <2>1
<1> QED BY <1>1, <1>4

(* The list that a prefix of a tidy list is.                               *)
StartsAs(out, s, k) ==
    out \in Seq(Texts) /\ Len(out) = k /\ \A i \in 1..k : out[i] = s[i]

LEMMA PrefixGrows ==
    ASSUME NEW s, Tidy(s), NEW k \in 1..Len(s), NEW out, StartsAs(out, s, k - 1)
    PROVE  /\ StartsAs(AddName(out, s[k]), s, k)
           /\ StartsAs(AddLine(out, s[k]), s, k)
<1>0. /\ s \in Seq(Texts) /\ Len(s) \in Nat /\ s[k] \in Texts
      /\ out \in Seq(Texts) /\ Len(out) = k - 1
      /\ \A i \in 1..k-1 : out[i] = s[i]
  BY DEF Tidy, StartsAs
<1>1. TrimSpace(s[k]) = s[k] /\ s[k] # ""
  BY DEF Tidy, IsName
<1>2. ~Contains(out, s[k])
  <2>1. \A i \in 1..k-1 : i \in 1..Len(s) /\ i # k
    BY <1>0
  <2> QED BY <1>0, <2>1 DEF Contains, Tidy
<1>3. ~(Len(out) >= MaxNames)
  BY <1>0, NamesAssumption DEF Tidy
<1>4. /\ AddName(out, s[k]) = Append(out, s[k])
      /\ AddLine(out, s[k]) = Append(out, s[k])
  BY <1>1, <1>2, <1>3 DEF AddName, AddLine
<1>5. StartsAs(Append(out, s[k]), s, k)
  <2> DEFINE a == Append(out, s[k])
  <2>1. /\ a \in Seq(Texts) /\ Len(a) = k /\ a[k] = s[k]
        /\ \A i \in 1..k-1 : a[i] = out[i]
    BY <1>0
  <2> HIDE DEF a
  <2>2. \A i \in 1..k : i = k \/ i \in 1..k-1
    BY <1>0
  <2>3. StartsAs(a, s, k)
    BY <1>0, <2>1, <2>2 DEF StartsAs
  <2> QED BY <2>3 DEF a
<1> QED BY <1>4, <1>5

(* Neither the page nor the server changes a tidy list.                    *)
LEMMA TidyStays ==
    ASSUME NEW s, Tidy(s)
    PROVE  normalizeStringList(s) = s /\ splitLines(s) = s
<1> DEFINE n == Len(s)
<1>0. s \in Seq(Texts) /\ n \in Nat
  BY DEF Tidy
<1>1. PICK run : NameRun(run, s, n) /\ normalizeStringList(s) = run[n]
  BY <1>0, NamesFold
<1>2. PICK lines : LineRun(lines, s, n) /\ splitLines(s) = lines[n]
  BY <1>0, LinesFold
<1> DEFINE U == {k \in 0..n : StartsAs(run[k], s, k) /\ StartsAs(lines[k], s, k)}
<1>3. 0 \in U
  <2>1. StartsAs(<<>>, s, 0)
    BY DEF StartsAs
  <2> QED BY <1>0, <1>1, <1>2, <2>1 DEF NameRun, LineRun
<1>4. ASSUME NEW k \in 1..n, k - 1 \in U PROVE k \in U
  <2>1. StartsAs(run[k - 1], s, k - 1) /\ StartsAs(lines[k - 1], s, k - 1)
    BY <1>4
  <2>2. StartsAs(run[k], s, k)
    BY <1>1, <2>1, PrefixGrows DEF NameRun
  <2>3. StartsAs(lines[k], s, k)
    BY <1>2, <2>1, PrefixGrows DEF LineRun
  <2> QED BY <1>0, <2>2, <2>3
<1>5. StartsAs(run[n], s, n) /\ StartsAs(lines[n], s, n)
  <2> HIDE DEF U
  <2>1. 0..n \subseteq U
    BY <1>0, <1>3, <1>4, RangeInduction
  <2> QED BY <1>0, <2>1 DEF U
<1>6. \A out : StartsAs(out, s, n) => out = s
  BY <1>0 DEF StartsAs
<1> QED BY <1>1, <1>2, <1>5, <1>6

(* What the page sends of the lines that were typed is a list of names.    *)
LEMMA LinesTyped ==
    ASSUME NEW s \in Seq(Texts)
    PROVE  splitLines(s) \in Seq(Texts)
<1> DEFINE n == Len(s)
<1>0. n \in Nat /\ \A k \in 1..n : s[k] \in Texts
  OBVIOUS
<1>1. PICK run : LineRun(run, s, n) /\ splitLines(s) = run[n]
  BY LinesFold
<1> HIDE DEF n
<1> DEFINE U == {k \in 0..n : run[k] \in Seq(Texts)}
<1>2. 0 \in U
  <2>1. run[0] = <<>> /\ 0 \in 0..n
    BY <1>0, <1>1 DEF LineRun
  <2>2. <<>> \in Seq(Texts)
    OBVIOUS
  <2> QED BY <2>1, <2>2
<1>3. ASSUME NEW k \in 1..n, k - 1 \in U PROVE k \in U
  <2>1. run[k] = AddLine(run[k - 1], s[k]) /\ run[k - 1] \in Seq(Texts)
    BY <1>1, <1>3 DEF LineRun
  <2>2. run[k] \in Seq(Texts)
    BY <1>0, <2>1, AddFacts
  <2> QED BY <1>0, <2>2
<1>4. n \in U
  <2> HIDE DEF U
  <2>1. 0..n \subseteq U
    BY <1>0, <1>2, <1>3, RangeInduction
  <2> QED BY <1>0, <2>1
<1> QED BY <1>1, <1>4

-----------------------------------------------------------------------------
(* Documents. *)

LEMMA DefaultNamesTidy ==
    Tidy(<<"google.com", "cloudflare.com">>) /\ <<>> \in Seq(Texts)
<1>1. "google.com" \in Texts /\ "cloudflare.com" \in Texts
  BY TextsAssumption
<1>2. IsName("google.com") /\ IsName("cloudflare.com")
  BY DEF IsName, TrimSpace
<1>3. "google.com" # "cloudflare.com"
  OBVIOUS
<1>4. ASSUME NEW a \in Texts, NEW b \in Texts, IsName(a), IsName(b), a # b
      PROVE  Tidy(<<a, b>>)
  <2> DEFINE s == <<a, b>>
  <2>1. s \in Seq(Texts) /\ Len(s) = 2 /\ s[1] = a /\ s[2] = b
    OBVIOUS
  <2> HIDE DEF s
  <2>2. \A i \in 1..Len(s) : i = 1 \/ i = 2
    BY <2>1
  <2>3. Len(s) <= MaxNames
    BY <2>1, NamesAssumption
  <2> QED BY <1>4, <2>1, <2>2, <2>3 DEF Tidy
<1> QED BY <1>1, <1>2, <1>3, <1>4


LEMMA PartsFacts ==
    /\ "enabled" \in Parts /\ "dnsDomains" \in Parts
    /\ "routerTrafficUrl" \in Parts /\ Fields \subseteq Parts
    /\ {"enabled", "dnsDomains", "routerTrafficUrl"} \cap Fields = {}
    /\ \A p \in Parts \ Fields :
          p \in {"enabled", "dnsDomains", "routerTrafficUrl"}
BY FieldsAssumption DEF Parts, Least

LEMMA BoundFacts ==
    ASSUME NEW f \in Fields
    PROVE  /\ Least[f] \in Nat /\ Most[f] \in Int /\ Numbers[f] \in Nat
           /\ Most[f] >= 0 => Least[f] <= Most[f]
           /\ Numbers[f] >= Least[f]
           /\ Most[f] >= 0 => Numbers[f] <= Most[f]
BY FieldsAssumption DEF Least, Most, Numbers

LEMMA ClampFacts ==
    ASSUME NEW f \in Fields, NEW n \in Int
    PROVE  /\ Clamp(f, n) \in Nat
           /\ Clamp(f, n) >= Least[f]
           /\ Most[f] >= 0 => Clamp(f, n) <= Most[f]
BY BoundFacts DEF Clamp

(* Whatever document is sent, the stored one is complete and bounded.      *)
LEMMA NormalFacts ==
    ASSUME NEW doc, IsDoc(doc)
    PROVE  IsDoc(normalizeSettings(doc)) /\ Bounded(normalizeSettings(doc))
<1> DEFINE d == normalizeSettings(doc)
<1>1. \A f \in Fields : d[f] = Clamp(f, doc[f]) /\ doc[f] \in Int
  BY PartsFacts DEF normalizeSettings, IsDoc
<1>2. d["enabled"] = doc["enabled"]
  BY PartsFacts DEF normalizeSettings
<1>3. d["routerTrafficUrl"] = TrimSpace(doc["routerTrafficUrl"])
  BY PartsFacts DEF normalizeSettings
<1>4. d = [p \in Parts |-> d[p]]
  BY DEF normalizeSettings
<1>5. d["routerTrafficUrl"] \in Texts
  BY <1>3, TextsAssumption DEF TrimSpace, IsDoc
<1>6. d["dnsDomains"] \in Seq(Texts)
  <2>1. d["dnsDomains"] = normalizeStringList(doc["dnsDomains"])
    BY PartsFacts DEF normalizeSettings
  <2>2. doc["dnsDomains"] \in Seq(Texts)
    BY DEF IsDoc
  <2> QED BY <2>1, <2>2, NamesTidy DEF Tidy
<1> HIDE DEF d
<1>7. IsDoc(d)
  <2>1. d["enabled"] \in BOOLEAN
    BY <1>2 DEF IsDoc
  <2>2. \A f \in Fields : d[f] \in Int
    BY <1>1, ClampFacts
  <2> QED BY <1>4, <1>5, <1>6, <2>1, <2>2 DEF IsDoc
<1>8. Bounded(d)
  BY <1>1, ClampFacts DEF Bounded
<1> QED BY <1>7, <1>8 DEF d

LEMMA DefaultFacts ==
    /\ IsDoc(DefaultSettings) /\ Bounded(DefaultSettings)
    /\ Tidy(DefaultSettings["dnsDomains"]) /\ IsDoc(BlankForm)
<1>1. \A f \in Fields : DefaultSettings[f] = Numbers[f] /\ BlankForm[f] = 0
  BY PartsFacts DEF DefaultSettings, BlankForm
<1>2. /\ DefaultSettings["enabled"] = TRUE /\ BlankForm["enabled"] = FALSE
      /\ DefaultSettings["routerTrafficUrl"] = ""
      /\ BlankForm["routerTrafficUrl"] = ""
  BY PartsFacts DEF DefaultSettings, BlankForm
<1>3. /\ DefaultSettings = [p \in Parts |-> DefaultSettings[p]]
      /\ BlankForm = [p \in Parts |-> BlankForm[p]]
  BY DEF DefaultSettings, BlankForm
<1>4. /\ Tidy(DefaultSettings["dnsDomains"])
      /\ BlankForm["dnsDomains"] \in Seq(Texts)
  <2>1. /\ DefaultSettings["dnsDomains"] = <<"google.com", "cloudflare.com">>
        /\ BlankForm["dnsDomains"] = <<>>
    BY PartsFacts DEF DefaultSettings, BlankForm
  <2> QED BY <2>1, DefaultNamesTidy
<1>5. IsDoc(DefaultSettings)
  <2>1. \A f \in Fields : DefaultSettings[f] \in Int
    BY <1>1, BoundFacts
  <2>2. DefaultSettings["dnsDomains"] \in Seq(Texts)
    BY <1>4 DEF Tidy
  <2> QED BY <1>2, <1>3, <2>1, <2>2, TextsAssumption DEF IsDoc
<1>6. Bounded(DefaultSettings)
  BY <1>1, BoundFacts DEF Bounded
<1>7. IsDoc(BlankForm)
  <2>1. \A f \in Fields : BlankForm[f] \in Int
    BY <1>1
  <2> QED BY <1>2, <1>3, <1>4, <2>1, TextsAssumption DEF IsDoc
<1> QED BY <1>4, <1>5, <1>6, <1>7

(* What an answer leaves in the form.                                      *)
LEMMA FillFacts ==
    ASSUME NEW form, NEW doc, IsDoc(form), IsDoc(doc)
    PROVE  /\ IsDoc(Fill(form, doc))
           /\ \A p \in Parts : Shows(Fill(form, doc), doc, p)
<1>1. \A p \in Parts : Fill(form, doc)[p] =
         IF p = "routerTrafficUrl" /\ doc[p] = "" THEN form[p] ELSE doc[p]
  BY PartsFacts DEF Fill, IsDoc
<1>2. Fill(form, doc) = [p \in Parts |-> Fill(form, doc)[p]]
  BY PartsFacts DEF Fill, IsDoc
<1> QED BY <1>1, <1>2, PartsFacts DEF IsDoc, Shows

(* What a save sends.                                                      *)
LEMMA PostedFacts ==
    ASSUME NEW form, IsDoc(form)
    PROVE  /\ IsDoc(Posted(form))
           /\ \A p \in Parts \ {"dnsDomains"} : Posted(form)[p] = form[p]
           /\ Posted(form)["dnsDomains"] = splitLines(form["dnsDomains"])
<1>1. \A p \in Parts \ {"dnsDomains"} : Posted(form)[p] = form[p]
  BY DEF Posted, IsDoc
<1>2. Posted(form) = [p \in Parts |-> Posted(form)[p]]
  BY PartsFacts DEF Posted, IsDoc
<1>3. /\ \A f \in Fields : Posted(form)[f] \in Int
      /\ Posted(form)["enabled"] \in BOOLEAN
      /\ Posted(form)["routerTrafficUrl"] \in Texts
  BY <1>1, PartsFacts DEF IsDoc
<1>4. /\ Posted(form)["dnsDomains"] = splitLines(form["dnsDomains"])
      /\ form["dnsDomains"] \in Seq(Texts)
  BY PartsFacts DEF Posted, IsDoc
<1>5. Posted(form)["dnsDomains"] \in Seq(Texts)
  BY <1>4, LinesTyped
<1> QED BY <1>1, <1>2, <1>3, <1>4, <1>5 DEF IsDoc

-----------------------------------------------------------------------------
(* The page. *)

(* What a page, a save and a load are; the three predicates are PageTypeOK *)
(* taken apart.                                                            *)
PageOK(pg, v) ==
    /\ pg = [form |-> pg.form, touched |-> pg.touched, seen |-> pg.seen]
    /\ IsDoc(pg.form) /\ pg.touched \subseteq Parts /\ pg.seen \in -1..v
SaveOK(s, v) ==
    /\ s = [stage |-> s.stage, toggle |-> s.toggle, seen |-> s.seen,
            typed |-> s.typed, doc |-> s.doc, was |-> s.was]
    /\ s.stage \in {"none", "sent", "answered", "failed"}
    /\ s.toggle \in BOOLEAN /\ s.was \in BOOLEAN
    /\ IsDoc(s.doc) /\ s.typed \subseteq Parts /\ s.seen \in -1..v
LoadOK(l, v) ==
    /\ l = [stage |-> l.stage, seen |-> l.seen, doc |-> l.doc]
    /\ l.stage \in {"none", "sent", "answered"}
    /\ IsDoc(l.doc) /\ l.seen \in -1..v
LoadsOK(ls, v) ==
    DOMAIN ls = 1..MaxLoads /\ \A i \in 1..MaxLoads : LoadOK(ls[i], v)

LEMMA PageParts ==
    PageTypeOK <=> /\ IsDoc(settings) /\ Bounded(settings) /\ version \in Nat
                   /\ PageOK(page, version) /\ SaveOK(save, version)
                   /\ LoadsOK(loads, version)
BY DEF PageTypeOK, PageOK, SaveOK, LoadsOK, LoadOK

(* A save leaves everything typed.                                         *)
LEMMA SaveTyped ==
    ASSUME PageTypeOK, NEW doc, IsDoc(doc), Save(doc)
    PROVE  /\ IsDoc(settings') /\ Bounded(settings')
           /\ version' \in Nat /\ version' = version + 1
           /\ PageOK(page, version') /\ SaveOK(save, version')
           /\ LoadsOK(loads, version')
<1>1. IsDoc(settings') /\ Bounded(settings')
  BY NormalFacts DEF Save
<1>2. version \in Nat /\ version' = version + 1
  BY DEF Save, PageTypeOK
<1>3. -1..version \subseteq -1..version'
  BY <1>2
<1>4. PageOK(page, version') /\ SaveOK(save, version')
  BY <1>3, PageParts DEF PageOK, SaveOK
<1>5. LoadsOK(loads, version')
  BY <1>3, PageParts DEF LoadsOK, LoadOK
<1> QED BY <1>1, <1>2, <1>4, <1>5

LEMMA NoSaveTyped == ASSUME version \in Nat PROVE SaveOK(NoSave, version)
BY DefaultFacts DEF SaveOK, NoSave
LEMMA NoLoadTyped == ASSUME version \in Nat PROVE LoadOK(NoLoad, version)
BY DefaultFacts DEF LoadOK, NoLoad

(* One load changes.                                                       *)
LEMMA OneLoad ==
    ASSUME PageTypeOK, NEW i \in 1..MaxLoads, NEW l, LoadOK(l, version),
           loads' = [loads EXCEPT ![i] = l]
    PROVE  LoadsOK(loads', version)
BY PageParts DEF LoadsOK

(* An answer fills the form.                                               *)
LEMMA FilledTyped ==
    ASSUME PageTypeOK, NEW doc, IsDoc(doc), NEW seen \in -1..version,
           Filled(doc, seen)
    PROVE  /\ PageOK(page', version) /\ page'.touched = {}
           /\ page'.seen = seen /\ page'.form = Fill(page.form, doc)
<1>1. IsDoc(page.form)
  BY DEF PageTypeOK
<1>2. page' = [form |-> Fill(page.form, doc), touched |-> {}, seen |-> seen]
  BY DEF Filled
<1> QED BY <1>1, <1>2, FillFacts DEF PageOK

LEMMA PageInitTyped == PageInit => PageTypeOK
<1> SUFFICES ASSUME PageInit PROVE PageTypeOK
  OBVIOUS
<1>1. /\ settings = DefaultSettings /\ version = 0
      /\ page = [form |-> BlankForm, touched |-> {}, seen |-> -1]
      /\ save = NoSave /\ loads = [i \in 1..MaxLoads |-> NoLoad]
  BY DEF PageInit
<1>2. PageOK(page, version)
  BY <1>1, DefaultFacts DEF PageOK
<1>3. SaveOK(save, version)
  BY <1>1, NoSaveTyped
<1>4. LoadsOK(loads, version)
  BY <1>1, NoLoadTyped DEF LoadsOK
<1> QED BY <1>1, <1>2, <1>3, <1>4, DefaultFacts, PageParts

LEMMA PageStepTyped ==
    ASSUME PageTypeOK, [PageNext]_pageVars
    PROVE  PageTypeOK'
<1> DEFINE Old == /\ IsDoc(settings) /\ Bounded(settings)
                  /\ version \in Nat /\ PageOK(page, version)
                  /\ SaveOK(save, version) /\ LoadsOK(loads, version)
           New == /\ IsDoc(settings') /\ Bounded(settings')
                  /\ version' \in Nat /\ PageOK(page', version')
                  /\ SaveOK(save', version') /\ LoadsOK(loads', version')
<1>1. Old
  BY PageParts
<1>2. SUFFICES New
  BY DEF PageTypeOK, PageOK, SaveOK, LoadsOK, LoadOK
<1>3. ASSUME NEW t \in Typing, Type(t[1], t[2])
      PROVE  New
  <2>1. page' = [page EXCEPT !.form[t[1]] = t[2],
                             !.touched = @ \cup {t[1]}]
    BY <1>3 DEF Type
  <2>2. t[1] \in Parts \ {"enabled"}
    BY TypingAssumption
  <2> DEFINE new == [page.form EXCEPT ![t[1]] = t[2]]
  <2>3. page' = [form |-> new, touched |-> page.touched \cup {t[1]},
                 seen |-> page.seen]
    BY <1>1, <2>1 DEF PageOK
  <2>4. IsDoc(new)
    <3>1. page.form = [p \in Parts |-> page.form[p]]
      BY <1>1 DEF PageOK, IsDoc
    <3>2. \A p \in Parts : new[p] = IF p = t[1] THEN t[2] ELSE page.form[p]
      BY <3>1
    <3>3. new = [p \in Parts |-> new[p]]
      BY <3>1
    <3> HIDE DEF new
    <3>4. \A f \in Fields : new[f] \in Int
      <4>1. t[1] \in Fields => t[2] \in Int
        BY TypingAssumption
      <4> QED BY <1>1, <3>2, <4>1, PartsFacts DEF PageOK, IsDoc
    <3>5. new["enabled"] \in BOOLEAN
      BY <1>1, <2>2, <3>2, PartsFacts DEF PageOK, IsDoc
    <3>6. new["routerTrafficUrl"] \in Texts
      BY <1>1, <3>2, TypingAssumption, PartsFacts DEF PageOK, IsDoc
    <3>7. new["dnsDomains"] \in Seq(Texts)
      BY <1>1, <3>2, TypingAssumption, PartsFacts DEF PageOK, IsDoc
    <3> QED BY <3>3, <3>4, <3>5, <3>6, <3>7 DEF IsDoc
  <2> HIDE DEF new
  <2>5. PageOK(page', version)
    BY <1>1, <2>2, <2>3, <2>4 DEF PageOK
  <2> QED BY <1>1, <1>3, <2>5 DEF Type
<1>4. CASE Submit
  <2>1. save' = [stage |-> "sent", toggle |-> FALSE, seen |-> page.seen,
                 typed |-> page.touched, doc |-> Posted(page.form),
                 was |-> FALSE]
    BY <1>4 DEF Submit, NoSave
  <2>2. SaveOK(save', version)
    BY <1>1, <2>1, PostedFacts DEF SaveOK, PageOK
  <2> QED BY <1>1, <1>4, <2>2 DEF Submit
<1>5. CASE Toggle
  <2> DEFINE form == [page.form EXCEPT !["enabled"] = ~@]
  <2>1. IsDoc(form)
    BY <1>1, PartsFacts DEF PageOK, IsDoc
  <2>2. /\ page' = [page EXCEPT !.form = form,
                                !.touched = @ \cup {"enabled"}]
        /\ save' = [stage |-> "sent", toggle |-> TRUE, seen |-> page.seen,
                    typed |-> page.touched, doc |-> Posted(form),
                    was |-> page.form["enabled"]]
        /\ UNCHANGED <<settings, version, loads>>
    BY <1>5 DEF Toggle
  <2> HIDE DEF form
  <2>3. page' = [form |-> form, touched |-> page.touched \cup {"enabled"},
                 seen |-> page.seen]
    BY <1>1, <2>2 DEF PageOK
  <2>4. PageOK(page', version)
    BY <1>1, <2>1, <2>3, PartsFacts DEF PageOK
  <2>5. page.form["enabled"] \in BOOLEAN
    BY <1>1 DEF PageOK, IsDoc
  <2>6. SaveOK(save', version)
    BY <1>1, <2>1, <2>2, <2>5, PostedFacts DEF SaveOK, PageOK
  <2> QED BY <1>1, <2>2, <2>4, <2>6
<1>6. CASE ServeSave
  <2>1. Save(save.doc) /\ IsDoc(save.doc) /\ UNCHANGED <<page, loads>>
        /\ save' = [save EXCEPT !.stage = "answered", !.seen = version',
                                !.doc = settings']
    BY <1>1, <1>6 DEF ServeSave, SaveOK
  <2>2. /\ IsDoc(settings') /\ Bounded(settings') /\ version' \in Nat
        /\ PageOK(page, version') /\ SaveOK(save, version')
        /\ LoadsOK(loads, version')
    BY <2>1, SaveTyped
  <2>3. save' = [stage |-> "answered", toggle |-> save.toggle,
                 seen |-> version', typed |-> save.typed, doc |-> settings',
                 was |-> save.was]
    BY <1>1, <2>1 DEF SaveOK
  <2>4. version' \in -1..version'
    BY <2>2
  <2>5. SaveOK(save', version')
    BY <2>2, <2>3, <2>4 DEF SaveOK
  <2> QED BY <2>1, <2>2, <2>5
<1>7. CASE SaveFails
  <2>1. /\ save' = [save EXCEPT !.stage = "failed"]
        /\ Save(save.doc) \/ UNCHANGED <<settings, version>>
        /\ UNCHANGED <<page, loads>> /\ IsDoc(save.doc)
    BY <1>1, <1>7 DEF SaveFails, SaveOK
  <2>2. /\ IsDoc(settings') /\ Bounded(settings') /\ version' \in Nat
        /\ PageOK(page, version') /\ SaveOK(save, version')
        /\ LoadsOK(loads, version')
    BY <1>1, <2>1, SaveTyped
  <2>3. SaveOK(save', version')
    BY <2>1, <2>2 DEF SaveOK
  <2> QED BY <2>1, <2>2, <2>3
<1>8. CASE SaveAnswered
  <2>1. /\ save' = NoSave /\ Filled(save.doc, save.seen)
        /\ UNCHANGED <<settings, version, loads>>
    BY <1>8 DEF SaveAnswered
  <2>2. PageOK(page', version)
    BY <1>1, <2>1, FilledTyped DEF SaveOK
  <2> QED BY <1>1, <2>1, <2>2, NoSaveTyped
<1>9. CASE SaveRefused
  <2>1. save' = NoSave /\ UNCHANGED <<settings, version, loads>>
    BY <1>9 DEF SaveRefused
  <2>2. PageOK(page', version)
    <3>1. CASE ~save.toggle
      BY <1>1, <1>9, <3>1 DEF SaveRefused
    <3>2. CASE save.toggle
      <4> DEFINE new == [page.form EXCEPT !["enabled"] = save.was]
      <4>1. IsDoc(new)
        BY <1>1, PartsFacts DEF PageOK, SaveOK, IsDoc
      <4>2. PICK touched \in SUBSET Parts :
               page' = [page EXCEPT !.form["enabled"] = save.was,
                                    !.touched = touched]
        <5>1. page.touched \cup {"enabled"} \in SUBSET Parts
              /\ page.touched \ {"enabled"} \in SUBSET Parts
          BY <1>1, PartsFacts DEF PageOK
        <5> QED BY <1>9, <3>2, <5>1 DEF SaveRefused
      <4>3. page' = [form |-> new, touched |-> touched, seen |-> page.seen]
        BY <1>1, <4>2 DEF PageOK
      <4> HIDE DEF new
      <4> QED BY <1>1, <4>1, <4>3 DEF PageOK
    <3> QED BY <3>1, <3>2
  <2> QED BY <1>1, <2>1, <2>2, NoSaveTyped
<1>10. ASSUME NEW i \in 1..MaxLoads, Reload(i) PROVE New
  <2>1. LoadOK(loads[i], version)
    BY <1>1 DEF LoadsOK
  <2> DEFINE new == [loads[i] EXCEPT !.stage = "sent"]
  <2>2. LoadOK(new, version)
    BY <2>1 DEF LoadOK
  <2>3. loads' = [loads EXCEPT ![i] = new]
    BY <1>10 DEF Reload
  <2> HIDE DEF new
  <2> QED BY <1>1, <1>10, <2>2, <2>3, OneLoad DEF Reload
<1>11. ASSUME NEW i \in 1..MaxLoads, ServeLoad(i) PROVE New
  <2> DEFINE new == [stage |-> "answered", seen |-> version,
                     doc |-> settings]
  <2>1. LoadOK(new, version)
    BY <1>1 DEF LoadOK
  <2>2. loads' = [loads EXCEPT ![i] = new]
    BY <1>11 DEF ServeLoad
  <2> HIDE DEF new
  <2> QED BY <1>1, <1>11, <2>1, <2>2, OneLoad DEF ServeLoad
<1>12. ASSUME NEW i \in 1..MaxLoads, LoadFails(i) PROVE New
  <2>1. loads' = [loads EXCEPT ![i] = NoLoad]
    BY <1>12 DEF LoadFails
  <2> QED BY <1>1, <1>12, <2>1, OneLoad, NoLoadTyped DEF LoadFails
<1>13. ASSUME NEW i \in 1..MaxLoads, LoadAnswered(i) PROVE New
  <2>1. /\ loads' = [loads EXCEPT ![i] = NoLoad]
        /\ Filled(loads[i].doc, loads[i].seen)
        /\ UNCHANGED <<settings, version, save>>
    BY <1>13 DEF LoadAnswered
  <2>2. PageOK(page', version)
    BY <1>1, <2>1, FilledTyped DEF LoadsOK, LoadOK
  <2>3. LoadsOK(loads', version)
    BY <1>1, <2>1, OneLoad, NoLoadTyped
  <2> QED BY <1>1, <2>1, <2>2, <2>3
<1>14. ASSUME NEW doc \in Foreign, ForeignSave(doc) PROVE New
  BY <1>14, SaveTyped, ForeignAssumption DEF ForeignSave
<1>15. CASE UNCHANGED pageVars
  BY <1>1, <1>15 DEF pageVars
<1> QED BY <1>3, <1>4, <1>5, <1>6, <1>7, <1>8, <1>9, <1>10, <1>11, <1>12,
           <1>13, <1>14, <1>15 DEF PageNext

-----------------------------------------------------------------------------
(* What the page shows. *)

(* The stored document is a normal one: neither the server nor the page    *)
(* would change it.                                                        *)
Normal(doc) ==
    /\ \A p \in Parts : normalizeSettings(doc)[p] = doc[p]
    /\ splitLines(doc["dnsDomains"]) = doc["dnsDomains"]

(* An answer or a save under way that is as new as the document agrees     *)
(* with it, and the page does.                                             *)
LoadsAgree ==
    \A i \in 1..MaxLoads :
        loads[i].stage = "answered" /\ loads[i].seen = version =>
            loads[i].doc = settings
SaveAgrees ==
    /\ save.stage = "answered" /\ save.seen = version => save.doc = settings
    /\ /\ save.stage \in {"sent", "failed"} /\ save.toggle
       /\ save.seen = version /\ "enabled" \notin save.typed
       => save.was = settings["enabled"]
    /\ save.stage = "sent" /\ save.seen = version =>
          \A p \in Parts \ Sent : Shows(save.doc, settings, p)
Agree == /\ PageTypeOK /\ Normal(settings)
         /\ PageAgrees /\ LoadsAgree /\ SaveAgrees

(* normalizeSettings is idempotent.                                        *)
LEMMA NormalizedIsNormal ==
    ASSUME NEW doc, IsDoc(doc)
    PROVE  Normal(normalizeSettings(doc))
<1> DEFINE d == normalizeSettings(doc)
<1>1. \A f \in Fields : d[f] = Clamp(f, doc[f]) /\ doc[f] \in Int
  BY PartsFacts DEF normalizeSettings, IsDoc
<1>2. d["routerTrafficUrl"] = TrimSpace(doc["routerTrafficUrl"])
  BY PartsFacts DEF normalizeSettings
<1>3. Tidy(d["dnsDomains"])
  <2>1. d["dnsDomains"] = normalizeStringList(doc["dnsDomains"])
    BY PartsFacts DEF normalizeSettings
  <2> QED BY <2>1, NamesTidy DEF IsDoc
<1> HIDE DEF d
<1>4. \A f \in Fields : Clamp(f, d[f]) = d[f]
  BY <1>1, BoundFacts, ClampFacts DEF Clamp
<1>5. TrimSpace(d["routerTrafficUrl"]) = d["routerTrafficUrl"]
  BY <1>2 DEF TrimSpace
<1>6. \A f \in Fields : normalizeSettings(d)[f] = Clamp(f, d[f])
  BY PartsFacts DEF normalizeSettings
<1>7. /\ normalizeSettings(d)["enabled"] = d["enabled"]
      /\ normalizeSettings(d)["routerTrafficUrl"]
           = TrimSpace(d["routerTrafficUrl"])
      /\ normalizeSettings(d)["dnsDomains"] = normalizeStringList(d["dnsDomains"])
  BY PartsFacts DEF normalizeSettings
<1>8. /\ normalizeStringList(d["dnsDomains"]) = d["dnsDomains"]
      /\ splitLines(d["dnsDomains"]) = d["dnsDomains"]
  BY <1>3, TidyStays
<1>9. Normal(d)
  BY <1>4, <1>5, <1>6, <1>7, <1>8, PartsFacts DEF Normal
<1> QED BY <1>9 DEF d

(* What is stored is not changed by storing it again.                      *)
THEOREM NormalizeTwice ==
    \A doc : IsDoc(doc) =>
        normalizeSettings(normalizeSettings(doc)) = normalizeSettings(doc)
<1> SUFFICES ASSUME NEW doc, IsDoc(doc)
             PROVE  normalizeSettings(normalizeSettings(doc))
                      = normalizeSettings(doc)
  OBVIOUS
<1> DEFINE once == normalizeSettings(doc)
           twice == normalizeSettings(once)
<1>1. \A p \in Parts : twice[p] = once[p]
  BY NormalizedIsNormal DEF Normal
<1>2. /\ once = [p \in Parts |-> once[p]]
      /\ twice = [p \in Parts |-> twice[p]]
  BY DEF normalizeSettings
<1> HIDE DEF once, twice
<1>3. twice = once
  BY <1>1, <1>2
<1> QED BY <1>3 DEF once, twice

LEMMA DefaultIsNormal == Normal(DefaultSettings)
<1>1. \A f \in Fields : Clamp(f, Numbers[f]) = Numbers[f]
  BY BoundFacts DEF Clamp
<1>2. \A f \in Fields :
         /\ DefaultSettings[f] = Numbers[f]
         /\ normalizeSettings(DefaultSettings)[f]
              = Clamp(f, DefaultSettings[f])
  BY PartsFacts DEF DefaultSettings, normalizeSettings
<1>3. /\ DefaultSettings["routerTrafficUrl"] = ""
      /\ normalizeSettings(DefaultSettings)["routerTrafficUrl"]
           = TrimSpace(DefaultSettings["routerTrafficUrl"])
      /\ normalizeSettings(DefaultSettings)["enabled"]
           = DefaultSettings["enabled"]
      /\ normalizeSettings(DefaultSettings)["dnsDomains"]
           = normalizeStringList(DefaultSettings["dnsDomains"])
  BY PartsFacts DEF DefaultSettings, normalizeSettings
<1>4. LET names == DefaultSettings["dnsDomains"]
      IN  normalizeStringList(names) = names /\ splitLines(names) = names
  BY DefaultFacts, TidyStays
<1>5. ASSUME NEW p \in Parts
      PROVE  normalizeSettings(DefaultSettings)[p] = DefaultSettings[p]
  <2>1. CASE p \in Fields
    BY <1>1, <1>2, <2>1
  <2>2. CASE p \in {"enabled", "dnsDomains", "routerTrafficUrl"}
    BY <1>3, <1>4, <2>2 DEF TrimSpace
  <2> QED BY <2>1, <2>2 DEF Parts
<1> QED BY <1>4, <1>5 DEF Normal

(* What the page sends of a part that shows a normal document shows it.    *)
LEMMA PostedAgrees ==
    ASSUME NEW form, IsDoc(form), NEW doc, Normal(doc),
           NEW p \in Parts, Shows(form, doc, p)
    PROVE  Shows(Posted(form), doc, p)
<1>1. CASE p = "dnsDomains"
  BY <1>1, PostedFacts DEF Shows, Normal
<1>2. CASE p # "dnsDomains"
  BY <1>2, PostedFacts DEF Shows
<1> QED BY <1>1, <1>2

LEMMA AgreeInit == PageInit => Agree
<1> SUFFICES ASSUME PageInit PROVE Agree
  OBVIOUS
<1>1. settings = DefaultSettings /\ version = 0 /\ page.seen = -1
      /\ save.stage = "none" /\ loads = [i \in 1..MaxLoads |-> NoLoad]
  BY DEF PageInit, NoSave
<1>2. LoadsAgree
  BY <1>1 DEF LoadsAgree, NoLoad
<1> QED BY <1>1, <1>2, PageInitTyped, DefaultIsNormal
        DEF Agree, PageAgrees, SaveAgrees

(* A save makes everything that was seen before it old.                    *)
LEMMA SaveMakesOld ==
    ASSUME PageTypeOK, NEW doc, IsDoc(doc), Save(doc)
    PROVE  /\ page.seen # version' /\ save.seen # version'
           /\ \A i \in 1..MaxLoads : loads[i].seen # version'
           /\ Normal(settings')
BY NormalizedIsNormal DEF PageTypeOK, Save

(* An answer that agrees with the document fills the page with it.         *)
LEMMA FilledAgrees ==
    ASSUME PageTypeOK, NEW doc, IsDoc(doc), NEW seen \in -1..version,
           Filled(doc, seen), UNCHANGED <<settings, version>>,
           seen = version => doc = settings
    PROVE  PageAgrees'
<1>1. /\ page'.seen = seen /\ page'.form = Fill(page.form, doc)
  BY FilledTyped
<1>2. \A p \in Parts : Shows(Fill(page.form, doc), doc, p)
  BY FillFacts DEF PageTypeOK
<1> QED BY <1>1, <1>2 DEF PageAgrees

LEMMA AgreeStep ==
    ASSUME Agree, [PageNext]_pageVars
    PROVE  Agree'
<1>1. PageTypeOK /\ PageTypeOK'
  BY PageStepTyped DEF Agree
<1>2. SUFFICES /\ Normal(settings)' /\ PageAgrees'
               /\ LoadsAgree' /\ SaveAgrees'
  BY <1>1 DEF Agree
<1> DEFINE Rest == Normal(settings)' /\ PageAgrees' /\ LoadsAgree' /\ SaveAgrees'
<1>3. ASSUME NEW t \in Typing, Type(t[1], t[2])
      PROVE  Rest
  <2>1. /\ page' = [page EXCEPT !.form[t[1]] = t[2],
                                !.touched = @ \cup {t[1]}]
        /\ UNCHANGED <<settings, version, save, loads>>
    BY <1>3 DEF Type
  <2>2. /\ page'.seen = page.seen
        /\ page'.touched = page.touched \cup {t[1]}
        /\ \A p \in Parts \ {t[1]} : page'.form[p] = page.form[p]
    BY <1>1, <2>1 DEF PageTypeOK, IsDoc
  <2>3. PageAgrees'
    BY <2>1, <2>2 DEF Agree, PageAgrees, Shows
  <2> QED BY <2>1, <2>3 DEF Agree, LoadsAgree, SaveAgrees, Sent, Normal
<1>4. CASE Submit
  <2>1. /\ save' = [stage |-> "sent", toggle |-> FALSE, seen |-> page.seen,
                    typed |-> page.touched, doc |-> Posted(page.form),
                    was |-> FALSE]
        /\ UNCHANGED <<settings, version, page, loads>>
    BY <1>4 DEF Submit, NoSave
  <2>2. save'.seen = version' =>
           \A p \in Parts \ Sent' : Shows(save'.doc, settings', p)
    <3>1. Sent' = page.touched
      BY <2>1 DEF Sent
    <3>2. IsDoc(page.form)
      BY <1>1 DEF PageTypeOK
    <3>3. ASSUME page.seen = version, NEW p \in Parts \ page.touched
          PROVE  Shows(Posted(page.form), settings, p)
      BY <3>2, <3>3, PostedAgrees DEF Agree, PageAgrees
    <3> QED BY <2>1, <3>1, <3>3 DEF Shows
  <2>3. SaveAgrees'
    BY <2>1, <2>2 DEF SaveAgrees
  <2> QED BY <2>1, <2>3 DEF Agree, PageAgrees, LoadsAgree, Normal
<1>5. CASE Toggle
  <2> DEFINE form == [page.form EXCEPT !["enabled"] = ~@]
  <2>1. /\ page' = [page EXCEPT !.form = form,
                                !.touched = @ \cup {"enabled"}]
        /\ save' = [stage |-> "sent", toggle |-> TRUE, seen |-> page.seen,
                    typed |-> page.touched, doc |-> Posted(form),
                    was |-> page.form["enabled"]]
        /\ UNCHANGED <<settings, version, loads>>
    BY <1>5 DEF Toggle
  <2>2. IsDoc(form) /\ \A p \in Parts \ {"enabled"} : form[p] = page.form[p]
    BY <1>1, PartsFacts DEF PageTypeOK, IsDoc
  <2> HIDE DEF form
  <2>3. /\ page'.seen = page.seen /\ page'.form = form
        /\ page'.touched = page.touched \cup {"enabled"}
    BY <1>1, <2>1 DEF PageTypeOK
  <2>4. PageAgrees'
    BY <2>1, <2>2, <2>3 DEF Agree, PageAgrees, Shows
  <2>5. page.seen = version /\ "enabled" \notin page.touched =>
           page.form["enabled"] = settings["enabled"]
    BY PartsFacts DEF Agree, PageAgrees, Shows
  <2>6. page.seen = version =>
           \A p \in Parts \ Sent' : Shows(save'.doc, settings', p)
    <3>1. Sent' = page.touched \cup {"enabled"}
      BY <2>1 DEF Sent
    <3>2. ASSUME page.seen = version,
                 NEW p \in Parts \ (page.touched \cup {"enabled"})
          PROVE  Shows(Posted(form), settings, p)
      <4>1. Shows(form, settings, p)
        BY <2>2, <3>2 DEF Agree, PageAgrees, Shows
      <4> QED BY <2>2, <4>1, PostedAgrees DEF Agree
    <3> QED BY <2>1, <3>1, <3>2 DEF Shows
  <2>7. SaveAgrees'
    BY <2>1, <2>5, <2>6 DEF SaveAgrees
  <2> QED BY <2>1, <2>4, <2>7 DEF Agree, LoadsAgree, Normal
<1>6. CASE ServeSave
  <2>1. /\ Save(save.doc) /\ IsDoc(save.doc) /\ UNCHANGED <<page, loads>>
        /\ save' = [save EXCEPT !.stage = "answered", !.seen = version',
                                !.doc = settings']
    BY <1>1, <1>6 DEF ServeSave, PageTypeOK
  <2>2. save'.stage = "answered" /\ save'.doc = settings'
    BY <1>1, <2>1 DEF PageTypeOK
  <2>3. SaveAgrees'
    BY <2>2 DEF SaveAgrees
  <2> QED BY <1>1, <2>1, <2>3, SaveMakesOld
          DEF PageAgrees, LoadsAgree, Normal
<1>7. CASE SaveFails
  <2>1. /\ save' = [save EXCEPT !.stage = "failed"]
        /\ Save(save.doc) \/ UNCHANGED <<settings, version>>
        /\ UNCHANGED <<page, loads>> /\ save.stage = "sent"
        /\ IsDoc(save.doc)
    BY <1>1, <1>7 DEF SaveFails, PageTypeOK
  <2>2. /\ save'.stage = "failed" /\ save'.toggle = save.toggle
        /\ save'.seen = save.seen /\ save'.typed = save.typed
        /\ save'.was = save.was
    BY <1>1, <2>1 DEF PageTypeOK
  <2>3. CASE Save(save.doc)
    BY <1>1, <2>1, <2>2, <2>3, SaveMakesOld
       DEF PageAgrees, LoadsAgree, SaveAgrees, Normal
  <2>4. CASE UNCHANGED <<settings, version>>
    BY <2>1, <2>2, <2>4 DEF Agree, PageAgrees, LoadsAgree, SaveAgrees, Normal
  <2> QED BY <2>1, <2>3, <2>4
<1>8. CASE SaveAnswered
  <2>1. /\ save' = NoSave /\ Filled(save.doc, save.seen)
        /\ UNCHANGED <<settings, version, loads>>
        /\ save.stage = "answered"
    BY <1>8 DEF SaveAnswered
  <2>2. PageAgrees'
    BY <1>1, <2>1, FilledAgrees DEF Agree, SaveAgrees, PageTypeOK
  <2>3. SaveAgrees'
    BY <2>1 DEF SaveAgrees, NoSave
  <2> QED BY <2>1, <2>2, <2>3 DEF Agree, LoadsAgree, Normal
<1>9. CASE SaveRefused
  <2>1. /\ save' = NoSave /\ UNCHANGED <<settings, version, loads>>
        /\ save.stage = "failed"
    BY <1>9 DEF SaveRefused
  <2>2. SaveAgrees'
    BY <2>1 DEF SaveAgrees, NoSave
  <2>3. PageAgrees'
    <3>1. CASE ~save.toggle
      BY <1>9, <3>1 DEF SaveRefused, Agree, PageAgrees
    <3>2. CASE save.toggle
      <4>1. /\ page'.seen = page.seen
            /\ page'.form["enabled"] = save.was
            /\ \A p \in Parts \ {"enabled"} : page'.form[p] = page.form[p]
            /\ page'.touched =
                 IF page.seen # save.seen \/ "enabled" \in save.typed
                 THEN page.touched \cup {"enabled"}
                 ELSE page.touched \ {"enabled"}
        BY <1>1, <1>9, <3>2, PartsFacts DEF SaveRefused, PageTypeOK, IsDoc
      <4>2. \A p \in Parts \ {"enabled"} :
               page.seen = version /\ p \notin page.touched =>
                   Shows(page'.form, settings, p)
        BY <4>1 DEF Agree, PageAgrees, Shows
      <4>3. page.seen = version /\ "enabled" \notin page'.touched =>
               save.was = settings["enabled"]
        BY <2>1, <3>2, <4>1 DEF Agree, SaveAgrees
      <4> QED BY <2>1, <4>1, <4>2, <4>3 DEF PageAgrees, Shows
    <3> QED BY <3>1, <3>2
  <2> QED BY <2>1, <2>2, <2>3 DEF Agree, LoadsAgree, Normal
<1>10. ASSUME NEW i \in 1..MaxLoads, Reload(i) PROVE Rest
  <2>1. /\ loads' = [loads EXCEPT ![i].stage = "sent"]
        /\ UNCHANGED <<settings, version, page, save>>
    BY <1>10 DEF Reload
  <2>2. /\ loads'[i].stage = "sent"
        /\ \A k \in 1..MaxLoads \ {i} : loads'[k] = loads[k]
    BY <1>1, <2>1 DEF PageTypeOK
  <2>3. LoadsAgree'
    BY <2>1, <2>2 DEF Agree, LoadsAgree
  <2> QED BY <2>1, <2>3 DEF Agree, PageAgrees, SaveAgrees, Sent, Normal
<1>11. ASSUME NEW i \in 1..MaxLoads, ServeLoad(i) PROVE Rest
  <2>1. /\ loads' = [loads EXCEPT ![i] = [stage |-> "answered",
                                          seen |-> version,
                                          doc |-> settings]]
        /\ UNCHANGED <<settings, version, page, save>>
    BY <1>11 DEF ServeLoad
  <2>2. /\ loads'[i].doc = settings
        /\ \A k \in 1..MaxLoads \ {i} : loads'[k] = loads[k]
    BY <1>1, <2>1 DEF PageTypeOK
  <2>3. LoadsAgree'
    BY <2>1, <2>2 DEF Agree, LoadsAgree
  <2> QED BY <2>1, <2>3 DEF Agree, PageAgrees, SaveAgrees, Sent, Normal
<1>12. ASSUME NEW i \in 1..MaxLoads, LoadFails(i) PROVE Rest
  <2>1. /\ loads' = [loads EXCEPT ![i] = NoLoad]
        /\ UNCHANGED <<settings, version, page, save>>
    BY <1>12 DEF LoadFails
  <2>2. /\ loads'[i].stage = "none"
        /\ \A k \in 1..MaxLoads \ {i} : loads'[k] = loads[k]
    BY <1>1, <2>1 DEF PageTypeOK, NoLoad
  <2>3. LoadsAgree'
    BY <2>1, <2>2 DEF Agree, LoadsAgree
  <2> QED BY <2>1, <2>3 DEF Agree, PageAgrees, SaveAgrees, Sent, Normal
<1>13. ASSUME NEW i \in 1..MaxLoads, LoadAnswered(i) PROVE Rest
  <2>1. /\ loads' = [loads EXCEPT ![i] = NoLoad]
        /\ Filled(loads[i].doc, loads[i].seen)
        /\ UNCHANGED <<settings, version, save>>
        /\ loads[i].stage = "answered"
    BY <1>13 DEF LoadAnswered
  <2>2. /\ loads'[i].stage = "none"
        /\ \A k \in 1..MaxLoads \ {i} : loads'[k] = loads[k]
    BY <1>1, <2>1 DEF PageTypeOK, NoLoad
  <2>3. LoadsAgree'
    BY <2>1, <2>2 DEF Agree, LoadsAgree
  <2>4. PageAgrees'
    BY <1>1, <2>1, FilledAgrees DEF Agree, LoadsAgree, PageTypeOK
  <2> QED BY <2>1, <2>3, <2>4 DEF Agree, SaveAgrees, Sent, Normal
<1>14. ASSUME NEW doc \in Foreign, ForeignSave(doc) PROVE Rest
  <2>1. Save(doc) /\ IsDoc(doc) /\ UNCHANGED <<page, save, loads>>
    BY <1>14, ForeignAssumption DEF ForeignSave
  <2>2. SaveAgrees'
    BY <1>1, <2>1, SaveMakesOld DEF SaveAgrees
  <2> QED BY <1>1, <2>1, <2>2, SaveMakesOld
          DEF PageAgrees, LoadsAgree, Normal
<1>15. CASE UNCHANGED pageVars
  BY <1>15 DEF pageVars, Agree, PageAgrees, LoadsAgree, SaveAgrees, Sent,
               Normal
<1> QED BY <1>3, <1>4, <1>5, <1>6, <1>7, <1>8, <1>9, <1>10, <1>11, <1>12,
           <1>13, <1>14, <1>15 DEF PageNext

(* A save stores what the page showed where its user typed nothing.        *)
LEMMA StepKeeps ==
    ASSUME Agree, [PageNext]_pageVars
    PROVE  Keeps(Parts)
<1> SUFFICES ASSUME Stores, save'.stage # "sent", save.seen = version,
                    NEW p \in Parts \ Sent
             PROVE  Shows(settings', settings, p)
  BY DEF Keeps
<1>1. PageTypeOK /\ save.stage = "sent" /\ version' # version
  BY DEF Agree, Stores
<1>2. Save(save.doc)
  <2>1. ASSUME save' = save PROVE FALSE
    BY <1>1, <2>1
  <2>2. \A t \in Typing : ~Type(t[1], t[2])
    BY <1>1 DEF Type
  <2>3. ~Submit /\ ~Toggle /\ ~SaveAnswered /\ ~SaveRefused
    BY <1>1 DEF Submit, Toggle, SaveAnswered, SaveRefused
  <2>4. \A i \in 1..MaxLoads :
           ~Reload(i) /\ ~ServeLoad(i) /\ ~LoadFails(i) /\ ~LoadAnswered(i)
    BY <1>1 DEF Reload, ServeLoad, LoadFails, LoadAnswered
  <2>5. \A doc \in Foreign : ~ForeignSave(doc)
    BY <2>1 DEF ForeignSave
  <2>6. ServeSave \/ SaveFails
    BY <1>1, <2>2, <2>3, <2>4, <2>5 DEF PageNext, pageVars
  <2> QED BY <1>1, <2>6 DEF ServeSave, SaveFails
<1>3. settings' = normalizeSettings(save.doc)
  BY <1>2 DEF Save
<1>4. Shows(save.doc, settings, p)
  BY <1>1 DEF Agree, SaveAgrees
<1>5. normalizeSettings(settings)[p] = settings[p]
  BY DEF Agree, Normal
<1>6. CASE save.doc[p] = settings[p]
  <2>1. normalizeSettings(save.doc)[p] = normalizeSettings(settings)[p]
    BY <1>6 DEF normalizeSettings
  <2> QED BY <1>3, <1>5, <2>1 DEF Shows
<1> QED BY <1>4, <1>6 DEF Shows

(* Type correctness of the document, the page and its requests, and the    *)
(* bounds of the stored numbers, on which the loops rely.                  *)
THEOREM PageTypeCorrect == PageSpec => []PageTypeOK
<1>1. PageTypeOK /\ [PageNext]_pageVars => PageTypeOK'
  BY PageStepTyped
<1> QED BY <1>1, PageInitTyped, PTL DEF PageSpec

(* As long as nobody has saved since, the page shows what is stored.       *)
THEOREM PageAgreesCorrect == PageSpec => []PageAgrees
<1>1. Agree /\ [PageNext]_pageVars => Agree'
  BY AgreeStep
<1>2. Agree => PageAgrees
  BY DEF Agree
<1> QED BY <1>1, <1>2, AgreeInit, PTL DEF PageSpec

(* A save from a page that was up to date changes nothing its user did not *)
(* touch, except a text the page still shows after it was cleared.         *)
THEOREM SavesOnlyTheTypedCorrect == PageSpec => SavesOnlyTheTyped
<1>1. Agree /\ [PageNext]_pageVars => Agree'
  BY AgreeStep
<1>2. Agree /\ [PageNext]_pageVars => [Keeps(Parts)]_pageVars
  BY StepKeeps
<1> QED BY <1>1, <1>2, AgreeInit, PTL DEF PageSpec, SavesOnlyTheTyped

-----------------------------------------------------------------------------
(* The process behind the page. *)

(* Every step is a step of the page or leaves it alone.                    *)
LEMMA StepPage == [Next]_vars => [PageNext]_pageVars
<1> SUFFICES ASSUME [Next]_vars PROVE [PageNext]_pageVars
  OBVIOUS
<1> USE DEF pageVars, pageOnly, stored
<1>1. Ask \/ Read \/ ReadFails \/ Answer => UNCHANGED pageVars
  BY DEF Ask, Read, ReadFails, Answer
<1>2. CheckDNS \/ LookupHost \/ InsertDNS \/ InsertDNSFails \/ Emit
        => UNCHANGED pageVars
  BY DEF CheckDNS, LookupHost, InsertDNS, InsertDNSFails, Emit
<1>3. \A v : StoreLatency(v) \/ StoreSpeed(v) => UNCHANGED pageVars
  BY DEF StoreLatency, StoreSpeed
<1>4. OpenOutage \/ CloseActiveOutage => UNCHANGED pageVars
  BY DEF OpenOutage, CloseActiveOutage
<1>5. Tick \/ SigTerm \/ Die \/ Restart => UNCHANGED pageVars
  BY DEF Tick, SigTerm, Die, Restart
<1>6. PageStep => PageNext
  BY DEF PageStep
<1>7. UNCHANGED vars => UNCHANGED pageVars
  BY DEF vars
<1> QED BY <1>1, <1>2, <1>3, <1>4, <1>5, <1>6, <1>7 DEF Next

(* The process with its loops and requests implements the settings page,   *)
(* so what is proved of the page alone holds beside them.                  *)
THEOREM ImplementsPage == Spec => PageSpec
<1>1. Init => PageInit
  BY DEF Init
<1> QED BY <1>1, StepPage, PTL DEF Spec, PageSpec

(* The request and the locals of the DNS loop are records, and a lookup in *)
(* the hands of a running process was not cut short.                       *)
ReadNames == {"settings", "speed", "latency", "dns", "latency24h", "active",
              "count", "bounds"}
Shapes ==
    /\ dns = [pc |-> dns.pc, names |-> dns.names, row |-> dns.row]
    /\ request = [step |-> request.step, since |-> request.since,
                  known |-> request.known, got |-> request.got,
                  seen |-> request.seen, changes |-> request.changes]
    /\ request.got = [p \in ReadNames |-> request.got[p]]
DnsAlive ==
    /\ proc = "down" => dns.pc = "idle"
    /\ proc = "up" /\ dns.pc \in {"insert", "emit"} => dns.row[1].live
Sound == TypeOK /\ Shapes /\ DnsAlive /\ NoFalseDNSFailure

LEMMA SeqGrows ==
    ASSUME NEW S, NEW T, S \subseteq T, NEW s \in Seq(S)
    PROVE  s \in Seq(T)
OBVIOUS

LEMMA SoundInit == Init => Sound
<1> SUFFICES ASSUME Init PROVE Sound
  OBVIOUS
<1>1. /\ now = Day /\ proc = "up" /\ rows = [t \in Tables |-> <<>>]
      /\ outages = <<>> /\ announced = {} /\ PageTypeOK
      /\ dns = DnsIdle /\ request = NoRequest
  BY PageInitTyped DEF Init
<1>2. dns.pc = "idle" /\ dns = [pc |-> dns.pc, names |-> dns.names, row |-> dns.row]
  BY <1>1 DEF DnsIdle
<1>3. /\ request.step = 0 /\ request.changes = 0
      /\ \A t \in Tables : request.known[t] = 0
      /\ request = [step |-> request.step, since |-> request.since,
                    known |-> request.known, got |-> request.got,
                    seen |-> request.seen, changes |-> request.changes]
      /\ request.got = NoAnswer
  BY <1>1 DEF NoRequest
<1>4. NoAnswer = [p \in ReadNames |-> NoAnswer[p]]
  BY DEF NoAnswer, ReadNames
<1>5. \A t \in Tables : rows[t] = <<>> /\ Len(rows[t]) = 0
  BY <1>1
<1>6. Len(Reads) = 8
  BY DEF Reads
<1>7. Shapes /\ DnsAlive
  BY <1>1, <1>2, <1>3, <1>4 DEF Shapes, DnsAlive
<1>8. TypeOK
  <2>1. /\ DOMAIN rows = Tables /\ rows["latency"] \in Seq(Row)
        /\ rows["speed"] \in Seq(Row) /\ rows["dns"] \in Seq(Lookup)
        /\ outages \in Seq([at : Day..now, open : BOOLEAN])
    BY <1>1, <1>5 DEF Tables
  <2>2. now \in Nat /\ now >= Day
    BY <1>1, DayAssumption
  <2> QED BY <1>1, <1>2, <1>3, <1>5, <1>6, <2>1, <2>2 DEF TypeOK
<1>9. NoFalseDNSFailure
  BY <1>1, <1>5 DEF NoFalseDNSFailure, Tables
<1> QED BY <1>7, <1>8, <1>9 DEF Sound

(* The parts of Sound, so that a step can leave one of them alone.         *)
RowsOK ==
    /\ DOMAIN rows = Tables /\ rows["latency"] \in Seq(Row)
    /\ rows["speed"] \in Seq(Row) /\ rows["dns"] \in Seq(Lookup)
    /\ outages \in Seq([at : Day..now, open : BOOLEAN])
    /\ \A i \in DOMAIN rows["dns"] :
          rows["dns"][i].value = 0 => rows["dns"][i].live
ClockOK ==
    now \in Nat /\ now >= Day /\ proc \in {"up", "stopping", "down"}
DnsOK ==
    /\ announced \subseteq Lookup
    /\ dns.pc \in {"idle", "lookup", "insert", "emit"}
    /\ dns.pc \in {"insert", "emit"} => \E row \in Lookup : dns.row = <<row>>
    /\ \A row \in announced : row.live
    /\ dns = [pc |-> dns.pc, names |-> dns.names, row |-> dns.row]
    /\ DnsAlive
RequestOK ==
    /\ request.step \in 0..Len(Reads) + 1 /\ request.changes \in 0..2
    /\ request = [step |-> request.step, since |-> request.since,
                  known |-> request.known, got |-> request.got,
                  seen |-> request.seen, changes |-> request.changes]
    /\ request.got = [p \in ReadNames |-> request.got[p]]
KnownOK == \A t \in Tables : request.known[t] \in 0..Len(rows[t])

LEMMA SoundParts ==
    Sound <=> PageTypeOK /\ RowsOK /\ ClockOK /\ DnsOK /\ RequestOK /\ KnownOK
BY DEF Sound, TypeOK, Shapes, NoFalseDNSFailure, RowsOK, ClockOK, DnsOK,
       RequestOK, KnownOK

LEMMA Lengths ==
    ASSUME RowsOK, NEW t \in Tables
    PROVE  Len(rows[t]) \in Nat
BY DEF RowsOK, Tables

(* What a change of the stored rows does to a request under way.           *)
LEMMA NoticedTyped ==
    ASSUME RequestOK, Noticed
    PROVE  RequestOK' /\ request'.known = request.known
<1>1. CASE request.step = 0
  BY <1>1 DEF Noticed, RequestOK
<1>2. CASE request.step # 0
  <2> DEFINE seen == request.seen \cup {StatusNow'}
             changes == IF request.changes < 2 THEN request.changes + 1
                        ELSE request.changes
  <2>1. request' = [request EXCEPT !.seen = seen, !.changes = changes]
    BY <1>2 DEF Noticed
  <2>2. changes \in 0..2
    BY DEF RequestOK
  <2> HIDE DEF seen, changes
  <2>3. request' = [step |-> request.step, since |-> request.since,
                    known |-> request.known, got |-> request.got,
                    seen |-> seen, changes |-> changes]
    BY <2>1 DEF RequestOK
  <2> QED BY <2>2, <2>3 DEF RequestOK
<1> QED BY <1>1, <1>2

(* One row more in one table.                                              *)
LEMMA OneRowMore ==
    ASSUME RowsOK, KnownOK, NEW t \in Tables, NEW row,
           row \in IF t = "dns" THEN Lookup ELSE Row,
           t = "dns" => row.live,
           rows' = [rows EXCEPT ![t] = Append(@, row)],
           UNCHANGED <<outages, now>>, request'.known = request.known
    PROVE  RowsOK' /\ KnownOK'
<1> USE DEF Tables
<1>1. DOMAIN rows' = Tables /\ rows'[t] = Append(rows[t], row)
      /\ \A k \in Tables \ {t} : rows'[k] = rows[k]
  BY DEF RowsOK
<1>2. Row' = Row /\ Lookup' = Lookup
  BY DEF Row, Lookup
<1>3. Len(rows'[t]) = Len(rows[t]) + 1 /\ Len(rows[t]) \in Nat
  <2>1. CASE t = "dns"
    BY <1>1, <2>1 DEF RowsOK
  <2>2. CASE t # "dns"
    BY <1>1, <2>2 DEF RowsOK
  <2> QED BY <2>1, <2>2
<1>4. /\ rows'["latency"] \in Seq(Row) /\ rows'["speed"] \in Seq(Row)
      /\ rows'["dns"] \in Seq(Lookup)
  BY <1>1 DEF RowsOK
<1>5. \A i \in DOMAIN rows'["dns"] :
         rows'["dns"][i].value = 0 => rows'["dns"][i].live
  <2>1. CASE t = "dns"
    <3>1. \A i \in DOMAIN rows'["dns"] :
             rows'["dns"][i] = row \/
             (i \in DOMAIN rows["dns"] /\ rows'["dns"][i] = rows["dns"][i])
      BY <1>1, <2>1 DEF RowsOK
    <3> QED BY <2>1, <3>1 DEF RowsOK
  <2>2. CASE t # "dns"
    BY <1>1, <2>2 DEF RowsOK
  <2> QED BY <2>1, <2>2
<1>6. RowsOK'
  BY <1>1, <1>2, <1>4, <1>5 DEF RowsOK
<1>7. KnownOK'
  BY <1>1, <1>3 DEF KnownOK
<1> QED BY <1>6, <1>7

LEMMA NextNameFacts ==
    ASSUME dns = [pc |-> dns.pc, names |-> dns.names, row |-> dns.row],
           dns' = NextName
    PROVE  /\ dns'.pc \in {"idle", "lookup"}
           /\ dns' = [pc |-> dns'.pc, names |-> dns'.names, row |-> dns'.row]
BY DEF NextName, DnsIdle

LEMMA AfterInsertFacts ==
    ASSUME DnsOK, dns.pc = "insert", AfterInsert
    PROVE  /\ dns'.pc \in {"idle", "lookup", "emit"}
           /\ dns'.pc = "emit" => dns'.row = dns.row
           /\ dns' = [pc |-> dns'.pc, names |-> dns'.names, row |-> dns'.row]
<1>1. CASE Failed(dns.row)
  <2>1. dns' = [pc |-> "emit", names |-> dns.names, row |-> dns.row]
    BY <1>1 DEF AfterInsert, DnsOK
  <2> QED BY <2>1
<1>2. CASE ~Failed(dns.row)
  BY <1>2, NextNameFacts DEF AfterInsert, DnsOK
<1> QED BY <1>1, <1>2

LEMMA SoundStep ==
    ASSUME Sound, [Next]_vars
    PROVE  Sound'
<1>1. PageTypeOK /\ RowsOK /\ ClockOK /\ DnsOK /\ RequestOK /\ KnownOK
  BY SoundParts
<1>2. PageTypeOK'
  BY <1>1, StepPage, PageStepTyped
<1> DEFINE Rest == RowsOK' /\ ClockOK' /\ DnsOK' /\ RequestOK' /\ KnownOK'
<1>3. SUFFICES Rest
  BY <1>2 DEF Sound, TypeOK, Shapes, NoFalseDNSFailure, RowsOK, ClockOK,
              DnsOK, RequestOK, KnownOK, DnsAlive, Row, Lookup
<1>4. ASSUME UNCHANGED <<rows, outages, now>> PROVE RowsOK'
  BY <1>1, <1>4 DEF RowsOK, Row, Lookup
<1>5. ASSUME UNCHANGED <<now, proc>> PROVE ClockOK'
  BY <1>1, <1>5 DEF ClockOK
<1>6. ASSUME UNCHANGED <<now, proc, announced, dns>> PROVE DnsOK'
  BY <1>1, <1>6 DEF DnsOK, DnsAlive, Lookup
<1>7. ASSUME UNCHANGED request PROVE RequestOK'
  BY <1>1, <1>7 DEF RequestOK
<1>8. ASSUME UNCHANGED rows, request'.known = request.known PROVE KnownOK'
  BY <1>1, <1>8 DEF KnownOK
<1>9. Len(Reads) = 8 /\ \A i \in 1..8 : Reads[i] \in ReadNames
  BY DEF Reads, ReadNames
<1>10. ASSUME UNCHANGED rows, request' = NoRequest
       PROVE  RequestOK' /\ KnownOK'
  <2>1. \A t \in Tables : Len(rows'[t]) \in Nat
    BY <1>1, <1>10, Lengths
  <2>2. NoAnswer = [p \in ReadNames |-> NoAnswer[p]]
    BY DEF NoAnswer, ReadNames
  <2> QED BY <1>9, <1>10, <2>1, <2>2 DEF NoRequest, RequestOK, KnownOK
<1>11. CASE Ask
  <2>1. UNCHANGED <<rows, outages, now, proc, announced, dns>>
    BY <1>11 DEF Ask, stored
  <2>2. request' = [step |-> 1, since |-> now - Day,
                    known |-> [t \in Tables |-> Len(rows[t])],
                    got |-> NoAnswer, seen |-> {StatusNow}, changes |-> 0]
    BY <1>11 DEF Ask
  <2>3. NoAnswer = [p \in ReadNames |-> NoAnswer[p]]
    BY DEF NoAnswer, ReadNames
  <2>4. RequestOK'
    BY <1>9, <2>2, <2>3 DEF RequestOK
  <2>5. KnownOK'
    BY <1>1, <2>1, <2>2, Lengths DEF KnownOK
  <2> QED BY <1>4, <1>5, <1>6, <2>1, <2>4, <2>5
<1>12. CASE Read
  <2> DEFINE part == Reads[request.step]
             value == Query(part, request.since)
             new == [request.got EXCEPT ![part] = value]
  <2>1. /\ UNCHANGED <<rows, outages, now, proc, announced, dns>>
        /\ request.step \in 1..8
        /\ request' = [request EXCEPT !.step = @ + 1, !.got[part] = value]
    BY <1>9, <1>12 DEF Read, stored
  <2>2. new = [p \in ReadNames |-> new[p]]
    BY <1>1 DEF RequestOK
  <2> HIDE DEF part, value
  <2>3. request' = [step |-> request.step + 1, since |-> request.since,
                    known |-> request.known, got |-> new,
                    seen |-> request.seen, changes |-> request.changes]
    BY <1>1, <2>1 DEF RequestOK
  <2> HIDE DEF new
  <2>4. RequestOK'
    <3>1. /\ request'.step = request.step + 1 /\ request'.got = new
          /\ request'.changes = request.changes
      BY <2>3
    <3>2. request'.step \in 0..Len(Reads) + 1
      BY <1>9, <2>1, <3>1
    <3> QED BY <1>1, <2>2, <2>3, <3>1, <3>2 DEF RequestOK
  <2>5. KnownOK'
    BY <1>8, <2>1, <2>3
  <2> QED BY <1>4, <1>5, <1>6, <2>1, <2>4, <2>5
<1>13. CASE ReadFails \/ Answer
  <2>1. /\ UNCHANGED <<rows, outages, now, proc, announced, dns>>
        /\ request' = NoRequest
    BY <1>13 DEF ReadFails, Answer, stored
  <2> QED BY <1>4, <1>5, <1>6, <1>10, <2>1
<1>14. CASE CheckDNS
  <2>1. /\ UNCHANGED <<rows, outages, now, proc, announced, request>>
        /\ proc = "up"
        /\ dns' = [pc |-> "lookup", names |-> settings["dnsDomains"],
                   row |-> <<>>]
    BY <1>14 DEF CheckDNS, stored, DnsIdle
  <2>2. DnsOK'
    BY <1>1, <2>1 DEF DnsOK, DnsAlive, Lookup
  <2> QED BY <1>4, <1>5, <1>7, <1>8, <2>1, <2>2
<1>15. CASE LookupHost
  <2>1. /\ UNCHANGED <<rows, outages, now, proc, announced, request>>
        /\ dns.pc = "lookup"
    BY <1>15 DEF LookupHost, stored
  <2>2. PICK value \in {0, 1} :
           dns' = [dns EXCEPT !.pc = "insert",
                     !.row = <<[at |-> now, value |-> value,
                                live |-> proc = "up"]>>]
    BY <1>15 DEF LookupHost
  <2> DEFINE new == [at |-> now, value |-> value, live |-> proc = "up"]
  <2>3. now \in Day..now
    BY <1>1, DayAssumption DEF ClockOK
  <2>4. new \in Lookup /\ (proc = "up" => new.live)
    BY <2>3 DEF Lookup
  <2>5. Lookup' = Lookup
    BY <2>1 DEF Lookup
  <2>6. dns' = [pc |-> "insert", names |-> dns.names, row |-> <<new>>]
    BY <1>1, <2>2 DEF DnsOK
  <2> HIDE DEF new
  <2>7. DnsOK'
    BY <1>1, <2>1, <2>4, <2>5, <2>6 DEF DnsOK, DnsAlive
  <2> QED BY <1>4, <1>5, <1>7, <1>8, <2>1, <2>7
<1>16. CASE InsertDNS
  <2>1. /\ UNCHANGED <<outages, now, proc, announced>> /\ Noticed
        /\ AfterInsert /\ dns.pc = "insert" /\ proc = "up"
        /\ rows' = [rows EXCEPT !["dns"] = Append(@, dns.row[1])]
    BY <1>16 DEF InsertDNS
  <2>2. dns.row[1] \in Lookup /\ dns.row[1].live
    BY <1>1, <2>1 DEF DnsOK, DnsAlive
  <2>3. RequestOK' /\ request'.known = request.known
    BY <1>1, <2>1, NoticedTyped
  <2>4. RowsOK' /\ KnownOK'
    <3>1. "dns" \in Tables
      BY DEF Tables
    <3> QED BY <1>1, <2>1, <2>2, <2>3, <3>1, OneRowMore
  <2>5. DnsOK'
    <3>1. Lookup' = Lookup
      BY <2>1 DEF Lookup
    <3> QED BY <1>1, <2>1, <3>1, AfterInsertFacts DEF DnsOK, DnsAlive
  <2> QED BY <1>5, <2>1, <2>3, <2>4, <2>5
<1>17. CASE InsertDNSFails
  <2>1. /\ UNCHANGED <<rows, outages, now, proc, announced, request>>
        /\ AfterInsert /\ dns.pc = "insert" /\ proc # "down"
    BY <1>17 DEF InsertDNSFails, Refused, stored
  <2>2. Lookup' = Lookup
    BY <2>1 DEF Lookup
  <2>3. DnsOK'
    BY <1>1, <2>1, <2>2, AfterInsertFacts DEF DnsOK, DnsAlive
  <2> QED BY <1>4, <1>5, <1>7, <1>8, <2>1, <2>3
<1>18. CASE Emit
  <2>1. /\ UNCHANGED <<rows, outages, now, proc, request>>
        /\ dns.pc = "emit" /\ dns' = NextName /\ proc # "down"
        /\ \/ announced' = announced
           \/ proc = "up" /\ announced' = announced \cup {dns.row[1]}
    BY <1>1, <1>18 DEF Emit, Refused, stored, DnsOK, DnsAlive
  <2>2. Lookup' = Lookup
    BY <2>1 DEF Lookup
  <2>3. proc = "up" => dns.row[1] \in Lookup /\ dns.row[1].live
    BY <1>1, <2>1 DEF DnsOK, DnsAlive
  <2>4. /\ announced' \subseteq Lookup
        /\ \A row \in announced' : row.live
    BY <1>1, <2>1, <2>3 DEF DnsOK
  <2>5. DnsOK'
    BY <1>1, <2>1, <2>2, <2>4, NextNameFacts DEF DnsOK, DnsAlive
  <2> QED BY <1>4, <1>5, <1>7, <1>8, <2>1, <2>5
<1>19. ASSUME NEW v \in Latencies \cup {0}, StoreLatency(v) PROVE Rest
  <2> DEFINE row == [at |-> now, value |-> v]
  <2>1. /\ UNCHANGED <<outages, now, proc, announced, dns>> /\ Noticed
        /\ rows' = [rows EXCEPT !["latency"] = Append(@, row)]
    BY <1>19 DEF StoreLatency, Stored
  <2>2. row \in Row
    BY <1>1, DayAssumption, ValuesAssumption DEF Row, ClockOK
  <2>3. RequestOK' /\ request'.known = request.known
    BY <1>1, <2>1, NoticedTyped
  <2> HIDE DEF row
  <2>4. RowsOK' /\ KnownOK'
    <3>1. "latency" \in Tables
      BY DEF Tables
    <3> QED BY <1>1, <2>1, <2>2, <2>3, <3>1, OneRowMore
  <2> QED BY <1>5, <1>6, <2>1, <2>3, <2>4
<1>20. ASSUME NEW v \in Speeds \cup {0}, StoreSpeed(v) PROVE Rest
  <2>1. PICK at \in Stamps(rows["speed"]) : Stored("speed", at, v)
    BY <1>20 DEF StoreSpeed
  <2> DEFINE row == [at |-> at, value |-> v]
  <2>2. /\ UNCHANGED <<outages, now, proc, announced, dns>> /\ Noticed
        /\ rows' = [rows EXCEPT !["speed"] = Append(@, row)]
    BY <1>20, <2>1 DEF StoreSpeed, Stored
  <2>3. at \in Day..now
    <3>1. rows["speed"] \in Seq(Row)
      BY <1>1 DEF RowsOK
    <3>2. CASE rows["speed"] = <<>>
      BY <3>2 DEF Stamps
    <3>3. CASE rows["speed"] # <<>>
      <4>1. rows["speed"][Len(rows["speed"])] \in Row
        BY <3>1, <3>3
      <4>2. rows["speed"][Len(rows["speed"])].at \in Day..now
        BY <4>1 DEF Row
      <4> QED BY <1>1, <3>3, <4>2, DayAssumption DEF Stamps, ClockOK
    <3> QED BY <3>2, <3>3
  <2>4. row \in Row
    BY <2>3, ValuesAssumption DEF Row
  <2>5. RequestOK' /\ request'.known = request.known
    BY <1>1, <2>2, NoticedTyped
  <2> HIDE DEF row
  <2>6. RowsOK' /\ KnownOK'
    <3>1. "speed" \in Tables
      BY DEF Tables
    <3> QED BY <1>1, <2>2, <2>4, <2>5, <3>1, OneRowMore
  <2> QED BY <1>5, <1>6, <2>2, <2>5, <2>6
<1>21. CASE OpenOutage \/ CloseActiveOutage
  <2>1. UNCHANGED <<rows, now, proc, announced, dns>> /\ Noticed
    BY <1>21 DEF OpenOutage, CloseActiveOutage
  <2> DEFINE Outage == [at : Day..now, open : BOOLEAN]
  <2>2. outages \in Seq(Outage)
    BY <1>1 DEF RowsOK
  <2>3. outages' \in Seq(Outage)
    <3>1. CASE OpenOutage
      <4>1. [at |-> now, open |-> TRUE] \in Outage
        BY <1>1, DayAssumption DEF ClockOK
      <4>2. outages' = Append(outages, [at |-> now, open |-> TRUE])
        BY <3>1 DEF OpenOutage
      <4> HIDE DEF Outage
      <4> QED BY <2>2, <4>1, <4>2
    <3>2. CASE CloseActiveOutage
      <4>1. outages' = [i \in DOMAIN outages |->
                          [outages[i] EXCEPT !.open = FALSE]]
        BY <3>2 DEF CloseActiveOutage
      <4>2. \A o \in Outage : [o EXCEPT !.open = FALSE] \in Outage
        OBVIOUS
      <4> HIDE DEF Outage
      <4>3. DOMAIN outages = 1..Len(outages) /\ Len(outages) \in Nat
            /\ \A i \in DOMAIN outages : outages[i] \in Outage
        BY <2>2
      <4> QED BY <4>1, <4>2, <4>3
    <3> QED BY <1>21, <3>1, <3>2
  <2>4. RowsOK'
    BY <1>1, <2>1, <2>3 DEF RowsOK, Row, Lookup
  <2>5. RequestOK' /\ request'.known = request.known
    BY <1>1, <2>1, NoticedTyped
  <2> QED BY <1>5, <1>6, <1>8, <2>1, <2>4, <2>5
<1>22. CASE PageStep
  <2>1. /\ UNCHANGED <<rows, outages, now, proc, announced, dns>>
        /\ Noticed \/ UNCHANGED request
    BY <1>22 DEF PageStep
  <2>2. RequestOK' /\ request'.known = request.known
    BY <1>1, <1>7, <2>1, NoticedTyped
  <2> QED BY <1>4, <1>5, <1>6, <1>8, <2>1, <2>2
<1>23. CASE Tick
  <2>1. now' \in now + 1..now + Day + 1
        /\ UNCHANGED <<rows, outages, proc, announced, dns, request>>
    BY <1>23 DEF Tick, stored
  <2>2. now' \in Nat /\ now' >= Day /\ Day..now \subseteq Day..now'
    BY <1>1, <2>1, DayAssumption DEF ClockOK
  <2>3. /\ Row \subseteq Row' /\ Lookup \subseteq Lookup'
        /\ [at : Day..now, open : BOOLEAN]
             \subseteq [at : Day..now', open : BOOLEAN]
    BY <2>2 DEF Row, Lookup
  <2>4. RowsOK'
    <3>1. /\ rows["latency"] \in Seq(Row') /\ rows["speed"] \in Seq(Row')
          /\ rows["dns"] \in Seq(Lookup')
          /\ outages \in Seq([at : Day..now', open : BOOLEAN])
      BY <1>1, <2>3, SeqGrows DEF RowsOK
    <3> QED BY <1>1, <2>1, <3>1 DEF RowsOK
  <2>5. DnsOK'
    <3>1. dns.pc \in {"insert", "emit"} =>
             \E row \in Lookup' : dns.row = <<row>>
      BY <1>1, <2>3 DEF DnsOK
    <3>2. announced \subseteq Lookup'
      BY <1>1, <2>3 DEF DnsOK
    <3> QED BY <1>1, <2>1, <3>1, <3>2 DEF DnsOK, DnsAlive
  <2>6. ClockOK'
    BY <1>1, <2>1, <2>2 DEF ClockOK
  <2> QED BY <1>7, <1>8, <2>1, <2>4, <2>5, <2>6
<1>24. CASE SigTerm
  <2>1. /\ UNCHANGED <<rows, outages, now, announced, dns, request>>
        /\ proc = "up" /\ proc' = "stopping"
    BY <1>24 DEF SigTerm, stored
  <2>2. DnsOK' /\ ClockOK'
    BY <1>1, <2>1 DEF DnsOK, DnsAlive, ClockOK, Lookup
  <2> QED BY <1>4, <1>7, <1>8, <2>1, <2>2
<1>25. CASE Die
  <2>1. /\ UNCHANGED <<rows, outages, now, announced>>
        /\ proc' = "down" /\ dns' = DnsIdle /\ request' = NoRequest
    BY <1>25 DEF Die, stored
  <2>2. DnsOK' /\ ClockOK'
    BY <1>1, <2>1 DEF DnsOK, DnsAlive, DnsIdle, ClockOK, Lookup
  <2> QED BY <1>4, <1>10, <2>1, <2>2
<1>26. CASE Restart
  <2>1. /\ UNCHANGED <<rows, outages, now, announced, dns, request>>
        /\ proc = "down" /\ proc' = "up"
    BY <1>26 DEF Restart, stored
  <2>2. DnsOK' /\ ClockOK'
    BY <1>1, <2>1 DEF DnsOK, DnsAlive, ClockOK, Lookup
  <2> QED BY <1>4, <1>7, <1>8, <2>1, <2>2
<1>27. CASE UNCHANGED vars
  <2>1. UNCHANGED <<rows, outages, now, proc, announced, dns, request>>
    BY <1>27 DEF vars
  <2> QED BY <1>4, <1>5, <1>6, <1>7, <1>8, <2>1
<1> HIDE DEF Rest
<1> QED BY <1>11, <1>12, <1>13, <1>14, <1>15, <1>16, <1>17, <1>18, <1>19,
           <1>20, <1>21, <1>22, <1>23, <1>24, <1>25, <1>26, <1>27 DEF Next

(* Type correctness, whatever the page, the loops and the clock do.        *)
THEOREM TypeCorrect == Spec => []TypeOK
<1>1. Sound /\ [Next]_vars => Sound'
  BY SoundStep
<1>2. Sound => TypeOK
  BY DEF Sound
<1> QED BY <1>1, <1>2, SoundInit, PTL DEF Spec

(* A lookup cut short by the end of the process is neither stored nor      *)
(* announced as a failure of its name.                                     *)
THEOREM NoFalseDNSFailureCorrect == Spec => []NoFalseDNSFailure
<1>1. Sound /\ [Next]_vars => Sound'
  BY SoundStep
<1>2. Sound => NoFalseDNSFailure
  BY DEF Sound
<1> QED BY <1>1, <1>2, SoundInit, PTL DEF Spec

-----------------------------------------------------------------------------
(* The status of a summary. *)

(* What has been read of the five parts the status depends on.             *)
ReadParts == {Reads[i] : i \in 1..request.step - 1} \cap StatusParts
Got(p) == request.got[p]

(* While a request is under way the present status has been noticed; if    *)
(* nothing changed, the parts read are the present ones; if one change was *)
(* made, it changed one part, and with its former value v the status was   *)
(* noticed as well.                                                        *)
Once(q, v) ==
    /\ ConnectionStatus([Present EXCEPT ![q] = v]) \in request.seen
    /\ \A p \in ReadParts \ {q} : Got(p) = Present[p]
    /\ q \in ReadParts => Got(q) = v \/ Got(q) = Present[q]
Real ==
    request.step # 0 =>
        /\ StatusNow \in request.seen
        /\ request.changes = 0 => \A p \in ReadParts : Got(p) = Present[p]
        /\ request.changes = 1 => \E q \in StatusParts : \E v : Once(q, v)

(* The status depends on nothing else.                                     *)
LEMMA StatusDepends ==
    ASSUME NEW a, NEW b, \A p \in StatusParts : a[p] = b[p]
    PROVE  ConnectionStatus(a) = ConnectionStatus(b)
<1>1. /\ a.settings = b.settings /\ a.active = b.active
      /\ a.latency = b.latency /\ a.dns = b.dns /\ a.speed = b.speed
  BY DEF StatusParts, Tables
<1> QED BY <1>1 DEF ConnectionStatus

Part(p) == IF p = "settings" THEN settings
           ELSE IF p = "active" THEN ActiveOutage ELSE Latest(rows[p])

LEMMA QueryIsPart ==
    ASSUME NEW p \in StatusParts, NEW since
    PROVE  Query(p, since) = Part(p) /\ Query(p, since)' = Part(p)'
BY DEF Query, Part, StatusParts, Tables

LEMMA PresentIsParts ==
    /\ Present = [p \in StatusParts |-> Part(p)]
    /\ Present' = [p \in StatusParts |-> Part(p)']
<1>1. DOMAIN Present = StatusParts /\ DOMAIN Present' = StatusParts
  BY DEF Present, StatusParts, Tables
<1>2. \A p \in StatusParts : Present[p] = Part(p) /\ Present'[p] = Part(p)'
  BY DEF Present, Part, StatusParts, Tables
<1>3. /\ Present = [p \in DOMAIN Present |-> Present[p]]
      /\ Present' = [p \in DOMAIN Present' |-> Present'[p]]
  BY DEF Present
<1>4. Present = [p \in StatusParts |-> Part(p)]
  BY <1>1, <1>2, <1>3
<1>5. Present' = [p \in StatusParts |-> Part(p)']
  BY <1>1, <1>2, <1>3
<1> QED BY <1>4, <1>5

LEMMA ActiveStays == outages' = outages => ActiveOutage' = ActiveOutage
BY DEF ActiveOutage

LEMMA PartStays ==
    ASSUME NEW p \in StatusParts,
           p = "settings" => settings' = settings,
           p = "active" => outages' = outages,
           p \in Tables => rows'[p] = rows[p]
    PROVE  Part(p)' = Part(p)
BY ActiveStays DEF Part, StatusParts, Tables

LEMMA PresentStays ==
    ASSUME UNCHANGED stored
    PROVE  Present' = Present /\ StatusNow' = StatusNow
<1>1. \A p \in StatusParts : Part(p)' = Part(p)
  BY PartStays DEF stored
<1>2. Present' = Present
  BY <1>1, PresentIsParts
<1> QED BY <1>2 DEF StatusNow

(* A change of one part is noticed.                                        *)
OnlyPart(q) == \A p \in StatusParts \ {q} : Part(p)' = Part(p)

LEMMA NoticedReal ==
    ASSUME RequestOK, Real, Noticed, NEW q \in StatusParts, OnlyPart(q)
    PROVE  Real'
<1>1. CASE request.step = 0
  BY <1>1 DEF Noticed, Real
<1>2. CASE request.step # 0
  <2>1. /\ request'.step = request.step /\ request'.got = request.got
        /\ request'.seen = request.seen \cup {StatusNow'}
        /\ request'.changes = IF request.changes < 2
                              THEN request.changes + 1 ELSE request.changes
    BY <1>2 DEF Noticed, RequestOK
  <2>2. ReadParts' = ReadParts /\ \A p : Got(p)' = Got(p)
    BY <2>1 DEF ReadParts, Got
  <2>3. StatusNow' \in request'.seen
    BY <2>1
  <2>4. request.changes \in 0..2
    BY DEF RequestOK
  <2>5. CASE request.changes = 0
    <3> PICK v : v = Present[q]
      OBVIOUS
    <3>1. [Present' EXCEPT ![q] = v] = Present
      BY PresentIsParts DEF OnlyPart
    <3>2. ConnectionStatus([Present' EXCEPT ![q] = v]) \in request'.seen
      BY <1>2, <2>1, <3>1 DEF Real, StatusNow
    <3>3. \A p \in ReadParts : Got(p) = Present[p]
      BY <1>2, <2>5 DEF Real
    <3>4. \A p \in ReadParts \ {q} : Got(p)' = Present'[p]
      BY <2>2, <3>3, PresentIsParts DEF OnlyPart, ReadParts
    <3>5. q \in ReadParts => Got(q)' = v
      BY <2>2, <3>3
    <3>6. Once(q, v)'
      <4>1. \A p \in ReadParts' \ {q} : Got(p)' = Present'[p]
        BY <2>2, <3>4
      <4>2. q \in ReadParts' => Got(q)' = v \/ Got(q)' = Present'[q]
        BY <2>2, <3>5
      <4> QED BY <3>2, <4>1, <4>2 DEF Once
    <3>7. request'.changes = 1
      BY <2>1, <2>5
    <3> QED BY <2>3, <3>6, <3>7 DEF Real
  <2>6. CASE request.changes # 0
    <3>1. request'.changes = 2
      BY <2>1, <2>4, <2>6
    <3> QED BY <2>3, <3>1 DEF Real
  <2> QED BY <2>5, <2>6
<1> QED BY <1>1, <1>2

(* A save that stores nothing changes nothing.                             *)
LEMMA UnsavedStays ==
    ASSUME PageTypeOK, PageNext, version' = version
    PROVE  settings' = settings
<1>1. \A doc : ~Save(doc)
  BY DEF Save, PageTypeOK
<1>2. \A t \in Typing : Type(t[1], t[2]) => settings' = settings
  BY DEF Type
<1>3. Submit \/ Toggle \/ SaveAnswered \/ SaveRefused => settings' = settings
  BY DEF Submit, Toggle, SaveAnswered, SaveRefused
<1>4. ServeSave \/ SaveFails => settings' = settings
  BY <1>1 DEF ServeSave, SaveFails
<1>5. \A i \in 1..MaxLoads :
         Reload(i) \/ ServeLoad(i) \/ LoadFails(i) \/ LoadAnswered(i)
           => settings' = settings
  BY DEF Reload, ServeLoad, LoadFails, LoadAnswered
<1>6. \A doc \in Foreign : ~ForeignSave(doc)
  BY <1>1 DEF ForeignSave
<1> QED BY <1>2, <1>3, <1>4, <1>5, <1>6 DEF PageNext

LEMMA RealStep ==
    ASSUME Sound, Real, [Next]_vars
    PROVE  Real'
<1>1. PageTypeOK /\ RowsOK /\ RequestOK
  BY SoundParts
<1>2. ASSUME UNCHANGED <<stored, request>> PROVE Real'
  <2>1. Present' = Present /\ StatusNow' = StatusNow
    BY <1>2, PresentStays
  <2>2. /\ ReadParts' = ReadParts /\ \A p : Got(p)' = Got(p)
        /\ \A q, v : Once(q, v)' = Once(q, v)
    BY <1>2, <2>1 DEF ReadParts, Got, Once
  <2> QED BY <1>2, <2>1, <2>2 DEF Real
<1>3. CASE Ask
  <2>1. /\ UNCHANGED stored
        /\ request' = [step |-> 1, since |-> now - Day,
                       known |-> [t \in Tables |-> Len(rows[t])],
                       got |-> NoAnswer, seen |-> {StatusNow},
                       changes |-> 0]
    BY <1>3 DEF Ask
  <2>2. ReadParts' = {}
    BY <2>1 DEF ReadParts
  <2>3. StatusNow' = StatusNow
    BY <2>1, PresentStays
  <2> QED BY <2>1, <2>2, <2>3 DEF Real
<1>4. CASE Read
  <2> DEFINE part == Reads[request.step]
             value == Query(part, request.since)
  <2>1. /\ UNCHANGED stored /\ request.step \in 1..Len(Reads)
        /\ request' = [request EXCEPT !.step = @ + 1, !.got[part] = value]
    BY <1>4 DEF Read
  <2>2. Len(Reads) = 8 /\ \A i \in 1..8 : Reads[i] \in ReadNames
    BY DEF Reads, ReadNames
  <2>3. part \in ReadNames
    BY <2>1, <2>2
  <2>4. part \in StatusParts => value = Present[part]
    BY QueryIsPart, PresentIsParts
  <2>5. Present' = Present /\ StatusNow' = StatusNow
    BY <2>1, PresentStays
  <2>6. \A n : n = request.step + 1 =>
           {Reads[i] : i \in 1..n - 1}
             = {Reads[i] : i \in 1..request.step - 1} \cup {part}
    BY <2>1, <2>2
  <2> HIDE DEF part, value
  <2>7. /\ request'.step = request.step + 1
        /\ request'.got = [request.got EXCEPT ![part] = value]
        /\ request'.seen = request.seen /\ request'.changes = request.changes
    <3>1. request' = [step |-> request.step + 1, since |-> request.since,
                      known |-> request.known,
                      got |-> [request.got EXCEPT ![part] = value],
                      seen |-> request.seen, changes |-> request.changes]
      BY <1>1, <2>1 DEF RequestOK
    <3> QED BY <3>1
  <2>8. ReadParts' = (ReadParts \cup {part}) \cap StatusParts
    BY <2>6, <2>7 DEF ReadParts
  <2>9. \A p \in ReadNames :
           Got(p)' = IF p = part THEN value ELSE Got(p)
    BY <1>1, <2>3, <2>7 DEF Got, RequestOK
  <2>10. ReadParts \subseteq StatusParts /\ StatusParts \subseteq ReadNames
    BY DEF ReadParts, StatusParts, Tables, ReadNames
  <2>11. request.step # 0 /\ request'.step # 0
    BY <2>1, <2>2, <2>7
  <2>12. request.changes = 0 =>
            \A p \in ReadParts' : Got(p)' = Present'[p]
    BY <2>4, <2>5, <2>8, <2>9, <2>10, <2>11 DEF Real
  <2>13. ASSUME NEW q \in StatusParts, NEW v, Once(q, v)
         PROVE  Once(q, v)'
    <3>1. ConnectionStatus([Present' EXCEPT ![q] = v]) \in request'.seen
      BY <2>5, <2>7, <2>13 DEF Once
    <3>2. \A p \in ReadParts' \ {q} : Got(p)' = Present'[p]
      BY <2>4, <2>5, <2>8, <2>9, <2>10, <2>13 DEF Once
    <3>3. q \in ReadParts' => Got(q)' = v \/ Got(q)' = Present'[q]
      BY <2>4, <2>5, <2>8, <2>9, <2>10, <2>13 DEF Once
    <3> QED BY <3>1, <3>2, <3>3 DEF Once
  <2> QED BY <2>5, <2>7, <2>11, <2>12, <2>13 DEF Real
<1>5. CASE ReadFails \/ Answer \/ Die
  <2>1. request'.step = 0
    BY <1>5 DEF ReadFails, Answer, Die, NoRequest
  <2> QED BY <2>1 DEF Real
<1>6. CASE \/ CheckDNS \/ LookupHost \/ InsertDNSFails \/ Emit
           \/ Tick \/ SigTerm \/ Restart
  <2>1. UNCHANGED <<stored, request>>
    BY <1>6 DEF CheckDNS, LookupHost, InsertDNSFails, Emit, Tick, SigTerm,
                Restart
  <2> QED BY <1>2, <2>1
<1>7. ASSUME NEW t \in Tables, NEW row,
             rows' = [rows EXCEPT ![t] = Append(@, row)],
             UNCHANGED <<settings, outages>>, Noticed
      PROVE  Real'
  <2>1. OnlyPart(t)
    <3>1. \A k \in Tables \ {t} : rows'[k] = rows[k]
      BY <1>1, <1>7 DEF RowsOK
    <3>2. "settings" \notin Tables /\ "active" \notin Tables
      BY DEF Tables
    <3> QED BY <1>7, <3>1, PartStays DEF OnlyPart
  <2>2. t \in StatusParts
    BY DEF StatusParts
  <2> QED BY <1>1, <1>7, <2>1, <2>2, NoticedReal
<1>8. "dns" \in Tables /\ "latency" \in Tables /\ "speed" \in Tables
  BY DEF Tables
<1>9. CASE InsertDNS
  BY <1>7, <1>8, <1>9 DEF InsertDNS
<1>10. ASSUME NEW v, StoreLatency(v) PROVE Real'
  BY <1>7, <1>8, <1>10 DEF StoreLatency, Stored
<1>11. ASSUME NEW v, StoreSpeed(v) PROVE Real'
  BY <1>7, <1>8, <1>11 DEF StoreSpeed, Stored
<1>12. CASE OpenOutage \/ CloseActiveOutage
  <2>1. UNCHANGED <<settings, rows>> /\ Noticed
    BY <1>12 DEF OpenOutage, CloseActiveOutage
  <2>2. OnlyPart("active") /\ "active" \in StatusParts
    BY <2>1, PartStays DEF OnlyPart, StatusParts
  <2> QED BY <1>1, <2>1, <2>2, NoticedReal
<1>13. CASE PageStep
  <2>1. PageNext /\ UNCHANGED <<rows, outages>>
    BY <1>13 DEF PageStep
  <2>2. CASE version' # version
    <3>1. OnlyPart("settings") /\ "settings" \in StatusParts
      BY <2>1, PartStays DEF OnlyPart, StatusParts
    <3>2. Noticed
      BY <1>13, <2>2 DEF PageStep
    <3> QED BY <1>1, <3>1, <3>2, NoticedReal
  <2>3. CASE version' = version
    <3>1. UNCHANGED <<stored, request>>
      BY <1>1, <1>13, <2>1, <2>3, UnsavedStays DEF PageStep, stored
    <3> QED BY <1>2, <3>1
  <2> QED BY <2>2, <2>3
<1>14. CASE UNCHANGED vars
  BY <1>2, <1>14 DEF vars, pageVars, stored
<1> QED BY <1>3, <1>4, <1>5, <1>6, <1>9, <1>10, <1>11, <1>12, <1>13, <1>14
        DEF Next

LEMMA RealStatus == Sound /\ Real => StatusWasReal
<1> SUFFICES ASSUME Sound, Real, Answered, request.changes < 2
             PROVE  ConnectionStatus(request.got) \in request.seen
  BY DEF StatusWasReal
<1>1. RequestOK
  BY SoundParts
<1>2. Len(Reads) = 8 /\ request.step = 9
  BY <1>1 DEF Reads, Answered, RequestOK
<1>3. ReadParts = StatusParts
  <2>1. /\ Reads[1] = "settings" /\ Reads[2] = "speed"
        /\ Reads[3] = "latency" /\ Reads[4] = "dns" /\ Reads[6] = "active"
    BY DEF Reads
  <2>2. {"settings", "speed", "latency", "dns", "active"}
          \subseteq {Reads[i] : i \in 1..8}
    BY <2>1
  <2> QED BY <1>2, <2>2 DEF ReadParts, StatusParts, Tables
<1>4. ASSUME \A p \in StatusParts : Got(p) = Present[p]
      PROVE  ConnectionStatus(request.got) \in request.seen
  <2>1. ConnectionStatus(request.got) = StatusNow
    BY <1>4, StatusDepends DEF Got, StatusNow
  <2> QED BY <1>2, <2>1 DEF Real
<1>5. CASE request.changes = 0
  BY <1>2, <1>3, <1>4, <1>5 DEF Real
<1>6. CASE request.changes = 1
  <2>0. PICK q \in StatusParts : \E v : Once(q, v)
    BY <1>2, <1>6 DEF Real
  <2>1. PICK v : Once(q, v)
    BY <2>0
  <2>2. CASE Got(q) = v
    <3> DEFINE old == [Present EXCEPT ![q] = v]
    <3>1. \A p \in StatusParts : old[p] = Got(p)
      BY <1>3, <2>1, <2>2, PresentIsParts DEF Once
    <3>2. ConnectionStatus(old) \in request.seen
      BY <2>1 DEF Once
    <3> HIDE DEF old
    <3>3. ConnectionStatus(request.got) = ConnectionStatus(old)
      BY <3>1, StatusDepends DEF Got
    <3> QED BY <3>2, <3>3
  <2>3. CASE Got(q) = Present[q]
    BY <1>3, <1>4, <2>1, <2>3 DEF Once
  <2> QED BY <1>3, <2>1, <2>2, <2>3 DEF Once
<1> QED BY <1>1, <1>5, <1>6 DEF RequestOK

(* The status of a summary is one the connection has had since the request *)
(* came, however its reads and one change of what is stored interleave.    *)
THEOREM StatusWasRealCorrect == Spec => []StatusWasReal
<1>1. Init => Real
  BY DEF Init, NoRequest, Real
<1>2. Sound /\ Real /\ [Next]_vars => Sound' /\ Real'
  BY SoundStep, RealStep
<1> QED BY <1>1, <1>2, RealStatus, SoundInit, PTL DEF Spec

-----------------------------------------------------------------------------
(* Instants as texts.  The text of an instant is compared by its second    *)
(* and then mark by mark.                                                  *)

LEMMA TicksFacts == \A n \in 0..Digits : Ticks[n] \in Nat /\ Ticks[n] # 0
<1> DEFINE V == Nat \ {0}
           step == [p \in (1..Digits) \X V |-> Base * p[2]]
<1>0. Digits \in Nat /\ Base \in Nat /\ Base # 0
  BY FormatAssumption
<1>1. ASSUME NEW v \in V PROVE Base * v \in V
  BY <1>0
<1>2. ASSUME NEW k \in 1..Digits, NEW v \in V PROVE step[<<k, v>>] = Base * v
  OBVIOUS
<1>3. 1 \in V
  OBVIOUS
<1> HIDE DEF V, step
<1>4. StepsIn(step, 1..Digits, V)
  BY <1>1, <1>2 DEF StepsIn
<1>5. PICK run \in [0..Digits -> V] : Runs(run, Digits, 1, step)
  BY <1>0, <1>3, <1>4, RunExists
<1>6. run = [n \in 0..Digits |-> IF n = 0 THEN 1 ELSE Base * run[n - 1]]
  <2>1. ASSUME NEW n \in 0..Digits, n # 0 PROVE run[n] = Base * run[n - 1]
    <3>1. n \in 1..Digits /\ n - 1 \in 0..Digits
      BY <1>0, <2>1
    <3>2. run[n - 1] \in V
      BY <3>1
    <3> QED BY <1>2, <1>5, <3>1, <3>2 DEF Runs
  <2>2. run[0] = 1
    BY <1>5 DEF Runs
  <2> DEFINE h == [n \in 0..Digits |-> IF n = 0 THEN 1 ELSE Base * run[n - 1]]
  <2>3. \A n \in 0..Digits : h[n] = run[n]
    BY <2>1, <2>2
  <2> QED BY <2>3
<1>7. Ticks = [n \in 0..Digits |-> IF n = 0 THEN 1 ELSE Base * Ticks[n - 1]]
  BY <1>6 DEF Ticks
<1> DEFINE U == {n \in 0..Digits : Ticks[n] \in V}
<1>8. 0 \in U
  BY <1>0, <1>3, <1>7
<1>9. ASSUME NEW n \in 1..Digits, n - 1 \in U PROVE n \in U
  <2>1. n \in 0..Digits /\ n # 0
    BY <1>0
  <2>2. Ticks[n] = Base * Ticks[n - 1]
    BY <1>7, <2>1
  <2> QED BY <1>1, <1>9, <2>1, <2>2
<1> HIDE DEF U
<1>10. 0..Digits \subseteq U
  BY <1>0, <1>8, <1>9, RangeInduction
<1> QED BY <1>10 DEF U, V

LEMMA SecondTyped == \A t \in Nat : Second(t) \in Nat
<1>1. Digits \in 0..Digits
  BY FormatAssumption
<1>2. Ticks[Digits] \in Nat /\ Ticks[Digits] # 0
  BY <1>1, TicksFacts
<1> QED BY <1>2 DEF Second

LEMMA MarkTyped ==
    ASSUME NEW t \in Nat, NEW i \in 1..Digits
    PROVE  Mark(t, i) \in Nat
<1>1. Base \in Nat /\ Base # 0 /\ Digits \in Nat
  BY FormatAssumption
<1>2. Digits - i \in 0..Digits
  BY <1>1
<1> DEFINE p == Ticks[Digits - i]
<1>3. p \in Nat /\ p # 0
  BY <1>2, TicksFacts
<1> HIDE DEF p
<1>4. t \div p \in Nat
  BY <1>3
<1>5. (t \div p) % Base \in Nat
  BY <1>1, <1>4
<1> QED BY <1>1, <1>5 DEF Mark, p

(* The marks of two texts agree up to a place.                             *)
Alike(a, b, i) == \A k \in 1..i-1 : Mark(a, k) = Mark(b, k)

LEMMA TextFacts ==
    ASSUME NEW a \in Nat, NEW b \in Nat
    PROVE  /\ TextBefore(a, b) => Second(a) <= Second(b)
           /\ Second(a) < Second(b) => TextBefore(a, b)
           /\ Second(a) = Second(b) =>
                (TextBefore(a, b) <=>
                   \E i \in 1..Digits : /\ Mark(a, i) < Mark(b, i)
                                        /\ Alike(a, b, i))
<1>1. Second(a) \in Nat /\ Second(b) \in Nat
  BY SecondTyped
<1> QED BY <1>1 DEF TextBefore, Alike

LEMMA TextAsymmetric ==
    ASSUME NEW a \in Nat, NEW b \in Nat, TextBefore(a, b)
    PROVE  ~TextBefore(b, a)
<1> SUFFICES ASSUME TextBefore(b, a) PROVE FALSE
  OBVIOUS
<1>1. Second(a) = Second(b)
  <2>1. Second(a) \in Nat /\ Second(b) \in Nat
    BY SecondTyped
  <2>2. Second(a) <= Second(b) /\ Second(b) <= Second(a)
    BY TextFacts
  <2> QED BY <2>1, <2>2
<1>2. PICK i \in 1..Digits : Mark(a, i) < Mark(b, i) /\ Alike(a, b, i)
  BY <1>1, TextFacts
<1>3. PICK j \in 1..Digits : Mark(b, j) < Mark(a, j) /\ Alike(b, a, j)
  BY <1>1, TextFacts
<1>4. /\ Mark(a, i) \in Nat /\ Mark(b, i) \in Nat
      /\ Mark(a, j) \in Nat /\ Mark(b, j) \in Nat
  BY MarkTyped
<1>5. CASE i < j
  <2>1. Mark(b, i) = Mark(a, i)
    BY <1>3, <1>5 DEF Alike
  <2> QED BY <1>2, <1>4, <2>1
<1>6. CASE j < i
  <2>1. Mark(a, j) = Mark(b, j)
    BY <1>2, <1>6 DEF Alike
  <2> QED BY <1>3, <1>4, <2>1
<1>7. CASE i = j
  BY <1>2, <1>3, <1>4, <1>7
<1> QED BY <1>5, <1>6, <1>7

LEMMA TextSplits ==
    ASSUME NEW a \in Nat, NEW b \in Nat, NEW c \in Nat, TextBefore(a, c)
    PROVE  TextBefore(a, b) \/ TextBefore(b, c)
<1>1. Second(a) \in Nat /\ Second(b) \in Nat /\ Second(c) \in Nat
  BY SecondTyped
<1>2. CASE Second(b) # Second(a) \/ Second(b) # Second(c)
  <2>1. Second(a) <= Second(c)
    BY TextFacts
  <2>2. Second(a) < Second(b) \/ Second(b) < Second(c)
    BY <1>1, <1>2, <2>1
  <2> QED BY <2>2, TextFacts
<1>3. CASE Second(b) = Second(a) /\ Second(b) = Second(c)
  <2>1. PICK i \in 1..Digits : Mark(a, i) < Mark(c, i) /\ Alike(a, c, i)
    BY <1>3, TextFacts
  <2> DEFINE T == {k \in 1..Digits :
                     Mark(b, k) # Mark(a, k) \/ Mark(b, k) # Mark(c, k)}
  <2>2. T \in SUBSET Nat /\ T # {}
    <3>1. Mark(a, i) # Mark(c, i)
      BY <2>1, MarkTyped
    <3> QED BY <3>1
  <2>3. PICK j \in T : \A k \in T : j <= k
    <3> HIDE DEF T
    <3> QED BY <2>2, LeastMember
  <2>4. \A k \in 1..j-1 : Mark(b, k) = Mark(a, k) /\ Mark(b, k) = Mark(c, k)
    <3> TAKE k \in 1..j-1
    <3>1. k \in 1..Digits /\ ~(j <= k)
      BY FormatAssumption
    <3> QED BY <2>3, <3>1
  <2>5. Alike(a, b, j) /\ Alike(b, c, j)
    BY <2>4 DEF Alike
  <2>6. j <= i
    <3>1. i \in T
      BY <2>1, MarkTyped
    <3> QED BY <2>3, <3>1
  <2>7. Mark(a, j) <= Mark(c, j)
    <3>1. Mark(a, j) \in Nat /\ Mark(c, j) \in Nat
      BY MarkTyped
    <3>2. CASE j = i
      BY <2>1, <3>1, <3>2
    <3>3. CASE j < i
      <4>1. Mark(a, j) = Mark(c, j)
        BY <2>1, <3>3 DEF Alike
      <4> QED BY <3>1, <4>1
    <3> QED BY <2>6, <3>2, <3>3
  <2>8. Mark(a, j) < Mark(b, j) \/ Mark(b, j) < Mark(c, j)
    <3>1. Mark(a, j) \in Nat /\ Mark(b, j) \in Nat /\ Mark(c, j) \in Nat
      BY MarkTyped
    <3>2. Mark(b, j) # Mark(a, j) \/ Mark(b, j) # Mark(c, j)
      OBVIOUS
    <3> QED BY <2>7, <3>1, <3>2
  <2>9. j \in 1..Digits
    OBVIOUS
  <2> HIDE DEF T
  <2> QED BY <1>3, <2>5, <2>8, <2>9, TextFacts
<1> QED BY <1>2, <1>3

(* The texts the store writes are ordered strictly, and as the seconds     *)
(* are: a query that sorts by them misplaces only rows of one second.      *)
THEOREM TextOrder ==
    \A a, b, c \in Nat :
        /\ ~TextBefore(a, a)
        /\ TextBefore(a, b) /\ TextBefore(b, c) => TextBefore(a, c)
        /\ TextBefore(a, b) => Second(a) <= Second(b)
        /\ Second(a) < Second(b) => TextBefore(a, b)
<1> TAKE a, b, c \in Nat
<1>1. ~TextBefore(a, a)
  BY TextAsymmetric
<1>2. TextBefore(a, b) /\ TextBefore(b, c) => TextBefore(a, c)
  BY TextAsymmetric, TextSplits
<1> QED BY <1>1, <1>2, TextFacts

-----------------------------------------------------------------------------
(* The answers to the queries. *)

AtNat(table) == \A i \in DOMAIN table : table[i].at \in Nat

LEMMA FirstExists ==
    ASSUME NEW table, NEW n \in Nat \ {0}, DOMAIN table = 1..n, AtNat(table)
    PROVE  \E i \in 1..n : First(table, 1..n, i)
<1> DEFINE U == {m \in 0..n : m = 0 \/ \E i \in 1..m : First(table, 1..m, i)}
<1>1. 0 \in U
  OBVIOUS
<1>2. ASSUME NEW m \in 1..n, m - 1 \in U PROVE m \in U
  <2>0. /\ m \in 0..n /\ 1..m = 1..m-1 \cup {m} /\ m \in 1..m
        /\ 1..m \subseteq 1..n
    OBVIOUS
  <2>1. \A i \in 1..m : table[i].at \in Nat
    BY <2>0 DEF AtNat
  <2>2. CASE m = 1
    <3>1. First(table, 1..m, m)
      BY <2>2 DEF First
    <3> QED BY <2>0, <3>1
  <2>3. CASE m # 1
    <3>1. PICK i \in 1..m-1 : First(table, 1..m-1, i)
      BY <1>2, <2>3
    <3>2. i \in 1..m /\ i < m
      OBVIOUS
    <3>3. CASE TextBefore(table[m].at, table[i].at)
      <4>1. First(table, 1..m, i)
        BY <2>0, <3>1, <3>3 DEF First
      <4> QED BY <2>0, <3>2, <4>1
    <3>4. CASE ~TextBefore(table[m].at, table[i].at)
      <4>1. ASSUME NEW k \in 1..m \ {m}
            PROVE  \/ TextBefore(table[k].at, table[m].at)
                   \/ ~TextBefore(table[m].at, table[k].at) /\ k < m
        <5>1. k \in 1..m /\ k \in 1..m-1 /\ k < m
          BY <2>0
        <5>2. CASE k = i
          BY <3>4, <5>1, <5>2
        <5>3. CASE TextBefore(table[k].at, table[i].at)
          <6>1. ~TextBefore(table[m].at, table[k].at)
            BY <2>0, <2>1, <3>2, <3>4, <5>1, <5>3, TextOrder
          <6> QED BY <5>1, <6>1
        <5>4. CASE ~TextBefore(table[i].at, table[k].at)
          <6>1. ~TextBefore(table[m].at, table[k].at)
            BY <2>0, <2>1, <3>2, <3>4, <5>1, <5>4, TextSplits
          <6> QED BY <5>1, <6>1
        <5> QED BY <3>1, <5>1, <5>2, <5>3, <5>4 DEF First
      <4>2. First(table, 1..m, m)
        BY <4>1 DEF First
      <4> QED BY <2>0, <4>2
    <3> QED BY <3>3, <3>4
  <2> QED BY <2>2, <2>3
<1> HIDE DEF U
<1>3. 0..n \subseteq U
  BY <1>1, <1>2, RangeInduction
<1>4. n \in U
  BY <1>3
<1> QED BY <1>4 DEF U

LEMMA FirstRowStored ==
    ASSUME NEW table, NEW ids, FirstRow(table, ids) # <<>>
    PROVE  \E i \in ids : FirstRow(table, ids) = <<table[i]>>
BY DEF FirstRow

LEMMA LatestFacts ==
    ASSUME NEW S, NEW table \in Seq(S), AtNat(table), NEW k \in DOMAIN table
    PROVE  /\ Latest(table) # <<>>
           /\ Second(Latest(table)[1].at) >= Second(table[k].at)
<1> DEFINE n == Len(table)
           first == {i \in 1..n : First(table, 1..n, i)}
<1>1. n \in Nat \ {0} /\ DOMAIN table = 1..n
  OBVIOUS
<1> HIDE DEF n
<1>2. first # {}
  BY <1>1, FirstExists
<1> DEFINE i == CHOOSE i \in first : TRUE
<1>3. i \in first
  BY <1>2
<1>4. Latest(table) = <<table[i]>>
  BY <1>1, <1>2 DEF Latest, FirstRow
<1> HIDE DEF i
<1>5. i \in DOMAIN table /\ First(table, DOMAIN table, i)
  BY <1>1, <1>3
<1>6. Second(table[k].at) \in Nat /\ Second(table[i].at) \in Nat
  BY <1>5, SecondTyped DEF AtNat
<1>7. Second(table[k].at) <= Second(table[i].at)
  <2>1. CASE k = i
    BY <1>6, <2>1
  <2>2. CASE TextBefore(table[k].at, table[i].at)
    BY <1>5, <2>2, TextFacts DEF AtNat
  <2>3. CASE ~TextBefore(table[i].at, table[k].at)
    <3>1. ~(Second(table[i].at) < Second(table[k].at))
      BY <1>5, <2>3, TextFacts DEF AtNat
    <3> QED BY <1>6, <3>1
  <2> QED BY <1>5, <2>1, <2>2, <2>3 DEF First
<1> QED BY <1>4, <1>6, <1>7

(* A row of a later second than an instant is among the rows since then.   *)
LEMMA FromFacts ==
    ASSUME NEW S, NEW table \in Seq(S), AtNat(table), NEW since \in Nat
    PROVE  /\ IsFiniteSet(From(table, since))
           /\ From(table, since) \subseteq S
           /\ \A i \in DOMAIN table :
                 Second(table[i].at) > Second(since)
                    => table[i] \in From(table, since)
<1> DEFINE K == {k \in DOMAIN table : ~TextBefore(table[k].at, since)}
           g == [k \in K |-> table[k]]
<1>1. IsFiniteSet(K)
  <2>1. IsFiniteSet(1..Len(table)) /\ K \subseteq 1..Len(table)
    BY FS_Interval
  <2> HIDE DEF K
  <2> QED BY <2>1, FS_Subset
<1>2. g \in Surjection(K, From(table, since))
  BY DEF Surjection, From
<1>3. IsFiniteSet(From(table, since))
  <2> HIDE DEF g, K
  <2> QED BY <1>1, <1>2, FS_Surjection
<1>4. ASSUME NEW i \in DOMAIN table, Second(table[i].at) > Second(since)
      PROVE  table[i] \in From(table, since)
  <2>1. table[i].at \in Nat
    BY DEF AtNat
  <2>2. Second(table[i].at) \in Nat /\ Second(since) \in Nat
    BY <2>1, SecondTyped
  <2>3. ~TextBefore(table[i].at, since)
    BY <1>4, <2>1, <2>2, TextFacts
  <2> QED BY <2>3 DEF From
<1> QED BY <1>3, <1>4 DEF From

(* A good value is within the bounds of what it is among.                  *)
LEMMA BoundsFacts ==
    ASSUME NEW found, IsFiniteSet(found), \A r \in found : r.value \in Nat,
           NEW r \in found, r.value # 0
    PROVE  Within(r.value, Bounds(found))
<1> DEFINE V == {q.value : q \in found}
           g == [q \in found |-> q.value]
<1>1. IsFiniteSet(V)
  <2>1. g \in Surjection(found, V)
    BY DEF Surjection
  <2> HIDE DEF g, V
  <2> QED BY <2>1, FS_Surjection
<1>2. Good(found) = V \ {0} /\ Good(found) \in SUBSET Nat
  BY DEF Good
<1>3. IsFiniteSet(Good(found))
  <2> HIDE DEF V
  <2> QED BY <1>1, <1>2, FS_Subset
<1>4. r.value \in Good(found)
  BY DEF Good
<1>5. Good(found) \in SUBSET Int /\ Good(found) # {}
  BY <1>2, <1>4
<1>6. Min(Good(found)) <= r.value
  BY <1>2, <1>4, <1>5, MinOf
<1>7. Max(Good(found)) >= r.value /\ Max(Good(found)) \in Int
  BY <1>3, <1>4, <1>5, MaxOf
<1>8. r.value <= Max(Good(found))
  BY <1>7
<1> QED BY <1>5, <1>6, <1>8 DEF Within, Bounds

-----------------------------------------------------------------------------
(* The parts of a summary. *)

(* What has been read of a table is a row that is still there, and as new  *)
(* as the rows the request found; the figures read later allow for it.     *)
StoredRow(t) ==
    request.got[t] # <<>> =>
        \E i \in DOMAIN rows[t] : request.got[t] = <<rows[t][i]>>
Newest(t) ==
    \A i \in 1..request.known[t] :
        /\ request.got[t] # <<>>
        /\ Second(request.got[t][1].at) >= Second(rows[t][i].at)
LatencyFits ==
    After(request.got.latency) =>
        /\ request.got.latency24h.any
        /\ IF Failed(request.got.latency) THEN request.got.latency24h.loss
           ELSE Within(request.got.latency[1].value,
                       request.got.latency24h.bounds)
ActiveStored ==
    request.got.active # <<>> =>
        \E i \in DOMAIN outages : outages[i].at = request.got.active[1].at
ActiveCounted == After(request.got.active) => request.got.count > 0
SpeedFits ==
    After(request.got.speed) /\ ~Failed(request.got.speed) =>
        Within(request.got.speed[1].value, request.got.bounds)
Coherent ==
    /\ request.since \in Nat
    /\ request.step > 2 => StoredRow("speed") /\ Newest("speed")
    /\ request.step > 3 => StoredRow("latency") /\ Newest("latency")
    /\ request.step > 4 => Newest("dns")
    /\ request.step > 5 => LatencyFits
    /\ request.step > 6 => ActiveStored
    /\ request.step > 7 => ActiveCounted
    /\ request.step > 8 => SpeedFits

(* Rows stay where they are, and the instants of outages too.              *)
RowsStay ==
    \A t \in Tables : \A i \in DOMAIN rows[t] :
        i \in DOMAIN rows'[t] /\ rows'[t][i] = rows[t][i]
OutagesStay ==
    \A i \in DOMAIN outages :
        i \in DOMAIN outages' /\ outages'[i].at = outages[i].at
RequestStays ==
    /\ request'.step = request.step /\ request'.since = request.since
    /\ request'.known = request.known /\ request'.got = request.got

LEMMA NoticedStays == ASSUME RequestOK, Noticed PROVE RequestStays
BY DEF RequestOK, Noticed, RequestStays

LEMMA SeqFacts ==
    ASSUME NEW S, NEW s \in Seq(S)
    PROVE  /\ Len(s) \in Nat /\ DOMAIN s = 1..Len(s)
           /\ \A i \in DOMAIN s : s[i] \in S
OBVIOUS

LEMMA OutageFacts ==
    ASSUME Sound
    PROVE  /\ Len(outages) \in Nat /\ DOMAIN outages = 1..Len(outages)
           /\ \A i \in DOMAIN outages :
                 /\ outages[i] \in [at : Day..now, open : BOOLEAN]
                 /\ outages[i].at \in Nat
<1> DEFINE O == [at : Day..now, open : BOOLEAN]
<1>1. outages \in Seq(O) /\ Day \in Nat /\ now \in Nat
  BY SoundParts, DayAssumption DEF RowsOK, ClockOK
<1>2. \A o \in O : o.at \in Nat
  BY <1>1
<1>3. O = [at : Day..now, open : BOOLEAN]
  OBVIOUS
<1> HIDE DEF O
<1>4. /\ Len(outages) \in Nat /\ DOMAIN outages = 1..Len(outages)
      /\ \A i \in DOMAIN outages : outages[i] \in O
  BY <1>1, SeqFacts
<1>5. \A i \in DOMAIN outages : outages[i].at \in Nat
  BY <1>2, <1>4
<1> QED BY <1>3, <1>4, <1>5

LEMMA RequestAdvance ==
    ASSUME Sound, [Next]_vars
    PROVE  \/ RowsStay /\ OutagesStay /\ RequestStays
           \/ Ask \/ Read
           \/ request' = NoRequest
<1>1. PageTypeOK /\ RowsOK /\ RequestOK
  BY SoundParts
<1>2. UNCHANGED rows => RowsStay
  BY DEF RowsStay
<1>3. UNCHANGED outages => OutagesStay
  BY DEF OutagesStay
<1>4. UNCHANGED request => RequestStays
  BY DEF RequestStays
<1>5. CASE ReadFails \/ Answer \/ Die
  BY <1>5 DEF ReadFails, Answer, Die
<1>6. CASE \/ CheckDNS \/ LookupHost \/ InsertDNSFails \/ Emit
           \/ Tick \/ SigTerm \/ Restart
  <2>1. UNCHANGED <<stored, request>>
    BY <1>6 DEF CheckDNS, LookupHost, InsertDNSFails, Emit, Tick, SigTerm,
                Restart
  <2> QED BY <1>2, <1>3, <1>4, <2>1 DEF stored
<1>7. ASSUME NEW t \in Tables, NEW row,
             rows' = [rows EXCEPT ![t] = Append(@, row)],
             UNCHANGED outages, Noticed
      PROVE  RowsStay /\ OutagesStay /\ RequestStays
  <2>1. RowsStay
    <3>1. \A u \in Tables : \E S : rows[u] \in Seq(S)
      BY <1>1 DEF RowsOK, Tables
    <3>2. PICK S : rows[t] \in Seq(S)
      BY <3>1
    <3>3. /\ rows'[t] = Append(rows[t], row)
          /\ \A u \in Tables \ {t} : rows'[u] = rows[u]
      BY <1>1, <1>7 DEF RowsOK
    <3>4. \A i \in DOMAIN rows[t] :
             /\ i \in DOMAIN Append(rows[t], row)
             /\ Append(rows[t], row)[i] = rows[t][i]
      BY <3>2
    <3> QED BY <3>3, <3>4 DEF RowsStay
  <2> QED BY <1>1, <1>3, <1>7, <2>1, NoticedStays
<1>8. "dns" \in Tables /\ "latency" \in Tables /\ "speed" \in Tables
  BY DEF Tables
<1>9. CASE InsertDNS
  BY <1>7, <1>8, <1>9 DEF InsertDNS
<1>10. ASSUME NEW v, StoreLatency(v)
       PROVE  RowsStay /\ OutagesStay /\ RequestStays
  BY <1>7, <1>8, <1>10 DEF StoreLatency, Stored
<1>11. ASSUME NEW v, StoreSpeed(v)
       PROVE  RowsStay /\ OutagesStay /\ RequestStays
  BY <1>7, <1>8, <1>11 DEF StoreSpeed, Stored
<1>12. CASE OpenOutage
  <2>1. /\ outages' = Append(outages, [at |-> now, open |-> TRUE])
        /\ UNCHANGED rows /\ Noticed
    BY <1>12 DEF OpenOutage
  <2>2. /\ outages \in Seq([at : Day..now, open : BOOLEAN])
        /\ \A x : \A i \in DOMAIN outages :
              /\ i \in DOMAIN Append(outages, x)
              /\ Append(outages, x)[i] = outages[i]
    BY <1>1 DEF RowsOK
  <2>3. OutagesStay
    BY <2>1, <2>2 DEF OutagesStay
  <2> QED BY <1>1, <1>2, <2>1, <2>3, NoticedStays
<1>13. CASE CloseActiveOutage
  <2>1. /\ outages' = [i \in DOMAIN outages |->
                         [outages[i] EXCEPT !.open = FALSE]]
        /\ UNCHANGED rows /\ Noticed
    BY <1>13 DEF CloseActiveOutage
  <2>2. \A i \in DOMAIN outages : outages[i] \in [at : Day..now, open : BOOLEAN]
    BY OutageFacts
  <2>3. \A i \in DOMAIN outages :
           i \in DOMAIN outages' /\ outages'[i] = [outages[i] EXCEPT !.open = FALSE]
    BY <2>1
  <2>4. \A o \in [at : Day..now, open : BOOLEAN] :
           [o EXCEPT !.open = FALSE].at = o.at
    OBVIOUS
  <2>5. OutagesStay
    BY <2>2, <2>3, <2>4 DEF OutagesStay
  <2> QED BY <1>1, <1>2, <2>1, <2>5, NoticedStays
<1>14. CASE PageStep
  <2>1. UNCHANGED <<rows, outages>> /\ (Noticed \/ UNCHANGED request)
    BY <1>14 DEF PageStep
  <2> QED BY <1>1, <1>2, <1>3, <1>4, <2>1, NoticedStays
<1>15. CASE UNCHANGED vars
  BY <1>2, <1>3, <1>4, <1>15 DEF vars
<1> QED BY <1>5, <1>6, <1>9, <1>10, <1>11, <1>12, <1>13, <1>14, <1>15 DEF Next

LEMMA PartsStay ==
    ASSUME Sound, RowsStay, OutagesStay,
           request'.known = request.known, request'.since = request.since
    PROVE  /\ \A t \in Tables : request'.got[t] = request.got[t] =>
                 /\ StoredRow(t) => StoredRow(t)'
                 /\ Newest(t) => Newest(t)'
           /\ /\ request'.got.latency = request.got.latency
              /\ request'.got.latency24h = request.got.latency24h
              => (LatencyFits => LatencyFits')
           /\ request'.got.active = request.got.active =>
                 (ActiveStored => ActiveStored')
           /\ /\ request'.got.active = request.got.active
              /\ request'.got.count = request.got.count
              => (ActiveCounted => ActiveCounted')
           /\ /\ request'.got.speed = request.got.speed
              /\ request'.got.bounds = request.got.bounds
              => (SpeedFits => SpeedFits')
<1>1. RowsOK /\ KnownOK
  BY SoundParts
<1>2. \A row : After(row)' = (row # <<>>
                               /\ Second(row[1].at) > Second(request.since))
  BY DEF After
<1>3. \A row : After(row) = (row # <<>>
                               /\ Second(row[1].at) > Second(request.since))
  BY DEF After
<1>4. ASSUME NEW t \in Tables, request'.got[t] = request.got[t], StoredRow(t)
      PROVE  StoredRow(t)'
  BY <1>4 DEF StoredRow, RowsStay
<1>5. ASSUME NEW t \in Tables, request'.got[t] = request.got[t], Newest(t)
      PROVE  Newest(t)'
  <2>1. 1..request.known[t] \subseteq DOMAIN rows[t]
    <3>1. \E S : rows[t] \in Seq(S)
      BY <1>1 DEF RowsOK, Tables
    <3>2. request.known[t] \in 0..Len(rows[t])
      BY <1>1 DEF KnownOK
    <3> QED BY <3>1, <3>2
  <2>2. \A i \in 1..request.known[t] : rows'[t][i] = rows[t][i]
    BY <2>1 DEF RowsStay
  <2> QED BY <1>5, <2>2 DEF Newest
<1>6. ASSUME request'.got.latency = request.got.latency,
             request'.got.latency24h = request.got.latency24h, LatencyFits
      PROVE  LatencyFits'
  BY <1>2, <1>3, <1>6 DEF LatencyFits
<1>7. ASSUME request'.got.active = request.got.active, ActiveStored
      PROVE  ActiveStored'
  BY <1>7 DEF ActiveStored, OutagesStay
<1>8. ASSUME request'.got.active = request.got.active,
             request'.got.count = request.got.count, ActiveCounted
      PROVE  ActiveCounted'
  BY <1>2, <1>3, <1>8 DEF ActiveCounted
<1>9. ASSUME request'.got.speed = request.got.speed,
             request'.got.bounds = request.got.bounds, SpeedFits
      PROVE  SpeedFits'
  BY <1>2, <1>3, <1>9 DEF SpeedFits
<1> QED BY <1>4, <1>5, <1>6, <1>7, <1>8, <1>9

LEMMA TableFacts ==
    ASSUME Sound, NEW t \in Tables
    PROVE  /\ rows[t] \in Seq(Row) \/ rows[t] \in Seq(Lookup)
           /\ AtNat(rows[t]) /\ \A i \in DOMAIN rows[t] : rows[t][i].value \in Nat
<1>1. rows[t] \in Seq(Row) \/ rows[t] \in Seq(Lookup)
  BY SoundParts DEF RowsOK, Tables
<1>2. \A x \in Row \cup Lookup : x.at \in Nat /\ x.value \in Nat
  BY DayAssumption, SoundParts DEF Row, Lookup, ClockOK
<1>3. \A i \in DOMAIN rows[t] : rows[t][i] \in Row \cup Lookup
  BY <1>1
<1> QED BY <1>1, <1>2, <1>3 DEF AtNat

(* The latest row of a table, read, is stored and the newest.              *)
LEMMA LatestRead ==
    ASSUME Sound, NEW t \in Tables, UNCHANGED rows,
           request'.known = request.known, request'.got[t] = Latest(rows[t])
    PROVE  StoredRow(t)' /\ Newest(t)'
<1>1. PICK S : rows[t] \in Seq(S)
  BY TableFacts
<1>2. Latest(rows[t]) # <<>> =>
         \E i \in DOMAIN rows[t] : Latest(rows[t]) = <<rows[t][i]>>
  BY FirstRowStored DEF Latest
<1>3. AtNat(rows[t])
  BY TableFacts
<1>4. 1..request.known[t] \subseteq DOMAIN rows[t]
  <2>1. request.known[t] \in 0..Len(rows[t])
    BY SoundParts DEF KnownOK
  <2> QED BY <1>1, <2>1
<1>5. \A i \in 1..request.known[t] :
         /\ Latest(rows[t]) # <<>>
         /\ Second(Latest(rows[t])[1].at) >= Second(rows[t][i].at)
  BY <1>1, <1>3, <1>4, LatestFacts
<1> QED BY <1>2, <1>5 DEF StoredRow, Newest

LEMMA LatencyRead ==
    ASSUME Sound, StoredRow("latency"), request.since \in Nat,
           request'.since = request.since,
           request'.got.latency = request.got.latency,
           request'.got.latency24h = LatencySummary(request.since)
    PROVE  LatencyFits'
<1> DEFINE row == request.got.latency
           found == From(rows["latency"], request.since)
           sum == LatencySummary(request.since)
<1>0. "latency" \in Tables
  BY DEF Tables
<1> SUFFICES ASSUME row # <<>>, Second(row[1].at) > Second(request.since)
             PROVE  /\ sum.any
                    /\ IF Failed(row) THEN sum.loss
                       ELSE Within(row[1].value, sum.bounds)
  BY DEF LatencyFits, After
<1>1. PICK i \in DOMAIN rows["latency"] : row = <<rows["latency"][i]>>
  BY DEF StoredRow
<1>2. row[1] = rows["latency"][i]
  BY <1>1
<1>3. rows["latency"] \in Seq(Row) /\ AtNat(rows["latency"])
  BY <1>0, TableFacts, SoundParts DEF RowsOK
<1>4. row[1] \in found /\ IsFiniteSet(found) /\ found \subseteq Row
  BY <1>2, <1>3, FromFacts
<1>5. \A r \in found : r.value \in Nat
  BY <1>4 DEF Row
<1>6. /\ sum.any <=> found # {}
      /\ sum.loss <=> \E r \in found : r.value = 0
      /\ sum.bounds = Bounds(found)
  BY DEF LatencySummary
<1> HIDE DEF found, sum, row
<1>7. CASE Failed(row)
  BY <1>4, <1>6, <1>7 DEF Failed
<1>8. CASE ~Failed(row)
  <2>1. row[1].value # 0
    BY <1>8 DEF Failed
  <2>2. Within(row[1].value, Bounds(found))
    BY <1>4, <1>5, <2>1, BoundsFacts
  <2> QED BY <1>4, <1>6, <1>8, <2>2
<1> QED BY <1>7, <1>8

LEMMA SpeedRead ==
    ASSUME Sound, StoredRow("speed"), request.since \in Nat,
           request'.since = request.since,
           request'.got.speed = request.got.speed,
           request'.got.bounds = SpeedBoundsSince(request.since)
    PROVE  SpeedFits'
<1> DEFINE row == request.got.speed
           found == From(rows["speed"], request.since)
<1>0. "speed" \in Tables
  BY DEF Tables
<1> SUFFICES ASSUME row # <<>>, Second(row[1].at) > Second(request.since),
                    ~Failed(row)
             PROVE  Within(row[1].value, Bounds(found))
  BY DEF SpeedFits, After, SpeedBoundsSince
<1>1. PICK i \in DOMAIN rows["speed"] : row = <<rows["speed"][i]>>
  BY DEF StoredRow
<1>2. row[1] = rows["speed"][i]
  BY <1>1
<1>3. rows["speed"] \in Seq(Row) /\ AtNat(rows["speed"])
  BY <1>0, TableFacts, SoundParts DEF RowsOK
<1>4. row[1] \in found /\ IsFiniteSet(found) /\ found \subseteq Row
  BY <1>2, <1>3, FromFacts
<1>5. \A r \in found : r.value \in Nat
  BY <1>4 DEF Row
<1>6. row[1].value # 0
  BY DEF Failed
<1> HIDE DEF found, row
<1> QED BY <1>4, <1>5, <1>6, BoundsFacts

LEMMA ActiveRead ==
    ASSUME UNCHANGED outages, request'.got.active = ActiveOutage
    PROVE  ActiveStored'
<1>1. ActiveOutage # <<>> =>
         \E i \in DOMAIN outages : ActiveOutage = <<outages[i]>>
  BY FirstRowStored DEF ActiveOutage
<1> QED BY <1>1 DEF ActiveStored

LEMMA CountRead ==
    ASSUME Sound, ActiveStored, request.since \in Nat,
           request'.since = request.since,
           request'.got.active = request.got.active,
           request'.got.count = OutageCountSince(request.since)
    PROVE  ActiveCounted'
<1> DEFINE row == request.got.active
           K == {i \in DOMAIN outages : ~TextBefore(outages[i].at, request.since)}
<1> SUFFICES ASSUME row # <<>>, Second(row[1].at) > Second(request.since)
             PROVE  Cardinality(K) > 0
  BY DEF ActiveCounted, After, OutageCountSince
<1>1. PICK i \in DOMAIN outages : outages[i].at = row[1].at
  BY DEF ActiveStored
<1>2. outages[i].at \in Nat
  BY OutageFacts
<1>3. Second(outages[i].at) \in Nat /\ Second(request.since) \in Nat
  BY <1>2, SecondTyped
<1>4. i \in K
  BY <1>1, <1>2, <1>3, TextFacts
<1>5. IsFiniteSet(K)
  <2>1. /\ Len(outages) \in Nat /\ K \subseteq 1..Len(outages)
        /\ IsFiniteSet(1..Len(outages))
    BY OutageFacts, FS_Interval
  <2> HIDE DEF K
  <2> QED BY <2>1, FS_Subset
<1> HIDE DEF K
<1>6. Cardinality(K) \in Nat /\ Cardinality(K) # 0
  BY <1>4, <1>5, FS_CardinalityType, FS_EmptySet
<1> QED BY <1>6

LEMMA CoherentStep ==
    ASSUME Sound, Coherent, [Next]_vars
    PROVE  Coherent'
<1>1. RequestOK /\ ClockOK
  BY SoundParts
<1>2. {"speed", "latency", "dns"} = Tables
  BY DEF Tables
<1>3. CASE RowsStay /\ OutagesStay /\ RequestStays
  <2>1. /\ request'.step = request.step /\ request'.since = request.since
        /\ request'.got = request.got
    BY <1>3 DEF RequestStays
  <2> QED BY <1>2, <1>3, <2>1, PartsStay DEF Coherent, RequestStays
<1>4. CASE Ask
  <2>1. request'.step = 1 /\ request'.since = now - Day
    BY <1>4 DEF Ask
  <2>2. now - Day \in Nat
    BY <1>1, DayAssumption DEF ClockOK
  <2> QED BY <2>1, <2>2 DEF Coherent
<1>5. CASE request' = NoRequest
  <2>1. request'.step = 0 /\ request'.since = 0
    BY <1>5 DEF NoRequest
  <2> QED BY <2>1 DEF Coherent
<1>6. CASE Read
  <2> DEFINE n == request.step
             part == Reads[n]
             value == Query(part, request.since)
  <2>1. /\ UNCHANGED stored /\ n \in 1..8
        /\ request' = [request EXCEPT !.step = @ + 1, !.got[part] = value]
    BY <1>6 DEF Read, Reads
  <2>2. /\ Reads[1] = "settings" /\ Reads[2] = "speed"
        /\ Reads[3] = "latency" /\ Reads[4] = "dns"
        /\ Reads[5] = "latency24h" /\ Reads[6] = "active"
        /\ Reads[7] = "count" /\ Reads[8] = "bounds"
    BY DEF Reads
  <2>3. part \in ReadNames
    BY <2>1, <2>2 DEF ReadNames
  <2>4. RowsStay /\ OutagesStay /\ UNCHANGED <<rows, outages>>
    BY <2>1 DEF stored, RowsStay, OutagesStay
  <2>5. /\ part \in Tables => value = Latest(rows[part])
        /\ part = "latency24h" => value = LatencySummary(request.since)
        /\ part = "active" => value = ActiveOutage
        /\ part = "count" => value = OutageCountSince(request.since)
        /\ part = "bounds" => value = SpeedBoundsSince(request.since)
    BY DEF Query, Tables
  <2> HIDE DEF value, part
  <2>6. /\ request'.step = n + 1 /\ request'.since = request.since
        /\ request'.known = request.known
        /\ request'.got = [request.got EXCEPT ![part] = value]
    <3>1. request' = [step |-> n + 1, since |-> request.since,
                      known |-> request.known,
                      got |-> [request.got EXCEPT ![part] = value],
                      seen |-> request.seen, changes |-> request.changes]
      BY <1>1, <2>1 DEF RequestOK
    <3> QED BY <3>1
  <2>7. \A p \in ReadNames :
           request'.got[p] = IF p = part THEN value ELSE request.got[p]
    BY <1>1, <2>3, <2>6 DEF RequestOK
  <2>8. /\ request'.got.speed = IF part = "speed" THEN value
                                ELSE request.got.speed
        /\ request'.got.latency = IF part = "latency" THEN value
                                  ELSE request.got.latency
        /\ request'.got.dns = IF part = "dns" THEN value ELSE request.got.dns
        /\ request'.got.latency24h = IF part = "latency24h" THEN value
                                     ELSE request.got.latency24h
        /\ request'.got.active = IF part = "active" THEN value
                                 ELSE request.got.active
        /\ request'.got.count = IF part = "count" THEN value
                                ELSE request.got.count
        /\ request'.got.bounds = IF part = "bounds" THEN value
                                 ELSE request.got.bounds
    BY <2>7 DEF ReadNames
  <2>9. n = 2 => StoredRow("speed")' /\ Newest("speed")'
    BY <1>2, <2>2, <2>4, <2>5, <2>6, <2>8, LatestRead DEF part
  <2>10. n = 3 => StoredRow("latency")' /\ Newest("latency")'
    BY <1>2, <2>2, <2>4, <2>5, <2>6, <2>8, LatestRead DEF part
  <2>11. n = 4 => Newest("dns")'
    BY <1>2, <2>2, <2>4, <2>5, <2>6, <2>8, LatestRead DEF part
  <2>12. n = 5 => LatencyFits'
    BY <2>2, <2>5, <2>6, <2>8, LatencyRead DEF part, Coherent
  <2>13. n = 6 => ActiveStored'
    BY <2>2, <2>4, <2>5, <2>8, ActiveRead DEF part
  <2>14. n = 7 => ActiveCounted'
    BY <2>2, <2>5, <2>6, <2>8, CountRead DEF part, Coherent
  <2>15. n = 8 => SpeedFits'
    BY <2>2, <2>5, <2>6, <2>8, SpeedRead DEF part, Coherent
  <2>16. /\ n > 2 => StoredRow("speed")' /\ Newest("speed")'
         /\ n > 3 => StoredRow("latency")' /\ Newest("latency")'
         /\ n > 4 => Newest("dns")'
         /\ n > 5 => LatencyFits'
         /\ n > 6 => ActiveStored'
         /\ n > 7 => ActiveCounted'
         /\ n > 8 => SpeedFits'
    <3>1. /\ n > 2 => request'.got.speed = request.got.speed
          /\ n > 3 => request'.got.latency = request.got.latency
          /\ n > 4 => request'.got.dns = request.got.dns
          /\ n > 5 => request'.got.latency24h = request.got.latency24h
          /\ n > 6 => request'.got.active = request.got.active
          /\ n > 7 => request'.got.count = request.got.count
      BY <2>1, <2>2, <2>8 DEF part
    <3> QED BY <1>2, <2>1, <2>4, <2>6, <3>1, PartsStay DEF Coherent
  <2>17. request'.since \in Nat /\ request'.step = n + 1 /\ n \in 1..8
    BY <2>1, <2>6 DEF Coherent
  <2> QED BY <2>9, <2>10, <2>11, <2>12, <2>13, <2>14, <2>15, <2>16, <2>17
          DEF Coherent
<1> QED BY <1>3, <1>4, <1>5, <1>6, RequestAdvance

(* The parts of one answer fit together although they are read one after   *)
(* the other, with rows stored in between, and instants are compared as    *)
(* texts.                                                                  *)
THEOREM SummaryCoherentCorrect == Spec => []SummaryCoherent
<1>1. Init => Coherent
  BY DEF Init, NoRequest, Coherent
<1>2. Sound /\ Coherent /\ [Next]_vars => Sound' /\ Coherent'
  BY SoundStep, CoherentStep
<1>3. Sound /\ Coherent => SummaryCoherent
  <2> SUFFICES ASSUME Sound, Coherent, Answered PROVE SummaryCoherent
    BY DEF SummaryCoherent
  <2>1. request.step = 9 /\ Tables = {"latency", "dns", "speed"}
    BY SoundParts DEF Answered, Reads, RequestOK, Tables
  <2> QED BY <2>1 DEF Coherent, SummaryCoherent, Newest, LatencyFits,
                      ActiveCounted, SpeedFits
<1> QED BY <1>1, <1>2, <1>3, SoundInit, PTL DEF Spec
==============================================================================

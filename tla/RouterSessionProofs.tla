-------------------------- MODULE RouterSessionProofs --------------------------
(***************************************************************************)
(* Proofs about RouterSession, for any probers, routers and bounds.        *)
(***************************************************************************)
EXTENDS RouterSession, FiniteSetTheorems, SequenceTheorems, TLAPS

(* The locals of a probe.  With one endpoint, a probe that goes on has no  *)
(* response yet.                                                           *)
Probes == [pc : Pcs, key : Keys, token : Tokens \cup {0}, began : 0..MaxTime,
           try : Nat \ {0}, endpoint : {1}, responses : {<<>>},
           again : BOOLEAN, authenticated : BOOLEAN, success : BOOLEAN,
           fallback : BOOLEAN, calm : BOOLEAN]
Typed ==
    /\ saved \in Keys /\ router \in Routers
    /\ live \in Seq(Tokens) /\ Len(live) <= RouterSessions
    /\ sessions \in [Tokens -> Sessions]
    /\ cache \in [token : Tokens \cup {0}, key : Keys,
                  expires : 0..(MaxTime + Ttl)]
    /\ probe \in [Probers -> Probes]
    /\ now \in 0..MaxTime /\ budget \in Budgets

Before == {"idle", "session", "login"}
WithSession == {"store", "request", "sign", "invalidate"}
Using == {"request", "sign", "invalidate"}
Mode == LoginAttempts[router.accepts]

(* A probe that holds a session holds one of its own key.                  *)
SessionLinked(p) ==
    LET r == probe[p]
    IN  /\ r.pc \in Before => r.token = 0
        /\ r.pc \in WithSession =>
              /\ r.token \in Tokens
              /\ sessions[r.token].key = r.key
              /\ sessions[r.token].mode = Mode
        /\ r.pc \in {"login", "store"} => r.began <= now
        /\ r.pc = "store" => r.began <= sessions[r.token].at
        /\ r.pc = "sign" => sessions[r.token].hash = "loadSpeed"
        /\ r.pc \in Using => r.authenticated

CacheLinked ==
    cache.token # 0 =>
        /\ sessions[cache.token].key = cache.key
        /\ sessions[cache.token].mode = Mode
        /\ cache.expires <= sessions[cache.token].at + Ttl

(* A probe that lost nothing gives up a session only if it has ended, or   *)
(* shows nothing anyway.                                                   *)
GivenUp(p) ==
    LET r == probe[p]
    IN  r.pc = "invalidate" /\ r.calm =>
            \/ r.token \notin ToSet(live)
            \/ router.content[r.key.scheme] = "error"

(* A calm probe with the right password reaches the login the router       *)
(* accepts; while it uses a session, the cache holds that one or one that  *)
(* has not ended, so that its second session has not; and it turns to      *)
(* https only when http shows no clients.                                  *)
CalmLinked(p) ==
    LET r == probe[p]
    IN  r.calm /\ Active(p) =>
          /\ r.pc = "login" /\ r.key.pw = RouterPassword =>
                r.try <= router.accepts
          /\ r.pc = "store" => r.token \in ToSet(live)
          /\ r.pc \in Using => cache.token \in {0, r.token} \cup ToSet(live)
          /\ r.pc = "session" /\ r.again => cache.token \in {0} \cup ToSet(live)
          /\ r.pc \in {"request", "sign"} /\ r.again => r.token \in ToSet(live)
          /\ r.fallback => r.key.scheme = "https"
          /\ r.fallback /\ r.key.pw = RouterPassword /\ Legible =>
                router.content["http"] # "clients"

Good(p) == SessionLinked(p) /\ GivenUp(p) /\ CalmLinked(p)
Linked == CacheLinked /\ \A p \in Probers : Good(p)

-----------------------------------------------------------------------------
(* Types. *)

LEMMA ConstantFacts ==
    /\ RouterSessions \in Nat \ {0} /\ Ttl \in Nat \ {0}
    /\ MaxProbes \in Nat /\ MaxTime \in Nat /\ MaxUpsets \in Nat
    /\ Cardinality(Probers) \in Nat /\ RouterPassword \in Passwords
    /\ 0 \notin Tokens /\ IsFiniteSet(Tokens)
    /\ Cardinality(Tokens) = RouterSessions + 1 + Cardinality(Probers)
<1>1. Cardinality(Probers) \in Nat
  BY ProbersAssumption, FS_CardinalityType
<1>2. RouterSessions + 1 + Cardinality(Probers) \in Nat \ {0}
  BY <1>1, BoundsAssumption
<1>3. /\ IsFiniteSet(Tokens)
      /\ Cardinality(Tokens) = RouterSessions + 1 + Cardinality(Probers)
  BY <1>2, FS_Interval DEF Tokens
<1>4. 0 \notin Tokens
  BY <1>2 DEF Tokens
<1> QED
  BY <1>1, <1>3, <1>4, BoundsAssumption, PasswordsAssumption

LEMMA AttemptFacts ==
    /\ LoginAttempts \in Seq(Modes) /\ Len(LoginAttempts) \in Nat
    /\ \A i \in 1..Len(LoginAttempts) : LoginAttempts[i] \in Modes
<1>1. Len(SGUsernames) \in Nat
  BY DEF SGUsernames
<1> DEFINE sg == [i \in 1..(2 * Len(SGUsernames)) |-> "sg"]
<1>2. sg \in Seq(Modes)
  BY <1>1, IsASeq DEF Modes
<1>3. <<"be550">> \in Seq(Modes) /\ <<"json", "base64">> \in Seq(Modes)
  BY DEF Modes
<1> HIDE DEF sg
<1>4. <<"be550">> \o sg \in Seq(Modes)
  BY <1>2, <1>3, ConcatProperties
<1>5. (<<"be550">> \o sg) \o <<"json", "base64">> \in Seq(Modes)
  BY <1>3, <1>4, ConcatProperties
<1>6. LoginAttempts \in Seq(Modes)
  BY <1>5 DEF LoginAttempts, sg
<1> QED
  BY <1>6, LenProperties, ElementOfSeq

LEMMA RouterFacts ==
    ASSUME Typed
    PROVE  /\ router.accepts \in 1..Len(LoginAttempts) /\ Mode \in Modes
           /\ router.refusal \in Refusals
           /\ \A s \in Schemes :
                 router.content[s] \in {"clients", "empty", "error"}
BY AttemptFacts, RoutersAssumption DEF Typed, RouterKinds, Mode

LEMMA ErrorFacts ==
    ASSUME Typed
    PROVE  /\ ~IsError(Mode, "clients") /\ ~IsError(Mode, "empty")
           /\ IsError(Mode, "error")
BY RouterFacts DEF IsError, Errors, Modes

(* The JSON login is the last but one, and a router that refuses legibly   *)
(* does not end the login with it when it would accept the last attempt.   *)
LEMMA LegibleGoesOn ==
    ASSUME Typed, Legible, NEW r \in Probes, r.try < router.accepts
    PROVE  ~EndsLogin(r)
<1> DEFINE n == Len(SGUsernames)
           sg == [i \in 1..(2 * n) |-> "sg"]
<1>1. n \in Nat
  BY DEF SGUsernames
<1> HIDE DEF n
<1>2. sg \in Seq(Modes) /\ Len(sg) = 2 * n
  BY <1>1, IsASeq DEF Modes
<1>3. \A i \in 1..(2 * n) : sg[i] = "sg"
  OBVIOUS
<1>4. LoginAttempts = (<<"be550">> \o sg) \o <<"json", "base64">>
  BY DEF LoginAttempts, n
<1> HIDE DEF sg
<1> DEFINE front == <<"be550">> \o sg
<1>5. /\ front \in Seq(Modes) /\ Len(front) = 2 * n + 1
      /\ \A i \in 1..(2 * n + 1) : front[i] = IF i = 1 THEN "be550" ELSE sg[i - 1]
  BY <1>1, <1>2 DEF Modes
<1>6. \A i \in 1..(2 * n + 1) : front[i] # "json"
  BY <1>1, <1>3, <1>5
<1> HIDE DEF front
<1>7. <<"json", "base64">> \in Seq(Modes) /\ Len(<<"json", "base64">>) = 2
  BY DEF Modes
<1>8. /\ Len(LoginAttempts) = 2 * n + 3
      /\ \A i \in 1..(2 * n + 1) : LoginAttempts[i] = front[i]
      /\ LoginAttempts[2 * n + 2] = "json" /\ LoginAttempts[2 * n + 3] = "base64"
  BY <1>1, <1>4, <1>5, <1>7 DEF front
<1>9. /\ router.accepts \in 1..(2 * n + 3) /\ r.try \in Nat \ {0}
  BY <1>8, RouterFacts DEF Probes
<1>10. CASE LoginAttempts[r.try] = "json"
  <2>1. r.try \notin 1..(2 * n + 1)
    BY <1>6, <1>8, <1>10
  <2>2. router.accepts = 2 * n + 3
    BY <1>1, <1>9, <2>1
  <2>3. LoginAttempts[router.accepts] = "base64"
    BY <1>8, <2>2
  <2> QED
    BY <2>3 DEF Legible, EndsLogin
<1> QED
  BY <1>10 DEF EndsLogin

LEMMA IdleFacts ==
    /\ NoKey \in Keys /\ Idle \in Probes /\ NoSession \in Sessions
    /\ NoCache \in [token : Tokens \cup {0}, key : Keys,
                    expires : 0..(MaxTime + Ttl)]
BY ConstantFacts DEF NoKey, Keys, Schemes, Idle, Probes, Pcs, NoSession,
   Sessions, Modes, Endpoints, NoCache

Uneasy(r) == [r EXCEPT !.calm = FALSE]

LEMMA UneasyFacts ==
    ASSUME NEW r \in Probes
    PROVE  /\ Uneasy(r) \in Probes /\ Uneasy(r).calm = FALSE
           /\ Uneasy(r).pc = r.pc /\ Uneasy(r).key = r.key
           /\ Uneasy(r).token = r.token /\ Uneasy(r).began = r.began
           /\ Uneasy(r).authenticated = r.authenticated
           /\ Uneasy(r).again = r.again /\ Uneasy(r).fallback = r.fallback
BY DEF Uneasy, Probes

LEMMA LikeFacts ==
    ASSUME NEW r \in Probes, NEW s, s \in {r, Uneasy(r)}
    PROVE  /\ s.pc = r.pc /\ s.key = r.key /\ s.token = r.token
           /\ s.began = r.began /\ s.authenticated = r.authenticated
           /\ s.again = r.again /\ s.fallback = r.fallback
           /\ s.calm => s = r
<1>1. CASE s = r
  BY <1>1
<1>2. CASE s = Uneasy(r)
  BY <1>2, UneasyFacts, Zenon
<1> QED
  BY <1>1, <1>2

(* A session of another prober's is only less calm afterwards.             *)
LEMMA DisturbedFacts ==
    ASSUME NEW who, NEW f \in [Probers -> Probes]
    PROVE  /\ Disturbed(who, f) \in [Probers -> Probes]
           /\ \A q \in Probers :
                 Disturbed(who, f)[q] =
                    IF q \in who /\ Active(q) THEN Uneasy(f[q])
                                              ELSE f[q]
BY UneasyFacts DEF Disturbed, Uneasy

(* The prober's own locals become r, and others are disturbed.             *)
Moves(who, p, r) == probe' = Disturbed(who, [probe EXCEPT ![p] = r])

LEMMA MovesFacts ==
    ASSUME Typed, NEW p \in Probers, NEW r \in Probes, NEW who,
           Moves(who, p, r)
    PROVE  /\ probe' \in [Probers -> Probes]
           /\ probe'[p] = IF p \in who /\ Active(p) THEN Uneasy(r) ELSE r
           /\ \A q \in Probers \ {p} :
                 probe'[q] = IF q \in who /\ Active(q)
                        THEN Uneasy(probe[q]) ELSE probe[q]
<1> DEFINE f == [probe EXCEPT ![p] = r]
<1>1. /\ f \in [Probers -> Probes] /\ f[p] = r
      /\ \A q \in Probers \ {p} : f[q] = probe[q]
  BY DEF Typed
<1>2. probe' = Disturbed(who, f)
  BY DEF Moves
<1> HIDE DEF f
<1>3. /\ Disturbed(who, f) \in [Probers -> Probes]
      /\ \A q \in Probers :
            Disturbed(who, f)[q] =
               IF q \in who /\ Active(q) THEN Uneasy(f[q])
                                         ELSE f[q]
  BY <1>1, DisturbedFacts, Zenon
<1>4. probe' \in [Probers -> Probes]
  BY <1>2, <1>3
<1>5. probe'[p] = IF p \in who /\ Active(p) THEN Uneasy(r) ELSE r
  BY <1>1, <1>2, <1>3
<1>6. ASSUME NEW q \in Probers \ {p}
      PROVE  probe'[q] = IF q \in who /\ Active(q)
                    THEN Uneasy(probe[q]) ELSE probe[q]
  <2>1. f[q] = probe[q] /\ q \in Probers
    BY <1>1
  <2> QED
    BY <2>1, <1>2, <1>3
<1> QED
  BY <1>4, <1>5, <1>6

-----------------------------------------------------------------------------
(* A login. *)

LEMMA LiveFacts ==
    ASSUME Typed
    PROVE  /\ live \in Seq(Tokens) /\ Len(live) \in Nat
           /\ DOMAIN live = 1..Len(live)
           /\ ToSet(live) \subseteq Tokens
           /\ \A t : Contains(live, t) <=> t \in ToSet(live)
           /\ IsFiniteSet(ToSet(live)) /\ Cardinality(ToSet(live)) <= Len(live)
<1>1. live \in Seq(Tokens)
  BY DEF Typed
<1>2. Len(live) \in Nat /\ DOMAIN live = 1..Len(live)
  BY <1>1, LenProperties
<1>3. ToSet(live) \subseteq Tokens /\ \A t : Contains(live, t) <=> t \in ToSet(live)
  BY <1>1, <1>2, ElementOfSeq DEF ToSet, Contains
<1>4. live \in Surjection(1..Len(live), ToSet(live))
  BY <1>1, <1>2 DEF Surjection, ToSet
<1>5. IsFiniteSet(1..Len(live)) /\ Cardinality(1..Len(live)) = Len(live)
  <2> DEFINE n == Len(live)
  <2>1. n \in Nat
    BY <1>2
  <2> HIDE DEF n
  <2>2. IsFiniteSet(1..n) /\ Cardinality(1..n) = IF 1 > n THEN 0 ELSE n - 1 + 1
    BY <2>1, FS_Interval
  <2>3. Cardinality(1..n) = n
    BY <2>1, <2>2
  <2> QED
    BY <2>2, <2>3 DEF n
<1>6. IsFiniteSet(ToSet(live)) /\ Cardinality(ToSet(live)) <= Len(live)
  BY <1>4, <1>5, FS_Surjection
<1> QED
  BY <1>1, <1>2, <1>3, <1>6

(* A prober that logs in holds no session, so one is free.                 *)
LEMMA TokenIsFree ==
    ASSUME Typed, NEW p \in Probers, SessionLinked(p), At(p, "login")
    PROVE  NewToken \in Tokens /\ NewToken \notin Held
<1> DEFINE rest == Probers \ {p}
           toks == {probe[q].token : q \in rest}
           held == (ToSet(live) \cup {cache.token}) \cup toks
<1>1. probe[p].token = 0
  BY DEF SessionLinked, At, Before
<1>2. IsFiniteSet(rest) /\ Cardinality(rest) = Cardinality(Probers) - 1
  BY ProbersAssumption, FS_RemoveElement
<1>3. [q \in rest |-> probe[q].token] \in Surjection(rest, toks)
  BY DEF Surjection
<1>4. IsFiniteSet(toks) /\ Cardinality(toks) <= Cardinality(Probers) - 1
  BY <1>2, <1>3, FS_Surjection
<1>5. /\ IsFiniteSet(ToSet(live)) /\ Cardinality(ToSet(live)) <= RouterSessions
      /\ Cardinality(ToSet(live)) \in Nat
  <2>1. Len(live) <= RouterSessions
    BY DEF Typed
  <2> QED
    BY <2>1, LiveFacts, ConstantFacts, FS_CardinalityType
<1>6. /\ IsFiniteSet(ToSet(live) \cup {cache.token})
      /\ Cardinality(ToSet(live) \cup {cache.token}) <= RouterSessions + 1
      /\ Cardinality(ToSet(live) \cup {cache.token}) \in Nat
  <2> HIDE DEF held, toks, rest
  <2>1. /\ IsFiniteSet(ToSet(live) \cup {cache.token})
        /\ Cardinality(ToSet(live) \cup {cache.token}) =
              IF cache.token \in ToSet(live) THEN Cardinality(ToSet(live))
                                             ELSE Cardinality(ToSet(live)) + 1
    BY <1>5, FS_AddElement
  <2> QED
    BY <2>1, <1>5, ConstantFacts
<1>7. IsFiniteSet(held) /\ Cardinality(held) <= RouterSessions + Cardinality(Probers)
  <2> DEFINE known == ToSet(live) \cup {cache.token}
  <2> HIDE DEF toks, rest
  <2>1. IsFiniteSet(known) /\ IsFiniteSet(toks)
    BY <1>4, <1>6
  <2> HIDE DEF known
  <2>2. /\ IsFiniteSet(known \cup toks)
        /\ Cardinality(known \cup toks)
              = Cardinality(known) + Cardinality(toks) - Cardinality(known \cap toks)
    BY <2>1, FS_Union
  <2>3. IsFiniteSet(known \cap toks)
    BY <2>1, FS_Subset
  <2>4. Cardinality(known \cap toks) \in Nat /\ Cardinality(toks) \in Nat
    BY <2>1, <2>3, FS_CardinalityType
  <2>5. Cardinality(known) <= RouterSessions + 1 /\ Cardinality(known) \in Nat
    BY <1>6 DEF known
  <2> QED
    BY <2>2, <2>4, <2>5, <1>4, ConstantFacts DEF known
<1>8. \E t \in Tokens : t \notin held
  <2>1. SUFFICES ASSUME Tokens \subseteq held PROVE FALSE
    OBVIOUS
  <2> HIDE DEF held
  <2>2. Cardinality(Tokens) <= Cardinality(held)
    BY <2>1, <1>7, FS_Subset
  <2>3. Cardinality(held) \in Nat
    BY <1>7, FS_CardinalityType
  <2> QED
    BY <2>2, <2>3, <1>7, ConstantFacts
<1>9. \E t \in Tokens : t \notin Held
  <2>1. \A t \in Held : t \in held \/ t = 0
    BY <1>1 DEF Held
  <2> QED
    BY <2>1, <1>8, ConstantFacts
<1> QED
  BY <1>9 DEF NewToken

LEMMA GrantFacts ==
    ASSUME Typed, NEW p \in Probers, SessionLinked(p), At(p, "login"),
           Accepts(p), Grant(p)
    PROVE  /\ NewToken \in Tokens /\ NewToken \notin Held
           /\ live' \in Seq(Tokens) /\ Len(live') <= RouterSessions
           /\ ToSet(live') \subseteq ToSet(live) \cup {NewToken}
           /\ NewToken \in ToSet(live')
           /\ Len(live) < RouterSessions => ToSet(live) \subseteq ToSet(live')
           /\ sessions' \in [Tokens -> Sessions]
           /\ \A t \in Held \cap Tokens : sessions'[t] = sessions[t]
           /\ sessions'[NewToken].key = probe[p].key
           /\ sessions'[NewToken].at = now
           /\ sessions'[NewToken].mode = Mode
<1>1. NewToken \in Tokens /\ NewToken \notin Held
  BY TokenIsFree
<1> DEFINE more == Append(live, NewToken)
           n == Len(live)
<1>2. /\ more \in Seq(Tokens) /\ Len(more) = n + 1 /\ n \in Nat
      /\ \A i \in 1..n : more[i] = live[i]
      /\ more[n + 1] = NewToken /\ n <= RouterSessions
      /\ DOMAIN live = 1..n /\ DOMAIN more = 1..(n + 1)
  <2>1. n <= RouterSessions
    BY DEF Typed
  <2>2. /\ more \in Seq(Tokens) /\ Len(more) = n + 1
        /\ \A i \in 1..n : more[i] = live[i]
        /\ more[n + 1] = NewToken
    BY <1>1, LiveFacts, AppendProperties
  <2>3. DOMAIN more = 1..(n + 1)
    BY <2>2, LenProperties
  <2> QED
    BY <2>1, <2>2, <2>3, LiveFacts
<1>3. live' = Newest(more)
  BY DEF Grant
<1>4. /\ live' \in Seq(Tokens) /\ Len(live') <= RouterSessions
      /\ ToSet(live') \subseteq ToSet(live) \cup {NewToken}
      /\ NewToken \in ToSet(live')
      /\ Len(live) < RouterSessions => ToSet(live) \subseteq ToSet(live')
  <2> HIDE DEF more, n
  <2>1. \A i \in 1..(n + 1) : more[i] \in ToSet(live) \cup {NewToken}
    <3>1. TAKE i \in 1..(n + 1)
    <3>2. CASE i = n + 1
      BY <3>2, <1>2
    <3>3. CASE i \in 1..n
      BY <3>3, <1>2 DEF ToSet
    <3> QED
      BY <3>2, <3>3, <1>2
  <2>2. CASE n + 1 <= RouterSessions
    <3>1. live' = more
      BY <2>2, <1>2, <1>3 DEF Newest
    <3>2. n + 1 \in DOMAIN more /\ \A i \in DOMAIN live : i \in DOMAIN more
      BY <1>2
    <3>3. ToSet(live) \subseteq ToSet(more) /\ NewToken \in ToSet(more)
      BY <3>2, <1>2 DEF ToSet
    <3>4. ToSet(more) \subseteq ToSet(live) \cup {NewToken}
      BY <2>1, <1>2 DEF ToSet
    <3> QED
      BY <3>1, <3>3, <3>4, <2>2, <1>2
  <2>3. CASE n = RouterSessions
    <3> DEFINE from == n + 1 - RouterSessions + 1
    <3>1. live' = SubSeq(more, from, n + 1)
      BY <2>3, <1>2, <1>3, ConstantFacts DEF Newest
    <3>2. from = 2
      BY <2>3, <1>2
    <3>3. \A i \in 2..(n + 1) : more[i] \in Tokens
      BY <1>2, ElementOfSeq
    <3>4. n \in Nat \ {0}
      BY <2>3, ConstantFacts
    <3>5. /\ live' \in Seq(Tokens)
          /\ Len(live') = IF 2 <= n + 1 THEN n + 1 - 2 + 1 ELSE 0
          /\ \A i \in 1..(n + 1 - 2 + 1) : live'[i] = more[2 + i - 1]
      BY <3>1, <3>2, <3>3, <3>4, SubSeqProperties
    <3>6. Len(live') = n /\ \A i \in 1..n : live'[i] = more[i + 1]
      BY <3>4, <3>5
    <3>7. DOMAIN live' = 1..n
      BY <3>5, <3>6, LenProperties
    <3>8. ToSet(live') \subseteq ToSet(live) \cup {NewToken}
      <4>1. ASSUME NEW i \in 1..n PROVE live'[i] \in ToSet(live) \cup {NewToken}
        BY <4>1, <3>6, <3>4, <2>1
      <4> QED
        BY <4>1, <3>7 DEF ToSet
    <3>9. live'[n] = NewToken /\ n \in DOMAIN live'
      BY <3>4, <3>6, <3>7, <1>2
    <3>10. NewToken \in ToSet(live')
      BY <3>9 DEF ToSet
    <3> QED
      BY <3>5, <3>6, <3>8, <3>10, <2>3, <1>2 DEF n
  <2>4. n + 1 <= RouterSessions \/ n = RouterSessions
    BY <1>2, ConstantFacts
  <2> QED
    BY <2>2, <2>3, <2>4
<1>5. [key |-> probe[p].key, at |-> now, hash |-> "login",
       mode |-> LoginAttempts[probe[p].try]] \in Sessions
  <2>1. probe[p].key \in Keys /\ now \in 0..MaxTime
    BY DEF Typed, Probes
  <2>2. LoginAttempts[probe[p].try] \in Modes
    BY RouterFacts DEF Accepts, Mode
  <2> QED
    BY <2>1, <2>2 DEF Sessions, Endpoints
<1>6. sessions \in [Tokens -> Sessions]
  BY DEF Typed
<1>7. sessions' \in [Tokens -> Sessions]
  BY <1>5, <1>6, IdleFacts DEF Grant
<1>8. \A t \in Held \cap Tokens : sessions'[t] = sessions[t]
  BY <1>1 DEF Grant
<1>9. /\ sessions'[NewToken].key = probe[p].key
      /\ sessions'[NewToken].at = now /\ sessions'[NewToken].mode = Mode
  BY <1>1 DEF Grant, Accepts, Mode
<1> QED
  BY <1>1, <1>4, <1>7, <1>8, <1>9

LEMMA DropFacts ==
    ASSUME Typed, NEW i \in DOMAIN live, live' = RemoveAt(live, i)
    PROVE  /\ live' \in Seq(Tokens) /\ Len(live') <= RouterSessions
           /\ ToSet(live') \subseteq ToSet(live)
<1> DEFINE n == Len(live)
           front == SubSeq(live, 1, i - 1)
           back == SubSeq(live, i + 1, n)
<1>1. n \in Nat /\ i \in 1..n /\ live \in Seq(Tokens) /\ n <= RouterSessions
  BY LiveFacts DEF Typed
<1>2. \A j \in 1..n : live[j] \in ToSet(live)
  BY LiveFacts DEF ToSet
<1> HIDE DEF n
<1>3. (i - 1) \in Int /\ (i + 1) \in Int /\ n \in Int
  BY <1>1
<1>4. (\A j \in 1..(i - 1) : live[j] \in ToSet(live))
      /\ \A j \in (i + 1)..n : live[j] \in ToSet(live)
  BY <1>1, <1>2
<1>5. front \in Seq(ToSet(live)) /\ Len(front) = i - 1
  <2>1. front \in Seq(ToSet(live)) /\ Len(front) = IF 1 <= i - 1 THEN i - 1 - 1 + 1 ELSE 0
    BY <1>3, <1>4, SubSeqProperties
  <2> QED
    BY <2>1, <1>1
<1>6. back \in Seq(ToSet(live)) /\ Len(back) = n - i
  <2>1. back \in Seq(ToSet(live)) /\ Len(back) = IF i + 1 <= n THEN n - (i + 1) + 1 ELSE 0
    BY <1>3, <1>4, SubSeqProperties
  <2> QED
    BY <2>1, <1>1
<1> HIDE DEF front, back
<1>7. live' = front \o back
  BY DEF RemoveAt, front, back, n
<1>8. live' \in Seq(ToSet(live)) /\ Len(live') = n - 1
  <2>1. /\ front \o back \in Seq(ToSet(live))
        /\ Len(front \o back) = Len(front) + Len(back)
    BY <1>5, <1>6, ConcatProperties
  <2> QED
    <3>1. i \in Int /\ n \in Int /\ Len(front) = i - 1 /\ Len(back) = n - i
      BY <1>1, <1>5, <1>6
    <3>2. Len(front) + Len(back) = n - 1
      BY <3>1
    <3> QED
      BY <2>1, <3>2, <1>7, Zenon
<1>9. live' \in Seq(Tokens)
  BY <1>8, LiveFacts, SeqMonotonic
<1>10. ToSet(live') \subseteq ToSet(live)
  BY <1>8, LenProperties, ElementOfSeq DEF ToSet
<1>11. Len(live') <= RouterSessions
  BY <1>1, <1>8, ConstantFacts
<1> QED
  BY <1>9, <1>10, <1>11

-----------------------------------------------------------------------------
(* What becomes of a probe. *)

LEMMA ResultFacts ==
    ASSUME Typed, NEW r \in Probes
    PROVE  /\ Snapshot(TRUE) \in Probes /\ Snapshot(FALSE) \in Probes
           /\ Without(r) \in Probes
           /\ Without(r).pc \in {"idle", "session"} /\ Without(r).token = 0
           /\ NextTry(r) \in Probes
           /\ NextTry(r) \in {Without(r), [r EXCEPT !.try = @ + 1]}
           /\ Collected(r) =
                 IF r.again THEN Without(r) ELSE [r EXCEPT !.pc = "invalidate"]
           /\ Collected(r) \in Probes
           /\ \A t \in Tokens \cup {0} : Authenticated(r, t) \in Probes
<1>1. Snapshot(TRUE) \in Probes /\ Snapshot(FALSE) \in Probes
  BY IdleFacts DEF Snapshot, Probes
<1>2. /\ Without(r) \in Probes
      /\ Without(r).pc \in {"idle", "session"} /\ Without(r).token = 0
  <2>1. CASE RetriesHTTPS(r)
    <3>1. r.key \in Keys /\ r.calm \in BOOLEAN
      BY DEF Probes
    <3>2. Without(r) =
             [pc |-> "session", key |-> [scheme |-> "https", pw |-> r.key.pw],
              token |-> 0, began |-> 0, try |-> 1, endpoint |-> 1,
              responses |-> <<>>, again |-> FALSE, authenticated |-> FALSE,
              success |-> FALSE, fallback |-> TRUE, calm |-> r.calm]
      BY <2>1, <3>1 DEF Without, Idle, Keys
    <3>3. [scheme |-> "https", pw |-> r.key.pw] \in Keys
      BY <3>1 DEF Keys, Schemes
    <3> QED
      BY <3>1, <3>2, <3>3, ConstantFacts DEF Probes, Pcs
  <2>2. CASE ~RetriesHTTPS(r)
    BY <2>2, <1>1 DEF Without, Snapshot, Idle
  <2> QED
    BY <2>1, <2>2
<1>3. /\ NextTry(r) \in Probes
      /\ NextTry(r) \in {Without(r), [r EXCEPT !.try = @ + 1]}
  <2>1. [r EXCEPT !.try = @ + 1] \in Probes
    BY DEF Probes
  <2> QED
    BY <2>1, <1>2 DEF NextTry
<1>4. r.endpoint = 1 /\ r.responses = <<>> /\ r.again \in BOOLEAN
  BY DEF Probes
<1>5. Len(ProbeEndpoints) = 1
  BY DEF ProbeEndpoints
<1>6. Collected(r) = IF r.again THEN Without(r) ELSE [r EXCEPT !.pc = "invalidate"]
  <2>1. ~Contains(<<>>, "clients")
    BY DEF Contains
  <2> QED
    BY <2>1, <1>4, <1>5 DEF Collected
<1>7. Collected(r) \in Probes
  BY <1>2, <1>6 DEF Probes, Pcs
<1>8. ASSUME NEW t \in Tokens \cup {0} PROVE Authenticated(r, t) \in Probes
  <2>1. "request" \in Pcs /\ 0 \in 0..MaxTime /\ 1 \in Nat \ {0}
    BY ConstantFacts DEF Pcs
  <2> QED
    BY <2>1 DEF Authenticated, Probes
<1> QED
  BY <1>1, <1>2, <1>3, <1>6, <1>7, <1>8

LEMMA AnsweredFacts ==
    ASSUME Typed, NEW r \in Probes, NEW a
    PROVE  /\ Answered(r, a) =
                 IF IsError(sessions[r.token].mode, a) THEN Collected(r)
                 ELSE IF a = "clients" THEN Snapshot(TRUE) ELSE Without(r)
           /\ Answered(r, a) \in Probes
<1> DEFINE s == [r EXCEPT !.responses = Append(@, a)]
<1>1. r.endpoint = 1 /\ r.responses = <<>> /\ Len(ProbeEndpoints) = 1
  BY DEF Probes, ProbeEndpoints
<1>2. /\ s.endpoint = 1 /\ s.responses = <<a>> /\ s.key = r.key
      /\ s.fallback = r.fallback /\ s.authenticated = r.authenticated
      /\ s.calm = r.calm
  BY <1>1 DEF Probes
<1>3. Contains(<<a>>, "clients") <=> a = "clients"
  BY DEF Contains
<1>4. <<a>> # <<>>
  OBVIOUS
<1>5. Without(s) = Without(r)
  BY <1>2 DEF Without, RetriesHTTPS
<1>6. Answered(r, a) = IF IsError(sessions[r.token].mode, a) THEN Collected(r)
                       ELSE Collected(s)
  BY DEF Answered
<1> HIDE DEF s
<1>7. /\ ~(s.endpoint < Len(ProbeEndpoints)) /\ s.responses # <<>>
      /\ Contains(s.responses, "clients") <=> a = "clients"
  BY <1>1, <1>2, <1>3, <1>4
<1>8. Collected(s) = IF a = "clients" THEN Snapshot(TRUE) ELSE Without(r)
  BY <1>5, <1>7, Zenon DEF Collected
<1> QED
  BY <1>6, <1>8, ResultFacts
-----------------------------------------------------------------------------
(* What a step leaves to the probers that do not make it. *)

(* Sessions that somebody holds change in their hash only, and do not come *)
(* back to life.                                                           *)
SessionsKept ==
    /\ router' = router /\ now <= now'
    /\ \A t \in Held \cap Tokens :
          /\ sessions'[t].key = sessions[t].key
          /\ sessions'[t].mode = sessions[t].mode
          /\ sessions'[t].at = sessions[t].at
          /\ sessions'[t].hash \in {sessions[t].hash, "loadSpeed"}
          /\ t \in ToSet(live') => t \in ToSet(live)

(* As long as a probe stays calm, no session ends and none that has ended  *)
(* comes into the cache.                                                   *)
CalmKept(q) ==
    Active(q) /\ probe'[q].calm =>
        /\ probe[q].calm /\ ToSet(live) \subseteq ToSet(live')
        /\ cache'.token \in {0, cache.token} \cup ToSet(live')
Left(q) ==
    /\ \/ probe'[q] = probe[q]
       \/ Active(q) /\ probe'[q] = Uneasy(probe[q])
    /\ CalmKept(q)

LEMMA SpendFacts ==
    ASSUME Typed, NEW kind \in {"probes", "upsets"}, Spend(kind)
    PROVE  budget' \in Budgets
BY ConstantFacts DEF Typed, Budgets, Spend

LEMMA OwnFacts ==
    ASSUME Typed, NEW p \in Probers, NEW r \in Probes,
           probe' = [probe EXCEPT ![p] = r]
    PROVE  /\ probe' \in [Probers -> Probes] /\ probe'[p] = r
           /\ \A q \in Probers \ {p} : probe'[q] = probe[q]
BY DEF Typed

(* Steps of one prober that touch neither the router's sessions nor the    *)
(* cache.                                                                  *)
LEMMA QuietStep ==
    ASSUME Typed, NEW p \in Probers, NEW r \in Probes,
           probe' = [probe EXCEPT ![p] = r], budget' \in Budgets,
           UNCHANGED <<saved, router, live, sessions, cache, now>>
    PROVE  /\ Typed' /\ SessionsKept
           /\ \A q \in Probers \ {p} : Left(q)
<1>1. Typed'
  BY OwnFacts DEF Typed
<1>2. SessionsKept
  BY DEF SessionsKept, Typed
<1>3. ASSUME NEW q \in Probers \ {p} PROVE Left(q)
  <2>1. probe'[q] = probe[q] /\ live' = live /\ cache' = cache
    BY OwnFacts
  <2> QED
    BY <2>1 DEF Left, CalmKept
<1> QED
  BY <1>1, <1>2, <1>3

(* A router that gives a session ends an older one only if it has no place *)
(* left, and then others notice.                                           *)
LEMMA GrantStep ==
    ASSUME Typed, NEW p \in Probers, SessionLinked(p), At(p, "login"),
           Accepts(p), Grant(p), NEW who, Displaced(p) \subseteq who,
           NEW r \in Probes,
           Moves(who, p, r),
           budget' \in Budgets, UNCHANGED <<saved, router, cache, now>>
    PROVE  /\ Typed' /\ SessionsKept
           /\ \A q \in Probers \ {p} : Left(q)
<1>1. /\ probe' \in [Probers -> Probes]
      /\ \A q \in Probers \ {p} :
            probe'[q] = IF q \in who /\ Active(q)
                        THEN Uneasy(probe[q]) ELSE probe[q]
  BY MovesFacts
<1>2. Typed'
  <2>1. probe' \in [Probers -> Probes]
    BY <1>1
  <2>2. /\ live' \in Seq(Tokens) /\ Len(live') <= RouterSessions
        /\ sessions' \in [Tokens -> Sessions]
    BY GrantFacts
  <2> QED
    BY <2>1, <2>2 DEF Typed
<1>3. SessionsKept
  <2>1. ASSUME NEW t \in Held \cap Tokens
        PROVE  /\ sessions'[t] = sessions[t]
               /\ t \in ToSet(live') => t \in ToSet(live)
    BY <2>1, GrantFacts
  <2> QED
    BY <2>1 DEF SessionsKept, Typed
<1>4. ASSUME NEW q \in Probers \ {p} PROVE Left(q)
  <2>1. probe'[q] = IF q \in who /\ Active(q) THEN Uneasy(probe[q])
                                              ELSE probe[q]
    BY <1>1
  <2>2. CASE Len(live) < RouterSessions
    <3>1. ToSet(live) \subseteq ToSet(live')
      BY <2>2, GrantFacts
    <3>2. Uneasy(probe[q]).calm = FALSE
      BY UneasyFacts DEF Typed
    <3> QED
      BY <2>1, <3>1, <3>2 DEF Left, CalmKept
  <2>3. CASE ~(Len(live) < RouterSessions)
    <3>1. q \in who
      BY <2>3 DEF Displaced
    <3>2. Uneasy(probe[q]).calm = FALSE
      BY UneasyFacts DEF Typed
    <3> QED
      BY <2>1, <3>1, <3>2 DEF Left, CalmKept
  <2> QED
    BY <2>2, <2>3
<1> QED
  BY <1>2, <1>3, <1>4

LEMMA FaultStep ==
    ASSUME Typed, NEW p \in Probers, NEW r \in Probes,
           Moves({p}, p, r),
           budget' \in Budgets,
           UNCHANGED <<saved, router, live, sessions, cache, now>>
    PROVE  /\ Typed' /\ SessionsKept
           /\ \A q \in Probers \ {p} : Left(q)
<1>1. /\ probe' \in [Probers -> Probes]
      /\ \A q \in Probers \ {p} : probe'[q] = probe[q]
  BY MovesFacts
<1>2. Typed'
  BY <1>1 DEF Typed
<1>3. SessionsKept
  BY DEF SessionsKept, Typed
<1> QED
  BY <1>1, <1>2, <1>3 DEF Left, CalmKept

LEMMA StoreStep ==
    ASSUME Typed, NEW p \in Probers, SessionLinked(p), Store(p)
    PROVE  /\ Typed' /\ SessionsKept
           /\ \A q \in Probers \ {p} : Left(q)
<1> DEFINE r == probe[p]
           who == IF Contains(live, r.token) THEN {} ELSE Probers \ {p}
           f == [probe EXCEPT ![p] = Authenticated(r, r.token)]
<1>1. r \in Probes /\ r.token \in Tokens /\ r.began \in 0..MaxTime /\ r.key \in Keys
  BY DEF Typed, Probes, Store, At, SessionLinked, WithSession
<1>2. Authenticated(r, r.token) \in Probes
  BY <1>1, ResultFacts
<1>3. f \in [Probers -> Probes] /\ \A q \in Probers \ {p} : f[q] = probe[q]
  BY <1>2 DEF Typed
<1>4. probe' = Disturbed(who, f)
  BY DEF Store
<1> HIDE DEF f, who
<1>5. probe' \in [Probers -> Probes]
  BY <1>3, <1>4, DisturbedFacts
<1>6. cache' = [token |-> r.token, key |-> r.key, expires |-> r.began + Ttl]
  BY DEF Store, Expiry
<1>7. r.began + Ttl \in 0..(MaxTime + Ttl)
  BY <1>1, ConstantFacts
<1>8. Typed'
  <2>1. cache' \in [token : Tokens \cup {0}, key : Keys,
                    expires : 0..(MaxTime + Ttl)]
    BY <1>1, <1>6, <1>7
  <2> QED
    BY <2>1, <1>5 DEF Typed, Store
<1>9. SessionsKept
  BY DEF SessionsKept, Typed, Store
<1>10. ASSUME NEW q \in Probers \ {p} PROVE Left(q)
  <2>1. probe'[q] = IF q \in who /\ Active(q) THEN Uneasy(probe[q])
                                              ELSE probe[q]
    BY <1>3, <1>4, DisturbedFacts
  <2>2. live' = live /\ cache'.token = r.token
    BY <1>6 DEF Store
  <2>3. Uneasy(probe[q]).calm = FALSE
    BY UneasyFacts DEF Typed
  <2>4. r.token \in ToSet(live) \/ q \in who
    BY LiveFacts DEF who
  <2> QED
    BY <2>1, <2>2, <2>3, <2>4 DEF Left, CalmKept
<1> QED
  BY <1>8, <1>9, <1>10

LEMMA HashStep ==
    ASSUME Typed, NEW p \in Probers, SessionLinked(p), Hash(p)
    PROVE  /\ Typed' /\ SessionsKept
           /\ \A q \in Probers \ {p} : Left(q)
           /\ sessions'[probe[p].token].hash = "loadSpeed"
<1> DEFINE r == probe[p]
<1>1. r \in Probes /\ r.token \in Tokens /\ r.endpoint = 1
  BY DEF Typed, Probes, Hash, At, SessionLinked, WithSession
<1>2. sessions' = [sessions EXCEPT ![r.token].hash = "loadSpeed"]
  BY <1>1 DEF Hash, ProbeEndpoints
<1>3. probe' = [probe EXCEPT ![p] = [r EXCEPT !.pc = "sign"]]
  BY DEF Hash, Typed
<1>4. [r EXCEPT !.pc = "sign"] \in Probes
  BY <1>1 DEF Probes, Pcs
<1>5. /\ sessions' \in [Tokens -> Sessions]
      /\ \A t \in Tokens :
            /\ sessions'[t].key = sessions[t].key
            /\ sessions'[t].mode = sessions[t].mode
            /\ sessions'[t].at = sessions[t].at
            /\ sessions'[t].hash \in {sessions[t].hash, "loadSpeed"}
      /\ sessions'[r.token].hash = "loadSpeed"
  BY <1>1, <1>2 DEF Typed, Sessions, Endpoints
<1>6. Typed'
  BY <1>3, <1>4, <1>5 DEF Typed, Hash
<1>7. SessionsKept
  BY <1>5 DEF SessionsKept, Typed, Hash
<1>8. \A q \in Probers \ {p} : Left(q)
  BY <1>3, <1>4, OwnFacts DEF Left, CalmKept, Hash
<1> QED
  BY <1>5, <1>6, <1>7, <1>8

LEMMA InvalidateStep ==
    ASSUME Typed, NEW p \in Probers, Invalidate(p)
    PROVE  /\ Typed' /\ SessionsKept
           /\ \A q \in Probers \ {p} : Left(q)
<1> DEFINE s == [probe[p] EXCEPT !.pc = "session", !.again = TRUE, !.token = 0]
<1>1. s \in Probes
  <2>1. probe[p] \in Probes /\ "session" \in Pcs /\ 0 \in Tokens \cup {0}
    BY DEF Typed, Pcs
  <2> QED
    BY <2>1 DEF Probes
<1>2. probe' = [probe EXCEPT ![p] = s]
  BY DEF Invalidate, Typed
<1>3. cache' \in {cache, NoCache}
  BY DEF Invalidate, InvalidateSession
<1> HIDE DEF s
<1>4. Typed'
  BY <1>1, <1>2, <1>3, IdleFacts DEF Typed, Invalidate
<1>5. SessionsKept
  BY DEF SessionsKept, Typed, Invalidate
<1>6. \A q \in Probers \ {p} : Left(q)
  <2>1. cache'.token \in {0, cache.token}
    BY <1>3 DEF NoCache
  <2>2. live' = live /\ \A q \in Probers \ {p} : probe'[q] = probe[q]
    BY <1>1, <1>2, OwnFacts DEF Invalidate
  <2> QED
    BY <2>1, <2>2 DEF Left, CalmKept
<1> QED
  BY <1>4, <1>5, <1>6

(* A step of a prober, but for what becomes of itself.                     *)
LEMMA ProbeStep ==
    ASSUME Typed, NEW p \in Probers, SessionLinked(p), Probe(p)
    PROVE  /\ Typed' /\ SessionsKept
           /\ \A q \in Probers \ {p} : Left(q)
<1> DEFINE r == probe[p]
<1>0. r \in Probes /\ budget \in Budgets
  BY DEF Typed
<1>1. CASE Begin(p)
  <2>1. [[Idle EXCEPT !.pc = "session", !.key = saved] EXCEPT !.calm = TRUE] \in Probes
        /\ [Idle EXCEPT !.pc = "session", !.key = saved] \in Probes
    BY IdleFacts DEF Typed, Probes, Pcs
  <2>2. budget' \in Budgets
    BY <1>1, SpendFacts DEF Begin
  <2> QED
    BY <1>1, <2>1, <2>2, QuietStep DEF Begin
<1>2. CASE Lookup(p)
  <2> DEFINE s == IF CacheHits(r.key) THEN Authenticated(r, cache.token)
                  ELSE [r EXCEPT !.pc = "login", !.began = now, !.try = 1]
  <2>1. s \in Probes
    <3>1. [r EXCEPT !.pc = "login", !.began = now, !.try = 1] \in Probes
      <4>1. now \in 0..MaxTime /\ "login" \in Pcs /\ 1 \in Nat \ {0}
        BY DEF Typed, Pcs
      <4> QED
        BY <4>1, <1>0 DEF Probes
    <3>2. Authenticated(r, cache.token) \in Probes
      <4>1. cache.token \in Tokens \cup {0}
        BY DEF Typed
      <4> QED
        BY <4>1, <1>0, ResultFacts
    <3> QED
      BY <3>1, <3>2
  <2>2. probe' = [probe EXCEPT ![p] = s]
    BY <1>2 DEF Lookup
  <2> HIDE DEF s
  <2> QED
    BY <1>2, <2>1, <2>2, <1>0, QuietStep DEF Lookup
<1>3. CASE LoginStep(p)
  <2> DEFINE s == [[r EXCEPT !.pc = "store"] EXCEPT !.token = NewToken]
  <2>1. s \in Probes
    BY <1>0, <1>3, TokenIsFree DEF LoginStep, Probes, Pcs
  <2>2. Moves(Displaced(p), p, s)
    <3>1. [probe EXCEPT ![p].pc = "store", ![p].token = NewToken]
             = [probe EXCEPT ![p] = s]
      BY DEF Typed
    <3> QED
      BY <1>3, <3>1 DEF LoginStep, Moves
  <2> HIDE DEF s
  <2> QED
    BY <1>0, <1>3, <2>1, <2>2, GrantStep DEF LoginStep
<1>4. CASE LoginRefused(p)
  <2> DEFINE s == IF EndsLogin(r) THEN Without(r) ELSE NextTry(r)
  <2>1. s \in Probes
    BY <1>0, ResultFacts
  <2>2. probe' = [probe EXCEPT ![p] = s]
    BY <1>4 DEF LoginRefused
  <2> HIDE DEF s
  <2> QED
    BY <1>0, <1>4, <2>1, <2>2, QuietStep DEF LoginRefused
<1>5. CASE LoginFaults(p)
  <2> DEFINE s == NextTry(r)
  <2>1. \/ /\ Accepts(p) /\ Grant(p)
           /\ Moves({p} \cup Displaced(p), p, s)
        \/ /\ UNCHANGED <<live, sessions>>
           /\ Moves({p}, p, s)
    BY <1>5 DEF LoginFaults, Moves
  <2>2. s \in Probes
    BY <1>0, ResultFacts
  <2> HIDE DEF s
  <2>3. At(p, "login") /\ budget' \in Budgets /\ UNCHANGED <<saved, router, cache, now>>
    BY <1>5, SpendFacts DEF LoginFaults
  <2>4. CASE /\ Accepts(p) /\ Grant(p)
             /\ Moves({p} \cup Displaced(p), p, s)
    BY <2>2, <2>3, <2>4, GrantStep
  <2>5. CASE /\ UNCHANGED <<live, sessions>>
             /\ Moves({p}, p, s)
    BY <2>2, <2>3, <2>5, FaultStep
  <2> QED
    BY <2>1, <2>4, <2>5
<1>6. CASE Store(p)
  BY <1>6, StoreStep
<1>7. CASE Hash(p)
  BY <1>7, HashStep
<1>8. CASE Request(p)
  <2> DEFINE s == Answered(r, AnswersTo(p, ProbeEndpoints[r.endpoint]))
  <2>1. s \in Probes
    BY <1>0, AnsweredFacts
  <2>2. probe' = [probe EXCEPT ![p] = s]
    BY <1>8 DEF Request
  <2> HIDE DEF s
  <2> QED
    BY <1>0, <1>8, <2>1, <2>2, QuietStep DEF Request
<1>9. CASE RequestFaults(p)
  <2>1. Collected(r) \in Probes /\ budget' \in Budgets
    BY <1>0, <1>9, ResultFacts, SpendFacts DEF RequestFaults
  <2> QED
    BY <1>9, <2>1, FaultStep DEF RequestFaults, Moves
<1>10. CASE Invalidate(p)
  BY <1>10, InvalidateStep
<1> QED
  BY <1>1, <1>2, <1>3, <1>4, <1>5, <1>6, <1>7, <1>8, <1>9, <1>10 DEF Probe

LEMMA EnvironmentStep ==
    ASSUME Typed, SaveSettings \/ Tick \/ Drop
    PROVE  /\ Typed' /\ SessionsKept /\ cache' = cache
           /\ \A q \in Probers : Left(q)
<1>1. CASE SaveSettings
  <2>1. saved' \in Keys /\ budget' \in Budgets
    BY <1>1, SpendFacts DEF SaveSettings
  <2>2. UNCHANGED <<router, live, sessions, cache, probe, now>>
    BY <1>1 DEF SaveSettings
  <2>3. Typed'
    BY <2>1, <2>2 DEF Typed
  <2>4. SessionsKept
    BY <2>2 DEF SessionsKept, Typed
  <2> QED
    BY <2>2, <2>3, <2>4 DEF Left, CalmKept
<1>2. CASE Tick
  <2>1. UNCHANGED <<saved, router, live, sessions, cache, probe, budget>>
    BY <1>2 DEF Tick
  <2>2. now' \in 0..MaxTime /\ now <= now'
    BY <1>2, ConstantFacts DEF Tick, Typed
  <2>3. Typed'
    BY <2>1, <2>2 DEF Typed
  <2>4. SessionsKept
    BY <2>1, <2>2 DEF SessionsKept
  <2> QED
    BY <2>1, <2>3, <2>4 DEF Left, CalmKept
<1>3. CASE Drop
  <2>1. /\ live' \in Seq(Tokens) /\ Len(live') <= RouterSessions
        /\ ToSet(live') \subseteq ToSet(live)
    BY <1>3, DropFacts DEF Drop
  <2>2. UNCHANGED <<saved, router, sessions, cache, now>> /\ budget' \in Budgets
    BY <1>3, SpendFacts DEF Drop
  <2>3. /\ probe' \in [Probers -> Probes]
        /\ \A q \in Probers : probe'[q] = IF Active(q) THEN Uneasy(probe[q])
                                                      ELSE probe[q]
    <3>1. probe' = Disturbed(Probers, probe) /\ probe \in [Probers -> Probes]
      BY <1>3 DEF Drop, Typed
    <3> QED
      BY <3>1, DisturbedFacts
  <2>4. Typed'
    BY <2>1, <2>2, <2>3 DEF Typed
  <2>5. SessionsKept
    BY <2>1, <2>2 DEF SessionsKept, Typed
  <2>6. ASSUME NEW q \in Probers PROVE Left(q)
    <3>1. Uneasy(probe[q]).calm = FALSE
      BY UneasyFacts DEF Typed
    <3> QED
      BY <2>3, <3>1 DEF Left, CalmKept
  <2> QED
    BY <2>2, <2>4, <2>5, <2>6
<1> QED
  BY <1>1, <1>2, <1>3

LEMMA RestartStep ==
    ASSUME Typed, Restart
    PROVE  /\ Typed' /\ SessionsKept /\ cache' = NoCache
           /\ \A q \in Probers : probe'[q] = Idle
<1>1. budget' \in Budgets /\ UNCHANGED <<saved, router, live, sessions, now>>
  BY SpendFacts DEF Restart
<1>2. cache' = NoCache /\ probe' = [q \in Probers |-> Idle]
  BY DEF Restart
<1>3. Typed'
  BY <1>1, <1>2, IdleFacts DEF Typed
<1>4. SessionsKept
  BY <1>1 DEF SessionsKept, Typed
<1> QED
  BY <1>2, <1>3, <1>4

-----------------------------------------------------------------------------
(* The invariant. *)

(* What is left to a prober keeps its session linked.                      *)
LEMMA LeftLinked ==
    ASSUME Typed, Typed', SessionsKept, NEW q \in Probers, Good(q), Left(q)
    PROVE  Good(q)'
<1> DEFINE r == probe[q]
           s == probe'[q]
<1>1. /\ s.pc = r.pc /\ s.key = r.key /\ s.token = r.token
      /\ s.began = r.began /\ s.authenticated = r.authenticated
      /\ s.again = r.again /\ s.fallback = r.fallback
      /\ s.calm => s = r
  <2>1. r \in Probes /\ s \in {r, Uneasy(r)}
    BY DEF Left, Typed
  <2> QED
    BY <2>1, LikeFacts
<1>2. router' = router /\ now <= now' /\ r.token \in Held
  BY DEF SessionsKept, Held
<1>3. r.token \in Tokens =>
        /\ sessions'[r.token].key = sessions[r.token].key
        /\ sessions'[r.token].mode = sessions[r.token].mode
        /\ sessions'[r.token].at = sessions[r.token].at
        /\ sessions'[r.token].hash \in {sessions[r.token].hash, "loadSpeed"}
        /\ r.token \in ToSet(live') => r.token \in ToSet(live)
  BY <1>2 DEF SessionsKept
<1>4. SessionLinked(q)'
  <2>1. r.began \in Int /\ now \in Int /\ now' \in Int
    BY DEF Typed, Probes
  <2> QED
    BY <1>1, <1>2, <1>3, <2>1
       DEF Good, SessionLinked, Mode, Before, WithSession, Using
<1>5. GivenUp(q)'
  <2>1. SUFFICES ASSUME s.pc = "invalidate", s.calm
                 PROVE  \/ s.token \notin ToSet(live')
                        \/ router'.content[s.key.scheme] = "error"
    BY DEF GivenUp
  <2>2. r.token \in Tokens
    BY <1>1, <2>1 DEF Good, SessionLinked, WithSession
  <2> QED
    BY <1>1, <1>2, <1>3, <2>1, <2>2 DEF Good, GivenUp
<1>6. CalmLinked(q)'
  <2>1. SUFFICES ASSUME s.calm, s.pc # "idle" PROVE CalmLinked(q)'
    BY DEF CalmLinked, Active
  <2>2. /\ s = r /\ r.calm /\ Active(q) /\ ToSet(live) \subseteq ToSet(live')
        /\ cache'.token \in {0, cache.token} \cup ToSet(live')
    BY <1>1, <2>1 DEF Left, CalmKept, Active
  <2> QED
    BY <1>2, <2>2 DEF Good, CalmLinked, Active, Legible, Mode, Using
<1> QED
  BY <1>4, <1>5, <1>6 DEF Good

LEMMA IdleGood ==
    ASSUME NEW q \in Probers,
           probe'[q].pc = "idle" \/ (probe'[q].pc = "session" /\ ~probe'[q].again
                                      /\ ~probe'[q].fallback),
           probe'[q].token = 0
    PROVE  Good(q)'
BY DEF Good, SessionLinked, GivenUp, CalmLinked, Active, Before, WithSession,
   Using

(* The end of a probe without clients: where it goes on over https, http   *)
(* has none, if the probe was calm.                                        *)
LEMMA WithoutGood ==
    ASSUME Typed, NEW p \in Probers, NEW r \in Probes,
           probe'[p] \in {Without(r), Uneasy(Without(r))},
           probe'[p].calm /\ RetriesHTTPS(r) /\ r.calm
              /\ r.key.pw = RouterPassword /\ Legible =>
                   router.content["http"] # "clients",
           router' = router
    PROVE  Good(p)'
<1> DEFINE s == probe'[p]
           w == Without(r)
<1>1. w \in Probes /\ w.pc \in {"idle", "session"} /\ w.token = 0
  BY ResultFacts
<1>2. /\ s.pc = w.pc /\ s.key = w.key /\ s.token = w.token /\ s.again = w.again
      /\ s.fallback = w.fallback
      /\ s.calm => s = w
  <2>1. w \in Probes /\ s \in {w, Uneasy(w)}
    BY <1>1
  <2> HIDE DEF w
  <2> QED
    BY <2>1, LikeFacts
<1>3. CASE ~RetriesHTTPS(r)
  <2>1. w.pc = "idle"
    BY <1>3 DEF Without, Snapshot, Idle
  <2> QED
    BY <1>1, <1>2, <2>1, IdleGood
<1>4. CASE RetriesHTTPS(r)
  <2>1. /\ w.pc = "session" /\ w.again = FALSE /\ w.calm = r.calm
        /\ w.key.pw = r.key.pw /\ w.key.scheme = "https"
    <3>1. r.key \in Keys
      BY DEF Probes
    <3> QED
      BY <1>4, <3>1 DEF Without, Idle, Keys
  <2>2. SessionLinked(p)' /\ GivenUp(p)'
    BY <1>1, <1>2, <2>1 DEF SessionLinked, GivenUp, Before, WithSession, Using
  <2>3. CalmLinked(p)'
    <3>1. SUFFICES ASSUME s.calm PROVE CalmLinked(p)'
      BY DEF CalmLinked
    <3>2. s = w /\ r.calm
      BY <1>2, <2>1, <3>1
    <3> HIDE DEF w
    <3> QED
      BY <1>4, <2>1, <3>1, <3>2
         DEF CalmLinked, Active, Legible, Mode, Using
  <2> QED
    BY <2>2, <2>3 DEF Good
<1> QED
  BY <1>3, <1>4

(* What a request leads to; a session that has not ended is served.        *)
LEMMA RequestOutcome ==
    ASSUME Typed, NEW p \in Probers, Good(p), Request(p)
    PROVE  \/ probe'[p] = Snapshot(TRUE)
           \/ /\ probe'[p] = [probe[p] EXCEPT !.pc = "invalidate"]
              /\ ~probe[p].again
              /\ \/ probe[p].token \notin ToSet(live)
                 \/ router.content[probe[p].key.scheme] = "error"
           \/ /\ probe'[p] = Without(probe[p])
              /\ probe[p].calm /\ Legible =>
                    router.content[probe[p].key.scheme] # "clients"
<1> DEFINE r == probe[p]
           content == router.content[r.key.scheme]
           answer == AnswersTo(p, ProbeEndpoints[r.endpoint])
<1>1. /\ r \in Probes /\ r.pc \in {"request", "sign"} /\ r.endpoint = 1
      /\ Active(p) /\ r.key.scheme \in Schemes
  BY DEF Typed, Probes, Request, ReadyToSend, At, Active, Keys
<1>2. /\ r.token \in Tokens /\ sessions[r.token].key = r.key
      /\ sessions[r.token].mode = Mode
  BY <1>1 DEF Good, SessionLinked, WithSession
<1>3. Mode = "sg" => sessions[r.token].hash = "loadSpeed"
  BY <1>2 DEF Request, ReadyToSend, At, Good, SessionLinked
<1>4. ProbeEndpoints[r.endpoint] = "loadSpeed"
  BY <1>1 DEF ProbeEndpoints
<1>5. answer = IF r.token \in ToSet(live) THEN content ELSE router.refusal
  BY <1>2, <1>3, <1>4, LiveFacts DEF AnswersTo
<1>6. content \in {"clients", "empty", "error"} /\ router.refusal \in Refusals
  BY <1>1, RouterFacts
<1>7. probe'[p] = Answered(r, answer)
  BY <1>1 DEF Request, Typed
<1>8. probe'[p] = IF IsError(Mode, answer)
                  THEN IF r.again THEN Without(r) ELSE [r EXCEPT !.pc = "invalidate"]
                  ELSE IF answer = "clients" THEN Snapshot(TRUE) ELSE Without(r)
  <2> HIDE DEF answer
  <2>1. Answered(r, answer) =
           IF IsError(sessions[r.token].mode, answer) THEN Collected(r)
           ELSE IF answer = "clients" THEN Snapshot(TRUE) ELSE Without(r)
    BY <1>1, AnsweredFacts
  <2>2. Collected(r) = IF r.again THEN Without(r) ELSE [r EXCEPT !.pc = "invalidate"]
    BY <1>1, ResultFacts
  <2> HIDE DEF r
  <2> QED
    BY <1>2, <1>7, <2>1, <2>2
<1>9. r.calm /\ r.again => r.token \in ToSet(live)
  BY <1>1 DEF Good, CalmLinked
<1> HIDE DEF answer, content
<1>10. r.again \in BOOLEAN
  BY <1>1 DEF Probes
<1>11. CASE IsError(Mode, answer) /\ ~r.again
  <2>1. r.token \notin ToSet(live) \/ content = "error"
    BY <1>5, <1>6, <1>11, ErrorFacts
  <2> QED
    BY <1>8, <1>11, <2>1 DEF content
<1>12. CASE IsError(Mode, answer) /\ r.again
  <2>1. r.calm => content # "clients"
    BY <1>5, <1>6, <1>9, <1>12, ErrorFacts
  <2> QED
    BY <1>8, <1>12, <2>1 DEF content
<1>13. CASE ~IsError(Mode, answer)
  <2>1. answer # "clients" /\ Legible => content # "clients"
    BY <1>5, <1>6, <1>13, ErrorFacts DEF Legible, Mode
  <2> QED
    BY <1>8, <1>13, <2>1 DEF content
<1> QED
  BY <1>10, <1>11, <1>12, <1>13

(* A session that is given up.                                             *)
LEMMA GivingUp ==
    ASSUME Typed, NEW p \in Probers, Good(p), probe[p].pc \in {"request", "sign"},
           NEW t, t = [probe[p] EXCEPT !.pc = "invalidate"],
           probe'[p] \in {t, Uneasy(t)},
           probe'[p].calm =>
              \/ probe[p].token \notin ToSet(live)
              \/ router.content[probe[p].key.scheme] = "error",
           UNCHANGED <<router, live, sessions, cache, now>>
    PROVE  Good(p)'
<1> DEFINE r == probe[p]
           s == probe'[p]
<1>1. r \in Probes
  BY DEF Typed
<1>2. /\ t \in Probes /\ t.pc = "invalidate" /\ t.token = r.token /\ t.key = r.key
      /\ t.authenticated = r.authenticated /\ t.calm = r.calm
      /\ t.fallback = r.fallback
  BY <1>1 DEF Probes, Pcs
<1>3. /\ s.pc = "invalidate" /\ s.token = r.token /\ s.key = r.key
      /\ s.authenticated = r.authenticated /\ s.fallback = r.fallback
      /\ s.calm => r.calm
  <2>1. /\ s.pc = t.pc /\ s.token = t.token /\ s.key = t.key
        /\ s.authenticated = t.authenticated /\ s.fallback = t.fallback
        /\ s.calm => s = t
    BY <1>2, LikeFacts
  <2> QED
    BY <1>2, <2>1
<1>4. SessionLinked(p)' /\ GivenUp(p)'
  BY <1>3 DEF Good, SessionLinked, GivenUp, Before, WithSession, Using, Mode
<1>5. CalmLinked(p)'
  BY <1>3 DEF Good, CalmLinked, Active, Using, Legible, Mode
<1> QED
  BY <1>4, <1>5 DEF Good

LEMMA RequestGood ==
    ASSUME Typed, NEW p \in Probers, Good(p), Request(p)
    PROVE  Good(p)'
<1> DEFINE r == probe[p]
           s == probe'[p]
<1>1. /\ r \in Probes /\ r.pc \in {"request", "sign"}
      /\ UNCHANGED <<router, live, sessions, cache, now>>
  BY DEF Typed, Request, ReadyToSend, At
<1>2. CASE s = Snapshot(TRUE)
  BY <1>2, IdleGood DEF Snapshot, Idle
<1>3. CASE /\ s = [r EXCEPT !.pc = "invalidate"]
           /\ \/ r.token \notin ToSet(live)
              \/ router.content[r.key.scheme] = "error"
  BY <1>1, <1>3, GivingUp
<1>4. CASE /\ s = Without(r)
           /\ r.calm /\ Legible => router.content[r.key.scheme] # "clients"
  <2>1. RetriesHTTPS(r) => r.key.scheme = "http"
    BY DEF RetriesHTTPS
  <2> QED
    BY <1>1, <1>4, <2>1, WithoutGood
<1> QED
  BY <1>2, <1>3, <1>4, RequestOutcome

LEMMA RequestFaultsGood ==
    ASSUME Typed, NEW p \in Probers, Good(p), RequestFaults(p)
    PROVE  Good(p)'
<1> DEFINE r == probe[p]
           s == probe'[p]
<1>1. /\ r \in Probes /\ r.pc \in {"request", "sign"} /\ Active(p)
      /\ UNCHANGED <<router, live, sessions, cache, now>>
      /\ Moves({p}, p, Collected(r))
  BY DEF Typed, RequestFaults, ReadyToSend, At, Active, Moves
<1>2. /\ Collected(r) \in Probes
      /\ Collected(r) = IF r.again THEN Without(r) ELSE [r EXCEPT !.pc = "invalidate"]
  BY <1>1, ResultFacts
<1>3. s = Uneasy(Collected(r)) /\ s.calm = FALSE
  <2> DEFINE t == Collected(r)
  <2>1. t \in Probes /\ Moves({p}, p, t)
    BY <1>1, <1>2
  <2> HIDE DEF t
  <2>2. s = Uneasy(t)
    BY <1>1, <2>1, MovesFacts
  <2> QED
    BY <2>1, <2>2, UneasyFacts DEF t
<1>4. CASE r.again
  <2>1. s \in {Without(r), Uneasy(Without(r))}
    BY <1>2, <1>3, <1>4
  <2> QED
    BY <1>1, <1>3, <2>1, WithoutGood
<1>5. CASE ~r.again
  <2>1. Collected(r) = [r EXCEPT !.pc = "invalidate"]
    BY <1>2, <1>5
  <2> QED
    BY <1>1, <1>3, <2>1, GivingUp
<1> QED
  BY <1>4, <1>5

LEMMA InvalidateGood ==
    ASSUME Typed, NEW p \in Probers, Good(p), Invalidate(p)
    PROVE  Good(p)'
<1> DEFINE r == probe[p]
           s == probe'[p]
<1>1. /\ r \in Probes /\ r.pc = "invalidate" /\ Active(p)
      /\ UNCHANGED <<router, live, sessions, now>>
  BY DEF Typed, Invalidate, At, Active
<1>2. /\ s.pc = "session" /\ s.token = 0 /\ s.again = TRUE /\ s.key = r.key
      /\ s.calm = r.calm /\ s.fallback = r.fallback
  BY <1>1 DEF Invalidate, Typed, Probes
<1>3. cache'.token = IF cache.token = r.token THEN 0 ELSE cache.token
  BY DEF Invalidate, InvalidateSession, NoCache
<1>4. SessionLinked(p)' /\ GivenUp(p)'
  BY <1>2 DEF SessionLinked, GivenUp, Before, WithSession, Using
<1>5. CalmLinked(p)'
  BY <1>1, <1>2, <1>3 DEF Good, CalmLinked, Active, Using, Legible, Mode
<1> QED
  BY <1>4, <1>5 DEF Good

LEMMA OwnStep ==
    ASSUME Typed, Linked, NEW p \in Probers, Probe(p)
    PROVE  Good(p)'
<1> DEFINE r == probe[p]
           s == probe'[p]
<1>1. /\ r \in Probes /\ Good(p) /\ SessionLinked(p) /\ CacheLinked
      /\ Typed' /\ SessionsKept /\ router' = router /\ r.token \in Held
      /\ cache.token \in Held
  BY ProbeStep DEF Typed, Linked, Good, SessionsKept, Held
<1>2. CASE Begin(p)
  <2>1. s = [Idle EXCEPT !.pc = "session", !.key = saved]
    BY <1>2 DEF Begin, Typed
  <2> QED
    BY <2>1, IdleGood DEF Idle
<1>3. CASE Lookup(p)
  <2>1. UNCHANGED <<live, sessions, cache, now, router>> /\ r.pc = "session"
    BY <1>3 DEF Lookup, At
  <2>2. CASE CacheHits(r.key)
    <3>1. s = Authenticated(r, cache.token) /\ Authenticated(r, cache.token) \in Probes
      <4>1. cache.token \in Tokens \cup {0}
        BY DEF Typed
      <4> QED
        BY <1>1, <1>3, <2>2, <4>1, ResultFacts DEF Lookup, Typed
    <3>2. /\ s.pc = "request" /\ s.token = cache.token /\ s.authenticated = TRUE
          /\ s.key = r.key /\ s.calm = r.calm /\ s.again = r.again
          /\ s.fallback = r.fallback
      BY <1>1, <3>1 DEF Authenticated, Probes
    <3>3. /\ cache.token \in Tokens /\ cache.key = r.key
          /\ sessions[cache.token].key = cache.key
          /\ sessions[cache.token].mode = Mode
      BY <1>1, <2>2 DEF CacheHits, CacheLinked, Typed
    <3>4. SessionLinked(p)' /\ GivenUp(p)'
      BY <2>1, <3>2, <3>3
         DEF SessionLinked, GivenUp, Before, WithSession, Using, Mode
    <3>5. CalmLinked(p)'
      BY <1>1, <2>1, <3>2, <3>3, ConstantFacts
         DEF Good, CalmLinked, Active, Using, Legible, Mode
    <3> QED
      BY <3>4, <3>5 DEF Good
  <2>3. CASE ~CacheHits(r.key)
    <3>1. s = [r EXCEPT !.pc = "login", !.began = now, !.try = 1]
      BY <1>3, <2>3 DEF Lookup, Typed
    <3>2. /\ s.pc = "login" /\ s.began = now /\ s.try = 1 /\ s.token = r.token
          /\ s.key = r.key /\ s.calm = r.calm /\ s.fallback = r.fallback
      BY <1>1, <3>1 DEF Probes
    <3>3. r.token = 0
      BY <1>1, <2>1 DEF SessionLinked, Before
    <3>4. router.accepts \in Nat /\ 1 <= router.accepts /\ now \in Int
      BY RouterFacts, AttemptFacts DEF Typed
    <3>5. SessionLinked(p)' /\ GivenUp(p)'
      BY <2>1, <3>2, <3>3, <3>4
         DEF SessionLinked, GivenUp, Before, WithSession, Using
    <3>6. CalmLinked(p)'
      BY <1>1, <2>1, <3>2, <3>4
         DEF Good, CalmLinked, Active, Using, Legible, Mode
    <3> QED
      BY <3>5, <3>6 DEF Good
  <2> QED
    BY <2>2, <2>3
<1>4. CASE LoginStep(p)
  <2>1. /\ At(p, "login") /\ Accepts(p) /\ Grant(p) /\ now' = now
    BY <1>4 DEF LoginStep
  <2> DEFINE t == [r EXCEPT !.pc = "store", !.token = NewToken]
  <2>2. t \in Probes
    BY <1>1, <2>1, TokenIsFree DEF Probes, Pcs
  <2>3. Moves(Displaced(p), p, t)
    <3>1. [probe EXCEPT ![p].pc = "store", ![p].token = NewToken]
             = [probe EXCEPT ![p] = t]
      BY DEF Typed
    <3> QED
      BY <1>4, <3>1 DEF LoginStep, Moves
  <2>4. s = t
    <3>1. p \notin Displaced(p)
      BY DEF Displaced
    <3> HIDE DEF t
    <3> QED
      BY <2>2, <2>3, <3>1, MovesFacts
  <2>5. /\ s.pc = "store" /\ s.token = NewToken /\ s.key = r.key /\ s.began = r.began
        /\ s.calm = r.calm /\ s.fallback = r.fallback
    BY <1>1, <2>4 DEF Probes
  <2>6. /\ NewToken \in Tokens /\ NewToken \in ToSet(live')
        /\ sessions'[NewToken].key = r.key /\ sessions'[NewToken].at = now
        /\ sessions'[NewToken].mode = Mode
    BY <1>1, <2>1, GrantFacts
  <2>7. r.began <= now /\ r.pc = "login"
    BY <1>1, <2>1 DEF SessionLinked, At
  <2> HIDE DEF t
  <2>8. SessionLinked(p)' /\ GivenUp(p)'
    BY <1>1, <2>1, <2>5, <2>6, <2>7
       DEF SessionLinked, GivenUp, Before, WithSession, Using, Mode
  <2>9. CalmLinked(p)'
    BY <1>1, <2>5, <2>6, <2>7
       DEF Good, CalmLinked, Active, Using, Legible, Mode
  <2> QED
    BY <2>8, <2>9 DEF Good
<1>5. CASE LoginRefused(p)
  <2>1. /\ r.pc = "login" /\ ~Accepts(p)
        /\ s = IF EndsLogin(r) THEN Without(r) ELSE NextTry(r)
        /\ UNCHANGED <<live, sessions, cache, now>>
    BY <1>1, <1>5 DEF LoginRefused, At, Typed
  <2>2. router.accepts \in Nat /\ router.accepts <= Len(LoginAttempts)
        /\ Len(LoginAttempts) \in Nat /\ r.try \in Nat
    BY <1>1, RouterFacts, AttemptFacts DEF Probes
  <2>3. r.calm /\ r.key.pw = RouterPassword => r.try < router.accepts
    <3>1. SUFFICES ASSUME r.calm, r.key.pw = RouterPassword PROVE r.try < router.accepts
      OBVIOUS
    <3>2. r.try <= router.accepts
      BY <1>1, <2>1, <3>1 DEF Good, CalmLinked, Active
    <3>3. r.try # router.accepts
      BY <2>1, <3>1 DEF Accepts
    <3> QED
      BY <2>2, <3>2, <3>3
  <2>4. CASE r.try < Len(LoginAttempts) /\ ~EndsLogin(r)
    <3>1. s = [r EXCEPT !.try = @ + 1]
      BY <2>1, <2>4 DEF NextTry
    <3>2. /\ s.pc = "login" /\ s.try = r.try + 1 /\ s.token = r.token
          /\ s.key = r.key /\ s.calm = r.calm /\ s.began = r.began
          /\ s.fallback = r.fallback
      BY <1>1, <2>1, <3>1 DEF Probes
    <3>3. SessionLinked(p)' /\ GivenUp(p)'
      BY <1>1, <2>1, <3>2
         DEF SessionLinked, GivenUp, Before, WithSession, Using
    <3>4. CalmLinked(p)'
      BY <1>1, <2>1, <2>2, <2>3, <3>2
         DEF Good, CalmLinked, Active, Using, Legible, Mode
    <3> QED
      BY <3>3, <3>4 DEF Good
  <2>5. CASE ~(r.try < Len(LoginAttempts) /\ ~EndsLogin(r))
    <3>1. s = Without(r)
      BY <2>1, <2>5 DEF NextTry
    <3>2. ~(r.calm /\ r.key.pw = RouterPassword /\ Legible)
      <4>1. SUFFICES ASSUME r.calm, r.key.pw = RouterPassword, Legible
                     PROVE  FALSE
        OBVIOUS
      <4>2. r.try < router.accepts
        BY <2>3, <4>1
      <4>3. r.try < Len(LoginAttempts)
        BY <2>2, <4>2
      <4> QED
        BY <1>1, <2>1, <2>5, <4>1, <4>2, <4>3, LegibleGoesOn
    <3> QED
      BY <1>1, <3>1, <3>2, WithoutGood
  <2> QED
    BY <2>4, <2>5
<1>6. CASE LoginFaults(p)
  <2> DEFINE t == NextTry(r)
  <2>1. Moves({p}, p, t) \/ Moves({p} \cup Displaced(p), p, t)
    BY <1>6 DEF LoginFaults, Moves
  <2>2. r.pc = "login" /\ Active(p) /\ now' = now
    BY <1>6 DEF LoginFaults, At, Active
  <2>3. t \in Probes /\ t \in {Without(r), [r EXCEPT !.try = @ + 1]}
    BY <1>1, ResultFacts
  <2> HIDE DEF t
  <2>4. s = Uneasy(t)
    BY <2>1, <2>2, <2>3, MovesFacts
  <2>5. s.calm = FALSE
    BY <2>3, <2>4, UneasyFacts
  <2>6. CASE t = Without(r)
    BY <1>1, <2>4, <2>5, <2>6, WithoutGood
  <2>7. CASE t = [r EXCEPT !.try = @ + 1]
    <3>1. /\ t.pc = "login" /\ t.token = r.token /\ t.began = r.began
      BY <1>1, <2>2, <2>7 DEF Probes
    <3>2. /\ s.pc = "login" /\ s.token = r.token /\ s.began = r.began
      BY <2>3, <2>4, <3>1, UneasyFacts
    <3> QED
      BY <1>1, <2>2, <2>5, <3>2
         DEF Good, SessionLinked, GivenUp, CalmLinked, Before, WithSession, Using
  <2> QED
    BY <2>3, <2>6, <2>7
<1>7. CASE Store(p)
  <2> DEFINE t == Authenticated(r, r.token)
             who == IF Contains(live, r.token) THEN {} ELSE Probers \ {p}
  <2>1. /\ r.pc = "store" /\ UNCHANGED <<live, sessions, now>>
        /\ Moves(who, p, t) /\ cache'.token = r.token
    BY <1>7 DEF Store, At, Moves
  <2>2. r.token \in Tokens
    BY <1>1, <2>1 DEF SessionLinked, WithSession
  <2>3. t \in Probes
    BY <1>1, <2>2, ResultFacts
  <2>4. s = t
    <3>1. p \notin who
      OBVIOUS
    <3> HIDE DEF t, who
    <3> QED
      BY <2>1, <2>3, <3>1, MovesFacts
  <2>5. /\ s.pc = "request" /\ s.token = r.token /\ s.authenticated = TRUE
        /\ s.key = r.key /\ s.calm = r.calm /\ s.fallback = r.fallback
    BY <1>1, <2>4 DEF Authenticated, Probes
  <2> HIDE DEF t, who
  <2>6. SessionLinked(p)' /\ GivenUp(p)'
    BY <1>1, <2>1, <2>2, <2>5
       DEF SessionLinked, GivenUp, Before, WithSession, Using, Mode
  <2>7. CalmLinked(p)'
    BY <1>1, <2>1, <2>5
       DEF Good, CalmLinked, Active, Using, Legible, Mode
  <2> QED
    BY <2>6, <2>7 DEF Good
<1>8. CASE Hash(p)
  <2>1. /\ r.pc = "request" /\ s = [r EXCEPT !.pc = "sign"]
        /\ UNCHANGED <<live, cache, now>>
    BY <1>8 DEF Hash, At, Typed
  <2>2. /\ s.pc = "sign" /\ s.token = r.token /\ s.authenticated = r.authenticated
        /\ s.key = r.key /\ s.calm = r.calm /\ s.fallback = r.fallback
        /\ s.again = r.again
    BY <1>1, <2>1 DEF Probes
  <2>3. r.token \in Tokens /\ sessions'[r.token].hash = "loadSpeed"
    BY <1>1, <1>8, <2>1, HashStep DEF SessionLinked, WithSession
  <2>4. /\ sessions'[r.token].key = sessions[r.token].key
        /\ sessions'[r.token].mode = sessions[r.token].mode
    BY <1>1, <2>3 DEF SessionsKept
  <2>5. SessionLinked(p)' /\ GivenUp(p)'
    BY <1>1, <2>1, <2>2, <2>3, <2>4
       DEF SessionLinked, GivenUp, Before, WithSession, Using, Mode
  <2>6. CalmLinked(p)'
    BY <1>1, <2>1, <2>2
       DEF Good, CalmLinked, Active, Using, Legible, Mode
  <2> QED
    BY <2>5, <2>6 DEF Good
<1>9. CASE Request(p)
  BY <1>1, <1>9, RequestGood
<1>10. CASE RequestFaults(p)
  BY <1>1, <1>10, RequestFaultsGood
<1>11. CASE Invalidate(p)
  BY <1>1, <1>11, InvalidateGood
<1> QED
  BY <1>2, <1>3, <1>4, <1>5, <1>6, <1>7, <1>8, <1>9, <1>10, <1>11 DEF Probe

(* A session is cached with its own key and, at the latest, until two      *)
(* minutes after its login.                                                *)
LEMMA CacheStep ==
    ASSUME Typed, Typed', SessionsKept, CacheLinked,
           \/ cache' \in {cache, NoCache}
           \/ \E p \in Probers : SessionLinked(p) /\ Store(p)
    PROVE  CacheLinked'
<1>1. CASE cache' = NoCache
  BY <1>1 DEF CacheLinked, NoCache
<1>2. CASE cache' = cache
  <2>1. SUFFICES ASSUME cache.token # 0 PROVE CacheLinked'
    BY <1>2 DEF CacheLinked
  <2>2. cache.token \in Held \cap Tokens
    BY <2>1 DEF Held, Typed
  <2> QED
    BY <1>2, <2>1, <2>2 DEF CacheLinked, SessionsKept, Mode
<1>3. ASSUME NEW p \in Probers, SessionLinked(p), Store(p) PROVE CacheLinked'
  <2>1. /\ cache' = [token |-> probe[p].token, key |-> probe[p].key,
                     expires |-> probe[p].began + Ttl]
        /\ UNCHANGED <<sessions, router>> /\ probe[p].pc = "store"
    BY <1>3 DEF Store, Expiry, At
  <2>2. /\ probe[p].token \in Tokens /\ sessions[probe[p].token].key = probe[p].key
        /\ sessions[probe[p].token].mode = Mode
        /\ probe[p].began <= sessions[probe[p].token].at
    BY <1>3, <2>1 DEF SessionLinked, WithSession
  <2>3. /\ probe[p].began \in Int /\ sessions[probe[p].token].at \in Int
        /\ Ttl \in Int
    BY <1>3, <2>2, ConstantFacts DEF Typed, Probes, Sessions
  <2>4. probe[p].began + Ttl <= sessions[probe[p].token].at + Ttl
    BY <2>2, <2>3
  <2> QED
    BY <2>1, <2>2, <2>4 DEF CacheLinked, Mode
<1> QED
  BY <1>1, <1>2, <1>3

LEMMA LinkedInit ==
    ASSUME Init
    PROVE  Typed /\ Linked
<1>1. Typed
  <2>1. /\ live \in Seq(Tokens) /\ Len(live) = 0
        /\ sessions \in [Tokens -> Sessions] /\ now = 0
        /\ probe \in [Probers -> Probes]
    BY IdleFacts DEF Init
  <2>2. saved \in Keys /\ router \in Routers /\ cache = NoCache
        /\ budget = [probes |-> MaxProbes, upsets |-> MaxUpsets]
    BY DEF Init
  <2> QED
    BY <2>1, <2>2, IdleFacts, ConstantFacts DEF Typed, Budgets
<1>2. CacheLinked
  BY DEF Init, NoCache, CacheLinked
<1>3. ASSUME NEW p \in Probers PROVE Good(p)
  <2>1. probe[p].pc = "idle" /\ probe[p].token = 0
    BY DEF Init, Idle
  <2> QED
    BY <2>1 DEF Good, SessionLinked, GivenUp, CalmLinked, Active, Before,
       WithSession, Using
<1> QED
  BY <1>1, <1>2, <1>3 DEF Linked

LEMMA LinkedStep ==
    ASSUME Typed, Linked, [Next]_vars
    PROVE  Typed' /\ Linked'
<1>1. CASE UNCHANGED vars
  BY <1>1 DEF vars, Typed, Linked, CacheLinked, Good, SessionLinked, GivenUp,
     CalmLinked, Active, Legible, Mode
<1>2. ASSUME NEW p \in Probers, Probe(p) PROVE Typed' /\ Linked'
  <2>1. Good(p) /\ SessionLinked(p) /\ CacheLinked
    BY <1>2 DEF Linked, Good
  <2>2. /\ Typed' /\ SessionsKept
        /\ \A q \in Probers \ {p} : Left(q)
    BY <1>2, <2>1, ProbeStep
  <2>3. Good(p)'
    BY <1>2, OwnStep
  <2>4. \A q \in Probers \ {p} : Good(q)'
    BY <2>2, LeftLinked DEF Linked
  <2>5. cache' \in {cache, NoCache} \/ Store(p)
    BY <1>2 DEF Probe, Begin, Lookup, LoginStep, LoginRefused, LoginFaults, Hash,
       Request, RequestFaults, Invalidate, InvalidateSession
  <2>6. CacheLinked'
    BY <1>2, <2>1, <2>2, <2>5, CacheStep
  <2> QED
    BY <2>2, <2>3, <2>4, <2>6 DEF Linked
<1>3. CASE SaveSettings \/ Tick \/ Drop
  <2>1. /\ Typed' /\ SessionsKept /\ cache' = cache
        /\ \A q \in Probers : Left(q)
    BY <1>3, EnvironmentStep
  <2>2. \A q \in Probers : Good(q)'
    BY <2>1, LeftLinked DEF Linked
  <2>3. CacheLinked'
    BY <2>1, CacheStep DEF Linked
  <2> QED
    BY <2>1, <2>2, <2>3 DEF Linked
<1>4. CASE Restart
  <2>1. /\ Typed' /\ SessionsKept /\ cache' = NoCache
        /\ \A q \in Probers : probe'[q] = Idle
    BY <1>4, RestartStep
  <2>2. \A q \in Probers : Good(q)'
    BY <2>1, IdleGood DEF Idle
  <2>3. CacheLinked'
    BY <2>1, CacheStep DEF Linked
  <2> QED
    BY <2>1, <2>2, <2>3 DEF Linked
<1> QED
  BY <1>1, <1>2, <1>3, <1>4 DEF Next

-----------------------------------------------------------------------------
(* The theorems. *)

LEMMA LinkedAlways == Spec => [](Typed /\ Linked)
<1>1. Init => Typed /\ Linked
  BY LinkedInit
<1>2. Typed /\ Linked /\ [Next]_vars => (Typed /\ Linked)'
  BY LinkedStep
<1> QED
  BY <1>1, <1>2, PTL DEF Spec

(* Every variable keeps its type; in particular, a session that is used    *)
(* exists, and a new one is always free.                                   *)
THEOREM TypeCorrect == Spec => []TypeOK
<1>1. Typed /\ Linked => TypeOK
  <2>1. SUFFICES ASSUME Typed, Linked PROVE TypeOK
    OBVIOUS
  <2>2. ASSUME NEW p \in Probers
        PROVE  /\ probe[p].pc \in Pcs
               /\ At(p, "store") \/ At(p, "request") \/ At(p, "sign") =>
                     probe[p].token \in Tokens
    BY <2>1 DEF Typed, Probes, Linked, Good, SessionLinked, WithSession, At
  <2> QED
    BY <2>1, <2>2 DEF TypeOK, Typed
<1> QED
  BY <1>1, LinkedAlways, PTL

(* A probe uses no session of another URL, user or password, whatever is   *)
(* saved, cached, given up or logged in meanwhile.                         *)
THEOREM OwnSessionCorrect == Spec => []OwnSession
<1>1. Linked => OwnSession
  BY DEF Linked, Good, SessionLinked, WithSession, OwnSession, At
<1> QED
  BY <1>1, LinkedAlways, PTL

(* Though probes write the hash of a shared session without a lock, a      *)
(* request is signed with its own.                                         *)
THEOREM SignedForItselfCorrect == Spec => []SignedForItself
<1>1. Typed /\ Linked => SignedForItself
  <2>1. SUFFICES ASSUME Typed, Linked, NEW p \in Probers, At(p, "sign")
                 PROVE  sessions[probe[p].token].hash
                           = ProbeEndpoints[probe[p].endpoint]
    BY DEF SignedForItself
  <2>2. ProbeEndpoints[probe[p].endpoint] = "loadSpeed"
    BY <2>1 DEF Typed, Probes, ProbeEndpoints
  <2> QED
    BY <2>1, <2>2 DEF Linked, Good, SessionLinked, At
<1> QED
  BY <1>1, LinkedAlways, PTL

(* What a prober enters by a step that is not its own is at most the idle  *)
(* place of a restarted process.                                           *)
LEMMA OthersStay ==
    ASSUME Typed, Linked, NEW p \in Probers, [Next]_vars
    PROVE  \/ Probe(p) \/ Restart
           \/ probe'[p].pc = probe[p].pc /\ probe'[p].success = probe[p].success
<1>1. probe[p] \in Probes
  BY DEF Typed
<1>2. Left(p) => /\ probe'[p].pc = probe[p].pc
                 /\ probe'[p].success = probe[p].success
  BY <1>1 DEF Left, Uneasy, Probes
<1>3. CASE UNCHANGED vars
  BY <1>3 DEF vars
<1>4. ASSUME NEW q \in Probers, q # p, Probe(q) PROVE Left(p)
  BY <1>4, ProbeStep DEF Linked, Good
<1>5. CASE SaveSettings \/ Tick \/ Drop
  BY <1>2, <1>5, EnvironmentStep
<1> QED
  BY <1>2, <1>3, <1>4, <1>5 DEF Next

(* A session is taken from the cache less than two minutes after its       *)
(* login, whoever stored it last and however long the login took.          *)
THEOREM NoAgedSessionCorrect == Spec => NoAgedSession
<1>1. ASSUME Typed, Linked, [Next]_vars, NEW p \in Probers,
             At(p, "session"), probe'[p].pc = "request"
      PROVE  now < sessions[probe'[p].token].at + Ttl
  <2>1. Probe(p)
    BY <1>1, OthersStay, RestartStep DEF At, Idle
  <2>2. Lookup(p)
    BY <1>1, <2>1 DEF Probe, Begin, Lookup, LoginStep, LoginRefused, LoginFaults,
       Store, Hash, Request, RequestFaults, Invalidate, ReadyToSend, At, Active
  <2>3. CASE CacheHits(probe[p].key)
    <3>1. probe'[p].token = cache.token
      <4>1. probe'[p] = Authenticated(probe[p], cache.token) /\ probe[p] \in Probes
        BY <1>1, <2>2, <2>3 DEF Lookup, Typed
      <4> QED
        BY <4>1 DEF Authenticated, Probes
    <3>2. /\ cache.token # 0 /\ now < cache.expires
          /\ cache.expires <= sessions[cache.token].at + Ttl
      BY <1>1, <2>3 DEF CacheHits, Linked, CacheLinked
    <3>3. /\ now \in Int /\ cache.expires \in Int
          /\ sessions[cache.token].at + Ttl \in Int
      <4>1. cache.token \in Tokens /\ now \in Int /\ cache.expires \in Int
        BY <1>1, <3>2 DEF Typed
      <4>2. sessions[cache.token].at \in Int
        BY <1>1, <4>1 DEF Typed, Sessions
      <4> QED
        BY <4>1, <4>2, ConstantFacts
    <3> QED
      BY <3>1, <3>2, <3>3
  <2>4. CASE ~CacheHits(probe[p].key)
    <3>1. probe'[p] = [probe[p] EXCEPT !.pc = "login", !.began = now, !.try = 1]
      BY <1>1, <2>2, <2>4 DEF Lookup, Typed
    <3> QED
      BY <1>1, <3>1 DEF Typed, Probes
  <2> QED
    BY <2>3, <2>4
<1>2. Typed /\ Linked /\ [Next]_vars =>
        [\A p \in Probers : At(p, "session") /\ probe'[p].pc = "request" =>
            now < sessions[probe'[p].token].at + Ttl]_vars
  BY <1>1
<1> QED
  BY <1>2, LinkedAlways, PTL DEF Spec, NoAgedSession

(* A session that works is removed from the cache of a running process     *)
(* only by a probe that lost a request.                                    *)
THEOREM WorkingSessionKeptCorrect == Spec => WorkingSessionKept
<1> DEFINE A == /\ cache.token # 0 /\ cache'.token = 0
                /\ \E p \in Probers : probe'[p].pc # "idle"
                /\ Contains(live, cache.token)
                /\ router.content[cache.key.scheme] # "error"
           B == \E p \in Probers : At(p, "invalidate") /\ ~probe[p].calm
<1>1. ASSUME Typed, Linked, [Next]_vars, A PROVE B
  <2>1. ~Restart
    BY <1>1, RestartStep DEF Idle
  <2>2. cache' # cache
    BY <1>1
  <2>3. ~(SaveSettings \/ Tick \/ Drop)
    BY <1>1, <2>2, EnvironmentStep
  <2>4. PICK p \in Probers : Probe(p)
    BY <1>1, <2>1, <2>2, <2>3 DEF Next, vars
  <2>5. Good(p) /\ CacheLinked
    BY <1>1 DEF Linked
  <2>6. ~Store(p)
    <3>1. SUFFICES ASSUME Store(p) PROVE FALSE
      OBVIOUS
    <3>2. probe[p].token \in Tokens
      BY <2>5, <3>1 DEF Store, At, Good, SessionLinked, WithSession
    <3>3. cache'.token = probe[p].token
      BY <3>1 DEF Store
    <3> QED
      BY <1>1, <3>2, <3>3, ConstantFacts
  <2>7. Invalidate(p)
    BY <2>2, <2>4, <2>6 DEF Probe, Begin, Lookup, LoginStep, LoginRefused,
       LoginFaults, Hash, Request, RequestFaults
  <2>8. /\ probe[p].pc = "invalidate" /\ cache.token = probe[p].token
    BY <2>2, <2>7 DEF Invalidate, InvalidateSession, At
  <2>9. cache.key = probe[p].key
    BY <1>1, <2>5, <2>8 DEF CacheLinked, Good, SessionLinked, WithSession
  <2>10. cache.token \in ToSet(live)
    BY <1>1, LiveFacts
  <2>11. ~probe[p].calm
    BY <1>1, <2>5, <2>8, <2>9, <2>10 DEF Good, GivenUp
  <2> QED
    BY <2>8, <2>11 DEF At
<1>2. Typed /\ Linked /\ [Next]_vars => [A => B]_vars
  BY <1>1
<1> QED
  BY <1>2, LinkedAlways, PTL DEF Spec, WorkingSessionKept

(* Without a lost request only a request and a refused login end a probe.  *)
LEMMA EndsByRequest ==
    ASSUME Typed, NEW p \in Probers, Probe(p), probe[p].pc # "idle",
           probe'[p].pc = "idle", budget' = budget, ~LoginRefused(p)
    PROVE  Request(p)
<1>1. probe[p] \in Probes /\ budget.upsets \in Nat
  BY ConstantFacts DEF Typed, Budgets
<1>2. ~Spend("upsets")
  BY <1>1, ConstantFacts DEF Typed, Budgets, Spend
<1>3. ~Begin(p) /\ ~LoginFaults(p) /\ ~RequestFaults(p)
  BY <1>2 DEF Begin, Active, LoginFaults, RequestFaults
<1>4. ~Lookup(p)
  <2>1. SUFFICES ASSUME Lookup(p) PROVE FALSE
    OBVIOUS
  <2>2. \/ probe'[p] = Authenticated(probe[p], cache.token)
        \/ probe'[p] = [probe[p] EXCEPT !.pc = "login", !.began = now, !.try = 1]
    BY <2>1 DEF Lookup, Typed
  <2> QED
    BY <1>1, <2>2 DEF Authenticated, Probes
<1>5. ~LoginStep(p)
  <2>1. SUFFICES ASSUME LoginStep(p) PROVE FALSE
    OBVIOUS
  <2> DEFINE f == [probe EXCEPT ![p].pc = "store", ![p].token = NewToken]
  <2>2. probe' = Disturbed(Displaced(p), f) /\ f[p].pc = "store"
    BY <1>1, <2>1 DEF LoginStep, Typed, Probes
  <2> HIDE DEF f
  <2>3. probe'[p] = f[p]
    BY <2>2 DEF Disturbed, Displaced
  <2> QED
    BY <2>2, <2>3
<1>6. ~Store(p)
  <2>1. SUFFICES ASSUME Store(p) PROVE FALSE
    OBVIOUS
  <2> DEFINE f == [probe EXCEPT ![p] = Authenticated(@, @.token)]
             who == IF Contains(live, probe[p].token) THEN {} ELSE Probers \ {p}
  <2>2. probe' = Disturbed(who, f) /\ f[p].pc = "request" /\ p \notin who
    BY <1>1, <2>1 DEF Store, Typed, Probes, Authenticated
  <2> HIDE DEF f, who
  <2>3. probe'[p] = f[p]
    BY <2>2 DEF Disturbed
  <2> QED
    BY <2>2, <2>3
<1>7. ~Hash(p) /\ ~Invalidate(p)
  BY <1>1 DEF Hash, Invalidate, Typed, Probes
<1> QED
  BY <1>3, <1>4, <1>5, <1>6, <1>7 DEF Probe

(* A probe that nothing disturbed finds the clients a router has to show,  *)
(* over http or https, through every interleaving with other probes.       *)
THEOREM UndisturbedSucceedsCorrect == Spec => UndisturbedSucceeds
<1> DEFINE first(p) == IF probe[p].fallback THEN "http" ELSE probe[p].key.scheme
           A(p) == /\ Active(p) /\ ~Active(p)' /\ probe[p].calm /\ budget' = budget
                   /\ probe[p].key.pw = RouterPassword /\ Legible
                   /\ \/ router.content[first(p)] = "clients"
                      \/ first(p) = "http" /\ router.content["https"] = "clients"
<1>1. ASSUME Typed, Linked, [Next]_vars, NEW p \in Probers, A(p)
      PROVE  probe'[p].success
  <2> DEFINE r == probe[p]
  <2>1. /\ r \in Probes /\ r.pc # "idle" /\ r.calm /\ Legible /\ Good(p)
        /\ r.key.pw = RouterPassword /\ probe'[p].pc = "idle"
    BY <1>1 DEF Typed, Linked, Active, Legible, Mode
  <2>2. ~Restart
    <3>1. SUFFICES ASSUME Restart PROVE FALSE
      OBVIOUS
    <3>2. budget.upsets > 0 /\ budget' = [budget EXCEPT !["upsets"] = @ - 1]
      BY <3>1 DEF Restart, Spend
    <3>3. budget.upsets \in Nat /\ budget'.upsets = budget.upsets - 1
      BY <1>1, <3>2, ConstantFacts DEF Typed, Budgets
    <3> QED
      BY <1>1, <3>3
  <2>3. Probe(p)
    BY <1>1, <2>1, <2>2, OthersStay
  <2>4. ~LoginRefused(p)
    <3>1. SUFFICES ASSUME LoginRefused(p) PROVE FALSE
      OBVIOUS
    <3>2. /\ r.pc = "login" /\ r.try # router.accepts
          /\ probe'[p] = IF EndsLogin(r) THEN Without(r) ELSE NextTry(r)
      BY <1>1, <2>1, <3>1 DEF LoginRefused, Accepts, At, Typed
    <3>3. r.try <= router.accepts
      BY <2>1, <3>2 DEF Good, CalmLinked, Active
    <3>4. /\ router.accepts \in Nat /\ router.accepts <= Len(LoginAttempts)
          /\ Len(LoginAttempts) \in Nat /\ r.try \in Nat
      BY <1>1, <2>1, RouterFacts, AttemptFacts DEF Probes
    <3>5. r.try < Len(LoginAttempts)
      BY <3>2, <3>3, <3>4
    <3>6. NextTry(r).pc = "login"
      BY <2>1, <3>2, <3>5 DEF NextTry, Probes
    <3>7. ~EndsLogin(r)
      BY <1>1, <2>1, <3>2, <3>3, <3>4, LegibleGoesOn
    <3> QED
      BY <2>1, <3>2, <3>6, <3>7
  <2>5. Request(p)
    BY <2>1, <2>3, <2>4, EndsByRequest, <1>1
  <2>6. CASE probe'[p] = Snapshot(TRUE)
    BY <2>6 DEF Snapshot, Idle
  <2>7. CASE probe'[p] = [r EXCEPT !.pc = "invalidate"]
    BY <2>1, <2>7 DEF Probes
  <2>8. CASE /\ probe'[p] = Without(r)
             /\ router.content[r.key.scheme] # "clients"
    <3>1. ~RetriesHTTPS(r)
      <4>1. RetriesHTTPS(r) => Without(r).pc = "session"
        BY DEF Without, Idle
      <4> QED
        BY <2>1, <2>8, <4>1
    <3>2. r.authenticated /\ r.key.scheme \in {"http", "https"}
      <4>1. r.pc \in {"request", "sign"}
        BY <2>5 DEF Request, ReadyToSend, At
      <4> QED
        BY <2>1, <4>1 DEF Good, SessionLinked, Using, Probes, Keys, Schemes
    <3>3. CASE r.fallback
      <4>1. r.key.scheme = "https" /\ router.content["http"] # "clients"
        BY <2>1, <3>3 DEF Good, CalmLinked, Active
      <4> QED
        BY <1>1, <2>8, <3>3, <4>1
    <3>4. CASE ~r.fallback
      <4>1. r.key.scheme = "https"
        BY <3>1, <3>2, <3>4 DEF RetriesHTTPS
      <4> QED
        BY <1>1, <2>8, <3>4, <4>1
    <3> QED
      BY <3>3, <3>4
  <2> QED
    BY <1>1, <2>1, <2>5, <2>6, <2>7, <2>8, RequestOutcome
<1>2. Typed /\ Linked /\ [Next]_vars => [\A p \in Probers : A(p) => probe'[p].success]_vars
  BY <1>1
<1> QED
  BY <1>2, LinkedAlways, PTL DEF Spec, UndisturbedSucceeds
================================================================================

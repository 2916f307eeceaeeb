---------------------------- MODULE AccountsProofs ----------------------------
(***************************************************************************)
(* Proofs about Accounts, for any clients, names and bounds.               *)
(***************************************************************************)
EXTENDS Accounts, TLAPS

BudgetKinds == {"creates", "logins", "changes", "renames", "expiries",
                "recycles", "faults", "restarts", "upsets"}

(* What TypeOK needs to be inductive.  An id is the number of its creation *)
(* because AUTOINCREMENT gives out each one once; a token is the number of *)
(* its login; only a new connection turns the foreign keys off.            *)
UsersLinked ==
    /\ lastId + budget.creates = MaxCreates
    /\ \A u \in users : u.id <= lastId /\ u.born = u.id
SessionsLinked ==
    \A s \in sessions : /\ s.user <= lastId /\ s.born = s.user
                        /\ s.token <= MaxLogins - budget.logins
RequestLinked(c) ==
    /\ req[c].pc \in {"create", "update"} => req[c].name \in Names
    /\ req[c].pc = "session" =>
          req[c].id \in 1..lastId /\ req[c].born = req[c].id
Linked ==
    /\ UsersLinked /\ SessionsLinked
    /\ \A c \in Clients : RequestLinked(c)
    /\ budget.recycles = MaxRecycles => fk
Core == TypeOK /\ Linked

-----------------------------------------------------------------------------
(* The parts of a step. *)

LEMMA BudgetFacts ==
    ASSUME TypeOK
    PROVE  /\ \A k \in BudgetKinds : budget[k] \in Nat
           /\ MaxCreates \in Nat /\ MaxCreates > 0 /\ MaxLogins \in Nat
           /\ budget.creates <= MaxCreates /\ budget.logins <= MaxLogins
           /\ budget.changes <= MaxChanges /\ MaxChanges \in Nat
           /\ budget.recycles <= MaxRecycles /\ MaxRecycles \in Nat
           /\ budget.faults <= MaxFaults /\ MaxFaults \in Nat
           /\ budget.restarts <= MaxRestarts /\ MaxRestarts \in Nat
BY BoundsAssumption DEF TypeOK, Budgets, BudgetKinds

(* One part of the budget goes down.                                       *)
LEMMA DownFacts ==
    ASSUME NEW b \in Budgets, NEW kind \in BudgetKinds, b[kind] > 0,
           NEW d, d = [b EXCEPT ![kind] = @ - 1]
    PROVE  /\ d \in Budgets /\ d[kind] = b[kind] - 1
           /\ \A k \in BudgetKinds \ {kind} : d[k] = b[k]
<1>1. CASE kind = "creates"
  BY <1>1, BoundsAssumption DEF Budgets, BudgetKinds
<1>2. CASE kind = "logins"
  BY <1>2, BoundsAssumption DEF Budgets, BudgetKinds
<1>3. CASE kind = "changes"
  BY <1>3, BoundsAssumption DEF Budgets, BudgetKinds
<1>4. CASE kind = "renames"
  BY <1>4, BoundsAssumption DEF Budgets, BudgetKinds
<1>5. CASE kind = "expiries"
  BY <1>5, BoundsAssumption DEF Budgets, BudgetKinds
<1>6. CASE kind = "recycles"
  BY <1>6, BoundsAssumption DEF Budgets, BudgetKinds
<1>7. CASE kind = "faults"
  BY <1>7, BoundsAssumption DEF Budgets, BudgetKinds
<1>8. CASE kind = "restarts"
  BY <1>8, BoundsAssumption DEF Budgets, BudgetKinds
<1>9. CASE kind = "upsets"
  BY <1>9, BoundsAssumption DEF Budgets, BudgetKinds
<1> QED BY <1>1, <1>2, <1>3, <1>4, <1>5, <1>6, <1>7, <1>8, <1>9 DEF BudgetKinds

LEMMA SpendFacts ==
    ASSUME TypeOK, NEW kind \in BudgetKinds \ {"upsets"},
           Spend(kind) \/ Upset(kind)
    PROVE  /\ budget[kind] > 0 /\ budget' \in Budgets
           /\ budget'[kind] = budget[kind] - 1
           /\ \A k \in BudgetKinds \ {kind, "upsets"} : budget'[k] = budget[k]
<1>1. budget \in Budgets /\ DOMAIN budget = BudgetKinds
  BY DEF TypeOK, Budgets, BudgetKinds
<1>2. PICK d : d = [budget EXCEPT ![kind] = @ - 1]
  OBVIOUS
<1>3. budget[kind] > 0
  BY DEF Spend, Upset
<1>4. /\ d \in Budgets /\ d[kind] = budget[kind] - 1
      /\ \A k \in BudgetKinds \ {kind} : d[k] = budget[k]
  BY <1>1, <1>2, <1>3, DownFacts
<1>5. CASE Spend(kind)
  BY <1>2, <1>3, <1>4, <1>5 DEF Spend
<1>6. CASE Upset(kind)
  <2>1. d.upsets = budget.upsets /\ d.upsets > 0
    BY <1>4, <1>6 DEF Upset, BudgetKinds
  <2>2. budget' = [d EXCEPT !.upsets = @ - 1]
    BY <1>2, <1>6, <2>1 DEF Upset
  <2>3. /\ budget' \in Budgets
        /\ \A k \in BudgetKinds \ {"upsets"} : budget'[k] = d[k]
    BY <1>4, <2>1, <2>2, DownFacts DEF BudgetKinds
  <2> QED BY <1>3, <1>4, <2>3 DEF BudgetKinds
<1> QED BY <1>5, <1>6

(* One client's request changes.                                           *)
LEMMA RequestFacts ==
    ASSUME TypeOK, NEW c \in Clients, NEW r \in Requests,
           req' = [req EXCEPT ![c] = r]
    PROVE  /\ req' \in [Clients -> Requests] /\ req'[c] = r
           /\ \A d \in Clients \ {c} : req'[d] = req[d]
BY DEF TypeOK

LEMMA NoRequestTyped == NoRequest \in Requests
BY BoundsAssumption DEF NoRequest, Requests

LEMMA AnswerFacts ==
    ASSUME TypeOK, NEW c \in Clients, Answer(c)
    PROVE  /\ req' \in [Clients -> Requests] /\ req'[c].pc = "idle"
           /\ \A d \in Clients \ {c} : req'[d] = req[d]
<1>1. NoRequest.pc = "idle"
  BY DEF NoRequest
<1> QED BY <1>1, RequestFacts, NoRequestTyped DEF Answer

LEMMA GotoFacts ==
    ASSUME TypeOK, NEW c \in Clients, NEW pc \in {"sessions", "delete"},
           Goto(c, pc)
    PROVE  /\ req' \in [Clients -> Requests] /\ req'[c].pc = pc
           /\ req'[c].id = req[c].id
           /\ \A d \in Clients \ {c} : req'[d] = req[d]
<1> DEFINE r == [req[c] EXCEPT !.pc = pc]
<1>1. r \in Requests /\ r.pc = pc /\ r.id = req[c].id
  BY DEF TypeOK, Requests
<1>2. req' = [req EXCEPT ![c] = r]
  BY DEF Goto
<1> HIDE DEF r
<1> QED BY <1>1, <1>2, RequestFacts

-----------------------------------------------------------------------------
(* The tables, the sessions and the requests, each kept on its own. *)

UsersTyped ==
    /\ users \subseteq Users /\ lastId \in Ids
    /\ \A u, v \in users : u.id = v.id \/ u.name = v.name => u = v
SessionsTyped ==
    /\ sessions \subseteq Sessions
    /\ \A s, t \in sessions : s.token = t.token => s = t

(* Nothing is added to the users, whose ids go on counting.                *)
LEMMA FewerUsers ==
    ASSUME Core, users' \subseteq users, UNCHANGED lastId,
           budget'.creates = budget.creates
    PROVE  UsersTyped' /\ UsersLinked'
BY DEF Core, TypeOK, Linked, UsersLinked, UsersTyped

LEMMA FewerSessions ==
    ASSUME Core, sessions' \subseteq sessions, lastId' \in Nat,
           lastId <= lastId', budget'.logins = budget.logins
    PROVE  SessionsTyped' /\ SessionsLinked'
<1>1. /\ lastId \in Nat /\ sessions \subseteq Sessions
      /\ \A s \in sessions : s.user \in Nat
  BY BoundsAssumption DEF Core, TypeOK, Ids, Sessions
<1> QED BY <1>1 DEF Core, TypeOK, Linked, SessionsLinked, SessionsTyped

(* Every request but one client's stays.                                   *)
LEMMA OtherRequests ==
    ASSUME Core, NEW c \in Clients, lastId' \in Nat, lastId <= lastId',
           \A d \in Clients \ {c} : req'[d] = req[d],
           RequestLinked(c)'
    PROVE  \A d \in Clients : RequestLinked(d)'
<1> SUFFICES ASSUME NEW d \in Clients \ {c}
             PROVE  RequestLinked(d)'
  OBVIOUS
<1>1. RequestLinked(d) /\ req'[d] = req[d] /\ lastId \in Nat
  BY BoundsAssumption DEF Core, Linked, TypeOK, Ids
<1> QED BY <1>1 DEF RequestLinked

(* A step that is done with the client's request.                          *)
LEMMA Answered ==
    ASSUME Core, NEW c \in Clients, Answer(c), lastId' \in Nat,
           lastId <= lastId'
    PROVE  /\ req' \in [Clients -> Requests]
           /\ \A d \in Clients : RequestLinked(d)'
<1>1. RequestLinked(c)'
  BY AnswerFacts DEF RequestLinked, Core
<1> QED BY <1>1, AnswerFacts, OtherRequests DEF Core

LEMMA CoreFrom ==
    ASSUME UsersTyped', UsersLinked', SessionsTyped', SessionsLinked',
           req' \in [Clients -> Requests],
           \A c \in Clients : RequestLinked(c)',
           fk' \in BOOLEAN, up' \in BOOLEAN,
           cookie' \in [Clients -> Tokens \cup {0}], budget' \in Budgets,
           budget'.recycles = MaxRecycles => fk'
    PROVE  Core'
BY DEF Core, TypeOK, Linked, UsersTyped, SessionsTyped

-----------------------------------------------------------------------------
(* One step. *)

(* A step that changes the request of one client and no table.             *)
LEMMA RequestStep ==
    ASSUME Core, NEW c \in Clients, NEW r \in Requests,
           req' = [req EXCEPT ![c] = r],
           r.pc \in {"create", "update"} => r.name \in Names,
           r.pc = "session" => r.id \in 1..lastId /\ r.born = r.id,
           UNCHANGED <<db, up, cookie, budget>>
    PROVE  Core'
<1>1. /\ req' \in [Clients -> Requests] /\ req'[c] = r
      /\ \A d \in Clients \ {c} : req'[d] = req[d]
  BY RequestFacts DEF Core
<1>2. RequestLinked(c)'
  BY <1>1 DEF RequestLinked, db
<1>3. UNCHANGED <<users, lastId, sessions, fk>> /\ lastId \in Nat
  BY BoundsAssumption DEF db, Core, TypeOK, Ids
<1>4. \A d \in Clients : RequestLinked(d)'
  BY <1>1, <1>2, <1>3, OtherRequests
<1> QED BY <1>1, <1>3, <1>4, FewerUsers, FewerSessions, CoreFrom
        DEF Core, TypeOK, Linked

LEMMA RequestSteps ==
    ASSUME Core, NEW c \in Clients,
           \/ Lookup(c) \/ Fail(c) \/ CountUsers(c)
           \/ \E name \in Names : CreateUserStart(c, name)
           \/ \E id \in Ids : DeleteUserStart(c, id)
           \/ \E id \in Ids, name \in Names, change \in BOOLEAN :
                 UpdateUserStart(c, id, name, change)
    PROVE  Core'
<1>1. ASSUME Lookup(c)
      PROVE  Core'
  <2>1. PICK u \in users :
           req' = [req EXCEPT ![c].pc = "session", ![c].id = u.id,
                              ![c].pw = u.pw, ![c].born = u.born]
    BY <1>1 DEF Lookup
  <2>2. PICK r : r = [req[c] EXCEPT !.pc = "session", !.id = u.id,
                                    !.pw = u.pw, !.born = u.born]
    OBVIOUS
  <2>3. req \in [Clients -> Requests] /\ req[c] \in Requests /\ u \in Users
    BY DEF Core, TypeOK
  <2>4. req' = [req EXCEPT ![c] = r]
    BY <2>1, <2>2, <2>3
  <2>5. r \in Requests /\ r.pc = "session" /\ r.id = u.id /\ r.born = u.born
    BY <2>2, <2>3 DEF Requests, Users
  <2>6. u.id \in 1..lastId /\ u.born = u.id
    BY <2>3, BoundsAssumption
       DEF Core, TypeOK, Linked, UsersLinked, Users, Ids
  <2> QED BY <1>1, <2>4, <2>5, <2>6, RequestStep DEF Lookup
<1>2. NoRequest \in Requests /\ NoRequest.pc = "idle"
  BY NoRequestTyped DEF NoRequest
<1>3. ASSUME Fail(c)
      PROVE  Core'
  BY <1>2, <1>3, RequestStep DEF Fail, Answer
<1>4. ASSUME CountUsers(c)
      PROVE  Core'
  <2>1. CASE Answer(c)
    BY <1>2, <1>4, <2>1, RequestStep DEF CountUsers, Answer
  <2>2. CASE Goto(c, "delete")
    <3>1. PICK r : r = [req[c] EXCEPT !.pc = "delete"]
      OBVIOUS
    <3>2. r \in Requests /\ r.pc = "delete"
      BY <3>1 DEF Core, TypeOK, Requests
    <3>3. req' = [req EXCEPT ![c] = r]
      BY <2>2, <3>1 DEF Goto
    <3> QED BY <1>4, <3>2, <3>3, RequestStep DEF CountUsers
  <2> QED BY <1>4, <2>1, <2>2 DEF CountUsers
<1>5. ASSUME NEW name \in Names, CreateUserStart(c, name)
      PROVE  Core'
  <2>1. PICK r : r = [NoRequest EXCEPT !.pc = "create", !.name = name]
    OBVIOUS
  <2>2. r \in Requests /\ r.pc = "create" /\ r.name = name
    BY <1>2, <2>1 DEF Requests
  <2> QED BY <1>5, <2>1, <2>2, RequestStep DEF CreateUserStart, Start
<1>6. ASSUME NEW id \in Ids, DeleteUserStart(c, id)
      PROVE  Core'
  <2>1. PICK r : r = [NoRequest EXCEPT !.pc = "count", !.id = id]
    OBVIOUS
  <2>2. r \in Requests /\ r.pc = "count"
    BY <1>2, <2>1 DEF Requests
  <2> QED BY <1>6, <2>1, <2>2, RequestStep DEF DeleteUserStart, Start
<1>7. ASSUME NEW id \in Ids, NEW name \in Names, NEW change \in BOOLEAN,
             UpdateUserStart(c, id, name, change)
      PROVE  Core'
  <2>1. PICK r : r = [NoRequest EXCEPT !.pc = "update", !.id = id,
                                       !.name = name, !.change = change]
    OBVIOUS
  <2>2. r \in Requests /\ r.pc = "update" /\ r.name = name
    BY <1>2, <2>1 DEF Requests
  <2> QED BY <1>7, <2>1, <2>2, RequestStep DEF UpdateUserStart, Start
<1> QED BY <1>1, <1>3, <1>4, <1>5, <1>6, <1>7

LEMMA SessionSteps ==
    ASSUME Core, NEW c \in Clients,
           \/ Logout(c) \/ DeleteSessionsForUser(c)
           \/ DeleteSessionsFails(c) \/ DeleteUser(c)
           \/ \E name \in Names : Login(c, name)
    PROVE  Core'
<1>1. ASSUME Logout(c)
      PROVE  Core'
  <2>1. /\ sessions' \subseteq sessions
        /\ cookie' \in [Clients -> Tokens \cup {0}]
        /\ UNCHANGED <<users, lastId, fk, up, req, budget>>
        /\ lastId \in Nat
    BY <1>1, BoundsAssumption DEF Logout, Core, TypeOK, Ids
  <2>2. \A d \in Clients : RequestLinked(d)'
    BY <2>1 DEF Core, Linked, RequestLinked
  <2> QED BY <2>1, <2>2, FewerUsers, FewerSessions, CoreFrom
          DEF Core, TypeOK, Linked
<1>2. ASSUME sessions' \subseteq sessions, users' \subseteq users,
             UNCHANGED <<lastId, fk, up, cookie>>, Answer(c),
             budget' \in Budgets, budget'.creates = budget.creates,
             budget'.logins = budget.logins,
             budget'.recycles = budget.recycles
      PROVE  Core'
  <2>1. lastId \in Nat
    BY BoundsAssumption DEF Core, TypeOK, Ids
  <2> QED BY <1>2, <2>1, Answered, FewerUsers, FewerSessions, CoreFrom
          DEF Core, TypeOK, Linked
<1>3. ASSUME DeleteSessionsForUser(c)
      PROVE  Core'
  BY <1>2, <1>3 DEF DeleteSessionsForUser, Core, TypeOK
<1>4. ASSUME DeleteSessionsFails(c)
      PROVE  Core'
  <2>1. /\ budget' \in Budgets /\ budget'.creates = budget.creates
        /\ budget'.logins = budget.logins
        /\ budget'.recycles = budget.recycles
    BY <1>4, SpendFacts DEF DeleteSessionsFails, Core, BudgetKinds
  <2> QED BY <1>2, <1>4, <2>1 DEF DeleteSessionsFails, db
<1>5. ASSUME DeleteUser(c)
      PROVE  Core'
  <2>1. sessions' \subseteq sessions /\ users' \subseteq users
    BY <1>5 DEF DeleteUser, Cascade
  <2> QED BY <1>2, <1>5, <2>1 DEF DeleteUser, Core, TypeOK
<1>6. ASSUME NEW name \in Names, Login(c, name)
      PROVE  Core'
  <2>1. PICK r : r = [req[c] EXCEPT !.pc = "lookup", !.name = name]
    OBVIOUS
  <2>2. r \in Requests /\ r.pc = "lookup" /\ req[c] \in Requests
    BY <2>1 DEF Core, TypeOK, Requests
  <2>3. req' = [req EXCEPT ![c] = r]
    BY <1>6, <2>1 DEF Login, Core, TypeOK
  <2>4. /\ req' \in [Clients -> Requests] /\ req'[c].pc = "lookup"
        /\ \A d \in Clients \ {c} : req'[d] = req[d]
    BY <2>2, <2>3, RequestFacts DEF Core
  <2>5. /\ sessions' \subseteq sessions
        /\ UNCHANGED <<users, lastId, fk, up, cookie, budget>>
    BY <1>6 DEF Login
  <2>6. lastId \in Nat
    BY BoundsAssumption DEF Core, TypeOK, Ids
  <2>7. \A d \in Clients : RequestLinked(d)'
    BY <2>4, <2>5, <2>6, OtherRequests DEF RequestLinked
  <2> QED BY <2>4, <2>5, <2>6, <2>7, FewerUsers, FewerSessions, CoreFrom
          DEF Core, TypeOK, Linked
<1> QED BY <1>1, <1>3, <1>4, <1>5, <1>6

(* A user row of its own id and name.                                      *)
LEMMA NewUser ==
    ASSUME Core, NEW name \in Names, budget.creates > 0,
           \A u \in users : u.name # name,
           users' = users \cup
               {[id |-> NextId, name |-> name, pw |-> 0,
                 born |-> MaxCreates - budget.creates + 1]},
           lastId' = NextId, budget'.creates = budget.creates - 1
    PROVE  UsersTyped' /\ UsersLinked' /\ lastId' \in Nat /\ lastId <= lastId'
<1>1. /\ lastId \in Nat /\ lastId + budget.creates = MaxCreates
      /\ MaxCreates \in Nat /\ budget.creates \in Nat /\ MaxChanges \in Nat
  BY BudgetFacts, BoundsAssumption
     DEF Core, TypeOK, Linked, UsersLinked, Ids, BudgetKinds
<1>2. /\ NextId = lastId + 1 /\ NextId \in Ids
      /\ MaxCreates - budget.creates + 1 = NextId
  BY <1>1 DEF NextId, Ids
<1>3. PICK n : n = [id |-> NextId, name |-> name, pw |-> 0, born |-> NextId]
  OBVIOUS
<1>4. n \in Users /\ n.id = NextId /\ n.name = name /\ n.born = NextId
  BY <1>1, <1>2, <1>3 DEF Users
<1>5. users' = users \cup {n}
  BY <1>2, <1>3
<1>6. \A u \in users : u.id \in Nat /\ u.id <= lastId /\ u.born = u.id
  BY <1>1 DEF Core, TypeOK, Linked, UsersLinked, Users, Ids
<1>7. UsersTyped'
  <2>1. \A u \in users : u.id # n.id /\ u.name # n.name
    BY <1>1, <1>2, <1>4, <1>6
  <2> QED BY <1>2, <1>4, <1>5, <2>1 DEF UsersTyped, Core, TypeOK
<1>8. UsersLinked'
  BY <1>1, <1>2, <1>4, <1>5, <1>6 DEF UsersLinked
<1> QED BY <1>1, <1>2, <1>7, <1>8

LEMMA CreateUserStep ==
    ASSUME Core, NEW c \in Clients, CreateUser(c)
    PROVE  Core'
<1>1. /\ budget.creates > 0 /\ budget' \in Budgets
      /\ budget'.creates = budget.creates - 1
      /\ budget'.logins = budget.logins
      /\ budget'.recycles = budget.recycles
  BY SpendFacts DEF CreateUser, InsertUser, Core, BudgetKinds
<1>2. req[c].name \in Names
  BY DEF CreateUser, At, Core, Linked, RequestLinked
<1>3. \A u \in users : u.name # req[c].name
  <2>1. \A u \in users : u.id # 0
    BY DEF Core, TypeOK, Users, Ids
  <2> QED BY <2>1 DEF CreateUser, InsertUser, NameTaken
<1>4. UsersTyped' /\ UsersLinked' /\ lastId' \in Nat /\ lastId <= lastId'
  BY <1>1, <1>2, <1>3, NewUser DEF CreateUser, InsertUser
<1>5. sessions' \subseteq sessions /\ UNCHANGED <<fk, up, cookie>> /\ Answer(c)
  BY DEF CreateUser
<1> QED BY <1>1, <1>4, <1>5, Answered, FewerSessions, CoreFrom
        DEF Core, TypeOK, Linked

LEMMA UpdateUserStep ==
    ASSUME Core, NEW c \in Clients, UpdateUser(c)
    PROVE  Core'
<1>1. /\ req[c] \in Requests /\ req[c].name \in Names
      /\ users \subseteq Users /\ lastId \in Nat
  <2>1. req[c].pc = "update"
    BY DEF UpdateUser, At
  <2>2. RequestLinked(c)
    BY DEF Core, Linked
  <2>3. req[c] \in Requests /\ users \subseteq Users /\ lastId \in Nat
    BY BoundsAssumption DEF Core, TypeOK, Ids
  <2> QED BY <2>1, <2>2, <2>3 DEF RequestLinked
<1>2. Spend(IF req[c].change THEN "changes" ELSE "renames")
  BY Zenon DEF UpdateUser
<1>3. /\ budget' \in Budgets /\ (req[c].change => budget.changes > 0)
      /\ budget'.creates = budget.creates
      /\ budget'.logins = budget.logins
      /\ budget'.recycles = budget.recycles
  <2>1. CASE req[c].change
    <3>1. Spend("changes")
      BY <1>2, <2>1
    <3> QED BY <3>1, SpendFacts DEF Core, BudgetKinds
  <2>2. CASE ~req[c].change
    <3>1. Spend("renames")
      BY <1>2, <2>2
    <3> QED BY <2>2, <3>1, SpendFacts DEF Core, BudgetKinds
  <2> QED BY <2>1, <2>2
<1>4. PICK pw : pw = MaxChanges - budget.changes + 1
  OBVIOUS
<1>5. req[c].change => pw \in 0..MaxChanges
  <2> SUFFICES ASSUME req[c].change PROVE pw \in 0..MaxChanges
    OBVIOUS
  <2>1. budget.changes > 0
    BY <1>3
  <2>2. /\ budget.changes \in Nat /\ budget.changes <= MaxChanges
        /\ MaxChanges \in Nat
    BY BudgetFacts DEF Core, BudgetKinds
  <2> QED BY <1>4, <2>1, <2>2
<1>6. PICK f : /\ f = [u \in users |->
                         [u EXCEPT !.name = req[c].name,
                                   !.pw = IF req[c].change THEN pw ELSE @]]
  OBVIOUS
<1>7. users' = {IF u.id # req[c].id THEN u ELSE f[u] : u \in users}
  BY <1>4, <1>6 DEF UpdateUser
<1>8. \A u \in users : /\ f[u] \in Users /\ f[u].id = u.id
                       /\ f[u].born = u.born /\ f[u].name = req[c].name
  <2> SUFFICES ASSUME NEW u \in users
               PROVE  /\ f[u] \in Users /\ f[u].id = u.id
                      /\ f[u].born = u.born /\ f[u].name = req[c].name
    OBVIOUS
  <2>1. u \in Users
    BY <1>1
  <2>2. PICK p \in 0..MaxChanges :
           f[u] = [u EXCEPT !.name = req[c].name, !.pw = p]
    <3>1. CASE req[c].change
      BY <1>5, <1>6, <3>1
    <3>2. CASE ~req[c].change
      <4>1. f[u] = [u EXCEPT !.name = req[c].name, !.pw = u.pw]
        BY <1>6, <2>1, <3>2 DEF Users
      <4> QED BY <2>1, <4>1 DEF Users
    <3> QED BY <3>1, <3>2
  <2> QED BY <1>1, <2>1, <2>2 DEF Users
<1>9. PICK g : g = [u \in users |-> IF u.id # req[c].id THEN u ELSE f[u]]
  OBVIOUS
<1>10. /\ users' = {g[u] : u \in users}
       /\ \A u \in users : /\ g[u] \in Users /\ g[u].id = u.id
                           /\ g[u].born = u.born
                           /\ u.id = req[c].id => g[u].name = req[c].name
                           /\ u.id # req[c].id => g[u] = u
  BY <1>1, <1>7, <1>8, <1>9
<1>11. \A u, v \in users : g[u].id = g[v].id \/ g[u].name = g[v].name
                             => u = v
  <2> SUFFICES ASSUME NEW u \in users, NEW v \in users,
                      g[u].id = g[v].id \/ g[u].name = g[v].name
               PROVE  u = v
    OBVIOUS
  <2>1. \A x, y \in users : x.id = y.id \/ x.name = y.name => x = y
    BY DEF Core, TypeOK
  <2>2. CASE g[u].id = g[v].id
    BY <1>10, <2>1, <2>2
  <2>3. CASE g[u].name = g[v].name /\ u.id # v.id
    <3>1. \A x \in users : x.id = req[c].id =>
             \A y \in users : y.id # req[c].id => y.name # req[c].name
      BY DEF UpdateUser, Exists, NameTaken
    <3> QED BY <1>10, <2>1, <2>3, <3>1
  <2> QED BY <1>10, <2>1, <2>2, <2>3
<1>12. UsersTyped' /\ UsersLinked'
  <2>1. UNCHANGED lastId
    BY DEF UpdateUser
  <2>2. UsersTyped'
    BY <1>10, <1>11, <2>1 DEF UsersTyped, Core, TypeOK
  <2>3. UsersLinked'
    BY <1>3, <1>10, <2>1 DEF UsersLinked, Core, Linked
  <2> QED BY <2>2, <2>3
<1>13. /\ req' \in [Clients -> Requests]
       /\ \A d \in Clients : RequestLinked(d)'
  <2>0. lastId' \in Nat /\ lastId <= lastId' /\ UNCHANGED lastId
    <3>1. UNCHANGED lastId
      BY Zenon DEF UpdateUser
    <3> QED BY <1>1, <3>1
  <2>1. CASE Answer(c)
    BY <2>0, <2>1, Answered
  <2>2. CASE Goto(c, "sessions")
    <3>1. /\ req' \in [Clients -> Requests] /\ req'[c].pc = "sessions"
          /\ \A d \in Clients \ {c} : req'[d] = req[d]
      BY <2>2, GotoFacts DEF Core
    <3>2. RequestLinked(c)'
      BY <3>1 DEF RequestLinked
    <3> QED BY <2>0, <3>1, <3>2, OtherRequests
  <2>3. Answer(c) \/ Goto(c, "sessions")
    BY Zenon DEF UpdateUser
  <2> QED BY <2>1, <2>2, <2>3
<1>14. UNCHANGED <<lastId, sessions, fk, up, cookie>>
  BY Zenon DEF UpdateUser
<1> QED BY <1>1, <1>3, <1>12, <1>13, <1>14, FewerSessions, CoreFrom
        DEF Core, TypeOK, Linked

LEMMA CreateSessionStep ==
    ASSUME Core, NEW c \in Clients, CreateSession(c)
    PROVE  Core'
<1>1. /\ budget' \in Budgets /\ budget.logins > 0
      /\ budget'.creates = budget.creates
      /\ budget'.logins = budget.logins - 1
      /\ budget'.recycles = budget.recycles
  BY SpendFacts DEF CreateSession, Core, BudgetKinds
<1>2. /\ lastId \in Nat /\ lastId <= MaxCreates /\ MaxCreates \in Nat
      /\ budget.logins \in Nat /\ budget.logins <= MaxLogins
      /\ MaxLogins \in Nat
  BY BudgetFacts, BoundsAssumption DEF Core, TypeOK, Ids, BudgetKinds
<1>3. /\ req[c] \in Requests /\ req[c].id \in 1..lastId
      /\ req[c].born = req[c].id
  BY DEF CreateSession, At, Core, TypeOK, Linked, RequestLinked
<1>4. PICK token : token = MaxLogins - budget.logins + 1
  OBVIOUS
<1>5. token \in Tokens /\ token = MaxLogins - budget'.logins
  BY <1>1, <1>2, <1>4 DEF Tokens
<1>6. PICK stale \in BOOLEAN :
         /\ sessions' = sessions \cup
               {[token |-> token, user |-> req[c].id, born |-> req[c].born,
                 pw |-> req[c].pw, expired |-> FALSE, stale |-> stale]}
         /\ cookie' = [cookie EXCEPT ![c] = token]
  BY <1>4 DEF CreateSession
<1>7. PICK n : n = [token |-> token, user |-> req[c].id,
                    born |-> req[c].born, pw |-> req[c].pw,
                    expired |-> FALSE, stale |-> stale]
  OBVIOUS
<1>8. /\ n \in Sessions /\ n.token = token /\ n.user = req[c].id
      /\ n.born = n.user /\ sessions' = sessions \cup {n}
  <2>1. req[c].id \in Ids
    BY <1>2, <1>3 DEF Ids
  <2>2. req[c].pw \in 0..MaxChanges
    BY <1>3 DEF Requests
  <2> QED BY <1>3, <1>5, <1>6, <1>7, <2>1, <2>2 DEF Sessions
<1>9. \A s \in sessions :
         /\ s.token \in Nat /\ s.token < token
         /\ s.user <= lastId /\ s.born = s.user
  BY <1>2, <1>4 DEF Core, TypeOK, Linked, SessionsLinked, Sessions, Tokens
<1>10. SessionsTyped'
  <2>1. \A s \in sessions : s.token # n.token
    BY <1>2, <1>4, <1>8, <1>9
  <2> QED BY <1>8, <2>1 DEF SessionsTyped, Core, TypeOK
<1>11. SessionsLinked'
  <2>1. UNCHANGED lastId
    BY DEF CreateSession
  <2> QED BY <1>1, <1>2, <1>3, <1>4, <1>5, <1>8, <1>9, <2>1
          DEF SessionsLinked
<1>12. cookie' \in [Clients -> Tokens \cup {0}]
  BY <1>5, <1>6 DEF Core, TypeOK
<1> QED BY <1>1, <1>2, <1>10, <1>11, <1>12, Answered, FewerUsers, CoreFrom
        DEF CreateSession, Core, TypeOK, Linked

LEMMA ExpireStep ==
    ASSUME Core, Expire
    PROVE  Core'
<1>1. /\ budget' \in Budgets /\ budget'.creates = budget.creates
      /\ budget'.logins = budget.logins
      /\ budget'.recycles = budget.recycles
  BY SpendFacts DEF Expire, Core, BudgetKinds
<1>2. PICK s \in sessions :
         sessions' = (sessions \ {s}) \cup {[s EXCEPT !.expired = TRUE]}
  BY DEF Expire
<1>3. PICK t : t = [s EXCEPT !.expired = TRUE]
  OBVIOUS
<1>4. /\ t \in Sessions /\ t.token = s.token /\ t.user = s.user
      /\ t.born = s.born
  <2>1. s \in Sessions
    BY <1>2 DEF Core, TypeOK
  <2> QED BY <1>3, <2>1 DEF Sessions
<1>5. SessionsTyped'
  <2>1. \A a, b \in sessions : a.token = b.token => a = b
    BY DEF Core, TypeOK
  <2>2. \A a \in sessions \ {s} : a.token # t.token
    BY <1>2, <1>4, <2>1
  <2>3. sessions' = (sessions \ {s}) \cup {t}
    BY <1>2, <1>3
  <2>4. sessions \subseteq Sessions
    BY DEF Core, TypeOK
  <2> QED BY <1>4, <2>1, <2>2, <2>3, <2>4 DEF SessionsTyped
<1>6. SessionsLinked'
  <2>1. UNCHANGED lastId
    BY DEF Expire
  <2> QED BY <1>1, <1>2, <1>3, <1>4, <2>1
          DEF SessionsLinked, Core, Linked
<1>7. \A d \in Clients : RequestLinked(d)'
  BY DEF Expire, RequestLinked, Core, Linked
<1>8. UNCHANGED <<users, lastId, fk, up, cookie, req>>
  BY DEF Expire
<1> QED BY <1>1, <1>5, <1>6, <1>7, <1>8, FewerUsers, CoreFrom
        DEF Core, TypeOK, Linked

LEMMA RecycleStep ==
    ASSUME Core, Recycle
    PROVE  Core'
<1>1. /\ budget' \in Budgets /\ budget'.creates = budget.creates
      /\ budget'.logins = budget.logins /\ budget.recycles > 0
      /\ budget'.recycles = budget.recycles - 1
  BY SpendFacts DEF Recycle, Core, BudgetKinds
<1>2. budget'.recycles # MaxRecycles
  <2>1. budget.recycles \in Nat /\ budget.recycles <= MaxRecycles
    BY BudgetFacts DEF Core, BudgetKinds
  <2> QED BY <1>1, <2>1, BoundsAssumption
<1>3. UNCHANGED <<users, lastId, sessions, up, cookie, req>> /\ fk' = FALSE
  BY DEF Recycle
<1>4. lastId \in Nat
  BY BoundsAssumption DEF Core, TypeOK, Ids
<1>5. \A d \in Clients : RequestLinked(d)'
  BY <1>3 DEF RequestLinked, Core, Linked
<1>6. UsersTyped' /\ UsersLinked' /\ SessionsTyped' /\ SessionsLinked'
  BY <1>1, <1>3, <1>4, FewerUsers, FewerSessions
<1> QED BY <1>1, <1>2, <1>3, <1>5, <1>6, CoreFrom DEF Core, TypeOK

LEMMA DieStep ==
    ASSUME Core, Die
    PROVE  Core'
<1>1. \A d \in Clients : req'[d].pc = "idle"
  BY DEF Die, NoRequest
<1>2. req' \in [Clients -> Requests]
  BY NoRequestTyped DEF Die
<1>3. UNCHANGED <<users, lastId, sessions, fk, cookie, budget>> /\ up' = FALSE
  BY DEF Die, db
<1>4. lastId \in Nat
  BY BoundsAssumption DEF Core, TypeOK, Ids
<1>5. \A d \in Clients : RequestLinked(d)'
  BY <1>1 DEF RequestLinked
<1>6. UsersTyped' /\ UsersLinked' /\ SessionsTyped' /\ SessionsLinked'
  BY <1>3, <1>4, FewerUsers, FewerSessions
<1> QED BY <1>2, <1>3, <1>5, <1>6, CoreFrom DEF Core, TypeOK, Linked

(* A restart spends a restart, and a creation when the table was empty.    *)
LEMMA RestartBudget ==
    ASSUME Core, Restart
    PROVE  /\ budget' \in Budgets /\ budget'.restarts = budget.restarts - 1
           /\ \A k \in {"logins", "recycles", "faults"} :
                 budget'[k] = budget[k]
           /\ users # {} => budget'.creates = budget.creates
           /\ users = {} => /\ budget.creates > 0
                            /\ budget'.creates = budget.creates - 1
<1>1. CASE users # {}
  <2>1. Upset("restarts")
    BY <1>1 DEF Restart
  <2> QED BY <1>1, <2>1, SpendFacts DEF Core, BudgetKinds
<1>2. CASE users = {}
  <2>1. /\ budget.creates > 0 /\ budget.restarts > 0 /\ budget.upsets > 0
        /\ budget' = [budget EXCEPT !.restarts = @ - 1, !.creates = @ - 1,
                                    !.upsets = @ - 1]
    BY <1>2 DEF Restart
  <2>2. PICK d, e : /\ d = [budget EXCEPT !.restarts = @ - 1]
                    /\ e = [d EXCEPT !.creates = @ - 1]
    OBVIOUS
  <2>3. /\ d \in Budgets /\ d.restarts = budget.restarts - 1
        /\ \A k \in BudgetKinds \ {"restarts"} : d[k] = budget[k]
    <3>1. budget \in Budgets
      BY DEF Core, TypeOK
    <3> QED BY <2>1, <2>2, <3>1, DownFacts DEF BudgetKinds
  <2>4. d.creates > 0
    BY <2>1, <2>3 DEF BudgetKinds
  <2>5. /\ e \in Budgets /\ e.creates = d.creates - 1
        /\ \A k \in BudgetKinds \ {"creates"} : e[k] = d[k]
    <3>1. d \in Budgets /\ e = [d EXCEPT !.creates = @ - 1]
      BY <2>2, <2>3
    <3> QED BY <2>4, <3>1, DownFacts DEF BudgetKinds
  <2>6. e.upsets > 0 /\ budget' = [e EXCEPT !.upsets = @ - 1]
    BY <2>1, <2>2, <2>3, <2>5 DEF BudgetKinds, Core, TypeOK, Budgets
  <2>7. /\ budget' \in Budgets
        /\ \A k \in BudgetKinds \ {"upsets"} : budget'[k] = e[k]
    BY <2>5, <2>6, DownFacts DEF BudgetKinds
  <2> QED BY <1>2, <2>1, <2>3, <2>5, <2>7 DEF BudgetKinds
<1> QED BY <1>1, <1>2

LEMMA RestartStep ==
    ASSUME Core, Restart
    PROVE  Core'
<1>1. UNCHANGED <<sessions, cookie, req>> /\ up' = TRUE /\ fk' = TRUE
  BY DEF Restart
<1>2. lastId \in Nat
  BY BoundsAssumption DEF Core, TypeOK, Ids
<1>3. UsersTyped' /\ UsersLinked' /\ lastId' \in Nat /\ lastId <= lastId'
  <2>1. CASE users # {}
    BY <1>2, <2>1, RestartBudget, FewerUsers DEF Restart
  <2>2. CASE users = {}
    <3>1. users' = users \cup
             {[id |-> NextId, name |-> FirstName, pw |-> 0,
               born |-> MaxCreates - budget.creates + 1]}
      BY <2>2 DEF Restart
    <3>2. lastId' = NextId
      BY <2>2 DEF Restart
    <3> QED BY <2>2, <3>1, <3>2, RestartBudget, NewUser, NamesAssumption
  <2> QED BY <2>1, <2>2
<1>4. \A d \in Clients : RequestLinked(d)'
  BY <1>1, <1>2, <1>3 DEF RequestLinked, Core, Linked
<1> QED BY <1>1, <1>3, <1>4, RestartBudget, FewerSessions, CoreFrom
        DEF Core, TypeOK, Linked

LEMMA CoreStep ==
    ASSUME Core, [Next]_vars
    PROVE  Core'
<1>1. CASE UNCHANGED vars
  BY <1>1 DEF vars, Core, TypeOK, Linked, UsersLinked, SessionsLinked,
              RequestLinked
<1>2. CASE Handlers
  BY <1>2, RequestSteps, SessionSteps, CreateUserStep, UpdateUserStep,
     CreateSessionStep DEF Handlers
<1> QED BY <1>1, <1>2, ExpireStep, RecycleStep, DieStep, RestartStep DEF Next

LEMMA CoreInit ==
    ASSUME Init
    PROVE  Core
<1>1. /\ users = {[id |-> 1, name |-> FirstName, pw |-> 0, born |-> 1]}
      /\ lastId = 1 /\ sessions = {} /\ fk = TRUE /\ up = TRUE
      /\ cookie = [c \in Clients |-> 0]
      /\ req = [c \in Clients |-> NoRequest]
      /\ budget = [creates |-> MaxCreates - 1, logins |-> MaxLogins,
                   changes |-> MaxChanges, renames |-> MaxRenames,
                   expiries |-> MaxExpiries, recycles |-> MaxRecycles,
                   faults |-> MaxFaults, restarts |-> MaxRestarts,
                   upsets |-> MaxUpsets]
  BY DEF Init
<1>2. budget \in Budgets
  BY <1>1, BoundsAssumption DEF Budgets
<1>3. users \subseteq Users /\ lastId \in Ids
  BY <1>1, NamesAssumption, BoundsAssumption DEF Users, Ids
<1>4. TypeOK
  BY <1>1, <1>2, <1>3, NoRequestTyped DEF TypeOK
<1>5. UsersLinked /\ SessionsLinked /\ (budget.recycles = MaxRecycles => fk)
  BY <1>1, BoundsAssumption DEF UsersLinked, SessionsLinked
<1>6. \A c \in Clients : RequestLinked(c)
  BY <1>1 DEF RequestLinked, NoRequest
<1> QED BY <1>4, <1>5, <1>6 DEF Core, Linked

-----------------------------------------------------------------------------
(* Theorems. *)

(* Type correctness, and what makes it inductive: ids and tokens are given *)
(* out once, in order.                                                     *)
THEOREM CoreCorrect == Spec => []Core
BY CoreInit, CoreStep, PTL DEF Spec

(* Every variable of the account handlers keeps its type; ids, names and   *)
(* tokens are unique whatever requests run between a check and its write.  *)
THEOREM TypeCorrect == Spec => []TypeOK
<1>1. Core => TypeOK
  BY DEF Core
<1> QED BY <1>1, CoreCorrect, PTL

(* A session never becomes the session of another account, even when it    *)
(* outlives its user: AUTOINCREMENT gives out no id twice.                 *)
THEOREM SessionsKeepTheirOwnerCorrect == Spec => []SessionsKeepTheirOwner
<1>1. Core => SessionsKeepTheirOwner
  BY DEF Core, Linked, UsersLinked, SessionsLinked, SessionsKeepTheirOwner
<1> QED BY <1>1, CoreCorrect, PTL

(* What is left of a bound never grows.                                    *)
LEMMA BudgetShrinks ==
    ASSUME Core, [Next]_vars,
           NEW k \in {"recycles", "faults", "restarts"}
    PROVE  /\ budget[k] \in Nat /\ budget'[k] \in Nat
           /\ budget'[k] <= budget[k]
<1>1. budget[k] \in Nat /\ budget \in Budgets
  BY BudgetFacts DEF Core, BudgetKinds, TypeOK
<1>2. CASE UNCHANGED budget
  BY <1>1, <1>2
<1>3. ASSUME NEW kind \in BudgetKinds \ {"upsets"},
             Spend(kind) \/ Upset(kind)
      PROVE  budget'[k] \in Nat /\ budget'[k] <= budget[k]
  <2>1. /\ budget' \in Budgets /\ budget[kind] > 0
        /\ budget'[kind] = budget[kind] - 1
        /\ \A j \in BudgetKinds \ {kind, "upsets"} : budget'[j] = budget[j]
    BY <1>3, SpendFacts DEF Core
  <2> QED BY <1>1, <2>1 DEF BudgetKinds
<1>4. CASE Restart
  <2>1. budget' \in Budgets /\ budget'.restarts = budget.restarts - 1
    BY <1>4, RestartBudget
  <2>2. budget'.restarts \in Nat /\ budget.restarts \in Nat
    BY <1>1, <2>1, BoundsAssumption DEF Budgets
  <2> QED BY <1>1, <1>4, <2>1, <2>2, RestartBudget
<1>5. CASE Handlers
  <2>1. PICK c \in Clients :
           \/ Lookup(c) \/ CreateSession(c) \/ Logout(c) \/ Fail(c)
           \/ CreateUser(c) \/ UpdateUser(c)
           \/ DeleteSessionsForUser(c) \/ DeleteSessionsFails(c)
           \/ CountUsers(c) \/ DeleteUser(c)
           \/ \E name \in Names : Login(c, name) \/ CreateUserStart(c, name)
           \/ \E id \in Ids : DeleteUserStart(c, id)
           \/ \E id \in Ids, name \in Names, change \in BOOLEAN :
                 UpdateUserStart(c, id, name, change)
    BY <1>5 DEF Handlers
  <2>2. CASE UpdateUser(c)
    <3>1. Spend(IF req[c].change THEN "changes" ELSE "renames")
      BY <2>2, Zenon DEF UpdateUser
    <3>2. Spend("changes") \/ Spend("renames")
      BY <3>1
    <3> QED BY <1>1, <1>3, <3>2 DEF BudgetKinds
  <2>3. CASE CreateSession(c) \/ CreateUser(c) \/ DeleteSessionsFails(c)
    BY <1>1, <1>3, <2>3
       DEF CreateSession, CreateUser, InsertUser, DeleteSessionsFails,
           BudgetKinds
  <2> QED BY <1>2, <2>1, <2>2, <2>3
          DEF Lookup, Logout, Fail, DeleteSessionsForUser, CountUsers,
              DeleteUser, Login, CreateUserStart, DeleteUserStart,
              UpdateUserStart, Start
<1>6. CASE Expire \/ Recycle
  BY <1>1, <1>3, <1>6 DEF Expire, Recycle, BudgetKinds
<1>7. CASE Die
  BY <1>2, <1>7 DEF Die
<1>8. CASE UNCHANGED vars
  BY <1>2, <1>8 DEF vars
<1> QED BY <1>1, <1>4, <1>5, <1>6, <1>7, <1>8 DEF Next

(* UpdateUser keeps every row and its id, and the password of every row    *)
(* but the one it changes.                                                 *)
LEMMA UpdateKeepsRows ==
    ASSUME Core, NEW c \in Clients, UpdateUser(c)
    PROVE  /\ \A u \in users : \E v \in users' : v.id = u.id
           /\ \A v \in users' : \E u \in users :
                 /\ v.id = u.id
                 /\ ~req[c].change \/ u.id # req[c].id => v.pw = u.pw
<1>1. PICK pw : users' = {IF u.id # req[c].id THEN u
                          ELSE [u EXCEPT !.name = req[c].name,
                                         !.pw = IF req[c].change THEN pw
                                                ELSE @] : u \in users}
  BY DEF UpdateUser
<1>2. PICK f : f = [u \in users |->
                      [u EXCEPT !.name = req[c].name,
                                !.pw = IF req[c].change THEN pw ELSE @]]
  OBVIOUS
<1>3. users' = {IF u.id # req[c].id THEN u ELSE f[u] : u \in users}
  BY <1>1, <1>2
<1>4. \A u \in users : f[u].id = u.id /\ (~req[c].change => f[u].pw = u.pw)
  <2> SUFFICES ASSUME NEW u \in users
               PROVE  f[u].id = u.id /\ (~req[c].change => f[u].pw = u.pw)
    OBVIOUS
  <2>1. u \in Users
    BY DEF Core, TypeOK
  <2>2. CASE req[c].change
    BY <1>2, <2>1, <2>2 DEF Users
  <2>3. CASE ~req[c].change
    BY <1>2, <2>1, <2>3 DEF Users
  <2> QED BY <2>2, <2>3
<1>5. \A u \in users : \E v \in users' : v.id = u.id
  BY <1>3, <1>4
<1>6. \A v \in users' : \E u \in users :
         /\ v.id = u.id
         /\ ~req[c].change \/ u.id # req[c].id => v.pw = u.pw
  BY <1>3, <1>4
<1> QED BY <1>5, <1>6

LEMMA NewSession ==
    ASSUME NEW c \in Clients, CreateSession(c)
    PROVE  \E n \in sessions' :
                 /\ sessions' = sessions \cup {n}
                 /\ n.user = req[c].id /\ n.pw = req[c].pw
                 /\ ~n.stale => \E u \in users : u.id = n.user /\ u.pw = n.pw
<1>1. PICK token, fresh :
         /\ fresh <=> \E u \in users : u.id = req[c].id /\ u.pw = req[c].pw
         /\ sessions' = sessions \cup
              {[token |-> token, user |-> req[c].id, born |-> req[c].born,
                pw |-> req[c].pw, expired |-> FALSE, stale |-> ~fresh]}
  BY DEF CreateSession
<1>2. PICK n : n = [token |-> token, user |-> req[c].id,
                    born |-> req[c].born, pw |-> req[c].pw,
                    expired |-> FALSE, stale |-> ~fresh]
  OBVIOUS
<1>3. n.user = req[c].id /\ n.pw = req[c].pw /\ n.stale = ~fresh
  BY <1>2
<1>4. sessions' = sessions \cup {n}
  BY <1>1, <1>2
<1> QED BY <1>1, <1>3, <1>4

LEMMA CascadeStep ==
    ASSUME Core, CascadeLeavesNoSession, [Next]_vars
    PROVE  CascadeLeavesNoSession'
<1> SUFFICES ASSUME budget'.recycles = MaxRecycles
             PROVE  SessionsHaveUsers'
  BY DEF CascadeLeavesNoSession
<1>1. budget.recycles = MaxRecycles
  BY BudgetShrinks, BudgetFacts, BoundsAssumption DEF Core, BudgetKinds
<1>2. fk /\ \A s \in sessions : \E u \in users : u.id = s.user
  BY <1>1 DEF Core, Linked, CascadeLeavesNoSession, SessionsHaveUsers, Exists
<1>3. ASSUME \A s \in sessions' : \E t \in sessions : t.user = s.user,
             \A u \in users : \E v \in users' : v.id = u.id
      PROVE  SessionsHaveUsers'
  BY <1>2, <1>3 DEF SessionsHaveUsers, Exists
<1>4. ASSUME sessions' \subseteq sessions, users \subseteq users'
      PROVE  SessionsHaveUsers'
  BY <1>3, <1>4
<1>5. ASSUME NEW c \in Clients,
             \/ Lookup(c) \/ Logout(c) \/ Fail(c) \/ CreateUser(c)
             \/ DeleteSessionsForUser(c) \/ DeleteSessionsFails(c)
             \/ CountUsers(c)
             \/ \E name \in Names : Login(c, name) \/ CreateUserStart(c, name)
             \/ \E id \in Ids : DeleteUserStart(c, id)
             \/ \E id \in Ids, name \in Names, change \in BOOLEAN :
                   UpdateUserStart(c, id, name, change)
      PROVE  SessionsHaveUsers'
  BY <1>4, <1>5
     DEF Lookup, Logout, Fail, CreateUser, InsertUser, DeleteSessionsForUser,
         DeleteSessionsFails, CountUsers, Login, CreateUserStart,
         DeleteUserStart, UpdateUserStart, Start, db
<1>6. ASSUME NEW c \in Clients, UpdateUser(c)
      PROVE  SessionsHaveUsers'
  <2>1. UNCHANGED sessions
    BY <1>6, Zenon DEF UpdateUser
  <2> QED BY <1>3, <1>6, <2>1, UpdateKeepsRows
<1>7. ASSUME NEW c \in Clients, CreateSession(c)
      PROVE  SessionsHaveUsers'
  <2>1. PICK n \in sessions' :
           sessions' = sessions \cup {n} /\ n.user = req[c].id
    BY <1>7, NewSession
  <2>2. Exists(req[c].id) /\ UNCHANGED users
    BY <1>2, <1>7 DEF CreateSession
  <2> QED BY <1>2, <2>1, <2>2 DEF SessionsHaveUsers, Exists
<1>8. ASSUME NEW c \in Clients, DeleteUser(c)
      PROVE  SessionsHaveUsers'
  <2>1. /\ users' = {u \in users : u.id # req[c].id}
        /\ sessions' = {s \in sessions : s.user # req[c].id}
    BY <1>2, <1>8 DEF DeleteUser, Cascade
  <2> QED BY <1>2, <2>1 DEF SessionsHaveUsers, Exists
<1>9. CASE Expire
  <2>1. PICK s \in sessions :
           sessions' = (sessions \ {s}) \cup {[s EXCEPT !.expired = TRUE]}
    BY <1>9 DEF Expire
  <2>2. s \in Sessions
    BY <2>1 DEF Core, TypeOK
  <2>3. [s EXCEPT !.expired = TRUE].user = s.user
    BY <2>2 DEF Sessions
  <2> QED BY <1>3, <1>9, <2>1, <2>3 DEF Expire
<1>10. CASE Recycle \/ Die \/ UNCHANGED vars
  BY <1>4, <1>10 DEF Recycle, Die, vars, db
<1>11. CASE Restart
  <2>1. CASE users # {}
    BY <1>4, <1>11, <2>1 DEF Restart
  <2>2. CASE users = {}
    BY <1>2, <1>11, <2>2 DEF Restart, SessionsHaveUsers
  <2> QED BY <2>1, <2>2
<1>12. CASE Handlers
  BY <1>5, <1>6, <1>7, <1>8, <1>12 DEF Handlers
<1> QED BY <1>9, <1>10, <1>11, <1>12 DEF Next

(* On the connection that Open set up, every session has its user, in      *)
(* spite of the steps between the lookup of a user and the insert of its   *)
(* session: the insert checks the foreign key and the deletion cascades.   *)
THEOREM CascadeLeavesNoSessionCorrect == Spec => []CascadeLeavesNoSession
<1>1. Init => CascadeLeavesNoSession
  BY DEF Init, CascadeLeavesNoSession, SessionsHaveUsers
<1> QED BY <1>1, CascadeStep, CoreCorrect, PTL DEF Spec

LEMMA PasswordStep ==
    ASSUME Core, Core', PasswordChangeEndsSessions, [Next]_vars
    PROVE  PasswordChangeEndsSessions'
<1> DEFINE Ending(id) == \E c \in Clients :
                            req[c].pc = "sessions" /\ req[c].id = id
<1> SUFFICES ASSUME budget'.faults = MaxFaults,
                    budget'.restarts = MaxRestarts, up',
                    NEW s \in sessions', NEW u \in users',
                    s.user = u.id, s.pw # u.pw, ~s.stale
             PROVE  Ending(u.id)'
  BY DEF PasswordChangeEndsSessions
<1>1. budget.faults = MaxFaults /\ budget.restarts = MaxRestarts
  <2>1. /\ budget.faults <= MaxFaults /\ budget.faults \in Nat
        /\ budget.restarts <= MaxRestarts /\ budget.restarts \in Nat
    BY BudgetFacts DEF Core, BudgetKinds
  <2>2. budget'.faults <= budget.faults /\ budget'.restarts <= budget.restarts
    BY BudgetShrinks
  <2> QED BY <2>1, <2>2, BoundsAssumption
<1>2. ~Restart
  <2> SUFFICES ASSUME Restart PROVE FALSE
    OBVIOUS
  <2>1. budget'.restarts = budget.restarts - 1
    BY RestartBudget
  <2> QED BY <1>1, <2>1, BoundsAssumption
<1>3. up
  BY <1>2 DEF Next, Handlers, Lookup, CreateSession, Logout, Fail, CreateUser,
     UpdateUser, DeleteSessionsForUser, DeleteSessionsFails, CountUsers,
     DeleteUser, Login, CreateUserStart, DeleteUserStart, UpdateUserStart,
     Start, At, Expire, Recycle, Die, vars
<1>4. \A t \in sessions, v \in users :
         t.user = v.id /\ t.pw # v.pw /\ ~t.stale => Ending(v.id)
  BY <1>1, <1>3 DEF PasswordChangeEndsSessions
<1>5. ASSUME \E t \in sessions : t.user = s.user /\ t.pw = s.pw
                                /\ (s.stale <=> t.stale),
             \E v \in users : v.id = u.id /\ v.pw = u.pw,
             \A c \in Clients : req[c].pc = "sessions" => req'[c] = req[c]
      PROVE  Ending(u.id)'
  <2>1. Ending(u.id)
    BY <1>4, <1>5
  <2> QED BY <1>5, <2>1
<1>6. ASSUME s \in sessions, u \in users, NEW c \in Clients,
             req[c].pc # "sessions",
             \A d \in Clients \ {c} : req'[d] = req[d]
      PROVE  Ending(u.id)'
  BY <1>5, <1>6
<1>7. req \in [Clients -> Requests]
  BY DEF Core, TypeOK
<1>8. ASSUME NEW c \in Clients,
             \/ Lookup(c) \/ Fail(c) \/ CountUsers(c) \/ DeleteUser(c)
             \/ \E name \in Names : Login(c, name) \/ CreateUserStart(c, name)
             \/ \E id \in Ids : DeleteUserStart(c, id)
             \/ \E id \in Ids, name \in Names, change \in BOOLEAN :
                   UpdateUserStart(c, id, name, change)
      PROVE  Ending(u.id)'
  <2>1. req[c].pc # "sessions"
    BY <1>8 DEF Lookup, Fail, CountUsers, DeleteUser, Login, CreateUserStart,
                DeleteUserStart, UpdateUserStart, Start, At
  <2>2. s \in sessions /\ u \in users
    BY <1>8 DEF Lookup, Fail, CountUsers, DeleteUser, Cascade, Login,
                CreateUserStart, DeleteUserStart, UpdateUserStart, Start, db
  <2>3. \A d \in Clients \ {c} : req'[d] = req[d]
    BY <1>7, <1>8
       DEF Lookup, Fail, CountUsers, DeleteUser, Login, CreateUserStart,
           DeleteUserStart, UpdateUserStart, Start, Answer, Goto
  <2> QED BY <1>6, <2>1, <2>2, <2>3
<1>9. ASSUME NEW c \in Clients, CreateSession(c)
      PROVE  Ending(u.id)'
  <2>1. PICK n \in sessions' :
                 /\ sessions' = sessions \cup {n}
                 /\ n.user = req[c].id /\ n.pw = req[c].pw
                 /\ ~n.stale => \E v \in users : v.id = n.user /\ v.pw = n.pw
    BY <1>9, NewSession
  <2>2. u \in users /\ \A v, w \in users : v.id = w.id => v = w
    BY <1>9 DEF CreateSession, Core, TypeOK
  <2>3. s # n
    BY <2>1, <2>2
  <2>4. req[c].pc # "sessions" /\ \A d \in Clients \ {c} : req'[d] = req[d]
    BY <1>7, <1>9 DEF CreateSession, At, Answer
  <2> QED BY <1>6, <2>1, <2>2, <2>3, <2>4
<1>10. ASSUME NEW c \in Clients, CreateUser(c)
       PROVE  Ending(u.id)'
  <2>1. PICK n : users' = users \cup {n} /\ n.id = NextId
    <3>1. PICK n : n = [id |-> NextId, name |-> req[c].name, pw |-> 0,
                        born |-> MaxCreates - budget.creates + 1]
      OBVIOUS
    <3> QED BY <1>10, <3>1 DEF CreateUser, InsertUser
  <2>2. s \in sessions /\ s.user <= lastId /\ s.user \in Nat /\ lastId \in Nat
    BY <1>10, BoundsAssumption
       DEF CreateUser, Core, TypeOK, Linked, SessionsLinked, Sessions, Ids
  <2>3. u # n
    BY <2>1, <2>2 DEF NextId
  <2>4. req[c].pc # "sessions" /\ \A d \in Clients \ {c} : req'[d] = req[d]
    BY <1>7, <1>10 DEF CreateUser, At, Answer
  <2> QED BY <1>6, <2>1, <2>2, <2>3, <2>4
<1>11. ASSUME NEW c \in Clients, UpdateUser(c)
       PROVE  Ending(u.id)'
  <2>1. UNCHANGED sessions /\ req[c].pc = "update"
    BY <1>11, Zenon DEF UpdateUser, At
  <2>2. PICK v \in users :
           /\ u.id = v.id
           /\ ~req[c].change \/ v.id # req[c].id => u.pw = v.pw
    BY <1>11, UpdateKeepsRows
  <2>3. req[c].change => Goto(c, "sessions")
    BY <1>11, Zenon DEF UpdateUser
  <2>4. ~req[c].change => Answer(c)
    BY <1>11, Zenon DEF UpdateUser
  <2>5. \A d \in Clients \ {c} : req'[d] = req[d]
    BY <2>3, <2>4, GotoFacts, AnswerFacts DEF Core
  <2>6. CASE req[c].change /\ u.id = req[c].id
    <3>1. req'[c].pc = "sessions" /\ req'[c].id = u.id
      BY <2>3, <2>6, GotoFacts DEF Core
    <3> QED BY <3>1
  <2>7. CASE ~(req[c].change /\ u.id = req[c].id)
    BY <1>5, <2>1, <2>2, <2>5, <2>7
  <2> QED BY <2>6, <2>7
<1>12. ASSUME NEW c \in Clients, DeleteSessionsForUser(c)
       PROVE  Ending(u.id)'
  <2>1. /\ s \in sessions /\ s.user # req[c].id /\ u \in users
        /\ \A d \in Clients \ {c} : req'[d] = req[d]
    BY <1>12, AnswerFacts DEF DeleteSessionsForUser, Core
  <2>2. PICK d \in Clients : req[d].pc = "sessions" /\ req[d].id = u.id
    BY <1>4, <2>1
  <2> QED BY <2>1, <2>2
<1>13. ASSUME NEW c \in Clients, DeleteSessionsFails(c)
       PROVE  Ending(u.id)'
  <2>1. budget'.faults = budget.faults - 1
    BY <1>13, SpendFacts DEF DeleteSessionsFails, Core, BudgetKinds
  <2> QED BY <1>1, <2>1, BoundsAssumption
<1>14. CASE Expire
  <2>1. PICK t \in sessions :
           sessions' = (sessions \ {t}) \cup {[t EXCEPT !.expired = TRUE]}
    BY <1>14 DEF Expire
  <2>2. PICK n : n = [t EXCEPT !.expired = TRUE]
    OBVIOUS
  <2>3. n.user = t.user /\ n.pw = t.pw /\ n.stale = t.stale
    BY <2>1, <2>2 DEF Core, TypeOK, Sessions
  <2> QED BY <1>5, <1>14, <2>1, <2>2, <2>3 DEF Expire
<1>15. ASSUME NEW c \in Clients, Logout(c)
       PROVE  Ending(u.id)'
  BY <1>5, <1>15 DEF Logout
<1>16. CASE Recycle \/ UNCHANGED vars
  BY <1>5, <1>16 DEF Recycle, vars
<1>17. ~Die
  BY DEF Die
<1>18. CASE Handlers
  BY <1>8, <1>9, <1>10, <1>11, <1>12, <1>13, <1>15, <1>18 DEF Handlers
<1> QED BY <1>2, <1>14, <1>16, <1>17, <1>18 DEF Next

(* A password change ends the sessions opened with the password before it, *)
(* whatever logins, changes and deletions run between its two statements.  *)
THEOREM PasswordChangeEndsSessionsCorrect ==
    Spec => []PasswordChangeEndsSessions
<1>1. Init => PasswordChangeEndsSessions
  BY DEF Init, PasswordChangeEndsSessions
<1>2. Core /\ Core' /\ PasswordChangeEndsSessions /\ [Next]_vars
      => PasswordChangeEndsSessions'
  BY PasswordStep
<1> QED BY <1>1, <1>2, CoreCorrect, PTL DEF Spec
===============================================================================

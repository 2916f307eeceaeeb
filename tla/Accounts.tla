------------------------------- MODULE Accounts -------------------------------
(***************************************************************************)
(* Users and sessions: the account handlers of internal/httpapi/api.go,    *)
(* auth.go, the tables of store/users.go and the connection of db.go.      *)
(*                                                                         *)
(* Requests of several clients run at the same time; each database call of *)
(* a handler is a step of its own, because the single connection of the    *)
(* pool is given back between two calls and no handler holds a             *)
(* transaction.  A password is the number of the change that set it; an    *)
(* account is told from a later one with the same id by the number of its  *)
(* creation (born), which the program does not keep.                       *)
(***************************************************************************)
EXTENDS Naturals, FiniteSetsExt

CONSTANTS
    Names,          \* usernames
    FirstName,      \* ADMIN_USERNAME
    Clients,        \* clients, each with one request at a time
    Deleters,       \* clients that delete users
    MaxCreates,     \* users created altogether (bound)
    MaxLogins,      \* sessions created altogether (bound)
    MaxChanges,     \* password changes (bound)
    MaxRenames,     \* changes of the name alone (bound)
    MaxExpiries,    \* sessions that reach their expiry (bound)
    MaxRecycles,    \* times the pool replaces its connection (bound)
    MaxFaults,      \* failed deletions of a user's sessions (bound)
    MaxRestarts,    \* starts of the process after the first (bound)
    MaxUpsets       \* expiries, new connections, failures and restarts
                    \* altogether (bound)

ASSUME NamesAssumption == FirstName \in Names
ASSUME ClientsAssumption == Deleters \subseteq Clients
ASSUME BoundsAssumption ==
    /\ MaxCreates \in Nat \ {0} /\ MaxLogins \in Nat /\ MaxChanges \in Nat
    /\ MaxRenames \in Nat /\ MaxExpiries \in Nat /\ MaxRecycles \in Nat
    /\ MaxFaults \in Nat /\ MaxRestarts \in Nat /\ MaxUpsets \in Nat

VARIABLES
    users,      \* rows of users
    lastId,     \* sqlite_sequence of users: the largest id ever given out
    sessions,   \* rows of sessions
    fk,         \* PRAGMA foreign_keys of the pool's present connection
    up,         \* the process runs
    cookie,     \* the session token each client holds, 0 for none
    req,        \* the request of each client and the locals of its handler
    budget      \* what is left of each bound

vars == <<users, lastId, sessions, fk, up, cookie, req, budget>>
db == <<users, lastId, sessions, fk>>

Ids == 1..MaxCreates
Tokens == 1..MaxLogins
Users == [id : Ids, name : Names, pw : 0..MaxChanges, born : Ids]
Sessions == [token : Tokens, user : Ids, born : Ids, pw : 0..MaxChanges,
             expired : BOOLEAN, stale : BOOLEAN]
Requests == [pc : {"idle", "lookup", "session", "create", "update",
                   "sessions", "count", "delete"},
             id : Ids \cup {0}, name : Names \cup {""}, change : BOOLEAN,
             pw : 0..MaxChanges, born : Ids \cup {0}]
Budgets == [creates : 0..MaxCreates, logins : 0..MaxLogins,
            changes : 0..MaxChanges, renames : 0..MaxRenames,
            expiries : 0..MaxExpiries, recycles : 0..MaxRecycles,
            faults : 0..MaxFaults, restarts : 0..MaxRestarts,
            upsets : 0..MaxUpsets]

NoRequest == [pc |-> "idle", id |-> 0, name |-> "", change |-> FALSE,
              pw |-> 0, born |-> 0]

Spend(kind) ==
    budget[kind] > 0 /\ budget' = [budget EXCEPT ![kind] = @ - 1]
Upset(kind) ==
    /\ budget[kind] > 0 /\ budget.upsets > 0
    /\ budget' = [budget EXCEPT ![kind] = @ - 1, !.upsets = @ - 1]
Goto(c, pc) == req' = [req EXCEPT ![c].pc = pc]
Answer(c) == req' = [req EXCEPT ![c] = NoRequest]
At(c, pc) == up /\ req[c].pc = pc

-----------------------------------------------------------------------------
(* The tables. *)

Exists(id) == \E u \in users : u.id = id
NameTaken(name, id) == \E u \in users : u.name = name /\ u.id # id

(* AUTOINCREMENT: an id is never given out twice.                          *)
NextIdReused == Max({u.id : u \in users} \cup {0}) + 1
NextId == lastId + 1

(* CreateUser under the UNIQUE constraint on the name.                     *)
InsertUser(name) ==
    /\ ~NameTaken(name, 0)
    /\ users' = users \cup {[id |-> NextId, name |-> name, pw |-> 0,
                             born |-> MaxCreates - budget.creates + 1]}
    /\ lastId' = NextId
    /\ Spend("creates")

(* DELETE FROM users, and ON DELETE CASCADE when the connection has it on. *)
CascadeNothing(id) == sessions
Cascade(id) == IF fk THEN {s \in sessions : s.user # id} ELSE sessions

(* UserBySession: the session has not expired and its user exists.         *)
UserBySession(c) ==
    {u \in users : \E s \in sessions :
        s.token = cookie[c] /\ ~s.expired /\ s.user = u.id}

-----------------------------------------------------------------------------
(* Login and logout. *)

(* DeleteExpiredSessions, then the lookup of the name.                     *)
Login(c, name) ==
    /\ At(c, "idle")
    /\ sessions' = {s \in sessions : ~s.expired}
    /\ req' = [req EXCEPT ![c].pc = "lookup", ![c].name = name]
    /\ UNCHANGED <<users, lastId, fk, up, cookie, budget>>

(* UserByUsername and the comparison of the password as read.              *)
Lookup(c) ==
    /\ At(c, "lookup")
    /\ \E u \in users :
          /\ u.name = req[c].name
          /\ req' = [req EXCEPT ![c].pc = "session", ![c].id = u.id,
                                ![c].pw = u.pw, ![c].born = u.born]
    /\ UNCHANGED <<db, up, cookie, budget>>

(* CreateSession fails on a user that is gone when foreign keys are on.    *)
(* stale: the password or the user changed since the lookup.               *)
CreateSession(c) ==
    /\ At(c, "session") /\ (fk => Exists(req[c].id))
    /\ LET token == MaxLogins - budget.logins + 1
           fresh == \E u \in users : u.id = req[c].id /\ u.pw = req[c].pw
       IN  /\ sessions' = sessions \cup
                {[token |-> token, user |-> req[c].id, born |-> req[c].born,
                  pw |-> req[c].pw, expired |-> FALSE, stale |-> ~fresh]}
           /\ cookie' = [cookie EXCEPT ![c] = token]
    /\ Spend("logins") /\ Answer(c)
    /\ UNCHANGED <<users, lastId, fk, up>>

Logout(c) ==
    /\ At(c, "idle") /\ cookie[c] # 0
    /\ sessions' = {s \in sessions : s.token # cookie[c]}
    /\ cookie' = [cookie EXCEPT ![c] = 0]
    /\ UNCHANGED <<users, lastId, fk, up, req, budget>>

-----------------------------------------------------------------------------
(* The account handlers, behind authMiddleware. *)

Start(c, request) ==
    /\ At(c, "idle") /\ UserBySession(c) # {}
    /\ req' = [req EXCEPT ![c] = request]
    /\ UNCHANGED <<db, up, cookie, budget>>

CreateUserStart(c, name) ==
    Start(c, [NoRequest EXCEPT !.pc = "create", !.name = name])

CreateUser(c) ==
    /\ At(c, "create") /\ InsertUser(req[c].name) /\ Answer(c)
    /\ UNCHANGED <<sessions, fk, up, cookie>>

UpdateUserStart(c, id, name, change) ==
    Start(c, [NoRequest EXCEPT !.pc = "update", !.id = id, !.name = name,
                               !.change = change])

(* UpdateUser of a user that is gone updates no row and is no error; the   *)
(* sessions go in a second statement, when the password was in the request *)
UpdateUser(c) ==
    LET r  == req[c]
        pw == MaxChanges - budget.changes + 1
    IN  /\ At(c, "update") /\ (Exists(r.id) => ~NameTaken(r.name, r.id))
        /\ Spend(IF r.change THEN "changes" ELSE "renames")
        /\ users' = {IF u.id # r.id THEN u
                     ELSE [u EXCEPT !.name = r.name,
                                    !.pw = IF r.change THEN pw ELSE @] :
                     u \in users}
        /\ IF r.change THEN Goto(c, "sessions") ELSE Answer(c)
        /\ UNCHANGED <<lastId, sessions, fk, up, cookie>>

DeleteSessionsOfCaller(c) ==
    /\ At(c, "sessions") /\ Answer(c)
    /\ sessions' = {s \in sessions : s.token # cookie[c]}
    /\ UNCHANGED <<users, lastId, fk, up, cookie, budget>>
DeleteSessionsForUser(c) ==
    /\ At(c, "sessions") /\ Answer(c)
    /\ sessions' = {s \in sessions : s.user # req[c].id}
    /\ UNCHANGED <<users, lastId, fk, up, cookie, budget>>

(* The client went away, or the database failed: the password has changed  *)
(* and the sessions stay.                                                  *)
DeleteSessionsFails(c) ==
    /\ At(c, "sessions") /\ Upset("faults") /\ Answer(c)
    /\ UNCHANGED <<db, up, cookie>>

DeleteUserStart(c, id) ==
    /\ c \in Deleters /\ \E u \in UserBySession(c) : u.id # id
    /\ Start(c, [NoRequest EXCEPT !.pc = "count", !.id = id])

CountUsers(c) ==
    /\ At(c, "count")
    /\ IF Cardinality(users) <= 1 THEN Answer(c) ELSE Goto(c, "delete")
    /\ UNCHANGED <<db, up, cookie, budget>>

DeleteUser(c) ==
    /\ At(c, "delete") /\ Answer(c)
    /\ users' = {u \in users : u.id # req[c].id}
    /\ sessions' = Cascade(req[c].id)
    /\ UNCHANGED <<lastId, fk, up, cookie, budget>>

(* A handler answers with an error before its next call changes anything:  *)
(* wrong password, name taken, user gone, client gone, database error.     *)
Fail(c) ==
    /\ up /\ req[c].pc \notin {"idle", "sessions"} /\ Answer(c)
    /\ UNCHANGED <<db, up, cookie, budget>>

Handlers ==
    \E c \in Clients :
        \/ Lookup(c) \/ CreateSession(c) \/ Logout(c) \/ Fail(c)
        \/ CreateUser(c) \/ UpdateUser(c)
        \/ DeleteSessionsForUser(c) \/ DeleteSessionsFails(c)
        \/ CountUsers(c) \/ DeleteUser(c)
        \/ \E name \in Names : Login(c, name) \/ CreateUserStart(c, name)
        \/ \E id \in Ids : DeleteUserStart(c, id)
        \/ \E id \in Ids, name \in Names, change \in BOOLEAN :
              UpdateUserStart(c, id, name, change)

-----------------------------------------------------------------------------
(* Time, the connection pool and the process. *)

Expire ==
    /\ \E s \in sessions :
          /\ ~s.expired
          /\ sessions' = (sessions \ {s}) \cup {[s EXCEPT !.expired = TRUE]}
    /\ Upset("expiries")
    /\ UNCHANGED <<users, lastId, fk, up, cookie, req>>

(* After SetConnMaxLifetime the pool opens another connection, and nobody  *)
(* repeats the PRAGMA on it.                                               *)
Recycle ==
    /\ up /\ fk' = FALSE /\ Upset("recycles")
    /\ UNCHANGED <<users, lastId, sessions, up, cookie, req>>

Die ==
    /\ up /\ up' = FALSE
    /\ req' = [c \in Clients |-> NoRequest]
    /\ UNCHANGED <<db, cookie, budget>>

(* Open sets the PRAGMA on its first connection, EnsureInitialAdmin gives  *)
(* an empty table its first user again.                                    *)
Restart ==
    /\ ~up
    /\ up' = TRUE /\ fk' = TRUE
    /\ IF users # {}
         THEN Upset("restarts") /\ UNCHANGED <<users, lastId>>
         ELSE /\ budget.creates > 0 /\ budget.restarts > 0
              /\ budget.upsets > 0
              /\ users' = {[id |-> NextId, name |-> FirstName, pw |-> 0,
                            born |-> MaxCreates - budget.creates + 1]}
              /\ lastId' = NextId
              /\ budget' = [budget EXCEPT !.restarts = @ - 1,
                                          !.creates = @ - 1,
                                          !.upsets = @ - 1]
    /\ UNCHANGED <<sessions, cookie, req>>

Init ==
    /\ users = {[id |-> 1, name |-> FirstName, pw |-> 0, born |-> 1]}
    /\ lastId = 1 /\ sessions = {} /\ fk = TRUE /\ up = TRUE
    /\ cookie = [c \in Clients |-> 0]
    /\ req = [c \in Clients |-> NoRequest]
    /\ budget = [creates |-> MaxCreates - 1, logins |-> MaxLogins,
                 changes |-> MaxChanges, renames |-> MaxRenames,
                 expiries |-> MaxExpiries, recycles |-> MaxRecycles,
                 faults |-> MaxFaults, restarts |-> MaxRestarts,
                 upsets |-> MaxUpsets]

Next == Handlers \/ Expire \/ Recycle \/ Die \/ Restart

Spec == Init /\ [][Next]_vars

-----------------------------------------------------------------------------
(* Properties. *)

(* Every variable keeps its type, and ids, names and tokens are unique.    *)
TypeOK ==
    /\ users \subseteq Users /\ lastId \in Ids
    /\ \A u, v \in users : u.id = v.id \/ u.name = v.name => u = v
    /\ sessions \subseteq Sessions
    /\ \A s, t \in sessions : s.token = t.token => s = t
    /\ fk \in BOOLEAN /\ up \in BOOLEAN
    /\ cookie \in [Clients -> Tokens \cup {0}]
    /\ req \in [Clients -> Requests]
    /\ budget \in Budgets

(* A running server always has a user left, so that somebody can log in    *)
(* without a restart: "cannot delete the last user".  The code does not    *)
(* keep this.                                                              *)
SomeUserRemains == up => users # {}

(* FOREIGN KEY(user_id) REFERENCES users(id): every session row has its    *)
(* user.                                                                   *)
SessionsHaveUsers == \A s \in sessions : Exists(s.user)

(* On the connection that Open set up, with its PRAGMA, the code does keep *)
(* this, whatever runs between the steps of the login and of the deletion. *)
CascadeLeavesNoSession ==
    budget.recycles = MaxRecycles => SessionsHaveUsers

(* A session, even one that outlived its user, never becomes the session   *)
(* of another account.                                                     *)
SessionsKeepTheirOwner ==
    \A s \in sessions, u \in users : s.user = u.id => s.born = u.born

(* Once a request that changes a password is done, no session opened with  *)
(* an earlier password is left, unless its login was under way during the  *)
(* change, or a failure or restart interrupted the request.                *)
PasswordChangeEndsSessions ==
    budget.faults = MaxFaults /\ budget.restarts = MaxRestarts /\ up =>
        \A s \in sessions, u \in users :
            s.user = u.id /\ s.pw # u.pw /\ ~s.stale =>
                \E c \in Clients :
                    req[c].pc = "sessions" /\ req[c].id = u.id
===============================================================================

----------------------------- MODULE RouterSession -----------------------------
(***************************************************************************)
(* The router traffic provider of internal/router/tplink.go: probes that   *)
(* share one cached login session, its key and its expiry.                 *)
(*                                                                         *)
(* The router loop and the handler of "probe now" call ProbeAndCollect on  *)
(* one Provider.  Each request to the router, each section under p.mu and  *)
(* each access to a field of a shared session object is a step.  A session *)
(* object and the token (stok) it was given are one number, free again     *)
(* once neither the provider nor the router holds it; a login that fails   *)
(* leaves no object behind.  The router is external: it accepts one of the *)
(* login attempts, and keeps as many sessions as it likes, the newest      *)
(* ones.  Encryption, cookies and the wording of errors are left out.      *)
(***************************************************************************)
EXTENDS Naturals, SequencesExt

CONSTANTS
    Probers,        \* the router loop and the requests of "probe now"
    Username,       \* the router user of the settings
    Passwords,      \* passwords the settings ever hold
    RouterPassword, \* the one the router has
    Routers,        \* the routers considered, of RouterKinds
    RouterSessions, \* sessions the router keeps at the same time
    Ttl,            \* two minutes, in ticks of the clock
    MaxProbes,      \* probes altogether (bound)
    MaxTime,        \* the clock (bound)
    MaxUpsets       \* saves of the settings, lost requests, sessions that
                    \* the router forgets and restarts, altogether (bound)

Schemes == {"http", "https"}

(* login: BE550, then SG for each username in two forms, then the JSON     *)
(* login, with the password as it is and in base64.                        *)
SGUsernames == IF Username \in {"", "admin"} THEN <<"admin", "">>
                                             ELSE <<"admin", Username, "">>
LoginAttempts ==
    <<"be550">> \o [i \in 1..(2 * Len(SGUsernames)) |-> "sg"]
                \o <<"json", "base64">>
Modes == {"be550", "sg", "json", "base64"}

ASSUME PasswordsAssumption == RouterPassword \in Passwords
(* A router refuses with an error of HTTP or of the encryption, or with a  *)
(* document whose error code is a number, a number in a text, another      *)
(* text, or missing.                                                       *)
Refusals == {"error", "number", "digits", "word", "bare"}

(* The attempt of a login that a router accepts, what it answers to a      *)
(* request over each scheme, and how it refuses a request and a login.     *)
RouterKinds == [accepts : 1..Len(LoginAttempts),
                content : [Schemes -> {"clients", "empty", "error"}],
                refusal : Refusals, denial : Refusals]

ASSUME RoutersAssumption == Routers \subseteq RouterKinds
ASSUME ProbersAssumption == IsFiniteSet(Probers)
ASSUME BoundsAssumption ==
    /\ RouterSessions \in Nat \ {0} /\ Ttl \in Nat \ {0}
    /\ MaxProbes \in Nat /\ MaxTime \in Nat /\ MaxUpsets \in Nat

VARIABLES
    saved,      \* the settings: scheme of the URL and password
    router,     \* the router; never changes
    live,       \* tokens the router honours, in the order of their logins
    sessions,   \* session objects by token
    cache,      \* cachedSession, cachedKey, sessionExpires
    probe,      \* the locals of each prober's ProbeAndCollect
    now,        \* the clock
    budget      \* what is left of each bound

vars == <<saved, router, live, sessions, cache, probe, now, budget>>

Keys == [scheme : Schemes, pw : Passwords]
NoKey == [scheme |-> "http", pw |-> RouterPassword]
Tokens == 1..(RouterSessions + 1 + Cardinality(Probers))
Endpoints == {"loadSpeed", "loadDevice"}
Sessions == [key : Keys, at : 0..MaxTime, mode : Modes,
             hash : Endpoints \cup {"login"}]
NoSession == [key |-> NoKey, at |-> 0, mode |-> "json", hash |-> "login"]
NoCache == [token |-> 0, key |-> NoKey, expires |-> 0]
Idle == [pc |-> "idle", key |-> NoKey, token |-> 0, began |-> 0, try |-> 1,
         endpoint |-> 1, responses |-> <<>>, again |-> FALSE,
         authenticated |-> FALSE, success |-> FALSE, fallback |-> FALSE,
         calm |-> TRUE]
Pcs == {"idle", "session", "login", "store", "request", "sign", "invalidate"}
Budgets == [probes : 0..MaxProbes, upsets : 0..MaxUpsets]

Active(p) == probe[p].pc # "idle"
At(p, pc) == probe[p].pc = pc
Spend(kind) == budget[kind] > 0 /\ budget' = [budget EXCEPT ![kind] = @ - 1]

(* calm: since the probe began, none of its requests was lost, no session  *)
(* of the router ended but by its own login, and no other prober put a     *)
(* session into the cache that had ended.                                  *)
Disturbed(who, f) ==
    [p \in Probers |-> IF p \in who /\ Active(p)
                       THEN [f[p] EXCEPT !.calm = FALSE] ELSE f[p]]

-----------------------------------------------------------------------------
(* The router: external. *)

Newest(tokens) ==
    IF Len(tokens) <= RouterSessions THEN tokens
    ELSE SubSeq(tokens, Len(tokens) - RouterSessions + 1, Len(tokens))

Accepts(p) ==
    probe[p].try = router.accepts /\ probe[p].key.pw = RouterPassword

(* It gives a session, and may end an older one for it.                    *)
Held == ToSet(live) \cup {cache.token} \cup {probe[p].token : p \in Probers}
NewToken == CHOOSE t \in Tokens : t \notin Held

Displaced(p) == IF Len(live) < RouterSessions THEN {} ELSE Probers \ {p}

Grant(p) ==
    /\ live' = Newest(Append(live, NewToken))
    /\ sessions' = [t \in Tokens |->
          IF t = NewToken
          THEN [key |-> probe[p].key, at |-> now, hash |-> "login",
                mode |-> LoginAttempts[probe[p].try]]
          ELSE IF t \in Held THEN sessions[t] ELSE NoSession]

(* It answers a request of a live session; in the encrypted mode, if the   *)
(* signature is the one of this request.                                   *)
AnswersTo(p, endpoint) ==
    LET s == sessions[probe[p].token]
    IN  IF /\ Contains(live, probe[p].token)
           /\ s.mode = "sg" => s.hash = endpoint
        THEN router.content[s.key.scheme]
        ELSE router.refusal

-----------------------------------------------------------------------------
(* ProbeAndCollect and probeBaseURL. *)

(* What each mode takes for an error: requestPlainForm asks for an error   *)
(* code that is a text, post for one that is or spells a number, and       *)
(* requestSG takes every document that is not encrypted for an answer.     *)
Errors == [be550 |-> {"error", "digits", "word"}, sg |-> {"error"},
           json |-> {"error", "number", "digits"},
           base64 |-> {"error", "number", "digits"}]
IsError(mode, answer) == answer \in Errors[mode]

ProbeEndpointsTwo == <<"loadSpeed", "loadDevice">>
ProbeEndpoints == <<"loadSpeed">>

(* The settings are read, the URL is complete and has a password.          *)
Begin(p) ==
    /\ ~Active(p) /\ Spend("probes")
    /\ probe' = [probe EXCEPT ![p] = [Idle EXCEPT !.pc = "session",
                                                 !.key = saved]]
    /\ UNCHANGED <<saved, router, live, sessions, cache, now>>

(* session, first section under p.mu; the time is read before the login.   *)
CacheHitsAnyKey(key) == cache.token # 0 /\ now < cache.expires
CacheHitsForever(key) == cache.token # 0 /\ cache.key = key
CacheHits(key) == cache.token # 0 /\ cache.key = key /\ now < cache.expires

(* A session is there: collectEndpointResponses begins.                    *)
Authenticated(r, token) ==
    [r EXCEPT !.pc = "request", !.token = token, !.authenticated = TRUE,
              !.began = 0, !.try = 1]

Lookup(p) ==
    /\ At(p, "session")
    /\ probe' = [probe EXCEPT ![p] =
          IF CacheHits(@.key) THEN Authenticated(@, cache.token)
          ELSE [@ EXCEPT !.pc = "login", !.began = now, !.try = 1]]
    /\ UNCHANGED <<saved, router, live, sessions, cache, now, budget>>

Snapshot(success) == [Idle EXCEPT !.success = success]

LoginStep(p) ==
    /\ At(p, "login") /\ Accepts(p)
    /\ Grant(p)
    /\ probe' = Disturbed(Displaced(p), [probe EXCEPT
          ![p].pc = "store", ![p].token = NewToken])
    /\ UNCHANGED <<saved, router, cache, now, budget>>

(* httpsFallbackURL and shouldRetryHTTPS.                                  *)
RetriesHTTPS(r) == ~r.fallback /\ r.key.scheme = "http" /\ r.authenticated

(* The end of probeBaseURL without clients: the same over https, whose     *)
(* snapshot counts when it is authenticated, else the first one does.      *)
Without(r) ==
    IF RetriesHTTPS(r)
    THEN [Idle EXCEPT !.pc = "session", !.key = r.key,
                      !.key.scheme = "https", !.fallback = TRUE,
                      !.calm = r.calm]
    ELSE Snapshot(FALSE)

(* A login that failed is the error of a probe's first session, and leaves *)
(* an authenticated probe without answers when it was the second one.      *)
NextTry(r) ==
    IF r.try < Len(LoginAttempts) THEN [r EXCEPT !.try = @ + 1] ELSE Without(r)

(* A denial of the JSON login that is no error is an answer without a      *)
(* token, and ends the login: base64 is not tried.                         *)
EndsLogin(r) ==
    LoginAttempts[r.try] = "json" /\ ~IsError("json", router.denial)

LoginRefused(p) ==
    /\ At(p, "login") /\ ~Accepts(p)
    /\ probe' = [probe EXCEPT
          ![p] = IF EndsLogin(@) THEN Without(@) ELSE NextTry(@)]
    /\ UNCHANGED <<saved, router, live, sessions, cache, now, budget>>

(* The answer is lost, after the router has given a session or before it   *)
(* saw the request.                                                        *)
LoginFaults(p) ==
    LET lost == [probe EXCEPT ![p] = NextTry(@)]
    IN  /\ At(p, "login") /\ Spend("upsets")
        /\ \/ /\ Accepts(p) /\ Grant(p)
              /\ probe' = Disturbed({p} \cup Displaced(p), lost)
           \/ /\ UNCHANGED <<live, sessions>>
              /\ probe' = Disturbed({p}, lost)
        /\ UNCHANGED <<saved, router, cache, now>>

(* session, second section under p.mu.                                     *)
ExpiryLate(r) == r.began + Ttl + Ttl
Expiry(r) == r.began + Ttl

Store(p) ==
    /\ At(p, "store")
    /\ cache' = [token |-> probe[p].token, key |-> probe[p].key,
                 expires |-> Expiry(probe[p])]
    /\ probe' = Disturbed(
          IF Contains(live, probe[p].token) THEN {} ELSE Probers \ {p},
          [probe EXCEPT ![p] = Authenticated(@, @.token)])
    /\ UNCHANGED <<saved, router, live, sessions, now, budget>>

(* requestSG writes the hash of its payload into the shared session and    *)
(* then reads it for the signature.                                        *)
Hash(p) ==
    /\ At(p, "request") /\ sessions[probe[p].token].mode = "sg"
    /\ sessions' = [sessions EXCEPT
          ![probe[p].token].hash = ProbeEndpoints[probe[p].endpoint]]
    /\ probe' = [probe EXCEPT ![p].pc = "sign"]
    /\ UNCHANGED <<saved, router, live, cache, now, budget>>

(* collectEndpointResponses after one more endpoint; without any response  *)
(* the session is given up, once, and with responses the clients count.    *)
Collected(r) ==
    IF r.endpoint < Len(ProbeEndpoints)
    THEN [r EXCEPT !.pc = "request", !.endpoint = @ + 1]
    ELSE IF r.responses = <<>> /\ ~r.again
    THEN [r EXCEPT !.pc = "invalidate"]
    ELSE IF Contains(r.responses, "clients")
    THEN Snapshot(TRUE)
    ELSE Without(r)

ReadyToSend(p) ==
    \/ At(p, "sign")
    \/ At(p, "request") /\ sessions[probe[p].token].mode # "sg"

Answered(r, answer) ==
    IF IsError(sessions[r.token].mode, answer) THEN Collected(r)
    ELSE Collected([r EXCEPT !.responses = Append(@, answer)])

Request(p) ==
    /\ ReadyToSend(p)
    /\ probe' = [probe EXCEPT ![p] =
          Answered(@, AnswersTo(p, ProbeEndpoints[@.endpoint]))]
    /\ UNCHANGED <<saved, router, live, sessions, cache, now, budget>>

RequestFaults(p) ==
    /\ ReadyToSend(p) /\ Spend("upsets")
    /\ probe' = Disturbed({p}, [probe EXCEPT ![p] = Collected(@)])
    /\ UNCHANGED <<saved, router, live, sessions, cache, now>>

(* invalidateSession, and back to session.                                 *)
InvalidateAnySession(token) == cache' = NoCache
InvalidateNothing(token) == cache' = cache
InvalidateSession(token) ==
    cache' = IF cache.token = token THEN NoCache ELSE cache

Invalidate(p) ==
    /\ At(p, "invalidate")
    /\ InvalidateSession(probe[p].token)
    /\ probe' = [probe EXCEPT ![p].pc = "session", ![p].again = TRUE,
                              ![p].token = 0]
    /\ UNCHANGED <<saved, router, live, sessions, now, budget>>

-----------------------------------------------------------------------------
(* The environment. *)

SaveSettings ==
    /\ \E s \in Keys \ {saved} : saved' = s
    /\ Spend("upsets")
    /\ UNCHANGED <<router, live, sessions, cache, probe, now>>

Tick ==
    /\ now < MaxTime /\ now' = now + 1
    /\ UNCHANGED <<saved, router, live, sessions, cache, probe, budget>>

(* The router forgets a session: its own timeout, a login by somebody else *)
(* or a restart.                                                           *)
Drop ==
    /\ \E i \in DOMAIN live : live' = RemoveAt(live, i)
    /\ probe' = Disturbed(Probers, probe)
    /\ Spend("upsets")
    /\ UNCHANGED <<saved, router, sessions, cache, now>>

(* The process ends and is started again; the router keeps its sessions.   *)
Restart ==
    /\ Spend("upsets")
    /\ cache' = NoCache
    /\ probe' = [p \in Probers |-> Idle]
    /\ UNCHANGED <<saved, router, live, sessions, now>>

Init ==
    /\ saved \in Keys /\ router \in Routers
    /\ live = <<>> /\ sessions = [t \in Tokens |-> NoSession] /\ now = 0
    /\ cache = NoCache
    /\ probe = [p \in Probers |-> Idle]
    /\ budget = [probes |-> MaxProbes, upsets |-> MaxUpsets]

Probe(p) ==
    \/ Begin(p) \/ Lookup(p)
    \/ LoginStep(p) \/ LoginRefused(p) \/ LoginFaults(p) \/ Store(p)
    \/ Hash(p) \/ Request(p) \/ RequestFaults(p) \/ Invalidate(p)

Next ==
    \/ \E p \in Probers : Probe(p)
    \/ SaveSettings \/ Tick \/ Drop \/ Restart

Spec == Init /\ [][Next]_vars

-----------------------------------------------------------------------------
(* Properties. *)

(* Every variable keeps its type; a cached or used session exists, and the *)
(* router honours at most as many sessions as it keeps.                    *)
TypeOK ==
    /\ saved \in Keys
    /\ sessions \in [Tokens -> Sessions]
    /\ live \in Seq(Tokens) /\ Len(live) <= RouterSessions
    /\ cache \in [token : Tokens \cup {0}, key : Keys,
                  expires : 0..(MaxTime + Ttl)]
    /\ \A p \in Probers :
          /\ probe[p].pc \in Pcs
          /\ At(p, "store") \/ At(p, "request") \/ At(p, "sign") =>
                probe[p].token \in Tokens
    /\ now \in 0..MaxTime /\ budget \in Budgets

(* A probe only uses a session that was opened for the URL and with the    *)
(* credentials it has itself, whatever was saved or cached meanwhile.      *)
OwnSession ==
    \A p \in Probers :
        At(p, "request") \/ At(p, "sign") \/ At(p, "invalidate") =>
            sessions[probe[p].token].key = probe[p].key

(* The router's refusals are read as such: that of an ended session by its *)
(* mode, which otherwise takes it for an answer without clients and keeps  *)
(* the session until it expires; and that of the JSON login by a router    *)
(* that would accept the attempt after it.                                 *)
Legible ==
    LET mode == LoginAttempts[router.accepts]
    IN  /\ IsError(mode, router.refusal)
        /\ mode = "base64" => IsError("json", router.denial)

(* A probe that nothing disturbed finds the clients whenever a router that *)
(* refuses legibly has them to show for its URL or over https, though the  *)
(* cached session it began with had ended or other probes ran beside it.   *)
UndisturbedSucceeds ==
    [][\A p \in Probers :
          LET r == probe[p]
              first == IF r.fallback THEN "http" ELSE r.key.scheme
          IN  /\ Active(p) /\ ~Active(p)' /\ r.calm /\ budget' = budget
              /\ r.key.pw = RouterPassword /\ Legible
              /\ \/ router.content[first] = "clients"
                 \/ first = "http" /\ router.content["https"] = "clients"
              => probe'[p].success]_vars

(* A session that works is removed from the cache of a running process     *)
(* only by a probe that lost a request: a probe that failed with an old    *)
(* session does not throw away the one another has logged in since.        *)
WorkingSessionKept ==
    [][ /\ cache.token # 0 /\ cache'.token = 0
        /\ \E p \in Probers : probe'[p].pc # "idle"
        /\ Contains(live, cache.token)
        /\ router.content[cache.key.scheme] # "error"
        => \E p \in Probers : At(p, "invalidate") /\ ~probe[p].calm ]_vars

(* A session is taken from the cache less than two minutes after its       *)
(* login, however long the login took and whoever stored it last.          *)
NoAgedSession ==
    [][\A p \in Probers :
          At(p, "session") /\ probe'[p].pc = "request" =>
              now < sessions[probe'[p].token].at + Ttl]_vars

(* The hash a request is signed with is its own, although the probes that  *)
(* share a session write it into the same field without a lock.            *)
SignedForItself ==
    \A p \in Probers :
        At(p, "sign") => sessions[probe[p].token].hash
                            = ProbeEndpoints[probe[p].endpoint]
===============================================================================

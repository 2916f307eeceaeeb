------------------------------ MODULE Dashboard ------------------------------
(***************************************************************************)
(* The answer behind the dashboard, and who changes what it is made of:    *)
(* BuildSummary of internal/monitoring/summary.go reads the settings and   *)
(* seven more queries one by one, without a transaction, while the checks  *)
(* of internal/monitoring/service.go store rows and the settings page      *)
(* saves.  The DNS checks are here step by step; latency rounds, outages   *)
(* and speed tests are the modules OutageMonitor and SpeedTests, of which  *)
(* only the rows they store are seen.                                      *)
(*                                                                         *)
(* A row has the instant it is stamped with and a value: milliseconds,     *)
(* megabits, 1 for a name that was resolved, and 0 for a failure.          *)
(***************************************************************************)
EXTENDS SettingsPage, Timestamps

CONSTANTS
    OutboxEnabled,  \* notifications are switched on (read once at the start)
    Day,            \* the 24 hours of a summary, in ticks
    Latencies,      \* measured round trips, in milliseconds
    Speeds          \* measured download rates

ASSUME OutboxAssumption == OutboxEnabled \in BOOLEAN
ASSUME DayAssumption == Day \in Nat
ASSUME ValuesAssumption ==
    /\ Latencies \subseteq Nat \ {0} /\ Speeds \subseteq Nat \ {0}
    /\ {"maxLatencyMs", "minDownloadMbps"} \subseteq Fields

VARIABLES
    now,        \* the clock
    proc,       \* "up", "stopping" (context cancelled) or "down"
    rows,       \* latency_checks, dns_checks and speed_tests, by id
    outages,    \* outages, by id
    announced,  \* failed lookups whose event is in the outbox
    dns,        \* locals of the DNS loop
    request     \* a request for the summary

stored == <<settings, rows, outages>>
pageOnly == <<version, page, save, loads>>
vars == <<pageVars, budget, now, proc, rows, outages, announced, dns, request>>

Tables == {"latency", "dns", "speed"}

-----------------------------------------------------------------------------
(* Queries.  A query for one row returns <<row>>, or <<>> without any.     *)

(* ORDER BY the text of the instant DESC, id DESC LIMIT 1, of all rows or  *)
(* of those a WHERE leaves.                                                *)
First(table, ids, i) ==
    \A k \in ids \ {i} :
        \/ TextBefore(table[k].at, table[i].at)
        \/ ~TextBefore(table[i].at, table[k].at) /\ k < i
FirstRow(table, ids) ==
    LET first == {i \in ids : First(table, ids, i)}
    IN  IF first = {} THEN <<>> ELSE <<table[CHOOSE i \in first : TRUE]>>
Latest(table) == FirstRow(table, DOMAIN table)

(* This query does not sort by id: no two outages are active.              *)
ActiveOutage == FirstRow(outages, {i \in DOMAIN outages : outages[i].open})

(* Rows from an instant on, and what is computed of them.                  *)
From(table, since) ==
    {table[i] : i \in {k \in DOMAIN table : ~TextBefore(table[k].at, since)}}

Good(found) == {r.value : r \in found} \ {0}
Bounds(found) ==
    IF Good(found) = {} THEN <<>>
    ELSE <<Min(Good(found)), Max(Good(found))>>

LatencySummary(since) ==
    LET found == From(rows["latency"], since)
    IN  [any |-> found # {}, loss |-> \E r \in found : r.value = 0,
         bounds |-> Bounds(found)]

OutageCountSince(since) ==
    Cardinality({i \in DOMAIN outages : ~TextBefore(outages[i].at, since)})

SpeedBoundsSince(since) == Bounds(From(rows["speed"], since))

ReadsCountFirst == <<"settings", "speed", "latency", "dns", "latency24h",
                     "count", "active", "bounds">>
Reads == <<"settings", "speed", "latency", "dns", "latency24h", "active",
           "count", "bounds">>
Query(part, since) ==
    CASE part = "settings" -> settings
      [] part \in Tables -> Latest(rows[part])
      [] part = "latency24h" -> LatencySummary(since)
      [] part = "active" -> ActiveOutage
      [] part = "count" -> OutageCountSince(since)
      [] part = "bounds" -> SpeedBoundsSince(since)

Failed(row) == row # <<>> /\ row[1].value = 0

ConnectionStatus(got) ==
    CASE \/ got.active # <<>>
         \/ Failed(got.latency) /\ Failed(got.dns) -> "down"
      [] \/ Failed(got.latency)
         \/ /\ got.latency # <<>>
            /\ got.latency[1].value > got.settings["maxLatencyMs"]
         \/ Failed(got.dns)
         \/ /\ got.speed # <<>> /\ ~Failed(got.speed)
            /\ got.speed[1].value < got.settings["minDownloadMbps"]
           -> "degraded"
      [] OTHER -> "healthy"

-----------------------------------------------------------------------------
(* A request for the summary. *)

NoAnswer == [settings |-> DefaultSettings, speed |-> <<>>, latency |-> <<>>,
             dns |-> <<>>, active |-> <<>>, count |-> 0, bounds |-> <<>>,
             latency24h |-> [any |-> FALSE, loss |-> FALSE, bounds |-> <<>>]]
NoRequest == [step |-> 0, since |-> 0, known |-> [t \in Tables |-> 0],
              got |-> NoAnswer, seen |-> {}, changes |-> 0]

(* History of a request under way: the statuses the connection has had     *)
(* since it came, and how often (twice at most) what is stored changed.    *)
StatusParts == {"settings", "active"} \cup Tables
Present == [settings |-> settings, active |-> ActiveOutage,
            latency |-> Latest(rows["latency"]), dns |-> Latest(rows["dns"]),
            speed |-> Latest(rows["speed"])]
StatusNow == ConnectionStatus(Present)
Noticed ==
    request' = IF request.step = 0 THEN request
               ELSE [request EXCEPT !.seen = @ \cup {StatusNow'},
                                    !.changes = IF @ < 2 THEN @ + 1 ELSE @]

(* GET /api/summary: "since" is computed once, then the reads follow.      *)
Ask ==
    /\ proc # "down" /\ request.step = 0 /\ Spend("summaries")
    /\ request' = [step |-> 1, since |-> now - Day,
                   known |-> [t \in Tables |-> Len(rows[t])],
                   got |-> NoAnswer, changes |-> 0,
                   seen |-> {StatusNow}]
    /\ UNCHANGED <<stored, pageOnly, now, proc, announced, dns>>

ReadWithDefaults ==
    /\ request.step \in 1..Len(Reads)
    /\ request' = [request EXCEPT !.step = @ + 1,
                     !.got[Reads[request.step]] =
                        IF request.step = 1 THEN DefaultSettings
                        ELSE Query(Reads[request.step], request.since)]
    /\ UNCHANGED <<stored, pageOnly, now, proc, announced, dns, budget>>
Read ==
    /\ request.step \in 1..Len(Reads)
    /\ request' = [request EXCEPT !.step = @ + 1,
                     !.got[Reads[request.step]] =
                        Query(Reads[request.step], request.since)]
    /\ UNCHANGED <<stored, pageOnly, now, proc, announced, dns, budget>>

(* Any read that fails makes the answer an error.                          *)
ReadFails ==
    /\ request.step \in 1..Len(Reads) /\ Spend("faults")
    /\ request' = NoRequest
    /\ UNCHANGED <<stored, pageOnly, now, proc, announced, dns>>

Answer ==
    /\ request.step > Len(Reads) /\ request' = NoRequest
    /\ UNCHANGED <<stored, pageOnly, now, proc, announced, dns, budget>>

-----------------------------------------------------------------------------
(* The DNS loop. *)

DnsIdle == [pc |-> "idle", names |-> <<>>, row |-> <<>>]
NextName ==
    IF Len(dns.names) = 1 THEN DnsIdle
    ELSE [DnsIdle EXCEPT !.pc = "lookup", !.names = Tail(dns.names)]

CheckDNS ==
    /\ proc = "up" /\ dns.pc = "idle"
    /\ settings["enabled"] /\ settings["dnsDomains"] # <<>>
    /\ dns' = [DnsIdle EXCEPT !.pc = "lookup", !.names = settings["dnsDomains"]]
    /\ Spend("rounds")
    /\ UNCHANGED <<stored, pageOnly, now, proc, announced, request>>

(* A lookup whose context is cancelled fails at once, unless it is answered *)
(* without the network.  "live" is history.                                *)
LookupHost ==
    /\ dns.pc = "lookup"
    /\ \E value \in {0, 1} :
          dns' = [dns EXCEPT !.pc = "insert",
                    !.row = <<[at |-> now, value |-> value,
                               live |-> proc = "up"]>>]
    /\ UNCHANGED <<stored, pageOnly, now, proc, announced, request, budget>>

AfterInsert ==
    dns' = IF Failed(dns.row) THEN [dns EXCEPT !.pc = "emit"] ELSE NextName

InsertDNSAnyway ==
    /\ dns.pc = "insert"
    /\ rows' = [rows EXCEPT !["dns"] = Append(@, dns.row[1])]
    /\ AfterInsert
    /\ UNCHANGED <<settings, outages, pageOnly, now, proc, announced, budget>>
    /\ Noticed
InsertDNS ==
    /\ dns.pc = "insert" /\ proc = "up"
    /\ rows' = [rows EXCEPT !["dns"] = Append(@, dns.row[1])]
    /\ AfterInsert
    /\ UNCHANGED <<settings, outages, pageOnly, now, proc, announced, budget>>
    /\ Noticed

(* The context is cancelled or the statement fails: it is logged.          *)
Refused ==
    \/ proc = "stopping" /\ UNCHANGED budget
    \/ proc = "up" /\ Spend("faults")
InsertDNSFails ==
    /\ dns.pc = "insert" /\ Refused /\ AfterInsert
    /\ UNCHANGED <<stored, pageOnly, now, proc, announced, request>>

(* With notifications switched off nothing is written, and nothing fails.  *)
Emit ==
    /\ dns.pc = "emit" /\ dns' = NextName
    /\ \/ /\ OutboxEnabled => proc = "up"
          /\ announced' = IF OutboxEnabled THEN announced \cup {dns.row[1]}
                                            ELSE announced
          /\ UNCHANGED budget
       \/ OutboxEnabled /\ Refused /\ UNCHANGED announced
    /\ UNCHANGED <<stored, pageOnly, now, proc, request>>

-----------------------------------------------------------------------------
(* The other loops store rows; the settings page saves. *)

(* A speed test is stamped when it starts and stored when it has ended.    *)
Stamps(table) ==
    (IF table = <<>> THEN Day ELSE table[Len(table)].at)..now

Stored(name, at, value) ==
    rows' = [rows EXCEPT ![name] = Append(@, [at |-> at, value |-> value])]

StoreLatency(value) ==
    /\ proc = "up" /\ Spend("rows") /\ Stored("latency", now, value)
    /\ UNCHANGED <<settings, outages, pageOnly, now, proc, announced, dns>>
    /\ Noticed

StoreSpeed(value) ==
    /\ proc # "down" /\ Spend("rows")
    /\ \E at \in Stamps(rows["speed"]) : Stored("speed", at, value)
    /\ UNCHANGED <<settings, outages, pageOnly, now, proc, announced, dns>>
    /\ Noticed

(* One outage at a time, as OutageLog promises.                            *)
OpenOutage ==
    /\ proc = "up" /\ Spend("rows") /\ ActiveOutage = <<>>
    /\ outages' = Append(outages, [at |-> now, open |-> TRUE])
    /\ UNCHANGED <<settings, rows, pageOnly, now, proc, announced, dns>>
    /\ Noticed

CloseActiveOutage ==
    /\ proc = "up" /\ Spend("rows") /\ ActiveOutage # <<>>
    /\ outages' = [i \in DOMAIN outages |-> [outages[i] EXCEPT !.open = FALSE]]
    /\ UNCHANGED <<settings, rows, pageOnly, now, proc, announced, dns>>
    /\ Noticed

(* A step of the settings page or of another browser; while the process is *)
(* down they wait, which comes to the same as a later click.               *)
PageStep ==
    /\ proc # "down" /\ PageNext
    /\ UNCHANGED <<rows, outages, now, proc, announced, dns>>
    /\ IF version' # version THEN Noticed ELSE UNCHANGED request

-----------------------------------------------------------------------------
(* The process and the clock. *)

Tick ==
    /\ Spend("ticks") /\ now' \in now + 1..now + Day + 1
    /\ UNCHANGED <<stored, pageOnly, proc, announced, dns, request>>

SigTerm ==
    /\ proc = "up" /\ proc' = "stopping" /\ Spend("stops")
    /\ UNCHANGED <<stored, pageOnly, now, announced, dns, request>>

(* Killed at any moment, or main returns.                                  *)
Die ==
    /\ \/ proc = "up" /\ Spend("stops")
       \/ proc = "stopping" /\ UNCHANGED budget
    /\ proc' = "down" /\ dns' = DnsIdle /\ request' = NoRequest
    /\ UNCHANGED <<stored, pageOnly, now, announced>>

Restart ==
    /\ proc = "down" /\ proc' = "up"
    /\ UNCHANGED <<stored, pageOnly, now, announced, dns, request, budget>>

Init ==
    /\ PageInit
    /\ now = Day /\ proc = "up"
    /\ rows = [t \in Tables |-> <<>>] /\ outages = <<>> /\ announced = {}
    /\ dns = DnsIdle /\ request = NoRequest

Next ==
    \/ Ask \/ Read \/ ReadFails \/ Answer
    \/ CheckDNS \/ LookupHost \/ InsertDNS \/ InsertDNSFails \/ Emit
    \/ \E v \in Latencies \cup {0} : StoreLatency(v)
    \/ \E v \in Speeds \cup {0} : StoreSpeed(v)
    \/ OpenOutage \/ CloseActiveOutage
    \/ PageStep
    \/ Tick \/ SigTerm \/ Die \/ Restart

Spec == Init /\ [][Next]_vars

-----------------------------------------------------------------------------
(* Properties. *)

(* Every variable keeps its type, and instants are not later than the      *)
(* clock.                                                                  *)
Row == [at : Day..now, value : Nat]
Lookup == [at : Day..now, value : {0, 1}, live : BOOLEAN]
TypeOK ==
    /\ PageTypeOK
    /\ now \in Nat /\ now >= Day /\ proc \in {"up", "stopping", "down"}
    /\ DOMAIN rows = Tables /\ rows["latency"] \in Seq(Row)
    /\ rows["speed"] \in Seq(Row) /\ rows["dns"] \in Seq(Lookup)
    /\ outages \in Seq([at : Day..now, open : BOOLEAN])
    /\ announced \subseteq Lookup
    /\ dns.pc \in {"idle", "lookup", "insert", "emit"}
    /\ dns.pc \in {"insert", "emit"} => \E row \in Lookup : dns.row = <<row>>
    /\ request.step \in 0..Len(Reads) + 1 /\ request.changes \in 0..2
    /\ \A t \in Tables : request.known[t] \in 0..Len(rows[t])

Answered == request.step > Len(Reads)
After(row) == row # <<>> /\ Second(row[1].at) > Second(request.since)
Within(value, bounds) ==
    bounds # <<>> /\ bounds[1] <= value /\ value <= bounds[2]

(* The parts of one answer fit together although they are read one after   *)
(* the other and instants are compared as texts: an active outage of the   *)
(* last 24 hours is counted, the latest latency check and the latest good  *)
(* speed test are within the figures of the last 24 hours, and no latest   *)
(* row is a whole second older than one that was stored when the request   *)
(* came.                                                                   *)
SummaryCoherent ==
    LET got == request.got
    IN  Answered =>
          /\ After(got.active) => got.count > 0
          /\ After(got.latency) =>
                /\ got.latency24h.any
                /\ IF Failed(got.latency) THEN got.latency24h.loss
                   ELSE Within(got.latency[1].value, got.latency24h.bounds)
          /\ After(got.speed) /\ ~Failed(got.speed) =>
                Within(got.speed[1].value, got.bounds)
          /\ \A t \in Tables : \A i \in 1..request.known[t] :
                got[t] # <<>> /\ Second(got[t][1].at) >= Second(rows[t][i].at)

(* A status is one the connection has really had since the request came,   *)
(* unless what is stored changed twice meanwhile.                          *)
StatusWasReal ==
    Answered /\ request.changes < 2 =>
        ConnectionStatus(request.got) \in request.seen

(* A lookup that was cut short by the end of the process is neither stored *)
(* nor announced as a failure of the name.                                 *)
NoFalseDNSFailure ==
    /\ \A i \in DOMAIN rows["dns"] :
          rows["dns"][i].value = 0 => rows["dns"][i].live
    /\ \A row \in announced : row.live
==============================================================================

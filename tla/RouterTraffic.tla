---------------------------- MODULE RouterTraffic ----------------------------
(***************************************************************************)
(* Router traffic from the probe to the page: the router loop of           *)
(* internal/monitoring/service.go, its rows and warnings, the two handlers *)
(* of internal/httpapi/api.go that show a sample, and the browser pages    *)
(* that poll them: RouterTraffic.tsx and the router card of Dashboard.tsx. *)
(*                                                                         *)
(* A probe is one step here, on the settings it is given: what happens     *)
(* inside it is RouterSession, what is read from the router's answer is    *)
(* RouterClients.  A page's requests are flights: sent, answered by the    *)
(* server and received by the browser in any order.  An effect of a page   *)
(* is a running interval and the closure its ticks share; only the newest  *)
(* one is not cleaned up, so a flight knows whether it belongs to it.      *)
(* The charts only draw what is modelled and are left out.                 *)
(***************************************************************************)
EXTENDS RouterClients

CONSTANTS
    OutboxEnabled,  \* notifications are switched on (read once at the start)
    Documents,      \* answers of the router
    MaxProbes,      \* probes altogether, and the clock they advance (bound)
    MaxFlights,     \* requests of the page under way at once (bound)
    MaxVisits,      \* page loads, choices of an interval and saves of the
                    \* settings, altogether (bound)
    MaxFaults       \* failed accesses, failed requests and kills (bound)

ASSUME OutboxAssumption == OutboxEnabled \in BOOLEAN

(* Documents are finite; a number of one is a count, or is not finite.     *)
ASSUME DocumentsAssumption ==
    \A d \in Documents :
        /\ {"root", "lists"} = DOMAIN d
        /\ IsFiniteSet(d.lists) /\ \A l \in d.lists : l \in Seq(ToSet(l))
        /\ \A m \in Objects(d) : \A k \in DOMAIN m :
              m[k].number \in Nat \cup {Absent, NotANumber}
ASSUME BoundsAssumption ==
    /\ MaxProbes \in Nat /\ MaxVisits \in Nat /\ MaxFaults \in Nat
    /\ MaxFlights \in Nat \ {0, 1}

VARIABLES
    settings,   \* monitor: monitoring is enabled; collect: router traffic is;
                \* complete: a URL that can be used and a password are given
    clock,      \* probes so far; a sample's checked_at is its number
    loop,       \* the router loop: idle, or at the insert or event of a sample
    rows,       \* router_traffic_samples, oldest first
    warned,     \* failed samples in the outbox
    failed,     \* history: failed samples whose round is over
    page,       \* the open page
    flights,    \* its requests
    budget      \* what is left of each bound

vars == <<settings, clock, loop, rows, warned, failed, page, flights, budget>>
server == <<settings, clock, loop, rows, warned, failed>>

Settings == [monitor : BOOLEAN, collect : BOOLEAN, complete : BOOLEAN]

Errors == {"", "incomplete", "login", "unsupported", "disabled"}

(* What the capability and the sample of a snapshot tell the page: what is *)
(* available, and the sums of all clients.                                 *)
Sums == Nat \cup {Absent, NotANumber}
Views == [at : 0..MaxProbes, success : BOOLEAN, error : Errors,
          reachable : BOOLEAN, authenticated : BOOLEAN, list : BOOLEAN,
          download : BOOLEAN, upload : BOOLEAN, total : BOOLEAN,
          downloadBps : Sums, uploadBps : Sums, totalBps : Sums]
NoView == [at |-> 0, success |-> FALSE, error |-> "", reachable |-> FALSE,
           authenticated |-> FALSE, list |-> FALSE, download |-> FALSE,
           upload |-> FALSE, total |-> FALSE, downloadBps |-> Absent,
           uploadBps |-> Absent, totalBps |-> Absent]
NoDocument == [root |-> <<>>, lists |-> {}]

LoopIdle == [pc |-> "idle", view |-> NoView, clients |-> <<>>,
             document |-> NoDocument]

Free == [kind |-> "free", mine |-> FALSE, reply |-> "none", view |-> NoView,
         collect |-> FALSE]
NoPage == [kind |-> "none", running |-> FALSE, says |-> FALSE,
           error |-> FALSE, view |-> NoView, late |-> FALSE]

Spend(kind) == budget[kind] > 0 /\ budget' = [budget EXCEPT ![kind] = @ - 1]

-----------------------------------------------------------------------------
(* A probe. *)

(* The total of a sample: the sum the clients have of it or, when they     *)
(* have none, that of downloads and uploads when they have both.           *)
TotalOfEither(down, up, total) ==
    IF total # Absent THEN total
    ELSE IF down = Absent THEN up
    ELSE IF up = Absent THEN down
    ELSE IF NotANumber \in {down, up} THEN NotANumber ELSE down + up
TotalOf(down, up, total) ==
    IF total # Absent \/ Absent \in {down, up} THEN total
    ELSE IF NotANumber \in {down, up} THEN NotANumber ELSE down + up

(* The snapshot of a probe that got clients out of a document.             *)
Snapshot(clients) ==
    LET some == DOMAIN clients # {}
        sum  == [f \in Rates |-> SumClients(clients, f)]
    IN  [at |-> clock + 1, success |-> some,
         error |-> IF some THEN "" ELSE "unsupported",
         reachable |-> TRUE, authenticated |-> TRUE, list |-> some,
         download |-> AnyClientHas(clients, {"downloadBps"}),
         upload |-> AnyClientHas(clients, {"uploadBps"}),
         total |-> AnyClientHas(clients, {"totalBps", "totalBytes"}),
         downloadBps |-> sum["downloadBps"], uploadBps |-> sum["uploadBps"],
         totalBps |-> TotalOf(sum["downloadBps"], sum["uploadBps"],
                              sum["totalBps"])]

Refused(error, reachable) ==
    [NoView EXCEPT !.at = clock + 1, !.error = error, !.reachable = reachable]

(* ProbeAndCollect on the settings of the moment: without URL or password  *)
(* nothing is asked; the login fails, whose answer says nothing but is     *)
(* taken for a router that was reached; or a document is walked in some    *)
(* order.                                                                  *)
Result(view, clients, document) ==
    [view |-> view, clients |-> clients, document |-> document]
ProbeAndCollect ==
    IF ~settings.complete
    THEN {Result(Refused("incomplete", FALSE), <<>>, NoDocument)}
    ELSE {Result(Refused("login", TRUE), <<>>, NoDocument)} \cup
         {LET clients == ExtractClients(w[2])
          IN  Result(Snapshot(clients), clients, w[1]) :
            w \in UNION {{d} \X Walks(d) : d \in Documents}}

ProbeTakesTime == clock < MaxProbes /\ clock' = clock + 1

-----------------------------------------------------------------------------
(* The router loop. *)

CheckRouterTraffic ==
    /\ loop.pc = "idle" /\ settings.monitor /\ settings.collect
    /\ ProbeTakesTime
    /\ \E r \in ProbeAndCollect :
          loop' = [pc |-> "insert", view |-> r.view, clients |-> r.clients,
                   document |-> r.document]
    /\ UNCHANGED <<settings, rows, warned, failed, page, flights, budget>>

(* After the insert: a failed sample is written as an event, and the round *)
(* of a good one is over.                                                  *)
AfterInsert ==
    loop' = IF loop.view.success THEN LoopIdle ELSE [loop EXCEPT !.pc = "emit"]

(* InsertRouterTraffic: the clients do not marshal, or the row is stored.  *)
InsertRouterTraffic ==
    /\ loop.pc = "insert" /\ AfterInsert
    /\ rows' = IF Marshals(loop.clients) THEN Append(rows, loop.view) ELSE rows
    /\ UNCHANGED <<settings, clock, warned, failed, page, flights, budget>>

AfterInsertFailsGivingUp == loop' = LoopIdle
AfterInsertFails == AfterInsert

InsertFails ==
    /\ loop.pc = "insert" /\ Spend("faults") /\ AfterInsertFails
    /\ failed' = IF loop'.pc = "idle" /\ ~loop.view.success
                 THEN failed \cup {loop.view.at} ELSE failed
    /\ UNCHANGED <<settings, clock, rows, warned, page, flights>>

(* With notifications switched off nothing is written.                     *)
Emit ==
    /\ loop.pc = "emit" /\ loop' = LoopIdle
    /\ failed' = failed \cup {loop.view.at}
    /\ \/ /\ warned' = IF OutboxEnabled THEN warned \cup {loop.view.at}
                                         ELSE warned
          /\ UNCHANGED budget
       \/ OutboxEnabled /\ Spend("faults") /\ UNCHANGED warned
    /\ UNCHANGED <<settings, clock, rows, page, flights>>

LoopStep == CheckRouterTraffic \/ InsertRouterTraffic \/ InsertFails \/ Emit

-----------------------------------------------------------------------------
(* The handlers. *)

(* currentRouterTraffic: first the settings are read, then the newest row, *)
(* from which the capability is rebuilt.                                   *)
RebuiltFromRow(row) == [row EXCEPT !.reachable = TRUE, !.authenticated = TRUE]
Rebuilt(row) ==
    [row EXCEPT !.reachable = TRUE, !.authenticated = row.success]
CurrentRouterTraffic(collect) ==
    LET v == IF rows = <<>> THEN NoView ELSE Rebuilt(Last(rows))
    IN  IF collect THEN v ELSE [v EXCEPT !.error = "disabled"]

ReadSettings(i) ==
    /\ flights[i].kind = "load" /\ flights[i].reply = "none"
    /\ flights' = [flights EXCEPT ![i].reply = "settings",
                                  ![i].collect = settings.collect]
    /\ UNCHANGED <<server, page, budget>>

ServeCurrent(i) ==
    /\ flights[i].kind = "load" /\ flights[i].reply = "settings"
    /\ flights' = [flights EXCEPT
          ![i].reply = "ok", ![i].collect = FALSE,
          ![i].view = CurrentRouterTraffic(flights[i].collect)]
    /\ UNCHANGED <<server, page, budget>>

(* probeRouterTraffic: nothing is stored.  The answer of a probe whose     *)
(* clients do not marshal is an error.                                     *)
ServeProbe(i) ==
    /\ flights[i].kind = "probe" /\ flights[i].reply = "none"
    /\ ProbeTakesTime
    /\ \E r \in ProbeAndCollect :
          flights' = [flights EXCEPT
              ![i].reply = IF Marshals(r.clients) THEN "ok" ELSE "error",
              ![i].view = IF Marshals(r.clients) THEN r.view ELSE NoView]
    /\ UNCHANGED <<settings, loop, rows, warned, failed, page, budget>>

(* The request is lost, its session has expired, or the database refuses.  *)
Answered(i) == flights[i].reply \in {"ok", "error"}
Waiting(i) == flights[i].kind # "free" /\ ~Answered(i)
RequestFails(i) ==
    /\ Waiting(i) /\ Spend("faults")
    /\ flights' = [flights EXCEPT ![i].reply = "error", ![i].collect = FALSE]
    /\ UNCHANGED <<server, page>>

-----------------------------------------------------------------------------
(* The pages. *)

Slots == 1..MaxFlights
FreeSlots == {i \in Slots : flights[i].kind = "free"}

(* The flights with one more request; a cleaned up effect owns none.       *)
Send(f, kind) ==
    LET i == Min({j \in Slots : f[j].kind = "free"})
    IN  [f EXCEPT ![i] = [Free EXCEPT !.kind = kind, !.mine = kind = "probe"]]
Orphaned == [i \in Slots |-> [flights[i] EXCEPT !.mine = FALSE]]
NoFlights == [i \in Slots |-> Free]

(* A page is opened, the one before it unmounted.  Both load; the router   *)
(* page also starts its effect, whose first tick is at once.               *)
Open(kind) ==
    /\ Spend("visits")
    /\ page' = [NoPage EXCEPT !.kind = kind, !.running = kind = "router"]
    /\ flights' = LET loading == Send(NoFlights, "load")
                  IN  IF kind = "router" THEN Send(loading, "probe")
                                         ELSE loading
    /\ UNCHANGED server

(* Another refresh interval: cleanup, then a new effect.  probingStopped   *)
(* is state of the page and stays as it is.                                *)
SetRefresh ==
    /\ page.kind # "none" /\ Spend("visits") /\ FreeSlots # {}
    /\ page' = [page EXCEPT !.running = TRUE, !.late = FALSE]
    /\ flights' = Send(Orphaned, "probe")
    /\ UNCHANGED server

(* The dashboard goes back to "historical".                                *)
SetHistorical ==
    /\ page.kind = "dashboard" /\ page.running
    /\ page' = [page EXCEPT !.running = FALSE]
    /\ flights' = Orphaned
    /\ UNCHANGED <<server, budget>>

(* The interval does not wait for the answer of the tick before.           *)
Tick ==
    /\ page.running /\ FreeSlots # {}
    /\ flights' = Send(flights, "probe")
    /\ UNCHANGED <<server, page, budget>>

(* The dashboard loads again every 3 or 30 seconds and after a click.      *)
Reload ==
    /\ page.kind = "dashboard" /\ FreeSlots # {}
    /\ flights' = Send(flights, "load")
    /\ UNCHANGED <<server, page, budget>>

Landed(i, kind) == flights[i].kind = kind /\ Answered(i)
Land(i) == flights' = [flights EXCEPT ![i] = Free]

(* loadHistory and load: the answer replaces what is shown, whatever came  *)
(* in the meantime, or leaves an error.                                    *)
ReceiveLoad(i) ==
    /\ Landed(i, "load") /\ Land(i)
    /\ page' = IF flights[i].reply = "ok"
               THEN [page EXCEPT !.view = flights[i].view, !.error = FALSE,
                                 !.late = @ \/ ~page.running]
               ELSE [page EXCEPT !.error = TRUE]
    /\ UNCHANGED <<server, budget>>

Bad(view) == view.error # "" \/ ~view.success

(* The effect of this tick has stopped or is cleaned up.                   *)
IgnoredOrphans(i) == ~flights[i].mine
Ignored(i) == ~flights[i].mine \/ ~page.running

(* stopProbing, on the router page only; the dashboard goes on.            *)
Stopped(p) ==
    IF p.kind = "router" THEN [p EXCEPT !.running = FALSE, !.says = TRUE]
                         ELSE p

ReceiveProbe(i) ==
    /\ Landed(i, "probe") /\ Land(i)
    /\ page' =
         IF Ignored(i) THEN page
         ELSE IF flights[i].reply = "error"
              THEN Stopped([page EXCEPT !.error =
                                page.kind = "router" \/ page.error])
              ELSE LET shown == [page EXCEPT !.view = flights[i].view]
                   IN  IF Bad(flights[i].view) THEN Stopped(shown) ELSE shown
    /\ UNCHANGED <<server, budget>>

-----------------------------------------------------------------------------
(* The user and the process. *)

SaveSettings ==
    /\ Spend("visits")
    /\ settings' \in Settings \ {settings}
    /\ UNCHANGED <<clock, loop, rows, warned, failed, page, flights>>

(* The service is killed, or stopped, and started again.  Requests under   *)
(* way fail; so does all the loop still had to do for its sample, whose    *)
(* context is cancelled.                                                   *)
Crash ==
    /\ Spend("faults")
    /\ loop' = LoopIdle
    /\ flights' = [i \in Slots |->
          IF Waiting(i)
          THEN [flights[i] EXCEPT !.reply = "error", !.collect = FALSE]
          ELSE flights[i]]
    /\ UNCHANGED <<settings, clock, rows, warned, failed, page>>

Init ==
    /\ settings \in Settings
    /\ clock = 0 /\ loop = LoopIdle
    /\ rows = <<>> /\ warned = {} /\ failed = {}
    /\ page = NoPage /\ flights = NoFlights
    /\ budget = [visits |-> MaxVisits, faults |-> MaxFaults]

Next ==
    \/ LoopStep
    \/ \E i \in Slots :
          \/ ReadSettings(i) \/ ServeCurrent(i) \/ ServeProbe(i)
          \/ RequestFails(i) \/ ReceiveLoad(i) \/ ReceiveProbe(i)
    \/ \E kind \in {"router", "dashboard"} : Open(kind)
    \/ SetRefresh \/ SetHistorical \/ Tick \/ Reload
    \/ SaveSettings \/ Crash

Spec == Init /\ [][Next]_vars

-----------------------------------------------------------------------------
(* Properties. *)

(* Every variable keeps its type; no two samples have one time.            *)
TypeOK ==
    /\ settings \in Settings
    /\ clock \in 0..MaxProbes
    /\ DOMAIN loop = {"pc", "view", "clients", "document"}
    /\ loop.pc \in {"idle", "insert", "emit"} /\ loop.view \in Views
    /\ rows \in Seq(Views) /\ IsInjective([i \in DOMAIN rows |-> rows[i].at])
    /\ warned \subseteq failed /\ failed \subseteq 1..clock
    /\ page \in [kind : {"none", "router", "dashboard"}, running : BOOLEAN,
                 says : BOOLEAN, error : BOOLEAN, view : Views,
                 late : BOOLEAN]
    /\ flights \in [Slots -> [kind : {"free", "load", "probe"},
                               mine : BOOLEAN,
                               reply : {"none", "settings", "ok", "error"},
                               view : Views, collect : BOOLEAN]]
    /\ budget \in [visits : 0..MaxVisits, faults : 0..MaxFaults]

Named(m) == \E f \in TextFields : FirstString(m, TextKeys[f]) # ""
Tells(d, f) ==
    \E m \in Objects(d) : Named(m) /\
        \E k \in ToSet(RateKeys[f]) \cap DOMAIN m : m[k].number # Absent
Collected == loop.pc = "insert" /\ loop.document # NoDocument

(* A sample says that downloads, uploads or totals are available exactly   *)
(* if the document has them for something with a name, whatever order it   *)
(* was walked in: no merging of objects loses one.  The total of the       *)
(* sample, which the code may derive, is there exactly if the document     *)
(* has total rates, or both other rates and then is their sum.             *)
NothingInvented ==
    LET v        == loop.view
        tells(f) == Tells(loop.document, f)
        both     == tells("downloadBps") /\ tells("uploadBps")
    IN  Collected =>
          /\ v.download <=> tells("downloadBps")
          /\ v.upload <=> tells("uploadBps")
          /\ v.total <=> tells("totalBps") \/ tells("totalBytes")
          /\ v.totalBps # Absent <=> tells("totalBps") \/ both
          /\ both /\ ~tells("totalBps") /\ Marshals(loop.clients) =>
                v.totalBps = v.downloadBps + v.uploadBps

Mac(m) == FirstString(m, TextKeys["mac"])
RatesOf(d, mac, f) ==
    {FirstNumber(m, RateKeys[f]) : m \in {o \in Objects(d) : Mac(o) = mac}}

(* If every client object of a document has its hardware address, the      *)
(* clients are as many as the addresses, and a device that is listed more  *)
(* than once, with or without a change of its other names, counts once.    *)
EachDeviceOnce ==
    LET d       == loop.document
        devices == {m \in Objects(d) : IsClient(m)}
        macs    == {Mac(m) : m \in devices}
    IN  Collected /\ "" \notin macs /\ Marshals(loop.clients) =>
          /\ Cardinality(DOMAIN loop.clients) = Cardinality(macs)
          /\ \A f \in Rates : SumClients(loop.clients, f) <=
                MapThenSumSet(LAMBDA mac : Max(RatesOf(d, mac, f) \cup {0}),
                              macs)

(* One failed access does not hide a failed check: it is in the table or   *)
(* in the notifications, where those are switched on, except when the      *)
(* process died in between.                                                *)
FailedRoundLeavesTrace ==
    OutboxEnabled /\ MaxFaults - budget.faults <= 1 =>
        failed \subseteq warned \cup {rows[i].at : i \in DOMAIN rows}

(* What the page is told of a stored sample is no more than its probe      *)
(* knew: no login it did not make and no other traffic than it found.      *)
(* The one exception is that every stored sample is told to be of a router *)
(* that was reached, that of a probe without URL or password too.          *)
StoredClaimsNoMore ==
    \A i \in Slots :
        LET v == flights[i].view
        IN  flights[i].kind = "load" /\ v.at # 0 =>
              \E j \in DOMAIN rows :
                 /\ v = [rows[j] EXCEPT !.reachable = v.reachable,
                                        !.authenticated = v.authenticated,
                                        !.error = v.error]
                 /\ v.authenticated => rows[j].authenticated
                 /\ v.reachable =>
                       rows[j].reachable \/ rows[j].error = "incomplete"
                 /\ v.error \in {rows[j].error, "disabled"}

(* A router page that has stopped probing shows the error it stopped for:  *)
(* no answer of an earlier tick or of an interval chosen before replaces   *)
(* it.  Only the page's own load, landing after the stop, does.            *)
StopIsExplained ==
    page.kind = "router" /\ ~page.running /\ ~page.late =>
        page.error \/ page.view.error # ""

(* "Live probing stopped after this error. Refresh the page to try again": *)
(* while the page says so, it does not probe.  The code does not keep it.  *)
StoppedMeansStopped == page.says => ~page.running
==============================================================================

# Verification of homelink-monitor

TLA+ specifications of homelink-monitor, TLC configurations that check them on
small instances, and TLAPS proofs of the central results. Paths are relative to
the repository; `service.go` without a directory is
`services/api/internal/monitoring/service.go`.

* [1. The system](#1-the-system)
* [2. Plan](#2-plan)
* [3. The modules](#3-the-modules)
* [4. What TLC checks](#4-what-tlc-checks)
* [5. What is proved](#5-what-is-proved)
* [6. Where the code departs from what it says](#6-where-the-code-departs-from-what-it-says)
* [7. What is not modelled](#7-what-is-not-modelled)
* [8. Running everything](#8-running-everything)

## 1. The system

A Go service on a NAS dials latency targets, resolves DNS names, runs a speed
test command and asks a TP-Link router for its traffic. It keeps the results in
SQLite, serves them to a React application, and writes notification events into
a directory that a shell helper polls to show them in Synology DSM.

```
             settings, run now                 accounts
   browser ───────────────► HTTP handlers ◄──────────── browser
                              │  │    ▲
                   Trigger    │  │    │ summary (flag, then rows)
                SpeedTest     ▼  ▼    │
   loops: latency, dns, ──► monitoring.Service ──► SQLite (one connection)
   speed, router                │
                                ▼ one file per event
                        outbox directory ──► notification-helper.sh ──► DSM
                                              ▲ start / stop by PID file
                                              package script
```

| Component | State | Operations | Interacts with | What is hard | What makes it correct |
|---|---|---|---|---|---|
| **Outage monitor** (`service.go` latency loop, `summary.go`, outage rows of `store.go`) | `failCount` in memory; the rows of `outages` and `latency_checks`; the round's local variables | start a round, dial a target, store a check, `updateOutage` (read active, open, close), emit | settings saved by HTTP; network; database; outbox; context cancelled by a signal | no transaction anywhere in a round; the memory is lost in a crash and the rows are not; a cancelled context makes every further call fail; early returns | one active outage; opened only after a full streak; events agree with rows; an outage is eventually opened and closed |
| **Speed tests** (`service.go`, `speedtest.go`, speed rows) | `speedActive`; the goroutine; rows; the schedule loop's copy of the newest row | trigger, load, run, insert, emit, clear; poll of the schedule; run by hand; summary | two triggers race; context.Background outlives the signal | a row read before another goroutine stores its own; several failing steps; an external command that may hang | at most one test; flag never left set; a period between scheduled tests; no stale summary |
| **Accounts and sessions** (`auth.go`, `store/users.go`, `api.go`, `db.go`) | users, sessions, the pool's connection and its PRAGMAs, cookies | login, logout, create, update, delete user, seed at start, expiry | requests of several clients at once, on one pooled connection given back between statements | check-then-act over several statements; a PRAGMA that belongs to one connection; interrupted requests | a user always remains; sessions have users, their own; a changed password ends older sessions |
| **Notification pipeline** (`outbox.go`, `notification-helper.sh`, `start-stop-status`) | files and where they lie; the helper's place in its sweep; the PID file | write, rename; sweep, validate, send, move; start, stop | two processes that share only a directory; a third party (DSM) | kills of either side between two steps; failing `mv`; stale and reused PIDs | no torn event; filed under the right verdict; duplicates only for interruptions; order per writer; delivery |
| **Router provider** (`router/tplink.go`) | cached session, its key and expiry | probe, login (three methods), invalidate, fall back to https | router loop and HTTP probes share one provider | concurrent logins to a router with few sessions; expiry counted from before the login | a probe that can succeed succeeds; an invalid session is not kept |
| **Dashboard summary** (`summary.go`) | none | the queries one by one, then `ConnectionStatus` | every table | no transaction: parts from different moments | the parts fit together; the status was real |
| **Settings** (`api.go`, `store.go`, `domain.go`, `Settings.tsx`) | one document row; the form | load, normalise, save whole; type, toggle, reload | every loop reads it at each round; other browsers save too | the last save wins; answers overtake each other; a failed toggle is undone | stored numbers are safe for every reader; the form shows what is stored; a save changes what was typed |
| **Timestamps** (`store.go`) | none | format to text, compare as text, parse | every table's order, session expiry | text order against time order | no latest row is a second older than another |
| **Router samples** (`service.go`, `store/router_traffic.go`, handlers of `api.go`) | rows with their clients as JSON | probe, insert, warn; show the newest row or a probe of the moment | provider, database, outbox | documents walked in map order; a row's capability rebuilt later; an insert that fails | a sample claims what the router told, once per device; no failed check is silent |
| **DNS loop** (`service.go`) | rows; the names left of a round | look up, insert a row, emit on failure | settings, database, outbox | the context is cancelled during a lookup | no failure that was none of the name's is stored or announced |
| **Database opening** (`db.go`) | schema, PRAGMAs | open, migrate | every component | connection recycling | constraints in force |
| **HTTP server, static files, configuration** | none | routing | all handlers | graceful shutdown does not wait for loops | – |
| **Web application** (`apps/web`) | what is shown, live points, running intervals | load, poll, probe, stop | HTTP | overlapping requests answered in any order; state that outlives an effect | a page that stopped probing says why, and has stopped; a form shows what is stored |
| **Package scripts** (`synology/scripts`) | files, PID file | install, remove, start, stop | helper | stale PID | – |

The hazards of this code, each at its line and with the properties that cover
it, are listed in `PROJECT.json`.

## 2. Plan

Most important behaviour first; each component is a module of its own with an
`MC` module, and the proofs of a component are in a module of their own.

| # | Module | Composes / refines | State of the work |
|---|---|---|---|
| 1 | `OutageLog` | abstract: an outage begins, an outage ends | done |
| 2 | `OutageMonitor` | refines `OutageLog` | done, proved in `OutageMonitorProofs` |
| 3 | `SpeedTests` | – | done, proved in `SpeedTestsProofs` |
| 4 | `Accounts` | – | done, proved in `AccountsProofs` |
| 5 | `Delivery` | abstract: an event is written, shown, filed or lost | done |
| 6 | `EventPipeline` | refines `Delivery` | done, proved in `EventPipelineProofs` |
| 7 | `RouterSession` | cache, concurrent logins, invalidation, https fallback; the router external | done, proved in `RouterSessionProofs` |
| 8 | `RouterClients` | pure: clients and sums from a router's document | done, proved in `RouterTrafficProofs` |
| 9 | `RouterTraffic` | uses `RouterClients`; loop, rows, handlers and the pages that poll them | done, proved in `RouterTrafficProofs` |
| 10 | `SettingsPage`, `Timestamps` | the document, its normalisation and its form; the order of texts | done, proved in `DashboardProofs` |
| 11 | `Dashboard` | composes `SettingsPage`, `Timestamps`, the DNS loop and `BuildSummary` | done, proved in `DashboardProofs` |
| 12 | `DataInduction` | induction over naturals and finite sets, and what the folds of the community modules compute; used by the proofs of 9 to 11 | done, proved |

Abstract specifications: `OutageLog` and `Delivery`, each with the proof that
the detailed module implements it; `SettingsPage` has a specification of its
own, `PageSpec`, which `Dashboard` implements.

No module declares a `RECURSIVE` operator, and all bounds are constants with
named assumptions, so each of them can be proved about.

## 3. The modules

Common conventions. `OutboxEnabled` is whether notifications are switched on:
`main` decides once, at its start, whether the service gets an outbox, and
`emit` writes nothing without one (`service.go:306`). The modules that emit
events have it as a constant; the theorems hold for both values, and the
properties about events say where they need it. A database call, a network call
or a file operation is one step, and everything a handler does between two such
calls is part of that step. `proc` is `"up"`, `"stopping"` (signal received: the
context of the loops is cancelled, in-flight requests and `context.Background`
goroutines go on) or `"down"`. Bounds are counters in the record `budget`, spent
by the guard of the action they bound; nothing else stops the environment.
Definitions whose names extend that of another (`HasOpenOldest` beside
`HasOpen`) are plausible mistakes kept for mutation: no specification uses them.

### `OutageLog`

What a reader of the outage table may rely on: whether an outage is `down`, and
the `total` number recorded. `Begin` starts one when none is active, `End` ends
it. A history never shrinks, and no second outage begins inside another.

### `OutageMonitor`

| State | Code |
|---|---|
| `settings` | the settings row, as far as the latency loop reads it |
| `outages`, `latest` | `outages` by id; the success of the newest `latency_checks` row |
| `pc`, `round` | where the goroutine stands; locals of `checkLatency` and `updateOutage` |
| `failCount` | `Service.failCount` |
| `events` | outage events written to the outbox |
| `reach` | the network |
| `streak` | history: complete rounds in a row in which every dial failed in a live context |

`StartRound` is the closure of the loop up to `checkLatency`; `Dial(t)` one
iteration of its `for`, the insert of the check included; `ReadActive` is
`updateOutage` from the read of the active outage to its decision, and
`ReadActiveFails` its early return; `OpenCount` and `OpenInsert` are the two
statements of `OpenOutage`; `CloseUpdate` is `CloseActiveOutage`; `UpdateFails`
is an error of either; `Emit` and `EmitFails` write, or fail to write, the
event. `Dial` leaves the order of the targets open. Counters saturate at
`FailCap`, which is above every threshold, so no comparison is affected.

### `SpeedTests`

`jobs` are the tests in the order `TriggerSpeedTest` accepted them, each at a
stage of its goroutine: settings loaded, command running (or hung in `cmd.Run`,
whose timeout does not release the output pipes held by a grandchild), row
inserted, event emitted, flag cleared by the deferred function. `loop` holds
what the schedule loop read (`LoadSchedule`, `LoadLatest`) until it decides
(`Check`); `page` what a summary request read. A row is the number of the job
that stored it, a timestamp is the clock `now` in units of the schedule.
`LatestSpeedTest` is the `ORDER BY started_at DESC, id DESC LIMIT 1` of the
store.

### `Accounts`

`users` and `sessions` are the tables, `lastId` the AUTOINCREMENT counter, `fk`
the `foreign_keys` PRAGMA of the connection the pool has now. Each client runs
one request at a time, `req[c]` holding the handler's place and locals; every
statement of a handler is a step. A password is the number of the change that
set it. Two things the program does not keep make the properties expressible:
`born` (which creation an id stands for) and a session's `stale` (its login had
read a password or user that was changed before the session was stored).
`Recycle` is `SetConnMaxLifetime`: the next connection has SQLite's default,
foreign keys off. `Restart` opens a connection, sets the PRAGMA and seeds an
empty table (`EnsureInitialAdmin`).

### `RouterSession`

`cache` is `cachedSession` with its key and expiry, `probe[p]` the locals of one
`ProbeAndCollect` (the router loop's or a "probe now" request's), `sessions` the
session objects, shared by pointer between probers, and `saved` the settings a
probe reads at its start. A base URL and its credentials are one `key`. `Lookup`
and `Store` are the two sections of `Provider.session` under its mutex, with the
login, one step for each request that asks for a session, in between; `Hash` and
`Request` are the write and the read of the field a signature is made from;
`Invalidate` is `invalidateSession`; `Without` is the end of `probeBaseURL`
without clients, with the retry over https. The router is external and chosen
from `Routers`: which login it accepts, what it shows over each scheme, how it
refuses a request and a login, how many sessions it keeps. A refusal is an error
of HTTP or of the encryption, or a document whose error code is a number, a
number in a text, another text, or missing, and `Errors` says which of them each
mode takes for an error: `requestPlainForm` asks for a code that is a text
(`tplink.go:471`), `post` for one that is or spells a number (`tplink.go:632`),
and `requestSG` takes every document without encrypted data for an answer
(`tplink.go:501`). What is not taken for an error is an answer without clients,
and the session it came with stays cached (section 6); in the JSON login it is
an answer without a token and ends the login (`EndsLogin`, `tplink.go:274-281`).
A router whose refusals are read as refusals is `Legible`. It may forget a
session at any time, and a login may end an older session (`confirm=true` of the
SG login asks for that). `calm` is a history flag of each probe: nothing outside
of it lost a request, ended a session or cached an ended one since it began. A
session's number is free again when nobody holds it.

### `EventPipeline`

Three actors and a directory. Writers are the service's goroutines
(`WriteStart`, `WriteFile`, `Rename`, `WriteFails`); `Detached` ones use
`context.Background` and still write while the process stops. The helper's sweep
is `Glob`, `NextEvent`, `ValidEvent`, `Send` or `SendFails`, `Move` or
`MoveFails`; when `mv` and `rm` both fail `set -e` ends it. `Send` and
`SendFails` are the end of `synodsmnotify`, which the script waits for without a
timeout (`notification-helper.sh:48`): nothing makes either happen. The package
script's `start` and `stop` act on the PID file only, which may name a live
helper, no process, or somebody else's. `StartHelper` is the check of the PID,
`LaunchHelper` the start in the background and `RecordPid` the `echo` into the
PID file; the helper may run and die in between. DSM runs a package's scripts
one after another, so `script` has one place. A `start` that is itself killed
before its last line, or cannot write the file, is not modelled. A killed shell
does not take its DSM command along: `OrphanSends` completes it. An event's
content is reduced to whether its file is whole.

### `Delivery`

What an administrator may rely on: where an event is found (`box`) and how often
it was `shown`. It is written once, shown only after that, and filed once and
for ever, as processed only if it was shown; it may be lost on the way to its
directory. `EventPipeline` implements it with `box` as the place of its file, a
temporary file counting as none.

### `SettingsPage`

| State | Code |
|---|---|
| `settings` | the row `settings` |
| `version` | history: how often it was saved |
| `page` | the form of `Settings.tsx` and `monitoringEnabled` beside it; history: the fields `touched` since an answer filled it and the version `seen` |
| `save` | the PUT under way: sent, answered by the server, or failed |
| `loads` | the GETs under way |

A document is a record of the switch, some of the numbers, one list and one
optional text; a field nobody has filled is what Go makes of an absent one.
`normalizeSettings` is translated with its bounds, its trimming and its list
(blanks and repetitions skipped, the rest cut at `MaxNames`). `Submit` and
`Toggle` send the whole form, its lists split into lines by `splitLines`;
`ServeSave` normalises and stores in one step, as the handler does;
`SaveAnswered` and `LoadAnswered` fill the form, except for an empty text, which
`omitempty` leaves out of the answer. `SaveFails` loses the request or its
answer, so the document may have been stored; `SaveRefused` is what a failed
toggle does to the switch. `ForeignSave` is another browser. `PageSpec` is the
page alone.

### `Timestamps`

`TextBefore` is the order of the texts that `ts` writes: seconds first, then
digit by digit, a cut fraction sorting after every digit. An instant is a number
of ticks, `Base` to the power of `Digits` of them to a second (`Ticks`).

### `Dashboard`

| State | Code |
|---|---|
| `rows`, `outages` | the tables, as far as the summary reads them: an instant and a value |
| `now`, `proc` | the clock; the process |
| `dns` | locals of `checkDNS`: names left, the row in hand |
| `announced` | failed lookups whose event is in the outbox |
| `request` | locals of `BuildSummary`; history: the statuses `seen` since it came, how often what is stored changed |

It extends `SettingsPage` and `Timestamps`. A request is one `Read` after
another in the order of the code (`Reads`), with the queries as operators:
`FirstRow` is `ORDER BY` text and id `LIMIT 1`, of all rows (`Latest`) or of the
open outages (`ActiveOutage`); `LatencySummary`, `OutageCountSince` and
`SpeedBoundsSince` work on the rows since an instant fixed by `Ask`. A lookup of
`checkDNS`, its insert and its event are steps of their own; once the context is
cancelled insert and event fail. Latency checks, speed tests and outages appear
as the rows they store, at any moment; a speed test's stamp may be older than
its row. How those rows come about is `OutageMonitor` and `SpeedTests`.

### `RouterClients`

Operators only. A document is a root object and the lists of objects under it; a
scalar keeps the text a trimmed string has and the number it stands for, with
`NotANumber` for what `ParseFloat` reads and JSON cannot write. `Walks` are the
orders `collectObjects` may visit a Go map in, `ExtractClients` folds
`AddObject` over one of them: `ObjectToClient`, `ClientKey` and `MergeClient`
are the functions of these names, or the code of `ExtractClients` that picks the
key.

### `RouterTraffic`

| State | Code |
|---|---|
| `settings` | whether monitoring is enabled, whether samples are collected, and whether URL and password are given |
| `clock` | probes so far, which is the `CheckedAt` of the newest |
| `loop` | where `checkRouterTraffic` stands, and its snapshot |
| `rows` | `router_traffic_samples` |
| `warned`, `failed` | warnings in the outbox; history: failed samples whose round is over |
| `page` | the page in the browser: what it shows, whether its interval runs, `probingStopped` |
| `flights` | its requests, from sending to receiving |

A probe is one step (`ProbeAndCollect`): what may happen inside it is
`RouterSession`. `CheckRouterTraffic`, `InsertRouterTraffic` or `InsertFails`,
and `Emit` are a round of the loop, which needs monitoring and collecting
enabled. The handler of a stored sample reads the settings (`ReadSettings`) and
then the newest row (`ServeCurrent`), from which it rebuilds the capability:
`Rebuilt` calls every router of a stored sample reached (`api.go:223`), and
whether collecting is enabled, monitoring or not, decides the error
(`api.go:234`). `ServeProbe` is the handler that probes. `TotalOf` is the total
of a sample that `probeBaseURL` derives from downloads and uploads when no
client has one (`tplink.go:138`). `NothingInvented` says when that total is
there and what it is. `ReceiveLoad` and `ReceiveProbe` are what the page does
with an answer, `Tick` the interval, which does not wait for the answer before,
`SetRefresh` the cleanup of one effect and the start of the next, after which
answers to the former (`mine` is false) are ignored. Of the page `late` is
history: a load has landed since probing stopped. The router page and the router
card of the dashboard are the two kinds of page; the card never stops probing by
itself.

## 4. What TLC checks

| Run | Bounds | What it shows |
|---|---|---|
| `outage_monitor` | 2 targets, thresholds 1–2, 2 network changes, 1 save, 1 restart, 1 failed read, 1 failed write, fair loop | `SingleActive`, `StreakUnlessMisread`, `EventsFollowRows`, `NoSilentOutage`, `DashboardAgrees`; `RefinesLog`: the loop implements `OutageLog`; `RecoveryCloses`, `FailureOpens` |
| `outage_read_error` | 1 target, 1 failed read | violation of `OpenOnlyAfterStreak`, section 6 |
| `speed_tests` | schedules 0 and 1, clock to 1, 3 tests, 1 save, 1 restart, 1 fault, 1 summary, fair goroutines | `FlagMatchesJob`, `SummaryNotStale`, `OneFaultLosesNoResult`, `NoBurst`; `FlagClears`, `FirstResult` |
| `accounts_safety` | 2 clients that create, update and delete users; 3 users, 2 logins, 1 password change; of 1 expiry, 1 recycled connection, 1 fault and 1 restart any two | `CascadeLeavesNoSession`, `SessionsKeepTheirOwner`, `PasswordChangeEndsSessions` |
| `accounts_last_user` | both delete | violation of `SomeUserRemains`, section 6 |
| `accounts_orphans` | 1 recycled connection | violation of `SessionsHaveUsers`, section 6 |
| `router_safety` | 2 probers, 3 probes, 4 kinds of router that keep one session, clock to 1, session kept 1; 1 save, lost request, forgotten session or restart | `TypeOK`, `OwnSession`, `UndisturbedSucceeds`, `WorkingSessionKept`, `NoAgedSession`, `SignedForItself` |
| `pipeline_safety` | 2 writers (one detached), 2 events, one of each failure, kill, stop and PID reuse, fair helper | `TypeOK`, `WholeEventsOnly`, `FiledTruthfully`, `DuplicatesAreInterruptions`, `InOrder`; `RefinesDelivery`: the pipeline implements `Delivery`; `Delivered` |
| `pipeline_move` | 1 event, 1 failed `mv` | violation of `NoEventVanishes`, section 6 |
| `traffic_safety` | 5 documents, 2 probes, 2 requests of the page at once, 2 visits (page opened, interval chosen or settings saved), 1 fault | `NothingInvented`, `EachDeviceOnce`, `FailedRoundLeavesTrace`, `StoredClaimsNoMore`, `StopIsExplained` |
| `traffic_stopped` | 1 probe, 2 visits, no fault | violation of `StoppedMeansStopped`, section 6 |
| `dashboard` | two ticks to a second, a day of one second, lists of 2 names; 3 edits, 1 foreign save, 2 loads and 1 fault, or up to 3 rows, 1 save, 1 DNS round, 1 stop and 2 ticks beside 1 summary | `PageAgrees`, `SavesOnlyTheTyped`; `SummaryCoherent`, `StatusWasReal`, `NoFalseDNSFailure` |

`TypeOK` is in the runs `router_safety` and `pipeline_safety`, where it also
bounds the cache's expiry and ties the PID file to the helper. The
type invariants of the other modules are in no run; they are proved (section 5).
The runs have `OutboxEnabled` switched on, but `outage_read_error` and
`traffic_stopped`, which show nothing of events.

Distinct states of the passing runs: `outage_monitor` 1.35 million,
`speed_tests` 0.53, `accounts_safety` 1.48, `router_safety` 3.5,
`pipeline_safety` 1.16, `traffic_safety` 2.03, `dashboard` 0.96.

**Why the bounds are enough.** Two targets make a round that is half refused and
one that a signal cuts between two dials; threshold 2 makes a streak that can be
interrupted, and threshold 1 one that cannot. Each target may be reachable or
not at the start and two changes are for one target to go down and come back, or
for each to change once, so an outage is closed and another opened after it.
Three tests give one that is stored, one that races it and one after both; with
a period of one tick the clock is inside the period before the tick and at its
end after it, which are the two sides of the comparison. Two clients, two logins
and three creations are a caller, a victim and the account that would take over
the victim's id. Three probes are two that run at the same time and one before
or after them; a router that keeps one session lets each login end the session
of the other prober. The routers are one that has nothing to show over http, one
that refuses illegibly, one of the first login and one of the last, the latter
two refusing with documents, each with the code its mode looks for. Two events
are a pair of one writer or a race of two; the helper's listing is older than
the directory as soon as the second arrives during a sweep. One failure of each
kind suffices for the properties that speak of a single interruption; the
count-based ones (`FiledTruthfully`, `DuplicatesAreInterruptions`) are stated
relative to what was spent. The documents of `MCRouterTraffic` hold the same
device twice in one list and in two, with its address changed, one whose first
name is an empty string, a total without rates, a rate that is text and one that
is no finite number, and nothing; two lists suffice for two orders of the walk.
Two probes and two requests are an answer that overtakes another; two visits are
a page and a second interval, or a page and a save. `dashboard` gives most of
the steps either to the page, or to the rows, or to the DNS loop with the
process (`MCAllowances`): two loads and a save are three answers in any order,
and the page has nothing in common with a summary but the document, which a
foreign save changes beside it. One digit makes the cut fraction sort after the
other one, so the order of texts is not that of time; a day of one second lets
rows fall out of the summary's range between its queries. The numbers typed and
saved lie on both sides of a bound of `normalizeSettings`, of the latency limit
and of the download limit; another program may store negative ones, which the
form of the page cannot hold.

**Symmetry.** `accounts_safety` declares the clients interchangeable (both
delete users) and `router_safety` the probers: no definition names one, and
these runs have no liveness property. The runs with liveness properties declare
none.

**Deadlock.** `CHECK_DEADLOCK FALSE` everywhere: the service may be stopped for
good, monitoring paused and every bound used up, and the system then rightly
does nothing.

**Fairness.** Weak fairness of the steps of one goroutine at a time (the latency
loop, the schedule loop, each test's goroutine) and of the helper's steps. The
Go scheduler runs a runnable goroutine, and its timers fire, while the process
lives; the kernel does the same for the helper between its commands (`OwnStep`).
The helper waits for `synodsmnotify` without a timeout, so there is no fairness
of `Send` and `SendFails`: `Delivered` speaks of behaviours in which the helper
stays up and none of its commands hangs for ever. A measurement's end is fair,
its hanging for ever is a separate action without fairness, and every claim
excepts it. Nothing is assumed of users, the clock, the network, signals or
restarts. Failing accesses are covered without fairness, by bounded budgets:
liveness holds when failures cease.

## 5. What is proved

For every value of the constants (targets, thresholds, schedules, bounds):

| Theorem of `OutageMonitorProofs` | States | Assumes |
|---|---|---|
| `TypeCorrect` | `Spec => []TypeOK` | the constants' assumptions |
| `SingleActiveCorrect` | `Spec => []SingleActive` | same |
| `RefinesLogCorrect` | `Spec => RefinesLog` | same |
| `StreakUnlessMisreadCorrect` | `Spec => []StreakUnlessMisread` | the constants' assumptions |
| `OpenOnlyAfterStreakCorrect` | `Spec => []OpenOnlyAfterStreak` | `ReadErrors = 0` |
| `EventsFollowRowsCorrect` | `Spec => []EventsFollowRows` | the constants' assumptions |
| `NoSilentOutageCorrect` | `Spec => []NoSilentOutage` | same |
| `DashboardAgreesCorrect` | `Spec => []DashboardAgrees` | same |

*One active outage.* `OpenOutage` counts and inserts in two statements.
`SingleActive` alone is not inductive: a round at the insert could find a row
another had opened. The invariant `OneOutage` adds that a round between the
count and the insert (or deciding to open) has seen no open row, and that the
loop, being the only writer, keeps it so; it is what makes the missing
transaction harmless. `RefinesLogCorrect` rests on it: `OpenInsert` maps to
`Begin`, `CloseUpdate` to `End`, and every other step to a stutter.

*Openings follow a streak.* `failCount` is the program's count and `streak` the
history's. The invariant `CountsAgree` bounds the first by the second between
rounds and relates them step by step through `updateOutage`, for as long as no
read of the active outage has failed (`NoMisread`). So an opening without a
streak takes a failed read, and `outage_read_error` shows that one suffices. A
cut round cannot disturb it: after the signal the read fails too, so
`updateOutage` goes no further.

*Events follow rows.* `EventsInv` says where the newest event stands in relation
to the newest row for each place of the loop: what is about to be emitted has
not been emitted before, and everything emitted is about an existing row. A
crash may leave a row without events, never an event without its row.

*Rounds without a fault.* Budgets only shrink, so a state without a fault has no
predecessor with one (`DisturbanceStays`). Then every row is announced as soon
as the loop leaves the place that writes the event (`AnnouncedStep`), and what
the round has found stands beside the newest check (`Shown`): a round without a
success leaves a failed check, one with a success leaves no outage open.

| Theorem of `SpeedTestsProofs` | States |
|---|---|
| `TypeCorrect` | `Spec => []TypeOK` |
| `FlagMatchesJobCorrect` | `Spec => []FlagMatchesJob` |
| `SummaryNotStaleCorrect` | `Spec => []SummaryNotStale` |
| `NoBurstCorrect` | `Spec => []NoBurst` |
| `OneFaultLosesNoResultCorrect` | `Spec => []OneFaultLosesNoResult` |

All of them assume only the named assumptions on the constants: bounds are
naturals, schedules are naturals.

*One test.* `Serial` adds to `FlagMatchesJob` that a test under way is the last
one accepted. `StepAdvances` then says once what any step may do to tests and
rows (`TestsAdvance`, `RowsGrow`), and the other invariants use that instead of
going through the actions again.

*The newest row.* `ORDER BY started_at DESC, id DESC` is a search by time.
`Ordered` says that rows are in the order of their tests and tests in the order
of the clock, which holds because tests do not overlap, and `LatestIsLast`
concludes that the search finds the row inserted last. `PageInv` carries the
summary from its first read to its second: a test that was over when the flag
was clear stores nothing later.

*The schedule.* `ScheduleInv` records what the loop has seen when it is about to
decide: every test stored before the last one it started itself, since it read
the rows after starting that one. Its read may be older than the row of a test
that ends before the decision, and then a scheduled test starts inside the
period; `NoBurst` says that two in a row cannot.

*Faults.* `FaultsSpent` counts: a result missing from the table has cost one
failed access by the time its event is due, and a second one if the event is
missing too.

| Theorem of `RouterTrafficProofs` | States |
|---|---|
| `TypeCorrect` | `Spec => []TypeOK` |
| `StoredClaimsNoMoreCorrect` | `Spec => []StoredClaimsNoMore` |
| `StopIsExplainedCorrect` | `Spec => []StopIsExplained` |
| `FailedRoundLeavesTraceCorrect` | `Spec => []FailedRoundLeavesTrace` |
| `NothingInventedCorrect` | `Spec => []NothingInvented` |
| `EachDeviceOnceCorrect` | `Spec => []EachDeviceOnce` |

They hold for every set of documents a router may answer with (of any number of
objects in any number of lists), any number of probes, visits and faults, and
any number of requests in flight above one. `ProbeFacts` says that a sample
fails exactly if it has no clients, and that no clients can always be written
as JSON. `FlightsAdvance` says once what any step may do to a request, so that
what a page is told is followed from the server to the page without going
through the actions again.

*Stored samples.* `Honest` says that a row succeeded only if its probe had
logged in, and that a router no probe reached is that of incomplete settings;
`CurrentBacked` concludes that the answer the handler rebuilds from the newest
row claims no more than that row but the reaching (section 6), and rows only
grow, so it stays backed while the answer is under way.

*Stopping.* `ProbesExplain` is what makes the reason appear: a bad answer to a
probe carries an error. Answers the page ignores may arrive in any order.

*Traces.* `TraceInv` counts faults along the loop's round: a failed sample can
always be stored (`Marshals` of no clients), so a missing row has cost one fault
by the time its warning is due and a missing warning a second one.

*What is extracted.* `Extracted` keeps at the insert that the clients are what
`ExtractClients` made of some walk of the document. `ExtractRun` unfolds that
into the values of `byKey` object after object, and both properties are
inductions along it. `RatesFound`: some client has a rate exactly if an object
met so far has a name and that rate, since merging fills gaps and never removes
a number. `Tracks`: as long as every client object has its hardware address, the
keys are the addresses met so far, and each number kept is that of an object
with this address; so the clients are as many as the addresses, and `ClientSum`
bounds a sum address by address (`SumLess`). A walk reaches every object
(`OrderFacts`, `FlattenFacts`) and neither statement mentions the order, so the
order in which Go walks a map does not matter to them, though it does to which
of two numbers of a device is kept. `SumFacts` (a sum is there exactly if some
client has the rate) makes of `RatesFound` a statement about the sample, and
`TotalFacts` has the two cases of its total, the clients' own and the derived
one.

| Theorem of `AccountsProofs` | States |
|---|---|
| `TypeCorrect` | `Spec => []TypeOK` |
| `SessionsKeepTheirOwnerCorrect` | `Spec => []SessionsKeepTheirOwner` |
| `CascadeLeavesNoSessionCorrect` | `Spec => []CascadeLeavesNoSession` |
| `PasswordChangeEndsSessionsCorrect` | `Spec => []PasswordChangeEndsSessions` |

For any clients, names and bounds. `TypeOK` is not inductive: that an id is new
when it is given out needs a bound on those in use. `Linked` says that every
user and session, and whoever a request has looked up, has an id up to `lastId`,
and that tokens are counted by the logins spent; with it ids and tokens are
never given out twice, which is all `SessionsKeepTheirOwner` needs, foreign keys
on or off. For the cascade, a session is inserted on a connection whose foreign
keys are on only if its user exists. For the password, the sessions left over
are those of a user whose change is at its second statement; a login that has
read the old password and stores its session later is what `stale` marks and the
property excepts by name. Both speak of processes without faults, and budgets
only shrink, so a state without faults has no predecessor with one.

| Theorem of `EventPipelineProofs` | States |
|---|---|
| `TypeCorrect` | `Spec => []TypeOK` |
| `WholeEventsOnlyCorrect` | `Spec => []WholeEventsOnly` |
| `FiledTruthfullyCorrect` | `Spec => []FiledTruthfully` |
| `DuplicatesAreInterruptionsCorrect` | `Spec => []DuplicatesAreInterruptions` |
| `InOrderCorrect` | `Spec => []InOrder` |
| `RefinesDeliveryCorrect` | `Spec => RefinesDelivery` |

For any goroutines, any number of events and of failures of each kind.
`WriterLinked` ties a goroutine to its newest event, still a temporary file, and
`PlaceLinked` a place to what has happened to the file; `HelperLinked` says that
what the helper holds lies in the outbox, though its listing is old, because
nobody else takes files out of it. `OrderLinked` is the heart of the order: for
two events of one goroutine, if the later one is in the helper's list and the
earlier one still in the outbox, the earlier one is in the list too, since it
was renamed first. `ShownLinked` counts notifications, those an orphaned command
has yet to show included, against interruptions; `FailedLinked` counts refusals.
The refinement maps `Rename` to `Write`, both kinds of sending to `Show`, `Move`
to `Process` or `Refuse`, a failed `mv` to `Lose`, and every other step to a
stutter.

| Theorem of `DashboardProofs` | States |
|---|---|
| `PageTypeCorrect` | `PageSpec => []PageTypeOK` |
| `PageAgreesCorrect` | `PageSpec => []PageAgrees` |
| `NormalizeTwice` | `normalizeSettings` is idempotent on every document |
| `SavesOnlyTheTypedCorrect` | `PageSpec => SavesOnlyTheTyped` |
| `ImplementsPage` | `Spec => PageSpec` |
| `TypeCorrect` | `Spec => []TypeOK` |
| `NoFalseDNSFailureCorrect` | `Spec => []NoFalseDNSFailure` |
| `StatusWasRealCorrect` | `Spec => []StatusWasReal` |
| `TextOrder` | the order of texts is strict and that of their seconds |
| `SummaryCoherentCorrect` | `Spec => []SummaryCoherent` |

For any fields, texts, typing and foreign documents, any number of loads, rows
and requests, any format of instants. `NamesAssumption` says that the two
default names fit in a list (of 20 in the code).

*The page.* `PageTypeCorrect` includes that stored numbers are within the bounds
of `normalizeSettings`, whoever stores them. `Agree` adds to `PageAgrees` what
makes it inductive: an answer that is as new as the document is the document,
and so is, for a save that was sent from an up-to-date page, everything its user
did not touch. That the switch goes back to the right place after a failed
toggle rests on it. A save changes nothing its user did not touch because the
stored document is `Normal`: the server would not change it and neither would
the page's `splitLines`. For a list that is a statement about folds. `NamesTidy`
shows along the prefixes of any list that what `normalizeStringList` returns is
`Tidy` (trimmed, without blanks and repetitions, not too long), and `TidyStays`
that each prefix of a tidy list is what either fold has made of it so far.

*The summary.* `Real` says that the present status has been noticed since the
request came; without a change the parts read so far are the present ones; and
after one change they are the present ones but for one part, which may have its
former value, with which the status was noticed as well. Eight reads without a
transaction are therefore as good as one as long as only one thing changes.

`SummaryCoherent` is about all the rows. `TextOrder` comes first: two different
texts differ at a first digit (`TextSplits`, which needs the least number of a
set), and `TextFacts` ties the order to seconds. Any finite set of rows then has
a first one under it (`FirstExists`, by induction over the set:
`SubsetInduction`), so `FirstRow` answers with a row whenever there is one, and
the row is no whole second older than any other (`LatestFacts`). `Coherent`
gives what is known after each of the eight reads: a latest row that was read is
stored and no older than what the request could know (`StoredRow`, `Newest`),
and since rows and outages stay, and `WHERE` compares with the same instant each
time, a later query of the last 24 hours still counts it, within its minimum and
maximum (`BoundsFacts`, from `MinOf` and `MaxOf`). It depends on the order of
the reads: if outages were counted before the active one is read, one that
begins in between would be shown and not counted.

*The DNS loop.* `DnsAlive` says that a lookup in the hands of a running process
was answered while it ran; after the signal insert and event fail.

| Theorem of `RouterSessionProofs` | States |
|---|---|
| `TypeCorrect` | `Spec => []TypeOK` |
| `OwnSessionCorrect` | `Spec => []OwnSession` |
| `SignedForItselfCorrect` | `Spec => []SignedForItself` |
| `NoAgedSessionCorrect` | `Spec => NoAgedSession` |
| `WorkingSessionKeptCorrect` | `Spec => WorkingSessionKept` |
| `UndisturbedSucceedsCorrect` | `Spec => UndisturbedSucceeds` |

For any finite set of probers, any router and any bounds. That a login finds a
free session object is a count (`TokenIsFree`): the prober that logs in holds
none. `SessionsKept` says once what any step may do to a session somebody holds
(its hash may be written, it does not come back to life), and `Left` what a step
of one prober may do to another (make it less calm; and as long as it stays
calm, no session ends and none that has ended is cached). The invariant has a
part for each of the prober's hazards: `SessionLinked` for the key and the hash,
`GivenUp` for why a session is given up, `CalmLinked` for a calm probe's way to
the clients: it reaches the login the router accepts (no earlier attempt ends
the login of a legible router), its second session has not ended, and it turns
to https only when http shows nothing. A refusal that its mode takes for an
answer would end the probe, or turn it to https, although the router has clients
to show, which is why the property speaks of legible routers.
`UndisturbedSucceeds` follows since only a request then ends a probe
(`EndsByRequest`), and a request of a session that has not ended is served
(`RequestOutcome`).

*Induction over data.* `DataInduction` has no model and one purpose: the
principles the library states with an operator as a parameter are stated there
with a set in its place (`NatSetInduction`, `RangeInduction`,
`SubsetInduction`), and the folds of the community modules with a function in
the place of the step (`FoldExists`, `FoldLeftExists`, `RunExists`), so that the
provers can use them. On these rest what `FoldLeft`, `FlattenSeq` and
`SetToSeqs` return and that a sum over a finite set is the same in any order
(`SumAnyOrder`) and monotone (`SumLess`).

Every invariant, action property and refinement of the passing runs is thereby
proved. What stays with TLC is liveness under fairness: `RecoveryCloses`,
`FailureOpens`, `FlagClears`, `FirstResult` and `Delivered`. The theorems cover
every instance of the models, not what the models abstract.

## 6. Where the code departs from what it says

Each is a run expected to end in a violation; `PROJECT.json` quotes the line.

* `outage_read_error` – `updateOutage` returns on a failed read before it resets
  `failCount`, so failures around a success add up and an outage is opened after
  rounds that are not consecutive.
* `accounts_last_user` – two deletions count two users and then each delete the
  other; nobody can log in until a restart seeds a user.
* `accounts_orphans` – the PRAGMA that enforces foreign keys belongs to the
  first connection, which the pool replaces after an hour; sessions outlive
  their user. `SessionsKeepTheirOwner` shows that they never become another
  account's, and `CascadeLeavesNoSession` that there are none on the first
  connection.
* `pipeline_move` – an event whose `mv` fails is deleted, in neither `processed`
  nor `failed`.
* `traffic_stopped` – the router page stops probing after an error and asks the
  user to refresh it; choosing another interval starts a new effect, and nothing
  resets `probingStopped`, so the page probes and says that it has stopped.

Some properties name a case they do not hold in, where the code does something
that no document speaks of:

* `StoredClaimsNoMore` – the answer about a stored sample says that its router
  was reached (`api.go:223`), of a probe without URL or password too, which
  asked nobody and knew it (`tplink.go:67-85`).
* `UndisturbedSucceeds` – a router that refuses an ended session in words its
  mode does not take for an error (`Legible`) leaves the probe with an answer
  without clients; the session stays cached until it expires.
* `Delivered`, `FlagClears`, `FirstResult` – a command that hangs is waited for
  without end.
* `PasswordChangeEndsSessions` – a login that read the old password stores its
  session after the change (`stale`), or the deletion of the sessions fails.
* `PageAgrees`, `SavesOnlyTheTyped` – a page that an answer older than the
  newest save has filled, or that has not seen what another browser saved, shows
  and saves what it has; so does a form that keeps a text cleared elsewhere.
* `StatusWasReal` – when two things change while a summary is read, its status
  may be one the connection never had.
* `StopIsExplained` – the page's own load may land after the stop and show an
  older sample (`late`).

## 7. What is not modelled

* Averages of a summary. The upload rate, which is compared as the download rate
  is, and the settings that behave as one that is modelled.
* Pages that load once, or on a timer, and show the last answer: lists of
  measurements, the user page. The answer to a filter of the latency page may be
  overtaken by an older one; nothing else follows from it.
* The spinner over the settings form while it loads: the keyboard reaches the
  form anyway, so a blank form may be typed into and saved.
* Encryption, cookies and URLs of the router provider, beyond the session they
  establish; what a router does with a request is external.
* Documents of a router nested deeper than lists of objects: they only add
  orders of the walk. A client's byte counts and connection type, beyond their
  presence.
* The cut of a single text of the settings (255 bytes, 500 for the command). A
  cut can leave a blank at the end, which the next save trims: `NormalizeTwice`
  and `SavesOnlyTheTyped` speak of texts that need no cut.
* Migrations: one transaction at start, before any loop or handler runs.
* The end of a package's `start` in the middle: a helper whose PID is never
  written, and a second one beside it.
* HTTP routing, static files, configuration, package installation: no shared
  state of their own.
* Passwords' hashing, the numbers of measurements, event texts and file names
  beyond their order: data no property tells apart.
* A clock set back: the models' clocks only advance.
* The warning `checkLatency` emits for each failed target has no reader in
  `OutageMonitor`; in `EventPipeline` it is one of the events.

## 8. Running everything

```
tlc -workers 2 -config outage_monitor.cfg MCOutageMonitor.tla
tlapm OutageMonitorProofs.tla
```

and in the same way for each run of section 4. The longest takes about two
minutes, the proofs about ten minutes altogether.

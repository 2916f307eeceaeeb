---------------------------- MODULE OutageMonitor ----------------------------
(***************************************************************************)
(* The latency loop of internal/monitoring/service.go and the outage rows  *)
(* it keeps in SQLite.  A round reads the settings, dials every target in  *)
(* turn, stores a check per target and, after the last one, opens or       *)
(* closes the outage.  Each access to the network, the database or the     *)
(* outbox is a step of its own, so that a signal, a kill, a save of the    *)
(* settings or a change of the network can fall between any two of them.   *)
(*                                                                         *)
(* allFailed is always ~anySuccess when the round reaches updateOutage     *)
(* (checkLatency returns at once for an empty list), so the round keeps    *)
(* one flag, anySuccess.  The warning written for each failed target has   *)
(* no reader in this component and is left to the outbox's own module.     *)
(***************************************************************************)
EXTENDS Naturals, Sequences

CONSTANTS
    OutboxEnabled,  \* notifications are switched on (read once at the start)
    Targets,        \* the addresses a user may list, the router's included
    MaxThreshold,   \* largest "outage threshold" a user saves
    FailCap,        \* failCount and streak saturate here (bounds the model)
    MaxFlips,       \* changes of the network (bound)
    MaxSaves,       \* saves of the settings page (bound)
    MaxRestarts,    \* kills and exits that are followed by a start (bound)
    ReadErrors,     \* failed reads of the active outage (bound)
    WriteErrors     \* failed inserts, updates and event writes (bound)

ASSUME OutboxAssumption == OutboxEnabled \in BOOLEAN
ASSUME ThresholdAssumption == MaxThreshold \in Nat \ {0}
ASSUME CapAssumption == FailCap \in Nat /\ FailCap > MaxThreshold
ASSUME BudgetAssumption ==
    /\ MaxFlips \in Nat /\ MaxSaves \in Nat /\ MaxRestarts \in Nat
    /\ ReadErrors \in Nat /\ WriteErrors \in Nat

VARIABLES
    settings,   \* the saved document: enabled, targets, threshold
    outages,    \* rows of the outages table by id: "open" or "closed"
    latest,     \* newest row of latency_checks: "none", "ok" or "failed"
    proc,       \* the process: "up", "stopping" (context cancelled) or "down"
    pc,         \* where the latency loop stands in its round
    round,      \* the local variables of checkLatency and updateOutage
    failCount,  \* Service.failCount, in memory only
    reach,      \* targets that accept a connection now (the network)
    events,     \* outage events written to the outbox, in order
    streak,     \* history: uncut rounds in a row in which every dial failed
    budget      \* what is left of each bound

vars == <<settings, outages, latest, proc, pc, round, failCount, reach,
          events, streak, budget>>
store == <<settings, outages, latest>>

Settings == [enabled : BOOLEAN, targets : SUBSET Targets,
             threshold : 1..MaxThreshold]
Rounds == [todo : SUBSET Targets, threshold : 0..MaxThreshold,
           anySuccess : BOOLEAN, cut : BOOLEAN]
Stages == {"idle", "dial", "active", "count", "insert", "emitOpen",
           "close", "emitClose"}
Budgets == [flips : 0..MaxFlips, saves : 0..MaxSaves,
            restarts : 0..MaxRestarts, reads : 0..ReadErrors,
            writes : 0..WriteErrors]

NoRound == [todo |-> {}, threshold |-> 0, anySuccess |-> FALSE, cut |-> FALSE]

(* An unended row exists; the mutant looks only at the first row.          *)
HasOpenOldest == outages # <<>> /\ outages[1] = "open"
HasOpen == \E i \in DOMAIN outages : outages[i] = "open"
Capped(n) == IF n > FailCap THEN FailCap ELSE n

-----------------------------------------------------------------------------
(* Helpers of summary.go and service.go, each after its mutants.           *)

ShouldOpenOutageAgain(consecutiveFailures, threshold, active) ==
    threshold > 0 /\ consecutiveFailures >= threshold
ShouldOpenOutageExact(consecutiveFailures, threshold, active) ==
    ~active /\ threshold > 0 /\ consecutiveFailures = threshold
ShouldOpenOutage(consecutiveFailures, threshold, active) ==
    ~active /\ threshold > 0 /\ consecutiveFailures >= threshold

ShouldCloseOutageInverted(anySuccess, active) == active /\ ~anySuccess
ShouldCloseOutage(anySuccess, active) == active /\ anySuccess

FailCountDecays(anySuccess) ==
    IF anySuccess THEN failCount - 1 ELSE Capped(failCount + 1)
FailCountAfter(anySuccess) ==
    IF anySuccess THEN 0 ELSE Capped(failCount + 1)

(* An access fails when the loop's context is cancelled, or, while the     *)
(* process is up, because the disk or the database refuses it.             *)
Works == proc = "up" /\ UNCHANGED budget
Fails(kind) ==
    \/ proc = "stopping" /\ UNCHANGED budget
    \/ /\ proc = "up" /\ budget[kind] > 0
       /\ budget' = [budget EXCEPT ![kind] = @ - 1]

EndRound == pc' = "idle" /\ round' = NoRound

-----------------------------------------------------------------------------
(* The latency loop. *)

(* A tick: load the settings and, if there is anything to dial, start.     *)
(* A failed load, a paused monitor and an empty list leave the loop idle.  *)
StartRound ==
    /\ proc = "up" /\ pc = "idle"
    /\ settings.enabled /\ settings.targets # {}
    /\ pc' = "dial"
    /\ round' = [NoRound EXCEPT !.todo = settings.targets,
                                !.threshold = settings.threshold]
    /\ UNCHANGED <<store, proc, failCount, reach, events, streak, budget>>

StoreCheck(ok) ==
    \/ Works /\ latest' = (IF ok THEN "ok" ELSE "failed")
    \/ Fails("writes") /\ UNCHANGED latest

StreakAfter(r) ==
    IF r.anySuccess THEN 0 ELSE IF r.cut THEN streak ELSE Capped(streak + 1)

(* The dial of a cancelled context fails whatever the network does.        *)
TcpLatency(t) == proc = "up" /\ t \in reach

(* One target of the list, whose order is left open.                       *)
Dial(t) ==
    LET ok == TcpLatency(t)
        r  == [round EXCEPT !.todo = @ \ {t}, !.anySuccess = @ \/ ok,
                            !.cut = @ \/ proc = "stopping"]
    IN  /\ pc = "dial" /\ t \in round.todo
        /\ StoreCheck(ok)
        /\ round' = r
        /\ IF r.todo = {}
             THEN pc' = "active" /\ streak' = StreakAfter(r)
             ELSE UNCHANGED <<pc, streak>>
        /\ UNCHANGED <<settings, outages, proc, failCount, reach, events>>

(* updateOutage up to its two decisions.  ShouldCloseOutage comes last in  *)
(* the code, on the same values: with an active outage it is the only one  *)
(* that can hold, without one only ShouldOpenOutage can.                   *)
ReadActive ==
    LET count == FailCountAfter(round.anySuccess)
        open  == ShouldOpenOutage(count, round.threshold, HasOpen)
        close == ShouldCloseOutage(round.anySuccess, HasOpen)
    IN  /\ pc = "active" /\ Works
        /\ failCount' = count
        /\ pc' = IF open THEN "count" ELSE IF close THEN "close" ELSE "idle"
        /\ round' = IF open \/ close THEN round ELSE NoRound
        /\ UNCHANGED <<store, proc, reach, events, streak>>

(* The early return of updateOutage: the round is forgotten and failCount  *)
(* keeps the value the rounds before it left.                              *)
ReadActiveFails ==
    /\ pc = "active" /\ Fails("reads") /\ EndRound
    /\ UNCHANGED <<store, proc, failCount, reach, events, streak>>

(* OpenOutage: SELECT COUNT.  An outage that is already open is no error,  *)
(* so the event would be written all the same.                             *)
OpenCount ==
    /\ pc = "count" /\ Works
    /\ pc' = IF HasOpen THEN "emitOpen" ELSE "insert"
    /\ UNCHANGED <<store, proc, round, failCount, reach, events, streak>>

OpenInsert ==
    /\ pc = "insert" /\ Works
    /\ outages' = Append(outages, "open")
    /\ pc' = "emitOpen"
    /\ UNCHANGED <<settings, latest, proc, round, failCount, reach, events,
                   streak>>

CloseUpdate ==
    /\ pc = "close" /\ Works
    /\ outages' = [i \in DOMAIN outages |-> "closed"]
    /\ pc' = "emitClose"
    /\ UNCHANGED <<settings, latest, proc, round, failCount, reach, events,
                   streak>>

(* OpenOutage or CloseActiveOutage returned an error: no event, and the    *)
(* next round will decide again.                                           *)
UpdateFails ==
    /\ pc \in {"count", "insert", "close"} /\ Fails("writes") /\ EndRound
    /\ UNCHANGED <<store, proc, failCount, reach, events, streak>>

OutageEventCopied == [kind |-> "open", row |-> Len(outages)]
OutageEvent ==
    [kind |-> IF pc = "emitOpen" THEN "open" ELSE "close", row |-> Len(outages)]

(* With notifications switched off nothing is written, and nothing fails.  *)
Emit ==
    /\ pc \in {"emitOpen", "emitClose"} /\ EndRound
    /\ IF OutboxEnabled THEN Works /\ events' = Append(events, OutageEvent)
                        ELSE UNCHANGED <<events, budget>>
    /\ UNCHANGED <<store, proc, failCount, reach, streak>>

(* emit only logs a failed write. *)
EmitFails ==
    /\ OutboxEnabled
    /\ pc \in {"emitOpen", "emitClose"} /\ Fails("writes") /\ EndRound
    /\ UNCHANGED <<store, proc, failCount, reach, events, streak>>

LoopStep ==
    \/ StartRound \/ (\E t \in Targets : Dial(t))
    \/ ReadActive \/ ReadActiveFails
    \/ OpenCount \/ OpenInsert \/ CloseUpdate \/ UpdateFails
    \/ Emit \/ EmitFails

-----------------------------------------------------------------------------
(* The process, the user and the network. *)

(* SIGTERM, or ListenAndServe failing: the context of the loops is         *)
(* cancelled and main waits for the server, not for the loops.             *)
SigTerm ==
    /\ proc = "up" /\ proc' = "stopping"
    /\ UNCHANGED <<store, pc, round, failCount, reach, events, streak, budget>>

(* main returns, or the process is killed.  What is in memory is lost.     *)
Die ==
    /\ proc # "down" /\ proc' = "down"
    /\ failCount' = 0 /\ streak' = 0 /\ EndRound
    /\ UNCHANGED <<store, reach, events, budget>>

Restart ==
    /\ proc = "down" /\ budget.restarts > 0
    /\ proc' = "up"
    /\ budget' = [budget EXCEPT !.restarts = @ - 1]
    /\ UNCHANGED <<store, pc, round, failCount, reach, events, streak>>

SaveSettings ==
    /\ proc # "down" /\ budget.saves > 0
    /\ \E s \in Settings : s # settings /\ settings' = s
    /\ budget' = [budget EXCEPT !.saves = @ - 1]
    /\ UNCHANGED <<outages, latest, proc, pc, round, failCount, reach, events,
                   streak>>

Flip(t) ==
    /\ budget.flips > 0
    /\ reach' = IF t \in reach THEN reach \ {t} ELSE reach \cup {t}
    /\ budget' = [budget EXCEPT !.flips = @ - 1]
    /\ UNCHANGED <<store, proc, pc, round, failCount, events, streak>>

Environment ==
    \/ SigTerm \/ Die \/ Restart \/ SaveSettings
    \/ \E t \in Targets : Flip(t)

Init ==
    /\ settings \in Settings
    /\ outages = <<>> /\ latest = "none"
    /\ proc = "up" /\ pc = "idle" /\ round = NoRound
    /\ failCount = 0 /\ streak = 0
    /\ reach \in SUBSET Targets
    /\ events = <<>>
    /\ budget = [flips |-> MaxFlips, saves |-> MaxSaves,
                 restarts |-> MaxRestarts, reads |-> ReadErrors,
                 writes |-> WriteErrors]

Next == LoopStep \/ Environment

Spec == Init /\ [][Next]_vars

(* The loop's goroutine is scheduled and its timer fires while the process *)
(* lives; nothing is assumed of users, the network or the operator.        *)
FairSpec == Spec /\ WF_vars(LoopStep)

-----------------------------------------------------------------------------
(* Properties. *)

(* Every variable keeps its type; failCount stays under its cap.           *)
TypeOK ==
    /\ settings \in Settings
    /\ outages \in Seq({"open", "closed"})
    /\ latest \in {"none", "ok", "failed"}
    /\ proc \in {"up", "stopping", "down"}
    /\ pc \in Stages
    /\ round \in Rounds
    /\ failCount \in 0..FailCap
    /\ reach \in SUBSET Targets
    /\ events \in Seq([kind : {"open", "close"}, row : Nat])
    /\ streak \in 0..FailCap
    /\ budget \in Budgets

(* At most one outage is active, and it is the newest row, across crashes  *)
(* and restarts that forget failCount: ActiveOutage, OpenOutage's count    *)
(* and CloseActiveOutage's unrestricted UPDATE all rely on it.             *)
SingleActive ==
    \A i \in DOMAIN outages : outages[i] = "open" => i = Len(outages)

(* An outage is about to be opened only after as many rounds in a row as   *)
(* the threshold the round read asks for, each with every target dialled   *)
(* in a live context and refused.                                          *)
OpenOnlyAfterStreak ==
    pc \in {"count", "insert"} => streak >= round.threshold

(* The same, up to the first failed read of the active outage.             *)
StreakUnlessMisread == budget.reads = ReadErrors => OpenOnlyAfterStreak

(* The outbox never holds an outage event for a row the table lacks, two   *)
(* events of a kind for one row, events out of row order, or a recovery    *)
(* of an outage that is still open.                                        *)
EventsFollowRows ==
    /\ \A i \in DOMAIN events :
          /\ events[i].row \in DOMAIN outages
          /\ events[i].kind = "close" => outages[events[i].row] = "closed"
    /\ \A i, j \in DOMAIN events : i < j =>
          \/ events[i].row < events[j].row
          \/ /\ events[i].row = events[j].row
             /\ events[i].kind = "open" /\ events[j].kind = "close"

Undisturbed ==
    /\ proc = "up" /\ budget.restarts = MaxRestarts
    /\ budget.reads = ReadErrors /\ budget.writes = WriteErrors

Announced(kind, r) ==
    \E i \in DOMAIN events : events[i] = [kind |-> kind, row |-> r]

(* While nothing failed and the process was not stopped, every outage row  *)
(* was announced when it opened and again when it closed, or the loop is   *)
(* about to: no row goes silently missing from the notifications, where    *)
(* those are switched on.                                                  *)
NoSilentOutage ==
    OutboxEnabled /\ Undisturbed => \A r \in DOMAIN outages :
        /\ Announced("open", r) \/ (r = Len(outages) /\ pc = "emitOpen")
        /\ outages[r] = "closed" =>
              Announced("close", r) \/ (r = Len(outages) /\ pc = "emitClose")

(* While nothing failed, the dashboard does not show an active outage next *)
(* to a newest latency check that succeeded once the round is over.        *)
DashboardAgrees ==
    Undisturbed /\ pc = "idle" /\ HasOpen => latest # "ok"

(* The outage table implements the abstract outage history.                *)
Log == INSTANCE OutageLog WITH down <- HasOpen, total <- Len(outages)
RefinesLog == Log!Spec

Watching == proc = "up" /\ settings.enabled
Recoverable == Watching /\ settings.targets \cap reach # {}
Unreachable ==
    Watching /\ settings.targets # {} /\ settings.targets \cap reach = {}

(* When some configured target stays reachable, the outage is closed for   *)
(* good, whatever failed or was restarted before.                          *)
RecoveryCloses == <>[]Recoverable => <>[]~HasOpen

(* When every configured target stays unreachable, an outage is opened,    *)
(* even if the first attempt to store it failed.                           *)
FailureOpens == <>[]Unreachable => <>[]HasOpen
==============================================================================

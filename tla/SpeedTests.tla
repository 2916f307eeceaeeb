------------------------------ MODULE SpeedTests ------------------------------
(***************************************************************************)
(* Speed tests of internal/monitoring/service.go: the one-at-a-time flag,  *)
(* the goroutine of a test, the schedule loop that starts tests when the   *)
(* newest stored one is old enough, the HTTP request that starts one by    *)
(* hand, and the dashboard summary that reads the flag and then the rows.  *)
(*                                                                         *)
(* A test is a record of jobs, in the order TriggerSpeedTest accepted      *)
(* them; a row of speed_tests is the number of the job that stored it.     *)
(* Time is in schedule units.  The measurement itself is external: it ends *)
(* with some outcome, or hangs for ever in cmd.Run when a grandchild keeps *)
(* its output open, which the 10-minute timeout does not prevent.          *)
(***************************************************************************)
EXTENDS Naturals, Sequences

CONSTANTS
    OutboxEnabled,  \* notifications are switched on (read once at the start)
    Schedules,      \* values a user saves for "Run every"; 0 disables
    MaxTime,        \* the clock stops here (bound)
    MaxJobs,        \* tests accepted altogether (bound)
    MaxSaves,       \* saves of the settings page (bound)
    MaxRestarts,    \* starts of the process after the first (bound)
    MaxFaults,      \* database and outbox accesses that fail (bound)
    MaxSummaries,   \* summary requests (bound)
    Allowances      \* what of the last four bounds a behaviour may start with

ASSUME OutboxAssumption == OutboxEnabled \in BOOLEAN
ASSUME SchedulesAssumption == Schedules \subseteq Nat /\ Schedules # {}
ASSUME BoundsAssumption ==
    /\ MaxTime \in Nat /\ MaxJobs \in Nat /\ MaxSaves \in Nat
    /\ MaxRestarts \in Nat /\ MaxFaults \in Nat /\ MaxSummaries \in Nat

VARIABLES
    now,            \* the clock
    settings,       \* monitoring enabled, schedule
    proc,           \* "up", "stopping" (context cancelled) or "down"
    speedActive,    \* Service.speedActive
    jobs,           \* the accepted tests
    rows,           \* speed_tests, by id
    events,         \* tests whose event is in the outbox
    loop,           \* locals of the schedule loop
    page,           \* locals of a summary request
    budget          \* what is left of each bound

vars == <<now, settings, proc, speedActive, jobs, rows, events, loop, page,
          budget>>

Working == {"load", "run", "hung", "insert", "emit", "clear"}
Job == [by : {"user", "schedule"}, stage : Working \cup {"done", "lost"},
        ran : BOOLEAN, started : 0..MaxTime]
Settings == [enabled : BOOLEAN, schedule : Schedules]
Budgets == [saves : 0..MaxSaves, restarts : 0..MaxRestarts,
            faults : 0..MaxFaults, summaries : 0..MaxSummaries]
ASSUME AllowancesAssumption == Allowances \subseteq Budgets

Live == {j \in DOMAIN jobs : jobs[j].stage \in Working}
Stored(j) == \E i \in DOMAIN rows : rows[i] = j
Hung == \E j \in DOMAIN jobs : jobs[j].stage = "hung"

LoopIdle == [pc |-> "idle", schedule |-> 0, latest |-> 0]
PageIdle == [pc |-> "idle", running |-> FALSE, known |-> 0, latest |-> 0]

-----------------------------------------------------------------------------
(* Helpers, each after its mutants. *)

(* ORDER BY started_at DESC, id DESC LIMIT 1; 0 stands for no row.         *)
ComesFirst(i) ==
    \A k \in DOMAIN rows \ {i} :
        \/ jobs[rows[i]].started > jobs[rows[k]].started
        \/ jobs[rows[i]].started = jobs[rows[k]].started /\ i > k
LatestSpeedTest ==
    LET first == {i \in DOMAIN rows : ComesFirst(i)}
    IN  IF first = {} THEN 0 ELSE rows[CHOOSE i \in first : TRUE]

SpeedTestDueNever(latest, schedule) == schedule > 0 /\ latest # 0
SpeedTestDueAlways(latest, schedule) == schedule > 0
SpeedTestDue(latest, schedule) ==
    /\ schedule > 0
    /\ latest # 0 => jobs[latest].started + schedule <= now

(* A read on the cancelled context fails; any access may fail by a fault.  *)
Fault ==
    /\ budget.faults > 0
    /\ budget' = [budget EXCEPT !.faults = @ - 1]
NoFault == UNCHANGED budget
LoopReadFails == (proc = "stopping" /\ NoFault) \/ (proc = "up" /\ Fault)

(* The test-and-set of TriggerSpeedTest and the goroutine it starts.       *)
TriggerSpeedTestUnchecked(by) ==
    /\ Len(jobs) < MaxJobs
    /\ speedActive' = TRUE
    /\ jobs' = Append(jobs, [by |-> by, stage |-> "load", ran |-> FALSE,
                             started |-> 0])
TriggerSpeedTest(by) ==
    \/ speedActive /\ UNCHANGED <<speedActive, jobs>>
    \/ /\ ~speedActive /\ Len(jobs) < MaxJobs
       /\ speedActive' = TRUE
       /\ jobs' = Append(jobs, [by |-> by, stage |-> "load", ran |-> FALSE,
                                started |-> 0])

Move(j, stage) == jobs' = [jobs EXCEPT ![j].stage = stage]

-----------------------------------------------------------------------------
(* The goroutine of a test.  It uses context.Background, so it goes on     *)
(* while the process is stopping.                                          *)

(* Settings for the command, then speedtest.Run, which stamps StartedAt.   *)
JobLoad(j) ==
    /\ jobs[j].stage = "load"
    /\ jobs' = [jobs EXCEPT ![j].stage = "run", ![j].ran = TRUE,
                            ![j].started = now]
    /\ NoFault
    /\ UNCHANGED <<now, settings, proc, speedActive, rows, events, loop, page>>

JobLoadFailsGoesOn(j) ==
    /\ jobs[j].stage = "load" /\ Move(j, "insert") /\ Fault
    /\ UNCHANGED <<now, settings, proc, speedActive, rows, events, loop, page>>
(* Without settings the goroutine returns: no row and no event.            *)
JobLoadFails(j) ==
    /\ jobs[j].stage = "load" /\ Move(j, "clear") /\ Fault
    /\ UNCHANGED <<now, settings, proc, speedActive, rows, events, loop, page>>

JobRunEndsEarlyClear(j) ==
    /\ jobs[j].stage = "run" /\ Move(j, "insert")
    /\ speedActive' = FALSE
    /\ UNCHANGED <<now, settings, proc, rows, events, loop, page, budget>>
JobRunEnds(j) ==
    /\ jobs[j].stage = "run" /\ Move(j, "insert")
    /\ UNCHANGED <<now, settings, proc, speedActive, rows, events, loop, page,
                   budget>>

JobRunHangs(j) ==
    /\ jobs[j].stage = "run" /\ Move(j, "hung")
    /\ UNCHANGED <<now, settings, proc, speedActive, rows, events, loop, page,
                   budget>>

JobInsert(j) ==
    /\ jobs[j].stage = "insert" /\ Move(j, "emit")
    /\ rows' = Append(rows, j) /\ NoFault
    /\ UNCHANGED <<now, settings, proc, speedActive, events, loop, page>>

(* A failed insert is only logged; the event is still written.             *)
JobInsertGivesUp(j) ==
    /\ jobs[j].stage = "insert" /\ Move(j, "clear") /\ Fault
    /\ UNCHANGED <<now, settings, proc, speedActive, rows, events, loop, page>>
JobInsertFails(j) ==
    /\ jobs[j].stage = "insert" /\ Move(j, "emit") /\ Fault
    /\ UNCHANGED <<now, settings, proc, speedActive, rows, events, loop, page>>

(* With notifications switched off nothing is written.                     *)
JobEmit(j) ==
    /\ jobs[j].stage = "emit" /\ Move(j, "clear")
    /\ \/ /\ events' = IF OutboxEnabled THEN events \cup {j} ELSE events
          /\ NoFault
       \/ OutboxEnabled /\ Fault /\ UNCHANGED events
    /\ UNCHANGED <<now, settings, proc, speedActive, rows, loop, page>>

(* The deferred function.                                                  *)
JobClearForgets(j) ==
    /\ jobs[j].stage = "clear" /\ Move(j, "done")
    /\ UNCHANGED <<now, settings, proc, speedActive, rows, events, loop, page,
                   budget>>
JobClear(j) ==
    /\ jobs[j].stage = "clear" /\ Move(j, "done")
    /\ speedActive' = FALSE
    /\ UNCHANGED <<now, settings, proc, rows, events, loop, page, budget>>

JobStep(j) ==
    \/ JobLoad(j) \/ JobLoadFails(j) \/ JobRunEnds(j)
    \/ JobInsert(j) \/ JobInsertFails(j) \/ JobEmit(j) \/ JobClear(j)

-----------------------------------------------------------------------------
(* The schedule loop: settings, newest row, decision, one poll at a time.  *)

LoadSchedule ==
    /\ proc = "up" /\ loop.pc = "idle"
    /\ settings.enabled /\ settings.schedule > 0
    /\ loop' = [LoopIdle EXCEPT !.pc = "latest",
                                !.schedule = settings.schedule]
    /\ UNCHANGED <<now, settings, proc, speedActive, jobs, rows, events, page,
                   budget>>

LoadLatest ==
    /\ proc = "up" /\ loop.pc = "latest"
    /\ loop' = [loop EXCEPT !.pc = "check", !.latest = LatestSpeedTest]
    /\ UNCHANGED <<now, settings, proc, speedActive, jobs, rows, events, page,
                   budget>>

LoadLatestFails ==
    /\ loop.pc = "latest" /\ LoopReadFails
    /\ loop' = LoopIdle
    /\ UNCHANGED <<now, settings, proc, speedActive, jobs, rows, events, page>>

(* The newest row may have been read before a test that has ended since;   *)
(* TriggerSpeedTest ignores the context, cancelled or not.                 *)
Check ==
    /\ loop.pc = "check"
    /\ IF SpeedTestDue(loop.latest, loop.schedule)
         THEN TriggerSpeedTest("schedule")
         ELSE UNCHANGED <<speedActive, jobs>>
    /\ loop' = LoopIdle
    /\ UNCHANGED <<now, settings, proc, rows, events, page, budget>>

LoopStep == LoadSchedule \/ LoadLatest \/ LoadLatestFails \/ Check

-----------------------------------------------------------------------------
(* Requests.  server.Shutdown lets those in flight finish.                 *)

(* POST /api/speed-tests/run; a refused request (409) changes nothing.     *)
RunSpeedTest ==
    /\ proc # "down" /\ ~speedActive /\ TriggerSpeedTest("user")
    /\ UNCHANGED <<now, settings, proc, rows, events, loop, page, budget>>

SaveSettings ==
    /\ proc # "down" /\ budget.saves > 0
    /\ \E s \in Settings : s # settings /\ settings' = s
    /\ budget' = [budget EXCEPT !.saves = @ - 1]
    /\ UNCHANGED <<now, proc, speedActive, jobs, rows, events, loop, page>>

(* GET /api/summary: SpeedRunning first, then the rows.  page.known counts *)
(* the tests accepted before the flag was read.                            *)
SummaryFlag ==
    /\ proc # "down" /\ page.pc = "idle" /\ budget.summaries > 0
    /\ page' = [PageIdle EXCEPT !.pc = "latest", !.running = speedActive,
                                !.known = Len(jobs)]
    /\ budget' = [budget EXCEPT !.summaries = @ - 1]
    /\ UNCHANGED <<now, settings, proc, speedActive, jobs, rows, events, loop>>

SummaryLatest ==
    /\ proc # "down" /\ page.pc = "latest"
    /\ page' = [page EXCEPT !.pc = "shown", !.latest = LatestSpeedTest]
    /\ UNCHANGED <<now, settings, proc, speedActive, jobs, rows, events, loop,
                   budget>>

SummaryShown ==
    /\ page.pc = "shown" /\ page' = PageIdle
    /\ UNCHANGED <<now, settings, proc, speedActive, jobs, rows, events, loop,
                   budget>>

-----------------------------------------------------------------------------
(* The process and the clock. *)

Tick ==
    /\ now < MaxTime /\ now' = now + 1
    /\ UNCHANGED <<settings, proc, speedActive, jobs, rows, events, loop, page,
                   budget>>

SigTerm ==
    /\ proc = "up" /\ proc' = "stopping"
    /\ UNCHANGED <<now, settings, speedActive, jobs, rows, events, loop, page,
                   budget>>

(* main does not wait for the goroutines: a running test is lost.          *)
Die ==
    /\ proc # "down" /\ proc' = "down"
    /\ speedActive' = FALSE
    /\ jobs' = [j \in DOMAIN jobs |->
                  IF j \in Live THEN [jobs[j] EXCEPT !.stage = "lost"]
                                ELSE jobs[j]]
    /\ loop' = LoopIdle /\ page' = PageIdle
    /\ UNCHANGED <<now, settings, rows, events, budget>>

Restart ==
    /\ proc = "down" /\ budget.restarts > 0 /\ proc' = "up"
    /\ budget' = [budget EXCEPT !.restarts = @ - 1]
    /\ UNCHANGED <<now, settings, speedActive, jobs, rows, events, loop, page>>

Init ==
    /\ now = 0 /\ settings \in Settings /\ proc = "up"
    /\ speedActive = FALSE /\ jobs = <<>> /\ rows = <<>> /\ events = {}
    /\ loop = LoopIdle /\ page = PageIdle
    /\ budget \in Allowances

Next ==
    \/ LoopStep
    \/ \E j \in DOMAIN jobs : JobStep(j) \/ JobRunHangs(j)
    \/ RunSpeedTest \/ SaveSettings
    \/ SummaryFlag \/ SummaryLatest \/ SummaryShown
    \/ Tick \/ SigTerm \/ Die \/ Restart

Spec == Init /\ [][Next]_vars

(* The loop's and the tests' goroutines are scheduled; a measurement that  *)
(* does not hang ends.  Users, the clock and the operator are free.        *)
FairSpec ==
    /\ Spec /\ WF_vars(LoopStep)
    /\ \A j \in 1..MaxJobs : WF_vars(j \in DOMAIN jobs /\ JobStep(j))

-----------------------------------------------------------------------------
(* Properties. *)

(* Every variable keeps its type; rows and events are only of tests that   *)
(* got as far as the measurement.                                          *)
Ran == {j \in DOMAIN jobs : jobs[j].ran}
TypeOK ==
    /\ now \in 0..MaxTime /\ settings \in Settings
    /\ proc \in {"up", "stopping", "down"} /\ speedActive \in BOOLEAN
    /\ jobs \in Seq(Job) /\ Len(jobs) <= MaxJobs
    /\ rows \in Seq(Ran) /\ events \subseteq Ran
    /\ loop \in [pc : {"idle", "latest", "check"},
                 schedule : Schedules \cup {0}, latest : 0..MaxJobs]
    /\ page \in [pc : {"idle", "latest", "shown"}, running : BOOLEAN,
                 known : 0..MaxJobs, latest : 0..MaxJobs]
    /\ budget \in Budgets

(* speedActive is set exactly while one accepted test is under way, and    *)
(* never two: a failed settings load, a failed insert, a restart or a race *)
(* of a click with the schedule neither starts a second one nor leaves the *)
(* flag behind.                                                            *)
FlagMatchesJob ==
    /\ \A i, j \in Live : i = j
    /\ speedActive <=> Live # {}

(* A summary that says no test is running shows a result at least as new   *)
(* as that of every test accepted before it looked, if it was stored.      *)
SummaryNotStale ==
    page.pc = "shown" /\ ~page.running =>
        \A j \in 1..page.known : Stored(j) =>
            page.latest # 0 /\ jobs[page.latest].started >= jobs[j].started

(* A single failed access does not lose a finished measurement: it is in   *)
(* the table or in the notifications, where those are switched on, except  *)
(* when the process died.                                                  *)
OneFaultLosesNoResult ==
    OutboxEnabled => \A j \in DOMAIN jobs :
        jobs[j].stage = "done" /\ jobs[j].ran
        /\ budget.faults + 1 >= MaxFaults =>
            Stored(j) \/ j \in events

(* The schedule never runs away: after a stored test, whoever started it,  *)
(* at most one scheduled test starts before a full period has passed,      *)
(* whatever races with the loop and whoever starts tests by hand.          *)
NoBurst ==
    \A i, k, j \in DOMAIN jobs :
        /\ i < k /\ k < j /\ jobs[j].ran /\ Stored(i)
        /\ jobs[k].by = "schedule" /\ jobs[j].by = "schedule"
        => \E s \in Schedules \ {0} : jobs[j].started >= jobs[i].started + s

(* The flag of a test that does not hang is cleared again.                 *)
FlagClears == speedActive ~> ~speedActive \/ Hung

(* While monitoring and the schedule stay on in a process that stays up, a *)
(* first result is stored, unless a measurement hangs for ever.            *)
Scheduling == proc = "up" /\ settings.enabled /\ settings.schedule > 0
FirstResult == <>[]Scheduling => <>(rows # <<>> \/ Hung)
===============================================================================

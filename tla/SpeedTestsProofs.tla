--------------------------- MODULE SpeedTestsProofs ---------------------------
(* Proofs about SpeedTests, for every value of its constants.              *)
EXTENDS SpeedTests, TLAPS

(* The stage of a test says whether it has got to its measurement.         *)
Phases ==
    \A j \in DOMAIN jobs :
        /\ jobs[j].stage = "load" => ~jobs[j].ran
        /\ jobs[j].stage \in {"run", "hung", "insert", "emit"} => jobs[j].ran
Typed == TypeOK /\ Phases

Stages == Working \cup {"done", "lost"}
AfterLoad == {"run", "hung", "insert", "emit"}

-----------------------------------------------------------------------------
(* Sequences and helpers.                                                  *)

LEMMA MapIsSeq ==
    ASSUME NEW S, NEW s \in Seq(S), NEW T, NEW t \in [DOMAIN s -> T]
    PROVE  t \in Seq(T) /\ Len(t) = Len(s)
<1>1. Len(s) \in Nat /\ DOMAIN s = 1..Len(s)
  OBVIOUS
<1>2. t \in Seq(T)
  BY <1>1
<1> QED BY <1>1, <1>2

LEMMA SeqGrows ==
    ASSUME NEW S, NEW T, S \subseteq T, NEW s \in Seq(S)
    PROVE  s \in Seq(T)
  OBVIOUS

(* A test that moves from a stage to a later one keeps what it has.        *)
LEMMA MoveKeeps ==
    ASSUME Typed, NEW j \in DOMAIN jobs, NEW stage \in Stages \ {"load"},
           stage \in AfterLoad => jobs[j].ran, Move(j, stage)
    PROVE  /\ jobs' \in Seq(Job) /\ Len(jobs') = Len(jobs)
           /\ DOMAIN jobs' = DOMAIN jobs
           /\ Phases' /\ Ran' = Ran
           /\ jobs'[j] = [jobs[j] EXCEPT !.stage = stage]
           /\ \A k \in DOMAIN jobs \ {j} : jobs'[k] = jobs[k]
<1> USE DEF Typed, TypeOK
<1>1. DOMAIN jobs' = DOMAIN jobs /\ jobs'[j] = [jobs[j] EXCEPT !.stage = stage]
  BY DEF Move
<1>2. \A k \in DOMAIN jobs \ {j} : jobs'[k] = jobs[k]
  BY DEF Move
<1>3. \A k \in DOMAIN jobs : jobs[k] \in Job
  OBVIOUS
<1>4. jobs'[j] \in Job
  BY <1>1, <1>3 DEF Job, Stages
<1>5. jobs' \in [DOMAIN jobs -> Job]
  BY <1>1, <1>2, <1>3, <1>4 DEF Move
<1>6. jobs' \in Seq(Job) /\ Len(jobs') = Len(jobs)
  BY <1>5, MapIsSeq
<1>7. jobs'[j].stage = stage /\ jobs'[j].ran = jobs[j].ran
  BY <1>1, <1>3 DEF Job
<1>8. Phases' /\ Ran' = Ran
  BY <1>1, <1>2, <1>7 DEF Phases, Ran, AfterLoad
<1> QED BY <1>1, <1>2, <1>6, <1>8

(* An accepted test is appended and changes no other.                      *)
LEMMA TriggerKeeps ==
    ASSUME Typed, NEW by \in {"user", "schedule"}, TriggerSpeedTest(by)
    PROVE  /\ jobs' \in Seq(Job) /\ Len(jobs') <= MaxJobs
           /\ speedActive' \in BOOLEAN
           /\ Phases' /\ Ran \subseteq Ran'
           /\ DOMAIN jobs \subseteq DOMAIN jobs'
           /\ \A k \in DOMAIN jobs : jobs'[k] = jobs[k]
<1> USE DEF Typed, TypeOK
<1>1. CASE speedActive /\ UNCHANGED <<speedActive, jobs>>
  BY <1>1 DEF Phases, Ran
<1>2. CASE ~speedActive
  <2> DEFINE new == [by |-> by, stage |-> "load", ran |-> FALSE, started |-> 0]
  <2>1. jobs' = Append(jobs, new) /\ speedActive' /\ Len(jobs) < MaxJobs
    BY <1>2 DEF TriggerSpeedTest
  <2>2. new \in Job
    BY BoundsAssumption DEF Job, Working
  <2>3. jobs' \in Seq(Job) /\ Len(jobs') = Len(jobs) + 1
    BY <2>1, <2>2
  <2>4. /\ \A k \in DOMAIN jobs : k \in DOMAIN jobs' /\ jobs'[k] = jobs[k]
        /\ DOMAIN jobs' = DOMAIN jobs \cup {Len(jobs) + 1}
        /\ jobs'[Len(jobs) + 1] = new
    BY <2>1, <2>2, <2>3
  <2>5. Phases' /\ Ran \subseteq Ran'
    BY <2>4 DEF Phases, Ran
  <2>6. Len(jobs') <= MaxJobs
    BY <2>1, <2>3, BoundsAssumption
  <2> QED BY <2>1, <2>3, <2>4, <2>5, <2>6, <1>2 DEF TriggerSpeedTest
<1> QED BY <1>1, <1>2 DEF TriggerSpeedTest

(* The newest row, if any, is of a test that was measured.                 *)
LEMMA LatestType ==
    ASSUME Typed
    PROVE  LatestSpeedTest \in Ran \cup {0}
<1> DEFINE first == {i \in DOMAIN rows : ComesFirst(i)}
<1>1. rows \in Seq(Ran)
  BY DEF Typed, TypeOK
<1>2. CASE first = {}
  BY <1>2 DEF LatestSpeedTest
<1>3. CASE first # {}
  <2>1. (CHOOSE i \in first : TRUE) \in DOMAIN rows
    BY <1>3
  <2> QED BY <1>1, <1>3, <2>1 DEF LatestSpeedTest
<1> QED BY <1>2, <1>3

(* Spending from one bound keeps the budget well formed.                   *)
LEMMA SpendType ==
    ASSUME budget \in Budgets,
           NEW kind \in {"saves", "restarts", "faults", "summaries"},
           budget[kind] > 0
    PROVE  [budget EXCEPT ![kind] = @ - 1] \in Budgets
  BY BoundsAssumption DEF Budgets

LEMMA FaultType ==
    ASSUME budget \in Budgets, Fault
    PROVE  budget' \in Budgets
  BY SpendType DEF Fault

-----------------------------------------------------------------------------
(* Type correctness.                                                       *)

LEMMA TypedStep ==
    ASSUME Typed, [Next]_vars
    PROVE  Typed'
<1> USE DEF Typed, TypeOK
<1> USE BoundsAssumption
<1>1. Ran \subseteq DOMAIN jobs /\ DOMAIN jobs \subseteq 0..MaxJobs
  BY DEF Ran
<1>2. ASSUME NEW j \in DOMAIN jobs, JobStep(j) \/ JobRunHangs(j) PROVE Typed'
  <2>1. jobs[j] \in Job
    OBVIOUS
  <2>2. CASE JobLoad(j)
    <3>1. DOMAIN jobs' = DOMAIN jobs
      BY <2>2 DEF JobLoad
    <3>2. jobs'[j] = [jobs[j] EXCEPT !.stage = "run", !.ran = TRUE,
                                     !.started = now]
      BY <2>2 DEF JobLoad
    <3>3. \A k \in DOMAIN jobs \ {j} : jobs'[k] = jobs[k]
      BY <2>2 DEF JobLoad
    <3>4. jobs'[j] \in Job /\ jobs'[j].stage = "run" /\ jobs'[j].ran
      BY <2>1, <3>2 DEF Job, Working
    <3>5. jobs' \in [DOMAIN jobs -> Job]
      BY <2>2, <3>3, <3>4 DEF JobLoad
    <3>6. jobs' \in Seq(Job) /\ Len(jobs') = Len(jobs)
      BY <3>5, MapIsSeq
    <3>7. Phases' /\ Ran \subseteq Ran'
      BY <3>1, <3>3, <3>4 DEF Phases, Ran
    <3>8. rows \in Seq(Ran') /\ events \subseteq Ran'
      BY <3>7, SeqGrows
    <3> QED BY <2>2, <3>6, <3>7, <3>8 DEF JobLoad, NoFault
  <2>3. CASE JobLoadFails(j)
    BY <2>3, MoveKeeps, FaultType DEF JobLoadFails, Stages, Working, AfterLoad
  <2>4. CASE JobRunEnds(j) \/ JobRunHangs(j)
    <3>1. jobs[j].ran
      BY <2>4 DEF JobRunEnds, JobRunHangs, Phases
    <3> QED
      BY <2>4, <3>1, MoveKeeps DEF JobRunEnds, JobRunHangs, Stages, Working
  <2>5. CASE JobInsert(j) \/ JobInsertFails(j)
    <3>1. jobs[j].ran /\ j \in Ran
      BY <2>5 DEF JobInsert, JobInsertFails, Phases, Ran
    <3>2. Move(j, "emit")
      BY <2>5 DEF JobInsert, JobInsertFails
    <3>3. rows' \in Seq(Ran)
      BY <2>5, <3>1 DEF JobInsert, JobInsertFails
    <3>4. budget' \in Budgets
      BY <2>5, FaultType DEF JobInsert, JobInsertFails, NoFault
    <3> QED
      BY <2>5, <3>1, <3>2, <3>3, <3>4, MoveKeeps
      DEF JobInsert, JobInsertFails, Stages, Working
  <2>6. CASE JobEmit(j)
    <3>1. j \in Ran
      BY <2>6 DEF JobEmit, Phases, Ran
    <3>2. events' \subseteq Ran /\ budget' \in Budgets
      BY <2>6, <3>1, FaultType DEF JobEmit, NoFault
    <3> QED
      BY <2>6, <3>2, MoveKeeps DEF JobEmit, Stages, Working, AfterLoad
  <2>7. CASE JobClear(j)
    BY <2>7, MoveKeeps DEF JobClear, Stages, Working, AfterLoad
  <2> QED BY <1>2, <2>2, <2>3, <2>4, <2>5, <2>6, <2>7 DEF JobStep
<1>3. CASE LoadSchedule
  <2>1. settings.schedule \in Schedules
    BY DEF Settings
  <2>2. loop' = [pc |-> "latest", schedule |-> settings.schedule, latest |-> 0]
    BY <1>3 DEF LoadSchedule, LoopIdle
  <2>3. loop' \in [pc : {"idle", "latest", "check"},
                   schedule : Schedules \cup {0}, latest : 0..MaxJobs]
    BY <2>1, <2>2
  <2> QED BY <1>3, <2>3 DEF LoadSchedule, Phases, Ran
<1>4. CASE LoadLatest
  <2>1. LatestSpeedTest \in 0..MaxJobs
    BY <1>1, LatestType
  <2> QED BY <1>4, <2>1 DEF LoadLatest, Phases, Ran
<1>5. CASE LoadLatestFails
  BY <1>5, FaultType
  DEF LoadLatestFails, LoopReadFails, NoFault, LoopIdle, Phases, Ran
<1>6. CASE Check
  <2>1. LoopIdle \in [pc : {"idle", "latest", "check"},
                      schedule : Schedules \cup {0}, latest : 0..MaxJobs]
    BY DEF LoopIdle
  <2>2. CASE UNCHANGED <<speedActive, jobs>>
    BY <1>6, <2>1, <2>2 DEF Check, Phases, Ran
  <2>3. CASE TriggerSpeedTest("schedule")
    <3>1. rows \in Seq(Ran') /\ events \subseteq Ran'
      BY <2>3, TriggerKeeps, SeqGrows
    <3> QED BY <1>6, <2>1, <2>3, <3>1, TriggerKeeps DEF Check
  <2> QED BY <1>6, <2>2, <2>3 DEF Check
<1>7. CASE RunSpeedTest
  <2>1. TriggerSpeedTest("user")
    BY <1>7 DEF RunSpeedTest
  <2>2. rows \in Seq(Ran') /\ events \subseteq Ran'
    BY <2>1, TriggerKeeps, SeqGrows
  <2> QED BY <1>7, <2>1, <2>2, TriggerKeeps DEF RunSpeedTest
<1>8. CASE SaveSettings
  BY <1>8, SpendType DEF SaveSettings, Phases, Ran
<1>9. CASE SummaryFlag
  <2>1. page' = [pc |-> "latest", running |-> speedActive,
                 known |-> Len(jobs), latest |-> 0]
    BY <1>9 DEF SummaryFlag, PageIdle
  <2>2. Len(jobs) \in 0..MaxJobs
    OBVIOUS
  <2>3. page' \in [pc : {"idle", "latest", "shown"}, running : BOOLEAN,
                   known : 0..MaxJobs, latest : 0..MaxJobs]
    BY <2>1, <2>2
  <2>4. budget' \in Budgets
    BY <1>9, SpendType DEF SummaryFlag
  <2> QED BY <1>9, <2>3, <2>4 DEF SummaryFlag, Phases, Ran
<1>10. CASE SummaryLatest
  <2>1. LatestSpeedTest \in 0..MaxJobs
    BY <1>1, LatestType
  <2> QED BY <1>10, <2>1 DEF SummaryLatest, Phases, Ran
<1>11. CASE SummaryShown
  <2>1. PageIdle \in [pc : {"idle", "latest", "shown"}, running : BOOLEAN,
                      known : 0..MaxJobs, latest : 0..MaxJobs]
    BY DEF PageIdle
  <2> QED BY <1>11, <2>1 DEF SummaryShown, Phases, Ran
<1>12. CASE Tick \/ SigTerm
  <2>1. now' \in 0..MaxTime /\ proc' \in {"up", "stopping", "down"}
    BY <1>12 DEF Tick, SigTerm
  <2>2. UNCHANGED <<settings, speedActive, jobs, rows, events, loop, page, budget>>
    BY <1>12 DEF Tick, SigTerm
  <2> QED BY <2>1, <2>2 DEF Phases, Ran
<1>13. CASE Die
  <2>1. ASSUME NEW k \in DOMAIN jobs
        PROVE  /\ jobs'[k] \in Job /\ jobs'[k].ran = jobs[k].ran
               /\ jobs'[k].stage \in {jobs[k].stage, "lost"}
    <3>1. jobs[k] \in Job
      OBVIOUS
    <3>2. jobs'[k] = jobs[k] \/ jobs'[k] = [jobs[k] EXCEPT !.stage = "lost"]
      BY <1>13 DEF Die
    <3>3. [jobs[k] EXCEPT !.stage = "lost"] \in Job
      BY <3>1 DEF Job
    <3> QED BY <3>1, <3>2, <3>3 DEF Job
  <2>2. jobs' \in [DOMAIN jobs -> Job]
    BY <1>13, <2>1 DEF Die
  <2>3. jobs' \in Seq(Job) /\ Len(jobs') = Len(jobs)
    BY <2>2, MapIsSeq
  <2>4. Phases' /\ Ran' = Ran
    BY <2>1, <2>2 DEF Phases, Ran
  <2>5. /\ LoopIdle \in [pc : {"idle", "latest", "check"},
                         schedule : Schedules \cup {0}, latest : 0..MaxJobs]
        /\ PageIdle \in [pc : {"idle", "latest", "shown"}, running : BOOLEAN,
                         known : 0..MaxJobs, latest : 0..MaxJobs]
    BY DEF LoopIdle, PageIdle
  <2> QED BY <1>13, <2>3, <2>4, <2>5 DEF Die
<1>14. CASE Restart
  BY <1>14, SpendType DEF Restart, Phases, Ran
<1>15. CASE UNCHANGED vars
  BY <1>15 DEF vars, Phases, Ran
<1> QED
  BY <1>2, <1>3, <1>4, <1>5, <1>6, <1>7, <1>8, <1>9, <1>10, <1>11, <1>12,
     <1>13, <1>14, <1>15 DEF Next, LoopStep

(* Every variable keeps its type, and rows and notifications are only of   *)
(* tests that ran the speed test command.                                  *)
THEOREM TypedInvariant == Spec => []Typed
<1>1. ASSUME Init PROVE Typed
  <2> USE <1>1, BoundsAssumption, AllowancesAssumption DEF Init
  <2>1. budget \in Budgets
    BY DEF Budgets
  <2>2. jobs \in Seq(Job) /\ Len(jobs) <= MaxJobs /\ rows \in Seq(Ran)
    OBVIOUS
  <2>3. /\ loop \in [pc : {"idle", "latest", "check"},
                     schedule : Schedules \cup {0}, latest : 0..MaxJobs]
        /\ page \in [pc : {"idle", "latest", "shown"}, running : BOOLEAN,
                     known : 0..MaxJobs, latest : 0..MaxJobs]
    BY DEF LoopIdle, PageIdle
  <2>4. Phases /\ events \subseteq Ran
    BY DEF Phases
  <2>5. /\ now \in 0..MaxTime /\ settings \in Settings
        /\ proc \in {"up", "stopping", "down"}
    OBVIOUS
  <2>6. speedActive \in BOOLEAN
    OBVIOUS
  <2> HIDE <1>1
  <2> QED BY <2>1, <2>2, <2>3, <2>4, <2>5, <2>6 DEF Typed, TypeOK
<1>2. Typed /\ [Next]_vars => Typed'
  BY TypedStep
<1> QED BY <1>1, <1>2, PTL DEF Spec

(* Every variable of the speed tests keeps its type.                       *)
THEOREM TypeCorrect == Spec => []TypeOK
  BY TypedInvariant, PTL DEF Typed

-----------------------------------------------------------------------------
(* One test at a time.                                                     *)

(* A test under way is also the last one accepted.                         *)
Serial == FlagMatchesJob /\ \A j \in Live : j = Len(jobs)

LEMMA MoveLive ==
    ASSUME Typed, NEW j \in DOMAIN jobs, NEW stage \in Stages, Move(j, stage)
    PROVE  Live' = IF stage \in Working THEN Live \cup {j} ELSE Live \ {j}
<1>1. DOMAIN jobs' = DOMAIN jobs /\ \A k \in DOMAIN jobs \ {j} : jobs'[k] = jobs[k]
  BY DEF Move
<1>2. jobs'[j].stage = stage
  <2>1. jobs[j] \in Job
    BY DEF Typed, TypeOK
  <2> QED BY <2>1 DEF Move, Job
<1> QED BY <1>1, <1>2 DEF Live

(* A test moves on without ending.                                         *)
LEMMA SerialMove ==
    ASSUME Typed, Serial, NEW j \in Live, NEW stage \in Working,
           Move(j, stage), UNCHANGED speedActive
    PROVE  Serial'
<1>1. j \in DOMAIN jobs /\ stage \in Stages
  BY DEF Live, Stages
<1>2. Live' = Live
  BY <1>1, MoveLive
<1>3. Len(jobs') = Len(jobs)
  BY <1>1 DEF Move, Typed, TypeOK
<1> QED BY <1>2, <1>3 DEF Serial, FlagMatchesJob

LEMMA SerialTrigger ==
    ASSUME Typed, Serial, NEW by \in {"user", "schedule"}, TriggerSpeedTest(by)
    PROVE  Serial'
<1>1. CASE speedActive /\ UNCHANGED <<speedActive, jobs>>
  BY <1>1 DEF Serial, FlagMatchesJob, Live
<1>2. CASE ~speedActive
  <2> DEFINE new == [by |-> by, stage |-> "load", ran |-> FALSE, started |-> 0]
  <2>1. jobs' = Append(jobs, new) /\ speedActive'
    BY <1>2 DEF TriggerSpeedTest
  <2>2. new \in Job
    BY BoundsAssumption DEF Job, Working
  <2>3. /\ \A k \in DOMAIN jobs : jobs'[k] = jobs[k]
        /\ DOMAIN jobs' = DOMAIN jobs \cup {Len(jobs) + 1}
        /\ Len(jobs') = Len(jobs) + 1
        /\ jobs'[Len(jobs) + 1] = new
    BY <2>1, <2>2 DEF Typed, TypeOK
  <2>4. Live = {}
    BY <1>2 DEF Serial, FlagMatchesJob
  <2>5. Live' = {Len(jobs) + 1}
    BY <2>3, <2>4 DEF Live, Working
  <2> QED BY <2>1, <2>3, <2>5 DEF Serial, FlagMatchesJob
<1> QED BY <1>1, <1>2 DEF TriggerSpeedTest

LEMMA SerialStep ==
    ASSUME Typed, Serial, [Next]_vars
    PROVE  Serial'
<1> DEFINE Same == UNCHANGED <<speedActive, jobs>>
<1>1. CASE Same
  BY <1>1 DEF Serial, FlagMatchesJob, Live
<1>2. ASSUME NEW j \in DOMAIN jobs, JobStep(j) \/ JobRunHangs(j)
      PROVE  Serial'
  <2>1. CASE JobLoad(j)
    <3>1. /\ DOMAIN jobs' = DOMAIN jobs /\ Len(jobs') = Len(jobs)
          /\ \A k \in DOMAIN jobs \ {j} : jobs'[k] = jobs[k]
      BY <2>1 DEF JobLoad, Typed, TypeOK
    <3>2. jobs'[j].stage = "run" /\ jobs[j].stage = "load"
      <4>1. jobs[j] \in Job
        BY DEF Typed, TypeOK
      <4> QED BY <2>1, <4>1 DEF JobLoad, Job
    <3>3. Live' = Live
      BY <3>1, <3>2 DEF Live, Working
    <3> QED BY <2>1, <3>1, <3>3 DEF JobLoad, Serial, FlagMatchesJob
  <2>2. CASE JobClear(j)
    <3>1. j \in Live /\ Live = {j} /\ ~speedActive'
      BY <2>2 DEF JobClear, Live, Working, Serial, FlagMatchesJob
    <3>2. Live' = Live \ {j}
      BY <2>2, MoveLive DEF JobClear, Working, Stages
    <3> QED BY <3>1, <3>2 DEF Serial, FlagMatchesJob
  <2>3. CASE ~JobLoad(j) /\ ~JobClear(j)
    <3>1. /\ j \in Live /\ UNCHANGED speedActive
          /\ \E stage \in Working : Move(j, stage)
      BY <1>2, <2>3
      DEF JobStep, JobRunHangs, JobLoadFails, JobRunEnds, JobInsert,
          JobInsertFails, JobEmit, Live, Working
    <3> QED BY <3>1, SerialMove
  <2> QED BY <2>1, <2>2, <2>3
<1>3. CASE LoopStep
  <2>1. Same \/ TriggerSpeedTest("schedule")
    BY <1>3 DEF LoopStep, LoadSchedule, LoadLatest, LoadLatestFails, Check
  <2> QED BY <1>1, <2>1, SerialTrigger
<1>4. CASE RunSpeedTest
  BY <1>4, SerialTrigger DEF RunSpeedTest
<1>5. CASE Die
  <2>1. DOMAIN jobs' = DOMAIN jobs /\ ~speedActive'
    BY <1>5 DEF Die
  <2>2. \A k \in DOMAIN jobs : jobs'[k].stage \notin Working
    <3> SUFFICES ASSUME NEW k \in DOMAIN jobs
                 PROVE  jobs'[k].stage \notin Working
      OBVIOUS
    <3>1. jobs[k] \in Job
      BY DEF Typed, TypeOK
    <3>2. CASE k \in Live
      BY <1>5, <3>1, <3>2 DEF Die, Job, Working
    <3>3. CASE k \notin Live
      BY <1>5, <3>3 DEF Die, Live
    <3> QED BY <3>2, <3>3
  <2>3. Live' = {}
    BY <2>1, <2>2 DEF Live
  <2> QED BY <2>1, <2>3 DEF Serial, FlagMatchesJob
<1>6. CASE \/ SaveSettings \/ SummaryFlag \/ SummaryLatest \/ SummaryShown
           \/ Tick \/ SigTerm \/ Restart \/ UNCHANGED vars
  BY <1>1, <1>6
  DEF SaveSettings, SummaryFlag, SummaryLatest, SummaryShown, Tick, SigTerm,
      Restart, vars
<1> QED BY <1>2, <1>3, <1>4, <1>5, <1>6 DEF Next

(* One test at a time, and a test under way is the last one accepted.      *)
THEOREM SerialInvariant == Spec => [](Typed /\ Serial)
<1>1. Init => Serial
  BY DEF Init, Serial, FlagMatchesJob, Live
<1>2. Typed /\ Serial /\ [Next]_vars => Serial'
  BY SerialStep
<1> QED BY <1>1, <1>2, TypedInvariant, PTL DEF Spec

(* speedActive is set exactly while one accepted test is under way: no     *)
(* second test starts, and no failure or restart leaves the flag behind.   *)
THEOREM FlagMatchesJobCorrect == Spec => []FlagMatchesJob
  BY SerialInvariant, PTL DEF Serial

-----------------------------------------------------------------------------
(* What any step does to the tests and to the rows.                        *)

Unstored == {"load", "run", "hung", "insert"}

TestsAdvance ==
    /\ DOMAIN jobs \subseteq DOMAIN jobs' /\ now <= now'
    /\ \A k \in DOMAIN jobs :
          /\ jobs'[k].by = jobs[k].by
          /\ jobs[k].ran => jobs'[k].ran /\ jobs'[k].started = jobs[k].started
          /\ ~jobs[k].ran /\ jobs'[k].ran =>
                jobs[k].stage = "load" /\ jobs'[k].started = now
          /\ jobs[k].stage \notin Unstored => jobs'[k].stage \notin Unstored
          /\ jobs'[k].stage = "load" => jobs[k].stage = "load"
    /\ \A k \in DOMAIN jobs' \ DOMAIN jobs :
          k = Len(jobs) + 1 /\ Live = {} /\ ~jobs'[k].ran
    /\ Live' \cap DOMAIN jobs \subseteq Live

RowsGrow ==
    \/ rows' = rows
    \/ \E j \in Live : /\ jobs[j].stage = "insert" /\ jobs'[j].stage = "emit"
                       /\ rows' = Append(rows, j)

LEMMA MoveAdvances ==
    ASSUME Typed, NEW j \in Live, NEW stage \in Stages \ {"load"},
           stage \in Unstored => jobs[j].stage \in Unstored,
           Move(j, stage), now' = now
    PROVE  TestsAdvance
<1>1. j \in DOMAIN jobs /\ jobs[j] \in Job
  BY DEF Live, Typed, TypeOK
<1>2. DOMAIN jobs' = DOMAIN jobs /\ \A k \in DOMAIN jobs \ {j} : jobs'[k] = jobs[k]
  BY DEF Move
<1>3. /\ jobs'[j].stage = stage /\ jobs'[j].by = jobs[j].by
      /\ jobs'[j].ran = jobs[j].ran /\ jobs'[j].started = jobs[j].started
  BY <1>1 DEF Move, Job
<1>4. Live' \subseteq Live
  BY <1>2, <1>3 DEF Live
<1>5. now <= now'
  BY DEF Typed, TypeOK
<1> QED BY <1>1, <1>2, <1>3, <1>4, <1>5 DEF TestsAdvance, Live

LEMMA TriggerAdvances ==
    ASSUME Typed, Serial, NEW by \in {"user", "schedule"},
           TriggerSpeedTest(by), now' = now
    PROVE  /\ TestsAdvance
           /\ \A k \in DOMAIN jobs' \ DOMAIN jobs : jobs'[k].by = by
<1>1. now <= now'
  BY DEF Typed, TypeOK
<1>2. CASE speedActive /\ UNCHANGED <<speedActive, jobs>>
  BY <1>1, <1>2 DEF TestsAdvance, Live
<1>3. CASE ~speedActive
  <2> DEFINE new == [by |-> by, stage |-> "load", ran |-> FALSE, started |-> 0]
  <2>1. jobs' = Append(jobs, new)
    BY <1>3 DEF TriggerSpeedTest
  <2>2. new \in Job
    BY BoundsAssumption DEF Job, Working
  <2>3. /\ \A k \in DOMAIN jobs : jobs'[k] = jobs[k]
        /\ DOMAIN jobs' = DOMAIN jobs \cup {Len(jobs) + 1}
        /\ jobs'[Len(jobs) + 1] = new
    BY <2>1, <2>2 DEF Typed, TypeOK
  <2>4. Live = {}
    BY <1>3 DEF Serial, FlagMatchesJob
  <2>5. Live' \cap DOMAIN jobs \subseteq Live
    BY <2>3 DEF Live
  <2>6. \A k \in DOMAIN jobs' \ DOMAIN jobs :
           k = Len(jobs) + 1 /\ ~jobs'[k].ran /\ jobs'[k].by = by
    BY <2>3
  <2> QED BY <1>1, <2>3, <2>4, <2>5, <2>6 DEF TestsAdvance
<1> QED BY <1>2, <1>3 DEF TriggerSpeedTest

LEMMA StepAdvances ==
    ASSUME Typed, Serial, [Next]_vars
    PROVE  TestsAdvance /\ RowsGrow
<1>1. ASSUME UNCHANGED <<jobs, rows>>, now <= now' PROVE TestsAdvance /\ RowsGrow
  BY <1>1 DEF TestsAdvance, RowsGrow, Live
<1>2. now \in Nat
  BY BoundsAssumption DEF Typed, TypeOK
<1>3. ASSUME NEW j \in DOMAIN jobs, JobStep(j) \/ JobRunHangs(j)
      PROVE  TestsAdvance /\ RowsGrow
  <2>1. CASE JobLoad(j)
    <3>1. DOMAIN jobs' = DOMAIN jobs /\ \A k \in DOMAIN jobs \ {j} : jobs'[k] = jobs[k]
      BY <2>1 DEF JobLoad
    <3>2. /\ jobs[j].stage = "load" /\ ~jobs[j].ran
          /\ jobs'[j].stage = "run" /\ jobs'[j].ran
          /\ jobs'[j].started = now /\ jobs'[j].by = jobs[j].by
      <4>1. jobs[j] \in Job
        BY DEF Typed, TypeOK
      <4> QED BY <2>1, <4>1 DEF JobLoad, Job, Typed, Phases
    <3>3. Live' \subseteq Live
      BY <3>1, <3>2 DEF Live, Working
    <3>4. now <= now' /\ rows' = rows
      BY <1>2, <2>1 DEF JobLoad
    <3> QED BY <3>1, <3>2, <3>3, <3>4 DEF TestsAdvance, RowsGrow, Unstored
  <2>2. CASE ~JobLoad(j)
    <3>1. /\ j \in Live /\ now' = now
          /\ \E stage \in Stages \ {"load"} :
                /\ stage \in Unstored => jobs[j].stage \in Unstored
                /\ Move(j, stage)
      BY <1>3, <2>2
      DEF JobStep, JobRunHangs, JobLoadFails, JobRunEnds, JobInsert,
          JobInsertFails, JobEmit, JobClear, Live, Working, Stages, Unstored
    <3>2. TestsAdvance
      BY <3>1, MoveAdvances
    <3>3. CASE JobInsert(j)
      <4>1. jobs[j].stage = "insert" /\ rows' = Append(rows, j)
        BY <3>3 DEF JobInsert
      <4>2. jobs'[j].stage = "emit"
        <5>1. jobs[j] \in Job
          BY DEF Typed, TypeOK
        <5> QED BY <3>3, <5>1 DEF JobInsert, Move, Job
      <4> QED BY <3>1, <3>2, <4>1, <4>2 DEF RowsGrow
    <3>4. CASE ~JobInsert(j)
      BY <1>3, <2>2, <3>2, <3>4
      DEF JobStep, JobRunHangs, JobLoadFails, JobRunEnds, JobInsertFails,
          JobEmit, JobClear, RowsGrow
    <3> QED BY <3>3, <3>4
  <2> QED BY <2>1, <2>2
<1>4. CASE LoopStep
  <2>1. CASE Check
    <3>1. rows' = rows /\ now' = now
      BY <2>1 DEF Check
    <3>2. UNCHANGED jobs \/ TriggerSpeedTest("schedule")
      BY <2>1 DEF Check
    <3> QED BY <1>1, <1>2, <3>1, <3>2, TriggerAdvances DEF RowsGrow
  <2>2. CASE ~Check
    BY <1>1, <1>2, <1>4, <2>2
    DEF LoopStep, LoadSchedule, LoadLatest, LoadLatestFails
  <2> QED BY <2>1, <2>2
<1>5. CASE RunSpeedTest
  BY <1>5, TriggerAdvances DEF RunSpeedTest, RowsGrow
<1>6. CASE Die
  <2>1. /\ DOMAIN jobs' = DOMAIN jobs /\ now <= now' /\ rows' = rows
    BY <1>2, <1>6 DEF Die
  <2>2. ASSUME NEW k \in DOMAIN jobs
        PROVE  /\ jobs'[k].by = jobs[k].by /\ jobs'[k].ran = jobs[k].ran
               /\ jobs'[k].started = jobs[k].started
               /\ jobs'[k].stage \in {jobs[k].stage, "lost"}
    <3>1. jobs[k] \in Job
      BY DEF Typed, TypeOK
    <3> QED BY <1>6, <3>1 DEF Die, Job
  <2>3. Live' \subseteq Live
    BY <2>1, <2>2 DEF Live, Working
  <2> QED BY <2>1, <2>2, <2>3 DEF TestsAdvance, RowsGrow, Unstored
<1>7. CASE \/ SaveSettings \/ SummaryFlag \/ SummaryLatest \/ SummaryShown
           \/ Tick \/ SigTerm \/ Restart \/ UNCHANGED vars
  BY <1>1, <1>2, <1>7
  DEF SaveSettings, SummaryFlag, SummaryLatest, SummaryShown, Tick, SigTerm,
      Restart, vars
<1> QED BY <1>3, <1>4, <1>5, <1>6, <1>7 DEF Next

-----------------------------------------------------------------------------
(* Rows are in the order of their tests, and of the clock: the newest is   *)
(* the last one, although ORDER BY started_at looks at the time alone.     *)

Ordered ==
    /\ \A j \in Ran : jobs[j].started <= now
    /\ \A i, k \in Ran : i < k => jobs[i].started <= jobs[k].started
    /\ \A i \in DOMAIN rows : jobs[rows[i]].stage \notin Unstored
    /\ \A i, k \in DOMAIN rows : i < k => rows[i] < rows[k]

LEMMA StartedType ==
    ASSUME Typed, NEW j \in DOMAIN jobs
    PROVE  jobs[j].started \in Nat
<1>1. jobs[j] \in Job
  BY DEF Typed, TypeOK
<1> QED BY <1>1, BoundsAssumption DEF Job

LEMMA OrderedStep ==
    ASSUME Typed, Serial, Ordered, Typed', TestsAdvance, RowsGrow
    PROVE  Ordered'
<1>1. now \in Nat /\ now' \in Nat /\ now <= now'
  BY BoundsAssumption DEF Typed, TypeOK, TestsAdvance
<1>2. rows \in Seq(Ran) /\ rows' \in Seq(Ran') /\ Ran \subseteq DOMAIN jobs
      /\ DOMAIN jobs = 1..Len(jobs) /\ Len(jobs) \in Nat
  BY DEF Typed, TypeOK, Ran
<1>3. ASSUME NEW j \in Ran'
      PROVE  /\ j \in DOMAIN jobs
             /\ \/ j \in Ran /\ jobs'[j].started = jobs[j].started
                \/ j \in Live /\ j = Len(jobs) /\ j \notin Ran /\ jobs'[j].started = now
  <2>1. j \in DOMAIN jobs' /\ jobs'[j].ran
    BY <1>3 DEF Ran
  <2>2. j \in DOMAIN jobs
    BY <2>1 DEF TestsAdvance
  <2>3. CASE jobs[j].ran
    BY <2>2, <2>3 DEF TestsAdvance, Ran
  <2>4. CASE ~jobs[j].ran
    <3>1. jobs[j].stage = "load" /\ jobs'[j].started = now
      BY <2>1, <2>2, <2>4 DEF TestsAdvance
    <3>2. j \in Live
      BY <2>2, <3>1 DEF Live, Working
    <3> QED BY <2>2, <2>4, <3>1, <3>2 DEF Serial, Ran
  <2> QED BY <2>2, <2>3, <2>4
<1>4. \A j \in Ran' : jobs'[j].started <= now'
  <2> SUFFICES ASSUME NEW j \in Ran' PROVE jobs'[j].started <= now'
    OBVIOUS
  <2>1. j \in DOMAIN jobs /\ jobs[j].started \in Nat
    BY <1>3, StartedType
  <2> QED BY <1>1, <1>3, <2>1 DEF Ordered
<1>5. \A i, k \in Ran' : i < k => jobs'[i].started <= jobs'[k].started
  <2> SUFFICES ASSUME NEW i \in Ran', NEW k \in Ran', i < k
               PROVE  jobs'[i].started <= jobs'[k].started
    OBVIOUS
  <2>1. i \in 1..Len(jobs) /\ k \in 1..Len(jobs)
    BY <1>2, <1>3
  <2>2. i \in Ran /\ jobs'[i].started = jobs[i].started
    <3>1. Len(jobs) \in Nat
      BY <1>2
    <3>2. i # Len(jobs)
      <4> DEFINE n == Len(jobs)
      <4> HIDE DEF n
      <4>1. n \in Nat /\ i \in 1..n /\ k \in 1..n
        BY <2>1, <3>1 DEF n
      <4>2. i # n
        BY <4>1
      <4> QED BY <4>2 DEF n
    <3> QED BY <1>3, <3>2
  <2>3. jobs[i].started <= now
    BY <2>2 DEF Ordered
  <2> QED BY <1>3, <2>2, <2>3 DEF Ordered
<1>6. CASE rows' = rows
  <2>1. \A i \in DOMAIN rows : jobs'[rows[i]].stage \notin Unstored
    BY <1>2 DEF Ordered, TestsAdvance
  <2> QED BY <1>4, <1>5, <1>6, <2>1 DEF Ordered
<1>7. ASSUME NEW j \in Live, jobs[j].stage = "insert",
             jobs'[j].stage = "emit", rows' = Append(rows, j)
      PROVE  Ordered'
  <2>1. j = Len(jobs) /\ j \in DOMAIN jobs
    BY DEF Serial, Live
  <2>2. \A i \in DOMAIN rows : rows[i] \in Ran /\ rows[i] < j
    <3> SUFFICES ASSUME NEW i \in DOMAIN rows
                 PROVE  rows[i] \in Ran /\ rows[i] < j
      OBVIOUS
    <3>1. rows[i] \in Ran
      BY <1>2
    <3>2. rows[i] # j
      BY <1>7 DEF Ordered, Unstored
    <3> QED BY <1>2, <2>1, <3>1, <3>2
  <2>3. /\ DOMAIN rows' = DOMAIN rows \cup {Len(rows) + 1}
        /\ \A i \in DOMAIN rows : rows'[i] = rows[i]
        /\ rows'[Len(rows) + 1] = j
        /\ DOMAIN rows = 1..Len(rows) /\ Len(rows) \in Nat
    BY <1>2, <1>7
  <2>4. \A i \in DOMAIN rows' : jobs'[rows'[i]].stage \notin Unstored
    <3>1. \A i \in DOMAIN rows : jobs'[rows[i]].stage \notin Unstored
      BY <1>2, <2>2 DEF Ordered, TestsAdvance
    <3> QED BY <1>7, <2>3, <3>1 DEF Unstored
  <2>5. \A i, k \in DOMAIN rows' : i < k => rows'[i] < rows'[k]
    <3> SUFFICES ASSUME NEW i \in DOMAIN rows', NEW k \in DOMAIN rows', i < k
                 PROVE  rows'[i] < rows'[k]
      OBVIOUS
    <3>1. i \in DOMAIN rows
      BY <2>3
    <3>2. CASE k \in DOMAIN rows
      BY <2>3, <3>1, <3>2 DEF Ordered
    <3>3. CASE k = Len(rows) + 1
      BY <2>2, <2>3, <3>1, <3>3
    <3> QED BY <2>3, <3>2, <3>3
  <2> QED BY <1>4, <1>5, <2>4, <2>5 DEF Ordered
<1> QED BY <1>6, <1>7 DEF RowsGrow

(* What LatestSpeedTest returns.                                           *)
LEMMA LatestIsLast ==
    ASSUME Typed, Ordered
    PROVE  LatestSpeedTest = IF rows = <<>> THEN 0 ELSE rows[Len(rows)]
<1> DEFINE first == {i \in DOMAIN rows : ComesFirst(i)}
<1>1. rows \in Seq(Ran) /\ DOMAIN rows = 1..Len(rows) /\ Len(rows) \in Nat
  BY DEF Typed, TypeOK
<1>2. CASE rows = <<>>
  BY <1>2 DEF LatestSpeedTest
<1>3. CASE rows # <<>>
  <2> DEFINE n == Len(rows)
  <2>1. n \in DOMAIN rows
    BY <1>1, <1>3
  <2>2. \A i \in DOMAIN rows : rows[i] \in Ran /\ jobs[rows[i]].started \in Nat
    BY <1>1, StartedType DEF Ran
  <2>3. \A i \in DOMAIN rows \ {n} :
           i < n /\ jobs[rows[i]].started <= jobs[rows[n]].started
    BY <1>1, <2>1, <2>2 DEF Ordered
  <2>4. n \in first
    BY <2>1, <2>2, <2>3 DEF ComesFirst
  <2>5. \A i \in first : i = n
    <3> SUFFICES ASSUME NEW i \in first, i # n PROVE FALSE
      OBVIOUS
    <3>1. \/ jobs[rows[i]].started > jobs[rows[n]].started
          \/ i > n
      BY <2>1 DEF ComesFirst
    <3> QED BY <1>1, <2>1, <2>2, <2>3, <3>1
  <2>6. first = {n}
    BY <2>4, <2>5
  <2>7. (CHOOSE i \in first : TRUE) = n
    BY <2>6
  <2> HIDE DEF n
  <2>8. LatestSpeedTest = rows[n]
    BY <2>6, <2>7 DEF LatestSpeedTest
  <2> QED BY <1>3, <2>8 DEF n
<1> QED BY <1>2, <1>3

(* A stored test is not newer than the newest row.                         *)
LEMMA LatestBeatsStored ==
    ASSUME Typed, Ordered, NEW j \in DOMAIN jobs, Stored(j)
    PROVE  /\ LatestSpeedTest \in Ran
           /\ jobs[LatestSpeedTest].started >= jobs[j].started
<1>1. rows \in Seq(Ran) /\ DOMAIN rows = 1..Len(rows) /\ Len(rows) \in Nat
  BY DEF Typed, TypeOK
<1>2. PICK i \in DOMAIN rows : rows[i] = j
  BY DEF Stored
<1>3. rows # <<>> /\ Len(rows) \in DOMAIN rows
  BY <1>1, <1>2
<1>4. LatestSpeedTest = rows[Len(rows)] /\ LatestSpeedTest \in Ran
  BY <1>1, <1>3, LatestIsLast
<1>5. j \in Ran
  BY <1>1, <1>2
<1>6. j = LatestSpeedTest \/ j < LatestSpeedTest
  BY <1>1, <1>2, <1>3, <1>4 DEF Ordered
<1>7. jobs[j].started \in Nat /\ jobs[LatestSpeedTest].started \in Nat
  BY <1>4, StartedType DEF Ran
<1> QED BY <1>4, <1>5, <1>6, <1>7 DEF Ordered

LEMMA OrderedInit == Init => Ordered
<1> SUFFICES ASSUME Init PROVE Ordered
  OBVIOUS
<1>1. Ran = {} /\ DOMAIN rows = {}
  BY DEF Init, Ran
<1> QED BY <1>1 DEF Ordered

-----------------------------------------------------------------------------
(* The dashboard summary.                                                  *)

(* A summary that read a clear flag knows only tests that are over; what   *)
(* they stored was there before it read the rows.                          *)
PageInv ==
    /\ page.pc # "idle" => page.known <= Len(jobs)
    /\ page.pc # "idle" /\ ~page.running =>
          \A j \in 1..page.known : j \notin Live
    /\ page.pc = "shown" => page.latest \in Ran \cup {0}
    /\ SummaryNotStale

LEMMA PageKept ==
    ASSUME Typed, Serial, PageInv, TestsAdvance, RowsGrow, Typed',
           page' = page
    PROVE  PageInv'
<1>1. /\ page.known \in Nat /\ Len(jobs) \in Nat /\ DOMAIN jobs = 1..Len(jobs)
      /\ Len(jobs') \in Nat /\ DOMAIN jobs' = 1..Len(jobs')
      /\ rows \in Seq(Ran) /\ Ran \subseteq DOMAIN jobs
  BY BoundsAssumption DEF Typed, TypeOK, Ran
<1>2. Len(jobs) <= Len(jobs')
  <2>1. CASE Len(jobs) = 0
    BY <1>1, <2>1
  <2>2. CASE Len(jobs) # 0
    <3>1. Len(jobs) \in DOMAIN jobs
      BY <1>1, <2>2
    <3>2. Len(jobs) \in DOMAIN jobs'
      BY <3>1 DEF TestsAdvance
    <3> QED BY <1>1, <3>2
  <2> QED BY <2>1, <2>2
<1>3. page.pc # "idle" => page.known <= Len(jobs')
  BY <1>1, <1>2 DEF PageInv
<1>4. ASSUME page.pc # "idle", ~page.running, NEW j \in 1..page.known
      PROVE  j \in DOMAIN jobs /\ j \notin Live /\ j \notin Live'
             /\ (Stored(j)' => Stored(j))
  <2>1. j \in DOMAIN jobs /\ j \notin Live
    BY <1>1, <1>4 DEF PageInv
  <2>2. j \notin Live'
    BY <2>1 DEF TestsAdvance
  <2>3. Stored(j)' => Stored(j)
    <3>1. CASE rows' = rows
      BY <3>1 DEF Stored
    <3>2. ASSUME NEW k \in Live, rows' = Append(rows, k)
          PROVE  Stored(j)' => Stored(j)
      <4>1. k # j
        BY <2>1
      <4>2. /\ DOMAIN rows' = DOMAIN rows \cup {Len(rows) + 1}
            /\ \A i \in DOMAIN rows : rows'[i] = rows[i]
            /\ rows'[Len(rows) + 1] = k
        BY <1>1, <3>2
      <4> QED BY <4>1, <4>2 DEF Stored
    <3> QED BY <3>1, <3>2 DEF RowsGrow
  <2> QED BY <2>1, <2>2, <2>3
<1>5. Ran \subseteq Ran' /\ \A j \in Ran : jobs'[j].started = jobs[j].started
  BY DEF TestsAdvance, Ran
<1>6. SummaryNotStale'
  <2> SUFFICES ASSUME page.pc = "shown", ~page.running,
                      NEW j \in 1..page.known, Stored(j)'
               PROVE  page.latest # 0
                      /\ jobs'[page.latest].started >= jobs'[j].started
    BY DEF SummaryNotStale
  <2>1. Stored(j) /\ j \in Ran
    <3>1. Stored(j)
      BY <1>4
    <3> QED BY <1>1, <3>1 DEF Stored
  <2>2. page.latest # 0 /\ jobs[page.latest].started >= jobs[j].started
    BY <2>1 DEF PageInv, SummaryNotStale
  <2>3. page.latest \in Ran
    BY <2>2 DEF PageInv
  <2> QED BY <1>5, <2>1, <2>2, <2>3
<1> QED BY <1>3, <1>4, <1>5, <1>6 DEF PageInv

LEMMA PageStep ==
    ASSUME Typed, Serial, Ordered, PageInv, TestsAdvance, RowsGrow, Typed',
           Serial', [Next]_vars
    PROVE  PageInv'
<1>1. CASE page' = page
  BY <1>1, PageKept
<1>2. CASE SummaryFlag
  <2>1. page' = [pc |-> "latest", running |-> speedActive,
                 known |-> Len(jobs), latest |-> 0]
    BY <1>2 DEF SummaryFlag, PageIdle
  <2>2. jobs' = jobs /\ Live' = Live
    BY <1>2 DEF SummaryFlag, Live
  <2>3. ~speedActive => Live = {}
    BY DEF Serial, FlagMatchesJob
  <2>4. Len(jobs) <= Len(jobs)
    BY DEF Typed, TypeOK
  <2> QED BY <2>1, <2>2, <2>3, <2>4 DEF PageInv, SummaryNotStale
<1>3. CASE SummaryLatest
  <2>1. /\ page'.pc = "shown" /\ page'.known = page.known
        /\ page'.running = page.running /\ page'.latest = LatestSpeedTest
        /\ page.pc = "latest" /\ UNCHANGED <<jobs, rows>>
    BY <1>3 DEF SummaryLatest, Typed, TypeOK
  <2>2. Live' = Live /\ Ran' = Ran
    BY <2>1 DEF Live, Ran
  <2>3. page.known \in Nat /\ DOMAIN jobs = 1..Len(jobs) /\ Len(jobs) \in Nat
    BY BoundsAssumption DEF Typed, TypeOK
  <2>4. SummaryNotStale'
    <3> SUFFICES ASSUME NEW j \in 1..page.known, Stored(j)'
                 PROVE  LatestSpeedTest # 0
                        /\ jobs[LatestSpeedTest].started >= jobs[j].started
      BY <2>1 DEF SummaryNotStale
    <3>1. j \in DOMAIN jobs /\ Stored(j)
      BY <2>1, <2>3 DEF PageInv, Stored
    <3>2. 0 \notin Ran
      BY <2>3 DEF Ran
    <3> QED BY <3>1, <3>2, LatestBeatsStored
  <2> QED BY <2>1, <2>2, <2>4, LatestType DEF PageInv
<1>4. CASE SummaryShown \/ Die
  <2>1. page'.pc = "idle"
    BY <1>4 DEF SummaryShown, Die, PageIdle
  <2> QED BY <2>1 DEF PageInv, SummaryNotStale
<1> QED
  BY <1>1, <1>2, <1>3, <1>4
  DEF Next, LoopStep, LoadSchedule, LoadLatest, LoadLatestFails, Check,
      JobStep, JobRunHangs, JobLoad, JobLoadFails, JobRunEnds, JobInsert,
      JobInsertFails, JobEmit, JobClear, RunSpeedTest, SaveSettings, Tick,
      SigTerm, Restart, vars

-----------------------------------------------------------------------------
(* The schedule.                                                           *)

(* A stored test i comes before a scheduled test k.                        *)
StoredBefore(i, k) == i < k /\ Stored(i) /\ jobs[k].by = "schedule"

Period(i, time) == \E s \in Schedules \ {0} : time >= jobs[i].started + s

(* The loop holds a period that is on; when it is about to decide, it has  *)
(* seen every test stored before the last one it started itself.  A test   *)
(* it started that waits for its settings is already a period late.        *)
LoopInv ==
    /\ loop.pc # "idle" => loop.schedule \in Schedules \ {0}
    /\ loop.pc = "check" => loop.latest \in Ran \cup {0}
    /\ loop.pc = "check" =>
          \A i, k \in DOMAIN jobs : StoredBefore(i, k) =>
              /\ loop.latest \in Ran
              /\ jobs[loop.latest].started >= jobs[i].started
ScheduleInv ==
    /\ LoopInv
    /\ \A i, k, j \in DOMAIN jobs :
          StoredBefore(i, k) /\ k < j /\ jobs[j].by = "schedule"
          /\ jobs[j].stage = "load" => Period(i, now)
    /\ NoBurst

(* A test that is followed by another stores nothing any more.             *)
LEMMA StoredBeforeKept ==
    ASSUME Typed, Serial, TestsAdvance, RowsGrow,
           NEW i \in DOMAIN jobs, NEW k \in DOMAIN jobs, StoredBefore(i, k)'
    PROVE  /\ StoredBefore(i, k) /\ i \in Ran
           /\ jobs'[i].started = jobs[i].started
<1>1. /\ Len(jobs) \in Nat /\ DOMAIN jobs = 1..Len(jobs)
      /\ rows \in Seq(Ran)
  BY DEF Typed, TypeOK
<1>2. i < k /\ jobs[k].by = "schedule"
  BY DEF StoredBefore, TestsAdvance
<1>3. i # Len(jobs)
  <2> DEFINE n == Len(jobs)
  <2> HIDE DEF n
  <2>1. n \in Nat /\ i \in 1..n /\ k \in 1..n
    BY <1>1 DEF n
  <2>2. i # n
    BY <1>2, <2>1
  <2> QED BY <2>2 DEF n
<1>4. i \notin Live
  BY <1>3 DEF Serial
<1>5. Stored(i)
  <2>1. CASE rows' = rows
    BY <2>1 DEF Stored, StoredBefore
  <2>2. ASSUME NEW j \in Live, rows' = Append(rows, j)
        PROVE  Stored(i)
    <3>1. /\ DOMAIN rows' = DOMAIN rows \cup {Len(rows) + 1}
          /\ \A m \in DOMAIN rows : rows'[m] = rows[m]
          /\ rows'[Len(rows) + 1] = j
      BY <1>1, <2>2
    <3>2. PICK m \in DOMAIN rows' : rows'[m] = i
      BY DEF StoredBefore, Stored
    <3> QED BY <1>4, <3>1, <3>2 DEF Stored
  <2> QED BY <2>1, <2>2 DEF RowsGrow
<1>6. i \in Ran
  BY <1>1, <1>5 DEF Stored
<1> QED BY <1>2, <1>5, <1>6 DEF StoredBefore, TestsAdvance, Ran

(* The third conjunct, for tests already accepted.                         *)
LEMMA NoBurstKept ==
    ASSUME Typed, Serial, ScheduleInv, TestsAdvance, RowsGrow
    PROVE  NoBurst'
<1> SUFFICES ASSUME NEW i \in DOMAIN jobs', NEW k \in DOMAIN jobs',
                    NEW j \in DOMAIN jobs',
                    StoredBefore(i, k)', k < j, jobs'[j].ran,
                    jobs'[j].by = "schedule"
             PROVE  Period(i, jobs[j].started)'
  BY DEF NoBurst, StoredBefore, Period
<1>1. j \in DOMAIN jobs
  BY DEF TestsAdvance
<1>2. /\ Len(jobs) \in Nat /\ DOMAIN jobs = 1..Len(jobs)
  BY DEF Typed, TypeOK
<1>3. k \in DOMAIN jobs
  <2> DEFINE n == Len(jobs)
  <2> HIDE DEF n
  <2>1. n \in Nat /\ j \in 1..n /\ (k \in 1..n \/ k = n + 1)
    BY <1>1, <1>2 DEF TestsAdvance, n
  <2>2. k \in 1..n
    BY <2>1
  <2> QED BY <1>2, <2>2 DEF n
<1>4. i \in DOMAIN jobs
  <2> DEFINE n == Len(jobs)
  <2> HIDE DEF n
  <2>1. n \in Nat /\ k \in 1..n /\ (i \in 1..n \/ i = n + 1) /\ i < k
    BY <1>2, <1>3 DEF TestsAdvance, StoredBefore, n
  <2>2. i \in 1..n
    BY <2>1
  <2> QED BY <1>2, <2>2 DEF n
<1>5. StoredBefore(i, k) /\ jobs'[i].started = jobs[i].started
  BY <1>3, <1>4, StoredBeforeKept
<1>6. jobs[j].by = "schedule"
  BY <1>1 DEF TestsAdvance
<1>7. CASE jobs[j].ran
  <2>1. jobs'[j].started = jobs[j].started
    BY <1>1, <1>7 DEF TestsAdvance
  <2>2. Period(i, jobs[j].started)
    BY <1>1, <1>3, <1>4, <1>5, <1>6, <1>7
    DEF ScheduleInv, NoBurst, StoredBefore, Period
  <2> QED BY <1>5, <2>1, <2>2 DEF Period
<1>8. CASE ~jobs[j].ran
  <2>1. jobs[j].stage = "load" /\ jobs'[j].started = now
    BY <1>1, <1>8 DEF TestsAdvance
  <2>2. Period(i, now)
    BY <1>1, <1>3, <1>4, <1>5, <1>6, <2>1 DEF ScheduleInv
  <2> QED BY <1>5, <2>1, <2>2 DEF Period
<1> QED BY <1>7, <1>8

(* Only the schedule loop accepts scheduled tests.                         *)
LEMMA OnlyCheckSchedules ==
    ASSUME Typed, Serial, [Next]_vars,
           NEW j \in DOMAIN jobs' \ DOMAIN jobs, jobs'[j].by = "schedule"
    PROVE  Check /\ ~UNCHANGED jobs
<1>1. ~UNCHANGED jobs
  OBVIOUS
<1>2. CASE RunSpeedTest
  BY <1>2, TriggerAdvances DEF RunSpeedTest
<1>3. ASSUME NEW m \in DOMAIN jobs, JobStep(m) \/ JobRunHangs(m)
      PROVE  FALSE
  <2>1. DOMAIN jobs' = DOMAIN jobs
    BY <1>3
    DEF JobStep, JobRunHangs, JobLoad, JobLoadFails, JobRunEnds, JobInsert,
        JobInsertFails, JobEmit, JobClear, Move
  <2> QED BY <2>1
<1>4. CASE Die
  BY <1>4 DEF Die
<1> QED
  BY <1>1, <1>2, <1>3, <1>4
  DEF Next, LoopStep, LoadSchedule, LoadLatest, LoadLatestFails,
      SaveSettings, SummaryFlag, SummaryLatest, SummaryShown, Tick, SigTerm,
      Restart, vars

(* A scheduled test is accepted only a full period after every test stored *)
(* before the last scheduled one.                                          *)
LEMMA AcceptedLate ==
    ASSUME Typed, Serial, ScheduleInv, [Next]_vars, TestsAdvance,
           NEW i \in DOMAIN jobs, NEW k \in DOMAIN jobs, StoredBefore(i, k),
           NEW j \in DOMAIN jobs' \ DOMAIN jobs, jobs'[j].by = "schedule"
    PROVE  Period(i, now)
<1>1. Check /\ ~UNCHANGED jobs
  BY OnlyCheckSchedules
<1>2. SpeedTestDue(loop.latest, loop.schedule)
  BY <1>1 DEF Check
<1>3. loop.latest \in Ran /\ jobs[loop.latest].started >= jobs[i].started
  BY <1>1 DEF Check, ScheduleInv, LoopInv
<1>4. loop.latest # 0 /\ loop.latest \in DOMAIN jobs
  BY <1>3 DEF Ran, Typed, TypeOK
<1>5. jobs[loop.latest].started + loop.schedule <= now
  BY <1>2, <1>4 DEF SpeedTestDue
<1>6. loop.schedule \in Schedules \ {0} /\ loop.schedule \in Nat
  BY <1>1, SchedulesAssumption DEF Check, ScheduleInv, LoopInv
<1>7. jobs[loop.latest].started \in Nat /\ jobs[i].started \in Nat /\ now \in Nat
  BY <1>4, StartedType, BoundsAssumption DEF Typed, TypeOK
<1>8. now >= jobs[i].started + loop.schedule
  BY <1>3, <1>5, <1>6, <1>7
<1> QED BY <1>6, <1>8 DEF Period

LEMMA LoopStepKeeps ==
    ASSUME Typed, Serial, Ordered, ScheduleInv, [Next]_vars, TestsAdvance,
           RowsGrow
    PROVE  LoopInv'
<1>1. Ran \subseteq Ran' /\ \A j \in Ran : jobs'[j].started = jobs[j].started
  BY DEF TestsAdvance, Ran
<1>2. CASE loop' = loop
  <2>1. loop.pc = "check" => loop.latest \in Ran' \cup {0}
    BY <1>1 DEF ScheduleInv, LoopInv
  <2>2. ASSUME loop.pc = "check", NEW i \in DOMAIN jobs', NEW k \in DOMAIN jobs',
               StoredBefore(i, k)'
        PROVE  loop.latest \in Ran'
               /\ jobs'[loop.latest].started >= jobs'[i].started
    <3>1. k \in DOMAIN jobs
      <4> SUFFICES ASSUME k \notin DOMAIN jobs PROVE FALSE
        OBVIOUS
      <4>1. jobs'[k].by = "schedule"
        BY <2>2 DEF StoredBefore
      <4>2. Check
        BY <4>1, OnlyCheckSchedules
      <4> QED BY <1>2, <2>2, <4>2 DEF Check, LoopIdle
    <3>2. i \in DOMAIN jobs
      <4> DEFINE n == Len(jobs)
      <4>1. n \in Nat /\ DOMAIN jobs = 1..n
        BY DEF Typed, TypeOK
      <4> HIDE DEF n
      <4>2. k \in 1..n /\ (i \in 1..n \/ i = n + 1) /\ i < k
        BY <2>2, <3>1, <4>1 DEF TestsAdvance, StoredBefore, n
      <4>3. i \in 1..n
        BY <4>1, <4>2
      <4> QED BY <4>1, <4>3
    <3>3. StoredBefore(i, k) /\ jobs'[i].started = jobs[i].started
      BY <2>2, <3>1, <3>2, StoredBeforeKept
    <3> QED BY <1>1, <2>2, <3>1, <3>2, <3>3 DEF ScheduleInv, LoopInv
  <2> QED BY <1>2, <2>1, <2>2 DEF ScheduleInv, LoopInv
<1>3. CASE LoadSchedule
  <2>1. settings.schedule \in Schedules \ {0}
    BY <1>3 DEF LoadSchedule, Typed, TypeOK, Settings
  <2>2. loop'.pc = "latest" /\ loop'.schedule = settings.schedule
    BY <1>3 DEF LoadSchedule, LoopIdle
  <2> QED BY <2>1, <2>2 DEF LoopInv
<1>4. CASE LoadLatest
  <2>1. /\ loop'.pc = "check" /\ loop'.latest = LatestSpeedTest
        /\ loop'.schedule = loop.schedule /\ loop.pc = "latest"
        /\ UNCHANGED <<jobs, rows>>
    BY <1>4 DEF LoadLatest, Typed, TypeOK
  <2>2. Ran' = Ran
    BY <2>1 DEF Ran
  <2>3. \A i, k \in DOMAIN jobs : StoredBefore(i, k)' =>
           /\ LatestSpeedTest \in Ran
           /\ jobs[LatestSpeedTest].started >= jobs[i].started
    BY <2>1, LatestBeatsStored DEF StoredBefore, Stored
  <2> QED BY <2>1, <2>2, <2>3, LatestType DEF ScheduleInv, LoopInv
<1>5. CASE LoadLatestFails \/ Check \/ Die
  <2>1. loop'.pc = "idle"
    BY <1>5 DEF LoadLatestFails, Check, Die, LoopIdle
  <2> QED BY <2>1 DEF LoopInv
<1> QED
  BY <1>2, <1>3, <1>4, <1>5
  DEF Next, LoopStep, JobStep, JobRunHangs, JobLoad, JobLoadFails, JobRunEnds,
      JobInsert, JobInsertFails, JobEmit, JobClear, RunSpeedTest,
      SaveSettings, SummaryFlag, SummaryLatest, SummaryShown, Tick, SigTerm,
      Restart, vars

LEMMA ScheduleStep ==
    ASSUME Typed, Serial, Ordered, ScheduleInv, [Next]_vars, TestsAdvance,
           RowsGrow, Typed'
    PROVE  ScheduleInv'
<1>1. LoopInv' /\ NoBurst'
  BY LoopStepKeeps, NoBurstKept
<1>2. ASSUME NEW i \in DOMAIN jobs', NEW k \in DOMAIN jobs',
             NEW j \in DOMAIN jobs', StoredBefore(i, k)', k < j,
             jobs'[j].by = "schedule", jobs'[j].stage = "load"
      PROVE  Period(i, now)'
  <2>1. i \in DOMAIN jobs /\ k \in DOMAIN jobs
    <3> DEFINE n == Len(jobs)
    <3>1. n \in Nat /\ DOMAIN jobs = 1..n
      BY DEF Typed, TypeOK
    <3> HIDE DEF n
    <3>2. /\ i \in 1..n \/ i = n + 1
          /\ k \in 1..n \/ k = n + 1
          /\ j \in 1..n \/ j = n + 1
          /\ i < k /\ k < j
      BY <1>2, <3>1 DEF TestsAdvance, StoredBefore, n
    <3>3. i \in 1..n /\ k \in 1..n
      BY <3>1, <3>2
    <3> QED BY <3>1, <3>3
  <2>2. StoredBefore(i, k) /\ jobs'[i].started = jobs[i].started
    BY <1>2, <2>1, StoredBeforeKept
  <2>3. Period(i, now)
    <3>1. CASE j \in DOMAIN jobs
      <4>1. jobs[j].by = "schedule" /\ jobs[j].stage = "load"
        BY <1>2, <3>1 DEF TestsAdvance
      <4> QED BY <1>2, <2>1, <2>2, <3>1, <4>1 DEF ScheduleInv
    <3>2. CASE j \notin DOMAIN jobs
      BY <1>2, <2>1, <2>2, <3>2, AcceptedLate
    <3> QED BY <3>1, <3>2
  <2>4. /\ now \in Nat /\ now' \in Nat /\ now <= now'
        /\ jobs[i].started \in Nat
    BY <2>1, StartedType, BoundsAssumption DEF Typed, TypeOK, TestsAdvance
  <2>5. PICK s \in Schedules \ {0} : now >= jobs[i].started + s
    BY <2>3 DEF Period
  <2>6. s \in Nat /\ jobs'[i].started = jobs[i].started
    BY <2>2, <2>5, SchedulesAssumption
  <2>7. now' >= jobs'[i].started + s
    BY <2>4, <2>5, <2>6
  <2> QED BY <2>5, <2>7 DEF Period
<1> QED BY <1>1, <1>2 DEF ScheduleInv

-----------------------------------------------------------------------------
(* The theorems.                                                           *)

SpeedInv == Typed /\ Serial /\ Ordered /\ PageInv /\ ScheduleInv

(* The inductive invariant of rows, summary and schedule.                  *)
THEOREM SpeedInvariant == Spec => []SpeedInv
<1>1. Init => PageInv /\ ScheduleInv
  <2> SUFFICES ASSUME Init PROVE PageInv /\ ScheduleInv
    OBVIOUS
  <2>1. page.pc = "idle" /\ loop.pc = "idle" /\ DOMAIN jobs = {}
    BY DEF Init, PageIdle, LoopIdle
  <2> QED
    BY <2>1 DEF PageInv, SummaryNotStale, ScheduleInv, LoopInv, NoBurst
<1>2. ASSUME SpeedInv, Typed', Serial', [Next]_vars PROVE SpeedInv'
  <2>1. TestsAdvance /\ RowsGrow
    BY <1>2, StepAdvances DEF SpeedInv
  <2> QED
    BY <1>2, <2>1, OrderedStep, PageStep, ScheduleStep DEF SpeedInv
<1>3. Init /\ Typed /\ Serial => SpeedInv
  BY <1>1, OrderedInit DEF SpeedInv
<1>4. SpeedInv /\ (Typed /\ Serial)' /\ [Next]_vars => SpeedInv'
  BY <1>2
<1> QED BY <1>3, <1>4, SerialInvariant, PTL DEF Spec

(* A summary that says no test is running shows the newest stored result   *)
(* of all the tests it knows to be over.                                   *)
THEOREM SummaryNotStaleCorrect == Spec => []SummaryNotStale
  BY SpeedInvariant, PTL DEF SpeedInv, PageInv

(* However the loop's read races with a running test, the schedule starts  *)
(* at most one test early.                                                 *)
THEOREM NoBurstCorrect == Spec => []NoBurst
  BY SpeedInvariant, PTL DEF SpeedInv, ScheduleInv

-----------------------------------------------------------------------------
(* One fault.                                                              *)

(* A result that is not in the table has cost one fault by the time its    *)
(* event is due, and two once its test is over without the event.          *)
FaultsSpent ==
    \A j \in DOMAIN jobs :
        /\ jobs[j].stage = "emit" /\ ~Stored(j) => budget.faults < MaxFaults
        /\ OutboxEnabled /\ jobs[j].stage \in {"clear", "done"}
           /\ jobs[j].ran /\ ~Stored(j) /\ j \notin events =>
              budget.faults + 1 < MaxFaults

(* A step that adds no row and no event, and moves no test to one of the   *)
(* last stages.                                                            *)
LEMMA FaultsKept ==
    ASSUME Typed, FaultsSpent, Typed', TestsAdvance,
           UNCHANGED <<rows, events>>, budget'.faults <= budget.faults,
           \A j \in DOMAIN jobs :
              jobs'[j].stage \in {"emit", "clear", "done"} =>
                 /\ jobs'[j].stage = jobs[j].stage
                    \/ {jobs'[j].stage, jobs[j].stage} = {"clear", "done"}
                 /\ jobs'[j].ran = jobs[j].ran,
           \A j \in DOMAIN jobs' \ DOMAIN jobs : jobs'[j].stage = "load"
    PROVE  FaultsSpent'
<1>1. budget.faults \in Nat /\ budget'.faults \in Nat
  BY BoundsAssumption DEF Typed, TypeOK, Budgets
<1>2. \A j \in DOMAIN jobs : Stored(j)' <=> Stored(j)
  BY DEF Stored
<1>3. ASSUME NEW j \in DOMAIN jobs', ~Stored(j)'
      PROVE  /\ jobs'[j].stage = "emit" => budget'.faults < MaxFaults
             /\ OutboxEnabled /\ jobs'[j].stage \in {"clear", "done"}
                /\ jobs'[j].ran /\ j \notin events =>
                   budget'.faults + 1 < MaxFaults
  <2>1. CASE j \notin DOMAIN jobs
    BY <1>3, <2>1
  <2>2. CASE j \in DOMAIN jobs
    BY <1>1, <1>2, <1>3, <2>2, BoundsAssumption DEF FaultsSpent
  <2> QED BY <2>1, <2>2
<1>4. \A j : Stored(j)' <=> \E i \in DOMAIN rows' : rows'[i] = j
  BY DEF Stored
<1> QED BY <1>3, <1>4 DEF FaultsSpent, Stored

LEMMA FaultsStep ==
    ASSUME Typed, Serial, FaultsSpent, Typed', TestsAdvance, RowsGrow,
           [Next]_vars
    PROVE  FaultsSpent'
<1>1. /\ budget \in Budgets /\ budget.faults \in Nat
      /\ budget'.faults \in Nat /\ rows \in Seq(Ran)
  BY BoundsAssumption DEF Typed, TypeOK, Budgets
<1>2. ASSUME Fault
      PROVE  budget.faults \in 1..MaxFaults
             /\ budget'.faults = budget.faults - 1
  BY <1>1, <1>2, BoundsAssumption DEF Fault, Budgets
<1>3. ASSUME NoFault PROVE budget'.faults = budget.faults
  BY <1>3 DEF NoFault
<1>4. CASE UNCHANGED <<jobs, rows, events>>
  <2>1. budget'.faults <= budget.faults
    <3>1. CASE LoadLatestFails
      BY <1>1, <1>2, <1>3, <3>1 DEF LoadLatestFails, LoopReadFails
    <3>2. CASE UNCHANGED budget
      BY <1>1, <3>2
    <3>3. CASE SaveSettings \/ SummaryFlag \/ Restart
      BY <1>1, <3>3 DEF SaveSettings, SummaryFlag, Restart, Budgets
    <3>4. CASE \E j \in DOMAIN jobs : JobStep(j) \/ JobRunHangs(j)
      BY <1>1, <1>2, <1>3, <3>4
      DEF JobStep, JobRunHangs, JobLoad, JobLoadFails, JobRunEnds, JobInsert,
          JobInsertFails, JobEmit, JobClear
    <3> QED
      BY <3>1, <3>2, <3>3, <3>4
      DEF Next, LoopStep, LoadSchedule, LoadLatest, Check, RunSpeedTest,
          SummaryLatest, SummaryShown, Tick, SigTerm, Die, vars
  <2> QED BY <1>4, <2>1, FaultsKept
<1>5. ASSUME NEW j \in DOMAIN jobs, JobStep(j) \/ JobRunHangs(j)
      PROVE  FaultsSpent'
  <2>0. jobs[j] \in Job
    BY DEF Typed, TypeOK
  <2>1. DOMAIN jobs' = DOMAIN jobs /\ \A k \in DOMAIN jobs \ {j} : jobs'[k] = jobs[k]
    BY <1>5
    DEF JobStep, JobRunHangs, JobLoad, JobLoadFails, JobRunEnds, JobInsert,
        JobInsertFails, JobEmit, JobClear, Move
  <2>2. CASE JobLoad(j) \/ JobRunEnds(j) \/ JobRunHangs(j) \/ JobClear(j)
    <3>1. UNCHANGED <<rows, events>> /\ budget'.faults <= budget.faults
      BY <1>1, <1>3, <2>2
      DEF JobLoad, JobRunEnds, JobRunHangs, JobClear
    <3>2. \/ jobs'[j].stage \in {"run", "insert", "hung"}
          \/ /\ jobs'[j].stage = "done" /\ jobs[j].stage = "clear"
             /\ jobs'[j].ran = jobs[j].ran
      BY <2>0, <2>2
      DEF JobLoad, JobRunEnds, JobRunHangs, JobClear, Move, Job
    <3> QED BY <2>1, <3>1, <3>2, FaultsKept
  <2>3. CASE JobLoadFails(j)
    <3>1. /\ UNCHANGED <<rows, events>> /\ budget'.faults <= budget.faults
          /\ jobs'[j].stage = "clear" /\ ~jobs'[j].ran
      BY <1>1, <1>2, <2>0, <2>3 DEF JobLoadFails, Move, Job, Typed, Phases
    <3>2. \A k \in DOMAIN jobs : Stored(k)' <=> Stored(k)
      BY <3>1 DEF Stored
    <3> QED
      BY <1>1, <2>1, <3>1, <3>2, BoundsAssumption DEF FaultsSpent, Stored
  <2>4. CASE JobInsert(j)
    <3>1. /\ rows' = Append(rows, j) /\ events' = events
          /\ budget'.faults = budget.faults /\ jobs'[j].stage = "emit"
      BY <1>3, <2>0, <2>4 DEF JobInsert, Move, Job
    <3>2. /\ DOMAIN rows' = DOMAIN rows \cup {Len(rows) + 1}
          /\ \A m \in DOMAIN rows : rows'[m] = rows[m]
          /\ rows'[Len(rows) + 1] = j
      BY <1>1, <3>1
    <3>3. Stored(j)' /\ \A k \in DOMAIN jobs : Stored(k) => Stored(k)'
      BY <3>2 DEF Stored
    <3> QED BY <2>1, <3>1, <3>3 DEF FaultsSpent
  <2>5. CASE JobInsertFails(j)
    <3>1. /\ UNCHANGED <<rows, events>> /\ budget'.faults = budget.faults - 1
          /\ budget.faults \in 1..MaxFaults /\ jobs'[j].stage = "emit"
      BY <1>2, <2>0, <2>5 DEF JobInsertFails, Move, Job
    <3>2. \A k \in DOMAIN jobs : Stored(k)' <=> Stored(k)
      BY <3>1 DEF Stored
    <3> QED
      BY <1>1, <2>1, <3>1, <3>2, BoundsAssumption DEF FaultsSpent
  <2>6. CASE JobEmit(j)
    <3>1. /\ rows' = rows /\ jobs'[j].stage = "clear" /\ jobs[j].stage = "emit"
          /\ \/ /\ budget'.faults = budget.faults
                /\ events' = IF OutboxEnabled THEN events \cup {j} ELSE events
             \/ /\ budget'.faults = budget.faults - 1 /\ events' = events
                /\ budget.faults \in 1..MaxFaults
      BY <1>2, <1>3, <2>0, <2>6 DEF JobEmit, Move, Job
    <3>2. \A k \in DOMAIN jobs : Stored(k)' <=> Stored(k)
      BY <3>1 DEF Stored
    <3> QED
      BY <1>1, <2>1, <3>1, <3>2, BoundsAssumption DEF FaultsSpent
  <2> QED BY <1>5, <2>2, <2>3, <2>4, <2>5, <2>6 DEF JobStep
<1>6. ASSUME NEW by \in {"user", "schedule"}, TriggerSpeedTest(by),
             UNCHANGED <<rows, events, budget>>
      PROVE  FaultsSpent'
  <2> DEFINE new == [by |-> by, stage |-> "load", ran |-> FALSE, started |-> 0]
  <2>1. UNCHANGED jobs \/ jobs' = Append(jobs, new)
    BY <1>6 DEF TriggerSpeedTest
  <2>2. /\ \A k \in DOMAIN jobs : jobs'[k] = jobs[k]
        /\ \A k \in DOMAIN jobs' \ DOMAIN jobs : jobs'[k].stage = "load"
    <3>1. new \in Job /\ new.stage = "load" /\ jobs \in Seq(Job)
      BY BoundsAssumption DEF Job, Working, Typed, TypeOK
    <3> HIDE DEF new
    <3>2. CASE jobs' = Append(jobs, new)
      <4>1. /\ \A k \in DOMAIN jobs : jobs'[k] = jobs[k]
            /\ DOMAIN jobs' = DOMAIN jobs \cup {Len(jobs) + 1}
            /\ jobs'[Len(jobs) + 1] = new
        BY <3>1, <3>2
      <4> QED BY <3>1, <4>1
    <3> QED BY <2>1, <3>2
  <2> QED BY <1>1, <1>6, <2>2, FaultsKept
<1>7. CASE Die
  <2>1. UNCHANGED <<rows, events, budget>> /\ DOMAIN jobs' = DOMAIN jobs
    BY <1>7 DEF Die
  <2>2. \A k \in DOMAIN jobs :
           jobs'[k].stage # "lost" => jobs'[k] = jobs[k]
    <3> SUFFICES ASSUME NEW k \in DOMAIN jobs, jobs'[k].stage # "lost"
                 PROVE  jobs'[k] = jobs[k]
      OBVIOUS
    <3>1. jobs[k] \in Job
      BY DEF Typed, TypeOK
    <3> QED BY <1>7, <3>1 DEF Die, Job
  <2> QED BY <1>1, <2>1, <2>2, FaultsKept
<1> QED
  BY <1>4, <1>5, <1>6, <1>7
  DEF Next, LoopStep, LoadSchedule, LoadLatest, LoadLatestFails, Check,
      RunSpeedTest, SaveSettings, SummaryFlag, SummaryLatest, SummaryShown,
      Tick, SigTerm, Restart, vars

(* No single failed access loses a finished measurement: it takes two to   *)
(* keep it out of both the table and the notifications.                    *)
THEOREM OneFaultLosesNoResultCorrect == Spec => []OneFaultLosesNoResult
<1>1. Init => FaultsSpent
  BY DEF Init, FaultsSpent
<1>2. ASSUME SpeedInv, FaultsSpent, Typed', [Next]_vars PROVE FaultsSpent'
  BY <1>2, StepAdvances, FaultsStep DEF SpeedInv
<1>3. SpeedInv /\ SpeedInv' /\ FaultsSpent /\ [Next]_vars => FaultsSpent'
  BY <1>2 DEF SpeedInv
<1>4. Typed /\ FaultsSpent => OneFaultLosesNoResult
  BY BoundsAssumption
  DEF FaultsSpent, OneFaultLosesNoResult, Typed, TypeOK, Budgets
<1> QED BY <1>1, <1>3, <1>4, SpeedInvariant, PTL DEF Spec, SpeedInv
===============================================================================

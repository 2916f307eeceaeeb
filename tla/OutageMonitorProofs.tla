------------------------- MODULE OutageMonitorProofs -------------------------
(* Proofs about OutageMonitor, for every value of its constants.           *)
EXTENDS OutageMonitor, TLAPS

(* The UPDATE that ends every open row keeps the rows a sequence, of the   *)
(* same length, with no row open.                                          *)
LEMMA ClosedRows ==
    ASSUME NEW s \in Seq({"open", "closed"})
    PROVE  LET c == [i \in DOMAIN s |-> "closed"]
           IN  /\ c \in Seq({"open", "closed"})
               /\ Len(c) = Len(s)
               /\ DOMAIN c = DOMAIN s
<1> DEFINE c == [i \in DOMAIN s |-> "closed"]
<1>1. Len(s) \in Nat /\ DOMAIN s = 1..Len(s)
  OBVIOUS
<1>2. c \in [1..Len(s) -> {"open", "closed"}]
  BY <1>1
<1>3. c \in Seq({"open", "closed"})
  BY <1>1, <1>2
<1>4. Len(c) = Len(s)
  BY <1>1, <1>2, <1>3
<1> QED BY <1>1, <1>3, <1>4

LEMMA ElementOfSeq ==
    ASSUME NEW S, NEW s \in Seq(S), NEW i \in DOMAIN s
    PROVE  s[i] \in S
  OBVIOUS

(* Saturating keeps a count in its range.                                  *)
LEMMA CappedType == \A n \in Nat : Capped(n) \in 0..FailCap
  BY CapAssumption DEF Capped

(* Spending from one bound keeps the budget well formed.                   *)
LEMMA SpendType ==
    ASSUME NEW b \in Budgets,
           NEW kind \in {"flips", "saves", "restarts", "reads", "writes"},
           b[kind] > 0
    PROVE  [b EXCEPT ![kind] = @ - 1] \in Budgets
  BY BudgetAssumption DEF Budgets

(* A failed access spends at most the budget of its kind.                  *)
LEMMA FailsType ==
    ASSUME budget \in Budgets, NEW kind \in {"reads", "writes"}, Fails(kind)
    PROVE  budget' \in Budgets
  BY SpendType DEF Fails

(* Every variable of the service keeps its type.                           *)
THEOREM TypeCorrect == Spec => []TypeOK
<1> USE ThresholdAssumption, CapAssumption, BudgetAssumption
<1>1. Init => TypeOK
  BY DEF Init, TypeOK, Settings, Rounds, Stages, Budgets, NoRound
<1>2. TypeOK /\ [Next]_vars => TypeOK'
  <2> SUFFICES ASSUME TypeOK, [Next]_vars PROVE TypeOK'
    OBVIOUS
  <2> USE DEF TypeOK, store, Stages
  <2>0. NoRound \in Rounds
    BY DEF NoRound, Rounds
  <2>1. CASE StartRound
    <3>1. /\ settings.targets \in SUBSET Targets
          /\ settings.threshold \in 0..MaxThreshold
      BY DEF Settings
    <3>2. round' \in Rounds
      BY <2>1, <3>1 DEF StartRound, Rounds, NoRound
    <3> QED BY <2>1, <3>2 DEF StartRound
  <2>2. CASE \E t \in Targets : Dial(t)
    <3> PICK t \in Targets : Dial(t)
      BY <2>2
    <3> DEFINE ok == TcpLatency(t)
    <3> DEFINE r == [round EXCEPT !.todo = @ \ {t},
                                  !.anySuccess = @ \/ ok,
                                  !.cut = @ \/ proc = "stopping"]
    <3>1. StoreCheck(ok)
      BY DEF Dial
    <3>2. latest' \in {"none", "ok", "failed"} /\ budget' \in Budgets
      BY <3>1, FailsType DEF StoreCheck, Works
    <3>3. round' = r /\ r \in Rounds
      <4>1. ok \in BOOLEAN /\ (proc = "stopping") \in BOOLEAN
        BY DEF TcpLatency
      <4>2. (round.anySuccess \/ ok) \in BOOLEAN
        BY <4>1
      <4>3. (round.cut \/ proc = "stopping") \in BOOLEAN
        OBVIOUS
      <4>4. round.todo \ {t} \in SUBSET Targets
        BY DEF Rounds
      <4>5. r \in Rounds
        <5> HIDE DEF ok
        <5> QED BY <4>2, <4>3, <4>4 DEF Rounds
      <4> QED BY <4>5 DEF Dial
    <3>4. pc' \in Stages
      BY DEF Dial
    <3>5. StreakAfter(r) \in 0..FailCap
      <4>1. streak + 1 \in Nat
        OBVIOUS
      <4>2. Capped(streak + 1) \in 0..FailCap
        BY <4>1, CappedType
      <4> QED BY <4>2 DEF StreakAfter
    <3>6. streak' = streak \/ streak' = StreakAfter(r)
      BY DEF Dial
    <3> HIDE DEF r, ok
    <3> QED BY <3>2, <3>3, <3>4, <3>5, <3>6 DEF Dial
  <2>3. CASE ReadActive
    <3>1. failCount' \in 0..FailCap
      BY <2>3, CappedType DEF ReadActive, FailCountAfter
    <3> QED BY <2>0, <2>3, <3>1 DEF ReadActive, Works
  <2>4. CASE ReadActiveFails
    BY <2>0, <2>4, FailsType DEF ReadActiveFails, EndRound
  <2>5. CASE OpenCount
    BY <2>5 DEF OpenCount, Works
  <2>6. CASE OpenInsert
    BY <2>6 DEF OpenInsert, Works
  <2>7. CASE CloseUpdate
    BY <2>7, ClosedRows DEF CloseUpdate, Works
  <2>8. CASE UpdateFails
    BY <2>0, <2>8, FailsType DEF UpdateFails, EndRound
  <2>9. CASE Emit
    <3>1. CASE OutboxEnabled
      <4>1. OutageEvent \in [kind : {"open", "close"}, row : Nat]
        BY DEF OutageEvent
      <4>2. /\ events' = Append(events, OutageEvent)
            /\ UNCHANGED <<settings, outages, latest, proc, failCount, reach,
                           streak, budget>>
            /\ pc' = "idle" /\ round' = NoRound
        BY <2>9, <3>1 DEF Emit, EndRound, Works
      <4> QED BY <2>0, <4>1, <4>2
    <3>2. CASE ~OutboxEnabled
      BY <2>0, <2>9, <3>2 DEF Emit, EndRound
    <3> QED BY <3>1, <3>2
  <2>10. CASE EmitFails
    BY <2>0, <2>10, FailsType DEF EmitFails, EndRound
  <2>11. CASE SigTerm
    BY <2>11 DEF SigTerm
  <2>12. CASE Die
    BY <2>0, <2>12 DEF Die, EndRound
  <2>13. CASE Restart
    <3>1. budget' \in Budgets
      BY <2>13, SpendType DEF Restart
    <3> QED BY <2>13, <3>1 DEF Restart
  <2>14. CASE SaveSettings
    <3>1. budget' \in Budgets
      BY <2>14, SpendType DEF SaveSettings
    <3> QED BY <2>14, <3>1 DEF SaveSettings
  <2>15. CASE \E t \in Targets : Flip(t)
    <3>1. budget' \in Budgets
      BY <2>15, SpendType DEF Flip
    <3>2. reach' \in SUBSET Targets
      BY <2>15 DEF Flip
    <3> QED BY <2>15, <3>1, <3>2 DEF Flip
  <2>16. CASE UNCHANGED vars
    BY <2>16 DEF vars
  <2> QED
    BY <2>1, <2>2, <2>3, <2>4, <2>5, <2>6, <2>7, <2>8, <2>9, <2>10, <2>11,
       <2>12, <2>13, <2>14, <2>15, <2>16 DEF Next, LoopStep, Environment
<1> QED BY <1>1, <1>2, PTL DEF Spec

-----------------------------------------------------------------------------
(* One outage at a time.                                                   *)

(* OpenOutage inserts without holding a transaction over its count, so the *)
(* invariant records that no row is open while the insert is pending.      *)
OneOutage ==
    /\ SingleActive
    /\ pc \in {"count", "insert"} => ~HasOpen

(* A step that leaves the rows alone and does not start to open keeps it.  *)
LEMMA OneOutageKept ==
    ASSUME OneOutage, UNCHANGED outages,
           pc' \in {"count", "insert"} => pc \in {"count", "insert"}
    PROVE  OneOutage'
  BY DEF OneOutage, SingleActive, HasOpen

LEMMA OneOutageStep ==
    ASSUME TypeOK, OneOutage, [Next]_vars
    PROVE  OneOutage'
<1> USE DEF store
<1>1. CASE StartRound
  BY <1>1, OneOutageKept DEF StartRound
<1>2. CASE \E t \in Targets : Dial(t)
  BY <1>2, OneOutageKept DEF Dial, StoreCheck
<1>3. CASE ReadActive
  <2>1. pc' \in {"count", "insert"} => ~HasOpen
    BY <1>3 DEF ReadActive, ShouldOpenOutage
  <2> QED BY <1>3, <2>1 DEF ReadActive, OneOutage, SingleActive, HasOpen
<1>4. CASE ReadActiveFails
  BY <1>4, OneOutageKept DEF ReadActiveFails, EndRound
<1>5. CASE OpenCount
  BY <1>5, OneOutageKept DEF OpenCount
<1>6. CASE OpenInsert
  <2>1. ~HasOpen /\ pc' = "emitOpen" /\ outages' = Append(outages, "open")
    BY <1>6 DEF OpenInsert, OneOutage
  <2>2. \A i \in DOMAIN outages' : outages'[i] = "open" => i = Len(outages')
    BY <2>1 DEF TypeOK, HasOpen
  <2> QED BY <2>1, <2>2 DEF OneOutage, SingleActive
<1>7. CASE CloseUpdate
  BY <1>7 DEF CloseUpdate, OneOutage, SingleActive, HasOpen
<1>8. CASE UpdateFails
  BY <1>8, OneOutageKept DEF UpdateFails, EndRound
<1>9. CASE Emit
  BY <1>9, OneOutageKept DEF Emit, EndRound
<1>10. CASE EmitFails
  BY <1>10, OneOutageKept DEF EmitFails, EndRound
<1>11. CASE SigTerm
  BY <1>11, OneOutageKept DEF SigTerm
<1>12. CASE Die
  BY <1>12, OneOutageKept DEF Die, EndRound
<1>13. CASE Restart
  BY <1>13, OneOutageKept DEF Restart
<1>14. CASE SaveSettings
  BY <1>14, OneOutageKept DEF SaveSettings
<1>15. CASE \E t \in Targets : Flip(t)
  BY <1>15, OneOutageKept DEF Flip
<1>16. CASE UNCHANGED vars
  BY <1>16, OneOutageKept DEF vars
<1> QED
  BY <1>1, <1>2, <1>3, <1>4, <1>5, <1>6, <1>7, <1>8, <1>9, <1>10, <1>11,
     <1>12, <1>13, <1>14, <1>15, <1>16 DEF Next, LoopStep, Environment

(* The count before an insert still holds at the insert.                   *)
THEOREM OneOutageInvariant == Spec => []OneOutage
<1>1. Init => OneOutage
  BY DEF Init, OneOutage, SingleActive, HasOpen
<1>2. TypeOK /\ OneOutage /\ [Next]_vars => OneOutage'
  BY OneOutageStep
<1> QED BY <1>1, <1>2, TypeCorrect, PTL DEF Spec

(* At most one outage is ever active, and it is the newest row, whatever   *)
(* errors, signals, kills and restarts happen.                             *)
THEOREM SingleActiveCorrect == Spec => []SingleActive
<1>1. OneOutage => SingleActive
  BY DEF OneOutage
<1> QED BY <1>1, OneOutageInvariant, PTL

-----------------------------------------------------------------------------
(* The outage table implements the abstract outage history.                *)

LEMMA LogUnchanged ==
    ASSUME UNCHANGED outages
    PROVE  UNCHANGED Log!vars
  BY DEF HasOpen, Log!vars

LEMMA LogStep ==
    ASSUME TypeOK, OneOutage, [Next]_vars
    PROVE  [Log!Next]_(Log!vars)
<1> USE DEF store
<1>1. CASE OpenInsert
  <2>1. ~HasOpen /\ outages' = Append(outages, "open")
    BY <1>1 DEF OpenInsert, OneOutage
  <2>2. Len(outages') = Len(outages) + 1 /\ outages'[Len(outages')] = "open"
    BY <2>1 DEF TypeOK
  <2>3. Len(outages') \in DOMAIN outages'
    BY <2>1, <2>2 DEF TypeOK
  <2>4. HasOpen'
    BY <2>2, <2>3 DEF HasOpen
  <2>5. HasOpen \in BOOLEAN /\ HasOpen' \in BOOLEAN
    BY DEF HasOpen
  <2> QED BY <2>1, <2>2, <2>4, <2>5 DEF Log!Next, Log!Begin
<1>2. CASE CloseUpdate
  <2>1. outages' = [i \in DOMAIN outages |-> "closed"]
    BY <1>2 DEF CloseUpdate
  <2>2. Len(outages') = Len(outages) /\ ~HasOpen'
    BY <2>1, ClosedRows DEF TypeOK, HasOpen
  <2>3. CASE HasOpen
    BY <2>2, <2>3 DEF Log!Next, Log!End
  <2>4. CASE ~HasOpen
    BY <2>2, <2>4 DEF Log!vars, HasOpen
  <2> QED BY <2>3, <2>4
<1>3. CASE UNCHANGED outages
  BY <1>3, LogUnchanged
<1> QED
  BY <1>1, <1>2, <1>3
  DEF Next, LoopStep, Environment, vars, StartRound, Dial, StoreCheck,
      ReadActive, ReadActiveFails, OpenCount, UpdateFails, Emit, EmitFails,
      SigTerm, Die, Restart, SaveSettings, Flip

(* Every behaviour of the latency loop is, on its outage rows, a behaviour *)
(* of the abstract outage history.                                         *)
THEOREM RefinesLogCorrect == Spec => RefinesLog
<1>1. Init => Log!Init
  BY DEF Init, Log!Init, HasOpen
<1>2. TypeOK /\ OneOutage /\ [Next]_vars => [Log!Next]_(Log!vars)
  BY LogStep
<1> QED
  BY <1>1, <1>2, TypeCorrect, OneOutageInvariant, PTL
  DEF Spec, RefinesLog, Log!Spec

-----------------------------------------------------------------------------
(* No outage before its streak, up to the first failed read.               *)

(* failCount never runs ahead of the genuine streak while the process is   *)
(* up; between the last dial and the read of the active outage it lags one *)
(* round behind.  A round cut by the cancelled context is never counted.   *)
Counts ==
    /\ proc = "down" => pc = "idle" /\ failCount = 0
    /\ proc = "up" =>
          /\ pc = "dial" => ~round.cut
          /\ pc # "active" => failCount <= streak
          /\ pc = "active" =>
                round.anySuccess \/ Capped(failCount + 1) <= streak
    /\ OpenOnlyAfterStreak

NoMisread == budget.reads = ReadErrors
CountsAgree == NoMisread => Counts

(* A read that failed is never taken back.                                 *)
LEMMA MisreadStays ==
    ASSUME TypeOK, [Next]_vars, NoMisread'
    PROVE  NoMisread
<1>1. budget \in Budgets /\ ReadErrors \in Nat
  BY BudgetAssumption DEF TypeOK
<1>2. \/ budget' = budget
      \/ \E k \in {"flips", "saves", "restarts", "reads", "writes"} :
            budget' = [budget EXCEPT ![k] = @ - 1]
  BY Zenon DEF Next, LoopStep, Environment, StartRound, Dial, StoreCheck,
     ReadActive, ReadActiveFails, OpenCount, OpenInsert, CloseUpdate,
     UpdateFails, Emit, EmitFails, SigTerm, Die, Restart, SaveSettings, Flip,
     Works, Fails, vars
<1>3. CASE budget' = budget
  BY <1>3 DEF NoMisread
<1>4. CASE \E k \in {"flips", "saves", "restarts", "reads", "writes"} :
             budget' = [budget EXCEPT ![k] = @ - 1]
  BY <1>1, <1>4 DEF NoMisread, Budgets
<1> QED BY <1>2, <1>3, <1>4

LEMMA CappedMonotone ==
    \A m, n \in Nat : m <= n => Capped(m) <= Capped(n)
  BY CapAssumption DEF Capped

LEMMA CountsStep ==
    ASSUME TypeOK, TypeOK', CountsAgree, [Next]_vars
    PROVE  CountsAgree'
<1> SUFFICES ASSUME NoMisread'
             PROVE  Counts'
  BY DEF CountsAgree
<1> USE DEF store, OpenOnlyAfterStreak
<1>a. NoMisread /\ Counts
  BY MisreadStays DEF CountsAgree
<1>0. /\ failCount \in 0..FailCap /\ streak \in 0..FailCap
      /\ failCount \in Nat /\ streak \in Nat /\ FailCap \in Nat
  BY CapAssumption DEF TypeOK
<1>1. CASE StartRound
  BY <1>a, <1>0, <1>1 DEF StartRound, Counts, NoRound
<1>2. CASE \E t \in Targets : Dial(t)
  <2> PICK t \in Targets : Dial(t)
    BY <1>2
  <2> DEFINE ok == TcpLatency(t)
  <2> DEFINE r == [round EXCEPT !.todo = @ \ {t},
                                !.anySuccess = @ \/ ok,
                                !.cut = @ \/ proc = "stopping"]
  <2>2. /\ pc = "dial" /\ round' = r /\ proc' = proc /\ failCount' = failCount
        /\ \/ pc' = "dial" /\ streak' = streak
           \/ pc' = "active" /\ streak' = StreakAfter(r)
    BY DEF Dial
  <2>3. proc = "up" => r.cut = round.cut /\ ~round.cut
    BY <1>a, <2>2 DEF Counts, TypeOK, Rounds
  <2>4. r.anySuccess \/ Capped(failCount + 1) <= Capped(streak + 1)
        \/ proc # "up"
    BY <1>a, <1>0, <2>2, CappedMonotone DEF Counts
  <2>5. proc = "up" /\ pc' = "active" =>
          round'.anySuccess \/ Capped(failCount' + 1) <= streak'
    <3> HIDE DEF r
    <3> QED BY <2>2, <2>3, <2>4 DEF StreakAfter
  <2>6. proc # "down"
    BY <1>a, <2>2 DEF Counts
  <2>7. proc = "up" => ~round'.cut
    <3> HIDE DEF r
    <3> QED BY <2>2, <2>3
  <2> HIDE DEF r
  <2> QED BY <1>a, <1>0, <2>2, <2>5, <2>6, <2>7 DEF Counts
<1>3. CASE ReadActive
  <2>1. proc = "up" /\ pc = "active"
    BY <1>a, <1>3 DEF ReadActive, Works
  <2>2. /\ failCount' = FailCountAfter(round.anySuccess)
        /\ proc' = proc /\ streak' = streak /\ budget' = budget
        /\ pc' # "active" /\ pc' # "dial"
    BY <1>3 DEF ReadActive, Works
  <2>3. failCount' <= streak
    BY <1>a, <1>0, <2>1, <2>2 DEF FailCountAfter, Counts
  <2>4. pc' \in {"count", "insert"} =>
          failCount' >= round.threshold /\ round' = round
    BY <1>3 DEF ReadActive, ShouldOpenOutage
  <2>5. round.threshold \in Nat /\ failCount' \in Nat
    BY ThresholdAssumption, CapAssumption DEF TypeOK, Rounds
  <2> QED BY <1>a, <1>0, <2>1, <2>2, <2>3, <2>4, <2>5 DEF Counts
<1>4. CASE ReadActiveFails
  <2>1. budget \in Budgets /\ ReadErrors \in Nat
    BY BudgetAssumption DEF TypeOK
  <2>2. proc = "stopping"
    BY <1>4, <1>a, <2>1 DEF ReadActiveFails, Fails, NoMisread, Budgets
  <2> QED BY <1>4, <2>2 DEF ReadActiveFails, EndRound, Counts
<1>5. CASE OpenCount
  BY <1>a, <1>5 DEF OpenCount, Works, Counts
<1>6. CASE OpenInsert
  BY <1>a, <1>6 DEF OpenInsert, Works, Counts
<1>7. CASE CloseUpdate
  BY <1>a, <1>7 DEF CloseUpdate, Works, Counts
<1>8. CASE Fails("writes") /\ EndRound /\ pc # "active" /\ pc # "dial"
           /\ UNCHANGED <<proc, failCount, streak>>
  BY <1>a, <1>8 DEF EndRound, Counts
<1>9. CASE Emit
  BY <1>a, <1>9 DEF Emit, EndRound, Works, Counts
<1>10. CASE UpdateFails \/ EmitFails
  BY <1>8, <1>10 DEF UpdateFails, EmitFails
<1>11. CASE SigTerm
  BY <1>a, <1>11 DEF SigTerm, Counts
<1>12. CASE Die
  BY <1>a, <1>12 DEF Die, EndRound, Counts
<1>13. CASE Restart
  BY <1>a, <1>0, <1>13 DEF Restart, Counts
<1>14. CASE SaveSettings \/ \E t \in Targets : Flip(t)
  BY <1>a, <1>14 DEF SaveSettings, Flip, Counts
<1>15. CASE UNCHANGED vars
  BY <1>a, <1>15 DEF vars, Counts
<1> QED
  BY <1>1, <1>2, <1>3, <1>4, <1>5, <1>6, <1>7, <1>9, <1>10, <1>11, <1>12,
     <1>13, <1>14, <1>15 DEF Next, LoopStep, Environment

(* Until a read of the active outage fails, an outage is opened only after *)
(* a full streak of failed rounds, through every restart, signal, failed   *)
(* write and change of the settings; the run outage_read_error shows that  *)
(* one failed read is enough to break it.                                  *)
THEOREM StreakUnlessMisreadCorrect == Spec => []StreakUnlessMisread
<1>1. Init => CountsAgree
  BY CapAssumption DEF Init, CountsAgree, Counts, OpenOnlyAfterStreak
<1>2. TypeOK /\ TypeOK' /\ CountsAgree /\ [Next]_vars => CountsAgree'
  BY CountsStep
<1>3. CountsAgree => StreakUnlessMisread
  BY DEF CountsAgree, Counts, NoMisread, StreakUnlessMisread
<1> QED BY <1>1, <1>2, <1>3, TypeCorrect, PTL DEF Spec

(* Where no read can fail, it holds without a condition.                   *)
THEOREM OpenOnlyAfterStreakCorrect ==
    ASSUME ReadErrors = 0
    PROVE  Spec => []OpenOnlyAfterStreak
<1>1. TypeOK /\ StreakUnlessMisread => OpenOnlyAfterStreak
  BY DEF TypeOK, Budgets, StreakUnlessMisread
<1> QED BY <1>1, StreakUnlessMisreadCorrect, TypeCorrect, PTL

-----------------------------------------------------------------------------
(* The outbox follows the table.                                           *)

(* Where an event is about to be written, the newest row has the state the *)
(* event reports and no event of that kind was written for it.             *)
EventsInv ==
    /\ EventsFollowRows
    /\ pc = "close" => HasOpen
    /\ pc = "emitOpen" =>
          /\ outages # <<>>
          /\ \A i \in DOMAIN events : events[i].row < Len(outages)
    /\ pc = "emitClose" =>
          /\ outages # <<>> /\ outages[Len(outages)] = "closed"
          /\ \A i \in DOMAIN events :
                events[i].row = Len(outages) => events[i].kind = "open"

LEMMA EventsKept ==
    ASSUME EventsInv, UNCHANGED <<outages, events>>,
           pc' \in {"close", "emitOpen", "emitClose"} => pc' = pc
    PROVE  EventsInv'
  BY DEF EventsInv, EventsFollowRows, HasOpen

LEMMA EventsStep ==
    ASSUME TypeOK, OneOutage, EventsInv, [Next]_vars
    PROVE  EventsInv'
<1> USE DEF store
<1> DEFINE N == Len(outages)
<1>0. /\ N \in Nat /\ DOMAIN outages = 1..N
      /\ \A i \in DOMAIN events : /\ events[i].row \in 1..N
                                  /\ events[i].kind \in {"open", "close"}
  <2>1. N \in Nat /\ DOMAIN outages = 1..N
    BY DEF TypeOK
  <2>2. \A i \in DOMAIN events :
           events[i] \in [kind : {"open", "close"}, row : Nat]
    <3>1. events \in Seq([kind : {"open", "close"}, row : Nat])
      BY DEF TypeOK
    <3> QED BY <3>1, ElementOfSeq
  <2>3. \A i \in DOMAIN events : events[i].row \in DOMAIN outages
    BY DEF EventsInv, EventsFollowRows
  <2> QED BY <2>1, <2>2, <2>3
<1>1. CASE StartRound
  BY <1>1, EventsKept DEF StartRound
<1>2. CASE \E t \in Targets : Dial(t)
  BY <1>2, EventsKept DEF Dial, StoreCheck
<1>3. CASE ReadActive
  <2>1. pc' = "close" => HasOpen
    BY <1>3 DEF ReadActive, ShouldCloseOutage
  <2>2. UNCHANGED <<outages, events>> /\ pc' # "emitOpen" /\ pc' # "emitClose"
    BY <1>3 DEF ReadActive
  <2> QED BY <2>1, <2>2 DEF EventsInv, EventsFollowRows, HasOpen
<1>4. CASE ReadActiveFails
  BY <1>4, EventsKept DEF ReadActiveFails, EndRound
<1>5. CASE OpenCount
  BY <1>5, EventsKept DEF OpenCount, OneOutage
<1>6. CASE OpenInsert
  <2>1. /\ outages' = Append(outages, "open") /\ events' = events
        /\ pc' = "emitOpen"
    BY <1>6 DEF OpenInsert
  <2>2. /\ Len(outages') = N + 1 /\ DOMAIN outages' = 1..(N + 1)
        /\ \A i \in 1..N : outages'[i] = outages[i]
        /\ outages' # <<>>
    BY <1>0, <2>1 DEF TypeOK
  <2>3. EventsFollowRows'
    BY <1>0, <2>1, <2>2 DEF EventsInv, EventsFollowRows
  <2>4. \A i \in DOMAIN events' : events'[i].row < Len(outages')
    BY <1>0, <2>1, <2>2
  <2> HIDE DEF N
  <2> QED BY <2>1, <2>2, <2>3, <2>4 DEF EventsInv
<1>7. CASE CloseUpdate
  <2>1. /\ outages' = [i \in DOMAIN outages |-> "closed"] /\ events' = events
        /\ pc = "close" /\ pc' = "emitClose"
    BY <1>7 DEF CloseUpdate
  <2>2. Len(outages') = N /\ DOMAIN outages' = 1..N
    BY <1>0, <2>1, ClosedRows DEF TypeOK
  <2>3. N \in 1..N /\ outages[N] = "open"
    BY <1>0, <2>1 DEF EventsInv, OneOutage, SingleActive, HasOpen
  <2>4. EventsFollowRows'
    BY <1>0, <2>1, <2>2 DEF EventsInv, EventsFollowRows
  <2>5. \A i \in DOMAIN events : events[i].row = N => events[i].kind = "open"
    BY <1>0, <2>3 DEF EventsInv, EventsFollowRows
  <2>6. outages' # <<>> /\ outages'[N] = "closed"
    BY <1>0, <2>1, <2>2, <2>3
  <2> HIDE DEF N
  <2> QED BY <2>1, <2>2, <2>4, <2>5, <2>6 DEF EventsInv
<1>8. CASE UpdateFails
  BY <1>8, EventsKept DEF UpdateFails, EndRound
<1>17. CASE Emit /\ ~OutboxEnabled
  BY <1>17, EventsKept DEF Emit, EndRound
<1>9. CASE Emit /\ OutboxEnabled
  <2>1. /\ pc \in {"emitOpen", "emitClose"} /\ pc' = "idle"
        /\ events' = Append(events, OutageEvent) /\ outages' = outages
    BY <1>9 DEF Emit, EndRound
  <2>2. N \in 1..N /\ (pc = "emitClose" => outages[N] = "closed")
    BY <1>0, <2>1 DEF EventsInv, TypeOK
  <2>3. PICK m \in Nat : m = Len(events) /\ DOMAIN events = 1..m
    BY DEF TypeOK
  <2>4. /\ DOMAIN events' = 1..(m + 1) /\ events'[m + 1] = OutageEvent
        /\ \A i \in 1..m : events'[i] = events[i]
    BY <2>1, <2>3 DEF TypeOK, OutageEvent
  <2>5. /\ OutageEvent.row = N
        /\ OutageEvent.kind = IF pc = "emitOpen" THEN "open" ELSE "close"
    BY DEF OutageEvent
  <2>6. \A i \in 1..(m + 1) :
           /\ events'[i].row \in 1..N
           /\ events'[i].kind = "close" => outages[events'[i].row] = "closed"
    <3>1. \A i \in 1..m :
             /\ events[i].row \in 1..N
             /\ events[i].kind = "close" => outages[events[i].row] = "closed"
      BY <1>0, <2>3 DEF EventsInv, EventsFollowRows
    <3> QED BY <2>1, <2>2, <2>3, <2>4, <2>5, <3>1
  <2>7. \A i \in 1..m :
           \/ events[i].row < N
           \/ events[i].row = N /\ events[i].kind = "open" /\ pc = "emitClose"
    BY <1>0, <2>1, <2>3 DEF EventsInv
  <2>8. \A i, j \in 1..(m + 1) : i < j =>
           \/ events'[i].row < events'[j].row
           \/ /\ events'[i].row = events'[j].row
              /\ events'[i].kind = "open" /\ events'[j].kind = "close"
    <3>1. \A i, j \in 1..m : i < j =>
             \/ events[i].row < events[j].row
             \/ /\ events[i].row = events[j].row
                /\ events[i].kind = "open" /\ events[j].kind = "close"
      BY <2>3 DEF EventsInv, EventsFollowRows
    <3>2. ASSUME NEW i \in 1..m, NEW j \in 1..m, i < j
          PROVE  events'[i] = events[i] /\ events'[j] = events[j]
      BY <2>4
    <3>3. ASSUME NEW i \in 1..m
          PROVE  \/ events'[i].row < events'[m + 1].row
                 \/ /\ events'[i].row = events'[m + 1].row
                    /\ events'[i].kind = "open"
                    /\ events'[m + 1].kind = "close"
      <4>1. events'[i] = events[i] /\ events'[m + 1] = OutageEvent
        BY <2>4
      <4> HIDE DEF N
      <4> QED BY <2>5, <2>7, <4>1
    <3>4. \A i, j \in 1..(m + 1) : i < j =>
             i \in 1..m /\ (j \in 1..m \/ j = m + 1)
      BY <2>3
    <3> QED BY <3>1, <3>2, <3>3, <3>4
  <2>9. EventsFollowRows'
    BY <1>0, <2>1, <2>4, <2>6, <2>8 DEF EventsFollowRows
  <2> QED BY <2>1, <2>9 DEF EventsInv
<1>10. CASE EmitFails
  BY <1>10, EventsKept DEF EmitFails, EndRound
<1>11. CASE SigTerm
  BY <1>11, EventsKept DEF SigTerm
<1>12. CASE Die
  BY <1>12, EventsKept DEF Die, EndRound
<1>13. CASE Restart
  BY <1>13, EventsKept DEF Restart
<1>14. CASE SaveSettings
  BY <1>14, EventsKept DEF SaveSettings
<1>15. CASE \E t \in Targets : Flip(t)
  BY <1>15, EventsKept DEF Flip
<1>16. CASE UNCHANGED vars
  BY <1>16, EventsKept DEF vars
<1> QED
  BY <1>1, <1>2, <1>3, <1>4, <1>5, <1>6, <1>7, <1>8, <1>9, <1>10, <1>11,
     <1>12, <1>13, <1>14, <1>15, <1>16, <1>17 DEF Next, LoopStep, Environment

(* The notifications never contradict the outage table: no event without   *)
(* its row, no event twice, none out of order, no recovery of an outage    *)
(* that is still open.                                                     *)
THEOREM EventsFollowRowsCorrect == Spec => []EventsFollowRows
<1>1. Init => EventsInv
  BY DEF Init, EventsInv, EventsFollowRows
<1>2. TypeOK /\ OneOutage /\ EventsInv /\ [Next]_vars => EventsInv'
  BY EventsStep
<1>3. EventsInv => EventsFollowRows
  BY DEF EventsInv
<1> QED
  BY <1>1, <1>2, <1>3, TypeCorrect, OneOutageInvariant, PTL DEF Spec
-----------------------------------------------------------------------------
(* Rounds without a fault.                                                 *)

(* A fault is never taken back.                                            *)
LEMMA DisturbanceStays ==
    ASSUME TypeOK, [Next]_vars, Undisturbed'
    PROVE  /\ Undisturbed /\ ~Restart
           /\ \A kind \in {"reads", "writes"} : ~Fails(kind)
<1>1. /\ budget \in Budgets /\ MaxRestarts \in Nat
      /\ ReadErrors \in Nat /\ WriteErrors \in Nat
  BY BudgetAssumption DEF TypeOK
<1>2. \/ budget' = budget
      \/ \E k \in {"flips", "saves", "restarts", "reads", "writes"} :
            budget' = [budget EXCEPT ![k] = @ - 1]
  BY Zenon DEF Next, LoopStep, Environment, StartRound, Dial, StoreCheck,
     ReadActive, ReadActiveFails, OpenCount, OpenInsert, CloseUpdate,
     UpdateFails, Emit, EmitFails, SigTerm, Die, Restart, SaveSettings, Flip,
     Works, Fails, vars
<1>3. /\ budget.restarts = MaxRestarts /\ budget.reads = ReadErrors
      /\ budget.writes = WriteErrors
  BY <1>1, <1>2 DEF Undisturbed, Budgets
<1>4. ~Restart
  BY <1>1, <1>3 DEF Restart, Undisturbed, Budgets
<1>5. proc = "up"
  <2>1. proc' = "up"
    BY DEF Undisturbed
  <2> QED
    BY <1>4, <2>1 DEF Next, LoopStep, Environment, StartRound, Dial,
       ReadActive, ReadActiveFails, OpenCount, OpenInsert, CloseUpdate,
       UpdateFails, Emit, EmitFails, SigTerm, Die, SaveSettings, Flip, vars
<1>6. \A kind \in {"reads", "writes"} : ~Fails(kind)
  BY <1>1, <1>3, <1>5 DEF Fails, Undisturbed, Budgets
<1> QED BY <1>3, <1>4, <1>5, <1>6 DEF Undisturbed

(* A row is announced as soon as the loop has left the place where it      *)
(* writes the event.                                                       *)
LEMMA AnnouncedStep ==
    ASSUME TypeOK, OneOutage, NoSilentOutage, [Next]_vars
    PROVE  NoSilentOutage'
<1> SUFFICES ASSUME OutboxEnabled, Undisturbed'
             PROVE  \A r \in DOMAIN outages' :
                      /\ \/ Announced("open", r)'
                         \/ r = Len(outages') /\ pc' = "emitOpen"
                      /\ outages'[r] = "closed" =>
                            \/ Announced("close", r)'
                            \/ r = Len(outages') /\ pc' = "emitClose"
  BY DEF NoSilentOutage
<1> USE DEF store
<1>a. Undisturbed /\ ~Restart /\ ~Fails("reads") /\ ~Fails("writes")
  BY DisturbanceStays
<1>b. \A r \in DOMAIN outages :
        /\ Announced("open", r) \/ (r = Len(outages) /\ pc = "emitOpen")
        /\ outages[r] = "closed" =>
              Announced("close", r) \/ (r = Len(outages) /\ pc = "emitClose")
  BY <1>a DEF NoSilentOutage
<1>c. \E m \in Nat : Len(events) = m /\ DOMAIN events = 1..m
  BY DEF TypeOK
<1>d. \E n \in Nat : Len(outages) = n /\ DOMAIN outages = 1..n
  BY DEF TypeOK
<1>1. CASE /\ UNCHANGED <<outages, events>>
           /\ pc \in {"emitOpen", "emitClose"} => pc' = pc
  BY <1>b, <1>1 DEF Announced
<1>2. CASE OpenInsert
  <2>1. /\ outages' = Append(outages, "open") /\ events' = events
        /\ pc = "insert" /\ pc' = "emitOpen"
    BY <1>2 DEF OpenInsert
  <2>2. PICK n \in Nat : Len(outages) = n /\ DOMAIN outages = 1..n
    BY <1>d
  <2>3. /\ Len(outages') = n + 1 /\ DOMAIN outages' = 1..(n + 1)
        /\ \A i \in 1..n : outages'[i] = outages[i]
        /\ outages'[n + 1] = "open"
    BY <2>1, <2>2 DEF TypeOK
  <2>4. \A r \in 1..n : /\ Announced("open", r)'
                        /\ outages[r] = "closed" => Announced("close", r)'
    BY <1>b, <2>1, <2>2 DEF Announced
  <2> QED BY <2>1, <2>2, <2>3, <2>4
<1>3. CASE CloseUpdate
  <2>1. /\ outages' = [i \in DOMAIN outages |-> "closed"] /\ events' = events
        /\ pc = "close" /\ pc' = "emitClose"
    BY <1>3 DEF CloseUpdate
  <2>2. Len(outages') = Len(outages) /\ DOMAIN outages' = DOMAIN outages
    BY <2>1, ClosedRows DEF TypeOK
  <2>3. \A r \in DOMAIN outages : Announced("open", r)'
    BY <1>b, <2>1 DEF Announced
  <2>4. ASSUME NEW r \in DOMAIN outages, r # Len(outages)
        PROVE  Announced("close", r)'
    <3>1. outages[r] \in {"open", "closed"}
      BY ElementOfSeq DEF TypeOK
    <3>2. outages[r] = "closed"
      BY <2>4, <3>1 DEF OneOutage, SingleActive
    <3> QED BY <1>b, <2>1, <3>2 DEF Announced
  <2> QED BY <2>1, <2>2, <2>3, <2>4
<1>4. CASE Emit
  <2>1. /\ pc \in {"emitOpen", "emitClose"} /\ outages' = outages
        /\ events' = Append(events, OutageEvent)
    BY <1>4 DEF Emit
  <2>2. PICK m \in Nat : Len(events) = m /\ DOMAIN events = 1..m
    BY <1>c
  <2>3. /\ DOMAIN events' = 1..(m + 1) /\ events'[m + 1] = OutageEvent
        /\ \A i \in 1..m : events'[i] = events[i]
    BY <2>1, <2>2 DEF TypeOK, OutageEvent
  <2>4. \A kind, r : Announced(kind, r) => Announced(kind, r)'
    BY <2>2, <2>3 DEF Announced
  <2>5. m + 1 \in DOMAIN events'
    BY <2>3
  <2>6. /\ pc = "emitOpen" => Announced("open", Len(outages))'
        /\ pc = "emitClose" => Announced("close", Len(outages))'
    BY <2>1, <2>3, <2>5 DEF Announced, OutageEvent
  <2> QED BY <1>b, <2>1, <2>4, <2>6
<1>5. CASE StartRound \/ ReadActive \/ OpenCount
  BY <1>1, <1>5 DEF StartRound, ReadActive, OpenCount
<1>6. CASE \E t \in Targets : Dial(t)
  BY <1>1, <1>6 DEF Dial, StoreCheck
<1>7. CASE SigTerm \/ Die
  BY <1>7 DEF SigTerm, Die, Undisturbed
<1>8. CASE SaveSettings \/ \E t \in Targets : Flip(t)
  BY <1>1, <1>8 DEF SaveSettings, Flip
<1>9. CASE UNCHANGED vars
  BY <1>1, <1>9 DEF vars
<1>10. ~ReadActiveFails /\ ~UpdateFails /\ ~EmitFails
  BY <1>a DEF ReadActiveFails, UpdateFails, EmitFails
<1> QED
  BY <1>a, <1>2, <1>3, <1>4, <1>5, <1>6, <1>7, <1>8, <1>9, <1>10
  DEF Next, LoopStep, Environment

(* As long as nothing fails and the process is not stopped, every outage   *)
(* is announced when it begins and when it ends.                           *)
THEOREM NoSilentOutageCorrect == Spec => []NoSilentOutage
<1>1. Init => NoSilentOutage
  BY DEF Init, NoSilentOutage
<1>2. TypeOK /\ OneOutage /\ NoSilentOutage /\ [Next]_vars => NoSilentOutage'
  BY AnnouncedStep
<1> QED BY <1>1, <1>2, TypeCorrect, OneOutageInvariant, PTL DEF Spec

(* What the round has found out stands beside the newest check: a round    *)
(* without a success leaves a failed check, and one with a success leaves  *)
(* no outage open.                                                         *)
Shown ==
    /\ pc = "idle" /\ HasOpen => latest # "ok"
    /\ pc = "dial" => round.anySuccess \/ (HasOpen => latest # "ok")
    /\ pc = "active" => round.anySuccess \/ latest = "failed"
    /\ pc \in {"count", "insert", "emitOpen"} => latest = "failed"
    /\ pc = "emitClose" => ~HasOpen

LEMMA ShownStep ==
    ASSUME TypeOK, Undisturbed => Shown, [Next]_vars, Undisturbed'
    PROVE  Shown'
<1> USE DEF store
<1>a. /\ Undisturbed /\ ~Restart /\ ~Fails("reads") /\ ~Fails("writes")
      /\ proc = "up"
  BY DisturbanceStays DEF Undisturbed
<1>b. Shown
  BY <1>a
<1>1. CASE StartRound
  BY <1>b, <1>1 DEF StartRound, Shown, HasOpen
<1>2. CASE \E t \in Targets : Dial(t)
  <2>1. PICK t \in Targets : Dial(t)
    BY <1>2
  <2>2. /\ pc = "dial" /\ pc' \in {"dial", "active"} /\ outages' = outages
        /\ round'.anySuccess = (round.anySuccess \/ TcpLatency(t))
        /\ latest' = IF TcpLatency(t) THEN "ok" ELSE "failed"
    BY <1>a, <2>1 DEF Dial, StoreCheck, TypeOK, Rounds
  <2> QED BY <1>b, <2>2 DEF Shown, HasOpen
<1>3. CASE ReadActive
  <2>1. /\ pc = "active" /\ UNCHANGED <<outages, latest>>
        /\ pc' \in {"count", "close", "idle"}
        /\ pc' = "count" =>
              ShouldOpenOutage(FailCountAfter(round.anySuccess),
                               round.threshold, HasOpen)
        /\ pc' = "idle" => ~ShouldCloseOutage(round.anySuccess, HasOpen)
    BY <1>3 DEF ReadActive
  <2>2. pc' = "count" => ~round.anySuccess
    <3>1. round.threshold \in Nat
      BY ThresholdAssumption DEF TypeOK, Rounds
    <3> QED BY <2>1, <3>1 DEF ShouldOpenOutage, FailCountAfter
  <2> QED BY <1>b, <2>1, <2>2 DEF Shown, HasOpen, ShouldCloseOutage
<1>4. CASE OpenCount
  BY <1>b, <1>4 DEF OpenCount, Shown
<1>5. CASE OpenInsert
  BY <1>b, <1>5 DEF OpenInsert, Shown
<1>6. CASE CloseUpdate
  <2>1. pc' = "emitClose" /\ outages' = [i \in DOMAIN outages |-> "closed"]
    BY <1>6 DEF CloseUpdate
  <2>2. ~HasOpen'
    BY <2>1 DEF HasOpen
  <2> QED BY <2>1, <2>2 DEF Shown
<1>7. CASE Emit
  BY <1>b, <1>7 DEF Emit, EndRound, Shown, HasOpen
<1>8. CASE SigTerm \/ Die
  BY <1>8 DEF SigTerm, Die, Undisturbed
<1>9. CASE SaveSettings \/ \E t \in Targets : Flip(t)
  BY <1>b, <1>9 DEF SaveSettings, Flip, Shown, HasOpen
<1>10. CASE UNCHANGED vars
  BY <1>b, <1>10 DEF vars, Shown, HasOpen
<1>11. ~ReadActiveFails /\ ~UpdateFails /\ ~EmitFails
  BY <1>a DEF ReadActiveFails, UpdateFails, EmitFails
<1> QED
  BY <1>a, <1>1, <1>2, <1>3, <1>4, <1>5, <1>6, <1>7, <1>8, <1>9, <1>10, <1>11
  DEF Next, LoopStep, Environment

(* As long as nothing fails, an active outage is never shown beside a      *)
(* newest check that succeeded, once the round is over.                    *)
THEOREM DashboardAgreesCorrect == Spec => []DashboardAgrees
<1> DEFINE Inv == Undisturbed => Shown
<1>1. Init => Inv
  BY DEF Init, Shown, HasOpen
<1>2. TypeOK /\ Inv /\ [Next]_vars => Inv'
  BY ShownStep
<1>3. Inv => DashboardAgrees
  BY DEF DashboardAgrees, Shown
<1> QED BY <1>1, <1>2, <1>3, TypeCorrect, PTL DEF Spec
==============================================================================

------------------------- MODULE EventPipelineProofs -------------------------
(***************************************************************************)
(* Proofs about EventPipeline, for any goroutines and bounds.              *)
(***************************************************************************)
EXTENDS EventPipeline, FiniteSetTheorems, TLAPS

Written == {"outbox", "processed", "failed", "removed"}
Busy == {"valid", "send", "processed", "failed"}
SameWriter(d, e) == d \in 1..Len(by) /\ e \in 1..Len(by) /\ by[d] = by[e]

(* A goroutine writes its newest event only, and nobody else's.            *)
WriterLinked ==
    \A w \in Writers : writer[w].pc # "idle" =>
        LET e == writer[w].file
        IN  /\ e \in 1..Len(by) /\ by[e] = w /\ place[e] = "tmp"
            /\ \A f \in 1..Len(by) : by[f] = w => f <= e
            /\ writer[w].pc = "rename" => e \in whole

(* An event reaches the outbox whole, and DSM only from there.             *)
PlaceLinked ==
    \A e \in Events :
        /\ place[e] = "none" <=> e > Len(by)
        /\ place[e] \in Written => e \in whole
        /\ place[e] = "processed" => sent[e] > 0
        /\ sent[e] > 0 \/ e \in orphans => place[e] \in Written

(* The event the helper holds is still in the outbox.                      *)
HelperLinked ==
    /\ helper.pc \in Busy =>
          helper.file \in Events /\ place[helper.file] = "outbox"
    /\ helper.pc = "processed" => sent[helper.file] > 0
    /\ \A e \in helper.todo : place[e] \in Written

(* What the sweep leaves out of the earlier events of a goroutine is no    *)
(* longer in the outbox, or is the one the helper holds.                   *)
Done(d) == sent[d] > 0 \/ place[d] \in {"tmp", "failed", "removed"}
OrderLinked ==
    \A d, e \in Events : d < e /\ SameWriter(d, e) =>
        /\ e \in helper.todo /\ place[d] = "outbox" =>
              d \in helper.todo \/ (helper.pc \in Busy /\ helper.file = d)
        /\ helper.pc \in Busy /\ helper.file = e => Done(d)
        /\ sent[e] > 0 \/ e \in orphans => Done(d)

(* Each interruption lets an event that was shown be shown once more.      *)
Interruptions == (MaxDeaths - budget.deaths) + (MaxStops - budget.stops)
                   + (MoveFaults - budget.move)
Shown(e) == sent[e] + (IF e \in orphans THEN 1 ELSE 0)
Waits(e) == /\ place[e] = "outbox"
            /\ ~(helper.pc \in {"processed", "failed"} /\ helper.file = e)
ShownLinked ==
    \A e \in Events :
        Shown(e) <= Interruptions + (IF Waits(e) THEN 0 ELSE 1)

(* Each file in failed, or on its way there, spent one refusal.            *)
Failed == {e \in Events : place[e] = "failed"}
FailedLinked ==
    Cardinality(Failed) + (IF helper.pc = "failed" THEN 1 ELSE 0)
        <= SendFaults - budget.send

(* The part of TypeOK about the PID file and the script that writes it.    *)
PidTypes == /\ pidfile \in {"none", "live", "stale", "alien"}
            /\ script \in {"idle", "launch", "record"} /\ HelperKnown

Linked == WriterLinked /\ PlaceLinked /\ HelperLinked
Core == TypeOK /\ Linked

-----------------------------------------------------------------------------
(* The parts of a step. *)

BudgetKinds == {"write", "send", "move", "kills", "deaths", "stops", "reuses"}

LEMMA DownFacts ==
    ASSUME NEW b \in Budgets, NEW kind \in BudgetKinds, b[kind] > 0,
           NEW d, d = [b EXCEPT ![kind] = @ - 1]
    PROVE  /\ d \in Budgets /\ d[kind] = b[kind] - 1
           /\ \A k \in BudgetKinds \ {kind} : d[k] = b[k]
<1>1. CASE kind = "write"
  BY <1>1, BoundsAssumption DEF Budgets, BudgetKinds
<1>2. CASE kind = "send"
  BY <1>2, BoundsAssumption DEF Budgets, BudgetKinds
<1>3. CASE kind = "move"
  BY <1>3, BoundsAssumption DEF Budgets, BudgetKinds
<1>4. CASE kind = "kills"
  BY <1>4, BoundsAssumption DEF Budgets, BudgetKinds
<1>5. CASE kind = "deaths"
  BY <1>5, BoundsAssumption DEF Budgets, BudgetKinds
<1>6. CASE kind = "stops"
  BY <1>6, BoundsAssumption DEF Budgets, BudgetKinds
<1>7. CASE kind = "reuses"
  BY <1>7, BoundsAssumption DEF Budgets, BudgetKinds
<1> QED BY <1>1, <1>2, <1>3, <1>4, <1>5, <1>6, <1>7 DEF BudgetKinds

LEMMA SpendFacts ==
    ASSUME TypeOK, NEW kind \in BudgetKinds, Spend(kind)
    PROVE  /\ budget' \in Budgets /\ budget'[kind] = budget[kind] - 1
           /\ \A k \in BudgetKinds \ {kind} : budget'[k] = budget[k]
<1>1. budget \in Budgets /\ DOMAIN budget = BudgetKinds
  BY DEF TypeOK, Budgets, BudgetKinds
<1>2. PICK d : d = [budget EXCEPT ![kind] = @ - 1]
  OBVIOUS
<1>3. budget[kind] > 0 /\ budget' = d
  BY <1>2 DEF Spend
<1>4. /\ d \in Budgets /\ d[kind] = budget[kind] - 1
      /\ \A k \in BudgetKinds \ {kind} : d[k] = budget[k]
  BY <1>1, <1>2, <1>3, DownFacts
<1> QED BY <1>3, <1>4

LEMMA BudgetFacts ==
    ASSUME TypeOK
    PROVE  /\ \A k \in BudgetKinds : budget[k] \in Nat
           /\ budget.deaths <= MaxDeaths /\ MaxDeaths \in Nat
           /\ budget.stops <= MaxStops /\ MaxStops \in Nat
           /\ budget.move <= MoveFaults /\ MoveFaults \in Nat
           /\ budget.send <= SendFaults /\ SendFaults \in Nat
           /\ MaxEvents \in Nat
BY BoundsAssumption DEF TypeOK, Budgets, BudgetKinds

HelperTypes == [pc : {"off", "sweep", "next", "valid", "send", "processed",
                      "failed"},
                todo : SUBSET Events, file : Events \cup {0}]

(* The steps of the helper, by what they do to its record.                 *)
LEMMA OnwardFacts ==
    ASSUME TypeOK, NEW pc \in {"next", "send", "processed", "failed"},
           Onward(pc)
    PROVE  /\ helper' \in HelperTypes /\ helper'.pc = pc
           /\ helper'.todo = helper.todo /\ helper'.file = helper.file
BY DEF TypeOK, Onward, HelperTypes

LEMMA HelperConstants ==
    /\ HelperOff \in HelperTypes /\ HelperOff.pc = "off" /\ HelperOff.todo = {}
    /\ HelperIdle \in HelperTypes /\ HelperIdle.pc = "sweep"
    /\ HelperIdle.todo = {}
BY DEF HelperOff, HelperIdle, HelperTypes

-----------------------------------------------------------------------------
(* The writers. *)

(* What Append does to the list of the events begun.                       *)
LEMMA BeginFacts ==
    ASSUME TypeOK, NEW w \in Writers, WriteStart(w)
    PROVE  LET n == Len(by) + 1
           IN  /\ n \in Events /\ Len(by) \in Nat
               /\ by' \in Seq(Writers) /\ Len(by') = n /\ by'[n] = w
               /\ \A e \in 1..Len(by) : by'[e] = by[e]
               /\ writer' = [writer EXCEPT ![w] = [pc |-> "write", file |-> n]]
               /\ place' = [place EXCEPT ![n] = "tmp"]
<1>1. /\ by \in Seq(Writers) /\ Len(by) < MaxEvents /\ by' = Append(by, w)
      /\ MaxEvents \in Nat
  BY BoundsAssumption DEF TypeOK, WriteStart
<1>2. /\ by' \in Seq(Writers) /\ Len(by') = Len(by) + 1 /\ Len(by) \in Nat
      /\ by'[Len(by) + 1] = w /\ \A e \in 1..Len(by) : by'[e] = by[e]
  BY <1>1
<1>3. Len(by) + 1 \in Events
  BY <1>1, <1>2 DEF Events
<1> QED BY <1>2, <1>3 DEF WriteStart

LEMMA WriteStartStep ==
    ASSUME Core, NEW w \in Writers, WriteStart(w)
    PROVE  Core'
<1>1. PICK n : n = Len(by) + 1
  OBVIOUS
<1>2. /\ n \in Events /\ Len(by) \in Nat /\ by' \in Seq(Writers)
      /\ Len(by') = n /\ by'[n] = w /\ \A e \in 1..Len(by) : by'[e] = by[e]
      /\ writer' = [writer EXCEPT ![w] = [pc |-> "write", file |-> n]]
      /\ place' = [place EXCEPT ![n] = "tmp"]
  BY <1>1, BeginFacts DEF Core
<1>3. UNCHANGED <<proc, whole, sent, helper, orphans, package, budget>>
  BY DEF WriteStart
<1>4. n > Len(by) /\ place[n] = "none" /\ n \in Nat /\ n <= MaxEvents
  BY <1>1, <1>2 DEF Core, Linked, PlaceLinked, Events
<1>5. TypeOK'
  <2>1. [pc |-> "write", file |-> n]
          \in [pc : {"idle", "write", "rename"}, file : Events \cup {0}]
    BY <1>2
  <2>2. place' \in [Events -> Places]
    BY <1>2 DEF Core, TypeOK, Places
  <2> QED BY <1>2, <1>3, <1>4, <2>1, <2>2 
         DEF Core, TypeOK, HelperKnown, HelperAt, package
<1>6. WriterLinked'
  <2> SUFFICES ASSUME NEW v \in Writers, writer'[v].pc # "idle"
               PROVE  /\ writer'[v].file \in 1..Len(by')
                      /\ by'[writer'[v].file] = v
                      /\ place'[writer'[v].file] = "tmp"
                      /\ \A f \in 1..Len(by') : by'[f] = v => f <= writer'[v].file
                      /\ writer'[v].pc = "rename" => writer'[v].file \in whole'
    BY DEF WriterLinked
  <2>1. CASE v = w
    <3>1. writer'[v] = [pc |-> "write", file |-> n]
      BY <1>2, <2>1 DEF Core, TypeOK
    <3>2. place'[n] = "tmp"
      BY <1>2 DEF Core, TypeOK
    <3> QED BY <1>1, <1>2, <2>1, <3>1, <3>2
  <2>2. CASE v # w
    <3>1. writer'[v] = writer[v]
      BY <1>2, <2>2 DEF Core, TypeOK
    <3>2. PICK e : e = writer[v].file
      OBVIOUS
    <3>3. /\ e \in 1..Len(by) /\ by[e] = v /\ place[e] = "tmp"
          /\ \A f \in 1..Len(by) : by[f] = v => f <= e
          /\ writer[v].pc = "rename" => e \in whole
      BY <3>1, <3>2 DEF Core, Linked, WriterLinked
    <3>4. e # n /\ e \in Events
      BY <1>1, <1>2, <1>4, <3>3, BoundsAssumption DEF Events
    <3>5. place'[e] = "tmp"
      BY <1>2, <3>3, <3>4 DEF Core, TypeOK
    <3> QED BY <1>1, <1>2, <1>3, <2>2, <3>1, <3>2, <3>3, <3>4, <3>5
  <2> QED BY <2>1, <2>2
<1>7. PlaceLinked'
  BY <1>1, <1>2, <1>3, <1>4
     DEF PlaceLinked, Core, TypeOK, Linked, Written, Events
<1>8. HelperLinked'
  BY <1>2, <1>3, <1>4
     DEF HelperLinked, Core, TypeOK, Linked, Written, Busy
<1> QED BY <1>5, <1>6, <1>7, <1>8 DEF Core, Linked

(* The file of an event a goroutine writes is still temporary.             *)
LEMMA WritingFacts ==
    ASSUME Core, NEW w \in Writers, writer[w].pc # "idle",
           NEW e, e = writer[w].file
    PROVE  /\ e \in Events /\ e \in 1..Len(by) /\ by[e] = w
           /\ place[e] = "tmp" /\ \A f \in 1..Len(by) : by[f] = w => f <= e
           /\ writer[w].pc = "rename" => e \in whole
           /\ \A v \in Writers \ {w} :
                 writer[v].pc # "idle" => writer[v].file # e
           /\ sent[e] = 0 /\ e \notin orphans /\ e \notin helper.todo
           /\ helper.pc \in Busy => helper.file # e
<1>1. /\ e \in 1..Len(by) /\ by[e] = w /\ place[e] = "tmp"
      /\ \A f \in 1..Len(by) : by[f] = w => f <= e
      /\ writer[w].pc = "rename" => e \in whole
  BY DEF Core, Linked, WriterLinked
<1>2. e \in Events
  BY <1>1 DEF Core, TypeOK, Events
<1>3. \A v \in Writers \ {w} : writer[v].pc # "idle" => writer[v].file # e
  BY <1>1 DEF Core, Linked, WriterLinked
<1>4. sent[e] = 0 /\ e \notin orphans
  BY <1>1, <1>2 DEF Core, TypeOK, Linked, PlaceLinked, Written
<1>5. e \notin helper.todo /\ (helper.pc \in Busy => helper.file # e)
  BY <1>1 DEF Core, Linked, HelperLinked, Written
<1> QED BY <1>1, <1>2, <1>3, <1>4, <1>5

LEMMA WriteFileStep ==
    ASSUME Core, NEW w \in Writers, WriteFile(w)
    PROVE  Core'
<1>1. PICK e : e = writer[w].file
  OBVIOUS
<1>2. e \in Events /\ writer[w].pc # "idle"
  BY <1>1, WritingFacts DEF WriteFile
<1>3. /\ whole' = whole \cup {e} /\ writer' = [writer EXCEPT ![w].pc = "rename"]
      /\ UNCHANGED <<proc, by, place, sent, helper, orphans, package, budget>>
  BY <1>1 DEF WriteFile
<1>4. /\ writer' \in [Writers -> [pc : {"idle", "write", "rename"},
                                  file : Events \cup {0}]]
      /\ \A v \in Writers : writer'[v].file = writer[v].file
      /\ \A v \in Writers \ {w} : writer'[v].pc = writer[v].pc
  BY <1>3 DEF Core, TypeOK
<1>5. TypeOK'
  BY <1>2, <1>3, <1>4 DEF Core, TypeOK, HelperKnown, HelperAt, package
<1>6. WriterLinked'
  <2> SUFFICES ASSUME NEW v \in Writers, writer'[v].pc # "idle",
                      NEW f, f = writer[v].file
               PROVE  /\ f \in 1..Len(by) /\ by[f] = v /\ place[f] = "tmp"
                      /\ \A g \in 1..Len(by) : by[g] = v => g <= f
                      /\ writer'[v].pc = "rename" => f \in whole'
    BY <1>3, <1>4 DEF WriterLinked
  <2>1. writer[v].pc # "idle"
    BY <1>2, <1>4
  <2> QED BY <1>1, <1>3, <1>4, <2>1, WritingFacts
<1>7. PlaceLinked' /\ HelperLinked'
  BY <1>3 DEF Core, Linked, PlaceLinked, HelperLinked
<1> QED BY <1>5, <1>6, <1>7 DEF Core, Linked

LEMMA RenameStep ==
    ASSUME Core, NEW w \in Writers, Rename(w)
    PROVE  Core'
<1>1. PICK e : e = writer[w].file
  OBVIOUS
<1>2. /\ e \in Events /\ e \in 1..Len(by) /\ place[e] = "tmp" /\ e \in whole
      /\ \A v \in Writers \ {w} : writer[v].pc # "idle" => writer[v].file # e
      /\ e \notin helper.todo /\ (helper.pc \in Busy => helper.file # e)
  BY <1>1, WritingFacts DEF Rename
<1>3. /\ place' = [place EXCEPT ![e] = "outbox"]
      /\ writer' = [writer EXCEPT ![w] = WriterIdle]
      /\ UNCHANGED <<proc, by, whole, sent, helper, orphans, package, budget>>
  BY <1>1 DEF Rename
<1>4. /\ place' \in [Events -> Places] /\ place'[e] = "outbox"
      /\ \A f \in Events \ {e} : place'[f] = place[f]
  BY <1>2, <1>3 DEF Core, TypeOK, Places
<1>5. /\ writer' \in [Writers -> [pc : {"idle", "write", "rename"},
                                  file : Events \cup {0}]]
      /\ writer'[w].pc = "idle"
      /\ \A v \in Writers \ {w} : writer'[v] = writer[v]
  BY <1>3 DEF Core, TypeOK, WriterIdle
<1>6. TypeOK'
  BY <1>3, <1>4, <1>5 DEF Core, TypeOK, HelperKnown, HelperAt, package
<1>7. WriterLinked'
  <2> SUFFICES ASSUME NEW v \in Writers \ {w}, writer[v].pc # "idle",
                      NEW f, f = writer[v].file
               PROVE  /\ f \in 1..Len(by) /\ by[f] = v /\ place'[f] = "tmp"
                      /\ \A g \in 1..Len(by) : by[g] = v => g <= f
                      /\ writer[v].pc = "rename" => f \in whole
    BY <1>3, <1>5 DEF WriterLinked
  <2> QED BY <1>2, <1>4, WritingFacts
<1>8. PlaceLinked'
  <2> SUFFICES ASSUME NEW f \in Events
               PROVE  /\ place'[f] = "none" <=> f > Len(by)
                      /\ place'[f] \in Written => f \in whole
                      /\ place'[f] = "processed" => sent[f] > 0
                      /\ sent[f] > 0 \/ f \in orphans => place'[f] \in Written
    BY <1>3 DEF PlaceLinked
  <2>1. CASE f = e
    <3>1. ~(f > Len(by))
      BY <1>2, <2>1 DEF Core, TypeOK
    <3> QED BY <1>2, <1>4, <2>1, <3>1 DEF Written
  <2>2. CASE f # e
    BY <1>4, <2>2 DEF Core, Linked, PlaceLinked
  <2> QED BY <2>1, <2>2
<1>9. HelperLinked'
  <2>1. \A f \in helper.todo : f \in Events
    BY DEF Core, TypeOK
  <2> QED BY <1>2, <1>3, <1>4, <2>1 DEF Core, Linked, HelperLinked
<1> QED BY <1>6, <1>7, <1>8, <1>9 DEF Core, Linked

(* What a step does to PID file and script.                                *)
LEMMA PidKept ==
    ASSUME Core, UNCHANGED package, helper'.pc = "off" <=> helper.pc = "off"
    PROVE  PidTypes'
BY DEF Core, TypeOK, PidTypes, HelperKnown, HelperAt, package

LEMMA PidGone ==
    ASSUME Core, UNCHANGED script, helper' = HelperOff, PidLost
    PROVE  PidTypes'
BY DEF Core, TypeOK, PidTypes, HelperKnown, HelperAt, PidLost, HelperOff

(* A step that leaves the events and the helper alone, and of the writers  *)
(* at most gives some up.                                                  *)
LEMMA IdleStep ==
    ASSUME Core,
           \/ UNCHANGED writer
           \/ \E w \in Writers : writer' = [writer EXCEPT ![w] = WriterIdle]
           \/ writer' = [w \in Writers |-> WriterIdle],
           UNCHANGED <<place, whole, by, sent, helper, orphans>>,
           proc' \in {"up", "stopping", "down"}, budget' \in Budgets,
           PidTypes'
    PROVE  Core'
<1>1. /\ writer' \in [Writers -> [pc : {"idle", "write", "rename"},
                                  file : Events \cup {0}]]
      /\ \A v \in Writers : writer'[v].pc = "idle" \/ writer'[v] = writer[v]
  <2>1. WriterIdle \in [pc : {"idle", "write", "rename"},
                        file : Events \cup {0}] /\ WriterIdle.pc = "idle"
    BY DEF WriterIdle
  <2>2. writer \in [Writers -> [pc : {"idle", "write", "rename"},
                               file : Events \cup {0}]]
    BY DEF Core, TypeOK
  <2>3. CASE UNCHANGED writer
    BY <2>2, <2>3
  <2>4. CASE \E w \in Writers : writer' = [writer EXCEPT ![w] = WriterIdle]
    BY <2>1, <2>2, <2>4
  <2>5. CASE writer' = [w \in Writers |-> WriterIdle]
    BY <2>1, <2>5
  <2> QED BY <2>3, <2>4, <2>5
<1>2. TypeOK'
  BY <1>1 DEF Core, TypeOK, PidTypes
<1>3. WriterLinked'
  <2> SUFFICES ASSUME NEW v \in Writers, writer[v].pc # "idle",
                      NEW f, f = writer[v].file
               PROVE  /\ f \in 1..Len(by) /\ by[f] = v /\ place[f] = "tmp"
                      /\ \A g \in 1..Len(by) : by[g] = v => g <= f
                      /\ writer[v].pc = "rename" => f \in whole
    BY <1>1 DEF WriterLinked
  <2> QED BY WritingFacts
<1>4. PlaceLinked' /\ HelperLinked'
  BY DEF Core, Linked, PlaceLinked, HelperLinked
<1> QED BY <1>2, <1>3, <1>4 DEF Core, Linked

LEMMA IdleSteps ==
    ASSUME Core,
           \/ \E w \in Writers : WriteFails(w)
           \/ SigTerm \/ Die \/ Restart \/ PidReused
           \/ StartHelper \/ RecordPid \/ UNCHANGED vars
    PROVE  Core'
<1>1. /\ proc \in {"up", "stopping", "down"} /\ budget \in Budgets
      /\ PidTypes
  BY DEF Core, TypeOK, PidTypes
<1>2. ASSUME NEW w \in Writers, WriteFails(w)
      PROVE  Core'
  <2>1. PidTypes'
    BY <1>2, PidKept DEF WriteFails
  <2> QED BY <1>1, <1>2, <2>1, IdleStep, SpendFacts DEF WriteFails, Core, BudgetKinds
<1>3. CASE SigTerm \/ Die
  <2>1. PidTypes'
    BY <1>3, PidKept DEF SigTerm, Die
  <2> QED BY <1>1, <1>3, <2>1, IdleStep DEF SigTerm, Die
<1>4. CASE Restart
  <2>1. PidTypes'
    BY <1>4, PidKept DEF Restart
  <2> QED BY <1>1, <1>4, <2>1, IdleStep, SpendFacts DEF Restart, Core, BudgetKinds
<1>5. CASE PidReused
  <2>1. PidTypes'
    BY <1>1, <1>5 DEF PidReused, PidTypes, HelperKnown, HelperAt
  <2> QED BY <1>1, <1>5, <2>1, IdleStep, SpendFacts
          DEF PidReused, Core, BudgetKinds, service
<1>6. CASE StartHelper \/ RecordPid
  <2>1. PidTypes'
    BY <1>1, <1>6 DEF StartHelper, RecordPid, PidTypes, HelperKnown, HelperAt
  <2> QED BY <1>1, <1>6, <2>1, IdleStep DEF StartHelper, RecordPid, service
<1>7. CASE UNCHANGED vars
  <2>1. PidTypes'
    BY <1>7, PidKept DEF vars
  <2> QED BY <1>1, <1>7, <2>1, IdleStep DEF vars, service
<1> QED BY <1>2, <1>3, <1>4, <1>5, <1>6, <1>7

-----------------------------------------------------------------------------
(* The helper. *)

(* A step of the helper that leaves the files and the writers alone.       *)
LEMMA HelperOnlyStep ==
    ASSUME Core, UNCHANGED <<service, place, whole>>,
           helper' \in HelperTypes,
           helper'.pc \in Busy =>
              /\ helper'.file \in Events /\ place[helper'.file] = "outbox"
              /\ helper'.pc = "processed" => sent'[helper'.file] > 0,
           \A e \in helper'.todo : place[e] \in Written,
           sent' \in [Events -> Nat], orphans' \subseteq Events,
           \A e \in Events : sent'[e] >= sent[e],
           \A e \in Events : sent'[e] > 0 \/ e \in orphans' =>
              sent[e] > 0 \/ e \in orphans \/ place[e] \in Written,
           budget' \in Budgets,
           PidTypes'
    PROVE  Core'
<1>1. UNCHANGED <<proc, writer, by, place, whole>>
  BY DEF service
<1>2. TypeOK'
  BY <1>1 DEF Core, TypeOK, HelperTypes, PidTypes
<1>3. WriterLinked'
  BY <1>1 DEF Core, Linked, WriterLinked
<1>4. PlaceLinked'
  <2> SUFFICES ASSUME NEW e \in Events
               PROVE  /\ place[e] = "none" <=> e > Len(by)
                      /\ place[e] \in Written => e \in whole
                      /\ place[e] = "processed" => sent'[e] > 0
                      /\ sent'[e] > 0 \/ e \in orphans' => place[e] \in Written
    BY <1>1 DEF PlaceLinked
  <2>1. sent[e] \in Nat /\ sent'[e] \in Nat /\ sent'[e] >= sent[e]
    BY DEF Core, TypeOK
  <2> QED BY <2>1 DEF Core, Linked, PlaceLinked
<1>5. HelperLinked'
  BY <1>1 DEF HelperLinked, Busy
<1> QED BY <1>2, <1>3, <1>4, <1>5 DEF Core, Linked

LEMMA HelperFacts ==
    ASSUME Core
    PROVE  /\ helper \in HelperTypes /\ budget \in Budgets
           /\ sent \in [Events -> Nat] /\ orphans \subseteq Events
           /\ PidTypes /\ (helper.pc = "off" \/ pidfile = "live" \/ script = "record")
           /\ pidfile = "live" => helper.pc # "off"
           /\ \A e \in helper.todo : e \in Events /\ place[e] \in Written
           /\ helper.pc \in Busy =>
                 helper.file \in Events /\ place[helper.file] = "outbox"
           /\ helper.pc = "processed" => sent[helper.file] > 0
           /\ \A e \in Events : sent[e] \in Nat
BY DEF Core, TypeOK, Linked, HelperLinked, HelperTypes, HelperAt, PidTypes,
       HelperKnown

LEMMA SweepSteps ==
    ASSUME Core, Glob \/ NextEvent \/ ValidEvent \/ SendFails
    PROVE  Core'
<1>1. CASE Glob
  <2>1. PICK todo : /\ todo = {e \in Events : place[e] = "outbox"}
                    /\ helper' = [pc |-> "next", todo |-> todo, file |-> 0]
    BY <1>1 DEF Glob
  <2>2. /\ helper' \in HelperTypes /\ helper'.pc = "next" /\ helper'.todo = todo
    BY <2>1 DEF HelperTypes
  <2>3. helper.pc # "off" /\ UNCHANGED <<service, place, whole, sent, orphans,
                                       package, budget>>
    BY <1>1 DEF Glob, HelperAt
  <2>4. PidTypes'
    BY <2>2, <2>3, PidKept
  <2> QED BY <2>1, <2>2, <2>3, <2>4, HelperFacts, HelperOnlyStep DEF Busy, Written
<1>2. CASE NextEvent
  <2>1. helper.pc = "next" /\ UNCHANGED <<service, place, whole, sent, orphans,
                                        package, budget>>
    BY <1>2 DEF NextEvent, HelperAt
  <2>2. CASE helper' = HelperIdle
    <3>1. PidTypes'
      BY <2>1, <2>2, HelperConstants, PidKept
    <3> QED BY <2>1, <2>2, <3>1, HelperConstants, HelperFacts, HelperOnlyStep DEF Busy
  <2>3. ASSUME NEW e \in NextFile(helper.todo),
               helper' = [pc   |-> IF place[e] = "outbox" THEN "valid"
                                                          ELSE "next",
                          todo |-> helper.todo \ {e}, file |-> e]
        PROVE  Core'
    <3>1. e \in helper.todo /\ e \in Events /\ helper.todo \subseteq Events
      BY HelperFacts DEF NextFile, HelperTypes
    <3>2. /\ helper' \in HelperTypes /\ helper'.file = e
          /\ helper'.todo = helper.todo \ {e} /\ helper'.pc \in {"valid", "next"}
          /\ helper'.pc = "valid" => place[e] = "outbox"
      BY <2>3, <3>1 DEF HelperTypes
    <3>3. PidTypes'
      BY <2>1, <3>2, PidKept
    <3> QED BY <2>1, <3>1, <3>2, <3>3, HelperFacts, HelperOnlyStep DEF Busy
  <2> QED BY <1>2, <2>2, <2>3 DEF NextEvent
<1>3. CASE ValidEvent
  <2>1. /\ helper.pc = "valid"
        /\ UNCHANGED <<service, place, whole, sent, orphans, package, budget>>
    BY <1>3 DEF ValidEvent, HelperAt
  <2>2. Onward("send") \/ Onward("failed")
    BY <1>3 DEF ValidEvent
  <2>3. /\ helper' \in HelperTypes /\ helper'.pc \in {"send", "failed"}
        /\ helper'.todo = helper.todo /\ helper'.file = helper.file
    BY <2>2, OnwardFacts DEF Core
  <2>4. PidTypes'
    BY <2>1, <2>3, PidKept
  <2> QED BY <2>1, <2>3, <2>4, HelperFacts, HelperOnlyStep DEF Busy
<1>4. CASE SendFails
  <2>1. /\ helper.pc = "send"
        /\ UNCHANGED <<service, place, whole, sent, orphans, package>>
    BY <1>4 DEF SendFails, HelperAt
  <2>2. /\ helper' \in HelperTypes /\ helper'.pc = "failed"
        /\ helper'.todo = helper.todo /\ helper'.file = helper.file
    BY <1>4, OnwardFacts DEF Core, SendFails
  <2>3. budget' \in Budgets
    BY <1>4, SpendFacts DEF Core, SendFails, BudgetKinds
  <2>4. PidTypes'
    BY <2>1, <2>2, PidKept
  <2> QED BY <2>1, <2>2, <2>3, <2>4, HelperFacts, HelperOnlyStep DEF Busy
<1> QED BY <1>1, <1>2, <1>3, <1>4

LEMMA SendStep ==
    ASSUME Core, Send
    PROVE  Core'
<1>1. /\ helper.pc = "send" /\ sent' = [sent EXCEPT ![helper.file] = @ + 1]
      /\ UNCHANGED <<service, place, whole, orphans, package, budget>>
  BY DEF Send, HelperAt
<1>2. /\ helper' \in HelperTypes /\ helper'.pc = "processed"
      /\ helper'.todo = helper.todo /\ helper'.file = helper.file
  BY OnwardFacts DEF Core, Send
<1>3. helper.file \in Events /\ place[helper.file] = "outbox"
  BY <1>1, HelperFacts DEF Busy
<1>4. /\ sent' \in [Events -> Nat] /\ sent'[helper.file] > 0
      /\ \A e \in Events : sent'[e] >= sent[e]
      /\ \A e \in Events \ {helper.file} : sent'[e] = sent[e]
  BY <1>1, <1>3, HelperFacts
<1>5. PidTypes'
  BY <1>1, <1>2, PidKept
<1> QED BY <1>1, <1>2, <1>3, <1>4, <1>5, HelperFacts, HelperOnlyStep
        DEF Busy, Written

(* The file of the event at hand leaves the outbox.                        *)
LEMMA FileAway ==
    ASSUME Core, helper.pc \in {"processed", "failed"},
           NEW to \in {"processed", "failed", "removed"},
           to = "processed" => helper.pc = "processed",
           place' = [place EXCEPT ![helper.file] = to], Onward("next"),
           UNCHANGED <<service, whole, sent, orphans, package>>,
           budget' \in Budgets
    PROVE  Core'
<1>1. /\ helper' \in HelperTypes /\ helper'.pc = "next"
      /\ helper'.todo = helper.todo
  BY OnwardFacts DEF Core
<1>2. PICK e \in Events : e = helper.file
  BY HelperFacts DEF Busy
<1>3. place[e] = "outbox" /\ (to = "processed" => sent[e] > 0)
  BY <1>2, HelperFacts DEF Busy
<1>4. /\ place' \in [Events -> Places] /\ place'[e] = to
      /\ \A f \in Events \ {e} : place'[f] = place[f]
  BY <1>2 DEF Core, TypeOK, Places
<1>5. UNCHANGED <<proc, writer, by>>
  BY DEF service
<1>6. TypeOK'
  <2>1. PidTypes'
    BY <1>1, PidKept
  <2> QED BY <1>1, <1>4, <1>5, <2>1 DEF Core, TypeOK, HelperTypes, PidTypes
<1>7. WriterLinked'
  <2> SUFFICES ASSUME NEW v \in Writers, writer[v].pc # "idle",
                      NEW f, f = writer[v].file
               PROVE  /\ f \in 1..Len(by) /\ by[f] = v /\ place'[f] = "tmp"
                      /\ \A g \in 1..Len(by) : by[g] = v => g <= f
                      /\ writer[v].pc = "rename" => f \in whole
    BY <1>5 DEF WriterLinked
  <2>1. f \in Events /\ place[f] = "tmp"
    BY WritingFacts
  <2>2. f # e
    BY <1>3, <2>1
  <2> QED BY <1>4, <2>1, <2>2, WritingFacts
<1>8. PlaceLinked'
  <2> SUFFICES ASSUME NEW f \in Events
               PROVE  /\ place'[f] = "none" <=> f > Len(by)
                      /\ place'[f] \in Written => f \in whole
                      /\ place'[f] = "processed" => sent[f] > 0
                      /\ sent[f] > 0 \/ f \in orphans => place'[f] \in Written
    BY <1>5 DEF PlaceLinked
  <2>1. /\ place[f] = "none" <=> f > Len(by)
        /\ place[f] \in Written => f \in whole
        /\ place[f] = "processed" => sent[f] > 0
        /\ sent[f] > 0 \/ f \in orphans => place[f] \in Written
    BY DEF Core, Linked, PlaceLinked
  <2>2. CASE f = e
    BY <1>3, <1>4, <2>1, <2>2 DEF Written
  <2>3. CASE f # e
    BY <1>4, <2>1, <2>3
  <2> QED BY <2>2, <2>3
<1>9. HelperLinked'
  <2>1. \A f \in helper.todo : f \in Events /\ place[f] \in Written
    BY HelperFacts
  <2>2. \A f \in helper'.todo : place'[f] \in Written
    BY <1>1, <1>4, <2>1 DEF Written
  <2> QED BY <1>1, <2>2 DEF HelperLinked, Busy
<1> QED BY <1>6, <1>7, <1>8, <1>9 DEF Core, Linked

(* The helper is gone, and at most the command it ran lives on.            *)
LEMMA HelperGone ==
    ASSUME Core, helper' = HelperOff,
           \/ UNCHANGED orphans
           \/ \E o \in Orphaned : orphans' = orphans \cup o,
           UNCHANGED <<service, place, whole, sent>>, budget' \in Budgets,
           PidTypes'
    PROVE  /\ Core' /\ orphans \subseteq orphans'
           /\ \A e \in orphans' :
                 e \in orphans \/ (helper.pc = "send" /\ helper.file = e)
<1>1. /\ orphans \subseteq orphans'
      /\ \A e \in orphans' :
            e \in orphans \/ (helper.pc = "send" /\ helper.file = e)
  <2>1. ASSUME NEW o \in Orphaned, orphans' = orphans \cup o
        PROVE  /\ orphans \subseteq orphans'
               /\ \A e \in orphans' :
                     e \in orphans \/ (helper.pc = "send" /\ helper.file = e)
    <3>1. CASE helper.pc = "send"
      BY <2>1, <3>1 DEF Orphaned, HelperAt
    <3>2. CASE helper.pc # "send"
      BY <2>1, <3>2 DEF Orphaned, HelperAt
    <3> QED BY <3>1, <3>2
  <2> QED BY <2>1
<1>2. /\ orphans' \subseteq Events
      /\ \A e \in Events : e \in orphans' =>
            e \in orphans \/ place[e] \in Written
  <2>1. helper.pc = "send" =>
           helper.file \in Events /\ place[helper.file] \in Written
    BY HelperFacts DEF Busy, Written
  <2> QED BY <1>1, <2>1, HelperFacts
<1>3. /\ helper' \in HelperTypes /\ helper'.pc = "off" /\ helper'.todo = {}
  BY HelperConstants
<1> QED BY <1>1, <1>2, <1>3, HelperFacts, HelperOnlyStep DEF Busy

LEMMA MoveSteps ==
    ASSUME Core, Move \/ MoveFails
    PROVE  Core'
<1>1. CASE Move
  BY <1>1, FileAway, HelperFacts DEF Move
<1>2. CASE MoveFails
  <2>1. budget' \in Budgets
    BY <1>2, SpendFacts DEF MoveFails, Core, BudgetKinds
  <2>2. CASE Onward("next") /\ UNCHANGED pidfile
             /\ place' = [place EXCEPT ![helper.file] = "removed"]
    <3>1. UNCHANGED package
      BY <1>2, <2>2 DEF MoveFails, package
    <3> QED BY <1>2, <2>1, <2>2, <3>1, FileAway DEF MoveFails
  <2>3. CASE helper' = HelperOff /\ PidLost /\ UNCHANGED place
    <3>1. PidTypes'
      BY <1>2, <2>3, PidGone DEF MoveFails
    <3> QED BY <1>2, <2>1, <2>3, <3>1, HelperGone DEF MoveFails
  <2> QED BY <1>2, <2>2, <2>3 DEF MoveFails
<1> QED BY <1>1, <1>2

LEMMA OrphanSendsStep ==
    ASSUME Core, OrphanSends
    PROVE  Core'
<1>1. PICK e \in orphans : /\ sent' = [sent EXCEPT ![e] = @ + 1]
                           /\ orphans' = orphans \ {e}
  BY DEF OrphanSends
<1>2. /\ sent' \in [Events -> Nat] /\ orphans' \subseteq Events
      /\ \A f \in Events : sent'[f] >= sent[f]
      /\ \A f \in Events : sent'[f] > 0 \/ f \in orphans' =>
            sent[f] > 0 \/ f \in orphans
  BY <1>1, HelperFacts
<1>3. UNCHANGED <<service, place, whole, helper, package, budget>>
  BY DEF OrphanSends
<1>4. helper.pc = "processed" => sent'[helper.file] > 0
  BY <1>2, HelperFacts DEF Busy
<1>5. PidTypes'
  BY <1>3, PidKept
<1> QED BY <1>2, <1>3, <1>4, <1>5, HelperFacts, HelperOnlyStep

LEMMA ScriptSteps ==
    ASSUME Core, HelperDies \/ LaunchHelper \/ StopHelper
    PROVE  Core'
<1>1. CASE HelperDies
  <2>1. budget' \in Budgets
    BY <1>1, SpendFacts DEF HelperDies, Core, BudgetKinds
  <2>2. PidTypes'
    BY <1>1, PidGone DEF HelperDies
  <2> QED BY <1>1, <2>1, <2>2, HelperGone DEF HelperDies
<1>2. CASE LaunchHelper
  <2>1. PidTypes'
    BY <1>2, HelperFacts, HelperConstants
       DEF LaunchHelper, PidTypes, HelperKnown, HelperAt
  <2> QED BY <1>2, <2>1, HelperConstants, HelperFacts, HelperOnlyStep
          DEF LaunchHelper, Busy
<1>3. CASE StopHelper
  <2>1. budget' \in Budgets
    BY <1>3, SpendFacts DEF StopHelper, Core, BudgetKinds
  <2>2. PidTypes'
    BY <1>3, HelperFacts, HelperConstants
       DEF StopHelper, PidTypes, HelperKnown, HelperAt
  <2>3. CASE pidfile = "live"
    BY <1>3, <2>1, <2>2, <2>3, HelperGone DEF StopHelper
  <2>4. CASE pidfile # "live"
    BY <1>3, <2>1, <2>2, <2>4, HelperFacts, HelperOnlyStep DEF StopHelper
  <2> QED BY <2>3, <2>4
<1> QED BY <1>1, <1>2, <1>3

LEMMA CoreStep ==
    ASSUME Core, [Next]_vars
    PROVE  Core'
BY WriteStartStep, WriteFileStep, RenameStep, IdleSteps, SweepSteps,
   SendStep, MoveSteps, OrphanSendsStep, ScriptSteps DEF Next, HelperStep, OwnStep

LEMMA CoreInit ==
    ASSUME Init
    PROVE  Core
<1>1. budget \in Budgets
  BY BoundsAssumption DEF Init, Budgets
<1>2. /\ WriterIdle \in [pc : {"idle", "write", "rename"},
                        file : Events \cup {0}] /\ WriterIdle.pc = "idle"
  BY DEF WriterIdle
<1>3. by = <<>> /\ by \in Seq(Writers) /\ Len(by) = 0
  BY DEF Init
<1>4. TypeOK
  BY <1>1, <1>2, <1>3, HelperConstants, BoundsAssumption
     DEF Init, TypeOK, HelperTypes, HelperKnown, HelperAt, Places, Events
<1>5. WriterLinked
  BY <1>2 DEF Init, WriterLinked
<1>6. PlaceLinked
  BY <1>3, BoundsAssumption DEF Init, PlaceLinked, Written, Events
<1>7. HelperLinked
  BY HelperConstants DEF Init, HelperLinked, Busy
<1> QED BY <1>4, <1>5, <1>6, <1>7 DEF Core, Linked

-----------------------------------------------------------------------------
(* How often an event is shown, and what is filed as failed. *)

(* What a step of a writer or of the service does to the rest.             *)
WriterSteps ==
    \/ \E w \in Writers :
          WriteStart(w) \/ WriteFile(w) \/ Rename(w) \/ WriteFails(w)
    \/ SigTerm \/ Die \/ Restart
    \/ PidReused \/ StartHelper \/ RecordPid \/ UNCHANGED vars

LEMMA WriterStepFacts ==
    ASSUME Core, WriterSteps
    PROVE  /\ UNCHANGED <<sent, helper, orphans>>
           /\ \A k \in {"send", "move", "deaths", "stops"} :
                 budget'[k] = budget[k]
           /\ \A e \in Events :
                 \/ place'[e] = place[e]
                 \/ place[e] = "none" /\ place'[e] = "tmp"
                 \/ /\ place[e] = "tmp" /\ place'[e] = "outbox"
                    /\ sent[e] = 0 /\ e \notin orphans
                    /\ \A f \in 1..Len(by) : by[f] = by[e] => f <= e
<1>1. ASSUME NEW w \in Writers, WriteStart(w)
      PROVE  \A e \in Events : \/ place'[e] = place[e]
                               \/ place[e] = "none" /\ place'[e] = "tmp"
  <2>1. PICK n \in Events : n = Len(by) + 1 /\ Len(by) \in Nat
                            /\ place' = [place EXCEPT ![n] = "tmp"]
    BY <1>1, BeginFacts DEF Core
  <2>2. place[n] = "none"
    BY <2>1 DEF Core, Linked, PlaceLinked
  <2> QED BY <2>1, <2>2 DEF Core, TypeOK
<1>2. ASSUME NEW w \in Writers, Rename(w)
      PROVE  \A e \in Events :
                \/ place'[e] = place[e]
                \/ /\ place[e] = "tmp" /\ place'[e] = "outbox"
                   /\ sent[e] = 0 /\ e \notin orphans
                   /\ \A f \in 1..Len(by) : by[f] = by[e] => f <= e
  <2>1. PICK n : n = writer[w].file
    OBVIOUS
  <2>2. writer[w].pc # "idle" /\ place' = [place EXCEPT ![n] = "outbox"]
    BY <1>2, <2>1 DEF Rename
  <2> QED BY <2>1, <2>2, WritingFacts DEF Core, TypeOK
<1>3. ASSUME NEW kind \in {"write", "kills", "reuses"}, Spend(kind)
      PROVE  \A k \in {"send", "move", "deaths", "stops"} :
                budget'[k] = budget[k]
  BY <1>3, SpendFacts DEF Core, BudgetKinds
<1>4. UNCHANGED <<sent, helper, orphans>>
  BY DEF WriterSteps, WriteStart, WriteFile, Rename, WriteFails, SigTerm, Die,
         Restart, PidReused, StartHelper, RecordPid, vars
<1>5. \A k \in {"send", "move", "deaths", "stops"} : budget'[k] = budget[k]
  BY <1>3 DEF WriterSteps, WriteStart, WriteFile, Rename, WriteFails, SigTerm,
              Die, Restart, PidReused, StartHelper, RecordPid, vars
<1>6. \/ UNCHANGED place
      \/ \E w \in Writers : WriteStart(w) \/ Rename(w)
  BY DEF WriterSteps, WriteFile, WriteFails, SigTerm, Die, Restart, PidReused,
         StartHelper, RecordPid, vars
<1> QED BY <1>1, <1>2, <1>4, <1>5, <1>6

LEMMA InterruptionsFacts ==
    ASSUME Core
    PROVE  Interruptions \in Nat /\ \A e \in Events : Shown(e) \in Nat
<1>1. Interruptions \in Nat
  BY BudgetFacts DEF Core, Interruptions, BudgetKinds
<1> QED BY <1>1, HelperFacts DEF Shown

LEMMA PidAfter ==
    ASSUME Core'
    PROVE  PidTypes'
BY DEF Core, TypeOK, PidTypes

LEMMA ShownStep ==
    ASSUME Core, Core', ShownLinked, [Next]_vars
    PROVE  ShownLinked'
<1>1. /\ Interruptions \in Nat /\ Interruptions' \in Nat
      /\ \A e \in Events : Shown(e) \in Nat /\ Shown(e)' \in Nat
  <2>1. budget' \in Budgets /\ \A e \in Events : sent'[e] \in Nat
    BY DEF Core, TypeOK
  <2>2. Interruptions' \in Nat
    BY <2>1, BoundsAssumption DEF Interruptions, Budgets
  <2>3. \A e \in Events : Shown(e)' \in Nat
    BY <2>1 DEF Shown
  <2> QED BY <2>2, <2>3, InterruptionsFacts
<1>2. \A e \in Events :
         Shown(e) <= Interruptions + (IF Waits(e) THEN 0 ELSE 1)
  BY DEF ShownLinked
<1>3. ASSUME Interruptions' >= Interruptions,
             \A e \in Events : Shown(e)' = Shown(e),
             \A e \in Events : Waits(e)' => Waits(e)
      PROVE  ShownLinked'
  <2> SUFFICES ASSUME NEW e \in Events
               PROVE  Shown(e)' <= Interruptions'
                                     + (IF Waits(e)' THEN 0 ELSE 1)
    BY DEF ShownLinked
  <2> QED BY <1>1, <1>2, <1>3
<1>4. ASSUME Interruptions' = Interruptions + 1,
             \A e \in Events : \/ Shown(e)' = Shown(e)
                               \/ Shown(e)' = Shown(e) + 1 /\ Waits(e)
      PROVE  ShownLinked'
  <2> SUFFICES ASSUME NEW e \in Events
               PROVE  Shown(e)' <= Interruptions'
                                     + (IF Waits(e)' THEN 0 ELSE 1)
    BY DEF ShownLinked
  <2> QED BY <1>1, <1>2, <1>4
<1>5. CASE WriterSteps
  <2>1. Interruptions' = Interruptions /\ \A e \in Events : Shown(e)' = Shown(e)
    BY <1>5, WriterStepFacts DEF Interruptions, Shown
  <2> SUFFICES ASSUME NEW e \in Events
               PROVE  Shown(e)' <= Interruptions'
                                     + (IF Waits(e)' THEN 0 ELSE 1)
    BY DEF ShownLinked
  <2>2. CASE sent[e] = 0 /\ e \notin orphans
    BY <1>1, <2>1, <2>2 DEF Shown
  <2>3. CASE ~(sent[e] = 0 /\ e \notin orphans)
    <3>1. Waits(e)' => Waits(e)
      BY <1>5, <2>3, WriterStepFacts DEF Waits
    <3> QED BY <1>1, <1>2, <2>1, <3>1
  <2> QED BY <2>2, <2>3
<1>6. CASE Glob \/ NextEvent \/ ValidEvent
  <2>1. UNCHANGED <<place, sent, orphans, budget>>
    BY <1>6 DEF Glob, NextEvent, ValidEvent
  <2>2. helper.pc \notin {"processed", "failed"}
    BY <1>6 DEF Glob, NextEvent, ValidEvent, HelperAt
  <2>3. /\ Interruptions' = Interruptions
        /\ \A e \in Events : Shown(e)' = Shown(e) /\ (Waits(e)' => Waits(e))
    BY <2>1, <2>2 DEF Interruptions, Shown, Waits
  <2> QED BY <1>1, <1>3, <2>3
<1>7. CASE SendFails
  <2>1. /\ UNCHANGED <<place, sent, orphans>>
        /\ \A k \in BudgetKinds \ {"send"} : budget'[k] = budget[k]
    BY <1>7, SpendFacts DEF SendFails, Core, BudgetKinds
  <2>2. helper.pc \notin {"processed", "failed"}
    BY <1>7 DEF SendFails, HelperAt
  <2>3. /\ Interruptions' = Interruptions
        /\ \A e \in Events : Shown(e)' = Shown(e) /\ (Waits(e)' => Waits(e))
    BY <2>1, <2>2 DEF Interruptions, Shown, Waits, BudgetKinds
  <2> QED BY <1>1, <1>3, <2>3
<1>8. CASE Send
  <2>1. PICK h \in Events :
           /\ h = helper.file /\ helper.pc = "send" /\ place[h] = "outbox"
           /\ UNCHANGED <<place, orphans, budget>>
           /\ sent' = [sent EXCEPT ![h] = @ + 1]
           /\ helper'.pc = "processed" /\ helper'.file = h
    BY <1>8, OnwardFacts, HelperFacts DEF Send, HelperAt, Core, Busy
  <2>2. Interruptions' = Interruptions
    BY <2>1 DEF Interruptions
  <2> SUFFICES ASSUME NEW e \in Events
               PROVE  Shown(e)' <= Interruptions'
                                     + (IF Waits(e)' THEN 0 ELSE 1)
    BY DEF ShownLinked
  <2>3. CASE e = h
    <3>1. sent'[e] = sent[e] + 1 /\ sent[e] \in Nat /\ orphans' = orphans
      BY <2>1, <2>3, HelperFacts
    <3>2. Shown(e)' = Shown(e) + 1
      BY <3>1 DEF Shown
    <3>3. Waits(e) /\ ~Waits(e)'
      BY <2>1, <2>3 DEF Waits
    <3> QED BY <1>1, <1>2, <2>2, <3>2, <3>3
  <2>4. CASE e # h
    <3>1. Shown(e)' = Shown(e) /\ (Waits(e)' => Waits(e))
      BY <2>1, <2>4, HelperFacts DEF Shown, Waits
    <3> QED BY <1>1, <1>2, <2>2, <3>1
  <2> QED BY <2>3, <2>4
<1>9. ASSUME helper.pc \in {"processed", "failed"},
             \E to \in {"processed", "failed", "removed"} :
                place' = [place EXCEPT ![helper.file] = to],
             UNCHANGED <<sent, orphans>>, Interruptions' >= Interruptions
      PROVE  ShownLinked'
  <2>1. helper.file \in Events /\ place \in [Events -> Places]
    BY <1>9, HelperFacts DEF Busy, Core, TypeOK
  <2> PICK to \in {"processed", "failed", "removed"} :
               place' = [place EXCEPT ![helper.file] = to]
    BY <1>9
  <2>2. \A e \in Events : Shown(e)' = Shown(e) /\ (Waits(e)' => Waits(e))
    BY <1>9, <2>1 DEF Shown, Waits
  <2> QED BY <1>3, <1>9, <2>2
<1>10. CASE Move
  <2>1. Interruptions' >= Interruptions
    BY <1>1, <1>10 DEF Move, Interruptions
  <2> QED BY <1>9, <1>10, <2>1 DEF Move
<1>11. ASSUME NEW kind \in {"deaths", "stops", "move"}, Spend(kind)
       PROVE  Interruptions' = Interruptions + 1
  <2>1. /\ budget'[kind] = budget[kind] - 1
        /\ \A k \in BudgetKinds \ {kind} : budget'[k] = budget[k]
    BY <1>11, SpendFacts DEF Core, BudgetKinds
  <2>2. /\ budget.deaths \in Nat /\ budget.stops \in Nat /\ budget.move \in Nat
        /\ MaxDeaths \in Nat /\ MaxStops \in Nat /\ MoveFaults \in Nat
    BY BudgetFacts DEF Core, BudgetKinds
  <2>3. CASE kind = "deaths"
    BY <2>1, <2>2, <2>3 DEF Interruptions, BudgetKinds
  <2>4. CASE kind = "stops"
    BY <2>1, <2>2, <2>4 DEF Interruptions, BudgetKinds
  <2>5. CASE kind = "move"
    BY <2>1, <2>2, <2>5 DEF Interruptions, BudgetKinds
  <2> QED BY <2>3, <2>4, <2>5
<1>12. ASSUME helper' = HelperOff,
              \/ UNCHANGED orphans
              \/ \E o \in Orphaned : orphans' = orphans \cup o,
              UNCHANGED <<service, place, whole, sent>>,
              Interruptions' = Interruptions + 1,
              PidTypes'
       PROVE  ShownLinked'
  <2>1. /\ orphans \subseteq orphans'
        /\ \A e \in orphans' :
              e \in orphans \/ (helper.pc = "send" /\ helper.file = e)
    BY <1>12, HelperFacts, HelperGone DEF Core, TypeOK
  <2>2. helper.pc = "send" => Waits(helper.file)
    BY HelperFacts DEF Waits, Busy
  <2>3. ASSUME NEW e \in Events
        PROVE  Shown(e)' = Shown(e) \/ (Shown(e)' = Shown(e) + 1 /\ Waits(e))
    <3>1. CASE e \in orphans <=> e \in orphans'
      BY <1>12, <3>1 DEF Shown
    <3>2. CASE ~(e \in orphans <=> e \in orphans')
      BY <1>12, <2>1, <2>2, <3>2, HelperFacts DEF Shown
    <3> QED BY <3>1, <3>2
  <2> QED BY <1>4, <1>12, <2>3
<1>13. CASE MoveFails
  <2>1. Spend("move")
    BY <1>13 DEF MoveFails
  <2>2. Interruptions' = Interruptions + 1
    BY <1>11, <2>1
  <2>3. CASE place' = [place EXCEPT ![helper.file] = "removed"]
    <3>1. /\ helper.pc \in {"processed", "failed"} /\ UNCHANGED <<sent, orphans>>
          /\ Interruptions' >= Interruptions
      BY <1>1, <1>13, <2>2 DEF MoveFails
    <3> QED BY <1>9, <2>3, <3>1
  <2>4. CASE helper' = HelperOff /\ PidLost /\ UNCHANGED place
    BY <1>1, <1>12, <1>13, <2>2, <2>4, PidAfter DEF MoveFails
  <2> QED BY <1>13, <2>3, <2>4 DEF MoveFails
<1>14. CASE HelperDies
  BY <1>11, <1>12, <1>14, PidAfter DEF HelperDies
<1>15. CASE StopHelper
  <2>1. Interruptions' = Interruptions + 1
    BY <1>11, <1>15 DEF StopHelper
  <2>2. CASE pidfile = "live"
    BY <1>12, <1>15, <2>1, <2>2, PidAfter DEF StopHelper
  <2>3. CASE pidfile # "live"
    <3>1. UNCHANGED <<place, sent, orphans, helper>>
      BY <1>15, <2>3 DEF StopHelper
    <3>2. \A e \in Events : Shown(e)' = Shown(e) /\ (Waits(e)' => Waits(e))
      BY <3>1 DEF Shown, Waits
    <3> QED BY <1>1, <1>3, <2>1, <3>2
  <2> QED BY <2>2, <2>3
<1>16. CASE LaunchHelper
  <2>1. UNCHANGED <<place, sent, orphans, budget>> /\ helper.pc = "off"
    BY <1>16, HelperFacts DEF LaunchHelper, PidTypes, HelperKnown, HelperAt
  <2>2. \A e \in Events : Shown(e)' = Shown(e) /\ (Waits(e)' => Waits(e))
    BY <2>1 DEF Shown, Waits
  <2>3. Interruptions' = Interruptions
    BY <2>1 DEF Interruptions
  <2> QED BY <1>1, <1>3, <2>2, <2>3
<1>17. CASE OrphanSends
  <2>1. PICK e \in orphans : /\ sent' = [sent EXCEPT ![e] = @ + 1]
                             /\ orphans' = orphans \ {e}
    BY <1>17 DEF OrphanSends
  <2>2. UNCHANGED <<place, helper, budget>> /\ e \in Events
    BY <1>17, <2>1, HelperFacts DEF OrphanSends
  <2>3. Shown(e)' = Shown(e)
    BY <2>1, <2>2, HelperFacts DEF Shown
  <2>4. \A f \in Events \ {e} : Shown(f)' = Shown(f)
    BY <2>1, <2>2, HelperFacts DEF Shown
  <2>5. Interruptions' = Interruptions /\ \A f \in Events : Waits(f)' => Waits(f)
    BY <2>2 DEF Interruptions, Waits
  <2> QED BY <1>1, <1>3, <2>3, <2>4, <2>5
<1> QED BY <1>5, <1>6, <1>7, <1>8, <1>10, <1>13, <1>14, <1>15, <1>16, <1>17
        DEF Next, HelperStep, OwnStep, WriterSteps

LEMMA FailedStep ==
    ASSUME Core, Core', FailedLinked, [Next]_vars
    PROVE  FailedLinked'
<1>1. IsFiniteSet(Failed)
  <2>1. IsFiniteSet(Events)
    BY FS_Interval, BoundsAssumption DEF Events
  <2> QED BY <2>1, FS_Subset DEF Failed
<1>2. /\ Cardinality(Failed) \in Nat /\ SendFaults \in Nat
      /\ budget.send \in Nat
      /\ Cardinality(Failed) + (IF helper.pc = "failed" THEN 1 ELSE 0)
           <= SendFaults - budget.send
  BY <1>1, FS_CardinalityType, BudgetFacts
     DEF FailedLinked, Core, BudgetKinds
<1>3. ASSUME Failed' = Failed, budget'.send = budget.send,
             helper'.pc = "failed" => helper.pc = "failed"
      PROVE  FailedLinked'
  BY <1>2, <1>3 DEF FailedLinked
<1>4. ASSUME NEW kind \in BudgetKinds \ {"send"}, Spend(kind)
      PROVE  budget'.send = budget.send
  BY <1>4, SpendFacts DEF Core, BudgetKinds
<1>5. CASE WriterSteps
  <2>1. Failed' = Failed
    BY <1>5, WriterStepFacts DEF Failed
  <2> QED BY <1>3, <1>5, <2>1, WriterStepFacts
<1>6. ASSUME UNCHANGED place
      PROVE  Failed' = Failed
  BY <1>6 DEF Failed
<1>7. CASE Glob \/ NextEvent \/ LaunchHelper \/ OrphanSends
  <2>1. UNCHANGED <<place, budget>>
    BY <1>7 DEF Glob, NextEvent, LaunchHelper, OrphanSends
  <2>2. helper'.pc # "failed" \/ UNCHANGED helper
    BY <1>7, HelperConstants DEF Glob, NextEvent, LaunchHelper, OrphanSends
  <2> QED BY <1>3, <1>6, <2>1, <2>2
<1>8. CASE ValidEvent
  <2>1. helper.pc = "valid" /\ UNCHANGED <<place, budget>>
    BY <1>8 DEF ValidEvent, HelperAt
  <2>2. helper.file \in whole
    BY <2>1, HelperFacts DEF Busy, Core, Linked, PlaceLinked, Written
  <2>3. helper'.pc = "send"
    BY <1>8, <2>2, OnwardFacts DEF ValidEvent, Core
  <2> QED BY <1>3, <1>6, <2>1, <2>3
<1>9. CASE Send
  BY <1>3, <1>6, <1>9, OnwardFacts DEF Send, Core
<1>10. CASE SendFails
  <2>1. Failed' = Failed /\ helper.pc = "send"
    BY <1>6, <1>10 DEF SendFails, HelperAt
  <2>2. budget'.send = budget.send - 1
    BY <1>10, SpendFacts DEF SendFails, Core, BudgetKinds
  <2> QED BY <1>2, <2>1, <2>2 DEF FailedLinked
<1>11. CASE Move
  <2>1. PICK h \in Events :
           /\ h = helper.file /\ place[h] = "outbox"
           /\ place' = [place EXCEPT ![h] = helper.pc]
           /\ helper.pc \in {"processed", "failed"} /\ helper'.pc = "next"
           /\ UNCHANGED budget
    BY <1>11, OnwardFacts, HelperFacts DEF Move, Core, Busy
  <2>2. CASE helper.pc = "processed"
    <3>1. Failed' = Failed
      BY <2>1, <2>2 DEF Failed, Core, TypeOK
    <3> QED BY <1>3, <2>1, <3>1
  <2>3. CASE helper.pc = "failed"
    <3>1. Failed' = Failed \cup {h} /\ h \notin Failed
      BY <2>1, <2>3 DEF Failed, Core, TypeOK
    <3>2. Cardinality(Failed') = Cardinality(Failed) + 1
      BY <1>1, <3>1, FS_AddElement
    <3> QED BY <1>2, <2>1, <2>3, <3>2 DEF FailedLinked
  <2> QED BY <2>1, <2>2, <2>3
<1>12. CASE MoveFails
  <2>1. PICK h \in Events : h = helper.file /\ place[h] = "outbox"
    BY <1>12, HelperFacts DEF MoveFails, Busy
  <2>2. UNCHANGED place \/ place' = [place EXCEPT ![h] = "removed"]
    BY <1>12, <2>1 DEF MoveFails
  <2>3. Failed' = Failed
    BY <2>1, <2>2 DEF Failed, Core, TypeOK
  <2>4. helper'.pc # "failed"
    BY <1>12, OnwardFacts, HelperConstants DEF MoveFails, Core
  <2>5. budget'.send = budget.send
    BY <1>4, <1>12 DEF MoveFails, BudgetKinds
  <2> QED BY <1>3, <2>3, <2>4, <2>5
<1>13. CASE HelperDies \/ StopHelper
  <2>1. budget'.send = budget.send
    BY <1>4, <1>13 DEF HelperDies, StopHelper, BudgetKinds
  <2>2. UNCHANGED place /\ (helper'.pc # "failed" \/ UNCHANGED helper)
    BY <1>13, HelperConstants DEF HelperDies, StopHelper
  <2> QED BY <1>3, <1>6, <2>1, <2>2
<1> QED BY <1>5, <1>7, <1>8, <1>9, <1>10, <1>11, <1>12, <1>13
        DEF Next, HelperStep, OwnStep, WriterSteps

-----------------------------------------------------------------------------
(* The order of the events of one goroutine. *)

(* Where an event may go in one step, and that showing it is never undone. *)
LEMMA PlaceMoves ==
    ASSUME Core, [Next]_vars, NEW e \in Events
    PROVE  /\ sent'[e] >= sent[e]
           /\ \/ place'[e] = place[e]
              \/ place[e] = "none" /\ place'[e] = "tmp"
              \/ /\ place[e] = "tmp" /\ place'[e] = "outbox"
                 /\ \A f \in 1..Len(by) : by[f] = by[e] => f <= e
              \/ place[e] = "outbox"
<1>1. /\ place \in [Events -> Places] /\ sent \in [Events -> Nat]
      /\ sent[e] \in Nat
  BY DEF Core, TypeOK
<1>2. CASE WriterSteps
  BY <1>1, <1>2, WriterStepFacts
<1>3. CASE Glob \/ NextEvent \/ ValidEvent \/ SendFails \/ HelperDies
           \/ LaunchHelper \/ StopHelper
  BY <1>1, <1>3 DEF Glob, NextEvent, ValidEvent, SendFails, HelperDies,
                    LaunchHelper, StopHelper
<1>4. CASE Move \/ MoveFails
  <2>1. place[helper.file] = "outbox" /\ UNCHANGED sent
    BY <1>4, HelperFacts DEF Move, MoveFails, Busy
  <2>2. UNCHANGED place \/ \E to : place' = [place EXCEPT ![helper.file] = to]
    BY <1>4 DEF Move, MoveFails
  <2> QED BY <1>1, <2>1, <2>2
<1>5. CASE Send \/ OrphanSends
  <2>1. UNCHANGED place /\ \E f : sent' = [sent EXCEPT ![f] = @ + 1]
    BY <1>5 DEF Send, OrphanSends
  <2> QED BY <1>1, <2>1
<1> QED BY <1>2, <1>3, <1>4, <1>5 DEF Next, HelperStep, OwnStep, WriterSteps

(* The pairs of events of one goroutine only grow, and a new event is      *)
(* nowhere yet.                                                            *)
LEMMA PairsKept ==
    ASSUME Core, [Next]_vars, NEW d \in Events, NEW e \in Events, d < e,
           SameWriter(d, e)'
    PROVE  \/ SameWriter(d, e)
           \/ /\ e \notin helper'.todo
              /\ helper'.pc \in Busy => helper'.file # e
              /\ sent'[e] = 0 /\ e \notin orphans'
<1>1. CASE UNCHANGED by
  BY <1>1 DEF SameWriter
<1>2. ASSUME NEW w \in Writers, WriteStart(w)
      PROVE  \/ SameWriter(d, e)
             \/ /\ e \notin helper'.todo
                /\ helper'.pc \in Busy => helper'.file # e
                /\ sent'[e] = 0 /\ e \notin orphans'
  <2>1. /\ Len(by) \in Nat /\ Len(by') = Len(by) + 1
        /\ \A f \in 1..Len(by) : by'[f] = by[f]
        /\ UNCHANGED <<helper, sent, orphans>>
    BY <1>2, BeginFacts DEF Core, WriteStart
  <2>2. CASE e <= Len(by)
    BY <2>1, <2>2 DEF SameWriter, Events
  <2>3. CASE e > Len(by)
    <3>1. place[e] = "none"
      BY <2>3 DEF Core, Linked, PlaceLinked
    <3>2. sent[e] = 0 /\ e \notin orphans
      BY <3>1, HelperFacts DEF Core, Linked, PlaceLinked, Written
    <3>3. e \notin helper.todo /\ (helper.pc \in Busy => helper.file # e)
      BY <3>1, HelperFacts DEF Written
    <3> QED BY <2>1, <3>2, <3>3
  <2>4. e \in Nat
    BY DEF Events
  <2> QED BY <2>1, <2>2, <2>3, <2>4
<1>3. UNCHANGED by \/ \E w \in Writers : WriteStart(w)
  BY DEF Next, WriteFile, Rename, WriteFails, SigTerm, Die, Restart, HelperStep, OwnStep,
         Glob, NextEvent, ValidEvent, Send, SendFails, Move, MoveFails,
         OrphanSends, HelperDies, PidReused, StartHelper, LaunchHelper,
         RecordPid, StopHelper, vars,
         service
<1> QED BY <1>1, <1>2, <1>3

LEMMA DoneKept ==
    ASSUME Core, [Next]_vars, NEW d \in Events, NEW e \in Events, d < e,
           SameWriter(d, e)
    PROVE  /\ Done(d) => Done(d)'
           /\ place'[d] = "outbox" => place[d] = "outbox"
<1>1. /\ sent'[d] >= sent[d] /\ sent[d] \in Nat
      /\ \/ place'[d] = place[d]
         \/ place[d] = "none" /\ place'[d] = "tmp"
         \/ place[d] = "outbox"
  <2>1. ~\A f \in 1..Len(by) : by[f] = by[d] => f <= d
    BY DEF SameWriter, Events
  <2> QED BY <2>1, PlaceMoves, HelperFacts
<1>2. sent'[d] \in Nat
  <2>1. Core'
    BY CoreStep
  <2> QED BY <2>1 DEF Core, TypeOK
<1> QED BY <1>1, <1>2 DEF Done

(* What a sweep of the helper does to its list and the event at hand.      *)
LEMMA TodoMoves ==
    ASSUME Core, [Next]_vars, NEW e \in Events
    PROVE  /\ e \in helper'.todo =>
                 \/ e \in helper.todo
                 \/ \A d \in Events : place'[d] = "outbox" => d \in helper'.todo
           /\ helper'.pc \in Busy /\ helper'.file = e =>
                 \/ helper.pc \in Busy /\ helper.file = e
                 \/ /\ helper.pc \notin Busy
                    /\ e \in helper.todo /\ place[e] = "outbox"
                    /\ \A d \in helper.todo : e <= d
           /\ \A d \in Events :
                 /\ helper'.todo # {}
                 /\ d \in helper.todo \/ (helper.pc \in Busy /\ helper.file = d)
                 /\ place'[d] = "outbox"
                 => d \in helper'.todo \/ (helper'.pc \in Busy /\ helper'.file = d)
           /\ sent'[e] > 0 \/ e \in orphans' =>
                 \/ sent[e] > 0 \/ e \in orphans
                 \/ helper.pc \in Busy /\ helper.file = e
<1>1. /\ helper \in HelperTypes /\ place \in [Events -> Places]
      /\ sent \in [Events -> Nat]
  BY HelperFacts DEF Core, TypeOK
<1>2. CASE WriterSteps
  <2>1. UNCHANGED <<sent, helper, orphans>>
    BY <1>2, WriterStepFacts
  <2> QED BY <2>1
<1>3. CASE LaunchHelper \/ HelperDies \/ (StopHelper /\ pidfile = "live")
           \/ (MoveFails /\ helper' = HelperOff)
  <2>1. UNCHANGED sent /\ helper'.todo = {} /\ helper'.pc \notin Busy
    BY <1>3, HelperConstants DEF LaunchHelper, HelperDies, StopHelper, MoveFails,
                                 Busy
  <2>2. UNCHANGED orphans \/ \E o \in Orphaned : orphans' = orphans \cup o
    BY <1>3 DEF LaunchHelper, HelperDies, StopHelper, MoveFails
  <2>3. e \in orphans' =>
           e \in orphans \/ (helper.pc \in Busy /\ helper.file = e)
    BY <2>2 DEF Orphaned, HelperAt, Busy
  <2> QED BY <2>1, <2>3
<1>4. CASE StopHelper /\ pidfile # "live"
  <2>1. UNCHANGED <<sent, helper, orphans>>
    BY <1>4 DEF StopHelper
  <2> QED BY <2>1
<1>5. CASE Glob
  <2>1. /\ helper' = [pc |-> "next",
                      todo |-> {d \in Events : place[d] = "outbox"}, file |-> 0]
        /\ helper.pc = "sweep" /\ UNCHANGED <<sent, orphans, place>>
    BY <1>5 DEF Glob, HelperAt
  <2>2. /\ helper'.pc = "next"
        /\ helper'.todo = {d \in Events : place[d] = "outbox"}
    BY <2>1
  <2> QED BY <2>1, <2>2 DEF Busy
<1>6. CASE NextEvent
  <2>1. helper.pc = "next" /\ UNCHANGED <<sent, orphans, place>>
    BY <1>6 DEF NextEvent, HelperAt
  <2>2. CASE helper' = HelperIdle
    BY <2>1, <2>2, HelperConstants DEF Busy
  <2>3. ASSUME NEW x \in NextFile(helper.todo),
               helper' = [pc   |-> IF place[x] = "outbox" THEN "valid"
                                                          ELSE "next",
                          todo |-> helper.todo \ {x}, file |-> x]
        PROVE  /\ e \in helper'.todo => e \in helper.todo
               /\ helper'.pc \in Busy /\ helper'.file = e =>
                     /\ e \in helper.todo /\ place[e] = "outbox"
                     /\ \A d \in helper.todo : e <= d
               /\ \A d \in Events :
                     d \in helper.todo /\ place'[d] = "outbox" =>
                        \/ d \in helper'.todo
                        \/ helper'.pc \in Busy /\ helper'.file = d
    <3>1. /\ helper'.todo = helper.todo \ {x} /\ helper'.file = x
          /\ helper'.pc = IF place[x] = "outbox" THEN "valid" ELSE "next"
          /\ x \in helper.todo /\ \A d \in helper.todo : x <= d
      BY <2>3 DEF NextFile
    <3> QED BY <2>1, <3>1 DEF Busy
  <2> QED BY <1>6, <2>1, <2>2, <2>3 DEF NextEvent, Busy
<1>7. CASE ValidEvent \/ Send \/ SendFails
  <2>1. /\ helper.pc \in Busy /\ helper'.pc \in Busy /\ UNCHANGED <<place, orphans>>
        /\ helper'.todo = helper.todo /\ helper'.file = helper.file
    BY <1>7, OnwardFacts
       DEF ValidEvent, Send, SendFails, HelperAt, Busy, Core
  <2>2. sent'[e] = sent[e] \/ helper.file = e
    BY <1>1, <1>7 DEF ValidEvent, Send, SendFails
  <2> QED BY <2>1, <2>2
<1>8. CASE Move \/ (MoveFails /\ Onward("next"))
  <2>1. PICK h \in Events : /\ h = helper.file /\ helper'.pc = "next"
                            /\ helper'.todo = helper.todo
                            /\ UNCHANGED <<sent, orphans>>
    BY <1>8, OnwardFacts, HelperFacts DEF Move, MoveFails, Core, Busy
  <2>2. PICK to \in {"processed", "failed", "removed"} :
           place' = [place EXCEPT ![h] = to]
    <3>1. CASE Move
      BY <2>1, <3>1 DEF Move
    <3>2. CASE MoveFails /\ Onward("next")
      <4>1. helper' # HelperOff
        BY <2>1, HelperConstants
      <4>2. place' = [place EXCEPT ![h] = "removed"]
        BY <2>1, <3>2, <4>1 DEF MoveFails
      <4> QED BY <4>2
    <3> QED BY <1>8, <3>1, <3>2
  <2>3. place'[h] # "outbox"
    BY <1>1, <2>2
  <2> QED BY <2>1, <2>3 DEF Busy
<1>9. CASE OrphanSends
  <2>1. PICK x \in orphans : /\ sent' = [sent EXCEPT ![x] = @ + 1]
                             /\ orphans' = orphans \ {x}
    BY <1>9 DEF OrphanSends
  <2>2. UNCHANGED helper
    BY <1>9 DEF OrphanSends
  <2> QED BY <1>1, <2>1, <2>2
<1>10. MoveFails => Onward("next") \/ helper' = HelperOff
  BY DEF MoveFails
<1> QED BY <1>2, <1>3, <1>4, <1>5, <1>6, <1>7, <1>8, <1>9, <1>10
        DEF Next, HelperStep, OwnStep, WriterSteps

LEMMA OrderStep ==
    ASSUME Core, OrderLinked, [Next]_vars
    PROVE  OrderLinked'
<1> SUFFICES ASSUME NEW d \in Events, NEW e \in Events, d < e,
                    SameWriter(d, e)'
             PROVE  /\ e \in helper'.todo /\ place'[d] = "outbox" =>
                          \/ d \in helper'.todo
                          \/ helper'.pc \in Busy /\ helper'.file = d
                    /\ helper'.pc \in Busy /\ helper'.file = e => Done(d)'
                    /\ sent'[e] > 0 \/ e \in orphans' => Done(d)'
  BY DEF OrderLinked
<1>1. CASE ~SameWriter(d, e)
  BY <1>1, PairsKept
<1>2. CASE SameWriter(d, e)
  <2>1. /\ e \in helper.todo /\ place[d] = "outbox" =>
              d \in helper.todo \/ (helper.pc \in Busy /\ helper.file = d)
        /\ helper.pc \in Busy /\ helper.file = e => Done(d)
        /\ sent[e] > 0 \/ e \in orphans => Done(d)
    BY <1>2 DEF OrderLinked
  <2>2. Done(d) => Done(d)'
    BY <1>2, DoneKept
  <2>3. ASSUME e \in helper'.todo, place'[d] = "outbox"
        PROVE  d \in helper'.todo \/ (helper'.pc \in Busy /\ helper'.file = d)
    <3>1. place[d] = "outbox"
      BY <1>2, <2>3, DoneKept
    <3>2. CASE e \in helper.todo
      <4>1. d \in helper.todo \/ (helper.pc \in Busy /\ helper.file = d)
        BY <2>1, <3>1, <3>2
      <4> QED BY <2>3, <4>1, TodoMoves
    <3>3. CASE e \notin helper.todo
      BY <2>3, <3>3, TodoMoves
    <3> QED BY <3>2, <3>3
  <2>4. ASSUME helper'.pc \in Busy, helper'.file = e
        PROVE  Done(d)'
    <3>1. CASE helper.pc \in Busy /\ helper.file = e
      BY <2>1, <2>2, <3>1
    <3>2. CASE /\ helper.pc \notin Busy /\ e \in helper.todo
               /\ \A f \in helper.todo : e <= f
      <4>1. d \notin helper.todo
        BY <3>2 DEF Events
      <4>2. place[d] # "outbox"
        BY <2>1, <3>2, <4>1
      <4>3. place[d] \in Places /\ place[d] # "none"
        BY <1>2 DEF Core, TypeOK, Linked, PlaceLinked, SameWriter, Events
      <4>4. place[d] = "processed" => sent[d] > 0
        BY DEF Core, Linked, PlaceLinked
      <4> QED BY <2>2, <4>2, <4>3, <4>4 DEF Places, Done
    <3> QED BY <2>4, <3>1, <3>2, TodoMoves
  <2>5. ASSUME sent'[e] > 0 \/ e \in orphans'
        PROVE  Done(d)'
    BY <2>1, <2>2, <2>5, TodoMoves
  <2> QED BY <2>3, <2>4, <2>5
<1> QED BY <1>1, <1>2

-----------------------------------------------------------------------------
(* The abstract specification. *)

LEMMA BoxFacts ==
    ASSUME Core, NEW e \in Events
    PROVE  /\ Box[e] = "unwritten" <=> place[e] \notin Written
           /\ place[e] = "outbox" => Box[e] = "outbox"
BY DEF Box, Core, TypeOK, Places, Written

(* A file that arrives in a directory.                                     *)
LEMMA BoxMoves ==
    ASSUME Core, NEW e \in Events, NEW to \in Written,
           place' = [place EXCEPT ![e] = to]
    PROVE  Box' = [Box EXCEPT ![e] = to]
<1>1. /\ \A f \in Events \ {e} : place'[f] = place[f]
      /\ place'[e] = to
  BY DEF Core, TypeOK
<1> QED BY <1>1 DEF Box, Written

LEMMA RefinementStep ==
    ASSUME Core, [Next]_vars
    PROVE  [Notices!Next]_<<Box, sent>>
<1>1. ASSUME UNCHANGED sent,
             \A e \in Events :
                \/ place'[e] = place[e]
                \/ place[e] = "none" /\ place'[e] = "tmp"
      PROVE  UNCHANGED <<Box, sent>>
  BY <1>1 DEF Box
<1>2. ASSUME NEW w \in Writers, WriteStart(w)
      PROVE  UNCHANGED <<Box, sent>>
  <2>1. PICK n \in Events : n = Len(by) + 1 /\ Len(by) \in Nat
                            /\ place' = [place EXCEPT ![n] = "tmp"]
    BY <1>2, BeginFacts DEF Core
  <2>2. place[n] = "none" /\ UNCHANGED sent
    BY <1>2, <2>1 DEF Core, Linked, PlaceLinked, WriteStart
  <2> QED BY <1>1, <2>1, <2>2 DEF Core, TypeOK
<1>3. ASSUME NEW w \in Writers, Rename(w)
      PROVE  Notices!Next
  <2>1. PICK e : e = writer[w].file
    OBVIOUS
  <2>2. /\ place' = [place EXCEPT ![e] = "outbox"] /\ UNCHANGED sent
        /\ writer[w].pc # "idle"
    BY <1>3, <2>1 DEF Rename
  <2>3. e \in Events /\ place[e] = "tmp"
    BY <2>1, <2>2, WritingFacts
  <2>4. Box[e] = "unwritten" /\ Box' = [Box EXCEPT ![e] = "outbox"]
    BY <2>2, <2>3, BoxFacts, BoxMoves DEF Written
  <2> QED BY <2>2, <2>3, <2>4 DEF Notices!Next, Notices!Write, Notices!Leave
<1>4. ASSUME NEW e \in Events, place[e] \in Written, UNCHANGED place,
             sent' = [sent EXCEPT ![e] = @ + 1]
      PROVE  Notices!Next
  <2>1. Box[e] # "unwritten" /\ UNCHANGED Box
    BY <1>4, BoxFacts DEF Box
  <2> QED BY <1>4, <2>1 DEF Notices!Next, Notices!Show
<1>5. CASE Send
  <2>1. helper.file \in Events /\ place[helper.file] \in Written
    BY <1>5, HelperFacts DEF Send, HelperAt, Busy, Written
  <2> QED BY <1>4, <1>5, <2>1 DEF Send
<1>6. CASE OrphanSends
  <2>1. \A e \in orphans : e \in Events /\ place[e] \in Written
    BY HelperFacts DEF Core, Linked, PlaceLinked
  <2> QED BY <1>4, <1>6, <2>1 DEF OrphanSends
<1>7. CASE Move
  <2>1. PICK e \in Events, to \in {"processed", "failed"} :
           /\ e = helper.file /\ to = helper.pc /\ place[e] = "outbox"
           /\ to = "processed" => sent[e] > 0
           /\ place' = [place EXCEPT ![e] = to] /\ UNCHANGED sent
    BY <1>7, HelperFacts DEF Move, Busy
  <2>2. Box[e] = "outbox" /\ Box' = [Box EXCEPT ![e] = to]
    BY <2>1, BoxFacts, BoxMoves DEF Written
  <2> QED BY <2>1, <2>2
          DEF Notices!Next, Notices!Process, Notices!Refuse, Notices!Leave
<1>8. CASE MoveFails
  <2>1. PICK e \in Events : e = helper.file /\ place[e] = "outbox"
    BY <1>8, HelperFacts DEF MoveFails, Busy
  <2>2. CASE UNCHANGED place
    BY <1>1, <1>8, <2>2 DEF MoveFails
  <2>3. CASE place' = [place EXCEPT ![e] = "removed"]
    <3>1. Box[e] = "outbox" /\ Box' = [Box EXCEPT ![e] = "removed"]
      BY <2>1, <2>3, BoxFacts, BoxMoves DEF Written
    <3>2. UNCHANGED sent
      BY <1>8 DEF MoveFails
    <3> QED BY <3>1, <3>2 DEF Notices!Next, Notices!Lose, Notices!Leave
  <2> QED BY <1>8, <2>1, <2>2, <2>3 DEF MoveFails
<1>9. \/ UNCHANGED <<place, sent>>
      \/ Send \/ OrphanSends \/ Move \/ MoveFails
      \/ \E w \in Writers : WriteStart(w) \/ Rename(w)
  BY DEF Next, WriteFile, WriteFails, SigTerm, Die, Restart, HelperStep, OwnStep,
         Glob, NextEvent, ValidEvent, SendFails, HelperDies, PidReused,
         StartHelper, LaunchHelper, RecordPid, StopHelper, vars
<1> QED BY <1>1, <1>2, <1>3, <1>5, <1>6, <1>7, <1>8, <1>9

-----------------------------------------------------------------------------
(* Theorems. *)

(* Type correctness, with the places and the locals of writers and helper. *)
THEOREM CoreCorrect == Spec => []Core
BY CoreInit, CoreStep, PTL DEF Spec

(* Every variable of the pipeline keeps its type, and a running helper is  *)
(* the process its PID file names.                                         *)
THEOREM TypeCorrect == Spec => []TypeOK
<1>1. Core => TypeOK
  BY DEF Core
<1> QED BY <1>1, CoreCorrect, PTL

(* The helper reads no torn event: Write renames only a file that it wrote *)
(* completely, and the glob leaves out the temporary name.                 *)
THEOREM WholeEventsOnlyCorrect == Spec => []WholeEventsOnly
<1>1. Core => WholeEventsOnly
  BY DEF Core, TypeOK, Places, Linked, PlaceLinked, Written, WholeEventsOnly
<1> QED BY <1>1, CoreCorrect, PTL

(* A file in processed was shown, and each one in failed was refused.      *)
THEOREM FiledTruthfullyCorrect == Spec => []FiledTruthfully
<1>1. Init => FailedLinked
  <2> SUFFICES ASSUME Init PROVE FailedLinked
    OBVIOUS
  <2>1. Failed = {} /\ helper.pc = "off" /\ budget.send = SendFaults
    BY HelperConstants DEF Init, Failed
  <2>2. Cardinality(Failed) = 0
    BY <2>1, FS_EmptySet
  <2> QED BY <2>1, <2>2, BoundsAssumption DEF FailedLinked
<1>2. Core /\ Core' /\ FailedLinked /\ [Next]_vars => FailedLinked'
  BY FailedStep
<1>3. Core /\ FailedLinked => FiledTruthfully
  <2> SUFFICES ASSUME Core, FailedLinked PROVE FiledTruthfully
    OBVIOUS
  <2>1. IsFiniteSet(Failed)
    <3>1. IsFiniteSet(Events)
      BY FS_Interval, BoundsAssumption DEF Events
    <3> QED BY <3>1, FS_Subset DEF Failed
  <2>2. /\ Cardinality(Failed) \in Nat
        /\ budget.send \in Nat /\ SendFaults \in Nat
    BY <2>1, FS_CardinalityType, BudgetFacts DEF Core, BudgetKinds
  <2>3. Cardinality(Failed) <= SendFaults - budget.send
    BY <2>2 DEF FailedLinked
  <2> QED BY <2>3 DEF FiledTruthfully, Failed, Core, Linked, PlaceLinked
<1> QED BY <1>1, <1>2, <1>3, CoreCorrect, PTL DEF Spec

(* DSM shows an event once, and once more for each interruption.           *)
THEOREM DuplicatesAreInterruptionsCorrect ==
    Spec => []DuplicatesAreInterruptions
<1>1. Init => ShownLinked
  BY InterruptionsFacts, CoreInit DEF Init, ShownLinked, Shown
<1>2. Core /\ Core' /\ ShownLinked /\ [Next]_vars => ShownLinked'
  BY ShownStep
<1>3. Core /\ ShownLinked => DuplicatesAreInterruptions
  <2> SUFFICES ASSUME Core, ShownLinked, NEW e \in Events
               PROVE  sent[e] <= 1 + (MaxDeaths - budget.deaths)
                                   + (MaxStops - budget.stops)
                                   + (MoveFaults - budget.move)
    BY DEF DuplicatesAreInterruptions
  <2>1. Interruptions \in Nat /\ sent[e] \in Nat
    BY InterruptionsFacts, HelperFacts
  <2>2. sent[e] <= Interruptions + 1
    BY <2>1 DEF ShownLinked, Shown
  <2>3. /\ budget.deaths \in Nat /\ budget.stops \in Nat /\ budget.move \in Nat
        /\ MaxDeaths \in Nat /\ MaxStops \in Nat /\ MoveFaults \in Nat
    BY BudgetFacts DEF Core, BudgetKinds
  <2> QED BY <2>1, <2>2, <2>3 DEF Interruptions
<1> QED BY <1>1, <1>2, <1>3, CoreCorrect, PTL DEF Spec

(* Events of one goroutine are shown in the order they were written, in    *)
(* spite of sweeps that work through a list while files keep arriving.     *)
THEOREM InOrderCorrect == Spec => []InOrder
<1>1. Init => OrderLinked
  BY DEF Init, OrderLinked, HelperOff, Busy
<1>2. Core /\ OrderLinked /\ [Next]_vars => OrderLinked'
  BY OrderStep
<1>3. Core /\ OrderLinked => InOrder
  <2> SUFFICES ASSUME Core, OrderLinked, NEW d \in DOMAIN by,
                      NEW e \in DOMAIN by, d < e, by[d] = by[e], sent[e] > 0
               PROVE  sent[d] > 0 \/ place[d] \in {"tmp", "failed", "removed"}
    BY DEF InOrder
  <2>1. /\ DOMAIN by = 1..Len(by) /\ Len(by) <= MaxEvents /\ Len(by) \in Nat
        /\ MaxEvents \in Nat
    BY BoundsAssumption DEF Core, TypeOK
  <2>2. d \in Events /\ e \in Events /\ SameWriter(d, e)
    BY <2>1 DEF Events, SameWriter
  <2> QED BY <2>2 DEF OrderLinked, Done
<1> QED BY <1>1, <1>2, <1>3, CoreCorrect, PTL DEF Spec

(* The writers, the helper and the package script implement Delivery.      *)
THEOREM RefinesDeliveryCorrect == Spec => RefinesDelivery
<1>1. Init => Notices!Init
  BY DEF Init, Notices!Init, Box
<1>2. Core /\ [Next]_vars => [Notices!Next]_<<Box, sent>>
  BY RefinementStep
<1> QED BY <1>1, <1>2, CoreCorrect, PTL
        DEF Spec, RefinesDelivery, Notices!Spec, Notices!vars
==============================================================================

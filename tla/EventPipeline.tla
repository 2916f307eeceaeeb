---------------------------- MODULE EventPipeline ----------------------------
(***************************************************************************)
(* Notification events on their way to DSM: the goroutines of the service  *)
(* that write them (internal/events/outbox.go), the directory both sides   *)
(* share, the helper that polls it (synology/notification-helper.sh) and   *)
(* the package script that starts and stops the helper by its PID file     *)
(* (synology/scripts/start-stop-status).                                   *)
(*                                                                         *)
(* Events are numbered in the order their files are named, which is the    *)
(* order of the helper's glob.  The temporary name starts with a dot, so   *)
(* the glob does not match it.  DSM's notification command is external.    *)
(***************************************************************************)
EXTENDS Naturals, Sequences, FiniteSets

CONSTANTS
    Writers,        \* goroutines that emit events
    Detached,       \* those that use context.Background (speed tests)
    MaxEvents,      \* events written altogether (bound)
    WriteFaults,    \* failed WriteFile or Rename calls (bound)
    SendFaults,     \* failed DSM notification commands (bound)
    MoveFaults,     \* failed mv commands (bound)
    MaxKills,       \* deaths of the service followed by a start (bound)
    MaxDeaths,      \* deaths of the helper by itself (bound)
    MaxStops,       \* runs of "stop" (bound)
    MaxReuses       \* stale PIDs taken by another process (bound)

ASSUME WritersAssumption == Detached \subseteq Writers
ASSUME BoundsAssumption ==
    /\ MaxEvents \in Nat /\ WriteFaults \in Nat /\ SendFaults \in Nat
    /\ MoveFaults \in Nat /\ MaxKills \in Nat /\ MaxDeaths \in Nat
    /\ MaxStops \in Nat /\ MaxReuses \in Nat

VARIABLES
    proc,       \* the service: "up", "stopping" or "down"
    writer,     \* per goroutine: where Write stands, and its event
    place,      \* where the file of an event is
    whole,      \* events whose file is completely written
    by,         \* the goroutine of each event begun, in order
    sent,       \* notifications DSM showed for an event
    helper,     \* the helper: where it stands, its glob, its file
    orphans,    \* events whose command outlived a killed helper
    pidfile,    \* "none", "live", "stale" (no such process) or "alien"
    script,     \* where a "start" under way stands, or "idle"
    budget      \* what is left of each bound

service == <<proc, writer, by>>
package == <<pidfile, script>>
vars == <<service, place, whole, sent, helper, orphans, package, budget>>

Events == 1..MaxEvents
Places == {"none", "tmp", "outbox", "processed", "failed", "removed"}
HelperOff == [pc |-> "off", todo |-> {}, file |-> 0]
HelperIdle == [HelperOff EXCEPT !.pc = "sweep"]
WriterIdle == [pc |-> "idle", file |-> 0]
Budgets == [write : 0..WriteFaults, send : 0..SendFaults,
            move : 0..MoveFaults, kills : 0..MaxKills,
            deaths : 0..MaxDeaths, stops : 0..MaxStops,
            reuses : 0..MaxReuses]

Spend(kind) ==
    budget[kind] > 0 /\ budget' = [budget EXCEPT ![kind] = @ - 1]

-----------------------------------------------------------------------------
(* Outbox.Write. *)

(* The context is checked once, at the beginning; then the temporary file  *)
(* is created.                                                             *)
WriteStartInPlace(w) ==
    /\ proc = "up" \/ (proc = "stopping" /\ w \in Detached)
    /\ writer[w].pc = "idle" /\ Len(by) < MaxEvents
    /\ by' = Append(by, w)
    /\ writer' = [writer EXCEPT ![w] = [pc |-> "write", file |-> Len(by')]]
    /\ place' = [place EXCEPT ![Len(by')] = "outbox"]
    /\ UNCHANGED <<proc, whole, sent, helper, orphans, package, budget>>
WriteStart(w) ==
    /\ proc = "up" \/ (proc = "stopping" /\ w \in Detached)
    /\ writer[w].pc = "idle" /\ Len(by) < MaxEvents
    /\ by' = Append(by, w)
    /\ writer' = [writer EXCEPT ![w] = [pc |-> "write", file |-> Len(by')]]
    /\ place' = [place EXCEPT ![Len(by')] = "tmp"]
    /\ UNCHANGED <<proc, whole, sent, helper, orphans, package, budget>>

WriteFile(w) ==
    /\ writer[w].pc = "write"
    /\ whole' = whole \cup {writer[w].file}
    /\ writer' = [writer EXCEPT ![w].pc = "rename"]
    /\ UNCHANGED <<proc, by, place, sent, helper, orphans, package, budget>>

Rename(w) ==
    /\ writer[w].pc = "rename"
    /\ place' = [place EXCEPT ![writer[w].file] = "outbox"]
    /\ writer' = [writer EXCEPT ![w] = WriterIdle]
    /\ UNCHANGED <<proc, by, whole, sent, helper, orphans, package, budget>>

(* Disk full, name too long, ...: Write returns the error, the caller logs *)
(* it, and a temporary file may stay behind.                               *)
WriteFails(w) ==
    /\ writer[w].pc # "idle" /\ Spend("write")
    /\ writer' = [writer EXCEPT ![w] = WriterIdle]
    /\ UNCHANGED <<proc, by, place, whole, sent, helper, orphans, package>>

SigTerm ==
    /\ proc = "up" /\ proc' = "stopping"
    /\ UNCHANGED <<writer, by, place, whole, sent, helper, orphans, package,
                   budget>>

Die ==
    /\ proc # "down" /\ proc' = "down"
    /\ writer' = [w \in Writers |-> WriterIdle]
    /\ UNCHANGED <<by, place, whole, sent, helper, orphans, package, budget>>

Restart ==
    /\ proc = "down" /\ proc' = "up" /\ Spend("kills")
    /\ UNCHANGED <<writer, by, place, whole, sent, helper, orphans, package>>

-----------------------------------------------------------------------------
(* notification-helper.sh. *)

HelperAt(pc) == helper.pc = pc
Onward(pc) == helper' = [helper EXCEPT !.pc = pc]

(* "$OUTBOX_DIR"/*.json, expanded once per sweep, in name order.           *)
Glob ==
    /\ HelperAt("sweep")
    /\ LET todo == {e \in Events : place[e] = "outbox"}
       IN  todo # {} /\ helper' = [pc |-> "next", todo |-> todo, file |-> 0]
    /\ UNCHANGED <<service, place, whole, sent, orphans, package, budget>>

(* for file in ... : the first name of those not yet visited.              *)
NextFileNewest(todo) == {e \in todo : \A d \in todo : d <= e}
NextFile(todo) == {e \in todo : \A d \in todo : e <= d}

NextEventOfOneGlob ==
    /\ HelperAt("next")
    /\ \E e \in NextFile(helper.todo) :
          helper' = [pc   |-> IF place[e] = "outbox" THEN "valid" ELSE "next",
                     todo |-> helper.todo \ {e}, file |-> e]
    /\ UNCHANGED <<service, place, whole, sent, orphans, package, budget>>
NextEvent ==
    /\ HelperAt("next")
    /\ \/ helper.todo = {} /\ helper' = HelperIdle
       \/ \E e \in NextFile(helper.todo) :
             helper' = [pc   |-> IF place[e] = "outbox" THEN "valid"
                                                        ELSE "next",
                        todo |-> helper.todo \ {e}, file |-> e]
    /\ UNCHANGED <<service, place, whole, sent, orphans, package, budget>>

ValidEvent ==
    /\ HelperAt("valid")
    /\ Onward(IF helper.file \in whole THEN "send" ELSE "failed")
    /\ UNCHANGED <<service, place, whole, sent, orphans, package, budget>>

(* send_dsm_notification; without a command at all the event is only       *)
(* logged, and counts as sent.  The command is waited for without a        *)
(* timeout, and may hang: neither Send nor SendFails has to happen.        *)
Send ==
    /\ HelperAt("send") /\ Onward("processed")
    /\ sent' = [sent EXCEPT ![helper.file] = @ + 1]
    /\ UNCHANGED <<service, place, whole, orphans, package, budget>>

SendFailsFiled ==
    /\ HelperAt("send") /\ Onward("processed") /\ Spend("send")
    /\ UNCHANGED <<service, place, whole, sent, orphans, package>>
SendFails ==
    /\ HelperAt("send") /\ Onward("failed") /\ Spend("send")
    /\ UNCHANGED <<service, place, whole, sent, orphans, package>>

(* mv "$file" to processed or failed.                                      *)
MoveNowhere ==
    /\ helper.pc \in {"processed", "failed"} /\ Onward("next")
    /\ UNCHANGED <<service, place, whole, sent, orphans, package, budget>>
Move ==
    /\ helper.pc \in {"processed", "failed"} /\ Onward("next")
    /\ place' = [place EXCEPT ![helper.file] = helper.pc]
    /\ UNCHANGED <<service, whole, sent, orphans, package, budget>>

(* The PID file of a helper that ends stays behind. *)
PidLost == pidfile' = IF pidfile = "live" THEN "stale" ELSE pidfile

(* ... || rm -f "$file".  When rm fails as well, set -e ends the helper.   *)
MoveFails ==
    /\ helper.pc \in {"processed", "failed"} /\ Spend("move")
    /\ \/ /\ Onward("next")
          /\ place' = [place EXCEPT ![helper.file] = "removed"]
          /\ UNCHANGED pidfile
       \/ helper' = HelperOff /\ PidLost /\ UNCHANGED place
    /\ UNCHANGED <<service, whole, sent, orphans, script>>

OwnStep == Glob \/ NextEvent \/ ValidEvent \/ Move \/ MoveFails
HelperStep == OwnStep \/ Send \/ SendFails

(* A killed shell does not take its command with it.                       *)
Orphaned == IF HelperAt("send") THEN SUBSET {helper.file} ELSE {{}}

OrphanSends ==
    /\ \E e \in orphans :
          /\ sent' = [sent EXCEPT ![e] = @ + 1]
          /\ orphans' = orphans \ {e}
    /\ UNCHANGED <<service, place, whole, helper, package, budget>>

-----------------------------------------------------------------------------
(* start-stop-status. *)

(* The helper dies by itself: killed, NAS rebooted, or set -e when the log *)
(* cannot be written.                                                      *)
HelperDies ==
    /\ ~HelperAt("off") /\ Spend("deaths")
    /\ helper' = HelperOff /\ PidLost
    /\ \E o \in Orphaned : orphans' = orphans \cup o
    /\ UNCHANGED <<service, place, whole, sent, script>>

PidReused ==
    /\ pidfile = "stale" /\ pidfile' = "alien" /\ Spend("reuses")
    /\ UNCHANGED <<service, place, whole, sent, helper, orphans, script>>

(* "start" does nothing when the PID file names a living process.  It then *)
(* launches a helper and, after that, writes its PID, which may be that of *)
(* one that has died already.  DSM runs the scripts of a package one after *)
(* the other, and a "start" to its end.                                    *)
StartHelper ==
    /\ script = "idle" /\ pidfile \notin {"live", "alien"}
    /\ script' = "launch"
    /\ UNCHANGED <<service, place, whole, sent, helper, orphans, pidfile,
                   budget>>

LaunchHelper ==
    /\ script = "launch" /\ script' = "record" /\ helper' = HelperIdle
    /\ UNCHANGED <<service, place, whole, sent, orphans, pidfile, budget>>

RecordPid ==
    /\ script = "record" /\ script' = "idle"
    /\ pidfile' = IF HelperAt("off") THEN "stale" ELSE "live"
    /\ UNCHANGED <<service, place, whole, sent, helper, orphans, budget>>

(* "stop" kills whatever process the PID file names, and removes it.       *)
StopHelperUnread ==
    /\ script = "idle" /\ Spend("stops") /\ pidfile' = "none"
    /\ UNCHANGED <<service, place, whole, sent, helper, orphans, script>>
StopHelper ==
    /\ script = "idle" /\ Spend("stops") /\ pidfile' = "none"
    /\ IF pidfile = "live"
         THEN /\ helper' = HelperOff
              /\ \E o \in Orphaned : orphans' = orphans \cup o
         ELSE UNCHANGED <<helper, orphans>>
    /\ UNCHANGED <<service, place, whole, sent, script>>

Init ==
    /\ proc = "up" /\ writer = [w \in Writers |-> WriterIdle]
    /\ place = [e \in Events |-> "none"] /\ whole = {}
    /\ by = <<>> /\ sent = [e \in Events |-> 0]
    /\ helper = HelperOff /\ orphans = {}
    /\ pidfile = "none" /\ script = "idle"
    /\ budget = [write |-> WriteFaults, send |-> SendFaults,
                 move |-> MoveFaults, kills |-> MaxKills,
                 deaths |-> MaxDeaths, stops |-> MaxStops,
                 reuses |-> MaxReuses]

Next ==
    \/ \E w \in Writers :
          WriteStart(w) \/ WriteFile(w) \/ Rename(w) \/ WriteFails(w)
    \/ SigTerm \/ Die \/ Restart
    \/ HelperStep \/ OrphanSends
    \/ HelperDies \/ PidReused
    \/ StartHelper \/ LaunchHelper \/ RecordPid \/ StopHelper

Spec == Init /\ [][Next]_vars

(* The helper is a process the kernel schedules, and sleeps only between   *)
(* sweeps.  Nobody promises to start it again once it is gone, or that the *)
(* command it waits for returns.                                           *)
FairSpec == Spec /\ WF_vars(OwnStep)

-----------------------------------------------------------------------------
(* Properties. *)

(* A running helper is the process its PID file names, so that "stop"      *)
(* finds it and "start" adds no second one, except while a "start" has yet *)
(* to write the PID it launched.                                           *)
HelperKnown ==
    /\ pidfile = "live" => ~HelperAt("off") /\ script = "idle"
    /\ ~HelperAt("off") => pidfile = "live" \/ script = "record"

(* Every variable keeps its type, and PID file and helper agree.           *)
TypeOK ==
    /\ proc \in {"up", "stopping", "down"}
    /\ writer \in [Writers -> [pc : {"idle", "write", "rename"},
                               file : Events \cup {0}]]
    /\ by \in Seq(Writers) /\ Len(by) <= MaxEvents
    /\ place \in [Events -> Places] /\ whole \subseteq Events
    /\ sent \in [Events -> Nat] /\ budget \in Budgets
    /\ helper \in [pc : {"off", "sweep", "next", "valid", "send", "processed",
                         "failed"},
                   todo : SUBSET Events, file : Events \cup {0}]
    /\ orphans \subseteq Events
    /\ pidfile \in {"none", "live", "stale", "alien"}
    /\ script \in {"idle", "launch", "record"} /\ HelperKnown

(* The helper never reads a torn event, whatever kills the writer: an      *)
(* event is in the outbox or beyond only when it is completely written.    *)
WholeEventsOnly ==
    \A e \in Events : place[e] \notin {"none", "tmp"} => e \in whole

(* A file is moved to processed only after DSM showed its event, and to    *)
(* failed only after DSM refused it.                                       *)
FiledTruthfully ==
    /\ \A e \in Events : place[e] = "processed" => sent[e] > 0
    /\ Cardinality({e \in Events : place[e] = "failed"})
         <= SendFaults - budget.send

(* "Successfully processed events move to processed; failed or invalid     *)
(* events move to failed": none is deleted.  The code does not keep this.  *)
NoEventVanishes == \A e \in Events : place[e] # "removed"

(* DSM shows an event once, and again at most once for each run of "stop", *)
(* death of the helper and failed mv, whenever they came: one that came    *)
(* between the send and the move is needed, and which ones did is not kept.*)
DuplicatesAreInterruptions ==
    \A e \in Events :
        sent[e] <= 1 + (MaxDeaths - budget.deaths) + (MaxStops - budget.stops)
                     + (MoveFaults - budget.move)

(* Events of one goroutine reach DSM in the order they were written: one   *)
(* is shown only when the earlier ones were shown, refused or never        *)
(* reached the outbox.                                                     *)
InOrder ==
    \A d, e \in DOMAIN by :
        d < e /\ by[d] = by[e] /\ sent[e] > 0 =>
            sent[d] > 0 \/ place[d] \in {"tmp", "failed", "removed"}

(* The directories and the notifications of each event are those of        *)
(* Delivery: an event is filed once, and as processed only when shown.     *)
Box == [e \in Events |-> IF place[e] \in {"none", "tmp"} THEN "unwritten"
                                                       ELSE place[e]]
Notices == INSTANCE Delivery WITH box <- Box, shown <- sent
RefinesDelivery == Notices!Spec

(* While the helper stays up, and no notification command it waits for     *)
(* hangs for ever, no event is left in the outbox for ever.                *)
Delivered ==
    <>[](pidfile = "live") /\ []<>~HelperAt("send") =>
        \A e \in Events : []<>(place[e] # "outbox")
==============================================================================

----------------------------- MODULE SettingsPage -----------------------------
(***************************************************************************)
(* The settings document and the page that edits it: the row "settings" of *)
(* internal/store/store.go, normalizeSettings and the two handlers of      *)
(* internal/httpapi/api.go, and Settings.tsx.  There is one document; the  *)
(* page always sends the whole of it.                                      *)
(*                                                                         *)
(* A document is a record of some of the fields of domain.Settings: the    *)
(* switch, the numbers in Fields, one of the two lists and one of the      *)
(* optional texts.  The fields left out behave as one that is here.  The   *)
(* form holds a record of the same kind: a field nobody has filled is      *)
(* FALSE, 0, <<>> or "", which is what Go makes of its absence.  " " is a  *)
(* text of blanks; every other text is trimmed already and short enough to *)
(* be stored uncut.                                                        *)
(*                                                                         *)
(* The page has one save and several loads under way, each sent, answered  *)
(* by the server and received by the browser in any order.  Whether the    *)
(* spinner covers the form is left out: the keyboard reaches it anyway.    *)
(***************************************************************************)
EXTENDS Integers, SequencesExt

CONSTANTS
    Fields,         \* the numeric settings that are modelled
    Texts,          \* texts an optional field or a line of a list may hold
    MaxNames,       \* length to which a list is cut (20 in the code)
    Typing,         \* what the user may type: pairs of a field and a value
    Foreign,        \* documents other browsers save
    MaxLoads,       \* loads that may be under way at once (bound)
    Allowances      \* how often each kind of step may happen (bound)

VARIABLES
    settings,   \* the stored document
    version,    \* history: how often it was saved
    page,       \* form:     the form and the state monitoringEnabled
                \* touched:  fields changed since an answer filled it
                \* seen:     version of that answer, -1 before the first one
    save,       \* the save under way
    loads,      \* the loads under way
    budget      \* what is left of the allowance

pageVars == <<settings, version, page, save, loads>>

-----------------------------------------------------------------------------
(* The document. *)

(* The bounds normalizeSettings puts on each number; -1: no upper bound.   *)
Least == [speedTestScheduleMinutes |-> 0, latencyIntervalSeconds |-> 10,
          dnsIntervalSeconds |-> 10, routerTrafficIntervalSec |-> 10,
          outageFailureThreshold |-> 1, minDownloadMbps |-> 0,
          minUploadMbps |-> 0, maxLatencyMs |-> 0]
Most == [speedTestScheduleMinutes |-> 10080, latencyIntervalSeconds |-> 86400,
         dnsIntervalSeconds |-> 86400, routerTrafficIntervalSec |-> 86400,
         outageFailureThreshold |-> 100, minDownloadMbps |-> -1,
         minUploadMbps |-> -1, maxLatencyMs |-> -1]
Numbers == [speedTestScheduleMinutes |-> 360, latencyIntervalSeconds |-> 60,
            dnsIntervalSeconds |-> 120, routerTrafficIntervalSec |-> 60,
            outageFailureThreshold |-> 3, minDownloadMbps |-> 50,
            minUploadMbps |-> 10, maxLatencyMs |-> 100]

ASSUME FieldsAssumption == Fields \subseteq DOMAIN Least
ASSUME TextsAssumption == {"", "google.com", "cloudflare.com"} \subseteq Texts

Parts == {"enabled", "dnsDomains", "routerTrafficUrl"} \cup Fields

DefaultSettings ==
    [p \in Parts |->
        CASE p \in Fields -> Numbers[p]
          [] p = "enabled" -> TRUE
          [] p = "dnsDomains" -> <<"google.com", "cloudflare.com">>
          [] OTHER -> ""]

BlankForm ==
    [p \in Parts |->
        CASE p \in Fields -> 0
          [] p = "enabled" -> FALSE
          [] p = "dnsDomains" -> <<>>
          [] OTHER -> ""]

TrimSpace(text) == IF text = " " THEN "" ELSE text

(* Blanks and what is already there are skipped, the rest is cut.          *)
AddName(out, v) ==
    IF \/ TrimSpace(v) = "" \/ Len(out) >= MaxNames
       \/ Contains(out, TrimSpace(v))
    THEN out ELSE Append(out, TrimSpace(v))
normalizeStringList(values) == FoldLeft(AddName, <<>>, values)

Clamp(f, n) ==
    IF n < Least[f] THEN Least[f]
    ELSE IF Most[f] >= 0 /\ n > Most[f] THEN Most[f] ELSE n

normalizeSettings(doc) ==
    [p \in Parts |->
        CASE p \in Fields -> Clamp(p, doc[p])
          [] p = "enabled" -> doc[p]
          [] p = "dnsDomains" -> normalizeStringList(doc[p])
          [] OTHER -> TrimSpace(doc[p])]

Kinds == {"edits", "saves", "loads", "faults", "rows", "rounds", "summaries",
          "stops", "ticks"}
ASSUME BoundsAssumption ==
    Allowances \subseteq [Kinds -> Nat] /\ MaxLoads \in Nat
(* The two default names fit in a list.                                    *)
ASSUME NamesAssumption == MaxNames \in Nat \ {0, 1}

(* What is typed and what other browsers send are documents.  The inputs   *)
(* of the form take no negative number, other programs may send one.       *)
IsDoc(doc) ==
    /\ doc = [p \in Parts |-> doc[p]]
    /\ doc["enabled"] \in BOOLEAN /\ doc["routerTrafficUrl"] \in Texts
    /\ doc["dnsDomains"] \in Seq(Texts)
    /\ \A f \in Fields : doc[f] \in Int
ASSUME TypingAssumption ==
    \A t \in Typing : /\ t[1] \in Parts \ {"enabled"}
                      /\ t[1] \in Fields => t[2] \in Nat
                      /\ t[1] = "routerTrafficUrl" => t[2] \in Texts
                      /\ t[1] = "dnsDomains" => t[2] \in Seq(Texts)
ASSUME ForeignAssumption == \A doc \in Foreign : IsDoc(doc)

Spend(kind) == budget[kind] > 0 /\ budget' = [budget EXCEPT ![kind] = @ - 1]

-----------------------------------------------------------------------------
(* The page. *)

NoSave == [stage |-> "none", toggle |-> FALSE, seen |-> -1, typed |-> {},
           doc |-> BlankForm, was |-> FALSE]
NoLoad == [stage |-> "none", seen |-> -1, doc |-> BlankForm]

(* setFieldsValue and setMonitoringEnabled on an answer.  The text has     *)
(* omitempty: an answer without it leaves what the form shows.             *)
Fill(form, doc) ==
    [doc EXCEPT !["routerTrafficUrl"] =
        IF @ = "" THEN form["routerTrafficUrl"] ELSE @]

Filled(doc, seen) ==
    page' = [form |-> Fill(page.form, doc), touched |-> {}, seen |-> seen]

(* What a save sends: the form, with the switch, whose value is kept       *)
(* beside the form because it is no field of it; the lists are split into  *)
(* lines, of which blank ones are dropped.                                 *)
AddLine(out, v) ==
    IF TrimSpace(v) = "" THEN out ELSE Append(out, TrimSpace(v))
splitLines(lines) == FoldLeft(AddLine, <<>>, lines)
PostedWithoutSwitch(form) == [form EXCEPT !["enabled"] = FALSE]
Posted(form) == [form EXCEPT !["dnsDomains"] = splitLines(@)]

(* The inputs are disabled while monitoring is off.                        *)
Type(p, value) ==
    /\ page.form["enabled"] /\ page.form[p] # value
    /\ page' = [page EXCEPT !.form[p] = value, !.touched = @ \cup {p}]
    /\ Spend("edits")
    /\ UNCHANGED <<settings, version, save, loads>>

(* "Save changes" sends the form.                                          *)
Submit ==
    /\ save.stage = "none"
    /\ save' = [NoSave EXCEPT !.stage = "sent", !.seen = page.seen,
                              !.typed = page.touched,
                              !.doc = Posted(page.form)]
    /\ Spend("edits")
    /\ UNCHANGED <<settings, version, page, loads>>

(* The switch changes the form and sends all of it.                        *)
Toggle ==
    LET form == [page.form EXCEPT !["enabled"] = ~@]
    IN  /\ save.stage = "none"
        /\ page' = [page EXCEPT !.form = form, !.touched = @ \cup {"enabled"}]
        /\ save' = [stage |-> "sent", toggle |-> TRUE, seen |-> page.seen,
                    typed |-> page.touched, doc |-> Posted(form),
                    was |-> page.form["enabled"]]
        /\ Spend("edits")
        /\ UNCHANGED <<settings, version, loads>>

(* PUT /api/settings: normalise, then one statement.                       *)
Save(doc) ==
    /\ settings' = normalizeSettings(doc)
    /\ version' = version + 1

ServeSave ==
    /\ save.stage = "sent" /\ Save(save.doc)
    /\ save' = [save EXCEPT !.stage = "answered", !.seen = version',
                            !.doc = settings']
    /\ UNCHANGED <<page, loads, budget>>

(* The request or its answer is lost, or the statement fails.              *)
SaveFails ==
    /\ save.stage = "sent"
    /\ save' = [save EXCEPT !.stage = "failed"] /\ Spend("faults")
    /\ Save(save.doc) \/ UNCHANGED <<settings, version>>
    /\ UNCHANGED <<page, loads>>

SaveAnswered ==
    /\ save.stage = "answered" /\ save' = NoSave
    /\ Filled(save.doc, save.seen)
    /\ UNCHANGED <<settings, version, loads, budget>>

(* A failed toggle puts the switch back to what it was before the click,  *)
(* even when an answer has filled the form meanwhile.                      *)
SaveRefusedKeepsSwitch ==
    /\ save.stage = "failed" /\ save' = NoSave
    /\ page' = [page EXCEPT !.touched = @ \ {"enabled"}]
    /\ UNCHANGED <<settings, version, loads, budget>>
SaveRefused ==
    /\ save.stage = "failed" /\ save' = NoSave
    /\ page' = IF ~save.toggle THEN page
               ELSE [page EXCEPT !.form["enabled"] = save.was,
                                 !.touched =
                      IF page.seen # save.seen \/ "enabled" \in save.typed
                      THEN @ \cup {"enabled"} ELSE @ \ {"enabled"}]
    /\ UNCHANGED <<settings, version, loads, budget>>

(* The page loads when it is opened; "Reload" may be clicked while other   *)
(* loads are under way.  A blank form is also what a failed load leaves.   *)
Reload(i) ==
    /\ loads[i].stage = "none" /\ \A k \in 1..i-1 : loads[k].stage # "none"
    /\ loads' = [loads EXCEPT ![i].stage = "sent"]
    /\ Spend("loads")
    /\ UNCHANGED <<settings, version, page, save>>

(* GET /api/settings: the document, on top of the defaults.                *)
ServeLoad(i) ==
    /\ loads[i].stage = "sent"
    /\ loads' = [loads EXCEPT ![i] = [stage |-> "answered", seen |-> version,
                                      doc |-> settings]]
    /\ UNCHANGED <<settings, version, page, save, budget>>

LoadFails(i) ==
    /\ loads[i].stage \in {"sent", "answered"}
    /\ loads' = [loads EXCEPT ![i] = NoLoad] /\ Spend("faults")
    /\ UNCHANGED <<settings, version, page, save>>

LoadAnswered(i) ==
    /\ loads[i].stage = "answered"
    /\ Filled(loads[i].doc, loads[i].seen)
    /\ loads' = [loads EXCEPT ![i] = NoLoad]
    /\ UNCHANGED <<settings, version, save, budget>>

(* Another browser saves.                                                  *)
ForeignSave(doc) ==
    /\ Save(doc) /\ Spend("saves")
    /\ UNCHANGED <<page, save, loads>>

PageInit ==
    /\ settings = DefaultSettings /\ version = 0
    /\ page = [form |-> BlankForm, touched |-> {}, seen |-> -1]
    /\ save = NoSave
    /\ loads = [i \in 1..MaxLoads |-> NoLoad]
    /\ budget \in Allowances

PageNext ==
    \/ \E t \in Typing : Type(t[1], t[2])
    \/ Submit \/ Toggle
    \/ ServeSave \/ SaveFails \/ SaveAnswered \/ SaveRefused
    \/ \E i \in 1..MaxLoads :
          Reload(i) \/ ServeLoad(i) \/ LoadFails(i) \/ LoadAnswered(i)
    \/ \E doc \in Foreign : ForeignSave(doc)

PageSpec == PageInit /\ [][PageNext]_pageVars

-----------------------------------------------------------------------------
(* Properties. *)

(* Every variable keeps its type, no answer is newer than the document,    *)
(* and the stored numbers are within the bounds the loops rely on.         *)
Bounded(doc) ==
    \A f \in Fields : doc[f] >= Least[f] /\ (Most[f] >= 0 => doc[f] <= Most[f])
PageTypeOK ==
    /\ IsDoc(settings) /\ Bounded(settings) /\ version \in Nat
    /\ page = [form |-> page.form, touched |-> page.touched, seen |-> page.seen]
    /\ IsDoc(page.form) /\ page.touched \subseteq Parts
    /\ page.seen \in -1..version
    /\ save = [stage |-> save.stage, toggle |-> save.toggle, seen |-> save.seen,
               typed |-> save.typed, doc |-> save.doc, was |-> save.was]
    /\ save.stage \in {"none", "sent", "answered", "failed"}
    /\ save.toggle \in BOOLEAN /\ save.was \in BOOLEAN
    /\ IsDoc(save.doc) /\ save.typed \subseteq Parts
    /\ save.seen \in -1..version
    /\ DOMAIN loads = 1..MaxLoads
    /\ \A i \in 1..MaxLoads :
          /\ loads[i] = [stage |-> loads[i].stage, seen |-> loads[i].seen,
                         doc |-> loads[i].doc]
          /\ loads[i].stage \in {"none", "sent", "answered"}
          /\ IsDoc(loads[i].doc) /\ loads[i].seen \in -1..version

Shows(old, new, p) ==
    old[p] = new[p] \/ (p = "routerTrafficUrl" /\ new[p] = "")

(* As long as nobody has saved since the answer that filled the page was   *)
(* given, every field the user has not touched shows what is stored,       *)
(* however saves, reloads and failures overlapped.  Two weaknesses of the  *)
(* page are excepted: a text that was cleared elsewhere stays in the form, *)
(* and a failed toggle undoes the switch of an answer that came meanwhile, *)
(* which counts as a touch of it.                                          *)
PageAgrees ==
    page.seen = version =>
        \A p \in Parts \ page.touched : Shows(page.form, settings, p)

(* A save sent from a page that was up to date changes nothing its user    *)
(* did not touch, except a text the page still shows after it was cleared. *)
Stores == save.stage = "sent" /\ version' # version
Sent == save.typed \cup (IF save.toggle THEN {"enabled"} ELSE {})
Keeps(parts) ==
    Stores /\ save'.stage # "sent" /\ save.seen = version =>
        \A p \in parts \ Sent : Shows(settings', settings, p)
SavesOnlyTheTyped == [][Keeps(Parts)]_pageVars
===============================================================================

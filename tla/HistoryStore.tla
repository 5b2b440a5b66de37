----------------------------- MODULE HistoryStore -----------------------------
(***************************************************************************)
(* usb_monitor/storage/event_store.py and alert_store.py, with the code     *)
(* that uses them: a monitor loads both histories, appends to them while it *)
(* handles events and saves after every change; status, events, alerts,     *)
(* report and the window load them in objects of their own at any time, and *)
(* a load that finds more than max_records saves what it kept.              *)
(*                                                                         *)
(* Events are numbered in the order they are emitted, an alert has the      *)
(* number of its event, and a history is the set of the numbers in it: the  *)
(* list is append-ordered and reload drops duplicates.  A missing file is   *)
(* an empty one.                                                            *)
(***************************************************************************)
EXTENDS Integers, FiniteSets

CONSTANTS
  Reader,      \* the commands and windows that load the histories
  MaxRecords,  \* [History -> max_records]
  Limit,       \* rows a report shows of each history, 0 for all
  Earlier,     \* the number of events before this run
  Found,       \* the files that may be there at first
  MaxEvents,   \* bound: the number of the last event
  MaxMishaps   \* bound: failed reads and writes

History == {"events", "alerts"}

ASSUME HistoryAssumption ==
  /\ MaxRecords \in [History -> Nat \ {0}]
  /\ Limit \in Nat /\ Earlier \in Nat /\ MaxEvents \in Nat /\ MaxMishaps \in Nat
  /\ Found \subseteq [History -> SUBSET (1 .. Earlier)]
  /\ \A f \in Found : f["alerts"] \subseteq f["events"]

VARIABLES
  file,        \* events.json and alerts.json
  memory,      \* the monitor's two stores
  at,          \* where the monitor is
  told,        \* events so far; the one being handled is the last
  place,       \* where each reader is
  wants,       \* the histories its command shows
  view,        \* what it has loaded
  astray,      \* histories whose memory does not come from the file (history)
  behind,      \* those whose last save failed (history)
  cut,         \* events the events file may have lost for good (history)
  mishaps      \* counter for the bound

monitor == <<memory, at, told>>
readers == <<place, wants, view>>
notes == <<astray, behind, cut>>
vars == <<file, monitor, readers, notes, mishaps>>

Down == <<"down">>
Idle == <<"idle">>
Emitting == <<"emit">>
Shown == <<"show">>
Saving == {"trim", "save"} \X History
Nothing == [h \in History |-> {}]

Init ==
  /\ file \in Found /\ memory = Nothing
  /\ at = Down /\ told = Earlier
  /\ place = [r \in Reader |-> Idle]
  /\ wants = [r \in Reader |-> {}] /\ view = [r \in Reader |-> Nothing]
  /\ astray = {} /\ behind = {} /\ cut = {} /\ mishaps = 0

-----------------------------------------------------------------------------
(* Faults: nothing is dropped; one too many is dropped.                     *)
AnyOf(records, count) == records
NewestButOne(records, count) ==
  IF Cardinality(records) <= count THEN records
  ELSE {n \in records : Cardinality({m \in records : m > n}) < count - 1}

(* keep_newest.                                                             *)
NewestOf(records, count) ==
  {n \in records : Cardinality({m \in records : m > n}) < count}

Newest(h, records) == NewestOf(records, MaxRecords[h])

Mishap == mishaps < MaxMishaps /\ mishaps' = mishaps + 1

(* Fault: an event with an alert is not emitted.                            *)
AfterAlertIdle(step) ==
  IF step \in {<<"load", "alerts">>, <<"trim", "alerts">>} THEN <<"load", "events">> ELSE Idle

(* create_monitor loads the alerts, then the events; _queue_event has the   *)
(* alert stored by consider before _emit stores the event.                  *)
After(step) ==
  CASE step \in {<<"load", "alerts">>, <<"trim", "alerts">>} -> <<"load", "events">>
    [] step = <<"save", "alerts">> -> Emitting
    [] OTHER -> Idle

(* Fault: the monitor's alert store is not loaded.                          *)
StartUnloaded ==
  /\ at = Down
  /\ at' = <<"load", "events">>
  /\ UNCHANGED <<file, memory, told, readers, notes, mishaps>>

Start ==
  /\ at = Down
  /\ at' = <<"load", "alerts">>
  /\ UNCHANGED <<file, memory, told, readers, notes, mishaps>>

(* Fault: what was dropped stays in the file.                               *)
LoadUntrimmed(h) ==
  /\ at = <<"load", h>>
  /\ memory' = [memory EXCEPT ![h] = Newest(h, file[h])]
  /\ at' = After(at)
  /\ UNCHANGED <<file, told, readers, notes, mishaps>>

(* load, reload: what is kept is saved when something was dropped.          *)
Load(h) ==
  /\ at = <<"load", h>>
  /\ memory' = [memory EXCEPT ![h] = Newest(h, file[h])]
  /\ at' = IF Newest(h, file[h]) = file[h] THEN After(at) ELSE <<"trim", h>>
  /\ astray' = astray \ {h}
  /\ UNCHANGED <<file, told, readers, behind, cut, mishaps>>

(* read_json_file: a file that cannot be read, parsed or unprotected is     *)
(* treated as empty.                                                        *)
Misread(h) ==
  /\ at = <<"load", h>> /\ file[h] # {}
  /\ Mishap
  /\ at' = After(at)
  /\ astray' = astray \cup {h}
  /\ UNCHANGED <<file, memory, told, readers, behind, cut>>

(* append, up to its save.                                                  *)
Append(h, n) ==
  /\ memory' = [memory EXCEPT ![h] = Newest(h, @ \cup {n})]
  /\ at' = <<"save", h>>

(* The next event gets an alert, or is suppressed, harmless or derived.     *)
Consider ==
  /\ at = Idle /\ told < MaxEvents
  /\ told' = told + 1
  /\ Append("alerts", told + 1) \/ (at' = Emitting /\ UNCHANGED memory)
  /\ UNCHANGED <<file, readers, notes, mishaps>>

Emit ==
  /\ at = Emitting
  /\ Append("events", told)
  /\ UNCHANGED <<file, told, readers, notes, mishaps>>

(* save: the whole list replaces the file.                                  *)
Save(h) ==
  /\ at \in {<<"trim", h>>, <<"save", h>>}
  /\ file' = [file EXCEPT ![h] = memory[h]]
  /\ at' = After(at)
  /\ astray' = astray \ {h} /\ behind' = behind \ {h}
  /\ cut' = IF h = "events" /\ h \in astray THEN cut \cup ((1 .. told) \ memory[h]) ELSE cut
  /\ UNCHANGED <<memory, told, readers, mishaps>>

(* An OSError is logged; the file is the one before.                        *)
SaveFails(h) ==
  /\ at \in {<<"trim", h>>, <<"save", h>>}
  /\ Mishap
  /\ at' = After(at)
  /\ behind' = behind \cup {h}
  /\ UNCHANGED <<file, memory, told, readers, astray, cut>>

(* What the events file would still get from this monitor.                  *)
Owed ==
  IF "events" \in astray \cup behind THEN 1 .. told
  ELSE memory["events"] \cup (IF at \in {<<"save", "alerts">>, Emitting} THEN {told} ELSE {})

(* The monitor ends, by exit or crash, wherever it is.                      *)
End ==
  /\ at # Down
  /\ at' = Down /\ memory' = Nothing
  /\ astray' = {} /\ behind' = {}
  /\ cut' = cut \cup (Owed \ file["events"])
  /\ UNCHANGED <<file, told, readers, mishaps>>

Monitor ==
  \/ Start \/ Consider \/ Emit \/ End
  \/ \E h \in History : Load(h) \/ Misread(h) \/ Save(h) \/ SaveFails(h)

-----------------------------------------------------------------------------
Ask(r, histories) ==
  /\ place[r] = Idle
  /\ wants' = [wants EXCEPT ![r] = histories]
  /\ place' = [place EXCEPT ![r] = <<"load", IF "events" \in histories THEN "events" ELSE "alerts">>]
  /\ UNCHANGED <<file, monitor, view, notes, mishaps>>

(* The commands, by what they load: always the events first.                *)
ListEvents(r) == Ask(r, {"events"})
ListAlerts(r) == Ask(r, {"alerts"})
Status(r) == Ask(r, History)
BuildLocalReport(r) == Ask(r, History)

(* The window's tables show the alerts of the session while it monitors.    *)
RefreshTables(r) == \E live \in BOOLEAN : Ask(r, IF live THEN {"events"} ELSE History)

NextPlace(r, h) ==
  IF h = "events" /\ "alerts" \in wants[r] THEN <<"load", "alerts">> ELSE Shown

LoadView(r, h) ==
  /\ place[r] = <<"load", h>>
  /\ view' = [view EXCEPT ![r][h] = Newest(h, file[h])]
  /\ place' = [place EXCEPT ![r] =
                 IF Newest(h, file[h]) = file[h] THEN NextPlace(r, h) ELSE <<"save", h>>]
  /\ UNCHANGED <<file, monitor, wants, notes, mishaps>>

MisreadView(r, h) ==
  /\ place[r] = <<"load", h>> /\ file[h] # {}
  /\ Mishap
  /\ place' = [place EXCEPT ![r] = NextPlace(r, h)]
  /\ UNCHANGED <<file, monitor, wants, view, notes>>

(* The reader's save replaces whatever the file holds by now.               *)
SaveView(r, h) ==
  /\ place[r] = <<"save", h>>
  /\ file' = [file EXCEPT ![h] = view[r][h]]
  /\ place' = [place EXCEPT ![r] = NextPlace(r, h)]
  /\ IF view[r][h] = Newest(h, file[h]) THEN UNCHANGED <<astray, cut>>
     ELSE /\ astray' = astray \cup {h}
          /\ cut' = IF h = "events" THEN cut \cup ((1 .. told) \ (view[r][h] \cup memory[h])) ELSE cut
  /\ UNCHANGED <<monitor, wants, view, behind, mishaps>>

SaveViewFails(r, h) ==
  /\ place[r] = <<"save", h>>
  /\ Mishap
  /\ place' = [place EXCEPT ![r] = NextPlace(r, h)]
  /\ UNCHANGED <<file, monitor, wants, view, notes>>

Leave(r) ==
  /\ place[r] = Shown
  /\ place' = [place EXCEPT ![r] = Idle]
  /\ wants' = [wants EXCEPT ![r] = {}] /\ view' = [view EXCEPT ![r] = Nothing]
  /\ UNCHANGED <<file, monitor, notes, mishaps>>

(* Fault: the limit is applied before the order is reversed.                *)
OldestRows(r, h) ==
  {n \in view[r][h] : Cardinality({m \in view[r][h] : m < n}) < Limit}

(* _apply_limit: what is shown, newest first.                               *)
Rows(r, h) == IF Limit = 0 THEN view[r][h] ELSE NewestOf(view[r][h], Limit)

Read(r) ==
  \/ ListEvents(r) \/ ListAlerts(r) \/ Status(r) \/ BuildLocalReport(r) \/ RefreshTables(r)
  \/ \E h \in History : LoadView(r, h) \/ MisreadView(r, h) \/ SaveView(r, h) \/ SaveViewFails(r, h)
  \/ Leave(r)

Next == Monitor \/ \E r \in Reader : Read(r)

Spec == Init /\ [][Next]_vars

-----------------------------------------------------------------------------
Step == {Down, Idle, Emitting} \cup ({"load"} \X History) \cup Saving
Records == [History -> SUBSET (1 .. told)]

(* Types; and nothing a store object holds ever exceeds its cap.            *)
TypeOK ==
  /\ told \in Nat
  /\ file \in Records /\ memory \in Records /\ at \in Step
  /\ place \in [Reader -> {Idle, Shown} \cup ({"load", "save"} \X History)]
  /\ wants \in [Reader -> SUBSET History] /\ view \in [Reader -> Records]
  /\ \A h \in History :
       /\ Cardinality(memory[h]) <= MaxRecords[h]
       /\ \A r \in Reader : Cardinality(view[r][h]) <= MaxRecords[h]
  /\ astray \subseteq History /\ behind \subseteq History /\ cut \subseteq 1 .. told
  /\ mishaps \in 0 .. MaxMishaps

(* Who writes next has not seen what the file holds: the monitor misread it *)
(* or it was replaced since, or a reader is about to save what it loaded    *)
(* before others wrote.                                                     *)
InDoubt(h) ==
  \/ h \in astray
  \/ \E r \in Reader : place[r] = <<"save", h>> /\ view[r][h] # Newest(h, file[h])

(* Whatever is loaded, appended, trimmed, lost by a crash or not written:   *)
(* the next load of a history sees a bounded log; newer records come in,    *)
(* only the oldest go, and only when the cap is reached, unless a writer    *)
(* was in doubt.                                                            *)
EventLog == INSTANCE BoundedLog WITH
  Cap <- MaxRecords["events"], kept <- Newest("events", file["events"]), doubtful <- InDoubt("events")
AlertLog == INSTANCE BoundedLog WITH
  Cap <- MaxRecords["alerts"], kept <- Newest("alerts", file["alerts"]), doubtful <- InDoubt("alerts")
EventsAreALog == EventLog!Spec
AlertsAreALog == AlertLog!Spec
HistoriesAreLogs == EventsAreALog /\ AlertsAreALog

(* Between two events the files hold what the monitor has in memory, so     *)
(* that a crash there loses nothing: whoever trimmed the file, it differs   *)
(* only by a failed save or a replaced file, until the next save.           *)
SavedBetweenEvents ==
  at = Idle => \A h \in History \ (behind \cup astray) : file[h] = memory[h]

Older(events, n) == \A e \in events : n < e
AgedOut(events, n) == Older(events, n) /\ Cardinality(events) = MaxRecords["events"]

(* An alert can be looked up: the event it names is in events.json, or has  *)
(* aged out, or is the monitor's to save, which stores the alert first; a   *)
(* crash, a failed save or a replaced file in between is what cuts it off.  *)
AlertsHaveTheirEvent ==
  \A n \in file["alerts"] :
    \/ n \in file["events"] \cup memory["events"] \cup cut
    \/ at \in {<<"save", "alerts">>, Emitting} /\ n = told
    \/ AgedOut(Newest("events", file["events"]), n) \/ AgedOut(memory["events"], n)

(* A report loads the two files one after the other while the monitor goes  *)
(* on, and cuts both to its limit: an alert in it whose event it does not   *)
(* show is older than a full page or a full store of newer events, or came  *)
(* after the events were loaded, or a named fault cost the event.           *)
Full(r) == Cardinality(Rows(r, "events")) \in {MaxRecords["events"]} \cup ({Limit} \ {0})
ReportIsCoherent ==
  \A r \in Reader : place[r] = Shown /\ wants[r] = History =>
    \A n \in Rows(r, "alerts") :
      \/ n \in Rows(r, "events") \cup cut
      \/ Older(Rows(r, "events"), n) /\ Full(r)
      \/ \A e \in view[r]["events"] : e < n
=============================================================================

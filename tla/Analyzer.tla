------------------------------ MODULE Analyzer ------------------------------
(***************************************************************************)
(* usb_monitor/analysis: Analyzer.analyze records an event in the windows   *)
(* of the AnomalyTracker and, for a CONNECT, lets the rules score it.       *)
(*                                                                         *)
(* The facts the twelve checkers look for in an event and in its inventory  *)
(* record are one set; evidence texts are left out.  Times are seconds of   *)
(* event timestamps, windows are scaled down by the constants.              *)
(***************************************************************************)
EXTENDS Integers, Sequences, FiniteSets

CONSTANTS
  Device,         \* identities of events
  ConnectWindow, EventWindow, NewWindow, \* the three windows, in seconds
  MinConnects, MinEvents, MinNew,        \* and their thresholds
  FactSet,        \* the sets of facts a CONNECT can come with
  MaxTime,        \* bound: timestamps are 0..MaxTime
  MaxEvents       \* bound: events analysed

(* Facts of the event itself, of its previous record, of its record.        *)
EventFact == {"no_manufacturer", "no_serial", "weak_identity", "generic_name", "type_mismatch"}
PreviousFact == {"identity_changed", "became_removable"}
Fact == EventFact \cup PreviousFact \cup {"trusted"}

ASSUME AnalyzerAssumption ==
  /\ {ConnectWindow, EventWindow, NewWindow, MaxTime, MaxEvents} \subseteq Nat
  /\ {MinConnects, MinEvents, MinNew} \subseteq Nat
  /\ FactSet \subseteq SUBSET Fact

VARIABLES
  connects,   \* _connects: the CONNECT times kept per identity
  events,     \* _events: the CONNECT and DISCONNECT times kept per identity
  firstSeen,  \* _first_seen: time and identity of the first-seen CONNECTs kept
  past,       \* every event analysed, in order (history)
  last        \* the snapshot and the assessment of the last event

vars == <<connects, events, firstSeen, past, last>>

NoAssessment == [rules |-> {}, score |-> 0, level |-> "none"]

Init ==
  /\ connects = [d \in Device |-> <<>>]
  /\ events = [d \in Device |-> <<>>]
  /\ firstSeen = <<>>
  /\ past = <<>>
  /\ last = [connects |-> 0, events |-> 0, new |-> 0, risk |-> NoAssessment]

-----------------------------------------------------------------------------
(* Fault: the first instant of a window is outside it.                      *)
PruneInstant(items, now, window) ==
  LET kept == {k \in DOMAIN items : items[k].at > now - window}
  IN  IF kept = {} THEN <<>>
      ELSE SubSeq(items, CHOOSE k \in kept : \A j \in kept : k <= j, Len(items))

(* Fault: a reading leaves the window one second late.                      *)
PruneLate(items, now, window) == PruneInstant(items, now, window + 2)

(* _prune_times and _prune_first_seen drop from the left only, up to the    *)
(* first item that is young enough.                                         *)
Prune(items, now, window) ==
  LET kept == {k \in DOMAIN items : items[k].at >= now - window}
  IN  IF kept = {} THEN <<>>
      ELSE SubSeq(items, CHOOSE k \in kept : \A j \in kept : k <= j, Len(items))

RuleScore ==
  [FIRST_SEEN_DEVICE |-> 15, UNKNOWN_MANUFACTURER |-> 10, MISSING_SERIAL |-> 8,
   WEAK_IDENTITY |-> 10, GENERIC_OR_SUSPICIOUS_NAME |-> 8, DEVICE_TYPE_MISMATCH |-> 12,
   IDENTITY_INCONSISTENCY |-> 30, UNEXPECTED_REMOVABLE |-> 12, RAPID_RECONNECT |-> 10,
   REPEATED_EVENTS |-> 8, MULTIPLE_NEW_DEVICES |-> 20, TRUSTED_DEVICE |-> -10]

(* Fault: a first sighting weighs as much as a change of identity.          *)
PointsFirstSeenHeavy(rule) == IF rule = "FIRST_SEEN_DEVICE" THEN 30 ELSE RuleScore[rule]

Points(rule) == RuleScore[rule]

(* The rules' scores, summed up and clamped to 0..100.                      *)
Total(rules) ==
  LET weight(rule) == IF rule \in rules THEN Points(rule) ELSE 0
  IN  weight("FIRST_SEEN_DEVICE") + weight("UNKNOWN_MANUFACTURER") + weight("MISSING_SERIAL")
      + weight("WEAK_IDENTITY") + weight("GENERIC_OR_SUSPICIOUS_NAME")
      + weight("DEVICE_TYPE_MISMATCH") + weight("IDENTITY_INCONSISTENCY")
      + weight("UNEXPECTED_REMOVABLE") + weight("RAPID_RECONNECT")
      + weight("REPEATED_EVENTS") + weight("MULTIPLE_NEW_DEVICES") + weight("TRUSTED_DEVICE")

Clamp(total) == IF total < 0 THEN 0 ELSE IF total > 100 THEN 100 ELSE total
Score(rules) == Clamp(Total(rules))

LevelOf(score) ==
  IF score <= 20 THEN "LOW" ELSE IF score <= 50 THEN "MEDIUM"
  ELSE IF score <= 75 THEN "HIGH" ELSE "CRITICAL"

RuleOf == [no_manufacturer |-> "UNKNOWN_MANUFACTURER", no_serial |-> "MISSING_SERIAL",
           weak_identity |-> "WEAK_IDENTITY", generic_name |-> "GENERIC_OR_SUSPICIOUS_NAME",
           type_mismatch |-> "DEVICE_TYPE_MISMATCH",
           identity_changed |-> "IDENTITY_INCONSISTENCY",
           became_removable |-> "UNEXPECTED_REMOVABLE", trusted |-> "TRUSTED_DEVICE"]

Fires(rule, condition) == IF condition THEN {rule} ELSE {}

(* The checkers.                                                            *)
Rules(facts, first, snapshot) ==
  {RuleOf[f] : f \in facts}
    \cup Fires("FIRST_SEEN_DEVICE", first)
    \cup Fires("RAPID_RECONNECT", snapshot.connects >= MinConnects)
    \cup Fires("REPEATED_EVENTS", snapshot.events >= MinEvents)
    \cup Fires("MULTIPLE_NEW_DEVICES", first /\ snapshot.new >= MinNew)

EvaluateRisk(rules) ==
  [rules |-> rules, score |-> Score(rules), level |-> LevelOf(Score(rules))]

-----------------------------------------------------------------------------
(* AnomalyTracker.record, then evaluate_risk for a CONNECT.  A first-seen   *)
(* device has no previous record, an identified one has a record.           *)
Analyze(d, type, at, first, facts) ==
  LET now == [at |-> at, id |-> d]
      kept == Prune(IF type = "CONNECT" THEN Append(connects[d], now) ELSE connects[d],
                    at, ConnectWindow)
      keptEvents == Prune(Append(events[d], now), at, EventWindow)
      keptNew == Prune(IF first THEN Append(firstSeen, now) ELSE firstSeen, at, NewWindow)
      snapshot == [connects |-> Len(kept), events |-> Len(keptEvents),
                   new |-> Cardinality({keptNew[k].id : k \in DOMAIN keptNew})]
  IN  /\ Len(past) < MaxEvents
      /\ connects' = [connects EXCEPT ![d] = kept]
      /\ events' = [events EXCEPT ![d] = keptEvents]
      /\ firstSeen' = keptNew
      /\ past' = Append(past, [id |-> d, type |-> type, at |-> at, first |-> first])
      /\ last' = [connects |-> snapshot.connects, events |-> snapshot.events,
                  new |-> snapshot.new,
                  risk |-> IF type = "CONNECT"
                           THEN EvaluateRisk(Rules(facts, first, snapshot))
                           ELSE NoAssessment]

Connect(d, at) ==
  \E first \in BOOLEAN, facts \in FactSet :
    /\ first => facts \cap PreviousFact = {}
    /\ Analyze(d, "CONNECT", at, first, facts)
Disconnect(d, at) == Analyze(d, "DISCONNECT", at, FALSE, {})

(* An event has the time of the first notification of its burst, and bursts *)
(* come out as they ripen: the times of successive events may go back, by   *)
(* about as long as a burst is held, or by more if the clock is set back.   *)
Next == \E d \in Device, at \in 0 .. MaxTime : Connect(d, at) \/ Disconnect(d, at)

Spec == Init /\ [][Next]_vars

-----------------------------------------------------------------------------
RuleId == {RuleOf[f] : f \in Fact} \cup
  {"FIRST_SEEN_DEVICE", "RAPID_RECONNECT", "REPEATED_EVENTS", "MULTIPLE_NEW_DEVICES"}
Kept == [at : 0 .. MaxTime, id : Device]

TypeOK ==
  /\ connects \in [Device -> Seq(Kept)] /\ events \in [Device -> Seq(Kept)]
  /\ firstSeen \in Seq(Kept)
  /\ past \in Seq([id : Device, type : {"CONNECT", "DISCONNECT"}, at : 0 .. MaxTime,
                   first : BOOLEAN])
  /\ {last.connects, last.events, last.new} \subseteq 0 .. Len(past)
  /\ last.risk \in [rules : SUBSET RuleId, score : 0 .. 100,
                    level : {"none", "LOW", "MEDIUM", "HIGH", "CRITICAL"}]

(* Up to the k-th event, the times went back by no more than lag; by how    *)
(* much they went back.                                                     *)
Behind(k, lag) == \A i, j \in 1 .. k : i <= j => past[i].at - past[j].at <= lag
Lag(k) == CHOOSE lag \in 0 .. MaxTime : Behind(k, lag) /\ (lag = 0 \/ ~Behind(k, lag - 1))

(* The counts the rules see are those of the windows that end with the      *)
(* event, as far as the order of the times allows: dropping from the left   *)
(* forgets nothing of the window shortened by the lag and keeps nothing     *)
(* from before the window lengthened by it, across events of other devices  *)
(* in between.  While the times do not go back the counts are exact.        *)
Within(k, window) == past[Len(past)].at - past[k].at <= window
Mine(k) == past[k].id = past[Len(past)].id
ConnectsWithin(window) ==
  {k \in DOMAIN past : Mine(k) /\ past[k].type = "CONNECT" /\ Within(k, window)}
EventsWithin(window) == {k \in DOMAIN past : Mine(k) /\ Within(k, window)}
NewWithin(window) ==
  {past[k].id : k \in {n \in DOMAIN past : past[n].first /\ Within(n, window)}}

CountedBy(lag) ==
  /\ last.connects >= Cardinality(ConnectsWithin(ConnectWindow - lag))
  /\ last.connects <= Cardinality(ConnectsWithin(ConnectWindow + lag))
  /\ last.events >= Cardinality(EventsWithin(EventWindow - lag))
  /\ last.events <= Cardinality(EventsWithin(EventWindow + lag))
  /\ last.new >= Cardinality(NewWithin(NewWindow - lag))
  /\ last.new <= Cardinality(NewWithin(NewWindow + lag))
WindowsAreExact == past # <<>> => CountedBy(Lag(Len(past)))

(* rules.py:4 "Unknown manufacturer and missing serial are weak signals;    *)
(* they never justify CRITICAL by themselves", nor do all the facts an      *)
(* event alone can show: CRITICAL takes a change of the record or a window. *)
Behaviour == {"IDENTITY_INCONSISTENCY", "UNEXPECTED_REMOVABLE", "RAPID_RECONNECT",
              "REPEATED_EVENTS", "MULTIPLE_NEW_DEVICES"}
CriticalTakesBehaviour ==
  last.risk.level = "CRITICAL" => last.risk.rules \cap Behaviour # {}

(* docs/HARDWARE.md:104 "Trust only lowers the heuristic": whatever else    *)
(* fired, the trusted flag never raises the score.                          *)
TrustOnlyLowers ==
  last.risk.score <= Score(last.risk.rules \ {"TRUSTED_DEVICE"})
=============================================================================

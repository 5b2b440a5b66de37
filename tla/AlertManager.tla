---------------------------- MODULE AlertManager ----------------------------
(***************************************************************************)
(* usb_monitor/alerts/manager.py: AlertManager.consider() turns the risk   *)
(* assessment of a CONNECT into an alert, a suppression or nothing, under  *)
(* one lock, so a call is one step.                                        *)
(*                                                                         *)
(* Abstracted: titles, descriptions, reasons and ids.  The sequence        *)
(* silenced is what _suppressed_total counts.                              *)
(***************************************************************************)
EXTENDS Integers, Sequences

CONSTANTS
  Device,         \* device_id values of events
  Unknown, Host,  \* the keys "unknown" (no device_id) and "host"
  Assessment,     \* the assessments the risk engine can hand over
  Cooldown,       \* cooldown_seconds
  MaxTime,        \* bound: event timestamps are 0..MaxTime
  MaxConsidered   \* bound: alerts emitted and silenced together

RiskLevel == {"LOW", "MEDIUM", "HIGH", "CRITICAL"}
RuleId == {"IDENTITY_INCONSISTENCY", "MULTIPLE_NEW_DEVICES", "RAPID_RECONNECT",
           "REPEATED_EVENTS", "FIRST_SEEN_DEVICE"}

ASSUME AlertAssumption ==
  /\ Cooldown \in Nat
  /\ MaxTime \in Nat
  /\ MaxConsidered \in Nat
  /\ Unknown \notin Device /\ Host \notin Device /\ Host # Unknown
  /\ Assessment \subseteq [level : RiskLevel, rules : SUBSET RuleId]

Time == 0 .. MaxTime
Severity == {"INFO", "LOW", "MEDIUM", "HIGH", "CRITICAL"}
SeverityRank == [s \in Severity |->
  CASE s = "INFO" -> 0 [] s = "LOW" -> 1 [] s = "MEDIUM" -> 2
    [] s = "HIGH" -> 3 [] s = "CRITICAL" -> 4]

Key == Device \cup {Unknown, Host}
AlertClass == {"suspicious", "multiple_new", "elevated", "flap", "first_seen"}
Fingerprint == Key \X AlertClass

Alert == [fp : Fingerprint, severity : Severity, when : Time]
NoEntry == [severity |-> "none"]  \* no cooldown entry for the fingerprint
Entry == [severity : Severity, when : Time]

VARIABLES
  last,      \* _last: the cooldown entry of each fingerprint
  emitted,   \* _emitted, in order
  silenced   \* the suppressed candidates, in order

vars == <<last, emitted, silenced>>

TypeOK ==
  /\ last \in [Fingerprint -> Entry \cup {NoEntry}]
  /\ emitted \in Seq(Alert)
  /\ silenced \in Seq(Alert)

Init ==
  /\ last = [fp \in Fingerprint |-> NoEntry]
  /\ emitted = <<>>
  /\ silenced = <<>>

-----------------------------------------------------------------------------
NoCandidate == <<>>

(* Fault: the band is looked at before the new devices.                     *)
BuildCandidateByBand(key, a) ==
  IF a.level \in {"CRITICAL", "HIGH"} \/ "IDENTITY_INCONSISTENCY" \in a.rules
    THEN <<key, "suspicious", IF a.level = "CRITICAL" THEN "CRITICAL" ELSE "HIGH">>
  ELSE IF a.level = "MEDIUM" THEN <<key, "elevated", "MEDIUM">>
  ELSE IF "MULTIPLE_NEW_DEVICES" \in a.rules THEN <<Host, "multiple_new", "MEDIUM">>
  ELSE IF {"RAPID_RECONNECT", "REPEATED_EVENTS"} \cap a.rules # {} THEN <<key, "flap", "LOW">>
  ELSE IF "FIRST_SEEN_DEVICE" \in a.rules THEN <<key, "first_seen", "INFO">>
  ELSE NoCandidate

(* _build_candidate: at most one candidate, the first branch that applies. *)
BuildCandidate(key, a) ==
  IF a.level = "CRITICAL" THEN <<key, "suspicious", "CRITICAL">>
  ELSE IF a.level = "HIGH" \/ "IDENTITY_INCONSISTENCY" \in a.rules
       THEN <<key, "suspicious", "HIGH">>
  ELSE IF "MULTIPLE_NEW_DEVICES" \in a.rules THEN <<Host, "multiple_new", "MEDIUM">>
  ELSE IF a.level = "MEDIUM" THEN <<key, "elevated", "MEDIUM">>
  ELSE IF {"RAPID_RECONNECT", "REPEATED_EVENTS"} \cap a.rules # {}
       THEN <<key, "flap", "LOW">>
  ELSE IF "FIRST_SEEN_DEVICE" \in a.rules THEN <<key, "first_seen", "INFO">>
  ELSE NoCandidate

(* Fault: the last instant of the window counts as inside it.               *)
InCooldownInclusive(previous, now) == Cooldown # 0 /\ now <= previous + Cooldown

InCooldown(previous, now) == Cooldown # 0 /\ now < previous + Cooldown

Escalates(severity, previous) == SeverityRank[severity] > SeverityRank[previous.severity]

(* consider() stays silent: an unexpired entry that is at least as severe.  *)
IsRepeat(alert) ==
  LET previous == last[alert.fp]
  IN  /\ previous # NoEntry
      /\ InCooldown(previous.when, alert.when)
      /\ ~Escalates(alert.severity, previous)

(* Fault: an escalation is emitted but the entry keeps the old alert.       *)
EmitKeepingEntry(alert) ==
  /\ last' = IF last[alert.fp] = NoEntry
             THEN [last EXCEPT ![alert.fp] =
                     [severity |-> alert.severity, when |-> alert.when]]
             ELSE last
  /\ emitted' = Append(emitted, alert)
  /\ UNCHANGED silenced

(* The entry and the list are replaced together, also on an escalation. *)
Emit(alert) ==
  /\ last' = [last EXCEPT ![alert.fp] = [severity |-> alert.severity, when |-> alert.when]]
  /\ emitted' = Append(emitted, alert)
  /\ UNCHANGED silenced

(* A suppressed candidate leaves the entry's time and severity alone. *)
Suppress(alert) ==
  /\ silenced' = Append(silenced, alert)
  /\ UNCHANGED <<last, emitted>>

Ignore == UNCHANGED vars

Consider(key, when, a) ==
  LET candidate == BuildCandidate(key, a)
      alert == [fp |-> <<candidate[1], candidate[2]>>, severity |-> candidate[3],
                when |-> when]
  IN  /\ Len(emitted) + Len(silenced) < MaxConsidered
      /\ IF candidate = NoCandidate THEN Ignore
         ELSE IF IsRepeat(alert) THEN Suppress(alert)
         ELSE Emit(alert)

Next == \E key \in Device \cup {Unknown}, when \in Time, a \in Assessment :
          Consider(key, when, a)

Spec == Init /\ [][Next]_vars

-----------------------------------------------------------------------------
(* Two alerts of a fingerprint with none of that fingerprint in between:    *)
(* the second is a full cooldown after the first or strictly worse,         *)
(* whatever the order of the timestamps (consider, the cooldown test).  A   *)
(* cooldown of 0 turns the test off, so then it promises nothing.           *)
RepeatIsLaterOrWorse ==
  \A i, j \in 1 .. Len(emitted) :
    /\ Cooldown > 0
    /\ i < j
    /\ emitted[i].fp = emitted[j].fp
    /\ \A k \in (i + 1) .. (j - 1) : emitted[k].fp # emitted[i].fp
    => \/ emitted[j].when >= emitted[i].when + Cooldown
       \/ SeverityRank[emitted[j].severity] > SeverityRank[emitted[i].severity]

(* "Suppressed for 60 seconds unless severity escalates" for every pair of  *)
(* alerts of a fingerprint, adjacent or not, when its alerts come in order: *)
(* an escalation never re-arms the lower severity inside the window.        *)
InOrder(alerts, fp) ==
  \A i, j \in 1 .. Len(alerts) :
    i < j /\ alerts[i].fp = fp /\ alerts[j].fp = fp => alerts[i].when <= alerts[j].when

CooldownHolds ==
  \A i, j \in 1 .. Len(emitted) :
    /\ i < j
    /\ emitted[i].fp = emitted[j].fp
    /\ InOrder(emitted, emitted[i].fp)
    /\ emitted[j].when < emitted[i].when + Cooldown
    => SeverityRank[emitted[j].severity] > SeverityRank[emitted[i].severity]

(* Nothing is silenced unless the operator was shown an alert of the same   *)
(* fingerprint, at least as severe, that had not left its cooldown.         *)
SilenceIsJustified ==
  \A s \in 1 .. Len(silenced) : \E i \in 1 .. Len(emitted) :
    /\ emitted[i].fp = silenced[s].fp
    /\ SeverityRank[emitted[i].severity] >= SeverityRank[silenced[s].severity]
    /\ silenced[s].when < emitted[i].when + Cooldown
=============================================================================

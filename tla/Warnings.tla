------------------------------ MODULE Warnings ------------------------------
(***************************************************************************)
(* monitoring/monitor.py, _queue_event from the analysis to the alerts: an  *)
(* event is analysed and, when it has an assessment, that is considered at  *)
(* the event's time; an exception between the two costs the event its       *)
(* alert.  Modules Analyzer and AlertManager say what either does; here is  *)
(* what a sequence of plugs makes the operator hear.                        *)
(***************************************************************************)
EXTENDS Analyzer

CONSTANTS
  Unknown, Host,  \* the keys of AlertManager that are no device
  Cooldown,       \* cooldown_seconds
  MaxFailures     \* bound: assessments lost to an exception

ASSUME WarningsAssumption ==
  /\ Cooldown \in Nat /\ MaxFailures \in Nat
  /\ Unknown \notin Device /\ Host \notin Device /\ Host # Unknown

VARIABLES
  entries,   \* _last of the alert manager
  emitted,   \* _emitted
  silenced,  \* the suppressed candidates
  unheard    \* the events whose assessment was lost (history)

alerting == <<entries, emitted, silenced>>
warningVars == <<vars, alerting, unheard>>

(* The rules _build_candidate asks for.                                     *)
Notable == {"IDENTITY_INCONSISTENCY", "MULTIPLE_NEW_DEVICES", "RAPID_RECONNECT",
            "REPEATED_EVENTS", "FIRST_SEEN_DEVICE"}
Alerts == INSTANCE AlertManager WITH
  last <- entries, MaxConsidered <- MaxEvents,
  Assessment <- [level : {"LOW", "MEDIUM", "HIGH", "CRITICAL"}, rules : SUBSET Notable]

WarningsInit == Init /\ Alerts!Init /\ unheard = {}

(* A CONNECT has an assessment.                                             *)
Judged(risk) == [level |-> risk.level, rules |-> risk.rules \cap Notable]
Plug(d, at) ==
  /\ Connect(d, at)
  /\ \/ /\ Alerts!Consider(d, at, Judged(last'.risk))
        /\ UNCHANGED unheard
     \/ /\ Cardinality(unheard) < MaxFailures
        /\ unheard' = unheard \cup {Len(past')}
        /\ UNCHANGED alerting

(* A DISCONNECT is counted and has none.                                    *)
Unplug(d, at) == Disconnect(d, at) /\ UNCHANGED <<alerting, unheard>>

WarningsNext == \E d \in Device, at \in 0 .. MaxTime : Plug(d, at) \/ Unplug(d, at)
WarningsSpec == WarningsInit /\ [][WarningsNext]_warningVars

-----------------------------------------------------------------------------
(* What the past up to its k-th event counts, as a reader of docs/SCORING.md *)
(* would, in windows that are longer by slack.                              *)
Near(n, k, window) == n <= k /\ past[k].at - past[n].at <= window
IsConnect(k) == past[k].type = "CONNECT"

NewBy(k, slack) ==
  {past[n].id : n \in {m \in DOMAIN past : past[m].first /\ Near(m, k, NewWindow + slack)}}
ConnectsBy(k, slack) ==
  {n \in DOMAIN past :
     past[n].id = past[k].id /\ IsConnect(n) /\ Near(n, k, ConnectWindow + slack)}
EventsBy(k, slack) ==
  {n \in DOMAIN past : past[n].id = past[k].id /\ Near(n, k, EventWindow + slack)}

(* "MULTIPLE_NEW_DEVICES: 3 first-seen identities / 60s", "RAPID_RECONNECT: *)
(* Same identity, 3 CONNECTs / 15s", "REPEATED_EVENTS: 4 CONNECT/DISCONNECT *)
(* / 20s".                                                                  *)
IsOneOfManyNew(k, slack) ==
  IsConnect(k) /\ past[k].first /\ Cardinality(NewBy(k, slack)) >= MinNew
IsFlapping(k, slack) ==
  IsConnect(k) /\ \/ Cardinality(ConnectsBy(k, slack)) >= MinConnects
                  \/ Cardinality(EventsBy(k, slack)) >= MinEvents

(* The alert is about the k-th event.                                       *)
Names(alert, k) ==
  /\ IsConnect(k) /\ k \notin unheard
  /\ alert.when = past[k].at
  /\ alert.fp[1] \in {past[k].id, Host}

(* The operator is not told of what did not happen: an alert is about a     *)
(* CONNECT of its device at its time, one of several new devices, a flap or *)
(* a first sighting if that is what it says; the windows it speaks of may   *)
(* be longer by as much as the times of the events went back, no more.      *)
AlertsHaveCause ==
  \A i \in DOMAIN emitted : \E k \in DOMAIN past :
    /\ Names(emitted[i], k)
    /\ CASE emitted[i].fp[2] = "multiple_new" -> IsOneOfManyNew(k, Lag(k))
         [] emitted[i].fp[2] = "flap" -> IsFlapping(k, Lag(k))
         [] emitted[i].fp[2] = "first_seen" -> past[k].first
         [] OTHER -> TRUE

(* An alert of this fingerprint, no weaker than s, was given at this time   *)
(* or is in its cooldown then; a burst that was held may be of an earlier   *)
(* time than the alert that stands for it, by no more than the lag.         *)
Heard(fp, s, at, lag) ==
  \E i \in DOMAIN emitted :
    /\ emitted[i].fp = fp
    /\ Alerts!SeverityRank[emitted[i].severity] >= Alerts!SeverityRank[s]
    /\ emitted[i].when <= at + lag
    /\ emitted[i].when = at \/ at < emitted[i].when + Cooldown

(* And nothing slips: whichever device completes a window, by whichever     *)
(* interleaving with others, and whatever was suppressed before, the        *)
(* operator has heard within the cooldown of several new devices, or of     *)
(* this one as suspicious; and of a flapping device under its own name, if  *)
(* it is not itself one of several new ones.  What falls into the window    *)
(* shortened by as much as the times went back is never missed.             *)
NothingSlips ==
  \A k \in DOMAIN past \ unheard :
    LET d == past[k].id
        at == past[k].at
        lag == Lag(k)
    IN  /\ IsOneOfManyNew(k, -lag) =>
             \/ Heard(<<Host, "multiple_new">>, "MEDIUM", at, lag)
             \/ Heard(<<d, "suspicious">>, "HIGH", at, lag)
        /\ IsFlapping(k, -lag) =>
             \/ IsOneOfManyNew(k, lag)
             \/ Heard(<<d, "suspicious">>, "HIGH", at, lag)
             \/ Heard(<<d, "elevated">>, "MEDIUM", at, lag)
             \/ Heard(<<d, "flap">>, "LOW", at, lag)
=============================================================================

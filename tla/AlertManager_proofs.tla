------------------------- MODULE AlertManager_proofs -------------------------
(* The cooldown and de-duplication guarantees of AlertManager, proved for   *)
(* every set of devices, every assessment and every cooldown.               *)
EXTENDS AlertManager, TLAPS

LEMMA RankIsNat == \A s \in Severity : SeverityRank[s] \in Nat
  BY DEF Severity, SeverityRank

(* _build_candidate yields nothing or a key, a class and a severity.        *)
LEMMA CandidateType ==
  ASSUME NEW key \in Device \cup {Unknown}, NEW a \in Assessment,
         BuildCandidate(key, a) # NoCandidate
  PROVE  /\ <<BuildCandidate(key, a)[1], BuildCandidate(key, a)[2]>> \in Fingerprint
         /\ BuildCandidate(key, a)[3] \in Severity
  BY DEF BuildCandidate, NoCandidate, Fingerprint, Key, AlertClass, Severity

(* Every step that considers something ignores, silences or emits one       *)
(* well-typed alert.                                                        *)
Effect(alert) ==
  /\ alert \in Alert
  /\ \/ IsRepeat(alert) /\ Suppress(alert)
     \/ ~IsRepeat(alert) /\ Emit(alert)

LEMMA ConsiderCases ==
  ASSUME NEW key \in Device \cup {Unknown}, NEW when \in Time, NEW a \in Assessment,
         Consider(key, when, a)
  PROVE  \/ Ignore
         \/ \E alert \in Alert : alert.when = when /\ Effect(alert)
  <1> DEFINE candidate == BuildCandidate(key, a)
             alert == [fp |-> <<candidate[1], candidate[2]>>, severity |-> candidate[3],
                       when |-> when]
  <1>1. CASE candidate = NoCandidate
    BY <1>1 DEF Consider
  <1>2. CASE candidate # NoCandidate
    <2>1. alert \in Alert
      BY <1>2, CandidateType DEF Alert
    <2>2. IF IsRepeat(alert) THEN Suppress(alert) ELSE Emit(alert)
      BY <1>2 DEF Consider
    <2>3. alert.when = when
      OBVIOUS
    <2> HIDE DEF alert
    <2>4. Effect(alert)
      BY <2>1, <2>2 DEF Effect
    <2> QED BY <2>1, <2>3, <2>4
  <1> QED BY <1>1, <1>2

(* The state is well typed in every reachable state.                        *)
THEOREM TypeCorrect == Spec => []TypeOK
  <1>1. Init => TypeOK
    BY DEF Init, TypeOK
  <1>2. TypeOK /\ [Next]_vars => TypeOK'
    <2> SUFFICES ASSUME TypeOK, [Next]_vars PROVE TypeOK'
      OBVIOUS
    <2>1. CASE UNCHANGED vars
      BY <2>1 DEF TypeOK, vars
    <2>2. ASSUME NEW key \in Device \cup {Unknown}, NEW when \in Time,
                 NEW a \in Assessment, Consider(key, when, a)
          PROVE  TypeOK'
      <3>2. CASE Ignore
        BY <2>1, <3>2 DEF Ignore
      <3>3. ASSUME NEW alert \in Alert, Effect(alert)
            PROVE  TypeOK'
        <4>1. CASE Suppress(alert)
          BY <4>1 DEF TypeOK, Suppress
        <4>2. CASE Emit(alert)
          BY <4>2 DEF TypeOK, Emit, Alert, Entry
        <4> QED BY <3>3, <4>1, <4>2 DEF Effect
      <3> QED BY <2>2, <3>2, <3>3, ConsiderCases
    <2> QED BY <2>1, <2>2 DEF Next
  <1> QED BY <1>1, <1>2, PTL DEF Spec

-----------------------------------------------------------------------------
(* The alerts of the list are alerts, with their fields typed and ranked.   *)
LEMMA EmittedTyped ==
  ASSUME TypeOK, NEW i \in 1 .. Len(emitted)
  PROVE  /\ emitted[i].fp \in Fingerprint
         /\ emitted[i].severity \in Severity
         /\ emitted[i].when \in Time
         /\ SeverityRank[emitted[i].severity] \in Nat
  <1>1. emitted[i] \in Alert
    BY DEF TypeOK
  <1> QED BY <1>1, RankIsNat DEF Alert

(* What Emit does to the sequence of alerts.                                *)
LEMMA AfterEmit ==
  ASSUME TypeOK, NEW alert \in Alert, Emit(alert)
  PROVE  /\ Len(emitted') = Len(emitted) + 1
         /\ \A i \in 1 .. Len(emitted) : emitted'[i] = emitted[i]
         /\ emitted'[Len(emitted')] = alert
         /\ \A i \in 1 .. Len(emitted') : emitted'[i] \in Alert
         /\ last'[alert.fp] = [severity |-> alert.severity, when |-> alert.when]
         /\ \A fp \in Fingerprint : fp # alert.fp => last'[fp] = last[fp]
  <1>0. emitted \in Seq(Alert) /\ emitted' = Append(emitted, alert)
    BY DEF TypeOK, Emit
  <1>1. /\ Len(emitted') = Len(emitted) + 1
        /\ \A i \in 1 .. Len(emitted) : emitted'[i] = emitted[i]
        /\ emitted'[Len(emitted')] = alert
        /\ \A i \in 1 .. Len(emitted') : emitted'[i] \in Alert
    BY <1>0
  <1>2. alert.fp \in Fingerprint
    BY DEF Alert
  <1>3. /\ last'[alert.fp] = [severity |-> alert.severity, when |-> alert.when]
        /\ \A fp \in Fingerprint : fp # alert.fp => last'[fp] = last[fp]
    BY <1>2 DEF TypeOK, Emit
  <1> QED BY <1>1, <1>3

(* The cooldown entry of a fingerprint is its latest alert, and a           *)
(* fingerprint without an entry was never alerted: what makes the cooldown  *)
(* test of consider() talk about the alerts the operator saw.               *)
LatestOf(fp, i) ==
  /\ i \in 1 .. Len(emitted)
  /\ emitted[i].fp = fp
  /\ \A j \in 1 .. Len(emitted) : j > i => emitted[j].fp # fp

EntryIsLatest ==
  \A fp \in Fingerprint :
    /\ last[fp] = NoEntry => \A i \in 1 .. Len(emitted) : emitted[i].fp # fp
    /\ last[fp] # NoEntry =>
         \E i \in 1 .. Len(emitted) :
           /\ LatestOf(fp, i)
           /\ last[fp].severity = emitted[i].severity
           /\ last[fp].when = emitted[i].when

(* An entry is never the marker of an absent one.                           *)
LEMMA EntryIsNotNone == NoEntry \notin Entry
  <1>1. NoEntry.severity \notin Severity
    BY DEF NoEntry, Severity
  <1> QED BY <1>1 DEF Entry

LEMMA EmitKeepsEntryIsLatest ==
  ASSUME TypeOK, EntryIsLatest, NEW alert \in Alert, Emit(alert)
  PROVE  EntryIsLatest'
  <1> SUFFICES ASSUME NEW fp \in Fingerprint
               PROVE  /\ last'[fp] = NoEntry =>
                            \A i \in 1 .. Len(emitted') : emitted'[i].fp # fp
                      /\ last'[fp] # NoEntry =>
                            \E i \in 1 .. Len(emitted') :
                              /\ LatestOf(fp, i)'
                              /\ last'[fp].severity = emitted'[i].severity
                              /\ last'[fp].when = emitted'[i].when
    BY DEF EntryIsLatest
  <1>0. Len(emitted) \in Nat
    BY DEF TypeOK
  <1>a. /\ Len(emitted') = Len(emitted) + 1
        /\ \A i \in 1 .. Len(emitted) : emitted'[i] = emitted[i]
        /\ emitted'[Len(emitted')] = alert
    BY AfterEmit
  <1>1. CASE fp = alert.fp
    <2>1. last'[fp] \in Entry /\ last'[fp] = [severity |-> alert.severity, when |-> alert.when]
      BY <1>1, AfterEmit DEF Entry, Alert
    <2>2. PICK i \in 1 .. Len(emitted') : i = Len(emitted')
      BY <1>0, <1>a
    <2>3. LatestOf(fp, i)'
      BY <1>0, <1>1, <1>a, <2>2 DEF LatestOf
    <2> QED BY <1>a, <2>1, <2>2, <2>3, EntryIsNotNone
  <1>2. CASE fp # alert.fp
    <2>1. last'[fp] = last[fp]
      BY <1>2, AfterEmit
    <2>2. \A i \in 1 .. Len(emitted') : i \in 1 .. Len(emitted) \/ emitted'[i].fp # fp
      BY <1>0, <1>2, <1>a
    <2>3. ASSUME NEW i \in 1 .. Len(emitted), LatestOf(fp, i)
          PROVE  LatestOf(fp, i)' /\ i \in 1 .. Len(emitted')
      BY <1>0, <1>a, <2>2, <2>3 DEF LatestOf
    <2>4. CASE last[fp] = NoEntry
      BY <1>a, <2>1, <2>2, <2>4 DEF EntryIsLatest
    <2>5. CASE last[fp] # NoEntry
      BY <1>a, <2>1, <2>3, <2>5 DEF EntryIsLatest
    <2> QED BY <2>1, <2>4, <2>5
  <1> QED BY <1>1, <1>2

(* The cooldown entry of a fingerprint is always its latest alert.          *)
THEOREM EntriesAreLatest == Spec => []EntryIsLatest
  <1>1. Init => EntryIsLatest
    BY DEF Init, EntryIsLatest
  <1>2. TypeOK /\ EntryIsLatest /\ [Next]_vars => EntryIsLatest'
    <2> SUFFICES ASSUME TypeOK, EntryIsLatest, [Next]_vars PROVE EntryIsLatest'
      OBVIOUS
    <2>1. CASE UNCHANGED <<last, emitted>>
      BY <2>1 DEF EntryIsLatest, LatestOf
    <2>2. ASSUME NEW alert \in Alert, Effect(alert) PROVE EntryIsLatest'
      BY <2>1, <2>2, EmitKeepsEntryIsLatest DEF Effect, Suppress
    <2>3. CASE UNCHANGED vars
      BY <2>1, <2>3 DEF vars
    <2> QED BY <2>1, <2>2, <2>3, ConsiderCases DEF Next, Ignore
  <1> QED BY <1>1, <1>2, TypeCorrect, PTL DEF Spec

-----------------------------------------------------------------------------
(* Why an alert that is not a repeat may be emitted: compared with the      *)
(* latest alert of its fingerprint it is late enough or worse.              *)
LEMMA NotARepeat ==
  ASSUME TypeOK, EntryIsLatest, NEW alert \in Alert, ~IsRepeat(alert),
         NEW i \in 1 .. Len(emitted), LatestOf(alert.fp, i),
         Cooldown > 0 \/ emitted[i].when <= alert.when
  PROVE  \/ alert.when >= emitted[i].when + Cooldown
         \/ SeverityRank[alert.severity] > SeverityRank[emitted[i].severity]
  <1>1. alert.fp \in Fingerprint /\ alert.when \in Time
    BY DEF Alert
  <1>2. last[alert.fp] # NoEntry
    BY <1>1 DEF EntryIsLatest, LatestOf
  <1>3. PICK k \in 1 .. Len(emitted) :
          /\ LatestOf(alert.fp, k)
          /\ last[alert.fp].severity = emitted[k].severity
          /\ last[alert.fp].when = emitted[k].when
    BY <1>1, <1>2 DEF EntryIsLatest
  <1>4. k = i
    <2>1. Len(emitted) \in Nat
      BY DEF TypeOK
    <2> QED BY <1>3, <2>1 DEF LatestOf
  <1>5. emitted[i].when \in Nat /\ alert.when \in Nat /\ Cooldown \in Nat
    BY <1>1, EmittedTyped, AlertAssumption DEF Time
  <1>6. \/ ~InCooldown(emitted[i].when, alert.when)
        \/ Escalates(alert.severity, last[alert.fp])
    BY <1>2, <1>3, <1>4 DEF IsRepeat
  <1>7. CASE ~InCooldown(emitted[i].when, alert.when)
    BY <1>5, <1>7 DEF InCooldown
  <1>8. CASE Escalates(alert.severity, last[alert.fp])
    BY <1>3, <1>4, <1>8 DEF Escalates
  <1> QED BY <1>6, <1>7, <1>8

(* Adjacent alerts of one fingerprint: a full cooldown apart, or worse.     *)
THEOREM RepeatsAreLaterOrWorse == Spec => []RepeatIsLaterOrWorse
  <1>1. Init => RepeatIsLaterOrWorse
    BY DEF Init, RepeatIsLaterOrWorse
  <1>2. TypeOK /\ EntryIsLatest /\ RepeatIsLaterOrWorse /\ [Next]_vars
          => RepeatIsLaterOrWorse'
    <2> SUFFICES ASSUME TypeOK, EntryIsLatest, RepeatIsLaterOrWorse, [Next]_vars
                 PROVE  RepeatIsLaterOrWorse'
      OBVIOUS
    <2>1. CASE UNCHANGED emitted
      BY <2>1 DEF RepeatIsLaterOrWorse
    <2>2. ASSUME NEW alert \in Alert, ~IsRepeat(alert), Emit(alert)
          PROVE  RepeatIsLaterOrWorse'
      <3> SUFFICES ASSUME NEW i \in 1 .. Len(emitted'), NEW j \in 1 .. Len(emitted'),
                          Cooldown > 0, i < j, emitted'[i].fp = emitted'[j].fp,
                          \A k \in (i + 1) .. (j - 1) : emitted'[k].fp # emitted'[i].fp
                   PROVE  \/ emitted'[j].when >= emitted'[i].when + Cooldown
                          \/ SeverityRank[emitted'[j].severity]
                               > SeverityRank[emitted'[i].severity]
        BY DEF RepeatIsLaterOrWorse
      <3>0. Len(emitted) \in Nat
        BY DEF TypeOK
      <3>1. /\ Len(emitted') = Len(emitted) + 1
            /\ \A k \in 1 .. Len(emitted) : emitted'[k] = emitted[k]
            /\ emitted'[Len(emitted')] = alert
        BY <2>2, AfterEmit
      <3>2. i \in 1 .. Len(emitted)
        BY <3>0, <3>1
      <3>3. CASE j = Len(emitted')
        <4>1. LatestOf(alert.fp, i)
          BY <3>0, <3>1, <3>2, <3>3 DEF LatestOf
        <4> QED BY <2>2, <3>1, <3>2, <3>3, <4>1, NotARepeat
      <3>4. CASE j # Len(emitted')
        <4>1. j \in 1 .. Len(emitted)
          BY <3>0, <3>1, <3>4
        <4>2. \A k \in (i + 1) .. (j - 1) : emitted[k].fp # emitted[i].fp
          BY <3>0, <3>1, <3>2, <4>1
        <4> QED BY <3>1, <3>2, <4>1, <4>2 DEF RepeatIsLaterOrWorse
      <3> QED BY <3>3, <3>4
    <2>3. ASSUME NEW alert \in Alert, Effect(alert) PROVE RepeatIsLaterOrWorse'
      BY <2>1, <2>2, <2>3 DEF Effect, Suppress
    <2> QED BY <2>1, <2>3, ConsiderCases DEF Next, Ignore, vars
  <1> QED BY <1>1, <1>2, TypeCorrect, EntriesAreLatest, PTL DEF Spec

-----------------------------------------------------------------------------
(* Nothing is silenced that an unexpired, at least as severe alert of the   *)
(* same fingerprint did not already say.                                    *)
THEOREM SilenceJustified == Spec => []SilenceIsJustified
  <1>1. Init => SilenceIsJustified
    BY DEF Init, SilenceIsJustified
  <1>2. TypeOK /\ EntryIsLatest /\ SilenceIsJustified /\ [Next]_vars
          => SilenceIsJustified'
    <2> SUFFICES ASSUME TypeOK, EntryIsLatest, SilenceIsJustified, [Next]_vars
                 PROVE  SilenceIsJustified'
      OBVIOUS
    <2> DEFINE Justifies(a, s) == /\ a.fp = s.fp
                                  /\ SeverityRank[a.severity] >= SeverityRank[s.severity]
                                  /\ s.when < a.when + Cooldown
    <2>0. Len(emitted) \in Nat /\ Len(silenced) \in Nat
      BY DEF TypeOK
    <2>1. CASE UNCHANGED <<emitted, silenced>>
      BY <2>1 DEF SilenceIsJustified
    <2>2. ASSUME NEW alert \in Alert, Emit(alert) PROVE SilenceIsJustified'
      <3>1. /\ Len(emitted') = Len(emitted) + 1
            /\ \A k \in 1 .. Len(emitted) : emitted'[k] = emitted[k]
            /\ silenced' = silenced
        BY <2>2, AfterEmit DEF Emit
      <3>2. ASSUME NEW s \in 1 .. Len(silenced')
            PROVE  \E i \in 1 .. Len(emitted') : Justifies(emitted'[i], silenced'[s])
        <4>1. PICK i \in 1 .. Len(emitted) : Justifies(emitted[i], silenced[s])
          BY <3>1 DEF SilenceIsJustified
        <4>2. i \in 1 .. Len(emitted') /\ emitted'[i] = emitted[i]
          BY <2>0, <3>1
        <4> QED BY <3>1, <4>1, <4>2
      <3> QED BY <3>2 DEF SilenceIsJustified
    <2>3. ASSUME NEW alert \in Alert, IsRepeat(alert), Suppress(alert)
          PROVE  SilenceIsJustified'
      <3>1. /\ Len(silenced') = Len(silenced) + 1
            /\ \A k \in 1 .. Len(silenced) : silenced'[k] = silenced[k]
            /\ silenced'[Len(silenced')] = alert
            /\ emitted' = emitted
        BY <2>3 DEF Suppress, TypeOK
      <3>2. \E i \in 1 .. Len(emitted) : Justifies(emitted[i], alert)
        <4>1. alert.fp \in Fingerprint /\ alert.severity \in Severity
          BY DEF Alert
        <4>2. PICK k \in 1 .. Len(emitted) :
                /\ LatestOf(alert.fp, k)
                /\ last[alert.fp].severity = emitted[k].severity
                /\ last[alert.fp].when = emitted[k].when
          BY <2>3, <4>1 DEF EntryIsLatest, IsRepeat
        <4>4. /\ SeverityRank[alert.severity] \in Nat
              /\ SeverityRank[emitted[k].severity] \in Nat
          BY <4>1, EmittedTyped, RankIsNat
        <4>5. SeverityRank[emitted[k].severity] >= SeverityRank[alert.severity]
          BY <2>3, <4>2, <4>4 DEF IsRepeat, Escalates
        <4>6. alert.when < emitted[k].when + Cooldown
          BY <2>3, <4>2 DEF IsRepeat, InCooldown
        <4> QED BY <4>2, <4>5, <4>6 DEF LatestOf
      <3>3. ASSUME NEW s \in 1 .. Len(silenced')
            PROVE  \E i \in 1 .. Len(emitted') : Justifies(emitted'[i], silenced'[s])
        <4>1. CASE s = Len(silenced')
          BY <3>1, <3>2, <4>1
        <4>2. CASE s # Len(silenced')
          <5>1. s \in 1 .. Len(silenced) /\ silenced'[s] = silenced[s]
            BY <2>0, <3>1, <4>2
          <5> QED BY <3>1, <5>1 DEF SilenceIsJustified
        <4> QED BY <4>1, <4>2
      <3> QED BY <3>3 DEF SilenceIsJustified
    <2>4. ASSUME NEW alert \in Alert, Effect(alert) PROVE SilenceIsJustified'
      BY <2>2, <2>3, <2>4 DEF Effect
    <2> QED BY <2>1, <2>4, ConsiderCases DEF Next, Ignore, vars
  <1> QED BY <1>1, <1>2, TypeCorrect, EntriesAreLatest, PTL DEF Spec

-----------------------------------------------------------------------------
(* Appending an alert puts no earlier one out of order.                      *)
LEMMA WasInOrder ==
  ASSUME TypeOK, NEW alert \in Alert, Emit(alert), NEW fp, InOrder(emitted', fp)
  PROVE  InOrder(emitted, fp)
  <1>1. /\ Len(emitted) \in Nat
        /\ Len(emitted') = Len(emitted) + 1
        /\ \A k \in 1 .. Len(emitted) : emitted'[k] = emitted[k]
    <2>1. Len(emitted) \in Nat
      BY DEF TypeOK
    <2> QED BY <2>1, AfterEmit
  <1>2. ASSUME NEW i \in 1 .. Len(emitted), NEW j \in 1 .. Len(emitted),
               i < j, emitted[i].fp = fp, emitted[j].fp = fp
        PROVE  emitted[i].when <= emitted[j].when
    <2>1. i \in 1 .. Len(emitted') /\ j \in 1 .. Len(emitted')
      BY <1>1
    <2>2. emitted'[i] = emitted[i] /\ emitted'[j] = emitted[j]
      BY <1>1
    <2> QED BY <1>2, <2>1, <2>2 DEF InOrder
  <1> QED BY <1>2 DEF InOrder

(* The 60-second promise for every pair of alerts: by induction on the      *)
(* alerts between them, an alert inside the window is worse than the latest *)
(* one, which is at least as severe as every earlier one in the window.     *)
THEOREM CooldownIsHeld == Spec => []CooldownHolds
  <1>1. Init => CooldownHolds
    BY DEF Init, CooldownHolds
  <1>2. TypeOK /\ EntryIsLatest /\ CooldownHolds /\ [Next]_vars => CooldownHolds'
    <2> SUFFICES ASSUME TypeOK, EntryIsLatest, CooldownHolds, [Next]_vars
                 PROVE  CooldownHolds'
      OBVIOUS
    <2>1. CASE UNCHANGED emitted
      BY <2>1 DEF CooldownHolds, InOrder
    <2>2. ASSUME NEW alert \in Alert, ~IsRepeat(alert), Emit(alert)
          PROVE  CooldownHolds'
      <3>0. Len(emitted) \in Nat
        BY DEF TypeOK
      <3>1. /\ Len(emitted') = Len(emitted) + 1
            /\ \A k \in 1 .. Len(emitted) : emitted'[k] = emitted[k]
            /\ emitted'[Len(emitted')] = alert
        BY <2>2, AfterEmit
      <3>2. ASSUME NEW i \in 1 .. Len(emitted), emitted[i].fp = alert.fp,
                   InOrder(emitted', alert.fp), alert.when < emitted[i].when + Cooldown
            PROVE  SeverityRank[alert.severity] > SeverityRank[emitted[i].severity]
        <4>1. alert.fp \in Fingerprint
          BY DEF Alert
        <4>2. PICK k \in 1 .. Len(emitted) : LatestOf(alert.fp, k)
          BY <3>2, <4>1 DEF EntryIsLatest
        <4>3. i <= k
          BY <3>0, <3>2, <4>2 DEF LatestOf
        <4>4. emitted[k].when <= alert.when /\ emitted[i].when <= emitted[k].when
          <5>1. emitted[i].when \in Nat
            BY EmittedTyped DEF Time
          <5>2. emitted'[k].when <= emitted'[Len(emitted')].when
            BY <3>0, <3>1, <3>2, <4>2 DEF InOrder, LatestOf
          <5>3. emitted[k].when <= alert.when
            BY <3>1, <5>2
          <5>4. CASE i = k
            BY <5>1, <5>3, <5>4
          <5>5. CASE i < k
            BY <2>2, <3>2, <4>2, <5>3, <5>5, WasInOrder DEF InOrder, LatestOf
          <5> QED BY <3>0, <4>3, <5>4, <5>5
        <4>5. /\ alert.when \in Nat /\ Cooldown \in Nat
              /\ emitted[k].when \in Nat /\ emitted[i].when \in Nat
              /\ SeverityRank[alert.severity] \in Nat
              /\ SeverityRank[emitted[k].severity] \in Nat
              /\ SeverityRank[emitted[i].severity] \in Nat
          BY EmittedTyped, RankIsNat, AlertAssumption DEF Alert, Time
        <4>9. alert.when < emitted[i].when + Cooldown
          BY <3>2
        <4>6. SeverityRank[alert.severity] > SeverityRank[emitted[k].severity]
          <5>1. alert.when < emitted[k].when + Cooldown
            <6> DEFINE at == alert.when
                       early == emitted[i].when
                       late == emitted[k].when
            <6>1. at \in Nat /\ early \in Nat /\ late \in Nat /\ Cooldown \in Nat
              BY <4>5
            <6>2. early <= late /\ at < early + Cooldown
              BY <4>4, <4>9
            <6> HIDE DEF at, early, late
            <6>3. at < late + Cooldown
              BY <6>1, <6>2
            <6> QED BY <6>3 DEF at, late
          <5>2. \/ alert.when >= emitted[k].when + Cooldown
                \/ SeverityRank[alert.severity] > SeverityRank[emitted[k].severity]
            BY <2>2, <4>2, <4>4, NotARepeat
          <5> QED BY <4>5, <5>1, <5>2
        <4>7. CASE i = k
          BY <4>6, <4>7
        <4>8. CASE i < k
          <5>1. emitted[k].when < emitted[i].when + Cooldown
            BY <4>9, <4>4, <4>5
          <5>2. SeverityRank[emitted[k].severity] > SeverityRank[emitted[i].severity]
            BY <2>2, <3>2, <4>2, <4>8, <5>1, WasInOrder DEF CooldownHolds, LatestOf
          <5> QED BY <4>5, <4>6, <5>2
        <4> QED BY <3>0, <4>3, <4>7, <4>8
      <3>3. ASSUME NEW i \in 1 .. Len(emitted'), NEW j \in 1 .. Len(emitted'), i < j,
                   emitted'[i].fp = emitted'[j].fp, InOrder(emitted', emitted'[i].fp),
                   emitted'[j].when < emitted'[i].when + Cooldown
            PROVE  SeverityRank[emitted'[j].severity] > SeverityRank[emitted'[i].severity]
        <4>1. i \in 1 .. Len(emitted) /\ emitted'[i] = emitted[i]
          BY <3>0, <3>1, <3>3
        <4>2. CASE j = Len(emitted')
          BY <3>1, <3>2, <3>3, <4>1, <4>2
        <4>3. CASE j # Len(emitted')
          <5>1. j \in 1 .. Len(emitted) /\ emitted'[j] = emitted[j]
            BY <3>0, <3>1, <4>3
          <5>2. InOrder(emitted, emitted[i].fp)
            BY <2>2, <3>3, <4>1, WasInOrder
          <5> QED BY <3>3, <4>1, <5>1, <5>2 DEF CooldownHolds
        <4> QED BY <4>2, <4>3
      <3> QED BY <3>3 DEF CooldownHolds
    <2>3. ASSUME NEW alert \in Alert, Effect(alert) PROVE CooldownHolds'
      BY <2>1, <2>2, <2>3 DEF Effect, Suppress
    <2> QED BY <2>1, <2>3, ConsiderCases DEF Next, Ignore, vars
  <1> QED BY <1>1, <1>2, TypeCorrect, EntriesAreLatest, PTL DEF Spec
=============================================================================

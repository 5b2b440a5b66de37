--------------------------- MODULE Analyzer_proofs ---------------------------
(* What the scoring guarantees for any devices, windows, thresholds and     *)
(* fact sets, and what the operator hears of it for any cooldown.           *)
EXTENDS Warnings, FiniteSetTheorems, TLAPS

(* The assessment of the last event is the rules' verdict on it.            *)
Scored ==
  \/ last.risk = NoAssessment
  \/ \E rules \in SUBSET RuleId : last.risk = EvaluateRisk(rules)

LEMMA RuleSets ==
  ASSUME NEW facts \in SUBSET Fact, NEW first \in BOOLEAN, NEW snapshot
  PROVE  Rules(facts, first, snapshot) \in SUBSET RuleId
BY DEF Rules, Fires, RuleId

(* Facts of an event alone, its first sighting included, stop at 63 points. *)
LEMMA WeakScore ==
  ASSUME NEW rules \in SUBSET RuleId, rules \cap Behaviour = {}
  PROVE  Score(rules) <= 63
<1>1. /\ "IDENTITY_INCONSISTENCY" \notin rules /\ "UNEXPECTED_REMOVABLE" \notin rules
      /\ "RAPID_RECONNECT" \notin rules /\ "REPEATED_EVENTS" \notin rules
      /\ "MULTIPLE_NEW_DEVICES" \notin rules
  BY DEF Behaviour
<1> QED
  BY <1>1 DEF Score, Clamp, Total, Points, RuleScore

LEMMA TrustScore ==
  ASSUME NEW rules
  PROVE  Score(rules) <= Score(rules \ {"TRUSTED_DEVICE"})
<1>1. \A r : r # "TRUSTED_DEVICE" => (r \in rules <=> r \in rules \ {"TRUSTED_DEVICE"})
  OBVIOUS
<1> QED
  BY <1>1 DEF Score, Clamp, Total, Points, RuleScore

LEMMA AnalyzeScores ==
  ASSUME NEW d, NEW type, NEW at, NEW first \in BOOLEAN, NEW facts \in SUBSET Fact,
         Analyze(d, type, at, first, facts)
  PROVE  Scored'
<1>1. PICK snapshot : last'.risk = IF type = "CONNECT"
                                   THEN EvaluateRisk(Rules(facts, first, snapshot))
                                   ELSE NoAssessment
  BY DEF Analyze
<1>2. CASE type = "CONNECT"
  BY <1>1, <1>2, RuleSets DEF Scored
<1>3. CASE type # "CONNECT"
  BY <1>1, <1>3 DEF Scored
<1> QED
  BY <1>2, <1>3

LEMMA AlwaysScored == Spec => []Scored
<1>1. Init => Scored
  BY DEF Init, Scored
<1>2. Scored /\ [Next]_vars => Scored'
  <2> SUFFICES ASSUME Scored, [Next]_vars PROVE Scored'
    OBVIOUS
  <2>1. CASE UNCHANGED vars
    BY <2>1 DEF vars, Scored
  <2>2. CASE Next
    <3>1. PICK d \in Device, at \in 0 .. MaxTime : Connect(d, at) \/ Disconnect(d, at)
      BY <2>2 DEF Next
    <3>2. CASE Connect(d, at)
      <4>1. PICK first \in BOOLEAN, facts \in FactSet : Analyze(d, "CONNECT", at, first, facts)
        BY <3>2 DEF Connect
      <4>2. facts \in SUBSET Fact
        BY AnalyzerAssumption
      <4> QED
        BY <4>1, <4>2, AnalyzeScores
    <3>3. CASE Disconnect(d, at)
      <4>1. {} \in SUBSET Fact /\ FALSE \in BOOLEAN
        OBVIOUS
      <4>2. Analyze(d, "DISCONNECT", at, FALSE, {})
        BY <3>3 DEF Disconnect
      <4> QED
        BY <4>1, <4>2, AnalyzeScores
    <3> QED
      BY <3>1, <3>2, <3>3
  <2> QED
    BY <2>1, <2>2
<1> QED
  BY <1>1, <1>2, PTL DEF Spec

(* No combination of facts of the event itself reaches CRITICAL, whatever   *)
(* the thresholds of the windows (rules.py, evaluate_risk).                 *)
THEOREM CriticalIsEarned == Spec => []CriticalTakesBehaviour
<1>1. Scored => CriticalTakesBehaviour
  <2> SUFFICES ASSUME Scored, last.risk.level = "CRITICAL"
               PROVE  last.risk.rules \cap Behaviour # {}
    BY DEF CriticalTakesBehaviour
  <2>1. PICK rules \in SUBSET RuleId : last.risk = EvaluateRisk(rules)
    BY DEF Scored, NoAssessment
  <2>2. last.risk.rules = rules /\ last.risk.level = LevelOf(Score(rules))
    BY <2>1 DEF EvaluateRisk
  <2>3. ~(Score(rules) <= 75)
    BY <2>2 DEF LevelOf
  <2>4. Score(rules) \in Int
    BY DEF Score, Clamp, Total, Points, RuleScore
  <2> QED
    BY <2>2, <2>3, <2>4, WeakScore
<1> QED
  BY <1>1, AlwaysScored, PTL

(* The trusted flag never raises the score of an event (check_trusted).     *)
THEOREM TrustNeverRaises == Spec => []TrustOnlyLowers
<1>1. Scored => TrustOnlyLowers
  <2> SUFFICES ASSUME Scored PROVE TrustOnlyLowers
    OBVIOUS
  <2>1. CASE last.risk = NoAssessment
    <3>1. last.risk.score = 0
      BY <2>1 DEF NoAssessment
    <3>2. \A rules : Score(rules) >= 0
      BY DEF Score, Clamp, Total, Points, RuleScore
    <3> QED
      BY <3>1, <3>2 DEF TrustOnlyLowers
  <2>2. CASE \E rules \in SUBSET RuleId : last.risk = EvaluateRisk(rules)
    BY <2>2, TrustScore DEF EvaluateRisk, TrustOnlyLowers
  <2> QED
    BY <2>1, <2>2 DEF Scored
<1> QED
  BY <1>1, AlwaysScored, PTL

-----------------------------------------------------------------------------
(* The windows.  A list of the tracker enumerates, in order, the events of  *)
(* some set of positions of the past.                                       *)
PastEvent == [id : Device, type : {"CONNECT", "DISCONNECT"}, at : 0 .. MaxTime, first : BOOLEAN]
Mark(e) == [at |-> e.at, id |-> e.id]

Enumerates(list, p, S) ==
  \E f \in [DOMAIN list -> S] :
    /\ \A i, j \in DOMAIN list : i < j => f[i] < f[j]
    /\ \A k \in S : \E i \in DOMAIN list : f[i] = k
    /\ \A i \in DOMAIN list : list[i] = Mark(p[f[i]])

Since(p, S, cut) == {k \in S : p[k].at >= cut}

LEMMA Least ==
  ASSUME NEW S \in SUBSET Nat, S # {}
  PROVE  \E n \in S : \A m \in S : n <= m
<1> DEFINE below == {x \in Nat \X Nat : x[1] < x[2]}
<1>1. IsWellFoundedOn(below, Nat)
  BY NatLessThanWellFounded DEF OpToRel
<1>2. PICK n \in S : \A m \in S : <<m, n>> \notin below
  BY <1>1, WFMin
<1>3. ASSUME NEW m \in S PROVE n <= m
  <2>1. m \in Nat /\ n \in Nat /\ (<<m, n>> \in below <=> m < n)
    BY <1>2
  <2> QED
    BY <1>2, <2>1
<1> QED
  BY <1>2, <1>3

(* As many items are listed as are meant.                                   *)
LEMMA ListedIsCounted ==
  ASSUME NEW list \in Seq(Kept), NEW p, NEW S \in SUBSET Int, Enumerates(list, p, S)
  PROVE  IsFiniteSet(S) /\ Cardinality(S) = Len(list)
<1>1. PICK f \in [DOMAIN list -> S] :
        /\ \A i, j \in DOMAIN list : i < j => f[i] < f[j]
        /\ \A k \in S : \E i \in DOMAIN list : f[i] = k
  BY DEF Enumerates
<1>2. DOMAIN list = 1 .. Len(list) /\ Len(list) \in Nat
  OBVIOUS
<1>3. \A i, j \in DOMAIN list : f[i] = f[j] => i = j
  <2> SUFFICES ASSUME NEW i \in DOMAIN list, NEW j \in DOMAIN list, f[i] = f[j], i # j
               PROVE  FALSE
    OBVIOUS
  <2>1. f[i] \in Int /\ f[j] \in Int
    BY <1>1
  <2>2. i < j \/ j < i
    BY <1>2
  <2> QED
    BY <1>1, <2>1, <2>2
<1>4. f \in Bijection(1 .. Len(list), S)
  BY <1>1, <1>2, <1>3 DEF Bijection, Injection, Surjection, IsInjective
<1>5. ExistsBijection(1 .. Len(list), S)
  BY <1>4 DEF ExistsBijection
<1>6. IsFiniteSet(1 .. Len(list)) /\ Cardinality(1 .. Len(list)) = Len(list)
  <2>1. 1 \in Int /\ Len(list) \in Int
    BY <1>2
  <2>2. /\ IsFiniteSet(1 .. Len(list))
        /\ Cardinality(1 .. Len(list)) = IF 1 > Len(list) THEN 0 ELSE Len(list) - 1 + 1
    BY ONLY <2>1, FS_Interval
  <2> QED
    BY <1>2, <2>2
<1> QED
  BY <1>5, <1>6, FS_Bijection

(* A new event makes the past longer; a list may take it or not.            *)
LEMMA PastGrows ==
  ASSUME NEW p \in Seq(PastEvent), NEW e \in PastEvent, NEW list,
         NEW S \in SUBSET DOMAIN p, Enumerates(list, p, S)
  PROVE  Enumerates(list, Append(p, e), S)
<1>1. \A k \in S : Append(p, e)[k] = p[k]
  OBVIOUS
<1> QED
  BY <1>1 DEF Enumerates

LEMMA ListGrows ==
  ASSUME NEW p \in Seq(PastEvent), NEW e \in PastEvent, NEW list \in Seq(Kept),
         NEW S \in SUBSET DOMAIN p, Enumerates(list, p, S)
  PROVE  Enumerates(Append(list, Mark(e)), Append(p, e), S \cup {Len(p) + 1})
<1> DEFINE q == Append(p, e)
           longer == Append(list, Mark(e))
           n == Len(list) + 1
           N == Len(p) + 1
<1>1. PICK f \in [DOMAIN list -> S] :
        /\ \A i, j \in DOMAIN list : i < j => f[i] < f[j]
        /\ \A k \in S : \E i \in DOMAIN list : f[i] = k
        /\ \A i \in DOMAIN list : list[i] = Mark(p[f[i]])
  BY DEF Enumerates
<1> DEFINE g == [i \in 1 .. n |-> IF i = n THEN N ELSE f[i]]
<1>2. /\ DOMAIN list = 1 .. Len(list) /\ Len(list) \in Nat /\ DOMAIN longer = 1 .. n
      /\ DOMAIN p = 1 .. Len(p) /\ Len(p) \in Nat
      /\ longer[n] = Mark(e) /\ \A i \in DOMAIN list : longer[i] = list[i]
      /\ q[N] = e /\ \A k \in DOMAIN p : q[k] = p[k]
  BY SMTT(20) DEF Mark, Kept, PastEvent
<1>3. g \in [DOMAIN longer -> S \cup {N}]
  BY <1>2
<1>4. \A i, j \in DOMAIN longer : i < j => g[i] < g[j]
  <2> SUFFICES ASSUME NEW i \in 1 .. n, NEW j \in 1 .. n, i < j PROVE g[i] < g[j]
    BY <1>2
  <2>1. i \in DOMAIN list /\ g[i] = f[i] /\ f[i] \in DOMAIN p
    BY <1>2
  <2>2. CASE j = n
    BY <1>2, <2>1, <2>2
  <2>3. CASE j # n
    BY <1>1, <1>2, <2>1, <2>3, SMTT(20)
  <2> QED
    BY <2>2, <2>3
<1>5. \A k \in S \cup {N} : \E i \in DOMAIN longer : g[i] = k
  <2>1. g[n] = N /\ n \in DOMAIN longer
    BY <1>2
  <2>2. \A i \in DOMAIN list : i \in DOMAIN longer /\ g[i] = f[i]
    BY <1>2
  <2> QED
    BY <1>1, <2>1, <2>2
<1>6. \A i \in DOMAIN longer : longer[i] = Mark(q[g[i]])
  <2>1. \A i \in DOMAIN list : g[i] = f[i] /\ f[i] \in DOMAIN p
    BY <1>2
  <2>2. g[n] = N
    BY <1>2
  <2> QED
    BY <1>1, <1>2, <2>1, <2>2
<1> QED
  BY <1>3, <1>4, <1>5, <1>6 DEF Enumerates

(* The positions of a past are finitely many.                               *)
LEMMA PastIsFinite ==
  ASSUME NEW p, p \in Seq(PastEvent), NEW S, S \in SUBSET DOMAIN p
  PROVE  IsFiniteSet(S) /\ Cardinality(S) \in Nat /\ Cardinality(S) <= Len(p)
<1>1. DOMAIN p = 1 .. Len(p) /\ Len(p) \in Nat /\ 1 \in Int /\ Len(p) \in Int
  OBVIOUS
<1>2. /\ IsFiniteSet(1 .. Len(p))
      /\ Cardinality(1 .. Len(p)) = IF 1 > Len(p) THEN 0 ELSE Len(p) - 1 + 1
  BY ONLY <1>1, FS_Interval
<1>3. Cardinality(1 .. Len(p)) = Len(p)
  BY <1>1, <1>2
<1>4. IsFiniteSet(S) /\ Cardinality(S) <= Len(p)
  BY <1>1, <1>2, <1>3, FS_Subset
<1> QED
  BY <1>4, FS_CardinalityType

(* Dropping the old ones from the left drops no young one, and what stays   *)
(* is young or comes after one that is.                                     *)
StartsYoung(list, p, S, cut) ==
  \E T \in SUBSET S :
    /\ Enumerates(list, p, T)
    /\ Since(p, S, cut) \subseteq T
    /\ \A k \in T : \E m \in T : m <= k /\ p[m].at >= cut

LEMMA PruneKeeps ==
  ASSUME NEW p \in Seq(PastEvent), NEW list \in Seq(Kept),
         NEW S \in SUBSET DOMAIN p, Enumerates(list, p, S),
         NEW now \in Int, NEW window \in Int
  PROVE  /\ Prune(list, now, window) \in Seq(Kept)
         /\ StartsYoung(Prune(list, now, window), p, S, now - window)
<1> DEFINE cut == now - window
           kept == {k \in DOMAIN list : list[k].at >= cut}
           pruned == Prune(list, now, window)
<1>1. PICK f \in [DOMAIN list -> S] :
        /\ \A i, j \in DOMAIN list : i < j => f[i] < f[j]
        /\ \A k \in S : \E i \in DOMAIN list : f[i] = k
        /\ \A i \in DOMAIN list : list[i] = Mark(p[f[i]])
  BY DEF Enumerates
<1>2. /\ DOMAIN list = 1 .. Len(list) /\ Len(list) \in Nat /\ cut \in Int
      /\ DOMAIN p = 1 .. Len(p) /\ Len(p) \in Nat
  OBVIOUS
<1>3. \A i \in DOMAIN list : f[i] \in DOMAIN p /\ f[i] \in S /\ list[i].at = p[f[i]].at
  BY <1>1 DEF Mark
<1>4. \A i \in DOMAIN list : i \in kept <=> f[i] \in Since(p, S, cut)
  BY <1>3 DEF Since
<1>5. CASE kept = {}
  <2>1. pruned = <<>>
    BY <1>5 DEF Prune
  <2>2. Since(p, S, cut) = {}
    <3> SUFFICES ASSUME NEW k \in Since(p, S, cut) PROVE FALSE
      OBVIOUS
    <3>1. PICK i \in DOMAIN list : f[i] = k
      BY <1>1 DEF Since
    <3> QED
      BY <1>4, <1>5, <3>1
  <2>3. << >> \in [DOMAIN << >> -> {}] /\ DOMAIN << >> = {}
    OBVIOUS
  <2>4. Enumerates(<< >>, p, {})
    BY <2>3 DEF Enumerates
  <2>5. << >> \in Seq(Kept) /\ {} \in SUBSET S
    OBVIOUS
  <2> HIDE DEF pruned, cut
  <2>6. /\ pruned \in Seq(Kept) /\ Enumerates(pruned, p, {})
        /\ Since(p, S, cut) \subseteq {}
    BY <2>1, <2>2, <2>4, <2>5
  <2> QED
    BY <2>5, <2>6 DEF pruned, cut, StartsYoung
<1>6. CASE kept # {}
  <2> DEFINE m == CHOOSE k \in kept : \A j \in kept : k <= j
  <2>1. \E k \in kept : \A j \in kept : k <= j
    <3>1. kept \in SUBSET Nat
      BY <1>2
    <3> QED
      BY <1>6, <3>1, Least
  <2>2. m \in kept /\ \A j \in kept : m <= j
    BY <2>1
  <2>3. pruned = SubSeq(list, m, Len(list))
    BY <1>6 DEF Prune
  <2> HIDE DEF m
  <2> DEFINE n == Len(list) - m + 1
             g == [i \in 1 .. n |-> f[i + m - 1]]
             T == {f[j] : j \in m .. Len(list)}
  <2>4. /\ m \in 1 .. Len(list) /\ n \in Nat /\ \A i \in 1 .. n : i + m - 1 \in DOMAIN list
        /\ \A i \in 1 .. n : i + m - 1 \in m .. Len(list)
    BY <1>2, <2>2, SMTT(20)
  <2>5. /\ pruned \in Seq(Kept) /\ Len(pruned) = n /\ DOMAIN pruned = 1 .. n
        /\ \A i \in 1 .. n : pruned[i] = list[i + m - 1]
    BY <1>2, <2>3, <2>4
  <2> HIDE DEF pruned, g
  <2>6. T \in SUBSET S
    BY <1>2, <1>3, <2>4
  <2>7. g \in [DOMAIN pruned -> T]
    BY <2>4, <2>5 DEF g
  <2>8. \A i, j \in DOMAIN pruned : i < j => g[i] < g[j]
    <3> SUFFICES ASSUME NEW i \in 1 .. n, NEW j \in 1 .. n, i < j
                 PROVE  f[i + m - 1] < f[j + m - 1]
      BY <2>5 DEF g
    <3>1. i + m - 1 \in DOMAIN list /\ j + m - 1 \in DOMAIN list /\ i + m - 1 < j + m - 1
      BY <2>4
    <3> QED
      BY <1>1, <3>1
  <2>9. \A k \in T : \E i \in DOMAIN pruned : g[i] = k
    <3> SUFFICES ASSUME NEW j \in m .. Len(list) PROVE \E i \in 1 .. n : g[i] = f[j]
      BY <2>5
    <3>1. j - m + 1 \in 1 .. n /\ (j - m + 1) + m - 1 = j
      BY <1>2, <2>4
    <3>2. g[j - m + 1] = f[j]
      BY <3>1 DEF g
    <3> QED
      BY <3>1, <3>2
  <2>10. \A i \in DOMAIN pruned : pruned[i] = Mark(p[g[i]])
    BY <1>1, <2>4, <2>5 DEF g
  <2>11. Enumerates(pruned, p, T)
    <3> HIDE DEF T, n
    <3> QED
      BY <2>7, <2>8, <2>9, <2>10 DEF Enumerates
  <2>12. Since(p, S, cut) \subseteq T
    <3> SUFFICES ASSUME NEW k \in Since(p, S, cut) PROVE k \in T
      OBVIOUS
    <3>1. PICK j \in DOMAIN list : f[j] = k
      BY <1>1 DEF Since
    <3>2. j \in kept
      BY <1>4, <3>1
    <3>3. j \in m .. Len(list)
      BY <1>2, <2>2, <2>4, <3>2
    <3> QED
      BY <3>1, <3>3
  <2>13. \A k \in T : \E l \in T : l <= k /\ p[l].at >= cut
    <3> SUFFICES ASSUME NEW j \in m .. Len(list) PROVE \E l \in T : l <= f[j] /\ p[l].at >= cut
      OBVIOUS
    <3>1. m \in DOMAIN list /\ list[m].at >= cut /\ j \in DOMAIN list /\ m \in m .. Len(list)
      BY <1>2, <2>2, <2>4
    <3>2. f[m] <= f[j]
      <4>1. f[m] \in Int /\ f[j] \in Int /\ (m = j \/ m < j)
        BY <1>2, <1>3, <2>4, <3>1
      <4> QED
        BY <1>1, <3>1, <4>1
    <3>3. f[m] \in T /\ p[f[m]].at >= cut
      BY <1>3, <3>1
    <3> QED
      BY <3>2, <3>3
  <2> HIDE DEF T, cut
  <2>14. StartsYoung(pruned, p, S, cut)
    BY <2>6, <2>11, <2>12, <2>13 DEF StartsYoung
  <2> QED
    BY <2>5, <2>14 DEF pruned, cut
<1> QED
  BY <1>5, <1>6

(* A list of the tracker holds every position of S that no event up to now  *)
(* found too old; a pruned one holds nothing else, but for what comes after *)
(* a young one.                                                             *)
TimeOf(p) == p[Len(p)].at
Young(p, k, window) == \A n \in DOMAIN p : p[n].at - window <= p[k].at
Keeps(list, p, S, window) ==
  \E T \in SUBSET S : Enumerates(list, p, T) /\ \A k \in S : Young(p, k, window) => k \in T
IsPruned(list, p, S, window) ==
  \E T \in SUBSET S :
    /\ Enumerates(list, p, T)
    /\ \A k \in S : Young(p, k, window) => k \in T
    /\ \A k \in T : \E m \in T : m <= k /\ p[m].at >= TimeOf(p) - window

ConnectsIn(p, d) == {k \in DOMAIN p : p[k].id = d /\ p[k].type = "CONNECT"}
EventsIn(p, d) == {k \in DOMAIN p : p[k].id = d}
FirstsIn(p) == {k \in DOMAIN p : p[k].first}

Kind(p) == p \in Seq(PastEvent)

LEMMA LongerPast ==
  ASSUME NEW p, Kind(p), NEW e \in PastEvent
  PROVE  /\ Kind(Append(p, e)) /\ TimeOf(Append(p, e)) = e.at
         /\ DOMAIN Append(p, e) = DOMAIN p \cup {Len(p) + 1} /\ Len(p) + 1 \notin DOMAIN p
         /\ Append(p, e)[Len(p) + 1] = e /\ \A k \in DOMAIN p : Append(p, e)[k] = p[k]
BY DEF Kind, TimeOf

(* One more event, in the list or not, and the list is pruned by its time.  *)
LEMMA ListIsPruned ==
  ASSUME NEW p, Kind(p), NEW e \in PastEvent, NEW window \in Nat,
         NEW list \in Seq(Kept), NEW S \in SUBSET DOMAIN p, Keeps(list, p, S, window),
         NEW taken \in BOOLEAN
  PROVE  LET q == Append(p, e)
             T == IF taken THEN S \cup {Len(p) + 1} ELSE S
             pruned == Prune(IF taken THEN Append(list, Mark(e)) ELSE list, e.at, window)
         IN  pruned \in Seq(Kept) /\ IsPruned(pruned, q, T, window)
<1> DEFINE q == Append(p, e)
           N == Len(p) + 1
           T == IF taken THEN S \cup {N} ELSE S
           longer == IF taken THEN Append(list, Mark(e)) ELSE list
<1>1. PICK old \in SUBSET S :
        Enumerates(list, p, old) /\ \A k \in S : Young(p, k, window) => k \in old
  BY DEF Keeps
<1> DEFINE all == IF taken THEN old \cup {N} ELSE old
<1>2. /\ Kind(q) /\ DOMAIN q = DOMAIN p \cup {N} /\ N \notin DOMAIN p
      /\ q[N] = e /\ TimeOf(q) = e.at /\ \A k \in DOMAIN p : q[k] = p[k]
  BY LongerPast
<1>3. old \in SUBSET DOMAIN p /\ p \in Seq(PastEvent) /\ q \in Seq(PastEvent)
  BY <1>2 DEF Kind
<1>4. Mark(e) \in Kept
  BY DEF Mark, Kept, PastEvent
<1>5. Enumerates(longer, q, all)
  BY <1>1, <1>3, PastGrows, ListGrows
<1>6. longer \in Seq(Kept) /\ all \in SUBSET DOMAIN q /\ all \in SUBSET T
  BY <1>2, <1>3, <1>4
<1>7. e.at \in Int /\ window \in Int
  BY DEF PastEvent
<1>8. \A k \in T : Young(q, k, window) => k \in Since(q, all, e.at - window)
  <2> SUFFICES ASSUME NEW k \in T, Young(q, k, window) PROVE k \in Since(q, all, e.at - window)
    OBVIOUS
  <2>1. q[k].at >= e.at - window
    <3>1. q[k] \in PastEvent
      BY <1>2, <1>3
    <3> QED
      BY <1>2, <1>7, <3>1 DEF Young, PastEvent
  <2>2. k \in all
    <3>1. CASE k \in S
      <4>1. Young(p, k, window)
        BY <1>2, <3>1 DEF Young
      <4> QED
        BY <1>1, <3>1, <4>1
    <3>2. CASE k \notin S
      BY <3>2
    <3> QED
      BY <3>1, <3>2
  <2> QED
    BY <2>1, <2>2 DEF Since
<1> HIDE DEF q, longer, all, T
<1>9. /\ Prune(longer, e.at, window) \in Seq(Kept)
      /\ StartsYoung(Prune(longer, e.at, window), q, all, e.at - window)
  BY <1>3, <1>5, <1>6, <1>7, PruneKeeps
<1>10. IsPruned(Prune(longer, e.at, window), q, T, window)
  <2>1. PICK U \in SUBSET all :
          /\ Enumerates(Prune(longer, e.at, window), q, U)
          /\ Since(q, all, e.at - window) \subseteq U
          /\ \A k \in U : \E m \in U : m <= k /\ q[m].at >= e.at - window
    BY <1>9 DEF StartsYoung
  <2> QED
    BY <1>2, <1>6, <1>8, <2>1 DEF IsPruned
<1> QED
  BY <1>9, <1>10 DEF q, longer, T

(* A pruned list goes on to hold what is young enough.                      *)
LEMMA PrunedKeeps ==
  ASSUME NEW q, NEW list, NEW S, NEW window, IsPruned(list, q, S, window)
  PROVE  Keeps(list, q, S, window)
BY DEF IsPruned, Keeps

LEMMA OthersKeep ==
  ASSUME NEW p, Kind(p), NEW e \in PastEvent, NEW window \in Nat,
         NEW list, NEW S \in SUBSET DOMAIN p, Keeps(list, p, S, window)
  PROVE  Keeps(list, Append(p, e), S, window)
<1> DEFINE q == Append(p, e)
<1>1. PICK T \in SUBSET S :
        Enumerates(list, p, T) /\ \A k \in S : Young(p, k, window) => k \in T
  BY DEF Keeps
<1>2. DOMAIN p \subseteq DOMAIN q /\ \A k \in DOMAIN p : q[k] = p[k]
  BY LongerPast
<1>3. Enumerates(list, q, T)
  BY <1>1, PastGrows DEF Kind
<1>4. \A k \in S : Young(q, k, window) => Young(p, k, window)
  BY <1>2 DEF Young
<1> QED
  BY <1>1, <1>3, <1>4 DEF Keeps

(* What a pruned list holds, when the times went back by no more than lag.  *)
BehindIn(p, lag) == \A i, j \in DOMAIN p : i <= j => p[i].at - p[j].at <= lag

Between(list, p, S, least, most) ==
  \E T \in SUBSET S :
    Enumerates(list, p, T) /\ Since(p, S, least) \subseteq T /\ T \subseteq Since(p, S, most)

LEMMA PrunedIsNear ==
  ASSUME NEW p, Kind(p), p # <<>>, NEW list, NEW S \in SUBSET DOMAIN p, NEW window \in Nat,
         IsPruned(list, p, S, window), NEW lag \in Nat, BehindIn(p, lag)
  PROVE  Between(list, p, S, TimeOf(p) - (window - lag), TimeOf(p) - (window + lag))
<1>1. PICK T \in SUBSET S :
        /\ Enumerates(list, p, T)
        /\ \A k \in S : Young(p, k, window) => k \in T
        /\ \A k \in T : \E m \in T : m <= k /\ p[m].at >= TimeOf(p) - window
  BY DEF IsPruned
<1>2. /\ DOMAIN p = 1 .. Len(p) /\ Len(p) \in Nat /\ Len(p) \in DOMAIN p
      /\ \A k \in DOMAIN p : p[k] \in PastEvent
  BY DEF Kind
<1>3. /\ \A k \in DOMAIN p : k \in Int /\ k <= Len(p) /\ p[k].at \in Int
      /\ TimeOf(p) = p[Len(p)].at /\ TimeOf(p) \in Int
  BY <1>2 DEF PastEvent, TimeOf
<1>4. ASSUME NEW k \in Since(p, S, TimeOf(p) - (window - lag)) PROVE k \in T
  <2>1. k \in S /\ k \in DOMAIN p /\ p[k].at >= TimeOf(p) - (window - lag)
    BY DEF Since
  <2>2. ASSUME NEW n \in DOMAIN p PROVE p[n].at - window <= p[k].at
    <3>1. p[n].at - p[Len(p)].at <= lag
      BY <1>2, <1>3 DEF BehindIn
    <3>2. p[n].at \in Int /\ p[k].at \in Int /\ p[Len(p)].at \in Int
      BY <1>2, <1>3, <2>1
    <3> QED
      BY <1>3, <2>1, <3>1, <3>2, SMTT(20)
  <2> QED
    BY <1>1, <2>1, <2>2 DEF Young
<1>5. ASSUME NEW k \in T PROVE k \in Since(p, S, TimeOf(p) - (window + lag))
  <2>1. PICK m \in T : m <= k /\ p[m].at >= TimeOf(p) - window
    BY <1>1
  <2>2. p[m].at - p[k].at <= lag
    BY <2>1 DEF BehindIn
  <2>3. p[m].at \in Int /\ p[k].at \in Int
    BY <1>3
  <2>4. p[k].at >= TimeOf(p) - (window + lag)
    BY <1>3, <2>1, <2>2, <2>3
  <2> QED
    BY <2>4 DEF Since
<1> QED
  BY <1>1, <1>4, <1>5 DEF Between

(* So its length is between two counts of the past.                         *)
LEMMA PrunedIsCounted ==
  ASSUME NEW p, Kind(p), p # <<>>, NEW list \in Seq(Kept), NEW S \in SUBSET DOMAIN p,
         NEW window \in Nat, IsPruned(list, p, S, window), NEW lag \in Nat, BehindIn(p, lag)
  PROVE  /\ Len(list) >= Cardinality(Since(p, S, TimeOf(p) - (window - lag)))
         /\ Len(list) <= Cardinality(Since(p, S, TimeOf(p) - (window + lag)))
<1> DEFINE least == Since(p, S, TimeOf(p) - (window - lag))
           most == Since(p, S, TimeOf(p) - (window + lag))
<1>1. PICK T \in SUBSET S : Enumerates(list, p, T) /\ least \subseteq T /\ T \subseteq most
  BY PrunedIsNear DEF Between
<1>2. T \in SUBSET Int /\ most \in SUBSET DOMAIN p
  BY DEF Kind, Since
<1> HIDE DEF least, most
<1>3. IsFiniteSet(T) /\ Cardinality(T) = Len(list)
  BY <1>1, <1>2, ListedIsCounted
<1>4. IsFiniteSet(most)
  BY <1>2, PastIsFinite DEF Kind
<1>5. /\ Cardinality(least) <= Cardinality(T) /\ Cardinality(T) <= Cardinality(most)
      /\ IsFiniteSet(least)
  BY <1>1, <1>3, <1>4, FS_Subset
<1>6. Cardinality(least) \in Nat /\ Cardinality(T) \in Nat /\ Cardinality(most) \in Nat
  BY <1>3, <1>4, <1>5, FS_CardinalityType
<1> QED
  BY <1>3, <1>5, <1>6 DEF least, most

(* And the identities it holds are between two sets of identities.          *)
IdsOf(p, S) == {p[k].id : k \in S}
LEMMA IdsAreFinite ==
  ASSUME NEW p, NEW S, IsFiniteSet(S)
  PROVE  /\ IsFiniteSet(IdsOf(p, S)) /\ Cardinality(IdsOf(p, S)) \in Nat
         /\ Cardinality(IdsOf(p, S)) <= Cardinality(S)
<1> DEFINE id == [k \in S |-> p[k].id]
<1>1. id \in Surjection(S, IdsOf(p, S))
  BY DEF Surjection, IdsOf
<1> HIDE DEF id
<1>2. IsFiniteSet(IdsOf(p, S)) /\ Cardinality(IdsOf(p, S)) <= Cardinality(S)
  BY <1>1, FS_Surjection
<1> QED
  BY <1>2, FS_CardinalityType

LEMMA PrunedIdsAreCounted ==
  ASSUME NEW p, Kind(p), p # <<>>, NEW list \in Seq(Kept), NEW S \in SUBSET DOMAIN p,
         NEW window \in Nat, IsPruned(list, p, S, window), NEW lag \in Nat, BehindIn(p, lag)
  PROVE  LET ids == {list[i].id : i \in DOMAIN list}
         IN  /\ Cardinality(ids) >= Cardinality(IdsOf(p, Since(p, S, TimeOf(p) - (window - lag))))
             /\ Cardinality(ids) <= Cardinality(IdsOf(p, Since(p, S, TimeOf(p) - (window + lag))))
<1> DEFINE least == Since(p, S, TimeOf(p) - (window - lag))
           most == Since(p, S, TimeOf(p) - (window + lag))
           ids == {list[i].id : i \in DOMAIN list}
<1>1. PICK T \in SUBSET S : Enumerates(list, p, T) /\ least \subseteq T /\ T \subseteq most
  BY PrunedIsNear DEF Between
<1>2. most \in SUBSET DOMAIN p
  BY DEF Since
<1> HIDE DEF least, most
<1>3. ids = IdsOf(p, T)
  <2>1. PICK f \in [DOMAIN list -> T] :
          /\ \A k \in T : \E i \in DOMAIN list : f[i] = k
          /\ \A i \in DOMAIN list : list[i] = Mark(p[f[i]])
    BY <1>1 DEF Enumerates
  <2>2. \A i \in DOMAIN list : f[i] \in T /\ list[i].id = p[f[i]].id
    BY <2>1 DEF Mark
  <2> QED
    BY <2>1, <2>2, SMTT(20) DEF IdsOf
<1>4. IsFiniteSet(IdsOf(p, most))
  BY <1>2, PastIsFinite, IdsAreFinite DEF Kind
<1>5. IdsOf(p, least) \subseteq IdsOf(p, T) /\ IdsOf(p, T) \subseteq IdsOf(p, most)
  BY <1>1 DEF IdsOf
<1>6. /\ IsFiniteSet(IdsOf(p, T)) /\ IsFiniteSet(IdsOf(p, least))
      /\ Cardinality(IdsOf(p, least)) <= Cardinality(IdsOf(p, T))
      /\ Cardinality(IdsOf(p, T)) <= Cardinality(IdsOf(p, most))
  BY <1>4, <1>5, FS_Subset
<1>7. /\ Cardinality(IdsOf(p, T)) \in Nat /\ Cardinality(IdsOf(p, least)) \in Nat
      /\ Cardinality(IdsOf(p, most)) \in Nat
  BY <1>4, <1>6, FS_CardinalityType
<1> HIDE DEF ids
<1>8. Cardinality(ids) >= Cardinality(IdsOf(p, least)) /\ Cardinality(ids) <= Cardinality(IdsOf(p, most))
  BY <1>3, <1>6, <1>7
<1> QED
  BY <1>8 DEF ids, least, most

-----------------------------------------------------------------------------
WInv ==
  /\ Kind(past)
  /\ connects \in [Device -> Seq(Kept)] /\ events \in [Device -> Seq(Kept)]
  /\ firstSeen \in Seq(Kept)
  /\ \A d \in Device :
       /\ Keeps(connects[d], past, ConnectsIn(past, d), ConnectWindow)
       /\ Keeps(events[d], past, EventsIn(past, d), EventWindow)
  /\ Keeps(firstSeen, past, FirstsIn(past), NewWindow)

Counted == {last.connects, last.events, last.new} \subseteq 0 .. Len(past)

(* WindowsAreExact for any bound of the lag.                                *)
AllCounted == past # <<>> => \A lag \in 0 .. MaxTime : Behind(Len(past), lag) => CountedBy(lag)

LEMMA LagBehind ==
  ASSUME Kind(past), NEW k \in DOMAIN past
  PROVE  Lag(k) \in 0 .. MaxTime /\ Behind(k, Lag(k))
<1> DEFINE lags == {lag \in 0 .. MaxTime : Behind(k, lag)}
<1>1. /\ MaxTime \in Nat /\ DOMAIN past = 1 .. Len(past) /\ Len(past) \in Nat
      /\ \A i \in DOMAIN past : past[i] \in PastEvent
  BY AnalyzerAssumption DEF Kind
<1>2. \A i \in 1 .. k : past[i].at \in 0 .. MaxTime
  BY <1>1 DEF PastEvent
<1>3. MaxTime \in lags
  BY <1>1, <1>2 DEF Behind
<1>4. lags \in SUBSET Nat /\ lags # {}
  BY <1>3
<1>5. PICK lag \in lags : \A l \in lags : lag <= l
  BY <1>4, Least
<1>6. lag \in 0 .. MaxTime /\ Behind(k, lag)
  BY <1>5
<1>7. lag = 0 \/ ~Behind(k, lag - 1)
  <2> SUFFICES ASSUME lag # 0, Behind(k, lag - 1) PROVE FALSE
    OBVIOUS
  <2>1. lag - 1 \in 0 .. MaxTime /\ ~(lag <= lag - 1)
    BY <1>1, <1>6
  <2>2. lag - 1 \in lags
    BY <2>1
  <2> QED
    BY <1>5, <2>1, <2>2
<1>8. \E l \in 0 .. MaxTime : Behind(k, l) /\ (l = 0 \/ ~Behind(k, l - 1))
  BY <1>6, <1>7
<1> QED
  BY <1>8 DEF Lag

LEMMA WInvHolds == Init => WInv /\ AllCounted /\ Counted
<1> SUFFICES ASSUME Init PROVE WInv /\ AllCounted /\ Counted
  OBVIOUS
<1>1. past = <<>> /\ DOMAIN past = {} /\ Len(past) = 0
  BY DEF Init
<1>2. Kind(past)
  BY <1>1 DEF Kind
<1>3. ASSUME NEW window \in Nat PROVE Keeps(<<>>, past, {}, window)
  <2>1. << >> \in [DOMAIN << >> -> {}] /\ DOMAIN << >> = {}
    OBVIOUS
  <2>2. Enumerates(<<>>, past, {})
    BY <2>1 DEF Enumerates
  <2> QED
    BY <2>2 DEF Keeps
<1>4. FirstsIn(past) = {} /\ \A d : ConnectsIn(past, d) = {} /\ EventsIn(past, d) = {}
  BY <1>1 DEF FirstsIn, ConnectsIn, EventsIn
<1>5. /\ connects \in [Device -> Seq(Kept)] /\ events \in [Device -> Seq(Kept)]
      /\ firstSeen \in Seq(Kept) /\ firstSeen = <<>>
      /\ \A d \in Device : connects[d] = <<>> /\ events[d] = <<>>
  BY DEF Init
<1>6. WInv
  BY <1>2, <1>3, <1>4, <1>5, AnalyzerAssumption DEF WInv
<1>7. AllCounted /\ Counted
  BY <1>1 DEF Init, AllCounted, Counted
<1> QED
  BY <1>6, <1>7

LEMMA AnalyzeIsExact ==
  ASSUME WInv, NEW d \in Device, NEW type \in {"CONNECT", "DISCONNECT"},
         NEW at \in 0 .. MaxTime, NEW first \in BOOLEAN, NEW facts,
         Analyze(d, type, at, first, facts)
  PROVE  WInv' /\ AllCounted' /\ Counted'
<1> DEFINE e == [id |-> d, type |-> type, at |-> at, first |-> first]
           q == Append(past, e)
           N == Len(past) + 1
           now == [at |-> at, id |-> d]
           kept == Prune(IF type = "CONNECT" THEN Append(connects[d], now) ELSE connects[d],
                         at, ConnectWindow)
           keptEvents == Prune(Append(events[d], now), at, EventWindow)
           keptNew == Prune(IF first THEN Append(firstSeen, now) ELSE firstSeen, at, NewWindow)
           ids == {keptNew[k].id : k \in DOMAIN keptNew}
<1>1. /\ connects' = [connects EXCEPT ![d] = kept]
      /\ events' = [events EXCEPT ![d] = keptEvents]
      /\ firstSeen' = keptNew
      /\ past' = q
      /\ last'.connects = Len(kept) /\ last'.events = Len(keptEvents)
      /\ last'.new = Cardinality(ids)
  BY DEF Analyze
<1>2. MaxTime \in Nat
  BY AnalyzerAssumption
<1>3. e \in PastEvent /\ at \in Nat /\ e.at = at
  BY <1>2 DEF PastEvent
<1>4. Mark(e) = now
  BY DEF Mark
<1>5. /\ Kind(q) /\ TimeOf(q) = at /\ DOMAIN q = DOMAIN past \cup {N} /\ N \notin DOMAIN past
      /\ q[N] = e /\ \A k \in DOMAIN past : q[k] = past[k]
  BY <1>3, LongerPast DEF WInv
<1>6. Kind(past) /\ {ConnectWindow, EventWindow, NewWindow} \subseteq Nat
  BY AnalyzerAssumption DEF WInv
<1> HIDE DEF q, e, kept, keptEvents, keptNew
<1>7. /\ e.id = d /\ e.type = type /\ e.first = first
      /\ ConnectsIn(q, d) = IF type = "CONNECT" THEN ConnectsIn(past, d) \cup {N} ELSE ConnectsIn(past, d)
      /\ EventsIn(q, d) = EventsIn(past, d) \cup {N}
      /\ FirstsIn(q) = IF first THEN FirstsIn(past) \cup {N} ELSE FirstsIn(past)
      /\ \A c \in Device \ {d} : ConnectsIn(q, c) = ConnectsIn(past, c) /\ EventsIn(q, c) = EventsIn(past, c)
  <2>1. e.id = d /\ e.type = type /\ e.first = first
    BY DEF e
  <2> QED
    BY <1>5, <2>1 DEF ConnectsIn, EventsIn, FirstsIn
<1>8. /\ FirstsIn(past) \in SUBSET DOMAIN past
      /\ \A c : ConnectsIn(past, c) \in SUBSET DOMAIN past /\ EventsIn(past, c) \in SUBSET DOMAIN past
  BY DEF ConnectsIn, EventsIn, FirstsIn
<1>9. kept \in Seq(Kept) /\ IsPruned(kept, q, ConnectsIn(q, d), ConnectWindow)
  <2>1. Keeps(connects[d], past, ConnectsIn(past, d), ConnectWindow) /\ connects[d] \in Seq(Kept)
    BY DEF WInv
  <2>2. (type = "CONNECT") \in BOOLEAN
    OBVIOUS
  <2>3. LET pruned == Prune(IF (type = "CONNECT") THEN Append(connects[d], Mark(e)) ELSE connects[d], e.at, ConnectWindow)
             T == IF (type = "CONNECT") THEN ConnectsIn(past, d) \cup {Len(past) + 1} ELSE ConnectsIn(past, d)
        IN  pruned \in Seq(Kept) /\ IsPruned(pruned, Append(past, e), T, ConnectWindow)
    BY <1>3, <1>6, <1>8, <2>1, <2>2, ListIsPruned
  <2> QED
    BY <1>3, <1>4, <1>7, <2>3 DEF q, kept
<1>10. keptEvents \in Seq(Kept) /\ IsPruned(keptEvents, q, EventsIn(q, d), EventWindow)
  <2>1. Keeps(events[d], past, EventsIn(past, d), EventWindow) /\ events[d] \in Seq(Kept)
    BY DEF WInv
  <2>2. LET pruned == Prune(IF TRUE THEN Append(events[d], Mark(e)) ELSE events[d], e.at, EventWindow)
             T == IF TRUE THEN EventsIn(past, d) \cup {Len(past) + 1} ELSE EventsIn(past, d)
        IN  pruned \in Seq(Kept) /\ IsPruned(pruned, Append(past, e), T, EventWindow)
    BY <1>3, <1>6, <1>8, <2>1, ListIsPruned
  <2> QED
    BY <1>3, <1>4, <1>7, <2>2 DEF q, keptEvents
<1>11. keptNew \in Seq(Kept) /\ IsPruned(keptNew, q, FirstsIn(q), NewWindow)
  <2>1. Keeps(firstSeen, past, FirstsIn(past), NewWindow) /\ firstSeen \in Seq(Kept)
    BY DEF WInv
  <2>2. LET pruned == Prune(IF first THEN Append(firstSeen, Mark(e)) ELSE firstSeen, e.at, NewWindow)
             T == IF first THEN FirstsIn(past) \cup {Len(past) + 1} ELSE FirstsIn(past)
        IN  pruned \in Seq(Kept) /\ IsPruned(pruned, Append(past, e), T, NewWindow)
    BY <1>3, <1>6, <1>8, <2>1, ListIsPruned
  <2> QED
    BY <1>3, <1>4, <1>7, <2>2 DEF q, keptNew
<1>12. WInv'
  <2>1. Keeps(keptNew, q, FirstsIn(q), NewWindow)
    BY <1>11, PrunedKeeps
  <2>2. ASSUME NEW c \in Device
        PROVE  /\ Keeps(connects'[c], q, ConnectsIn(q, c), ConnectWindow)
               /\ Keeps(events'[c], q, EventsIn(q, c), EventWindow)
    <3>1. CASE c = d
      <4>1. Keeps(kept, q, ConnectsIn(q, d), ConnectWindow) /\ Keeps(keptEvents, q, EventsIn(q, d), EventWindow)
        BY <1>9, <1>10, PrunedKeeps
      <4>2. connects'[d] = kept /\ events'[d] = keptEvents
        BY <1>1 DEF WInv
      <4> QED
        BY <3>1, <4>1, <4>2
    <3>2. CASE c # d
      <4>1. Keeps(connects[c], past, ConnectsIn(past, c), ConnectWindow) /\ Keeps(events[c], past, EventsIn(past, c), EventWindow)
        BY DEF WInv
      <4>2. Keeps(connects[c], q, ConnectsIn(past, c), ConnectWindow) /\ Keeps(events[c], q, EventsIn(past, c), EventWindow)
        BY <1>3, <1>6, <1>8, <4>1, OthersKeep DEF q
      <4>3. connects'[c] = connects[c] /\ events'[c] = events[c]
        BY <1>1, <3>2 DEF WInv
      <4> QED
        BY <1>7, <3>2, <4>2, <4>3
    <3> QED
      BY <3>1, <3>2
  <2>3. connects' \in [Device -> Seq(Kept)] /\ events' \in [Device -> Seq(Kept)]
    BY <1>1, <1>9, <1>10 DEF WInv
  <2> QED
    BY <1>1, <1>5, <1>11, <2>1, <2>2, <2>3 DEF WInv
<1>13. Len(q) = N /\ N \in Nat /\ DOMAIN q = 1 .. N /\ q # <<>>
  <2>1. past \in Seq(PastEvent) /\ e \in PastEvent
    BY <1>3, <1>6 DEF Kind
  <2>2. Len(q) = N /\ N \in Nat /\ DOMAIN q = 1 .. N
    BY <2>1 DEF q
  <2>3. N \in DOMAIN q
    BY <2>1, <2>2
  <2>4. q # <<>>
    BY <2>3
  <2> QED
    BY <2>2, <2>4
<1>14. /\ ConnectsIn(q, d) \in SUBSET DOMAIN q /\ EventsIn(q, d) \in SUBSET DOMAIN q
       /\ FirstsIn(q) \in SUBSET DOMAIN q
  BY DEF ConnectsIn, EventsIn, FirstsIn
<1> HIDE DEF ids
<1>15. AllCounted'
  <2> SUFFICES ASSUME NEW lag \in 0 .. MaxTime, Behind(Len(past), lag)' PROVE CountedBy(lag)'
    BY DEF AllCounted
  <2>1. lag \in Nat /\ BehindIn(q, lag)
    BY <1>1, <1>2, <1>13 DEF Behind, BehindIn
  <2>2. past'[Len(past')] = e /\ e.at = at /\ at \in Int /\ TimeOf(q) = at
    BY <1>1, <1>3, <1>5, <1>13
  <2>3. \A k \in DOMAIN q : q[k].at \in Int
    <3>1. \A k \in DOMAIN q : q[k] \in PastEvent
      BY <1>5 DEF Kind
    <3> QED
      BY <3>1 DEF PastEvent
  <2>4. ASSUME NEW w \in Int
        PROVE  /\ Since(q, ConnectsIn(q, d), at - w) = ConnectsWithin(w)'
               /\ Since(q, EventsIn(q, d), at - w) = EventsWithin(w)'
               /\ IdsOf(q, Since(q, FirstsIn(q), at - w)) = NewWithin(w)'
    <3>1. \A k \in DOMAIN q : q[k].at >= at - w <=> Within(k, w)'
      BY <1>1, <2>2, <2>3 DEF Within
    <3>2. \A k \in DOMAIN q : q[k].id = d <=> Mine(k)'
      BY <1>1, <1>7, <2>2 DEF Mine
    <3>3. Since(q, ConnectsIn(q, d), at - w) = ConnectsWithin(w)'
      BY <1>1, <3>1, <3>2 DEF Since, ConnectsIn, ConnectsWithin
    <3>4. Since(q, EventsIn(q, d), at - w) = EventsWithin(w)'
      BY <1>1, <3>1, <3>2 DEF Since, EventsIn, EventsWithin
    <3>5. Since(q, FirstsIn(q), at - w) = {n \in DOMAIN past' : past'[n].first /\ Within(n, w)'}
      BY <1>1, <3>1 DEF Since, FirstsIn
    <3>6. IdsOf(q, Since(q, FirstsIn(q), at - w)) = NewWithin(w)'
      BY <1>1, <3>5 DEF IdsOf, NewWithin
    <3> QED
      BY <3>3, <3>4, <3>6
  <2>5. /\ ConnectWindow - lag \in Int /\ ConnectWindow + lag \in Int
        /\ EventWindow - lag \in Int /\ EventWindow + lag \in Int
        /\ NewWindow - lag \in Int /\ NewWindow + lag \in Int
    BY <1>6, <2>1
  <2>6. /\ last'.connects >= Cardinality(ConnectsWithin(ConnectWindow - lag)')
        /\ last'.connects <= Cardinality(ConnectsWithin(ConnectWindow + lag)')
    <3>1. /\ Len(kept) >= Cardinality(Since(q, ConnectsIn(q, d), at - (ConnectWindow - lag)))
          /\ Len(kept) <= Cardinality(Since(q, ConnectsIn(q, d), at - (ConnectWindow + lag)))
      BY <1>5, <1>6, <1>9, <1>13, <1>14, <2>1, PrunedIsCounted
    <3> QED
      BY <1>1, <2>4, <2>5, <3>1
  <2>7. /\ last'.events >= Cardinality(EventsWithin(EventWindow - lag)')
        /\ last'.events <= Cardinality(EventsWithin(EventWindow + lag)')
    <3>1. /\ Len(keptEvents) >= Cardinality(Since(q, EventsIn(q, d), at - (EventWindow - lag)))
          /\ Len(keptEvents) <= Cardinality(Since(q, EventsIn(q, d), at - (EventWindow + lag)))
      BY <1>5, <1>6, <1>10, <1>13, <1>14, <2>1, PrunedIsCounted
    <3> QED
      BY <1>1, <2>4, <2>5, <3>1
  <2>8. /\ last'.new >= Cardinality(NewWithin(NewWindow - lag)')
        /\ last'.new <= Cardinality(NewWithin(NewWindow + lag)')
    <3>1. /\ Cardinality(ids) >= Cardinality(IdsOf(q, Since(q, FirstsIn(q), at - (NewWindow - lag))))
          /\ Cardinality(ids) <= Cardinality(IdsOf(q, Since(q, FirstsIn(q), at - (NewWindow + lag))))
      BY <1>5, <1>6, <1>11, <1>13, <1>14, <2>1, PrunedIdsAreCounted DEF ids
    <3> QED
      BY <1>1, <2>4, <2>5, <3>1
  <2> QED
    BY <2>6, <2>7, <2>8 DEF CountedBy
<1>16. Counted'
  <2>1. ASSUME NEW list \in Seq(Kept), NEW S \in SUBSET DOMAIN q, NEW window,
               IsPruned(list, q, S, window)
        PROVE  Len(list) \in 0 .. N /\ Cardinality({list[i].id : i \in DOMAIN list}) \in 0 .. N
    <3>1. PICK T \in SUBSET S : Enumerates(list, q, T)
      BY <2>1 DEF IsPruned
    <3>2. T \in SUBSET DOMAIN q /\ T \in SUBSET Int
      BY <1>13
    <3>3. IsFiniteSet(T) /\ Cardinality(T) = Len(list) /\ Cardinality(T) \in Nat
      BY <3>1, <3>2, ListedIsCounted, FS_CardinalityType
    <3>4. Cardinality(T) <= N
      BY <1>5, <1>13, <3>2, PastIsFinite DEF Kind
    <3>5. {list[i].id : i \in DOMAIN list} = IdsOf(q, T)
      <4>1. PICK f \in [DOMAIN list -> T] :
              /\ \A k \in T : \E i \in DOMAIN list : f[i] = k
              /\ \A i \in DOMAIN list : list[i] = Mark(q[f[i]])
        BY <3>1 DEF Enumerates
      <4>2. \A i \in DOMAIN list : f[i] \in T /\ list[i].id = q[f[i]].id
        BY <4>1 DEF Mark
      <4> QED
        BY <4>1, <4>2 DEF IdsOf
    <3>6. Cardinality(IdsOf(q, T)) \in Nat /\ Cardinality(IdsOf(q, T)) <= Cardinality(T)
      BY <3>3, IdsAreFinite
    <3>7. Len(list) \in 0 .. N /\ Cardinality(IdsOf(q, T)) \in 0 .. N
      BY <1>13, <3>3, <3>4, <3>6
    <3> QED
      BY <3>5, <3>7
  <2>2. Len(kept) \in 0 .. N /\ Len(keptEvents) \in 0 .. N
    BY <1>9, <1>10, <1>14, <2>1
  <2>3. Cardinality(ids) \in 0 .. N
    BY <1>11, <1>14, <2>1 DEF ids
  <2> QED
    BY <1>1, <1>13, <2>2, <2>3 DEF Counted
<1> QED
  BY <1>12, <1>15, <1>16

LEMMA AlwaysExact == Spec => [](WInv /\ AllCounted /\ Counted)
<1> DEFINE Inv == WInv /\ AllCounted /\ Counted
<1>1. Inv /\ [Next]_vars => Inv'
  <2> SUFFICES ASSUME Inv, [Next]_vars PROVE Inv'
    OBVIOUS
  <2>1. CASE UNCHANGED vars
    <3>1. \A w : /\ ConnectsWithin(w)' = ConnectsWithin(w) /\ EventsWithin(w)' = EventsWithin(w)
                 /\ NewWithin(w)' = NewWithin(w)
      BY <2>1 DEF vars, ConnectsWithin, EventsWithin, NewWithin, Mine, Within
    <3>2. \A lag : /\ CountedBy(lag)' <=> CountedBy(lag)
                   /\ Behind(Len(past), lag)' <=> Behind(Len(past), lag)
      BY <2>1, <3>1 DEF vars, CountedBy, Behind
    <3>3. AllCounted'
      BY <2>1, <3>2 DEF vars, AllCounted
    <3> QED
      BY <2>1, <3>3 DEF vars, WInv, Counted
  <2>2. CASE Next
    <3>1. PICK d \in Device, at \in 0 .. MaxTime : Connect(d, at) \/ Disconnect(d, at)
      BY <2>2 DEF Next
    <3>2. CASE Connect(d, at)
      <4>1. PICK first \in BOOLEAN, facts \in FactSet : Analyze(d, "CONNECT", at, first, facts)
        BY <3>2 DEF Connect
      <4> QED
        BY <4>1, AnalyzeIsExact
    <3>3. CASE Disconnect(d, at)
      <4>1. Analyze(d, "DISCONNECT", at, FALSE, {}) /\ FALSE \in BOOLEAN
        BY <3>3 DEF Disconnect
      <4> QED
        BY <4>1, AnalyzeIsExact
    <3> QED
      BY <3>1, <3>2, <3>3
  <2> QED
    BY <2>1, <2>2
<1> QED
  BY <1>1, WInvHolds, PTL DEF Spec

(* The counts the rules see are those of the windows, for any windows and   *)
(* any order of the times: off by what the times went back, exact while     *)
(* they do not (AnomalyTracker.record).                                     *)
THEOREM CountsAreExact == Spec => []WindowsAreExact
<1>1. WInv /\ AllCounted => WindowsAreExact
  <2> SUFFICES ASSUME WInv, AllCounted, past # <<>> PROVE CountedBy(Lag(Len(past)))
    BY DEF WindowsAreExact
  <2>1. Kind(past) /\ Len(past) \in DOMAIN past
    BY DEF WInv, Kind
  <2> QED
    BY <2>1, LagBehind DEF AllCounted
<1> QED
  BY <1>1, AlwaysExact, PTL

(* Types of the tracker and of the assessment; the counts are bounded by    *)
(* the number of events.                                                    *)
THEOREM TypeCorrect == Spec => []TypeOK
<1>1. WInv /\ Counted /\ Scored => TypeOK
  <2> SUFFICES ASSUME WInv, Counted, Scored PROVE TypeOK
    OBVIOUS
  <2>1. \A rules : Score(rules) \in 0 .. 100
    BY DEF Score, Clamp, Total, Points, RuleScore
  <2>2. last.risk \in [rules : SUBSET RuleId, score : 0 .. 100,
                       level : {"none", "LOW", "MEDIUM", "HIGH", "CRITICAL"}]
    <3>1. CASE last.risk = NoAssessment
      BY <3>1 DEF NoAssessment
    <3>2. CASE \E rules \in SUBSET RuleId : last.risk = EvaluateRisk(rules)
      BY <2>1, <3>2 DEF EvaluateRisk, LevelOf
    <3> QED
      BY <3>1, <3>2 DEF Scored
  <2> QED
    BY <2>2 DEF WInv, Counted, TypeOK, Kind, PastEvent
<1> QED
  BY <1>1, AlwaysExact, AlwaysScored, PTL

-----------------------------------------------------------------------------
(* The verdicts.  What analyze() says of a CONNECT, in the words of the     *)
(* past: its rules are the windows that end with it, within the lag.        *)
Level == {"LOW", "MEDIUM", "HIGH", "CRITICAL"}

JudgedBy(n, risk) ==
  /\ risk.level \in Level
  /\ "FIRST_SEEN_DEVICE" \in risk.rules <=> past[n].first
  /\ \A lag \in 0 .. MaxTime : Behind(n, lag) =>
       /\ IsOneOfManyNew(n, -lag) => "MULTIPLE_NEW_DEVICES" \in risk.rules
       /\ "MULTIPLE_NEW_DEVICES" \in risk.rules => IsOneOfManyNew(n, lag)
       /\ IsFlapping(n, -lag) => {"RAPID_RECONNECT", "REPEATED_EVENTS"} \cap risk.rules # {}
       /\ {"RAPID_RECONNECT", "REPEATED_EVENTS"} \cap risk.rules # {} => IsFlapping(n, lag)

LEMMA FiringRules ==
  ASSUME NEW facts \in SUBSET Fact, NEW first \in BOOLEAN, NEW snapshot
  PROVE  LET rules == Rules(facts, first, snapshot)
         IN  /\ "FIRST_SEEN_DEVICE" \in rules <=> first
             /\ "MULTIPLE_NEW_DEVICES" \in rules <=> first /\ snapshot.new >= MinNew
             /\ "RAPID_RECONNECT" \in rules <=> snapshot.connects >= MinConnects
             /\ "REPEATED_EVENTS" \in rules <=> snapshot.events >= MinEvents
<1>1. \A f \in Fact : RuleOf[f] \notin {"FIRST_SEEN_DEVICE", "MULTIPLE_NEW_DEVICES",
                                        "RAPID_RECONNECT", "REPEATED_EVENTS"}
  BY DEF Fact, EventFact, PreviousFact, RuleOf
<1> QED
  BY <1>1 DEF Rules, Fires

LEMMA ConnectIsJudged ==
  ASSUME WInv, (WInv /\ AllCounted /\ Counted)', NEW d \in Device, NEW at \in 0 .. MaxTime, Connect(d, at)
  PROVE  \E e \in PastEvent : \E n \in Nat :
           /\ e.id = d /\ e.at = at /\ e.type = "CONNECT"
           /\ past' = Append(past, e) /\ n = Len(past) + 1
           /\ JudgedBy(n, last.risk)'
<1>1. PICK first \in BOOLEAN, facts \in FactSet : Analyze(d, "CONNECT", at, first, facts)
  BY DEF Connect
<1> DEFINE e == [id |-> d, type |-> "CONNECT", at |-> at, first |-> first]
<1>2. PICK snapshot :
        /\ last'.connects = snapshot.connects /\ last'.events = snapshot.events
        /\ last'.new = snapshot.new
        /\ last'.risk = EvaluateRisk(Rules(facts, first, snapshot))
  BY <1>1 DEF Analyze
<1>3. past' = Append(past, e)
  BY <1>1 DEF Analyze
<1>4. MaxTime \in Nat /\ {MinConnects, MinEvents, MinNew} \subseteq Nat
  BY AnalyzerAssumption
<1>5. e \in PastEvent
  BY DEF PastEvent
<1>6. PICK n \in Nat : n = Len(past) + 1
  BY DEF WInv, Kind
<1>7. /\ DOMAIN past' = 1 .. n /\ Len(past') = n /\ past' # <<>> /\ past'[n] = e
      /\ \A k \in 1 .. n : past'[k] \in PastEvent
  <2>1. past \in Seq(PastEvent)
    BY DEF WInv, Kind
  <2> QED
    BY <1>3, <1>5, <1>6, <2>1
<1>8. e.id = d /\ e.type = "CONNECT" /\ e.at = at /\ e.first = first
  OBVIOUS
<1> HIDE DEF e
<1>9. \A w : \A m \in DOMAIN past' : Near(m, n, w)' <=> Within(m, w)'
  BY <1>7 DEF Near, Within
<1>10. \A w : /\ NewWithin(w)' = {past'[k].id : k \in {m \in DOMAIN past' : past'[m].first /\ Near(m, n, w)'}}
              /\ ConnectsWithin(w)' = {m \in DOMAIN past' : past'[m].id = past'[n].id /\ IsConnect(m)' /\ Near(m, n, w)'}
              /\ EventsWithin(w)' = {m \in DOMAIN past' : past'[m].id = past'[n].id /\ Near(m, n, w)'}
  BY <1>7, <1>9 DEF NewWithin, ConnectsWithin, EventsWithin, Mine, IsConnect
<1>11. \A x : /\ NewBy(n, x)' = NewWithin(NewWindow + x)'
              /\ ConnectsBy(n, x)' = ConnectsWithin(ConnectWindow + x)'
              /\ EventsBy(n, x)' = EventsWithin(EventWindow + x)'
  BY <1>10 DEF NewBy, ConnectsBy, EventsBy
<1>12. \A w : /\ Cardinality(NewWithin(w)') \in Nat /\ Cardinality(ConnectsWithin(w)') \in Nat
              /\ Cardinality(EventsWithin(w)') \in Nat
  <2>1. past' \in Seq(PastEvent)
    BY DEF WInv, Kind
  <2>2. \A S : S \in SUBSET DOMAIN past' => IsFiniteSet(S) /\ Cardinality(S) \in Nat
    BY <2>1, PastIsFinite
  <2>3. \A w : NewWithin(w)' = IdsOf(past', {m \in DOMAIN past' : past'[m].first /\ Within(m, w)'})
    BY DEF NewWithin, IdsOf
  <2>4. \A w : Cardinality(NewWithin(w)') \in Nat
    BY <2>2, <2>3, IdsAreFinite
  <2> QED
    BY <2>2, <2>4 DEF ConnectsWithin, EventsWithin
<1>13. ASSUME NEW lag \in 0 .. MaxTime, Behind(n, lag)'
       PROVE  /\ snapshot.new >= Cardinality(NewBy(n, -lag)') /\ snapshot.new <= Cardinality(NewBy(n, lag)')
              /\ snapshot.connects >= Cardinality(ConnectsBy(n, -lag)')
              /\ snapshot.connects <= Cardinality(ConnectsBy(n, lag)')
              /\ snapshot.events >= Cardinality(EventsBy(n, -lag)')
              /\ snapshot.events <= Cardinality(EventsBy(n, lag)')
  <2>1. CountedBy(lag)'
    BY <1>7, <1>13 DEF AllCounted
  <2>2. /\ NewWindow + (-lag) = NewWindow - lag /\ ConnectWindow + (-lag) = ConnectWindow - lag
        /\ EventWindow + (-lag) = EventWindow - lag
    BY <1>4, AnalyzerAssumption
  <2> QED
    BY <1>2, <1>11, <2>1, <2>2 DEF CountedBy
<1>14. facts \in SUBSET Fact
  BY AnalyzerAssumption
<1>15. last'.risk.rules = Rules(facts, first, snapshot) /\ last'.risk.level \in Level
  BY <1>2 DEF EvaluateRisk, LevelOf, Level
<1>16. {snapshot.new, snapshot.connects, snapshot.events} \subseteq Int
  BY <1>2, <1>7 DEF Counted
<1>17. ASSUME NEW lag \in 0 .. MaxTime, Behind(n, lag)'
       PROVE  /\ IsOneOfManyNew(n, -lag)' => first /\ snapshot.new >= MinNew
              /\ first /\ snapshot.new >= MinNew => IsOneOfManyNew(n, lag)'
              /\ IsFlapping(n, -lag)' => snapshot.connects >= MinConnects \/ snapshot.events >= MinEvents
              /\ snapshot.connects >= MinConnects \/ snapshot.events >= MinEvents => IsFlapping(n, lag)'
  <2>1. /\ Cardinality(NewBy(n, -lag)') \in Nat /\ Cardinality(NewBy(n, lag)') \in Nat
        /\ Cardinality(ConnectsBy(n, -lag)') \in Nat /\ Cardinality(ConnectsBy(n, lag)') \in Nat
        /\ Cardinality(EventsBy(n, -lag)') \in Nat /\ Cardinality(EventsBy(n, lag)') \in Nat
    BY <1>11, <1>12
  <2>2. /\ snapshot.new >= Cardinality(NewBy(n, -lag)') /\ snapshot.new <= Cardinality(NewBy(n, lag)')
        /\ snapshot.connects >= Cardinality(ConnectsBy(n, -lag)')
        /\ snapshot.connects <= Cardinality(ConnectsBy(n, lag)')
        /\ snapshot.events >= Cardinality(EventsBy(n, -lag)')
        /\ snapshot.events <= Cardinality(EventsBy(n, lag)')
    BY <1>13, <1>17
  <2>3. IsConnect(n)' /\ (past'[n].first <=> first)
    BY <1>7, <1>8 DEF IsConnect
  <2>4. /\ IsOneOfManyNew(n, -lag)' <=> first /\ Cardinality(NewBy(n, -lag)') >= MinNew
        /\ IsOneOfManyNew(n, lag)' <=> first /\ Cardinality(NewBy(n, lag)') >= MinNew
        /\ IsFlapping(n, -lag)' <=> \/ Cardinality(ConnectsBy(n, -lag)') >= MinConnects
                                   \/ Cardinality(EventsBy(n, -lag)') >= MinEvents
        /\ IsFlapping(n, lag)' <=> \/ Cardinality(ConnectsBy(n, lag)') >= MinConnects
                                  \/ Cardinality(EventsBy(n, lag)') >= MinEvents
    BY <2>3 DEF IsOneOfManyNew, IsFlapping
  <2> QED
    BY <1>4, <1>16, <2>1, <2>2, <2>4
<1>18. past'[n].first <=> first
  BY <1>7, <1>8
<1>19. JudgedBy(n, last.risk)'
  <2>1. PICK rules : rules = last'.risk.rules
    OBVIOUS
  <2>2. /\ "FIRST_SEEN_DEVICE" \in rules <=> first
        /\ "MULTIPLE_NEW_DEVICES" \in rules <=> first /\ snapshot.new >= MinNew
        /\ {"RAPID_RECONNECT", "REPEATED_EVENTS"} \cap rules # {}
              <=> snapshot.connects >= MinConnects \/ snapshot.events >= MinEvents
    BY <1>14, <1>15, <2>1, FiringRules
  <2> QED
    BY <1>15, <1>17, <1>18, <2>1, <2>2 DEF JudgedBy
<1> QED
  BY <1>3, <1>5, <1>6, <1>8, <1>19

(* What was counted up to an event stays so.                                *)
LEMMA PastStands ==
  ASSUME Kind(past), NEW e \in PastEvent, past' = Append(past, e), NEW k \in DOMAIN past
  PROVE  /\ k \in DOMAIN past' /\ past'[k] = past[k]
         /\ IsConnect(k)' <=> IsConnect(k)
         /\ \A lag : Behind(k, lag)' <=> Behind(k, lag)
         /\ \A slack : /\ IsOneOfManyNew(k, slack)' <=> IsOneOfManyNew(k, slack)
                       /\ IsFlapping(k, slack)' <=> IsFlapping(k, slack)
<1>1. /\ DOMAIN past = 1 .. Len(past) /\ DOMAIN past' = 1 .. Len(past) + 1 /\ Len(past) \in Nat
      /\ \A j \in DOMAIN past : j \in DOMAIN past' /\ past'[j] = past[j]
  BY DEF Kind
<1>2. \A w : \A m \in DOMAIN past' : Near(m, k, w)' <=> m \in DOMAIN past /\ Near(m, k, w)
  BY <1>1 DEF Near
<1>3. ASSUME NEW x
      PROVE  /\ NewBy(k, x)' = NewBy(k, x) /\ ConnectsBy(k, x)' = ConnectsBy(k, x)
             /\ EventsBy(k, x)' = EventsBy(k, x)
  <2>1. {m \in DOMAIN past' : past'[m].first /\ Near(m, k, NewWindow + x)'}
          = {m \in DOMAIN past : past[m].first /\ Near(m, k, NewWindow + x)}
    BY <1>1, <1>2
  <2>2. NewBy(k, x)' = NewBy(k, x)
    BY <1>1, <2>1 DEF NewBy
  <2>3. ConnectsBy(k, x)' = ConnectsBy(k, x)
    BY <1>1, <1>2 DEF ConnectsBy, IsConnect
  <2>4. EventsBy(k, x)' = EventsBy(k, x)
    BY <1>1, <1>2 DEF EventsBy
  <2> QED
    BY <2>2, <2>3, <2>4
<1>4. IsConnect(k)' <=> IsConnect(k)
  BY <1>1 DEF IsConnect
<1>5. \A slack : /\ IsOneOfManyNew(k, slack)' <=> IsOneOfManyNew(k, slack)
                 /\ IsFlapping(k, slack)' <=> IsFlapping(k, slack)
  BY <1>1, <1>3, <1>4 DEF IsOneOfManyNew, IsFlapping
<1>6. \A lag : Behind(k, lag)' <=> Behind(k, lag)
  <2>1. \A i \in 1 .. k : i \in DOMAIN past
    BY <1>1
  <2> QED
    BY <1>1, <2>1 DEF Behind
<1> QED
  BY <1>1, <1>4, <1>5, <1>6

-----------------------------------------------------------------------------
(* The alerts.  Each cooldown entry is an alert that was given.              *)
Assessments == [level : Level, rules : SUBSET Notable]

EntriesTold ==
  /\ emitted \in Seq(Alerts!Alert)
  /\ entries \in [Alerts!Fingerprint -> Alerts!Entry \cup {Alerts!NoEntry}]
  /\ \A fp \in Alerts!Fingerprint : entries[fp] # Alerts!NoEntry =>
       \E i \in DOMAIN emitted :
         /\ emitted[i].fp = fp
         /\ emitted[i].severity = entries[fp].severity
         /\ emitted[i].when = entries[fp].when

LEMMA Ranks == \A s \in Alerts!Severity : Alerts!SeverityRank[s] \in Nat
  BY DEF Alerts!Severity, Alerts!SeverityRank

LEMMA SomeEntry == Alerts!NoEntry \notin Alerts!Entry
<1>1. Alerts!NoEntry.severity \notin Alerts!Severity
  BY DEF Alerts!NoEntry, Alerts!Severity
<1> QED
  BY <1>1 DEF Alerts!Entry

(* _build_candidate in the words of the rules.                              *)
LEMMA Candidates ==
  ASSUME NEW d \in Device, NEW a \in Assessments, NEW c, c = Alerts!BuildCandidate(d, a),
         c # Alerts!NoCandidate
  PROVE  /\ <<c[1], c[2]>> \in Alerts!Fingerprint /\ c[3] \in Alerts!Severity
         /\ c[1] \in {d, Host}
         /\ c[2] = "multiple_new" => "MULTIPLE_NEW_DEVICES" \in a.rules
         /\ c[2] = "flap" => {"RAPID_RECONNECT", "REPEATED_EVENTS"} \cap a.rules # {}
         /\ c[2] = "first_seen" => "FIRST_SEEN_DEVICE" \in a.rules
BY DEF Alerts!BuildCandidate, Alerts!NoCandidate, Alerts!Fingerprint, Alerts!Key,
       Alerts!AlertClass, Alerts!Severity

(* And which candidates the rules leave.                                    *)
LEMMA Answers ==
  ASSUME NEW d \in Device, NEW a \in Assessments, NEW c, c = Alerts!BuildCandidate(d, a)
  PROVE  /\ c = Alerts!NoCandidate =>
              /\ "MULTIPLE_NEW_DEVICES" \notin a.rules
              /\ {"RAPID_RECONNECT", "REPEATED_EVENTS"} \cap a.rules = {}
         /\ "MULTIPLE_NEW_DEVICES" \in a.rules =>
              \/ c = <<d, "suspicious", "CRITICAL">> \/ c = <<d, "suspicious", "HIGH">>
              \/ c = <<Host, "multiple_new", "MEDIUM">>
         /\ {"RAPID_RECONNECT", "REPEATED_EVENTS"} \cap a.rules # {} =>
              \/ "MULTIPLE_NEW_DEVICES" \in a.rules
              \/ c = <<d, "suspicious", "CRITICAL">> \/ c = <<d, "suspicious", "HIGH">>
              \/ c = <<d, "elevated", "MEDIUM">> \/ c = <<d, "flap", "LOW">>
BY DEF Alerts!BuildCandidate, Alerts!NoCandidate, Assessments, Level

(* consider() leaves everything, or has a candidate, which is given or which *)
(* an entry in its cooldown stands for.                                     *)
Gives(alert) ==
  /\ emitted' = Append(emitted, alert)
  /\ entries' = [entries EXCEPT ![alert.fp] = [severity |-> alert.severity, when |-> alert.when]]

StandsFor(alert) ==
  /\ UNCHANGED <<entries, emitted>>
  /\ entries[alert.fp] # Alerts!NoEntry
  /\ alert.when < entries[alert.fp].when + Cooldown
  /\ ~(Alerts!SeverityRank[alert.severity] > Alerts!SeverityRank[entries[alert.fp].severity])

Outcome(d, at, a) ==
  \/ Alerts!BuildCandidate(d, a) = Alerts!NoCandidate /\ UNCHANGED <<entries, emitted>>
  \/ \E c : \E alert \in Alerts!Alert :
       /\ c = Alerts!BuildCandidate(d, a) /\ c # Alerts!NoCandidate
       /\ alert.fp = <<c[1], c[2]>> /\ alert.severity = c[3] /\ alert.when = at
       /\ Gives(alert) \/ StandsFor(alert)

LEMMA Considered ==
  ASSUME NEW d \in Device, NEW at \in 0 .. MaxTime, NEW a \in Assessments,
         Alerts!Consider(d, at, a)
  PROVE  Outcome(d, at, a)
<1> DEFINE c == Alerts!BuildCandidate(d, a)
           alert == [fp |-> <<c[1], c[2]>>, severity |-> c[3], when |-> at]
<1>1. CASE c = Alerts!NoCandidate
  BY <1>1 DEF Outcome, Alerts!Consider, Alerts!Ignore, Alerts!vars
<1>2. CASE c # Alerts!NoCandidate
  <2>1. alert \in Alerts!Alert
    <3>1. <<c[1], c[2]>> \in Alerts!Fingerprint /\ c[3] \in Alerts!Severity
      BY <1>2, Candidates
    <3> QED
      BY <3>1 DEF Alerts!Alert, Alerts!Time
  <2>2. IF Alerts!IsRepeat(alert) THEN Alerts!Suppress(alert) ELSE Alerts!Emit(alert)
    BY <1>2 DEF Alerts!Consider
  <2>3. alert.fp = <<c[1], c[2]>> /\ alert.severity = c[3] /\ alert.when = at
    OBVIOUS
  <2> HIDE DEF alert, c
  <2>4. Gives(alert) \/ StandsFor(alert)
    BY <2>2 DEF Gives, StandsFor, Alerts!IsRepeat, Alerts!Suppress, Alerts!Emit,
                Alerts!InCooldown, Alerts!Escalates
  <2> QED
    BY <1>2, <2>1, <2>3, <2>4 DEF c, Outcome
<1> QED
  BY <1>1, <1>2

LEMMA MoreIsEmitted ==
  ASSUME EntriesTold, NEW alert \in Alerts!Alert, Gives(alert)
  PROVE  /\ EntriesTold'
         /\ \A i \in DOMAIN emitted : i \in DOMAIN emitted' /\ emitted'[i] = emitted[i]
         /\ \A i \in DOMAIN emitted' : i \in DOMAIN emitted \/ emitted'[i] = alert
         /\ \E i \in DOMAIN emitted' : emitted'[i] = alert
<1>1. /\ emitted' \in Seq(Alerts!Alert)
      /\ DOMAIN emitted = 1 .. Len(emitted) /\ Len(emitted) \in Nat
      /\ DOMAIN emitted' = 1 .. Len(emitted) + 1
      /\ emitted'[Len(emitted) + 1] = alert
      /\ \A i \in DOMAIN emitted : i \in DOMAIN emitted' /\ emitted'[i] = emitted[i]
  BY DEF EntriesTold, Gives
<1>2. Len(emitted) + 1 \in DOMAIN emitted'
  BY <1>1
<1>3. /\ alert.fp \in Alerts!Fingerprint /\ alert.severity \in Alerts!Severity
      /\ alert.when \in Alerts!Time
  BY DEF Alerts!Alert
<1>4. /\ entries' \in [Alerts!Fingerprint -> Alerts!Entry \cup {Alerts!NoEntry}]
      /\ entries'[alert.fp] = [severity |-> alert.severity, when |-> alert.when]
      /\ \A fp \in Alerts!Fingerprint : fp # alert.fp => entries'[fp] = entries[fp]
  BY <1>3 DEF EntriesTold, Gives, Alerts!Entry
<1>5. ASSUME NEW fp \in Alerts!Fingerprint, entries'[fp] # Alerts!NoEntry
      PROVE  \E i \in DOMAIN emitted' :
               /\ emitted'[i].fp = fp
               /\ emitted'[i].severity = entries'[fp].severity
               /\ emitted'[i].when = entries'[fp].when
  <2>1. CASE fp = alert.fp
    BY <1>1, <1>2, <1>4, <2>1
  <2>2. CASE fp # alert.fp
    <3>1. PICK i \in DOMAIN emitted :
            /\ emitted[i].fp = fp
            /\ emitted[i].severity = entries[fp].severity
            /\ emitted[i].when = entries[fp].when
      BY <1>4, <1>5, <2>2 DEF EntriesTold
    <3> QED
      BY <1>1, <1>4, <2>2, <3>1
  <2> QED
    BY <2>1, <2>2
<1>6. EntriesTold'
  BY <1>1, <1>4, <1>5 DEF EntriesTold
<1> QED
  BY <1>1, <1>2, <1>6

-----------------------------------------------------------------------------
(* What the properties say of an alert and of an event, for any bound of    *)
(* the lag.                                                                 *)
Caused(alert, k) ==
  /\ Names(alert, k)
  /\ alert.fp[2] = "first_seen" => past[k].first
  /\ \A lag \in 0 .. MaxTime : Behind(k, lag) =>
       /\ alert.fp[2] = "multiple_new" => IsOneOfManyNew(k, lag)
       /\ alert.fp[2] = "flap" => IsFlapping(k, lag)

AnsweredBy(k, lag) ==
  LET d == past[k].id
      at == past[k].at
  IN  /\ IsOneOfManyNew(k, -lag) =>
           \/ Heard(<<Host, "multiple_new">>, "MEDIUM", at, lag)
           \/ Heard(<<d, "suspicious">>, "HIGH", at, lag)
      /\ IsFlapping(k, -lag) =>
           \/ IsOneOfManyNew(k, lag)
           \/ Heard(<<d, "suspicious">>, "HIGH", at, lag)
           \/ Heard(<<d, "elevated">>, "MEDIUM", at, lag)
           \/ Heard(<<d, "flap">>, "LOW", at, lag)
Answered(k) == \A lag \in 0 .. MaxTime : Behind(k, lag) => AnsweredBy(k, lag)

WarnInv ==
  /\ EntriesTold /\ unheard \subseteq DOMAIN past
  /\ \A i \in DOMAIN emitted : \E k \in DOMAIN past : Caused(emitted[i], k)
  /\ \A k \in DOMAIN past : k \notin unheard => Answered(k)

LEMMA WarnInvSays == Kind(past) /\ WarnInv => AlertsHaveCause /\ NothingSlips
<1> SUFFICES ASSUME Kind(past), WarnInv PROVE AlertsHaveCause /\ NothingSlips
  OBVIOUS
<1>1. AlertsHaveCause
  <2> SUFFICES ASSUME NEW i \in DOMAIN emitted
               PROVE  \E k \in DOMAIN past :
                        /\ Names(emitted[i], k)
                        /\ CASE emitted[i].fp[2] = "multiple_new" -> IsOneOfManyNew(k, Lag(k))
                             [] emitted[i].fp[2] = "flap" -> IsFlapping(k, Lag(k))
                             [] emitted[i].fp[2] = "first_seen" -> past[k].first
                             [] OTHER -> TRUE
    BY DEF AlertsHaveCause
  <2>1. PICK k \in DOMAIN past : Caused(emitted[i], k)
    BY DEF WarnInv
  <2>2. Lag(k) \in 0 .. MaxTime /\ Behind(k, Lag(k))
    BY LagBehind
  <2> QED
    BY <2>1, <2>2 DEF Caused
<1>2. ASSUME NEW k \in DOMAIN past \ unheard PROVE AnsweredBy(k, Lag(k))
  BY LagBehind DEF WarnInv, Answered
<1> QED
  BY <1>1, <1>2 DEF NothingSlips, AnsweredBy

(* Neither another event nor another alert takes back what was said.        *)
LEMMA WarningsStand ==
  ASSUME Kind(past), WarnInv, NEW e \in PastEvent, past' = Append(past, e),
         unheard' \subseteq unheard \cup {Len(past) + 1}, unheard \subseteq unheard',
         \A i \in DOMAIN emitted : i \in DOMAIN emitted' /\ emitted'[i] = emitted[i]
  PROVE  /\ \A i \in DOMAIN emitted : \E k \in DOMAIN past' : Caused(emitted[i], k)'
         /\ \A k \in DOMAIN past : k \notin unheard => Answered(k)'
<1>1. \A k \in DOMAIN past : k # Len(past) + 1
  BY DEF Kind
<1>2. ASSUME NEW i \in DOMAIN emitted PROVE \E k \in DOMAIN past' : Caused(emitted[i], k)'
  <2>1. PICK k \in DOMAIN past : Caused(emitted[i], k)
    BY DEF WarnInv
  <2>2. /\ k \in DOMAIN past' /\ past'[k] = past[k]
        /\ IsConnect(k)' <=> IsConnect(k)
        /\ \A lag : Behind(k, lag)' <=> Behind(k, lag)
        /\ \A slack : /\ IsOneOfManyNew(k, slack)' <=> IsOneOfManyNew(k, slack)
                      /\ IsFlapping(k, slack)' <=> IsFlapping(k, slack)
    BY PastStands
  <2>3. k \in unheard' => k \in unheard
    BY <1>1
  <2> QED
    BY <2>1, <2>2, <2>3 DEF Caused, Names
<1>3. ASSUME NEW k \in DOMAIN past, k \notin unheard PROVE Answered(k)'
  <2>1. Answered(k)
    BY <1>3 DEF WarnInv
  <2>2. /\ past'[k] = past[k] /\ \A lag : Behind(k, lag)' <=> Behind(k, lag)
        /\ \A slack : /\ IsOneOfManyNew(k, slack)' <=> IsOneOfManyNew(k, slack)
                      /\ IsFlapping(k, slack)' <=> IsFlapping(k, slack)
    BY PastStands
  <2>3. \A fp, s, at, lag : Heard(fp, s, at, lag) => Heard(fp, s, at, lag)'
    BY DEF Heard
  <2>4. \A lag : AnsweredBy(k, lag) => AnsweredBy(k, lag)'
    BY <2>2, <2>3 DEF AnsweredBy
  <2> QED
    BY <2>1, <2>2, <2>4 DEF Answered
<1> QED
  BY <1>2, <1>3

(* A candidate is heard, given now or stood for.                            *)
LEMMA CandidateIsHeard ==
  ASSUME Kind(past), WarnInv, NEW e \in PastEvent, past' = Append(past, e),
         NEW n, n = Len(past) + 1, NEW lag \in 0 .. MaxTime, Behind(n, lag)',
         NEW alert \in Alerts!Alert, alert.when = e.at, Gives(alert) \/ StandsFor(alert),
         NEW fp, NEW s \in Alerts!Severity, alert.fp = fp,
         Alerts!SeverityRank[alert.severity] >= Alerts!SeverityRank[s]
  PROVE  Heard(fp, s, e.at, lag)'
<1>1. /\ alert.fp \in Alerts!Fingerprint /\ alert.severity \in Alerts!Severity
      /\ alert.when \in Nat
  BY AnalyzerAssumption DEF Alerts!Alert, Alerts!Time
<1>2. CASE Gives(alert)
  <2>1. PICK i \in DOMAIN emitted' : emitted'[i] = alert
    BY <1>2, MoreIsEmitted DEF WarnInv
  <2> QED
    BY <1>1, <2>1 DEF Heard
<1>3. CASE StandsFor(alert)
  <2>1. PICK i \in DOMAIN emitted :
          /\ emitted[i].fp = alert.fp
          /\ emitted[i].severity = entries[alert.fp].severity
          /\ emitted[i].when = entries[alert.fp].when
    BY <1>1, <1>3 DEF WarnInv, EntriesTold, StandsFor
  <2>2. emitted[i] \in Alerts!Alert
    BY DEF WarnInv, EntriesTold
  <2>3. emitted[i].when \in Nat /\ emitted[i].severity \in Alerts!Severity
    BY <2>2, AnalyzerAssumption DEF Alerts!Alert, Alerts!Time
  <2>4. PICK k \in DOMAIN past : emitted[i].when = past[k].at
    BY DEF WarnInv, Caused, Names
  <2>5. emitted[i].when <= e.at + lag
    <3>1. /\ k \in 1 .. n /\ n \in 1 .. n /\ k <= n
          /\ past'[k] = past[k] /\ past'[n] = e
      BY DEF Kind
    <3>2. past'[k].at - past'[n].at <= lag
      BY <3>1 DEF Behind
    <3>3. lag \in Int /\ e.at \in Int
      BY <1>1
    <3> QED
      BY <2>3, <2>4, <3>1, <3>2, <3>3
  <2>6. /\ Alerts!SeverityRank[emitted[i].severity] \in Nat /\ Alerts!SeverityRank[s] \in Nat
        /\ Alerts!SeverityRank[alert.severity] \in Nat
    BY <1>1, <2>3, Ranks
  <2>7. Alerts!SeverityRank[emitted[i].severity] >= Alerts!SeverityRank[s]
    BY <1>3, <2>1, <2>6 DEF StandsFor
  <2>8. e.at < emitted[i].when + Cooldown /\ emitted' = emitted
    BY <1>3, <2>1 DEF StandsFor
  <2> QED
    BY <2>1, <2>5, <2>7, <2>8 DEF Heard
<1> QED
  BY <1>2, <1>3

LEMMA WarnInvHolds == WarningsInit => WarnInv
<1> SUFFICES ASSUME WarningsInit PROVE WarnInv
  OBVIOUS
<1>1. /\ emitted = <<>> /\ unheard = {} /\ past = <<>>
      /\ entries = [fp \in Alerts!Fingerprint |-> Alerts!NoEntry]
  BY DEF WarningsInit, Init, Alerts!Init
<1>2. DOMAIN emitted = {} /\ DOMAIN past = {} /\ emitted \in Seq(Alerts!Alert)
  BY <1>1
<1>3. EntriesTold
  BY <1>1, <1>2 DEF EntriesTold
<1> QED
  BY <1>1, <1>2, <1>3 DEF WarnInv

(* A step without an alert: what was said stands.                           *)
LEMMA SilentStep ==
  ASSUME Kind(past), WarnInv, NEW e \in PastEvent, NEW n, n = Len(past) + 1,
         past' = Append(past, e), UNCHANGED <<entries, emitted>>,
         unheard' = unheard \/ unheard' = unheard \cup {n},
         n \in unheard' \/ Answered(n)'
  PROVE  WarnInv'
<1>1. DOMAIN past' = DOMAIN past \cup {n}
  BY DEF Kind
<1>2. /\ \A i \in DOMAIN emitted : \E k \in DOMAIN past' : Caused(emitted[i], k)'
      /\ \A k \in DOMAIN past : k \notin unheard => Answered(k)'
  BY WarningsStand
<1>3. \A i \in DOMAIN emitted' : \E k \in DOMAIN past' : Caused(emitted[i], k)'
  BY <1>2
<1>4. \A k \in DOMAIN past' : k \notin unheard' => Answered(k)'
  BY <1>1, <1>2
<1>5. EntriesTold' /\ unheard' \subseteq DOMAIN past'
  BY <1>1 DEF WarnInv, EntriesTold
<1> QED
  BY <1>3, <1>4, <1>5 DEF WarnInv

(* A CONNECT whose assessment is considered.                                *)
LEMMA ConsideredStep ==
  ASSUME Kind(past), WarnInv, NEW e \in PastEvent, NEW n, n = Len(past) + 1,
         e.type = "CONNECT", past' = Append(past, e),
         JudgedBy(n, last.risk)', Alerts!Consider(e.id, e.at, Judged(last'.risk)),
         unheard' = unheard
  PROVE  WarnInv'
<1>a. PICK a : a = Judged(last'.risk)
  OBVIOUS
<1>d. PICK d \in Device : d = e.id
  BY DEF PastEvent
<1>1. /\ DOMAIN past' = DOMAIN past \cup {n} /\ n \notin DOMAIN past /\ n \in DOMAIN past'
      /\ past'[n] = e
  BY DEF Kind
<1>2. /\ a \in Assessments
      /\ "FIRST_SEEN_DEVICE" \in a.rules <=> e.first
      /\ \A lag \in 0 .. MaxTime : Behind(n, lag)' =>
           /\ IsOneOfManyNew(n, -lag)' => "MULTIPLE_NEW_DEVICES" \in a.rules
           /\ "MULTIPLE_NEW_DEVICES" \in a.rules => IsOneOfManyNew(n, lag)'
           /\ IsFlapping(n, -lag)' => {"RAPID_RECONNECT", "REPEATED_EVENTS"} \cap a.rules # {}
           /\ {"RAPID_RECONNECT", "REPEATED_EVENTS"} \cap a.rules # {} => IsFlapping(n, lag)'
  <2>1. /\ "FIRST_SEEN_DEVICE" \in a.rules <=> "FIRST_SEEN_DEVICE" \in last'.risk.rules
        /\ "MULTIPLE_NEW_DEVICES" \in a.rules <=> "MULTIPLE_NEW_DEVICES" \in last'.risk.rules
        /\ {"RAPID_RECONNECT", "REPEATED_EVENTS"} \cap a.rules
             = {"RAPID_RECONNECT", "REPEATED_EVENTS"} \cap last'.risk.rules
    BY <1>a DEF Judged, Notable
  <2>2. a \in Assessments
    BY <1>a DEF JudgedBy, Judged, Assessments
  <2> QED
    BY <1>1, <2>1, <2>2 DEF JudgedBy
<1>3. e.at \in 0 .. MaxTime /\ Alerts!Consider(d, e.at, a)
  BY <1>a, <1>d DEF PastEvent
<1>4. n \notin unheard'
  BY <1>1 DEF WarnInv
<1>5. CASE Alerts!BuildCandidate(d, a) = Alerts!NoCandidate /\ UNCHANGED <<entries, emitted>>
  <2>1. /\ "MULTIPLE_NEW_DEVICES" \notin a.rules
        /\ {"RAPID_RECONNECT", "REPEATED_EVENTS"} \cap a.rules = {}
    <3>1. PICK c : c = Alerts!BuildCandidate(d, a)
      OBVIOUS
    <3> QED
      BY <1>2, <1>5, <3>1, Answers
  <2>2. ASSUME NEW lag \in 0 .. MaxTime, Behind(n, lag)'
        PROVE  ~IsOneOfManyNew(n, -lag)' /\ ~IsFlapping(n, -lag)'
    BY <1>2, <2>1, <2>2
  <2>3. Answered(n)'
    BY <2>2 DEF Answered, AnsweredBy
  <2> QED
    BY <1>5, <2>3, SilentStep
<1>6. ASSUME NEW c, NEW alert \in Alerts!Alert,
             c = Alerts!BuildCandidate(d, a), c # Alerts!NoCandidate,
             alert.fp = <<c[1], c[2]>>, alert.severity = c[3], alert.when = e.at,
             Gives(alert) \/ StandsFor(alert)
      PROVE  WarnInv'
  <2>1. /\ c[1] \in {d, Host} /\ alert.fp[1] = c[1] /\ alert.fp[2] = c[2]
        /\ c[2] = "multiple_new" => "MULTIPLE_NEW_DEVICES" \in a.rules
        /\ c[2] = "flap" => {"RAPID_RECONNECT", "REPEATED_EVENTS"} \cap a.rules # {}
        /\ c[2] = "first_seen" => "FIRST_SEEN_DEVICE" \in a.rules
    <3>1. a \in Assessments /\ c = Alerts!BuildCandidate(d, a) /\ c # Alerts!NoCandidate
      BY <1>2, <1>6
    <3>2. alert.fp[1] = c[1] /\ alert.fp[2] = c[2]
      BY <1>6
    <3> QED
      BY <3>1, <3>2, Candidates
  <2>2. Caused(alert, n)'
    BY <1>1, <1>2, <1>4, <1>6, <1>d, <2>1 DEF Caused, Names, IsConnect
  <2>3. /\ {"LOW", "MEDIUM", "HIGH", "CRITICAL"} \subseteq Alerts!Severity
        /\ Alerts!SeverityRank["LOW"] = 1 /\ Alerts!SeverityRank["MEDIUM"] = 2
        /\ Alerts!SeverityRank["HIGH"] = 3 /\ Alerts!SeverityRank["CRITICAL"] = 4
    BY DEF Alerts!Severity, Alerts!SeverityRank
  <2>4. ASSUME NEW class, NEW s \in Alerts!Severity, NEW key, c = <<key, class, s>>,
               NEW lag \in 0 .. MaxTime, Behind(n, lag)'
        PROVE  Heard(<<key, class>>, s, e.at, lag)'
    <3>1. Alerts!SeverityRank[alert.severity] >= Alerts!SeverityRank[s]
      BY <1>6, <2>4, Ranks
    <3>2. alert.fp = <<key, class>>
      BY <1>6, <2>4
    <3> QED
      BY <1>6, <2>4, <3>1, <3>2, CandidateIsHeard
  <2>5. ASSUME c = <<d, "suspicious", "CRITICAL">>, NEW lag \in 0 .. MaxTime, Behind(n, lag)'
        PROVE  Heard(<<d, "suspicious">>, "HIGH", e.at, lag)'
    <3>1. Alerts!SeverityRank[alert.severity] >= Alerts!SeverityRank["HIGH"]
      BY <1>6, <2>3, <2>5
    <3>2. alert.fp = <<d, "suspicious">> /\ "HIGH" \in Alerts!Severity
      BY <1>6, <2>3, <2>5
    <3> QED
      BY <1>6, <2>5, <3>1, <3>2, CandidateIsHeard
  <2>6. ASSUME NEW lag \in 0 .. MaxTime, Behind(n, lag)'
        PROVE  /\ IsOneOfManyNew(n, -lag)' => \/ Heard(<<d, "suspicious">>, "HIGH", e.at, lag)'
                                             \/ Heard(<<Host, "multiple_new">>, "MEDIUM", e.at, lag)'
               /\ IsFlapping(n, -lag)' =>
                    \/ IsOneOfManyNew(n, lag)'
                    \/ Heard(<<d, "suspicious">>, "HIGH", e.at, lag)'
                    \/ Heard(<<d, "elevated">>, "MEDIUM", e.at, lag)'
                    \/ Heard(<<d, "flap">>, "LOW", e.at, lag)'
    <3>1. /\ "MULTIPLE_NEW_DEVICES" \in a.rules =>
               \/ c = <<d, "suspicious", "CRITICAL">> \/ c = <<d, "suspicious", "HIGH">>
               \/ c = <<Host, "multiple_new", "MEDIUM">>
          /\ {"RAPID_RECONNECT", "REPEATED_EVENTS"} \cap a.rules # {} =>
               \/ "MULTIPLE_NEW_DEVICES" \in a.rules
               \/ c = <<d, "suspicious", "CRITICAL">> \/ c = <<d, "suspicious", "HIGH">>
               \/ c = <<d, "elevated", "MEDIUM">> \/ c = <<d, "flap", "LOW">>
      BY <1>2, <1>6, Answers
    <3>2. /\ IsOneOfManyNew(n, -lag)' => "MULTIPLE_NEW_DEVICES" \in a.rules
          /\ "MULTIPLE_NEW_DEVICES" \in a.rules => IsOneOfManyNew(n, lag)'
          /\ IsFlapping(n, -lag)' => {"RAPID_RECONNECT", "REPEATED_EVENTS"} \cap a.rules # {}
      BY <1>2, <2>6
    <3> QED
      BY <2>3, <2>4, <2>5, <2>6, <3>1, <3>2
  <2>7. Answered(n)'
    <3>1. past'[n].id = d /\ past'[n].at = e.at
      BY <1>1, <1>d
    <3>2. ASSUME NEW lag \in 0 .. MaxTime, Behind(n, lag)' PROVE AnsweredBy(n, lag)'
      BY <2>6, <3>1, <3>2 DEF AnsweredBy
    <3> QED
      BY <3>2 DEF Answered
  <2>8. CASE StandsFor(alert)
    BY <2>7, <2>8, SilentStep DEF StandsFor
  <2>9. CASE Gives(alert)
    <3>1. /\ EntriesTold'
          /\ \A i \in DOMAIN emitted : i \in DOMAIN emitted' /\ emitted'[i] = emitted[i]
          /\ \A i \in DOMAIN emitted' : i \in DOMAIN emitted \/ emitted'[i] = alert
      BY <2>9, MoreIsEmitted DEF WarnInv
    <3>2. /\ \A i \in DOMAIN emitted : \E k \in DOMAIN past' : Caused(emitted[i], k)'
          /\ \A k \in DOMAIN past : k \notin unheard => Answered(k)'
      BY <3>1, WarningsStand
    <3>3. ASSUME NEW i \in DOMAIN emitted' PROVE \E k \in DOMAIN past' : Caused(emitted[i], k)'
      <4>1. CASE i \in DOMAIN emitted
        BY <3>2, <4>1
      <4>2. CASE emitted'[i] = alert
        BY <1>1, <2>2, <4>2 DEF Caused, Names
      <4> QED
        BY <3>1, <4>1, <4>2
    <3>4. \A k \in DOMAIN past' : k \notin unheard' => Answered(k)'
      BY <1>1, <2>7, <3>2
    <3> QED
      BY <1>1, <3>1, <3>3, <3>4 DEF WarnInv
  <2> QED
    BY <1>6, <2>8, <2>9
<1> QED
  <2>1. PICK at \in 0 .. MaxTime : at = e.at
    BY <1>3
  <2>2. a \in Assessments /\ Alerts!Consider(d, at, a)
    BY <1>2, <1>3, <2>1
  <2>3. Outcome(d, at, a)
    BY <2>2, Considered
  <2> QED
    BY <1>5, <1>6, <2>1, <2>3 DEF Outcome

LEMMA PlugWarns ==
  ASSUME WInv, (WInv /\ AllCounted /\ Counted)', WarnInv, NEW d \in Device, NEW at \in 0 .. MaxTime,
         Plug(d, at)
  PROVE  WarnInv'
<1>1. Kind(past) /\ Connect(d, at)
  BY DEF WInv, Plug
<1>2. PICK e \in PastEvent : \E m \in Nat :
        /\ e.id = d /\ e.at = at /\ e.type = "CONNECT"
        /\ past' = Append(past, e) /\ m = Len(past) + 1
        /\ JudgedBy(m, last.risk)'
  BY <1>1, ConnectIsJudged
<1>3. PICK n \in Nat : n = Len(past) + 1 /\ JudgedBy(n, last.risk)'
  BY <1>2
<1>4. CASE Alerts!Consider(d, at, Judged(last'.risk)) /\ UNCHANGED unheard
  BY <1>1, <1>2, <1>3, <1>4, ConsideredStep
<1>5. CASE unheard' = unheard \cup {Len(past')} /\ UNCHANGED alerting
  <2>1. Len(past') = n
    BY <1>1, <1>2, <1>3 DEF Kind
  <2> QED
    BY <1>1, <1>2, <1>3, <1>5, <2>1, SilentStep DEF alerting
<1> QED
  BY <1>4, <1>5 DEF Plug

LEMMA UnplugWarns ==
  ASSUME WInv, WarnInv, NEW d \in Device, NEW at \in 0 .. MaxTime, Unplug(d, at)
  PROVE  WarnInv'
<1> DEFINE e == [id |-> d, type |-> "DISCONNECT", at |-> at, first |-> FALSE]
<1>1. past' = Append(past, e) /\ Kind(past) /\ UNCHANGED <<entries, emitted, unheard>>
  BY DEF Unplug, Disconnect, Analyze, WInv, alerting
<1>2. e \in PastEvent
  BY DEF PastEvent
<1>3. PICK n : n = Len(past) + 1
  OBVIOUS
<1>4. past'[n] = e
  BY <1>1, <1>2, <1>3 DEF Kind
<1>5. Answered(n)'
  BY <1>4 DEF Answered, AnsweredBy, IsOneOfManyNew, IsFlapping, IsConnect
<1> HIDE DEF e
<1> QED
  BY <1>1, <1>2, <1>3, <1>5, SilentStep

(* The alerts do not disturb the windows.                                   *)
LEMMA ScoringGoesOn == WarningsInit /\ [][WarningsNext]_warningVars => Spec
<1>1. WarningsInit => Init
  BY DEF WarningsInit
<1>2. [WarningsNext]_warningVars => [Next]_vars
  BY DEF WarningsNext, warningVars, Plug, Unplug, Next
<1> QED
  BY <1>1, <1>2, PTL DEF Spec

LEMMA AlwaysWarned == WarningsSpec => []WarnInv
<1>1. WInv /\ (WInv /\ AllCounted /\ Counted)' /\ WarnInv /\ [WarningsNext]_warningVars => WarnInv'
  <2> SUFFICES ASSUME WInv, (WInv /\ AllCounted /\ Counted)', WarnInv, [WarningsNext]_warningVars
               PROVE  WarnInv'
    OBVIOUS
  <2>1. CASE UNCHANGED warningVars
    <3>1. UNCHANGED <<past, entries, emitted, unheard>>
      BY <2>1 DEF warningVars, vars, alerting
    <3>2. \A k, x : Behind(k, x)' <=> Behind(k, x)
      BY <3>1 DEF Behind
    <3>3. \A k, x : /\ IsOneOfManyNew(k, x)' <=> IsOneOfManyNew(k, x)
                    /\ IsFlapping(k, x)' <=> IsFlapping(k, x)
      BY <3>1 DEF IsConnect, IsOneOfManyNew, IsFlapping, NewBy, ConnectsBy, EventsBy, Near
    <3>4. \A fp, s, at, lag : Heard(fp, s, at, lag)' <=> Heard(fp, s, at, lag)
      BY <3>1 DEF Heard
    <3>5. ASSUME NEW alert, NEW k, Caused(alert, k) PROVE Caused(alert, k)'
      <4>1. Names(alert, k)'
        BY <3>1, <3>5 DEF Caused, Names, IsConnect
      <4>2. alert.fp[2] = "first_seen" => past'[k].first
        BY <3>1, <3>5 DEF Caused
      <4> QED
        BY <3>2, <3>3, <3>5, <4>1, <4>2 DEF Caused
    <3>6. ASSUME NEW k, Answered(k) PROVE Answered(k)'
      <4>1. \A lag : AnsweredBy(k, lag) => AnsweredBy(k, lag)'
        BY <3>1, <3>3, <3>4 DEF AnsweredBy
      <4> QED
        BY <3>2, <3>6, <4>1 DEF Answered
    <3>7. \A i \in DOMAIN emitted' : \E k \in DOMAIN past' : Caused(emitted[i], k)'
      BY <3>1, <3>5 DEF WarnInv, Caused, Names
    <3> QED
      BY <3>1, <3>6, <3>7 DEF WarnInv, EntriesTold
  <2>2. CASE WarningsNext
    BY <2>2, PlugWarns, UnplugWarns DEF WarningsNext
  <2> QED
    BY <2>1, <2>2
<1> QED
  BY <1>1, WarnInvHolds, ScoringGoesOn, AlwaysExact, PTL DEF WarningsSpec

(* Every alert is about something that happened: a CONNECT of its device at *)
(* its time, and the windows it names are those of the past, longer by no   *)
(* more than the times went back (_queue_event, _build_candidate).          *)
THEOREM AlertsAreCaused == WarningsSpec => []AlertsHaveCause
<1>1. WInv /\ WarnInv => AlertsHaveCause
  BY WarnInvSays DEF WInv
<1> QED
  BY <1>1, AlwaysWarned, AlwaysExact, ScoringGoesOn, PTL DEF WarningsSpec

(* Several new devices, or a flapping one, are heard of within the          *)
(* cooldown, for any devices, windows, thresholds, cooldown and order of    *)
(* times, if they are so in windows shortened by what the times went back,  *)
(* and whatever was suppressed before.                                      *)
THEOREM NothingSlipsBy == WarningsSpec => []NothingSlips
<1>1. WInv /\ WarnInv => NothingSlips
  BY WarnInvSays DEF WInv
<1> QED
  BY <1>1, AlwaysWarned, AlwaysExact, ScoringGoesOn, PTL DEF WarningsSpec

(* In the composition either part does what its own module says.            *)
THEOREM PartsAreKept == WarningsSpec => Spec /\ Alerts!Spec
<1>1. WarningsInit => Alerts!Init
  BY DEF WarningsInit
<1>2. WInv /\ (WInv /\ AllCounted /\ Counted)' /\ [WarningsNext]_warningVars => [Alerts!Next]_(Alerts!vars)
  <2> SUFFICES ASSUME WInv, (WInv /\ AllCounted /\ Counted)', [WarningsNext]_warningVars
               PROVE  [Alerts!Next]_(Alerts!vars)
    OBVIOUS
  <2>1. CASE UNCHANGED alerting
    BY <2>1 DEF alerting, Alerts!vars
  <2>2. ASSUME NEW d \in Device, NEW at \in 0 .. MaxTime, Connect(d, at),
               Alerts!Consider(d, at, Judged(last'.risk))
        PROVE  Alerts!Next
    <3>1. PICK n \in Nat : JudgedBy(n, last.risk)'
      BY <2>2, ConnectIsJudged
    <3>2. Judged(last'.risk) \in [level : {"LOW", "MEDIUM", "HIGH", "CRITICAL"}, rules : SUBSET Notable]
      BY <3>1 DEF JudgedBy, Judged, Level
    <3>3. at \in Alerts!Time
      BY DEF Alerts!Time
    <3> QED
      BY <2>2, <3>2, <3>3 DEF Alerts!Next
  <2> QED
    BY <2>1, <2>2 DEF WarningsNext, warningVars, Plug, Unplug
<1> QED
  BY <1>1, <1>2, ScoringGoesOn, AlwaysExact, PTL DEF WarningsSpec, Alerts!Spec
=============================================================================

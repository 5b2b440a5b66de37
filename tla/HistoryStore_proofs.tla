------------------------- MODULE HistoryStore_proofs -------------------------
(* The stores' bound, that each history file implements BoundedLog, and     *)
(* what holds between the two files, for every number of readers, every cap *)
(* and every file found at the start.                                       *)
EXTENDS HistoryStore, FiniteSetTheorems, WellFoundedInduction, TLAPS

-----------------------------------------------------------------------------
(* keep_newest.                                                             *)
LEMMA FiniteRecords ==
  ASSUME NEW n \in Nat, NEW S \in SUBSET (1 .. n)
  PROVE  IsFiniteSet(S) /\ Cardinality(S) \in Nat /\ S \subseteq Nat
  <1>1. IsFiniteSet(1 .. n)
    BY FS_Interval
  <1>2. IsFiniteSet(S)
    BY <1>1, FS_Subset
  <1>3. Cardinality(S) \in Nat
    BY <1>2, FS_CardinalityType
  <1> QED BY <1>2, <1>3

LEMMA Least ==
  ASSUME NEW S \in SUBSET Nat, S # {}
  PROVE  \E n \in S : \A m \in S : n <= m
  <1> DEFINE R == {x \in Nat \X Nat : x[1] < x[2]}
  <1>1. IsWellFoundedOn(R, Nat)
    BY NatLessThanWellFounded DEF OpToRel
  <1>2. PICK n \in S : \A m \in S : ~(<<m, n>> \in R)
    BY <1>1, WFMin
  <1>3. ASSUME NEW m \in S PROVE n <= m
    <2>1. m \in Nat /\ n \in Nat /\ (<<m, n>> \in R <=> m < n)
      BY <1>2
    <2> QED BY <1>2, <2>1
  <1> QED BY <1>2, <1>3

LEMMA Smaller ==
  ASSUME NEW S, IsFiniteSet(S), NEW T \in SUBSET S
  PROVE  /\ IsFiniteSet(T) /\ Cardinality(T) \in Nat /\ Cardinality(S) \in Nat
         /\ Cardinality(T) <= Cardinality(S)
         /\ Cardinality(T) = Cardinality(S) => T = S
  BY FS_Subset, FS_CardinalityType

LEMMA NewestIsSome ==
  ASSUME NEW S, NEW count PROVE NewestOf(S, count) \subseteq S
  BY DEF NewestOf

(* A history within its cap is kept whole.                                  *)
LEMMA NewestFits ==
  ASSUME NEW count \in Nat, NEW S \in SUBSET Nat, IsFiniteSet(S), Cardinality(S) <= count
  PROVE  NewestOf(S, count) = S
  <1> SUFFICES ASSUME NEW n \in S PROVE Cardinality({m \in S : m > n}) < count
    BY DEF NewestOf
  <1> DEFINE T == {m \in S : m > n}
  <1>1. T \in SUBSET S /\ T # S
    OBVIOUS
  <1>2. Cardinality(T) < Cardinality(S)
    BY <1>1, Smaller
  <1> QED BY <1>1, <1>2, Smaller

(* What is kept never exceeds the cap.                                      *)
LEMMA NewestBounded ==
  ASSUME NEW count \in Nat, NEW S \in SUBSET Nat, IsFiniteSet(S)
  PROVE  Cardinality(NewestOf(S, count)) <= count
  <1> DEFINE N == NewestOf(S, count)
  <1>1. N \in SUBSET S /\ N \subseteq Nat
    BY NewestIsSome
  <1>2. ASSUME N = {} PROVE Cardinality(N) <= count
    BY <1>2, FS_EmptySet
  <1>3. ASSUME N # {} PROVE Cardinality(N) <= count
    <2>1. PICK n \in N : \A m \in N : n <= m
      BY <1>1, <1>3, Least
    <2> DEFINE T == {m \in S : m > n}
    <2>2. Cardinality(T) < count
      BY <2>1 DEF NewestOf
    <2>3. T \in SUBSET S /\ N \ {n} \in SUBSET T
      BY <1>1, <2>1
    <2>4. IsFiniteSet(T) /\ Cardinality(N \ {n}) <= Cardinality(T) /\ Cardinality(T) \in Nat
      BY <2>3, Smaller
    <2>5. IsFiniteSet(N) /\ Cardinality(N \ {n}) = Cardinality(N) - 1 /\ Cardinality(N) \in Nat
      BY <1>1, <2>1, Smaller, FS_RemoveElement
    <2> HIDE DEF N, T
    <2> QED BY <2>2, <2>4, <2>5
  <1> QED BY <1>2, <1>3

LEMMA NewestTwice ==
  ASSUME NEW count \in Nat, NEW S \in SUBSET Nat, IsFiniteSet(S)
  PROVE  NewestOf(NewestOf(S, count), count) = NewestOf(S, count)
  BY NewestIsSome, NewestFits, NewestBounded, Smaller

(* Appending to a full history drops exactly the oldest record.             *)
LEMMA AppendToFull ==
  ASSUME NEW count \in Nat \ {0}, NEW S \in SUBSET Nat, IsFiniteSet(S),
         Cardinality(S) = count, NEW n \in Nat, \A m \in S : m < n
  PROVE  Cardinality(NewestOf(S \cup {n}, count)) = count
  <1> DEFINE U == S \cup {n}
             N == NewestOf(U, count)
  <1>1. IsFiniteSet(U) /\ Cardinality(U) = count + 1 /\ U \in SUBSET Nat
    BY FS_AddElement
  <1>2. PICK least \in U : \A m \in U : least <= m
    BY <1>1, Least
  <1>3. IsFiniteSet(U \ {least}) /\ Cardinality(U \ {least}) = count
    BY <1>1, <1>2, FS_RemoveElement
  <1>4. ASSUME NEW x \in U \ {least} PROVE x \in N
    <2> DEFINE T == {m \in U : m > x}
    <2>1. T \in SUBSET (U \ {least}) /\ T # U \ {least}
      BY <1>1, <1>2
    <2>2. Cardinality(T) < count
      BY <2>1, <1>3, Smaller
    <2> QED BY <2>2 DEF NewestOf
  <1>5. U \ {least} \in SUBSET N /\ IsFiniteSet(N) /\ Cardinality(N) \in Nat
    BY <1>1, <1>4, NewestIsSome, Smaller
  <1>6. count <= Cardinality(N)
    <2> DEFINE V == U \ {least}
    <2>1. V \in SUBSET N /\ Cardinality(V) = count
      BY <1>3, <1>5
    <2> HIDE DEF V, N
    <2> QED BY <2>1, <1>5, Smaller
  <1>7. Cardinality(N) <= count
    BY <1>1, NewestBounded
  <1> QED BY <1>5, <1>6, <1>7

-----------------------------------------------------------------------------
(* What BoundedLog asks of a step, for either history.                      *)
ExtendsUpTo(cap, old, new) ==
  /\ \A x \in new \ old, y \in old : y < x
  /\ \A x \in old \ new, y \in new : x < y
  /\ old \subseteq new \/ Cardinality(new) = cap

LEMMA SameExtends == \A cap, S : ExtendsUpTo(cap, S, S)
  BY DEF ExtendsUpTo

(* A history that extends another still does after the next append.         *)
LEMMA AppendExtends ==
  ASSUME NEW count \in Nat \ {0}, NEW N \in SUBSET Nat,
         NEW S \in SUBSET Nat, IsFiniteSet(S), Cardinality(S) <= count,
         NEW n \in Nat, \A m \in S \cup N : m < n, ExtendsUpTo(count, N, S)
  PROVE  ExtendsUpTo(count, N, NewestOf(S \cup {n}, count))
  <1> DEFINE U == S \cup {n}
             M == NewestOf(U, count)
  <1>1. M \in SUBSET U /\ U \in SUBSET Nat /\ IsFiniteSet(U) /\ Cardinality(S) \in Nat
    BY NewestIsSome, FS_AddElement, FS_CardinalityType
  <1>2. ASSUME NEW x \in M \ N, NEW y \in N PROVE y < x
    BY <1>1 DEF ExtendsUpTo
  <1>3. ASSUME NEW x \in N \ M, NEW y \in M PROVE x < y
    <2> x \in Nat /\ y \in Nat /\ y \in U
      BY <1>1
    <2>1. CASE x \notin S
      BY <2>1, <1>1 DEF ExtendsUpTo
    <2>2. CASE x \in S
      <3> DEFINE X == {m \in U : m > x}
                 Y == {m \in U : m > y}
      <3>1. SUFFICES ASSUME y <= x PROVE FALSE
        OBVIOUS
      <3>2. X \in SUBSET Y /\ Y \in SUBSET U
        <4>1. ASSUME NEW m \in U, m > x PROVE m > y
          BY <4>1, <3>1, <1>1
        <4> QED BY <4>1
      <3>3. Cardinality(Y) < count /\ ~(Cardinality(X) < count)
        BY <2>2, <1>1 DEF NewestOf
      <3>4. /\ IsFiniteSet(Y) /\ Cardinality(X) <= Cardinality(Y)
            /\ Cardinality(Y) \in Nat /\ Cardinality(X) \in Nat
        BY <1>1, <3>2, Smaller
      <3> HIDE DEF X, Y
      <3> QED BY <3>3, <3>4
    <2> QED BY <2>1, <2>2
  <1>4. N \subseteq M \/ Cardinality(M) = count
    <2>1. CASE Cardinality(S) = count
      BY <2>1, AppendToFull
    <2>2. CASE Cardinality(S) < count
      <3>1. Cardinality(U) = Cardinality(S) + 1
        BY FS_AddElement
      <3>2. M = U
        BY <1>1, <2>2, <3>1, NewestFits
      <3>3. N \subseteq S
        BY <2>2, <1>1 DEF ExtendsUpTo
      <3> QED BY <3>2, <3>3
    <2> QED BY <2>1, <2>2, <1>1
  <1> HIDE DEF M
  <1>5. ExtendsUpTo(count, N, M)
    BY <1>2, <1>3, <1>4 DEF ExtendsUpTo
  <1> QED BY <1>5 DEF M

-----------------------------------------------------------------------------
LEMMA Caps == \A h \in History : MaxRecords[h] \in Nat \ {0}
  BY HistoryAssumption

(* What a load keeps of a file, and what a store holds after an append.     *)
LEMMA KeptTyped ==
  ASSUME NEW h \in History, NEW n \in Nat, NEW S \in SUBSET (1 .. n)
  PROVE  Newest(h, S) \in SUBSET (1 .. n) /\ Cardinality(Newest(h, S)) <= MaxRecords[h]
  <1>1. MaxRecords[h] \in Nat
    BY Caps
  <1>2. Cardinality(NewestOf(S, MaxRecords[h])) <= MaxRecords[h]
    BY <1>1, FiniteRecords, NewestBounded
  <1>3. NewestOf(S, MaxRecords[h]) \subseteq S
    BY NewestIsSome
  <1> QED BY <1>2, <1>3 DEF Newest

LEMMA NextStep ==
  ASSUME NEW h \in History, at \in {<<"load", h>>, <<"trim", h>>, <<"save", h>>}
  PROVE  After(at) \in Step
  BY DEF After, History, Step

LEMMA StepsTyped ==
  /\ Down \in Step /\ Idle \in Step /\ Emitting \in Step
  /\ \A h \in History : <<"load", h>> \in Step /\ <<"trim", h>> \in Step /\ <<"save", h>> \in Step
  BY DEF Step, Saving

Places == {Idle, Shown} \cup ({"load", "save"} \X History)

LEMMA NextPlaces ==
  /\ \A r, h : NextPlace(r, h) \in Places
  /\ \A h \in History : <<"load", h>> \in Places /\ <<"save", h>> \in Places
  BY DEF NextPlace, Places, History

(* Typing and the caps, preserved by every step.                            *)
ReadersTyped ==
  /\ place \in [Reader -> Places]
  /\ wants \in [Reader -> SUBSET History] /\ view \in [Reader -> Records]
  /\ \A h \in History, r \in Reader : Cardinality(view[r][h]) <= MaxRecords[h]
MonitorTyped ==
  /\ told \in Nat /\ memory \in Records /\ at \in Step
  /\ \A h \in History : Cardinality(memory[h]) <= MaxRecords[h]
NotesTyped ==
  /\ file \in Records
  /\ astray \subseteq History /\ behind \subseteq History /\ cut \subseteq 1 .. told
  /\ mishaps \in 0 .. MaxMishaps

(* The event being handled is in no store yet.                              *)
Handling ==
  at \in {<<"save", "alerts">>, Emitting} =>
    /\ told > 0
    /\ told \notin file["events"] \cup memory["events"]
    /\ \A r \in Reader : told \notin view[r]["events"]

LEMMA TypeParts == TypeOK <=> ReadersTyped /\ MonitorTyped /\ NotesTyped
  BY DEF TypeOK, ReadersTyped, MonitorTyped, NotesTyped, Places

LEMMA NothingTyped ==
  Nothing \in Records /\ \A h \in History : Cardinality(Nothing[h]) <= MaxRecords[h]
  BY Caps, FS_EmptySet DEF Nothing, Records

LEMMA InitTyped == Init => TypeOK
  <1> SUFFICES ASSUME Init PROVE ReadersTyped /\ MonitorTyped /\ NotesTyped
    BY TypeParts
  <1>1. ReadersTyped
    BY NothingTyped DEF Init, ReadersTyped, Places
  <1>2. MonitorTyped
    BY NothingTyped, HistoryAssumption, StepsTyped DEF Init, MonitorTyped
  <1>3. NotesTyped
    BY HistoryAssumption DEF Init, NotesTyped, Records
  <1> QED BY <1>1, <1>2, <1>3

LEMMA MishapTyped == ASSUME mishaps \in 0 .. MaxMishaps, Mishap PROVE mishaps' \in 0 .. MaxMishaps
  BY HistoryAssumption DEF Mishap

LEMMA MonitorStepTyped ==
  ASSUME ReadersTyped, MonitorTyped, NotesTyped, Handling, Monitor
  PROVE  MonitorTyped'
  <1>1. CASE Start
    <2>1. at' \in Step
      BY <1>1, StepsTyped DEF Start, History
    <2> QED BY <1>1, <2>1 DEF Start, MonitorTyped, Records
  <1>2. CASE Consider
    <2> DEFINE n == told + 1
    <2>1. told' = n /\ told \in Nat /\ n \in 1 .. n /\ \A h \in History : memory[h] \in SUBSET (1 .. n)
      BY <1>2 DEF Consider, MonitorTyped, Records
    <2>2. CASE Append("alerts", n)
      <3> DEFINE U == memory["alerts"] \cup {n}
      <3>1. U \in SUBSET (1 .. n)
        BY <2>1 DEF History
      <3>2. Newest("alerts", U) \in SUBSET (1 .. n) /\ Cardinality(Newest("alerts", U)) <= MaxRecords["alerts"]
        BY <2>1, <3>1, KeptTyped DEF History
      <3> HIDE DEF U
      <3>3. memory' = [memory EXCEPT !["alerts"] = Newest("alerts", U)] /\ at' = <<"save", "alerts">>
        BY <2>2 DEF Append, U
      <3>4. at' \in Step
        BY <3>3, StepsTyped DEF History
      <3> QED BY <2>1, <3>2, <3>3, <3>4 DEF MonitorTyped, Records, History
    <2>3. CASE at' = Emitting /\ UNCHANGED memory
      <3>1. at' \in Step
        BY <2>3, StepsTyped
      <3> QED BY <2>1, <2>3, <3>1 DEF MonitorTyped, Records
    <2> QED BY <1>2, <2>2, <2>3 DEF Consider
  <1>3. CASE Emit
    <2> DEFINE U == memory["events"] \cup {told}
    <2>1. told \in Nat /\ U \in SUBSET (1 .. told)
      BY <1>3 DEF MonitorTyped, Records, History, Handling, Emit
    <2>2. Newest("events", U) \in SUBSET (1 .. told) /\ Cardinality(Newest("events", U)) <= MaxRecords["events"]
      BY <2>1, KeptTyped DEF History
    <2> HIDE DEF U
    <2>3. /\ memory' = [memory EXCEPT !["events"] = Newest("events", U)] /\ at' = <<"save", "events">>
          /\ told' = told
      BY <1>3 DEF Emit, Append, U
    <2>4. at' \in Step
      BY <2>3, StepsTyped DEF History
    <2> QED BY <2>2, <2>3, <2>4 DEF MonitorTyped, Records, History
  <1>4. CASE End
    BY <1>4, NothingTyped, StepsTyped DEF End, MonitorTyped, Records, Step
  <1>5. ASSUME NEW h \in History, Load(h) PROVE MonitorTyped'
    <2> DEFINE K == Newest(h, file[h])
    <2>1. told \in Nat /\ file[h] \in SUBSET (1 .. told)
      BY DEF MonitorTyped, NotesTyped, Records
    <2>2. K \in SUBSET (1 .. told) /\ Cardinality(K) <= MaxRecords[h]
      BY <2>1, KeptTyped
    <2>3. memory' = [memory EXCEPT ![h] = K] /\ told' = told
      BY <1>5 DEF Load
    <2>4. at' \in Step
      <3>1. After(at) \in Step
        BY <1>5, NextStep DEF Load
      <3> QED BY <1>5, <3>1, StepsTyped DEF Load
    <2> HIDE DEF K
    <2> QED BY <2>2, <2>3, <2>4 DEF MonitorTyped, Records
  <1>6. ASSUME NEW h \in History, Misread(h) \/ Save(h) \/ SaveFails(h) PROVE MonitorTyped'
    <2>1. at' \in Step
      <3>1. After(at) \in Step /\ at' = After(at)
        BY <1>6, NextStep DEF Misread, Save, SaveFails
      <3> QED BY <3>1
    <2> QED BY <1>6, <2>1 DEF Misread, Save, SaveFails, MonitorTyped, Records
  <1> QED BY <1>1, <1>2, <1>3, <1>4, <1>5, <1>6 DEF Monitor

LEMMA MonitorStepKeepsReaders ==
  ASSUME ReadersTyped, MonitorTyped, Monitor
  PROVE  ReadersTyped'
  <1>1. told \in Nat /\ told' \in {told, told + 1} /\ UNCHANGED readers
    BY DEF Monitor, MonitorTyped, Start, Consider, Emit, End, Load, Misread, Save, SaveFails
  <1>2. Records \subseteq Records'
    BY <1>1 DEF Records
  <1> QED BY <1>1, <1>2 DEF ReadersTyped, readers, Places

LEMMA MonitorStepNotes ==
  ASSUME MonitorTyped, NotesTyped, Handling, Monitor
  PROVE  NotesTyped'
  <1>1. /\ told \in Nat /\ memory \in Records /\ file \in Records
        /\ \A h \in History : memory[h] \in SUBSET (1 .. told) /\ file[h] \in SUBSET (1 .. told)
    BY DEF MonitorTyped, NotesTyped, Records
  <1>2. CASE Start \/ Emit
    BY <1>2 DEF Start, Emit, NotesTyped, Records, notes
  <1>3. CASE Consider
    BY <1>1, <1>3 DEF Consider, NotesTyped, Records, notes
  <1>4. CASE End
    <2>1. Owed \in SUBSET (1 .. told)
      BY <1>1 DEF Owed, History, Handling
    <2> QED BY <1>4, <2>1 DEF End, NotesTyped, Records
  <1>5. ASSUME NEW h \in History, Load(h) \/ Misread(h) \/ SaveFails(h) PROVE NotesTyped'
    <2>1. mishaps' \in 0 .. MaxMishaps
      BY <1>5, MishapTyped DEF NotesTyped, Load, Misread, SaveFails
    <2> QED BY <1>5, <2>1 DEF Load, Misread, SaveFails, NotesTyped, Records
  <1>6. ASSUME NEW h \in History, Save(h) PROVE NotesTyped'
    <2>1. file' \in Records /\ told' = told
      BY <1>1, <1>6 DEF Save, Records
    <2>2. cut' \subseteq 1 .. told
      BY <1>6 DEF Save, NotesTyped
    <2> QED BY <1>6, <2>1, <2>2 DEF Save, NotesTyped, Records
  <1> QED BY <1>2, <1>3, <1>4, <1>5, <1>6 DEF Monitor

LEMMA MonitorStepHandling ==
  ASSUME ReadersTyped, MonitorTyped, NotesTyped, Handling, Monitor
  PROVE  Handling'
  <1>1. /\ told \in Nat
        /\ \A h \in History : memory[h] \in SUBSET (1 .. told) /\ file[h] \in SUBSET (1 .. told)
        /\ \A h \in History, r \in Reader : view[r][h] \in SUBSET (1 .. told)
    BY DEF MonitorTyped, NotesTyped, ReadersTyped, Records
  <1>2. CASE Consider
    <2>1. /\ told' = told + 1 /\ file' = file /\ view' = view /\ memory'["events"] = memory["events"]
      BY <1>2 DEF Consider, Append, readers, MonitorTyped, Records, History
    <2> QED BY <1>1, <2>1 DEF Handling, History
  <1>3. CASE Save("alerts") \/ SaveFails("alerts")
    <2>1. /\ told' = told /\ memory' = memory /\ view' = view
          /\ file'["events"] = file["events"]
      BY <1>3 DEF Save, SaveFails, readers, NotesTyped, Records, History
    <2>2. CASE at = <<"save", "alerts">>
      BY <2>1, <2>2 DEF Handling
    <2>3. CASE at = <<"trim", "alerts">>
      BY <1>3, <2>3 DEF Save, SaveFails, After, Handling, Emitting
    <2> QED BY <1>3, <2>2, <2>3 DEF Save, SaveFails
  <1>5. CASE Start \/ Emit \/ End
    BY <1>5 DEF Start, Emit, End, Append, Handling, Emitting, Down
  <1>6. ASSUME NEW h \in History, Load(h) \/ Misread(h) PROVE Handling'
    BY <1>6 DEF Load, Misread, After, Handling, Emitting, Idle, History
  <1>7. CASE Save("events") \/ SaveFails("events")
    BY <1>7 DEF Save, SaveFails, After, Handling, Emitting, Idle
  <1> QED BY <1>2, <1>3, <1>5, <1>6, <1>7 DEF Monitor, History

Typed == ReadersTyped /\ MonitorTyped /\ NotesTyped /\ Handling

LEMMA ReaderStepTyped ==
  ASSUME Typed, NEW r \in Reader, Read(r)
  PROVE  Typed'
  <1>1. told \in Nat /\ \A h \in History : file[h] \in SUBSET (1 .. told) /\ view[r][h] \in SUBSET (1 .. told)
    BY DEF Typed, MonitorTyped, NotesTyped, ReadersTyped, Records
  <1>2. MonitorTyped'
    BY DEF Typed, MonitorTyped, Records, Read, ListEvents, ListAlerts, Status, BuildLocalReport,
           RefreshTables, Ask, LoadView, MisreadView, SaveView, SaveViewFails, Leave, monitor
  <1>3. ASSUME NEW histories \in SUBSET History, Ask(r, histories) PROVE Typed'
    BY <1>2, <1>3, NextPlaces
       DEF Ask, Typed, NotesTyped, ReadersTyped, Handling, Records, monitor, notes, History
  <1>4. ASSUME NEW h \in History, LoadView(r, h) PROVE Typed'
    <2> DEFINE K == Newest(h, file[h])
    <2>1. K \in SUBSET (1 .. told) /\ K \subseteq file[h] /\ Cardinality(K) <= MaxRecords[h]
      BY <1>1, KeptTyped, NewestIsSome DEF Newest
    <2>2. place'[r] \in Places /\ place' \in [Reader -> Places]
      BY <1>4, NextPlaces DEF LoadView, Typed, ReadersTyped
    <2> HIDE DEF K
    <2>3. /\ view' \in [Reader -> [History -> SUBSET (1 .. told)]] /\ told' = told
          /\ \A q \in Reader, g \in History :
               view'[q][g] = IF q = r /\ g = h THEN K ELSE view[q][g]
      BY <1>4, <2>1 DEF LoadView, Typed, ReadersTyped, Records, monitor, K
    <2>4. ReadersTyped'
      BY <1>4, <2>1, <2>2, <2>3 DEF LoadView, Typed, ReadersTyped, Records
    <2>5. Handling'
      BY <1>1, <1>4, <2>1, <2>3 DEF LoadView, Typed, Handling, monitor, History
    <2> QED BY <1>2, <1>4, <2>4, <2>5 DEF LoadView, Typed, NotesTyped, Records, monitor, notes
  <1>5. ASSUME NEW h \in History, MisreadView(r, h) \/ SaveViewFails(r, h) PROVE Typed'
    <2>1. mishaps' \in 0 .. MaxMishaps
      BY <1>5, MishapTyped DEF Typed, NotesTyped, MisreadView, SaveViewFails
    <2>2. /\ told' = told /\ at' = at /\ memory' = memory /\ file' = file
          /\ wants' = wants /\ view' = view /\ UNCHANGED notes
      BY <1>5 DEF MisreadView, SaveViewFails, monitor
    <2>3. place' \in [Reader -> Places]
      BY <1>5, NextPlaces DEF MisreadView, SaveViewFails, Typed, ReadersTyped
    <2>4. ReadersTyped' /\ NotesTyped' /\ Handling'
      BY <2>1, <2>2, <2>3 DEF Typed, NotesTyped, ReadersTyped, Handling, Records, notes
    <2> QED BY <1>2, <2>4 DEF Typed
  <1>6. ASSUME NEW h \in History, SaveView(r, h) PROVE Typed'
    <2>1. file' \in Records /\ told' = told /\ file' = [file EXCEPT ![h] = view[r][h]]
      BY <1>1, <1>6 DEF SaveView, Typed, NotesTyped, Records, monitor
    <2>2. astray' \subseteq History /\ cut' \subseteq 1 .. told
      BY <1>6 DEF SaveView, Typed, NotesTyped
    <2>3. ReadersTyped'
      BY <1>6, NextPlaces DEF SaveView, Typed, ReadersTyped, Records, monitor
    <2>4. Handling'
      BY <1>6, <2>1 DEF SaveView, Typed, Handling, NotesTyped, Records, monitor
    <2> QED BY <1>2, <1>6, <2>1, <2>2, <2>3, <2>4 DEF SaveView, Typed, NotesTyped, Records, monitor
  <1>7. CASE Leave(r)
    <2>1. ReadersTyped'
      BY <1>7, NothingTyped DEF Leave, Typed, ReadersTyped, Records, Places, monitor
    <2>2. Handling'
      BY <1>7 DEF Leave, Typed, Handling, ReadersTyped, Nothing, History, monitor
    <2> QED BY <1>2, <1>7, <2>1, <2>2 DEF Leave, Typed, NotesTyped, Records, monitor, notes
  <1> QED BY <1>3, <1>4, <1>5, <1>6, <1>7
          DEF Read, ListEvents, ListAlerts, Status, BuildLocalReport, RefreshTables, History

(* No store object ever holds more records than its cap, whoever reads or   *)
(* writes the files meanwhile.                                              *)
THEOREM TypedAlways == Spec => []Typed
  <1>1. Init => Typed
    BY InitTyped, TypeParts DEF Typed, Handling, Init, Down, Emitting
  <1>2. Typed /\ [Next]_vars => Typed'
    <2> SUFFICES ASSUME Typed, [Next]_vars PROVE Typed'
      OBVIOUS
    <2>1. CASE UNCHANGED vars
      BY <2>1 DEF vars, monitor, readers, notes, Typed, ReadersTyped, MonitorTyped, NotesTyped,
                  Handling, Records
    <2>2. CASE Monitor
      BY <2>2, MonitorStepTyped, MonitorStepKeepsReaders, MonitorStepNotes, MonitorStepHandling
         DEF Typed
    <2>3. ASSUME NEW r \in Reader, Read(r) PROVE Typed'
      BY <2>3, ReaderStepTyped
    <2> QED BY <2>1, <2>2, <2>3 DEF Next
  <1> QED BY <1>1, <1>2, PTL DEF Spec

THEOREM TypeCorrect == Spec => []TypeOK
  <1>1. Typed => TypeOK
    BY TypeParts DEF Typed
  <1> QED BY <1>1, TypedAlways, PTL

-----------------------------------------------------------------------------
(* The monitor has been through its load of a history.                      *)
HasLoaded(h) ==
  /\ at \notin {Down, <<"load", "alerts">>}
  /\ h = "events" => at \notin {<<"trim", "alerts">>, <<"load", "events">>}

(* What its memory then has to do with the file: it extends what a load of  *)
(* the file would give; it is the file, once saved.                         *)
Extending(h) ==
  HasLoaded(h) /\ h \notin astray =>
    ExtendsUpTo(MaxRecords[h], Newest(h, file[h]), memory[h])
Saved(h) ==
  HasLoaded(h) /\ h \notin astray \cup behind /\ at \notin {<<"trim", h>>, <<"save", h>>} =>
    file[h] = memory[h]
Faithful == \A h \in History : Extending(h) /\ Saved(h)

LEMMA MemoryIsKept ==
  ASSUME Typed, NEW h \in History
  PROVE  Newest(h, memory[h]) = memory[h]
  <1>1. memory[h] \in SUBSET (1 .. told) /\ told \in Nat /\ Cardinality(memory[h]) <= MaxRecords[h]
    BY DEF Typed, MonitorTyped, Records
  <1>2. memory[h] \in SUBSET Nat /\ IsFiniteSet(memory[h])
    BY <1>1, FiniteRecords
  <1> QED BY <1>1, <1>2, Caps, NewestFits DEF Newest

(* An append of a number above all others.                                  *)
LEMMA AppendFaithful ==
  ASSUME Typed, Faithful, NEW h \in History, NEW n \in Nat, HasLoaded(h),
         \A m \in memory[h] \cup file[h] : m < n, h \notin astray
  PROVE  ExtendsUpTo(MaxRecords[h], Newest(h, file[h]), Newest(h, memory[h] \cup {n}))
  <1>1. /\ memory[h] \in SUBSET (1 .. told) /\ file[h] \in SUBSET (1 .. told) /\ told \in Nat
        /\ Cardinality(memory[h]) <= MaxRecords[h]
    BY DEF Typed, MonitorTyped, NotesTyped, Records
  <1>2. memory[h] \in SUBSET Nat /\ IsFiniteSet(memory[h])
    BY <1>1, FiniteRecords
  <1>3. Newest(h, file[h]) \subseteq file[h] /\ Newest(h, file[h]) \in SUBSET Nat
    BY <1>1, NewestIsSome DEF Newest
  <1>4. ExtendsUpTo(MaxRecords[h], Newest(h, file[h]), memory[h])
    BY DEF Faithful, Extending
  <1>5. MaxRecords[h] \in Nat \ {0} /\ \A m \in memory[h] \cup Newest(h, file[h]) : m < n
    BY <1>3, Caps
  <1>6. ExtendsUpTo(MaxRecords[h], Newest(h, file[h]), NewestOf(memory[h] \cup {n}, MaxRecords[h]))
    BY <1>1, <1>2, <1>3, <1>4, <1>5, AppendExtends
  <1> QED BY <1>6 DEF Newest

LEMMA MonitorStepFaithful ==
  ASSUME Typed, Faithful, Monitor
  PROVE  Faithful'
  <1>1. /\ told \in Nat
        /\ \A h \in History : memory[h] \in SUBSET (1 .. told) /\ file[h] \in SUBSET (1 .. told)
        /\ memory \in Records /\ file \in Records
    BY DEF Typed, MonitorTyped, NotesTyped, Records
  <1>2. CASE Start \/ End
    BY <1>2 DEF Start, End, Faithful, Extending, Saved, HasLoaded, Down
  <1>3. CASE Consider
    <2>1. \A h \in History : HasLoaded(h)
      BY <1>3 DEF Consider, HasLoaded, Idle, Down
    <2>2. UNCHANGED <<file, astray, behind>>
      BY <1>3 DEF Consider, notes
    <2>3. CASE Append("alerts", told + 1)
      <3>1. \A m \in memory["alerts"] \cup file["alerts"] : m < told + 1
        BY <1>1 DEF History
      <3>2. "alerts" \notin astray => ExtendsUpTo(MaxRecords["alerts"], Newest("alerts", file["alerts"]),
                                                  Newest("alerts", memory["alerts"] \cup {told + 1}))
        BY <1>1, <2>1, <3>1, AppendFaithful DEF History
      <3>3. /\ memory'["alerts"] = Newest("alerts", memory["alerts"] \cup {told + 1})
            /\ memory'["events"] = memory["events"] /\ at' = <<"save", "alerts">>
        BY <1>1, <2>3 DEF Append, Records, History
      <3>4. Extending("alerts")' /\ Saved("alerts")'
        BY <2>2, <3>2, <3>3 DEF Extending, Saved, Newest
      <3>5. Extending("events")' /\ Saved("events")'
        BY <1>3, <2>1, <2>2, <3>3 DEF Consider, Faithful, Extending, Saved, Newest, History, Idle
      <3> QED BY <3>4, <3>5 DEF Faithful, History
    <2>4. CASE at' = Emitting /\ UNCHANGED memory
      BY <1>3, <2>1, <2>2, <2>4 DEF Consider, Faithful, Extending, Saved, Newest, Idle
    <2> QED BY <1>3, <2>3, <2>4 DEF Consider
  <1>4. CASE Emit
    <2>1. /\ \A h \in History : HasLoaded(h)
          /\ \A h \in History : at \notin {<<"trim", h>>, <<"save", h>>}
      BY <1>4 DEF Emit, HasLoaded, Emitting, Down
    <2>2. UNCHANGED <<file, astray, behind>>
      BY <1>4 DEF Emit, notes
    <2>3. \A m \in memory["events"] \cup file["events"] : m < told
      BY <1>1, <1>4 DEF Typed, Handling, Emit, History
    <2>4. "events" \notin astray => ExtendsUpTo(MaxRecords["events"], Newest("events", file["events"]),
                                                Newest("events", memory["events"] \cup {told}))
      BY <1>1, <2>1, <2>3, AppendFaithful DEF History
    <2>5. /\ memory'["events"] = Newest("events", memory["events"] \cup {told})
          /\ memory'["alerts"] = memory["alerts"] /\ at' = <<"save", "events">>
      BY <1>1, <1>4 DEF Emit, Append, Records, History
    <2>6. Extending("events")' /\ Saved("events")'
      BY <2>2, <2>4, <2>5 DEF Extending, Saved, Newest
    <2>7. Extending("alerts")' /\ Saved("alerts")'
      BY <2>1, <2>2, <2>5 DEF Faithful, Extending, Saved, Newest, History
    <2> QED BY <2>6, <2>7 DEF Faithful, History
  <1>5. ASSUME NEW h \in History, Load(h), NEW g \in History PROVE Extending(g)' /\ Saved(g)'
    <2>1. UNCHANGED <<file, behind>> /\ astray' = astray \ {h}
      BY <1>5 DEF Load
    <2>2. CASE g = h
      <3>1. memory'[h] = Newest(h, file[h])
        BY <1>1, <1>5 DEF Load, Records
      <3>2. at' # <<"trim", h>> => file[h] = memory'[h]
        BY <1>5, <3>1 DEF Load
      <3> QED BY <2>1, <2>2, <3>1, <3>2, SameExtends DEF Extending, Saved, Newest
    <2>3. CASE g # h
      <3>1. memory'[g] = memory[g]
        BY <1>1, <1>5, <2>3 DEF Load, Records
      <3>2. HasLoaded(g)' => HasLoaded(g) /\ at \notin {<<"trim", g>>, <<"save", g>>}
        BY <1>5, <2>3 DEF Load, HasLoaded, After, History, Down
      <3> QED BY <2>1, <2>3, <3>1, <3>2 DEF Faithful, Extending, Saved, Newest
    <2> QED BY <2>2, <2>3
  <1>6. ASSUME NEW h \in History, Misread(h), NEW g \in History PROVE Extending(g)' /\ Saved(g)'
    <2>1. UNCHANGED <<file, memory, behind>> /\ astray' = astray \cup {h}
      BY <1>6 DEF Misread
    <2>2. CASE g = h
      BY <2>1, <2>2 DEF Extending, Saved
    <2>3. CASE g # h
      <3>1. HasLoaded(g)' => HasLoaded(g) /\ at \notin {<<"trim", g>>, <<"save", g>>}
        BY <1>6, <2>3 DEF Misread, HasLoaded, After, History, Down
      <3> QED BY <2>1, <2>3, <3>1 DEF Faithful, Extending, Saved, Newest
    <2> QED BY <2>2, <2>3
  <1>7. ASSUME NEW h \in History, Save(h) \/ SaveFails(h), NEW g \in History
        PROVE  Extending(g)' /\ Saved(g)'
    <2>1. HasLoaded(h)
      BY <1>7 DEF Save, SaveFails, HasLoaded, History, Down
    <2>2. HasLoaded(g)' => HasLoaded(g)
      BY <1>7 DEF Save, SaveFails, HasLoaded, After, History, Down
    <2>3. g # h => at \notin {<<"trim", g>>, <<"save", g>>}
      BY <1>7 DEF Save, SaveFails
    <2>4. CASE Save(h)
      <3>1. UNCHANGED memory /\ astray' = astray \ {h} /\ behind' = behind \ {h}
        BY <2>4 DEF Save
      <3>2. file'[h] = memory[h] /\ (g # h => file'[g] = file[g])
        BY <1>1, <2>4 DEF Save, Records
      <3>3. CASE g = h
        <4>1. Newest(h, file'[h]) = memory'[h]
          BY <3>1, <3>2, MemoryIsKept
        <4> QED BY <3>1, <3>2, <3>3, <4>1, SameExtends DEF Extending, Saved, Newest
      <3>4. CASE g # h
        BY <2>2, <2>3, <3>1, <3>2, <3>4 DEF Faithful, Extending, Saved, Newest
      <3> QED BY <3>3, <3>4
    <2>5. CASE SaveFails(h)
      BY <2>2, <2>3, <2>5 DEF SaveFails, Faithful, Extending, Saved, Newest
    <2> QED BY <1>7, <2>4, <2>5
  <1> QED BY <1>2, <1>3, <1>4, <1>5, <1>6, <1>7 DEF Monitor, Faithful

(* A reader disturbs this only by saving what others have changed since.    *)
LEMMA ReaderStepFaithful ==
  ASSUME Typed, Faithful, NEW r \in Reader, Read(r)
  PROVE  Faithful'
  <1>1. UNCHANGED <<memory, at, behind>>
    BY DEF Read, ListEvents, ListAlerts, Status, BuildLocalReport, RefreshTables, Ask, LoadView,
           MisreadView, SaveView, SaveViewFails, Leave, monitor, notes
  <1>2. ASSUME UNCHANGED <<file, astray>> PROVE Faithful'
    BY <1>1, <1>2 DEF Faithful, Extending, Saved, HasLoaded, Newest
  <1>3. ASSUME NEW h \in History, SaveView(r, h), NEW g \in History
        PROVE  Extending(g)' /\ Saved(g)'
    <2>1. file' = [file EXCEPT ![h] = view[r][h]] /\ file \in Records
      BY <1>3 DEF SaveView, Typed, NotesTyped
    <2>2. astray \subseteq astray' /\ UNCHANGED HasLoaded(g)
      BY <1>1, <1>3 DEF SaveView, HasLoaded
    <2>3. CASE g # h
      BY <1>1, <2>1, <2>2, <2>3 DEF Faithful, Extending, Saved, Newest, Records
    <2>4. CASE g = h /\ view[r][h] = Newest(h, file[h])
      <3>1. told \in Nat /\ file[h] \in SUBSET (1 .. told) /\ MaxRecords[h] \in Nat
        BY Caps DEF Typed, NotesTyped, MonitorTyped, Records
      <3>2. file[h] \in SUBSET Nat /\ IsFiniteSet(file[h])
        BY <3>1, FiniteRecords
      <3>3. file'[h] = Newest(h, file[h]) /\ Newest(h, file'[h]) = Newest(h, file[h])
        BY <2>1, <2>4, <3>1, <3>2, NewestTwice DEF Records, Newest
      <3>4. file[h] = memory[h] => file'[h] = memory[h]
        BY <3>3, MemoryIsKept
      <3> QED BY <1>1, <2>2, <2>4, <3>3, <3>4 DEF Faithful, Extending, Saved, Newest
    <2>5. CASE g = h /\ view[r][h] # Newest(h, file[h])
      BY <1>3, <2>5 DEF SaveView, Extending, Saved
    <2> QED BY <2>3, <2>4, <2>5
  <1>4. CASE \E h \in History : SaveView(r, h)
    BY <1>3, <1>4 DEF Faithful
  <1>5. CASE ~\E h \in History : SaveView(r, h)
    BY <1>2, <1>5 DEF Read, ListEvents, ListAlerts, Status, BuildLocalReport, RefreshTables, Ask,
                      LoadView, MisreadView, SaveViewFails, Leave, notes
  <1> QED BY <1>4, <1>5

LEMMA FaithfulAlways == Spec => [](Typed /\ Faithful)
  <1>1. Init => Faithful
    BY DEF Init, Faithful, Extending, Saved, HasLoaded
  <1>2. Typed /\ Faithful /\ [Next]_vars => Faithful'
    <2> SUFFICES ASSUME Typed, Faithful, [Next]_vars PROVE Faithful'
      OBVIOUS
    <2>1. CASE UNCHANGED vars
      BY <2>1 DEF vars, monitor, notes, Faithful, Extending, Saved, HasLoaded, Newest
    <2>2. ASSUME NEW r \in Reader, Read(r) PROVE Faithful'
      BY <2>2, ReaderStepFaithful
    <2> QED BY <2>1, <2>2, MonitorStepFaithful DEF Next
  <1> QED BY <1>1, <1>2, TypedAlways, PTL DEF Spec

(* Between two events both files hold what the monitor has in memory, save  *)
(* where a save failed or a file was misread or replaced behind its back.   *)
THEOREM SavedBetween == Spec => []SavedBetweenEvents
  <1>1. Faithful => SavedBetweenEvents
    BY DEF Faithful, Saved, SavedBetweenEvents, HasLoaded, Idle, Down
  <1> QED BY <1>1, FaithfulAlways, PTL

-----------------------------------------------------------------------------
(* Every step either was in doubt or extends what a load of the file gives. *)
LEMMA StepExtends ==
  ASSUME Typed, Faithful, [Next]_vars, NEW h \in History, ~InDoubt(h)
  PROVE  ExtendsUpTo(MaxRecords[h], Newest(h, file[h]), Newest(h, file'[h]))
  <1>1. CASE file'[h] = file[h]
    BY <1>1, SameExtends
  <1>2. ASSUME Save(h) PROVE ExtendsUpTo(MaxRecords[h], Newest(h, file[h]), Newest(h, file'[h]))
    <2>1. HasLoaded(h) /\ h \notin astray
      BY <1>2 DEF Save, HasLoaded, History, Down, InDoubt
    <2>2. file'[h] = memory[h]
      BY <1>2 DEF Save, Typed, NotesTyped, Records
    <2> QED BY <2>1, <2>2, MemoryIsKept DEF Faithful, Extending
  <1>3. ASSUME NEW r \in Reader, SaveView(r, h)
        PROVE  ExtendsUpTo(MaxRecords[h], Newest(h, file[h]), Newest(h, file'[h]))
    <2>1. file'[h] = Newest(h, file[h])
      BY <1>3 DEF SaveView, InDoubt, Typed, NotesTyped, Records
    <2>2. told \in Nat /\ file[h] \in SUBSET (1 .. told) /\ MaxRecords[h] \in Nat
      BY Caps DEF Typed, NotesTyped, MonitorTyped, Records
    <2>3. file[h] \in SUBSET Nat /\ IsFiniteSet(file[h])
      BY <2>2, FiniteRecords
    <2>4. Newest(h, file'[h]) = Newest(h, file[h])
      BY <2>1, <2>2, <2>3, NewestTwice DEF Newest
    <2> QED BY <2>4, SameExtends
  <1>4. ASSUME Monitor, ~Save(h) PROVE file'[h] = file[h]
    BY <1>4 DEF Monitor, Start, Consider, Emit, End, Load, Misread, Save, SaveFails, Typed,
                NotesTyped, Records
  <1>5. ASSUME NEW r \in Reader, Read(r), ~SaveView(r, h) PROVE file'[h] = file[h]
    BY <1>5 DEF Read, ListEvents, ListAlerts, Status, BuildLocalReport, RefreshTables, Ask,
                LoadView, MisreadView, SaveView, SaveViewFails, Leave, Typed, NotesTyped, Records
  <1>6. UNCHANGED vars => file'[h] = file[h]
    BY DEF vars
  <1> QED BY <1>1, <1>2, <1>3, <1>4, <1>5, <1>6 DEF Next

LEMMA InitKept == Init => \A h \in History : Newest(h, file[h]) \in SUBSET Nat
  <1> SUFFICES ASSUME Init, NEW h \in History PROVE Newest(h, file[h]) \in SUBSET Nat
    OBVIOUS
  <1>1. file[h] \in SUBSET (1 .. Earlier) /\ Earlier \in Nat
    BY HistoryAssumption DEF Init
  <1> QED BY <1>1, NewestIsSome DEF Newest

(* events.json implements BoundedLog.                                       *)
THEOREM EventsRefine == Spec => EventsAreALog
  <1>1. Init => EventLog!Init
    BY InitKept DEF Init, EventLog!Init, InDoubt, History, Idle
  <1>2. Typed /\ Faithful /\ [Next]_vars => [EventLog!Next]_(EventLog!vars)
    <2> SUFFICES ASSUME Typed, Faithful, [Next]_vars, ~InDoubt("events") PROVE EventLog!Next
      BY DEF EventLog!Next
    <2>1. ExtendsUpTo(MaxRecords["events"], Newest("events", file["events"]), Newest("events", file'["events"]))
      BY StepExtends DEF History
    <2>2. \A S : EventLog!Cardinality(S) = Cardinality(S)
      BY DEF EventLog!Cardinality, Cardinality
    <2> QED BY <2>1, <2>2 DEF EventLog!Next, EventLog!Extends, ExtendsUpTo, Newest
  <1> QED BY <1>1, <1>2, FaithfulAlways, PTL DEF Spec, EventsAreALog, EventLog!Spec

(* alerts.json implements BoundedLog.                                       *)
THEOREM AlertsRefine == Spec => AlertsAreALog
  <1>1. Init => AlertLog!Init
    BY InitKept DEF Init, AlertLog!Init, InDoubt, History, Idle
  <1>2. Typed /\ Faithful /\ [Next]_vars => [AlertLog!Next]_(AlertLog!vars)
    <2> SUFFICES ASSUME Typed, Faithful, [Next]_vars, ~InDoubt("alerts") PROVE AlertLog!Next
      BY DEF AlertLog!Next
    <2>1. ExtendsUpTo(MaxRecords["alerts"], Newest("alerts", file["alerts"]), Newest("alerts", file'["alerts"]))
      BY StepExtends DEF History
    <2>2. \A S : AlertLog!Cardinality(S) = Cardinality(S)
      BY DEF AlertLog!Cardinality, Cardinality
    <2> QED BY <2>1, <2>2 DEF AlertLog!Next, AlertLog!Extends, ExtendsUpTo, Newest
  <1> QED BY <1>1, <1>2, FaithfulAlways, PTL DEF Spec, AlertsAreALog, AlertLog!Spec

(* Both history files implement the log they promise to be.                 *)
THEOREM HistoriesRefine == Spec => HistoriesAreLogs
  BY EventsRefine, AlertsRefine, PTL DEF HistoriesAreLogs

-----------------------------------------------------------------------------
(* What keep_newest drops is older than all it keeps, and is dropped only   *)
(* when the cap is reached.                                                 *)
LEMMA Greatest ==
  ASSUME NEW b \in Nat, NEW S \in SUBSET (1 .. b), S # {}
  PROVE  \E n \in S : \A m \in S : m <= n
  <1> DEFINE D == {b - x : x \in S}
  <1>1. D \in SUBSET Nat /\ D # {}
    <2>1. \A x \in S : b - x \in Nat
      OBVIOUS
    <2> QED BY <2>1
  <1>2. PICK d \in D : \A c \in D : d <= c
    BY <1>1, Least
  <1>3. PICK n \in S : d = b - n
    BY <1>2
  <1>4. ASSUME NEW m \in S PROVE m <= n
    <2>1. b - m \in D /\ m \in Nat /\ n \in Nat
      OBVIOUS
    <2>2. d <= b - m
      BY <1>2, <2>1
    <2> QED BY <1>3, <2>1, <2>2
  <1> QED BY <1>4

LEMMA NewestDrops ==
  ASSUME NEW count \in Nat, NEW b \in Nat, NEW S \in SUBSET (1 .. b),
         NEW n \in S \ NewestOf(S, count)
  PROVE  /\ \A e \in NewestOf(S, count) : n < e
         /\ Cardinality(NewestOf(S, count)) = count
  <1> DEFINE N == NewestOf(S, count)
             After_(x) == {m \in S : m > x}
  <1>1. IsFiniteSet(S) /\ S \in SUBSET Nat /\ N \in SUBSET S
    BY FiniteRecords, NewestIsSome
  <1>2. \A x \in S : x \in N <=> Cardinality(After_(x)) < count
    BY DEF NewestOf
  <1>3. \A x \in S : IsFiniteSet(After_(x)) /\ Cardinality(After_(x)) \in Nat
    BY <1>1, Smaller
  <1>4. ASSUME NEW e \in N PROVE n < e
    <2> n \in Nat /\ e \in Nat
      BY <1>1
    <2>1. SUFFICES ASSUME e <= n PROVE FALSE
      OBVIOUS
    <2>2. After_(n) \in SUBSET After_(e)
      <3>1. ASSUME NEW m \in S, m > n PROVE m > e
        <4>1. m \in Nat
          BY <1>1
        <4> HIDE DEF N
        <4> QED BY <2>1, <3>1, <4>1
      <3> QED BY <3>1
    <2>3. /\ Cardinality(After_(n)) <= Cardinality(After_(e))
          /\ Cardinality(After_(n)) \in Nat /\ Cardinality(After_(e)) \in Nat
      BY <1>1, <1>3, <2>2, Smaller
    <2>4. ~(Cardinality(After_(n)) < count) /\ Cardinality(After_(e)) < count
      BY <1>1, <1>2
    <2> HIDE DEF After_
    <2> QED BY <2>3, <2>4
  <1>5. Cardinality(N) <= count /\ Cardinality(N) \in Nat /\ IsFiniteSet(N)
    BY <1>1, NewestBounded, Smaller
  <1>6. ~(Cardinality(N) < count)
    <2>1. SUFFICES ASSUME Cardinality(N) < count PROVE FALSE
      OBVIOUS
    <2>2. PICK x \in S \ N : \A m \in S \ N : m <= x
      BY Greatest
    <2>3. After_(x) \in SUBSET N
      <3>1. ASSUME NEW m \in S, m > x, m \notin N PROVE FALSE
        BY <2>2, <3>1, <1>1
      <3> QED BY <3>1
    <2>4. Cardinality(After_(x)) <= Cardinality(N) /\ Cardinality(After_(x)) \in Nat
      BY <1>5, <2>3, Smaller
    <2>5. ~(Cardinality(After_(x)) < count)
      BY <1>2
    <2> HIDE DEF After_, N
    <2> QED BY <1>5, <2>1, <2>4, <2>5
  <1> HIDE DEF N
  <1>7. Cardinality(N) = count
    BY <1>5, <1>6
  <1> QED BY <1>4, <1>7 DEF N

LEMMA Dropped ==
  ASSUME NEW b \in Nat, NEW S \in SUBSET (1 .. b), NEW n \in S \ Newest("events", S)
  PROVE  AgedOut(Newest("events", S), n)
  <1>1. MaxRecords["events"] \in Nat
    BY Caps DEF History
  <1> QED BY <1>1, NewestDrops DEF Newest, AgedOut, Older

(* A full history that ages out one more record keeps on ageing it out.     *)
LEMMA StaysAgedOut ==
  ASSUME NEW b \in Nat, NEW old \in SUBSET (1 .. b), NEW new \in SUBSET (1 .. b),
         Cardinality(new) <= MaxRecords["events"],
         ExtendsUpTo(MaxRecords["events"], old, new), NEW n \in Nat
  PROVE  n \in old \ new \/ AgedOut(old, n) => AgedOut(new, n)
  <1> DEFINE cap == MaxRecords["events"]
  <1>1. /\ cap \in Nat \ {0} /\ IsFiniteSet(old) /\ IsFiniteSet(new)
        /\ Cardinality(old) \in Nat /\ Cardinality(new) \in Nat
    BY Caps, FiniteRecords DEF History
  <1>2. ASSUME n \in old \ new PROVE AgedOut(new, n)
    BY <1>2 DEF ExtendsUpTo, AgedOut, Older
  <1>3. ASSUME AgedOut(old, n) PROVE AgedOut(new, n)
    <2>1. PICK k \in old : TRUE
      BY <1>1, <1>3, FS_EmptySet DEF AgedOut
    <2>2. ASSUME NEW e \in new PROVE n < e
      <3>1. CASE e \in old
        BY <1>3, <3>1 DEF AgedOut, Older
      <3>2. CASE e \notin old
        <4>1. n < k /\ k < e /\ k \in Nat /\ e \in Nat
          BY <1>3, <2>1, <3>2 DEF AgedOut, Older, ExtendsUpTo
        <4> QED BY <4>1
      <3> QED BY <3>1, <3>2
    <2>3. Cardinality(new) = cap
      <3>1. CASE old \subseteq new
        <4>1. Cardinality(old) <= Cardinality(new)
          BY <1>1, <3>1, Smaller
        <4> QED BY <1>1, <1>3, <4>1 DEF AgedOut
      <3>2. CASE ~(old \subseteq new)
        BY <3>2 DEF ExtendsUpTo
      <3> QED BY <3>1, <3>2
    <2> QED BY <2>2, <2>3 DEF AgedOut, Older
  <1> QED BY <1>2, <1>3

-----------------------------------------------------------------------------
(* What a step does to the history of events.                               *)
Kept == Newest("events", file["events"])
Doubted == "events" \in astray \cup behind
SavesEvents(r) == place[r] = <<"save", "events">>
Handled(n) == at \in {<<"save", "alerts">>, Emitting} /\ n = told

LEMMA EventSets ==
  ASSUME Typed
  PROVE  /\ told \in Nat /\ MaxRecords["events"] \in Nat \ {0}
         /\ file["events"] \in SUBSET (1 .. told) /\ Kept \in SUBSET file["events"]
         /\ Kept \in SUBSET (1 .. told)
         /\ memory["events"] \in SUBSET (1 .. told)
         /\ Cardinality(memory["events"]) <= MaxRecords["events"]
         /\ \A r \in Reader : /\ view[r]["events"] \in SUBSET (1 .. told)
                              /\ Newest("events", view[r]["events"]) = view[r]["events"]
  <1>1. /\ told \in Nat /\ file["events"] \in SUBSET (1 .. told)
        /\ memory["events"] \in SUBSET (1 .. told)
        /\ Cardinality(memory["events"]) <= MaxRecords["events"]
    BY DEF Typed, MonitorTyped, NotesTyped, Records, History
  <1>2. MaxRecords["events"] \in Nat \ {0}
    BY Caps DEF History
  <1>3. Kept \in SUBSET file["events"]
    BY NewestIsSome DEF Kept, Newest
  <1>4. ASSUME NEW r \in Reader
        PROVE  /\ view[r]["events"] \in SUBSET (1 .. told)
               /\ Newest("events", view[r]["events"]) = view[r]["events"]
    <2>1. /\ view[r]["events"] \in SUBSET (1 .. told)
          /\ Cardinality(view[r]["events"]) <= MaxRecords["events"]
      BY DEF Typed, ReadersTyped, Records, History
    <2>2. view[r]["events"] \in SUBSET Nat /\ IsFiniteSet(view[r]["events"])
      BY <1>1, <2>1, FiniteRecords
    <2> QED BY <1>2, <2>1, <2>2, NewestFits DEF Newest
  <1> QED BY <1>1, <1>2, <1>3, <1>4

(* Most steps of the monitor leave the events alone.                        *)
LeavesEvents ==
  /\ file'["events"] = file["events"] /\ memory'["events"] = memory["events"]
  /\ cut' = cut
  /\ Doubted => Doubted'
  /\ \A n \in 1 .. told : Handled(n) => Handled(n)'

LEMMA MonitorOnEvents ==
  ASSUME Typed, Monitor
  PROVE  LeavesEvents \/ Load("events") \/ Emit \/ Save("events") \/ End
  <1>1. file \in Records /\ memory \in Records /\ told \in Nat
    BY DEF Typed, MonitorTyped, NotesTyped
  <1>2. CASE Start
    BY <1>2 DEF Start, LeavesEvents, Doubted, Handled, notes, Down, Emitting
  <1>3. CASE Consider
    <2>1. memory'["events"] = memory["events"]
      BY <1>1, <1>3 DEF Consider, Append, Records, History
    <2> QED BY <1>3, <2>1 DEF Consider, LeavesEvents, Doubted, Handled, notes, Idle, Emitting
  <1>4. CASE Load("alerts")
    <2>1. memory'["events"] = memory["events"]
      BY <1>1, <1>4 DEF Load, Records, History
    <2> QED BY <1>4, <2>1 DEF Load, LeavesEvents, Doubted, Handled, Emitting
  <1>5. ASSUME NEW h \in History, Misread(h) PROVE LeavesEvents
    BY <1>5 DEF Misread, LeavesEvents, Doubted, Handled, Emitting
  <1>6. CASE Save("alerts")
    <2>1. file'["events"] = file["events"]
      BY <1>1, <1>6 DEF Save, Records, History
    <2>2. cut' = cut /\ memory' = memory
      BY <1>6 DEF Save
    <2>3. Doubted => Doubted'
      BY <1>6 DEF Save, Doubted
    <2>4. ASSUME NEW n \in 1 .. told, Handled(n) PROVE Handled(n)'
      <3>1. at = <<"save", "alerts">> /\ told' = told
        BY <1>6, <2>4 DEF Save, Handled, Emitting
      <3> QED BY <1>6, <2>4, <3>1 DEF Save, After, Handled
    <2> QED BY <2>1, <2>2, <2>3, <2>4 DEF LeavesEvents
  <1>7. ASSUME NEW h \in History, SaveFails(h) PROVE LeavesEvents
    <2>1. ASSUME NEW n \in 1 .. told, Handled(n) PROVE Handled(n)'
      <3>1. at = <<"save", "alerts">> /\ told' = told
        BY <1>7, <2>1 DEF SaveFails, Handled, Emitting, History
      <3> QED BY <1>7, <2>1, <3>1 DEF SaveFails, After, Handled
    <2> QED BY <1>7, <2>1 DEF SaveFails, LeavesEvents, Doubted
  <1> QED BY <1>2, <1>3, <1>4, <1>5, <1>6, <1>7 DEF Monitor, History

(* A reader touches them only by its own save.                              *)
LEMMA ReaderOnEvents ==
  ASSUME Typed, NEW r \in Reader, Read(r)
  PROVE  /\ UNCHANGED monitor /\ behind' = behind
         /\ \/ file'["events"] = file["events"] /\ Doubted' = Doubted /\ cut' = cut
            \/ SaveView(r, "events")
  <1>1. UNCHANGED monitor /\ behind' = behind
    BY DEF Read, ListEvents, ListAlerts, Status, BuildLocalReport, RefreshTables, Ask, LoadView,
           MisreadView, SaveView, SaveViewFails, Leave, notes
  <1>2. ASSUME UNCHANGED <<file, notes>>
        PROVE  file'["events"] = file["events"] /\ Doubted' = Doubted /\ cut' = cut
    BY <1>2 DEF Doubted, notes
  <1>3. ASSUME SaveView(r, "alerts")
        PROVE  file'["events"] = file["events"] /\ Doubted' = Doubted /\ cut' = cut
    <2>1. file'["events"] = file["events"]
      BY <1>3 DEF SaveView, Typed, NotesTyped, Records, History
    <2>2. cut' = cut /\ ("events" \in astray' <=> "events" \in astray) /\ behind' = behind
      BY <1>3 DEF SaveView
    <2> QED BY <2>1, <2>2 DEF Doubted
  <1> QED BY <1>1, <1>2, <1>3
       DEF Read, ListEvents, ListAlerts, Status, BuildLocalReport, RefreshTables, Ask, LoadView,
           MisreadView, SaveViewFails, Leave, History

LEMMA CutGrows == ASSUME Next PROVE cut \subseteq cut'
  BY DEF Next, Monitor, Start, Consider, Emit, End, Load, Misread, Save, SaveFails, Read,
         ListEvents, ListAlerts, Status, BuildLocalReport, RefreshTables, Ask, LoadView,
         MisreadView, SaveView, SaveViewFails, Leave, notes

(* What the saves and loads of the events do.                               *)
LEMMA EventsLoaded ==
  ASSUME Typed, Load("events")
  PROVE  memory'["events"] = Kept /\ file' = file /\ cut' = cut
  BY DEF Load, Typed, MonitorTyped, Records, History, Kept

LEMMA EventsSaved ==
  ASSUME Typed, Save("events")
  PROVE  /\ file'["events"] = memory["events"] /\ Kept' = memory["events"] /\ memory' = memory
         /\ HasLoaded("events")
         /\ "events" \in astray => cut' = cut \cup ((1 .. told) \ memory["events"])
         /\ "events" \notin astray => cut' = cut
         /\ told' = told /\ \A n : ~Handled(n)
  <1>1. file'["events"] = memory["events"]
    BY DEF Save, Typed, NotesTyped, Records, History
  <1>2. Kept' = memory["events"]
    BY <1>1, MemoryIsKept DEF Kept, Newest, History
  <1> QED BY <1>1, <1>2 DEF Save, HasLoaded, Handled, Down, Emitting

LEMMA EventsReplaced ==
  ASSUME Typed, NEW r \in Reader, SaveView(r, "events")
  PROVE  /\ file'["events"] = view[r]["events"] /\ Kept' = view[r]["events"]
         /\ SavesEvents(r) /\ UNCHANGED <<monitor, behind, view>>
         /\ \/ view[r]["events"] = Kept /\ astray' = astray /\ cut' = cut
            \/ "events" \in astray' /\ cut' = cut \cup ((1 .. told) \ (view[r]["events"] \cup memory["events"]))
  <1>1. file'["events"] = view[r]["events"]
    BY DEF SaveView, Typed, NotesTyped, Records, History
  <1>2. Kept' = view[r]["events"]
    BY <1>1, EventSets DEF Kept, Newest
  <1> QED BY <1>1, <1>2 DEF SaveView, SavesEvents, Kept

LEMMA EventEmitted ==
  ASSUME Typed, Emit
  PROVE  /\ memory'["events"] = Newest("events", memory["events"] \cup {told})
         /\ file' = file /\ told > 0
         /\ UNCHANGED <<told, readers, notes>>
         /\ told \in memory'["events"]
         /\ memory'["events"] \subseteq memory["events"] \cup {told}
         /\ \A e \in file["events"] \cup memory["events"] : e < told
         /\ \A r \in Reader : \A e \in view[r]["events"] : e < told
  <1> DEFINE U == memory["events"] \cup {told}
  <1>1. told > 0 /\ told \in Nat /\ U \in SUBSET (1 .. told)
    BY EventSets DEF Typed, Handling, Emit
  <1>2. memory'["events"] = Newest("events", U) /\ UNCHANGED <<file, told, readers, notes>>
    BY DEF Emit, Append, Typed, MonitorTyped, Records, History
  <1>3. told \in Newest("events", U)
    <2>1. {m \in U : m > told} = {}
      BY <1>1
    <2>2. MaxRecords["events"] \in Nat \ {0}
      BY EventSets
    <2> QED BY <1>1, <2>1, <2>2, FS_EmptySet DEF Newest, NewestOf
  <1>4. Newest("events", U) \subseteq U
    BY NewestIsSome DEF Newest
  <1>5. /\ \A e \in file["events"] \cup memory["events"] : e < told
        /\ \A r \in Reader : \A e \in view[r]["events"] : e < told
    BY <1>1, EventSets DEF Typed, Handling, Emit
  <1> HIDE DEF U
  <1>6. U = memory["events"] \cup {told}
    BY DEF U
  <1> QED BY <1>1, <1>2, <1>3, <1>4, <1>5, <1>6

-----------------------------------------------------------------------------
(* What is newer is so against all that is older: nobody writes a history   *)
(* that has a gap where another's has records.                              *)
Ahead(new, old) == \A x \in new \ old, y \in old : y < x

(* Nothing is held that was not loaded.                                     *)
Fresh ==
  /\ ~HasLoaded("events") => memory["events"] = {}
  /\ \A r \in Reader : place[r] \in {Idle, <<"load", "events">>} => view[r]["events"] = {}

(* The monitor is ahead of the file and both are ahead of what a reader is  *)
(* about to save; it loaded that from a file longer than the cap, which is  *)
(* the one found at the start, so that all such readers have the same.      *)
InLine ==
  /\ Ahead(memory["events"], Kept)
  /\ \A r \in Reader : SavesEvents(r) =>
       /\ Ahead(memory["events"], view[r]["events"])
       /\ Ahead(Kept, view[r]["events"])
       /\ Kept = file["events"] \/ view[r]["events"] = Kept
       /\ \A q \in Reader : SavesEvents(q) => view[q]["events"] = view[r]["events"]

LEMMA AheadOfItself == \A S : Ahead(S, S) /\ Ahead({}, S)
  BY DEF Ahead

LEMMA ViewLoaded ==
  ASSUME Typed, NEW r \in Reader, NEW h \in History, LoadView(r, h)
  PROVE  /\ view'[r][h] = Newest(h, file[h])
         /\ \A q \in Reader, g \in History : ~(q = r /\ g = h) => view'[q][g] = view[q][g]
         /\ \A q \in Reader : q # r => place'[q] = place[q]
         /\ place'[r] = IF Newest(h, file[h]) = file[h] THEN NextPlace(r, h) ELSE <<"save", h>>
         /\ UNCHANGED <<file, monitor, wants, notes>>
  BY DEF LoadView, Typed, ReadersTyped, Records

LEMMA ReaderKeepsFresh ==
  ASSUME Typed, Fresh, NEW r \in Reader, Read(r)
  PROVE  Fresh'
  <1>1. UNCHANGED monitor
    BY ReaderOnEvents
  <1>2. ~HasLoaded("events")' => memory'["events"] = {}
    BY <1>1 DEF Fresh, HasLoaded, monitor
  <1>3. ASSUME NEW q \in Reader, place'[q] \in {Idle, <<"load", "events">>}
        PROVE  view'[q]["events"] = {}
    <2>1. CASE \E h \in History : LoadView(r, h)
      <3>1. PICK h \in History : LoadView(r, h)
        BY <2>1
      <3>2. q # r
        BY <1>3, <3>1, ViewLoaded DEF NextPlace, Idle, Shown, History
      <3> QED BY <1>3, <3>1, <3>2, ViewLoaded DEF Fresh, History
    <2>2. CASE Leave(r)
      BY <1>3, <2>2 DEF Leave, Fresh, Nothing, History, Typed, ReadersTyped
    <2>3. CASE \E histories : Ask(r, histories)
      BY <1>3, <2>3 DEF Ask, Fresh, Typed, ReadersTyped
    <2>4. CASE \E h \in History : MisreadView(r, h) \/ SaveView(r, h) \/ SaveViewFails(r, h)
      <3>1. view' = view /\ place'[r] \notin {Idle, <<"load", "events">>}
        BY <2>4 DEF MisreadView, SaveView, SaveViewFails, NextPlace, Idle, Shown, Typed, ReadersTyped
      <3>2. q # r => place'[q] = place[q]
        BY <2>4 DEF MisreadView, SaveView, SaveViewFails, Typed, ReadersTyped
      <3> QED BY <1>3, <3>1, <3>2 DEF Fresh
    <2> QED BY <2>1, <2>2, <2>3, <2>4
            DEF Read, ListEvents, ListAlerts, Status, BuildLocalReport, RefreshTables
  <1> QED BY <1>2, <1>3 DEF Fresh

LEMMA MonitorKeepsFresh ==
  ASSUME Typed, Fresh, Monitor
  PROVE  Fresh'
  <1>1. UNCHANGED readers
    BY DEF Monitor, Start, Consider, Emit, End, Load, Misread, Save, SaveFails
  <1>2. ASSUME ~HasLoaded("events")' PROVE memory'["events"] = {}
    <2>1. CASE End
      BY <2>1 DEF End, Nothing, History
    <2>2. CASE ~End
      <3>1. ~HasLoaded("events")
        BY <1>2, <2>2 DEF Monitor, Start, Consider, Emit, Append, Load, Misread, Save, SaveFails,
           After, HasLoaded, History, Down, Idle, Emitting
      <3>2. ~Load("events") /\ ~Emit /\ ~Save("events")
        BY <1>2, <2>2 DEF Load, Emit, Append, Save, After, HasLoaded, Down, Idle
      <3> QED BY <2>2, <3>1, <3>2, MonitorOnEvents DEF Fresh, LeavesEvents
    <2> QED BY <2>1, <2>2
  <1> QED BY <1>1, <1>2 DEF Fresh, readers

LEMMA MonitorKeepsInLine ==
  ASSUME Typed, InLine, Monitor
  PROVE  InLine'
  <1>1. UNCHANGED readers
    BY DEF Monitor, Start, Consider, Emit, End, Load, Misread, Save, SaveFails
  <1>2. \A r \in Reader : (SavesEvents(r)' <=> SavesEvents(r)) /\ view'[r] = view[r]
    BY <1>1 DEF readers, SavesEvents
  <1>3. file'["events"] = file["events"] => Kept' = Kept
    BY DEF Kept, Newest
  <1>4. CASE LeavesEvents
    BY <1>2, <1>3, <1>4 DEF LeavesEvents, InLine
  <1>5. CASE Load("events")
    BY <1>2, <1>3, <1>5, EventsLoaded, AheadOfItself DEF InLine
  <1>6. CASE Emit
    <2>1. /\ \A e \in file["events"] \cup memory["events"] : e < told
          /\ \A r \in Reader : \A e \in view[r]["events"] : e < told
      BY <1>6, EventEmitted
    <2>2. /\ memory'["events"] \subseteq memory["events"] \cup {told}
          /\ file' = file /\ Kept' = Kept /\ Kept \subseteq file["events"]
      BY <1>3, <1>6, EventEmitted, EventSets
    <2>3. Ahead(memory'["events"], Kept')
      BY <2>1, <2>2 DEF InLine, Ahead
    <2>4. ASSUME NEW r \in Reader, SavesEvents(r) PROVE Ahead(memory'["events"], view[r]["events"])
      BY <2>1, <2>2, <2>4 DEF InLine, Ahead
    <2> QED BY <1>2, <2>2, <2>3, <2>4 DEF InLine
  <1>7. CASE Save("events")
    BY <1>2, <1>7, EventsSaved, AheadOfItself DEF InLine
  <1>8. CASE End
    BY <1>2, <1>3, <1>8, AheadOfItself DEF End, Nothing, History, InLine
  <1> QED BY <1>4, <1>5, <1>6, <1>7, <1>8, MonitorOnEvents

LEMMA ReaderKeepsInLine ==
  ASSUME Typed, InLine, NEW r \in Reader, Read(r)
  PROVE  InLine'
  <1>1. UNCHANGED monitor
    BY ReaderOnEvents
  <1>2. memory' = memory
    BY <1>1 DEF monitor
  <1>3. file'["events"] = file["events"] => Kept' = Kept
    BY DEF Kept, Newest
  <1>4. CASE LoadView(r, "events")
    <2>1. /\ view'[r]["events"] = Kept /\ file' = file
          /\ \A q \in Reader : q # r => view'[q]["events"] = view[q]["events"] /\ place'[q] = place[q]
          /\ place'[r] = IF Kept = file["events"] THEN NextPlace(r, "events") ELSE <<"save", "events">>
      BY <1>4, ViewLoaded DEF History, Kept
    <2>2. Kept' = Kept
      BY <1>3, <2>1
    <2>3. \A q \in Reader : q # r => (SavesEvents(q)' <=> SavesEvents(q))
      BY <2>1 DEF SavesEvents
    <2>4. SavesEvents(r)' => Kept # file["events"]
      BY <2>1 DEF SavesEvents, NextPlace, Shown
    <2>5. \A q \in Reader : SavesEvents(r)' /\ SavesEvents(q)' => view'[q]["events"] = Kept
      BY <2>1, <2>3, <2>4 DEF InLine
    <2>6. ASSUME NEW q \in Reader, SavesEvents(q)'
          PROVE  /\ Ahead(memory'["events"], view'[q]["events"])
                 /\ Ahead(Kept', view'[q]["events"])
                 /\ Kept' = file'["events"] \/ view'[q]["events"] = Kept'
                 /\ \A p \in Reader : SavesEvents(p)' => view'[p]["events"] = view'[q]["events"]
      <3>1. CASE q = r
        BY <1>2, <2>1, <2>2, <2>5, <2>6, <3>1, AheadOfItself DEF InLine
      <3>2. CASE q # r
        BY <1>2, <2>1, <2>2, <2>3, <2>5, <2>6, <3>2 DEF InLine
      <3> QED BY <3>1, <3>2
    <2> QED BY <1>2, <2>2, <2>6 DEF InLine
  <1>5. CASE SaveView(r, "events")
    <2>1. /\ file'["events"] = view[r]["events"] /\ Kept' = view[r]["events"]
          /\ SavesEvents(r) /\ view' = view
      BY <1>5, EventsReplaced
    <2>2. \A q \in Reader : SavesEvents(q)' => SavesEvents(q)
      BY <1>5 DEF SaveView, SavesEvents, NextPlace, Shown, Typed, ReadersTyped
    <2> QED BY <1>2, <2>1, <2>2, AheadOfItself DEF InLine
  <1>6. CASE ~LoadView(r, "events") /\ ~SaveView(r, "events")
    <2>1. file'["events"] = file["events"]
      BY <1>6, ReaderOnEvents
    <2>2. ASSUME NEW q \in Reader, SavesEvents(q)'
          PROVE  SavesEvents(q) /\ view'[q]["events"] = view[q]["events"]
      <3>1. CASE LoadView(r, "alerts")
        <4>1. view'[q]["events"] = view[q]["events"]
          BY <3>1, ViewLoaded DEF History
        <4>2. SavesEvents(q)
          BY <2>2, <3>1, ViewLoaded DEF History, SavesEvents, NextPlace, Shown
        <4> QED BY <4>1, <4>2
      <3>2. CASE \E histories : Ask(r, histories)
        BY <2>2, <3>2 DEF Ask, SavesEvents, Typed, ReadersTyped
      <3>3. CASE \E h \in History : MisreadView(r, h) \/ SaveView(r, h) \/ SaveViewFails(r, h)
        BY <2>2, <3>3 DEF MisreadView, SaveView, SaveViewFails, NextPlace, Shown, SavesEvents,
                          Typed, ReadersTyped
      <3>4. CASE Leave(r)
        BY <2>2, <3>4 DEF Leave, SavesEvents, Idle, Typed, ReadersTyped
      <3> QED BY <1>6, <3>1, <3>2, <3>3, <3>4
              DEF Read, ListEvents, ListAlerts, Status, BuildLocalReport, RefreshTables, History
    <2> QED BY <1>2, <1>3, <2>1, <2>2 DEF InLine
  <1> QED BY <1>4, <1>5, <1>6

-----------------------------------------------------------------------------
(* Where the event of an alert may be.                                      *)
Newer(n, events) == \A e \in events : e < n

(* Dropped from the monitor's memory before a save of it succeeded.         *)
Unsaved(n) == Doubted /\ AgedOut(memory["events"], n) /\ Newer(n, Kept)

Placed(n) ==
  \/ n \in file["events"] \cup memory["events"] \cup cut
  \/ Handled(n) \/ AgedOut(Kept, n) \/ Unsaved(n)

(* An alert in the file, in the monitor or loaded by a reader, any of which *)
(* a save may put into the file.                                            *)
Alerts == file["alerts"] \cup memory["alerts"] \cup UNION {view[r]["alerts"] : r \in Reader}
AllPlaced == \A n \in Alerts : Placed(n)

LEMMA AlertsAreNumbers == ASSUME Typed PROVE Alerts \subseteq 1 .. told
  BY DEF Alerts, Typed, MonitorTyped, NotesTyped, ReadersTyped, Records, History

LEMMA AlertsCome ==
  ASSUME Typed, Next, NEW n \in Alerts'
  PROVE  n \in Alerts \/ (Consider /\ at' = <<"save", "alerts">> /\ n = told')
  <1>1. /\ file \in Records /\ memory \in Records /\ view \in [Reader -> Records]
        /\ \A h \in History : Newest(h, file[h]) \subseteq file[h]
    BY NewestIsSome DEF Typed, MonitorTyped, NotesTyped, ReadersTyped, Newest
  <1>2. CASE Consider
    <2>1. /\ UNCHANGED <<file, view>>
          /\ \/ memory' = memory
             \/ /\ at' = <<"save", "alerts">> /\ told' = told + 1
                /\ memory'["alerts"] = Newest("alerts", memory["alerts"] \cup {told + 1})
      BY <1>1, <1>2 DEF Consider, Append, readers, Records, History
    <2>2. Newest("alerts", memory["alerts"] \cup {told + 1}) \subseteq memory["alerts"] \cup {told + 1}
      BY NewestIsSome DEF Newest
    <2> QED BY <1>2, <2>1, <2>2 DEF Alerts
  <1>3. CASE Monitor /\ ~Consider
    <2>1. view' = view
      BY <1>3 DEF Monitor, Start, Emit, End, Load, Misread, Save, SaveFails, readers
    <2>2. memory'["alerts"] \subseteq memory["alerts"] \cup file["alerts"]
      BY <1>1, <1>3 DEF Monitor, Start, Emit, Append, End, Load, Misread, Save, SaveFails, Nothing,
         Records, History
    <2>3. file'["alerts"] \subseteq memory["alerts"] \cup file["alerts"]
      BY <1>1, <1>3 DEF Monitor, Start, Emit, End, Load, Misread, Save, SaveFails, Records, History
    <2> QED BY <2>1, <2>2, <2>3 DEF Alerts
  <1>4. ASSUME NEW r \in Reader, Read(r) PROVE n \in Alerts
    <2>1. memory' = memory
      BY <1>4, ReaderOnEvents DEF monitor
    <2>2. file'["alerts"] \subseteq file["alerts"] \cup view[r]["alerts"]
      BY <1>1, <1>4 DEF Read, ListEvents, ListAlerts, Status, BuildLocalReport, RefreshTables, Ask,
         LoadView, MisreadView, SaveView, SaveViewFails, Leave, Records, History
    <2>3. ASSUME NEW q \in Reader
          PROVE  view'[q]["alerts"] \subseteq view[q]["alerts"] \cup file["alerts"]
      <3>1. CASE \E h \in History : LoadView(r, h)
        BY <1>1, <3>1, ViewLoaded DEF History
      <3>2. CASE Leave(r)
        BY <1>1, <3>2 DEF Leave, Nothing, History
      <3>3. CASE view' = view
        BY <3>3
      <3> QED BY <1>4, <3>1, <3>2, <3>3 DEF Read, ListEvents, ListAlerts, Status, BuildLocalReport,
                 RefreshTables, Ask, MisreadView, SaveView, SaveViewFails
    <2> QED BY <2>1, <2>2, <2>3 DEF Alerts
  <1> QED BY <1>2, <1>3, <1>4 DEF Next

(* No step loses track of an event that has an alert.                       *)
LEMMA StaysPlaced ==
  ASSUME Typed, Faithful, Fresh, InLine, Next, NEW n \in 1 .. told, Placed(n)
  PROVE  Placed(n)'
  <1> DEFINE F == file["events"]
             M == memory["events"]
  <1>1. /\ told \in Nat /\ n \in Nat /\ MaxRecords["events"] \in Nat \ {0}
        /\ F \in SUBSET (1 .. told) /\ M \in SUBSET (1 .. told) /\ Kept \in SUBSET (1 .. told)
        /\ Kept \subseteq F /\ Cardinality(M) <= MaxRecords["events"]
    BY EventSets
  <1>2. cut \subseteq cut'
    BY CutGrows
  <1>3. F = file'["events"] => Kept' = Kept
    BY DEF Kept, Newest
  <1>4. n \in F => n \in Kept \/ AgedOut(Kept, n)
    BY <1>1, Dropped DEF Kept
  <1>5. CASE LeavesEvents
    BY <1>3, <1>5 DEF LeavesEvents, Placed, Unsaved
  <1>6. CASE Load("events")
    <2>1. M = {} /\ ~Handled(n)
      BY <1>6 DEF Load, Fresh, HasLoaded, Handled, Emitting
    <2>2. ~AgedOut(M, n)
      BY <1>1, <2>1, FS_EmptySet DEF AgedOut
    <2> QED BY <1>3, <1>6, <2>1, <2>2, EventsLoaded DEF Placed, Unsaved
  <1>7. CASE Emit
    <2> DEFINE M2 == memory'["events"]
    <2>1. /\ file' = file /\ Kept' = Kept /\ cut' = cut /\ Doubted' = Doubted /\ told \in M2
          /\ M2 = Newest("events", M \cup {told}) /\ M2 \subseteq M \cup {told}
          /\ \A e \in F \cup M : e < told
      BY <1>3, <1>7, EventEmitted DEF Doubted, notes
    <2>2. CASE n \in M
      <3>1. n \in M2 \/ AgedOut(M2, n)
        <4> DEFINE U == M \cup {told}
        <4>1. U \in SUBSET (1 .. told) /\ n \in U
          BY <1>1, <1>7, <2>2, EventEmitted
        <4> HIDE DEF U
        <4>2. n \in Newest("events", U) \/ AgedOut(Newest("events", U), n)
          BY <1>1, <4>1, Dropped
        <4> QED BY <2>1, <4>2 DEF U
      <3>2. n \in F \/ (Doubted /\ (n \in Kept \/ Newer(n, Kept)))
        <4>1. CASE Doubted
          BY <2>2, <4>1 DEF InLine, Ahead, Newer
        <4>2. CASE ~Doubted
          <5>1. F = M
            BY <1>7, <4>2 DEF Emit, Faithful, Saved, HasLoaded, History, Doubted, Down, Emitting
          <5> QED BY <2>2, <5>1
        <4> QED BY <4>1, <4>2
      <3> QED BY <1>1, <2>1, <3>1, <3>2 DEF Placed, Unsaved
    <2>3. CASE Unsaved(n)
      <3>1. AgedOut(M2, n)
        <4>1. IsFiniteSet(M) /\ M \in SUBSET Nat /\ Cardinality(M) = MaxRecords["events"]
          BY <1>1, <2>3, FiniteRecords DEF Unsaved, AgedOut
        <4>2. Cardinality(M2) = MaxRecords["events"]
          BY <1>1, <2>1, <4>1, AppendToFull DEF Newest
        <4>3. PICK k \in M : TRUE
          BY <1>1, <4>1, FS_EmptySet
        <4>4. n < k /\ k < told /\ k \in Nat /\ \A e \in M : n < e
          BY <1>1, <2>1, <2>3, <4>3 DEF Unsaved, AgedOut, Older
        <4>5. n < told
          BY <1>1, <4>4
        <4> QED BY <2>1, <4>2, <4>4, <4>5 DEF AgedOut, Older
      <3> QED BY <2>1, <2>3, <3>1 DEF Placed, Unsaved
    <2>4. CASE n \in F \cup cut \/ AgedOut(Kept, n)
      BY <2>1, <2>4 DEF Placed
    <2>5. CASE Handled(n)
      BY <2>1, <2>5 DEF Placed, Handled
    <2> QED BY <2>2, <2>3, <2>4, <2>5 DEF Placed
  <1>8. CASE Save("events")
    <2>1. /\ file'["events"] = M /\ Kept' = M /\ memory' = memory /\ HasLoaded("events")
          /\ "events" \in astray => cut' = cut \cup ((1 .. told) \ M) /\ ~Handled(n)
      BY <1>8, EventsSaved
    <2>2. "events" \notin astray => ExtendsUpTo(MaxRecords["events"], Kept, M)
      BY <2>1 DEF Faithful, Extending, History, Kept
    <2>3. CASE n \in M \cup cut \/ Unsaved(n)
      BY <1>2, <2>1, <2>3 DEF Placed, Unsaved
    <2>4. CASE "events" \in astray
      BY <2>1, <2>4 DEF Placed
    <2>5. CASE "events" \notin astray /\ n \notin M /\ (n \in F \/ AgedOut(Kept, n))
      <3>1. AgedOut(M, n)
        <4>1. AgedOut(Kept, n) \/ n \in Kept \ M
          BY <1>4, <2>5
        <4> HIDE DEF M
        <4> QED BY <1>1, <2>2, <2>5, <4>1, StaysAgedOut
      <3> QED BY <2>1, <3>1 DEF Placed
    <2>6. ~Handled(n)
      BY <1>8, EventsSaved
    <2> QED BY <2>3, <2>4, <2>5, <2>6 DEF Placed
  <1>9. CASE End
    <2>1. file' = file /\ cut' = cut \cup (Owed \ F)
      BY <1>9 DEF End
    <2>2. CASE Doubted
      <3>1. n \in Owed
        BY <2>2 DEF Owed, Doubted
      <3> QED BY <2>1, <3>1 DEF Placed
    <2>3. CASE ~Doubted
      <3>1. n \in M \/ Handled(n) => n \in Owed
        BY <2>3 DEF Owed, Doubted, Handled
      <3> QED BY <1>3, <2>1, <2>3, <3>1 DEF Placed, Unsaved
    <2> QED BY <2>2, <2>3
  <1>10. ASSUME NEW r \in Reader, Read(r) PROVE Placed(n)'
    <2>1. UNCHANGED <<memory, at, told, behind>>
      BY <1>10, ReaderOnEvents DEF monitor
    <2>2. CASE file'["events"] = F /\ Doubted' = Doubted /\ cut' = cut
      BY <1>3, <2>1, <2>2 DEF Placed, Unsaved, Handled
    <2>3. CASE SaveView(r, "events")
      <3> DEFINE V == view[r]["events"]
      <3>1. /\ file'["events"] = V /\ Kept' = V
            /\ \/ V = Kept /\ astray' = astray /\ cut' = cut
               \/ "events" \in astray' /\ cut' = cut \cup ((1 .. told) \ (V \cup M))
        BY <2>3, EventsReplaced
      <3>2. CASE V = Kept /\ astray' = astray /\ cut' = cut
        BY <1>4, <2>1, <3>1, <3>2 DEF Placed, Unsaved, Handled, Doubted
      <3>3. CASE cut' = cut \cup ((1 .. told) \ (V \cup M))
        BY <2>1, <3>1, <3>3 DEF Placed
      <3> QED BY <3>1, <3>2, <3>3
    <2> QED BY <1>10, <2>2, <2>3, ReaderOnEvents
  <1> QED BY <1>5, <1>6, <1>7, <1>8, <1>9, <1>10, MonitorOnEvents DEF Next

LEMMA KeepsPlaced ==
  ASSUME Typed, Faithful, Fresh, InLine, AllPlaced, Next
  PROVE  AllPlaced'
  <1> SUFFICES ASSUME NEW n \in Alerts' PROVE Placed(n)'
    BY DEF AllPlaced
  <1>1. CASE n \in Alerts
    BY <1>1, AlertsAreNumbers, StaysPlaced DEF AllPlaced
  <1>2. CASE at' = <<"save", "alerts">> /\ n = told'
    BY <1>2 DEF Placed, Handled
  <1> QED BY <1>1, <1>2, AlertsCome

-----------------------------------------------------------------------------
(* A reader that shows both histories and has the events: every alert there *)
(* is, which it may yet load, fits them.                                    *)
Fits(n, events) == n \in events \cup cut \/ AgedOut(events, n) \/ Newer(n, events)
Beside(r) == wants[r] = History /\ place[r] \notin {Idle, <<"load", "events">>}
AllFit == \A r \in Reader : Beside(r) => \A n \in Alerts : Fits(n, view[r]["events"])

LEMMA PlacedFitsKept ==
  ASSUME Typed, InLine, NEW n \in 1 .. told, Placed(n)
  PROVE  Fits(n, Kept)
  <1>1. /\ told \in Nat /\ file["events"] \in SUBSET (1 .. told)
        /\ Kept \subseteq file["events"]
    BY EventSets
  <1>2. CASE n \in file["events"]
    <2>1. n \in Kept \/ AgedOut(Kept, n)
      BY <1>1, <1>2, Dropped DEF Kept
    <2> QED BY <2>1 DEF Fits
  <1>3. CASE n \in memory["events"]
    BY <1>3 DEF InLine, Ahead, Fits, Newer
  <1>4. CASE Handled(n)
    <2>1. \A e \in file["events"] : e < told
      BY <1>1, <1>4 DEF Handled, Typed, Handling
    <2> QED BY <1>1, <1>4, <2>1 DEF Handled, Fits, Newer
  <1>5. CASE n \in cut \/ AgedOut(Kept, n) \/ Unsaved(n)
    BY <1>5 DEF Fits, Unsaved
  <1> QED BY <1>2, <1>3, <1>4, <1>5 DEF Placed

LEMMA KeepsFit ==
  ASSUME Typed, Fresh, InLine, AllPlaced, AllFit, Next
  PROVE  AllFit'
  <1> SUFFICES ASSUME NEW r \in Reader, Beside(r)', NEW n \in Alerts'
               PROVE  Fits(n, view[r]["events"])'
    BY DEF AllFit
  <1>1. cut \subseteq cut'
    BY CutGrows
  <1>2. \A V : Fits(n, V) => (n \in V \cup cut' \/ AgedOut(V, n) \/ Newer(n, V))
    BY <1>1 DEF Fits
  <1>3. Fits(n, view[r]["events"])' <=>
          \/ n \in view'[r]["events"] \cup cut' \/ AgedOut(view'[r]["events"], n)
          \/ Newer(n, view'[r]["events"])
    BY DEF Fits, AgedOut, Older, Newer
  <1>4. CASE n \in Alerts
    <2>1. CASE Beside(r) /\ view'[r]["events"] = view[r]["events"]
      BY <1>2, <1>3, <1>4, <2>1 DEF AllFit
    <2>2. CASE view'[r]["events"] = {}
      BY <1>3, <2>2 DEF Newer
    <2>3. CASE view'[r]["events"] = Kept
      BY <1>2, <1>3, <1>4, <2>3, AlertsAreNumbers, PlacedFitsKept DEF AllPlaced
    <2>4. CASE Monitor
      <3>1. UNCHANGED readers
        BY <2>4 DEF Monitor, Start, Consider, Emit, End, Load, Misread, Save, SaveFails
      <3> QED BY <2>1, <3>1 DEF Beside, readers
    <2>5. ASSUME NEW q \in Reader, Read(q)
          PROVE  \/ Beside(r) /\ view'[r]["events"] = view[r]["events"]
                 \/ view'[r]["events"] \in {{}, Kept}
      <3>1. CASE \E h \in History : LoadView(q, h)
        <4>1. PICK h \in History : LoadView(q, h)
          BY <3>1
        <4>2. CASE r = q /\ h = "events"
          BY <4>1, <4>2, ViewLoaded DEF Kept, History
        <4>3. CASE r = q /\ h # "events"
          BY <4>1, <4>3, ViewLoaded DEF Beside, History, Idle, LoadView
        <4>4. CASE r # q
          BY <4>1, <4>4, ViewLoaded DEF Beside, History
        <4> QED BY <4>2, <4>3, <4>4
      <3>2. CASE \E h \in History : MisreadView(q, h) \/ SaveView(q, h) \/ SaveViewFails(q, h)
        <4>1. UNCHANGED <<view, wants>> /\ (r # q => place'[r] = place[r])
          BY <3>2 DEF MisreadView, SaveView, SaveViewFails, Typed, ReadersTyped
        <4>2. CASE place[r] = <<"load", "events">>
          BY <4>1, <4>2 DEF Fresh
        <4>3. CASE place[r] # <<"load", "events">>
          <5>1. r = q => place[r] # Idle
            BY <3>2 DEF MisreadView, SaveView, SaveViewFails, Idle
          <5> QED BY <4>1, <4>3, <5>1 DEF Beside
        <4> QED BY <4>2, <4>3
      <3>3. CASE \E histories : Ask(q, histories)
        <4>1. CASE r = q
          <5>1. PICK histories : Ask(q, histories)
            BY <3>3
          <5>2. wants'[r] = histories
            BY <4>1, <5>1 DEF Ask, Typed, ReadersTyped
          <5>3. histories = History => place'[r] = <<"load", "events">>
            BY <4>1, <5>1 DEF Ask, Typed, ReadersTyped, History
          <5> QED BY <5>2, <5>3 DEF Beside
        <4>2. CASE r # q
          BY <3>3, <4>2 DEF Ask, Beside, Typed, ReadersTyped
        <4> QED BY <4>1, <4>2
      <3>4. CASE Leave(q)
        BY <3>4 DEF Leave, Nothing, History, Beside, Typed, ReadersTyped
      <3> QED BY <2>5, <3>1, <3>2, <3>3, <3>4
              DEF Read, ListEvents, ListAlerts, Status, BuildLocalReport, RefreshTables
    <2> QED BY <2>1, <2>2, <2>3, <2>4, <2>5 DEF Next
  <1>5. CASE Consider /\ n = told'
    <2>1. told' = told + 1 /\ UNCHANGED readers /\ told \in Nat
      BY <1>5, EventSets DEF Consider
    <2>2. \A e \in view[r]["events"] : e < told + 1
      BY <2>1, EventSets
    <2> QED BY <1>3, <1>5, <2>1, <2>2 DEF Newer, readers
  <1> QED BY <1>4, <1>5, AlertsCome

-----------------------------------------------------------------------------
(* The inductive invariant of both histories together.                      *)
Coherent == Fresh /\ InLine /\ AllPlaced /\ AllFit

LEMMA InitCoherent == Init => Coherent
  <1> SUFFICES ASSUME Init PROVE Coherent
    OBVIOUS
  <1>1. /\ memory["events"] = {} /\ memory["alerts"] = {}
        /\ \A r \in Reader : /\ place[r] = Idle
                             /\ view[r]["events"] = {} /\ view[r]["alerts"] = {}
    BY DEF Init, Nothing, History
  <1>2. file["alerts"] \subseteq file["events"]
    BY HistoryAssumption DEF Init
  <1>3. Fresh
    BY <1>1 DEF Fresh
  <1>4. InLine
    BY <1>1, AheadOfItself DEF InLine, SavesEvents, Idle
  <1>5. AllPlaced
    BY <1>1, <1>2 DEF AllPlaced, Alerts, Placed
  <1>6. AllFit
    BY <1>1 DEF AllFit, Beside
  <1> QED BY <1>3, <1>4, <1>5, <1>6 DEF Coherent

THEOREM CoherentAlways == Spec => [](Typed /\ Faithful /\ Coherent)
  <1>1. Typed /\ Faithful /\ Coherent /\ [Next]_vars => Coherent'
    <2> SUFFICES ASSUME Typed, Faithful, Coherent, [Next]_vars PROVE Coherent'
      OBVIOUS
    <2> USE DEF Coherent
    <2>1. CASE UNCHANGED vars
      BY <2>1 DEF vars, monitor, readers, notes, Fresh, InLine, AllPlaced, AllFit, HasLoaded,
         SavesEvents, Kept, Newest, Alerts, Placed, Handled, Unsaved, Doubted, Beside, Fits,
         AgedOut, Older, Newer
    <2>2. CASE Next
      <3>1. AllPlaced' /\ AllFit'
        BY <2>2, KeepsPlaced, KeepsFit
      <3>2. Fresh' /\ InLine'
        BY <2>2, MonitorKeepsFresh, MonitorKeepsInLine, ReaderKeepsFresh, ReaderKeepsInLine DEF Next
      <3> QED BY <3>1, <3>2
    <2> QED BY <2>1, <2>2
  <1> QED BY <1>1, InitCoherent, FaithfulAlways, PTL DEF Spec

(* An alert in alerts.json has its event in events.json, unless that has    *)
(* aged out, is the monitor's to save, or a fault is known to have cost it. *)
THEOREM AlertsCanBeLookedUp == Spec => []AlertsHaveTheirEvent
  <1>1. AllPlaced => AlertsHaveTheirEvent
    BY DEF AllPlaced, AlertsHaveTheirEvent, Alerts, Placed, Handled, Unsaved, Kept
  <1> QED BY <1>1, CoherentAlways, PTL DEF Coherent

(* _apply_limit cuts off only what is older than the full page it leaves.   *)
LEMMA RowsCut ==
  ASSUME Typed, NEW r \in Reader, NEW h \in History
  PROVE  /\ Rows(r, h) \subseteq view[r][h]
         /\ \A n \in view[r][h] \ Rows(r, h) :
              Older(Rows(r, h), n) /\ Cardinality(Rows(r, h)) = Limit /\ Limit # 0
  <1>1. view[r][h] \in SUBSET (1 .. told) /\ told \in Nat /\ Limit \in Nat
    BY HistoryAssumption DEF Typed, ReadersTyped, MonitorTyped, Records
  <1>2. CASE Limit = 0
    BY <1>2 DEF Rows
  <1>3. CASE Limit # 0
    <2>1. Rows(r, h) = NewestOf(view[r][h], Limit)
      BY <1>3 DEF Rows
    <2>2. \A n \in view[r][h] \ NewestOf(view[r][h], Limit) :
            /\ \A e \in NewestOf(view[r][h], Limit) : n < e
            /\ Cardinality(NewestOf(view[r][h], Limit)) = Limit
      BY <1>1, NewestDrops
    <2>3. NewestOf(view[r][h], Limit) \subseteq view[r][h]
      BY NewestIsSome
    <2> QED BY <1>3, <2>1, <2>2, <2>3 DEF Older
  <1> QED BY <1>2, <1>3

(* A report made while the monitor goes on: an alert in it whose event it   *)
(* does not show is older than the full page of events it shows, or came    *)
(* after they were loaded, or a named fault cost the event.                 *)
THEOREM ReportsAreCoherent == Spec => []ReportIsCoherent
  <1>1. Typed /\ AllFit => ReportIsCoherent
    <2> SUFFICES ASSUME Typed, AllFit, NEW r \in Reader, place[r] = Shown, wants[r] = History,
                        NEW n \in Rows(r, "alerts")
                 PROVE  \/ n \in Rows(r, "events") \cup cut
                        \/ Older(Rows(r, "events"), n) /\ Full(r)
                        \/ \A e \in view[r]["events"] : e < n
      BY DEF ReportIsCoherent
    <2> DEFINE rows == Rows(r, "events")
               loaded == view[r]["events"]
    <2>1. Beside(r) /\ n \in Alerts
      BY RowsCut DEF Beside, Shown, Idle, Alerts, History
    <2>2. Fits(n, loaded)
      BY <2>1 DEF AllFit
    <2>3. /\ rows \subseteq loaded
          /\ \A m \in loaded \ rows : Older(rows, m) /\ Cardinality(rows) = Limit /\ Limit # 0
      BY RowsCut DEF History
    <2>4. rows # loaded => Full(r)
      BY <2>3 DEF Full
    <2>5. CASE n \in loaded
      BY <2>3, <2>4, <2>5
    <2>6. CASE AgedOut(loaded, n)
      <3>1. Older(rows, n)
        BY <2>3, <2>6 DEF AgedOut, Older
      <3>2. rows = loaded => Full(r)
        BY <2>6 DEF AgedOut, Full
      <3> QED BY <2>4, <3>1, <3>2
    <2> QED BY <2>2, <2>5, <2>6 DEF Fits, Newer
  <1> QED BY <1>1, CoherentAlways, PTL DEF Coherent
=============================================================================

----------------------- MODULE EventNormalizer_proofs -----------------------
(* The coalescer's properties, for every set of raw notifications and every *)
(* choice of the windows: no event mixes two devices, every notification is *)
(* told once, and an event spans no more than the windows.                  *)
EXTENDS EventNormalizer, FiniteSetTheorems, TLAPS

(* What a raw joins is a burst, and it stays one.                           *)
LEMMA MergeType ==
  ASSUME TypeOK, Len(seen) < MaxRaws, NEW r \in Raw, NEW b \in Burst
  PROVE  /\ Merge(b, r) \in Burst
         /\ Merge(b, r).raws = b.raws \cup {Len(seen) + 1}
         /\ Merge(b, r).action = b.action
         /\ Merge(b, r).letter = FirstOf(b.letter, r.letter)
         /\ Merge(b, r).vidpid = FirstOf(b.vidpid, r.vidpid)
         /\ Merge(b, r).instance = FirstOf(b.instance, r.instance)
         /\ Merge(b, r).first = b.first /\ Merge(b, r).last = now
  <1>1. Len(seen) + 1 \in 1 .. MaxRaws /\ now \in 0 .. MaxTime
    BY NormalizerAssumption DEF TypeOK
  <1>2. /\ FirstOf(b.letter, r.letter) \in {x.letter : x \in Raw} \cup {None}
        /\ FirstOf(b.vidpid, r.vidpid) \in {x.vidpid : x \in Raw} \cup {None}
        /\ FirstOf(b.instance, r.instance) \in {x.instance : x \in Raw} \cup {None}
    BY DEF FirstOf, Burst
  <1>3. (IF PreferPath(r.path, b.path) THEN r.path ELSE b.path)
          \in {x.path : x \in Raw} \cup {None}
    BY DEF Burst
  <1> QED BY <1>1, <1>2, <1>3 DEF Merge, Burst

LEMMA NewBurstType ==
  ASSUME TypeOK, Len(seen) < MaxRaws, NEW r \in Raw
  PROVE  /\ NewBurst(r) \in Burst
         /\ NewBurst(r).raws = {}
         /\ NewBurst(r).action = r.action
         /\ NewBurst(r).letter = None
         /\ NewBurst(r).vidpid = None
         /\ NewBurst(r).instance = None
         /\ NewBurst(r).first = now
  BY NormalizerAssumption DEF TypeOK, NewBurst, Burst

(* What ingesting does to the bursts and to the history.                    *)
LEMMA IngestCases ==
  ASSUME TypeOK, NEW r \in Raw, Ingest(r)
  PROVE  /\ Len(seen) < MaxRaws
         /\ Len(seen') = Len(seen) + 1
         /\ seen' \in Seq([raw : Raw, at : 0 .. MaxTime])
         /\ \A i \in 1 .. Len(seen) : seen'[i] = seen[i]
         /\ seen'[Len(seen) + 1].raw = r /\ seen'[Len(seen) + 1].at = now
         /\ Close({b \in open : Ready(b)})
         /\ now' = now
         /\ \/ open' = {b \in open : ~Ready(b)} \cup {Merge(NewBurst(r), r)}
            \/ \E b \in open :
                 /\ IsCompatible(b, r) /\ ~Ready(b)
                 /\ open' = {c \in open : ~Ready(c) /\ c # b} \cup {Merge(b, r)}
  <1> DEFINE waiting == {b \in open : ~Ready(b)}
             fitting == {b \in waiting : IsCompatible(b, r)}
  <1>1. /\ Len(seen') = Len(seen) + 1
        /\ seen' \in Seq([raw : Raw, at : 0 .. MaxTime])
        /\ \A i \in 1 .. Len(seen) : seen'[i] = seen[i]
        /\ seen'[Len(seen) + 1].raw = r /\ seen'[Len(seen) + 1].at = now
    BY DEF Ingest, TypeOK
  <1>2. open \ waiting = {b \in open : Ready(b)}
    OBVIOUS
  <1>3. Len(seen) < MaxRaws /\ Close({b \in open : Ready(b)}) /\ now' = now
    BY <1>2 DEF Ingest
  <1>4. CASE open' = waiting \cup {Merge(NewBurst(r), r)}
    BY <1>1, <1>3, <1>4
  <1>5. ASSUME NEW b \in fitting, open' = (waiting \ {b}) \cup {Merge(b, r)}
        PROVE  /\ IsCompatible(b, r) /\ ~Ready(b) /\ b \in open
               /\ open' = {c \in open : ~Ready(c) /\ c # b} \cup {Merge(b, r)}
    BY <1>5
  <1> QED BY <1>1, <1>3, <1>4, <1>5 DEF Ingest

(* Closing bursts moves their raws, unchanged, to events or to the noise.   *)
LEMMA CloseCases ==
  ASSUME NEW bursts, bursts \subseteq open, Close(bursts)
  PROVE  /\ \A e \in events' : e \in events \/ \E b \in open : e.raws = b.raws
         /\ \A b \in dropped' : b \in dropped \/ b \in open
  BY DEF Close, BurstToEvent

(* A step either ingests, or only closes bursts, or lets time pass.         *)
LEMMA FlushCases ==
  ASSUME FlushReady \/ FlushAll
  PROVE  /\ UNCHANGED <<now, seen>>
         /\ open' \subseteq open
         /\ \E bursts : bursts \subseteq open /\ Close(bursts)
  <1>1. CASE FlushReady
    <2>1. {b \in open : Ready(b)} \subseteq open
      OBVIOUS
    <2> QED BY <1>1, <2>1 DEF FlushReady
  <1>2. CASE FlushAll
    BY <1>2 DEF FlushAll
  <1> QED BY <1>1, <1>2

LEMMA IngestKeepsType == ASSUME TypeOK, NEW r \in Raw, Ingest(r) PROVE TypeOK'
  <1>0. Len(seen) \in Nat /\ MaxRaws \in Nat
    BY NormalizerAssumption DEF TypeOK
  <1>1. /\ Len(seen) < MaxRaws
        /\ Len(seen') = Len(seen) + 1
        /\ seen' \in Seq([raw : Raw, at : 0 .. MaxTime])
        /\ now' = now
    BY IngestCases
  <1>2. \A c \in open' : c \in Burst /\ c.raws \subseteq 1 .. Len(seen')
    <2>1. ASSUME NEW b \in Burst, b.raws \subseteq 1 .. Len(seen)
          PROVE  Merge(b, r) \in Burst /\ Merge(b, r).raws \subseteq 1 .. Len(seen')
      BY <1>0, <1>1, <2>1, MergeType
    <2>2. Merge(NewBurst(r), r) \in Burst /\ Merge(NewBurst(r), r).raws \subseteq 1 .. Len(seen')
      BY <1>1, <2>1, NewBurstType
    <2>3. \A c \in open : /\ c \in Burst /\ c.raws \subseteq 1 .. Len(seen)
                          /\ c.raws \subseteq 1 .. Len(seen')
      BY <1>0, <1>1 DEF TypeOK
    <2>4. ASSUME NEW c \in open'
          PROVE  c \in open \/ c = Merge(NewBurst(r), r) \/ \E b \in open : c = Merge(b, r)
      BY <2>4, IngestCases
    <2> QED BY <2>1, <2>2, <2>3, <2>4
  <1>3. Close({b \in open : Ready(b)})
    BY IngestCases
  <1>4. /\ \A e \in events' : e \in events \/ \E b \in open : e.raws = b.raws
        /\ \A b \in dropped' : b \in dropped \/ b \in open
    <2>1. {b \in open : Ready(b)} \subseteq open
      OBVIOUS
    <2> QED BY <1>3, <2>1, CloseCases
  <1>5. \A b \in dropped' : b \in Burst
    BY <1>4 DEF TypeOK
  <1>6. \A b \in dropped' \cup events' : b.raws \subseteq 1 .. Len(seen')
    <2>1. \A b \in open \cup dropped \cup events : b.raws \subseteq 1 .. Len(seen')
      BY <1>0, <1>1 DEF TypeOK
    <2> QED BY <1>4, <2>1
  <1> QED BY <1>0, <1>1, <1>2, <1>5, <1>6 DEF TypeOK

(* The state is well typed, and every burst and event names raws that were  *)
(* seen.                                                                    *)
THEOREM TypeCorrect == Spec => []TypeOK
  <1>1. Init => TypeOK
    BY NormalizerAssumption DEF Init, TypeOK
  <1>2. TypeOK /\ [Next]_vars => TypeOK'
    <2> SUFFICES ASSUME TypeOK, [Next]_vars PROVE TypeOK'
      OBVIOUS
    <2>1. CASE \E r \in Raw : Ingest(r)
      BY <2>1, IngestKeepsType
    <2>2. CASE FlushReady \/ FlushAll
      <3>1. PICK bursts : bursts \subseteq open /\ Close(bursts)
        BY <2>2, FlushCases
      <3>2. UNCHANGED <<now, seen>> /\ open' \subseteq open
        BY <2>2, FlushCases
      <3>3. /\ \A e \in events' : e \in events \/ \E b \in open : e.raws = b.raws
            /\ \A b \in dropped' : b \in dropped \/ b \in open
        BY <3>1, CloseCases
      <3> QED BY <3>2, <3>3 DEF TypeOK
    <2>3. CASE Tick
      BY <2>3, NormalizerAssumption DEF Tick, TypeOK
    <2>4. CASE UNCHANGED vars
      BY <2>4 DEF vars, TypeOK
    <2> QED BY <2>1, <2>2, <2>3, <2>4 DEF Next
  <1> QED BY <1>1, <1>2, PTL DEF Spec

-----------------------------------------------------------------------------
(* A burst has the action of its raws, and every value one of them had.     *)
Covers(b) ==
  \A i \in b.raws :
    LET r == seen[i].raw
    IN  /\ r.action = b.action
        /\ r.letter # None => b.letter = r.letter
        /\ r.vidpid # None => b.vidpid = r.vidpid
        /\ r.instance # None =>
             b.instance # None /\ FoldInstance(b.instance) = FoldInstance(r.instance)

(* What keeps them apart: no raw joins a burst that does not cover it.      *)
BurstsCoverTheirRaws == \A b \in open : Covers(b)

(* Raws covered by one burst are pairwise tellable as one device.           *)
LEMMA CoveredIsSameDevice ==
  ASSUME NEW b, Covers(b)
  PROVE  SameDevice(b.raws)
  BY DEF Covers, SameDevice, Agree, FoldInstance

(* The history only grows: what was said of old raws stays true.            *)
LEMMA HistoryGrows ==
  ASSUME \A i \in 1 .. Len(seen) : seen'[i] = seen[i]
  PROVE  /\ \A raws : raws \subseteq 1 .. Len(seen) /\ SameDevice(raws) => SameDevice(raws)'
         /\ \A b : b.raws \subseteq 1 .. Len(seen) /\ Covers(b) => Covers(b)'
  <1>1. ASSUME NEW raws, raws \subseteq 1 .. Len(seen), SameDevice(raws)
        PROVE  SameDevice(raws)'
    BY <1>1 DEF SameDevice
  <1>2. ASSUME NEW b, b.raws \subseteq 1 .. Len(seen), Covers(b)
        PROVE  Covers(b)'
    BY <1>2 DEF Covers
  <1> QED BY <1>1, <1>2

(* is_compatible guards merge: the joined burst covers the new raw as well. *)
LEMMA JoinedBurstCovers ==
  ASSUME TypeOK, NEW r \in Raw, Ingest(r), NEW b \in Burst,
         b.raws \subseteq 1 .. Len(seen), Covers(b), IsCompatible(b, r),
         NEW c, c = Merge(b, r)
  PROVE  Covers(c)'
  <1>1. /\ Len(seen) < MaxRaws
        /\ \A i \in 1 .. Len(seen) : seen'[i] = seen[i]
        /\ seen'[Len(seen) + 1].raw = r
    BY IngestCases
  <1>2. /\ c.raws = b.raws \cup {Len(seen) + 1}
        /\ c.action = b.action
        /\ c.letter = FirstOf(b.letter, r.letter)
        /\ c.vidpid = FirstOf(b.vidpid, r.vidpid)
        /\ c.instance = FirstOf(b.instance, r.instance)
    BY <1>1, MergeType
  <1>3. Covers(b)'
    BY <1>1, HistoryGrows
  <1> SUFFICES ASSUME NEW i \in c.raws
               PROVE  LET s == seen'[i].raw
                      IN  /\ s.action = c.action
                          /\ s.letter # None => c.letter = s.letter
                          /\ s.vidpid # None => c.vidpid = s.vidpid
                          /\ s.instance # None =>
                               c.instance # None
                               /\ FoldInstance(c.instance) = FoldInstance(s.instance)
    BY DEF Covers
  <1>4. CASE i \in b.raws
    BY <1>2, <1>3, <1>4 DEF Covers, FirstOf
  <1>5. CASE i = Len(seen) + 1
    <2>1. seen'[i].raw = r
      BY <1>1, <1>5
    <2>2. r.instance # None => FoldInstance(r.instance) # None
      BY NormalizerAssumption DEF FoldInstance
    <2>3. b.instance # None => FoldInstance(b.instance) # None
      <3>1. b.instance \in {x.instance : x \in Raw} \cup {None}
        BY DEF Burst
      <3> QED BY <3>1, NormalizerAssumption DEF FoldInstance
    <2> QED BY <1>2, <2>1, <2>2, <2>3 DEF IsCompatible, Agree, FirstOf
  <1> QED BY <1>2, <1>4, <1>5

LEMMA IngestKeepsCover ==
  ASSUME TypeOK, BurstsCoverTheirRaws, NEW r \in Raw, Ingest(r)
  PROVE  BurstsCoverTheirRaws'
  <1>1. \A i \in 1 .. Len(seen) : seen'[i] = seen[i]
    BY IngestCases
  <1>2. ASSUME NEW c \in open PROVE Covers(c)'
    BY <1>1, HistoryGrows DEF BurstsCoverTheirRaws, TypeOK
  <1>3. ASSUME NEW b \in open, IsCompatible(b, r), NEW c, c = Merge(b, r) PROVE Covers(c)'
    BY <1>3, JoinedBurstCovers DEF BurstsCoverTheirRaws, TypeOK
  <1>4. ASSUME NEW c, c = Merge(NewBurst(r), r) PROVE Covers(c)'
    <2>1. PICK b : b = NewBurst(r)
      OBVIOUS
    <2>2. b \in Burst /\ b.raws = {} /\ IsCompatible(b, r)
      BY <2>1, NewBurstType, IngestCases DEF IsCompatible, Agree, FoldInstance
    <2>3. Covers(b)
      BY <2>2 DEF Covers
    <2> QED BY <1>4, <2>1, <2>2, <2>3, JoinedBurstCovers
  <1>5. ASSUME NEW c \in open'
        PROVE  \/ c \in open
               \/ c = Merge(NewBurst(r), r)
               \/ \E b \in open : IsCompatible(b, r) /\ c = Merge(b, r)
    BY <1>5, IngestCases
  <1> QED BY <1>2, <1>3, <1>4, <1>5 DEF BurstsCoverTheirRaws

(* Closing covered bursts yields events and noise of one device each.       *)
LEMMA CloseKeepsUnmixed ==
  ASSUME TypeOK, BurstsCoverTheirRaws, NoMixedEvents,
         \A i \in 1 .. Len(seen) : seen'[i] = seen[i],
         \A b \in open' : Covers(b)',
         NEW bursts, bursts \subseteq open, Close(bursts)
  PROVE  NoMixedEvents'
  <1>1. \A x \in open \cup dropped \cup events : SameDevice(x.raws)'
    <2>1. \A x \in open \cup dropped \cup events : SameDevice(x.raws)
      BY CoveredIsSameDevice DEF NoMixedEvents, BurstsCoverTheirRaws
    <2> QED BY <2>1, HistoryGrows DEF TypeOK
  <1>2. ASSUME NEW b \in open' PROVE SameDevice(b.raws)'
    BY CoveredIsSameDevice, Covers(b)' DEF Covers, SameDevice, Agree, FoldInstance
  <1> QED BY <1>1, <1>2, CloseCases DEF NoMixedEvents

LEMMA AlwaysCovered == Spec => [](BurstsCoverTheirRaws /\ NoMixedEvents)
  <1>1. Init => BurstsCoverTheirRaws /\ NoMixedEvents
    BY DEF Init, BurstsCoverTheirRaws, NoMixedEvents
  <1>2. TypeOK /\ BurstsCoverTheirRaws /\ NoMixedEvents /\ [Next]_vars
          => BurstsCoverTheirRaws' /\ NoMixedEvents'
    <2> SUFFICES ASSUME TypeOK, BurstsCoverTheirRaws, NoMixedEvents, [Next]_vars
                 PROVE  BurstsCoverTheirRaws' /\ NoMixedEvents'
      OBVIOUS
    <2>1. ASSUME NEW r \in Raw, Ingest(r)
          PROVE  BurstsCoverTheirRaws' /\ NoMixedEvents'
      <3>1. BurstsCoverTheirRaws'
        BY <2>1, IngestKeepsCover
      <3>2. {b \in open : Ready(b)} \subseteq open
        OBVIOUS
      <3> QED BY <2>1, <3>1, <3>2, IngestCases, CloseKeepsUnmixed DEF BurstsCoverTheirRaws
    <2>2. CASE FlushReady \/ FlushAll
      <3>1. PICK bursts : bursts \subseteq open /\ Close(bursts)
        BY <2>2, FlushCases
      <3>2. seen' = seen /\ open' \subseteq open
        BY <2>2, FlushCases
      <3>3. BurstsCoverTheirRaws'
        BY <3>2 DEF BurstsCoverTheirRaws, Covers
      <3> QED BY <3>1, <3>2, <3>3, CloseKeepsUnmixed DEF BurstsCoverTheirRaws
    <2>3. CASE UNCHANGED <<open, seen, events, dropped>>
      BY <2>3 DEF BurstsCoverTheirRaws, NoMixedEvents, Covers, SameDevice
    <2> QED BY <2>1, <2>2, <2>3 DEF Next, Tick, vars
  <1> QED BY <1>1, <1>2, TypeCorrect, PTL DEF Spec

(* No event, and no burst, ever mixes what it was told are two devices.     *)
THEOREM EventsAreUnmixed == Spec => []NoMixedEvents
  BY AlwaysCovered, PTL

-----------------------------------------------------------------------------
(* Every raw is in one place: the bursts, the noise and the events share no *)
(* raw, and together they have all of them.                                 *)
Apart(bursts, noise, told) ==
  /\ bursts \cap noise = {}
  /\ \A b, c \in bursts \cup noise : b # c => b.raws \cap c.raws = {}
  /\ \A e, f \in told : e # f => e.raws \cap f.raws = {}
  /\ \A b \in bursts \cup noise, e \in told : b.raws \cap e.raws = {}
Holds(bursts, noise, told, raws) ==
  \A i \in raws : \E x \in bursts \cup noise \cup told : i \in x.raws
Accounted == Apart(open, dropped, events) /\ Holds(open, dropped, events, 1 .. Len(seen))

LEMMA AccountedIsOnce == ASSUME Accounted PROVE EachRawOnce
  <1>1. ASSUME NEW i \in 1 .. Len(seen) PROVE \E x : Owners(i) = {x}
    <2>1. PICK x \in open \cup dropped \cup events : i \in x.raws
      BY DEF Accounted, Holds
    <2>2. x \in Owners(i)
      BY <2>1 DEF Owners
    <2>3. ASSUME NEW y \in Owners(i), NEW z \in Owners(i) PROVE y = z
      BY DEF Owners, Accounted, Apart
    <2> QED BY <2>2, <2>3
  <1>2. ASSUME NEW i \in 1 .. Len(seen) PROVE Cardinality(Owners(i)) = 1
    BY <1>1, FS_Singleton
  <1> QED BY <1>2 DEF EachRawOnce, Accounted, Apart

(* Closing moves a burst's raws to one event or to the noise, never both.   *)
LEMMA CloseKeepsApart ==
  ASSUME Apart(open, dropped, events), NEW raws, Holds(open, dropped, events, raws),
         NEW bursts, bursts \subseteq open, Close(bursts)
  PROVE  /\ Apart(open \ bursts, dropped', events')
         /\ Holds(open \ bursts, dropped', events', raws)
  <1>1. /\ \A e \in events' : \/ e \in events
                              \/ \E b \in bursts : ShouldEmit(b) /\ e = BurstToEvent(b)
        /\ \A b \in bursts : ShouldEmit(b) => BurstToEvent(b) \in events'
        /\ events \subseteq events'
        /\ dropped' = dropped \cup {b \in bursts : ~ShouldEmit(b)}
    BY DEF Close
  <1>2. \A b : BurstToEvent(b).raws = b.raws
    BY DEF BurstToEvent
  <1>3. ASSUME NEW e \in events', NEW f \in events', e # f PROVE e.raws \cap f.raws = {}
    BY <1>1, <1>2, <1>3 DEF Apart
  <1>4. ASSUME NEW b \in (open \ bursts) \cup dropped', NEW e \in events'
        PROVE  b.raws \cap e.raws = {}
    <2>1. b \in open \cup dropped
      BY <1>1
    <2>2. CASE e \in events
      BY <2>1, <2>2 DEF Apart
    <2>3. ASSUME NEW c \in bursts, ShouldEmit(c), e = BurstToEvent(c)
          PROVE  b.raws \cap e.raws = {}
      <3>1. b # c
        BY <1>1, <2>3 DEF Apart
      <3> QED BY <1>2, <2>1, <2>3, <3>1 DEF Apart
    <2> QED BY <1>1, <2>2, <2>3
  <1>5. (open \ bursts) \cap dropped' = {}
    BY <1>1 DEF Apart
  <1>6. \A b, c \in (open \ bursts) \cup dropped' : b # c => b.raws \cap c.raws = {}
    BY <1>1 DEF Apart
  <1>7. ASSUME NEW i \in raws
        PROVE  \E x \in (open \ bursts) \cup dropped' \cup events' : i \in x.raws
    <2>1. PICK x \in open \cup dropped \cup events : i \in x.raws
      BY DEF Holds
    <2>2. CASE x \in bursts /\ ShouldEmit(x)
      BY <1>1, <1>2, <2>1, <2>2
    <2> QED BY <1>1, <2>1, <2>2
  <1> QED BY <1>3, <1>4, <1>5, <1>6, <1>7 DEF Apart, Holds

(* The new raw goes to one burst, which keeps the raws it had.              *)
LEMMA JoinKeepsApart ==
  ASSUME NEW n \in Nat, NEW bursts, NEW noise, NEW told, NEW rest, NEW had, NEW m,
         Apart(bursts, noise, told), Holds(bursts, noise, told, 1 .. n),
         \A x \in bursts \cup noise \cup told : x.raws \subseteq 1 .. n,
         \/ rest = bursts /\ had = {}
         \/ \E b \in bursts : rest = bursts \ {b} /\ had = b.raws,
         m.raws = had \cup {n + 1}
  PROVE  /\ Apart(rest \cup {m}, noise, told)
         /\ Holds(rest \cup {m}, noise, told, 1 .. n + 1)
  <1>1. rest \subseteq bursts
    OBVIOUS
  <1>2. \A x \in bursts \cup noise \cup told : n + 1 \notin x.raws
    OBVIOUS
  <1>3. m \notin noise
    BY <1>2
  <1>4. \A x \in rest \cup noise \cup told : had \cap x.raws = {}
    BY DEF Apart
  <1>5. \A x \in rest \cup noise \cup told : m.raws \cap x.raws = {}
    BY <1>1, <1>2, <1>4
  <1>6. Apart(rest \cup {m}, noise, told)
    BY <1>1, <1>3, <1>5 DEF Apart
  <1>7. ASSUME NEW i \in 1 .. n + 1
        PROVE  \E x \in (rest \cup {m}) \cup noise \cup told : i \in x.raws
    <2>1. CASE i = n + 1
      BY <2>1
    <2>2. CASE i \in 1 .. n
      <3>1. PICK x \in bursts \cup noise \cup told : i \in x.raws
        BY <2>2 DEF Holds
      <3> QED BY <3>1
    <2> QED BY <2>1, <2>2
  <1> QED BY <1>6, <1>7 DEF Holds

LEMMA IngestKeepsAccount ==
  ASSUME TypeOK, TypeOK', Accounted, NEW r \in Raw, Ingest(r)
  PROVE  Accounted'
  <1> DEFINE ready == {b \in open : Ready(b)}
             waiting == open \ ready
  <1>0. Len(seen) < MaxRaws /\ Len(seen') = Len(seen) + 1 /\ Close(ready)
    BY IngestCases
  <1>1. Len(seen) \in Nat /\ ready \subseteq open
    BY DEF TypeOK
  <1>2. /\ Apart(waiting, dropped', events')
        /\ Holds(waiting, dropped', events', 1 .. Len(seen))
    BY <1>0, <1>1, CloseKeepsApart DEF Accounted
  <1>3. \A x \in waiting \cup dropped' \cup events' : x.raws \subseteq 1 .. Len(seen)
    BY <1>0, <1>1, CloseCases DEF TypeOK
  <1>4. PICK rest, had, m :
          /\ open' = rest \cup {m}
          /\ m.raws = had \cup {Len(seen) + 1}
          /\ \/ rest = waiting /\ had = {}
             \/ \E b \in waiting : rest = waiting \ {b} /\ had = b.raws
    <2>1. CASE open' = {b \in open : ~Ready(b)} \cup {Merge(NewBurst(r), r)}
      <3>1. Merge(NewBurst(r), r).raws = {} \cup {Len(seen) + 1}
        BY <1>0, MergeType, NewBurstType
      <3>2. {b \in open : ~Ready(b)} = waiting
        OBVIOUS
      <3> QED BY <2>1, <3>1, <3>2
    <2>2. ASSUME NEW b \in open, ~Ready(b),
                 open' = {c \in open : ~Ready(c) /\ c # b} \cup {Merge(b, r)}
          PROVE  /\ b \in waiting /\ open' = (waiting \ {b}) \cup {Merge(b, r)}
                 /\ Merge(b, r).raws = b.raws \cup {Len(seen) + 1}
      <3>1. {c \in open : ~Ready(c) /\ c # b} = waiting \ {b}
        OBVIOUS
      <3>2. b \in Burst
        BY DEF TypeOK
      <3> QED BY <1>0, <2>2, <3>1, <3>2, MergeType
    <2>3. ASSUME NEW b \in open, ~Ready(b),
                 open' = {c \in open : ~Ready(c) /\ c # b} \cup {Merge(b, r)}
          PROVE  \E rest, had, m :
                   /\ open' = rest \cup {m}
                   /\ m.raws = had \cup {Len(seen) + 1}
                   /\ \E c \in waiting : rest = waiting \ {c} /\ had = c.raws
      <3>1. /\ b \in waiting /\ open' = (waiting \ {b}) \cup {Merge(b, r)}
            /\ Merge(b, r).raws = b.raws \cup {Len(seen) + 1}
        BY <2>2, <2>3
      <3> DEFINE others == waiting \ {b}
                 had == b.raws
                 m == Merge(b, r)
      <3>2. /\ open' = others \cup {m} /\ m.raws = had \cup {Len(seen) + 1}
            /\ \E c \in waiting : others = waiting \ {c} /\ had = c.raws
        BY <3>1
      <3> HIDE DEF others, had, m
      <3> QED BY <3>2
    <2>4. CASE \E b \in open : /\ IsCompatible(b, r) /\ ~Ready(b)
                              /\ open' = {c \in open : ~Ready(c) /\ c # b} \cup {Merge(b, r)}
      <3>1. PICK b \in open :
              ~Ready(b) /\ open' = {c \in open : ~Ready(c) /\ c # b} \cup {Merge(b, r)}
        BY <2>4
      <3>2. PICK rest, had, m :
              /\ open' = rest \cup {m} /\ m.raws = had \cup {Len(seen) + 1}
              /\ \E c \in waiting : rest = waiting \ {c} /\ had = c.raws
        BY <2>3, <3>1
      <3> QED BY <3>2
    <2> QED BY <2>1, <2>4, IngestCases
  <1>5. /\ Apart(open', dropped', events')
        /\ Holds(open', dropped', events', 1 .. Len(seen) + 1)
    BY <1>1, <1>2, <1>3, <1>4, JoinKeepsApart
  <1> QED BY <1>0, <1>5 DEF Accounted, Apart, Holds

LEMMA AlwaysAccounted == Spec => []Accounted
  <1>1. Init => Accounted
    BY DEF Init, Accounted, Apart, Holds
  <1>2. TypeOK /\ TypeOK' /\ Accounted /\ [Next]_vars => Accounted'
    <2> SUFFICES ASSUME TypeOK, TypeOK', Accounted, [Next]_vars PROVE Accounted'
      OBVIOUS
    <2>1. CASE \E r \in Raw : Ingest(r)
      BY <2>1, IngestKeepsAccount
    <2>2. ASSUME NEW bursts, bursts \subseteq open, open' = open \ bursts, Close(bursts),
                 seen' = seen
          PROVE  Accounted'
      <3>1. /\ Apart(open', dropped', events')
            /\ Holds(open', dropped', events', 1 .. Len(seen))
        BY <2>2, CloseKeepsApart DEF Accounted
      <3> QED BY <2>2, <3>1 DEF Accounted, Apart, Holds
    <2>3. CASE FlushReady
      <3>1. /\ {b \in open : Ready(b)} \subseteq open
            /\ open' = open \ {b \in open : Ready(b)}
            /\ Close({b \in open : Ready(b)}) /\ seen' = seen
        BY <2>3 DEF FlushReady
      <3> QED BY <2>2, <3>1
    <2>4. CASE FlushAll
      BY <2>2, <2>4 DEF FlushAll
    <2>5. CASE UNCHANGED <<open, seen, events, dropped>>
      BY <2>5 DEF Accounted, Apart, Holds
    <2> QED BY <2>1, <2>3, <2>4, <2>5 DEF Next, Tick, vars
  <1> QED BY <1>1, <1>2, TypeCorrect, PTL DEF Spec

(* No notification is lost, and none is told twice.                         *)
THEOREM RawsAreToldOnce == Spec => []EachRawOnce
  BY AlwaysAccounted, AccountedIsOnce, PTL

-----------------------------------------------------------------------------
(* first is not after any of a burst's raws, last is the time of one.       *)
Timed(b) ==
  /\ \A i \in b.raws : b.first <= seen[i].at
  /\ \E i \in b.raws : seen[i].at = b.last
  /\ WithinWindows(b.raws)
InTime ==
  /\ \A b \in open : Timed(b) /\ b.first <= now
  /\ \A x \in dropped \cup events : WithinWindows(x.raws)

LEMMA TimesStay ==
  ASSUME \A i \in 1 .. Len(seen) : seen'[i] = seen[i],
         NEW raws, raws \subseteq 1 .. Len(seen), WithinWindows(raws)
  PROVE  WithinWindows(raws)'
  BY DEF WithinWindows

(* A burst that is not ready takes the raw: it came less than quiet_period  *)
(* after the last one and less than max_wait after the first.               *)
LEMMA JoinedInTime ==
  ASSUME TypeOK, NEW r \in Raw, Ingest(r), NEW b \in Burst,
         b.raws \subseteq 1 .. Len(seen), b.raws = {} \/ ~Ready(b),
         \A i \in b.raws : b.first <= seen[i].at, WithinWindows(b.raws),
         b.first <= now, b.raws = {} \/ \E i \in b.raws : seen[i].at = b.last,
         NEW m, m = Merge(b, r)
  PROVE  Timed(m)'
  <1> DEFINE n == Len(seen) + 1
  <1>0. n \in Nat /\ now \in Nat
    BY NormalizerAssumption DEF TypeOK
  <1>1. /\ Len(seen) < MaxRaws
        /\ \A i \in 1 .. Len(seen) : seen'[i] = seen[i]
        /\ seen'[n].at = now
    BY IngestCases
  <1>2. m.raws = b.raws \cup {n} /\ m.first = b.first /\ m.last = now
    BY <1>1, MergeType
  <1>3. \A i \in b.raws : i < n /\ i \in Nat /\ seen'[i].at = seen[i].at /\ seen[i].at \in Nat
    <2> DEFINE Reading == [raw : Raw, at : 0 .. MaxTime]
    <2>1. seen \in Seq(Reading) /\ \A x \in Reading : x.at \in Nat
      BY NormalizerAssumption DEF TypeOK
    <2> HIDE DEF Reading
    <2>2. \A i \in 1 .. Len(seen) : seen[i].at \in Nat
      <3>1. \A i \in 1 .. Len(seen) : seen[i] \in Reading
        BY <2>1
      <3> QED BY <2>1, <3>1
    <2>3. \A i \in 1 .. Len(seen) : i < n /\ i \in Nat
      BY DEF TypeOK
    <2> QED BY <1>1, <2>2, <2>3
  <1>4. /\ Quiet \in Nat /\ MaxWait \in Nat /\ b.first \in Nat /\ b.last \in Nat
        /\ b.raws # {} => now - b.last < Quiet /\ now - b.first < MaxWait
    BY <1>0, NormalizerAssumption, SMTT(20) DEF Ready, Burst
  <1>5. \A i \in m.raws : m.first <= seen'[i].at
    BY <1>1, <1>2, <1>3
  <1>6. ASSUME NEW i \in m.raws, NEW j \in m.raws, i < j
        PROVE  seen'[j].at - seen'[i].at < MaxWait
    <2>1. i \in b.raws
      BY <1>0, <1>2, <1>3, <1>6
    <2>2. CASE j = n
      <3>1. seen'[j].at = now
        BY <1>1, <2>2
      <3>2. /\ seen'[i].at = seen[i].at /\ seen[i].at \in Nat
            /\ b.first <= seen[i].at
        BY <1>3, <2>1
      <3>3. now - b.first < MaxWait
        BY <1>4, <2>1
      <3> HIDE DEF n
      <3> QED BY <1>0, <1>4, <3>1, <3>2, <3>3
    <2>3. CASE j \in b.raws
      BY <1>3, <1>6, <2>1, <2>3 DEF WithinWindows
    <2> QED BY <1>2, <2>2, <2>3
  <1>7. ASSUME NEW i \in m.raws
        PROVE  \/ \A j \in m.raws : i <= j
               \/ \E j \in m.raws : j < i /\ seen'[i].at - seen'[j].at < Quiet
    <2>1. CASE i = n /\ b.raws = {}
      BY <1>0, <1>2, <2>1
    <2>2. CASE i = n /\ b.raws # {}
      <3>1. PICK k \in b.raws : seen[k].at = b.last
        BY <2>2
      <3>2. k \in m.raws /\ k < i /\ seen'[k].at = b.last
        BY <1>2, <1>3, <2>2, <3>1
      <3>3. seen'[i].at - b.last < Quiet
        BY <1>1, <1>4, <2>2
      <3> QED BY <3>2, <3>3
    <2>3. CASE i \in b.raws
      <3>1. CASE \A j \in b.raws : i <= j
        BY <1>2, <1>3, <2>3, <3>1
      <3>2. CASE \E j \in b.raws : j < i /\ seen[i].at - seen[j].at < Quiet
        BY <1>2, <1>3, <2>3, <3>2
      <3> QED BY <2>3, <3>1, <3>2 DEF WithinWindows
    <2> QED BY <1>2, <2>1, <2>2, <2>3
  <1>8. WithinWindows(m.raws)'
    BY <1>6, <1>7 DEF WithinWindows
  <1>9. n \in m.raws /\ seen'[n].at = m.last
    BY <1>1, <1>2
  <1> QED BY <1>5, <1>8, <1>9 DEF Timed

(* Old bursts keep their times, as the history only grows.                  *)
LEMMA TimedStays ==
  ASSUME \A i \in 1 .. Len(seen) : seen'[i] = seen[i],
         NEW b, b.raws \subseteq 1 .. Len(seen), Timed(b)
  PROVE  Timed(b)'
  <1>1. WithinWindows(b.raws)'
    BY TimesStay DEF Timed
  <1> QED BY <1>1 DEF Timed

LEMMA IngestKeepsTimes == ASSUME TypeOK, InTime, NEW r \in Raw, Ingest(r) PROVE InTime'
  <1>0. now' = now /\ Len(seen) < MaxRaws /\ now \in Nat
    <2>1. now' = now /\ Len(seen) < MaxRaws
      BY IngestCases
    <2>2. now \in Nat
      BY NormalizerAssumption DEF TypeOK
    <2> QED BY <2>1, <2>2
  <1>1. \A i \in 1 .. Len(seen) : seen'[i] = seen[i]
    BY IngestCases
  <1>2. ASSUME NEW c \in open PROVE Timed(c)' /\ c.first <= now
    BY <1>1, TimedStays DEF InTime, TypeOK
  <1>3. ASSUME NEW b \in open, ~Ready(b), NEW c, c = Merge(b, r)
        PROVE  Timed(c)' /\ c.first <= now
    <2>1. b \in Burst /\ b.raws \subseteq 1 .. Len(seen) /\ Timed(b)
      BY DEF TypeOK, InTime
    <2>2. b.first <= now
      BY DEF InTime
    <2>3. c.first = b.first
      BY <1>0, <1>3, <2>1, MergeType
    <2> QED BY <1>3, <2>1, <2>2, <2>3, JoinedInTime DEF Timed
  <1>4. ASSUME NEW c, c = Merge(NewBurst(r), r) PROVE Timed(c)' /\ c.first <= now
    <2>1. PICK b : b = NewBurst(r)
      OBVIOUS
    <2>2. b \in Burst /\ b.raws = {} /\ b.first = now
      BY <1>0, <2>1, NewBurstType
    <2>4. c.first = now
      BY <1>0, <1>4, <2>1, <2>2, MergeType
    <2>5. Timed(c)'
      <3>1. WithinWindows(b.raws) /\ \A i \in b.raws : b.first <= seen[i].at
        BY <2>2 DEF WithinWindows
      <3>2. b.raws \subseteq 1 .. Len(seen) /\ b.first <= now /\ c = Merge(b, r)
        BY <1>0, <1>4, <2>1, <2>2
      <3> QED BY <2>2, <3>1, <3>2, JoinedInTime
    <2> QED BY <1>0, <2>4, <2>5
  <1>5. ASSUME NEW c \in open'
        PROVE  \/ c \in open
               \/ c = Merge(NewBurst(r), r)
               \/ \E b \in open : ~Ready(b) /\ c = Merge(b, r)
    BY <1>5, IngestCases
  <1>6. ASSUME NEW x \in dropped' \cup events' PROVE WithinWindows(x.raws)'
    <2>1. {b \in open : Ready(b)} \subseteq open /\ Close({b \in open : Ready(b)})
      BY IngestCases
    <2>2. PICK y \in open \cup dropped \cup events : x.raws = y.raws
      BY <2>1, CloseCases
    <2>3. WithinWindows(y.raws) /\ y.raws \subseteq 1 .. Len(seen)
      BY DEF InTime, Timed, TypeOK
    <2> QED BY <1>1, <2>2, <2>3, TimesStay
  <1>7. \A c \in open' : Timed(c)' /\ c.first <= now'
    BY <1>0, <1>2, <1>3, <1>4, <1>5
  <1> QED BY <1>6, <1>7 DEF InTime

LEMMA AlwaysInTime == Spec => []InTime
  <1>1. Init => InTime
    BY DEF Init, InTime
  <1>2. TypeOK /\ TypeOK' /\ InTime /\ [Next]_vars => InTime'
    <2> SUFFICES ASSUME TypeOK, TypeOK', InTime, [Next]_vars PROVE InTime'
      OBVIOUS
    <2>1. CASE \E r \in Raw : Ingest(r)
      BY <2>1, IngestKeepsTimes
    <2>2. CASE FlushReady \/ FlushAll
      <3>1. PICK bursts : bursts \subseteq open /\ Close(bursts)
        BY <2>2, FlushCases
      <3>2. UNCHANGED <<now, seen>> /\ open' \subseteq open
        BY <2>2, FlushCases
      <3>3. \A x \in open \cup dropped \cup events : WithinWindows(x.raws)
        BY DEF InTime, Timed
      <3>4. \A x \in dropped' \cup events' : WithinWindows(x.raws)
        BY <3>1, <3>3, CloseCases
      <3> QED BY <3>2, <3>4 DEF InTime, Timed, WithinWindows
    <2>3. CASE Tick
      <3>1. now \in Nat /\ now' = now + 1 /\ UNCHANGED <<open, seen, events, dropped>>
        BY <2>3, NormalizerAssumption DEF Tick, TypeOK
      <3>2. \A b \in open : b.first \in Nat
        BY NormalizerAssumption DEF TypeOK, Burst
      <3>3. \A b \in open : b.first <= now'
        BY <3>1, <3>2 DEF InTime
      <3> QED BY <3>1, <3>3 DEF InTime, Timed, WithinWindows
    <2>4. CASE UNCHANGED vars
      BY <2>4 DEF vars, InTime, Timed, WithinWindows
    <2> QED BY <2>1, <2>2, <2>3, <2>4 DEF Next
  <1> QED BY <1>1, <1>2, TypeCorrect, PTL DEF Spec

(* An event is never wider than the two windows.                            *)
THEOREM EventsAreWithinWindows == Spec => []BurstsWithinWindows
  <1>1. InTime => BurstsWithinWindows
    BY DEF InTime, Timed, BurstsWithinWindows
  <1> QED BY <1>1, AlwaysInTime, PTL

-----------------------------------------------------------------------------
(* Seen from outside, where a burst is the set of its raws, this is a       *)
(* Coalescer.  Bursts that share no raw, and have some, are as many sets.   *)
Distinct(bursts) == \A b, c \in bursts : b # c => b.raws # c.raws

LEMMA OpenDistinct ==
  ASSUME Accounted, InTime
  PROVE  Distinct(open) /\ \A b \in open : b.raws # {}
  <1>1. \A b \in open : b.raws # {}
    BY DEF InTime, Timed
  <1> QED BY <1>1 DEF Distinct, Accounted, Apart

LEMMA RawsOfRest ==
  ASSUME NEW bursts, NEW gone, gone \subseteq bursts, Distinct(bursts)
  PROVE  RawsOf(bursts \ gone) = RawsOf(bursts) \ RawsOf(gone)
  BY DEF Distinct, RawsOf

ActionSeen == [i \in 1 .. Len(seen) |-> seen[i].raw.action]
Due == {b \in open : Ready(b)}

LEMMA IngestIsIngest ==
  ASSUME TypeOK, Accounted, InTime, BurstsCoverTheirRaws, NEW r \in Raw, Ingest(r)
  PROVE  Outside!Next
  <1> DEFINE waiting == open \ Due
  <1>0. PICK n : n = Len(seen) + 1
    OBVIOUS
  <1>1. /\ Len(seen) < MaxRaws
        /\ Len(seen') = n
        /\ \A i \in 1 .. Len(seen) : seen'[i] = seen[i]
        /\ seen'[n].raw = r
        /\ now' = now
    BY <1>0, IngestCases
  <1>2. n \in 1 .. MaxRaws /\ n \notin 1 .. Len(seen) /\ 1 .. n = 1 .. Len(seen) \cup {n}
    BY <1>0, <1>1, NormalizerAssumption DEF TypeOK
  <1>3. PICK had, rest, m :
          /\ open' = rest \cup {m} /\ m.raws = had \cup {n}
          /\ \A i \in had : i \in 1 .. Len(seen) /\ seen[i].raw.action = r.action
          /\ \/ had = {} /\ rest = waiting
             \/ \E b \in waiting : had = b.raws /\ rest = waiting \ {b}
    <2>1. CASE open' = {b \in open : ~Ready(b)} \cup {Merge(NewBurst(r), r)}
      <3>1. Merge(NewBurst(r), r).raws = {} \cup {n}
        BY <1>0, <1>1, MergeType, NewBurstType
      <3>2. {b \in open : ~Ready(b)} = waiting
        BY DEF Due
      <3> QED BY <2>1, <3>1, <3>2
    <2>2. CASE \E b \in open : /\ IsCompatible(b, r) /\ ~Ready(b)
                               /\ open' = {c \in open : ~Ready(c) /\ c # b} \cup {Merge(b, r)}
      <3>1. PICK b \in open : /\ IsCompatible(b, r) /\ ~Ready(b)
                              /\ open' = {c \in open : ~Ready(c) /\ c # b} \cup {Merge(b, r)}
        BY <2>2
      <3>2. {c \in open : ~Ready(c) /\ c # b} = waiting \ {b} /\ b \in waiting
        BY <3>1 DEF Due
      <3>3. Merge(b, r).raws = b.raws \cup {n}
        BY <1>0, <1>1, MergeType DEF TypeOK
      <3>4. \A i \in b.raws : i \in 1 .. Len(seen) /\ seen[i].raw.action = r.action
        BY <3>1 DEF TypeOK, BurstsCoverTheirRaws, Covers, IsCompatible
      <3> QED BY <3>1, <3>2, <3>3, <3>4
    <2> QED BY <2>1, <2>2, IngestCases
  <1>4. RawsOf(waiting) = RawsOf(open) \ RawsOf(Due)
    BY OpenDistinct, RawsOfRest DEF Due
  <1>5. had \in RawsOf(waiting) \cup {{}} /\ RawsOf(rest) = RawsOf(waiting) \ {had}
    <2>1. Distinct(waiting) /\ \A b \in waiting : b.raws # {}
      BY OpenDistinct DEF Distinct
    <2> QED BY <1>3, <2>1 DEF Distinct, RawsOf
  <1>6. RawsOf(open)' = ((RawsOf(open) \ RawsOf(Due)) \ {had}) \cup {had \cup {n}}
    <2>1. RawsOf(open)' = RawsOf(rest) \cup {m.raws}
      BY <1>3 DEF RawsOf
    <2> QED BY <1>3, <1>4, <1>5, <2>1
  <1>7. RawsOf(Due)' \in {{}, {had \cup {n}}}
    <2>1. \A b \in rest : ~Ready(b) /\ (Ready(b)' <=> Ready(b))
      BY <1>1, <1>3 DEF Due, Ready
    <2>2. Due' \subseteq {m}
      BY <1>3, <2>1 DEF Due
    <2>3. Due' = {} \/ Due' = {m}
      BY <2>2
    <2> QED BY <1>3, <2>3 DEF RawsOf
  <1>8. /\ DOMAIN ActionSeen = 1 .. Len(seen) /\ n \notin DOMAIN ActionSeen
        /\ (DOMAIN ActionSeen)' = DOMAIN ActionSeen \cup {n}
        /\ ActionSeen' = [i \in (DOMAIN ActionSeen)' |-> IF i = n THEN r.action ELSE ActionSeen[i]]
    BY <1>1, <1>2 DEF ActionSeen
  <1>9. /\ r.action \in {x.action : x \in Raw} /\ n \in 1 .. MaxRaws
        /\ \A i \in had : ActionSeen[i] = r.action
    BY <1>2, <1>3 DEF ActionSeen
  <1>10. Outside!Pass(n, r.action)
    BY <1>8 DEF Outside!Pass, Outside!Told, ActionSeen
  <1>11. Outside!Ingest(n, r.action)
    <2>1. had \in (RawsOf(open) \ RawsOf(Due)) \cup {{}}
      BY <1>4, <1>5
    <2> QED BY <1>6, <1>7, <1>9, <1>10, <2>1 DEF Outside!Ingest, Due, ActionSeen
  <1> QED BY <1>9, <1>11 DEF Outside!Next

LEMMA OthersAreOutside ==
  ASSUME TypeOK, Accounted, InTime, FlushReady \/ FlushAll \/ Tick
  PROVE  Outside!Next
  <1>1. CASE FlushReady
    <2>1. open' = open \ Due /\ UNCHANGED <<now, seen>> /\ Due \subseteq open
      BY <1>1 DEF FlushReady, Due
    <2>2. Due' = {}
      BY <2>1 DEF Due, Ready
    <2>3. RawsOf(open)' = RawsOf(open) \ RawsOf(Due)
      <3>1. RawsOf(open \ Due) = RawsOf(open) \ RawsOf(Due)
        BY <2>1, OpenDistinct, RawsOfRest
      <3> QED BY <2>1, <3>1 DEF RawsOf
    <2>4. RawsOf(Due)' = RawsOf(Due) \ RawsOf(Due)
      BY <2>2 DEF RawsOf
    <2>5. ActionSeen' = ActionSeen
      BY <2>1 DEF ActionSeen
    <2>6. Outside!Flush
      BY <2>3, <2>4, <2>5 DEF Outside!Flush, Due, ActionSeen
    <2> QED BY <2>6 DEF Outside!Next
  <1>2. CASE FlushAll
    <2>1. open' = {} /\ UNCHANGED <<now, seen>>
      BY <1>2 DEF FlushAll
    <2>2. RawsOf(open)' = RawsOf(open) \ RawsOf(open) /\ RawsOf(Due)' = RawsOf(Due) \ RawsOf(open)
      BY <2>1 DEF RawsOf, Due
    <2>3. ActionSeen' = ActionSeen
      BY <2>1 DEF ActionSeen
    <2>4. Outside!Flush
      BY <2>2, <2>3 DEF Outside!Flush, Due, ActionSeen
    <2> QED BY <2>4 DEF Outside!Next
  <1>3. CASE Tick
    <2>1. now' = now + 1 /\ UNCHANGED <<open, seen>> /\ now \in Nat /\ Quiet \in Nat /\ MaxWait \in Nat
      BY <1>3, NormalizerAssumption DEF Tick, TypeOK
    <2>2. \A b \in open : Ready(b) => Ready(b)'
      <3>1. \A b \in open : b.first \in Nat /\ b.last \in Nat
        BY NormalizerAssumption DEF TypeOK, Burst
      <3> QED BY <2>1, <3>1 DEF Ready
    <2>3. Due \subseteq Due' /\ Due' \subseteq open
      BY <2>1, <2>2 DEF Due
    <2>4. RawsOf(Due) \subseteq RawsOf(Due)' /\ RawsOf(Due)' \subseteq RawsOf(open) /\ RawsOf(open)' = RawsOf(open)
      BY <2>1, <2>3 DEF RawsOf
    <2>5. ActionSeen' = ActionSeen
      BY <2>1 DEF ActionSeen
    <2>6. Outside!Ripen
      BY <2>4, <2>5 DEF Outside!Ripen, Due, ActionSeen
    <2> QED BY <2>6 DEF Outside!Next
  <1> QED BY <1>1, <1>2, <1>3

(* The coalescer the monitor is modelled with is the one it has: whatever   *)
(* the windows are and whatever is_compatible compares, each step is one    *)
(* that Coalescer allows.                                                   *)
THEOREM IsOneCoalescer == Spec => IsACoalescer
  <1>1. Init => Outside!Init
    <2> SUFFICES ASSUME Init PROVE Outside!Init
      OBVIOUS
    <2>1. Len(seen) = 0 /\ open = {} /\ Due = {}
      BY DEF Init, Due
    <2>2. DOMAIN ActionSeen = {}
      BY <2>1 DEF ActionSeen
    <2> QED BY <2>1, <2>2 DEF Outside!Init, RawsOf, ActionSeen, Due
  <1>2. TypeOK /\ Accounted /\ InTime /\ BurstsCoverTheirRaws /\ [Next]_vars
          => [Outside!Next]_(Outside!vars)
    <2> SUFFICES ASSUME TypeOK, Accounted, InTime, BurstsCoverTheirRaws, [Next]_vars
                 PROVE  [Outside!Next]_(Outside!vars)
      OBVIOUS
    <2>1. CASE \E r \in Raw : Ingest(r)
      BY <2>1, IngestIsIngest
    <2>2. CASE FlushReady \/ FlushAll \/ Tick
      BY <2>2, OthersAreOutside
    <2>3. CASE UNCHANGED vars
      BY <2>3 DEF vars, Outside!vars, RawsOf, Ready
    <2> QED BY <2>1, <2>2, <2>3 DEF Next
  <1> QED BY <1>1, <1>2, TypeCorrect, AlwaysCovered, AlwaysAccounted, AlwaysInTime, PTL
          DEF Spec, IsACoalescer, Outside!Spec

-----------------------------------------------------------------------------
(* What any coalescer that keeps this promise gives its caller.             *)
CONSTANTS Id, Kind
VARIABLES kindOf, unclosed, due
Promise == INSTANCE Coalescer WITH
  RawId <- Id, Action <- Kind, action <- kindOf, open <- unclosed, ripe <- due

(* Bursts that share no notification, each of one action, and none that was *)
(* handed over comes back: the caller need not look for duplicates.         *)
THEOREM PromiseSuffices == Promise!Spec => []Promise!BurstsApart /\ Promise!HandedOverOnce
  <1> USE DEF Promise!BurstsApart, Promise!Told
  <1>1. Promise!Init => Promise!BurstsApart
    BY DEF Promise!Init
  <1>2. Promise!BurstsApart /\ [Promise!Next]_(Promise!vars) =>
          /\ Promise!BurstsApart'
          /\ \A i \in Promise!Told : (\E b \in unclosed' : i \in b) => \E b \in unclosed : i \in b
    <2> SUFFICES ASSUME Promise!BurstsApart, [Promise!Next]_(Promise!vars)
                 PROVE  /\ Promise!BurstsApart'
                        /\ \A i \in Promise!Told :
                             (\E b \in unclosed' : i \in b) => \E b \in unclosed : i \in b
      OBVIOUS
    <2>1. ASSUME NEW raw, NEW a, Promise!Ingest(raw, a)
          PROVE  /\ Promise!BurstsApart'
                 /\ \A i \in Promise!Told :
                      (\E b \in unclosed' : i \in b) => \E b \in unclosed : i \in b
      <3>1. /\ raw \notin DOMAIN kindOf /\ DOMAIN kindOf' = DOMAIN kindOf \cup {raw}
            /\ \A i \in DOMAIN kindOf : kindOf'[i] = kindOf[i]
            /\ kindOf'[raw] = a
        BY <2>1 DEF Promise!Ingest, Promise!Pass
      <3>2. PICK b \in (unclosed \ due) \cup {{}} :
              /\ \A i \in b : kindOf[i] = a
              /\ unclosed' = ((unclosed \ due) \ {b}) \cup {b \cup {raw}}
        BY <2>1 DEF Promise!Ingest
      <3>3. \A c \in unclosed' : c = b \cup {raw} \/ (c \in unclosed /\ c # b)
        BY <3>2
      <3>4. b \subseteq DOMAIN kindOf /\ \A c \in unclosed : c = b \/ b \cap c = {}
        BY <3>2
      <3>5. \A c \in unclosed : c \subseteq DOMAIN kindOf /\ raw \notin c
        BY <3>1
      <3>6. \A c, d \in unclosed' : c = d \/ c \cap d = {}
        <4>1. \A c \in unclosed : c # b => (b \cup {raw}) \cap c = {}
          BY <3>4, <3>5
        <4> SUFFICES ASSUME NEW c \in unclosed', NEW d \in unclosed', c # d PROVE c \cap d = {}
          OBVIOUS
        <4>2. CASE c = b \cup {raw}
          BY <3>3, <4>1, <4>2
        <4>3. CASE d = b \cup {raw}
          BY <3>3, <4>1, <4>3
        <4>4. CASE c \in unclosed /\ d \in unclosed
          BY <4>4
        <4> QED BY <3>3, <4>2, <4>3, <4>4
      <3>7. \A c \in unclosed' : c \subseteq DOMAIN kindOf' /\ \A i, j \in c : kindOf'[i] = kindOf'[j]
        BY <3>1, <3>2, <3>3, <3>4, <3>5
      <3>8. \A i \in DOMAIN kindOf :
              (\E c \in unclosed' : i \in c) => \E c \in unclosed : i \in c
        BY <3>1, <3>2, <3>3
      <3> QED BY <3>6, <3>7, <3>8
    <2>2. ASSUME NEW raw, NEW a, Promise!Refuse(raw, a)
          PROVE  Promise!BurstsApart' /\ unclosed' = unclosed
      <3>1. /\ DOMAIN kindOf' = DOMAIN kindOf \cup {raw} /\ raw \notin DOMAIN kindOf
            /\ \A i \in DOMAIN kindOf : kindOf'[i] = kindOf[i]
            /\ unclosed' = unclosed
        BY <2>2 DEF Promise!Refuse, Promise!Pass
      <3> QED BY <3>1
    <2>3. CASE Promise!Flush \/ Promise!Ripen \/ UNCHANGED Promise!vars
      <3>1. unclosed' \subseteq unclosed /\ kindOf' = kindOf
        BY <2>3 DEF Promise!Flush, Promise!Ripen, Promise!vars
      <3> QED BY <3>1
    <2> QED BY <2>1, <2>2, <2>3 DEF Promise!Next
  <1> QED BY <1>1, <1>2, PTL DEF Promise!Spec, Promise!HandedOverOnce
=============================================================================

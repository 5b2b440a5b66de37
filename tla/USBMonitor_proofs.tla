-------------------------- MODULE USBMonitor_proofs --------------------------
(* What the pipeline guarantees for any number of notifications, any of     *)
(* them noise, any failures and any Ctrl+C.                                 *)
EXTENDS USBMonitor, FiniteSetTheorems, SequenceTheorems, TLAPS

-----------------------------------------------------------------------------
LEMMA OneMore ==
  ASSUME NEW S, IsFiniteSet(S), NEW x
  PROVE  IsFiniteSet(S \cup {x}) /\ Cardinality(S \cup {x}) <= Cardinality(S) + 1
<1>1. Cardinality(S) \in Nat
  BY FS_CardinalityType
<1>2. /\ IsFiniteSet(S \cup {x})
      /\ Cardinality(S \cup {x}) = IF x \in S THEN Cardinality(S) ELSE Cardinality(S) + 1
  BY FS_AddElement
<1> QED BY <1>1, <1>2

(* Sequences, and what is in them.                                          *)
LEMMA AppendElems ==
  ASSUME NEW S, NEW s \in Seq(S), NEW e \in S
  PROVE  /\ Elems(Append(s, e)) = Elems(s) \cup {e}
         /\ IsInjective(s) /\ e \notin Elems(s) => IsInjective(Append(s, e))
<1> DEFINE t == Append(s, e)
<1>1. /\ t \in Seq(S) /\ Len(t) = Len(s) + 1 /\ Len(s) \in Nat
      /\ \A k \in 1 .. Len(s) : t[k] = s[k]
      /\ t[Len(s) + 1] = e
      /\ DOMAIN s = 1 .. Len(s) /\ DOMAIN t = 1 .. (Len(s) + 1)
  BY AppendProperties, LenProperties
<1> HIDE DEF t
<1>2. Elems(t) = Elems(s) \cup {e}
  <2>1. ASSUME NEW x \in Elems(t) PROVE x \in Elems(s) \cup {e}
    <3>1. PICK k \in DOMAIN t : x = t[k]
      BY <2>1 DEF Elems
    <3> QED BY <1>1, <3>1 DEF Elems
  <2>2. ASSUME NEW x \in Elems(s) PROVE x \in Elems(t)
    <3>1. PICK k \in DOMAIN s : x = s[k]
      BY <2>2 DEF Elems
    <3> QED BY <1>1, <3>1 DEF Elems
  <2>3. e \in Elems(t)
    BY <1>1 DEF Elems
  <2> QED BY <2>1, <2>2, <2>3
<1>3. IsInjective(s) /\ e \notin Elems(s) => IsInjective(t)
  <2> SUFFICES ASSUME IsInjective(s), e \notin Elems(s),
                      NEW m \in DOMAIN t, NEW n \in DOMAIN t, t[m] = t[n]
               PROVE  m = n
    BY DEF IsInjective
  <2>1. \A k \in 1 .. Len(s) : s[k] # e
    BY <1>1 DEF Elems
  <2> QED BY <1>1, <2>1 DEF IsInjective
<1> QED BY <1>2, <1>3 DEF t

LEMMA TailElems ==
  ASSUME NEW S, NEW s \in Seq(S), s # <<>>
  PROVE  /\ Head(s) \in S /\ Tail(s) \in Seq(S) /\ Head(s) \in Elems(s)
         /\ Elems(s) = {Head(s)} \cup Elems(Tail(s))
         /\ IsInjective(s) => IsInjective(Tail(s)) /\ Head(s) \notin Elems(Tail(s))
<1> DEFINE t == Tail(s)
<1>1. /\ Head(s) \in S /\ t \in Seq(S) /\ Len(t) = Len(s) - 1
      /\ \A k \in 1 .. Len(t) : t[k] = s[k + 1]
      /\ Head(s) = s[1]
  BY HeadTailProperties
<1>2. /\ Len(s) \in Nat /\ Len(s) > 0
      /\ DOMAIN s = 1 .. Len(s) /\ DOMAIN t = 1 .. (Len(s) - 1)
  BY <1>1, EmptySeq, LenProperties
<1> HIDE DEF t
<1>3. Elems(s) = {Head(s)} \cup Elems(t)
  <2>1. ASSUME NEW x \in Elems(s) PROVE x \in {Head(s)} \cup Elems(t)
    <3>1. PICK k \in DOMAIN s : x = s[k]
      BY <2>1 DEF Elems
    <3>2. CASE k = 1
      BY <1>1, <3>1, <3>2
    <3>3. CASE k # 1
      <4>1. k - 1 \in DOMAIN t /\ t[k - 1] = x
        BY <1>1, <1>2, <3>1, <3>3
      <4> QED BY <4>1 DEF Elems
    <3> QED BY <3>2, <3>3
  <2>2. ASSUME NEW x \in Elems(t) PROVE x \in Elems(s)
    <3>1. PICK k \in DOMAIN t : x = t[k]
      BY <2>2 DEF Elems
    <3>2. k + 1 \in DOMAIN s /\ s[k + 1] = x
      BY <1>1, <1>2, <3>1
    <3> QED BY <3>2 DEF Elems
  <2>3. Head(s) \in Elems(s)
    BY <1>1, <1>2 DEF Elems
  <2> QED BY <2>1, <2>2, <2>3
<1>4. IsInjective(s) => IsInjective(t) /\ Head(s) \notin Elems(t)
  <2> SUFFICES ASSUME IsInjective(s) PROVE IsInjective(t) /\ Head(s) \notin Elems(t)
    OBVIOUS
  <2>1. \A k \in DOMAIN t : k + 1 \in DOMAIN s /\ k \in Nat /\ t[k] = s[k + 1]
    BY <1>1, <1>2
  <2>2. ASSUME NEW m \in DOMAIN t, NEW n \in DOMAIN t, t[m] = t[n] PROVE m = n
    <3>1. m + 1 = n + 1
      BY <2>1, <2>2 DEF IsInjective
    <3> QED BY <2>1, <3>1
  <2>3. ASSUME NEW m \in DOMAIN t, t[m] = Head(s) PROVE FALSE
    <3>1. 1 \in DOMAIN s /\ s[m + 1] = s[1]
      BY <1>1, <1>2, <2>1, <2>3
    <3>2. m + 1 = 1
      BY <2>1, <3>1 DEF IsInjective
    <3> QED BY <1>2, <3>2
  <2> QED BY <2>2, <2>3 DEF IsInjective, Elems
<1> QED BY <1>1, <1>3, <1>4 DEF t

LEMMA ConcatElems ==
  ASSUME NEW S, NEW s \in Seq(S), NEW t \in Seq(S)
  PROVE  s \o t \in Seq(S) /\ Elems(s \o t) = Elems(s) \cup Elems(t)
<1>1. \A q \in Seq(S) : Elems(q) = Range(q)
  BY DEF Elems, Range
<1>2. s \o t \in Seq(S)
  BY ConcatProperties
<1>3. Range(s \o t) = Range(s) \cup Range(t)
  BY RangeConcatenation
<1> QED BY <1>1, <1>2, <1>3

LEMMA EmptyElems ==
  ASSUME NEW S
  PROVE  <<>> \in Seq(S) /\ Elems(<<>>) = {} /\ IsInjective(<<>>)
  BY EmptySeq DEF Elems, IsInjective

LEMMA ConcatAppend ==
  ASSUME NEW S, NEW s \in Seq(S), NEW t \in Seq(S), NEW e \in S
  PROVE  s \o Append(t, e) = Append(s \o t, e)
<1>1. <<e>> \in Seq(S) /\ s \o t \in Seq(S)
  BY ConcatProperties
<1>2. Append(t, e) = t \o <<e>> /\ Append(s \o t, e) = (s \o t) \o <<e>>
  BY <1>1, AppendIsConcat
<1>3. (s \o t) \o <<e>> = s \o (t \o <<e>>)
  BY <1>1, ConcatAssociative
<1> QED BY <1>2, <1>3

(* An event passes from one of two adjacent queues to the other.            *)
LEMMA Passing ==
  ASSUME NEW S, NEW s \in Seq(S), NEW t \in Seq(S), t # <<>>
  PROVE  Append(s, Head(t)) \o Tail(t) = s \o t
<1>1. /\ Head(t) \in S /\ Tail(t) \in Seq(S) /\ Len(Tail(t)) = Len(t) - 1
      /\ \A k \in 1 .. Len(Tail(t)) : Tail(t)[k] = t[k + 1]
      /\ Head(t) = t[1] /\ Len(t) \in Nat /\ Len(t) > 0 /\ Len(s) \in Nat
  BY HeadTailProperties, EmptySeq, LenProperties
<1> DEFINE a == Append(s, Head(t))
           b == Tail(t)
<1>2. /\ a \in Seq(S) /\ Len(a) = Len(s) + 1
      /\ \A k \in 1 .. Len(s) : a[k] = s[k]
      /\ a[Len(s) + 1] = t[1]
  BY <1>1, AppendProperties
<1>3. /\ a \o b \in Seq(S) /\ Len(a \o b) = Len(a) + Len(b)
      /\ \A k \in 1 .. Len(a) + Len(b) : (a \o b)[k] = IF k <= Len(a) THEN a[k] ELSE b[k - Len(a)]
  BY <1>1, <1>2, ConcatProperties
<1>4. /\ s \o t \in Seq(S) /\ Len(s \o t) = Len(s) + Len(t)
      /\ \A k \in 1 .. Len(s) + Len(t) : (s \o t)[k] = IF k <= Len(s) THEN s[k] ELSE t[k - Len(s)]
  BY ConcatProperties
<1>5. /\ b \in Seq(S) /\ Len(b) = Len(t) - 1
      /\ \A k \in 1 .. Len(b) : b[k] = t[k + 1]
  BY <1>1
<1> HIDE DEF a, b
<1>6. Len(a \o b) = Len(s \o t)
  BY <1>1, <1>2, <1>3, <1>4, <1>5
<1>7. ASSUME NEW k \in 1 .. Len(a \o b) PROVE (a \o b)[k] = (s \o t)[k]
  <2>1. k \in 1 .. Len(s) + Len(t) /\ k \in 1 .. Len(a) + Len(b) /\ k \in Nat
    BY <1>1, <1>2, <1>3, <1>4, <1>6
  <2>2. CASE k <= Len(s)
    BY <1>1, <1>2, <1>3, <1>4, <2>1, <2>2
  <2>3. CASE k = Len(s) + 1
    BY <1>1, <1>2, <1>3, <1>4, <2>1, <2>3
  <2>4. CASE k > Len(s) + 1
    <3>1. (a \o b)[k] = b[k - Len(a)]
      BY <1>1, <1>2, <1>3, <2>1, <2>4
    <3>2. k - Len(a) \in 1 .. Len(b) /\ k - Len(a) + 1 = k - Len(s)
      BY <1>1, <1>2, <1>5, <2>1, <2>4
    <3>3. (s \o t)[k] = t[k - Len(s)]
      BY <1>1, <1>4, <2>1, <2>4
    <3> QED BY <1>5, <3>1, <3>2, <3>3
  <2> QED BY <1>1, <2>1, <2>2, <2>3, <2>4, SMTT(20)
<1>8. a \o b = s \o t
  BY <1>3, <1>4, <1>6, <1>7, SeqEqual
<1> QED BY <1>8 DEF a, b

(* Every way an event moves along the stream without changing it.           *)
LEMMA StreamSteps ==
  ASSUME NEW S, NEW d \in Seq(S), NEW h \in Seq(S), NEW p \in Seq(S), NEW e \in Seq(S)
  PROVE  /\ p # <<>> => (d \o <<Head(p)>>) \o Tail(p) = (d \o <<>>) \o p
         /\ h # <<>> => (Append(d, Head(h)) \o Tail(h)) \o p = (d \o h) \o p
         /\ (d \o p) \o <<>> = (d \o <<>>) \o p
         /\ e # <<>> => (d \o h) \o Append(p, Head(e)) = Append((d \o h) \o p, Head(e))
<1>1. d \o <<>> = d /\ d \o p \in Seq(S) /\ (d \o p) \o <<>> = d \o p
  BY ConcatProperties, ConcatEmptySeq
<1>2. d \o h \in Seq(S) /\ (d \o h) \o p \in Seq(S)
  BY ConcatProperties
<1>3. ASSUME p # <<>> PROVE (d \o <<Head(p)>>) \o Tail(p) = d \o p
  <2>1. Head(p) \in S /\ Append(d, Head(p)) = d \o <<Head(p)>>
    BY <1>3, HeadTailProperties, AppendIsConcat
  <2> QED BY <1>3, <2>1, Passing
<1>4. ASSUME h # <<>> PROVE Append(d, Head(h)) \o Tail(h) = d \o h
  BY <1>4, Passing
<1>5. ASSUME e # <<>> PROVE (d \o h) \o Append(p, Head(e)) = Append((d \o h) \o p, Head(e))
  <2>1. Head(e) \in S
    BY <1>5, HeadTailProperties
  <2> QED BY <1>2, <2>1, ConcatAppend, SMTT(20)
<1> QED BY <1>1, <1>3, <1>4, <1>5

(* What is left of a stream that loses the events in hand keeps its order.  *)
Drops(d, h, p) ==
  /\ Elems((d \o h) \o p) = Elems((d \o <<>>) \o p) \cup Elems(h)
  /\ \A k \in DOMAIN ((d \o <<>>) \o p) :
       /\ (IF k <= Len(d) THEN k ELSE k + Len(h)) \in DOMAIN ((d \o h) \o p)
       /\ ((d \o h) \o p)[IF k <= Len(d) THEN k ELSE k + Len(h)] = ((d \o <<>>) \o p)[k]

LEMMA Dropped ==
  ASSUME NEW S, NEW d \in Seq(S), NEW h \in Seq(S), NEW p \in Seq(S)
  PROVE  Drops(d, h, p)
<1> DEFINE a == (d \o h) \o p
           b == d \o p
           Old(k) == IF k <= Len(d) THEN k ELSE k + Len(h)
<1>1. (d \o <<>>) \o p = b
  BY ConcatEmptySeq
<1>2. Elems(a) = Elems(b) \cup Elems(h)
  <2>1. \A s, t \in Seq(S) : s \o t \in Seq(S) /\ Elems(s \o t) = Elems(s) \cup Elems(t)
    BY ConcatElems
  <2>2. Elems((d \o h) \o p) = Elems(d \o h) \cup Elems(p)
    BY <2>1
  <2> QED BY <2>1, <2>2
<1>3. /\ d \o h \in Seq(S) /\ Len(d \o h) = Len(d) + Len(h)
      /\ \A k \in 1 .. Len(d) + Len(h) : (d \o h)[k] = IF k <= Len(d) THEN d[k] ELSE h[k - Len(d)]
      /\ Len(d) \in Nat /\ Len(h) \in Nat /\ Len(p) \in Nat
  BY ConcatProperties, LenProperties
<1>4. /\ b \in Seq(S) /\ Len(b) = Len(d) + Len(p)
      /\ \A k \in 1 .. Len(d) + Len(p) : b[k] = IF k <= Len(d) THEN d[k] ELSE p[k - Len(d)]
  BY ConcatProperties
<1> DEFINE q == d \o h
<1>5. /\ a \in Seq(S) /\ Len(a) = Len(q) + Len(p)
      /\ \A k \in 1 .. Len(q) + Len(p) : a[k] = IF k <= Len(q) THEN q[k] ELSE p[k - Len(q)]
  BY <1>3, ConcatProperties
<1>6. DOMAIN a = 1 .. (Len(q) + Len(p)) /\ DOMAIN b = 1 .. (Len(d) + Len(p))
  BY <1>4, <1>5, LenProperties
<1>7. ASSUME NEW k \in DOMAIN b PROVE Old(k) \in DOMAIN a /\ a[Old(k)] = b[k]
  <2> HIDE DEF a, b, q
  <2>0. Len(q) = Len(d) + Len(h) /\ \A n \in 1 .. Len(d) : q[n] = d[n]
    BY <1>3 DEF q
  <2>1. k \in 1 .. Len(d) + Len(p)
    BY <1>6
  <2>2. CASE k <= Len(d)
    <3>1. Old(k) = k /\ k \in 1 .. Len(d) /\ k <= Len(q) /\ k \in 1 .. (Len(q) + Len(p))
      BY <1>3, <2>0, <2>1, <2>2
    <3>2. a[k] = q[k] /\ q[k] = d[k] /\ b[k] = d[k]
      BY <1>3, <1>4, <1>5, <2>0, <2>1, <2>2, <3>1
    <3> QED BY <1>6, <3>1, <3>2
  <2>3. CASE k > Len(d)
    <3>1. Old(k) = k + Len(h) /\ Old(k) \in DOMAIN a
      BY <1>3, <1>6, <2>0, <2>1, <2>3
    <3>2. ~(k + Len(h) <= Len(q)) /\ (k + Len(h)) - Len(q) = k - Len(d)
      BY <1>3, <2>0, <2>1, <2>3
    <3>3. a[k + Len(h)] = p[k - Len(d)]
      BY <1>5, <1>6, <3>1, <3>2
    <3>4. b[k] = p[k - Len(d)]
      BY <1>3, <1>4, <2>1, <2>3
    <3> QED BY <3>1, <3>3, <3>4
  <2> QED BY <1>3, <2>1, <2>2, <2>3
<1> QED BY <1>1, <1>2, <1>7 DEF Drops

-----------------------------------------------------------------------------
(* Types.                                                                   *)
Events == Seq(EventRecord)

LEMMA SeqTypes ==
  ASSUME NEW S
  PROVE  /\ <<>> \in Seq(S)
         /\ \A e \in S : <<e>> \in Seq(S)
         /\ \A s \in Seq(S), e \in S : Append(s, e) \in Seq(S)
         /\ \A s \in Seq(S) : s # <<>> => Head(s) \in S /\ Tail(s) \in Seq(S)
         /\ \A s, t \in Seq(S) : s \o t \in Seq(S)
  BY EmptySeq, AppendProperties, HeadTailProperties, ConcatProperties

EventTypes ==
  /\ emitting \in Events /\ pending \in Events /\ hand \in Events
  /\ delivered \in Events /\ stored \in Events

LEMMA TypeParts ==
  /\ TypeOK => EventTypes
  /\ TypeOK' <=>
     /\ running' \in BOOLEAN /\ stop' \in BOOLEAN /\ expired' \in BOOLEAN
     /\ arrived' \in 0 .. MaxRaws
     /\ queue' \in Seq(1 .. arrived') /\ batch' \in Seq(1 .. arrived')
     /\ open' \subseteq Burst /\ ripe' \subseteq open' /\ todo' \subseteq Burst
     /\ failed' \subseteq 1 .. arrived'
     /\ EventTypes'
     /\ failures' \in 0 .. MaxFailures /\ interrupts' \in 0 .. MaxInterrupts
     /\ cut' \subseteq {"finally", "stop"}
     /\ pc' # "queue" => todo' = {} /\ emitting' = <<>>
     /\ pc' \notin {"deliver", "leftover"} => hand' = <<>>
  BY DEF TypeOK, EventTypes, Events

(* The surroundings, and the steps that only move the worker on.            *)
LEMMA SurroundingsKeepType ==
  ASSUME TypeOK, Notify \/ RipenAny \/ Expire \/ RequestStop
  PROVE  TypeOK'
<1> USE MonitorAssumption
<1>1. CASE Notify
  <2>1. /\ arrived + 1 \in 0 .. MaxRaws /\ 1 .. arrived \subseteq 1 .. (arrived + 1)
        /\ arrived + 1 \in 1 .. (arrived + 1)
    <3>1. arrived \in 0 .. MaxRaws
      BY DEF TypeOK
    <3>2. arrived < MaxRaws
      BY <1>1 DEF Notify
    <3> QED BY <3>1, <3>2
  <2>2. queue \in Seq(1 .. (arrived + 1)) /\ batch \in Seq(1 .. (arrived + 1))
    BY <2>1, SeqMonotonic DEF TypeOK
  <2>3. Append(queue, arrived + 1) \in Seq(1 .. (arrived + 1))
    BY <2>1, <2>2, SeqTypes
  <2> QED BY <1>1, <2>1, <2>2, <2>3 DEF TypeOK, Notify, bursts, output, bounds
<1>2. CASE RipenAny
  BY <1>2 DEF TypeOK, RipenAny, Ripen, source, output, bounds
<1>3. CASE Expire
  BY <1>3 DEF TypeOK, Expire, source, bursts, output, bounds
<1>4. CASE RequestStop
  BY <1>4 DEF TypeOK, RequestStop, source, bursts, output, bounds
<1> QED BY <1>1, <1>2, <1>3, <1>4

LEMMA MovesKeepType ==
  ASSUME TypeOK, Start \/ Loop \/ ReturnNone \/ StopSource \/ Leave \/ Fed \/ PullEnds \/ Queued
  PROVE  TypeOK'
<1> USE MonitorAssumption DEF Goto
<1>1. CASE Start
  BY <1>1 DEF TypeOK, Start, bursts, output, bounds
<1>2. CASE Loop
  BY <1>2 DEF TypeOK, Loop, source, bursts, output, bounds
<1>3. CASE ReturnNone
  BY <1>3 DEF TypeOK, ReturnNone, source, bursts, output, bounds
<1>4. CASE StopSource
  BY <1>4 DEF TypeOK, StopSource, bursts, output, bounds
<1>5. CASE Leave
  BY <1>5 DEF TypeOK, Leave, source, bursts, output, bounds
<1>6. CASE Fed
  BY <1>6 DEF TypeOK, Fed, source, bursts, output, bounds
<1>7. CASE PullEnds
  BY <1>7, SMTT(20) DEF TypeOK, PullEnds, source, bursts, output
<1>8. CASE Queued
  BY <1>8 DEF TypeOK, Queued, source, bursts, output, bounds
<1> QED BY <1>1, <1>2, <1>3, <1>4, <1>5, <1>6, <1>7, <1>8

(* The steps along the stream.                                              *)
OneInHand == pc = "deliver" => Len(hand) = 1

LEMMA StreamKeepsType ==
  ASSUME TypeOK, OneInHand, PopPending \/ Deliver \/ TakePending \/ Emit
  PROVE  TypeOK'
<1> USE DEF Goto
<1>1. CASE PopPending
  <2>1. /\ Head(pending) \in EventRecord /\ Tail(pending) \in Events
        /\ <<Head(pending)>> \in Events
    BY <1>1, TypeParts, SeqTypes DEF PopPending, EventTypes, Events
  <2> QED BY <1>1, <2>1, TypeParts DEF TypeOK, EventTypes, PopPending, source, bursts, bounds
<1>2. CASE Deliver
  <2>1. /\ Append(delivered, Head(hand)) \in Events /\ Tail(hand) \in Events
    BY <1>2, TypeParts, SeqTypes DEF Deliver, EventTypes, Events
  <2>2. pc = "deliver" => Tail(hand) = <<>>
    <3>1. ASSUME pc = "deliver" PROVE Tail(hand) = <<>>
      <4>1. hand \in Events /\ hand # <<>> /\ Len(hand) = 1
        BY <1>2, <3>1, TypeParts DEF Deliver, EventTypes, OneInHand
      <4>2. Tail(hand) \in Events /\ Len(Tail(hand)) = 0
        BY <4>1, HeadTailProperties DEF Events
      <4> QED BY <4>2, EmptySeq DEF Events
    <3> QED BY <3>1
  <2> QED BY <1>2, <2>1, <2>2, TypeParts DEF TypeOK, EventTypes, Deliver, source, bursts, bounds
<1>3. CASE TakePending
  <2>1. <<>> \in Events
    BY SeqTypes DEF Events
  <2> QED BY <1>3, <2>1, TypeParts DEF TypeOK, EventTypes, TakePending, source, bursts, bounds
<1>4. CASE Emit
  <2>1. /\ Append(pending, Head(emitting)) \in Events /\ Tail(emitting) \in Events
        /\ Append(stored, Head(emitting)) \in Events
    BY <1>4, TypeParts, SeqTypes DEF Emit, EventTypes, Events
  <2> QED BY <1>4, <2>1, TypeParts DEF TypeOK, EventTypes, Emit, source, bursts, bounds
<1> QED BY <1>1, <1>2, <1>3, <1>4

(* A closed burst makes one to three events.                                *)
LEMMA EnrichKeepsType ==
  ASSUME TypeOK, Enrich
  PROVE  TypeOK'
<1>1. PICK b \in todo, derived, suspicious \in BOOLEAN :
        /\ todo' = todo \ {b}
        /\ emitting' = (<<Event(MainType(b), b)>> \o Follow("DERIVED", b, derived))
                       \o Follow("SUSPICIOUS_DEVICE", b, suspicious)
  BY DEF Enrich
<1>2. b \in Burst
  BY DEF TypeOK
<1>3. /\ Event(MainType(b), b) \in EventRecord
      /\ \A type \in {"DERIVED", "SUSPICIOUS_DEVICE"} : Event(type, b) \in EventRecord
  BY <1>2 DEF Event, EventRecord, MainType
<1>4. /\ <<Event(MainType(b), b)>> \in Events
      /\ Follow("DERIVED", b, derived) \in Events
      /\ Follow("SUSPICIOUS_DEVICE", b, suspicious) \in Events
  BY <1>3, SeqTypes DEF Follow, Events
<1>5. emitting' \in Events
  BY <1>1, <1>4, SeqTypes DEF Events
<1> QED BY <1>1, <1>5, TypeParts DEF TypeOK, EventTypes, Enrich, source, bursts, output, bounds

(* A loop over bursts that were closed, and a raw that joins one.           *)
Quiet == pc \notin {"queue", "deliver", "leftover"}

LEMMA FlushKeepsType ==
  ASSUME TypeOK, Quiet, NEW closed \in SUBSET open, NEW next, Flush(closed, next),
         UNCHANGED <<source, stop, expired>>,
         failures' \in 0 .. MaxFailures, UNCHANGED <<interrupts, cut>>
  PROVE  TypeOK'
  BY TypeParts DEF TypeOK, EventTypes, Flush, QueueEvents, Goto, Quiet, source, output

LEMMA IngestKeepsType ==
  ASSUME TypeOK, Quiet, NEW raw \in 1 .. arrived, NEW next, Ingest(raw, next),
         UNCHANGED <<running, arrived, stop, expired, failed, bounds>>,
         queue' \in Seq(1 .. arrived), batch' \in Seq(1 .. arrived)
  PROVE  TypeOK'
<1>1. PICK b \in {c \in open \ ripe : SameAction(raw, c)} \cup {{}} :
        open' = ((open \ ripe) \ {b}) \cup {b \cup {raw}}
  BY DEF Ingest
<1>2. raw \in RawId
  BY MonitorAssumption DEF TypeOK, RawId
<1>3. b \cup {raw} \in Burst
  <2>1. b \in SUBSET RawId
    BY DEF TypeOK, Burst
  <2>2. b \cup {raw} \in SUBSET RawId /\ b \cup {raw} # {}
    BY <1>2, <2>1
  <2> QED BY <2>2 DEF Burst
<1>4. open' \subseteq Burst
  BY <1>1, <1>3 DEF TypeOK
<1> QED BY <1>4, TypeParts DEF TypeOK, EventTypes, Ingest, QueueEvents, Goto, Quiet, bounds, output

LEMMA BurstStepsKeepType ==
  ASSUME TypeOK, PollExpired \/ PollNone \/ PollFails \/ Finally \/ Drain \/ Exit
                 \/ PollIngest \/ Feed
  PROVE  TypeOK'
<1> USE MonitorAssumption
<1>1. failures \in 0 .. MaxFailures
  BY DEF TypeOK
<1>2. CASE PollExpired
  <2>1. Quiet /\ ripe \in SUBSET open /\ Flush(ripe, "return") /\ UNCHANGED <<source, stop, expired, bounds>>
    BY <1>2 DEF PollExpired, Quiet, TypeOK
  <2> QED BY <1>1, <2>1, FlushKeepsType DEF bounds
<1>3. CASE PollNone
  <2>1. Quiet /\ ripe \in SUBSET open /\ Flush(ripe, "poll") /\ UNCHANGED <<source, stop, expired, bounds>>
    BY <1>3 DEF PollNone, Quiet, TypeOK
  <2> QED BY <1>1, <2>1, FlushKeepsType DEF bounds
<1>4. CASE PollFails
  <2>1. /\ Quiet /\ ripe \in SUBSET open /\ Flush(ripe, "poll")
        /\ UNCHANGED <<source, stop, expired, interrupts, cut>> /\ failures' \in 0 .. MaxFailures
    BY <1>1, <1>4 DEF PollFails, Quiet, TypeOK
  <2> QED BY <2>1, FlushKeepsType
<1>5. CASE Finally
  <2>1. Quiet /\ open \in SUBSET open /\ UNCHANGED <<source, stop, expired, bounds>>
    BY <1>5 DEF Finally, Quiet
  <2>2. Flush(open, IF owner = "run" THEN "stop source" ELSE "drain")
    BY <1>5 DEF Finally
  <2> QED BY <1>1, <2>1, <2>2, FlushKeepsType DEF bounds
<1>6. CASE Drain
  <2>1. Quiet /\ ripe \in SUBSET open /\ Flush(ripe, "take") /\ UNCHANGED <<source, stop, expired, bounds>>
    BY <1>6 DEF Drain, Quiet, TypeOK
  <2> QED BY <1>1, <2>1, FlushKeepsType DEF bounds
<1>7. CASE Exit
  <2>1. Quiet /\ open \in SUBSET open /\ Flush(open, "exit source") /\ UNCHANGED <<source, stop, expired, bounds>>
    BY <1>7 DEF Exit, Quiet
  <2> QED BY <1>1, <2>1, FlushKeepsType DEF bounds
<1>8. CASE PollIngest
  <2>1. /\ Quiet /\ Ingest(Head(queue), "poll") /\ queue # <<>> /\ queue' = Tail(queue)
        /\ UNCHANGED <<running, arrived, batch, stop, expired, failed, bounds>>
    BY <1>8 DEF PollIngest, Pop, Quiet
  <2>2. Head(queue) \in 1 .. arrived /\ Tail(queue) \in Seq(1 .. arrived) /\ batch \in Seq(1 .. arrived)
    BY <2>1, SeqTypes DEF TypeOK
  <2> QED BY <2>1, <2>2, IngestKeepsType
<1>9. CASE Feed
  <2>1. /\ Quiet /\ Ingest(Head(batch), "feed") /\ batch # <<>> /\ batch' = Tail(batch)
        /\ UNCHANGED <<running, arrived, queue, stop, expired, failed, bounds>>
    BY <1>9 DEF Feed, Quiet
  <2>2. Head(batch) \in 1 .. arrived /\ Tail(batch) \in Seq(1 .. arrived) /\ queue \in Seq(1 .. arrived)
    BY <2>1, SeqTypes DEF TypeOK
  <2> QED BY <2>1, <2>2, IngestKeepsType
<1> QED BY <1>2, <1>3, <1>4, <1>5, <1>6, <1>7, <1>8, <1>9

(* Raws that are dropped or pulled, and Ctrl+C.                             *)
LEMMA RawStepsKeepType ==
  ASSUME TypeOK, IngestFails \/ FeedFails \/ Replay \/ Pull \/ Interrupt
  PROVE  TypeOK'
<1> USE MonitorAssumption DEF Goto
<1>1. /\ queue \in Seq(1 .. arrived) /\ batch \in Seq(1 .. arrived) /\ <<>> \in Seq(1 .. arrived)
      /\ queue # <<>> => Head(queue) \in 1 .. arrived /\ Tail(queue) \in Seq(1 .. arrived)
      /\ batch # <<>> => Head(batch) \in 1 .. arrived /\ Tail(batch) \in Seq(1 .. arrived)
  BY SeqTypes DEF TypeOK
<1>2. CASE IngestFails
  <2>1. failures + 1 \in 0 .. MaxFailures
    BY <1>2 DEF TypeOK, IngestFails
  <2>2. /\ arrived' = arrived /\ queue # <<>> /\ queue' = Tail(queue) /\ failures' = failures + 1
        /\ failed' = failed \cup {Head(queue)}
        /\ UNCHANGED <<running, batch, stop, expired, open, ripe, todo, pc, emitting, output, interrupts, cut>>
    BY <1>2 DEF IngestFails, Pop
  <2> QED BY <1>1, <2>1, <2>2, TypeParts DEF TypeOK, EventTypes, output
<1>3. CASE FeedFails
  <2>1. failures + 1 \in 0 .. MaxFailures
    BY <1>3 DEF TypeOK, FeedFails
  <2>2. /\ arrived' = arrived /\ batch # <<>> /\ batch' = Tail(batch) /\ failures' = failures + 1
        /\ failed' = failed \cup {Head(batch)}
        /\ UNCHANGED <<running, queue, stop, expired, open, ripe, todo, pc, emitting, output, interrupts, cut>>
    BY <1>3 DEF FeedFails
  <2> QED BY <1>1, <2>1, <2>2, TypeParts DEF TypeOK, EventTypes, output
<1>4. CASE Replay
  BY <1>1, <1>4, TypeParts DEF TypeOK, EventTypes, Replay, TakeAll, bursts, output, bounds
<1>5. CASE Pull
  <2>1. queue # <<>> => Append(batch, Head(queue)) \in Seq(1 .. arrived)
    BY <1>1, SeqTypes
  <2> QED BY <1>1, <1>5, <2>1, TypeParts DEF TypeOK, EventTypes, Pull, Pop, bursts, output, bounds
<1>6. CASE Interrupt
  <2>1. <<>> \in Events
    BY SeqTypes DEF Events
  <2>2. queue' \in Seq(1 .. arrived) /\ UNCHANGED <<arrived, batch, failed>>
    BY <1>1, <1>6 DEF Interrupt, bursts
  <2>3. /\ interrupts' \in 0 .. MaxInterrupts /\ pc' \in {"finally", "exit", "done"}
        /\ cut' \subseteq {"finally", "stop"} /\ EventTypes'
    <3>1. interrupts' \in 0 .. MaxInterrupts
      <4>1. interrupts < MaxInterrupts /\ interrupts' = interrupts + 1
        BY <1>6 DEF Interrupt
      <4>2. interrupts \in 0 .. MaxInterrupts
        BY DEF TypeOK
      <4> QED BY <4>1, <4>2
    <3>2. pc' \in {"finally", "exit", "done"} /\ cut' \subseteq cut \cup {"finally", "stop"}
      BY <1>6 DEF Interrupt, Unwind
    <3>3. EventTypes'
      BY <1>6, <2>1, TypeParts DEF EventTypes, Interrupt
    <3> QED BY <3>1, <3>2, <3>3 DEF TypeOK
  <2>4. /\ UNCHANGED <<running, stop, expired, open, ripe, failures>> /\ todo' = {} /\ emitting' = <<>>
        /\ hand' = <<>>
    BY <1>6 DEF Interrupt, bursts
  <2> QED BY <2>2, <2>3, <2>4, TypeParts DEF TypeOK
<1> QED BY <1>2, <1>3, <1>4, <1>5, <1>6

-----------------------------------------------------------------------------
(* Where the worker is, or goes when the loop it is in ends; which labels   *)
(* run() and a caller of replay() pass; what is empty by then.              *)
At == IF pc = "queue" THEN back ELSE pc

RunLabel == {"idle", "loop", "poll", "return", "deliver", "finally", "stop source", "drain",
             "take", "leftover", "exit", "exit source", "done"}
CallerLabel == {"idle", "pull", "feed", "drain", "take", "leftover", "exit source", "done"}
Ending == {"leftover", "exit", "exit source", "done"}
Flushed == {"stop source", "drain", "take"} \cup Ending

Control ==
  /\ owner \in {"run", "context", "caller"}
  /\ (pc = "queue" <=> back # "idle") /\ back # "deliver"
  /\ owner = "caller" => At \in CallerLabel
  /\ owner # "caller" => At \in RunLabel
  /\ OneInHand
  /\ batch # <<>> => At \in {"pull", "feed"}

(* The clause that stops the source and closes the bursts was cut short.    *)
Spoilt == At = "done" /\ ShutBy \in cut

Shutdown ==
  /\ /\ At \in Flushed /\ (owner = "caller" => At \in {"exit source", "done"})
     /\ ~Spoilt /\ ~(At = "exit" /\ "finally" \in cut)
     => open = {}
  /\ At \in Ending /\ owner # "caller" /\ "finally" \notin cut =>
       pending = <<>> /\ todo = {} /\ emitting = <<>>
  /\ owner = "caller" \/ (At = "done" /\ ~Spoilt) => ~running
  /\ owner = "run" =>
       /\ At \in {"drain", "take", "leftover"} => ~running
       /\ At \notin {"exit", "exit source"} /\ cut \subseteq {"finally"}
  /\ owner = "caller" => cut = {}
  /\ "finally" \in cut => At \in {"exit", "exit source", "done"}
  /\ "stop" \in cut => At = "done"
  /\ At = "stop source" => owner = "run"

LEMMA FlushKeepsPhase ==
  ASSUME TypeOK, Control, Shutdown, Quiet, NEW closed \in SUBSET open, NEW next, Flush(closed, next),
         UNCHANGED <<source, cut>>, next \notin {"idle", "deliver", "done", "exit"},
         batch # <<>> => next \in {"pull", "feed"},
         owner = "caller" => next \in CallerLabel, owner # "caller" => next \in RunLabel,
         next \in Flushed /\ (owner = "caller" => next = "exit source") => open = {} \/ closed = open,
         next \in Ending /\ owner # "caller" /\ "finally" \notin cut => pending = <<>> /\ open = {},
         owner = "run" => (next \in {"drain", "take", "leftover"} => ~running) /\ next # "exit source",
         cut = {} \/ (next = "exit source" /\ "stop" \notin cut),
         next = "stop source" => owner = "run"
  PROVE  Control' /\ Shutdown'
<1>1. /\ pc' = "queue" /\ back' = next /\ pc # "queue" /\ At' = next
      /\ open' = open \ closed /\ todo' = {b \in closed : ~(b \subseteq Noise)}
      /\ UNCHANGED <<owner, running, batch, emitting, pending, cut>>
  BY DEF Flush, QueueEvents, Goto, Quiet, source, output, At
<1>2. Control'
  BY <1>1 DEF Control, OneInHand
<1>3. emitting = <<>>
  BY <1>1 DEF TypeOK
<1>4. closed = open \/ open = {} => open' = {}
  BY <1>1
<1>5. open = {} => todo' = {}
  BY <1>1
<1> HIDE DEF Flushed, Ending
<1>6. Shutdown'
  <2>1. ~Spoilt' /\ At' \notin {"done", "exit"}
    BY <1>1 DEF Spoilt
  <2>2. cut \subseteq {"finally", "stop"}
    BY DEF TypeOK
  <2> QED BY <1>1, <1>3, <1>4, <1>5, <2>1, <2>2 DEF Shutdown
<1> QED BY <1>2, <1>6

LEMMA BurstStepsKeepPhase ==
  ASSUME TypeOK, Control, Shutdown,
         PollExpired \/ PollNone \/ PollFails \/ Finally \/ Drain \/ Exit
  PROVE  Control' /\ Shutdown'
<1> USE DEF CallerLabel, RunLabel, Flushed, Ending, bounds
<1>1. ripe \in SUBSET open /\ open \in SUBSET open
  BY DEF TypeOK
<1>2. CASE PollExpired
  <2>1. Quiet /\ At = "poll" /\ owner # "caller" /\ batch = <<>> /\ Flush(ripe, "return") /\ UNCHANGED <<source, cut>>
    BY <1>2 DEF PollExpired, Quiet, Control, At
  <2>2. cut = {}
    BY <2>1 DEF Shutdown, TypeOK
  <2> QED BY <1>1, <2>1, <2>2, FlushKeepsPhase
<1>3. CASE PollNone \/ PollFails
  <2>1. Quiet /\ At = "poll" /\ owner # "caller" /\ batch = <<>> /\ Flush(ripe, "poll") /\ UNCHANGED <<source, cut>>
    BY <1>3 DEF PollNone, PollFails, Quiet, Control, At
  <2>2. cut = {}
    BY <2>1 DEF Shutdown, TypeOK
  <2> QED BY <1>1, <2>1, <2>2, FlushKeepsPhase
<1>4. CASE Finally
  <2>1. Quiet /\ At = "finally" /\ owner # "caller" /\ batch = <<>> /\ UNCHANGED <<source, cut>>
    BY <1>4 DEF Finally, Quiet, Control, At
  <2>0. cut = {}
    BY <2>1 DEF Shutdown, TypeOK
  <2>2. CASE owner = "run"
    <3>1. Flush(open, "stop source")
      BY <1>4, <2>2 DEF Finally
    <3> QED BY <1>1, <2>0, <2>1, <2>2, <3>1, FlushKeepsPhase
  <2>3. CASE owner # "run"
    <3>1. Flush(open, "drain")
      BY <1>4, <2>3 DEF Finally
    <3> QED BY <1>1, <2>0, <2>1, <2>3, <3>1, FlushKeepsPhase
  <2> QED BY <2>2, <2>3
<1>5. CASE Drain
  <2>1. Quiet /\ At = "drain" /\ batch = <<>> /\ Flush(ripe, "take") /\ UNCHANGED <<source, cut>>
    BY <1>5 DEF Drain, Quiet, Control, At
  <2>2. owner # "caller" => open = {}
    BY <2>1 DEF Shutdown, Spoilt
  <2>3. /\ owner = "run" => ~running
        /\ cut = {}
    BY <2>1 DEF Shutdown, TypeOK
  <2> QED BY <1>1, <2>1, <2>2, <2>3, FlushKeepsPhase
<1>6. CASE Exit
  <2>1. /\ Quiet /\ batch = <<>> /\ Flush(open, "exit source") /\ UNCHANGED <<source, cut>>
        /\ At \in {"idle", "exit"}
    BY <1>6 DEF Exit, Quiet, Control, At
  <2>2. owner # "caller" => At = "exit" /\ owner # "run"
    BY <1>6 DEF Exit, Control, Shutdown, At
  <2>3. owner # "caller" /\ "finally" \notin cut => pending = <<>> /\ open = {}
    BY <2>2 DEF Shutdown, Spoilt
  <2>4. "stop" \notin cut /\ (owner = "caller" => cut = {})
    BY <2>1 DEF Shutdown
  <2> QED BY <1>1, <2>1, <2>2, <2>3, <2>4, FlushKeepsPhase
<1> QED BY <1>2, <1>3, <1>4, <1>5, <1>6

LEMMA InterruptKeepsPhase ==
  ASSUME TypeOK, Control, Shutdown, Interrupt
  PROVE  Control' /\ Shutdown'
<1>1. /\ owner # "caller" /\ back' = "idle" /\ todo' = {} /\ emitting' = <<>> /\ hand' = <<>>
      /\ UNCHANGED <<owner, running, batch, open, pending>>
  BY DEF Interrupt, bursts
<1> USE DEF Control, Shutdown, Spoilt, ShutBy, At, OneInHand, Goto
<1>2. CASE InLoop /\ Goto("finally") /\ UNCHANGED cut
  BY <1>1, <1>2 DEF InLoop, RunLabel, Flushed, Ending
<1>3. CASE /\ InFinally /\ Goto(IF owner = "context" THEN "exit" ELSE "done")
           /\ cut' = cut \cup {"finally"}
  <2>1. cut = {} /\ At \in {"finally", "stop source", "drain", "take", "leftover"}
    BY <1>3 DEF TypeOK, InFinally
  <2> QED BY <1>1, <1>3, <2>1 DEF RunLabel, Flushed, Ending
<1>4. CASE InStop /\ Goto("done") /\ cut' = cut \cup {"stop"}
  <2>1. At \in {"exit", "exit source"} /\ owner = "context"
    BY <1>1, <1>4 DEF InStop
  <2> QED BY <1>1, <1>4, <2>1 DEF RunLabel, Flushed, Ending
<1> QED BY <1>2, <1>3, <1>4 DEF Interrupt, Unwind

LEMMA StillKeepsPhase ==
  ASSUME Control, Shutdown,
         UNCHANGED <<owner, running, batch, open, pc, back, todo, emitting, hand, pending, cut>>
  PROVE  Control' /\ Shutdown'
<1>1. At' = At /\ ShutBy' = ShutBy
  BY DEF At, ShutBy
<1>2. OneInHand' = OneInHand
  BY DEF OneInHand
<1>3. Control'
  BY <1>1, <1>2 DEF Control
<1>4. Shutdown'
  BY <1>1 DEF Shutdown, Spoilt
<1> QED BY <1>3, <1>4

(* No other step opens a burst once they are flushed, or adds an event once *)
(* _pending was taken.                                                      *)
LEMMA OthersKeepPhase ==
  ASSUME TypeOK, Control, Shutdown,
         \/ Notify \/ RipenAny \/ Expire \/ RequestStop \/ Start \/ Loop \/ ReturnNone
         \/ StopSource \/ Leave \/ Fed \/ PullEnds \/ Queued
         \/ PopPending \/ Deliver \/ TakePending \/ Emit \/ Enrich
         \/ PollIngest \/ Feed \/ IngestFails \/ FeedFails \/ Replay \/ Pull \/ Interrupt
  PROVE  Control' /\ Shutdown'
<1> USE DEF Control, Shutdown, Spoilt, ShutBy, At, OneInHand, Goto, bounds
<1>1. CASE Notify
  BY <1>1 DEF Notify, bursts, output, bounds
<1> USE DEF CallerLabel, RunLabel, Flushed, Ending
<1>2. CASE RipenAny
  <2>1. UNCHANGED <<owner, running, batch, open, pc, back, todo, emitting, hand, pending, cut>>
    BY <1>2 DEF RipenAny, Ripen, source, output
  <2> QED BY <2>1, StillKeepsPhase
<1>3. CASE Expire \/ RequestStop
  <2>1. UNCHANGED <<owner, running, batch, open, pc, back, todo, emitting, hand, pending, cut>>
    BY <1>3 DEF Expire, RequestStop, source, bursts, output
  <2> QED BY <2>1, StillKeepsPhase
<1>4. CASE Start
  BY <1>4 DEF Start, bursts, output, bounds
<1>5. CASE Loop
  BY <1>5 DEF Loop, source, bursts, output, bounds
<1>6. CASE ReturnNone
  BY <1>6 DEF ReturnNone, source, bursts, output, bounds
<1>7. CASE StopSource
  BY <1>7 DEF StopSource, bursts, output, bounds
<1>8. CASE Leave
  BY <1>8 DEF Leave, source, bursts, output, bounds
<1>9. CASE Fed
  BY <1>9 DEF Fed, source, bursts, output, bounds
<1>10. CASE PullEnds
  BY <1>10 DEF PullEnds, source, bursts, output
<1>11. CASE Queued
  BY <1>11 DEF Queued, source, bursts, output, bounds
<1>12. CASE PopPending
  BY <1>12, TypeParts DEF PopPending, source, bursts, bounds
<1>13. CASE Deliver
  BY <1>13 DEF Deliver, source, bursts, bounds
<1>14. CASE TakePending
  BY <1>14 DEF TypeOK, TakePending, source, bursts, bounds
<1>15. CASE Emit
  BY <1>15 DEF Emit, source, bursts, bounds
<1>16. CASE Enrich
  BY <1>16 DEF Enrich, source, bursts, output, bounds
<1>17. CASE PollIngest
  BY <1>17 DEF PollIngest, Pop, Ingest, QueueEvents, output, bounds
<1>18. CASE Feed
  BY <1>18 DEF Feed, Ingest, QueueEvents, output, bounds
<1>19. CASE IngestFails
  BY <1>19 DEF IngestFails, Pop, output
<1>20. CASE FeedFails
  BY <1>20 DEF FeedFails, output
<1>21. CASE Replay
  BY <1>21 DEF Replay, TakeAll, bursts, output, bounds
<1>22. CASE Pull
  BY <1>22 DEF Pull, Pop, bursts, output, bounds
<1>23. CASE Interrupt
  BY <1>23, InterruptKeepsPhase DEF Interrupt
<1> QED BY <1>1, <1>2, <1>3, <1>4, <1>5, <1>6, <1>7, <1>8, <1>9, <1>10, <1>11, <1>12, <1>13,
           <1>14, <1>15, <1>16, <1>17, <1>18, <1>19, <1>20, <1>21, <1>22, <1>23

-----------------------------------------------------------------------------
(* Raws in the queue, in the batch, dropped, and in bursts that are open,   *)
(* closed or made into events, none of them in two of these places.         *)
Apart(B) == \A c, d \in B : c = d \/ c \cap d = {}
Free(s, B) == \A c \in B : s \cap c = {}

Separate(q, b, f, o, t, e) ==
  /\ q \cap b = {} /\ q \cap f = {} /\ b \cap f = {}
  /\ Free(q \cup b \cup f, o \cup t \cup e)
  /\ Apart(o \cup t \cup e)
  /\ o \cap t = {} /\ (o \cup t) \cap e = {}

LEMMA SeparateFewer ==
  ASSUME NEW q, NEW b, NEW f, NEW o, NEW t, NEW e, Separate(q, b, f, o, t, e),
         NEW q1 \in SUBSET q, NEW b1 \in SUBSET b, NEW o1, NEW t1, NEW e1 \in SUBSET e,
         o1 \cup t1 \subseteq o \cup t, o1 \cap t1 = {}
  PROVE  Separate(q1, b1, f, o1, t1, e1)
<1>1. o1 \cup t1 \cup e1 \subseteq o \cup t \cup e
  OBVIOUS
<1>2. q1 \cap b1 = {} /\ q1 \cap f = {} /\ b1 \cap f = {}
  BY DEF Separate
<1>3. Free(q1 \cup b1 \cup f, o1 \cup t1 \cup e1)
  BY <1>1 DEF Separate, Free
<1>4. Apart(o1 \cup t1 \cup e1)
  BY <1>1 DEF Separate, Apart
<1>5. (o1 \cup t1) \cap e1 = {}
  BY DEF Separate
<1> QED BY <1>2, <1>3, <1>4, <1>5 DEF Separate

(* One raw goes from the queue or the batch to the batch or is dropped.     *)
LEMMA SeparateMoved ==
  ASSUME NEW q, NEW b, NEW f, NEW o, NEW t, NEW e, Separate(q, b, f, o, t, e)
  PROVE  /\ \A x \in q : /\ Separate(q \ {x}, b \cup {x}, f, o, t, e)
                         /\ Separate(q \ {x}, b, f \cup {x}, o, t, e)
         /\ \A x \in b : Separate(q, b \ {x}, f \cup {x}, o, t, e)
         /\ b = {} => Separate({}, q, f, o, t, e)
<1> DEFINE B == o \cup t \cup e
<1>1. /\ q \cap b = {} /\ q \cap f = {} /\ b \cap f = {} /\ Free(q \cup b \cup f, B)
      /\ Apart(B) /\ o \cap t = {} /\ (o \cup t) \cap e = {}
  BY DEF Separate
<1> HIDE DEF B
<1>2. \A q1, b1, f1 : /\ q1 \cap b1 = {} /\ q1 \cap f1 = {} /\ b1 \cap f1 = {}
                      /\ q1 \cup b1 \cup f1 \subseteq q \cup b \cup f
                      => Separate(q1, b1, f1, o, t, e)
  <2>1. \A s \in SUBSET (q \cup b \cup f) : Free(s, B)
    BY <1>1 DEF Free
  <2> QED BY <1>1, <2>1 DEF Separate, B
<1>3. ASSUME NEW x \in q
      PROVE  /\ Separate(q \ {x}, b \cup {x}, f, o, t, e)
             /\ Separate(q \ {x}, b, f \cup {x}, o, t, e)
  <2>1. /\ (q \ {x}) \cap (b \cup {x}) = {} /\ (q \ {x}) \cap f = {} /\ (b \cup {x}) \cap f = {}
        /\ (q \ {x}) \cup (b \cup {x}) \cup f \subseteq q \cup b \cup f
    BY <1>1
  <2>2. /\ (q \ {x}) \cap b = {} /\ (q \ {x}) \cap (f \cup {x}) = {} /\ b \cap (f \cup {x}) = {}
        /\ (q \ {x}) \cup b \cup (f \cup {x}) \subseteq q \cup b \cup f
    BY <1>1
  <2> QED BY <1>2, <2>1, <2>2
<1>4. ASSUME NEW x \in b PROVE Separate(q, b \ {x}, f \cup {x}, o, t, e)
  <2>1. /\ q \cap (b \ {x}) = {} /\ q \cap (f \cup {x}) = {} /\ (b \ {x}) \cap (f \cup {x}) = {}
        /\ q \cup (b \ {x}) \cup (f \cup {x}) \subseteq q \cup b \cup f
    BY <1>1
  <2> QED BY <1>2, <2>1
<1>5. b = {} => Separate({}, q, f, o, t, e)
  BY <1>1, <1>2
<1> QED BY <1>3, <1>4, <1>5

(* A new raw arrives in the queue.                                          *)
LEMMA SeparateArrived ==
  ASSUME NEW q, NEW b, NEW f, NEW o, NEW t, NEW e, Separate(q, b, f, o, t, e),
         NEW x, x \notin b \cup f, \A c \in o \cup t \cup e : x \notin c
  PROVE  Separate(q \cup {x}, b, f, o, t, e)
<1>1. Free((q \cup {x}) \cup b \cup f, o \cup t \cup e)
  BY DEF Separate, Free
<1> QED BY <1>1 DEF Separate

(* A raw of the queue or the batch joins one of the open bursts o1 or makes *)
(* one of its own, when the others of o are closed.                         *)
LEMMA SeparateJoined ==
  ASSUME NEW q, NEW b, NEW f, NEW o, NEW t, NEW e, Separate(q, b, f, o, t, e),
         NEW x \in q \cup b, NEW o1, NEW t1, o1 \cup t1 \subseteq o \cup t, o1 \cap t1 = {},
         NEW c \in o1 \cup {{}}
  PROVE  Separate(q \ {x}, b \ {x}, f, (o1 \ {c}) \cup {c \cup {x}}, t1, e)
<1> DEFINE n == c \cup {x}
           o2 == (o1 \ {c}) \cup {n}
           B == o \cup t \cup e
<1>1. /\ q \cap b = {} /\ q \cap f = {} /\ b \cap f = {}
      /\ \A s \in SUBSET (q \cup b \cup f) : \A d \in B : s \cap d = {}
      /\ \A d \in B : x \notin d
      /\ \A d1, d2 \in B : d1 = d2 \/ d1 \cap d2 = {}
      /\ o \cap t = {} /\ (o \cup t) \cap e = {}
  BY DEF Separate, Free, Apart
<1>2. c = {} \/ c \in B
  OBVIOUS
<1>3. n \notin B /\ x \in n /\ x \notin f
  BY <1>1
<1>4. \A d \in B : d = c \/ n \cap d = {}
  BY <1>1, <1>2
<1>5. (o2 \cup t1 \cup e) \ {n} \subseteq B
  OBVIOUS
<1>6. (c \notin t1 /\ c \notin e) \/ c = {}
  BY <1>1
<1>7. \A d \in (o2 \cup t1 \cup e) \ {n} : n \cap d = {}
  <2> SUFFICES ASSUME NEW d \in (o2 \cup t1 \cup e) \ {n} PROVE n \cap d = {}
    OBVIOUS
  <2>1. d \in B
    BY <1>5
  <2>2. CASE d = c
    <3>1. d \notin o2 
      BY <2>2, <1>3
    <3>2. d = {}
      BY <1>6, <2>2, <3>1
    <3> QED BY <3>2
  <2> QED BY <1>4, <2>1, <2>2
<1>8. Apart(o2 \cup t1 \cup e)
  <2> HIDE DEF n, o2, B
  <2> QED BY <1>1, <1>5, <1>7 DEF Apart
<1>9. Free((q \ {x}) \cup (b \ {x}) \cup f, o2 \cup t1 \cup e)
  <2> SUFFICES ASSUME NEW d \in o2 \cup t1 \cup e,
                      NEW y \in (q \ {x}) \cup (b \ {x}) \cup f, y \in d
               PROVE  FALSE
    BY DEF Free
  <2>1. y # x /\ y \in q \cup b \cup f
    BY <1>3
  <2>2. \A g \in B : y \notin g
    BY <1>1, <2>1
  <2>3. d = n
    BY <1>5, <2>2
  <2>4. y \in c
    BY <2>1, <2>3
  <2> QED BY <1>2, <2>2, <2>4
<1>10. o2 \cap t1 = {} /\ (o2 \cup t1) \cap e = {}
  BY <1>1, <1>3
<1>11. /\ (q \ {x}) \cap (b \ {x}) = {} /\ (q \ {x}) \cap f = {} /\ (b \ {x}) \cap f = {}
  BY <1>1
<1> QED BY <1>8, <1>9, <1>10, <1>11 DEF Separate

(* A closed burst is made into events.                                      *)
LEMMA SeparateMade ==
  ASSUME NEW q, NEW b, NEW f, NEW o, NEW t, NEW e, Separate(q, b, f, o, t, e), NEW c \in t
  PROVE  Separate(q, b, f, o, t \ {c}, e \cup {c})
<1>1. o \cup (t \ {c}) \cup (e \cup {c}) = o \cup t \cup e
  OBVIOUS
<1>2. o \cap (t \ {c}) = {} /\ (o \cup (t \ {c})) \cap (e \cup {c}) = {}
  BY DEF Separate
<1> QED BY <1>1, <1>2 DEF Separate

-----------------------------------------------------------------------------
(* Every raw is in one place, and none is lost while nobody interrupts.     *)
EventsIn == Elems(Announced) \cup Elems(stored)
EventBursts == {e.raws : e \in EventsIn}

RawsApart ==
  /\ IsInjective(queue) /\ IsInjective(batch)
  /\ Separate(Elems(queue), Elems(batch), failed, open, todo, EventBursts)
  /\ \A c \in open \cup todo \cup EventBursts : c \subseteq 1 .. arrived

MainRaws == UNION {e.raws : e \in {g \in Elems(Announced) : IsMain(g)}}
Held == Elems(queue) \cup Elems(batch) \cup failed \cup (UNION (open \cup todo)) \cup MainRaws

NoneLost == interrupts = 0 => (1 .. arrived) \ Noise \subseteq Held

Raws == RawsApart /\ NoneLost
SameEvents == Announced' = Announced /\ EventsIn' = EventsIn

LEMMA SameEventsParts ==
  ASSUME SameEvents
  PROVE  EventBursts' = EventBursts /\ MainRaws' = MainRaws
  BY DEF SameEvents, EventBursts, MainRaws, IsMain

LEMMA QueueElems ==
  ASSUME TypeOK
  PROVE  /\ Elems(queue) \subseteq 1 .. arrived /\ Elems(batch) \subseteq 1 .. arrived
         /\ queue # <<>> =>
              /\ Elems(queue) = {Head(queue)} \cup Elems(Tail(queue)) /\ Head(queue) \in Elems(queue)
              /\ IsInjective(queue) => /\ IsInjective(Tail(queue))
                                       /\ Elems(Tail(queue)) = Elems(queue) \ {Head(queue)}
         /\ batch # <<>> =>
              /\ Elems(batch) = {Head(batch)} \cup Elems(Tail(batch)) /\ Head(batch) \in Elems(batch)
              /\ IsInjective(batch) => /\ IsInjective(Tail(batch))
                                       /\ Elems(Tail(batch)) = Elems(batch) \ {Head(batch)}
<1>1. queue \in Seq(1 .. arrived) /\ batch \in Seq(1 .. arrived)
  BY DEF TypeOK
<1>2. \A s \in Seq(1 .. arrived) : Elems(s) \subseteq 1 .. arrived
  <2> SUFFICES ASSUME NEW s \in Seq(1 .. arrived), NEW k \in DOMAIN s PROVE s[k] \in 1 .. arrived
    BY DEF Elems
  <2> QED BY LenProperties, ElementOfSeq
<1>3. \A s \in Seq(1 .. arrived) : s # <<>> =>
        /\ Elems(s) = {Head(s)} \cup Elems(Tail(s)) /\ Head(s) \in Elems(s)
        /\ IsInjective(s) => IsInjective(Tail(s)) /\ Head(s) \notin Elems(Tail(s))
  BY TailElems
<1> HIDE DEF IsInjective, Elems
<1> QED BY <1>1, <1>2, <1>3

(* Steps that leave the raws where they are.                                *)
LEMMA StillKeepsRaws ==
  ASSUME TypeOK, Raws, SameEvents,
         UNCHANGED <<arrived, queue, batch, failed, open, todo, interrupts>>
  PROVE  Raws'
<1>1. EventBursts' = EventBursts /\ MainRaws' = MainRaws
  BY SameEventsParts
<1>2. Elems(queue)' = Elems(queue) /\ Elems(batch)' = Elems(batch)
  BY DEF Elems
<1> QED BY <1>1, <1>2 DEF Raws, RawsApart, NoneLost, Held, IsInjective

LEMMA FlushKeepsRaws ==
  ASSUME TypeOK, Raws, SameEvents, pc # "queue", NEW closed \in SUBSET open, NEW next,
         Flush(closed, next), UNCHANGED <<arrived, queue, batch, interrupts>>
  PROVE  Raws'
<1>1. EventBursts' = EventBursts /\ MainRaws' = MainRaws
  BY SameEventsParts
<1>2. /\ open' = open \ closed /\ todo' = {b \in closed : ~(b \subseteq Noise)} /\ failed' = failed
      /\ todo = {}
  BY DEF Flush, QueueEvents, TypeOK
<1>3. Elems(queue)' = Elems(queue) /\ Elems(batch)' = Elems(batch)
  BY DEF Elems
<1>4. RawsApart'
  <2>1. open' \cup todo' \subseteq open \cup todo /\ open' \cap todo' = {}
    BY <1>2
  <2>2. Separate(Elems(queue), Elems(batch), failed, open', todo', EventBursts)
    BY <2>1, SeparateFewer DEF Raws, RawsApart
  <2> QED BY <1>1, <1>2, <1>3, <2>1, <2>2 DEF Raws, RawsApart, IsInjective
<1>5. NoneLost'
  <2>1. (UNION (open \cup todo)) \ Noise \subseteq UNION (open' \cup todo')
    BY <1>2
  <2> QED BY <1>1, <1>2, <1>3, <2>1 DEF Raws, NoneLost, Held
<1> QED BY <1>4, <1>5 DEF Raws

LEMMA IngestKeepsRaws ==
  ASSUME TypeOK, Raws, SameEvents, pc # "queue", NEW raw \in Elems(queue) \cup Elems(batch), NEW next,
         Ingest(raw, next), UNCHANGED <<arrived, failed, interrupts>>,
         Elems(queue)' = Elems(queue) \ {raw}, Elems(batch)' = Elems(batch) \ {raw},
         IsInjective(queue)', IsInjective(batch)'
  PROVE  Raws'
<1>1. EventBursts' = EventBursts /\ MainRaws' = MainRaws
  BY SameEventsParts
<1>2. PICK c \in (open \ ripe) \cup {{}} : open' = ((open \ ripe) \ {c}) \cup {c \cup {raw}}
  BY DEF Ingest
<1>3. todo' = {b \in ripe : ~(b \subseteq Noise)} /\ todo = {} /\ ripe \subseteq open
  BY DEF Ingest, QueueEvents, TypeOK
<1>4. raw \in 1 .. arrived
  BY QueueElems
<1>5. RawsApart'
  <2>1. (open \ ripe) \cup todo' \subseteq open \cup todo /\ (open \ ripe) \cap todo' = {}
    BY <1>3
  <2>2. Separate(Elems(queue) \ {raw}, Elems(batch) \ {raw}, failed, open', todo', EventBursts)
    BY <1>2, <2>1, SeparateJoined DEF Raws, RawsApart
  <2>3. \A d \in open' \cup todo' \cup EventBursts : d \subseteq 1 .. arrived
    BY <1>2, <1>4, <2>1 DEF Raws, RawsApart
  <2> QED BY <1>1, <2>2, <2>3 DEF RawsApart
<1>6. NoneLost'
  <2>1. ASSUME NEW i \in UNION (open \cup todo), i \notin Noise PROVE i \in UNION (open' \cup todo')
    <3>1. PICK b \in open : i \in b
      BY <1>3, <2>1
    <3>2. CASE b \in ripe
      BY <1>3, <2>1, <3>1, <3>2
    <3>3. CASE b \notin ripe
      <4>1. \/ b \in open'
            \/ b = c /\ c \cup {raw} \in open'
        BY <1>2, <3>1, <3>3
      <4> QED BY <3>1, <4>1
    <3> QED BY <3>2, <3>3
  <2>2. raw \in UNION (open' \cup todo')
    <3>1. c \cup {raw} \in open'
      BY <1>2
    <3> QED BY <3>1
  <2>3. (1 .. arrived)' = 1 .. arrived
    OBVIOUS
  <2> QED BY <1>1, <2>1, <2>2, <2>3 DEF Raws, NoneLost, Held
<1> QED BY <1>5, <1>6 DEF Raws

(* The actions that take raws from the queue or the batch.                  *)
LEMMA RawStepsKeepRaws ==
  ASSUME TypeOK, Control, Raws, SameEvents,
         PollIngest \/ Feed \/ IngestFails \/ FeedFails \/ Pull
  PROVE  Raws'
<1>1. /\ IsInjective(queue) /\ IsInjective(batch)
      /\ Separate(Elems(queue), Elems(batch), failed, open, todo, EventBursts)
      /\ Elems(queue) \cap Elems(batch) = {}
  BY DEF Raws, RawsApart, Separate
<1>2. EventBursts' = EventBursts /\ MainRaws' = MainRaws
  BY SameEventsParts
<1> DEFINE Now(q, b, f) == Separate(q, b, f, open, todo, EventBursts)
<1>moved. /\ \A x \in Elems(queue) :
            /\ Now(Elems(queue) \ {x}, Elems(batch) \cup {x}, failed)
            /\ Now(Elems(queue) \ {x}, Elems(batch), failed \cup {x})
      /\ \A x \in Elems(batch) : Now(Elems(queue), Elems(batch) \ {x}, failed \cup {x})
  BY <1>1, SeparateMoved
<1>3. CASE PollIngest
  <2>1. /\ pc # "queue" /\ queue # <<>> /\ queue' = Tail(queue) /\ Ingest(Head(queue), "poll")
        /\ UNCHANGED <<arrived, batch, failed, interrupts>>
    BY <1>3 DEF PollIngest, Pop, bounds
  <2>2. /\ Elems(queue)' = Elems(queue) \ {Head(queue)} /\ Head(queue) \in Elems(queue)
        /\ IsInjective(queue)'
    BY <1>1, <2>1, QueueElems
  <2>3. Elems(batch)' = Elems(batch) \ {Head(queue)} /\ IsInjective(batch)'
    BY <1>1, <2>1, <2>2 DEF Elems, IsInjective
  <2> QED BY <2>1, <2>2, <2>3, IngestKeepsRaws
<1>4. CASE Feed
  <2>1. /\ pc # "queue" /\ batch # <<>> /\ batch' = Tail(batch) /\ Ingest(Head(batch), "feed")
        /\ UNCHANGED <<arrived, queue, failed, interrupts>>
    BY <1>4 DEF Feed, bounds
  <2>2. /\ Elems(batch)' = Elems(batch) \ {Head(batch)} /\ Head(batch) \in Elems(batch)
        /\ IsInjective(batch)'
    BY <1>1, <2>1, QueueElems
  <2>3. Elems(queue)' = Elems(queue) \ {Head(batch)} /\ IsInjective(queue)'
    BY <1>1, <2>1, <2>2 DEF Elems, IsInjective
  <2> QED BY <2>1, <2>2, <2>3, IngestKeepsRaws
<1>5. CASE IngestFails
  <2>1. /\ queue # <<>> /\ queue' = Tail(queue) /\ failed' = failed \cup {Head(queue)}
        /\ UNCHANGED <<arrived, batch, open, todo, interrupts>>
    BY <1>5 DEF IngestFails, Pop
  <2>2. /\ Elems(queue)' = Elems(queue) \ {Head(queue)} /\ Head(queue) \in Elems(queue)
        /\ IsInjective(queue)'
    BY <1>1, <2>1, QueueElems
  <2>3. Elems(batch)' = Elems(batch) /\ IsInjective(batch)'
    BY <1>1, <2>1 DEF Elems, IsInjective
  <2>4. Separate(Elems(queue)', Elems(batch)', failed', open', todo', EventBursts')
    BY <1>2, <1>moved, <2>1, <2>2, <2>3
  <2>5. RawsApart'
    BY <1>2, <2>1, <2>2, <2>3, <2>4 DEF Raws, RawsApart
  <2>6. NoneLost'
    BY <1>2, <2>1, <2>2, <2>3 DEF Raws, NoneLost, Held
  <2> QED BY <2>5, <2>6 DEF Raws
<1>6. CASE FeedFails
  <2>1. /\ batch # <<>> /\ batch' = Tail(batch) /\ failed' = failed \cup {Head(batch)}
        /\ UNCHANGED <<arrived, queue, open, todo, interrupts>>
    BY <1>6 DEF FeedFails
  <2>2. /\ Elems(batch)' = Elems(batch) \ {Head(batch)} /\ Head(batch) \in Elems(batch)
        /\ IsInjective(batch)'
    BY <1>1, <2>1, QueueElems
  <2>3. Elems(queue)' = Elems(queue) /\ IsInjective(queue)'
    BY <1>1, <2>1 DEF Elems, IsInjective
  <2>4. Separate(Elems(queue)', Elems(batch)', failed', open', todo', EventBursts')
    BY <1>2, <1>moved, <2>1, <2>2, <2>3
  <2>5. RawsApart'
    BY <1>2, <2>1, <2>2, <2>3, <2>4 DEF Raws, RawsApart
  <2>6. NoneLost'
    BY <1>2, <2>1, <2>2, <2>3 DEF Raws, NoneLost, Held
  <2> QED BY <2>5, <2>6 DEF Raws
<1>7. CASE Pull
  <2>1. /\ queue # <<>> /\ queue' = Tail(queue) /\ batch' = Append(batch, Head(queue))
        /\ UNCHANGED <<arrived, open, todo, failed, interrupts>>
    BY <1>7 DEF Pull, Pop, bursts, bounds
  <2>2. /\ Elems(queue)' = Elems(queue) \ {Head(queue)} /\ Head(queue) \in Elems(queue)
        /\ IsInjective(queue)'
    BY <1>1, <2>1, QueueElems
  <2>3. Elems(batch)' = Elems(batch) \cup {Head(queue)} /\ IsInjective(batch)'
    <3>1. /\ Head(queue) \notin Elems(batch) /\ Head(queue) \in 1 .. arrived
          /\ batch \in Seq(1 .. arrived) /\ IsInjective(batch)
      BY <1>1, <2>2, QueueElems DEF TypeOK
    <3>2. /\ Elems(Append(batch, Head(queue))) = Elems(batch) \cup {Head(queue)}
          /\ IsInjective(Append(batch, Head(queue)))
      <4>1. \A s \in Seq(1 .. arrived), e \in 1 .. arrived :
              /\ Elems(Append(s, e)) = Elems(s) \cup {e}
              /\ IsInjective(s) /\ e \notin Elems(s) => IsInjective(Append(s, e))
        BY AppendElems
      <4> QED BY <3>1, <4>1
    <3> QED BY <2>1, <3>2 DEF Elems, IsInjective
  <2>4. Separate(Elems(queue)', Elems(batch)', failed', open', todo', EventBursts')
    BY <1>2, <1>moved, <2>1, <2>2, <2>3
  <2>5. RawsApart'
    BY <1>2, <2>1, <2>2, <2>3, <2>4 DEF Raws, RawsApart
  <2>6. NoneLost'
    BY <1>2, <2>1, <2>2, <2>3 DEF Raws, NoneLost, Held
  <2> QED BY <2>5, <2>6 DEF Raws
<1> QED BY <1>3, <1>4, <1>5, <1>6, <1>7

(* Arrival, replay's take_all, Ctrl+C, and a burst that becomes events.     *)
LEMMA NotifyKeepsRaws ==
  ASSUME TypeOK, Raws, SameEvents, Notify
  PROVE  Raws'
<1>1. EventBursts' = EventBursts /\ MainRaws' = MainRaws
  BY SameEventsParts
<1> DEFINE x == arrived + 1
<1>2. /\ arrived \in Nat /\ arrived' = x /\ queue' = Append(queue, x)
      /\ UNCHANGED <<batch, open, todo, failed, interrupts>>
  BY MonitorAssumption DEF Notify, TypeOK, bursts, bounds
<1>3. /\ 1 .. x = (1 .. arrived) \cup {x} /\ x \notin 1 .. arrived /\ x \in 1 .. x
  BY <1>2
<1>4. Elems(queue)' = Elems(queue) \cup {x} /\ IsInjective(queue)'
  <2>1. Elems(queue) \subseteq 1 .. arrived /\ queue \in Seq(1 .. arrived) /\ IsInjective(queue)
    BY QueueElems DEF TypeOK, Raws, RawsApart
  <2>2. queue \in Seq(1 .. x)
    BY <1>3, <2>1, SeqMonotonic
  <2>3. Elems(Append(queue, x)) = Elems(queue) \cup {x} /\ IsInjective(Append(queue, x))
    BY <1>3, <2>1, <2>2, AppendElems
  <2> QED BY <1>2, <2>3 DEF Elems, IsInjective
<1>5. Elems(batch)' = Elems(batch) /\ IsInjective(batch)'
  BY <1>2 DEF Elems, IsInjective, Raws, RawsApart
<1> HIDE DEF x
<1>6. Separate(Elems(queue) \cup {x}, Elems(batch), failed, open, todo, EventBursts)
  <2>1. x \notin Elems(batch) \cup failed
    BY <1>3, QueueElems DEF TypeOK
  <2>2. \A c \in open \cup todo \cup EventBursts : x \notin c
    BY <1>3 DEF Raws, RawsApart
  <2> QED BY <2>1, <2>2, SeparateArrived DEF Raws, RawsApart
<1>7. RawsApart'
  <2>1. \A c \in open \cup todo \cup EventBursts : c \subseteq 1 .. x
    BY <1>3 DEF Raws, RawsApart
  <2> QED BY <1>1, <1>2, <1>4, <1>5, <1>6, <2>1 DEF RawsApart
<1>8. NoneLost'
  BY <1>1, <1>2, <1>3, <1>4, <1>5 DEF Raws, NoneLost, Held
<1> QED BY <1>7, <1>8 DEF Raws

LEMMA ReplayKeepsRaws ==
  ASSUME TypeOK, Control, Raws, SameEvents, Replay
  PROVE  Raws'
<1>1. UNCHANGED <<arrived, failed, open, todo, interrupts>>
  BY DEF Replay, bursts, bounds
<1>2. CASE UNCHANGED <<queue, batch>>
  BY <1>1, <1>2, StillKeepsRaws
<1>3. CASE TakeAll
  <2>1. EventBursts' = EventBursts /\ MainRaws' = MainRaws
    BY SameEventsParts
  <2>2. batch = <<>> /\ batch' = queue /\ queue' = <<>>
    BY <1>3 DEF Replay, TakeAll, Control, At
  <2>3. Elems(batch)' = Elems(queue) /\ Elems(queue)' = {} /\ Elems(batch) = {}
    BY <2>2 DEF Elems
  <2>4. IsInjective(batch)' /\ IsInjective(queue)'
    BY <2>2 DEF IsInjective, Raws, RawsApart
  <2>5. Separate({}, Elems(queue), failed, open, todo, EventBursts)
    BY <2>3, SeparateMoved DEF Raws, RawsApart
  <2>6. RawsApart'
    BY <1>1, <2>1, <2>3, <2>4, <2>5 DEF Raws, RawsApart
  <2>7. NoneLost'
    BY <1>1, <2>1, <2>3 DEF Raws, NoneLost, Held
  <2> QED BY <2>6, <2>7 DEF Raws
<1> QED BY <1>2, <1>3 DEF Replay

LEMMA InterruptKeepsRaws ==
  ASSUME TypeOK, Raws, EventsIn' \subseteq EventsIn, Interrupt
  PROVE  Raws'
<1>1. EventBursts' \subseteq EventBursts
  BY DEF EventBursts
<1>2. /\ queue' \in {queue, Tail(queue)} /\ (queue' = queue \/ queue # <<>>) /\ todo' = {}
      /\ interrupts' = interrupts + 1
      /\ UNCHANGED <<arrived, batch, open, failed>>
  BY DEF Interrupt, bursts
<1>3. Elems(queue)' \subseteq Elems(queue) /\ IsInjective(queue)'
  <2>1. CASE queue' = queue
    BY <2>1 DEF Elems, IsInjective, Raws, RawsApart
  <2>2. CASE queue' = Tail(queue) /\ queue # <<>>
    BY <2>2, QueueElems DEF Raws, RawsApart, Elems, IsInjective
  <2> QED BY <1>2, <2>1, <2>2
<1>4. Elems(batch)' = Elems(batch) /\ IsInjective(batch)'
  BY <1>2 DEF Elems, IsInjective, Raws, RawsApart
<1>5. Separate(Elems(queue)', Elems(batch)', failed', open', todo', EventBursts')
  BY <1>1, <1>2, <1>3, <1>4, SeparateFewer DEF Raws, RawsApart
<1>6. RawsApart'
  BY <1>1, <1>2, <1>3, <1>4, <1>5 DEF Raws, RawsApart
<1>7. interrupts' # 0
  BY <1>2, MonitorAssumption DEF TypeOK
<1> QED BY <1>6, <1>7 DEF Raws, NoneLost

LEMMA EnrichKeepsRaws ==
  ASSUME TypeOK, Raws, NEW b \in todo, todo' = todo \ {b},
         UNCHANGED <<arrived, queue, batch, failed, open, interrupts>>,
         EventBursts' = EventBursts \cup {b}, MainRaws' = MainRaws \cup b
  PROVE  Raws'
<1>1. Elems(queue)' = Elems(queue) /\ Elems(batch)' = Elems(batch)
  BY DEF Elems
<1>2. Separate(Elems(queue), Elems(batch), failed, open, todo', EventBursts')
  BY SeparateMade DEF Raws, RawsApart
<1>3. RawsApart'
  BY <1>1, <1>2 DEF Raws, RawsApart, IsInjective
<1>4. UNION (open \cup todo) \subseteq (UNION (open' \cup todo')) \cup b
  OBVIOUS
<1>5. NoneLost'
  BY <1>1, <1>4 DEF Raws, NoneLost, Held
<1> QED BY <1>3, <1>5 DEF Raws

-----------------------------------------------------------------------------
(* The events announced and stored.                                         *)
LEMMA InjectiveConcat ==
  ASSUME NEW S, NEW s \in Seq(S), NEW t \in Seq(S)
  PROVE  /\ IsInjective(s \o t) => IsInjective(s) /\ IsInjective(t)
         /\ IsInjective(s) /\ IsInjective(t) /\ Elems(s) \cap Elems(t) = {} => IsInjective(s \o t)
<1> DEFINE c == s \o t
<1>1. /\ c \in Seq(S) /\ Len(c) = Len(s) + Len(t) /\ Len(s) \in Nat /\ Len(t) \in Nat
      /\ \A k \in 1 .. Len(s) + Len(t) : c[k] = IF k <= Len(s) THEN s[k] ELSE t[k - Len(s)]
  BY ConcatProperties, LenProperties
<1>2. DOMAIN c = 1 .. (Len(s) + Len(t)) /\ DOMAIN s = 1 .. Len(s) /\ DOMAIN t = 1 .. Len(t)
  BY <1>1, LenProperties
<1> HIDE DEF c
<1>3. \A k \in DOMAIN s : k \in DOMAIN c /\ c[k] = s[k]
  BY <1>1, <1>2
<1>4. IsInjective(c) => IsInjective(s) /\ IsInjective(t)
  <2>1. IsInjective(c) => IsInjective(s)
    BY <1>3 DEF IsInjective
  <2>2. \A k \in DOMAIN t : k \in Nat /\ k + Len(s) \in DOMAIN c /\ c[k + Len(s)] = t[k]
    BY <1>1, <1>2, SMTT(20)
  <2>3. ASSUME IsInjective(c), NEW m \in DOMAIN t, NEW n \in DOMAIN t, t[m] = t[n] PROVE m = n
    <3>1. m + Len(s) = n + Len(s)
      BY <2>2, <2>3 DEF IsInjective
    <3> QED BY <1>1, <2>2, <3>1
  <2> QED BY <2>1, <2>3 DEF IsInjective
<1>5. ASSUME IsInjective(s), IsInjective(t), Elems(s) \cap Elems(t) = {} PROVE IsInjective(c)
  <2>1. \A k \in DOMAIN c : k \notin DOMAIN s => k - Len(s) \in DOMAIN t /\ c[k] = t[k - Len(s)]
    BY <1>1, <1>2
  <2>2. \A m \in DOMAIN s, n \in DOMAIN t : s[m] # t[n]
    BY <1>5 DEF Elems
  <2> SUFFICES ASSUME NEW m \in DOMAIN c, NEW n \in DOMAIN c, c[m] = c[n] PROVE m = n
    BY DEF IsInjective
  <2>3. CASE m \in DOMAIN s /\ n \in DOMAIN s
    BY <1>3, <1>5, <2>3 DEF IsInjective
  <2>4. CASE m \notin DOMAIN s /\ n \notin DOMAIN s
    <3>1. m - Len(s) = n - Len(s)
      BY <1>5, <2>1, <2>4 DEF IsInjective
    <3>2. m \in Int /\ n \in Int
      BY <1>1, <1>2
    <3> QED BY <1>1, <3>1, <3>2
  <2>5. CASE (m \in DOMAIN s /\ n \notin DOMAIN s) \/ (m \notin DOMAIN s /\ n \in DOMAIN s)
    BY <1>3, <2>1, <2>2, <2>5
  <2> QED BY <2>3, <2>4, <2>5
<1> QED BY <1>4, <1>5 DEF c

StreamTypes ==
  /\ Stream \in Events /\ Announced \in Events
  /\ Elems(Announced) = Elems(Stream) \cup Elems(emitting)

LEMMA StreamTyped ==
  ASSUME TypeOK
  PROVE  StreamTypes
<1>1. EventTypes
  BY TypeParts
<1>2. \A s, t \in Events : s \o t \in Events /\ Elems(s \o t) = Elems(s) \cup Elems(t)
  BY ConcatElems DEF Events
<1> QED BY <1>1, <1>2 DEF StreamTypes, EventTypes, Stream, Announced

(* Steps that pass an event on, and what they make of the stream.           *)
LEMMA PassingSteps ==
  ASSUME TypeOK, PopPending \/ Deliver \/ TakePending \/ Emit
  PROVE  /\ SameEvents
         /\ PopPending \/ Deliver \/ TakePending => Stream' = Stream /\ UNCHANGED <<emitting, stored>>
         /\ Emit => Stream' = Append(Stream, Head(emitting))
<1>1. EventTypes
  BY TypeParts
<1>2. /\ pending # <<>> =>
           (delivered \o <<Head(pending)>>) \o Tail(pending) = (delivered \o <<>>) \o pending
      /\ hand # <<>> =>
           (Append(delivered, Head(hand)) \o Tail(hand)) \o pending = (delivered \o hand) \o pending
      /\ (delivered \o pending) \o <<>> = (delivered \o <<>>) \o pending
      /\ emitting # <<>> =>
           /\ ((delivered \o hand) \o Append(pending, Head(emitting))) \o Tail(emitting)
                = ((delivered \o hand) \o pending) \o emitting
           /\ (delivered \o hand) \o Append(pending, Head(emitting))
                = Append((delivered \o hand) \o pending, Head(emitting))
  <2>1. /\ emitting \in Seq(EventRecord) /\ pending \in Seq(EventRecord)
        /\ hand \in Seq(EventRecord) /\ delivered \in Seq(EventRecord)
    BY <1>1 DEF EventTypes, Events
  <2>2. pending # <<>> =>
           (delivered \o <<Head(pending)>>) \o Tail(pending) = (delivered \o <<>>) \o pending
    BY <2>1, StreamSteps, SMTT(20)
  <2>3. hand # <<>> =>
           (Append(delivered, Head(hand)) \o Tail(hand)) \o pending = (delivered \o hand) \o pending
    BY <2>1, StreamSteps, SMTT(20)
  <2>4. (delivered \o pending) \o <<>> = (delivered \o <<>>) \o pending
    BY <2>1, StreamSteps, SMTT(20)
  <2>5. emitting # <<>> =>
           (delivered \o hand) \o Append(pending, Head(emitting))
             = Append((delivered \o hand) \o pending, Head(emitting))
    BY <2>1, StreamSteps, SMTT(20)
  <2>6. emitting # <<>> => Append(Stream, Head(emitting)) \o Tail(emitting) = Stream \o emitting
    <3>1. Stream \in Seq(EventRecord)
      BY StreamTyped DEF StreamTypes, Events
    <3> QED BY <2>1, <3>1, Passing
  <2> QED BY <2>2, <2>3, <2>4, <2>5, <2>6 DEF Stream
<1>0. Emit => ~(PopPending \/ Deliver \/ TakePending)
  BY DEF Emit, PopPending, Deliver, TakePending
<1>3. CASE PopPending \/ Deliver \/ TakePending
  <2>1. UNCHANGED <<emitting, stored>>
    BY <1>3 DEF PopPending, Deliver, TakePending
  <2>2. Stream' = Stream
    <3>1. CASE PopPending
      BY <1>2, <3>1 DEF PopPending, Stream, TypeOK
    <3>2. CASE Deliver
      BY <1>2, <3>2 DEF Deliver, Stream
    <3>3. CASE TakePending
      BY <1>2, <3>3 DEF TakePending, Stream, TypeOK
    <3> QED BY <1>3, <3>1, <3>2, <3>3
  <2>3. SameEvents
    BY <2>1, <2>2 DEF SameEvents, Announced, EventsIn, Elems
  <2> QED BY <1>0, <1>3, <2>1, <2>2, <2>3
<1>4. CASE Emit
  <2>1. /\ emitting # <<>> /\ emitting' = Tail(emitting) /\ pending' = Append(pending, Head(emitting))
        /\ stored' \in {stored, Append(stored, Head(emitting))} /\ UNCHANGED <<delivered, hand>>
    BY <1>4 DEF Emit
  <2>2. Announced' = Announced /\ Stream' = Append(Stream, Head(emitting))
    BY <1>2, <2>1 DEF Announced, Stream
  <2>3. Head(emitting) \in Elems(Announced)
    BY <1>1, <2>1, StreamTyped, TailElems DEF StreamTypes, EventTypes, Events
  <2>4. Elems(stored) \subseteq Elems(stored') /\ Elems(stored') \subseteq Elems(stored) \cup {Head(emitting)}
    <3>1. Elems(Append(stored, Head(emitting))) = Elems(stored) \cup {Head(emitting)}
      BY <1>1, <2>1, HeadTailProperties, AppendElems DEF EventTypes, Events
    <3> QED BY <2>1, <3>1
  <2>5. EventsIn' = Elems(Announced') \cup Elems(stored')
    BY DEF EventsIn, Elems
  <2>6. SameEvents
    BY <2>2, <2>3, <2>4, <2>5 DEF SameEvents, EventsIn
  <2> QED BY <1>0, <1>4, <2>2, <2>6
<1> QED BY <1>3, <1>4

LEMMA OutputSame ==
  ASSUME UNCHANGED <<output, emitting>>
  PROVE  SameEvents /\ Stream' = Stream /\ UNCHANGED <<emitting, stored>>
  BY DEF output, SameEvents, Announced, Stream, EventsIn, Elems

(* Short sequences.                                                         *)
LEMMA Pair ==
  ASSUME NEW S, NEW a \in S, NEW b \in S
  PROVE  /\ <<a, b>> \in Seq(S)
         /\ <<a>> \o <<b>> = <<a, b>>
         /\ \A c \in S : <<a, b>> \o <<c>> = <<a, b, c>>
<1>1. <<a>> \in Seq(S) /\ Len(<<a>>) = 1 /\ <<a>>[1] = a
  OBVIOUS
<1>2. <<a, b>> \in Seq(S) /\ Len(<<a, b>>) = 2 /\ <<a, b>>[1] = a /\ <<a, b>>[2] = b
  OBVIOUS
<1>3. <<a>> \o <<b>> = <<a, b>>
  <2> DEFINE s == Append(<<a>>, b)
             t == <<a, b>>
  <2>1. s = <<a>> \o <<b>> /\ s \in Seq(S) /\ Len(s) = Len(<<a>>) + 1
        /\ (\A i \in 1 .. Len(<<a>>) : s[i] = <<a>>[i]) /\ s[Len(<<a>>) + 1] = b
    BY <1>1, AppendProperties, AppendIsConcat
  <2>2. s[1] = a /\ s[2] = b /\ Len(s) = 2
    BY <1>1, <2>1
  <2>3. t \in Seq(S) /\ Len(t) = 2 /\ t[1] = a /\ t[2] = b
    BY <1>2
  <2> HIDE DEF s, t
  <2>4. \A i \in 1 .. Len(s) : s[i] = t[i]
    BY <2>2, <2>3
  <2>5. s = t
    BY <2>1, <2>2, <2>3, <2>4, SeqEqual
  <2> QED BY <2>1, <2>5 DEF t
<1>4. ASSUME NEW c \in S PROVE <<a, b>> \o <<c>> = <<a, b, c>>
  <2> DEFINE s == Append(<<a, b>>, c)
             t == <<a, b, c>>
  <2>1. s = <<a, b>> \o <<c>> /\ s \in Seq(S) /\ Len(s) = Len(<<a, b>>) + 1
        /\ (\A i \in 1 .. Len(<<a, b>>) : s[i] = <<a, b>>[i]) /\ s[Len(<<a, b>>) + 1] = c
    BY <1>2, AppendProperties, AppendIsConcat
  <2>2. s[1] = a /\ s[2] = b /\ s[3] = c /\ Len(s) = 3
    BY <1>2, <2>1
  <2>3. t \in Seq(S) /\ Len(t) = 3 /\ t[1] = a /\ t[2] = b /\ t[3] = c
    OBVIOUS
  <2> HIDE DEF s, t
  <2>4. \A i \in 1 .. Len(s) : s[i] = t[i]
    BY <2>2, <2>3
  <2>5. s = t
    BY <2>1, <2>2, <2>3, <2>4, SeqEqual
  <2> QED BY <2>1, <2>5 DEF t
<1> QED BY <1>2, <1>3, <1>4

(* The events one burst makes.                                              *)
LEMMA NewEvents ==
  ASSUME NEW b \in Burst, NEW derived \in BOOLEAN, NEW suspicious \in BOOLEAN,
         MainType(b) = "DISCONNECT" => ~derived /\ ~suspicious
  PROVE  LET n == (<<Event(MainType(b), b)>> \o Follow("DERIVED", b, derived))
                  \o Follow("SUSPICIOUS_DEVICE", b, suspicious)
         IN  /\ n \in Events /\ Len(n) > 0 /\ IsInjective(n)
             /\ n[1] = Event(MainType(b), b)
             /\ \A k \in DOMAIN n : n[k].raws = b /\ (IsMain(n[k]) <=> k = 1)
             /\ Len(n) > 1 => n[1].type = "CONNECT"
<1> DEFINE m == Event(MainType(b), b)
           d == Event("DERIVED", b)
           s == Event("SUSPICIOUS_DEVICE", b)
           n == (<<m>> \o Follow("DERIVED", b, derived)) \o Follow("SUSPICIOUS_DEVICE", b, suspicious)
<1>1. MainType(b) \in {"CONNECT", "DISCONNECT"}
  BY DEF MainType
<1>2. /\ m \in EventRecord /\ d \in EventRecord /\ s \in EventRecord
      /\ m.raws = b /\ d.raws = b /\ s.raws = b
      /\ m.type = MainType(b) /\ d.type = "DERIVED" /\ s.type = "SUSPICIOUS_DEVICE"
  BY <1>1 DEF Event, EventRecord
<1>3. IsMain(m) /\ ~IsMain(d) /\ ~IsMain(s) /\ m # d /\ m # s /\ d # s
  BY <1>1, <1>2 DEF IsMain
<1>4. derived \/ suspicious => m.type = "CONNECT"
  BY <1>1, <1>2
<1>5. /\ <<m>> \o <<>> = <<m>>
      /\ \A e \in EventRecord : <<m>> \o <<e>> = <<m, e>> /\ <<m, e>> \o <<>> = <<m, e>>
      /\ <<m, d>> \o <<s>> = <<m, d, s>>
  <2>1. \A e \in EventRecord : <<m, e>> \in Seq(EventRecord) /\ <<m>> \in Seq(EventRecord)
    BY <1>2
  <2> QED BY <1>2, <2>1, ConcatEmptySeq, Pair
<1>6. /\ Follow("DERIVED", b, derived) = IF derived THEN <<d>> ELSE <<>>
      /\ Follow("SUSPICIOUS_DEVICE", b, suspicious) = IF suspicious THEN <<s>> ELSE <<>>
  BY DEF Follow
<1>7. n \in {<<m>>, <<m, d>>, <<m, s>>, <<m, d, s>>}
  <2> HIDE DEF m, d, s
  <2> QED BY <1>2, <1>5, <1>6
<1>8. n # <<m>> => m.type = "CONNECT"
  <2> HIDE DEF m, d, s
  <2> QED BY <1>2, <1>4, <1>5, <1>6
<1> HIDE DEF m, d, s, n
<1>9. /\ \A k \in DOMAIN n : n[k].raws = b /\ (IsMain(n[k]) <=> k = 1)
      /\ n \in Events /\ Len(n) > 0 /\ n[1] = m /\ IsInjective(n) /\ (Len(n) > 1 => n # <<m>>)
  <2>1. CASE n = <<m>>
    <3>1. Len(n) = 1 /\ DOMAIN n = {1} /\ n[1] = m /\ n \in Seq(EventRecord)
      BY <1>2, <2>1
    <3> QED BY <1>2, <1>3, <3>1 DEF IsInjective, Events
  <2>2. CASE n = <<m, d>>
    <3>1. Len(n) = 2 /\ DOMAIN n = {1, 2} /\ n[1] = m /\ n[2] = d /\ n \in Seq(EventRecord)
      BY <1>2, <2>2
    <3> QED BY <1>2, <1>3, <2>2, <3>1 DEF IsInjective, Events
  <2>3. CASE n = <<m, s>>
    <3>1. Len(n) = 2 /\ DOMAIN n = {1, 2} /\ n[1] = m /\ n[2] = s /\ n \in Seq(EventRecord)
      BY <1>2, <2>3
    <3> QED BY <1>2, <1>3, <2>3, <3>1 DEF IsInjective, Events
  <2>4. CASE n = <<m, d, s>>
    <3>1. /\ Len(n) = 3 /\ DOMAIN n = {1, 2, 3} /\ n[1] = m /\ n[2] = d /\ n[3] = s
          /\ n \in Seq(EventRecord)
      BY <1>2, <2>4
    <3> QED BY <1>2, <1>3, <2>4, <3>1 DEF IsInjective, Events
  <2> QED BY <1>7, <2>1, <2>2, <2>3, <2>4
<1> QED BY <1>8, <1>9 DEF m, n

(* Events are of distinct bursts or of distinct kinds, and a stored event   *)
(* was announced first.                                                     *)
EventsApart ==
  /\ \A e \in EventsIn : IsMain(e) => e.type = MainType(e.raws)
  /\ IsInjective(Announced)
  /\ Elems(emitting) \cap Elems(stored) = {}

Streams == EventsApart /\ DerivedFollowsConnect /\ StoreFollowsStream

Missed == {k \in Lost : cut = {} \/ \E n \in DOMAIN stored \ Lost : k < n}
InOrder ==
  \A i, j \in DOMAIN stored : i < j =>
    ~\E m, n \in DOMAIN Stream : m < n /\ Stream[m] = stored[j] /\ Stream[n] = stored[i]

LEMMA StoreParts ==
  /\ StoreFollowsStream <=> Cardinality(Missed) <= interrupts /\ IsInjective(stored) /\ InOrder
  /\ StoreFollowsStream' <=>
       Cardinality(Missed') <= interrupts' /\ IsInjective(stored') /\ InOrder'
  BY DEF StoreFollowsStream, Missed, InOrder, IsInjective

(* Only once run()'s finally clause was cut short and nothing is left to be *)
(* emitted has more than one event per Ctrl+C been lost.                    *)
Over ==
  /\ owner # "caller" /\ cut # {} /\ At \in {"exit", "exit source", "done"}
  /\ open = {} /\ todo = {} /\ emitting = <<>>
Losses == Cardinality(Lost) <= interrupts \/ Over

LEMMA OverStays ==
  ASSUME TypeOK, Control, Over, Next
  PROVE  Over'
<1> USE DEF Over, At, Goto, bounds
<1>1. pc \in {"queue", "exit", "exit source", "done"} /\ (pc = "queue" => back \in {"exit", "exit source", "done"})
      /\ (pc # "queue" => back = "idle") /\ ripe = {}
  <2>1. ripe = {}
    BY DEF TypeOK
  <2> QED BY <2>1 DEF Control
<1>2. CASE Notify
  BY <1>1, <1>2 DEF Notify, bursts, output
<1>3. CASE RipenAny \/ Expire \/ RequestStop
  BY <1>1, <1>3 DEF RipenAny, Ripen, Expire, RequestStop, source, bursts, output
<1>4. CASE Queued
  BY <1>1, <1>4 DEF Queued, source, bursts, output
<1>5. CASE StopSource
  BY <1>1, <1>5 DEF StopSource, bursts, output
<1>6. CASE Exit
  BY <1>1, <1>6 DEF Exit, Flush, QueueEvents, source, output
<1>7. CASE Interrupt
  BY <1>1, <1>7 DEF Interrupt, Unwind, InLoop, InFinally, InStop, bursts
<1>8. \/ Notify \/ RipenAny \/ Expire \/ RequestStop \/ Queued \/ StopSource \/ Exit \/ Interrupt
  BY <1>1 DEF Next, Worker, Poll, Start, Loop, PopPending, PollExpired, ReturnNone, PollNone, PollFails,
              PollIngest, IngestFails, Enrich, Emit, Deliver, Replay, Pull, PullEnds, Feed, FeedFails,
              Fed, Finally, Drain, TakePending, Leave
<1> QED BY <1>2, <1>3, <1>4, <1>5, <1>6, <1>7, <1>8

LEMMA LostFinite ==
  ASSUME TypeOK
  PROVE  IsFiniteSet(Lost) /\ Cardinality(Lost) \in Nat
<1>1. stored \in Events
  BY TypeParts DEF EventTypes
<1>2. DOMAIN stored = 1 .. Len(stored) /\ Len(stored) \in Nat
  BY <1>1, LenProperties DEF Events
<1>3. IsFiniteSet(DOMAIN stored)
  BY <1>2, FS_Interval
<1> QED BY <1>3, FS_Subset, FS_CardinalityType DEF Lost

LEMMA StillKeepsStreams ==
  ASSUME Streams, SameEvents, Stream' = Stream, UNCHANGED <<emitting, stored, interrupts, cut>>
  PROVE  Streams' /\ Lost' = Lost
<1>0. Lost' = Lost
  BY DEF Lost, Elems
<1>1. EventsApart'
  <2>1. Elems(emitting)' = Elems(emitting) /\ Elems(stored)' = Elems(stored)
    BY DEF Elems
  <2> QED BY <2>1 DEF Streams, EventsApart, SameEvents, IsInjective, IsMain, MainType
<1>2. DerivedFollowsConnect'
  BY DEF Streams, DerivedFollowsConnect, SameEvents, IsMain
<1>3. StoreFollowsStream'
  <2>1. Missed' = Missed
    BY <1>0 DEF Missed
  <2>2. InOrder' = InOrder
    BY DEF InOrder
  <2> QED BY <2>1, <2>2, StoreParts DEF Streams, IsInjective
<1> QED BY <1>0, <1>1, <1>2, <1>3 DEF Streams

(* The event _emit puts into the stream is the last one, and it is new to   *)
(* the store.                                                               *)
LEMMA EmitKeepsStreams ==
  ASSUME TypeOK, Streams, Cardinality(Lost) <= interrupts, Emit
  PROVE  Streams' /\ Cardinality(Lost') <= interrupts'
<1> DEFINE h == Head(emitting)
<1>1. /\ emitting # <<>> /\ emitting' = Tail(emitting) /\ UNCHANGED interrupts
      /\ stored' \in {stored, Append(stored, h)}
  BY DEF Emit, bounds
<1>2. EventTypes /\ StreamTypes
  BY TypeParts, StreamTyped
<1>3. SameEvents /\ Stream' = Append(Stream, h) /\ Announced' = Announced
  BY PassingSteps DEF SameEvents
<1>4. /\ h \in EventRecord /\ h \in Elems(emitting)
      /\ Elems(emitting) = {h} \cup Elems(emitting')
  BY <1>1, <1>2, TailElems DEF EventTypes, Events
<1>5. Announced = Stream' \o emitting' /\ Stream' \in Events /\ emitting' \in Events
  BY <1>1, <1>2, <1>3, <1>4, SeqTypes DEF Announced, EventTypes, StreamTypes, Events
<1>6. IsInjective(Announced) /\ IsInjective(Stream')
  BY <1>5, InjectiveConcat DEF Streams, EventsApart, Events
<1>7. IsInjective(emitting)
  BY <1>2, <1>6, InjectiveConcat DEF Announced, StreamTypes, EventTypes, Events
<1>8. h \notin Elems(stored) /\ h \notin Elems(emitting')
  <2>1. h \notin Elems(stored)
    BY <1>4 DEF Streams, EventsApart
  <2> QED BY <1>1, <1>2, <1>7, <2>1, TailElems DEF EventTypes, Events
<1>9. stored' \in Events /\ (stored' = stored \/ stored' = Append(stored, h))
  <2>1. stored \in Seq(EventRecord) /\ Append(stored, h) \in Seq(EventRecord)
    BY <1>2, <1>4, AppendProperties DEF EventTypes, Events
  <2> HIDE DEF h
  <2> QED BY <1>1, <2>1 DEF Events
<1>10. /\ Elems(stored') \subseteq Elems(stored) \cup {h}
       /\ IsInjective(stored')
  <2>1. IsInjective(stored)
    BY StoreParts DEF Streams
  <2>2. /\ Elems(Append(stored, h)) = Elems(stored) \cup {h}
        /\ IsInjective(Append(stored, h))
    BY <1>2, <1>4, <1>8, <2>1, AppendElems DEF EventTypes, Events
  <2> QED BY <1>9, <2>1, <2>2
<1>11. /\ Len(stored) \in Nat /\ DOMAIN stored = 1 .. Len(stored)
       /\ \A k \in DOMAIN stored : stored'[k] = stored[k]
       /\ \A k \in DOMAIN stored' : k \in DOMAIN stored \/ (k = Len(stored) + 1 /\ stored'[k] = h)
  <2>1. Len(stored) \in Nat /\ DOMAIN stored = 1 .. Len(stored)
    BY <1>2, LenProperties DEF EventTypes, Events
  <2> HIDE DEF h
  <2>2. CASE stored' = stored
    <3>1. DOMAIN stored' = DOMAIN stored /\ \A k \in DOMAIN stored : stored'[k] = stored[k]
      BY <2>2
    <3> QED BY <2>1, <3>1
  <2>3. CASE stored' = Append(stored, h)
    <3>1. /\ Len(stored') = Len(stored) + 1 /\ stored'[Len(stored) + 1] = h
          /\ \A k \in 1 .. Len(stored) : stored'[k] = stored[k]
      BY <1>2, <1>4, <2>3, AppendProperties DEF EventTypes, Events
    <3>2. DOMAIN stored' = 1 .. (Len(stored) + 1)
      BY <1>9, <3>1, LenProperties DEF Events
    <3>3. \A k \in 1 .. (Len(stored) + 1) : k \in 1 .. Len(stored) \/ k = Len(stored) + 1
      BY <2>1
    <3> QED BY <2>1, <3>1, <3>2, <3>3
  <2> QED BY <1>9, <2>2, <2>3
<1>12. /\ Len(Stream) \in Nat /\ DOMAIN Stream = 1 .. Len(Stream)
       /\ DOMAIN Stream' = 1 .. (Len(Stream) + 1)
       /\ Stream'[Len(Stream) + 1] = h
       /\ \A k \in DOMAIN Stream : Stream'[k] = Stream[k]
       /\ Elems(Stream') = Elems(Stream) \cup {h}
  <2>1. Len(Stream) \in Nat /\ DOMAIN Stream = 1 .. Len(Stream)
    BY <1>2, LenProperties DEF StreamTypes, Events
  <2>2. /\ Len(Stream') = Len(Stream) + 1 /\ Stream'[Len(Stream) + 1] = h
        /\ \A k \in 1 .. Len(Stream) : Stream'[k] = Stream[k]
    BY <1>2, <1>3, <1>4, AppendProperties DEF StreamTypes, Events
  <2>3. DOMAIN Stream' = 1 .. (Len(Stream) + 1)
    BY <1>5, <2>2, LenProperties DEF Events
  <2>4. Elems(Stream') = Elems(Stream) \cup {h}
    BY <1>2, <1>3, <1>4, AppendElems DEF StreamTypes, Events
  <2> QED BY <2>1, <2>2, <2>3, <2>4
<1> HIDE DEF h
<1>13. Lost' \subseteq Lost
  <2>1. Lost' = {k \in DOMAIN stored' : stored'[k] \notin Elems(Stream')}
    BY DEF Lost, Elems
  <2> QED BY <1>11, <1>12, <2>1 DEF Lost
<1>14. Cardinality(Lost') <= interrupts' /\ Cardinality(Missed') <= interrupts'
  <2>1. Missed' \subseteq Lost
    BY <1>13 DEF Missed
  <2>2. /\ Cardinality(Lost') <= Cardinality(Lost) /\ Cardinality(Lost') \in Nat
        /\ Cardinality(Missed') <= Cardinality(Lost) /\ Cardinality(Missed') \in Nat
    BY <1>13, <2>1, LostFinite, FS_Subset, FS_CardinalityType
  <2>3. interrupts \in Nat
    BY MonitorAssumption DEF TypeOK
  <2> QED BY <1>1, <2>2, <2>3, LostFinite
<1>15. InOrder'
  <2> SUFFICES ASSUME NEW i \in DOMAIN stored', NEW j \in DOMAIN stored', i < j,
                      NEW m \in DOMAIN Stream', NEW n \in DOMAIN Stream', m < n,
                      Stream'[m] = stored'[j], Stream'[n] = stored'[i]
               PROVE  FALSE
    BY DEF InOrder
  <2>1. i \in DOMAIN stored /\ stored'[i] = stored[i] /\ stored[i] # h
    <3>1. i \in DOMAIN stored
      BY <1>11
    <3> QED BY <1>8, <1>11, <3>1 DEF Elems
  <2>2. n \in DOMAIN Stream /\ m \in DOMAIN Stream
    BY <1>12, <2>1
  <2>3. Stream[m] # h
    <3>1. m # Len(Stream) + 1 /\ Len(Stream) + 1 \in DOMAIN Stream'
      BY <1>12, <2>2
    <3> QED BY <1>6, <1>12, <2>2, <3>1 DEF IsInjective
  <2>4. j \in DOMAIN stored /\ stored'[j] = stored[j]
    BY <1>11, <1>12, <2>2, <2>3
  <2>5. Stream[m] = stored[j] /\ Stream[n] = stored[i]
    BY <1>12, <2>1, <2>2, <2>4
  <2> QED BY <2>1, <2>2, <2>4, <2>5, StoreParts DEF Streams, InOrder
<1>16. EventsApart'
  <2>1. Elems(emitting') \cap Elems(stored') = {}
    BY <1>4, <1>8, <1>10 DEF Streams, EventsApart
  <2> QED BY <1>3, <1>6, <2>1 DEF Streams, EventsApart, SameEvents, IsMain, MainType, Elems
<1>17. DerivedFollowsConnect'
  BY <1>1, <1>3 DEF Streams, DerivedFollowsConnect, IsMain
<1> QED BY <1>10, <1>14, <1>15, <1>16, <1>17, StoreParts DEF Streams

(* The events of a burst are put at the end, the CONNECT first.             *)
LEMMA EnrichKeepsStreams ==
  ASSUME TypeOK, Raws, Streams, Enrich
  PROVE  Streams' /\ Raws' /\ Lost' = Lost
<1>1. PICK b \in todo, derived \in BOOLEAN, suspicious \in BOOLEAN :
        /\ MainType(b) = "DISCONNECT" => ~derived /\ ~suspicious
        /\ todo' = todo \ {b}
        /\ emitting' = (<<Event(MainType(b), b)>> \o Follow("DERIVED", b, derived))
                       \o Follow("SUSPICIOUS_DEVICE", b, suspicious)
  BY DEF Enrich
<1>2. /\ emitting = <<>>
      /\ UNCHANGED <<arrived, queue, batch, failed, open, interrupts, stored, Stream>>
  BY DEF Enrich, source, bursts, output, bounds, Stream
<1>3. b \in Burst
  BY DEF TypeOK
<1> DEFINE n == emitting'
           main == Event(MainType(b), b)
<1>4. /\ n \in Events /\ Len(n) > 0 /\ IsInjective(n)
      /\ n[1] = main
      /\ \A k \in DOMAIN n : n[k].raws = b /\ (IsMain(n[k]) <=> k = 1)
      /\ Len(n) > 1 => n[1].type = "CONNECT"
  BY <1>1, <1>3, NewEvents
<1>5. Stream \in Seq(EventRecord) /\ Announced = Stream /\ Announced' = Stream \o n
  <2>1. StreamTypes
    BY StreamTyped
  <2> QED BY <1>2, <2>1, ConcatEmptySeq DEF Announced, StreamTypes, Events
<1> HIDE DEF n
<1>6. /\ Len(n) \in Nat /\ DOMAIN n = 1 .. Len(n) /\ 1 \in DOMAIN n /\ n \in Seq(EventRecord)
  <2>1. n \in Seq(EventRecord)
    BY <1>4 DEF Events
  <2>2. Len(n) \in Nat /\ DOMAIN n = 1 .. Len(n)
    BY <2>1, LenProperties
  <2> QED BY <1>4, <2>1, <2>2
<1>7. Elems(Announced') = Elems(Announced) \cup Elems(n)
  BY <1>5, <1>6, ConcatElems
<1>8. /\ \A e \in Elems(n) : e.raws = b /\ (IsMain(e) <=> e = main)
      /\ main \in Elems(n) /\ main.raws = b /\ main.type = MainType(b) /\ IsMain(main)
  <2>1. main \in Elems(n) /\ IsMain(main)
    BY <1>4, <1>6 DEF Elems
  <2>2. ASSUME NEW e \in Elems(n) PROVE e.raws = b /\ (IsMain(e) <=> e = main)
    <3>1. PICK k \in DOMAIN n : e = n[k]
      BY DEF Elems
    <3>2. e = main => k = 1
      BY <1>4, <1>6, <3>1 DEF IsInjective
    <3> QED BY <1>4, <3>1, <3>2
  <2> QED BY <2>1, <2>2 DEF Event
<1> HIDE DEF main
<1>9. b \notin EventBursts
  BY DEF Raws, RawsApart, Separate
<1>10. Elems(n) \cap EventsIn = {}
  BY <1>8, <1>9 DEF EventBursts
<1>11. EventsIn' = EventsIn \cup Elems(n) /\ Elems(stored') = Elems(stored)
  BY <1>2, <1>7 DEF EventsIn, Elems
<1>12. EventBursts' = EventBursts \cup {b}
  <2>1. EventBursts' = {e.raws : e \in EventsIn'}
    BY DEF EventBursts
  <2> QED BY <1>8, <1>11, <2>1 DEF EventBursts
<1>13. MainRaws' = MainRaws \cup b
  <2>1. MainRaws' = UNION {e.raws : e \in {g \in Elems(Announced') : IsMain(g)}}
    BY DEF MainRaws, Elems, IsMain
  <2>2. {g \in Elems(Announced') : IsMain(g)} = {g \in Elems(Announced) : IsMain(g)} \cup {main}
    BY <1>7, <1>8
  <2> QED BY <1>8, <2>1, <2>2 DEF MainRaws
<1>14. Raws'
  BY <1>1, <1>2, <1>12, <1>13, EnrichKeepsRaws
<1>15. EventsApart'
  <2>1. IsInjective(Announced')
    BY <1>4, <1>5, <1>6, <1>10, InjectiveConcat DEF Streams, EventsApart, EventsIn
  <2>2. Elems(n) \cap Elems(stored') = {}
    BY <1>10, <1>11 DEF EventsIn
  <2>3. \A e \in EventsIn' : IsMain(e) => e.type = MainType(e.raws)
    BY <1>8, <1>11 DEF Streams, EventsApart
  <2> QED BY <2>1, <2>2, <2>3 DEF EventsApart, n, IsMain, MainType, Elems, IsInjective
<1>16. DerivedFollowsConnect'
  <2> DEFINE a == Announced
             c == Announced'
  <2>1. /\ Len(a) \in Nat /\ DOMAIN a = 1 .. Len(a) /\ DOMAIN c = 1 .. (Len(a) + Len(n))
        /\ \A k \in DOMAIN a : c[k] = a[k]
        /\ \A k \in DOMAIN n : c[Len(a) + k] = n[k]
        /\ \A k \in DOMAIN c : k \notin DOMAIN a => k - Len(a) \in DOMAIN n /\ c[k] = n[k - Len(a)]
    <3>1. Len(a) \in Nat /\ DOMAIN a = 1 .. Len(a)
      BY <1>5, LenProperties
    <3>2. /\ c \in Seq(EventRecord) /\ Len(c) = Len(a) + Len(n)
          /\ \A k \in 1 .. Len(a) + Len(n) : c[k] = IF k <= Len(a) THEN a[k] ELSE n[k - Len(a)]
      BY <1>5, <1>6, ConcatProperties
    <3>3. DOMAIN c = 1 .. (Len(a) + Len(n))
      BY <3>2, LenProperties
    <3> HIDE DEF a, c
    <3> QED BY <1>6, <3>1, <3>2, <3>3
  <2> SUFFICES ASSUME interrupts = 0, NEW k \in DOMAIN c, ~IsMain(c[k])
               PROVE  \E j \in 1 .. (k - 1) : /\ c[j].type = "CONNECT"
                                              /\ \A i \in j .. k : c[i].raws = c[k].raws
    BY <1>2 DEF DerivedFollowsConnect, IsMain
  <2>2. CASE k \in DOMAIN a
    <3>1. PICK j \in 1 .. (k - 1) : /\ a[j].type = "CONNECT"
                                    /\ \A i \in j .. k : a[i].raws = a[k].raws
      BY <2>1, <2>2 DEF Streams, DerivedFollowsConnect
    <3>2. j \in DOMAIN a /\ \A i \in j .. k : i \in DOMAIN a
      BY <2>1, <2>2
    <3> HIDE DEF a, c
    <3> QED BY <2>1, <2>2, <3>1, <3>2
  <2>3. CASE k \notin DOMAIN a
    <3> DEFINE j == Len(a) + 1
    <3> HIDE DEF a, c
    <3>1. k - Len(a) \in DOMAIN n /\ c[k] = n[k - Len(a)] /\ c[k].raws = b
      BY <1>4, <2>1, <2>3
    <3>2. k - Len(a) # 1
      BY <1>4, <3>1
    <3>3. k - Len(a) > 1 /\ Len(n) > 1 /\ j \in 1 .. (k - 1)
      BY <1>6, <2>1, <3>1, <3>2
    <3>4. c[j].type = "CONNECT"
      BY <1>4, <1>6, <2>1, <3>3
    <3>5. ASSUME NEW i \in j .. k PROVE c[i].raws = b
      <4>1. i \in DOMAIN c /\ i \notin DOMAIN a
        BY <2>1, <3>5
      <4> QED BY <1>4, <2>1, <4>1
    <3> QED BY <3>1, <3>3, <3>4, <3>5
  <2> QED BY <2>2, <2>3
<1>17. StoreFollowsStream' /\ Lost' = Lost
  <2>1. Lost' = Lost /\ InOrder' = InOrder /\ IsInjective(stored') = IsInjective(stored)
    BY <1>2 DEF Lost, InOrder, Elems
  <2>2. Missed' = Missed
    BY <1>2, <2>1 DEF Missed, Enrich, bounds
  <2> QED BY <1>2, <2>1, <2>2, StoreParts DEF Streams
<1> QED BY <1>14, <1>15, <1>16, <1>17 DEF Streams

(* Ctrl+C costs the stream what was in hand: one event at most, or, after   *)
(* drain(), the last ones.                                                  *)
LEMMA InterruptKeepsStreams ==
  ASSUME TypeOK, Control, Shutdown, Raws, Streams, Losses, Interrupt
  PROVE  Streams' /\ Raws' /\ Losses'
<1>1. /\ emitting' = <<>> /\ hand' = <<>> /\ interrupts' = interrupts + 1 /\ interrupts \in Nat
      /\ UNCHANGED <<pending, delivered, stored>>
  BY MonitorAssumption DEF Interrupt, TypeOK
<1>2. EventTypes /\ StreamTypes
  BY TypeParts, StreamTyped
<1>3. Stream' = (delivered \o <<>>) \o pending /\ Announced' = Stream' /\ Stream' \in Events
  <2>1. Stream' = (delivered \o <<>>) \o pending
    BY <1>1 DEF Stream
  <2>2. Stream' \in Events
    BY <1>2, <2>1, SeqTypes DEF EventTypes, Events
  <2>3. Announced' = Stream' \o <<>>
    BY <1>1 DEF Announced
  <2> QED BY <2>1, <2>2, <2>3, ConcatEmptySeq DEF Events
<1> DEFINE Old(k) == IF k <= Len(delivered) THEN k ELSE k + Len(hand)
<1>4. /\ Elems(Stream) = Elems(Stream') \cup Elems(hand)
      /\ \A k \in DOMAIN Stream' : Old(k) \in DOMAIN Stream /\ Stream[Old(k)] = Stream'[k]
  <2>1. /\ pending \in Seq(EventRecord) /\ hand \in Seq(EventRecord)
        /\ delivered \in Seq(EventRecord)
    BY <1>2 DEF EventTypes, Events
  <2>2. Drops(delivered, hand, pending)
    BY <2>1, Dropped
  <2>3. /\ Elems((delivered \o hand) \o pending)
             = Elems((delivered \o <<>>) \o pending) \cup Elems(hand)
        /\ \A k \in DOMAIN ((delivered \o <<>>) \o pending) :
             /\ Old(k) \in DOMAIN ((delivered \o hand) \o pending)
             /\ ((delivered \o hand) \o pending)[Old(k)] = ((delivered \o <<>>) \o pending)[k]
    BY <2>2, Zenon DEF Drops
  <2> QED BY <1>3, <2>3 DEF Stream
<1>5. \A m, n \in DOMAIN Stream' : /\ m < n => Old(m) < Old(n)
                                   /\ Old(m) = Old(n) => m = n
  <2>1. Len(hand) \in Nat /\ Len(delivered) \in Nat /\ DOMAIN Stream' \subseteq Nat
    BY <1>2, <1>3, LenProperties DEF EventTypes, Events
  <2> QED BY <2>1
<1> HIDE DEF Old
<1>6. Elems(Announced') \subseteq Elems(Announced) /\ EventsIn' \subseteq EventsIn
  BY <1>1, <1>2, <1>3, <1>4 DEF StreamTypes, EventsIn, Elems
<1>7. Raws'
  BY <1>6, InterruptKeepsRaws
<1>8. IsInjective(Stream) /\ IsInjective(stored) /\ InOrder
  BY <1>2, InjectiveConcat, StoreParts DEF Streams, EventsApart, Announced, StreamTypes, EventTypes, Events
<1>9. IsInjective(Announced')
  BY <1>3, <1>4, <1>5, <1>8 DEF IsInjective
<1>10. EventsApart'
  <2>1. Elems(emitting') = {}
    BY <1>1 DEF Elems
  <2> QED BY <1>6, <1>9, <2>1 DEF Streams, EventsApart, IsMain, MainType, IsInjective, Elems
<1>11. DerivedFollowsConnect'
  BY <1>1 DEF DerivedFollowsConnect
<1>20. /\ Lost' = {k \in DOMAIN stored : stored[k] \notin Elems(Stream')}
       /\ IsFiniteSet(Lost) /\ Cardinality(Lost) \in Nat
       /\ owner # "caller" /\ cut \subseteq cut'
  BY <1>1, LostFinite DEF Lost, Elems, Interrupt, Unwind
<1>21. \A k \in Lost' \ Lost : stored[k] \in Elems(hand) /\ k \in DOMAIN stored
  BY <1>4, <1>20 DEF Lost
<1>12. Cardinality(Missed') <= interrupts' /\ Losses'
  <2>1. CASE pc # "leftover" /\ Cardinality(Lost) <= interrupts
    <3>2. Len(hand) <= 1 /\ Len(hand) \in Nat /\ DOMAIN hand = 1 .. Len(hand)
      <4>1. hand = <<>> \/ Len(hand) = 1
        BY <2>1 DEF TypeOK, Control, OneInHand
      <4>2. Len(hand) \in Nat /\ DOMAIN hand = 1 .. Len(hand)
        BY <1>2, LenProperties DEF EventTypes, Events
      <4> QED BY <4>1, <4>2
    <3>3. \A x, y \in Elems(hand) : x = y
      BY <3>2 DEF Elems
    <3>5. \A k, l \in Lost' \ Lost : k = l
      BY <1>8, <1>21, <3>3 DEF IsInjective
    <3>7. PICK k : Lost' \subseteq Lost \cup {k}
      <4>1. CASE Lost' \subseteq Lost
        BY <4>1
      <4>2. ASSUME NEW k \in Lost' \ Lost PROVE Lost' \subseteq Lost \cup {k}
        BY <3>5
      <4> QED BY <4>1, <4>2
    <3>8. /\ IsFiniteSet(Lost \cup {k}) /\ Cardinality(Lost \cup {k}) <= Cardinality(Lost) + 1
      <4>1. IsFiniteSet(Lost)
        BY <1>20
      <4> HIDE DEF Lost
      <4> QED BY <4>1, OneMore
    <3>9. Missed' \subseteq Lost \cup {k}
      BY <3>7 DEF Missed
    <3>10. /\ Cardinality(Lost \cup {k}) \in Nat
           /\ Cardinality(Lost') <= Cardinality(Lost \cup {k}) /\ Cardinality(Lost') \in Nat
           /\ Cardinality(Missed') <= Cardinality(Lost \cup {k}) /\ Cardinality(Missed') \in Nat
      BY <3>7, <3>8, <3>9, FS_Subset, FS_CardinalityType
    <3> QED BY <1>1, <1>20, <2>1, <3>8, <3>10 DEF Losses
  <2>2. CASE Over
    <3>1. hand = <<>>
      BY <2>2 DEF Over, At, TypeOK
    <3>2. Elems(hand) = {}
      BY <3>1, EmptyElems
    <3>3. Lost' = Lost
      BY <1>4, <1>20, <3>2 DEF Lost
    <3>4. Missed' = Missed
      BY <1>1, <1>20, <2>2, <3>3 DEF Missed, Over
    <3>5. Over'
      BY <2>2, OverStays DEF Next
    <3>6. Cardinality(Missed) <= interrupts /\ Cardinality(Missed) \in Nat
      <4>1. Missed \subseteq Lost
        BY DEF Missed
      <4> QED BY <1>20, <4>1, FS_Subset, FS_CardinalityType, StoreParts DEF Streams
    <3> QED BY <1>1, <3>4, <3>5, <3>6 DEF Losses
  <2>3. CASE pc = "leftover"
    <3>1. At = "leftover" /\ cut = {}
      BY <2>3 DEF At, Shutdown, TypeOK
    <3>2. pending = <<>> /\ open = {}
      BY <1>20, <3>1 DEF Shutdown, Flushed, Ending, Spoilt
    <3>3. Cardinality(Lost) <= interrupts
      BY <3>1 DEF Losses, Over
    <3>4. cut' = {"finally"} /\ pc' \in {"exit", "done"}
      BY <2>3, <3>1 DEF Interrupt, Unwind, InLoop, InStop, Goto, Control, At
    <3>5. Over'
      BY <1>1, <1>20, <3>2, <3>4 DEF Over, At, Interrupt, bursts
    <3>6. Missed' \subseteq Lost
      <4> SUFFICES ASSUME NEW k \in Lost', NEW n \in DOMAIN stored \ Lost', k < n, k \notin Lost
                   PROVE  FALSE
        BY <1>1, <3>4 DEF Missed
      <4>1. stored[k] \in Elems(hand) /\ k \in DOMAIN stored /\ n \in DOMAIN stored
        BY <1>21
      <4>2. stored[n] \in Elems(Stream')
        BY <1>20, <4>1
      <4>3. Stream' = delivered /\ Stream = delivered \o hand
        BY <1>2, <1>3, <3>2, ConcatEmptySeq, SeqTypes DEF Stream, EventTypes, Events
      <4>4. PICK q \in DOMAIN hand, x \in DOMAIN delivered : stored[k] = hand[q] /\ stored[n] = delivered[x]
        BY <4>1, <4>2, <4>3 DEF Elems
      <4>5. /\ Len(delivered) + q \in DOMAIN Stream /\ Stream[Len(delivered) + q] = hand[q]
            /\ x \in DOMAIN Stream /\ Stream[x] = delivered[x] /\ x < Len(delivered) + q
        BY <1>2, <4>3, <4>4, ConcatProperties, LenProperties, SMTT(20) DEF EventTypes, Events
      <4> QED BY <1>8, <4>1, <4>4, <4>5 DEF InOrder
    <3>7. Cardinality(Missed') <= Cardinality(Lost) /\ Cardinality(Missed') \in Nat
      BY <1>20, <3>6, FS_Subset, FS_CardinalityType
    <3> QED BY <1>1, <1>20, <3>3, <3>5, <3>7 DEF Losses
  <2> QED BY <2>1, <2>2, <2>3 DEF Losses
<1>13. InOrder'
  <2> SUFFICES ASSUME NEW i \in DOMAIN stored, NEW j \in DOMAIN stored, i < j,
                      NEW m \in DOMAIN Stream', NEW n \in DOMAIN Stream', m < n,
                      Stream'[m] = stored[j], Stream'[n] = stored[i]
               PROVE  FALSE
    BY <1>1 DEF InOrder
  <2>1. /\ Old(m) \in DOMAIN Stream /\ Old(n) \in DOMAIN Stream /\ Old(m) < Old(n)
        /\ Stream[Old(m)] = stored[j] /\ Stream[Old(n)] = stored[i]
    BY <1>4, <1>5
  <2> QED BY <1>8, <2>1 DEF InOrder
<1> QED BY <1>1, <1>7, <1>8, <1>10, <1>11, <1>12, <1>13, StoreParts DEF Streams

-----------------------------------------------------------------------------
(* The inductive invariant.                                                 *)
IInv == TypeOK /\ Control /\ Shutdown /\ Raws /\ Streams /\ Losses

LEMMA InitIInv == Init => IInv
<1> SUFFICES ASSUME Init PROVE IInv
  OBVIOUS
<1> USE MonitorAssumption
<1>1. <<>> \in Events /\ <<>> \in Seq(1 .. arrived)
  BY EmptySeq DEF Events
<1>2. TypeOK
  <2>1. \A events \in {emitting, pending, hand, delivered, stored} : events \in Seq(EventRecord)
    BY <1>1 DEF Init, Events
  <2>2. queue \in Seq(1 .. arrived) /\ batch \in Seq(1 .. arrived) /\ arrived \in 0 .. MaxRaws
    BY <1>1 DEF Init
  <2>3. failures \in 0 .. MaxFailures /\ interrupts \in 0 .. MaxInterrupts /\ failed \subseteq 1 .. arrived
    BY DEF Init
  <2>4. /\ running \in BOOLEAN /\ stop \in BOOLEAN /\ expired \in BOOLEAN
        /\ open \subseteq Burst /\ ripe \subseteq open /\ todo \subseteq Burst
        /\ todo = {} /\ emitting = <<>> /\ hand = <<>> /\ cut = {}
    BY DEF Init
  <2> QED BY <2>1, <2>2, <2>3, <2>4 DEF TypeOK
<1>3. Control /\ Shutdown
  BY DEF Init, Control, Shutdown, Spoilt, OneInHand, At, CallerLabel, RunLabel, Flushed, Ending
<1>4. Stream = <<>> /\ Announced = <<>> /\ Elems(<<>>) = {}
  BY <1>1, ConcatEmptySeq DEF Init, Stream, Announced, Events, Elems
<1>5. IsInjective(<<>>) /\ DOMAIN <<>> = {}
  BY DEF IsInjective
<1>6. EventsIn = {} /\ EventBursts = {}
  BY <1>4 DEF Init, EventsIn, EventBursts
<1>7. Raws
  <2>1. Separate({}, {}, {}, {}, {}, {})
    BY DEF Separate, Free, Apart
  <2>2. 1 .. arrived = {}
    BY DEF Init
  <2> QED BY <1>4, <1>5, <1>6, <2>1, <2>2 DEF Init, Raws, RawsApart, NoneLost
<1>8. Streams /\ Losses
  <2>1. EventsApart /\ DerivedFollowsConnect
    BY <1>4, <1>5, <1>6 DEF Init, EventsApart, DerivedFollowsConnect
  <2>2. Lost = {} /\ InOrder /\ IsInjective(stored)
    BY <1>5 DEF Init, Lost, InOrder
  <2>3. Missed = {}
    BY <2>2 DEF Missed
  <2>4. Cardinality(Lost) <= interrupts /\ Cardinality(Missed) <= interrupts
    BY <2>2, <2>3, FS_EmptySet DEF Init
  <2> QED BY <2>1, <2>2, <2>4, StoreParts DEF Streams, Losses
<1> QED BY <1>2, <1>3, <1>7, <1>8 DEF IInv

(* Steps that touch neither the stream nor the store, and Emit's kind.      *)
QuietSteps ==
  \/ Notify \/ RipenAny \/ Expire \/ RequestStop \/ Start \/ Loop \/ ReturnNone
  \/ StopSource \/ Leave \/ Fed \/ PullEnds \/ Queued
  \/ PollExpired \/ PollNone \/ PollFails \/ Finally \/ Drain \/ Exit
  \/ PollIngest \/ Feed \/ IngestFails \/ FeedFails \/ Replay \/ Pull

LEMMA QuietStepsKeepOutput ==
  ASSUME QuietSteps
  PROVE  UNCHANGED <<output, emitting, interrupts, cut>>
<1> USE DEF bounds
<1>1. CASE Notify \/ RipenAny \/ Expire \/ RequestStop \/ Start \/ Loop \/ ReturnNone
  BY <1>1 DEF Notify, RipenAny, Ripen, Expire, RequestStop, Start, Loop, ReturnNone
<1>2. CASE StopSource \/ Leave \/ Fed \/ PullEnds \/ Queued
  BY <1>2 DEF StopSource, Leave, Fed, PullEnds, Queued
<1>3. CASE PollExpired \/ PollNone \/ PollFails \/ Finally \/ Drain \/ Exit
  BY <1>3 DEF PollExpired, PollNone, PollFails, Finally, Drain, Exit, Flush, QueueEvents
<1>4. CASE PollIngest \/ Feed
  BY <1>4 DEF PollIngest, Feed, Ingest, QueueEvents
<1>5. CASE IngestFails \/ FeedFails \/ Replay \/ Pull
  BY <1>5 DEF IngestFails, FeedFails, Replay, Pull
<1> QED BY <1>1, <1>2, <1>3, <1>4, <1>5 DEF QuietSteps

LEMMA QuietStepsKeepRaws ==
  ASSUME TypeOK, Control, Raws, SameEvents, QuietSteps
  PROVE  Raws'
<1>1. CASE Notify
  BY <1>1, NotifyKeepsRaws
<1>2. CASE RipenAny \/ Expire \/ RequestStop \/ Start \/ Loop \/ ReturnNone
           \/ StopSource \/ Leave \/ Fed \/ PullEnds \/ Queued
  <2>1. UNCHANGED <<arrived, queue, batch, failed, open, todo, interrupts>>
    BY <1>2 DEF RipenAny, Ripen, Expire, RequestStop, Start, Loop, ReturnNone, StopSource, Leave,
                Fed, PullEnds, Queued, source, bursts, bounds
  <2> QED BY <2>1, StillKeepsRaws
<1>3. CASE PollExpired \/ PollNone \/ PollFails \/ Finally \/ Drain \/ Exit
  <2>1. pc # "queue" /\ UNCHANGED <<arrived, queue, batch, interrupts>>
    BY <1>3 DEF PollExpired, PollNone, PollFails, Finally, Drain, Exit, source, bounds
  <2>2. \E closed \in {ripe, open}, next \in {"return", "poll", "stop source", "drain", "take", "exit source"} :
          Flush(closed, next)
    BY <1>3 DEF PollExpired, PollNone, PollFails, Finally, Drain, Exit
  <2>3. ripe \in SUBSET open /\ open \in SUBSET open
    BY DEF TypeOK
  <2> QED BY <2>1, <2>2, <2>3, FlushKeepsRaws
<1>4. CASE PollIngest \/ Feed \/ IngestFails \/ FeedFails \/ Pull
  BY <1>4, RawStepsKeepRaws
<1>5. CASE Replay
  BY <1>5, ReplayKeepsRaws
<1> QED BY <1>1, <1>2, <1>3, <1>4, <1>5 DEF QuietSteps

LEMMA NextKeepsType ==
  ASSUME TypeOK, OneInHand, Next
  PROVE  TypeOK'
  BY SurroundingsKeepType, MovesKeepType, StreamKeepsType, EnrichKeepsType, BurstStepsKeepType,
     RawStepsKeepType DEF Next, Worker, Poll

LEMMA NextKeepsPhase ==
  ASSUME TypeOK, Control, Shutdown, Next
  PROVE  Control' /\ Shutdown'
  BY BurstStepsKeepPhase, OthersKeepPhase DEF Next, Worker, Poll

LEMMA NextKeepsIInv ==
  ASSUME IInv, Next
  PROVE  IInv'
<1>1. TypeOK /\ Control /\ Shutdown /\ Raws /\ Streams /\ Losses
  BY DEF IInv
<1>2. OneInHand
  BY <1>1 DEF Control
<1>3. TypeOK' /\ Control' /\ Shutdown'
  BY <1>1, <1>2, NextKeepsType, NextKeepsPhase
<1>4. Over => Losses'
  BY <1>1, OverStays DEF Losses
<1>5. Raws' /\ Streams' /\ Losses'
  <2>1. CASE QuietSteps
    <3>1. UNCHANGED <<output, emitting, interrupts, cut>>
      BY <2>1, QuietStepsKeepOutput
    <3>2. SameEvents /\ Stream' = Stream /\ UNCHANGED <<emitting, stored>>
      BY <3>1, OutputSame
    <3>3. Streams' /\ Lost' = Lost
      BY <1>1, <3>1, <3>2, StillKeepsStreams
    <3> QED BY <1>1, <1>4, <2>1, <3>1, <3>2, <3>3, QuietStepsKeepRaws DEF Losses
  <2>2. CASE PopPending \/ Deliver \/ TakePending
    <3>1. SameEvents /\ Stream' = Stream /\ UNCHANGED <<emitting, stored>>
      BY <1>1, <2>2, PassingSteps
    <3>2. UNCHANGED <<arrived, queue, batch, failed, open, todo, interrupts, cut>>
      BY <2>2 DEF PopPending, Deliver, TakePending, source, bursts, bounds
    <3>3. Streams' /\ Lost' = Lost
      BY <1>1, <3>1, <3>2, StillKeepsStreams
    <3> QED BY <1>1, <1>4, <3>1, <3>2, <3>3, StillKeepsRaws DEF Losses
  <2>3. CASE Emit
    <3>1. SameEvents
      BY <1>1, <2>3, PassingSteps
    <3>2. UNCHANGED <<arrived, queue, batch, failed, open, todo, interrupts>>
      BY <2>3 DEF Emit, source, bursts, bounds
    <3>3. Cardinality(Lost) <= interrupts
      BY <1>1, <2>3 DEF Losses, Over, Emit
    <3> QED BY <1>1, <2>3, <3>1, <3>2, <3>3, StillKeepsRaws, EmitKeepsStreams DEF Losses
  <2>4. CASE Enrich
    <3>1. Streams' /\ Raws' /\ Lost' = Lost
      BY <1>1, <2>4, EnrichKeepsStreams
    <3> QED BY <1>1, <1>4, <2>4, <3>1 DEF Losses, Enrich, bounds
  <2>5. CASE Interrupt
    BY <1>1, <2>5, InterruptKeepsStreams
  <2> QED BY <2>1, <2>2, <2>3, <2>4, <2>5 DEF Next, Worker, Poll, QuietSteps
<1> QED BY <1>3, <1>5 DEF IInv

LEMMA StutterKeepsIInv ==
  ASSUME IInv, UNCHANGED vars
  PROVE  IInv'
<1>1. UNCHANGED <<owner, running, arrived, queue, batch, stop, expired, open, ripe, failed, pc, back,
                  todo, emitting, pending, hand, delivered, stored, failures, interrupts, cut>>
  BY DEF vars, source, bursts, output, bounds
<1>2. TypeOK'
  BY <1>1, TypeParts DEF IInv, TypeOK, EventTypes
<1>3. Control' /\ Shutdown'
  BY <1>1 DEF IInv, Control, Shutdown, Spoilt, ShutBy, OneInHand, At
<1>4. SameEvents /\ Stream' = Stream
  BY <1>1, OutputSame DEF output
<1>5. Raws' /\ Streams' /\ Lost' = Lost
  BY <1>1, <1>4, StillKeepsRaws, StillKeepsStreams DEF IInv
<1>6. Losses'
  BY <1>1, <1>5 DEF IInv, Losses, Over, At
<1> QED BY <1>2, <1>3, <1>5, <1>6 DEF IInv

THEOREM Inductive == Spec => []IInv
<1>1. IInv /\ [Next]_vars => IInv'
  BY NextKeepsIInv, StutterKeepsIInv
<1> QED BY <1>1, InitIInv, PTL DEF Spec

-----------------------------------------------------------------------------
(* A raw has at most one place, and one if it was not lost.                 *)
LEMMA OnePlace ==
  ASSUME IInv, NEW i \in 1 .. arrived
  PROVE  /\ Cardinality(Places(i)) <= 1
         /\ i \notin Noise /\ interrupts = 0 => Places(i) # {}
<1> DEFINE A == {<<"queue", k>> : k \in {n \in DOMAIN queue : queue[n] = i}}
           B == {<<"batch", k>> : k \in {n \in DOMAIN batch : batch[n] = i}}
           C == {<<"failed", i>> : j \in failed \cap {i}}
           D == {<<"open", b>> : b \in {c \in open : i \in c}}
           E == {<<"todo", b>> : b \in {c \in todo : i \in c}}
           F == {<<"event", k>> : k \in {n \in DOMAIN Announced :
                                           IsMain(Announced[n]) /\ i \in Announced[n].raws}}
<1>1. Places(i) = A \cup B \cup C \cup D \cup E \cup F
  BY DEF Places
<1>2. /\ IsInjective(queue) /\ IsInjective(batch) /\ IsInjective(Announced)
      /\ Apart(open \cup todo \cup EventBursts)
      /\ \A e \in EventsIn : IsMain(e) => e.type = MainType(e.raws)
      /\ Announced \in Seq(EventRecord)
  BY StreamTyped DEF IInv, Raws, RawsApart, Separate, Streams, EventsApart, StreamTypes, Events
<1>3. /\ \A x, y \in A : x = y
      /\ \A x, y \in B : x = y
      /\ \A x, y \in C : x = y
  BY <1>2 DEF IsInjective
<1>4. /\ \A x, y \in D : x = y
      /\ \A x, y \in E : x = y
  BY <1>2 DEF Apart
<1>5. \A x, y \in F : x = y
  <2> SUFFICES ASSUME NEW m \in DOMAIN Announced, IsMain(Announced[m]), i \in Announced[m].raws,
                      NEW n \in DOMAIN Announced, IsMain(Announced[n]), i \in Announced[n].raws
               PROVE  m = n
    OBVIOUS
  <2>1. Announced[m] \in EventsIn /\ Announced[n] \in EventsIn
    BY DEF EventsIn, Elems
  <2>2. Announced[m].raws = Announced[n].raws
    <3>1. Announced[m].raws \in EventBursts /\ Announced[n].raws \in EventBursts
      BY <2>1 DEF EventBursts
    <3> QED BY <1>2, <3>1 DEF Apart
  <2>3. Announced[m].type = Announced[n].type
    BY <1>2, <2>1, <2>2
  <2>4. Announced[m] \in EventRecord /\ Announced[n] \in EventRecord
    BY <1>2, LenProperties, ElementOfSeq
  <2>5. Announced[m] = Announced[n]
    BY <2>2, <2>3, <2>4 DEF EventRecord
  <2> QED BY <1>2, <2>5 DEF IsInjective
<1>6. /\ A # {} <=> i \in Elems(queue)
      /\ B # {} <=> i \in Elems(batch)
      /\ C # {} <=> i \in failed
      /\ D # {} <=> i \in UNION open
      /\ E # {} <=> i \in UNION todo
      /\ F # {} <=> i \in MainRaws
  <2>1. A # {} <=> i \in Elems(queue)
    BY DEF Elems
  <2>2. B # {} <=> i \in Elems(batch)
    BY DEF Elems
  <2>4. /\ C # {} <=> i \in failed
        /\ D # {} <=> i \in UNION open
        /\ E # {} <=> i \in UNION todo
    OBVIOUS
  <2>3. F # {} <=> i \in MainRaws
    <3>1. ASSUME F # {} PROVE i \in MainRaws
      <4>1. PICK n \in DOMAIN Announced : IsMain(Announced[n]) /\ i \in Announced[n].raws
        BY <3>1
      <4> QED BY <4>1 DEF MainRaws, Elems
    <3>2. ASSUME i \in MainRaws PROVE F # {}
      <4>1. PICK e \in Elems(Announced) : IsMain(e) /\ i \in e.raws
        BY <3>2 DEF MainRaws
      <4>2. PICK n \in DOMAIN Announced : e = Announced[n]
        BY DEF Elems
      <4>3. <<"event", n>> \in F
        BY <4>1, <4>2
      <4> QED BY <4>3
    <3> QED BY <3>1, <3>2
  <2> HIDE DEF A, B, C, D, E, F
  <2> QED BY <2>1, <2>2, <2>3, <2>4
<1>7. MainRaws \subseteq UNION EventBursts
  BY DEF MainRaws, EventBursts, EventsIn
<1>8. /\ i \in Elems(queue) => i \notin Elems(batch) \cup failed
      /\ i \in Elems(batch) => i \notin failed
      /\ i \in Elems(queue) \cup Elems(batch) \cup failed =>
           i \notin UNION open /\ i \notin UNION todo /\ i \notin UNION EventBursts
      /\ i \in UNION open => i \notin UNION todo /\ i \notin UNION EventBursts
      /\ i \in UNION todo => i \notin UNION EventBursts
  <2>1. Separate(Elems(queue), Elems(batch), failed, open, todo, EventBursts)
    BY DEF IInv, Raws, RawsApart
  <2>2. /\ i \in Elems(queue) => i \notin Elems(batch) \cup failed
        /\ i \in Elems(batch) => i \notin failed
    BY <2>1 DEF Separate
  <2>3. i \in Elems(queue) \cup Elems(batch) \cup failed =>
          i \notin UNION open /\ i \notin UNION todo /\ i \notin UNION EventBursts
    BY <2>1 DEF Separate, Free
  <2>4. /\ open \cap todo = {} /\ (open \cup todo) \cap EventBursts = {}
    BY <2>1 DEF Separate
  <2>5. /\ i \in UNION open => i \notin UNION todo /\ i \notin UNION EventBursts
        /\ i \in UNION todo => i \notin UNION EventBursts
    BY <1>2, <2>4 DEF Apart
  <2> QED BY <2>2, <2>3, <2>5
<1> HIDE DEF A, B, C, D, E, F
<1>9. \A x, y \in Places(i) : x = y
  BY <1>1, <1>3, <1>4, <1>5, <1>6, <1>7, <1>8
<1>10. Cardinality(Places(i)) <= 1
  <2>1. CASE Places(i) = {}
    BY <2>1, FS_EmptySet
  <2>2. CASE Places(i) # {}
    <3>1. PICK x : Places(i) = {x}
      BY <1>9, <2>2
    <3>2. Cardinality({x}) = 1
      BY FS_Singleton
    <3> QED BY <3>1, <3>2
  <2> QED BY <2>1, <2>2
<1>11. i \notin Noise /\ interrupts = 0 => Places(i) # {}
  BY <1>1, <1>6 DEF IInv, Raws, NoneLost, Held
<1> QED BY <1>10, <1>11

(* Types; outside a _queue_event loop no closed burst and no event waits.   *)
THEOREM TypeCorrect == Spec => []TypeOK
<1>1. IInv => TypeOK
  BY DEF IInv
<1> QED BY <1>1, Inductive, PTL

(* A plug or unplug is never lost and never told twice, whatever fails      *)
(* (run(), replay() and _queue_event).                                      *)
THEOREM NoRawLostOrDoubled == Spec => []EachRawOnce
<1>1. IInv => EachRawOnce
  BY OnePlace DEF EachRawOnce
<1> QED BY <1>1, Inductive, PTL

(* The shutdown of run(), of __exit__ and of replay()'s caller leaves no    *)
(* burst open and no event undelivered, unless a Ctrl+C cuts short the very *)
(* clause that does it.                                                     *)
THEOREM ShutsDownClean == Spec => []CleanShutdown
<1>1. IInv => CleanShutdown
  BY DEF IInv, Control, Shutdown, Spoilt, CleanShutdown, At, Flushed, Ending
<1> QED BY <1>1, Inductive, PTL

(* FIRST_SEEN, KNOWN_DEVICE and SUSPICIOUS_DEVICE come right after the      *)
(* CONNECT they are about (_queue_event).                                   *)
THEOREM DerivedComesRightAfter == Spec => []DerivedFollowsConnect
<1>1. IInv => DerivedFollowsConnect
  BY DEF IInv, Streams
<1> QED BY <1>1, Inductive, PTL

(* The event store never runs ahead of what the callback hears, nor in      *)
(* another order (_emit); a Ctrl+C costs one event on its way, one in run's *)
(* finally clause the last ones stored.                                     *)
THEOREM StoreNeverAhead == Spec => []StoreFollowsStream
<1>1. IInv => StoreFollowsStream
  BY DEF IInv, Streams
<1> QED BY <1>1, Inductive, PTL

-----------------------------------------------------------------------------
(* The coalescer the worker uses is one that keeps its promise and does no  *)
(* more; module EventNormalizer_proofs shows that the program's is one.     *)
Waiting == Elems(queue) \cup Elems(batch)
ActionFunction == [i \in Ingested |-> ActionOf(i)]

LEMMA SameWaiting ==
  ASSUME arrived' = arrived, Waiting' = Waiting
  PROVE  ActionFunction' = ActionFunction
<1>1. Ingested' = Ingested
  BY DEF Ingested, Waiting
<1> QED BY <1>1 DEF ActionFunction

LEMMA OneLessWaiting ==
  ASSUME TypeOK, arrived' = arrived, NEW raw \in Waiting, Waiting' = Waiting \ {raw}
  PROVE  /\ raw \in RawId /\ ActionOf(raw) \in {"CONNECT", "DISCONNECT"}
         /\ Normalizer!Pass(raw, ActionOf(raw))
<1>1. Waiting \subseteq 1 .. arrived /\ 1 .. arrived \subseteq RawId
  <2>1. queue \in Seq(1 .. arrived) /\ batch \in Seq(1 .. arrived) /\ arrived \in 0 .. MaxRaws
    BY DEF TypeOK
  <2>2. \A q \in Seq(1 .. arrived) : Elems(q) \subseteq 1 .. arrived
    <3>1. \A q \in Seq(1 .. arrived) : \A k \in DOMAIN q : q[k] \in 1 .. arrived
      BY ElementOfSeq, LenProperties
    <3> QED BY <3>1 DEF Elems
  <2>3. 1 .. arrived \subseteq RawId
    BY <2>1, MonitorAssumption DEF RawId
  <2> QED BY <2>1, <2>2, <2>3 DEF Waiting
<1>2. raw \notin Ingested /\ Ingested' = Ingested \cup {raw}
  BY <1>1 DEF Ingested, Waiting
<1>3. /\ raw \notin DOMAIN ActionFunction
      /\ (DOMAIN ActionFunction)' = DOMAIN ActionFunction \cup {raw}
      /\ ActionFunction' = [i \in (DOMAIN ActionFunction)' |->
                              IF i = raw THEN ActionOf(raw) ELSE ActionFunction[i]]
  BY <1>2 DEF ActionFunction
<1>4. Normalizer!Pass(raw, ActionOf(raw))
  BY <1>3 DEF Normalizer!Pass, Normalizer!Told, ActionFunction
<1> QED BY <1>1, <1>4 DEF ActionOf

(* What is taken from the head of the queue or of the batch waits no more.  *)
LEMMA HeadLeaves ==
  ASSUME TypeOK, RawsApart
  PROVE  /\ queue # <<>> => /\ Head(queue) \in Waiting
                            /\ Elems(Tail(queue)) \cup Elems(batch) = Waiting \ {Head(queue)}
         /\ batch # <<>> => /\ Head(batch) \in Waiting
                            /\ Elems(queue) \cup Elems(Tail(batch)) = Waiting \ {Head(batch)}
<1>1. queue \in Seq(1 .. arrived) /\ batch \in Seq(1 .. arrived)
  BY DEF TypeOK
<1>2. IsInjective(queue) /\ IsInjective(batch) /\ Elems(queue) \cap Elems(batch) = {}
  BY DEF RawsApart, Separate
<1>3. \A s \in Seq(1 .. arrived) : s # <<>> /\ IsInjective(s) =>
        Head(s) \in Elems(s) /\ Elems(Tail(s)) = Elems(s) \ {Head(s)}
  BY TailElems
<1>4. ASSUME queue # <<>>
      PROVE  /\ Head(queue) \in Waiting
             /\ Elems(Tail(queue)) \cup Elems(batch) = Waiting \ {Head(queue)}
  <2>1. Head(queue) \in Elems(queue) /\ Elems(Tail(queue)) = Elems(queue) \ {Head(queue)}
    BY <1>1, <1>2, <1>3, <1>4
  <2> QED BY <1>2, <2>1 DEF Waiting
<1>5. ASSUME batch # <<>>
      PROVE  /\ Head(batch) \in Waiting
             /\ Elems(queue) \cup Elems(Tail(batch)) = Waiting \ {Head(batch)}
  <2>1. Head(batch) \in Elems(batch) /\ Elems(Tail(batch)) = Elems(batch) \ {Head(batch)}
    BY <1>1, <1>2, <1>3, <1>5
  <2> QED BY <1>2, <2>1 DEF Waiting
<1> QED BY <1>4, <1>5

LEMMA IngestsAsPromised ==
  ASSUME TypeOK, RawsApart, PollIngest \/ Feed
  PROVE  Normalizer!Next
<1>1. PICK raw, next :
        /\ raw \in Waiting /\ Waiting' = Waiting \ {raw} /\ arrived' = arrived
        /\ Ingest(raw, next)
  <2>1. CASE PollIngest
    <3>1. /\ queue # <<>> /\ queue' = Tail(queue) /\ UNCHANGED <<arrived, batch>>
          /\ Ingest(Head(queue), "poll")
      BY <2>1 DEF PollIngest, Pop
    <3>2. PICK raw : raw = Head(queue)
      OBVIOUS
    <3>3. raw \in Waiting /\ Waiting' = Waiting \ {raw}
      BY <3>1, <3>2, HeadLeaves DEF Waiting
    <3> QED BY <3>1, <3>2, <3>3 DEF Ingest, SameAction
  <2>2. CASE Feed
    <3>1. /\ batch # <<>> /\ batch' = Tail(batch) /\ UNCHANGED <<arrived, queue>>
          /\ Ingest(Head(batch), "feed")
      BY <2>2 DEF Feed
    <3>2. PICK raw : raw = Head(batch)
      OBVIOUS
    <3>3. raw \in Waiting /\ Waiting' = Waiting \ {raw}
      BY <3>1, <3>2, HeadLeaves DEF Waiting
    <3> QED BY <3>1, <3>2, <3>3 DEF Ingest, SameAction
  <2> QED BY <2>1, <2>2
<1>2. PICK b \in (open \ ripe) \cup {{}} :
        /\ SameAction(raw, b)
        /\ open' = ((open \ ripe) \ {b}) \cup {b \cup {raw}}
        /\ ripe' = {}
  BY <1>1 DEF Ingest, SameAction
<1>3. \A i \in b : ActionFunction[i] = ActionOf(raw)
  <2>1. b \subseteq Ingested
    <3>1. b \subseteq 1 .. arrived
      BY DEF RawsApart
    <3>2. b \cap (Elems(queue) \cup Elems(batch)) = {}
      BY DEF RawsApart, Separate, Free
    <3> QED BY <3>1, <3>2 DEF Ingested
  <2> QED BY <1>2, <2>1 DEF ActionFunction, ActionOf, SameAction
<1>4. /\ raw \in RawId /\ ActionOf(raw) \in {"CONNECT", "DISCONNECT"}
      /\ Normalizer!Pass(raw, ActionOf(raw))
  BY <1>1, OneLessWaiting
<1>5. Normalizer!Ingest(raw, ActionOf(raw))
  BY <1>2, <1>3, <1>4 DEF Normalizer!Ingest, ActionFunction
<1> QED BY <1>4, <1>5 DEF Normalizer!Next

(* An ingest that fails, or is cut off by Ctrl+C, costs its notification.   *)
LEMMA RefusesAsPromised ==
  ASSUME TypeOK, RawsApart, arrived' = arrived, UNCHANGED <<open, ripe>>,
         \/ queue # <<>> /\ queue' = Tail(queue) /\ batch' = batch
         \/ batch # <<>> /\ batch' = Tail(batch) /\ queue' = queue
  PROVE  Normalizer!Next
<1>1. PICK raw : raw \in Waiting /\ Waiting' = Waiting \ {raw}
  <2>1. CASE queue # <<>> /\ queue' = Tail(queue) /\ batch' = batch
    BY <2>1, HeadLeaves DEF Waiting
  <2>2. CASE batch # <<>> /\ batch' = Tail(batch) /\ queue' = queue
    BY <2>2, HeadLeaves DEF Waiting
  <2> QED BY <2>1, <2>2
<1>2. /\ raw \in RawId /\ ActionOf(raw) \in {"CONNECT", "DISCONNECT"}
      /\ Normalizer!Pass(raw, ActionOf(raw))
  BY <1>1, OneLessWaiting
<1>3. Normalizer!Refuse(raw, ActionOf(raw))
  BY <1>2 DEF Normalizer!Refuse
<1> QED BY <1>2, <1>3 DEF Normalizer!Next

LEMMA FlushesAsPromised ==
  ASSUME PollExpired \/ PollNone \/ PollFails \/ Finally \/ Drain \/ Exit
  PROVE  Normalizer!Next
<1>1. /\ \E closed \in {ripe, open} : open' = open \ closed /\ ripe' = ripe \ closed
      /\ arrived' = arrived /\ Waiting' = Waiting
  BY DEF PollExpired, PollNone, PollFails, Finally, Drain, Exit, Flush, source, Waiting
<1>2. Normalizer!Flush
  BY <1>1, SameWaiting DEF Normalizer!Flush, ActionFunction
<1> QED BY <1>2 DEF Normalizer!Next

(* What else moves raws: their arrival, and replay() pulling them.          *)
LEMMA SourceKeepsIngested ==
  ASSUME TypeOK, Control, Notify \/ Replay \/ Pull
  PROVE  UNCHANGED <<ActionFunction, open, ripe>>
<1>1. queue \in Seq(1 .. arrived) /\ batch \in Seq(1 .. arrived) /\ arrived \in Nat
  BY MonitorAssumption DEF TypeOK
<1>2. CASE Notify
  <2>1. arrived' = arrived + 1 /\ queue' = Append(queue, arrived + 1) /\ UNCHANGED <<batch, open, ripe>>
    BY <1>2 DEF Notify, bursts
  <2>2. 1 .. arrived \subseteq 1 .. (arrived + 1) /\ arrived + 1 \in 1 .. (arrived + 1)
    BY <1>1
  <2>3. queue \in Seq(1 .. (arrived + 1))
    BY <1>1, <2>2, SeqMonotonic
  <2>4. Elems(queue') = Elems(queue) \cup {arrived + 1}
    BY <2>1, <2>2, <2>3, AppendElems
  <2>5. 1 .. (arrived + 1) = 1 .. arrived \cup {arrived + 1} /\ arrived + 1 \notin 1 .. arrived
    BY <1>1
  <2>6. Ingested' = Ingested
    <3>1. Elems(queue)' = Elems(queue') /\ Elems(batch)' = Elems(batch)
      BY <2>1 DEF Elems
    <3> QED BY <2>1, <2>4, <2>5, <3>1 DEF Ingested
  <2> QED BY <2>1, <2>6 DEF ActionFunction
<1>3. CASE Replay
  <2>1. arrived' = arrived /\ UNCHANGED <<open, ripe>> /\ batch = <<>>
    BY <1>3 DEF Replay, bursts, Control, At
  <2>2. \/ batch' = queue /\ queue' = <<>>
        \/ UNCHANGED <<queue, batch>>
    BY <1>3 DEF Replay, TakeAll
  <2>3. Elems(<<>>) = {}
    BY EmptyElems
  <2>4. Waiting' = Waiting
    BY <2>1, <2>2, <2>3 DEF Waiting
  <2> QED BY <2>1, <2>4, SameWaiting
<1>4. CASE Pull
  <2>1. /\ arrived' = arrived /\ UNCHANGED <<open, ripe>> /\ queue # <<>>
        /\ queue' = Tail(queue) /\ batch' = Append(batch, Head(queue))
    BY <1>4 DEF Pull, Pop, bursts
  <2>2. Elems(queue) = {Head(queue)} \cup Elems(Tail(queue)) /\ Head(queue) \in 1 .. arrived
    BY <1>1, <2>1, TailElems
  <2>3. Elems(Append(batch, Head(queue))) = Elems(batch) \cup {Head(queue)}
    BY <1>1, <2>2, AppendElems
  <2>4. Waiting' = Waiting
    BY <2>1, <2>2, <2>3 DEF Waiting
  <2> QED BY <2>1, <2>4, SameWaiting
<1> QED BY <1>2, <1>3, <1>4

LEMMA OthersKeepIngested ==
  ASSUME \/ Expire \/ RequestStop \/ Start \/ Loop \/ ReturnNone
         \/ StopSource \/ Leave \/ Fed \/ PullEnds \/ Queued
         \/ PopPending \/ Deliver \/ TakePending \/ Emit \/ Enrich
         \/ UNCHANGED vars
  PROVE  UNCHANGED <<ActionFunction, open, ripe>>
<1>1. UNCHANGED <<arrived, queue, batch, open, ripe>>
  <2> USE DEF source, bursts
  <2>1. CASE Expire \/ RequestStop \/ Start \/ Loop \/ ReturnNone \/ StopSource \/ Leave \/ Fed
    BY <2>1 DEF Expire, RequestStop, Start, Loop, ReturnNone, StopSource, Leave, Fed
  <2>2. CASE PullEnds \/ Queued \/ PopPending \/ Deliver \/ TakePending \/ Emit \/ Enrich
    BY <2>2 DEF PullEnds, Queued, PopPending, Deliver, TakePending, Emit, Enrich
  <2>3. CASE UNCHANGED vars
    BY <2>3 DEF vars
  <2> QED BY <2>1, <2>2, <2>3
<1> QED BY <1>1, SameWaiting DEF Waiting

(* The worker, Ctrl+C and a caller of replay() use the coalescer within     *)
(* what module Coalescer allows.                                            *)
THEOREM CoalescerIsUsedAsPromised == Spec => UsesACoalescer
<1>1. Init => Normalizer!Init
  <2> SUFFICES ASSUME Init PROVE Normalizer!Init
    OBVIOUS
  <2>1. Ingested = {}
    BY DEF Init, Ingested
  <2> QED BY <2>1 DEF Init, Normalizer!Init
<1>2. IInv /\ [Next]_vars => [Normalizer!Next]_(Normalizer!vars)
  <2> SUFFICES ASSUME TypeOK, Control, RawsApart, [Next]_vars
               PROVE  [Normalizer!Next]_(Normalizer!vars)
    BY DEF IInv, Raws
  <2>1. CASE PollIngest \/ Feed
    BY <2>1, IngestsAsPromised
  <2>2. CASE IngestFails \/ FeedFails \/ Interrupt
    <3>1. UNCHANGED <<arrived, open, ripe>>
      BY <2>2 DEF IngestFails, FeedFails, Interrupt, bursts
    <3>2. \/ queue # <<>> /\ queue' = Tail(queue) /\ batch' = batch
          \/ batch # <<>> /\ batch' = Tail(batch) /\ queue' = queue
          \/ UNCHANGED <<queue, batch>>
      BY <2>2 DEF IngestFails, FeedFails, Interrupt, Pop
    <3>3. CASE UNCHANGED <<queue, batch>>
      <4>1. ActionFunction' = ActionFunction
        BY <3>1, <3>3, SameWaiting DEF Waiting
      <4> QED BY <3>1, <4>1 DEF Normalizer!vars, ActionFunction
    <3> QED BY <3>1, <3>2, <3>3, RefusesAsPromised
  <2>3. CASE PollExpired \/ PollNone \/ PollFails \/ Finally \/ Drain \/ Exit
    BY <2>3, FlushesAsPromised
  <2>4. CASE RipenAny
    <3>1. ripe \subseteq open /\ ripe \subseteq ripe' /\ ripe' \subseteq open /\ open' = open
      BY <2>4 DEF RipenAny, Ripen, TypeOK
    <3>2. ActionFunction' = ActionFunction
      BY <2>4, SameWaiting DEF RipenAny, Ripen, source, Waiting
    <3>3. Normalizer!Ripen
      BY <3>1, <3>2 DEF Normalizer!Ripen, ActionFunction
    <3> QED BY <3>3 DEF Normalizer!Next
  <2>5. CASE Notify \/ Replay \/ Pull
    BY <2>5, SourceKeepsIngested DEF Normalizer!vars, ActionFunction
  <2>6. CASE \/ Expire \/ RequestStop \/ Start \/ Loop \/ ReturnNone
             \/ StopSource \/ Leave \/ Fed \/ PullEnds \/ Queued
             \/ PopPending \/ Deliver \/ TakePending \/ Emit \/ Enrich
             \/ UNCHANGED vars
    BY <2>6, OthersKeepIngested DEF Normalizer!vars, ActionFunction
  <2> QED BY <2>1, <2>2, <2>3, <2>4, <2>5, <2>6 DEF Next, Worker, Poll
<1> QED BY <1>1, <1>2, Inductive, PTL DEF Spec, UsesACoalescer, Normalizer!Spec

-----------------------------------------------------------------------------
(* The queue, seen as that of an EventSource that is never full.            *)
LEMMA QueueSteps ==
  ASSUME [Next]_vars
  PROVE  \/ Notify
         \/ queue # <<>> /\ queue' = Tail(queue) /\ arrived' = arrived
         \/ queue' = <<>> /\ arrived' = arrived
         \/ UNCHANGED <<arrived, queue>>
<1> USE DEF source
<1>1. CASE PollIngest \/ IngestFails \/ Pull
  BY <1>1 DEF PollIngest, IngestFails, Pull, Pop
<1>2. CASE Replay
  BY <1>2 DEF Replay, TakeAll
<1>3. CASE Interrupt
  BY <1>3 DEF Interrupt
<1>4. CASE PollExpired \/ PollNone \/ PollFails
  BY <1>4 DEF PollExpired, PollNone, PollFails
<1>5. CASE Finally \/ Drain \/ Exit
  BY <1>5 DEF Finally, Drain, Exit
<1>8. CASE Expire \/ RequestStop \/ Start \/ Loop
  BY <1>8 DEF Expire, RequestStop, Start, Loop
<1>9. CASE ReturnNone \/ StopSource \/ Leave \/ Fed
  BY <1>9 DEF ReturnNone, StopSource, Leave, Fed
<1>6. CASE PullEnds \/ Queued \/ PopPending \/ Deliver \/ TakePending \/ Emit \/ Enrich
  BY <1>6 DEF PullEnds, Queued, PopPending, Deliver, TakePending, Emit, Enrich
<1>7. CASE Feed \/ FeedFails \/ RipenAny \/ UNCHANGED vars
  BY <1>7 DEF Feed, FeedFails, RipenAny, Ripen, vars
<1> QED BY <1>1, <1>2, <1>3, <1>4, <1>5, <1>6, <1>7, <1>8, <1>9 DEF Next, Worker, Poll

(* For USBMonitor!UsesASource: what run(), Ctrl+C and replay() take from    *)
(* the source, any EventSource with room for it gives.                      *)
THEOREM SourceIsUsedAsPromised == Spec => UsesASource
<1> DEFINE Fits == Len(queue) <= arrived
<1>1. Init => Fits /\ Source!Init
  <2> SUFFICES ASSUME Init PROVE Fits /\ Source!Init
    OBVIOUS
  <2>1. arrived = 0 /\ queue = <<>> /\ Len(queue) = 0
    BY DEF Init
  <2> QED BY <2>1 DEF Source!Init
<1>2. TypeOK /\ Fits /\ [Next]_vars => Fits' /\ [Source!Next]_(Source!vars)
  <2> SUFFICES ASSUME TypeOK, Fits, [Next]_vars PROVE Fits' /\ [Source!Next]_(Source!vars)
    OBVIOUS
  <2>1. queue \in Seq(1 .. arrived) /\ arrived \in Nat /\ Len(queue) \in Nat
    BY MonitorAssumption DEF TypeOK
  <2>2. CASE Notify
    <3>1. arrived < MaxRaws /\ arrived' = arrived + 1 /\ queue' = Append(queue, arrived + 1)
      BY <2>2 DEF Notify
    <3>2. Len(queue') = Len(queue) + 1
      BY <2>1, <3>1
    <3>3. Len(queue) < MaxRaws
      BY <2>1, <3>1, MonitorAssumption
    <3> QED BY <2>1, <3>1, <3>2, <3>3 DEF Source!Next, Source!Arrive
  <2>3. CASE queue # <<>> /\ queue' = Tail(queue) /\ arrived' = arrived
    <3>1. Len(queue') = Len(queue) - 1
      BY <2>1, <2>3
    <3> QED BY <2>1, <2>3, <3>1 DEF Source!Next, Source!Poll
  <2>4. CASE queue' = <<>> /\ arrived' = arrived
    <3>1. Len(queue') = 0
      BY <2>4
    <3> QED BY <2>1, <2>4, <3>1 DEF Source!Next, Source!TakeAll
  <2>5. CASE UNCHANGED <<arrived, queue>>
    BY <2>5 DEF Source!vars
  <2> QED BY <2>2, <2>3, <2>4, <2>5, QueueSteps
<1> QED BY <1>1, <1>2, TypeCorrect, PTL DEF Spec, UsesASource, Source!Spec
=============================================================================

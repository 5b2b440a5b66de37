----------------------- MODULE DeviceInventory_proofs -----------------------
(* What the baseline guarantees for any events whose PNP ids name one       *)
(* device each.                                                             *)
EXTENDS DeviceInventory, FiniteSetTheorems, TLAPS

(* What a record's key says about its fields.                               *)
KeyFits(d, r) ==
  /\ d[1] = "serial" => /\ r.vidpid # None /\ r.serial # None
                        /\ d = <<"serial", r.vidpid, r.serial>>
  /\ d[1] = "model" => /\ r.vidpid # None /\ d = <<"model", r.vidpid>>
                       /\ r.serial # None => r.pnp # None
  /\ d[1] = "pnp" => r.pnp # None /\ d = <<"pnp", r.pnp>>
  /\ d[1] \notin {"serial", "model", "pnp"} => r.vidpid = None /\ r.pnp = None

(* A record with a PNP id agrees with every event that has this PNP id.     *)
PnpFits(r) ==
  r.pnp # None =>
    \A e \in Event : e.pnp = r.pnp =>
      /\ e.serial = None \/ r.serial = None \/ e.serial = r.serial
      /\ e.vidpid = None \/ r.vidpid = None \/ e.vidpid = r.vidpid

Fits == \A d \in DOMAIN devices : KeyFits(d, devices[d]) /\ PnpFits(devices[d])

(* TypeOK and the bound of the log.                                         *)
Typed ==
  /\ devices \in [DOMAIN devices -> DeviceRecord]
  /\ DOMAIN devices \subseteq Identities
  /\ log \in Seq(LogEntry)
  /\ Len(log) <= MaxObserved

(* Every event that was reported first seen has a record, which has its     *)
(* names.                                                                   *)
Bears(r, e) ==
  /\ e.vidpid # None => r.vidpid = e.vidpid
  /\ e.serial # None => r.serial = e.serial
  /\ e.pnp # None => r.pnp = e.pnp
HasRecord(e) == \E d \in DOMAIN devices : Bears(devices[d], e)
Remembered ==
  \A i \in 1 .. Len(log) : log[i].derived = "FIRST_SEEN" => HasRecord(log[i].event)

IInv == Typed /\ Fits /\ Remembered /\ FirstSeenOnce /\ IdsNeverChange /\ TrustIsKept

-----------------------------------------------------------------------------
LEMMA MergeFields ==
  ASSUME NEW r \in DeviceRecord, NEW e \in Event, Typed, Len(log) < MaxObserved
  PROVE  LET m == Seen(Merge(r, e), e)
         IN  /\ m \in DeviceRecord
             /\ m.vidpid = FirstOf(r.vidpid, e.vidpid)
             /\ m.serial = FirstOf(r.serial, e.serial)
             /\ m.pnp = FirstOf(r.pnp, e.pnp)
             /\ m.trusted = r.trusted
<1> DEFINE g == Merge(r, e)
<1>1. /\ FirstOf(r.vidpid, e.vidpid) \in Value("vidpid")
      /\ FirstOf(r.serial, e.serial) \in Value("serial")
      /\ FirstOf(r.pnp, e.pnp) \in Value("pnp")
      /\ FirstOf(r.manufacturer, e.manufacturer) \in Value("manufacturer")
      /\ FirstOf(r.removable, e.removable) \in Value("removable")
  BY DEF FirstOf, Value, DeviceRecord
<1>2. /\ g \in DeviceRecord
      /\ g.vidpid = FirstOf(r.vidpid, e.vidpid)
      /\ g.serial = FirstOf(r.serial, e.serial)
      /\ g.pnp = FirstOf(r.pnp, e.pnp)
      /\ g.trusted = r.trusted
  BY <1>1 DEF Merge, DeviceRecord
<1>3. Len(log) + 1 \in 1 .. MaxObserved
  BY InventoryAssumption DEF Typed
<1>4. [g EXCEPT !.connects = @ \cup {Len(log) + 1}] \in DeviceRecord
  BY <1>2, <1>3 DEF DeviceRecord
<1> HIDE DEF g
<1> QED
  BY <1>2, <1>4 DEF Seen, DeviceRecord, g

LEMMA KeyKinds ==
  ASSUME NEW e \in Event, HasIdentity(e)
  PROVE  /\ Identity(e)[1] = "serial" <=> e.vidpid # None /\ e.serial # None
         /\ Identity(e)[1] = "model" <=> e.vidpid # None /\ e.serial = None
         /\ Identity(e)[1] = "pnp" <=> e.vidpid = None /\ e.pnp # None
BY InventoryAssumption DEF Identity, HasIdentity

(* The record an event finds does not contradict it.                        *)
LEMMA FoundAgrees ==
  ASSUME Typed, Fits, NEW e \in Event, HasIdentity(e), NEW d \in Find(e)
  PROVE  LET r == devices[d]
         IN  /\ d \in DOMAIN devices /\ r \in DeviceRecord
             /\ Identity(e) \in DOMAIN devices => d = Identity(e)
             /\ e.vidpid # None => r.vidpid \in {None, e.vidpid}
             /\ e.vidpid # None /\ e.serial # None => r.serial \in {None, e.serial}
             /\ e.vidpid # None /\ e.serial = None /\ r.serial # None => r.pnp # None
             /\ e.vidpid = None /\ e.pnp # None => r.pnp = e.pnp
             /\ e.vidpid = None /\ e.pnp = None => r.vidpid = None /\ r.pnp = None
             /\ r.pnp # None /\ r.serial = None /\ e.serial # None => r.pnp = e.pnp
             /\ r.pnp # None /\ r.vidpid = None /\ e.vidpid # None => r.pnp = e.pnp
             /\ r.pnp = None /\ e.pnp # None => r.serial \in {None, e.serial}
<1>1. /\ d \in DOMAIN devices
      /\ Identity(e) \in DOMAIN devices => d = Identity(e)
      /\ d = Identity(e) \/ SameSerial(d, e) \/ SamePnp(d, e)
  BY DEF Find
<1>2. devices[d] \in DeviceRecord
  BY <1>1 DEF Typed
<1>3. KeyFits(d, devices[d]) /\ PnpFits(devices[d])
  BY <1>1 DEF Fits
<1>4. CASE SameSerial(d, e)
  BY <1>1, <1>2, <1>3, <1>4 DEF SameSerial
<1>5. CASE SamePnp(d, e)
  BY <1>1, <1>2, <1>3, <1>5 DEF SamePnp, PnpFits
<1>6. CASE d = Identity(e)
  <2>1. CASE e.vidpid # None /\ e.serial # None
    BY <1>1, <1>2, <1>3, <1>6, <2>1 DEF Identity, KeyFits
  <2>2. CASE e.vidpid # None /\ e.serial = None
    BY <1>1, <1>2, <1>3, <1>6, <2>2 DEF Identity, KeyFits
  <2>3. CASE e.vidpid = None /\ e.pnp # None
    BY <1>1, <1>2, <1>3, <1>6, <2>3 DEF Identity, KeyFits
  <2>4. CASE e.vidpid = None /\ e.pnp = None
    <3>1. d[1] \notin {"serial", "model", "pnp"}
      BY <1>6, <2>4, InventoryAssumption DEF Identity, HasIdentity
    <3> QED
      BY <1>1, <1>2, <1>3, <1>6, <2>4, <3>1 DEF KeyFits
  <2> QED
    BY <2>1, <2>2, <2>3, <2>4
<1> QED
  BY <1>1, <1>4, <1>5, <1>6

LEMMA NewIsRecord == NewDevice \in DeviceRecord
<1>1. {} \in SUBSET (1 .. MaxObserved)
  OBVIOUS
<1> QED
  BY <1>1 DEF NewDevice, DeviceRecord, Value

(* The merged record fits the key it is stored under.                       *)
LEMMA StoredFits ==
  ASSUME Typed, Fits, NEW e \in Event, HasIdentity(e), NEW d \in Find(e),
         NEW m \in DeviceRecord,
         m.vidpid = FirstOf(devices[d].vidpid, e.vidpid),
         m.serial = FirstOf(devices[d].serial, e.serial),
         m.pnp = FirstOf(devices[d].pnp, e.pnp)
  PROVE  KeyFits(Identity(e), m) /\ PnpFits(m)
<1> DEFINE r == devices[d]
<1>1. /\ e.vidpid # None => r.vidpid \in {None, e.vidpid}
      /\ e.vidpid # None /\ e.serial # None => r.serial \in {None, e.serial}
      /\ e.vidpid # None /\ e.serial = None /\ r.serial # None => r.pnp # None
      /\ e.vidpid = None /\ e.pnp # None => r.pnp = e.pnp
      /\ e.vidpid = None /\ e.pnp = None => r.vidpid = None /\ r.pnp = None
      /\ r.pnp # None /\ r.serial = None /\ e.serial # None => r.pnp = e.pnp
      /\ r.pnp # None /\ r.vidpid = None /\ e.vidpid # None => r.pnp = e.pnp
      /\ r.pnp = None /\ e.pnp # None => r.serial \in {None, e.serial}
  BY FoundAgrees
<1>2. d \in DOMAIN devices
  BY DEF Find
<1>3. PnpFits(r)
  BY <1>2 DEF Fits
<1>4. m.vidpid = FirstOf(r.vidpid, e.vidpid) /\ m.serial = FirstOf(r.serial, e.serial)
      /\ m.pnp = FirstOf(r.pnp, e.pnp)
  OBVIOUS
<1> HIDE DEF r
<1>5. KeyFits(Identity(e), m)
  <2>1. CASE e.vidpid # None /\ e.serial # None
    BY <1>1, <1>4, <2>1 DEF Identity, KeyFits, FirstOf
  <2>2. CASE e.vidpid # None /\ e.serial = None
    BY <1>1, <1>4, <2>2 DEF Identity, KeyFits, FirstOf
  <2>3. CASE e.vidpid = None /\ e.pnp # None
    BY <1>1, <1>4, <2>3 DEF Identity, KeyFits, FirstOf
  <2>4. CASE e.vidpid = None /\ e.pnp = None
    <3>1. Identity(e)[1] \notin {"serial", "model", "pnp"}
      BY <2>4, InventoryAssumption DEF Identity, HasIdentity
    <3>2. m.vidpid = None /\ m.pnp = None
      BY <1>1, <1>4, <2>4 DEF FirstOf
    <3> QED
      BY <3>1, <3>2 DEF KeyFits
  <2> QED
    BY <2>1, <2>2, <2>3, <2>4
<1>6. PnpFits(m)
  <2> SUFFICES ASSUME m.pnp # None, NEW f \in Event, f.pnp = m.pnp
               PROVE  /\ f.serial = None \/ m.serial = None \/ f.serial = m.serial
                      /\ f.vidpid = None \/ m.vidpid = None \/ f.vidpid = m.vidpid
    BY DEF PnpFits
  <2>1. e.pnp # None /\ f.pnp = e.pnp =>
          /\ e.serial = None \/ f.serial = None \/ e.serial = f.serial
          /\ e.vidpid = None \/ f.vidpid = None \/ e.vidpid = f.vidpid
    BY InventoryAssumption
  <2>2. CASE r.pnp # None
    BY <1>1, <1>3, <1>4, <2>1, <2>2 DEF PnpFits, FirstOf
  <2>3. CASE r.pnp = None
    BY <1>1, <1>4, <2>1, <2>3 DEF FirstOf
  <2> QED
    BY <2>2, <2>3
<1> QED
  BY <1>5, <1>6

(* So does the record of a device seen for the first time.                  *)
LEMMA FirstFits ==
  ASSUME NEW e \in Event, HasIdentity(e), NEW m \in DeviceRecord,
         m.vidpid = e.vidpid, m.serial = e.serial, m.pnp = e.pnp
  PROVE  KeyFits(Identity(e), m) /\ PnpFits(m)
<1>1. PnpFits(m)
  BY InventoryAssumption DEF PnpFits
<1>2. e.vidpid = None /\ e.pnp = None => Identity(e)[1] \notin {"serial", "model", "pnp"}
  BY InventoryAssumption DEF Identity, HasIdentity
<1>3. KeyFits(Identity(e), m)
  BY <1>2 DEF Identity, KeyFits
<1> QED
  BY <1>1, <1>3

-----------------------------------------------------------------------------
(* What no step loses of a record.                                          *)
Carries(r, q) ==
  /\ r.vidpid # None => q.vidpid = r.vidpid
  /\ r.serial # None => q.serial = r.serial
  /\ r.pnp # None => q.pnp = r.pnp
Carried == \A k \in DOMAIN devices : \E j \in DOMAIN devices' : Carries(devices[k], devices'[j])
CarriedWithTrust ==
  \A k \in DOMAIN devices : \E j \in DOMAIN devices' :
    Carries(devices[k], devices'[j]) /\ devices'[j].trusted = devices[k].trusted

TypedDevices ==
  /\ devices \in [DOMAIN devices -> DeviceRecord]
  /\ DOMAIN devices \subseteq Identities

LEMMA PutKeeps ==
  ASSUME TypedDevices, Fits, NEW e \in Event, HasIdentity(e), NEW m \in DeviceRecord,
         NEW others \in SUBSET DOMAIN devices, Put(Identity(e), m, others),
         KeyFits(Identity(e), m), PnpFits(m)
  PROVE  TypedDevices' /\ Fits'
<1> DEFINE id == Identity(e)
<1>1. /\ DOMAIN devices' = others \cup {id}
      /\ \A k \in others \cup {id} : devices'[k] = IF k = id THEN m ELSE devices[k]
  BY DEF Put
<1>2. id \in Identities
  BY DEF Identities
<1>3. devices' \in [others \cup {id} -> DeviceRecord]
  BY DEF Put, TypedDevices
<1> HIDE DEF id
<1>4. TypedDevices'
  BY <1>1, <1>2, <1>3 DEF TypedDevices
<1>5. Fits'
  <2> SUFFICES ASSUME NEW k \in DOMAIN devices'
               PROVE  KeyFits(k, devices'[k]) /\ PnpFits(devices'[k])
    BY DEF Fits
  <2>1. CASE k = id
    BY <1>1, <2>1 DEF id
  <2>2. CASE k # id
    BY <1>1, <2>2 DEF Fits
  <2> QED
    BY <2>1, <2>2
<1> QED
  BY <1>4, <1>5

(* The first record of a device adds to the baseline and replaces nothing.  *)
LEMMA StoreNewKeeps ==
  ASSUME Typed, Fits, NEW e \in Event, HasIdentity(e), Len(log) < MaxObserved,
         Find(e) = {}, StoreNew(e)
  PROVE  /\ TypedDevices' /\ Fits' /\ CarriedWithTrust
         /\ \E j \in DOMAIN devices' : Bears(devices'[j], e)
<1> DEFINE m == Seen(Merge(NewDevice, e), e)
<1>1. m \in DeviceRecord /\ m.vidpid = e.vidpid /\ m.serial = e.serial /\ m.pnp = e.pnp
  BY NewIsRecord, MergeFields DEF NewDevice, FirstOf
<1>2. Put(Identity(e), m, DOMAIN devices)
  BY DEF StoreNew
<1> HIDE DEF m
<1>3. TypedDevices' /\ Fits'
  BY <1>1, <1>2, FirstFits, PutKeeps DEF Typed, TypedDevices
<1>4. Identity(e) \notin DOMAIN devices
  BY DEF Find
<1>5. /\ DOMAIN devices' = DOMAIN devices \cup {Identity(e)}
      /\ devices'[Identity(e)] = m
      /\ \A k \in DOMAIN devices : devices'[k] = devices[k]
  BY <1>2, <1>4 DEF Put
<1>6. CarriedWithTrust
  BY <1>5 DEF CarriedWithTrust, Carries
<1> QED
  BY <1>1, <1>3, <1>5, <1>6 DEF Bears

(* A replug moves the record it finds and overwrites no other one.          *)
LEMMA StoreKeeps ==
  ASSUME Typed, Fits, NEW e \in Event, HasIdentity(e), Len(log) < MaxObserved,
         NEW d \in Find(e), Store(d, e)
  PROVE  TypedDevices' /\ Fits' /\ CarriedWithTrust
<1> DEFINE m == Seen(Merge(devices[d], e), e)
<1>1. /\ d \in DOMAIN devices /\ devices[d] \in DeviceRecord
      /\ Identity(e) \in DOMAIN devices => d = Identity(e)
  BY FoundAgrees
<1>2. /\ m \in DeviceRecord
      /\ m.vidpid = FirstOf(devices[d].vidpid, e.vidpid)
      /\ m.serial = FirstOf(devices[d].serial, e.serial)
      /\ m.pnp = FirstOf(devices[d].pnp, e.pnp)
      /\ m.trusted = devices[d].trusted
  BY <1>1, MergeFields
<1>3. Put(Identity(e), m, DOMAIN devices \ {d})
  BY DEF Store
<1> HIDE DEF m
<1>4. KeyFits(Identity(e), m) /\ PnpFits(m)
  BY <1>2, StoredFits
<1>5. TypedDevices' /\ Fits'
  BY <1>2, <1>3, <1>4, PutKeeps DEF Typed, TypedDevices
<1>6. /\ DOMAIN devices' = (DOMAIN devices \ {d}) \cup {Identity(e)}
      /\ devices'[Identity(e)] = m
      /\ \A k \in DOMAIN devices \ {d} : k # Identity(e) /\ devices'[k] = devices[k]
  BY <1>1, <1>3 DEF Put
<1>7. ASSUME NEW k \in DOMAIN devices
      PROVE  \E j \in DOMAIN devices' :
               Carries(devices[k], devices'[j]) /\ devices'[j].trusted = devices[k].trusted
  <2>1. CASE k = d
    BY <1>2, <1>6, <2>1 DEF Carries, FirstOf
  <2>2. CASE k # d
    BY <1>6, <2>2 DEF Carries
  <2> QED
    BY <2>1, <2>2
<1> QED
  BY <1>5, <1>7 DEF CarriedWithTrust

-----------------------------------------------------------------------------
LEMMA TrustCarried ==
  ASSUME TrustIsKept, CarriedWithTrust, UNCHANGED granted
  PROVE  TrustIsKept'
<1> SUFFICES ASSUME NEW s \in granted
             PROVE  \E d \in DOMAIN devices' : SerialOf(devices'[d]) = {s} /\ devices'[d].trusted
  BY DEF TrustIsKept
<1>1. PICK k \in DOMAIN devices : SerialOf(devices[k]) = {s} /\ devices[k].trusted
  BY DEF TrustIsKept
<1>2. PICK j \in DOMAIN devices' :
        Carries(devices[k], devices'[j]) /\ devices'[j].trusted = devices[k].trusted
  BY DEF CarriedWithTrust
<1>3. SerialOf(devices'[j]) = {s} /\ devices'[j].trusted
  BY <1>1, <1>2 DEF SerialOf, Carries
<1> QED
  BY <1>3

(* The log grows by one entry; the older entries are what they were.        *)
LEMMA LogGrows ==
  ASSUME Typed, NEW e \in Event, NEW derived \in {"none", "FIRST_SEEN", "KNOWN_DEVICE"},
         NEW changed \in SUBSET Compared, Record(e, derived, changed)
  PROVE  /\ log' \in Seq(LogEntry)
         /\ Len(log') = Len(log) + 1 /\ Len(log') <= MaxObserved /\ Len(log) \in Nat
         /\ \A i \in 1 .. Len(log) : log'[i] = log[i]
         /\ log'[Len(log) + 1] = [event |-> e, derived |-> derived, changed |-> changed]
<1>1. [event |-> e, derived |-> derived, changed |-> changed] \in LogEntry
  BY DEF LogEntry
<1> QED
  BY <1>1, InventoryAssumption DEF Typed, Record

(* What was reported first seen is remembered, also after this event.       *)
LEMMA RememberedKept ==
  ASSUME Typed, Remembered, CarriedWithTrust,
         NEW e \in Event, NEW derived \in {"none", "FIRST_SEEN", "KNOWN_DEVICE"},
         NEW changed \in SUBSET Compared, Record(e, derived, changed),
         derived = "FIRST_SEEN" => \E j \in DOMAIN devices' : Bears(devices'[j], e)
  PROVE  Remembered'
<1>0. /\ Len(log') = Len(log) + 1 /\ Len(log) \in Nat
      /\ \A n \in 1 .. Len(log) : log'[n] = log[n]
      /\ log'[Len(log) + 1] = [event |-> e, derived |-> derived, changed |-> changed]
  BY LogGrows
<1> SUFFICES ASSUME NEW i \in 1 .. Len(log'), log'[i].derived = "FIRST_SEEN"
             PROVE  \E j \in DOMAIN devices' : Bears(devices'[j], log'[i].event)
  BY DEF Remembered, HasRecord
<1>1. CASE i \in 1 .. Len(log)
  <2>1. log'[i] = log[i]
    BY <1>0, <1>1
  <2>2. PICK k \in DOMAIN devices : Bears(devices[k], log[i].event)
    BY <1>1, <2>1 DEF Remembered, HasRecord
  <2>3. PICK j \in DOMAIN devices' : Carries(devices[k], devices'[j])
    BY DEF CarriedWithTrust
  <2> QED
    BY <2>1, <2>2, <2>3 DEF Carries, Bears
<1>2. CASE i = Len(log) + 1
  BY <1>0, <1>2
<1> QED
  BY <1>0, <1>1, <1>2

(* A connect that names what has a record is no first sighting.             *)
LEMMA FirstSeenKept ==
  ASSUME Typed, Remembered, FirstSeenOnce,
         NEW e \in Event, NEW derived \in {"none", "FIRST_SEEN", "KNOWN_DEVICE"},
         NEW changed \in SUBSET Compared, Record(e, derived, changed),
         e.type = "CONNECT" => \A g \in Event : Named(g, e) /\ HasRecord(g)
                                                  => derived = "KNOWN_DEVICE"
  PROVE  FirstSeenOnce'
<1>0. /\ Len(log') = Len(log) + 1 /\ Len(log) \in Nat
      /\ \A n \in 1 .. Len(log) : log'[n] = log[n]
      /\ log'[Len(log) + 1] = [event |-> e, derived |-> derived, changed |-> changed]
  BY LogGrows
<1> SUFFICES ASSUME NEW i \in 1 .. Len(log'), NEW j \in 1 .. Len(log'), i < j,
                    log'[i].derived = "FIRST_SEEN", log'[j].event.type = "CONNECT",
                    Named(log'[i].event, log'[j].event)
             PROVE  log'[j].derived = "KNOWN_DEVICE"
  BY DEF FirstSeenOnce
<1>1. i \in 1 .. Len(log) /\ log'[i] = log[i]
  BY <1>0
<1>2. CASE j \in 1 .. Len(log)
  <2>1. log'[j] = log[j]
    BY <1>0, <1>2
  <2> QED
    BY <1>1, <1>2, <2>1 DEF FirstSeenOnce
<1>3. CASE j = Len(log) + 1
  <2>0. log[i] \in LogEntry
    BY <1>1 DEF Typed
  <2>1. HasRecord(log[i].event) /\ log[i].event \in Event
    BY <1>1, <2>0 DEF Remembered, LogEntry
  <2>2. log'[j].event = e /\ log'[j].derived = derived
    BY <1>0, <1>3
  <2> QED
    BY <1>1, <2>1, <2>2
<1> QED
  BY <1>0, <1>2, <1>3

(* The record an event is paired with knows no other serial and no other    *)
(* VID:PID.                                                                 *)
LEMMA FoundUnchanged ==
  ASSUME Typed, Fits, NEW e \in Event, HasIdentity(e), NEW d \in Find(e)
  PROVE  Changed(devices[d], e) \subseteq Descriptive
<1> DEFINE r == devices[d]
<1>1. /\ d \in DOMAIN devices
      /\ e.vidpid # None => r.vidpid \in {None, e.vidpid}
      /\ e.vidpid # None /\ e.serial # None => r.serial \in {None, e.serial}
      /\ e.vidpid = None /\ e.pnp # None => r.pnp = e.pnp
  BY FoundAgrees
<1>2. PnpFits(r)
  BY <1>1 DEF Fits
<1>3. e.serial # None => e.vidpid # None \/ e.pnp # None
  BY InventoryAssumption
<1> HIDE DEF r
<1>4. e.serial = None \/ r.serial = None \/ e.serial = r.serial
  BY <1>1, <1>2, <1>3 DEF PnpFits
<1>5. e.vidpid = None \/ r.vidpid = None \/ e.vidpid = r.vidpid
  BY <1>1
<1>6. ASSUME NEW f \in Changed(r, e)
      PROVE  f \in Descriptive
  BY <1>4, <1>5, <1>6 DEF Changed, Compared
<1> QED
  BY <1>6 DEF r

LEMMA IdsNeverChangeKept ==
  ASSUME Typed, IdsNeverChange,
         NEW e \in Event, NEW derived \in {"none", "FIRST_SEEN", "KNOWN_DEVICE"},
         NEW changed \in SUBSET Compared, Record(e, derived, changed),
         changed \subseteq Descriptive
  PROVE  IdsNeverChange'
<1>1. /\ Len(log') = Len(log) + 1 /\ Len(log) \in Nat
      /\ \A n \in 1 .. Len(log) : log'[n] = log[n]
      /\ log'[Len(log) + 1] = [event |-> e, derived |-> derived, changed |-> changed]
  BY LogGrows
<1>2. ASSUME NEW i \in 1 .. Len(log')
      PROVE  log'[i].changed \subseteq Descriptive
  <2>1. CASE i \in 1 .. Len(log)
    BY <1>1, <2>1 DEF IdsNeverChange
  <2>2. CASE i = Len(log) + 1
    BY <1>1, <2>2
  <2> QED
    BY <1>1, <2>1, <2>2
<1> QED
  BY <1>2 DEF IdsNeverChange

(* SetTrusted and UpdateRisk change neither keys nor identifying fields.    *)
LEMMA AnnotateKeeps ==
  ASSUME Typed, Fits, NEW d \in DOMAIN devices, NEW r \in DeviceRecord,
         devices' = [devices EXCEPT ![d] = r],
         r.vidpid = devices[d].vidpid, r.serial = devices[d].serial, r.pnp = devices[d].pnp
  PROVE  /\ TypedDevices' /\ Fits'
         /\ DOMAIN devices' = DOMAIN devices
         /\ \A k \in DOMAIN devices : Carries(devices[k], devices'[k])
<1>1. /\ DOMAIN devices' = DOMAIN devices
      /\ \A k \in DOMAIN devices : devices'[k] = IF k = d THEN r ELSE devices[k]
  BY DEF Typed
<1>2. devices' \in [DOMAIN devices -> DeviceRecord]
  BY DEF Typed
<1>3. TypedDevices'
  BY <1>1, <1>2 DEF Typed, TypedDevices
<1>4. ASSUME NEW k \in DOMAIN devices
      PROVE  /\ devices'[k].vidpid = devices[k].vidpid
             /\ devices'[k].serial = devices[k].serial
             /\ devices'[k].pnp = devices[k].pnp
  BY <1>1
<1>5. Fits'
  BY <1>1, <1>4 DEF Fits, KeyFits, PnpFits
<1> QED
  BY <1>1, <1>3, <1>4, <1>5 DEF Carries

LEMMA OperateKeeps ==
  ASSUME IInv, NEW d \in DOMAIN devices, NEW r \in DeviceRecord,
         devices' = [devices EXCEPT ![d] = r], UNCHANGED log,
         r.vidpid = devices[d].vidpid, r.serial = devices[d].serial, r.pnp = devices[d].pnp
  PROVE  Typed' /\ Fits' /\ Remembered' /\ FirstSeenOnce' /\ IdsNeverChange'
<1>1. /\ TypedDevices' /\ Fits' /\ DOMAIN devices' = DOMAIN devices
      /\ \A k \in DOMAIN devices : Carries(devices[k], devices'[k])
  BY AnnotateKeeps DEF IInv
<1>2. Typed' /\ FirstSeenOnce' /\ IdsNeverChange'
  BY <1>1 DEF IInv, Typed, TypedDevices, FirstSeenOnce, IdsNeverChange
<1>3. Remembered'
  <2> SUFFICES ASSUME NEW i \in 1 .. Len(log), log[i].derived = "FIRST_SEEN"
               PROVE  \E j \in DOMAIN devices' : Bears(devices'[j], log[i].event)
    BY DEF Remembered, HasRecord
  <2>1. PICK k \in DOMAIN devices : Bears(devices[k], log[i].event)
    BY DEF IInv, Remembered, HasRecord
  <2> QED
    BY <1>1, <2>1 DEF Carries, Bears
<1> QED
  BY <1>1, <1>2, <1>3

LEMMA SetTrustedKeeps ==
  ASSUME IInv, NEW d \in DOMAIN devices, NEW t \in BOOLEAN, SetTrusted(d, t)
  PROVE  IInv'
<1> DEFINE r == [devices[d] EXCEPT !.trusted = t]
<1>1. /\ r \in DeviceRecord /\ r.trusted = t
      /\ r.vidpid = devices[d].vidpid /\ r.serial = devices[d].serial /\ r.pnp = devices[d].pnp
  BY DEF IInv, Typed, DeviceRecord
<1>2. devices' = [devices EXCEPT ![d] = r] /\ UNCHANGED log
  BY DEF SetTrusted
<1> HIDE DEF r
<1>3. Typed' /\ Fits' /\ Remembered' /\ FirstSeenOnce' /\ IdsNeverChange'
  BY <1>1, <1>2, OperateKeeps
<1>4. TrustIsKept'
  <2> SUFFICES ASSUME NEW s \in granted'
               PROVE  \E k \in DOMAIN devices' : SerialOf(devices'[k]) = {s} /\ devices'[k].trusted
    BY DEF TrustIsKept
  <2>1. /\ DOMAIN devices' = DOMAIN devices /\ devices'[d] = r
        /\ \A k \in DOMAIN devices \ {d} : devices'[k] = devices[k]
        /\ SerialOf(r) = SerialOf(devices[d])
    BY <1>1, <1>2 DEF IInv, Typed, SerialOf
  <2>2. CASE t /\ s \in SerialOf(devices[d])
    BY <1>1, <2>1, <2>2 DEF SerialOf
  <2>3. CASE s \in granted /\ (t \/ s \notin SerialOf(devices[d]))
    <3>1. PICK k \in DOMAIN devices : SerialOf(devices[k]) = {s} /\ devices[k].trusted
      BY <2>3 DEF IInv, TrustIsKept
    <3>2. CASE k = d
      BY <1>1, <2>1, <2>3, <3>1, <3>2
    <3>3. CASE k # d
      BY <2>1, <3>1, <3>3
    <3> QED
      BY <3>2, <3>3
  <2> QED
    BY <2>2, <2>3 DEF SetTrusted
<1> QED
  BY <1>3, <1>4 DEF IInv

LEMMA UpdateRiskKeeps ==
  ASSUME IInv, NEW d \in DOMAIN devices, NEW l \in Level, UpdateRisk(d, l)
  PROVE  IInv'
<1> DEFINE r == [devices[d] EXCEPT !.risk = l]
<1>1. /\ r \in DeviceRecord /\ r.trusted = devices[d].trusted
      /\ r.vidpid = devices[d].vidpid /\ r.serial = devices[d].serial /\ r.pnp = devices[d].pnp
  BY DEF IInv, Typed, DeviceRecord
<1>2. devices' = [devices EXCEPT ![d] = r] /\ UNCHANGED <<log, granted>>
  BY DEF UpdateRisk
<1> HIDE DEF r
<1>3. Typed' /\ Fits' /\ Remembered' /\ FirstSeenOnce' /\ IdsNeverChange'
  BY <1>1, <1>2, OperateKeeps
<1>4. CarriedWithTrust
  BY <1>1, <1>2 DEF IInv, Typed, CarriedWithTrust, Carries
<1>5. TrustIsKept'
  BY <1>2, <1>4, TrustCarried DEF IInv
<1> QED
  BY <1>3, <1>5 DEF IInv

(* An event that names what has a record finds a record.                    *)
LEMMA NamedIsFound ==
  ASSUME Typed, NEW e \in Event, NEW g \in Event, Named(g, e), HasRecord(g)
  PROVE  Find(e) # {}
<1>1. PICK d \in DOMAIN devices : Bears(devices[d], g)
  BY DEF HasRecord
<1>2. SameSerial(d, e) \/ SamePnp(d, e)
  BY <1>1 DEF Named, Bears, SameSerial, SamePnp
<1> QED
  BY <1>1, <1>2 DEF Find

LEMMA ObserveKeeps ==
  ASSUME IInv, NEW e \in Event, Observe(e)
  PROVE  IInv'
<1>0. {} \in SUBSET Compared /\ {} \subseteq Descriptive
  OBVIOUS
<1>1. CASE ObserveNothing(e)
  <2>1. Record(e, "none", {}) /\ UNCHANGED devices
    BY <1>1 DEF ObserveNothing
  <2>2. CarriedWithTrust
    BY <2>1 DEF CarriedWithTrust, Carries
  <2>3. e.type = "CONNECT" => e.vidpid = None /\ e.pnp = None
    BY <1>1, InventoryAssumption DEF ObserveNothing, HasIdentity
  <2>4. FirstSeenOnce'
    <3>1. e.type = "CONNECT" => \A g \in Event : ~Named(g, e)
      BY <2>3 DEF Named
    <3> QED
      BY <1>0, <2>1, <3>1, FirstSeenKept DEF IInv
  <2>5. Remembered' /\ IdsNeverChange'
    BY <1>0, <2>1, <2>2, RememberedKept, IdsNeverChangeKept DEF IInv
  <2>6. Typed' /\ Fits'
    BY <1>0, <2>1, LogGrows DEF IInv, Typed, Fits
  <2>7. TrustIsKept'
    BY <2>1, <2>2, TrustCarried DEF IInv, Record
  <2> QED
    BY <2>4, <2>5, <2>6, <2>7 DEF IInv
<1>2. CASE ObserveFirst(e)
  <2>1. /\ HasIdentity(e) /\ Find(e) = {} /\ StoreNew(e)
        /\ Record(e, "FIRST_SEEN", {}) /\ Len(log) < MaxObserved
    BY <1>2 DEF ObserveFirst, Record
  <2>2. /\ TypedDevices' /\ Fits' /\ CarriedWithTrust
        /\ \E j \in DOMAIN devices' : Bears(devices'[j], e)
    BY <2>1, StoreNewKeeps DEF IInv
  <2>3. \A g \in Event : ~(Named(g, e) /\ HasRecord(g))
    BY <2>1, NamedIsFound DEF IInv
  <2>4. FirstSeenOnce'
    BY <1>0, <2>1, <2>3, FirstSeenKept DEF IInv
  <2>5. Remembered' /\ IdsNeverChange'
    BY <1>0, <2>1, <2>2, RememberedKept, IdsNeverChangeKept DEF IInv
  <2>6. Typed'
    BY <1>0, <2>1, <2>2, LogGrows DEF IInv, Typed, TypedDevices
  <2>7. TrustIsKept'
    BY <2>1, <2>2, TrustCarried DEF IInv, Record
  <2> QED
    BY <2>2, <2>4, <2>5, <2>6, <2>7 DEF IInv
<1>3. CASE ObserveKnown(e)
  <2> DEFINE derived == IF e.type = "CONNECT" THEN "KNOWN_DEVICE" ELSE "none"
  <2>1. PICK d \in Find(e) : Store(d, e) /\ Record(e, derived, Changed(devices[d], e))
    BY <1>3 DEF ObserveKnown
  <2> DEFINE changed == Changed(devices[d], e)
  <2>2. /\ HasIdentity(e) /\ Record(e, derived, changed) /\ Len(log) < MaxObserved
        /\ derived \in {"none", "FIRST_SEEN", "KNOWN_DEVICE"} /\ derived # "FIRST_SEEN"
        /\ e.type = "CONNECT" => derived = "KNOWN_DEVICE"
    BY <1>3, <2>1 DEF ObserveKnown, Record
  <2>3. changed \in SUBSET Compared /\ changed \subseteq Descriptive
    BY <2>1, <2>2, FoundUnchanged DEF IInv, Changed
  <2> HIDE DEF derived, changed
  <2>4. TypedDevices' /\ Fits' /\ CarriedWithTrust
    BY <2>1, <2>2, StoreKeeps DEF IInv
  <2>5. FirstSeenOnce'
    BY <2>2, <2>3, FirstSeenKept DEF IInv
  <2>6. Remembered' /\ IdsNeverChange'
    BY <2>2, <2>3, <2>4, RememberedKept, IdsNeverChangeKept DEF IInv
  <2>7. Typed'
    BY <2>2, <2>3, <2>4, LogGrows DEF IInv, Typed, TypedDevices
  <2>8. TrustIsKept'
    BY <2>2, <2>4, TrustCarried DEF IInv, Record
  <2> QED
    BY <2>4, <2>5, <2>6, <2>7, <2>8 DEF IInv
<1> QED
  BY <1>1, <1>2, <1>3 DEF Observe

THEOREM Inductive == Spec => []IInv
<1>1. Init => IInv
  <2> SUFFICES ASSUME Init PROVE IInv
    OBVIOUS
  <2>1. Typed
    BY InventoryAssumption DEF Init, Typed
  <2>2. Fits /\ Remembered /\ FirstSeenOnce /\ IdsNeverChange /\ TrustIsKept
    BY DEF Init, Fits, Remembered, FirstSeenOnce, IdsNeverChange, TrustIsKept
  <2> QED
    BY <2>1, <2>2 DEF IInv
<1>2. IInv /\ [Next]_vars => IInv'
  <2> SUFFICES ASSUME IInv, [Next]_vars PROVE IInv'
    OBVIOUS
  <2>1. CASE \E e \in Event : Observe(e)
    BY <2>1, ObserveKeeps
  <2>2. CASE Operate
    BY <2>2, SetTrustedKeeps, UpdateRiskKeeps DEF Operate
  <2>3. CASE UNCHANGED vars
    BY <2>3 DEF vars, IInv, Typed, Fits, Remembered, HasRecord, FirstSeenOnce,
                        IdsNeverChange, TrustIsKept
  <2> QED
    BY <2>1, <2>2, <2>3 DEF Next
<1> QED
  BY <1>1, <1>2, PTL DEF Spec

(* Types.                                                                   *)
THEOREM TypeCorrect == Spec => []TypeOK
<1>1. IInv => TypeOK
  BY DEF IInv, Typed, TypeOK
<1> QED
  BY <1>1, Inductive, PTL

(* docs/HARDWARE.md's "not a second first-seen of the same serial", however *)
(* the record moved between keys since.                                     *)
THEOREM SerialFirstSeenOnce == Spec => []FirstSeenOnce
<1>1. IInv => FirstSeenOnce
  BY DEF IInv
<1> QED
  BY <1>1, Inductive, PTL

(* A device is never paired with the record of another serial or VID:PID.   *)
THEOREM PairedWithItsRecord == Spec => []IdsNeverChange
<1>1. IInv => IdsNeverChange
  BY DEF IInv
<1> QED
  BY <1>1, Inductive, PTL

(* A serial's trust survives every merge and every change of key.           *)
THEOREM TrustSurvives == Spec => []TrustIsKept
<1>1. IInv => TrustIsKept
  BY DEF IInv
<1> QED
  BY <1>1, Inductive, PTL

(* A record under a serial's key is the record of that serial: trust and    *)
(* history looked up by device_id belong to the device that id names.       *)
KeyNamesItsRecord ==
  \A v \in Value("vidpid"), s \in Value("serial") :
    LET d == <<"serial", v, s>>
    IN  d \in DOMAIN devices => devices[d].vidpid = v /\ devices[d].serial = s

(* What is stored under a serial's key is that serial's record.             *)
THEOREM KeysNameRecords == Spec => []KeyNamesItsRecord
<1>1. IInv => KeyNamesItsRecord
  BY DEF IInv, Fits, KeyFits, KeyNamesItsRecord
<1> QED
  BY <1>1, Inductive, PTL

-----------------------------------------------------------------------------
(* The connects counted in the records are the identified ones of the log,  *)
(* each in one record, which has its VID:PID and, with it, its serial.      *)
Matches(r, e) ==
  e.vidpid # None => /\ r.vidpid = e.vidpid
                     /\ e.serial # None => r.serial = e.serial
Counted ==
  /\ \A d \in DOMAIN devices : \A i \in devices[d].connects :
       i \in 1 .. Len(log) /\ Matches(devices[d], log[i].event)
  /\ \A d, k \in DOMAIN devices : d # k => devices[d].connects \cap devices[k].connects = {}
  /\ \A i \in 1 .. Len(log) :
       log[i].event.type = "CONNECT" /\ HasIdentity(log[i].event) =>
         \E d \in DOMAIN devices : i \in devices[d].connects

LEMMA SeenConnects ==
  ASSUME NEW r \in DeviceRecord, NEW e \in Event
  PROVE  Seen(Merge(r, e), e).connects =
           IF e.type = "CONNECT" THEN r.connects \cup {Len(log) + 1} ELSE r.connects
<1>1. Merge(r, e).connects = r.connects /\ Merge(r, e) = [Merge(r, e) EXCEPT !.connects = @]
  BY DEF Merge, DeviceRecord
<1>2. [Merge(r, e) EXCEPT !.connects = @ \cup {Len(log) + 1}].connects
        = r.connects \cup {Len(log) + 1}
  BY <1>1 DEF Merge, DeviceRecord
<1> QED
  BY <1>1, <1>2 DEF Seen

(* A record that takes the place of at most one, under a key of its own,    *)
(* with that one's connects and perhaps the new one.                        *)
LEMMA PutCounts ==
  ASSUME Typed, Counted, NEW e \in Event, NEW id, NEW m, NEW old, NEW rest,
         rest \subseteq DOMAIN devices, id \notin rest, Put(id, m, rest),
         \/ rest = DOMAIN devices /\ old = {}
         \/ \E d \in DOMAIN devices : rest = DOMAIN devices \ {d} /\ old = devices[d].connects,
         m.connects = IF e.type = "CONNECT" THEN old \cup {Len(log) + 1} ELSE old,
         Matches(m, e), \A i \in old : Matches(m, log[i].event),
         Len(log') = Len(log) + 1, Len(log) \in Nat,
         \A i \in 1 .. Len(log) : log'[i] = log[i],
         log'[Len(log) + 1].event = e
  PROVE  Counted'
<1>1. /\ DOMAIN devices' = rest \cup {id}
      /\ devices'[id] = m
      /\ \A k \in rest : devices'[k] = devices[k]
  BY DEF Put
<1>2. /\ \A k \in rest : old \cap devices[k].connects = {}
      /\ old \subseteq 1 .. Len(log)
      /\ \A k \in DOMAIN devices : k \in rest \/ devices[k].connects = old
  BY DEF Counted
<1>3. ASSUME NEW k \in DOMAIN devices', NEW i \in devices'[k].connects
      PROVE  i \in 1 .. Len(log') /\ Matches(devices'[k], log'[i].event)
  <2>1. CASE k \in rest
    <3>1. i \in devices[k].connects /\ k \in DOMAIN devices
      BY <1>1, <1>3, <2>1
    <3>2. i \in 1 .. Len(log) /\ Matches(devices[k], log[i].event)
      BY <3>1 DEF Counted
    <3> QED
      BY <1>1, <2>1, <3>2
  <2>2. CASE k = id /\ i \in old
    <3>1. log'[i] = log[i] /\ i \in 1 .. Len(log')
      BY <1>2, <2>2
    <3> QED
      BY <1>1, <2>2, <3>1
  <2>3. CASE k = id /\ i = Len(log) + 1
    BY <1>1, <2>3
  <2> QED
    BY <1>1, <1>3, <2>1, <2>2, <2>3
<1>4. \A k \in rest : m.connects \cap devices[k].connects = {}
  <2>1. \A k \in rest : Len(log) + 1 \notin devices[k].connects
    BY DEF Counted
  <2> QED
    BY <1>2, <2>1
<1>5. \A d, k \in DOMAIN devices' : d # k => devices'[d].connects \cap devices'[k].connects = {}
  BY <1>1, <1>4 DEF Counted
<1>6. ASSUME NEW i \in 1 .. Len(log'), log'[i].event.type = "CONNECT", HasIdentity(log'[i].event)
      PROVE  \E d \in DOMAIN devices' : i \in devices'[d].connects
  <2>1. CASE i = Len(log) + 1
    BY <1>1, <1>6, <2>1
  <2>2. CASE i \in 1 .. Len(log)
    <3>1. PICK d \in DOMAIN devices : i \in devices[d].connects
      BY <1>6, <2>2 DEF Counted
    <3>2. CASE d \in rest
      BY <1>1, <3>1, <3>2
    <3>3. CASE devices[d].connects = old
      BY <1>1, <3>1, <3>3
    <3> QED
      BY <1>2, <3>2, <3>3
  <2> QED
    BY <2>1, <2>2
<1> QED
  BY <1>3, <1>5, <1>6 DEF Counted

LEMMA LogGrowsBy ==
  ASSUME Typed, NEW e \in Event, NEW derived \in {"none", "FIRST_SEEN", "KNOWN_DEVICE"},
         NEW changed \in SUBSET Compared, Record(e, derived, changed)
  PROVE  /\ Len(log') = Len(log) + 1 /\ Len(log) \in Nat
         /\ \A i \in 1 .. Len(log) : log'[i] = log[i]
         /\ log'[Len(log) + 1].event = e
<1>1. log'[Len(log) + 1] = [event |-> e, derived |-> derived, changed |-> changed]
  BY LogGrows
<1>2. log'[Len(log) + 1].event = e
  BY <1>1
<1> QED
  BY <1>2, LogGrows

LEMMA ObserveCounts ==
  ASSUME IInv, Counted, NEW e \in Event, Observe(e)
  PROVE  Counted'
<1>0. Typed /\ Fits /\ {} \in SUBSET Compared
  BY DEF IInv
<1>1. CASE ObserveNothing(e)
  <2>1. Record(e, "none", {}) /\ devices' = devices
        /\ ~(e.type = "CONNECT" /\ HasIdentity(e))
    BY <1>1 DEF ObserveNothing
  <2>2. /\ Len(log') = Len(log) + 1 /\ Len(log) \in Nat
        /\ \A i \in 1 .. Len(log) : log'[i] = log[i]
        /\ log'[Len(log) + 1].event = e
    BY <1>0, <2>1, LogGrowsBy
  <2>3. \A i \in 1 .. Len(log') : i \in 1 .. Len(log) \/ i = Len(log) + 1
    BY <2>2
  <2>4. \A i \in 1 .. Len(log) : i \in 1 .. Len(log')
    BY <2>2
  <2> QED
    BY <2>1, <2>2, <2>3, <2>4 DEF Counted
<1>2. CASE ObserveFirst(e)
  <2> DEFINE m == Seen(Merge(NewDevice, e), e)
  <2>1. /\ HasIdentity(e) /\ Find(e) = {} /\ StoreNew(e) /\ e.type = "CONNECT"
        /\ Record(e, "FIRST_SEEN", {}) /\ Len(log) < MaxObserved
    BY <1>2 DEF ObserveFirst, Record
  <2>2. /\ Len(log') = Len(log) + 1 /\ Len(log) \in Nat
        /\ \A i \in 1 .. Len(log) : log'[i] = log[i]
        /\ log'[Len(log) + 1].event = e
    BY <1>0, <2>1, LogGrowsBy
  <2>3. Identity(e) \notin DOMAIN devices /\ Put(Identity(e), m, DOMAIN devices)
    BY <2>1 DEF Find, StoreNew
  <2>4. m.connects = {Len(log) + 1} /\ m.vidpid = e.vidpid /\ m.serial = e.serial
    BY <1>0, <2>1, NewIsRecord, SeenConnects, MergeFields DEF NewDevice, FirstOf
  <2> HIDE DEF m
  <2>5. Matches(m, e)
    BY <2>4 DEF Matches
  <2> DEFINE old == {}
             rest == DOMAIN devices
  <2>6. /\ m.connects = IF e.type = "CONNECT" THEN old \cup {Len(log) + 1} ELSE old
        /\ \A i \in old : Matches(m, log[i].event)
        /\ rest = DOMAIN devices /\ old = {}
        /\ rest \subseteq DOMAIN devices /\ Identity(e) \notin rest /\ Put(Identity(e), m, rest)
    BY <2>1, <2>3, <2>4
  <2> HIDE DEF old, rest
  <2> QED
    BY <1>0, <2>2, <2>5, <2>6, PutCounts
<1>3. CASE ObserveKnown(e)
  <2>1. PICK d \in Find(e) : /\ Store(d, e)
                             /\ Record(e, IF e.type = "CONNECT" THEN "KNOWN_DEVICE" ELSE "none",
                                       Changed(devices[d], e))
    BY <1>3 DEF ObserveKnown
  <2>2. HasIdentity(e) /\ Len(log) < MaxObserved
    BY <1>3, <2>1 DEF ObserveKnown, Record
  <2> DEFINE r == devices[d]
             m == Seen(Merge(r, e), e)
             rest == DOMAIN devices \ {d}
  <2>3. /\ d \in DOMAIN devices /\ r \in DeviceRecord
        /\ Identity(e) \in DOMAIN devices => d = Identity(e)
        /\ e.vidpid # None => r.vidpid \in {None, e.vidpid}
        /\ e.vidpid # None /\ e.serial # None => r.serial \in {None, e.serial}
    BY <1>0, <2>1, <2>2, FoundAgrees
  <2>4. /\ Len(log') = Len(log) + 1 /\ Len(log) \in Nat
        /\ \A i \in 1 .. Len(log) : log'[i] = log[i]
        /\ log'[Len(log) + 1].event = e
    <3>1. Changed(devices[d], e) \in SUBSET Compared
      BY DEF Changed
    <3>2. PICK derived \in {"none", "FIRST_SEEN", "KNOWN_DEVICE"} :
            Record(e, derived, Changed(devices[d], e))
      BY <2>1
    <3> QED
      BY <1>0, <3>1, <3>2, LogGrowsBy
  <2>5. /\ m.vidpid = FirstOf(r.vidpid, e.vidpid) /\ m.serial = FirstOf(r.serial, e.serial)
        /\ m.connects = IF e.type = "CONNECT" THEN r.connects \cup {Len(log) + 1} ELSE r.connects
    BY <1>0, <2>2, <2>3, SeenConnects, MergeFields
  <2>6. Put(Identity(e), m, rest) /\ Identity(e) \notin rest /\ rest \subseteq DOMAIN devices
    BY <2>1, <2>3 DEF Store
  <2> HIDE DEF m
  <2>7. Matches(m, e)
    BY <2>3, <2>5 DEF Matches, FirstOf
  <2>8. ASSUME NEW i \in r.connects PROVE Matches(m, log[i].event)
    BY <2>3, <2>5 DEF Counted, Matches, FirstOf
  <2>9. \E k \in DOMAIN devices : rest = DOMAIN devices \ {k} /\ r.connects = devices[k].connects
    BY <2>3
  <2> HIDE DEF r, rest
  <2> QED
    BY <1>0, <2>4, <2>5, <2>6, <2>7, <2>8, <2>9, PutCounts
<1> QED
  BY <1>1, <1>2, <1>3 DEF Observe

LEMMA OperateCounts ==
  ASSUME Typed, Counted, NEW d \in DOMAIN devices, NEW r,
         devices' = [devices EXCEPT ![d] = r], UNCHANGED log,
         r.vidpid = devices[d].vidpid, r.serial = devices[d].serial,
         r.connects = devices[d].connects
  PROVE  Counted'
<1>1. /\ DOMAIN devices' = DOMAIN devices
      /\ \A k \in DOMAIN devices : /\ devices'[k].vidpid = devices[k].vidpid
                                   /\ devices'[k].serial = devices[k].serial
                                   /\ devices'[k].connects = devices[k].connects
  BY DEF Typed
<1> QED
  BY <1>1 DEF Counted, Matches

LEMMA AlwaysCounted == Spec => []Counted
<1>1. Init => Counted
  BY DEF Init, Counted
<1>2. IInv /\ Counted /\ [Next]_vars => Counted'
  <2> SUFFICES ASSUME IInv, Counted, [Next]_vars PROVE Counted'
    OBVIOUS
  <2>1. CASE \E e \in Event : Observe(e)
    BY <2>1, ObserveCounts
  <2>2. ASSUME NEW d \in DOMAIN devices, NEW t \in BOOLEAN, SetTrusted(d, t) PROVE Counted'
    <3> DEFINE r == [devices[d] EXCEPT !.trusted = t]
    <3>1. /\ devices' = [devices EXCEPT ![d] = r] /\ UNCHANGED log
          /\ r.vidpid = devices[d].vidpid /\ r.serial = devices[d].serial
          /\ r.connects = devices[d].connects
      BY <2>2 DEF SetTrusted, IInv, Typed, DeviceRecord
    <3> QED
      BY <3>1, OperateCounts DEF IInv
  <2>3. ASSUME NEW d \in DOMAIN devices, NEW l \in Level, UpdateRisk(d, l) PROVE Counted'
    <3> DEFINE r == [devices[d] EXCEPT !.risk = l]
    <3>1. /\ devices' = [devices EXCEPT ![d] = r] /\ UNCHANGED log
          /\ r.vidpid = devices[d].vidpid /\ r.serial = devices[d].serial
          /\ r.connects = devices[d].connects
      BY <2>3 DEF UpdateRisk, IInv, Typed, DeviceRecord
    <3> QED
      BY <3>1, OperateCounts DEF IInv
  <2>4. CASE UNCHANGED vars
    BY <2>4 DEF vars, Counted
  <2> QED
    BY <2>1, <2>2, <2>3, <2>4 DEF Next, Operate
<1> QED
  BY <1>1, <1>2, Inductive, PTL DEF Spec

(* connection_count: no merge and no change of key loses or doubles a       *)
(* CONNECT.                                                                 *)
THEOREM ConnectsAreCounted == Spec => []EveryConnectCountedOnce
<1>1. Counted => EveryConnectCountedOnce
  <2> SUFFICES ASSUME Counted, NEW i \in 1 .. Len(log),
                      log[i].event.type = "CONNECT", HasIdentity(log[i].event)
               PROVE  Cardinality({d \in DOMAIN devices : i \in devices[d].connects}) = 1
    BY DEF EveryConnectCountedOnce
  <2>1. PICK d \in DOMAIN devices : i \in devices[d].connects
    BY DEF Counted
  <2>2. {k \in DOMAIN devices : i \in devices[k].connects} = {d}
    BY <2>1 DEF Counted
  <2> QED
    BY <2>2, FS_Singleton
<1> QED
  BY <1>1, AlwaysCounted, PTL

(* docs/ARCHITECTURE.md: "different USB serials stay separate even if       *)
(* VID/PID match", in the baseline.                                         *)
THEOREM SerialsAreApart == Spec => []SerialsStaySeparate
<1>1. Counted => SerialsStaySeparate
  BY DEF Counted, Matches, SerialsStaySeparate
<1> QED
  BY <1>1, AlwaysCounted, PTL

-----------------------------------------------------------------------------
(* Where the description of a record comes from: an event of its device.    *)
BelongsTo(e, d) ==
  /\ e.vidpid # None => devices[d].vidpid = e.vidpid
  /\ e.serial # None => devices[d].serial = e.serial
  /\ IF Unnamed(e) THEN Identity(e) = d /\ Unnamed(devices[d]) ELSE ~Unnamed(devices[d])
Sourced ==
  \A d \in DOMAIN devices : \A f \in Descriptive : devices[d][f] # None =>
    \E j \in 1 .. Len(log) : log[j].event[f] = devices[d][f] /\ BelongsTo(log[j].event, d)

(* An accusation contradicts what an earlier event said of the device.      *)
Contradicts(i, f) ==
  \E j \in 1 .. i : /\ log[j].event[f] \notin {None, log[i].event[f]}
                    /\ OfOneDevice(log[j].event, log[i].event)
AccusedByItsOwn ==
  \A i \in 1 .. Len(log) : \A f \in log[i].changed :
    /\ log[i].event[f] # None /\ Contradicts(i, f)
    /\ f = "removable" => log[i].event.removable = TRUE

LEMMA MergeDescribes ==
  ASSUME NEW r \in DeviceRecord, NEW e \in Event, NEW f \in Descriptive
  PROVE  Seen(Merge(r, e), e)[f] = FirstOf(r[f], e[f])
<1>1. Merge(r, e)[f] = FirstOf(r[f], e[f])
  BY DEF Merge, DeviceRecord, Descriptive
<1>2. [Merge(r, e) EXCEPT !.connects = @ \cup {Len(log) + 1}][f] = Merge(r, e)[f]
  BY DEF Merge, DeviceRecord, Descriptive
<1> QED
  BY <1>1, <1>2 DEF Seen

(* The event that finds a record and the record name one device.            *)
LEMMA FoundIsOwn ==
  ASSUME Typed, Fits, NEW e \in Event, HasIdentity(e), NEW d \in Find(e)
  PROVE  /\ e.vidpid # None => devices[d].vidpid \in {None, e.vidpid}
         /\ e.serial # None => devices[d].serial \in {None, e.serial}
         /\ IF Unnamed(e) THEN Identity(e) = d /\ Unnamed(devices[d]) ELSE ~Unnamed(devices[d])
<1> DEFINE r == devices[d]
<1>1. /\ d \in DOMAIN devices /\ r \in DeviceRecord
      /\ e.vidpid # None => r.vidpid \in {None, e.vidpid}
      /\ e.vidpid # None /\ e.serial # None => r.serial \in {None, e.serial}
      /\ e.vidpid = None /\ e.pnp # None => r.pnp = e.pnp
      /\ e.vidpid = None /\ e.pnp = None => r.vidpid = None /\ r.pnp = None
  BY FoundAgrees
<1>2. KeyFits(d, r) /\ PnpFits(r)
  BY <1>1 DEF Fits
<1>3. e.serial # None => e.vidpid # None \/ e.pnp # None
  BY InventoryAssumption
<1>4. d = Identity(e) \/ SameSerial(d, e) \/ SamePnp(d, e)
  BY DEF Find
<1>5. e.serial # None => r.serial \in {None, e.serial}
  BY <1>1, <1>2, <1>3 DEF PnpFits
<1>6. CASE Unnamed(e)
  BY <1>1, <1>4, <1>5, <1>6 DEF Unnamed, SameSerial, SamePnp
<1>7. CASE ~Unnamed(e)
  <2>1. ~Unnamed(r)
    <3>1. CASE d = Identity(e)
      BY <1>2, <1>7, <3>1 DEF Identity, KeyFits, Unnamed
    <3>2. CASE SameSerial(d, e) \/ SamePnp(d, e)
      BY <3>2 DEF SameSerial, SamePnp, Unnamed
    <3> QED
      BY <1>4, <3>1, <3>2
  <2> QED
    BY <1>1, <1>5, <1>7, <2>1
<1> QED
  BY <1>6, <1>7

(* What a record says that its event contradicts was said of this device.   *)
LEMMA ChangeIsSourced ==
  ASSUME Typed, Fits, Sourced, NEW e \in Event, HasIdentity(e), NEW d \in Find(e),
         NEW f \in Changed(devices[d], e)
  PROVE  /\ e[f] # None /\ (f = "removable" => e.removable = TRUE)
         /\ \E j \in 1 .. Len(log) : /\ log[j].event[f] \notin {None, e[f]}
                                     /\ OfOneDevice(log[j].event, e)
<1>1. d \in DOMAIN devices /\ f \in Descriptive
  BY FoundUnchanged DEF Find
<1>2. /\ devices[d][f] # None /\ e[f] # None /\ devices[d][f] # e[f]
      /\ f = "removable" => e.removable = TRUE
  BY DEF Changed
<1>3. PICK j \in 1 .. Len(log) : log[j].event[f] = devices[d][f] /\ BelongsTo(log[j].event, d)
  BY <1>1, <1>2 DEF Sourced
<1>4. OfOneDevice(log[j].event, e)
  BY <1>3, FoundIsOwn DEF BelongsTo, OfOneDevice
<1> QED
  BY <1>2, <1>3, <1>4

(* The log grows by an event that changes, at most, the record it finds.    *)
LEMMA AccusedKept ==
  ASSUME Typed, AccusedByItsOwn, NEW e \in Event, NEW changed,
         Len(log') = Len(log) + 1, Len(log) \in Nat,
         \A i \in 1 .. Len(log) : log'[i] = log[i],
         log'[Len(log) + 1].event = e, log'[Len(log) + 1].changed = changed,
         \A f \in changed :
           /\ e[f] # None /\ (f = "removable" => e.removable = TRUE)
           /\ \E j \in 1 .. Len(log) : /\ log[j].event[f] \notin {None, e[f]}
                                       /\ OfOneDevice(log[j].event, e)
  PROVE  AccusedByItsOwn'
<1> SUFFICES ASSUME NEW i \in 1 .. Len(log'), NEW f \in log'[i].changed
             PROVE  /\ log'[i].event[f] # None
                    /\ \E j \in 1 .. i : /\ log'[j].event[f] \notin {None, log'[i].event[f]}
                                         /\ OfOneDevice(log'[j].event, log'[i].event)
                    /\ f = "removable" => log'[i].event.removable = TRUE
  BY DEF AccusedByItsOwn, Contradicts
<1>1. CASE i \in 1 .. Len(log)
  <2>1. log'[i] = log[i] /\ f \in log[i].changed /\ \A j \in 1 .. i : log'[j] = log[j]
    BY <1>1
  <2>2. /\ log[i].event[f] # None /\ Contradicts(i, f)
        /\ f = "removable" => log[i].event.removable = TRUE
    BY <1>1, <2>1 DEF AccusedByItsOwn
  <2>3. PICK j \in 1 .. i : /\ log[j].event[f] \notin {None, log[i].event[f]}
                            /\ OfOneDevice(log[j].event, log[i].event)
    BY <2>2 DEF Contradicts
  <2>4. log'[j] = log[j]
    BY <2>1
  <2> QED
    BY <2>1, <2>2, <2>3, <2>4
<1>2. CASE i = Len(log) + 1
  <2>1. log'[i].event = e /\ f \in changed
    BY <1>2
  <2>2. PICK j \in 1 .. Len(log) :
          log[j].event[f] \notin {None, e[f]} /\ OfOneDevice(log[j].event, e)
    BY <2>1
  <2>3. j \in 1 .. i /\ log'[j] = log[j]
    BY <1>2
  <2> QED
    BY <2>1, <2>2, <2>3
<1>3. i \in 1 .. Len(log) \/ i = Len(log) + 1
  OBVIOUS
<1> QED
  BY <1>1, <1>2, <1>3

(* The record that is put, like the ones that stay, is of events of its own.*)
LEMMA PutSourced ==
  ASSUME Typed, Sourced, NEW e \in Event, NEW id, NEW m, NEW rest,
         rest \subseteq DOMAIN devices, id \notin rest, Put(id, m, rest),
         Len(log') = Len(log) + 1, Len(log) \in Nat,
         \A i \in 1 .. Len(log) : log'[i] = log[i],
         \A f \in Descriptive : m[f] # None =>
           \E j \in 1 .. Len(log') :
             /\ log'[j].event[f] = m[f]
             /\ log'[j].event.vidpid # None => m.vidpid = log'[j].event.vidpid
             /\ log'[j].event.serial # None => m.serial = log'[j].event.serial
             /\ IF Unnamed(log'[j].event) THEN Identity(log'[j].event) = id /\ Unnamed(m)
                ELSE ~Unnamed(m)
  PROVE  Sourced'
<1>1. /\ DOMAIN devices' = rest \cup {id}
      /\ devices'[id] = m
      /\ \A k \in rest : devices'[k] = devices[k]
  BY DEF Put
<1> SUFFICES ASSUME NEW d \in DOMAIN devices', NEW f \in Descriptive, devices'[d][f] # None
             PROVE  \E j \in 1 .. Len(log') : /\ log'[j].event[f] = devices'[d][f]
                                              /\ BelongsTo(log[j].event, d)'
  BY DEF Sourced
<1>2. CASE d = id
  BY <1>1, <1>2 DEF BelongsTo, Unnamed, Identity
<1>3. CASE d \in rest
  <2>1. devices'[d] = devices[d] /\ d \in DOMAIN devices
    BY <1>1, <1>3
  <2>2. PICK j \in 1 .. Len(log) : log[j].event[f] = devices[d][f] /\ BelongsTo(log[j].event, d)
    BY <2>1 DEF Sourced
  <2>3. j \in 1 .. Len(log') /\ log'[j] = log[j]
    BY <2>2
  <2> QED
    BY <2>1, <2>2, <2>3 DEF BelongsTo
<1> QED
  BY <1>1, <1>2, <1>3

LEMMA LogGrowsWith ==
  ASSUME Typed, NEW e \in Event, NEW derived \in {"none", "FIRST_SEEN", "KNOWN_DEVICE"},
         NEW changed \in SUBSET Compared, Record(e, derived, changed)
  PROVE  log'[Len(log) + 1].changed = changed
<1>1. log'[Len(log) + 1] = [event |-> e, derived |-> derived, changed |-> changed]
  BY LogGrows
<1> QED
  BY <1>1

LEMMA ObserveExplains ==
  ASSUME IInv, Sourced, AccusedByItsOwn, NEW e \in Event, Observe(e)
  PROVE  Sourced' /\ AccusedByItsOwn'
<1>0. Typed /\ Fits /\ {} \in SUBSET Compared
  BY DEF IInv
<1>1. CASE ObserveNothing(e)
  <2>1. Record(e, "none", {}) /\ devices' = devices
    BY <1>1 DEF ObserveNothing
  <2>2. /\ Len(log') = Len(log) + 1 /\ Len(log) \in Nat
        /\ \A i \in 1 .. Len(log) : log'[i] = log[i]
        /\ log'[Len(log) + 1].event = e
    BY <1>0, <2>1, LogGrowsBy
  <2>3. log'[Len(log) + 1].changed = {}
    BY <1>0, <2>1, LogGrowsWith
  <2>4. AccusedByItsOwn'
    <3> DEFINE changed == {}
    <3>1. log'[Len(log) + 1].changed = changed /\ \A f \in changed : FALSE
      BY <2>3
    <3> HIDE DEF changed
    <3> QED
      BY <1>0, <2>2, <3>1, AccusedKept
  <2>5. Sourced'
    <3> SUFFICES ASSUME NEW d \in DOMAIN devices, NEW f \in Descriptive, devices[d][f] # None
                 PROVE  \E j \in 1 .. Len(log') : /\ log'[j].event[f] = devices[d][f]
                                                  /\ BelongsTo(log[j].event, d)'
      BY <2>1 DEF Sourced
    <3>1. PICK j \in 1 .. Len(log) : log[j].event[f] = devices[d][f] /\ BelongsTo(log[j].event, d)
      BY DEF Sourced
    <3>2. j \in 1 .. Len(log') /\ log'[j] = log[j]
      BY <2>2
    <3> QED
      BY <2>1, <3>1, <3>2 DEF BelongsTo
  <2> QED
    BY <2>4, <2>5
<1>2. CASE ObserveFirst(e)
  <2> DEFINE m == Seen(Merge(NewDevice, e), e)
             rest == DOMAIN devices
  <2>1. /\ HasIdentity(e) /\ Find(e) = {} /\ StoreNew(e)
        /\ Record(e, "FIRST_SEEN", {}) /\ Len(log) < MaxObserved
    BY <1>2 DEF ObserveFirst, Record
  <2>2. /\ Len(log') = Len(log) + 1 /\ Len(log) \in Nat
        /\ \A i \in 1 .. Len(log) : log'[i] = log[i]
        /\ log'[Len(log) + 1].event = e
    BY <1>0, <2>1, LogGrowsBy
  <2>3. log'[Len(log) + 1].changed = {}
    BY <1>0, <2>1, LogGrowsWith
  <2>4. AccusedByItsOwn'
    <3> DEFINE changed == {}
    <3>1. log'[Len(log) + 1].changed = changed /\ \A f \in changed : FALSE
      BY <2>3
    <3> HIDE DEF changed
    <3> QED
      BY <1>0, <2>2, <3>1, AccusedKept
  <2>5. rest \subseteq DOMAIN devices /\ Identity(e) \notin rest /\ Put(Identity(e), m, rest)
    BY <2>1 DEF Find, StoreNew
  <2>6. m.vidpid = e.vidpid /\ m.serial = e.serial /\ m.pnp = e.pnp
    BY <1>0, <2>1, NewIsRecord, MergeFields DEF NewDevice, FirstOf
  <2>7. \A f \in Descriptive : m[f] = e[f]
    BY NewIsRecord, MergeDescribes DEF NewDevice, FirstOf, Descriptive
  <2> HIDE DEF m, rest
  <2>8. Len(log) + 1 \in 1 .. Len(log') /\ (Unnamed(e) <=> Unnamed(m))
    BY <2>2, <2>6 DEF Unnamed
  <2>9. Sourced'
    BY <1>0, <2>2, <2>5, <2>6, <2>7, <2>8, PutSourced
  <2> QED
    BY <2>4, <2>9
<1>3. CASE ObserveKnown(e)
  <2>1. PICK d \in Find(e) : /\ Store(d, e)
                             /\ Record(e, IF e.type = "CONNECT" THEN "KNOWN_DEVICE" ELSE "none",
                                       Changed(devices[d], e))
    BY <1>3 DEF ObserveKnown
  <2>2. HasIdentity(e) /\ Len(log) < MaxObserved
    BY <1>3, <2>1 DEF ObserveKnown, Record
  <2> DEFINE r == devices[d]
             m == Seen(Merge(r, e), e)
             rest == DOMAIN devices \ {d}
             changed == Changed(devices[d], e)
  <2>3. /\ d \in DOMAIN devices /\ r \in DeviceRecord
        /\ Identity(e) \in DOMAIN devices => d = Identity(e)
    BY <1>0, <2>1, <2>2, FoundAgrees
  <2>4. /\ e.vidpid # None => r.vidpid \in {None, e.vidpid}
        /\ e.serial # None => r.serial \in {None, e.serial}
        /\ IF Unnamed(e) THEN Identity(e) = d /\ Unnamed(r) ELSE ~Unnamed(r)
    BY <1>0, <2>2, FoundIsOwn
  <2>5. \A f \in changed :
          /\ e[f] # None /\ (f = "removable" => e.removable = TRUE)
          /\ \E j \in 1 .. Len(log) : /\ log[j].event[f] \notin {None, e[f]}
                                      /\ OfOneDevice(log[j].event, e)
    BY <1>0, <2>2, ChangeIsSourced
  <2>6. PICK derived \in {"none", "FIRST_SEEN", "KNOWN_DEVICE"} : Record(e, derived, changed)
    BY <2>1
  <2>7. changed \in SUBSET Compared
    BY DEF Changed
  <2> HIDE DEF changed
  <2>8. /\ Len(log') = Len(log) + 1 /\ Len(log) \in Nat
        /\ \A i \in 1 .. Len(log) : log'[i] = log[i]
        /\ log'[Len(log) + 1].event = e
    BY <1>0, <2>6, <2>7, LogGrowsBy
  <2>9. log'[Len(log) + 1].changed = changed
    BY <1>0, <2>6, <2>7, LogGrowsWith
  <2>10. AccusedByItsOwn'
    BY <1>0, <2>5, <2>8, <2>9, AccusedKept
  <2>11. /\ m.vidpid = FirstOf(r.vidpid, e.vidpid) /\ m.serial = FirstOf(r.serial, e.serial)
         /\ m.pnp = FirstOf(r.pnp, e.pnp)
    BY <1>0, <2>2, <2>3, MergeFields
  <2>12. \A f \in Descriptive : m[f] = FirstOf(r[f], e[f])
    BY <2>3, MergeDescribes
  <2>13. Put(Identity(e), m, rest) /\ Identity(e) \notin rest /\ rest \subseteq DOMAIN devices
    BY <2>1, <2>3 DEF Store
  <2> HIDE DEF m, rest
  <2>14. Unnamed(m) <=> Unnamed(e)
    BY <2>4, <2>11 DEF Unnamed, FirstOf
  <2>15. ASSUME NEW f \in Descriptive, m[f] # None
         PROVE  \E j \in 1 .. Len(log') :
                  /\ log'[j].event[f] = m[f]
                  /\ log'[j].event.vidpid # None => m.vidpid = log'[j].event.vidpid
                  /\ log'[j].event.serial # None => m.serial = log'[j].event.serial
                  /\ IF Unnamed(log'[j].event) THEN Identity(log'[j].event) = Identity(e) /\ Unnamed(m)
                     ELSE ~Unnamed(m)
    <3>1. CASE r[f] = None
      <4>1. m[f] = e[f] /\ Len(log) + 1 \in 1 .. Len(log')
        BY <2>8, <2>12, <3>1 DEF FirstOf
      <4> QED
        BY <2>4, <2>8, <2>11, <2>14, <4>1 DEF FirstOf
    <3>2. CASE r[f] # None
      <4>1. PICK j \in 1 .. Len(log) : log[j].event[f] = r[f] /\ BelongsTo(log[j].event, d)
        BY <2>3, <3>2 DEF Sourced
      <4>2. j \in 1 .. Len(log') /\ log'[j] = log[j] /\ m[f] = r[f]
        BY <2>8, <2>12, <3>2 DEF FirstOf
      <4> QED
        BY <2>4, <2>11, <2>14, <4>1, <4>2 DEF BelongsTo, FirstOf
    <3> QED
      BY <3>1, <3>2
  <2>16. Sourced'
    BY <1>0, <2>8, <2>13, <2>15, PutSourced
  <2> QED
    BY <2>10, <2>16
<1> QED
  BY <1>1, <1>2, <1>3 DEF Observe

LEMMA OperateExplains ==
  ASSUME Typed, Sourced, AccusedByItsOwn, NEW d \in DOMAIN devices, NEW r,
         devices' = [devices EXCEPT ![d] = r], UNCHANGED log,
         \A f \in Descriptive \cup {"vidpid", "serial", "pnp"} : r[f] = devices[d][f]
  PROVE  Sourced' /\ AccusedByItsOwn'
<1>1. /\ DOMAIN devices' = DOMAIN devices
      /\ \A k \in DOMAIN devices : /\ devices'[k].vidpid = devices[k].vidpid
                                   /\ devices'[k].serial = devices[k].serial
                                   /\ devices'[k].pnp = devices[k].pnp
                                   /\ \A f \in Descriptive : devices'[k][f] = devices[k][f]
  BY DEF Typed
<1>2. Sourced'
  BY <1>1 DEF Sourced, BelongsTo, Unnamed
<1>3. AccusedByItsOwn'
  BY DEF AccusedByItsOwn, Contradicts
<1> QED
  BY <1>2, <1>3

LEMMA AlwaysExplained == Spec => [](Sourced /\ AccusedByItsOwn)
<1>1. Init => Sourced /\ AccusedByItsOwn
  BY DEF Init, Sourced, AccusedByItsOwn
<1>2. IInv /\ Sourced /\ AccusedByItsOwn /\ [Next]_vars => Sourced' /\ AccusedByItsOwn'
  <2> SUFFICES ASSUME IInv, Sourced, AccusedByItsOwn, [Next]_vars PROVE Sourced' /\ AccusedByItsOwn'
    OBVIOUS
  <2>1. CASE \E e \in Event : Observe(e)
    BY <2>1, ObserveExplains
  <2>2. ASSUME NEW d \in DOMAIN devices, NEW t \in BOOLEAN, SetTrusted(d, t)
        PROVE  Sourced' /\ AccusedByItsOwn'
    <3> DEFINE r == [devices[d] EXCEPT !.trusted = t]
    <3>1. /\ devices' = [devices EXCEPT ![d] = r] /\ UNCHANGED log
          /\ \A f \in Descriptive \cup {"vidpid", "serial", "pnp"} : r[f] = devices[d][f]
      BY <2>2 DEF SetTrusted, IInv, Typed, DeviceRecord, Descriptive
    <3> HIDE DEF r
    <3> QED
      BY <3>1, OperateExplains DEF IInv
  <2>3. ASSUME NEW d \in DOMAIN devices, NEW l \in Level, UpdateRisk(d, l)
        PROVE  Sourced' /\ AccusedByItsOwn'
    <3> DEFINE r == [devices[d] EXCEPT !.risk = l]
    <3>1. /\ devices' = [devices EXCEPT ![d] = r] /\ UNCHANGED log
          /\ \A f \in Descriptive \cup {"vidpid", "serial", "pnp"} : r[f] = devices[d][f]
      BY <2>3 DEF UpdateRisk, IInv, Typed, DeviceRecord, Descriptive
    <3> HIDE DEF r
    <3> QED
      BY <3>1, OperateExplains DEF IInv
  <2>4. CASE UNCHANGED vars
    BY <2>4 DEF vars, Sourced, AccusedByItsOwn, Contradicts, BelongsTo, Unnamed
  <2> QED
    BY <2>1, <2>2, <2>3, <2>4 DEF Next, Operate
<1> QED
  BY <1>1, <1>2, Inductive, PTL DEF Spec

(* check_identity_change: whatever was merged and moved in between, there   *)
(* is an earlier event of the accused device that said otherwise.           *)
THEOREM AccusationsHaveGrounds == Spec => []AccusedByItsOwn
  BY AlwaysExplained, PTL

BecameRemovable(f, e) ==
  /\ f.removable = FALSE
  /\ \/ Identity(f) = Identity(e) /\ Identity(e)[1] = "volume"
     \/ f.borrowed /\ OfOneDevice(f, e)

(* A stick that stays the same is accused only after a failed lookup, under *)
(* a letter that a fixed disk had, or after such a letter was told with it. *)
THEOREM AccusationsHaveACause ==
  ASSUME SameAtEveryPlug
  PROVE  Spec => []AccusedForCause
<1>1. IInv /\ AccusedByItsOwn => AccusedForCause
  <2> SUFFICES ASSUME IInv, AccusedByItsOwn, NEW i \in 1 .. Len(log)
               PROVE  LET e == log[i].event
                      IN  /\ log[i].changed \subseteq Descriptive
                          /\ "manufacturer" \in log[i].changed =>
                               \E j \in 1 .. i : log[j].event.failed /\ Named(log[j].event, e)
                          /\ "removable" \in log[i].changed =>
                               \E j \in 1 .. i : BecameRemovable(log[j].event, e)
    BY DEF AccusedForCause, BecameRemovable
  <2> DEFINE e == log[i].event
  <2>1. log[i].changed \subseteq Descriptive
    BY DEF IInv, IdsNeverChange
  <2>2. \A j \in 1 .. i : log[j].event \in Event
    <3>1. log \in Seq(LogEntry) /\ Len(log) \in Nat
      BY DEF IInv, Typed
    <3>2. \A j \in 1 .. i : log[j] \in LogEntry
      BY <3>1
    <3> QED
      BY <3>2 DEF LogEntry
  <2>3. i \in 1 .. i
    OBVIOUS
  <2>4. ASSUME "manufacturer" \in log[i].changed
        PROVE  \E j \in 1 .. i : log[j].event.failed /\ Named(log[j].event, e)
    <3>1. PICK j \in 1 .. i : /\ log[j].event["manufacturer"] \notin {None, e["manufacturer"]}
                              /\ OfOneDevice(log[j].event, e) /\ e["manufacturer"] # None
      BY <2>4 DEF AccusedByItsOwn, Contradicts
    <3>2. \E g \in {log[j].event, e} : g.failed /\ Named(g, e)
      BY <2>2, <2>3, <3>1 DEF SameAtEveryPlug
    <3> QED
      BY <2>3, <3>2
  <2>5. ASSUME "removable" \in log[i].changed
        PROVE  \E j \in 1 .. i : BecameRemovable(log[j].event, e)
    <3>1. PICK j \in 1 .. i : /\ log[j].event["removable"] \notin {None, e["removable"]}
                              /\ OfOneDevice(log[j].event, e) /\ e.removable = TRUE
      BY <2>5 DEF AccusedByItsOwn, Contradicts
    <3> DEFINE p == log[j].event
    <3>2. p.removable \notin {None, TRUE} /\ p \in Event
      BY <2>2, <3>1
    <3>3. p.removable = FALSE /\ (p.borrowed \/ (Unnamed(p) /\ Identity(p)[1] = "volume"))
      BY <3>2 DEF SameAtEveryPlug
    <3>4. Unnamed(p) => Identity(p) = Identity(e)
      BY <3>1 DEF OfOneDevice
    <3>5. BecameRemovable(p, e)
      BY <3>1, <3>3, <3>4 DEF BecameRemovable
    <3> QED
      BY <3>5
  <2> QED
    BY <2>1, <2>4, <2>5
<1> QED
  BY <1>1, Inductive, AlwaysExplained, PTL
=============================================================================

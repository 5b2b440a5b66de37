--------------------------- MODULE DeviceInventory ---------------------------
(***************************************************************************)
(* usb_monitor/inventory/device_inventory.py: which record of the device    *)
(* baseline an event belongs to.  Each operation runs under one lock; how   *)
(* the baseline reaches the disk afterwards is module InventoryFile.        *)
(*                                                                         *)
(* An event is what identifies it: type, VID:PID, serial, PNP device id,    *)
(* the device_id the normalizer gave it (fallback); and what describes it:  *)
(* the manufacturer and whether Windows calls the drive removable; two      *)
(* notes on how it came about: failed, a query of its lookup was not        *)
(* answered; borrowed, a letter that is not its device's was asked about.   *)
(* A record keeps the numbers of the CONNECTs counted in it, so that        *)
(* connection_count is the size of that set.  Other descriptive fields and  *)
(* timestamps are left out.                                                 *)
(***************************************************************************)
EXTENDS Integers, Sequences, FiniteSets

CONSTANTS
  Event,        \* the events that can be observed
  None,         \* Python's None
  Level,        \* risk levels update_risk can store
  MaxObserved   \* bound: events observed per behaviour

(* A PNP device id names one device: no two serials, no two VID:PIDs.  The  *)
(* fallback is a path or a drive letter, no composed identity.  A serial is *)
(* a segment of a path that has a PNP id too.                               *)
ASSUME InventoryAssumption ==
  /\ MaxObserved \in Nat
  /\ \A e \in Event : e.type \in {"CONNECT", "DISCONNECT"}
  /\ \A e \in Event : e.fallback # None => e.fallback[1] \notin {"serial", "model", "pnp"}
  /\ \A e, f \in Event : e.pnp # None /\ e.pnp = f.pnp =>
       /\ e.serial = None \/ f.serial = None \/ e.serial = f.serial
       /\ e.vidpid = None \/ f.vidpid = None \/ e.vidpid = f.vidpid
  /\ \A e \in Event : e.serial # None => e.vidpid # None \/ e.pnp # None

VARIABLES
  devices,  \* _devices: a record per device_id
  log,      \* the events observed, with the derived event and the fields of the
            \* known record each contradicted (history)
  granted   \* the serials of the records last set trusted, not untrusted (history)

vars == <<devices, log, granted>>

Init == devices = << >> /\ log = <<>> /\ granted = {}

-----------------------------------------------------------------------------
(* Fault: the serial is not part of the identity.                           *)
IdentityByModel(e) ==
  IF e.vidpid # None THEN <<"model", e.vidpid>>
  ELSE IF e.pnp # None THEN <<"pnp", e.pnp>>
  ELSE e.fallback

(* compose_device_id, or the event's own device_id.                         *)
Identity(e) ==
  IF e.vidpid # None /\ e.serial # None THEN <<"serial", e.vidpid, e.serial>>
  ELSE IF e.vidpid # None THEN <<"model", e.vidpid>>
  ELSE IF e.pnp # None THEN <<"pnp", e.pnp>>
  ELSE e.fallback

HasIdentity(e) == e.vidpid # None \/ e.pnp # None \/ e.fallback # None

SameSerial(d, e) ==
  /\ e.vidpid # None /\ e.serial # None
  /\ devices[d].vidpid = e.vidpid /\ devices[d].serial = e.serial
SamePnp(d, e) == e.pnp # None /\ devices[d].pnp = e.pnp

(* Fault: a record is looked for under its key only.                        *)
FindByKey(e) == {Identity(e)} \cap DOMAIN devices

(* _find_locked: by key, by VID:PID and serial, by PNP id.  Of several      *)
(* matches the code takes the first in the dict's order; here any.          *)
Find(e) ==
  LET bySerial == {d \in DOMAIN devices : SameSerial(d, e)}
  IN  IF Identity(e) \in DOMAIN devices THEN {Identity(e)}
      ELSE IF bySerial # {} THEN bySerial
      ELSE {d \in DOMAIN devices : SamePnp(d, e)}

FirstOf(x, y) == IF x = None THEN y ELSE x

(* _merge_event_into_device: the first known value of a field stays.        *)
Merge(record, e) ==
  [record EXCEPT !.vidpid = FirstOf(@, e.vidpid), !.serial = FirstOf(@, e.serial),
                 !.pnp = FirstOf(@, e.pnp),
                 !.manufacturer = FirstOf(@, e.manufacturer),
                 !.removable = FirstOf(@, e.removable)]

NewDevice ==
  [vidpid |-> None, serial |-> None, pnp |-> None, manufacturer |-> None,
   removable |-> None, trusted |-> FALSE, risk |-> None, connects |-> {}]

Seen(record, e) ==
  IF e.type = "CONNECT" THEN [record EXCEPT !.connects = @ \cup {Len(log) + 1}] ELSE record

Put(id, record, others) ==
  devices' = [k \in others \cup {id} |-> IF k = id THEN record ELSE devices[k]]

(* Fault: the record stays under its old key too.                           *)
StoreKeepingOldKey(d, e) == Put(Identity(e), Seen(Merge(devices[d], e), e), DOMAIN devices)

(* Fault: a record that moves to another key is a new one.                  *)
StoreForgettingTrust(d, e) ==
  Put(Identity(e), Seen(Merge([devices[d] EXCEPT !.trusted = @ /\ d = Identity(e)], e), e),
      DOMAIN devices \ {d})

(* The merged record replaces what was found, under the event's identity.   *)
Store(d, e) == Put(Identity(e), Seen(Merge(devices[d], e), e), DOMAIN devices \ {d})
StoreNew(e) == Put(Identity(e), Seen(Merge(NewDevice, e), e), DOMAIN devices)

Descriptive == {"manufacturer", "removable"}
Compared == Descriptive \cup {"serial", "vidpid"}

(* Fault: a field not known before has changed too.                         *)
ChangedFromUnknown(previous, e) ==
  {f \in Compared : e.type = "CONNECT" /\ e[f] # None /\ previous[f] # e[f]}

(* check_identity_change and check_removable_changed: the known fields of   *)
(* the previous record that a CONNECT contradicts; a drive that was called  *)
(* removable may be called fixed.                                           *)
Changed(previous, e) ==
  {f \in Compared : /\ e.type = "CONNECT"
                    /\ previous[f] # None /\ e[f] # None /\ previous[f] # e[f]
                    /\ f = "removable" => e.removable = TRUE}

Record(e, derived, changed) ==
  /\ Len(log) < MaxObserved
  /\ log' = Append(log, [event |-> e, derived |-> derived, changed |-> changed])
  /\ UNCHANGED granted

-----------------------------------------------------------------------------
(* observe, by its outcome.                                                 *)
ObserveNothing(e) ==
  /\ ~HasIdentity(e) \/ (e.type = "DISCONNECT" /\ Find(e) = {})
  /\ Record(e, "none", {})
  /\ UNCHANGED devices

(* Fault: an event without identity is recorded as a device.                *)
ObserveFirstUnnamed(e) ==
  /\ e.type = "CONNECT" /\ Find(e) = {}
  /\ Record(e, "FIRST_SEEN", {})
  /\ StoreNew(e)

ObserveFirst(e) ==
  /\ HasIdentity(e) /\ e.type = "CONNECT" /\ Find(e) = {}
  /\ Record(e, "FIRST_SEEN", {})
  /\ StoreNew(e)

ObserveKnown(e) ==
  /\ HasIdentity(e)
  /\ \E d \in Find(e) :
       /\ Store(d, e)
       /\ Record(e, IF e.type = "CONNECT" THEN "KNOWN_DEVICE" ELSE "none",
                 Changed(devices[d], e))

Observe(e) == ObserveNothing(e) \/ ObserveFirst(e) \/ ObserveKnown(e)

(* set_trusted and update_risk touch a record that is there.                *)
SerialOf(record) ==
  IF record.vidpid # None /\ record.serial # None THEN {<<record.vidpid, record.serial>>}
  ELSE {}

SetTrusted(d, trusted) ==
  /\ d \in DOMAIN devices
  /\ devices' = [devices EXCEPT ![d].trusted = trusted]
  /\ granted' = IF trusted THEN granted \cup SerialOf(devices[d])
                ELSE granted \ SerialOf(devices[d])
  /\ UNCHANGED log

UpdateRisk(d, level) ==
  /\ d \in DOMAIN devices
  /\ devices' = [devices EXCEPT ![d].risk = level]
  /\ UNCHANGED <<log, granted>>

Operate == \E d \in DOMAIN devices : \/ \E t \in BOOLEAN : SetTrusted(d, t)
                                     \/ \E l \in Level : UpdateRisk(d, l)
Next == (\E e \in Event : Observe(e)) \/ Operate

Spec == Init /\ [][Next]_vars

-----------------------------------------------------------------------------
Value(field) == {e[field] : e \in Event} \cup {None}
DeviceRecord ==
  [vidpid : Value("vidpid"), serial : Value("serial"), pnp : Value("pnp"),
   manufacturer : Value("manufacturer"), removable : Value("removable"),
   trusted : BOOLEAN, risk : Level \cup {None}, connects : SUBSET (1 .. MaxObserved)]

Identities == {Identity(e) : e \in {f \in Event : HasIdentity(f)}}

LogEntry ==
  [event : Event, derived : {"none", "FIRST_SEEN", "KNOWN_DEVICE"},
   changed : SUBSET Compared]

(* Every record and log entry has its fields, every key is an identity.     *)
TypeOK ==
  /\ devices \in [DOMAIN devices -> DeviceRecord]
  /\ DOMAIN devices \subseteq Identities
  /\ log \in Seq(LogEntry)

(* Moving records between keys neither loses nor doubles one: every CONNECT *)
(* with an identity is counted in exactly one record.                       *)
EveryConnectCountedOnce ==
  \A i \in 1 .. Len(log) :
    LET e == log[i].event
    IN  e.type = "CONNECT" /\ HasIdentity(e) =>
          Cardinality({d \in DOMAIN devices : i \in devices[d].connects}) = 1

(* docs/HARDWARE.md: a replug is "not a second first-seen of the same       *)
(* serial", nor of the same PNP id, whatever was observed and moved to      *)
(* other keys in between and whatever the lookups of the replug found.      *)
Named(e, f) ==
  \/ /\ e.vidpid # None /\ e.serial # None
     /\ e.vidpid = f.vidpid /\ e.serial = f.serial
  \/ e.pnp # None /\ e.pnp = f.pnp

FirstSeenOnce ==
  \A i, j \in 1 .. Len(log) :
    /\ i < j
    /\ log[i].derived = "FIRST_SEEN" /\ log[j].event.type = "CONNECT"
    /\ Named(log[i].event, log[j].event)
    => log[j].derived = "KNOWN_DEVICE"

(* docs/ARCHITECTURE.md: "different USB serials stay separate even if       *)
(* VID/PID match", in the baseline too: the connects of one record never    *)
(* come from two serials of one model.                                      *)
SerialsStaySeparate ==
  \A d \in DOMAIN devices : \A i, j \in devices[d].connects :
    LET e == log[i].event
        f == log[j].event
    IN  e.vidpid # None /\ e.vidpid = f.vidpid /\ e.serial # None /\ f.serial # None
          => e.serial = f.serial

(* The operator's trust in a serial outlives every replug: a trusted record *)
(* of that serial is there until it is untrusted.                           *)
TrustIsKept ==
  \A s \in granted :
    \E d \in DOMAIN devices : SerialOf(devices[d]) = {s} /\ devices[d].trusted

(* Two events that may be about one device: no name of the one contradicts   *)
(* the other's, and one without a name is of the same path or letter.        *)
Unnamed(e) == e.vidpid = None /\ e.pnp = None
OfOneDevice(e, f) ==
  /\ e.serial = None \/ f.serial = None \/ e.serial = f.serial
  /\ e.vidpid = None \/ f.vidpid = None \/ e.vidpid = f.vidpid
  /\ Unnamed(e) \/ Unnamed(f) => Identity(e) = Identity(f)

(* A stick that is the same at every plug is accused of a change only for    *)
(* cause: of another manufacturer after a lookup that failed, since a read   *)
(* that fails lets the parent's name in and the first known name stays; of   *)
(* having become removable under a drive letter that was a fixed disk's      *)
(* before, or under its own name after the volume of a fixed disk has once   *)
(* joined its burst.                                                         *)
AccusedForCause ==
  \A i \in 1 .. Len(log) :
    LET e == log[i].event
    IN  /\ log[i].changed \subseteq Descriptive
        /\ "manufacturer" \in log[i].changed =>
             \E j \in 1 .. i : log[j].event.failed /\ Named(log[j].event, e)
        /\ "removable" \in log[i].changed =>
             \E j \in 1 .. i :
               LET f == log[j].event
               IN  /\ f.removable = FALSE
                   /\ \/ Identity(f) = Identity(e) /\ Identity(e)[1] = "volume"
                      \/ f.borrowed /\ OfOneDevice(f, e)

(* What AccusedForCause takes a stick that stays the same to be: lookups     *)
(* that answer agree on its manufacturer, and no lookup of its own letter    *)
(* calls its drive fixed.                                                    *)
SameAtEveryPlug ==
  /\ \A e, f \in Event :
       /\ OfOneDevice(e, f) /\ e.manufacturer # None /\ f.manufacturer # None
       /\ e.manufacturer # f.manufacturer
       => \E g \in {e, f} : g.failed /\ Named(g, f)
  /\ \A e \in Event :
       \/ e.removable \in {None, TRUE}
       \/ e.removable = FALSE /\ (e.borrowed \/ (Unnamed(e) /\ Identity(e)[1] = "volume"))

(* No CONNECT contradicts the serial or the VID:PID of the record it is     *)
(* paired with: what a CONNECT may contradict is what describes it.         *)
IdsNeverChange == \A i \in 1 .. Len(log) : log[i].changed \subseteq Descriptive
=============================================================================

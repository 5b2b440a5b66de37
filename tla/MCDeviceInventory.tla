-------------------------- MODULE MCDeviceInventory --------------------------
(* Two sticks of one model.  Windows announces a stick as a USB device, as a *)
(* disk and as a volume, and the registry lists the first two; stick A's     *)
(* name is found or not, depending on what the lookup manages to read.       *)
EXTENDS DeviceInventory, TLC

CONSTANT none

Stick(s) == <<"USB", "VID_0781&PID_5581", s>>
DiskOf(s) == <<"USBSTOR", "Disk&Ven_SanDisk", s \o "&0">>
Hub == <<"USB", "ROOT_HUB30", "4&1">>

MCRegistry ==
  (Stick("A") :> [manufacturer |-> "SanDisk", hardware |-> "0781:5581", parent |-> Hub])
  @@ (Stick("B") :> [manufacturer |-> "SanDisk", hardware |-> "0781:5581", parent |-> Hub])
  @@ (DiskOf("A") :> [manufacturer |-> "disk", hardware |-> none, parent |-> Stick("A")])
  @@ (Hub :> [manufacturer |-> "hub", hardware |-> none, parent |-> none])

MCVidPid == "VID_0781&PID_5581" :> "0781:5581"
MCHint == "USB" :> "USB" @@ "USBSTOR" :> "USBSTOR"
MCClassGuid == {"{usb}", "{disk}"}

Md == INSTANCE Metadata WITH
  None <- none, ClassGuid <- MCClassGuid, VidPid <- MCVidPid, Hint <- MCHint,
  Registry <- MCRegistry

(* The events of a burst, by what each outcome of its lookup adds.  A stick  *)
(* is removable: a fixed drive under the letter of its burst is another's.   *)
EventsOf(burst, drive, outcomes(_, _)) ==
  LET event == Md!FromBurst(burst)
      sound == Md!ApplyMetadata(event, Md!Collect(event, drive, {}))
  IN  {[type |-> e.type, vidpid |-> e.vidpid, serial |-> e.serial, pnp |-> e.pnp,
        fallback |-> e.fallback, manufacturer |-> e.manufacturer,
        removable |-> e.removable, failed |-> e # sound,
        borrowed |-> event.pnp # none /\ drive = "DRIVE_FIXED"] :
         e \in {sound} \cup outcomes(event, drive)}

Sound(event, drive) == {}
MfgUnread(event, drive) ==
  {Md!ApplyMetadata(event, Md!Collect(event, drive, {<<"manufacturer", event.pnp>>}))}
Unsure(event, drive) == Md!Lookups(event, drive, {{<<"manufacturer", event.pnp>>}})

Gone == "DRIVE_NO_ROOT_DIR"
Interface(action, id, class) == Md!InterfaceEvent(action, Append(id, class))
Mounted(raw) == [raw EXCEPT !.letter = "E:"]

(* A mock notification names a model and nothing else.                       *)
Mock == [Md!InterfaceEvent("CONNECT", none) EXCEPT !.vidpid = "0781:5581"]

(* Stick A's volume is told in one burst with its interface, or too late for *)
(* it; then the letter is all there is, and it may be a fixed disk's.  So    *)
(* may the letter that joins a stick's burst, since a volume without a name  *)
(* of its own joins any.                                                     *)
MCEvent ==
  EventsOf(Mounted(Interface("CONNECT", Stick("A"), "{usb}")), "DRIVE_REMOVABLE", Unsure)
  \cup EventsOf(Mounted(Interface("CONNECT", Stick("A"), "{usb}")), "DRIVE_FIXED", Sound)
  \cup EventsOf(Interface("CONNECT", DiskOf("A"), "{disk}"), Gone, MfgUnread)
  \cup EventsOf(Interface("CONNECT", Stick("B"), "{usb}"), Gone, Sound)
  \cup EventsOf(Interface("DISCONNECT", Stick("A"), "{usb}"), Gone, Sound)
  \cup UNION {EventsOf(raw, drive, Sound) :
                raw \in Md!VolumeEvents("CONNECT", {"E:"}),
                drive \in {"DRIVE_REMOVABLE", "DRIVE_FIXED"}}
  \cup UNION {EventsOf(raw, Gone, Sound) : raw \in Md!VolumeEvents("CONNECT", {}) \cup {Mock}}

(* Bound: one record holds a risk level, which no other operation reads.     *)
OneAssessed == Cardinality({d \in DOMAIN devices : devices[d].risk # None}) <= 1

(* The two sticks are what AccusedForCause is about.                         *)
ASSUME SticksAssumption == SameAtEveryPlug
=============================================================================

-------------------------- MODULE MCEventNormalizer --------------------------
(* Small instances of EventNormalizer, on what Windows announces when two    *)
(* sticks of one model are plugged in.                                       *)
EXTENDS EventNormalizer, TLC

CONSTANT none

MCVidPid == "VID_0781&PID_5581" :> "0781:5581"
MCHint == "USB" :> "USB" @@ "USBSTOR" :> "USBSTOR"
MCClassGuid == {"{usb}", "{disk}"}

Source == INSTANCE RawDeviceEvent WITH
  None <- none, ClassGuid <- MCClassGuid, VidPid <- MCVidPid, Hint <- MCHint

UsbDevice(s) == <<"USB", "VID_0781&PID_5581", s, "{usb}">>
UsbDisk == <<"USBSTOR", "Disk&Ven_SanDisk", "AAA&0", "{disk}">>

(* Two sticks (one serial in two spellings), the disk of the first, their    *)
(* volumes, a notification whose path is unreadable, and a removal.          *)
MCRaw ==
  {Source!InterfaceEvent("CONNECT", path) :
     path \in {UsbDevice("AAA"), UsbDevice("aaa"), UsbDevice("BBB"), UsbDisk, none}}
  \cup Source!VolumeEvents("CONNECT", {"E:", "F:"})
  \cup {Source!InterfaceEvent("DISCONNECT", UsbDevice("AAA"))}

MCUsbPath == {UsbDevice(s) : s \in {"AAA", "aaa", "BBB"}} \cup {UsbDisk}
MCCasefold == "AAA" :> "aaa" @@ "aaa" :> "aaa" @@ "BBB" :> "bbb" @@ "AAA&0" :> "aaa&0"
=============================================================================

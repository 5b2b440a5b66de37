--------------------------- MODULE RawDeviceEvent ---------------------------
(***************************************************************************)
(* What a Windows notification becomes: the handlers of windows_monitor.py  *)
(* and the path parsing of event_source.py.                                 *)
(*                                                                         *)
(* A device interface path is the sequence of its segments between "#",     *)
(* its \\?\ prefix left out; a PNP instance id is such a sequence too.      *)
(***************************************************************************)
EXTENDS Naturals, Sequences

CONSTANTS
  None,       \* Python's None
  ClassGuid,  \* the segments that start with "{"
  VidPid,     \* [segment with a VID_....&PID_.... -> that pair]
  Hint        \* [segment -> the "USBSTOR" in it, or the hint it ends with]

(* parse_vid_pid_from_path: the first VID and PID in the path.              *)
ParseVidPid(path) ==
  LET found == IF path = None THEN {} ELSE {i \in DOMAIN path : path[i] \in DOMAIN VidPid}
  IN  IF found = {} THEN None
      ELSE VidPid[path[CHOOSE i \in found : \A j \in found : i <= j]]

(* parse_instance_id_from_path: the third segment, unless it is a class.    *)
ParseInstance(path) ==
  IF path = None THEN None
  ELSE IF Len(path) < 3 THEN None
  ELSE IF path[3] \in ClassGuid THEN None ELSE path[3]

(* device_path_to_instance_id: at most three segments that are no class.    *)
DevicePathToInstanceId(path) ==
  LET parts == SelectSeq(IF path = None THEN <<>> ELSE path, LAMBDA s : s \notin ClassGuid)
  IN  IF Len(parts) < 2 THEN None
      ELSE SubSeq(parts, 1, IF Len(parts) > 3 THEN 3 ELSE Len(parts))

(* "USBSTOR" counts anywhere, "USB#" and the like where a "#" follows.      *)
Hints(path) ==
  {Hint[path[i]] : i \in {j \in DOMAIN path : /\ path[j] \in DOMAIN Hint
                                              /\ j < Len(path) \/ Hint[path[j]] = "USBSTOR"}}

KindFromPath(path) ==
  LET hints == IF path = None THEN {} ELSE Hints(path)
  IN  IF hints \cap {"USBSTOR", "USB"} # {} THEN "usb"
      ELSE IF hints \cap {"DISK", "SCSI"} # {} THEN "disk"
      ELSE IF "VOLUME" \in hints THEN "volume" ELSE "device_interface"

Raised(action, kind, letter, path) ==
  [action |-> action, kind |-> kind, letter |-> letter, path |-> path,
   vidpid |-> ParseVidPid(path), instance |-> ParseInstance(path)]

(* _emit_interface_event; a path that cannot be read is None.               *)
InterfaceEvent(action, path) == Raised(action, KindFromPath(path), None, path)

(* _emit_volume_events: one raw per letter of the unit mask, or one without. *)
VolumeEvents(action, letters) ==
  {Raised(action, "volume", l, None) : l \in IF letters = {} THEN {None} ELSE letters}
=============================================================================

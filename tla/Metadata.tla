------------------------------ MODULE Metadata ------------------------------
(***************************************************************************)
(* How an event gets its identity: burst_to_event takes what the            *)
(* notifications said, WindowsMetadataCollector looks up in the device      *)
(* registry and of the volume what they left out, and apply_metadata fills  *)
(* it in.                                                                   *)
(*                                                                         *)
(* A lookup asks Windows several things and goes on without the ones that   *)
(* fail.  The other descriptive fields (product name, file system,          *)
(* capacity, label) are left out.                                           *)
(***************************************************************************)
EXTENDS RawDeviceEvent

CONSTANT Registry  \* [PNP id -> [manufacturer, hardware (its VID:PID), parent]]

Known(x, y) == IF x = None THEN y ELSE x

(* The queries of one lookup that fail: <<query, PNP id>>.                  *)
Query == {"open", "manufacturer", "hardware", "parent"}
Failure == Query \X DOMAIN Registry

NoMetadata ==
  [vidpid |-> None, serial |-> None, manufacturer |-> None, pnp |-> None,
   removable |-> None]

VolumeId(letter) == IF letter = None THEN None ELSE <<"volume", letter>>

(* burst_to_event; fallback is the device_id without VID, PID or PNP id.    *)
FromBurst(b) ==
  [type |-> b.action, vidpid |-> b.vidpid, serial |-> b.instance,
   pnp |-> DevicePathToInstanceId(b.path), letter |-> b.letter, manufacturer |-> None,
   removable |-> None,
   fallback |-> IF b.path = None THEN VolumeId(b.letter) ELSE <<"path", b.path>>]

(* _instance_id_from_event                                                  *)
InstanceId(e) ==
  IF e.pnp # None THEN e.pnp
  ELSE IF e.vidpid # None /\ e.serial # None
    THEN <<"USB", CHOOSE s \in DOMAIN VidPid : VidPid[s] = e.vidpid, e.serial>>
  ELSE None

(* _read_dev_property                                                       *)
ReadDevProperty(id, query, failing) ==
  IF <<query, id>> \in failing THEN None ELSE Registry[id][query]

Opens(id, failing) == id \in DOMAIN Registry /\ <<"open", id>> \notin failing

(* _query_pnp: a device that cannot be opened has nothing to say.           *)
QueryPnp(id, failing) ==
  IF ~Opens(id, failing) THEN NoMetadata
  ELSE [manufacturer |-> ReadDevProperty(id, "manufacturer", failing),
        vidpid |-> Known(ReadDevProperty(id, "hardware", failing), ParseVidPid(id)),
        serial |-> Known(ParseInstance(id), IF Len(id) >= 3 THEN id[Len(id)] ELSE None),
        pnp |-> id, removable |-> None]

(* _query_volume: what GetDriveTypeW says of the letter when it is asked;   *)
(* by then the letter may be gone, or be another drive's.                   *)
DriveType == {"DRIVE_NO_ROOT_DIR", "DRIVE_REMOVABLE", "DRIVE_FIXED"}

QueryVolume(drive) ==
  IF drive = "DRIVE_NO_ROOT_DIR" THEN None ELSE drive = "DRIVE_REMOVABLE"

(* _parent_instance_id                                                      *)
ParentInstanceId(id, failing) ==
  IF Opens(id, failing) THEN ReadDevProperty(id, "parent", failing) ELSE None

(* _collect: the parent is asked when the device names no manufacturer.     *)
Collect(e, drive, failing) ==
  LET id == InstanceId(e)
      own == IF id = None THEN NoMetadata ELSE QueryPnp(id, failing)
      above == IF id # None /\ own.manufacturer = None
               THEN ParentInstanceId(id, failing) ELSE None
      parent == IF above = None THEN NoMetadata ELSE QueryPnp(above, failing)
  IN  [vidpid |-> Known(e.vidpid, Known(own.vidpid, parent.vidpid)),
       serial |-> Known(e.serial, own.serial),
       manufacturer |-> Known(own.manufacturer, parent.manufacturer),
       pnp |-> id,
       removable |-> IF e.letter = None THEN None ELSE QueryVolume(drive)]

(* apply_metadata: what the event knows already stays.                      *)
ApplyMetadata(e, found) ==
  [e EXCEPT !.vidpid = Known(@, found.vidpid), !.serial = Known(@, found.serial),
            !.manufacturer = Known(@, found.manufacturer), !.pnp = Known(@, found.pnp),
            !.removable = Known(@, found.removable),
            !.fallback = Known(@, VolumeId(e.letter))]

(* The outcomes of looking up an event: collect() raises and is caught, or  *)
(* its collector is the null one, or some queries fail.                     *)
Lookups(e, drive, failures) ==
  {ApplyMetadata(e, NoMetadata)}
  \cup {ApplyMetadata(e, Collect(e, drive, f)) : f \in failures}
=============================================================================

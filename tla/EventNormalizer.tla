--------------------------- MODULE EventNormalizer ---------------------------
(***************************************************************************)
(* usb_monitor/monitoring/normalizer.py: raw arrival and removal            *)
(* notifications are coalesced into bursts, and a burst that was quiet or   *)
(* open long enough becomes one CONNECT or DISCONNECT event.                *)
(*                                                                         *)
(* A raw notification is reduced to what the coalescer compares: action,    *)
(* kind, drive letter, VID:PID, instance id and path.  The list _open is    *)
(* only appended to and filtered, so it is kept as a set of bursts ordered  *)
(* by id, the number of the raw that opened them (which also stands for     *)
(* the first_timestamp: raws arrive in timestamp order).                    *)
(***************************************************************************)
EXTENDS Integers, Sequences, FiniteSets

CONSTANTS
  Raw,        \* the raw notifications that can arrive
  None,       \* Python's None
  UsbPath,    \* the device paths with a USB# or USBSTOR hint
  Casefold,   \* [instance id -> its casefold()]
  Quiet,      \* quiet_period
  MaxWait,    \* max_wait
  MaxTime,    \* bound: the monotonic clock stops here
  MaxRaws     \* bound: raw notifications per behaviour

ASSUME NormalizerAssumption ==
  /\ Quiet \in Nat /\ MaxWait \in Nat /\ MaxTime \in Nat /\ MaxRaws \in Nat
  /\ \A r \in Raw : r.instance \in DOMAIN Casefold \cup {None}
  /\ None \notin DOMAIN Casefold
  /\ \A i \in DOMAIN Casefold : Casefold[i] # None

VARIABLES
  now,      \* the monotonic clock
  open,     \* _open: the bursts not yet closed
  seen,     \* every raw ingested, with its time (history)
  events,   \* the events handed to the monitor (history)
  dropped   \* the closed bursts should_emit() refused (history)

vars == <<now, open, seen, events, dropped>>

Init ==
  /\ now = 0
  /\ open = {}
  /\ seen = <<>>
  /\ events = {}
  /\ dropped = {}

-----------------------------------------------------------------------------
Agree(x, y) == x = None \/ y = None \/ x = y
FirstOf(x, y) == IF x = None THEN y ELSE x
FoldInstance(i) == IF i = None THEN None ELSE Casefold[i]

(* Fault: the drive letters are not compared.                                *)
IsCompatibleIgnoringLetter(b, r) ==
  /\ b.action = r.action
  /\ Agree(b.vidpid, r.vidpid)
  /\ Agree(FoldInstance(b.instance), FoldInstance(r.instance))

(* Fault: an unplug joins the burst of the plug.                            *)
IsCompatibleIgnoringAction(b, r) ==
  /\ Agree(b.letter, r.letter)
  /\ Agree(b.vidpid, r.vidpid)
  /\ Agree(FoldInstance(b.instance), FoldInstance(r.instance))

(* _Burst.is_compatible: two known values that differ keep raws apart.      *)
IsCompatible(b, r) ==
  /\ b.action = r.action
  /\ Agree(b.letter, r.letter)
  /\ Agree(b.vidpid, r.vidpid)
  /\ Agree(FoldInstance(b.instance), FoldInstance(r.instance))

PreferPath(candidate, current) ==
  /\ candidate # None
  /\ current = None \/ (candidate \in UsbPath /\ current \notin UsbPath)

(* _Burst.merge: the first known value of a field stays.                    *)
Merge(b, r) ==
  [b EXCEPT !.last = now,
            !.raws = @ \cup {Len(seen) + 1},
            !.kinds = @ \cup {r.kind},
            !.letter = FirstOf(@, r.letter),
            !.vidpid = FirstOf(@, r.vidpid),
            !.instance = FirstOf(@, r.instance),
            !.path = IF PreferPath(r.path, @) THEN r.path ELSE @]

NewBurst(r) ==
  [id |-> Len(seen) + 1, action |-> r.action, first |-> now, last |-> now,
   raws |-> {}, kinds |-> {}, letter |-> None, vidpid |-> None,
   instance |-> None, path |-> None]

(* _Burst.should_emit: a USB interface or a lettered volume, not a disk.    *)
ShouldEmit(b) == "usb" \in b.kinds \/ ("volume" \in b.kinds /\ b.letter # None)

(* compose_device_id, then the drive letter, then no identity at all.       *)
DeviceId(b) ==
  IF b.vidpid # None THEN <<"vidpid", b.vidpid, b.instance>>
  ELSE IF b.path # None THEN <<"path", b.path>>
  ELSE IF b.letter # None THEN <<"volume", b.letter>>
  ELSE <<>>

BurstToEvent(b) ==
  [type |-> b.action, device_id |-> DeviceId(b), vidpid |-> b.vidpid,
   serial |-> b.instance, letter |-> b.letter, raws |-> b.raws]

(* Fault: a burst that keeps receiving raws never reaches max_wait.         *)
ReadyWhenQuiet(b) == now - b.last >= Quiet

Ready(b) == now - b.last >= Quiet \/ now - b.first >= MaxWait

(* The bursts leave _open and become events, or are dropped as noise.       *)
Close(bursts) ==
  /\ events' = events \cup {BurstToEvent(b) : b \in {c \in bursts : ShouldEmit(c)}}
  /\ dropped' = dropped \cup {b \in bursts : ~ShouldEmit(b)}

-----------------------------------------------------------------------------
(* ingest: flush what is ready, then join the oldest compatible burst.      *)
Ingest(r) ==
  LET waiting == {b \in open : ~Ready(b)}
      fitting == {b \in waiting : IsCompatible(b, r)}
  IN  /\ Len(seen) < MaxRaws
      /\ Close(open \ waiting)
      /\ seen' = Append(seen, [raw |-> r, at |-> now])
      /\ \/ /\ fitting = {}
            /\ open' = waiting \cup {Merge(NewBurst(r), r)}
         \/ \E b \in fitting :
              /\ \A c \in fitting : b.id <= c.id
              /\ open' = (waiting \ {b}) \cup {Merge(b, r)}
      /\ UNCHANGED now

(* Fault: the ready bursts are reported but stay open.                      *)
FlushReadyKeepingOpen ==
  /\ Close({b \in open : Ready(b)})
  /\ UNCHANGED <<now, open, seen>>

FlushReady ==
  /\ open' = {b \in open : ~Ready(b)}
  /\ Close({b \in open : Ready(b)})
  /\ UNCHANGED <<now, seen>>

FlushAll ==
  /\ open' = {}
  /\ Close(open)
  /\ UNCHANGED <<now, seen>>

Tick ==
  /\ now < MaxTime
  /\ now' = now + 1
  /\ UNCHANGED <<open, seen, events, dropped>>

Next == (\E r \in Raw : Ingest(r)) \/ FlushReady \/ FlushAll \/ Tick

Spec == Init /\ [][Next]_vars

-----------------------------------------------------------------------------
Burst ==
  [id : 1 .. MaxRaws, action : {r.action : r \in Raw},
   first : 0 .. MaxTime, last : 0 .. MaxTime,
   raws : SUBSET (1 .. MaxRaws), kinds : SUBSET {r.kind : r \in Raw},
   letter : {r.letter : r \in Raw} \cup {None},
   vidpid : {r.vidpid : r \in Raw} \cup {None},
   instance : {r.instance : r \in Raw} \cup {None},
   path : {r.path : r \in Raw} \cup {None}]

TypeOK ==
  /\ now \in 0 .. MaxTime
  /\ open \subseteq Burst /\ dropped \subseteq Burst
  /\ seen \in Seq([raw : Raw, at : 0 .. MaxTime])
  /\ Len(seen) <= MaxRaws
  /\ \A b \in open \cup dropped \cup events : b.raws \subseteq 1 .. Len(seen)

(* What is in one burst may be told as one device: same action, and no two  *)
(* different letters, VID:PIDs or instance ids.                             *)
SameDevice(raws) ==
  \A i, j \in raws :
    LET r == seen[i].raw
        s == seen[j].raw
    IN  /\ r.action = s.action
        /\ Agree(r.letter, s.letter)
        /\ Agree(r.vidpid, s.vidpid)
        /\ Agree(FoldInstance(r.instance), FoldInstance(s.instance))

(* "Different USB serials stay separate even if VID/PID match": comparing a *)
(* raw with the burst's first known values keeps every pair of raws of an   *)
(* event apart that the coalescer was told are different devices.           *)
NoMixedEvents ==
  /\ \A b \in open \cup dropped : SameDevice(b.raws)
  /\ \A e \in events : SameDevice(e.raws)

(* Every raw ingested is accounted for in exactly one open burst, event or  *)
(* dropped burst: flushing neither loses nor repeats a notification.        *)
Owners(i) == {b \in open \cup dropped : i \in b.raws} \cup {e \in events : i \in e.raws}
EachRawOnce ==
  /\ \A i \in 1 .. Len(seen) : Cardinality(Owners(i)) = 1
  /\ open \cap dropped = {}

(* The two windows: raws reported as one event arrived less than max_wait   *)
(* apart, each less than quiet_period after the one before it.              *)
WithinWindows(raws) ==
  \A i \in raws :
    /\ \A j \in raws : i < j => seen[j].at - seen[i].at < MaxWait
    /\ \/ \A j \in raws : i <= j
       \/ \E j \in raws : j < i /\ seen[i].at - seen[j].at < Quiet
BurstsWithinWindows ==
  /\ \A b \in open \cup dropped : WithinWindows(b.raws)
  /\ \A e \in events : WithinWindows(e.raws)

(* What the monitor relies on: seen from outside, where a burst is the set  *)
(* of its raws, this coalescer does nothing that Coalescer does not allow.  *)
RawsOf(bursts) == {b.raws : b \in bursts}
Outside == INSTANCE Coalescer WITH
  RawId <- 1 .. MaxRaws, Action <- {r.action : r \in Raw},
  action <- [i \in 1 .. Len(seen) |-> seen[i].raw.action],
  open <- RawsOf(open), ripe <- RawsOf({b \in open : Ready(b)})
IsACoalescer == Outside!Spec
=============================================================================

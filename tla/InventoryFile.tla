--------------------------- MODULE InventoryFile ---------------------------
(***************************************************************************)
(* usb_monitor/inventory/device_inventory.py and storage/atomic.py: every   *)
(* change of a DeviceInventory object is made under its lock and then saved *)
(* outside it, by copying the table and replacing data/inventory/           *)
(* devices.json in one rename.  The worker of a monitor and the window's    *)
(* trust buttons share one object; the trust command and a window without   *)
(* a monitor load an object of their own.                                   *)
(*                                                                         *)
(* A table maps the devices it has to whether they are trusted; how a       *)
(* record is found and merged is module DeviceInventory.  A missing file is *)
(* an empty one.                                                            *)
(***************************************************************************)
EXTENDS Integers, FiniteSets

CONSTANTS
  Device,       \* the devices observed
  Instance,     \* the DeviceInventory objects
  Thread,       \* the threads that use them
  Worker,       \* those that observe; the others are the operator's
  Uses,         \* the object each thread uses
  MaxChanges,   \* bound: changes made by all threads
  MaxMishaps    \* bound: failed reads and writes, and exits with work undone

ASSUME FileAssumption ==
  /\ MaxChanges \in Nat /\ MaxMishaps \in Nat
  /\ Worker \subseteq Thread
  /\ Uses \in [Thread -> Instance]

Table == UNION {[known -> BOOLEAN] : known \in SUBSET Device}
Empty == [d \in {} |-> FALSE]

VARIABLES
  up,         \* the objects in use
  memory,     \* their tables, _devices
  file,       \* what devices.json holds
  pc,         \* each thread is "idle", about to "save", or in the "write"
  snapshot,   \* the table save() has copied
  announced,  \* how often each device was told as FIRST_SEEN (history)
  decided,    \* the operator's last decision on each device (history)
  troubles,   \* what happened that may cost data (history)
  changes, mishaps \* counters for the bounds

threads == <<pc, snapshot>>
told == <<announced, decided>>
bounds == <<changes, mishaps>>
vars == <<up, memory, file, threads, told, troubles, bounds>>

Init ==
  /\ up = {} /\ file = Empty
  /\ memory = [i \in Instance |-> Empty]
  /\ pc = [t \in Thread |-> "idle"]
  /\ snapshot = [t \in Thread |-> Empty]
  /\ announced = [d \in Device |-> 0]
  /\ decided = [d \in Device |-> FALSE]
  /\ troubles = {} /\ changes = 0 /\ mishaps = 0

ThreadsOf(i) == {t \in Thread : Uses[t] = i}
Mishap == mishaps < MaxMishaps /\ mishaps' = mishaps + 1
Overlap(occurs) == IF occurs THEN {"overlap"} ELSE {}
(* What lasts until the next save is done, or the object is gone: since the *)
(* last one a write failed, or the file could not be read.                  *)
Passing == {"unwritten", "unread"}

-----------------------------------------------------------------------------
(* DeviceInventory.load, beside another object or alone.                    *)
Load(i) ==
  /\ i \notin up
  /\ up' = up \cup {i}
  /\ memory' = [memory EXCEPT ![i] = file]
  /\ troubles' = troubles \cup Overlap(up # {})
  /\ UNCHANGED <<file, threads, told, bounds>>

(* A file that is there and cannot be read or parsed is treated as empty.   *)
Misread(i) ==
  /\ i \notin up /\ file # Empty
  /\ up' = up \cup {i}
  /\ memory' = [memory EXCEPT ![i] = Empty]
  /\ Mishap /\ troubles' = troubles \cup {"misread", "unread"} \cup Overlap(up # {})
  /\ UNCHANGED <<file, threads, told, changes>>

(* Fault: a change that is not saved.                                       *)
ChangeUnsaved(t, table) ==
  /\ pc[t] = "idle" /\ Uses[t] \in up /\ changes < MaxChanges
  /\ changes' = changes + 1
  /\ memory' = [memory EXCEPT ![Uses[t]] = table]
  /\ UNCHANGED <<up, file, threads, troubles, mishaps>>

(* A change under the lock, by a thread that will then save.  It overlaps   *)
(* the save of a thread that has already copied the table.                  *)
Change(t, table) ==
  /\ pc[t] = "idle" /\ Uses[t] \in up /\ changes < MaxChanges
  /\ changes' = changes + 1
  /\ memory' = [memory EXCEPT ![Uses[t]] = table]
  /\ pc' = [pc EXCEPT ![t] = "save"]
  /\ troubles' = troubles \cup Overlap(\E s \in ThreadsOf(Uses[t]) : pc[s] = "write")
  /\ UNCHANGED <<up, file, snapshot, mishaps>>

Known(t) == DOMAIN memory[Uses[t]]
With(table, d, trusted) ==
  [e \in DOMAIN table \cup {d} |-> IF e = d THEN trusted ELSE table[e]]

(* observe: a new record is FIRST_SEEN and untrusted.                       *)
ObserveFirst(t, d) ==
  /\ t \in Worker /\ d \notin Known(t)
  /\ Change(t, With(memory[Uses[t]], d, FALSE))
  /\ announced' = [announced EXCEPT ![d] = @ + 1]
  /\ UNCHANGED decided

(* Fault: observing a known device resets the operator's flag.              *)
RefreshResetting(t, d) ==
  /\ t \in Worker /\ d \in Known(t)
  /\ Change(t, With(memory[Uses[t]], d, FALSE))
  /\ UNCHANGED told

(* observe of a known device, update_risk: the record keeps its flag.       *)
Refresh(t, d) ==
  /\ t \in Worker /\ d \in Known(t)
  /\ Change(t, memory[Uses[t]])
  /\ UNCHANGED told

(* set_trusted, from the window or the command line.                        *)
SetTrusted(t, d, trusted) ==
  /\ t \notin Worker /\ d \in Known(t)
  /\ Change(t, With(memory[Uses[t]], d, trusted))
  /\ decided' = [decided EXCEPT ![d] = trusted]
  /\ UNCHANGED announced

-----------------------------------------------------------------------------
(* save(): list_devices copies the table under the lock.                    *)
TakeSnapshot(t) ==
  /\ pc[t] = "save"
  /\ snapshot' = [snapshot EXCEPT ![t] = memory[Uses[t]]]
  /\ pc' = [pc EXCEPT ![t] = "write"]
  /\ UNCHANGED <<up, memory, file, told, troubles, bounds>>

(* write_text_atomic: the finished temporary file becomes the file, and     *)
(* with it everything an earlier failed write left out.  After a failed read *)
(* it leaves out what the file held.                                        *)
Replace(t) ==
  /\ pc[t] = "write"
  /\ file' = snapshot[t]
  /\ pc' = [pc EXCEPT ![t] = "idle"]
  /\ troubles' = troubles \ Passing
  /\ UNCHANGED <<up, memory, snapshot, told, bounds>>

(* Fault: the file is written in place, a failing write leaves it empty.    *)
WriteFailsInPlace(t) ==
  /\ pc[t] = "write"
  /\ Mishap /\ troubles' = troubles \cup {"unwritten"}
  /\ file' = Empty
  /\ pc' = [pc EXCEPT ![t] = "idle"]
  /\ UNCHANGED <<up, memory, snapshot, told, changes>>

(* An OSError on the way is logged; the file is the one before.             *)
WriteFails(t) ==
  /\ pc[t] = "write"
  /\ Mishap /\ troubles' = troubles \cup {"unwritten"}
  /\ pc' = [pc EXCEPT ![t] = "idle"]
  /\ UNCHANGED <<up, memory, file, snapshot, told, changes>>

(* The object is gone, by exit or crash, at any point of a save: nothing is *)
(* saved on the way out.                                                    *)
Exit(i) ==
  /\ i \in up
  /\ up' = up \ {i}
  /\ memory' = [memory EXCEPT ![i] = Empty]
  /\ pc' = [t \in Thread |-> IF Uses[t] = i THEN "idle" ELSE pc[t]]
  /\ IF "unwritten" \in troubles \/ \E t \in ThreadsOf(i) : pc[t] # "idle"
     THEN Mishap /\ troubles' = (troubles \ Passing) \cup {"undone"}
     ELSE troubles' = troubles \ Passing /\ UNCHANGED mishaps
  /\ UNCHANGED <<file, snapshot, told, changes>>

Save(t) == TakeSnapshot(t) \/ Replace(t) \/ WriteFails(t)
Operate(t) == \E d \in Device :
  ObserveFirst(t, d) \/ Refresh(t, d) \/ \E trusted \in BOOLEAN : SetTrusted(t, d, trusted)
Next ==
  \/ \E i \in Instance : Load(i) \/ Misread(i) \/ Exit(i)
  \/ \E t \in Thread : Operate(t) \/ Save(t)

Spec == Init /\ [][Next]_vars

-----------------------------------------------------------------------------
TypeOK ==
  /\ up \subseteq Instance
  /\ memory \in [Instance -> Table] /\ file \in Table
  /\ pc \in [Thread -> {"idle", "save", "write"}]
  /\ snapshot \in [Thread -> Table]
  /\ announced \in [Device -> Nat] /\ decided \in [Device -> BOOLEAN]
  /\ troubles \subseteq {"overlap", "misread", "unread", "unwritten", "undone"}
  /\ changes \in 0 .. MaxChanges /\ mishaps \in 0 .. MaxMishaps
  /\ \A t \in Thread : pc[t] # "idle" => Uses[t] \in up

(* Once the saves under way are over, the file is the table in memory,      *)
(* unless nothing was saved since a write or a read last failed.  A crash,  *)
(* an exit, a misread or a failed write before that is no excuse: the next  *)
(* save makes it good.  An overlap is.                                      *)
AtRest == \A t \in Thread : pc[t] = "idle"
Apart == "overlap" \notin troubles
FileCatchesUp ==
  AtRest /\ Apart /\ troubles \cap Passing = {} => \A i \in up : file = memory[i]

(* docs/ARCHITECTURE.md: "inventory is not capped so first-seen history     *)
(* remains": no step of a save, done, failed or cut short, takes a device   *)
(* out of the file, unless saves overlapped or it is the first save done    *)
(* after the file could not be read.                                        *)
Unread == "unread" \in troubles
HistoryRemains ==
  [][Apart' /\ ~Unread => DOMAIN file \subseteq DOMAIN file']_vars

(* ... and nobody but the operator changes a device's flag in it.           *)
TrustIsTheOperators ==
  [][Apart' /\ ~Unread =>
       \A d \in DOMAIN file \cap DOMAIN file' : file'[d] # file[d] => file'[d] = decided[d]]_vars

(* Across restarts a device is told as FIRST_SEEN again only if its record  *)
(* was lost: by a misread, an overlap, or an exit before the save.          *)
KnownAfterRestart ==
  troubles \subseteq {"unwritten"} => \A d \in Device : announced[d] <= 1

(* docs/ARCHITECTURE.md:84 "inventory is not capped so first-seen history    *)
(* remains", read for a monitor and a window in which nothing fails and      *)
(* every save ends: no device is told as FIRST_SEEN twice.  It is, when the  *)
(* window's save of an older table overtakes the worker's.                   *)
FirstSeenHistoryRemains == \A d \in Device : announced[d] <= 1
=============================================================================

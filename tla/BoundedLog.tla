------------------------------ MODULE BoundedLog ------------------------------
(***************************************************************************)
(* What storage/event_store.py and alert_store.py promise of a history file *)
(* ("Oldest events are dropped when the record cap is exceeded"), seen by   *)
(* whoever loads it: the records kept are numbered in the order they were   *)
(* made; newer ones come in, the oldest go, and only to make room.  Nothing *)
(* is said of how, when or by whom the file is written.                     *)
(***************************************************************************)
EXTENDS Integers, FiniteSets

CONSTANT Cap   \* max_records

VARIABLES
  kept,        \* the records a load of the file gives
  doubtful     \* who writes next has not seen what the file holds

vars == <<kept, doubtful>>

Extends(old, new) ==
  /\ \A x \in new \ old, y \in old : y < x
  /\ \A x \in old \ new, y \in new : x < y
  /\ old \subseteq new \/ Cardinality(new) = Cap

Init == kept \in SUBSET Nat /\ doubtful = FALSE

Next == doubtful \/ Extends(kept, kept')

Spec == Init /\ [][Next]_vars
=============================================================================

----------------------------- MODULE EventSource -----------------------------
(***************************************************************************)
(* monitoring/event_source.py: what the monitor may expect of any           *)
(* EventSource, between whose threads there is nothing but a queue.  Raw    *)
(* notifications are numbered in the order in which the system tells them;  *)
(* poll() takes the oldest that waits, and one is lost only to a queue that *)
(* is full.                                                                *)
(***************************************************************************)
EXTENDS Integers, Sequences

CONSTANTS
  MaxRaws,   \* bound: raw notifications
  Capacity   \* the capacity of the queue

VARIABLES
  arrived,   \* how many notifications were told
  queue      \* those that wait

vars == <<arrived, queue>>

Init == arrived = 0 /\ queue = <<>>

Arrive ==
  /\ arrived < MaxRaws
  /\ arrived' = arrived + 1
  /\ \/ Len(queue) < Capacity /\ queue' = Append(queue, arrived')
     \/ Len(queue) >= Capacity /\ UNCHANGED queue

Poll == queue # <<>> /\ queue' = Tail(queue) /\ UNCHANGED arrived

(* The mock source gives all at once, too.                                  *)
TakeAll == queue' = <<>> /\ UNCHANGED arrived

Next == Arrive \/ Poll \/ TakeAll
Spec == Init /\ [][Next]_vars
-----------------------------------------------------------------------------
Waiting == {queue[k] : k \in DOMAIN queue}

(* The notifications that wait are in the order of their arrival.           *)
InOrder ==
  /\ \A j, k \in DOMAIN queue : j < k => queue[j] < queue[k]
  /\ Waiting \subseteq 1 .. arrived

(* One that was taken, or was lost, does not come back, and none is taken   *)
(* before one that has waited for longer.                                   *)
TakenInOrder ==
  [][/\ Waiting' \subseteq Waiting \cup {arrived + 1}
     /\ \A i \in Waiting \ Waiting' : \A j \in Waiting' : i < j]_vars
=============================================================================

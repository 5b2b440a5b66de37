------------------------------ MODULE Coalescer ------------------------------
(***************************************************************************)
(* What monitoring/normalizer.py promises to the monitor, which calls       *)
(* ingest, flush_ready and flush_all: a notification joins at most one open *)
(* burst, one of its own action that is not due; a call hands over all the  *)
(* bursts that are due, or all there are, and a burst it has handed over is *)
(* the caller's.  Nothing is said of the windows, nor of what else is       *)
(* compared, so that bursts may be due at any time.                         *)
(***************************************************************************)
CONSTANTS
  RawId,    \* the notifications
  Action    \* arrival and removal

VARIABLES
  action,   \* [the notifications passed to ingest -> Action]
  open,     \* the bursts not handed over, each the set of its notifications
  ripe      \* those that the next flush_ready or ingest hands over

vars == <<action, open, ripe>>

Init == DOMAIN action = {} /\ open = {} /\ ripe = {}

Told == DOMAIN action
Pass(raw, a) ==
  /\ raw \notin Told /\ Told' = Told \cup {raw}
  /\ action' = [i \in Told' |-> IF i = raw THEN a ELSE action[i]]

(* With a quiet period of 0 the burst is due at once.                       *)
Ingest(raw, a) ==
  /\ Pass(raw, a)
  /\ \E b \in (open \ ripe) \cup {{}} :
       /\ \A i \in b : action[i] = a
       /\ open' = ((open \ ripe) \ {b}) \cup {b \cup {raw}}
       /\ ripe' \in {{}, {b \cup {raw}}}

(* ingest raised.                                                           *)
Refuse(raw, a) == Pass(raw, a) /\ UNCHANGED <<open, ripe>>

Flush ==
  /\ \E closed \in {ripe, open} : open' = open \ closed /\ ripe' = ripe \ closed
  /\ UNCHANGED action

Ripen ==
  /\ ripe \subseteq ripe' /\ ripe' \subseteq open
  /\ UNCHANGED <<action, open>>

Next ==
  \/ Ripen
  \/ Flush
  \/ \E raw \in RawId, a \in Action : Ingest(raw, a) \/ Refuse(raw, a)

Spec == Init /\ [][Next]_vars
-----------------------------------------------------------------------------
(* No notification is in two open bursts, and none joins one of the other   *)
(* action.                                                                  *)
BurstsApart ==
  /\ \A b, c \in open : b = c \/ b \cap c = {}
  /\ \A b \in open : b \subseteq Told /\ \A i, j \in b : action[i] = action[j]

(* What was handed over does not come back.                                 *)
HandedOverOnce == [][\A i \in Told : (\E b \in open' : i \in b) => \E b \in open : i \in b]_vars
=============================================================================

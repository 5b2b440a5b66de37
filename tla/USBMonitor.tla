----------------------------- MODULE USBMonitor -----------------------------
(***************************************************************************)
(* usb_monitor/monitoring/monitor.py: one worker thread runs run(): it      *)
(* polls the event source, coalesces raw notifications into bursts, takes   *)
(* each closed burst through _queue_event and hands the events it yields to *)
(* the caller.  Notifications arrive, time passes, the stop flag is set and *)
(* Ctrl+C strikes between any two steps of the worker.                      *)
(*                                                                         *)
(* Raw notifications are numbered in order of arrival.  A burst is the set  *)
(* of its raws; module EventNormalizer says which raws may share one, here  *)
(* any open burst of the same action may be joined, and "ripe" are those    *)
(* whose quiet period or max_wait is over.  Exceptions caught inside        *)
(* _queue_event show as a missing observation, assessment or store record.  *)
(*                                                                         *)
(* Instead of run() a test or demo may push notifications into the mock     *)
(* source (mock_source.py) and call replay() and drain() (owner "caller").  *)
(***************************************************************************)
EXTENDS Integers, Sequences, FiniteSets

CONSTANTS
  MaxRaws,      \* bound: raw notifications per behaviour
  Connects,     \* the raws that are arrivals, the others are removals
  Noise,        \* the raws that alone make no event (disk follow-ups)
  MaxFailures,  \* bound: failed polls and failed ingests
  MaxInterrupts \* bound: KeyboardInterrupts

RawId == 1 .. MaxRaws

ASSUME MonitorAssumption ==
  /\ MaxRaws \in Nat /\ MaxFailures \in Nat /\ MaxInterrupts \in Nat
  /\ Connects \subseteq RawId /\ Noise \subseteq RawId

VARIABLES
  owner,        \* who starts and stops the source: "run", "context" (__enter__),
                \* or a caller of replay()
  running,      \* the source's is_running
  arrived,      \* raws notified so far
  queue,        \* the source's queue
  stop,         \* stop_when() is true, or the deadline has passed
  expired,      \* the deadline of the poll() in progress has passed
  open, ripe,   \* the coalescer's open bursts, and those ready to close
  pc,           \* where the worker is
  back,         \* where it goes after a "for event in ...: _queue_event" loop
  batch,        \* the raws replay() has pulled and not yet fed
  todo,         \* the closed bursts that loop has left
  emitting,     \* the events the current _queue_event has left to _emit
  pending,      \* _pending
  hand,         \* events taken from _pending and not yet delivered
  delivered,    \* the events on_event was called with (history)
  stored,       \* the event store
  failures, interrupts, \* counters for the bounds
  cut,          \* what a Ctrl+C cut short: run()'s "finally" clause, "stop" (history)
  failed        \* raws a failing ingest dropped (history)

source == <<owner, running, arrived, queue, batch>>
bursts == <<open, ripe, failed>>
output == <<pending, hand, delivered, stored>>
bounds == <<failures, interrupts, cut>>
vars == <<source, stop, expired, bursts, pc, back, todo, emitting, output, bounds>>

Init ==
  /\ owner \in {"run", "context", "caller"}
  /\ running = FALSE /\ arrived = 0 /\ queue = <<>> /\ batch = <<>>
  /\ stop = FALSE /\ expired = FALSE
  /\ open = {} /\ ripe = {} /\ failed = {}
  /\ pc = "idle" /\ back = "idle" /\ todo = {} /\ emitting = <<>>
  /\ pending = <<>> /\ hand = <<>> /\ delivered = <<>> /\ stored = <<>>
  /\ failures = 0 /\ interrupts = 0 /\ cut = {}

-----------------------------------------------------------------------------
(* The surroundings: the source's own thread, time, the operator.  The mock  *)
(* source takes a push whether or not it was started.                       *)
Notify ==
  /\ running \/ (owner = "caller" /\ pc = "idle")
  /\ arrived < MaxRaws
  /\ arrived' = arrived + 1
  /\ queue' = Append(queue, arrived + 1)
  /\ UNCHANGED <<owner, running, batch, stop, expired, bursts, pc, back, todo, emitting, output, bounds>>

(* Fault: the newest is taken.                                              *)
PopNewest == queue # <<>> /\ queue' = SubSeq(queue, 1, Len(queue) - 1)

(* What takes from the source: its _pop in a poll, and its take_all.        *)
Pop == queue # <<>> /\ queue' = Tail(queue)
TakeAll == batch' = queue /\ queue' = <<>>

Ripen(b) ==
  /\ b \in open \ ripe
  /\ ripe' = ripe \cup {b}
  /\ UNCHANGED <<source, stop, expired, open, failed, pc, back, todo, emitting, output, bounds>>

Expire ==
  /\ ~expired /\ (pc = "poll" \/ back = "poll")
  /\ expired' = TRUE
  /\ UNCHANGED <<source, stop, bursts, pc, back, todo, emitting, output, bounds>>

RequestStop ==
  /\ ~stop /\ owner # "caller"
  /\ stop' = TRUE
  /\ UNCHANGED <<source, expired, bursts, pc, back, todo, emitting, output, bounds>>

-----------------------------------------------------------------------------
Goto(l) == pc' = l

(* A _queue_event loop over the bursts just closed; noise makes no event.   *)
QueueEvents(closed, next) ==
  /\ todo' = {b \in closed : ~(b \subseteq Noise)}
  /\ back' = next
  /\ Goto("queue")
  /\ UNCHANGED <<emitting, output>>

(* flush_ready and flush_all hand over bursts, which leave the open ones.   *)
Flush(closed, next) ==
  /\ open' = open \ closed
  /\ ripe' = ripe \ closed
  /\ QueueEvents(closed, next)
  /\ UNCHANGED failed

Start ==
  /\ pc = "idle" /\ owner # "caller"
  /\ running' = TRUE
  /\ Goto("loop")
  /\ UNCHANGED <<owner, arrived, queue, batch, stop, expired, bursts, back, todo, emitting, output, bounds>>

(* run(): stop_when and the deadline are looked at before every poll.       *)
Loop ==
  /\ pc = "loop"
  /\ Goto(IF stop THEN "finally" ELSE "poll")
  /\ expired' = FALSE
  /\ UNCHANGED <<source, stop, bursts, back, todo, emitting, output, bounds>>

(* _pop_pending: an event that waits is returned before the source is read. *)
PopPending ==
  /\ pc \in {"poll", "return"} /\ pending # <<>>
  /\ hand' = <<Head(pending)>>
  /\ pending' = Tail(pending)
  /\ Goto("deliver")
  /\ UNCHANGED <<source, stop, expired, bursts, back, todo, emitting, delivered, stored, bounds>>

(* Fault: the branch taken at the deadline goes on polling.                 *)
PollExpiredContinuing ==
  /\ pc = "poll" /\ pending = <<>> /\ expired
  /\ Flush(ripe, "poll")
  /\ UNCHANGED <<source, stop, expired, bounds>>

PollExpired ==
  /\ pc = "poll" /\ pending = <<>> /\ expired
  /\ Flush(ripe, "return")
  /\ UNCHANGED <<source, stop, expired, bounds>>

ReturnNone ==
  /\ pc = "return" /\ pending = <<>>
  /\ Goto("loop")
  /\ UNCHANGED <<source, stop, expired, bursts, back, todo, emitting, output, bounds>>

(* source.poll came back empty.                                             *)
PollNone ==
  /\ pc = "poll" /\ pending = <<>> /\ ~expired /\ queue = <<>>
  /\ Flush(ripe, "poll")
  /\ UNCHANGED <<source, stop, expired, bounds>>

(* source.poll raised: taken as empty.                                      *)
PollFails ==
  /\ pc = "poll" /\ pending = <<>> /\ ~expired /\ failures < MaxFailures
  /\ failures' = failures + 1
  /\ Flush(ripe, "poll")
  /\ UNCHANGED <<source, stop, expired, interrupts, cut>>

SameAction(i, b) == \A j \in b : i \in Connects <=> j \in Connects

(* ingest closes the ripe bursts, then the raw joins an open burst of its   *)
(* action or opens one.                                                     *)
Ingest(raw, next) ==
  /\ \E b \in {c \in open \ ripe : SameAction(raw, c)} \cup {{}} :
       open' = ((open \ ripe) \ {b}) \cup {b \cup {raw}}
  /\ ripe' = {}
  /\ QueueEvents(ripe, next)

(* Fault: the bursts ingest reports stay open.                              *)
PollIngestKeepingRipe ==
  /\ pc = "poll" /\ pending = <<>> /\ ~expired /\ queue # <<>>
  /\ queue' = Tail(queue)
  /\ \E b \in {c \in open \ ripe : SameAction(Head(queue), c)} \cup {{}} :
       open' = (open \ {b}) \cup {b \cup {Head(queue)}}
  /\ ripe' = {}
  /\ QueueEvents(ripe, "poll")
  /\ UNCHANGED <<owner, running, arrived, batch, stop, expired, failed, bounds>>

(* source.poll returned a raw.                                              *)
PollIngest ==
  /\ pc = "poll" /\ pending = <<>> /\ ~expired
  /\ Pop
  /\ Ingest(Head(queue), "poll")
  /\ UNCHANGED <<owner, running, arrived, batch, stop, expired, failed, bounds>>

(* ingest raised: the raw is dropped, the watcher goes on.                  *)
IngestFails ==
  /\ pc = "poll" /\ pending = <<>> /\ ~expired /\ failures < MaxFailures
  /\ failures' = failures + 1
  /\ Pop
  /\ failed' = failed \cup {Head(queue)}
  /\ UNCHANGED <<owner, running, arrived, batch, stop, expired, open, ripe, pc, back, todo,
                 emitting, output, interrupts, cut>>

-----------------------------------------------------------------------------
Event(type, b) == [type |-> type, raws |-> b]
MainType(b) == IF b \subseteq Connects THEN "CONNECT" ELSE "DISCONNECT"
Follow(type, b, wanted) == IF wanted THEN <<Event(type, b)>> ELSE <<>>

(* _queue_event up to its first _emit: an observed CONNECT has a derived    *)
(* event (FIRST_SEEN or KNOWN_DEVICE, told apart by module DeviceInventory), *)
(* an assessed one may be suspicious; either stage may have failed.         *)
Enrich ==
  /\ pc = "queue" /\ emitting = <<>> /\ todo # {}
  /\ \E b \in todo, derived, suspicious \in BOOLEAN :
       /\ \A c \in todo : \E i \in b : \A j \in c : i <= j
       /\ MainType(b) = "DISCONNECT" => ~derived /\ ~suspicious
       /\ todo' = todo \ {b}
       /\ emitting' = <<Event(MainType(b), b)>> \o Follow("DERIVED", b, derived)
                      \o Follow("SUSPICIOUS_DEVICE", b, suspicious)
  /\ UNCHANGED <<source, stop, expired, bursts, pc, back, output, bounds>>

(* Faults: the store comes first and its failure loses the event; the new   *)
(* event is put at the front.                                               *)
EmitStoringFirst ==
  /\ pc = "queue" /\ emitting # <<>>
  /\ emitting' = Tail(emitting)
  /\ \E ok \in BOOLEAN :
       /\ pending' = IF ok THEN Append(pending, Head(emitting)) ELSE pending
       /\ stored' = IF ok THEN Append(stored, Head(emitting)) ELSE stored
  /\ UNCHANGED <<source, stop, expired, bursts, pc, back, todo, hand, delivered, bounds>>
EmitAtFront ==
  /\ pc = "queue" /\ emitting # <<>>
  /\ emitting' = Tail(emitting)
  /\ pending' = <<Head(emitting)>> \o pending
  /\ stored' \in {stored, Append(stored, Head(emitting))}
  /\ UNCHANGED <<source, stop, expired, bursts, pc, back, todo, hand, delivered, bounds>>

(* _emit: the live stream first, then the store, which may fail.            *)
Emit ==
  /\ pc = "queue" /\ emitting # <<>>
  /\ emitting' = Tail(emitting)
  /\ pending' = Append(pending, Head(emitting))
  /\ stored' \in {stored, Append(stored, Head(emitting))}
  /\ UNCHANGED <<source, stop, expired, bursts, pc, back, todo, hand, delivered, bounds>>

Queued ==
  /\ pc = "queue" /\ emitting = <<>> /\ todo = {}
  /\ Goto(back)
  /\ back' = "idle"
  /\ UNCHANGED <<source, stop, expired, bursts, todo, emitting, output, bounds>>

(* _deliver, whether or not the callback raises.                            *)
Deliver ==
  /\ pc \in {"deliver", "leftover"} /\ hand # <<>>
  /\ delivered' = Append(delivered, Head(hand))
  /\ hand' = Tail(hand)
  /\ Goto(IF pc = "deliver" THEN "loop" ELSE pc)
  /\ UNCHANGED <<source, stop, expired, bursts, back, todo, emitting, pending, stored, bounds>>

-----------------------------------------------------------------------------
(* Fault: only the bursts that are ready are flushed at the end.            *)
FinallyReadyOnly ==
  /\ pc = "finally"
  /\ Flush(ripe, IF owner = "run" THEN "stop source" ELSE "drain")
  /\ UNCHANGED <<source, stop, expired, bounds>>

(* The finally clause of run(): flush everything, stop a source that run()  *)
(* started, and deliver what drain() returns.                               *)
Finally ==
  /\ pc = "finally"
  /\ Flush(open, IF owner = "run" THEN "stop source" ELSE "drain")
  /\ UNCHANGED <<source, stop, expired, bounds>>

StopSource ==
  /\ pc \in {"stop source", "exit source"}
  /\ running' = FALSE
  /\ Goto(IF pc = "stop source" THEN "drain" ELSE "done")
  /\ UNCHANGED <<owner, arrived, queue, batch, stop, expired, bursts, back, todo, emitting, output, bounds>>

Drain ==
  /\ pc = "drain"
  /\ Flush(ripe, "take")
  /\ UNCHANGED <<source, stop, expired, bounds>>

TakePending ==
  /\ pc = "take"
  /\ hand' = pending
  /\ pending' = <<>>
  /\ Goto("leftover")
  /\ UNCHANGED <<source, stop, expired, bursts, back, todo, emitting, delivered, stored, bounds>>

Leave ==
  /\ pc = "leftover" /\ hand = <<>>
  /\ Goto(CASE owner = "run" -> "done" [] owner = "context" -> "exit" [] OTHER -> "idle")
  /\ UNCHANGED <<source, stop, expired, bursts, back, todo, emitting, output, bounds>>

(* __exit__ or the caller of replay() calls stop(), which flushes once more.*)
Exit ==
  /\ pc = "exit" \/ (pc = "idle" /\ owner = "caller")
  /\ Flush(open, "exit source")
  /\ UNCHANGED <<source, stop, expired, bounds>>

-----------------------------------------------------------------------------
(* replay() of a mock source (take_all) or of any other, whose queue it     *)
(* polls empty; the caller may also just drain() what is ready by now.      *)
Replay ==
  /\ pc = "idle" /\ owner = "caller"
  /\ \/ TakeAll /\ Goto("feed")
     \/ UNCHANGED <<queue, batch>> /\ pc' \in {"pull", "drain"}
  /\ UNCHANGED <<owner, running, arrived, stop, expired, bursts, back, todo, emitting, output, bounds>>

Pull ==
  /\ pc = "pull"
  /\ Pop
  /\ batch' = Append(batch, Head(queue))
  /\ UNCHANGED <<owner, running, arrived, stop, expired, bursts, pc, back, todo, emitting, output, bounds>>

(* Nothing more, or poll raised: what was pulled is fed.                    *)
PullEnds ==
  /\ pc = "pull"
  /\ \/ queue = <<>> /\ UNCHANGED failures
     \/ failures < MaxFailures /\ failures' = failures + 1
  /\ Goto("feed")
  /\ UNCHANGED <<source, stop, expired, bursts, back, todo, emitting, output, interrupts, cut>>

Feed ==
  /\ pc = "feed" /\ batch # <<>>
  /\ batch' = Tail(batch)
  /\ Ingest(Head(batch), "feed")
  /\ UNCHANGED <<owner, running, arrived, queue, stop, expired, failed, bounds>>

FeedFails ==
  /\ pc = "feed" /\ batch # <<>> /\ failures < MaxFailures
  /\ failures' = failures + 1
  /\ batch' = Tail(batch)
  /\ failed' = failed \cup {Head(batch)}
  /\ UNCHANGED <<owner, running, arrived, queue, stop, expired, open, ripe, pc, back, todo,
                 emitting, output, interrupts, cut>>

Fed ==
  /\ pc = "feed" /\ batch = <<>>
  /\ Goto("drain")
  /\ UNCHANGED <<source, stop, expired, bursts, back, todo, emitting, output, bounds>>

-----------------------------------------------------------------------------
(* Where the worker is: in run's loop, in its finally clause, or in the      *)
(* stop() that __exit__ calls.                                              *)
InLoop == pc \in {"loop", "poll", "return", "deliver"} \/ back \in {"poll", "return"}
InFinally ==
  \/ pc \in {"finally", "stop source", "drain", "take", "leftover"}
  \/ back \in {"stop source", "drain", "take"}
InStop == pc \in {"exit", "exit source"} \/ back = "exit source"

(* Ctrl+C is no Exception: no handler of the pipeline sees it.  Out of the  *)
(* loop it leads into the finally clause, out of that clause to the caller, *)
(* whose with block still calls stop(), and nothing takes up what is left   *)
(* of the clause or of stop().                                              *)
Unwind ==
  \/ InLoop /\ Goto("finally") /\ UNCHANGED cut
  \/ InFinally /\ Goto(IF owner = "context" THEN "exit" ELSE "done") /\ cut' = cut \cup {"finally"}
  \/ InStop /\ Goto("done") /\ cut' = cut \cup {"stop"}

(* Fault: the events already queued are thrown away too.                    *)
InterruptClearing ==
  /\ interrupts < MaxInterrupts /\ owner # "caller"
  /\ interrupts' = interrupts + 1
  /\ Unwind
  /\ back' = "idle" /\ todo' = {} /\ emitting' = <<>> /\ hand' = <<>> /\ pending' = <<>>
  /\ UNCHANGED <<source, stop, expired, bursts, delivered, stored, failures>>

(* Ctrl+C anywhere after start(): what the worker has in its local          *)
(* variables is gone, a raw taken from the source and not yet ingested and  *)
(* the events drain() took too.                                             *)
Interrupt ==
  /\ interrupts < MaxInterrupts /\ owner # "caller"
  /\ interrupts' = interrupts + 1
  /\ Unwind
  /\ back' = "idle" /\ todo' = {} /\ emitting' = <<>> /\ hand' = <<>>
  /\ queue' \in IF pc = "poll" /\ queue # <<>> THEN {queue, Tail(queue)} ELSE {queue}
  /\ UNCHANGED <<owner, running, arrived, batch, stop, expired, bursts, pending, delivered, stored,
                 failures>>

Poll == PopPending \/ PollExpired \/ ReturnNone \/ PollNone \/ PollFails
          \/ PollIngest \/ IngestFails
Worker == Start \/ Loop \/ Poll \/ Enrich \/ Emit \/ Queued \/ Deliver
            \/ Replay \/ Pull \/ PullEnds \/ Feed \/ FeedFails \/ Fed
            \/ Finally \/ StopSource \/ Drain \/ TakePending \/ Leave \/ Exit
RipenAny == \E b \in open : Ripen(b)
Next == Worker \/ Notify \/ RipenAny \/ Expire \/ RequestStop \/ Interrupt

(* The worker thread is scheduled, time passes, and a poll slice of 0.2 s   *)
(* is not over every time before the few instructions that lead to          *)
(* source.poll; raws and the operator owe nothing.                          *)
ReadSource == PollIngest \/ IngestFails
Spec == Init /\ [][Next]_vars
FairSpec == Spec /\ WF_vars(Worker) /\ WF_vars(RipenAny) /\ WF_vars(Expire)
                 /\ SF_vars(ReadSource)
-----------------------------------------------------------------------------
Elems(s) == {s[k] : k \in DOMAIN s}
Burst == (SUBSET RawId) \ {{}}
EventRecord ==
  [type : {"CONNECT", "DISCONNECT", "DERIVED", "SUSPICIOUS_DEVICE"},
   raws : Burst]

TypeOK ==
  /\ running \in BOOLEAN /\ stop \in BOOLEAN /\ expired \in BOOLEAN
  /\ arrived \in 0 .. MaxRaws /\ queue \in Seq(1 .. arrived) /\ batch \in Seq(1 .. arrived)
  /\ open \subseteq Burst /\ ripe \subseteq open /\ todo \subseteq Burst
  /\ failed \subseteq 1 .. arrived
  /\ \A events \in {emitting, pending, hand, delivered, stored} : events \in Seq(EventRecord)
  /\ failures \in 0 .. MaxFailures /\ interrupts \in 0 .. MaxInterrupts
  /\ cut \subseteq {"finally", "stop"}
  /\ pc # "queue" => todo = {} /\ emitting = <<>>
  /\ pc \notin {"deliver", "leftover"} => hand = <<>>

(* What the caller was given, is being given or can still drain(), in       *)
(* order, and what the current _queue_event will still add.                 *)
Stream == delivered \o hand \o pending
Announced == Stream \o emitting
IsMain(e) == e.type \in {"CONNECT", "DISCONNECT"}

(* Where a raw notification is accounted for.                               *)
Places(i) ==
  {<<"queue", k>> : k \in {n \in DOMAIN queue : queue[n] = i}}
    \cup {<<"batch", k>> : k \in {n \in DOMAIN batch : batch[n] = i}}
    \cup {<<"failed", i>> : j \in failed \cap {i}}
    \cup {<<"open", b>> : b \in {c \in open : i \in c}}
    \cup {<<"todo", b>> : b \in {c \in todo : i \in c}}
    \cup {<<"event", k>> : k \in {n \in DOMAIN Announced :
                                    IsMain(Announced[n]) /\ i \in Announced[n].raws}}

(* "A metadata, disk, or callback error must not kill the watcher": at any  *)
(* moment, failures or not, a notification that is more than noise is in    *)
(* exactly one place, the queue, a burst or one CONNECT/DISCONNECT of the   *)
(* live stream; not even Ctrl+C makes one appear twice.                     *)
EachRawOnce ==
  \A i \in 1 .. arrived :
    /\ Cardinality(Places(i)) <= 1
    /\ i \notin Noise /\ interrupts = 0 => Places(i) # {}

(* The shutdown that closes the source: run()'s finally clause when run()   *)
(* started it, else the stop() of the with block or of replay()'s caller.   *)
ShutBy == IF owner = "run" THEN "finally" ELSE "stop"

(* When the watcher has shut down, the source is stopped and no burst is    *)
(* left, unless a Ctrl+C cut short the very clause that does it: a with     *)
(* block makes up for one in run()'s finally clause.  And nothing is left   *)
(* in _pending after run(), unless its finally clause was cut short (a      *)
(* caller of replay() may still drain() what stop() flushed).               *)
CleanShutdown ==
  pc = "done" =>
    /\ batch = <<>>
    /\ ShutBy \notin cut => ~running /\ open = {}
    /\ pending = <<>> \/ owner = "caller" \/ "finally" \in cut

(* The caller hears of a derived or SUSPICIOUS event right after the        *)
(* CONNECT it is about, with nothing of another device in between.          *)
DerivedFollowsConnect ==
  interrupts = 0 =>
    \A k \in DOMAIN Announced : ~IsMain(Announced[k]) =>
      \E j \in 1 .. (k - 1) :
        /\ Announced[j].type = "CONNECT"
        /\ \A n \in j .. k : Announced[n].raws = Announced[k].raws

(* The stored events that are lost to the caller.                           *)
Lost == {k \in DOMAIN stored : stored[k] \notin Elems(Stream)}

(* The store holds a selection of the live stream, once each and in the     *)
(* same order.  A Ctrl+C costs the stream at most the one stored event that *)
(* was on its way to the callback; in run()'s finally clause it may cost    *)
(* all that drain() had taken, but then nothing stored after them.          *)
StoreFollowsStream ==
  /\ Cardinality({k \in Lost : cut = {} \/ \E n \in DOMAIN stored \ Lost : k < n}) <= interrupts
  /\ \A i, j \in DOMAIN stored : stored[i] = stored[j] => i = j
  /\ \A i, j \in DOMAIN stored : i < j =>
       ~\E m, n \in DOMAIN Stream : m < n /\ Stream[m] = stored[j] /\ Stream[n] = stored[i]

(* The pipeline leaves to its coalescer no more and no less than module     *)
(* Coalescer, of which EventNormalizer is one: what has left the source was *)
(* passed to it, or was refused.                                            *)
Ingested == (1 .. arrived) \ (Elems(queue) \cup Elems(batch))
ActionOf(i) == IF i \in Connects THEN "CONNECT" ELSE "DISCONNECT"
Normalizer == INSTANCE Coalescer WITH
  RawId <- RawId, Action <- {"CONNECT", "DISCONNECT"},
  action <- [i \in Ingested |-> ActionOf(i)]
UsesACoalescer == Normalizer!Spec

(* And it takes from its source no more than any EventSource gives, each    *)
(* notification from the front, also when Ctrl+C strikes.  The run's raws   *)
(* are those the source had room for.                                       *)
Source == INSTANCE EventSource WITH Capacity <- MaxRaws
UsesASource == Source!Spec

(* stop_when or the deadline ends run(), and with it the shutdown.          *)
StopEnds == stop ~> pc = "done"

(* A plug or unplug the source reported reaches the callback while the      *)
(* watcher runs: no burst is forgotten and no poll loop starves it.         *)
Reported(i) == \E k \in DOMAIN delivered : i \in delivered[k].raws
EveryRawReported ==
  \A i \in RawId \ Noise :
    i \in Elems(queue) ~>
      (Reported(i) \/ stop \/ interrupts > 0 \/ i \in failed \/ owner = "caller")
=============================================================================

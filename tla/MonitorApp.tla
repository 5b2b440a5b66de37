----------------------------- MODULE MonitorApp -----------------------------
(***************************************************************************)
(* usb_monitor/gui/app.py: the window's main thread starts and stops a      *)
(* worker thread that runs USBMonitor.run; the worker talks back through a  *)
(* queue that the main thread pumps every 200 ms.  Workers are numbered in  *)
(* the order they are started; _monitor is the number of the worker it was  *)
(* created for.  Tables, status texts and dialogs are left out.             *)
(***************************************************************************)
EXTENDS Integers, Sequences, FiniteSets

CONSTANTS
  MaxStarts,  \* bound: worker threads ever started
  MaxQueued   \* bound: messages waiting in the queue for an event to be added

ASSUME AppAssumption == MaxStarts \in Nat /\ MaxQueued \in Nat

WorkerId == 1 .. MaxStarts
NoWorker == 0

VARIABLES
  worker,     \* [WorkerId -> where the thread is]
  thread,     \* _thread: the worker started last, or NoWorker
  monitor,    \* _monitor: the worker whose USBMonitor it is, or NoWorker
  stop,       \* _stop, the threading.Event all workers share
  queue,      \* _queue: the kinds of the messages, in order
  startBtn, stopBtn, \* the buttons are enabled
  window      \* "open", "closing" (in _on_close's join) or "destroyed"

windowVars == <<worker, thread, monitor, stop, queue, startBtn, stopBtn, window>>

WindowInit ==
  /\ worker = [w \in WorkerId |-> "new"]
  /\ thread = NoWorker /\ monitor = NoWorker
  /\ stop = FALSE /\ queue = <<>>
  /\ startBtn = TRUE /\ stopBtn = FALSE
  /\ window = "open"

(* Thread.is_alive(): from start() until the target function has returned.  *)
IsAlive(w) == worker[w] \notin {"new", "dead"}
Alive == {w \in WorkerId : IsAlive(w)}
ThreadIsAlive == thread # NoWorker /\ IsAlive(thread)

-----------------------------------------------------------------------------
(* The operator, on the main thread.                                        *)
(* Fault: Start does not look at the old thread.                            *)
StartMonitorAnyway ==
  /\ window = "open" /\ startBtn /\ thread < MaxStarts
  /\ thread' = thread + 1
  /\ monitor' = thread + 1
  /\ stop' = FALSE
  /\ worker' = [worker EXCEPT ![thread + 1] = "started"]
  /\ startBtn' = FALSE /\ stopBtn' = TRUE
  /\ UNCHANGED <<queue, window>>

(* start_monitor: nothing happens while the last worker is alive, nor when  *)
(* the factory fails.                                                       *)
StartMonitor ==
  /\ window = "open" /\ startBtn /\ ~ThreadIsAlive /\ thread < MaxStarts
  /\ thread' = thread + 1
  /\ monitor' = thread + 1
  /\ stop' = FALSE
  /\ worker' = [worker EXCEPT ![thread + 1] = "started"]
  /\ startBtn' = FALSE /\ stopBtn' = TRUE
  /\ UNCHANGED <<queue, window>>

StopMonitor ==
  /\ window = "open" /\ stopBtn
  /\ stop' = TRUE
  /\ startBtn' = TRUE /\ stopBtn' = FALSE
  /\ UNCHANGED <<worker, thread, monitor, queue, window>>

(* _on_close: the join ends with the thread or after three seconds.         *)
OnClose ==
  /\ window = "open"
  /\ stop' = TRUE
  /\ window' = "closing"
  /\ UNCHANGED <<worker, thread, monitor, queue, startBtn, stopBtn>>
Destroy ==
  /\ window = "closing"
  /\ window' = "destroyed"
  /\ UNCHANGED <<worker, thread, monitor, stop, queue, startBtn, stopBtn>>

(* Fault: the idle window keeps its buttons as they are.                     *)
MarkIdleSilently ==
  /\ monitor' = NoWorker
  /\ UNCHANGED <<startBtn, stopBtn>>

MarkIdle ==
  /\ startBtn' = TRUE /\ stopBtn' = FALSE
  /\ monitor' = NoWorker

(* _pump empties the queue in one go: no click is handled in between.       *)
Pump ==
  /\ window = "open" /\ queue # <<>>
  /\ queue' = <<>>
  /\ IF \E k \in DOMAIN queue : queue[k] \in {"error", "stopped"}
     THEN MarkIdle
     ELSE UNCHANGED <<monitor, startBtn, stopBtn>>
  /\ UNCHANGED <<worker, thread, stop, window>>

-----------------------------------------------------------------------------
(* The worker thread: _worker.                                              *)
Put(kind) == queue' = Append(queue, kind)
Step(w, from, to) ==
  /\ worker[w] = from
  /\ worker' = [worker EXCEPT ![w] = to]
  /\ UNCHANGED <<thread, monitor, stop, startBtn, stopBtn, window>>

(* It reads _monitor, which may be gone by then: it returns without a word. *)
Begin(w) == Step(w, "started", IF monitor = NoWorker THEN "dead" ELSE "running")
              /\ UNCHANGED queue

DeliverEvent(w) == Len(queue) < MaxQueued /\ Step(w, "running", "running") /\ Put("event")

RunEnds(w) == stop /\ Step(w, "running", "ended") /\ UNCHANGED queue
RunRaises(w) == Step(w, "running", "ended") /\ Put("error")
PutStopped(w) == Step(w, "ended", "returning") /\ Put("stopped")
Return(w) == Step(w, "returning", "dead") /\ UNCHANGED queue

Work(w) == Begin(w) \/ RunEnds(w) \/ PutStopped(w) \/ Return(w)
WindowNext ==
  \/ StartMonitor \/ StopMonitor \/ OnClose \/ Destroy \/ Pump
  \/ \E w \in WorkerId : Work(w) \/ DeliverEvent(w) \/ RunRaises(w)

WindowSpec == WindowInit /\ [][WindowNext]_windowVars

(* Threads are scheduled; USBMonitor.run ends once the flag is set, which   *)
(* module USBMonitor shows (StopEnds); Tk calls _pump.                      *)
FairWindowSpec == WindowSpec /\ WF_windowVars(Pump) /\ WF_windowVars(Destroy) /\ \A w \in WorkerId : WF_windowVars(Work(w))

-----------------------------------------------------------------------------
WindowTypeOK ==
  /\ worker \in [WorkerId -> {"new", "started", "running", "ended", "returning", "dead"}]
  /\ thread \in 0 .. MaxStarts /\ monitor \in {NoWorker, thread}
  /\ stop \in BOOLEAN
  /\ queue \in Seq({"event", "error", "stopped"})
  /\ startBtn \in BOOLEAN /\ stopBtn \in BOOLEAN /\ (startBtn => ~stopBtn)
  /\ window \in {"open", "closing", "destroyed"}

(* Two watchers never run at once: they would share the stop flag, the      *)
(* stores on disk and the inventory file.                                   *)
OneWorker == Cardinality(Alive) <= 1

(* Pressing Stop or closing the window is heard by the worker it was meant  *)
(* for, even when Start is pressed right after it: that worker ends.        *)
StopIsHeard ==
  \A w \in WorkerId : (stop /\ IsAlive(w)) ~> worker[w] = "dead"

(* The operator is never left with both buttons of no use: Start is greyed  *)
(* only while a worker lives or its last message is still to be pumped.     *)
NeverLockedOut ==
  startBtn \/ Alive # {} \/ \E k \in DOMAIN queue : queue[k] \in {"error", "stopped"}

(* README.md:163 "Stop / close window (GUI) shuts the watcher down": while  *)
(* the window is open, a worker that listens and was not told to stop can   *)
(* be told to.  A "stopped" message of the worker before it, pumped after a *)
(* restart, greys the button out.                                           *)
StopButtonWorks ==
  \A w \in WorkerId : worker[w] = "running" /\ ~stop /\ window = "open" => stopBtn
=============================================================================

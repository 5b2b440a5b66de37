------------------------- MODULE WindowsEventSource -------------------------
(***************************************************************************)
(* usb_monitor/monitoring/windows_monitor.py: start() runs a message thread *)
(* that loads the API, registers a window class, creates a hidden window    *)
(* and pumps messages into a bounded queue; stop() asks it to quit and      *)
(* joins it.  Both wait for at most five seconds.                           *)
(*                                                                         *)
(* The owner is the one thread that calls start, stop and poll.  It does    *)
(* not start again a source whose thread outlived the join of stop(): the   *)
(* program makes a new source for every start.  Windows is what the code    *)
(* sees of it: a class is not unregistered while it has a window, a message *)
(* posted to a thread that never had a window is lost, a thread that ends   *)
(* takes its window along, and anyone may close a window.                   *)
(***************************************************************************)
EXTENDS Integers, Sequences, FiniteSets

CONSTANTS
  MaxStarts,    \* bound: message threads per behaviour
  MaxRaws,      \* bound: raw notifications
  QueueMax,     \* _QUEUE_MAX, the capacity of the queue
  MaxFailures,  \* bound: failing calls of the API
  MaxInterrupts \* bound: KeyboardInterrupts while start() or stop() runs

ASSUME SourceAssumption ==
  /\ MaxStarts \in Nat /\ MaxRaws \in Nat /\ QueueMax \in Nat \ {0}
  /\ MaxFailures \in Nat /\ MaxInterrupts \in {0, 1}

Thread == 1 .. MaxStarts
None == 0

VARIABLES
  stop, ready, error,            \* _stop, _ready, and whether _start_error is set
  loaded,                        \* _user32 and _kernel32 are set
  thread, threadId, hwnd,        \* _thread, _thread_id, _hwnd: a Thread or None
  handles, atom,                 \* whose handles are in _notify_handles; _class_atom
  queue,                         \* _queue
  class, window, notified, quits, \* Windows: the class is registered; the threads that
                                 \* have a window, registrations, a WM_QUIT posted
  starts,                        \* threads started
  pc,                            \* where each of them is
  closed,                        \* those whose window was closed while they pumped
  crashed, unposted,             \* those whose pump failed, or whose WM_QUIT could not be
                                 \* posted (history)
  emitting,                      \* the raws the window procedure has left to enqueue
  seen, polled,                  \* raws told by Windows, raws polled (history)
  dropped,                       \* raws dropped, each with the number polled by then (history)
  owner,                         \* where the owner is
  gaveUp,                        \* a join timed out
  failures, interrupts           \* counters for the bounds

flags == <<stop, ready, error>>
fields == <<loaded, thread, threadId, hwnd, handles, atom>>
windows == <<class, window, notified, quits>>
raws == <<emitting, seen, queue, polled, dropped>>
bounds == <<failures, interrupts>>
control == <<starts, owner, gaveUp>>
fates == <<closed, crashed, unposted>>
vars == <<flags, fields, windows, raws, bounds, control, pc, fates>>

Init ==
  /\ stop = FALSE /\ ready = FALSE /\ error = FALSE /\ loaded = FALSE
  /\ thread = None /\ threadId = None /\ hwnd = None /\ handles = {} /\ atom = FALSE
  /\ class = FALSE /\ window = {} /\ notified = {} /\ quits = {}
  /\ emitting = <<>> /\ seen = 0 /\ queue = <<>> /\ polled = <<>> /\ dropped = {}
  /\ starts = 0 /\ pc = [t \in Thread |-> "none"] 
  /\ closed = {} /\ crashed = {} /\ unposted = {}
  /\ owner = "idle" /\ gaveUp = FALSE /\ failures = 0 /\ interrupts = 0

Alive(t) == pc[t] \notin {"none", "ended"}
IsRunning == thread # None /\ Alive(thread) /\ ready /\ ~error
Move(t, from, to) == pc[t] = from /\ pc' = [pc EXCEPT ![t] = to]

-----------------------------------------------------------------------------
(* The owner.                                                               *)
Start ==
  /\ owner = "idle" /\ ~IsRunning /\ ~gaveUp /\ starts < MaxStarts
  /\ stop' = FALSE /\ ready' = FALSE /\ error' = FALSE
  /\ starts' = starts + 1
  /\ thread' = starts + 1
  /\ pc' = [pc EXCEPT ![starts + 1] = "load"]
  /\ owner' = "wait"
  /\ UNCHANGED <<loaded, threadId, hwnd, handles, atom, windows, raws, bounds, gaveUp, fates>>

(* start() went on: the thread reported success or a failure, which start   *)
(* answers with stop() and an exception, or the five seconds are over.      *)
StartReady ==
  /\ owner = "wait" /\ ready
  /\ owner' = IF error THEN "stop" ELSE "idle"
  /\ UNCHANGED <<flags, fields, windows, raws, bounds, starts, gaveUp, pc, fates>>

StartTimesOut ==
  /\ owner = "wait" /\ ~ready
  /\ owner' = "stop"
  /\ UNCHANGED <<flags, fields, windows, raws, bounds, starts, gaveUp, pc, fates>>

(* Fault: stop() leaves the flag for its end.                               *)
StopFlagLast ==
  /\ owner \in {"idle", "stop"}
  /\ owner' = "post"
  /\ UNCHANGED <<flags, fields, windows, raws, bounds, starts, gaveUp, pc, fates>>

Stop ==
  /\ owner \in {"idle", "stop"}
  /\ stop' = TRUE
  /\ owner' = "post"
  /\ UNCHANGED <<ready, error, fields, windows, raws, bounds, starts, gaveUp, pc, fates>>

(* The threads that have a message queue.                                   *)
Listening == {t \in window \cup closed : Alive(t)}

Post ==
  /\ owner = "post"
  /\ quits' = quits \cup (IF loaded THEN {threadId} \cap Listening ELSE {})
  /\ owner' = "join"
  /\ UNCHANGED <<flags, fields, class, window, notified, raws, bounds, starts, gaveUp, pc, fates>>

(* PostThreadMessageW raised, which is logged, or returned FALSE.           *)
PostFails ==
  /\ owner = "post" /\ loaded /\ threadId # None /\ failures < MaxFailures
  /\ failures' = failures + 1
  /\ unposted' = unposted \cup {threadId}
  /\ owner' = "join"
  /\ UNCHANGED <<flags, fields, windows, raws, interrupts, starts, gaveUp, pc, closed, crashed>>

Join ==
  /\ owner = "join" /\ (thread # None => ~Alive(thread))
  /\ owner' = "reset"
  /\ UNCHANGED <<flags, fields, windows, raws, bounds, starts, gaveUp, pc, fates>>

JoinTimesOut ==
  /\ owner = "join" /\ thread # None /\ Alive(thread)
  /\ gaveUp' = TRUE
  /\ owner' = "reset"
  /\ UNCHANGED <<flags, fields, windows, raws, bounds, starts, pc, fates>>

Reset ==
  /\ owner = "reset"
  /\ thread' = None /\ hwnd' = None /\ threadId' = None
  /\ ready' = FALSE /\ stop' = TRUE
  /\ owner' = "idle"
  /\ UNCHANGED <<error, loaded, handles, atom, windows, raws, bounds, starts, gaveUp, pc, fates>>

Poll ==
  /\ owner = "idle" /\ queue # <<>>
  /\ polled' = Append(polled, Head(queue))
  /\ queue' = Tail(queue)
  /\ UNCHANGED <<flags, fields, windows, emitting, seen, dropped, bounds, control, pc, fates>>

(* Ctrl+C in start() or stop() unwinds to main(); the process then waits    *)
(* for its message thread.  (While the source runs it only makes run() call *)
(* stop.)                                                                   *)
Interrupt ==
  /\ interrupts < MaxInterrupts /\ owner \notin {"idle", "gone"}
  /\ interrupts' = interrupts + 1
  /\ owner' = "gone"
  /\ UNCHANGED <<flags, fields, windows, raws, failures, starts, gaveUp, pc, fates>>

-----------------------------------------------------------------------------
(* The message thread t, in _run.                                           *)
Load(t) ==
  /\ Move(t, "load", "id")
  /\ loaded' = TRUE
  /\ UNCHANGED <<flags, thread, threadId, hwnd, handles, atom, windows, raws, bounds, control, fates>>

SetId(t) ==
  /\ Move(t, "id", "class")
  /\ threadId' = t
  /\ UNCHANGED <<flags, loaded, thread, hwnd, handles, atom, windows, raws, bounds, control, fates>>

(* RegisterClassW refuses a class that is still registered.                 *)
RegisterClass(t) ==
  /\ Move(t, "class", IF class THEN "fail" ELSE "window")
  /\ class' = TRUE
  /\ atom' = (atom \/ ~class)
  /\ UNCHANGED <<flags, loaded, thread, threadId, hwnd, handles, window, notified, quits, raws,
                 bounds, control, fates>>

CreateWindow(t) ==
  /\ Move(t, "window", "notify")
  /\ window' = window \cup {t}
  /\ hwnd' = t
  /\ UNCHANGED <<flags, loaded, thread, threadId, handles, atom, class, notified, quits, raws,
                 bounds, control, fates>>

(* A registration that fails is only logged.                                *)
RegisterNotifications(t) ==
  /\ Move(t, "notify", "ready")
  /\ handles' \in {{}, {t}}
  /\ notified' = notified \cup handles'
  /\ UNCHANGED <<flags, loaded, thread, threadId, hwnd, atom, class, window, quits, raws,
                 bounds, control, fates>>

Ready(t) ==
  /\ Move(t, "ready", "loop")
  /\ ready' = TRUE
  /\ UNCHANGED <<stop, error, fields, windows, raws, bounds, control, fates>>

(* Loading, the class or the window failed: the error is set, then ready.   *)
SetupFails(t) ==
  /\ failures < MaxFailures
  /\ \E from \in {"load", "class", "window"} : Move(t, from, "fail")
  /\ failures' = failures + 1
  /\ UNCHANGED <<flags, fields, windows, raws, interrupts, control, fates>>

(* Fault: the waiting start() is woken before the error is set.             *)
FailReadyFirst(t) ==
  /\ Move(t, "fail", "announce")
  /\ ready' = TRUE
  /\ UNCHANGED <<stop, error, fields, windows, raws, bounds, control, fates>>

Fail(t) ==
  /\ Move(t, "fail", "announce")
  /\ error' = TRUE
  /\ UNCHANGED <<stop, ready, fields, windows, raws, bounds, control, fates>>

Announce(t) ==
  /\ Move(t, "announce", "unregister")
  /\ ready' = TRUE
  /\ UNCHANGED <<stop, error, fields, windows, raws, bounds, control, fates>>

(* Fault: the flag is not looked at.                                        *)
LoopForever(t) ==
  /\ Move(t, "loop", "get")
  /\ UNCHANGED <<flags, fields, windows, raws, bounds, control, fates>>

(* The flag is looked at before every GetMessageW, which blocks.            *)
Loop(t) ==
  /\ Move(t, "loop", IF stop THEN "unregister" ELSE "get")
  /\ UNCHANGED <<flags, fields, windows, raws, bounds, control, fates>>

GetQuit(t) ==
  /\ t \in quits /\ Move(t, "get", "unregister")
  /\ quits' = quits \ {t}
  /\ UNCHANGED <<flags, fields, class, window, notified, raws, bounds, control, fates>>

(* GetMessageW failed, or something but an OSError was raised between two.  *)
PumpFails(t) ==
  /\ failures < MaxFailures
  /\ emitting = <<>>
  /\ \E from \in {"get", "emit"} : Move(t, from, "unregister")
  /\ failures' = failures + 1
  /\ crashed' = crashed \cup {t}
  /\ UNCHANGED <<flags, fields, windows, raws, interrupts, control, closed, unposted>>

(* A window that is destroyed: WM_DESTROY is answered by PostQuitMessage.   *)
Destroy(gone) ==
  /\ window' = window \ gone
  /\ quits' = quits \cup (gone \cap window)

(* Someone closes the hidden window: WM_CLOSE, sent or posted, comes to     *)
(* DefWindowProcW.  The thread knows nothing of it but the WM_QUIT.         *)
CloseWindow(t) ==
  /\ t \in window
  /\ \E to \in {"get", "loop"} : Move(t, "get", to)
  /\ Destroy({t})
  /\ closed' = closed \cup {t}
  /\ UNCHANGED <<flags, fields, class, notified, raws, bounds, control, crashed, unposted>>

(* WM_DEVICECHANGE: one raw for an interface, one per letter for a volume.  *)
Dispatch(t) ==
  /\ t \in window
  /\ \E n \in 1 .. 2 :
       /\ seen + n <= MaxRaws
       /\ seen' = seen + n
       /\ emitting' = [k \in 1 .. n |-> seen + k]
  /\ Move(t, "get", "emit")
  /\ UNCHANGED <<flags, fields, windows, queue, polled, dropped, bounds, control, fates>>

Drop(i) == [raw |-> i, after |-> Len(polled)]

(* Fault: a full queue gives up its oldest raw.                             *)
EnqueueDroppingOldest(t) ==
  /\ emitting # <<>> /\ pc[t] = "emit"
  /\ emitting' = Tail(emitting)
  /\ IF Len(queue) < QueueMax
       THEN queue' = Append(queue, Head(emitting)) /\ UNCHANGED dropped
       ELSE queue' = Append(Tail(queue), Head(emitting)) /\ dropped' = dropped \cup {Drop(Head(queue))}
  /\ UNCHANGED <<flags, fields, windows, seen, polled, bounds, control, pc, fates>>

Enqueue(t) ==
  /\ emitting # <<>> /\ pc[t] = "emit"
  /\ emitting' = Tail(emitting)
  /\ IF Len(queue) < QueueMax
       THEN queue' = Append(queue, Head(emitting)) /\ UNCHANGED dropped
       ELSE dropped' = dropped \cup {Drop(Head(emitting))} /\ UNCHANGED queue
  /\ UNCHANGED <<flags, fields, windows, seen, polled, bounds, control, pc, fates>>

(* A sent message was handled inside GetMessageW, a posted one outside.     *)
Handled(t) ==
  /\ emitting = <<>>
  /\ \E to \in {"get", "loop"} : Move(t, "emit", to)
  /\ UNCHANGED <<flags, fields, windows, raws, bounds, control, fates>>

-----------------------------------------------------------------------------
(* _cleanup_window: nothing to do when the API was never loaded.            *)
UnregisterHandles(t) ==
  /\ Move(t, "unregister", IF loaded THEN "destroy" ELSE "ended")
  /\ notified' = IF loaded THEN notified \ handles ELSE notified
  /\ handles' = IF loaded THEN {} ELSE handles
  /\ UNCHANGED <<flags, loaded, thread, threadId, hwnd, atom, class, window, quits, raws,
                 bounds, control, fates>>

DestroyWindow(t) ==
  /\ Move(t, "destroy", "unclass")
  /\ Destroy({hwnd} \cap {t})
  /\ hwnd' = None
  /\ UNCHANGED <<flags, loaded, thread, threadId, handles, atom, class, notified, raws,
                 bounds, control, fates>>

(* Fault: the class is left to the window's end.                            *)
EndWithoutUnregister(t) ==
  /\ Move(t, "unclass", "ended")
  /\ atom' = FALSE
  /\ window' = window \ {t}
  /\ quits' = quits \ {t}
  /\ UNCHANGED <<flags, loaded, thread, threadId, hwnd, handles, class, notified, raws, bounds,
                 control, fates>>

UnregisterClass(t) ==
  /\ Move(t, "unclass", "ended")
  /\ class' = (class /\ ~(atom /\ window = {}))
  /\ atom' = FALSE
  /\ window' = window \ {t}
  /\ quits' = quits \ {t}
  /\ UNCHANGED <<flags, loaded, thread, threadId, hwnd, handles, notified, raws, bounds,
                 control, fates>>

Owner == Start \/ StartReady \/ StartTimesOut \/ Stop \/ Post \/ PostFails
           \/ Join \/ JoinTimesOut \/ Reset \/ Poll
Setup(t) == Load(t) \/ SetId(t) \/ RegisterClass(t) \/ CreateWindow(t)
              \/ RegisterNotifications(t) \/ Ready(t) \/ Fail(t) \/ Announce(t)
Pump(t) == Loop(t) \/ GetQuit(t) \/ Enqueue(t) \/ Handled(t)
Cleanup(t) == UnregisterHandles(t) \/ DestroyWindow(t) \/ UnregisterClass(t)
Run(t) == Setup(t) \/ Pump(t) \/ Cleanup(t)

Next ==
  \/ Owner \/ Interrupt
  \/ \E t \in Thread : Run(t) \/ SetupFails(t) \/ PumpFails(t) \/ CloseWindow(t) \/ Dispatch(t)

Spec == Init /\ [][Next]_vars

(* The message thread is scheduled, and a call of the API that does not     *)
(* wait for a message returns in the end.  The owner owes nothing but to    *)
(* go on with a stop() it has begun: its waits are bounded.                 *)
Stopping == owner # "idle" /\ (Stop \/ Post \/ Join \/ JoinTimesOut \/ Reset)
FairSpec == Spec /\ WF_vars(Stopping) /\ \A t \in Thread : WF_vars(Run(t))
-----------------------------------------------------------------------------
Elems(s) == {s[k] : k \in DOMAIN s}
Pumping == {"loop", "get", "emit"}
Leaving == {"unregister", "destroy", "unclass", "ended"}
Place == {"none", "load", "id", "class", "window", "notify", "ready", "fail", "announce",
          "unregister", "destroy", "unclass", "ended"} \cup Pumping

(* Types; raws are left to enqueue only inside the window procedure of a    *)
(* thread that was started.                                                *)
TypeOK ==
  /\ stop \in BOOLEAN /\ ready \in BOOLEAN /\ error \in BOOLEAN /\ loaded \in BOOLEAN
  /\ thread \in Thread \cup {None} /\ threadId \in Thread \cup {None}
  /\ hwnd \in Thread \cup {None} /\ handles \subseteq Thread /\ atom \in BOOLEAN
  /\ class \in BOOLEAN /\ window \subseteq Thread /\ notified \subseteq Thread
  /\ quits \subseteq Thread /\ closed \subseteq Thread /\ crashed \subseteq Thread
  /\ unposted \subseteq Thread
  /\ starts \in 0 .. MaxStarts /\ pc \in [Thread -> Place]
  /\ seen \in 0 .. MaxRaws /\ dropped \subseteq [raw : 1 .. MaxRaws, after : Nat]
  /\ emitting \in Seq(1 .. MaxRaws) /\ queue \in Seq(1 .. MaxRaws) /\ polled \in Seq(1 .. MaxRaws)
  /\ Len(queue) <= QueueMax
  /\ emitting # <<>> => \E t \in Thread : pc[t] = "emit"
  /\ \A t \in Thread : t > starts => pc[t] = "none"
  /\ owner \in {"idle", "wait", "stop", "post", "join", "reset", "gone"}
  /\ gaveUp \in BOOLEAN /\ failures \in 0 .. MaxFailures /\ interrupts \in 0 .. MaxInterrupts

(* No lost wakeup: whenever stop() has set the flag and posted WM_QUIT, a   *)
(* thread that blocks in GetMessageW has the WM_QUIT before it, however the *)
(* stop met the setup of the thread, its window and its identifier, unless  *)
(* Windows refused to post it.                                              *)
StopReachesWatcher ==
  interrupts = 0 /\ stop /\ owner # "post" =>
    \A t \in Thread \ unposted : pc[t] = "get" => t \in quits

(* Once no message thread is left, the window class, the windows and the    *)
(* registrations are gone as well, after every failure of the setup and of  *)
(* the pump, so that the next start does not meet them; only a join that    *)
(* timed out, which takes the window handle from the thread, may leave some. *)
NothingLeftBehind ==
  ~gaveUp /\ (\A t \in Thread : ~Alive(t)) => ~class /\ window = {} /\ notified = {}

(* is_running "after a successful start until stop": while start() has      *)
(* returned and no stop has begun, the thread pumps with its own window,    *)
(* unless its pump has failed or its window was closed; with its window     *)
(* closed it has the WM_QUIT before it or is on its way out, so that        *)
(* is_running does not stay true over a window that is gone.                *)
RunningUntilStop ==
  owner = "idle" /\ thread \in Thread \ crashed =>
    IF thread \in closed
      THEN thread \in quits \/ pc[thread] \in Leaving
      ELSE /\ IsRunning
           /\ pc[thread] \in Pumping /\ hwnd = thread /\ thread \in window

(* The queue keeps the order Windows told the raws in, the letters of a     *)
(* volume included.  A raw is dropped only when QueueMax older ones wait,   *)
(* accepted and not yet polled at that moment.                              *)
OnlyOverflowDrops ==
  LET out == polled \o queue
      lost == {d.raw : d \in dropped} IN
    /\ \A j, k \in DOMAIN out : j < k => out[j] < out[k]
    /\ \A i \in 1 .. seen : i \in Elems(emitting) \/ (i \in Elems(out) /\ i \notin lost)
                              \/ (i \in lost /\ i \notin Elems(out))
    /\ \A d \in dropped :
         Cardinality({k \in DOMAIN out : k > d.after /\ out[k] < d.raw}) >= QueueMax

(* To the monitor this is an EventSource: a notification is told when the   *)
(* window procedure offers it to the queue.                                 *)
Source == INSTANCE EventSource WITH
  Capacity <- QueueMax, arrived <- seen - Len(emitting)
IsAnEventSource == Source!Spec

(* A stop ends every message thread, a stop in the middle of the setup and  *)
(* one whose join timed out too; only a thread whose WM_QUIT Windows        *)
(* refused to post may go on waiting for a message.                         *)
StopEndsWatcher ==
  stop ~> (interrupts > 0 \/ \A t \in Thread \ unposted : ~Alive(t))

(* README.md: "Ctrl+C (CLI) [...] shuts the watcher down": the message      *)
(* thread ends and the process, which waits for it, can exit.               *)
CtrlCEndsWatcher ==
  owner = "gone" ~> \A t \in Thread : ~Alive(t)
=============================================================================

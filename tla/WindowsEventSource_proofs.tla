---------------------- MODULE WindowsEventSource_proofs ----------------------
(* What WindowsEventSource guarantees for any number of starts, raws and    *)
(* failures.                                                               *)
EXTENDS WindowsEventSource, SequenceTheorems, FiniteSetTheorems, TLAPS

WithWindow == {"notify", "ready"} \cup Pumping
WithApi == {"id", "class", "window"} \cup WithWindow
Cleaning == {"unregister", "destroy", "unclass"}

(* Only the thread started last can be alive, and without a join that timed *)
(* out it is the one start() and stop() know of.                            *)
OneThread ==
  /\ thread \in {None, starts}
  /\ starts > 0 => pc[starts] # "none"
  /\ \A t \in Thread : Alive(t) => t = starts /\ (thread = t \/ gaveUp)

(* What the owner knows at each of its places.                              *)
OwnerKnows ==
  /\ owner = "wait" => ~stop /\ ~gaveUp /\ thread = starts
  /\ owner = "idle" /\ thread # None => ready /\ ~error /\ ~stop
  /\ owner \in {"post", "join", "reset"} \/ gaveUp => stop
  /\ owner = "reset" /\ ~gaveUp => \A t \in Thread : ~Alive(t)

(* The handshake: ready is set last, and a thread leaves its pump only for  *)
(* a reason.                                                               *)
Handshake ==
  \A t \in Thread : t = starts =>
    /\ pc[t] = "announce" => error
    /\ thread = t /\ ready => pc[t] \in Pumping \cup Cleaning \cup {"ended"}
    /\ pc[t] \in Leaving => error \/ stop \/ t \in crashed \/ t \in closed

(* A thread's window and identifier are known while it pumps; a WM_QUIT has *)
(* a reason, and one whose window was closed has it or has taken it.        *)
Known ==
  /\ \A t \in quits : stop \/ t \in closed \/ pc[t] \in Leaving
  /\ \A t \in closed : (t \in quits /\ pc[t] \in Pumping) \/ pc[t] \in Leaving
  /\ \A t \in Thread :
       /\ t \in window \/ t \in quits => Alive(t) /\ loaded
       /\ pc[t] \in WithApi => loaded
       /\ pc[t] \in WithWindow => t \in window \/ t \in closed
       /\ pc[t] \in WithWindow \cup {"class", "window"} /\ thread = t => threadId = t
       /\ pc[t] \in WithWindow /\ thread = t => hwnd = t

(* Also while the window procedure runs, which goes back to GetMessageW.    *)
QuitIsPosted ==
  interrupts = 0 /\ stop /\ (owner # "post" \/ gaveUp) =>
    \A t \in Thread : pc[t] \in {"get", "emit"} => t \in quits \/ t \in unposted

IInv == TypeOK /\ OneThread /\ OwnerKnows /\ Handshake /\ Known /\ QuitIsPosted

(* What the source and Windows hold while the thread is at place l.         *)
(* Its handle outlives a window that was closed.                            *)
Clean == ~class /\ hwnd = None /\ notified = {}
HeldAt(l) ==
  /\ class = atom /\ notified = handles /\ window = {hwnd} \ ({None} \cup closed)
  /\ l \in {"none", "load", "id", "class", "ended"} => Clean
  /\ l \in {"fail", "announce", "unregister"} /\ ~loaded => Clean
  /\ l \in {"window", "notify", "destroy", "unclass"} => notified = {}
  /\ l \in {"window", "unclass"} => hwnd = None

Held ==
  ~gaveUp =>
    /\ \A t \in Thread : Alive(t) => HeldAt(pc[t]) /\ hwnd \in {t, None}
    /\ (\A t \in Thread : ~Alive(t)) => HeldAt("ended")

-----------------------------------------------------------------------------
(* The types in three parts: the queue, the raws in hand, and the rest.     *)
QueueOK ==
  /\ seen \in 0 .. MaxRaws /\ dropped \subseteq [raw : 1 .. MaxRaws, after : Nat]
  /\ emitting \in Seq(1 .. MaxRaws) /\ queue \in Seq(1 .. MaxRaws)
  /\ polled \in Seq(1 .. MaxRaws) /\ Len(queue) <= QueueMax

InHand == emitting # <<>> => \E t \in Thread : pc[t] = "emit"

RestOK ==
  /\ stop \in BOOLEAN /\ ready \in BOOLEAN /\ error \in BOOLEAN /\ loaded \in BOOLEAN
  /\ thread \in Thread \cup {None} /\ threadId \in Thread \cup {None}
  /\ hwnd \in Thread \cup {None} /\ handles \subseteq Thread /\ atom \in BOOLEAN
  /\ class \in BOOLEAN /\ window \subseteq Thread /\ notified \subseteq Thread
  /\ quits \subseteq Thread /\ closed \subseteq Thread /\ crashed \subseteq Thread
  /\ unposted \subseteq Thread
  /\ starts \in 0 .. MaxStarts /\ pc \in [Thread -> Place]
  /\ \A t \in Thread : t > starts => pc[t] = "none"
  /\ owner \in {"idle", "wait", "stop", "post", "join", "reset", "gone"}
  /\ gaveUp \in BOOLEAN /\ failures \in 0 .. MaxFailures /\ interrupts \in 0 .. MaxInterrupts

(* TypeOK is its three parts.                                              *)
LEMMA TypeParts == TypeOK <=> QueueOK /\ InHand /\ RestOK
BY DEF TypeOK, QueueOK, InHand, RestOK

(* What Append, Head and Tail do to a queue.                               *)
LEMMA QueueSteps ==
  ASSUME NEW T, NEW q \in Seq(T), NEW e \in T
  PROVE  /\ Append(q, e) \in Seq(T) /\ Len(Append(q, e)) = Len(q) + 1 /\ Len(q) \in Nat
         /\ q # <<>> => Head(q) \in T /\ Tail(q) \in Seq(T) /\ Len(Tail(q)) = Len(q) - 1
OBVIOUS

(* The steps that touch a queue keep it typed and within its capacity.     *)
LEMMA QueueStays ==
  ASSUME QueueOK, [Next]_vars
  PROVE  QueueOK'
<1> USE SourceAssumption DEF QueueOK
<1>1. CASE Poll
  <2>1. queue # <<>> /\ polled' = Append(polled, Head(queue)) /\ queue' = Tail(queue)
        /\ UNCHANGED <<emitting, seen, dropped>>
    BY <1>1 DEF Poll
  <2>2. Head(queue) \in 1 .. MaxRaws /\ Tail(queue) \in Seq(1 .. MaxRaws)
        /\ Len(Tail(queue)) = Len(queue) - 1 /\ Len(queue) \in Nat
    BY <2>1
  <2>3. Append(polled, Head(queue)) \in Seq(1 .. MaxRaws)
    BY <2>2
  <2>4. Len(queue') <= QueueMax
    BY <2>1, <2>2
  <2> QED
    BY <2>1, <2>2, <2>3, <2>4
<1>2. ASSUME NEW t \in Thread, Dispatch(t) PROVE QueueOK'
  <2>1. PICK m \in 1 .. 2 : seen + m <= MaxRaws /\ seen' = seen + m
                            /\ emitting' = [j \in 1 .. m |-> seen + j]
    BY <1>2 DEF Dispatch
  <2>2. seen' \in 0 .. MaxRaws /\ emitting' \in Seq(1 .. MaxRaws)
    BY <2>1
  <2>3. UNCHANGED <<queue, polled, dropped>>
    BY <1>2 DEF Dispatch
  <2> QED
    BY <2>2, <2>3
<1>3. ASSUME NEW t \in Thread, Enqueue(t) PROVE QueueOK'
  <2>1. emitting # <<>> /\ emitting' = Tail(emitting) /\ UNCHANGED <<seen, polled>>
    BY <1>3 DEF Enqueue
  <2>2. Head(emitting) \in 1 .. MaxRaws /\ Tail(emitting) \in Seq(1 .. MaxRaws)
    BY <2>1
  <2>3. CASE Len(queue) < QueueMax
    <3>1. queue' = Append(queue, Head(emitting)) /\ dropped' = dropped
      BY <1>3, <2>3 DEF Enqueue
    <3>2. /\ Append(queue, Head(emitting)) \in Seq(1 .. MaxRaws)
          /\ Len(Append(queue, Head(emitting))) = Len(queue) + 1 /\ Len(queue) \in Nat
      BY <2>2, QueueSteps
    <3>3. Len(queue') <= QueueMax
      BY <2>3, <3>1, <3>2
    <3> QED
      BY <2>1, <2>2, <3>1, <3>2, <3>3
  <2>4. CASE ~(Len(queue) < QueueMax)
    <3>1. queue' = queue /\ dropped' = dropped \cup {Drop(Head(emitting))}
      BY <1>3, <2>4 DEF Enqueue
    <3>2. Drop(Head(emitting)) \in [raw : 1 .. MaxRaws, after : Nat]
      <4>1. Len(polled) \in Nat
        BY LenProperties
      <4> QED BY <2>2, <4>1 DEF Drop
    <3> QED
      BY <2>1, <2>2, <3>1, <3>2
  <2> QED
    BY <2>3, <2>4
<1>4. CASE UNCHANGED raws
  BY <1>4 DEF raws
<1> QED
  <2>1. Owner \/ Interrupt => Poll \/ UNCHANGED raws
    BY DEF Owner, Interrupt, Start, StartReady, StartTimesOut, Stop, Post, PostFails, Join, JoinTimesOut,
       Reset
  <2>2. ASSUME NEW t \in Thread, Run(t) \/ SetupFails(t) \/ PumpFails(t) \/ CloseWindow(t)
        PROVE  Enqueue(t) \/ UNCHANGED raws
    BY <2>2 DEF Run, Setup, Pump, Cleanup, Load, SetId, RegisterClass, CreateWindow,
       RegisterNotifications, Ready, SetupFails, Fail, Announce, Loop, GetQuit, PumpFails,
       CloseWindow, Destroy, Handled, UnregisterHandles, DestroyWindow, UnregisterClass
  <2>3. UNCHANGED vars => UNCHANGED raws
    BY DEF vars
  <2> QED
    BY <1>1, <1>2, <1>3, <1>4, <2>1, <2>2, <2>3 DEF Next

(* All other variables keep their types.                                   *)
LEMMA RestStays ==
  ASSUME RestOK, [Next]_vars
  PROVE  RestOK'
<1> USE SourceAssumption DEF Thread, None, RestOK,
       flags, fields, windows, raws, bounds, control, fates
<1>1. CASE Start
  <2>1. starts + 1 \in Thread
    BY <1>1 DEF Start
  <2>2. pc' \in [Thread -> Place] /\ \A t \in Thread : t > starts' => pc'[t] = "none"
    BY <1>1, <2>1 DEF Start, Place
  <2>3. starts' \in 0 .. MaxStarts /\ thread' \in Thread \cup {None}
    BY <1>1, <2>1 DEF Start
  <2> QED
    BY <1>1, <2>2, <2>3 DEF Start, flags, fields, windows, raws, bounds
<1>2. CASE StartReady
  BY <1>2 DEF StartReady
<1>3. CASE StartTimesOut
  BY <1>3 DEF StartTimesOut
<1>4. CASE Stop
  BY <1>4 DEF Stop
<1>5. CASE Post
  BY <1>5 DEF Post, Listening
<1>6. CASE Join
  BY <1>6 DEF Join
<1>7. CASE JoinTimesOut
  BY <1>7 DEF JoinTimesOut
<1>8. CASE Reset
  BY <1>8 DEF Reset
<1>9. CASE Poll
  BY <1>9 DEF Poll
<1>10. CASE Interrupt
  BY <1>10 DEF Interrupt
<1>11. ASSUME NEW t \in Thread, Run(t) \/ SetupFails(t) \/ PumpFails(t) \/ CloseWindow(t) \/ Dispatch(t) PROVE
   RestOK'
  <2>1. ASSUME NEW from, NEW to \in Place, Move(t, from, to), from # "none"
        PROVE  /\ pc' \in [Thread -> Place]
               /\ \A u \in Thread : u > starts => pc'[u] = "none"
    BY <2>1 DEF Move
  <2>2. CASE Load(t)
    <3>1. /\ pc' \in [Thread -> Place]
          /\ \A u \in Thread : u > starts => pc'[u] = "none"
      BY <2>1, <2>2 DEF Load, Place, Pumping
    <3> QED
      BY <2>2, <3>1 DEF Load
  <2>3. CASE SetId(t)
    <3>1. /\ pc' \in [Thread -> Place]
          /\ \A u \in Thread : u > starts => pc'[u] = "none"
      BY <2>1, <2>3 DEF SetId, Place, Pumping
    <3> QED
      BY <2>3, <3>1 DEF SetId
  <2>4. CASE RegisterClass(t)
    <3>1. /\ pc' \in [Thread -> Place]
          /\ \A u \in Thread : u > starts => pc'[u] = "none"
      BY <2>1, <2>4 DEF RegisterClass, Place, Pumping
    <3> QED
      BY <2>4, <3>1 DEF RegisterClass
  <2>5. CASE CreateWindow(t)
    <3>1. /\ pc' \in [Thread -> Place]
          /\ \A u \in Thread : u > starts => pc'[u] = "none"
      BY <2>1, <2>5 DEF CreateWindow, Place, Pumping
    <3> QED
      BY <2>5, <3>1 DEF CreateWindow
  <2>6. CASE RegisterNotifications(t)
    <3>1. /\ pc' \in [Thread -> Place]
          /\ \A u \in Thread : u > starts => pc'[u] = "none"
      BY <2>1, <2>6 DEF RegisterNotifications, Place, Pumping
    <3>2. handles' \subseteq Thread /\ notified' \subseteq Thread
      BY <2>6 DEF RegisterNotifications
    <3> QED
      BY <2>6, <3>1, <3>2 DEF RegisterNotifications
  <2>7. CASE Ready(t)
    <3>1. /\ pc' \in [Thread -> Place]
          /\ \A u \in Thread : u > starts => pc'[u] = "none"
      BY <2>1, <2>7 DEF Ready, Place, Pumping
    <3> QED
      BY <2>7, <3>1 DEF Ready
  <2>8. CASE SetupFails(t)
    <3>1. /\ pc' \in [Thread -> Place]
          /\ \A u \in Thread : u > starts => pc'[u] = "none"
      BY <2>1, <2>8 DEF SetupFails, Place, Pumping
    <3> QED
      BY <2>8, <3>1 DEF SetupFails
  <2>9. CASE Fail(t)
    <3>1. /\ pc' \in [Thread -> Place]
          /\ \A u \in Thread : u > starts => pc'[u] = "none"
      BY <2>1, <2>9 DEF Fail, Place, Pumping
    <3> QED
      BY <2>9, <3>1 DEF Fail
  <2>10. CASE Announce(t)
    <3>1. /\ pc' \in [Thread -> Place]
          /\ \A u \in Thread : u > starts => pc'[u] = "none"
      BY <2>1, <2>10 DEF Announce, Place, Pumping
    <3> QED
      BY <2>10, <3>1 DEF Announce
  <2>11. CASE Loop(t)
    <3>1. /\ pc' \in [Thread -> Place]
          /\ \A u \in Thread : u > starts => pc'[u] = "none"
      BY <2>1, <2>11 DEF Loop, Place, Pumping
    <3> QED
      BY <2>11, <3>1 DEF Loop
  <2>12. CASE GetQuit(t)
    <3>1. /\ pc' \in [Thread -> Place]
          /\ \A u \in Thread : u > starts => pc'[u] = "none"
      BY <2>1, <2>12 DEF GetQuit, Place, Pumping
    <3> QED
      BY <2>12, <3>1 DEF GetQuit
  <2>13. CASE PumpFails(t)
    <3>1. /\ pc' \in [Thread -> Place]
          /\ \A u \in Thread : u > starts => pc'[u] = "none"
      BY <2>1, <2>13 DEF PumpFails, Place, Pumping
    <3> QED
      BY <2>13, <3>1 DEF PumpFails
  <2>14. CASE Dispatch(t)
    <3>1. /\ pc' \in [Thread -> Place]
          /\ \A u \in Thread : u > starts => pc'[u] = "none"
      BY <2>1, <2>14 DEF Dispatch, Place, Pumping
    <3> QED
      BY <2>14, <3>1 DEF Dispatch
  <2>15. CASE Enqueue(t)
    BY <2>15 DEF Enqueue
  <2>16. CASE Handled(t)
    <3>1. /\ pc' \in [Thread -> Place]
          /\ \A u \in Thread : u > starts => pc'[u] = "none"
      BY <2>1, <2>16 DEF Handled, Place, Pumping
    <3> QED
      BY <2>16, <3>1 DEF Handled
  <2>17. CASE UnregisterHandles(t)
    <3>1. /\ pc' \in [Thread -> Place]
          /\ \A u \in Thread : u > starts => pc'[u] = "none"
      BY <2>1, <2>17 DEF UnregisterHandles, Place, Pumping
    <3>2. handles' \subseteq Thread /\ notified' \subseteq Thread
      BY <2>17 DEF UnregisterHandles
    <3> QED
      BY <2>17, <3>1, <3>2 DEF UnregisterHandles
  <2>18. CASE DestroyWindow(t)
    <3>1. /\ pc' \in [Thread -> Place]
          /\ \A u \in Thread : u > starts => pc'[u] = "none"
      BY <2>1, <2>18 DEF DestroyWindow, Place, Pumping
    <3> QED
      BY <2>18, <3>1 DEF DestroyWindow, Destroy
  <2>19. CASE UnregisterClass(t)
    <3>1. /\ pc' \in [Thread -> Place]
          /\ \A u \in Thread : u > starts => pc'[u] = "none"
      BY <2>1, <2>19 DEF UnregisterClass, Place, Pumping
    <3> QED
      BY <2>19, <3>1 DEF UnregisterClass
  <2>20. CASE CloseWindow(t)
    <3>1. /\ pc' \in [Thread -> Place]
          /\ \A u \in Thread : u > starts => pc'[u] = "none"
      BY <2>1, <2>20 DEF CloseWindow, Place, Pumping
    <3> QED
      BY <2>20, <3>1 DEF CloseWindow, Destroy
  <2> QED
    BY <1>11, <2>20, <2>2, <2>3, <2>4, <2>5, <2>6, <2>7, <2>8, <2>9, <2>10, <2>11, <2>12, <2>13,
       <2>14, <2>15, <2>16, <2>17, <2>18, <2>19
    DEF Run, Setup, Pump, Cleanup
<1>13. CASE PostFails
  BY <1>13 DEF PostFails
<1>12. CASE UNCHANGED vars
  BY <1>12 DEF vars
<1> QED
  BY <1>1, <1>2, <1>3, <1>4, <1>5, <1>6, <1>7, <1>8, <1>9, <1>10, <1>11, <1>12, <1>13 DEF Next, Owner

(* Only the window procedure has raws in hand.                             *)
LEMMA HandStays ==
  ASSUME TypeOK, [Next]_vars
  PROVE  InHand'
<1> USE DEF InHand
<1> DEFINE Emits(t) == pc[t] = "emit"
<1>1. emitting # <<>> => \E t \in Thread : Emits(t)
  BY DEF TypeOK
<1>2. ASSUME NEW t \in Thread, Dispatch(t) PROVE InHand'
  BY <1>2 DEF TypeOK, Dispatch, Move
<1>3. ASSUME NEW t \in Thread, Handled(t) PROVE InHand'
  BY <1>3 DEF Handled, raws
<1>4. ASSUME NEW t \in Thread, Enqueue(t) PROVE InHand'
  BY <1>4 DEF Enqueue
<1>8. ASSUME NEW t \in Thread, PumpFails(t) PROVE InHand'
  BY <1>8 DEF PumpFails, raws
<1>5. CASE /\ emitting' = emitting
           /\ \A t \in Thread : pc[t] = "emit" => pc'[t] = "emit"
  BY <1>1, <1>5
<1>6. ASSUME NEW t \in Thread, SetupFails(t) \/ CloseWindow(t) \/ Setup(t) \/ Cleanup(t)
                                  \/ Loop(t) \/ GetQuit(t)
      PROVE  /\ emitting' = emitting
             /\ \A u \in Thread : pc[u] = "emit" => pc'[u] = "emit"
  <2>1. ASSUME NEW from, NEW to, Move(t, from, to), from # "emit"
        PROVE  \A u \in Thread : pc[u] = "emit" => pc'[u] = "emit"
    BY <2>1 DEF Move, TypeOK
  <2> QED
    BY <1>6, <2>1 DEF Setup, Cleanup, Load, SetId, RegisterClass, CreateWindow,
       RegisterNotifications, Ready, SetupFails, Fail, Announce, Loop, GetQuit, PumpFails,
       CloseWindow, Destroy, UnregisterHandles, DestroyWindow, UnregisterClass, raws
<1>7. ASSUME Owner \/ Interrupt \/ UNCHANGED vars
      PROVE  /\ emitting' = emitting
             /\ \A u \in Thread : pc[u] = "emit" => pc'[u] = "emit"
  <2>1. CASE Start
    BY <2>1, SourceAssumption DEF Start, TypeOK, Thread, raws
  <2> QED
    BY <1>7, <2>1 DEF Owner, Interrupt, vars, StartReady, StartTimesOut, Stop, Post, PostFails, Join,
       JoinTimesOut, Reset, Poll, raws
<1> QED
  BY <1>2, <1>3, <1>4, <1>5, <1>6, <1>7, <1>8 DEF Next, Run, Pump

(* The types hold at the start.                                            *)
LEMMA InitTypes == Init => QueueOK /\ InHand /\ RestOK
<1>1. Init => /\ <<>> \in Seq(1 .. MaxRaws) /\ Len(<<>>) = 0
              /\ pc \in [Thread -> Place]
  BY DEF Init, Place
<1>2. Init => QueueOK
  BY <1>1, SourceAssumption DEF Init, QueueOK
<1>3. Init => InHand
  BY DEF Init, InHand
<1>4. Init => RestOK
  <2>1. 0 \in 0 .. MaxStarts /\ 0 \in 0 .. MaxFailures /\ 0 \in 0 .. MaxInterrupts
    BY SourceAssumption
  <2>2. Init => \A t \in Thread : pc[t] = "none"
    BY DEF Init
  <2> QED
    BY <1>1, <2>1, <2>2 DEF Init, RestOK
<1> QED
  BY <1>2, <1>3, <1>4

(* Type correctness, for WindowsEventSource!TypeOK.                         *)
THEOREM Typing == Spec => []TypeOK
<1>1. Init => TypeOK
  BY InitTypes, TypeParts
<1>2. TypeOK /\ [Next]_vars => TypeOK'
  BY TypeParts, QueueStays, RestStays, HandStays DEF TypeOK, QueueOK, InHand, RestOK
<1> QED
  BY <1>1, <1>2, PTL DEF Spec

-----------------------------------------------------------------------------
(* A step of a message thread t moves no other thread and not the owner.    *)
Step(t) == Run(t) \/ SetupFails(t) \/ PumpFails(t) \/ CloseWindow(t) \/ Dispatch(t)

LEMMA ThreadStep ==
  ASSUME TypeOK, NEW t \in Thread, Step(t)
  PROVE  /\ \A u \in Thread : u # t => pc'[u] = pc[u]
         /\ Alive(t) /\ pc'[t] # "none"
         /\ UNCHANGED <<thread, stop, starts, owner, gaveUp>>
<1>1. ASSUME NEW from, NEW to, Move(t, from, to), from \notin {"none", "ended"}, to # "none"
      PROVE  /\ \A u \in Thread : u # t => pc'[u] = pc[u]
             /\ Alive(t) /\ pc'[t] # "none"
  BY <1>1 DEF Move, Alive, TypeOK
<1>2. /\ \A u \in Thread : u # t => pc'[u] = pc[u]
      /\ Alive(t) /\ pc'[t] # "none"
  <2>1. CASE Setup(t) \/ SetupFails(t)
    BY <1>1, <2>1 DEF Setup, Load, SetId, RegisterClass, CreateWindow, RegisterNotifications,
       Ready, SetupFails, Fail, Announce
  <2>2. CASE Enqueue(t)
    BY <2>2 DEF Enqueue, Alive
  <2>3. CASE Loop(t) \/ GetQuit(t) \/ PumpFails(t) \/ CloseWindow(t) \/ Dispatch(t) \/ Handled(t)
    BY <1>1, <2>3 DEF Loop, GetQuit, PumpFails, CloseWindow, Dispatch, Handled
  <2>4. CASE Cleanup(t)
    BY <1>1, <2>4 DEF Cleanup, UnregisterHandles, DestroyWindow, UnregisterClass
  <2> QED
    BY <2>1, <2>2, <2>3, <2>4 DEF Step, Run, Pump
<1>3. UNCHANGED <<thread, stop, starts, owner, gaveUp>>
  BY DEF Step, Run, Setup, Pump, Cleanup, Load, SetId, RegisterClass, CreateWindow,
     RegisterNotifications, Ready, SetupFails, Fail, Announce, Loop, GetQuit, PumpFails,
     CloseWindow, Destroy, Dispatch, Enqueue, Handled, UnregisterHandles, DestroyWindow, UnregisterClass, flags,
     fields, windows, raws, bounds, control
<1> QED
  BY <1>2, <1>3

(* A start happens only when the thread before it has ended.               *)
LEMMA OneThreadStays ==
  ASSUME IInv, [Next]_vars
  PROVE  OneThread'
<1> USE SourceAssumption DEF IInv, OneThread, Thread, None
<1>1. CASE Start
  <2>1. starts + 1 \in Thread /\ \A t \in Thread : ~Alive(t)
    BY <1>1 DEF Start, TypeOK, OwnerKnows, IsRunning
  <2> QED
    BY <1>1, <2>1 DEF Start, TypeOK, Alive
<1>2. CASE Reset
  BY <1>2 DEF Reset, OwnerKnows, Alive
<1>3. CASE JoinTimesOut
  BY <1>3 DEF JoinTimesOut, Alive, fields
<1>4. CASE UNCHANGED <<thread, starts, pc, gaveUp>>
  BY <1>4 DEF Alive
<1>5. ASSUME NEW t \in Thread, Step(t) PROVE OneThread'
  BY <1>5, ThreadStep DEF Alive, TypeOK
<1>6. ASSUME Owner \/ Interrupt \/ UNCHANGED vars, ~Start, ~Reset, ~JoinTimesOut
      PROVE  UNCHANGED <<thread, starts, pc, gaveUp>>
  BY <1>6 DEF Owner, StartReady, StartTimesOut, Stop, Post, PostFails, Join, Poll, Interrupt, vars,
     fields, control
<1> QED
  BY <1>1, <1>2, <1>3, <1>4, <1>5, <1>6 DEF Next, Step

(* start() returns only on ready; a thread that is running makes no error. *)
LEMMA OwnerKnowsStays ==
  ASSUME IInv, [Next]_vars
  PROVE  OwnerKnows'
<1> USE SourceAssumption DEF IInv, OwnerKnows, None,
       flags, fields, windows, raws, bounds, control, fates
<1>1. CASE Start
  BY <1>1 DEF Start, TypeOK
<1>2. CASE StartReady
  BY <1>2 DEF StartReady, Alive, TypeOK, Handshake, OneThread
<1>3. CASE StartTimesOut
  BY <1>3 DEF StartTimesOut, Alive
<1>4. CASE Stop
  BY <1>4 DEF Stop, Alive
<1>5. CASE Post
  BY <1>5 DEF Post, Alive
<1>6. CASE Join
  BY <1>6 DEF Join, Alive, OneThread, Thread
<1>7. CASE JoinTimesOut
  BY <1>7 DEF JoinTimesOut, Alive
<1>8. CASE Reset
  BY <1>8 DEF Reset, Alive
<1>9. CASE Poll
  BY <1>9 DEF Poll, Alive
<1>10. CASE Interrupt
  BY <1>10 DEF Interrupt, Alive
<1>11. ASSUME NEW t \in Thread, Step(t) PROVE OwnerKnows'
  <2>1. t = starts /\ (thread = t \/ gaveUp) /\ Alive(t)
        /\ UNCHANGED <<thread, stop, starts, owner, gaveUp>>
    BY <1>11, ThreadStep DEF OneThread
  <2>2. ready => ready'
    BY <1>11 DEF Step, Run, Setup, Pump, Cleanup, Load, SetId, RegisterClass, CreateWindow,
       RegisterNotifications, Ready, SetupFails, Fail, Announce, Loop, GetQuit, PumpFails,
       CloseWindow, Destroy, Dispatch, Enqueue, Handled, UnregisterHandles, DestroyWindow, UnregisterClass, flags
  <2>3. thread = t /\ ready => error' = error
    <3>1. thread = t /\ ready => ~Fail(t)
      BY <2>1 DEF Handshake, Fail, Move, Pumping, Cleaning
    <3> QED
      BY <1>11, <3>1 DEF Step, Run, Setup, Pump, Cleanup, Load, SetId, RegisterClass,
         CreateWindow, RegisterNotifications, Ready, SetupFails, Announce, Loop, GetQuit,
         PumpFails, CloseWindow, Destroy, Dispatch, Enqueue, Handled, UnregisterHandles, DestroyWindow,
         UnregisterClass, flags
  <2>4. owner = "idle" /\ thread # None => thread = t
    BY <2>1 DEF OneThread
  <2>5. ~(owner = "reset" /\ ~gaveUp)
    BY <2>1
  <2> QED
    BY <2>1, <2>2, <2>3, <2>4, <2>5
<1>13. CASE PostFails
  BY <1>13 DEF PostFails, Alive
<1>12. CASE UNCHANGED vars
  BY <1>12 DEF vars, flags, fields, control, Alive
<1> QED
  BY <1>1, <1>2, <1>3, <1>4, <1>5, <1>6, <1>7, <1>8, <1>9, <1>10, <1>11, <1>12, <1>13 DEF Next,
     Owner, Step

(* A thread that leaves its pump was stopped or crashed, and a failed      *)
(* setup set the error before ready.                                       *)
LEMMA HandshakeStays ==
  ASSUME IInv, [Next]_vars
  PROVE  Handshake'
<1> USE SourceAssumption DEF IInv, Handshake, Pumping, Leaving, Cleaning, None,
       flags, fields, windows, raws, bounds, control, fates
<1>1. CASE Start
  <2>1. starts + 1 \in Thread /\ pc' = [pc EXCEPT ![starts + 1] = "load"] /\ ready' = FALSE
        /\ starts' = starts + 1
    BY <1>1 DEF Start, TypeOK, Thread
  <2> QED
    BY <2>1 DEF TypeOK
<1>2. CASE StartReady
  BY <1>2 DEF StartReady
<1>3. CASE StartTimesOut
  BY <1>3 DEF StartTimesOut
<1>4. CASE Stop
  BY <1>4 DEF Stop
<1>5. CASE Post
  BY <1>5 DEF Post
<1>6. CASE Join
  BY <1>6 DEF Join
<1>7. CASE JoinTimesOut
  BY <1>7 DEF JoinTimesOut
<1>8. CASE Reset
  BY <1>8 DEF Reset
<1>9. CASE Poll
  BY <1>9 DEF Poll
<1>10. CASE Interrupt
  BY <1>10 DEF Interrupt
<1>11. ASSUME NEW t \in Thread, Step(t) PROVE Handshake'
  <2>1. t = starts /\ UNCHANGED <<thread, stop, starts, owner, gaveUp>>
    BY <1>11, ThreadStep DEF OneThread
  <2>2. CASE Load(t)
    BY <2>1, <2>2 DEF Load, Move, TypeOK
  <2>3. CASE SetId(t)
    BY <2>1, <2>3 DEF SetId, Move, TypeOK
  <2>4. CASE RegisterClass(t)
    BY <2>1, <2>4 DEF RegisterClass, Move, TypeOK
  <2>5. CASE CreateWindow(t)
    BY <2>1, <2>5 DEF CreateWindow, Move, TypeOK
  <2>6. CASE RegisterNotifications(t)
    BY <2>1, <2>6 DEF RegisterNotifications, Move, TypeOK
  <2>7. CASE Ready(t)
    BY <2>1, <2>7 DEF Ready, Move, TypeOK
  <2>8. CASE SetupFails(t)
    BY <2>1, <2>8 DEF SetupFails, Move, TypeOK
  <2>9. CASE Fail(t)
    BY <2>1, <2>9 DEF Fail, Move, TypeOK
  <2>10. CASE Announce(t)
    BY <2>1, <2>10 DEF Announce, Move, TypeOK
  <2>11. CASE Loop(t)
    BY <2>1, <2>11 DEF Loop, Move, TypeOK
  <2>12. CASE GetQuit(t)
    BY <2>1, <2>12 DEF GetQuit, Move, TypeOK, Known
  <2>13. CASE PumpFails(t)
    BY <2>1, <2>13 DEF PumpFails, Move, TypeOK
  <2>14. CASE Dispatch(t)
    BY <2>1, <2>14 DEF Dispatch, Move, TypeOK
  <2>15. CASE Enqueue(t)
    BY <2>1, <2>15 DEF Enqueue, Move, TypeOK
  <2>16. CASE Handled(t)
    BY <2>1, <2>16 DEF Handled, Move, TypeOK
  <2>17. CASE UnregisterHandles(t)
    BY <2>1, <2>17 DEF UnregisterHandles, Move, TypeOK
  <2>18. CASE DestroyWindow(t)
    BY <2>1, <2>18 DEF DestroyWindow, Destroy, Move, TypeOK
  <2>19. CASE UnregisterClass(t)
    BY <2>1, <2>19 DEF UnregisterClass, Move, TypeOK
  <2>20. CASE CloseWindow(t)
    BY <2>1, <2>20 DEF CloseWindow, Destroy, Move, TypeOK
  <2> QED
    BY <1>11, <2>20, <2>2, <2>3, <2>4, <2>5, <2>6, <2>7, <2>8, <2>9, <2>10, <2>11, <2>12, <2>13,
       <2>14, <2>15, <2>16, <2>17, <2>18, <2>19 DEF Step, Run, Setup, Pump, Cleanup
<1>13. CASE PostFails
  BY <1>13 DEF PostFails
<1>12. CASE UNCHANGED vars
  BY <1>12 DEF vars, flags, fields, control
<1> QED
  BY <1>1, <1>2, <1>3, <1>4, <1>5, <1>6, <1>7, <1>8, <1>9, <1>10, <1>11, <1>12, <1>13 DEF Next,
     Owner, Step

(* What _thread_id and _hwnd say holds until stop() resets them.           *)
LEMMA KnownStays ==
  ASSUME IInv, [Next]_vars
  PROVE  Known'
<1> USE SourceAssumption DEF IInv, Known, WithApi, WithWindow, Pumping, Leaving, None,
       flags, fields, windows, raws, bounds, control, fates
<1>1. CASE Start
  <2>1. starts + 1 \in Thread /\ \A t \in Thread : ~Alive(t)
    BY <1>1 DEF Start, TypeOK, OwnerKnows, OneThread, IsRunning, Thread
  <2>2. window = {} /\ quits = {}
    BY <2>1 DEF TypeOK
  <2> QED
    BY <1>1, <2>1, <2>2 DEF Start, TypeOK, Alive, windows
<1>2. CASE StartReady
  BY <1>2 DEF StartReady, Alive
<1>3. CASE StartTimesOut
  BY <1>3 DEF StartTimesOut, Alive
<1>4. CASE Stop
  BY <1>4 DEF Stop, Alive
<1>5. CASE Post
  BY <1>5 DEF Post, Listening, Alive, OwnerKnows, TypeOK
<1>6. CASE Join
  BY <1>6 DEF Join, Alive
<1>7. CASE JoinTimesOut
  BY <1>7 DEF JoinTimesOut, Alive
<1>8. CASE Reset
  BY <1>8 DEF Reset, Alive
<1>9. CASE Poll
  BY <1>9 DEF Poll, Alive
<1>10. CASE Interrupt
  BY <1>10 DEF Interrupt, Alive
<1>11. ASSUME NEW t \in Thread, Step(t) PROVE Known'
  <2>1. /\ \A u \in Thread : u # t => pc'[u] = pc[u] /\ ~Alive(u)
        /\ Alive(t) /\ UNCHANGED <<thread, stop, starts, owner, gaveUp>>
    BY <1>11, ThreadStep DEF OneThread
  <2>2. CASE Load(t)
    BY <2>1, <2>2 DEF Load, Move, Alive, TypeOK
  <2>3. CASE SetId(t)
    BY <2>1, <2>3 DEF SetId, Move, Alive, TypeOK
  <2>4. CASE RegisterClass(t)
    BY <2>1, <2>4 DEF RegisterClass, Move, Alive, TypeOK
  <2>5. CASE CreateWindow(t)
    BY <2>1, <2>5 DEF CreateWindow, Move, Alive, TypeOK
  <2>6. CASE RegisterNotifications(t)
    BY <2>1, <2>6 DEF RegisterNotifications, Move, Alive, TypeOK
  <2>7. CASE Ready(t)
    BY <2>1, <2>7 DEF Ready, Move, Alive, TypeOK
  <2>8. CASE SetupFails(t)
    BY <2>1, <2>8 DEF SetupFails, Move, Alive, TypeOK
  <2>9. CASE Fail(t)
    BY <2>1, <2>9 DEF Fail, Move, Alive, TypeOK
  <2>10. CASE Announce(t)
    BY <2>1, <2>10 DEF Announce, Move, Alive, TypeOK
  <2>11. CASE Loop(t)
    BY <2>1, <2>11 DEF Loop, Move, Alive, TypeOK
  <2>12. CASE GetQuit(t)
    BY <2>1, <2>12 DEF GetQuit, Move, Alive, TypeOK
  <2>13. CASE PumpFails(t)
    BY <2>1, <2>13 DEF PumpFails, Move, Alive, TypeOK
  <2>14. CASE Dispatch(t)
    BY <2>1, <2>14 DEF Dispatch, Move, Alive, TypeOK
  <2>15. CASE Enqueue(t)
    BY <2>1, <2>15 DEF Enqueue, Move, Alive, TypeOK
  <2>16. CASE Handled(t)
    BY <2>1, <2>16 DEF Handled, Move, Alive, TypeOK
  <2>17. CASE UnregisterHandles(t)
    <3>1. pc'[t] \in {"destroy", "ended"} /\ UNCHANGED <<loaded, window, quits, closed, threadId, hwnd>>
      BY <2>17 DEF UnregisterHandles, Move, TypeOK
    <3>2. ~(t \in window \/ t \in quits) \/ pc'[t] = "destroy"
      BY <2>17 DEF UnregisterHandles, Move, TypeOK
    <3> QED
      BY <2>1, <2>17, <3>1, <3>2 DEF UnregisterHandles, Move, Alive
  <2>18. CASE DestroyWindow(t)
    BY <2>1, <2>18 DEF DestroyWindow, Destroy, Move, Alive, TypeOK
  <2>19. CASE UnregisterClass(t)
    BY <2>1, <2>19 DEF UnregisterClass, Move, Alive, TypeOK
  <2>20. CASE CloseWindow(t)
    BY <2>1, <2>20 DEF CloseWindow, Destroy, Move, Alive, TypeOK
  <2> QED
    BY <1>11, <2>20, <2>2, <2>3, <2>4, <2>5, <2>6, <2>7, <2>8, <2>9, <2>10, <2>11, <2>12, <2>13,
       <2>14, <2>15, <2>16, <2>17, <2>18, <2>19 DEF Step, Run, Setup, Pump, Cleanup
<1>13. CASE PostFails
  BY <1>13 DEF PostFails, Alive
<1>12. CASE UNCHANGED vars
  BY <1>12 DEF vars, Alive
<1> QED
  BY <1>1, <1>2, <1>3, <1>4, <1>5, <1>6, <1>7, <1>8, <1>9, <1>10, <1>11, <1>12, <1>13 DEF Next,
     Owner, Step

(* The WM_QUIT that a stop posts meets the pump, or the flag does.         *)
LEMMA QuitIsPostedStays ==
  ASSUME IInv, [Next]_vars
  PROVE  QuitIsPosted'
<1> USE SourceAssumption DEF IInv, QuitIsPosted,
       flags, fields, windows, raws, bounds, control, fates
<1>1. CASE Start
  BY <1>1 DEF Start
<1>2. CASE Post
  <2>1. ASSUME NEW t \in Thread, pc[t] \in {"get", "emit"}, ~gaveUp PROVE t \in quits'
    <3>1. thread = t
      BY <2>1 DEF OneThread, Alive
    <3> QED
      BY <1>2, <2>1, <3>1 DEF Post, Listening, Alive, Known, WithApi, WithWindow, Pumping
  <2> QED
    BY <1>2, <2>1 DEF Post, flags, bounds, OwnerKnows
<1>3. CASE StartReady
  BY <1>3 DEF StartReady, OwnerKnows, TypeOK
<1>4. CASE StartTimesOut
  BY <1>4 DEF StartTimesOut, OwnerKnows, TypeOK
<1>5. CASE Stop
  BY <1>5 DEF Stop, OwnerKnows, TypeOK
<1>6. CASE Join
  BY <1>6 DEF Join, OwnerKnows, TypeOK
<1>7. CASE JoinTimesOut
  BY <1>7 DEF JoinTimesOut, OwnerKnows, TypeOK
<1>8. CASE Reset
  BY <1>8 DEF Reset, OwnerKnows, TypeOK
<1>9. CASE Poll
  BY <1>9 DEF Poll, OwnerKnows, TypeOK
<1>10. CASE Interrupt
  BY <1>10 DEF Interrupt, OwnerKnows, TypeOK
<1>11. ASSUME NEW t \in Thread, Step(t) PROVE QuitIsPosted'
  <2>1. /\ \A u \in Thread : u # t => pc'[u] = pc[u]
        /\ UNCHANGED <<thread, stop, starts, owner, gaveUp>>
    BY <1>11, ThreadStep
  <2>2. interrupts' = interrupts
    BY <1>11 DEF Step, Run, Setup, Pump, Cleanup, Load, SetId, RegisterClass, CreateWindow,
       RegisterNotifications, Ready, SetupFails, Fail, Announce, Loop, GetQuit, PumpFails,
       CloseWindow, Destroy, Dispatch, Enqueue, Handled, UnregisterHandles, DestroyWindow, UnregisterClass, bounds
  <2>3. CASE Loop(t) \/ Dispatch(t) \/ Handled(t) \/ Enqueue(t)
    BY <2>1, <2>2, <2>3 DEF Loop, Dispatch, Handled, Enqueue, Move, TypeOK, windows, fates
  <2>5. CASE CloseWindow(t)
    <3>1. t \in quits' /\ quits \subseteq quits' /\ unposted' = unposted
      BY <2>5 DEF CloseWindow, Destroy
    <3> QED BY <2>1, <2>2, <3>1
  <2>4. CASE ~(Loop(t) \/ Dispatch(t) \/ Handled(t) \/ Enqueue(t) \/ CloseWindow(t))
    <3>1. pc'[t] \notin {"get", "emit"}
      BY <1>11, <2>4 DEF Step, Run, Setup, Pump, Cleanup, Load, SetId, RegisterClass,
         CreateWindow, RegisterNotifications, Ready, SetupFails, Fail, Announce, GetQuit,
         PumpFails, CloseWindow, Destroy, UnregisterHandles, DestroyWindow, UnregisterClass, Move, TypeOK
    <3>2. quits \ {t} \subseteq quits'
      BY <1>11, <2>4 DEF Step, Run, Setup, Pump, Cleanup, Load, SetId, RegisterClass,
         CreateWindow, RegisterNotifications, Ready, SetupFails, Fail, Announce, GetQuit,
         PumpFails, CloseWindow, Destroy, UnregisterHandles, DestroyWindow, UnregisterClass, windows
    <3>3. unposted' = unposted
      BY <1>11, <2>4 DEF Step, Run, Setup, Pump, Cleanup, Load, SetId, RegisterClass,
         CreateWindow, RegisterNotifications, Ready, SetupFails, Fail, Announce, GetQuit,
         PumpFails, UnregisterHandles, DestroyWindow, UnregisterClass, fates
    <3> QED
      BY <2>1, <2>2, <3>1, <3>2, <3>3
  <2> QED
    BY <2>3, <2>4, <2>5
<1>13. CASE PostFails
  <2>1. ASSUME NEW t \in Thread, pc[t] \in {"get", "emit"}, ~gaveUp PROVE t \in unposted'
    <3>1. thread = t
      BY <2>1 DEF OneThread, Alive
    <3> QED
      BY <1>13, <2>1, <3>1 DEF PostFails, Known, WithApi, WithWindow, Pumping
  <2> QED
    BY <1>13, <2>1 DEF PostFails, flags, bounds, OwnerKnows
<1>12. CASE UNCHANGED vars
  BY <1>12 DEF vars
<1> QED
  BY <1>1, <1>2, <1>3, <1>4, <1>5, <1>6, <1>7, <1>8, <1>9, <1>10, <1>11, <1>12, <1>13 DEF Next,
     Owner, Step

(* The inductive invariant.                                                 *)
THEOREM Inductive == Spec => []IInv
<1>1. Init => IInv
  <2>1. Init => TypeOK
    <3>1. Init => QueueOK /\ InHand /\ RestOK
      BY InitTypes
    <3> QED
      BY <3>1, TypeParts
  <2> QED
    BY <2>1 DEF Init, IInv, OneThread, OwnerKnows, Handshake, Known, QuitIsPosted, Alive,
       WithApi, WithWindow, Pumping, Leaving, Cleaning, None
<1>2. IInv /\ [Next]_vars => IInv'
  BY TypeParts, QueueStays, RestStays, HandStays, OneThreadStays, OwnerKnowsStays,
     HandshakeStays,
     KnownStays, QuitIsPostedStays DEF IInv, TypeOK, QueueOK, InHand, RestOK
<1> QED
  BY <1>1, <1>2, PTL DEF Spec

(* A stop reaches the message thread, for WindowsEventSource!StopReachesWatcher. *)
THEOREM NoLostStop == Spec => []StopReachesWatcher
<1>1. IInv => StopReachesWatcher
  BY DEF IInv, QuitIsPosted, StopReachesWatcher
<1> QED
  BY <1>1, Inductive, PTL

(* A started source pumps until it is stopped, its pump fails or its window *)
(* is closed, and in the last case it is about to end, for                  *)
(* WindowsEventSource!RunningUntilStop.                                     *)
THEOREM StartedRuns == Spec => []RunningUntilStop
<1>1. IInv => RunningUntilStop
  <2> SUFFICES ASSUME IInv, owner = "idle", thread \in Thread \ crashed
               PROVE  IF thread \in closed
                        THEN thread \in quits \/ pc[thread] \in Leaving
                        ELSE /\ IsRunning
                             /\ pc[thread] \in Pumping /\ hwnd = thread /\ thread \in window
    BY DEF RunningUntilStop
  <2>1. thread # None /\ thread = starts /\ ready /\ ~error /\ ~stop
    BY DEF IInv, OwnerKnows, OneThread, Thread, None
  <2>2. CASE thread \in closed
    BY <2>2 DEF IInv, Known
  <2>3. CASE thread \notin closed
    <3>1. pc[thread] \in Pumping
      BY <2>1, <2>3 DEF IInv, Handshake, Leaving, Cleaning
    <3> QED
      BY <2>1, <2>3, <3>1 DEF IInv, Known, WithWindow, IsRunning, Alive, Pumping
  <2> QED BY <2>2, <2>3
<1> QED
  BY <1>1, Inductive, PTL

(* Each place of the thread accounts for what it has registered.           *)
LEMMA HeldStays ==
  ASSUME IInv, Held, [Next]_vars
  PROVE  Held'
<1> USE SourceAssumption DEF IInv, Held, None, flags, fields, windows, raws, bounds, control, fates
<1>1. CASE Start
  <2>1. starts + 1 \in Thread /\ \A t \in Thread : ~Alive(t)
    BY <1>1 DEF Start, TypeOK, OwnerKnows, OneThread, IsRunning, Thread
  <2>2. ~gaveUp => HeldAt("ended")
    BY <2>1
  <2>3. ~gaveUp => HeldAt("load")'
    BY <1>1, <2>2 DEF Start, HeldAt, Clean, windows
  <2>4. PICK n \in Thread : n = starts + 1
    BY <2>1
  <2>5. pc'[n] = "load" /\ \A t \in Thread : t # n => pc'[t] = pc[t]
    BY <1>1, <2>4 DEF Start, TypeOK
  <2>6. gaveUp' = gaveUp
    BY <1>1 DEF Start
  <2>7. Alive(n)' /\ \A t \in Thread : Alive(t)' => t = n
    BY <2>1, <2>5 DEF Alive
  <2>8. ~gaveUp => hwnd' = None
    BY <1>1, <2>2 DEF Start, HeldAt, Clean
  <2> QED
    BY <2>3, <2>5, <2>6, <2>7, <2>8
<1>2. CASE StartReady
  BY <1>2 DEF StartReady, Alive, HeldAt, Clean
<1>3. CASE StartTimesOut
  BY <1>3 DEF StartTimesOut, Alive, HeldAt, Clean
<1>4. CASE Stop
  BY <1>4 DEF Stop, Alive, HeldAt, Clean
<1>5. CASE Post
  BY <1>5 DEF Post, Alive, HeldAt, Clean
<1>6. CASE Join
  BY <1>6 DEF Join, Alive, HeldAt, Clean
<1>7. CASE JoinTimesOut
  BY <1>7 DEF JoinTimesOut, Alive, HeldAt, Clean
<1>8. CASE Reset
  <2>1. ~gaveUp => (\A t \in Thread : ~Alive(t)) /\ HeldAt("ended")
    BY <1>8 DEF Reset, OwnerKnows
  <2>2. ~gaveUp => HeldAt("ended")'
    BY <1>8, <2>1 DEF Reset, HeldAt, Clean, windows
  <2> QED
    BY <1>8, <2>1, <2>2 DEF Reset, Alive
<1>9. CASE Poll
  BY <1>9 DEF Poll, Alive, HeldAt, Clean
<1>10. CASE Interrupt
  BY <1>10 DEF Interrupt, Alive, HeldAt, Clean
<1>11. ASSUME NEW t \in Thread, Step(t) PROVE Held'
  <2>1. /\ \A u \in Thread : u # t => pc'[u] = pc[u] /\ ~Alive(u)
        /\ Alive(t) /\ UNCHANGED <<thread, stop, starts, owner, gaveUp>>
    BY <1>11, ThreadStep DEF OneThread
  <2>2. ~gaveUp => window \subseteq {t} /\ hwnd \in {t, None}
    BY <2>1 DEF HeldAt
  <2>3. ~gaveUp => HeldAt(pc[t])
    BY <2>1
  <2>4. ASSUME NEW l, pc'[t] = l, ~gaveUp => HeldAt(l)' PROVE Held'
    <3>1. \A u \in Thread : u # t => ~Alive(u)'
      BY <2>1 DEF Alive
    <3>2. ~Alive(t)' => l \in {"none", "ended"}
      BY <2>4 DEF Alive
    <3>3. l = "none" => FALSE
      BY <1>11, <2>4, ThreadStep
    <3>4. hwnd' \in {hwnd, t, None}
      BY <1>11 DEF Step, Run, Setup, Pump, Cleanup, Load, SetId, RegisterClass, CreateWindow,
         RegisterNotifications, Ready, SetupFails, Fail, Announce, Loop, GetQuit, PumpFails,
         CloseWindow, Dispatch, Enqueue, Handled, UnregisterHandles, DestroyWindow,
         UnregisterClass
    <3> QED
      BY <2>1, <2>2, <2>4, <3>1, <3>2, <3>3, <3>4
  <2>5. CASE Load(t)
    <3>1. pc'[t] = "id"
      BY <2>5 DEF Load, Move, TypeOK
    <3>2. ~gaveUp => HeldAt("id")'
      BY <2>2, <2>3, <2>5 DEF Load, Move, HeldAt, Clean, Thread, Known, WithApi, WithWindow,
         Pumping
    <3> QED
      BY <2>4, <3>1, <3>2
  <2>6. CASE SetId(t)
    <3>1. pc'[t] = "class"
      BY <2>6 DEF SetId, Move, TypeOK
    <3>2. ~gaveUp => HeldAt("class")'
      BY <2>2, <2>3, <2>6 DEF SetId, Move, HeldAt, Clean, Thread, Known, WithApi, WithWindow,
         Pumping
    <3> QED
      BY <2>4, <3>1, <3>2
  <2>7. CASE RegisterClass(t)
    <3>1. ~gaveUp => ~class
      BY <2>3, <2>7 DEF RegisterClass, Move, HeldAt, Clean
    <3>2. ~gaveUp => pc'[t] = "window"
      BY <2>7, <3>1 DEF RegisterClass, Move, TypeOK
    <3>3. ~gaveUp => HeldAt("window")'
      BY <2>3, <2>7, <3>1 DEF RegisterClass, Move, HeldAt, Clean
    <3>4. gaveUp => Held'
      BY <2>1
    <3> QED
      BY <2>4, <3>2, <3>3, <3>4
  <2>8. CASE CreateWindow(t)
    <3>1. pc'[t] = "notify"
      BY <2>8 DEF CreateWindow, Move, TypeOK
    <3>2. ~gaveUp => HeldAt("notify")'
      <4>1. t \notin closed /\ t # None
        BY <2>8 DEF CreateWindow, Move, Known, Pumping, Leaving, Thread
      <4> QED
        BY <2>2, <2>3, <2>8, <4>1 DEF CreateWindow, Move, HeldAt, Clean
    <3> QED
      BY <2>4, <3>1, <3>2
  <2>9. CASE RegisterNotifications(t)
    <3>1. pc'[t] = "ready"
      BY <2>9 DEF RegisterNotifications, Move, TypeOK
    <3>2. ~gaveUp => HeldAt("ready")'
      BY <2>2, <2>3, <2>9 DEF RegisterNotifications, Move, HeldAt, Clean, Thread, Known,
         WithApi, WithWindow, Pumping
    <3> QED
      BY <2>4, <3>1, <3>2
  <2>10. CASE Ready(t)
    <3>1. pc'[t] = "loop"
      BY <2>10 DEF Ready, Move, TypeOK
    <3>2. ~gaveUp => HeldAt("loop")'
      BY <2>2, <2>3, <2>10 DEF Ready, Move, HeldAt, Clean, Thread, Known, WithApi, WithWindow,
         Pumping
    <3> QED
      BY <2>4, <3>1, <3>2
  <2>11. CASE SetupFails(t)
    <3>1. pc'[t] = "fail"
      BY <2>11 DEF SetupFails, Move, TypeOK
    <3>2. ~gaveUp => HeldAt("fail")'
      BY <2>2, <2>3, <2>11 DEF SetupFails, Move, HeldAt, Clean, Thread, Known, WithApi,
         WithWindow, Pumping
    <3> QED
      BY <2>4, <3>1, <3>2
  <2>12. CASE Fail(t)
    <3>1. pc'[t] = "announce"
      BY <2>12 DEF Fail, Move, TypeOK
    <3>2. ~gaveUp => HeldAt("announce")'
      BY <2>2, <2>3, <2>12 DEF Fail, Move, HeldAt, Clean, Thread, Known, WithApi, WithWindow,
         Pumping
    <3> QED
      BY <2>4, <3>1, <3>2
  <2>13. CASE Announce(t)
    <3>1. pc'[t] = "unregister"
      BY <2>13 DEF Announce, Move, TypeOK
    <3>2. ~gaveUp => HeldAt("unregister")'
      BY <2>2, <2>3, <2>13 DEF Announce, Move, HeldAt, Clean, Thread, Known, WithApi,
         WithWindow, Pumping
    <3> QED
      BY <2>4, <3>1, <3>2
  <2>14. CASE Loop(t)
    <3>1. CASE stop
      <4>1. pc'[t] = "unregister"
        BY <2>14, <3>1 DEF Loop, Move, TypeOK
      <4>2. ~gaveUp => HeldAt("unregister")'
        BY <2>2, <2>3, <2>14, <3>1 DEF Loop, Move, HeldAt, Clean, Known, WithApi, WithWindow,
           Pumping
      <4> QED
        BY <2>4, <4>1, <4>2
    <3>2. CASE ~stop
      <4>1. pc'[t] = "get"
        BY <2>14, <3>2 DEF Loop, Move, TypeOK
      <4>2. ~gaveUp => HeldAt("get")'
        BY <2>2, <2>3, <2>14, <3>2 DEF Loop, Move, HeldAt, Clean
      <4> QED
        BY <2>4, <4>1, <4>2
    <3> QED
      BY <3>1, <3>2
  <2>15. CASE GetQuit(t)
    <3>1. pc'[t] = "unregister"
      BY <2>15 DEF GetQuit, Move, TypeOK
    <3>2. ~gaveUp => HeldAt("unregister")'
      BY <2>2, <2>3, <2>15 DEF GetQuit, Move, HeldAt, Clean, Thread, Known, WithApi,
         WithWindow, Pumping
    <3> QED
      BY <2>4, <3>1, <3>2
  <2>16. CASE PumpFails(t)
    <3>1. pc'[t] = "unregister"
      BY <2>16 DEF PumpFails, Move, TypeOK
    <3>2. ~gaveUp => HeldAt("unregister")'
      BY <2>2, <2>3, <2>16 DEF PumpFails, Move, HeldAt, Clean, Thread, Known, WithApi,
         WithWindow, Pumping
    <3> QED
      BY <2>4, <3>1, <3>2
  <2>17. CASE Dispatch(t)
    <3>1. pc'[t] = "emit"
      BY <2>17 DEF Dispatch, Move, TypeOK
    <3>2. ~gaveUp => HeldAt("emit")'
      BY <2>2, <2>3, <2>17 DEF Dispatch, Move, HeldAt, Clean, Thread, Known, WithApi,
         WithWindow, Pumping
    <3> QED
      BY <2>4, <3>1, <3>2
  <2>18. CASE Enqueue(t)
    <3>1. ~gaveUp => \E l : pc'[t] = l /\ HeldAt(l)'
      BY <2>2, <2>3, <2>18 DEF Enqueue, Move, HeldAt, Clean, TypeOK, Known, WithApi
    <3> QED
      BY <2>4, <3>1
  <2>19. CASE Handled(t)
    <3>1. ~gaveUp => \E l : pc'[t] = l /\ HeldAt(l)'
      BY <2>2, <2>3, <2>19 DEF Handled, Move, HeldAt, Clean, TypeOK, Known, WithApi
    <3> QED
      BY <2>4, <3>1
  <2>20. CASE UnregisterHandles(t)
    <3>1. CASE loaded
      <4>1. pc'[t] = "destroy"
        BY <2>20, <3>1 DEF UnregisterHandles, Move, TypeOK
      <4>2. ~gaveUp => HeldAt("destroy")'
        BY <2>2, <2>3, <2>20, <3>1 DEF UnregisterHandles, Move, HeldAt, Clean, Known, WithApi,
           WithWindow, Pumping
      <4> QED
        BY <2>4, <4>1, <4>2
    <3>2. CASE ~loaded
      <4>1. pc'[t] = "ended"
        BY <2>20, <3>2 DEF UnregisterHandles, Move, TypeOK
      <4>2. ~gaveUp => HeldAt("ended")'
        BY <2>2, <2>3, <2>20, <3>2 DEF UnregisterHandles, Move, HeldAt, Clean
      <4> QED
        BY <2>4, <4>1, <4>2
    <3> QED
      BY <3>1, <3>2
  <2>21. CASE DestroyWindow(t)
    <3>1. pc'[t] = "unclass"
      BY <2>21 DEF DestroyWindow, Destroy, Move, TypeOK
    <3>2. ~gaveUp => HeldAt("unclass")'
      BY <2>2, <2>3, <2>21 DEF DestroyWindow, Destroy, Move, HeldAt, Clean, Thread, Known, WithApi,
         WithWindow, Pumping
    <3> QED
      BY <2>4, <3>1, <3>2
  <2>22. CASE UnregisterClass(t)
    <3>1. pc[t] = "unclass" /\ pc'[t] = "ended"
      BY <2>22 DEF UnregisterClass, Move, TypeOK
    <3>2. ~gaveUp => /\ class = atom /\ notified = {} /\ handles = {}
                         /\ hwnd = None /\ window = {}
      BY <2>3, <3>1 DEF HeldAt
    <3>3. ~gaveUp => class' = FALSE /\ atom' = FALSE /\ window' = {}
      BY <2>22, <3>2 DEF UnregisterClass, TypeOK
    <3>4. UNCHANGED <<notified, handles, hwnd>>
      BY <2>22 DEF UnregisterClass
    <3>5. ~gaveUp => HeldAt("ended")'
      BY <3>2, <3>3, <3>4 DEF HeldAt, Clean
    <3> QED
      BY <2>4, <3>1, <3>5
  <2>23. CASE CloseWindow(t)
    <3>1. PICK l \in {"get", "loop"} : pc'[t] = l
      BY <2>23 DEF CloseWindow, Move, TypeOK
    <3>2. ~gaveUp => HeldAt(l)'
      BY <2>2, <2>3, <2>23 DEF CloseWindow, Destroy, Move, HeldAt, Clean, Thread, Known, WithApi,
         WithWindow, Pumping
    <3> QED
      BY <2>4, <3>1, <3>2
  <2> QED
    BY <1>11, <2>23, <2>5, <2>6, <2>7, <2>8, <2>9, <2>10, <2>11, <2>12, <2>13, <2>14, <2>15, <2>16,
       <2>17, <2>18, <2>19, <2>20, <2>21, <2>22 DEF Step, Run, Setup, Pump, Cleanup
<1>13. CASE PostFails
  BY <1>13 DEF PostFails, Alive, HeldAt, Clean
<1>12. CASE UNCHANGED vars
  BY <1>12 DEF vars, Alive, HeldAt, Clean
<1> QED
  BY <1>1, <1>2, <1>3, <1>4, <1>5, <1>6, <1>7, <1>8, <1>9, <1>10, <1>11, <1>12, <1>13 DEF Next,
     Owner, Step

(* No window, class or registration outlives its thread while no join timed *)
(* out, for WindowsEventSource!NothingLeftBehind.                           *)
THEOREM LeavesNothing == Spec => []NothingLeftBehind
<1>1. Init => Held
  BY DEF Init, Held, HeldAt, Clean, None, Alive
<1>2. IInv /\ Held /\ [Next]_vars => Held'
  BY HeldStays
<1>3. Held => NothingLeftBehind
  BY DEF Held, HeldAt, Clean, NothingLeftBehind
<1> QED
  BY <1>1, <1>2, <1>3, Inductive, PTL DEF Spec

-----------------------------------------------------------------------------
(* What was told and not lost so far, in the order it will be polled, and   *)
(* what was lost.                                                           *)
Out == polled \o queue
Lost == {d.raw : d \in dropped}

InOrder ==
  /\ \A j, k \in 1 .. Len(Out) : j < k => Out[j] < Out[k]
  /\ \A j, k \in 1 .. Len(emitting) : j < k => emitting[j] < emitting[k]
  /\ \A k \in 1 .. Len(emitting) :
       /\ \A j \in 1 .. Len(Out) : Out[j] < emitting[k]
       /\ \A i \in Lost : i < emitting[k]
       /\ emitting[k] <= seen
  /\ \A j \in 1 .. Len(Out) : Out[j] <= seen
  /\ \A i \in Lost : i <= seen

(* A dropped raw met a full queue: what waited then, behind what was polled *)
(* by then, and all before it is older.                                     *)
Met(d) ==
  /\ d.after + QueueMax <= Len(Out)
  /\ \A j \in 1 .. (d.after + QueueMax) : Out[j] < d.raw
Accounted ==
  /\ \A i \in 1 .. seen :
       \/ \E k \in 1 .. Len(emitting) : i = emitting[k]
       \/ \E j \in 1 .. Len(Out) : i = Out[j]
       \/ i \in Lost
  /\ \A j \in 1 .. Len(Out) : Out[j] \notin Lost
  /\ \A d \in dropped : Met(d)

LEMMA OutIsTyped ==
  ASSUME QueueOK
  PROVE  /\ Out \in Seq(1 .. MaxRaws) /\ Len(Out) \in Nat
         /\ Len(polled) \in Nat /\ Len(queue) \in Nat
         /\ Len(Out) = Len(polled) + Len(queue)
         /\ \A j \in 1 .. Len(Out) :
              Out[j] = IF j <= Len(polled) THEN polled[j] ELSE queue[j - Len(polled)]
  BY ConcatProperties, LenProperties DEF QueueOK, Out

(* Facts about sequences.                                                   *)
LEMMA HeadAndTail ==
  ASSUME NEW S, NEW q \in Seq(S), q # <<>>
  PROVE  /\ Head(q) = q[1] /\ Head(q) \in S /\ Len(q) \in Nat /\ 1 \in 1 .. Len(q)
         /\ Len(Tail(q)) = Len(q) - 1
         /\ \A k \in 1 .. Len(Tail(q)) : Tail(q)[k] = q[k + 1]
  <1>1. Len(q) \in Nat /\ Len(q) # 0
    BY EmptySeq, LenProperties
  <1>2. Head(q) = q[1]
    OBVIOUS
  <1> QED BY <1>1, <1>2, HeadTailProperties

LEMMA AppendLast ==
  ASSUME NEW S, NEW p \in Seq(S), NEW q \in Seq(S), NEW e \in S
  PROVE  p \o Append(q, e) = Append(p \o q, e)
  <1>1. p \o q \in Seq(S) /\ <<e>> \in Seq(S)
    BY ConcatProperties
  <1>2. Append(q, e) = q \o <<e>> /\ Append(p \o q, e) = (p \o q) \o <<e>>
    BY <1>1, AppendIsConcat
  <1> QED BY <1>1, <1>2, ConcatAssociative

LEMMA MoveHead ==
  ASSUME NEW S, NEW p \in Seq(S), NEW q \in Seq(S), q # <<>>
  PROVE  Append(p, Head(q)) \o Tail(q) = p \o q
  <1>1. Head(q) \in S /\ <<Head(q)>> \in Seq(S) /\ Tail(q) \in Seq(S)
    BY HeadTailProperties
  <1>2. Append(p, Head(q)) = p \o <<Head(q)>>
    BY <1>1, AppendIsConcat
  <1>3. <<Head(q)>> \o Tail(q) = q
    <2>1. /\ <<Head(q)>> \o Tail(q) \in Seq(S)
          /\ Len(<<Head(q)>> \o Tail(q)) = 1 + Len(Tail(q))
          /\ \A i \in 1 .. 1 + Len(Tail(q)) :
                (<<Head(q)>> \o Tail(q))[i] = IF i <= 1 THEN Head(q) ELSE Tail(q)[i - 1]
      BY <1>1, ConcatProperties
    <2>2. \A i \in 1 .. Len(q) : (<<Head(q)>> \o Tail(q))[i] = q[i]
      BY <2>1, HeadAndTail
    <2>3. Len(<<Head(q)>> \o Tail(q)) = Len(q)
      BY <2>1, HeadAndTail
    <2> QED BY <2>1, <2>2, <2>3, SeqEqual
  <1> QED BY <1>1, <1>2, <1>3, ConcatAssociative

(* Polling moves the head over: the line stays.                             *)
LEMMA PollKeepsOut == ASSUME QueueOK, Poll PROVE Out' = Out
  BY MoveHead DEF Poll, QueueOK, Out

(* An enqueued raw is the last of the line.                                 *)
LEMMA AppendGrowsOut ==
  ASSUME QueueOK, NEW e \in 1 .. MaxRaws, queue' = Append(queue, e), polled' = polled
  PROVE  /\ Len(Out') = Len(Out) + 1 /\ Out'[Len(Out) + 1] = e
         /\ \A j \in 1 .. Len(Out) : Out'[j] = Out[j]
  <1>1. Out' = Append(Out, e)
    BY AppendLast DEF QueueOK, Out
  <1> QED BY <1>1, OutIsTyped, AppendProperties

(* The four ways a step can treat the raws.                                 *)
LEMMA RawSteps ==
  ASSUME [Next]_vars
  PROVE  \/ Poll
         \/ \E t \in Thread : Dispatch(t)
         \/ \E t \in Thread : Enqueue(t)
         \/ UNCHANGED raws
  BY DEF Next, vars, Owner, Run, Setup, Pump, Cleanup, Start, StartReady, StartTimesOut, Stop,
     Post, PostFails, Join, JoinTimesOut, Reset, Interrupt, Load, SetId, RegisterClass, CreateWindow,
     RegisterNotifications, Ready, SetupFails, Fail, Announce, Loop, GetQuit, PumpFails, CloseWindow, Destroy, Handled,
     UnregisterHandles, DestroyWindow, UnregisterClass, raws

(* The raws of a message are newer than all before it, and no other message *)
(* is being handled.                                                        *)
LEMMA DispatchKeepsOrder ==
  ASSUME TypeOK, OneThread, InOrder, Accounted, NEW t \in Thread, Dispatch(t)
  PROVE  InOrder' /\ Accounted'
  <1>1. emitting = <<>>
    BY DEF TypeOK, OneThread, Alive, Dispatch, Move
  <1>2. PICK m \in 1 .. 2 : seen' = seen + m /\ emitting' = [j \in 1 .. m |-> seen + j]
    BY DEF Dispatch
  <1>3. polled' = polled /\ queue' = queue /\ dropped' = dropped /\ Out' = Out /\ Lost' = Lost
    BY DEF Dispatch, Out, Lost
  <1>4. seen \in Nat /\ Len(emitting') = m /\ Len(Out) \in Nat
        /\ \A k \in 1 .. m : emitting'[k] = seen + k
    BY <1>2, TypeParts, OutIsTyped, SourceAssumption DEF TypeOK
  <1>5. \A j \in 1 .. Len(Out) : Out[j] \in Nat
    BY TypeParts, OutIsTyped, ElementOfSeq, SourceAssumption
  <1>6. \A i \in Lost : i \in Nat
    BY SourceAssumption DEF TypeOK, Lost
  <1>7. InOrder'
    BY <1>2, <1>3, <1>4, <1>5, <1>6 DEF InOrder
  <1>8. ASSUME NEW i \in 1 .. seen'
        PROVE  \/ \E k \in 1 .. Len(emitting') : i = emitting'[k]
               \/ \E j \in 1 .. Len(Out) : i = Out[j]
               \/ i \in Lost
    <2>1. CASE i \in 1 .. seen
      BY <1>1, <2>1 DEF Accounted
    <2>2. CASE i > seen
      <3>1. i - seen \in 1 .. m /\ seen + (i - seen) = i
        BY <1>2, <1>4, <2>2
      <3> QED BY <1>4, <3>1
    <2> QED BY <1>2, <1>4, <2>1, <2>2
  <1>9. \A d \in dropped' : Met(d)'
    BY <1>3 DEF Accounted, Met
  <1> QED BY <1>3, <1>7, <1>8, <1>9 DEF Accounted

(* The window procedure's next raw takes its place, or finds the queue full. *)
LEMMA EnqueueKeepsOrder ==
  ASSUME QueueOK, QueueOK', InOrder, Accounted, NEW t \in Thread, Enqueue(t)
  PROVE  InOrder' /\ Accounted'
  <1> DEFINE e == emitting[1]
  <1>1. /\ emitting # <<>> /\ emitting' = Tail(emitting) /\ seen' = seen /\ polled' = polled
        /\ emitting \in Seq(1 .. MaxRaws)
    BY DEF Enqueue, QueueOK
  <1>2. /\ Head(emitting) = e /\ e \in 1 .. MaxRaws
        /\ Len(emitting) \in Nat /\ 1 \in 1 .. Len(emitting)
        /\ Len(emitting') = Len(emitting) - 1
        /\ \A k \in 1 .. Len(emitting') : emitting'[k] = emitting[k + 1]
    BY <1>1, HeadAndTail
  <1>3. /\ \A k \in 1 .. Len(emitting') : k + 1 \in 1 .. Len(emitting) /\ e < emitting[k + 1]
        /\ \A k \in 1 .. Len(emitting) : k = 1 \/ k - 1 \in 1 .. Len(emitting')
    BY <1>2 DEF InOrder
  <1>4. /\ \A j \in 1 .. Len(Out) : Out[j] < e
        /\ \A i \in Lost : i < e
        /\ e <= seen
    BY <1>2 DEF InOrder
  <1>5. \A j \in 1 .. Len(Out) : Out[j] \in Nat
    BY OutIsTyped, ElementOfSeq, SourceAssumption
  <1>6. e \in Nat /\ seen \in Nat /\ QueueMax \in Nat \ {0} /\ Len(Out) \in Nat
        /\ \A i \in Lost : i \in Nat
    <2>1. \A i \in Lost : i \in 1 .. MaxRaws
      BY DEF QueueOK, Lost
    <2> QED BY <1>2, <2>1, OutIsTyped, SourceAssumption, SMTT(20) DEF QueueOK
  <1>7. \A i \in 1 .. seen : \/ \E k \in 1 .. Len(emitting') : i = emitting'[k]
                             \/ \E j \in 1 .. Len(Out) : i = Out[j]
                             \/ i \in Lost \/ i = e
    <2>1. ASSUME NEW i, NEW k \in 1 .. Len(emitting), i = emitting[k]
          PROVE  i = e \/ \E l \in 1 .. Len(emitting') : i = emitting'[l]
      <3>1. CASE k = 1
        BY <2>1, <3>1
      <3>2. CASE k - 1 \in 1 .. Len(emitting')
        <4>1. (k - 1) + 1 = k
          BY <1>2
        <4>2. emitting'[k - 1] = emitting[(k - 1) + 1]
          BY <1>2, <3>2
        <4> QED BY <2>1, <3>2, <4>1, <4>2
      <3> QED BY <1>3, <3>1, <3>2
    <2> QED BY <2>1 DEF Accounted
  <1>8. CASE queue' = Append(queue, e) /\ dropped' = dropped
    <2>1. /\ Len(Out') = Len(Out) + 1 /\ Out'[Len(Out) + 1] = e
          /\ \A j \in 1 .. Len(Out) : Out'[j] = Out[j]
      BY <1>1, <1>2, <1>8, AppendGrowsOut
    <2>2. \A j \in 1 .. Len(Out') : j \in 1 .. Len(Out) \/ j = Len(Out) + 1
      BY <1>6, <2>1
    <2> HIDE DEF e
    <2>5. Lost' = Lost
      BY <1>8 DEF Lost
    <2>3. InOrder'
      <3>1. \A j, k \in 1 .. Len(Out') : j < k => Out'[j] < Out'[k]
        BY <1>4, <1>6, <2>1, <2>2 DEF InOrder
      <3>2. \A j, k \in 1 .. Len(emitting') : j < k => emitting'[j] < emitting'[k]
        BY <1>2, <1>3 DEF InOrder
      <3>3. \A k \in 1 .. Len(emitting') :
              /\ \A j \in 1 .. Len(Out') : Out'[j] < emitting'[k]
              /\ \A i \in Lost' : i < emitting'[k]
              /\ emitting'[k] <= seen'
        BY <1>1, <1>2, <1>3, <2>5, <2>1, <2>2 DEF InOrder
      <3>4. \A j \in 1 .. Len(Out') : Out'[j] <= seen'
        BY <1>1, <1>4, <2>1, <2>2 DEF InOrder
      <3> QED BY <1>1, <2>5, <3>1, <3>2, <3>3, <3>4 DEF InOrder
    <2>4. Accounted'
      <3>1. \A i \in 1 .. seen : i = e \/ (\E j \in 1 .. Len(Out) : i = Out[j])
                                   => \E j \in 1 .. Len(Out') : i = Out'[j]
        BY <1>6, <2>1
      <3>2. \A j \in 1 .. Len(Out') : Out'[j] \notin Lost
        BY <1>4, <1>6, <2>1, <2>2 DEF Accounted
      <3>3. ASSUME NEW d \in dropped PROVE Met(d)'
        <4>1. d.after \in Nat /\ d.after + QueueMax <= Len(Out)
          BY DEF Accounted, Met, QueueOK
        <4>2. \A j \in 1 .. (d.after + QueueMax) : j \in 1 .. Len(Out)
          BY <1>6, <4>1
        <4>3. d.after + QueueMax <= Len(Out')
          BY <1>6, <2>1, <4>1
        <4>4. \A j \in 1 .. (d.after + QueueMax) : Out'[j] < d.raw
          BY <2>1, <4>2 DEF Accounted, Met
        <4> QED BY <4>3, <4>4 DEF Met
      <3> QED BY <1>1, <1>7, <1>8, <2>5, <3>1, <3>2, <3>3 DEF Accounted
    <2> QED BY <2>3, <2>4
  <1>9. CASE ~(Len(queue) < QueueMax) /\ queue' = queue /\ dropped' = dropped \cup {Drop(e)}
    <2>1. Out' = Out
      BY <1>1, <1>9 DEF Out
    <2> HIDE DEF e
    <2>4. Lost' = Lost \cup {e}
      <3>1. Drop(e).raw = e
        BY DEF Drop
      <3> QED BY <1>9, <3>1 DEF Lost
    <2>2. InOrder'
      <3>1. \A j, k \in 1 .. Len(emitting') : j < k => emitting'[j] < emitting'[k]
        BY <1>2, <1>3 DEF InOrder
      <3>2. \A k \in 1 .. Len(emitting') :
              /\ \A j \in 1 .. Len(Out) : Out[j] < emitting'[k]
              /\ \A i \in Lost' : i < emitting'[k]
              /\ emitting'[k] <= seen'
        BY <1>1, <1>2, <1>3, <2>4 DEF InOrder
      <3>3. \A i \in Lost' : i <= seen'
        BY <1>1, <1>4, <2>4 DEF InOrder
      <3> QED BY <1>1, <2>1, <3>1, <3>2, <3>3 DEF InOrder
    <2>3. Accounted'
      <3>1. \A j \in 1 .. Len(Out) : Out[j] \notin Lost'
        BY <1>4, <1>5, <1>6, <2>4 DEF Accounted
      <3>2. Len(queue) = QueueMax /\ Len(polled) \in Nat /\ Len(polled) + QueueMax = Len(Out)
        <4>1. Len(queue) <= QueueMax /\ ~(Len(queue) < QueueMax) /\ Len(queue) \in Nat
          BY <1>9, OutIsTyped DEF QueueOK
        <4>2. Len(queue) = QueueMax
          BY <1>6, <4>1
        <4> QED BY <4>2, OutIsTyped
      <3>3. Met(Drop(e))
        <4>1. Drop(e).after = Len(polled) /\ Drop(e).raw = e
          BY DEF Drop
        <4>2. Drop(e).after + QueueMax = Len(Out)
          BY <3>2, <4>1
        <4> QED BY <1>4, <1>6, <4>1, <4>2 DEF Met
      <3>4. \A d \in dropped' : Met(d)'
        BY <1>9, <2>1, <3>3 DEF Accounted, Met
      <3> QED BY <1>1, <1>7, <2>4, <2>1, <3>1, <3>4 DEF Accounted
    <2> QED BY <2>2, <2>3
  <1> QED BY <1>2, <1>8, <1>9 DEF Enqueue

LEMMA AccountedIsOverflowOnly ==
  ASSUME QueueOK, InOrder, Accounted
  PROVE  OnlyOverflowDrops
  <1>1. DOMAIN Out = 1 .. Len(Out) /\ DOMAIN emitting = 1 .. Len(emitting) /\ Len(Out) \in Nat
    BY OutIsTyped, LenProperties DEF QueueOK
  <1>2. \A j, k \in DOMAIN Out : j < k => Out[j] < Out[k]
    BY <1>1 DEF InOrder
  <1>3. ASSUME NEW i \in 1 .. seen
        PROVE  \/ i \in Elems(emitting) \/ (i \in Elems(Out) /\ i \notin Lost)
               \/ (i \in Lost /\ i \notin Elems(Out))
    BY <1>1 DEF Accounted, Elems
  <1>4. ASSUME NEW d \in dropped
        PROVE  Cardinality({k \in DOMAIN Out : k > d.after /\ Out[k] < d.raw}) >= QueueMax
    <2> DEFINE older == {k \in DOMAIN Out : k > d.after /\ Out[k] < d.raw}
    <2>1. PICK a \in Nat : a = d.after
      BY DEF QueueOK
    <2>2. QueueMax \in Nat /\ a + QueueMax <= Len(Out) /\ a + QueueMax >= a + 1
      BY <2>1, SourceAssumption DEF Accounted, Met
    <2>3. (a + 1) .. (a + QueueMax) \subseteq 1 .. Len(Out) /\ older \subseteq 1 .. Len(Out)
      BY <1>1, <2>2
    <2>4. \A k \in (a + 1) .. (a + QueueMax) : k > a /\ k \in 1 .. (a + QueueMax)
      BY <2>2
    <2>5. (a + 1) .. (a + QueueMax) \subseteq older
      BY <1>1, <2>1, <2>3, <2>4 DEF Accounted, Met
    <2>6. /\ IsFiniteSet(1 .. Len(Out))
          /\ Cardinality((a + 1) .. (a + QueueMax)) = (a + QueueMax) - (a + 1) + 1
      BY <1>1, <2>2, FS_Interval
    <2>7. IsFiniteSet(older) /\ Cardinality(older) \in Nat
      BY <2>3, <2>6, FS_Subset, FS_CardinalityType
    <2>8. Cardinality((a + 1) .. (a + QueueMax)) <= Cardinality(older)
      BY <2>5, <2>7, FS_Subset
    <2>9. (a + QueueMax) - (a + 1) + 1 = QueueMax
      BY <2>2
    <2> HIDE DEF older
    <2>10. Cardinality(older) >= QueueMax
      BY <2>2, <2>6, <2>7, <2>8, <2>9
    <2> QED BY <2>10 DEF older
  <1> QED BY <1>2, <1>3, <1>4 DEF OnlyOverflowDrops, Out, Lost

(* The queue keeps the order of the raws and loses one only when it is full *)
(* of older ones, for WindowsEventSource!OnlyOverflowDrops.                 *)
THEOREM QueueLosesOverflowOnly == Spec => []OnlyOverflowDrops
  <1>1. Init => InOrder /\ Accounted
    <2> SUFFICES ASSUME Init PROVE InOrder /\ Accounted
      OBVIOUS
    <2>1. polled = <<>> /\ queue = <<>> /\ emitting = <<>> /\ seen = 0 /\ dropped = {}
      BY DEF Init
    <2>2. Len(Out) = 0 /\ Len(emitting) = 0
      BY <2>1 DEF Out
    <2> QED BY <2>1, <2>2 DEF InOrder, Accounted, Lost
  <1>2. IInv /\ IInv' /\ InOrder /\ Accounted /\ [Next]_vars => InOrder' /\ Accounted'
    <2> SUFFICES ASSUME IInv, IInv', InOrder, Accounted, [Next]_vars
                 PROVE  InOrder' /\ Accounted'
      OBVIOUS
    <2>1. QueueOK /\ QueueOK' /\ TypeOK /\ OneThread
      BY TypeParts DEF IInv, TypeOK, QueueOK
    <2>2. CASE Poll
      <3>1. UNCHANGED <<emitting, seen, dropped, Out, Lost>>
        BY <2>1, <2>2, PollKeepsOut DEF Poll, Lost
      <3> QED BY <3>1 DEF InOrder, Accounted, Met
    <2>3. CASE \E t \in Thread : Dispatch(t)
      BY <2>1, <2>3, DispatchKeepsOrder
    <2>4. CASE \E t \in Thread : Enqueue(t)
      BY <2>1, <2>4, EnqueueKeepsOrder
    <2>5. CASE UNCHANGED raws
      <3>1. UNCHANGED <<emitting, seen, dropped, Out, Lost>>
        BY <2>5 DEF raws, Out, Lost
      <3> QED BY <3>1 DEF InOrder, Accounted, Met
    <2> QED BY <2>2, <2>3, <2>4, <2>5, RawSteps
  <1>3. IInv /\ InOrder /\ Accounted => OnlyOverflowDrops
    BY TypeParts, AccountedIsOverflowOnly DEF IInv
  <1> QED BY <1>1, <1>2, <1>3, Inductive, PTL DEF Spec

-----------------------------------------------------------------------------
(* The raws left to enqueue are the last that were told.                    *)
Latest ==
  /\ Len(emitting) <= seen
  /\ \A k \in 1 .. Len(emitting) : emitting[k] = seen - Len(emitting) + k

LEMMA LatestStays ==
  ASSUME TypeOK, OneThread, Latest, [Next]_vars
  PROVE  Latest'
<1>1. ASSUME NEW t \in Thread, Dispatch(t) PROVE Latest'
  <2>1. PICK m \in 1 .. 2 : seen' = seen + m /\ emitting' = [j \in 1 .. m |-> seen + j]
    BY <1>1 DEF Dispatch
  <2>2. seen \in Nat /\ Len(emitting') = m /\ \A k \in 1 .. m : emitting'[k] = seen + k
    BY <2>1, SourceAssumption DEF TypeOK
  <2> QED BY <2>1, <2>2 DEF Latest
<1>2. ASSUME NEW t \in Thread, Enqueue(t) PROVE Latest'
  <2>1. emitting # <<>> /\ emitting' = Tail(emitting) /\ seen' = seen
    BY <1>2 DEF Enqueue
  <2>2. /\ Len(emitting) \in Nat /\ Len(emitting') = Len(emitting) - 1
        /\ \A k \in 1 .. Len(emitting') : emitting'[k] = emitting[k + 1]
    BY <2>1, HeadAndTail DEF TypeOK
  <2>3. seen \in Nat
    BY SourceAssumption DEF TypeOK
  <2> QED BY <2>1, <2>2, <2>3 DEF Latest
<1>3. CASE Poll \/ UNCHANGED raws
  BY <1>3 DEF Poll, raws, Latest
<1> QED BY <1>1, <1>2, <1>3, RawSteps

(* Each step is one of an EventSource: the messages are told when they are  *)
(* offered to the queue.                                                    *)
LEMMA EnqueueIsArrive ==
  ASSUME TypeOK, Latest, NEW t \in Thread, Enqueue(t)
  PROVE  Source!Arrive
<1>1. /\ emitting # <<>> /\ emitting' = Tail(emitting) /\ seen' = seen
      /\ IF Len(queue) < QueueMax THEN queue' = Append(queue, Head(emitting)) ELSE queue' = queue
  BY DEF Enqueue
<1>2. /\ Len(emitting) \in Nat /\ Len(emitting) >= 1 /\ Len(emitting') = Len(emitting) - 1
      /\ Head(emitting) = emitting[1]
  BY <1>1, HeadAndTail DEF TypeOK
<1>3. seen \in Nat /\ seen <= MaxRaws /\ MaxRaws \in Nat /\ Len(queue) \in Nat
  BY SourceAssumption DEF TypeOK
<1>4. Head(emitting) = seen' - Len(emitting')
  BY <1>1, <1>2, <1>3 DEF Latest
<1>5. /\ seen - Len(emitting) < MaxRaws
      /\ seen' - Len(emitting') = (seen - Len(emitting)) + 1
  BY <1>1, <1>2, <1>3
<1>6. \/ Len(queue) < QueueMax /\ queue' = Append(queue, seen' - Len(emitting'))
      \/ Len(queue) >= QueueMax /\ UNCHANGED queue
  BY <1>1, <1>3, <1>4, SourceAssumption
<1> QED BY <1>5, <1>6 DEF Source!Arrive

(* For WindowsEventSource!IsAnEventSource: whatever start, stop and the     *)
(* failures do, the queue is that of an EventSource of this capacity.       *)
THEOREM WindowsIsASource == Spec => IsAnEventSource
<1>1. Init => Latest /\ Source!Init
  <2> SUFFICES ASSUME Init PROVE Latest /\ Source!Init
    OBVIOUS
  <2>1. queue = <<>> /\ emitting = <<>> /\ seen = 0 /\ Len(emitting) = 0
    BY DEF Init
  <2>2. Latest
    BY <2>1 DEF Latest
  <2>3. seen - Len(emitting) = 0 - 0
    BY <2>1, Zenon
  <2> QED BY <2>1, <2>2, <2>3 DEF Source!Init
<1>2. IInv /\ Latest /\ [Next]_vars => Latest'
  BY LatestStays DEF IInv
<1>3. IInv /\ Latest /\ [Next]_vars => [Source!Next]_(Source!vars)
  <2> SUFFICES ASSUME IInv, Latest, [Next]_vars PROVE [Source!Next]_(Source!vars)
    OBVIOUS
  <2>1. TypeOK /\ OneThread
    BY DEF IInv
  <2>2. CASE Poll
    BY <2>2 DEF Poll, Source!Next, Source!Poll
  <2>3. ASSUME NEW t \in Thread, Dispatch(t) PROVE UNCHANGED Source!vars
    <3>1. emitting = <<>> /\ Len(emitting) = 0
      BY <2>1, <2>3 DEF TypeOK, OneThread, Alive, Dispatch, Move
    <3>2. PICK m \in 1 .. 2 : seen' = seen + m /\ emitting' = [j \in 1 .. m |-> seen + j]
      BY <2>3 DEF Dispatch
    <3>3. Len(emitting') = m /\ seen \in Nat /\ queue' = queue
      BY <2>1, <2>3, <3>2, SourceAssumption DEF Dispatch, TypeOK
    <3>4. seen' - Len(emitting') = seen - Len(emitting)
      BY <3>1, <3>2, <3>3
    <3> QED BY <3>3, <3>4 DEF Source!vars
  <2>4. CASE \E t \in Thread : Enqueue(t)
    BY <2>1, <2>4, EnqueueIsArrive DEF Source!Next
  <2>5. CASE UNCHANGED raws
    BY <2>5 DEF raws, Source!vars
  <2> QED BY <2>2, <2>3, <2>4, <2>5, RawSteps
<1> QED BY <1>1, <1>2, <1>3, Inductive, PTL DEF Spec, IsAnEventSource, Source!Spec

-----------------------------------------------------------------------------
(* What any source that keeps this promise gives the monitor.               *)
CONSTANTS Most, Room
VARIABLES told, waiting
Promise == INSTANCE EventSource WITH
  MaxRaws <- Most, Capacity <- Room, arrived <- told, queue <- waiting

SourceTypes == told \in Nat /\ waiting \in Seq(Nat)

(* Notifications come out in the order in which they were told, none comes  *)
(* back and none overtakes another, however many are lost between them.     *)
THEOREM SourcePromiseSuffices == Promise!Spec => []Promise!InOrder /\ Promise!TakenInOrder
<1> DEFINE Ordered == SourceTypes /\ Promise!InOrder
           Taken == /\ Promise!Waiting' \subseteq Promise!Waiting \cup {told + 1}
                    /\ \A i \in Promise!Waiting \ Promise!Waiting' :
                         \A j \in Promise!Waiting' : i < j
<1>1. Promise!Init => Ordered
  <2> SUFFICES ASSUME Promise!Init PROVE Ordered
    OBVIOUS
  <2>1. told = 0 /\ waiting = <<>> /\ DOMAIN waiting = {}
    BY DEF Promise!Init
  <2> QED BY <2>1 DEF Promise!InOrder, Promise!Waiting, SourceTypes
<1>2. Ordered /\ [Promise!Next]_(Promise!vars) => Ordered' /\ Taken
  <2> SUFFICES ASSUME Ordered, [Promise!Next]_(Promise!vars) PROVE Ordered' /\ Taken
    OBVIOUS
  <2>1. /\ told \in Nat /\ waiting \in Seq(Nat) /\ Len(waiting) \in Nat
        /\ DOMAIN waiting = 1 .. Len(waiting)
        /\ \A j, k \in 1 .. Len(waiting) : j < k => waiting[j] < waiting[k]
        /\ \A k \in 1 .. Len(waiting) : waiting[k] \in 1 .. told
    BY DEF SourceTypes, Promise!InOrder, Promise!Waiting
  <2>2. CASE told' = told + 1 /\ waiting' = Append(waiting, told + 1)
    <3>1. /\ told' \in Nat /\ waiting' \in Seq(Nat) /\ Len(waiting') = Len(waiting) + 1
          /\ DOMAIN waiting' = 1 .. (Len(waiting) + 1)
          /\ \A k \in 1 .. Len(waiting) : waiting'[k] = waiting[k]
          /\ waiting'[Len(waiting) + 1] = told + 1
      BY <2>1, <2>2
    <3>2. \A k \in DOMAIN waiting' : k \in 1 .. Len(waiting) \/ k = Len(waiting) + 1
      BY <2>1, <3>1
    <3>3. Promise!Waiting' = Promise!Waiting \cup {told + 1}
      BY <2>1, <3>1, <3>2 DEF Promise!Waiting
    <3>4. ASSUME NEW j \in DOMAIN waiting', NEW k \in DOMAIN waiting', j < k
          PROVE  waiting'[j] < waiting'[k]
      <4>1. j \in 1 .. Len(waiting)
        BY <2>1, <3>1, <3>2, <3>4
      <4>2. waiting[j] < told + 1
        BY <2>1, <4>1
      <4> QED BY <2>1, <3>1, <3>2, <3>4, <4>1, <4>2
    <3>5. Promise!Waiting' \subseteq 1 .. told'
      BY <2>1, <2>2, <3>3 DEF Promise!Waiting
    <3> QED BY <3>1, <3>3, <3>4, <3>5 DEF SourceTypes, Promise!InOrder
  <2>3. CASE Promise!Poll
    <3>1. waiting # <<>> /\ waiting' = Tail(waiting) /\ told' = told
      BY <2>3 DEF Promise!Poll
    <3>2. /\ waiting' \in Seq(Nat) /\ Len(waiting') = Len(waiting) - 1
          /\ DOMAIN waiting' = 1 .. (Len(waiting) - 1)
          /\ \A k \in 1 .. (Len(waiting) - 1) : waiting'[k] = waiting[k + 1]
          /\ Len(waiting) >= 1
      BY <2>1, <3>1, HeadAndTail, HeadTailProperties
    <3>3. ASSUME NEW i \in Promise!Waiting' PROVE i \in Promise!Waiting /\ waiting[1] < i
      <4>1. PICK k \in 1 .. (Len(waiting) - 1) : i = waiting[k + 1]
        BY <3>2, <3>3 DEF Promise!Waiting
      <4>2. k + 1 \in 1 .. Len(waiting) /\ 1 \in 1 .. Len(waiting) /\ 1 < k + 1
        BY <2>1, <4>1
      <4> QED BY <2>1, <4>1, <4>2 DEF Promise!Waiting
    <3>4. ASSUME NEW j \in DOMAIN waiting', NEW k \in DOMAIN waiting', j < k
          PROVE  waiting'[j] < waiting'[k]
      <4>1. j + 1 \in 1 .. Len(waiting) /\ k + 1 \in 1 .. Len(waiting) /\ j + 1 < k + 1
        <5>1. j \in 1 .. (Len(waiting) - 1) /\ k \in 1 .. (Len(waiting) - 1)
          BY <3>2
        <5>2. Len(waiting) \in Nat /\ j < k
          BY <2>1, <3>4
        <5> QED BY <5>1, <5>2
      <4>2. waiting'[j] = waiting[j + 1] /\ waiting'[k] = waiting[k + 1]
        BY <3>2
      <4> QED BY <2>1, <4>1, <4>2
    <3>5. ASSUME NEW i \in Promise!Waiting \ Promise!Waiting' PROVE i = waiting[1]
      <4>1. PICK k \in 1 .. Len(waiting) : i = waiting[k]
        BY <2>1 DEF Promise!Waiting
      <4>2. CASE k # 1
        <5>1. k - 1 \in DOMAIN waiting' /\ waiting'[k - 1] = waiting[(k - 1) + 1]
          BY <2>1, <3>2, <4>2
        <5>2. (k - 1) + 1 = k
          BY <2>1
        <5>3. i \in Promise!Waiting'
          BY <4>1, <5>1, <5>2 DEF Promise!Waiting
        <5> QED BY <5>3
      <4> QED BY <4>1, <4>2
    <3>6. Promise!Waiting' \subseteq 1 .. told'
      BY <2>1, <3>1, <3>3 DEF Promise!Waiting
    <3> QED BY <2>1, <3>1, <3>2, <3>3, <3>4, <3>5, <3>6 DEF SourceTypes, Promise!InOrder
  <2>4. CASE Promise!TakeAll
    <3>1. waiting' = <<>> /\ told' = told /\ Promise!Waiting' = {}
      BY <2>4 DEF Promise!TakeAll, Promise!Waiting
    <3> QED BY <2>1, <3>1 DEF SourceTypes, Promise!InOrder
  <2>5. CASE told' \in {told, told + 1} /\ waiting' = waiting
    <3>1. told' \in Nat /\ 1 .. told \subseteq 1 .. told'
      BY <2>1, <2>5
    <3> QED BY <2>1, <2>5, <3>1 DEF SourceTypes, Promise!InOrder, Promise!Waiting
  <2> QED BY <2>2, <2>3, <2>4, <2>5 DEF Promise!Next, Promise!Arrive, Promise!vars
<1> QED BY <1>1, <1>2, PTL DEF Promise!Spec, Promise!TakenInOrder
=============================================================================

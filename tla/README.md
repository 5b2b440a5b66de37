# A TLA+ model of usb_security_monitor

The program watches USB plugs on one Windows host. It turns the raw device
notifications of the operating system into logical CONNECT and DISCONNECT
events, keeps a baseline of known devices, gives each event a heuristic score,
raises alerts with a cooldown, and stores events and alerts as local JSON files.
It is operated from a command line or from a small Tk window.

This directory holds TLA+ modules of its logic, TLC configurations that check
small instances, and TLAPS proofs that hold for every value of the constants.
`PROJECT.json` maps every definition to the lines of `src/` it stands for.

## 1. Inventory

The data flow, with the thread each part runs in:

    Windows message thread | worker thread (USBMonitor.run)                   | main thread
    WindowsEventSource --> queue --> EventNormalizer --> _queue_event --> callback --> MonitorApp queue --> _pump
                                                       |  metadata, DeviceInventory.observe,
                                                       |  Analyzer.analyze, AlertManager.consider,
                                                       |  _emit (pending, EventStore)
                                                       +--> devices.json, events.json, alerts.json

On the command line the worker is the main thread and Ctrl+C strikes in it. The
commands `status`, `events`, `alerts`, `report` and `trust` run beside it in
processes of their own, on the same three files.

| Component (source under `src/usb_monitor/`) | State | Operations | What is hard | What makes it correct |
|---|---|---|---|---|
| Windows source, `monitoring/windows_monitor.py` | message thread, window handle, bounded queue, ready event | start, stop, poll, the window procedure | the start handshake may time out; stop before the thread has an id; Windows may refuse the WM_QUIT; the hidden window may be closed by others; a full queue drops notifications | start either works or leaves nothing behind; a started thread pumps until it is stopped; a stop reaches it wherever it is |
| Raw notifications, `monitoring/event_source.py` | none | parsing of device paths | a stick is told as several paths that do not look alike | what one device says of itself does not contradict |
| Mock source, `monitoring/mock_source.py` | deque, condition, running flag | push, extend, take_all, start, stop, poll | it takes notifications before it is started | a fed item is returned once |
| Coalescer, `monitoring/normalizer.py` | open bursts | ingest, flush_ready, flush_all | two devices' notifications interleave; a volume has no identity; late notifications | no event mixes devices; each notification is told once |
| Monitor, `monitoring/monitor.py` | pending events, the source's life cycle | start, run, stop, poll, drain, feed, replay, `_queue_event` | a stage fails; stop at any point; Ctrl+C in the middle of an event or of the shutdown | delivered once, in order; stop ends and flushes |
| Metadata, `monitoring/metadata.py`, `windows_metadata.py` | none | collect, apply_metadata | any query may fail, and the parent device answers for a silent one | a failed query costs a field, never the event |
| Inventory, `inventory/device_inventory.py`, `models/device.py` | table of devices in memory, the same in a file | observe, set_trusted, update_risk, load, save | incomplete identities, re-keying, saves outside the lock, several processes | one record per device, first seen once, trust stays |
| Risk analysis, `analysis/*.py` | per device windows of times | analyze, record | window boundaries; event times that go back; sums of scores | windows are exact up to how far times went back; CRITICAL needs behaviour |
| Alerts, `alerts/manager.py` | last alert per fingerprint, history | consider | time stamps out of order; escalation | no repeat within the cooldown, no unjustified silence |
| Stores, `storage/*.py`, and who loads them (`reports/`, `cli.py`, `gui/app.py`) | capped lists in memory and file | append, reload with its trimming save, save | unreadable file, failing write, crash, a reader that saves | the file is a bounded log; an alert's event can be looked up |
| Window, `gui/app.py` | worker thread, stop flag, message queue, two buttons | start, stop, close, pump, trust, tables, export | messages of a worker that is gone | one worker; the buttons always work |
| Records, report layout, command line, demos, utilities | none that outlives a call | | | |

`PROJECT.json` lists the hazards at their lines, with the properties aimed at
them, or why there is none.

## 2. Modules

| Module | Models | Its state, and how it corresponds to the code |
|---|---|---|
| `RawDeviceEvent` | the window procedure's view of a notification, and the parsing of device paths | no state. A path is the sequence of its segments between `#`; `InterfaceEvent` and `VolumeEvents` are the two handlers, `ParseVidPid`, `ParseInstance`, `DevicePathToInstanceId`, `KindFromPath` the parsers. |
| `EventNormalizer` | the coalescer | `open` is `self._open`; a burst is a record of the fields `_Burst` has that decide anything, and of the set `raws` of the notifications that made it. `seen`, `events`, `dropped` are histories of what came in and went out; `now` is the monotonic clock. `Ingest` closes the ready bursts and merges, as `ingest` does; `FlushReady`, `FlushAll`. |
| `Coalescer` | what the monitor may expect of the coalescer | the abstract specification: `open` is the set of bursts, each the set of its notifications, `ripe` those that are due, `action` what was told of each notification passed in. It says nothing of windows or identities. |
| `EventSource` | what the monitor may expect of a source | the abstract specification: notifications are numbered as they are told, `queue` holds those that wait; one is lost only to a full queue. |
| `Metadata` | how an event gets its identity | no state. `FromBurst` is the identity part of `burst_to_event`, `Collect` the registry lookup with its parent fallback, `ApplyMetadata` the merge. A lookup takes the set of its queries that fail. |
| `DeviceInventory` | the table in memory | `devices` is `self._devices`, keyed by device id; `log` records what was observed, derived and found changed, `granted` the serials the operator trusts now. `Find`, `Merge`, `Store` are `_find_locked`, `_merge_event_into_device`, `_rekey_locked` with the assignment after it, `Changed` is `check_identity_change`. |
| `InventoryFile` | the inventory and its file | `memory[i]` is the table of an object, `file` what `devices.json` holds, `pc[t]` and `snapshot[t]` the thread inside `save`. |
| `Analyzer` | the anomaly tracker, rules, engine and levels | `connects`, `events` and `firstSeen` are the lists of `AnomalyTracker`, `past` the history they should agree with; an event is the set of facts the rules read from it. |
| `AlertManager` | `consider` | `last` maps a fingerprint to its cooldown entry; `emitted` and `silenced` are histories. |
| `Warnings` | the analysis and the alerts of `_queue_event` | the variables of `Analyzer`, and `entries`, `emitted`, `silenced` for those of an instance of `AlertManager`. A CONNECT is analysed and considered in one action, or its assessment is lost to an exception (`unheard`). |
| `BoundedLog` | what a history file promises | the abstract specification: `kept` is what a load would give; newer records come in, the oldest go, only to make room. |
| `HistoryStore` | both stores, the monitor that writes them, the commands and the window that load them | `file[h]` and `memory[h]` are the set of record numbers in `events.json`/`alerts.json` and in the monitor's stores; `at` is where the monitor is between load, `consider`, `_emit` and the saves; `place[r]`, `view[r]` the same of a reader. `astray`, `behind`, `cut` are histories of what went wrong. |
| `USBMonitor` | the pipeline and the mock source | `pc` is the place of the worker inside `run`, `_wait_for_event`, `_queue_event`, `stop`, `replay` and `feed`; `queue` is the source's, `open`/`ripe` the coalescer's bursts seen from outside, `pending` is `_pending`, `hand` the events a local variable holds, `stored` the event store, `delivered` the callback's calls. `owner` says who drives: `run()` alone (the window's worker), a `with` block around it (the `monitor` command of `main.py`), or a caller of `replay()`, whose pulled notifications are `batch`. `cut` is a history of the clauses a Ctrl+C cut short. One action per step between two places where another thread, time, the operator or an exception may come in. |
| `WindowsEventSource` | `start`, `stop`, `poll` and the message thread | `stop`, `ready`, `error`, `thread`, `threadId`, `hwnd`, `handles`, `atom` are the attributes; `class`, `window`, `notified`, `quits` what Windows holds of a thread, `closed` and `unposted` whose window was closed and whose WM_QUIT was refused; `pc[t]` is the place of the t-th thread in `_run`, `owner` that of the caller in `start` or `stop`. One action per call of the API and per assignment the other thread can see. |
| `MonitorApp` | the window | one variable per attribute of the class: `thread`, `monitor`, `stop`, `queue`, the buttons; `worker[w]` is where the thread of the w-th start is in `_worker`. |

`MC*` modules give the larger constants their values; `*_proofs` modules hold
the theorems.

How they compose:

* `MCEventNormalizer` feeds the coalescer with what `RawDeviceEvent` makes of the
  device paths of two sticks; `MCDeviceInventory` takes such notifications
  through `Metadata!FromBurst`, the lookup and `ApplyMetadata` to the events the
  inventory observes, so that no identity in these two runs is invented.
* `HistoryStore` implements `BoundedLog`, once for each history
  (`INSTANCE ... WITH`, checked as `HistoriesAreLogs` and proved).
* `EventNormalizer` and `USBMonitor` meet in `Coalescer`. The first keeps its
  promise (`IsACoalescer`), the second uses bursts that are such a coalescer's
  (`UsesACoalescer`); both are checked and proved. The pipeline lets a
  notification join any open burst of its action and closes any ripe burst,
  which leaves room for everything `EventNormalizer` does.
* `WindowsEventSource` and `USBMonitor` meet in `EventSource` in the same way
  (`IsAnEventSource`, `UsesASource`). The notifications of the pipeline are those
  its source had room for; what a full queue loses is the source's affair
  (`OnlyOverflowDrops`).
* `Warnings` puts `Analyzer` and an instance of `AlertManager` together, as
  `_queue_event` does, so that its properties speak of alerts and of the past at
  once.
* The pipeline leaves open whether an event has a derived or a suspicious
  follow-up, which `DeviceInventory` and `Analyzer` decide. This is not stated as
  a refinement.
* `InventoryFile` and `HistoryStore` are the shared files under `DeviceInventory`
  and the pipeline; their actions are whole operations of those.

## 3. Runs

The cap of every counter is a constant with "bound" in its comment. Every
property of a passing run has a mutant in `PROJECT.json`: a plausible fault of
one mapped definition, kept in the module just before it and marked "Fault", that
makes TLC find the property violated.

| Run | Question | Bounds, and why they are enough |
|---|---|---|
| `coalescer` | Can the interleaved notifications of two sticks of one model be mixed, lost or doubled, and how far apart may the notifications of one event be? Is it the `Coalescer` the monitor expects? | Four notifications out of eight kinds (two sticks, one serial in two spellings, a disk, two volumes, an unreadable path, a removal); quiet 2, max_wait 3, time 0..3: the third notification can be late for the quiet period, and max_wait can end a burst that is still busy. |
| `pipeline` | Is what the monitor took delivered once and in order, and flushed at the end? Does a stop end the run, does every notification reach the callback? Are the coalescer and the source used as `Coalescer` and `EventSource` allow? | A plug, its disk follow-up and the unplug, one failing poll, ingest or feed, one Ctrl+C at any point once the source is started: in the loop, in each step of the `finally` clause, and in the `stop()` of a `with` block; each of the three owners. Three notifications suffice for two bursts at once, one of them noise. |
| `window` | Can the operator be left without a working button, or a Stop that is not heard? | Three starts and two waiting messages: a stale message of a worker that is two starts old would need no more. |
| `stop_button_works` (violation) | Does Stop work while a worker runs? | Two starts. |
| `inventory` | Are records found, merged and moved without losing counts, first sightings or trust? When is a device accused of a changed identity? | Four of the events of two sticks of one model, told as USB device, disk and volume, with lookups that find all, miss the manufacturer or fail, and a letter that is a stick's or a fixed disk's, alone or joined to the burst of stick A: a record can be opened under a poor identity, moved twice and found again. One record holds a risk level, which nothing else reads. |
| `inventory_file` | What can the file lose, and by what? | Two devices, worker, window and trust command, four changes, two mishaps. Two objects overlap with one change each and leave two for a loss to show; a misread file leaves one mishap and changes enough to see the next save make it good or fail. |
| `first_seen_history` (violation) | Does first-seen history remain when nothing fails? | One monitor with its window, four changes. |
| `history` | Are the two files the bounded logs they promise to be, for whoever loads them? Has every alert its event, and is a report coherent? | A monitor and a reader, caps of three events and two alerts, files empty or of four records, four new events, one failing read or write, exits anywhere. Files over the cap make both of them save while they load. A report has two rows of up to three events, so that `_apply_limit` cuts what is loaded and the alert's event can be shown, cut off or never loaded. |
| `windows_source` | Does a stop reach the message thread wherever it is, does a start that succeeded pump, is nothing left registered, what does the queue lose? Is it the `EventSource` the monitor expects? | Two starts, so that the second meets what the first left; two failing calls, in the setup, the cleanup, the pump or the posting of a WM_QUIT; a window that someone else closes at any time; one Ctrl+C; three raws for a queue of two, which is full once and told from two threads or from one message. |
| `ctrl_c_during_start` (violation) | Does Ctrl+C end the message thread? | One start, no failing call. |
| `alerts` | Is silence only when it must be, with time stamps in any order? When a fingerprint's alerts come in order, are two of them a cooldown apart whatever was escalated in between? | Four candidates, times 0..3, cooldown 2: before, at and after the end of a window, an escalation inside it and a repeat of the escalated alert. One device plus the two shared keys, one assessment for each branch of `_build_candidate`. |
| `warnings` | How exact are the windows when event times go back, and what can make a score CRITICAL? Is every alert about something that happened? Is the operator told of several new devices and of a flapping one, whatever was suppressed before and for whichever device? | Windows of 1 for connects and 2 for events and new devices, thresholds 2, 3 and 2, a cooldown of 2, times 0..4 in any order, three events of three devices: each threshold can be reached, and missed by one reading that has just left its window; a time may go back by less than a window, by more, and a window may end before, with and after a cooldown. A device comes trusted or with all an event alone can show, so that the same windows end in alerts of every severity. One lost assessment. The rule scores are those of the code. |

The three violations are findings (in `PROJECT.json` with the lines they quote):

* the window's `_mark_idle`, run for a message of the previous worker, greys
  Stop out while the new worker runs (README.md says Stop shuts it down). The
  window also forgets the new monitor, so a trust click then loads a second
  inventory object beside the worker's;
* the saves of two threads of one inventory may end in the opposite order of
  their changes, and a device is then first seen again after a restart
  (docs/ARCHITECTURE.md: first-seen history remains);
* `run` calls `start` before its `try`, so a Ctrl+C between the start of the
  message thread and the `try` leaves that thread, which is no daemon, blocked
  in `GetMessageW`, and the process with it (README.md says Ctrl+C shuts the
  watcher down).

What the passing runs say that a reader of the code may not expect:

* all new devices share one fingerprint, so a second group of new devices within
  the cooldown is not told of again; and a flap may be told under no name of its
  own when its device is also one of several new ones (`NothingSlips`, which
  would not hold without either of these two clauses);
* a volume that mounts after the quiet period is a second CONNECT of the plug;
  `BurstsWithinWindows` says how late is too late (docs/HARDWARE.md expects one
  CONNECT of one plug; that holds of notifications within the windows);
* the path of a stick's disk is of kind `usb` (it contains `USBSTOR`) and its
  instance `S&0` differs from the stick's `S`, so it never joins the stick's
  burst and is an event of its own;
* when the manufacturer of a device cannot be read once, its parent's stays in
  the record, and the next complete lookup is scored as IDENTITY_INCONSISTENCY
  (`AccusedForCause`: this takes a failed lookup, and of what identifies a
  device nothing is ever contradicted);
* the first drive type known of a record stays in it. When a fixed USB disk had
  a drive letter, every stick that is later told by this letter alone is scored
  as having become removable; and a letter-only volume of such a disk joins
  whichever burst is open, so its drive type can also be recorded under a
  stick's own name (`AccusedForCause`: under a letter, or for a borrowed one);
* the times of successive events go back without any clock being set: a burst
  has the time of its first notification and comes out when it ripens. The
  tracker drops readings from the left only, so a late-come earlier time shields
  older readings, and a window reaches back further than it says, by at most as
  much as the times went back (`WindowsAreExact`); an alert may then be given
  for a window that was not quite complete, or stand for an event of an earlier
  time than its own, within the same bound (`AlertsHaveCause`, `NothingSlips`);
* a Ctrl+C in the `finally` clause of `run` leaves the source running when it
  comes before or in `source.stop`, which only a `with` block makes good, and it
  takes the events that `drain` has handed out and the callback has not had,
  although they are stored (`CleanShutdown`, `StoreFollowsStream`);
* WM_CLOSE sent to the hidden window ends the message thread with no stop and no
  failure, since WM_DESTROY posts a WM_QUIT; `is_running` then turns false and
  nothing is told any more (`RunningUntilStop`). And a WM_QUIT that Windows
  refuses is logged only: that thread waits for its next message for ever
  (`StopReachesWatcher` and `StopEndsWatcher` excuse it);
* a devices.json that is there and cannot be read when it is loaded makes an
  empty table, and the next save writes that over the file; from then on the
  file is in step again (`FileCatchesUp`, `HistoryRemains`);
* a command that loads a history with too many records saves it, and may put
  back what it loaded over what a monitor has saved since; `HistoriesAreLogs`
  names this doubt, without which nothing is lost.

`CHECK_DEADLOCK FALSE` stands in the configurations of systems that may stop:
the monitor when it is done, the window when it is closed, and the models whose
history is full. The coalescer and the histories' readers never stop, and are
checked for deadlock.

### Fairness

`USBMonitor` assumes weak fairness of the worker's step (a thread that can go on
is scheduled), of a burst's ripening and of the poll's deadline (time passes),
and strong fairness of reading a notification that waits: a poll slice of 0.2 s
does not end, time after time, in the few instructions before `source.poll`.
Nothing is assumed of notifications, of failures or of the operator. The liveness
properties excuse a stop and an interrupt. `MonitorApp` assumes that a worker's
steps are taken once the flag is set, which is what `StopEnds` shows of the
pipeline, and that Tk goes on calling `_pump`; it assumes nothing of the
operator, nor that a run ends by itself. `WindowsEventSource` assumes that a
message thread that can go on does (a call of the API that does not wait for a
message returns) and that a caller inside `stop`, whose waits are bounded, goes
on; messages and calls of `start` owe nothing, and `StopEndsWatcher` excuses an
interrupt and a thread whose WM_QUIT Windows refused to post.

## 4. Proofs

TLAPS proves the following for every value of the constants that satisfies the
module's `ASSUME`. TLC evaluates these assumptions in the runs. Types are
proved for every module below. Runs check them of `DeviceInventory` and
`HistoryStore` only; elsewhere they say no more than the shape of the variables.

* **`AlertManager_proofs`**: types; `EntryIsLatest`, which is inductive because
  an entry is replaced exactly when an alert is emitted. With it, an alert that
  follows one of its fingerprint was compared with that one, so
  `RepeatIsLaterOrWorse` and `SilenceIsJustified` follow for time stamps in any
  order. `CooldownHolds` follows by induction over the alerts between two of one
  fingerprint: when they are in order of time, each is worse than the one before
  it, so escalations can only make a later repeat rarer.
* **`EventNormalizer_proofs`**: types; `NoMixedEvents` by the invariant
  `BurstsCoverTheirRaws`. A burst compares a new notification with its own
  first known values only; since it has the value of each of its notifications
  where one is known, that comparison settles all pairs. `EachRawOnce` by
  `Accounted`: the notifications of any two bursts or events are disjoint and
  together are all that came in. `BurstsWithinWindows` by `InTime`: a burst's
  `first` is not after any of its notifications, its `last` is the time of one.
  `IsACoalescer` maps a burst to the set of its notifications. By `Accounted`
  and because a burst has at least one (`InTime`), bursts are as many sets, so
  taking a burst from the list takes its set away and no other; by
  `BurstsCoverTheirRaws` a burst's action is that of each of its notifications.
  `PromiseSuffices` proves of `Coalescer` itself what it is worth to its caller:
  bursts that share nothing and are of one action, handed over once.
* **`Analyzer_proofs`**: the assessment of the last event is always the rules'
  verdict on some set of rules (`Scored`); without a behavioural rule a score
  stops at 63, and taking `TRUSTED_DEVICE` out never lowers it. For the types
  and `WindowsAreExact`, each list of the tracker enumerates, in order,
  positions of the past, and all those that no event up to now found too old
  (`Keeps`): dropping from the left never takes one of these. A list that was
  just pruned begins with a young one, so whatever else it holds came after that
  (`IsPruned`) and is older by no more than the times went back. Hence each
  count lies between those of the shortened and the lengthened window; this is
  inductive for every bound of the lag (`AllCounted`), and `LagBehind` gives it
  for the least one. Then `Warnings`: the composition keeps both parts'
  specifications (`PartsAreKept`), so the rules of an assessment are bounded by
  the windows that end with its CONNECT (`ConnectIsJudged`), and no later event
  changes what those counted (`PastStands`). The invariant states the two
  properties for every bound of the lag (`Caused`, `Answered`), and adds that
  each cooldown entry is an alert that was given (`EntriesTold`). A candidate is
  then heard when it is given, or an entry stands for it, whose alert by
  `AlertsHaveCause` is about an earlier CONNECT, which is later in time by no
  more than the lag (`CandidateIsHeard`); the two properties need each other in
  this. `Answers` says which candidates
  the order of the branches in `_build_candidate` leaves for a rule.
* **`USBMonitor_proofs`**: types, `EachRawOnce`, `CleanShutdown`,
  `DerivedFollowsConnect` and `StoreFollowsStream`, for any number of
  notifications, failures and stops, with every owner and with Ctrl+C in the loop, in
  the `finally` clause or in `stop()`. The invariant has five parts. `Control` says which places the worker of `run` and
  a caller of `replay` pass, that a `_queue_event` loop always has a place to
  return to, and where a batch or an event in hand can be. `Shutdown` is what
  each step of the shutdown has already emptied, counted from the place the loop
  in progress returns to (`At`), and where a clause that was cut short leaves the
  worker (`Spoilt`). `Raws` puts each notification in one place; it
  needs that open bursts, bursts to do and events are pairwise disjoint
  (`Separate`, `RawsApart`) before it can say that none is lost (`NoneLost`),
  since a place is left by removing one burst. `Streams` keeps the events that
  are announced apart by their notifications, the derived behind their CONNECT,
  and the store in step with the stream. `Losses` bounds what an interrupt takes:
  before the shutdown is cut short there is one stored event at most on its way,
  and after that nothing is stored any more, so that only the end of the store
  can be missing (`Over`). `UsesACoalescer` follows from the same invariant: a notification waits
  in the queue or the batch until the step that passes it to the coalescer or
  loses it, and by `RawsApart` it waits there once, so none is passed twice; the
  steps that neither ingest nor flush leave the bursts alone. `UsesASource` is
  the same argument at the other end: nothing is taken but from the front.
* **`DeviceInventory_proofs`**: `IInv` is the types, that a record fits its key
  (`KeyFits`, hence `KeysNameRecords`) and agrees with every event of its PNP id
  (`PnpFits`), that each device told as first seen has a record, and the
  properties `FirstSeenOnce`, `TrustIsKept` and `IdsNeverChange`. The assumption
  is that a PNP device id names one device (two events with one id do not differ
  in a known serial or VID:PID) and that a serial comes with a VID:PID or a PNP
  id. Without `KeyFits` and `PnpFits` a record found by PNP id could carry
  another serial away from its key. `Counted` adds where each connect is: in one
  record, whose identity fits its event's; hence `EveryConnectCountedOnce` and
  `SerialsStaySeparate`. `Sourced` says that each field of a record was told by
  an earlier event that the record has counted; so an event that is scored for a
  changed field contradicts an earlier one of the same device
  (`AccusedByItsOwn`). When the lookups that answer agree on each device
  and only a letter's drive, alone or borrowed by another device's burst, is
  called fixed (`SameAtEveryPlug`, which the run evaluates for its sticks), what
  remains is `AccusedForCause`.
* **`InventoryFile_proofs`**: types, `FileCatchesUp`, `KnownAfterRestart` and the
  two action properties `HistoryRemains` and `TrustIsTheOperators`, from one
  invariant: without an overlap one object is in use (`Single`), a writing
  thread holds its table (`Current`), and the table knows every device of the
  file (`Grown`) with the file's flag or the operator's last one (`Decided`).
  Each part names in its premise the troubles it survives: only an overlap
  breaks the first two; the others also give way while the file is one that
  could not be read, and hold again from the next save on. The last section is about the window: `OneWorker` and
  `NeverLockedOut` of `MonitorApp` for any number of starts. Its invariant says
  that only the thread started last can be alive and that the window never
  forgets a monitor without offering Start; both are needed, since a worker that
  finds no monitor ends without a message.
* **`HistoryStore_proofs`**: types, with the caps; `SavedBetweenEvents`, for any
  number of readers that load, trim and save in between; and that both histories
  implement `BoundedLog` for any caps, files and limits. Each step changes a
  file by one of three moves (the monitor's save of what it loaded and appended,
  a trim, a save by somebody in doubt), and each of them is a step of the log or
  excused by `doubtful`. `AlertsHaveTheirEvent` and `ReportIsCoherent` relate
  the two histories; their invariant is `Coherent`: nobody
  holds events before it has loaded them (`Fresh`); nobody is about to write a history
  with a gap (`InLine`); every alert in the file, in the memory or in a reader's
  view has its event where the property will look for it (`AllPlaced`, stronger
  than the property, since an alert may be in memory only); and a reader that
  has loaded one file beside the monitor fits what the other will hold when it
  is loaded (`AllFit`): an alert's event is in its rows, aged out of a full
  history, newer than all of them, or cut. They rest on what `keep_newest` and
  `_apply_limit` do: both drop only what is older than all they keep, and leave
  a full history or a full page when they drop anything (`NewestDrops`,
  `RowsCut`).
* **`WindowsEventSource_proofs`**: types, `StopReachesWatcher`,
  `RunningUntilStop` and `NothingLeftBehind`, for any number of starts, raws and
  failures and any capacity of the queue. At most the thread started last is
  alive (`OneThread`); the caller's place tells what it knows of it
  (`OwnerKnows`); `ready` is set last and a thread leaves its pump only for a
  reason: a stop, a failure, or its window closed (`Handshake`). While it pumps
  its identifier is the one the caller will post to, and it has its window or,
  once that is closed, a WM_QUIT before it (`Known`). So the caller either posts
  to a thread that has a message queue, or sets the flag before the thread looks
  at it, or Windows has refused the post (`QuitIsPosted`, which must include the
  window procedure, since that returns to `GetMessageW` without looking).
  `HeldAt` says for each place of the thread what is registered there; a join
  that times out breaks it, because `stop` then clears the handle the thread
  would destroy. `OnlyOverflowDrops` follows from invariants of the polled and
  the queued raws taken together: they are in order (`InOrder`), what is told is
  among them, still to be enqueued, or dropped (`Accounted`), and each drop has
  noted how many were polled at that moment, behind which the queue was full of
  older ones. `IsAnEventSource` maps the queue to itself, and
  each step to one of the source or to none; `SourcePromiseSuffices` proves of
  `EventSource` what it is worth to its caller: what waits is in order, and what
  is gone stays gone.

Every invariant and every action property of a passing run is stated by one of
these theorems. Left to TLC is liveness under fairness (`StopIsHeard`,
`StopEnds`, `EveryRawReported`, `StopEndsWatcher`), since neither fairness nor
ENABLED is within reach of the provers. No module uses recursion.

## 5. What is abstracted

* Texts: names, titles, reasons, evidence, masking, time formats.
* Identifiers are model values or tuples; a device path is the sequence of its
  segments, each a name, and what a segment contains (a VID:PID, a hint, a class
  GUID) is a constant function of it.
* The Windows device registry is a constant of `Metadata`. What
  Windows says of a drive letter is chosen at each lookup among the types of
  `DriveType`. The label, the capacity and the other descriptive fields are left
  out.
* Times are small numbers. The coalescer's clock is monotonic as in the code.
  `Analyzer`, `Warnings` and `AlertManager` take event times in any order: a
  clock may be set back, and bursts come out as they ripen with the time of
  their first notification.
* In `USBMonitor` a failure inside `_queue_event` shows as its effect: no
  derived event, no suspicious event, no stored record. Every wait of the mock
  source has a timeout, so its condition variable only shortens a wait.
* In `InventoryFile` a table is the set of known devices and their flags, and
  a process crash keeps the last completed rename. A power failure is outside.
* In `HistoryStore` a record is its number; the other events of one event's
  pipeline (derived, suspicious) are appended by the same code and left out.
* In `WindowsEventSource` a notification is its number and the letters of a
  volume message are several of them. A message posted to a thread that has no
  window is lost, and no source is started again after a join that timed out:
  the program makes a new one for every start.
* Events without any identity are not analysed in `Analyzer`; the coalescer
  produces one only from a notification that has neither path nor letter.
* In `Warnings` an exception between the analysis and the decision is one lost
  assessment. An exception after the alert was remembered, in its store, is
  `HistoryStore`'s failed save.

Not modelled: the totals and the layout of a report and its export, the window's
dialogs and selection, argument dispatch and printing of the commands,
presentation and demos, operating-system utilities (ACL, DPAPI, probes, logging),
and malformed single records in a file, which a reload skips. `PROJECT.json`
gives the reason for each component.

## 6. Plan

1. The trust buttons inside `MonitorApp`, so that the forgotten monitor of
   `stop_button_works` and the second inventory object it leads to are one run
   with `InventoryFile`.
2. The capability fallbacks of `create_monitor`.

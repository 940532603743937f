# The DotPad add-on for NVDA, in TLA+

The DotPad is a tactile display: one line of 20 braille cells and an area of 300 cells for
graphics or more lines of braille. The add-on (`src/addon`) is the NVDA driver for it, with its
own Bluetooth transport, a bridge to the vendor's TactileDisplayAPI library, and presentations
that draw tables, charts and the screen. This directory models the parts of it in which several
threads, a slow device and a foreign library meet. TLC checks the models on small instances;
TLAPS proves what matters most for every instance: of the send path, which is also shown to
implement an abstract specification of what it promises, the presentations, the view of a table,
the library's sessions, Bluetooth detection and the driver's life cycle.

## 1. The system

### Threads

| thread | runs |
|---|---|
| NVDA's main thread | scripts, navigation and core-cycle events, the renderer, driver construction and `terminate`, a part of the Bluetooth searches, `Display.display` when the library's last frame is replayed |
| hwIo's background thread | the renderer's APC, `Display.display` |
| the sender thread, one for each connection | `_queuedPacketsSender` |
| the reader | serial: NVDA's I/O completion on the background thread; Bluetooth: `queueReader` |
| the library worker, one for each library session | the STA that owns the COM library, and the library's callbacks, which draw by `Display.display` |
| bdDetect's thread | automatic detection, which calls `Detector.matches` and constructs drivers |
| the event loop thread | bleak's coroutines |
| timers | `submitAndReport`'s time-outs |

### Components

**Packet sender** (`driver.py`: `Display`, `_queuePacket`, `_queuedPacketsSender`,
`_sendQueuedPacket`, `_waitForSendSlot`, `_resendLastPacket`, `_checkIdleRefresh`, the
`terminate` family).
State: the priority queue and its count of unfinished tasks; of each row its cells and the stamps
`lastWritten`, `lastRefreshed`, the refresh count; the gate `_readyToSend`; the last packet and its
tries; `_displayGone`. Operations: draw a frame, refresh by hand, refresh when idle, take a packet,
drop it when it is superseded, wait for the gate, resend, give up, terminate. Hard: the gate is shut
by the sender and opened by whoever receives; packets are superseded by time stamps written by
other threads; three threads draw the rows of the graphic display with no lock between them; the
device may answer late, wrongly or never; termination interrupts anything. Correct when no frame
drawn undisturbed is lost to superseding, no shut gate stays shut, the queue's count is right so
that `terminate` can wait for it, and NVDA is told, once, that a display is gone.

**Library session** (`driver.py`, `libraryWorker.py`, `callbackServer.py`, `simulatedDisplay.py`,
`libraryModes.py`, `graphic.py`). The library runs in a worker thread and is handed work items. It
hands frames back through a COM callback on that thread. Whether a frame is braille or a picture is
only known from a mode query, which is itself an item. State: the worker of the session, the mode
last reported with its serial number, the flags of an outstanding query and of a rerun, the frame
held back until its mode is known, the image operation a presentation waits for. Hard: requests
come from two threads and coalesce; a query may finish before its callback is attached, which then
runs on the requesting thread; setup times out; teardown runs while frames arrive; NVDA
re-initialises the same driver object, so flags outlive their session. Correct when a query that is
marked outstanding is, when the mode is known in the end, when a report taken for an operation's
result is one, and when the main thread never waits for ever.

**Bluetooth detection** (`ble/detection.py`, `ble/scanner.py`). State: the latch `_isTerminated`,
the scanner, its flag and its results, bleak's watcher. Operations: search, terminate, resume.
Hard: searches on two threads, `terminate` on one of them, start and stop running later on a third
thread. Correct when a search does not sleep through the display and a terminated detector does not
scan.

**Bluetooth connection** (`ble/hwIo.py`, `ble/asyncUtils.py`): the bleak client, the queue of
received data and its reader, the pending disconnect of each address. Connect (with a time-out after
which the coroutine goes on), write, close, the disconnect callback. Hard: an attempt that timed out
may still succeed; a disconnect is still under way when the next connection to the same device is
made; a reader may be inside a dispatch when its connection is closed. Correct when no session and
no reader outlives its connection, and a device is not connected to while it is being disconnected.

**Driver life cycle** (`driver.py` `__init__`, `terminate`, `_reportDisplayUnavailable`): a failed
construction, a second `__init__` on the same object, the release that the sender asks of NVDA.
State: the fields that `__init__` replaces (events, queue, sender thread) while threads of the last
run still read them, the connection, the board information of the port being tried. Hard: a sender
held up in a write outlives `terminate`'s join; an answer comes after its port was given up; several
candidates are one device. Correct when a display in use has one sender, what the driver believes of
the device is that device's answer, and NVDA's thread always gets out.

**Protocol and keys** (`driver.py` `_onReceive`, `_handleResponse`, `_handleAck`,
`_handleKeyPress`, `_buildDisplays`): cutting frames out of a byte stream, acknowledgements, chords.

**Renderer** (`presentations/renderer.py`): selects on navigation, renders once for each core cycle,
hands the frame to the background thread through `queuedWrite`, with a flag that forces all rows.

**Presentation manager** (`presentations/manager.py`, `base.py`): the providers in order of
priority, the active, the forced and the dismissed presentation, checks that cannot be answered.
Operations: update (on navigation, caret, value and mode events), force a table or a graphic,
dismiss, toggle screen capture, terminate. Hard: any order of these, an Excel that refuses to say
whether a table is still valid, a library whose report changes between two calls of `canProvide`.
Correct when what is shown is what was asked for last, a force or dismissal lasts exactly as long as
documented, and a frame once stored is drawn.

**Presentations** (`presentations/*.py`): library braille, NVDA-driven braille, images, tables,
charts, screen capture; each has a viewport and scrolls. Of a table the state is the first visible
row and column (or that they are to be chosen), the cell of the last render, the navigator moves
waiting in `core.callLater`, and for a worksheet the cached used range. Hard: the view follows the
cursor and is scrolled by the user, and a scroll moves the navigator later, which is navigation;
tables grow and shrink; Excel does not answer. Correct when the cursor is in view unless the user
scrolled away, a scroll is not undone by its own navigator move, and panning shows everything.

**Drawing, tables and charts** (`utils/*.py`): detection of tables, extraction of chart data,
axes, lines and dots. Pure computation.

**COM interface** (`comInterface.py`, `comLoader.py`, `wrapper.py`, `iniPatcher.py`), **settings
and installation** (`configuration.py`, `settingsPanel.py`, `installTasks.py`,
`globalPlugins`), **review tracking** (`ReviewTracking.py`, `review_tracking.py`,
`reviewFields.py`), and what is not part of the running add-on (`_vendor`, `tools`, `scripts`).

### How they interact

Navigation → renderer → manager → presentation; core cycle → renderer → presentation's buffer →
background thread → `Display.display` → packet queue → sender → transport → device; device →
reader → gate, keys, acknowledgements. Images and library braille leave this path: the presentation
submits an item to the library worker, the library calls back with a frame, and the frame goes
straight to `Display.display`, if the active presentation takes it. Sender → (callLater) → NVDA →
driver `terminate`. Detection → NVDA → driver construction → connection.

## 2. Modules

| module | models | run by |
|---|---|---|
| `PacketSender` | the packet sender | `MCPacketSender` |
| `PacketSenderProofs` | its type invariant and the accounting of the queue, proved | – |
| `PacketSenderSafety` | its other safety invariants, proved | – |
| `DisplayService` | what the send path promises, abstractly | `MCPacketSender` (as a property) |
| `PacketSenderRefinement` | `PacketSender` implements `DisplayService`, proved | – |
| `Presentations` | the manager, its providers and the renderer | `MCPresentations` |
| `PresentationsProofs` | its type invariant, forces, the dismissal's end and scope, what is shown fits, waiting frames, proved | – |
| `TableView` | the view of a table | `MCTableView` |
| `TableViewProofs` | its type invariant, the cursor, scrolling, no blank page, panning, proved | – |
| `LibrarySession` | the library session | itself |
| `LibrarySessionProofs` | its type invariant; the queries, reports and held frames of sessions, proved | – |
| `BleDetection` | Bluetooth detection | itself |
| `BleDetectionProofs` | its type invariant, no missed device, the latch, proved | – |
| `DriverLifecycle` | construction, termination, re-initialisation and the Bluetooth connection | itself |
| `DriverLifecycleProofs` | its type invariant, one sender, nobody left behind, connecting, information, proved | – |

`PROJECT.json` names the lines each definition stands for.

### PacketSender

One open connection, from built displays to the end of `terminate`. The sender thread is a program
counter `pc` (`get`, `popped`, `wait`, `expired`, `resend`, `failed`, `write`, `written`, `idle`,
`idlePut`, `exited`). Each thread of `Drawers` draws by itself, and `draw` says where in
`Display.display` it is: the cells stored, the row copied and the block tested, the packet put, the
row stamped. Nothing keeps two of them apart, in the model as in the code: hwIo's background thread
(`renderer.py:337`), the library worker (`simulatedDisplay.py:265`) and whoever calls
`replayLastPayload` (`braille.py:474`, on the main thread). The main thread is `main`, which
refreshes by hand and then walks through `terminate`; it does neither in the middle of a draw of
its own. The steps are as fine as the accesses to shared state, so a notification can arrive between
the write and what follows, a frame can be drawn between the read of a row and the put of its
refresh, and draws can cross in a row. A crossing loses content: one thread copies the row, another
changes it, copies it and queues its packet, the first queues its own and stamps the row, and the
sender drops the other packet, which carries what the row holds, as older than the stamp.

Time. A time stamp is the rank in which a packet was created; `time.time()` has a resolution of
100 ns on the Python the add-on requires. A wait may expire at any moment at which it is not
satisfied; what only paces refreshes (`lastRefreshAttempt`, intervals) is a free choice. The ties of
the heap, which compares priorities only, are a free choice too. A packet's creation, its put and
the row's refresh allowance are one step. `awaitingAck` and its retry are left out: nothing in the
add-on sets it. Packets that are no lines are left out. The device renders, acknowledges, rejects or
loses a line, sends what nobody asked for, goes silent or goes away; `Faulty` switches the last four
on. A row that is drawn unchanged is not written and so is no step, unless it is forced, which the
model takes for a draw like any other. `faults`, `handed`, `raced` and the `alone` of a draw are
history, read by properties only: that something was lost, the frame last given to the transport,
and the rows whose last draw was not left alone. A draw is not left alone if another draw is in the
row meanwhile, if a refresh has read the row and not queued it when the draw begins or reads it
during the draw, or if the sender takes up an older packet of the row between the put and the stamp.
A draw that is left alone clears the mark of its row.

### DisplayService, and how PacketSender implements it

What those who draw on the display, and NVDA, may rely on, with no queue, gate or retry: what is
delivered to a row is something that was drawn in it, and each delivery is newer than the last,
except that frames may be skipped (`Advance`), as long as the row's last draw was left alone. A row
whose draw was disturbed (`torn`) may be sent anything that was drawn, in any order (`Jumble`), until
a draw that is left alone ends; and only a draw in progress can be disturbed (`Tear`). The display is
given up only after NVDA was told or on the way out; a display given up gets nothing more; NVDA is
told at most once.

`Service` in `PacketSender` instantiates it, and hides nothing on the way: the content of a row is
`cells`, what was shown is `handed`, the frame last handed over and not the newest, what NVDA was
told is the count of the reports, `torn` is `raced`, a row is being drawn while a thread is in it,
and the phases are those of `main`. So a packet that goes out behind a newer one is a step back of
`shown`, which the service forbids unless the row is torn. A refresh that sends what was sent is a
stutter. The run `sender_stale_refresh` shows a refresh that takes a row back; the draw it met is one
that the service calls torn. `ServiceKept` is the safety part; `ContentArrives` adds the service's
liveness, which holds whatever the display does, since one that does not answer is given up in the
end.

### Presentations

A presentation is its kind and what it is of: the object, the table, or nothing. `main` is where the
main thread is in `onReviewMove`: `KeepForced` and `Choose` are the two halves of
`PresentationManager.update` up to the choice, `CreatePresentation` is `createPresentation`, with its
second `canProvide`, and `Settle` is what `onReviewMove` does with the outcome. The commands are the
scripts of the driver with every call they make; each leaves `main` where the script's own
`onReviewMove` begins. All of it is the main thread's, so the only interleavings are with the
library's mode reports, with the reader thread, which queues a write on an acknowledgement, and with
the I/O thread. A frame is stored under the lock (`StoreFrame`, in the core cycle that rendered it),
and its execution is queued after the unlock (`QueueApc`), unless a frame was waiting already; on
the other side an execution starts (`StartApc`), takes what is stored under the lock (`TakeFrame`)
and draws it. Acknowledgements, executions and the core cycle come between any two of these.

The world is given by constants: which table an object is in by the short scan (`TableAt`, three
parents) and by the long one (`DeepTableAt`, twenty), which objects a table or a chart counts as
inside (`Within`, the comparison of tables with its fallback to screen bounds), which tables belong
to an application that may refuse to answer (`Excel`). An answer of `isStillValid` is "yes", "no" or
"refused", the raise that `_stillValid` turns into `None`. `changed` says that the world has changed
in a way no event has reported yet; `refusals` counts refusals independently of the code's counter;
`image` says that a graphic was shown and nobody has cleared or taken over its image. All three are
history and read by properties only. `forceRefresh`, the scrolling of a presentation and the content
of a frame are left out. So is `TableProvider`'s cache of its last lookup, which answers for the same
object instance again: an object that gains or loses its table while the navigator stays on it, with
no new instance from NVDA, is outside the model.

### TableView

`TablePresentation` and `Table` (or `ExcelTable`) as one. Rows and columns are treated alike by the
code, so views, cells and extents are functions of the axis. `Drawn` is the choice of the first row
and column by `render` and `drawTable`; `View(command, extent)` is the view a script leads to, which
`_setFirstVisible` clamps; `Step` and `Refuse` are a script with `_afterScroll`: the request to
render, and `moveNavigatorAfterScroll`, whose move waits in `moves` until NVDA comes to it. An
extent is what the table reports of its rows and columns, or `None`; of a worksheet it is the used
range widened by the current cell, cached until the next draw, or not to be had: whether Excel
answers is chosen once for each handler, however often the handler asks. Cells that span several are
left out, and so is what cells hold and how they are found. `kept`, `strayed` and `swept` are
history, read by properties only: the view the user asked for, whether the view may lack the cursor,
and what panning has shown.

### DriverLifecycle

One driver object, on which NVDA runs `__init__` up to `MaxSessions` times, and the Bluetooth
connections it makes, `MaxConnections` over its life. `main` is where the thread is that constructs
or terminates: `port` to `probe` are the loop over the candidates, `flush` and `join` are
`terminate`, `drain` and `reader` are `close`, which returns to `then`. A connection has its
coroutine on the event loop (`attempt`), the client's disconnect, its reader and what the reader has
received. The senders are one for each session and read the object's fields as they are, whichever
session replaced them. `stalled`, `overran`, `escaped` and `impatient` are history: they name what
was left behind by a wait that was cut short, and the properties say that nothing else is. A new
object shares nothing with the one before: what a reader of that one still dispatches reaches fields
nobody uses, so `Construct` forgets it, and `overran` with it.

A write of a packet and a write of a line sent again in the wait for the gate (`Resend`) are alike
here: both may be held up without limit, and `terminate`'s join then gives up on the sender. A
dispatch of the board information may raise, before it is published or after, and leaves the gate
shut; publishing and opening the gate are otherwise one step. The disconnect of an abandoned attempt
may raise (`hwIo.py:225` swallows it) and leave the link up. Left out: a line is not sent again a
third time, since the second time-out in a row gives the display up first; a probe sent twice is
answered once; the disconnect of `close` does not raise. `skipped` says that a dispatch raised and
the received data was never marked done; the wait of `close` for that count is a choice here, over
in time or not, so no guard reads it.

All candidates are one device, which is the case in which connections meet. A sender is only what
matters to those around it: it waits for the gate, writes, may be held up in the write without
limit, reports; what it does with a packet is `PacketSender`. The serial transport, the library's
setup and the renderer's start are left out, and so are the senders of an object that NVDA has
dropped for another one: they share no field with it.

### LibrarySession

A worker is a queue of items and a thread; `step[t]` is where thread `t` (the main thread or a
worker) is in `requestLibraryModeRefresh` or `_onLibraryModesQueried`, for the query of worker
`asked[t]`. A callback that is attached to a query already over runs on the attaching thread, as
`add_done_callback` does. The library (external) is its mode and the frame it hands over; it follows
the focus by itself. A mode is braille or graphics, so the hybrid flag is left out, and so are items
that change neither. The images are those the library draws (`executeOperation`); those NVDA draws
are left out. Images are numbered and `unsettled`, `posted` are the two halves of
`submitAndReport`: whichever of the operation and its timer comes first posts the outcome, which is
handled on the main thread later. `onLibraryModes` is one step, and so are the field assignments of
teardown.

### BleDetection

The scanner the add-on owns, on NVDA before 2026.3. `pc[t]` is where a thread is in `matches`,
`stopScanner` or `terminate`; bleak's `start` and `stop` are coroutines that wait in `tasks` and
suspend between their two halves. What `matches` yields follows from the results and is left out,
and so is the registry of matchers; one device matters. `LoopAnswers` says whether the event loop
answers within the time a stop is given, `RadioOff` whether a start may fail. The loop's thread is taken to
run: `runCoroutine` raises if it does not, and the scanner's flag would then stay set.

## 3. Runs

A project of this size is kept to a dozen runs, so each one asks several questions at once.

| run | shows |
|---|---|
| `sender_safety` | the safety invariants below, over Bluetooth with faults and automatic refresh, with two threads that draw the same row |
| `sender_live` | the refinement, that the queue is drained again and again, and that what a row holds arrives, with a serial display that loses lines, falls silent or goes away, and a main thread that draws beside the background thread and refreshes by hand |
| `sender_stale_refresh` | **violated**: a refresh can put back what a frame replaced |
| `presentations` | what is shown is what was asked for; no stored frame waits for ever |
| `table_view` | every order of steps, navigation, deferred moves, renders, growth and refusals of Excel |
| `driver_lifecycle` | two connections, two sessions, every failure: who is left behind, and whether NVDA's thread comes back |
| `presentations_exit` | **violated**: forcing a table over a graphic does not clear the graphic |
| `library_session` | one session with failing queries: pending and coalesced queries, reports against operations |
| `library_live` | one session with time-outs, under fairness: the mode becomes known, held frames are decided, the main thread returns |
| `library_next_session` | **violated**: the pending flag can be inherited by the next session |
| `ble_detection` | searches on two threads, terminate, reload |
| `ble_detection_terminate` | **violated**: a watcher can survive terminate |

### The properties

* `QueueAccounting`: `unfinished_tasks` counts what is queued, in the sender's hand, or taken by
  `terminate` and not yet marked done. It is what
  `_waitForQueueDrain` waits for; every path out of `_sendQueuedPacket` must keep it.
* `ShutGateHasLine`: when the sender's wait expires there is a line to resend. This shows that the
  `if packet` of `_resendLastPacket` never fails, without which the wait would go round for ever.
* `NoLostWakeup`: while nothing was lost, a shut gate has an answer to come or a write about to be
  made. It is why the gate is cleared before the write and not after.
* `GoneIsReported`, `ReportedOnce`: the driver never goes quiet without NVDA having been asked to
  release the display, and asks once.
* `ContentNeverLost`: superseding by time stamps never drops the packet that carries what a row
  holds, except in a row whose last draw was not left alone; such a row recovers with the next draw
  that is.
* `ServiceKept`: `PacketSender` implements `DisplayService`.
* `ContentArrives`: what a row holds is delivered in the end, unless its draw was not left alone, the
  display is given up or the driver terminates.
* `RefreshBudget`: a row is refreshed automatically at most as often as configured.
* `AlwaysDrains`: the sender works off its queue whatever the display does.
* `ForcedIsActive`: the forced presentation is the active one, which is why `terminate` terminates
  only the active one.
* `SelectionFits`: once every change has been heard of, with no force and no dismissal, what is shown
  is what the order of the providers asks for, and a table or chart stays while the navigator is
  inside it and no longer. It takes a library report between the two calls of `canProvide`, or a
  refused check, to break it.
* `DismissalScoped`, `DismissalHolds`: a dismissal shows braille; it covers its object, its table and
  three refusals in a row, and it ends only by a command, by leaving, or by the fourth refusal.
* `ForceOutlivesRefusals`: a refused check does not end a force.
* `QueuedHasApc`: a stored frame has an execution of `_bgThreadExecutor` to take it, queued or
  started and not yet at the lock, or the main thread is about to queue one.
* `PendingHasQuery`, `OneQuery`, `ModesSettle`: a query marked outstanding is, there is one at most,
  and the driver comes to know what the library draws.
* `ReportFollowsOperation`: a report taken for the result of an image operation is from after it.
* `HeldFrameIsDecided`: a frame held back until its mode is known has a query on its way.
* `MainReturns`: in `LibrarySession`, setup and teardown do not leave NVDA's main thread waiting; in
  `DriverLifecycle`, opening and giving up a display do not, for a sender held up in a write or an
  event loop that does not answer.
* `CursorShown`: whatever moved the view, after a render the current cell is in it, unless the user
  has scrolled away since.
* `ScrollSticks`: a view the user scrolled to is not undone by the navigator move that follows.
* `NothingSkipped`: panning from one end of the table to the other shows every cell.
* `NeverBlank`: a view that begins inside the table is not followed by one past its end.
* `OneSender`: a display being opened or in use has one sender, unless a write, a resend's included,
  outlived `terminate`'s join.
* `NoLingering`: a connection given up is down or going down and its reader is told to end; except
  for an attempt that failed otherwise than by a time-out, and one abandoned whose disconnect takes
  too long or raises.
* `ConnectAlone`: no connection is made to a device that is being disconnected, unless a wait for that was cut short.
* `FreshInformation`: the board information in use came over the connection in use, unless a dispatch
  outlived the close of an earlier one. It says nothing of the displays built for an earlier port,
  which are dropped once for each `__init__` and not for each port (`driver.py:1204`).
* `NoMissedDevice`: a search does not sleep through the display.
* `NotBelieved`: after terminate, and after the searches it overtook, the scanner is not taken to be
  scanning.
* `CallsReturn`: a search or a terminate ends even when the event loop does not answer.

### Bounds

`PacketSender`: packets (4 for safety: the constructor's clear, a frame, two refreshes of it; 2 for
liveness), packets there are when `terminate` begins (`MaxAtEnd`; drawing goes on after that),
frames in a row (2: draws that cross and what they lose; that a row recovers is checked after a
refresh met a draw, and proved for the rest), lines the display is behind. Two drawing threads are the pairs that meet: the background thread and the library worker,
which are alike, for safety; the background thread and the main thread for liveness, where the main
thread's draw and its refresh exclude each other. No operation starts at the bound, and one that has
started is finished. A resend is withheld from a display `MaxUnanswered` lines behind; the liveness
run has a bound that its packets, the clear of `terminate` included, cannot exceed with three
resends each. One row is enough for each property, which relates a row to its own packets and the
sender to whatever packet it has; the proofs cover any set of rows. `Presentations`: six objects,
one for each case that the providers tell apart (plain, in a table, a graphic deep in a table where
only the long scan finds it, in a second table, a chart and a part of it), two tables of which one
may refuse; an acknowledgement queues an execution when none waits or has started (`MaxApcs`), so
that it meets the one queued for a frame; the counter of refusals runs to its own limit.
`LibrarySession`: sessions (a second one is what `library_next_session` needs), images or switches
to braille, and focus events. `BleDetection`: calls (one on each thread), reloads, scanners (two,
because `_getScanner` can create two). `TableView`: a display of one row and two columns, so that
one axis moves by pages and the other cell by cell; a table of two by four, one of one by three,
whose last page is not full, and one that does not say; two navigator moves waiting, so that one is
queued while another is not drawn yet. `DriverLifecycle`: two connections, so that an abandoned one
meets its successor on the same device, and two sessions, so that what the first leaves meets the
second.

### Fairness

`PacketSender`: the sender is scheduled (weak fairness of `SenderStep`); a wait that is not
answered reaches its deadline (strong fairness of `RenderTimeout` and `GiveUpLeaving`: the wait looks
at its deadline each time it expires, and answers to other things may intervene); a drawing thread
goes on with what it began, and `terminate` with a packet it has taken. Nothing is assumed of the display, the link or the user.
`LibrarySession`: each thread goes on; the library returns from calls; nothing is assumed of when it
follows the focus. `BleDetection`: the threads of the callers go on and time passes; nothing is
assumed of the event loop.

`DriverLifecycle`: NVDA's thread goes on with what it is in the middle of, its waits expire, a
reader that is stopped ends. A sender that is told to end or waits for the gate does so: strong
fairness, since a resend can come between two time-outs of the wait, but the second time-out in a row
gives the display up, and each round begins with a test of `_isTerminating`. Nothing is
assumed of a write, of the event loop or of the device, so `MainReturns` holds if these never
answer.

`Presentations` and `TableView` have only safety properties and assume no fairness.

Deadlock is checked in `table_view`, where a user can always navigate. Elsewhere it is not: each
system comes to rest when its bounds are used up or the driver is terminated.

## 4. Proofs

Of the send path, for every set of rows, every configuration and every bound:

* `PacketSenderProofs`: `TypeCorrect` (`Spec => []TypeOK`) and `Accounting`
  (`Spec => []QueueAccounting`).
* `PacketSenderSafety`: `ShutGate`, `WakeupNotLost`, `Reported`, `NotReportedTwice`, `NothingLost`,
  `BudgetKept`, one for each safety invariant of the runs.

The constants are assumed to be what `PacketSender` says: a finite non-empty set of natural numbers
for rows, Booleans, and natural numbers for the bounds. The type invariant alone is inductive.
`QueueAccounting` needs, besides the type, that the queue is finite, that its packets are older than
the next serial number (so that a put adds a new element and the cardinality grows by one), and that
the sender has a packet in hand exactly in the places where it is about to call `task_done`. The
other invariants share a strengthening that ties the sender's place to its local state: what it holds
at each place, where `lastSent` may be false, when `displayGone` implies that it only drops.
`ContentNeverLost` needs the draws. `RankInv` says that nobody has a rank that no packet was given;
`LoneInv` that a draw marked as left alone is the only one in its row, with no refresh between its
read and its put; `KeptInv` that the packet such a draw has put is queued, in the sender's hand or
handed over with nothing older about to follow, and that no later packet of the row carries anything
else. `ContentInv` carries this on once the draw has ended: in a row that is not raced, all packets
that nothing supersedes carry one frame, which is no older than what the sender has in hand or has
handed over, and what the row holds was handed over or is carried by one of them. Each preservation
proof has one step for each action.

Of the presentations, for every set of objects, tables and charts and every bound:

* `PresentationsProofs`: `TypeCorrect`, `ForcedIsAlwaysActive`, `RefusalsKeepTheForce`,
  `DismissalIsKept`, `WaitingFrameIsTaken`, `SelectionAlwaysFits`, `DismissalIsScoped`.

They assume that the short scan is the beginning of the long one, that a table found by a scan
contains the object it started from, and that a chart contains itself; the last two are what
`isStillValid` must answer right after a creation. `Typed` is `TypeOK` with the shapes of
presentations (a table presentation is of a table, and so on), with the ghost count equal to the
code's, and with the fact that nothing is dismissed without the object it was dismissed on.
`SelectionFits` and `DismissalScoped` speak of a main thread at rest; the strengthening (`Chosen`,
`Covered`) adds what the choice has established while the presentation is still to be created: that
the provider found is the first that can provide, or the fallback under a dismissal that has scope.
The lemmas `FirstExists` (some provider always can, since braille can), `KeptFits` and `CreatedFits`
carry the argument; a library report in between sets `changed`, and the invariant is silent until
the event that answers it.

That the send path implements its service: `PacketSenderRefinement!Refinement`
(`Spec => ServiceKept`). Each step maps to one of `DisplayService` or to none. Besides the invariants
above, `ContentInv` among them, by which a delivery to a row that is not raced goes forward, the
mapping needs `FrameInv`: nothing in the queue, in the sender's hand, copied by a draw or read by a
refresh is newer than the row it is for, which is what makes a write a delivery of something drawn.

Of the view of a table, for every display, table and bound (`TableViewProofs`): `TypeCorrect`,
`StepsKeepTheirWay` (a step down or right never moves the view up or left, nor the other way round),
`CursorAlwaysShown`, `ScrollAlwaysSticks`, `PageNeverBlank`, `PanningShowsAll`. The arithmetic of centring, clamping
and paging is on one axis and is settled by lemmas about `Centred`, `Clamped` and `PageOn`.
`CursorShown` is then inductive with the types. `ScrollSticks` needs `Kept`: while a view is kept,
every navigator move that is waiting, and the place the navigator has moved to, lie inside it, so
the next render does not follow the cursor out of it. `NothingSkipped` needs no induction over the
pages: `Covered` says of every sweep under way that the cells between where it began and the view
(`Passed`) are among those it has shown, which each page and each turn to the next row keeps, and
that no sweep is under way while the cached extent is out of date.

Of the library's sessions (`LibrarySessionProofs`), with what each theorem assumes of the constants:

| theorem | sessions |
|---|---|
| `TypeCorrect` | any number |
| `OneQueryAtATime` (`OneQuery`) | one, or any number if no wait is cut short (`~Timeouts`) |
| `QueryLostOnlyByInheritance` (an action property, stated there) | the same |
| `ReportsAnswer` (`ReportFollowsOperation`) | any number if no wait is cut short |
| `QueryNeverLost` (`PendingHasQuery`) | one |
| `HeldFramesDecided` (`HeldFrameIsDecided`) | one, if queries do not fail (`~QueryErrors`) |

The strengthening speaks of the newest worker, whichever it is. `Past` says that every worker before
it has exited and that whoever is at a query is at one of the newest; that is what
`LibraryWorker.start` waits for, and why several sessions need waits that are not cut short.
`Newest` says, of every place a thread can be in, which of the flag, the future and the queue are
taken, and that there is one holder. `PendingHasQuery` is false in a second session, as
`library_next_session` shows; `QueryLostOnlyByInheritance` says that this is the only way: a step
that leaves a marked query without a query is the end of a setup that found the mark set. For one
session `First` adds that its setup finds nothing set. `Reported` follows an image from the operation
to the query that was read after it; an operation that outlives its timer is taken to be finished
before it ran, and the property is then violated. `Held` follows a frame that waits for its mode; a
failed query reports nothing, and the frame then waits for the next report.

Of the life of the driver object (`DriverLifecycleProofs`), for every number of sessions and of
connections: `TypeCorrect`, `OneSenderAlways`, `NothingLingers`, `ConnectsAlone`,
`InformationIsFresh`. They assume only that there may be one session and one connection. `Typed` is
the types with what the place of NVDA's thread says of the rest. On it each property has a part:

* `Senders`: while no sender was held up, those of earlier sessions have exited, and the queue's count
  is what is queued and in the hand of the one sender. The second is needed for the first: without it
  the flush of `terminate` could take the count below zero and raise before it tells the sender to end.
* `Links`: of each connection, who has it in hand, or that it is down or going down; of an attempt
  that was given up, that whatever its coroutine does next is followed by a disconnect.
* `Quiet`: while nobody was impatient and no instance escaped, what is going down is the connection
  that `_pendingDisconnects` remembers, or the attempt that was just given up.
* `Answers`: while no reader outlived its close, an answer still on its way is one to the connection
  in use, because every other reader is stopped and every write in progress goes to this
  connection or to one whose reader is.

The last proof did not go through at first, and was right: readers of an object that NVDA had
dropped could still answer the new one in the model, which they cannot do in the code.

Of the search for displays (`BleDetectionProofs`): `TypeCorrect`, `NoDeviceMissed`, `NeverBelieved`,
for any number of calls, reloads and scanners. `NotBelieved` is about the time after the searches
that `terminate` overtook. Its strengthening covers that time: while the latch is set and the
detector's scanner is marked as scanning, some thread is in a place from which it will stop it
(`Undone`); and a scanner in use is one that was created (`Known`), so a new one is not marked.

Every safety property of a passing run is a theorem, with the limits named above for library
sessions. Only model-checked: liveness (`AlwaysDrains`, `ContentArrives`, `ModesSettle`,
`CallsReturn`, both `MainReturns`) and the fair part of `DisplayService`, which with `ENABLED` are
out of the prover's reach.

## 5. Where the code and its documentation part

Four runs are of this kind; `PROJECT.json` quotes the lines.

* `sender_stale_refresh`. A manual refresh copies a row, then queues it with a newer stamp than a
  frame drawn in between, and restores the old content on the pins.
* `library_next_session`. `_libraryModeQueryPending` set during teardown survives into the next
  session, in which no mode query is ever submitted.
* `presentations_exit`. `script_forceTableMode` over a graphic: `forcePresentation` makes the table
  active before `onReviewMove` reads the previous presentation, so the graphic is not terminated and
  no refresh of the unchanged rows is forced.
* `ble_detection_terminate`. A scan that starts around `terminate` leaves a watcher behind:
  `stop` fails while `start` is still awaiting the adapter.

The models reach more states of this kind. They are listed with the hazards, without a run:

* draws of one row that cross make the sender drop what the row holds, and an equal draw later
  writes nothing (`driver.py:970` and `:1705` against the docstring at `:966`, which promises to
  detect stale packets "without race conditions"); `ContentNeverLost` excepts it;
* any packet other than a line response opens the send gate, so a key press lets a line out while
  one renders (`driver.py:2042` against the docstring at `:1832`);
* a mode query that has passed the stale check records after teardown (`driver.py:1544` against
  `:1454`);
* a frame callback that tested the flag before the lock renders after `setShuttingDown` returned
  (`callbackServer.py:348` against `:224`);
* a report made on the main thread, older than the frame, makes a picture be kept as braille
  (`driver.py:1534` against `simulatedDisplay.py:116`);
* an image operation that outlives its timer is marked finished before it ran
  (`graphic.py:226` against `:136`);
* a `start` that fails later leaves the scanner marked as scanning (`scanner.py:66` against the
  comment at `:105`);
* a release queued just before `terminate` runs after NVDA has re-initialised the object, and
  releases the display that has come back (`driver.py:1925` against the docstring at `:1900`, which
  covers only releases asked for during termination);
* the late failure of a write to a port already given up sets `_displayGone` after the next port
  has cleared it (`driver.py:1760` against the comment at `:1233`);
* a sender that outlived `terminate`'s join goes on with the queue of the next session, and its
  `task_done` spoils the count there (`driver.py:1638` says that it stops touching the display);
* `_pendingDisconnects` keeps the last disconnect of an address, and an abandoned connection's own
  is not remembered (`hwIo.py:60`), so the next connection may not wait for it;
* an error other than a time-out while connecting is not released (`hwIo.py:201`) and is no
  `RuntimeError`, so the remaining ports are not tried;
* a reader that raises in a dispatch skips `task_done` (`hwIo.py:119`), so `close` waits its full time.

Not modelled but seen: a chord fires when any one of its groups is released, because
`_keyGroupsReleased` is never set to false (`driver.py:1281` and `:2212` against the docstring at
`:2182`).

## 6. Plan

Done, in this order: `PacketSender` with its proofs; `LibrarySession`; `BleDetection`;
`Presentations` with its proofs; `DisplayService` and its refinement; `TableView` with its proofs;
`DriverLifecycle`, with the Bluetooth connection; the proofs of `LibrarySession` and `BleDetection`;
those of `DriverLifecycle`, of panning, and of several library sessions.

Left, in this order:

1. `Presentations` refined: `forceRefresh` and the frames' identity, so that the last frame is displayed in the
   end and the gate of library frames (`simulatedDisplay.py`) is checked against the active presentation.
2. `Protocol`: the frame splitter, acknowledgements and key groups as functions and a small state
   machine, checked over every way to cut the stream.
3. The viewports of charts and images, in the way of `TableView`.

## 7. Not modelled

Painting (dots, labels, layout), the detection of tables and charts in NVDA's object trees, COM
declarations, the settings dialog and the installer: pure computation or input and output without
state of their own. The library, bleak's Bluetooth stack, NVDA and the device are external: the
models take from them what the add-on's code relies on. The contents of packets other than lines,
and the rates and intervals of the refreshes, are abstracted.

The serial protocol and the key groups are one thread's loop over bytes; what the models need of
them is what the gate, the acknowledgement and the board information see. The serial transport has
no connection of its own to lose: its connect and close are calls into NVDA.

Most of the repository's lines are none of the add-on's logic: libraries it ships
(typing_extensions, bleak's back ends for other systems, tables of identifiers), COM declarations,
painting and build tools. The models cover the parts with state that several actors share, and of
bleak what the add-on depends on.

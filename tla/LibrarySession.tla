--------------------------- MODULE LibrarySession ---------------------------
(***************************************************************************)
(* The driver's side of the TactileDisplayAPI library: one worker thread   *)
(* per session with its FIFO queue, the callback server through which the  *)
(* library hands over frames, the query of the library's drawing mode that *)
(* every frame asks for, and the main thread that sets a session up, shows *)
(* images and braille, and tears the session down.                         *)
(*                                                                         *)
(* Data abstraction.  A frame and a mode are "braille" or "graphics"; the  *)
(* hybrid flag travels with the mode and is left out, as are the items of  *)
(* the queue that change neither.  The library instance itself is external *)
(* code: it changes its mode when an item tells it to, or by itself, and   *)
(* every change it shows in a frame.                                       *)
(***************************************************************************)
EXTENDS Integers, Sequences

CONSTANTS
  MaxSessions, \* bound: sessions set up, one after the other
  MaxShows,    \* bound: items that switch the library's mode
  MaxEvents,   \* bound: mode changes the library makes by itself
  Timeouts,    \* may an item outlast the time its caller gives it?
  QueryErrors, \* may a mode query fail?
  None         \* no report, no frame, no serial

ASSUME BoundAssumption == {MaxSessions, MaxShows, MaxEvents} \subseteq Nat
ASSUME FlagAssumption == Timeouts \in BOOLEAN /\ QueryErrors \in BOOLEAN

Main == 0
Workers == 1 .. MaxSessions
Threads == {Main} \cup Workers
Modes == {"braille", "graphics"}

VARIABLES
  started,     \* sessions set up so far; worker w is that of session w
  main,        \* where the main thread is
  current,     \* _libraryWorker (with _tda and _libraryReady), 0 for None
  unsupported, \* _libraryModesUnsupported
  modes,       \* _libraryModes, with the worker it came from
  pending,     \* _libraryModeQueryPending
  rerun,       \* _libraryModeQueryRerun
  step,        \* of each thread: where it is in requestLibraryModeRefresh
               \* or, for the same query, in _onLibraryModesQueried
  asked,       \* of each thread: the worker that request or query is about
  queue,       \* of each worker: LibraryWorker._queue
  at,          \* of each worker: where its thread is
  item,        \* of each worker: the item it runs
  future,      \* of each worker: the future of its mode query
  mode,        \* of each library instance: what it draws
  frame,       \* of each library instance: the frame it hands over
  shuttingDown,\* of each callback server: _shuttingDown
  shows, events, \* counters of the bounds
  image,       \* the active image presentation, by number; 0 for another one
  unsettled,   \* images whose operation neither finished nor timed out
  posted,      \* images whose outcome waits for the main thread
  ran,         \* images whose operation the library has run
  requested,   \* _requestedSerial of the active image presentation
  lastPayload, candidate, reportsModes \* the globals of simulatedDisplay

driverVars == <<current, unsupported, modes, pending, rerun>>
threadVars == <<step, asked>>
workerVars == <<queue, at, item, future>>
libraryVars == <<mode, frame, shuttingDown>>
imageVars == <<image, unsettled, posted, ran, requested>>
frameVars == <<lastPayload, candidate, reportsModes>>
counters == <<started, shows, events>>
vars == <<main, driverVars, threadVars, workerVars, libraryVars, imageVars, frameVars, counters>>

NoFuture == [done |-> FALSE, watched |-> FALSE, result |-> None, ran |-> {}]
Op(name) == [op |-> name, image |-> 0]

(* No session is up: the driver object exists and nothing was reported.    *)
Init ==
  /\ started = 0 /\ main = "idle" /\ current = 0 /\ unsupported = FALSE /\ modes = None
  /\ pending = FALSE /\ rerun = FALSE
  /\ step = [t \in Threads |-> "none"] /\ asked = [t \in Threads |-> 0]
  /\ queue = [w \in Workers |-> <<>>] /\ at = [w \in Workers |-> "off"]
  /\ item = [w \in Workers |-> None] /\ future = [w \in Workers |-> NoFuture]
  /\ mode = [w \in Workers |-> "graphics"] /\ frame = [w \in Workers |-> None]
  /\ shuttingDown = [w \in Workers |-> FALSE]
  /\ shows = 0 /\ events = 0
  /\ image = 0 /\ unsettled = {} /\ posted = {} /\ ran = {} /\ requested = None
  /\ lastPayload = None /\ candidate = None /\ reportsModes = FALSE

LibraryModes == IF current = 0 \/ unsupported THEN None ELSE modes
Serial == IF LibraryModes # None THEN modes.serial ELSE 0

Submit(w, items) == queue' = [queue EXCEPT ![w] = @ \o items]
GoTo(t, s) == step' = [step EXCEPT ![t] = s]

-----------------------------------------------------------------------------
(* requestLibraryModeRefresh, on any thread t. *)

(* Mutant: the worker is used without a test that there is one.            *)
ReadWorker_Unchecked(t) ==
  /\ step[t] = "read"
  /\ GoTo(t, "lock") /\ asked' = [asked EXCEPT ![t] = current]
  /\ UNCHANGED <<main, driverVars, workerVars, libraryVars, imageVars, frameVars, counters>>

(* The test whether there is a library to ask comes before the lock.       *)
ReadWorker(t) ==
  /\ step[t] = "read"
  /\ IF current = 0 \/ unsupported
     THEN GoTo(t, "none") /\ UNCHANGED asked
     ELSE GoTo(t, "lock") /\ asked' = [asked EXCEPT ![t] = current]
  /\ UNCHANGED <<main, driverVars, workerVars, libraryVars, imageVars, frameVars, counters>>

(* Mutant: a request made while a query is outstanding is dropped.         *)
MarkPending_DropsRerun(t) ==
  /\ step[t] = "lock"
  /\ pending' = TRUE
  /\ GoTo(t, IF pending THEN "none" ELSE "submit")
  /\ UNCHANGED <<main, current, unsupported, modes, rerun, asked, workerVars, libraryVars,
                 imageVars, frameVars, counters>>

(* Mutant: a query is submitted for every request.                         *)
MarkPending_Always(t) ==
  /\ step[t] = "lock"
  /\ pending' = TRUE
  /\ GoTo(t, "submit")
  /\ UNCHANGED <<main, current, unsupported, modes, rerun, asked, workerVars, libraryVars,
                 imageVars, frameVars, counters>>

MarkPending(t) ==
  /\ step[t] = "lock"
  /\ IF pending
     THEN rerun' = TRUE /\ UNCHANGED pending /\ GoTo(t, "none")
     ELSE pending' = TRUE /\ UNCHANGED rerun /\ GoTo(t, "submit")
  /\ UNCHANGED <<main, current, unsupported, modes, asked, workerVars, libraryVars,
                 imageVars, frameVars, counters>>

SubmitQuery(t) ==
  /\ step[t] = "submit"
  /\ Submit(asked[t], <<Op("query")>>)
  /\ future' = [future EXCEPT ![asked[t]] = NoFuture]
  /\ GoTo(t, "watch")
  /\ UNCHANGED <<main, driverVars, asked, at, item, libraryVars, imageVars, frameVars, counters>>

(* add_done_callback calls at once, on this thread, if the query is over.  *)
WatchQuery(t) ==
  /\ step[t] = "watch"
  /\ IF future[asked[t]].done
     THEN GoTo(t, "check") /\ UNCHANGED future
     ELSE GoTo(t, "none") /\ future' = [future EXCEPT ![asked[t]].watched = TRUE]
  /\ UNCHANGED <<main, driverVars, asked, queue, at, item, libraryVars, imageVars, frameVars,
                 counters>>

-----------------------------------------------------------------------------
(* _onLibraryModesQueried, on the thread t the callback runs on. *)

CheckWorker(t) ==
  /\ step[t] = "check"
  /\ GoTo(t, IF asked[t] # current THEN "none" ELSE "record")
  /\ UNCHANGED <<main, driverVars, asked, workerVars, libraryVars, imageVars, frameVars, counters>>

(* simulatedDisplay.onLibraryModes. *)
Report(result) ==
  /\ lastPayload' = IF candidate # None /\ result # "graphics" THEN candidate ELSE lastPayload
  /\ candidate' = None
  /\ reportsModes' = (result # "missing")

NextSerial == IF modes = None THEN 1 ELSE modes.serial + 1

RecordModes(t) ==
  LET f == future[asked[t]] IN
  /\ step[t] = "record" /\ f.result \in Modes
  /\ modes' = [mode |-> f.result, serial |-> NextSerial, of |-> asked[t], ran |-> f.ran]
  /\ Report(f.result)
  /\ GoTo(t, "release")
  /\ UNCHANGED <<main, current, unsupported, pending, rerun, asked, workerVars, libraryVars,
                 imageVars, counters>>

RecordMissing(t) ==
  /\ step[t] = "record" /\ future[asked[t]].result = "missing"
  /\ unsupported' = TRUE /\ pending' = FALSE /\ rerun' = FALSE
  /\ Report("missing")
  /\ GoTo(t, "none")
  /\ UNCHANGED <<main, current, modes, asked, workerVars, libraryVars, imageVars, counters>>

(* Mutant: a failed query returns early, as one without a getter does.     *)
RecordFailure_Returns(t) ==
  /\ step[t] = "record" /\ future[asked[t]].result = "failed"
  /\ GoTo(t, "none")
  /\ UNCHANGED <<main, driverVars, asked, workerVars, libraryVars, imageVars, frameVars, counters>>

RecordFailure(t) ==
  /\ step[t] = "record" /\ future[asked[t]].result = "failed"
  /\ GoTo(t, "release")
  /\ UNCHANGED <<main, driverVars, asked, workerVars, libraryVars, imageVars, frameVars, counters>>

ReleaseQuery(t) ==
  /\ step[t] = "release"
  /\ pending' = FALSE /\ rerun' = FALSE
  /\ GoTo(t, IF rerun THEN "read" ELSE "none")
  /\ UNCHANGED <<main, current, unsupported, modes, asked, workerVars, libraryVars,
                 imageVars, frameVars, counters>>

QueryStep(t) ==
  \/ ReadWorker(t) \/ MarkPending(t) \/ SubmitQuery(t) \/ WatchQuery(t)
  \/ CheckWorker(t) \/ RecordModes(t) \/ RecordMissing(t) \/ RecordFailure(t)
  \/ ReleaseQuery(t)

-----------------------------------------------------------------------------
(* The thread of worker w: LibraryWorker._run, and the library inside it. *)

Free(w) == at[w] = "loop" /\ step[w] = "none"

TakeItem(w) ==
  /\ Free(w) /\ queue[w] # <<>>
  /\ item' = [item EXCEPT ![w] = Head(queue[w])]
  /\ queue' = [queue EXCEPT ![w] = Tail(@)]
  /\ at' = [at EXCEPT ![w] = IF Head(queue[w]).op = "stop" THEN "exited" ELSE "run"]
  /\ UNCHANGED <<main, driverVars, threadVars, future, libraryVars, imageVars, frameVars, counters>>

(* submitAndReport: the first of the operation's end and its timer posts   *)
(* the outcome to the main thread, the other one does nothing.             *)
Settle(images) ==
  /\ unsettled' = unsettled \ images
  /\ posted' = posted \cup (unsettled \cap images)

(* The item is over and its future done.                                   *)
Done(w) ==
  /\ at' = [at EXCEPT ![w] = "loop"]
  /\ item' = [item EXCEPT ![w] = None]
  /\ Settle(IF item[w] = None THEN {} ELSE {item[w].image})

Continue(w, place) == at' = [at EXCEPT ![w] = place] /\ UNCHANGED <<item, unsettled, posted>>

RunSetup(w) ==
  /\ at[w] = "run" /\ item[w].op = "setup"
  /\ Done(w)
  /\ UNCHANGED <<main, driverVars, threadVars, queue, future, libraryVars, image, ran, requested,
                 frameVars, counters>>

(* The library draws what it is told to, and hands the frame over before   *)
(* the call returns; it may draw nothing if that changes nothing.          *)
RunShow(w) ==
  /\ at[w] = "run" /\ item[w].op \in {"braille", "image"}
  /\ \E m \in Modes :
       /\ m = IF item[w].op = "image" THEN "graphics" ELSE "braille"
       /\ mode' = [mode EXCEPT ![w] = m]
       /\ \/ /\ frame' = [frame EXCEPT ![w] = m] /\ Continue(w, "dispatch")
          \/ /\ m = mode[w] /\ Done(w) /\ UNCHANGED frame
  /\ ran' = ran \cup ({item[w].image} \ {0})
  /\ UNCHANGED <<main, driverVars, threadVars, queue, future, shuttingDown, image,
                 requested, frameVars, counters>>

RunQuery(w) ==
  /\ at[w] = "run" /\ item[w].op = "query"
  /\ \E result \in {mode[w]} \cup (IF QueryErrors THEN {"failed", "missing"} ELSE {}) :
       future' = [future EXCEPT ![w].done = TRUE, ![w].result = result, ![w].ran = ran]
  /\ IF future[w].watched
     THEN GoTo(w, "check") /\ asked' = [asked EXCEPT ![w] = w]
     ELSE UNCHANGED threadVars
  /\ Done(w)
  /\ UNCHANGED <<main, driverVars, queue, libraryVars, image, ran, requested, frameVars, counters>>

(* The library follows the focus: a message pumped between two items.      *)
FollowFocus(w) ==
  /\ Free(w) /\ w = current /\ events < MaxEvents
  /\ \E m \in Modes : mode' = [mode EXCEPT ![w] = m] /\ frame' = [frame EXCEPT ![w] = m]
  /\ at' = [at EXCEPT ![w] = "dispatch"]
  /\ events' = events + 1
  /\ UNCHANGED <<main, driverVars, threadVars, queue, item, future, shuttingDown,
                 imageVars, frameVars, started, shows>>

(* _dispatch: the flag is tested before the lock is taken.                 *)
EnterCallback(w) ==
  /\ at[w] = "dispatch"
  /\ IF shuttingDown[w]
     THEN Done(w)
     ELSE Continue(w, "enter")
  /\ UNCHANGED <<main, driverVars, threadVars, queue, future, libraryVars, image, ran, requested,
                 frameVars, counters>>

(* renderTactileBytes, under _inFlightLock: it first asks for the mode.    *)
RenderFrame(w) ==
  /\ at[w] = "enter"
  /\ at' = [at EXCEPT ![w] = "render"]
  /\ GoTo(w, "read")
  /\ UNCHANGED <<main, driverVars, asked, queue, item, future, libraryVars, imageVars, frameVars,
                 counters>>

(* ... and then remembers the frame, or holds it back until a mode report. *)
KeepFrame(w) ==
  /\ at[w] = "render" /\ step[w] = "none"
  /\ IF reportsModes THEN candidate' = frame[w] /\ UNCHANGED lastPayload
     ELSE /\ lastPayload' = IF image = 0 THEN frame[w] ELSE lastPayload
          /\ UNCHANGED candidate
  /\ Done(w)
  /\ UNCHANGED <<main, driverVars, threadVars, queue, future, libraryVars, image, ran, requested,
                 reportsModes, counters>>

WorkerStep(w) ==
  \/ TakeItem(w) \/ RunSetup(w) \/ RunQuery(w) \/ RunShow(w)
  \/ EnterCallback(w) \/ RenderFrame(w) \/ KeepFrame(w)

-----------------------------------------------------------------------------
(* The main thread. *)

Idle == main = "idle" /\ step[Main] = "none"
New == started + 1

(* LibraryWorker.start waits for the last worker, but not for ever.        *)
StartWorker ==
  /\ Idle /\ current = 0 /\ started < MaxSessions
  /\ started > 0 /\ ~Timeouts => at[started] = "exited"
  /\ started' = New /\ main' = "setup"
  /\ at' = [at EXCEPT ![New] = "loop"]
  /\ Submit(New, <<Op("setup")>>)
  /\ UNCHANGED <<driverVars, threadVars, item, future, libraryVars, imageVars, frameVars, shows,
                 events>>

SetUp == at[started] = "loop" /\ queue[started] = <<>>

(* The session is up; showLibraryBraille is the last thing setup asks for. *)
FinishSetup ==
  /\ main = "setup" /\ SetUp
  /\ main' = "idle" /\ current' = started
  /\ Submit(started, <<Op("braille")>>)
  /\ GoTo(Main, "read")
  /\ UNCHANGED <<unsupported, modes, pending, rerun, asked, at, item, future, libraryVars,
                 imageVars, frameVars, counters>>

GiveUpSetup ==
  /\ main = "setup" /\ Timeouts
  /\ main' = "idle"
  /\ Submit(started, <<Op("stop")>>)
  /\ UNCHANGED <<driverVars, threadVars, at, item, future, libraryVars, imageVars, frameVars,
                 counters>>

(* Mutant: the serial is remembered when the operation is submitted.       *)
ShowImage_Stamps ==
  /\ Idle /\ current # 0 /\ image = 0 /\ shows < MaxShows
  /\ shows' = shows + 1
  /\ image' = shows' /\ unsettled' = unsettled \cup {shows'} /\ requested' = Serial
  /\ Submit(current, <<[op |-> "image", image |-> shows']>>)
  /\ UNCHANGED <<main, driverVars, threadVars, at, item, future, libraryVars, posted, ran,
                 frameVars, started, events>>

(* GraphicPresentation.render, once per presentation. *)
ShowImage ==
  /\ Idle /\ current # 0 /\ image = 0 /\ shows < MaxShows
  /\ shows' = shows + 1
  /\ image' = shows' /\ unsettled' = unsettled \cup {shows'} /\ requested' = None
  /\ Submit(current, <<[op |-> "image", image |-> shows']>>)
  /\ UNCHANGED <<main, driverVars, threadVars, at, item, future, libraryVars, posted, ran,
                 frameVars, started, events>>

(* submitAndReport's timer fires before the operation is over.             *)
OperationTimesOut ==
  /\ Timeouts
  /\ \E i \in unsettled : Settle({i})
  /\ UNCHANGED <<main, driverVars, threadVars, workerVars, libraryVars, image, ran, requested,
                 frameVars, counters>>

(* _noteOperationFinished, of whichever presentation submitted it.         *)
NoteOperationFinished ==
  /\ Idle
  /\ \E i \in posted :
       /\ posted' = posted \ {i}
       /\ requested' = IF i = image THEN Serial ELSE requested
  /\ GoTo(Main, "read")
  /\ UNCHANGED <<main, driverVars, asked, workerVars, libraryVars, image, unsettled, ran,
                 frameVars, counters>>

(* LibraryBraillePresentation takes over: showLibraryBraille.              *)
ShowBraille ==
  /\ Idle /\ current # 0 /\ image # 0
  /\ image' = 0 /\ requested' = None
  /\ Submit(current, <<Op("braille")>>)
  /\ GoTo(Main, "read")
  /\ UNCHANGED <<main, driverVars, asked, at, item, future, libraryVars, unsettled, posted, ran,
                 frameVars, counters>>

(* _teardownLibrarySingleton: setShuttingDown, then the fields, then stop. *)
ShutCallbacks ==
  /\ Idle /\ current # 0
  /\ main' = "drain" /\ image' = 0 /\ requested' = None
  /\ shuttingDown' = [shuttingDown EXCEPT ![current] = TRUE]
  /\ UNCHANGED <<driverVars, threadVars, workerVars, mode, frame, unsettled, posted, ran,
                 frameVars, counters>>

(* Mutant: teardown waits for the worker before it was told to stop.       *)
DrainCallbacks_JoinsWorker ==
  /\ main = "drain" /\ at[current] = "exited"
  /\ main' = "clear"
  /\ UNCHANGED <<driverVars, threadVars, workerVars, libraryVars, imageVars, frameVars, counters>>

DrainCallbacks ==
  /\ main = "drain" /\ at[current] # "render"
  /\ main' = "clear"
  /\ UNCHANGED <<driverVars, threadVars, workerVars, libraryVars, imageVars, frameVars, counters>>

ClearSession ==
  /\ main = "clear"
  /\ main' = "idle" /\ current' = 0 /\ modes' = None /\ unsupported' = FALSE
  /\ pending' = FALSE /\ rerun' = FALSE
  /\ Submit(current, <<Op("stop")>>)
  /\ UNCHANGED <<threadVars, at, item, future, libraryVars, imageVars, frameVars, counters>>

Teardown == ShutCallbacks \/ DrainCallbacks \/ ClearSession

MainStep ==
  \/ StartWorker \/ FinishSetup \/ GiveUpSetup \/ ShowImage \/ OperationTimesOut
  \/ NoteOperationFinished \/ ShowBraille \/ Teardown

-----------------------------------------------------------------------------
Next ==
  \/ \E t \in Threads : QueryStep(t)
  \/ \E w \in Workers : WorkerStep(w) \/ FollowFocus(w)
  \/ MainStep

Spec == Init /\ [][Next]_vars

(* NVDA's threads are scheduled.  Nothing is assumed of the user, or of    *)
(* when the library follows the focus.                                     *)
FairSpec ==
  /\ Spec
  /\ \A t \in Threads : WF_vars(QueryStep(t))
  /\ \A w \in Workers : WF_vars(WorkerStep(w))
  /\ WF_vars(FinishSetup) /\ WF_vars(NoteOperationFinished)
  /\ WF_vars(DrainCallbacks \/ ClearSession)

-----------------------------------------------------------------------------
(* Properties *)

Steps == {"none", "read", "lock", "submit", "watch", "check", "record", "release"}
Reports == Modes \cup {"failed", "missing"}
Images == 0 .. MaxShows
Items == [op : {"setup", "braille", "image", "query", "stop"}, image : Images]
Futures == [done : BOOLEAN, watched : BOOLEAN, result : Reports \cup {None}, ran : SUBSET Images]
ModeReports == [mode : Modes, serial : Nat, of : Workers, ran : SUBSET Images]

(* Every variable holds a value the code can give it; in particular every  *)
(* request or mode query that is under way is about some worker.           *)
TypeOK ==
  /\ main \in {"idle", "setup", "drain", "clear"}
  /\ current \in 0 .. started /\ started \in 0 .. MaxSessions
  /\ shows \in Images /\ events \in 0 .. MaxEvents
  /\ {unsupported, pending, rerun, reportsModes} \subseteq BOOLEAN
  /\ modes = None \/ modes \in ModeReports
  /\ step \in [Threads -> Steps] /\ asked \in [Threads -> 0 .. MaxSessions]
  /\ \A t \in Threads : step[t] \notin {"none", "read"} => asked[t] # 0
  /\ at \in [Workers -> {"off", "loop", "run", "dispatch", "enter", "render", "exited"}]
  /\ \A w \in Workers : /\ queue[w] \in Seq(Items)
                        /\ item[w] \in Items \cup {None}
                        /\ at[w] = "run" => item[w] \in Items
                        /\ frame[w] \in Modes \cup {None}
  /\ future \in [Workers -> Futures] /\ mode \in [Workers -> Modes]
  /\ shuttingDown \in [Workers -> BOOLEAN]
  /\ image \in Images /\ {unsettled, posted, ran} \subseteq SUBSET (1 .. MaxShows)
  /\ requested = None \/ requested \in Nat
  /\ {lastPayload, candidate} \subseteq Modes \cup {None}

Holds(w, name) == at[w] = "run" /\ item[w].op = name
Queued(w, name) == \E i \in DOMAIN queue[w] : queue[w][i].op = name

(* What will clear pending again: a query that waits, runs or is being     *)
(* reported, or a thread about to submit one.                              *)
Outstanding(w) ==
  \/ Queued(w, "query") \/ Holds(w, "query")
  \/ \E t \in Threads : step[t] \in {"submit", "check", "record", "release"} /\ asked[t] = w
  \/ \E t \in Threads : step[t] = "watch" /\ asked[t] = w /\ future[w].done

(* While a session is up, a marked query is really outstanding at its      *)
(* worker: were it not, every later request would only set the rerun flag  *)
(* and no mode would ever be read again.                                   *)
PendingHasQuery == pending /\ current # 0 => Outstanding(current)

(* Requests coalesce: the current library is never asked by two queries.   *)
OneQuery ==
  current # 0 =>
    \A i, j \in DOMAIN queue[current] :
      queue[current][i].op = "query" =>
        /\ ~Holds(current, "query")
        /\ queue[current][j].op = "query" => i = j

(* A mode report that image presentations take to describe their result    *)
(* does: its query ran after the image operation.                          *)
ReportFollowsOperation ==
  \/ LibraryModes = None \/ image = 0 \/ requested = None
  \/ modes.serial <= requested
  \/ image \in modes.ran

(* A frame that is held back until its mode is known is decided about: as  *)
(* long as the library answers, a query for it is under way or about to    *)
(* be, so braille is not lost for the moment it is shown again.            *)
HeldFrameIsDecided ==
  candidate # None /\ current # 0 /\ ~unsupported =>
    Outstanding(current) \/ \E t \in Threads : step[t] \in {"read", "lock"}

(* The driver comes to know what the library draws, whichever way its mode *)
(* changed, unless the session ends before.                                *)
Known == modes # None /\ modes.mode = mode[current]
ModesSettle == []<>(current = 0 \/ unsupported \/ Known)

(* Setup and teardown do not leave the main thread waiting.                *)
MainReturns == (main # "idle") ~> (main = "idle")
=============================================================================

---------------------------- MODULE BleDetection ----------------------------
(***************************************************************************)
(* The search for displays over Bluetooth Low Energy: Detector.matches and *)
(* the Scanner it starts, called on NVDA's main thread (the port list of   *)
(* the settings, the driver's own search) and on bdDetect's thread;        *)
(* Detector.terminate and resume on the main thread; and the event loop    *)
(* thread on which bleak starts and stops the WinRT watcher.  This is the  *)
(* scanner the add-on owns, the one of NVDA before 2026.3.                 *)
(*                                                                         *)
(* Data abstraction.  One device matters: it is seen or not.  What matches *)
(* yields follows from that and is left out, and so are the matchers.      *)
(***************************************************************************)
EXTENDS Integers, SequencesExt

CONSTANTS
  MaxCalls,    \* bound: calls of matches
  MaxResumes,  \* bound: reloads of the global plugin
  MaxScanners, \* bound: scanners created
  RadioOff,    \* may the Bluetooth radio be off?
  LoopAnswers, \* does the event loop answer within the time a stop is given?
  None         \* no scanner, nobody waiting

ASSUME BoundAssumption == {MaxCalls, MaxResumes, MaxScanners} \subseteq Nat
ASSUME FlagAssumption == {RadioOff, LoopAnswers} \subseteq BOOLEAN

Main == "main"
Threads == {Main, "detect"}
Scanners == 1 .. MaxScanners

VARIABLES
  latch,      \* Detector._isTerminated
  scanner,    \* Detector._scanner
  isScanning, \* of each scanner: _isScanning
  seen,       \* of each scanner: is the device in _discoveredDevices?
  pc,         \* of each thread: where it is in matches, terminate or stop
  mine,       \* of each thread: its local scanner
  waits,      \* of each thread: does it stop the scanner with wait=True?
  registered, \* threads whose handler is registered with deviceDiscovered
  found,      \* of each thread: its found event
  tasks,      \* coroutines handed to the event loop and not begun
  starting,   \* of each scanner: BleakScanner.start calls that are suspended
  stoppers,   \* of each scanner: threads (or None) behind suspended stops
  watcher,    \* of each scanner: BleakScanner.watcher
  running,    \* of each scanner: WinRT watchers that deliver advertisements
  notifying,  \* scanners whose deviceDiscovered is about to be notified
  created, calls, resumes \* counters of the bounds

detectorVars == <<latch, scanner>>
scannerVars == <<isScanning, seen>>
threadVars == <<pc, mine, waits>>
eventVars == <<registered, found>>
bleakVars == <<starting, stoppers, watcher, running>>
counters == <<created, calls, resumes>>
vars == <<detectorVars, scannerVars, threadVars, eventVars, tasks, bleakVars, notifying, counters>>

Init ==
  /\ latch = FALSE /\ scanner = None
  /\ isScanning = [s \in Scanners |-> FALSE] /\ seen = [s \in Scanners |-> FALSE]
  /\ pc = [t \in Threads |-> "idle"] /\ mine = [t \in Threads |-> None]
  /\ waits = [t \in Threads |-> FALSE]
  /\ registered = {} /\ found = [t \in Threads |-> FALSE]
  /\ tasks = <<>> /\ starting = [s \in Scanners |-> 0] /\ stoppers = [s \in Scanners |-> {}]
  /\ watcher = [s \in Scanners |-> "none"] /\ running = [s \in Scanners |-> 0]
  /\ notifying = {} /\ created = 0 /\ calls = 0 /\ resumes = 0

At(t, place) == pc[t] = place
GoTo(t, place) == pc' = [pc EXCEPT ![t] = place]
Schedule(op, s, by) == tasks' = Append(tasks, [op |-> op, on |-> s, by |-> by])

-----------------------------------------------------------------------------
(* Detector.matches on thread t. *)

CallMatches(t) ==
  /\ At(t, "idle") /\ ~latch /\ calls < MaxCalls
  /\ calls' = calls + 1
  /\ GoTo(t, "resolve")
  /\ UNCHANGED <<detectorVars, scannerVars, mine, waits, eventVars, tasks, bleakVars, notifying,
                 created, resumes>>

(* bluetooth=False: a search for USB displays only stops the scan.         *)
CallWithoutBluetooth(t) ==
  /\ At(t, "idle") /\ ~latch /\ calls < MaxCalls /\ scanner # None
  /\ calls' = calls + 1
  /\ GoTo(t, "stop")
  /\ mine' = [mine EXCEPT ![t] = scanner] /\ waits' = [waits EXCEPT ![t] = FALSE]
  /\ UNCHANGED <<detectorVars, scannerVars, eventVars, tasks, bleakVars, notifying, created,
                 resumes>>

GetScanner(t) ==
  /\ At(t, "resolve")
  /\ GoTo(t, IF scanner = None THEN "create" ELSE "return")
  /\ UNCHANGED <<detectorVars, scannerVars, mine, waits, eventVars, tasks, bleakVars, notifying,
                 counters>>

CreateScanner(t) ==
  /\ At(t, "create") /\ created < MaxScanners
  /\ created' = created + 1 /\ scanner' = created'
  /\ GoTo(t, "return")
  /\ UNCHANGED <<latch, scannerVars, mine, waits, eventVars, tasks, bleakVars, notifying, calls,
                 resumes>>

(* The attribute is read again; resume may have cleared it, which raises.  *)
ReturnScanner(t) ==
  /\ At(t, "return")
  /\ mine' = [mine EXCEPT ![t] = scanner]
  /\ GoTo(t, IF scanner = None THEN "idle" ELSE "test")
  /\ UNCHANGED <<detectorVars, scannerVars, waits, eventVars, tasks, bleakVars, notifying, counters>>

TestScanning(t) ==
  /\ At(t, "test")
  /\ GoTo(t, IF isScanning[mine[t]] THEN "idle" ELSE "start")
  /\ UNCHANGED <<detectorVars, scannerVars, mine, waits, eventVars, tasks, bleakVars, notifying,
                 counters>>

StartScan(t) ==
  /\ At(t, "start")
  /\ isScanning' = [isScanning EXCEPT ![mine[t]] = TRUE]
  /\ seen' = [seen EXCEPT ![mine[t]] = @ /\ isScanning[mine[t]]]
  /\ GoTo(t, "schedule")
  /\ UNCHANGED <<detectorVars, mine, waits, eventVars, tasks, bleakVars, notifying, counters>>

(* The event loop's thread is taken to run: without it this would raise.   *)
ScheduleStart(t) ==
  /\ At(t, "schedule")
  /\ Schedule("start", mine[t], None)
  /\ GoTo(t, "latch")
  /\ UNCHANGED <<detectorVars, scannerVars, mine, waits, eventVars, bleakVars, notifying, counters>>

(* Mutant: no second look at the latch after the start.                    *)
CheckLatch_Once(t) ==
  /\ At(t, "latch")
  /\ GoTo(t, "register")
  /\ UNCHANGED <<detectorVars, scannerVars, mine, waits, eventVars, tasks, bleakVars, notifying,
                 counters>>

CheckLatch(t) ==
  /\ At(t, "latch")
  /\ GoTo(t, IF latch THEN "stop" ELSE "register")
  /\ waits' = [waits EXCEPT ![t] = latch]
  /\ UNCHANGED <<detectorVars, scannerVars, mine, eventVars, tasks, bleakVars, notifying, counters>>

(* _waitForMatchingDevice: register, look at the results, wait.            *)
RegisterHandler(t) ==
  /\ At(t, "register")
  /\ registered' = registered \cup {t} /\ found' = [found EXCEPT ![t] = FALSE]
  /\ GoTo(t, "check")
  /\ UNCHANGED <<detectorVars, scannerVars, mine, waits, tasks, bleakVars, notifying, counters>>

(* Mutant: only an advertisement after the registration counts.            *)
CheckResults_Skipped(t) ==
  /\ At(t, "check")
  /\ GoTo(t, "wait")
  /\ UNCHANGED <<detectorVars, scannerVars, mine, waits, eventVars, tasks, bleakVars, notifying,
                 counters>>

CheckResults(t) ==
  /\ At(t, "check")
  /\ IF seen[mine[t]]
     THEN registered' = registered \ {t} /\ GoTo(t, "idle")
     ELSE GoTo(t, "wait") /\ UNCHANGED registered
  /\ UNCHANGED <<detectorVars, scannerVars, mine, waits, found, tasks, bleakVars, notifying,
                 counters>>

(* Mutant: the handler stays registered.                                   *)
WaitEnds_KeepsHandler(t) ==
  /\ At(t, "wait")
  /\ GoTo(t, "idle")
  /\ UNCHANGED <<detectorVars, scannerVars, mine, waits, eventVars, tasks, bleakVars, notifying,
                 counters>>

(* The device was found, or the time is up.                                *)
WaitEnds(t) ==
  /\ At(t, "wait")
  /\ registered' = registered \ {t}
  /\ GoTo(t, "idle")
  /\ UNCHANGED <<detectorVars, scannerVars, mine, waits, found, tasks, bleakVars, notifying,
                 counters>>

-----------------------------------------------------------------------------
(* stopScanner and Scanner.stop on thread t. *)

StopScanner(t) ==
  /\ At(t, "stop")
  /\ IF isScanning[mine[t]]
     THEN /\ Schedule("stop", mine[t], IF waits[t] THEN t ELSE None)
          /\ GoTo(t, IF waits[t] THEN "stopping" ELSE "clear")
     ELSE GoTo(t, "idle") /\ UNCHANGED tasks
  /\ UNCHANGED <<detectorVars, scannerVars, mine, waits, eventVars, bleakVars, notifying, counters>>

(* Mutant: the wait for the stop has no bound.                             *)
StopTimesOut_Never(t) == FALSE /\ UNCHANGED vars

(* The tasks without the coroutine thread t waits for, if it has not begun. *)
Cancelled(t) ==
  {RemoveAt(tasks, i) : i \in {j \in 1 .. Len(tasks) : tasks[j].by = t}}

(* STOP_TIMEOUT_SECONDS are over: the coroutine is cancelled.  A stop that *)
(* was begun has told the watcher and does not get to forget it.           *)
StopTimesOut(t) ==
  /\ At(t, "stopping") /\ ~LoopAnswers
  /\ tasks' \in IF Cancelled(t) = {} THEN {tasks} ELSE Cancelled(t)
  /\ stoppers' = [s \in Scanners |-> stoppers[s] \ {t}]
  /\ watcher' = [s \in Scanners |-> IF stoppers[s] = {t} THEN "stopped" ELSE watcher[s]]
  /\ GoTo(t, "clear")
  /\ UNCHANGED <<detectorVars, scannerVars, mine, waits, eventVars, starting, running, notifying,
                 counters>>

(* Whatever came of the stop, the flag is cleared.                         *)
ClearScanning(t) ==
  /\ At(t, "clear")
  /\ isScanning' = [isScanning EXCEPT ![mine[t]] = FALSE]
  /\ GoTo(t, "idle")
  /\ UNCHANGED <<detectorVars, seen, mine, waits, eventVars, tasks, bleakVars, notifying, counters>>

-----------------------------------------------------------------------------
(* Detector.terminate and resume, on the main thread. *)

Terminate ==
  /\ At(Main, "idle") /\ ~latch
  /\ latch' = TRUE
  /\ GoTo(Main, "terminate")
  /\ UNCHANGED <<scanner, scannerVars, mine, waits, eventVars, tasks, bleakVars, notifying, counters>>

TerminateScanner ==
  /\ At(Main, "terminate")
  /\ mine' = [mine EXCEPT ![Main] = scanner] /\ waits' = [waits EXCEPT ![Main] = TRUE]
  /\ GoTo(Main, IF scanner = None THEN "idle" ELSE "stop")
  /\ UNCHANGED <<detectorVars, scannerVars, eventVars, tasks, bleakVars, notifying, counters>>

Resume ==
  /\ At(Main, "idle") /\ latch /\ resumes < MaxResumes
  /\ latch' = FALSE /\ scanner' = None
  /\ resumes' = resumes + 1
  /\ UNCHANGED <<scannerVars, threadVars, eventVars, tasks, bleakVars, notifying, created, calls>>

-----------------------------------------------------------------------------
(* The event loop thread: bleak's coroutines and the advertisements. *)

(* start looks for a watcher first and then awaits the adapter.            *)
BeginStart ==
  /\ tasks # <<>> /\ Head(tasks).op = "start"
  /\ tasks' = Tail(tasks)
  /\ LET s == Head(tasks).on IN
       starting' = [starting EXCEPT ![s] = IF watcher[s] = "none" THEN @ + 1 ELSE @]
  /\ UNCHANGED <<detectorVars, scannerVars, threadVars, eventVars, stoppers, watcher, running,
                 notifying, counters>>

(* It goes on to create a watcher, or finds the radio off and raises; no   *)
(* one looks at its future.                                                *)
FinishStart(s) ==
  /\ starting[s] > 0
  /\ starting' = [starting EXCEPT ![s] = @ - 1]
  /\ \/ watcher' = [watcher EXCEPT ![s] = "on"] /\ running' = [running EXCEPT ![s] = @ + 1]
     \/ RadioOff /\ UNCHANGED <<watcher, running>>
  /\ UNCHANGED <<detectorVars, scannerVars, threadVars, eventVars, tasks, stoppers, notifying,
                 counters>>

Wake(threads) ==
  pc' = [t \in Threads |-> IF t \in threads /\ At(t, "stopping") THEN "clear" ELSE pc[t]]

(* stop asserts that there is a watcher, tells it and awaits its end.      *)
BeginStop ==
  /\ tasks # <<>> /\ Head(tasks).op = "stop"
  /\ tasks' = Tail(tasks)
  /\ LET s == Head(tasks).on
         by == Head(tasks).by IN
       IF watcher[s] = "none"
       THEN Wake({by}) /\ UNCHANGED <<stoppers, watcher, running>>
       ELSE /\ watcher' = [watcher EXCEPT ![s] = "stopping"]
            /\ stoppers' = [stoppers EXCEPT ![s] = @ \cup {by}]
            /\ running' = [running EXCEPT ![s] = IF watcher[s] = "on" THEN @ - 1 ELSE @]
            /\ UNCHANGED pc
  /\ UNCHANGED <<detectorVars, scannerVars, mine, waits, eventVars, starting, notifying, counters>>

FinishStop(s) ==
  /\ watcher[s] = "stopping"
  /\ watcher' = [watcher EXCEPT ![s] = "none"]
  /\ stoppers' = [stoppers EXCEPT ![s] = {}]
  /\ Wake(stoppers[s])
  /\ UNCHANGED <<detectorVars, scannerVars, mine, waits, eventVars, tasks, starting, running,
                 notifying, counters>>

(* _onDeviceAdvertised remembers the device and then notifies.             *)
Advertise(s) ==
  /\ running[s] > 0 /\ s \notin notifying
  /\ seen' = [seen EXCEPT ![s] = TRUE]
  /\ notifying' = notifying \cup {s}
  /\ UNCHANGED <<detectorVars, isScanning, threadVars, eventVars, tasks, bleakVars, counters>>

Notify(s) ==
  /\ s \in notifying
  /\ found' = [t \in Threads |-> found[t] \/ (t \in registered /\ mine[t] = s)]
  /\ notifying' = notifying \ {s}
  /\ UNCHANGED <<detectorVars, scannerVars, threadVars, registered, tasks, bleakVars, counters>>

-----------------------------------------------------------------------------
CallStep(t) ==
  \/ GetScanner(t) \/ CreateScanner(t) \/ ReturnScanner(t) \/ TestScanning(t) \/ StartScan(t)
  \/ ScheduleStart(t) \/ CheckLatch(t) \/ RegisterHandler(t) \/ CheckResults(t) \/ WaitEnds(t)
  \/ StopScanner(t) \/ StopTimesOut(t) \/ ClearScanning(t)

LoopStep ==
  \/ BeginStart \/ BeginStop
  \/ \E s \in Scanners : FinishStart(s) \/ FinishStop(s) \/ Advertise(s) \/ Notify(s)

Next ==
  \/ \E t \in Threads : CallMatches(t) \/ CallWithoutBluetooth(t) \/ CallStep(t)
  \/ Terminate \/ TerminateScanner \/ Resume
  \/ LoopStep

Spec == Init /\ [][Next]_vars

(* The threads are scheduled and time passes.  Nothing is assumed of the   *)
(* event loop: the Bluetooth stack may be wedged.                          *)
FairSpec ==
  /\ Spec
  /\ \A t \in Threads : WF_vars(CallStep(t))
  /\ WF_vars(TerminateScanner)

-----------------------------------------------------------------------------
(* Properties *)

Places == {"idle", "resolve", "create", "return", "test", "start", "schedule", "latch", "register",
           "check", "wait", "stop", "stopping", "clear", "terminate"}
Stopper == Threads \cup {None}

(* Every variable holds a value the code can give it; a thread that works  *)
(* with a scanner has one, and a handler is registered only while matches  *)
(* looks for the device.                                                   *)
TypeOK ==
  /\ latch \in BOOLEAN /\ scanner \in Scanners \cup {None}
  /\ isScanning \in [Scanners -> BOOLEAN] /\ seen \in [Scanners -> BOOLEAN]
  /\ pc \in [Threads -> Places] /\ mine \in [Threads -> Scanners \cup {None}]
  /\ waits \in [Threads -> BOOLEAN]
  /\ \A t \in Threads :
       pc[t] \notin {"idle", "resolve", "create", "return", "terminate"} => mine[t] # None
  /\ registered = {t \in Threads : pc[t] \in {"check", "wait"}}
  /\ found \in [Threads -> BOOLEAN]
  /\ tasks \in Seq([op : {"start", "stop"}, on : Scanners, by : Stopper])
  /\ starting \in [Scanners -> Nat] /\ running \in [Scanners -> Nat]
  /\ stoppers \in [Scanners -> SUBSET Stopper]
  /\ watcher \in [Scanners -> {"none", "on", "stopping", "stopped"}]
  /\ notifying \subseteq Scanners
  /\ created \in 0 .. MaxScanners /\ calls \in 0 .. MaxCalls /\ resumes \in 0 .. MaxResumes

(* A thread that waits for the device does not sleep through it: once the  *)
(* scanner has seen the device, the thread's event is set or about to be.  *)
NoMissedDevice ==
  \A t \in Threads : pc[t] = "wait" /\ seen[mine[t]] => found[t] \/ mine[t] \in notifying

Quiet ==
  /\ \A t \in Threads : pc[t] = "idle"
  /\ tasks = <<>> /\ \A s \in Scanners : starting[s] = 0 /\ watcher[s] # "stopping"

(* Once terminate and the calls it overtook are over, the detector does    *)
(* not take its scanner to be scanning, so that nothing relies on it.      *)
NotBelieved == latch /\ Quiet /\ scanner # None => ~isScanning[scanner]

(* Stop scanning and refuse to scan again: once terminate and the calls it *)
(* overtook are over, no watcher is left to outlive the event loop.        *)
StoppedByTerminate == latch /\ Quiet => \A s \in Scanners : running[s] = 0

(* A call of matches or terminate comes to its end, even when the event    *)
(* loop does not answer.                                                   *)
CallsReturn == \A t \in Threads : pc[t] \notin {"idle", "create"} ~> pc[t] \in {"idle", "create"}
=============================================================================

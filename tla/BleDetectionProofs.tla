------------------------- MODULE BleDetectionProofs -------------------------
(***************************************************************************)
(* Theorems about the search for displays, for every number of calls,      *)
(* reloads and scanners: its type invariant, that no search sleeps through *)
(* the display, and that terminate is never undone in the detector's own   *)
(* view of its scanner.                                                    *)
(***************************************************************************)
EXTENDS BleDetection, TLAPS

(* A watcher is on only if one runs; the type invariant needs it where a   *)
(* stop takes one away.                                                    *)
WatcherRuns == \A s \in Scanners : watcher[s] = "on" => running[s] > 0

Typed == TypeOK /\ WatcherRuns

Tasks == [op : {"start", "stop"}, on : Scanners, by : Stopper]

LEMMA CancelledType ==
  ASSUME tasks \in Seq(Tasks), NEW t
  PROVE  Cancelled(t) \subseteq Seq(Tasks)
<1> SUFFICES ASSUME NEW i \in 1 .. Len(tasks)
             PROVE  RemoveAt(tasks, i) \in Seq(Tasks)
  BY DEF Cancelled
<1> HIDE DEF Tasks
<1>1. SubSeq(tasks, 1, i - 1) \in Seq(Tasks) OBVIOUS
<1>2. SubSeq(tasks, i + 1, Len(tasks)) \in Seq(Tasks) OBVIOUS
<1> QED BY <1>1, <1>2 DEF RemoveAt

LEMMA TypedInit == Init => Typed
<1> SUFFICES ASSUME Init PROVE Typed OBVIOUS
<1>1. pc \in [Threads -> Places] /\ registered = {t \in Threads : pc[t] \in {"check", "wait"}}
  BY DEF Init, Places
<1>2. tasks \in Seq(Tasks) BY DEF Init
<1>3. created \in 0 .. MaxScanners /\ calls \in 0 .. MaxCalls /\ resumes \in 0 .. MaxResumes
  BY BoundAssumption DEF Init
<1>4. \A t \in Threads : pc[t] = "idle" BY DEF Init
<1>5. /\ starting \in [Scanners -> Nat] /\ running \in [Scanners -> Nat]
      /\ stoppers \in [Scanners -> SUBSET Stopper]
      /\ watcher \in [Scanners -> {"none", "on", "stopping", "stopped"}]
      /\ WatcherRuns
  BY DEF Init, WatcherRuns
<1> QED BY <1>1, <1>2, <1>3, <1>4, <1>5 DEF Init, Typed, TypeOK, Tasks

(* Steps of matches that touch nothing but the thread's place, its scanner *)
(* and its handler.                                                        *)
LEMMA TypedCall ==
  ASSUME Typed, NEW t \in Threads,
         \/ CallMatches(t) \/ CallWithoutBluetooth(t) \/ GetScanner(t) \/ CreateScanner(t)
         \/ ReturnScanner(t) \/ TestScanning(t) \/ CheckLatch(t) \/ RegisterHandler(t)
         \/ CheckResults(t) \/ WaitEnds(t)
  PROVE  Typed'
<1> USE BoundAssumption DEF GoTo, At, detectorVars, scannerVars, threadVars, eventVars, bleakVars, counters
<1>0. pc[t] \in Places /\ mine[t] \in Scanners \cup {None} BY DEF Typed, TypeOK
<1>1. CASE CallMatches(t) BY <1>1 DEF CallMatches, Typed, TypeOK, WatcherRuns, Places
<1>2. CASE CallWithoutBluetooth(t) BY <1>2 DEF CallWithoutBluetooth, Typed, TypeOK, WatcherRuns, Places
<1>3. CASE GetScanner(t) BY <1>3 DEF GetScanner, Typed, TypeOK, WatcherRuns, Places
<1>4. CASE CreateScanner(t) BY <1>4 DEF CreateScanner, Typed, TypeOK, WatcherRuns, Places, Scanners
<1>5. CASE ReturnScanner(t) BY <1>5 DEF ReturnScanner, Typed, TypeOK, WatcherRuns, Places
<1>6. CASE TestScanning(t) BY <1>6 DEF TestScanning, Typed, TypeOK, WatcherRuns, Places
<1>7. CASE CheckLatch(t) BY <1>7 DEF CheckLatch, Typed, TypeOK, WatcherRuns, Places
<1>8. CASE RegisterHandler(t) BY <1>8 DEF RegisterHandler, Typed, TypeOK, WatcherRuns, Places
<1>9. CASE CheckResults(t) BY <1>9 DEF CheckResults, Typed, TypeOK, WatcherRuns, Places
<1>10. CASE WaitEnds(t) BY <1>10 DEF WaitEnds, Typed, TypeOK, WatcherRuns, Places
<1> QED BY <1>1, <1>2, <1>3, <1>4, <1>5, <1>6, <1>7, <1>8, <1>9, <1>10

LEMMA TypedScan ==
  ASSUME Typed, NEW t \in Threads,
         \/ StartScan(t) \/ ScheduleStart(t) \/ StopScanner(t) \/ StopTimesOut(t) \/ ClearScanning(t)
  PROVE  Typed'
<1> USE BoundAssumption DEF GoTo, At, detectorVars, scannerVars, threadVars, eventVars, bleakVars, counters
<1>0. pc[t] \in Places /\ mine[t] \in Scanners \cup {None} BY DEF Typed, TypeOK
<1>1. CASE StartScan(t) BY <1>1 DEF StartScan, Typed, TypeOK, WatcherRuns, Places
<1>2. CASE ScheduleStart(t)
  <2>1. mine[t] \in Scanners BY <1>2 DEF ScheduleStart, Typed, TypeOK
  <2>2. tasks' \in Seq(Tasks)
    BY <1>2, <2>1 DEF ScheduleStart, Schedule, Typed, TypeOK, Tasks, Stopper
  <2> QED BY <1>2, <2>2 DEF ScheduleStart, Typed, TypeOK, WatcherRuns, Places, Tasks
<1>3. CASE StopScanner(t)
  <2>1. mine[t] \in Scanners BY <1>3 DEF StopScanner, Typed, TypeOK
  <2>2. tasks' \in Seq(Tasks)
    <3> DEFINE task == [op |-> "stop", on |-> mine[t], by |-> IF waits[t] THEN t ELSE None]
    <3>1. tasks \in Seq(Tasks) BY DEF Typed, TypeOK, Tasks
    <3>2. task \in Tasks BY <2>1 DEF Tasks, Stopper
    <3>3. tasks' = Append(tasks, task) \/ tasks' = tasks BY <1>3 DEF StopScanner, Schedule
    <3> HIDE DEF task, Tasks
    <3> QED BY <3>1, <3>2, <3>3
  <2> QED BY <1>3, <2>2 DEF StopScanner, Typed, TypeOK, WatcherRuns, Places, Tasks
<1>4. CASE StopTimesOut(t)
  <2>1. tasks \in Seq(Tasks) BY DEF Typed, TypeOK, Tasks
  <2>2. tasks' \in Seq(Tasks) BY <1>4, <2>1, CancelledType DEF StopTimesOut
  <2>3. /\ watcher' \in [Scanners -> {"none", "on", "stopping", "stopped"}]
        /\ stoppers' \in [Scanners -> SUBSET Stopper]
        /\ WatcherRuns'
    BY <1>4 DEF StopTimesOut, Typed, TypeOK, WatcherRuns
  <2> QED BY <1>4, <2>2, <2>3 DEF StopTimesOut, Typed, TypeOK, Places, Tasks
<1>5. CASE ClearScanning(t) BY <1>5 DEF ClearScanning, Typed, TypeOK, WatcherRuns, Places
<1> QED BY <1>1, <1>2, <1>3, <1>4, <1>5

LEMMA TypedLoop ==
  ASSUME Typed, LoopStep
  PROVE  Typed'
<1> USE BoundAssumption DEF At, Wake, detectorVars, scannerVars, threadVars, eventVars, bleakVars, counters
<1>0. tasks # <<>> => Head(tasks) \in Tasks /\ Tail(tasks) \in Seq(Tasks)
  <2>1. tasks \in Seq(Tasks) BY DEF Typed, TypeOK, Tasks
  <2> QED BY <2>1
<1>1. CASE BeginStart
  <2>1. starting' \in [Scanners -> Nat] BY <1>0, <1>1 DEF BeginStart, Typed, TypeOK, Tasks
  <2> QED BY <1>0, <1>1, <2>1 DEF BeginStart, Typed, TypeOK, WatcherRuns, Tasks
<1>2. CASE BeginStop
  <2> DEFINE s == Head(tasks).on
             by == Head(tasks).by
  <2>1. s \in Scanners /\ by \in Stopper BY <1>0, <1>2 DEF BeginStop, Tasks
  <2> HIDE DEF s, by
  <2>2. /\ tasks' = Tail(tasks)
        /\ IF watcher[s] = "none"
           THEN Wake({by}) /\ UNCHANGED <<stoppers, watcher, running>>
           ELSE /\ watcher' = [watcher EXCEPT ![s] = "stopping"]
                /\ stoppers' = [stoppers EXCEPT ![s] = @ \cup {by}]
                /\ running' = [running EXCEPT ![s] = IF watcher[s] = "on" THEN @ - 1 ELSE @]
                /\ UNCHANGED pc
        /\ UNCHANGED <<detectorVars, scannerVars, mine, waits, eventVars, starting, notifying, counters>>
    BY <1>2 DEF BeginStop, s, by
  <2>3. tasks' \in Seq(Tasks) BY <1>0, <1>2, <2>2 DEF BeginStop
  <2>4. /\ watcher' \in [Scanners -> {"none", "on", "stopping", "stopped"}]
        /\ stoppers' \in [Scanners -> SUBSET Stopper]
        /\ running' \in [Scanners -> Nat] /\ WatcherRuns'
    <3>1. CASE watcher[s] = "none" BY <2>2, <3>1 DEF Typed, TypeOK, WatcherRuns
    <3>2. CASE watcher[s] # "none"
      <4>1. /\ watcher' = [watcher EXCEPT ![s] = "stopping"]
            /\ stoppers' = [stoppers EXCEPT ![s] = @ \cup {by}]
            /\ running' = [running EXCEPT ![s] = IF watcher[s] = "on" THEN @ - 1 ELSE @]
        BY <2>2, <3>2
      <4>2. /\ watcher \in [Scanners -> {"none", "on", "stopping", "stopped"}]
            /\ stoppers \in [Scanners -> SUBSET Stopper] /\ running \in [Scanners -> Nat]
            /\ \A r \in Scanners : watcher[r] = "on" => running[r] > 0
        BY DEF Typed, TypeOK, WatcherRuns
      <4>3. running' \in [Scanners -> Nat] BY <2>1, <4>1, <4>2
      <4>4. stoppers' \in [Scanners -> SUBSET Stopper] BY <2>1, <4>1, <4>2
      <4>5. WatcherRuns' BY <2>1, <4>1, <4>2 DEF WatcherRuns
      <4> QED BY <4>1, <4>2, <4>3, <4>4, <4>5
    <3> QED BY <3>1, <3>2
  <2>5. /\ pc' \in [Threads -> Places]
        /\ \A t \in Threads : pc'[t] = pc[t] \/ (pc[t] = "stopping" /\ pc'[t] = "clear")
    BY <2>2 DEF Typed, TypeOK, Places
  <2>6. \A t \in Threads : pc'[t] \in {"check", "wait"} <=> pc[t] \in {"check", "wait"}
    BY <2>5
  <2> QED BY <2>2, <2>3, <2>4, <2>5, <2>6 DEF Typed, TypeOK, Tasks
<1>3. ASSUME NEW s \in Scanners, FinishStart(s) PROVE Typed'
  <2>1. /\ starting' \in [Scanners -> Nat] /\ running' \in [Scanners -> Nat]
        /\ watcher' \in [Scanners -> {"none", "on", "stopping", "stopped"}]
        /\ WatcherRuns'
    <3>1. /\ starting \in [Scanners -> Nat] /\ running \in [Scanners -> Nat]
          /\ watcher \in [Scanners -> {"none", "on", "stopping", "stopped"}]
          /\ \A r \in Scanners : watcher[r] = "on" => running[r] > 0
      BY DEF Typed, TypeOK, WatcherRuns
    <3>2. starting' \in [Scanners -> Nat] BY <1>3, <3>1 DEF FinishStart
    <3>3. CASE watcher' = [watcher EXCEPT ![s] = "on"] /\ running' = [running EXCEPT ![s] = @ + 1]
      BY <3>1, <3>2, <3>3 DEF WatcherRuns
    <3>4. CASE UNCHANGED <<watcher, running>> BY <3>1, <3>2, <3>4 DEF WatcherRuns
    <3> QED BY <1>3, <3>3, <3>4 DEF FinishStart
  <2> QED BY <1>3, <2>1 DEF FinishStart, Typed, TypeOK
<1>4. ASSUME NEW s \in Scanners, FinishStop(s) PROVE Typed'
  BY <1>4 DEF FinishStop, Typed, TypeOK, WatcherRuns, Places
<1>5. ASSUME NEW s \in Scanners, Advertise(s) PROVE Typed'
  BY <1>5 DEF Advertise, Typed, TypeOK, WatcherRuns
<1>6. ASSUME NEW s \in Scanners, Notify(s) PROVE Typed'
  BY <1>6 DEF Notify, Typed, TypeOK, WatcherRuns
<1> QED BY <1>1, <1>2, <1>3, <1>4, <1>5, <1>6 DEF LoopStep

LEMMA TypedNext == Typed /\ [Next]_vars => Typed'
<1> SUFFICES ASSUME Typed, [Next]_vars PROVE Typed' OBVIOUS
<1> USE DEF GoTo, At, detectorVars, scannerVars, threadVars, eventVars, bleakVars, counters
<1>1. CASE \E t \in Threads : CallMatches(t) \/ CallWithoutBluetooth(t) \/ CallStep(t)
  BY <1>1, TypedCall, TypedScan DEF CallStep
<1>2. CASE Terminate
  <2>1. Main \in Threads BY DEF Threads
  <2> QED BY <1>2, <2>1 DEF Terminate, Typed, TypeOK, WatcherRuns, Places
<1>3. CASE TerminateScanner
  <2>1. Main \in Threads BY DEF Threads
  <2>2. mine' = [mine EXCEPT ![Main] = scanner] /\ mine' \in [Threads -> Scanners \cup {None}]
    BY <1>3, <2>1 DEF TerminateScanner, Typed, TypeOK
  <2>3. waits' \in [Threads -> BOOLEAN] BY <1>3 DEF TerminateScanner, Typed, TypeOK
  <2>4. /\ pc[Main] = "terminate" /\ pc' = [pc EXCEPT ![Main] = IF scanner = None THEN "idle" ELSE "stop"]
        /\ pc' \in [Threads -> Places]
    BY <1>3, <2>1 DEF TerminateScanner, Typed, TypeOK, Places
  <2>5. \A t \in Threads : pc'[t] \in {"check", "wait"} <=> pc[t] \in {"check", "wait"}
    BY <2>1, <2>4 DEF Typed, TypeOK
  <2>6. \A t \in Threads :
          pc'[t] \notin {"idle", "resolve", "create", "return", "terminate"} => mine'[t] # None
    BY <2>1, <2>2, <2>4 DEF Typed, TypeOK
  <2>7. registered' = {t \in Threads : pc'[t] \in {"check", "wait"}}
    BY <1>3, <2>5 DEF TerminateScanner, Typed, TypeOK
  <2> QED BY <1>3, <2>2, <2>3, <2>4, <2>6, <2>7 DEF TerminateScanner, Typed, TypeOK, WatcherRuns
<1>4. CASE Resume
  <2>1. resumes' \in 0 .. MaxResumes
    BY <1>4, BoundAssumption DEF Resume, Typed, TypeOK
  <2>2. registered' = {t \in Threads : pc'[t] \in {"check", "wait"}}
    BY <1>4 DEF Resume, Typed, TypeOK
  <2> QED BY <1>4, <2>1, <2>2 DEF Resume, Typed, TypeOK, WatcherRuns
<1>5. CASE LoopStep BY <1>5, TypedLoop
<1>6. CASE UNCHANGED vars BY <1>6 DEF vars, Typed, TypeOK, WatcherRuns
<1> QED BY <1>1, <1>2, <1>3, <1>4, <1>5, <1>6 DEF Next

LEMMA TypedAlways == Spec => []Typed
BY TypedInit, TypedNext, PTL DEF Spec

(* The type invariant of the search, with what it says of scanners that    *)
(* threads work with and of handlers that are registered.                  *)
THEOREM TypeCorrect == Spec => []TypeOK
<1>1. Typed => TypeOK BY DEF Typed
<1> QED BY <1>1, TypedAlways, PTL

-----------------------------------------------------------------------------
(* No missed device. *)

LEMMA NoMissedNext == Typed /\ NoMissedDevice /\ [Next]_vars => NoMissedDevice'
<1> SUFFICES ASSUME Typed, NoMissedDevice, [Next]_vars,
                    NEW t \in Threads, pc'[t] = "wait", seen'[mine'[t]]
             PROVE  found'[t] \/ mine'[t] \in notifying'
  BY DEF NoMissedDevice
<1> USE DEF GoTo, At, detectorVars, scannerVars, threadVars, eventVars, bleakVars, counters
<1>0. /\ pc \in [Threads -> Places] /\ mine \in [Threads -> Scanners \cup {None}]
      /\ seen \in [Scanners -> BOOLEAN] /\ found \in [Threads -> BOOLEAN]
      /\ pc[t] = "wait" => mine[t] \in Scanners /\ t \in registered
  BY DEF Typed, TypeOK
(* A step that does not put the thread to sleep, nor shows the scanner the *)
(* device, nor undoes what is to wake it.                                  *)
<1>1. CASE /\ pc[t] = "wait" /\ mine'[t] = mine[t]
           /\ seen'[mine[t]] => seen[mine[t]]
           /\ found[t] => found'[t]
           /\ notifying \subseteq notifying'
  BY <1>1 DEF NoMissedDevice
<1>2. ASSUME NEW u \in Threads, CallMatches(u) \/ CallWithoutBluetooth(u) \/ CallStep(u)
      PROVE  found'[t] \/ mine'[t] \in notifying'
  <2>1. CASE CheckResults(u)
    BY <1>0, <1>1, <2>1 DEF CheckResults
  <2>2. CASE StartScan(u)
    <3>1. seen' = [seen EXCEPT ![mine[u]] = @ /\ isScanning[mine[u]]] BY <2>2 DEF StartScan
    <3>2. u # t /\ pc[t] = "wait" BY <1>0, <2>2 DEF StartScan
    <3>3. seen'[mine[t]] => seen[mine[t]] BY <1>0, <3>1, <3>2
    <3> QED BY <1>1, <2>2, <3>2, <3>3 DEF StartScan
  <2>3. CASE CallMatches(u) \/ CallWithoutBluetooth(u)
    BY <1>0, <1>1, <2>3 DEF CallMatches, CallWithoutBluetooth
  <2>4. CASE GetScanner(u) \/ CreateScanner(u) \/ ReturnScanner(u) \/ TestScanning(u)
    BY <1>0, <1>1, <2>4 DEF GetScanner, CreateScanner, ReturnScanner, TestScanning
  <2>5. CASE ScheduleStart(u) \/ CheckLatch(u) \/ RegisterHandler(u) \/ WaitEnds(u)
    BY <1>0, <1>1, <2>5 DEF ScheduleStart, CheckLatch, RegisterHandler, WaitEnds
  <2>6. CASE StopScanner(u) \/ StopTimesOut(u) \/ ClearScanning(u)
    BY <1>0, <1>1, <2>6 DEF StopScanner, StopTimesOut, ClearScanning
  <2> QED BY <1>2, <2>1, <2>2, <2>3, <2>4, <2>5, <2>6 DEF CallStep
<1>3. CASE Terminate \/ TerminateScanner \/ Resume
  BY <1>0, <1>1, <1>3 DEF Terminate, TerminateScanner, Resume
<1>4. CASE BeginStart
  BY <1>1, <1>4 DEF BeginStart
<1>5. CASE BeginStop
  <2>1. pc' = pc \/ \E by : Wake({by}) BY <1>5 DEF BeginStop
  <2>2. pc[t] = "wait" BY <2>1 DEF Wake
  <2> QED BY <1>1, <1>5, <2>2 DEF BeginStop
<1>6. ASSUME NEW s \in Scanners, FinishStart(s) PROVE found'[t] \/ mine'[t] \in notifying'
  BY <1>1, <1>6 DEF FinishStart
<1>7. ASSUME NEW s \in Scanners, FinishStop(s) PROVE found'[t] \/ mine'[t] \in notifying'
  BY <1>1, <1>7 DEF FinishStop, Wake
<1>8. ASSUME NEW s \in Scanners, Advertise(s) PROVE found'[t] \/ mine'[t] \in notifying'
  BY <1>0, <1>8 DEF Advertise, NoMissedDevice
<1>9. ASSUME NEW s \in Scanners, Notify(s) PROVE found'[t] \/ mine'[t] \in notifying'
  BY <1>0, <1>9 DEF Notify, NoMissedDevice
<1>10. CASE UNCHANGED vars
  BY <1>1, <1>10 DEF vars
<1> QED BY <1>2, <1>3, <1>4, <1>5, <1>6, <1>7, <1>8, <1>9, <1>10 DEF Next, LoopStep

(* A search that waits for the display never sleeps through it, at         *)
(* whatever point of its registration the display is advertised.           *)
THEOREM NoDeviceMissed == Spec => []NoMissedDevice
<1>1. Init => NoMissedDevice BY DEF Init, NoMissedDevice
<1> QED BY <1>1, NoMissedNext, TypedAlways, PTL DEF Spec

-----------------------------------------------------------------------------
(* terminate is not undone. *)

(* Only scanners that were created are known to anybody.                   *)
Known ==
  /\ scanner # None => scanner <= created
  /\ \A t \in Threads : mine[t] # None => mine[t] <= created
  /\ \A s \in Scanners : isScanning[s] => s <= created

(* The detector's scanner is about to be stopped by thread t.              *)
Undoes(t) ==
  \/ t = Main /\ pc[t] = "terminate"
  \/ pc[t] \in {"schedule", "latch", "stop", "stopping", "clear"} /\ mine[t] = scanner

(* While the latch is set, whoever started the scanner is on the way to    *)
(* look at the latch, or it is being stopped.                              *)
Undone ==
  latch /\ scanner # None /\ isScanning[scanner] => \E t \in Threads : Undoes(t)

LEMMA KnownNext == Typed /\ Known /\ [Next]_vars => Known'
<1> SUFFICES ASSUME Typed, Known, [Next]_vars PROVE Known' OBVIOUS
<1> USE DEF GoTo, At, detectorVars, scannerVars, threadVars, eventVars, bleakVars, counters
<1>0. /\ created \in Nat /\ scanner \in Scanners \cup {None}
      /\ mine \in [Threads -> Scanners \cup {None}] /\ isScanning \in [Scanners -> BOOLEAN]
      /\ \A s \in Scanners : s \in Nat
  BY DEF Typed, TypeOK, Scanners
<1>1. CASE UNCHANGED <<scanner, mine, isScanning, created>>
  BY <1>1 DEF Known
<1>2. ASSUME NEW t \in Threads, CallMatches(t) \/ CallWithoutBluetooth(t) \/ CallStep(t)
      PROVE  Known'
  <2>1. CASE CallMatches(t) \/ GetScanner(t) \/ TestScanning(t) \/ ScheduleStart(t) \/ CheckLatch(t)
    BY <1>1, <2>1 DEF CallMatches, GetScanner, TestScanning, ScheduleStart, CheckLatch
  <2>2. CASE RegisterHandler(t) \/ CheckResults(t) \/ WaitEnds(t) \/ StopScanner(t) \/ StopTimesOut(t)
    BY <1>1, <2>2 DEF RegisterHandler, CheckResults, WaitEnds, StopScanner, StopTimesOut
  <2>3. CASE CallWithoutBluetooth(t) \/ ReturnScanner(t)
    BY <1>0, <2>3 DEF CallWithoutBluetooth, ReturnScanner, Known
  <2>4. CASE CreateScanner(t)
    <3>1. created' = created + 1 /\ scanner' = created + 1 /\ UNCHANGED <<mine, isScanning>>
      BY <2>4 DEF CreateScanner
    <3> QED BY <1>0, <3>1 DEF Known
  <2>5. CASE StartScan(t)
    <3>1. mine[t] # None BY <2>5 DEF StartScan, Typed, TypeOK
    <3>2. isScanning' = [isScanning EXCEPT ![mine[t]] = TRUE] /\ UNCHANGED <<scanner, mine, created>>
      BY <2>5 DEF StartScan
    <3> QED BY <1>0, <3>1, <3>2 DEF Known
  <2>6. CASE ClearScanning(t)
    <3>1. isScanning' = [isScanning EXCEPT ![mine[t]] = FALSE] /\ UNCHANGED <<scanner, mine, created>>
      BY <2>6 DEF ClearScanning
    <3> QED BY <1>0, <3>1 DEF Known
  <2> QED BY <1>2, <2>1, <2>2, <2>3, <2>4, <2>5, <2>6 DEF CallStep
<1>3. CASE Terminate BY <1>1, <1>3 DEF Terminate
<1>4. CASE TerminateScanner BY <1>0, <1>4 DEF TerminateScanner, Known
<1>5. CASE Resume BY <1>5 DEF Resume, Known
<1>6. CASE LoopStep
  BY <1>1, <1>6 DEF LoopStep, BeginStart, BeginStop, FinishStart, FinishStop, Advertise, Notify
<1>7. CASE UNCHANGED vars BY <1>1, <1>7 DEF vars
<1> QED BY <1>2, <1>3, <1>4, <1>5, <1>6, <1>7 DEF Next

LEMMA UndoneNext == Typed /\ Known /\ Undone /\ [Next]_vars => Undone'
<1> SUFFICES ASSUME Typed, Known, Undone, [Next]_vars,
                    latch', scanner' # None, isScanning'[scanner']
             PROVE  \E t \in Threads : Undoes(t)'
  BY DEF Undone
<1> USE DEF GoTo, At, detectorVars, scannerVars, threadVars, eventVars, bleakVars, counters
<1>0. /\ created \in Nat /\ scanner \in Scanners \cup {None} /\ pc \in [Threads -> Places]
      /\ mine \in [Threads -> Scanners \cup {None}] /\ isScanning \in [Scanners -> BOOLEAN]
      /\ \A s \in Scanners : s \in Nat
      /\ \A t \in Threads :
           pc[t] \notin {"idle", "resolve", "create", "return", "terminate"} => mine[t] # None
  BY DEF Typed, TypeOK, Scanners
(* Some thread was on its way already, and still is.                       *)
<1>1. CASE /\ latch /\ UNCHANGED scanner /\ isScanning[scanner]
           /\ \A u \in Threads : Undoes(u) => Undoes(u)'
  BY <1>1 DEF Undone
<1>2. ASSUME NEW t \in Threads, CallMatches(t) \/ CallWithoutBluetooth(t) \/ CallStep(t)
      PROVE  \E u \in Threads : Undoes(u)'
  <2>1. CASE CallMatches(t) \/ CallWithoutBluetooth(t)
    BY <2>1 DEF CallMatches, CallWithoutBluetooth
  <2>2. CASE GetScanner(t) \/ ReturnScanner(t) \/ TestScanning(t)
    BY <1>0, <1>1, <2>2 DEF GetScanner, ReturnScanner, TestScanning, Undoes
  <2>3. CASE RegisterHandler(t) \/ CheckResults(t) \/ WaitEnds(t)
    BY <1>0, <1>1, <2>3 DEF RegisterHandler, CheckResults, WaitEnds, Undoes
  <2>4. CASE ScheduleStart(t) \/ CheckLatch(t)
    BY <1>0, <1>1, <2>4 DEF ScheduleStart, CheckLatch, Undoes
  <2>5. CASE StopTimesOut(t) BY <1>0, <1>1, <2>5 DEF StopTimesOut, Undoes
  <2>6. CASE CreateScanner(t)
    <3>1. scanner' = created + 1 /\ created + 1 \in Scanners /\ UNCHANGED isScanning
      BY <1>0, <2>6, BoundAssumption DEF CreateScanner, Scanners
    <3>2. ~isScanning[created + 1] BY <1>0, <3>1 DEF Known
    <3> QED BY <3>1, <3>2
  <2>7. CASE StartScan(t)
    <3>1. /\ isScanning' = [isScanning EXCEPT ![mine[t]] = TRUE]
          /\ UNCHANGED <<latch, scanner, mine>>
          /\ pc[t] = "start" /\ pc' = [pc EXCEPT ![t] = "schedule"]
      BY <2>7 DEF StartScan
    <3>2. CASE mine[t] = scanner BY <1>0, <3>1, <3>2 DEF Undoes
    <3>3. CASE mine[t] # scanner BY <1>0, <1>1, <3>1, <3>3 DEF Undoes
    <3> QED BY <3>2, <3>3
  <2>8. CASE StopScanner(t)
    <3>1. pc[t] = "stop" /\ UNCHANGED <<latch, scanner, mine, isScanning>>
      BY <2>8 DEF StopScanner
    <3>2. pc' = [pc EXCEPT ![t] = IF isScanning[mine[t]] THEN IF waits[t] THEN "stopping" ELSE "clear"
                                  ELSE "idle"]
      BY <2>8 DEF StopScanner
    <3> QED BY <1>0, <1>1, <3>1, <3>2 DEF Undoes
  <2>9. CASE ClearScanning(t)
    <3>1. /\ isScanning' = [isScanning EXCEPT ![mine[t]] = FALSE]
          /\ UNCHANGED <<latch, scanner, mine>>
          /\ pc[t] = "clear" /\ pc' = [pc EXCEPT ![t] = "idle"]
      BY <2>9 DEF ClearScanning
    <3>2. mine[t] # scanner BY <1>0, <3>1
    <3> QED BY <1>0, <1>1, <3>1, <3>2 DEF Undoes
  <2> QED BY <1>2, <2>1, <2>2, <2>3, <2>4, <2>5, <2>6, <2>7, <2>8, <2>9 DEF CallStep
<1>3. CASE Terminate
  <2>1. Main \in Threads BY DEF Threads
  <2> QED BY <1>0, <1>3, <2>1 DEF Terminate, Undoes
<1>4. CASE TerminateScanner
  <2>1. Main \in Threads BY DEF Threads
  <2> QED BY <1>0, <1>4, <2>1 DEF TerminateScanner, Undoes
<1>5. CASE Resume BY <1>5 DEF Resume
<1>6. CASE BeginStart BY <1>1, <1>6 DEF BeginStart, Undoes
<1>7. CASE BeginStop
  <2>1. pc' = pc \/ \E by : Wake({by}) BY <1>7 DEF BeginStop
  <2>2. \A u \in Threads : pc'[u] = pc[u] \/ (pc[u] = "stopping" /\ pc'[u] = "clear")
    BY <2>1 DEF Wake
  <2> QED BY <1>1, <1>7, <2>2 DEF BeginStop, Undoes
<1>8. ASSUME NEW s \in Scanners, FinishStop(s) PROVE \E u \in Threads : Undoes(u)'
  BY <1>1, <1>8 DEF FinishStop, Wake, Undoes
<1>9. ASSUME NEW s \in Scanners, FinishStart(s) \/ Advertise(s) \/ Notify(s)
      PROVE  \E u \in Threads : Undoes(u)'
  BY <1>1, <1>9 DEF FinishStart, Advertise, Notify, Undoes
<1>10. CASE UNCHANGED vars BY <1>1, <1>10 DEF vars, Undoes
<1> QED BY <1>2, <1>3, <1>4, <1>5, <1>6, <1>7, <1>8, <1>9, <1>10 DEF Next, LoopStep

(* A terminated detector, once its calls are over, never takes its scanner *)
(* to be scanning, whichever of terminate and a search came last.          *)
THEOREM NeverBelieved == Spec => []NotBelieved
<1>1. Init => Known /\ Undone BY DEF Init, Known, Undone
<1>2. Typed /\ Known /\ [Next]_vars => Known' BY KnownNext
<1>3. Typed /\ Known /\ Undone /\ [Next]_vars => Undone' BY UndoneNext
<1>4. Undone => NotBelieved BY DEF Undone, Undoes, NotBelieved, Quiet
<1> QED BY <1>1, <1>2, <1>3, <1>4, TypedAlways, PTL DEF Spec

=============================================================================

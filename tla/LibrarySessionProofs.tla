------------------------ MODULE LibrarySessionProofs ------------------------
(***************************************************************************)
(* Theorems about the library's sessions.  The type invariant needs no     *)
(* assumption.  What is outstanding at a worker is proved of the newest    *)
(* one: the sessions before it are over once the next one starts, because  *)
(* LibraryWorker.start waits for the last worker.  The wait gives up after *)
(* a while, so most theorems are about one session of any length, or about *)
(* any number of them if no operation outlasts its time.  A request that   *)
(* teardown overtakes can mark a query in the session after, as the run    *)
(* library_next_session shows: the theorems that it would break are about  *)
(* one session, and QueryLostOnlyByInheritance says nothing else does it.  *)
(***************************************************************************)
EXTENDS LibrarySession, TLAPS

(* TypeOK, with the functions told apart from their values.                *)
Typed ==
  /\ TypeOK
  /\ queue \in [Workers -> Seq(Items)]
  /\ item \in [Workers -> Items \cup {None}]
  /\ frame \in [Workers -> Modes \cup {None}]

LEMMA TypedInit == Init => Typed
<1> SUFFICES ASSUME Init PROVE Typed OBVIOUS
<1>1. /\ step \in [Threads -> Steps] /\ \A t \in Threads : step[t] = "none"
      /\ asked \in [Threads -> 0 .. MaxSessions]
  BY BoundAssumption DEF Init, Steps
<1>2. queue \in [Workers -> Seq(Items)] BY DEF Init
<1>3. future \in [Workers -> Futures] BY DEF Init, Futures, NoFuture
<1>4. /\ item \in [Workers -> Items \cup {None}] /\ frame \in [Workers -> Modes \cup {None}]
      /\ at \in [Workers -> {"off", "loop", "run", "dispatch", "enter", "render", "exited"}]
      /\ \A w \in Workers : at[w] # "run"
      /\ mode \in [Workers -> Modes] /\ shuttingDown \in [Workers -> BOOLEAN]
  BY DEF Init, Modes
<1>5. /\ started \in 0 .. MaxSessions /\ current \in 0 .. started
      /\ shows \in Images /\ events \in 0 .. MaxEvents /\ image \in Images
  BY BoundAssumption DEF Init, Images
<1> QED BY <1>1, <1>2, <1>3, <1>4, <1>5 DEF Init, Typed, TypeOK

-----------------------------------------------------------------------------
(* One lemma for each part of the system. *)

LEMMA SubmitType ==
  ASSUME Typed, NEW w, NEW items \in Seq(Items), Submit(w, items)
  PROVE  queue' \in [Workers -> Seq(Items)]
<1>1. queue \in [Workers -> Seq(Items)] /\ queue' = [queue EXCEPT ![w] = queue[w] \o items]
  BY DEF Typed, Submit
<1>2. CASE w \in Workers
  <2>1. queue[w] \in Seq(Items) BY <1>1, <1>2
  <2>2. queue[w] \o items \in Seq(Items) BY <2>1
  <2> QED BY <1>1, <2>2
<1>3. CASE w \notin Workers BY <1>1, <1>3
<1> QED BY <1>2, <1>3

LEMMA OpType ==
  ASSUME NEW name \in {"setup", "braille", "query", "stop"}
  PROVE  <<Op(name)>> \in Seq(Items)
BY BoundAssumption DEF Op, Items, Images

LEMMA TypedQuery ==
  ASSUME Typed, NEW t \in Threads, QueryStep(t)
  PROVE  Typed'
<1> USE DEF GoTo, driverVars, threadVars, workerVars, libraryVars, imageVars, frameVars, counters
<1>1. /\ step[t] \in Steps /\ asked[t] \in 0 .. MaxSessions /\ current \in 0 .. started
      /\ started \in 0 .. MaxSessions
      /\ step[t] \notin {"none", "read"} => asked[t] \in Workers
  BY BoundAssumption DEF Typed, TypeOK, Workers
<1>2. CASE ReadWorker(t)
  <2>1. step' \in [Threads -> Steps] BY <1>2 DEF ReadWorker, Typed, TypeOK, Steps
  <2>2. asked' \in [Threads -> 0 .. MaxSessions]
    <3>1. current \in 0 .. MaxSessions BY <1>1, BoundAssumption
    <3>2. asked' = asked \/ asked' = [asked EXCEPT ![t] = current] BY <1>2 DEF ReadWorker
    <3> QED BY <3>1, <3>2 DEF Typed, TypeOK
  <2>3. \A u \in Threads : step'[u] \notin {"none", "read"} => asked'[u] # 0
    BY <1>1, <1>2 DEF ReadWorker, Typed, TypeOK
  <2> QED BY <1>2, <2>1, <2>2, <2>3 DEF ReadWorker, Typed, TypeOK
<1>3. CASE MarkPending(t)
  <2>1. /\ step' \in [Threads -> Steps]
        /\ \A u \in Threads : step'[u] \notin {"none", "read"} => asked'[u] # 0
    BY <1>3 DEF MarkPending, Typed, TypeOK, Steps
  <2> QED BY <1>3, <2>1 DEF MarkPending, Typed, TypeOK
<1>4. CASE SubmitQuery(t)
  <2>1. queue' \in [Workers -> Seq(Items)] BY <1>4, SubmitType, OpType DEF SubmitQuery
  <2>2. future' \in [Workers -> Futures]
    BY <1>4 DEF SubmitQuery, Typed, TypeOK, Futures, NoFuture
  <2>3. /\ step' \in [Threads -> Steps]
        /\ \A u \in Threads : step'[u] \notin {"none", "read"} => asked'[u] # 0
    BY <1>4 DEF SubmitQuery, Typed, TypeOK, Steps
  <2> QED BY <1>4, <2>1, <2>2, <2>3 DEF SubmitQuery, Typed, TypeOK
<1>5. CASE WatchQuery(t)
  <2>1. future' \in [Workers -> Futures]
    <3>1. asked[t] \in Workers /\ future \in [Workers -> Futures]
      BY <1>1, <1>5 DEF WatchQuery, Typed, TypeOK
    <3>2. future' = future \/ future' = [future EXCEPT ![asked[t]] = [@ EXCEPT !.watched = TRUE]]
      BY <1>5 DEF WatchQuery
    <3>3. [future[asked[t]] EXCEPT !.watched = TRUE] \in Futures BY <3>1 DEF Futures
    <3> QED BY <3>1, <3>2, <3>3
  <2>2. /\ step' \in [Threads -> Steps]
        /\ \A u \in Threads : step'[u] \notin {"none", "read"} => asked'[u] # 0
    BY <1>5 DEF WatchQuery, Typed, TypeOK, Steps
  <2> QED BY <1>5, <2>1, <2>2 DEF WatchQuery, Typed, TypeOK
<1>6. CASE CheckWorker(t)
  <2>1. /\ step' \in [Threads -> Steps]
        /\ \A u \in Threads : step'[u] \notin {"none", "read"} => asked'[u] # 0
    BY <1>6 DEF CheckWorker, Typed, TypeOK, Steps
  <2> QED BY <1>6, <2>1 DEF CheckWorker, Typed, TypeOK
<1>7. CASE RecordModes(t)
  <2>1. asked[t] \in Workers BY <1>1, <1>7 DEF RecordModes
  <2>2. future[asked[t]] \in Futures BY <2>1 DEF Typed, TypeOK
  <2>3. NextSerial \in Nat BY DEF NextSerial, Typed, TypeOK, ModeReports
  <2>4. modes' \in ModeReports
    BY <1>7, <2>1, <2>2, <2>3 DEF RecordModes, ModeReports, Futures
  <2>5. /\ step' \in [Threads -> Steps]
        /\ \A u \in Threads : step'[u] \notin {"none", "read"} => asked'[u] # 0
    BY <1>7 DEF RecordModes, Typed, TypeOK, Steps
  <2>6. {lastPayload', candidate'} \subseteq Modes \cup {None} /\ reportsModes' \in BOOLEAN
    BY <1>7 DEF RecordModes, Report, Typed, TypeOK
  <2> QED BY <1>7, <2>4, <2>5, <2>6 DEF RecordModes, Typed, TypeOK
<1>8. CASE RecordMissing(t)
  <2>1. /\ step' \in [Threads -> Steps]
        /\ \A u \in Threads : step'[u] \notin {"none", "read"} => asked'[u] # 0
    BY <1>8 DEF RecordMissing, Typed, TypeOK, Steps
  <2>2. {lastPayload', candidate'} \subseteq Modes \cup {None} /\ reportsModes' \in BOOLEAN
    BY <1>8 DEF RecordMissing, Report, Typed, TypeOK
  <2> QED BY <1>8, <2>1, <2>2 DEF RecordMissing, Typed, TypeOK
<1>9. CASE RecordFailure(t) \/ ReleaseQuery(t)
  <2>1. /\ step' \in [Threads -> Steps]
        /\ \A u \in Threads : step'[u] \notin {"none", "read"} => asked'[u] # 0
    BY <1>9 DEF RecordFailure, ReleaseQuery, Typed, TypeOK, Steps
  <2>2. {pending', rerun'} \subseteq BOOLEAN
    BY <1>9 DEF RecordFailure, ReleaseQuery, Typed, TypeOK
  <2>3. CASE RecordFailure(t) BY <2>1, <2>2, <2>3 DEF RecordFailure, Typed, TypeOK
  <2>4. CASE ReleaseQuery(t) BY <2>1, <2>2, <2>4 DEF ReleaseQuery, Typed, TypeOK
  <2> QED BY <1>9, <2>3, <2>4
<1> HIDE DEF GoTo, driverVars, threadVars, workerVars, libraryVars, imageVars, frameVars, counters
<1> QED BY <1>2, <1>3, <1>4, <1>5, <1>6, <1>7, <1>8, <1>9 DEF QueryStep

(* The operation's end settles outcomes of images only. *)
LEMMA SettleType ==
  ASSUME Typed, NEW images, Settle(images)
  PROVE  {unsettled', posted'} \subseteq SUBSET (1 .. MaxShows)
BY DEF Typed, TypeOK, Settle

LEMMA DoneType ==
  ASSUME Typed, NEW w \in Workers, Done(w)
  PROVE  /\ at' \in [Workers -> {"off", "loop", "run", "dispatch", "enter", "render", "exited"}]
         /\ item' \in [Workers -> Items \cup {None}]
         /\ \A u \in Workers : at'[u] = "run" => item'[u] \in Items
         /\ {unsettled', posted'} \subseteq SUBSET (1 .. MaxShows)
<1>1. {unsettled', posted'} \subseteq SUBSET (1 .. MaxShows) BY SettleType DEF Done
<1> QED BY <1>1 DEF Typed, TypeOK, Done

LEMMA ContinueType ==
  ASSUME Typed, NEW w \in Workers, NEW place \in {"dispatch", "enter", "render"}, Continue(w, place)
  PROVE  /\ at' \in [Workers -> {"off", "loop", "run", "dispatch", "enter", "render", "exited"}]
         /\ item' \in [Workers -> Items \cup {None}]
         /\ \A u \in Workers : at'[u] = "run" => item'[u] \in Items
         /\ {unsettled', posted'} \subseteq SUBSET (1 .. MaxShows)
BY DEF Typed, TypeOK, Continue

LEMMA TypedWorker ==
  ASSUME Typed, NEW w \in Workers, WorkerStep(w) \/ FollowFocus(w)
  PROVE  Typed'
<1> USE DEF GoTo, driverVars, threadVars, workerVars, libraryVars, imageVars, frameVars, counters
<1>1. /\ w \in Threads /\ w # 0 /\ w \in 0 .. MaxSessions
      /\ at[w] = "run" => item[w] \in Items
  BY BoundAssumption DEF Threads, Workers, Typed, TypeOK
<1>2. CASE TakeItem(w)
  <2>1. queue[w] \in Seq(Items) /\ queue[w] # <<>> BY <1>2 DEF TakeItem, Typed
  <2>2. Head(queue[w]) \in Items /\ Tail(queue[w]) \in Seq(Items) BY <2>1
  <2>3. queue' \in [Workers -> Seq(Items)] BY <1>2, <2>2 DEF TakeItem, Typed
  <2>4. /\ item' \in [Workers -> Items \cup {None}]
        /\ at' \in [Workers -> {"off", "loop", "run", "dispatch", "enter", "render", "exited"}]
        /\ \A u \in Workers : at'[u] = "run" => item'[u] \in Items
    BY <1>2, <2>2 DEF TakeItem, Typed, TypeOK
  <2> QED BY <1>2, <2>3, <2>4 DEF TakeItem, Typed, TypeOK
<1>3. CASE RunSetup(w)
  BY <1>3, DoneType DEF RunSetup, Typed, TypeOK
<1>4. CASE RunShow(w)
  <2>1. PICK m \in Modes :
          /\ mode' = [mode EXCEPT ![w] = m]
          /\ \/ frame' = [frame EXCEPT ![w] = m] /\ Continue(w, "dispatch")
             \/ Done(w) /\ UNCHANGED frame
    BY <1>4 DEF RunShow
  <2>2. mode' \in [Workers -> Modes] /\ frame' \in [Workers -> Modes \cup {None}]
    BY <2>1 DEF Typed, TypeOK
  <2>3. item[w].image \in Images BY <1>1, <1>4 DEF RunShow, Items
  <2>4. ran' \subseteq 1 .. MaxShows
    BY <1>4, <2>3, BoundAssumption DEF RunShow, Typed, TypeOK, Images
  <2>5. /\ at' \in [Workers -> {"off", "loop", "run", "dispatch", "enter", "render", "exited"}]
        /\ item' \in [Workers -> Items \cup {None}]
        /\ \A u \in Workers : at'[u] = "run" => item'[u] \in Items
        /\ {unsettled', posted'} \subseteq SUBSET (1 .. MaxShows)
    BY <2>1, DoneType, ContinueType
  <2> QED BY <1>4, <2>2, <2>4, <2>5 DEF RunShow, Typed, TypeOK
<1>5. CASE RunQuery(w)
  <2>1. PICK result \in Reports :
          future' = [future EXCEPT ![w].done = TRUE, ![w].result = result, ![w].ran = ran]
    <3>1. {mode[w]} \cup (IF QueryErrors THEN {"failed", "missing"} ELSE {}) \subseteq Reports
      BY DEF Reports, Typed, TypeOK
    <3>2. PICK r \in {mode[w]} \cup (IF QueryErrors THEN {"failed", "missing"} ELSE {}) :
            future' = [future EXCEPT ![w].done = TRUE, ![w].result = r, ![w].ran = ran]
      BY <1>5, Zenon DEF RunQuery
    <3> QED BY <3>1, <3>2
  <2>2. future' \in [Workers -> Futures]
    <3>1. future[w] \in Futures /\ ran \subseteq Images
      BY DEF Typed, TypeOK, Images
    <3> DEFINE f == [[[future[w] EXCEPT !.done = TRUE] EXCEPT !.result = result] EXCEPT !.ran = ran]
    <3>2. f \in Futures BY <2>1, <3>1 DEF Futures
    <3>3. future' = [future EXCEPT ![w] = f] BY <2>1, <3>1 DEF Typed, TypeOK, Futures
    <3> HIDE DEF f
    <3> QED BY <3>2, <3>3 DEF Typed, TypeOK
  <2>3. step' \in [Threads -> Steps] /\ asked' \in [Threads -> 0 .. MaxSessions]
    BY <1>1, <1>5 DEF RunQuery, Typed, TypeOK, Steps
  <2>4. \A u \in Threads : step'[u] \notin {"none", "read"} => asked'[u] # 0
    BY <1>1, <1>5 DEF RunQuery, Typed, TypeOK
  <2>5. /\ at' \in [Workers -> {"off", "loop", "run", "dispatch", "enter", "render", "exited"}]
        /\ item' \in [Workers -> Items \cup {None}]
        /\ \A u \in Workers : at'[u] = "run" => item'[u] \in Items
        /\ {unsettled', posted'} \subseteq SUBSET (1 .. MaxShows)
    BY <1>5, DoneType DEF RunQuery
  <2> QED BY <1>5, <2>2, <2>3, <2>4, <2>5 DEF RunQuery, Typed, TypeOK
<1>6. CASE EnterCallback(w)
  <2>1. /\ at' \in [Workers -> {"off", "loop", "run", "dispatch", "enter", "render", "exited"}]
        /\ item' \in [Workers -> Items \cup {None}]
        /\ \A u \in Workers : at'[u] = "run" => item'[u] \in Items
        /\ {unsettled', posted'} \subseteq SUBSET (1 .. MaxShows)
    BY <1>6, DoneType, ContinueType DEF EnterCallback
  <2> QED BY <1>6, <2>1 DEF EnterCallback, Typed, TypeOK
<1>7. CASE RenderFrame(w)
  BY <1>1, <1>7 DEF RenderFrame, Typed, TypeOK, Steps
<1>8. CASE KeepFrame(w)
  <2>1. {lastPayload', candidate'} \subseteq Modes \cup {None}
    BY <1>8 DEF KeepFrame, Typed, TypeOK
  <2> QED BY <1>8, <2>1, DoneType DEF KeepFrame, Typed, TypeOK
<1>9. CASE FollowFocus(w)
  <2>1. mode' \in [Workers -> Modes] /\ frame' \in [Workers -> Modes \cup {None}]
    BY <1>9 DEF FollowFocus, Typed, TypeOK
  <2>2. events' \in 0 .. MaxEvents BY <1>9, BoundAssumption DEF FollowFocus, Typed, TypeOK
  <2> QED BY <1>9, <2>1, <2>2 DEF FollowFocus, Typed, TypeOK
<1> QED BY <1>2, <1>3, <1>4, <1>5, <1>6, <1>7, <1>8, <1>9 DEF WorkerStep

LEMMA TypedMain ==
  ASSUME Typed, MainStep
  PROVE  Typed'
<1> USE DEF GoTo, driverVars, threadVars, workerVars, libraryVars, imageVars, frameVars, counters
<1>1. /\ Main \in Threads /\ started \in Nat /\ current \in Nat /\ shows \in Nat
      /\ \A t \in Threads : step[t] \in Steps
  BY BoundAssumption DEF Threads, Typed, TypeOK, Images
<1>2. CASE StartWorker
  <2>1. queue' \in [Workers -> Seq(Items)] BY <1>2, SubmitType, OpType DEF StartWorker
  <2>2. started' \in 0 .. MaxSessions /\ current \in 0 .. started'
    BY <1>2, BoundAssumption DEF StartWorker, New, Typed, TypeOK
  <2>3. /\ at' \in [Workers -> {"off", "loop", "run", "dispatch", "enter", "render", "exited"}]
        /\ \A u \in Workers : at'[u] = "run" => item[u] \in Items
    BY <1>2 DEF StartWorker, Typed, TypeOK
  <2> QED BY <1>2, <2>1, <2>2, <2>3 DEF StartWorker, Typed, TypeOK
<1>3. CASE FinishSetup
  <2>1. queue' \in [Workers -> Seq(Items)] BY <1>3, SubmitType, OpType DEF FinishSetup
  <2>2. /\ step' \in [Threads -> Steps]
        /\ \A u \in Threads : step'[u] \notin {"none", "read"} => asked'[u] # 0
    BY <1>1, <1>3 DEF FinishSetup, Typed, TypeOK, Steps
  <2>3. current' \in 0 .. started' BY <1>1, <1>3 DEF FinishSetup
  <2> QED BY <1>3, <2>1, <2>2, <2>3 DEF FinishSetup, Typed, TypeOK
<1>4. CASE GiveUpSetup
  <2>1. queue' \in [Workers -> Seq(Items)] BY <1>4, SubmitType, OpType DEF GiveUpSetup
  <2> QED BY <1>4, <2>1 DEF GiveUpSetup, Typed, TypeOK
<1>5. CASE ShowImage
  <2>1. shows' \in 1 .. MaxShows /\ shows' \in Images /\ shows' = image'
    BY <1>1, <1>5, BoundAssumption DEF ShowImage, Images, Typed, TypeOK
  <2>2. <<[op |-> "image", image |-> shows']>> \in Seq(Items) BY <2>1 DEF Items
  <2>3. queue' \in [Workers -> Seq(Items)] BY <1>5, <2>2, SubmitType DEF ShowImage
  <2>4. unsettled' \subseteq 1 .. MaxShows BY <1>5, <2>1 DEF ShowImage, Typed, TypeOK
  <2> QED BY <1>5, <2>1, <2>3, <2>4 DEF ShowImage, Typed, TypeOK
<1>6. CASE OperationTimesOut
  <2>1. {unsettled', posted'} \subseteq SUBSET (1 .. MaxShows)
    BY <1>6, SettleType DEF OperationTimesOut
  <2> QED BY <1>6, <2>1 DEF OperationTimesOut, Typed, TypeOK
<1>7. CASE NoteOperationFinished
  <2>1. /\ step' \in [Threads -> Steps]
        /\ \A u \in Threads : step'[u] \notin {"none", "read"} => asked'[u] # 0
    BY <1>1, <1>7 DEF NoteOperationFinished, Typed, TypeOK, Steps
  <2>2. Serial \in Nat BY DEF Serial, LibraryModes, Typed, TypeOK, ModeReports
  <2>3. requested' = None \/ requested' \in Nat
    BY <1>7, <2>2 DEF NoteOperationFinished, Typed, TypeOK
  <2>4. posted' \subseteq 1 .. MaxShows BY <1>7 DEF NoteOperationFinished, Typed, TypeOK
  <2> QED BY <1>7, <2>1, <2>3, <2>4 DEF NoteOperationFinished, Typed, TypeOK
<1>8. CASE ShowBraille
  <2>1. queue' \in [Workers -> Seq(Items)] BY <1>8, SubmitType, OpType DEF ShowBraille
  <2>2. /\ step' \in [Threads -> Steps]
        /\ \A u \in Threads : step'[u] \notin {"none", "read"} => asked'[u] # 0
    BY <1>1, <1>8 DEF ShowBraille, Typed, TypeOK, Steps
  <2>3. image' \in Images BY <1>8, BoundAssumption DEF ShowBraille, Images
  <2> QED BY <1>8, <2>1, <2>2, <2>3 DEF ShowBraille, Typed, TypeOK
<1>9. CASE ShutCallbacks
  <2>1. image' \in Images BY <1>9, BoundAssumption DEF ShutCallbacks, Images
  <2>2. shuttingDown' \in [Workers -> BOOLEAN] BY <1>9 DEF ShutCallbacks, Typed, TypeOK
  <2> QED BY <1>9, <2>1, <2>2 DEF ShutCallbacks, Typed, TypeOK
<1>10. CASE DrainCallbacks BY <1>10 DEF DrainCallbacks, Typed, TypeOK
<1>11. CASE ClearSession
  <2>1. queue' \in [Workers -> Seq(Items)] BY <1>11, SubmitType, OpType DEF ClearSession
  <2>2. current' \in 0 .. started' BY <1>1, <1>11 DEF ClearSession
  <2> QED BY <1>11, <2>1, <2>2 DEF ClearSession, Typed, TypeOK
<1> QED
  BY <1>2, <1>3, <1>4, <1>5, <1>6, <1>7, <1>8, <1>9, <1>10, <1>11 DEF MainStep, Teardown

LEMMA TypedNext == Typed /\ [Next]_vars => Typed'
<1> SUFFICES ASSUME Typed, [Next]_vars PROVE Typed' OBVIOUS
<1>1. CASE Next BY <1>1, TypedQuery, TypedWorker, TypedMain DEF Next
<1>2. CASE UNCHANGED vars
  BY <1>2 DEF vars, driverVars, threadVars, workerVars, libraryVars, imageVars, frameVars, counters,
              Typed, TypeOK
<1> QED BY <1>1, <1>2

LEMMA TypedAlways == Spec => []Typed
BY TypedInit, TypedNext, PTL DEF Spec

(* The type invariant, for any number of sessions, images and threads of   *)
(* requests: every request and query under way is about some worker.       *)
THEOREM TypeCorrect == Spec => []TypeOK
<1>1. Typed => TypeOK BY DEF Typed
<1> QED BY <1>1, TypedAlways, PTL

-----------------------------------------------------------------------------
(* The newest session: the driver works with the worker it started last.   *)
(* The ones before have exited, because a session is only set up after the *)
(* last worker is gone, or because there was none.                         *)

Past ==
  /\ current \in {0, started}
  /\ main # "idle" => started # 0
  /\ main \in {"drain", "clear"} => current # 0
  /\ main = "setup" => current = 0
  /\ current = 0 \/ main # "idle" => image = 0
  /\ started = 0 => unsettled = {} /\ posted = {} /\ \A t \in Threads : step[t] = "none"
  /\ \A w \in Workers : w # started => at[w] \in {"off", "exited"}
  /\ \A w \in Workers : at[w] \in {"off", "exited"} => step[w] = "none"
  /\ \A w \in Workers : w > started => at[w] = "off" /\ queue[w] = <<>> /\ item[w] = None
  /\ \A t \in Threads : step[t] \notin {"none", "read"} => asked[t] = started

(* What the steps of the newest session may take for granted.              *)
LEMMA AtWork ==
  ASSUME Typed, Past, NEW w \in Workers, w = started
  PROVE  /\ Main = 0 /\ 0 \in Threads /\ w \in Threads /\ w # 0 /\ current \in {0, w}
         /\ \A t \in Threads \ {0, w} : step[t] = "none"
         /\ \A t \in Threads : step[t] \notin {"none", "read"} => asked[t] = w
         /\ step \in [Threads -> Steps] /\ asked \in [Threads -> 0 .. MaxSessions]
         /\ queue \in [Workers -> Seq(Items)] /\ queue[w] \in Seq(Items)
         /\ future \in [Workers -> Futures] /\ future[w] \in Futures
         /\ item \in [Workers -> Items \cup {None}]
         /\ at \in [Workers -> {"off", "loop", "run", "dispatch", "enter", "render", "exited"}]
<1>1. Main = 0 /\ 0 \in Threads /\ w \in Threads /\ w # 0 /\ current \in {0, w}
  BY DEF Main, Threads, Workers, Past
<1>2. ASSUME NEW t \in Threads \ {0, w} PROVE step[t] = "none"
  <2>1. t \in Workers /\ t # started BY <1>2 DEF Threads, Main
  <2> QED BY <2>1 DEF Past
<1>3. \A t \in Threads : step[t] \notin {"none", "read"} => asked[t] = w BY DEF Past
<1> QED BY <1>1, <1>2, <1>3 DEF Typed, TypeOK

LEMMA StepType == ASSUME Typed PROVE step \in [Threads -> Steps]
BY DEF Typed, TypeOK

(* A thread that moves belongs to the newest session, and there is one.    *)
LEMMA NewestMoves ==
  ASSUME Typed, Past
  PROVE  /\ \A t \in Threads : QueryStep(t) => started \in Workers /\ step[t] # "none"
         /\ \A w \in Workers : WorkerStep(w) \/ FollowFocus(w) => w = started
         /\ MainStep => StartWorker \/ started \in Workers
<1>1. started \in 0 .. MaxSessions BY DEF Typed, TypeOK
<1>2. ASSUME NEW t \in Threads, QueryStep(t) PROVE started \in Workers /\ step[t] # "none"
  <2>1. step[t] # "none"
    BY <1>2 DEF QueryStep, ReadWorker, MarkPending, SubmitQuery, WatchQuery, CheckWorker,
                RecordModes, RecordMissing, RecordFailure, ReleaseQuery
  <2>2. started # 0 BY <2>1 DEF Past
  <2> QED BY <1>1, <2>1, <2>2, BoundAssumption DEF Workers
<1>3. ASSUME NEW w \in Workers, WorkerStep(w) \/ FollowFocus(w) PROVE w = started
  <2>1. at[w] \notin {"off", "exited"}
    BY <1>3 DEF WorkerStep, TakeItem, RunSetup, RunShow, RunQuery, EnterCallback, RenderFrame,
                KeepFrame, FollowFocus, Free
  <2> QED BY <2>1 DEF Past
<1>4. ASSUME MainStep, ~StartWorker PROVE started \in Workers
  <2>1. started # 0
    <3>1. CASE FinishSetup \/ GiveUpSetup \/ DrainCallbacks \/ ClearSession
      BY <3>1 DEF FinishSetup, GiveUpSetup, DrainCallbacks, ClearSession, Past
    <3>2. CASE ShowImage \/ ShowBraille \/ ShutCallbacks
      <4>1. current # 0 BY <3>2 DEF ShowImage, ShowBraille, ShutCallbacks
      <4> QED BY <4>1 DEF Past
    <3>3. CASE OperationTimesOut \/ NoteOperationFinished
      <4>1. unsettled # {} \/ posted # {} BY <3>3 DEF OperationTimesOut, NoteOperationFinished
      <4> QED BY <4>1 DEF Past
    <3> QED BY <1>4, <3>1, <3>2, <3>3 DEF MainStep, Teardown
  <2> QED BY <1>1, <2>1, BoundAssumption DEF Workers
<1> QED BY <1>2, <1>3, <1>4

LEMMA PastInit == Init => Past
BY DEF Init, Past, Threads, Workers

LEMMA PastQuery ==
  ASSUME Typed, Past, NEW t \in Threads, QueryStep(t)
  PROVE  Past'
<1> USE DEF GoTo, driverVars, threadVars, workerVars, libraryVars, imageVars, frameVars, counters
<1>1. /\ UNCHANGED <<started, main, current, image, unsettled, posted, at, item>>
      /\ \A u \in Threads \ {t} : step'[u] = step[u] /\ asked'[u] = asked[u]
  <2>1. UNCHANGED <<started, main, current, image, unsettled, posted, at, item>>
    BY DEF QueryStep, ReadWorker, MarkPending, SubmitQuery, WatchQuery, CheckWorker, RecordModes,
           RecordMissing, RecordFailure, ReleaseQuery
  <2>2. \A u \in Threads \ {t} : step'[u] = step[u] /\ asked'[u] = asked[u]
    BY DEF QueryStep, ReadWorker, MarkPending, SubmitQuery, WatchQuery, CheckWorker, RecordModes,
           RecordMissing, RecordFailure, ReleaseQuery, Typed, TypeOK
  <2> QED BY <2>1, <2>2
<1>2. started \in Workers /\ step[t] # "none" BY NewestMoves
<1>3. step'[t] \notin {"none", "read"} => asked'[t] = started
  <2>1. CASE ReadWorker(t)
    BY <2>1 DEF ReadWorker, Past, Typed, TypeOK
  <2>2. CASE ~ReadWorker(t)
    <3>1. UNCHANGED asked /\ step[t] \notin {"none", "read"}
      BY <2>2 DEF QueryStep, MarkPending, SubmitQuery, WatchQuery, CheckWorker, RecordModes,
             RecordMissing, RecordFailure, ReleaseQuery
    <3> QED BY <3>1 DEF Past
  <2> QED BY <2>1, <2>2
<1>4. \A w \in Workers : w > started => queue'[w] = queue[w]
  <2>1. CASE SubmitQuery(t)
    <3>1. asked[t] = started BY <2>1 DEF SubmitQuery, Past
    <3>2. queue' = [queue EXCEPT ![started] = @ \o <<Op("query")>>]
      BY <2>1, <3>1 DEF SubmitQuery, Submit
    <3>3. \A w \in Workers : w > started => w # started BY <1>2 DEF Workers
    <3> QED BY <3>2, <3>3 DEF Typed
  <2>2. CASE ~SubmitQuery(t)
    BY <2>2 DEF QueryStep, ReadWorker, MarkPending, WatchQuery, CheckWorker, RecordModes,
                RecordMissing, RecordFailure, ReleaseQuery
  <2> QED BY <2>1, <2>2
<1>5. \A w \in Workers : at[w] \in {"off", "exited"} => step'[w] = "none"
  BY <1>1, <1>2 DEF Past, Threads
<1>6. \A u \in Threads : step'[u] \notin {"none", "read"} => asked'[u] = started
  BY <1>1, <1>3 DEF Past
<1>7. started # 0 BY <1>2 DEF Workers
<1> QED BY <1>1, <1>4, <1>5, <1>6, <1>7 DEF Past

LEMMA PastWorker ==
  ASSUME Typed, Past, NEW w \in Workers, WorkerStep(w) \/ FollowFocus(w)
  PROVE  Past'
<1> USE DEF GoTo, driverVars, threadVars, workerVars, libraryVars, imageVars, frameVars, counters
<1>1. w = started /\ w # 0 BY NewestMoves DEF Workers
<1>2. UNCHANGED <<started, main, current, image>>
  BY DEF WorkerStep, TakeItem, RunSetup, RunShow, RunQuery, EnterCallback, RenderFrame, KeepFrame,
         FollowFocus
<1>3. /\ \A v \in Workers \ {w} : at'[v] = at[v] /\ queue'[v] = queue[v] /\ item'[v] = item[v]
      /\ \A u \in Threads \ {w} : step'[u] = step[u] /\ asked'[u] = asked[u]
      /\ at'[w] \in {"off", "exited"} => step'[w] = "none"
      /\ step'[w] \notin {"none", "read"} => asked'[w] = w
  <2>1. w \in Threads BY DEF Threads
  <2>2. CASE TakeItem(w)
    BY <2>1, <2>2 DEF TakeItem, Free, Typed, TypeOK
  <2>3. CASE RunSetup(w) \/ EnterCallback(w) \/ KeepFrame(w) \/ FollowFocus(w) \/ RunShow(w)
    <3>1. UNCHANGED <<step, asked, queue>>
      BY <2>3 DEF RunSetup, EnterCallback, KeepFrame, FollowFocus, RunShow
    <3>2. /\ \E place \in {"loop", "enter", "dispatch"} : at' = [at EXCEPT ![w] = place]
          /\ item' = item \/ item' = [item EXCEPT ![w] = None]
      BY <2>3 DEF RunSetup, EnterCallback, KeepFrame, FollowFocus, RunShow, Done, Continue
    <3>3. /\ at'[w] \notin {"off", "exited"}
          /\ \A v \in Workers \ {w} : at'[v] = at[v] /\ item'[v] = item[v]
      BY <3>2 DEF Typed, TypeOK
    <3> QED BY <1>1, <2>1, <3>1, <3>3 DEF Past
  <2>4. CASE RunQuery(w)
    BY <1>1, <2>1, <2>4 DEF RunQuery, Done, Typed, TypeOK, Past
  <2>5. CASE RenderFrame(w)
    BY <2>1, <2>5 DEF RenderFrame, Typed, TypeOK
  <2> QED BY <2>2, <2>3, <2>4, <2>5 DEF WorkerStep
<1>4. \A v \in Workers : v > started => v # w BY <1>1 DEF Workers
<1>5. \A v \in Workers : v # started => at'[v] \in {"off", "exited"} BY <1>1, <1>3 DEF Past
<1>6. \A v \in Workers : at'[v] \in {"off", "exited"} => step'[v] = "none"
  BY <1>3 DEF Past, Threads
<1>7. \A v \in Workers : v > started => at'[v] = "off" /\ queue'[v] = <<>> /\ item'[v] = None
  BY <1>3, <1>4 DEF Past
<1>8. \A u \in Threads : step'[u] \notin {"none", "read"} => asked'[u] = started
  BY <1>1, <1>3 DEF Past
<1> QED BY <1>1, <1>2, <1>5, <1>6, <1>7, <1>8 DEF Past

(* A session starts with every thread at rest: the main thread is idle and *)
(* the worker before has exited.                                           *)
LEMMA AtRest ==
  ASSUME MaxSessions = 1 \/ ~Timeouts, Typed, Past, StartWorker
  PROVE  /\ \A t \in Threads : step[t] = "none"
         /\ \A w \in Workers : at[w] \in {"off", "exited"}
         /\ New \in Workers /\ New > started /\ started \in Nat
<1>1. /\ step[0] = "none" /\ started < MaxSessions /\ started \in 0 .. MaxSessions
      /\ started > 0 /\ ~Timeouts => at[started] = "exited"
  BY DEF StartWorker, Idle, Main, Typed, TypeOK
<1>2. New \in Workers /\ New > started /\ started \in Nat
  BY <1>1, BoundAssumption DEF New, Workers
<1>3. ASSUME NEW w \in Workers PROVE at[w] \in {"off", "exited"}
  <2>1. CASE w # started BY <2>1 DEF Past
  <2>2. CASE w = started
    <3>1. started > 0 BY <2>2 DEF Workers
    <3>2. MaxSessions # 1 BY <1>1, <3>1
    <3> QED BY <1>1, <2>2, <3>1, <3>2
  <2> QED BY <2>1, <2>2
<1>4. \A t \in Threads : step[t] = "none" BY <1>1, <1>3 DEF Threads, Main, Past
<1> QED BY <1>2, <1>3, <1>4

LEMMA PastMain ==
  ASSUME MaxSessions = 1 \/ ~Timeouts, Typed, Past, MainStep
  PROVE  Past'
<1> USE DEF GoTo, driverVars, threadVars, workerVars, libraryVars, imageVars, frameVars, counters
<1>1. started \in 0 .. MaxSessions /\ started \in Nat BY BoundAssumption DEF Typed, TypeOK
<1>2. CASE StartWorker
  <2>1. /\ \A t \in Threads : step[t] = "none"
        /\ \A w \in Workers : at[w] \in {"off", "exited"}
        /\ New \in Workers /\ New > started
    BY <1>2, AtRest
  <2>2. /\ started' = New /\ main' = "setup" /\ at' = [at EXCEPT ![New] = "loop"] /\ current = 0
        /\ UNCHANGED <<current, step, asked, item, image, unsettled, posted>>
        /\ Submit(New, <<Op("setup")>>)
    BY <1>2 DEF StartWorker
  <2>3. \A w \in Workers \ {New} : at'[w] = at[w] /\ queue'[w] = queue[w]
    BY <2>2 DEF Submit, Typed, TypeOK
  <2>4. \A w \in Workers : w > New => w # New /\ w > started BY <1>1 DEF New, Workers
  <2>5. New # 0 BY <2>1 DEF Workers
  <2>6. image = 0 BY <2>2 DEF Past
  <2>7. \A w \in Workers : w > New => at'[w] = "off" /\ queue'[w] = <<>> /\ item'[w] = None
    BY <2>2, <2>3, <2>4 DEF Past
  <2> QED BY <2>1, <2>2, <2>3, <2>5, <2>6, <2>7 DEF Past, Threads
<1>3. CASE ~StartWorker
  <2>1. started \in Workers /\ started # 0 BY <1>3, NewestMoves DEF Workers
  <2>2. UNCHANGED <<started, asked, at, item>>
    BY <1>3 DEF MainStep, Teardown, FinishSetup, GiveUpSetup, ShowImage, OperationTimesOut,
         NoteOperationFinished, ShowBraille, ShutCallbacks, DrainCallbacks, ClearSession
  <2>3. /\ current' \in {0, started}
        /\ main' \in {"drain", "clear"} => current' # 0
        /\ main' = "setup" => current' = 0
        /\ current' = 0 \/ main' # "idle" => image' = 0
    <3>1. CASE FinishSetup \/ GiveUpSetup BY <2>1, <3>1 DEF FinishSetup, GiveUpSetup, Past
    <3>2. CASE ShowImage \/ ShowBraille BY <3>2 DEF ShowImage, ShowBraille, Idle, Past
    <3>3. CASE OperationTimesOut BY <3>3 DEF OperationTimesOut, Past
    <3>4. CASE NoteOperationFinished BY <3>4 DEF NoteOperationFinished, Idle, Past
    <3>5. CASE ShutCallbacks \/ DrainCallbacks \/ ClearSession
      BY <3>5 DEF ShutCallbacks, DrainCallbacks, ClearSession, Past
    <3> QED BY <1>3, <3>1, <3>2, <3>3, <3>4, <3>5 DEF MainStep, Teardown
  <2>4. UNCHANGED step \/ step' = [step EXCEPT ![0] = "read"]
    BY <1>3 DEF MainStep, Teardown, FinishSetup, GiveUpSetup, ShowImage, OperationTimesOut,
         NoteOperationFinished, ShowBraille, ShutCallbacks, DrainCallbacks, ClearSession, Main
  <2>5. \A w \in Workers \ {started} : queue'[w] = queue[w]
    <3>1. UNCHANGED queue \/ \E v \in {0, started} : \E items : Submit(v, items)
      <4>1. CASE FinishSetup \/ GiveUpSetup BY <4>1 DEF FinishSetup, GiveUpSetup
      <4>2. CASE ShowImage \/ ShowBraille \/ ClearSession
        <5>1. current \in {0, started} BY DEF Past
        <5> QED BY <4>2, <5>1 DEF ShowImage, ShowBraille, ClearSession
      <4>3. CASE OperationTimesOut \/ NoteOperationFinished \/ ShutCallbacks \/ DrainCallbacks
        BY <4>3 DEF OperationTimesOut, NoteOperationFinished, ShutCallbacks, DrainCallbacks
      <4> QED BY <1>3, <4>1, <4>2, <4>3 DEF MainStep, Teardown
    <3>2. \A v \in {0, started} : v \in Workers => v = started BY DEF Workers
    <3> QED BY <3>1, <3>2 DEF Submit, Typed
  <2>6. 0 \notin Workers BY DEF Workers
  <2>7. \A w \in Workers : step'[w] = step[w] BY <2>4, <2>6, StepType DEF Threads
  <2>8. ASSUME NEW t \in Threads, step'[t] \notin {"none", "read"} PROVE step'[t] = step[t]
    BY <2>4, <2>8, StepType
  <2>9. /\ \A w \in Workers : w # started => at'[w] \in {"off", "exited"}
        /\ \A w \in Workers : at'[w] \in {"off", "exited"} => step'[w] = "none"
    BY <2>2, <2>7 DEF Past
  <2>10. \A w \in Workers : w > started => at'[w] = "off" /\ queue'[w] = <<>> /\ item'[w] = None
    <3>1. \A w \in Workers : w > started => w # started BY <1>1 DEF Workers
    <3> QED BY <2>2, <2>5, <3>1 DEF Past
  <2>11. \A t \in Threads : step'[t] \notin {"none", "read"} => asked'[t] = started
    BY <2>2, <2>8 DEF Past
  <2> QED BY <2>1, <2>2, <2>3, <2>9, <2>10, <2>11 DEF Past
<1> QED BY <1>2, <1>3

LEMMA PastNext ==
  ASSUME MaxSessions = 1 \/ ~Timeouts PROVE Typed /\ Past /\ [Next]_vars => Past'
<1> SUFFICES ASSUME Typed, Past, [Next]_vars PROVE Past' OBVIOUS
<1>1. CASE Next BY <1>1, PastQuery, PastWorker, PastMain DEF Next
<1>2. CASE UNCHANGED vars
  BY <1>2 DEF vars, driverVars, threadVars, workerVars, libraryVars, imageVars, frameVars, counters,
              Past
<1> QED BY <1>1, <1>2

LEMMA PastAlways == ASSUME MaxSessions = 1 \/ ~Timeouts PROVE Spec => []Past
BY PastInit, PastNext, TypedAlways, PTL DEF Spec

-----------------------------------------------------------------------------
(* Which query is outstanding at the newest worker, and who reports it.    *)

(* A query is in the worker's queue or run.                                *)
Query(w) == Queued(w, "query") \/ Holds(w, "query")

(* The thread is at a query, other than to ask whether it needs one.       *)
Busy(t) == step[t] \in {"submit", "watch", "check", "record", "release"}

(* The session is being set up: nobody has asked for anything in it.       *)
Untouched(w) ==
  /\ \A t \in Threads : step[t] = "none"
  /\ at[w] \notin {"dispatch", "enter", "render"}
  /\ at[w] = "run" => item[w] = Op("setup")
  /\ \A i \in 1 .. Len(queue[w]) : queue[w][i] = Op("setup")

(* The worker's thread asks for the mode while it renders a frame, or      *)
(* after it has reported one; a query of its own cannot run meanwhile.     *)
Stations(w) ==
  /\ at[w] \in {"run", "dispatch", "enter"} => step[w] = "none"
  /\ at[w] = "render" => step[w] \notin {"check", "record", "release"}
  /\ step[w] = "watch" => ~future[w].done

Unique(w) ==
  \A i, j \in 1 .. Len(queue[w]) :
    queue[w][i].op = "query" => ~Holds(w, "query") /\ (queue[w][j].op = "query" => i = j)

(* A query that is outstanding is marked in pending, and there is at most  *)
(* one; a query in the queue has somebody who will report it.              *)
Single(w) ==
  /\ Query(w) \/ (\E t \in Threads : Busy(t)) => pending
  /\ \A t, u \in Threads : Busy(t) /\ Busy(u) => t = u
  /\ Query(w) => ~future[w].done /\ (future[w].watched \/ \E t \in Threads : Busy(t))
  /\ Query(w) => \A t \in Threads : Busy(t) => step[t] = "watch"
  /\ \A t \in Threads :
       /\ step[t] = "watch" => ~future[w].watched /\ (future[w].done \/ Query(w))
       /\ step[t] \in {"check", "record"} => future[w].done
  /\ Unique(w)

Session(w) ==
  /\ main = "setup" => Untouched(w)
  /\ Stations(w)
  /\ current # 0 => Single(w)

Newest == \A w \in Workers : w = started => Session(w)

(* The mark in pending is the session's own.  A request that was overtaken *)
(* by a teardown can leave it set for the session after, where no query    *)
(* belongs to it.                                                          *)
Genuine(w) == pending => Query(w) \/ \E t \in Threads : Busy(t)
StaysGenuine(w) == current # 0 /\ current' # 0 /\ Genuine(w) => Genuine(w)'

(* What an item more in the queue changes. *)
LEMMA QueryAppended ==
  ASSUME Typed, NEW w \in Workers, NEW x \in Items, Submit(w, <<x>>), UNCHANGED <<at, item>>
  PROVE  /\ x.op # "query" => (Query(w)' <=> Query(w)) /\ (Unique(w) => Unique(w)')
         /\ x.op = "query" => Query(w)' /\ (~Query(w) => Unique(w)')
         /\ \A i \in 1 .. Len(queue'[w]) : queue'[w][i] = x
              \/ (i \in 1 .. Len(queue[w]) /\ queue'[w][i] = queue[w][i])
<1>1. queue[w] \in Seq(Items) /\ queue'[w] = queue[w] \o <<x>>
  BY DEF Typed, TypeOK, Submit
<1>2. /\ Len(queue[w]) \in Nat /\ Len(queue'[w]) = Len(queue[w]) + 1
      /\ queue'[w][Len(queue[w]) + 1] = x
      /\ \A i \in 1 .. Len(queue[w]) : queue'[w][i] = queue[w][i]
      /\ DOMAIN queue[w] = 1 .. Len(queue[w]) /\ DOMAIN queue'[w] = 1 .. Len(queue'[w])
  BY <1>1
<1>3. Holds(w, "query")' <=> Holds(w, "query") BY DEF Holds
<1>4. Queued(w, "query") <=> \E i \in 1 .. Len(queue[w]) : queue[w][i].op = "query"
  BY <1>2 DEF Queued
<1>5. Queued(w, "query")' <=> \E i \in 1 .. Len(queue'[w]) : queue'[w][i].op = "query"
  BY <1>2 DEF Queued
<1>6. \A i \in 1 .. Len(queue'[w]) : i = Len(queue[w]) + 1 \/ i \in 1 .. Len(queue[w])
  BY <1>2
<1>7. /\ Len(queue[w]) + 1 \in 1 .. Len(queue'[w])
      /\ \A i \in 1 .. Len(queue[w]) : i \in 1 .. Len(queue'[w])
  BY <1>2
<1>8. Queued(w, "query")' <=> Queued(w, "query") \/ x.op = "query"
  BY <1>2, <1>4, <1>5, <1>6, <1>7
<1>9. x.op # "query" => (Unique(w) => Unique(w)')
  BY <1>2, <1>3, <1>6 DEF Unique
<1>10. x.op = "query" => (~Query(w) => Unique(w)')
  BY <1>2, <1>3, <1>4, <1>6 DEF Unique, Query
<1>11. \A i \in 1 .. Len(queue'[w]) : queue'[w][i] = x
         \/ (i \in 1 .. Len(queue[w]) /\ queue'[w][i] = queue[w][i])
  <2> SUFFICES ASSUME NEW i \in 1 .. Len(queue'[w])
               PROVE  queue'[w][i] = x \/ (i \in 1 .. Len(queue[w]) /\ queue'[w][i] = queue[w][i])
    OBVIOUS
  <2>1. CASE i = Len(queue[w]) + 1 BY <1>2, <2>1
  <2>2. CASE i \in 1 .. Len(queue[w]) BY <1>2, <2>2
  <2> QED BY <1>6, <2>1, <2>2
<1> HIDE DEF Holds, Queued, Unique
<1> QED BY <1>3, <1>8, <1>9, <1>10, <1>11 DEF Query

(* Taking an item from the queue makes no difference to what is asked.     *)
LEMMA QueryTaken ==
  ASSUME Typed, NEW w \in Workers, TakeItem(w)
  PROVE  /\ Query(w)' <=> Query(w)
         /\ Unique(w) => Unique(w)'
         /\ \A i \in 1 .. Len(queue'[w]) :
              i + 1 \in 1 .. Len(queue[w]) /\ queue'[w][i] = queue[w][i + 1]
         /\ 1 \in 1 .. Len(queue[w]) /\ item'[w] = queue[w][1]
<1>1. /\ queue[w] \in Seq(Items) /\ queue[w] # <<>> /\ queue'[w] = Tail(queue[w])
      /\ item'[w] = Head(queue[w]) /\ at[w] = "loop"
      /\ at'[w] = IF Head(queue[w]).op = "stop" THEN "exited" ELSE "run"
  BY DEF Typed, TypeOK, TakeItem, Free
<1>2. /\ Len(queue[w]) \in Nat \ {0} /\ Len(queue'[w]) = Len(queue[w]) - 1
      /\ \A i \in 1 .. Len(queue'[w]) : queue'[w][i] = queue[w][i + 1]
      /\ Head(queue[w]) = queue[w][1]
      /\ DOMAIN queue[w] = 1 .. Len(queue[w]) /\ DOMAIN queue'[w] = 1 .. Len(queue'[w])
  BY <1>1
<1>3. ~Holds(w, "query") /\ (Holds(w, "query")' <=> queue[w][1].op = "query")
  BY <1>1, <1>2 DEF Holds
<1>4. Queued(w, "query") <=> \E i \in 1 .. Len(queue[w]) : queue[w][i].op = "query"
  BY <1>2 DEF Queued
<1>5. Queued(w, "query")' <=> \E i \in 1 .. Len(queue'[w]) : queue'[w][i].op = "query"
  BY <1>2 DEF Queued
<1>6. /\ \A i \in 1 .. Len(queue'[w]) : i + 1 \in 1 .. Len(queue[w]) /\ i + 1 # 1
      /\ \A i \in 1 .. Len(queue[w]) : i = 1 \/ (i - 1 \in 1 .. Len(queue'[w]) /\ i = (i - 1) + 1)
      /\ 1 \in 1 .. Len(queue[w])
  BY <1>2
<1>7. Query(w)' <=> Query(w)
  <2>1. Queued(w, "query") <=> queue[w][1].op = "query" \/ Queued(w, "query")'
    <3>1. ASSUME NEW i \in 1 .. Len(queue[w]), queue[w][i].op = "query", i # 1
          PROVE  Queued(w, "query")'
      <4>1. i - 1 \in 1 .. Len(queue'[w]) /\ queue'[w][i - 1] = queue[w][i]
        BY <1>2, <1>6, <3>1
      <4> QED BY <1>5, <3>1, <4>1
    <3>2. ASSUME NEW i \in 1 .. Len(queue'[w]), queue'[w][i].op = "query"
          PROVE  Queued(w, "query")
      BY <1>2, <1>4, <1>6, <3>2
    <3> QED BY <1>4, <1>5, <1>6, <3>1, <3>2
  <2> QED BY <1>3, <2>1 DEF Query
<1>8. Unique(w) => Unique(w)'
  <2> SUFFICES ASSUME Unique(w), NEW i \in 1 .. Len(queue'[w]), queue'[w][i].op = "query",
                      NEW j \in 1 .. Len(queue'[w])
               PROVE  ~Holds(w, "query")' /\ (queue'[w][j].op = "query" => i = j)
    BY DEF Unique
  <2>1. i + 1 \in 1 .. Len(queue[w]) /\ queue[w][i + 1].op = "query" /\ i + 1 # 1
    BY <1>2, <1>6
  <2>2. ~(queue[w][1].op = "query") BY <1>6, <2>1 DEF Unique
  <2>3. queue'[w][j].op = "query" => i + 1 = j + 1 BY <1>2, <1>6, <2>1 DEF Unique
  <2> QED BY <1>3, <2>2, <2>3
<1> QED BY <1>1, <1>2, <1>6, <1>7, <1>8

(* The worker is done with an item, or goes on with one, that is no query. *)
LEMMA QueryKept ==
  ASSUME Typed, NEW w \in Workers, UNCHANGED queue, ~Holds(w, "query"), at'[w] # "run"
  PROVE  (Query(w)' <=> Query(w)) /\ (Unique(w) => Unique(w)')
BY DEF Query, Queued, Holds, Unique

LEMMA SessionQuery ==
  ASSUME Typed, Past, NEW w \in Workers, w = started,
         Session(w), NEW t \in Threads, QueryStep(t)
  PROVE  Session(w)' /\ StaysGenuine(w)
<1> USE DEF GoTo, driverVars, threadVars, workerVars, libraryVars, imageVars, frameVars, counters
<1>1. /\ step[t] # "none" /\ main # "setup" /\ UNCHANGED <<main, started, current, at, item>>
      /\ step' \in [Threads -> Steps] /\ \A u \in Threads \ {t} : step'[u] = step[u]
  <2>1. step[t] # "none"
    BY DEF QueryStep, ReadWorker, MarkPending, SubmitQuery, WatchQuery, CheckWorker, RecordModes,
           RecordMissing, RecordFailure, ReleaseQuery
  <2>2. UNCHANGED <<main, started, current, at, item>>
    BY DEF QueryStep, ReadWorker, MarkPending, SubmitQuery, WatchQuery, CheckWorker, RecordModes,
           RecordMissing, RecordFailure, ReleaseQuery
  <2>3. step' \in [Threads -> Steps] BY TypedQuery, AtWork DEF Typed, TypeOK
  <2>4. \A u \in Threads \ {t} : step'[u] = step[u]
    BY DEF QueryStep, ReadWorker, MarkPending, SubmitQuery, WatchQuery, CheckWorker, RecordModes,
           RecordMissing, RecordFailure, ReleaseQuery, Typed, TypeOK
  <2> QED BY <2>1, <2>2, <2>3, <2>4 DEF Session, Untouched
<1>2. main' # "setup" BY <1>1
<1>3. ASSUME ~SubmitQuery(t) PROVE UNCHANGED queue
  BY <1>3 DEF QueryStep, ReadWorker, MarkPending, WatchQuery, CheckWorker, RecordModes,
              RecordMissing, RecordFailure, ReleaseQuery
<1>4. ASSUME UNCHANGED queue PROVE (Query(w)' <=> Query(w)) /\ (Unique(w)' <=> Unique(w))
  BY <1>1, <1>4 DEF Query, Queued, Holds, Unique
<1>5. /\ asked[t] = w \/ step[t] = "read"
      /\ Stations(w) /\ (current # 0 => Single(w))
  BY <1>1, AtWork DEF Session
<1>6. CASE ReadWorker(t)
  <2>1. step'[t] \in {"none", "lock"} /\ step[t] = "read" /\ UNCHANGED <<future, pending, queue>>
    BY <1>6, <1>1, AtWork DEF ReadWorker
  <2>2. \A u \in Threads : Busy(u)' <=> Busy(u) BY <1>1, <2>1 DEF Busy
  <2>3. Stations(w)' BY <1>1, <1>5, <2>1, AtWork DEF Stations
  <2>4. current # 0 => Single(w)' /\ (Genuine(w) => Genuine(w)')
    BY <1>1, <1>4, <1>5, <2>1, <2>2 DEF Single, Genuine, Busy
  <2> QED BY <1>1, <1>2, <2>3, <2>4 DEF Session, StaysGenuine
<1>7. CASE MarkPending(t)
  <2>1. /\ step'[t] = (IF pending THEN "none" ELSE "submit") /\ step[t] = "lock"
        /\ pending' = TRUE /\ UNCHANGED <<future, queue>>
    BY <1>7, AtWork DEF MarkPending, Typed, TypeOK
  <2>2. Stations(w)' BY <1>1, <1>5, <2>1, AtWork DEF Stations
  <2>3. ASSUME current # 0 PROVE Single(w)' /\ (Genuine(w) => Genuine(w)')
    <3>1. CASE pending
      <4>1. \A u \in Threads : (Busy(u)' <=> Busy(u)) /\ (Busy(u) => step'[u] = step[u])
        BY <1>1, <2>1, <3>1 DEF Busy
      <4>2. \A u \in Threads : step'[u] \in {"watch", "check", "record"} => step[u] = step'[u]
        BY <1>1, <2>1, <3>1
      <4> QED BY <1>4, <1>5, <2>1, <2>3, <3>1, <4>1, <4>2 DEF Single, Genuine
    <3>2. CASE ~pending
      <4>1. ~Query(w) /\ \A u \in Threads : ~Busy(u) BY <1>5, <2>3, <3>2 DEF Single, Genuine
      <4>2. \A u \in Threads : Busy(u)' <=> u = t BY <1>1, <2>1, <3>2, <4>1 DEF Busy
      <4>3. \A u \in Threads : step'[u] \notin {"watch", "check", "record"}
        BY <1>1, <2>1, <3>2, <4>1 DEF Busy
      <4> QED BY <1>4, <1>5, <2>1, <2>3, <4>1, <4>2, <4>3 DEF Single, Genuine
    <3> QED BY <3>1, <3>2
  <2> QED BY <1>1, <1>2, <2>2, <2>3 DEF Session, StaysGenuine
<1>8. CASE SubmitQuery(t)
  <2>1. /\ step'[t] = "watch" /\ step[t] = "submit" /\ Submit(w, <<Op("query")>>)
        /\ ~future'[w].done /\ ~future'[w].watched /\ UNCHANGED pending
    BY <1>5, <1>8, AtWork DEF SubmitQuery, NoFuture, Typed, TypeOK
  <2>2. Op("query") \in Items /\ Op("query").op = "query"
    BY BoundAssumption DEF Op, Items, Images
  <2>3. Query(w)' /\ (~Query(w) => Unique(w)') BY <1>1, <2>1, <2>2, QueryAppended
  <2>4. Stations(w)' BY <1>1, <1>5, <2>1, AtWork DEF Stations
  <2>5. ASSUME current # 0 PROVE Single(w)' /\ (Genuine(w) => Genuine(w)')
    <3>1. Busy(t) /\ ~Query(w) /\ pending BY <1>5, <2>1, <2>5 DEF Single, Genuine, Busy
    <3>2. \A u \in Threads : (Busy(u) => u = t) /\ (Busy(u)' => u = t)
      BY <1>1, <1>5, <2>5, <3>1 DEF Single, Genuine, Busy
    <3>3. Busy(t)' BY <2>1 DEF Busy
    <3>4. \A u \in Threads : step'[u] \in {"watch", "check", "record"} => u = t
      BY <3>2 DEF Busy
    <3> QED BY <2>1, <2>3, <3>1, <3>2, <3>3, <3>4 DEF Single, Genuine
  <2> QED BY <1>1, <1>2, <2>4, <2>5 DEF Session, StaysGenuine
<1>9. CASE WatchQuery(t)
  <2>1. /\ step[t] = "watch" /\ UNCHANGED <<pending, queue>>
        /\ future'[w].done = future[w].done
        /\ \/ future[w].done /\ step'[t] = "check" /\ UNCHANGED future
           \/ ~future[w].done /\ step'[t] = "none" /\ future'[w].watched
    <3>1. future[w] \in Futures /\ asked[t] = w BY <1>5, <1>9, AtWork DEF WatchQuery
    <3>2. \/ UNCHANGED future
          \/ /\ future'[w].watched = TRUE /\ future'[w].done = future[w].done
      <4>1. UNCHANGED future \/ future' = [future EXCEPT ![w].watched = TRUE]
        BY <1>9, <3>1 DEF WatchQuery
      <4>2. UNCHANGED future \/ future'[w] = [future[w] EXCEPT !.watched = TRUE]
        BY <4>1, AtWork
      <4>3. CASE future'[w] = [future[w] EXCEPT !.watched = TRUE] BY <3>1, <4>3 DEF Futures
      <4> QED BY <4>2, <4>3
    <3>3. step[t] = "watch" /\ UNCHANGED <<pending, queue>>
          /\ step'[t] = IF future[w].done THEN "check" ELSE "none"
      BY <1>9, <3>1, AtWork DEF WatchQuery
    <3>4. ~future[w].done => future'[w].watched = TRUE
      BY <1>9, <3>1, AtWork DEF WatchQuery, Futures
    <3>5. future[w].done => UNCHANGED future BY <1>9, <3>1 DEF WatchQuery
    <3> QED BY <3>2, <3>3, <3>4, <3>5
  <2>2. Stations(w)' BY <1>1, <1>5, <2>1, AtWork DEF Stations
  <2>3. ASSUME current # 0 PROVE Single(w)' /\ (Genuine(w) => Genuine(w)')
    <3>1. Busy(t) /\ pending /\ (future[w].done <=> ~Query(w))
      BY <1>5, <2>1, <2>3 DEF Single, Genuine, Busy
    <3>2. \A u \in Threads : (Busy(u) => u = t) /\ (Busy(u)' => u = t)
      BY <1>1, <1>5, <2>3, <3>1 DEF Single, Genuine, Busy
    <3>3. \A u \in Threads : step'[u] \in {"watch", "check", "record"} => u = t /\ Busy(u)'
      BY <3>2 DEF Busy
    <3>4. Busy(t)' <=> future[w].done BY <2>1 DEF Busy
    <3>5. (Query(w)' <=> Query(w)) /\ Unique(w)' BY <1>4, <1>5, <2>1, <2>3 DEF Single, Genuine
    <3> QED BY <2>1, <3>1, <3>2, <3>3, <3>4, <3>5 DEF Single, Genuine
  <2> QED BY <1>1, <1>2, <2>2, <2>3 DEF Session, StaysGenuine
<1>10. CASE CheckWorker(t)
  <2>1. /\ step[t] = "check" /\ UNCHANGED <<pending, queue, future>>
        /\ step'[t] \in {"none", "record"} /\ (current # 0 => step'[t] = "record")
    <3>1. step[t] = "check" /\ UNCHANGED <<pending, queue, future>> BY <1>10 DEF CheckWorker
    <3>2. step' = [step EXCEPT ![t] = IF asked[t] # current THEN "none" ELSE "record"]
      BY <1>10 DEF CheckWorker
    <3>3. asked[t] = w BY <1>5, <3>1
    <3>4. step'[t] = IF asked[t] # current THEN "none" ELSE "record" BY <3>2, StepType
    <3> QED BY <3>1, <3>3, <3>4, AtWork
  <2>2. Stations(w)' BY <1>1, <1>5, <2>1, AtWork DEF Stations
  <2>3. ASSUME current # 0 PROVE Single(w)' /\ (Genuine(w) => Genuine(w)')
    <3>1. Busy(t) /\ future[w].done /\ ~Query(w) BY <1>5, <2>1, <2>3 DEF Single, Genuine, Busy
    <3>2. \A u \in Threads : Busy(u)' <=> Busy(u) BY <1>1, <2>1, <2>3 DEF Busy
    <3>3. \A u \in Threads : step'[u] = "watch" => step[u] = "watch" BY <1>1, <2>1, <2>3
    <3> QED BY <1>4, <1>5, <2>1, <2>3, <3>1, <3>2, <3>3 DEF Single, Genuine
  <2> QED BY <1>1, <1>2, <2>2, <2>3 DEF Session, StaysGenuine
<1>11. CASE RecordModes(t) \/ RecordFailure(t)
  <2>1. /\ step[t] = "record" /\ UNCHANGED <<pending, queue, future>> /\ step'[t] = "release"
    BY <1>11, AtWork DEF RecordModes, RecordFailure
  <2>2. Stations(w)' BY <1>1, <1>5, <2>1, AtWork DEF Stations
  <2>3. ASSUME current # 0 PROVE Single(w)' /\ (Genuine(w) => Genuine(w)')
    <3>1. Busy(t) /\ ~Query(w) BY <1>5, <2>1, <2>3 DEF Single, Genuine, Busy
    <3>2. \A u \in Threads : Busy(u)' <=> Busy(u) BY <1>1, <2>1 DEF Busy
    <3>3. \A u \in Threads : step'[u] \in {"watch", "check", "record"} => step[u] = step'[u]
      BY <1>1, <2>1
    <3> QED BY <1>4, <1>5, <2>1, <2>3, <3>1, <3>2, <3>3 DEF Single, Genuine
  <2> QED BY <1>1, <1>2, <2>2, <2>3 DEF Session, StaysGenuine
<1>12. CASE RecordMissing(t) \/ ReleaseQuery(t)
  <2>1. /\ step[t] \in {"record", "release"} /\ UNCHANGED <<queue, future>>
        /\ step'[t] \in {"none", "read"} /\ pending' = FALSE
    BY <1>12, AtWork DEF RecordMissing, ReleaseQuery
  <2>2. Stations(w)' BY <1>1, <1>5, <2>1, AtWork DEF Stations
  <2>3. ASSUME current # 0 PROVE Single(w)' /\ (Genuine(w) => Genuine(w)')
    <3>1. Busy(t) /\ ~Query(w) BY <1>5, <2>1, <2>3 DEF Single, Genuine, Busy
    <3>2. \A u \in Threads : Busy(u) => u = t BY <1>5, <2>3, <3>1 DEF Single, Genuine
    <3>3. \A u \in Threads : ~Busy(u)' /\ step'[u] \notin {"watch", "check", "record"}
      BY <1>1, <2>1, <3>2 DEF Busy
    <3> QED BY <1>4, <1>5, <2>1, <2>3, <3>1, <3>3 DEF Single, Genuine
  <2> QED BY <1>1, <1>2, <2>2, <2>3 DEF Session, StaysGenuine
<1> QED BY <1>6, <1>7, <1>8, <1>9, <1>10, <1>11, <1>12 DEF QueryStep

LEMMA SessionWorker ==
  ASSUME Typed, Past, NEW w \in Workers, w = started, Session(w), WorkerStep(w) \/ FollowFocus(w)
  PROVE  Session(w)' /\ StaysGenuine(w)
<1> USE DEF GoTo, driverVars, threadVars, workerVars, libraryVars, imageVars, frameVars, counters
<1>1. UNCHANGED <<main, started, current, pending, unsupported>>
  BY DEF WorkerStep, TakeItem, RunSetup, RunShow, RunQuery, EnterCallback, RenderFrame, KeepFrame,
         FollowFocus
<1>2. Stations(w) /\ (current # 0 => Single(w)) /\ (main = "setup" => Untouched(w)) BY DEF Session
<1>3. CASE TakeItem(w)
  <2>1. /\ UNCHANGED <<step, future>>
        /\ step[w] = "none" /\ at'[w] \in {"run", "exited"}
    BY <1>3, AtWork DEF TakeItem, Free
  <2>2. /\ (Query(w)' <=> Query(w)) /\ (Unique(w) => Unique(w)')
        /\ \A i \in 1 .. Len(queue'[w]) : i + 1 \in 1 .. Len(queue[w]) /\ queue'[w][i] = queue[w][i + 1]
        /\ 1 \in 1 .. Len(queue[w]) /\ item'[w] = queue[w][1]
    BY <1>3, QueryTaken
  <2>3. Stations(w)' BY <1>2, <2>1, AtWork DEF Stations
  <2>4. Untouched(w) => Untouched(w)' BY <1>1, <2>1, <2>2 DEF Untouched
  <2>5. Single(w) => Single(w)' /\ (Genuine(w) => Genuine(w)')
    BY <1>1, <2>1, <2>2 DEF Single, Genuine, Busy
  <2> QED BY <1>1, <1>2, <2>3, <2>4, <2>5 DEF Session, StaysGenuine
<1>4. CASE RunQuery(w)
  <2>1. /\ at[w] = "run" /\ item[w].op = "query" /\ UNCHANGED queue /\ at'[w] = "loop"
        /\ future'[w].done /\ future'[w].watched = future[w].watched
        /\ step[w] = "none"
        /\ step' = IF future[w].watched THEN [step EXCEPT ![w] = "check"] ELSE step
    BY <1>2, <1>4, AtWork DEF RunQuery, Done, Futures, Stations
  <2>2. Holds(w, "query") /\ main # "setup" BY <1>2, <2>1 DEF Holds, Untouched, Op
  <2>3. ~Holds(w, "query")' BY <2>1 DEF Holds
  <2>4. \A u \in Threads : u # w => step'[u] = step[u] BY <2>1, AtWork
  <2>5. step'[w] = IF future[w].watched THEN "check" ELSE "none" BY <2>1, AtWork
  <2>6. Stations(w)' BY <1>2, <2>1, <2>5 DEF Stations
  <2>7. ASSUME current # 0 PROVE Single(w)' /\ (Genuine(w) => Genuine(w)')
    <3>1. Single(w) /\ Query(w) /\ pending BY <1>2, <2>2, <2>7 DEF Single, Query
    <3>2. ~Queued(w, "query")
      <4>1. DOMAIN queue[w] = 1 .. Len(queue[w]) BY AtWork
      <4> QED BY <2>2, <3>1, <4>1 DEF Single, Unique, Queued
    <3>3. ~Query(w)' /\ Unique(w)'
      <4>1. Queued(w, "query")' <=> Queued(w, "query") BY <2>1 DEF Queued
      <4> QED BY <2>1, <2>3, <3>1, <3>2, <4>1 DEF Single, Unique, Query
    <3>4. CASE future[w].watched
      <4>1. \A u \in Threads : ~Busy(u) BY <3>1, <3>4 DEF Single
      <4>2. \A u \in Threads : Busy(u)' <=> u = w BY <2>4, <2>5, <3>4, <4>1 DEF Busy
      <4>3. \A u \in Threads : step'[u] # "watch" BY <2>4, <2>5, <3>4, <4>1 DEF Busy
      <4> QED BY <1>1, <2>1, <2>5, <3>1, <3>3, <3>4, <4>2, <4>3, AtWork DEF Single, Genuine
    <3>5. CASE ~future[w].watched
      <4>1. UNCHANGED step BY <2>1, <3>5
      <4> QED BY <1>1, <2>1, <3>1, <3>3, <3>5, <4>1 DEF Single, Genuine, Busy
    <3> QED BY <3>4, <3>5
  <2> QED BY <1>1, <1>2, <2>2, <2>6, <2>7 DEF Session, StaysGenuine
<1>5. CASE RunSetup(w) \/ RunShow(w) \/ EnterCallback(w) \/ RenderFrame(w) \/ KeepFrame(w)
           \/ FollowFocus(w)
  <2>1. /\ UNCHANGED <<queue, future>> /\ at'[w] # "run"
        /\ ~Holds(w, "query")
    BY <1>5, AtWork DEF RunSetup, RunShow, EnterCallback, RenderFrame, KeepFrame, FollowFocus, Done,
                Continue, Holds, Free
  <2>2. (Query(w)' <=> Query(w)) /\ (Unique(w) => Unique(w)') BY <2>1, QueryKept
  <2>3. \/ UNCHANGED step /\ (at'[w] \in {"dispatch", "enter"} => step[w] = "none")
        \/ /\ at[w] = "enter" /\ step' = [step EXCEPT ![w] = "read"] /\ at'[w] = "render"
    BY <1>2, <1>5, AtWork DEF RunSetup, RunShow, EnterCallback, RenderFrame, KeepFrame, FollowFocus,
                Done, Continue, Free, Stations
  <2>4. \A u \in Threads : /\ Busy(u)' <=> Busy(u)
                           /\ step'[u] \in {"watch", "check", "record"} => step'[u] = step[u]
                           /\ Busy(u) => step'[u] = step[u]
    BY <1>2, <2>3, AtWork DEF Busy, Stations
  <2>5. Stations(w)'
    <3>1. at'[w] = "render" => step'[w] \notin {"check", "record", "release"}
      BY <1>2, <1>5, <2>3, AtWork DEF RunSetup, RunShow, EnterCallback, RenderFrame, KeepFrame,
           FollowFocus, Done, Continue, Stations
    <3> QED BY <1>2, <2>1, <2>3, <2>4, <3>1, AtWork DEF Stations
  <2>6. Single(w) => Single(w)' /\ (Genuine(w) => Genuine(w)')
    BY <1>1, <2>1, <2>2, <2>4 DEF Single, Genuine
  <2>7. ASSUME main = "setup" PROVE Untouched(w)'
    <3>1. Untouched(w) /\ current = 0 BY <1>2, <2>7 DEF Past
    <3>2. RunSetup(w)
      BY <1>5, <3>1, AtWork DEF RunShow, EnterCallback, RenderFrame, KeepFrame, FollowFocus,
           Untouched, Op
    <3>3. UNCHANGED step /\ at'[w] = "loop" BY <3>2, AtWork DEF RunSetup, Done
    <3> QED BY <1>1, <2>1, <3>1, <3>3 DEF Untouched
  <2> QED BY <1>1, <1>2, <2>5, <2>6, <2>7 DEF Session, StaysGenuine
<1> QED BY <1>3, <1>4, <1>5 DEF WorkerStep

(* The first steps of a session find nothing of the sessions before it.    *)
LEMMA SessionStart ==
  ASSUME MaxSessions = 1 \/ ~Timeouts, Typed, Past, StartWorker
  PROVE  Newest'
<1> USE DEF threadVars, libraryVars, imageVars, frameVars, driverVars
<1>1. /\ \A t \in Threads : step[t] = "none"
      /\ New \in Workers /\ New > started
  BY AtRest
<1>2. /\ started' = New /\ current' = 0 /\ UNCHANGED step
      /\ at' = [at EXCEPT ![New] = "loop"] /\ Submit(New, <<Op("setup")>>)
  BY DEF StartWorker
<1>3. at'[New] = "loop" BY <1>1, <1>2 DEF Typed, TypeOK
<1>4. \A i \in 1 .. Len(queue'[New]) : queue'[New][i] = Op("setup")
  <2>1. queue[New] = <<>> BY <1>1 DEF Past
  <2>2. queue'[New] = <<>> \o <<Op("setup")>> BY <1>1, <1>2, <2>1 DEF Submit, Typed
  <2>3. queue'[New] = <<Op("setup")>> BY <2>2
  <2> QED BY <2>3
<1>5. SUFFICES ASSUME NEW w \in Workers, w = started' PROVE Session(w)'
  BY DEF Newest
<1>6. w = New /\ w \in Threads BY <1>2, <1>5 DEF Threads
<1>7. Untouched(w)' BY <1>1, <1>2, <1>3, <1>4, <1>6 DEF Untouched
<1>8. Stations(w)' BY <1>1, <1>2, <1>6 DEF Stations
<1> QED BY <1>2, <1>7, <1>8 DEF Session

LEMMA SessionMain ==
  ASSUME Typed, Past, NEW w \in Workers, w = started, Session(w), MainStep, ~StartWorker
  PROVE  Session(w)' /\ StaysGenuine(w)
<1> USE DEF GoTo, driverVars, threadVars, workerVars, libraryVars, imageVars, frameVars, counters
<1>1. Stations(w) /\ (current # 0 => Single(w)) /\ (main = "setup" => Untouched(w)) BY DEF Session
<1>2. \A o \in {"setup", "braille", "stop"} : Op(o) \in Items /\ Op(o).op # "query"
  BY BoundAssumption DEF Op, Items, Images
<1>3. ASSUME NEW o \in {"braille", "stop"}, Submit(w, <<Op(o)>>), UNCHANGED <<at, item>>
      PROVE  (Query(w)' <=> Query(w)) /\ (Unique(w) => Unique(w)')
  BY <1>2, <1>3, QueryAppended
<1>4. CASE FinishSetup
  <2>1. /\ main = "setup" /\ main' = "idle" /\ current = 0
        /\ at[w] = "loop" /\ queue[w] = <<>> /\ step' = [step EXCEPT ![0] = "read"]
        /\ Submit(w, <<Op("braille")>>) /\ UNCHANGED <<pending, at, item, future>>
    BY <1>4, AtWork DEF FinishSetup, SetUp, Past
  <2>2. Untouched(w) BY <1>1, <2>1
  <2>3. ~Query(w) /\ Unique(w) BY <2>1 DEF Query, Queued, Holds, Unique
  <2>4. ~Query(w)' /\ Unique(w)' BY <1>3, <2>1, <2>3
  <2>5. \A u \in Threads : ~Busy(u)' /\ step'[u] \notin {"watch", "check", "record"}
    BY <2>1, <2>2, AtWork DEF Untouched, Busy
  <2>6. Single(w)' BY <2>1, <2>2, <2>4, <2>5 DEF Single
  <2>7. Stations(w)' BY <2>1, <2>2, AtWork DEF Untouched, Stations
  <2> QED BY <2>1, <2>6, <2>7 DEF Session, StaysGenuine
<1>5. CASE GiveUpSetup \/ ClearSession
  <2>1. /\ main' = "idle" /\ current' = 0 /\ UNCHANGED <<at, step, future>>
    BY <1>5 DEF GiveUpSetup, ClearSession, Past
  <2>2. Stations(w)' BY <1>1, <2>1 DEF Stations
  <2> QED BY <2>1, <2>2 DEF Session, StaysGenuine
<1>6. CASE ShowImage \/ ShowBraille \/ NoteOperationFinished
  <2>1. /\ main' = "idle" /\ UNCHANGED <<current, pending, at, item, future>> /\ step[0] = "none"
        /\ \/ UNCHANGED step
           \/ step' = [step EXCEPT ![0] = "read"]
    <3>1. Main = 0 BY DEF Main
    <3>2. CASE ShowImage BY <3>1, <3>2 DEF ShowImage, Idle
    <3>3. CASE ShowBraille BY <3>1, <3>3 DEF ShowBraille, Idle
    <3>4. CASE NoteOperationFinished BY <3>1, <3>4 DEF NoteOperationFinished, Idle
    <3> QED BY <1>6, <3>2, <3>3, <3>4
  <2>2. (Query(w)' <=> Query(w)) /\ (Unique(w) => Unique(w)')
    <3>1. CASE ShowImage
      <4>1. Submit(w, <<[op |-> "image", image |-> shows']>>) BY <3>1, AtWork DEF ShowImage
      <4>2. shows' \in Images BY <3>1, BoundAssumption DEF ShowImage, Images, Typed, TypeOK
      <4>3. [op |-> "image", image |-> shows'] \in Items BY <4>2 DEF Items
      <4> QED BY <2>1, <4>1, <4>3, QueryAppended
    <3>2. CASE ShowBraille
      <4>1. Submit(w, <<Op("braille")>>) BY <3>2, AtWork DEF ShowBraille
      <4> QED BY <1>3, <2>1, <4>1
    <3>3. CASE NoteOperationFinished
      BY <2>1, <3>3 DEF NoteOperationFinished, Query, Queued, Holds, Unique
    <3> QED BY <1>6, <3>1, <3>2, <3>3
  <2>3. \A u \in Threads : /\ Busy(u)' <=> Busy(u)
                           /\ Busy(u) => step'[u] = step[u]
                           /\ step'[u] \in {"watch", "check", "record"} => step'[u] = step[u]
    BY <2>1, AtWork DEF Busy
  <2>4. Stations(w)' BY <1>1, <2>1, AtWork DEF Stations
  <2>5. Single(w) => Single(w)' /\ (Genuine(w) => Genuine(w)')
    BY <2>1, <2>2, <2>3 DEF Single, Genuine
  <2> QED BY <1>1, <2>1, <2>4, <2>5 DEF Session, StaysGenuine
<1>7. CASE OperationTimesOut \/ ShutCallbacks \/ DrainCallbacks
  <2>1. /\ UNCHANGED <<current, pending, step, queue, at, item, future>>
        /\ UNCHANGED main \/ main' \in {"drain", "clear"}
    BY <1>7 DEF OperationTimesOut, ShutCallbacks, DrainCallbacks
  <2>2. Single(w) => Single(w)' /\ (Genuine(w) => Genuine(w)')
    BY <2>1 DEF Single, Genuine, Query, Queued, Holds, Unique, Busy
  <2>3. Stations(w)' BY <1>1, <2>1 DEF Stations
  <2>4. Untouched(w) => Untouched(w)' BY <2>1 DEF Untouched
  <2> QED BY <1>1, <2>1, <2>2, <2>3, <2>4 DEF Session, StaysGenuine
<1> QED BY <1>4, <1>5, <1>6, <1>7 DEF MainStep, Teardown

(* A step either starts a session or is one of the newest.                 *)
LEMMA SessionNext ==
  ASSUME Typed, Past, Newest, Next, ~StartWorker
  PROVE  /\ started \in Workers /\ started' = started
         /\ \A w \in Workers : w = started => Session(w)' /\ StaysGenuine(w)
<1> USE DEF driverVars, threadVars, workerVars, libraryVars, imageVars, frameVars, counters
<1>1. CASE \E t \in Threads : QueryStep(t)
  <2>1. PICK t \in Threads : QueryStep(t) BY <1>1
  <2>2. started' = started
    BY <2>1 DEF QueryStep, ReadWorker, MarkPending, SubmitQuery, WatchQuery, CheckWorker,
                RecordModes, RecordMissing, RecordFailure, ReleaseQuery
  <2> QED BY <2>1, <2>2, NewestMoves, SessionQuery DEF Newest
<1>2. CASE \E w \in Workers : WorkerStep(w) \/ FollowFocus(w)
  <2>1. PICK w \in Workers : WorkerStep(w) \/ FollowFocus(w) BY <1>2
  <2>2. started' = started
    BY <2>1 DEF WorkerStep, TakeItem, RunSetup, RunShow, RunQuery, EnterCallback, RenderFrame,
                KeepFrame, FollowFocus
  <2> QED BY <2>1, <2>2, NewestMoves, SessionWorker DEF Newest
<1>3. CASE MainStep
  <2>1. started' = started
    BY <1>3 DEF MainStep, Teardown, FinishSetup, GiveUpSetup, ShowImage, OperationTimesOut,
         NoteOperationFinished, ShowBraille, ShutCallbacks, DrainCallbacks, ClearSession
  <2> QED BY <1>3, <2>1, NewestMoves, SessionMain DEF Newest
<1> QED BY <1>1, <1>2, <1>3 DEF Next

LEMMA NewestNext ==
  ASSUME MaxSessions = 1 \/ ~Timeouts PROVE Typed /\ Past /\ Newest /\ [Next]_vars => Newest'
<1> SUFFICES ASSUME Typed, Past, Newest, [Next]_vars PROVE Newest' OBVIOUS
<1>1. CASE StartWorker BY <1>1, SessionStart
<1>2. CASE Next /\ ~StartWorker BY <1>2, SessionNext DEF Newest
<1>3. CASE UNCHANGED vars
  BY <1>3 DEF vars, driverVars, threadVars, workerVars, libraryVars, imageVars, frameVars, counters,
              Newest, Session, Untouched, Stations, Single, Query, Queued, Holds, Unique, Busy
<1> QED BY <1>1, <1>2, <1>3

LEMMA NewestAlways == ASSUME MaxSessions = 1 \/ ~Timeouts PROVE Spec => [](Past /\ Newest)
<1>1. Init => Newest BY DEF Init, Newest, Workers
<1> QED BY <1>1, NewestNext, PastAlways, TypedAlways, PTL DEF Spec

(* A marked query is outstanding if the mark is the session's own.         *)
OwnMark == current # 0 => \A w \in Workers : w = started => Genuine(w)

LEMMA MarkOwned == Typed /\ Past /\ Newest => (PendingHasQuery <=> OwnMark)
<1> SUFFICES ASSUME Typed, Past, Newest, current # 0 PROVE PendingHasQuery <=> OwnMark
  BY DEF PendingHasQuery, OwnMark
<1>1. current = started /\ current \in Workers
  BY BoundAssumption DEF Past, Typed, TypeOK, Workers
<1>2. PICK w \in Workers : w = started BY <1>1
<1>3. Single(w) BY <1>2 DEF Newest, Session
<1>4. Outstanding(w) <=> Query(w) \/ \E t \in Threads : Busy(t)
  <2>1. Query(w) => Outstanding(w) BY DEF Query, Outstanding
  <2>2. ASSUME NEW t \in Threads, Busy(t), ~Query(w) PROVE Outstanding(w)
    <3>1. asked[t] = w BY <1>2, <2>2 DEF Past, Busy
    <3>2. step[t] = "watch" => future[w].done BY <1>3, <2>2 DEF Single
    <3> QED BY <2>2, <3>1, <3>2 DEF Busy, Outstanding
  <2>3. Outstanding(w) => Query(w) \/ \E t \in Threads : Busy(t) BY DEF Outstanding, Query, Busy
  <2> QED BY <2>1, <2>2, <2>3
<1>5. OwnMark <=> Genuine(w) BY <1>2 DEF OwnMark
<1>6. PendingHasQuery <=> (pending => Outstanding(w)) BY <1>1, <1>2 DEF PendingHasQuery
<1> QED BY <1>4, <1>5, <1>6 DEF Genuine

LEMMA MarkNext ==
  ASSUME Typed, Past, Newest, OwnMark, Next
  PROVE  OwnMark' \/ (FinishSetup /\ pending)
<1>1. CASE StartWorker
  <2>1. current' = 0 BY <1>1 DEF StartWorker, driverVars
  <2> QED BY <2>1 DEF OwnMark
<1>2. CASE ~StartWorker
  <2>1. /\ started' = started
        /\ \A w \in Workers : w = started => Session(w)' /\ StaysGenuine(w)
    BY <1>2, SessionNext
  <2>2. CASE current # 0 BY <2>1, <2>2 DEF OwnMark, StaysGenuine
  <2>3. CASE current = 0 /\ current' = 0 BY <2>3 DEF OwnMark
  <2>4. CASE current = 0 /\ current' # 0
    <3>1. FinishSetup
      <4>1. ~\E t \in Threads : QueryStep(t)
        BY <2>4 DEF QueryStep, ReadWorker, MarkPending, SubmitQuery, WatchQuery, CheckWorker,
               RecordModes, RecordMissing, RecordFailure, ReleaseQuery, driverVars
      <4>2. ~\E w \in Workers : WorkerStep(w) \/ FollowFocus(w)
        BY <2>4 DEF WorkerStep, TakeItem, RunSetup, RunShow, RunQuery, EnterCallback, RenderFrame,
               KeepFrame, FollowFocus, driverVars
      <4>3. MainStep BY <4>1, <4>2 DEF Next
      <4> QED BY <2>4, <4>3 DEF MainStep, Teardown, StartWorker, GiveUpSetup, ShowImage,
                 OperationTimesOut, NoteOperationFinished, ShowBraille, ShutCallbacks,
                 DrainCallbacks, ClearSession, driverVars
    <3>2. UNCHANGED pending BY <3>1 DEF FinishSetup
    <3> QED BY <3>1, <3>2 DEF OwnMark, Genuine
  <2> QED BY <2>2, <2>3, <2>4
<1> QED BY <1>1, <1>2

(* OneQuery, for sessions of any length and, if no operation is given up,  *)
(* any number of them: the requests of all threads coalesce into one query *)
(* at a time.                                                              *)
THEOREM OneQueryAtATime ==
  ASSUME MaxSessions = 1 \/ ~Timeouts PROVE Spec => []OneQuery
<1>1. Typed /\ Past /\ Newest => OneQuery
  <2> SUFFICES ASSUME Typed, Past, Newest, current # 0 PROVE OneQuery BY DEF OneQuery
  <2>1. current = started /\ current \in Workers
    BY BoundAssumption DEF Past, Typed, TypeOK, Workers
  <2>2. PICK w \in Workers : w = current BY <2>1
  <2>3. Unique(w) BY <2>1, <2>2 DEF Newest, Session, Single
  <2>4. DOMAIN queue[w] = 1 .. Len(queue[w]) BY DEF Typed
  <2> QED BY <2>2, <2>3, <2>4 DEF OneQuery, Unique
<1> QED BY <1>1, TypedAlways, NewestAlways, PTL

(* A marked query stays outstanding until the session clears the mark; the *)
(* one step that breaks it is to set up a session while the mark that the  *)
(* session before left behind is still there.                              *)
LostByInheritance == PendingHasQuery => PendingHasQuery' \/ (FinishSetup /\ pending)

(* LostByInheritance, for sessions of any length and, if no operation is   *)
(* given up, any number of them: the run library_next_session shows the    *)
(* only way in which mode queries can stop.                                *)
THEOREM QueryLostOnlyByInheritance ==
  ASSUME MaxSessions = 1 \/ ~Timeouts PROVE Spec => [][LostByInheritance]_vars
<1>1. Typed /\ Past /\ Newest /\ OwnMark /\ [Next]_vars
         => OwnMark' \/ (FinishSetup /\ pending) \/ UNCHANGED vars
  BY MarkNext
<1>2. Typed /\ Past /\ Newest /\ (Typed /\ Past /\ Newest)' /\ [Next]_vars => [LostByInheritance]_vars
  <2>1. (Typed /\ Past /\ Newest => (PendingHasQuery <=> OwnMark))' BY MarkOwned, PTL
  <2> QED BY <1>1, <2>1, MarkOwned DEF LostByInheritance
<1> QED BY <1>2, TypedAlways, NewestAlways, PTL DEF Spec

(* The first session finds nothing marked or held back.                    *)
Fresh == started = 0 \/ main = "setup"

First ==
  /\ Fresh => ~pending /\ ~unsupported /\ candidate = None
  /\ OwnMark

LEMMA FirstAlways == ASSUME MaxSessions = 1 PROVE Spec => [](Past /\ Newest /\ First)
<1>1. Init => First BY DEF Init, First, OwnMark
<1>2. Typed /\ Past /\ Newest /\ First /\ [Next]_vars => First'
  <2> SUFFICES ASSUME Typed, Past, Newest, First, [Next]_vars PROVE First' OBVIOUS
  <2>1. CASE StartWorker
    <3>1. started = 0
      <4>1. started < 1 /\ started \in 0 .. 1 BY <2>1 DEF StartWorker, Typed, TypeOK
      <4> QED BY <4>1
    <3>2. current' = 0 /\ UNCHANGED <<pending, unsupported, candidate>>
      BY <2>1 DEF StartWorker, driverVars, frameVars
    <3> QED BY <3>1, <3>2 DEF First, Fresh, OwnMark
  <2>2. CASE Next /\ ~StartWorker
    <3>1. started \in Workers /\ started' = started BY <2>2, SessionNext
    <3>2. OwnMark'
      <4>1. FinishSetup => ~pending BY DEF First, Fresh, FinishSetup
      <4> QED BY <2>2, <4>1, MarkNext DEF First
    <3>3. ASSUME Fresh' PROVE ~pending' /\ ~unsupported' /\ candidate' = None
      <4>1. main' = "setup" BY <3>1, <3>3 DEF Fresh, Workers
      <4>2. CASE \E t \in Threads : QueryStep(t)
        <5>1. PICK t \in Threads : QueryStep(t) BY <4>2
        <5>2. main = "setup"
          BY <4>1, <5>1 DEF QueryStep, ReadWorker, MarkPending, SubmitQuery, WatchQuery, CheckWorker,
                 RecordModes, RecordMissing, RecordFailure, ReleaseQuery
        <5>3. Untouched(started) BY <3>1, <5>2 DEF Newest, Session
        <5>4. step[t] # "none" BY <5>1, NewestMoves
        <5> QED BY <5>3, <5>4 DEF Untouched
      <4>3. CASE \E w \in Workers : WorkerStep(w) \/ FollowFocus(w)
        <5>1. PICK w \in Workers : WorkerStep(w) \/ FollowFocus(w) BY <4>3
        <5>2. w = started BY <5>1, NewestMoves
        <5>3. main = "setup" /\ UNCHANGED <<pending, unsupported>>
          BY <4>1, <5>1 DEF WorkerStep, TakeItem, RunSetup, RunShow, RunQuery, EnterCallback,
                 RenderFrame, KeepFrame, FollowFocus, driverVars
        <5>4. Untouched(w) BY <5>2, <5>3 DEF Newest, Session
        <5>5. UNCHANGED candidate
          BY <5>1, <5>4 DEF WorkerStep, TakeItem, RunSetup, RunShow, RunQuery, EnterCallback,
                 RenderFrame, KeepFrame, FollowFocus, frameVars, Untouched
        <5> QED BY <5>3, <5>5 DEF First, Fresh
      <4>4. CASE MainStep
        <5>1. OperationTimesOut
          BY <2>2, <4>1, <4>4 DEF MainStep, Teardown, FinishSetup, GiveUpSetup, ShowImage, Idle,
                 NoteOperationFinished, ShowBraille, ShutCallbacks, DrainCallbacks, ClearSession
        <5>2. UNCHANGED <<main, pending, unsupported, candidate>>
          BY <5>1 DEF OperationTimesOut, driverVars, frameVars
        <5> QED BY <4>1, <5>2 DEF First, Fresh
      <4> QED BY <2>2, <4>2, <4>3, <4>4 DEF Next
    <3> QED BY <3>2, <3>3 DEF First
  <2>3. CASE UNCHANGED vars
    BY <2>3 DEF vars, driverVars, threadVars, workerVars, libraryVars, imageVars, frameVars, counters,
                First, Fresh, OwnMark, Genuine, Query, Queued, Holds, Busy
  <2> QED BY <2>1, <2>2, <2>3
<1> QED BY <1>1, <1>2, NewestAlways, TypedAlways, PTL DEF Spec

(* PendingHasQuery, for a session of any length: whatever the threads do,  *)
(* a marked query is really outstanding at the worker.                     *)
THEOREM QueryNeverLost == ASSUME MaxSessions = 1 PROVE Spec => []PendingHasQuery
<1>1. Typed /\ Past /\ Newest /\ First => PendingHasQuery BY MarkOwned DEF First
<1> QED BY <1>1, TypedAlways, FirstAlways, PTL

-----------------------------------------------------------------------------
(* Sessions whose operations are never given up: what the library has run, *)
(* and what a mode report that is under way knows of it.                   *)

(* An image whose operation is over, or told to be, the library has run.   *)
Ran ==
  /\ posted \subseteq ran
  /\ requested # None /\ image # 0 => image \in ran

(* An item that the worker is past running has run; only operations of     *)
(* images carry one.                                                       *)
Shown(w) ==
  /\ Ran
  /\ at[w] # "run" /\ item[w] # None => item[w].image \in ran \cup {0}
  /\ at[w] = "run" /\ item[w].image # 0 => item[w].op = "image"
  /\ \A i \in 1 .. Len(queue[w]) : queue[w][i].image # 0 => queue[w][i].op = "image"

(* The thread is about to record an answer of the library.                 *)
Answered(t, w) == step[t] \in {"check", "record"} \/ (step[t] = "watch" /\ future[w].done)

Answers(w) ==
  /\ step[w] \in {"check", "record"} => future[w].ran = ran
  /\ \A t \in Threads :
       Answered(t, w) /\ requested # None /\ image # 0 => image \in future[w].ran

ReportedBy(w) == Shown(w) /\ (current # 0 => Answers(w)) /\ ReportFollowsOperation

Reported == Ran /\ ReportFollowsOperation /\ \A w \in Workers : w = started => ReportedBy(w)

LEMMA DoneShown ==
  ASSUME Typed, NEW w \in Workers, Done(w), posted \subseteq ran', ran \subseteq ran',
         item[w] # None => item[w].image \in ran' \cup {0}
  PROVE  at'[w] = "loop" /\ item'[w] = None /\ posted' \subseteq ran'
<1>1. at'[w] = "loop" /\ item'[w] = None BY DEF Done, Typed, TypeOK
<1>2. /\ posted' \subseteq posted \cup (unsettled \cap {item[w].image})
      /\ item[w] = None => posted' = posted
  BY DEF Done, Settle
<1>3. 0 \notin unsettled BY DEF Typed, TypeOK
<1> QED BY <1>1, <1>2, <1>3

LEMMA ShownWorker ==
  ASSUME Typed, Past, NEW w \in Workers, w = started, Shown(w), WorkerStep(w) \/ FollowFocus(w)
  PROVE  Shown(w)' /\ ran \subseteq ran' /\ UNCHANGED <<image, requested>>
<1> USE DEF GoTo, driverVars, threadVars, workerVars, libraryVars, imageVars, frameVars, counters
<1>1. UNCHANGED <<image, requested>> /\ ran \subseteq ran'
  BY DEF WorkerStep, TakeItem, RunSetup, RunShow, RunQuery, EnterCallback, RenderFrame, KeepFrame,
         FollowFocus
<1>2. CASE TakeItem(w)
  <2>1. /\ UNCHANGED <<posted, ran>> /\ 1 \in 1 .. Len(queue[w]) /\ item'[w] = queue[w][1]
        /\ \A i \in 1 .. Len(queue'[w]) : i + 1 \in 1 .. Len(queue[w]) /\ queue'[w][i] = queue[w][i + 1]
    BY <1>2, QueryTaken DEF TakeItem
  <2>2. at'[w] = IF item'[w].op = "stop" THEN "exited" ELSE "run"
    BY <1>2, AtWork DEF TakeItem
  <2>3. item'[w].image # 0 => item'[w].op = "image" BY <2>1 DEF Shown, Ran
  <2> QED BY <1>1, <2>1, <2>2, <2>3 DEF Shown, Ran
<1>3. CASE RunSetup(w) \/ RunQuery(w)
  <2>1. at[w] = "run" /\ item[w].op # "image" /\ Done(w) /\ UNCHANGED <<queue, ran>>
    BY <1>3 DEF RunSetup, RunQuery
  <2>2. at'[w] = "loop" /\ item'[w] = None /\ posted' \subseteq ran'
    BY <2>1, DoneShown DEF Shown, Ran
  <2> QED BY <1>1, <2>1, <2>2 DEF Shown, Ran
<1>4. CASE RunShow(w)
  <2>1. at[w] = "run" /\ ran' = ran \cup ({item[w].image} \ {0}) /\ UNCHANGED queue
    BY <1>4 DEF RunShow
  <2>2. CASE Done(w)
    <3>1. at'[w] = "loop" /\ item'[w] = None /\ posted' \subseteq ran'
      BY <2>1, <2>2, DoneShown DEF Shown, Ran
    <3> QED BY <1>1, <2>1, <3>1 DEF Shown, Ran
  <2>3. CASE Continue(w, "dispatch")
    <3>1. at'[w] = "dispatch" /\ UNCHANGED <<item, posted>>
      BY <2>3, AtWork DEF Continue
    <3> QED BY <1>1, <2>1, <3>1 DEF Shown, Ran
  <2> QED BY <1>4, <2>2, <2>3 DEF RunShow
<1>5. CASE EnterCallback(w) \/ RenderFrame(w) \/ KeepFrame(w) \/ FollowFocus(w)
  <2>1. /\ UNCHANGED <<queue, ran>> /\ at[w] # "run"
        /\ \/ Done(w)
           \/ at'[w] # "run" /\ UNCHANGED <<item, posted>>
    BY <1>5, AtWork DEF EnterCallback, RenderFrame, KeepFrame, FollowFocus, Continue, Free
  <2>2. CASE Done(w)
    <3>1. at'[w] = "loop" /\ item'[w] = None /\ posted' \subseteq ran'
      BY <2>1, <2>2, DoneShown DEF Shown, Ran
    <3> QED BY <1>1, <2>1, <3>1 DEF Shown, Ran
  <2>3. CASE at'[w] # "run" /\ UNCHANGED <<item, posted>>
    BY <1>1, <2>1, <2>3 DEF Shown, Ran
  <2> QED BY <2>1, <2>2, <2>3
<1> QED BY <1>1, <1>2, <1>3, <1>4, <1>5 DEF WorkerStep

(* An item more in the queue does no harm as long as it is no disguised    *)
(* image operation.                                                        *)
LEMMA ShownAppended ==
  ASSUME Typed, NEW w \in Workers, Shown(w), NEW x \in Items, Submit(w, <<x>>), UNCHANGED <<at, item>>,
         x.image # 0 => x.op = "image"
  PROVE  \A i \in 1 .. Len(queue'[w]) : queue'[w][i].image # 0 => queue'[w][i].op = "image"
<1>1. \A i \in 1 .. Len(queue'[w]) : queue'[w][i] = x
         \/ (i \in 1 .. Len(queue[w]) /\ queue'[w][i] = queue[w][i])
  BY QueryAppended
<1> QED BY <1>1 DEF Shown, Ran

LEMMA OpItem ==
  ASSUME NEW o \in {"setup", "braille", "query", "stop"}
  PROVE  Op(o) \in Items /\ Op(o).image = 0 /\ Op(o).op = o
BY BoundAssumption DEF Op, Items, Images

LEMMA ShownQuery ==
  ASSUME Typed, Past, NEW w \in Workers, w = started, Shown(w), NEW t \in Threads, QueryStep(t)
  PROVE  Shown(w)' /\ UNCHANGED <<ran, image, requested>>
<1> USE DEF GoTo, driverVars, threadVars, workerVars, libraryVars, imageVars, frameVars, counters
<1>1. UNCHANGED <<at, item, image, ran, posted, requested>>
  BY DEF QueryStep, ReadWorker, MarkPending, SubmitQuery, WatchQuery, CheckWorker, RecordModes,
         RecordMissing, RecordFailure, ReleaseQuery
<1>2. CASE SubmitQuery(t)
  <2>1. asked[t] = w BY <1>2, AtWork DEF SubmitQuery
  <2>2. Submit(w, <<Op("query")>>) BY <1>2, <2>1 DEF SubmitQuery
  <2>3. \A i \in 1 .. Len(queue'[w]) : queue'[w][i].image # 0 => queue'[w][i].op = "image"
    BY <1>1, <2>2, OpItem, ShownAppended
  <2> QED BY <1>1, <2>3 DEF Shown, Ran
<1>3. CASE ~SubmitQuery(t)
  <2>1. UNCHANGED queue
    BY <1>3 DEF QueryStep, ReadWorker, MarkPending, WatchQuery, CheckWorker, RecordModes,
                RecordMissing, RecordFailure, ReleaseQuery
  <2> QED BY <1>1, <2>1 DEF Shown, Ran
<1> QED BY <1>2, <1>3

LEMMA ShownMain ==
  ASSUME ~Timeouts, Typed, Past, NEW w \in Workers, w = started, Session(w), Shown(w),
         MainStep, ~StartWorker
  PROVE  Shown(w)' /\ UNCHANGED ran
<1> USE DEF GoTo, driverVars, threadVars, workerVars, libraryVars, imageVars, frameVars, counters
<1>1. UNCHANGED <<item, ran>> /\ posted' \subseteq posted
  BY DEF MainStep, Teardown, StartWorker, FinishSetup, GiveUpSetup, ShowImage, OperationTimesOut,
         NoteOperationFinished, ShowBraille, ShutCallbacks, DrainCallbacks, ClearSession
<1>2. CASE FinishSetup \/ ShowBraille \/ ClearSession
  <2>1. UNCHANGED queue \/ \E o \in {"braille", "stop"} : Submit(w, <<Op(o)>>)
    <3>1. CASE FinishSetup BY <3>1 DEF FinishSetup
    <3>2. CASE ShowBraille BY <3>2, AtWork DEF ShowBraille
    <3>3. CASE ClearSession
      <4>1. current # 0 BY <3>3 DEF ClearSession, Past
      <4>2. current = w BY <4>1, AtWork
      <4> QED BY <3>3, <4>2 DEF ClearSession
    <3> QED BY <1>2, <3>1, <3>2, <3>3
  <2>2. UNCHANGED at /\ (requested' # None /\ image' # 0 => UNCHANGED <<image, requested>>)
    BY <1>2 DEF FinishSetup, ShowBraille, ClearSession
  <2>3. \A i \in 1 .. Len(queue'[w]) : queue'[w][i].image # 0 => queue'[w][i].op = "image"
    <3>1. CASE UNCHANGED queue BY <3>1 DEF Shown, Ran
    <3>2. CASE \E o \in {"braille", "stop"} : Submit(w, <<Op(o)>>)
      BY <1>1, <2>2, <3>2, OpItem, ShownAppended
    <3> QED BY <2>1, <3>1, <3>2
  <2> QED BY <1>1, <2>2, <2>3 DEF Shown, Ran
<1>3. CASE ShowImage
  <2>1. shows' \in Images BY <1>3, BoundAssumption DEF ShowImage, Images, Typed, TypeOK
  <2>2. current = w BY <1>3, AtWork DEF ShowImage
  <2>3. /\ Submit(w, <<[op |-> "image", image |-> shows']>>) /\ requested' = None /\ UNCHANGED at
    BY <1>3, <2>2 DEF ShowImage
  <2>4. [op |-> "image", image |-> shows'] \in Items BY <2>1 DEF Items
  <2>5. \A i \in 1 .. Len(queue'[w]) : queue'[w][i].image # 0 => queue'[w][i].op = "image"
    BY <1>1, <2>3, <2>4, ShownAppended
  <2> QED BY <1>1, <2>3, <2>5 DEF Shown, Ran
<1>4. CASE NoteOperationFinished
  <2>1. PICK i \in posted : requested' = IF i = image THEN Serial ELSE requested
    BY <1>4 DEF NoteOperationFinished
  <2>2. UNCHANGED <<at, queue, image>> BY <1>4 DEF NoteOperationFinished
  <2> QED BY <1>1, <2>1, <2>2 DEF Shown, Ran
<1>5. CASE ShutCallbacks \/ DrainCallbacks
  BY <1>1, <1>5 DEF ShutCallbacks, DrainCallbacks, Shown, Ran
<1> QED BY <1>1, <1>2, <1>3, <1>4, <1>5 DEF MainStep, Teardown, GiveUpSetup, OperationTimesOut

LEMMA ReportedQuery ==
  ASSUME Typed, Past, NEW w \in Workers, w = started, Session(w), ReportedBy(w),
         NEW t \in Threads, QueryStep(t)
  PROVE  ReportedBy(w)'
<1> USE DEF GoTo, driverVars, threadVars, workerVars, libraryVars, imageVars, frameVars, counters
<1>1. /\ Shown(w)' /\ UNCHANGED <<ran, image, requested>> BY ShownQuery DEF ReportedBy
<1>2. /\ step[t] # "none" /\ UNCHANGED current
      /\ \A u \in Threads \ {t} : step'[u] = step[u]
  <2>1. step[t] # "none" /\ UNCHANGED current
    BY DEF QueryStep, ReadWorker, MarkPending, SubmitQuery, WatchQuery, CheckWorker, RecordModes,
           RecordMissing, RecordFailure, ReleaseQuery
  <2>2. \A u \in Threads \ {t} : step'[u] = step[u]
    BY DEF QueryStep, ReadWorker, MarkPending, SubmitQuery, WatchQuery, CheckWorker, RecordModes,
           RecordMissing, RecordFailure, ReleaseQuery, Typed, TypeOK
  <2> QED BY <2>1, <2>2
<1>3. asked[t] = w \/ step[t] = "read" BY <1>2, AtWork
<1>4. ASSUME current # 0 PROVE Single(w) /\ Answers(w) BY <1>4 DEF Session, ReportedBy
<1>5. CASE SubmitQuery(t)
  <2>1. step'[t] = "watch" /\ step[t] = "submit" /\ ~future'[w].done
    BY <1>3, <1>5, AtWork DEF SubmitQuery, NoFuture, Typed, TypeOK
  <2>2. ASSUME current # 0 PROVE Answers(w)'
    <3>1. \A u \in Threads : Busy(u) => u = t BY <1>4, <2>1, <2>2 DEF Single, Busy
    <3>2. \A u \in Threads : step'[u] \notin {"check", "record"} BY <1>2, <2>1, <3>1 DEF Busy
    <3> QED BY <2>1, <3>2, AtWork DEF Answers, Answered
  <2>3. ReportFollowsOperation'
    BY <1>1, <1>5 DEF SubmitQuery, ReportedBy, ReportFollowsOperation, LibraryModes
  <2> QED BY <1>1, <1>2, <2>2, <2>3 DEF ReportedBy
<1>6. CASE WatchQuery(t) \/ CheckWorker(t)
  <2>1. /\ step[t] \in {"watch", "check"}
        /\ future'[w].ran = future[w].ran /\ future'[w].done = future[w].done
        /\ step'[t] \in {"check", "record"} => Answered(t, w)
        /\ step'[t] # "watch"
    <3>1. CASE WatchQuery(t)
      <4>1. asked[t] = w /\ future[w] \in Futures BY <1>3, <3>1, AtWork DEF WatchQuery
      <4>2. \/ UNCHANGED future
            \/ future' = [future EXCEPT ![w].watched = TRUE]
        BY <3>1, <4>1 DEF WatchQuery
      <4>3. future'[w].ran = future[w].ran /\ future'[w].done = future[w].done
        <5>1. UNCHANGED future \/ future'[w] = [future[w] EXCEPT !.watched = TRUE]
          BY <4>2, AtWork
        <5>2. CASE future'[w] = [future[w] EXCEPT !.watched = TRUE] BY <4>1, <5>2 DEF Futures
        <5> QED BY <5>1, <5>2
      <4>4. step[t] = "watch" /\ step'[t] = IF future[w].done THEN "check" ELSE "none"
        BY <3>1, <4>1, AtWork DEF WatchQuery
      <4> QED BY <4>3, <4>4 DEF Answered
    <3>2. CASE CheckWorker(t)
      <4>1. step[t] = "check" /\ UNCHANGED future /\ step'[t] \in {"none", "record"}
        BY <3>2, AtWork DEF CheckWorker
      <4> QED BY <4>1 DEF Answered
    <3> QED BY <1>6, <3>1, <3>2
  <2>2. ASSUME current # 0 PROVE Answers(w)'
    <3>1. \A u \in Threads : Answered(u, w)' => Answered(u, w) BY <1>2, <2>1 DEF Answered
    <3>2. step'[w] \in {"check", "record"} => step[w] \in {"check", "record"}
      <4>1. step[w] = "watch" => ~future[w].done BY DEF Session, Stations
      <4> QED BY <1>2, <2>1, <4>1, AtWork DEF Answered
    <3> QED BY <1>1, <1>4, <2>1, <2>2, <3>1, <3>2 DEF Answers
  <2>3. ReportFollowsOperation'
    BY <1>1, <1>6 DEF WatchQuery, CheckWorker, ReportedBy, ReportFollowsOperation, LibraryModes
  <2> QED BY <1>1, <1>2, <2>2, <2>3 DEF ReportedBy
<1>7. CASE ReadWorker(t) \/ MarkPending(t) \/ RecordMissing(t) \/ RecordFailure(t) \/ ReleaseQuery(t)
  <2>1. UNCHANGED <<future, modes>> /\ step'[t] \notin {"watch", "check", "record"}
        /\ (unsupported => unsupported')
    BY <1>7, AtWork DEF ReadWorker, MarkPending, RecordMissing, RecordFailure, ReleaseQuery
  <2>2. ASSUME current # 0 PROVE Answers(w)'
    <3>1. \A u \in Threads : step'[u] \in {"watch", "check", "record"} => step'[u] = step[u]
      BY <1>2, <2>1
    <3> QED BY <1>1, <1>4, <2>1, <2>2, <3>1, AtWork DEF Answers, Answered
  <2>3. ReportFollowsOperation'
    BY <1>1, <1>2, <2>1 DEF ReportedBy, ReportFollowsOperation, LibraryModes
  <2> QED BY <1>1, <1>2, <2>2, <2>3 DEF ReportedBy
<1>8. CASE RecordModes(t)
  <2>1. /\ step[t] = "record" /\ step'[t] = "release" /\ asked[t] = w /\ UNCHANGED future
        /\ modes'.ran = future[w].ran
    BY <1>3, <1>8, AtWork DEF RecordModes
  <2>2. ASSUME current # 0 PROVE Answers(w)'
    <3>1. \A u \in Threads : step'[u] \in {"watch", "check", "record"} => step'[u] = step[u]
      BY <1>2, <2>1
    <3> QED BY <1>1, <1>4, <2>1, <2>2, <3>1, AtWork DEF Answers, Answered
  <2>3. ReportFollowsOperation'
    <3>1. CASE current = 0 BY <1>2, <3>1 DEF ReportFollowsOperation, LibraryModes
    <3>2. CASE current # 0
      <4>1. requested # None /\ image # 0 => image \in future[w].ran
        BY <1>4, <2>1, <3>2 DEF Answers, Answered
      <4> QED BY <1>1, <2>1, <4>1 DEF ReportFollowsOperation
    <3> QED BY <3>1, <3>2
  <2> QED BY <1>1, <1>2, <2>2, <2>3 DEF ReportedBy
<1> QED BY <1>5, <1>6, <1>7, <1>8 DEF QueryStep

LEMMA ReportedWorker ==
  ASSUME Typed, Past, NEW w \in Workers, w = started, Session(w), ReportedBy(w),
         WorkerStep(w) \/ FollowFocus(w)
  PROVE  ReportedBy(w)'
<1> USE DEF GoTo, driverVars, threadVars, workerVars, libraryVars, imageVars, frameVars, counters
<1>1. Shown(w)' /\ ran \subseteq ran' /\ UNCHANGED <<image, requested>>
  BY ShownWorker DEF ReportedBy
<1>2. UNCHANGED <<current, unsupported, modes>>
  BY DEF WorkerStep, TakeItem, RunSetup, RunShow, RunQuery, EnterCallback, RenderFrame, KeepFrame,
         FollowFocus
<1>3. ReportFollowsOperation'
  BY <1>1, <1>2 DEF ReportedBy, ReportFollowsOperation, LibraryModes
<1>4. ASSUME current # 0 PROVE Single(w) /\ Answers(w) /\ Stations(w) BY <1>4 DEF Session, ReportedBy
<1>5. CASE RunQuery(w)
  <2>1. /\ at[w] = "run" /\ UNCHANGED <<ran, requested, image>> /\ future'[w].ran = ran
        /\ \A u \in Threads \ {w} : step'[u] = step[u]
    BY <1>5, AtWork DEF RunQuery, Futures
  <2>2. ASSUME current # 0 PROVE Answers(w)'
    <3>1. requested' # None /\ image' # 0 => image' \in future'[w].ran
      BY <2>1 DEF ReportedBy, Shown, Ran
    <3> QED BY <2>1, <3>1, AtWork DEF Answers, Answered
  <2> QED BY <1>1, <1>2, <1>3, <2>2 DEF ReportedBy
<1>6. CASE ~RunQuery(w)
  <2>1. /\ UNCHANGED future
        /\ UNCHANGED step \/ step' = [step EXCEPT ![w] = "read"]
        /\ at[w] = "run" \/ UNCHANGED ran
    BY <1>6 DEF WorkerStep, TakeItem, RunSetup, RunShow, EnterCallback, RenderFrame, KeepFrame,
                FollowFocus
  <2>2. ASSUME current # 0 PROVE Answers(w)'
    <3>1. \A u \in Threads : step'[u] \in {"watch", "check", "record"} => step'[u] = step[u]
      BY <2>1, AtWork
    <3>2. \A u \in Threads : Answered(u, w)' => Answered(u, w) BY <2>1, <3>1 DEF Answered
    <3>3. step'[w] \in {"check", "record"} => step[w] \in {"check", "record"} /\ UNCHANGED ran
      BY <1>4, <2>1, <2>2, <3>1, AtWork DEF Stations
    <3> QED BY <1>1, <1>4, <2>1, <2>2, <3>2, <3>3 DEF Answers
  <2> QED BY <1>1, <1>2, <1>3, <2>2 DEF ReportedBy
<1> QED BY <1>5, <1>6

LEMMA ReportedMain ==
  ASSUME ~Timeouts, Typed, Past, NEW w \in Workers, w = started, Session(w), ReportedBy(w),
         MainStep, ~StartWorker
  PROVE  ReportedBy(w)'
<1> USE DEF GoTo, driverVars, threadVars, workerVars, libraryVars, imageVars, frameVars, counters
<1>1. Shown(w)' /\ UNCHANGED ran BY ShownMain DEF ReportedBy
<1>2. UNCHANGED future
  BY DEF MainStep, Teardown, FinishSetup, GiveUpSetup, ShowImage, OperationTimesOut,
         NoteOperationFinished, ShowBraille, ShutCallbacks, DrainCallbacks, ClearSession
<1>3. CASE FinishSetup
  <2>1. main = "setup" /\ step' = [step EXCEPT ![0] = "read"] /\ UNCHANGED image
    BY <1>3, AtWork DEF FinishSetup
  <2>2. Untouched(w) BY <2>1 DEF Session
  <2>3. \A u \in Threads : step'[u] \in {"none", "read"} BY <2>1, <2>2, AtWork DEF Untouched
  <2>4. Answers(w)' BY <2>3, AtWork DEF Answers, Answered
  <2>5. image' = 0 BY <2>1 DEF Past
  <2> QED BY <1>1, <2>4, <2>5 DEF ReportedBy, ReportFollowsOperation
<1>4. CASE NoteOperationFinished
  <2>1. PICK i \in posted : requested' = IF i = image THEN Serial ELSE requested
    BY <1>4 DEF NoteOperationFinished
  <2>2. /\ UNCHANGED <<current, unsupported, modes, image>> /\ step[0] = "none"
        /\ step' = [step EXCEPT ![0] = "read"]
    BY <1>4, AtWork DEF NoteOperationFinished, Idle
  <2>3. i = image => image \in ran BY <2>1 DEF ReportedBy, Shown, Ran
  <2>4. ASSUME current # 0 PROVE Answers(w)'
    <3>1. Answers(w) /\ Stations(w) BY <2>4 DEF ReportedBy, Session
    <3>2. \A u \in Threads : Answered(u, w)' => Answered(u, w) /\ u = w
      BY <1>2, <2>2, AtWork DEF Answered
    <3>3. step'[w] = step[w] BY <2>2, AtWork
    <3>4. Answered(w, w) => step[w] \in {"check", "record"} BY <3>1 DEF Answered, Stations
    <3> QED BY <1>1, <1>2, <2>1, <2>2, <2>3, <3>1, <3>2, <3>3, <3>4 DEF Answers
  <2>5. ReportFollowsOperation'
    <3>1. CASE i = image
      <4>1. requested' = Serial BY <2>1, <3>1
      <4>2. CASE LibraryModes = None
        BY <2>2, <4>2 DEF ReportFollowsOperation, LibraryModes
      <4>3. CASE LibraryModes # None
        <5>1. LibraryModes = modes BY <4>3 DEF LibraryModes
        <5>2. Serial = modes.serial BY <4>3 DEF Serial
        <5>3. modes.serial \in Nat BY <4>3, <5>1 DEF Typed, TypeOK, ModeReports
        <5>4. modes'.serial <= requested' BY <2>2, <4>1, <5>2, <5>3
        <5> QED BY <5>4 DEF ReportFollowsOperation
      <4> QED BY <4>2, <4>3
    <3>2. CASE i # image
      BY <1>1, <2>1, <2>2, <3>2 DEF ReportedBy, ReportFollowsOperation, LibraryModes
    <3> QED BY <3>1, <3>2
  <2> QED BY <1>1, <2>2, <2>4, <2>5 DEF ReportedBy
<1>5. CASE DrainCallbacks
  <2>1. UNCHANGED <<current, step, modes, image, requested, unsupported>>
    BY <1>5 DEF DrainCallbacks
  <2>2. current # 0 => Answers(w)' BY <1>1, <1>2, <2>1 DEF ReportedBy, Answers, Answered
  <2> QED BY <1>1, <2>1, <2>2 DEF ReportedBy, ReportFollowsOperation, LibraryModes
<1>6. CASE ShowImage \/ ShowBraille \/ ShutCallbacks
  <2>1. /\ UNCHANGED current /\ requested' = None
        /\ UNCHANGED step \/ step' = [step EXCEPT ![0] = "read"]
    BY <1>6, AtWork DEF ShowImage, ShowBraille, ShutCallbacks
  <2>2. step'[w] = step[w] BY <2>1, AtWork
  <2>3. current # 0 => Answers(w)' BY <1>1, <1>2, <2>1, <2>2 DEF ReportedBy, Answers
  <2> QED BY <1>1, <2>1, <2>3 DEF ReportedBy, ReportFollowsOperation
<1>7. CASE ClearSession
  <2>1. current' = 0 BY <1>7 DEF ClearSession
  <2> QED BY <1>1, <2>1 DEF ReportedBy, ReportFollowsOperation, LibraryModes
<1> QED
  BY <1>3, <1>4, <1>5, <1>6, <1>7 DEF MainStep, Teardown, GiveUpSetup, OperationTimesOut

(* ReportFollowsOperation, for any number of sessions whose operations are *)
(* given the time they take: a mode report that answers for an image was   *)
(* read after the library drew the image.  With time-outs it is not so:    *)
(* the report of a query between the timer and the late operation is taken *)
(* too.                                                                    *)
THEOREM ReportsAnswer == ASSUME ~Timeouts PROVE Spec => []ReportFollowsOperation
<1>1. Init => Reported
  BY DEF Init, Reported, Ran, ReportFollowsOperation, Workers
<1>2. Typed /\ Past /\ Newest /\ Reported /\ [Next]_vars => Reported'
  <2> SUFFICES ASSUME Typed, Past, Newest, Reported, [Next]_vars PROVE Reported' OBVIOUS
  <2>1. CASE StartWorker
    <3> USE DEF threadVars, libraryVars, imageVars, driverVars
    <3>1. /\ started' = New /\ current' = 0 /\ UNCHANGED <<image, requested, posted, ran, item>>
          /\ at' = [at EXCEPT ![New] = "loop"] /\ Submit(New, <<Op("setup")>>)
      BY <2>1 DEF StartWorker
    <3>2. New \in Workers /\ New > started BY <2>1, AtRest
    <3>3. Ran' /\ ReportFollowsOperation'
      BY <3>1 DEF Reported, Ran, ReportFollowsOperation, LibraryModes
    <3>4. item'[New] = None /\ at'[New] = "loop"
      BY <3>1, <3>2 DEF Past, Typed, TypeOK
    <3>5. \A i \in 1 .. Len(queue'[New]) : queue'[New][i] = Op("setup")
      <4>1. queue[New] = <<>> BY <3>2 DEF Past
      <4>2. queue'[New] = <<>> \o <<Op("setup")>> BY <3>1, <3>2, <4>1 DEF Submit, Typed
      <4>3. queue'[New] = <<Op("setup")>> BY <4>2
      <4> QED BY <4>3
    <3>6. ASSUME NEW w \in Workers, w = started' PROVE ReportedBy(w)'
      <4>1. w = New BY <3>1, <3>6
      <4>2. Shown(w)' BY <3>3, <3>4, <3>5, <4>1, OpItem DEF Shown
      <4> QED BY <3>1, <3>3, <4>2 DEF ReportedBy
    <3> QED BY <3>3, <3>6 DEF Reported
  <2>2. CASE Next /\ ~StartWorker
    <3>1. started \in Workers /\ started' = started BY <2>2, SessionNext
    <3>2. PICK w \in Workers : w = started BY <3>1
    <3>3. Session(w) /\ ReportedBy(w) BY <3>2 DEF Newest, Reported
    <3>4. ReportedBy(w)'
      BY <2>2, <3>2, <3>3, NewestMoves, ReportedQuery, ReportedWorker, ReportedMain DEF Next
    <3> QED BY <3>1, <3>2, <3>4 DEF Reported, ReportedBy, Shown
  <2>3. CASE UNCHANGED vars
    BY <2>3 DEF vars, driverVars, threadVars, workerVars, libraryVars, imageVars, frameVars, counters,
                Reported, ReportedBy, Ran, Shown, Answers, Answered, ReportFollowsOperation,
                LibraryModes
  <2> QED BY <2>1, <2>2, <2>3
<1>3. Reported => ReportFollowsOperation BY DEF Reported
<1> QED BY <1>1, <1>2, <1>3, TypedAlways, NewestAlways, PTL DEF Spec

-----------------------------------------------------------------------------
(* One session whose queries the library answers: the held-back frame.     *)

(* A query is still to run, or will be submitted again for the flag.       *)
Will(w) ==
  Query(w) \/ (rerun /\ pending) \/ \E t \in Threads : step[t] \in {"read", "lock", "submit"}

(* A query has run, and its result is on its way to simulatedDisplay.      *)
Answering == \E t \in Threads : step[t] \in {"watch", "check", "record"}

Held(w) ==
  /\ future[w].done => future[w].result \in Modes
  /\ current # 0 =>
       /\ ~unsupported
       /\ at[w] = "render" /\ step[w] = "none" => Will(w)
       /\ candidate # None => Will(w) \/ Answering

LEMMA HeldQuery ==
  ASSUME Typed, Past, NEW w \in Workers, w = started, Session(w), Held(w),
         NEW t \in Threads, QueryStep(t)
  PROVE  Held(w)'
<1> USE DEF GoTo, driverVars, threadVars, workerVars, libraryVars, imageVars, frameVars, counters
<1>1. /\ step[t] # "none" /\ UNCHANGED <<current, at, item>>
      /\ \A u \in Threads \ {t} : step'[u] = step[u]
  <2>1. step[t] # "none" /\ UNCHANGED <<current, at, item>>
    BY DEF QueryStep, ReadWorker, MarkPending, SubmitQuery, WatchQuery, CheckWorker, RecordModes,
           RecordMissing, RecordFailure, ReleaseQuery
  <2>2. \A u \in Threads \ {t} : step'[u] = step[u]
    BY DEF QueryStep, ReadWorker, MarkPending, SubmitQuery, WatchQuery, CheckWorker, RecordModes,
           RecordMissing, RecordFailure, ReleaseQuery, Typed, TypeOK
  <2> QED BY <2>1, <2>2
<1>2. asked[t] = w \/ step[t] = "read" BY <1>1, AtWork
<1>3. current # 0 => Single(w) BY DEF Session
<1>4. ASSUME UNCHANGED queue PROVE Query(w)' <=> Query(w)
  BY <1>1, <1>4 DEF Query, Queued, Holds
<1>5. CASE ReadWorker(t)
  <2>1. UNCHANGED <<future, unsupported, candidate, queue, rerun, pending>> /\ step[t] = "read"
        /\ (current # 0 => step'[t] = "lock")
    <3>1. current # 0 => ~unsupported BY DEF Held
    <3> QED BY <1>5, <3>1, AtWork DEF ReadWorker
  <2>2. current # 0 => Will(w)' BY <2>1 DEF Will
  <2> QED BY <1>1, <2>1, <2>2 DEF Held
<1>6. CASE MarkPending(t)
  <2>1. /\ UNCHANGED <<future, unsupported, candidate, queue>>
        /\ step'[t] = (IF pending THEN "none" ELSE "submit")
        /\ pending' = TRUE /\ (pending => rerun' = TRUE)
    BY <1>6, AtWork DEF MarkPending, Typed, TypeOK
  <2>2. Will(w)' BY <2>1 DEF Will
  <2> QED BY <1>1, <2>1, <2>2 DEF Held
<1>7. CASE SubmitQuery(t)
  <2>1. /\ Submit(w, <<Op("query")>>) /\ ~future'[w].done /\ UNCHANGED unsupported
    BY <1>2, <1>7, AtWork DEF SubmitQuery, NoFuture, Typed, TypeOK
  <2>2. Query(w)' BY <1>1, <2>1, OpItem, QueryAppended
  <2> QED BY <1>1, <2>1, <2>2 DEF Held, Will
<1>8. CASE WatchQuery(t)
  <2>1. asked[t] = w /\ future[w] \in Futures BY <1>2, <1>8, AtWork DEF WatchQuery
  <2>2. /\ UNCHANGED <<unsupported, candidate, queue, rerun, pending>> /\ step[t] = "watch"
        /\ UNCHANGED future \/ future' = [future EXCEPT ![w].watched = TRUE]
        /\ step'[t] = IF future[w].done THEN "check" ELSE "none"
    BY <1>8, <2>1, AtWork DEF WatchQuery
  <2>3. future'[w].done = future[w].done /\ future'[w].result = future[w].result
    <3>1. UNCHANGED future \/ future'[w] = [future[w] EXCEPT !.watched = TRUE]
      BY <2>2, AtWork
    <3>2. CASE future'[w] = [future[w] EXCEPT !.watched = TRUE] BY <2>1, <3>2 DEF Futures
    <3> QED BY <3>1, <3>2
  <2>4. ASSUME current # 0 PROVE Will(w)' \/ Answering'
    <3>1. Query(w) \/ future[w].done BY <1>3, <2>2, <2>4 DEF Single
    <3> QED BY <1>4, <2>2, <3>1 DEF Will, Answering
  <2>5. ASSUME current # 0, at[w] = "render", step'[w] = "none" PROVE Will(w)'
    <3>1. CASE t = w
      <4>1. ~future[w].done BY <2>2, <3>1 DEF Session, Stations
      <4>2. Query(w) BY <1>3, <2>2, <2>5, <4>1 DEF Single
      <4> QED BY <1>4, <2>2, <4>2 DEF Will
    <3>2. CASE t # w
      <4>1. Will(w) BY <1>1, <2>5, <3>2, AtWork DEF Held
      <4>2. \A u \in Threads : step[u] \in {"read", "lock", "submit"} => step'[u] = step[u]
        BY <1>1, <2>2
      <4> QED BY <1>4, <2>2, <4>1, <4>2 DEF Will
    <3> QED BY <3>1, <3>2
  <2> QED BY <1>1, <2>2, <2>3, <2>4, <2>5 DEF Held
<1>9. CASE CheckWorker(t)
  <2>1. /\ UNCHANGED <<future, unsupported, candidate, queue, rerun, pending>> /\ step[t] = "check"
        /\ (current # 0 => step'[t] = "record")
    <3>1. step[t] = "check" /\ asked[t] = w BY <1>2, <1>9 DEF CheckWorker
    <3>2. current # 0 => current = asked[t] BY <3>1, AtWork
    <3>3. step' = [step EXCEPT ![t] = IF asked[t] # current THEN "none" ELSE "record"]
      BY <1>9 DEF CheckWorker
    <3>4. UNCHANGED <<future, unsupported, candidate, queue, rerun, pending>>
      BY <1>9 DEF CheckWorker
    <3> QED BY <3>1, <3>2, <3>3, <3>4, AtWork
  <2>2. ASSUME current # 0 PROVE Answering' BY <2>1, <2>2 DEF Answering
  <2>3. ASSUME current # 0, Will(w) PROVE Will(w)'
    <3>1. \A u \in Threads : step[u] \in {"read", "lock", "submit"} => step'[u] = step[u]
      BY <1>1, <2>1
    <3> QED BY <1>4, <2>1, <2>3, <3>1 DEF Will
  <2>4. ASSUME current # 0, at[w] = "render", step'[w] = "none" PROVE step[w] = "none"
    BY <1>1, <2>1, <2>4, AtWork
  <2> QED BY <1>1, <2>1, <2>2, <2>3, <2>4 DEF Held
<1>10. CASE RecordModes(t) \/ RecordMissing(t) \/ RecordFailure(t)
  <2>1. /\ step[t] = "record" /\ UNCHANGED future /\ asked[t] = w
    BY <1>2, <1>10 DEF RecordModes, RecordMissing, RecordFailure
  <2>2. ASSUME current # 0 PROVE RecordModes(t)
    <3>1. future[w].done /\ future[w].result \in Modes BY <1>3, <2>1, <2>2 DEF Single, Held
    <3>2. future[w].result # "missing" /\ future[w].result # "failed" BY <3>1 DEF Modes
    <3> QED BY <1>10, <2>1, <3>2 DEF RecordMissing, RecordFailure
  <2>3. ASSUME current # 0
        PROVE  /\ candidate' = None /\ UNCHANGED <<unsupported, queue, rerun, pending>>
               /\ step'[t] = "release"
    BY <2>2, <2>3, AtWork DEF RecordModes, Report
  <2>4. ASSUME current # 0, at[w] = "render", step'[w] = "none" PROVE Will(w)'
    <3>1. step[w] = "none" BY <1>1, <2>3, <2>4, AtWork
    <3>2. \A u \in Threads : step[u] \in {"read", "lock", "submit"} => step'[u] = step[u]
      BY <1>1, <2>1
    <3> QED BY <1>4, <2>3, <2>4, <3>1, <3>2 DEF Held, Will
  <2> QED BY <1>1, <2>1, <2>3, <2>4 DEF Held
<1>11. CASE ReleaseQuery(t)
  <2>1. /\ step[t] = "release" /\ UNCHANGED <<future, unsupported, candidate, queue>>
        /\ step'[t] = IF rerun THEN "read" ELSE "none"
    BY <1>11, AtWork DEF ReleaseQuery
  <2>2. ASSUME current # 0, Will(w) PROVE Will(w)'
    <3>1. ~Query(w) BY <1>3, <2>1, <2>2 DEF Single, Busy
    <3>2. \A u \in Threads : step[u] \in {"read", "lock", "submit"} => step'[u] = step[u]
      BY <1>1, <2>1
    <3> QED BY <2>1, <2>2, <3>1, <3>2 DEF Will
  <2>3. ASSUME current # 0, Answering PROVE Answering'
    <3>1. \A u \in Threads : step[u] \in {"watch", "check", "record"} => step'[u] = step[u]
      BY <1>1, <2>1
    <3> QED BY <2>3, <3>1 DEF Answering
  <2>4. at[w] = "render" => t # w BY <2>1 DEF Session, Stations
  <2>5. ASSUME current # 0, at[w] = "render", step'[w] = "none" PROVE step[w] = "none"
    BY <1>1, <2>4, <2>5, AtWork
  <2> QED BY <1>1, <2>1, <2>2, <2>3, <2>5 DEF Held
<1> QED BY <1>5, <1>6, <1>7, <1>8, <1>9, <1>10, <1>11 DEF QueryStep

LEMMA HeldWorker ==
  ASSUME ~QueryErrors, Typed, Past, NEW w \in Workers, w = started, Session(w), Held(w),
         WorkerStep(w) \/ FollowFocus(w)
  PROVE  Held(w)'
<1> USE DEF GoTo, driverVars, threadVars, workerVars, libraryVars, imageVars, frameVars, counters
<1>1. UNCHANGED driverVars
  BY DEF WorkerStep, TakeItem, RunSetup, RunShow, RunQuery, EnterCallback, RenderFrame, KeepFrame,
         FollowFocus
<1>2. Stations(w) /\ (current # 0 => Single(w)) BY DEF Session
<1>3. CASE RunQuery(w)
  <2>1. /\ at[w] = "run" /\ item[w].op = "query" /\ UNCHANGED candidate /\ at'[w] = "loop"
        /\ future'[w].result = mode[w]
        /\ future[w].watched => step'[w] = "check"
        /\ \A u \in Threads \ {w} : step'[u] = step[u]
    BY <1>3, AtWork DEF RunQuery, Done, Futures
  <2>2. mode[w] \in Modes BY AtWork DEF Typed, TypeOK
  <2>3. ASSUME current # 0 PROVE Answering'
    <3>1. Query(w) BY <2>1 DEF Query, Holds
    <3>2. CASE future[w].watched BY <2>1, <3>2, AtWork DEF Answering
    <3>3. CASE ~future[w].watched
      <4>1. PICK u \in Threads : Busy(u) BY <1>2, <2>3, <3>1, <3>3 DEF Single
      <4>2. step[u] = "watch" BY <1>2, <2>3, <3>1, <4>1 DEF Single
      <4>3. u # w BY <1>2, <2>1, <4>2 DEF Stations
      <4> QED BY <2>1, <4>2, <4>3 DEF Answering
    <3> QED BY <3>2, <3>3
  <2> QED BY <1>1, <2>1, <2>2, <2>3 DEF Held
<1>4. CASE ~RunQuery(w)
  <2>1. UNCHANGED future
    BY <1>4 DEF WorkerStep, TakeItem, RunSetup, RunShow, EnterCallback, RenderFrame, KeepFrame,
                FollowFocus
  <2>2. Query(w)' <=> Query(w)
    <3>1. CASE TakeItem(w) BY <3>1, QueryTaken
    <3>2. CASE ~TakeItem(w)
      <4>1. UNCHANGED queue /\ ~Holds(w, "query") /\ at'[w] # "run"
        BY <1>4, <3>2, AtWork DEF WorkerStep, RunSetup, RunShow, EnterCallback, RenderFrame,
             KeepFrame, FollowFocus, Done, Continue, Holds, Free
      <4> QED BY <4>1, QueryKept
    <3> QED BY <3>1, <3>2
  <2>3. CASE RenderFrame(w)
    <3>1. step' = [step EXCEPT ![w] = "read"] /\ UNCHANGED candidate BY <2>3 DEF RenderFrame
    <3>2. Will(w)' BY <3>1, AtWork DEF Will
    <3> QED BY <1>1, <2>1, <3>2 DEF Held
  <2>4. CASE ~RenderFrame(w)
    <3>1. UNCHANGED step
      BY <1>4, <2>4 DEF WorkerStep, TakeItem, RunSetup, RunShow, EnterCallback, KeepFrame, FollowFocus
    <3>2. (Will(w)' <=> Will(w)) /\ (Answering' <=> Answering)
      BY <1>1, <2>2, <3>1 DEF Will, Answering
    <3>3. at'[w] # "render"
      BY <1>4, <2>4, AtWork DEF WorkerStep, TakeItem, RunSetup, RunShow, EnterCallback, KeepFrame,
           FollowFocus, Done, Continue
    <3>4. UNCHANGED candidate \/ (at[w] = "render" /\ step[w] = "none")
      BY <1>4, <2>4 DEF WorkerStep, TakeItem, RunSetup, RunShow, EnterCallback, KeepFrame, FollowFocus
    <3> QED BY <1>1, <2>1, <3>2, <3>3, <3>4 DEF Held
  <2> QED BY <2>3, <2>4
<1> QED BY <1>3, <1>4

LEMMA HeldMain ==
  ASSUME Typed, Past, NEW w \in Workers, w = started, Session(w), Held(w), First,
         MainStep, ~StartWorker
  PROVE  Held(w)'
<1> USE DEF GoTo, driverVars, threadVars, workerVars, libraryVars, imageVars, frameVars, counters
<1>1. UNCHANGED <<future, candidate>>
  BY DEF MainStep, Teardown, StartWorker, FinishSetup, GiveUpSetup, ShowImage, OperationTimesOut,
         NoteOperationFinished, ShowBraille, ShutCallbacks, DrainCallbacks, ClearSession
<1>2. CASE GiveUpSetup
  <2>1. current' = 0 BY <1>2 DEF GiveUpSetup, Past
  <2> QED BY <1>1, <2>1 DEF Held
<1>3. CASE FinishSetup
  <2>1. ~unsupported' /\ candidate = None BY <1>3 DEF FinishSetup, First, Fresh
  <2>2. at'[w] # "render" BY <1>3, AtWork DEF FinishSetup, SetUp
  <2> QED BY <1>1, <2>1, <2>2 DEF Held
<1>4. CASE ClearSession
  <2>1. current' = 0 BY <1>4 DEF ClearSession
  <2> QED BY <1>1, <2>1 DEF Held
<1>5. CASE ShowImage \/ ShowBraille \/ NoteOperationFinished \/ OperationTimesOut
           \/ ShutCallbacks \/ DrainCallbacks
  <2>1. /\ UNCHANGED <<current, unsupported, rerun, pending, at, item>>
        /\ \/ UNCHANGED step
           \/ step[0] = "none" /\ step' = [step EXCEPT ![0] = "read"]
    BY <1>5, AtWork DEF ShowImage, ShowBraille, NoteOperationFinished, OperationTimesOut,
         ShutCallbacks, DrainCallbacks, Idle
  <2>2. ASSUME Query(w) PROVE Query(w)'
    <3>1. CASE ShowImage \/ ShowBraille
      <4>1. current = w BY <3>1, AtWork DEF ShowImage, ShowBraille
      <4>2. shows' \in Images \/ ShowBraille
        BY <3>1, BoundAssumption DEF ShowImage, Images, Typed, TypeOK
      <4>3. \E x \in Items : Submit(w, <<x>>)
        <5>1. CASE ShowBraille BY <4>1, <5>1, OpItem DEF ShowBraille
        <5>2. CASE ShowImage /\ shows' \in Images
          <6>1. [op |-> "image", image |-> shows'] \in Items BY <5>2 DEF Items
          <6> QED BY <4>1, <5>2, <6>1 DEF ShowImage
        <5> QED BY <3>1, <4>2, <5>1, <5>2
      <4>4. PICK x \in Items : Submit(w, <<x>>) BY <4>3
      <4> QED BY <2>1, <2>2, <4>4, QueryAppended
    <3>2. CASE ~ShowImage /\ ~ShowBraille
      <4>1. UNCHANGED queue
        BY <1>5, <3>2 DEF NoteOperationFinished, OperationTimesOut, ShutCallbacks, DrainCallbacks
      <4> QED BY <2>1, <2>2, <4>1 DEF Query, Queued, Holds
    <3> QED BY <3>1, <3>2
  <2>3. \A u \in Threads : step[u] # "none" => step'[u] = step[u] BY <2>1, AtWork
  <2>4. (Will(w) => Will(w)') /\ (Answering => Answering') BY <2>1, <2>2, <2>3 DEF Will, Answering
  <2>5. step'[w] = step[w] BY <2>1, AtWork
  <2> QED BY <1>1, <2>1, <2>4, <2>5 DEF Held
<1> QED BY <1>2, <1>3, <1>4, <1>5 DEF MainStep, Teardown

(* HeldFrameIsDecided, for a session of any length whose queries are       *)
(* answered: a frame is held back only while something will decide it.     *)
THEOREM HeldFramesDecided ==
  ASSUME MaxSessions = 1, ~QueryErrors PROVE Spec => []HeldFrameIsDecided
<1> DEFINE I == \A w \in Workers : Held(w)
<1>1. Workers = {1} BY DEF Workers
<1>2. Init => I
  <2> SUFFICES ASSUME Init, NEW w \in Workers PROVE Held(w) OBVIOUS
  <2>1. ~future[w].done BY DEF Init, NoFuture
  <2> QED BY <2>1 DEF Init, Held
<1>3. Typed /\ Past /\ Newest /\ First /\ I /\ [Next]_vars => I'
  <2> SUFFICES ASSUME Typed, Past, Newest, First, I, [Next]_vars, NEW w \in Workers PROVE Held(w)'
    OBVIOUS
  <2>1. CASE StartWorker
    <3>1. current' = 0 /\ UNCHANGED future BY <2>1 DEF StartWorker, driverVars
    <3> QED BY <3>1 DEF Held
  <2>2. CASE Next /\ ~StartWorker
    <3>1. w = started BY <1>1, <2>2, SessionNext
    <3>2. Session(w) /\ Held(w) BY <3>1 DEF Newest
    <3> QED BY <2>2, <3>1, <3>2, NewestMoves, HeldQuery, HeldWorker, HeldMain DEF Next
  <2>3. CASE UNCHANGED vars
    BY <2>3 DEF vars, driverVars, threadVars, workerVars, libraryVars, imageVars, frameVars, counters,
                Held, Will, Answering, Query, Queued, Holds
  <2> QED BY <2>1, <2>2, <2>3
<1>4. Typed /\ Past /\ Newest /\ I /\ PendingHasQuery => HeldFrameIsDecided
  <2> SUFFICES ASSUME Typed, Past, Newest, I, PendingHasQuery, current # 0, candidate # None
               PROVE  Outstanding(current) \/ \E t \in Threads : step[t] \in {"read", "lock"}
    BY DEF HeldFrameIsDecided
  <2>1. current = started /\ current \in Workers
    BY BoundAssumption DEF Past, Typed, TypeOK, Workers
  <2>2. PICK w \in Workers : w = current BY <2>1
  <2>3. Single(w) /\ (Will(w) \/ Answering) BY <2>1, <2>2 DEF Newest, Session, Held
  <2>4. pending \/ \E t \in Threads : step[t] \in {"read", "lock"}
    BY <2>3 DEF Single, Will, Answering, Busy
  <2> QED BY <2>4 DEF PendingHasQuery
<1> QED BY <1>2, <1>3, <1>4, TypedAlways, FirstAlways, QueryNeverLost, PTL DEF Spec

=============================================================================

---------------------------- MODULE Presentations ----------------------------
(***************************************************************************)
(* What the tactile area shows.  The renderer hears of navigation and asks *)
(* the PresentationManager to choose among its providers, in their order   *)
(* of priority; the user can force a presentation, dismiss the one shown,  *)
(* and switch screen capture on and off.  Once per core cycle the renderer *)
(* draws the active presentation and hands the frame to the I/O thread.    *)
(*                                                                         *)
(* All of it runs on the main thread, but for the I/O thread, for the      *)
(* reader thread, which also queues a write, and for the library worker,   *)
(* whose mode reports decide what HybridPrintProvider.canProvide answers.  *)
(*                                                                         *)
(* Data abstraction.  A presentation is its kind and the object or table   *)
(* it is of.  Scrolling, the buffers and forceRefresh, which only has the  *)
(* display rewrite rows that did not change, are left out.                 *)
(***************************************************************************)
EXTENDS Integers, Sequences

CONSTANTS
  Objects,     \* navigator objects
  Tables,      \* tables
  TableAt,     \* of each object: the table three parents up at most, or None
  DeepTableAt, \* of each object: the table twenty parents up at most, or None
  Charts,      \* objects that are charts, or elements of one
  Within,      \* of each table and chart: the objects that count as inside it
  Excel,       \* tables whose application may refuse to answer
  Graphics,    \* objects with the graphic role and a location
  Located,     \* objects with a location
  MaxApcs,     \* bound: an acknowledgement finds fewer executions waiting or started
  None         \* no object, no table, no subject

Kinds == {"screenCapture", "chart", "table", "graphic", "hybridPrint", "braille",
          "libraryBraille"}
Presentation == [kind : Kinds, of : Objects \cup Tables \cup {None}]
NoPresentation == [kind |-> "none", of |-> None]

ASSUME ObjectAssumption ==
  /\ None \notin Objects \cup Tables
  /\ TableAt \in [Objects -> Tables \cup {None}]
  /\ DeepTableAt \in [Objects -> Tables \cup {None}]
  /\ Within \in [Tables \cup Charts -> SUBSET Objects]
  /\ Excel \subseteq Tables
  /\ Graphics \subseteq Located /\ Located \subseteq Objects /\ Charts \subseteq Objects
(* The short scan is the beginning of the long one, and a table that a     *)
(* scan finds holds the object it started from.                            *)
ASSUME TableAssumption ==
  \A o \in Objects : /\ TableAt[o] # None => DeepTableAt[o] = TableAt[o]
                     /\ DeepTableAt[o] # None => o \in Within[DeepTableAt[o]]
ASSUME ChartAssumption == \A c \in Charts : c \in Within[c]
ASSUME BoundAssumption == MaxApcs \in Nat

MAX_UNANSWERABLE_VALIDITY_CHECKS == 3

VARIABLES
  nav,           \* api.getNavigatorObject()
  changed,       \* has anything changed that no event has reported yet?
  captureOn,     \* ScreenCaptureProvider._enabled
  hybrid,        \* does the library report that it draws hybrid print?
  library,       \* is library braille selected, and the library ready?
  active,        \* _activePresentation
  forced,        \* _forcedPresentation
  dismissedObj,  \* _dismissedObject
  dismissed,     \* _dismissedPresentation
  strikes,       \* _unanswerableChecks
  main,          \* "rest", or where the main thread is in onReviewMove,
                 \* or "queue", after storing a frame
  chosen,        \* the provider that update() has found
  image,         \* a graphic was shown, and since neither terminated nor
                 \* left to the library's hybrid print
  needsRender,   \* _needsRender
  queued,        \* is queuedWrite not None?
  apcs,          \* executions of _bgThreadExecutor that have not started
  io,            \* the I/O thread: "idle", "started" or "drawing" a frame
  terminated,    \* _isTerminating
  refusals       \* refusals in a row to say whether the dismissed table is valid

choiceVars == <<active, forced, dismissedObj, dismissed, strikes, refusals>>
worldVars == <<nav, changed, captureOn, hybrid, library>>
frameVars == <<queued, apcs, io>>
mainVars == <<main, chosen, image, needsRender>>
vars == <<worldVars, choiceVars, mainVars, frameVars, terminated>>

(* The renderer has been built; initialDisplay() is its first event.       *)
Init ==
  /\ nav \in Objects /\ changed = TRUE
  /\ captureOn = FALSE /\ hybrid = FALSE /\ library \in BOOLEAN
  /\ active = NoPresentation /\ forced = NoPresentation
  /\ dismissedObj = None /\ dismissed = NoPresentation /\ strikes = 0 /\ refusals = 0
  /\ main = "review" /\ chosen = "braille" /\ image = FALSE
  /\ needsRender = FALSE /\ queued = FALSE /\ apcs = 0 /\ io = "idle"
  /\ terminated = FALSE

-----------------------------------------------------------------------------
(* The providers. *)

Priority == <<"screenCapture", "chart", "table", "graphic", "hybridPrint", "braille">>
Fallback == "braille"

CanProvide(provider, o) ==
  CASE provider = "screenCapture" -> captureOn
    [] provider = "chart"         -> o \in Charts
    [] provider = "table"         -> TableAt[o] # None
    [] provider = "graphic"       -> o \in Graphics
    [] provider = "hybridPrint"   -> library /\ hybrid
    [] provider = "braille"       -> TRUE

Rank(provider) == CHOOSE i \in DOMAIN Priority : Priority[i] = provider

FirstAmong(providers, o) ==
  CHOOSE p \in providers :
    CanProvide(p, o) /\ \A q \in providers : CanProvide(q, o) => Rank(p) <= Rank(q)

Providers == {Priority[i] : i \in DOMAIN Priority}
ProviderOf(p) == IF p.kind = "libraryBraille" THEN "braille" ELSE p.kind

BrailleKind == IF library THEN "libraryBraille" ELSE "braille"

Create(provider, o) ==
  CASE provider \in {"chart", "graphic"} -> [kind |-> provider, of |-> o]
    [] provider = "table"   -> [kind |-> "table", of |-> TableAt[o]]
    [] provider = "braille" -> [kind |-> BrailleKind, of |-> None]
    [] OTHER                -> [kind |-> provider, of |-> None]

TableAnswers(p) ==
  {IF nav \in Within[p.of] THEN "yes" ELSE "no"} \cup (IF p.of \in Excel THEN {"refused"} ELSE {})

ChartAnswers(p) == {IF nav \in Within[p.of] THEN "yes" ELSE "no"}

(* The library may end a graphic at any time; a caret move may, without it.*)
GraphicAnswers(p) == IF nav = p.of THEN {"yes", "no"} ELSE {"no"}

BrailleAnswers(p) == {IF p.kind = BrailleKind THEN "yes" ELSE "no"}

(* What asking p.isStillValid can come to: an answer, or a raise.          *)
Answers(p) ==
  CASE p.kind = "table"   -> TableAnswers(p)
    [] p.kind = "chart"   -> ChartAnswers(p)
    [] p.kind = "graphic" -> GraphicAnswers(p)
    [] p.kind \in {"braille", "libraryBraille"} -> BrailleAnswers(p)
    [] OTHER              -> {"yes"}

Authoritative(p) == p.kind = "table"

-----------------------------------------------------------------------------
(* onReviewMove: update(), then what the renderer makes of its outcome.    *)

(* The outcome is a presentation, kept or new, and a render is due.  A     *)
(* graphic that is left is terminated, which clears its image; towards     *)
(* hybrid print it is not, because the library is drawing that.            *)
Settle(p) ==
  /\ active' = p /\ main' = "rest" /\ needsRender' = TRUE
  /\ image' = (p.kind = "graphic" \/ (image /\ active.kind # "graphic"))
  /\ UNCHANGED chosen

(* Mutant: a check that could not be answered drops a forced presentation. *)
ForceHolds_OnYes(answer) == answer = "yes"

ForceHolds(answer) == answer # "no"

KeepForced ==
  /\ main = "review" /\ forced # NoPresentation
  /\ \E answer \in Answers(forced) : ForceHolds(answer)
  /\ Settle(forced)
  /\ UNCHANGED <<worldVars, forced, dismissedObj, dismissed, strikes, refusals, frameVars,
                 terminated>>

(* A dismissed presentation is asked only away from the object it was      *)
(* dismissed on, and only if its answer is complete, as a table's is.      *)
Asked == nav # dismissedObj /\ Authoritative(dismissed)

(* Mutant: an answer does not reset the count of unanswerable checks.      *)
StrikesAfter_NoReset(answer) == IF Asked /\ answer = "refused" THEN strikes + 1 ELSE strikes

(* Consecutive times it could not say whether it is valid.                 *)
StrikesAfter(answer) ==
  IF ~Asked THEN strikes ELSE IF answer = "refused" THEN strikes + 1 ELSE 0

(* Mutant: an unanswerable check never lifts the dismissal.                *)
IsDismissed_Forever(answer) == nav = dismissedObj \/ (Asked /\ answer # "no")

(* Mutant: the dismissal of a table holds wherever the navigator goes.     *)
IsDismissed_Anywhere(answer) == nav = dismissedObj \/ Asked

IsDismissed(answer) ==
  \/ nav = dismissedObj
  \/ Asked /\ answer = "yes"
  \/ Asked /\ answer = "refused" /\ StrikesAfter(answer) <= MAX_UNANSWERABLE_VALIDITY_CHECKS

(* Mutant: an unanswerable check keeps a table the navigator may have left.*)
Reusable_UnlessNo(answer) == answer # "no"

Reusable(answer) == answer = "yes"

ForgetDismissal ==
  dismissedObj' = None /\ dismissed' = NoPresentation /\ strikes' = 0 /\ refusals' = 0

(* The providers choose.  An active table that is still valid is kept      *)
(* before its detection runs; any other active presentation is asked only  *)
(* when its own provider is the one found.                                 *)
Choose ==
  /\ main = "review"
  /\ forced # NoPresentation => \E answer \in Answers(forced) : ~ForceHolds(answer)
  /\ forced' = NoPresentation
  /\ \E d \in Answers(dismissed), a \in Answers(active) :
       LET covered == IsDismissed(d)
           found   == IF covered THEN Fallback ELSE FirstAmong(Providers, nav)
           kept    == /\ Reusable(a)
                      /\ IF Authoritative(active)
                         THEN ~covered /\ \A p \in Providers :
                                            CanProvide(p, nav) => Rank(ProviderOf(active)) <= Rank(p)
                         ELSE ProviderOf(active) = found
       IN  /\ IF covered
              THEN /\ strikes' = StrikesAfter(d)
                   /\ refusals' = IF ~Asked THEN refusals
                                  ELSE IF d = "refused" THEN refusals + 1 ELSE 0
                   /\ UNCHANGED <<dismissedObj, dismissed>>
              ELSE ForgetDismissal
           /\ IF kept THEN Settle(active)
              ELSE /\ main' = "create" /\ chosen' = found
                   /\ UNCHANGED <<active, image, needsRender>>
  /\ UNCHANGED <<worldVars, frameVars, terminated>>

(* createPresentation asks canProvide again.  Only the library's report    *)
(* can have changed since; then it raises, and the update ends there.      *)
CreatePresentation ==
  /\ main = "create"
  /\ IF CanProvide(chosen, nav)
     THEN Settle(Create(chosen, nav))
     ELSE main' = "rest" /\ UNCHANGED <<active, chosen, image, needsRender>>
  /\ UNCHANGED <<worldVars, forced, dismissedObj, dismissed, strikes, refusals, frameVars,
                 terminated>>

-----------------------------------------------------------------------------
(* What starts an update: events and the user's commands. *)

Idle == main = "rest" /\ ~terminated

Navigate(o) ==
  /\ Idle /\ o # nav
  /\ nav' = o /\ changed' = TRUE
  /\ UNCHANGED <<captureOn, hybrid, library, choiceVars, mainVars, frameVars, terminated>>

(* An event: of a move, of the caret, of a value, of the library's mode.   *)
Event ==
  /\ Idle
  /\ changed' = FALSE /\ main' = "review"
  /\ UNCHANGED <<nav, captureOn, hybrid, library, choiceVars, chosen, image, needsRender,
                 frameVars, terminated>>

(* On the worker's thread, whatever the main thread does; a mode change    *)
(* has the main thread update once more.                                   *)
ReportModes ==
  /\ ~terminated
  /\ hybrid' = ~hybrid /\ changed' = TRUE
  /\ UNCHANGED <<nav, captureOn, library, choiceVars, mainVars, frameVars, terminated>>

(* The braille source is configured, or a library session starts or ends.  *)
ChangeSource ==
  /\ Idle
  /\ library' = ~library /\ changed' = TRUE
  /\ UNCHANGED <<nav, captureOn, hybrid, choiceVars, mainVars, frameVars, terminated>>

ClearOverrides == forced' = NoPresentation /\ ForgetDismissal

ToggleScreenCapture ==
  /\ Idle
  /\ captureOn' = ~captureOn
  /\ IF captureOn' THEN ClearOverrides
     ELSE UNCHANGED <<forced, dismissedObj, dismissed, strikes, refusals>>
  /\ main' = "review"
  /\ UNCHANGED <<nav, changed, hybrid, library, active, chosen, image, needsRender, frameVars,
                 terminated>>

(* Mutant: the forced presentation becomes active at the next event.       *)
Install_Later(p) == forced' = p /\ UNCHANGED active

Install(p) == forced' = p /\ active' = p

(* The chord does nothing while a table is active, and a scan that finds   *)
(* none changes nothing.                                                   *)
ForceTable ==
  /\ Idle /\ active.kind # "table" /\ DeepTableAt[nav] # None
  /\ Install([kind |-> "table", of |-> DeepTableAt[nav]])
  /\ main' = "review"
  /\ UNCHANGED <<worldVars, dismissedObj, dismissed, strikes, refusals, chosen, image,
                 needsRender, frameVars, terminated>>

(* No update follows, only a render. *)
ForceGraphic ==
  /\ Idle /\ nav \in Located
  /\ Install([kind |-> "graphic", of |-> nav])
  /\ image' = TRUE /\ needsRender' = TRUE
  /\ UNCHANGED <<worldVars, dismissedObj, dismissed, strikes, refusals, main, chosen, frameVars,
                 terminated>>

Dismiss ==
  /\ Idle
  /\ dismissed' = active /\ dismissedObj' = nav /\ strikes' = 0 /\ refusals' = 0
  /\ forced' = NoPresentation
  /\ main' = "review"
  /\ UNCHANGED <<worldVars, active, chosen, image, needsRender, frameVars, terminated>>

-----------------------------------------------------------------------------
(* Drawing. *)

(* These draw by handing over a frame; the others have the library draw.   *)
DrawnHere == {"screenCapture", "chart", "table", "braille"}

(* A scroll, or the table after it has moved the navigator.                *)
RequestRender ==
  /\ Idle /\ active # NoPresentation
  /\ needsRender' = TRUE
  /\ UNCHANGED <<worldVars, choiceVars, main, chosen, image, frameVars, terminated>>

(* Under the lock a frame that waits is replaced, and its execution will   *)
(* do for both; for any other frame one is queued after the unlock.        *)
StoreFrame == queued' = TRUE /\ main' = IF queued THEN "rest" ELSE "queue"

(* NVDA's own braille may ask for a render by itself.  Rendering a table   *)
(* or a chart can raise, when its application does not answer: that frame  *)
(* is not drawn, and needsRender stays cleared.                            *)
CoreCycle ==
  /\ Idle
  /\ needsRender \/ active.kind = "braille"
  /\ needsRender' = FALSE
  /\ \/ active.kind \in DrawnHere /\ StoreFrame
     \/ active.kind \notin DrawnHere \ {"table", "chart"} /\ UNCHANGED <<queued, main>>
  /\ UNCHANGED <<worldVars, choiceVars, chosen, image, apcs, io, terminated>>

QueueApc ==
  /\ main = "queue"
  /\ apcs' = apcs + 1 /\ main' = "rest"
  /\ UNCHANGED <<worldVars, choiceVars, chosen, image, needsRender, queued, io, terminated>>

(* The reader thread, on the acknowledgement of a line.                    *)
WriteAgain ==
  /\ ~terminated /\ apcs + (IF io = "idle" THEN 0 ELSE 1) < MaxApcs
  /\ apcs' = apcs + 1
  /\ UNCHANGED <<worldVars, choiceVars, mainVars, queued, io, terminated>>

StartApc ==
  /\ io = "idle" /\ apcs > 0
  /\ apcs' = apcs - 1 /\ io' = "started"
  /\ UNCHANGED <<worldVars, choiceVars, mainVars, queued, terminated>>

(* Mutant: the executor leaves the frame it takes in queuedWrite.          *)
TakeFrame_Keeps ==
  /\ io = "started"
  /\ io' = IF queued THEN "drawing" ELSE "idle"
  /\ UNCHANGED <<worldVars, choiceVars, mainVars, queued, apcs, terminated>>

(* Under the lock, whatever is stored by now, if anything.                 *)
TakeFrame ==
  /\ io = "started"
  /\ queued' = FALSE /\ io' = IF queued THEN "drawing" ELSE "idle"
  /\ UNCHANGED <<worldVars, choiceVars, mainVars, apcs, terminated>>

(* Display.display or displayBraille returns: PacketSender has the rest.   *)
FrameDrawn ==
  /\ io = "drawing"
  /\ io' = "idle"
  /\ UNCHANGED <<worldVars, choiceVars, mainVars, queued, apcs, terminated>>

(* The active presentation is terminated with the manager.                 *)
Terminate ==
  /\ Idle
  /\ terminated' = TRUE
  /\ active' = NoPresentation /\ forced' = NoPresentation /\ image' = FALSE
  /\ captureOn' = FALSE /\ queued' = FALSE
  /\ UNCHANGED <<nav, changed, hybrid, library, dismissedObj, dismissed, strikes, refusals,
                 main, chosen, needsRender, apcs, io>>

Next ==
  \/ KeepForced \/ Choose \/ CreatePresentation
  \/ (\E o \in Objects : Navigate(o)) \/ Event \/ ReportModes \/ ChangeSource
  \/ ToggleScreenCapture \/ ForceTable \/ ForceGraphic \/ Dismiss
  \/ RequestRender \/ CoreCycle \/ QueueApc \/ WriteAgain
  \/ StartApc \/ TakeFrame \/ FrameDrawn \/ Terminate

Spec == Init /\ [][Next]_vars

-----------------------------------------------------------------------------
(* Properties. *)

BrailleKinds == {"braille", "libraryBraille"}

TypeOK ==
  /\ nav \in Objects
  /\ {changed, captureOn, hybrid, library, image, needsRender, queued, terminated}
       \subseteq BOOLEAN
  /\ {active, forced, dismissed} \subseteq Presentation \cup {NoPresentation}
  /\ dismissedObj \in Objects \cup {None}
  /\ strikes \in 0 .. MAX_UNANSWERABLE_VALIDITY_CHECKS
  /\ refusals \in Nat
  /\ main \in {"rest", "review", "create", "queue"} /\ chosen \in Providers
  /\ apcs \in Nat /\ io \in {"idle", "started", "drawing"}

(* "it's the same object as _activePresentation": the manager terminates   *)
(* the active presentation only, so a forced one must never be another.    *)
ForcedIsActive == forced # NoPresentation => active = forced

(* Once every change has been heard of, and neither a force nor a          *)
(* dismissal stands, what is shown is what the providers' order asks for   *)
(* -- also when the library's report flips while update() relies on it.    *)
(* A table or a chart stays while the navigator is inside, and no longer.  *)
SelectionFits ==
  Idle /\ ~changed /\ forced = NoPresentation /\ dismissedObj = None =>
    IF active.kind \in {"table", "chart"}
    THEN nav \in Within[active.of] /\ ~captureOn /\ (nav \in Charts <=> active.kind = "chart")
    ELSE active = Create(FirstAmong(Providers, nav), nav)

(* A standing dismissal shows braille, and stands only on the object it    *)
(* was made on, inside the table it dismissed, or while that table has     *)
(* refused to answer no more than three times.                             *)
DismissalScoped ==
  Idle /\ ~changed /\ forced = NoPresentation /\ dismissedObj # None =>
    /\ active.kind \in BrailleKinds
    /\ \/ nav = dismissedObj
       \/ dismissed.kind = "table" /\ nav \in Within[dismissed.of]
       \/ strikes \in 1 .. MAX_UNANSWERABLE_VALIDITY_CHECKS

(* A dismissal is lifted only by a command, or away from its object: by a  *)
(* table that was left, or that refused to answer four times in a row.     *)
DismissalHolds ==
  [][dismissedObj # None /\ dismissedObj' = None =>
       \/ main = "rest"
       \/ /\ nav # dismissedObj
          /\ dismissed.kind = "table" =>
               nav \notin Within[dismissed.of] \/ refusals = MAX_UNANSWERABLE_VALIDITY_CHECKS]_vars

(* "an unanswerable check must not drop a mode the user explicitly         *)
(* forced": a forced table goes by a command, or when it has been left.    *)
ForceOutlivesRefusals ==
  [][forced.kind = "table" /\ forced' = NoPresentation =>
       main = "rest" \/ nav \notin Within[forced.of]]_vars

(* A frame that waits is drawn: an execution will take it that has not     *)
(* looked yet, or the main thread, which stored it, is about to queue one, *)
(* although neither looks and queues in one step with the other.           *)
QueuedHasApc == queued => apcs > 0 \/ io = "started" \/ main = "queue"

(* "On graphic -> other presentation transitions, invokes                  *)
(* previousPresentation.terminate() to clear the tactile area".            *)
GraphicIsCleared == Idle /\ image => active.kind = "graphic"
=============================================================================

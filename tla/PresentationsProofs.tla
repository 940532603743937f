------------------------- MODULE PresentationsProofs -------------------------
(* Theorems about Presentations, for all objects, tables and bounds.       *)
EXTENDS Presentations, TLAPS

(* What the kind of a presentation says of its subject.                    *)
WellFormed(p) ==
  \/ p = NoPresentation
  \/ p.kind \in {"screenCapture", "hybridPrint", "braille", "libraryBraille"} /\ p.of = None
     /\ p \in Presentation
  \/ p.kind \in {"chart", "graphic"} /\ p.of \in Objects /\ p \in Presentation
  \/ p.kind = "table" /\ p.of \in Tables /\ p \in Presentation

(* The inductive invariant: TypeOK, in parts; the shapes; and that no      *)
(* presentation is dismissed without the object it was dismissed on.       *)
WorldTypes ==
  /\ nav \in Objects
  /\ changed \in BOOLEAN /\ captureOn \in BOOLEAN /\ hybrid \in BOOLEAN /\ library \in BOOLEAN
  /\ terminated \in BOOLEAN

MainTypes ==
  /\ main \in {"rest", "review", "create", "queue"} /\ chosen \in Providers
  /\ image \in BOOLEAN /\ needsRender \in BOOLEAN

FrameTypes == queued \in BOOLEAN /\ io \in {"idle", "started", "drawing"} /\ apcs \in Nat

ChoiceTypes ==
  /\ WellFormed(active) /\ WellFormed(forced) /\ WellFormed(dismissed)
  /\ dismissedObj \in Objects \cup {None}
  /\ strikes \in 0 .. MAX_UNANSWERABLE_VALIDITY_CHECKS
  /\ refusals = strikes
  /\ dismissedObj = None => dismissed = NoPresentation

Typed == WorldTypes /\ MainTypes /\ FrameTypes /\ ChoiceTypes

LEMMA Ranks ==
  /\ Providers = {"screenCapture", "chart", "table", "graphic", "hybridPrint", "braille"}
  /\ Rank("screenCapture") = 1 /\ Rank("chart") = 2 /\ Rank("table") = 3
  /\ Rank("graphic") = 4 /\ Rank("hybridPrint") = 5 /\ Rank("braille") = 6
<1>1. DOMAIN Priority = 1 .. 6
  BY DEF Priority
<1>2. DOMAIN Priority = {1, 2, 3, 4, 5, 6}
  BY <1>1
<1>3. /\ Priority[1] = "screenCapture" /\ Priority[2] = "chart" /\ Priority[3] = "table"
      /\ Priority[4] = "graphic" /\ Priority[5] = "hybridPrint" /\ Priority[6] = "braille"
  BY DEF Priority
<1>4. Providers = {"screenCapture", "chart", "table", "graphic", "hybridPrint", "braille"}
  BY <1>2, <1>3 DEF Providers
<1>5. \A i \in DOMAIN Priority : Rank(Priority[i]) = i
  BY <1>2, <1>3 DEF Rank
<1> QED
  BY <1>2, <1>3, <1>4, <1>5

(* Some provider always comes first, because braille can always provide.   *)
LEMMA FirstExists ==
  ASSUME NEW o \in Objects
  PROVE  /\ FirstAmong(Providers, o) \in Providers
         /\ CanProvide(FirstAmong(Providers, o), o)
         /\ \A q \in Providers : CanProvide(q, o) => Rank(FirstAmong(Providers, o)) <= Rank(q)
<1> DEFINE Best(p) == CanProvide(p, o) /\ \A q \in Providers : CanProvide(q, o) => Rank(p) <= Rank(q)
<1>1. CanProvide("braille", o)
  BY DEF CanProvide
<1>2. \E p \in Providers : Best(p)
  <2>1. CASE CanProvide("screenCapture", o)
    BY <2>1, Ranks
  <2>2. CASE ~CanProvide("screenCapture", o) /\ CanProvide("chart", o)
    BY <2>2, Ranks
  <2>3. CASE ~CanProvide("screenCapture", o) /\ ~CanProvide("chart", o) /\ CanProvide("table", o)
    BY <2>3, Ranks
  <2>4. CASE /\ ~CanProvide("screenCapture", o) /\ ~CanProvide("chart", o)
             /\ ~CanProvide("table", o) /\ CanProvide("graphic", o)
    BY <2>4, Ranks
  <2>5. CASE /\ ~CanProvide("screenCapture", o) /\ ~CanProvide("chart", o)
             /\ ~CanProvide("table", o) /\ ~CanProvide("graphic", o)
    BY <2>5, <1>1, Ranks
  <2> QED
    BY <2>1, <2>2, <2>3, <2>4, <2>5
<1>3. FirstAmong(Providers, o) = CHOOSE p \in Providers : Best(p)
  BY DEF FirstAmong
<1> HIDE DEF Best
<1>4. FirstAmong(Providers, o) \in Providers /\ Best(FirstAmong(Providers, o))
  BY <1>2, <1>3
<1> QED
  BY <1>4 DEF Best

(* A new presentation is one of its provider's, of the object it is for.   *)
LEMMA CreateShape ==
  ASSUME NEW o \in Objects, NEW p \in Providers, CanProvide(p, o)
  PROVE  /\ WellFormed(Create(p, o)) /\ Create(p, o) # NoPresentation
         /\ ProviderOf(Create(p, o)) = p
<1> USE Ranks, ObjectAssumption DEF Create, WellFormed, Presentation, Kinds, NoPresentation, ProviderOf
<1>1. CASE p = "chart" \/ p = "graphic"
  BY <1>1
<1>2. CASE p = "table"
  <2>1. TableAt[o] \in Tables
    BY <1>2 DEF CanProvide
  <2> QED
    BY <1>2, <2>1
<1>3. CASE p = "braille"
  BY <1>3 DEF BrailleKind
<1>4. CASE p = "screenCapture" \/ p = "hybridPrint"
  BY <1>4
<1> QED
  BY <1>1, <1>2, <1>3, <1>4

LEMMA TypedInit == Init => Typed
<1> SUFFICES ASSUME Init PROVE Typed
  OBVIOUS
<1>1. WorldTypes
  BY DEF Init, WorldTypes
<1>2. FrameTypes
  BY DEF Init, FrameTypes
<1>3. MainTypes
  BY Ranks DEF Init, MainTypes
<1>4. ChoiceTypes
  BY DEF Init, ChoiceTypes, WellFormed, MAX_UNANSWERABLE_VALIDITY_CHECKS
<1> QED
  BY <1>1, <1>3, <1>4, <1>2 DEF Typed

-----------------------------------------------------------------------------
(* Every step preserves the types. *)

LEMMA SettleTypes ==
  ASSUME MainTypes, NEW p, Settle(p)
  PROVE  MainTypes' /\ active' = p
<1>1. image' \in BOOLEAN
  BY DEF Settle
<1> QED
  BY <1>1 DEF Settle, MainTypes

(* However the dismissal comes out, its part of the state stays typed, and *)
(* the count of refusals stays within its limit.                           *)
LEMMA ChooseDismissal ==
  ASSUME Typed, Choose
  PROVE  /\ WellFormed(dismissed') /\ dismissedObj' \in Objects \cup {None}
         /\ strikes' \in 0 .. MAX_UNANSWERABLE_VALIDITY_CHECKS
         /\ refusals' = strikes'
         /\ dismissedObj' = None => dismissed' = NoPresentation
<1>1. PICK d \in Answers(dismissed) :
        IF IsDismissed(d)
        THEN /\ strikes' = StrikesAfter(d)
             /\ refusals' = IF ~Asked THEN refusals
                            ELSE IF d = "refused" THEN refusals + 1 ELSE 0
             /\ UNCHANGED <<dismissedObj, dismissed>>
        ELSE ForgetDismissal
  BY DEF Choose
<1>2. CASE IsDismissed(d)
  <2> USE <1>1, <1>2
  <2>1. /\ WellFormed(dismissed') /\ dismissedObj' \in Objects \cup {None}
        /\ dismissedObj' = None => dismissed' = NoPresentation
    BY DEF Typed, ChoiceTypes
  <2>2. refusals' = strikes'
    BY DEF StrikesAfter, Typed, ChoiceTypes
  <2>3. strikes' \in 0 .. MAX_UNANSWERABLE_VALIDITY_CHECKS
    <3>1. CASE ~Asked
      BY <3>1 DEF StrikesAfter, Typed, ChoiceTypes
    <3>2. CASE Asked /\ d = "refused"
      BY <3>2 DEF StrikesAfter, IsDismissed, Asked, Typed, ChoiceTypes,
         MAX_UNANSWERABLE_VALIDITY_CHECKS
    <3>3. CASE Asked /\ d # "refused"
      BY <3>3 DEF StrikesAfter, MAX_UNANSWERABLE_VALIDITY_CHECKS
    <3> QED
      BY <3>1, <3>2, <3>3
  <2> QED
    BY <2>1, <2>2, <2>3
<1>3. CASE ~IsDismissed(d)
  BY <1>1, <1>3 DEF ForgetDismissal, WellFormed, MAX_UNANSWERABLE_VALIDITY_CHECKS
<1> QED
  BY <1>2, <1>3

(* Choosing either keeps the active presentation or goes on to create one. *)
LEMMA ChooseOutcome ==
  ASSUME Typed, Choose
  PROVE  \/ Settle(active)
         \/ /\ main' = "create" /\ chosen' \in Providers
            /\ UNCHANGED <<active, image, needsRender>>
<1>1. PICK d \in Answers(dismissed) :
        \/ Settle(active)
        \/ /\ main' = "create"
           /\ chosen' = IF IsDismissed(d) THEN Fallback ELSE FirstAmong(Providers, nav)
           /\ UNCHANGED <<active, image, needsRender>>
  BY DEF Choose
<1>2. FirstAmong(Providers, nav) \in Providers
  BY FirstExists DEF Typed, WorldTypes
<1>3. Fallback \in Providers
  BY Ranks DEF Fallback
<1> QED
  BY <1>1, <1>2, <1>3

LEMMA TypedUpdate ==
  ASSUME Typed, KeepForced \/ Choose \/ CreatePresentation
  PROVE  Typed'
<1> USE DEF Typed
<1>1. WorldTypes' /\ FrameTypes'
  <2>1. UNCHANGED <<worldVars, frameVars, terminated>>
    BY DEF KeepForced, Choose, CreatePresentation
  <2>2. WorldTypes'
    BY <2>1 DEF WorldTypes, worldVars
  <2>3. FrameTypes'
    BY <2>1 DEF FrameTypes, frameVars
  <2> QED
    BY <2>2, <2>3
<1>2. CASE KeepForced
  <2>1. Settle(forced) /\ UNCHANGED <<forced, dismissedObj, dismissed, strikes, refusals>>
    BY <1>2 DEF KeepForced
  <2>2. MainTypes' /\ active' = forced
    BY <2>1, SettleTypes
  <2>3. ChoiceTypes'
    BY <2>1, <2>2 DEF ChoiceTypes, WellFormed
  <2> QED
    BY <1>1, <2>2, <2>3
<1>3. CASE Choose
  <2>1. MainTypes' /\ active' = active
    <3>1. CASE Settle(active)
      BY <3>1, SettleTypes
    <3>2. CASE /\ main' = "create" /\ chosen' \in Providers
               /\ UNCHANGED <<active, image, needsRender>>
      BY <3>2 DEF MainTypes
    <3> QED
      BY <1>3, <3>1, <3>2, ChooseOutcome
  <2>2. WellFormed(active') /\ WellFormed(forced')
    BY <1>3, <2>1 DEF Choose, ChoiceTypes, WellFormed
  <2>3. ChoiceTypes'
    BY <1>3, <2>2, ChooseDismissal DEF ChoiceTypes, WellFormed
  <2> QED
    BY <1>1, <2>1, <2>3
<1>4. CASE CreatePresentation
  <2>1. UNCHANGED <<forced, dismissedObj, dismissed, strikes, refusals>>
    BY <1>4 DEF CreatePresentation
  <2>2. CASE CanProvide(chosen, nav)
    <3>1. Settle(Create(chosen, nav))
      BY <1>4, <2>2 DEF CreatePresentation
    <3>2. MainTypes' /\ active' = Create(chosen, nav)
      BY <3>1, SettleTypes
    <3>3. WellFormed(Create(chosen, nav))
      BY <2>2, CreateShape DEF MainTypes, WorldTypes
    <3>4. ChoiceTypes'
      BY <2>1, <3>2, <3>3 DEF ChoiceTypes, WellFormed
    <3> QED
      BY <1>1, <3>2, <3>4
  <2>3. CASE ~CanProvide(chosen, nav)
    <3>1. main' = "rest" /\ UNCHANGED <<active, chosen, image, needsRender>>
      BY <1>4, <2>3 DEF CreatePresentation
    <3>2. MainTypes' /\ ChoiceTypes'
      BY <2>1, <3>1 DEF MainTypes, ChoiceTypes, WellFormed
    <3> QED
      BY <1>1, <3>2
  <2> QED
    BY <2>2, <2>3
<1> QED
  BY <1>2, <1>3, <1>4

(* The steps that only disturb the world, by part of the state.            *)
LEMMA TypedWorldStep ==
  ASSUME Typed, (\E o \in Objects : Navigate(o)) \/ Event \/ ReportModes \/ ChangeSource
  PROVE  Typed'
<1> USE DEF Typed
<1>1. UNCHANGED choiceVars /\ UNCHANGED frameVars /\ UNCHANGED <<chosen, image, needsRender>>
  BY DEF Navigate, Event, ReportModes, ChangeSource, mainVars
<1>2. ChoiceTypes'
  BY <1>1 DEF ChoiceTypes, WellFormed, choiceVars
<1>3. FrameTypes'
  BY <1>1 DEF FrameTypes, frameVars
<1>4. MainTypes'
  <2>1. main' \in {"rest", "review", "create", "queue"}
    BY DEF Navigate, Event, ReportModes, ChangeSource, mainVars, MainTypes
  <2> QED
    BY <1>1, <2>1 DEF MainTypes
<1>5. WorldTypes'
  <2>1. CASE \E o \in Objects : Navigate(o)
    BY <2>1 DEF Navigate, WorldTypes
  <2>2. CASE Event
    BY <2>2 DEF Event, WorldTypes
  <2>3. CASE ReportModes
    BY <2>3 DEF ReportModes, WorldTypes
  <2>4. CASE ChangeSource
    BY <2>4 DEF ChangeSource, WorldTypes
  <2> QED
    BY <2>1, <2>2, <2>3, <2>4
<1> QED
  BY <1>2, <1>3, <1>4, <1>5

LEMMA TypedCommand ==
  ASSUME Typed, ToggleScreenCapture \/ ForceTable \/ ForceGraphic \/ Dismiss
  PROVE  Typed'
<1> USE DEF Typed
<1>1. /\ UNCHANGED frameVars /\ UNCHANGED <<nav, changed, hybrid, library, terminated>>
      /\ UNCHANGED chosen
  BY DEF ToggleScreenCapture, ForceTable, ForceGraphic, Dismiss, worldVars
<1>2. FrameTypes'
  BY <1>1 DEF FrameTypes, frameVars
<1>3. WorldTypes'
  <2>1. captureOn' \in BOOLEAN
    <3>1. CASE ToggleScreenCapture
      BY <3>1 DEF ToggleScreenCapture
    <3>2. CASE ForceTable \/ ForceGraphic \/ Dismiss
      BY <3>2 DEF ForceTable, ForceGraphic, Dismiss, worldVars, WorldTypes
    <3> QED
      BY <3>1, <3>2
  <2> QED
    BY <1>1, <2>1 DEF WorldTypes
<1>4. MainTypes'
  <2>1. main' \in {"rest", "review", "create", "queue"}
    BY DEF ToggleScreenCapture, ForceTable, ForceGraphic, Dismiss, MainTypes
  <2>2. image' \in BOOLEAN /\ needsRender' \in BOOLEAN
    BY DEF ToggleScreenCapture, ForceTable, ForceGraphic, Dismiss, MainTypes
  <2> QED
    BY <1>1, <2>1, <2>2 DEF MainTypes
<1>5. ChoiceTypes'
  <2>1. CASE ToggleScreenCapture
    <3>1. WellFormed(active')
      BY <2>1 DEF ToggleScreenCapture, ChoiceTypes
    <3>2. CASE captureOn'
      BY <2>1, <3>1, <3>2 DEF ToggleScreenCapture, ClearOverrides, ForgetDismissal, ChoiceTypes,
         WellFormed, MAX_UNANSWERABLE_VALIDITY_CHECKS
    <3>3. CASE ~captureOn'
      BY <2>1, <3>1, <3>3 DEF ToggleScreenCapture, ChoiceTypes, WellFormed
    <3> QED
      BY <3>2, <3>3
  <2>2. CASE ForceTable
    <3>1. DeepTableAt[nav] \in Tables
      BY <2>2, ObjectAssumption DEF ForceTable, WorldTypes
    <3>2. WellFormed([kind |-> "table", of |-> DeepTableAt[nav]])
      BY <3>1 DEF WellFormed, Presentation, Kinds
    <3>3. forced' = [kind |-> "table", of |-> DeepTableAt[nav]] /\ active' = forced'
      BY <2>2 DEF ForceTable, Install
    <3>4. UNCHANGED <<dismissedObj, dismissed, strikes, refusals>>
      BY <2>2 DEF ForceTable
    <3>5. WellFormed(forced') /\ WellFormed(active') /\ WellFormed(dismissed')
      BY <3>2, <3>3, <3>4 DEF ChoiceTypes
    <3> QED
      BY <3>5, <3>4 DEF ChoiceTypes
  <2>3. CASE ForceGraphic
    <3>1. WellFormed([kind |-> "graphic", of |-> nav])
      BY DEF WellFormed, Presentation, Kinds, WorldTypes
    <3>2. forced' = [kind |-> "graphic", of |-> nav] /\ active' = forced'
      BY <2>3 DEF ForceGraphic, Install
    <3>3. UNCHANGED <<dismissedObj, dismissed, strikes, refusals>>
      BY <2>3 DEF ForceGraphic
    <3>4. WellFormed(forced') /\ WellFormed(active') /\ WellFormed(dismissed')
      BY <3>1, <3>2, <3>3 DEF ChoiceTypes
    <3> QED
      BY <3>4, <3>3 DEF ChoiceTypes
  <2>4. CASE Dismiss
    <3>1. dismissedObj' # None
      BY <2>4, ObjectAssumption DEF Dismiss, WorldTypes
    <3> QED
      BY <2>4, <3>1 DEF Dismiss, ChoiceTypes, WellFormed, WorldTypes,
         MAX_UNANSWERABLE_VALIDITY_CHECKS
  <2> QED
    BY <2>1, <2>2, <2>3, <2>4
<1> QED
  BY <1>2, <1>3, <1>4, <1>5

LEMMA TypedDrawing ==
  ASSUME Typed, \/ RequestRender \/ CoreCycle \/ QueueApc \/ WriteAgain
                \/ StartApc \/ TakeFrame \/ FrameDrawn \/ Terminate
  PROVE  Typed'
<1> USE DEF Typed
<1>1. CASE RequestRender
  BY <1>1 DEF RequestRender, WorldTypes, MainTypes, FrameTypes, ChoiceTypes, WellFormed,
     worldVars, frameVars, choiceVars
<1>2. CASE CoreCycle
  <2>1. WorldTypes' /\ MainTypes' /\ ChoiceTypes'
    <3>1. WorldTypes'
      BY <1>2 DEF CoreCycle, WorldTypes, worldVars
    <3>2. MainTypes'
      BY <1>2 DEF CoreCycle, StoreFrame, Idle, MainTypes
    <3>3. UNCHANGED choiceVars
      BY <1>2 DEF CoreCycle
    <3>4. ChoiceTypes'
      BY <3>3 DEF ChoiceTypes, WellFormed, choiceVars
    <3> QED
      BY <3>1, <3>2, <3>4
  <2>2. FrameTypes'
    BY <1>2 DEF CoreCycle, StoreFrame, FrameTypes
  <2> QED
    BY <2>1, <2>2
<1>3. CASE QueueApc \/ WriteAgain \/ StartApc \/ TakeFrame \/ FrameDrawn
  <2>1. WorldTypes' /\ ChoiceTypes'
    BY <1>3 DEF QueueApc, WriteAgain, StartApc, TakeFrame, FrameDrawn, WorldTypes, ChoiceTypes,
       WellFormed, worldVars, choiceVars
  <2>2. MainTypes'
    BY <1>3 DEF QueueApc, WriteAgain, StartApc, TakeFrame, FrameDrawn, MainTypes, mainVars
  <2>3. queued' \in BOOLEAN /\ io' \in {"idle", "started", "drawing"}
    BY <1>3 DEF QueueApc, WriteAgain, StartApc, TakeFrame, FrameDrawn, FrameTypes
  <2>4. apcs' \in Nat
    BY <1>3 DEF QueueApc, WriteAgain, StartApc, TakeFrame, FrameDrawn, FrameTypes
  <2> QED
    BY <2>1, <2>2, <2>3, <2>4 DEF FrameTypes
<1>4. CASE Terminate
  <2>1. WorldTypes' /\ MainTypes'
    BY <1>4 DEF Terminate, WorldTypes, MainTypes
  <2>2. ChoiceTypes'
    BY <1>4 DEF Terminate, ChoiceTypes, WellFormed
  <2>3. FrameTypes'
    BY <1>4 DEF Terminate, FrameTypes
  <2> QED
    BY <2>1, <2>2, <2>3
<1> QED
  BY <1>1, <1>2, <1>3, <1>4

LEMMA TypedNext == Typed /\ [Next]_vars => Typed'
<1> SUFFICES ASSUME Typed, [Next]_vars PROVE Typed'
  OBVIOUS
<1>1. CASE UNCHANGED vars
  BY <1>1 DEF vars, Typed, WorldTypes, MainTypes, FrameTypes, ChoiceTypes, WellFormed,
     worldVars, choiceVars, mainVars, frameVars
<1>2. CASE Next
  BY <1>2, TypedUpdate, TypedWorldStep, TypedCommand, TypedDrawing DEF Next
<1> QED
  BY <1>1, <1>2

LEMMA AlwaysTyped == Spec => []Typed
  BY TypedInit, TypedNext, PTL DEF Spec

LEMMA TypedIsTypeOK == Typed => TypeOK
<1> SUFFICES ASSUME Typed PROVE TypeOK
  OBVIOUS
<1>1. {active, forced, dismissed} \subseteq Presentation \cup {NoPresentation}
  BY DEF Typed, ChoiceTypes, WellFormed
<1>2. {changed, captureOn, hybrid, library, image, needsRender, queued, terminated}
        \subseteq BOOLEAN
  BY DEF Typed, WorldTypes, MainTypes, FrameTypes
<1>3. refusals \in Nat
  BY DEF Typed, ChoiceTypes, MAX_UNANSWERABLE_VALIDITY_CHECKS
<1> QED
  BY <1>1, <1>2, <1>3 DEF Typed, WorldTypes, MainTypes, FrameTypes, ChoiceTypes, TypeOK

(* Every variable keeps its type; the count of unanswerable checks never   *)
(* passes its limit.                                                       *)
THEOREM TypeCorrect == Spec => []TypeOK
  BY AlwaysTyped, TypedIsTypeOK, PTL

-----------------------------------------------------------------------------
(* A forced presentation is the active one, and its checks are asked only  *)
(* in KeepForced and Choose. *)

ForcedInv == ForcedIsActive /\ (main = "create" => forced = NoPresentation)

LEMMA ForcedNext == Typed /\ ForcedInv /\ [Next]_vars => ForcedInv'
<1> SUFFICES ASSUME Typed, ForcedInv, [Next]_vars PROVE ForcedInv'
  OBVIOUS
<1> USE DEF ForcedInv, ForcedIsActive
<1>1. CASE UNCHANGED vars
  BY <1>1 DEF vars, choiceVars, mainVars
<1>2. CASE KeepForced
  BY <1>2 DEF KeepForced, Settle
<1>3. CASE Choose
  BY <1>3 DEF Choose
<1>4. CASE CreatePresentation
  BY <1>4 DEF CreatePresentation, Settle
<1>5. CASE (\E o \in Objects : Navigate(o)) \/ Event \/ ReportModes \/ ChangeSource
  BY <1>5 DEF Navigate, Event, ReportModes, ChangeSource, choiceVars, mainVars
<1>6. CASE ToggleScreenCapture
  BY <1>6 DEF ToggleScreenCapture, ClearOverrides
<1>7. CASE ForceTable \/ ForceGraphic
  <2>1. active' = forced'
    BY <1>7 DEF ForceTable, ForceGraphic, Install
  <2>2. main' # "create"
    BY <1>7 DEF ForceTable, ForceGraphic, Idle
  <2> QED
    BY <2>1, <2>2
<1>8. CASE Dismiss \/ Terminate
  BY <1>8 DEF Dismiss, Terminate
<1>9. CASE RequestRender \/ CoreCycle \/ QueueApc \/ WriteAgain
             \/ StartApc \/ TakeFrame \/ FrameDrawn
  BY <1>9 DEF RequestRender, CoreCycle, StoreFrame, QueueApc, WriteAgain,
     StartApc, TakeFrame, FrameDrawn, Idle, choiceVars, mainVars
<1> QED
  BY <1>1, <1>2, <1>3, <1>4, <1>5, <1>6, <1>7, <1>8, <1>9 DEF Next

(* terminate() may leave the forced presentation alone: it has terminated  *)
(* it as the active one.                                                   *)
THEOREM ForcedIsAlwaysActive == Spec => []ForcedIsActive
<1>1. Init => ForcedInv
  BY DEF Init, ForcedInv, ForcedIsActive
<1>2. ForcedInv => ForcedIsActive
  BY DEF ForcedInv
<1> QED
  BY <1>1, <1>2, AlwaysTyped, ForcedNext, PTL DEF Spec

(* A forced table goes by a command or when it has been left, never        *)
(* because its application refused to answer.                              *)
THEOREM RefusalsKeepTheForce == Spec => ForceOutlivesRefusals
<1>1. ASSUME Typed, [Next]_vars, forced.kind = "table", forced' = NoPresentation
      PROVE  main = "rest" \/ nav \notin Within[forced.of]
  <2>1. forced # NoPresentation
    BY <1>1 DEF NoPresentation
  <2>2. CASE Choose
    <3>1. PICK answer \in Answers(forced) : ~ForceHolds(answer)
      BY <2>1, <2>2 DEF Choose
    <3>2. "no" \in Answers(forced)
      BY <3>1 DEF ForceHolds
    <3>3. CASE nav \in Within[forced.of]
      BY <1>1, <3>2, <3>3 DEF Answers, TableAnswers
    <3> QED
      BY <3>3
  <2>3. CASE ToggleScreenCapture \/ Dismiss \/ Terminate \/ ForceTable \/ ForceGraphic
    BY <2>3 DEF ToggleScreenCapture, Dismiss, Terminate, ForceTable, ForceGraphic, Idle
  <2>4. CASE UNCHANGED vars
    BY <1>1, <2>1, <2>4 DEF vars, choiceVars
  <2>5. CASE KeepForced \/ CreatePresentation
    BY <1>1, <2>1, <2>5 DEF KeepForced, CreatePresentation
  <2>6. CASE \/ (\E o \in Objects : Navigate(o)) \/ Event \/ ReportModes \/ ChangeSource
             \/ RequestRender \/ CoreCycle \/ QueueApc \/ WriteAgain
             \/ StartApc \/ TakeFrame \/ FrameDrawn
    BY <1>1, <2>1, <2>6 DEF Navigate, Event, ReportModes, ChangeSource, RequestRender, CoreCycle,
       StoreFrame, QueueApc, WriteAgain, StartApc, TakeFrame, FrameDrawn, choiceVars
  <2> QED
    BY <1>1, <2>2, <2>3, <2>4, <2>5, <2>6 DEF Next
<1>2. Typed /\ [Next]_vars =>
        [forced.kind = "table" /\ forced' = NoPresentation =>
           main = "rest" \/ nav \notin Within[forced.of]]_vars
  BY <1>1
<1> QED
  BY <1>2, AlwaysTyped, PTL DEF Spec, ForceOutlivesRefusals

(* A dismissal is lifted by a command, or by leaving what it covers.       *)
THEOREM DismissalIsKept == Spec => DismissalHolds
<1> DEFINE Lifted == \/ main = "rest"
                     \/ /\ nav # dismissedObj
                        /\ dismissed.kind = "table" =>
                             \/ nav \notin Within[dismissed.of]
                             \/ refusals = MAX_UNANSWERABLE_VALIDITY_CHECKS
<1>1. ASSUME Typed, [Next]_vars, dismissedObj # None, dismissedObj' = None
      PROVE  Lifted
  <2>1. CASE Choose
    <3>1. PICK d \in Answers(dismissed) :
            IF IsDismissed(d) THEN UNCHANGED <<dismissedObj, dismissed>> ELSE ForgetDismissal
      BY <2>1 DEF Choose
    <3>2. ~IsDismissed(d)
      BY <1>1, <3>1
    <3>3. nav # dismissedObj
      BY <3>2 DEF IsDismissed
    <3>4. CASE dismissed.kind = "table" /\ nav \in Within[dismissed.of]
      <4>1. Asked
        BY <3>3, <3>4 DEF Asked, Authoritative
      <4>2. d \in {"yes", "refused"}
        BY <3>4 DEF Answers, TableAnswers
      <4>3. d = "refused" /\ ~(strikes + 1 <= MAX_UNANSWERABLE_VALIDITY_CHECKS)
        BY <3>2, <4>1, <4>2 DEF IsDismissed, StrikesAfter
      <4>4. strikes \in 0 .. 3 /\ refusals = strikes
        BY <1>1 DEF Typed, ChoiceTypes, MAX_UNANSWERABLE_VALIDITY_CHECKS
      <4>5. refusals = MAX_UNANSWERABLE_VALIDITY_CHECKS
        BY <4>3, <4>4 DEF MAX_UNANSWERABLE_VALIDITY_CHECKS
      <4> QED
        BY <3>3, <4>5
    <3> QED
      BY <3>3, <3>4
  <2>2. CASE ToggleScreenCapture \/ Dismiss \/ Terminate \/ ForceTable \/ ForceGraphic
    BY <2>2 DEF ToggleScreenCapture, Dismiss, Terminate, ForceTable, ForceGraphic, Idle
  <2>3. CASE UNCHANGED vars \/ KeepForced \/ CreatePresentation
    BY <1>1, <2>3 DEF vars, choiceVars, KeepForced, CreatePresentation
  <2>4. CASE \/ (\E o \in Objects : Navigate(o)) \/ Event \/ ReportModes \/ ChangeSource
             \/ RequestRender \/ CoreCycle \/ QueueApc \/ WriteAgain
             \/ StartApc \/ TakeFrame \/ FrameDrawn
    BY <1>1, <2>4 DEF Navigate, Event, ReportModes, ChangeSource, RequestRender, CoreCycle,
       StoreFrame, QueueApc, WriteAgain, StartApc, TakeFrame, FrameDrawn, choiceVars
  <2> QED
    BY <1>1, <2>1, <2>2, <2>3, <2>4 DEF Next
<1>2. Typed /\ [Next]_vars => [dismissedObj # None /\ dismissedObj' = None => Lifted]_vars
  BY <1>1
<1> QED
  BY <1>2, AlwaysTyped, PTL DEF Spec, DismissalHolds
-----------------------------------------------------------------------------
LEMMA QueuedNext == Typed /\ QueuedHasApc /\ [Next]_vars => QueuedHasApc'
<1> SUFFICES ASSUME Typed, QueuedHasApc, [Next]_vars PROVE QueuedHasApc'
  OBVIOUS
<1> USE DEF QueuedHasApc
<1>1. queued \in BOOLEAN /\ apcs \in Nat
  BY DEF Typed, FrameTypes
<1>2. CASE CoreCycle
  <2>1. CASE StoreFrame
    <3>1. main # "queue" /\ UNCHANGED <<apcs, io>>
      BY <1>2 DEF CoreCycle, Idle
    <3>2. main' = IF queued THEN "rest" ELSE "queue"
      BY <2>1 DEF StoreFrame
    <3> QED
      BY <3>1, <3>2
  <2>2. CASE UNCHANGED <<queued, main>>
    BY <1>2, <2>2 DEF CoreCycle
  <2> QED
    BY <1>2, <2>1, <2>2 DEF CoreCycle
<1>3. CASE QueueApc
  BY <1>1, <1>3 DEF QueueApc
<1>4. CASE WriteAgain
  BY <1>1, <1>4 DEF WriteAgain, mainVars
<1>5. CASE StartApc
  BY <1>5 DEF StartApc
<1>6. CASE TakeFrame \/ Terminate
  BY <1>6 DEF TakeFrame, Terminate
<1>7. CASE FrameDrawn
  BY <1>7 DEF FrameDrawn, mainVars
<1>8. CASE UNCHANGED vars
  BY <1>8 DEF vars, frameVars, mainVars
<1>9. CASE \/ KeepForced \/ Choose \/ CreatePresentation
           \/ (\E o \in Objects : Navigate(o)) \/ Event \/ ReportModes \/ ChangeSource
           \/ ToggleScreenCapture \/ ForceTable \/ ForceGraphic \/ Dismiss \/ RequestRender
  <2>1. UNCHANGED frameVars
    BY <1>9 DEF KeepForced, Choose, CreatePresentation, Navigate, Event, ReportModes,
       ChangeSource, ToggleScreenCapture, ForceTable, ForceGraphic, Dismiss, RequestRender
  <2>2. main # "queue" \/ main' = "queue"
    BY <1>9 DEF KeepForced, Choose, CreatePresentation, Navigate, Event, ReportModes,
       ChangeSource, ToggleScreenCapture, ForceTable, ForceGraphic, Dismiss, RequestRender,
       Idle, mainVars
  <2> QED
    BY <2>1, <2>2 DEF frameVars
<1> QED
  BY <1>2, <1>3, <1>4, <1>5, <1>6, <1>7, <1>8, <1>9 DEF Next

(* However the storing of a frame, the queueing of its write after the     *)
(* unlock, the acknowledgements' own writes and the start and the take of  *)
(* the I/O thread interleave, a frame that waits comes to be taken.        *)
THEOREM WaitingFrameIsTaken == Spec => []QueuedHasApc
<1>1. Init => QueuedHasApc
  BY DEF Init, QueuedHasApc
<1> QED
  BY <1>1, QueuedNext, AlwaysTyped, PTL DEF Spec
-----------------------------------------------------------------------------
(* What is shown fits the navigator object, and a dismissal its scope: the *)
(* invariants of Presentations that relate the choice to the world.        *)

First == FirstAmong(Providers, nav)
Wanted == Create(First, nav)

Fits ==
  IF active.kind \in {"table", "chart"}
  THEN nav \in Within[active.of] /\ ~captureOn /\ (nav \in Charts <=> active.kind = "chart")
  ELSE active = Wanted

Scope ==
  \/ nav = dismissedObj
  \/ dismissed.kind = "table" /\ nav \in Within[dismissed.of]
  \/ strikes \in 1 .. MAX_UNANSWERABLE_VALIDITY_CHECKS

(* What holds at rest, and what choosing has established by the time the   *)
(* presentation is created.                                                *)
Chosen ==
  /\ main \in {"rest", "queue"} /\ ~terminated /\ ~changed =>
       (forced = NoPresentation /\ dismissedObj = None => Fits)
  /\ main = "create" /\ ~changed /\ dismissedObj = None => chosen = First

Covered ==
  /\ main \in {"rest", "queue"} /\ ~terminated /\ ~changed =>
       (forced = NoPresentation /\ dismissedObj # None => active.kind \in BrailleKinds /\ Scope)
  /\ main = "create" /\ dismissedObj # None => chosen = Fallback /\ Scope

LEMMA FirstFact ==
  ASSUME Typed
  PROVE  /\ First \in Providers /\ CanProvide(First, nav)
         /\ \A q \in Providers : CanProvide(q, nav) => Rank(First) <= Rank(q)
  BY FirstExists DEF Typed, WorldTypes, First

(* The providers' answers depend on nothing but these four.                *)
LEMMA SameWorld ==
  ASSUME UNCHANGED <<nav, captureOn, hybrid, library>>
  PROVE  First' = First /\ Wanted' = Wanted
<1>1. \A p, o : CanProvide(p, o)' = CanProvide(p, o)
  BY DEF CanProvide
<1>2. First' = First
  BY <1>1 DEF First, FirstAmong, CanProvide
<1>3. Wanted' = Wanted
  BY <1>2 DEF Wanted, Create, BrailleKind
<1> QED
  BY <1>2, <1>3

(* Braille is where a dismissal leads.                                     *)
LEMMA BrailleIsBraille ==
  ASSUME NEW o
  PROVE  CanProvide(Fallback, o) /\ Create(Fallback, o).kind \in BrailleKinds
  BY DEF CanProvide, Fallback, Create, BrailleKind, BrailleKinds

(* A table comes first only where nothing outranks it.                     *)
LEMMA TableFirst ==
  ASSUME Typed, \A q \in Providers : CanProvide(q, nav) => Rank("table") <= Rank(q)
  PROVE  ~captureOn /\ nav \notin Charts
<1>1. ~CanProvide("screenCapture", nav) /\ ~CanProvide("chart", nav)
  BY Ranks
<1> QED
  BY <1>1 DEF CanProvide

(* A chart comes first only on a chart, and where nothing is captured.     *)
LEMMA ChartFirst ==
  ASSUME Typed, First = "chart"
  PROVE  nav \in Charts /\ ~captureOn
<1>1. CanProvide("chart", nav) /\ ~CanProvide("screenCapture", nav)
  BY FirstFact, Ranks
<1> QED
  BY <1>1 DEF CanProvide

(* What is created for the first provider fits.                            *)
LEMMA CreatedFits ==
  ASSUME Typed, active' = Wanted, UNCHANGED <<nav, captureOn, hybrid, library>>
  PROVE  Fits'
<1>1. CASE First = "table"
  <2>1. Wanted = [kind |-> "table", of |-> TableAt[nav]]
    BY <1>1 DEF Wanted, Create
  <2>2. TableAt[nav] # None
    BY <1>1, FirstFact DEF CanProvide
  <2>3. nav \in Within[TableAt[nav]]
    BY <2>2, TableAssumption DEF Typed, WorldTypes
  <2>4. ~captureOn /\ nav \notin Charts
    BY <1>1, FirstFact, TableFirst
  <2> QED
    BY <2>1, <2>3, <2>4 DEF Fits
<1>2. CASE First = "chart"
  <2>1. Wanted = [kind |-> "chart", of |-> nav]
    BY <1>2 DEF Wanted, Create
  <2>2. nav \in Within[nav]
    BY <1>2, ChartFirst, ChartAssumption
  <2> QED
    BY <1>2, <2>1, <2>2, ChartFirst DEF Fits
<1>3. CASE First \notin {"table", "chart"}
  <2>1. Wanted.kind \notin {"table", "chart"}
    BY <1>3, FirstFact, Ranks DEF Wanted, Create, BrailleKind
  <2> QED
    BY <2>1, SameWorld DEF Fits
<1> QED
  BY <1>1, <1>2, <1>3

(* What is kept fits: a table that is still valid and outranked by nothing,*)
(* or a presentation of the first provider that is still valid.            *)
LEMMA KeptFits ==
  ASSUME Typed, "yes" \in Answers(active),
         \/ /\ active.kind = "table"
            /\ \A p \in Providers : CanProvide(p, nav) => Rank("table") <= Rank(p)
         \/ active.kind # "table" /\ ProviderOf(active) = First
  PROVE  Fits
<1>1. CASE active.kind = "table"
  <2>1. nav \in Within[active.of]
    BY <1>1 DEF Answers, TableAnswers
  <2>2. ~captureOn /\ nav \notin Charts
    BY <1>1, TableFirst
  <2> QED
    BY <1>1, <2>1, <2>2 DEF Fits
<1>2. CASE active.kind # "table"
  <2>1. ProviderOf(active) = First /\ First \in Providers
    BY <1>2, FirstFact
  <2>2. active \in Presentation
    BY <2>1, Ranks DEF Typed, ChoiceTypes, WellFormed, NoPresentation, ProviderOf
  <2>3. active = [kind |-> active.kind, of |-> active.of]
    BY <2>2 DEF Presentation
  <2>4. CASE active.kind \in {"braille", "libraryBraille"}
    <3>1. active.of = None /\ First = "braille"
      BY <2>1, <2>4 DEF Typed, ChoiceTypes, WellFormed, NoPresentation, ProviderOf
    <3>2. active.kind = BrailleKind
      BY <2>4 DEF Answers, BrailleAnswers
    <3>3. Wanted = [kind |-> BrailleKind, of |-> None]
      BY <3>1 DEF Wanted, Create
    <3>4. active.kind \notin {"table", "chart"}
      BY <2>4
    <3> QED
      BY <2>3, <3>1, <3>2, <3>3, <3>4 DEF Fits
  <2>5. CASE active.kind = "graphic"
    <3>1. active.of = nav /\ First = "graphic"
      BY <2>1, <2>5 DEF Answers, GraphicAnswers, ProviderOf
    <3> QED
      BY <1>2, <2>3, <2>5, <3>1 DEF Fits, Wanted, Create
  <2>6. CASE active.kind = "chart"
    <3>1. nav \in Within[active.of] /\ First = "chart"
      BY <2>1, <2>6 DEF Answers, ChartAnswers, ProviderOf
    <3> QED
      BY <2>6, <3>1, ChartFirst DEF Fits
  <2>7. CASE active.kind \in {"screenCapture", "hybridPrint"}
    <3>1. active.of = None /\ First = active.kind
      BY <2>1, <2>7 DEF Typed, ChoiceTypes, WellFormed, NoPresentation, ProviderOf
    <3> QED
      BY <1>2, <2>3, <2>7, <3>1 DEF Fits, Wanted, Create
  <2> QED
    BY <1>2, <2>2, <2>4, <2>5, <2>7, <2>6 DEF Presentation, Kinds
<1> QED
  BY <1>1, <1>2

(* The dismissal that was found to cover the navigator object has scope.   *)
LEMMA CoveredHasScope ==
  ASSUME Typed, NEW d \in Answers(dismissed), IsDismissed(d), strikes' = StrikesAfter(d),
         UNCHANGED <<nav, dismissedObj, dismissed>>
  PROVE  Scope'
<1>1. CASE nav = dismissedObj
  BY <1>1 DEF Scope
<1>2. CASE Asked /\ d = "yes"
  <2>1. dismissed.kind = "table"
    BY <1>2 DEF Asked, Authoritative
  <2>2. nav \in Within[dismissed.of]
    BY <1>2, <2>1 DEF Answers, TableAnswers
  <2> QED
    BY <2>1, <2>2 DEF Scope
<1>3. CASE Asked /\ d = "refused" /\ StrikesAfter(d) <= MAX_UNANSWERABLE_VALIDITY_CHECKS
  <2>1. strikes' = strikes + 1 /\ strikes' <= 3
    BY <1>3 DEF StrikesAfter, MAX_UNANSWERABLE_VALIDITY_CHECKS
  <2>2. strikes' \in 1 .. 3
    BY <2>1 DEF Typed, ChoiceTypes, MAX_UNANSWERABLE_VALIDITY_CHECKS
  <2> QED
    BY <2>2 DEF Scope, MAX_UNANSWERABLE_VALIDITY_CHECKS
<1> QED
  BY <1>1, <1>2, <1>3 DEF IsDismissed

LEMMA ChooseEstablishes ==
  ASSUME Typed, Choose
  PROVE  Chosen' /\ Covered'
<1>1. PICK d \in Answers(dismissed), a \in Answers(active) :
        LET found == IF IsDismissed(d) THEN Fallback ELSE First
            kept  == /\ Reusable(a)
                     /\ IF Authoritative(active)
                        THEN ~IsDismissed(d) /\ \A p \in Providers :
                               CanProvide(p, nav) => Rank(ProviderOf(active)) <= Rank(p)
                        ELSE ProviderOf(active) = found
        IN  /\ IF IsDismissed(d)
               THEN strikes' = StrikesAfter(d) /\ UNCHANGED <<dismissedObj, dismissed>>
               ELSE ForgetDismissal
            /\ IF kept THEN Settle(active)
               ELSE /\ main' = "create" /\ chosen' = found
                    /\ UNCHANGED <<active, image, needsRender>>
  BY DEF Choose, First
<1>2. UNCHANGED <<nav, captureOn, hybrid, library>>
  BY DEF Choose, worldVars
<1>3. CASE IsDismissed(d)
  <2>1. strikes' = StrikesAfter(d) /\ UNCHANGED <<dismissedObj, dismissed>>
    BY <1>1, <1>3
  <2>2. Scope'
    BY <1>2, <1>3, <2>1, CoveredHasScope
  <2>3. dismissedObj' # None
    <3>1. nav # None
      BY ObjectAssumption DEF Typed, WorldTypes
    <3>2. CASE dismissedObj = None
      <4>1. dismissed = NoPresentation
        BY <3>2 DEF Typed, ChoiceTypes
      <4> QED
        BY <1>3, <3>1, <3>2, <4>1 DEF IsDismissed, Asked, Authoritative, NoPresentation
    <3> QED
      BY <2>1, <3>2
  <2>4. CASE /\ Reusable(a) /\ ~Authoritative(active) /\ ProviderOf(active) = Fallback
    <3>1. Settle(active)
      BY <1>1, <1>3, <2>4
    <3>2. active.kind \in BrailleKinds
      BY <2>4 DEF ProviderOf, Fallback, BrailleKinds
    <3> QED
      BY <2>2, <2>3, <3>1, <3>2 DEF Settle, Chosen, Covered
  <2>5. CASE ~(Reusable(a) /\ ~Authoritative(active) /\ ProviderOf(active) = Fallback)
    <3>1. main' = "create" /\ chosen' = Fallback
      BY <1>1, <1>3, <2>5
    <3> QED
      BY <2>2, <2>3, <3>1 DEF Chosen, Covered
  <2> QED
    BY <2>4, <2>5
<1>4. CASE ~IsDismissed(d)
  <2>1. dismissedObj' = None
    BY <1>1, <1>4 DEF ForgetDismissal
  <2>2. CASE /\ Reusable(a)
             /\ IF Authoritative(active)
                THEN \A p \in Providers : CanProvide(p, nav) => Rank(ProviderOf(active)) <= Rank(p)
                ELSE ProviderOf(active) = First
    <3>1. Settle(active)
      BY <1>1, <1>4, <2>2
    <3>2. a = "yes"
      BY <2>2 DEF Reusable
    <3>3. Fits
      BY <2>2, <3>2, KeptFits DEF Authoritative, ProviderOf
    <3>4. Fits'
      BY <1>2, <3>1, <3>3, SameWorld DEF Fits, Settle
    <3> QED
      BY <2>1, <3>1, <3>4 DEF Settle, Chosen, Covered
  <2>3. CASE ~(/\ Reusable(a)
               /\ IF Authoritative(active)
                  THEN \A p \in Providers : CanProvide(p, nav) => Rank(ProviderOf(active)) <= Rank(p)
                  ELSE ProviderOf(active) = First)
    <3>1. main' = "create" /\ chosen' = First
      BY <1>1, <1>4, <2>3
    <3> QED
      BY <1>2, <2>1, <3>1, SameWorld DEF Chosen, Covered
  <2> QED
    BY <2>2, <2>3
<1> QED
  BY <1>3, <1>4

LEMMA CreateEstablishes ==
  ASSUME Typed, Chosen, Covered, CreatePresentation
  PROVE  Chosen' /\ Covered'
<1>1. /\ main = "create" /\ main' = "rest"
      /\ UNCHANGED <<nav, changed, captureOn, hybrid, library>>
      /\ UNCHANGED <<dismissedObj, dismissed, strikes>>
  BY DEF CreatePresentation, Settle, worldVars
<1>2. CASE ~changed /\ dismissedObj = None
  <2>1. chosen = First
    BY <1>1, <1>2 DEF Chosen
  <2>2. active' = Wanted
    BY <2>1, FirstFact DEF CreatePresentation, Settle, Wanted
  <2> QED
    BY <1>1, <1>2, <2>2, CreatedFits DEF Chosen, Covered
<1>3. CASE dismissedObj # None
  <2>1. chosen = Fallback /\ Scope
    BY <1>1, <1>3 DEF Covered
  <2>2. active' = Create(Fallback, nav)
    BY <2>1, BrailleIsBraille DEF CreatePresentation, Settle
  <2>3. active'.kind \in BrailleKinds
    BY <2>2, BrailleIsBraille
  <2>4. Scope'
    BY <1>1, <2>1 DEF Scope
  <2> QED
    BY <1>1, <1>3, <2>3, <2>4 DEF Chosen, Covered
<1>4. CASE changed /\ dismissedObj = None
  BY <1>1, <1>4 DEF Chosen, Covered
<1> QED
  BY <1>2, <1>3, <1>4 DEF Typed, WorldTypes

LEMMA SelectionNext == Typed /\ Chosen /\ Covered /\ [Next]_vars => Chosen' /\ Covered'
<1> SUFFICES ASSUME Typed, Chosen, Covered, [Next]_vars PROVE Chosen' /\ Covered'
  OBVIOUS
<1>1. CASE Choose
  BY <1>1, ChooseEstablishes
<1>2. CASE CreatePresentation
  BY <1>2, CreateEstablishes
<1>3. CASE KeepForced
  BY <1>3 DEF KeepForced, Settle, Chosen, Covered
<1>4. CASE (\E o \in Objects : Navigate(o)) \/ ChangeSource
  BY <1>4 DEF Navigate, ChangeSource, Idle, Chosen, Covered, choiceVars, mainVars
<1>5. CASE ReportModes
  <2>1. changed' /\ UNCHANGED <<nav, main, chosen, forced, dismissedObj, dismissed, strikes>>
    BY <1>5 DEF ReportModes, choiceVars, mainVars
  <2> QED
    BY <2>1 DEF Chosen, Covered, Scope
<1>6. CASE Event \/ ToggleScreenCapture \/ ForceTable \/ Dismiss
  BY <1>6 DEF Event, ToggleScreenCapture, ForceTable, Dismiss, Chosen, Covered
<1>7. CASE ForceGraphic
  <2>1. forced' # NoPresentation /\ main' = "rest"
    BY <1>7 DEF ForceGraphic, Install, Idle, NoPresentation
  <2> QED
    BY <2>1 DEF Chosen, Covered
<1>8. CASE Terminate
  BY <1>8 DEF Terminate, Idle, Chosen, Covered
<1>9. CASE UNCHANGED vars \/ RequestRender \/ CoreCycle \/ QueueApc \/ WriteAgain
             \/ StartApc \/ TakeFrame \/ FrameDrawn
  <2>1. /\ UNCHANGED <<nav, changed, captureOn, hybrid, library, terminated, chosen>>
        /\ UNCHANGED <<active, forced, dismissedObj, dismissed, strikes>>
    BY <1>9 DEF vars, RequestRender, CoreCycle, QueueApc, WriteAgain, StartApc, TakeFrame,
       FrameDrawn, worldVars, choiceVars, mainVars
  <2>2. main' = main \/ {main, main'} \subseteq {"rest", "queue"}
    BY <1>9 DEF vars, RequestRender, CoreCycle, StoreFrame, QueueApc, WriteAgain, StartApc,
       TakeFrame, FrameDrawn, Idle, mainVars
  <2>3. First' = First /\ Fits' = Fits /\ Scope' = Scope
    BY <2>1, SameWorld DEF Fits, Scope
  <2> QED
    BY <2>1, <2>3, <2>2 DEF Chosen, Covered
<1> QED
  BY <1>1, <1>2, <1>3, <1>4, <1>5, <1>6, <1>7, <1>8, <1>9 DEF Next

LEMMA AlwaysChosen == Spec => [](Typed /\ Chosen /\ Covered)
<1>1. Init => Chosen /\ Covered
  BY DEF Init, Chosen, Covered
<1> QED
  BY <1>1, TypedInit, TypedNext, SelectionNext, PTL DEF Spec

(* Whatever flips in the middle of an update, once every change has been   *)
(* heard of the tactile area shows what the providers' order asks for.     *)
THEOREM SelectionAlwaysFits == Spec => []SelectionFits
<1>1. Chosen => SelectionFits
  BY DEF Chosen, SelectionFits, Idle, Fits, Wanted, First
<1> QED
  BY <1>1, AlwaysChosen, PTL

(* A dismissal never strands the display on braille, and never lets a      *)
(* visual presentation through.                                            *)
THEOREM DismissalIsScoped == Spec => []DismissalScoped
<1>1. Covered => DismissalScoped
  BY DEF Covered, DismissalScoped, Idle, Scope
<1> QED
  BY <1>1, AlwaysChosen, PTL
=============================================================================

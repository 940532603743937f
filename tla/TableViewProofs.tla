--------------------------- MODULE TableViewProofs ---------------------------
(***************************************************************************)
(* Theorems about the view of a table, for tables, displays and bounds of  *)
(* every size.  Clamping and centring are arithmetic on one axis, settled  *)
(* by the first lemmas; an action is then a matter of which of them it     *)
(* uses.                                                                   *)
(***************************************************************************)
EXTENDS TableView, TLAPS

Counts == [Axes -> (Nat \ {0}) \cup {None}]
Sized == [Axes -> Nat \ {0}]

(* What the proofs of the properties need of types: beyond TypeOK, tables  *)
(* report positive counts or none, and only Excel's are cached.            *)
Typed ==
  /\ excel \in BOOLEAN /\ setting \in {"nothing", "first", "center"}
  /\ reported \in Counts /\ (excel => reported \in Sized)
  /\ bounds \in Sized \cup {None} /\ (bounds # None => excel)
  /\ drawn \in BOOLEAN /\ (drawn => first \in Position) /\ (~drawn => first = Unread)
  /\ last \in Position \cup {None} /\ nav \in Position \cup {None}
  /\ moves \in Seq(Position) /\ needsRender \in BOOLEAN
  /\ kept \in Position \cup {None} /\ strayed \in BOOLEAN
  /\ swept = None \/ swept \in [way : {"forward", "back"}, cells : SUBSET Position]

-----------------------------------------------------------------------------
(* The choice of a view. *)

LEMMA CentredBounds ==
  ASSUME NEW a \in Axes, NEW p \in Position \cup {None}, NEW count \in (Nat \ {0}) \cup {None}
  PROVE  /\ Centred(a, p, count) \in Nat
         /\ p = None => Centred(a, p, count) = 0
         /\ p # None => Centred(a, p, count) <= p[a]
         /\ count # None => Centred(a, p, count) < count
         /\ p # None /\ (count # None => p[a] < count) => p[a] < Centred(a, p, count) + Page[a]
<1>1. Page[a] \in Nat \ {0} BY PageAssumption
<1>2. CASE p = None BY <1>1, <1>2 DEF Centred
<1>3. CASE p # None
  <2>1. p[a] \in Nat BY <1>3 DEF Position
  <2>2. CASE p[a] < Page[a] BY <1>1, <1>3, <2>1, <2>2 DEF Centred
  <2>3. CASE p[a] >= Page[a]
    <3> DEFINE middle == p[a] - Page[a] \div 2
    <3>1. middle \in Nat /\ middle <= p[a] /\ p[a] < middle + Page[a]
      BY <1>1, <2>1, <2>3
    <3>2. Centred(a, p, count) = IF count # None /\ middle + Page[a] > count
                                 THEN Greater(0, count - Page[a]) ELSE Greater(0, middle)
      BY <1>1, <1>3, <2>1, <2>3 DEF Centred
    <3>3. CASE count = None
      BY <1>1, <1>3, <2>1, <3>1, <3>2, <3>3 DEF Greater
    <3>4. CASE count # None
      BY <1>1, <1>3, <2>1, <3>1, <3>2, <3>4, NoneAssumption DEF Greater
    <3> QED BY <3>3, <3>4
  <2> QED BY <1>1, <2>1, <2>2, <2>3
<1> QED BY <1>2, <1>3

(* What _setFirstVisible makes of a target, on an axis of which the view   *)
(* is known.                                                               *)
LEMMA ClampedBounds ==
  ASSUME NEW a \in Axes, NEW target \in Int, NEW extent \in Counts, first \in Position
  PROVE  /\ Clamped(a, target, extent) \in Nat
         /\ target <= first[a] => Clamped(a, target, extent) <= first[a]
         /\ target > first[a] => first[a] <= Clamped(a, target, extent)
         /\ extent[a] = None => Clamped(a, target, extent) <= first[a]
         /\ extent[a] # None /\ first[a] < extent[a] => Clamped(a, target, extent) < extent[a]
<1>1. Page[a] \in Nat \ {0} /\ first[a] \in Nat /\ First(a) = first[a]
  BY PageAssumption, NoneAssumption DEF First, Position
<1>2. CASE extent[a] = None
  BY <1>1, <1>2 DEF Clamped, Greater
<1>3. CASE extent[a] # None
  <2>1. extent[a] \in Nat \ {0} BY <1>3 DEF Counts
  <2>2. LastFullPage(a, extent) \in Nat /\ LastFullPage(a, extent) < extent[a]
    BY <1>1, <2>1 DEF LastFullPage, Greater
  <2> HIDE DEF LastFullPage
  <2> QED BY <1>1, <1>3, <2>1, <2>2 DEF Clamped, Greater, Lesser
<1> QED BY <1>2, <1>3

LEMMA PageOnBounds ==
  ASSUME NEW a \in Axes, NEW extent \in Counts, first \in Position
  PROVE  /\ PageOn(a, extent) \in Position
         /\ \A b \in Axes : first[b] <= PageOn(a, extent)[b]
         /\ \A b \in Axes : PageOn(a, extent)[b] = first[b] \/ (extent[b] # None /\ PageOn(a, extent)[b] < extent[b])
<1>1. Page[a] \in Nat \ {0} /\ First(a) = first[a]
  BY PageAssumption, NoneAssumption DEF First, Position
<1>2. \A b \in Axes : first[b] \in Nat BY DEF Position
<1>3. CASE extent[a] = None \/ First(a) + Page[a] >= extent[a]
  <2>1. PageOn(a, extent) = first BY <1>3 DEF PageOn
  <2> QED BY <2>1, <1>2
<1>4. CASE extent[a] # None /\ ~(First(a) + Page[a] >= extent[a])
  <2>1. PageOn(a, extent) = [first EXCEPT ![a] = first[a] + Page[a]] BY <1>1, <1>4 DEF PageOn
  <2>2. extent[a] \in Nat BY <1>4 DEF Counts
  <2> QED BY <1>1, <1>2, <1>4, <2>1, <2>2 DEF Position
<1> QED BY <1>3, <1>4

LEMMA StepByBounds ==
  ASSUME NEW a \in Axes, NEW n \in Int, NEW extent \in Counts, first \in Position
  PROVE  /\ StepBy(a, n, extent) \in Position
         /\ \A b \in Axes : n > 0 => first[b] <= StepBy(a, n, extent)[b]
         /\ \A b \in Axes : n <= 0 => StepBy(a, n, extent)[b] <= first[b]
         /\ \A b \in Axes : \/ StepBy(a, n, extent)[b] <= first[b]
                            \/ extent[b] # None /\ first[b] >= extent[b]
                            \/ extent[b] # None /\ StepBy(a, n, extent)[b] < extent[b]
<1>1. First(a) = first[a] /\ \A b \in Axes : first[b] \in Nat
  BY NoneAssumption DEF First, Position
<1> DEFINE c == Clamped(a, first[a] + n, extent)
<1>2. StepBy(a, n, extent) = [first EXCEPT ![a] = c] BY <1>1 DEF StepBy
<1>3. first[a] + n \in Int BY <1>1
<1>4. /\ c \in Nat /\ (n > 0 => first[a] <= c) /\ (n <= 0 => c <= first[a])
      /\ extent[a] = None => c <= first[a]
      /\ extent[a] # None /\ first[a] < extent[a] => c < extent[a]
  BY <1>1, <1>3, ClampedBounds
<1>5. extent[a] # None => extent[a] \in Nat BY DEF Counts
<1> HIDE DEF c
<1> QED BY <1>1, <1>2, <1>4, <1>5 DEF Position

(* Where a step from the present view leads.  Only from beyond the extent  *)
(* does it get further than its end.                                       *)
Leads(view, extent) ==
  /\ view \in Position
  /\ \A b \in Axes : \/ view[b] <= first[b]
                     \/ extent[b] # None /\ first[b] >= extent[b]
                     \/ extent[b] # None /\ view[b] < extent[b]

LEMMA JumpLeads ==
  ASSUME NEW a \in Axes, NEW target \in Int, NEW extent \in Counts, first \in Position
  PROVE  Leads([first EXCEPT ![a] = Clamped(a, target, extent)], extent)
<1> DEFINE c == Clamped(a, target, extent)
<1>1. \A b \in Axes : first[b] \in Nat BY DEF Position
<1>2. \A b \in Axes : extent[b] # None => extent[b] \in Nat BY DEF Counts
<1>3. /\ c \in Nat
      /\ extent[a] = None => c <= first[a]
      /\ extent[a] # None /\ first[a] < extent[a] => c < extent[a]
  BY ClampedBounds
<1> HIDE DEF c
<1>4. Leads([first EXCEPT ![a] = c], extent)
  <2> DEFINE view == [first EXCEPT ![a] = c]
  <2>1. view \in Position BY <1>1, <1>3 DEF Position
  <2>2. \A b \in Axes : view[b] = IF b = a THEN c ELSE first[b] BY DEF Position
  <2> HIDE DEF view
  <2>3. Leads(view, extent) BY <1>1, <1>2, <1>3, <2>1, <2>2 DEF Leads
  <2> QED BY <2>3 DEF view
<1> QED BY <1>4 DEF c

LEMMA PanForwardLeads ==
  ASSUME NEW extent \in Counts, first \in Position
  PROVE  Leads(PanForward(extent), extent)
<1>1. \A b \in Axes : first[b] \in Nat BY DEF Position
<1>2. \A a \in Axes : Leads(PageOn(a, extent), extent)
  BY <1>1, PageOnBounds DEF Leads
<1>3. Leads(first, extent) BY <1>1 DEF Leads
<1>4. Leads([PageOn("row", extent) EXCEPT !["col"] = 0], extent)
  <2> DEFINE down == PageOn("row", extent)
  <2>1. Leads(down, extent) BY <1>2 DEF Axes
  <2> HIDE DEF down
  <2>2. Leads([down EXCEPT !["col"] = 0], extent)
    BY <1>1, <2>1 DEF Leads, Position, Axes
  <2> QED BY <2>2 DEF down
<1> QED BY <1>2, <1>3, <1>4 DEF PanForward, Axes

LEMMA PanBackLeads ==
  ASSUME NEW extent \in Counts, first \in Position
  PROVE  Leads(PanBack(extent), extent)
<1> DEFINE up == StepBy("row", -Page["row"], extent)
           left == StepBy("col", -Page["col"], extent)
           start == ((extent["col"] - 1) \div Page["col"]) * Page["col"]
<1>1. \A b \in Axes : Page[b] \in Nat \ {0} /\ -Page[b] \in Int /\ ~(-Page[b] > 0)
  BY PageAssumption
<1>2. Leads(up, extent) /\ Leads(left, extent)
  BY <1>1, StepByBounds DEF Leads, Axes
<1>3. ASSUME extent["col"] # None PROVE start \in Nat /\ start < extent["col"]
  <2> DEFINE n == extent["col"] - 1
             d == Page["col"]
             q == n \div d
  <2>1. n \in Nat /\ d \in Nat \ {0} BY <1>1, <1>3 DEF Counts, Axes
  <2> HIDE DEF n, d
  <2>2. q \in Nat /\ q * d <= n BY <2>1, SMTT(30)
  <2>3. start = q * d BY DEF n, d
  <2>4. q * d \in Nat BY <2>1, <2>2
  <2>5. extent["col"] = n + 1 BY <1>3 DEF n, Counts, Axes
  <2> HIDE DEF q, start
  <2> QED BY <2>1, <2>2, <2>3, <2>4, <2>5
<1>4. ASSUME extent["col"] # None PROVE Leads([up EXCEPT !["col"] = start], extent)
  <2> HIDE DEF up, start
  <2> QED BY <1>2, <1>3, <1>4 DEF Leads, Position, Axes
<1> QED BY <1>2, <1>4 DEF PanBack

LEMMA ViewLeads ==
  ASSUME NEW command \in Commands, NEW extent \in Counts, first \in Position
  PROVE  /\ Leads(View(command, extent), extent)
         /\ command \in Onwards => \A b \in Axes : first[b] <= View(command, extent)[b]
         /\ command \in Backwards => \A b \in Axes : View(command, extent)[b] <= first[b]
<1>1. \A b \in Axes : first[b] \in Nat /\ Page[b] \in Nat \ {0} /\ -Page[b] \in Int /\ -Page[b] <= 0
  BY PageAssumption DEF Position
<1>2. \A a \in Axes : /\ Leads(PageOn(a, extent), extent)
                      /\ \A b \in Axes : first[b] <= PageOn(a, extent)[b]
  BY <1>1, PageOnBounds DEF Leads
<1>3. \A a \in Axes, n \in Int : Leads(StepBy(a, n, extent), extent)
  BY StepByBounds DEF Leads
<1>4. \A a, b \in Axes : /\ first[b] <= StepBy(a, 1, extent)[b]
                         /\ StepBy(a, -1, extent)[b] <= first[b]
                         /\ StepBy(a, -Page[a], extent)[b] <= first[b]
  BY <1>1, StepByBounds
<1>5. \A a \in Axes : Leads(ToStart(a, extent), extent) BY JumpLeads DEF ToStart
<1>6. \A a \in Axes : Leads(ToEnd(a, extent), extent)
  <2>1. Leads(first, extent) BY <1>1 DEF Leads
  <2>2. \A a \in Axes : extent[a] # None => LastFullPage(a, extent) \in Int
    BY <1>1 DEF LastFullPage, Greater, Counts
  <2> QED BY <2>1, <2>2, JumpLeads DEF ToEnd
<1>7. Leads(PanForward(extent), extent) /\ Leads(PanBack(extent), extent)
  BY PanForwardLeads, PanBackLeads
<1>8. CASE command \in {"pageDown", "pageRight"}
  BY <1>2, <1>8 DEF View, Onwards, Backwards, Axes
<1>9. CASE command \in {"rowDown", "columnRight"}
  BY <1>3, <1>4, <1>9 DEF View, Onwards, Backwards, Axes
<1>10. CASE command \in {"pageUp", "pageLeft"}
  BY <1>1, <1>3, <1>4, <1>10 DEF View, Onwards, Backwards, Axes
<1>11. CASE command \in {"rowUp", "columnLeft"}
  BY <1>3, <1>4, <1>11 DEF View, Onwards, Backwards, Axes
<1>12. CASE command \in {"firstRow", "firstColumn", "lastRow", "lastColumn"}
  BY <1>5, <1>6, <1>12 DEF View, Onwards, Backwards, Axes
<1>13. CASE command \in {"forward", "back"}
  BY <1>7, <1>13 DEF View, Onwards, Backwards
<1> QED
  BY <1>8, <1>9, <1>10, <1>11, <1>12, <1>13 DEF Commands, Onwards, Backwards, Jumps

-----------------------------------------------------------------------------
(* Types. *)

LEMMA ExtentsAreCounts ==
  ASSUME Typed
  PROVE  /\ Extents \subseteq Counts
         /\ \A p \in Position \cup {None} : Answers(p) \subseteq Counts
         /\ \A p \in Position \cup {None} : excel => Widened(p) \in Sized
<1>1. \A p \in Position \cup {None} : excel => Widened(p) \in Sized
  BY DEF Typed, Widened, Greater, Sized, Position
<1>2. Unread \in Counts BY DEF Unread, Counts
<1>3. Sized \subseteq Counts BY DEF Sized, Counts
<1>4. \A p \in Position \cup {None} : Answers(p) \subseteq Counts
  BY <1>1, <1>2, <1>3 DEF Answers, Typed
<1>5. Extents \subseteq Counts
  BY <1>3, <1>4 DEF Extents, Typed
<1> QED BY <1>1, <1>4, <1>5

LEMMA DrawnIsPosition ==
  ASSUME Typed, NEW p \in Position \cup {None}, NEW extent \in Counts
  PROVE  Drawn(p, extent) \in Position
<1>1. \A a \in Axes : Centred(a, p, extent[a]) \in Nat
  BY CentredBounds DEF Counts
<1>2. \A a \in Axes : first[a] # None => first[a] \in Nat
  BY DEF Typed, Unread, Position
<1> QED BY <1>1, <1>2 DEF Drawn, Position

LEMMA SweepType ==
  ASSUME NEW view, NEW extent
  PROVE  Sweep(view, extent) = None
         \/ Sweep(view, extent) \in [way : {"forward", "back"}, cells : SUBSET Position]
<1>1. AllCells \subseteq Position
  BY BoundAssumption DEF AllCells, Position, Axes
<1>2. Window(view) \subseteq Position BY <1>1 DEF Window
<1> QED BY <1>2 DEF Sweep

LEMMA RememberType ==
  ASSUME Typed, NEW extent \in Extents, Remember(extent)
  PROVE  bounds' \in Sized \cup {None} /\ (bounds' # None => excel)
BY ExtentsAreCounts DEF Typed, Remember, Extents, Answers

LEMMA MovesType ==
  ASSUME Typed, NEW target \in Position, QueueMove(target)
  PROVE  moves' \in Seq(Position)
BY DEF Typed, QueueMove

LEMMA TargetType ==
  ASSUME Typed, NEW view \in Position, NEW extent \in Counts
  PROVE  MoveTarget(view, extent) \in Position
<1>1. \A a \in Axes : Page[a] \in Nat \ {0} /\ view[a] \in Nat
  BY PageAssumption DEF Position
<1>2. CASE setting = "first" BY <1>2 DEF MoveTarget
<1>3. CASE setting # "first"
  <2> SUFFICES ASSUME NEW a \in Axes
               PROVE  view[a] + (IF extent[a] = None THEN Page[a]
                                 ELSE Lesser(Page[a], extent[a] - view[a])) \div 2 \in Nat
    BY <1>3 DEF MoveTarget, Position
  <2>1. CASE extent[a] = None BY <1>1, <2>1
  <2>2. CASE extent[a] # None
    <3>1. extent[a] \in Nat \ {0} BY <2>2 DEF Counts
    <3>2. view[a] + Page[a] \div 2 \in Nat BY <1>1
    <3>3. view[a] + (extent[a] - view[a]) \div 2 \in Nat BY <1>1, <3>1
    <3> QED BY <2>2, <3>2, <3>3 DEF Lesser
  <2> QED BY <2>1, <2>2
<1> QED BY <1>2, <1>3

LEMMA TypedInit == Init => Typed
<1> SUFFICES ASSUME Init PROVE Typed OBVIOUS
<1>1. AllCells \subseteq Position
  BY BoundAssumption DEF AllCells, Position, Axes
<1>2. reported \in Counts /\ (excel => reported \in Sized)
  BY SizesAssumption DEF Init, Counts, Sized
<1>3. nav \in Position \cup {None} /\ last \in Position \cup {None}
  BY <1>1 DEF Init
<1>4. moves \in Seq(Position) BY DEF Init
<1>5. excel \in BOOLEAN /\ setting \in {"nothing", "first", "center"} BY DEF Init
<1> QED BY <1>2, <1>3, <1>4, <1>5 DEF Init, Typed

LEMMA TypedNext == Typed /\ [Next]_vars => Typed'
<1> SUFFICES ASSUME Typed, [Next]_vars PROVE Typed' OBVIOUS
<1>0. AllCells \subseteq Position
  BY BoundAssumption DEF AllCells, Position, Axes
<1>1. CASE Render
  <2> DEFINE p == IF nav = None THEN last ELSE nav
  <2>1. PICK extent \in Answers(p) :
          /\ last' = p
          /\ first' = Drawn(p, extent)
          /\ bounds' \in IF ~excel THEN {None}
                         ELSE IF extent = Unread THEN {None, Widened(p)} ELSE {extent}
          /\ strayed' = IF \E a \in Axes : p # None /\ extent[a] # None /\ p[a] >= extent[a]
                        THEN TRUE ELSE strayed /\ drawn /\ p = last
          /\ swept' = IF first' = first THEN swept ELSE Sweep(first', extent)
    BY <1>1 DEF Render
  <2>2. p \in Position \cup {None} BY DEF Typed
  <2> HIDE DEF p
  <2>3. extent \in Counts /\ (excel => Widened(p) \in Sized)
    BY <2>2, ExtentsAreCounts
  <2>4. first' \in Position BY <2>1, <2>2, <2>3, DrawnIsPosition
  <2>5. bounds' \in Sized \cup {None} /\ (bounds' # None => excel)
    BY <2>1, <2>3 DEF Answers
  <2>6. strayed' \in BOOLEAN BY <2>1 DEF Typed
  <2>7. swept' = None \/ swept' \in [way : {"forward", "back"}, cells : SUBSET Position]
    BY <2>1, SweepType DEF Typed
  <2> QED BY <1>1, <2>1, <2>2, <2>4, <2>5, <2>6, <2>7 DEF Render, Typed, tableVars
<1>2. CASE \E command \in Commands : Step(command)
  <2>1. PICK command \in Commands : Step(command) BY <1>2
  <2>2. PICK extent \in Extents :
          LET view == View(command, extent)
          IN  /\ view # first
              /\ first' = view
              /\ QueueMove(MoveTarget(view, extent))
              /\ Remember(extent)
              /\ swept' = IF Stale THEN None
                          ELSE IF swept # None /\ command = swept.way /\ extent["col"] # None
                          THEN [swept EXCEPT !.cells = @ \cup Window(view)]
                          ELSE Sweep(view, extent)
              /\ kept' = IF Settled /\ \A a \in Axes : extent[a] # None => view[a] < extent[a]
                         THEN view ELSE None
    BY <2>1 DEF Step
  <2>3. extent \in Counts /\ first \in Position
    BY <2>1, ExtentsAreCounts DEF Step, Typed
  <2>4. first' \in Position BY <2>2, <2>3, ViewLeads DEF Leads
  <2>5. moves' \in Seq(Position) BY <2>2, <2>3, <2>4, TargetType, MovesType
  <2>6. bounds' \in Sized \cup {None} /\ (bounds' # None => excel) BY <2>2, RememberType
  <2>7. swept' = None \/ swept' \in [way : {"forward", "back"}, cells : SUBSET Position]
    <3>1. Window(first') \subseteq Position BY <1>0 DEF Window
    <3>2. CASE swept # None /\ swept' = [swept EXCEPT !.cells = @ \cup Window(first')]
      BY <3>1, <3>2 DEF Typed
    <3>3. CASE swept' = Sweep(first', extent) BY <3>3, SweepType
    <3> QED BY <2>2, <3>2, <3>3
  <2>8. kept' \in Position \cup {None} BY <2>2, <2>4
  <2> QED BY <2>1, <2>4, <2>5, <2>6, <2>7, <2>8 DEF Step, Typed, tableVars
<1>3. CASE \E command \in Commands : Refuse(command)
  <2>1. PICK command \in Commands, extent \in Extents : Refuse(command) /\ Remember(extent)
    BY <1>3 DEF Refuse
  <2>2. bounds' \in Sized \cup {None} /\ (bounds' # None => excel) BY <2>1, RememberType
  <2> QED BY <2>1, <2>2 DEF Refuse, Typed, tableVars, viewVars, historyVars
<1>4. CASE MoveNavigator
  <2>1. moves' \in Seq(Position) BY <1>4 DEF MoveNavigator, Typed
  <2>2. nav' \in Position \cup {None} BY <1>0, <1>4 DEF MoveNavigator, Typed
  <2> QED BY <1>4, <2>1, <2>2 DEF MoveNavigator, Typed, tableVars, viewVars, historyVars
<1>5. CASE \E p \in AllCells \cup {None} : Navigate(p)
  BY <1>0, <1>5 DEF Navigate, Typed, tableVars, viewVars
<1>6. CASE \E extent \in Sizes : Resize(extent)
  <2>1. PICK extent \in Sizes : Resize(extent) BY <1>6
  <2>2. reported' \in Counts /\ (excel => reported' \in Sized)
    BY <2>1, SizesAssumption DEF Resize, Typed, Counts, Sized
  <2> QED BY <2>1, <2>2 DEF Resize, Typed, tableVars, viewVars
<1>7. CASE UNCHANGED vars
  BY <1>7 DEF vars, tableVars, viewVars, historyVars, Typed
<1> QED BY <1>1, <1>2, <1>3, <1>4, <1>5, <1>6, <1>7 DEF Next

LEMMA TypedAlways == Spec => []Typed
<1>1. Typed /\ [Next]_vars => Typed' BY TypedNext
<1> QED BY <1>1, TypedInit, PTL DEF Spec

(* The type invariant, for tables and displays of every size.              *)
THEOREM TypeCorrect == Spec => []TypeOK
<1>1. ASSUME Typed PROVE TypeOK
  <2>1. reported \in [Axes -> Nat \cup {None}] BY <1>1 DEF Typed, Counts
  <2>2. bounds \in [Axes -> Nat] \cup {None} BY <1>1 DEF Typed, Sized
  <2>3. first \in [Axes -> Nat \cup {None}] BY <1>1 DEF Typed, Position, Unread
  <2> QED BY <1>1, <2>1, <2>2, <2>3 DEF Typed, TypeOK
<1> QED BY <1>1, TypedAlways, PTL

(* No step takes the view the other way, from whatever state earlier steps *)
(* and the cursor have left it in.                                         *)
THEOREM StepsKeepTheirWay == Spec => []NeverReverses
<1>1. Typed => NeverReverses
  <2> SUFFICES ASSUME Typed, drawn, NEW extent \in Extents, NEW a \in Axes
               PROVE  /\ \A command \in Onwards : first[a] <= View(command, extent)[a]
                      /\ \A command \in Backwards : View(command, extent)[a] <= first[a]
    BY DEF NeverReverses
  <2>1. first \in Position /\ extent \in Counts BY ExtentsAreCounts DEF Typed
  <2> QED BY <2>1, ViewLeads DEF Commands
<1> QED BY <1>1, TypedAlways, PTL

-----------------------------------------------------------------------------
(* The cursor is shown. *)

LEMMA CursorNext == Typed /\ CursorShown /\ [Next]_vars => CursorShown'
<1> SUFFICES ASSUME Typed, CursorShown, [Next]_vars PROVE CursorShown' OBVIOUS
<1>1. CASE Render
  <2> DEFINE p == IF nav = None THEN last ELSE nav
  <2>1. PICK extent \in Answers(p) :
          /\ last' = p
          /\ first' = Drawn(p, extent)
          /\ strayed' = IF \E a \in Axes : p # None /\ extent[a] # None /\ p[a] >= extent[a]
                        THEN TRUE ELSE strayed /\ drawn /\ p = last
    BY <1>1 DEF Render
  <2>2. p \in Position \cup {None} BY DEF Typed
  <2> HIDE DEF p
  <2>3. extent \in Counts BY <2>2, ExtentsAreCounts
  <2> SUFFICES ASSUME p # None, ~strayed', NEW a \in Axes
               PROVE  InView(first', p, a)
    BY <2>1 DEF CursorShown
  <2>4. p[a] \in Nat /\ extent[a] \in (Nat \ {0}) \cup {None} /\ Page[a] \in Nat \ {0}
    BY <2>2, <2>3, PageAssumption DEF Position, Counts
  <2>5. extent[a] # None => p[a] < extent[a] BY <2>1, <2>4
  <2>6. ~(strayed /\ drawn /\ p = last) BY <2>1
  <2>7. first'[a] = Drawn(p, extent)[a] BY <2>1
  <2>8. CASE first[a] = None \/ (drawn /\ p # last /\ ~InView(first, p, a))
    <3>1. first'[a] = Centred(a, p, extent[a]) BY <2>7, <2>8 DEF Drawn
    <3>2. Centred(a, p, extent[a]) \in Nat /\ Centred(a, p, extent[a]) <= p[a]
      BY <2>2, <2>4, CentredBounds
    <3>3. p[a] < Centred(a, p, extent[a]) + Page[a]
      BY <2>2, <2>4, <2>5, CentredBounds
    <3> QED BY <3>1, <3>2, <3>3 DEF InView
  <2>9. CASE ~(first[a] = None \/ (drawn /\ p # last /\ ~InView(first, p, a)))
    <3>1. first'[a] = first[a] BY <2>7, <2>9 DEF Drawn
    <3>2. drawn BY <2>9 DEF Typed, Unread
    <3>3. InView(first, p, a) BY <2>6, <2>9, <3>2 DEF CursorShown
    <3> QED BY <3>1, <3>3 DEF InView
  <2> QED BY <2>8, <2>9
<1>2. CASE \E command \in Commands : Step(command)
  BY <1>2 DEF Step, CursorShown
<1>3. CASE UNCHANGED <<first, drawn, last, strayed>>
  BY <1>3 DEF CursorShown, InView
<1>4. CASE \E command \in Commands : Refuse(command)
  BY <1>3, <1>4 DEF Refuse, viewVars, historyVars
<1>5. CASE MoveNavigator
  BY <1>3, <1>5 DEF MoveNavigator, viewVars, historyVars
<1>6. CASE \E p \in AllCells \cup {None} : Navigate(p)
  BY <1>3, <1>6 DEF Navigate, viewVars
<1>7. CASE \E extent \in Sizes : Resize(extent)
  BY <1>3, <1>7 DEF Resize, viewVars
<1>8. CASE UNCHANGED vars
  BY <1>3, <1>8 DEF vars, viewVars, historyVars
<1> QED BY <1>1, <1>2, <1>4, <1>5, <1>6, <1>7, <1>8 DEF Next

(* Once a cell the user has moved to is drawn, it is in view, however far  *)
(* earlier steps had taken the view from it.                               *)
THEOREM CursorAlwaysShown == Spec => []CursorShown
<1>1. Init => CursorShown BY DEF Init, CursorShown
<1>2. Typed /\ CursorShown /\ [Next]_vars => CursorShown' BY CursorNext
<1> QED BY <1>1, <1>2, TypedAlways, PTL DEF Spec

-----------------------------------------------------------------------------
(* A step's view stays. *)

(* While a view is to be kept, wherever the navigator is or is about to be *)
(* put, other than where it was drawn last, is a cell in that view.        *)
Kept ==
  kept # None =>
    /\ first = kept
    /\ \A i \in 1 .. Len(moves), a \in Axes : InView(kept, moves[i], a)
    /\ nav = None \/ nav = last \/ \A a \in Axes : InView(kept, nav, a)

LEMMA TargetInView ==
  ASSUME Typed, NEW view \in Position, NEW extent \in Counts, NEW a \in Axes,
         extent[a] # None => view[a] < extent[a]
  PROVE  InView(view, MoveTarget(view, extent), a)
<1>1. Page[a] \in Nat \ {0} /\ view[a] \in Nat BY PageAssumption DEF Position
<1>2. CASE setting = "first" BY <1>1, <1>2 DEF MoveTarget, InView
<1>3. CASE setting # "first"
  <2> DEFINE shown == IF extent[a] = None THEN Page[a] ELSE Lesser(Page[a], extent[a] - view[a])
  <2>1. MoveTarget(view, extent)[a] = view[a] + shown \div 2 BY <1>3 DEF MoveTarget
  <2>2. shown \in Nat \ {0} /\ shown <= Page[a] BY <1>1 DEF Lesser, Counts
  <2> HIDE DEF shown
  <2> QED BY <1>1, <2>1, <2>2 DEF InView
<1> QED BY <1>2, <1>3

LEMMA KeptNext == Typed /\ Kept /\ [Next]_vars => Kept'
<1> SUFFICES ASSUME Typed, Kept, [Next]_vars, kept' # None PROVE Kept' BY DEF Kept
<1>0. moves \in Seq(Position) BY DEF Typed
<1>1. CASE Render
  <2> DEFINE p == IF nav = None THEN last ELSE nav
  <2>1. PICK extent \in Answers(p) : last' = p /\ first' = Drawn(p, extent)
    BY <1>1 DEF Render
  <2>2. UNCHANGED <<nav, moves, kept>> BY <1>1 DEF Render
  <2>3. kept \in Position /\ first = kept BY <2>2 DEF Typed, Kept
  <2>4. first \in Position /\ \A a \in Axes : first[a] # None
    BY <2>3, NoneAssumption DEF Position
  <2>5. p = last \/ \A a \in Axes : InView(first, p, a) BY <2>2, <2>3 DEF Kept
  <2> HIDE DEF p
  <2>6. \A a \in Axes : Drawn(p, extent)[a] = first[a] BY <2>4, <2>5 DEF Drawn
  <2>7. Drawn(p, extent) = first BY <2>4, <2>6 DEF Drawn, Position
  <2>8. nav = None \/ nav = last' BY <2>1 DEF p
  <2> QED BY <2>1, <2>2, <2>7, <2>8 DEF Kept, InView
<1>2. CASE \E command \in Commands : Step(command)
  <2>1. PICK command \in Commands : Step(command) BY <1>2
  <2>2. PICK extent \in Extents :
          LET view == View(command, extent)
          IN  /\ first' = view
              /\ QueueMove(MoveTarget(view, extent))
              /\ kept' = IF Settled /\ \A a \in Axes : extent[a] # None => view[a] < extent[a]
                         THEN view ELSE None
    BY <2>1 DEF Step
  <2>3. extent \in Counts /\ first \in Position
    BY <2>1, ExtentsAreCounts DEF Step, Typed
  <2> DEFINE view == View(command, extent)
             target == MoveTarget(view, extent)
  <2>4. /\ Settled /\ kept' = view /\ first' = view
        /\ \A a \in Axes : extent[a] # None => view[a] < extent[a]
        /\ QueueMove(target)
    BY <2>2
  <2>5. view \in Position BY <2>3, ViewLeads DEF Leads
  <2> HIDE DEF view
  <2>6. \A a \in Axes : InView(view, target, a) BY <2>3, <2>4, <2>5, TargetInView
  <2>7. target \in Position BY <2>3, <2>5, TargetType
  <2> HIDE DEF target
  <2>8. moves = <<>> /\ (nav = None \/ nav = last) /\ UNCHANGED <<nav, last>>
    BY <2>1, <2>4 DEF Settled, Step
  <2>9. moves' = <<>> \/ moves' = <<target>>
    BY <2>4, <2>7, <2>8 DEF QueueMove
  <2>10. \A i \in 1 .. Len(moves'), a \in Axes : InView(view, moves'[i], a)
    BY <2>6, <2>9
  <2> QED BY <2>4, <2>8, <2>10 DEF Kept, InView
<1>3. CASE \E command \in Commands : Refuse(command)
  BY <1>3 DEF Refuse, viewVars, historyVars, Kept, InView
<1>4. CASE MoveNavigator
  <2>1. moves # <<>> /\ moves' = Tail(moves) BY <1>4 DEF MoveNavigator
  <2>2. UNCHANGED <<first, last, kept>> BY <1>4 DEF MoveNavigator, viewVars, historyVars
  <2>3. nav' = nav \/ nav' = moves[1] BY <1>4 DEF MoveNavigator
  <2>4. 1 \in 1 .. Len(moves) BY <1>0, <2>1
  <2>5. \A i \in 1 .. Len(moves') : moves'[i] = moves[i + 1] /\ i + 1 \in 1 .. Len(moves)
    BY <1>0, <2>1
  <2> QED BY <2>2, <2>3, <2>4, <2>5 DEF Kept, InView
<1>5. CASE \E p \in AllCells \cup {None} : Navigate(p)
  BY <1>5 DEF Navigate
<1>6. CASE \E extent \in Sizes : Resize(extent)
  BY <1>6 DEF Resize, viewVars, Kept, InView
<1>7. CASE UNCHANGED vars
  BY <1>7 DEF vars, viewVars, historyVars, Kept, InView
<1> QED BY <1>1, <1>2, <1>3, <1>4, <1>5, <1>6, <1>7 DEF Next

(* The view a step leads to is kept until the next step or the user's own  *)
(* navigation: the navigator move it causes never moves it.                *)
THEOREM ScrollAlwaysSticks == Spec => []ScrollSticks
<1>1. Init => Kept BY DEF Init, Kept
<1>2. Typed /\ Kept /\ [Next]_vars => Kept' BY KeptNext
<1>3. Kept => ScrollSticks BY DEF Kept, ScrollSticks
<1> QED BY <1>1, <1>2, <1>3, TypedAlways, PTL DEF Spec

-----------------------------------------------------------------------------
(* No blank page. *)

LEMMA BlankNext ==
  Typed /\ Typed' /\ [Next]_vars => (reported' = reported /\ ~Stale /\ Inside => Inside')
<1> SUFFICES ASSUME Typed, Typed', [Next]_vars, reported' = reported, ~Stale, Inside
             PROVE  Inside'
  OBVIOUS
<1> DEFINE End(p) == IF excel THEN Widened(p) ELSE reported
<1>0. Inside <=> \A a \in Axes : first[a] = None \/ reported[a] = None \/ first[a] < End(last)[a]
  BY DEF Inside
<1>1. CASE UNCHANGED <<excel, reported, first, last>>
  BY <1>1 DEF Inside, Widened
<1>2. CASE Render
  <2> DEFINE p == IF nav = None THEN last ELSE nav
  <2>1. PICK extent \in Answers(p) : last' = p /\ first' = Drawn(p, extent)
    BY <1>2 DEF Render
  <2>2. p \in Position \cup {None} BY DEF Typed
  <2> HIDE DEF p
  <2>3. excel' = excel /\ Widened(p)' = Widened(p')
    BY <1>2 DEF Render, tableVars, Widened
  <2>4. extent \in Counts /\ (excel => Widened(p) \in Sized)
    BY <2>2, ExtentsAreCounts
  <2> SUFFICES ASSUME NEW a \in Axes, first'[a] # None, reported[a] # None
               PROVE  first'[a] < End(p)[a]
    BY <2>1, <2>3 DEF Inside, Widened
  <2>5. reported[a] \in Nat \ {0} BY DEF Typed, Counts
  <2>6. End(p)[a] \in Nat \ {0} /\ (p # None => p[a] < End(p)[a] \/ ~excel)
    BY <2>2, <2>4, <2>5 DEF Widened, Greater, Position, Sized
  <2>7. extent[a] = End(p)[a] \/ (excel /\ extent[a] = None)
    BY DEF Answers, Unread
  <2>8. CASE first[a] = None \/ (drawn /\ p # last /\ ~InView(first, p, a))
    <3>1. first'[a] = Centred(a, p, extent[a]) BY <2>1, <2>8 DEF Drawn
    <3>2. extent[a] \in (Nat \ {0}) \cup {None} BY <2>4 DEF Counts
    <3>3. /\ Centred(a, p, extent[a]) \in Nat
          /\ p = None => Centred(a, p, extent[a]) = 0
          /\ p # None => Centred(a, p, extent[a]) <= p[a]
          /\ extent[a] # None => Centred(a, p, extent[a]) < extent[a]
      BY <2>2, <3>2, CentredBounds
    <3>4. p # None => p[a] \in Nat BY <2>2 DEF Position
    <3> HIDE DEF End
    <3>5. End(p)[a] # None BY <2>6, NoneAssumption
    <3>6. CASE extent[a] = End(p)[a] BY <3>1, <3>3, <3>5, <3>6
    <3>7. CASE excel /\ extent[a] = None BY <2>6, <3>1, <3>3, <3>4, <3>7
    <3> QED BY <2>7, <3>6, <3>7
  <2>9. CASE ~(first[a] = None \/ (drawn /\ p # last /\ ~InView(first, p, a)))
    <3>1. first'[a] = first[a] BY <2>1, <2>9 DEF Drawn
    <3>2. drawn BY <2>9 DEF Typed, Unread
    <3>3. first[a] \in Nat BY <3>2 DEF Typed, Position
    <3>4. first[a] < End(last)[a] BY <2>9, <1>0
    <3>5. CASE p = last BY <3>1, <3>4, <3>5
    <3>6. CASE ~excel BY <3>1, <3>4, <3>6
    <3>7. CASE excel /\ p # last
      <4>1. InView(first, p, a) BY <2>9, <3>2, <3>7
      <4>2. CASE p = None BY <3>7, <4>2 DEF p
      <4>3. CASE p # None
        <5>1. first[a] <= p[a] /\ p[a] \in Nat BY <2>2, <4>1, <4>3 DEF InView, Position
        <5> HIDE DEF End
        <5> QED BY <2>6, <3>1, <3>3, <3>7, <4>3, <5>1
      <4> QED BY <4>2, <4>3
    <3> QED BY <3>5, <3>6, <3>7
  <2> QED BY <2>8, <2>9
<1>3. CASE \E command \in Commands : Step(command)
  <2>1. PICK command \in Commands : Step(command) BY <1>3
  <2>2. PICK extent \in Extents : first' = View(command, extent) BY <2>1 DEF Step
  <2>3. UNCHANGED <<excel, reported, last>> BY <2>1 DEF Step, tableVars
  <2>4. extent \in Counts /\ first \in Position
    BY <2>1, ExtentsAreCounts DEF Step, Typed
  <2>5. Leads(first', extent) BY <2>2, <2>4, ViewLeads
  <2>6. bounds # None => bounds = Widened(last) BY DEF Stale
  <2>7. extent \in {Unread, End(last)} BY <2>6 DEF Extents, Answers, Typed
  <2> SUFFICES ASSUME NEW a \in Axes, reported[a] # None
               PROVE  first'[a] < End(last)[a]
    BY <2>3 DEF Inside, Widened
  <2>8. first[a] < End(last)[a] BY <1>0, <2>4, NoneAssumption DEF Position
  <2>9. End(last)[a] \in Nat
    <3>1. reported[a] \in Nat BY DEF Typed, Counts
    <3>2. excel => Widened(last) \in Sized BY ExtentsAreCounts DEF Typed
    <3> QED BY <3>1, <3>2 DEF Sized
  <2> HIDE DEF End
  <2>10. first[a] \in Nat /\ first'[a] \in Nat BY <2>4, <2>5 DEF Leads, Position
  <2>11. extent[a] # None => extent[a] = End(last)[a] BY <2>7 DEF Unread
  <2> QED BY <2>5, <2>8, <2>9, <2>10, <2>11 DEF Leads
<1>4. CASE \E command \in Commands : Refuse(command)
  BY <1>1, <1>4 DEF Refuse, viewVars, tableVars
<1>5. CASE MoveNavigator
  BY <1>1, <1>5 DEF MoveNavigator, viewVars, tableVars
<1>6. CASE \E q \in AllCells \cup {None} : Navigate(q)
  BY <1>1, <1>6 DEF Navigate, viewVars, tableVars
<1>7. CASE \E extent \in Sizes : Resize(extent)
  BY <1>1, <1>7 DEF Resize, viewVars, tableVars
<1>8. CASE UNCHANGED vars
  BY <1>1, <1>8 DEF vars, viewVars, tableVars
<1> QED BY <1>2, <1>3, <1>4, <1>5, <1>6, <1>7, <1>8 DEF Next

(* A view that begins inside the table is never followed by one that does  *)
(* not, as long as the table does not change behind the code's back.       *)
THEOREM PageNeverBlank == Spec => NeverBlank
<1>1. Typed /\ Typed' /\ [Next]_vars =>
        [reported' = reported /\ ~Stale /\ Inside => Inside']_vars
  BY BlankNext
<1> QED BY <1>1, TypedAlways, PTL DEF Spec, NeverBlank

-----------------------------------------------------------------------------
(* Panning skips nothing. *)

(* The cells that panning this way has left behind or shows, when it has   *)
(* come to this view from where it began.                                  *)
Passed(way, view, p) ==
  IF way = "forward"
  THEN \/ p["row"] < view["row"]
       \/ p["row"] < view["row"] + Page["row"] /\ p["col"] < view["col"] + Page["col"]
  ELSE \/ p["row"] >= view["row"] + Page["row"]
       \/ p["row"] >= view["row"] /\ p["col"] >= view["col"]

(* The table has the cell, by what it reports of its rows and columns.     *)
Reports(p) == \A a \in Axes : reported[a] # None /\ p[a] < reported[a]

(* A sweep has shown every cell it has passed, and ends when what is       *)
(* cached of the table is no longer so.                                    *)
Covered ==
  swept # None =>
    /\ drawn /\ ~Stale
    /\ \A p \in AllCells : Reports(p) /\ Passed(swept.way, first, p) => p \in swept.cells

(* The extent a handler sees covers the present table.                     *)
Spans(extent) == \A a \in Axes : reported[a] # None /\ extent[a] # None => reported[a] <= extent[a]

LEMMA CellNumbers ==
  /\ \A p \in AllCells, a \in Axes : p[a] \in Nat
  /\ \A a \in Axes : Page[a] \in Nat \ {0}
  /\ Axes = {"row", "col"}
BY BoundAssumption, PageAssumption DEF AllCells, Axes

LEMMA AnswersSpan ==
  ASSUME Typed, NEW p \in Position \cup {None}, NEW extent \in Answers(p)
  PROVE  Spans(extent)
<1>1. CASE ~excel BY <1>1 DEF Answers, Spans, Typed, Counts
<1>2. CASE excel /\ extent = Widened(p)
  BY <1>2 DEF Spans, Widened, Greater, Typed, Sized, Position
<1>3. CASE extent = Unread BY <1>3 DEF Spans, Unread
<1> QED BY <1>1, <1>2, <1>3 DEF Answers

LEMMA ExtentsSpan ==
  ASSUME Typed, ~Stale, NEW extent \in Extents
  PROVE  Spans(extent)
<1>1. CASE bounds = None BY <1>1, AnswersSpan DEF Extents, Typed
<1>2. CASE bounds # None
  <2>1. excel /\ extent = Widened(last) BY <1>2 DEF Typed, Stale, Extents
  <2> QED BY <2>1, AnswersSpan DEF Answers, Typed
<1> QED BY <1>1, <1>2

(* A sweep that begins has passed only what its first view shows.          *)
LEMMA SweepCovers ==
  ASSUME Typed, NEW view \in Position, NEW extent \in Counts, Spans(extent),
         Sweep(view, extent) # None, NEW p \in AllCells, Reports(p),
         Passed(Sweep(view, extent).way, view, p)
  PROVE  p \in Sweep(view, extent).cells
<1>1. \A a \in Axes : view[a] \in Nat /\ p[a] \in Nat /\ Page[a] \in Nat \ {0}
  BY CellNumbers DEF Position
<1>2. CASE view = Origin
  <2>1. Sweep(view, extent) = [way |-> "forward", cells |-> Window(view)] BY <1>2 DEF Sweep
  <2>2. view["row"] = 0 /\ view["col"] = 0 BY <1>2 DEF Origin, Axes
  <2>3. \A a \in Axes : InView(view, p, a)
    BY <1>1, <2>1, <2>2 DEF Passed, InView, Axes
  <2> QED BY <2>1, <2>3 DEF Window
<1>3. CASE view # Origin
  <2>1. /\ Sweep(view, extent) = [way |-> "back", cells |-> Window(view)]
        /\ \A a \in Axes : extent[a] # None /\ view[a] + Page[a] = extent[a]
    BY <1>3 DEF Sweep
  <2>2. \A a \in Axes : p[a] < reported[a] /\ reported[a] \in Nat /\ reported[a] <= extent[a] /\ extent[a] \in Nat
    BY <2>1 DEF Reports, Spans, Typed, Counts
  <2>3. \A a \in Axes : p[a] < view[a] + Page[a] BY <1>1, <2>1, <2>2
  <2>4. \A a \in Axes : view[a] <= p[a]
    BY <1>1, <2>1, <2>3 DEF Passed, Axes
  <2> QED BY <2>1, <2>3, <2>4 DEF Window, InView
<1> QED BY <1>2, <1>3

LEMMA ForwardCovers ==
  ASSUME Typed, first \in Position, NEW extent \in Counts, Spans(extent), extent["col"] # None,
         PanForward(extent) # first, NEW p \in AllCells, Reports(p),
         Passed("forward", PanForward(extent), p), ~Passed("forward", first, p)
  PROVE  p \in Window(PanForward(extent))
<1>1. \A a \in Axes : first[a] \in Nat /\ p[a] \in Nat /\ Page[a] \in Nat \ {0} /\ First(a) = first[a]
  BY CellNumbers, NoneAssumption DEF Position, First
<1>2. extent["col"] \in Nat /\ p["col"] < extent["col"]
  BY <1>1 DEF Counts, Reports, Spans, Typed, Axes
<1>3. CASE First("col") + Page["col"] < extent["col"]
  <2>1. PanForward(extent) = [first EXCEPT !["col"] = first["col"] + Page["col"]]
    BY <1>1, <1>2, <1>3 DEF PanForward, PageOn, Axes
  <2>2. /\ PanForward(extent)["row"] = first["row"]
        /\ PanForward(extent)["col"] = first["col"] + Page["col"]
    BY <2>1 DEF Position, Axes
  <2>3. \A a \in Axes : InView(PanForward(extent), p, a)
    BY <1>1, <2>2 DEF Passed, InView, Axes
  <2> QED BY <2>3 DEF Window
<1>4. CASE ~(First("col") + Page["col"] < extent["col"])
  <2>1. PageOn("row", extent) # first
    BY <1>4 DEF PanForward
  <2>2. PageOn("row", extent) = [first EXCEPT !["row"] = first["row"] + Page["row"]]
    BY <1>1, <2>1 DEF PageOn, Axes
  <2>3. /\ PanForward(extent)["row"] = first["row"] + Page["row"]
        /\ PanForward(extent)["col"] = 0
    BY <1>4, <2>1, <2>2 DEF PanForward, Position, Axes
  <2>4. \A a \in Axes : InView(PanForward(extent), p, a)
    BY <1>1, <1>2, <1>4, <2>3 DEF Passed, InView, Axes
  <2> QED BY <2>4 DEF Window
<1> QED BY <1>3, <1>4

(* The page that panning back wraps to is the last one.                    *)
LEMMA LastPage ==
  ASSUME NEW n \in Nat \ {0}, NEW d \in Nat \ {0}
  PROVE  /\ ((n - 1) \div d) * d \in Nat
         /\ n <= ((n - 1) \div d) * d + d
<1> DEFINE k == n - 1
           q == k \div d
<1>1. k \in Nat /\ n = k + 1 OBVIOUS
<1> HIDE DEF k
<1>2. q \in Nat /\ q * d <= k /\ k < q * d + d BY <1>1, SMTT(30)
<1>3. q * d \in Nat BY <1>2
<1> HIDE DEF q
<1>4. n <= q * d + d BY <1>1, <1>2, <1>3
<1> QED BY <1>3, <1>4 DEF q, k

(* A page back, on one axis.                                               *)
LEMMA StepsBack ==
  ASSUME first \in Position, NEW extent \in Counts, NEW a \in Axes
  PROVE  StepBy(a, -Page[a], extent) = [first EXCEPT ![a] = Greater(0, first[a] - Page[a])]
<1>1. first[a] \in Nat /\ Page[a] \in Nat \ {0} /\ First(a) = first[a]
  BY PageAssumption, NoneAssumption DEF Position, First
<1>2. extent[a] # None => LastFullPage(a, extent) \in Nat
  BY <1>1 DEF LastFullPage, Greater, Counts
<1> HIDE DEF LastFullPage
<1>3. Clamped(a, first[a] - Page[a], extent) = Greater(0, first[a] - Page[a])
  BY <1>1, <1>2 DEF Clamped, Greater, Lesser
<1> QED BY <1>1, <1>3 DEF StepBy

LEMMA BackCovers ==
  ASSUME Typed, first \in Position, NEW extent \in Counts, Spans(extent), extent["col"] # None,
         PanBack(extent) # first, NEW p \in AllCells, Reports(p),
         Passed("back", PanBack(extent), p), ~Passed("back", first, p)
  PROVE  p \in Window(PanBack(extent))
<1> DEFINE start == ((extent["col"] - 1) \div Page["col"]) * Page["col"]
           up == StepBy("row", -Page["row"], extent)
           view == PanBack(extent)
<1>1. \A a \in Axes : first[a] \in Nat /\ p[a] \in Nat /\ Page[a] \in Nat \ {0} /\ First(a) = first[a]
  BY CellNumbers, NoneAssumption DEF Position, First
<1>2. extent["col"] \in Nat \ {0} /\ p["col"] < extent["col"]
  BY <1>1 DEF Counts, Reports, Spans, Typed, Axes
<1>3. \A a \in Axes : StepBy(a, -Page[a], extent) = [first EXCEPT ![a] = Greater(0, first[a] - Page[a])]
  BY StepsBack
<1>4. \A a \in Axes : Greater(0, first[a] - Page[a]) \in Nat /\ first[a] <= Greater(0, first[a] - Page[a]) + Page[a]
  BY <1>1 DEF Greater
<1>5. CASE First("col") # 0
  <2>1. view["row"] = first["row"] /\ view["col"] = Greater(0, first["col"] - Page["col"])
    BY <1>3, <1>5 DEF PanBack, Position, Axes
  <2> HIDE DEF view
  <2>2. \A a \in Axes : InView(view, p, a)
    BY <1>1, <1>4, <2>1 DEF Passed, InView, Axes, view
  <2> QED BY <2>2 DEF Window, view
<1>6. CASE First("col") = 0
  <2>1. up # first BY <1>6 DEF PanBack
  <2>2. view = [up EXCEPT !["col"] = start] BY <1>6, <2>1 DEF PanBack
  <2>3. up["row"] = Greater(0, first["row"] - Page["row"]) /\ up \in Position
    BY <1>3, <1>4 DEF Position, Axes
  <2> HIDE DEF up, start
  <2>4. view["row"] = Greater(0, first["row"] - Page["row"]) /\ view["col"] = start
    BY <2>2, <2>3 DEF Position, Axes
  <2>5. start \in Nat /\ extent["col"] <= start + Page["col"]
    BY <1>1, <1>2, LastPage DEF start, Axes
  <2>6. Passed("back", view, p) OBVIOUS
  <2> HIDE DEF view
  <2>7. \A a \in Axes : InView(view, p, a)
    BY <1>1, <1>2, <1>4, <1>6, <2>4, <2>5, <2>6 DEF Passed, InView, Axes
  <2> QED BY <2>7 DEF Window, view
<1> QED BY <1>5, <1>6

(* A step takes the sweep further, begins one, or ends it.                 *)
LEMMA StepCovers ==
  ASSUME Typed, Typed', Covered, NEW command \in Commands, Step(command)
  PROVE  Covered'
<1>1. PICK extent \in Extents :
        /\ View(command, extent) # first /\ first' = View(command, extent)
        /\ Remember(extent)
        /\ swept' = IF Stale THEN None
                    ELSE IF swept # None /\ command = swept.way /\ extent["col"] # None
                    THEN [swept EXCEPT !.cells = @ \cup Window(first')]
                    ELSE Sweep(first', extent)
  BY DEF Step
<1>2. drawn /\ UNCHANGED <<drawn, last, reported, excel>> BY DEF Step, tableVars
<1> SUFFICES ASSUME swept' # None PROVE Covered'
  BY DEF Covered
<1>3. ~Stale /\ Spans(extent) /\ extent \in Counts /\ first \in Position /\ first' \in Position
  BY <1>1, <1>2, ExtentsSpan, ExtentsAreCounts DEF Typed
<1>4. ~Stale'
  <2>1. bounds' = bounds \/ (excel /\ bounds = None /\ extent = Widened(last) /\ bounds' = extent)
    BY <1>1, <1>3 DEF Remember, Extents, Answers
  <2>2. Widened(last)' = Widened(last) BY <1>2 DEF Widened
  <2> QED BY <1>3, <2>1, <2>2 DEF Stale
<1>5. ASSUME NEW p \in AllCells, Reports(p), Passed(swept'.way, first', p)
      PROVE  p \in swept'.cells
  <2>1. CASE swept # None /\ command = swept.way /\ extent["col"] # None
    <3>1. swept' = [swept EXCEPT !.cells = @ \cup Window(first')] BY <1>1, <1>3, <2>1
    <3>2. swept \in [way : {"forward", "back"}, cells : SUBSET Position] BY <2>1 DEF Typed
    <3>3. swept'.way = swept.way /\ swept'.cells = swept.cells \cup Window(first')
      BY <3>1, <3>2
    <3>4. CASE Passed(swept.way, first, p) BY <1>5, <2>1, <3>3, <3>4 DEF Covered
    <3>5. CASE ~Passed(swept.way, first, p)
      <4>1. CASE command = "forward"
        <5>1. first' = PanForward(extent) BY <1>1, <4>1 DEF View
        <5> QED BY <1>1, <1>3, <1>5, <2>1, <3>3, <3>5, <4>1, <5>1, ForwardCovers
      <4>2. CASE command = "back"
        <5>1. first' = PanBack(extent) BY <1>1, <4>2 DEF View
        <5> QED BY <1>1, <1>3, <1>5, <2>1, <3>3, <3>5, <4>2, <5>1, BackCovers
      <4> QED BY <2>1, <3>2, <4>1, <4>2
    <3> QED BY <3>4, <3>5
  <2>2. CASE ~(swept # None /\ command = swept.way /\ extent["col"] # None)
    <3>1. swept' = Sweep(first', extent) BY <1>1, <1>3, <2>2
    <3> QED BY <1>3, <1>5, <3>1, SweepCovers
  <2> QED BY <2>1, <2>2
<1>6. \A p : Reports(p)' <=> Reports(p) BY <1>2 DEF Reports
<1> QED BY <1>2, <1>4, <1>5, <1>6 DEF Covered

LEMMA RenderCovers == Typed /\ Typed' /\ Covered /\ Render => Covered'
<1> SUFFICES ASSUME Typed, Typed', Covered, Render, swept' # None PROVE Covered'
  BY DEF Covered
<1> DEFINE p == IF nav = None THEN last ELSE nav
<1>1. p \in Position \cup {None} BY DEF Typed
<1>2. PICK extent \in Answers(p) :
        /\ last' = p
        /\ bounds' \in IF ~excel THEN {None}
                       ELSE IF extent = Unread THEN {None, Widened(p)} ELSE {extent}
        /\ swept' = IF first' = first THEN swept ELSE Sweep(first', extent)
  BY DEF Render
<1>3. drawn' = TRUE /\ UNCHANGED <<reported, excel>> BY DEF Render, tableVars
<1> HIDE DEF p
<1>4. Spans(extent) /\ extent \in Counts BY <1>1, AnswersSpan, ExtentsAreCounts
<1>5. ~Stale'
  <2>1. Widened(last)' = Widened(p) BY <1>2, <1>3 DEF Widened
  <2>2. bounds' \in {None, Widened(p)} BY <1>2 DEF Answers
  <2> QED BY <2>1, <2>2 DEF Stale
<1>6. ASSUME NEW q \in AllCells, Reports(q), Passed(swept'.way, first', q)
      PROVE  q \in swept'.cells
  <2>1. CASE first' = first BY <1>2, <1>6, <2>1 DEF Covered
  <2>2. CASE first' # first
    <3>1. first' \in Position BY <1>3 DEF Typed
    <3> QED BY <1>2, <1>4, <1>6, <2>2, <3>1, SweepCovers
  <2> QED BY <2>1, <2>2
<1>7. \A q : Reports(q)' <=> Reports(q) BY <1>3 DEF Reports
<1> QED BY <1>3, <1>5, <1>6, <1>7 DEF Covered

LEMMA CoveredNext == Typed /\ Typed' /\ Covered /\ [Next]_vars => Covered'
<1> SUFFICES ASSUME Typed, Typed', Covered, [Next]_vars PROVE Covered' OBVIOUS
<1>1. CASE Render BY <1>1, RenderCovers
<1>2. CASE \E command \in Commands : Step(command) BY <1>2, StepCovers
<1>3. CASE \E command \in Commands : Refuse(command)
  <2>1. PICK extent \in Extents : Remember(extent) BY <1>3 DEF Refuse
  <2>2. UNCHANGED <<excel, reported, first, drawn, last, swept>>
    BY <1>3 DEF Refuse, tableVars, viewVars, historyVars
  <2>3. ASSUME ~Stale PROVE ~Stale'
    <3>1. bounds' = bounds \/ (excel /\ bounds = None /\ extent = Widened(last) /\ bounds' = extent)
      BY <2>1, <2>3 DEF Remember, Extents, Answers
    <3>2. Widened(last)' = Widened(last) BY <2>2 DEF Widened
    <3> QED BY <2>3, <3>1, <3>2 DEF Stale
  <2>4. \A p : Reports(p)' <=> Reports(p) BY <2>2 DEF Reports
  <2> QED BY <2>2, <2>3, <2>4 DEF Covered
<1>4. CASE UNCHANGED <<reported, bounds, first, drawn, last, swept>>
  BY <1>4 DEF Covered, Stale, Widened, Reports
<1>5. CASE MoveNavigator
  BY <1>4, <1>5 DEF MoveNavigator, viewVars, historyVars
<1>6. CASE \E p \in AllCells \cup {None} : Navigate(p)
  BY <1>4, <1>6 DEF Navigate, viewVars
<1>7. CASE \E extent \in Sizes : Resize(extent)
  BY <1>7 DEF Resize, Covered
<1>8. CASE UNCHANGED vars
  BY <1>4, <1>8 DEF vars, viewVars, historyVars
<1> QED BY <1>1, <1>2, <1>3, <1>5, <1>6, <1>7, <1>8 DEF Next

(* Panning goes on until it has passed every cell the table reports.       *)
LEMMA RefusedAtTheEnd ==
  ASSUME Typed, first \in Position, NEW way \in {"forward", "back"},
         NEW extent \in Counts, Spans(extent), \A a \in Axes : extent[a] # None,
         first = IF way = "forward" THEN PanForward(extent) ELSE PanBack(extent),
         NEW p \in AllCells, Reports(p)
  PROVE  Passed(way, first, p)
<1>1. \A a \in Axes : first[a] \in Nat /\ p[a] \in Nat /\ Page[a] \in Nat \ {0} /\ First(a) = first[a]
  BY CellNumbers, NoneAssumption DEF Position, First
<1>2. \A a \in Axes : extent[a] \in Nat \ {0} /\ p[a] < extent[a]
  BY <1>1 DEF Counts, Reports, Spans, Typed
<1>3. CASE way = "forward"
  <2>1. \A a \in Axes : First(a) + Page[a] < extent[a] => PageOn(a, extent)[a] # first[a]
    BY <1>1, <1>2 DEF PageOn, Position
  <2>2. first["col"] + Page["col"] >= extent["col"]
    BY <1>1, <1>2, <1>3, <2>1 DEF PanForward, Axes
  <2>3. PageOn("row", extent)["row"] = first["row"]
    BY <1>1, <1>2, <1>3, <2>2 DEF PanForward, PageOn, Position, Axes
  <2>4. first["row"] + Page["row"] >= extent["row"]
    BY <1>1, <1>2, <2>1, <2>3 DEF Axes
  <2> QED BY <1>1, <1>2, <1>3, <2>2, <2>4 DEF Passed, Axes
<1>4. CASE way = "back"
  <2>1. \A a \in Axes : StepBy(a, -Page[a], extent)[a] = Greater(0, first[a] - Page[a])
    <3>1. \A a \in Axes : StepBy(a, -Page[a], extent) = [first EXCEPT ![a] = Greater(0, first[a] - Page[a])]
      BY StepsBack
    <3> QED BY <3>1 DEF Position
  <2>2. \A a \in Axes : first[a] # 0 => Greater(0, first[a] - Page[a]) # first[a]
    BY <1>1 DEF Greater
  <2>3. first["col"] = 0
    BY <1>1, <1>4, <2>1, <2>2 DEF PanBack, Axes
  <2>4. StepBy("row", -Page["row"], extent)["row"] = first["row"]
    <3>1. StepBy("row", -Page["row"], extent) \in Position
      BY <1>1, StepByBounds DEF Axes
    <3> QED BY <1>1, <1>2, <1>4, <2>3, <3>1 DEF PanBack, Position, Axes
  <2>5. first["row"] = 0 BY <2>1, <2>2, <2>4 DEF Axes
  <2> QED BY <1>1, <1>4, <2>3, <2>5 DEF Passed, Axes
<1> QED BY <1>3, <1>4

(* NothingSkipped: panning on from the first cell, or back from the last   *)
(* page, has shown every cell of the table when it is refused, whatever    *)
(* the sizes of the table and of the display, and whatever renders and     *)
(* navigator moves come between.                                           *)
THEOREM PanningShowsAll == Spec => []NothingSkipped
<1>1. Init => Covered BY DEF Init, Covered
<1>2. Typed /\ Typed' /\ Covered /\ [Next]_vars => Covered' BY CoveredNext
<1>3. Typed /\ Covered => NothingSkipped
  <2> SUFFICES ASSUME Typed, Covered, swept # None, NEW extent \in Extents,
                      \A a \in Axes : extent[a] # None,
                      first = IF swept.way = "forward" THEN PanForward(extent) ELSE PanBack(extent),
                      NEW p \in AllCells, \A a \in Axes : p[a] < reported[a]
               PROVE  p \in swept.cells
    BY DEF NothingSkipped
  <2>1. drawn /\ ~Stale /\ first \in Position /\ swept.way \in {"forward", "back"}
    BY DEF Covered, Typed
  <2>2. Spans(extent) /\ extent \in Counts BY <2>1, ExtentsSpan, ExtentsAreCounts
  <2>3. Reports(p)
    <3>1. excel => reported \in Sized BY DEF Typed
    <3>2. ~excel => extent = reported BY DEF Extents, Answers, Typed
    <3> QED BY <3>1, <3>2, NoneAssumption DEF Reports, Sized
  <2> QED BY <2>1, <2>2, <2>3, RefusedAtTheEnd DEF Covered
<1> QED BY <1>1, <1>2, <1>3, TypedAlways, PTL DEF Spec

=============================================================================

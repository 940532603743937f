------------------------------ MODULE TableView ------------------------------
(***************************************************************************)
(* The view of a table on the graphic display: which row and column come   *)
(* first, how the user's steps and the cell NVDA is at move the view, and  *)
(* the navigator move that may follow a step.  TablePresentation and Table *)
(* (ExcelTable, for a worksheet) as one.                                   *)
(*                                                                         *)
(* Rows and columns are treated alike, so positions and views are          *)
(* functions of the axis.  What a cell holds, how it is found and drawn    *)
(* are left out; no cell spans several; and whether Excel answers is       *)
(* chosen once per handler, however often it asks.                         *)
(***************************************************************************)
EXTENDS Integers, Sequences

CONSTANTS
  Page,      \* cells that fit on the display, per axis
  Sizes,     \* what tables may report of their rows and columns
  MaxCount,  \* bound: cells lie within so many rows and columns
  MaxMoves,  \* bound: no step is taken with so many navigator moves to come
  None

Axes == {"row", "col"}
Position == [Axes -> Nat]

ASSUME PageAssumption == Page \in [Axes -> Nat \ {0}]
ASSUME SizesAssumption == Sizes \subseteq [Axes -> (Nat \ {0}) \cup {None}]
ASSUME BoundAssumption == MaxCount \in [Axes -> Nat \ {0}] /\ MaxMoves \in Nat
ASSUME NoneAssumption == None \notin Int /\ None \notin Position

VARIABLES
  excel,       \* is the table a worksheet?
  setting,     \* tableNavigatorAfterScroll
  reported,    \* rowCount and columnCount, None if the table does not say;
               \* of a worksheet, where its used range ends
  bounds,      \* _usedRangeBounds, None when not cached
  first,       \* firstVisibleRow and firstVisibleCol, None to auto-centre
  drawn,       \* are numVisibleRows and numVisibleCols known?
  last,        \* cell of the last render, _lastCellRow and _lastCellCol;
               \* tableCurrentRow and tableCurrentCol always equal them
  nav,         \* cell NVDA is at, None if its position cannot be told
  moves,       \* navigator moves waiting in core.callLater
  needsRender, \* the renderer's flag for the next core cycle
  kept,        \* history: the view the user asked for and is to keep
  strayed,     \* history: may the view lack the cell of the last render?
  swept        \* history: what panning has shown since it began at an edge

tableVars == <<excel, setting>>
viewVars == <<first, drawn, last>>
historyVars == <<kept, strayed, swept>>
vars == <<tableVars, reported, bounds, viewVars, nav, moves, needsRender, historyVars>>

Lesser(m, n) == IF m < n THEN m ELSE n
Greater(m, n) == IF m > n THEN m ELSE n

Origin == [a \in Axes |-> 0]
Unread == [a \in Axes |-> None]

AllCells == {p \in [Axes -> 0 .. MaxCount["row"] + MaxCount["col"]] :
               \A a \in Axes : p[a] < MaxCount[a]}

InView(view, p, a) == view[a] <= p[a] /\ p[a] < view[a] + Page[a]

Window(view) == {p \in AllCells : \A a \in Axes : InView(view, p, a)}

(* "firstVisibleRow or 0" *)
First(a) == IF first[a] = None THEN 0 ELSE first[a]

-----------------------------------------------------------------------------
(* The extent, as the code gets to see it.  Excel may refuse to answer; an *)
(* answer covers the current cell p and is cached until the next draw.     *)

Widened(p) == [a \in Axes |-> Greater(reported[a], (IF p = None THEN 0 ELSE p[a]) + 1)]

Answers(p) == IF excel THEN {Unread, Widened(p)} ELSE {reported}

Extents == IF bounds # None THEN {bounds} ELSE Answers(last)

(* The cached extent is not the present one any more.                      *)
Stale == bounds # None /\ bounds # Widened(last)

Remember(extent) == bounds' = IF excel /\ extent # Unread THEN extent ELSE bounds

-----------------------------------------------------------------------------
(* Rendering. *)

(* drawTable's choice of the first row or column. *)
Centred(a, p, count) ==
  IF p = None \/ p[a] < Page[a] THEN 0
  ELSE LET middle == p[a] - Page[a] \div 2
       IN  IF count # None /\ middle + Page[a] > count THEN Greater(0, count - Page[a])
           ELSE Greater(0, middle)

(* Mutant: a cell out of view in its row is taken to be in view.           *)
Drawn_RowsOnly(p, extent) ==
  [a \in Axes |->
     IF first[a] = None \/ (drawn /\ p # last /\ a = "row" /\ ~InView(first, p, a))
     THEN Centred(a, p, extent[a])
     ELSE first[a]]

(* The view of the next draw, with the cell at p.  It follows a cell that  *)
(* moved out of view, on the axis on which it did.                         *)
Drawn(p, extent) ==
  [a \in Axes |->
     IF first[a] = None \/ (drawn /\ p # last /\ ~InView(first, p, a))
     THEN Centred(a, p, extent[a])
     ELSE first[a]]

(* Panning shows the table from its first cell on, or from its last page.  *)
Sweep(view, extent) ==
  IF view = Origin THEN [way |-> "forward", cells |-> Window(view)]
  ELSE IF \A a \in Axes : extent[a] # None /\ view[a] + Page[a] = extent[a]
       THEN [way |-> "back", cells |-> Window(view)]
  ELSE None

(* One core cycle: TablePresentation.render.  A debug log may read Excel's *)
(* extent once more.                                                       *)
Render ==
  /\ needsRender /\ needsRender' = FALSE
  /\ drawn' = TRUE
  /\ LET p == IF nav = None THEN last ELSE nav
     IN  \E extent \in Answers(p) :
           /\ last' = p
           /\ first' = Drawn(p, extent)
           /\ bounds' \in IF ~excel THEN {None}
                          ELSE IF extent = Unread THEN {None, Widened(p)} ELSE {extent}
           /\ strayed' = IF \E a \in Axes : p # None /\ extent[a] # None /\ p[a] >= extent[a]
                         THEN TRUE ELSE strayed /\ drawn /\ p = last
           /\ swept' = IF first' = first THEN swept ELSE Sweep(first', extent)
  /\ UNCHANGED <<tableVars, reported, nav, moves, kept>>

-----------------------------------------------------------------------------
(* The steps: the view each one leads to, which is the present view when   *)
(* the step is refused.                                                    *)

LastFullPage(a, extent) == Greater(0, extent[a] - Page[a])

(* Mutant: without an extent a step back is not clamped at all.            *)
Clamped_Unbounded(a, target, extent) ==
  IF extent[a] = None
  THEN IF target > First(a) THEN First(a) ELSE target
  ELSE Greater(0, Lesser(target, Greater(LastFullPage(a, extent), First(a))))

(* _setFirstVisible.  A page step can leave the view past the last full    *)
(* page, and a single step from there must not go back.                    *)
Clamped(a, target, extent) ==
  IF extent[a] = None
  THEN IF target > First(a) THEN First(a) ELSE Greater(0, target)
  ELSE Greater(0, Lesser(target, Greater(LastFullPage(a, extent), First(a))))

StepBy(a, n, extent) == [first EXCEPT ![a] = Clamped(a, First(a) + n, extent)]

ToStart(a, extent) == [first EXCEPT ![a] = Clamped(a, 0, extent)]

ToEnd(a, extent) ==
  IF extent[a] = None THEN first
  ELSE [first EXCEPT ![a] = Clamped(a, LastFullPage(a, extent), extent)]

(* Mutant: a page that begins just past the end is shown.                  *)
PageOn_PastEnd(a, extent) ==
  IF extent[a] = None \/ First(a) + Page[a] > extent[a] THEN first
  ELSE [first EXCEPT ![a] = First(a) + Page[a]]

(* scrollRight and scrollDown *)
PageOn(a, extent) ==
  IF extent[a] = None \/ First(a) + Page[a] >= extent[a] THEN first
  ELSE [first EXCEPT ![a] = First(a) + Page[a]]

(* scrollForward: at the end of the rows on to the next ones. *)
PanForward(extent) ==
  IF extent["col"] = None \/ First("col") + Page["col"] < extent["col"]
  THEN PageOn("col", extent)
  ELSE LET down == PageOn("row", extent)
       IN  IF down = first THEN first ELSE [down EXCEPT !["col"] = 0]

(* Mutant: panning back wraps to the last full page.                       *)
PanBack_ToFullPage(extent) ==
  IF First("col") # 0 THEN StepBy("col", -Page["col"], extent)
  ELSE LET up == StepBy("row", -Page["row"], extent)
       IN  IF up = first \/ extent["col"] = None THEN up
           ELSE [up EXCEPT !["col"] = LastFullPage("col", extent) - 1]

(* scrollBack: at the start of the rows back to the ones before. *)
PanBack(extent) ==
  IF First("col") # 0 THEN StepBy("col", -Page["col"], extent)
  ELSE LET up == StepBy("row", -Page["row"], extent)
       IN  IF up = first \/ extent["col"] = None THEN up
           ELSE [up EXCEPT !["col"] = ((extent["col"] - 1) \div Page["col"]) * Page["col"]]

Onwards == {"pageDown", "pageRight", "rowDown", "columnRight"}
Backwards == {"pageUp", "pageLeft", "rowUp", "columnLeft"}
Jumps == {"firstRow", "firstColumn", "lastRow", "lastColumn"}
Commands == Onwards \cup Backwards \cup Jumps \cup {"forward", "back"}

View(command, extent) ==
  CASE command = "pageDown" -> PageOn("row", extent)
    [] command = "pageRight" -> PageOn("col", extent)
    [] command = "rowDown" -> StepBy("row", 1, extent)
    [] command = "columnRight" -> StepBy("col", 1, extent)
    [] command = "pageUp" -> StepBy("row", -Page["row"], extent)
    [] command = "pageLeft" -> StepBy("col", -Page["col"], extent)
    [] command = "rowUp" -> StepBy("row", -1, extent)
    [] command = "columnLeft" -> StepBy("col", -1, extent)
    [] command = "firstRow" -> ToStart("row", extent)
    [] command = "firstColumn" -> ToStart("col", extent)
    [] command = "lastRow" -> ToEnd("row", extent)
    [] command = "lastColumn" -> ToEnd("col", extent)
    [] command = "forward" -> PanForward(extent)
    [] command = "back" -> PanBack(extent)

-----------------------------------------------------------------------------
(* After a step: moveNavigatorAfterScroll, and a request to render. *)

(* Mutant: the navigator goes to the cell past the page.                   *)
MoveTarget_PastPage(view, extent) == [a \in Axes |-> view[a] + Page[a]]

MoveTarget(view, extent) ==
  IF setting = "first" THEN view
  ELSE [a \in Axes |->
          view[a] + (IF extent[a] = None THEN Page[a]
                     ELSE Lesser(Page[a], extent[a] - view[a])) \div 2]

(* A worksheet has every cell; elsewhere the cell may not be found.        *)
QueueMove(target) ==
  IF setting = "nothing" THEN moves' = moves
  ELSE \/ moves' = Append(moves, target)
          /\ (~excel => \A a \in Axes : reported[a] # None => target[a] < reported[a])
       \/ moves' = moves /\ ~excel

(* Nothing is about to move the view: every navigator move was drawn.      *)
Settled == moves = <<>> /\ (nav = None \/ nav = last)

Step(command) ==
  /\ drawn /\ Len(moves) < MaxMoves
  /\ \E extent \in Extents :
       LET view == View(command, extent)
       IN  /\ view # first
           /\ first' = view
           /\ QueueMove(MoveTarget(view, extent))
           /\ Remember(extent)
           /\ swept' = IF Stale THEN None
                       ELSE IF swept # None /\ command = swept.way /\ extent["col"] # None
                       THEN [swept EXCEPT !.cells = @ \cup Window(view)]
                       ELSE Sweep(view, extent)
           /\ kept' = IF Settled /\ \A a \in Axes : extent[a] # None => view[a] < extent[a]
                      THEN view ELSE None
  /\ strayed' = TRUE
  /\ needsRender' = TRUE
  /\ UNCHANGED <<tableVars, reported, drawn, last, nav>>

(* A step is refused, at an edge or for want of an extent.                 *)
Refuse(command) ==
  /\ drawn
  /\ \E extent \in Extents : View(command, extent) = first /\ Remember(extent)
  /\ UNCHANGED <<tableVars, reported, viewVars, nav, moves, needsRender, historyVars>>

(* doMove and doSelect.  The cell may be gone meanwhile, or beyond the end *)
(* of the worksheet.                                                       *)
MoveNavigator ==
  /\ moves # <<>> /\ moves' = Tail(moves)
  /\ \/ Head(moves) \in AllCells /\ nav' = Head(moves) /\ needsRender' = TRUE
     \/ UNCHANGED <<nav, needsRender>>
  /\ UNCHANGED <<tableVars, reported, bounds, viewVars, historyVars>>

-----------------------------------------------------------------------------
(* The user and the application. *)

(* The user can be at any cell of a worksheet, at one inside of a table.   *)
CanBeAt(p) == p # None /\ ~excel => \A a \in Axes : reported[a] # None => p[a] < reported[a]

(* The user moves to another cell.  NVDA's events reach onReviewMove, which *)
(* asks for a render.                                                      *)
Navigate(p) ==
  /\ CanBeAt(p)
  /\ nav' = p /\ needsRender' = TRUE /\ kept' = None
  /\ UNCHANGED <<tableVars, reported, bounds, viewVars, moves, strayed, swept>>

(* The table grows or shrinks.                                             *)
Resize(extent) ==
  /\ \A a \in Axes : extent[a] = None <=> reported[a] = None
  /\ reported' = extent /\ swept' = None
  /\ UNCHANGED <<tableVars, bounds, viewVars, nav, moves, needsRender, kept, strayed>>

Init ==
  /\ excel \in BOOLEAN /\ setting \in {"nothing", "first", "center"}
  /\ reported \in Sizes /\ (excel => \A a \in Axes : reported[a] # None)
  /\ bounds = None
  /\ first = Unread /\ drawn = FALSE
  /\ nav \in AllCells \cup {None}
  /\ CanBeAt(nav)
  /\ last \in {None, nav}
  /\ moves = <<>> /\ needsRender = TRUE
  /\ kept = None /\ strayed = FALSE /\ swept = None

Next ==
  \/ Render \/ MoveNavigator
  \/ \E command \in Commands : Step(command) \/ Refuse(command)
  \/ \E p \in AllCells \cup {None} : Navigate(p)
  \/ \E extent \in Sizes : Resize(extent)

Spec == Init /\ [][Next]_vars

-----------------------------------------------------------------------------
(* Properties. *)

TypeOK ==
  /\ excel \in BOOLEAN /\ setting \in {"nothing", "first", "center"}
  /\ reported \in [Axes -> Nat \cup {None}]
  /\ bounds \in [Axes -> Nat] \cup {None}
  /\ first \in [Axes -> Nat \cup {None}] /\ drawn \in BOOLEAN
  /\ drawn => first \in Position
  /\ last \in Position \cup {None} /\ nav \in Position \cup {None}
  /\ moves \in Seq(Position) /\ needsRender \in BOOLEAN
  /\ kept \in Position \cup {None} /\ strayed \in BOOLEAN
  /\ swept = None \/ swept \in [way : {"forward", "back"}, cells : SUBSET Position]

(* The view follows the cell the user is at: whatever moved it where, once *)
(* it is drawn the cell is in view, unless the user has stepped the view   *)
(* away since, or the table reports an extent that excludes the cell.      *)
CursorShown ==
  drawn /\ last # None /\ ~strayed => \A a \in Axes : InView(first, last, a)

(* A view the user stepped to stays until the user steps again or moves to *)
(* another cell: the navigator move that follows a step never undoes it.   *)
(* It may when an earlier one was not drawn yet, or the table has shrunk   *)
(* and ends before the view.                                               *)
ScrollSticks == kept # None => first = kept

(* Panning forward from the first cell, or back from the last page, until  *)
(* it is refused shows every cell; unless Excel would not say how wide the *)
(* table is when a row ended, or how large it is was cached before it grew.*)
NothingSkipped ==
  swept # None =>
    \A extent \in Extents :
      /\ \A a \in Axes : extent[a] # None
      /\ first = IF swept.way = "forward" THEN PanForward(extent) ELSE PanBack(extent)
      => \A p \in AllCells : (\A a \in Axes : p[a] < reported[a]) => p \in swept.cells

(* A step down or right never moves the view up or left, nor the other way *)
(* round, wherever earlier steps and the cursor have left it.              *)
NeverReverses ==
  drawn =>
    \A extent \in Extents, a \in Axes :
      /\ \A command \in Onwards : first[a] <= View(command, extent)[a]
      /\ \A command \in Backwards : View(command, extent)[a] <= first[a]

(* As long as the table does not shrink, behind a cached used range in     *)
(* particular, a view that begins inside it is never followed by one that  *)
(* begins past its end and shows nothing.                                  *)
Inside ==
  \A a \in Axes :
    \/ first[a] = None \/ reported[a] = None
    \/ first[a] < IF excel THEN Widened(last)[a] ELSE reported[a]

NeverBlank == [][reported' = reported /\ ~Stale /\ Inside => Inside']_vars
=============================================================================

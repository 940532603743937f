SPECIFICATION Spec
CONSTANTS
  text = text
  cell = cell
  series = series
  other = other
  picture = picture
  chart = chart
  tableA = tableA
  tableB = tableB
  Objects <- MCObjects
  Tables <- MCTables
  TableAt <- MCTableAt
  DeepTableAt <- MCDeepTableAt
  Within <- MCWithin
  Excel <- MCExcel
  Charts <- MCCharts
  Graphics <- MCGraphics
  Located <- MCLocated
  MaxApcs = 1
  None = None
INVARIANTS TypeOK ForcedIsActive SelectionFits DismissalScoped QueuedHasApc
PROPERTIES DismissalHolds ForceOutlivesRefusals
\* Nothing happens any more once the renderer is terminated.
CHECK_DEADLOCK FALSE

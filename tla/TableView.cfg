SPECIFICATION Spec
CONSTANTS
  None = None
  Page <- MCPage
  MaxCount <- MCMaxCount
  Sizes <- MCSizes
  MaxMoves = 2
INVARIANTS TypeOK CursorShown ScrollSticks NothingSkipped
PROPERTY NeverBlank

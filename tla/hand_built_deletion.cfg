CONSTANTS
  Docs = {doc1}
  Names = {a, b, c, d}
  NewIds = {i1, i2}
  None = None
  Stocks = {stock}
  DefaultStock = stock
  HandStocks = {stock}
  HandSlots <- MCHandSlots
  BackSpans <- MCBackSpans
  NamesReturn = FALSE
  MaxWrites = 3
  MaxHands = 2
SYMMETRY Symmetry
SPECIFICATION Spec
CHECK_DEADLOCK FALSE
PROPERTIES
  DeletedBoardsAreGone

\* A long session, changes made by hand, and the container's copies.
CONSTANTS
  Docs = {doc1, doc2}
  Names = {a, b, c, d}
  NewIds = {i1, i2}
  None = None
  Stocks = {stock, oak}
  DefaultStock = stock
  HandStocks = {oak}
  HandSlots <- MCHandSlots
  BackSpans <- MCBackSpans
  NamesReturn = FALSE
  MaxWrites = 3
  MaxHands = 2
SYMMETRY Symmetry
SPECIFICATION Spec
CHECK_DEADLOCK FALSE
INVARIANTS
  TypeOK
  ReadsBack
  SecondWriteIsQuiet
PROPERTIES
  ListIsKept
  LabelsSurvive
  BacksKeepTheirBoards
  StocksAreCopied

SPECIFICATION Spec
CONSTANTS
  Columns = 3
  Rows = 2
  MaxCols = 4
  MaxRows = 4
  Tab = 2
  BlinkPeriod = 1
  PointerW = 1
  PointerH = 1
  Backends = {"fb", "vga"}
  Texts <- MCTexts
  Moves <- MCMoves
  MaxPuts = 4
INVARIANTS
  GridTruth
  OneArrow
  OneBlock

SPECIFICATION Spec
CONSTANTS
  BYTE = 1
  EXP32 = 2
  EXP64 = 4
  DETERMINISTIC = FALSE
  MEMORY64 = TRUE
  PAGE = 4
  StockPage = 4
  RowSet <- AllRows
  Narrow <- NarrowFew
  Wide <- WideFew
  CopyArgs <- CopyFew
INVARIANTS Simulates Repeatable Canonical
CHECK_DEADLOCK FALSE

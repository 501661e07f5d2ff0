SPECIFICATION VectorSpec
CONSTANTS
  BYTE = 1
  EXP32 = 2
  EXP64 = 4
  DETERMINISTIC = TRUE
  MEMORY64 = TRUE
  Wide <- MCWide
  Addresses <- MCAddresses
  Memory <- MCMemory
  V128s <- MCV128s
  Indices <- MCIndices
  Amounts <- MCAmounts
  Scalars <- MCScalars
  Bytes128 <- MCBytes128
INVARIANTS ScalarsExact FoldingAgrees VectorsExact AccessesExact

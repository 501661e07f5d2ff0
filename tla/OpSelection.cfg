SPECIFICATION Spec
CONSTANTS
  BYTE = 1
  EXP32 = 2
  EXP64 = 4
  DETERMINISTIC = FALSE
  MEMORY64 = TRUE
  Values <- MCValues
  Memories <- MCMemories
  Offsets <- MCOffsets
  OFFSET16 = 2
  MaxLen = 3
  SelfStore = FALSE
INVARIANTS SelectedComputes BranchDecides AccessExact

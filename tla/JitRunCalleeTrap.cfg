SPECIFICATION Spec
CONSTANT Families <- CalleeTrap
INVARIANT CalleeTrapKept
CHECK_DEADLOCK FALSE

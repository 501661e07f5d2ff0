SPECIFICATION Spec
CONSTANTS
    PageSize = 2
    RefSize = 2
    BytesPerFuel = 2
    AbsoluteMax = 3
    TableMax = 4
    Modules <- MCModules
    StoreChoices <- MCStoreChoices
    FuelAmounts = {1}
    MemoryTypes <- MCMemoryTypes
    TableTypes <- MCTableTypes
    Capacities <- MCCapacities
    Deltas = {0, 1, 2}
    Offsets = {0, 1}
    Lens = {2}
    Values = {1}
    MaxInstances = 2
    MaxMemories = 2
    MaxTables = 1
    MaxFailures = 1
    MaxSteps = 4
INVARIANTS Metered WithinBounds ImportsStayWithin OrphanFuncs SegmentsApplied
PROPERTIES FailuresLeaveNothing GrowthPaid
CHECK_DEADLOCK FALSE

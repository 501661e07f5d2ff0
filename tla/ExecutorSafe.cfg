SPECIFICATION Spec
CONSTANTS
    Instances = {"i", "j"}
    Memories = {"m"}
    Funcs = {"a", "b", "c"}
    Hosts = {"g", "p"}
    NoInst = NoInst
    NoMem = NoMem
    NoFunc = NoFunc
    InstanceOf <- MCInstanceOf
    Size <- MCSize
    Params <- MCParams
    HostParams <- MCHostParams
    HostResults <- MCHostResults
    Grows <- MCGrows
    Fallible = {"g"}
    TailHosts = {"p"}
    Mem0 <- MCMem0
    OtherMems <- MCOtherMems
    Metered = TRUE
    TableGrow = FALSE
    MaxDepth = 3
    MaxHeight = 5
    MaxPages = 1
    MaxPos = 1
INVARIANTS Mem0Fresh SpOfTop ResumeSlots
PROPERTIES SuspendsInPlace ImplementsActivations

SPECIFICATION Spec
CONSTANTS
    Instances = {"i", "j"}
    Memories = {"m"}
    Funcs = {"a", "b", "c"}
    Hosts = {"g", "n"}
    NoInst = NoInst
    NoMem = NoMem
    NoFunc = NoFunc
    InstanceOf <- MCInstanceOf
    Size <- MCSize
    Params <- MCParams
    HostParams <- MCHostParams
    HostResults <- MCHostResults
    Grows <- MCGrows
    Fallible = {"g", "n"}
    TailHosts = {"g", "n"}
    Mem0 <- MCMem0
    OtherMems <- MCOtherMems
    Metered = TRUE
    TableGrow = TRUE
    MaxDepth = 3
    MaxHeight = 5
    MaxPages = 1
    MaxPos = 1
INVARIANTS OwnInstance Restorable FramesFit IInv

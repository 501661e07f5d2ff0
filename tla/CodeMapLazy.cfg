SPECIFICATION Spec
CONSTANTS
    Threads = {t1, t2}
    NoThread = NoThread
    LEN_BUCKET0_LOG2 = 0
    MaxFuncs = 2
    MaxModuleFuncs = 2
    CompilationMode = "Lazy"
    FuelMetering = TRUE
    BodyKind <- MCBodyKind
    DebugThreads = {}
INVARIANTS RaceFree OneCompiler CallsResolve IInv
PROPERTIES Final ImplementsFuncTable
SYMMETRY ThreadSymmetry

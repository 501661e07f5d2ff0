SPECIFICATION FairSpec
CONSTANTS
    Threads = {t1, t2}
    NoThread = NoThread
    LEN_BUCKET0_LOG2 = 0
    MaxFuncs = 2
    MaxModuleFuncs = 1
    CompilationMode = "Lazy"
    FuelMetering = FALSE
    BodyKind <- MCBodyKind
    DebugThreads = {t2}
PROPERTIES CompilingEnds CallsEnd

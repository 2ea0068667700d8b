SPECIFICATION FairSpec
CONSTANTS
    Isolates = {ui, bg}
    EngineThreads = {ui}
    LocalCapacity = 5
    Provided = {"Dart_PostInteger", "Dart_NewWeakPersistentHandle"}
    SameMajor = TRUE
    Checked = TRUE
    ZeroedHeap = FALSE
INVARIANTS TypeOK ThreadsAsFound NullMethodWindow LocalReferencesFreed
INVARIANTS WorkerFindsNative WorkerMethodWindow CrashCauses
PROPERTY CallReturns
CHECK_DEADLOCK FALSE

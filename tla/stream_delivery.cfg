\* Two factories of a tier, its HLS generator, rebuilds, dumps and updates.
SPECIFICATION FairSpec
CONSTANTS
    Sessions = {r1, r2}
    Hls = Hls
    Main = Main
    Pump = Pump
    MgrLock = MgrLock
    ConfigMutex = ConfigMutex
    BranchMutex = BranchMutex
    Freed = Freed
    None = None
    MaxSubscribers = 2
    Ops = {"hls", "rebuild", "dump", "update", "fail"}
INVARIANTS
    StreamOutlivesCallbacks
    PushesToOpen
    CyclesNeedConfigure
PROPERTY SamplesFinish
CHECK_DEADLOCK FALSE

\* Three calls, two of them at one stack address; no spurious wakeups.
SPECIFICATION Spec
CONSTANTS
    c1 = c1  c2 = c2  c3 = c3
    f1 = f1  f2 = f2  f3 = f3
    NoCall = NoCall
    Calls <- MCCalls3
    Frames <- MCFrames
    KindOf <- MCKindOf3
    FrameOf <- MCSharedFrame3
    SpuriousWakeups = FALSE
INVARIANTS
    TypeOK
    NotifiedMeansExecuted
    DanglingOnlyAfterGivingUp
    BatteryNotFromEarlierCommand
    KillHeededWithinOneRound
    LeakedLockOnlyAfterKill
PROPERTY
    ImplementsQueue

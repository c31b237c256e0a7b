\* A controller that falls silent while connected: ctrl-c does not end the object.
SPECIFICATION FairSpec
CONSTANTS
    c1 = c1  c2 = c2  c3 = c3
    f1 = f1  f2 = f2  f3 = f3
    NoCall = NoCall
    Calls <- MCCalls2
    Frames <- MCFrames
    KindOf <- MCKindOf2
    FrameOf <- MCOwnFrame2
    SpuriousWakeups = FALSE
PROPERTIES
    CleanupReturns

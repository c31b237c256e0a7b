\* Two calls on two threads, a controller that may fall silent.
SPECIFICATION FairSpec
CONSTANTS
    c1 = c1  c2 = c2  c3 = c3
    f1 = f1  f2 = f2  f3 = f3
    NoCall = NoCall
    Calls <- MCCalls2
    Frames <- MCFrames
    KindOf <- MCKindOf2
    FrameOf <- MCOwnFrame2
    SpuriousWakeups = TRUE
PROPERTIES
    CallsReturn
    CommandsPerformed
    CleanupReturnsIfSending

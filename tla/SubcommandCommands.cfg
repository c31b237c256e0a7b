\* Two queued commands after the end of a set-up, then the shutdown; some requests refused.
SPECIFICATION MCOffsetSpec
CONSTANTS
    Attempts = 2
    SpiTries = 2
    UserCal <- MCUserImu
    Scales <- MCScales
    DefaultScale <- MCDefaultScale
    MayRefuse = TRUE
    MaxBehind = 1
    MaxInputs = 2
    MaxCommands = 2
INVARIANTS
    ScaleAgrees
    QuietAtTheEnd

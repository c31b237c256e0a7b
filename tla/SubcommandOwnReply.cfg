\* A reply that comes after its comm() has timed out.
SPECIFICATION Spec
CONSTANTS
    Attempts = 2
    SpiTries = 1
    UserCal <- MCUserImu
    Scales <- MCScales
    DefaultScale <- MCDefaultScale
    MayRefuse = FALSE
    MaxBehind = 1
    MaxInputs = 0
    MaxCommands = 0
INVARIANT
    AcceptedIsOwn

\* Set-up and shutdown with a controller that may answer late, send input reports
\* of its own, or never answer; every flash read may be tried twice.  MaxBehind is
\* as many requests as can be sent: no bound.
SPECIFICATION FairSpec
CONSTANTS
    Attempts = 2
    SpiTries = 2
    UserCal <- MCUserStick
    Scales <- MCScales
    DefaultScale <- MCDefaultScale
    MayRefuse = FALSE
    MaxBehind = 20
    MaxInputs = 1
    MaxCommands = 0
INVARIANTS
    TypeOK
    CalibrationRight
    PromptControllerIsHeard
PROPERTY
    SetupEnds

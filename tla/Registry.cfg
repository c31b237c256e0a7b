\* Controllers of all three types, two of one type, that come and go.
SPECIFICATION FairSpec
CONSTANTS
    d1 = d1  d2 = d2  d3 = d3  d4 = d4
    Devices <- MCDevices4
    TypeOf <- MCTypeOf4
INVARIANTS
    TypeOK
    NoDeviceTwice
    NumbersUnique
    CleanedUpOnce
PROPERTIES
    CtrlCEnds
    FirstIsRegistered

\* A second controller of a type that connects later.
SPECIFICATION FairSpec
CONSTANTS
    d1 = d1  d2 = d2  d3 = d3  d4 = d4
    Devices <- MCDevices3
    TypeOf <- MCTypeOf3
PROPERTY
    EveryOneIsRegistered

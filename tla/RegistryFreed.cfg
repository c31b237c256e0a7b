\* The lists of hid_enumerate().
SPECIFICATION Spec
CONSTANTS
    d1 = d1  d2 = d2  d3 = d3  d4 = d4
    Devices <- MCDevices3
    TypeOf <- MCTypeOf3
INVARIANT
    EnumerationFreed

SPECIFICATION Spec
CONSTANTS
    Backends <- MCBackends
    Ids = {1, 2}
    Serials <- MCSerials
    Inputs <- MCInputs
    Limit = 0
    Ring = 2
    NumReports = 3
INVARIANTS TypeOK ListRight OpensFirstFit AllFreed
PROPERTIES ImplementsChannel BlockedReadEnds CloseReturns

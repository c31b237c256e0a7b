SPECIFICATION FairSpec
CONSTANTS
    Limit = 1
    NumReports = 4
    SpuriousWakeups = TRUE
INVARIANTS TypeOK NoNullRunLoop NoFalseAlarm
PROPERTIES ImplementsChannel WakesLiveThread BlockedReadEnds CloseReturns

SPECIFICATION Spec
CONSTANTS
    Wrap = 6
    Elapsed = {3}
    Buttons = {"a"}
    Raw <- MCRaw
    Calibrations <- MCCalibrations
    NumReports = 3
INVARIANTS TypeOK StepIsElapsed TornOnlyDuringReport
PROPERTIES EdgesAlternate

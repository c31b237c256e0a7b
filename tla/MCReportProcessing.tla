------------------------- MODULE MCReportProcessing -------------------------
(* The instance of ReportProcessing that TLC checks. *)
EXTENDS ReportProcessing

\* An ordinary calibration and one that read_spi() has left at zero.
MCCalibrations == {[max |-> 1, center |-> 2, min |-> 3, deadzone |-> 1],
                   [max |-> 0, center |-> 0, min |-> 0, deadzone |-> 0]}
MCRaw == {0, 4}
=============================================================================

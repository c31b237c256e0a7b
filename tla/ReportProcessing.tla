-------------------------- MODULE ReportProcessing --------------------------
(***************************************************************************)
(* What the worker of a JoyCon does with a report (helpers.h): process()   *)
(* finds the edges of the buttons and scales the stick, process_imu()      *)
(* writes the three frames of the sensors, one axis after the other, to    *)
(* acc_g.  main() prints acc_g meanwhile without a lock.                   *)
(*                                                                         *)
(* A value of acc_g is the number of the frame that it comes from, counted *)
(* over all reports, 0 for memory that nobody has written.  gyr_dps is     *)
(* written and printed in the same places as acc_g.                        *)
(***************************************************************************)
EXTENDS Integers, Sequences

CONSTANTS
    Wrap,          (* the timer of the controller counts modulo this: 256 *)
    Elapsed,       (* bound: the ticks between a report and the one before *)
    Buttons,
    Raw,           (* bound: the values of a stick's axis *)
    Calibrations,  (* bound: records of max, center, min and deadzone *)
    NumReports     (* bound: how many reports with sensor data are read *)

ASSUME ProcessingAssumption ==
    /\ Wrap \in Nat /\ Wrap > 2
    /\ Elapsed \subseteq Nat
    /\ Raw \subseteq Nat
    /\ Calibrations \subseteq [max : Nat, center : Nat, min : Nat, deadzone : Nat]
    /\ NumReports \in Nat

VARIABLES
    data,            (* the report: its type, timer, buttons and stick *)
    report_type,
    buttons, rbuttons, dbuttons,
    printed,         (* what the last report had printed: the edges *)
    stick_cal, stick,
    last_timestamp,
    dt,              (* of process_imu() *)
    acc_g,
    wpc,             (* where the worker is *)
    frame, axis,     (* n and i of process_imu() *)
    count,           (* reports with sensor data that have been processed *)
    elapsed,         (* history: ticks since the report before, which also had
                        sensor data, and what has been read in between *)
    shown,           (* history: the buttons that are down by what is printed *)
    sample,          (* what main() has read of acc_g, by axis *)
    torn             (* history: acc_g was written while main() read it *)

vars == <<data, report_type, buttons, rbuttons, dbuttons, printed, stick_cal,
          stick, last_timestamp, dt, acc_g, wpc, frame, axis, count, elapsed,
          shown, sample, torn>>

buttonVars == <<report_type, buttons, rbuttons, dbuttons, printed, shown>>
stickVars == <<stick_cal, stick>>
imuVars == <<last_timestamp, dt, acc_g, frame, axis, count>>
mainVars == <<sample, torn>>

Axes == 0..2
Types == {"30", "21", "3f"}
Reports == [type : Types, timer : 0..Wrap - 1, buttons : SUBSET Buttons, raw : Raw]

\* Nobody initializes last_timestamp: it is whatever was in the memory.
Init ==
    /\ data \in [type : {"3f"}, timer : 0..Wrap - 1, buttons : {{}}, raw : Raw]
    /\ report_type = "none"
    /\ buttons = {} /\ rbuttons = {} /\ dbuttons = {}
    /\ printed = [up |-> {}, down |-> {}]
    /\ stick_cal \in Calibrations /\ stick = <<0, 1>>
    /\ last_timestamp \in 0..Wrap + 1 /\ dt = 0
    /\ acc_g = [i \in Axes |-> 0]
    /\ wpc = "read" /\ frame = 0 /\ axis = 0 /\ count = 0 /\ elapsed = 0
    /\ shown = {}
    /\ sample = <<>> /\ torn = FALSE

-----------------------------------------------------------------------------
(* The worker.                                                             *)

\* hid_read_buffer() finds a report: the next one that has not been lost.  Of
\* a report without sensor data process() reads the type only; what else such a
\* report says does not matter.
Read ==
    /\ wpc = "read" /\ count < NumReports
    /\ \E e \in Elapsed :
         /\ data' \in {r \in Reports :
                        /\ r.timer = (data.timer + e) % Wrap
                        /\ r.type # "30" => r.buttons = {} /\ r.raw = data.raw}
         /\ elapsed' = elapsed + e
         /\ elapsed' <= Wrap + 1
    /\ wpc' = "process"
    /\ UNCHANGED <<buttonVars, stickVars, imuVars, mainVars>>

\* Mutant: the loop that prints is outside the test, and rbuttons is old.
EdgesAlways(new) ==
    LET changed == (new \ buttons) \union (buttons \ new)
    IN  /\ IF changed # {}
           THEN rbuttons' = changed \ new /\ dbuttons' = changed \intersect new
           ELSE dbuttons' = {} /\ UNCHANGED rbuttons
        /\ buttons' = new
        /\ printed' = [up |-> rbuttons', down |-> dbuttons' \ rbuttons']

\* The edges against the report before.  Without any, rbuttons stays as it was
\* and nothing is printed.
Edges(new) ==
    LET changed == (new \ buttons) \union (buttons \ new)
    IN  IF changed # {}
        THEN /\ rbuttons' = changed \ new
             /\ dbuttons' = changed \intersect new
             /\ buttons' = new
             /\ printed' = [up |-> rbuttons', down |-> dbuttons' \ rbuttons']
        ELSE /\ dbuttons' = {}
             /\ printed' = [up |-> {}, down |-> {}]
             /\ UNCHANGED <<rbuttons, buttons>>

Abs(n) == IF n < 0 THEN -n ELSE n

\* Mutant: the range below the center is not negative, so neither is the stick.
ScaledByMax(raw, cal) ==
    LET off == raw - cal.center
    IN  IF Abs(off) < cal.deadzone THEN <<0, 1>>
        ELSE IF off > cal.max THEN <<1, 1>>
        ELSE <<off, cal.max>>

\* An axis of the stick, a fraction: 0 in the dead zone, and at most one up or
\* down.  Dividing by a calibration of zero gives an infinity, which becomes
\* one, or NaN when the stick is at its center, which stays.
Scaled(raw, cal) ==
    LET off == raw - cal.center
        range == IF off > 0 THEN cal.max ELSE cal.min
    IN  IF Abs(off) < cal.deadzone THEN <<0, 1>>
        ELSE IF Abs(off) <= range \/ off = 0 THEN <<off, range>>
        ELSE IF off > 0 THEN <<1, 1>> ELSE <<-1, 1>>

\* process() of a report with sensor data: it begins process_imu().
Process ==
    /\ wpc = "process" /\ data.type = "30"
    /\ report_type' = "30"
    /\ Edges(data.buttons)
    /\ shown' = (shown \ printed'.up) \union printed'.down
    /\ stick' = Scaled(data.raw, stick_cal)
    /\ wpc' = "time"
    /\ UNCHANGED <<data, stick_cal, imuVars, elapsed, mainVars>>

\* process() of another.
ProcessOther ==
    /\ wpc = "process" /\ data.type # "30"
    /\ report_type' = IF data.type = "21" THEN "21" ELSE report_type
    /\ wpc' = "read"
    /\ UNCHANGED <<data, buttons, rbuttons, dbuttons, printed, shown, stickVars,
                   imuVars, elapsed, mainVars>>

\* Mutant: the wrap of the timer is not looked at.
TimeStepUnwrapped ==
    /\ wpc = "time"
    /\ dt' = data.timer - last_timestamp
    /\ frame' = 0 /\ axis' = 0 /\ wpc' = "imu"
    /\ UNCHANGED <<data, buttonVars, stickVars, last_timestamp, acc_g, count,
                   elapsed, mainVars>>

\* process_imu(): the time since the last frame of the report before.
TimeStep ==
    /\ wpc = "time"
    /\ dt' = data.timer - last_timestamp
             + (IF data.timer < last_timestamp THEN Wrap ELSE 0)
    /\ frame' = 0 /\ axis' = 0 /\ wpc' = "imu"
    /\ UNCHANGED <<data, buttonVars, stickVars, last_timestamp, acc_g, count,
                   elapsed, mainVars>>

\* Mutant: the frame pointer moves on after every axis, not after every frame.
AxisSkewed ==
    /\ wpc = "imu"
    /\ acc_g' = [acc_g EXCEPT ![axis] = 3 * count + ((frame + axis) % 3) + 1]
    /\ dt' = 1
    /\ axis' = (axis + 1) % 3
    /\ frame' = IF axis = 2 THEN frame + 1 ELSE frame
    /\ wpc' = IF axis = 2 /\ frame = 2 THEN "stamp" ELSE "imu"
    /\ torn' = (torn \/ sample # <<>>)
    /\ UNCHANGED <<data, buttonVars, stickVars, last_timestamp, count, elapsed,
                   sample>>

\* One axis of one frame is written.  dt is 1 from the second axis on.
Axis ==
    /\ wpc = "imu"
    /\ acc_g' = [acc_g EXCEPT ![axis] = 3 * count + frame + 1]
    /\ dt' = 1
    /\ axis' = (axis + 1) % 3
    /\ frame' = IF axis = 2 THEN frame + 1 ELSE frame
    /\ wpc' = IF axis = 2 /\ frame = 2 THEN "stamp" ELSE "imu"
    /\ torn' = (torn \/ sample # <<>>)
    /\ UNCHANGED <<data, buttonVars, stickVars, last_timestamp, count, elapsed,
                   sample>>

\* The last frame is two ticks younger than the report says; the sum is not
\* taken modulo Wrap.
Stamp ==
    /\ wpc = "stamp"
    /\ last_timestamp' = data.timer + 2
    /\ count' = count + 1
    /\ elapsed' = 0
    /\ wpc' = "read"
    /\ UNCHANGED <<data, buttonVars, stickVars, dt, acc_g, frame, axis, mainVars>>

-----------------------------------------------------------------------------
(* main().                                                                 *)

\* It reads the axes in the order in which the compiler evaluates arguments.
ReadAxis(i) ==
    /\ i \notin DOMAIN sample
    /\ sample' = [k \in DOMAIN sample \union {i} |->
                    IF k = i THEN acc_g[i] ELSE sample[k]]
    /\ torn' = IF sample = <<>> THEN wpc = "imu" ELSE torn
    /\ UNCHANGED <<data, buttonVars, stickVars, imuVars, wpc, elapsed>>

PrintSample ==
    /\ DOMAIN sample = Axes
    /\ sample' = <<>> /\ torn' = FALSE
    /\ UNCHANGED <<data, buttonVars, stickVars, imuVars, wpc, elapsed>>

Next ==
    \/ Read \/ Process \/ ProcessOther \/ TimeStep \/ Axis \/ Stamp
    \/ (\E i \in Axes : ReadAxis(i)) \/ PrintSample

Spec == Init /\ [][Next]_vars

-----------------------------------------------------------------------------
(* Properties.                                                             *)

\* The types; an axis of the stick is a fraction between -1 and 1, or NaN.
TypeOK ==
    /\ data \in Reports
    /\ report_type \in {"none", "30", "21"}
    /\ buttons \subseteq Buttons /\ rbuttons \subseteq Buttons
    /\ dbuttons \subseteq Buttons
    /\ printed \in [up : SUBSET Buttons, down : SUBSET Buttons]
    /\ stick_cal \in Calibrations
    /\ stick \in Int \X Nat /\ Abs(stick[1]) <= stick[2]
    /\ last_timestamp \in 0..Wrap + 1 /\ dt \in Int
    /\ acc_g \in [Axes -> Nat]
    /\ wpc \in {"read", "process", "time", "imu", "stamp"}
    /\ frame \in 0..3 /\ axis \in Axes /\ count \in 0..NumReports
    /\ elapsed \in 0..Wrap + 1
    /\ shown \subseteq Buttons
    /\ DOMAIN sample \subseteq Axes /\ torn \in BOOLEAN

\* process(): the edges that are printed alternate, for every button: whatever
\* reports are lost or come in between, "u" follows "d" and "d" follows "u".
EdgesAlternate ==
    [][Process => printed'.up \subseteq shown /\ printed'.down \intersect shown = {}
       ]_vars

\* process_imu(): from the second report on, dt is the time from the last frame
\* of the report before to the first of this one, also where the timer wraps
\* and where last_timestamp, which does not, is beyond it; reports may be lost,
\* for as long as the timer does not come round.
StepIsElapsed ==
    wpc = "imu" /\ frame = 0 /\ axis = 0 /\ count > 0 /\ elapsed \in 2..Wrap
        => dt = elapsed - 2

\* main() and process_imu(): what is printed comes from the last frame of one
\* report, on every axis, unless a report was processed just then; and before
\* the first report it is whatever was in the memory.
TornOnlyDuringReport ==
    DOMAIN sample = Axes /\ ~torn =>
        /\ \A i, k \in Axes : sample[i] = sample[k]
        /\ sample[0] % 3 = 0
=============================================================================

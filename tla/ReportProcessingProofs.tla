------------------------ MODULE ReportProcessingProofs ------------------------
(***************************************************************************)
(* Safety of ReportProcessing for every wrap of the timer, every set of    *)
(* buttons and calibrations, every pattern of lost reports and every       *)
(* number of reports.                                                      *)
(***************************************************************************)
EXTENDS ReportProcessing, TLAPS

-----------------------------------------------------------------------------
(* The edges of the buttons.                                               *)

ButtonsOK ==
    /\ data \in Reports
    /\ buttons \subseteq Buttons
    /\ shown = buttons

LEMMA ButtonsInit == Init => ButtonsOK
<1> SUFFICES ASSUME Init PROVE ButtonsOK
    OBVIOUS
<1>1. data \in Reports
    BY DEF Init, Reports, Types
<1> QED
    BY <1>1 DEF Init, ButtonsOK

\* What is printed are the buttons that have been let go and those that have
\* been pressed.
LEMMA EdgesPrinted ==
    ASSUME NEW new, Edges(new)
    PROVE  /\ printed'.up = buttons \ new
           /\ printed'.down = new \ buttons
           /\ buttons' = new
<1> DEFINE changed == (new \ buttons) \union (buttons \ new)
<1>1. CASE changed # {}
  <2>1. /\ rbuttons' = changed \ new /\ dbuttons' = changed \intersect new
        /\ buttons' = new
        /\ printed' = [up |-> rbuttons', down |-> dbuttons' \ rbuttons']
      BY <1>1 DEF Edges
  <2>2. rbuttons' = buttons \ new /\ dbuttons' = new \ buttons
      BY <2>1
  <2>3. dbuttons' \ rbuttons' = new \ buttons
      BY <2>2
  <2> QED
      BY <2>1, <2>2, <2>3
<1>2. CASE changed = {}
  <2>1. /\ printed' = [up |-> {}, down |-> {}]
        /\ buttons' = buttons
      BY <1>2 DEF Edges
  <2>2. buttons = new
      BY <1>2
  <2> QED
      BY <2>1, <2>2
<1> QED
    BY <1>1, <1>2

LEMMA ButtonsStep == ButtonsOK /\ [Next]_vars => ButtonsOK'
<1> SUFFICES ASSUME ButtonsOK, [Next]_vars PROVE ButtonsOK'
    OBVIOUS
<1> USE DEF ButtonsOK
<1>1. CASE Read
    BY <1>1 DEF Read, buttonVars
<1>2. CASE Process
  <2>1. /\ Edges(data.buttons) /\ data' = data
        /\ shown' = (shown \ printed'.up) \union printed'.down
      BY <1>2 DEF Process
  <2>2. shown' = data.buttons /\ buttons' = data.buttons
      BY <2>1, EdgesPrinted
  <2>3. data.buttons \subseteq Buttons
      BY DEF Reports
  <2> QED
      BY <2>1, <2>2, <2>3
<1>3. CASE ProcessOther
    BY <1>3 DEF ProcessOther
<1>4. CASE TimeStep \/ Axis \/ Stamp
    BY <1>4 DEF TimeStep, Axis, Stamp, buttonVars
<1>5. CASE (\E i \in Axes : ReadAxis(i)) \/ PrintSample
    BY <1>5 DEF ReadAxis, PrintSample, buttonVars
<1>6. CASE UNCHANGED vars
    BY <1>6 DEF vars, buttonVars
<1> QED
    BY <1>1, <1>2, <1>3, <1>4, <1>5, <1>6 DEF Next

\* What is printed of a button alternates between "u" and "d", whatever reports
\* are lost or come in between.
THEOREM EdgesAlternateAlways == Spec => EdgesAlternate
<1>1. Spec => []ButtonsOK
    BY ButtonsInit, ButtonsStep, PTL DEF Spec
<1>2. ASSUME ButtonsOK, [Next]_vars
      PROVE  [Process => printed'.up \subseteq shown
                         /\ printed'.down \intersect shown = {}]_vars
  <2>1. ASSUME Process
        PROVE  printed'.up \subseteq shown /\ printed'.down \intersect shown = {}
      BY <1>2, <2>1, EdgesPrinted DEF Process, ButtonsOK
  <2> QED
      BY <2>1
<1> QED
    BY <1>1, <1>2, PTL DEF Spec, EdgesAlternate

-----------------------------------------------------------------------------
(* The sensors.                                                            *)

\* acc_g holds the last frame of a report, or what was in the memory.
Whole ==
    /\ \A i, k \in Axes : acc_g[i] = acc_g[k]
    /\ acc_g[0] % 3 = 0

\* acc_g is whole except while process_imu() is at work on it, whose last frame
\* makes it whole again.
FramesOK ==
    /\ count \in Nat /\ frame \in 0..3 /\ axis \in Axes
    /\ acc_g \in [Axes -> Nat]
    /\ wpc = "imu" => frame \in 0..2
    /\ wpc # "imu" => Whole
    /\ wpc = "imu" /\ frame = 2 =>
         \A i \in Axes : i < axis => acc_g[i] = 3 * count + 3

\* A sample that is not torn was taken of an acc_g which is whole, and which has
\* not changed since.
SampleOK ==
    /\ DOMAIN sample \subseteq Axes
    /\ sample = <<>> \/ DOMAIN sample # {}
    /\ ~torn /\ DOMAIN sample # {} =>
         Whole /\ \A i \in DOMAIN sample : sample[i] = acc_g[i]

LEMMA SensorsInit == Init => FramesOK /\ SampleOK
<1> SUFFICES ASSUME Init PROVE FramesOK /\ SampleOK
    OBVIOUS
<1>1. acc_g \in [Axes -> Nat] /\ (\A i \in Axes : acc_g[i] = 0) /\ 0 \in Axes
    BY DEF Init, Axes
<1>2. FramesOK
    BY <1>1 DEF Init, FramesOK, Whole
<1>3. DOMAIN sample = {} /\ sample = <<>>
    BY DEF Init
<1> QED
    BY <1>2, <1>3 DEF SampleOK

\* The axes of the last frame, when it is done.
LEMMA AxisStep ==
    ASSUME FramesOK, Axis
    PROVE  FramesOK'
<1>1. /\ wpc = "imu" /\ count \in Nat /\ frame \in 0..2 /\ axis \in {0, 1, 2}
      /\ acc_g \in [Axes -> Nat] /\ UNCHANGED count
      /\ acc_g' = [acc_g EXCEPT ![axis] = 3 * count + frame + 1]
      /\ axis' = (axis + 1) % 3
      /\ frame' = IF axis = 2 THEN frame + 1 ELSE frame
      /\ wpc' = IF axis = 2 /\ frame = 2 THEN "stamp" ELSE "imu"
      /\ frame = 2 => \A i \in Axes : i < axis => acc_g[i] = 3 * count + 3
    BY DEF FramesOK, Axis, Axes
<1>2. axis' = IF axis = 2 THEN 0 ELSE axis + 1
    BY <1>1
<1>3. /\ frame' \in 0..3 /\ axis' \in Axes
      /\ wpc' = "imu" => frame' \in 0..2
    BY <1>1, <1>2 DEF Axes
<1>4. acc_g' \in [Axes -> Nat]
    BY <1>1 DEF Axes
<1>5. wpc' = "imu" /\ frame' = 2 =>
        \A i \in Axes : i < axis' => acc_g'[i] = 3 * count + 3
    BY <1>1, <1>2 DEF Axes
<1>6. CASE wpc' # "imu"
  <2>1. axis = 2 /\ frame = 2
      BY <1>1, <1>6
  <2>2. \A i \in Axes : acc_g'[i] = 3 * count + 3
      BY <1>1, <2>1 DEF Axes
  <2>3. (3 * count + 3) % 3 = 0
      BY <1>1
  <2> QED
      BY <1>1, <1>3, <1>4, <1>6, <2>2, <2>3 DEF FramesOK, Whole, Axes
<1> QED
    BY <1>1, <1>3, <1>4, <1>5, <1>6 DEF FramesOK

LEMMA FramesStep == FramesOK /\ [Next]_vars => FramesOK'
<1> SUFFICES ASSUME FramesOK, [Next]_vars PROVE FramesOK'
    OBVIOUS
<1> USE DEF FramesOK, Whole
<1>1. CASE Read \/ Process \/ ProcessOther
    BY <1>1 DEF Read, Process, ProcessOther, imuVars
<1>2. CASE TimeStep
    BY <1>2 DEF TimeStep, Axes
<1>3. CASE Axis
    BY <1>3, AxisStep
<1>4. CASE Stamp
    BY <1>4 DEF Stamp
<1>5. CASE (\E i \in Axes : ReadAxis(i)) \/ PrintSample
    BY <1>5 DEF ReadAxis, PrintSample, imuVars
<1>6. CASE UNCHANGED vars
    BY <1>6 DEF vars, imuVars
<1> QED
    BY <1>1, <1>2, <1>3, <1>4, <1>5, <1>6 DEF Next

LEMMA SampleStep == FramesOK /\ SampleOK /\ [Next]_vars => SampleOK'
<1> SUFFICES ASSUME FramesOK, SampleOK, [Next]_vars PROVE SampleOK'
    OBVIOUS
<1>0. ASSUME UNCHANGED <<acc_g, sample, torn>> PROVE SampleOK'
    BY <1>0 DEF SampleOK, Whole
<1>1. CASE Read \/ Process \/ ProcessOther
    BY <1>1, <1>0 DEF Read, Process, ProcessOther, imuVars, mainVars
<1>2. CASE TimeStep \/ Stamp
    BY <1>2, <1>0 DEF TimeStep, Stamp, mainVars
<1>3. CASE Axis
  <2>1. sample' = sample /\ (DOMAIN sample # {} => sample # <<>>)
      BY <1>3 DEF Axis
  <2>2. torn' = (torn \/ sample # <<>>)
      BY <1>3 DEF Axis
  <2>3. DOMAIN sample # {} => torn'
      BY <2>1, <2>2
  <2> QED
      BY <2>1, <2>3 DEF SampleOK
<1>4. ASSUME NEW i \in Axes, ReadAxis(i) PROVE SampleOK'
  <2>1. /\ DOMAIN sample' = DOMAIN sample \union {i}
        /\ sample'[i] = acc_g[i] /\ UNCHANGED acc_g
        /\ \A k \in DOMAIN sample : k # i => sample'[k] = sample[k]
        /\ torn' = IF sample = <<>> THEN wpc = "imu" ELSE torn
      BY <1>4 DEF ReadAxis, imuVars
  <2>2. ~torn' => Whole
      BY <2>1 DEF SampleOK, FramesOK
  <2>3. ~torn' => \A k \in DOMAIN sample : sample[k] = acc_g[k]
    <3>1. CASE sample = <<>>
        BY <3>1
    <3>2. CASE sample # <<>>
        BY <2>1, <3>2 DEF SampleOK
    <3> QED
        BY <3>1, <3>2
  <2>4. ~torn' => \A k \in DOMAIN sample' : sample'[k] = acc_g'[k]
      BY <2>1, <2>3
  <2> QED
      BY <2>1, <2>2, <2>4 DEF SampleOK, Whole
<1>5. CASE PrintSample
  <2>1. sample' = <<>> /\ DOMAIN sample' = {}
      BY <1>5 DEF PrintSample
  <2> QED
      BY <2>1 DEF SampleOK
<1>6. CASE UNCHANGED vars
    BY <1>6, <1>0 DEF vars, imuVars, mainVars
<1> QED
    BY <1>1, <1>2, <1>3, <1>4, <1>5, <1>6 DEF Next

\* What main() prints is one frame on all axes, the last of a report, unless
\* process_imu() was writing while it read.
THEOREM TornOnlyDuringReportHolds == Spec => []TornOnlyDuringReport
<1>1. Spec => [](FramesOK /\ SampleOK)
  <2>1. FramesOK /\ SampleOK /\ [Next]_vars => (FramesOK /\ SampleOK)'
      BY FramesStep, SampleStep
  <2> QED
      BY SensorsInit, <2>1, PTL DEF Spec
<1>2. SampleOK => TornOnlyDuringReport
    BY DEF SampleOK, Whole, TornOnlyDuringReport, Axes
<1> QED
    BY <1>1, <1>2, PTL

-----------------------------------------------------------------------------
(* Types and the timer.                                                    *)

\* x is what a timer at y may stand for that has gone round at most twice.
Near(x, y) == x = y \/ x = y + Wrap \/ x = y + 2 * Wrap

LEMMA Around ==
    ASSUME NEW x \in Nat, x <= 2 * Wrap
    PROVE  /\ x % Wrap \in 0..Wrap - 1
           /\ Near(x, x % Wrap)
<1>1. Wrap \in Nat /\ Wrap > 2
    BY ProcessingAssumption
<1> DEFINE q == x \div Wrap
           r == x % Wrap
<1>2. q \in Nat /\ r \in 0..Wrap - 1 /\ x = Wrap * q + r
    BY <1>1
<1>3. q <= 2
  <2>1. SUFFICES ASSUME q >= 3 PROVE FALSE
      BY <1>2
  <2>2. Wrap * q >= Wrap * 3
      BY <2>1, <1>1, <1>2
  <2> QED
      BY <2>2, <1>1, <1>2
<1>4. q = 0 \/ q = 1 \/ q = 2
    BY <1>2, <1>3
<1> QED
    BY <1>1, <1>2, <1>4 DEF Near

LEMMA NearAdd ==
    ASSUME NEW l \in 0..Wrap - 1, NEW m \in Nat, NEW e \in Nat,
           NEW t \in 0..Wrap - 1, NEW u \in 0..Wrap - 1,
           m + e <= Wrap + 1, Near(l + m, t), Near(t + e, u)
    PROVE  Near(l + (m + e), u)
BY ProcessingAssumption DEF Near

\* An axis of the stick stays between -1 and 1, and divides by what is not
\* negative.
LEMMA ScaledIn ==
    ASSUME NEW raw \in Nat, NEW cal \in Calibrations
    PROVE  /\ Scaled(raw, cal) \in Int \X Nat
           /\ Abs(Scaled(raw, cal)[1]) <= Scaled(raw, cal)[2]
<1>1. /\ cal.max \in Nat /\ cal.center \in Nat /\ cal.min \in Nat
      /\ cal.deadzone \in Nat
    BY ProcessingAssumption
<1> QED
    BY <1>1 DEF Scaled, Abs

\* The timer of the report, since that of the report before with sensor data.
TimerOK ==
    /\ data \in Reports
    /\ wpc \in {"read", "process", "time", "imu", "stamp"}
    /\ count \in Nat /\ dt \in Int
    /\ last_timestamp \in 0..Wrap + 1
    /\ elapsed \in 0..Wrap + 1
    /\ count > 0 =>
         /\ last_timestamp >= 2
         /\ Near(last_timestamp - 2 + elapsed, data.timer)
    /\ wpc = "imu" /\ frame = 0 /\ axis = 0 =>
         dt = data.timer - last_timestamp
              + (IF data.timer < last_timestamp THEN Wrap ELSE 0)

LEMMA TimerInit == Init => TimerOK
<1> SUFFICES ASSUME Init PROVE TimerOK
    OBVIOUS
<1>1. data \in Reports
    BY DEF Init, Reports, Types
<1> QED
    BY <1>1, ProcessingAssumption DEF Init, TimerOK

LEMMA TimerRead == TimerOK /\ Read => TimerOK'
<1> SUFFICES ASSUME TimerOK, Read PROVE TimerOK'
    OBVIOUS
<1>1. Wrap \in Nat /\ Wrap > 2 /\ Elapsed \subseteq Nat
    BY ProcessingAssumption
<1>2. PICK e \in Elapsed :
        /\ data' \in Reports /\ data'.timer = (data.timer + e) % Wrap
        /\ elapsed' = elapsed + e /\ elapsed' <= Wrap + 1
    BY DEF Read
<1>3. /\ data.timer \in 0..Wrap - 1 /\ elapsed \in 0..Wrap + 1 /\ e \in Nat
      /\ last_timestamp \in 0..Wrap + 1
    BY <1>1, <1>2 DEF TimerOK, Reports
<1>4. /\ data'.timer \in 0..Wrap - 1
      /\ Near(data.timer + e, data'.timer)
  <2>1. data.timer + e \in Nat /\ data.timer + e <= 2 * Wrap
      BY <1>1, <1>2, <1>3
  <2> QED
      BY <1>2, <2>1, Around
<1>5. ASSUME count > 0
      PROVE  Near(last_timestamp - 2 + elapsed', data'.timer)
  <2>1. Near(last_timestamp - 2 + elapsed, data.timer)
      BY <1>5 DEF TimerOK
  <2>2. last_timestamp - 2 \in 0..Wrap - 1
      BY <1>1, <1>3, <1>5 DEF TimerOK
  <2>3. Near(last_timestamp - 2 + (elapsed + e), data'.timer)
      BY <1>2, <1>3, <1>4, <2>1, <2>2, NearAdd
  <2> QED
      BY <1>2, <2>3
<1>6. UNCHANGED <<last_timestamp, dt, count>> /\ wpc' = "process"
    BY DEF Read, imuVars
<1> QED
    BY <1>1, <1>2, <1>3, <1>5, <1>6 DEF TimerOK

LEMMA TimerStep == FramesOK /\ TimerOK /\ [Next]_vars => TimerOK'
<1> SUFFICES ASSUME FramesOK, TimerOK, [Next]_vars PROVE TimerOK'
    OBVIOUS
<1>t. Wrap \in Nat /\ Wrap > 2 /\ data.timer \in 0..Wrap - 1
    BY ProcessingAssumption DEF TimerOK, Reports
<1> USE DEF TimerOK
<1>1. CASE Read
    BY <1>1, TimerRead
<1>2. CASE Process \/ ProcessOther
    BY <1>2 DEF Process, ProcessOther, imuVars
<1>3. CASE TimeStep
  <2>1. /\ UNCHANGED <<data, last_timestamp, count, elapsed>> /\ wpc' = "imu"
        /\ dt' = data.timer - last_timestamp
                 + (IF data.timer < last_timestamp THEN Wrap ELSE 0)
      BY <1>3 DEF TimeStep
  <2> QED
      BY <2>1, <1>t
<1>4. CASE Axis
  <2>1. /\ UNCHANGED <<data, last_timestamp, count, elapsed>>
        /\ wpc' \in {"imu", "stamp"} /\ dt' = 1
        /\ axis' = (axis + 1) % 3
        /\ frame' = IF axis = 2 THEN frame + 1 ELSE frame
        /\ frame \in 0..3 /\ axis \in {0, 1, 2}
      BY <1>4 DEF Axis, FramesOK, Axes
  <2>2. ~(frame' = 0 /\ axis' = 0)
      BY <2>1
  <2> QED
      BY <2>1, <2>2
<1>5. CASE Stamp
  <2>1. /\ data' = data /\ last_timestamp' = data.timer + 2
        /\ count' = count + 1 /\ elapsed' = 0 /\ wpc' = "read" /\ dt' = dt
      BY <1>5 DEF Stamp
  <2> QED
      BY <2>1, <1>t DEF Near
<1>6. CASE (\E i \in Axes : ReadAxis(i)) \/ PrintSample
    BY <1>6 DEF ReadAxis, PrintSample, imuVars
<1>7. CASE UNCHANGED vars
    BY <1>7 DEF vars, imuVars
<1> QED
    BY <1>1, <1>2, <1>3, <1>4, <1>5, <1>6, <1>7 DEF Next

\* The step of process_imu() is the time since the last frame of the report
\* before, for every wrap of the timer and every pattern of lost reports.
THEOREM StepIsElapsedHolds == Spec => []StepIsElapsed
<1>1. Spec => []TimerOK
    BY SensorsInit, FramesStep, TimerInit, TimerStep, PTL DEF Spec
<1>2. TimerOK => StepIsElapsed
  <2> SUFFICES ASSUME TimerOK, wpc = "imu", frame = 0, axis = 0, count > 0,
                      elapsed \in 2..Wrap
               PROVE  dt = elapsed - 2
      BY DEF StepIsElapsed
  <2>1. /\ Wrap \in Nat /\ Wrap > 2 /\ data.timer \in 0..Wrap - 1
        /\ last_timestamp \in 2..Wrap + 1
        /\ Near(last_timestamp - 2 + elapsed, data.timer)
        /\ dt = data.timer - last_timestamp
                + (IF data.timer < last_timestamp THEN Wrap ELSE 0)
      BY ProcessingAssumption DEF TimerOK, Reports
  <2> QED
      BY <2>1 DEF Near
<1> QED
    BY <1>1, <1>2, PTL

-----------------------------------------------------------------------------
\* The rest of the types.
OthersOK ==
    /\ report_type \in {"none", "30", "21"}
    /\ rbuttons \subseteq Buttons /\ dbuttons \subseteq Buttons
    /\ printed \in [up : SUBSET Buttons, down : SUBSET Buttons]
    /\ stick_cal \in Calibrations
    /\ stick \in Int \X Nat /\ Abs(stick[1]) <= stick[2]
    /\ count \in 0..NumReports /\ (wpc # "read" => count < NumReports)
    /\ torn \in BOOLEAN

LEMMA OthersInit == Init => OthersOK
<1> SUFFICES ASSUME Init PROVE OthersOK
    OBVIOUS
<1>1. stick \in Int \X Nat /\ Abs(stick[1]) <= stick[2]
    BY DEF Init, Abs
<1>2. count \in 0..NumReports
  <2>1. count = 0 /\ NumReports \in Nat
      BY ProcessingAssumption DEF Init
  <2> QED
      BY <2>1
<1>3. printed \in [up : SUBSET Buttons, down : SUBSET Buttons]
    BY DEF Init
<1> QED
    BY <1>1, <1>2, <1>3 DEF Init, OthersOK

LEMMA OthersStep ==
    ButtonsOK /\ TimerOK /\ OthersOK /\ [Next]_vars => OthersOK'
<1> SUFFICES ASSUME ButtonsOK, TimerOK, OthersOK, [Next]_vars PROVE OthersOK'
    OBVIOUS
<1>n. NumReports \in Nat /\ count \in Nat
    BY ProcessingAssumption DEF OthersOK
<1> USE DEF OthersOK
<1>1. CASE Read
    BY <1>1, <1>n DEF Read, buttonVars, stickVars, imuVars, mainVars
<1>2. CASE Process
  <2>1. /\ data.type = "30" /\ Edges(data.buttons) /\ report_type' = "30"
        /\ stick' = Scaled(data.raw, stick_cal) /\ wpc = "process"
        /\ UNCHANGED <<stick_cal, count, torn>>
      BY <1>2 DEF Process, imuVars, mainVars
  <2>2. data.buttons \subseteq Buttons /\ data.raw \in Nat
      BY ProcessingAssumption DEF ButtonsOK, Reports
  <2>3. rbuttons' \subseteq Buttons /\ dbuttons' \subseteq Buttons
      BY <2>1, <2>2 DEF Edges, ButtonsOK
  <2>4. printed' \in [up : SUBSET Buttons, down : SUBSET Buttons]
    <3>1. \/ printed' = [up |-> rbuttons', down |-> dbuttons' \ rbuttons']
          \/ printed' = [up |-> {}, down |-> {}]
        BY <2>1 DEF Edges
    <3>2. dbuttons' \ rbuttons' \subseteq Buttons
        BY <2>3
    <3> QED
        BY <3>1, <3>2, <2>3
  <2>5. stick' \in Int \X Nat /\ Abs(stick'[1]) <= stick'[2]
      BY <2>1, <2>2, ScaledIn
  <2> QED
      BY <2>1, <2>3, <2>4, <2>5
<1>3. CASE ProcessOther
    BY <1>3 DEF ProcessOther, stickVars, imuVars, mainVars
<1>4. CASE TimeStep
    BY <1>4 DEF TimeStep, buttonVars, stickVars, mainVars
<1>5. CASE Axis
  <2>1. torn' = (torn \/ sample # <<>>)
      BY <1>5 DEF Axis
  <2>2. torn' \in BOOLEAN
      BY <2>1
  <2> QED
      BY <1>5, <2>2 DEF Axis, buttonVars, stickVars
<1>6. CASE Stamp
    BY <1>6, <1>n DEF Stamp, buttonVars, stickVars, mainVars
<1>7. CASE \E i \in Axes : ReadAxis(i)
  <2>1. torn' \in BOOLEAN
      BY <1>7 DEF ReadAxis
  <2> QED
      BY <1>7, <2>1 DEF ReadAxis, buttonVars, stickVars, imuVars
<1>8. CASE PrintSample
    BY <1>8 DEF PrintSample, buttonVars, stickVars, imuVars
<1>9. CASE UNCHANGED vars
    BY <1>9 DEF vars, buttonVars, stickVars, imuVars, mainVars
<1> QED
    BY <1>1, <1>2, <1>3, <1>4, <1>5, <1>6, <1>7, <1>8, <1>9 DEF Next

\* Every variable has its type, and the stick stays within its circle however it
\* is calibrated.
THEOREM TypeCorrect == Spec => []TypeOK
<1>1. Spec => [](ButtonsOK /\ FramesOK /\ SampleOK /\ TimerOK /\ OthersOK)
    BY ButtonsInit, ButtonsStep, SensorsInit, FramesStep, SampleStep, TimerInit,
       TimerStep, OthersInit, OthersStep, PTL DEF Spec
<1>2. ButtonsOK /\ FramesOK /\ SampleOK /\ TimerOK /\ OthersOK => TypeOK
    BY DEF ButtonsOK, FramesOK, SampleOK, TimerOK, OthersOK, TypeOK
<1> QED
    BY <1>1, <1>2, PTL
=============================================================================

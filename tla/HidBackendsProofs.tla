-------------------------- MODULE HidBackendsProofs --------------------------
(***************************************************************************)
(* hidapi as a program is linked with it, for every limit of the report    *)
(* lists, every number of reports and every list of devices: its types,    *)
(* what hid_open() does, and that the open device of Windows, Linux and    *)
(* libusb implements ReportChannel.                                        *)
(***************************************************************************)
EXTENDS HidBackends, HidEnumerationProofs

-----------------------------------------------------------------------------
(* The inductive invariant of the open device.                             *)

UserPlaces ==
    {"new", "barrier", "again", "idle", "wait", "get", "poll", "read", "sleep",
     "waiting", "woken", "timedOut", "closing", "join", "failed", "freed",
     "closed"}

\* The variables of every hid.c.
UserTypes ==
    /\ upc \in UserPlaces /\ plugged \in BOOLEAN
    /\ timeout \in {"block", "timed", "poll"}
    /\ result \in {"none", "open", "null", "data", "nothing", "error", "written"}

ReportTypes ==
    /\ input_reports \in Seq(1..sent)
    /\ sent \in 0..NumReports /\ last \in 0..sent

WindowsTypes ==
    /\ io \in {"none", "running", "done", "failed"}
    /\ read_buf \in 0..sent /\ (io = "done" <=> read_buf # 0)

LibusbTypes ==
    /\ tpc \in {"none", "submit", "barrier", "loop", "events", "cancel", "drain",
                "broadcast", "ended"}
    /\ matches \in 0..1 /\ mutex \in {"free", "user"}
    /\ shutdown_thread \in BOOLEAN /\ cancelled \in BOOLEAN
    /\ transfer \in {"idle", "flying", "completed", "timedOut", "noDevice",
                     "cancelled", "attached"}
    /\ missed \in BOOLEAN

\* Windows: a read that has not been started has no result; while one runs the
\* ring is empty; and nothing is read before the device is opened.
ReadInOrder ==
    /\ read_pending \in BOOLEAN
    /\ ~read_pending => io = "none"
    /\ io = "running" => input_reports = <<>>
    /\ upc \in {"new", "failed"} => io = "none" /\ input_reports = <<>>

\* libusb: the thread is only there with an open device, and a report that is
\* on its way to the list is not yet counted.
ThreadInOrder ==
    /\ upc \in {"new", "failed"} => tpc = "none"
    /\ transfer = "completed" => sent < NumReports

\* The variables of a part that is not linked do not change.
NotLinked ==
    /\ backend # "windows" => io = "none"
    /\ backend # "libusb" => transfer = "idle" /\ tpc = "none" /\ upc # "freed"

DInv ==
    /\ UserTypes /\ ReportTypes /\ WindowsTypes /\ LibusbTypes
    /\ ReadInOrder /\ ThreadInOrder /\ NotLinked

LEMMA DInvInit == Init => DInv
<1> SUFFICES ASSUME Init PROVE DInv
    OBVIOUS
<1>1. /\ upc = "new" /\ plugged = TRUE /\ input_reports = <<>>
      /\ timeout = "block" /\ result = "none" /\ sent = 0 /\ last = 0
      /\ read_pending = FALSE /\ io = "none" /\ read_buf = 0
    BY DEF Init, Windows!Init
<1>2. /\ tpc = "none" /\ matches = 0 /\ mutex = "free"
      /\ shutdown_thread = FALSE /\ cancelled = FALSE
      /\ transfer = "idle" /\ missed = FALSE
    BY DEF Init, Libusb!Init
<1>3. UserTypes
    BY <1>1 DEF UserTypes, UserPlaces
<1>4. ReportTypes
    BY <1>1, BackendsAssumption DEF ReportTypes
<1>a. WindowsTypes
    BY <1>1 DEF WindowsTypes
<1>5. LibusbTypes
  <2>1. matches \in 0..1
      BY <1>2
  <2> QED
      BY <1>2, <2>1, Zenon DEF LibusbTypes
<1>6. ReadInOrder /\ ThreadInOrder /\ NotLinked
    BY <1>1, <1>2 DEF ReadInOrder, ThreadInOrder, NotLinked
<1> QED
    BY <1>3, <1>4, <1>a, <1>5, <1>6 DEF DInv

\* A list of reports after one has been added, or has left it.
LEMMA ReportLists ==
    ASSUME NEW n \in Nat, NEW q \in Seq(1..n)
    PROVE  /\ q \in Seq(1..n + 1) /\ Append(q, n + 1) \in Seq(1..n + 1)
           /\ Tail(Append(q, n + 1)) \in Seq(1..n + 1)
           /\ q # <<>> => Head(q) \in 1..n /\ Tail(q) \in Seq(1..n)
           /\ <<>> \in Seq(1..n)
<1>1. q \in Seq(1..n + 1)
  <2>1. \A i \in 1..Len(q) : q[i] \in 1..n + 1
      OBVIOUS
  <2> QED
      BY <2>1
<1> DEFINE S == 1..n + 1
<1>2. n + 1 \in S /\ q \in Seq(S)
    BY <1>1
<1>3. Append(q, n + 1) \in Seq(S) /\ Tail(Append(q, n + 1)) \in Seq(S)
  <2> HIDE DEF S
  <2>1. Append(q, n + 1) \in Seq(S) /\ Append(q, n + 1) # <<>>
      BY <1>2, AppendProperties
  <2> QED
      BY <2>1, HeadTailProperties
<1>4. q # <<>> => Head(q) \in 1..n /\ Tail(q) \in Seq(1..n)
  <2> DEFINE R == 1..n
  <2>1. q \in Seq(R)
      OBVIOUS
  <2> HIDE DEF R
  <2>2. q # <<>> => Head(q) \in R /\ Tail(q) \in Seq(R)
      BY <2>1, HeadTailProperties
  <2> QED
      BY <2>2 DEF R
<1> QED
    BY <1>1, <1>3, <1>4

LEMMA ReportSteps ==
    ASSUME ReportTypes
    PROVE  /\ sent \in Nat /\ NumReports \in Nat
           /\ input_reports \in Seq(1..sent) /\ input_reports \in Seq(1..sent + 1)
           /\ Append(input_reports, sent + 1) \in Seq(1..sent + 1)
           /\ Tail(Append(input_reports, sent + 1)) \in Seq(1..sent + 1)
           /\ input_reports # <<>> => /\ Head(input_reports) \in 1..sent
                                      /\ Tail(input_reports) \in Seq(1..sent)
           /\ <<>> \in Seq(1..sent)
<1>1. sent \in Nat /\ NumReports \in Nat /\ input_reports \in Seq(1..sent)
    BY BackendsAssumption DEF ReportTypes
<1> QED
    BY <1>1, ReportLists

-----------------------------------------------------------------------------
(* The steps of the open device keep it.                                   *)

WindowsStep ==
    /\ backend = "windows"
    /\ Windows!Opens \/ Windows!Begins \/ Windows!Goes \/ Windows!Device
    /\ UNCHANGED <<backend, usbVars>>

LinuxStep ==
    /\ backend = "linux"
    /\ Linux!Opens \/ Linux!Begins \/ Linux!Goes \/ Linux!ReadFails \/ Linux!Device
    /\ UNCHANGED <<backend, winVars, usbVars>>

LibusbStep ==
    /\ backend = "libusb"
    /\ Libusb!Next
    /\ UNCHANGED <<backend, winVars>>

LEMMA WindowsUserStep ==
    ASSUME UserTypes, WindowsStep, upc # "freed"
    PROVE  UserTypes' /\ upc' # "freed"
<1> USE DEF UserTypes, UserPlaces
<1>1. CASE Windows!OpenPath \/ Windows!OpenFails
    BY <1>1, Zenon DEF Windows!OpenPath, Windows!OpenFails
<1>2. ASSUME NEW t \in {"block", "timed", "poll"}, Windows!Read(t)
      PROVE  UserTypes' /\ upc' # "freed"
    BY <1>2 DEF Windows!Read, Windows!Start, Windows!ioVars
<1>3. CASE Windows!Send
  <2>1. result' \in {"error", "written"}
      BY <1>3 DEF Windows!Send
  <2> QED
      BY <1>3, <2>1 DEF Windows!Send
<1>4. CASE Windows!Close \/ Windows!NotInTime \/ Windows!InTime
    BY <1>4 DEF Windows!Close, Windows!NotInTime, Windows!InTime
<1>5. CASE Windows!GetResult
    BY <1>5 DEF Windows!GetResult
<1>6. CASE Windows!Device
    BY <1>6 DEF Windows!Device, Windows!Arrive, Windows!Unplug
<1> QED
    BY <1>1, <1>2, <1>3, <1>4, <1>5, <1>6
       DEF WindowsStep, Windows!Opens, Windows!Begins, Windows!Goes

\* Reports come into the ring or into read_buf, and from there to the user.
LEMMA WindowsReportStep ==
    ASSUME ReportTypes, WindowsTypes, WindowsStep
    PROVE  ReportTypes' /\ WindowsTypes'
<1>1. /\ sent \in Nat /\ NumReports \in Nat
      /\ input_reports \in Seq(1..sent) /\ input_reports \in Seq(1..sent + 1)
      /\ Append(input_reports, sent + 1) \in Seq(1..sent + 1)
      /\ Tail(Append(input_reports, sent + 1)) \in Seq(1..sent + 1)
      /\ input_reports # <<>> => /\ Head(input_reports) \in 1..sent
                                 /\ Tail(input_reports) \in Seq(1..sent)
      /\ <<>> \in Seq(1..sent)
    BY ReportSteps
<1> USE DEF ReportTypes, WindowsTypes
<1>2. CASE Windows!OpenPath \/ Windows!OpenFails
    BY <1>2 DEF Windows!OpenPath, Windows!OpenFails, Windows!ioVars
<1>3. ASSUME NEW t, Windows!Read(t) PROVE ReportTypes' /\ WindowsTypes'
  <2>1. UNCHANGED <<sent, last>>
      BY <1>3 DEF Windows!Read
  <2>2. \/ UNCHANGED <<input_reports, io, read_buf>>
        \/ /\ input_reports # <<>>
           /\ io' = "done" /\ read_buf' = Head(input_reports)
           /\ input_reports' = Tail(input_reports)
        \/ /\ io' \in {"none", "running"} /\ read_buf' = 0
           /\ input_reports' = input_reports
      BY <1>3, Zenon DEF Windows!Read, Windows!Start, Windows!ioVars
  <2>3. CASE UNCHANGED <<input_reports, io, read_buf>>
      BY <2>1, <2>3
  <2>4. CASE /\ input_reports # <<>>
             /\ io' = "done" /\ read_buf' = Head(input_reports)
             /\ input_reports' = Tail(input_reports)
    <3>1. read_buf' \in 1..sent /\ input_reports' \in Seq(1..sent)
        BY <1>1, <2>4
    <3> QED
        BY <1>1, <2>1, <2>4, <3>1
  <2>5. CASE /\ io' \in {"none", "running"} /\ read_buf' = 0
             /\ input_reports' = input_reports
      BY <1>1, <2>1, <2>5
  <2> QED
      BY <2>2, <2>3, <2>4, <2>5
<1>4. CASE Windows!Send \/ Windows!NotInTime \/ Windows!InTime
    BY <1>4 DEF Windows!Send, Windows!NotInTime, Windows!InTime, Windows!ioVars
<1>5. CASE Windows!Close
  <2>1. /\ input_reports' = <<>> /\ io' = "none" /\ read_buf' = 0
        /\ UNCHANGED <<sent, last>>
      BY <1>5 DEF Windows!Close
  <2> QED
      BY <1>1, <2>1
<1>6. CASE Windows!GetResult
  <2>1. /\ io' = "none" /\ read_buf' = 0 /\ last' \in {last, read_buf}
        /\ UNCHANGED <<sent, input_reports>>
      BY <1>6, Zenon DEF Windows!GetResult
  <2> QED
      BY <1>1, <2>1
<1>7. CASE Windows!Arrive
  <2>1. sent' = sent + 1 /\ sent' \in 0..NumReports /\ last' = last
      BY <1>1, <1>7 DEF Windows!Arrive
  <2>2. CASE io = "running"
    <3>1. io' = "done" /\ read_buf' = sent + 1 /\ UNCHANGED input_reports
        BY <1>7, <2>2 DEF Windows!Arrive
    <3> QED
        BY <1>1, <2>1, <2>2, <3>1
  <2>3. CASE io # "running"
    <3>1. /\ UNCHANGED <<io, read_buf>>
          /\ input_reports' \in Seq(1..sent + 1)
        BY <1>1, <1>7, <2>3 DEF Windows!Arrive
    <3> QED
        BY <1>1, <2>1, <2>3, <3>1
  <2> QED
      BY <2>2, <2>3
<1>8. CASE Windows!Unplug
    BY <1>1, <1>8 DEF Windows!Unplug
<1> QED
    BY <1>2, <1>3, <1>4, <1>5, <1>6, <1>7, <1>8
       DEF WindowsStep, Windows!Opens, Windows!Begins, Windows!Goes,
           Windows!Device

LEMMA WindowsReadStep ==
    ASSUME ReadInOrder, WindowsStep
    PROVE  ReadInOrder'
<1> USE DEF ReadInOrder
<1>1. CASE Windows!OpenPath \/ Windows!OpenFails
    BY <1>1, Zenon DEF Windows!OpenPath, Windows!OpenFails, Windows!ioVars
<1>2. ASSUME NEW t, Windows!Read(t) PROVE ReadInOrder'
  <2>1. CASE read_pending
      BY <1>2, <2>1, Zenon DEF Windows!Read, Windows!ioVars
  <2>2. CASE ~read_pending
    <3>1. Windows!Start /\ upc = "idle"
        BY <1>2, <2>2 DEF Windows!Read
    <3> QED
        BY <3>1, Zenon DEF Windows!Start
  <2> QED
      BY <2>1, <2>2
<1>3. CASE Windows!Send \/ Windows!NotInTime \/ Windows!InTime
    BY <1>3, Zenon DEF Windows!Send, Windows!NotInTime, Windows!InTime,
                       Windows!ioVars
<1>4. CASE Windows!Close \/ Windows!GetResult
    BY <1>4, Zenon DEF Windows!Close, Windows!GetResult
<1>5. CASE Windows!Arrive
    BY <1>5, Zenon DEF Windows!Arrive
<1>6. CASE Windows!Unplug
    BY <1>6, Zenon DEF Windows!Unplug
<1> QED
    BY <1>1, <1>2, <1>3, <1>4, <1>5, <1>6
       DEF WindowsStep, Windows!Opens, Windows!Begins, Windows!Goes,
           Windows!Device

LEMMA WindowsKeeps == DInv /\ WindowsStep => DInv'
<1> SUFFICES ASSUME DInv, WindowsStep PROVE DInv'
    OBVIOUS
<1>1. /\ backend = "windows" /\ backend' = "windows"
      /\ UNCHANGED <<tpc, matches, mutex, shutdown_thread, cancelled, transfer,
                     missed>>
    BY DEF WindowsStep, usbVars
<1>2. transfer = "idle" /\ tpc = "none" /\ upc # "freed"
    BY <1>1 DEF DInv, NotLinked
<1>3. UserTypes' /\ upc' # "freed"
    BY <1>2, WindowsUserStep DEF DInv
<1>4. ReportTypes' /\ WindowsTypes' /\ ReadInOrder'
    BY WindowsReportStep, WindowsReadStep DEF DInv
<1>5. LibusbTypes' /\ ThreadInOrder' /\ NotLinked'
    BY <1>1, <1>2, <1>3 DEF DInv, LibusbTypes, ThreadInOrder, NotLinked
<1> QED
    BY <1>3, <1>4, <1>5 DEF DInv

LEMMA LinuxKeeps == DInv /\ LinuxStep => DInv'
<1> SUFFICES ASSUME DInv, LinuxStep PROVE DInv'
    OBVIOUS
<1>1. /\ backend = "linux" /\ backend' = "linux"
      /\ UNCHANGED <<read_pending, io, read_buf, tpc, matches, mutex,
                     shutdown_thread, cancelled, transfer, missed>>
    BY DEF LinuxStep, winVars, usbVars
<1>2. /\ UserTypes /\ ReportTypes /\ WindowsTypes /\ LibusbTypes /\ ReadInOrder
      /\ ThreadInOrder /\ NotLinked
    BY DEF DInv
<1>3. transfer = "idle" /\ tpc = "none" /\ upc # "freed" /\ io = "none"
    BY <1>1, <1>2 DEF NotLinked
<1>4. /\ sent \in Nat /\ NumReports \in Nat
      /\ input_reports \in Seq(1..sent) /\ input_reports \in Seq(1..sent + 1)
      /\ Append(input_reports, sent + 1) \in Seq(1..sent + 1)
      /\ input_reports # <<>> => /\ Head(input_reports) \in 1..sent
                                 /\ Tail(input_reports) \in Seq(1..sent)
      /\ <<>> \in Seq(1..sent)
    BY <1>2, ReportSteps
<1>5. UserTypes' /\ upc' # "freed"
  <2> USE DEF UserTypes, UserPlaces
  <2>1. CASE Linux!Opens
      BY <1>2, <2>1 DEF Linux!Opens, Linux!OpenPath, Linux!OpenFails
  <2>2. CASE Linux!Begins
      BY <1>2, <2>2 DEF Linux!Begins, Linux!Read, Linux!Send, Linux!Close
  <2>3. CASE Linux!Goes \/ Linux!ReadFails
      BY <1>2, <2>3 DEF Linux!Goes, Linux!PollEnds, Linux!PollHangup,
                        Linux!PollIn, Linux!ReadEnds, Linux!ReadReport,
                        Linux!ReadFails
  <2>4. CASE Linux!Device
      BY <1>2, <1>3, <2>4 DEF Linux!Device, Linux!Arrive, Linux!Unplug
  <2> QED
      BY <2>1, <2>2, <2>3, <2>4 DEF LinuxStep
<1>6. /\ ReportTypes' /\ sent' \in Nat /\ sent <= sent'
      /\ upc' \in {"new", "failed"} => input_reports' = <<>>
  <2> USE DEF ReportTypes
  <2>1. CASE Linux!Opens
      BY <1>2, <1>4, <2>1 DEF Linux!Opens, Linux!OpenPath, Linux!OpenFails,
                              ReadInOrder
  <2>2. CASE Linux!Begins
    <3>1. /\ UNCHANGED <<sent, last>> /\ input_reports' \in {input_reports, <<>>}
          /\ upc' \notin {"new", "failed"}
        BY <2>2, Zenon DEF Linux!Begins, Linux!Read, Linux!Send, Linux!Close
    <3>2. input_reports' \in Seq(1..sent)
        BY <1>4, <3>1
    <3> QED
        BY <1>2, <1>4, <3>1, <3>2
  <2>3. CASE Linux!Goes \/ Linux!ReadFails
    <3>1. /\ sent' = sent /\ upc' \notin {"new", "failed"}
          /\ \/ UNCHANGED <<input_reports, last>>
             \/ /\ input_reports # <<>> /\ last' = Head(input_reports)
                /\ input_reports' = Tail(input_reports)
        BY <2>3, Zenon DEF Linux!Goes, Linux!PollEnds, Linux!PollHangup,
                           Linux!PollIn, Linux!ReadEnds, Linux!ReadReport,
                           Linux!ReadFails
    <3>2. CASE UNCHANGED <<input_reports, last>>
        BY <1>2, <1>4, <3>1, <3>2
    <3>3. CASE /\ input_reports # <<>> /\ last' = Head(input_reports)
               /\ input_reports' = Tail(input_reports)
      <4>1. last' \in 1..sent /\ input_reports' \in Seq(1..sent)
          BY <1>4, <3>3
      <4> QED
          BY <1>2, <1>4, <3>1, <4>1
    <3> QED
        BY <3>1, <3>2, <3>3
  <2>4. CASE Linux!Arrive
    <3>1. /\ sent' = sent + 1 /\ sent < NumReports /\ last' = last /\ upc' = upc
          /\ upc \notin {"new", "failed"}
          /\ input_reports' \in Seq(1..sent + 1)
        BY <1>4, <2>4 DEF Linux!Arrive
    <3> QED
        BY <1>2, <1>4, <3>1
  <2>5. CASE Linux!Unplug
      BY <1>2, <1>4, <2>5 DEF Linux!Unplug, ReadInOrder
  <2> QED
      BY <2>1, <2>2, <2>3, <2>4, <2>5 DEF LinuxStep, Linux!Device
<1>7. WindowsTypes'
    BY <1>1, <1>2, <1>3, <1>4, <1>6 DEF WindowsTypes
<1>8. LibusbTypes' /\ ThreadInOrder' /\ NotLinked' /\ ReadInOrder'
    BY <1>1, <1>2, <1>3, <1>5, <1>6
       DEF LibusbTypes, ThreadInOrder, NotLinked, ReadInOrder
<1> QED
    BY <1>5, <1>6, <1>7, <1>8 DEF DInv

\* libusb: what a step does to the reports, and to the place of the user.
LibusbReads ==
    /\ upc \in {"idle", "woken"} /\ upc' = "idle" /\ input_reports # <<>>
    /\ last' = Head(input_reports) /\ input_reports' = Tail(input_reports)
    /\ UNCHANGED <<sent, plugged, transfer>>

LibusbEnds ==
    /\ \/ upc = "again" /\ upc' = "freed"
       \/ upc = "join" /\ upc' = "closed"
    /\ input_reports' = <<>>
    /\ UNCHANGED <<sent, last, plugged, transfer>>

LibusbOpens ==
    /\ upc = "new" /\ upc' = "barrier" /\ plugged
    /\ UNCHANGED <<input_reports, sent, last, plugged, transfer>>

\* The places of an open device.
Held == UserPlaces \ {"new", "failed", "freed", "closed"}

LibusbGoesOn ==
    /\ \/ upc' = upc
       \/ upc = "new" /\ upc' = "failed" /\ UNCHANGED plugged
       \/ upc \in Held /\ upc' \in Held /\ UNCHANGED plugged
    /\ UNCHANGED <<input_reports, sent, last>>

LEMMA LibusbEffects ==
    ASSUME LibusbStep, upc \in UserPlaces
    PROVE  LibusbReads \/ LibusbEnds \/ LibusbOpens \/ Libusb!Callback
           \/ LibusbGoesOn
<1> USE DEF Libusb!flags, Libusb!deviceVars
<1>1. CASE Libusb!Opens
    BY <1>1, Zenon DEF Libusb!Opens, Libusb!Meet, Libusb!OpenReturns,
                       Libusb!OpenAgain, LibusbGoesOn, LibusbEnds, Held,
                       UserPlaces
<1>2. CASE Libusb!Starts
    BY <1>2, Zenon DEF Libusb!Starts, Libusb!OpenPath, Libusb!OpenFails,
                       LibusbOpens, LibusbGoesOn
<1>3. ASSUME NEW t, Libusb!Read(t)
      PROVE  LibusbReads \/ LibusbGoesOn
    BY <1>3, Zenon DEF Libusb!Read, Libusb!ReturnData, Libusb!Return,
                       Libusb!FallAsleep, LibusbReads, LibusbGoesOn, Held,
                       UserPlaces
<1>4. CASE Libusb!Send \/ Libusb!Close
    BY <1>4, Zenon DEF Libusb!Send, Libusb!Close, LibusbGoesOn, Held,
                       UserPlaces
<1>5. CASE Libusb!Goes
    BY <1>5, Zenon DEF Libusb!Goes, Libusb!Sleep, Libusb!WaitTimesOut,
                       Libusb!CloseCancels, Libusb!Join, LibusbEnds,
                       LibusbGoesOn, Held, UserPlaces
<1>6. CASE Libusb!TimedOut \/ Libusb!Woken
    BY <1>6, Zenon DEF Libusb!TimedOut, Libusb!Woken, Libusb!ReturnData,
                       Libusb!Return, Libusb!FallAsleep, LibusbReads,
                       LibusbGoesOn, Held, UserPlaces
<1>7. CASE Libusb!ThreadStep
    BY <1>7, Zenon DEF Libusb!ThreadStep, Libusb!Submit, Libusb!TestLoop,
                       Libusb!Drained, Libusb!Resubmit, Libusb!Stop,
                       Libusb!Cancel, LibusbGoesOn
<1>8. CASE Libusb!Broadcast
    BY <1>8, Zenon DEF Libusb!Broadcast, LibusbGoesOn, Held, UserPlaces
<1>9. CASE Libusb!Device
    BY <1>9, Zenon DEF Libusb!Device, Libusb!NoEvent, Libusb!WakesSpuriously,
                       Libusb!Arrive, Libusb!FiveSeconds, Libusb!Unplug,
                       LibusbGoesOn, Held, UserPlaces
<1> QED
    BY <1>1, <1>2, <1>3, <1>4, <1>5, <1>6, <1>7, <1>8, <1>9
       DEF LibusbStep, Libusb!Next, Libusb!Begins

LEMMA LibusbUserStep ==
    ASSUME UserTypes, LibusbStep
    PROVE  UserTypes'
<1> USE DEF Libusb!flags, Libusb!deviceVars
<1>1. upc \in UserPlaces /\ upc' \in UserPlaces
  <2>1. upc \in UserPlaces
      BY DEF UserTypes
  <2>2. CASE Libusb!Callback
      BY <2>1, <2>2, Zenon DEF Libusb!Callback, UserPlaces
  <2>3. CASE LibusbReads \/ LibusbEnds \/ LibusbOpens \/ LibusbGoesOn
      BY <2>1, <2>3, Zenon DEF LibusbReads, LibusbEnds, LibusbOpens,
                               LibusbGoesOn, Held, UserPlaces
  <2> QED
      BY <2>1, <2>2, <2>3, LibusbEffects
<1>2. /\ plugged' \in BOOLEAN /\ timeout' \in {"block", "timed", "poll"}
      /\ result' \in {"none", "open", "null", "data", "nothing", "error",
                      "written"}
  <2> USE DEF UserTypes
  <2>1. CASE Libusb!Opens
      BY <2>1, Zenon DEF Libusb!Opens, Libusb!Meet, Libusb!OpenReturns,
                         Libusb!OpenAgain
  <2>2. CASE Libusb!Starts
      BY <2>2, Zenon DEF Libusb!Starts, Libusb!OpenPath, Libusb!OpenFails
  <2>3. ASSUME NEW t \in {"block", "timed", "poll"}, Libusb!Read(t)
        PROVE  /\ plugged' \in BOOLEAN /\ timeout' \in {"block", "timed", "poll"}
               /\ result' \in {"none", "open", "null", "data", "nothing",
                               "error", "written"}
      BY <2>3, Zenon DEF Libusb!Read, Libusb!ReturnData, Libusb!Return,
                         Libusb!FallAsleep
  <2>4. CASE Libusb!Send
    <3>1. result' \in {"error", "written"}
        BY <2>4 DEF Libusb!Send
    <3> QED
        BY <2>4, <3>1, Zenon DEF Libusb!Send
  <2>5. CASE Libusb!Close \/ Libusb!Goes
      BY <2>5, Zenon DEF Libusb!Close, Libusb!Goes, Libusb!Sleep,
                         Libusb!WaitTimesOut, Libusb!CloseCancels, Libusb!Join
  <2>6. CASE Libusb!TimedOut \/ Libusb!Woken
      BY <2>6, Zenon DEF Libusb!TimedOut, Libusb!Woken, Libusb!ReturnData,
                         Libusb!Return, Libusb!FallAsleep
  <2>7. CASE Libusb!ThreadStep
      BY <2>7, Zenon DEF Libusb!ThreadStep, Libusb!Submit, Libusb!TestLoop,
                         Libusb!Drained, Libusb!Resubmit, Libusb!Stop,
                         Libusb!Cancel
  <2>8. CASE Libusb!Callback \/ Libusb!Broadcast
      BY <2>8, Zenon DEF Libusb!Callback, Libusb!Broadcast
  <2>9. CASE Libusb!Device
      BY <2>9, Zenon DEF Libusb!Device, Libusb!NoEvent, Libusb!WakesSpuriously,
                         Libusb!Arrive, Libusb!FiveSeconds, Libusb!Unplug
  <2> QED
      BY <2>1, <2>2, <2>3, <2>4, <2>5, <2>6, <2>7, <2>8, <2>9
         DEF LibusbStep, Libusb!Next, Libusb!Begins
<1> QED
    BY <1>1, <1>2 DEF UserTypes

LEMMA LibusbThreadStep ==
    ASSUME LibusbTypes, ReportTypes, LibusbStep
    PROVE  LibusbTypes'
<1>1. /\ tpc' \in {"none", "submit", "barrier", "loop", "events", "cancel",
                   "drain", "broadcast", "ended"}
      /\ mutex' \in {"free", "user"}
      /\ shutdown_thread' \in BOOLEAN /\ cancelled' \in BOOLEAN
      /\ transfer' \in {"idle", "flying", "completed", "timedOut", "noDevice",
                        "cancelled", "attached"}
      /\ missed' \in BOOLEAN
  <2> USE DEF Libusb!flags, Libusb!deviceVars, LibusbTypes
  <2>1. CASE Libusb!Opens
      BY <2>1, Zenon DEF Libusb!Opens, Libusb!Meet, Libusb!OpenReturns,
                         Libusb!OpenAgain
  <2>2. CASE Libusb!Starts
      BY <2>2, Zenon DEF Libusb!Starts, Libusb!OpenPath, Libusb!OpenFails
  <2>3. ASSUME NEW t \in {"block", "timed", "poll"}, Libusb!Read(t)
        PROVE  /\ mutex' \in {"free", "user"}
               /\ UNCHANGED <<tpc, shutdown_thread, cancelled, transfer, missed>>
      BY <2>3, Zenon DEF Libusb!Read, Libusb!ReturnData, Libusb!Return,
                         Libusb!FallAsleep
  <2>4. CASE Libusb!Send \/ Libusb!Close
      BY <2>4, Zenon DEF Libusb!Send, Libusb!Close
  <2>5. CASE Libusb!Goes
      BY <2>5, Zenon DEF Libusb!Goes, Libusb!Sleep, Libusb!WaitTimesOut,
                         Libusb!CloseCancels, Libusb!Join, Libusb!Cancelled
  <2>6. CASE Libusb!TimedOut \/ Libusb!Woken
      BY <2>6, Zenon DEF Libusb!TimedOut, Libusb!Woken, Libusb!ReturnData,
                         Libusb!Return, Libusb!FallAsleep
  <2>7. CASE Libusb!Submit
    <3>1. transfer' \in {"idle", "flying"}
        BY <2>7 DEF Libusb!Submit, Libusb!Submitted
    <3> QED
        BY <2>7, <3>1, Zenon DEF Libusb!Submit
  <2>8. CASE Libusb!Resubmit
    <3>1. transfer' \in {"idle", "flying"}
        BY <2>8 DEF Libusb!Resubmit, Libusb!Submitted
    <3> QED
        BY <2>8, <3>1, Zenon DEF Libusb!Resubmit
  <2>9. CASE Libusb!TestLoop \/ Libusb!Drained
      BY <2>9, Zenon DEF Libusb!TestLoop, Libusb!Drained
  <2>10. CASE Libusb!Stop \/ Libusb!Cancel
      BY <2>10, Zenon DEF Libusb!Stop, Libusb!Cancel, Libusb!Cancelled
  <2>11. CASE Libusb!Callback \/ Libusb!Broadcast
      BY <2>11, Zenon DEF Libusb!Callback, Libusb!Broadcast
  <2>12. CASE Libusb!Device
      BY <2>12, Zenon DEF Libusb!Device, Libusb!NoEvent, Libusb!WakesSpuriously,
                          Libusb!Arrive, Libusb!FiveSeconds, Libusb!Unplug
  <2> QED
      BY <2>1, <2>2, <2>3, <2>4, <2>5, <2>6, <2>7, <2>8, <2>9, <2>10, <2>11,
         <2>12
         DEF LibusbStep, Libusb!Next, Libusb!Begins, Libusb!ThreadStep
<1>2. matches' \in 0..1
  <2>1. \/ matches' = matches
        \/ \E n \in 1..2 : matches' = n - 1
        \/ matches > 0 /\ matches' = matches - 1
      BY DEF LibusbStep, Libusb!Next, Libusb!Opens, Libusb!Starts,
             Libusb!Begins, Libusb!Goes, Libusb!ThreadStep, Libusb!Device,
             Libusb!Meet, Libusb!OpenReturns, Libusb!OpenAgain,
             Libusb!OpenPath, Libusb!OpenFails, Libusb!Read, Libusb!Send,
             Libusb!Close, Libusb!Sleep, Libusb!WaitTimesOut,
             Libusb!CloseCancels, Libusb!Join, Libusb!TimedOut, Libusb!Woken,
             Libusb!Submit, Libusb!TestLoop, Libusb!Drained, Libusb!Resubmit,
             Libusb!Stop, Libusb!Cancel, Libusb!Callback, Libusb!Broadcast,
             Libusb!NoEvent, Libusb!WakesSpuriously, Libusb!Arrive,
             Libusb!FiveSeconds, Libusb!Unplug
  <2> QED
      BY <2>1 DEF LibusbTypes
<1> QED
    BY <1>1, <1>2, Zenon DEF LibusbTypes

LEMMA LibusbReportStep ==
    ASSUME ReportTypes, ThreadInOrder, upc \in UserPlaces, LibusbStep
    PROVE  /\ ReportTypes' /\ sent' \in Nat /\ sent <= sent'
           /\ \/ UNCHANGED <<upc, input_reports>> \/ upc' \notin {"new", "failed"}
              \/ upc = "new" /\ UNCHANGED input_reports
<1>1. /\ sent \in Nat /\ NumReports \in Nat
      /\ input_reports \in Seq(1..sent) /\ input_reports \in Seq(1..sent + 1)
      /\ Append(input_reports, sent + 1) \in Seq(1..sent + 1)
      /\ Tail(Append(input_reports, sent + 1)) \in Seq(1..sent + 1)
      /\ input_reports # <<>> => /\ Head(input_reports) \in 1..sent
                                 /\ Tail(input_reports) \in Seq(1..sent)
      /\ <<>> \in Seq(1..sent)
    BY ReportSteps
<1>2. CASE LibusbReads
  <2>1. last' \in 1..sent /\ input_reports' \in Seq(1..sent) /\ sent' = sent
      BY <1>1, <1>2 DEF LibusbReads
  <2> QED
      BY <1>1, <1>2, <2>1 DEF LibusbReads, ReportTypes
<1>3. CASE LibusbEnds
  <2>1. input_reports' = <<>> /\ UNCHANGED <<sent, last>>
        /\ upc' \notin {"new", "failed"}
      BY <1>3 DEF LibusbEnds
  <2> QED
      BY <1>1, <2>1 DEF ReportTypes
<1>4. CASE LibusbOpens
    BY <1>1, <1>4 DEF LibusbOpens, ReportTypes
<1>5. CASE Libusb!Callback
  <2>1. /\ sent' = sent + 1 /\ last' = last /\ sent < NumReports
        /\ input_reports' = Libusb!Attached(input_reports, sent + 1)
        /\ upc' = upc \/ upc' = "woken"
      BY <1>5 DEF Libusb!Callback, ThreadInOrder
  <2>2. input_reports' \in Seq(1..sent + 1)
      BY <1>1, <2>1 DEF Libusb!Attached
  <2>3. upc \notin {"new", "failed"}
      BY <1>5 DEF Libusb!Callback, Libusb!Handling, ThreadInOrder
  <2> QED
      BY <1>1, <2>1, <2>2, <2>3 DEF ReportTypes
<1>6. CASE LibusbGoesOn
    BY <1>1, <1>6 DEF LibusbGoesOn, ReportTypes, Held
<1> QED
    BY <1>2, <1>3, <1>4, <1>5, <1>6, LibusbEffects

\* The thread ends up with a report only after a submission of it.
LEMMA LibusbOrderStep ==
    ASSUME ThreadInOrder, LibusbTypes, ReportTypes, upc \in UserPlaces,
           LibusbStep
    PROVE  ThreadInOrder'
<1>1. upc' \in {"new", "failed"} => tpc' = "none"
  <2> USE DEF ThreadInOrder, Libusb!flags, Libusb!deviceVars
  <2>1. CASE Libusb!Opens
      BY <2>1, Zenon DEF Libusb!Opens, Libusb!Meet, Libusb!OpenReturns,
                         Libusb!OpenAgain
  <2>2. CASE Libusb!Starts
      BY <2>2, Zenon DEF Libusb!Starts, Libusb!OpenPath, Libusb!OpenFails
  <2>3. ASSUME NEW t, Libusb!Read(t)
        PROVE  upc' \notin {"new", "failed"}
      BY <2>3, Zenon DEF Libusb!Read, Libusb!ReturnData, Libusb!Return,
                         Libusb!FallAsleep
  <2>4. CASE Libusb!Send \/ Libusb!Close \/ Libusb!Goes
      BY <2>4, Zenon DEF Libusb!Send, Libusb!Close, Libusb!Goes, Libusb!Sleep,
                         Libusb!WaitTimesOut, Libusb!CloseCancels, Libusb!Join
  <2>5. CASE Libusb!TimedOut \/ Libusb!Woken
      BY <2>5, Zenon DEF Libusb!TimedOut, Libusb!Woken, Libusb!ReturnData,
                         Libusb!Return, Libusb!FallAsleep
  <2>6. CASE Libusb!ThreadStep
      BY <2>6, Zenon DEF Libusb!ThreadStep, Libusb!Submit, Libusb!TestLoop,
                         Libusb!Drained, Libusb!Resubmit, Libusb!Stop,
                         Libusb!Cancel, Libusb!Handling
  <2>7. CASE Libusb!Callback \/ Libusb!Broadcast
      BY <2>7, Zenon DEF Libusb!Callback, Libusb!Broadcast, Libusb!Handling
  <2>8. CASE Libusb!Device
      BY <2>8, Zenon DEF Libusb!Device, Libusb!NoEvent, Libusb!WakesSpuriously,
                         Libusb!Arrive, Libusb!FiveSeconds, Libusb!Unplug
  <2> QED
      BY <2>1, <2>2, <2>3, <2>4, <2>5, <2>6, <2>7, <2>8
         DEF LibusbStep, Libusb!Next, Libusb!Begins
<1>2. transfer' = "completed" =>
         \/ transfer = "completed" /\ sent' = sent
         \/ sent < NumReports /\ sent' = sent
  <2> USE DEF Libusb!flags, Libusb!deviceVars
  <2>1. CASE Libusb!Opens
      BY <2>1, Zenon DEF Libusb!Opens, Libusb!Meet, Libusb!OpenReturns,
                         Libusb!OpenAgain
  <2>2. CASE Libusb!Starts
      BY <2>2, Zenon DEF Libusb!Starts, Libusb!OpenPath, Libusb!OpenFails
  <2>3. CASE Libusb!Begins
      BY <2>3, Zenon DEF Libusb!Begins, Libusb!Read, Libusb!Send, Libusb!Close
  <2>4. CASE Libusb!Goes
      BY <2>4, Zenon DEF Libusb!Goes, Libusb!Sleep, Libusb!Cancelled,
                         Libusb!WaitTimesOut, Libusb!CloseCancels, Libusb!Join
  <2>5. CASE Libusb!TimedOut \/ Libusb!Woken
      BY <2>5, Zenon DEF Libusb!TimedOut, Libusb!Woken
  <2>6. CASE Libusb!ThreadStep
    <3>1. CASE Libusb!Submit \/ Libusb!Resubmit
      <4>1. transfer' \in {"idle", "flying"}
          BY <3>1 DEF Libusb!Submit, Libusb!Resubmit, Libusb!Submitted
      <4> QED
          BY <4>1
    <3>2. CASE Libusb!TestLoop \/ Libusb!Drained \/ Libusb!Stop \/ Libusb!Cancel
        BY <3>2, Zenon DEF Libusb!TestLoop, Libusb!Drained, Libusb!Stop,
                           Libusb!Cancel, Libusb!Cancelled
    <3> QED
        BY <2>6, <3>1, <3>2 DEF Libusb!ThreadStep
  <2>7. CASE Libusb!Callback \/ Libusb!Broadcast
      BY <2>7, Zenon DEF Libusb!Callback, Libusb!Broadcast
  <2>8. CASE Libusb!Device
      BY <2>8, Zenon DEF Libusb!Device, Libusb!NoEvent, Libusb!WakesSpuriously,
                         Libusb!Arrive, Libusb!FiveSeconds, Libusb!Unplug
  <2> QED
      BY <2>1, <2>2, <2>3, <2>4, <2>5, <2>6, <2>7, <2>8
         DEF LibusbStep, Libusb!Next
<1> QED
    BY <1>1, <1>2 DEF ThreadInOrder

LEMMA LibusbKeeps == DInv /\ LibusbStep => DInv'
<1> SUFFICES ASSUME DInv, LibusbStep PROVE DInv'
    OBVIOUS
<1>1. /\ backend = "libusb" /\ backend' = "libusb"
      /\ UNCHANGED <<read_pending, io, read_buf>>
    BY DEF LibusbStep, winVars
<1>2. /\ UserTypes /\ ReportTypes /\ WindowsTypes /\ LibusbTypes /\ ReadInOrder
      /\ ThreadInOrder /\ NotLinked /\ upc \in UserPlaces
    BY DEF DInv, UserTypes
<1>3. UserTypes' /\ LibusbTypes' /\ ThreadInOrder'
    BY <1>2, LibusbUserStep, LibusbThreadStep, LibusbOrderStep
<1>4. /\ ReportTypes' /\ sent' \in Nat /\ sent <= sent'
      /\ \/ UNCHANGED <<upc, input_reports>> \/ upc' \notin {"new", "failed"}
         \/ upc = "new" /\ UNCHANGED input_reports
    BY <1>2, LibusbReportStep
<1>5. io = "none"
    BY <1>1, <1>2 DEF NotLinked
<1>6. WindowsTypes'
  <2>1. sent \in Nat
      BY <1>2, BackendsAssumption DEF ReportTypes
  <2> QED
      BY <1>1, <1>2, <1>4, <2>1 DEF WindowsTypes
<1>7. ReadInOrder' /\ NotLinked'
  <2>1. upc' \in {"new", "failed"} => input_reports' = <<>>
      BY <1>2, <1>4, Zenon DEF ReadInOrder
  <2> QED
      BY <1>1, <1>2, <1>5, <2>1, Zenon DEF ReadInOrder, NotLinked
<1> QED
    BY <1>3, <1>4, <1>6, <1>7 DEF DInv

-----------------------------------------------------------------------------
(* What a step is: one of hid_open(), or one of the linked device.         *)

\* A step of hid_open() is one that HidEnumeration allows.
LEMMA OpenSteps == [Next]_vars => [ENext \/ OpenReturns]_evars
<1> SUFFICES ASSUME [Next]_vars PROVE [ENext \/ OpenReturns]_evars
    OBVIOUS
<1>1. CASE Enumerating \/ Returning
    BY <1>1 DEF Enumerating, Returning
<1>2. CASE UNCHANGED evars
    BY <1>2
<1> QED
    BY <1>1, <1>2 DEF Next, Opening, Beginning, Going, Locking, ThreadStep,
       Callback, Broadcast, Happening, Terminating, Step, vars

\* hid_open() links no other backend, and none of its steps but the opening of
\* the path is seen by the device.
LEMMA BackendStays == ENext \/ OpenReturns => backend' = backend
BY DEF ENext, PassOver, List, ListAgain, Fill, TakeOff, Enumerated,
       EnumerateFails, Crashes, Search, OpenPath, FreeNode, OpenDone,
       OpenReturns, callVars

Still == UNCHANGED <<backend, dvars>>

LEMMA DeviceSteps ==
    [Next]_vars => WindowsStep \/ LinuxStep \/ LibusbStep \/ Still
<1> SUFFICES ASSUME [Next]_vars
             PROVE  WindowsStep \/ LinuxStep \/ LibusbStep \/ Still
    OBVIOUS
<1>1. CASE Enumerating \/ Returning
    BY <1>1, BackendStays DEF Enumerating, Returning, Still
<1>2. CASE Opening
  <2> DEFINE n == IF seen[path].cond = "twice" THEN 2 ELSE 1
  <2>1. n \in 1..2
      OBVIOUS
  <2>2. CASE Step("libusb", Libusb!OpenPath(n))
    <3>1. Libusb!OpenPath(n) /\ backend = "libusb"
          /\ UNCHANGED <<backend, winVars>>
        BY <2>2, Zenon DEF Step, evars
    <3> HIDE DEF n
    <3>2. Libusb!Starts
        BY <2>1, <3>1, Zenon DEF Libusb!Starts
    <3> QED
        BY <3>1, <3>2 DEF LibusbStep, Libusb!Next
  <2>3. CASE Step("windows", Windows!Opens) \/ Step("linux", Linux!Opens)
             \/ Step("libusb", Libusb!OpenFails) \/ Step("libusb", Libusb!Opens)
      BY <2>3, Zenon DEF Step, WindowsStep, LinuxStep, LibusbStep, evars,
                         Libusb!Next, Libusb!Starts
  <2> QED
      BY <1>2, <2>2, <2>3 DEF Opening
<1>3. CASE Beginning
    BY <1>3, Zenon DEF Beginning, Step, WindowsStep, LinuxStep, LibusbStep,
                       evars, Libusb!Next
<1>4. CASE Going \/ Locking \/ ThreadStep \/ Callback \/ Broadcast
    BY <1>4, Zenon DEF Going, Locking, ThreadStep, Callback, Broadcast, Step,
                       WindowsStep, LinuxStep, LibusbStep, evars, Libusb!Next
<1>5. CASE Happening
    BY <1>5, Zenon DEF Happening, Step, WindowsStep, LinuxStep, LibusbStep,
                       evars, Libusb!Next
<1>6. CASE Terminating \/ UNCHANGED vars
    BY <1>6 DEF Terminating, Still, vars, evars
<1> QED
    BY <1>1, <1>2, <1>3, <1>4, <1>5, <1>6 DEF Next

LEMMA DInvStill == DInv /\ Still => DInv'
<1> SUFFICES ASSUME DInv, Still PROVE DInv'
    OBVIOUS
<1>1. /\ UNCHANGED <<backend, upc, plugged, input_reports, timeout, result, sent>>
      /\ UNCHANGED <<last, read_pending, io, read_buf, tpc, matches, mutex>>
      /\ UNCHANGED <<shutdown_thread, cancelled, transfer, missed>>
    BY DEF Still, dvars, winVars, usbVars
<1>2. UserTypes' /\ ReportTypes' /\ WindowsTypes'
    BY <1>1 DEF DInv, UserTypes, ReportTypes, WindowsTypes
<1>3. LibusbTypes' /\ ReadInOrder' /\ ThreadInOrder' /\ NotLinked'
    BY <1>1 DEF DInv, LibusbTypes, ReadInOrder, ThreadInOrder, NotLinked
<1> QED
    BY <1>2, <1>3 DEF DInv

LEMMA DInvStep == DInv /\ [Next]_vars => DInv'
BY DeviceSteps, WindowsKeeps, LinuxKeeps, LibusbKeeps, DInvStill

\* The invariant of the open device, whichever hid.c it is of.
LEMMA DInvHolds == Spec => []DInv
BY DInvInit, DInvStep, PTL DEF Spec

\* The invariant of hid_open(), while a read thread and the device run on.
LEMMA EInvHolds == Spec => []EInv
<1>1. Init => EInv
    BY EInvInit DEF Init
<1>2. EInv /\ [Next]_vars => EInv'
    BY OpenSteps, EInvStep
<1> QED
    BY <1>1, <1>2, PTL DEF Spec

\* The variables of all parts keep their types: no pointer that is followed
\* points to a node that has been freed, a list of reports holds only reports
\* that have arrived, and read_buf holds one just when a read has finished.
THEOREM TypeCorrect == Spec => []TypeOK
<1>1. EInv /\ DInv => TypeOK
  <2>1. EInv /\ DInv => /\ ETypeOK /\ UserTypes /\ ReportTypes /\ WindowsTypes
                        /\ LibusbTypes /\ read_pending \in BOOLEAN
      BY EInvTypes DEF DInv, ReadInOrder
  <2> QED
      BY <2>1, Zenon DEF TypeOK, UserTypes, UserPlaces, ReportTypes,
                         WindowsTypes, LibusbTypes
<1> QED
    BY <1>1, DInvHolds, EInvHolds, PTL

\* hid_enumerate(): the finished list names the devices that are wanted, in their
\* order, and nothing else is allocated, for every list of devices the system
\* may report.
THEOREM ListSound == Spec => []ListRight
BY EInvHolds, EInvList, PTL

\* hid_open() opens the first of them that has the vendor, the product and the
\* serial number that are asked for.
THEOREM OpensFirstFitHolds == Spec => []OpensFirstFit
BY EInvHolds, EInvFirst, PTL

\* hid_free_enumeration() leaves nothing allocated.
THEOREM AllFreedHolds == Spec => []AllFreed
BY EInvHolds, EInvFreed, PTL

-----------------------------------------------------------------------------
(* The open device implements ReportChannel.                               *)

\* The channel's `phase`, and its `Depth`.
Phase ==
    CASE upc \in {"new", "failed"} -> "new"
      [] upc \in {"freed", "closed"} -> "closed"
      [] upc \notin {"new", "failed", "freed", "closed"} /\ ~HasGone -> "open"
      [] OTHER -> "gone"

Depth == IF Limit + 2 < Ring THEN Limit + 2 ELSE Ring

\* What the channel sees.
PhaseLaw ==
    /\ upc \in {"new", "failed"} => Phase = "new"
    /\ upc \in {"freed", "closed"} => Phase = "closed"
    /\ upc \notin {"new", "failed", "freed", "closed"} =>
         /\ ~HasGone => Phase = "open"
         /\ HasGone => Phase = "gone"

LEMMA PhaseHolds == PhaseLaw
BY DEF PhaseLaw, Phase

LEMMA PhaseHoldsNext == PhaseLaw'
BY PhaseHolds, PTL

\* The channel without one of its reports.
Without(q, i) == SubSeq(q, 1, i - 1) \o SubSeq(q, i + 1, Len(q))

LEMMA WithoutFirst ==
    ASSUME NEW S, NEW q \in Seq(S), q # <<>>
    PROVE  Without(q, 1) = Tail(q)
<1>1. SubSeq(q, 1, 0) = <<>> /\ SubSeq(q, 2, Len(q)) = Tail(q)
    OBVIOUS
<1>2. <<>> \o Tail(q) = Tail(q)
    OBVIOUS
<1> QED
    BY <1>1, <1>2 DEF Without

LEMMA WithoutLast ==
    ASSUME NEW S, NEW q \in Seq(S), NEW x \in S
    PROVE  Without(Append(q, x), Len(q) + 1) = q
<1> DEFINE all == Append(q, x)
<1>1. all \in Seq(S) /\ Len(all) = Len(q) + 1
    OBVIOUS
<1>2. SubSeq(all, 1, Len(q)) = q /\ SubSeq(all, Len(q) + 2, Len(q) + 1) = <<>>
    OBVIOUS
<1>3. q \o <<>> = q
    OBVIOUS
<1> HIDE DEF all
<1>4. (Len(q) + 1) - 1 = Len(q) /\ (Len(q) + 1) + 1 = Len(q) + 2
    OBVIOUS
<1>5. Without(all, Len(q) + 1) = q
    BY <1>1, <1>2, <1>3, <1>4 DEF Without
<1> QED
    BY <1>5 DEF all

LEMMA WithoutSecond ==
    ASSUME NEW S, NEW q \in Seq(S), NEW x \in S, q # <<>>
    PROVE  Without(<<x>> \o q, 2) = <<x>> \o Tail(q)
<1> DEFINE all == <<x>> \o q
<1>1. all \in Seq(S) /\ Len(all) = Len(q) + 1
    OBVIOUS
<1>2. SubSeq(all, 1, 1) = <<x>>
  <2>1. SubSeq(all, 1, 1) \in Seq(S) /\ <<x>> \in Seq(S)
      BY <1>1
  <2>2. Len(SubSeq(all, 1, 1)) = 1 /\ Len(<<x>>) = 1
      BY <1>1
  <2>3. all[1] = x /\ SubSeq(all, 1, 1)[1] = all[1] /\ <<x>>[1] = x
      BY <1>1
  <2>4. \A i \in 1..1 : SubSeq(all, 1, 1)[i] = <<x>>[i]
      BY <2>3
  <2> HIDE DEF all
  <2> QED
      BY <2>1, <2>2, <2>4, SeqEqual
<1>3. SubSeq(all, 3, Len(all)) = Tail(q)
    OBVIOUS
<1> HIDE DEF all
<1>4. 2 - 1 = 1 /\ 2 + 1 = 3
    OBVIOUS
<1>5. Without(all, 2) = <<x>> \o Tail(q)
    BY <1>2, <1>3, <1>4, Zenon DEF Without
<1> QED
    BY <1>5 DEF all

\* The steps of the channel.
LEMMA ToStutter ==
    ASSUME UNCHANGED <<Phase, sent, Readable, last>>
    PROVE  UNCHANGED Channel!vars
BY DEF Channel!vars, Phase

LEMMA ToOpen ==
    ASSUME Phase = "new", Phase' = "open", UNCHANGED <<sent, Readable, last>>
    PROVE  Channel!Next
<1>1. Channel!Open
    BY DEF Channel!Open, Phase
<1> QED
    BY <1>1 DEF Channel!Next

LEMMA ToArrive ==
    ASSUME Phase = "open", Phase' = "open", sent' = sent + 1, last' = last,
           \/ Readable' = Append(Readable, sent + 1)
           \/ /\ Len(Readable) >= Depth
              /\ \E i \in 1..Len(Append(Readable, sent + 1)) :
                   Readable' = Without(Append(Readable, sent + 1), i)
    PROVE  Channel!Next
<1>1. Channel!Arrive
    BY DEF Channel!Arrive, Channel!RemoveAt, Phase, Depth, Without
<1> QED
    BY <1>1 DEF Channel!Next

LEMMA ToReceive ==
    ASSUME Phase \in {"open", "gone"}, Phase' = Phase, Readable # <<>>,
           last' = Head(Readable), Readable' = Tail(Readable), sent' = sent
    PROVE  Channel!Next
<1>1. Channel!Receive
    BY DEF Channel!Receive, Phase
<1> QED
    BY <1>1 DEF Channel!Next

LEMMA ToGo ==
    ASSUME Phase = "open", Phase' = "gone", UNCHANGED <<sent, last>>,
           \E n \in 0..Len(Readable) : Readable' = SubSeq(Readable, 1, n)
    PROVE  Channel!Next
<1>1. Channel!Go
    BY DEF Channel!Go, Phase
<1> QED
    BY <1>1 DEF Channel!Next

LEMMA ToClose ==
    ASSUME Phase \in {"open", "gone"}, Phase' = "closed", Readable' = <<>>,
           UNCHANGED <<sent, last>>
    PROVE  Channel!Next
<1>1. Channel!Close
    BY DEF Channel!Close, Phase
<1> QED
    BY <1>1 DEF Channel!Next

\* Windows: the report that a finished read has put in read_buf comes first.
Ahead == IF io = "done" THEN <<read_buf>> ELSE <<>>

LEMMA WindowsReadable ==
    ASSUME backend = "windows"
    PROVE  Readable = Ahead \o input_reports /\ (HasGone <=> ~plugged)
BY DEF Readable, HasGone, On, Windows!Readable, Ahead

LEMMA WindowsReadableNext ==
    ASSUME backend' = "windows"
    PROVE  Readable' = Ahead' \o input_reports' /\ (HasGone' <=> ~plugged')
BY DEF Readable, HasGone, On, Windows!Readable, Ahead

\* One report and a list, put together.
LEMMA OneAhead ==
    ASSUME NEW n \in Nat, NEW q \in Seq(1..n), NEW b \in 1..n
    PROVE  /\ <<>> \o q = q
           /\ <<b>> \o q \in Seq(1..n) /\ Len(<<b>> \o q) = Len(q) + 1
           /\ Head(<<b>> \o q) = b /\ Tail(<<b>> \o q) = q
           /\ <<b>> \o <<>> = <<b>>
           /\ q # <<>> => <<Head(q)>> \o Tail(q) = q
<1>1. <<b>> \in Seq(1..n) /\ Len(<<b>>) = 1 /\ <<b>>[1] = b
    OBVIOUS
<1>2. /\ <<>> \o q = q
      /\ <<b>> \o q \in Seq(1..n) /\ Len(<<b>> \o q) = Len(q) + 1
      /\ <<b>> \o <<>> = <<b>>
    OBVIOUS
<1>3. Head(<<b>> \o q) = b
    BY <1>2
<1>4. Tail(<<b>> \o q) = q
    OBVIOUS
<1>5. q # <<>> => <<Head(q)>> \o Tail(q) = q
    OBVIOUS
<1> QED
    BY <1>2, <1>3, <1>4, <1>5

LEMMA OneAheadAppend ==
    ASSUME NEW n \in Nat, NEW q \in Seq(1..n), NEW b \in 1..n
    PROVE  <<b>> \o Append(q, n + 1) = Append(<<b>> \o q, n + 1)
<1>1. q \in Seq(1..n + 1) /\ b \in 1..n + 1 /\ n + 1 \in 1..n + 1
  <2>1. \A i \in 1..Len(q) : q[i] \in 1..n + 1
      OBVIOUS
  <2> QED
      BY <2>1
<1>2. \A S : \A s \in Seq(S) : \A x, y \in S :
         <<x>> \o Append(s, y) = Append(<<x>> \o s, y)
    OBVIOUS
<1> QED
    BY <1>1, <1>2

LEMMA FirstOf ==
    ASSUME NEW S, NEW s \in Seq(S), s # <<>>
    PROVE  SubSeq(s, 1, 1) = <<Head(s)>> /\ 1 \in 0..Len(s)
<1>1. Len(s) \in Nat /\ Len(s) >= 1 /\ s[1] \in S /\ Head(s) = s[1]
    OBVIOUS
<1>2. SubSeq(s, 1, 1) \in Seq(S) /\ <<Head(s)>> \in Seq(S)
    BY <1>1
<1>3. Len(SubSeq(s, 1, 1)) = 1 /\ Len(<<Head(s)>>) = 1
    BY <1>1
<1>4. SubSeq(s, 1, 1)[1] = s[1] /\ <<Head(s)>>[1] = s[1]
    BY <1>1
<1>5. \A i \in 1..Len(SubSeq(s, 1, 1)) : SubSeq(s, 1, 1)[i] = <<Head(s)>>[i]
    BY <1>3, <1>4
<1>6. SubSeq(s, 1, 1) = <<Head(s)>>
    BY <1>2, <1>3, <1>5, SeqEqual, Zenon
<1> QED
    BY <1>1, <1>6

\* A report that finds the ring of Windows full pushes out its oldest, which is
\* the second of the channel if a finished read is ahead of it.
LEMMA WindowsArrives ==
    ASSUME DInv, backend = "windows", backend' = "windows", Windows!Arrive
    PROVE  Channel!Next
<1> DEFINE q == input_reports
           r == sent + 1
<1>1. /\ sent \in Nat /\ Ring \in Nat /\ Limit \in Nat /\ q \in Seq(1..sent)
      /\ io = "done" => read_buf \in 1..sent
      /\ q \in Seq(1..r) /\ r \in 1..r
      /\ Append(q, r) \in Seq(1..r) /\ Len(Append(q, r)) = Len(q) + 1
      /\ Append(q, r) # <<>>
  <2>1. /\ sent \in Nat /\ Ring \in Nat /\ Limit \in Nat /\ q \in Seq(1..sent)
      BY BackendsAssumption DEF DInv, ReportTypes
  <2>2. io = "done" => read_buf \in 1..sent
      BY <2>1 DEF DInv, WindowsTypes
  <2>3. q \in Seq(1..r) /\ r \in 1..r
      BY <2>1, ReportLists
  <2>4. /\ Append(q, r) \in Seq(1..r) /\ Len(Append(q, r)) = Len(q) + 1
        /\ Append(q, r) # <<>>
    <3> HIDE DEF q, r
    <3> QED
        BY <2>3
  <2> QED
      BY <2>1, <2>2, <2>3, <2>4
<1>2. /\ Readable = Ahead \o q /\ Readable' = Ahead' \o q'
      /\ (HasGone <=> ~plugged) /\ (HasGone' <=> ~plugged')
    BY WindowsReadable, WindowsReadableNext
<1>3. Phase = "open" /\ Phase' = "open" /\ sent' = r /\ last' = last
  <2>1. /\ upc \notin {"new", "failed", "closed", "freed"} /\ upc' = upc
        /\ plugged /\ plugged' = plugged /\ sent' = r /\ last' = last
      BY DEF Windows!Arrive, DInv, NotLinked
  <2> QED
      BY <1>2, <2>1, PhaseHolds, PhaseHoldsNext DEF PhaseLaw
<1>4. SUFFICES \/ Readable' = Append(Readable, r)
               \/ /\ Len(Readable) >= Ring
                  /\ \E i \in 1..Len(Append(Readable, r)) :
                       Readable' = Without(Append(Readable, r), i)
  <2>1. Len(Readable) \in Nat
    <3>1. CASE io = "done"
        BY <1>1, <1>2, <3>1, OneAhead DEF Ahead
    <3>2. CASE io # "done"
        BY <1>1, <1>2, <3>2 DEF Ahead
    <3> QED
        BY <3>1, <3>2
  <2>2. Len(Readable) >= Ring => Len(Readable) >= Depth
      BY <1>1, <2>1 DEF Depth
  <2> QED
      BY <1>3, <1>4, <2>2, ToArrive
<1>5. CASE io = "running"
  <2>1. q = <<>> /\ q' = q /\ Ahead = <<>> /\ Ahead' = <<r>>
      BY <1>5 DEF Windows!Arrive, DInv, ReadInOrder, Ahead
  <2>2. <<>> \o <<>> = <<>> /\ <<r>> \o <<>> = Append(<<>>, r)
      BY <1>1
  <2> QED
      BY <1>2, <2>1, <2>2
<1>6. CASE io # "running"
  <2>1. /\ q' = IF Len(q) < Ring THEN Append(q, r) ELSE Tail(Append(q, r))
        /\ Ahead' = Ahead
      BY <1>6 DEF Windows!Arrive, Ahead
  <2>2. CASE io # "done"
    <3>1. Readable = q /\ Readable' = q'
      <4>1. Ahead = <<>> /\ \A s \in Seq(1..r) : <<>> \o s = s
          BY <2>2 DEF Ahead
      <4>2. q' \in Seq(1..r)
        <5>1. Tail(Append(q, r)) \in Seq(1..r)
            BY <1>1, ReportLists
        <5> HIDE DEF q, r
        <5> QED
            BY <1>1, <2>1, <5>1
      <4> HIDE DEF q, r
      <4> QED
          BY <1>1, <1>2, <2>1, <4>1, <4>2
    <3>2. CASE Len(q) < Ring
        BY <2>1, <3>1, <3>2
    <3>3. CASE ~(Len(q) < Ring)
      <4>1. Without(Append(q, r), 1) = Tail(Append(q, r))
          BY <1>1, WithoutFirst
      <4>2. 1 \in 1..Len(Append(q, r)) /\ Len(q) >= Ring
          BY <1>1, <3>3
      <4>3. Readable' = Without(Append(q, r), 1)
          BY <2>1, <3>1, <3>3, <4>1
      <4> HIDE DEF q, r
      <4> QED
          BY <3>1, <4>2, <4>3
    <3> QED
        BY <3>2, <3>3
  <2>3. CASE io = "done"
    <3> DEFINE b == read_buf
    <3>1. /\ Ahead = <<b>> /\ b \in 1..sent /\ b \in 1..r
          /\ Readable = <<b>> \o q /\ Readable' = <<b>> \o q'
      <4>1. Ahead = <<b>> /\ Ahead' = <<b>>
          BY <2>1, <2>3 DEF Ahead
      <4>2. b \in 1..sent /\ b \in 1..r
          BY <1>1, <2>3
      <4> HIDE DEF q
      <4> QED
          BY <1>2, <4>1, <4>2
    <3>2. <<b>> \o Append(q, r) = Append(Readable, r)
        BY <1>1, <3>1, OneAheadAppend
    <3>3. CASE Len(q) < Ring
        BY <2>1, <3>1, <3>2, <3>3
    <3>4. CASE ~(Len(q) < Ring)
      <4>1. Readable' = <<b>> \o Tail(Append(q, r))
          BY <2>1, <3>1, <3>4
      <4>2. Without(<<b>> \o Append(q, r), 2) = <<b>> \o Tail(Append(q, r))
          BY <1>1, <3>1, WithoutSecond
      <4>3. Readable' = Without(Append(Readable, r), 2)
          BY <3>2, <4>1, <4>2
      <4>4. /\ Len(Readable) = Len(q) + 1 /\ Readable \in Seq(1..r)
            /\ Len(Append(Readable, r)) = Len(q) + 2
        <5>1. Readable \in Seq(1..r) /\ Len(Readable) = Len(q) + 1
            BY <1>1, <3>1
        <5> QED
            BY <1>1, <5>1
      <4>5. 2 \in 1..Len(Append(Readable, r)) /\ Len(Readable) >= Ring
          BY <1>1, <3>4, <4>4
      <4> HIDE DEF q, r
      <4> QED
          BY <4>3, <4>5
    <3> QED
        BY <3>3, <3>4
  <2> QED
      BY <2>2, <2>3
<1> QED
    BY <1>5, <1>6

LEMMA WindowsChannel ==
    ASSUME DInv, WindowsStep
    PROVE  [Channel!Next]_(Channel!vars)
<1> DEFINE q == input_reports
<1>1. /\ sent \in Nat /\ q \in Seq(1..sent) /\ <<>> \o q = q
      /\ io = "done" => read_buf \in 1..sent /\ Ahead = <<read_buf>>
      /\ io # "done" => Ahead = <<>>
      /\ io' # "done" => Ahead' = <<>>
      /\ <<>> \o <<>> = <<>>
  <2>1. sent \in Nat /\ q \in Seq(1..sent)
      BY BackendsAssumption DEF DInv, ReportTypes
  <2>2. io = "done" => read_buf \in 1..sent
      BY <2>1 DEF DInv, WindowsTypes
  <2> QED
      BY <2>1, <2>2 DEF Ahead
<1>2. backend = "windows" /\ backend' = "windows"
    BY DEF WindowsStep
<1>3. /\ Readable = Ahead \o q /\ Readable' = Ahead' \o q'
      /\ (HasGone <=> ~plugged) /\ (HasGone' <=> ~plugged')
    BY <1>2, WindowsReadable, WindowsReadableNext
<1>4. PhaseLaw /\ PhaseLaw'
    BY PhaseHolds, PhaseHoldsNext
<1>5. ASSUME UNCHANGED <<plugged, input_reports, sent, last>>,
             Ahead' = Ahead,
             \/ upc' = upc
             \/ upc = "new" /\ upc' = "failed"
             \/ upc \in Held /\ upc' \in Held
      PROVE  UNCHANGED Channel!vars
  <2>1. Phase' = Phase
      BY <1>3, <1>4, <1>5 DEF PhaseLaw, Held
  <2>2. Readable' = Readable
      BY <1>3, <1>5
  <2> QED
      BY <1>5, <2>1, <2>2, ToStutter
<1>6. CASE Windows!OpenPath
  <2>1. /\ upc = "new" /\ plugged /\ upc' = "idle" /\ Ahead' = Ahead
        /\ UNCHANGED <<plugged, input_reports, sent, last>>
      BY <1>6, Zenon DEF Windows!OpenPath, Windows!ioVars, Ahead
  <2>2. Phase = "new" /\ Phase' = "open"
      BY <1>3, <1>4, <2>1 DEF PhaseLaw
  <2>3. UNCHANGED <<sent, Readable, last>>
      BY <1>3, <2>1
  <2> QED
      BY <2>2, <2>3, ToOpen
<1>7. CASE Windows!OpenFails
    BY <1>5, <1>7 DEF Windows!OpenFails, Windows!ioVars, Ahead
<1>8. ASSUME NEW t, Windows!Read(t) PROVE UNCHANGED Channel!vars
  <2>1. /\ upc = "idle" /\ upc' \in {"idle", "wait"}
        /\ UNCHANGED <<plugged, sent, last>>
      BY <1>8, Zenon DEF Windows!Read, Windows!Start
  <2>2. Phase' = Phase
      BY <1>3, <1>4, <2>1 DEF PhaseLaw
  <2>3. CASE read_pending
    <3>1. Ahead' = Ahead /\ q' = q
        BY <1>8, <2>3, Zenon DEF Windows!Read, Windows!ioVars, Ahead
    <3> QED
        BY <1>3, <2>1, <2>2, <3>1, ToStutter
  <2>4. CASE ~read_pending
    <3>1. io = "none" /\ Windows!Start
        BY <1>8, <2>4, Zenon DEF Windows!Read, DInv, ReadInOrder
    <3>2. Ahead = <<>> /\ Readable = q
        BY <1>1, <1>3, <3>1
    <3>3. CASE /\ q # <<>> /\ io' = "done" /\ read_buf' = Head(q)
               /\ q' = Tail(q)
      <4>1. Ahead' = <<Head(q)>>
          BY <3>3 DEF Ahead
      <4>2. <<Head(q)>> \o Tail(q) = q
        <5>1. Head(q) \in 1..sent
            BY <1>1, <3>3
        <5> QED
            BY <1>1, <3>3, <5>1, OneAhead
      <4>3. Readable' = Readable
          BY <1>3, <3>2, <3>3, <4>1, <4>2
      <4> QED
          BY <2>1, <2>2, <4>3, ToStutter
    <3>4. CASE io' \in {"running", "none"} /\ q' = q
      <4>1. Readable' = Readable
          BY <1>1, <1>3, <3>2, <3>4
      <4> QED
          BY <2>1, <2>2, <4>1, ToStutter
    <3> QED
        BY <3>1, <3>3, <3>4 DEF Windows!Start
  <2> QED
      BY <2>3, <2>4
<1>9. CASE Windows!Send \/ Windows!NotInTime \/ Windows!InTime
  <2>1. /\ UNCHANGED <<plugged, input_reports, sent, last>> /\ Ahead' = Ahead
        /\ upc' = upc \/ (upc \in Held /\ upc' \in Held)
      BY <1>9, Zenon DEF Windows!Send, Windows!NotInTime, Windows!InTime,
                         Windows!ioVars, Ahead, Held, UserPlaces
  <2> QED
      BY <1>5, <2>1
<1>10. CASE Windows!GetResult
  <2>1. /\ upc = "get" /\ upc' = "idle" /\ io' = "none"
        /\ UNCHANGED <<plugged, input_reports, sent>>
        /\ io = "done" => last' = read_buf
        /\ io # "done" => last' = last
      BY <1>10, Zenon DEF Windows!GetResult
  <2>2. CASE io = "done"
    <3>1. Phase \in {"open", "gone"} /\ Phase' = Phase
        BY <1>3, <1>4, <2>1 DEF PhaseLaw
    <3>2. Readable = <<read_buf>> \o q /\ Readable' = q
        BY <1>1, <1>3, <2>1, <2>2
    <3>3. /\ Head(Readable) = read_buf /\ Tail(Readable) = q
          /\ Readable # <<>>
      <4>1. /\ Head(<<read_buf>> \o q) = read_buf
            /\ Tail(<<read_buf>> \o q) = q
            /\ Len(<<read_buf>> \o q) = Len(q) + 1
          BY <1>1, <2>2, OneAhead
      <4>2. Len(q) \in Nat /\ Len(<<>>) = 0
          BY <1>1
      <4> HIDE DEF q
      <4> QED
          BY <3>2, <4>1, <4>2
    <3> QED
        BY <2>1, <2>2, <3>1, <3>2, <3>3, ToReceive
  <2>3. CASE io # "done"
    <3>1. Ahead' = Ahead
        BY <1>1, <2>1, <2>3
    <3>2. upc \in Held /\ upc' \in Held
        BY <2>1 DEF Held, UserPlaces
    <3> QED
        BY <1>5, <2>1, <2>3, <3>1, <3>2
  <2> QED
      BY <2>2, <2>3
<1>11. CASE Windows!Close
  <2>1. /\ upc = "idle" /\ upc' = "closed" /\ q' = <<>> /\ io' = "none"
        /\ UNCHANGED <<plugged, sent, last>>
      BY <1>11 DEF Windows!Close
  <2>2. Phase \in {"open", "gone"} /\ Phase' = "closed"
      BY <1>3, <1>4, <2>1 DEF PhaseLaw
  <2>3. Readable' = <<>>
      BY <1>1, <1>3, <2>1
  <2> QED
      BY <2>1, <2>2, <2>3, ToClose
<1>12. CASE Windows!Arrive
    BY <1>2, <1>12, WindowsArrives
<1>13. CASE Windows!Unplug
  <2>1. /\ upc' = upc /\ upc \notin {"failed", "closed", "freed"}
        /\ plugged /\ ~plugged' /\ q' = <<>> /\ UNCHANGED <<sent, last>>
        /\ io = "done" => io' = "done" /\ read_buf' = read_buf
        /\ io # "done" => io' # "done"
      BY <1>2, <1>13 DEF Windows!Unplug, DInv, NotLinked
  <2>2. /\ io = "done" => Readable' = <<read_buf>> \o <<>>
        /\ io # "done" => Readable' = <<>>
      BY <1>1, <1>3, <2>1 DEF Ahead
  <2>3. CASE upc = "new"
    <3>1. io = "none" /\ q = <<>>
        BY <2>3 DEF DInv, ReadInOrder
    <3>2. Readable = <<>> /\ Readable' = <<>>
        BY <1>1, <1>3, <2>2, <3>1
    <3>3. Phase = "new" /\ Phase' = "new"
        BY <1>4, <2>1, <2>3 DEF PhaseLaw
    <3> QED
        BY <2>1, <3>2, <3>3, ToStutter
  <2>4. CASE upc # "new"
    <3>1. Phase = "open" /\ Phase' = "gone"
        BY <1>3, <1>4, <2>1, <2>4 DEF PhaseLaw
    <3>2. \E n \in 0..Len(Readable) : Readable' = SubSeq(Readable, 1, n)
      <4>1. CASE io = "done"
        <5>1. /\ Readable = <<read_buf>> \o q /\ Readable \in Seq(1..sent)
              /\ Len(Readable) = Len(q) + 1 /\ Len(q) \in Nat
              /\ Readable' = <<read_buf>> /\ Head(Readable) = read_buf
          <6>1. /\ <<read_buf>> \o q \in Seq(1..sent)
                /\ Len(<<read_buf>> \o q) = Len(q) + 1
                /\ Head(<<read_buf>> \o q) = read_buf
                /\ <<read_buf>> \o <<>> = <<read_buf>>
              BY <1>1, <4>1, OneAhead
          <6>2. Readable = <<read_buf>> \o q /\ Len(q) \in Nat
            <7>1. Ahead = <<read_buf>> /\ Len(q) \in Nat
                BY <1>1, <4>1
            <7> QED
                BY <1>3, <7>1, Zenon
          <6> HIDE DEF q
          <6> QED
              BY <2>2, <4>1, <6>1, <6>2
        <5>2. Readable # <<>>
          <6>1. Len(<<>>) = 0
              OBVIOUS
          <6> HIDE DEF q
          <6> QED
              BY <5>1, <6>1
        <5>3. SubSeq(Readable, 1, 1) = <<Head(Readable)>> /\ 1 \in 0..Len(Readable)
            BY <5>1, <5>2, FirstOf
        <5>4. Readable' = SubSeq(Readable, 1, 1)
            BY <5>1, <5>3, Zenon
        <5> QED
            BY <5>3, <5>4
      <4>2. CASE io # "done"
        <5>1. Readable = q /\ Readable' = <<>>
            BY <1>1, <1>3, <2>2, <4>2
        <5>2. 0 \in 0..Len(q) /\ SubSeq(q, 1, 0) = <<>>
            BY <1>1
        <5> QED
            BY <5>1, <5>2
      <4> QED
          BY <4>1, <4>2
    <3> QED
        BY <2>1, <3>1, <3>2, ToGo
  <2> QED
      BY <2>3, <2>4
<1> QED
    BY <1>6, <1>7, <1>8, <1>9, <1>10, <1>11, <1>12, <1>13
       DEF WindowsStep, Windows!Opens, Windows!Begins, Windows!Goes,
           Windows!Device

\* Linux and libusb: the list is what can be read.
LEMMA ListReadable ==
    ASSUME backend # "windows", backend' # "windows"
    PROVE  Readable = input_reports /\ Readable' = input_reports'
BY DEF Readable, On

\* The device goes, and what waits stays.
LEMMA GoesWithList ==
    ASSUME input_reports \in Seq(1..sent), Readable = input_reports,
           Readable' = input_reports', UNCHANGED <<input_reports, sent, last>>,
           \/ Phase' = Phase
           \/ Phase = "open" /\ Phase' = "gone"
    PROVE  [Channel!Next]_(Channel!vars)
<1>1. CASE Phase' = Phase
    BY <1>1, ToStutter
<1>2. CASE Phase = "open" /\ Phase' = "gone"
  <2>1. /\ Len(input_reports) \in 0..Len(input_reports)
        /\ input_reports = SubSeq(input_reports, 1, Len(input_reports))
      OBVIOUS
  <2>2. \E n \in 0..Len(Readable) : Readable' = SubSeq(Readable, 1, n)
      BY <2>1
  <2> QED
      BY <1>2, <2>2, ToGo
<1> QED
    BY <1>1, <1>2

\* The list, with a report appended; one may have been pushed out.
LEMMA ArrivesInList ==
    ASSUME ReportTypes, Readable = input_reports, Readable' = input_reports',
           Phase = "open", Phase' = "open", sent' = sent + 1, last' = last,
           \/ input_reports' = Append(input_reports, sent + 1)
           \/ /\ Len(input_reports) >= Depth
              /\ input_reports' \in {input_reports,
                                     Tail(Append(input_reports, sent + 1))}
    PROVE  Channel!Next
<1> DEFINE all == Append(input_reports, sent + 1)
<1>1. /\ sent \in Nat /\ input_reports \in Seq(1..sent + 1)
      /\ sent + 1 \in 1..sent + 1
    BY ReportSteps
<1>2. all \in Seq(1..sent + 1) /\ Len(all) = Len(input_reports) + 1 /\ all # <<>>
    BY <1>1
<1>3. /\ 1 \in 1..Len(all) /\ Len(input_reports) + 1 \in 1..Len(all)
      /\ Without(all, 1) = Tail(all)
      /\ Without(all, Len(input_reports) + 1) = input_reports
  <2>1. Without(all, Len(input_reports) + 1) = input_reports
      BY <1>1, WithoutLast
  <2> HIDE DEF all
  <2>2. Without(all, 1) = Tail(all)
      BY <1>2, WithoutFirst
  <2>3. Len(input_reports) \in Nat
      BY <1>1
  <2> QED
      BY <1>2, <2>1, <2>2, <2>3
<1>4. \/ Readable' = all
      \/ /\ Len(Readable) >= Depth
         /\ \E i \in 1..Len(all) : Readable' = Without(all, i)
  <2> HIDE DEF all
  <2>1. CASE input_reports' = Append(input_reports, sent + 1)
      BY <2>1 DEF all
  <2>2. CASE Len(input_reports) >= Depth /\ input_reports' = input_reports
      BY <1>3, <2>2
  <2>3. CASE /\ Len(input_reports) >= Depth
             /\ input_reports' = Tail(Append(input_reports, sent + 1))
    <3>1. Readable' = Without(all, 1)
        BY <1>3, <2>3 DEF all
    <3> QED
        BY <1>3, <2>3, <3>1
  <2> QED
      BY <2>1, <2>2, <2>3
<1> QED
    BY <1>4, ToArrive

LEMMA LinuxChannel ==
    ASSUME DInv, LinuxStep
    PROVE  [Channel!Next]_(Channel!vars)
<1>1. /\ backend = "linux" /\ backend' = "linux" /\ ReportTypes
      /\ upc # "freed" /\ input_reports \in Seq(1..sent)
    BY DEF LinuxStep, DInv, NotLinked, ReportTypes
<1>2. /\ Readable = input_reports /\ Readable' = input_reports'
      /\ (HasGone <=> ~plugged) /\ (HasGone' <=> ~plugged')
    BY <1>1, ListReadable DEF HasGone, On
<1>3. PhaseLaw /\ PhaseLaw'
    BY PhaseHolds, PhaseHoldsNext
<1>4. ASSUME UNCHANGED <<plugged, input_reports, sent, last>>,
             \/ upc' = upc
             \/ upc = "new" /\ upc' = "failed"
             \/ upc \in Held /\ upc' \in Held
      PROVE  UNCHANGED Channel!vars
  <2>1. Phase' = Phase
      BY <1>2, <1>3, <1>4 DEF PhaseLaw, Held
  <2> QED
      BY <1>2, <1>4, <2>1, ToStutter
<1>5. CASE Linux!OpenPath
  <2>1. /\ upc = "new" /\ plugged /\ upc' = "idle"
        /\ UNCHANGED <<plugged, input_reports, sent, last>>
      BY <1>5 DEF Linux!OpenPath
  <2>2. Phase = "new" /\ Phase' = "open"
      BY <1>2, <1>3, <2>1 DEF PhaseLaw
  <2> QED
      BY <1>2, <2>1, <2>2, ToOpen
<1>6. CASE Linux!OpenFails
    BY <1>4, <1>6 DEF Linux!OpenFails
<1>7. CASE \/ \E t \in {"block", "timed", "poll"} : Linux!Read(t)
           \/ Linux!PollEnds \/ Linux!PollHangup \/ Linux!PollIn
           \/ Linux!Send \/ Linux!ReadFails
  <2>1. /\ UNCHANGED <<plugged, input_reports, sent, last>>
        /\ upc' = upc \/ (upc \in Held /\ upc' \in Held)
      BY <1>7, Zenon DEF Linux!Read, Linux!PollEnds, Linux!PollHangup,
                         Linux!PollIn, Linux!Send, Linux!ReadFails, Held,
                         UserPlaces
  <2> QED
      BY <1>4, <2>1
<1>8. CASE Linux!ReadReport
  <2>1. /\ upc = "read" /\ upc' = "idle" /\ input_reports # <<>>
        /\ last' = Head(input_reports) /\ input_reports' = Tail(input_reports)
        /\ UNCHANGED <<plugged, sent>>
      BY <1>8 DEF Linux!ReadReport
  <2>2. Phase \in {"open", "gone"} /\ Phase' = Phase
      BY <1>2, <1>3, <2>1 DEF PhaseLaw
  <2> QED
      BY <1>2, <2>1, <2>2, ToReceive
<1>9. CASE Linux!Close
  <2>1. /\ upc = "idle" /\ upc' = "closed" /\ input_reports' = <<>>
        /\ UNCHANGED <<plugged, sent, last>>
      BY <1>9 DEF Linux!Close
  <2>2. Phase \in {"open", "gone"} /\ Phase' = "closed"
      BY <1>2, <1>3, <2>1 DEF PhaseLaw
  <2> QED
      BY <1>2, <2>1, <2>2, ToClose
<1>10. CASE Linux!Arrive
  <2>1. /\ upc \notin {"new", "failed", "closed", "freed"} /\ upc' = upc
        /\ plugged /\ plugged' = plugged /\ sent' = sent + 1 /\ last' = last
        /\ input_reports' = IF Len(input_reports) < Ring
                            THEN Append(input_reports, sent + 1)
                            ELSE input_reports
      BY <1>1, <1>10 DEF Linux!Arrive
  <2>2. Phase = "open" /\ Phase' = "open"
      BY <1>2, <1>3, <2>1 DEF PhaseLaw
  <2>3. Len(input_reports) >= Ring => Len(input_reports) >= Depth
    <3>1. Len(input_reports) \in Nat /\ Ring \in Nat /\ Limit \in Nat
        BY <1>1, BackendsAssumption
    <3> QED
        BY <3>1 DEF Depth
  <2>4. \/ input_reports' = Append(input_reports, sent + 1)
        \/ Len(input_reports) >= Depth /\ input_reports' = input_reports
    <3>1. Len(input_reports) \in Nat /\ Ring \in Nat
        BY <1>1, BackendsAssumption
    <3> QED
        BY <2>1, <2>3, <3>1
  <2> QED
      BY <1>1, <1>2, <2>1, <2>2, <2>4, ArrivesInList
<1>11. CASE Linux!Unplug
  <2>1. /\ upc \notin {"failed", "closed"} /\ upc' = upc /\ plugged /\ ~plugged'
        /\ UNCHANGED <<input_reports, sent, last>>
      BY <1>11 DEF Linux!Unplug
  <2>2. Phase' = Phase \/ (Phase = "open" /\ Phase' = "gone")
      BY <1>1, <1>2, <1>3, <2>1 DEF PhaseLaw
  <2> QED
      BY <1>1, <1>2, <2>1, <2>2, GoesWithList
<1> QED
    BY <1>5, <1>6, <1>7, <1>8, <1>9, <1>10, <1>11
       DEF LinuxStep, Linux!Opens, Linux!Begins, Linux!Goes, Linux!ReadEnds,
           Linux!Device

\* libusb: no report comes any more once the device has gone and the last one
\* is in the list.
LEMMA StaysGone ==
    ASSUME LibusbStep, Libusb!Gone
    PROVE  Libusb!Gone'
<1>1. ~plugged /\ transfer \notin {"completed", "attached"}
    BY DEF Libusb!Gone
<1> SUFFICES ~plugged' /\ transfer' \notin {"completed", "attached"}
    BY DEF Libusb!Gone
<1> USE DEF Libusb!flags, Libusb!deviceVars
<1>2. CASE Libusb!Opens
    BY <1>1, <1>2 DEF Libusb!Opens, Libusb!Meet, Libusb!OpenReturns,
                             Libusb!OpenAgain
<1>3. CASE Libusb!Starts
    BY <1>1, <1>3 DEF Libusb!Starts, Libusb!OpenPath, Libusb!OpenFails
<1>4. CASE Libusb!Begins
    BY <1>1, <1>4 DEF Libusb!Begins, Libusb!Read, Libusb!Send,
                             Libusb!Close
<1>5. CASE Libusb!Goes
    BY <1>1, <1>5 DEF Libusb!Goes, Libusb!Sleep, Libusb!Cancelled,
                             Libusb!WaitTimesOut, Libusb!CloseCancels,
                             Libusb!Join
<1>6. CASE Libusb!TimedOut \/ Libusb!Woken
    BY <1>1, <1>6 DEF Libusb!TimedOut, Libusb!Woken
<1>7. CASE Libusb!ThreadStep
  <2>1. CASE Libusb!Submit \/ Libusb!Resubmit
    <3>1. transfer' \in {"idle", "flying"} /\ UNCHANGED plugged
        BY <2>1 DEF Libusb!Submit, Libusb!Resubmit, Libusb!Submitted
    <3> QED
        BY <1>1, <3>1
  <2>2. CASE Libusb!TestLoop \/ Libusb!Drained \/ Libusb!Stop \/ Libusb!Cancel
      BY <1>1, <2>2 DEF Libusb!TestLoop, Libusb!Drained, Libusb!Stop,
                               Libusb!Cancel, Libusb!Cancelled
  <2> QED
      BY <1>7, <2>1, <2>2 DEF Libusb!ThreadStep
<1>8. CASE Libusb!Callback \/ Libusb!Broadcast
    BY <1>1, <1>8 DEF Libusb!Callback, Libusb!Broadcast
<1>9. CASE Libusb!Device
    BY <1>1, <1>9 DEF Libusb!Device, Libusb!NoEvent, Libusb!Arrive,
                             Libusb!WakesSpuriously, Libusb!FiveSeconds,
                             Libusb!Unplug
<1> QED
    BY <1>2, <1>3, <1>4, <1>5, <1>6, <1>7, <1>8, <1>9
       DEF LibusbStep, Libusb!Next

LEMMA LibusbChannel ==
    ASSUME DInv, LibusbStep
    PROVE  [Channel!Next]_(Channel!vars)
<1>1. /\ backend = "libusb" /\ backend' = "libusb" /\ ReportTypes
      /\ upc \in UserPlaces /\ input_reports \in Seq(1..sent)
    BY DEF LibusbStep, DInv, ReportTypes, UserTypes
<1>2. /\ Readable = input_reports /\ Readable' = input_reports'
      /\ (HasGone <=> Libusb!Gone) /\ (HasGone' <=> Libusb!Gone')
    BY <1>1, ListReadable DEF HasGone, On
<1>3. PhaseLaw /\ PhaseLaw'
    BY PhaseHolds, PhaseHoldsNext
<1>4. CASE LibusbReads
  <2>1. /\ upc \in {"idle", "woken"} /\ upc' = "idle" /\ input_reports # <<>>
        /\ last' = Head(input_reports) /\ input_reports' = Tail(input_reports)
        /\ sent' = sent /\ (Libusb!Gone' <=> Libusb!Gone)
      BY <1>4, Zenon DEF LibusbReads, Libusb!Gone
  <2>2. Phase \in {"open", "gone"} /\ Phase' = Phase
      BY <1>2, <1>3, <2>1 DEF PhaseLaw
  <2> QED
      BY <1>2, <2>1, <2>2, ToReceive
<1>5. CASE LibusbEnds
  <2>1. /\ upc \in {"again", "join"} /\ upc' \in {"freed", "closed"}
        /\ input_reports' = <<>> /\ UNCHANGED <<sent, last>>
      BY <1>5 DEF LibusbEnds
  <2>2. Phase \in {"open", "gone"} /\ Phase' = "closed"
      BY <1>2, <1>3, <2>1 DEF PhaseLaw
  <2> QED
      BY <1>2, <2>1, <2>2, ToClose
<1>6. CASE LibusbOpens
  <2>1. /\ upc = "new" /\ upc' = "barrier" /\ ~Libusb!Gone'
        /\ UNCHANGED <<input_reports, sent, last>>
      BY <1>6 DEF LibusbOpens, Libusb!Gone
  <2>2. Phase = "new" /\ Phase' = "open"
      BY <1>2, <1>3, <2>1 DEF PhaseLaw
  <2> QED
      BY <1>2, <2>1, <2>2, ToOpen
<1>7. CASE Libusb!Callback
  <2>1. /\ upc \notin {"new", "failed", "freed", "closed"}
        /\ upc' = upc \/ upc' = "woken"
        /\ ~Libusb!Gone /\ ~Libusb!Gone'
        /\ sent' = sent + 1 /\ last' = last
        /\ input_reports' = Libusb!Attached(input_reports, sent + 1)
      BY <1>7 DEF Libusb!Callback, Libusb!Handling, Libusb!Runs, Libusb!Gone,
                  DInv, ThreadInOrder
  <2>2. Phase = "open" /\ Phase' = "open"
      BY <1>2, <1>3, <2>1 DEF PhaseLaw
  <2>3. \/ input_reports' = Append(input_reports, sent + 1)
        \/ /\ Len(input_reports) >= Depth
           /\ input_reports' = Tail(Append(input_reports, sent + 1))
    <3>1. Len(input_reports) \in Nat /\ Ring \in Nat /\ Limit \in Nat
        BY <1>1, BackendsAssumption
    <3>2. Len(input_reports) - 1 > Limit => Len(input_reports) >= Depth
        BY <3>1 DEF Depth
    <3> QED
        BY <2>1, <3>2 DEF Libusb!Attached
  <2> QED
      BY <1>1, <1>2, <2>1, <2>2, <2>3, ArrivesInList
<1>8. CASE LibusbGoesOn
  <2>1. Libusb!Gone => Libusb!Gone'
      BY StaysGone
  <2>2. Phase' = Phase \/ (Phase = "open" /\ Phase' = "gone")
      BY <1>2, <1>3, <1>8, <2>1 DEF PhaseLaw, LibusbGoesOn, Held, UserPlaces
  <2>3. UNCHANGED <<input_reports, sent, last>>
      BY <1>8 DEF LibusbGoesOn
  <2> QED
      BY <1>1, <1>2, <2>2, <2>3, GoesWithList
<1> QED
    BY <1>1, <1>4, <1>5, <1>6, <1>7, <1>8, LibusbEffects

LEMMA StillChannel == Still => UNCHANGED Channel!vars
BY DEF Still, dvars, winVars, usbVars, Channel!vars, HasGone, Readable, On,
       Libusb!Gone, Windows!Readable

LEMMA ChannelInit == Init => Channel!Init
<1> SUFFICES ASSUME Init PROVE Channel!Init
    OBVIOUS
<1>1. /\ upc = "new" /\ sent = 0 /\ last = 0 /\ input_reports = <<>>
      /\ io = "none"
    BY DEF Init, Windows!Init
<1>2. Readable = <<>>
    BY <1>1 DEF Readable, Windows!Readable
<1>3. Phase = "new"
    BY <1>1, PhaseHolds DEF PhaseLaw
<1> QED
    BY <1>1, <1>2, <1>3 DEF Channel!Init, Phase

\* ReportChannel: whichever hid.c is linked, a reader of the open device gets
\* its reports in order and each once, and none is lost while fewer wait than
\* the smaller of the limits of the lists: also when a read has timed out while
\* it runs, when the device goes, and when the device is freed under its read
\* thread.
THEOREM ChannelImplemented == Spec => ImplementsChannel
<1>1. DInv /\ [Next]_vars => [Channel!Next]_(Channel!vars)
    BY DeviceSteps, WindowsChannel, LinuxChannel, LibusbChannel, StillChannel
<1> QED
    BY DInvHolds, ChannelInit, <1>1, PTL
       DEF Spec, ImplementsChannel, Channel!Spec
=============================================================================

---------------------------- MODULE MacHidProofs ----------------------------
(***************************************************************************)
(* Safety of MacHid for every limit of the report list and every number of *)
(* reports, with or without spurious wakeups.                              *)
(***************************************************************************)
EXTENDS MacHid, SequenceTheorems, TLAPS

-----------------------------------------------------------------------------
(* Types.                                                                  *)

\* Where the two threads can be.
PcOK ==
    /\ pc \in [Threads -> UserPcs \union ThreadPcs]
    /\ pc["user"] \in UserPcs /\ pc["thread"] \in ThreadPcs

LEMMA GotoUser ==
    ASSUME PcOK, NEW place \in UserPcs, Goto("user", place)
    PROVE  PcOK' /\ pc'["user"] = place /\ pc'["thread"] = pc["thread"]
BY DEF PcOK, Goto, Threads

LEMMA GotoThread ==
    ASSUME PcOK, NEW place \in ThreadPcs, Goto("thread", place)
    PROVE  PcOK' /\ pc'["thread"] = place /\ pc'["user"] = pc["user"]
BY DEF PcOK, Goto, Threads

LEMMA WakeReaderStep ==
    ASSUME PcOK, NEW place \in ThreadPcs, WakeReader(place)
    PROVE  /\ PcOK'
           /\ pc'["thread"] = place
           /\ pc'["user"] = IF pc["user"] = "waiting" THEN "woken" ELSE pc["user"]
BY DEF PcOK, WakeReader, Threads, UserPcs

\* The barriers, of which each has two parties.
LEMMA BarrierPcs ==
    ASSUME PcOK, NEW p \in Threads, NEW b \in Barriers, BarrierWait(p, b),
           arrived \in [Barriers -> 0..1]
    PROVE  /\ PcOK'
           /\ arrived' \in [Barriers -> 0..1]
           /\ \A c \in Barriers : c # b => arrived'[c] = arrived[c]
           /\ \/ /\ arrived[b] = 0 /\ arrived'[b] = 1
                 /\ pc'[p] = Waiting[b]
                 /\ \A q \in Threads : q # p => pc'[q] = pc[q]
              \/ /\ arrived[b] = 1 /\ arrived'[b] = 0
                 /\ pc'[p] = After[b][p]
                 /\ \A q \in Threads :
                      q # p => pc'[q] = IF pc[q] = Waiting[b] THEN After[b][q]
                                                              ELSE pc[q]
<1>1. arrived[b] \in {0, 1}
    BY DEF Barriers
<1>2. CASE arrived[b] = 0
    BY <1>2 DEF BarrierWait, Goto, PcOK, Threads, Barriers, Waiting, UserPcs,
                ThreadPcs
<1>3. CASE arrived[b] = 1
    BY <1>3 DEF BarrierWait, PcOK, Threads, Barriers, Waiting, After, UserPcs,
                ThreadPcs
<1> QED
    BY <1>1, <1>2, <1>3

LEMMA SpuriousPcs ==
    ASSUME PcOK, NEW p \in Threads, NEW b \in Barriers, BarrierSpurious(p, b)
    PROVE  /\ PcOK'
           /\ pc[p] = Waiting[b] /\ pc'[p] = After[b][p]
           /\ \A q \in Threads : q # p => pc'[q] = pc[q]
           /\ early' = early \union {b}
           /\ UNCHANGED <<mutex, input_reports, flags, loopVars, readVars,
                          deviceVars, arrived>>
BY DEF BarrierSpurious, Goto, PcOK, Threads, Barriers, After, Waiting, UserPcs,
       ThreadPcs

-----------------------------------------------------------------------------
\* What is said of the variables apart from pc.
FlagsOK ==
    /\ mutex \in {"free", "user"}
    /\ disconnected \in BOOLEAN /\ shutdown_thread \in BOOLEAN
    /\ source \in BOOLEAN /\ run_loop \in BOOLEAN
    /\ arrived \in [Barriers -> 0..1]
    /\ signalled \in BOOLEAN /\ wakeup \in BOOLEAN
    /\ plugged \in BOOLEAN /\ registered \in BOOLEAN
    /\ early \subseteq Barriers

ReportsOK ==
    /\ input_reports \in Seq(1..sent)
    /\ sent \in 0..NumReports /\ last \in 0..sent
    /\ timeout \in {"block", "timed", "poll"}
    /\ result \in {"none", "null", "open", "data", "nothing", "error", "written"}

LEMMA TypeParts == TypeOK <=> PcOK /\ FlagsOK /\ ReportsOK
BY DEF TypeOK, PcOK, FlagsOK, ReportsOK

LEMMA TypeInit == Init => TypeOK
<1> SUFFICES ASSUME Init PROVE TypeOK
    OBVIOUS
<1>1. PcOK
    BY DEF Init, PcOK, Threads, UserPcs, ThreadPcs
<1>2. FlagsOK
  <2>1. arrived \in [Barriers -> 0..1] /\ early \subseteq Barriers
      BY DEF Init
  <2> QED
      BY <2>1 DEF Init, FlagsOK
<1>3. ReportsOK
    BY MacHidAssumption DEF Init, ReportsOK
<1> QED
    BY <1>1, <1>2, <1>3, TypeParts

\* Each thread goes from where it is to another of its places.
LEMMA PcStep == TypeOK /\ [Next]_vars => PcOK'
<1> SUFFICES ASSUME PcOK, FlagsOK, [Next]_vars PROVE PcOK'
    BY TypeParts
<1>1. CASE ThreadStep
  <2>1. ASSUME NEW b \in Barriers, BarrierWait("thread", b) PROVE PcOK'
      BY <2>1, BarrierPcs DEF FlagsOK, Threads
  <2>2. CASE CreateSource \/ StoreRunLoop \/ TestLoop \/ RunLoopSleeps
      BY <2>2, GotoThread DEF CreateSource, StoreRunLoop, TestLoop,
                              RunLoopSleeps, ThreadPcs
  <2>3. CASE RunLoopWakes \/ PerformSignal \/ RemovalCallback \/ RunLoopStopped
      BY <2>3, GotoThread DEF RunLoopWakes, PerformSignal, RemovalCallback,
                              RunLoopStopped, ThreadPcs
  <2> QED
      BY <1>1, <2>1, <2>2, <2>3 DEF ThreadStep
<1>2. CASE Broadcast
    BY <1>2, WakeReaderStep DEF Broadcast, ThreadPcs
<1>3. CASE UserStep
  <2>1. ASSUME NEW b \in Barriers, BarrierWait("user", b) PROVE PcOK'
      BY <2>1, BarrierPcs DEF FlagsOK, Threads
  <2>2. CASE Sleep \/ WaitTimesOut \/ TimedOut \/ SendNow
      BY <2>2, GotoUser DEF Sleep, WaitTimesOut, TimedOut, SendNow, Return,
                            UserPcs
  <2>3. CASE Woken
      BY <2>3, GotoUser DEF Woken, Return, UserPcs
  <2>4. CASE SetShutdown \/ SignalSource \/ WakeUp
      BY <2>4, GotoUser DEF SetShutdown, SignalSource, WakeUp, UserPcs
  <2>5. CASE Join \/ CloseHandle \/ ClearAndFree
      BY <2>5, GotoUser DEF Join, CloseHandle, ClearAndFree, UserPcs
  <2> QED
      BY <1>3, <2>1, <2>2, <2>3, <2>4, <2>5 DEF UserStep
<1>4. CASE Unforced
  <2>1. CASE OpenFails \/ Unplug
      BY <2>1 DEF OpenFails, Unplug, PcOK
  <2>2. CASE OpenPath
      BY <2>2 DEF OpenPath, PcOK, Threads, UserPcs, ThreadPcs
  <2>3. CASE Send \/ CloseBegins \/ WakesSpuriously
      BY <2>3, GotoUser DEF Send, CloseBegins, WakesSpuriously, Return, UserPcs
  <2>4. ASSUME NEW t \in {"block", "timed", "poll"}, Read(t) PROVE PcOK'
    <3>1. CASE UNCHANGED pc
        BY <3>1 DEF PcOK
    <3>2. CASE Goto("user", "idle") \/ Goto("user", "sleep")
        BY <3>2, GotoUser DEF UserPcs
    <3> QED
        BY <2>4, <3>1, <3>2 DEF Read, Return
  <2>5. CASE ReportCallback
      BY <2>5, WakeReaderStep DEF ReportCallback, ThreadPcs
  <2>6. CASE RunLoopTimesOut \/ RunLoopFinished
      BY <2>6, GotoThread DEF RunLoopTimesOut, RunLoopFinished, ThreadPcs
  <2>7. ASSUME NEW p \in Threads, NEW b \in Barriers, BarrierSpurious(p, b)
        PROVE  PcOK'
      BY <2>7, SpuriousPcs
  <2> QED
      BY <1>4, <2>1, <2>2, <2>3, <2>4, <2>5, <2>6, <2>7 DEF Unforced
<1>5. CASE Terminating \/ UNCHANGED vars
    BY <1>5 DEF Terminating, vars, PcOK
<1> QED
    BY <1>1, <1>2, <1>3, <1>4, <1>5 DEF Next

LEMMA FlagsStep == TypeOK /\ [Next]_vars => FlagsOK'
<1> SUFFICES ASSUME PcOK, FlagsOK, [Next]_vars PROVE FlagsOK'
    BY TypeParts
<1> USE DEF FlagsOK, flags, loopVars, barrierVars, deviceVars
<1>1. CASE ThreadStep
  <2>1. ASSUME NEW b \in Barriers, BarrierWait("thread", b) PROVE FlagsOK'
      BY <2>1, BarrierPcs DEF BarrierWait, Threads
  <2>2. CASE CreateSource
      BY <2>2 DEF CreateSource
  <2>3. CASE StoreRunLoop
      BY <2>3 DEF StoreRunLoop
  <2>4. CASE TestLoop \/ RunLoopSleeps
      BY <2>4 DEF TestLoop, RunLoopSleeps
  <2>5. CASE RunLoopWakes
      BY <2>5 DEF RunLoopWakes
  <2>6. CASE PerformSignal
      BY <2>6 DEF PerformSignal
  <2>7. CASE RemovalCallback \/ RunLoopStopped
      BY <2>7 DEF RemovalCallback, RunLoopStopped
  <2> QED
      BY <1>1, <2>1, <2>2, <2>3, <2>4, <2>5, <2>6, <2>7 DEF ThreadStep
<1>2. CASE Broadcast
    BY <1>2 DEF Broadcast
<1>3. CASE UserStep
  <2>1. ASSUME NEW b \in Barriers, BarrierWait("user", b) PROVE FlagsOK'
      BY <2>1, BarrierPcs DEF BarrierWait, Threads
  <2>2. CASE Sleep \/ WaitTimesOut \/ TimedOut \/ Woken
      BY <2>2 DEF Sleep, WaitTimesOut, TimedOut, Woken
  <2>3. CASE SendNow \/ SetShutdown
      BY <2>3 DEF SendNow, SetShutdown
  <2>4. CASE SignalSource
      BY <2>4 DEF SignalSource
  <2>5. CASE WakeUp
      BY <2>5 DEF WakeUp
  <2>6. CASE Join \/ CloseHandle \/ ClearAndFree
      BY <2>6 DEF Join, CloseHandle, ClearAndFree
  <2> QED
      BY <1>3, <2>1, <2>2, <2>3, <2>4, <2>5, <2>6 DEF UserStep
<1>4. CASE Unforced
  <2>1. CASE OpenFails \/ Unplug \/ OpenPath
      BY <2>1 DEF OpenFails, Unplug, OpenPath
  <2>2. CASE Send \/ WakesSpuriously
      BY <2>2 DEF Send, WakesSpuriously
  <2>3. CASE CloseBegins
      BY <2>3 DEF CloseBegins
  <2>4. ASSUME NEW t \in {"block", "timed", "poll"}, Read(t) PROVE FlagsOK'
      BY <2>4 DEF Read
  <2>5. CASE ReportCallback
      BY <2>5 DEF ReportCallback
  <2>6. CASE RunLoopTimesOut \/ RunLoopFinished
      BY <2>6 DEF RunLoopTimesOut, RunLoopFinished
  <2>7. ASSUME NEW p \in Threads, NEW b \in Barriers, BarrierSpurious(p, b)
        PROVE  FlagsOK'
      BY <2>7, SpuriousPcs
  <2> QED
      BY <1>4, <2>1, <2>2, <2>3, <2>4, <2>5, <2>6, <2>7 DEF Unforced
<1>5. CASE Terminating \/ UNCHANGED vars
    BY <1>5 DEF Terminating, vars
<1> QED
    BY <1>1, <1>2, <1>3, <1>4, <1>5 DEF Next

\* The list after a report holds reports that have arrived.
LEMMA AttachedIn ==
    ASSUME NEW n \in Nat, NEW rpts \in Seq(1..n)
    PROVE  Attached(rpts, n + 1) \in Seq(1..(n + 1))
<1>1. rpts \in Seq(1..(n + 1)) /\ n + 1 \in 1..(n + 1)
  <2>1. \A i \in 1..Len(rpts) : rpts[i] \in 1..(n + 1)
      OBVIOUS
  <2> QED
      BY <2>1
<1> DEFINE S == 1..(n + 1)
<1>2. Append(rpts, n + 1) \in Seq(S) /\ Append(rpts, n + 1) # <<>>
  <2>1. rpts \in Seq(S) /\ n + 1 \in S
      BY <1>1
  <2> HIDE DEF S
  <2> QED
      BY <2>1, AppendProperties
<1>3. Tail(Append(rpts, n + 1)) \in Seq(S)
  <2> HIDE DEF S
  <2> QED
      BY <1>2, HeadTailProperties
<1> QED
    BY <1>2, <1>3 DEF Attached

LEMMA ReportsStep == TypeOK /\ [Next]_vars => ReportsOK'
<1> SUFFICES ASSUME ReportsOK, [Next]_vars PROVE ReportsOK'
    BY TypeParts
<1>a. sent \in Nat /\ NumReports \in Nat
    BY MacHidAssumption DEF ReportsOK
<1>b. ASSUME UNCHANGED <<input_reports, readVars, deviceVars>> PROVE ReportsOK'
    BY <1>b DEF ReportsOK, readVars, deviceVars
<1>c. ASSUME NEW value \in {"nothing", "error", "written"}, Return(value),
             UNCHANGED <<timeout, sent>>
      PROVE  ReportsOK'
    BY <1>c DEF ReportsOK, Return
<1>d. ASSUME input_reports # <<>>, ReturnData, sent' = sent,
             timeout' \in {"block", "timed", "poll"}
      PROVE  ReportsOK'
  <2>1. Head(input_reports) \in 1..sent /\ Tail(input_reports) \in Seq(1..sent)
      BY <1>d DEF ReportsOK
  <2> QED
      BY <1>d, <2>1, <1>a DEF ReportsOK, ReturnData
<1>1. CASE ThreadStep
    BY <1>1, <1>b DEF ThreadStep, BarrierWait, CreateSource, StoreRunLoop,
        TestLoop, RunLoopSleeps, RunLoopWakes, PerformSignal, RemovalCallback,
        RunLoopStopped
<1>2. CASE Broadcast
    BY <1>2, <1>b DEF Broadcast
<1>3. CASE UserStep
  <2>1. CASE \E b \in Barriers : BarrierWait("user", b)
      BY <2>1, <1>b DEF BarrierWait
  <2>2. CASE Sleep \/ WaitTimesOut
      BY <2>2, <1>b DEF Sleep, WaitTimesOut
  <2>3. CASE Woken
      BY <2>3, <1>b, <1>c, <1>d DEF Woken, deviceVars, readVars, ReportsOK
  <2>4. CASE TimedOut
      BY <2>4, <1>b, <1>c, <1>d DEF TimedOut, deviceVars, readVars, ReportsOK
  <2>5. CASE SendNow
      BY <2>5, <1>c DEF SendNow, deviceVars
  <2>6. CASE SetShutdown \/ SignalSource \/ WakeUp \/ Join \/ CloseHandle
      BY <2>6, <1>b DEF SetShutdown, SignalSource, WakeUp, Join, CloseHandle
  <2>7. CASE ClearAndFree
      BY <2>7 DEF ClearAndFree, ReportsOK, readVars, deviceVars
  <2> QED
      BY <1>3, <2>1, <2>2, <2>3, <2>4, <2>5, <2>6, <2>7 DEF UserStep
<1>4. CASE Unforced
  <2>1. CASE OpenFails \/ OpenPath
      BY <2>1 DEF OpenFails, OpenPath, ReportsOK, deviceVars
  <2>2. CASE Send
      BY <2>2, <1>c, <1>b DEF Send, deviceVars, readVars
  <2>3. CASE CloseBegins \/ RunLoopTimesOut \/ RunLoopFinished \/ WakesSpuriously
      BY <2>3, <1>b DEF CloseBegins, RunLoopTimesOut, RunLoopFinished,
                        WakesSpuriously
  <2>4. ASSUME NEW t \in {"block", "timed", "poll"}, Read(t) PROVE ReportsOK'
    <3>1. CASE input_reports # <<>>
        BY <2>4, <3>1, <1>d DEF Read, deviceVars
    <3>2. CASE input_reports = <<>>
        BY <2>4, <3>2 DEF Read, deviceVars, Return, ReportsOK
    <3> QED
        BY <3>1, <3>2
  <2>5. CASE ReportCallback
    <3>1. /\ sent' = sent + 1 /\ sent < NumReports
          /\ input_reports' = Attached(input_reports, sent + 1)
          /\ UNCHANGED <<timeout, result, last>>
        BY <2>5 DEF ReportCallback, readVars
    <3>2. input_reports' \in Seq(1..sent')
        BY <3>1, <1>a, AttachedIn DEF ReportsOK
    <3> QED
        BY <3>1, <3>2, <1>a DEF ReportsOK
  <2>6. CASE Unplug
      BY <2>6 DEF Unplug, ReportsOK, readVars
  <2>7. CASE \E p \in Threads, b \in Barriers : BarrierSpurious(p, b)
      BY <2>7, <1>b DEF BarrierSpurious
  <2> QED
      BY <1>4, <2>1, <2>2, <2>3, <2>4, <2>5, <2>6, <2>7 DEF Unforced
<1>5. CASE Terminating \/ UNCHANGED vars
    BY <1>5, <1>b DEF Terminating, vars, readVars, deviceVars
<1> QED
    BY <1>1, <1>2, <1>3, <1>4, <1>5 DEF Next

LEMMA TypeStep == TypeOK /\ [Next]_vars => TypeOK'
BY PcStep, FlagsStep, ReportsStep, TypeParts DEF TypeOK, PcOK, FlagsOK, ReportsOK

\* Every variable of the open device has its type; the list holds reports that
\* have arrived, and the barriers count to one.
THEOREM TypeCorrect == Spec => []TypeOK
BY TypeInit, TypeStep, PTL DEF Spec

-----------------------------------------------------------------------------
(* The invariant.  Each barrier is described by its count and the places of *)
(* the two threads around it; nothing is said of one that has been left    *)
(* early.                                                                  *)

NotYetStarted == {"none", "schedule", "runLoop", "start"}
NotYetOpen == {"new", "start", "startWait"}
Joined == {"join", "closeHandle", "clear", "closed"}

\* The startup barrier: before it, at it with one of the two waiting, past it.
StartBarrier ==
    \/ "start" \in early
    \/ /\ pc["user"] \in {"new", "start"} /\ pc["thread"] \in NotYetStarted
       /\ arrived["start"] = 0
    \/ /\ pc["user"] = "startWait" /\ pc["thread"] \in NotYetStarted
       /\ arrived["start"] = 1
    \/ /\ pc["user"] = "start" /\ pc["thread"] = "startWait"
       /\ arrived["start"] = 1
    \/ /\ pc["user"] \notin NotYetOpen
       /\ pc["thread"] \notin NotYetStarted \union {"startWait"}
       /\ arrived["start"] = 0

\* The shutdown barrier, likewise.
ShutdownBarrier ==
    \/ "shutdown" \in early
    \/ /\ pc["user"] \notin Joined \union {"shutdownWait"}
       /\ pc["thread"] \notin {"shutdownWait", "ended"}
       /\ arrived["shutdown"] = 0
    \/ /\ pc["user"] = "shutdownWait"
       /\ pc["thread"] \notin {"shutdownWait", "ended"}
       /\ arrived["shutdown"] = 1
    \/ /\ pc["user"] \notin Joined \union {"shutdownWait"}
       /\ pc["thread"] = "shutdownWait"
       /\ arrived["shutdown"] = 1
    \/ /\ pc["user"] \in Joined /\ pc["thread"] = "ended"
       /\ arrived["shutdown"] = 0

\* There is a read thread once the device is open, and none when its memory is
\* given back.
ThreadLives ==
    /\ pc["user"] = "new" <=> pc["thread"] = "none"
    /\ pc["user"] \in {"closeHandle", "clear", "closed"} => pc["thread"] = "ended"

\* What the read thread has created by the place where it is.
Created ==
    /\ pc["thread"] \notin {"none", "schedule"} => source
    /\ pc["thread"] \notin {"none", "schedule", "runLoop"} => run_loop
    /\ pc["user"] = "crashed" => "start" \in early

\* What puts a flag up, and each thing on the way to it.
Alarm ==
    /\ disconnected => ~plugged
    /\ shutdown_thread \/ pc["thread"] = "stopped" =>
         ~plugged \/ pc["user"] \in Closing
    /\ signalled => pc["user"] \in Closing

IInv == TypeOK /\ StartBarrier /\ ShutdownBarrier /\ ThreadLives /\ Created /\ Alarm

LEMMA IInvInit == Init => IInv
<1> SUFFICES ASSUME Init PROVE IInv
    OBVIOUS
<1>1. TypeOK
    BY TypeInit
<1>2. StartBarrier /\ ShutdownBarrier
    BY DEF Init, StartBarrier, ShutdownBarrier, NotYetStarted, Joined, Barriers
<1>3. ThreadLives /\ Created /\ Alarm
    BY DEF Init, ThreadLives, Created, Alarm
<1> QED
    BY <1>1, <1>2, <1>3 DEF IInv

\* The places that a step joins when no thread is at a barrier, and none opens
\* the device.
Ordinary ==
    LET u == pc["user"]   t == pc["thread"]
        v == pc'["user"]  w == pc'["thread"]
    IN  /\ UNCHANGED <<arrived, early>>
        /\ \/ v = u
           \/ /\ u \in UserPcs \ (NotYetOpen \union Joined \union
                                    {"shutdown", "shutdownWait", "crashed"})
              /\ v \in UserPcs \ (NotYetOpen \union Joined \union
                                    {"shutdownWait", "crashed"})
              /\ u \in Closing => v \in Closing
              /\ w = t
           \/ u = "waiting" /\ v = "woken"
           \/ u = "signal" /\ ~source /\ v = "crashed" /\ w = t
           \/ u = "wakeUp" /\ ~run_loop /\ v = "crashed" /\ w = t
           \/ u = "join" /\ t = "ended" /\ v = "closeHandle" /\ w = t
           \/ u = "closeHandle" /\ v = "clear" /\ w = t
           \/ u = "clear" /\ v = "closed" /\ w = t
        /\ \/ w = t
           \/ t = "schedule" /\ w = "runLoop" /\ source'
           \/ t = "runLoop" /\ w = "start" /\ run_loop'
           \/ /\ t \in ThreadPcs \ (NotYetStarted \union
                                     {"startWait", "shutdown", "shutdownWait", "ended"})
              /\ w \in ThreadPcs \ (NotYetStarted \union
                                     {"startWait", "shutdownWait", "ended"})

LEMMA OrdinaryOrNot ==
    ASSUME TypeOK, [Next]_vars
    PROVE  \/ Ordinary
           \/ OpenPath
           \/ \E p \in Threads, b \in Barriers : BarrierWait(p, b)
           \/ \E p \in Threads, b \in Barriers : BarrierSpurious(p, b)
<1> USE DEF barrierVars
<1>a. PcOK
    BY TypeParts
<1>1. CASE ThreadStep
  <2>1. CASE \E b \in Barriers : BarrierWait("thread", b)
      BY <2>1 DEF Threads
  <2>2. CASE CreateSource
      BY <2>2, <1>a, GotoThread DEF CreateSource, Ordinary, ThreadPcs
  <2>3. CASE StoreRunLoop
      BY <2>3, <1>a, GotoThread DEF StoreRunLoop, Ordinary, ThreadPcs
  <2>4. CASE TestLoop \/ RunLoopSleeps \/ RunLoopWakes
      BY <2>4, <1>a, GotoThread DEF TestLoop, RunLoopSleeps, RunLoopWakes,
                Ordinary, ThreadPcs, NotYetStarted
  <2>5. CASE PerformSignal \/ RemovalCallback \/ RunLoopStopped
      BY <2>5, <1>a, GotoThread DEF PerformSignal, RemovalCallback, InRunLoop,
                RunLoopStopped, Ordinary, ThreadPcs, NotYetStarted
  <2> QED
      BY <1>1, <2>1, <2>2, <2>3, <2>4, <2>5 DEF ThreadStep
<1>2. CASE Broadcast
    BY <1>2, <1>a, WakeReaderStep
       DEF Broadcast, Ordinary, ThreadPcs, NotYetStarted
<1>3. CASE UserStep
  <2> USE DEF Ordinary, UserPcs, NotYetOpen, Joined, Closing
  <2>1. CASE \E b \in Barriers : BarrierWait("user", b)
      BY <2>1 DEF Threads
  <2>2. CASE Sleep \/ WaitTimesOut
      BY <2>2, <1>a, GotoUser DEF Sleep, WaitTimesOut
  <2>3. CASE Woken
      BY <2>3, <1>a, GotoUser DEF Woken, Return
  <2>4. CASE TimedOut \/ SendNow
      BY <2>4, <1>a, GotoUser DEF TimedOut, SendNow, Return
  <2>5. CASE SetShutdown
      BY <2>5, <1>a, GotoUser DEF SetShutdown
  <2>6. CASE SignalSource
      BY <2>6, <1>a, GotoUser DEF SignalSource
  <2>7. CASE WakeUp
      BY <2>7, <1>a, GotoUser DEF WakeUp
  <2>8. CASE Join \/ CloseHandle \/ ClearAndFree
      BY <2>8, <1>a, GotoUser DEF Join, CloseHandle, ClearAndFree
  <2> QED
      BY <1>3, <2>1, <2>2, <2>3, <2>4, <2>5, <2>6, <2>7, <2>8 DEF UserStep
<1>4. CASE Unforced
  <2>1. CASE OpenFails \/ Unplug
      BY <2>1 DEF OpenFails, Unplug, Ordinary
  <2>2. CASE Send \/ CloseBegins \/ WakesSpuriously
      BY <2>2, <1>a, GotoUser DEF Send, CloseBegins, WakesSpuriously, Return,
                Ordinary, UserPcs, NotYetOpen, Joined, Closing
  <2>3. ASSUME NEW t \in {"block", "timed", "poll"}, Read(t) PROVE Ordinary
    <3>1. CASE UNCHANGED pc
        BY <2>3, <3>1 DEF Read, Ordinary
    <3>2. CASE Goto("user", "idle") \/ Goto("user", "sleep")
        BY <2>3, <3>2, <1>a, GotoUser DEF Read, Ordinary, UserPcs, NotYetOpen,
                  Joined, Closing
    <3> QED
        BY <2>3, <3>1, <3>2 DEF Read, Return
  <2>4. CASE ReportCallback
      BY <2>4, <1>a, WakeReaderStep
         DEF ReportCallback, InRunLoop, Ordinary, ThreadPcs, NotYetStarted
  <2>5. CASE RunLoopTimesOut \/ RunLoopFinished
      BY <2>5, <1>a, GotoThread DEF RunLoopTimesOut, RunLoopFinished, InRunLoop,
                Ordinary, ThreadPcs, NotYetStarted
  <2> QED
      BY <1>4, <2>1, <2>2, <2>3, <2>4, <2>5 DEF Unforced
<1>5. CASE Terminating \/ UNCHANGED vars
    BY <1>5 DEF Terminating, vars, Ordinary
<1> QED
    BY <1>1, <1>2, <1>3, <1>4, <1>5 DEF Next

\* A barrier is joined by both threads or by one.
LEMMA BarrierStep ==
    ASSUME TypeOK, NEW p \in Threads, NEW b \in Barriers, BarrierWait(p, b)
    PROVE  /\ pc[p] = b
           /\ UNCHANGED <<early, source, run_loop, signalled, disconnected,
                          shutdown_thread, plugged>>
           /\ \A c \in Barriers : c # b => arrived'[c] = arrived[c]
           /\ \/ /\ arrived[b] = 0 /\ arrived'[b] = 1
                 /\ pc'[p] = Waiting[b]
                 /\ \A q \in Threads : q # p => pc'[q] = pc[q]
              \/ /\ arrived[b] = 1 /\ arrived'[b] = 0
                 /\ pc'[p] = After[b][p]
                 /\ \A q \in Threads :
                      q # p => pc'[q] = IF pc[q] = Waiting[b] THEN After[b][q]
                                                              ELSE pc[q]
<1>1. PcOK /\ arrived \in [Barriers -> 0..1]
    BY TypeParts DEF FlagsOK
<1>2. /\ pc[p] = b
      /\ UNCHANGED <<early, source, run_loop, signalled, disconnected,
                     shutdown_thread, plugged>>
    BY DEF BarrierWait, flags, loopVars, deviceVars
<1> QED
    BY <1>1, <1>2, BarrierPcs

LEMMA StartBarrierStep == IInv /\ [Next]_vars => StartBarrier'
<1> SUFFICES ASSUME IInv, [Next]_vars, "start" \notin early PROVE StartBarrier'
  <2>1. ASSUME "start" \in early, [Next]_vars, TypeOK PROVE "start" \in early'
      BY <2>1, OrdinaryOrNot, SpuriousPcs, BarrierStep, TypeParts
         DEF Ordinary, OpenPath, barrierVars
  <2> QED
      BY <2>1 DEF StartBarrier, IInv
<1>t. TypeOK /\ PcOK /\ StartBarrier /\ ThreadLives
    BY TypeParts DEF IInv
<1> USE DEF StartBarrier, NotYetStarted, NotYetOpen
<1>1. CASE Ordinary
    BY <1>1, <1>t DEF Ordinary, UserPcs, ThreadPcs, Joined
<1>2. CASE OpenPath
    BY <1>2, <1>t DEF OpenPath, barrierVars
<1>3. ASSUME NEW p \in Threads, NEW b \in Barriers, BarrierWait(p, b)
      PROVE  StartBarrier'
  <2>1. CASE b = "start"
    <3>1. CASE p = "user"
        BY <1>3, <2>1, <3>1, <1>t, BarrierStep DEF Threads, After, Waiting
    <3>2. CASE p = "thread"
        BY <1>3, <2>1, <3>2, <1>t, BarrierStep DEF Threads, After, Waiting, ThreadLives
    <3> QED
        BY <3>1, <3>2 DEF Threads
  <2>2. CASE b = "shutdown"
    <3>1. CASE p = "user"
        BY <1>3, <2>2, <3>1, <1>t, BarrierStep DEF Threads, Barriers, After, Waiting
    <3>2. CASE p = "thread"
        BY <1>3, <2>2, <3>2, <1>t, BarrierStep DEF Threads, Barriers, After, Waiting
    <3> QED
        BY <3>1, <3>2 DEF Threads
  <2> QED
      BY <2>1, <2>2 DEF Barriers
<1>4. ASSUME NEW p \in Threads, NEW b \in Barriers, BarrierSpurious(p, b)
      PROVE  StartBarrier'
    BY <1>4, <1>t, SpuriousPcs DEF Threads, Barriers, After, Waiting
<1> QED
    BY <1>t, <1>1, <1>2, <1>3, <1>4, OrdinaryOrNot

LEMMA ShutdownBarrierStep == IInv /\ [Next]_vars => ShutdownBarrier'
<1> SUFFICES ASSUME IInv, [Next]_vars, "shutdown" \notin early
             PROVE  ShutdownBarrier'
  <2>1. ASSUME "shutdown" \in early, [Next]_vars, TypeOK
        PROVE  "shutdown" \in early'
      BY <2>1, OrdinaryOrNot, SpuriousPcs, BarrierStep, TypeParts
         DEF Ordinary, OpenPath, barrierVars
  <2> QED
      BY <2>1 DEF ShutdownBarrier, IInv
<1>t. TypeOK /\ PcOK /\ ShutdownBarrier /\ ThreadLives
    BY TypeParts DEF IInv
<1> USE DEF ShutdownBarrier, Joined
<1>1. CASE Ordinary
    BY <1>1, <1>t DEF Ordinary, UserPcs, ThreadPcs, NotYetOpen, NotYetStarted
<1>2. CASE OpenPath
    BY <1>2, <1>t DEF OpenPath, barrierVars, ThreadLives
<1>3. ASSUME NEW p \in Threads, NEW b \in Barriers, BarrierWait(p, b)
      PROVE  ShutdownBarrier'
  <2>1. CASE b = "start"
    <3>1. CASE p = "user"
        BY <1>3, <2>1, <3>1, <1>t, BarrierStep DEF Threads, Barriers, After, Waiting
    <3>2. CASE p = "thread"
        BY <1>3, <2>1, <3>2, <1>t, BarrierStep DEF Threads, Barriers, After, Waiting
    <3> QED
        BY <3>1, <3>2 DEF Threads
  <2>2. CASE b = "shutdown"
    <3>1. CASE p = "user"
        BY <1>3, <2>2, <3>1, <1>t, BarrierStep DEF Threads, After, Waiting
    <3>2. CASE p = "thread"
        BY <1>3, <2>2, <3>2, <1>t, BarrierStep DEF Threads, After, Waiting
    <3> QED
        BY <3>1, <3>2 DEF Threads
  <2> QED
      BY <2>1, <2>2 DEF Barriers
<1>4. ASSUME NEW p \in Threads, NEW b \in Barriers, BarrierSpurious(p, b)
      PROVE  ShutdownBarrier'
    BY <1>4, <1>t, SpuriousPcs DEF Threads, Barriers, After, Waiting
<1> QED
    BY <1>t, <1>1, <1>2, <1>3, <1>4, OrdinaryOrNot

LEMMA ThreadLivesStep == IInv /\ [Next]_vars => ThreadLives'
<1> SUFFICES ASSUME IInv, [Next]_vars PROVE ThreadLives'
    OBVIOUS
<1>t. TypeOK /\ PcOK /\ ThreadLives
    BY TypeParts DEF IInv
<1> USE DEF ThreadLives
<1>1. CASE Ordinary
    BY <1>1, <1>t DEF Ordinary, UserPcs, ThreadPcs, NotYetOpen, NotYetStarted, Joined
<1>2. CASE OpenPath
    BY <1>2 DEF OpenPath
<1>3. ASSUME NEW p \in Threads, NEW b \in Barriers, BarrierWait(p, b)
      PROVE  ThreadLives'
  <2>1. CASE p = "user"
      BY <1>3, <2>1, <1>t, BarrierStep DEF Threads, Barriers, After, Waiting
  <2>2. CASE p = "thread"
      BY <1>3, <2>2, <1>t, BarrierStep DEF Threads, Barriers, After, Waiting
  <2> QED
      BY <2>1, <2>2 DEF Threads
<1>4. ASSUME NEW p \in Threads, NEW b \in Barriers, BarrierSpurious(p, b)
      PROVE  ThreadLives'
    BY <1>4, <1>t, SpuriousPcs DEF Threads, Barriers, After, Waiting
<1> QED
    BY <1>t, <1>1, <1>2, <1>3, <1>4, OrdinaryOrNot

\* What each flag can come from.
Causes ==
    /\ plugged' => plugged
    /\ source => source'
    /\ run_loop => run_loop'
    /\ disconnected' => disconnected \/ ~plugged
    /\ shutdown_thread' =>
         shutdown_thread \/ pc["thread"] = "stopped" \/ pc["user"] \in Closing
    /\ signalled' => signalled \/ pc["user"] \in Closing
    /\ pc'["thread"] = "stopped" =>
         pc["thread"] = "stopped" \/ signalled \/ ~plugged

LEMMA CausesStep == TypeOK /\ [Next]_vars => Causes
<1> SUFFICES ASSUME TypeOK, [Next]_vars PROVE Causes
    OBVIOUS
<1> USE DEF Causes, flags, loopVars, deviceVars
<1>a. PcOK
    BY TypeParts
<1>0. ASSUME NEW p \in Threads, NEW b \in Barriers, BarrierWait(p, b)
      PROVE  Causes
  <2>1. pc'["thread"] # "stopped" \/ pc'["thread"] = pc["thread"]
      BY <1>0, <1>a, BarrierStep DEF Threads, Barriers, Waiting, After
  <2> QED
      BY <2>1, <1>0, BarrierStep DEF BarrierWait
<1>1. CASE ThreadStep
  <2>1. CASE \E b \in Barriers : BarrierWait("thread", b)
      BY <2>1, <1>0 DEF Threads
  <2>2. CASE CreateSource
      BY <2>2, <1>a, GotoThread DEF CreateSource, ThreadPcs
  <2>3. CASE StoreRunLoop
      BY <2>3, <1>a, GotoThread DEF StoreRunLoop, ThreadPcs
  <2>4. CASE TestLoop \/ RunLoopSleeps \/ RunLoopWakes
      BY <2>4, <1>a, GotoThread DEF TestLoop, RunLoopSleeps, RunLoopWakes, ThreadPcs
  <2>5. CASE PerformSignal
      BY <2>5 DEF PerformSignal
  <2>6. CASE RemovalCallback
      BY <2>6 DEF RemovalCallback
  <2>7. CASE RunLoopStopped
      BY <2>7 DEF RunLoopStopped
  <2> QED
      BY <1>1, <2>1, <2>2, <2>3, <2>4, <2>5, <2>6, <2>7 DEF ThreadStep
<1>2. CASE Broadcast
    BY <1>2, <1>a, WakeReaderStep DEF Broadcast, ThreadPcs
<1>3. CASE UserStep
  <2> USE DEF UserPcs
  <2>1. CASE \E b \in Barriers : BarrierWait("user", b)
      BY <2>1, <1>0 DEF Threads
  <2>2. CASE Sleep \/ WaitTimesOut \/ Woken
      BY <2>2, <1>a, GotoUser DEF Sleep, WaitTimesOut, Woken, Return
  <2>3. CASE TimedOut \/ SendNow
      BY <2>3, <1>a, GotoUser DEF TimedOut, SendNow, Return
  <2>4. CASE SetShutdown
      BY <2>4, <1>a, GotoUser DEF SetShutdown, Closing
  <2>5. CASE SignalSource
      BY <2>5, <1>a, GotoUser DEF SignalSource, Closing
  <2>6. CASE WakeUp
      BY <2>6, <1>a, GotoUser DEF WakeUp
  <2>7. CASE Join \/ CloseHandle \/ ClearAndFree
      BY <2>7, <1>a, GotoUser DEF Join, CloseHandle, ClearAndFree
  <2> QED
      BY <1>3, <2>1, <2>2, <2>3, <2>4, <2>5, <2>6, <2>7 DEF UserStep
<1>4. CASE Unforced
  <2>1. CASE OpenFails \/ Unplug \/ OpenPath
      BY <2>1 DEF OpenFails, Unplug, OpenPath
  <2>2. CASE Send \/ CloseBegins \/ WakesSpuriously
      BY <2>2, <1>a, GotoUser DEF Send, CloseBegins, WakesSpuriously, Return,
                                  UserPcs
  <2>3. ASSUME NEW t \in {"block", "timed", "poll"}, Read(t) PROVE Causes
    <3>1. UNCHANGED pc["thread"]
      <4>1. CASE Goto("user", "idle") \/ Goto("user", "sleep")
          BY <4>1, <1>a, GotoUser DEF UserPcs
      <4> QED
          BY <2>3, <4>1 DEF Read, Return
    <3> QED
        BY <2>3, <3>1 DEF Read
  <2>4. CASE ReportCallback
      BY <2>4, <1>a, WakeReaderStep DEF ReportCallback, ThreadPcs
  <2>5. CASE RunLoopTimesOut
      BY <2>5, <1>a, GotoThread DEF RunLoopTimesOut, ThreadPcs
  <2>6. CASE RunLoopFinished
      BY <2>6, <1>a, GotoThread DEF RunLoopFinished, ThreadPcs
  <2>7. ASSUME NEW p \in Threads, NEW b \in Barriers, BarrierSpurious(p, b)
        PROVE  Causes
    <3>1. pc'["thread"] # "stopped" \/ pc'["thread"] = pc["thread"]
        BY <2>7, <1>a, SpuriousPcs DEF Threads, Barriers, Waiting, After
    <3> QED
        BY <2>7, <3>1, <1>a, SpuriousPcs
  <2> QED
      BY <1>4, <2>1, <2>2, <2>3, <2>4, <2>5, <2>6, <2>7 DEF Unforced
<1>5. CASE Terminating \/ UNCHANGED vars
    BY <1>5 DEF Terminating, vars
<1> QED
    BY <1>1, <1>2, <1>3, <1>4, <1>5 DEF Next

\* A hid_close() that has begun is never undone, and crashes only where it finds
\* no source or no run loop.
LEMMA ClosingStays ==
    ASSUME TypeOK, [Next]_vars
    PROVE  /\ pc["user"] \in Closing => pc'["user"] \in Closing
           /\ pc'["user"] = "crashed" =>
                \/ pc["user"] = "crashed"
                \/ pc["user"] = "signal" /\ ~source /\ pc'["thread"] = pc["thread"]
                \/ pc["user"] = "wakeUp" /\ ~run_loop /\ pc'["thread"] = pc["thread"]
<1>a. PcOK
    BY TypeParts
<1>1. CASE Ordinary
    BY <1>1, <1>a DEF Ordinary, Closing, UserPcs, Joined
<1>2. CASE OpenPath
    BY <1>2 DEF OpenPath, Closing
<1>3. ASSUME NEW p \in Threads, NEW b \in Barriers, BarrierWait(p, b)
      PROVE  /\ pc["user"] \in Closing => pc'["user"] \in Closing
             /\ pc'["user"] = "crashed" => pc["user"] = "crashed"
    BY <1>3, <1>a, BarrierStep DEF Threads, Barriers, After, Waiting, Closing
<1>4. ASSUME NEW p \in Threads, NEW b \in Barriers, BarrierSpurious(p, b)
      PROVE  /\ pc["user"] \in Closing => pc'["user"] \in Closing
             /\ pc'["user"] = "crashed" => pc["user"] = "crashed"
    BY <1>4, <1>a, SpuriousPcs DEF Threads, Barriers, After, Waiting, Closing
<1> QED
    BY <1>1, <1>2, <1>3, <1>4, OrdinaryOrNot

LEMMA CreatedStep == IInv /\ [Next]_vars => Created'
<1> SUFFICES ASSUME IInv, [Next]_vars PROVE Created'
    OBVIOUS
<1>t. TypeOK /\ PcOK /\ Created /\ StartBarrier /\ Causes
    BY TypeParts, CausesStep DEF IInv
<1>1. pc'["user"] = "crashed" => "start" \in early'
  <2>1. "start" \in early => "start" \in early'
      BY <1>t, OrdinaryOrNot, SpuriousPcs, BarrierStep
         DEF Ordinary, OpenPath, barrierVars
  <2>2. pc["user"] \in {"signal", "wakeUp"} /\ (~source \/ ~run_loop)
          => "start" \in early
      BY <1>t DEF Created, StartBarrier, NotYetStarted, NotYetOpen
  <2> QED
      BY <1>t, <2>1, <2>2, ClosingStays DEF Created
<1>2. /\ pc'["thread"] \notin {"none", "schedule"} => source'
      /\ pc'["thread"] \notin {"none", "schedule", "runLoop"} => run_loop'
  <2>1. CASE Ordinary
      BY <2>1, <1>t DEF Ordinary, Created, Causes, NotYetStarted
  <2>2. CASE OpenPath
      BY <2>2 DEF OpenPath
  <2>3. ASSUME NEW p \in Threads, NEW b \in Barriers, BarrierWait(p, b)
        PROVE  pc["thread"] \in {"none", "schedule", "runLoop"}
                 => pc'["thread"] = pc["thread"]
      BY <2>3, <1>t, BarrierStep DEF Threads, Barriers, After, Waiting
  <2>4. ASSUME NEW p \in Threads, NEW b \in Barriers, BarrierSpurious(p, b)
        PROVE  pc["thread"] \in {"none", "schedule", "runLoop"}
                 => pc'["thread"] = pc["thread"]
      BY <2>4, <1>t, SpuriousPcs DEF Threads, Barriers, After, Waiting
  <2> QED
      BY <1>t, <2>1, <2>2, <2>3, <2>4, OrdinaryOrNot DEF Created, Causes
<1> QED
    BY <1>1, <1>2 DEF Created

LEMMA AlarmStep == IInv /\ [Next]_vars => Alarm'
<1> SUFFICES ASSUME IInv, [Next]_vars PROVE Alarm'
    OBVIOUS
<1>1. TypeOK /\ Alarm /\ Causes
    BY CausesStep DEF IInv
<1>2. pc["user"] \in Closing => pc'["user"] \in Closing
    BY <1>1, ClosingStays
<1> QED
    BY <1>1, <1>2 DEF Alarm, Causes

LEMMA IInvStep == IInv /\ [Next]_vars => IInv'
BY TypeStep, StartBarrierStep, ShutdownBarrierStep, ThreadLivesStep, CreatedStep,
   AlarmStep DEF IInv

\* Type, barriers, thread, handles and alarms: the invariant holds always.
THEOREM Invariance == Spec => []IInv
BY IInvInit, IInvStep, PTL DEF Spec

\* hid_close() finds the source and the run loop of every handle it is given,
\* however the two threads interleave, unless the startup barrier has been left
\* before both had come.
THEOREM NoNullRunLoopHolds == Spec => []NoNullRunLoop
<1>1. IInv => NoNullRunLoop
    BY DEF IInv, Created, NoNullRunLoop
<1> QED
    BY Invariance, <1>1, PTL

\* The flags of hid_read_timeout() are never up for a device that is connected
\* and that nobody is closing.
THEOREM NoFalseAlarmHolds == Spec => []NoFalseAlarm
<1>1. IInv => NoFalseAlarm
    BY DEF IInv, Alarm, NoFalseAlarm
<1> QED
    BY Invariance, <1>1, PTL

\* hid_close() wakes a run loop only while its thread exists, unless the shutdown
\* barrier has been left early.
THEOREM WakesLiveThreadHolds == Spec => WakesLiveThread
<1>1. IInv /\ [Next]_vars
        => [WakeUp => pc["thread"] # "ended" \/ "shutdown" \in early]_vars
    BY DEF IInv, ShutdownBarrier, Joined, WakeUp
<1> QED
    BY Invariance, <1>1, PTL DEF Spec, WakesLiveThread

-----------------------------------------------------------------------------
(* MacHid implements ReportChannel.                                        *)

\* Nothing that the channel sees.
Quiet ==
    /\ UNCHANGED <<input_reports, sent, last, plugged>>
    /\ pc'["user"] = "new" <=> pc["user"] = "new"
    /\ pc'["user"] = "closed" <=> pc["user"] = "closed"

LEMMA QuietStutters == Quiet => UNCHANGED Channel!vars
BY DEF Quiet, Channel!vars

LEMMA ChannelInit == Init => Channel!Init
BY DEF Init, Channel!Init

LEMMA ChannelOpen == OpenPath => Channel!Open
BY DEF OpenPath, Channel!Open, readVars, deviceVars

\* A report at the limit pushes the oldest out.
LEMMA ChannelArrive ==
    ASSUME IInv, ReportCallback
    PROVE  Channel!Arrive
<1> DEFINE all == Append(input_reports, sent + 1)
<1>1. /\ sent \in Nat /\ Limit \in Nat /\ input_reports \in Seq(1..sent)
      /\ PcOK
    BY MacHidAssumption, TypeParts DEF IInv, ReportsOK
<1>2. /\ plugged /\ plugged' /\ sent' = sent + 1 /\ last' = last
      /\ pc["user"] \notin {"new", "closed"}
      /\ pc'["user"] \notin {"new", "closed"}
      /\ input_reports' = Attached(input_reports, sent + 1)
    BY <1>1, WakeReaderStep
       DEF ReportCallback, IInv, ThreadLives, InRunLoop, readVars, ThreadPcs
<1>3. all \in Seq(1..(sent + 1)) /\ Len(all) = Len(input_reports) + 1
  <2>1. \A i \in 1..Len(input_reports) : input_reports[i] \in 1..(sent + 1)
      BY <1>1
  <2>2. input_reports \in Seq(1..(sent + 1))
      BY <1>1, <2>1
  <2> QED
      BY <1>1, <2>2
<1>4. \/ input_reports' = all
      \/ /\ Len(input_reports) >= Limit + 2
         /\ \E i \in 1..Len(all) : input_reports' = Channel!RemoveAt(all, i)
  <2>1. CASE input_reports # <<>> /\ Len(input_reports) - 1 > Limit
    <3>1. input_reports' = Tail(all)
        BY <1>2, <2>1 DEF Attached
    <3>2. Channel!RemoveAt(all, 1) = Tail(all)
      <4>1. SubSeq(all, 1, 0) = <<>>
          BY <1>3
      <4>2. SubSeq(all, 2, Len(all)) = Tail(all)
          BY <1>3
      <4>3. <<>> \o Tail(all) = Tail(all)
          BY <1>3
      <4> HIDE DEF all
      <4> QED
          BY <4>1, <4>2, <4>3 DEF Channel!RemoveAt
    <3>3. 1 \in 1..Len(all) /\ Len(input_reports) >= Limit + 2
        BY <1>1, <1>3, <2>1
    <3> QED
        BY <3>1, <3>2, <3>3
  <2>2. CASE ~(input_reports # <<>> /\ Len(input_reports) - 1 > Limit)
      BY <1>2, <2>2 DEF Attached
  <2> QED
      BY <2>1, <2>2
<1> HIDE DEF all
<1> QED
    BY <1>2, <1>4 DEF Channel!Arrive, all

LEMMA ChannelReceive ==
    ASSUME input_reports # <<>>, ReturnData, UNCHANGED <<sent, plugged>>,
           pc["user"] \notin {"new", "closed"},
           pc'["user"] \notin {"new", "closed"}
    PROVE  Channel!Receive
BY DEF ReturnData, Channel!Receive

LEMMA ChannelGo ==
    ASSUME IInv, Unplug
    PROVE  [Channel!Next]_(Channel!vars)
<1>1. input_reports \in Seq(1..sent)
    BY DEF IInv, TypeOK
<1>2. plugged /\ ~plugged' /\ UNCHANGED <<pc, input_reports, sent, last>>
    BY DEF Unplug, readVars
<1>3. CASE pc["user"] \in {"new", "closed"}
    BY <1>2, <1>3 DEF Channel!vars
<1>4. CASE pc["user"] \notin {"new", "closed"}
  <2>1. /\ Len(input_reports) \in 0..Len(input_reports)
        /\ input_reports = SubSeq(input_reports, 1, Len(input_reports))
      BY <1>1
  <2>2. Channel!Go
      BY <1>2, <1>4, <2>1 DEF Channel!Go
  <2> QED
      BY <2>2 DEF Channel!Next
<1> QED
    BY <1>3, <1>4

LEMMA ChannelClose == PcOK /\ ClearAndFree => Channel!Close
BY GotoUser DEF ClearAndFree, Channel!Close, readVars, deviceVars, UserPcs

LEMMA ChannelStep == IInv /\ [Next]_vars => [Channel!Next]_(Channel!vars)
<1> SUFFICES ASSUME IInv, [Next]_vars PROVE [Channel!Next]_(Channel!vars)
    OBVIOUS
<1>a. TypeOK /\ PcOK
    BY TypeParts DEF IInv
<1>b. SUFFICES \/ Quiet \/ OpenPath \/ ReportCallback \/ Unplug \/ ClearAndFree
               \/ /\ input_reports # <<>> /\ ReturnData /\ UNCHANGED <<sent, plugged>>
                  /\ pc["user"] \notin {"new", "closed"}
                  /\ pc'["user"] \notin {"new", "closed"}
    BY <1>a, <1>b, QuietStutters, ChannelOpen, ChannelArrive, ChannelReceive,
       ChannelGo, ChannelClose DEF Channel!Next
<1> USE DEF readVars, deviceVars
<1>0. ASSUME NEW p \in Threads, NEW b \in Barriers,
             BarrierWait(p, b) \/ BarrierSpurious(p, b)
      PROVE  Quiet
  <2>1. CASE BarrierWait(p, b)
      BY <2>1, <1>a, BarrierStep
         DEF BarrierWait, Quiet, Threads, Barriers, After, Waiting
  <2>2. CASE BarrierSpurious(p, b)
      BY <2>2, <1>a, SpuriousPcs DEF Quiet, Threads, Barriers, After, Waiting
  <2> QED
      BY <1>0, <2>1, <2>2
<1>1. CASE ThreadStep
  <2>1. CASE \E b \in Barriers : BarrierWait("thread", b)
      BY <2>1, <1>0 DEF Threads
  <2>2. CASE CreateSource \/ StoreRunLoop \/ TestLoop \/ RunLoopSleeps
      BY <2>2, <1>a, GotoThread DEF CreateSource, StoreRunLoop, TestLoop,
                RunLoopSleeps, Quiet, ThreadPcs
  <2>3. CASE RunLoopWakes \/ PerformSignal \/ RemovalCallback \/ RunLoopStopped
      BY <2>3, <1>a, GotoThread DEF RunLoopWakes, PerformSignal,
                RemovalCallback, RunLoopStopped, Quiet, ThreadPcs
  <2> QED
      BY <1>1, <2>1, <2>2, <2>3 DEF ThreadStep
<1>2. CASE Broadcast
    BY <1>2, <1>a, WakeReaderStep DEF Broadcast, Quiet, ThreadPcs
<1>3. CASE UserStep
  <2> USE DEF UserPcs
  <2>1. CASE \E b \in Barriers : BarrierWait("user", b)
      BY <2>1, <1>0 DEF Threads
  <2>2. CASE Sleep \/ WaitTimesOut \/ TimedOut \/ SendNow
      BY <2>2, <1>a, GotoUser DEF Sleep, WaitTimesOut, TimedOut, SendNow,
                Return, Quiet
  <2>3. CASE Woken
      BY <2>3, <1>a, GotoUser DEF Woken, Return, Quiet
  <2>4. CASE SetShutdown \/ SignalSource \/ WakeUp
      BY <2>4, <1>a, GotoUser DEF SetShutdown, SignalSource, WakeUp, Quiet
  <2>5. CASE Join \/ CloseHandle
      BY <2>5, <1>a, GotoUser DEF Join, CloseHandle, Quiet
  <2> QED
      BY <1>3, <2>1, <2>2, <2>3, <2>4, <2>5 DEF UserStep
<1>4. CASE Unforced
  <2>1. CASE OpenFails
      BY <2>1 DEF OpenFails, Quiet
  <2>2. CASE Send \/ CloseBegins \/ WakesSpuriously
      BY <2>2, <1>a, GotoUser DEF Send, CloseBegins, WakesSpuriously, Return,
                Quiet, UserPcs
  <2>3. ASSUME NEW t \in {"block", "timed", "poll"}, Read(t)
        PROVE  \/ Quiet
               \/ /\ input_reports # <<>> /\ ReturnData /\ UNCHANGED <<sent, plugged>>
                  /\ pc["user"] \notin {"new", "closed"}
                  /\ pc'["user"] \notin {"new", "closed"}
    <3>1. CASE input_reports # <<>>
        BY <2>3, <3>1 DEF Read
    <3>2. CASE input_reports = <<>>
      <4>1. Goto("user", "idle") \/ Goto("user", "sleep")
          BY <2>3, <3>2 DEF Read, Return
      <4> QED
          BY <2>3, <3>2, <4>1, <1>a, GotoUser DEF Read, Return, Quiet, UserPcs
    <3> QED
        BY <3>1, <3>2
  <2>4. CASE RunLoopTimesOut \/ RunLoopFinished
      BY <2>4, <1>a, GotoThread DEF RunLoopTimesOut, RunLoopFinished, Quiet,
                ThreadPcs
  <2> QED
      BY <1>4, <1>0, <2>1, <2>2, <2>3, <2>4 DEF Unforced
<1>5. CASE Terminating \/ UNCHANGED vars
    BY <1>5 DEF Terminating, vars, Quiet
<1> QED
    BY <1>1, <1>2, <1>3, <1>4, <1>5 DEF Next

\* The threads, callbacks and list of one open device implement the channel of
\* ReportChannel: reports come out in their order and each once, none is lost
\* while fewer than Limit + 2 wait, and a reader sees no other.
THEOREM ChannelImplemented == Spec => ImplementsChannel
<1>1. Init => Channel!Init
    BY ChannelInit
<1> QED
    BY Invariance, <1>1, ChannelStep, PTL DEF Spec, ImplementsChannel, Channel!Spec
=============================================================================

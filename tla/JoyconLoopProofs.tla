-------------------------- MODULE JoyconLoopProofs --------------------------
(***************************************************************************)
(* Safety of JoyconLoop for every set of calls, every assignment of stack  *)
(* frames to calls and with or without spurious wakeups.                   *)
(***************************************************************************)
EXTENDS JoyconLoop, TLAPS

NoRepeat(s) == \A i, j \in DOMAIN s : s[i] = s[j] => i = j

PushedPcs == {"unlocked", "waiting", "return", "returned"}

\* Two invocations never share a live stack frame.
FramesExclusive ==
    \A c, d \in Calls :
        Live(c) /\ Live(d) /\ FrameOf[c] = FrameOf[d] => c = d

\* A closure is queued at most once, by its call, and never again once it has
\* run.
QueuedOnce ==
    /\ NoRepeat(fq)
    /\ \A c \in Calls : /\ Queued(c) \/ Executed(c) => cpc[c] \in PushedPcs
                        /\ ~(Queued(c) /\ Executed(c))

\* A call has an outcome exactly from the end of its wait on.
OutcomeAfterWait ==
    \A c \in Calls : outcome[c] = "none" <=> cpc[c] \notin {"return", "returned"}

\* The closure being run stays at the head of the queue.
HeadWhileRunning == wpc \in {"comm", "notify"} => fq # <<>>

\* The flag, the main thread and the worker's last phase go together.
KillOrder ==
    /\ do_kill <=> mpc \in {"join", "joined"}
    /\ wpc \in {"finish", "close", "done"} => do_kill
    /\ ~do_kill => lateDrains = 0
    /\ lateDrains > 0 => wpc # "lockCmd"
    /\ lateDrains <= 1

\* The inductive invariant.
IInv ==
    /\ TypeOK
    /\ FramesExclusive
    /\ QueuedOnce
    /\ OutcomeAfterWait
    /\ HeadWhileRunning
    /\ KillOrder
    /\ NotifiedMeansExecuted

-----------------------------------------------------------------------------
(* What a push and a pop do to the elements of a queue.                    *)

LEMMA AppendElements ==
    ASSUME NEW S, NEW s \in Seq(S), NEW x \in S
    PROVE  /\ Append(s, x) \in Seq(S)
           /\ ToSet(Append(s, x)) = ToSet(s) \union {x}
           /\ NoRepeat(s) /\ x \notin ToSet(s) => NoRepeat(Append(s, x))
<1> DEFINE t == Append(s, x)
<1>1. /\ t \in Seq(S)
      /\ Len(t) = Len(s) + 1
      /\ t[Len(s) + 1] = x
      /\ \A i \in 1..Len(s) : t[i] = s[i]
      /\ DOMAIN s = 1..Len(s) /\ DOMAIN t = 1..Len(t)
    OBVIOUS
<1> HIDE DEF t
<1>2. ToSet(t) = ToSet(s) \union {x}
    BY <1>1 DEF ToSet
<1>3. NoRepeat(s) /\ x \notin ToSet(s) => NoRepeat(t)
    BY <1>1 DEF ToSet, NoRepeat
<1> QED
    BY <1>1, <1>2, <1>3 DEF t

LEMMA TailElements ==
    ASSUME NEW S, NEW s \in Seq(S), s # <<>>
    PROVE  /\ Head(s) \in S /\ Tail(s) \in Seq(S)
           /\ ToSet(s) = ToSet(Tail(s)) \union {Head(s)}
           /\ NoRepeat(s) => NoRepeat(Tail(s)) /\ Head(s) \notin ToSet(Tail(s))
<1> DEFINE h == Head(s)
           t == Tail(s)
<1>1. /\ h \in S /\ t \in Seq(S)
      /\ Len(s) \in Nat /\ Len(s) > 0 /\ Len(t) = Len(s) - 1
      /\ h = s[1]
      /\ \A i \in 1..Len(t) : t[i] = s[i + 1]
      /\ DOMAIN s = 1..Len(s) /\ DOMAIN t = 1..Len(t)
    OBVIOUS
<1> HIDE DEF h, t
<1>2. \A i \in DOMAIN t : i + 1 \in DOMAIN s /\ t[i] = s[i + 1] /\ i + 1 # 1
    BY <1>1
<1>3. \A i \in DOMAIN s : i = 1 \/ (i - 1 \in DOMAIN t /\ t[i - 1] = s[i])
    BY <1>1
<1>4. ToSet(s) = ToSet(t) \union {h}
    BY <1>1, <1>2, <1>3 DEF ToSet
<1>5. ASSUME NoRepeat(s) PROVE NoRepeat(t)
  <2> SUFFICES ASSUME NEW i \in DOMAIN t, NEW j \in DOMAIN t, t[i] = t[j]
               PROVE  i = j
      BY DEF NoRepeat
  <2>1. i + 1 = j + 1
      BY <1>2, <1>5 DEF NoRepeat
  <2> QED
      BY <2>1, <1>1
<1>6. ASSUME NoRepeat(s) PROVE h \notin ToSet(t)
  <2> SUFFICES ASSUME NEW i \in DOMAIN t, t[i] = h
               PROVE  FALSE
      BY DEF ToSet
  <2>1. 1 \in DOMAIN s /\ s[1] = s[i + 1]
      BY <1>1, <1>2
  <2> QED
      BY <2>1, <1>2, <1>6 DEF NoRepeat
<1> QED
    BY <1>1, <1>4, <1>5, <1>6 DEF h, t

-----------------------------------------------------------------------------
\* Initially everything holds.
LEMMA InitIInv == Init => IInv
<1> SUFFICES ASSUME Init PROVE IInv
    OBVIOUS
<1>1. TypeOK
  <2>1. /\ cpc \in [Calls -> CallPcs]
        /\ result \in [Calls -> Calls \union {NoCall}]
        /\ outcome \in [Calls -> {"none", "notified", "timeout"}]
      BY DEF Init, CallPcs
  <2>2. fq \in Seq(Calls) /\ executed \in Seq(Calls)
      BY DEF Init
  <2> QED
      BY <2>1, <2>2 DEF Init, TypeOK, WorkerPcs, MainPcs
<1>2. FramesExclusive /\ OutcomeAfterWait /\ HeadWhileRunning /\ KillOrder
    BY DEF Init, FramesExclusive, Live, LivePcs, OutcomeAfterWait,
           HeadWhileRunning, KillOrder
<1>3. QueuedOnce
    BY DEF Init, QueuedOnce, NoRepeat, Queued, Executed, ToSet
<1>4. NotifiedMeansExecuted
    BY DEF Init, NotifiedMeansExecuted
<1> QED
    BY <1>1, <1>2, <1>3, <1>4 DEF IInv

\* Every step keeps the types, given that a running closure is in the queue.
LEMMA TypeStutter == TypeOK /\ UNCHANGED vars => TypeOK'
<1> SUFFICES ASSUME TypeOK, UNCHANGED vars
             PROVE  TypeOK'
    OBVIOUS
<1>1. /\ UNCHANGED <<wpc, mpc, cpc, datamtx, cmdmtx>>
      /\ UNCHANGED <<do_kill, fq, link, jc, batteryLevel>>
      /\ UNCHANGED <<imuScale, result, outcome, executed, lateDrains>>
    BY DEF vars
<1> QED
    BY <1>1 DEF TypeOK

LEMMA TypeStep == TypeOK /\ HeadWhileRunning /\ [Next]_vars => TypeOK'
<1> SUFFICES ASSUME TypeOK, HeadWhileRunning, [Next]_vars
             PROVE  TypeOK'
    OBVIOUS
<1> USE CallsAssumption DEF TypeOK, WorkerPcs, MainPcs, CallPcs, callVars,
        dataVars
<1>1. CASE Setup
    BY <1>1 DEF Setup
<1>2. CASE ReadReport \/ ReadFails \/ ReadTimed
    BY <1>2 DEF ReadReport, ReadFails, ReadTimed
<1>3. CASE LockData \/ Process \/ LockKill \/ CheckKill
    BY <1>3 DEF LockData, Process, LockKill, CheckKill
<1>4. CASE LockCmd \/ UnlockCmd \/ Finish \/ HidClose
    BY <1>4 DEF LockCmd, UnlockCmd, Finish, HidClose
<1>5. CASE StartCommand
    BY <1>5 DEF StartCommand
<1>6. CASE Comm
    BY <1>6 DEF Comm, HeadWhileRunning
<1>7. CASE NotifyAndPop
    BY <1>7 DEF NotifyAndPop, HeadWhileRunning
<1>8. ASSUME NEW c \in Calls, CallStep(c)
      PROVE  TypeOK'
  <2>1. CASE Enter(c) \/ LockQueue(c) \/ StartWait(c)
      BY <2>1 DEF Enter, LockQueue, StartWait
  <2>2. CASE PushBack(c)
      BY <2>2, AppendElements DEF PushBack
  <2>3. CASE WaitTimesOut(c) \/ WakeSpuriously(c)
      BY <2>3 DEF WaitTimesOut, WakeSpuriously
  <2>4. CASE Return(c)
      BY <2>4 DEF Return
  <2> QED
      BY <1>8, <2>1, <2>2, <2>3, <2>4 DEF CallStep
<1>9. CASE MainStep \/ Disconnect
  <2>1. CASE BeginCleanup \/ LockForKill
      BY <2>1 DEF BeginCleanup, LockForKill
  <2>2. CASE SetKill \/ Join
      BY <2>2 DEF SetKill, Join
  <2>3. CASE Disconnect
      BY <2>3 DEF Disconnect
  <2> QED
      BY <1>9, <2>1, <2>2, <2>3 DEF MainStep
<1> HIDE DEF TypeOK
<1>10. CASE Terminating \/ UNCHANGED vars
    BY <1>10, TypeStutter DEF Terminating
<1> QED
    BY <1>1, <1>2, <1>3, <1>4, <1>5, <1>6, <1>7, <1>8, <1>9, <1>10
    DEF Next, WorkerStep

\* What the steps that neither move a call nor touch the queue leave alone.
quiet == <<cpc, fq, executed, outcome>>

LEMMA QuietStep ==
    IInv /\ UNCHANGED quiet =>
        FramesExclusive' /\ QueuedOnce' /\ OutcomeAfterWait'
        /\ NotifiedMeansExecuted'
<1> SUFFICES ASSUME IInv, UNCHANGED quiet
             PROVE  /\ FramesExclusive' /\ QueuedOnce' /\ OutcomeAfterWait'
                    /\ NotifiedMeansExecuted'
    OBVIOUS
<1>1. FramesExclusive' /\ OutcomeAfterWait'
    BY DEF IInv, quiet, FramesExclusive, Live, OutcomeAfterWait
<1>2. QueuedOnce'
    BY DEF IInv, quiet, QueuedOnce, Queued, Executed
<1>3. NotifiedMeansExecuted'
    BY DEF IInv, quiet, NotifiedMeansExecuted, Executed, EarlierTimeout
<1> QED
    BY <1>1, <1>2, <1>3

\* The steps that are quiet in this sense.
LEMMA QuietSteps ==
    ASSUME Next, ~NotifyAndPop, ~\E c \in Calls : CallStep(c)
    PROVE  UNCHANGED quiet
<1> USE DEF quiet, callVars
<1>1. CASE WorkerStep
    BY <1>1 DEF WorkerStep, Setup, ReadReport, ReadFails, ReadTimed, LockData,
                Process, LockKill, CheckKill, LockCmd, StartCommand, Comm,
                UnlockCmd, Finish, HidClose
<1>2. CASE MainStep \/ Disconnect \/ Terminating
    BY <1>2 DEF MainStep, BeginCleanup, LockForKill, SetKill, Join, Disconnect,
                Terminating, vars
<1> QED
    BY <1>1, <1>2 DEF Next

\* The control facts do not depend on the calls, except that a push makes the
\* queue longer and a pop shorter.
LEMMA ControlStep ==
    IInv /\ [Next]_vars => HeadWhileRunning' /\ KillOrder'
<1> SUFFICES ASSUME IInv, [Next]_vars
             PROVE  HeadWhileRunning' /\ KillOrder'
    OBVIOUS
<1> USE DEF IInv, TypeOK, HeadWhileRunning, KillOrder
<1>1. CASE Setup \/ ReadReport \/ ReadFails \/ ReadTimed
    BY <1>1 DEF Setup, ReadReport, ReadFails, ReadTimed
<1>2. CASE LockData \/ Process \/ LockKill \/ CheckKill
    BY <1>2 DEF LockData, Process, LockKill, CheckKill
<1>3. CASE LockCmd \/ UnlockCmd \/ Finish \/ HidClose
    BY <1>3 DEF LockCmd, UnlockCmd, Finish, HidClose
<1>4. CASE StartCommand \/ Comm \/ NotifyAndPop
    BY <1>4 DEF StartCommand, Comm, NotifyAndPop
<1>5. ASSUME NEW c \in Calls, CallStep(c)
      PROVE  HeadWhileRunning' /\ KillOrder'
  <2>1. CASE PushBack(c)
      BY <2>1 DEF PushBack
  <2>2. CASE ~PushBack(c)
      BY <1>5, <2>2 DEF CallStep, Enter, LockQueue, StartWait, WaitTimesOut,
                        WakeSpuriously, Return
  <2> QED
      BY <2>1, <2>2
<1>6. CASE MainStep \/ Disconnect \/ Terminating
    BY <1>6 DEF MainStep, BeginCleanup, LockForKill, SetKill, Join, Disconnect,
                Terminating, vars
<1>7. CASE UNCHANGED vars
    BY <1>7 DEF vars
<1> QED
    BY <1>1, <1>2, <1>3, <1>4, <1>5, <1>6, <1>7 DEF Next, WorkerStep

-----------------------------------------------------------------------------
(* Steps of a call.                                                        *)

\* A step of call c moves c only; a closure enters the queue when c is
\* pushed, and an outcome is fixed when the wait of c ends.
LEMMA CallStepKeeps ==
    ASSUME IInv, NEW c \in Calls, CallStep(c)
    PROVE  /\ FramesExclusive'
           /\ QueuedOnce'
           /\ OutcomeAfterWait'
           /\ NotifiedMeansExecuted'
<1> USE CallsAssumption DEF IInv, TypeOK
<1>1. CASE Enter(c)
  <2>1. FramesExclusive'
      BY <1>1 DEF Enter, FramesExclusive, Live, LivePcs
  <2>2. QueuedOnce'
      BY <1>1 DEF Enter, QueuedOnce, PushedPcs, Queued, Executed
  <2>3. OutcomeAfterWait'
      BY <1>1 DEF Enter, OutcomeAfterWait
  <2>4. NotifiedMeansExecuted'
      BY <1>1 DEF Enter, NotifiedMeansExecuted, Executed, EarlierTimeout
  <2> QED BY <2>1, <2>2, <2>3, <2>4
<1>2. CASE LockQueue(c) \/ StartWait(c)
  <2>1. FramesExclusive'
      BY <1>2 DEF LockQueue, StartWait, FramesExclusive, Live, LivePcs
  <2>2. QueuedOnce'
      BY <1>2 DEF LockQueue, StartWait, QueuedOnce, PushedPcs, Queued, Executed
  <2>3. OutcomeAfterWait'
      BY <1>2 DEF LockQueue, StartWait, OutcomeAfterWait
  <2>4. NotifiedMeansExecuted'
      BY <1>2 DEF LockQueue, StartWait, NotifiedMeansExecuted, Executed,
                  EarlierTimeout
  <2> QED BY <2>1, <2>2, <2>3, <2>4
<1>3. CASE PushBack(c)
  <2>1. FramesExclusive'
      BY <1>3 DEF PushBack, FramesExclusive, Live, LivePcs
  <2>2. QueuedOnce'
    <3>1. ~Queued(c) /\ ~Executed(c)
        BY <1>3 DEF PushBack, QueuedOnce, PushedPcs
    <3>2. /\ NoRepeat(fq')
          /\ \A d \in Calls : Queued(d)' <=> Queued(d) \/ d = c
        BY <1>3, <3>1, AppendElements DEF PushBack, QueuedOnce, Queued
    <3>3. /\ cpc' = [cpc EXCEPT ![c] = "unlocked"]
          /\ \A d \in Calls : Executed(d)' <=> Executed(d)
        BY <1>3 DEF PushBack, Executed
    <3> QED
        BY <3>1, <3>2, <3>3 DEF QueuedOnce, PushedPcs
  <2>3. OutcomeAfterWait'
      BY <1>3 DEF PushBack, OutcomeAfterWait
  <2>4. NotifiedMeansExecuted'
      BY <1>3 DEF PushBack, NotifiedMeansExecuted, Executed, EarlierTimeout
  <2> QED BY <2>1, <2>2, <2>3, <2>4
<1>4. CASE WaitTimesOut(c)
  <2>1. FramesExclusive'
      BY <1>4 DEF WaitTimesOut, FramesExclusive, Live, LivePcs
  <2>2. QueuedOnce'
      BY <1>4 DEF WaitTimesOut, QueuedOnce, PushedPcs, Queued, Executed
  <2>3. OutcomeAfterWait'
      BY <1>4 DEF WaitTimesOut, OutcomeAfterWait
  <2>4. NotifiedMeansExecuted'
      BY <1>4 DEF WaitTimesOut, NotifiedMeansExecuted, Executed,
                  EarlierTimeout, OutcomeAfterWait
  <2> QED BY <2>1, <2>2, <2>3, <2>4
<1>5. CASE WakeSpuriously(c)
  <2>1. FramesExclusive'
      BY <1>5 DEF WakeSpuriously, FramesExclusive, Live, LivePcs
  <2>2. QueuedOnce'
      BY <1>5 DEF WakeSpuriously, QueuedOnce, PushedPcs, Queued, Executed
  <2>3. OutcomeAfterWait'
      BY <1>5 DEF WakeSpuriously, OutcomeAfterWait
  <2>4. NotifiedMeansExecuted'
      BY <1>5 DEF WakeSpuriously, NotifiedMeansExecuted
  <2> QED BY <2>1, <2>2, <2>3, <2>4
<1>6. CASE Return(c)
  <2>1. FramesExclusive'
      BY <1>6 DEF Return, FramesExclusive, Live, LivePcs
  <2>2. QueuedOnce'
      BY <1>6 DEF Return, QueuedOnce, PushedPcs, Queued, Executed
  <2>3. OutcomeAfterWait'
      BY <1>6 DEF Return, OutcomeAfterWait
  <2>4. NotifiedMeansExecuted'
      BY <1>6 DEF Return, NotifiedMeansExecuted, Executed, EarlierTimeout
  <2> QED BY <2>1, <2>2, <2>3, <2>4
<1> QED
    BY <1>1, <1>2, <1>3, <1>4, <1>5, <1>6 DEF CallStep

-----------------------------------------------------------------------------
(* The step of the worker that wakes callers.                              *)

\* Only the waiter of the command just run is woken, or one whose stack
\* address was that of an earlier call: a call that shares its frame with a
\* live one has returned, so it ended its wait without its command having run.
LEMMA NotifyKeeps ==
    ASSUME IInv, NotifyAndPop
    PROVE  /\ FramesExclusive'
           /\ QueuedOnce'
           /\ OutcomeAfterWait'
           /\ NotifiedMeansExecuted'
<1> USE CallsAssumption DEF IInv, TypeOK
<1> DEFINE h == Head(fq)
<1>1. /\ fq # <<>> /\ h \in Calls /\ Queued(h) /\ ~Executed(h)
      /\ cpc[h] \in PushedPcs
  <2>1. fq # <<>>
      BY DEF NotifyAndPop, HeadWhileRunning
  <2>2. h \in Calls /\ h \in ToSet(fq)
      BY <2>1, TailElements
  <2> QED
      BY <2>1, <2>2 DEF Queued, QueuedOnce
<1>2. /\ cpc' = [d \in Calls |-> IF d \in Woken(h) THEN "return" ELSE cpc[d]]
      /\ outcome' = [d \in Calls |->
                         IF d \in Woken(h) THEN "notified" ELSE outcome[d]]
      /\ executed' = Append(executed, h)
      /\ fq' = Tail(fq)
    BY DEF NotifyAndPop
<1>3. \A d \in Woken(h) : /\ d \in Calls
                          /\ cpc[d] = "waiting"
                          /\ FrameOf[d] = FrameOf[h]
    BY DEF Woken
<1> HIDE DEF h
<1>4. \A d \in Calls : /\ Queued(d)' <=> Queued(d) /\ d # h
                       /\ Executed(d)' <=> Executed(d) \/ d = h
  <2>1. /\ ToSet(fq) = ToSet(fq') \union {h}
        /\ h \notin ToSet(fq')
      BY <1>1, <1>2, TailElements DEF QueuedOnce, h
  <2>2. ToSet(executed') = ToSet(executed) \union {h}
      BY <1>1, <1>2, AppendElements
  <2> QED
      BY <2>1, <2>2 DEF Queued, Executed
<1>5. FramesExclusive' /\ OutcomeAfterWait'
    BY <1>2, <1>3 DEF FramesExclusive, Live, LivePcs, OutcomeAfterWait
<1>6. QueuedOnce'
  <2>1. \A d \in Calls : cpc[d] \in PushedPcs => cpc'[d] \in PushedPcs
      BY <1>2, <1>3 DEF PushedPcs
  <2>2. NoRepeat(fq')
      BY <1>1, <1>2, TailElements DEF QueuedOnce, h
  <2>3. \A d \in Calls : /\ Queued(d)' <=> Queued(d) /\ d # h
                         /\ Executed(d)' <=> Executed(d) \/ d = h
      BY <1>1, <1>4
  <2> QED
      BY <1>1, <2>1, <2>2, <2>3 DEF QueuedOnce
<1>7. NotifiedMeansExecuted'
  <2>1. \A d \in Calls : d = h \/ Executed(d) => Executed(d)'
      BY <1>1, <1>4
  <2>2. \A d \in Calls : EarlierTimeout(d) => EarlierTimeout(d)'
      BY <1>2, <1>3 DEF EarlierTimeout, OutcomeAfterWait
  <2>4. ASSUME NEW d \in Woken(h), d # h
        PROVE  SpuriousWakeups \/ EarlierTimeout(d)
    <3>1. cpc[h] = "returned"
        BY <1>1, <1>3, <2>4 DEF FramesExclusive, Live, LivePcs, PushedPcs
    <3>2. CASE outcome[h] = "timeout"
        BY <3>2, <1>1, <1>3, <2>4 DEF EarlierTimeout
    <3>3. CASE outcome[h] = "notified"
      <4>1. SpuriousWakeups \/ EarlierTimeout(h)
          BY <3>3, <1>1 DEF NotifiedMeansExecuted
      <4>2. outcome[d] = "none"
          BY <1>3, <2>4 DEF OutcomeAfterWait
      <4> QED BY <4>1, <4>2, <1>3, <2>4 DEF EarlierTimeout
    <3> QED
        BY <3>1, <3>2, <3>3, <1>1 DEF OutcomeAfterWait
  <2> SUFFICES ASSUME NEW d \in Calls, outcome'[d] = "notified"
               PROVE  Executed(d)' \/ SpuriousWakeups \/ EarlierTimeout(d)'
      BY DEF NotifiedMeansExecuted
  <2>5. CASE d \in Woken(h)
      BY <2>5, <2>1, <2>2, <2>4
  <2>6. CASE d \notin Woken(h)
      BY <2>6, <1>2, <2>1, <2>2 DEF NotifiedMeansExecuted
  <2> QED BY <2>5, <2>6
<1> QED
    BY <1>5, <1>6, <1>7

-----------------------------------------------------------------------------
LEMMA IInvStep == IInv /\ [Next]_vars => IInv'
<1> SUFFICES ASSUME IInv, [Next]_vars
             PROVE  IInv'
    OBVIOUS
<1>1. TypeOK'
    BY TypeStep DEF IInv
<1>2. HeadWhileRunning' /\ KillOrder'
    BY ControlStep
<1>3. FramesExclusive' /\ QueuedOnce' /\ OutcomeAfterWait' /\ NotifiedMeansExecuted'
  <2>1. CASE NotifyAndPop
      BY <2>1, NotifyKeeps
  <2>2. CASE \E c \in Calls : CallStep(c)
      BY <2>2, CallStepKeeps
  <2>3. CASE Next /\ ~NotifyAndPop /\ ~\E c \in Calls : CallStep(c)
      BY <2>3, QuietStep, QuietSteps
  <2>4. CASE UNCHANGED vars
    <3>1. UNCHANGED quiet
        BY <2>4 DEF vars, quiet
    <3> QED BY <3>1, QuietStep
  <2> QED BY <2>1, <2>2, <2>3, <2>4
<1> QED
    BY <1>1, <1>2, <1>3 DEF IInv

\* The inductive invariant holds in every reachable state.
THEOREM Invariant == Spec => []IInv
BY InitIInv, IInvStep, PTL DEF Spec

(***************************************************************************)
(* Every variable keeps its type.                                          *)
(***************************************************************************)
THEOREM TypeCorrect == Spec => []TypeOK
<1>1. IInv => TypeOK
    BY DEF IInv
<1> QED
    BY Invariant, <1>1, PTL

(***************************************************************************)
(* wait_for() ends without a timeout only for a command that has run, up   *)
(* to spurious wakeups and to stack addresses used again after a timeout.  *)
(***************************************************************************)
THEOREM NotifiedSound == Spec => []NotifiedMeansExecuted
<1>1. IInv => NotifiedMeansExecuted
    BY DEF IInv
<1> QED
    BY Invariant, <1>1, PTL

(***************************************************************************)
(* A queued closure outlives its `consume` only when its caller gave up.   *)
(***************************************************************************)
THEOREM DanglingSound == Spec => []DanglingOnlyAfterGivingUp
<1>1. IInv => DanglingOnlyAfterGivingUp
  <2> SUFFICES ASSUME IInv, NEW c \in Calls, Queued(c), ~Live(c)
               PROVE  \/ outcome[c] = "timeout" \/ SpuriousWakeups
                      \/ EarlierTimeout(c)
      BY DEF DanglingOnlyAfterGivingUp
  <2>1. cpc[c] = "returned" /\ ~Executed(c)
      BY DEF IInv, QueuedOnce, PushedPcs, Live, LivePcs
  <2>2. outcome[c] \in {"timeout", "notified"}
      BY <2>1 DEF IInv, OutcomeAfterWait, TypeOK
  <2> QED
      BY <2>1, <2>2 DEF IInv, NotifiedMeansExecuted
<1> QED
    BY Invariant, <1>1, PTL

(***************************************************************************)
(* After do_kill the queue is drained at most once more, and the lock that *)
(* the break leaks is never one the main thread still needs.               *)
(***************************************************************************)
THEOREM KillSound == Spec => [](KillHeededWithinOneRound /\ LeakedLockOnlyAfterKill)
<1>1. IInv => KillHeededWithinOneRound /\ LeakedLockOnlyAfterKill
    BY DEF IInv, KillOrder, KillHeededWithinOneRound, LeakedLockOnlyAfterKill
<1> QED
    BY Invariant, <1>1, PTL

-----------------------------------------------------------------------------
(* The refinement: a push is a submission, a pop a performance, the break  *)
(* out of the loop the shutdown; every other step is a stutter.            *)

LEMMA QueueStep == IInv /\ [Next]_vars => [Queue!Next]_Queue!vars
<1> SUFFICES ASSUME IInv, [Next]_vars
             PROVE  [Queue!Next]_Queue!vars
    OBVIOUS
<1> USE DEF Queue!Next, Queue!vars
<1>1. CASE NotifyAndPop
  <2>1. fq # <<>>
      BY <1>1 DEF NotifyAndPop, IInv, HeadWhileRunning
  <2>2. Queue!Perform
      BY <1>1, <2>1 DEF NotifyAndPop, Queue!Perform
  <2> QED BY <2>2
<1>2. ASSUME NEW c \in Calls, CallStep(c)
      PROVE  [Queue!Next]_Queue!vars
  <2>1. CASE PushBack(c)
    <3>1. c \notin ToSet(fq) \union ToSet(executed)
        BY <2>1 DEF PushBack, IInv, QueuedOnce, PushedPcs, Queued, Executed
    <3>2. Queue!Submit(c)
        BY <2>1, <3>1 DEF PushBack, Queue!Submit, Queue!ToSet, ToSet
    <3> QED BY <3>2
  <2>2. CASE ~PushBack(c)
      BY <1>2, <2>2 DEF CallStep, Enter, LockQueue, StartWait, WaitTimesOut,
                        WakeSpuriously, Return
  <2> QED BY <2>1, <2>2
<1>3. CASE CheckKill
  <2>1. CASE do_kill
    <3>1. Queue!Shutdown
        BY <1>3, <2>1 DEF CheckKill, Queue!Shutdown
    <3> QED BY <3>1
  <2>2. CASE ~do_kill
      BY <1>3, <2>2 DEF CheckKill
  <2> QED BY <2>1, <2>2
<1>4. CASE Setup \/ ReadReport \/ ReadFails \/ ReadTimed
    BY <1>4 DEF Setup, ReadReport, ReadFails, ReadTimed
<1>5. CASE LockData \/ Process \/ LockKill \/ LockCmd
    BY <1>5 DEF LockData, Process, LockKill, LockCmd
<1>6. CASE StartCommand \/ Comm \/ UnlockCmd \/ Finish \/ HidClose
    BY <1>6 DEF StartCommand, Comm, UnlockCmd, Finish, HidClose
<1>7. CASE MainStep \/ Disconnect \/ Terminating \/ UNCHANGED vars
    BY <1>7 DEF MainStep, BeginCleanup, LockForKill, SetKill, Join, Disconnect,
                Terminating, vars
<1> QED
    BY <1>1, <1>2, <1>3, <1>4, <1>5, <1>6, <1>7 DEF Next, WorkerStep

(***************************************************************************)
(* Commands are performed at most once, in the order of their submission,  *)
(* and none after the worker has left its loop.                            *)
(***************************************************************************)
THEOREM QueueRefinement == Spec => ImplementsQueue
<1>1. Init => Queue!Init
    BY DEF Init, Queue!Init
<1> QED
    BY <1>1, Invariant, QueueStep, PTL DEF Spec, ImplementsQueue, Queue!Spec

-----------------------------------------------------------------------------
(* The battery level.  BatteryNotFromEarlierCommand relates what a call    *)
(* returned to the place of a closure in the queue, so the invariant       *)
(* speaks of places too: they do not change once given, batteryLevel is    *)
(* that of a command at or after every battery command that has run, and   *)
(* a notified call reads it after its own command has run.                 *)

LevelFollows ==
    \A n \in 1..Len(executed) : KindOf[QueueOrder[n]] = "battery" =>
        \E m \in DOMAIN QueueOrder : m >= n /\ QueueOrder[m] = batteryLevel

\* While a battery command runs, the level is its own.
LevelOfRunning ==
    wpc \in {"comm", "notify"} /\ KindOf[Head(fq)] = "battery" =>
        batteryLevel = Head(fq)

\* The calls BatteryNotFromEarlierCommand speaks of.
Answered(c) ==
    /\ cpc[c] = "returned" /\ KindOf[c] = "battery" /\ outcome[c] = "notified"
    /\ ~SpuriousWakeups /\ ~EarlierTimeout(c)

ResultFollows ==
    \A c \in Calls : Answered(c) =>
        \E n, m \in DOMAIN QueueOrder :
            n <= m /\ QueueOrder[n] = c /\ QueueOrder[m] = result[c]

LevelInv == NoRepeat(QueueOrder) /\ LevelFollows /\ LevelOfRunning /\ ResultFollows

\* The order of the queue, closure by closure.
LEMMA OrderElements ==
    ASSUME TypeOK
    PROVE  /\ QueueOrder \in Seq(Calls)
           /\ Len(executed) \in Nat /\ Len(fq) \in Nat
           /\ Len(QueueOrder) = Len(executed) + Len(fq)
           /\ DOMAIN QueueOrder = 1..(Len(executed) + Len(fq))
           /\ \A n \in 1..Len(executed) : QueueOrder[n] = executed[n]
           /\ \A n \in 1..Len(fq) : QueueOrder[Len(executed) + n] = fq[n]
<1>1. executed \in Seq(Calls) /\ fq \in Seq(Calls)
    BY DEF TypeOK
<1> QED
    BY <1>1 DEF QueueOrder

\* A push adds one closure at the end, a pop moves none.
LEMMA PushOrder ==
    ASSUME IInv, NEW c \in Calls, PushBack(c)
    PROVE  /\ QueueOrder' = Append(QueueOrder, c)
           /\ QueueOrder' \in Seq(Calls)
           /\ \A n \in DOMAIN QueueOrder :
                  n \in DOMAIN QueueOrder' /\ QueueOrder'[n] = QueueOrder[n]
           /\ NoRepeat(QueueOrder) => NoRepeat(QueueOrder')
<1>1. executed \in Seq(Calls) /\ fq \in Seq(Calls)
    BY DEF IInv, TypeOK
<1>2. executed' = executed /\ fq' = Append(fq, c)
    BY DEF PushBack
<1>3. executed \o Append(fq, c) = Append(executed \o fq, c)
    BY <1>1
<1>4. QueueOrder' = Append(QueueOrder, c)
    BY <1>2, <1>3 DEF QueueOrder
<1>5. QueueOrder \in Seq(Calls)
    BY OrderElements DEF IInv
<1>6. c \notin ToSet(QueueOrder)
  <2>1. ~Queued(c) /\ ~Executed(c)
      BY DEF PushBack, IInv, QueuedOnce, PushedPcs
  <2>2. /\ \A n \in 1..Len(executed) : executed[n] # c
        /\ \A n \in 1..Len(fq) : fq[n] # c
      BY <1>1, <2>1 DEF Queued, Executed, ToSet
  <2>3. TypeOK
      BY DEF IInv
  <2>4. ASSUME NEW n \in DOMAIN QueueOrder
        PROVE  QueueOrder[n] # c
    <3>1. CASE n \in 1..Len(executed)
        BY <3>1, <2>2, <2>3, OrderElements
    <3>2. CASE n \notin 1..Len(executed)
      <4>1. n - Len(executed) \in 1..Len(fq) /\ n = Len(executed) + (n - Len(executed))
          BY <3>2, <2>3, OrderElements
      <4> QED
          BY <4>1, <2>2, <2>3, OrderElements
    <3> QED
        BY <3>1, <3>2
  <2> QED
      BY <2>4 DEF ToSet
<1>7. \A n \in DOMAIN QueueOrder : /\ n \in DOMAIN Append(QueueOrder, c)
                                  /\ Append(QueueOrder, c)[n] = QueueOrder[n]
    BY <1>5
<1>8. /\ Append(QueueOrder, c) \in Seq(Calls)
      /\ NoRepeat(QueueOrder) => NoRepeat(Append(QueueOrder, c))
    BY <1>5, <1>6, AppendElements
<1> QED
    BY <1>4, <1>7, <1>8

LEMMA SameSequence ==
    ASSUME NEW S, NEW p \in Seq(S), NEW q \in Seq(S), Len(p) = Len(q),
           \A n \in 1..Len(p) : p[n] = q[n]
    PROVE  p = q
<1>1. /\ DOMAIN p = 1..Len(p) /\ DOMAIN q = 1..Len(q)
      /\ p = [n \in DOMAIN p |-> p[n]] /\ q = [n \in DOMAIN q |-> q[n]]
    OBVIOUS
<1>2. \A n \in DOMAIN p : p[n] = q[n]
    BY <1>1
<1> QED
    BY <1>1, <1>2

LEMMA PopOrder ==
    ASSUME IInv, NotifyAndPop
    PROVE  /\ QueueOrder' = QueueOrder
           /\ Len(executed') = Len(executed) + 1
           /\ QueueOrder[Len(executed) + 1] = Head(fq)
           /\ Len(executed) + 1 \in DOMAIN QueueOrder
<1>1. executed \in Seq(Calls) /\ fq \in Seq(Calls) /\ fq # <<>>
    BY DEF IInv, TypeOK, NotifyAndPop, HeadWhileRunning
<1>2. executed' = Append(executed, Head(fq)) /\ fq' = Tail(fq)
    BY DEF NotifyAndPop
<1> DEFINE old == executed \o fq
           new == Append(executed, Head(fq)) \o Tail(fq)
<1>3. /\ Head(fq) = fq[1] /\ Head(fq) \in Calls /\ 1 \in DOMAIN fq
      /\ Tail(fq) \in Seq(Calls) /\ Len(Tail(fq)) = Len(fq) - 1 /\ Len(fq) >= 1
      /\ \A n \in 1..Len(Tail(fq)) : Tail(fq)[n] = fq[n + 1]
    BY <1>1
<1> DEFINE h == Head(fq)
           t == Tail(fq)
           e == Append(executed, h)
<1> HIDE DEF h, t
<1>4. /\ e \in Seq(Calls) /\ Len(e) = Len(executed) + 1
      /\ \A n \in 1..Len(executed) : e[n] = executed[n]
      /\ e[Len(executed) + 1] = h
    BY <1>1, <1>3 DEF h
<1> HIDE DEF e
<1>5. /\ e \o t \in Seq(Calls) /\ Len(e \o t) = Len(e) + Len(t)
      /\ \A n \in 1..Len(e) : (e \o t)[n] = e[n]
      /\ \A n \in 1..Len(t) : (e \o t)[Len(e) + n] = t[n]
    BY <1>3, <1>4 DEF t
<1>6. /\ old \in Seq(Calls) /\ Len(old) = Len(executed) + Len(fq)
      /\ \A n \in 1..Len(executed) : old[n] = executed[n]
      /\ \A n \in 1..Len(fq) : old[Len(executed) + n] = fq[n]
    BY <1>1
<1>7. Len(executed) \in Nat /\ Len(fq) \in Nat /\ Len(t) = Len(fq) - 1 /\ Len(fq) >= 1
    BY <1>1, <1>3 DEF t
<1> DEFINE f == e \o t
<1>8. f \in Seq(Calls) /\ Len(f) = Len(old)
    BY <1>4, <1>5, <1>6, <1>7
<1>9. ASSUME NEW n \in 1..Len(old)
      PROVE  f[n] = old[n]
  <2>1. CASE n <= Len(executed)
    <3>1. n \in 1..Len(executed) /\ n \in 1..Len(e)
        BY <2>1, <1>4, <1>7
    <3> QED
        BY <3>1, <1>4, <1>5, <1>6
  <2>2. CASE n = Len(executed) + 1
    <3>1. n \in 1..Len(e) /\ 1 \in 1..Len(fq)
        BY <2>2, <1>4, <1>7
    <3> QED
        BY <2>2, <3>1, <1>3, <1>4, <1>5, <1>6 DEF h
  <2>3. CASE n > Len(executed) + 1
    <3> DEFINE k == n - (Len(executed) + 1)
    <3>1. /\ k \in 1..Len(t) /\ n = Len(e) + k
          /\ k + 1 \in 1..Len(fq) /\ n = Len(executed) + (k + 1)
        BY <2>3, <1>4, <1>6, <1>7
    <3> HIDE DEF k
    <3>2. f[n] = t[k] /\ old[n] = fq[k + 1]
        BY <3>1, <1>5, <1>6
    <3>3. t[k] = fq[k + 1]
        BY <3>1, <1>3 DEF t
    <3> QED
        BY <3>2, <3>3
  <2>4. \/ n <= Len(executed) \/ n = Len(executed) + 1
        \/ n > Len(executed) + 1
    <3>1. n \in Nat
        BY <1>6, <1>7
    <3> QED
        BY <3>1, <1>7
  <2> QED
      BY <2>1, <2>2, <2>3, <2>4
<1> HIDE DEF f, old
<1>10. f = old
  <2>1. f \in Seq(Calls) /\ old \in Seq(Calls) /\ Len(f) = Len(old)
      BY <1>6, <1>8
  <2>2. \A n \in 1..Len(f) : f[n] = old[n]
      BY <1>9, <2>1
  <2> QED
      BY <2>1, <2>2, SameSequence
<1>11. QueueOrder = old /\ QueueOrder' = f
    BY <1>2 DEF QueueOrder, old, f, e, h, t
<1>12. Len(executed') = Len(executed) + 1
    BY <1>2, <1>4 DEF e, h
<1>13. old[Len(executed) + 1] = Head(fq) /\ Len(executed) + 1 \in DOMAIN old
  <2>1. 1 \in 1..Len(fq) /\ Len(executed) + 1 \in 1..Len(old)
      BY <1>6, <1>7
  <2> QED
      BY <2>1, <1>3, <1>6
<1> QED
    BY <1>10, <1>11, <1>12, <1>13

LEMMA InitLevelInv == Init => LevelInv
<1> SUFFICES ASSUME Init PROVE LevelInv
    OBVIOUS
<1>1. DOMAIN QueueOrder = {}
    BY DEF Init, QueueOrder
<1>2. Len(executed) = 0
    BY DEF Init
<1> QED
    BY <1>1, <1>2 DEF Init, LevelInv, NoRepeat, LevelFollows, LevelOfRunning,
                      ResultFollows, Answered

\* A step that neither moves a closure nor ends a call.
LEMMA LevelKeeps ==
    ASSUME LevelInv, UNCHANGED <<fq, executed, batteryLevel, result>>,
           wpc' \in {"comm", "notify"} => wpc \in {"comm", "notify"},
           \A c \in Calls : Answered(c)' => Answered(c)
    PROVE  LevelInv'
<1>1. QueueOrder' = QueueOrder
    BY DEF QueueOrder
<1> QED
    BY <1>1 DEF LevelInv, LevelFollows, LevelOfRunning, ResultFollows, NoRepeat

\* An exception, once there, stays.
LEMMA TimeoutsStay ==
    ASSUME IInv, [Next]_vars, NEW c \in Calls, EarlierTimeout(c)
    PROVE  EarlierTimeout(c)'
<1>1. PICK d \in Calls : d # c /\ FrameOf[d] = FrameOf[c] /\ outcome[d] = "timeout"
    BY DEF EarlierTimeout
<1>2. cpc[d] # "waiting"
    BY <1>1 DEF IInv, OutcomeAfterWait
<1>3. outcome'[d] = "timeout"
  <2>1. CASE NotifyAndPop
      BY <1>1, <1>2, <2>1 DEF NotifyAndPop, Woken
  <2>2. ASSUME NEW e \in Calls, CallStep(e)
        PROVE  outcome'[d] = "timeout"
    <3>1. CASE WaitTimesOut(e) \/ WakeSpuriously(e)
      <4>1. e # d
          BY <1>2, <3>1 DEF WaitTimesOut, WakeSpuriously
      <4> QED
          BY <1>1, <3>1, <4>1 DEF WaitTimesOut, WakeSpuriously, IInv, TypeOK
    <3>2. CASE Enter(e) \/ LockQueue(e) \/ PushBack(e) \/ StartWait(e) \/ Return(e)
        BY <1>1, <3>2 DEF Enter, LockQueue, PushBack, StartWait, Return
    <3> QED
        BY <2>2, <3>1, <3>2 DEF CallStep
  <2>3. CASE Next /\ ~NotifyAndPop /\ ~\E e \in Calls : CallStep(e)
      BY <1>1, <2>3, QuietSteps DEF quiet
  <2>4. CASE UNCHANGED vars
      BY <1>1, <2>4 DEF vars, callVars
  <2> QED
      BY <2>1, <2>2, <2>3, <2>4
<1> QED
    BY <1>1, <1>3 DEF EarlierTimeout

\* Who is answered after a step was so before, but for a call that returns.
LEMMA AnsweredBefore ==
    ASSUME IInv, [Next]_vars, NEW c \in Calls, ~Return(c), Answered(c)'
    PROVE  Answered(c) /\ result'[c] = result[c]
<1>1. ~EarlierTimeout(c)
    BY TimeoutsStay DEF Answered
<1>2. /\ cpc'[c] = "returned" /\ outcome'[c] = "notified"
      /\ KindOf[c] = "battery" /\ ~SpuriousWakeups
    BY DEF Answered
<1>3. cpc[c] = "returned" /\ outcome[c] = "notified" /\ result'[c] = result[c]
  <2>1. CASE NotifyAndPop
      BY <1>2, <2>1 DEF NotifyAndPop, Woken
  <2>2. ASSUME NEW e \in Calls, CallStep(e)
        PROVE  cpc[c] = "returned" /\ outcome[c] = "notified" /\ result'[c] = result[c]
    <3>1. CASE e = c
        BY <1>2, <2>2, <3>1 DEF CallStep, Enter, LockQueue, PushBack, StartWait,
                                WaitTimesOut, WakeSpuriously, IInv, TypeOK
    <3>2. CASE e # c
        BY <1>2, <2>2, <3>2 DEF CallStep, Enter, LockQueue, PushBack, StartWait,
                                WaitTimesOut, WakeSpuriously, Return, IInv, TypeOK
    <3> QED
        BY <3>1, <3>2
  <2>3. CASE Next /\ ~NotifyAndPop /\ ~\E e \in Calls : CallStep(e)
    <3>1. UNCHANGED quiet
        BY <2>3, QuietSteps
    <3>2. UNCHANGED result
      <4>1. CASE WorkerStep
          BY <2>3, <4>1
             DEF WorkerStep, Setup, ReadReport, ReadFails, ReadTimed, LockData,
                 Process, LockKill, CheckKill, LockCmd, StartCommand, Comm,
                 UnlockCmd, Finish, HidClose, callVars
      <4>2. CASE MainStep \/ Disconnect \/ Terminating
          BY <4>2 DEF MainStep, BeginCleanup, LockForKill, SetKill, Join,
                      Disconnect, Terminating, vars, callVars
      <4> QED
          BY <2>3, <4>1, <4>2 DEF Next
    <3> QED
        BY <1>2, <3>1, <3>2 DEF quiet
  <2>4. CASE UNCHANGED vars
      BY <1>2, <2>4 DEF vars, callVars
  <2> QED
      BY <2>1, <2>2, <2>3, <2>4
<1> QED
    BY <1>1, <1>2, <1>3 DEF Answered

LEMMA LevelStart ==
    ASSUME IInv, LevelInv, StartCommand
    PROVE  LevelInv'
<1>1. /\ fq # <<>> /\ wpc' = "comm"
      /\ batteryLevel' = IF KindOf[Head(fq)] = "battery"
                         THEN Head(fq) ELSE batteryLevel
      /\ UNCHANGED <<fq, executed, cpc, result, outcome>>
    BY DEF StartCommand, callVars
<1>2. QueueOrder' = QueueOrder
    BY <1>1 DEF QueueOrder
<1>3. /\ Len(executed) \in Nat /\ Len(executed) + 1 \in DOMAIN QueueOrder
      /\ QueueOrder[Len(executed) + 1] = Head(fq)
  <2>1. fq \in Seq(Calls) /\ TypeOK
      BY DEF IInv, TypeOK
  <2>2. 1 \in 1..Len(fq) /\ fq[1] = Head(fq)
      BY <1>1, <2>1
  <2> QED
      BY <2>1, <2>2, OrderElements
<1>4. LevelFollows'
  <2> SUFFICES ASSUME NEW n \in 1..Len(executed), KindOf[QueueOrder[n]] = "battery"
               PROVE  \E m \in DOMAIN QueueOrder :
                          m >= n /\ QueueOrder[m] = batteryLevel'
      BY <1>1, <1>2 DEF LevelFollows
  <2>1. CASE KindOf[Head(fq)] = "battery"
    <3>1. Len(executed) + 1 >= n
        BY <1>3
    <3> QED
        BY <1>1, <1>3, <2>1, <3>1
  <2>2. CASE KindOf[Head(fq)] # "battery"
      BY <1>1, <2>2 DEF LevelInv, LevelFollows
  <2> QED
      BY <2>1, <2>2
<1>5. LevelOfRunning'
    BY <1>1 DEF LevelOfRunning
<1>6. ResultFollows'
    BY <1>1, <1>2 DEF LevelInv, ResultFollows, Answered, EarlierTimeout
<1> QED
    BY <1>2, <1>4, <1>5, <1>6 DEF LevelInv, NoRepeat

LEMMA LevelPop ==
    ASSUME IInv, LevelInv, NotifyAndPop
    PROVE  LevelInv'
<1>1. /\ QueueOrder' = QueueOrder
      /\ Len(executed') = Len(executed) + 1 /\ Len(executed) \in Nat
      /\ QueueOrder[Len(executed) + 1] = Head(fq)
      /\ Len(executed) + 1 \in DOMAIN QueueOrder
    BY PopOrder, OrderElements DEF IInv
<1>2. wpc = "notify" /\ wpc' = "drain" /\ UNCHANGED <<batteryLevel, result>>
    BY DEF NotifyAndPop, dataVars
<1>3. LevelFollows'
  <2> SUFFICES ASSUME NEW n \in 1..(Len(executed) + 1),
                      KindOf[QueueOrder[n]] = "battery"
               PROVE  \E m \in DOMAIN QueueOrder :
                          m >= n /\ QueueOrder[m] = batteryLevel
      BY <1>1, <1>2 DEF LevelFollows
  <2>1. CASE n = Len(executed) + 1
    <3>1. batteryLevel = Head(fq)
        BY <1>1, <1>2, <2>1 DEF LevelInv, LevelOfRunning
    <3> QED
        BY <1>1, <2>1, <3>1
  <2>2. CASE n # Len(executed) + 1
    <3>1. n \in 1..Len(executed)
        BY <1>1, <2>2
    <3> QED
        BY <3>1 DEF LevelInv, LevelFollows
  <2> QED
      BY <2>1, <2>2
<1>4. LevelOfRunning'
    BY <1>2 DEF LevelOfRunning
<1>5. ResultFollows'
  <2>1. ASSUME NEW c \in Calls, Answered(c)'
        PROVE  Answered(c) /\ result'[c] = result[c]
    <3>1. ~Return(c)
        BY <1>2 DEF Return
    <3>2. [Next]_vars
        BY DEF Next, WorkerStep
    <3> QED
        BY <2>1, <3>1, <3>2, AnsweredBefore
  <2> QED
      BY <1>1, <2>1 DEF LevelInv, ResultFollows
<1> QED
    BY <1>1, <1>3, <1>4, <1>5 DEF LevelInv, NoRepeat

LEMMA LevelPush ==
    ASSUME IInv, LevelInv, NEW c \in Calls, PushBack(c)
    PROVE  LevelInv'
<1>1. /\ \A n \in DOMAIN QueueOrder :
             n \in DOMAIN QueueOrder' /\ QueueOrder'[n] = QueueOrder[n]
      /\ NoRepeat(QueueOrder')
    BY PushOrder DEF LevelInv
<1>2. UNCHANGED <<wpc, executed, batteryLevel, result, outcome>>
      /\ fq' = Append(fq, c) /\ cpc' = [cpc EXCEPT ![c] = "unlocked"]
    BY DEF PushBack, dataVars
<1>3. fq \in Seq(Calls) /\ executed \in Seq(Calls)
    BY DEF IInv, TypeOK
<1>4. LevelFollows'
  <2>1. 1..Len(executed) \subseteq DOMAIN QueueOrder
      BY OrderElements DEF IInv
  <2> QED
      BY <1>1, <1>2, <2>1 DEF LevelInv, LevelFollows
<1>5. LevelOfRunning'
  <2>1. fq # <<>> => Head(fq') = Head(fq)
      BY <1>2, <1>3
  <2> QED
      BY <1>2, <2>1 DEF LevelInv, LevelOfRunning, IInv, HeadWhileRunning
<1>6. ResultFollows'
  <2>1. ASSUME NEW d \in Calls, Answered(d)'
        PROVE  Answered(d)
      BY <1>2, <2>1 DEF Answered, EarlierTimeout, IInv, TypeOK
  <2> QED
      BY <1>1, <1>2, <2>1 DEF LevelInv, ResultFollows
<1> QED
    BY <1>1, <1>4, <1>5, <1>6 DEF LevelInv, NoRepeat

\* A call that was notified reads a level stored by its own command or after.
LEMMA LevelReturn ==
    ASSUME IInv, LevelInv, NEW c \in Calls, Return(c)
    PROVE  LevelInv'
<1>1. /\ cpc' = [cpc EXCEPT ![c] = "returned"]
      /\ result' = [result EXCEPT ![c] =
                       IF KindOf[c] = "battery" /\ outcome[c] = "notified"
                       THEN batteryLevel ELSE NoCall]
      /\ UNCHANGED <<wpc, fq, executed, batteryLevel, outcome>>
    BY DEF Return, dataVars
<1>2. QueueOrder' = QueueOrder
    BY <1>1 DEF QueueOrder
<1>3. ResultFollows'
  <2> SUFFICES ASSUME NEW d \in Calls, Answered(d)'
               PROVE  \E n, m \in DOMAIN QueueOrder :
                          n <= m /\ QueueOrder[n] = d /\ QueueOrder[m] = result'[d]
      BY <1>2 DEF ResultFollows
  <2>1. CASE d # c
    <3>1. Answered(d) /\ result'[d] = result[d]
        BY <1>1, <2>1 DEF Answered, EarlierTimeout, IInv, TypeOK
    <3> QED
        BY <3>1 DEF LevelInv, ResultFollows
  <2>2. CASE d = c
    <3>1. /\ KindOf[c] = "battery" /\ outcome[c] = "notified"
          /\ ~SpuriousWakeups /\ ~EarlierTimeout(c)
        BY <1>1, <2>2 DEF Answered, EarlierTimeout
    <3>2. result'[c] = batteryLevel
        BY <1>1, <3>1 DEF IInv, TypeOK
    <3>3. Executed(c)
        BY <3>1 DEF IInv, NotifiedMeansExecuted
    <3>4. executed \in Seq(Calls)
        BY DEF IInv, TypeOK
    <3>5. PICK n \in 1..Len(executed) : executed[n] = c
        BY <3>3, <3>4 DEF Executed, ToSet
    <3>6. n \in DOMAIN QueueOrder /\ QueueOrder[n] = c
        BY <3>5, OrderElements DEF IInv
    <3>7. PICK m \in DOMAIN QueueOrder : m >= n /\ QueueOrder[m] = batteryLevel
        BY <3>1, <3>5, <3>6 DEF LevelInv, LevelFollows
    <3>8. n <= m
        BY <3>6, <3>7, OrderElements DEF IInv
    <3> QED
        BY <2>2, <3>2, <3>6, <3>7, <3>8
  <2> QED
      BY <2>1, <2>2
<1> QED
    BY <1>1, <1>2, <1>3 DEF LevelInv, NoRepeat, LevelFollows, LevelOfRunning

LEMMA LevelStep == IInv /\ LevelInv /\ [Next]_vars => LevelInv'
<1> SUFFICES ASSUME IInv, LevelInv, [Next]_vars
             PROVE  LevelInv'
    OBVIOUS
<1>1. CASE StartCommand
    BY <1>1, LevelStart
<1>2. CASE NotifyAndPop
    BY <1>2, LevelPop
<1>3. ASSUME NEW c \in Calls, PushBack(c) \/ Return(c)
      PROVE  LevelInv'
    BY <1>3, LevelPush, LevelReturn
<1>4. ASSUME NEW c \in Calls, CallStep(c), ~PushBack(c), ~Return(c)
      PROVE  LevelInv'
  <2>1. UNCHANGED <<fq, executed, batteryLevel, wpc, result>>
      BY <1>4 DEF CallStep, Enter, LockQueue, StartWait, WaitTimesOut,
                  WakeSpuriously, dataVars
  <2>2. \A d \in Calls : Answered(d)' => Answered(d)
    <3>1. ASSUME NEW d \in Calls, Answered(d)'
          PROVE  Answered(d)
      <4>1. ~EarlierTimeout(d)
          BY <3>1, TimeoutsStay DEF Answered
      <4>2. cpc[d] = "returned" /\ outcome[d] = "notified"
          BY <1>4, <3>1 DEF Answered, CallStep, Enter, LockQueue, StartWait,
                            WaitTimesOut, WakeSpuriously, IInv, TypeOK
      <4> QED
          BY <3>1, <4>1, <4>2 DEF Answered
    <3> QED
        BY <3>1
  <2> QED
      BY <2>1, <2>2, LevelKeeps
<1>5. CASE \/ WorkerStep /\ ~StartCommand /\ ~NotifyAndPop
           \/ MainStep \/ Disconnect \/ Terminating \/ UNCHANGED vars
  <2>1. UNCHANGED <<fq, executed, batteryLevel, result, cpc, outcome>>
    <3>1. CASE WorkerStep /\ ~StartCommand /\ ~NotifyAndPop
        BY <3>1 DEF WorkerStep, Setup, ReadReport, ReadFails, ReadTimed, LockData,
                    Process, LockKill, CheckKill, LockCmd, Comm, UnlockCmd,
                    Finish, HidClose, callVars, dataVars
    <3>2. CASE MainStep \/ Disconnect \/ Terminating \/ UNCHANGED vars
        BY <3>2 DEF MainStep, BeginCleanup, LockForKill, SetKill, Join,
                    Disconnect, Terminating, vars, callVars, dataVars
    <3> QED
        BY <1>5, <3>1, <3>2
  <2>2. wpc' \in {"comm", "notify"} => wpc \in {"comm", "notify"}
    <3>1. CASE WorkerStep /\ ~StartCommand /\ ~NotifyAndPop
        BY <3>1 DEF WorkerStep, Setup, ReadReport, ReadFails, ReadTimed, LockData,
                    Process, LockKill, CheckKill, LockCmd, Comm, UnlockCmd,
                    Finish, HidClose
    <3>2. CASE MainStep \/ Disconnect \/ Terminating \/ UNCHANGED vars
        BY <3>2 DEF MainStep, BeginCleanup, LockForKill, SetKill, Join,
                    Disconnect, Terminating, vars
    <3> QED
        BY <1>5, <3>1, <3>2
  <2>3. \A d \in Calls : Answered(d)' => Answered(d)
      BY <2>1 DEF Answered, EarlierTimeout
  <2> QED
      BY <2>1, <2>2, <2>3, LevelKeeps
<1> QED
    BY <1>1, <1>2, <1>3, <1>4, <1>5 DEF Next

(***************************************************************************)
(* GetBatteryLevel() never returns the leftover of an earlier command, up  *)
(* to spurious wakeups and stack addresses used again after a timeout,     *)
(* although it reads batteryLevel without a lock.                          *)
(***************************************************************************)
THEOREM BatterySound == Spec => []BatteryNotFromEarlierCommand
<1>1. IInv /\ LevelInv => BatteryNotFromEarlierCommand
  <2> SUFFICES ASSUME IInv, LevelInv, NEW c \in Calls, Answered(c)
               PROVE  result[c] # NoCall /\ Position(result[c]) >= Position(c)
      BY DEF BatteryNotFromEarlierCommand, Answered
  <2>1. PICK n \in DOMAIN QueueOrder : \E m \in DOMAIN QueueOrder :
            n <= m /\ QueueOrder[n] = c /\ QueueOrder[m] = result[c]
      BY DEF LevelInv, ResultFollows
  <2>2. PICK m \in DOMAIN QueueOrder :
            n <= m /\ QueueOrder[n] = c /\ QueueOrder[m] = result[c]
      BY <2>1
  <2>3. Position(c) = n
      BY <2>2 DEF Position, LevelInv, NoRepeat
  <2>4. Position(result[c]) = m
      BY <2>2 DEF Position, LevelInv, NoRepeat
  <2>5. result[c] \in Calls
      BY <2>2, OrderElements DEF IInv
  <2>6. n \in Nat /\ m \in Nat
      BY OrderElements DEF IInv
  <2> QED
      BY <2>2, <2>3, <2>4, <2>5, <2>6, CallsAssumption
<1> QED
    BY <1>1, InitIInv, IInvStep, InitLevelInv, LevelStep, PTL DEF Spec
=============================================================================

----------------------------- MODULE JoyconLoop -----------------------------
(***************************************************************************)
(* One JoyCon object: the thread that runs jcLoop() (the worker), the      *)
(* threads that call its queue functions, and the main thread that ends it *)
(* with Cleanup().  They share the deque fq under cmdmtx, the flag do_kill *)
(* under datamtx, and one condition variable per call, a local variable    *)
(* `consume` of the caller's stack frame that the queued closure captures  *)
(* by reference.                                                           *)
(*                                                                         *)
(* An element of Calls is one invocation of a queue function.  FrameOf     *)
(* gives the stack address of its `consume`: two invocations made one      *)
(* after the other by one thread may well get the same address, and a late *)
(* notification for the first then reaches the second.                     *)
(*                                                                         *)
(* A whole exchange with the controller (comm(): one output report, up to  *)
(* eight reads) is one step here.                                          *)
(***************************************************************************)
EXTENDS Naturals, Sequences, SequencesExt

CONSTANTS Calls,             (* invocations of the queue functions *)
          Frames,            (* stack addresses of `consume` variables *)
          KindOf,            (* which queue function a call invokes *)
          FrameOf,           (* where the `consume` of a call lives *)
          SpuriousWakeups,   (* may wait_for() return for no reason? *)
          NoCall             (* not a call: the value before any command *)

Kinds == {"toggle", "sensitivity", "battery"}

ASSUME CallsAssumption ==
    /\ KindOf \in [Calls -> Kinds]
    /\ FrameOf \in [Calls -> Frames]
    /\ SpuriousWakeups \in BOOLEAN
    /\ NoCall \notin Calls

VARIABLES
    wpc,           (* where the worker is in jcLoop() *)
    mpc,           (* where the main thread is in Cleanup() *)
    cpc,           (* where each call is in its queue function *)
    datamtx,       (* who holds datamtx: "free", "worker" or "main" *)
    cmdmtx,        (* who holds cmdmtx: "free", "worker" or "caller" *)
    do_kill,       (* the flag Cleanup() sets *)
    fq,            (* the queued closures, the one being run at the head *)
    link,          (* "up", or "gone" once the controller is disconnected *)
    jc,            (* the hid_device handle: "open" or "closed" *)
    batteryLevel,  (* the call whose closure last wrote batteryLevel *)
    imuScale,      (* the call whose closure last set the IMU multipliers *)
    result,        (* what a call returned: for GetBatteryLevel the writer
                      of the value, NoCall for the initial zero *)
    outcome,       (* how wait_for() ended: "none", "notified", "timeout" *)
    executed,      (* history: the calls whose closures have run, in order *)
    lateDrains     (* history: times the worker began to drain fq after
                      do_kill was set *)

vars == <<wpc, mpc, cpc, datamtx, cmdmtx, do_kill, fq, link, jc, batteryLevel,
          imuScale, result, outcome, executed, lateDrains>>

callVars == <<cpc, result, outcome>>
dataVars == <<batteryLevel, imuScale>>

WorkerPcs == {"setup", "read", "readTimed", "lockData", "process", "lockKill",
              "checkKill", "lockCmd", "drain", "comm", "notify", "finish",
              "close", "done"}
MainPcs == {"running", "lockKill", "setKill", "join", "joined"}
CallPcs == {"idle", "lock", "push", "unlocked", "waiting", "return", "returned"}

\* The states in which the stack frame of a call, and so its `consume`, exists.
LivePcs == {"lock", "push", "unlocked", "waiting", "return"}

Live(c) == cpc[c] \in LivePcs

\* Mutant: batteryLevel has no initialiser.
InitUninitialised ==
    /\ wpc = "setup" /\ mpc = "running" /\ cpc = [c \in Calls |-> "idle"]
    /\ datamtx = "free" /\ cmdmtx = "free" /\ do_kill = FALSE
    /\ fq = <<>> /\ link = "up" /\ jc = "open"
    /\ batteryLevel = "garbage" /\ imuScale = NoCall
    /\ result = [c \in Calls |-> NoCall]
    /\ outcome = [c \in Calls |-> "none"]
    /\ executed = <<>> /\ lateDrains = 0

Init ==
    /\ wpc = "setup"
    /\ mpc = "running"
    /\ cpc = [c \in Calls |-> "idle"]
    /\ datamtx = "free"
    /\ cmdmtx = "free"
    /\ do_kill = FALSE
    /\ fq = <<>>
    /\ link = "up"
    /\ jc = "open"
    /\ batteryLevel = NoCall
    /\ imuScale = NoCall
    /\ result = [c \in Calls |-> NoCall]
    /\ outcome = [c \in Calls |-> "none"]
    /\ executed = <<>>
    /\ lateDrains = 0

-----------------------------------------------------------------------------
(* The worker: jcLoop().                                                   *)

\* jcSetup(): the set-up exchanges, after which the IMU multipliers are the
\* ones of no call.
Setup ==
    /\ wpc = "setup"
    /\ wpc' = "read"
    /\ imuScale' = NoCall
    /\ UNCHANGED <<mpc, datamtx, cmdmtx, do_kill, fq, link, jc, batteryLevel,
                   callVars, executed, lateDrains>>

\* hid_read_buffer(.., false).  The handle is in blocking mode, so this read
\* has no time limit: it ends when a report arrives ...
ReadReport ==
    /\ wpc = "read"
    /\ link = "up"
    /\ wpc' = "lockData"
    /\ UNCHANGED <<mpc, datamtx, cmdmtx, do_kill, fq, link, jc, dataVars,
                   callVars, executed, lateDrains>>

\* Mutant: a failed read is simply tried again.
ReadFailsRetries ==
    /\ wpc = "read"
    /\ link = "gone"
    /\ UNCHANGED vars

\* ... or when the device is gone, with an error; and then the second operand
\* of || is evaluated.
ReadFails ==
    /\ wpc = "read"
    /\ link = "gone"
    /\ wpc' = "readTimed"
    /\ UNCHANGED <<mpc, datamtx, cmdmtx, do_kill, fq, link, jc, dataVars,
                   callVars, executed, lateDrains>>

\* Mutant: do_kill is looked at only after a report has been processed.
ReadTimedSkipsKill ==
    /\ wpc = "readTimed"
    /\ wpc' \in {"lockData", "lockCmd"}
    /\ UNCHANGED <<mpc, datamtx, cmdmtx, do_kill, fq, link, jc, dataVars,
                   callVars, executed, lateDrains>>

\* hid_read_buffer(.., true): at most 200 ms.  A report that had been queued
\* when the device went away is still returned.
ReadTimed ==
    /\ wpc = "readTimed"
    /\ wpc' \in {"lockData", "lockKill"}
    /\ UNCHANGED <<mpc, datamtx, cmdmtx, do_kill, fq, link, jc, dataVars,
                   callVars, executed, lateDrains>>

LockData ==
    /\ wpc = "lockData"
    /\ datamtx = "free"
    /\ datamtx' = "worker"
    /\ wpc' = "process"
    /\ UNCHANGED <<mpc, cmdmtx, do_kill, fq, link, jc, dataVars, callVars,
                   executed, lateDrains>>

\* process() works on the worker's own buffer; then datamtx is released.
Process ==
    /\ wpc = "process"
    /\ datamtx' = "free"
    /\ wpc' = "lockKill"
    /\ UNCHANGED <<mpc, cmdmtx, do_kill, fq, link, jc, dataVars, callVars,
                   executed, lateDrains>>

LockKill ==
    /\ wpc = "lockKill"
    /\ datamtx = "free"
    /\ datamtx' = "worker"
    /\ wpc' = "checkKill"
    /\ UNCHANGED <<mpc, cmdmtx, do_kill, fq, link, jc, dataVars, callVars,
                   executed, lateDrains>>

\* The break leaves the loop with datamtx held; nothing releases it later.
CheckKill ==
    /\ wpc = "checkKill"
    /\ \/ /\ do_kill
          /\ wpc' = "finish"
          /\ UNCHANGED datamtx
       \/ /\ ~do_kill
          /\ wpc' = "lockCmd"
          /\ datamtx' = "free"
    /\ UNCHANGED <<mpc, cmdmtx, do_kill, fq, link, jc, dataVars, callVars,
                   executed, lateDrains>>

LockCmd ==
    /\ wpc = "lockCmd"
    /\ cmdmtx = "free"
    /\ cmdmtx' = "worker"
    /\ wpc' = "drain"
    /\ lateDrains' = IF do_kill THEN lateDrains + 1 ELSE lateDrains
    /\ UNCHANGED <<mpc, datamtx, do_kill, fq, link, jc, dataVars, callVars,
                   executed>>

\* Mutant: the level is stored only the first time.
StartCommandCaches ==
    /\ wpc = "drain"
    /\ fq # <<>>
    /\ wpc' = "comm"
    /\ batteryLevel' = IF KindOf[Head(fq)] = "battery" /\ batteryLevel = NoCall
                       THEN Head(fq) ELSE batteryLevel
    /\ UNCHANGED <<mpc, datamtx, cmdmtx, do_kill, fq, link, jc, imuScale,
                   callVars, executed, lateDrains>>

\* while (!fq.empty()): fq.front()() starts.  get_battery_level() stores its
\* value before its exchange with the controller.
StartCommand ==
    /\ wpc = "drain"
    /\ fq # <<>>
    /\ wpc' = "comm"
    /\ batteryLevel' = IF KindOf[Head(fq)] = "battery"
                       THEN Head(fq) ELSE batteryLevel
    /\ UNCHANGED <<mpc, datamtx, cmdmtx, do_kill, fq, link, jc, imuScale,
                   callVars, executed, lateDrains>>

\* subcomm(), whose result is ignored; set_imu_sensitivity() then updates the
\* multipliers whether or not the controller has answered.
Comm ==
    /\ wpc = "comm"
    /\ wpc' = "notify"
    /\ imuScale' = IF KindOf[Head(fq)] = "sensitivity"
                   THEN Head(fq) ELSE imuScale
    /\ UNCHANGED <<mpc, datamtx, cmdmtx, do_kill, fq, link, jc, batteryLevel,
                   callVars, executed, lateDrains>>

\* Mutant: one condition variable for all calls.
WokenTogether(c) == {d \in Calls : cpc[d] = "waiting"}

\* The calls that notify_all() on the `consume` of c wakes: the ones waiting
\* at that address, if the address is still, or again, one of a live frame.
Woken(c) == {d \in Calls : FrameOf[d] = FrameOf[c] /\ cpc[d] = "waiting"}

\* Mutant: fq.pop_front() is missing.
NotifyWithoutPop ==
    /\ wpc = "notify"
    /\ LET c == Head(fq) IN
         /\ cpc' = [d \in Calls |-> IF d \in Woken(c) THEN "return" ELSE cpc[d]]
         /\ outcome' = [d \in Calls |->
                            IF d \in Woken(c) THEN "notified" ELSE outcome[d]]
         /\ executed' = Append(executed, c)
    /\ wpc' = "drain"
    /\ UNCHANGED <<mpc, datamtx, cmdmtx, do_kill, fq, link, jc, dataVars,
                   result, lateDrains>>

\* consume->notify_all() and fq.pop_front().
NotifyAndPop ==
    /\ wpc = "notify"
    /\ LET c == Head(fq) IN
         /\ cpc' = [d \in Calls |-> IF d \in Woken(c) THEN "return" ELSE cpc[d]]
         /\ outcome' = [d \in Calls |->
                            IF d \in Woken(c) THEN "notified" ELSE outcome[d]]
         /\ executed' = Append(executed, c)
    /\ fq' = Tail(fq)
    /\ wpc' = "drain"
    /\ UNCHANGED <<mpc, datamtx, cmdmtx, do_kill, link, jc, dataVars, result,
                   lateDrains>>

UnlockCmd ==
    /\ wpc = "drain"
    /\ fq = <<>>
    /\ cmdmtx' = "free"
    /\ wpc' = "read"
    /\ UNCHANGED <<mpc, datamtx, do_kill, fq, link, jc, dataVars, callVars,
                   executed, lateDrains>>

\* finish(): four exchanges; each ends even when the controller is silent.
Finish ==
    /\ wpc = "finish"
    /\ wpc' = "close"
    /\ UNCHANGED <<mpc, datamtx, cmdmtx, do_kill, fq, link, jc, dataVars,
                   callVars, executed, lateDrains>>

HidClose ==
    /\ wpc = "close"
    /\ jc' = "closed"
    /\ wpc' = "done"
    /\ UNCHANGED <<mpc, datamtx, cmdmtx, do_kill, fq, link, dataVars, callVars,
                   executed, lateDrains>>

-----------------------------------------------------------------------------
(* A call of ToggleParameter, SetIMUSensitivity or GetBatteryLevel.        *)

\* The frame is entered: it must not belong to a call still in progress.
Enter(c) ==
    /\ cpc[c] = "idle"
    /\ \A d \in Calls : FrameOf[d] = FrameOf[c] => ~Live(d)
    /\ cpc' = [cpc EXCEPT ![c] = "lock"]
    /\ UNCHANGED <<wpc, mpc, datamtx, cmdmtx, do_kill, fq, link, jc, dataVars,
                   result, outcome, executed, lateDrains>>

LockQueue(c) ==
    /\ cpc[c] = "lock"
    /\ cmdmtx = "free"
    /\ cmdmtx' = "caller"
    /\ cpc' = [cpc EXCEPT ![c] = "push"]
    /\ UNCHANGED <<wpc, mpc, datamtx, do_kill, fq, link, jc, dataVars, result,
                   outcome, executed, lateDrains>>

\* Mutant: fq.push_front(..).
PushFront(c) ==
    /\ cpc[c] = "push"
    /\ fq' = <<c>> \o fq
    /\ cmdmtx' = "free"
    /\ cpc' = [cpc EXCEPT ![c] = "unlocked"]
    /\ UNCHANGED <<wpc, mpc, datamtx, do_kill, link, jc, dataVars, result,
                   outcome, executed, lateDrains>>

\* fq.push_back(..) and cmdmtx->unlock().
PushBack(c) ==
    /\ cpc[c] = "push"
    /\ fq' = Append(fq, c)
    /\ cmdmtx' = "free"
    /\ cpc' = [cpc EXCEPT ![c] = "unlocked"]
    /\ UNCHANGED <<wpc, mpc, datamtx, do_kill, link, jc, dataVars, result,
                   outcome, executed, lateDrains>>

\* The call of wait_for(): a notification sent before it is lost.
StartWait(c) ==
    /\ cpc[c] = "unlocked"
    /\ cpc' = [cpc EXCEPT ![c] = "waiting"]
    /\ UNCHANGED <<wpc, mpc, datamtx, cmdmtx, do_kill, fq, link, jc, dataVars,
                   result, outcome, executed, lateDrains>>

\* Mutant: the caller waits again after a timeout.
WaitAgain(c) ==
    /\ cpc[c] = "waiting"
    /\ cpc' = [cpc EXCEPT ![c] = "unlocked"]
    /\ outcome' = [outcome EXCEPT ![c] = "timeout"]
    /\ UNCHANGED <<wpc, mpc, datamtx, cmdmtx, do_kill, fq, link, jc, dataVars,
                   result, executed, lateDrains>>

\* 100 ms have passed.
WaitTimesOut(c) ==
    /\ cpc[c] = "waiting"
    /\ cpc' = [cpc EXCEPT ![c] = "return"]
    /\ outcome' = [outcome EXCEPT ![c] = "timeout"]
    /\ UNCHANGED <<wpc, mpc, datamtx, cmdmtx, do_kill, fq, link, jc, dataVars,
                   result, executed, lateDrains>>

\* wait_for() without a predicate returns no_timeout on a spurious wakeup.
WakeSpuriously(c) ==
    /\ SpuriousWakeups
    /\ cpc[c] = "waiting"
    /\ cpc' = [cpc EXCEPT ![c] = "return"]
    /\ outcome' = [outcome EXCEPT ![c] = "notified"]
    /\ UNCHANGED <<wpc, mpc, datamtx, cmdmtx, do_kill, fq, link, jc, dataVars,
                   result, executed, lateDrains>>

\* GetBatteryLevel() returns 0 after a timeout, else batteryLevel as it is
\* now, read without a lock; the frame and its `consume` are gone.
Return(c) ==
    /\ cpc[c] = "return"
    /\ cpc' = [cpc EXCEPT ![c] = "returned"]
    /\ result' = [result EXCEPT ![c] =
                    IF KindOf[c] = "battery" /\ outcome[c] = "notified"
                    THEN batteryLevel ELSE NoCall]
    /\ UNCHANGED <<wpc, mpc, datamtx, cmdmtx, do_kill, fq, link, jc, dataVars,
                   outcome, executed, lateDrains>>

-----------------------------------------------------------------------------
(* The main thread: Cleanup(), called once, when ctrl-c has been caught.   *)

\* Mutant: do_kill is set before datamtx is taken.
BeginCleanupSetsKill ==
    /\ mpc = "running"
    /\ do_kill' = TRUE
    /\ mpc' = "lockKill"
    /\ UNCHANGED <<wpc, datamtx, cmdmtx, fq, link, jc, dataVars, callVars,
                   executed, lateDrains>>

BeginCleanup ==
    /\ mpc = "running"
    /\ mpc' = "lockKill"
    /\ UNCHANGED <<wpc, datamtx, cmdmtx, do_kill, fq, link, jc, dataVars,
                   callVars, executed, lateDrains>>

LockForKill ==
    /\ mpc = "lockKill"
    /\ datamtx = "free"
    /\ datamtx' = "main"
    /\ mpc' = "setKill"
    /\ UNCHANGED <<wpc, cmdmtx, do_kill, fq, link, jc, dataVars, callVars,
                   executed, lateDrains>>

\* Mutant: the assignment to do_kill is lost.
SetKillLost ==
    /\ mpc = "setKill"
    /\ datamtx' = "free"
    /\ mpc' = "join"
    /\ UNCHANGED <<wpc, cmdmtx, do_kill, fq, link, jc, dataVars, callVars,
                   executed, lateDrains>>

SetKill ==
    /\ mpc = "setKill"
    /\ do_kill' = TRUE
    /\ datamtx' = "free"
    /\ mpc' = "join"
    /\ UNCHANGED <<wpc, cmdmtx, fq, link, jc, dataVars, callVars, executed,
                   lateDrains>>

\* jcloop.join()
Join ==
    /\ mpc = "join"
    /\ wpc = "done"
    /\ mpc' = "joined"
    /\ UNCHANGED <<wpc, datamtx, cmdmtx, do_kill, fq, link, jc, dataVars,
                   callVars, executed, lateDrains>>

-----------------------------------------------------------------------------
(* The environment.                                                        *)

Disconnect ==
    /\ link = "up"
    /\ link' = "gone"
    /\ UNCHANGED <<wpc, mpc, datamtx, cmdmtx, do_kill, fq, jc, dataVars,
                   callVars, executed, lateDrains>>

\* The program has ended: everything has returned.
Terminating ==
    /\ mpc = "joined"
    /\ \A c \in Calls : cpc[c] = "returned"
    /\ UNCHANGED vars

WorkerStep ==
    \/ Setup \/ ReadReport \/ ReadFails \/ ReadTimed
    \/ LockData \/ Process \/ LockKill \/ CheckKill
    \/ LockCmd \/ StartCommand \/ Comm \/ NotifyAndPop \/ UnlockCmd
    \/ Finish \/ HidClose

CallStep(c) ==
    \/ Enter(c) \/ LockQueue(c) \/ PushBack(c)
    \/ StartWait(c) \/ WaitTimesOut(c) \/ WakeSpuriously(c) \/ Return(c)

MainStep == BeginCleanup \/ LockForKill \/ SetKill \/ Join

Next ==
    \/ WorkerStep
    \/ \E c \in Calls : CallStep(c)
    \/ MainStep
    \/ Disconnect
    \/ Terminating

Spec == Init /\ [][Next]_vars

(***************************************************************************)
(* Fairness.  Threads are scheduled: a thread that can take a step does    *)
(* (weak fairness), a thread asking again and again for a mutex that is    *)
(* again and again released gets it (strong fairness: an assumption, which *)
(* std::mutex does not promise; a read between two acquisitions makes room *)
(* for the others only while the link holds, for later it fails at once).  *)
(* Timed waits end.  Nothing makes a call begin, ctrl-c come, the          *)
(* controller send or the link break.                                      *)
(***************************************************************************)
WorkerProgress ==
    \/ Setup \/ ReadFails \/ ReadTimed \/ Process \/ CheckKill
    \/ StartCommand \/ Comm \/ NotifyAndPop \/ UnlockCmd \/ Finish \/ HidClose

WorkerLocks == LockData \/ LockKill \/ LockCmd

CallProgress(c) == PushBack(c) \/ StartWait(c) \/ WaitTimesOut(c) \/ Return(c)

Fairness ==
    /\ WF_vars(WorkerProgress)
    /\ SF_vars(WorkerLocks)
    /\ \A c \in Calls : WF_vars(CallProgress(c)) /\ SF_vars(LockQueue(c))
    /\ SF_vars(LockForKill)
    /\ WF_vars(SetKill \/ Join)

\* The controller may fall silent while connected.
FairSpec == Spec /\ Fairness

\* A connected controller keeps sending: what report mode 0x30 is for.
KeepsSending == WF_vars(ReadReport)

-----------------------------------------------------------------------------
TypeOK ==
    /\ wpc \in WorkerPcs
    /\ mpc \in MainPcs
    /\ cpc \in [Calls -> CallPcs]
    /\ datamtx \in {"free", "worker", "main"}
    /\ cmdmtx \in {"free", "worker", "caller"}
    /\ do_kill \in BOOLEAN
    /\ fq \in Seq(Calls)
    /\ link \in {"up", "gone"}
    /\ jc \in {"open", "closed"}
    /\ batteryLevel \in Calls \union {NoCall}
    /\ imuScale \in Calls \union {NoCall}
    /\ result \in [Calls -> Calls \union {NoCall}]
    /\ outcome \in [Calls -> {"none", "notified", "timeout"}]
    /\ executed \in Seq(Calls)
    /\ lateDrains \in Nat

Executed(c) == c \in ToSet(executed)
Queued(c) == c \in ToSet(fq)

\* Some other call on the frame of c gave up waiting.
EarlierTimeout(c) ==
    \E d \in Calls : d # c /\ FrameOf[d] = FrameOf[c] /\ outcome[d] = "timeout"

(***************************************************************************)
(* A call whose wait_for() did not time out has had its command executed,  *)
(* unless wait_for() woke spuriously or an earlier call at the same stack  *)
(* address gave up, its closure ran later and notified the wrong call.     *)
(* About ToggleParameter, SetIMUSensitivity and GetBatteryLevel, which     *)
(* take no_timeout for "done".                                             *)
(***************************************************************************)
NotifiedMeansExecuted ==
    \A c \in Calls :
        outcome[c] = "notified" =>
            Executed(c) \/ SpuriousWakeups \/ EarlierTimeout(c)

(***************************************************************************)
(* The `consume` captured by a queued closure is destroyed before the      *)
(* closure runs only if its caller gave up on it, by its timeout or by     *)
(* one of the false wakeups above: the closure is never left behind by a   *)
(* normal return.  About the reference capture of `consume`.               *)
(***************************************************************************)
DanglingOnlyAfterGivingUp ==
    \A c \in Calls :
        Queued(c) /\ ~Live(c) =>
            outcome[c] = "timeout" \/ SpuriousWakeups \/ EarlierTimeout(c)

\* The calls in the order in which their closures were queued.
QueueOrder == executed \o fq

Position(c) == CHOOSE i \in DOMAIN QueueOrder : QueueOrder[i] = c

(***************************************************************************)
(* GetBatteryLevel returns, when it was notified, a level stored by its    *)
(* own command or by a later one, never the leftover of an earlier         *)
(* command, with the same two exceptions.  About the unlocked read of      *)
(* batteryLevel after wait_for().                                          *)
(***************************************************************************)
BatteryNotFromEarlierCommand ==
    \A c \in Calls :
        /\ cpc[c] = "returned" /\ KindOf[c] = "battery"
        /\ outcome[c] = "notified"
        => \/ SpuriousWakeups \/ EarlierTimeout(c)
           \/ result[c] # NoCall /\ Position(result[c]) >= Position(c)

(***************************************************************************)
(* Once do_kill is set the worker drains the queue at most once more: the  *)
(* flag is looked at in every round of jcLoop().                           *)
(***************************************************************************)
KillHeededWithinOneRound == lateDrains <= 1

(***************************************************************************)
(* The worker never leaves the main thread stuck: when the main thread     *)
(* waits for datamtx to set do_kill, the mutex is free or its holder will  *)
(* release it (the worker that keeps it for good has seen do_kill).        *)
(* About the break in jcLoop() that skips datamtx->unlock().               *)
(***************************************************************************)
LeakedLockOnlyAfterKill ==
    wpc \in {"finish", "close", "done"} => do_kill /\ mpc \in {"join", "joined"}

(***************************************************************************)
(* The queue implements CommandQueue.                                      *)
(***************************************************************************)
Queue == INSTANCE CommandQueue WITH
            pending <- fq,
            performed <- executed,
            open <- wpc \notin {"finish", "close", "done"}

\* Commands are performed at most once, in order, and not after the shutdown.
ImplementsQueue == Queue!Spec

(***************************************************************************)
(* ... and its fairness, while the controller keeps sending: every queued  *)
(* command is performed unless the object is shut down.                    *)
(***************************************************************************)
CommandsPerformed == KeepsSending => Queue!Fairness

(***************************************************************************)
(* Ctrl-c ends the object: Cleanup() returns.  jcLoop() announces it:      *)
(* "main loop start (ctrl-c to exit)".                                     *)
(***************************************************************************)
CleanupReturns == (mpc = "lockKill") ~> (mpc = "joined")

(***************************************************************************)
(* Ctrl-c does end the object while its controller keeps sending, or when  *)
(* the link is broken, whatever commands are queued.                       *)
(***************************************************************************)
CleanupReturnsIfSending == KeepsSending => CleanupReturns

(***************************************************************************)
(* Every call returns, also when the controller is silent, when the link   *)
(* is broken and when the object has been shut down.                       *)
(***************************************************************************)
CallsReturn == \A c \in Calls : (cpc[c] = "lock") ~> (cpc[c] = "returned")
=============================================================================

------------------------------- MODULE MacHid -------------------------------
(***************************************************************************)
(* One open device of hidapi for macOS (libs/hidapi/mac/hid.c): the user's *)
(* thread, which opens, reads, writes and closes it, and the read thread,  *)
(* whose run loop dispatches input reports and the removal of the device   *)
(* to callbacks.  They share the report list under a mutex with a          *)
(* condition variable, the flags `disconnected` and `shutdown_thread`      *)
(* under nothing, and meet at a barrier when the read thread starts and at *)
(* another when it ends.                                                   *)
(*                                                                         *)
(* macOS has no pthread_barrier_t.  The one of this file waits on its      *)
(* condition variable once, without a loop, so that a spurious wakeup lets *)
(* the first of the two through before the second has arrived.             *)
(*                                                                         *)
(* Reports are numbered in the order of their arrival; `sent` counts them  *)
(* and `last` is the one that hid_read() returned last.                    *)
(***************************************************************************)
EXTENDS Naturals, Sequences

CONSTANTS
    Limit,             (* the 30 of hid_report_callback() *)
    NumReports,        (* bound: how many reports the device sends *)
    SpuriousWakeups    (* may pthread_cond_wait() return for no reason? *)

ASSUME MacHidAssumption ==
    /\ Limit \in Nat
    /\ NumReports \in Nat
    /\ SpuriousWakeups \in BOOLEAN

VARIABLES
    pc,                (* where each of the two threads is *)
    mutex,             (* who holds dev->mutex: "free", "user" *)
    input_reports,     (* the list of reports *)
    disconnected, shutdown_thread,
    source,            (* has dev->source been created? *)
    run_loop,          (* has dev->run_loop been set? *)
    arrived,           (* the count of each barrier *)
    signalled,         (* the source has been signalled *)
    wakeup,            (* the run loop has been told to wake up *)
    plugged,           (* the device is connected *)
    registered,        (* the two callbacks are registered *)
    timeout,           (* of the current hid_read_timeout(): "block" for -1,
                          "timed" for more than 0, "poll" for 0 *)
    result,            (* what the last call returned: "none" before any *)
    sent, last,
    early              (* history: the barriers left before both had come *)

vars == <<pc, mutex, input_reports, disconnected, shutdown_thread, source,
          run_loop, arrived, signalled, wakeup, plugged, registered, timeout,
          result, sent, last, early>>

flags == <<disconnected, shutdown_thread>>
loopVars == <<source, run_loop, signalled, wakeup, registered>>
barrierVars == <<arrived, early>>
readVars == <<timeout, result, last>>
deviceVars == <<plugged, sent>>

Threads == {"user", "thread"}
Barriers == {"start", "shutdown"}

\* A thread at pc[p] = b, a barrier, is about to call pthread_barrier_wait().
Waiting == [start |-> "startWait", shutdown |-> "shutdownWait"]
After == [start |-> [user |-> "idle", thread |-> "loop"],
          shutdown |-> [user |-> "join", thread |-> "ended"]]

UserPcs == {"new", "start", "startWait", "idle", "sleep", "waiting", "woken",
            "timedOut", "send", "setShutdown", "signal", "wakeUp", "shutdown",
            "shutdownWait", "join", "closeHandle", "clear", "closed",
            "crashed"}
ThreadPcs == {"none", "schedule", "runLoop", "start", "startWait", "loop",
              "service", "asleep", "stopped", "broadcast", "shutdown",
              "shutdownWait", "ended"}

Goto(p, place) == pc' = [pc EXCEPT ![p] = place]

\* hid_close() has begun.
Closing == {"setShutdown", "signal", "wakeUp", "shutdown", "shutdownWait",
            "join", "closeHandle", "clear", "closed", "crashed"}

Init ==
    /\ pc = [user |-> "new", thread |-> "none"]
    /\ mutex = "free" /\ input_reports = <<>>
    /\ disconnected = FALSE /\ shutdown_thread = FALSE
    /\ source = FALSE /\ run_loop = FALSE
    /\ arrived = [b \in Barriers |-> 0]
    /\ signalled = FALSE /\ wakeup = FALSE
    /\ plugged = TRUE /\ registered = FALSE
    /\ timeout = "block" /\ result = "none"
    /\ sent = 0 /\ last = 0
    /\ early = {}

-----------------------------------------------------------------------------
(* The barrier.                                                            *)

\* Mutant: the count is not reset.
BarrierWaitCounts(p, b) ==
    /\ pc[p] = b
    /\ arrived' = [arrived EXCEPT ![b] = @ + 1]
    /\ IF arrived[b] + 1 >= 2
       THEN pc' = [q \in Threads |->
                     IF q = p \/ pc[q] = Waiting[b] THEN After[b][q] ELSE pc[q]]
       ELSE Goto(p, Waiting[b])
    /\ UNCHANGED <<mutex, input_reports, flags, loopVars, readVars,
                   deviceVars, early>>

\* pthread_barrier_wait(): the second to arrive resets the count and wakes
\* the first, the first waits.
BarrierWait(p, b) ==
    /\ pc[p] = b
    /\ IF arrived[b] + 1 >= 2
       THEN /\ arrived' = [arrived EXCEPT ![b] = 0]
            /\ pc' = [q \in Threads |->
                        IF q = p \/ pc[q] = Waiting[b] THEN After[b][q]
                                                       ELSE pc[q]]
       ELSE /\ arrived' = [arrived EXCEPT ![b] = @ + 1]
            /\ Goto(p, Waiting[b])
    /\ UNCHANGED <<mutex, input_reports, flags, loopVars, readVars,
                   deviceVars, early>>

\* pthread_cond_wait() without a loop: a spurious wakeup ends it, and the
\* count remains.
BarrierSpurious(p, b) ==
    /\ SpuriousWakeups
    /\ pc[p] = Waiting[b]
    /\ Goto(p, After[b][p])
    /\ early' = early \union {b}
    /\ UNCHANGED <<mutex, input_reports, flags, loopVars, readVars,
                   deviceVars, arrived>>

-----------------------------------------------------------------------------
(* The read thread.                                                        *)

\* read_thread() moves the device to its run loop and creates the source by
\* which hid_close() can stop it ...
CreateSource ==
    /\ pc["thread"] = "schedule"
    /\ Goto("thread", "runLoop")
    /\ source' = TRUE
    /\ UNCHANGED <<mutex, input_reports, flags, run_loop, signalled, wakeup,
                   registered, barrierVars, readVars, deviceVars>>

\* ... and then stores the run loop.
StoreRunLoop ==
    /\ pc["thread"] = "runLoop"
    /\ Goto("thread", "start")
    /\ run_loop' = TRUE
    /\ UNCHANGED <<mutex, input_reports, flags, source, signalled, wakeup,
                   registered, barrierVars, readVars, deviceVars>>

\* The head of the event loop.
TestLoop ==
    /\ pc["thread"] = "loop"
    /\ Goto("thread", IF ~shutdown_thread /\ ~disconnected THEN "service"
                                                           ELSE "broadcast")
    /\ UNCHANGED <<mutex, input_reports, flags, loopVars, barrierVars,
                   readVars, deviceVars>>

\* CFRunLoopRunInMode(): the run loop looks for work, and sleeps when it has
\* none until it is told to wake up.
RunLoopSleeps ==
    /\ pc["thread"] = "service" /\ ~signalled
    /\ Goto("thread", "asleep")
    /\ UNCHANGED <<mutex, input_reports, flags, loopVars, barrierVars,
                   readVars, deviceVars>>

RunLoopWakes ==
    /\ pc["thread"] = "asleep" /\ wakeup
    /\ Goto("thread", "service")
    /\ wakeup' = FALSE
    /\ UNCHANGED <<mutex, input_reports, flags, source, run_loop, signalled,
                   registered, barrierVars, readVars, deviceVars>>

\* Mutant: a call that has timed out is taken for a failed one.
RunLoopTimesOutFails ==
    /\ pc["thread"] = "asleep"
    /\ Goto("thread", "broadcast")
    /\ shutdown_thread' = TRUE
    /\ UNCHANGED <<mutex, input_reports, disconnected, loopVars, barrierVars,
                   readVars, deviceVars>>

\* After a thousand seconds the call ends and the loop begins it again.
RunLoopTimesOut ==
    /\ pc["thread"] = "asleep"
    /\ Goto("thread", "loop")
    /\ UNCHANGED <<mutex, input_reports, flags, loopVars, barrierVars,
                   readVars, deviceVars>>

\* perform_signal_callback() stops the run loop.
PerformSignal ==
    /\ pc["thread"] = "service" /\ signalled
    /\ signalled' = FALSE
    /\ Goto("thread", "stopped")
    /\ UNCHANGED <<mutex, input_reports, flags, source, run_loop, wakeup,
                   registered, barrierVars, readVars, deviceVars>>

InRunLoop == pc["thread"] \in {"service", "asleep"}

\* pthread_cond_signal() or pthread_cond_broadcast(): the reader, if it waits.
WakeReader(place) ==
    pc' = [pc EXCEPT !["thread"] = place,
                     !["user"] = IF @ = "waiting" THEN "woken" ELSE @]

\* Mutant: the newest report goes to the front.
AttachedInFront(rpts, r) ==
    IF rpts # <<>> /\ Len(rpts) - 1 > Limit
    THEN Tail(<<r>> \o rpts) ELSE <<r>> \o rpts

\* The list after a report has been attached.  num_queued counts the nodes in
\* front of the one that was last.
Attached(rpts, r) ==
    IF rpts # <<>> /\ Len(rpts) - 1 > Limit
    THEN Tail(Append(rpts, r)) ELSE Append(rpts, r)

\* hid_report_callback(): the list changes, and the reader is signalled, under
\* the mutex.
ReportCallback ==
    /\ InRunLoop /\ plugged /\ registered /\ sent < NumReports
    /\ mutex = "free"
    /\ sent' = sent + 1
    /\ input_reports' = Attached(input_reports, sent + 1)
    /\ WakeReader("service")
    /\ UNCHANGED <<mutex, flags, loopVars, barrierVars, readVars, plugged>>

\* hid_device_removal_callback(): sets the flag and stops the run loop.
RemovalCallback ==
    /\ InRunLoop /\ ~plugged /\ registered /\ ~disconnected
    /\ disconnected' = TRUE
    /\ Goto("thread", "stopped")
    /\ UNCHANGED <<mutex, input_reports, shutdown_thread, loopVars,
                   barrierVars, readVars, deviceVars>>

\* The call returns kCFRunLoopRunStopped, ...
RunLoopStopped ==
    /\ pc["thread"] = "stopped"
    /\ shutdown_thread' = TRUE
    /\ Goto("thread", "broadcast")
    /\ UNCHANGED <<mutex, input_reports, disconnected, loopVars, barrierVars,
                   readVars, deviceVars>>

\* ... or kCFRunLoopRunFinished, which the code takes for a disconnection.
RunLoopFinished ==
    /\ InRunLoop /\ ~plugged
    /\ disconnected' = TRUE
    /\ Goto("thread", "broadcast")
    /\ UNCHANGED <<mutex, input_reports, shutdown_thread, loopVars,
                   barrierVars, readVars, deviceVars>>

\* Mutant: the waiting threads are woken without the mutex.
BroadcastUnlocked ==
    /\ pc["thread"] = "broadcast"
    /\ WakeReader("shutdown")
    /\ UNCHANGED <<mutex, input_reports, flags, loopVars, barrierVars,
                   readVars, deviceVars>>

\* Mutant: the read thread ends without waiting for hid_close().
BroadcastAndEnd ==
    /\ pc["thread"] = "broadcast" /\ mutex = "free"
    /\ WakeReader("ended")
    /\ UNCHANGED <<mutex, input_reports, flags, loopVars, barrierVars,
                   readVars, deviceVars>>

\* The threads that wait for data are woken, under the mutex.
Broadcast ==
    /\ pc["thread"] = "broadcast" /\ mutex = "free"
    /\ WakeReader("shutdown")
    /\ UNCHANGED <<mutex, input_reports, flags, loopVars, barrierVars,
                   readVars, deviceVars>>

-----------------------------------------------------------------------------
(* The user's thread: opening, reading, writing.                           *)

\* hid_open_path() with a path that names nothing, a device that cannot be
\* created or opened, or without a HID manager.
OpenFails ==
    /\ pc["user"] = "new"
    /\ result' = "null"
    /\ UNCHANGED <<pc, mutex, input_reports, flags, loopVars, barrierVars,
                   timeout, last, deviceVars>>

\* Mutant: hid_open_path() does not wait for the read thread.
OpenPathReturns ==
    /\ pc["user"] = "new" /\ plugged
    /\ registered' = TRUE
    /\ pc' = [user |-> "idle", thread |-> "schedule"]
    /\ result' = "open"
    /\ UNCHANGED <<mutex, input_reports, flags, source, run_loop, signalled,
                   wakeup, barrierVars, timeout, last, deviceVars>>

\* hid_open_path() registers the callbacks and starts the read thread.
OpenPath ==
    /\ pc["user"] = "new" /\ plugged
    /\ registered' = TRUE
    /\ pc' = [user |-> "start", thread |-> "schedule"]
    /\ result' = "open"
    /\ UNCHANGED <<mutex, input_reports, flags, source, run_loop, signalled,
                   wakeup, barrierVars, timeout, last, deviceVars>>

\* return_data(): the first report leaves the list.
ReturnData ==
    /\ last' = Head(input_reports)
    /\ input_reports' = Tail(input_reports)
    /\ result' = "data"

\* A call ends without data.
Return(value) ==
    /\ Goto("user", "idle")
    /\ result' = value
    /\ UNCHANGED <<input_reports, last>>

\* hid_read_timeout() with the mutex in its hand: a report, an error, or in
\* the three ways of waiting nothing yet.  A reader that is going to sleep
\* keeps the mutex until it does.
Read(t) ==
    /\ pc["user"] = "idle" /\ mutex = "free"
    /\ timeout' = t
    /\ \/ /\ input_reports # <<>>
          /\ ReturnData /\ UNCHANGED <<pc, mutex>>
       \/ /\ input_reports = <<>> /\ (disconnected \/ shutdown_thread)
          /\ Return("error") /\ UNCHANGED mutex
       \/ /\ input_reports = <<>> /\ ~disconnected /\ ~shutdown_thread
          /\ IF t = "poll"
             THEN Return("nothing") /\ UNCHANGED mutex
             ELSE /\ Goto("user", "sleep") /\ mutex' = "user"
                  /\ UNCHANGED <<input_reports, last, result>>
    /\ UNCHANGED <<flags, loopVars, barrierVars, deviceVars>>

\* pthread_cond_wait() and pthread_cond_timedwait() release the mutex.
Sleep ==
    /\ pc["user"] = "sleep"
    /\ Goto("user", "waiting") /\ mutex' = "free"
    /\ UNCHANGED <<input_reports, flags, loopVars, barrierVars, readVars,
                   deviceVars>>

WakesSpuriously ==
    /\ SpuriousWakeups /\ pc["user"] = "waiting"
    /\ Goto("user", "woken")
    /\ UNCHANGED <<mutex, input_reports, flags, loopVars, barrierVars,
                   readVars, deviceVars>>

WaitTimesOut ==
    /\ pc["user"] = "waiting" /\ timeout = "timed"
    /\ Goto("user", "timedOut")
    /\ UNCHANGED <<mutex, input_reports, flags, loopVars, barrierVars,
                   readVars, deviceVars>>

\* cond_wait() and cond_timedwait() after a wakeup: the flags come first, so
\* that a report which is there is left there; then the condition of the loop.
Woken ==
    /\ pc["user"] = "woken" /\ mutex = "free"
    /\ \/ /\ shutdown_thread \/ disconnected
          /\ Return("error") /\ UNCHANGED mutex
       \/ /\ ~shutdown_thread /\ ~disconnected /\ input_reports # <<>>
          /\ ReturnData /\ Goto("user", "idle") /\ UNCHANGED mutex
       \/ /\ ~shutdown_thread /\ ~disconnected /\ input_reports = <<>>
          /\ Goto("user", "sleep") /\ mutex' = "user"
          /\ UNCHANGED <<input_reports, last, result>>
    /\ UNCHANGED <<flags, timeout, loopVars, barrierVars, deviceVars>>

\* The wait reports ETIMEDOUT and hid_read_timeout() returns 0.
TimedOut ==
    /\ pc["user"] = "timedOut" /\ mutex = "free"
    /\ Return("nothing")
    /\ UNCHANGED <<mutex, flags, timeout, loopVars, barrierVars, deviceVars>>

\* set_report(), for hid_write() and hid_send_feature_report(), and
\* hid_get_feature_report(): the device is called if it has not been found
\* disconnected; set_report() looks twice.
Send ==
    /\ pc["user"] = "idle"
    /\ IF disconnected
       THEN Return("error")
       ELSE Goto("user", "send") /\ UNCHANGED <<input_reports, last, result>>
    /\ UNCHANGED <<mutex, flags, timeout, loopVars, barrierVars, deviceVars>>

SendNow ==
    /\ pc["user"] = "send"
    /\ \/ ~disconnected /\ plugged /\ Return("written")
       \/ Return("error")
    /\ UNCHANGED <<mutex, flags, timeout, loopVars, barrierVars, deviceVars>>

-----------------------------------------------------------------------------
(* hid_close().                                                            *)

\* The callbacks are taken off, if the device is still there.
CloseBegins ==
    /\ pc["user"] = "idle"
    /\ Goto("user", "setShutdown")
    /\ registered' = (registered /\ disconnected)
    /\ UNCHANGED <<mutex, input_reports, flags, source, run_loop, signalled,
                   wakeup, barrierVars, readVars, deviceVars>>

SetShutdown ==
    /\ pc["user"] = "setShutdown"
    /\ Goto("user", "signal")
    /\ shutdown_thread' = TRUE
    /\ UNCHANGED <<mutex, input_reports, disconnected, loopVars, barrierVars,
                   readVars, deviceVars>>

\* CFRunLoopSourceSignal(), which a NULL source crashes.
SignalSource ==
    /\ pc["user"] = "signal"
    /\ IF source THEN Goto("user", "wakeUp") /\ signalled' = TRUE
                 ELSE Goto("user", "crashed") /\ UNCHANGED signalled
    /\ UNCHANGED <<mutex, input_reports, flags, source, run_loop, wakeup,
                   registered, barrierVars, readVars, deviceVars>>

\* Mutant: the run loop is not woken.
WakeUpForgotten ==
    /\ pc["user"] = "wakeUp"
    /\ Goto("user", IF run_loop THEN "shutdown" ELSE "crashed")
    /\ UNCHANGED <<mutex, input_reports, flags, loopVars, barrierVars,
                   readVars, deviceVars>>

\* CFRunLoopWakeUp(), likewise.
WakeUp ==
    /\ pc["user"] = "wakeUp"
    /\ IF run_loop THEN Goto("user", "shutdown") /\ wakeup' = TRUE
                   ELSE Goto("user", "crashed") /\ UNCHANGED wakeup
    /\ UNCHANGED <<mutex, input_reports, flags, source, run_loop, signalled,
                   registered, barrierVars, readVars, deviceVars>>

Join ==
    /\ pc["user"] = "join" /\ pc["thread"] = "ended"
    /\ Goto("user", "closeHandle")
    /\ UNCHANGED <<mutex, input_reports, flags, loopVars, barrierVars,
                   readVars, deviceVars>>

\* IOHIDDeviceClose(), unless the device has been found disconnected.  It may
\* have gone without that.
CloseHandle ==
    /\ pc["user"] = "closeHandle"
    /\ Goto("user", "clear")
    /\ UNCHANGED <<mutex, input_reports, flags, loopVars, barrierVars,
                   readVars, deviceVars>>

\* The list is emptied and the memory given back.
ClearAndFree ==
    /\ pc["user"] = "clear" /\ mutex = "free"
    /\ Goto("user", "closed")
    /\ input_reports' = <<>>
    /\ UNCHANGED <<mutex, flags, loopVars, barrierVars, readVars, deviceVars>>

-----------------------------------------------------------------------------
(* The device.                                                             *)

Unplug ==
    /\ plugged
    /\ plugged' = FALSE
    /\ UNCHANGED <<pc, mutex, input_reports, flags, loopVars, barrierVars,
                   readVars, sent>>

\* The program goes on without the device.
Terminating ==
    /\ \/ pc["user"] \in {"closed", "crashed"}
       \/ pc["user"] = "new" /\ ~plugged
    /\ UNCHANGED vars

ThreadStep ==
    \/ \E b \in Barriers : BarrierWait("thread", b)
    \/ CreateSource \/ StoreRunLoop \/ TestLoop \/ RunLoopSleeps
    \/ RunLoopWakes \/ PerformSignal \/ RemovalCallback \/ RunLoopStopped

UserStep ==
    \/ \E b \in Barriers : BarrierWait("user", b)
    \/ Sleep \/ WaitTimesOut \/ Woken \/ TimedOut \/ SendNow
    \/ SetShutdown \/ SignalSource \/ WakeUp \/ Join \/ CloseHandle
    \/ ClearAndFree

\* What begins only if the user, the device or the system wants it to.
Unforced ==
    \/ OpenFails \/ OpenPath \/ Send \/ CloseBegins
    \/ \E t \in {"block", "timed", "poll"} : Read(t)
    \/ ReportCallback \/ Unplug \/ RunLoopTimesOut \/ RunLoopFinished
    \/ WakesSpuriously
    \/ \E p \in Threads, b \in Barriers : BarrierSpurious(p, b)

Next == ThreadStep \/ Broadcast \/ UserStep \/ Unforced \/ Terminating

Spec == Init /\ [][Next]_vars

\* Both threads run; the mutex, which is held for moments, is had in the end by
\* who asks for it again and again; and a run loop that is entered again and
\* again dispatches the removal.
Fairness ==
    /\ WF_vars(ThreadStep) /\ SF_vars(Broadcast) /\ SF_vars(RemovalCallback)
    /\ WF_vars(UserStep) /\ SF_vars(Woken) /\ SF_vars(TimedOut)

FairSpec == Spec /\ Fairness

-----------------------------------------------------------------------------
(* Properties.                                                             *)

TypeOK ==
    /\ pc \in [Threads -> UserPcs \union ThreadPcs]
    /\ pc["user"] \in UserPcs /\ pc["thread"] \in ThreadPcs
    /\ mutex \in {"free", "user"}
    /\ input_reports \in Seq(1..sent)
    /\ disconnected \in BOOLEAN /\ shutdown_thread \in BOOLEAN
    /\ source \in BOOLEAN /\ run_loop \in BOOLEAN
    /\ arrived \in [Barriers -> 0..1]
    /\ signalled \in BOOLEAN /\ wakeup \in BOOLEAN
    /\ plugged \in BOOLEAN /\ registered \in BOOLEAN
    /\ timeout \in {"block", "timed", "poll"}
    /\ result \in {"none", "null", "open", "data", "nothing", "error", "written"}
    /\ sent \in 0..NumReports /\ last \in 0..sent
    /\ early \subseteq Barriers

\* The two threads, the callbacks, the list and its limit keep the promise of
\* hidapi to a reader: a lossy channel that gives the reports out in order.
Channel == INSTANCE ReportChannel WITH
    Depth <- Limit + 2,
    phase <- CASE pc["user"] = "new" -> "new"
               [] pc["user"] = "closed" -> "closed"
               [] pc["user"] \notin {"new", "closed"} /\ plugged -> "open"
               [] OTHER -> "gone",
    waiting <- input_reports

ImplementsChannel == Channel!Spec

\* hid_close() and read_thread(): CFRunLoopWakeUp() is called while the read
\* thread, whose run loop it wakes, still exists, as the last comment of
\* read_thread() asks for.  Only a spurious wakeup at the shutdown barrier
\* breaks this.
WakesLiveThread ==
    [][WakeUp => pc["thread"] # "ended" \/ "shutdown" \in early]_vars

\* hid_open_path() hands out a handle whose run loop and source exist, as
\* hid_close() takes for granted, unless the startup barrier woke spuriously.
NoNullRunLoop == pc["user"] = "crashed" => "start" \in early

\* hid_read_timeout(): the flags that make a read fail are up only when the
\* device has gone or hid_close() has begun, never because the run loop's
\* thousand seconds were over or a wait was woken for no reason.
NoFalseAlarm ==
    disconnected \/ shutdown_thread => ~plugged \/ pc["user"] \in Closing

\* hid_read_timeout(): a reader never sleeps while a report is waiting or the
\* device has gone; it is woken by whichever callback comes, in any order with
\* its going to sleep.
BlockedReadEnds ==
    (pc["user"] \in {"sleep", "waiting", "woken"}
        /\ (input_reports # <<>> \/ ~plugged)) ~> pc["user"] = "idle"

\* hid_close(): ends whatever the run loop was doing when it was called.
CloseReturns == pc["user"] = "setShutdown" ~> pc["user"] \in {"closed", "crashed"}
=============================================================================
